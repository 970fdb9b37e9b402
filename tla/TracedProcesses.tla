--------------------------- MODULE TracedProcesses ---------------------------
(***************************************************************************)
(* ProcessLineage fed by real processes: a Linux kernel that forks,        *)
(* clones, execs, kills and reuses task ids, and the ptrace loop           *)
(* (src/tachikoma.cpp) that turns stops into events.                       *)
(*                                                                         *)
(* A traced task runs until its next ptrace stop and then waits for the    *)
(* tracer, so every task has at most one unhandled stop, and the tracer    *)
(* may handle the stops of different tasks in any order.  Nothing but the  *)
(* tracer can tell when a task reached a syscall stop, so reaching it and  *)
(* its handling are one step; an event stop is separate, because the new   *)
(* task or image runs on while the stop waits.  The kernel is              *)
(* external: it is modelled from what waitpid, PTRACE_GETEVENTMSG and      *)
(* /proc/<tid>/status tell the loop.  A freshly attached task's SIGSTOP,   *)
(* signal-delivery stops and PTRACE_EVENT_EXIT stops carry no event to the *)
(* analyzer and are left out here.                                         *)
(***************************************************************************)
EXTENDS Naturals, Sequences, FiniteSets

CONSTANTS
  Tid, MaxInstances, MaxGeneration,
  Root,             (* The task id of the traced program.                   *)
  MaxTasks,         (* Bounds the number of tasks ever created.             *)
  MaxImages,        (* Bounds the execs of one process.                     *)
  Workloads         (* What a traced program may be: the calls its tasks    *)
                    (* make, how many tasks there are, and whether signals  *)
                    (* may kill its processes.                              *)

ASSUME WorkloadAssumption ==
  /\ Root \in Tid
  /\ MaxImages \in Nat
  /\ \A w \in Workloads : w.signals \in BOOLEAN /\ w.tasks \in 1 .. MaxTasks

ASSUME BoundsAssumption ==
  MaxTasks \in Nat \ {0} /\ MaxInstances \in Nat /\ MaxGeneration \in Nat
ASSUME TidAssumption == 0 \notin Tid   (* 0 stands for no task id.         *)

Calls == UNION {w.calls : w \in Workloads}

VARIABLES
  workload,         (* which of the workloads this program is               *)
  nextInstance, active, node, ended, tids, generation, inherited, createdBy,
  causality, pending

analyzer == << nextInstance, active, node, ended, tids, generation, inherited,
               createdBy, causality, pending >>

PL == INSTANCE ProcessLineage

ASSUME CallsAssumption == Calls \subseteq PL!Call

VARIABLES
  task,             (* kernel: who has a task id                            *)
  phase,            (* kernel: where that task is, its ptrace stop included *)
  image,            (* kernel: successful execs of each process             *)
  parent,           (* kernel: the process each process was forked by       *)
  leader,           (* kernel: the task id each process was started under   *)
  nextTask,
  snapshot,         (* tracer: the call in pending_syscall_entry_           *)
  tgidCache,        (* tracer: tgid_by_tid_                                 *)
  attributed,       (* history: which process image got which image key     *)
  early,            (* history: the tasks whose exit was handled before the *)
                    (* stop of a creator that names their id                *)
  mistaken          (* history: a task was taken for one of another process *)

kernel  == << task, phase, image, parent, leader, nextTask >>
tracer  == << snapshot, tgidCache >>
history == << attributed, early, mistaken >>
vars    == << workload, analyzer, kernel, tracer, history >>

(* A process is named by the number of the task that first led it.         *)
Task   == 1 .. MaxTasks
NoTask == [id |-> 0, process |-> 0, tgid |-> PL!NoTid]
NoProcess == 0

User          == [at |-> "user"]
InKernel(call) == [at |-> "kernel", call |-> call]
Forked(call, child) == [at |-> "event", call |-> call, child |-> child]
Execed        == [at |-> "exec"]
Returning(call, child) == [at |-> "exit", call |-> call, child |-> child]
Dead          == [at |-> "dead"]
Reported      == [at |-> "reported"]   (* the tracer was told of the death  *)

TypeOK ==
  /\ PL!TypeOK
  /\ workload \in Workloads
  /\ task \in [Tid -> [id: Task, process: Task, tgid: Tid] \cup {NoTask}]
  /\ phase \in [Tid -> {User, Execed, Dead, Reported}
                       \cup [at: {"kernel"}, call: Calls]
                       \cup [at: {"event"}, call: Calls, child: Tid]
                       \cup [at: {"exit"}, call: Calls, child: Tid \cup {PL!NoTid}]]
  /\ image \in [Task -> 0 .. MaxImages]
  /\ parent \in [Task -> Task \cup {NoProcess}]
  /\ leader \in [Task -> Tid \cup {PL!NoTid}]
  /\ nextTask \in 1 .. MaxTasks + 1
  /\ snapshot \in [Tid -> Calls \cup {"none"}]
  /\ tgidCache \in [Tid -> Tid \cup {PL!NoTid}]
  /\ attributed \subseteq [instance: PL!Instance, generation: 0 .. MaxGeneration,
                           process: Task, image: 0 .. MaxImages]
  /\ early \subseteq [tid: Tid, process: Task, id: Task]
  /\ mistaken \in BOOLEAN

Init ==
  /\ PL!Init
  /\ workload \in Workloads
  /\ task = [t \in Tid |-> IF t = Root THEN [id |-> 1, process |-> 1, tgid |-> Root]
                                       ELSE NoTask]
  /\ phase = [t \in Tid |-> IF t = Root THEN User ELSE Dead]
  /\ image = [p \in Task |-> 0]
  /\ parent = [p \in Task |-> NoProcess]
  /\ leader = [p \in Task |-> IF p = 1 THEN Root ELSE PL!NoTid]
  /\ nextTask = 2
  /\ snapshot = [t \in Tid |-> "none"]
  /\ tgidCache = [t \in Tid |-> PL!NoTid]
  /\ attributed = {} /\ early = {} /\ mistaken = FALSE

-----------------------------------------------------------------------------
(* The kernel.                                                             *)
Exists(t)  == task[t] # NoTask
Running(t) == Exists(t) /\ phase[t] \notin {Dead, Reported}
Group(g)   == {t \in Tid : Exists(t) /\ task[t].tgid = g}
IsLeader(t) == task[t].tgid = t
Free       == {t \in Tid : ~Exists(t)}

KernelOnly == UNCHANGED << analyzer, tracer, history >>

(* A new task takes a free id and runs at once, before its creator's       *)
(* PTRACE_EVENT_FORK/VFORK/CLONE stop is handled.                          *)
Spawn(t, child, process, tgid) ==
  /\ nextTask <= workload.tasks
  /\ child \in Free
  /\ task' = [task EXCEPT ![child] = [id |-> nextTask, process |-> process, tgid |-> tgid]]
  /\ phase' = [phase EXCEPT ![t] = Forked(phase[t].call, child), ![child] = User]
  /\ nextTask' = nextTask + 1
  /\ UNCHANGED image
  /\ KernelOnly

ForkProcess(t, child) ==
  /\ phase[t].at = "kernel" /\ phase[t].call \in {"fork", "clone3"}
  /\ Spawn(t, child, nextTask, child)
  /\ parent' = [parent EXCEPT ![nextTask] = task[t].process]
  /\ leader' = [leader EXCEPT ![nextTask] = child]

CloneThread(t, child) ==
  /\ phase[t].at = "kernel" /\ phase[t].call \in {"clone_thread", "clone3"}
  /\ Spawn(t, child, task[t].process, task[t].tgid)
  /\ UNCHANGED << parent, leader >>

(* execve kills every other thread; the caller takes over the leader's id  *)
(* and its own old id disappears without a wait status.                    *)
Execve(t) ==
  LET g == task[t].tgid
      p == task[t].process
  IN
  /\ phase[t].at = "kernel" /\ phase[t].call = "execve"
  /\ image[p] < MaxImages
  /\ image' = [image EXCEPT ![p] = @ + 1]
  /\ task' = [u \in Tid |-> CASE u = g -> task[t]
                              [] u = t /\ t # g -> NoTask
                              [] OTHER -> task[u]]
  /\ phase' = [u \in Tid |-> CASE u = g -> Execed
                               [] u \in Group(g) /\ u # g -> Dead
                               [] OTHER -> phase[u]]
  /\ UNCHANGED << parent, leader, nextTask >>
  /\ KernelOnly

Die(who) ==
  /\ phase' = [t \in Tid |-> IF t \in who THEN Dead ELSE phase[t]]
  /\ UNCHANGED << task, image, parent, leader, nextTask >>
  /\ KernelOnly

ThreadExit(t) ==
  /\ phase[t] = InKernel("exit")
  /\ Die({t})

GroupExit(t) ==
  /\ phase[t] = InKernel("exit_group")
  /\ Die(Group(task[t].tgid))

Killed(g) ==
  /\ workload.signals
  /\ \E t \in Group(g) : Running(t)
  /\ Die(Group(g))

(* Once the tracer has been told of it the death of a process is its       *)
(* parent's to wait for, which it cannot before the fork has returned.     *)
Release(t) ==
  /\ phase[t] = Reported
  /\ \A u \in Tid : phase[u].at \in {"event", "exit"} => phase[u].child # t
  /\ task' = [task EXCEPT ![t] = NoTask]
  /\ phase' = [phase EXCEPT ![t] = Dead]
  /\ UNCHANGED << image, parent, leader, nextTask >>
  /\ KernelOnly

-----------------------------------------------------------------------------
(* The tracer: Tachikoma::run and its handlers.                            *)

(* resolve_tgid: the cached answer, else /proc, else the tid itself.       *)
ResolveTgid(t) ==
  IF tgidCache[t] # PL!NoTid THEN tgidCache[t]
  ELSE IF Exists(t) THEN task[t].tgid
  ELSE t

Cached(ts) ==
  [t \in Tid |-> IF t \in ts /\ Exists(t) THEN ResolveTgid(t) ELSE tgidCache[t]]

(* Every handler asks for the process of the task that stopped.            *)
Resolves(ts) ==
  /\ tgidCache' = Cached(ts)
  /\ mistaken' = (mistaken \/ \E t \in ts : Exists(t) /\ ResolveTgid(t) # task[t].tgid)

(* Whether the stop of the call that made the task has been handled.       *)
Announced(t) == \A u \in Tid : phase[u].at = "event" => phase[u].child # t

(* handle_syscall_stop at an entry stop.                                   *)
HandleEntry(t, call) ==
  /\ Exists(t) /\ phase[t] = User
  /\ Resolves({t})
  /\ snapshot' = [snapshot EXCEPT ![t] = call]
  /\ PL!Entry(t, ResolveTgid(t), call)
  /\ attributed' = attributed \cup
       {[instance |-> pending'[t].instance, generation |-> pending'[t].generation,
         process |-> task[t].process, image |-> image[task[t].process]]}
  /\ early' = IF call \in {"exit", "exit_group"} /\ ~Announced(t)
              THEN early \cup {[tid |-> t, process |-> task[t].process, id |-> task[t].id]}
              ELSE early
  /\ phase' = [phase EXCEPT ![t] = InKernel(call)]
  /\ UNCHANGED << task, image, parent, leader, nextTask >>

(* A call returns with the task it made, or with none: it failed, or makes *)
(* no tasks.                                                               *)
MayReturn(t) ==
  /\ Exists(t)
  /\ \/ phase[t].at = "exit"
     \/ phase[t].at = "kernel" /\ phase[t].call \notin {"exit", "exit_group"}

Made(t) == IF phase[t].at = "exit" THEN phase[t].child ELSE PL!NoTid

(* handle_syscall_stop at an exit stop: the entry's snapshot, if there is  *)
(* one, says which call returned.                                          *)
HandleExit(t) ==
  LET call == IF snapshot[t] # "none" THEN snapshot[t] ELSE phase[t].call IN
  /\ MayReturn(t)
  /\ Resolves({t})
  /\ snapshot' = [snapshot EXCEPT ![t] = "none"]
  /\ PL!Exit(t, ResolveTgid(t), call, Made(t))
  /\ phase' = [phase EXCEPT ![t] = User]
  /\ UNCHANGED << task, image, parent, leader, nextTask, attributed, early >>

(* handle_ptrace_event.  Its wait is for the child's first stop; that it   *)
(* may take a later one of a child adopted before is left to TracerLoop.   *)
HandleFork(t) ==
  LET child == phase[t].child IN
  /\ Exists(t) /\ phase[t].at = "event"
  /\ Resolves({t, child})
  /\ PL!TaskCreate(ResolveTgid(t), child, ResolveTgid(child))
  /\ phase' = [phase EXCEPT ![t] = Returning(phase[t].call, child)]
  /\ UNCHANGED << task, image, parent, leader, nextTask, snapshot, attributed, early >>

(* run, PTRACE_EVENT_EXEC.                                                 *)
HandleExec(t) ==
  /\ Exists(t) /\ phase[t].at = "exec"
  /\ Resolves({t})
  /\ PL!Exec(t, ResolveTgid(t))
  /\ phase' = [phase EXCEPT ![t] = Returning("execve", PL!NoTid)]
  /\ UNCHANGED << task, image, parent, leader, nextTask, snapshot, attributed, early >>

(* run, WIFEXITED or WIFSIGNALED: the tracer forgets the task id.  A dead  *)
(* leader is reported once its threads are gone, and keeps its id.         *)
HandleDeath(t) ==
  /\ Exists(t) /\ phase[t] = Dead
  /\ IsLeader(t) => Group(t) = {t}
  /\ task' = IF IsLeader(t) THEN task ELSE [task EXCEPT ![t] = NoTask]
  /\ phase' = IF IsLeader(t) THEN [phase EXCEPT ![t] = Reported] ELSE phase
  /\ snapshot' = [snapshot EXCEPT ![t] = "none"]
  /\ tgidCache' = [tgidCache EXCEPT ![t] = PL!NoTid]
  /\ UNCHANGED << image, parent, leader, nextTask, analyzer, history >>

-----------------------------------------------------------------------------
KernelStep ==
  \E t \in Tid :
    \/ Execve(t) \/ ThreadExit(t) \/ GroupExit(t) \/ Killed(t) \/ Release(t)
    \/ \E child \in Tid : ForkProcess(t, child) \/ CloneThread(t, child)

TracerStep ==
  \E t \in Tid :
    \/ \E call \in workload.calls : HandleEntry(t, call)
    \/ HandleExit(t) \/ HandleFork(t) \/ HandleExec(t) \/ HandleDeath(t)

Next == (KernelStep \/ TracerStep) /\ UNCHANGED workload

Spec == Init /\ [][Next]_vars

-----------------------------------------------------------------------------
(* Every death is reported by an exit call of the last thread: nothing is  *)
(* killed, and no thread's creation can be handled after its exit (which   *)
(* lists the thread again, and its process is then never ended).           *)
DeathsAreReported ==
  /\ ~workload.signals
  /\ workload.calls \cap {"clone_thread", "clone3"} = {}

(* A process image key, (instance, generation), stands for one executable  *)
(* image of one process lifetime, even when Linux reuses the TGID          *)
(* (process_image_key.hpp: "Identity of an observed process executable     *)
(* image").                                                                *)
KeyIdentifiesImage ==
  DeathsAreReported =>
  \A a, b \in attributed :
    a.instance = b.instance /\ a.generation = b.generation =>
      a.process = b.process /\ a.image = b.image

(* And one image has one key: no lifetime is split over two instances, as  *)
(* long as no cached TGID of a task already forgotten (the fork handler    *)
(* may cache one after its death was told) is used for the next of its id. *)
ImageHasOneKey ==
  ~mistaken =>
  \A a, b \in attributed :
    a.process = b.process /\ a.image = b.image =>
      a.instance = b.instance /\ a.generation = b.generation

(* A Causality edge joins the instances of a process and the one that      *)
(* forked it, or of one whose exit was handled too early and had its id.   *)
CausalityFollowsForks ==
  DeathsAreReported =>
  \A a, b \in attributed :
    (\E n \in DOMAIN causality[a.instance] : causality[a.instance][n] = b.instance)
      => \/ parent[a.process] = b.process
         \/ \E e \in early : /\ e.tid = leader[a.process]
                            /\ parent[e.process] = b.process
                            /\ e.process < a.process

(* While a thread of an observed process is still to exit, its process     *)
(* stays active: handle_thread_exit never mistakes a thread for the last.  *)
LiveProcessIsActive ==
  ~mistaken =>
  /\ TypeOK
  /\ \A t \in Tid :
       /\ Running(t)
       /\ phase[t] \notin {InKernel("exit"), InKernel("exit_group")}
       /\ \E a \in attributed : a.process = task[t].process
       => PL!IsActive(task[t].tgid)

(* Once a process is reaped its TGID is free for the next one, and nothing *)
(* in the analyzer still answers for it, unless the last process to have   *)
(* it exited before it was announced: handle_task_create then makes it an  *)
(* instance which nothing ends (ensure_process, lineage_analyzer.cpp:504). *)
NoInstanceOutlivesProcess ==
  DeathsAreReported =>
  \A t \in Tid :
    (~Exists(t) \/ phase[t] = Reported) /\ PL!IsActive(t) =>
      \E e \in early : e.tid = t /\ \A p \in Task : leader[p] = t => p <= e.process

(* One lifetime of a TGID has at most one process node (the first core     *)
(* invariant of tests/test_process_instance_lifetime.sh).  A TGID has one  *)
(* more, at most, when an exit under it was handled before its announce-   *)
(* ment: handle_task_create makes a node for the process already ended.    *)
OneNodePerLifetime ==
  ~mistaken =>
  \A g \in Tid :
    Cardinality({i \in PL!Instance : node[i] = g}) <=
      Cardinality({p \in Task : leader[p] = g})
        + (IF \E e \in early : g \in {e.tid, leader[e.process]} THEN 1 ELSE 0)
=============================================================================
