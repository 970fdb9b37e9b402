----------------------------- MODULE EbpfBackend -----------------------------
(***************************************************************************)
(* The eBPF backend: the three tracepoint programs of ebpf/trace.bpf.c,    *)
(* which run in the traced tasks, and EbpfBackend of src/ebpf_backend.cpp, *)
(* which takes their events from the ring buffer and hands them on.        *)
(*                                                                         *)
(* Nobody waits here: tasks run on while their events are in the ring, and *)
(* an event that finds no room is lost, while the scratch maps that its    *)
(* program has already written, or would have cleared, stay as they are.   *)
(*                                                                         *)
(* A program is one step: it touches the maps under its own task id only,  *)
(* the pid filter apart, and its place in the ring is that of its          *)
(* reservation.  Task ids are not reused.  The kernel is external.         *)
(***************************************************************************)
EXTENDS Naturals, Sequences, FiniteSets

CONSTANTS
  Task, Root,       (* Linux task ids; the child that becomes the target.   *)
  NoTask,
  Ops,              (* The calls the workload makes.                        *)
  MaxCalls,         (* Task -> a bound on its calls.                        *)
  RingSize,         (* Events that fit the ring buffer.                     *)
  FilterSize        (* max_entries of pid_filter.                           *)

ASSUME SizesAssumption == RingSize \in Nat \ {0} /\ FilterSize \in Nat \ {0}
ASSUME TaskAssumption == Root \in Task /\ NoTask \notin Task

VARIABLES
  group,            (* kernel: thread group, a Task                         *)
  status,           (* kernel: where a task is                              *)
  call,             (* kernel: its call, until it returns                   *)
  calls,            (* kernel: the calls it has made                        *)
  creator,          (* kernel: who made it                                  *)
  execs,            (* kernel: successful execs of a group                  *)
  filter,           (* pid_filter                                           *)
  parents,          (* pending_task_parent_by_tid                           *)
  readBuf,          (* pending_read_buf: whose argument is stashed          *)
  pipeBuf,          (* pending_pipefd_buf                                   *)
  ring,             (* events                                               *)
  follow,           (* follow_forks_                                        *)
  loop,             (* trace(): polling, draining, done                     *)
  initialExec,      (* suppress_initial_exec_                               *)
  execTid,          (* pending_exec_tid_by_tgid_                            *)
  pending,          (* pending_entry_ of the analyzer                       *)
  announced,        (* history: the TaskCreate events of a task             *)
  met,              (* history: tasks of which a syscall event was handed on *)
  mispaired,        (* history: << entry, exit >> of different calls that   *)
                    (* the analyzer took for one                            *)
  miscopied,        (* history: << call, call whose buffer was copied >>,   *)
                    (* where these differ                                   *)
  images,           (* history: the Exec events of a group                  *)
  lost,             (* history: groups of which an event was lost           *)
  rivals            (* history: groups with two threads in execve at once   *)

tasks   == << group, status, call, calls, creator, execs >>
scratch == << readBuf, pipeBuf >>
backend == << loop, initialExec, execTid >>
seen    == << pending, announced, met, mispaired, miscopied, images >>
vars    == << tasks, filter, parents, scratch, ring, follow, backend, seen, lost, rivals >>

NoParent == << NoTask, NoTask >>

(* A call is known by its task and number; what a task was in when it was  *)
(* first seen, its own clone among others, has number 0.                   *)
NoCall(t)   == [task |-> t, n |-> 0, op |-> "other", made |-> NoTask]
Nothing     == NoCall(NoTask)

Init ==
  /\ group = [t \in Task |-> IF t = Root THEN Root ELSE NoTask]
  /\ status = [t \in Task |-> IF t = Root THEN "called" ELSE "none"]
  /\ call = [t \in Task |-> NoCall(t)]
  /\ calls = [t \in Task |-> 0]
  /\ creator = [t \in Task |-> NoParent]
  /\ execs = [t \in Task |-> 0]
  /\ filter = {Root}
  /\ parents = [t \in Task |-> NoParent]
  /\ readBuf = [t \in Task |-> Nothing]
  /\ pipeBuf = [t \in Task |-> Nothing]
  /\ ring = << >>
  /\ follow \in BOOLEAN
  /\ loop = "polling"
  /\ initialExec = TRUE
  /\ execTid = [t \in Task |-> NoTask]
  /\ pending = [t \in Task |-> Nothing]
  /\ announced = [t \in Task |-> << >>]
  /\ met = {}
  /\ mispaired = {}
  /\ miscopied = {}
  /\ images = [t \in Task |-> 0]
  /\ lost = {}
  /\ rivals = {}

Threads(g) == {t \in Task : group[t] = g}
Alive(t)   == status[t] \notin {"none", "dead"}

(* Another thread's exec is about to kill the task.                        *)
Doomed(t) == \E u \in Threads(group[t]) \ {t} : status[u] = "dethreading"

-----------------------------------------------------------------------------
(* The programs.  raw_syscalls fires for every task, and the filter holds  *)
(* thread groups.  Once the loop has detached them nothing that the tasks  *)
(* do is seen, and the model ends.                                         *)
Traces(t) == group[t] \in filter

Reserved == Len(ring) < RingSize

Event(t, c, entry, ok, buf) ==
  [tid |-> t, tgid |-> group[t], call |-> c, entry |-> entry, ok |-> ok,
   buf |-> buf, parent |-> parents[t]]

(* Mutant of AnnouncedBy: the parent is forgotten whether or not there is  *)
(* an event to carry it.                                                   *)
AnnouncedByAny(t) == parents' = IF Traces(t) THEN [parents EXCEPT ![t] = NoParent] ELSE parents

(* fill_task_create.                                                       *)
AnnouncedBy(t) ==
  parents' = IF Traces(t) /\ Reserved THEN [parents EXCEPT ![t] = NoParent] ELSE parents

Emit(t, e) ==
  /\ ring' = IF Traces(t) /\ Reserved THEN Append(ring, e) ELSE ring
  /\ lost' = IF Traces(t) /\ ~Reserved THEN lost \cup {group[t]} ELSE lost
  /\ AnnouncedBy(t)

(* A "discard" is a recvfrom without a buffer: with MSG_TRUNC it returns   *)
(* how much it threw away.  It is a read to the programs, but stashes      *)
(* nothing, and what was stashed before stays.                             *)
ReadLike == {"read", "discard"}

(* Mutant of StashRead: stashed only with the event, as pipe is.           *)
StashReadWithEvent(t, c) ==
  readBuf' = IF Traces(t) /\ Reserved /\ c.op = "read" THEN [readBuf EXCEPT ![t] = c] ELSE readBuf

StashRead(t, c) ==
  readBuf' = IF Traces(t) /\ c.op = "read" THEN [readBuf EXCEPT ![t] = c] ELSE readBuf

(* fill_pipefds, after the reservation.                                    *)
StashPipe(t, c) ==
  pipeBuf' = IF Traces(t) /\ Reserved /\ c.op = "pipe" THEN [pipeBuf EXCEPT ![t] = c] ELSE pipeBuf

(* Only a read that returned something drops its stash.                    *)
Consume(t, c, ok) ==
  /\ readBuf' = IF Traces(t) /\ Reserved /\ c.op \in ReadLike /\ ok
                THEN [readBuf EXCEPT ![t] = Nothing] ELSE readBuf
  /\ pipeBuf' = IF Traces(t) /\ Reserved /\ c.op = "pipe"
                THEN [pipeBuf EXCEPT ![t] = Nothing] ELSE pipeBuf

Copied(t, c, ok) ==
  CASE ok /\ c.op \in ReadLike -> readBuf[t]
    [] ok /\ c.op = "pipe" -> pipeBuf[t]
    [] OTHER -> Nothing

Room == Cardinality(filter) < FilterSize

(* trace_sched_process_fork, attached only when forks are followed.        *)
TraceFork(t, c) ==
  IF follow /\ Traces(t)
  THEN /\ parents' = [parents EXCEPT ![c] = << t, group[t] >>]
       /\ filter' = IF Room THEN filter \cup {c} ELSE filter
  ELSE UNCHANGED << parents, filter >>

-----------------------------------------------------------------------------
(* The kernel, and the programs where it runs them.                        *)
Launched == execs[Root] > 0

(* The child execs the target, or ends if that fails.                      *)
MayCall(t, op) ==
  t = Root /\ ~Launched => op = IF calls[t] = 0 THEN "execve" ELSE "exit"

SysEnter(t, op) ==
  LET c == [task |-> t, n |-> calls[t] + 1, op |-> op, made |-> NoTask] IN
  /\ status[t] = "user" /\ ~Doomed(t) /\ calls[t] < MaxCalls[t] /\ MayCall(t, op)
  /\ status' = [status EXCEPT ![t] = "called"]
  /\ calls' = [calls EXCEPT ![t] = c.n]
  /\ call' = [call EXCEPT ![t] = c]
  /\ rivals' = IF op = "execve" /\ \E u \in Threads(group[t]) \ {t} : Alive(u) /\ call[u].op = "execve"
               THEN rivals \cup {group[t]} ELSE rivals
  /\ StashRead(t, c) /\ StashPipe(t, c)
  /\ Emit(t, Event(t, c, TRUE, FALSE, Nothing))
  /\ UNCHANGED << group, creator, execs, filter, follow, backend, seen >>

(* What a call may return: whether a fork did, and whether an exec did.    *)
Outcomes(t) ==
  CASE call[t].n = 0 -> {FALSE}
    [] call[t].op \in {"fork", "clone"} -> {call[t].made # NoTask}
    [] call[t].op = "execve" -> {status[t] = "execed"}
    [] OTHER -> BOOLEAN

SysExit(t) ==
  /\ status[t] \in {"called", "execed"} /\ call[t].op # "exit"
  /\ status' = [status EXCEPT ![t] = "user"]
  /\ call' = [call EXCEPT ![t] = NoCall(t)]
  /\ \E ok \in Outcomes(t) :
       /\ Consume(t, call[t], ok)
       /\ Emit(t, Event(t, call[t], FALSE, ok, Copied(t, call[t], ok)))
  /\ UNCHANGED << group, calls, creator, execs, filter, follow, backend, seen, rivals >>

Spawn(t) ==
  /\ status[t] = "called" /\ call[t].n > 0 /\ call[t].op \in {"fork", "clone"}
  /\ call[t].made = NoTask /\ ~Doomed(t)
  /\ \E c \in Task :
       /\ status[c] = "none"
       /\ status' = [status EXCEPT ![c] = "called"]
       /\ group' = [group EXCEPT ![c] = IF call[t].op = "fork" THEN c ELSE group[t]]
       /\ creator' = [creator EXCEPT ![c] = << t, group[t] >>]
       /\ call' = [call EXCEPT ![t].made = c]
       /\ TraceFork(t, c)
  /\ UNCHANGED << calls, execs, scratch, ring, follow, backend, seen, lost, rivals >>

Dethread(t) ==
  /\ status[t] = "called" /\ call[t].op = "execve" /\ ~Doomed(t)
  /\ status' = [status EXCEPT ![t] = "dethreading"]
  /\ UNCHANGED << group, call, calls, creator, execs, filter, parents, scratch, ring, follow,
                  backend, seen, lost, rivals >>

(* A worker goes on under the id of its leader.                            *)
Exec(t) ==
  LET g == group[t] IN
  /\ status[t] = "dethreading" /\ \A u \in Threads(g) \ {t} : ~Alive(u)
  /\ status' = [status EXCEPT ![t] = "dead", ![g] = "execed"]
  /\ call' = [call EXCEPT ![g] = call[t]]
  /\ execs' = [execs EXCEPT ![g] = @ + 1]
  /\ UNCHANGED << group, calls, creator, filter, parents, scratch, ring, follow, backend, seen,
                  lost, rivals >>

(* exit does not return; a task that is killed dies in user mode, the call *)
(* it was in having returned.                                              *)
Die(t) ==
  /\ \/ status[t] = "called" /\ call[t].op = "exit"
     \/ status[t] = "user" /\ Doomed(t)
  /\ status' = [status EXCEPT ![t] = "dead"]
  /\ UNCHANGED << group, call, calls, creator, execs, filter, parents, scratch, ring, follow,
                  backend, seen, lost, rivals >>

KernelStep ==
  \E t \in {u \in Task : loop # "done"} :
    \/ \E op \in Ops : SysEnter(t, op)
    \/ SysExit(t) \/ Spawn(t) \/ Dethread(t) \/ Exec(t) \/ Die(t)

-----------------------------------------------------------------------------
(* handle_event: TaskCreate first, then the filter, then the call itself,  *)
(* whose exec is reported under the id that entered it.                    *)
Polling == loop \in {"polling", "draining"}

IsExec(e) == e.call.op = "execve"

Suppressed(e) == IsExec(e) /\ e.tgid = Root /\ initialExec

Take(e) ==
  /\ Polling /\ ring # << >> /\ e = Head(ring)
  /\ ring' = Tail(ring)
  /\ announced' = IF e.parent = NoParent THEN announced
                  ELSE [announced EXCEPT ![e.tid] = Append(@, e.parent)]
  /\ filter' = IF follow /\ ~e.entry /\ e.call.made # NoTask /\ Room
               THEN filter \cup {e.call.made} ELSE filter
  /\ UNCHANGED << tasks, parents, scratch, follow, loop, lost, rivals >>

(* Mutant of HandleLaunch: the entry ends the suppression.                 *)
HandleLaunchOnce(e) ==
  /\ Take(e) /\ Suppressed(e)
  /\ initialExec' = FALSE
  /\ UNCHANGED << execTid, pending, met, mispaired, miscopied, images >>

HandleLaunch(e) ==
  /\ Take(e) /\ Suppressed(e)
  /\ initialExec' = e.entry
  /\ UNCHANGED << execTid, pending, met, mispaired, miscopied, images >>

HandleEntry(e) ==
  /\ Take(e) /\ ~Suppressed(e) /\ e.entry
  /\ execTid' = IF IsExec(e) THEN [execTid EXCEPT ![e.tgid] = e.tid] ELSE execTid
  /\ pending' = [pending EXCEPT ![e.tid] = e.call]
  /\ met' = met \cup {e.tid}
  /\ UNCHANGED << initialExec, mispaired, miscopied, images >>

(* Mutant of EntryTid: the exit is looked up where it happened.            *)
EntryTidOwn(e) == e.tid

EntryTid(e) ==
  IF IsExec(e) /\ execTid[e.tgid] # NoTask THEN execTid[e.tgid] ELSE e.tid

Known(c) == [task |-> c.task, n |-> c.n, op |-> c.op]

HandleExit(e) ==
  LET tid == EntryTid(e) IN
  /\ Take(e) /\ ~Suppressed(e) /\ ~e.entry
  /\ mispaired' = IF pending[tid] = Nothing \/ Known(pending[tid]) = Known(e.call) THEN mispaired
                  ELSE mispaired \cup {<< Known(pending[tid]), Known(e.call) >>}
  /\ pending' = [pending EXCEPT ![tid] = Nothing]
  /\ miscopied' = IF e.buf = Nothing \/ Known(e.buf) = Known(e.call) THEN miscopied
                  ELSE miscopied \cup {<< Known(e.call), Known(e.buf) >>}
  /\ images' = IF IsExec(e) /\ e.ok THEN [images EXCEPT ![e.tgid] = @ + 1] ELSE images
  /\ execTid' = IF IsExec(e) THEN [execTid EXCEPT ![e.tgid] = NoTask] ELSE execTid
  /\ met' = met \cup {tid}
  /\ UNCHANGED initialExec

(* trace(): the loop and its end.                                          *)
RootGone == \A t \in Threads(Root) : ~Alive(t)

Ends(to) ==
  /\ loop' = to
  /\ UNCHANGED << group, call, calls, creator, execs, filter, parents, scratch, ring, follow,
                  initialExec, execTid, seen, rivals >>

ReapRoot == loop = "polling" /\ RootGone /\ Ends("draining") /\ UNCHANGED << status, lost >>

(* The target is killed and waited for.  The exits its threads still       *)
(* report from the calls they were in are left out and count as lost.      *)
Timeout ==
  /\ loop = "polling" /\ ~RootGone
  /\ status' = [t \in Task |-> IF group[t] = Root THEN "dead" ELSE status[t]]
  /\ lost' = lost \cup {Root}
  /\ Ends("draining")

Detach == loop = "draining" /\ ring = << >> /\ Ends("done") /\ UNCHANGED << status, lost >>

BackendStep ==
  \/ \E e \in {ring[i] : i \in DOMAIN ring} : HandleLaunch(e) \/ HandleEntry(e) \/ HandleExit(e)
  \/ ReapRoot \/ Timeout \/ Detach

Next == KernelStep \/ BackendStep

Spec == Init /\ [][Next]_vars

-----------------------------------------------------------------------------
CallOrNothing(c) == c = Nothing \/ (c.task \in Task /\ c.n \in Nat /\ c.op \in Ops \cup {"other"})

TypeOK ==
  /\ \A t \in Task : /\ group[t] \in Task \cup {NoTask}
                    /\ status[t] \in {"none", "user", "called", "dethreading", "execed", "dead"}
                    /\ execTid[t] \in Task \cup {NoTask}
                    /\ CallOrNothing(readBuf[t]) /\ CallOrNothing(pipeBuf[t])
                    /\ CallOrNothing(pending[t])
  /\ filter \subseteq Task /\ Cardinality(filter) <= FilterSize
  /\ Len(ring) <= RingSize
  /\ loop \in {"polling", "draining", "done"}

(* "Deliver TaskCreate exactly once: on the first successfully emitted     *)
(* syscall event from the child": whatever the ring refuses, no call of a  *)
(* task is handed on before its TaskCreate, which names its creator and is *)
(* not repeated.                                                           *)
AnnouncedFirst ==
  /\ TypeOK
  /\ follow => \A t \in Task :
       /\ Len(announced[t]) <= 1
       /\ t \in met \ {Root} => announced[t] = << creator[t] >>

(* The analyzer pairs an exit with the entry of the same call, a worker's  *)
(* exec that ends under its leader's id included, and no entry of a call   *)
(* that has returned stays open (an exit never returns); unless an event   *)
(* of the process was lost or two of its threads were in execve at once.   *)
PairsOwnEntry ==
  /\ \A p \in mispaired : group[p[2].task] \in lost \cup rivals
  /\ \A t \in Task : ring = << >> /\ pending[t] # Nothing =>
       \/ Known(pending[t]) = Known(call[t]) \/ pending[t].op = "exit"
       \/ group[t] \in lost \cup rivals

(* The bytes of a read that has a buffer come from that buffer, even if    *)
(* events of the task were lost; those of a pipe from its own, if none     *)
(* were.  What is handed on with a read that has none, if anything, is     *)
(* what is in the buffer of an earlier read of the same task.              *)
PayloadIsOwn ==
  \A p \in miscopied :
    \/ p[1].op = "pipe" /\ group[p[1].task] \in lost
    \/ /\ p[1].op = "discard" /\ p[2].op = "read"
       /\ p[2].task = p[1].task /\ p[2].n < p[1].n

(* The analyzer is told of every exec of a process but the launcher's own, *)
(* once each: with no event lost or waiting, the generations agree.        *)
ImagesAreCounted ==
  \A g \in filter \ lost :
    ring = << >> /\ (\A t \in Threads(g) : status[t] # "execed") =>
      images[g] = execs[g] - IF g = Root /\ Launched THEN 1 ELSE 0
=============================================================================
