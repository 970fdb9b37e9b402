------------------------ MODULE TracedProcessesProofs ------------------------
(***************************************************************************)
(* What the tracer tells the analyzer is what ProcessLineage is open to:   *)
(* every step of a traced program and its tracer is one of its steps or    *)
(* changes nothing of it, for any task ids, workloads and bounds.  So the  *)
(* theorems about ProcessLineage, which hold for any order of events, are  *)
(* theorems about the events real processes make.                          *)
(*                                                                         *)
(* The second part follows the task groups themselves, threads included,   *)
(* through the kernel, the tracer and the analyzer's maps.  A live task is *)
(* in the live set of its process's instance, or will be when the stop of  *)
(* its creator, which is in it, is handled (LiveInv): so the analyzer      *)
(* never takes a thread's exit for the last, and one process is one        *)
(* instance whose generations are its execs (KeysInv).  All of it needs    *)
(* that no thread is killed by another's execve or exit_group (ThreadsEnd- *)
(* Alone), since handled late such a thread's entry starts its process     *)
(* anew, and that no task is taken for one that had its id (~mistaken).    *)
(*                                                                         *)
(* The third counts the nodes made for a task id (NodesInv), the last one  *)
(* follows each instance to the process it answers for (KInv).  Neither    *)
(* keeps a child from exiting before the stop of its creator is handled:   *)
(* "early" remembers those, and what is left behind is theirs.             *)
(***************************************************************************)
EXTENDS TracedProcesses, FiniteSetTheorems, TLAPS

PP == INSTANCE ProcessLineageProofs

Phase == {User, Execed, Dead, Reported}
           \cup [at: {"kernel"}, call: Calls]
           \cup [at: {"event"}, call: Calls, child: Tid]
           \cup [at: {"exit"}, call: Calls, child: Tid \cup {PL!NoTid}]

(* What the tracer passes on, it has from the kernel: ids of tasks, which  *)
(* have a task group while they live, and calls of the workload, an exec's *)
(* included, whose stop forgets it.                                        *)
Told ==
  /\ workload \in Workloads
  /\ DOMAIN task = Tid
  /\ phase \in [Tid -> Phase]
  /\ snapshot \in [Tid -> Calls \cup {"none"}]
  /\ tgidCache \in [Tid -> Tid \cup {PL!NoTid}]
  /\ \A t \in Tid : Exists(t) => task[t].tgid \in Tid
  /\ \A t \in Tid : phase[t] # Dead => Exists(t)
  /\ \A t \in Tid : phase[t] = Execed => "execve" \in Calls

-----------------------------------------------------------------------------
LEMMA CallsOfWorkload ==
  ASSUME workload \in Workloads PROVE workload.calls \subseteq Calls
  BY DEF Calls

(* What a phase says of its task.                                          *)
LEMMA PhaseFields ==
  ASSUME NEW f \in Phase
  PROVE  /\ f.at = "kernel" => f.call \in Calls
         /\ f.at = "event" => f.call \in Calls /\ f.child \in Tid
         /\ f.at = "exit" => f.call \in Calls /\ f.child \in Tid \cup {PL!NoTid}
  BY DEF Phase, User, Execed, Dead, Reported

LEMMA PhasesAre ==
  /\ {User, Execed, Dead, Reported} \subseteq Phase
  /\ \A c \in Calls : InKernel(c) \in Phase
  /\ \A c \in Calls, u \in Tid : Forked(c, u) \in Phase
  /\ \A c \in Calls, u \in Tid \cup {PL!NoTid} : Returning(c, u) \in Phase
  /\ Execed \notin {User, Dead, Reported}
  /\ Reported # Dead
  /\ \A c : InKernel(c) # Execed
  /\ \A c, u : Forked(c, u) # Execed /\ Returning(c, u) # Execed
  BY DEF Phase, User, Execed, Dead, Reported, InKernel, Forked, Returning

LEMMA TgidIsTask ==
  ASSUME Told, NEW t \in Tid PROVE ResolveTgid(t) \in Tid
  BY DEF Told, ResolveTgid

LEMMA CacheHoldsTasks ==
  ASSUME Told, NEW S PROVE Cached(S) \in [Tid -> Tid \cup {PL!NoTid}]
  BY TgidIsTask DEF Told, Cached

LEMMA InitTold == Init => Told
  BY WorkloadAssumption, TidAssumption, PhasesAre
     DEF Init, Told, Exists, NoTask, PL!NoTid

-----------------------------------------------------------------------------
LEMMA SpawnKeepsTold ==
  ASSUME Told, NEW t \in Tid, NEW child \in Tid, NEW process, NEW tgid \in Tid,
         phase[t].at = "kernel", Spawn(t, child, process, tgid), UNCHANGED workload
  PROVE  Told'
  <1>1. phase[t].call \in Calls BY PhaseFields DEF Told
  <1>2. Forked(phase[t].call, child) \in Phase /\ User \in Phase
        /\ Forked(phase[t].call, child) # Execed /\ User # Execed
    BY <1>1, PhasesAre
  <1>3. phase' \in [Tid -> Phase] BY <1>2 DEF Told, Spawn
  <1>4. \A u \in Tid : phase'[u] = Execed => phase[u] = Execed
    BY <1>2 DEF Told, Spawn
  <1>5. DOMAIN task' = Tid /\ \A u \in Tid : Exists(u)' => task'[u].tgid \in Tid
    BY DEF Told, Spawn, Exists
  <1>6. \A u \in Tid : phase'[u] # Dead => Exists(u)'
    <2>1. Exists(child)' BY TidAssumption DEF Told, Spawn, Exists, NoTask, PL!NoTid
    <2>2. ASSUME NEW u \in Tid, u # child, phase'[u] # Dead PROVE Exists(u)'
      <3>1. phase[u] # Dead BY <2>2 DEF Told, Spawn, Dead
      <3>2. task'[u] = task[u] BY <2>2 DEF Told, Spawn
      <3>3. QED BY <3>1, <3>2 DEF Told, Exists
    <2>3. QED BY <2>1, <2>2
  <1>7. QED BY <1>3, <1>4, <1>5, <1>6 DEF Told, Spawn, KernelOnly, tracer

LEMMA ExecveKeepsTold ==
  ASSUME Told, NEW t \in Tid, Exists(t), Execve(t), UNCHANGED workload
  PROVE  Told'
  <1>1. phase[t].call \in Calls /\ phase[t].call = "execve"
    BY PhaseFields DEF Told, Execve
  <1>2. phase' \in [Tid -> Phase] BY PhasesAre DEF Told, Execve
  <1>3. DOMAIN task' = Tid /\ \A u \in Tid : Exists(u)' => task'[u].tgid \in Tid
    BY DEF Told, Execve, Exists
  <1>4. \A u \in Tid : phase'[u] # Dead => Exists(u)'
    <2>. SUFFICES ASSUME NEW u \in Tid, phase'[u] # Dead PROVE task'[u] # NoTask
      BY DEF Exists
    <2>1. CASE u = task[t].tgid BY <2>1 DEF Execve, Exists
    <2>2. CASE u # task[t].tgid
      <3>1. t \in Group(task[t].tgid) BY DEF Group
      <3>2. u # t /\ phase'[u] = phase[u] BY <2>2, <3>1 DEF Execve
      <3>3. task'[u] = task[u] BY <2>2, <3>2 DEF Execve
      <3>4. QED BY <3>2, <3>3 DEF Told, Exists
    <2>3. QED BY <2>1, <2>2
  <1>5. \A u \in Tid : phase'[u] = Execed => "execve" \in Calls BY <1>1
  <1>6. QED BY <1>2, <1>3, <1>4, <1>5 DEF Told, Execve, KernelOnly, tracer

LEMMA DieKeepsTold ==
  ASSUME Told, NEW who, Die(who), UNCHANGED workload PROVE Told'
  <1>1. phase' \in [Tid -> Phase] BY PhasesAre DEF Told, Die
  <1>2. \A u \in Tid : phase'[u] = Execed => phase[u] = Execed
    BY PhasesAre DEF Die
  <1>3. \A u \in Tid : phase'[u] # Dead => phase[u] # Dead BY DEF Die
  <1>4. QED BY <1>1, <1>2, <1>3 DEF Told, Die, KernelOnly, tracer, Exists

LEMMA KernelKeepsTold ==
  ASSUME Told, KernelStep, UNCHANGED workload PROVE Told'
  <1>1. PICK t \in Tid :
          \/ Execve(t) \/ ThreadExit(t) \/ GroupExit(t) \/ Killed(t) \/ Release(t)
          \/ \E child \in Tid : ForkProcess(t, child) \/ CloneThread(t, child)
    BY DEF KernelStep
  <1>6. phase[t].at = "kernel" => Exists(t) /\ task[t].tgid \in Tid BY DEF Told, Dead
  <1>2. CASE Execve(t)
    <2>1. phase[t].at = "kernel" BY <1>2 DEF Execve
    <2>2. QED BY <1>2, <1>6, <2>1, ExecveKeepsTold
  <1>3. CASE ThreadExit(t) \/ GroupExit(t) \/ Killed(t)
    BY <1>3, DieKeepsTold DEF ThreadExit, GroupExit, Killed
  <1>4. ASSUME NEW child \in Tid, ForkProcess(t, child) PROVE Told'
    BY <1>4, SpawnKeepsTold DEF ForkProcess
  <1>5. ASSUME NEW child \in Tid, CloneThread(t, child) PROVE Told'
    <2>1. phase[t].at = "kernel" /\ Spawn(t, child, task[t].process, task[t].tgid)
      BY <1>5 DEF CloneThread
    <2>2. QED BY <1>6, <2>1, SpawnKeepsTold
  <1>7. CASE Release(t)
    <2>1. phase' \in [Tid -> Phase] BY <1>7, PhasesAre DEF Told, Release
    <2>2. \A u \in Tid : phase'[u] # Dead => u # t /\ phase'[u] = phase[u]
      BY <1>7 DEF Told, Release
    <2>3. DOMAIN task' = Tid /\ \A u \in Tid : u # t => task'[u] = task[u]
      BY <1>7 DEF Told, Release
    <2>4. task'[t] = NoTask BY <1>7 DEF Told, Release
    <2>5. \A u \in Tid : phase'[u] # Dead => Exists(u)' BY <2>2, <2>3 DEF Told, Exists
    <2>6. \A u \in Tid : Exists(u)' => task'[u].tgid \in Tid
      BY <2>3, <2>4 DEF Told, Exists
    <2>7. \A u \in Tid : phase'[u] = Execed => "execve" \in Calls
      BY <2>2, PhasesAre DEF Told
    <2>8. QED BY <1>7, <2>1, <2>3, <2>5, <2>6, <2>7 DEF Told, Release, KernelOnly, tracer
  <1>8. QED BY <1>1, <1>2, <1>3, <1>4, <1>5, <1>7

-----------------------------------------------------------------------------
LEMMA TracerKeepsTold ==
  ASSUME Told, TracerStep, UNCHANGED workload PROVE Told'
  <1>1. PICK t \in Tid :
          \/ \E call \in workload.calls : HandleEntry(t, call)
          \/ HandleExit(t) \/ HandleFork(t) \/ HandleExec(t) \/ HandleDeath(t)
    BY DEF TracerStep
  <1>2. ASSUME NEW call \in workload.calls, HandleEntry(t, call) PROVE Told'
    <2>1. call \in Calls BY CallsOfWorkload DEF Told
    <2>2. phase' \in [Tid -> Phase] BY <1>2, <2>1, PhasesAre DEF Told, HandleEntry
    <2>3. \A u \in Tid : phase'[u] = Execed => phase[u] = Execed
      BY <1>2, PhasesAre DEF Told, HandleEntry
    <2>4. QED BY <1>2, <2>1, <2>2, <2>3, CacheHoldsTasks DEF Told, HandleEntry, Resolves, Exists
  <1>3. CASE HandleExit(t)
    <2>1. \A u \in Tid : phase'[u] # Dead => Exists(u)
      BY <1>3 DEF Told, HandleExit, MayReturn
    <2>2. phase' \in [Tid -> Phase] BY <1>3, PhasesAre DEF Told, HandleExit
    <2>3. \A u \in Tid : phase'[u] = Execed => phase[u] = Execed
      BY <1>3, PhasesAre DEF Told, HandleExit
    <2>4. QED BY <1>3, <2>1, <2>2, <2>3, CacheHoldsTasks DEF Told, HandleExit, Resolves, Exists
  <1>4. CASE HandleFork(t)
    <2>1. Returning(phase[t].call, phase[t].child) \in Phase
      BY <1>4, PhaseFields, PhasesAre DEF Told, HandleFork
    <2>2. phase' \in [Tid -> Phase] BY <1>4, <2>1 DEF Told, HandleFork
    <2>3. \A u \in Tid : phase'[u] = Execed => phase[u] = Execed
      BY <1>4, PhasesAre DEF Told, HandleFork
    <2>4. QED BY <1>4, <2>2, <2>3, CacheHoldsTasks DEF Told, HandleFork, Resolves, Exists
  <1>5. CASE HandleExec(t)
    <2>1. phase[t] = Execed BY <1>5, PhasesAre DEF Told, HandleExec, Phase, User, Execed, Dead, Reported
    <2>2. Returning("execve", PL!NoTid) \in Phase BY <2>1, PhasesAre DEF Told
    <2>3. phase' \in [Tid -> Phase] BY <1>5, <2>2 DEF Told, HandleExec
    <2>4. \A u \in Tid : phase'[u] = Execed => phase[u] = Execed
      BY <1>5, PhasesAre DEF Told, HandleExec
    <2>5. QED BY <1>5, <2>3, <2>4, CacheHoldsTasks DEF Told, HandleExec, Resolves, Exists
  <1>6. CASE HandleDeath(t)
    <2>1. DOMAIN task' = Tid /\ \A u \in Tid : Exists(u)' => task'[u].tgid \in Tid
      BY <1>6 DEF Told, HandleDeath, Exists
    <2>2. \A u \in Tid : phase'[u] # Dead => Exists(u)'
      <3>1. CASE IsLeader(t) BY <1>6, <3>1, PhasesAre DEF Told, HandleDeath, Exists
      <3>2. CASE ~IsLeader(t) BY <1>6, <3>2 DEF Told, HandleDeath, Exists
      <3>3. QED BY <3>1, <3>2
    <2>3. phase' \in [Tid -> Phase] /\ \A u \in Tid : phase'[u] = Execed => phase[u] = Execed
      BY <1>6, PhasesAre DEF Told, HandleDeath
    <2>4. QED BY <1>6, <2>1, <2>2, <2>3 DEF Told, HandleDeath
  <1>7. QED BY <1>1, <1>2, <1>3, <1>4, <1>5, <1>6

THEOREM AlwaysTold == Spec => []Told
  <1>1. Init => Told BY InitTold
  <1>2. Told /\ [Next]_vars => Told'
    <2>1. ASSUME Told, UNCHANGED vars PROVE Told'
      BY <2>1 DEF Told, vars, kernel, tracer, Exists
    <2>2. QED BY <2>1, KernelKeepsTold, TracerKeepsTold DEF Next
  <1>3. QED BY <1>1, <1>2, PTL DEF Spec

-----------------------------------------------------------------------------
(* An exit that names no task, or is of a call that makes none, is the     *)
(* analyzer's ordinary exit; any other is one of the forks'.               *)
LEMMA ExitIsHandled ==
  ASSUME NEW t \in Tid, NEW g \in Tid, NEW call \in Calls, NEW child \in Tid \cup {PL!NoTid},
         PL!Exit(t, g, call, child)
  PROVE  PL!Next
  <1>1. PL!NoTid \notin Tid BY TidAssumption DEF PL!NoTid
  <1>2. CASE PL!ExitOrdinary(t, g, call, child)
    <2>1. PL!ExitOrdinary(t, g, call, PL!NoTid)
      BY <1>1, <1>2 DEF PL!ExitOrdinary, PL!ForkExit
    <2>2. QED BY <2>1 DEF PL!Next
  <1>3. CASE ~PL!ExitOrdinary(t, g, call, child)
    <2>1. call \in PL!ForkCalls /\ child \in Tid
      BY <1>3 DEF PL!Exit, PL!ForkExitThread, PL!ForkExitMatched, PL!ForkExitDeferred,
                  PL!ForkExitCreate, PL!ForkExit
    <2>2. QED BY <2>1 DEF PL!Next
  <1>4. QED BY <1>2, <1>3

LEMMA TracerStepIsHandled ==
  ASSUME Told, TracerStep PROVE PL!Next \/ UNCHANGED analyzer
  <1>1. PICK t \in Tid :
          \/ \E call \in workload.calls : HandleEntry(t, call)
          \/ HandleExit(t) \/ HandleFork(t) \/ HandleExec(t) \/ HandleDeath(t)
    BY DEF TracerStep
  <1>2. ResolveTgid(t) \in Tid BY TgidIsTask
  <1>3. ASSUME NEW call \in workload.calls, HandleEntry(t, call) PROVE PL!Next
    <2>1. call \in Calls BY CallsOfWorkload DEF Told
    <2>2. PL!Entry(t, ResolveTgid(t), call) BY <1>3 DEF HandleEntry
    <2>3. QED BY <1>2, <2>1, <2>2 DEF PL!Next
  <1>4. CASE HandleExit(t)
    <2>. DEFINE call == IF snapshot[t] # "none" THEN snapshot[t] ELSE phase[t].call
    <2>1. phase[t] \in Phase /\ phase[t].at \in {"kernel", "exit"}
      BY <1>4 DEF HandleExit, MayReturn, Told
    <2>2. call \in Calls BY <2>1, PhaseFields DEF Told
    <2>3. Made(t) \in Tid \cup {PL!NoTid} BY <2>1, PhaseFields DEF Made
    <2>4. PL!Exit(t, ResolveTgid(t), call, Made(t)) BY <1>4 DEF HandleExit
    <2>. HIDE DEF call
    <2>5. QED BY <1>2, <2>2, <2>3, <2>4, ExitIsHandled
  <1>5. CASE HandleFork(t)
    <2>1. phase[t].child \in Tid BY <1>5, PhaseFields DEF HandleFork, Told
    <2>2. ResolveTgid(phase[t].child) \in Tid BY <2>1, TgidIsTask
    <2>3. PL!TaskCreate(ResolveTgid(t), phase[t].child, ResolveTgid(phase[t].child))
      BY <1>5 DEF HandleFork
    <2>4. QED BY <1>2, <2>1, <2>2, <2>3 DEF PL!Next
  <1>6. CASE HandleExec(t)
    <2>1. PL!Exec(t, ResolveTgid(t)) BY <1>6 DEF HandleExec
    <2>2. QED BY <1>2, <2>1 DEF PL!Next
  <1>7. CASE HandleDeath(t) BY <1>7 DEF HandleDeath
  <1>8. QED BY <1>1, <1>3, <1>4, <1>5, <1>6, <1>7

LEMMA KernelIsUnseen ==
  ASSUME KernelStep PROVE UNCHANGED analyzer
  BY DEF KernelStep, Execve, ThreadExit, GroupExit, Killed, Release, ForkProcess,
         CloneThread, Spawn, Die, KernelOnly

(* The events that the tracer makes of any program's stops, in whatever    *)
(* order the stops are handled and whichever ids are reused, are events    *)
(* that ProcessLineage is open to: what is proved of it holds here.        *)
THEOREM EventsAreAnalyzed == Spec => PL!Spec
  <1>1. Init => PL!Init BY DEF Init
  <1>2. Told /\ [Next]_vars => [PL!Next]_(PL!vars)
    <2>1. ASSUME UNCHANGED analyzer PROVE UNCHANGED PL!vars
      BY <2>1 DEF analyzer, PL!vars
    <2>2. ASSUME UNCHANGED vars PROVE UNCHANGED analyzer BY <2>2 DEF vars
    <2>3. QED BY <2>1, <2>2, KernelIsUnseen, TracerStepIsHandled DEF Next
  <1>3. QED BY <1>1, <1>2, AlwaysTold, PTL DEF Spec, PL!Spec

At(t, place) == phase[t].at = place

Exiting(t) ==
  \/ At(t, "dead") \/ At(t, "reported")
  \/ At(t, "kernel") /\ phase[t].call \in {"exit", "exit_group"}

ProcessOf(t) == task[t].process

LEMMA Places ==
  /\ User.at = "user" /\ Execed.at = "exec" /\ Dead.at = "dead"
  /\ Reported.at = "reported"
  /\ \A c : InKernel(c).at = "kernel" /\ InKernel(c).call = c
  /\ \A c, u : /\ Forked(c, u).at = "event" /\ Forked(c, u).call = c
               /\ Forked(c, u).child = u
  /\ \A c, u : /\ Returning(c, u).at = "exit" /\ Returning(c, u).call = c
               /\ Returning(c, u).child = u
  BY DEF User, Execed, Dead, Reported, InKernel, Forked, Returning

(* The places a task may be in, by name.                             *)
LEMMA PlaceNames ==
  ASSUME NEW f \in Phase
  PROVE  /\ f.at \in {"user", "exec", "dead", "reported", "kernel", "event", "exit"}
         /\ f.at = "user" <=> f = User
         /\ f.at = "exec" <=> f = Execed
         /\ f.at = "dead" <=> f = Dead
         /\ f.at = "reported" <=> f = Reported
  BY DEF Phase, User, Execed, Dead, Reported

-----------------------------------------------------------------------------
(* The analyzer's maps agree, and a node not ended is active:              *)
(* ProcessLineageProofs.                                                   *)
NodesStand == \A i \in PL!Instance : node[i] \in Tid => i \in ended \/ active[node[i]] = i

Analyzed == PL!TypeOK /\ PL!MapsAgree /\ NodesStand

TaskTyped ==
  /\ task \in [Tid -> [id: Task, process: Task, tgid: Tid] \cup {NoTask}]
  /\ image \in [Task -> 0 .. MaxImages]
  /\ parent \in [Task -> Task \cup {NoProcess}]
  /\ leader \in [Task -> Tid \cup {PL!NoTid}]
  /\ nextTask \in 1 .. MaxTasks + 1
  /\ attributed \subseteq [instance: PL!Instance, generation: 0 .. MaxGeneration,
                           process: Task, image: 0 .. MaxImages]
  /\ early \subseteq [tid: Tid, process: Task, id: Task]
  /\ mistaken \in BOOLEAN

(* A program without threads, or one whose threads end only by their own   *)
(* exit or all at once by a signal.                                        *)
Single == workload.calls \cap {"clone_thread", "clone3"} = {}

ThreadsEndAlone == Single \/ workload.calls \cap {"execve", "exit_group"} = {}

Tgid(t) == task[t].tgid

(* The analyzer has had a call of the process.                             *)
Met(p) == \E a \in attributed : a.process = p

(* A thread group is a process, and its leader's id stays taken.           *)
GroupsInv ==
  /\ \A t \in Tid : Exists(t) =>
       ProcessOf(t) < nextTask /\ Exists(Tgid(t)) /\ Tgid(Tgid(t)) = Tgid(t)
  /\ \A t, u \in Tid : Exists(t) /\ Exists(u) =>
       (ProcessOf(t) = ProcessOf(u) <=> Tgid(t) = Tgid(u))
  /\ \A t \in Tid : At(t, "reported") =>
       Tgid(t) = t /\ \A u \in Tid : Exists(u) /\ Tgid(u) = t => u = t
  /\ \A t \in Tid : At(t, "kernel") => phase[t].call \in workload.calls
  /\ Single => \A t \in Tid : Exists(t) => Tgid(t) = t
  /\ \A t \in Tid : At(t, "exec") => Single

(* A process makes its first call before it makes threads or execs.        *)
MetInv ==
  /\ \A a \in attributed : a.process < nextTask
  /\ \A t \in Tid : Exists(t) /\ ~Met(ProcessOf(t)) =>
       Tgid(t) = t /\ (At(t, "user") \/ At(t, "dead") \/ At(t, "reported"))

(* A thread that is not exiting is in its instance's live set, or will be  *)
(* when the stop of its creator, which is, is handled.                     *)
Stands(t) == t \in tids[active[Tgid(t)]]

LiveOf(t) ==
  ~Exiting(t) /\ Met(ProcessOf(t)) =>
    /\ active[Tgid(t)] # 0
    /\ \/ Stands(t)
       \/ /\ At(t, "user")
          /\ \E c \in Tid : /\ At(c, "event") /\ phase[c].child = t
                            /\ Tgid(c) = Tgid(t) /\ Stands(c)

LiveInv == \A t \in Tid : LiveOf(t)

(* A process is one instance, whose generations are its execs, but for one *)
(* whose stop still waits.                                                 *)
LinkOf(a, t) ==
  ~Exiting(t) /\ a.process = ProcessOf(t) =>
    /\ a.instance = active[Tgid(t)]
    /\ generation[active[Tgid(t)]] + a.image + (IF At(t, "exec") THEN 1 ELSE 0)
         = a.generation + image[ProcessOf(t)]

KeysInv ==
  /\ \A a, b \in attributed : a.process = b.process =>
       a.instance = b.instance /\ a.generation + b.image = b.generation + a.image
  /\ \A a \in attributed, t \in Tid : LinkOf(a, t)

(* The inductive invariant of the task groups.                             *)
GInv == GroupsInv /\ MetInv /\ LiveInv /\ KeysInv

Base == Told /\ Analyzed /\ TaskTyped /\ ThreadsEndAlone /\ GInv

-----------------------------------------------------------------------------
LEMMA Basics ==
  ASSUME Base
  PROVE  /\ phase \in [Tid -> Phase] /\ nextTask \in Nat
         /\ \A t \in Tid : ~At(t, "dead") => Exists(t)
         /\ \A t \in Tid : ~Exiting(t) => Exists(t)
         /\ \A t \in Tid : Exists(t) => ProcessOf(t) \in Task /\ Tgid(t) \in Tid
         /\ \A t \in Tid : Exists(t) /\ ~At(t, "user") /\ ~Exiting(t) =>
              Met(ProcessOf(t)) /\ active[Tgid(t)] # 0 /\ Stands(t)
         /\ \A g, h \in Tid : active[g] # 0 /\ active[h] = active[g] => g = h
  <1>1. phase \in [Tid -> Phase] /\ nextTask \in Nat BY BoundsAssumption DEF Base, Told, TaskTyped
  <1>2. \A t \in Tid : ~At(t, "dead") => Exists(t) BY Places DEF Base, Told, At
  <1>3. \A t \in Tid : ~Exiting(t) => Exists(t) BY <1>2 DEF Exiting
  <1>4. \A t \in Tid : Exists(t) => ProcessOf(t) \in Task /\ Tgid(t) \in Tid
    BY DEF Base, TaskTyped, Exists, ProcessOf, Tgid
  <1>6. ASSUME NEW t \in Tid, Exists(t), ~At(t, "user"), ~Exiting(t)
        PROVE  Met(ProcessOf(t)) /\ active[Tgid(t)] # 0 /\ Stands(t)
    <2>1. Met(ProcessOf(t)) BY <1>6 DEF Base, GInv, MetInv, Exiting
    <2>2. LiveOf(t) BY DEF Base, GInv, LiveInv
    <2>3. QED BY <1>6, <2>1, <2>2 DEF LiveOf
  <1>7. \A g, h \in Tid : active[g] # 0 /\ active[h] = active[g] => g = h
    BY DEF Base, Analyzed, PL!MapsAgree, PL!IsActive, PL!NoInstance
  <1>8. QED BY <1>1, <1>2, <1>3, <1>4, <1>6, <1>7

(* A new task.                                                             *)
LEMMA SpawnKeeps ==
  ASSUME Base, NEW t \in Tid, NEW child \in Tid, NEW process, NEW tgid,
         Spawn(t, child, process, tgid), At(t, "kernel"), ~Exiting(t), UNCHANGED workload,
         \/ process = nextTask /\ tgid = child
         \/ process = ProcessOf(t) /\ tgid = Tgid(t) /\ ~Single
  PROVE  GInv'
  <1>. USE Places
  <1>1. /\ ~Exists(child) /\ Exists(t) /\ child # t /\ At(child, "dead") /\ Exists(Tgid(t))
        /\ Tgid(t) # child /\ ~At(t, "user")
    <2>1. ~Exists(child) BY DEF Spawn, Free
    <2>2. Exists(t) BY Basics DEF At
    <2>3. Exists(Tgid(t)) BY <2>2 DEF Base, GInv, GroupsInv
    <2>4. QED BY <2>1, <2>2, <2>3, Basics DEF At
  <1>2. /\ nextTask \in Nat /\ nextTask' = nextTask + 1 /\ Met(ProcessOf(t))
        /\ active[Tgid(t)] # 0 /\ Stands(t)
        /\ UNCHANGED << analyzer, tgidCache, attributed, image, workload >>
    BY <1>1, Basics DEF Spawn, KernelOnly, tracer, history
  <1>3. /\ task'[child] = [id |-> nextTask, process |-> process, tgid |-> tgid]
        /\ \A u \in Tid \ {child} : task'[u] = task[u]
        /\ phase'[t].at = "event" /\ phase'[t].child = child /\ phase'[child].at = "user"
        /\ \A u \in Tid \ {t, child} : phase'[u] = phase[u]
    BY <1>1 DEF Base, Told, TaskTyped, Spawn
  <1>4. /\ Exists(child)' /\ ProcessOf(child)' = process /\ Tgid(child)' = tgid
        /\ \A u \in Tid \ {child} : /\ Exists(u)' <=> Exists(u)
                                   /\ ProcessOf(u)' = ProcessOf(u) /\ Tgid(u)' = Tgid(u)
    <2>1. task'[child] # NoTask
      <3>1. task'[child].id # 0 BY <1>2, <1>3 DEF Base, TaskTyped
      <3>2. QED BY <3>1 DEF NoTask
    <2>2. QED BY <1>3, <2>1 DEF Exists, ProcessOf, Tgid
  <1>5. /\ ~Exiting(t)' /\ ~Exiting(child)'
        /\ \A u \in Tid \ {child} : Exiting(u)' <=> Exiting(u)
        /\ \A u \in Tid \ {t, child} : \A place : At(u, place)' <=> At(u, place)
    BY <1>1, <1>3 DEF Exiting, At
  <1>6. \A u \in Tid : Exists(u) => ProcessOf(u) < nextTask /\ Exists(Tgid(u)) /\ Tgid(u) # child
                                    /\ Tgid(u) \in Tid /\ Tgid(Tgid(u)) = Tgid(u) /\ u # child
    BY <1>1, Basics DEF Base, GInv, GroupsInv
  <1>7. \A u \in Tid, v \in Tid : Exists(u) /\ Exists(v) =>
          (ProcessOf(u) = ProcessOf(v) <=> Tgid(u) = Tgid(v))
    BY DEF Base, GInv, GroupsInv
  <1>8. GroupsInv'
    <2>1. ASSUME NEW u \in Tid, Exists(u)'
          PROVE  ProcessOf(u)' < nextTask' /\ Exists(Tgid(u))' /\ Tgid(Tgid(u))' = Tgid(u)'
      <3>1. CASE u = child
        <4>1. CASE process = nextTask /\ tgid = child BY <1>2, <1>4, <3>1, <4>1
        <4>2. CASE process = ProcessOf(t) /\ tgid = Tgid(t)
          <5>1. ProcessOf(t) \in Nat BY <1>1, Basics DEF Task
          <5>2. QED BY <1>1, <1>2, <1>4, <1>6, <3>1, <4>2, <5>1
        <4>3. QED BY <4>1, <4>2
      <3>2. CASE u # child
        <4>1. Exists(u) /\ ProcessOf(u) \in Nat BY <1>4, <2>1, <3>2, Basics DEF Task
        <4>2. QED BY <1>2, <1>4, <1>6, <3>2, <4>1
      <3>3. QED BY <3>1, <3>2
    <2>2. ASSUME NEW u \in Tid, u # child, Exists(u)
          PROVE  process = ProcessOf(u) <=> tgid = Tgid(u)
      <3>1. CASE process = nextTask /\ tgid = child
        <4>1. ProcessOf(u) \in Nat BY <2>2, Basics DEF Task
        <4>2. QED BY <1>2, <1>6, <2>2, <3>1, <4>1
      <3>2. CASE process = ProcessOf(t) /\ tgid = Tgid(t) BY <1>1, <1>7, <2>2, <3>2
      <3>3. QED BY <3>1, <3>2
    <2>3. \A u \in Tid, v \in Tid : Exists(u)' /\ Exists(v)' =>
            (ProcessOf(u)' = ProcessOf(v)' <=> Tgid(u)' = Tgid(v)')
      BY <1>4, <1>7, <2>2
    <2>4. ASSUME NEW u \in Tid, At(u, "reported")'
          PROVE  Tgid(u)' = u /\ \A v \in Tid : Exists(v)' /\ Tgid(v)' = u => v = u
      <3>1. u # t /\ u # child BY <1>3, <2>4 DEF At
      <3>2. At(u, "reported") /\ Exists(u) BY <1>5, <2>4, <3>1, Basics DEF At
      <3>3. Tgid(u) = u /\ \A v \in Tid : Exists(v) /\ Tgid(v) = u => v = u
        BY <3>2 DEF Base, GInv, GroupsInv
      <3>4. tgid # u BY <1>1, <3>1, <3>2, <3>3
      <3>5. QED BY <1>4, <3>1, <3>3, <3>4
    <2>5. \A u \in Tid : At(u, "kernel")' => phase'[u].call \in workload'.calls
      BY <1>2, <1>3 DEF Base, GInv, GroupsInv, At
    <2>6. Single' => \A u \in Tid : Exists(u)' => Tgid(u)' = u
      BY <1>2, <1>4 DEF Base, GInv, GroupsInv, Single
    <2>7. \A u \in Tid : At(u, "exec")' => Single'
      BY <1>2, <1>3 DEF Base, GInv, GroupsInv, At, Single
    <2>8. QED BY <2>1, <2>3, <2>4, <2>5, <2>6, <2>7 DEF GroupsInv
  <1>10. MetInv'
    <2>1. \A p : Met(p)' <=> Met(p) BY <1>2 DEF Met
    <2>2. \A a \in attributed' : a.process < nextTask'
      <3>1. \A a \in attributed : a.process \in Nat /\ a.process < nextTask
        BY DEF Base, TaskTyped, Task, GInv, MetInv
      <3>2. QED BY <1>2, <3>1
    <2>3. ASSUME NEW u \in Tid, Exists(u)', ~Met(ProcessOf(u))'
          PROVE  Tgid(u)' = u /\ (At(u, "user")' \/ At(u, "dead")' \/ At(u, "reported")')
      <3>1. CASE u = child
        <4>1. process # ProcessOf(t) BY <1>2, <1>4, <2>1, <2>3, <3>1
        <4>2. QED BY <1>3, <1>4, <3>1, <4>1 DEF At
      <3>2. CASE u # child
        <4>1. Exists(u) /\ ~Met(ProcessOf(u)) /\ u # t BY <1>2, <1>4, <2>1, <2>3, <3>2
        <4>2. Tgid(u) = u /\ (At(u, "user") \/ At(u, "dead") \/ At(u, "reported")) BY <4>1 DEF Base, GInv, MetInv
        <4>3. QED BY <1>4, <1>5, <3>2, <4>1, <4>2
      <3>3. QED BY <3>1, <3>2
    <2>4. QED BY <2>2, <2>3 DEF MetInv
  <1>11. active' = active /\ tids' = tids /\ generation' = generation BY <1>2 DEF analyzer
  <1>12. \A u \in Tid \ {child} : Stands(u)' <=> Stands(u) BY <1>4, <1>11 DEF Stands
  <1>13. LiveInv'
    <2>. SUFFICES ASSUME NEW u \in Tid, ~Exiting(u)', Met(ProcessOf(u))' PROVE LiveOf(u)'
      BY DEF LiveInv, LiveOf
    <2>1. CASE u = t BY <1>1, <1>2, <1>4, <1>11, <1>12, <2>1 DEF LiveOf
    <2>2. CASE u = child
      <3>1. process = ProcessOf(t) /\ tgid = Tgid(t)
        <4>1. Met(process) BY <1>2, <1>4, <2>2 DEF Met
        <4>2. process # nextTask BY <1>2, <4>1 DEF Met, Base, GInv, MetInv
        <4>3. QED BY <4>2
      <3>2. /\ At(t, "event")' /\ phase'[t].child = child /\ Tgid(t)' = Tgid(child)' /\ Stands(t)'
            /\ At(child, "user")' /\ active'[Tgid(child)'] # 0
        BY <1>1, <1>2, <1>3, <1>4, <1>11, <1>12, <3>1 DEF At
      <3>3. QED BY <2>2, <3>2 DEF LiveOf
    <2>3. CASE u \notin {t, child}
      <3>1. ~Exiting(u) /\ Met(ProcessOf(u)) BY <1>2, <1>4, <1>5, <2>3 DEF Met
      <3>2. LiveOf(u) BY DEF Base, GInv, LiveInv
      <3>3. active'[Tgid(u)'] # 0 BY <1>4, <1>11, <2>3, <3>1, <3>2 DEF LiveOf
      <3>4. CASE Stands(u) BY <1>12, <2>3, <3>3, <3>4 DEF LiveOf
      <3>5. CASE ~Stands(u)
        <4>1. PICK c \in Tid : /\ At(u, "user") /\ At(c, "event") /\ phase[c].child = u
                               /\ Tgid(c) = Tgid(u) /\ Stands(c)
          BY <3>1, <3>2, <3>5 DEF LiveOf
        <4>2. c \notin {t, child} BY <1>1, <4>1 DEF At
        <4>3. /\ At(u, "user")' /\ At(c, "event")' /\ phase'[c].child = u
              /\ Tgid(c)' = Tgid(u)' /\ Stands(c)'
          BY <1>3, <1>4, <1>5, <1>12, <2>3, <4>1, <4>2
        <4>4. QED BY <3>3, <4>3 DEF LiveOf
      <3>6. QED BY <3>4, <3>5
    <2>4. QED BY <2>1, <2>2, <2>3
  <1>14. KeysInv'
    <2>1. \A a, b \in attributed' : a.process = b.process =>
            a.instance = b.instance /\ a.generation + b.image = b.generation + a.image
      BY <1>2 DEF Base, GInv, KeysInv
    <2>2. ASSUME NEW a \in attributed, NEW u \in Tid, ~Exiting(u)', a.process = ProcessOf(u)'
          PROVE  LinkOf(a, u)'
      <3>1. LinkOf(a, t) /\ LinkOf(a, u) BY DEF Base, GInv, KeysInv
      <3>2. ~At(t, "exec") /\ ~At(t, "exec")' /\ ~At(child, "exec")' BY <1>3 DEF At
      <3>3. CASE u = child
        <4>1. process # nextTask BY <1>2, <1>4, <2>2, <3>3 DEF Base, GInv, MetInv
        <4>2. ProcessOf(u)' = ProcessOf(t) /\ Tgid(u)' = Tgid(t) BY <1>4, <3>3, <4>1
        <4>3. QED BY <1>2, <1>11, <2>2, <3>1, <3>2, <3>3, <4>2 DEF LinkOf
      <3>4. CASE u # child
        <4>1. ~Exiting(u) /\ (At(u, "exec")' <=> At(u, "exec")) BY <1>5, <2>2, <3>2, <3>4
        <4>2. QED BY <1>2, <1>4, <1>11, <2>2, <3>1, <3>4, <4>1 DEF LinkOf
      <3>5. QED BY <3>3, <3>4
    <2>3. \A a \in attributed', u \in Tid : LinkOf(a, u)' BY <1>2, <2>2 DEF LinkOf
    <2>4. QED BY <2>1, <2>3 DEF KeysInv
  <1>15. QED BY <1>8, <1>10, <1>13, <1>14 DEF GInv

(* A thread that is exiting dies, or all of a process.                     *)
LEMMA DieKeeps ==
  ASSUME Base, NEW who \in SUBSET Tid, Die(who), UNCHANGED workload,
         \/ \E t \in Tid : who = {t} /\ At(t, "kernel") /\ Exiting(t)
         \/ \E g : who = Group(g)
  PROVE  GInv'
  <1>. USE Places
  <1>1. /\ UNCHANGED << task, image, nextTask, analyzer, tgidCache, attributed, workload >>
        /\ \A u \in who : At(u, "dead")' /\ Exiting(u)'
        /\ \A u \in Tid \ who : phase'[u] = phase[u]
    BY DEF Die, KernelOnly, tracer, history, Base, Told, At, Exiting
  <1>2. /\ \A u \in Tid \ who : /\ Exiting(u)' <=> Exiting(u)
                                /\ \A place : At(u, place)' <=> At(u, place)
        /\ \A u \in Tid : /\ Exists(u)' <=> Exists(u)
                          /\ ProcessOf(u)' = ProcessOf(u) /\ Tgid(u)' = Tgid(u)
                          /\ Stands(u)' <=> Stands(u)
                          /\ Met(ProcessOf(u))' <=> Met(ProcessOf(u))
        /\ \A u \in Tid : \A place : At(u, place)' /\ place # "dead" => u \notin who
    BY <1>1 DEF Exiting, At, Exists, ProcessOf, Tgid, Stands, Met, analyzer
  <1>3. \A u \in Tid : ~Exiting(u)' => u \notin who /\ ~Exiting(u) BY <1>1, <1>2
  <1>4. GroupsInv'
    <2>1. \A u \in Tid : At(u, "kernel")' => phase'[u].call \in workload'.calls
      BY <1>1, <1>2 DEF Base, GInv, GroupsInv
    <2>2. \A u \in Tid : At(u, "exec")' => Single'
      BY <1>1, <1>2 DEF Base, GInv, GroupsInv, Single
    <2>3. \A u \in Tid : At(u, "reported")' => At(u, "reported") BY <1>1, <1>2
    <2>4. QED BY <1>1, <1>2, <2>1, <2>2, <2>3 DEF Base, GInv, GroupsInv, Single, Exists, Tgid, ProcessOf
  <1>6. MetInv'
    <2>1. \A u \in Tid : At(u, "user") \/ At(u, "dead") \/ At(u, "reported") =>
            At(u, "user")' \/ At(u, "dead")' \/ At(u, "reported")'
      BY <1>1, <1>2
    <2>2. QED BY <1>1, <1>2, <2>1 DEF Base, GInv, MetInv
  <1>7. LiveInv'
    <2>. SUFFICES ASSUME NEW u \in Tid, ~Exiting(u)', Met(ProcessOf(u))' PROVE LiveOf(u)'
      BY DEF LiveInv, LiveOf
    <2>1. u \notin who /\ ~Exiting(u) /\ Met(ProcessOf(u)) BY <1>2, <1>3
    <2>2. LiveOf(u) BY DEF Base, GInv, LiveInv
    <2>3. active'[Tgid(u)'] # 0 BY <1>1, <1>2, <2>1, <2>2 DEF LiveOf, analyzer
    <2>4. CASE Stands(u) BY <1>2, <2>3, <2>4 DEF LiveOf
    <2>5. CASE ~Stands(u)
      <3>1. PICK c \in Tid : /\ At(u, "user") /\ At(c, "event") /\ phase[c].child = u
                             /\ Tgid(c) = Tgid(u) /\ Stands(c)
        BY <2>1, <2>2, <2>5 DEF LiveOf
      <3>2. c \notin who
        <4>1. Exists(c) /\ Exists(u) BY <2>1, <3>1, Basics DEF At
        <4>2. \A g : who = Group(g) => (c \in who <=> u \in who) BY <3>1, <4>1 DEF Group, Tgid
        <4>3. ~At(c, "kernel") BY <3>1 DEF At
        <4>4. QED BY <2>1, <4>2, <4>3
      <3>3. /\ At(u, "user")' /\ At(c, "event")' /\ phase'[c].child = u
            /\ Tgid(c)' = Tgid(u)' /\ Stands(c)'
        BY <1>1, <1>2, <2>1, <3>1, <3>2
      <3>4. QED BY <2>3, <3>3 DEF LiveOf
    <2>6. QED BY <2>4, <2>5
  <1>8. KeysInv'
    <2>1. ASSUME NEW a \in attributed, NEW u \in Tid PROVE LinkOf(a, u)'
      <3>1. LinkOf(a, u) BY DEF Base, GInv, KeysInv
      <3>2. CASE Exiting(u)' BY <3>2 DEF LinkOf
      <3>3. CASE ~Exiting(u)'
        <4>1. u \notin who /\ ~Exiting(u) /\ (At(u, "exec")' <=> At(u, "exec")) BY <1>2, <1>3, <3>3
        <4>2. QED BY <1>1, <1>2, <3>1, <4>1 DEF LinkOf, analyzer
      <3>4. QED BY <3>2, <3>3
    <2>2. QED BY <1>1, <2>1 DEF Base, GInv, KeysInv
  <1>9. QED BY <1>4, <1>6, <1>7, <1>8 DEF GInv

(* A program that execs has no threads, or ends this proof's premises.     *)
LEMMA ExecveKeepsLives ==
  ASSUME Base, NEW t \in Tid, Execve(t), UNCHANGED workload
  PROVE  GInv'
  <1>. USE Places
  <1>1. At(t, "kernel") /\ phase[t].call = "execve" BY DEF Execve, At
  <1>2. Exists(t) /\ ~Exiting(t) /\ ~At(t, "user") BY <1>1, Basics DEF Exiting, At
  <1>3. Single /\ \A u \in Tid : Exists(u) => Tgid(u) = u
    BY <1>1 DEF Base, GInv, GroupsInv, ThreadsEndAlone
  <1>4. /\ UNCHANGED << nextTask, analyzer, tgidCache, attributed, workload >>
        /\ ProcessOf(t) \in Task /\ image' = [image EXCEPT ![ProcessOf(t)] = @ + 1]
        /\ \A u \in Tid : task'[u] = task[u]
        /\ phase'[t] = Execed /\ \A u \in Tid \ {t} : phase'[u] = phase[u]
    <2>1. task[t].tgid = t BY <1>2, <1>3 DEF Tgid
    <2>2. \A u \in Tid : u \in Group(t) => u = t BY <1>3 DEF Group, Tgid
    <2>3. ProcessOf(t) \in Task BY <1>2, Basics
    <2>4. QED BY <2>1, <2>2, <2>3 DEF Execve, KernelOnly, tracer, history, ProcessOf
  <1>5. /\ ~Exiting(t)' /\ At(t, "exec")' /\ \A place : At(t, place)' => place = "exec"
        /\ \A u \in Tid \ {t} : \A place : At(u, place)' <=> At(u, place)
        /\ \A u \in Tid : /\ Exiting(u)' <=> Exiting(u)
                          /\ Exists(u)' <=> Exists(u)
                          /\ ProcessOf(u)' = ProcessOf(u) /\ Tgid(u)' = Tgid(u)
                          /\ Stands(u)' <=> Stands(u)
                          /\ Met(ProcessOf(u))' <=> Met(ProcessOf(u))
    BY <1>2, <1>4 DEF Exiting, At, Exists, ProcessOf, Tgid, Stands, Met, analyzer
  <1>6. GroupsInv'
    <2>1. \A u \in Tid : At(u, "kernel")' => phase'[u].call \in workload'.calls
      BY <1>4, <1>5 DEF Base, GInv, GroupsInv
    <2>2. Single' BY <1>3, <1>4 DEF Single
    <2>3. \A u \in Tid : Exists(u)' => Tgid(u)' = u BY <1>3, <1>5
    <2>4. \A u \in Tid : Exists(u)' =>
            ProcessOf(u)' < nextTask' /\ Exists(Tgid(u))' /\ Tgid(Tgid(u))' = Tgid(u)'
      BY <1>3, <1>4, <1>5 DEF Base, GInv, GroupsInv
    <2>5. \A u, v \in Tid : Exists(u)' /\ Exists(v)' =>
            (ProcessOf(u)' = ProcessOf(v)' <=> Tgid(u)' = Tgid(v)')
      BY <1>5 DEF Base, GInv, GroupsInv
    <2>6. \A u \in Tid : At(u, "reported")' =>
            Tgid(u)' = u /\ \A v \in Tid : Exists(v)' /\ Tgid(v)' = u => v = u
      BY <1>5 DEF Base, GInv, GroupsInv
    <2>7. QED BY <2>1, <2>2, <2>3, <2>4, <2>5, <2>6 DEF GroupsInv
  <1>8. MetInv'
    <2>1. Met(ProcessOf(t)) BY <1>2, Basics
    <2>2. QED BY <1>4, <1>5, <2>1 DEF Base, GInv, MetInv
  <1>9. LiveInv'
    <2>. SUFFICES ASSUME NEW u \in Tid, ~Exiting(u)', Met(ProcessOf(u))' PROVE LiveOf(u)'
      BY DEF LiveInv, LiveOf
    <2>1. ~Exiting(u) /\ Met(ProcessOf(u)) BY <1>5
    <2>2. LiveOf(u) BY DEF Base, GInv, LiveInv
    <2>3. active'[Tgid(u)'] # 0 BY <1>4, <1>5, <2>1, <2>2 DEF LiveOf, analyzer
    <2>4. CASE Stands(u) BY <1>5, <2>3, <2>4 DEF LiveOf
    <2>5. CASE ~Stands(u)
      <3>1. PICK c \in Tid : /\ At(u, "user") /\ At(c, "event") /\ phase[c].child = u
                             /\ Tgid(c) = Tgid(u) /\ Stands(c)
        BY <2>1, <2>2, <2>5 DEF LiveOf
      <3>2. c # t /\ u # t BY <1>1, <3>1 DEF At
      <3>3. QED BY <1>4, <1>5, <2>3, <3>1, <3>2 DEF LiveOf
    <2>6. QED BY <2>4, <2>5
  <1>10. KeysInv'
    <2>1. ASSUME NEW a \in attributed, NEW u \in Tid, ~Exiting(u)', a.process = ProcessOf(u)'
          PROVE  LinkOf(a, u)'
      <3>1. LinkOf(a, u) /\ a.image \in Nat /\ a.generation \in Nat
        BY DEF Base, GInv, KeysInv, TaskTyped
      <3>2. ~Exiting(u) /\ Exists(u) /\ active' = active /\ generation' = generation
        BY <1>4, <1>5, <2>1, Basics DEF analyzer
      <3>3. CASE u = t
        <4>1. ~At(t, "exec") BY <1>1 DEF At
        <4>2. image'[ProcessOf(t)] = image[ProcessOf(t)] + 1 /\ image[ProcessOf(t)] \in Nat
          BY <1>4 DEF Base, TaskTyped
        <4>3. /\ a.instance = active[Tgid(t)]
              /\ generation[active[Tgid(t)]] + a.image + 0 = a.generation + image[ProcessOf(t)]
          BY <1>5, <2>1, <3>1, <3>2, <3>3, <4>1 DEF LinkOf
        <4>4. active[Tgid(t)] \in PL!Instance /\ generation[active[Tgid(t)]] \in Nat
          BY <4>3 DEF Base, Analyzed, PL!TypeOK, TaskTyped
        <4>5. generation[active[Tgid(t)]] + a.image + 1 = a.generation + image'[ProcessOf(t)]
          BY <3>1, <4>2, <4>3, <4>4
        <4>6. QED BY <1>5, <3>2, <3>3, <4>3, <4>5 DEF LinkOf
      <3>4. CASE u # t
        <4>1. ProcessOf(u) # ProcessOf(t) BY <1>2, <1>3, <3>2, <3>4 DEF Base, GInv, GroupsInv
        <4>2. image'[ProcessOf(u)] = image[ProcessOf(u)] BY <1>4, <3>2, <4>1, Basics DEF Base, TaskTyped
        <4>3. QED BY <1>5, <2>1, <3>1, <3>2, <3>4, <4>2 DEF LinkOf
      <3>5. QED BY <3>3, <3>4
    <2>2. QED BY <1>4, <2>1 DEF Base, GInv, KeysInv, LinkOf
  <1>11. QED BY <1>6, <1>8, <1>9, <1>10 DEF GInv

-----------------------------------------------------------------------------
(* An event that only adds to the analyzer's maps.                         *)
Grows ==
  /\ \A g \in Tid : active[g] # 0 => active'[g] = active[g]
  /\ \A i \in PL!Instance : tids[i] \subseteq tids'[i]
  /\ generation' = generation

LEMMA EnsureGrows ==
  ASSUME Analyzed, NEW t \in Tid, NEW g \in Tid, PL!EnsureProcess(t, g), generation' = generation
  PROVE  Grows /\ active'[g] # 0 /\ active'[g] = PL!InstanceFor(g) /\ t \in tids'[active'[g]]
  <1>. USE DEF PL!NoInstance, PL!Instance
  <1>1. PL!InstanceFor(g) \in PL!Instance BY DEF PL!EnsureProcess, PL!CanCreate
  <1>2. active[g] # 0 => PL!InstanceFor(g) = active[g] BY DEF PL!InstanceFor, PL!IsActive
  <1>3. QED
    BY <1>1, <1>2, BoundsAssumption DEF PL!EnsureProcess, Grows, Analyzed, PL!TypeOK

LEMMA ExitGrows ==
  ASSUME Analyzed, NEW t \in Tid, NEW g \in Tid, NEW call, NEW child,
         PL!Exit(t, g, call, child)
  PROVE  Grows /\ active'[g] # 0 /\ t \in tids'[active'[g]]
  <1>1. CASE \/ PL!ExitOrdinary(t, g, call, child) \/ PL!ForkExitMatched(t, g, call, child)
             \/ PL!ForkExitDeferred(t, g, call, child)
    BY <1>1, EnsureGrows DEF PL!ExitOrdinary, PL!ForkExitMatched, PL!ForkExitDeferred
  <1>2. PL!InstanceFor(g) \in PL!Instance => PL!InstanceFor(g) # 0
    BY BoundsAssumption DEF PL!Instance
  <1>3. active[g] # 0 => PL!InstanceFor(g) = active[g]
    BY DEF PL!InstanceFor, PL!IsActive, PL!NoInstance
  <1>4. CASE PL!ForkExitThread(t, g, call, child)
    BY <1>2, <1>3, <1>4 DEF PL!ForkExitThread, PL!CanCreate, Grows, Analyzed, PL!TypeOK
  <1>5. CASE PL!ForkExitCreate(t, g, call, child)
    <2>. DEFINE p == PL!InstanceFor(g)
                known == PL!IsActive(child) \/ child = g
                c == IF child = g THEN p ELSE IF known THEN active[child] ELSE PL!NextAfter(g)
    <2>1. /\ p \in PL!Instance /\ c \in PL!Instance /\ generation' = generation
          /\ active' = [active EXCEPT ![g] = p, ![child] = c]
          /\ tids' = [[tids EXCEPT ![p] = @ \cup {t}] EXCEPT ![c] = @ \cup {child}]
      BY <1>5 DEF PL!ForkExitCreate
    <2>2. child \in Tid BY <1>5 DEF PL!ForkExitCreate, PL!ForkExit
    <2>3. p # 0 /\ (active[g] # 0 => p = active[g]) BY <1>2, <1>3, <2>1
    <2>4. child = g => c = p OBVIOUS
    <2>5. child # g /\ active[child] # 0 => c = active[child] BY DEF PL!IsActive, PL!NoInstance
    <2>. HIDE DEF p, c
    <2>6. active'[g] = p /\ active'[child] = c /\ \A x \in Tid \ {g, child} : active'[x] = active[x]
      BY <2>1, <2>2, <2>4 DEF Analyzed, PL!TypeOK
    <2>7. t \in tids'[p] /\ \A i \in PL!Instance : tids[i] \subseteq tids'[i]
      BY <2>1 DEF Analyzed, PL!TypeOK
    <2>8. \A x \in Tid : active[x] # 0 => active'[x] = active[x]
      BY <2>3, <2>4, <2>5, <2>6
    <2>9. QED BY <2>1, <2>3, <2>6, <2>7, <2>8 DEF Grows
  <1>6. QED BY <1>1, <1>4, <1>5 DEF PL!Exit

LEMMA CreateGrows ==
  ASSUME Analyzed, NEW pg \in Tid, NEW c \in Tid, NEW cg \in Tid, PL!TaskCreate(pg, c, cg),
         active[pg] # 0
  PROVE  Grows /\ (cg = pg => c \in tids'[active[pg]])
  <1>1. ~PL!TaskCreateOrphan(pg) BY DEF PL!TaskCreateOrphan, PL!IsActive, PL!NoInstance
  <1>2. CASE cg = pg /\ PL!TaskCreateThread(pg, c)
    <2>1. active[pg] \in PL!Instance BY DEF Analyzed, PL!TypeOK, PL!NoInstance
    <2>2. QED BY <1>2, <2>1 DEF PL!TaskCreateThread, Grows, Analyzed, PL!TypeOK
  <1>3. CASE PL!TaskCreateProcess(pg, c, cg)
    BY <1>3, EnsureGrows DEF PL!TaskCreateProcess
  <1>4. QED BY <1>1, <1>2, <1>3 DEF PL!TaskCreate

(* What is not mistaken is resolved to its process.                        *)
LEMMA ResolvesRight ==
  ASSUME NEW S, Resolves(S), ~mistaken', NEW t \in S, Exists(t)
  PROVE  ResolveTgid(t) = Tgid(t)
  BY DEF Resolves, Tgid

(* A stop of t whose handling adds to the analyzer's maps.                 *)
LEMMA GrowsKeeps ==
  ASSUME Base, NEW t \in Tid, Grows, UNCHANGED << task, image, nextTask, attributed, workload >>,
         NEW f, phase' = [phase EXCEPT ![t] = f], f.at \in {"user", "exit"},
         Exists(t), ~Exiting(t), ~At(t, "user"), ~At(t, "exec"),
         At(t, "event") /\ Exists(phase[t].child) /\ Tgid(phase[t].child) = Tgid(t) =>
           phase[t].child \in tids'[active[Tgid(t)]]
  PROVE  GInv'
  <1>1. /\ phase'[t] = f /\ \A u \in Tid \ {t} : phase'[u] = phase[u]
        /\ ~Exiting(t)' /\ ~At(t, "event")' /\ ~At(t, "exec")' /\ ~At(t, "kernel")'
        /\ ~At(t, "dead")' /\ ~At(t, "dead")
        /\ ~At(t, "reported")' /\ ~At(t, "reported")
    BY DEF Base, Told, Exiting, At
  <1>2. /\ \A u \in Tid \ {t} : \A place : At(u, place)' <=> At(u, place)
        /\ \A u \in Tid : /\ Exiting(u)' <=> Exiting(u)
                          /\ Exists(u)' <=> Exists(u)
                          /\ At(u, "dead")' <=> At(u, "dead")
                          /\ At(u, "reported")' <=> At(u, "reported")
                          /\ At(u, "exec")' <=> At(u, "exec")
                          /\ ProcessOf(u)' = ProcessOf(u) /\ Tgid(u)' = Tgid(u)
                          /\ Met(ProcessOf(u))' <=> Met(ProcessOf(u))
    BY <1>1 DEF Exiting, At, Exists, ProcessOf, Tgid, Met
  <1>3. Met(ProcessOf(t)) /\ active[Tgid(t)] # 0 /\ Stands(t) BY Basics
  <1>4. GroupsInv'
    <2>1. \A u \in Tid : At(u, "reported")' =>
            Tgid(u)' = u /\ \A v \in Tid : Exists(v)' /\ Tgid(v)' = u => v = u
      BY <1>1, <1>2 DEF Base, GInv, GroupsInv
    <2>2. \A u \in Tid : At(u, "kernel")' => phase'[u].call \in workload'.calls
      BY <1>1, <1>2 DEF Base, GInv, GroupsInv
    <2>3. \A u \in Tid : At(u, "exec")' => Single'
      BY <1>2 DEF Base, GInv, GroupsInv, Single
    <2>4. QED BY <1>2, <2>1, <2>2, <2>3 DEF Base, GInv, GroupsInv, Single, Exists, Tgid, ProcessOf
  <1>6. MetInv' BY <1>2, <1>3 DEF Base, GInv, MetInv
  <1>7. \A u \in Tid : active[Tgid(u)] # 0 /\ Exists(u) =>
          active'[Tgid(u)'] = active[Tgid(u)] /\ (Stands(u) => Stands(u)')
    <2>. SUFFICES ASSUME NEW u \in Tid, active[Tgid(u)] # 0, Exists(u)
                  PROVE  active'[Tgid(u)] = active[Tgid(u)] /\ (Stands(u) => Stands(u)')
      BY <1>2
    <2>1. Tgid(u) \in Tid /\ active[Tgid(u)] \in PL!Instance
      BY Basics DEF Base, Analyzed, PL!TypeOK, PL!NoInstance
    <2>2. QED BY <1>2, <2>1 DEF Grows, Stands
  <1>8. LiveInv'
    <2>. SUFFICES ASSUME NEW u \in Tid, ~Exiting(u)', Met(ProcessOf(u))' PROVE LiveOf(u)'
      BY DEF LiveInv, LiveOf
    <2>1. ~Exiting(u) /\ Met(ProcessOf(u)) /\ Exists(u) BY <1>2, Basics
    <2>2. LiveOf(u) BY DEF Base, GInv, LiveInv
    <2>3. active'[Tgid(u)'] = active[Tgid(u)] /\ active[Tgid(u)] # 0 BY <1>7, <2>1, <2>2 DEF LiveOf
    <2>4. CASE Stands(u) BY <1>7, <2>1, <2>3, <2>4 DEF LiveOf
    <2>5. CASE ~Stands(u)
      <3>1. PICK c \in Tid : /\ At(u, "user") /\ At(c, "event") /\ phase[c].child = u
                             /\ Tgid(c) = Tgid(u) /\ Stands(c)
        BY <2>1, <2>2, <2>5 DEF LiveOf
      <3>2. CASE c = t
        <4>1. u \in tids'[active[Tgid(t)]] BY <2>1, <3>1, <3>2
        <4>2. Stands(u)' BY <1>2, <2>3, <3>1, <3>2, <4>1 DEF Stands
        <4>3. QED BY <2>3, <4>2 DEF LiveOf
      <3>3. CASE c # t
        <4>1. u # t /\ Exists(c) BY <3>1, Basics DEF At
        <4>2. Stands(c)' BY <1>7, <2>3, <3>1, <4>1
        <4>3. QED BY <1>1, <1>2, <2>3, <3>1, <3>3, <4>1, <4>2 DEF LiveOf
      <3>4. QED BY <3>2, <3>3
    <2>6. QED BY <2>4, <2>5
  <1>9. KeysInv'
    <2>1. ASSUME NEW a \in attributed, NEW u \in Tid, ~Exiting(u)', a.process = ProcessOf(u)'
          PROVE  LinkOf(a, u)'
      <3>1. LinkOf(a, u) /\ LiveOf(u) BY DEF Base, GInv, KeysInv, LiveInv
      <3>2. ~Exiting(u) /\ Met(ProcessOf(u)) /\ Exists(u) BY <1>2, <2>1, Basics DEF Met
      <3>3. active'[Tgid(u)'] = active[Tgid(u)] BY <1>7, <3>1, <3>2 DEF LiveOf
      <3>4. QED BY <1>2, <2>1, <3>1, <3>2, <3>3 DEF LinkOf, Grows
    <2>2. QED BY <2>1 DEF Base, GInv, KeysInv, LinkOf
  <1>10. QED BY <1>4, <1>6, <1>8, <1>9 DEF GInv

LEMMA HandleExitKeeps ==
  ASSUME Base, NEW t \in Tid, HandleExit(t), UNCHANGED workload, ~mistaken' PROVE GInv'
  <1>. USE Places
  <1>1. /\ Exists(t) /\ ~Exiting(t) /\ ~At(t, "user") /\ ~At(t, "exec") /\ ~At(t, "event")
    BY DEF HandleExit, MayReturn, Exiting, At
  <1>2. ResolveTgid(t) = Tgid(t) /\ Tgid(t) \in Tid BY <1>1, ResolvesRight, Basics DEF HandleExit
  <1>3. Grows
    <2>1. PICK call, child : PL!Exit(t, Tgid(t), call, child) BY <1>2 DEF HandleExit
    <2>2. QED BY <1>2, <2>1, ExitGrows DEF Base
  <1>4. /\ phase' = [phase EXCEPT ![t] = User]
        /\ UNCHANGED << task, image, nextTask, attributed >>
    BY DEF HandleExit
  <1>5. User.at \in {"user", "exit"} OBVIOUS
  <1>6. QED BY <1>1, <1>3, <1>4, <1>5, GrowsKeeps

LEMMA HandleForkKeeps ==
  ASSUME Base, NEW t \in Tid, HandleFork(t), UNCHANGED workload, ~mistaken' PROVE GInv'
  <1>. USE Places
  <1>1. /\ Exists(t) /\ ~Exiting(t) /\ ~At(t, "user") /\ ~At(t, "exec") /\ At(t, "event")
    BY DEF HandleFork, Exiting, At
  <1>2. PICK c \in Tid : c = phase[t].child
    BY <1>1, PhaseFields DEF Base, Told, At
  <1>3. /\ ResolveTgid(t) = Tgid(t) /\ Tgid(t) \in Tid /\ active[Tgid(t)] # 0
        /\ Exists(c) => ResolveTgid(c) = Tgid(c)
        /\ ResolveTgid(c) \in Tid
    BY <1>1, <1>2, ResolvesRight, TgidIsTask, Basics DEF HandleFork, Base
  <1>4. PL!TaskCreate(Tgid(t), c, ResolveTgid(c)) BY <1>2, <1>3 DEF HandleFork
  <1>5. Grows /\ (Exists(c) /\ Tgid(c) = Tgid(t) => c \in tids'[active[Tgid(t)]])
    BY <1>3, <1>4, CreateGrows DEF Base
  <1>6. /\ phase' = [phase EXCEPT ![t] = Returning(phase[t].call, c)]
        /\ UNCHANGED << task, image, nextTask, attributed >>
    BY <1>2 DEF HandleFork
  <1>7. Returning(phase[t].call, c).at \in {"user", "exit"} OBVIOUS
  <1>8. QED BY <1>1, <1>2, <1>5, <1>6, <1>7, GrowsKeeps

LEMMA HandleExecKeeps ==
  ASSUME Base, NEW t \in Tid, HandleExec(t), UNCHANGED workload, ~mistaken' PROVE GInv'
  <1>. USE Places
  <1>1. Exists(t) /\ ~Exiting(t) /\ ~At(t, "user") /\ At(t, "exec")
    BY DEF HandleExec, Exiting, At
  <1>2. Single /\ \A u \in Tid : Exists(u) => Tgid(u) = u
    BY <1>1 DEF Base, GInv, GroupsInv
  <1>3. Met(ProcessOf(t)) /\ active[t] # 0 /\ t \in tids[active[t]] /\ ResolveTgid(t) = t
    BY <1>1, <1>2, ResolvesRight, Basics DEF Stands, HandleExec
  <1>4. PICK i \in PL!Instance : i = active[t] /\ generation[i] \in Nat
    BY <1>3 DEF Base, Analyzed, PL!TypeOK, PL!NoInstance
  <1>5. /\ generation' = [generation EXCEPT ![i] = @ + 1] /\ tids' = [tids EXCEPT ![i] = {t}]
        /\ active' = active
    BY <1>3, <1>4 DEF HandleExec, PL!Exec, PL!IsActive, PL!NoInstance
  <1>6. /\ generation'[i] = generation[i] + 1 /\ tids'[i] = {t}
        /\ \A j \in PL!Instance \ {i} : generation'[j] = generation[j] /\ tids'[j] = tids[j]
    BY <1>5 DEF Base, Analyzed, PL!TypeOK
  <1>7. /\ UNCHANGED << task, image, nextTask, attributed >>
        /\ phase'[t] = Returning("execve", PL!NoTid) /\ \A u \in Tid \ {t} : phase'[u] = phase[u]
    BY DEF HandleExec, Base, Told
  <1>8. /\ ~Exiting(t)' /\ ~At(t, "event")' /\ ~At(t, "exec")' /\ ~At(t, "kernel")'
        /\ ~At(t, "dead")' /\ ~At(t, "dead")
        /\ ~At(t, "reported")' /\ ~At(t, "reported")
        /\ \A u \in Tid \ {t} : \A place : At(u, place)' <=> At(u, place)
        /\ \A u \in Tid : /\ Exiting(u)' <=> Exiting(u)
                          /\ Exists(u)' <=> Exists(u)
                          /\ At(u, "dead")' <=> At(u, "dead")
                          /\ At(u, "reported")' <=> At(u, "reported")
                          /\ ProcessOf(u)' = ProcessOf(u) /\ Tgid(u)' = Tgid(u)
                          /\ Met(ProcessOf(u))' <=> Met(ProcessOf(u))
    BY <1>1, <1>7 DEF Exiting, At, Exists, ProcessOf, Tgid, Met
  <1>9. GroupsInv'
    <2>1. \A u \in Tid : At(u, "reported")' =>
            Tgid(u)' = u /\ \A v \in Tid : Exists(v)' /\ Tgid(v)' = u => v = u
      BY <1>8 DEF Base, GInv, GroupsInv
    <2>2. \A u \in Tid : At(u, "kernel")' => phase'[u].call \in workload'.calls
      BY <1>7, <1>8 DEF Base, GInv, GroupsInv
    <2>3. Single' BY <1>2 DEF Single
    <2>4. QED BY <1>2, <1>7, <1>8, <2>1, <2>2, <2>3 DEF Base, GInv, GroupsInv, Exists, Tgid, ProcessOf
  <1>11. MetInv' BY <1>3, <1>7, <1>8 DEF Base, GInv, MetInv
  <1>12. \A u \in Tid \ {t} : Exists(u) => ~At(u, "event") \/ phase[u].child # t \/ Tgid(u) # t
    BY <1>2
  <1>13. \A u \in Tid \ {t} : active[u] # i
    BY <1>3, <1>4, Basics
  <1>14. \A u \in Tid \ {t} : Exists(u) => ProcessOf(u) # ProcessOf(t) /\ (active[u] # 0 /\ Stands(u) => Stands(u)')
    <2>. SUFFICES ASSUME NEW u \in Tid \ {t}, Exists(u)
                  PROVE  ProcessOf(u) # ProcessOf(t) /\ (active[u] # 0 /\ Stands(u) => Stands(u)')
      OBVIOUS
    <2>1. ProcessOf(u) # ProcessOf(t) BY <1>1, <1>2 DEF Base, GInv, GroupsInv
    <2>2. active[u] # 0 => active[u] \in PL!Instance \ {i}
      BY <1>13 DEF Base, Analyzed, PL!TypeOK, PL!NoInstance
    <2>3. QED BY <1>2, <1>5, <1>6, <1>8, <2>1, <2>2 DEF Stands
  <1>15. LiveInv'
    <2>. SUFFICES ASSUME NEW u \in Tid, ~Exiting(u)', Met(ProcessOf(u))' PROVE LiveOf(u)'
      BY DEF LiveInv, LiveOf
    <2>1. CASE u = t
      <3>1. Tgid(t)' = t BY <1>1, <1>2, <1>8
      <3>2. Stands(t)' BY <1>4, <1>5, <1>6, <3>1 DEF Stands
      <3>3. QED BY <1>3, <1>5, <2>1, <3>1, <3>2 DEF LiveOf
    <2>2. CASE u # t
      <3>1. ~Exiting(u) /\ Met(ProcessOf(u)) /\ Exists(u) /\ Tgid(u) = u /\ Tgid(u)' = u
        BY <1>2, <1>8, Basics
      <3>2. LiveOf(u) BY DEF Base, GInv, LiveInv
      <3>3. active[u] # 0 /\ active'[Tgid(u)'] # 0 BY <1>5, <3>1, <3>2 DEF LiveOf
      <3>4. ASSUME ~Stands(u) PROVE FALSE
        <4>1. PICK c \in Tid : At(c, "event") /\ phase[c].child = u /\ Tgid(c) = u
                                /\ At(u, "user")
          BY <3>1, <3>2, <3>4 DEF LiveOf
        <4>2. Exists(c) /\ c # u BY <4>1, Basics DEF At
        <4>3. QED BY <1>2, <4>1, <4>2
      <3>5. QED BY <1>14, <2>2, <3>1, <3>3, <3>4 DEF LiveOf
    <2>3. QED BY <2>1, <2>2
  <1>16. KeysInv'
    <2>1. ASSUME NEW a \in attributed, NEW u \in Tid, ~Exiting(u)', a.process = ProcessOf(u)'
          PROVE  LinkOf(a, u)'
      <3>1. /\ LinkOf(a, u) /\ LiveOf(u) /\ a.image \in Nat /\ a.generation \in Nat
        BY DEF Base, GInv, KeysInv, LiveInv, TaskTyped
      <3>2. ~Exiting(u) /\ Met(ProcessOf(u)) /\ Exists(u) /\ Tgid(u) = u /\ Tgid(u)' = u
        BY <1>2, <1>8, <2>1, Basics DEF Met
      <3>3. CASE u = t
        <4>1. /\ a.instance = i
              /\ generation[i] + a.image + 1 = a.generation + image[ProcessOf(t)]
          BY <1>1, <1>4, <1>8, <2>1, <3>1, <3>2, <3>3 DEF LinkOf
        <4>2. generation'[i] + a.image + 0 = a.generation + image[ProcessOf(t)]
          BY <1>4, <1>6, <3>1, <4>1
        <4>3. QED BY <1>4, <1>5, <1>7, <1>8, <3>2, <3>3, <4>1, <4>2 DEF LinkOf
      <3>4. CASE u # t
        <4>1. active[u] \in PL!Instance \ {i}
          BY <1>13, <3>1, <3>2, <3>4 DEF LiveOf, Base, Analyzed, PL!TypeOK, PL!NoInstance
        <4>2. generation'[active[u]] = generation[active[u]] BY <1>6, <4>1
        <4>3. QED BY <1>5, <1>7, <1>8, <2>1, <3>1, <3>2, <3>4, <4>2 DEF LinkOf
      <3>5. QED BY <3>3, <3>4
    <2>2. QED BY <1>7, <2>1 DEF Base, GInv, KeysInv, LinkOf
  <1>17. QED BY <1>9, <1>11, <1>15, <1>16 DEF GInv

(* A dead task's id is given up.                                           *)
LEMMA FreeKeeps ==
  ASSUME Base, NEW t \in Tid, Exists(t), At(t, "dead") \/ At(t, "reported"),
         Tgid(t) = t => \A u \in Tid : Exists(u) /\ Tgid(u) = t => u = t,
         task' = [task EXCEPT ![t] = NoTask], phase' = [phase EXCEPT ![t] = Dead],
         UNCHANGED << image, nextTask, analyzer, attributed, workload >>
  PROVE  GInv'
  <1>. USE Places
  <1>1. /\ Exiting(t) /\ ~At(t, "event") /\ Exiting(t)' /\ At(t, "dead")'
        /\ \A u \in Tid \ {t} : phase'[u] = phase[u]
        /\ task'[t] = NoTask /\ \A u \in Tid \ {t} : task'[u] = task[u]
    BY DEF Exiting, At, Base, Told, TaskTyped
  <1>2. /\ ~Exists(t)'
        /\ \A u \in Tid \ {t} : /\ Exists(u)' <=> Exists(u)
                                /\ ProcessOf(u)' = ProcessOf(u) /\ Tgid(u)' = Tgid(u)
                                /\ Stands(u)' <=> Stands(u)
        /\ \A u \in Tid \ {t} : \A place : At(u, place)' <=> At(u, place)
        /\ \A u \in Tid : Exiting(u)' <=> Exiting(u)
        /\ \A p : Met(p)' <=> Met(p)
    BY <1>1 DEF Exiting, At, Exists, ProcessOf, Tgid, Stands, Met, analyzer
  <1>3. \A u \in Tid \ {t} : Exists(u) => Tgid(u) # t
    <2>. SUFFICES ASSUME NEW u \in Tid, u # t, Exists(u), Tgid(u) = t PROVE FALSE OBVIOUS
    <2>1. Tgid(t) = t BY DEF Base, GInv, GroupsInv
    <2>2. QED BY <2>1
  <1>5. GroupsInv'
    <2>1. \A u \in Tid : Exists(u)' =>
            /\ u # t /\ ProcessOf(u)' < nextTask' /\ Exists(Tgid(u))'
            /\ Tgid(Tgid(u))' = Tgid(u)'
      BY <1>1, <1>2, <1>3, Basics DEF Base, GInv, GroupsInv
    <2>2. \A u, v \in Tid : Exists(u)' /\ Exists(v)' =>
            (ProcessOf(u)' = ProcessOf(v)' <=> Tgid(u)' = Tgid(v)')
      BY <1>2 DEF Base, GInv, GroupsInv
    <2>3. ASSUME NEW u \in Tid, At(u, "reported")'
          PROVE  Tgid(u)' = u /\ \A v \in Tid : Exists(v)' /\ Tgid(v)' = u => v = u
      <3>1. u # t /\ At(u, "reported") BY <1>1, <1>2, <2>3 DEF At
      <3>2. QED BY <1>2, <3>1 DEF Base, GInv, GroupsInv
    <2>4. \A u \in Tid : At(u, "kernel")' => phase'[u].call \in workload'.calls
      BY <1>1, <1>2 DEF Base, GInv, GroupsInv, At
    <2>5. Single' => \A u \in Tid : Exists(u)' => Tgid(u)' = u
      BY <1>2 DEF Base, GInv, GroupsInv, Single
    <2>6. \A u \in Tid : At(u, "exec")' => Single'
      BY <1>1, <1>2 DEF At, Base, GInv, GroupsInv, Single
    <2>7. QED BY <2>1, <2>2, <2>3, <2>4, <2>5, <2>6 DEF GroupsInv
  <1>7. MetInv'
    <2>1. \A u \in Tid : Exists(u)' => u # t /\ Exists(u) BY <1>2
    <2>2. QED BY <1>1, <1>2, <2>1 DEF Base, GInv, MetInv
  <1>8. LiveInv'
    <2>. SUFFICES ASSUME NEW u \in Tid, ~Exiting(u)', Met(ProcessOf(u))' PROVE LiveOf(u)'
      BY DEF LiveInv, LiveOf
    <2>1. ~Exiting(u) /\ u # t /\ Met(ProcessOf(u)) BY <1>1, <1>2 DEF Met
    <2>2. LiveOf(u) BY DEF Base, GInv, LiveInv
    <2>3. active'[Tgid(u)'] # 0 BY <1>1, <1>2, <2>1, <2>2 DEF LiveOf, analyzer
    <2>4. CASE Stands(u) BY <1>2, <2>1, <2>3, <2>4 DEF LiveOf
    <2>5. CASE ~Stands(u)
      <3>1. PICK c \in Tid : /\ At(u, "user") /\ At(c, "event") /\ phase[c].child = u
                             /\ Tgid(c) = Tgid(u) /\ Stands(c)
        BY <2>1, <2>2, <2>5 DEF LiveOf
      <3>2. c # t BY <1>1, <3>1
      <3>3. QED BY <1>1, <1>2, <2>1, <2>3, <3>1, <3>2 DEF LiveOf
    <2>6. QED BY <2>4, <2>5
  <1>9. KeysInv'
    <2>1. ASSUME NEW a \in attributed, NEW u \in Tid, ~Exiting(u)' PROVE LinkOf(a, u)'
      <3>1. LinkOf(a, u) /\ u # t BY <1>1, <1>2, <2>1 DEF Base, GInv, KeysInv
      <3>2. QED BY <1>1, <1>2, <2>1, <3>1 DEF LinkOf, analyzer
    <2>2. QED BY <1>1, <2>1 DEF Base, GInv, KeysInv, LinkOf
  <1>10. QED BY <1>5, <1>7, <1>8, <1>9 DEF GInv

(* The tracer is told of the death of a process, whose id stays taken.     *)
LEMMA ReportKeeps ==
  ASSUME Base, NEW t \in Tid, HandleDeath(t), Tgid(t) = t, UNCHANGED workload PROVE GInv'
  <1>. USE Places
  <1>1. /\ Exists(t) /\ At(t, "dead") /\ Exiting(t) /\ At(t, "reported")' /\ Exiting(t)'
        /\ \A u \in Tid : Exists(u) /\ Tgid(u) = t => u = t
        /\ UNCHANGED << task, image, nextTask, analyzer, attributed >>
        /\ \A u \in Tid \ {t} : phase'[u] = phase[u]
    <2>1. IsLeader(t) /\ Group(t) = {t} BY DEF HandleDeath, IsLeader, Tgid
    <2>2. \A u \in Tid : Exists(u) /\ Tgid(u) = t => u = t BY <2>1 DEF Group, Tgid
    <2>3. QED BY <2>1, <2>2 DEF HandleDeath, history, At, Exiting, Base, Told
  <1>2. /\ \A u \in Tid \ {t} : \A place : At(u, place)' <=> At(u, place)
        /\ \A u \in Tid : \A place : At(u, place)' /\ place \notin {"dead", "reported"} =>
                              u # t /\ At(u, place)
        /\ \A u \in Tid : \A place : At(u, place) /\ place \notin {"dead", "reported"} =>
                              u # t /\ At(u, place)'
        /\ \A u \in Tid : /\ Exiting(u)' <=> Exiting(u)
                          /\ Exists(u)' <=> Exists(u)
                          /\ ProcessOf(u)' = ProcessOf(u) /\ Tgid(u)' = Tgid(u)
                          /\ Stands(u)' <=> Stands(u)
        /\ \A p : Met(p)' <=> Met(p)
    BY <1>1 DEF Exiting, At, Exists, ProcessOf, Tgid, Stands, Met, analyzer
  <1>3. GroupsInv'
    <2>1. ASSUME NEW u \in Tid, At(u, "reported")'
          PROVE  Tgid(u)' = u /\ \A v \in Tid : Exists(v)' /\ Tgid(v)' = u => v = u
      <3>1. CASE u = t BY <1>1, <1>2, <3>1
      <3>2. CASE u # t BY <1>2, <2>1, <3>2 DEF Base, GInv, GroupsInv
      <3>3. QED BY <3>1, <3>2
    <2>2. \A u \in Tid : At(u, "kernel")' => phase'[u].call \in workload'.calls
      BY <1>1, <1>2 DEF Base, GInv, GroupsInv
    <2>3. \A u \in Tid : At(u, "exec")' => Single'
      BY <1>2 DEF Base, GInv, GroupsInv, Single
    <2>4. QED BY <1>1, <1>2, <2>1, <2>2, <2>3
          DEF Base, GInv, GroupsInv, Single, Exists, Tgid, ProcessOf
  <1>4. MetInv'
    <2>1. \A u \in Tid : At(u, "user") \/ At(u, "dead") \/ At(u, "reported") =>
            At(u, "user")' \/ At(u, "dead")' \/ At(u, "reported")'
      BY <1>1, <1>2
    <2>2. QED BY <1>1, <1>2, <2>1 DEF Base, GInv, MetInv
  <1>5. LiveInv'
    <2>. SUFFICES ASSUME NEW u \in Tid, ~Exiting(u)', Met(ProcessOf(u))' PROVE LiveOf(u)'
      BY DEF LiveInv, LiveOf
    <2>1. ~Exiting(u) /\ u # t /\ Met(ProcessOf(u)) BY <1>1, <1>2 DEF Met
    <2>2. LiveOf(u) BY DEF Base, GInv, LiveInv
    <2>3. active'[Tgid(u)'] # 0 BY <1>1, <1>2, <2>1, <2>2 DEF LiveOf, analyzer
    <2>4. CASE Stands(u) BY <1>2, <2>3, <2>4 DEF LiveOf
    <2>5. CASE ~Stands(u)
      <3>1. PICK c \in Tid : /\ At(u, "user") /\ At(c, "event") /\ phase[c].child = u
                             /\ Tgid(c) = Tgid(u) /\ Stands(c)
        BY <2>1, <2>2, <2>5 DEF LiveOf
      <3>2. c # t /\ At(c, "event")' /\ At(u, "user")' BY <1>2, <3>1
      <3>3. QED BY <1>1, <1>2, <2>1, <2>3, <3>1, <3>2 DEF LiveOf
    <2>6. QED BY <2>4, <2>5
  <1>6. KeysInv'
    <2>1. ASSUME NEW a \in attributed, NEW u \in Tid, ~Exiting(u)' PROVE LinkOf(a, u)'
      <3>1. LinkOf(a, u) /\ u # t BY <1>1, <1>2, <2>1 DEF Base, GInv, KeysInv
      <3>2. At(u, "exec")' <=> At(u, "exec") BY <1>2
      <3>3. QED BY <1>1, <1>2, <2>1, <3>1, <3>2 DEF LinkOf, analyzer
    <2>2. QED BY <1>1, <2>1 DEF Base, GInv, KeysInv, LinkOf
  <1>7. QED BY <1>3, <1>4, <1>5, <1>6 DEF GInv

LEMMA HandleDeathKeeps ==
  ASSUME Base, NEW t \in Tid, HandleDeath(t), UNCHANGED workload PROVE GInv'
  <1>1. CASE Tgid(t) = t BY <1>1, ReportKeeps
  <1>2. CASE Tgid(t) # t
    <2>1. /\ Exists(t) /\ phase[t] = Dead /\ task' = [task EXCEPT ![t] = NoTask] /\ phase' = phase
          /\ UNCHANGED << image, nextTask, analyzer, attributed >>
      BY <1>2 DEF HandleDeath, IsLeader, Tgid, history
    <2>2. phase' = [phase EXCEPT ![t] = Dead] BY <2>1 DEF Base, Told
    <2>3. At(t, "dead") BY <2>1, Places DEF At
    <2>4. QED BY <1>2, <2>1, <2>2, <2>3, FreeKeeps
  <1>3. QED BY <1>1, <1>2

LEMMA ReleaseKeeps ==
  ASSUME Base, NEW t \in Tid, Release(t), UNCHANGED workload PROVE GInv'
  <1>1. At(t, "reported") /\ Exists(t) BY Places, PhasesAre DEF Release, At, Base, Told
  <1>2. \A u \in Tid : Exists(u) /\ Tgid(u) = t => u = t
    BY <1>1 DEF Base, GInv, GroupsInv
  <1>3. QED BY <1>1, <1>2, FreeKeeps DEF Release, KernelOnly, history

-----------------------------------------------------------------------------
(* What the analyzer does with an entry.                                   *)
LEMMA EntryDoes ==
  ASSUME Analyzed, NEW t \in Tid, NEW g \in Tid, NEW call, PL!Entry(t, g, call)
  PROVE  \E i \in PL!Instance :
           /\ i # 0 /\ i = PL!InstanceFor(g) /\ (active[g] # 0 => i = active[g])
           /\ pending'[t].instance = i /\ pending'[t].generation = generation[i]
           /\ generation' = generation
           /\ active'[g] \in {0, i} /\ \A x \in Tid \ {g} : active'[x] = active[x]
           /\ \A j \in PL!Instance \ {i} : tids'[j] = tids[j]
           /\ call \notin {"exit", "exit_group"} =>
                active'[g] = i /\ tids'[i] = tids[i] \cup {t}
           /\ call = "exit" =>
                tids'[i] = tids[i] \ {t} /\ (tids[i] \ {t} # {} => active'[g] = i)
  <1>. DEFINE i == PL!InstanceFor(g)
  <1>1. PL!RecordEntry(t, g, call)
    BY DEF PL!Entry, PL!EntryOrdinary, PL!EntryThreadExit, PL!EntryGroupExit
  <1>2. i \in PL!Instance BY <1>1 DEF PL!RecordEntry, PL!CanCreate
  <1>3. i # 0 BY <1>2, BoundsAssumption DEF PL!Instance
  <1>4. active[g] # 0 => i = active[g] BY DEF PL!InstanceFor, PL!IsActive, PL!NoInstance
  <1>5. /\ pending'[t].instance = i /\ pending'[t].generation = generation[i]
        /\ generation' = generation
    BY <1>1 DEF PL!RecordEntry, Analyzed, PL!TypeOK
  <1>6. \E x \in {0, i} : \E S : active' = [active EXCEPT ![g] = x] /\ tids' = [tids EXCEPT ![i] = S]
    <2>1. CASE PL!EntryOrdinary(t, g, call) BY <2>1 DEF PL!EntryOrdinary
    <2>2. CASE PL!EntryThreadExit(t, g)
      <3>1. (IF tids[i] \ {t} = {} THEN 0 ELSE i) \in {0, i} OBVIOUS
      <3>2. QED BY <2>2, <3>1 DEF PL!EntryThreadExit, PL!NoInstance
    <2>3. CASE PL!EntryGroupExit(t, g) BY <2>3 DEF PL!EntryGroupExit, PL!NoInstance
    <2>4. QED BY <2>1, <2>2, <2>3 DEF PL!Entry
  <1>7. /\ active'[g] \in {0, i} /\ \A x \in Tid \ {g} : active'[x] = active[x]
        /\ \A j \in PL!Instance \ {i} : tids'[j] = tids[j]
    BY <1>2, <1>6 DEF Analyzed, PL!TypeOK
  <1>8. call \notin {"exit", "exit_group"} => active'[g] = i /\ tids'[i] = tids[i] \cup {t}
    <2>1. call \notin {"exit", "exit_group"} => PL!EntryOrdinary(t, g, call) BY DEF PL!Entry
    <2>2. QED BY <1>2, <2>1 DEF PL!EntryOrdinary, Analyzed, PL!TypeOK
  <1>9. call = "exit" => tids'[i] = tids[i] \ {t} /\ (tids[i] \ {t} # {} => active'[g] = i)
    <2>1. call = "exit" => PL!EntryThreadExit(t, g)
      BY DEF PL!Entry, PL!EntryOrdinary, PL!EntryGroupExit
    <2>2. QED BY <1>2, <2>1 DEF PL!EntryThreadExit, Analyzed, PL!TypeOK
  <1>. HIDE DEF i
  <1>10. QED BY <1>2, <1>3, <1>4, <1>5, <1>7, <1>8, <1>9 DEF i

LEMMA HandleEntryKeeps ==
  ASSUME Base, NEW t \in Tid, NEW call \in workload.calls, HandleEntry(t, call), UNCHANGED workload,
         ~mistaken'
  PROVE  GInv'
  <1>. USE Places
  <1>1. /\ Exists(t) /\ At(t, "user") /\ ~Exiting(t) /\ phase[t] = User
        /\ UNCHANGED << task, image, nextTask, workload >>
        /\ phase'[t] = InKernel(call) /\ \A u \in Tid \ {t} : phase'[u] = phase[u]
    BY DEF HandleEntry, Exiting, At, Base, Told
  <1>2. PICK g \in Tid : g = Tgid(t) /\ ResolveTgid(t) = g BY <1>1, ResolvesRight, Basics DEF HandleEntry
  <1>3. PL!Entry(t, g, call) BY <1>2 DEF HandleEntry
  <1>4. PICK i \in PL!Instance :
           /\ i # 0 /\ i = PL!InstanceFor(g) /\ (active[g] # 0 => i = active[g])
           /\ pending'[t].instance = i /\ pending'[t].generation = generation[i]
           /\ generation' = generation
           /\ active'[g] \in {0, i} /\ \A x \in Tid \ {g} : active'[x] = active[x]
           /\ \A j \in PL!Instance \ {i} : tids'[j] = tids[j]
           /\ call \notin {"exit", "exit_group"} =>
                active'[g] = i /\ tids'[i] = tids[i] \cup {t}
           /\ call = "exit" =>
                tids'[i] = tids[i] \ {t} /\ (tids[i] \ {t} # {} => active'[g] = i)
    BY <1>3, EntryDoes DEF Base
  <1>5. PICK P \in Task : P = ProcessOf(t) /\ P < nextTask
    BY <1>1, Basics DEF Base, GInv, GroupsInv
  <1>6. PICK a0 : /\ a0 = [instance |-> i, generation |-> generation[i],
                           process |-> P, image |-> image[P]]
                  /\ attributed' = attributed \cup {a0}
    BY <1>4, <1>5 DEF HandleEntry, ProcessOf
  <1>7. /\ a0.instance = i /\ a0.generation = generation[i] /\ a0.process = P /\ a0.image = image[P]
        /\ \A p : Met(p)' <=> Met(p) \/ p = P
    BY <1>6 DEF Met
  <1>8. /\ At(t, "kernel")' /\ phase'[t].call = call /\ (Exiting(t)' <=> call \in {"exit", "exit_group"})
        /\ ~At(t, "dead") /\ ~At(t, "dead")' /\ ~At(t, "event") /\ ~At(t, "event")'
        /\ ~At(t, "exec") /\ ~At(t, "exec")' /\ ~At(t, "reported")'
        /\ \A u \in Tid \ {t} : \A place : At(u, place)' <=> At(u, place)
        /\ \A u \in Tid \ {t} : Exiting(u)' <=> Exiting(u)
        /\ \A u \in Tid : /\ Exists(u)' <=> Exists(u)
                          /\ ProcessOf(u)' = ProcessOf(u) /\ Tgid(u)' = Tgid(u)
    BY <1>1 DEF Exiting, At, Exists, ProcessOf, Tgid
  <1>9. \A u \in Tid : Exists(u) => (ProcessOf(u) = P <=> Tgid(u) = g) /\ Tgid(u) \in Tid
    BY <1>1, <1>2, <1>5, Basics DEF Base, GInv, GroupsInv
  <1>10. ASSUME NEW u \in Tid, Exists(u), u # t, Tgid(u) = g PROVE Met(P)
    BY <1>1, <1>2, <1>5, <1>9, <1>10 DEF Base, GInv, MetInv
  <1>11. Met(P) => active[g] = i
    BY <1>1, <1>2, <1>4, <1>5 DEF Base, GInv, LiveInv, LiveOf
  <1>12. GroupsInv'
    <2>1. \A u \in Tid : At(u, "reported")' =>
            Tgid(u)' = u /\ \A v \in Tid : Exists(v)' /\ Tgid(v)' = u => v = u
      BY <1>8 DEF Base, GInv, GroupsInv
    <2>2. \A u \in Tid : At(u, "kernel")' => phase'[u].call \in workload'.calls
      BY <1>1, <1>8 DEF Base, GInv, GroupsInv
    <2>3. \A u \in Tid : At(u, "exec")' => Single'
      BY <1>1, <1>8 DEF Base, GInv, GroupsInv, Single
    <2>4. GroupsInv BY DEF Base, GInv
    <2>5. \A u \in Tid : Exists(u)' =>
            ProcessOf(u)' < nextTask' /\ Exists(Tgid(u))' /\ Tgid(Tgid(u))' = Tgid(u)'
      <3>1. \A u \in Tid : Exists(u) =>
              ProcessOf(u) < nextTask /\ Exists(Tgid(u)) /\ Tgid(Tgid(u)) = Tgid(u)
        BY <2>4 DEF GroupsInv
      <3>2. QED BY <1>1, <1>8, <3>1 DEF Exists, Tgid, ProcessOf
    <2>6. \A u, v \in Tid : Exists(u)' /\ Exists(v)' =>
            (ProcessOf(u)' = ProcessOf(v)' <=> Tgid(u)' = Tgid(v)')
      BY <1>8, <2>4 DEF GroupsInv
    <2>7. Single' => \A u \in Tid : Exists(u)' => Tgid(u)' = u
      BY <1>1, <1>8, <2>4 DEF GroupsInv, Single
    <2>8. QED BY <2>1, <2>2, <2>3, <2>5, <2>6, <2>7 DEF GroupsInv
  <1>14. MetInv'
    <2>1. \A a \in attributed' : a.process < nextTask' BY <1>1, <1>5, <1>6, <1>7 DEF Base, GInv, MetInv
    <2>2. ASSUME NEW u \in Tid, Exists(u)', ~Met(ProcessOf(u))'
          PROVE  Tgid(u)' = u /\ (At(u, "user")' \/ At(u, "dead")' \/ At(u, "reported")')
      <3>1. u # t /\ ~Met(ProcessOf(u)) /\ Exists(u) BY <1>5, <1>7, <1>8, <2>2
      <3>2. QED BY <1>8, <3>1 DEF Base, GInv, MetInv
    <2>3. QED BY <2>1, <2>2 DEF MetInv
  <1>15. ASSUME NEW u \in Tid, u # t, ~Exiting(u), Tgid(u) = g
         PROVE  active'[g] = i /\ (LiveOf(u)')
    <2>1. Exists(u) /\ Met(P) /\ active[g] = i /\ ProcessOf(u) = P
      BY <1>9, <1>10, <1>11, <1>15, Basics
    <2>2. call # "exit_group"
      <3>1. call = "exit_group" => \A v \in Tid : Exists(v) => Tgid(v) = v
        BY DEF Base, GInv, GroupsInv, ThreadsEndAlone
      <3>2. QED BY <1>1, <1>2, <1>15, <2>1, <3>1
    <2>3. LiveOf(u) BY DEF Base, GInv, LiveInv
    <2>4. ASSUME NEW v \in Tid, v # t, v \in tids[i] PROVE v \in tids'[i] /\ active'[g] = i
      <3>1. CASE call = "exit" BY <1>4, <2>4, <3>1
      <3>2. CASE call # "exit" BY <1>4, <2>2, <2>4, <3>2
      <3>3. QED BY <3>1, <3>2
    <2>5. CASE Stands(u)
      <3>1. u \in tids'[i] /\ active'[g] = i BY <1>15, <2>1, <2>4, <2>5 DEF Stands
      <3>2. QED BY <1>4, <1>8, <1>15, <3>1 DEF LiveOf, Stands
    <2>6. CASE ~Stands(u)
      <3>1. PICK c \in Tid : /\ At(u, "user") /\ At(c, "event") /\ phase[c].child = u
                             /\ Tgid(c) = Tgid(u) /\ Stands(c)
        BY <1>15, <2>1, <2>3, <2>6 DEF LiveOf
      <3>2. c # t BY <1>8, <3>1
      <3>3. c \in tids'[i] /\ active'[g] = i BY <1>15, <2>1, <2>4, <3>1, <3>2 DEF Stands
      <3>4. /\ At(u, "user")' /\ At(c, "event")' /\ phase'[c].child = u /\ Tgid(c)' = Tgid(u)'
            /\ Tgid(c)' = g
        BY <1>1, <1>8, <1>15, <3>1, <3>2
      <3>5. Stands(c)' BY <3>3, <3>4 DEF Stands
      <3>6. QED BY <1>4, <3>3, <3>4, <3>5 DEF LiveOf
    <2>7. QED BY <2>5, <2>6
  <1>16. ASSUME NEW u \in Tid, ~Exiting(u), Tgid(u) # g, Exists(u)
         PROVE  /\ active'[Tgid(u)] = active[Tgid(u)] /\ u # t
                /\ active[Tgid(u)] # 0 /\ Stands(u) => Stands(u)'
    <2>1. u # t /\ Tgid(u) \in Tid BY <1>2, <1>9, <1>16
    <2>2. active'[Tgid(u)] = active[Tgid(u)] BY <1>4, <1>16, <2>1
    <2>3. active[Tgid(u)] # 0 => active[Tgid(u)] \in PL!Instance \ {i}
      <3>1. active[Tgid(u)] # 0 => active[Tgid(u)] \in PL!Instance
        BY <2>1 DEF Base, Analyzed, PL!TypeOK, PL!NoInstance
      <3>2. active[g] # 0 /\ active[Tgid(u)] # 0 => active[Tgid(u)] # i
        BY <1>4, <1>16, <2>1, Basics
      <3>3. active[g] = 0 => i = nextInstance
        BY <1>4 DEF PL!InstanceFor, PL!IsActive, PL!NoInstance
      <3>4. active[Tgid(u)] # 0 => active[Tgid(u)] < nextInstance
        BY <2>1 DEF Base, Analyzed, PL!MapsAgree, PL!IsActive, PL!NoInstance, PL!IsAllocated
      <3>5. nextInstance \in Nat BY BoundsAssumption DEF Base, Analyzed, PL!TypeOK
      <3>6. QED BY <3>1, <3>2, <3>3, <3>4, <3>5 DEF PL!Instance
    <2>4. QED BY <1>4, <1>8, <2>1, <2>2, <2>3 DEF Stands
  <1>17. LiveInv'
    <2>. SUFFICES ASSUME NEW u \in Tid, ~Exiting(u)', Met(ProcessOf(u))' PROVE LiveOf(u)'
      BY DEF LiveInv, LiveOf
    <2>1. CASE u = t
      <3>1. active'[g] = i /\ t \in tids'[i] /\ Tgid(t)' = g BY <1>2, <1>4, <1>8, <2>1
      <3>2. QED BY <1>4, <2>1, <3>1 DEF LiveOf, Stands
    <2>2. CASE u # t /\ Tgid(u) = g BY <1>8, <1>15, <2>2
    <2>3. CASE u # t /\ Tgid(u) # g
      <3>1. ~Exiting(u) /\ Exists(u) /\ ProcessOf(u) # P BY <1>8, <1>9, <2>3, Basics
      <3>2. Met(ProcessOf(u))
        <4>1. Met(ProcessOf(u))' BY DEF Met
        <4>2. QED BY <1>7, <1>8, <3>1, <4>1
      <3>3. LiveOf(u) BY DEF Base, GInv, LiveInv
      <3>4. active'[Tgid(u)'] # 0 BY <1>8, <1>16, <2>3, <3>1, <3>2, <3>3 DEF LiveOf
      <3>5. CASE Stands(u) BY <1>16, <2>3, <3>1, <3>2, <3>3, <3>4, <3>5 DEF LiveOf
      <3>6. CASE ~Stands(u)
        <4>1. PICK c \in Tid : /\ At(u, "user") /\ At(c, "event") /\ phase[c].child = u
                               /\ Tgid(c) = Tgid(u) /\ Stands(c)
          BY <3>1, <3>2, <3>3, <3>6 DEF LiveOf
        <4>2. c # t /\ ~Exiting(c) /\ Exists(c) BY <1>8, <4>1, Basics DEF Exiting, At
        <4>3. active[Tgid(c)] # 0 BY <3>1, <3>2, <3>3, <4>1 DEF LiveOf
        <4>4. Stands(c)' BY <1>16, <2>3, <4>1, <4>2, <4>3
        <4>5. QED BY <1>1, <1>8, <2>3, <3>4, <4>1, <4>2, <4>4 DEF LiveOf
      <3>7. QED BY <3>5, <3>6
    <2>4. QED BY <2>1, <2>2, <2>3
  <1>18. ASSUME NEW a \in attributed, a.process = P
         PROVE  /\ a.instance = i /\ generation[i] + a.image = a.generation + image[P]
                /\ a.generation \in Nat /\ a.image \in Nat
    <2>1. LinkOf(a, t) /\ a.generation \in Nat /\ a.image \in Nat
      BY DEF Base, GInv, KeysInv, TaskTyped
    <2>2. active[g] = i BY <1>11, <1>18 DEF Met
    <2>3. generation[i] \in Nat BY DEF Base, Analyzed, PL!TypeOK
    <2>4. QED BY <1>1, <1>2, <1>5, <1>8, <1>18, <2>1, <2>2, <2>3 DEF LinkOf
  <1>19. KeysInv'
    <2>1. image[P] \in Nat /\ generation[i] \in Nat BY DEF Base, TaskTyped, Analyzed, PL!TypeOK
    <2>2. \A a, b \in attributed' : a.process = b.process =>
            a.instance = b.instance /\ a.generation + b.image = b.generation + a.image
      <3>1. \A a \in attributed : a.process = P =>
              /\ a.instance = a0.instance /\ a.generation + a0.image = a0.generation + a.image
              /\ a0.generation + a.image = a.generation + a0.image
        BY <1>7, <1>18
      <3>2. \A a, b \in attributed : a.process = b.process =>
              a.instance = b.instance /\ a.generation + b.image = b.generation + a.image
        BY DEF Base, GInv, KeysInv
      <3>3. QED BY <1>6, <1>7, <3>1, <3>2
    <2>3. ASSUME NEW a \in attributed', NEW u \in Tid, ~Exiting(u)', a.process = ProcessOf(u)'
          PROVE  LinkOf(a, u)'
      <3>1. ~Exiting(u) /\ Exists(u) /\ Tgid(u)' = Tgid(u) /\ (At(u, "exec")' <=> At(u, "exec"))
        BY <1>1, <1>8, <2>3, Basics
      <3>2. CASE Tgid(u) = g
        <4>1. active'[g] = i
          <5>1. CASE u = t BY <1>4, <1>8, <2>3, <5>1
          <5>2. CASE u # t BY <1>15, <3>1, <3>2, <5>2
          <5>3. QED BY <5>1, <5>2
        <4>2. ~At(u, "exec")
          <5>1. At(u, "exec") => u = t
            BY <1>1, <1>2, <3>1, <3>2 DEF Base, GInv, GroupsInv
          <5>2. QED BY <1>8, <5>1
        <4>3. a.process = P BY <1>8, <1>9, <2>3, <3>1, <3>2
        <4>4. a.instance = i /\ generation[i] + a.image + 0 = a.generation + image[P]
          BY <1>6, <1>7, <1>18, <2>1, <4>3
        <4>5. QED BY <1>1, <1>4, <1>8, <2>3, <3>1, <3>2, <4>1, <4>2, <4>3, <4>4 DEF LinkOf
      <3>3. CASE Tgid(u) # g
        <4>1. ProcessOf(u) # P /\ a.process # P /\ a \in attributed
          BY <1>6, <1>7, <1>8, <1>9, <2>3, <3>1, <3>3
        <4>2. LinkOf(a, u) BY <4>1 DEF Base, GInv, KeysInv
        <4>3. QED BY <1>1, <1>4, <1>8, <1>16, <2>3, <3>1, <3>3, <4>1, <4>2 DEF LinkOf
      <3>4. QED BY <3>2, <3>3
    <2>4. QED BY <2>2, <2>3 DEF KeysInv, LinkOf
  <1>20. QED BY <1>12, <1>14, <1>17, <1>19 DEF GInv

-----------------------------------------------------------------------------
(* What ProcessLineageProofs proves of the analyzer, for the events real   *)
(* processes make.                                                         *)
THEOREM AnalyzerAgrees == Spec => []Analyzed
  <1>1. PP!Spec => []PP!IInv
    BY PP!Invariance, CallsAssumption, BoundsAssumption, TidAssumption
       DEF PP!NoInstance, PP!Call, PL!Call
  <1>2. PL!Init => PP!Init
    BY DEF PL!Init, PP!Init, PL!NoCall, PP!NoCall, PL!NoTid, PP!NoTid, PL!NoInstance,
           PP!NoInstance, PL!Instance, PP!Instance
  <1>3. [PL!Next]_(PL!vars) => [PP!Next]_(PP!vars)
    BY DEF PL!Next, PP!Next, PL!vars, PP!vars, PL!TaskCreate, PP!TaskCreate,
           PL!TaskCreateOrphan, PP!TaskCreateOrphan, PL!TaskCreateThread, PP!TaskCreateThread,
           PL!TaskCreateProcess, PP!TaskCreateProcess, PL!EnsureProcess, PP!EnsureProcess,
           PL!CanCreate, PP!CanCreate, PL!NextAfter, PP!NextAfter, PL!InstanceFor,
           PP!InstanceFor, PL!IsActive, PP!IsActive, PL!NodeFor, PP!NodeFor, PL!InheritOnce,
           PP!InheritOnce, PL!Exec, PP!Exec, PL!Entry, PP!Entry, PL!RecordEntry, PP!RecordEntry,
           PL!EntryOrdinary, PP!EntryOrdinary, PL!EntryThreadExit, PP!EntryThreadExit,
           PL!EntryGroupExit, PP!EntryGroupExit, PL!ExitOrdinary, PP!ExitOrdinary, PL!ForkExit,
           PP!ForkExit, PL!ForkExitThread, PP!ForkExitThread, PL!ForkExitMatched,
           PP!ForkExitMatched, PL!ForkExitDeferred, PP!ForkExitDeferred, PL!ForkExitCreate,
           PP!ForkExitCreate, PL!Exit, PP!Exit, PL!AlreadyCreated, PP!AlreadyCreated,
           PL!ForkCalls, PP!ForkCalls, PL!NoCall, PP!NoCall, PL!NoTid, PP!NoTid, PL!NoInstance,
           PP!NoInstance, PL!Instance, PP!Instance
  <1>4. PP!IInv => Analyzed
    BY DEF PP!IInv, Analyzed, NodesStand, PP!NodesStand, PP!TypeOK, PL!TypeOK, PP!MapsAgree,
           PL!MapsAgree, PP!IsActive,
           PL!IsActive, PP!IsAllocated, PL!IsAllocated, PP!Observation, PL!Observation, PP!Call,
           PL!Call, PL!NoCall, PP!NoCall, PL!NoTid, PP!NoTid, PL!NoInstance, PP!NoInstance, PL!Instance, PP!Instance
  <1>5. QED BY <1>1, <1>2, <1>3, <1>4, EventsAreAnalyzed, PTL DEF PL!Spec, PP!Spec

-----------------------------------------------------------------------------
(* What the kernel keeps stays what TypeOK says of it.                     *)
LEMMA SpawnKeepsTyped ==
  ASSUME TaskTyped, Told, NEW t \in Tid, NEW child \in Tid, NEW process \in Task, NEW tgid \in Tid,
         Spawn(t, child, process, tgid),
         \/ UNCHANGED << parent, leader >>
         \/ /\ parent' = [parent EXCEPT ![nextTask] = task[t].process]
            /\ leader' = [leader EXCEPT ![nextTask] = child]
            /\ Exists(t)
  PROVE  TaskTyped'
  <1>1. nextTask \in Task /\ nextTask' \in 1 .. MaxTasks + 1
    BY BoundsAssumption, WorkloadAssumption DEF TaskTyped, Told, Spawn, Task
  <1>2. task' \in [Tid -> [id: Task, process: Task, tgid: Tid] \cup {NoTask}]
    BY <1>1 DEF TaskTyped, Spawn
  <1>3. Exists(t) => task[t].process \in Task BY DEF TaskTyped, Exists
  <1>4. parent' \in [Task -> Task \cup {NoProcess}] /\ leader' \in [Task -> Tid \cup {PL!NoTid}]
    BY <1>1, <1>3 DEF TaskTyped
  <1>5. UNCHANGED << image, attributed, early, mistaken >> BY DEF Spawn, KernelOnly, history
  <1>6. QED BY <1>1, <1>2, <1>4, <1>5 DEF TaskTyped

LEMMA ExecveKeepsTyped ==
  ASSUME TaskTyped, NEW t \in Tid, Exists(t), Execve(t) PROVE TaskTyped'
  <1>1. task[t] \in [id: Task, process: Task, tgid: Tid] BY DEF TaskTyped, Exists
  <1>2. PICK p \in Task : p = task[t].process /\ image[p] < MaxImages
                          /\ image' = [image EXCEPT ![p] = @ + 1]
    BY <1>1 DEF Execve
  <1>3. image[p] + 1 \in 0 .. MaxImages BY <1>2, WorkloadAssumption DEF TaskTyped
  <1>4. image' \in [Task -> 0 .. MaxImages] BY <1>2, <1>3 DEF TaskTyped
  <1>5. task' \in [Tid -> [id: Task, process: Task, tgid: Tid] \cup {NoTask}]
    BY <1>1 DEF TaskTyped, Execve
  <1>6. UNCHANGED << parent, leader, nextTask, attributed, early, mistaken >> BY DEF Execve, KernelOnly, history
  <1>7. QED BY <1>4, <1>5, <1>6 DEF TaskTyped

LEMMA EntryKeepsTyped ==
  ASSUME TaskTyped, Told, Analyzed, NEW t \in Tid, NEW call, HandleEntry(t, call)
  PROVE  TaskTyped'
  <1>1. PICK g \in Tid : g = ResolveTgid(t) BY TgidIsTask
  <1>2. PL!Entry(t, g, call) /\ Exists(t) BY <1>1 DEF HandleEntry
  <1>3. pending'[t].instance \in PL!Instance /\ pending'[t].generation \in 0 .. MaxGeneration
    <2>1. PICK i \in PL!Instance :
            pending'[t].instance = i /\ pending'[t].generation = generation[i]
      BY <1>2, EntryDoes
    <2>2. QED BY <2>1 DEF Analyzed, PL!TypeOK
  <1>4. PICK p \in Task : p = task[t].process /\ image[p] \in 0 .. MaxImages
    BY <1>2 DEF TaskTyped, Exists
  <1>5. attributed' = attributed \cup
          {[instance |-> pending'[t].instance, generation |-> pending'[t].generation,
            process |-> p, image |-> image[p]]}
    BY <1>4 DEF HandleEntry
  <1>6. UNCHANGED << task, image, parent, leader, nextTask >> BY DEF HandleEntry
  <1>7. task[t].process \in Task /\ task[t].id \in Task BY <1>2 DEF TaskTyped, Exists
  <1>8. early' \subseteq [tid: Tid, process: Task, id: Task]
    <2>1. [tid |-> t, process |-> task[t].process, id |-> task[t].id]
            \in [tid: Tid, process: Task, id: Task]
      BY <1>7
    <2>2. \/ early' = early
          \/ early' = early \cup {[tid |-> t, process |-> task[t].process, id |-> task[t].id]}
      BY DEF HandleEntry
    <2>3. QED BY <2>1, <2>2 DEF TaskTyped
  <1>9. mistaken' \in BOOLEAN BY DEF HandleEntry, Resolves, TaskTyped
  <1>10. attributed' \subseteq [instance: PL!Instance, generation: 0 .. MaxGeneration,
                                process: Task, image: 0 .. MaxImages]
    BY <1>3, <1>4, <1>5 DEF TaskTyped
  <1>11. QED BY <1>6, <1>8, <1>9, <1>10 DEF TaskTyped

LEMMA NextKeepsTyped ==
  ASSUME TaskTyped, Told, Analyzed, [Next]_vars PROVE TaskTyped'
  <1>. DEFINE Kept == << task, image, parent, leader, nextTask, attributed, early >>
  <1>1. UNCHANGED Kept /\ mistaken' \in BOOLEAN => TaskTyped' BY DEF TaskTyped
  <1>2. CASE UNCHANGED vars BY <1>1, <1>2 DEF vars, kernel, history, TaskTyped
  <1>3. ASSUME NEW t \in Tid, NEW child \in Tid, ForkProcess(t, child) PROVE TaskTyped'
    <2>1. nextTask \in Task BY <1>3, BoundsAssumption, WorkloadAssumption DEF TaskTyped, Told, ForkProcess, Spawn, Task
    <2>2. Exists(t) BY <1>3 DEF Told, ForkProcess, Dead
    <2>3. QED BY <1>3, <2>1, <2>2, SpawnKeepsTyped DEF ForkProcess
  <1>4. ASSUME NEW t \in Tid, NEW child \in Tid, CloneThread(t, child) PROVE TaskTyped'
    <2>1. Exists(t) BY <1>4 DEF Told, CloneThread, Dead
    <2>2. task[t].process \in Task /\ task[t].tgid \in Tid BY <2>1 DEF TaskTyped, Exists
    <2>3. Spawn(t, child, task[t].process, task[t].tgid) /\ UNCHANGED << parent, leader >>
      BY <1>4 DEF CloneThread
    <2>4. QED BY <2>2, <2>3, SpawnKeepsTyped
  <1>5. ASSUME NEW t \in Tid, Execve(t) PROVE TaskTyped'
    <2>1. Exists(t) BY <1>5 DEF Told, Execve, Dead
    <2>2. QED BY <1>5, <2>1, ExecveKeepsTyped
  <1>6. ASSUME NEW t \in Tid, ThreadExit(t) \/ GroupExit(t) \/ Killed(t) PROVE TaskTyped'
    BY <1>1, <1>6 DEF ThreadExit, GroupExit, Killed, Die, KernelOnly, history, TaskTyped
  <1>7. ASSUME NEW t \in Tid, HandleExit(t) \/ HandleFork(t) \/ HandleExec(t) PROVE TaskTyped'
    BY <1>1, <1>7 DEF HandleExit, HandleFork, HandleExec, Resolves
  <1>8. ASSUME NEW t \in Tid, HandleDeath(t) PROVE TaskTyped'
    <2>1. task' \in [Tid -> [id: Task, process: Task, tgid: Tid] \cup {NoTask}]
      BY <1>8 DEF TaskTyped, HandleDeath
    <2>2. QED BY <1>8, <2>1 DEF TaskTyped, HandleDeath, history
  <1>12. ASSUME NEW t \in Tid, Release(t) PROVE TaskTyped'
    <2>1. task' \in [Tid -> [id: Task, process: Task, tgid: Tid] \cup {NoTask}]
      BY <1>12 DEF TaskTyped, Release
    <2>2. QED BY <1>12, <2>1 DEF TaskTyped, Release, KernelOnly, history
  <1>9. ASSUME KernelStep PROVE TaskTyped'
    BY <1>3, <1>4, <1>5, <1>6, <1>9, <1>12 DEF KernelStep
  <1>10. ASSUME TracerStep PROVE TaskTyped'
    BY <1>7, <1>8, <1>10, EntryKeepsTyped DEF TracerStep
  <1>11. QED BY <1>2, <1>9, <1>10 DEF Next

(* Whatever the program does and however ids are reused, kernel, tracer    *)
(* and analyzer stay in the ranges their code declares.                    *)
THEOREM AlwaysTyped == Spec => []TypeOK
  <1>1. Init => TaskTyped
    <2>1. Init => /\ early \subseteq [tid: Tid, process: Task, id: Task] /\ mistaken \in BOOLEAN
                  /\ attributed \subseteq [instance: PL!Instance, generation: 0 .. MaxGeneration,
                                           process: Task, image: 0 .. MaxImages]
      BY DEF Init
    <2>2. Init => /\ task \in [Tid -> [id: Task, process: Task, tgid: Tid] \cup {NoTask}]
                  /\ image \in [Task -> 0 .. MaxImages] /\ parent \in [Task -> Task \cup {NoProcess}]
                  /\ leader \in [Task -> Tid \cup {PL!NoTid}] /\ nextTask \in 1 .. MaxTasks + 1
      BY BoundsAssumption, WorkloadAssumption DEF Init, Task, NoTask, NoProcess, PL!NoTid
    <2>3. QED BY <2>1, <2>2 DEF TaskTyped
  <1>2. TaskTyped /\ Told /\ Analyzed /\ [Next]_vars => TaskTyped' BY NextKeepsTyped
  <1>3. TaskTyped /\ Told /\ Analyzed => TypeOK
    BY DEF TaskTyped, Told, Analyzed, TypeOK, Phase
  <1>4. QED BY <1>1, <1>2, <1>3, AlwaysTold, AnalyzerAgrees, PTL DEF Spec

-----------------------------------------------------------------------------
LEMMA InitGInv == Init => GInv
  <1>. SUFFICES ASSUME Init PROVE GInv OBVIOUS
  <1>1. /\ Exists(Root) /\ ProcessOf(Root) = 1 /\ Tgid(Root) = Root /\ Root \in Tid
        /\ At(Root, "user")
    BY Places, WorkloadAssumption DEF Init, Exists, ProcessOf, Tgid, NoTask, At
  <1>2. \A t \in Tid \ {Root} : ~Exists(t) /\ At(t, "dead")
    BY Places DEF Init, Exists, At
  <1>3. attributed = {} /\ nextTask = 2 BY DEF Init
  <1>4. \A t \in Tid : ~At(t, "kernel") /\ ~At(t, "reported") /\ ~At(t, "event") /\ ~At(t, "exec")
    BY <1>1, <1>2 DEF At
  <1>5. GroupsInv BY <1>1, <1>2, <1>3, <1>4 DEF GroupsInv
  <1>7. MetInv BY <1>1, <1>2, <1>3 DEF MetInv
  <1>8. LiveInv BY <1>3 DEF LiveInv, LiveOf, Met
  <1>9. KeysInv BY <1>3 DEF KeysInv
  <1>10. QED BY <1>5, <1>7, <1>8, <1>9 DEF GInv

LEMMA NextKeepsGInv ==
  ASSUME Base, [Next]_vars, ~mistaken' PROVE GInv'
  <1>1. CASE UNCHANGED vars
    BY <1>1 DEF Base, GInv, vars, analyzer, kernel, tracer, history, GroupsInv,
       MetInv, LiveInv, LiveOf, KeysInv, LinkOf, Met, Stands, Exiting, At, Exists, ProcessOf,
       Tgid, Group, Single
  <1>2. ASSUME Next PROVE UNCHANGED workload BY <1>2 DEF Next
  <1>3. ASSUME KernelStep, UNCHANGED workload PROVE GInv'
    <2>1. PICK t \in Tid :
            \/ Execve(t) \/ ThreadExit(t) \/ GroupExit(t) \/ Killed(t) \/ Release(t)
            \/ \E child \in Tid : ForkProcess(t, child) \/ CloneThread(t, child)
      BY <1>3 DEF KernelStep
    <2>2. CASE Execve(t) BY <1>3, <2>2, ExecveKeepsLives
    <2>3. CASE ThreadExit(t)
      <3>1. At(t, "kernel") /\ Exiting(t) BY <2>3, Places DEF ThreadExit, At, Exiting
      <3>2. QED BY <1>3, <2>3, <3>1, DieKeeps DEF ThreadExit
    <2>4. CASE GroupExit(t) \/ Killed(t)
      <3>1. PICK g : Die(Group(g)) BY <2>4 DEF GroupExit, Killed
      <3>2. Group(g) \in SUBSET Tid BY DEF Group
      <3>3. QED BY <1>3, <3>1, <3>2, DieKeeps
    <2>5. ASSUME NEW child \in Tid, ForkProcess(t, child) PROVE GInv'
      <3>1. At(t, "kernel") /\ ~Exiting(t) BY <2>5 DEF ForkProcess, At, Exiting
      <3>2. Spawn(t, child, nextTask, child) BY <2>5 DEF ForkProcess
      <3>3. QED BY <1>3, <3>1, <3>2, SpawnKeeps
    <2>6. ASSUME NEW child \in Tid, CloneThread(t, child) PROVE GInv'
      <3>1. At(t, "kernel") /\ ~Exiting(t) /\ phase[t].call \in {"clone_thread", "clone3"}
        BY <2>6 DEF CloneThread, At, Exiting
      <3>2. ~Single BY <3>1 DEF Base, GInv, GroupsInv, Single
      <3>3. Spawn(t, child, ProcessOf(t), Tgid(t)) BY <2>6 DEF CloneThread, ProcessOf, Tgid
      <3>4. QED BY <1>3, <3>1, <3>2, <3>3, SpawnKeeps
    <2>7. CASE Release(t) BY <1>3, <2>7, ReleaseKeeps
    <2>8. QED BY <2>1, <2>2, <2>3, <2>4, <2>5, <2>6, <2>7
  <1>4. ASSUME TracerStep, UNCHANGED workload PROVE GInv'
    BY <1>4, HandleEntryKeeps, HandleExitKeeps, HandleForkKeeps, HandleExecKeeps,
       HandleDeathKeeps DEF TracerStep
  <1>5. QED BY <1>1, <1>2, <1>3, <1>4 DEF Next

(* A mistake is not forgotten.                                             *)
LEMMA MistakesStay ==
  ASSUME Told, TypeOK, [Next]_vars, ~mistaken' PROVE ~mistaken
  <1>1. CASE UNCHANGED vars BY <1>1 DEF vars, history
  <1>2. CASE KernelStep
    BY <1>2 DEF KernelStep, Execve, ThreadExit, GroupExit, Killed, Release, ForkProcess,
                CloneThread, Spawn, Die, KernelOnly, history
  <1>3. CASE TracerStep
    BY <1>3 DEF TracerStep, HandleEntry, HandleExit, HandleFork, HandleExec, HandleDeath,
                Resolves, history
  <1>4. QED BY <1>1, <1>2, <1>3 DEF Next

(* In a program whose threads end alone, however many they are, the        *)
(* analyzer's live sets follow the kernel's task groups.                   *)
THEOREM AlwaysGrouped == Spec => [](ThreadsEndAlone /\ ~mistaken => GInv)
  <1>1. Init => GInv BY InitGInv
  <1>2. Told /\ Analyzed /\ TypeOK /\ (ThreadsEndAlone /\ ~mistaken => GInv) /\ [Next]_vars
          => (ThreadsEndAlone /\ ~mistaken => GInv)'
    <2>. SUFFICES ASSUME Told, Analyzed, TypeOK, ThreadsEndAlone /\ ~mistaken => GInv,
                         [Next]_vars, ThreadsEndAlone', ~mistaken'
                  PROVE  GInv'
      OBVIOUS
    <2>1. TaskTyped BY DEF TypeOK, TaskTyped
    <2>2. UNCHANGED workload BY DEF Next, vars
    <2>3. ThreadsEndAlone BY <2>2 DEF ThreadsEndAlone, Single
    <2>4. ~mistaken BY MistakesStay
    <2>5. QED BY <2>1, <2>3, <2>4, NextKeepsGInv DEF Base
  <1>3. QED BY <1>1, <1>2, AlwaysTold, AnalyzerAgrees, AlwaysTyped, PTL DEF Spec

(* handle_thread_exit never mistakes a thread for the last: while one that *)
(* is not exiting is left, its process stays active, whichever stops the   *)
(* tracer handles first.                                                   *)
THEOREM LiveProcessesAreActive == Spec => [](ThreadsEndAlone => LiveProcessIsActive)
  <1>1. Told /\ TypeOK /\ (ThreadsEndAlone /\ ~mistaken => GInv) => (ThreadsEndAlone => LiveProcessIsActive)
    <2>. SUFFICES ASSUME Told, TypeOK, ~mistaken => GInv PROVE LiveProcessIsActive OBVIOUS
    <2>. SUFFICES ASSUME ~mistaken, NEW t \in Tid, Running(t),
                         phase[t] \notin {InKernel("exit"), InKernel("exit_group")},
                         \E a \in attributed : a.process = task[t].process
                  PROVE  PL!IsActive(task[t].tgid)
      BY DEF LiveProcessIsActive
    <2>1. phase[t] \in Phase /\ phase[t] # Dead /\ phase[t] # Reported BY DEF Told, Running
    <2>2. ~At(t, "dead") /\ ~At(t, "reported") BY <2>1, PlaceNames DEF At
    <2>3. At(t, "kernel") => phase[t] = InKernel(phase[t].call)
      BY <2>1 DEF At, Phase, InKernel, User, Execed, Dead, Reported
    <2>4. ~Exiting(t) BY <2>2, <2>3 DEF Exiting
    <2>5. Met(ProcessOf(t)) BY DEF Met, ProcessOf
    <2>6. LiveOf(t) BY DEF GInv, LiveInv
    <2>7. QED BY <2>4, <2>5, <2>6 DEF LiveOf, Tgid, PL!IsActive, PL!NoInstance
  <1>2. QED BY <1>1, AlwaysTold, AlwaysTyped, AlwaysGrouped, PTL

(* No executable image of a process gets two image keys: a process is one  *)
(* instance of the analyzer, and the instance's generation moves only with *)
(* the process's execs.                                                    *)
THEOREM OneKeyPerImage == Spec => [](ThreadsEndAlone => ImageHasOneKey)
  <1>1. TypeOK /\ (ThreadsEndAlone /\ ~mistaken => GInv) => (ThreadsEndAlone => ImageHasOneKey)
    <2>. SUFFICES ASSUME TypeOK, ThreadsEndAlone, ThreadsEndAlone /\ ~mistaken => GInv, ~mistaken, NEW a \in attributed, NEW b \in attributed,
                         a.process = b.process, a.image = b.image
                  PROVE  a.instance = b.instance /\ a.generation = b.generation
      BY DEF ImageHasOneKey
    <2>1. /\ a.generation \in Nat /\ b.generation \in Nat /\ a.image \in Nat
      BY BoundsAssumption, WorkloadAssumption DEF TypeOK
    <2>2. QED BY <2>1 DEF GInv, KeysInv
  <1>2. QED BY <1>1, AlwaysTyped, AlwaysGrouped, PTL

-----------------------------------------------------------------------------
(***************************************************************************)
(* One lifetime, one process node, for a program that makes its tasks with *)
(* fork or with clone3, not with both.                                     *)
(*                                                                         *)
(* An instance that has ended is that of the process it is attributed to,  *)
(* and a process is attributed to one, so a task id has no more of them    *)
(* than processes started under it.  The node that is left is active; the  *)
(* instance it stands for is that of a process that has not ended, or the  *)
(* id's last exit was handled before it was announced.                     *)
(***************************************************************************)
OneForkCall == ThreadsEndAlone /\ ~({"fork", "clone3"} \subseteq workload.calls)

Gone(t) == At(t, "dead") \/ At(t, "reported")

Awaits(t, c) == phase[t].at \in {"event", "exit"} /\ phase[t].child = c

ForkedBy(t, c) == Awaits(t, c) /\ phase[t].call = "fork"

(* A task that had the id, or the one that has it, exited unannounced.     *)
EarlyAt(c) == \E e \in early : e.tid = c

EarlyIn(c) == \E e \in early : e.tid = c /\ e.process = ProcessOf(c)

EarlyUnder(g) == \E e \in early : g \in {e.tid, leader[e.process]}

Open(p) == \A a \in attributed : a.process = p => a.instance \notin ended

(* The observation left pending is of the call the task is in.             *)
PendInv ==
  \A t \in Tid :
    /\ At(t, "kernel") => pending[t].call = phase[t].call
    /\ \A c \in Tid : Awaits(t, c) =>
         /\ pending[t].call = phase[t].call
         /\ phase[t].call \in PL!ForkCalls \cap workload.calls

(* What is cached of a task that is gone is its own id.                    *)
CacheInv ==
  \A t \in Tid : tgidCache[t] \in {PL!NoTid, t} \/ (Exists(t) /\ tgidCache[t] = Tgid(t))

(* A task whose creator's stop waits is there and its process has not      *)
(* ended, unless its exit was handled, early.                              *)
AwaitOf(t, c) ==
  At(t, "event") /\ phase[t].child = c =>
    /\ EarlyAt(c) \/ (Exists(c) /\ Tgid(c) \in {c, Tgid(t)})
    /\ Exists(c) =>
         /\ EarlyIn(c) \/ Open(ProcessOf(c))
         /\ Exiting(c) => EarlyIn(c) \/ \A u \in Group(Tgid(c)) : Gone(u)

AwaitInv == \A t, c \in Tid : AwaitOf(t, c)

(* A forked process keeps its id until the fork has returned, and its      *)
(* announcement leaves the mark that the fork's exit looks for.            *)
MadeOf(t, c) ==
  ForkedBy(t, c) =>
    \/ EarlyAt(c)
    \/ /\ Exists(c) /\ Tgid(c) = c /\ Tgid(t) # c
       /\ At(t, "exit") => createdBy[c] = active[Tgid(t)]
       /\ \A u \in Tid : ForkedBy(u, c) => u = t

ThreadOf(t, c) ==
  At(t, "event") /\ phase[t].child = c /\ phase[t].call = "clone_thread" =>
    EarlyAt(c) \/ (Exists(c) /\ Tgid(c) = Tgid(t))

MadeInv == \A t, c \in Tid : MadeOf(t, c) /\ ThreadOf(t, c)

(* The leaders of processes; the kernel has not given the numbers left.    *)
LeadersInv ==
  /\ \A t \in Tid : Exists(t) => leader[ProcessOf(t)] = Tgid(t)
  /\ \A p \in Task : p >= nextTask => leader[p] = PL!NoTid
  /\ \A e \in early : e.process < nextTask

(* An instance's node is that of the process it is attributed to, which    *)
(* every instance that has ended is.                                       *)
NamedInv ==
  /\ \A a \in attributed : node[a.instance] = leader[a.process] /\ a.instance < nextInstance
  /\ \A i \in ended : \E a \in attributed : a.instance = i

(* The nodes made for a task id and the processes that started under it.   *)
Nodes(g) == {i \in PL!Instance : node[i] = g}
Lives(g) == {p \in Task : leader[p] = g}

LifeInv == \A g \in Tid : active[g] # 0 => EarlyUnder(g) \/ \E p \in Lives(g) : Open(p)

NodesInv == PendInv /\ CacheInv /\ AwaitInv /\ MadeInv /\ LeadersInv /\ NamedInv /\ LifeInv

Counted == Base /\ OneForkCall /\ NodesInv

-----------------------------------------------------------------------------
(* What the analyzer's handlers do to nodes, creators and pending calls.   *)
LEMMA EntryRecords ==
  ASSUME Analyzed, NEW t \in Tid, NEW g \in Tid, NEW call, PL!Entry(t, g, call)
  PROVE  /\ pending'[t].call = call /\ \A u \in Tid \ {t} : pending'[u] = pending[u]
         /\ createdBy' = createdBy /\ node' = PL!NodeFor(g) /\ PL!CanCreate(g)
         /\ nextInstance' = PL!NextAfter(g)
         /\ \/ ended' = ended
            \/ /\ ended' = ended \cup {PL!InstanceFor(g)} /\ active'[g] = 0
               /\ call \in {"exit", "exit_group"}
  <1>1. PL!RecordEntry(t, g, call)
    BY DEF PL!Entry, PL!EntryOrdinary, PL!EntryThreadExit, PL!EntryGroupExit
  <1>2. \/ ended' = ended
        \/ /\ ended' = ended \cup {PL!InstanceFor(g)} /\ active'[g] = 0
           /\ call \in {"exit", "exit_group"}
    <2>1. CASE PL!EntryOrdinary(t, g, call) BY <2>1 DEF PL!EntryOrdinary
    <2>2. CASE call = "exit" /\ PL!EntryThreadExit(t, g)
      <3>. DEFINE rest == tids[PL!InstanceFor(g)] \ {t}
      <3>1. CASE rest = {}
        BY <2>2, <3>1 DEF PL!EntryThreadExit, Analyzed, PL!TypeOK, PL!NoInstance
      <3>2. CASE rest # {} BY <2>2, <3>2 DEF PL!EntryThreadExit
      <3>3. QED BY <3>1, <3>2
    <2>3. CASE call = "exit_group" /\ PL!EntryGroupExit(t, g)
      BY <2>3 DEF PL!EntryGroupExit, Analyzed, PL!TypeOK, PL!NoInstance
    <2>4. QED BY <2>1, <2>2, <2>3 DEF PL!Entry
  <1>3. QED BY <1>1, <1>2 DEF PL!RecordEntry, Analyzed, PL!TypeOK

LEMMA ExitRecords ==
  ASSUME Analyzed, NEW t \in Tid, NEW g \in Tid, NEW call, NEW child,
         PL!Exit(t, g, call, child), active[g] # 0
  PROVE  /\ \A u \in Tid \ {t} : pending'[u] = pending[u]
         /\ ended' = ended
         /\ \/ node' = node /\ nextInstance' = nextInstance /\ active' = active
            \/ PL!ForkExitCreate(t, g, call, child)
         /\ \/ createdBy' = createdBy
            \/ /\ PL!ForkExitMatched(t, g, call, child)
               /\ \A c \in Tid \ {child} : createdBy'[c] = createdBy[c]
  <1>1. /\ PL!NodeFor(g) = node /\ PL!NextAfter(g) = nextInstance
        /\ [active EXCEPT ![g] = PL!InstanceFor(g)] = active
    BY DEF PL!NodeFor, PL!NextAfter, PL!InstanceFor, PL!IsActive, PL!NoInstance, Analyzed, PL!TypeOK
  <1>2. CASE PL!ForkExitMatched(t, g, call, child)
    BY <1>1, <1>2 DEF PL!ForkExitMatched, PL!EnsureProcess, Analyzed, PL!TypeOK
  <1>3. CASE PL!ForkExitCreate(t, g, call, child)
    BY <1>3 DEF PL!ForkExitCreate, Analyzed, PL!TypeOK
  <1>4. CASE \/ PL!ExitOrdinary(t, g, call, child) \/ PL!ForkExitThread(t, g, call, child)
             \/ PL!ForkExitDeferred(t, g, call, child)
    BY <1>1, <1>4 DEF PL!ExitOrdinary, PL!ForkExitThread, PL!ForkExitDeferred, PL!EnsureProcess,
                      Analyzed, PL!TypeOK
  <1>5. QED BY <1>2, <1>3, <1>4 DEF PL!Exit

(* The fork fallback makes a node for the child if it is not active.       *)
LEMMA ExitMakes ==
  ASSUME Analyzed, NEW t \in Tid, NEW g \in Tid, NEW call, NEW child,
         PL!ForkExitCreate(t, g, call, child), active[g] # 0
  PROVE  /\ child \in Tid /\ pending[t].call \notin {"clone_thread", "clone3"}
         /\ createdBy[child] # active[g]
         /\ node' = PL!NodeFor(child) /\ nextInstance' = PL!NextAfter(child)
         /\ \A h \in Tid \ {child} : active'[h] = active[h]
  <1>. USE DEF PL!NodeFor, PL!NextAfter, PL!InstanceFor, PL!IsActive, PL!NoInstance
  <1>1. /\ child \in Tid /\ pending[t].call \notin {"clone_thread", "clone3"}
        /\ createdBy[child] # active[g]
    BY DEF PL!ForkExitCreate, PL!ForkExit, PL!AlreadyCreated
  <1>2. CASE child = g
    BY <1>1, <1>2 DEF PL!ForkExitCreate, Analyzed, PL!TypeOK
  <1>3. CASE child # g
    BY <1>1, <1>3 DEF PL!ForkExitCreate, Analyzed, PL!TypeOK
  <1>4. QED BY <1>1, <1>2, <1>3

LEMMA CreateRecords ==
  ASSUME Analyzed, NEW pg \in Tid, NEW c \in Tid, NEW cg \in Tid, PL!TaskCreate(pg, c, cg),
         active[pg] # 0
  PROVE  /\ pending' = pending /\ ended' = ended
         /\ \/ /\ cg = pg /\ node' = node /\ createdBy' = createdBy
               /\ nextInstance' = nextInstance /\ active' = active
            \/ /\ cg # pg /\ node' = PL!NodeFor(cg) /\ PL!CanCreate(cg) /\ active'[cg] # 0
               /\ nextInstance' = PL!NextAfter(cg)
               /\ \A h \in Tid \ {cg} : active'[h] = active[h]
               /\ createdBy'[c] = active[pg]
               /\ \A u \in Tid \ {c} : createdBy'[u] = createdBy[u]
  <1>1. ~PL!TaskCreateOrphan(pg) BY DEF PL!TaskCreateOrphan, PL!IsActive, PL!NoInstance
  <1>2. CASE cg = pg /\ PL!TaskCreateThread(pg, c) BY <1>2 DEF PL!TaskCreateThread
  <1>3. CASE PL!TaskCreateProcess(pg, c, cg)
    <2>1. PL!EnsureProcess(c, cg) /\ generation' = generation
      BY <1>3 DEF PL!TaskCreateProcess
    <2>2. active'[cg] # 0 BY <2>1, EnsureGrows
    <2>3. QED BY <1>3, <2>1, <2>2 DEF PL!TaskCreateProcess, PL!EnsureProcess, Analyzed, PL!TypeOK
  <1>4. QED BY <1>1, <1>2, <1>3 DEF PL!TaskCreate

(* The analyzer may make one node, under the id that comes to be active.   *)
MakesNode(g) == node' = PL!NodeFor(g) /\ nextInstance' = PL!NextAfter(g)

LEMMA NodesKept ==
  ASSUME Analyzed, NEW g \in Tid, MakesNode(g) \/ UNCHANGED << node, nextInstance >>,
         NEW i \in PL!Instance, i < nextInstance
  PROVE  node'[i] = node[i] /\ i < nextInstance'
  <1>1. nextInstance \in Nat /\ i \in Nat
    BY BoundsAssumption DEF Analyzed, PL!TypeOK, PL!Instance
  <1>2. CASE UNCHANGED << node, nextInstance >> BY <1>2
  <1>3. CASE MakesNode(g)
    BY <1>1, <1>3 DEF MakesNode, PL!NodeFor, PL!NextAfter, PL!IsActive, Analyzed, PL!TypeOK
  <1>4. QED BY <1>2, <1>3

-----------------------------------------------------------------------------
(* A task that waits, or whose creator waits, is in a process the analyzer *)
(* knows.                                                                  *)
LEMMA WaitersStand ==
  ASSUME Base, NEW u \in Tid, At(u, "event") \/ At(u, "exit")
  PROVE  /\ Exists(u) /\ ~Exiting(u) /\ ~Gone(u) /\ ~At(u, "user") /\ Met(ProcessOf(u))
         /\ Tgid(u) \in Tid /\ active[Tgid(u)] # 0 /\ Stands(u)
  <1>1. ~At(u, "dead") /\ ~At(u, "user") /\ ~Exiting(u) /\ ~Gone(u) BY DEF At, Exiting, Gone
  <1>2. Exists(u) BY <1>1, Basics
  <1>3. QED BY <1>1, <1>2, Basics

(* A task that is not exiting is of a process that has not ended.          *)
LEMMA LiveIsOpen ==
  ASSUME Base, NEW t \in Tid, ~Exiting(t), Exists(t) PROVE Open(ProcessOf(t))
  <1>. SUFFICES ASSUME NEW a \in attributed, a.process = ProcessOf(t) PROVE a.instance \notin ended
    BY DEF Open
  <1>1. LinkOf(a, t) /\ LiveOf(t) BY DEF Base, GInv, KeysInv, LiveInv
  <1>2. Met(ProcessOf(t)) BY DEF Met
  <1>3. a.instance = active[Tgid(t)] /\ active[Tgid(t)] # 0 BY <1>1, <1>2 DEF LinkOf, LiveOf
  <1>4. Tgid(t) \in Tid BY Basics
  <1>5. QED BY <1>3, <1>4 DEF Base, Analyzed, PL!MapsAgree, PL!IsActive, PL!NoInstance

-----------------------------------------------------------------------------
(* The steps that make no task and free no id: some tasks stop.            *)
Stops ==
  /\ \A u \in Tid : /\ task'[u] = task[u]
                    /\ phase'[u] = phase[u] \/ phase'[u] \in {Dead, Execed, Reported}
                    /\ tgidCache'[u] \in {tgidCache[u], PL!NoTid}
                    /\ Gone(u) => Gone(u)'
                    /\ Exists(u) /\ Exiting(u)' =>
                         Exiting(u) \/ \A v \in Group(Tgid(u)) : Gone(v)'
  /\ UNCHANGED << analyzer, attributed, early, leader, nextTask, workload >>

LEMMA DeathsStop ==
  ASSUME Base, NEW who \in SUBSET Tid, Die(who), UNCHANGED workload,
         \/ \E t \in Tid : who = {t} /\ At(t, "kernel") /\ Exiting(t)
         \/ \E g : who = Group(g)
  PROVE  Stops
  <1>. USE Places
  <1>1. /\ UNCHANGED << task, leader, nextTask, analyzer, tgidCache, attributed, early, workload >>
        /\ \A u \in who : phase'[u] = Dead /\ Gone(u)'
        /\ \A u \in Tid \ who : phase'[u] = phase[u]
    BY DEF Die, KernelOnly, tracer, history, Base, Told, At, Gone
  <1>2. \A u \in Tid : Gone(u) => Gone(u)' BY <1>1 DEF Gone, At
  <1>3. ASSUME NEW u \in Tid, Exists(u), Exiting(u)', ~Exiting(u)
        PROVE  \A v \in Group(Tgid(u)) : Gone(v)'
    <2>1. u \in who BY <1>1, <1>3 DEF Exiting, At
    <2>2. PICK g : who = Group(g) BY <1>3, <2>1
    <2>3. g = Tgid(u) BY <2>1, <2>2 DEF Group, Tgid
    <2>4. QED BY <1>1, <2>2, <2>3
  <1>4. \A u \in Tid : phase'[u] = phase[u] \/ phase'[u] \in {Dead, Execed, Reported} BY <1>1
  <1>5. QED BY <1>1, <1>2, <1>3, <1>4 DEF Stops

LEMMA ExecveStops ==
  ASSUME Base, NEW t \in Tid, Execve(t), UNCHANGED workload PROVE Stops
  <1>. USE Places
  <1>1. At(t, "kernel") /\ phase[t].call = "execve" BY DEF Execve, At
  <1>2. Exists(t) /\ ~Gone(t) BY <1>1, Basics DEF At, Gone
  <1>3. \A u \in Tid : Exists(u) => Tgid(u) = u
    BY <1>1 DEF Base, GInv, GroupsInv, ThreadsEndAlone
  <1>4. Tgid(t) = t /\ \A u \in Tid : u \in Group(t) => u = t BY <1>2, <1>3 DEF Group, Tgid
  <1>5. /\ \A u \in Tid : task'[u] = task[u]
        /\ phase'[t] = Execed /\ \A u \in Tid \ {t} : phase'[u] = phase[u]
        /\ UNCHANGED << analyzer, tgidCache, attributed, early, leader, nextTask, workload >>
    BY <1>4 DEF Execve, KernelOnly, tracer, history, Tgid
  <1>6. \A u \in Tid : (Gone(u) => Gone(u)') /\ (Exiting(u)' => Exiting(u))
    BY <1>2, <1>5 DEF Gone, Exiting, At
  <1>7. QED BY <1>5, <1>6 DEF Stops

LEMMA ReportStops ==
  ASSUME Base, NEW t \in Tid, HandleDeath(t), Tgid(t) = t, UNCHANGED workload PROVE Stops
  <1>. USE Places
  <1>1. IsLeader(t) BY DEF IsLeader, Tgid
  <1>2. /\ \A u \in Tid : task'[u] = task[u]
        /\ phase[t] = Dead /\ phase'[t] = Reported /\ \A u \in Tid \ {t} : phase'[u] = phase[u]
        /\ \A u \in Tid : tgidCache'[u] \in {tgidCache[u], PL!NoTid}
        /\ UNCHANGED << analyzer, attributed, early, leader, nextTask, workload >>
    BY <1>1 DEF HandleDeath, history, Base, Told
  <1>3. \A u \in Tid : (Gone(u) => Gone(u)') /\ (Exiting(u)' => Exiting(u))
    BY <1>2 DEF Gone, Exiting, At
  <1>4. QED BY <1>2, <1>3 DEF Stops

LEMMA StopsKeepNodes ==
  ASSUME Counted, Stops PROVE NodesInv'
  <1>. USE Places
  <1>1. \A u \in Tid : \/ phase'[u] = phase[u]
                       \/ ~At(u, "kernel")' /\ ~At(u, "event")' /\ \A c \in Tid : ~Awaits(u, c)'
    BY DEF Stops, At, Awaits
  <1>2. /\ \A u \in Tid : /\ Tgid(u)' = Tgid(u) /\ (Exists(u)' <=> Exists(u))
                          /\ ProcessOf(u)' = ProcessOf(u)
        /\ \A g : Group(g)' = Group(g)
        /\ createdBy' = createdBy /\ active' = active /\ pending' = pending /\ node' = node
        /\ ended' = ended /\ nextInstance' = nextInstance
        /\ UNCHANGED << attributed, early, leader, nextTask, workload >>
    BY DEF Stops, Tgid, Exists, ProcessOf, Group, analyzer
  <1>3. PendInv' BY <1>1, <1>2 DEF Counted, NodesInv, PendInv, At, Awaits
  <1>4. CacheInv' BY <1>2 DEF Counted, NodesInv, CacheInv, Stops
  <1>5. ASSUME NEW t \in Tid, NEW c \in Tid PROVE AwaitOf(t, c)'
    <2>. SUFFICES ASSUME At(t, "event")', phase'[t].child = c PROVE AwaitOf(t, c)' BY DEF AwaitOf
    <2>1. At(t, "event") /\ phase[t].child = c BY <1>1 DEF At
    <2>2. AwaitOf(t, c) BY DEF Counted, NodesInv, AwaitInv
    <2>3. EarlyAt(c) \/ (Exists(c) /\ Tgid(c) \in {c, Tgid(t)}) BY <2>1, <2>2 DEF AwaitOf
    <2>4. EarlyAt(c)' \/ (Exists(c)' /\ Tgid(c)' \in {c, Tgid(t)'}) BY <1>2, <2>3 DEF EarlyAt
    <2>5. Exists(c)' => EarlyIn(c)' \/ Open(ProcessOf(c))'
      BY <1>2, <2>1, <2>2 DEF AwaitOf, EarlyIn, Open
    <2>6. ASSUME Exists(c)', Exiting(c)'
          PROVE  EarlyIn(c)' \/ \A u \in Group(Tgid(c))' : Gone(u)'
      <3>1. Exists(c) BY <1>2, <2>6
      <3>2. Exiting(c) \/ \A v \in Group(Tgid(c)) : Gone(v)' BY <2>6, <3>1 DEF Stops
      <3>3. Group(Tgid(c))' = Group(Tgid(c)) /\ Group(Tgid(c)) \subseteq Tid
        BY <1>2 DEF Group, Stops
      <3>4. CASE \A v \in Group(Tgid(c)) : Gone(v)' BY <3>3, <3>4
      <3>5. CASE Exiting(c)
        <4>1. EarlyIn(c) \/ \A u \in Group(Tgid(c)) : Gone(u) BY <2>1, <2>2, <3>1, <3>5 DEF AwaitOf
        <4>2. EarlyIn(c) => EarlyIn(c)' BY <1>2 DEF EarlyIn
        <4>3. \A u \in Tid : Gone(u) => Gone(u)' BY DEF Stops
        <4>4. QED BY <3>3, <4>1, <4>2, <4>3
      <3>6. QED BY <3>2, <3>4, <3>5
    <2>7. QED BY <2>4, <2>5, <2>6 DEF AwaitOf
  <1>6. ASSUME NEW t \in Tid, NEW c \in Tid PROVE MadeOf(t, c)' /\ ThreadOf(t, c)'
    <2>1. MadeOf(t, c) /\ ThreadOf(t, c) BY DEF Counted, NodesInv, MadeInv
    <2>2. \A u \in Tid : ForkedBy(u, c)' => ForkedBy(u, c) /\ (At(u, "exit")' => At(u, "exit"))
      BY <1>1 DEF ForkedBy, Awaits, At
    <2>3. MadeOf(t, c)' BY <1>2, <2>1, <2>2 DEF MadeOf, EarlyAt
    <2>4. At(t, "event")' => At(t, "event") /\ phase'[t] = phase[t] BY <1>1 DEF At
    <2>5. ThreadOf(t, c)' BY <1>2, <2>1, <2>4 DEF ThreadOf, EarlyAt
    <2>6. QED BY <2>3, <2>5
  <1>7. LeadersInv' BY <1>2 DEF Counted, NodesInv, LeadersInv
  <1>8. NamedInv' BY <1>2 DEF Counted, NodesInv, NamedInv
  <1>9. LifeInv' BY <1>2 DEF Counted, NodesInv, LifeInv, EarlyUnder, Lives, Open
  <1>10. QED BY <1>3, <1>4, <1>5, <1>6, <1>7, <1>8, <1>9 DEF NodesInv, AwaitInv, MadeInv

-----------------------------------------------------------------------------
(* A dead task's id is given up.  That of a process is not while its fork  *)
(* has yet to return.                                                      *)
Frees(t) ==
  /\ Exists(t) /\ Gone(t)
  /\ task' = [task EXCEPT ![t] = NoTask] /\ phase' = [phase EXCEPT ![t] = Dead]
  /\ \A u \in Tid : tgidCache'[u] \in {tgidCache[u], PL!NoTid}
  /\ tgidCache'[t] \in {t, PL!NoTid}
  /\ Tgid(t) = t => \A u \in Tid : ~Awaits(u, t)
  /\ UNCHANGED << analyzer, attributed, early, leader, nextTask, workload >>

LEMMA DeathFrees ==
  ASSUME Base, NEW t \in Tid, HandleDeath(t), Tgid(t) # t, UNCHANGED workload PROVE Frees(t)
  <1>1. /\ Exists(t) /\ phase[t] = Dead /\ task' = [task EXCEPT ![t] = NoTask] /\ phase' = phase
        /\ tgidCache' = [tgidCache EXCEPT ![t] = PL!NoTid]
        /\ UNCHANGED << analyzer, attributed, early, leader, nextTask, workload >>
    BY DEF HandleDeath, IsLeader, Tgid, history
  <1>2. phase' = [phase EXCEPT ![t] = Dead] BY <1>1 DEF Base, Told
  <1>3. Gone(t) BY <1>1, Places DEF Gone, At
  <1>4. /\ \A u \in Tid : tgidCache'[u] \in {tgidCache[u], PL!NoTid}
        /\ tgidCache'[t] \in {t, PL!NoTid}
    BY <1>1 DEF Base, Told
  <1>5. QED BY <1>1, <1>2, <1>3, <1>4 DEF Frees

LEMMA ReleaseFrees ==
  ASSUME Base, CacheInv, NEW t \in Tid, Release(t), UNCHANGED workload PROVE Frees(t)
  <1>1. At(t, "reported") /\ Exists(t) /\ Gone(t)
    BY Places, PhasesAre DEF Release, At, Gone, Base, Told
  <1>2. Tgid(t) = t BY <1>1 DEF Base, GInv, GroupsInv
  <1>3. tgidCache[t] \in {t, PL!NoTid} BY <1>1, <1>2 DEF CacheInv
  <1>4. \A u \in Tid : ~Awaits(u, t) BY DEF Release, Awaits
  <1>5. QED BY <1>1, <1>3, <1>4 DEF Release, Frees, KernelOnly, tracer, history

LEMMA FreesKeepNodes ==
  ASSUME Counted, NEW t \in Tid, Frees(t) PROVE NodesInv'
  <1>. USE Places
  <1>1. /\ phase'[t] = Dead /\ ~Exists(t)' /\ \A u \in Tid \ {t} : phase'[u] = phase[u]
        /\ \A u \in Tid \ {t} : task'[u] = task[u]
    BY DEF Frees, Counted, Base, Told, TaskTyped, Exists
  <1>2. /\ \A u \in Tid \ {t} : /\ Tgid(u)' = Tgid(u) /\ (Exists(u)' <=> Exists(u))
                                /\ ProcessOf(u)' = ProcessOf(u)
                                /\ (Gone(u)' <=> Gone(u)) /\ (Exiting(u)' <=> Exiting(u))
        /\ \A u \in Tid : At(u, "event")' => u # t /\ At(u, "event") /\ phase'[u] = phase[u]
        /\ \A u, c \in Tid : Awaits(u, c)' => u # t /\ Awaits(u, c) /\ phase'[u] = phase[u]
        /\ createdBy' = createdBy /\ active' = active /\ pending' = pending /\ node' = node
        /\ ended' = ended /\ nextInstance' = nextInstance
        /\ UNCHANGED << attributed, early, leader, nextTask, workload >>
    BY <1>1 DEF Frees, Tgid, Exists, ProcessOf, At, Gone, Exiting, Awaits, analyzer
  <1>3. PendInv'
    <2>1. \A u \in Tid : At(u, "kernel")' => u # t /\ At(u, "kernel") BY <1>1 DEF At
    <2>2. QED BY <1>1, <1>2, <2>1 DEF Counted, NodesInv, PendInv
  <1>4. CacheInv' BY <1>2 DEF Counted, NodesInv, CacheInv, Frees
  <1>5. ASSUME NEW u \in Tid, At(u, "event"), phase[u].child = t PROVE EarlyAt(t)
    <2>1. AwaitOf(u, t) BY DEF Counted, NodesInv, AwaitInv
    <2>2. Exists(t) /\ Gone(t) /\ Exiting(t) BY DEF Frees, Gone, Exiting
    <2>3. Awaits(u, t) BY <1>5 DEF Awaits, At
    <2>4. Tgid(t) # t BY <2>3 DEF Frees
    <2>5. Exists(u) /\ ~Gone(u) BY <1>5, WaitersStand DEF Counted
    <2>6. EarlyIn(t) => EarlyAt(t) BY DEF EarlyIn, EarlyAt
    <2>7. Tgid(t) = Tgid(u) => u \in Group(Tgid(t)) BY <2>5 DEF Group, Tgid
    <2>8. EarlyAt(t) \/ Tgid(t) = Tgid(u) BY <1>5, <2>1, <2>4 DEF AwaitOf
    <2>9. EarlyIn(t) \/ \A v \in Group(Tgid(t)) : Gone(v) BY <1>5, <2>1, <2>2 DEF AwaitOf
    <2>10. QED BY <2>5, <2>6, <2>7, <2>8, <2>9
  <1>6. ASSUME NEW u \in Tid, NEW c \in Tid PROVE AwaitOf(u, c)'
    <2>. SUFFICES ASSUME At(u, "event")', phase'[u].child = c PROVE AwaitOf(u, c)' BY DEF AwaitOf
    <2>1. u # t /\ At(u, "event") /\ phase[u].child = c BY <1>2
    <2>2. CASE c = t
      <3>1. EarlyAt(c)' BY <1>2, <1>5, <2>1, <2>2 DEF EarlyAt
      <3>2. QED BY <1>1, <2>2, <3>1 DEF AwaitOf
    <2>3. CASE c # t
      <3>1. AwaitOf(u, c) BY DEF Counted, NodesInv, AwaitInv
      <3>2. EarlyAt(c)' \/ (Exists(c)' /\ Tgid(c)' \in {c, Tgid(u)'})
        BY <1>2, <2>1, <2>3, <3>1 DEF AwaitOf, EarlyAt
      <3>3. Exists(c)' => EarlyIn(c)' \/ Open(ProcessOf(c))'
        BY <1>2, <2>1, <2>3, <3>1 DEF AwaitOf, EarlyIn, Open
      <3>4. ASSUME Exists(c)', Exiting(c)'
            PROVE  EarlyIn(c)' \/ \A v \in Group(Tgid(c))' : Gone(v)'
        <4>1. EarlyIn(c) \/ \A v \in Group(Tgid(c)) : Gone(v) BY <1>2, <2>1, <2>3, <3>1, <3>4 DEF AwaitOf
        <4>2. EarlyIn(c) => EarlyIn(c)' BY <1>2, <2>3 DEF EarlyIn
        <4>3. ASSUME NEW v \in Group(Tgid(c))' PROVE v \in Tid \ {t} /\ v \in Group(Tgid(c))
          <5>1. v \in Tid /\ Exists(v)' /\ Tgid(v)' = Tgid(c)' BY <4>3 DEF Group, Tgid
          <5>2. v # t BY <1>1, <5>1
          <5>3. QED BY <1>2, <2>3, <5>1, <5>2 DEF Group, Tgid
        <4>4. QED BY <1>2, <4>1, <4>2, <4>3
      <3>5. QED BY <3>2, <3>3, <3>4 DEF AwaitOf
    <2>4. QED BY <2>2, <2>3
  <1>7. ASSUME NEW u \in Tid, NEW c \in Tid PROVE MadeOf(u, c)'
    <2>1. MadeOf(u, c) BY DEF Counted, NodesInv, MadeInv
    <2>2. \A v \in Tid : ForkedBy(v, c)' =>
            v # t /\ ForkedBy(v, c) /\ (At(v, "exit")' => At(v, "exit"))
      BY <1>2 DEF ForkedBy, At
    <2>3. EarlyAt(c) => EarlyAt(c)' BY <1>2 DEF EarlyAt
    <2>4. CASE c = t
      <3>1. Tgid(t) = t => ~ForkedBy(u, c) BY <2>4 DEF Frees, ForkedBy
      <3>2. QED BY <2>1, <2>2, <2>3, <2>4, <3>1 DEF MadeOf
    <2>5. CASE c # t
      <3>1. u # t => Tgid(u)' = Tgid(u) BY <1>2
      <3>2. QED BY <1>2, <2>1, <2>2, <2>3, <2>5, <3>1 DEF MadeOf
    <2>6. QED BY <2>4, <2>5
  <1>8. ASSUME NEW u \in Tid, NEW c \in Tid PROVE ThreadOf(u, c)'
    <2>. SUFFICES ASSUME At(u, "event")', phase'[u].child = c, phase'[u].call = "clone_thread"
                  PROVE  EarlyAt(c)' \/ (Exists(c)' /\ Tgid(c)' = Tgid(u)')
      BY DEF ThreadOf
    <2>1. u # t /\ At(u, "event") /\ phase[u] = phase'[u] BY <1>2
    <2>2. ThreadOf(u, c) BY DEF Counted, NodesInv, MadeInv
    <2>3. EarlyAt(c) => EarlyAt(c)' BY <1>2 DEF EarlyAt
    <2>4. QED BY <1>2, <1>5, <2>1, <2>2, <2>3 DEF ThreadOf
  <1>9. LeadersInv' BY <1>1, <1>2 DEF Counted, NodesInv, LeadersInv
  <1>10. NamedInv' BY <1>2 DEF Counted, NodesInv, NamedInv
  <1>11. LifeInv' BY <1>2 DEF Counted, NodesInv, LifeInv, EarlyUnder, Lives, Open
  <1>12. QED BY <1>3, <1>4, <1>6, <1>7, <1>8, <1>9, <1>10, <1>11 DEF NodesInv, AwaitInv, MadeInv

-----------------------------------------------------------------------------
(* A new task, of a process of its own or of its creator's.                *)
Spawns(t, child) ==
  /\ At(t, "kernel") /\ ~Exiting(t) /\ Exists(t) /\ ~Exists(child) /\ t # child
  /\ phase[t].call \in PL!ForkCalls \cap workload.calls
  /\ phase'[t] = Forked(phase[t].call, child) /\ phase'[child] = User
  /\ \A u \in Tid \ {t, child} : phase'[u] = phase[u]
  /\ Exists(child)' /\ \A u \in Tid \ {child} : task'[u] = task[u]
  /\ \/ /\ ProcessOf(child)' = nextTask /\ Tgid(child)' = child
        /\ phase[t].call # "clone_thread"
        /\ leader' = [leader EXCEPT ![nextTask] = child]
     \/ /\ ProcessOf(child)' = ProcessOf(t) /\ Tgid(child)' = Tgid(t)
        /\ phase[t].call # "fork"
        /\ leader' = leader
  /\ nextTask \in Task /\ nextTask' = nextTask + 1
  /\ UNCHANGED << analyzer, tgidCache, attributed, early, workload >>

LEMMA SpawnsTask ==
  ASSUME Base, NEW t \in Tid, NEW child \in Tid, UNCHANGED workload,
         ForkProcess(t, child) \/ CloneThread(t, child)
  PROVE  Spawns(t, child)
  <1>. USE Places
  <1>1. /\ At(t, "kernel") /\ ~Exiting(t) /\ phase[t].call \in PL!ForkCalls
        /\ ~Exists(child) /\ child # t /\ Exists(t)
    <2>1. At(t, "kernel") /\ phase[t].call \in PL!ForkCalls /\ ~Exists(child)
      BY DEF ForkProcess, CloneThread, Spawn, Free, PL!ForkCalls, At
    <2>2. ~Exiting(t) BY <2>1 DEF Exiting, At, PL!ForkCalls
    <2>3. QED BY <2>1, <2>2, Basics
  <1>2. phase[t].call \in workload.calls BY <1>1 DEF Base, GInv, GroupsInv
  <1>3. /\ phase' = [phase EXCEPT ![t] = Forked(phase[t].call, child), ![child] = User]
        /\ nextTask <= workload.tasks /\ nextTask' = nextTask + 1
        /\ UNCHANGED << analyzer, tgidCache, attributed, early, workload >>
    BY DEF ForkProcess, CloneThread, Spawn, KernelOnly, tracer, history
  <1>4. /\ phase'[t] = Forked(phase[t].call, child) /\ phase'[child] = User
        /\ \A u \in Tid \ {t, child} : phase'[u] = phase[u]
    BY <1>1, <1>3 DEF Base, Told
  <1>5. nextTask \in Task
    BY <1>3, BoundsAssumption, WorkloadAssumption DEF Base, TaskTyped, Told, Task
  <1>6. CASE ForkProcess(t, child)
    <2>1. task' = [task EXCEPT ![child] = [id |-> nextTask, process |-> nextTask, tgid |-> child]]
      BY <1>6 DEF ForkProcess, Spawn
    <2>2. /\ task'[child] = [id |-> nextTask, process |-> nextTask, tgid |-> child]
          /\ \A u \in Tid \ {child} : task'[u] = task[u]
      BY <2>1 DEF Base, Told
    <2>3. Exists(child)' BY <1>5, <2>2 DEF Exists, NoTask, Task
    <2>4. ProcessOf(child)' = nextTask /\ Tgid(child)' = child BY <2>2 DEF ProcessOf, Tgid
    <2>5. phase[t].call # "clone_thread" /\ leader' = [leader EXCEPT ![nextTask] = child]
      BY <1>6 DEF ForkProcess
    <2>6. QED BY <1>1, <1>2, <1>3, <1>4, <1>5, <2>2, <2>3, <2>4, <2>5 DEF Spawns
  <1>7. CASE CloneThread(t, child)
    <2>1. task' = [task EXCEPT ![child] = [id |-> nextTask, process |-> task[t].process,
                                           tgid |-> task[t].tgid]]
      BY <1>7 DEF CloneThread, Spawn
    <2>2. /\ task'[child] = [id |-> nextTask, process |-> ProcessOf(t), tgid |-> Tgid(t)]
          /\ \A u \in Tid \ {child} : task'[u] = task[u]
      BY <2>1 DEF Base, Told, ProcessOf, Tgid
    <2>3. Exists(child)' BY <1>5, <2>2 DEF Exists, NoTask, Task
    <2>4. ProcessOf(child)' = ProcessOf(t) /\ Tgid(child)' = Tgid(t) BY <2>2 DEF ProcessOf, Tgid
    <2>5. phase[t].call # "fork" /\ leader' = leader
      BY <1>7 DEF CloneThread
    <2>6. QED BY <1>1, <1>2, <1>3, <1>4, <1>5, <2>2, <2>3, <2>4, <2>5 DEF Spawns
  <1>8. QED BY <1>6, <1>7

LEMMA SpawnKeepsNodes ==
  ASSUME Counted, NEW t \in Tid, NEW child \in Tid, Spawns(t, child) PROVE NodesInv'
  <1>. USE Places
  <1>. DEFINE forks == ProcessOf(child)' = nextTask /\ Tgid(child)' = child
              shares == ProcessOf(child)' = ProcessOf(t) /\ Tgid(child)' = Tgid(t)
  <1>1. /\ t # child /\ ~Exists(child) /\ Exists(t) /\ Exists(child)' /\ At(t, "kernel") /\ ~Exiting(t)
        /\ phase'[t] = Forked(phase[t].call, child) /\ phase'[child] = User
        /\ \A u \in Tid \ {t, child} : phase'[u] = phase[u]
        /\ phase[t].call \in PL!ForkCalls \cap workload.calls
        /\ nextTask \in Task /\ nextTask \in Nat /\ nextTask' = nextTask + 1
    BY DEF Spawns, Task
  <1>2. /\ \A u \in Tid \ {child} : /\ Tgid(u)' = Tgid(u) /\ (Exists(u)' <=> Exists(u))
                                    /\ ProcessOf(u)' = ProcessOf(u)
                                    /\ (Gone(u)' <=> Gone(u)) /\ (Exiting(u)' <=> Exiting(u))
        /\ ~Exiting(child)' /\ ~Gone(t)
        /\ \A u \in Tid : At(u, "event")' => u # child /\ (u # t => At(u, "event") /\ phase'[u] = phase[u])
        /\ \A u, c \in Tid : Awaits(u, c)' =>
             u # child /\ (u = t => c = child) /\ (u # t => Awaits(u, c) /\ phase'[u] = phase[u])
        /\ createdBy' = createdBy /\ active' = active /\ pending' = pending /\ node' = node
        /\ ended' = ended /\ nextInstance' = nextInstance
        /\ UNCHANGED << attributed, early, workload, tgidCache >>
    <2>1. \A u \in Tid \ {child} : task'[u] = task[u] BY DEF Spawns
    <2>2. \A u \in Tid \ {child} : (Gone(u)' <=> Gone(u)) /\ (Exiting(u)' <=> Exiting(u))
      BY <1>1 DEF Gone, Exiting, At
    <2>3. ~Exiting(child)' /\ ~Gone(t) BY <1>1 DEF Gone, Exiting, At
    <2>4. QED BY <1>1, <2>1, <2>2, <2>3 DEF Spawns, Tgid, Exists, ProcessOf, At, Awaits, analyzer
  <1>3. forks \/ shares BY DEF Spawns
  <1>4. \A u \in Tid : Exists(u) => /\ Tgid(u) # child /\ ProcessOf(u) \in Nat
                                    /\ ProcessOf(u) < nextTask
    BY <1>1, Basics DEF Counted, Base, GInv, GroupsInv, Task
  <1>5. \A p \in Task : leader[p] \in Tid => p # nextTask /\ leader'[p] = leader[p]
    <2>1. leader[nextTask] = PL!NoTid BY <1>1 DEF Counted, NodesInv, LeadersInv
    <2>2. PL!NoTid \notin Tid BY TidAssumption DEF PL!NoTid
    <2>3. QED BY <1>1, <2>1, <2>2 DEF Spawns, Counted, Base, TaskTyped
  <1>6. \A p \in Task : p < nextTask => leader'[p] = leader[p]
    BY <1>1 DEF Spawns, Counted, Base, TaskTyped
  <1>7. PendInv'
    <2>1. ASSUME NEW u \in Tid
          PROVE  /\ At(u, "kernel")' => pending'[u].call = phase'[u].call
                 /\ \A c \in Tid : Awaits(u, c)' =>
                      /\ pending'[u].call = phase'[u].call
                      /\ phase'[u].call \in PL!ForkCalls \cap workload'.calls
      <3>1. CASE u = child BY <1>1, <3>1 DEF At, Awaits
      <3>2. CASE u = t
        <4>1. phase'[u].at = "event" /\ phase'[u].call = phase[t].call BY <1>1, <3>2
        <4>2. pending'[u].call = phase'[u].call
          BY <1>1, <1>2, <3>2, <4>1 DEF Counted, NodesInv, PendInv
        <4>3. QED BY <1>1, <1>2, <4>1, <4>2 DEF At
      <3>3. CASE u \notin {t, child}
        <4>1. phase'[u] = phase[u] /\ pending'[u] = pending[u] BY <1>1, <1>2, <3>3
        <4>2. QED BY <1>2, <4>1 DEF At, Awaits, Counted, NodesInv, PendInv
      <3>4. QED BY <3>1, <3>2, <3>3
    <2>2. QED BY <2>1 DEF PendInv
  <1>8. CacheInv' BY <1>1, <1>2 DEF Counted, NodesInv, CacheInv
  <1>9. Open(ProcessOf(child))'
    <2>1. CASE forks
      <3>1. \A a \in attributed : a.process \in Nat /\ a.process < nextTask
        BY DEF Counted, Base, TaskTyped, Task, GInv, MetInv
      <3>2. QED BY <1>1, <1>2, <2>1, <3>1 DEF Open
    <2>2. CASE shares
      <3>1. Open(ProcessOf(t)) BY <1>1, LiveIsOpen DEF Counted
      <3>2. QED BY <1>2, <2>2, <3>1 DEF Open
    <2>3. QED BY <1>3, <2>1, <2>2
  <1>10. \A u \in Tid : Awaits(u, child) /\ (At(u, "event") \/ ForkedBy(u, child)) => EarlyAt(child)
    BY <1>1 DEF Counted, NodesInv, AwaitInv, AwaitOf, MadeInv, MadeOf, Awaits, At
  <1>11. ASSUME NEW u \in Tid, NEW c \in Tid PROVE AwaitOf(u, c)'
    <2>. SUFFICES ASSUME At(u, "event")', phase'[u].child = c PROVE AwaitOf(u, c)' BY DEF AwaitOf
    <2>1. CASE c = child
      <3>1. EarlyAt(c)' \/ (Exists(c)' /\ Tgid(c)' \in {c, Tgid(u)'})
        <4>1. CASE u = t BY <1>1, <1>2, <1>3, <2>1, <4>1
        <4>2. CASE u # t
          <5>1. At(u, "event") /\ phase[u].child = child BY <1>2, <2>1, <4>2
          <5>2. EarlyAt(child) BY <1>10, <5>1 DEF Awaits, At
          <5>3. QED BY <1>2, <2>1, <5>2 DEF EarlyAt
        <4>3. QED BY <4>1, <4>2
      <3>2. QED BY <1>2, <1>9, <2>1, <3>1 DEF AwaitOf
    <2>2. CASE c # child
      <3>1. u # t /\ u # child /\ At(u, "event") /\ phase[u].child = c BY <1>1, <1>2, <2>2
      <3>2. AwaitOf(u, c) BY DEF Counted, NodesInv, AwaitInv
      <3>3. EarlyAt(c)' \/ (Exists(c)' /\ Tgid(c)' \in {c, Tgid(u)'})
        BY <1>2, <2>2, <3>1, <3>2 DEF AwaitOf, EarlyAt
      <3>4. Exists(c)' => EarlyIn(c)' \/ Open(ProcessOf(c))'
        BY <1>2, <2>2, <3>1, <3>2 DEF AwaitOf, EarlyIn, Open
      <3>5. ASSUME Exists(c)', Exiting(c)'
            PROVE  EarlyIn(c)' \/ \A v \in Group(Tgid(c))' : Gone(v)'
        <4>1. Exists(c) /\ Exiting(c) BY <1>2, <2>2, <3>5
        <4>2. EarlyIn(c) \/ \A v \in Group(Tgid(c)) : Gone(v) BY <3>1, <3>2, <4>1 DEF AwaitOf
        <4>3. EarlyIn(c) => EarlyIn(c)' BY <1>2, <2>2 DEF EarlyIn
        <4>4. CASE \A v \in Group(Tgid(c)) : Gone(v)
          <5>1. t \notin Group(Tgid(c)) BY <1>2, <4>4
          <5>2. Tgid(t) # Tgid(c) BY <1>1, <5>1 DEF Group, Tgid
          <5>3. Tgid(child)' # Tgid(c) BY <1>3, <1>4, <4>1, <5>2
          <5>4. ASSUME NEW v \in Group(Tgid(c))' PROVE Gone(v)'
            <6>1. v \in Tid /\ Exists(v)' /\ Tgid(v)' = Tgid(c)
              BY <1>2, <2>2, <5>4 DEF Group, Tgid
            <6>2. v # child BY <5>3, <6>1
            <6>3. v \in Group(Tgid(c)) BY <1>2, <6>1, <6>2 DEF Group, Tgid
            <6>4. QED BY <1>2, <4>4, <6>1, <6>2, <6>3
          <5>5. QED BY <5>4
        <4>5. QED BY <4>2, <4>3, <4>4
      <3>6. QED BY <3>3, <3>4, <3>5 DEF AwaitOf
    <2>3. QED BY <2>1, <2>2
  <1>12. ASSUME NEW u \in Tid, NEW c \in Tid PROVE MadeOf(u, c)'
    <2>. SUFFICES ASSUME ForkedBy(u, c)', ~EarlyAt(c)'
                  PROVE  /\ Exists(c)' /\ Tgid(c)' = c /\ Tgid(u)' # c
                         /\ At(u, "exit")' => createdBy'[c] = active'[Tgid(u)']
                         /\ \A v \in Tid : ForkedBy(v, c)' => v = u
      BY DEF MadeOf
    <2>1. ~EarlyAt(c) BY <1>2 DEF EarlyAt
    <2>2. \A v \in Tid : v # t /\ ForkedBy(v, c)' =>
                           ForkedBy(v, c) /\ Awaits(v, c) /\ (At(v, "exit")' => At(v, "exit"))
      BY <1>2 DEF ForkedBy, At
    <2>3. u # child BY <1>2 DEF ForkedBy
    <2>4. CASE u = t
      <3>1. c = child BY <1>2, <2>4 DEF ForkedBy
      <3>2. phase[t].call = "fork" BY <1>1, <2>4 DEF ForkedBy
      <3>3. forks BY <3>2 DEF Spawns
      <3>4. ~At(u, "exit")' BY <1>1, <2>4 DEF At
      <3>5. \A v \in Tid : ForkedBy(v, c)' => v = u BY <1>10, <2>1, <2>2, <2>4, <3>1
      <3>6. QED BY <1>1, <1>2, <1>4, <2>3, <2>4, <3>1, <3>3, <3>4, <3>5
    <2>5. CASE u # t
      <3>1. c # child BY <1>10, <2>1, <2>2, <2>5
      <3>2. MadeOf(u, c) BY DEF Counted, NodesInv, MadeInv
      <3>3. \A v \in Tid : ForkedBy(v, c)' => v # t BY <1>2, <3>1 DEF ForkedBy
      <3>4. QED BY <1>2, <2>1, <2>2, <2>3, <2>5, <3>1, <3>2, <3>3 DEF MadeOf
    <2>6. QED BY <2>4, <2>5
  <1>13. ASSUME NEW u \in Tid, NEW c \in Tid PROVE ThreadOf(u, c)'
    <2>. SUFFICES ASSUME At(u, "event")', phase'[u].child = c, phase'[u].call = "clone_thread",
                         ~EarlyAt(c)'
                  PROVE  Exists(c)' /\ Tgid(c)' = Tgid(u)'
      BY DEF ThreadOf
    <2>1. ~EarlyAt(c) /\ u # child BY <1>2 DEF EarlyAt
    <2>2. CASE u = t
      <3>1. c = child /\ phase[t].call = "clone_thread" BY <1>1, <2>2
      <3>2. shares BY <3>1 DEF Spawns
      <3>3. QED BY <1>1, <1>2, <2>2, <3>1, <3>2
    <2>3. CASE u # t
      <3>1. At(u, "event") /\ phase[u] = phase'[u] BY <1>2, <2>3
      <3>2. ThreadOf(u, c) BY DEF Counted, NodesInv, MadeInv
      <3>3. Exists(c) /\ Tgid(c) = Tgid(u) BY <2>1, <3>1, <3>2 DEF ThreadOf
      <3>4. c # child BY <1>1, <3>3
      <3>5. QED BY <1>2, <2>1, <3>3, <3>4
    <2>4. QED BY <2>2, <2>3
  <1>14. LeadersInv'
    <2>1. ASSUME NEW u \in Tid, Exists(u)' PROVE leader'[ProcessOf(u)'] = Tgid(u)'
      <3>1. CASE u = child
        <4>1. CASE /\ ProcessOf(child)' = nextTask /\ Tgid(child)' = child
                   /\ leader' = [leader EXCEPT ![nextTask] = child]
          BY <1>1, <3>1, <4>1 DEF Counted, Base, TaskTyped
        <4>2. CASE /\ ProcessOf(child)' = ProcessOf(t) /\ Tgid(child)' = Tgid(t) /\ leader' = leader
          BY <1>1, <3>1, <4>2 DEF Counted, NodesInv, LeadersInv
        <4>3. QED BY <4>1, <4>2 DEF Spawns
      <3>2. CASE u # child
        <4>1. Exists(u) /\ ProcessOf(u) \in Task /\ ProcessOf(u) < nextTask
          BY <1>2, <1>4, <2>1, <3>2, Basics DEF Counted
        <4>2. QED BY <1>2, <1>6, <3>2, <4>1 DEF Counted, NodesInv, LeadersInv
      <3>3. QED BY <3>1, <3>2
    <2>2. ASSUME NEW p \in Task, p >= nextTask' PROVE leader'[p] = PL!NoTid
      <3>1. p # nextTask /\ p >= nextTask BY <1>1, <2>2 DEF Task
      <3>2. leader'[p] = leader[p] BY <1>1, <3>1 DEF Spawns, Counted, Base, TaskTyped
      <3>3. QED BY <3>1, <3>2 DEF Counted, NodesInv, LeadersInv
    <2>3. \A e \in early' : e.process < nextTask'
      <3>1. \A e \in early : e.process < nextTask /\ e.process \in Nat
        BY DEF Counted, NodesInv, LeadersInv, Base, TaskTyped, Task
      <3>2. QED BY <1>1, <1>2, <3>1
    <2>4. QED BY <2>1, <2>2, <2>3 DEF LeadersInv
  <1>15. NamedInv'
    <2>1. \A a \in attributed : leader'[a.process] = leader[a.process]
      BY <1>6 DEF Counted, Base, GInv, MetInv, TaskTyped
    <2>2. QED BY <1>2, <2>1 DEF Counted, NodesInv, NamedInv
  <1>16. LifeInv'
    <2>1. \A e \in early : leader'[e.process] = leader[e.process]
      BY <1>6 DEF Counted, Base, TaskTyped, NodesInv, LeadersInv
    <2>2. ASSUME NEW g \in Tid, active'[g] # 0 PROVE EarlyUnder(g)' \/ \E p \in Lives(g)' : Open(p)'
      <3>1. CASE EarlyUnder(g) BY <1>2, <2>1, <3>1 DEF EarlyUnder
      <3>2. CASE ~EarlyUnder(g)
        <4>1. PICK p \in Lives(g) : Open(p) BY <1>2, <2>2, <3>2 DEF Counted, NodesInv, LifeInv
        <4>2. p \in Lives(g)' BY <1>5, <4>1 DEF Lives
        <4>3. Open(p)' BY <1>2, <4>1 DEF Open
        <4>4. QED BY <4>2, <4>3
      <3>3. QED BY <3>1, <3>2
    <2>3. QED BY <2>2 DEF LifeInv
  <1>17. QED BY <1>7, <1>8, <1>11, <1>12, <1>13, <1>14, <1>15, <1>16 DEF NodesInv, AwaitInv, MadeInv

-----------------------------------------------------------------------------
(* An entry.  The process it is of is known to the analyzer by one         *)
(* instance, which the entry of its last exit ends.                        *)
LEMMA EntryKeepsNodes ==
  ASSUME Counted, Base', ~mistaken', UNCHANGED workload,
         NEW t \in Tid, NEW call \in workload.calls, HandleEntry(t, call)
  PROVE  NodesInv'
  <1>. USE Places
  <1>1. /\ Exists(t) /\ At(t, "user") /\ ~Exiting(t) /\ ~Gone(t)
        /\ phase'[t] = InKernel(call) /\ \A u \in Tid \ {t} : phase'[u] = phase[u]
        /\ UNCHANGED << task, leader, nextTask >>
    BY DEF HandleEntry, Exiting, At, Gone, Counted, Base, Told
  <1>2. PICK g \in Tid : g = Tgid(t) /\ ResolveTgid(t) = g
    BY <1>1, ResolvesRight, Basics DEF HandleEntry, Counted
  <1>3. PL!Entry(t, g, call) BY <1>2 DEF HandleEntry
  <1>4. PICK P \in Task : P = ProcessOf(t) /\ P < nextTask
    BY <1>1, Basics DEF Counted, Base, GInv, GroupsInv
  <1>5. PICK i \in PL!Instance :
          /\ i = PL!InstanceFor(g) /\ (active[g] # 0 => i = active[g]) /\ pending'[t].instance = i
          /\ active'[g] \in {0, i} /\ \A x \in Tid \ {g} : active'[x] = active[x]
    BY <1>3, EntryDoes DEF Counted, Base
  <1>6. PICK a0 : a0.instance = i /\ a0.process = P /\ attributed' = attributed \cup {a0}
    <2>. DEFINE b == [instance |-> pending'[t].instance, generation |-> pending'[t].generation,
                      process |-> task[t].process, image |-> image[task[t].process]]
    <2>1. attributed' = attributed \cup {b} BY DEF HandleEntry
    <2>2. b.process = P /\ b.instance = i BY <1>4, <1>5 DEF ProcessOf
    <2>. HIDE DEF b
    <2>3. QED BY <2>1, <2>2
  <1>7. /\ pending'[t].call = call /\ \A u \in Tid \ {t} : pending'[u] = pending[u]
        /\ createdBy' = createdBy /\ MakesNode(g)
        /\ \/ ended' = ended
           \/ /\ ended' = ended \cup {i} /\ active'[g] = 0 /\ call \in {"exit", "exit_group"}
    BY <1>3, <1>5, EntryRecords DEF Counted, Base, MakesNode
  <1>8. /\ early \subseteq early' /\ \A e \in early' : e \in early \/ e.process = P
        /\ (\E u \in Tid : At(u, "event") /\ phase[u].child = t) /\ call \in {"exit", "exit_group"}
             => EarlyIn(t)'
    <2>. DEFINE b == [tid |-> t, process |-> task[t].process, id |-> task[t].id]
    <2>1. early' = IF call \in {"exit", "exit_group"} /\ ~Announced(t) THEN early \cup {b} ELSE early
      BY DEF HandleEntry
    <2>2. b.tid = t /\ b.process = P BY <1>4 DEF ProcessOf
    <2>. HIDE DEF b
    <2>3. early \subseteq early' /\ \A e \in early' : e \in early \/ e.process = P BY <2>1, <2>2
    <2>4. ASSUME NEW u \in Tid, At(u, "event"), phase[u].child = t, call \in {"exit", "exit_group"}
          PROVE  EarlyIn(t)'
      <3>1. ~Announced(t) BY <2>4 DEF Announced, At
      <3>2. b \in early' BY <2>1, <2>4, <3>1
      <3>3. ProcessOf(t)' = P BY <1>1, <1>4 DEF ProcessOf
      <3>4. QED BY <2>2, <3>2, <3>3 DEF EarlyIn
    <2>5. QED BY <2>3, <2>4
  <1>9. /\ \A u \in Tid : /\ Tgid(u)' = Tgid(u) /\ (Exists(u)' <=> Exists(u))
                          /\ ProcessOf(u)' = ProcessOf(u) /\ (Gone(u)' <=> Gone(u))
        /\ \A x : Group(x)' = Group(x)
        /\ \A u \in Tid \ {t} : Exiting(u)' <=> Exiting(u)
        /\ Exiting(t)' <=> call \in {"exit", "exit_group"}
        /\ \A u \in Tid : At(u, "event")' => u # t /\ At(u, "event") /\ phase'[u] = phase[u]
        /\ \A u, c \in Tid : Awaits(u, c)' => u # t /\ Awaits(u, c) /\ phase'[u] = phase[u]
    BY <1>1 DEF Tgid, Exists, ProcessOf, Group, Gone, Exiting, At, Awaits
  <1>10. \A c \in Tid : (EarlyAt(c) => EarlyAt(c)') /\ (EarlyIn(c) => EarlyIn(c)')
    BY <1>8, <1>9 DEF EarlyAt, EarlyIn
  <1>11. \A u \in Tid : Exists(u) =>
           /\ ProcessOf(u) \in Task /\ leader[ProcessOf(u)] = Tgid(u)
           /\ (ProcessOf(u) = P <=> Tgid(u) = g)
    BY <1>1, <1>2, <1>4, Basics DEF Counted, Base, GInv, GroupsInv, NodesInv, LeadersInv
  <1>12. i \notin ended
    <2>1. CASE active[g] # 0
      BY <1>5, <2>1 DEF Counted, Base, Analyzed, PL!MapsAgree, PL!IsActive, PL!NoInstance
    <2>2. CASE active[g] = 0
      <3>1. i = nextInstance BY <1>5, <2>2 DEF PL!InstanceFor, PL!IsActive, PL!NoInstance
      <3>2. \A j \in ended : j < nextInstance BY DEF Counted, NodesInv, NamedInv
      <3>3. nextInstance \in Nat BY BoundsAssumption DEF Counted, Base, Analyzed, PL!TypeOK
      <3>4. QED BY <3>1, <3>2, <3>3
    <2>3. QED BY <2>1, <2>2
  <1>13. NamedInv'
    <2>1. \A a \in attributed : /\ node'[a.instance] = leader'[a.process]
                                /\ a.instance < nextInstance'
      <3>1. \A a \in attributed : /\ a.instance \in PL!Instance /\ a.instance < nextInstance
                                  /\ node[a.instance] = leader[a.process]
        BY DEF Counted, NodesInv, NamedInv, Base, TaskTyped
      <3>2. QED BY <1>1, <1>7, <3>1, NodesKept DEF Counted, Base
    <2>2. node'[i] = g /\ i < nextInstance'
      <3>1. CASE active[g] # 0
        BY <1>5, <1>7, <3>1 DEF MakesNode, PL!NodeFor, PL!NextAfter, PL!IsActive, PL!NoInstance,
           Counted, Base, Analyzed, PL!MapsAgree, PL!IsAllocated
      <3>2. CASE active[g] = 0
        <4>1. i = nextInstance BY <1>5, <3>2 DEF PL!InstanceFor, PL!IsActive, PL!NoInstance
        <4>2. nextInstance \in Nat BY BoundsAssumption DEF Counted, Base, Analyzed, PL!TypeOK
        <4>3. QED BY <1>7, <3>2, <4>1, <4>2 DEF MakesNode, PL!NodeFor, PL!NextAfter, PL!IsActive,
                     PL!NoInstance, Counted, Base, Analyzed, PL!TypeOK
      <3>3. QED BY <3>1, <3>2
    <2>3. leader'[P] = g BY <1>1, <1>2, <1>4, <1>11
    <2>4. \A a \in attributed' : node'[a.instance] = leader'[a.process] /\ a.instance < nextInstance'
      BY <1>6, <2>1, <2>2, <2>3
    <2>5. \A j \in ended' : \E a \in attributed' : a.instance = j
      BY <1>6, <1>7 DEF Counted, NodesInv, NamedInv
    <2>6. QED BY <2>4, <2>5 DEF NamedInv
  <1>14. \A a \in attributed' : a.instance = i => leader[a.process] = g
    <2>1. node'[i] = g BY <1>1, <1>2, <1>4, <1>6, <1>11, <1>13 DEF NamedInv
    <2>2. QED BY <1>1, <1>13, <2>1 DEF NamedInv
  <1>15. ASSUME NEW p \in Task, Open(p), leader[p] # g PROVE Open(p)'
    <2>1. p # P BY <1>1, <1>2, <1>4, <1>11, <1>15
    <2>2. ASSUME NEW a \in attributed', a.process = p PROVE a.instance \notin ended'
      <3>1. a \in attributed /\ a.instance \notin ended BY <1>6, <1>15, <2>1, <2>2 DEF Open
      <3>2. a.instance # i BY <1>14, <1>15, <2>2
      <3>3. QED BY <1>7, <3>1, <3>2
    <2>3. QED BY <2>2 DEF Open
  <1>16. ended' = ended => Open(P)'
    <2>1. \A a \in attributed' : a.process = P => a.instance = i
      BY <1>6 DEF Base, GInv, KeysInv
    <2>2. QED BY <1>12, <2>1 DEF Open
  <1>17. PendInv'
    <2>1. \A u \in Tid : At(u, "kernel")' => pending'[u].call = phase'[u].call
      <3>1. pending'[t].call = phase'[t].call BY <1>1, <1>7
      <3>2. QED BY <1>1, <1>7, <3>1 DEF Counted, NodesInv, PendInv, At
    <2>2. QED BY <1>7, <1>9, <2>1 DEF Counted, NodesInv, PendInv
  <1>18. CacheInv'
    <2>1. \A u \in Tid : tgidCache'[u] = IF u = t THEN g ELSE tgidCache[u]
      BY <1>1, <1>2 DEF HandleEntry, Resolves, Cached
    <2>2. QED BY <1>1, <1>2, <1>9, <2>1 DEF Counted, NodesInv, CacheInv
  <1>19. ASSUME NEW u \in Tid, NEW c \in Tid PROVE AwaitOf(u, c)'
    <2>. SUFFICES ASSUME At(u, "event")', phase'[u].child = c PROVE AwaitOf(u, c)' BY DEF AwaitOf
    <2>1. u # t /\ At(u, "event") /\ phase[u].child = c BY <1>9
    <2>2. AwaitOf(u, c) BY DEF Counted, NodesInv, AwaitInv
    <2>3. EarlyAt(c)' \/ (Exists(c)' /\ Tgid(c)' \in {c, Tgid(u)'})
      BY <1>9, <1>10, <2>1, <2>2 DEF AwaitOf
    <2>4. c = t /\ call \in {"exit", "exit_group"} => EarlyIn(c)' BY <1>8, <2>1
    <2>5. ASSUME Exists(c), c # t, Exiting(c)
          PROVE  EarlyIn(c)' \/ \A v \in Group(Tgid(c)) : Gone(v)
      BY <1>10, <2>1, <2>2, <2>5 DEF AwaitOf
    <2>6. ASSUME Exists(c) PROVE EarlyIn(c)' \/ Open(ProcessOf(c))'
      <3>1. CASE ProcessOf(c) # P
        <4>1. leader[ProcessOf(c)] # g /\ ProcessOf(c) \in Task BY <1>11, <2>6, <3>1
        <4>2. EarlyIn(c) \/ Open(ProcessOf(c)) BY <2>1, <2>2, <2>6 DEF AwaitOf
        <4>3. ProcessOf(c)' = ProcessOf(c) BY <1>9
        <4>4. PICK p \in Task : p = ProcessOf(c) BY <4>1
        <4>5. Open(p) => Open(p)' BY <1>15, <4>1, <4>4
        <4>6. Open(p)' <=> Open(ProcessOf(c))' BY <4>3, <4>4 DEF Open
        <4>7. QED BY <1>10, <4>2, <4>4, <4>5, <4>6
      <3>2. CASE ProcessOf(c) = P
        <4>1. ended' = ended => Open(ProcessOf(c))' BY <1>9, <1>16, <3>2 DEF Open
        <4>2. ASSUME ended' # ended PROVE EarlyIn(c)'
          <5>1. active'[g] = 0 /\ call \in {"exit", "exit_group"} BY <1>7, <4>2
          <5>2. CASE c = t BY <2>4, <5>1, <5>2
          <5>3. CASE c # t
            <6>1. Tgid(c)' = g /\ Tgid(c) = g BY <1>9, <1>11, <2>6, <3>2
            <6>2. Met(ProcessOf(c))' BY <1>6, <1>9, <3>2 DEF Met
            <6>3. LiveOf(c)' BY DEF Base, GInv, LiveInv
            <6>4. Exiting(c)' BY <5>1, <6>1, <6>2, <6>3 DEF LiveOf
            <6>5. Exiting(c) BY <1>9, <5>3, <6>4
            <6>6. t \in Group(Tgid(c)) BY <1>1, <1>2, <6>1 DEF Group, Tgid
            <6>7. QED BY <1>1, <2>5, <2>6, <5>3, <6>5, <6>6
          <5>4. QED BY <5>2, <5>3
        <4>3. QED BY <4>1, <4>2
      <3>3. QED BY <3>1, <3>2
    <2>7. ASSUME Exists(c), Exiting(c)' PROVE EarlyIn(c)' \/ \A v \in Group(Tgid(c))' : Gone(v)'
      <3>1. CASE c = t BY <1>9, <2>4, <2>7, <3>1
      <3>2. CASE c # t
        <4>1. Exiting(c) BY <1>9, <2>7, <3>2
        <4>2. Group(Tgid(c))' = Group(Tgid(c)) /\ Group(Tgid(c)) \subseteq Tid
          BY <1>9 DEF Group
        <4>3. QED BY <1>9, <2>5, <2>7, <3>2, <4>1, <4>2
      <3>3. QED BY <3>1, <3>2
    <2>8. QED BY <1>9, <2>3, <2>6, <2>7 DEF AwaitOf
  <1>20. ASSUME NEW u \in Tid, NEW c \in Tid PROVE MadeOf(u, c)'
    <2>. SUFFICES ASSUME ForkedBy(u, c)', ~EarlyAt(c)'
                  PROVE  /\ Exists(c)' /\ Tgid(c)' = c /\ Tgid(u)' # c
                         /\ At(u, "exit")' => createdBy'[c] = active'[Tgid(u)']
                         /\ \A v \in Tid : ForkedBy(v, c)' => v = u
      BY DEF MadeOf
    <2>1. \A v \in Tid : ForkedBy(v, c)' => v # t /\ ForkedBy(v, c) /\ phase'[v] = phase[v]
      BY <1>9 DEF ForkedBy
    <2>2. MadeOf(u, c) /\ ~EarlyAt(c) BY <1>10 DEF Counted, NodesInv, MadeInv
    <2>3. ASSUME At(u, "exit")' PROVE createdBy'[c] = active'[Tgid(u)']
      <3>1. At(u, "exit") /\ u # t BY <2>1, <2>3 DEF At
      <3>2. active'[Tgid(u)'] = active[Tgid(u)]
        <4>1. active[Tgid(u)] # 0 /\ Tgid(u) \in Tid BY <3>1, WaitersStand DEF Counted
        <4>2. active'[Tgid(u)'] # 0
          <5>1. ~Exiting(u) /\ Met(ProcessOf(u)) BY <3>1, WaitersStand DEF Counted
          <5>2. ~Exiting(u)' /\ Met(ProcessOf(u))' BY <1>6, <1>9, <3>1, <5>1 DEF Met
          <5>3. LiveOf(u)' BY DEF Base, GInv, LiveInv
          <5>4. QED BY <5>2, <5>3 DEF LiveOf
        <4>3. QED BY <1>5, <1>9, <4>1, <4>2
      <3>3. QED BY <1>7, <2>1, <2>2, <3>1, <3>2 DEF MadeOf
    <2>4. QED BY <1>9, <2>1, <2>2, <2>3 DEF MadeOf
  <1>21. ASSUME NEW u \in Tid, NEW c \in Tid PROVE ThreadOf(u, c)'
    <2>1. ThreadOf(u, c) BY DEF Counted, NodesInv, MadeInv
    <2>2. QED BY <1>9, <1>10, <2>1 DEF ThreadOf
  <1>22. LeadersInv'
    <2>1. \A u \in Tid : Exists(u)' => leader'[ProcessOf(u)'] = Tgid(u)' BY <1>1, <1>9, <1>11
    <2>2. QED BY <1>1, <1>4, <1>8, <2>1 DEF Counted, NodesInv, LeadersInv
  <1>23. LifeInv'
    <2>. SUFFICES ASSUME NEW h \in Tid, active'[h] # 0, ~EarlyUnder(h)'
                  PROVE  \E p \in Lives(h)' : Open(p)'
      BY DEF LifeInv
    <2>1. Lives(h)' = Lives(h) BY <1>1 DEF Lives
    <2>2. CASE h = g
      <3>1. ended' = ended
        <4>1. CASE ended' # ended BY <1>7, <2>2, <4>1
        <4>2. QED BY <4>1
      <3>2. P \in Lives(h) BY <1>1, <1>2, <1>4, <1>11, <2>2 DEF Lives
      <3>3. QED BY <1>16, <2>1, <3>1, <3>2
    <2>3. CASE h # g
      <3>1. ~EarlyUnder(h) BY <1>1, <1>8 DEF EarlyUnder
      <3>2. active[h] # 0 BY <1>5, <2>3
      <3>3. PICK p \in Lives(h) : Open(p) BY <3>1, <3>2 DEF Counted, NodesInv, LifeInv
      <3>4. p \in Task /\ leader[p] # g BY <2>3, <3>3 DEF Lives
      <3>5. Open(p)' BY <1>15, <3>3, <3>4
      <3>6. QED BY <2>1, <3>5
    <2>4. QED BY <2>2, <2>3
  <1>24. QED
    BY <1>13, <1>17, <1>18, <1>19, <1>20, <1>21, <1>22, <1>23 DEF NodesInv, AwaitInv, MadeInv

-----------------------------------------------------------------------------
(* The stops of a task that goes on.                                       *)
Answers(t) ==
  /\ Exists(t) /\ ~Exiting(t)
  /\ ~Exiting(t)' /\ ~Gone(t)' /\ ~At(t, "event")' /\ ~At(t, "kernel")'
  /\ \A u \in Tid \ {t} : phase'[u] = phase[u] /\ pending'[u] = pending[u]
  /\ \A u \in Tid : tgidCache'[u] = tgidCache[u] \/ (Exists(u) /\ tgidCache'[u] = Tgid(u))
  /\ UNCHANGED << task, leader, nextTask, attributed, early, ended, workload >>

(* What such a stop leaves as it was.                                      *)
LEMMA AnswersKeep ==
  ASSUME Counted, NEW t \in Tid, Answers(t)
  PROVE  /\ CacheInv' /\ AwaitInv' /\ LeadersInv' /\ \A u, c \in Tid : ThreadOf(u, c)'
         /\ \A u \in Tid : /\ Tgid(u)' = Tgid(u) /\ (Exists(u)' <=> Exists(u))
                           /\ ProcessOf(u)' = ProcessOf(u)
         /\ \A u, c \in Tid : u # t /\ Awaits(u, c)' => Awaits(u, c) /\ phase'[u] = phase[u]
         /\ \A c \in Tid : EarlyAt(c)' <=> EarlyAt(c)
  <1>1. ~Gone(t) BY DEF Answers, Gone, Exiting
  <1>2. /\ \A u \in Tid : /\ Tgid(u)' = Tgid(u) /\ (Exists(u)' <=> Exists(u))
                          /\ ProcessOf(u)' = ProcessOf(u)
                          /\ Exiting(u)' <=> Exiting(u)
                          /\ Gone(u)' <=> Gone(u)
        /\ \A u \in Tid : At(u, "event")' => u # t /\ At(u, "event") /\ phase'[u] = phase[u]
        /\ \A u, c \in Tid : u # t /\ Awaits(u, c)' => Awaits(u, c) /\ phase'[u] = phase[u]
        /\ \A g : Group(g)' = Group(g)
        /\ \A c \in Tid : (EarlyAt(c)' <=> EarlyAt(c)) /\ (EarlyIn(c)' <=> EarlyIn(c))
        /\ UNCHANGED << leader, nextTask, attributed, early, ended >>
    BY <1>1 DEF Answers, Tgid, Exists, ProcessOf, Exiting, Gone, At, Awaits, Group, EarlyAt, EarlyIn
  <1>3. CacheInv' BY <1>2 DEF Answers, Counted, NodesInv, CacheInv
  <1>4. ASSUME NEW u \in Tid, NEW c \in Tid PROVE AwaitOf(u, c)'
    <2>. SUFFICES ASSUME At(u, "event")', phase'[u].child = c PROVE AwaitOf(u, c)' BY DEF AwaitOf
    <2>1. At(u, "event") /\ phase[u].child = c BY <1>2
    <2>2. AwaitOf(u, c) BY DEF Counted, NodesInv, AwaitInv
    <2>3. EarlyAt(c)' \/ (Exists(c)' /\ Tgid(c)' \in {c, Tgid(u)'}) BY <1>2, <2>1, <2>2 DEF AwaitOf
    <2>4. Exists(c)' => EarlyIn(c)' \/ Open(ProcessOf(c))' BY <1>2, <2>1, <2>2 DEF AwaitOf, Open
    <2>5. ASSUME Exists(c)', Exiting(c)' PROVE EarlyIn(c)' \/ \A v \in Group(Tgid(c))' : Gone(v)'
      <3>1. EarlyIn(c) \/ \A v \in Group(Tgid(c)) : Gone(v) BY <1>2, <2>1, <2>2, <2>5 DEF AwaitOf
      <3>2. Group(Tgid(c))' = Group(Tgid(c)) /\ Group(Tgid(c)) \subseteq Tid BY <1>2 DEF Group
      <3>3. QED BY <1>2, <3>1, <3>2
    <2>6. QED BY <2>3, <2>4, <2>5 DEF AwaitOf
  <1>5. ASSUME NEW u \in Tid, NEW c \in Tid PROVE ThreadOf(u, c)'
    <2>1. ThreadOf(u, c) BY DEF Counted, NodesInv, MadeInv
    <2>2. QED BY <1>2, <2>1 DEF ThreadOf
  <1>6. LeadersInv' BY <1>2 DEF Counted, NodesInv, LeadersInv
  <1>7. QED BY <1>2, <1>3, <1>4, <1>5, <1>6 DEF AwaitInv

(* The one node such a stop may make is for a task id that keeps an open   *)
(* process or had an exit handled early.                                   *)
LEMMA AnswersName ==
  ASSUME Counted, NEW t \in Tid, Answers(t), NEW g \in Tid,
         MakesNode(g) \/ UNCHANGED << node, nextInstance >>,
         \A h \in Tid \ {g} : active'[h] # 0 => active[h] # 0,
         active[g] # 0 \/ EarlyUnder(g) \/ \E p \in Lives(g) : Open(p)
  PROVE  NamedInv' /\ LifeInv'
  <1>1. UNCHANGED << leader, attributed, early, ended >> BY DEF Answers
  <1>2. NamedInv'
    <2>1. \A a \in attributed : /\ a.instance \in PL!Instance /\ a.instance < nextInstance
                                /\ node[a.instance] = leader[a.process]
      BY DEF Counted, NodesInv, NamedInv, Base, TaskTyped
    <2>2. \A a \in attributed : node'[a.instance] = leader[a.process] /\ a.instance < nextInstance'
      BY <2>1, NodesKept DEF Counted, Base
    <2>3. QED BY <1>1, <2>2 DEF Counted, NodesInv, NamedInv
  <1>3. LifeInv'
    <2>1. ASSUME NEW h \in Tid, active'[h] # 0 PROVE EarlyUnder(h) \/ \E p \in Lives(h) : Open(p)
      BY <2>1 DEF Counted, NodesInv, LifeInv
    <2>2. QED BY <1>1, <2>1 DEF LifeInv, EarlyUnder, Lives, Open
  <1>4. QED BY <1>2, <1>3

LEMMA ExitKeepsNodes ==
  ASSUME Counted, UNCHANGED workload, ~mistaken', NEW t \in Tid, HandleExit(t) PROVE NodesInv'
  <1>. USE Places
  <1>1. /\ Exists(t) /\ ~Exiting(t) /\ ~At(t, "user") /\ ~At(t, "event")
        /\ phase'[t] = User /\ \A u \in Tid \ {t} : phase'[u] = phase[u]
        /\ UNCHANGED << task, leader, nextTask, attributed, early >>
    BY DEF HandleExit, MayReturn, Exiting, At, Counted, Base, Told
  <1>2. PICK g \in Tid : g = Tgid(t) /\ ResolveTgid(t) = g /\ active[g] # 0
    BY <1>1, ResolvesRight, Basics DEF HandleExit, Counted
  <1>3. PICK call : PL!Exit(t, g, call, Made(t)) BY <1>2 DEF HandleExit
  <1>4. PICK c : c = Made(t) OBVIOUS
  <1>5. /\ \A u \in Tid \ {t} : pending'[u] = pending[u]
        /\ ended' = ended
        /\ \/ node' = node /\ nextInstance' = nextInstance /\ active' = active
           \/ PL!ForkExitCreate(t, g, call, c)
        /\ \/ createdBy' = createdBy
           \/ /\ PL!ForkExitMatched(t, g, call, c)
              /\ \A x \in Tid \ {c} : createdBy'[x] = createdBy[x]
    BY <1>2, <1>3, <1>4, ExitRecords DEF Counted, Base
  <1>6. Answers(t)
    <2>1. \A u \in Tid : tgidCache'[u] = IF u = t THEN g ELSE tgidCache[u]
      BY <1>1, <1>2 DEF HandleExit, Resolves, Cached
    <2>2. ~Exiting(t)' /\ ~Gone(t)' /\ ~At(t, "event")' /\ ~At(t, "kernel")'
      BY <1>1 DEF Exiting, Gone, At
    <2>3. QED BY <1>1, <1>2, <1>5, <2>1, <2>2 DEF Answers
  <1>7. /\ \A u \in Tid : Tgid(u)' = Tgid(u) /\ (Exists(u)' <=> Exists(u))
        /\ \A u, x \in Tid : u # t /\ Awaits(u, x)' => Awaits(u, x) /\ phase'[u] = phase[u]
        /\ \A x \in Tid : EarlyAt(x)' <=> EarlyAt(x)
    BY <1>6, AnswersKeep
  <1>8. \A x \in Tid : ~Awaits(t, x)' BY <1>1 DEF Awaits
  (* The call returns with a task only if it was announced.                *)
  <1>9. c \in Tid => Awaits(t, c) /\ At(t, "exit") /\ pending[t].call = phase[t].call
    <2>1. c \in Tid => Awaits(t, c) /\ At(t, "exit")
      BY <1>4, TidAssumption DEF Made, Awaits, At, PL!NoTid
    <2>2. QED BY <2>1 DEF Counted, NodesInv, PendInv
  <1>10. ASSUME PL!ForkExitCreate(t, g, call, c) PROVE NamedInv' /\ LifeInv'
    <2>1. /\ c \in Tid /\ pending[t].call \notin {"clone_thread", "clone3"} /\ createdBy[c] # active[g]
          /\ MakesNode(c) /\ \A h \in Tid \ {c} : active'[h] = active[h]
      BY <1>2, <1>10, ExitMakes DEF Counted, Base, MakesNode
    <2>2. ForkedBy(t, c)
      BY <1>9, <2>1 DEF Counted, NodesInv, PendInv, PL!ForkCalls, ForkedBy
    <2>3. EarlyAt(c) BY <1>2, <1>9, <2>1, <2>2 DEF Counted, NodesInv, MadeInv, MadeOf
    <2>4. EarlyUnder(c) BY <2>3 DEF EarlyAt, EarlyUnder
    <2>5. QED BY <1>6, <2>1, <2>4, AnswersName
  <1>11. ASSUME node' = node /\ nextInstance' = nextInstance /\ active' = active
         PROVE  NamedInv' /\ LifeInv'
    BY <1>2, <1>6, <1>11, AnswersName
  <1>12. NamedInv' /\ LifeInv' BY <1>5, <1>10, <1>11
  <1>13. PendInv'
    <2>1. \A u \in Tid : At(u, "kernel")' => u # t /\ At(u, "kernel") BY <1>1 DEF At
    <2>2. \A u, x \in Tid : Awaits(u, x)' => u # t /\ Awaits(u, x) BY <1>7, <1>8
    <2>3. QED BY <1>1, <1>5, <2>1, <2>2 DEF Counted, NodesInv, PendInv
  <1>14. ASSUME NEW u \in Tid, NEW x \in Tid PROVE MadeOf(u, x)'
    <2>. SUFFICES ASSUME ForkedBy(u, x)', ~EarlyAt(x)'
                  PROVE  /\ Exists(x)' /\ Tgid(x)' = x /\ Tgid(u)' # x
                         /\ At(u, "exit")' => createdBy'[x] = active'[Tgid(u)']
                         /\ \A v \in Tid : ForkedBy(v, x)' => v = u
      BY DEF MadeOf
    <2>1. \A v \in Tid : ForkedBy(v, x)' => v # t /\ ForkedBy(v, x) /\ phase'[v] = phase[v]
      BY <1>7, <1>8 DEF ForkedBy
    <2>2. MadeOf(u, x) /\ ~EarlyAt(x) BY <1>7 DEF Counted, NodesInv, MadeInv
    <2>3. ASSUME At(u, "exit")' PROVE createdBy'[x] = active'[Tgid(u)']
      <3>1. At(u, "exit") /\ u # t BY <2>1, <2>3 DEF At
      <3>2. createdBy[x] = active[Tgid(u)] /\ \A v \in Tid : ForkedBy(v, x) => v = u
        BY <2>1, <2>2, <3>1 DEF MadeOf
      <3>3. active'[Tgid(u)'] = active[Tgid(u)]
        <4>1. active[Tgid(u)] # 0 /\ Tgid(u) \in Tid BY <3>1, WaitersStand DEF Counted
        <4>2. Grows BY <1>2, <1>3, ExitGrows DEF Counted, Base
        <4>3. QED BY <1>7, <4>1, <4>2 DEF Grows
      <3>4. createdBy'[x] = createdBy[x]
        <4>. SUFFICES ASSUME PL!ForkExitMatched(t, g, call, c), x = c PROVE FALSE BY <1>5
        <4>1. pending[t].call # "clone_thread" /\ pending[t].call = phase[t].call /\ Awaits(t, c)
          BY <1>9 DEF PL!ForkExitMatched
        <4>2. phase[t].call # "fork" BY <2>1, <3>1, <3>2, <4>1 DEF ForkedBy
        <4>3. phase[t].call = "clone3" /\ "clone3" \in workload.calls
          BY <4>1, <4>2 DEF Counted, NodesInv, PendInv, PL!ForkCalls
        <4>4. "fork" \in workload.calls
          <5>1. Awaits(u, x) /\ phase[u].call = "fork" BY <2>1 DEF ForkedBy
          <5>2. QED BY <5>1 DEF Counted, NodesInv, PendInv
        <4>5. QED BY <4>3, <4>4 DEF Counted, OneForkCall
      <3>5. QED BY <3>2, <3>3, <3>4
    <2>4. QED BY <1>7, <2>1, <2>2, <2>3 DEF MadeOf
  <1>15. QED BY <1>6, <1>12, <1>13, <1>14, AnswersKeep DEF NodesInv, MadeInv

LEMMA ExecKeepsNodes ==
  ASSUME Counted, UNCHANGED workload, ~mistaken', NEW t \in Tid, HandleExec(t) PROVE NodesInv'
  <1>. USE Places
  <1>1. /\ Exists(t) /\ ~Exiting(t)
        /\ phase'[t] = Returning("execve", PL!NoTid) /\ \A u \in Tid \ {t} : phase'[u] = phase[u]
        /\ UNCHANGED << task, leader, nextTask, attributed, early >>
    BY DEF HandleExec, Exiting, At, Counted, Base, Told
  <1>2. PICK g \in Tid : g = Tgid(t) /\ ResolveTgid(t) = g
    BY <1>1, ResolvesRight, Basics DEF HandleExec, Counted
  <1>3. UNCHANGED << nextInstance, active, node, ended, createdBy, pending >>
    BY DEF HandleExec, PL!Exec, PL!vars
  <1>4. Answers(t)
    <2>1. \A u \in Tid : tgidCache'[u] = IF u = t THEN g ELSE tgidCache[u]
      BY <1>1, <1>2 DEF HandleExec, Resolves, Cached
    <2>2. ~Exiting(t)' /\ ~Gone(t)' /\ ~At(t, "event")' /\ ~At(t, "kernel")'
      BY <1>1 DEF Exiting, Gone, At
    <2>3. QED BY <1>1, <1>2, <1>3, <2>1, <2>2 DEF Answers
  <1>5. /\ \A u \in Tid : Tgid(u)' = Tgid(u) /\ (Exists(u)' <=> Exists(u))
        /\ \A u, x \in Tid : u # t /\ Awaits(u, x)' => Awaits(u, x) /\ phase'[u] = phase[u]
        /\ \A x \in Tid : EarlyAt(x)' <=> EarlyAt(x)
    BY <1>4, AnswersKeep
  <1>6. \A x \in Tid : ~Awaits(t, x)' BY <1>1, TidAssumption DEF Awaits, PL!NoTid
  <1>7. NamedInv'
    BY <1>1, <1>3 DEF Counted, NodesInv, NamedInv
  <1>8. LifeInv'
    BY <1>1, <1>3 DEF Counted, NodesInv, LifeInv, EarlyUnder, Lives, Open
  <1>9. PendInv'
    <2>1. \A u \in Tid : At(u, "kernel")' => u # t /\ At(u, "kernel") BY <1>1 DEF At
    <2>2. \A u, x \in Tid : Awaits(u, x)' => u # t /\ Awaits(u, x) BY <1>5, <1>6
    <2>3. QED BY <1>1, <1>3, <2>1, <2>2 DEF Counted, NodesInv, PendInv
  <1>10. ASSUME NEW u \in Tid, NEW x \in Tid PROVE MadeOf(u, x)'
    <2>1. \A v \in Tid : ForkedBy(v, x)' => ForkedBy(v, x) /\ (At(v, "exit")' => At(v, "exit"))
      BY <1>5, <1>6 DEF ForkedBy, At
    <2>2. MadeOf(u, x) BY DEF Counted, NodesInv, MadeInv
    <2>3. QED BY <1>3, <1>5, <2>1, <2>2 DEF MadeOf
  <1>11. QED BY <1>4, <1>7, <1>8, <1>9, <1>10, AnswersKeep DEF NodesInv, MadeInv

(* The announcement of a task.  A process made for one that is gone is     *)
(* under the task's own id, whose last exit came first.                    *)
LEMMA ForkKeepsNodes ==
  ASSUME Counted, UNCHANGED workload, ~mistaken', NEW t \in Tid, HandleFork(t) PROVE NodesInv'
  <1>. USE Places
  <1>1. /\ Exists(t) /\ ~Exiting(t) /\ ~At(t, "user") /\ At(t, "event")
        /\ UNCHANGED << task, leader, nextTask, attributed, early >>
    BY DEF HandleFork, Exiting, At
  <1>2. PICK g \in Tid : g = Tgid(t) /\ ResolveTgid(t) = g /\ active[g] # 0
    BY <1>1, ResolvesRight, Basics DEF HandleFork, Counted
  <1>3. PICK c \in Tid : c = phase[t].child
    BY <1>1, PhaseFields DEF Counted, Base, Told, At
  <1>4. PICK r \in Tid : r = ResolveTgid(c) BY TgidIsTask DEF Counted, Base
  <1>5. /\ Exists(c) => r = Tgid(c)
        /\ ~Exists(c) => r = c
    <2>1. Exists(c) => r = Tgid(c) BY <1>3, <1>4, ResolvesRight DEF HandleFork
    <2>2. ~Exists(c) => tgidCache[c] \in {PL!NoTid, c} BY DEF Counted, NodesInv, CacheInv
    <2>3. QED BY <1>4, <2>1, <2>2 DEF ResolveTgid
  <1>6. PL!TaskCreate(g, c, r) BY <1>2, <1>3, <1>4 DEF HandleFork
  <1>7. /\ phase'[t] = Returning(phase[t].call, c) /\ \A u \in Tid \ {t} : phase'[u] = phase[u]
    BY <1>3 DEF HandleFork, Counted, Base, Told
  <1>8. /\ pending' = pending /\ ended' = ended
        /\ \/ /\ r = g /\ node' = node /\ createdBy' = createdBy
              /\ nextInstance' = nextInstance /\ active' = active
           \/ /\ r # g /\ MakesNode(r)
              /\ \A h \in Tid \ {r} : active'[h] = active[h]
              /\ createdBy'[c] = active[g]
              /\ \A u \in Tid \ {c} : createdBy'[u] = createdBy[u]
    BY <1>2, <1>6, CreateRecords DEF Counted, Base, MakesNode
  <1>9. Answers(t)
    <2>1. \A u \in Tid : tgidCache'[u] = tgidCache[u] \/ (Exists(u) /\ tgidCache'[u] = Tgid(u))
      <3>1. \A u \in Tid : tgidCache'[u] = IF u \in {t, c} /\ Exists(u) THEN ResolveTgid(u)
                                                                    ELSE tgidCache[u]
        BY <1>3 DEF HandleFork, Resolves, Cached
      <3>2. QED BY <1>2, <1>4, <1>5, <3>1
    <2>2. ~Exiting(t)' /\ ~Gone(t)' /\ ~At(t, "event")' /\ ~At(t, "kernel")'
      BY <1>7 DEF Exiting, Gone, At
    <2>3. QED BY <1>1, <1>7, <1>8, <2>1, <2>2 DEF Answers
  <1>10. /\ \A u \in Tid : Tgid(u)' = Tgid(u) /\ (Exists(u)' <=> Exists(u))
         /\ \A u, x \in Tid : u # t /\ Awaits(u, x)' => Awaits(u, x) /\ phase'[u] = phase[u]
         /\ \A x \in Tid : EarlyAt(x)' <=> EarlyAt(x)
    BY <1>9, AnswersKeep
  <1>11. /\ Awaits(t, c)
         /\ \A x \in Tid : Awaits(t, x)' => x = c
         /\ phase'[t].call = phase[t].call /\ ~At(t, "exit")
    BY <1>1, <1>3, <1>7 DEF Awaits, At
  <1>12. NamedInv' /\ LifeInv'
    <2>1. AwaitOf(t, c) BY DEF Counted, NodesInv, AwaitInv
    <2>2. active[r] # 0 \/ EarlyUnder(r) \/ \E p \in Lives(r) : Open(p)
      <3>1. CASE Exists(c)
        <4>1. r = Tgid(c) /\ ProcessOf(c) \in Task /\ leader[ProcessOf(c)] = r
          BY <1>5, <3>1, Basics DEF Counted, NodesInv, LeadersInv
        <4>2. EarlyIn(c) \/ Open(ProcessOf(c)) BY <1>1, <1>3, <2>1, <3>1 DEF AwaitOf
        <4>3. EarlyIn(c) => EarlyUnder(r) BY <4>1 DEF EarlyIn, EarlyUnder
        <4>4. ProcessOf(c) \in Lives(r) BY <4>1 DEF Lives
        <4>5. QED BY <4>2, <4>3, <4>4
      <3>2. CASE ~Exists(c)
        <4>1. r = c /\ EarlyAt(c) BY <1>1, <1>3, <1>5, <2>1, <3>2 DEF AwaitOf
        <4>2. QED BY <4>1 DEF EarlyAt, EarlyUnder
      <3>3. QED BY <3>1, <3>2
    <2>3. MakesNode(r) \/ UNCHANGED << node, nextInstance >> BY <1>8
    <2>4. \A h \in Tid \ {r} : active'[h] # 0 => active[h] # 0 BY <1>8
    <2>5. QED BY <1>9, <2>2, <2>3, <2>4, AnswersName
  <1>13. PendInv'
    <2>1. \A u \in Tid : At(u, "kernel")' => u # t /\ At(u, "kernel") BY <1>7 DEF At
    <2>2. \A u, x \in Tid : Awaits(u, x)' => Awaits(u, x) /\ phase'[u].call = phase[u].call
      BY <1>10, <1>11
    <2>3. QED BY <1>7, <1>8, <2>1, <2>2 DEF Counted, NodesInv, PendInv
  <1>14. ASSUME NEW u \in Tid, NEW x \in Tid PROVE MadeOf(u, x)'
    <2>. SUFFICES ASSUME ForkedBy(u, x)', ~EarlyAt(x)'
                  PROVE  /\ Exists(x)' /\ Tgid(x)' = x /\ Tgid(u)' # x
                         /\ At(u, "exit")' => createdBy'[x] = active'[Tgid(u)']
                         /\ \A v \in Tid : ForkedBy(v, x)' => v = u
      BY DEF MadeOf
    <2>1. \A v \in Tid : ForkedBy(v, x)' => ForkedBy(v, x) BY <1>10, <1>11 DEF ForkedBy
    <2>2. MadeOf(u, x) /\ ~EarlyAt(x) BY <1>10 DEF Counted, NodesInv, MadeInv
    <2>3. /\ Exists(x) /\ Tgid(x) = x /\ Tgid(u) # x
          /\ At(u, "exit") => createdBy[x] = active[Tgid(u)]
          /\ \A v \in Tid : ForkedBy(v, x) => v = u
      BY <2>1, <2>2 DEF MadeOf
    <2>4. active'[Tgid(u)'] = active[Tgid(u)]
      <3>1. At(u, "event") \/ At(u, "exit") BY <2>1 DEF ForkedBy, Awaits, At
      <3>2. active[Tgid(u)] # 0 /\ Tgid(u) \in Tid BY <3>1, WaitersStand DEF Counted
      <3>3. Grows BY <1>2, <1>6, CreateGrows DEF Counted, Base
      <3>4. QED BY <1>10, <3>2, <3>3 DEF Grows
    <2>5. CASE u = t
      <3>1. x = c BY <1>11, <2>5 DEF ForkedBy
      <3>2. r # g BY <1>2, <1>5, <2>3, <2>5, <3>1
      <3>3. createdBy'[x] = active[Tgid(u)] BY <1>2, <1>8, <2>5, <3>1, <3>2
      <3>4. QED BY <1>10, <2>1, <2>3, <2>4, <3>3
    <2>6. CASE u # t
      <3>1. phase'[u] = phase[u] BY <1>7, <2>6
      <3>2. createdBy'[x] = createdBy[x]
        <4>. SUFFICES ASSUME x = c, r # g PROVE FALSE BY <1>8
        <4>1. phase[t].call # "fork" BY <1>11, <2>3, <2>6 DEF ForkedBy
        <4>2. phase[t].call # "clone_thread"
          <5>1. ThreadOf(t, c) BY DEF Counted, NodesInv, MadeInv
          <5>2. phase[t].call = "clone_thread" => Tgid(c) = Tgid(t)
            BY <1>1, <1>3, <2>2, <5>1 DEF ThreadOf
          <5>3. QED BY <1>2, <1>5, <2>3, <5>2
        <4>3. phase[t].call = "clone3" /\ "clone3" \in workload.calls
          BY <1>11, <4>1, <4>2 DEF Counted, NodesInv, PendInv, PL!ForkCalls
        <4>4. "fork" \in workload.calls
          <5>1. Awaits(u, x) /\ phase[u].call = "fork" BY <2>1 DEF ForkedBy
          <5>2. QED BY <5>1 DEF Counted, NodesInv, PendInv
        <4>5. QED BY <4>3, <4>4 DEF Counted, OneForkCall
      <3>3. At(u, "exit")' => At(u, "exit") BY <3>1 DEF At
      <3>4. QED BY <1>10, <2>1, <2>3, <2>4, <3>2, <3>3
    <2>7. QED BY <2>5, <2>6
  <1>15. QED BY <1>9, <1>12, <1>13, <1>14, AnswersKeep DEF NodesInv, MadeInv

-----------------------------------------------------------------------------
LEMMA InitNodesInv == Init => NodesInv
  <1>. SUFFICES ASSUME Init PROVE NodesInv OBVIOUS
  <1>. USE Places
  <1>1. \A t \in Tid : /\ At(t, "user") => t = Root
                       /\ ~At(t, "kernel") /\ ~At(t, "event") /\ ~At(t, "exit")
    BY WorkloadAssumption DEF Init, At
  <1>2. PendInv BY <1>1 DEF PendInv, Awaits, At
  <1>3. MadeInv BY <1>1 DEF MadeInv, MadeOf, ThreadOf, ForkedBy, Awaits, At
  <1>4. AwaitInv BY <1>1 DEF AwaitInv, AwaitOf
  <1>5. CacheInv BY DEF Init, CacheInv
  <1>6. LeadersInv
    <2>1. 1 \in Task BY BoundsAssumption DEF Task
    <2>2. \A t \in Tid : Exists(t) => ProcessOf(t) = 1 /\ Tgid(t) = Root
      BY DEF Init, Exists, ProcessOf, Tgid
    <2>3. QED BY <2>1, <2>2 DEF Init, LeadersInv, Task
  <1>7. NamedInv BY DEF Init, NamedInv, PL!Init
  <1>8. LifeInv BY DEF Init, LifeInv, PL!Init, PL!NoInstance
  <1>9. QED BY <1>2, <1>3, <1>4, <1>5, <1>6, <1>7, <1>8 DEF NodesInv

LEMMA NextKeepsNodes ==
  ASSUME Counted, Base', ~mistaken', [Next]_vars PROVE NodesInv'
  <1>1. CASE UNCHANGED vars
    BY <1>1 DEF Counted, NodesInv, vars, analyzer, kernel, tracer, history, PendInv, CacheInv, AwaitInv, AwaitOf,
       MadeInv, MadeOf, ThreadOf, ForkedBy, Awaits, LeadersInv, NamedInv, LifeInv, EarlyAt, EarlyIn,
       EarlyUnder, Open, Lives, Gone, Exiting, At, Exists, ProcessOf, Tgid, Group
  <1>2. CASE Next
    <2>1. UNCHANGED workload /\ Base BY <1>2 DEF Next, Counted
    <2>2. CASE KernelStep
      <3>1. PICK t \in Tid :
              \/ Execve(t) \/ ThreadExit(t) \/ GroupExit(t) \/ Killed(t) \/ Release(t)
              \/ \E child \in Tid : ForkProcess(t, child) \/ CloneThread(t, child)
        BY <2>2 DEF KernelStep
      <3>2. CASE Execve(t) BY <2>1, <3>2, ExecveStops, StopsKeepNodes
      <3>3. CASE ThreadExit(t)
        <4>1. At(t, "kernel") /\ Exiting(t) /\ Die({t}) BY <3>3, Places DEF ThreadExit, At, Exiting
        <4>2. QED BY <2>1, <4>1, DeathsStop, StopsKeepNodes
      <3>4. CASE GroupExit(t) \/ Killed(t)
        <4>1. PICK g : Die(Group(g)) BY <3>4 DEF GroupExit, Killed
        <4>2. Group(g) \in SUBSET Tid BY DEF Group
        <4>3. QED BY <2>1, <4>1, <4>2, DeathsStop, StopsKeepNodes
      <3>5. CASE Release(t)
        BY <2>1, <3>5, ReleaseFrees, FreesKeepNodes DEF Counted, NodesInv
      <3>6. ASSUME NEW child \in Tid, ForkProcess(t, child) \/ CloneThread(t, child) PROVE NodesInv'
        BY <2>1, <3>6, SpawnsTask, SpawnKeepsNodes
      <3>7. QED BY <3>1, <3>2, <3>3, <3>4, <3>5, <3>6
    <2>3. CASE TracerStep
      <3>1. ASSUME NEW t \in Tid, HandleDeath(t) PROVE NodesInv'
        <4>1. CASE Tgid(t) = t BY <2>1, <3>1, <4>1, ReportStops, StopsKeepNodes
        <4>2. CASE Tgid(t) # t BY <2>1, <3>1, <4>2, DeathFrees, FreesKeepNodes
        <4>3. QED BY <4>1, <4>2
      <3>2. QED BY <2>1, <2>3, <3>1, EntryKeepsNodes, ExitKeepsNodes, ForkKeepsNodes, ExecKeepsNodes
                DEF TracerStep
    <2>4. QED BY <1>2, <2>2, <2>3 DEF Next
  <1>3. QED BY <1>1, <1>2

Grouped == ThreadsEndAlone /\ ~mistaken => GInv
NodesFit == OneForkCall /\ ~mistaken => NodesInv

LEMMA StepKeepsNodes ==
  ASSUME Told, Analyzed, TypeOK, Grouped, Told', Analyzed', TypeOK', Grouped', NodesFit, [Next]_vars
  PROVE  NodesFit'
  <1>. SUFFICES ASSUME OneForkCall', ~mistaken' PROVE NodesInv' BY DEF NodesFit
  <1>1. TaskTyped /\ TaskTyped' BY DEF TypeOK, TaskTyped
  <1>2. UNCHANGED workload BY DEF Next, vars
  <1>3. OneForkCall BY <1>2 DEF OneForkCall, ThreadsEndAlone, Single
  <1>4. ~mistaken BY MistakesStay
  <1>5. GInv /\ GInv' BY <1>3, <1>4 DEF Grouped, OneForkCall
  <1>6. NodesInv BY <1>3, <1>4 DEF NodesFit
  <1>7. Counted BY <1>1, <1>3, <1>4, <1>5, <1>6 DEF Counted, Base, OneForkCall
  <1>8. Base' BY <1>1, <1>5 DEF Base, OneForkCall
  <1>9. QED BY <1>7, <1>8, NextKeepsNodes

(* In a program that makes its tasks with one call, what is active is of a *)
(* process still open or of an id whose exit came before its announcement. *)
THEOREM AlwaysCounted == Spec => []NodesFit
  <1>1. Init => NodesFit BY InitNodesInv DEF NodesFit
  <1>2. Spec => []Grouped BY AlwaysGrouped DEF Grouped
  <1>3. QED BY <1>1, <1>2, StepKeepsNodes, AlwaysTold, AnalyzerAgrees, AlwaysTyped, PTL DEF Spec

-----------------------------------------------------------------------------
LEMMA NodesAreFinite ==
  ASSUME NEW g
  PROVE  /\ IsFiniteSet(Nodes(g)) /\ Cardinality(Nodes(g)) \in Nat
         /\ IsFiniteSet(Lives(g)) /\ Cardinality(Lives(g)) \in Nat
  <1>1. IsFiniteSet(PL!Instance) BY BoundsAssumption, FS_Interval DEF PL!Instance
  <1>2. IsFiniteSet(Task) BY BoundsAssumption, FS_Interval DEF Task
  <1>3. Nodes(g) \in SUBSET PL!Instance /\ Lives(g) \in SUBSET Task BY DEF Nodes, Lives
  <1>4. IsFiniteSet(Nodes(g)) /\ IsFiniteSet(Lives(g)) BY <1>1, <1>2, <1>3, FS_Subset
  <1>5. QED BY <1>4, FS_CardinalityType

Closed(g) == {p \in Lives(g) : ~Open(p)}

(* Nodes that have ended are of different processes, which have ended.     *)
LEMMA EndedAreClosed ==
  ASSUME TaskTyped, KeysInv, NamedInv, NEW g \in Tid
  PROVE  /\ IsFiniteSet(Nodes(g) \cap ended) /\ Cardinality(Nodes(g) \cap ended) \in Nat
         /\ IsFiniteSet(Closed(g)) /\ Cardinality(Closed(g)) \in Nat
         /\ Cardinality(Nodes(g) \cap ended) <= Cardinality(Closed(g))
  <1>. DEFINE E == Nodes(g) \cap ended
  <1>. DEFINE f == [i \in E |-> CHOOSE p \in Closed(g) :
                                  \E a \in attributed : a.instance = i /\ a.process = p]
  <1>1. ASSUME NEW i \in E
        PROVE  /\ f[i] \in Closed(g)
               /\ \E a \in attributed : a.instance = i /\ a.process = f[i]
    <2>1. PICK a \in attributed : a.instance = i BY DEF NamedInv
    <2>2. a.process \in Task BY DEF TaskTyped
    <2>3. leader[a.process] = g BY <2>1 DEF NamedInv, Nodes
    <2>4. a.process \in Closed(g) BY <2>1, <2>2, <2>3 DEF Closed, Lives, Open
    <2>5. QED BY <2>1, <2>4
  <1>2. ASSUME NEW i \in E, NEW j \in E, f[i] = f[j] PROVE i = j
    <2>1. PICK a \in attributed : a.instance = i /\ a.process = f[i] BY <1>1
    <2>2. PICK b \in attributed : b.instance = j /\ b.process = f[j] BY <1>1
    <2>. HIDE DEF E, f
    <2>3. QED BY <1>2, <2>1, <2>2 DEF KeysInv
  <1>3. f \in [E -> Closed(g)]
    <2>1. f = [i \in E |-> f[i]] OBVIOUS
    <2>. HIDE DEF f
    <2>2. QED BY <1>1, <2>1
  <1>. HIDE DEF E, f
  <1>4. f \in Injection(E, Closed(g)) BY <1>2, <1>3 DEF Injection, IsInjective
  <1>5. IsFiniteSet(Closed(g))
    <2>1. Closed(g) \in SUBSET Lives(g) BY DEF Closed
    <2>2. QED BY <2>1, NodesAreFinite, FS_Subset
  <1>6. IsFiniteSet(E) /\ Cardinality(E) <= Cardinality(Closed(g)) BY <1>4, <1>5, FS_Injection
  <1>7. QED BY <1>5, <1>6, FS_CardinalityType DEF E

LEMMA CountLives ==
  ASSUME TaskTyped, Analyzed, KeysInv, NodesInv, NEW g \in Tid
  PROVE  Cardinality(Nodes(g)) <=
           Cardinality(Lives(g)) + (IF EarlyUnder(g) THEN 1 ELSE 0)
  <1>1. PICK E : E = Nodes(g) \cap ended OBVIOUS
  <1>2. PICK n \in Nat, c \in Nat, l \in Nat, m \in Nat :
          /\ n = Cardinality(Nodes(g)) /\ c = Cardinality(Closed(g))
          /\ l = Cardinality(Lives(g)) /\ m = Cardinality(E) /\ m <= c
    BY <1>1, NodesAreFinite, EndedAreClosed DEF NodesInv
  <1>3. c <= l
    <2>1. Closed(g) \in SUBSET Lives(g) BY DEF Closed
    <2>2. QED BY <1>2, <2>1, NodesAreFinite, FS_Subset
  <1>4. IsFiniteSet(E) BY <1>1, EndedAreClosed DEF NodesInv
  <1>5. Nodes(g) \in SUBSET (E \cup {active[g]}) BY <1>1 DEF Analyzed, NodesStand, Nodes
  <1>6. n <= m + 1
    <2>1. /\ IsFiniteSet(E \cup {active[g]})
          /\ Cardinality(E \cup {active[g]}) <= Cardinality(E) + 1
          /\ Cardinality(E \cup {active[g]}) \in Nat
      BY <1>2, <1>4, FS_AddElement, FS_CardinalityType
    <2>2. n <= Cardinality(E \cup {active[g]}) BY <1>2, <1>5, <2>1, FS_Subset
    <2>3. QED BY <1>2, <2>1, <2>2
  <1>7. CASE active[g] = 0
    <2>1. 0 \notin PL!Instance BY DEF PL!Instance
    <2>2. Nodes(g) \in SUBSET E BY <1>1, <1>5, <1>7, <2>1 DEF Nodes
    <2>3. n <= m BY <1>2, <1>4, <2>2, FS_Subset
    <2>4. QED BY <1>2, <1>3, <2>3
  <1>8. CASE active[g] # 0 /\ ~EarlyUnder(g)
    <2>1. PICK p \in Lives(g) : Open(p) BY <1>8 DEF NodesInv, LifeInv
    <2>2. c < l
      <3>1. Closed(g) \in SUBSET Lives(g) /\ Closed(g) # Lives(g) BY <2>1 DEF Closed
      <3>2. c # l BY <1>2, <3>1, NodesAreFinite, FS_Subset
      <3>3. QED BY <1>2, <1>3, <3>2
    <2>3. QED BY <1>2, <1>6, <2>2
  <1>9. CASE EarlyUnder(g) BY <1>2, <1>3, <1>6, <1>9
  <1>10. QED BY <1>7, <1>8, <1>9

(* A lifetime of a TGID has at most one process node, and one more is made *)
(* only under an id whose task's exit was handled before it was announced. *)
THEOREM OneNodePerProcess == Spec => [](OneForkCall => OneNodePerLifetime)
  <1>1. TypeOK /\ Analyzed /\ Grouped /\ NodesFit => (OneForkCall => OneNodePerLifetime)
    <2>. SUFFICES ASSUME TypeOK, Analyzed, Grouped, NodesFit, OneForkCall, ~mistaken, NEW g \in Tid
                  PROVE  Cardinality({i \in PL!Instance : node[i] = g}) <=
                           Cardinality({p \in Task : leader[p] = g})
                             + (IF \E e \in early : g \in {e.tid, leader[e.process]} THEN 1 ELSE 0)
      BY DEF OneNodePerLifetime
    <2>1. TaskTyped BY DEF TypeOK, TaskTyped
    <2>2. GInv BY DEF Grouped, OneForkCall
    <2>3. KeysInv /\ NodesInv BY <2>2 DEF GInv, NodesFit
    <2>4. QED BY <2>1, <2>3, CountLives DEF Nodes, Lives, EarlyUnder
  <1>2. Spec => []Grouped BY AlwaysGrouped DEF Grouped
  <1>3. QED BY <1>1, <1>2, AlwaysTyped, AnalyzerAgrees, AlwaysCounted, PTL

-----------------------------------------------------------------------------
(***************************************************************************)
(* The process image key stands for one executable image of one process,   *)
(* for any number of processes and execs, any reuse of task ids, and any   *)
(* order in which the tracer handles the stops, as long as every death is  *)
(* reported (DeathsAreReported).  Such a program makes its tasks with fork *)
(* alone, so what was said of the task groups and of their nodes holds of  *)
(* it; and none of its tasks is ever mistaken for another.                 *)
(*                                                                         *)
(* The argument follows each instance to the process it answers for.  An   *)
(* id that has an active instance is that of a task not exiting, whose the *)
(* instance is, or of none since its last process exited unannounced: that *)
(* process's late announcement made the instance, and the next process     *)
(* with the id takes it over (ActiveInv, OwnersInv).  An edge drawn to it  *)
(* was drawn for the first of the two, so its source forked that one       *)
(* (CausesInv).                                                            *)
(***************************************************************************)
AloneInv ==
  Single =>
    /\ ~mistaken
    /\ \A t \in Tid : tgidCache[t] \in {PL!NoTid, t} /\ (Exists(t) => Tgid(t) = t)

(* A task that a fork made is there until the fork has returned.  It does  *)
(* not exit before it is announced unless its exit is handled early, and   *)
(* the announcement leaves the mark that the fork's exit looks for.        *)
ChildrenInv ==
  \A t, c \in Tid : Awaits(t, c) =>
    /\ c # t /\ Exists(c) /\ parent[ProcessOf(c)] = ProcessOf(t)
    /\ At(t, "event") => ~Exiting(c) \/ EarlyIn(c)
    /\ At(t, "exit") => createdBy[c] = active[t]

(* The process that has an id is the last one started under it.            *)
LatestInv == \A t \in Tid : Exists(t) => \A p \in Lives(t) : p <= ProcessOf(t)

EarlyLast(t) == \E e \in early : e.tid = t /\ \A p \in Lives(t) : p <= e.process

(* An active id is that of a task not exiting, the instance's one thread,  *)
(* or the last process under it exited unannounced.                        *)
ActiveInv ==
  \A t \in Tid : active[t] # 0 =>
    (~Exiting(t) \/ EarlyLast(t)) /\ tids[active[t]] \subseteq {t}

(* The calls attributed to an instance are of one process, the one that    *)
(* has the id while the instance is active.                                *)
OwnersInv ==
  /\ \A a, b \in attributed : a.instance = b.instance => a.process = b.process
  /\ \A a \in attributed, t \in Tid :
       a.instance = active[t] => ~Exiting(t) /\ a.process = ProcessOf(t)

(* Process q forked p, or one before p that had its id and exited early.   *)
Kin(p, q) ==
  parent[p] = q \/ \E e \in early : e.tid = leader[p] /\ parent[e.process] = q /\ e.process < p

(* Process q forked whoever instance i answers for, or will answer for.    *)
CauseOf(i, q) ==
  /\ \A a \in attributed : a.instance = i => Kin(a.process, q)
  /\ \A t \in Tid : active[t] = i =>
       /\ Exiting(t) => \E e \in early : e.tid = t /\ parent[e.process] = q
       /\ ~Exiting(t) => Kin(ProcessOf(t), q)

CausesInv ==
  \A i \in PL!Instance : \A n \in DOMAIN causality[i] :
    i < nextInstance /\ \E b \in attributed : b.instance = causality[i][n] /\ CauseOf(i, b.process)

KInv == ChildrenInv /\ LatestInv /\ ActiveInv /\ OwnersInv /\ CausesInv

Reporting == Counted /\ DeathsAreReported /\ ~mistaken /\ KInv

-----------------------------------------------------------------------------
(* What a program is whose deaths are all reported.                        *)
LEMMA ForksAlone ==
  ASSUME DeathsAreReported PROVE Single /\ ThreadsEndAlone /\ OneForkCall /\ ~workload.signals
  BY DEF DeathsAreReported, Single, ThreadsEndAlone, OneForkCall

LEMMA TasksAlone ==
  ASSUME Reporting
  PROVE  /\ \A t \in Tid : Exists(t) => Tgid(t) = t /\ ProcessOf(t) \in Task /\ ProcessOf(t) < nextTask
         /\ \A t, u \in Tid : Exists(t) /\ Exists(u) /\ ProcessOf(t) = ProcessOf(u) => t = u
         /\ \A t \in Tid : ~Exiting(t) => Exists(t)
         /\ \A t \in Tid : At(t, "event") \/ At(t, "exit") => Exists(t) /\ active[t] # 0
         /\ \A t, u \in Tid : active[t] # 0 /\ active[u] = active[t] => u = t
         /\ nextTask \in Nat /\ nextInstance \in Nat
  <1>1. \A t \in Tid : Exists(t) => Tgid(t) = t
    BY ForksAlone DEF Reporting, Counted, Base, GInv, GroupsInv
  <1>2. Base BY DEF Reporting, Counted
  <1>3. ASSUME NEW t \in Tid, At(t, "event") \/ At(t, "exit") PROVE Exists(t) /\ active[t] # 0
    BY <1>1, <1>2, <1>3, WaitersStand
  <1>4. \A t \in Tid : Exists(t) => ProcessOf(t) \in Task /\ ProcessOf(t) < nextTask
    BY <1>2, Basics DEF Base, GInv, GroupsInv
  <1>5. \A t, u \in Tid : Exists(t) /\ Exists(u) /\ ProcessOf(t) = ProcessOf(u) => t = u
    BY <1>1, <1>2 DEF Base, GInv, GroupsInv
  <1>6. nextInstance \in Nat BY <1>2, BoundsAssumption DEF Base, Analyzed, PL!TypeOK
  <1>7. QED BY <1>1, <1>2, <1>3, <1>4, <1>5, <1>6, Basics

(* A child is awaited by one task.                                         *)
LEMMA OneAwaits ==
  ASSUME Reporting, NEW t \in Tid, NEW u \in Tid, NEW c \in Tid, Awaits(t, c), Awaits(u, c)
  PROVE  u = t
  <1>1. ProcessOf(t) = ProcessOf(u) BY DEF Reporting, KInv, ChildrenInv
  <1>2. Exists(t) /\ Exists(u) BY TasksAlone DEF Awaits, At
  <1>3. QED BY <1>1, <1>2, TasksAlone

-----------------------------------------------------------------------------
(* The steps after which every id answers for what it did before.          *)
Quiet ==
  /\ UNCHANGED << nextInstance, active, causality, attributed, early, parent, leader >>
  /\ \A u \in Tid : /\ Exiting(u)' <=> Exiting(u)
                    /\ ~Exiting(u) => Exists(u)'
                    /\ Exists(u)' => Exists(u) /\ ProcessOf(u)' = ProcessOf(u)
                    /\ active[u] # 0 => tids'[active[u]] \subseteq {u}
  /\ \A u, c \in Tid : Awaits(u, c)' =>
       /\ Awaits(u, c) /\ phase'[u] = phase[u] /\ Exists(c)' /\ Exists(u)'
       /\ createdBy'[c] = createdBy[c]

LEMMA QuietKeeps ==
  ASSUME Reporting, Quiet PROVE KInv'
  <1>1. /\ active' = active /\ causality' = causality /\ attributed' = attributed
        /\ early' = early /\ parent' = parent /\ leader' = leader /\ nextInstance' = nextInstance
    BY DEF Quiet
  <1>2. ASSUME NEW t \in Tid, NEW c \in Tid, Awaits(t, c)'
        PROVE  /\ c # t /\ Exists(c)' /\ parent'[ProcessOf(c)'] = ProcessOf(t)'
               /\ At(t, "event")' => ~Exiting(c)' \/ EarlyIn(c)'
               /\ At(t, "exit")' => createdBy'[c] = active'[t]
    <2>1. /\ Awaits(t, c) /\ phase'[t] = phase[t] /\ Exists(c)' /\ createdBy'[c] = createdBy[c]
          /\ ProcessOf(c)' = ProcessOf(c) /\ ProcessOf(t)' = ProcessOf(t)
      BY <1>2 DEF Quiet
    <2>2. /\ c # t /\ parent[ProcessOf(c)] = ProcessOf(t)
          /\ At(t, "event") => ~Exiting(c) \/ EarlyIn(c)
          /\ At(t, "exit") => createdBy[c] = active[t]
      BY <2>1 DEF Reporting, KInv, ChildrenInv
    <2>3. EarlyIn(c)' <=> EarlyIn(c) BY <1>1, <2>1 DEF EarlyIn
    <2>4. Exiting(c)' <=> Exiting(c) BY DEF Quiet
    <2>5. QED BY <1>1, <2>1, <2>2, <2>3, <2>4 DEF At
  <1>3. ChildrenInv' BY <1>2 DEF ChildrenInv
  <1>4. LatestInv' BY <1>1 DEF Reporting, KInv, LatestInv, Lives, Quiet
  <1>5. \A t \in Tid : EarlyLast(t)' <=> EarlyLast(t) BY <1>1 DEF EarlyLast, Lives
  <1>6. ActiveInv' BY <1>1, <1>5 DEF Reporting, KInv, ActiveInv, Quiet
  <1>7. \A t \in Tid : ~Exiting(t)' => ProcessOf(t)' = ProcessOf(t) /\ ~Exiting(t) BY DEF Quiet
  <1>8. OwnersInv'
    BY <1>1, <1>7 DEF Reporting, KInv, OwnersInv, Quiet
  <1>9. ASSUME NEW i, NEW q, CauseOf(i, q) PROVE CauseOf(i, q)'
    <2>1. \A p : Kin(p, q)' <=> Kin(p, q) BY <1>1 DEF Kin
    <2>2. \A t \in Tid : Exiting(t)' <=> Exiting(t) BY DEF Quiet
    <2>3. QED BY <1>1, <1>7, <1>9, <2>1, <2>2 DEF CauseOf
  <1>10. CausesInv' BY <1>1, <1>9 DEF Reporting, KInv, CausesInv
  <1>11. QED BY <1>3, <1>4, <1>6, <1>8, <1>10 DEF KInv

LEMMA ExecveQuiet ==
  ASSUME Reporting, NEW t \in Tid, Execve(t), UNCHANGED workload PROVE Quiet
  <1>. USE Places
  <1>1. At(t, "kernel") /\ phase[t].call = "execve" BY DEF Execve, At
  <1>2. Exists(t) /\ ~Exiting(t) BY <1>1, TasksAlone DEF At, Exiting
  <1>3. Tgid(t) = t /\ \A u \in Tid : u \in Group(t) => u = t
    BY <1>2, TasksAlone DEF Group, Tgid
  <1>4. /\ \A u \in Tid : task'[u] = task[u]
        /\ phase'[t] = Execed /\ \A u \in Tid \ {t} : phase'[u] = phase[u]
        /\ UNCHANGED << analyzer, attributed, early, leader, parent >>
    BY <1>3 DEF Execve, KernelOnly, tracer, history, Tgid
  <1>5. \A u \in Tid : (Exiting(u)' <=> Exiting(u)) /\ (Exists(u)' <=> Exists(u))
                       /\ ProcessOf(u)' = ProcessOf(u)
    BY <1>2, <1>4 DEF Exiting, At, Exists, ProcessOf
  <1>6. \A u, c \in Tid : Awaits(u, c)' => u # t /\ Awaits(u, c) BY <1>4 DEF Awaits
  <1>7. \A u, c \in Tid : Awaits(u, c) => Exists(u) /\ Exists(c)
    BY TasksAlone DEF Awaits, At, Reporting, KInv, ChildrenInv
  <1>8. QED
    BY <1>4, <1>5, <1>6, <1>7, TasksAlone DEF Quiet, analyzer, Reporting, KInv, ActiveInv

(* A task that has entered exit or exit_group dies, alone.                 *)
LEMMA ExitQuiet ==
  ASSUME Reporting, NEW t \in Tid, ThreadExit(t) \/ GroupExit(t), UNCHANGED workload PROVE Quiet
  <1>. USE Places
  <1>1. At(t, "kernel") /\ Exiting(t) BY DEF ThreadExit, GroupExit, At, Exiting
  <1>2. Exists(t) BY <1>1, Basics DEF At, Reporting, Counted
  <1>3. Tgid(t) = t /\ \A u \in Tid : u \in Group(t) => u = t
    BY <1>2, TasksAlone DEF Group, Tgid
  <1>4. /\ task' = task
        /\ phase'[t] = Dead /\ \A u \in Tid \ {t} : phase'[u] = phase[u]
        /\ UNCHANGED << analyzer, attributed, early, leader, parent >>
    <2>1. t \in Group(t) BY <1>2, <1>3 DEF Group, Tgid
    <2>2. QED
      BY <1>3, <2>1
         DEF ThreadExit, GroupExit, Die, KernelOnly, tracer, history, Tgid, Reporting, Counted, Base, Told
  <1>5. \A u \in Tid : (Exiting(u)' <=> Exiting(u)) /\ (Exists(u)' <=> Exists(u))
                       /\ ProcessOf(u)' = ProcessOf(u)
    BY <1>1, <1>4 DEF Exiting, At, Exists, ProcessOf
  <1>6. \A u, c \in Tid : Awaits(u, c)' => u # t /\ Awaits(u, c) BY <1>4 DEF Awaits
  <1>7. \A u, c \in Tid : Awaits(u, c) => Exists(u) /\ Exists(c)
    BY TasksAlone DEF Awaits, At, Reporting, KInv, ChildrenInv
  <1>8. QED
    BY <1>4, <1>5, <1>6, <1>7, TasksAlone DEF Quiet, analyzer, Reporting, KInv, ActiveInv

LEMMA DeathQuiet ==
  ASSUME Reporting, NEW t \in Tid, HandleDeath(t), UNCHANGED workload PROVE Quiet
  <1>. USE Places
  <1>1. Exists(t) /\ phase[t] = Dead /\ IsLeader(t)
    BY TasksAlone DEF HandleDeath, IsLeader, Tgid
  <1>2. /\ task' = task
        /\ phase'[t] = Reported /\ \A u \in Tid \ {t} : phase'[u] = phase[u]
        /\ UNCHANGED << analyzer, attributed, early, leader, parent >>
    BY <1>1 DEF HandleDeath, history, Reporting, Counted, Base, Told
  <1>3. \A u \in Tid : (Exiting(u)' <=> Exiting(u)) /\ (Exists(u)' <=> Exists(u))
                       /\ ProcessOf(u)' = ProcessOf(u)
    BY <1>1, <1>2 DEF Exiting, At, Exists, ProcessOf
  <1>4. \A u, c \in Tid : Awaits(u, c)' => u # t /\ Awaits(u, c) BY <1>2 DEF Awaits
  <1>5. \A u, c \in Tid : Awaits(u, c) => Exists(u) /\ Exists(c)
    BY TasksAlone DEF Awaits, At, Reporting, KInv, ChildrenInv
  <1>6. QED
    BY <1>2, <1>3, <1>4, <1>5, TasksAlone DEF Quiet, analyzer, Reporting, KInv, ActiveInv

(* An id is not given up while the fork that made its task has to return.  *)
LEMMA ReleaseQuiet ==
  ASSUME Reporting, NEW t \in Tid, Release(t), UNCHANGED workload PROVE Quiet
  <1>. USE Places
  <1>1. Exiting(t) /\ \A u \in Tid : ~Awaits(u, t) BY DEF Release, Awaits, Exiting, At
  <1>2. /\ ~Exists(t)' /\ phase'[t] = Dead
        /\ \A u \in Tid \ {t} : task'[u] = task[u] /\ phase'[u] = phase[u]
        /\ UNCHANGED << analyzer, attributed, early, leader, parent >>
    BY DEF Release, KernelOnly, tracer, history, Reporting, Counted, Base, Told, Exists
  <1>3. \A u \in Tid : /\ Exiting(u)' <=> Exiting(u)
                       /\ u # t => (Exists(u)' <=> Exists(u)) /\ ProcessOf(u)' = ProcessOf(u)
    BY <1>1, <1>2 DEF Exiting, At, Exists, ProcessOf
  <1>4. \A u, c \in Tid : Awaits(u, c)' => u # t /\ c # t /\ Awaits(u, c)
    BY <1>1, <1>2 DEF Awaits
  <1>5. \A u, c \in Tid : Awaits(u, c) => Exists(u) /\ Exists(c)
    BY TasksAlone DEF Awaits, At, Reporting, KInv, ChildrenInv
  <1>6. QED
    BY <1>1, <1>2, <1>3, <1>4, <1>5, TasksAlone DEF Quiet, analyzer, Reporting, KInv, ActiveInv

-----------------------------------------------------------------------------
LEMMA ResolvesToItself ==
  ASSUME Reporting, NEW t \in Tid, Exists(t) PROVE ResolveTgid(t) = t
  BY TasksAlone DEF Reporting, Counted, NodesInv, CacheInv, ResolveTgid, Tgid

LEMMA RunsActive ==
  ASSUME Reporting, NEW t \in Tid, ~Exiting(t), ~At(t, "user")
  PROVE  /\ Exists(t) /\ Tgid(t) = t /\ active[t] # 0 /\ active[t] \in PL!Instance
         /\ tids[active[t]] \subseteq {t}
  <1>1. Base BY DEF Reporting, Counted
  <1>2. Exists(t) /\ Tgid(t) = t /\ active[t] # 0 BY <1>1, TasksAlone, Basics
  <1>3. active[t] \in PL!Instance BY <1>1, <1>2 DEF Base, Analyzed, PL!TypeOK, PL!NoInstance
  <1>4. QED BY <1>2, <1>3 DEF Reporting, KInv, ActiveInv

LEMMA ExecQuiet ==
  ASSUME Reporting, NEW t \in Tid, HandleExec(t), UNCHANGED workload PROVE Quiet
  <1>. USE Places
  <1>1. At(t, "exec") /\ ~Exiting(t) /\ ~At(t, "user") /\ Exists(t)
    BY DEF HandleExec, At, Exiting
  <1>2. active[t] # 0 /\ active[t] \in PL!Instance BY <1>1, RunsActive
  <1>3. PL!Exec(t, t) BY <1>1, ResolvesToItself DEF HandleExec
  <1>4. /\ tids' = [tids EXCEPT ![active[t]] = {t}]
        /\ UNCHANGED << nextInstance, active, createdBy, causality >>
    BY <1>2, <1>3 DEF PL!Exec, PL!IsActive, PL!NoInstance
  <1>5. /\ task' = task
        /\ phase'[t] = Returning("execve", PL!NoTid)
        /\ \A u \in Tid \ {t} : phase'[u] = phase[u]
        /\ UNCHANGED << attributed, early, leader, parent >>
    BY DEF HandleExec, history, Reporting, Counted, Base, Told
  <1>6. \A u \in Tid : active[u] # 0 => tids'[active[u]] \subseteq {u}
    <2>1. \A u \in Tid : active[u] # 0 => active[u] \in PL!Instance /\ tids[active[u]] \subseteq {u}
      BY DEF Reporting, KInv, ActiveInv, Counted, Base, Analyzed, PL!TypeOK, PL!NoInstance
    <2>2. \A u \in Tid : active[u] # 0 /\ active[u] = active[t] => u = t BY TasksAlone
    <2>3. tids'[active[t]] = {t} /\ \A i \in PL!Instance : i # active[t] => tids'[i] = tids[i]
      BY <1>2, <1>4 DEF Reporting, Counted, Base, Analyzed, PL!TypeOK
    <2>4. QED BY <2>1, <2>2, <2>3
  <1>7. \A u \in Tid : (Exiting(u)' <=> Exiting(u)) /\ (Exists(u)' <=> Exists(u))
                       /\ ProcessOf(u)' = ProcessOf(u)
    BY <1>1, <1>5 DEF Exiting, At, Exists, ProcessOf
  <1>8. \A u, c \in Tid : Awaits(u, c)' => u # t /\ Awaits(u, c)
    BY <1>5, TidAssumption DEF Awaits, PL!NoTid
  <1>9. \A u, c \in Tid : Awaits(u, c) => Exists(u) /\ Exists(c)
    BY TasksAlone DEF Awaits, At, Reporting, KInv, ChildrenInv
  <1>10. QED BY <1>4, <1>5, <1>6, <1>7, <1>8, <1>9, TasksAlone DEF Quiet

(* An exit event adds its task to the process's live set, and drops the    *)
(* child's record.                                                         *)
LEMMA ExitAdds ==
  ASSUME Analyzed, NEW t \in Tid, NEW g \in Tid, NEW call, NEW child,
         PL!Exit(t, g, call, child), active[g] # 0,
         child \in Tid => pending[t].call # "clone_thread" /\ createdBy[child] = active[g]
  PROVE  /\ UNCHANGED << nextInstance, active, causality >>
         /\ tids' = [tids EXCEPT ![active[g]] = @ \cup {t}]
         /\ \/ createdBy' = createdBy
            \/ child \in Tid /\ \A c \in Tid \ {child} : createdBy'[c] = createdBy[c]
  <1>1. /\ PL!NextAfter(g) = nextInstance /\ PL!InstanceFor(g) = active[g]
        /\ [active EXCEPT ![g] = PL!InstanceFor(g)] = active
    BY DEF PL!NextAfter, PL!InstanceFor, PL!IsActive, PL!NoInstance, Analyzed, PL!TypeOK
  <1>2. child \in Tid => PL!AlreadyCreated(g, child) BY <1>1 DEF PL!AlreadyCreated
  <1>3. CASE PL!ExitOrdinary(t, g, call, child)
    BY <1>1, <1>3 DEF PL!ExitOrdinary, PL!EnsureProcess
  <1>4. CASE PL!ForkExitMatched(t, g, call, child)
    BY <1>1, <1>4 DEF PL!ForkExitMatched, PL!ForkExit, PL!EnsureProcess, Analyzed, PL!TypeOK
  <1>5. ~PL!ForkExitThread(t, g, call, child) BY DEF PL!ForkExitThread, PL!ForkExit
  <1>6. ~PL!ForkExitDeferred(t, g, call, child) /\ ~PL!ForkExitCreate(t, g, call, child)
    BY <1>2 DEF PL!ForkExitDeferred, PL!ForkExitCreate, PL!ForkExit
  <1>7. QED BY <1>3, <1>4, <1>5, <1>6 DEF PL!Exit

LEMMA ReturnQuiet ==
  ASSUME Reporting, NEW t \in Tid, HandleExit(t), UNCHANGED workload PROVE Quiet
  <1>. USE Places
  <1>1. Exists(t) /\ ~Exiting(t) /\ ~At(t, "user") BY DEF HandleExit, MayReturn, Exiting, At
  <1>2. active[t] # 0 /\ active[t] \in PL!Instance /\ tids[active[t]] \subseteq {t}
    BY <1>1, RunsActive
  <1>3. PICK c : c = Made(t) OBVIOUS
  <1>4. PICK call : PL!Exit(t, t, call, c) BY <1>1, <1>3, ResolvesToItself DEF HandleExit
  <1>5. c \in Tid => Awaits(t, c) /\ At(t, "exit")
    BY <1>3, TidAssumption DEF Made, Awaits, At, PL!NoTid
  <1>6. ASSUME c \in Tid PROVE pending[t].call # "clone_thread" /\ createdBy[c] = active[t]
    <2>1. createdBy[c] = active[t] BY <1>5, <1>6 DEF Reporting, KInv, ChildrenInv
    <2>2. pending[t].call \in workload.calls
      BY <1>5, <1>6 DEF Reporting, Counted, NodesInv, PendInv
    <2>3. QED BY <2>1, <2>2 DEF Reporting, DeathsAreReported
  <1>7. /\ UNCHANGED << nextInstance, active, causality >>
        /\ tids' = [tids EXCEPT ![active[t]] = @ \cup {t}]
        /\ \/ createdBy' = createdBy
           \/ c \in Tid /\ \A x \in Tid \ {c} : createdBy'[x] = createdBy[x]
    BY <1>2, <1>4, <1>6, ExitAdds DEF Reporting, Counted, Base
  <1>8. /\ task' = task
        /\ phase'[t] = User /\ \A u \in Tid \ {t} : phase'[u] = phase[u]
        /\ UNCHANGED << attributed, early, leader, parent >>
    BY DEF HandleExit, Reporting, Counted, Base, Told
  <1>9. \A u \in Tid : active[u] # 0 => tids'[active[u]] \subseteq {u}
    <2>1. \A u \in Tid : active[u] # 0 => active[u] \in PL!Instance /\ tids[active[u]] \subseteq {u}
      BY DEF Reporting, KInv, ActiveInv, Counted, Base, Analyzed, PL!TypeOK, PL!NoInstance
    <2>2. \A u \in Tid : active[u] # 0 /\ active[u] = active[t] => u = t BY TasksAlone
    <2>3. /\ tids'[active[t]] = tids[active[t]] \cup {t}
          /\ \A i \in PL!Instance : i # active[t] => tids'[i] = tids[i]
      BY <1>2, <1>7 DEF Reporting, Counted, Base, Analyzed, PL!TypeOK
    <2>4. QED BY <2>1, <2>2, <2>3
  <1>10. \A u \in Tid : (Exiting(u)' <=> Exiting(u)) /\ (Exists(u)' <=> Exists(u))
                        /\ ProcessOf(u)' = ProcessOf(u)
    BY <1>1, <1>8 DEF Exiting, At, Exists, ProcessOf
  <1>11. \A u, x \in Tid : Awaits(u, x)' => u # t /\ Awaits(u, x) BY <1>8 DEF Awaits
  <1>12. \A u, x \in Tid : Awaits(u, x)' => createdBy'[x] = createdBy[x]
    BY <1>5, <1>7, <1>11, OneAwaits
  <1>13. \A u, x \in Tid : Awaits(u, x) => Exists(u) /\ Exists(x)
    BY TasksAlone DEF Awaits, At, Reporting, KInv, ChildrenInv
  <1>14. QED BY <1>7, <1>8, <1>9, <1>10, <1>11, <1>12, <1>13, TasksAlone DEF Quiet

-----------------------------------------------------------------------------
(* A step that names no process anew leaves kinship as it was.             *)
LEMMA KinStays ==
  ASSUME early \subseteq early', NEW n,
         \A p \in Task : p < n => parent'[p] = parent[p] /\ leader'[p] = leader[p],
         \A e \in early : e.process \in Task /\ e.process < n,
         NEW p \in Task, p < n, NEW q, Kin(p, q)
  PROVE  Kin(p, q)'
  BY DEF Kin

(* A forked task has an id whose last process, if any, is before its own:  *)
(* an instance left under the id is its from now on.                       *)
LEMMA ForkKeepsKin ==
  ASSUME Reporting, NEW t \in Tid, NEW child \in Tid, ForkProcess(t, child), UNCHANGED workload
  PROVE  KInv'
  <1>. USE Places
  <1>1. /\ At(t, "kernel") /\ Exists(t) /\ ~Exiting(t) /\ ~Exists(child) /\ Exiting(child) /\ child # t
    <2>1. At(t, "kernel") /\ phase[t].call \in {"fork", "clone3"} /\ ~Exists(child)
      BY DEF ForkProcess, Spawn, At, Free
    <2>2. ~Exiting(t) /\ Exists(t) BY <2>1, TasksAlone DEF At, Exiting
    <2>3. QED BY <2>1, <2>2, TasksAlone
  <1>2. PICK n \in Task : n = nextTask
    BY BoundsAssumption, WorkloadAssumption
       DEF ForkProcess, Spawn, Reporting, Counted, Base, TaskTyped, Task, Told
  <1>3. /\ phase'[t].at = "event" /\ phase'[t].child = child /\ phase'[child] = User
        /\ \A u \in Tid \ {t, child} : phase'[u] = phase[u]
        /\ task'[child] = [id |-> n, process |-> n, tgid |-> child]
        /\ \A u \in Tid \ {child} : task'[u] = task[u]
        /\ parent' = [parent EXCEPT ![n] = ProcessOf(t)]
        /\ leader' = [leader EXCEPT ![n] = child]
        /\ UNCHANGED << analyzer, attributed, early >>
    BY <1>1, <1>2 DEF ForkProcess, Spawn, KernelOnly, tracer, history, Reporting, Counted, Base, Told,
       ProcessOf
  <1>4. /\ active' = active /\ tids' = tids /\ createdBy' = createdBy /\ causality' = causality
        /\ nextInstance' = nextInstance /\ attributed' = attributed /\ early' = early
        /\ parent'[n] = ProcessOf(t) /\ leader'[n] = child
        /\ \A p \in Task : p < n => parent'[p] = parent[p] /\ leader'[p] = leader[p]
        /\ \A p \in Task : p > n => leader'[p] = PL!NoTid
    <2>1. \A p \in Task : p >= n => leader[p] = PL!NoTid
      BY <1>2 DEF Reporting, Counted, NodesInv, LeadersInv
    <2>2. n \in Nat BY <1>2 DEF Task
    <2>3. QED BY <1>2, <1>3, <2>1, <2>2 DEF analyzer, Reporting, Counted, Base, TaskTyped, Task
  <1>5. /\ Exists(child)' /\ ProcessOf(child)' = n /\ ~Exiting(child)' /\ ~Exiting(t)'
        /\ \A u \in Tid \ {child} : /\ (Exists(u)' <=> Exists(u)) /\ ProcessOf(u)' = ProcessOf(u)
                                    /\ (Exiting(u)' <=> Exiting(u))
    BY <1>1, <1>3, TidAssumption DEF Exists, NoTask, PL!NoTid, ProcessOf, Exiting, At
  <1>6. \A u \in Tid : Exists(u) => ProcessOf(u) \in Task /\ ProcessOf(u) < n
    BY <1>2, TasksAlone
  <1>7. /\ \A a \in attributed : a.process \in Task /\ a.process < n
        /\ \A e \in early : e.process \in Task /\ e.process < n
    BY <1>2 DEF Reporting, Counted, Base, GInv, MetInv, TaskTyped, NodesInv, LeadersInv
  <1>8. ChildrenInv'
    <2>. SUFFICES ASSUME NEW u \in Tid, NEW c \in Tid, Awaits(u, c)'
                  PROVE  /\ c # u /\ Exists(c)' /\ parent'[ProcessOf(c)'] = ProcessOf(u)'
                         /\ At(u, "event")' => ~Exiting(c)' \/ EarlyIn(c)'
                         /\ At(u, "exit")' => createdBy'[c] = active'[u]
      BY DEF ChildrenInv
    <2>1. CASE u = t
      <3>1. c = child BY <1>3, <2>1 DEF Awaits
      <3>2. QED BY <1>1, <1>3, <1>4, <1>5, <2>1, <3>1 DEF At
    <2>2. CASE u # t
      <3>1. u # child /\ Awaits(u, c) /\ phase'[u] = phase[u] BY <1>3, <2>2 DEF Awaits
      <3>2. /\ c # u /\ Exists(c) /\ Exists(u) /\ parent[ProcessOf(c)] = ProcessOf(u)
            /\ At(u, "event") => ~Exiting(c) \/ EarlyIn(c)
            /\ At(u, "exit") => createdBy[c] = active[u]
        BY <3>1, TasksAlone DEF Reporting, KInv, ChildrenInv, Awaits, At
      <3>3. c # child BY <1>1, <3>2
      <3>4. parent'[ProcessOf(c)'] = parent[ProcessOf(c)]
        BY <1>4, <1>5, <1>6, <3>2, <3>3
      <3>5. EarlyIn(c)' <=> EarlyIn(c) BY <1>4, <1>5, <3>3 DEF EarlyIn
      <3>6. QED BY <1>4, <1>5, <3>1, <3>2, <3>3, <3>4, <3>5 DEF At
    <2>3. QED BY <2>1, <2>2
  <1>9. LatestInv'
    <2>1. n \in Nat /\ \A p \in Task : p \in Nat BY <1>2 DEF Task
    <2>2. \A p \in Lives(child)' : p <= n BY <1>4, <2>1, TidAssumption DEF Lives, PL!NoTid
    <2>3. \A u \in Tid \ {child} : \A p \in Lives(u)' : p \in Lives(u)
      BY <1>4, <2>1, TidAssumption DEF Lives, PL!NoTid
    <2>4. QED BY <1>5, <2>2, <2>3 DEF Reporting, KInv, LatestInv
  <1>10. ActiveInv'
    <2>1. \A u \in Tid \ {child} : EarlyLast(u) => EarlyLast(u)'
      <3>1. n \in Nat /\ \A p \in Task : p \in Nat BY <1>2 DEF Task
      <3>2. \A u \in Tid \ {child} : \A p \in Lives(u)' : p \in Lives(u)
        BY <1>4, <3>1, TidAssumption DEF Lives, PL!NoTid
      <3>3. QED BY <1>4, <3>2 DEF EarlyLast
    <2>2. QED BY <1>4, <1>5, <2>1 DEF Reporting, KInv, ActiveInv
  <1>11. OwnersInv'
    BY <1>1, <1>4, <1>5 DEF Reporting, KInv, OwnersInv
  <1>12. CausesInv'
    <2>1. ASSUME NEW i, NEW q, CauseOf(i, q) PROVE CauseOf(i, q)'
      <3>1. \A a \in attributed' : a.instance = i => Kin(a.process, q)'
        BY <1>4, <1>7, <2>1, KinStays DEF CauseOf
      <3>2. ASSUME NEW u \in Tid, active'[u] = i, u # child
            PROVE  /\ Exiting(u)' => \E e \in early' : e.tid = u /\ parent'[e.process] = q
                   /\ ~Exiting(u)' => Kin(ProcessOf(u), q)'
        <4>1. Exiting(u)' => \E e \in early' : e.tid = u /\ parent'[e.process] = q
          BY <1>4, <1>5, <1>7, <2>1, <3>2 DEF CauseOf
        <4>2. ASSUME ~Exiting(u)' PROVE Kin(ProcessOf(u), q)'
          <5>1. Exists(u) /\ ~Exiting(u) BY <1>5, <3>2, <4>2, TasksAlone
          <5>2. PICK p \in Task : p = ProcessOf(u) /\ p < n BY <1>6, <5>1
          <5>3. Kin(p, q) BY <1>4, <2>1, <3>2, <5>1, <5>2 DEF CauseOf
          <5>4. Kin(p, q)' BY <1>4, <1>7, <5>2, <5>3, KinStays
          <5>5. ProcessOf(u)' = p BY <1>5, <3>2, <5>2
          <5>6. QED BY <5>4, <5>5 DEF Kin
        <4>3. QED BY <4>1, <4>2
      <3>3. ASSUME active'[child] = i PROVE Kin(ProcessOf(child), q)'
        <4>1. PICK e \in early : e.tid = child /\ parent[e.process] = q
          BY <1>1, <1>4, <2>1, <3>3 DEF CauseOf
        <4>2. e \in early' /\ parent'[e.process] = q /\ e.process < n BY <1>4, <1>7, <4>1
        <4>3. QED BY <1>4, <1>5, <4>1, <4>2 DEF Kin
      <3>4. QED BY <1>5, <3>1, <3>2, <3>3 DEF CauseOf
    <2>2. QED BY <1>4, <2>1 DEF Reporting, KInv, CausesInv
  <1>13. QED BY <1>8, <1>9, <1>10, <1>11, <1>12 DEF KInv

-----------------------------------------------------------------------------
(* An instance that is handed out is new: no call is attributed to it, it  *)
(* has no threads, and no id was active with it.                           *)
LEMMA InstancesApart ==
  ASSUME Reporting, NEW t \in Tid, NEW i \in PL!Instance, i = PL!InstanceFor(t)
  PROVE  /\ i # 0 /\ i < PL!NextAfter(t) /\ nextInstance <= PL!NextAfter(t)
         /\ active[t] # 0 => i = active[t] /\ i < nextInstance
         /\ i < nextInstance => active[t] = i
         /\ \A u \in Tid \ {t} : active[u] # i
         /\ tids[i] \subseteq {t}
         /\ \A a \in attributed : a.instance # 0 /\ a.instance < nextInstance
  <1>1. i # 0 /\ nextInstance \in Nat BY TasksAlone DEF PL!Instance
  <1>2. \A u \in Tid : active[u] # 0 => active[u] < nextInstance
    BY DEF Reporting, Counted, Base, Analyzed, PL!MapsAgree, PL!IsAllocated, PL!IsActive, PL!NoInstance
  <1>3. \A a \in attributed : a.instance # 0 /\ a.instance < nextInstance
    BY DEF Reporting, Counted, Base, TaskTyped, NodesInv, NamedInv, PL!Instance
  <1>4. CASE active[t] # 0
    <2>1. i = active[t] /\ PL!NextAfter(t) = nextInstance
      BY <1>4 DEF PL!InstanceFor, PL!NextAfter, PL!IsActive, PL!NoInstance
    <2>2. tids[i] \subseteq {t} BY <1>4, <2>1 DEF Reporting, KInv, ActiveInv
    <2>3. \A u \in Tid \ {t} : active[u] # i BY <1>4, <2>1, TasksAlone
    <2>4. QED BY <1>1, <1>2, <1>3, <1>4, <2>1, <2>2, <2>3
  <1>5. CASE active[t] = 0
    <2>1. i = nextInstance /\ PL!NextAfter(t) = nextInstance + 1
      BY <1>5 DEF PL!InstanceFor, PL!NextAfter, PL!IsActive, PL!NoInstance
    <2>2. tids[i] = {}
      <3>1. tids[i] # {} => node[i] \in Tid /\ active[node[i]] = i
        BY DEF Reporting, Counted, Base, Analyzed, PL!MapsAgree
      <3>2. QED BY <1>1, <1>2, <2>1, <3>1
    <2>3. \A u \in Tid \ {t} : active[u] # i BY <1>1, <1>2, <2>1
    <2>4. QED BY <1>1, <1>2, <1>3, <1>5, <2>1, <2>2, <2>3
  <1>6. QED BY <1>4, <1>5

(* An exit of a process's one thread ends it.                              *)
LEMMA EntryEnds ==
  ASSUME Analyzed, NEW t \in Tid, NEW g \in Tid, NEW call, PL!Entry(t, g, call),
         tids[PL!InstanceFor(g)] \subseteq {t}, call \in {"exit", "exit_group"}
  PROVE  active'[g] = 0
  <1>1. ~PL!EntryOrdinary(t, g, call) BY DEF PL!EntryOrdinary
  <1>2. tids[PL!InstanceFor(g)] \ {t} = {} OBVIOUS
  <1>3. CASE PL!EntryThreadExit(t, g)
    BY <1>2, <1>3 DEF PL!EntryThreadExit, PL!NoInstance, Analyzed, PL!TypeOK
  <1>4. CASE PL!EntryGroupExit(t, g)
    BY <1>4 DEF PL!EntryGroupExit, PL!NoInstance, Analyzed, PL!TypeOK
  <1>5. QED BY <1>1, <1>3, <1>4 DEF PL!Entry

(* A call is attributed to the instance of its process, or to a new one.   *)
LEMMA EntryKeepsKin ==
  ASSUME Reporting, UNCHANGED workload, NEW t \in Tid, NEW call, HandleEntry(t, call)
  PROVE  KInv'
  <1>. USE Places
  <1>1. /\ Exists(t) /\ At(t, "user") /\ ~Exiting(t)
        /\ phase'[t] = InKernel(call) /\ \A u \in Tid \ {t} : phase'[u] = phase[u]
        /\ task' = task /\ leader' = leader /\ parent' = parent
    BY DEF HandleEntry, Exiting, At, Reporting, Counted, Base, Told
  <1>2. PL!Entry(t, t, call) BY <1>1, ResolvesToItself DEF HandleEntry
  <1>3. PICK i \in PL!Instance :
          /\ i = PL!InstanceFor(t) /\ pending'[t].instance = i
          /\ active'[t] \in {0, i} /\ \A x \in Tid \ {t} : active'[x] = active[x]
          /\ \A j \in PL!Instance \ {i} : tids'[j] = tids[j]
          /\ call \notin {"exit", "exit_group"} => tids'[i] = tids[i] \cup {t}
    BY <1>2, EntryDoes DEF Reporting, Counted, Base
  <1>4. /\ createdBy' = createdBy /\ causality' = causality /\ nextInstance' = PL!NextAfter(t)
    <2>1. PL!RecordEntry(t, t, call)
      BY <1>2 DEF PL!Entry, PL!EntryOrdinary, PL!EntryThreadExit, PL!EntryGroupExit
    <2>2. QED BY <2>1 DEF PL!RecordEntry
  <1>5. /\ i # 0 /\ nextInstance <= PL!NextAfter(t)
        /\ active[t] # 0 => i = active[t]
        /\ i < nextInstance => active[t] = i
        /\ \A u \in Tid \ {t} : active[u] # i
        /\ tids[i] \subseteq {t}
        /\ \A a \in attributed : a.instance # 0 /\ a.instance < nextInstance
    BY <1>3, InstancesApart
  <1>6. call \in {"exit", "exit_group"} => active'[t] = 0
    BY <1>2, <1>3, <1>5, EntryEnds DEF Reporting, Counted, Base
  <1>7. PICK a0 : a0.instance = i /\ a0.process = ProcessOf(t) /\ attributed' = attributed \cup {a0}
    <2>. DEFINE b == [instance |-> pending'[t].instance, generation |-> pending'[t].generation,
                      process |-> task[t].process, image |-> image[task[t].process]]
    <2>1. attributed' = attributed \cup {b} BY DEF HandleEntry
    <2>2. b.process = ProcessOf(t) /\ b.instance = i BY <1>3 DEF ProcessOf
    <2>. HIDE DEF b
    <2>3. QED BY <2>1, <2>2
  <1>8. /\ early \subseteq early'
        /\ (\E u \in Tid : At(u, "event") /\ phase[u].child = t) /\ call \in {"exit", "exit_group"}
             => \E e \in early' : e.tid = t /\ e.process = ProcessOf(t)
    <2>. DEFINE b == [tid |-> t, process |-> task[t].process, id |-> task[t].id]
    <2>1. early' = IF call \in {"exit", "exit_group"} /\ ~Announced(t) THEN early \cup {b} ELSE early
      BY DEF HandleEntry
    <2>2. b.tid = t /\ b.process = ProcessOf(t) BY DEF ProcessOf
    <2>3. (\E u \in Tid : At(u, "event") /\ phase[u].child = t) => ~Announced(t)
      BY DEF Announced, At
    <2>. HIDE DEF b
    <2>4. QED BY <2>1, <2>2, <2>3
  <1>9. /\ \A u \in Tid : (Exists(u)' <=> Exists(u)) /\ ProcessOf(u)' = ProcessOf(u)
        /\ \A u \in Tid \ {t} : Exiting(u)' <=> Exiting(u)
        /\ Exiting(t)' <=> call \in {"exit", "exit_group"}
        /\ \A u, c \in Tid : Awaits(u, c)' => u # t /\ Awaits(u, c)
    BY <1>1 DEF Exists, ProcessOf, Exiting, At, Awaits
  <1>10. ChildrenInv'
    <2>. SUFFICES ASSUME NEW u \in Tid, NEW c \in Tid, Awaits(u, c)'
                  PROVE  /\ c # u /\ Exists(c)' /\ parent'[ProcessOf(c)'] = ProcessOf(u)'
                         /\ At(u, "event")' => ~Exiting(c)' \/ EarlyIn(c)'
                         /\ At(u, "exit")' => createdBy'[c] = active'[u]
      BY DEF ChildrenInv
    <2>1. u # t /\ Awaits(u, c) /\ phase'[u] = phase[u] BY <1>1, <1>9
    <2>2. /\ c # u /\ Exists(c) /\ parent[ProcessOf(c)] = ProcessOf(u)
          /\ At(u, "event") => ~Exiting(c) \/ EarlyIn(c)
          /\ At(u, "exit") => createdBy[c] = active[u]
      BY <2>1 DEF Reporting, KInv, ChildrenInv
    <2>3. EarlyIn(c) => EarlyIn(c)' BY <1>8, <1>9 DEF EarlyIn
    <2>4. At(u, "event") /\ Exiting(c)' => EarlyIn(c)'
      <3>1. CASE c = t BY <1>8, <1>9, <2>1, <3>1 DEF EarlyIn, Awaits
      <3>2. CASE c # t BY <1>9, <2>2, <2>3, <3>2
      <3>3. QED BY <3>1, <3>2
    <2>5. QED BY <1>1, <1>3, <1>4, <1>9, <2>1, <2>2, <2>4 DEF At
  <1>11. LatestInv' BY <1>1, <1>9 DEF Reporting, KInv, LatestInv, Lives
  <1>12. ActiveInv'
    <2>1. \A u \in Tid : EarlyLast(u) => EarlyLast(u)' BY <1>1, <1>8 DEF EarlyLast, Lives
    <2>2. ASSUME NEW u \in Tid \ {t}, active'[u] # 0
          PROVE  (~Exiting(u)' \/ EarlyLast(u)') /\ tids'[active'[u]] \subseteq {u}
      <3>1. active'[u] = active[u] /\ active[u] # i BY <1>3, <1>5, <2>2
      <3>2. tids'[active[u]] = tids[active[u]]
        BY <1>3, <2>2, <3>1 DEF Reporting, Counted, Base, Analyzed, PL!TypeOK, PL!NoInstance
      <3>3. QED BY <1>9, <2>1, <2>2, <3>1, <3>2 DEF Reporting, KInv, ActiveInv
    <2>3. ASSUME active'[t] # 0 PROVE ~Exiting(t)' /\ tids'[active'[t]] \subseteq {t}
      BY <1>3, <1>5, <1>6, <1>9, <2>3
    <2>4. QED BY <2>2, <2>3 DEF ActiveInv
  <1>13. OwnersInv'
    <2>1. \A a \in attributed' : a.instance = i => a.process = ProcessOf(t)
      BY <1>5, <1>7 DEF Reporting, KInv, OwnersInv
    <2>2. \A a, b \in attributed' : a.instance = b.instance => a.process = b.process
      BY <1>7, <2>1 DEF Reporting, KInv, OwnersInv
    <2>3. \A a \in attributed', u \in Tid : a.instance = active'[u] =>
            ~Exiting(u)' /\ a.process = ProcessOf(u)
      <3>. SUFFICES ASSUME NEW a \in attributed', NEW u \in Tid, a.instance = active'[u]
                    PROVE  ~Exiting(u)' /\ a.process = ProcessOf(u)
        OBVIOUS
      <3>1. a.instance # 0 BY <1>5, <1>7
      <3>2. CASE u = t BY <1>3, <1>6, <1>9, <2>1, <3>1, <3>2
      <3>3. CASE u # t
        <4>1. active[u] = a.instance /\ a \in attributed BY <1>3, <1>5, <1>7, <3>3
        <4>2. QED BY <1>9, <3>3, <4>1 DEF Reporting, KInv, OwnersInv
      <3>4. QED BY <3>2, <3>3
    <2>4. QED BY <1>9, <2>2, <2>3 DEF OwnersInv
  <1>14. CausesInv'
    <2>1. ASSUME NEW j \in PL!Instance, j < nextInstance, NEW q, CauseOf(j, q) PROVE CauseOf(j, q)'
      <3>1. \A p : Kin(p, q) => Kin(p, q)' BY <1>1, <1>8 DEF Kin
      <3>2. j # 0 /\ (active[t] = j => Kin(ProcessOf(t), q))
        BY <1>1, <2>1, BoundsAssumption DEF CauseOf, PL!Instance
      <3>3. ASSUME NEW a \in attributed', a.instance = j PROVE Kin(a.process, q)'
        <4>1. Kin(a.process, q) BY <1>5, <1>7, <2>1, <3>2, <3>3 DEF CauseOf
        <4>2. QED BY <3>1, <4>1
      <3>4. ASSUME NEW u \in Tid, active'[u] = j
            PROVE  /\ Exiting(u)' => \E e \in early' : e.tid = u /\ parent'[e.process] = q
                   /\ ~Exiting(u)' => Kin(ProcessOf(u), q)'
        <4>1. CASE u = t BY <1>3, <1>5, <1>6, <1>9, <2>1, <3>1, <3>2, <3>4, <4>1
        <4>2. CASE u # t
          <5>1. active[u] = j BY <1>3, <3>4, <4>2
          <5>2. QED BY <1>1, <1>8, <1>9, <2>1, <3>1, <4>2, <5>1 DEF CauseOf
        <4>3. QED BY <4>1, <4>2
      <3>5. QED BY <3>3, <3>4 DEF CauseOf
    <2>2. ASSUME NEW j \in PL!Instance, NEW n \in DOMAIN causality[j]
          PROVE  /\ j < nextInstance'
                 /\ \E b \in attributed' : b.instance = causality[j][n] /\ CauseOf(j, b.process)'
      <3>1. PICK b \in attributed : b.instance = causality[j][n] /\ CauseOf(j, b.process)
        BY DEF Reporting, KInv, CausesInv
      <3>2. j < nextInstance BY DEF Reporting, KInv, CausesInv
      <3>3. CauseOf(j, b.process)' BY <2>1, <3>1, <3>2
      <3>4. j < nextInstance'
        <4>1. nextInstance \in Nat /\ j \in Nat BY TasksAlone DEF PL!Instance
        <4>2. nextInstance' \in {nextInstance, nextInstance + 1} BY <1>4 DEF PL!NextAfter
        <4>3. QED BY <3>2, <4>1, <4>2
      <3>5. QED BY <1>7, <3>1, <3>3, <3>4
    <2>3. QED BY <1>4, <2>2 DEF CausesInv
  <1>15. QED BY <1>10, <1>11, <1>12, <1>13, <1>14 DEF KInv

-----------------------------------------------------------------------------
(* The announcement makes the child's instance, or finds the one its calls *)
(* have made, and may draw the edge from its creator's.                    *)
LEMMA CreateLinks ==
  ASSUME Analyzed, NEW g \in Tid, NEW c \in Tid, c # g, PL!TaskCreate(g, c, c), active[g] # 0
  PROVE  \E i \in PL!Instance :
           /\ i = PL!InstanceFor(c) /\ nextInstance' = PL!NextAfter(c)
           /\ active'[c] = i /\ \A u \in Tid \ {c} : active'[u] = active[u]
           /\ tids'[i] = tids[i] \cup {c} /\ \A j \in PL!Instance \ {i} : tids'[j] = tids[j]
           /\ createdBy'[c] = active[g] /\ \A u \in Tid \ {c} : createdBy'[u] = createdBy[u]
           /\ \A j \in PL!Instance, n \in Nat :
                n \in DOMAIN causality'[j] =>
                  \/ n \in DOMAIN causality[j] /\ causality'[j][n] = causality[j][n]
                  \/ j = i /\ causality'[j][n] = active[g]
  <1>. DEFINE i == PL!InstanceFor(c)
  <1>1. /\ PL!EnsureProcess(c, c) /\ PL!InheritOnce(active[g], i)
        /\ createdBy' = [createdBy EXCEPT ![c] = active[g]]
    BY DEF PL!TaskCreate, PL!TaskCreateOrphan, PL!TaskCreateProcess, PL!IsActive, PL!NoInstance
  <1>2. i \in PL!Instance BY <1>1 DEF PL!EnsureProcess, PL!CanCreate
  <1>3. /\ nextInstance' = PL!NextAfter(c)
        /\ active'[c] = i /\ \A u \in Tid \ {c} : active'[u] = active[u]
        /\ tids'[i] = tids[i] \cup {c} /\ \A j \in PL!Instance \ {i} : tids'[j] = tids[j]
        /\ createdBy'[c] = active[g] /\ \A u \in Tid \ {c} : createdBy'[u] = createdBy[u]
    BY <1>1, <1>2 DEF PL!EnsureProcess, Analyzed, PL!TypeOK
  <1>4. ASSUME NEW j \in PL!Instance, NEW n \in Nat, n \in DOMAIN causality'[j]
        PROVE  \/ n \in DOMAIN causality[j] /\ causality'[j][n] = causality[j][n]
               \/ j = i /\ causality'[j][n] = active[g]
    <2>1. CASE causality' = causality BY <1>4, <2>1
    <2>2. CASE causality' = [causality EXCEPT ![i] = Append(@, active[g])]
      <3>1. PICK s \in Seq(PL!Instance) : s = causality[j] BY DEF Analyzed, PL!TypeOK
      <3>2. CASE j # i BY <1>4, <2>2, <3>2 DEF Analyzed, PL!TypeOK
      <3>3. CASE j = i
        <4>1. causality'[j] = Append(s, active[g]) BY <1>2, <2>2, <3>1, <3>3 DEF Analyzed, PL!TypeOK
        <4>. HIDE DEF i
        <4>2. n \in 1 .. Len(s) + 1 BY <1>4, <3>1, <4>1
        <4>3. CASE n = Len(s) + 1 BY <3>1, <3>3, <4>1, <4>3
        <4>4. CASE n \in 1 .. Len(s)
          <5>1. Append(s, active[g])[n] = s[n] BY <3>1, <4>4
          <5>2. n \in DOMAIN s BY <3>1, <4>4
          <5>3. QED BY <3>1, <4>1, <5>1, <5>2
        <4>5. Len(s) \in Nat BY <3>1
        <4>6. QED BY <4>2, <4>3, <4>4, <4>5
      <3>4. QED BY <3>2, <3>3
    <2>3. QED BY <1>1, <2>1, <2>2 DEF PL!InheritOnce
  <1>. HIDE DEF i
  <1>5. QED BY <1>2, <1>3, <1>4 DEF i

LEMMA AnnounceKeepsKin ==
  ASSUME Reporting, Analyzed', UNCHANGED workload, NEW t \in Tid, HandleFork(t) PROVE KInv'
  <1>. USE Places
  <1>1. /\ Exists(t) /\ ~Exiting(t) /\ At(t, "event") /\ active[t] # 0
        /\ task' = task /\ leader' = leader /\ parent' = parent
        /\ attributed' = attributed /\ early' = early
    BY TasksAlone DEF HandleFork, Exiting, At
  <1>2. PICK c \in Tid : c = phase[t].child
    BY <1>1, PhaseFields DEF Reporting, Counted, Base, Told, At
  <1>3. Awaits(t, c) BY <1>1, <1>2 DEF Awaits, At
  <1>4. /\ c # t /\ Exists(c) /\ parent[ProcessOf(c)] = ProcessOf(t)
        /\ ~Exiting(c) \/ EarlyIn(c)
    BY <1>1, <1>3 DEF Reporting, KInv, ChildrenInv
  <1>5. PL!TaskCreate(t, c, c) BY <1>1, <1>2, <1>4, ResolvesToItself DEF HandleFork
  <1>6. PICK i \in PL!Instance :
          /\ i = PL!InstanceFor(c) /\ nextInstance' = PL!NextAfter(c)
          /\ active'[c] = i /\ \A u \in Tid \ {c} : active'[u] = active[u]
          /\ tids'[i] = tids[i] \cup {c} /\ \A j \in PL!Instance \ {i} : tids'[j] = tids[j]
          /\ createdBy'[c] = active[t] /\ \A u \in Tid \ {c} : createdBy'[u] = createdBy[u]
          /\ \A j \in PL!Instance, n \in Nat :
               n \in DOMAIN causality'[j] =>
                 \/ n \in DOMAIN causality[j] /\ causality'[j][n] = causality[j][n]
                 \/ j = i /\ causality'[j][n] = active[t]
    BY <1>1, <1>4, <1>5, CreateLinks DEF Reporting, Counted, Base
  <1>7. /\ i # 0 /\ i < PL!NextAfter(c) /\ nextInstance <= PL!NextAfter(c)
        /\ active[c] # 0 => i = active[c]
        /\ i < nextInstance => active[c] = i
        /\ \A u \in Tid \ {c} : active[u] # i
        /\ tids[i] \subseteq {c}
        /\ \A a \in attributed : a.instance # 0 /\ a.instance < nextInstance
    BY <1>6, InstancesApart
  <1>8. /\ phase'[t] = Returning(phase[t].call, c) /\ \A u \in Tid \ {t} : phase'[u] = phase[u]
    BY <1>2 DEF HandleFork, Reporting, Counted, Base, Told
  <1>9. /\ \A u \in Tid : /\ Exists(u)' <=> Exists(u)
                          /\ ProcessOf(u)' = ProcessOf(u)
                          /\ Exiting(u)' <=> Exiting(u)
        /\ \A u, x \in Tid : Awaits(u, x)' => Awaits(u, x) /\ (u = t <=> x = c)
    <2>1. \A u, x \in Tid : Awaits(u, x)' => Awaits(u, x) /\ (u = t => x = c)
      BY <1>2, <1>3, <1>8 DEF Awaits
    <2>2. \A u \in Tid : Awaits(u, c) => u = t BY <1>3, OneAwaits
    <2>3. \A u \in Tid : Exiting(u)' <=> Exiting(u) BY <1>1, <1>8 DEF Exiting, At
    <2>4. QED BY <1>1, <2>1, <2>2, <2>3 DEF Exists, ProcessOf
  <1>10. ChildrenInv'
    <2>. SUFFICES ASSUME NEW u \in Tid, NEW x \in Tid, Awaits(u, x)'
                  PROVE  /\ x # u /\ Exists(x)' /\ parent'[ProcessOf(x)'] = ProcessOf(u)'
                         /\ At(u, "event")' => ~Exiting(x)' \/ EarlyIn(x)'
                         /\ At(u, "exit")' => createdBy'[x] = active'[u]
      BY DEF ChildrenInv
    <2>1. Awaits(u, x) /\ (u = t <=> x = c) BY <1>9
    <2>2. /\ x # u /\ Exists(x) /\ parent[ProcessOf(x)] = ProcessOf(u)
          /\ At(u, "event") => ~Exiting(x) \/ EarlyIn(x)
          /\ At(u, "exit") => createdBy[x] = active[u]
      BY <2>1 DEF Reporting, KInv, ChildrenInv
    <2>3. EarlyIn(x)' <=> EarlyIn(x) BY <1>1, <1>9 DEF EarlyIn
    <2>4. active'[u] = active[u]
      <3>1. active[u] # 0 BY <2>1, TasksAlone DEF Awaits, At
      <3>2. QED BY <1>6, <1>7, <3>1
    <2>5. CASE u = t BY <1>1, <1>6, <1>8, <1>9, <2>1, <2>2, <2>4, <2>5 DEF At
    <2>6. CASE u # t BY <1>1, <1>6, <1>8, <1>9, <2>1, <2>2, <2>3, <2>4, <2>6 DEF At
    <2>7. QED BY <2>5, <2>6
  <1>11. LatestInv' BY <1>1, <1>9 DEF Reporting, KInv, LatestInv, Lives
  <1>12. ActiveInv'
    <2>1. \A u \in Tid : EarlyLast(u)' <=> EarlyLast(u) BY <1>1 DEF EarlyLast, Lives
    <2>2. EarlyIn(c) => EarlyLast(c)
      BY <1>4 DEF EarlyIn, EarlyLast, Reporting, KInv, LatestInv
    <2>3. ASSUME NEW u \in Tid \ {c}, active'[u] # 0
          PROVE  (~Exiting(u)' \/ EarlyLast(u)') /\ tids'[active'[u]] \subseteq {u}
      <3>1. active'[u] = active[u] /\ active[u] # i BY <1>6, <1>7, <2>3
      <3>2. tids'[active[u]] = tids[active[u]]
        BY <1>6, <2>3, <3>1 DEF Reporting, Counted, Base, Analyzed, PL!TypeOK, PL!NoInstance
      <3>3. QED BY <1>9, <2>1, <2>3, <3>1, <3>2 DEF Reporting, KInv, ActiveInv
    <2>4. tids'[active'[c]] \subseteq {c} BY <1>6, <1>7
    <2>5. QED BY <1>4, <1>9, <2>1, <2>2, <2>3, <2>4 DEF ActiveInv
  <1>13. OwnersInv'
    <2>1. ASSUME NEW a \in attributed, NEW u \in Tid, a.instance = active'[u]
          PROVE  ~Exiting(u) /\ a.process = ProcessOf(u)
      <3>1. active[u] = a.instance BY <1>6, <1>7, <2>1
      <3>2. QED BY <3>1 DEF Reporting, KInv, OwnersInv
    <2>2. QED BY <1>1, <1>9, <2>1 DEF Reporting, KInv, OwnersInv
  <1>14. CausesInv'
    <2>1. \A p, q : Kin(p, q)' <=> Kin(p, q) BY <1>1 DEF Kin
    <2>2. ASSUME NEW j \in PL!Instance, j < nextInstance, NEW q, CauseOf(j, q) PROVE CauseOf(j, q)'
      <3>1. \A u \in Tid : active'[u] = j => active[u] = j BY <1>6, <1>7, <2>2
      <3>2. QED BY <1>1, <1>9, <2>1, <2>2, <3>1 DEF CauseOf
    <2>3. PICK q : q = ProcessOf(t) OBVIOUS
    <2>4. PICK b \in attributed : b.instance = active[t] /\ b.process = q
      <3>1. Met(ProcessOf(t)) /\ Tgid(t) = t
        BY <1>1, WaitersStand, TasksAlone DEF Reporting, Counted
      <3>2. PICK b \in attributed : b.process = q BY <2>3, <3>1 DEF Met
      <3>3. LinkOf(b, t) BY DEF Reporting, Counted, Base, GInv, KeysInv
      <3>4. QED BY <1>1, <2>3, <3>1, <3>2, <3>3 DEF LinkOf
    <2>5. CauseOf(i, q)'
      <3>1. ASSUME NEW a \in attributed, a.instance = i PROVE Kin(a.process, q)
        <4>1. active[c] = i BY <1>7, <3>1
        <4>2. a.process = ProcessOf(c) BY <3>1, <4>1 DEF Reporting, KInv, OwnersInv
        <4>3. QED BY <1>4, <2>3, <4>2 DEF Kin
      <3>2. ASSUME NEW u \in Tid, active'[u] = i
            PROVE  /\ Exiting(u) => \E e \in early : e.tid = u /\ parent[e.process] = q
                   /\ ~Exiting(u) => Kin(ProcessOf(u), q)
        <4>1. u = c BY <1>6, <1>7, <3>2
        <4>2. QED BY <1>4, <2>3, <4>1 DEF Kin, EarlyIn
      <3>3. QED BY <1>1, <1>9, <2>1, <3>1, <3>2 DEF CauseOf
    <2>6. nextInstance \in Nat /\ nextInstance' \in Nat
      BY <1>6, TasksAlone DEF PL!NextAfter
    <2>7. ASSUME NEW j \in PL!Instance, NEW n \in DOMAIN causality'[j]
          PROVE  /\ j < nextInstance'
                 /\ \E d \in attributed' : d.instance = causality'[j][n] /\ CauseOf(j, d.process)'
      <3>1. n \in Nat
        <4>1. causality'[j] \in Seq(PL!Instance) BY DEF Analyzed, PL!TypeOK
        <4>2. QED BY <4>1
      <3>2. CASE n \in DOMAIN causality[j] /\ causality'[j][n] = causality[j][n]
        <4>1. PICK d \in attributed : d.instance = causality[j][n] /\ CauseOf(j, d.process)
          BY <3>2 DEF Reporting, KInv, CausesInv
        <4>2. j < nextInstance BY <3>2 DEF Reporting, KInv, CausesInv
        <4>3. CauseOf(j, d.process)' BY <2>2, <4>1, <4>2
        <4>4. j < nextInstance' BY <1>6, <1>7, <2>6, <4>2 DEF PL!Instance
        <4>5. QED BY <1>1, <3>2, <4>1, <4>3, <4>4
      <3>3. CASE j = i /\ causality'[j][n] = active[t]
        BY <1>1, <1>6, <1>7, <2>4, <2>5, <3>3
      <3>4. QED BY <1>6, <3>1, <3>2, <3>3
    <2>8. QED BY <2>7 DEF CausesInv
  <1>15. QED BY <1>10, <1>11, <1>12, <1>13, <1>14 DEF KInv

-----------------------------------------------------------------------------
LEMMA NextKeepsKin ==
  ASSUME Reporting, Analyzed', [Next]_vars PROVE KInv'
  <1>. USE Places
  <1>1. CASE UNCHANGED vars
    <2>1. Quiet
      <3>1. /\ UNCHANGED << nextInstance, active, causality, attributed, early, parent, leader >>
            /\ task' = task /\ phase' = phase /\ tids' = tids /\ createdBy' = createdBy
        BY <1>1 DEF vars, analyzer, kernel, history
      <3>2. \A u, c \in Tid : Awaits(u, c) => Exists(u) /\ Exists(c)
        BY TasksAlone DEF Awaits, At, Reporting, KInv, ChildrenInv
      <3>3. QED BY <3>1, <3>2, TasksAlone DEF Quiet, Exiting, At, Exists, ProcessOf, Awaits,
                   Reporting, KInv, ActiveInv
    <2>2. QED BY <2>1, QuietKeeps
  <1>2. CASE Next
    <2>1. UNCHANGED workload BY <1>2 DEF Next
    <2>2. CASE KernelStep
      <3>1. PICK t \in Tid :
              \/ Execve(t) \/ ThreadExit(t) \/ GroupExit(t) \/ Killed(t) \/ Release(t)
              \/ \E child \in Tid : ForkProcess(t, child) \/ CloneThread(t, child)
        BY <2>2 DEF KernelStep
      <3>2. ~Killed(t) BY ForksAlone DEF Killed, Reporting
      <3>3. ASSUME NEW child \in Tid, CloneThread(t, child) PROVE FALSE
        <4>1. At(t, "kernel") /\ phase[t].call \in {"clone_thread", "clone3"}
          BY <3>3 DEF CloneThread, At
        <4>2. phase[t].call \in workload.calls
          BY <4>1 DEF Reporting, Counted, Base, GInv, GroupsInv
        <4>3. QED BY <4>1, <4>2 DEF Reporting, DeathsAreReported
      <3>4. CASE Execve(t) BY <2>1, <3>4, ExecveQuiet, QuietKeeps
      <3>5. CASE ThreadExit(t) \/ GroupExit(t) BY <2>1, <3>5, ExitQuiet, QuietKeeps
      <3>6. CASE Release(t) BY <2>1, <3>6, ReleaseQuiet, QuietKeeps
      <3>7. ASSUME NEW child \in Tid, ForkProcess(t, child) PROVE KInv'
        BY <2>1, <3>7, ForkKeepsKin
      <3>8. QED BY <3>1, <3>2, <3>3, <3>4, <3>5, <3>6, <3>7
    <2>3. CASE TracerStep
      <3>1. PICK t \in Tid :
              \/ \E call \in workload.calls : HandleEntry(t, call)
              \/ HandleExit(t) \/ HandleFork(t) \/ HandleExec(t) \/ HandleDeath(t)
        BY <2>3 DEF TracerStep
      <3>2. ASSUME NEW call, HandleEntry(t, call) PROVE KInv' BY <2>1, <3>2, EntryKeepsKin
      <3>3. CASE HandleExit(t) BY <2>1, <3>3, ReturnQuiet, QuietKeeps
      <3>4. CASE HandleFork(t) BY <2>1, <3>4, AnnounceKeepsKin
      <3>5. CASE HandleExec(t) BY <2>1, <3>5, ExecQuiet, QuietKeeps
      <3>6. CASE HandleDeath(t) BY <2>1, <3>6, DeathQuiet, QuietKeeps
      <3>7. QED BY <3>1, <3>2, <3>3, <3>4, <3>5, <3>6
    <2>4. QED BY <1>2, <2>2, <2>3 DEF Next
  <1>3. QED BY <1>1, <1>2

LEMMA InitKInv == Init => KInv
  <1>. SUFFICES ASSUME Init PROVE KInv OBVIOUS
  <1>. USE Places
  <1>1. attributed = {} /\ \A t \in Tid : active[t] = 0 BY DEF Init, PL!Init, PL!NoInstance
  <1>2. \A t \in Tid : ~At(t, "event") /\ ~At(t, "exit") BY WorkloadAssumption DEF Init, At
  <1>3. ChildrenInv BY <1>2 DEF ChildrenInv, Awaits, At
  <1>4. LatestInv
    <2>1. \A t \in Tid : Exists(t) => t = Root /\ ProcessOf(t) = 1
      BY DEF Init, Exists, ProcessOf
    <2>2. \A p \in Lives(Root) : p = 1
      BY WorkloadAssumption, TidAssumption DEF Init, Lives, PL!NoTid
    <2>3. QED BY <2>1, <2>2 DEF LatestInv
  <1>5. ActiveInv BY <1>1 DEF ActiveInv
  <1>6. OwnersInv BY <1>1 DEF OwnersInv
  <1>7. CausesInv BY DEF Init, PL!Init, CausesInv
  <1>8. QED BY <1>3, <1>4, <1>5, <1>6, <1>7 DEF KInv

-----------------------------------------------------------------------------
(* A program without threads never has a task taken for another.           *)
LEMMA ResolvesAlone ==
  ASSUME Told, Single, AloneInv, NEW S \in SUBSET Tid, Resolves(S)
  PROVE  ~mistaken' /\ \A t \in Tid : tgidCache'[t] \in {PL!NoTid, t}
  <1>1. \A t \in Tid : Exists(t) => ResolveTgid(t) = t /\ task[t].tgid = t
    BY DEF AloneInv, ResolveTgid, Tgid
  <1>2. ~mistaken' BY <1>1 DEF Resolves, AloneInv
  <1>3. \A t \in Tid : tgidCache'[t] \in {PL!NoTid, t}
    BY <1>1 DEF Resolves, Cached, AloneInv
  <1>4. QED BY <1>2, <1>3

LEMMA StepsAlone ==
  ASSUME Told, Grouped, AloneInv, [Next]_vars PROVE AloneInv'
  <1>. USE Places
  <1>. SUFFICES ASSUME Single'
                PROVE  /\ ~mistaken'
                       /\ \A t \in Tid : /\ tgidCache'[t] \in {PL!NoTid, t}
                                         /\ Exists(t)' => Tgid(t)' = t
    BY DEF AloneInv
  <1>1. UNCHANGED workload /\ Single BY DEF Next, vars, Single
  <1>2. /\ ~mistaken
        /\ \A t \in Tid : tgidCache[t] \in {PL!NoTid, t} /\ (Exists(t) => Tgid(t) = t)
    BY <1>1 DEF AloneInv
  <1>3. GroupsInv BY <1>1, <1>2 DEF Grouped, GInv, ThreadsEndAlone
  <1>4. CASE UNCHANGED vars
    BY <1>2, <1>4 DEF vars, kernel, tracer, history, Exists, Tgid
  <1>5. CASE KernelStep
    <2>1. PICK t \in Tid :
            \/ Execve(t) \/ ThreadExit(t) \/ GroupExit(t) \/ Killed(t) \/ Release(t)
            \/ \E child \in Tid : ForkProcess(t, child) \/ CloneThread(t, child)
      BY <1>5 DEF KernelStep
    <2>2. UNCHANGED << tgidCache, mistaken >>
      BY <2>1 DEF Execve, ThreadExit, GroupExit, Killed, Release, ForkProcess, CloneThread,
                  Spawn, Die, KernelOnly, tracer, history
    <2>3. \A u \in Tid : Exists(u)' => Tgid(u)' = u
      <3>1. ASSUME NEW child \in Tid, CloneThread(t, child) PROVE FALSE
        <4>1. At(t, "kernel") /\ phase[t].call \in {"clone_thread", "clone3"}
          BY <3>1 DEF CloneThread, At
        <4>2. QED BY <1>1, <1>3, <4>1 DEF GroupsInv, Single
      <3>2. CASE Execve(t)
        <4>1. Exists(t) /\ Tgid(t) = t BY <1>2, <3>2 DEF Execve, Told, Dead
        <4>2. \A u \in Tid : task'[u] = task[u] BY <3>2, <4>1 DEF Execve, Tgid
        <4>3. QED BY <1>2, <4>2 DEF Exists, Tgid
      <3>3. CASE ThreadExit(t) \/ GroupExit(t) \/ Killed(t)
        BY <1>2, <3>3 DEF ThreadExit, GroupExit, Killed, Die, Exists, Tgid
      <3>4. CASE Release(t) BY <1>2, <3>4 DEF Release, Told, Exists, Tgid
      <3>5. ASSUME NEW child \in Tid, ForkProcess(t, child), NEW u \in Tid, Exists(u)'
            PROVE  Tgid(u)' = u
        BY <1>2, <3>5 DEF ForkProcess, Spawn, Told, Exists, Tgid
      <3>6. QED BY <2>1, <3>1, <3>2, <3>3, <3>4, <3>5
    <2>4. QED BY <1>2, <2>2, <2>3
  <1>6. CASE TracerStep
    <2>1. PICK t \in Tid :
            \/ \E call \in workload.calls : HandleEntry(t, call)
            \/ HandleExit(t) \/ HandleFork(t) \/ HandleExec(t) \/ HandleDeath(t)
      BY <1>6 DEF TracerStep
    <2>2. CASE HandleDeath(t)
      BY <1>2, <2>2 DEF HandleDeath, history, Told, Exists, Tgid
    <2>3. CASE ~HandleDeath(t)
      <3>1. task' = task /\ \E S \in SUBSET Tid : Resolves(S)
        <4>1. \A u \in Tid : HandleFork(u) => {u, phase[u].child} \in SUBSET Tid
          BY PhaseFields DEF HandleFork, Told
        <4>2. QED BY <2>1, <2>3, <4>1 DEF HandleEntry, HandleExit, HandleFork, HandleExec
      <3>2. QED BY <1>1, <1>2, <3>1, ResolvesAlone DEF Exists, Tgid
    <2>4. QED BY <2>2, <2>3
  <1>7. QED BY <1>4, <1>5, <1>6 DEF Next

THEOREM NoneMistaken == Spec => []AloneInv
  <1>1. Init => AloneInv
    BY WorkloadAssumption DEF Init, AloneInv, Exists, Tgid
  <1>2. Spec => []Grouped BY AlwaysGrouped DEF Grouped
  <1>3. QED BY <1>1, <1>2, StepsAlone, AlwaysTold, PTL DEF Spec

KinFit == DeathsAreReported => KInv

LEMMA StepKeepsKin ==
  ASSUME Told, Analyzed, TypeOK, Grouped, NodesFit, AloneInv, Analyzed', KinFit, [Next]_vars
  PROVE  KinFit'
  <1>. SUFFICES ASSUME DeathsAreReported' PROVE KInv' BY DEF KinFit
  <1>1. TaskTyped BY DEF TypeOK, TaskTyped
  <1>2. UNCHANGED workload BY DEF Next, vars
  <1>3. DeathsAreReported BY <1>2 DEF DeathsAreReported
  <1>4. Single /\ OneForkCall /\ ThreadsEndAlone BY <1>3, ForksAlone
  <1>5. ~mistaken BY <1>4 DEF AloneInv
  <1>6. GInv /\ NodesInv BY <1>4, <1>5 DEF Grouped, NodesFit
  <1>7. Reporting BY <1>1, <1>3, <1>4, <1>5, <1>6 DEF Reporting, Counted, Base, KinFit
  <1>8. QED BY <1>7, NextKeepsKin

(* In a program whose deaths are all reported an instance answers for one  *)
(* process at a time, and what it was forked by draws its edge.            *)
THEOREM AlwaysKin == Spec => []KinFit
  <1>1. Init => KinFit BY InitKInv DEF KinFit
  <1>2. Spec => []Grouped BY AlwaysGrouped DEF Grouped
  <1>3. QED BY <1>1, <1>2, StepKeepsKin, AlwaysTold, AnalyzerAgrees, AlwaysTyped, AlwaysCounted,
            NoneMistaken, PTL DEF Spec

(* A key, an instance and a generation, names one executable image of one  *)
(* process, however late its stops are handled and whoever had its id.     *)
THEOREM KeysIdentifyImages == Spec => []KeyIdentifiesImage
  <1>1. TypeOK /\ Grouped /\ AloneInv /\ KinFit => KeyIdentifiesImage
    <2>. SUFFICES ASSUME TypeOK, Grouped, AloneInv, KinFit, DeathsAreReported,
                         NEW a \in attributed, NEW b \in attributed,
                         a.instance = b.instance, a.generation = b.generation
                  PROVE  a.process = b.process /\ a.image = b.image
      BY DEF KeyIdentifiesImage
    <2>1. a.process = b.process BY DEF KinFit, KInv, OwnersInv
    <2>2. KeysInv BY ForksAlone DEF AloneInv, Grouped, GInv
    <2>3. a.generation \in Nat /\ a.image \in Nat /\ b.image \in Nat
      BY BoundsAssumption, WorkloadAssumption DEF TypeOK
    <2>4. a.generation + b.image = b.generation + a.image BY <2>1, <2>2 DEF KeysInv
    <2>5. QED BY <2>1, <2>3, <2>4
  <1>2. Spec => []Grouped BY AlwaysGrouped DEF Grouped
  <1>3. QED BY <1>1, <1>2, AlwaysTyped, NoneMistaken, AlwaysKin, PTL

(* A Causality edge joins a process and the one that forked it, or that    *)
(* forked an earlier one with its id whose exit came before its announce-  *)
(* ment: TaskCreate then makes an instance that the next process takes.    *)
THEOREM CausalityIsForking == Spec => []CausalityFollowsForks
  <1>1. TypeOK /\ KinFit => CausalityFollowsForks
    <2>. SUFFICES ASSUME TypeOK, KinFit, DeathsAreReported, NEW a \in attributed, NEW b \in attributed,
                         NEW n \in DOMAIN causality[a.instance],
                         causality[a.instance][n] = b.instance
                  PROVE  Kin(a.process, b.process)
      BY DEF CausalityFollowsForks, Kin
    <2>1. a.instance \in PL!Instance BY DEF TypeOK
    <2>2. PICK d \in attributed : d.instance = b.instance /\ CauseOf(a.instance, d.process)
      BY <2>1 DEF KinFit, KInv, CausesInv
    <2>3. d.process = b.process BY <2>2 DEF KinFit, KInv, OwnersInv
    <2>4. QED BY <2>2, <2>3 DEF CauseOf
  <1>2. QED BY <1>1, AlwaysTyped, AlwaysKin, PTL

(* Nothing in the analyzer answers for a process that has been reaped,     *)
(* unless it was the last to have its id and exited unannounced.           *)
THEOREM ReapedIsForgotten == Spec => []NoInstanceOutlivesProcess
  <1>1. Told /\ KinFit => NoInstanceOutlivesProcess
    <2>. SUFFICES ASSUME Told, KinFit, DeathsAreReported, NEW t \in Tid,
                         ~Exists(t) \/ phase[t] = Reported, PL!IsActive(t)
                  PROVE  EarlyLast(t)
      BY DEF NoInstanceOutlivesProcess, EarlyLast, Lives
    <2>1. At(t, "dead") \/ At(t, "reported") BY Places DEF Told, At
    <2>2. QED BY <2>1 DEF KinFit, KInv, ActiveInv, Exiting, PL!IsActive, PL!NoInstance
  <1>2. QED BY <1>1, AlwaysTold, AlwaysKin, PTL
============================================================================
