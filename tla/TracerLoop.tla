------------------------------ MODULE TracerLoop ------------------------------
(***************************************************************************)
(* Tachikoma::run (src/tachikoma.cpp): which tasks the ptrace loop follows,*)
(* which stop gets which treatment, and how the loop ends.                 *)
(*                                                                         *)
(* TracedProcesses asks what the events of the loop mean to the analyzer;  *)
(* this module drops the events and keeps traced_pids_, in_syscall_state_, *)
(* every ptrace request that may fail, the timeout and the destructor.     *)
(* A wait and the handling of its status are two steps: the stopped task   *)
(* may be killed in between, by a thread of its own group.                 *)
(*                                                                         *)
(* The kernel is external.  A killed task passes through its               *)
(* PTRACE_EVENT_EXIT stop, as Linux does for a dequeued SIGKILL, and a     *)
(* task id is not reused.                                                  *)
(***************************************************************************)
EXTENDS Naturals, FiniteSets

CONSTANTS
  Tid,              (* The task ids the workload may use.                   *)
  NoTid,
  Root,             (* child_pid_, the traced program.                      *)
  FollowModes,      (* The values of follow_forks_ tried.                   *)
  HasTimeout,       (* Whether a timeout is set.                            *)
  GroupExits,       (* Whether a thread may call exit_group or execve while *)
  WorkerExecs,      (* its group has others; whether a worker may execve.   *)
  MaxStops          (* Bounds the syscall and signal stops of a task.       *)

ASSUME TracerAssumption ==
  /\ Root \in Tid /\ NoTid \notin Tid
  /\ FollowModes \subseteq BOOLEAN
  /\ {HasTimeout, GroupExits, WorkerExecs} \subseteq BOOLEAN
  /\ MaxStops \in Nat

VARIABLES
  state,            (* kernel: what each task is doing                      *)
  stop,             (* kernel: the ptrace stop of a stopped task            *)
  reported,         (* kernel: stopped tasks whose status was waited for    *)
  leader,           (* kernel: thread groups                                *)
  stopsLeft,        (* kernel: the rest of each task's workload             *)
  traced,           (* traced_pids_                                         *)
  known,            (* the keys of in_syscall_state_                        *)
  handling,         (* the stop run() is handling                           *)
  follow,           (* follow_forks_, set before run()                      *)
  result,           (* how run() ended, and whether it is still reaping     *)
  unreported        (* history: ids whose end the loop's wait never reports *)

kernel == << state, stop, reported, leader, stopsLeft >>
loop   == << traced, known, handling, follow, result >>
vars   == << kernel, loop, unreported >>

Plain(kind)  == [kind |-> kind, of |-> NoTid]
ForkOf(c)    == [kind |-> "fork", of |-> c]
NotHandling  == [tid |-> NoTid, kind |-> "none", of |-> NoTid]

StopKind == {"none", "attach", "syscall", "signal", "exit", "exec", "fork"}

(* Where handle_ptrace_event stands, once it has waited for the child.     *)
ForkPhase == {"adopting", "continuing", "resuming"}

TypeOK ==
  /\ state \in [Tid -> {"none", "starting", "running", "execing", "stopped",
                        "dying", "zombie", "detached", "gone"}]
  /\ stop \in [Tid -> [kind: StopKind, of: Tid \cup {NoTid}]]
  /\ reported \subseteq {t \in Tid : state[t] = "stopped"}
  /\ leader \in [Tid -> Tid]
  /\ stopsLeft \in [Tid -> 0 .. MaxStops]
  /\ traced \subseteq Tid /\ known = traced
  /\ handling \in [tid: Tid \cup {NoTid}, kind: StopKind \cup ForkPhase, of: Tid \cup {NoTid}]
  /\ follow \in BOOLEAN
  /\ unreported \subseteq Tid
  /\ result \in {"none", "exited", "threw", "timeout", "reaping_threw", "reaping_timeout"}

(* The constructor: the child stopped at its execve, was given the options *)
(* and resumed.                                                            *)
Init ==
  /\ state = [t \in Tid |-> IF t = Root THEN "running" ELSE "none"]
  /\ stop = [t \in Tid |-> Plain("none")]
  /\ reported = {}
  /\ leader = [t \in Tid |-> t]
  /\ stopsLeft = [t \in Tid |-> MaxStops]
  /\ traced = {Root} /\ known = {Root}
  /\ handling = NotHandling
  /\ follow \in FollowModes
  /\ result = "none"
  /\ unreported = {}

-----------------------------------------------------------------------------
(* The kernel.                                                             *)
Absent(t)   == state[t] \in {"none", "gone"}
Group(t)    == {u \in Tid : leader[u] = leader[t] /\ ~Absent(u)}
Others(t)   == Group(t) \ {t}
Stopped(t)  == state[t] = "stopped"
Killable(t) == state[t] \in {"starting", "running", "execing", "stopped"}

StopAt(t, s) ==
  /\ state' = [state EXCEPT ![t] = "stopped"]
  /\ stop' = [stop EXCEPT ![t] = s]

SyscallOrSignal(t) ==
  /\ state[t] = "running" /\ stopsLeft[t] > 0
  /\ \E kind \in {"syscall", "signal"} : StopAt(t, Plain(kind))
  /\ stopsLeft' = [stopsLeft EXCEPT ![t] = @ - 1]
  /\ UNCHANGED << reported, leader, loop, unreported >>

(* fork, vfork or clone: the new task is traced from its start, and its    *)
(* creator stops.                                                          *)
Create(t, child) ==
  /\ state[t] = "running" /\ state[child] = "none"
  /\ state' = [state EXCEPT ![t] = "stopped", ![child] = "starting"]
  /\ stop' = [stop EXCEPT ![t] = ForkOf(child)]
  /\ \E g \in {leader[t], child} : leader' = [leader EXCEPT ![child] = g]
  /\ UNCHANGED << reported, stopsLeft, loop, unreported >>

(* Woken before its creator stops, so either may be seen first.            *)
FirstStop(t) ==
  /\ state[t] = "starting"
  /\ StopAt(t, Plain("attach"))
  /\ UNCHANGED << reported, leader, stopsLeft, loop, unreported >>

ThreadExit(t) ==
  /\ state[t] = "running"
  /\ StopAt(t, Plain("exit"))
  /\ UNCHANGED << reported, leader, stopsLeft, loop, unreported >>

(* Every other task of the group is killed, wherever it is.                *)
KillTasks(ts) == [u \in Tid |-> IF u \in ts /\ Killable(u) THEN "dying" ELSE state[u]]

GroupExit(t) ==
  /\ GroupExits /\ state[t] = "running" /\ Others(t) # {}
  /\ state' = [KillTasks(Others(t)) EXCEPT ![t] = "stopped"]
  /\ stop' = [stop EXCEPT ![t] = Plain("exit")]
  /\ reported' = reported \ Others(t)
  /\ UNCHANGED << leader, stopsLeft, loop, unreported >>

ExecBegin(t) ==
  /\ state[t] = "running" /\ stopsLeft[leader[t]] > 0
  /\ t # leader[t] => WorkerExecs
  /\ Others(t) # {} => GroupExits \/ WorkerExecs
  /\ state' = [KillTasks(Others(t)) EXCEPT ![t] = "execing"]
  /\ reported' = reported \ Others(t)
  /\ stopsLeft' = [stopsLeft EXCEPT ![leader[t]] = @ - 1]
  /\ UNCHANGED << stop, leader, loop, unreported >>

(* execve returns when the caller is alone; a worker takes over the id of  *)
(* the dead leader, whose death is never reported.                         *)
ExecDone(t) ==
  /\ state[t] = "execing"
  /\ \A u \in Others(t) : u = leader[t] /\ state[u] = "zombie"
  /\ state' = [u \in Tid |-> CASE u = leader[t] -> "stopped"
                               [] u = t /\ t # leader[t] -> "gone"
                               [] OTHER -> state[u]]
  /\ stop' = [stop EXCEPT ![leader[t]] = [kind |-> "exec", of |-> t]]
  /\ unreported' = unreported \cup ({t} \ {leader[t]})
  /\ UNCHANGED << reported, leader, stopsLeft, loop >>

ExitStop(t) ==
  /\ state[t] = "dying"
  /\ StopAt(t, Plain("exit"))
  /\ UNCHANGED << reported, leader, stopsLeft, loop, unreported >>

(* A detached task runs on unseen and ends, maybe its whole group.         *)
DetachedEnds(t) ==
  /\ state[t] = "detached"
  /\ \E ts \in {{}, Others(t)} :
       /\ ts # {} => GroupExits
       /\ state' = [KillTasks(ts) EXCEPT ![t] = "gone"]
       /\ reported' = reported \ ts
  /\ UNCHANGED << stop, leader, stopsLeft, loop, unreported >>

KernelStep ==
  \E t \in Tid :
    \/ SyscallOrSignal(t) \/ FirstStop(t) \/ ThreadExit(t) \/ GroupExit(t)
    \/ ExecBegin(t) \/ ExecDone(t) \/ ExitStop(t) \/ DetachedEnds(t)
    \/ \E child \in Tid : Create(t, child)

-----------------------------------------------------------------------------
(* What waitpid finds: a stop not yet reported, or a death, a leader's     *)
(* only once its threads are gone.                                         *)
HasStopped(t) == Stopped(t) /\ t \notin reported
HasDied(t)    == state[t] = "zombie" /\ (leader[t] = t => Group(t) = {t})
NoChildren    == \A t \in Tid : state[t] \in {"none", "gone", "detached"}

Looping == result = "none" /\ handling = NotHandling /\ traced # {}

(* What PTRACE_SYSCALL makes of a stopped task.                            *)
Continued(t) == IF stop[t].kind = "exit" THEN "zombie" ELSE "running"

(* An exception leaves run() and unwinds into ~Tachikoma, which kills what *)
(* is still traced, as the timeout does, and reaps.                        *)
KillAndReap(why, from) ==
  LET doomed == UNION {Group(t) : t \in {u \in traced : ~Absent(u)}} IN
  /\ state' = [t \in Tid |-> IF t \in doomed /\ from[t] \notin {"zombie", "dying", "detached"}
                             THEN "dying" ELSE from[t]]
  /\ reported' = reported \ doomed
  /\ result' = why
  /\ handling' = NotHandling
  /\ UNCHANGED << stop, leader, stopsLeft, traced, known, follow, unreported >>

Timeout ==
  /\ Looping /\ HasTimeout
  /\ KillAndReap("reaping_timeout", state)

WaitStop(t) ==
  /\ Looping /\ HasStopped(t)
  /\ reported' = reported \cup {t}
  /\ handling' = [tid |-> t, kind |-> stop[t].kind, of |-> stop[t].of]
  /\ UNCHANGED << state, stop, leader, stopsLeft, traced, known, follow, result, unreported >>

Forget(t) == traced' = traced \ {t} /\ known' = known \ {t}

(* Mutant of WaitDeath: the dead task is not erased.                       *)
WaitDeathKeeps(t) ==
  /\ Looping /\ HasDied(t)
  /\ state' = [state EXCEPT ![t] = "gone"]
  /\ result' = IF traced = {t} THEN "exited" ELSE "none"
  /\ UNCHANGED << stop, reported, leader, stopsLeft, traced, known, handling,
                  follow, unreported >>

(* run, WIFEXITED or WIFSIGNALED.                                          *)
WaitDeath(t) ==
  /\ Looping /\ HasDied(t)
  /\ state' = [state EXCEPT ![t] = "gone"]
  /\ Forget(t)
  /\ result' = IF traced' = {} THEN "exited" ELSE "none"
  /\ UNCHANGED << stop, reported, leader, stopsLeft, handling, follow, unreported >>

(* Mutant of WaitFails: any failed wait is taken for EINTR.                *)
WaitFailsRetries == Looping /\ NoChildren /\ UNCHANGED vars

(* ECHILD.                                                                 *)
WaitFails ==
  /\ Looping /\ NoChildren
  /\ KillAndReap("reaping_threw", state)

(* The loop condition, after a failed request emptied traced_pids_.        *)
NothingTraced ==
  /\ result = "none" /\ handling = NotHandling /\ traced = {}
  /\ result' = "exited"
  /\ UNCHANGED << kernel, traced, known, handling, follow, unreported >>

-----------------------------------------------------------------------------
(* The branches of run(), in its order.                                    *)
Handling(kinds) == result = "none" /\ handling # NotHandling /\ handling.kind \in kinds
DoneWith == handling' = NotHandling /\ UNCHANGED << stop, leader, stopsLeft, follow, result >>
Done     == DoneWith /\ UNCHANGED unreported

(* Resuming tasks: their stops are over.                                   *)
Resume(ts) ==
  /\ state' = [u \in Tid |-> IF u \in ts THEN Continued(u) ELSE state[u]]
  /\ reported' = reported \ ts

(* (1) handle_ptrace_event: PTRACE_GETEVENTMSG fails.                      *)
ForkGone ==
  /\ Handling({"fork"}) /\ ~Stopped(handling.tid)
  /\ Done
  /\ UNCHANGED << state, reported, traced, known >>

(* Otherwise a step for each request to the child and to its creator: any  *)
(* of them may be killed in between.                                       *)
GoOnWith(phase) ==
  /\ handling' = [handling EXCEPT !.kind = phase]
  /\ UNCHANGED << stop, leader, stopsLeft, follow, result >>

(* Following: a waiting stop of the child is taken,                        *)
ForkTakesStop ==
  LET c == handling.of IN
  /\ Handling({"fork"}) /\ follow /\ Stopped(handling.tid)
  /\ HasStopped(c)
  /\ reported' = reported \cup {c}
  /\ GoOnWith("adopting")
  /\ UNCHANGED << state, traced, known, unreported >>

(* its death is taken and forgotten, or it is left for the loop.           *)
ForkDefers ==
  LET c == handling.of IN
  /\ Handling({"fork"}) /\ follow /\ Stopped(handling.tid)
  /\ ~HasStopped(c)
  /\ state' = [state EXCEPT ![c] = IF HasDied(c) THEN "gone" ELSE @]
  /\ unreported' = IF HasDied(c) THEN unreported \cup {c} ELSE unreported
  /\ GoOnWith("resuming")
  /\ UNCHANGED << reported, traced, known >>

(* A child that is killed before it gets its options is not adopted,       *)
ForkAdopts ==
  LET c == handling.of IN
  /\ Handling({"adopting"})
  /\ IF Stopped(c)
     THEN /\ traced' = traced \cup {c} /\ known' = known \cup {c}
          /\ GoOnWith("continuing")
     ELSE /\ GoOnWith("resuming")
          /\ UNCHANGED << traced, known >>
  /\ UNCHANGED << state, reported, unreported >>

(* one that is killed before it is resumed makes run() throw,              *)
ForkResumesChild ==
  LET c == handling.of IN
  /\ Handling({"continuing"})
  /\ IF Stopped(c)
     THEN /\ Resume({c})
          /\ GoOnWith("resuming")
          /\ UNCHANGED << traced, known, unreported >>
     ELSE KillAndReap("reaping_threw", state)

(* and so does a creator.                                                  *)
ForkResumesParent ==
  LET t == handling.tid IN
  /\ Handling({"resuming"})
  /\ IF Stopped(t)
     THEN Resume({t}) /\ Done /\ UNCHANGED << traced, known >>
     ELSE KillAndReap("reaping_threw", state)

(* Not following: PTRACE_DETACH needs the child to have stopped.           *)
ForkDetaches ==
  LET c == handling.of IN
  /\ Handling({"fork"}) /\ ~follow /\ Stopped(handling.tid)
  /\ IF Stopped(c)
     THEN /\ state' = [state EXCEPT ![c] = "detached"]
          /\ reported' = reported \ {c}
          /\ unreported' = unreported \cup {c}
          /\ GoOnWith("resuming")
          /\ UNCHANGED << traced, known >>
     ELSE KillAndReap("reaping_threw", state)

ResumeOrForget(t) ==
  IF Stopped(t) THEN Resume({t}) /\ UNCHANGED << traced, known >>
                ELSE Forget(t) /\ UNCHANGED << state, reported >>

(* (2) exec and (3) exit stops, and (6) signals of known tasks.            *)
HandleExec == Handling({"exec"}) /\ ResumeOrForget(handling.tid) /\ Done
HandleExit == Handling({"exit"}) /\ ResumeOrForget(handling.tid) /\ Done

HandleSignal ==
  /\ Handling({"attach", "signal"}) /\ handling.tid \in known
  /\ ResumeOrForget(handling.tid)
  /\ Done

(* Mutant of Adopt: the SIGSTOP is delivered, and the child stays stopped. *)
AdoptReinjects ==
  LET t == handling.tid IN
  /\ Handling({"attach", "signal", "syscall"}) /\ t \notin known
  /\ traced' = traced \cup {t} /\ known' = known \cup {t}
  /\ Done
  /\ UNCHANGED << state, reported >>

(* (4) The first stop of a child that was not adopted.                     *)
Adopt ==
  LET t == handling.tid IN
  /\ Handling({"attach", "signal", "syscall"}) /\ t \notin known
  /\ IF Stopped(t)
     THEN /\ Resume({t})
          /\ traced' = traced \cup {t} /\ known' = known \cup {t}
     ELSE UNCHANGED << state, reported, traced, known >>
  /\ Done

(* (7) handle_syscall_stop.                                                *)
HandleSyscall ==
  LET t == handling.tid IN
  /\ Handling({"syscall"}) /\ t \in known
  /\ Stopped(t)
  /\ Resume({t})
  /\ Done
  /\ UNCHANGED << traced, known >>

SyscallGone ==
  /\ Handling({"syscall"}) /\ handling.tid \in known
  /\ ~Stopped(handling.tid)
  /\ KillAndReap("reaping_threw", state)

-----------------------------------------------------------------------------
(* waitpid(-1, nullptr, 0) until traced_pids_ is empty: it takes stops for *)
(* deaths, and without children it only fails and is called again.         *)
Reaping == result \in {"reaping_threw", "reaping_timeout"}

Reap(t) ==
  /\ Reaping /\ traced # {}
  /\ HasStopped(t) \/ HasDied(t)
  /\ state' = IF HasDied(t) THEN [state EXCEPT ![t] = "gone"] ELSE state
  /\ reported' = IF HasDied(t) THEN reported ELSE reported \cup {t}
  /\ Forget(t)
  /\ UNCHANGED << stop, leader, stopsLeft, handling, follow, result, unreported >>

Reaped ==
  /\ Reaping /\ traced = {}
  /\ result' = IF result = "reaping_threw" THEN "threw" ELSE "timeout"
  /\ UNCHANGED << kernel, traced, known, handling, follow, unreported >>

WaitStep ==
  \/ \E t \in Tid : WaitStop(t) \/ WaitDeath(t) \/ Reap(t)
  \/ WaitFails \/ NothingTraced \/ Reaped

HandleStep ==
  \/ ForkGone \/ ForkTakesStop \/ ForkDefers \/ ForkAdopts \/ ForkResumesChild
  \/ ForkResumesParent \/ ForkDetaches
  \/ HandleExec \/ HandleExit \/ HandleSignal \/ Adopt \/ HandleSyscall \/ SyscallGone

LoopStep == WaitStep \/ HandleStep

Next == KernelStep \/ LoopStep \/ Timeout

(* The loop polls and never rests while there is something to do, and the  *)
(* workload is finite: a task that can run does.  A timeout need not come. *)
Spec == Init /\ [][Next]_vars /\ WF_vars(KernelStep) /\ WF_vars(LoopStep)

-----------------------------------------------------------------------------
Finished == result \in {"exited", "threw", "timeout"}

(* Every id in traced_pids_ is that of a task that still exists, but for   *)
(* those whose end the loop cannot see: given up by a worker's execve, or  *)
(* waited for by the fork handler, or detached after an early adoption.    *)
(* The timeout and the destructor kill every id in the set and wait until  *)
(* each has been reported.                                                 *)
TracedExist ==
  /\ TypeOK
  /\ \A t \in traced \ unreported : ~Absent(t)

(* No tracee is left stopped: whatever stop it is at, the loop resumes it  *)
(* ("otherwise the SIGSTOP gets re-injected and the child stays stopped    *)
(* forever").                                                              *)
StopsAreResumed ==
  \A t \in Tid : Stopped(t) ~> (~Stopped(t) \/ result # "none")

(* The loop over a program that ends is left ("Loop until every traced     *)
(* process has exited or the timeout fires").                              *)
LoopEnds == <>(result # "none")

(* Once what is left is killed, the reaping ends ("Kill all remaining      *)
(* processes", "Reap them").                                               *)
ReapingEnds == Reaping ~> Finished

(* And it is left without an exception: a task that disappears while it is    *)
(* handled is forgotten.                                                   *)
NeverThrows == result \notin {"reaping_threw", "threw"}
=============================================================================
