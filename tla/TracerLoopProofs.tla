--------------------------- MODULE TracerLoopProofs ---------------------------
(***************************************************************************)
(* What the ptrace loop holds for whatever number of tasks, and whatever   *)
(* order of stops, kills and failing requests: the ids in traced_pids_ are *)
(* those of tasks that exist, but for the ones whose end is taken from the *)
(* loop, and why run() can end in an exception.                            *)
(***************************************************************************)
EXTENDS TracerLoop, TLAPS

States == {"none", "starting", "running", "execing", "stopped",
           "dying", "zombie", "detached", "gone"}

Stops == [kind: StopKind, of: Tid \cup {NoTid}]
Handlings == [tid: Tid \cup {NoTid}, kind: StopKind \cup ForkPhase, of: Tid \cup {NoTid}]

(* A fork stop names the new task, in the kernel and in run()'s hands.     *)
OfFork == {"fork"} \cup ForkPhase

ForksNameTasks ==
  /\ \A t \in Tid : stop[t].kind = "fork" => stop[t].of \in Tid \ {t}
  /\ handling # NotHandling =>
       /\ handling.tid \in Tid
       /\ handling.kind \in OfFork => handling.of \in Tid \ {handling.tid}

(* A detached task ends unseen.                                            *)
DetachedUnseen == \A t \in Tid : state[t] = "detached" => t \in unreported

IInv == TracedExist /\ ForksNameTasks /\ DetachedUnseen

LEMMA InitIInv == Init => IInv
  <1>. SUFFICES ASSUME Init PROVE IInv OBVIOUS
  <1>. USE TracerAssumption DEF Init
  <1>1. TypeOK
    <2>1. stop \in [Tid -> Stops]
      <3>1. stop = [t \in Tid |-> Plain("none")] OBVIOUS
      <3>2. Plain("none") \in Stops BY DEF Plain, Stops, StopKind
      <3>3. QED BY <3>1, <3>2
    <2>2. handling \in Handlings
      <3>1. handling = NotHandling OBVIOUS
      <3>2. NotHandling \in Handlings BY DEF Handlings, NotHandling, StopKind
      <3>3. QED BY <3>1, <3>2
    <2>3. QED BY <2>1, <2>2 DEF TypeOK, Stops, Handlings
  <1>2. TracedExist BY <1>1 DEF TracedExist, Absent
  <1>3. ForksNameTasks /\ DetachedUnseen BY DEF ForksNameTasks, DetachedUnseen, Plain
  <1>4. QED BY <1>2, <1>3 DEF IInv

-----------------------------------------------------------------------------
(* What a step of the kernel may do to the loop's view.                    *)
LEMMA KernelMoves ==
  ASSUME IInv, UNCHANGED loop,
         state' \in [Tid -> States], stop' \in [Tid -> Stops],
         leader' \in [Tid -> Tid], stopsLeft' \in [Tid -> 0 .. MaxStops],
         \A t \in reported' : t \in reported /\ state'[t] = "stopped",
         unreported' \subseteq Tid, unreported \subseteq unreported',
         \A t \in Tid : state'[t] \in {"none", "gone"} =>
           state[t] \in {"none", "gone"} \/ t \in unreported',
         \A t \in Tid : state'[t] = "detached" => state[t] = "detached",
         \A t \in Tid : stop'[t].kind = "fork" => stop'[t].of \in Tid \ {t}
  PROVE  IInv'
  <1>1. TypeOK' BY DEF IInv, TracedExist, TypeOK, loop, States, Stops
  <1>2. TracedExist' BY <1>1 DEF IInv, TracedExist, TypeOK, Absent, loop
  <1>3. ForksNameTasks' BY DEF IInv, ForksNameTasks, loop, NotHandling
  <1>4. DetachedUnseen' BY DEF IInv, DetachedUnseen
  <1>5. QED BY <1>2, <1>3, <1>4 DEF IInv

LEMMA Killed ==
  ASSUME IInv, NEW ts \in SUBSET Tid
  PROVE  /\ KillTasks(ts) \in [Tid -> States]
         /\ \A u \in Tid : KillTasks(ts)[u] \in {state[u], "dying"}
         /\ \A u \in Tid : Absent(u) => KillTasks(ts)[u] = state[u]
         /\ \A u \in Tid \ ts : KillTasks(ts)[u] = state[u]
  BY DEF KillTasks, Killable, Absent, IInv, TracedExist, TypeOK, States

LEMMA KernelKeeps == ASSUME IInv, KernelStep PROVE IInv'
  <1>1. PICK t \in Tid :
          \/ SyscallOrSignal(t) \/ FirstStop(t) \/ ThreadExit(t) \/ GroupExit(t)
          \/ ExecBegin(t) \/ ExecDone(t) \/ ExitStop(t) \/ DetachedEnds(t)
          \/ \E child \in Tid : Create(t, child)
    BY DEF KernelStep
  <1>2. /\ state \in [Tid -> States] /\ stop \in [Tid -> Stops] /\ leader \in [Tid -> Tid]
        /\ stopsLeft \in [Tid -> 0 .. MaxStops] /\ MaxStops \in Nat
        /\ unreported \subseteq Tid
        /\ \A u \in reported : u \in Tid /\ state[u] = "stopped"
        /\ \A u \in Tid : stop[u].kind = "fork" => stop[u].of \in Tid \ {u}
        /\ \A u \in Tid : state[u] = "detached" => u \in unreported
    BY TracerAssumption
       DEF IInv, TracedExist, TypeOK, ForksNameTasks, DetachedUnseen, States, Stops
  <1>3. \A kind \in {"syscall", "signal", "attach", "exit"} :
          Plain(kind) \in Stops /\ Plain(kind).kind # "fork"
    BY DEF Plain, Stops, StopKind
  <1>4. Others(t) \in SUBSET Tid /\ t \notin Others(t) BY DEF Others, Group
  <1>5. CASE SyscallOrSignal(t)
    BY <1>2, <1>3, <1>5, KernelMoves DEF SyscallOrSignal, StopAt, States
  <1>6. CASE FirstStop(t) BY <1>2, <1>3, <1>6, KernelMoves DEF FirstStop, StopAt, States
  <1>7. CASE ThreadExit(t) BY <1>2, <1>3, <1>7, KernelMoves DEF ThreadExit, StopAt, States
  <1>8. CASE ExitStop(t) BY <1>2, <1>3, <1>8, KernelMoves DEF ExitStop, StopAt, States
  <1>9. CASE GroupExit(t)
    <2>1. PICK k : k = KillTasks(Others(t)) OBVIOUS
    <2>2. /\ k \in [Tid -> States] /\ \A u \in Tid : k[u] \in {state[u], "dying"}
          /\ \A u \in Tid \ Others(t) : k[u] = state[u]
      BY <1>4, <2>1, Killed
    <2>3. /\ state' = [k EXCEPT ![t] = "stopped"] /\ stop' = [stop EXCEPT ![t] = Plain("exit")]
          /\ reported' = reported \ Others(t) /\ UNCHANGED << leader, stopsLeft, loop, unreported >>
      BY <1>9, <2>1 DEF GroupExit
    <2>4. state' \in [Tid -> States] /\ stop' \in [Tid -> Stops]
      BY <1>2, <1>3, <2>2, <2>3 DEF States
    <2>5. \A u \in reported' : u \in reported /\ state'[u] = "stopped"
      BY <1>2, <1>4, <2>2, <2>3
    <2>6. \A u \in Tid : stop'[u].kind = "fork" => stop'[u].of \in Tid \ {u}
      BY <1>2, <1>3, <2>3
    <2>7. \A u \in Tid : u # t => state'[u] \in {state[u], "dying"} BY <2>2, <2>3
    <2>8. state'[t] = "stopped" BY <2>2, <2>3
    <2>9. QED BY <1>2, <2>3, <2>4, <2>5, <2>6, <2>7, <2>8, KernelMoves
  <1>10. CASE ExecBegin(t)
    <2>1. PICK k : k = KillTasks(Others(t)) OBVIOUS
    <2>2. /\ k \in [Tid -> States] /\ \A u \in Tid : k[u] \in {state[u], "dying"}
          /\ \A u \in Tid \ Others(t) : k[u] = state[u]
      BY <1>4, <2>1, Killed
    <2>3. /\ state' = [k EXCEPT ![t] = "execing"] /\ state[t] = "running"
          /\ stopsLeft[leader[t]] > 0 /\ stopsLeft' = [stopsLeft EXCEPT ![leader[t]] = @ - 1]
          /\ reported' = reported \ Others(t) /\ UNCHANGED << stop, leader, loop, unreported >>
      BY <1>10, <2>1 DEF ExecBegin
    <2>4. stopsLeft' \in [Tid -> 0 .. MaxStops] BY <1>2, <2>3
    <2>5. QED BY <1>2, <2>2, <2>3, <2>4, KernelMoves DEF States
  <1>11. CASE ExecDone(t)
    <2>. DEFINE l == leader[t]
    <2>1. l \in Tid BY <1>2
    <2>2. /\ state[t] = "execing"
          /\ state' = [u \in Tid |-> CASE u = l -> "stopped"
                                       [] u = t /\ t # l -> "gone"
                                       [] OTHER -> state[u]]
          /\ stop' = [stop EXCEPT ![l] = [kind |-> "exec", of |-> t]]
          /\ unreported' = unreported \cup ({t} \ {l})
          /\ UNCHANGED << reported, leader, stopsLeft, loop >>
      BY <1>11 DEF ExecDone
    <2>3. [kind |-> "exec", of |-> t] \in Stops BY DEF Stops, StopKind
    <2>4. \A u \in Tid : /\ u = l => state'[u] = "stopped"
                         /\ u = t /\ t # l => state'[u] = "gone"
                         /\ u # l /\ u # t => state'[u] = state[u]
      BY <2>1, <2>2
    <2>5. state' \in [Tid -> States] BY <1>2, <2>2, <2>4 DEF States
    <2>. HIDE DEF l
    <2>6. stop' \in [Tid -> Stops] /\ \A u \in Tid : stop'[u].kind = "fork" => stop'[u].of \in Tid \ {u}
      BY <1>2, <2>1, <2>2, <2>3
    <2>7. QED BY <1>2, <2>1, <2>2, <2>4, <2>5, <2>6, KernelMoves
  <1>12. CASE DetachedEnds(t)
    <2>1. PICK ts \in {{}, Others(t)} : state' = [KillTasks(ts) EXCEPT ![t] = "gone"]
                                        /\ reported' = reported \ ts
      BY <1>12 DEF DetachedEnds
    <2>2. PICK k : k = KillTasks(ts) OBVIOUS
    <2>3. /\ k \in [Tid -> States] /\ \A u \in Tid : k[u] \in {state[u], "dying"}
          /\ \A u \in Tid \ ts : k[u] = state[u]
      BY <1>4, <2>1, <2>2, Killed
    <2>4. state' = [k EXCEPT ![t] = "gone"] /\ state[t] = "detached"
          /\ UNCHANGED << stop, leader, stopsLeft, loop, unreported >>
      BY <1>12, <2>1, <2>2 DEF DetachedEnds
    <2>5. QED BY <1>2, <2>1, <2>3, <2>4, KernelMoves DEF States
  <1>13. CASE \E child \in Tid : Create(t, child)
    <2>1. PICK c \in Tid : Create(t, c) BY <1>13
    <2>2. ForkOf(c) \in Stops /\ ForkOf(c).of = c BY DEF ForkOf, Stops, StopKind
    <2>6. c # t BY <2>1 DEF Create
    <2>3. stop' \in [Tid -> Stops] /\ \A u \in Tid : stop'[u].kind = "fork" => stop'[u].of \in Tid \ {u}
      BY <1>2, <2>1, <2>2, <2>6 DEF Create
    <2>4. leader' \in [Tid -> Tid] BY <1>2, <2>1 DEF Create
    <2>5. QED BY <1>2, <2>1, <2>3, <2>4, KernelMoves DEF Create, States
  <1>14. QED BY <1>1, <1>5, <1>6, <1>7, <1>8, <1>9, <1>10, <1>11, <1>12, <1>13

-----------------------------------------------------------------------------
(* What a step of the loop may do.                                         *)
Results == {"none", "exited", "threw", "timeout", "reaping_threw", "reaping_timeout"}

LEMMA LoopMoves ==
  ASSUME IInv, UNCHANGED << stop, leader, stopsLeft, follow >>,
         state' \in [Tid -> States], traced' \subseteq Tid, known' = traced',
         \A t \in reported' : t \in Tid /\ state'[t] = "stopped",
         unreported \subseteq unreported', unreported' \subseteq Tid, result' \in Results,
         \/ handling' \in {handling, NotHandling}
         \/ \E t \in Tid : handling' = [tid |-> t, kind |-> stop[t].kind, of |-> stop[t].of]
         \/ /\ handling # NotHandling /\ handling.kind \in OfFork
            /\ \E phase \in ForkPhase : handling' = [handling EXCEPT !.kind = phase],
         \A t \in traced' : state'[t] \in {"none", "gone"} => t \in unreported',
         \A t \in Tid : state'[t] = "detached" => t \in unreported'
  PROVE  IInv'
  <1>0. handling \in Handlings /\ stop \in [Tid -> Stops]
    BY DEF IInv, TracedExist, TypeOK, Handlings, Stops
  <1>1. ForksNameTasks' /\ handling' \in Handlings
    <2>1. CASE handling' \in {handling, NotHandling}
      BY <1>0, <2>1 DEF IInv, ForksNameTasks, NotHandling, Handlings, StopKind
    <2>2. ASSUME NEW t \in Tid, handling' = [tid |-> t, kind |-> stop[t].kind, of |-> stop[t].of]
          PROVE  /\ handling'.tid = t /\ handling'.kind = stop[t].kind /\ handling'.of = stop[t].of
                 /\ stop[t].kind \in StopKind /\ handling' \in Handlings
      BY <1>0, <2>2 DEF Handlings, Stops
    <2>3. ASSUME NEW phase \in ForkPhase, handling # NotHandling, handling.kind \in OfFork,
                 handling' = [handling EXCEPT !.kind = phase]
          PROVE  ForksNameTasks' /\ handling' \in Handlings
      <3>1. /\ handling'.tid = handling.tid /\ handling'.of = handling.of
            /\ handling' \in Handlings
        BY <1>0, <2>3 DEF Handlings
      <3>2. QED BY <2>3, <3>1 DEF IInv, ForksNameTasks
    <2>4. StopKind \cap OfFork = {"fork"} BY DEF StopKind, OfFork, ForkPhase
    <2>5. QED BY <2>1, <2>2, <2>3, <2>4 DEF IInv, ForksNameTasks
  <1>2. TypeOK' BY <1>1 DEF IInv, TracedExist, TypeOK, States, Results, Handlings
  <1>3. TracedExist' /\ DetachedUnseen' BY <1>2 DEF TracedExist, TypeOK, Absent, DetachedUnseen
  <1>4. QED BY <1>1, <1>3 DEF IInv

LEMMA Facts ==
  ASSUME IInv
  PROVE  /\ state \in [Tid -> States] /\ traced \subseteq Tid /\ known = traced
         /\ unreported \subseteq Tid /\ result \in Results
         /\ \A t \in reported : t \in Tid /\ state[t] = "stopped"
         /\ \A t \in traced : state[t] \in {"none", "gone"} => t \in unreported
         /\ \A t \in Tid : state[t] = "detached" => t \in unreported
         /\ handling # NotHandling =>
              /\ handling.tid \in Tid
              /\ handling.kind \in OfFork => handling.of \in Tid \ {handling.tid}
         /\ \A t \in Tid : Continued(t) \in {"running", "zombie"}
  <1>. TypeOK BY DEF IInv, TracedExist
  <1>1. /\ state \in [Tid -> States] /\ traced \subseteq Tid
        /\ unreported \subseteq Tid /\ result \in Results
    BY DEF TypeOK, States, Results
  <1>2. /\ known = traced /\ \A t \in reported : t \in Tid /\ state[t] = "stopped"
        /\ \A t \in traced : state[t] \in {"none", "gone"} => t \in unreported
    BY DEF IInv, TracedExist, TypeOK, Absent
  <1>3. /\ \A t \in Tid : state[t] = "detached" => t \in unreported
        /\ handling # NotHandling =>
             /\ handling.tid \in Tid
             /\ handling.kind \in OfFork => handling.of \in Tid \ {handling.tid}
    BY DEF IInv, ForksNameTasks, DetachedUnseen
  <1>4. \A t \in Tid : Continued(t) \in {"running", "zombie"} BY DEF Continued
  <1>5. QED BY <1>1, <1>2, <1>3, <1>4

(* Killing what is traced ends no task by itself.                          *)
LEMMA KillAndReapKeeps ==
  ASSUME IInv, NEW why \in Results, KillAndReap(why, state)
  PROVE  IInv'
  <1>. DEFINE doomed == UNION {Group(t) : t \in {u \in traced : ~Absent(u)}}
  <1>1. /\ state' = [t \in Tid |->
                       IF t \in doomed /\ state[t] \notin {"zombie", "dying", "detached"}
                       THEN "dying" ELSE state[t]]
        /\ reported' = reported \ doomed /\ result' = why /\ handling' = NotHandling
        /\ UNCHANGED << stop, leader, stopsLeft, traced, known, follow, unreported >>
    BY DEF KillAndReap
  <1>. HIDE DEF doomed
  <1>2. \A t \in Tid : state'[t] \in {state[t], "dying"} /\ (t \notin doomed => state'[t] = state[t])
    BY <1>1
  <1>3. state' \in [Tid -> States] BY <1>1, Facts DEF States
  <1>4. QED BY <1>1, <1>2, <1>3, Facts, LoopMoves

LEMMA WaitKeeps == ASSUME IInv, WaitStep PROVE IInv'
  <1>1. ASSUME NEW t \in Tid, WaitStop(t) PROVE IInv'
    BY <1>1, Facts, LoopMoves DEF WaitStop, HasStopped, Stopped
  <1>2. ASSUME NEW t \in Tid, WaitDeath(t) PROVE IInv'
    BY <1>2, Facts, LoopMoves DEF WaitDeath, HasDied, Forget, Results, States
  <1>3. ASSUME NEW t \in Tid, Reap(t) PROVE IInv'
    <2>1. /\ traced' = traced \ {t} /\ known' = known \ {t}
          /\ UNCHANGED << stop, leader, stopsLeft, handling, follow, result, unreported >>
      BY <1>3 DEF Reap, Forget
    <2>2. CASE HasDied(t)
      <3>1. state[t] = "zombie" /\ state' = [state EXCEPT ![t] = "gone"] /\ reported' = reported
        BY <1>3, <2>2 DEF Reap, HasDied
      <3>2. QED BY <2>1, <3>1, Facts, LoopMoves DEF States
    <2>3. CASE ~HasDied(t)
      <3>1. state[t] = "stopped" /\ state' = state /\ reported' = reported \cup {t}
        BY <1>3, <2>3 DEF Reap, HasStopped, Stopped
      <3>2. QED BY <2>1, <3>1, Facts, LoopMoves DEF States
    <2>4. QED BY <2>2, <2>3
  <1>4. CASE WaitFails BY <1>4, KillAndReapKeeps DEF WaitFails, Results
  <1>5. CASE NothingTraced BY <1>5, Facts, LoopMoves DEF NothingTraced, kernel, Results
  <1>6. CASE Reaped BY <1>6, Facts, LoopMoves DEF Reaped, kernel, Results
  <1>7. QED BY <1>1, <1>2, <1>3, <1>4, <1>5, <1>6 DEF WaitStep

LEMMA HandleKeeps == ASSUME IInv, HandleStep PROVE IInv'
  <1>1. PICK t, c : t = handling.tid /\ c = handling.of OBVIOUS
  <1>2. ASSUME Done
        PROVE  /\ handling' = NotHandling
               /\ UNCHANGED << stop, leader, stopsLeft, follow, result, unreported >>
    BY <1>2 DEF Done, DoneWith
  <1>3. ASSUME NEW kinds, Handling(kinds)
        PROVE  /\ handling # NotHandling /\ handling.kind \in kinds /\ t \in Tid
               /\ handling.kind \in OfFork => c \in Tid \ {t}
    BY <1>1, <1>3, Facts DEF Handling
  <1>17. ASSUME NEW phase \in ForkPhase, GoOnWith(phase)
         PROVE  /\ UNCHANGED << stop, leader, stopsLeft, follow, result >>
                /\ \E p \in ForkPhase : handling' = [handling EXCEPT !.kind = p]
    BY <1>17 DEF GoOnWith
  <1>. DEFINE F == /\ handling # NotHandling /\ handling.kind \in OfFork /\ t \in Tid /\ c \in Tid \ {t}
  <1>18. {"adopting", "resuming", "continuing"} = ForkPhase /\ {"fork"} \cup ForkPhase = OfFork
    BY DEF ForkPhase, OfFork
  <1>4. CASE ForkGone BY <1>4, Facts, LoopMoves DEF ForkGone, Done, DoneWith
  <1>5. CASE ForkTakesStop
    <2>1. /\ F /\ state[c] = "stopped" /\ reported' = reported \cup {c} /\ GoOnWith("adopting")
          /\ UNCHANGED << state, traced, known, unreported >>
      BY <1>1, <1>3, <1>5, <1>18 DEF ForkTakesStop, HasStopped, Stopped
    <2>2. QED BY <1>17, <1>18, <2>1, Facts, LoopMoves
  <1>6. CASE ForkDefers
    <2>1. /\ F /\ GoOnWith("resuming") /\ UNCHANGED << reported, traced, known >>
          /\ state' = [state EXCEPT ![c] = IF HasDied(c) THEN "gone" ELSE @]
          /\ unreported' = IF HasDied(c) THEN unreported \cup {c} ELSE unreported
      BY <1>1, <1>3, <1>6, <1>18 DEF ForkDefers
    <2>2. HasDied(c) => state[c] = "zombie" BY DEF HasDied
    <2>3. \A u \in Tid : /\ u = c => state'[u] = IF HasDied(c) THEN "gone" ELSE state[c]
                         /\ u # c => state'[u] = state[u]
      BY <2>1, Facts
    <2>4. state' \in [Tid -> States] BY <2>1, Facts DEF States
    <2>5. QED BY <1>17, <1>18, <2>1, <2>2, <2>3, <2>4, Facts, LoopMoves
  <1>7. CASE ForkAdopts
    <2>1. F /\ UNCHANGED << state, reported, unreported >>
      BY <1>1, <1>3, <1>7, <1>18 DEF ForkAdopts
    <2>2. CASE Stopped(c)
      <3>1. /\ GoOnWith("continuing") /\ state[c] = "stopped"
            /\ traced' = traced \cup {c} /\ known' = known \cup {c}
        BY <1>1, <1>7, <2>2 DEF ForkAdopts, Stopped
      <3>2. QED BY <1>17, <1>18, <2>1, <3>1, Facts, LoopMoves
    <2>3. CASE ~Stopped(c)
      <3>1. GoOnWith("resuming") /\ UNCHANGED << traced, known >>
        BY <1>1, <1>7, <2>3 DEF ForkAdopts
      <3>2. QED BY <1>17, <1>18, <2>1, <3>1, Facts, LoopMoves
    <2>4. QED BY <2>2, <2>3
  <1>8. CASE ForkResumesChild
    <2>1. CASE Stopped(c)
      <3>1. /\ F /\ GoOnWith("resuming") /\ UNCHANGED << traced, known, unreported >>
            /\ state[c] = "stopped" /\ reported' = reported \ {c}
            /\ state' = [u \in Tid |-> IF u \in {c} THEN Continued(u) ELSE state[u]]
        BY <1>1, <1>3, <1>8, <1>18, <2>1 DEF ForkResumesChild, Resume, Stopped
      <3>2. QED BY <1>17, <1>18, <3>1, Facts, LoopMoves DEF States
    <2>2. CASE ~Stopped(c)
      BY <1>1, <1>8, <2>2, KillAndReapKeeps DEF ForkResumesChild, Results
    <2>3. QED BY <2>1, <2>2
  <1>19. ASSUME t \in Tid, Stopped(t), Resume({t}), Done, UNCHANGED << traced, known >> PROVE IInv'
    <2>1. /\ state[t] = "stopped" /\ reported' = reported \ {t}
          /\ state' = [u \in Tid |-> IF u \in {t} THEN Continued(u) ELSE state[u]]
      BY <1>19 DEF Resume, Stopped
    <2>2. QED BY <1>2, <1>19, <2>1, Facts, LoopMoves DEF States
  <1>20. CASE ForkResumesParent
    <2>1. CASE Stopped(t) BY <1>1, <1>3, <1>19, <1>20, <2>1 DEF ForkResumesParent
    <2>2. CASE ~Stopped(t)
      BY <1>1, <1>20, <2>2, KillAndReapKeeps DEF ForkResumesParent, Results
    <2>3. QED BY <2>1, <2>2
  <1>21. CASE ForkDetaches
    <2>1. CASE Stopped(c)
      <3>1. /\ F /\ GoOnWith("resuming") /\ UNCHANGED << traced, known >>
            /\ state' = [state EXCEPT ![c] = "detached"] /\ state[c] = "stopped"
            /\ reported' = reported \ {c} /\ unreported' = unreported \cup {c}
        BY <1>1, <1>3, <1>18, <1>21, <2>1 DEF ForkDetaches, Stopped
      <3>2. QED BY <1>17, <1>18, <3>1, Facts, LoopMoves DEF States
    <2>2. CASE ~Stopped(c)
      BY <1>1, <1>21, <2>2, KillAndReapKeeps DEF ForkDetaches, Results
    <2>3. QED BY <2>1, <2>2
  <1>9. ASSUME t \in Tid, ResumeOrForget(t), Done PROVE IInv'
    <2>1. CASE Stopped(t) BY <1>9, <1>19, <2>1 DEF ResumeOrForget
    <2>2. CASE ~Stopped(t)
      <3>1. /\ traced' = traced \ {t} /\ known' = known \ {t} /\ UNCHANGED << state, reported >>
        BY <1>9, <2>2 DEF ResumeOrForget, Forget
      <3>2. QED BY <1>2, <1>9, <3>1, Facts, LoopMoves
    <2>3. QED BY <2>1, <2>2
  <1>10. CASE HandleExec BY <1>1, <1>3, <1>9, <1>10 DEF HandleExec
  <1>11. CASE HandleExit BY <1>1, <1>3, <1>9, <1>11 DEF HandleExit
  <1>12. CASE HandleSignal BY <1>1, <1>3, <1>9, <1>12 DEF HandleSignal
  <1>13. CASE Adopt
    <2>1. t \in Tid /\ Done BY <1>1, <1>3, <1>13 DEF Adopt
    <2>2. CASE Stopped(t)
      <3>1. /\ state[t] = "stopped" /\ reported' = reported \ {t}
            /\ traced' = traced \cup {t} /\ known' = known \cup {t}
            /\ state' = [u \in Tid |-> IF u \in {t} THEN Continued(u) ELSE state[u]]
        BY <1>1, <1>13, <2>2 DEF Adopt, Resume, Stopped
      <3>2. QED BY <1>2, <2>1, <3>1, Facts, LoopMoves DEF States
    <2>3. CASE ~Stopped(t)
      <3>1. UNCHANGED << state, reported, traced, known >> BY <1>1, <1>13, <2>3 DEF Adopt
      <3>2. QED BY <1>2, <2>1, <3>1, Facts, LoopMoves
    <2>4. QED BY <2>2, <2>3
  <1>14. CASE HandleSyscall BY <1>1, <1>3, <1>14, <1>19 DEF HandleSyscall
  <1>15. CASE SyscallGone BY <1>15, KillAndReapKeeps DEF SyscallGone, Results
  <1>16. QED
    BY <1>4, <1>5, <1>6, <1>7, <1>8, <1>10, <1>11, <1>12, <1>13, <1>14, <1>15, <1>20, <1>21
       DEF HandleStep

LEMMA Inductive == Spec => []IInv
  <1>1. IInv /\ [Next]_vars => IInv'
    <2>1. ASSUME IInv, UNCHANGED vars PROVE IInv'
      BY <2>1
         DEF vars, kernel, loop, IInv, TracedExist, TypeOK, Absent, ForksNameTasks, DetachedUnseen,
             NotHandling
    <2>2. ASSUME IInv, Timeout PROVE IInv' BY <2>2, KillAndReapKeeps DEF Timeout, Results
    <2>3. QED BY <2>1, <2>2, KernelKeeps, WaitKeeps, HandleKeeps DEF Next, LoopStep
  <1>2. QED BY InitIInv, <1>1, PTL DEF Spec

(* Whatever stops, dies or is killed in whichever order, an id stays in    *)
(* traced_pids_ no longer than its task, unless its end was taken from the *)
(* loop's wait: so the timeout and the destructor signal tasks that exist. *)
THEOREM TracedIdsExist == Spec => []TracedExist
  BY Inductive, PTL DEF IInv

-----------------------------------------------------------------------------
(* Why run() throws.  A workload that is followed, and in which a thread   *)
(* ends only by itself:                                                    *)
Undisturbed == FollowModes = {TRUE} /\ ~GroupExits /\ ~WorkerExecs

(* then the task that is handled is still at its stop, and so is a child   *)
(* that has been adopted and is yet to be resumed.                         *)
HandledIsStopped ==
  /\ follow
  /\ handling # NotHandling =>
       /\ handling.tid \in Tid /\ Stopped(handling.tid)
       /\ handling.kind = "continuing" => handling.of \in Tid /\ Stopped(handling.of)

LEMMA StoppedStays ==
  ASSUME Undisturbed, IInv, KernelStep, NEW u \in Tid, Stopped(u)
  PROVE  Stopped(u)'
  <1>. USE DEF Stopped
  <1>1. PICK t \in Tid :
          \/ SyscallOrSignal(t) \/ FirstStop(t) \/ ThreadExit(t) \/ GroupExit(t)
          \/ ExecBegin(t) \/ ExecDone(t) \/ ExitStop(t) \/ DetachedEnds(t)
          \/ \E child \in Tid : Create(t, child)
    BY DEF KernelStep
  <1>2. state \in [Tid -> States] BY Facts
  <1>3. KillTasks({}) = state BY <1>2 DEF KillTasks
  <1>4. CASE SyscallOrSignal(t) \/ FirstStop(t) \/ ThreadExit(t) \/ ExitStop(t)
    <2>1. state' = [state EXCEPT ![t] = "stopped"]
      BY <1>4 DEF SyscallOrSignal, FirstStop, ThreadExit, ExitStop, StopAt
    <2>2. QED BY <1>2, <2>1
  <1>5. CASE GroupExit(t) BY <1>5 DEF GroupExit, Undisturbed
  <1>6. CASE ExecBegin(t)
    <2>1. Others(t) = {} BY <1>6 DEF ExecBegin, Undisturbed
    <2>2. state' = [state EXCEPT ![t] = "execing"] /\ state[t] = "running"
      BY <1>3, <1>6, <2>1 DEF ExecBegin
    <2>3. QED BY <1>2, <2>2
  <1>7. CASE ExecDone(t)
    <2>1. /\ state[t] = "execing"
          /\ state'[u] = CASE u = leader[t] -> "stopped"
                           [] u = t /\ t # leader[t] -> "gone"
                           [] OTHER -> state[u]
      BY <1>7 DEF ExecDone
    <2>2. u # t BY <2>1
    <2>3. QED BY <2>1, <2>2
  <1>8. CASE DetachedEnds(t)
    <2>1. state' = [state EXCEPT ![t] = "gone"] /\ state[t] = "detached"
      BY <1>3, <1>8 DEF DetachedEnds, Undisturbed
    <2>2. QED BY <1>2, <2>1
  <1>9. CASE \E child \in Tid : Create(t, child)
    <2>1. PICK c \in Tid : /\ state[c] = "none"
                           /\ state' = [state EXCEPT ![t] = "stopped", ![c] = "starting"]
      BY <1>9 DEF Create
    <2>2. QED BY <1>2, <2>1
  <1>10. QED BY <1>1, <1>4, <1>5, <1>6, <1>7, <1>8, <1>9

LEMMA ForkStays ==
  ASSUME IInv, HandledIsStopped,
         \/ ForkTakesStop \/ ForkDefers \/ ForkAdopts \/ ForkResumesChild \/ ForkResumesParent
         \/ ForkDetaches
  PROVE  HandledIsStopped'
  <1>1. PICK t, c : t = handling.tid /\ c = handling.of OBVIOUS
  <1>2. /\ follow /\ t \in Tid /\ c \in Tid \ {t} /\ state[t] = "stopped"
        /\ handling \in Handlings /\ state \in [Tid -> States]
    <2>1. handling # NotHandling /\ handling.kind \in OfFork
      BY DEF ForkTakesStop, ForkDefers, ForkAdopts, ForkResumesChild, ForkResumesParent,
             ForkDetaches, Handling, OfFork, ForkPhase
    <2>2. handling \in Handlings BY DEF IInv, TracedExist, TypeOK, Handlings
    <2>3. QED BY <1>1, <2>1, <2>2, Facts DEF HandledIsStopped, Stopped
  <1>3. ASSUME NEW phase \in ForkPhase, GoOnWith(phase), state'[t] = "stopped",
               phase = "continuing" => state'[c] = "stopped"
        PROVE  HandledIsStopped'
    <2>1. /\ handling'.tid = t /\ handling'.kind = phase /\ handling'.of = c /\ follow' = follow
      BY <1>1, <1>2, <1>3 DEF GoOnWith, Handlings
    <2>2. QED BY <1>2, <1>3, <2>1 DEF HandledIsStopped, Stopped
  <1>4. ASSUME handling' = NotHandling, follow' = follow PROVE HandledIsStopped'
    BY <1>2, <1>4 DEF HandledIsStopped
  <1>5. {"adopting", "resuming", "continuing"} = ForkPhase BY DEF ForkPhase
  <1>6. CASE ForkTakesStop BY <1>2, <1>3, <1>5, <1>6 DEF ForkTakesStop
  <1>7. CASE ForkDefers
    <2>1. state' = [state EXCEPT ![c] = IF HasDied(c) THEN "gone" ELSE @] /\ GoOnWith("resuming")
      BY <1>1, <1>7 DEF ForkDefers
    <2>2. QED BY <1>2, <1>3, <1>5, <2>1
  <1>8. CASE ForkAdopts
    <2>1. state' = state /\ (GoOnWith("resuming") \/ (GoOnWith("continuing") /\ state[c] = "stopped"))
      BY <1>1, <1>8 DEF ForkAdopts, Stopped
    <2>2. QED BY <1>2, <1>3, <1>5, <2>1
  <1>9. CASE ForkResumesChild
    <2>1. Handling({"continuing"}) BY <1>9 DEF ForkResumesChild
    <2>2. Stopped(c) BY <1>1, <2>1 DEF HandledIsStopped, Handling
    <2>3. /\ GoOnWith("resuming")
          /\ state' = [u \in Tid |-> IF u \in {c} THEN Continued(u) ELSE state[u]]
      BY <1>1, <1>9, <2>2 DEF ForkResumesChild, Resume
    <2>4. QED BY <1>2, <1>3, <1>5, <2>3
  <1>10. CASE ForkResumesParent
    BY <1>4, <1>10 DEF ForkResumesParent, Done, DoneWith, KillAndReap
  <1>11. CASE ForkDetaches BY <1>2, <1>11 DEF ForkDetaches
  <1>12. QED BY <1>6, <1>7, <1>8, <1>9, <1>10, <1>11

LEMMA HandledStays == ASSUME Undisturbed, IInv, HandledIsStopped, [Next]_vars PROVE HandledIsStopped'
  <1>1. CASE KernelStep
    <2>1. UNCHANGED loop
      BY <1>1
         DEF KernelStep, SyscallOrSignal, FirstStop, ThreadExit, GroupExit, ExecBegin, ExecDone,
             ExitStop, DetachedEnds, Create
    <2>2. QED BY <1>1, <2>1, StoppedStays DEF HandledIsStopped, loop, NotHandling, Stopped
  <1>2. CASE Timeout \/ WaitFails \/ SyscallGone
    <2>1. handling' = NotHandling /\ follow' = follow
      BY <1>2 DEF Timeout, WaitFails, SyscallGone, KillAndReap
    <2>2. QED BY <1>2, <2>1 DEF HandledIsStopped
  <1>7. CASE ForkGone \/ HandleExec \/ HandleExit \/ HandleSignal \/ Adopt \/ HandleSyscall
    <2>1. handling' = NotHandling /\ follow' = follow
      BY <1>7
         DEF ForkGone, HandleExec, HandleExit, HandleSignal, Adopt, HandleSyscall, Done, DoneWith
    <2>2. QED BY <1>7, <2>1 DEF HandledIsStopped
  <1>8. CASE ForkTakesStop \/ ForkDefers \/ ForkAdopts \/ ForkResumesChild \/ ForkResumesParent
             \/ ForkDetaches
    BY <1>8, ForkStays
  <1>3. ASSUME NEW t \in Tid, WaitStop(t) PROVE HandledIsStopped'
    <2>1. /\ handling' = [tid |-> t, kind |-> stop[t].kind, of |-> stop[t].of]
          /\ state' = state /\ follow' = follow /\ state[t] = "stopped"
      BY <1>3 DEF WaitStop, HasStopped, Stopped
    <2>2. handling'.tid = t /\ handling'.kind \in StopKind
      BY <2>1 DEF IInv, TracedExist, TypeOK
    <2>3. QED BY <2>1, <2>2 DEF HandledIsStopped, Stopped, StopKind
  <1>4. ASSUME NEW t \in Tid, WaitDeath(t) \/ Reap(t) PROVE HandledIsStopped'
    <2>1. /\ state' = state \/ (state[t] = "zombie" /\ state' = [state EXCEPT ![t] = "gone"])
          /\ handling' = handling /\ follow' = follow
      BY <1>4 DEF WaitDeath, Reap, HasDied
    <2>2. \A u \in Tid : Stopped(u) => Stopped(u)' BY <2>1, Facts DEF Stopped
    <2>3. QED BY <2>1, <2>2 DEF HandledIsStopped, NotHandling, Stopped
  <1>5. CASE NothingTraced \/ Reaped \/ UNCHANGED vars
    BY <1>5 DEF NothingTraced, Reaped, vars, kernel, loop, HandledIsStopped, NotHandling, Stopped
  <1>6. QED BY <1>1, <1>2, <1>3, <1>4, <1>5, <1>7, <1>8 DEF Next, LoopStep, WaitStep, HandleStep

(* waitpid fails for want of children only when each of the ids left in    *)
(* traced_pids_ is one whose end was taken from the loop: every other      *)
(* death is noticed.                                                       *)
THEOREM WaitFailsForUnseen == Spec => [][WaitFails => traced \subseteq unreported]_vars
  <1>1. IInv => (WaitFails => traced \subseteq unreported)
    BY Facts DEF WaitFails, NoChildren
  <1>2. QED BY <1>1, Inductive, PTL

(* And when forks are followed and threads end only by themselves, that is *)
(* the one reason for which run() throws.                                  *)
ThrowsForUnseen ==
  result = "none" /\ result' = "reaping_threw" => traced # {} /\ traced \subseteq unreported

THEOREM ThrowsOnlyForUnseen == ASSUME Undisturbed PROVE Spec => [][ThrowsForUnseen]_vars
  <1>1. Init => HandledIsStopped
    BY DEF Init, HandledIsStopped, Undisturbed, NotHandling
  <1>2. ASSUME IInv, HandledIsStopped, [Next]_vars PROVE ThrowsForUnseen
    <2>1. CASE WaitFails BY <1>2, <2>1, Facts DEF WaitFails, NoChildren, Looping, ThrowsForUnseen
    <2>2. /\ ~ForkDetaches /\ ~SyscallGone
          /\ ForkResumesChild => GoOnWith("resuming")
          /\ ForkResumesParent => Done
      BY <1>2
         DEF ForkDetaches, SyscallGone, ForkResumesChild, ForkResumesParent, Handling,
             HandledIsStopped
    <2>3. CASE ~WaitFails
      <3>1. result' # "reaping_threw" \/ result' = result
        BY <1>2, <2>2, <2>3
           DEF Next, KernelStep, LoopStep, WaitStep, HandleStep, Timeout, KillAndReap, WaitStop,
               WaitDeath, Reap, NothingTraced, Reaped, ForkGone, ForkTakesStop, ForkDefers,
               ForkAdopts, GoOnWith, HandleExec, HandleExit, HandleSignal, Adopt, HandleSyscall,
               Done, DoneWith,
               SyscallOrSignal, FirstStop, ThreadExit, GroupExit, ExecBegin, ExecDone, ExitStop,
               DetachedEnds, Create, loop, vars
      <3>2. QED BY <3>1 DEF ThrowsForUnseen
    <2>4. QED BY <2>1, <2>3
  <1>3. Spec => []HandledIsStopped BY <1>1, HandledStays, Inductive, PTL DEF Spec
  <1>4. QED BY <1>2, <1>3, Inductive, PTL DEF Spec
=============================================================================
