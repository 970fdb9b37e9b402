---------------------------- MODULE DetectionProofs ----------------------------
(***************************************************************************)
(* Theorems about Detection, for any processes, threads and descriptors,   *)
(* any bound on the calls and any workload that WorkloadAssumption allows. *)
(*                                                                         *)
(* First what is true of the trace at every moment (TraceInv), then what   *)
(* the graph and the rules make of it.                                     *)
(***************************************************************************)
EXTENDS DetectionInvariants, FiniteSetTheorems, WellFoundedInduction, TLAPS

-----------------------------------------------------------------------------
(* A set of numbers has a least one, which is what induction rests on; the *)
(* library's theorems give it for a well-founded order.                    *)
LEMMA LessIsWellFounded == IsWellFoundedOn({p \in Nat \X Nat : p[1] < p[2]}, Nat)
  BY NatLessThanWellFounded, Zenon DEF OpToRel

LEMMA LeastNumber ==
  ASSUME NEW S \in SUBSET Nat, S # {}
  PROVE  \E n \in S : \A m \in S : n <= m
  <1>. DEFINE less == {p \in Nat \X Nat : p[1] < p[2]}
  <1>1. IsWellFoundedOn(less, Nat) /\ S \subseteq Nat  BY LessIsWellFounded
  <1>. HIDE DEF less
  <1>2. \E n \in S : \A m \in S : << m, n >> \notin less  BY <1>1, WFMin
  <1>3. \A m, n \in S : << m, n >> \notin less => n <= m  BY <1>1 DEF less
  <1>4. QED BY <1>2, <1>3

LEMMA Induct ==
  ASSUME NEW S, 0 \in S, \A n \in Nat : n \in S => n + 1 \in S
  PROVE  Nat \subseteq S
  <1>1. SUFFICES ASSUME Nat \ S # {} PROVE FALSE
    OBVIOUS
  <1>2. PICK n \in Nat \ S : \A m \in Nat \ S : n <= m  BY <1>1, LeastNumber
  <1>3. n # 0  BY <1>2
  <1>4. n - 1 \in Nat /\ n - 1 \in S  BY <1>2, <1>3
  <1>5. QED BY <1>2, <1>4

LEMMA GreatestNumber ==
  ASSUME NEW S \in SUBSET Nat, S # {}, NEW bound \in Nat, \A n \in S : n <= bound
  PROVE  \E n \in S : \A m \in S : m <= n
  <1> DEFINE T == {bound - n : n \in S}
  <1>0. \A n \in S : bound - n \in Nat
    OBVIOUS
  <1>1. T \in SUBSET Nat /\ T # {}  BY <1>0
  <1>2. PICK k \in T : \A l \in T : k <= l  BY <1>1, LeastNumber
  <1>3. PICK n \in S : k = bound - n  BY <1>2
  <1>4. \A m \in S : bound - n <= bound - m  BY <1>2, <1>3
  <1>5. QED BY <1>3, <1>4

(* What a recursive function is, with its values in a set. *)
Unfolding(D, a, step, N) ==
  \E g \in [0 .. N -> D] : g[0] = a /\ \A n \in 1 .. N : g[n] = step[<< n, g[n - 1] >>]

LEMMA Recursion ==
  ASSUME NEW D, NEW a \in D, NEW step \in [Nat \X D -> D], NEW N \in Nat
  PROVE  Unfolding(D, a, step, N)
  <1> DEFINE Fits(g, n) == g[0] = a /\ \A k \in 1 .. n : g[k] = step[<< k, g[k - 1] >>]
             S == {n \in Nat : \E g \in [0 .. n -> D] : Fits(g, n)}
  <1>1. 0 \in S
    <2> DEFINE g == [k \in 0 .. 0 |-> a]
    <2>1. g \in [0 .. 0 -> D] /\ Fits(g, 0)
      OBVIOUS
    <2>2. QED BY <2>1
  <1>2. \A n \in Nat : n \in S => n + 1 \in S
    <2> SUFFICES ASSUME NEW n \in Nat, n \in S PROVE n + 1 \in S
      OBVIOUS
    <2>1. PICK g \in [0 .. n -> D] : Fits(g, n)
      OBVIOUS
    <2> DEFINE h == [k \in 0 .. n + 1 |-> IF k <= n THEN g[k] ELSE step[<< n + 1, g[n] >>]]
    <2>2. step[<< n + 1, g[n] >>] \in D
      OBVIOUS
    <2>3. h \in [0 .. n + 1 -> D]  BY <2>2
    <2>4. h[0] = a  BY <2>1
    <2>5. \A k \in 1 .. n : h[k] = step[<< k, h[k - 1] >>]  BY <2>1
    <2>6. h[n + 1] = step[<< n + 1, h[n] >>]
      <3>1. h[n] = g[n]
        OBVIOUS
      <3>2. h[n + 1] = step[<< n + 1, g[n] >>]
        OBVIOUS
      <3>3. QED BY <3>1, <3>2
    <2> HIDE DEF h
    <2>7. \A k \in 1 .. n + 1 : k \in 1 .. n \/ k = n + 1
      OBVIOUS
    <2>8. Fits(h, n + 1)  BY <2>4, <2>5, <2>6, <2>7
    <2>9. QED BY <2>3, <2>8
  <1> HIDE DEF S
  <1>3. N \in S  BY <1>1, <1>2, Induct
  <1>4. QED BY <1>3 DEF S, Unfolding

-----------------------------------------------------------------------------
(* What the assumptions say, and the types of the initial state.           *)
LEMMA Values ==
  /\ Fd \subseteq Nat /\ 0 \notin Fd
  /\ NoValue # Secret /\ NoValue # Large /\ Secret # Large
  /\ NoProgram \notin Program /\ NoSource \notin Endpoint /\ NoSource \notin Kinds
  /\ NoSource \notin {"read", "write"}
  BY InputsAssumption DEF ValuesAssumption, Kinds

LEMMA SeqOfMore ==
  ASSUME NEW S, NEW T, S \subseteq T, NEW s \in Seq(S)
  PROVE  s \in Seq(T)
  OBVIOUS

LEMMA Inputs ==
  ASSUME workload \in Workloads
  PROVE  /\ NoSession \notin Proc
         /\ workload.files \in Seq(PipeEnd("pipe read", "read") \cup PipeEnd("pipe write", "write"))
         /\ workload.tables \in [Proc -> [Fd -> 0 .. Len(workload.files)]]
         /\ workload.knows \subseteq Proc
         /\ NoSource \notin workload.names
         /\ \A t \in Thread : workload.payloads[t] \subseteq {Secret, Large}
         /\ \A t, u \in Thread : t # u /\ Of(t) = Of(u) =>
              "execve" \notin workload.offers[t] /\ \A f \in Fd : workload.tables[Of(t)][f] = 0
         /\ \A p \in Proc, f, g \in Fd :
              LET k == workload.tables[p][f]
                  l == workload.tables[p][g]
              IN k # 0 /\ l # 0 /\ workload.files[k].pipe = workload.files[l].pipe
                 => workload.files[k].role = workload.files[l].role
         /\ workload.minimums \subseteq Range(R!Severity)
  BY InputsAssumption, Zenon DEF WorkloadAssumption, Proc, Thread, Of

LEMMA InitTypes == Init => TypeInv
  <1> SUFFICES ASSUME Init PROVE TypeInv
    OBVIOUS
  <1>1. workload \in Workloads  BY DEF Init
  <1>2. call \in [Thread -> CallType]
    <2>1. NoCall \in CallType  BY DEF CallType, NoCall, What, Names
    <2>2. QED BY <2>1, Zenon DEF Init
  <1>3. files \in Seq(FileType)
    <2> DEFINE ends == PipeEnd("pipe read", "read") \cup PipeEnd("pipe write", "write")
    <2>1. files \in Seq(ends) /\ files = workload.files
      BY <1>1, Inputs DEF Init
    <2> HIDE DEF ends
    <2>2. ASSUME NEW k \in DOMAIN files PROVE files[k] \in FileType
      <3> DEFINE file == files[k]
      <3>1. file \in ends /\ file.pipe \in Pipes  BY <2>1 DEF Pipes
      <3>2. NoSource \in Names /\ << NoSession, 0 >> \in Maker /\ NoSource \notin {"read", "write"}
        BY Values DEF Names, Maker
      <3> SUFFICES file \in FileType
        OBVIOUS
      <3>0. file \in PipeEnd("pipe read", "read") \/ file \in PipeEnd("pipe write", "write")
        BY <3>1 DEF ends
      <3> HIDE DEF file
      <3>3. CASE file \in PipeEnd("pipe read", "read")
        <4>1. /\ file.kind = "pipe read" /\ file.role = "read" /\ file.by = << NoSession, 0 >>
              /\ file.pipe \in Nat /\ file.pipe # 0
          BY <3>3 DEF PipeEnd
        <4>2. file \in [kind: Kinds, name: Names, by: Maker, pipe: Nat, role: Roles]
          BY <3>2, <3>3 DEF PipeEnd, Kinds, Roles
        <4>3. file.by = << NoSession, 0 >> /\ << NoSession, 0 >>[1] = NoSession
          BY <4>1
        <4>4. QED BY <3>1, <3>2, <4>1, <4>2, <4>3 DEF FileType
      <3>4. CASE file \in PipeEnd("pipe write", "write")
        <4>1. /\ file.kind = "pipe write" /\ file.role = "write" /\ file.by = << NoSession, 0 >>
              /\ file.pipe \in Nat /\ file.pipe # 0
          BY <3>4 DEF PipeEnd
        <4>2. file \in [kind: Kinds, name: Names, by: Maker, pipe: Nat, role: Roles]
          BY <3>2, <3>4 DEF PipeEnd, Kinds, Roles
        <4>3. file.by = << NoSession, 0 >> /\ << NoSession, 0 >>[1] = NoSession
          BY <4>1
        <4>4. QED BY <3>1, <3>2, <4>1, <4>2, <4>3 DEF FileType
      <3>5. QED BY <3>0, <3>3, <3>4
    <2>3. QED BY <2>1, <2>2
  <1>4. table \in [Proc -> [Fd -> 0 .. Len(files)]]  BY <1>1, Inputs DEF Init
  <1>5. pipe \in [Pipes -> Seq(Nat)]  BY DEF Init, Pipes
  <1>6. knows \subseteq Proc /\ generation \in [Proc -> Nat]
    BY <1>1, Inputs DEF Init
  <1>7. \A t \in Thread : call[t] = NoCall  BY DEF Init
  <1>8. QED BY <1>1, <1>2, <1>3, <1>4, <1>5, <1>6, <1>7 DEF Init, TypeInv

LEMMA OffersAre ==
  ASSUME TypeInv, NEW p \in Proc, NEW ops, NEW payloads, payloads \subseteq {Secret, Large},
         NEW c \in Offers(p, ops, payloads)
  PROVE  c.op \in ops /\ Fitting(p, c, payloads)
  <1> USE DEF Fitting
  <1>1. table[p] \in [Fd -> 0 .. Len(files)] /\ Len(files) \in Nat
    BY DEF TypeInv
  <1>2. \A f \in Fd : IsOpen(p, f) => table[p][f] \in 1 .. Len(files)
    BY <1>1 DEF IsOpen
  <1>3. c.op \in ops  BY DEF Offers
  <1>4. CASE \E name \in workload.names : c = Call("open", 0, name)
    <2>1. PICK name \in workload.names : c = Call("open", 0, name)  BY <1>4
    <2>2. c.op = "open" /\ c.fd = 0 /\ c.what = name  BY <2>1 DEF Call
    <2>3. QED BY <1>3, <2>2 DEF Ops, What, Names
  <1>5. CASE \E f \in {f \in Fd : IsOpen(p, f)} : c = Call("close", f, NoSource)
    <2>1. PICK f \in Fd : IsOpen(p, f) /\ c = Call("close", f, NoSource)
      BY <1>5
    <2>2. c.op = "close" /\ c.fd = f /\ c.what = NoSource  BY <2>1 DEF Call
    <2>3. QED BY <1>2, <1>3, <2>1, <2>2, Values DEF Ops, What, Names
  <1>6. CASE \E f \in Readable(p) : c = Call("read", f, NoValue)
    <2>1. PICK f \in Readable(p) : c = Call("read", f, NoValue)  BY <1>6
    <2>2. c.op = "read" /\ c.fd = f /\ c.what = NoValue  BY <2>1 DEF Call
    <2>3. f \in Fd /\ IsOpen(p, f) /\ At(p, f).kind \in {"file", "peer", "pipe read"}
      BY DEF Readable
    <2>4. QED BY <1>2, <1>3, <2>2, <2>3, Values DEF Ops, What, Names
  <1>7. CASE \E f \in Writable(p), what \in payloads : c = Call("write", f, what)
    <2>1. PICK f \in Writable(p), what \in payloads : c = Call("write", f, what)
      BY <1>7
    <2>2. c.op = "write" /\ c.fd = f /\ c.what = what  BY <2>1 DEF Call
    <2>3. f \in Fd /\ IsOpen(p, f) /\ At(p, f).kind \in {"socket", "peer", "pipe write"}
      BY DEF Writable
    <2>4. QED BY <1>2, <1>3, <2>2, <2>3, Values DEF Ops, What, Names
  <1>8. CASE \E f \in Sockets(p), e \in Endpoint : c = Call("connect", f, e)
    <2>1. PICK f \in Sockets(p), e \in Endpoint : c = Call("connect", f, e)
      BY <1>8
    <2>2. c.op = "connect" /\ c.fd = f /\ c.what = e  BY <2>1 DEF Call
    <2>3. f \in Fd /\ IsOpen(p, f) /\ At(p, f).kind = "socket"  BY DEF Sockets
    <2>4. QED BY <1>2, <1>3, <2>2, <2>3, Values DEF Ops, What, Names
  <1>9. CASE \E name \in Program : c = Call("execve", 0, name)
    <2>1. PICK name \in Program : c = Call("execve", 0, name)  BY <1>9
    <2>2. c.op = "execve" /\ c.fd = 0 /\ c.what = name  BY <2>1 DEF Call
    <2>3. QED BY <1>3, <2>2 DEF Ops, What, Names
  <1>10. \/ \E name \in workload.names : c = Call("open", 0, name)
         \/ \E f \in {f \in Fd : IsOpen(p, f)} : c = Call("close", f, NoSource)
         \/ \E f \in Readable(p) : c = Call("read", f, NoValue)
         \/ \E f \in Writable(p), what \in payloads : c = Call("write", f, what)
         \/ \E f \in Sockets(p), e \in Endpoint : c = Call("connect", f, e)
         \/ \E name \in Program : c = Call("execve", 0, name)
    BY DEF Offers
  <1>11. QED BY <1>4, <1>5, <1>6, <1>7, <1>8, <1>9, <1>10

LEMMA OfProc == \A t \in Thread : Of(t) \in Proc
  BY DEF Thread, Of, Proc, Range

LEMMA EventIs ==
  ASSUME TypeInv, NEW p \in Proc, NEW ops, NEW payloads, payloads \subseteq {Secret, Large},
         NEW c \in Offers(p, ops, payloads), NEW time \in Nat
  PROVE  EventObservation(p, c, time) \in EventType
  <1>0. Fitting(p, c, payloads)  BY OffersAre
  <1>5. c.op \in Ops /\ c.fd \in Nat /\ c.what \in What  BY <1>0 DEF Fitting
  <1>1. generation[p] \in Nat /\ Carries(c) \in {NoValue, Secret}
    BY <1>0 DEF TypeInv, Carries, Fitting
  <1>2. (IF c.op \in {"open", "connect", "execve"} THEN c.what ELSE NoSource) \in What
    BY <1>5 DEF What, Names
  <1>3. c.fd # 0 => At(p, c.fd) \in FileType
    <2>1. c.fd # 0 => table[p][c.fd] \in 1 .. Len(files)  BY <1>0 DEF Fitting
    <2>2. files \in Seq(FileType)  BY DEF TypeInv
    <2>3. QED BY <2>1, <2>2 DEF At
  <1>4. (IF c.fd # 0 THEN At(p, c.fd).pipe ELSE 0) \in Nat
        /\ (IF c.fd # 0 THEN At(p, c.fd).role ELSE NoSource) \in Roles
    BY <1>3 DEF FileType, Roles
  <1> HIDE DEF What, Roles
  <1>8. QED BY <1>1, <1>2, <1>4, <1>5 DEF EventObservation, EventType

LEMMA FoundAre ==
  ASSUME NEW p, NEW time, NEW n, NEW locations, NEW l \in locations
  PROVE  /\ DataObservation(p, l, time, 0) \in Found(p, time, n, locations)
         /\ DataObservation(p, l, time, n) \in Found(p, time, n, locations)
  <1>1. 0 \in {0, n} /\ n \in {0, n}
    OBVIOUS
  <1>2. QED BY <1>1 DEF Found

LEMMA OneOrNone ==
  ASSUME NEW S, NEW x \in S, NEW s \in {<< >>, << x >>}
  PROVE  s \in Seq(S)
  <1>1. << >> \in Seq(S) /\ << x >> \in Seq(S)
    OBVIOUS
  <1>2. QED BY <1>1

LEMMA ScanFinds ==
  ASSUME NEW p, NEW time, NEW found \in Scan(p, time)
  PROVE  found \in {<< >>, << DataObservation(p, "memory", time, 0) >>}
  BY DEF Scan

LEMMA ConcatIn ==
  ASSUME NEW S, NEW a \in Seq(S), NEW b \in Seq(S)
  PROVE  a \o b \in Seq(S)
  OBVIOUS

LEMMA EnterIsEntry ==
  ASSUME TypeInv, NEW t \in Thread, Enter(t)
  PROVE  /\ \E c : Entry(t, c)
         /\ \E more \in Seq(Found(Of(t), clock + 1, Len(observations) + 1,
                                 {"memory", "environment", "write"})) : data' = data \o more
  <1> DEFINE p == Of(t)
             time == clock + 1
             n == Len(observations) + 1
             new == Image(p) \notin scanned
             D == Found(p, time, n, {"memory", "environment", "write"})
  <1>1. PICK c \in Offers(p, workload.offers[t], workload.payloads[t]) :
          /\ actual' = Append(actual, [image |-> Image(p), kind |-> NoSource, name |-> NoSource,
                                       by |-> Image(p), from |-> 0, what |-> c.what])
          /\ call' = [call EXCEPT ![t] = [op |-> c.op, fd |-> c.fd, what |-> c.what,
                                          obs |-> n, ret |-> 0, done |-> FALSE]]
          /\ observations' = Append(observations, EventObservation(p, c, time))
          /\ \E first \in IF new THEN Scan(p, time) ELSE {<< >>},
                boundary \in IF Carries(c) # NoValue THEN Scan(p, time) ELSE {<< >>} :
               data' = data \o ((IF new THEN StartUp(p, time) ELSE << >>) \o first
                                \o (IF Carries(c) # NoValue THEN << DataObservation(p, "write", time, n) >> ELSE << >>)
                                \o boundary)
    BY Zenon DEF Enter
  <1>2. PICK first \in IF new THEN Scan(p, time) ELSE {<< >>},
             boundary \in IF Carries(c) # NoValue THEN Scan(p, time) ELSE {<< >>} :
          data' = data \o ((IF new THEN StartUp(p, time) ELSE << >>) \o first
                           \o (IF Carries(c) # NoValue THEN << DataObservation(p, "write", time, n) >> ELSE << >>)
                           \o boundary)
    BY <1>1
  <1>3. Entry(t, c)  BY <1>1, Zenon DEF Enter, Entry
  <1>4. /\ DataObservation(p, "memory", time, 0) \in D
        /\ DataObservation(p, "environment", time, 0) \in D
        /\ DataObservation(p, "write", time, n) \in D
    BY FoundAre
  <1> HIDE DEF D
  <1> DEFINE a == IF new THEN StartUp(p, time) ELSE << >>
             b == IF Carries(c) # NoValue THEN << DataObservation(p, "write", time, n) >> ELSE << >>
  <1>5. /\ first \in {<< >>, << DataObservation(p, "memory", time, 0) >>}
        /\ boundary \in {<< >>, << DataObservation(p, "memory", time, 0) >>}
    BY ScanFinds
  <1>6. /\ a \in {<< >>, << DataObservation(p, "environment", time, 0) >>}
        /\ b \in {<< >>, << DataObservation(p, "write", time, n) >>}
    BY DEF StartUp
  <1> HIDE DEF a, b
  <1>7. first \in Seq(D) /\ boundary \in Seq(D) /\ a \in Seq(D) /\ b \in Seq(D)
    BY <1>4, <1>5, <1>6, OneOrNone
  <1>8. a \o first \o b \o boundary \in Seq(D)  BY <1>7, ConcatIn
  <1>9. \E more \in Seq(D) : data' = data \o more  BY <1>2, <1>8 DEF a, b
  <1>10. QED BY <1>3, <1>9 DEF D

LEMMA LowestFree ==
  ASSUME NEW p \in Proc, Free(p) # {}
  PROVE  /\ (CHOOSE f \in Free(p) : \A g \in Free(p) : f <= g) \in Fd
         /\ table[p][CHOOSE f \in Free(p) : \A g \in Free(p) : f <= g] = 0
  <1>1. Free(p) \in SUBSET Nat  BY Values DEF Free
  <1>2. \E f \in Free(p) : \A g \in Free(p) : f <= g  BY <1>1, LeastNumber
  <1>3. QED BY <1>2 DEF Free, IsOpen

LEMMA EffectsAre ==
  ASSUME TypeInv, NEW t \in Thread, Effects(t)
  PROVE  \E ret \in Int : Effect(t, ret)
  <1> USE DEF Unobserved, analyzer
  <1>1. CASE Fails(t)
    <2>1. Tracing /\ call[t] # NoCall /\ ~call[t].done
          /\ (Done(t, -13) \/ Done(t, -9) \/ Done(t, -32))
      BY <1>1 DEF Fails, Runs
    <2>2. QED BY <1>1, <2>1 DEF Fails, Effect
  <1>2. CASE Opens(t)
    <2>1. Free(Of(t)) # {} /\ Of(t) \in Proc  BY <1>2, OfProc DEF Opens
    <2>2. PICK f \in Fd : Done(t, f)  BY <1>2, <2>1, LowestFree DEF Opens
    <2>3. f \in Int  BY Values
    <2>4. QED BY <1>2, <2>2, <2>3 DEF Opens, Effect, Runs
  <1>3. CASE Closes(t)  BY <1>3 DEF Closes, Effect, Runs
  <1>4. CASE ConnectsTo(t)  BY <1>4 DEF ConnectsTo, Effect, Runs
  <1>5. CASE Reads(t)
    <2>1. Runs(t, "read") /\ Done(t, 1) /\ Unobserved
      BY <1>5, Zenon DEF Reads
    <2>2. QED BY <2>1 DEF Effect, Runs
  <1>6. CASE Writes(t)
    <2> DEFINE ret == IF At(Of(t), call[t].fd).kind = "socket" /\ At(Of(t), call[t].fd).name = NoSource
                      THEN -32 ELSE 1
    <2>1. Runs(t, "write") /\ Done(t, ret) /\ Unobserved
      BY <1>6, Zenon DEF Writes
    <2>2. ret \in Int
      OBVIOUS
    <2> HIDE DEF ret
    <2>3. QED BY <2>1, <2>2 DEF Effect, Runs
  <1>7. CASE Execs(t)  BY <1>7 DEF Execs, Effect, Runs
  <1>8. QED BY <1>1, <1>2, <1>3, <1>4, <1>5, <1>6, <1>7 DEF Effects

LEMMA ExitIsLeaving ==
  ASSUME TypeInv, NEW t \in Thread, Exit(t)
  PROVE  /\ Leaving(t)
         /\ Linked(t)
         /\ \E more \in Seq(IF call[t].op = "read" /\ call[t].ret > 0
                            THEN Found(Of(t), clock + 1, call[t].obs, {"memory", "read"}) ELSE {}) :
              data' = data \o more
  <1> DEFINE got == call[t].op = "read" /\ call[t].ret > 0
             D == IF got THEN Found(Of(t), clock + 1, call[t].obs, {"memory", "read"}) ELSE {}
             a == IF got THEN << DataObservation(Of(t), "read", clock + 1, call[t].obs) >> ELSE << >>
  <1> DEFINE obs == [observations EXCEPT ![call[t].obs] = Returned(observations[call[t].obs], call[t], clock + 1)]
  <1>0. /\ Tracing /\ call[t] # NoCall /\ call[t].done
        /\ call' = [call EXCEPT ![t] = NoCall]
        /\ observations' = obs
        /\ clock' = clock + 1
        /\ edges' = CASE got -> Link(obs, edges, call[t].obs)
                      [] call[t].op = "write" -> Reconcile(obs, edges, call[t].obs)
                      [] OTHER -> edges
        /\ UNCHANGED << workload, files, table, pipe, knows, program, actual, generation,
                        rules, disabled, report >>
    BY Zenon DEF Exit
  <1>1. Leaving(t)  BY <1>0, Zenon DEF Leaving
  <1> HIDE DEF obs
  <1>2. Linked(t)  BY <1>0 DEF Linked
  <1>3. PICK found \in IF got THEN Scan(Of(t), clock + 1) ELSE {<< >>} : data' = data \o (a \o found)
    BY DEF Exit
  <1>4. got => /\ DataObservation(Of(t), "memory", clock + 1, 0) \in D
               /\ DataObservation(Of(t), "read", clock + 1, call[t].obs) \in D
    BY FoundAre
  <1>5. got => found \in {<< >>, << DataObservation(Of(t), "memory", clock + 1, 0) >>}
    BY ScanFinds
  <1>6. ~got => found = << >> /\ a = << >>
    OBVIOUS
  <1>7. got => a = << DataObservation(Of(t), "read", clock + 1, call[t].obs) >>
    OBVIOUS
  <1> HIDE DEF a, D, got
  <1>8. << >> \in Seq(D)
    OBVIOUS
  <1>9. a \in Seq(D) /\ found \in Seq(D)
    BY <1>4, <1>5, <1>6, <1>7, <1>8, OneOrNone
  <1>10. a \o found \in Seq(D)  BY <1>9, ConcatIn
  <1>11. \E more \in Seq(D) : data' = data \o more  BY <1>3, <1>10
  <1>12. QED BY <1>1, <1>2, <1>11 DEF D, got

LEMMA AsideAre ==
  ASSUME (\E p \in Proc : MakesSocket(p)) \/ Configure \/ End
  PROVE  Aside
  <1> USE DEF Aside, Unobserved, kernel, analyzer
  <1>1. CASE \E p \in Proc : MakesSocket(p)  BY <1>1 DEF MakesSocket
  <1>2. CASE Configure  BY <1>2 DEF Configure
  <1>3. CASE End  BY <1>3 DEF End
  <1>4. QED BY <1>1, <1>2, <1>3

-----------------------------------------------------------------------------
(* The edges that linking reads and reconciling writes make.               *)
LEMMA LastSupplier ==
  ASSUME NEW obs \in Seq(EventType), NEW r, Suppliers(obs, r) # {}
  PROVE  LET w == CHOOSE w \in Suppliers(obs, r) : \A v \in Suppliers(obs, r) : v <= w
         IN w \in Suppliers(obs, r) /\ w \in Nat /\ \A v \in Suppliers(obs, r) : v <= w
  <1>1. Suppliers(obs, r) \in SUBSET Nat /\ Len(obs) \in Nat /\ \A n \in Suppliers(obs, r) : n <= Len(obs)
    BY DEF Suppliers
  <1>2. \E w \in Suppliers(obs, r) : \A v \in Suppliers(obs, r) : v <= w
    BY <1>1, GreatestNumber
  <1>3. QED BY <1>1, <1>2

LEMMA RangeOfAppend ==
  ASSUME NEW S, NEW s \in Seq(S), NEW e
  PROVE  Range(Append(s, e)) = Range(s) \cup {e}
  <1> DEFINE a == Append(s, e)
  <1>1. DOMAIN a = 1 .. Len(s) + 1 /\ DOMAIN s = 1 .. Len(s) /\ Len(s) \in Nat
    OBVIOUS
  <1>2. a[Len(s) + 1] = e /\ \A n \in 1 .. Len(s) : a[n] = s[n]
    OBVIOUS
  <1> HIDE DEF a
  <1>3. \A n \in DOMAIN a : n = Len(s) + 1 \/ n \in DOMAIN s  BY <1>1
  <1>4. Range(a) \subseteq Range(s) \cup {e}  BY <1>1, <1>2, <1>3 DEF Range
  <1>5. \A n \in DOMAIN s : n \in DOMAIN a  BY <1>1
  <1>6. Range(s) \subseteq Range(a)  BY <1>1, <1>2, <1>5 DEF Range
  <1>7. e \in Range(a)  BY <1>1, <1>2 DEF Range
  <1>8. QED BY <1>4, <1>6, <1>7 DEF a

LEMMA LinkIs ==
  ASSUME NEW obs \in Seq(EventType), NEW known \in Seq(Nat \X Nat), NEW r \in DOMAIN obs
  PROVE  Links(obs, known, Link(obs, known, r), {r})
  <1> DEFINE w == CHOOSE w \in Suppliers(obs, r) : \A v \in Suppliers(obs, r) : v <= w
             e == << w, r >>
  <1>1. CASE Linkable(obs, r)
    <2>1. w \in Suppliers(obs, r) /\ w \in Nat /\ \A v \in Suppliers(obs, r) : v <= w
      BY <1>1, LastSupplier DEF Linkable
    <2> HIDE DEF w
    <2>2. IsLink(obs, e) /\ e[2] = r /\ e \in Nat \X Nat
      BY <1>1, <2>1 DEF IsLink
    <2>3. CASE e \in Range(known)
      <3>1. Link(obs, known, r) = known  BY <2>3 DEF Link, w
      <3>2. QED BY <2>2, <2>3, <3>1 DEF Links
    <2>4. CASE e \notin Range(known)
      <3>1. Link(obs, known, r) = Append(known, e)  BY <1>1, <2>4 DEF Link, w
      <3> HIDE DEF e
      <3>2. Append(known, e) \in Seq(Nat \X Nat) /\ Range(Append(known, e)) = Range(known) \cup {e}
        BY <2>2, RangeOfAppend
      <3>3. QED BY <2>2, <3>1, <3>2 DEF Links
    <2>5. QED BY <2>3, <2>4
  <1>2. CASE ~Linkable(obs, r)
    <2>1. Link(obs, known, r) = known  BY <1>2 DEF Link
    <2>2. QED BY <1>2, <2>1 DEF Links
  <1>3. QED BY <1>1, <1>2

LEMMA LinksTwice ==
  ASSUME NEW obs, NEW known, NEW new, NEW newer, NEW reads, NEW more,
         Links(obs, known, new, reads), Links(obs, new, newer, more)
  PROVE  Links(obs, known, newer, reads \cup more)
  BY DEF Links

LEMMA ReconcileIs ==
  ASSUME NEW obs \in Seq(EventType), NEW known \in Seq(Nat \X Nat), NEW w \in DOMAIN obs
  PROVE  Links(obs, known, Reconcile(obs, known, w),
               IF obs[w].ret <= 0 \/ obs[w].res = 0 \/ obs[w].value = NoValue THEN {}
               ELSE Matching(obs, w))
  <1>0. PICK N \in Nat : N = Len(obs) /\ DOMAIN obs = 1 .. N
    OBVIOUS
  <1> DEFINE D == Seq(Nat \X Nat)
             IsRead(r) == obs[r].call = "read" /\ obs[r].res = obs[w].res /\ obs[r].value = obs[w].value
             step == [nd \in Nat \X D |-> IF nd[1] \in 1 .. N /\ IsRead(nd[1])
                                          THEN Link(obs, nd[2], nd[1]) ELSE nd[2]]
             body(g) == [n \in 0 .. N |-> IF n = 0 THEN known
                                          ELSE IF IsRead(n) THEN Link(obs, g[n - 1], n) ELSE g[n - 1]]
             upTo == CHOOSE g : g = body(g)
  <1>1. \A n \in 1 .. N, d \in D : Links(obs, d, Link(obs, d, n), {n}) /\ Link(obs, d, n) \in D
    BY <1>0, LinkIs DEF Links
  <1>7. Reconcile(obs, known, w) = IF obs[w].ret <= 0 \/ obs[w].res = 0 \/ obs[w].value = NoValue
                                   THEN known ELSE upTo[N]
    BY <1>0 DEF Reconcile
  <1>11. {r \in 1 .. N : IsRead(r)} = Matching(obs, w)  BY <1>0 DEF Matching
  <1>12. known \in D
    OBVIOUS
  <1> HIDE DEF IsRead, D
  <1>2. step \in [Nat \X D -> D]  BY <1>1
  <1>3. \A n \in 1 .. N, d \in D : step[<< n, d >>] = IF IsRead(n) THEN Link(obs, d, n) ELSE d
    OBVIOUS
  <1> HIDE DEF step
  <1>4. PICK g \in [0 .. N -> D] : g[0] = known /\ \A n \in 1 .. N : g[n] = step[<< n, g[n - 1] >>]
    <2>1. Unfolding(D, known, step, N)  BY <1>2, <1>12, Recursion
    <2>2. QED BY <2>1 DEF Unfolding
  <1>5. \A n \in 1 .. N : n - 1 \in 0 .. N
    OBVIOUS
  <1>6. \A n \in 1 .. N : g[n] = IF IsRead(n) THEN Link(obs, g[n - 1], n) ELSE g[n - 1]
    BY <1>3, <1>4, <1>5
  <1>8. g = body(g)  BY <1>4, <1>6
  <1>9. upTo = body(upTo)
    <2> HIDE DEF body
    <2>1. QED BY <1>8
  <1> HIDE DEF upTo
  <1>10. /\ upTo[0] = known
         /\ \A n \in 1 .. N : upTo[n] = IF IsRead(n) THEN Link(obs, upTo[n - 1], n) ELSE upTo[n - 1]
    <2>1. \A n \in 0 .. N : upTo[n] = body(upTo)[n]  BY <1>9
    <2>2. QED BY <2>1
  <1> HIDE DEF body
  <1> DEFINE ReadsTo(n) == {r \in 1 .. n : IsRead(r)}
             S == {n \in Nat : n <= N => Links(obs, known, upTo[n], ReadsTo(n))}
  <1>13. 0 \in S
    <2>1. Links(obs, known, known, {})  BY <1>12 DEF Links, D
    <2>2. QED BY <1>10, <2>1
  <1>14. \A n \in Nat : n \in S => n + 1 \in S
    <2> SUFFICES ASSUME NEW n \in Nat, n \in S PROVE n + 1 \in S
      OBVIOUS
    <2> SUFFICES ASSUME n + 1 <= N PROVE Links(obs, known, upTo[n + 1], ReadsTo(n + 1))
      OBVIOUS
    <2>0. Links(obs, known, upTo[n], ReadsTo(n))
      OBVIOUS
    <2>1. n + 1 \in 1 .. N /\ upTo[n] \in D /\ (n + 1) - 1 = n
      BY <2>0 DEF Links, D
    <2>2. upTo[n + 1] = IF IsRead(n + 1) THEN Link(obs, upTo[n], n + 1) ELSE upTo[n]
      BY <1>10, <2>1
    <2>3. CASE IsRead(n + 1)
      <3>1. Links(obs, upTo[n], upTo[n + 1], {n + 1})
        BY <1>1, <2>1, <2>2, <2>3
      <3>2. ReadsTo(n + 1) = ReadsTo(n) \cup {n + 1}  BY <2>3
      <3> HIDE DEF ReadsTo
      <3>3. QED BY <2>0, <3>1, <3>2, LinksTwice
    <2>4. CASE ~IsRead(n + 1)
      <3>1. ReadsTo(n + 1) = ReadsTo(n)  BY <2>4
      <3>2. QED BY <2>0, <2>2, <2>4, <3>1
    <2>5. QED BY <2>3, <2>4
  <1>15. Links(obs, known, upTo[N], ReadsTo(N))
    <2> HIDE DEF S
    <2>1. N \in S  BY <1>13, <1>14, Induct
    <2>2. QED BY <2>1 DEF S
  <1>16. Links(obs, known, known, {})  BY <1>12 DEF Links, D
  <1>17. QED BY <1>7, <1>11, <1>15, <1>16

-----------------------------------------------------------------------------
(* TypeInv is kept.                                                        *)
LEMMA SameTypes ==
  ASSUME workload' = workload
  PROVE  /\ Thread' = Thread /\ Proc' = Proc /\ Pipes' = Pipes
         /\ FileType' = FileType /\ CallType' = CallType
         /\ EventType' = EventType /\ ActualType' = ActualType
  <1>1. Thread' = Thread /\ Proc' = Proc /\ Pipes' = Pipes
    BY DEF Thread, Proc, Pipes
  <1>2. Names' = Names  BY DEF Names
  <1>3. What' = What  BY <1>2 DEF What
  <1>4. Maker' = Maker  BY <1>1 DEF Maker
  <1>5. FileType' = FileType  BY <1>1, <1>2, <1>4 DEF FileType, Kinds, Roles
  <1>6. CallType' = CallType  BY <1>3 DEF CallType, Ops
  <1>7. EventType' = EventType  BY <1>1, <1>3, Zenon DEF EventType
  <1>8. ActualType' = ActualType
    BY <1>1, <1>2, <1>3, <1>4, Zenon DEF ActualType
  <1>9. QED BY <1>1, <1>5, <1>6, <1>7, <1>8

LEMMA Lengths ==
  ASSUME TypeInv
  PROVE  /\ Len(observations) \in Nat /\ DOMAIN observations = 1 .. Len(observations)
         /\ Len(actual) = Len(observations) /\ DOMAIN actual = 1 .. Len(observations)
         /\ CallsAt(call, Len(observations))
  <1>1. observations \in Seq(EventType) /\ actual \in Seq(ActualType) /\ Len(actual) = Len(observations)
    BY DEF TypeInv
  <1>2. DOMAIN observations = 1 .. Len(observations) /\ Len(observations) \in Nat
        /\ DOMAIN actual = 1 .. Len(observations)
    BY <1>1
  <1>3. QED BY <1>1, <1>2 DEF TypeInv, CallsAt

LEMMA TypesOf ==
  ASSUME TypeInv, workload' = workload,
         observations' \in Seq(EventType), CallsAt(call', Len(observations')),
         files' \in Seq(FileType), table' \in [Proc -> [Fd -> 0 .. Len(files')]],
         pipe' \in [Pipes -> Seq(Nat)], knows' \subseteq Proc, generation' \in [Proc -> Nat],
         actual' \in Seq(ActualType), Len(actual') = Len(observations'),
         edges' \in Seq(Nat \X Nat), data' \in Seq(DatumType), clock' \in Nat
  PROVE  TypeInv'
  <1>1. DOMAIN observations' = 1 .. Len(observations')
    OBVIOUS
  <1>2. (workload \in Workloads)'  BY DEF TypeInv
  <1>3. /\ call' \in [Thread' -> CallType']
        /\ \A t \in Thread' : call'[t] # NoCall' => call'[t].obs \in DOMAIN observations' /\ call'[t].op \in Ops'
    BY <1>1, SameTypes DEF CallsAt, Ops, NoCall
  <1>4. /\ files' \in Seq(FileType') /\ table' \in [Proc' -> [Fd -> 0 .. Len(files')]]
        /\ pipe' \in [Pipes' -> Seq(Nat)] /\ knows' \subseteq Proc' /\ generation' \in [Proc' -> Nat]
    BY SameTypes
  <1>5. observations' \in Seq(EventType') /\ actual' \in Seq(ActualType') /\ data' \in Seq(DatumType')
    <2>1. DatumType' = DatumType  BY SameTypes DEF DatumType
    <2>2. QED BY <2>1, SameTypes
  <1>6. QED BY <1>2, <1>3, <1>4, <1>5 DEF TypeInv

LEMMA CallsAfter ==
  ASSUME NEW n \in Nat, NEW m \in Nat, n <= m, CallsAt(call, n), NEW t \in Thread,
         NEW c \in CallType, c # NoCall => c.obs \in 1 .. m /\ c.op \in Ops
  PROVE  CallsAt([call EXCEPT ![t] = c], m)
  BY DEF CallsAt

LEMMA ImageIs ==
  ASSUME TypeInv, NEW p \in Proc
  PROVE  Image(p) \in Proc \X Nat /\ Image(p) \in Maker /\ generation[p] \in Nat
  <1>1. generation[p] \in Nat  BY DEF TypeInv
  <1>2. QED BY <1>1 DEF Image, Maker

LEMMA EnterTypes ==
  ASSUME TypeInv, NEW t \in Thread, Enter(t)
  PROVE  TypeInv'
  <1> DEFINE p == Of(t)
  <1>1. PICK c : Entry(t, c)  BY EnterIsEntry
  <1>2. p \in Proc  BY OfProc
  <1>3. Image(p) \in Proc \X Nat /\ Image(p) \in Maker  BY <1>2, ImageIs
  <1>4. c \in Offers(p, workload.offers[t], workload.payloads[t])
        /\ workload.payloads[t] \subseteq {Secret, Large}
    BY <1>1, Inputs DEF Entry, TypeInv
  <1>5. clock \in Nat /\ observations \in Seq(EventType) /\ actual \in Seq(ActualType) /\ data \in Seq(DatumType)
    BY DEF TypeInv
  <1>6. observations' \in Seq(EventType) /\ Len(observations') = Len(observations) + 1 /\ clock' \in Nat
    <2>1. EventObservation(p, c, clock + 1) \in EventType
      BY <1>2, <1>4, <1>5, EventIs
    <2>2. observations' = Append(observations, EventObservation(p, c, clock + 1)) /\ clock' = clock + 1
      BY <1>1 DEF Entry
    <2>3. QED BY <1>5, <2>1, <2>2
  <1>7. Fitting(p, c, workload.payloads[t])  BY <1>2, <1>4, OffersAre
  <1>8. CallsAt(call', Len(observations'))
    <2> DEFINE new == [op |-> c.op, fd |-> c.fd, what |-> c.what,
                       obs |-> Len(observations) + 1, ret |-> 0, done |-> FALSE]
    <2>1. new \in CallType /\ new.obs = Len(observations) + 1 /\ new.op = c.op /\ new.op \in Ops
      <3>1. c.op \in Ops /\ c.what \in What /\ c.fd \in Nat
            /\ (c.op \in {"open", "execve"} => c.fd = 0)
            /\ (c.op \notin {"open", "execve"} => c.fd \in Fd)
            /\ (c.op = "open" => c.what \in workload.names)
            /\ (c.op = "execve" => c.what \in Program)
            /\ (c.op = "connect" => c.what \in Endpoint)
            /\ (c.op = "write" => c.what \in {Secret, Large})
        BY <1>4, <1>7, Zenon DEF Fitting
      <3>2. Len(observations) + 1 \in Nat  BY <1>5
      <3>3. new \in [op: Ops \cup {"none"}, fd: Nat, what: What, obs: Nat, ret: Int, done: BOOLEAN]
        BY <3>1, <3>2
      <3>4. QED BY <3>1, <3>3 DEF CallType
    <2>2. call' = [call EXCEPT ![t] = new]  BY <1>1 DEF Entry
    <2> HIDE DEF new
    <2>3. Len(observations) \in Nat /\ Len(observations') \in Nat /\ CallsAt(call, Len(observations))
          /\ Len(observations) <= Len(observations')
      BY <1>6, Lengths
    <2>4. new.obs \in 1 .. Len(observations') /\ new.op \in Ops
      BY <1>6, <2>1, <2>3
    <2>5. CallsAt([call EXCEPT ![t] = new], Len(observations'))
      BY <2>1, <2>3, <2>4, CallsAfter
    <2>6. QED BY <2>2, <2>5
  <1>9. actual' \in Seq(ActualType) /\ Len(actual') = Len(observations')
    <2> DEFINE new == [image |-> Image(p), kind |-> NoSource, name |-> NoSource,
                       by |-> Image(p), from |-> 0, what |-> c.what]
    <2>1. new \in ActualType  BY <1>3, <1>7 DEF ActualType, Names, Fitting
    <2>2. actual' = Append(actual, new)  BY <1>1 DEF Entry
    <2> HIDE DEF new
    <2>3. QED BY <1>5, <1>6, <2>1, <2>2, Lengths
  <1>10. data' \in Seq(DatumType)
    <2> DEFINE D == Found(p, clock + 1, Len(observations) + 1, {"memory", "environment", "write"})
    <2>1. PICK more \in Seq(D) : data' = data \o more  BY EnterIsEntry
    <2>2. D \subseteq DatumType
      BY <1>2, <1>3, <1>5 DEF Found, DataObservation, DatumType
    <2> HIDE DEF D
    <2>3. more \in Seq(DatumType)  BY <2>2, SeqOfMore
    <2>4. QED BY <1>5, <2>1, <2>3, ConcatIn
  <1>11. UNCHANGED << workload, files, table, pipe, knows, generation, edges >>
    BY <1>1 DEF Entry
  <1>12. QED BY <1>6, <1>8, <1>9, <1>10, <1>11, TypesOf DEF TypeInv

LEMMA EffectCalls ==
  ASSUME TypeInv, NEW t \in Thread, NEW ret \in Int, Effect(t, ret)
  PROVE  CallsAt(call', Len(observations')) /\ Answered(t, ret)
  <1> DEFINE c == [call[t] EXCEPT !.ret = ret, !.done = TRUE]
  <1>1. call' = [call EXCEPT ![t] = c] /\ call[t] # NoCall /\ observations' = observations
    BY DEF Effect, Done
  <1>2. call \in [Thread -> CallType] /\ call[t].op \in Ops /\ call[t].obs \in 1 .. Len(observations)
    BY <1>1, Lengths DEF CallsAt
  <1>3. c \in CallType /\ c.obs = call[t].obs /\ c.op = call[t].op /\ c.fd = call[t].fd
        /\ c.what = call[t].what /\ c.ret = ret /\ c.done = TRUE
    BY <1>2 DEF CallType
  <1>4. c # NoCall  BY <1>3 DEF NoCall
  <1> HIDE DEF c
  <1>5. Answered(t, ret)  BY <1>1, <1>2, <1>3, <1>4 DEF Answered
  <1>6. CallsAt([call EXCEPT ![t] = c], Len(observations))
    <2>1. Len(observations) \in Nat /\ CallsAt(call, Len(observations)) /\ Len(observations) <= Len(observations)
      BY Lengths
    <2>2. QED BY <1>2, <1>3, <2>1, CallsAfter
  <1>7. QED BY <1>1, <1>5, <1>6

LEMMA EffectTypes ==
  ASSUME TypeInv, NEW t \in Thread, NEW ret \in Int, Effect(t, ret),
         files' \in Seq(FileType), table' \in [Proc -> [Fd -> 0 .. Len(files')]],
         pipe' \in [Pipes -> Seq(Nat)], knows' \subseteq Proc, generation' \in [Proc -> Nat],
         actual' \in Seq(ActualType), Len(actual') = Len(actual)
  PROVE  TypeInv'
  <1>1. UNCHANGED << workload, clock, observations, edges, data >>
    BY DEF Effect
  <1>2. CallsAt(call', Len(observations'))  BY EffectCalls
  <1>3. observations \in Seq(EventType) /\ edges \in Seq(Nat \X Nat) /\ data \in Seq(DatumType) /\ clock \in Nat
        /\ Len(actual) = Len(observations)
    BY DEF TypeInv
  <1>4. QED BY <1>1, <1>2, <1>3, TypesOf

LEMMA NewFileTypes ==
  ASSUME TypeInv, NEW kind \in {"file", "socket", "peer"}, NEW name \in Names, NEW p \in Proc, NEW f \in Fd,
         files' = Append(files, NewFile(kind, name, p)),
         table' = [table EXCEPT ![p][f] = Len(files')]
  PROVE  files' \in Seq(FileType) /\ table' \in [Proc -> [Fd -> 0 .. Len(files')]]
  <1>1. NewFile(kind, name, p) \in FileType
    <2>1. Image(p) \in Maker /\ NoSource \notin {"read", "write"}
      BY ImageIs, Values
    <2>2. QED BY <2>1 DEF NewFile, FileType, Roles, Kinds
  <1>2. files \in Seq(FileType) /\ table \in [Proc -> [Fd -> 0 .. Len(files)]]
    BY DEF TypeInv
  <1>3. files' \in Seq(FileType) /\ Len(files') = Len(files) + 1 /\ Len(files) \in Nat
    BY <1>1, <1>2
  <1>4. \A k \in 0 .. Len(files) : k \in 0 .. Len(files')  BY <1>3
  <1>5. Len(files') \in 0 .. Len(files')  BY <1>3
  <1>6. table' \in [Proc -> [Fd -> 0 .. Len(files')]]  BY <1>2, <1>4, <1>5
  <1>7. QED BY <1>3, <1>6

LEMMA FileAt ==
  ASSUME TypeInv, NEW p \in Proc, NEW f \in Fd, table[p][f] # 0
  PROVE  At(p, f) \in FileType /\ table[p][f] \in DOMAIN files /\ At(p, f) = files[table[p][f]]
  <1>1. table[p][f] \in 0 .. Len(files) /\ files \in Seq(FileType)
    BY DEF TypeInv
  <1>2. QED BY <1>1 DEF At

LEMMA OnItTypes ==
  ASSUME TypeInv, NEW t \in Thread, call[t] # NoCall, NEW file \in FileType, NEW from \in Nat,
         OnIt(t, file, from)
  PROVE  actual' \in Seq(ActualType) /\ Len(actual') = Len(actual)
  <1>1. actual \in Seq(ActualType) /\ call[t].obs \in DOMAIN actual
    BY Lengths DEF CallsAt, TypeInv
  <1> DEFINE a == [actual[call[t].obs] EXCEPT !.kind = file.kind, !.name = file.name, !.by = file.by, !.from = from]
  <1>2. actual' = [actual EXCEPT ![call[t].obs] = a]  BY DEF OnIt
  <1>3. actual[call[t].obs] \in ActualType  BY <1>1
  <1>4. a \in ActualType  BY <1>3 DEF ActualType, FileType
  <1> HIDE DEF a
  <1>5. QED BY <1>1, <1>2, <1>4

LEMMA PipeTypes ==
  ASSUME TypeInv, NEW n \in Pipes, NEW s \in Seq(Nat)
  PROVE  [pipe EXCEPT ![n] = s] \in [Pipes -> Seq(Nat)]
  BY DEF TypeInv

(* A descriptor named by a call. *)
LEMMA CallTypes ==
  ASSUME TypeInv, NEW t \in Thread, call[t] # NoCall
  PROVE  /\ call[t] \in CallType /\ call[t].op \in Ops
         /\ call[t].obs \in DOMAIN observations /\ call[t].obs \in DOMAIN actual /\ call[t].obs \in Nat
         /\ Of(t) \in Proc
  BY Lengths, OfProc DEF CallsAt

LEMMA OpensTypes ==
  ASSUME TypeInv, NEW t \in Thread, Opens(t)
  PROVE  TypeInv'
  <1> DEFINE p == Of(t)
             f == CHOOSE f \in Free(p) : \A g \in Free(p) : f <= g
  <1>1. call[t] # NoCall /\ call[t].op = "open" /\ p \in Proc /\ Free(p) # {}
        /\ files' = Append(files, NewFile("file", call[t].what, p))
        /\ table' = [table EXCEPT ![p][f] = Len(files')]
        /\ UNCHANGED << pipe, knows, actual, generation >>
    BY OfProc DEF Opens, Runs, Unobserved, analyzer
  <1>2. f \in Fd  BY <1>1, LowestFree
  <1> HIDE DEF f
  <1>3. PICK ret \in Int : Effect(t, ret)  BY EffectsAre DEF Effects
  <1>4. call[t].what \in Names  BY <1>1, CallTypes DEF CallType, Names
  <1>5. files' \in Seq(FileType) /\ table' \in [Proc -> [Fd -> 0 .. Len(files')]]
    BY <1>1, <1>2, <1>4, NewFileTypes
  <1>6. QED BY <1>1, <1>3, <1>5, EffectTypes DEF TypeInv

LEMMA ClosesTypes ==
  ASSUME TypeInv, NEW t \in Thread, Closes(t)
  PROVE  TypeInv'
  <1>1. PICK ret \in Int : Effect(t, ret)  BY EffectsAre DEF Effects
  <1>2. Len(files) \in Nat  BY DEF TypeInv
  <1>3. table' \in [Proc -> [Fd -> 0 .. Len(files)]]
    <2>1. table \in [Proc -> [Fd -> 0 .. Len(files)]] /\ 0 \in 0 .. Len(files)
      BY <1>2 DEF TypeInv
    <2>2. table' = [table EXCEPT ![Of(t)][call[t].fd] = 0]  BY DEF Closes
    <2>3. QED BY <2>1, <2>2
  <1>4. UNCHANGED << files, pipe, knows, actual, generation >>
    BY DEF Closes, Unobserved, analyzer
  <1>5. QED BY <1>1, <1>3, <1>4, EffectTypes DEF TypeInv

LEMMA ConnectsToTypes ==
  ASSUME TypeInv, NEW t \in Thread, ConnectsTo(t)
  PROVE  TypeInv'
  <1> DEFINE p == Of(t)
             k == table[p][call[t].fd]
             file == [files[k] EXCEPT !.name = call[t].what, !.by = Image(p)]
  <1>1. call[t] # NoCall /\ call[t].op = "connect" /\ call[t].fd \in Sockets(p) /\ p \in Proc
        /\ files' = [files EXCEPT ![k] = file]
        /\ UNCHANGED << table, pipe, knows, actual, generation >>
    BY OfProc DEF ConnectsTo, Runs, Unobserved, analyzer
  <1>2. PICK ret \in Int : Effect(t, ret)  BY EffectsAre DEF Effects
  <1>3. call[t].fd \in Fd /\ k # 0 /\ files[k].kind = "socket"
    BY <1>1 DEF Sockets, IsOpen, At
  <1>4. files[k] \in FileType /\ k \in DOMAIN files  BY <1>1, <1>3, FileAt
  <1>5. call[t].what \in Names /\ Image(p) \in Maker
    BY <1>1, CallTypes, ImageIs DEF CallType, Names
  <1>6. file \in FileType
    <2>1. files[k].role = NoSource  BY <1>3, <1>4 DEF FileType, Roles
    <2>2. QED BY <1>3, <1>4, <1>5, <2>1 DEF FileType
  <1> HIDE DEF file, k
  <1>7. files' \in Seq(FileType) /\ Len(files') = Len(files)
    BY <1>1, <1>4, <1>6 DEF TypeInv
  <1>8. QED BY <1>1, <1>2, <1>7, EffectTypes DEF TypeInv

LEMMA ReadsTypes ==
  ASSUME TypeInv, NEW t \in Thread, Reads(t)
  PROVE  TypeInv'
  <1> DEFINE p == Of(t)
             file == At(p, call[t].fd)
  <1>1. /\ call[t] # NoCall /\ call[t].op = "read" /\ call[t].fd \in Readable(p) /\ p \in Proc
        /\ IF file.kind = "pipe read"
           THEN /\ pipe[file.pipe] # << >>
                /\ OnIt(t, file, Head(pipe[file.pipe]))
                /\ pipe' = [pipe EXCEPT ![file.pipe] = Tail(pipe[file.pipe])]
           ELSE OnIt(t, file, 0) /\ UNCHANGED pipe
        /\ knows' = knows \cup {p}
        /\ UNCHANGED << files, table, generation >>
    BY OfProc DEF Reads, Runs, Unobserved, analyzer
  <1>2. PICK ret \in Int : Effect(t, ret)  BY EffectsAre DEF Effects
  <1>3. file \in FileType  BY <1>1, FileAt DEF Readable, IsOpen
  <1> HIDE DEF file
  <1>4. CASE file.kind = "pipe read"
    <2>1. file.pipe \in Pipes  BY <1>3, <1>4, Values DEF FileType
    <2>2. pipe[file.pipe] \in Seq(Nat) /\ pipe[file.pipe] # << >>
      BY <1>1, <1>4, <2>1 DEF TypeInv
    <2>3. Head(pipe[file.pipe]) \in Nat /\ Tail(pipe[file.pipe]) \in Seq(Nat)
      BY <2>2
    <2>4. actual' \in Seq(ActualType) /\ Len(actual') = Len(actual)
      BY <1>1, <1>3, <1>4, <2>3, OnItTypes
    <2>5. pipe' \in [Pipes -> Seq(Nat)]  BY <1>1, <1>4, <2>1, <2>3, PipeTypes
    <2>6. QED BY <1>1, <1>2, <2>4, <2>5, EffectTypes DEF TypeInv
  <1>5. CASE file.kind # "pipe read"
    <2>1. actual' \in Seq(ActualType) /\ Len(actual') = Len(actual)
      BY <1>1, <1>3, <1>5, OnItTypes
    <2>2. QED BY <1>1, <1>2, <1>5, <2>1, EffectTypes DEF TypeInv
  <1>6. QED BY <1>4, <1>5

LEMMA WritesTypes ==
  ASSUME TypeInv, NEW t \in Thread, Writes(t)
  PROVE  TypeInv'
  <1> DEFINE p == Of(t)
             file == At(p, call[t].fd)
  <1>1. /\ call[t] # NoCall /\ call[t].op = "write" /\ IsOpen(p, call[t].fd) /\ p \in Proc
        /\ OnIt(t, file, 0)
        /\ pipe' = IF file.kind # "pipe write" THEN pipe
                   ELSE [pipe EXCEPT ![file.pipe] = Append(pipe[file.pipe], call[t].obs)]
        /\ UNCHANGED << files, table, knows, generation >>
    <2>1. p \in Proc  BY OfProc
    <2>2. QED BY <2>1, Zenon DEF Writes, Runs, Unobserved, analyzer
  <1>2. PICK ret \in Int : Effect(t, ret)  BY EffectsAre DEF Effects
  <1>3. call[t].fd \in Fd /\ call[t].obs \in Nat
    BY <1>1, CallTypes DEF CallType
  <1>4. file \in FileType  BY <1>1, <1>3, FileAt DEF IsOpen
  <1>5. actual' \in Seq(ActualType) /\ Len(actual') = Len(actual)
    BY <1>1, <1>4, OnItTypes
  <1> HIDE DEF file
  <1>6. pipe' \in [Pipes -> Seq(Nat)]
    <2>1. CASE file.kind = "pipe write"
      <3>1. file.pipe \in Pipes  BY <1>4, <2>1, Values DEF FileType
      <3>2. Append(pipe[file.pipe], call[t].obs) \in Seq(Nat)
        BY <1>3, <3>1 DEF TypeInv
      <3>3. QED BY <1>1, <2>1, <3>1, <3>2, PipeTypes
    <2>2. CASE file.kind # "pipe write"  BY <1>1, <2>2 DEF TypeInv
    <2>3. QED BY <2>1, <2>2
  <1>7. QED BY <1>1, <1>2, <1>5, <1>6, EffectTypes DEF TypeInv

LEMMA ExecsTypes ==
  ASSUME TypeInv, NEW t \in Thread, Execs(t)
  PROVE  TypeInv'
  <1>1. PICK ret \in Int : Effect(t, ret)  BY EffectsAre DEF Effects
  <1>2. /\ generation' = [generation EXCEPT ![Of(t)] = generation[Of(t)] + 1]
        /\ knows' \subseteq knows
        /\ UNCHANGED << files, table, pipe, actual >>
    BY DEF Execs
  <1>3. generation' \in [Proc -> Nat]
    <2>1. generation \in [Proc -> Nat] /\ Of(t) \in Proc
      BY OfProc DEF TypeInv
    <2>2. generation[Of(t)] + 1 \in Nat  BY <2>1
    <2>3. QED BY <1>2, <2>1, <2>2
  <1>4. QED BY <1>1, <1>2, <1>3, EffectTypes DEF TypeInv

LEMMA FailsTypes ==
  ASSUME TypeInv, NEW t \in Thread, Fails(t)
  PROVE  TypeInv'
  <1>1. PICK ret \in Int : Effect(t, ret)  BY EffectsAre DEF Effects
  <1>2. UNCHANGED << files, table, pipe, knows, actual, generation >>
    BY DEF Fails, Unobserved, analyzer
  <1>3. QED BY <1>1, <1>2, EffectTypes DEF TypeInv

LEMMA ReturnedIs ==
  ASSUME NEW o \in EventType, NEW c \in CallType, NEW time \in Nat
  PROVE  /\ Returned(o, c, time) \in EventType
         /\ Returned(o, c, time).ret = c.ret /\ Returned(o, c, time).end = time
         /\ Returned(o, c, time).value = IF c.op = "read" /\ c.ret > 0 THEN Secret ELSE o.value
         /\ Returned(o, c, time).type = o.type /\ Returned(o, c, time).call = o.call
         /\ Returned(o, c, time).fd = o.fd /\ Returned(o, c, time).source = o.source
         /\ Returned(o, c, time).inst = o.inst /\ Returned(o, c, time).gen = o.gen
         /\ Returned(o, c, time).res = o.res /\ Returned(o, c, time).role = o.role
         /\ Returned(o, c, time).start = o.start /\ Returned(o, c, time).pid = o.pid
  BY DEF Returned, EventType, CallType

LEMMA ExitTypes ==
  ASSUME TypeInv, NEW t \in Thread, Exit(t)
  PROVE  TypeInv' /\ observations' \in Seq(EventType) /\ Len(observations') = Len(observations)
  <1> DEFINE n == call[t].obs
             o == Returned(observations[n], call[t], clock + 1)
  <1>1. Leaving(t) /\ Linked(t)  BY ExitIsLeaving
  <1>2. /\ call[t] # NoCall
        /\ call' = [call EXCEPT ![t] = NoCall]
        /\ observations' = [observations EXCEPT ![n] = o]
        /\ clock' = clock + 1
        /\ UNCHANGED << workload, files, table, pipe, knows, actual, generation >>
    BY <1>1 DEF Leaving
  <1>3. n \in DOMAIN observations /\ call[t] \in CallType /\ Of(t) \in Proc
    BY <1>2, CallTypes
  <1>4. observations \in Seq(EventType) /\ clock \in Nat /\ clock + 1 \in Nat
        /\ edges \in Seq(Nat \X Nat) /\ data \in Seq(DatumType)
    BY DEF TypeInv
  <1>5. o \in EventType
    <2>1. observations[n] \in EventType  BY <1>3, <1>4
    <2>2. QED BY <1>3, <1>4, <2>1, ReturnedIs
  <1> HIDE DEF o
  <1>6. observations' \in Seq(EventType) /\ Len(observations') = Len(observations)
        /\ DOMAIN observations' = DOMAIN observations
    BY <1>2, <1>3, <1>4, <1>5
  <1>7. CallsAt(call', Len(observations'))
    <2>1. NoCall \in CallType  BY DEF CallType, NoCall, What, Names
    <2>2. Len(observations) \in Nat /\ CallsAt(call, Len(observations)) /\ Len(observations) <= Len(observations)
      BY Lengths
    <2>3. QED BY <1>2, <1>6, <2>1, <2>2, CallsAfter
  <1>8. edges' \in Seq(Nat \X Nat)
    <2>1. Link(observations', edges, n) \in Seq(Nat \X Nat)
      BY <1>3, <1>4, <1>6, LinkIs DEF Links
    <2>2. Reconcile(observations', edges, n) \in Seq(Nat \X Nat)
      BY <1>3, <1>4, <1>6, ReconcileIs DEF Links
    <2>3. QED BY <1>1, <1>4, <2>1, <2>2 DEF Linked
  <1>9. data' \in Seq(DatumType)
    <2> DEFINE D == IF call[t].op = "read" /\ call[t].ret > 0
                    THEN Found(Of(t), clock + 1, n, {"memory", "read"}) ELSE {}
    <2>1. PICK more \in Seq(D) : data' = data \o more  BY ExitIsLeaving
    <2>2. Found(Of(t), clock + 1, n, {"memory", "read"}) \subseteq DatumType
      <3>1. Image(Of(t)) \in Proc \X Nat /\ n \in Nat
        BY <1>2, <1>3, ImageIs, CallTypes
      <3>2. QED BY <1>3, <1>4, <3>1 DEF Found, DataObservation, DatumType
    <2>3. D \subseteq DatumType  BY <2>2
    <2> HIDE DEF D
    <2>4. more \in Seq(DatumType)  BY <2>3, SeqOfMore
    <2>5. QED BY <1>4, <2>1, <2>4, ConcatIn
  <1>10. Len(actual') = Len(observations')  BY <1>2, <1>6 DEF TypeInv
  <1>11. TypeInv'
    BY <1>2, <1>4, <1>6, <1>7, <1>8, <1>9, <1>10, TypesOf DEF TypeInv
  <1>12. QED BY <1>6, <1>11

LEMMA AsideTypes ==
  ASSUME TypeInv, Aside, files' \in Seq(FileType), table' \in [Proc -> [Fd -> 0 .. Len(files')]]
  PROVE  TypeInv'
  <1>1. CallsAt(call', Len(observations'))  BY Lengths DEF Aside
  <1>2. QED BY <1>1, TypesOf DEF TypeInv, Aside

LEMMA MakesSocketTypes ==
  ASSUME TypeInv, NEW p \in Proc, MakesSocket(p)
  PROVE  TypeInv'
  <1> DEFINE f == CHOOSE f \in Free(p) : \A g \in Free(p) : f <= g
  <1>1. Free(p) # {} /\ table' = [table EXCEPT ![p][f] = Len(files')]
        /\ \E kind \in {"socket", "peer"} \cap workload.unseen : files' = Append(files, NewFile(kind, NoSource, p))
    BY DEF MakesSocket
  <1>2. f \in Fd  BY <1>1, LowestFree
  <1> HIDE DEF f
  <1>3. PICK kind \in {"socket", "peer"} : files' = Append(files, NewFile(kind, NoSource, p))
    BY <1>1
  <1>4. NoSource \in Names  BY DEF Names
  <1>5. files' \in Seq(FileType) /\ table' \in [Proc -> [Fd -> 0 .. Len(files')]]
    BY <1>1, <1>2, <1>3, <1>4, NewFileTypes
  <1>6. Aside  BY AsideAre
  <1>7. QED BY <1>5, <1>6, AsideTypes

LEMMA OthersTypes ==
  ASSUME TypeInv, Configure \/ End \/ UNCHANGED vars
  PROVE  TypeInv' /\ Aside /\ UNCHANGED << files, table >>
  <1>1. Aside /\ UNCHANGED << files, table >>
    BY DEF Configure, End, vars, kernel, analyzer, Aside
  <1>2. QED BY <1>1, AsideTypes DEF TypeInv

LEMMA TypesKept == TypeInv /\ [Next]_vars => TypeInv'
  <1> SUFFICES ASSUME TypeInv, [Next]_vars PROVE TypeInv'
    OBVIOUS
  <1>1. ASSUME NEW t \in Thread, Enter(t) PROVE TypeInv'  BY <1>1, EnterTypes
  <1>2. ASSUME NEW t \in Thread, Effects(t) PROVE TypeInv'
    BY <1>2, FailsTypes, OpensTypes, ClosesTypes, ConnectsToTypes, ReadsTypes, WritesTypes, ExecsTypes
       DEF Effects
  <1>3. ASSUME NEW t \in Thread, Exit(t) PROVE TypeInv'  BY <1>3, ExitTypes
  <1>4. ASSUME NEW p \in Proc, MakesSocket(p) PROVE TypeInv'
    BY <1>4, MakesSocketTypes
  <1>5. CASE Configure \/ End \/ UNCHANGED vars  BY <1>5, OthersTypes
  <1>6. QED BY <1>1, <1>2, <1>3, <1>4, <1>5 DEF Next, Effects

-----------------------------------------------------------------------------
(* Every step is an entry, an effect, an exit or aside; times and images.  *)
LEMMA EntryIs ==
  ASSUME TypeInv, NEW t \in Thread, NEW c, Entry(t, c)
  PROVE  Entered(t, c, Len(observations) + 1)
  <1> DEFINE N == Len(observations)
             p == Of(t)
  <1>1. /\ N \in Nat /\ Obs = 1 .. N /\ DOMAIN actual = 1 .. N
        /\ Len(actual) = N
    BY Lengths DEF Obs
  <1>2. observations \in Seq(EventType) /\ actual \in Seq(ActualType) /\ clock \in Nat
        /\ call \in [Thread -> CallType]
    BY DEF TypeInv
  <1>3. /\ observations' = Append(observations, EventObservation(p, c, clock + 1))
        /\ actual' = Append(actual, [image |-> Image(p), kind |-> NoSource, name |-> NoSource,
                                     by |-> Image(p), from |-> 0, what |-> c.what])
        /\ call' = [call EXCEPT ![t] = [op |-> c.op, fd |-> c.fd, what |-> c.what,
                                        obs |-> N + 1, ret |-> 0, done |-> FALSE]]
    BY DEF Entry
  <1>4. /\ Obs' = 1 .. N + 1
        /\ observations'[N + 1] = EventObservation(p, c, clock + 1)
        /\ \A m \in 1 .. N : observations'[m] = observations[m]
    BY <1>1, <1>2, <1>3 DEF Obs
  <1>5. /\ actual'[N + 1] = [image |-> Image(p), kind |-> NoSource, name |-> NoSource,
                             by |-> Image(p), from |-> 0, what |-> c.what]
        /\ \A m \in 1 .. N : actual'[m] = actual[m]
    BY <1>1, <1>2, <1>3
  <1>6. /\ \A u \in Thread : u # t => call'[u] = call[u]
        /\ call'[t] = [op |-> c.op, fd |-> c.fd, what |-> c.what, obs |-> N + 1, ret |-> 0, done |-> FALSE]
    BY <1>2, <1>3
  <1>7. p \in Proc /\ c \in Offers(p, workload.offers[t], workload.payloads[t])
        /\ workload.payloads[t] \subseteq {Secret, Large}
    BY Inputs, OfProc DEF Entry, TypeInv
  <1>8. c.op \in workload.offers[t] /\ Fitting(p, c, workload.payloads[t])
    BY <1>7, OffersAre
  <1>9. call'[t] # NoCall
    <2>1. call'[t].obs = N + 1 /\ NoCall.obs = 0  BY <1>6 DEF NoCall
    <2>2. QED BY <1>1, <2>1
  <1>10. N + 1 \in Nat /\ N + 1 \notin Obs /\ Obs' = Obs \cup {N + 1} /\ \A m \in Obs : m < N + 1 /\ m \in Nat
    BY <1>1, <1>4
  <1>11. /\ Tracing /\ call[t] = NoCall /\ clock' = clock + 1
         /\ UNCHANGED << workload, files, table, pipe, knows, program, generation, edges,
                         rules, disabled, report >>
    BY DEF Entry
  <1> HIDE DEF N, p
  <1>12. QED BY <1>1, <1>2, <1>4, <1>5, <1>6, <1>7, <1>8, <1>9, <1>10, <1>11 DEF Entered, N, p

LEMMA LeavingIs ==
  ASSUME TypeInv, NEW t \in Thread, Leaving(t)
  PROVE  Left(t, call[t].obs)
  <1> DEFINE n == call[t].obs
             o == Returned(observations[n], call[t], clock + 1)
  <1>1. /\ call[t] # NoCall /\ observations' = [observations EXCEPT ![n] = o]
        /\ call' = [call EXCEPT ![t] = NoCall]
    BY DEF Leaving
  <1>2. n \in DOMAIN observations /\ Of(t) \in Proc /\ call[t] \in CallType /\ call[t].op \in Ops
    BY <1>1, CallTypes
  <1>3. observations \in Seq(EventType) /\ clock \in Nat /\ call \in [Thread -> CallType]
    BY DEF TypeInv
  <1> HIDE DEF o
  <1>4. Obs' = Obs /\ observations'[n] = o
        /\ \A m \in Obs : m \in Nat /\ observations[m] \in EventType /\ (m # n => observations'[m] = observations[m])
    BY <1>1, <1>2, <1>3 DEF Obs
  <1>5. call'[t] = NoCall /\ \A u \in Thread : u # t => call'[u] = call[u]
    BY <1>1, <1>3
  <1>6. QED BY <1>2, <1>3, <1>4, <1>5 DEF Leaving, Left, Obs, o

LEMMA ActualOf ==
  ASSUME TypeInv, NEW t \in Thread, call[t] # NoCall
  PROVE  /\ UNCHANGED actual =>
              \A m \in Obs : actual'[m] = actual[m]
         /\ \A file \in FileType, from \in Nat : OnIt(t, file, from) =>
              /\ \A m \in Obs : m # call[t].obs => actual'[m] = actual[m]
              /\ actual'[call[t].obs] = [actual[call[t].obs] EXCEPT !.kind = file.kind, !.name = file.name,
                                                                    !.by = file.by, !.from = from]
              /\ actual'[call[t].obs].image = actual[call[t].obs].image
              /\ actual'[call[t].obs].what = actual[call[t].obs].what
  <1>1. actual \in Seq(ActualType) /\ call[t].obs \in DOMAIN actual /\ DOMAIN actual = Obs
    BY Lengths, CallTypes DEF TypeInv, Obs
  <1>2. actual[call[t].obs] \in ActualType  BY <1>1
  <1> SUFFICES ASSUME NEW file \in FileType, NEW from \in Nat, OnIt(t, file, from)
               PROVE  /\ \A m \in Obs : m # call[t].obs => actual'[m] = actual[m]
                      /\ actual'[call[t].obs] = [actual[call[t].obs] EXCEPT !.kind = file.kind, !.name = file.name,
                                                                            !.by = file.by, !.from = from]
                      /\ actual'[call[t].obs].image = actual[call[t].obs].image
                      /\ actual'[call[t].obs].what = actual[call[t].obs].what
    OBVIOUS
  <1> DEFINE a == [actual[call[t].obs] EXCEPT !.kind = file.kind, !.name = file.name, !.by = file.by, !.from = from]
  <1>3. actual' = [actual EXCEPT ![call[t].obs] = a]  BY DEF OnIt
  <1>4. a.image = actual[call[t].obs].image /\ a.what = actual[call[t].obs].what
    BY <1>2 DEF ActualType
  <1> HIDE DEF a
  <1>5. QED BY <1>1, <1>3, <1>4 DEF a

LEMMA EffectIs ==
  ASSUME TypeInv, NEW t \in Thread, Effects(t)
  PROVE  \E ret \in Int : Effect(t, ret) /\ Affected(t, ret)
  <1>1. PICK ret \in Int : Effect(t, ret)  BY EffectsAre
  <1>2. Answered(t, ret)  BY <1>1, EffectCalls
  <1>3. /\ Tracing /\ call[t] # NoCall /\ ~call[t].done
        /\ UNCHANGED << workload, clock, observations, edges, data, scanned, rules, disabled, report >>
    BY <1>1 DEF Effect
  <1>4. /\ Of(t) \in Proc /\ call[t] \in CallType /\ call[t].op \in Ops /\ call[t].obs \in Obs
    BY <1>3, CallTypes DEF Obs
  <1> DEFINE Histories ==
               /\ \A m \in Obs : m # call[t].obs => actual'[m] = actual[m]
               /\ actual'[call[t].obs].image = actual[call[t].obs].image
               /\ actual'[call[t].obs].what = actual[call[t].obs].what
               /\ call[t].op \notin {"read", "write"} => actual'[call[t].obs] = actual[call[t].obs]
  <1>5. Histories
    <2>1. CASE Reads(t)
      <3>1. call[t].op = "read" /\ call[t].fd \in Readable(Of(t))
        BY <2>1 DEF Reads, Runs
      <3>2. At(Of(t), call[t].fd) \in FileType
        BY <1>4, <3>1, FileAt DEF Readable, IsOpen
      <3>3. \E from \in Nat : OnIt(t, At(Of(t), call[t].fd), from)
        <4>1. CASE At(Of(t), call[t].fd).kind = "pipe read"
          <5> DEFINE n == At(Of(t), call[t].fd).pipe
          <5>1. n \in Pipes  BY <3>2, <4>1, Values DEF FileType
          <5>2. pipe[n] \in Seq(Nat) /\ pipe[n] # << >>
            BY <2>1, <4>1, <5>1 DEF TypeInv, Reads
          <5>3. Head(pipe[n]) \in Nat  BY <5>2
          <5>4. OnIt(t, At(Of(t), call[t].fd), Head(pipe[n]))
            BY <2>1, <4>1 DEF Reads
          <5>5. QED BY <5>3, <5>4
        <4>2. CASE At(Of(t), call[t].fd).kind # "pipe read"
          BY <2>1, <4>2 DEF Reads
        <4>3. QED BY <4>1, <4>2
      <3>4. QED BY <1>3, <3>1, <3>2, <3>3, ActualOf
    <2>2. CASE Writes(t)
      <3>1. call[t].op = "write" /\ OnIt(t, At(Of(t), call[t].fd), 0) /\ IsOpen(Of(t), call[t].fd)
        BY <2>2, Zenon DEF Writes, Runs
      <3>2. call[t].fd \in Fd  BY <1>4, <3>1 DEF CallType
      <3>3. At(Of(t), call[t].fd) \in FileType
        BY <1>4, <3>1, <3>2, FileAt DEF IsOpen
      <3>4. QED BY <1>3, <3>1, <3>3, ActualOf
    <2>3. CASE Fails(t) \/ Opens(t) \/ Closes(t) \/ ConnectsTo(t) \/ Execs(t)
      <3>1. UNCHANGED actual
        BY <2>3 DEF Fails, Opens, Closes, ConnectsTo, Execs
      <3>2. QED BY <3>1
    <2>4. QED BY <2>1, <2>2, <2>3 DEF Effects
  <1>6. \A m \in Obs : m \in Nat  BY Lengths DEF Obs
  <1> HIDE DEF Histories
  <1>7. \A p \in Proc : generation'[p] = generation[p] + IF p = Of(t) /\ call[t].op = "execve" /\ ret = 0 THEN 1 ELSE 0
    <2>1. generation \in [Proc -> Nat]  BY DEF TypeInv
    <2>2. CASE Execs(t)
      <3>1. /\ call[t].op = "execve" /\ Done(t, 0)
            /\ generation' = [generation EXCEPT ![Of(t)] = generation[Of(t)] + 1]
        BY <2>2 DEF Execs, Runs
      <3>2. ret = 0
        <4>1. call'[t].ret = 0  BY <1>4, <3>1 DEF Done, TypeInv, CallType
        <4>2. QED BY <1>2, <4>1 DEF Answered
      <3>3. QED BY <2>1, <3>1, <3>2
    <2>3. CASE ~Execs(t)
      <3>1. UNCHANGED generation
        BY <2>3, Zenon DEF Effects, Fails, Opens, Closes, ConnectsTo, Reads, Writes, Unobserved, analyzer
      <3>2. ~(call[t].op = "execve" /\ ret = 0)
        <4>1. SUFFICES ASSUME call[t].op = "execve" PROVE ret # 0
          OBVIOUS
        <4>2. Fails(t) /\ Done(t, -13)
          BY <2>3, <4>1 DEF Effects, Fails, Opens, Closes, ConnectsTo, Reads, Writes, Runs
        <4>3. call'[t].ret = -13  BY <1>4, <4>2 DEF Done, TypeInv, CallType
        <4>4. QED BY <1>2, <4>3 DEF Answered
      <3>3. QED BY <2>1, <3>1, <3>2
    <2>4. QED BY <2>2, <2>3
  <1>8. call[t].op = "read" => (ret = 1 /\ actual'[call[t].obs].kind \in Kinds)
      \/ (ret < 0 /\ actual'[call[t].obs] = actual[call[t].obs])
    <2>1. SUFFICES ASSUME call[t].op = "read"
                   PROVE  (ret = 1 /\ actual'[call[t].obs].kind \in Kinds)
      \/ (ret < 0 /\ actual'[call[t].obs] = actual[call[t].obs])
      OBVIOUS
    <2>2. CASE Reads(t)
      <3>1. Done(t, 1) /\ call[t].fd \in Readable(Of(t))  BY <2>2 DEF Reads
      <3>2. ret = 1
        <4>1. call'[t].ret = 1  BY <1>4, <3>1 DEF Done, TypeInv, CallType
        <4>2. QED BY <1>2, <4>1 DEF Answered
      <3>3. actual'[call[t].obs].kind = At(Of(t), call[t].fd).kind
        <4>1. \E from : OnIt(t, At(Of(t), call[t].fd), from)
          BY <2>2 DEF Reads
        <4>2. actual \in Seq(ActualType) /\ call[t].obs \in DOMAIN actual
          BY <1>3, CallTypes DEF TypeInv
        <4>3. actual[call[t].obs] \in ActualType  BY <4>2
        <4>4. QED BY <4>1, <4>2, <4>3 DEF OnIt, ActualType
      <3>4. At(Of(t), call[t].fd).kind \in Kinds
        BY <1>4, <3>1, FileAt DEF Readable, IsOpen, FileType
      <3>5. QED BY <3>2, <3>3, <3>4
    <2>3. CASE Fails(t)
      <3>1. UNCHANGED actual /\ (Done(t, -13) \/ Done(t, -9))
        BY <2>3 DEF Fails
      <3>2. call'[t].ret \in {-13, -9}
        BY <1>4, <3>1 DEF Done, TypeInv, CallType
      <3>3. ret < 0  BY <1>2, <3>2 DEF Answered
      <3>4. QED BY <3>1, <3>3
    <2>4. QED BY <2>1, <2>2, <2>3 DEF Effects, Opens, Closes, ConnectsTo, Writes, Execs, Runs
  <1>9. Affected(t, ret)
    BY <1>2, <1>3, <1>4, <1>5, <1>6, <1>7, <1>8 DEF Affected, Histories
  <1>10. QED BY <1>1, <1>9

(* The four kinds of steps. *)
LEMMA StepIs ==
  ASSUME TypeInv, [Next]_vars
  PROVE  \/ \E t \in Thread : \E c, n : Enter(t) /\ Entered(t, c, n)
         \/ \E t \in Thread : \E n : Exit(t) /\ Left(t, n)
         \/ \E t \in Thread, ret \in Int : Effects(t) /\ Affected(t, ret)
         \/ Aside /\ UNCHANGED << files, table >>
         \/ \E p \in Proc : MakesSocket(p) /\ Aside
  <1>1. ASSUME NEW t \in Thread, Enter(t) PROVE \E c, n : Entered(t, c, n)
    <2>1. PICK c : Entry(t, c)  BY <1>1, EnterIsEntry
    <2>2. QED BY <2>1, EntryIs
  <1>2. ASSUME NEW t \in Thread, Exit(t) PROVE \E n : Left(t, n)
    BY <1>2, ExitIsLeaving, LeavingIs
  <1>3. ASSUME NEW t \in Thread, Effects(t) PROVE \E ret \in Int : Affected(t, ret)
    BY <1>3, EffectIs
  <1>4. ASSUME NEW p \in Proc, MakesSocket(p) PROVE Aside  BY <1>4, AsideAre
  <1>5. CASE Configure \/ End \/ UNCHANGED vars  BY <1>5, OthersTypes
  <1>6. QED BY <1>1, <1>2, <1>3, <1>4, <1>5, Zenon DEF Next, Effects

LEMMA EntryStamps ==
  ASSUME NEW p, NEW c, NEW time
  PROVE  LET o == EventObservation(p, c, time) IN
         /\ o.type = "Event" /\ o.call = c.op /\ o.fd = c.fd /\ o.ret = 0
         /\ o.source = IF c.op \in {"open", "connect", "execve"} THEN c.what ELSE NoSource
         /\ o.value = Carries(c) /\ o.inst = p /\ o.gen = generation[p]
         /\ o.res = IF c.fd # 0 THEN At(p, c.fd).pipe ELSE 0
         /\ o.role = IF c.fd # 0 THEN At(p, c.fd).role ELSE NoSource
         /\ o.start = time /\ o.end = 0 /\ o.pid = p
  BY DEF EventObservation

LEMMA LeftKeeps ==
  ASSUME NEW t, NEW n, Left(t, n)
  PROVE  /\ \A m \in Obs : SameCall(m)
         /\ observations'[n].ret = call[t].ret /\ observations'[n].end = clock + 1
         /\ observations'[n].value = IF call[t].op = "read" /\ call[t].ret > 0 THEN Secret
                                     ELSE observations[n].value
  <1>1. /\ observations'[n] = Returned(observations[n], call[t], clock + 1)
        /\ observations[n] \in EventType /\ call[t] \in CallType /\ clock + 1 \in Nat
        /\ \A m \in Obs : m # n => observations'[m] = observations[m]
    BY DEF Left
  <1>2. SameCall(n)  BY <1>1, ReturnedIs DEF SameCall
  <1>3. \A m \in Obs : m # n => SameCall(m)  BY <1>1 DEF SameCall
  <1>4. QED BY <1>1, <1>2, <1>3, ReturnedIs

LEMMA ObsTypes == TypeInv => \A n \in Obs : n \in Nat /\ observations[n] \in EventType /\ actual[n] \in ActualType
  <1>1. TypeInv => Obs = DOMAIN actual  BY Lengths DEF Obs
  <1>2. QED BY <1>1 DEF TypeInv, Obs

LEMMA TimeKept == TypeInv /\ TimeInv /\ [Next]_vars => TimeInv'
  <1> SUFFICES ASSUME TypeInv, TimeInv, [Next]_vars PROVE TimeInv'
    OBVIOUS
  <1>0. \A n \in Obs : n \in Nat /\ observations[n].start \in Nat /\ observations[n].end \in Nat
    BY ObsTypes DEF EventType
  <1>1. ASSUME NEW t, NEW c, NEW n, Entered(t, c, n) PROVE TimeInv'
    <2>1. /\ n \in Nat /\ n \notin Obs /\ Obs' = Obs \cup {n} /\ \A m \in Obs : m < n
          /\ \A m \in Obs : observations'[m] = observations[m]
          /\ clock \in Nat /\ clock' = clock + 1
          /\ observations'[n] = EventObservation(Of(t), c, clock + 1)
      BY <1>1 DEF Entered
    <2>2. observations'[n].start = clock + 1 /\ observations'[n].end = 0
      BY <2>1, EntryStamps
    <2>3. QED BY <1>0, <2>1, <2>2 DEF TimeInv
  <1>2. ASSUME NEW t, NEW n, Left(t, n) PROVE TimeInv'
    <2>1. /\ n \in Obs /\ Obs' = Obs
          /\ \A m \in Obs : m # n => observations'[m] = observations[m]
          /\ clock \in Nat /\ clock' = clock + 1
          /\ observations'[n] = Returned(observations[n], call[t], clock + 1)
          /\ observations[n] \in EventType /\ call[t] \in CallType
      BY <1>2 DEF Left
    <2>2. observations'[n].start = observations[n].start /\ observations'[n].end = clock + 1
      BY <2>1, ReturnedIs
    <2>3. QED BY <1>0, <2>1, <2>2 DEF TimeInv
  <1>3. ASSUME UNCHANGED << observations, clock >> PROVE TimeInv'
    BY <1>3 DEF TimeInv, Obs
  <1>4. QED BY <1>1, <1>2, <1>3, StepIs DEF Affected, Aside

LEMMA ImageKept == TypeInv /\ ImageInv /\ [Next]_vars => ImageInv'
  <1> SUFFICES ASSUME TypeInv, ImageInv, [Next]_vars PROVE ImageInv'
    OBVIOUS
  <1>0. /\ \A n \in Obs : n \in Nat /\ observations[n].pid \in Proc /\ observations[n].gen \in Nat
        /\ \A p \in Proc : generation[p] \in Nat
    BY ObsTypes DEF EventType, TypeInv
  <1>1. ASSUME NEW t, NEW c, NEW n, Entered(t, c, n) PROVE ImageInv'
    <2>1. /\ n \in Nat /\ n \notin Obs /\ Obs' = Obs \cup {n} /\ \A m \in Obs : m < n
          /\ \A m \in Obs : observations'[m] = observations[m] /\ actual'[m] = actual[m]
          /\ observations'[n] = EventObservation(Of(t), c, clock + 1)
          /\ actual'[n].image = Image(Of(t)) /\ Of(t) \in Proc
          /\ generation' = generation
      BY <1>1 DEF Entered
    <2>2. /\ observations'[n].inst = Of(t) /\ observations'[n].pid = Of(t)
          /\ observations'[n].gen = generation[Of(t)]
      BY <2>1, EntryStamps
    <2>3. QED BY <1>0, <2>1, <2>2 DEF ImageInv, Image
  <1>2. ASSUME NEW t, NEW n, Left(t, n) PROVE ImageInv'
    <2>1. /\ n \in Obs /\ Obs' = Obs
          /\ \A m \in Obs : m # n => observations'[m] = observations[m]
          /\ clock \in Nat
          /\ observations'[n] = Returned(observations[n], call[t], clock + 1)
          /\ observations[n] \in EventType /\ call[t] \in CallType
          /\ actual' = actual /\ generation' = generation
      BY <1>2 DEF Left
    <2>2. /\ observations'[n].inst = observations[n].inst /\ observations'[n].gen = observations[n].gen
          /\ observations'[n].pid = observations[n].pid
      BY <2>1, ReturnedIs
    <2>3. QED BY <1>0, <2>1, <2>2 DEF ImageInv
  <1>3. ASSUME NEW t, NEW ret, Affected(t, ret) PROVE ImageInv'
    <2>1. observations' = observations /\ Obs' = Obs
      BY <1>3 DEF Affected, Obs
    <2>2. \A m \in Obs : actual'[m].image = actual[m].image
      BY <1>3 DEF Affected
    <2>3. \A p \in Proc : generation'[p] = generation[p] \/ generation'[p] = generation[p] + 1
      BY <1>0, <1>3 DEF Affected
    <2>4. QED BY <1>0, <2>1, <2>2, <2>3 DEF ImageInv
  <1>4. ASSUME UNCHANGED << observations, actual, generation >> PROVE ImageInv'
    BY <1>4 DEF ImageInv, Obs
  <1>5. QED BY <1>1, <1>2, <1>3, <1>4, StepIs DEF Aside

(* The process of an exec has no other thread. *)
LEMMA ExecAlone ==
  ASSUME TypeInv, CallInv, NEW t \in Thread, NEW u \in Thread, call[t] # NoCall, call[t].op = "execve", Of(u) = Of(t)
  PROVE  u = t
  <1>1. "execve" \in workload.offers[t]  BY DEF CallInv, Underway
  <1>2. t # u => "execve" \notin workload.offers[t]  BY Inputs DEF TypeInv
  <1>3. QED BY <1>1, <1>2

LEMMA CallKept == TypeInv /\ TimeInv /\ CallInv /\ [Next]_vars => CallInv'
  <1> SUFFICES ASSUME TypeInv, TimeInv, CallInv, [Next]_vars PROVE CallInv'
    OBVIOUS
  <1>0. /\ \A n \in Obs : n \in Nat /\ observations[n] \in EventType
        /\ \A p \in Proc : generation[p] \in Nat
        /\ \A t \in Thread : call[t] \in CallType /\ Of(t) \in Proc
    BY ObsTypes, OfProc DEF TypeInv
  <1>1. ASSUME NEW t \in Thread, NEW c, NEW n, Entered(t, c, n) PROVE CallInv'
    <2>1. /\ n \notin Obs /\ Obs' = Obs \cup {n} /\ workload' = workload
          /\ Thread' = Thread /\ NoCall' = NoCall
          /\ \A m \in Obs : observations'[m] = observations[m] /\ actual'[m] = actual[m]
          /\ \A u \in Thread : u # t => call'[u] = call[u]
          /\ call'[t] # NoCall /\ call'[t].obs = n
          /\ generation' = generation /\ Of(t) \in Proc
      BY <1>1, SameTypes DEF Entered, NoCall
    <2>2. \A u \in Thread : u # t /\ call[u] # NoCall => Underway(u)'
      <3> SUFFICES ASSUME NEW u \in Thread, u # t, call[u] # NoCall PROVE Underway(u)'
        OBVIOUS
      <3>1. Underway(u) /\ call'[u] = call[u]  BY <2>1 DEF CallInv
      <3>2. QED BY <2>1, <3>1 DEF Underway, Changed, Of
    <2>3. Underway(t)'
      <3> DEFINE o == observations'[n]
      <3>1. /\ o.end = 0 /\ o.ret = 0 /\ o.call = c.op /\ o.fd = c.fd /\ o.pid = Of(t)
            /\ o.source = IF c.op \in {"open", "connect", "execve"} THEN c.what ELSE NoSource
            /\ generation[Of(t)] = o.gen
        BY <1>1, EntryStamps DEF Entered
      <3>2. /\ call'[t].op = c.op /\ call'[t].fd = c.fd /\ call'[t].what = c.what /\ ~call'[t].done
            /\ actual'[n].kind = NoSource /\ c.op \in workload.offers[t]
        BY <1>1 DEF Entered
      <3>3. generation[Of(t)] = o.gen + 0  BY <1>0, <2>1, <3>1
      <3> HIDE DEF o
      <3>4. QED BY <2>1, <3>1, <3>2, <3>3 DEF Underway, Changed, Of, o
    <2>4. \A u, v \in Thread : u # v /\ call'[u] # NoCall /\ call'[v] # NoCall => call'[u].obs # call'[v].obs
      BY <2>1 DEF CallInv, Underway
    <2>5. \A m \in Obs' : observations'[m].end = 0 => \E u \in Thread : call'[u] # NoCall /\ call'[u].obs = m
      <3> SUFFICES ASSUME NEW m \in Obs', observations'[m].end = 0
                   PROVE  \E u \in Thread : call'[u] # NoCall /\ call'[u].obs = m
        OBVIOUS
      <3>1. CASE m = n  BY <2>1, <3>1
      <3>2. CASE m \in Obs
        <4>1. PICK u \in Thread : call[u] # NoCall /\ call[u].obs = m
          BY <2>1, <3>2 DEF CallInv
        <4>2. u # t  BY <1>1, <4>1 DEF Entered
        <4>3. QED BY <2>1, <4>1, <4>2
      <3>3. QED BY <2>1, <3>1, <3>2
    <2>6. QED BY <2>1, <2>2, <2>3, <2>4, <2>5 DEF CallInv
  <1>2. ASSUME NEW t \in Thread, NEW n, Left(t, n) PROVE CallInv'
    <2>1. /\ n = call[t].obs /\ n \in Obs /\ Obs' = Obs /\ workload' = workload
          /\ Thread' = Thread /\ NoCall' = NoCall
          /\ \A m \in Obs : m # n => observations'[m] = observations[m]
          /\ actual' = actual /\ generation' = generation
          /\ \A u \in Thread : u # t => call'[u] = call[u]
          /\ call'[t] = NoCall /\ call[t] # NoCall
      BY <1>2, SameTypes DEF Left, NoCall
    <2>2. observations'[n].end = clock + 1 /\ clock \in Nat
      BY <1>0, <1>2, ReturnedIs DEF Left
    <2>3. \A u \in Thread : u # t /\ call[u] # NoCall => Underway(u)'
      <3> SUFFICES ASSUME NEW u \in Thread, u # t, call[u] # NoCall PROVE Underway(u)'
        OBVIOUS
      <3>1. Underway(u) /\ call'[u] = call[u] /\ call[u].obs # n
        BY <2>1 DEF CallInv
      <3>2. QED BY <2>1, <3>1 DEF Underway, Changed, Of
    <2>4. \A u, v \in Thread : u # v /\ call'[u] # NoCall /\ call'[v] # NoCall => call'[u].obs # call'[v].obs
      BY <2>1 DEF CallInv
    <2>5. \A m \in Obs : observations'[m].end = 0 => \E u \in Thread : call'[u] # NoCall /\ call'[u].obs = m
      <3> SUFFICES ASSUME NEW m \in Obs, observations'[m].end = 0
                   PROVE  \E u \in Thread : call'[u] # NoCall /\ call'[u].obs = m
        OBVIOUS
      <3>1. m # n  BY <2>2
      <3>2. PICK u \in Thread : call[u] # NoCall /\ call[u].obs = m
        BY <2>1, <3>1 DEF CallInv
      <3>3. QED BY <2>1, <3>1, <3>2
    <2>6. QED BY <2>1, <2>3, <2>4, <2>5 DEF CallInv
  <1>3. ASSUME NEW t \in Thread, NEW ret \in Int, Affected(t, ret) PROVE CallInv'
    <2> DEFINE n == call[t].obs
    <2>1. /\ n \in Obs /\ Obs' = Obs /\ workload' = workload
          /\ Thread' = Thread /\ NoCall' = NoCall
          /\ observations' = observations
          /\ call[t] # NoCall /\ ~call[t].done /\ Of(t) \in Proc
      BY <1>3, SameTypes DEF Affected, NoCall, Obs
    <2>2. /\ \A u \in Thread : u # t => call'[u] = call[u]
          /\ call'[t].op = call[t].op /\ call'[t].fd = call[t].fd /\ call'[t].what = call[t].what
          /\ call'[t].obs = n /\ call'[t].ret = ret /\ call'[t].done = TRUE
          /\ call'[t] # NoCall
      BY <1>3 DEF Affected, Answered
    <2>3. \A m \in Obs : m # n => actual'[m] = actual[m]  BY <1>3 DEF Affected
    <2>4. \A p \in Proc : generation'[p] = generation[p] + IF p = Of(t) /\ call[t].op = "execve" /\ ret = 0 THEN 1 ELSE 0
      BY <1>3 DEF Affected
    <2>5. \A u \in Thread : u # t /\ call[u] # NoCall => Underway(u)'
      <3> SUFFICES ASSUME NEW u \in Thread, u # t, call[u] # NoCall PROVE Underway(u)'
        OBVIOUS
      <3>1. Underway(u) /\ call'[u] = call[u] /\ call[u].obs # n
        BY <2>1, <2>2 DEF CallInv
      <3>2. generation'[Of(u)] = generation[Of(u)]
        <4>1. ~(Of(u) = Of(t) /\ call[t].op = "execve")  BY <2>1, ExecAlone
        <4>2. Of(u) \in Proc /\ generation[Of(u)] \in Nat  BY <1>0
        <4>3. QED BY <2>4, <4>1, <4>2
      <3>3. call[u].obs \in Obs /\ actual'[call[u].obs] = actual[call[u].obs]
        BY <2>3, <3>1 DEF Underway
      <3> HIDE DEF n
      <3>4. QED BY <2>1, <3>1, <3>2, <3>3 DEF Underway, Changed, Of
    <2>6. Underway(t)'
      <3>1. Underway(t)  BY <2>1 DEF CallInv
      <3>2. generation[Of(t)] = observations[n].gen /\ observations[n].gen \in Nat
        BY <1>0, <2>1, <3>1 DEF Underway, Changed, EventType
      <3>3. generation'[Of(t)] = observations[n].gen + IF call[t].op = "execve" /\ ret = 0 THEN 1 ELSE 0
        BY <2>1, <2>4, <3>2
      <3>4. call[t].op = "read" => (ret = 1 /\ actual'[n].kind # NoSource) \/ (ret < 0 /\ actual'[n].kind = NoSource)
        <4>1. call[t].op = "read" => (ret = 1 /\ actual'[n].kind \in Kinds)
          \/ (ret < 0 /\ actual'[n] = actual[n])
          BY <1>3 DEF Affected
        <4>2. actual[n].kind = NoSource  BY <2>1, <3>1 DEF Underway
        <4>3. QED BY <4>1, <4>2, Values
      <3> HIDE DEF n
      <3>5. QED BY <2>1, <2>2, <3>1, <3>3, <3>4 DEF Underway, Changed, Of, n
    <2>7. \A u, v \in Thread : u # v /\ call'[u] # NoCall /\ call'[v] # NoCall => call'[u].obs # call'[v].obs
      BY <2>1, <2>2 DEF CallInv
    <2>8. \A m \in Obs : observations'[m].end = 0 => \E u \in Thread : call'[u] # NoCall /\ call'[u].obs = m
      <3> SUFFICES ASSUME NEW m \in Obs, observations[m].end = 0
                   PROVE  \E u \in Thread : call'[u] # NoCall /\ call'[u].obs = m
        BY <2>1
      <3>1. PICK u \in Thread : call[u] # NoCall /\ call[u].obs = m
        BY DEF CallInv
      <3>2. QED BY <2>2, <3>1
    <2>9. QED BY <2>1, <2>2, <2>5, <2>6, <2>7, <2>8 DEF CallInv
  <1>4. ASSUME Aside PROVE CallInv'
    BY <1>4 DEF CallInv, Underway, Changed, Obs, Aside, Thread, Of, NoCall
  <1>5. QED BY <1>1, <1>2, <1>3, <1>4, StepIs

LEMMA ElementsOfConcat ==
  ASSUME NEW S, NEW s \in Seq(S), NEW T, NEW m \in Seq(T)
  PROVE  \A k \in DOMAIN (s \o m) : (k \in DOMAIN s /\ (s \o m)[k] = s[k]) \/ (s \o m)[k] \in T
  OBVIOUS

LEMMA StillGood ==
  ASSUME TypeInv, TimeInv, [Next]_vars, NEW d \in DatumType, GoodDatum(d)
  PROVE  GoodDatum(d)'
  <1>0. /\ \A n \in Obs : n \in Nat /\ observations[n] \in EventType
        /\ d.start \in Nat /\ clock \in Nat
    BY ObsTypes DEF TypeInv, DatumType
  <1>1. ASSUME NEW t \in Thread, NEW c, NEW n, Entered(t, c, n) PROVE GoodDatum(d)'
    <2>1. /\ n \notin Obs /\ Obs' = Obs \cup {n}
          /\ \A m \in Obs : observations'[m] = observations[m]
          /\ clock' = clock + 1
          /\ observations'[n].start = clock + 1
      BY <1>1, EntryStamps DEF Entered
    <2>2. QED BY <1>0, <2>1 DEF GoodDatum
  <1>2. ASSUME NEW t \in Thread, NEW n, Left(t, n) PROVE GoodDatum(d)'
    <2>1. /\ n \in Obs /\ Obs' = Obs /\ clock' = clock + 1  BY <1>2 DEF Left
    <2>3. \A m \in Obs : /\ observations'[m].start = observations[m].start /\ observations'[m].pid = observations[m].pid
                         /\ observations'[m].gen = observations[m].gen /\ observations'[m].inst = observations[m].inst
      BY <1>2, LeftKeeps DEF SameCall
    <2>4. QED BY <1>0, <2>1, <2>3 DEF GoodDatum
  <1>3. ASSUME UNCHANGED << observations, clock >> PROVE GoodDatum(d)'
    BY <1>3 DEF GoodDatum, Obs
  <1>4. QED BY <1>1, <1>2, <1>3, StepIs DEF Affected, Aside

LEMMA DataKept == TypeInv /\ TimeInv /\ ImageInv /\ CallInv /\ DataInv /\ [Next]_vars => DataInv'
  <1> SUFFICES ASSUME TypeInv, TimeInv, ImageInv, CallInv, DataInv, [Next]_vars PROVE DataInv'
    OBVIOUS
  <1>0. data \in Seq(DatumType) /\ \A k \in DOMAIN data : data[k] \in DatumType /\ GoodDatum(data[k])
    BY DEF TypeInv, DataInv
  <1>1. \A d \in DatumType : GoodDatum(d) => GoodDatum(d)'  BY StillGood
  <1>2. ImageInv' /\ TimeInv' /\ TypeInv'  BY ImageKept, TimeKept, TypesKept
  <1>3. ASSUME NEW t \in Thread, NEW c, NEW n, Enter(t), Entered(t, c, n) PROVE DataInv'
    <2> DEFINE D == Found(Of(t), clock + 1, Len(observations) + 1, {"memory", "environment", "write"})
    <2>1. PICK more \in Seq(D) : data' = data \o more  BY <1>3, EnterIsEntry
    <2>2. n = Len(observations) + 1  BY <1>3 DEF Entered
    <2>3. ASSUME NEW d \in D PROVE GoodDatum(d)'
      <3>1. PICK l \in {"memory", "environment", "write"}, o \in {0, n} : d = DataObservation(Of(t), l, clock + 1, o)
        BY <2>2 DEF Found
      <3>2. d.pid = Of(t) /\ d.image = << Of(t), generation[Of(t)] >> /\ d.start = clock + 1 /\ d.origin = o
        BY <3>1 DEF DataObservation, Image
      <3>3. /\ n \in Obs' /\ clock' = clock + 1 /\ clock \in Nat /\ generation' = generation
            /\ observations'[n].pid = Of(t) /\ observations'[n].start = clock + 1
            /\ observations'[n].gen = generation[Of(t)] /\ observations'[n].inst = Of(t)
        BY <1>3, EntryStamps DEF Entered
      <3>4. \A m \in Obs' : observations'[m].pid = Of(t) => observations'[m].gen <= generation[Of(t)]
        BY <1>2, <3>3 DEF ImageInv
      <3>5. d.image[1] = Of(t) /\ d.image[2] = generation[Of(t)]  BY <3>2
      <3>6. clock + 1 <= clock + 1  BY <3>3
      <3>7. QED BY <3>2, <3>3, <3>4, <3>5, <3>6 DEF GoodDatum
    <2> HIDE DEF D
    <2>4. \A k \in DOMAIN data' : (k \in DOMAIN data /\ data'[k] = data[k]) \/ data'[k] \in D
      BY <1>0, <2>1, ElementsOfConcat
    <2>5. QED BY <1>0, <1>1, <2>3, <2>4 DEF DataInv
  <1>4. ASSUME NEW t \in Thread, NEW n, Exit(t), Left(t, n) PROVE DataInv'
    <2> DEFINE got == call[t].op = "read" /\ call[t].ret > 0
               D == IF got THEN Found(Of(t), clock + 1, call[t].obs, {"memory", "read"}) ELSE {}
    <2>1. PICK more \in Seq(D) : data' = data \o more  BY <1>4, ExitIsLeaving
    <2>2. n = call[t].obs /\ n \in Obs /\ Obs' = Obs /\ clock' = clock + 1 /\ clock \in Nat /\ generation' = generation
      BY <1>4 DEF Left
    <2>3. ASSUME NEW d \in D PROVE GoodDatum(d)'
      <3>1. PICK l \in {"memory", "read"}, o \in {0, n} : d = DataObservation(Of(t), l, clock + 1, o)
        BY <2>2 DEF Found
      <3>2. d.pid = Of(t) /\ d.image = << Of(t), generation[Of(t)] >> /\ d.start = clock + 1 /\ d.origin = o
        BY <3>1 DEF DataObservation, Image
      <3>3. Underway(t) /\ call[t].op = "read"  BY <1>4 DEF CallInv, Left
      <3>4. /\ observations'[n].start = observations[n].start /\ observations'[n].pid = observations[n].pid
            /\ observations'[n].gen = observations[n].gen /\ observations'[n].inst = observations[n].inst
        BY <1>4, <2>2, LeftKeeps DEF SameCall
      <3>5. /\ observations[n].pid = Of(t) /\ observations[n].gen = generation[Of(t)]
            /\ observations[n].inst = Of(t) /\ observations[n].start <= clock
        <4>1. observations[n].pid = Of(t) /\ generation[Of(t)] = observations[n].gen + 0
          BY <2>2, <3>3 DEF Underway, Changed
        <4>2. observations[n].gen \in Nat  BY <2>2, ObsTypes DEF EventType
        <4>3. observations[n].inst = observations[n].pid /\ observations[n].start <= clock
          BY <2>2 DEF ImageInv, TimeInv
        <4>4. QED BY <4>1, <4>2, <4>3
      <3>6. \A m \in Obs' : observations'[m].pid = Of(t) => observations'[m].gen <= generation[Of(t)]
        BY <1>2, <2>2 DEF ImageInv
      <3>7. d.image[1] = Of(t) /\ d.image[2] = generation[Of(t)]  BY <3>2
      <3>8. clock + 1 <= clock + 1 /\ observations[n].start <= clock + 1
        <4>1. observations[n].start \in Nat  BY <2>2, ObsTypes DEF EventType
        <4>2. QED BY <2>2, <3>5, <4>1
      <3>9. QED BY <2>2, <3>2, <3>4, <3>5, <3>6, <3>7, <3>8 DEF GoodDatum
    <2> HIDE DEF D
    <2>4. \A k \in DOMAIN data' : (k \in DOMAIN data /\ data'[k] = data[k]) \/ data'[k] \in D
      BY <1>0, <2>1, ElementsOfConcat
    <2>5. QED BY <1>0, <1>1, <2>3, <2>4 DEF DataInv
  <1>5. ASSUME UNCHANGED data PROVE DataInv'  BY <1>0, <1>1, <1>5 DEF DataInv
  <1>6. QED BY <1>3, <1>4, <1>5, StepIs DEF Affected, Aside

-----------------------------------------------------------------------------
(* Where a data observation is put in the finished graph.                  *)
LEMMA ContextExists ==
  ASSUME NEW obs \in Seq(GraphType), NEW d \in DatumType, NEW n0 \in Candidates(obs, d)
  PROVE  /\ Context(obs, d) \in Candidates(obs, d)
         /\ \A m \in Candidates(obs, d) : \/ obs[m].start < obs[Context(obs, d)].start
                                          \/ obs[m].start = obs[Context(obs, d)].start /\ m <= Context(obs, d)
  <1> DEFINE C == Candidates(obs, d)
             S == {obs[n].start : n \in C}
  <1>1. \A n \in C : obs[n].start \in Nat /\ obs[n].start <= d.start /\ n \in 1 .. Len(obs)
    BY DEF Candidates, GraphType, EventType, DataType
  <1>2. d.start \in Nat /\ Len(obs) \in Nat  BY DEF DatumType
  <1>3. PICK s \in S : \A r \in S : r <= s
    <2>1. S \in SUBSET Nat /\ S # {} /\ \A r \in S : r <= d.start  BY <1>1
    <2>2. QED BY <1>2, <2>1, GreatestNumber
  <1> DEFINE T == {n \in C : obs[n].start = s}
  <1>4. PICK n \in T : \A m \in T : m <= n
    <2>1. T \in SUBSET Nat /\ T # {} /\ \A m \in T : m <= Len(obs)
      BY <1>1, <1>3
    <2>2. QED BY <1>2, <2>1, GreatestNumber
  <1>5. \A m \in C : obs[m].start < obs[n].start \/ (obs[m].start = obs[n].start /\ m <= n)
    <2> SUFFICES ASSUME NEW m \in C, obs[m].start # s PROVE obs[m].start < s
      BY <1>4
    <2>1. obs[m].start \in S
      OBVIOUS
    <2>2. obs[m].start <= s /\ obs[m].start \in Nat /\ s \in Nat
      BY <1>1, <1>3, <2>1
    <2>3. QED BY <2>2
  <1>6. n \in C  BY <1>4
  <1> HIDE DEF C, S, T
  <1>7. \E c \in C : \A m \in C : \/ obs[m].start < obs[c].start
                                  \/ obs[m].start = obs[c].start /\ m <= c
    BY <1>5, <1>6
  <1>8. QED BY <1>7 DEF Context, C

(* It is of the image the process had. *)
LEMMA ContextImage ==
  ASSUME TypeInv, TimeInv, ImageInv, DataInv, NEW n \in Nat, n + 1 \in DOMAIN data,
         NEW obs, Appended(obs, n)
  PROVE  LET d == data[n + 1]
             of == obs[Context(obs, d)]
         IN of \in GraphType /\ << of.inst, of.gen >> = d.image
  <1> DEFINE d == data[n + 1]
             C == Candidates(obs, d)
             c == Context(obs, d)
             N == Len(observations)
  <1>1. /\ obs \in Seq(GraphType) /\ DOMAIN obs = 1 .. N + n /\ N \in Nat /\ Obs = 1 .. N
        /\ \A m \in Obs : m \in DOMAIN obs /\ obs[m] = observations[m]
        /\ \A k \in 1 .. n : GraphDatum(obs[N + k], data[k])
    BY Lengths DEF Appended, Obs
  <1>2. /\ data \in Seq(DatumType) /\ d \in DatumType /\ GoodDatum(d)
        /\ \A k \in 1 .. n : k \in DOMAIN data /\ data[k] \in DatumType /\ GoodDatum(data[k])
    BY DEF TypeInv, DataInv
  <1> HIDE DEF d, N
  <1>3. PICK n0 \in Obs : /\ observations[n0].pid = d.pid /\ observations[n0].start <= d.start
                          /\ observations[n0].gen = d.image[2]
    BY <1>2 DEF GoodDatum
  <1>4. n0 \in C  BY <1>1, <1>3 DEF Candidates
  <1>5. c \in C /\ \A m \in C : obs[m].start < obs[c].start \/ (obs[m].start = obs[c].start /\ m <= c)
    BY <1>1, <1>2, <1>4, ContextExists
  <1>6. c \in DOMAIN obs /\ obs[c].pid = d.pid /\ obs[c].start <= d.start
    BY <1>5 DEF Candidates
  <1> HIDE DEF C, c
  <1>7. observations[n0].start < obs[c].start \/ (observations[n0].start = obs[c].start /\ n0 <= c)
    BY <1>1, <1>4, <1>5
  <1>8. /\ \A m \in Obs : observations[m].start \in Nat /\ observations[m].gen \in Nat /\ observations[m].pid \in Proc
        /\ d.start \in Nat /\ d.image \in Proc \X Nat
        /\ \A k \in 1 .. n : data[k].start \in Nat /\ data[k].image \in Proc \X Nat
    BY <1>2, ObsTypes DEF EventType, DatumType
  <1>9. CASE c \in Obs
    <2>1. obs[c] = observations[c] /\ observations[c].inst = d.pid /\ observations[c].gen <= d.image[2]
      BY <1>1, <1>2, <1>6, <1>9 DEF ImageInv, GoodDatum
    <2>2. n0 <= c
      <3>1. c \in Nat /\ n0 \in Nat  BY <1>1, <1>9
      <3>2. c < n0 => observations[c].start < observations[n0].start
        BY <1>9 DEF TimeInv
      <3>3. observations[c].start \in Nat /\ observations[n0].start \in Nat
        BY <1>8, <1>9
      <3>4. QED BY <1>7, <2>1, <3>1, <3>2, <3>3
    <2>3. observations[n0].gen <= observations[c].gen
      <3>1. c \in Nat /\ n0 \in Nat /\ observations[c].pid = observations[n0].pid
        BY <1>1, <1>3, <1>6, <1>9
      <3>2. n0 < c => observations[n0].gen <= observations[c].gen
        BY <1>9, <3>1 DEF ImageInv
      <3>3. observations[c].gen \in Nat  BY <1>8, <1>9
      <3>4. QED BY <2>2, <3>1, <3>2, <3>3
    <2>4. observations[c].gen = d.image[2]  BY <1>3, <1>8, <1>9, <2>1, <2>3
    <2>5. d.image = << d.pid, d.image[2] >>  BY <1>2, <1>8 DEF GoodDatum
    <2>6. QED BY <1>1, <1>6, <2>1, <2>4, <2>5 DEF d, c
  <1>10. CASE c \notin Obs
    <2>1. PICK k \in 1 .. n : c = N + k
      <3>1. c \in 1 .. N + n /\ c \notin 1 .. N  BY <1>1, <1>6, <1>10
      <3>2. c - N \in 1 .. n /\ c = N + (c - N)  BY <1>1, <3>1
      <3>3. QED BY <3>2
    <2> DEFINE e == data[k]
    <2>2. GraphDatum(obs[c], e) /\ GoodDatum(e)  BY <1>1, <1>2, <2>1
    <2>3. obs[c].start = e.start /\ obs[c].pid = e.pid /\ << obs[c].inst, obs[c].gen >> = e.image
      BY <2>2 DEF GraphDatum
    <2> HIDE DEF e
    <2>4. e.image \in Proc \X Nat /\ e.start \in Nat  BY <1>8 DEF e
    <2>5. e.image[2] <= d.image[2]
      <3>1. PICK m \in Obs : /\ observations[m].pid = e.pid /\ observations[m].start <= e.start
                             /\ observations[m].gen = e.image[2]
        BY <2>2 DEF GoodDatum
      <3>2. observations[m].pid = d.pid /\ observations[m].start <= d.start
        BY <1>6, <1>8, <2>3, <2>4, <3>1
      <3>3. QED BY <1>2, <3>1, <3>2 DEF GoodDatum
    <2>6. d.image[2] <= e.image[2]
      <3>1. observations[n0].start <= e.start  BY <1>7, <1>8, <2>3, <2>4
      <3>2. observations[n0].pid = e.pid  BY <1>3, <1>6, <2>3
      <3>3. observations[n0].gen <= e.image[2]
        BY <2>2, <3>1, <3>2 DEF GoodDatum
      <3>4. QED BY <1>3, <3>3
    <2>7. e.image = d.image
      <3>1. e.image[1] = d.image[1]  BY <1>2, <1>6, <2>2, <2>3 DEF GoodDatum
      <3>2. e.image[2] = d.image[2]  BY <1>8, <2>4, <2>5, <2>6
      <3>3. QED BY <1>8, <2>4, <3>1, <3>2
    <2>8. QED BY <1>1, <1>6, <2>3, <2>7 DEF d, c
  <1>11. QED BY <1>9, <1>10

LEMMA AppendDataIs ==
  ASSUME TypeInv, TimeInv, ImageInv, DataInv, NEW n \in Nat, n + 1 \in DOMAIN data,
         NEW obs, Appended(obs, n)
  PROVE  Appended(AppendData(obs, data[n + 1]), n + 1)
  <1> DEFINE d == data[n + 1]
             of == obs[Context(obs, d)]
             from == ResourceOf(obs, d, of)
             o == GraphObservation(d, of, from)
             N == Len(observations)
  <1>1. of \in GraphType /\ << of.inst, of.gen >> = d.image  BY ContextImage
  <1>2. /\ obs \in Seq(GraphType) /\ Len(obs) = N + n /\ N \in Nat /\ Obs = 1 .. N
        /\ \A m \in Obs : m \in DOMAIN obs /\ obs[m] = observations[m]
        /\ \A k \in 1 .. n : GraphDatum(obs[N + k], data[k])
    BY Lengths DEF Appended, Obs
  <1>3. d \in DatumType /\ GoodDatum(d)  BY DEF TypeInv, DataInv
  <1>4. AppendData(obs, d) = Append(obs, o)  BY Zenon DEF AppendData
  <1>5. d.origin # 0 => d.origin \in Obs /\ observations[d.origin] \in EventType /\ d.origin \in DOMAIN obs
                        /\ obs[d.origin] = observations[d.origin]
                        /\ << observations[d.origin].inst, observations[d.origin].gen >> = d.image
    BY <1>2, <1>3, ObsTypes DEF GoodDatum
  <1>6. 0 \notin DOMAIN obs  BY <1>2
  <1> HIDE DEF d, of
  <1>7. d.image \in Proc \X Nat /\ d.image = << d.image[1], d.image[2] >>
    BY <1>3 DEF DatumType
  <1>8. of.inst = d.image[1] /\ of.gen = d.image[2]  BY <1>1, <1>7
  <1>9. /\ from.source \in What /\ from.res \in Nat /\ from.role \in Roles
        /\ d.origin # 0 => from.res = observations[d.origin].res
    <2>1. CASE d.origin = 0
      <3>1. {d.origin} \cap DOMAIN obs = {}  BY <1>6, <2>1
      <3>2. from = [res |-> 0, role |-> NoSource, source |-> NoSource]
        BY <3>1 DEF ResourceOf
      <3>3. QED BY <2>1, <3>2 DEF What, Names, Roles
    <2>2. CASE d.origin # 0
      <3>1. d.origin \in {d.origin} \cap DOMAIN obs /\ obs[d.origin].type = "Event"
            /\ obs[d.origin].inst = of.inst /\ obs[d.origin].gen = of.gen
        <4>1. observations[d.origin].type = "Event"
          BY <1>5, <2>2 DEF EventType
        <4>2. observations[d.origin].inst = d.image[1] /\ observations[d.origin].gen = d.image[2]
          BY <1>5, <1>7, <2>2
        <4>3. QED BY <1>5, <1>8, <2>2, <4>1, <4>2
      <3>2. from = obs[d.origin]  BY <3>1 DEF ResourceOf
      <3>3. QED BY <1>5, <2>2, <3>2 DEF EventType
    <2>3. QED BY <2>1, <2>2
  <1> HIDE DEF from
  <1>10. /\ o.call = d.call /\ o.start = d.start /\ o.pid = d.pid /\ o.origin = d.origin
         /\ o.image = d.image /\ o.inst = of.inst /\ o.gen = of.gen /\ o.res = from.res
    BY DEF GraphObservation
  <1>11. o \in DataType
    <2>1. of.inst \in Proc /\ of.gen \in Nat  BY <1>7, <1>8
    <2>2. QED BY <1>3, <1>9, <2>1 DEF GraphObservation, DataType, DatumType
  <1> HIDE DEF o
  <1>12. GraphDatum(o, d)
    <2>1. << o.inst, o.gen >> = d.image  BY <1>1, <1>10
    <2>2. d.origin # 0 => o.res = observations[d.origin].res  BY <1>9, <1>10
    <2>3. QED BY <1>10, <1>11, <2>1, <2>2 DEF GraphDatum
  <1> DEFINE new == Append(obs, o)
  <1>13. new \in Seq(GraphType) /\ Len(new) = N + (n + 1)
         /\ new[N + (n + 1)] = o /\ \A m \in DOMAIN obs : m \in DOMAIN new /\ new[m] = obs[m]
    <2>1. o \in GraphType  BY <1>11 DEF GraphType
    <2>2. Len(obs) + 1 = N + (n + 1)  BY <1>2
    <2>3. new \in Seq(GraphType) /\ Len(new) = Len(obs) + 1 /\ new[Len(obs) + 1] = o
          /\ \A m \in DOMAIN obs : m \in DOMAIN new /\ new[m] = obs[m]
      BY <1>2, <2>1
    <2>4. QED BY <2>2, <2>3
  <1> HIDE DEF new, N
  <1>14. \A k \in 1 .. n : N + k \in DOMAIN obs  BY <1>2
  <1>15. \A k \in 1 .. n + 1 : k \in 1 .. n \/ k = n + 1
    OBVIOUS
  <1>16. \A k \in 1 .. n + 1 : GraphDatum(new[N + k], data[k])
    BY <1>2, <1>12, <1>13, <1>14, <1>15 DEF d
  <1>17. \A m \in Obs : m \in DOMAIN new /\ new[m] = observations[m]
    BY <1>2, <1>13
  <1>18. Appended(new, n + 1)  BY <1>13, <1>16, <1>17 DEF Appended, N
  <1>19. QED BY <1>4, <1>18 DEF d, new

LEMMA FinishedIs ==
  ASSUME TypeInv, TimeInv, ImageInv, DataInv
  PROVE  Appended(Finished.obs, Len(data)) /\ Finished.edges = edges
  <1>0. PICK N \in Nat : N = Len(data) /\ DOMAIN data = 1 .. N /\ data \in Seq(DatumType)
    BY DEF TypeInv
  <1> DEFINE D == Seq(GraphType)
             step == [nd \in Nat \X D |-> IF nd[1] \in 1 .. N /\ Appended(nd[2], nd[1] - 1)
                                          THEN AppendData(nd[2], data[nd[1]]) ELSE nd[2]]
             body(g) == [n \in 0 .. N |-> IF n = 0 THEN observations ELSE AppendData(g[n - 1], data[n])]
             upTo == CHOOSE g : g = body(g)
  <1>1. Finished = [obs |-> upTo[N], edges |-> edges]  BY <1>0 DEF Finished
  <1>2. observations \in D /\ Appended(observations, 0)
    <2>1. observations \in Seq(EventType) /\ EventType \subseteq GraphType
      BY DEF TypeInv, GraphType
    <2>2. observations \in D  BY <2>1, SeqOfMore
    <2>3. Len(observations) \in Nat  BY <2>1
    <2>4. QED BY <2>2, <2>3 DEF Appended, Obs
  <1>3. \A n \in 1 .. N, d \in D : Appended(d, n - 1) => AppendData(d, data[n]) \in D /\ Appended(AppendData(d, data[n]), n)
    <2> SUFFICES ASSUME NEW n \in 1 .. N, NEW d \in D, Appended(d, n - 1)
                 PROVE  AppendData(d, data[n]) \in D /\ Appended(AppendData(d, data[n]), n)
      OBVIOUS
    <2>1. n - 1 \in Nat /\ (n - 1) + 1 = n /\ n \in DOMAIN data  BY <1>0
    <2>2. Appended(AppendData(d, data[(n - 1) + 1]), (n - 1) + 1)
      BY <2>1, AppendDataIs
    <2>3. Appended(AppendData(d, data[n]), n)  BY <2>1, <2>2
    <2>4. QED BY <2>3 DEF Appended
  <1> HIDE DEF D
  <1>4. step \in [Nat \X D -> D]  BY <1>3
  <1>5. \A n \in 1 .. N, d \in D : step[<< n, d >>] = IF Appended(d, n - 1) THEN AppendData(d, data[n]) ELSE d
    OBVIOUS
  <1> HIDE DEF step
  <1>6. PICK g \in [0 .. N -> D] : g[0] = observations /\ \A n \in 1 .. N : g[n] = step[<< n, g[n - 1] >>]
    <2>1. Unfolding(D, observations, step, N)  BY <1>2, <1>4, Recursion
    <2>2. QED BY <2>1 DEF Unfolding
  <1>7. \A n \in 1 .. N : g[n - 1] \in D /\ g[n] = IF Appended(g[n - 1], n - 1) THEN AppendData(g[n - 1], data[n]) ELSE g[n - 1]
    <2>1. \A n \in 1 .. N : n - 1 \in 0 .. N
      OBVIOUS
    <2>2. QED BY <1>5, <1>6, <2>1
  <1> DEFINE S == {n \in Nat : n <= N => Appended(g[n], n)}
  <1>8. 0 \in S  BY <1>2, <1>6
  <1>9. \A n \in Nat : n \in S => n + 1 \in S
    <2> SUFFICES ASSUME NEW n \in Nat, n \in S PROVE n + 1 \in S
      OBVIOUS
    <2> SUFFICES ASSUME n + 1 <= N PROVE Appended(g[n + 1], n + 1)
      OBVIOUS
    <2>1. Appended(g[n], n) /\ n + 1 \in 1 .. N /\ (n + 1) - 1 = n
      OBVIOUS
    <2>2. g[n] \in D /\ g[n + 1] = AppendData(g[n], data[n + 1])
      BY <1>7, <2>1
    <2>3. QED BY <1>3, <2>1, <2>2
  <1> HIDE DEF S
  <1>10. \A n \in 0 .. N : Appended(g[n], n)
    <2>1. Nat \subseteq S  BY <1>8, <1>9, Induct
    <2>2. QED BY <2>1 DEF S
  <1>11. \A n \in 1 .. N : g[n] = AppendData(g[n - 1], data[n])
    <2>1. \A n \in 1 .. N : n - 1 \in 0 .. N
      OBVIOUS
    <2>2. QED BY <1>7, <1>10, <2>1
  <1>12. g = body(g)  BY <1>6, <1>11
  <1>13. upTo = body(upTo)
    <2> HIDE DEF body
    <2>1. QED BY <1>12
  <1> HIDE DEF upTo
  <1>14. /\ upTo[0] = observations
         /\ \A n \in 1 .. N : upTo[n] = AppendData(upTo[n - 1], data[n])
    <2>1. \A n \in 0 .. N : upTo[n] = body(upTo)[n]  BY <1>13
    <2>2. QED BY <2>1
  <1> HIDE DEF body
  <1> DEFINE U == {n \in Nat : n <= N => upTo[n] = g[n]}
  <1>15. 0 \in U  BY <1>6, <1>14
  <1>16. \A n \in Nat : n \in U => n + 1 \in U
    <2> SUFFICES ASSUME NEW n \in Nat, n \in U PROVE n + 1 \in U
      OBVIOUS
    <2> SUFFICES ASSUME n + 1 <= N PROVE upTo[n + 1] = g[n + 1]
      OBVIOUS
    <2>1. upTo[n] = g[n] /\ n + 1 \in 1 .. N /\ (n + 1) - 1 = n
      OBVIOUS
    <2>2. QED BY <1>11, <1>14, <2>1
  <1> HIDE DEF U
  <1>17. upTo[N] = g[N]
    <2>1. N \in U  BY <1>15, <1>16, Induct
    <2>2. QED BY <2>1 DEF U
  <1>18. N \in 0 .. N
    OBVIOUS
  <1>19. QED BY <1>0, <1>1, <1>10, <1>17, <1>18

-----------------------------------------------------------------------------
(* The report is of the trace as it was left.                              *)
LEMMA SameReport ==
  ASSUME UNCHANGED << workload, observations, edges, data, rules, disabled >>
  PROVE  Finished' = Finished /\ Findings' = Findings /\ Proc' = Proc
  <1>1. Finished' = Finished  BY DEF Finished
  <1>2. Registry!ActiveRules("Primary")' = Registry!ActiveRules("Primary")
        /\ Registry!ActiveRules("Composite")' = Registry!ActiveRules("Composite")
    BY DEF Registry!ActiveRules
  <1>3. Findings' = Findings  BY <1>1, <1>2, Zenon DEF Findings
  <1>4. QED BY <1>1, <1>3 DEF Proc

LEMMA ReportKept == ReportInv /\ [Next]_vars => ReportInv'
  <1> SUFFICES ASSUME ReportInv, [Next]_vars PROVE ReportInv'
    OBVIOUS
  <1>1. CASE End
    <2>1. UNCHANGED << workload, observations, edges, data, rules, disabled >>
      BY <1>1 DEF End, analyzer
    <2>2. \E minimum \in workload.minimums :
            report' = Report(Finished, Findings, R!Filtered(Findings, minimum))
      BY <1>1 DEF End, Findings
    <2>3. PICK minimum \in workload.minimums : report' = Report(Finished, Findings, R!Filtered(Findings, minimum))
      BY <2>2
    <2>4. Report(Finished, Findings, R!Filtered(Findings, minimum))
          = Report(Finished', Findings', R!Filtered(Findings', minimum))
      BY <2>1, SameReport, Zenon
    <2>5. report' = [graph |-> Finished', findings |-> Findings', shown |-> R!Filtered(Findings', minimum),
                     stories |-> Tell!Stories(Finished', [p \in Proc' |-> NoProgram], R!Filtered(Findings', minimum))]
      BY <2>1, <2>3, SameReport, Zenon DEF Report
    <2>6. QED BY <2>1, <2>5, Zenon DEF ReportInv, Report
  <1>2. CASE UNCHANGED vars
    <2>1. UNCHANGED << workload, observations, edges, data, rules, disabled, report >>
      BY <1>2 DEF vars, analyzer
    <2>2. CASE Reported
      <3>1. PICK minimum \in workload.minimums : report = Report(Finished, Findings, R!Filtered(Findings, minimum))
        BY <2>2 DEF ReportInv
      <3>2. report' = [graph |-> Finished', findings |-> Findings', shown |-> R!Filtered(Findings', minimum),
                       stories |-> Tell!Stories(Finished', [p \in Proc' |-> NoProgram], R!Filtered(Findings', minimum))]
        BY <2>1, <3>1, SameReport, Zenon DEF Report
      <3>3. QED BY <2>1, <3>2, Zenon DEF ReportInv, Report
    <2>3. CASE ~Reported  BY <2>1, <2>3 DEF Reported, ReportInv
    <2>4. QED BY <2>2, <2>3
  <1>3. CASE ~End /\ ~UNCHANGED vars
    <2>1. UNCHANGED report /\ Tracing
      BY <1>3, Zenon DEF Next, Enter, Fails, Opens, Closes, ConnectsTo, Reads, Writes, Execs, Exit, MakesSocket, Configure,
                         Runs, Unobserved
    <2>2. ~Reported'  BY <2>1 DEF Reported, Tracing
    <2>3. QED BY <2>2 DEF ReportInv
  <1>4. QED BY <1>1, <1>2, <1>3

(* What the properties rest on: a finished trace and the report made of it. *)
LEMMA ReportedIs ==
  ASSUME ReportInv, Reported
  PROVE  /\ Graph = Finished /\ report.findings = Findings
         /\ \E minimum \in workload.minimums :
              /\ report.shown = R!Filtered(Findings, minimum)
              /\ report.stories = Tell!Stories(Finished, [p \in Proc |-> NoProgram], report.shown)
  <1>1. PICK minimum \in workload.minimums : report = Report(Finished, Findings, R!Filtered(Findings, minimum))
    BY DEF ReportInv
  <1>2. QED BY <1>1 DEF Report, Graph

(* An observation of the graph is of the trace or of what was extracted.   *)
LEMMA GraphIs ==
  ASSUME TypeInv, TimeInv, ImageInv, DataInv
  PROVE  /\ Finished.obs \in Seq(GraphType) /\ Finished.edges = edges
         /\ \A n \in Obs : /\ n \in DOMAIN Finished.obs /\ Finished.obs[n] = observations[n]
                           /\ observations[n] \in EventType /\ observations[n].type = "Event"
         /\ \A n \in DOMAIN Finished.obs :
              \/ n \in Obs
              \/ /\ n \notin Obs
                 /\ \E k \in DOMAIN data : /\ n = Len(observations) + k /\ GoodDatum(data[k])
                                           /\ GraphDatum(Finished.obs[n], data[k])
         /\ \A k \in DOMAIN data : /\ Len(observations) + k \in DOMAIN Finished.obs
                                   /\ GraphDatum(Finished.obs[Len(observations) + k], data[k])
  <1> DEFINE obs == Finished.obs
             N == Len(observations)
             L == Len(data)
  <1>1. /\ obs \in Seq(GraphType) /\ Len(obs) = N + L
        /\ \A m \in Obs : m \in DOMAIN obs /\ obs[m] = observations[m]
        /\ \A k \in 1 .. L : GraphDatum(obs[N + k], data[k])
    BY FinishedIs DEF Appended
  <1>2. N \in Nat /\ Obs = 1 .. N /\ L \in Nat /\ DOMAIN data = 1 .. L
    BY Lengths DEF Obs, TypeInv
  <1>3. Finished.edges = edges  BY FinishedIs
  <1> HIDE DEF obs, N, L
  <1>4. DOMAIN obs = 1 .. N + L  BY <1>1
  <1>5. \A n \in Obs : observations[n] \in EventType /\ observations[n].type = "Event"
    BY ObsTypes DEF EventType
  <1>6. \A k \in DOMAIN data : N + k \in DOMAIN obs /\ N + k \notin Obs
    BY <1>2, <1>4
  <1>7. \A n \in DOMAIN obs : n \in Obs \/ (n - N \in DOMAIN data /\ n = N + (n - N))
    BY <1>2, <1>4
  <1>8. \A n \in DOMAIN obs :
          \/ n \in Obs
          \/ /\ n \notin Obs
             /\ \E k \in DOMAIN data : n = N + k /\ GoodDatum(data[k]) /\ GraphDatum(obs[n], data[k])
    <2> SUFFICES ASSUME NEW n \in DOMAIN obs, n \notin Obs
                 PROVE  \E k \in DOMAIN data : n = N + k /\ GoodDatum(data[k]) /\ GraphDatum(obs[n], data[k])
      OBVIOUS
    <2>1. PICK k \in DOMAIN data : n = N + k  BY <1>7
    <2>2. GoodDatum(data[k]) /\ GraphDatum(obs[n], data[k])
      BY <1>1, <1>2, <2>1 DEF DataInv
    <2>3. QED BY <2>1, <2>2
  <1>9. QED BY <1>1, <1>2, <1>3, <1>5, <1>6, <1>8 DEF obs, N

LEMMA OwnImage ==
  ASSUME TypeInv, TimeInv, ImageInv, DataInv, ReportInv
  PROVE  DataOnOwnImage
  <1> SUFFICES ASSUME Reported, NEW n \in DOMAIN Graph.obs, Graph.obs[n].type = "Data"
               PROVE  /\ << Graph.obs[n].inst, Graph.obs[n].gen >> = Graph.obs[n].image
                      /\ Graph.obs[n].origin # 0 => Graph.obs[n].res = Graph.obs[Graph.obs[n].origin].res
    BY Zenon DEF DataOnOwnImage
  <1>1. Graph = Finished  BY ReportedIs
  <1>2. n \notin Obs  BY <1>1, GraphIs
  <1>3. PICK k \in DOMAIN data : GoodDatum(data[k]) /\ GraphDatum(Finished.obs[n], data[k])
    BY <1>1, <1>2, GraphIs
  <1>4. << Graph.obs[n].inst, Graph.obs[n].gen >> = Graph.obs[n].image
    BY <1>1, <1>3 DEF GraphDatum
  <1>5. ASSUME Graph.obs[n].origin # 0 PROVE Graph.obs[n].res = Graph.obs[Graph.obs[n].origin].res
    <2>1. data[k].origin = Graph.obs[n].origin /\ data[k].origin \in Obs
          /\ Graph.obs[n].res = observations[data[k].origin].res
      BY <1>1, <1>3, <1>5 DEF GraphDatum, GoodDatum
    <2>2. Graph.obs[data[k].origin] = observations[data[k].origin]
      BY <1>1, <2>1, GraphIs
    <2>3. QED BY <2>1, <2>2
  <1>6. QED BY <1>4, <1>5

-----------------------------------------------------------------------------
(* Everything together is inductive.                                       *)
LEMMA NothingYet ==
  ASSUME Init
  PROVE  Obs = {} /\ DOMAIN data = {} /\ Range(edges) = {} /\ ~Reported
         /\ \A t \in Thread : call[t] = NoCall
  <1>1. observations = << >> /\ data = << >> /\ edges = << >> /\ report = NoReport
        /\ \A t \in Thread : call[t] = NoCall
    BY DEF Init
  <1>2. QED BY <1>1 DEF Obs, Reported, Range

LEMMA InitTrace == Init => TimeInv /\ ImageInv /\ CallInv /\ DataInv /\ ReportInv
  BY NothingYet DEF TimeInv, ImageInv, CallInv, DataInv, ReportInv

(* The types of the state, which calls are under way and when and in which *)
(* image each was, what was extracted from which image, and that the       *)
(* report is of the trace as it was left: always, whatever the processes   *)
(* do and in whatever order the calls take effect and return.              *)
THEOREM TraceIsKept == Spec => []TraceInv
  <1>1. Init => TraceInv  BY InitTypes, InitTrace DEF TraceInv
  <1>2. TraceInv /\ [Next]_vars => TraceInv'
    BY TypesKept, TimeKept, ImageKept, CallKept, DataKept, ReportKept DEF TraceInv
  <1>3. QED BY <1>1, <1>2, PTL DEF Spec

(* What was extracted is put down to the image it was extracted from, and  *)
(* to the pipe of the call it came from, whatever the process exec'd since *)
(* (append_data_observations_to_graph).                                    *)
THEOREM DataAlwaysOnOwnImage == Spec => []DataOnOwnImage
  <1>1. TraceInv => DataOnOwnImage  BY OwnImage DEF TraceInv
  <1>2. QED BY <1>1, TraceIsKept, PTL

-----------------------------------------------------------------------------
(* What the effects make of descriptors.                                   *)
LEMMA PlacedIs ==
  ASSUME TypeInv, NEW p \in Proc, Free(p) # {}, NEW kind, NEW name, NEW f,
         f = CHOOSE h \in Free(p) : \A g \in Free(p) : h <= g,
         files' = Append(files, NewFile(kind, name, p)),
         table' = [table EXCEPT ![p][f] = Len(files')]
  PROVE  Opened(p, f, kind, name)
  <1>1. f \in Fd /\ table[p][f] = 0  BY LowestFree
  <1>2. files \in Seq(FileType) /\ table \in [Proc -> [Fd -> 0 .. Len(files)]]
    BY DEF TypeInv
  <1>3. PICK N \in Nat : N = Len(files) /\ DOMAIN files = 1 .. N  BY <1>2
  <1> DEFINE new == NewFile(kind, name, p)
  <1> HIDE DEF new
  <1>4. Len(files') = N + 1 /\ files'[N + 1] = new /\ \A k \in 1 .. N : files'[k] = files[k]
    BY <1>2, <1>3 DEF new
  <1>5. /\ table'[p][f] = N + 1
        /\ \A q \in Proc, g \in Fd : q # p \/ g # f => table'[q][g] = table[q][g]
    BY <1>1, <1>2, <1>4
  <1>6. \A q \in Proc, g \in Fd : table[q][g] \in 0 .. N  BY <1>2, <1>3
  <1>7. \A q \in Proc, g \in Fd : table[q][g] # 0 => files'[table[q][g]] = files[table[q][g]]
    BY <1>4, <1>6
  <1>8. \A q \in Proc, g \in Fd : table[q][g] # N + 1  BY <1>6
  <1>9. \A q \in Proc, g \in Fd : q # p \/ g # f => Same(q, g)
    BY <1>5, <1>7 DEF Same
  <1>10. table'[p][f] # 0 /\ files'[table'[p][f]] = new  BY <1>4, <1>5
  <1>11. \A q \in Proc, g \in Fd : table[q][g] # table'[p][f]  BY <1>5, <1>8
  <1>12. QED BY <1>1, <1>9, <1>10, <1>11 DEF Opened, new

LEMMA ReturnIs ==
  ASSUME TypeInv, NEW t \in Thread, NEW ret \in Int, Affected(t, ret), NEW x, Done(t, x)
  PROVE  ret = x
  <1>1. call'[t].ret = x  BY DEF Done, TypeInv, CallType, Affected
  <1>2. QED BY <1>1 DEF Answered, Affected

LEMMA OpensIs ==
  ASSUME TypeInv, NEW t \in Thread, Opens(t)
  PROVE  \E f \in Fd : /\ Affected(t, f) /\ Opened(Of(t), f, "file", call[t].what) /\ call[t].op = "open"
                       /\ UNCHANGED << pipe, actual >>
  <1> DEFINE p == Of(t)
             f == CHOOSE f \in Free(p) : \A g \in Free(p) : f <= g
  <1>1. /\ call[t].op = "open" /\ Free(p) # {} /\ p \in Proc
        /\ files' = Append(files, NewFile("file", call[t].what, p))
        /\ table' = [table EXCEPT ![p][f] = Len(files')]
        /\ Done(t, f) /\ UNCHANGED << pipe, actual >>
    BY OfProc DEF Opens, Runs
  <1>2. f \in Fd  BY <1>1, LowestFree
  <1>3. Opened(p, f, "file", call[t].what)  BY <1>1, PlacedIs
  <1>4. PICK ret \in Int : Affected(t, ret)  BY EffectIs DEF Effects
  <1> HIDE DEF f
  <1>5. ret = f  BY <1>1, <1>4, ReturnIs
  <1>6. QED BY <1>1, <1>2, <1>3, <1>4, <1>5

LEMMA MakesSocketIs ==
  ASSUME TypeInv, NEW p \in Proc, MakesSocket(p)
  PROVE  \E f \in Fd, kind \in {"socket", "peer"} : Opened(p, f, kind, NoSource)
  <1> DEFINE f == CHOOSE f \in Free(p) : \A g \in Free(p) : f <= g
  <1>1. PICK kind \in {"socket", "peer"} : files' = Append(files, NewFile(kind, NoSource, p))
    BY DEF MakesSocket
  <1>2. Free(p) # {} /\ table' = [table EXCEPT ![p][f] = Len(files')]
    BY DEF MakesSocket
  <1>3. f \in Fd  BY <1>2, LowestFree
  <1>4. Opened(p, f, kind, NoSource)  BY <1>1, <1>2, PlacedIs
  <1>5. QED BY <1>3, <1>4

LEMMA ClosesIs ==
  ASSUME TypeInv, NEW t \in Thread, Closes(t)
  PROVE  /\ Affected(t, 0) /\ Closed(Of(t), call[t].fd) /\ call[t].op = "close"
         /\ UNCHANGED << pipe, actual >>
  <1> DEFINE p == Of(t)
             f == call[t].fd
  <1>1. /\ call[t].op = "close" /\ table[p][f] # 0 /\ p \in Proc /\ call[t] # NoCall
        /\ table' = [table EXCEPT ![p][f] = 0] /\ files' = files
        /\ Done(t, 0) /\ UNCHANGED << pipe, actual >>
    BY OfProc DEF Closes, Runs, IsOpen
  <1>2. f \in Fd  BY <1>1, CallTypes DEF CallType
  <1>3. PICK ret \in Int : Affected(t, ret)  BY EffectIs DEF Effects
  <1>4. ret = 0  BY <1>1, <1>3, ReturnIs
  <1>5. table \in [Proc -> [Fd -> 0 .. Len(files)]]  BY DEF TypeInv
  <1> HIDE DEF f, p
  <1>6. table'[p][f] = 0 /\ \A q \in Proc, g \in Fd : q # p \/ g # f => table'[q][g] = table[q][g]
    BY <1>1, <1>2, <1>5
  <1>7. Closed(p, f)  BY <1>1, <1>2, <1>6 DEF Closed, Same
  <1>8. QED BY <1>1, <1>3, <1>4, <1>7 DEF f, p

LEMMA ConnectsIs ==
  ASSUME TypeInv, NEW t \in Thread, ConnectsTo(t)
  PROVE  /\ Affected(t, 0) /\ Connected(Of(t), call[t].fd, call[t].what) /\ call[t].op = "connect"
         /\ UNCHANGED << pipe, actual >>
  <1> DEFINE p == Of(t)
             f == call[t].fd
             file == [At(p, f) EXCEPT !.name = call[t].what, !.by = Image(p)]
  <1>1. /\ call[t].op = "connect" /\ f \in Sockets(p) /\ p \in Proc /\ At(p, f).name = NoSource
        /\ table' = table
        /\ files' = [files EXCEPT ![table[p][f]] = [files[table[p][f]] EXCEPT !.name = call[t].what, !.by = Image(p)]]
        /\ Done(t, 0) /\ UNCHANGED << pipe, actual >>
    BY OfProc DEF ConnectsTo, Runs
  <1>2. f \in Fd /\ table[p][f] # 0 /\ At(p, f).kind = "socket"
    BY <1>1 DEF Sockets, IsOpen
  <1>3. PICK ret \in Int : Affected(t, ret)  BY EffectIs DEF Effects
  <1>4. ret = 0  BY <1>1, <1>3, ReturnIs
  <1>5. At(p, f) \in FileType /\ table[p][f] \in DOMAIN files /\ At(p, f) = files[table[p][f]]
    BY <1>1, <1>2, FileAt
  <1>6. files' = [files EXCEPT ![table[p][f]] = file]  BY <1>1, <1>5
  <1> HIDE DEF file
  <1>7. files'[table[p][f]] = file /\ \A q \in Proc, g \in Fd : table[q][g] # table[p][f] => Same(q, g)
    BY <1>1, <1>5, <1>6 DEF Same
  <1>8. Connected(p, f, call[t].what)
    BY <1>1, <1>2, <1>5, <1>7 DEF Connected, file
  <1>9. QED BY <1>1, <1>3, <1>4, <1>8

LEMMA OnItIs ==
  ASSUME TypeInv, NEW t \in Thread, call[t] # NoCall, NEW file, NEW from, OnIt(t, file, from)
  PROVE  Marked(actual[call[t].obs], actual'[call[t].obs], file, from)
  <1>1. call[t].obs \in DOMAIN actual /\ actual \in Seq(ActualType)
    BY CallTypes DEF TypeInv
  <1>2. actual[call[t].obs] \in ActualType  BY <1>1
  <1> DEFINE a == [actual[call[t].obs] EXCEPT !.kind = file.kind, !.name = file.name, !.by = file.by, !.from = from]
  <1>3. actual' = [actual EXCEPT ![call[t].obs] = a]  BY DEF OnIt
  <1>4. Marked(actual[call[t].obs], a, file, from)
    BY <1>2 DEF ActualType, Marked
  <1> HIDE DEF a
  <1>5. actual'[call[t].obs] = a  BY <1>1, <1>3
  <1>6. QED BY <1>4, <1>5

LEMMA ReadsIs ==
  ASSUME TypeInv, NEW t \in Thread, Reads(t)
  PROVE  \E from \in Nat : LET file == At(Of(t), call[t].fd) IN
           /\ Affected(t, 1) /\ Acted(t, file, from) /\ call[t].op = "read"
           /\ file.kind \in {"file", "peer", "pipe read"}
           /\ file.kind # "pipe read" => from = 0 /\ UNCHANGED pipe
           /\ file.kind = "pipe read" => /\ file.pipe \in Pipes /\ pipe[file.pipe] \in Seq(Nat) /\ pipe[file.pipe] # << >>
                                         /\ from = Head(pipe[file.pipe])
                                         /\ pipe' = [pipe EXCEPT ![file.pipe] = Tail(pipe[file.pipe])]
  <1> DEFINE p == Of(t)
             file == At(p, call[t].fd)
  <1>1. /\ call[t].op = "read" /\ call[t].fd \in Readable(p) /\ p \in Proc /\ Done(t, 1) /\ UNCHANGED << files, table >>
        /\ call[t] # NoCall
        /\ IF file.kind = "pipe read"
           THEN /\ pipe[file.pipe] # << >>
                /\ OnIt(t, file, Head(pipe[file.pipe]))
                /\ pipe' = [pipe EXCEPT ![file.pipe] = Tail(pipe[file.pipe])]
           ELSE OnIt(t, file, 0) /\ UNCHANGED pipe
    BY OfProc DEF Reads, Runs
  <1>2. call[t].fd \in Fd /\ table[p][call[t].fd] # 0 /\ file.kind \in {"file", "peer", "pipe read"}
    BY <1>1 DEF Readable, IsOpen
  <1>3. PICK ret \in Int : Affected(t, ret)  BY EffectIs DEF Effects
  <1>4. ret = 1  BY <1>1, <1>3, ReturnIs
  <1>5. file \in FileType  BY <1>1, <1>2, FileAt
  <1> HIDE DEF file, p
  <1>7. ASSUME NEW from \in Nat, OnIt(t, file, from) PROVE Acted(t, file, from)
    <2>1. Marked(actual[call[t].obs], actual'[call[t].obs], file, from)
      BY <1>1, <1>7, OnItIs
    <2>2. QED BY <1>1, <1>2, <1>5, <2>1 DEF Acted, file, p
  <1>8. CASE file.kind = "pipe read"
    <2>1. file.pipe \in Pipes  BY <1>5, <1>8, Values DEF FileType
    <2>2. pipe[file.pipe] \in Seq(Nat) /\ pipe[file.pipe] # << >>
      BY <1>1, <1>8, <2>1 DEF TypeInv
    <2>3. Head(pipe[file.pipe]) \in Nat  BY <2>2
    <2>4. Acted(t, file, Head(pipe[file.pipe]))  BY <1>1, <1>7, <1>8, <2>3
    <2>5. QED BY <1>1, <1>2, <1>3, <1>4, <1>8, <2>1, <2>2, <2>3, <2>4 DEF file, p
  <1>9. CASE file.kind # "pipe read"
    <2>1. Acted(t, file, 0)  BY <1>1, <1>7, <1>9
    <2>2. QED BY <1>1, <1>2, <1>3, <1>4, <1>9, <2>1 DEF file, p
  <1>10. QED BY <1>8, <1>9

LEMMA WritesIs ==
  ASSUME TypeInv, NEW t \in Thread, Writes(t)
  PROVE  LET file == At(Of(t), call[t].fd) IN
         /\ Affected(t, IF file.kind = "socket" /\ file.name = NoSource THEN -32 ELSE 1)
         /\ Acted(t, file, 0) /\ call[t].op = "write"
         /\ pipe' = IF file.kind # "pipe write" THEN pipe
                    ELSE [pipe EXCEPT ![file.pipe] = Append(pipe[file.pipe], call[t].obs)]
         /\ file.kind = "pipe write" => file.pipe \in Pipes /\ pipe[file.pipe] \in Seq(Nat)
  <1> DEFINE p == Of(t)
             file == At(p, call[t].fd)
             x == IF file.kind = "socket" /\ file.name = NoSource THEN -32 ELSE 1
  <1>1. /\ call[t].op = "write" /\ table[p][call[t].fd] # 0 /\ p \in Proc /\ Done(t, x) /\ UNCHANGED << files, table >>
        /\ call[t] # NoCall
        /\ OnIt(t, file, 0)
        /\ pipe' = IF file.kind # "pipe write" THEN pipe
                   ELSE [pipe EXCEPT ![file.pipe] = Append(pipe[file.pipe], call[t].obs)]
    BY OfProc DEF Writes, Runs, IsOpen
  <1>2. call[t].fd \in Fd  BY <1>1, CallTypes DEF CallType
  <1>3. PICK ret \in Int : Affected(t, ret)  BY EffectIs DEF Effects
  <1> HIDE DEF x
  <1>4. ret = x  BY <1>1, <1>3, ReturnIs
  <1>5. file \in FileType  BY <1>1, <1>2, FileAt
  <1> HIDE DEF file, p
  <1>7. Marked(actual[call[t].obs], actual'[call[t].obs], file, 0)
    BY <1>1, OnItIs
  <1>8. Acted(t, file, 0)  BY <1>1, <1>2, <1>5, <1>7 DEF Acted, file, p
  <1>9. file.kind = "pipe write" => file.pipe \in Pipes /\ pipe[file.pipe] \in Seq(Nat)
    BY <1>5, Values DEF FileType, TypeInv
  <1>10. QED BY <1>1, <1>3, <1>4, <1>8, <1>9 DEF file, p, x

LEMMA ExecsIs ==
  ASSUME TypeInv, NEW t \in Thread, Execs(t)
  PROVE  /\ Affected(t, 0) /\ call[t].op = "execve" /\ UNCHANGED << files, table, pipe, actual >>
         /\ program' = [i \in DOMAIN program \cup {<< Of(t), generation[Of(t)] + 1 >>} |->
                          IF i = << Of(t), generation[Of(t)] + 1 >> THEN call[t].what ELSE program[i]]
  <1>1. /\ call[t].op = "execve" /\ Done(t, 0) /\ UNCHANGED << files, table, pipe, actual >>
        /\ program' = [i \in DOMAIN program \cup {<< Of(t), generation[Of(t)] + 1 >>} |->
                         IF i = << Of(t), generation[Of(t)] + 1 >> THEN call[t].what ELSE program[i]]
    BY DEF Execs, Runs
  <1>2. PICK ret \in Int : Affected(t, ret)  BY EffectIs DEF Effects
  <1>3. ret = 0  BY <1>1, <1>2, ReturnIs
  <1>4. QED BY <1>1, <1>2, <1>3

LEMMA FailsIs ==
  ASSUME TypeInv, NEW t \in Thread, Fails(t)
  PROVE  \E ret \in Int : Affected(t, ret) /\ ret < 0 /\ UNCHANGED << files, table, pipe, actual, program >>
  <1>1. /\ UNCHANGED << files, table, pipe, actual, program >> /\ \E x \in {-13, -9} : Done(t, x)
    BY DEF Fails
  <1>2. PICK ret \in Int : Affected(t, ret)  BY EffectIs DEF Effects
  <1>3. ret \in {-13, -9}  BY <1>1, <1>2, ReturnIs
  <1>4. QED BY <1>1, <1>2, <1>3

-----------------------------------------------------------------------------
(* The ends of pipes stay those that were inherited.                       *)
LEMMA SameEnds ==
  ASSUME workload' = workload
  PROVE  Ends' = Ends /\ \A p : Alone(p)' = Alone(p)
  BY SameTypes DEF Ends, GoodEnd, Alone, HasEnd, Thread, Of, Roles

LEMMA EndsOfEntry ==
  ASSUME TypeInv, EndsInv, NEW t \in Thread, NEW c, NEW n, Entered(t, c, n)
  PROVE  EndsInv'
  <1>0. /\ workload' = workload /\ Thread' = Thread /\ Proc' = Proc /\ NoCall' = NoCall
        /\ UNCHANGED << table, files >> /\ Of(t) \in Proc
        /\ n \notin Obs /\ Obs' = Obs \cup {n}
        /\ \A m \in Obs : observations'[m] = observations[m]
        /\ \A u \in Thread : u # t => call'[u] = call[u]
        /\ call'[t].fd = c.fd /\ call'[t].op = c.op /\ call'[t].obs = n
    BY SameTypes DEF Entered, NoCall
  <1>1. \A u \in Thread : call[u] # NoCall => call[u].obs \in Obs
    BY DEF TypeInv, Obs
  <1>2. Fitting(Of(t), c, workload.payloads[t])  BY DEF Entered
  <1> DEFINE p == Of(t)
             file == At(p, c.fd)
             o == observations'[n]
  <1>3. /\ o.pid = p /\ o.call = c.op
        /\ o.res = (IF c.fd # 0 THEN file.pipe ELSE 0) /\ o.role = (IF c.fd # 0 THEN file.role ELSE NoSource)
    BY EntryStamps DEF Entered
  <1>4. c.fd # 0 => c.fd \in Fd /\ table[p][c.fd] # 0 /\ file \in FileType
    <2>1. c.fd # 0 => c.fd \in Fd /\ table[p][c.fd] \in 1 .. Len(files)
      BY <1>2, Zenon DEF Fitting
    <2>2. Len(files) \in Nat  BY DEF TypeInv
    <2>3. QED BY <1>0, <2>1, <2>2, FileAt
  <1> HIDE DEF o, file
  <1>5. o.res # 0 => << p, o.res, o.role >> \in Ends
    BY <1>0, <1>3, <1>4 DEF EndsInv, file
  <1>6. o.res # 0 => /\ c.op = "read" => o.role = "read"
                     /\ c.op = "write" => o.role = "write"
    <2>1. c.op = "read" => file.kind \in {"file", "peer", "pipe read"}
      BY <1>2 DEF Fitting, file
    <2>2. c.op = "write" => file.kind \in {"socket", "peer", "pipe write"}
      BY <1>2 DEF Fitting, file
    <2>3. o.res # 0 => file \in FileType /\ file.pipe # 0 /\ o.role = file.role
      BY <1>3, <1>4
    <2>4. QED BY <2>1, <2>2, <2>3 DEF FileType, Roles
  <1>7. c.op \in {"read", "write"} => table[p][c.fd] # 0 /\ file.pipe = o.res
    <2>1. c.op \in {"read", "write"} => c.fd # 0  BY <1>2 DEF Fitting
    <2>2. QED BY <1>3, <1>4, <2>1
  <1>8. \A m \in Obs' : observations'[m].res # 0 =>
          /\ << observations'[m].pid, observations'[m].res, observations'[m].role >> \in Ends
          /\ observations'[m].call = "read" => observations'[m].role = "read"
          /\ observations'[m].call = "write" => observations'[m].role = "write"
    BY <1>0, <1>3, <1>5, <1>6 DEF EndsInv, o
  <1>9. \A u \in Thread : call'[u] # NoCall /\ ~call'[u].done /\ call'[u].op \in {"read", "write"} => Steady(u)'
    <2> SUFFICES ASSUME NEW u \in Thread, call'[u] # NoCall, ~call'[u].done, call'[u].op \in {"read", "write"}
                 PROVE  Steady(u)'
      OBVIOUS
    <2>1. CASE u = t  BY <1>0, <1>7, <2>1 DEF Steady, At, Of, file, o
    <2>2. CASE u # t
      <3>1. call'[u] = call[u] /\ Steady(u) /\ call[u].obs \in Obs
        BY <1>0, <1>1, <2>2 DEF EndsInv
      <3>2. QED BY <1>0, <3>1, SameEnds DEF Steady, At, Of
    <2>3. QED BY <2>1, <2>2
  <1>10. \A q \in Proc, f \in Fd : table'[q][f] # 0 /\ At(q, f)'.pipe # 0 => << q, At(q, f)'.pipe, At(q, f)'.role >> \in Ends
    BY <1>0 DEF EndsInv, At
  <1> HIDE DEF o
  <1>11. QED BY <1>0, <1>8, <1>9, <1>10, SameEnds DEF EndsInv

LEMMA SameIs ==
  ASSUME NEW q, NEW g, Same(q, g), table[q][g] # 0 \/ table'[q][g] # 0
  PROVE  At(q, g)' = At(q, g) /\ SameEnd(q, g) /\ table[q][g] # 0
  BY DEF Same, SameEnd, At

LEMMA EndsMove ==
  ASSUME TypeInv, EndsInv, workload' = workload, Obs' = Obs, \A m \in Obs : SameCall(m), NoNewEnds,
         \A u \in Thread : call'[u] # NoCall /\ ~call'[u].done /\ call'[u].op \in {"read", "write"} => Waits(u)
  PROVE  EndsInv'
  <1>0. /\ Thread' = Thread /\ Proc' = Proc /\ NoCall' = NoCall /\ Ends' = Ends
        /\ \A p : Alone(p)' = Alone(p)
    BY SameTypes, SameEnds DEF NoCall
  <1>1. \A u \in Thread : call[u] # NoCall => call[u].obs \in Obs
    BY DEF TypeInv, Obs
  <1>2. \A q \in Proc, g \in Fd : table'[q][g] # 0 /\ At(q, g)'.pipe # 0 => << q, At(q, g)'.pipe, At(q, g)'.role >> \in Ends
    BY DEF EndsInv, NoNewEnds, SameEnd
  <1>3. \A n \in Obs : observations'[n].res # 0 =>
          /\ << observations'[n].pid, observations'[n].res, observations'[n].role >> \in Ends
          /\ observations'[n].call = "read" => observations'[n].role = "read"
          /\ observations'[n].call = "write" => observations'[n].role = "write"
    BY DEF EndsInv, SameCall
  <1>4. \A u \in Thread : call'[u] # NoCall /\ ~call'[u].done /\ call'[u].op \in {"read", "write"} => Steady(u)'
    <2> SUFFICES ASSUME NEW u \in Thread, call'[u] # NoCall, ~call'[u].done, call'[u].op \in {"read", "write"}
                 PROVE  Steady(u)'
      OBVIOUS
    <2>1. Waits(u) /\ call'[u] = call[u] /\ Steady(u) /\ call[u].obs \in Obs
      BY <1>1 DEF EndsInv, Waits
    <2>2. observations'[call[u].obs].res = observations[call[u].obs].res
      BY <2>1 DEF SameCall
    <2>3. Of(u)' = Of(u)  BY DEF Of
    <2>4. Alone(Of(u)) => table'[Of(u)][call[u].fd] # 0 /\ At(Of(u), call[u].fd)'.pipe = observations[call[u].obs].res
      BY <2>1 DEF Steady, Waits, SameEnd
    <2>5. QED BY <1>0, <2>1, <2>2, <2>3, <2>4 DEF Steady, At
  <1>5. QED BY <1>0, <1>2, <1>3, <1>4 DEF EndsInv

LEMMA EndsOfOpened ==
  ASSUME NEW p, NEW f, NEW kind, NEW name, Opened(p, f, kind, name)
  PROVE  NoNewEnds /\ \A q \in Proc, g \in Fd : table[q][g] # 0 => SameEnd(q, g)
  <1>1. At(p, f)'.pipe = 0  BY DEF Opened, At, NewFile
  <1>2. QED BY <1>1, SameIs DEF NoNewEnds, Opened

LEMMA EndsOfClosed ==
  ASSUME NEW p, NEW f, Closed(p, f)
  PROVE  NoNewEnds /\ \A q \in Proc, g \in Fd : table[q][g] # 0 /\ q # p => SameEnd(q, g)
  BY SameIs DEF NoNewEnds, Closed

LEMMA EndsOfConnected ==
  ASSUME NEW p, NEW f, NEW name, Connected(p, f, name)
  PROVE  NoNewEnds /\ \A q \in Proc, g \in Fd : table[q][g] # 0 => SameEnd(q, g)
  <1>1. ASSUME NEW q \in Proc, NEW g \in Fd, table[q][g] = table[p][f], table[q][g] # 0
        PROVE  SameEnd(q, g)
    <2>1. At(p, f) \in FileType /\ At(q, g) = At(p, f) /\ table'[q][g] = table[q][g]
          /\ At(q, g)' = [At(p, f) EXCEPT !.name = name, !.by = Image(p)]
      BY <1>1 DEF Connected, At
    <2>2. At(q, g)'.pipe = At(p, f).pipe /\ At(q, g)'.role = At(p, f).role
      BY <2>1 DEF FileType
    <2>3. QED BY <1>1, <2>1, <2>2 DEF SameEnd
  <1>2. table' = table  BY DEF Connected
  <1>3. \A q \in Proc, g \in Fd : table[q][g] # 0 => SameEnd(q, g)
    BY <1>1, SameIs DEF Connected
  <1>4. QED BY <1>2, <1>3 DEF NoNewEnds

LEMMA EndsKept == TypeInv /\ EndsInv /\ [Next]_vars => EndsInv'
  <1> SUFFICES ASSUME TypeInv, EndsInv, [Next]_vars PROVE EndsInv'
    OBVIOUS
  <1> DEFINE Goes(u) == call'[u] # NoCall /\ ~call'[u].done /\ call'[u].op \in {"read", "write"}
  <1>0. /\ \A u \in Thread : Of(u) \in Proc /\ call[u] \in CallType
        /\ UNCHANGED << files, table >> => NoNewEnds /\ \A q, g : table[q][g] # 0 => SameEnd(q, g)
        /\ \A u \in Thread : call[u].op \in {"read", "write"} => call[u].fd \in Fd
    BY OfProc DEF TypeInv, CallType, NoNewEnds, SameEnd, At
  <1>1. ASSUME NEW t \in Thread, NEW c, NEW n, Entered(t, c, n) PROVE EndsInv'
    BY <1>1, EndsOfEntry
  <1>2. ASSUME NEW t \in Thread, NEW n, Left(t, n) PROVE EndsInv'
    <2>1. /\ workload' = workload /\ Obs' = Obs /\ UNCHANGED << files, table >>
          /\ \A u \in Thread : u # t => call'[u] = call[u]
          /\ call'[t] = NoCall
      BY <1>2 DEF Left
    <2>2. \A m \in Obs : SameCall(m)  BY <1>2, LeftKeeps
    <2>3. \A u \in Thread : Goes(u) => Waits(u)  BY <1>0, <2>1 DEF Waits
    <2>4. QED BY <1>0, <2>1, <2>2, <2>3, EndsMove
  <1>3. ASSUME NEW t \in Thread, NEW ret \in Int, Affected(t, ret), NoNewEnds,
               \A q \in Proc, g \in Fd : table[q][g] # 0 /\ q # Of(t) => SameEnd(q, g)
        PROVE EndsInv'
    <2>1. /\ workload' = workload /\ Obs' = Obs /\ observations' = observations
          /\ \A u \in Thread : u # t => call'[u] = call[u]
          /\ call'[t].done /\ Of(t) \in Proc
      BY <1>3 DEF Affected, Obs, Answered
    <2>2. \A m \in Obs : SameCall(m)  BY <2>1 DEF SameCall
    <2>3. ASSUME NEW u \in Thread, Goes(u) PROVE Waits(u)
      <3>1. u # t /\ call'[u] = call[u] /\ call[u].fd \in Fd
        BY <1>0, <2>1, <2>3
      <3>2. Alone(Of(u)) => Of(u) # Of(t)  BY <3>1 DEF Alone
      <3>3. QED BY <1>0, <1>3, <2>3, <3>1, <3>2 DEF Waits
    <2>4. QED BY <1>3, <2>1, <2>2, <2>3, EndsMove
  <1>4. ASSUME Aside, NoNewEnds, \A q \in Proc, g \in Fd : table[q][g] # 0 => SameEnd(q, g) PROVE EndsInv'
    <2>1. /\ workload' = workload /\ Obs' = Obs /\ observations' = observations /\ call' = call
      BY <1>4 DEF Aside, Obs
    <2>2. \A m \in Obs : SameCall(m)  BY <2>1 DEF SameCall
    <2>3. \A u \in Thread : Goes(u) => Waits(u)  BY <1>0, <1>4, <2>1 DEF Waits
    <2>4. QED BY <1>4, <2>1, <2>2, <2>3, EndsMove
  <1>5. ASSUME NEW t \in Thread, Effects(t) PROVE EndsInv'
    <2>1. CASE Opens(t)  BY <1>3, <2>1, OpensIs, EndsOfOpened, Values
    <2>2. CASE Closes(t)  BY <1>3, <2>2, ClosesIs, EndsOfClosed
    <2>3. CASE ConnectsTo(t)  BY <1>3, <2>3, ConnectsIs, EndsOfConnected
    <2>4. CASE Fails(t) \/ Reads(t) \/ Writes(t) \/ Execs(t)
      <3>1. UNCHANGED << files, table >>
        BY <2>4 DEF Fails, Reads, Writes, Execs
      <3>2. PICK ret \in Int : Affected(t, ret)  BY <1>5, EffectIs
      <3>3. QED BY <1>0, <1>3, <3>1, <3>2
    <2>5. QED BY <1>5, <2>1, <2>2, <2>3, <2>4 DEF Effects
  <1>6. ASSUME NEW p \in Proc, MakesSocket(p) PROVE EndsInv'
    <2>1. PICK f, kind : Opened(p, f, kind, NoSource)  BY <1>6, MakesSocketIs
    <2>2. QED BY <1>4, <1>6, <2>1, EndsOfOpened, AsideAre
  <1>7. CASE Aside /\ UNCHANGED << files, table >>  BY <1>0, <1>4, <1>7
  <1>8. QED BY <1>1, <1>2, <1>5, <1>6, <1>7, StepIs

-----------------------------------------------------------------------------
(* The values that observations carry.                                     *)
LEMMA ValueOfEntry ==
  ASSUME TypeInv, NEW t \in Thread, NEW c, NEW n, Entered(t, c, n)
  PROVE  HasValue(n)'
  <1> DEFINE o == observations'[n]
             a == actual'[n]
  <1>1. /\ o.call = c.op /\ o.end = 0 /\ o.value = Carries(c) /\ a.what = c.what
        /\ o.source = IF c.op \in {"open", "connect", "execve"} THEN c.what ELSE NoSource
    BY EntryStamps DEF Entered
  <1>2. /\ c.op = "write" => c.what \in {Secret, Large}
        /\ c.op \in {"open", "connect"} => c.what # NoSource
    <2>1. Fitting(Of(t), c, workload.payloads[t]) /\ workload.payloads[t] \subseteq {Secret, Large}
      BY DEF Entered
    <2>2. NoSource \notin workload.names /\ NoSource \notin Endpoint
      BY Inputs, Values DEF TypeInv
    <2>3. QED BY <2>1, <2>2 DEF Fitting
  <1> HIDE DEF o, a
  <1>3. /\ c.op = "write" => o.value = IF a.what = Secret THEN Secret ELSE NoValue
        /\ c.op # "write" => o.value = NoValue
    BY <1>1, <1>2, Values DEF Carries
  <1>4. QED BY <1>1, <1>2, <1>3 DEF HasValue, o, a

LEMMA ValueKept == TypeInv /\ TimeInv /\ CallInv /\ ValueInv /\ [Next]_vars => ValueInv'
  <1> SUFFICES ASSUME TypeInv, TimeInv, CallInv, ValueInv, [Next]_vars PROVE ValueInv'
    OBVIOUS
  <1>0. /\ \A n \in Obs : n \in Nat /\ observations[n] \in EventType
        /\ \A u \in Thread : call[u] # NoCall => call[u].obs \in Obs
    BY ObsTypes DEF TypeInv, Obs
  <1>1. ASSUME NEW t \in Thread, NEW c, NEW n, Entered(t, c, n) PROVE ValueInv'
    <2>1. /\ n \notin Obs /\ Obs' = Obs \cup {n} /\ Thread' = Thread /\ NoCall' = NoCall
          /\ \A m \in Obs : observations'[m] = observations[m] /\ actual'[m] = actual[m]
          /\ \A u \in Thread : u # t => call'[u] = call[u]
          /\ ~call'[t].done
      BY <1>1, SameTypes DEF Entered, NoCall
    <2>2. \A m \in Obs : HasValue(m)'  BY <2>1 DEF ValueInv, HasValue
    <2>3. HasValue(n)'  BY <1>1, ValueOfEntry
    <2>4. \A u \in Thread : call'[u] # NoCall => Succeeds(u)'
      BY <1>0, <2>1 DEF ValueInv, Succeeds
    <2>5. QED BY <2>1, <2>2, <2>3, <2>4 DEF ValueInv
  <1>2. ASSUME NEW t \in Thread, NEW n, Left(t, n) PROVE ValueInv'
    <2>1. /\ n = call[t].obs /\ n \in Obs /\ Obs' = Obs /\ Thread' = Thread /\ NoCall' = NoCall
          /\ \A m \in Obs : m # n => observations'[m] = observations[m]
          /\ actual' = actual
          /\ \A u \in Thread : u # t => call'[u] = call[u]
          /\ call'[t] = NoCall /\ call[t] # NoCall /\ call[t].done /\ clock \in Nat
      BY <1>2, SameTypes DEF Left, NoCall
    <2>2. \A m \in Obs : m # n => HasValue(m)'  BY <2>1 DEF ValueInv, HasValue
    <2>3. /\ SameCall(n) /\ observations'[n].ret = call[t].ret /\ observations'[n].end = clock + 1
          /\ observations'[n].value = IF call[t].op = "read" /\ call[t].ret > 0 THEN Secret
                                      ELSE observations[n].value
      BY <1>2, <2>1, LeftKeeps
    <2>4. HasValue(n) /\ Underway(t) /\ Succeeds(t)
      BY <2>1 DEF ValueInv, CallInv
    <2>5. /\ observations[n].call = call[t].op /\ observations[n].end = 0
          /\ call[t].op = "read" => (call[t].ret = 1 /\ actual[n].kind # NoSource) \/ (call[t].ret < 0 /\ actual[n].kind = NoSource)
          /\ call[t].op = "write" /\ actual[n].kind = "pipe write" => call[t].ret = 1
      BY <2>1, <2>4 DEF Underway, Succeeds
    <2>6. call[t].ret \in Int  BY <1>2 DEF Left, CallType
    <2>7. clock + 1 # 0  BY <2>1
    <2>8. HasValue(n)'
      <3>1. CASE call[t].op = "read"
        <4>1. /\ observations'[n].call = "read"
              /\ observations'[n].end # 0
              /\ \/ observations'[n].ret = 1 /\ observations'[n].value = Secret /\ actual'[n].kind # NoSource
                 \/ observations'[n].ret < 0 /\ observations'[n].value = NoValue /\ actual'[n].kind = NoSource
          BY <2>1, <2>3, <2>4, <2>5, <2>6, <2>7, <3>1 DEF SameCall, HasValue
        <4>2. QED BY <4>1 DEF HasValue
      <3>2. CASE call[t].op # "read"
        <4>1. /\ observations'[n].call = observations[n].call /\ observations'[n].call # "read"
              /\ observations'[n].value = observations[n].value /\ observations'[n].source = observations[n].source
              /\ observations'[n].call = "write" /\ actual'[n].kind = "pipe write" => observations'[n].ret = 1
          BY <2>1, <2>3, <2>5, <3>2 DEF SameCall
        <4>2. QED BY <2>1, <2>4, <4>1 DEF HasValue
      <3>3. QED BY <3>1, <3>2
    <2>9. \A u \in Thread : call'[u] # NoCall => Succeeds(u)'
      BY <2>1 DEF ValueInv, Succeeds
    <2>10. QED BY <2>1, <2>2, <2>8, <2>9 DEF ValueInv
  <1>3. ASSUME NEW t \in Thread, NEW ret \in Int, Affected(t, ret), Effects(t) PROVE ValueInv'
    <2>0. PICK n \in Obs : n = call[t].obs  BY <1>3 DEF Affected
    <2>1. /\ n = call[t].obs /\ n \in Obs /\ Obs' = Obs /\ Thread' = Thread /\ NoCall' = NoCall
          /\ observations' = observations
          /\ call[t] # NoCall /\ ~call[t].done
          /\ \A u \in Thread : u # t => call'[u] = call[u]
          /\ call'[t].op = call[t].op /\ call'[t].obs = n /\ call'[t].ret = ret
          /\ \A m \in Obs : m # n => actual'[m] = actual[m]
          /\ actual'[n].what = actual[n].what
      BY <1>3, <2>0, SameTypes DEF Affected, NoCall, Obs, Answered
    <2>2. \A m \in Obs : m # n => HasValue(m)'  BY <2>1 DEF ValueInv, HasValue
    <2>3. observations[n].end = 0 /\ actual[n].kind = NoSource /\ HasValue(n)
      BY <2>1 DEF CallInv, Underway, ValueInv
    <2>4. HasValue(n)'  BY <2>1, <2>3 DEF HasValue
    <2>5. Succeeds(t)'
      <3>1. CASE Writes(t)
        <4> DEFINE file == At(Of(t), call[t].fd)
                   x == IF file.kind = "socket" /\ file.name = NoSource THEN -32 ELSE 1
        <4>1. Affected(t, x) /\ actual'[n].kind = file.kind
          BY <2>0, <3>1, WritesIs DEF Acted, Marked
        <4>2. call'[t].ret = x  BY <4>1 DEF Affected, Answered
        <4>3. QED BY <2>1, <4>1, <4>2 DEF Succeeds
      <3>2. CASE Fails(t)
        <4>1. actual'[n].kind = NoSource  BY <2>3, <3>2, FailsIs
        <4>2. QED BY <2>1, <4>1, Values DEF Succeeds, Kinds
      <3>3. CASE ~Writes(t) /\ ~Fails(t)
        <4>1. call[t].op # "write"
          BY <1>3, <3>3 DEF Effects, Opens, Closes, ConnectsTo, Reads, Execs, Runs
        <4>2. QED BY <2>1, <4>1 DEF Succeeds
      <3>4. QED BY <3>1, <3>2, <3>3
    <2>6. \A u \in Thread : u # t /\ call[u] # NoCall => Succeeds(u)'
      <3> SUFFICES ASSUME NEW u \in Thread, u # t, call[u] # NoCall PROVE Succeeds(u)'
        OBVIOUS
      <3>1. call'[u] = call[u] /\ Succeeds(u) /\ call[u].obs \in Obs /\ call[u].obs # n
        BY <1>0, <2>1 DEF ValueInv, CallInv
      <3>2. QED BY <2>1, <3>1 DEF Succeeds
    <2>7. QED BY <2>1, <2>2, <2>4, <2>5, <2>6 DEF ValueInv
  <1>4. ASSUME Aside PROVE ValueInv'
    BY <1>4 DEF ValueInv, HasValue, Succeeds, Aside, Obs, Thread, NoCall
  <1>5. QED BY <1>1, <1>2, <1>3, <1>4, StepIs

-----------------------------------------------------------------------------
(* What waits in pipes, and what reads were given.                         *)
LEMMA RangeOfTail ==
  ASSUME NEW S, NEW s \in Seq(S), s # << >>
  PROVE  Head(s) \in Range(s) /\ Tail(s) \in Seq(S) /\ Range(Tail(s)) \subseteq Range(s)
  <1>1. PICK N \in Nat : N = Len(s) /\ N # 0
    OBVIOUS
  <1>2. DOMAIN s = 1 .. N  BY <1>1
  <1> DEFINE u == Tail(s)
  <1>3. u \in Seq(S) /\ DOMAIN u = 1 .. N - 1 /\ \A k \in 1 .. N - 1 : u[k] = s[k + 1]
    BY <1>1
  <1>4. Head(s) = s[1] /\ 1 \in 1 .. N  BY <1>1
  <1> HIDE DEF u
  <1>5. \A k \in 1 .. N - 1 : k + 1 \in 1 .. N  BY <1>1
  <1>6. \A k \in DOMAIN u : u[k] \in Range(s)  BY <1>2, <1>3, <1>5 DEF Range
  <1>7. Range(u) \subseteq Range(s)  BY <1>6 DEF Range
  <1>8. Head(s) \in Range(s)  BY <1>2, <1>4 DEF Range
  <1>9. QED BY <1>3, <1>7, <1>8 DEF u

(* A write that has put something in a pipe stays. *)
LEMMA StillSupplies ==
  ASSUME TypeInv, CallInv, [Next]_vars, NEW v, NEW n, Supplies(v, n)
  PROVE  Supplies(v, n)'
  <1>1. ASSUME NEW t \in Thread, NEW c, NEW m, Entered(t, c, m) PROVE Supplies(v, n)'
    BY <1>1 DEF Entered, Supplies
  <1>2. ASSUME NEW t \in Thread, NEW m, Left(t, m) PROVE Supplies(v, n)'
    <2>1. SameCall(v) /\ v \in Obs  BY <1>2, LeftKeeps DEF Supplies
    <2>2. QED BY <1>2, <2>1 DEF Left, Supplies, SameCall
  <1>3. ASSUME NEW t \in Thread, NEW ret \in Int, Affected(t, ret) PROVE Supplies(v, n)'
    <2>1. actual[call[t].obs].kind = NoSource
      BY <1>3 DEF Affected, CallInv, Underway
    <2>2. v # call[t].obs  BY <2>1, Values DEF Supplies, Kinds
    <2>3. QED BY <1>3, <2>2 DEF Affected, Supplies, Obs
  <1>4. ASSUME Aside PROVE Supplies(v, n)'  BY <1>4 DEF Aside, Supplies, Obs
  <1>5. QED BY <1>1, <1>2, <1>3, <1>4, StepIs

(* What a read that takes effect is given. *)
LEMMA ReadIsGiven ==
  ASSUME TypeInv, TimeInv, CallInv, EndsInv, PipeInv, NEW t \in Thread, Reads(t)
  PROVE  /\ \A q \in Pipes : \A v \in Range(pipe'[q]) : Supplies(v, q)
         /\ LET n == call[t].obs
                from == actual'[n].from
                o == observations[n]
            IN /\ actual'[n].kind # NoSource
               /\ from # 0 => Supplies(from, o.res) /\ o.res # 0
               /\ o.res # 0 => from # 0
  <1> DEFINE p == Of(t)
             n == call[t].obs
             o == observations[n]
             file == At(p, call[t].fd)
  <1>1. PICK from \in Nat :
          /\ Affected(t, 1) /\ Acted(t, file, from) /\ call[t].op = "read"
          /\ file.kind \in {"file", "peer", "pipe read"}
          /\ file.kind # "pipe read" => from = 0 /\ UNCHANGED pipe
          /\ file.kind = "pipe read" => /\ file.pipe \in Pipes /\ pipe[file.pipe] \in Seq(Nat) /\ pipe[file.pipe] # << >>
                                        /\ from = Head(pipe[file.pipe])
                                        /\ pipe' = [pipe EXCEPT ![file.pipe] = Tail(pipe[file.pipe])]
    BY ReadsIs
  <1>2. actual'[n].from = from /\ actual'[n].kind = file.kind
    BY <1>1 DEF Acted, Marked
  <1>3. /\ file \in FileType /\ p \in Proc /\ call[t].fd \in Fd /\ table[p][call[t].fd] # 0
        /\ n \in Obs /\ o.call = "read" /\ o.pid = p /\ call[t] # NoCall /\ ~call[t].done
    BY <1>1 DEF Acted, Affected, CallInv, Underway
  <1>4. Steady(t)  BY <1>1, <1>3 DEF EndsInv
  <1>5. file.pipe # 0 => << p, file.pipe, file.role >> \in Ends
    BY <1>3 DEF EndsInv
  <1>6. o.res # 0 => << p, o.res, o.role >> \in Ends  BY <1>3 DEF EndsInv
  <1>7. \A a, b, c : << a, b, c >> \in Ends => Alone(a)  BY DEF Ends, GoodEnd
  <1>8. (file.pipe # 0 \/ o.res # 0) => file.pipe = o.res
    BY <1>4, <1>5, <1>6, <1>7 DEF Steady
  <1> HIDE DEF p, o, file
  <1>9. file.pipe # 0 <=> file.kind = "pipe read"
    BY <1>1, <1>3, Values DEF FileType, Roles
  <1>10. actual'[n].kind # NoSource  BY <1>1, <1>2, Values DEF Kinds
  <1>11. CASE file.kind = "pipe read"
    <2> DEFINE s == pipe[file.pipe]
    <2>1. /\ s \in Seq(Nat) /\ s # << >> /\ file.pipe \in Pipes /\ from = Head(s)
          /\ pipe' = [pipe EXCEPT ![file.pipe] = Tail(s)]
      BY <1>1, <1>11
    <2> HIDE DEF s
    <2>2. Head(s) \in Range(s) /\ Range(Tail(s)) \subseteq Range(s)
      BY <2>1, RangeOfTail
    <2>3. \A v \in Range(s) : Supplies(v, file.pipe)  BY <2>1 DEF PipeInv, s
    <2>4. pipe \in [Pipes -> Seq(Nat)]  BY DEF TypeInv
    <2>5. \A q \in Pipes : pipe'[q] = IF q = file.pipe THEN Tail(s) ELSE pipe[q]
      BY <2>1, <2>4
    <2>6. \A q \in Pipes : \A v \in Range(pipe'[q]) : Supplies(v, q)
      <3> SUFFICES ASSUME NEW q \in Pipes, NEW v \in Range(pipe'[q]) PROVE Supplies(v, q)
        OBVIOUS
      <3>1. CASE q = file.pipe  BY <2>2, <2>3, <2>5, <3>1
      <3>2. CASE q # file.pipe  BY <2>5, <3>2 DEF PipeInv
      <3>3. QED BY <3>1, <3>2
    <2>7. Supplies(from, file.pipe) /\ from # 0
      <3>1. Supplies(from, file.pipe)  BY <2>1, <2>2, <2>3
      <3>2. \A m \in Obs : m # 0  BY Lengths DEF Obs
      <3>3. QED BY <3>1, <3>2 DEF Supplies
    <2>8. file.pipe = o.res /\ o.res # 0  BY <1>8, <1>9, <1>11
    <2>9. QED BY <1>2, <1>10, <2>6, <2>7, <2>8 DEF o
  <1>12. CASE file.kind # "pipe read"
    <2>1. from = 0 /\ pipe' = pipe /\ o.res = 0  BY <1>1, <1>8, <1>9, <1>12
    <2>2. QED BY <1>2, <1>10, <2>1 DEF PipeInv, o
  <1>13. QED BY <1>11, <1>12

LEMMA WriteSupplies ==
  ASSUME TypeInv, TimeInv, CallInv, EndsInv, PipeInv, NEW t \in Thread, Writes(t)
  PROVE  /\ \A q \in Pipes : \A v \in Range(pipe'[q]) :
              Supplies(v, q) \/ (v = call[t].obs /\ observations[v].res = q /\ actual'[v].kind = "pipe write")
         /\ actual'[call[t].obs].from = 0 /\ observations[call[t].obs].call = "write"
  <1> DEFINE p == Of(t)
             n == call[t].obs
             o == observations[n]
             file == At(p, call[t].fd)
  <1>1. /\ Acted(t, file, 0) /\ call[t].op = "write"
        /\ pipe' = IF file.kind # "pipe write" THEN pipe
                   ELSE [pipe EXCEPT ![file.pipe] = Append(pipe[file.pipe], n)]
        /\ file.kind = "pipe write" => file.pipe \in Pipes /\ pipe[file.pipe] \in Seq(Nat)
        /\ \E ret : Affected(t, ret)
    BY WritesIs
  <1>2. actual'[n].from = 0 /\ actual'[n].kind = file.kind
    BY <1>1 DEF Acted, Marked
  <1>3. /\ file \in FileType /\ p \in Proc /\ call[t].fd \in Fd /\ table[p][call[t].fd] # 0
        /\ n \in Obs /\ o.call = "write" /\ o.pid = p /\ call[t] # NoCall /\ ~call[t].done
    BY <1>1 DEF Acted, Affected, CallInv, Underway
  <1>4. Steady(t)  BY <1>1, <1>3 DEF EndsInv
  <1>5. file.pipe # 0 => << p, file.pipe, file.role >> \in Ends
    BY <1>3 DEF EndsInv
  <1>6. \A a, b, c : << a, b, c >> \in Ends => Alone(a)  BY DEF Ends, GoodEnd
  <1>7. file.pipe # 0 => file.pipe = o.res  BY <1>4, <1>5, <1>6 DEF Steady
  <1> HIDE DEF p, o, file
  <1>8. file.kind = "pipe write" => file.pipe # 0
    BY <1>1, <1>3, Values DEF FileType
  <1>9. CASE file.kind = "pipe write"
    <2> DEFINE s == pipe[file.pipe]
    <2>1. s \in Seq(Nat) /\ file.pipe \in Pipes /\ pipe' = [pipe EXCEPT ![file.pipe] = Append(s, n)]
      BY <1>1, <1>9
    <2> HIDE DEF s
    <2>2. Range(Append(s, n)) = Range(s) \cup {n}  BY <2>1, RangeOfAppend
    <2>3. \A v \in Range(s) : Supplies(v, file.pipe)  BY <2>1 DEF PipeInv, s
    <2>4. pipe \in [Pipes -> Seq(Nat)]  BY DEF TypeInv
    <2>5. \A q \in Pipes : pipe'[q] = IF q = file.pipe THEN Append(s, n) ELSE pipe[q]
      BY <2>1, <2>4
    <2>6. ASSUME NEW q \in Pipes, NEW v \in Range(pipe'[q])
          PROVE  Supplies(v, q) \/ (v = n /\ o.res = q /\ actual'[v].kind = "pipe write")
      <3>1. CASE q = file.pipe
        BY <1>2, <1>7, <1>8, <1>9, <2>2, <2>3, <2>5, <3>1
      <3>2. CASE q # file.pipe  BY <2>5, <2>6, <3>2 DEF PipeInv
      <3>3. QED BY <3>1, <3>2
    <2>7. QED BY <1>2, <1>3, <2>6 DEF o
  <1>10. CASE file.kind # "pipe write"
    BY <1>1, <1>2, <1>3, <1>10 DEF PipeInv, o
  <1>11. QED BY <1>9, <1>10

LEMMA StillGiven ==
  ASSUME NEW r, WasGiven(r), observations'[r] = observations[r], actual'[r] = actual[r],
         \A v, n : Supplies(v, n) => Supplies(v, n)' /\ observations'[v].start = observations[v].start
  PROVE  WasGiven(r)'
  BY DEF WasGiven

LEMMA PipeKept == TypeInv /\ TimeInv /\ CallInv /\ EndsInv /\ ValueInv /\ PipeInv /\ [Next]_vars => PipeInv'
  <1> SUFFICES ASSUME TypeInv, TimeInv, CallInv, EndsInv, ValueInv, PipeInv, [Next]_vars PROVE PipeInv'
    OBVIOUS
  <1>0. /\ \A n \in Obs : n \in Nat /\ observations[n] \in EventType /\ actual[n] \in ActualType
        /\ \A v, n : Supplies(v, n) => Supplies(v, n)'
    BY ObsTypes, StillSupplies
  <1>1. ASSUME NEW t \in Thread, NEW c, NEW n, Entered(t, c, n) PROVE PipeInv'
    <2>1. /\ n \notin Obs /\ Obs' = Obs \cup {n} /\ pipe' = pipe /\ Pipes' = Pipes
          /\ \A m \in Obs : observations'[m] = observations[m] /\ actual'[m] = actual[m]
          /\ actual'[n].from = 0 /\ actual'[n].kind = NoSource
      BY <1>1, SameTypes DEF Entered
    <2>2. \A v, m : Supplies(v, m) => Supplies(v, m)' /\ observations'[v].start = observations[v].start
      BY <1>0, <2>1 DEF Supplies
    <2>3. \A r \in Obs : WasGiven(r)'  BY <2>1, <2>2, StillGiven DEF PipeInv
    <2>4. WasGiven(n)'  BY <2>1 DEF WasGiven
    <2>5. QED BY <2>1, <2>2, <2>3, <2>4 DEF PipeInv
  <1>2. ASSUME NEW t \in Thread, NEW n, Left(t, n) PROVE PipeInv'
    <2>1. /\ n \in Obs /\ Obs' = Obs /\ pipe' = pipe /\ Pipes' = Pipes
          /\ \A m \in Obs : m # n => observations'[m] = observations[m]
          /\ actual' = actual /\ clock \in Nat
      BY <1>2, SameTypes DEF Left
    <2>2. /\ \A m \in Obs : SameCall(m)
          /\ observations'[n].end = clock + 1
      BY <1>2, LeftKeeps
    <2>3. \A v, m : Supplies(v, m) => Supplies(v, m)' /\ observations'[v].start = observations[v].start
      BY <1>0, <2>2 DEF Supplies, SameCall
    <2>4. \A r \in Obs : r # n => WasGiven(r)'
      BY <2>1, <2>3, StillGiven DEF PipeInv
    <2>5. WasGiven(n)'
      <3>1. WasGiven(n) /\ SameCall(n)  BY <2>1, <2>2 DEF PipeInv
      <3>2. \A v \in Obs : observations[v].start <= clock + 1
        BY <1>0, <2>1 DEF TimeInv, EventType
      <3>3. QED BY <2>1, <2>2, <2>3, <3>1, <3>2 DEF WasGiven, SameCall, Supplies
    <2>6. QED BY <2>1, <2>3, <2>4, <2>5 DEF PipeInv
  <1>3. ASSUME NEW t \in Thread, NEW ret \in Int, Affected(t, ret), Effects(t) PROVE PipeInv'
    <2>0. PICK n \in Obs : n = call[t].obs  BY <1>3 DEF Affected
    <2>1. /\ Obs' = Obs /\ Pipes' = Pipes /\ observations' = observations
          /\ \A m \in Obs : m # n => actual'[m] = actual[m]
          /\ call[t] # NoCall /\ ~call[t].done
      BY <1>3, <2>0, SameTypes DEF Affected, Obs
    <2>2. \A v, m : Supplies(v, m) => Supplies(v, m)' /\ observations'[v].start = observations[v].start
      BY <1>0, <2>1
    <2>3. \A r \in Obs : r # n => WasGiven(r)'
      BY <2>1, <2>2, StillGiven DEF PipeInv
    <2>4. observations[n].end = 0 /\ observations[n].call = call[t].op
      BY <2>0, <2>1 DEF CallInv, Underway
    <2>5. CASE Reads(t)
      <3>1. /\ \A q \in Pipes : \A v \in Range(pipe'[q]) : Supplies(v, q)
            /\ actual'[n].kind # NoSource
            /\ actual'[n].from # 0 => Supplies(actual'[n].from, observations[n].res) /\ observations[n].res # 0
            /\ observations[n].res # 0 => actual'[n].from # 0
        BY <2>0, <2>5, ReadIsGiven
      <3>2. call[t].op = "read"  BY <2>5 DEF Reads, Runs
      <3>3. WasGiven(n)'  BY <2>1, <2>2, <2>4, <3>1, <3>2 DEF WasGiven
      <3>4. QED BY <2>1, <2>2, <2>3, <3>1, <3>3 DEF PipeInv
    <2>6. CASE Writes(t)
      <3>1. /\ \A q \in Pipes : \A v \in Range(pipe'[q]) :
                 Supplies(v, q) \/ (v = n /\ observations[v].res = q /\ actual'[v].kind = "pipe write")
            /\ actual'[n].from = 0 /\ observations[n].call = "write"
        BY <2>0, <2>6, WriteSupplies
      <3>2. \A q \in Pipes : \A v \in Range(pipe'[q]) : Supplies(v, q)'
        BY <2>0, <2>1, <2>2, <3>1 DEF Supplies
      <3>3. WasGiven(n)'  BY <2>1, <3>1 DEF WasGiven
      <3>4. QED BY <2>1, <2>3, <3>2, <3>3 DEF PipeInv
    <2>7. CASE ~Reads(t) /\ ~Writes(t)
      <3>1. pipe' = pipe /\ actual' = actual
        BY <1>3, <2>7 DEF Effects, Fails, Opens, Closes, ConnectsTo, Execs
      <3>2. WasGiven(n)'  BY <2>1, <2>2, <3>1, StillGiven DEF PipeInv
      <3>3. QED BY <2>1, <2>2, <2>3, <3>1, <3>2 DEF PipeInv
    <2>8. QED BY <2>5, <2>6, <2>7
  <1>4. ASSUME Aside PROVE PipeInv'
    <2>1. Obs' = Obs /\ Pipes' = Pipes /\ observations' = observations /\ actual' = actual /\ pipe' = pipe
      BY <1>4, SameTypes DEF Aside, Obs
    <2>2. \A r \in Obs : WasGiven(r)'  BY <1>0, <2>1, StillGiven DEF PipeInv
    <2>3. QED BY <1>0, <2>1, <2>2 DEF PipeInv
  <1>5. QED BY <1>1, <1>2, <1>3, <1>4, StepIs

-----------------------------------------------------------------------------
(* The edges are kept exact.                                               *)
LEMMA EdgesOfEntry ==
  ASSUME TypeInv, EdgeInv, NEW t \in Thread, NEW c, NEW n, Entered(t, c, n)
  PROVE  EdgeInv'
  <1>1. /\ n \notin Obs /\ Obs' = Obs \cup {n} /\ edges' = edges
        /\ \A m \in Obs : observations'[m] = observations[m]
        /\ observations'[n].ret = 0
    BY EntryStamps DEF Entered
  <1>2. \A e \in Range(edges) : IsEdge(e)'  BY <1>1 DEF EdgeInv, IsEdge
  <1>3. \A r \in Obs' : Linkable(observations', r) => r \in Obs
    BY <1>1 DEF Linkable
  <1>4. \A r \in Obs : \A v \in Suppliers(observations', r) : v \in Suppliers(observations, r)
    BY <1>1 DEF Suppliers, Obs
  <1>5. \A r \in Obs : Linkable(observations', r) => Linkable(observations, r)
    BY <1>1, <1>4 DEF Linkable
  <1>6. \A r \in Obs' : Linkable(observations', r) =>
          \A v \in Suppliers(observations', r) : \E e \in Range(edges) : e[2] = r /\ v <= e[1]
    BY <1>3, <1>4, <1>5 DEF EdgeInv
  <1>7. QED BY <1>1, <1>2, <1>6 DEF EdgeInv

LEMMA EdgesOfExit ==
  ASSUME TypeInv, TimeInv, CallInv, EdgeInv, NEW t \in Thread, NEW n, Left(t, n), Linked(t), observations' \in Seq(EventType)
  PROVE  EdgeInv'
  <1>1. /\ n \in Obs /\ n = call[t].obs /\ Obs' = Obs /\ call[t] # NoCall
        /\ \A m \in Obs : m # n => observations'[m] = observations[m]
        /\ \A m \in Obs : m \in Nat
    BY DEF Left
  <1>2. observations[n].end = 0 /\ observations[n].ret = 0 /\ observations[n].call = call[t].op
    BY <1>1 DEF CallInv, Underway
  <1>3. observations'[n].call = call[t].op /\ observations'[n].ret = call[t].ret /\ call[t].ret \in Int
    BY <1>1, <1>2, LeftKeeps DEF SameCall, Left, CallType
  <1>4. edges \in Seq(Nat \X Nat)  BY DEF TypeInv
  <1> DEFINE reads == IF call[t].op = "read" /\ call[t].ret > 0 THEN {n}
                      ELSE IF call[t].op # "write" \/ observations'[n].ret <= 0 \/ observations'[n].res = 0
                              \/ observations'[n].value = NoValue THEN {}
                      ELSE Matching(observations', n)
  <1>5. Links(observations', edges, edges', reads)
    <2>0. n \in DOMAIN observations'  BY <1>1 DEF Obs
    <2>1. CASE call[t].op = "read" /\ call[t].ret > 0
      BY <1>1, <1>4, <2>0, <2>1, LinkIs DEF Linked
    <2>2. CASE call[t].op = "write"
      <3>1. edges' = Reconcile(observations', edges, n)
        BY <1>1, <2>2 DEF Linked
      <3>2. Links(observations', edges, Reconcile(observations', edges, n),
                  IF observations'[n].ret <= 0 \/ observations'[n].res = 0 \/ observations'[n].value = NoValue THEN {}
                  ELSE Matching(observations', n))
        BY <1>4, <2>0, ReconcileIs
      <3>3. QED BY <2>2, <3>1, <3>2
    <2>3. CASE call[t].op # "write" /\ ~(call[t].op = "read" /\ call[t].ret > 0)
      <3>1. edges' = edges /\ reads = {}  BY <2>3 DEF Linked
      <3> HIDE DEF reads
      <3>2. QED BY <1>4, <3>1 DEF Links
    <2>4. QED BY <2>1, <2>2, <2>3
  <1> HIDE DEF reads
  <1>6. \A e : IsEdge(e) => IsEdge(e)'  BY <1>1, <1>2 DEF IsEdge
  <1>7. \A e : IsLink(observations', e) => IsEdge(e)'
    BY DEF IsLink, Linkable, Suppliers, IsEdge, Obs
  <1>8. \A e \in Range(edges') : IsEdge(e)'
    BY <1>5, <1>6, <1>7 DEF Links, EdgeInv
  <1>9. ASSUME NEW r \in Obs, Linkable(observations', r), NEW v \in Suppliers(observations', r)
        PROVE  \E e \in Range(edges') : e[2] = r /\ v <= e[1]
    <2>1. CASE r \in reads
      <3>1. PICK e \in Range(edges') : IsLink(observations', e) /\ e[2] = r
        BY <1>5, <1>9, <2>1 DEF Links
      <3>2. QED BY <1>9, <3>1 DEF IsLink
    <2>2. CASE r \notin reads
      <3>1. r # n  BY <1>3, <1>9, <2>2 DEF reads, Linkable
      <3>2. v # n
        <4> SUFFICES ASSUME v = n PROVE r \in reads
          BY <2>2
        <4>1. call[t].op = "write" /\ observations'[n].ret > 0 /\ observations'[n].res = observations'[r].res
              /\ observations'[n].value = observations'[r].value
          BY <1>3, <1>9 DEF Suppliers
        <4>2. observations'[r].call = "read" /\ observations'[r].res # 0 /\ observations'[r].value # NoValue
          BY <1>9 DEF Linkable
        <4>3. r \in Matching(observations', n)
          BY <1>1, <4>1, <4>2 DEF Matching, Obs
        <4>4. ~(observations'[n].ret <= 0)  BY <1>3, <4>1
        <4>5. QED BY <4>1, <4>2, <4>3, <4>4 DEF reads
      <3>3. observations'[r] = observations[r] /\ observations'[v] = observations[v] /\ v \in Obs
        BY <1>1, <1>9, <3>1, <3>2 DEF Suppliers, Obs
      <3>4. v \in Suppliers(observations, r) /\ Linkable(observations, r)
        BY <1>9, <3>3 DEF Suppliers, Linkable, Obs
      <3>5. PICK e \in Range(edges) : e[2] = r /\ v <= e[1]
        BY <3>4 DEF EdgeInv
      <3>6. QED BY <1>5, <3>5 DEF Links
    <2>3. QED BY <2>1, <2>2
  <1>10. QED BY <1>1, <1>8, <1>9 DEF EdgeInv

LEMMA EdgesKept == TypeInv /\ TimeInv /\ CallInv /\ EdgeInv /\ [Next]_vars => EdgeInv'
  <1> SUFFICES ASSUME TypeInv, TimeInv, CallInv, EdgeInv, [Next]_vars PROVE EdgeInv'
    OBVIOUS
  <1>1. ASSUME NEW t \in Thread, NEW c, NEW n, Entered(t, c, n) PROVE EdgeInv'
    BY <1>1, EdgesOfEntry
  <1>2. ASSUME NEW t \in Thread, NEW n, Exit(t), Left(t, n) PROVE EdgeInv'
    <2>1. Linked(t) /\ observations' \in Seq(EventType)
      BY <1>2, ExitIsLeaving, ExitTypes
    <2>2. QED BY <1>2, <2>1, EdgesOfExit
  <1>3. ASSUME UNCHANGED << observations, edges >> PROVE EdgeInv'
    BY <1>3 DEF EdgeInv, IsEdge, Obs
  <1>4. QED BY <1>1, <1>2, <1>3, StepIs DEF Affected, Aside

-----------------------------------------------------------------------------
(* What is known of pipes is inductive with what is known of calls.        *)
LEMMA InitEnds == Init => EndsInv
  <1> SUFFICES ASSUME Init PROVE EndsInv
    OBVIOUS
  <1>1. TypeInv /\ workload \in Workloads /\ files = workload.files /\ table = workload.tables
    BY InitTypes DEF Init
  <1>2. ASSUME NEW p \in Proc, NEW f \in Fd, table[p][f] # 0, At(p, f).pipe # 0
        PROVE  << p, At(p, f).pipe, At(p, f).role >> \in Ends
    <2>1. At(p, f) \in FileType
      <3>1. table[p][f] \in 1 .. Len(files) /\ Len(files) \in Nat
        BY <1>1, <1>2 DEF TypeInv
      <3>2. QED BY <1>1, <3>1, FileAt
    <2>2. At(p, f).role # NoSource /\ At(p, f).role \in Roles /\ At(p, f).pipe \in Nat
      BY <1>2, <2>1 DEF FileType
    <2>3. Alone(p)
      <3> SUFFICES ASSUME NEW t \in Thread, NEW u \in Thread, Of(t) = p, Of(u) = p, t # u PROVE FALSE
        BY DEF Alone
      <3>1. workload.tables[p][f] = 0  BY <1>1, Inputs
      <3>2. QED BY <1>1, <1>2, <3>1
    <2>4. HasEnd(p, At(p, f).pipe, At(p, f).role)
      BY <1>1, <1>2 DEF HasEnd, At
    <2>5. QED BY <2>2, <2>3, <2>4 DEF Ends, GoodEnd
  <1>3. Obs = {} /\ \A t \in Thread : call[t] = NoCall  BY NothingYet
  <1>4. QED BY <1>2, <1>3 DEF EndsInv

LEMMA InitPipes == Init => ValueInv /\ PipeInv /\ EdgeInv
  <1> SUFFICES ASSUME Init PROVE ValueInv /\ PipeInv /\ EdgeInv
    OBVIOUS
  <1>1. Obs = {} /\ Range(edges) = {} /\ \A t \in Thread : call[t] = NoCall
    BY NothingYet
  <1>2. \A q \in Pipes : Range(pipe[q]) = {}
    <2>1. pipe = [n \in Pipes |-> << >>]  BY DEF Init, Pipes
    <2>2. QED BY <2>1 DEF Range
  <1>3. QED BY <1>1, <1>2 DEF ValueInv, PipeInv, EdgeInv

(* Every pipe carries what the writes put there, a read is given the value *)
(* of one of them, and the DataFlow edges are what link_pipe_dataflow and  *)
(* its reconciliation make of the calls that have returned.                *)
THEOREM PipesAreKept == Spec => []PipeTrace
  <1>1. Init => PipeTrace
    BY InitTypes, InitTrace, InitEnds, InitPipes DEF TraceInv, PipeTrace
  <1>2. PipeTrace /\ [Next]_vars => PipeTrace'
    BY TypesKept, TimeKept, ImageKept, CallKept, DataKept, ReportKept, EndsKept, ValueKept, PipeKept, EdgesKept
       DEF TraceInv, PipeTrace
  <1>3. QED BY <1>1, <1>2, PTL DEF Spec

-----------------------------------------------------------------------------
(* What FlattenSeq is.                                                     *)
LEMMA FlatConcat ==
  ASSUME NEW S, NEW parts \in Seq(Seq(S)), NEW n \in Nat, n + 1 \in DOMAIN parts,
         NEW s \in Seq(S), Flat(s, parts, n)
  PROVE  Flat(s \o parts[n + 1], parts, n + 1)
  <1>1. PICK from : From(from, s, parts, n)  BY DEF Flat
  <1> DEFINE part == parts[n + 1]
             t == s \o part
  <1>2. PICK L \in Nat : L = Len(s)
    OBVIOUS
  <1>3. part \in Seq(S)
    OBVIOUS
  <1> HIDE DEF part
  <1>4. PICK M \in Nat : M = Len(part)  BY <1>3
  <1>5. /\ DOMAIN s = 1 .. L /\ DOMAIN part = 1 .. M /\ DOMAIN t = 1 .. L + M
        /\ \A k \in 1 .. L : t[k] = s[k]
        /\ \A k \in 1 .. M : t[L + k] = part[k]
    BY <1>2, <1>3, <1>4
  <1>51. /\ from \in [1 .. L -> Nat \X Nat]
         /\ \A k \in 1 .. L : \E i \in 1 .. n : \E j \in DOMAIN parts[i] : from[k] = << i, j >> /\ s[k] = parts[i][j]
         /\ \A i \in 1 .. n : \A j \in DOMAIN parts[i] : \E k \in 1 .. L : from[k] = << i, j >>
         /\ \A k, l \in 1 .. L : k # l => from[k] # from[l]
    <2> HIDE DEF t
    <2>1. DOMAIN s = 1 .. L  BY <1>5
    <2>2. QED BY <1>1, <2>1 DEF From
  <1> HIDE DEF t
  <1> DEFINE new == [k \in 1 .. L + M |-> IF k <= L THEN from[k] ELSE << n + 1, k - L >>]
  <1>6. new \in [1 .. L + M -> Nat \X Nat]  BY <1>51
  <1>7. /\ \A k \in 1 .. L : new[k] = from[k]
        /\ \A k \in 1 .. M : new[L + k] = << n + 1, k >>
    <2>1. \A k \in 1 .. L : k \in 1 .. L + M /\ k <= L
      OBVIOUS
    <2>2. \A k \in 1 .. M : L + k \in 1 .. L + M /\ ~(L + k <= L) /\ (L + k) - L = k
      OBVIOUS
    <2>3. QED BY <2>1, <2>2
  <1> HIDE DEF new
  <1>8. \A k \in 1 .. L + M : k \in 1 .. L \/ (k - L \in 1 .. M /\ L + (k - L) = k)
    OBVIOUS
  <1>9. ASSUME NEW k \in 1 .. L + M
        PROVE  \E i \in 1 .. n + 1 : \E j \in DOMAIN parts[i] : new[k] = << i, j >> /\ t[k] = parts[i][j]
    <2>1. CASE k \in 1 .. L
      <3>1. PICK i \in 1 .. n : \E j \in DOMAIN parts[i] : from[k] = << i, j >> /\ s[k] = parts[i][j]
        BY <1>51, <2>1
      <3>2. i \in 1 .. n + 1 /\ new[k] = from[k] /\ t[k] = s[k]
        BY <1>5, <1>7, <2>1
      <3>3. QED BY <3>1, <3>2
    <2>2. CASE k - L \in 1 .. M /\ L + (k - L) = k
      <3>1. new[k] = << n + 1, k - L >> /\ t[k] = part[k - L]
        BY <1>5, <1>7, <2>2
      <3>2. n + 1 \in 1 .. n + 1 /\ k - L \in DOMAIN parts[n + 1]
        BY <1>5, <2>2 DEF part
      <3>3. QED BY <3>1, <3>2 DEF part
    <2>3. QED BY <1>8, <2>1, <2>2
  <1>10. ASSUME NEW i \in 1 .. n + 1, NEW j \in DOMAIN parts[i]
         PROVE  \E k \in 1 .. L + M : new[k] = << i, j >>
    <2>1. CASE i \in 1 .. n
      <3>1. PICK k \in 1 .. L : from[k] = << i, j >>  BY <1>51, <2>1
      <3>2. k \in 1 .. L + M /\ new[k] = from[k]  BY <1>7
      <3>3. QED BY <3>1, <3>2
    <2>2. CASE i = n + 1
      <3>1. j \in 1 .. M  BY <1>5, <2>2 DEF part
      <3>2. L + j \in 1 .. L + M /\ new[L + j] = << n + 1, j >>  BY <1>7, <3>1
      <3>3. QED BY <2>2, <3>2
    <2>3. i \in 1 .. n \/ i = n + 1
      OBVIOUS
    <2>4. QED BY <2>1, <2>2, <2>3
  <1>11. ASSUME NEW k \in 1 .. L + M, NEW l \in 1 .. L + M, k # l
         PROVE  new[k] # new[l]
    <2>1. ASSUME NEW m \in 1 .. L, NEW j, new[m] = << n + 1, j >> PROVE FALSE
      <3>1. PICK i \in 1 .. n : \E jj \in DOMAIN parts[i] : from[m] = << i, jj >> /\ s[m] = parts[i][jj]
        BY <1>51
      <3>2. PICK jj : from[m] = << i, jj >>  BY <3>1
      <3>3. << i, jj >> = << n + 1, j >>  BY <1>7, <2>1, <3>2
      <3>4. i = n + 1  BY <3>3
      <3>5. QED BY <3>4
    <2>3. CASE k \in 1 .. L /\ l \in 1 .. L  BY <1>51, <1>7, <1>11, <2>3
    <2>4. CASE k - L \in 1 .. M /\ L + (k - L) = k /\ l - L \in 1 .. M /\ L + (l - L) = l
      <3>1. new[k] = << n + 1, k - L >> /\ new[l] = << n + 1, l - L >>
        BY <1>7, <2>4
      <3>2. QED BY <1>11, <3>1
    <2>5. CASE k \in 1 .. L /\ l - L \in 1 .. M /\ L + (l - L) = l
      <3>1. new[l] = << n + 1, l - L >>  BY <1>7, <2>5
      <3>2. QED BY <2>1, <2>5, <3>1
    <2>6. CASE l \in 1 .. L /\ k - L \in 1 .. M /\ L + (k - L) = k
      <3>1. new[k] = << n + 1, k - L >>  BY <1>7, <2>6
      <3>2. QED BY <2>1, <2>6, <3>1
    <2>7. QED BY <1>8, <2>3, <2>4, <2>5, <2>6
  <1>12. Flat(t, parts, n + 1)
    <2>1. DOMAIN t = 1 .. L + M  BY <1>5
    <2>2. From(new, t, parts, n + 1)
      BY <1>6, <1>9, <1>10, <1>11, <2>1 DEF From
    <2>3. QED BY <2>2 DEF Flat
  <1>13. QED BY <1>12 DEF t, part

LEMMA Flattened ==
  ASSUME NEW S, NEW parts \in Seq(Seq(S))
  PROVE  \E N \in Nat : N = Len(parts) /\ Built(FlattenSeq(parts), parts, N, S)
  <1>0. PICK N \in Nat : N = Len(parts)
    OBVIOUS
  <1>1. CASE N = 0
    <2>1. FlattenSeq(parts) = parts /\ parts = << >>
      <3>1. Len(parts) = 0  BY <1>0, <1>1
      <3>2. FlattenSeq(parts) = parts  BY <3>1, Zenon DEF FlattenSeq
      <3>3. QED BY <3>1, <3>2
    <2>2. << >> \in Seq(S)
      OBVIOUS
    <2> DEFINE g == [i \in 0 .. 0 |-> << >>]
    <2>3. g \in [0 .. 0 -> Seq(S)] /\ g[0] = << >>  BY <2>2
    <2>4. \A i \in 1 .. 0 : FALSE
      OBVIOUS
    <2> HIDE DEF g
    <2>5. QED BY <1>0, <1>1, <2>1, <2>3, <2>4 DEF Built
  <1>2. CASE N # 0
    <2> DEFINE D == Seq(S)
               with(i, d) == d \o parts[i]
               step == [nd \in Nat \X D |-> IF nd[1] \in 1 .. N THEN with(nd[1], nd[2]) ELSE nd[2]]
               body(g) == [i \in 1 .. N |-> IF i = 1 THEN parts[i] ELSE g[i - 1] \o parts[i]]
               flatten == CHOOSE g : g = body(g)
    <2>1. FlattenSeq(parts) = flatten[N]  BY <1>0, <1>2 DEF FlattenSeq
    <2>2. DOMAIN parts = 1 .. N /\ \A i \in 1 .. N : parts[i] \in D  BY <1>0
    <2>3. \A i \in 1 .. N, d \in D : d \o parts[i] \in D  BY <2>2
    <2>4. << >> \in D /\ \A i \in 1 .. N : << >> \o parts[i] = parts[i]
      BY <2>2
    <2> HIDE DEF D
    <2>5. step \in [Nat \X D -> D]  BY <2>3
    <2>6. \A i \in 1 .. N, d \in D : step[<< i, d >>] = d \o parts[i]
      <3>1. \A i \in 1 .. N, d \in D : step[<< i, d >>] = with(i, d)
        <4> HIDE DEF with
        <4>1. QED
          OBVIOUS
      <3>2. QED BY <3>1, Zenon DEF with
    <2> HIDE DEF step, with
    <2>7. PICK g \in [0 .. N -> D] : g[0] = << >> /\ \A i \in 1 .. N : g[i] = step[<< i, g[i - 1] >>]
      <3>1. Unfolding(D, << >>, step, N)  BY <2>4, <2>5, Recursion
      <3>2. QED BY <3>1 DEF Unfolding
    <2>8. \A i \in 1 .. N : i - 1 \in 0 .. N /\ g[i - 1] \in D /\ g[i] = g[i - 1] \o parts[i]
      <3>1. \A i \in 1 .. N : i - 1 \in 0 .. N
        OBVIOUS
      <3>2. QED BY <2>6, <2>7, <3>1
    <2>9. g[1] = parts[1] /\ 1 \in 1 .. N
      <3>1. 1 \in 1 .. N /\ 1 - 1 = 0  BY <1>2
      <3>2. QED BY <2>4, <2>7, <2>8, <3>1
    <2> DEFINE h == [i \in 1 .. N |-> g[i]]
    <2>10. h = body(h)
      <3>1. \A i \in 1 .. N : i # 1 => i - 1 \in 1 .. N
        OBVIOUS
      <3>2. \A i \in 1 .. N : h[i] = IF i = 1 THEN parts[i] ELSE h[i - 1] \o parts[i]
        BY <2>8, <2>9, <3>1
      <3>3. QED BY <3>2
    <2>11. flatten = body(flatten)
      <3> HIDE DEF body, h
      <3>1. QED BY <2>10
    <2> HIDE DEF flatten
    <2>12. \A i \in 1 .. N : flatten[i] = IF i = 1 THEN parts[i] ELSE flatten[i - 1] \o parts[i]
      <3>1. \A i \in 1 .. N : flatten[i] = body(flatten)[i]  BY <2>11
      <3>2. QED BY <3>1
    <2> HIDE DEF body, h
    <2> DEFINE U == {n \in Nat : n < N => flatten[n + 1] = g[n + 1]}
    <2>13. 0 \in U  BY <2>9, <2>12
    <2>14. \A n \in Nat : n \in U => n + 1 \in U
      <3> SUFFICES ASSUME NEW n \in Nat, n \in U PROVE n + 1 \in U
        OBVIOUS
      <3> SUFFICES ASSUME n + 1 < N PROVE flatten[(n + 1) + 1] = g[(n + 1) + 1]
        OBVIOUS
      <3>1. PICK m \in 1 .. N : m = (n + 1) + 1 /\ m # 1 /\ m - 1 = n + 1
        OBVIOUS
      <3>2. flatten[m - 1] = g[m - 1]  BY <3>1
      <3>3. flatten[m] = g[m]  BY <2>8, <2>12, <3>1, <3>2
      <3>4. QED BY <3>1, <3>3
    <2> HIDE DEF U
    <2>15. flatten[N] = g[N]
      <3>1. N - 1 \in U /\ N - 1 < N /\ (N - 1) + 1 = N
        BY <1>2, <2>13, <2>14, Induct
      <3>2. QED BY <3>1 DEF U
    <2>16. /\ g[N] = FlattenSeq(parts)
           /\ \A i \in 1 .. N : g[i] = g[i - 1] \o parts[i]
      BY <2>1, <2>8, <2>15
    <2>17. Built(FlattenSeq(parts), parts, N, S)  BY <2>7, <2>16 DEF Built, D
    <2>18. QED BY <1>0, <2>17
  <1>3. QED BY <1>1, <1>2

LEMMA FlattenIs ==
  ASSUME NEW S, NEW parts \in Seq(Seq(S))
  PROVE  FlattenSeq(parts) \in Seq(S) /\ Flat(FlattenSeq(parts), parts, Len(parts))
  <1>1. PICK N \in Nat : N = Len(parts) /\ Built(FlattenSeq(parts), parts, N, S)
    BY Flattened
  <1>2. PICK g \in [0 .. N -> Seq(S)] : /\ g[0] = << >> /\ g[N] = FlattenSeq(parts)
                                        /\ \A i \in 1 .. N : g[i] = g[i - 1] \o parts[i]
    BY <1>1 DEF Built
  <1> DEFINE V == {n \in Nat : n <= N => Flat(g[n], parts, n)}
  <1>3. 0 \in V
    <2>1. From(<< >>, << >>, parts, 0)  BY DEF From
    <2>2. QED BY <1>2, <2>1 DEF Flat
  <1>4. \A n \in Nat : n \in V => n + 1 \in V
    <2> SUFFICES ASSUME NEW n \in Nat, n \in V PROVE n + 1 \in V
      OBVIOUS
    <2> SUFFICES ASSUME n + 1 <= N PROVE Flat(g[n + 1], parts, n + 1)
      OBVIOUS
    <2>1. Flat(g[n], parts, n) /\ n + 1 \in 1 .. N /\ (n + 1) - 1 = n /\ n + 1 \in DOMAIN parts /\ n \in 0 .. N
      BY <1>1
    <2>2. g[n] \in Seq(S) /\ g[n + 1] = g[n] \o parts[n + 1]  BY <1>2, <2>1
    <2>3. QED BY <2>1, <2>2, FlatConcat
  <1> HIDE DEF V
  <1>5. N \in V  BY <1>3, <1>4, Induct
  <1>6. Flat(g[N], parts, N)  BY <1>5 DEF V
  <1>7. N \in 0 .. N
    OBVIOUS
  <1>8. QED BY <1>1, <1>2, <1>6, <1>7

LEMMA ConcatIs ==
  ASSUME NEW S, NEW n \in Nat, NEW s \in Seq(S), DOMAIN s = 1 .. n, NEW m \in Nat, NEW part \in Seq(S), DOMAIN part = 1 .. m
  PROVE  Joined(s \o part, s, n, part, m)
  <1>1. Len(s) = n /\ Len(part) = m
    OBVIOUS
  <1>2. QED BY <1>1 DEF Joined

LEMMA SinglyMore ==
  ASSUME NEW S, NEW n \in Nat, NEW s \in Seq(S), NEW parts, NEW part \in Seq(S), part = parts[n + 1], DOMAIN part = 1 .. 1,
         Singly(s, parts, n)
  PROVE  Singly(s \o part, parts, n + 1)
  <1> DEFINE t == s \o part
  <1>1. DOMAIN s = 1 .. n /\ \A i \in 1 .. n : s[i] = parts[i][1]
    BY DEF Singly
  <1>21. 1 \in Nat
    OBVIOUS
  <1>22. Joined(t, s, n, part, 1)  BY <1>1, <1>21, ConcatIs
  <1> HIDE DEF t
  <1>23. 1 \in 1 .. 1
    OBVIOUS
  <1>2. DOMAIN t = 1 .. n + 1 /\ (\A i \in 1 .. n : t[i] = s[i]) /\ t[n + 1] = part[1]
    BY <1>22, <1>23 DEF Joined
  <1>3. \A i \in 1 .. n + 1 : i \in 1 .. n \/ i = n + 1
    OBVIOUS
  <1>4. \A i \in 1 .. n + 1 : t[i] = parts[i][1]  BY <1>1, <1>2, <1>3
  <1>5. Singly(t, parts, n + 1)  BY <1>2, <1>4 DEF Singly
  <1>6. QED BY <1>5 DEF t

LEMMA PairedMore ==
  ASSUME NEW S, NEW n \in Nat, NEW s \in Seq(S), NEW parts, NEW part \in Seq(S), part = parts[n + 1], DOMAIN part = 1 .. 2,
         Paired(s, parts, n)
  PROVE  Paired(s \o part, parts, n + 1)
  <1> DEFINE t == s \o part
  <1>1. DOMAIN s = 1 .. 2 * n /\ \A i \in 1 .. n : s[2 * i - 1] = parts[i][1] /\ s[2 * i] = parts[i][2]
    BY DEF Paired
  <1>0. 2 * n \in Nat
    OBVIOUS
  <1>21. 2 \in Nat
    OBVIOUS
  <1>22. Joined(t, s, 2 * n, part, 2)  BY <1>0, <1>1, <1>21, ConcatIs
  <1> HIDE DEF t
  <1>23. 1 \in 1 .. 2 /\ 2 \in 1 .. 2
    OBVIOUS
  <1>2. DOMAIN t = 1 .. 2 * n + 2 /\ (\A i \in 1 .. 2 * n : t[i] = s[i]) /\ t[2 * n + 1] = part[1] /\ t[2 * n + 2] = part[2]
    BY <1>22, <1>23 DEF Joined
  <1>3. ASSUME NEW i \in 1 .. n + 1 PROVE t[2 * i - 1] = parts[i][1] /\ t[2 * i] = parts[i][2]
    <2>1. CASE i = n + 1
      <3>1. 2 * i - 1 = 2 * n + 1 /\ 2 * i = 2 * n + 2  BY <2>1
      <3>2. QED BY <1>2, <2>1, <3>1
    <2>2. CASE i \in 1 .. n
      <3>1. 2 * i - 1 \in 1 .. 2 * n /\ 2 * i \in 1 .. 2 * n  BY <2>2
      <3>2. QED BY <1>1, <1>2, <2>2, <3>1
    <2>3. i \in 1 .. n \/ i = n + 1
      OBVIOUS
    <2>4. QED BY <2>1, <2>2, <2>3
  <1>4. 2 * n + 2 = 2 * (n + 1)
    OBVIOUS
  <1>5. Paired(t, parts, n + 1)  BY <1>2, <1>3, <1>4 DEF Paired
  <1>6. QED BY <1>5 DEF t

LEMMA FlattenSingles ==
  ASSUME NEW S, NEW parts \in Seq(Seq(S)), NEW N \in Nat, DOMAIN parts = 1 .. N, \A i \in 1 .. N : DOMAIN parts[i] = 1 .. 1
  PROVE  Singly(FlattenSeq(parts), parts, N)
  <1>0. Len(parts) = N
    OBVIOUS
  <1>1. PICK M \in Nat : M = Len(parts) /\ Built(FlattenSeq(parts), parts, M, S)
    BY Flattened
  <1>2. PICK g \in [0 .. N -> Seq(S)] : /\ g[0] = << >> /\ g[N] = FlattenSeq(parts)
                                        /\ \A i \in 1 .. N : g[i] = g[i - 1] \o parts[i]
    BY <1>0, <1>1 DEF Built
  <1>3. \A i \in 1 .. N : parts[i] \in Seq(S)
    OBVIOUS
  <1> DEFINE V == {n \in Nat : n <= N => Singly(g[n], parts, n)}
  <1>4. 0 \in V  BY <1>2 DEF Singly
  <1>5. \A n \in Nat : n \in V => n + 1 \in V
    <2> SUFFICES ASSUME NEW n \in Nat, n \in V PROVE n + 1 \in V
      OBVIOUS
    <2> SUFFICES ASSUME n + 1 <= N PROVE Singly(g[n + 1], parts, n + 1)
      OBVIOUS
    <2>1. Singly(g[n], parts, n) /\ n + 1 \in 1 .. N /\ (n + 1) - 1 = n /\ n \in 0 .. N
      OBVIOUS
    <2>2. g[n] \in Seq(S) /\ parts[n + 1] \in Seq(S) /\ g[n + 1] = g[n] \o parts[n + 1] /\ DOMAIN parts[n + 1] = 1 .. 1
      BY <1>2, <1>3, <2>1
    <2>3. Singly(g[n] \o parts[n + 1], parts, n + 1)
      BY <2>1, <2>2, SinglyMore
    <2>4. QED BY <2>2, <2>3
  <1> HIDE DEF V
  <1>6. N \in V  BY <1>4, <1>5, Induct
  <1>7. QED BY <1>2, <1>6 DEF V

LEMMA FlattenPairs ==
  ASSUME NEW S, NEW parts \in Seq(Seq(S)), NEW N \in Nat, DOMAIN parts = 1 .. N, \A i \in 1 .. N : DOMAIN parts[i] = 1 .. 2
  PROVE  Paired(FlattenSeq(parts), parts, N)
  <1>0. Len(parts) = N
    OBVIOUS
  <1>1. PICK M \in Nat : M = Len(parts) /\ Built(FlattenSeq(parts), parts, M, S)
    BY Flattened
  <1>2. PICK g \in [0 .. N -> Seq(S)] : /\ g[0] = << >> /\ g[N] = FlattenSeq(parts)
                                        /\ \A i \in 1 .. N : g[i] = g[i - 1] \o parts[i]
    BY <1>0, <1>1 DEF Built
  <1>3. \A i \in 1 .. N : parts[i] \in Seq(S)
    OBVIOUS
  <1> DEFINE V == {n \in Nat : n <= N => Paired(g[n], parts, n)}
  <1>4. 0 \in V  BY <1>2 DEF Paired
  <1>5. \A n \in Nat : n \in V => n + 1 \in V
    <2> SUFFICES ASSUME NEW n \in Nat, n \in V PROVE n + 1 \in V
      OBVIOUS
    <2> SUFFICES ASSUME n + 1 <= N PROVE Paired(g[n + 1], parts, n + 1)
      OBVIOUS
    <2>1. Paired(g[n], parts, n) /\ n + 1 \in 1 .. N /\ (n + 1) - 1 = n /\ n \in 0 .. N
      OBVIOUS
    <2>2. g[n] \in Seq(S) /\ parts[n + 1] \in Seq(S) /\ g[n + 1] = g[n] \o parts[n + 1] /\ DOMAIN parts[n + 1] = 1 .. 2
      BY <1>2, <1>3, <2>1
    <2>3. Paired(g[n] \o parts[n + 1], parts, n + 1)
      BY <2>1, <2>2, PairedMore
    <2>4. QED BY <2>2, <2>3
  <1> HIDE DEF V
  <1>6. N \in V  BY <1>4, <1>5, Induct
  <1>7. QED BY <1>2, <1>6 DEF V

-----------------------------------------------------------------------------
(* Findings, and picking some of a sequence.                               *)
LEMMA BlankFinding ==
  /\ IsFinding(R!Finding)
  /\ DOMAIN R!Finding = {"id", "rule", "kind", "severity", "value", "source", "destination", "outcome",
                         "sessions", "edges", "evidence", "support"}
  BY DEF IsFinding, R!Finding

LEMMA NamedFinding ==
  ASSUME NEW f, IsFinding(f), NEW rule
  PROVE  LET g == [f EXCEPT !.rule = rule] IN
         /\ IsFinding(g) /\ g.rule = rule
         /\ g.id = f.id /\ g.kind = f.kind /\ g.severity = f.severity /\ g.value = f.value
         /\ g.source = f.source /\ g.destination = f.destination /\ g.outcome = f.outcome
         /\ g.sessions = f.sessions /\ g.edges = f.edges /\ g.evidence = f.evidence /\ g.support = f.support
  BY BlankFinding DEF IsFinding

LEMMA NumberedFinding ==
  ASSUME NEW f, IsFinding(f), NEW id
  PROVE  LET g == [f EXCEPT !.id = id] IN
         /\ IsFinding(g) /\ g.id = id
         /\ g.rule = f.rule /\ g.kind = f.kind /\ g.severity = f.severity /\ g.value = f.value
         /\ g.source = f.source /\ g.destination = f.destination /\ g.outcome = f.outcome
         /\ g.sessions = f.sessions /\ g.edges = f.edges /\ g.evidence = f.evidence /\ g.support = f.support
  BY BlankFinding DEF IsFinding

(* The instances' helpers are the ones of the library.                     *)
LEMMA SameHelpers ==
  ASSUME NEW s, NEW set
  PROVE  /\ R!FlattenSeq(s) = FlattenSeq(s) /\ R!Range(s) = Range(s) /\ R!Last(s) = Last(s)
         /\ Registry!FlattenSeq(s) = FlattenSeq(s) /\ Registry!Range(s) = Range(s)
         /\ Tell!FlattenSeq(s) = FlattenSeq(s) /\ Tell!Range(s) = Range(s)
         /\ R!Kept(s, set) = Kept(s, set) /\ Registry!Kept(s, set) = Kept(s, set)
         /\ R!IsInjective(s) = IsInjective(s) /\ R!Cardinality(set) = Cardinality(set)
         /\ R!SetToSeq(set) = SetToSeq(set)
  <1>1. \A t : R!FlattenSeq(t) = FlattenSeq(t) /\ Registry!FlattenSeq(t) = FlattenSeq(t) /\ Tell!FlattenSeq(t) = FlattenSeq(t)
    BY DEF R!FlattenSeq, Registry!FlattenSeq, Tell!FlattenSeq, FlattenSeq
  <1>2. R!Range(s) = Range(s) /\ Registry!Range(s) = Range(s) /\ Tell!Range(s) = Range(s)
    BY DEF R!Range, Registry!Range, Tell!Range, Range
  <1>3. R!Last(s) = Last(s)  BY DEF R!Last, Last
  <1>4. R!Kept(s, set) = Kept(s, set) /\ Registry!Kept(s, set) = Kept(s, set)
    BY <1>1, Zenon DEF R!Kept, Registry!Kept, Kept
  <1>5. \A t : R!IsInjective(t) <=> IsInjective(t)
    BY DEF R!IsInjective, IsInjective
  <1>6. R!Cardinality(set) = Cardinality(set)
    BY DEF R!Cardinality, Cardinality
  <1>7. R!SetToSeq(set) = SetToSeq(set)
    BY <1>5, <1>6, Zenon DEF R!SetToSeq, SetToSeq
  <1>8. QED BY <1>1, <1>2, <1>3, <1>4, <1>5, <1>6, <1>7

LEMMA ItsRange ==
  ASSUME NEW S, NEW s \in Seq(S)
  PROVE  Range(s) \subseteq S /\ s \in Seq(Range(s))
  <1> DEFINE T == Range(s)
             N == Len(s)
  <1>1. N \in Nat /\ DOMAIN s = 1 .. N /\ s = [k \in 1 .. N |-> s[k]] /\ \A k \in 1 .. N : s[k] \in S
    OBVIOUS
  <1>2. (\A k \in 1 .. N : s[k] \in T) /\ T \subseteq S  BY <1>1 DEF Range
  <1> HIDE DEF T, N
  <1>3. s \in Seq(T)  BY <1>1, <1>2
  <1>4. QED BY <1>2, <1>3 DEF T

LEMMA PickedIs ==
  ASSUME NEW N \in Nat, NEW fits, NEW make,
         NEW s, s = FlattenSeq([n \in 1 .. N |-> IF n \in fits THEN << make[n] >> ELSE << >>])
  PROVE  Picked(s, N, fits, make)
  <1> DEFINE S == {make[n] : n \in 1 .. N}
             part == [n \in 1 .. N |-> IF n \in fits THEN << make[n] >> ELSE << >>]
  <1>1. part \in Seq(Seq(S)) /\ Len(part) = N
    <2>1. \A n \in 1 .. N : make[n] \in S
      OBVIOUS
    <2> HIDE DEF S
    <2>2. \A n \in 1 .. N : << make[n] >> \in Seq(S) /\ << >> \in Seq(S)
      BY <2>1
    <2>3. part \in [1 .. N -> Seq(S)]  BY <2>2
    <2>4. QED BY <2>3
  <1>2. /\ \A n \in (1 .. N) \cap fits : DOMAIN part[n] = {1} /\ part[n][1] = make[n]
        /\ \A n \in 1 .. N : n \notin fits => DOMAIN part[n] = {}
    OBVIOUS
  <1> HIDE DEF S, part
  <1>3. s \in Seq(S) /\ Flat(s, part, N)  BY <1>1, FlattenIs DEF part
  <1>4. PICK at : From(at, s, part, N)  BY <1>3 DEF Flat
  <1> DEFINE from == [k \in DOMAIN s |-> at[k][1]]
  <1>5. ASSUME NEW k \in DOMAIN s
        PROVE  at[k] = << from[k], 1 >> /\ from[k] \in 1 .. N /\ from[k] \in fits /\ s[k] = make[from[k]]
    <2>1. PICK i \in 1 .. N : \E j \in DOMAIN part[i] : at[k] = << i, j >> /\ s[k] = part[i][j]
      BY <1>4 DEF From
    <2>2. PICK j \in DOMAIN part[i] : at[k] = << i, j >> /\ s[k] = part[i][j]
      BY <2>1
    <2>3. i \in fits /\ j = 1  BY <1>2, <2>2
    <2>4. from[k] = i  BY <2>2
    <2>5. QED BY <1>2, <2>2, <2>3, <2>4
  <1>6. ASSUME NEW n \in 1 .. N, n \in fits
        PROVE  \E k \in DOMAIN s : s[k] = make[n]
    <2>1. 1 \in DOMAIN part[n]  BY <1>2, <1>6
    <2>2. PICK k \in DOMAIN s : at[k] = << n, 1 >>  BY <1>4, <2>1 DEF From
    <2>3. from[k] = n  BY <2>2
    <2>4. QED BY <1>5, <2>3
  <1>7. \A k, l \in DOMAIN s : k # l => from[k] # from[l]
    <2>1. \A k, l \in DOMAIN s : k # l => at[k] # at[l]  BY <1>4 DEF From
    <2> HIDE DEF from
    <2>2. ASSUME NEW k \in DOMAIN s, NEW l \in DOMAIN s, from[k] = from[l] PROVE at[k] = at[l]
      BY <1>5, <2>2
    <2>3. QED BY <2>1, <2>2
  <1>8. from \in [DOMAIN s -> 1 .. N]  BY <1>5
  <1> HIDE DEF from
  <1>9. Range(s) = {make[n] : n \in (1 .. N) \cap fits}
    <2>1. \A k \in DOMAIN s : from[k] \in (1 .. N) \cap fits /\ s[k] = make[from[k]]
      BY <1>5
    <2>2. \A n \in (1 .. N) \cap fits : \E k \in DOMAIN s : s[k] = make[n]
      BY <1>6
    <2> DEFINE I == (1 .. N) \cap fits
    <2> HIDE DEF I
    <2>3. (\A k \in DOMAIN s : from[k] \in I /\ s[k] = make[from[k]]) /\ \A n \in I : \E k \in DOMAIN s : s[k] = make[n]
      BY <2>1, <2>2 DEF I
    <2>4. Range(s) = {make[n] : n \in I}
      <3>1. ASSUME NEW x \in Range(s) PROVE \E n \in I : x = make[n]
        BY <2>3 DEF Range
      <3>2. ASSUME NEW n \in I PROVE make[n] \in Range(s)  BY <2>3 DEF Range
      <3>3. QED BY <3>1, <3>2
    <2>5. QED BY <2>4 DEF I
  <1>10. s \in Seq(Range(s))  BY <1>3, ItsRange
  <1>11. QED BY <1>5, <1>7, <1>8, <1>9, <1>10 DEF Picked

-----------------------------------------------------------------------------
(* The registry: no rule is in it twice.                                   *)
LEMMA KeptIs ==
  ASSUME NEW S, NEW s \in Seq(S), NEW set
  PROVE  /\ Picked(Kept(s, set), Len(s), {n \in DOMAIN s : s[n] \in set}, s)
         /\ Kept(s, set) \in Seq(S)
         /\ Range(Kept(s, set)) = Range(s) \cap set
  <1>1. PICK N \in Nat : N = Len(s) /\ DOMAIN s = 1 .. N
    OBVIOUS
  <1> DEFINE fits == {n \in DOMAIN s : s[n] \in set}
             part == [n \in 1 .. N |-> IF n \in fits THEN << s[n] >> ELSE << >>]
  <1>2. Kept(s, set) = FlattenSeq(part)
    <2>1. part = [n \in DOMAIN s |-> IF s[n] \in set THEN << s[n] >> ELSE << >>]
      BY <1>1
    <2> HIDE DEF part
    <2>2. QED BY <2>1 DEF Kept
  <1> HIDE DEF fits
  <1>3. Picked(Kept(s, set), N, fits, s)  BY <1>2, PickedIs
  <1> HIDE DEF part
  <1>4. /\ Kept(s, set) \in Seq(Range(Kept(s, set)))
        /\ Range(Kept(s, set)) = {s[n] : n \in (1 .. N) \cap fits}
    BY <1>3 DEF Picked
  <1>5. Range(Kept(s, set)) = Range(s) \cap set
    <2>1. (1 .. N) \cap fits = {n \in DOMAIN s : s[n] \in set}
      BY <1>1 DEF fits
    <2>2. Range(Kept(s, set)) = {s[n] : n \in {n \in DOMAIN s : s[n] \in set}}
      BY <1>4, <2>1
    <2>3. ASSUME NEW x PROVE x \in Range(Kept(s, set)) <=> x \in Range(s) /\ x \in set
      BY <2>2 DEF Range
    <2>4. QED BY <2>3
  <1>6. Range(s) \subseteq S  BY ItsRange
  <1>7. Kept(s, set) \in Seq(S)  BY <1>4, <1>5, <1>6, SeqOfMore
  <1>8. QED BY <1>1, <1>3, <1>5, <1>7 DEF fits

LEMMA KeptOnce ==
  ASSUME NEW S, NEW s \in Seq(S), NEW set, IsInjective(s)
  PROVE  IsInjective(Kept(s, set))
  <1>1. PICK from \in [DOMAIN Kept(s, set) -> 1 .. Len(s)] :
          /\ \A k \in DOMAIN Kept(s, set) : Kept(s, set)[k] = s[from[k]]
          /\ \A k, l \in DOMAIN Kept(s, set) : k # l => from[k] # from[l]
    BY KeptIs DEF Picked
  <1>2. \A m, n \in 1 .. Len(s) : s[m] = s[n] => m = n  BY DEF IsInjective
  <1>3. QED BY <1>1, <1>2 DEF IsInjective

LEMMA RuleIdsAre ==
  /\ R!RuleIds \in Seq(RuleId) /\ IsInjective(R!RuleIds) /\ DOMAIN R!RuleIds = 1 .. 5
  /\ RuleId = {R!RuleIds[1], R!RuleIds[2], R!RuleIds[3], R!RuleIds[4], R!RuleIds[5]}
  /\ R!StageOf[R!RuleIds[1]] = "Primary" /\ R!StageOf[R!RuleIds[3]] = "Primary" /\ R!StageOf[R!RuleIds[4]] = "Primary"
  /\ R!StageOf[R!RuleIds[2]] = "Composite" /\ R!StageOf[R!RuleIds[5]] = "Composite"
  <1>1. DOMAIN R!RuleIds = 1 .. 5  BY DEF R!RuleIds
  <1>2. RuleId = {R!RuleIds[1], R!RuleIds[2], R!RuleIds[3], R!RuleIds[4], R!RuleIds[5]}
    BY <1>1 DEF RuleId, Range
  <1>3. IsInjective(R!RuleIds)  BY DEF IsInjective, R!RuleIds
  <1>4. R!RuleIds \in Seq(RuleId)
    <2>1. \A a, b, c, d, e : << a, b, c, d, e >> \in Seq({a, b, c, d, e})
      OBVIOUS
    <2>2. R!RuleIds = << R!RuleIds[1], R!RuleIds[2], R!RuleIds[3], R!RuleIds[4], R!RuleIds[5] >>
      BY DEF R!RuleIds
    <2>3. << R!RuleIds[1], R!RuleIds[2], R!RuleIds[3], R!RuleIds[4], R!RuleIds[5] >> \in Seq(RuleId)
      BY <1>2, <2>1
    <2>4. QED BY <2>2, <2>3, Zenon
  <1>5. \A r \in RuleId : R!StageOf[r] = IF r \in {R!RuleIds[2], R!RuleIds[5]} THEN "Composite" ELSE "Primary"
    BY SameHelpers DEF R!StageOf, RuleId
  <1>6. /\ R!RuleIds[1] \notin {R!RuleIds[2], R!RuleIds[5]} /\ R!RuleIds[3] \notin {R!RuleIds[2], R!RuleIds[5]}
        /\ R!RuleIds[4] \notin {R!RuleIds[2], R!RuleIds[5]}
    BY <1>1, <1>3 DEF IsInjective
  <1>7. QED BY <1>1, <1>2, <1>3, <1>4, <1>5, <1>6

LEMMA RegistryKept == RegistryInv /\ [Next]_vars => RegistryInv'
  <1> SUFFICES ASSUME RegistryInv, [Next]_vars PROVE RegistryInv'
    OBVIOUS
  <1>1. CASE rules' = rules  BY <1>1 DEF RegistryInv
  <1>2. ASSUME NEW id \in RuleId, rules' = Kept(rules, RuleId \ {id}) \/ rules' = Append(Kept(rules, RuleId \ {id}), id)
        PROVE  RegistryInv'
    <2> DEFINE without == Kept(rules, RuleId \ {id})
    <2>1. without \in Seq(RuleId) /\ id \notin Range(without) /\ IsInjective(without)
      <3>1. rules \in Seq(RuleId) /\ IsInjective(rules)  BY DEF RegistryInv
      <3>2. without \in Seq(RuleId) /\ Range(without) = Range(rules) \cap (RuleId \ {id})
        BY <3>1, KeptIs
      <3>3. IsInjective(without)  BY <3>1, KeptOnce
      <3> HIDE DEF without
      <3>4. QED BY <3>2, <3>3
    <2> HIDE DEF without
    <2>2. Append(without, id) \in Seq(RuleId)  BY <2>1
    <2>3. IsInjective(Append(without, id))
      <3>1. PICK L \in Nat : L = Len(without) /\ DOMAIN without = 1 .. L
        BY <2>1
      <3> DEFINE s == Append(without, id)
      <3>2. DOMAIN s = 1 .. L + 1 /\ s[L + 1] = id /\ \A k \in 1 .. L : s[k] = without[k]
        BY <2>1, <3>1
      <3> HIDE DEF s
      <3>3. \A k \in 1 .. L : without[k] # id  BY <2>1, <3>1 DEF Range
      <3>4. \A k \in 1 .. L + 1 : k \in 1 .. L \/ k = L + 1
        OBVIOUS
      <3>5. \A k, l \in 1 .. L : without[k] = without[l] => k = l
        BY <2>1, <3>1 DEF IsInjective
      <3>6. \A k, l \in 1 .. L + 1 : s[k] = s[l] => k = l
        BY <3>2, <3>3, <3>4, <3>5
      <3>7. QED BY <3>2, <3>6 DEF IsInjective, s
    <2>4. QED BY <1>2, <2>1, <2>2, <2>3 DEF RegistryInv, without
  <1>3. CASE rules' # rules
    <2>1. Registry!Next
      BY <1>3, Zenon DEF Next, vars, Enter, Fails, Opens, Closes, ConnectsTo, Reads, Writes, Execs, Exit, MakesSocket,
                         Configure, End, Runs, Unobserved
    <2>2. PICK id \in Registry!Rule : Registry!Register(id) \/ Registry!Unregister(id) \/ Registry!Disable(id) \/ Registry!Enable(id)
      BY <2>1 DEF Registry!Next
    <2>3. Registry!Rule = RuleId  BY SameHelpers DEF Registry!Rule, RuleId
    <2>4. Registry!Without(id) = Kept(rules, RuleId \ {id})
      BY <2>3, SameHelpers DEF Registry!Without
    <2>5. rules' = Registry!Without(id) \/ rules' = Append(Registry!Without(id), id)
      BY <1>3, <2>2, Zenon DEF Registry!Register, Registry!Unregister, Registry!Disable, Registry!Enable
    <2>6. QED BY <1>2, <2>3, <2>4, <2>5
  <1>4. QED BY <1>1, <1>3

LEMMA InitRegistry == Init => RegistryInv
  BY RuleIdsAre DEF Init, Registry!Init, RegistryInv

(* active_rules                                                            *)
LEMMA ActiveAre ==
  ASSUME RegistryInv, NEW stage
  PROVE  /\ Registry!ActiveRules(stage) \in Seq(RuleId)
         /\ Range(Registry!ActiveRules(stage)) = {r \in Range(rules) : R!StageOf[r] = stage /\ r \notin disabled}
         /\ IsInjective(Registry!ActiveRules(stage))
  <1> DEFINE copies(id) == IF R!StageOf[id] = stage /\ id \notin disabled THEN Kept(rules, {id}) ELSE << >>
             part == [n \in 1 .. 5 |-> copies(R!RuleIds[n])]
             active == Registry!ActiveRules(stage)
  <1>0. \A id : Registry!Kept(rules, {id}) = Kept(rules, {id})  BY SameHelpers
  <1>1. active = FlattenSeq(part)
    <2>1. active = Registry!FlattenSeq([n \in DOMAIN R!RuleIds |->
                      IF R!StageOf[R!RuleIds[n]] = stage /\ R!RuleIds[n] \notin disabled
                      THEN Registry!Kept(rules, {R!RuleIds[n]}) ELSE << >>])
      BY Zenon DEF Registry!ActiveRules
    <2>2. active = Registry!FlattenSeq(part)  BY <1>0, <2>1, RuleIdsAre
    <2>3. QED BY <2>2, SameHelpers
  <1>2. rules \in Seq(RuleId) /\ IsInjective(rules)  BY DEF RegistryInv
  <1>3. ASSUME NEW id
        PROVE  /\ copies(id) \in Seq(RuleId) /\ IsInjective(copies(id))
               /\ \A j \in DOMAIN copies(id) : copies(id)[j] = id
               /\ id \in Range(rules) /\ R!StageOf[id] = stage /\ id \notin disabled => DOMAIN copies(id) # {}
               /\ DOMAIN copies(id) # {} => id \in Range(rules) /\ R!StageOf[id] = stage /\ id \notin disabled
    <2> DEFINE kept == Kept(rules, {id})
    <2>1. kept \in Seq(RuleId) /\ IsInjective(kept) /\ Range(kept) = Range(rules) \cap {id}
      BY <1>2, KeptIs, KeptOnce
    <2> HIDE DEF kept
    <2>2. << >> \in Seq(RuleId) /\ IsInjective(<< >>) /\ DOMAIN << >> = {}
      BY DEF IsInjective
    <2>3. /\ \A j \in DOMAIN kept : kept[j] = id
          /\ id \in Range(rules) => DOMAIN kept # {}
          /\ DOMAIN kept # {} => id \in Range(rules)
      BY <2>1 DEF Range
    <2>4. CASE R!StageOf[id] = stage /\ id \notin disabled
      BY <2>1, <2>3, <2>4 DEF kept
    <2>5. CASE ~(R!StageOf[id] = stage /\ id \notin disabled)  BY <2>2, <2>5
    <2>6. QED BY <2>4, <2>5
  <1> HIDE DEF copies
  <1>4. part \in Seq(Seq(RuleId)) /\ Len(part) = 5  BY <1>3
  <1>5. /\ \A n \in 1 .. 5 : part[n] = copies(R!RuleIds[n])
        /\ \A m, n \in 1 .. 5 : R!RuleIds[m] = R!RuleIds[n] => m = n
        /\ \A r \in RuleId : \E n \in 1 .. 5 : r = R!RuleIds[n]
    BY RuleIdsAre DEF IsInjective
  <1> HIDE DEF part
  <1>6. active \in Seq(RuleId) /\ Flat(active, part, 5)
    BY <1>1, <1>4, FlattenIs
  <1>7. PICK from : From(from, active, part, 5)  BY <1>6 DEF Flat
  <1> HIDE DEF active
  <1>8. ASSUME NEW k \in DOMAIN active
        PROVE  \E n \in 1 .. 5 : \E j \in DOMAIN copies(R!RuleIds[n]) : from[k] = << n, j >> /\ active[k] = R!RuleIds[n]
    <2>1. PICK n \in 1 .. 5 : \E j \in DOMAIN part[n] : from[k] = << n, j >> /\ active[k] = part[n][j]
      BY <1>7 DEF From
    <2>2. QED BY <1>3, <1>5, <2>1
  <1>9. IsInjective(active)
    <2> SUFFICES ASSUME NEW k \in DOMAIN active, NEW l \in DOMAIN active, active[k] = active[l], k # l PROVE FALSE
      BY DEF IsInjective
    <2>1. PICK m \in 1 .. 5 : \E j \in DOMAIN copies(R!RuleIds[m]) : from[k] = << m, j >> /\ active[k] = R!RuleIds[m]
      BY <1>8
    <2>2. PICK n \in 1 .. 5 : \E j \in DOMAIN copies(R!RuleIds[n]) : from[l] = << n, j >> /\ active[l] = R!RuleIds[n]
      BY <1>8
    <2>3. PICK i \in DOMAIN copies(R!RuleIds[m]) : from[k] = << m, i >>
      BY <2>1
    <2>4. PICK j \in DOMAIN copies(R!RuleIds[n]) : from[l] = << n, j >>
      BY <2>2
    <2>5. m = n  BY <1>5, <2>1, <2>2
    <2>6. i = j
      <3>1. /\ copies(R!RuleIds[m])[i] = copies(R!RuleIds[m])[j] /\ j \in DOMAIN copies(R!RuleIds[m])
            /\ IsInjective(copies(R!RuleIds[m]))
        BY <1>3, <2>5
      <3>2. QED BY <3>1 DEF IsInjective
    <2>7. from[k] # from[l]  BY <1>7 DEF From
    <2>8. QED BY <2>3, <2>4, <2>5, <2>6, <2>7
  <1>10. ASSUME NEW r PROVE r \in Range(active) <=> r \in Range(rules) /\ R!StageOf[r] = stage /\ r \notin disabled
    <2>1. ASSUME r \in Range(active) PROVE r \in Range(rules) /\ R!StageOf[r] = stage /\ r \notin disabled
      <3>1. PICK k \in DOMAIN active : active[k] = r  BY <2>1 DEF Range
      <3>2. QED BY <1>3, <1>8, <3>1
    <2>2. ASSUME r \in Range(rules), R!StageOf[r] = stage, r \notin disabled PROVE r \in Range(active)
      <3>1. r \in RuleId  BY <1>2, <2>2, ItsRange
      <3>2. PICK n \in 1 .. 5 : r = R!RuleIds[n]  BY <1>5, <3>1
      <3>3. PICK j \in DOMAIN part[n] : TRUE  BY <1>3, <1>5, <2>2, <3>2
      <3>4. PICK k \in DOMAIN active : from[k] = << n, j >>  BY <1>7 DEF From
      <3>5. active[k] = r  BY <1>8, <3>2, <3>4
      <3>6. QED BY <3>5 DEF Range
    <2>3. QED BY <2>1, <2>2
  <1>11. QED BY <1>6, <1>9, <1>10 DEF active

-----------------------------------------------------------------------------
(* The rules: what each makes is a finite sequence of findings of a kind.  *)
LEMMA SetToSeqIs ==
  ASSUME NEW S, IsFiniteSet(S)
  PROVE  SetToSeq(S) \in Seq(S) /\ Range(SetToSeq(S)) = S /\ IsInjective(SetToSeq(S))
  <1>1. PICK C \in Nat : C = Cardinality(S) /\ ExistsBijection(1 .. C, S)
    BY FS_CardinalityType
  <1>2. \E f \in [1 .. C -> S] : IsInjective(f)
    BY <1>1 DEF ExistsBijection, Bijection, Injection
  <1> DEFINE s == SetToSeq(S)
  <1>3. s \in [1 .. C -> S] /\ IsInjective(s)  BY <1>1, <1>2 DEF SetToSeq
  <1> HIDE DEF s
  <1>4. s \in Surjection(1 .. C, S)
    <2>1. s \in Injection(1 .. C, S)  BY <1>3 DEF Injection
    <2>2. Cardinality(1 .. C) = C  BY FS_Interval
    <2>3. QED BY <1>1, <2>1, <2>2, FS_Injection
  <1>5. Range(s) = S  BY <1>3, <1>4 DEF Surjection, Range
  <1>6. s \in Seq(S)  BY <1>3
  <1>7. QED BY <1>3, <1>5, <1>6 DEF s

LEMMA FiniteImage ==
  ASSUME NEW T, IsFiniteSet(T), NEW f
  PROVE  IsFiniteSet({f[t] : t \in T})
  <1> DEFINE S == {f[t] : t \in T}
             g == [t \in T |-> f[t]]
  <1>1. g \in Surjection(T, S)  BY DEF Surjection
  <1>2. QED BY <1>1, FS_Surjection

LEMMA GraphSize ==
  ASSUME NEW graph, IsGraph(graph)
  PROVE  \E N \in Nat, M \in Nat : /\ DOMAIN graph.obs = 1 .. N /\ DOMAIN graph.edges = 1 .. M
                                   /\ \A n \in 1 .. N : graph.obs[n] \in GraphType
                                   /\ \A b \in 1 .. M : graph.edges[b] \in Nat \X Nat
  <1>1. PICK N \in Nat : N = Len(graph.obs)  BY DEF IsGraph
  <1>2. PICK M \in Nat : M = Len(graph.edges)  BY DEF IsGraph
  <1>3. QED BY <1>1, <1>2 DEF IsGraph

LEMMA FiniteFlows ==
  ASSUME NEW graph, IsGraph(graph), NEW f
  PROVE  IsFiniteSet({f[t] : t \in R!FirstFlows(graph, R!Flows(graph))})
  <1>1. PICK N \in Nat : DOMAIN graph.obs = 1 .. N  BY GraphSize
  <1> DEFINE D == (1 .. N) \X (1 .. N)
             T == (1 .. N) \X (1 .. N) \X (1 .. N)
             first == R!FirstFlows(graph, R!Flows(graph))
  <1>2. IsFiniteSet(1 .. N)  BY FS_Interval
  <1>3. IsFiniteSet((1 .. N) \X D)  BY <1>2, FS_Product
  <1>4. IsFiniteSet(T)
    <2> DEFINE g == [u \in (1 .. N) \X D |-> << u[1], u[2][1], u[2][2] >>]
    <2>1. \A a, b, c \in 1 .. N : << a, << b, c >> >> \in (1 .. N) \X D /\ g[<< a, << b, c >> >>] = << a, b, c >>
      OBVIOUS
    <2>2. {g[u] : u \in (1 .. N) \X D} = T
      <3>1. ASSUME NEW t \in T PROVE \E u \in (1 .. N) \X D : t = g[u]
        <4>1. PICK a \in 1 .. N, b \in 1 .. N, c \in 1 .. N : t = << a, b, c >>
          OBVIOUS
        <4>2. << a, << b, c >> >> \in (1 .. N) \X D /\ t = g[<< a, << b, c >> >>]
          BY <2>1, <4>1
        <4> HIDE DEF g, D
        <4>3. QED BY <4>2
      <3>2. \A u \in (1 .. N) \X D : g[u] \in T
        OBVIOUS
      <3> HIDE DEF g, D, T
      <3>3. QED BY <3>1, <3>2
    <2> HIDE DEF g, D
    <2>3. QED BY <1>3, <2>2, FiniteImage
  <1>5. first \subseteq T  BY <1>1 DEF R!FirstFlows, R!Flows, R!Carriers
  <1>6. IsFiniteSet(first)  BY <1>4, <1>5, FS_Subset
  <1> HIDE DEF first
  <1>7. IsFiniteSet({f[t] : t \in first})  BY <1>6, FiniteImage
  <1>8. QED BY <1>7 DEF first

LEMMA PathsAreFinite ==
  ASSUME NEW B, IsFiniteSet(B), NEW next, DOMAIN next = B
  PROVE  IsFiniteSet(R!Paths(next))
  <1>1. PICK C \in Nat : C = Cardinality(B)  BY FS_CardinalityType
  <1> DEFINE P == R!Paths(next)
             T == SUBSET ((1 .. C) \X B)
             h == [path \in P |-> {<< k, path[k] >> : k \in DOMAIN path}]
  <1>2. IsFiniteSet(T)
    <2>1. IsFiniteSet(1 .. C)  BY FS_Interval
    <2>2. IsFiniteSet((1 .. C) \X B)  BY <2>1, FS_Product
    <2>3. QED BY <2>2, FS_SUBSET
  <1>3. ASSUME NEW path \in P PROVE \E n \in 1 .. C : path \in [1 .. n -> B]
    <2>1. R!Cardinality(B) = C  BY <1>1, SameHelpers
    <2>2. path \in UNION {[1 .. n -> DOMAIN next] : n \in 1 .. R!Cardinality(DOMAIN next)}
      BY DEF R!Paths
    <2>3. QED BY <2>1, <2>2
  <1> HIDE DEF P
  <1>4. \A path \in P : h[path] \in T
    <2> SUFFICES ASSUME NEW path \in P PROVE h[path] \in T
      OBVIOUS
    <2>1. PICK n \in 1 .. C : path \in [1 .. n -> B]  BY <1>3
    <2>2. \A k \in DOMAIN path : << k, path[k] >> \in (1 .. C) \X B  BY <2>1
    <2>3. QED BY <2>2
  <1>5. \A p, q \in P : h[p] = h[q] => p = q
    <2> SUFFICES ASSUME NEW p \in P, NEW q \in P, h[p] = h[q] PROVE p = q
      OBVIOUS
    <2>1. PICK m \in 1 .. C : p \in [1 .. m -> B]  BY <1>3
    <2>2. PICK n \in 1 .. C : q \in [1 .. n -> B]  BY <1>3
    <2>3. \A k \in 1 .. m : k \in 1 .. n /\ q[k] = p[k]
      <3> SUFFICES ASSUME NEW k \in 1 .. m PROVE k \in 1 .. n /\ q[k] = p[k]
        OBVIOUS
      <3>1. << k, p[k] >> \in h[p]  BY <2>1
      <3>2. PICK l \in DOMAIN q : << k, p[k] >> = << l, q[l] >>  BY <3>1
      <3>3. QED BY <2>2, <3>2
    <2>4. \A k \in 1 .. n : k \in 1 .. m
      <3> SUFFICES ASSUME NEW k \in 1 .. n PROVE k \in 1 .. m
        OBVIOUS
      <3>1. << k, q[k] >> \in h[q]  BY <2>2
      <3>2. PICK l \in DOMAIN p : << k, q[k] >> = << l, p[l] >>  BY <3>1
      <3>3. QED BY <2>1, <3>2
    <2>5. m = n
      <3>1. m \in 1 .. n /\ n \in 1 .. m  BY <2>3, <2>4
      <3>2. QED BY <3>1
    <2>6. QED BY <2>1, <2>2, <2>3, <2>5
  <1>6. h \in Injection(P, T)  BY <1>4, <1>5 DEF Injection, IsInjective
  <1>7. IsFiniteSet(P)  BY <1>2, <1>6, FS_Injection
  <1>8. QED BY <1>7 DEF P

LEMMA ChainsAreFinite ==
  ASSUME NEW graph, IsGraph(graph)
  PROVE  IsFiniteSet(R!Boundaries(graph)) /\ IsFiniteSet(Chains(graph))
  <1>1. PICK M \in Nat : DOMAIN graph.edges = 1 .. M  BY GraphSize
  <1> DEFINE B == R!Boundaries(graph)
             next == R!Successors(graph, B)
  <1>2. IsFiniteSet(B)
    <2>1. B \subseteq 1 .. M  BY <1>1 DEF R!Boundaries
    <2> HIDE DEF B
    <2>2. IsFiniteSet(1 .. M)  BY FS_Interval
    <2>3. QED BY <2>1, <2>2, FS_Subset
  <1> HIDE DEF B
  <1>3. DOMAIN next = B  BY DEF R!Successors
  <1> HIDE DEF next
  <1>4. R!MaximalPaths(next) \subseteq R!Paths(next)  BY DEF R!MaximalPaths
  <1>5. IsFiniteSet(R!MaximalPaths(next))
    BY <1>2, <1>3, <1>4, PathsAreFinite, FS_Subset
  <1>6. QED BY <1>2, <1>5 DEF B, next, Chains

LEMMA ChainsAre ==
  ASSUME NEW graph, IsGraph(graph), NEW previous
  PROVE  LET s == R!ChainFindings(graph, previous)
         IN /\ s \in Seq(Range(s)) /\ IsInjective(s)
            /\ Range(s) = {ChainOf(graph, previous, path) : path \in Chains(graph)}
  <1> DEFINE f == [path \in Chains(graph) |-> ChainOf(graph, previous, path)]
             S == {f[path] : path \in Chains(graph)}
  <1>1. IsFiniteSet(S)  BY ChainsAreFinite, FiniteImage
  <1>2. S = {ChainOf(graph, previous, path) : path \in Chains(graph)}
    OBVIOUS
  <1> HIDE DEF S, f
  <1>3. R!ChainFindings(graph, previous) = R!SetToSeq({ChainOf(graph, previous, path) : path \in Chains(graph)})
    BY Zenon DEF R!ChainFindings, ChainOf, Chains, Along
  <1>4. R!ChainFindings(graph, previous) = SetToSeq(S)
    BY <1>2, <1>3, SameHelpers
  <1>5. QED BY <1>1, <1>2, <1>4, SetToSeqIs

-----------------------------------------------------------------------------
(* What each of the rules makes.                                           *)
LEMMA PickedMade ==
  ASSUME NEW s, NEW N \in Nat, NEW fits, NEW make, Picked(s, N, fits, make), NEW kind,
         \A n \in 1 .. N : IsFinding(make[n]) /\ make[n].kind = kind
  PROVE  Made(s, kind)
  <1>1. s \in Seq(Range(s)) /\ Range(s) = {make[n] : n \in 1 .. N \cap fits}
    BY DEF Picked
  <1>2. ASSUME NEW f \in Range(s) PROVE IsFinding(f) /\ f.kind = kind
    <2>1. PICK n \in 1 .. N \cap fits : f = make[n]  BY <1>1, <1>2
    <2>2. n \in 1 .. N  BY <2>1
    <2>3. QED BY <2>1, <2>2
  <1>3. QED BY <1>1, <1>2 DEF Made

LEMMA PresencesAre ==
  ASSUME NEW graph, IsGraph(graph)
  PROVE  LET s == R!PresenceFindings(graph) IN
         /\ Made(s, "sensitive_data_presence")
         /\ \E N \in Nat : /\ DOMAIN graph.obs = 1 .. N
                           /\ Picked(s, N, {n \in 1 .. N : R!IsPresence(graph.obs[n])}, [n \in 1 .. N |-> PresenceOn(graph, n)])
  <1>1. PICK N \in Nat : DOMAIN graph.obs = 1 .. N  BY GraphSize
  <1> DEFINE s == R!PresenceFindings(graph)
             fits == {n \in 1 .. N : R!IsPresence(graph.obs[n])}
             make == [n \in 1 .. N |-> PresenceOn(graph, n)]
  <1>2. s = FlattenSeq([n \in 1 .. N |-> IF n \in fits THEN << make[n] >> ELSE << >>])
    <2>1. s = R!FlattenSeq([n \in DOMAIN graph.obs |->
                              IF R!IsPresence(graph.obs[n]) THEN << PresenceOn(graph, n) >> ELSE << >>])
      BY Zenon DEF R!PresenceFindings, R!OnePerObservation, PresenceOn
    <2> HIDE DEF s
    <2>2. [n \in DOMAIN graph.obs |-> IF R!IsPresence(graph.obs[n]) THEN << PresenceOn(graph, n) >> ELSE << >>]
          = [n \in 1 .. N |-> IF n \in fits THEN << make[n] >> ELSE << >>]
      BY <1>1
    <2>3. QED BY <2>1, <2>2, SameHelpers
  <1> HIDE DEF s
  <1>3. \A n \in 1 .. N : IsFinding(make[n]) /\ make[n].kind = "sensitive_data_presence"
    BY DEF IsFinding, R!Finding, PresenceOn
  <1> HIDE DEF make, fits
  <1>4. Picked(s, N, fits, make)  BY <1>2, PickedIs
  <1>5. Made(s, "sensitive_data_presence")  BY <1>3, <1>4, PickedMade
  <1>6. QED BY <1>1, <1>4, <1>5 DEF s, make, fits

LEMMA AccessesAre ==
  ASSUME NEW graph, IsGraph(graph)
  PROVE  LET s == R!FileAccessFindings(graph) IN
         /\ Made(s, "sensitive_resource_access")
         /\ \E N \in Nat : /\ DOMAIN graph.obs = 1 .. N
                           /\ Picked(s, N, {n \in 1 .. N : R!IsSensitiveOpen(graph.obs[n])}, [n \in 1 .. N |-> AccessOn(graph, n)])
  <1>1. PICK N \in Nat : DOMAIN graph.obs = 1 .. N  BY GraphSize
  <1> DEFINE s == R!FileAccessFindings(graph)
             fits == {n \in 1 .. N : R!IsSensitiveOpen(graph.obs[n])}
             make == [n \in 1 .. N |-> AccessOn(graph, n)]
  <1>2. s = FlattenSeq([n \in 1 .. N |-> IF n \in fits THEN << make[n] >> ELSE << >>])
    <2>1. s = R!FlattenSeq([n \in DOMAIN graph.obs |->
                              IF R!IsSensitiveOpen(graph.obs[n]) THEN << AccessOn(graph, n) >> ELSE << >>])
      BY Zenon DEF R!FileAccessFindings, R!OnePerObservation, AccessOn
    <2> HIDE DEF s
    <2>2. [n \in DOMAIN graph.obs |-> IF R!IsSensitiveOpen(graph.obs[n]) THEN << AccessOn(graph, n) >> ELSE << >>]
          = [n \in 1 .. N |-> IF n \in fits THEN << make[n] >> ELSE << >>]
      BY <1>1
    <2>3. QED BY <2>1, <2>2, SameHelpers
  <1> HIDE DEF s
  <1>3. \A n \in 1 .. N : IsFinding(make[n]) /\ make[n].kind = "sensitive_resource_access"
    BY DEF IsFinding, R!Finding, AccessOn
  <1> HIDE DEF make, fits
  <1>4. Picked(s, N, fits, make)  BY <1>2, PickedIs
  <1>5. Made(s, "sensitive_resource_access")  BY <1>3, <1>4, PickedMade
  <1>6. QED BY <1>1, <1>4, <1>5 DEF s, make, fits

LEMMA ConnectionsAre ==
  ASSUME NEW graph, IsGraph(graph)
  PROVE  LET s == R!NetworkFindings(graph) IN
         /\ Made(s, "suspicious_network_connection")
         /\ \E N \in Nat : /\ DOMAIN graph.obs = 1 .. N
                           /\ Picked(s, N, {n \in 1 .. N : R!IsSensitiveConnect(graph.obs[n])}, [n \in 1 .. N |-> ConnectionOn(graph, n)])
  <1>1. PICK N \in Nat : DOMAIN graph.obs = 1 .. N  BY GraphSize
  <1> DEFINE s == R!NetworkFindings(graph)
             fits == {n \in 1 .. N : R!IsSensitiveConnect(graph.obs[n])}
             make == [n \in 1 .. N |-> ConnectionOn(graph, n)]
  <1>2. s = FlattenSeq([n \in 1 .. N |-> IF n \in fits THEN << make[n] >> ELSE << >>])
    <2>1. s = R!FlattenSeq([n \in DOMAIN graph.obs |->
                              IF R!IsSensitiveConnect(graph.obs[n]) THEN << ConnectionOn(graph, n) >> ELSE << >>])
      BY Zenon DEF R!NetworkFindings, R!OnePerObservation, ConnectionOn
    <2> HIDE DEF s
    <2>2. [n \in DOMAIN graph.obs |-> IF R!IsSensitiveConnect(graph.obs[n]) THEN << ConnectionOn(graph, n) >> ELSE << >>]
          = [n \in 1 .. N |-> IF n \in fits THEN << make[n] >> ELSE << >>]
      BY <1>1
    <2>3. QED BY <2>1, <2>2, SameHelpers
  <1> HIDE DEF s
  <1>3. \A n \in 1 .. N : IsFinding(make[n]) /\ make[n].kind = "suspicious_network_connection"
    BY DEF IsFinding, R!Finding, ConnectionOn
  <1> HIDE DEF make, fits
  <1>4. Picked(s, N, fits, make)  BY <1>2, PickedIs
  <1>5. Made(s, "suspicious_network_connection")  BY <1>3, <1>4, PickedMade
  <1>6. QED BY <1>1, <1>4, <1>5 DEF s, make, fits

LEMMA FlowsAre ==
  ASSUME NEW graph, IsGraph(graph), NEW previous
  PROVE  LET s == R!FlowFindings(graph, previous)
         IN /\ Made(s, "sensitive_data_flow") /\ IsInjective(s)
            /\ Range(s) = {FlowOf(graph, previous, t) : t \in FirstFlow(graph)}
  <1> DEFINE f == [t \in FirstFlow(graph) |-> FlowOf(graph, previous, t)]
             S == {f[t] : t \in FirstFlow(graph)}
             s == R!FlowFindings(graph, previous)
  <1>1. IsFiniteSet(S)  BY FiniteFlows DEF FirstFlow
  <1>2. S = {FlowOf(graph, previous, t) : t \in FirstFlow(graph)}
    OBVIOUS
  <1> HIDE DEF S, f
  <1>3. s = R!SetToSeq({FlowOf(graph, previous, t) : t \in FirstFlow(graph)})
    BY Zenon DEF R!FlowFindings, FlowOf, FirstFlow
  <1> HIDE DEF s
  <1>4. s = SetToSeq(S)  BY <1>2, <1>3, SameHelpers
  <1>5. s \in Seq(S) /\ Range(s) = S /\ IsInjective(s)
    BY <1>1, <1>4, SetToSeqIs
  <1>6. \A t : IsFinding(FlowOf(graph, previous, t)) /\ FlowOf(graph, previous, t).kind = "sensitive_data_flow"
    BY DEF IsFinding, R!Finding, FlowOf, R!FlowFinding
  <1>7. Made(s, "sensitive_data_flow")  BY <1>2, <1>5, <1>6 DEF Made
  <1>8. QED BY <1>2, <1>5, <1>7 DEF s

LEMMA ChainsMade ==
  ASSUME NEW graph, IsGraph(graph), NEW previous
  PROVE  Made(R!ChainFindings(graph, previous), "sensitive_value_cross_process_pipe_chain")
  <1>1. \A path : /\ IsFinding(ChainOf(graph, previous, path))
                  /\ ChainOf(graph, previous, path).kind = "sensitive_value_cross_process_pipe_chain"
    BY DEF IsFinding, R!Finding, ChainOf, R!ChainFinding
  <1>2. QED BY <1>1, ChainsAre DEF Made

LEMMA RulesMake ==
  ASSUME NEW graph, IsGraph(graph), NEW previous
  PROVE  /\ \A rule \in RuleId : Made(R!RuleFindings(rule, graph, previous), KindOf(rule))
         /\ R!RuleFindings(R!RuleIds[1], graph, previous) = R!NetworkFindings(graph)
         /\ R!RuleFindings(R!RuleIds[2], graph, previous) = R!FlowFindings(graph, previous)
         /\ R!RuleFindings(R!RuleIds[3], graph, previous) = R!PresenceFindings(graph)
         /\ R!RuleFindings(R!RuleIds[4], graph, previous) = R!FileAccessFindings(graph)
         /\ R!RuleFindings(R!RuleIds[5], graph, previous) = R!ChainFindings(graph, previous)
  <1> DEFINE r == R!RuleIds
  <1>1. /\ r[1] # r[2] /\ r[1] # r[3] /\ r[1] # r[4] /\ r[1] # r[5] /\ r[2] # r[3] /\ r[2] # r[4] /\ r[2] # r[5]
        /\ r[3] # r[4] /\ r[3] # r[5] /\ r[4] # r[5]
    BY DEF R!RuleIds
  <1> HIDE DEF r
  <1>2. /\ R!RuleFindings(r[1], graph, previous) = R!NetworkFindings(graph)
        /\ R!RuleFindings(r[2], graph, previous) = R!FlowFindings(graph, previous)
        /\ R!RuleFindings(r[3], graph, previous) = R!PresenceFindings(graph)
        /\ R!RuleFindings(r[4], graph, previous) = R!FileAccessFindings(graph)
        /\ R!RuleFindings(r[5], graph, previous) = R!ChainFindings(graph, previous)
    BY <1>1 DEF R!RuleFindings, r
  <1>3. /\ KindOf(r[1]) = "suspicious_network_connection"
        /\ KindOf(r[2]) = "sensitive_data_flow"
        /\ KindOf(r[3]) = "sensitive_data_presence"
        /\ KindOf(r[4]) = "sensitive_resource_access"
        /\ KindOf(r[5]) = "sensitive_value_cross_process_pipe_chain"
    BY <1>1 DEF KindOf, r
  <1>4. \A rule \in RuleId : rule \in {r[1], r[2], r[3], r[4], r[5]}
    BY RuleIdsAre DEF r
  <1>5. \A rule \in {r[1], r[2], r[3], r[4], r[5]} : Made(R!RuleFindings(rule, graph, previous), KindOf(rule))
    BY <1>2, <1>3, PresencesAre, AccessesAre, ConnectionsAre, FlowsAre, ChainsMade
  <1>6. QED BY <1>2, <1>4, <1>5 DEF r

-----------------------------------------------------------------------------
(* What a stage adds to the findings so far.                               *)
LEMMA RenamedIs ==
  ASSUME NEW f, IsFinding(f), NEW rule
  PROVE  Labelled([f EXCEPT !.rule = rule], f, rule)
  BY NamedFinding DEF Labelled

LEMMA RenumberedIs ==
  ASSUME NEW f, NEW rule, NEW g, Labelled(g, f, rule), NEW id
  PROVE  Copied([g EXCEPT !.id = id], f, rule, id)
  <1> DEFINE h == [g EXCEPT !.id = id]
  <1>1. IsFinding(g)  BY DEF Labelled
  <1>2. /\ IsFinding(h) /\ h.id = id
        /\ h.rule = g.rule /\ h.kind = g.kind /\ h.severity = g.severity /\ h.value = g.value
        /\ h.source = g.source /\ h.destination = g.destination /\ h.outcome = g.outcome
        /\ h.sessions = g.sessions /\ h.edges = g.edges /\ h.evidence = g.evidence /\ h.support = g.support
    BY <1>1, NumberedFinding
  <1> HIDE DEF h
  <1>3. Copied(h, f, rule, id)  BY <1>2 DEF Labelled, Copied
  <1>4. QED BY <1>3 DEF h

LEMMA StageIs ==
  ASSUME NEW graph, IsGraph(graph), NEW which \in Seq(RuleId), NEW P, NEW previous \in Seq(P)
  PROVE  Staged(R!RunStage(which, graph, previous), which, graph, previous)
  <1>1. PICK L \in Nat : L = Len(previous) /\ DOMAIN previous = 1 .. L
    OBVIOUS
  <1>2. PICK W \in Nat : W = Len(which) /\ DOMAIN which = 1 .. W /\ \A i \in 1 .. W : which[i] \in RuleId
    OBVIOUS
  <1> DEFINE made(i) == R!RuleFindings(which[i], graph, previous)
             part == [i \in 1 .. W |-> R!Named(which[i], made(i))]
             stage == R!StageFindings(which, graph, previous)
             numbered == R!Numbered(stage, Len(previous) + 1)
             all == R!RunStage(which, graph, previous)
  <1>14. all = previous \o numbered  BY Zenon DEF R!RunStage
  <1>3. \A i \in 1 .. W : Made(made(i), KindOf(which[i]))  BY <1>2, RulesMake
  <1>4. stage = FlattenSeq(part)
    <2>1. stage = R!FlattenSeq([i \in DOMAIN which |-> R!Named(which[i], made(i))])
      BY Zenon DEF R!StageFindings
    <2> HIDE DEF stage
    <2>2. QED BY <1>2, <2>1, SameHelpers
  <1> HIDE DEF made
  <1>5. \A i \in 1 .. W : part[i] = [j \in DOMAIN made(i) |-> [made(i)[j] EXCEPT !.rule = which[i]]]
    BY DEF R!Named
  <1> DEFINE S == UNION {Range(part[i]) : i \in 1 .. W}
  <1>6. \A i \in 1 .. W : part[i] \in Seq(S)
    <2> SUFFICES ASSUME NEW i \in 1 .. W PROVE part[i] \in Seq(S)
      OBVIOUS
    <2>1. PICK N \in Nat : DOMAIN made(i) = 1 .. N
      <3>1. made(i) \in Seq(Range(made(i)))  BY <1>3 DEF Made
      <3>2. Len(made(i)) \in Nat /\ DOMAIN made(i) = 1 .. Len(made(i))
        BY <3>1
      <3>3. QED BY <3>2
    <2>2. DOMAIN part[i] = 1 .. N /\ part[i] = [j \in 1 .. N |-> part[i][j]]
      BY <1>5, <2>1
    <2> HIDE DEF part
    <2>3. \A j \in 1 .. N : part[i][j] \in S  BY <2>2 DEF Range
    <2> HIDE DEF S
    <2>4. QED BY <2>2, <2>3
  <1> HIDE DEF S
  <1>7. part \in Seq(Seq(S)) /\ Len(part) = W
    <2>1. part = [i \in 1 .. W |-> part[i]]
      OBVIOUS
    <2> HIDE DEF part
    <2>2. part \in [1 .. W -> Seq(S)]  BY <1>6, <2>1
    <2>3. QED BY <2>2
  <1>8. \A i \in 1 .. W : \A j \in DOMAIN made(i) : Labelled(part[i][j], made(i)[j], which[i])
    <2> SUFFICES ASSUME NEW i \in 1 .. W, NEW j \in DOMAIN made(i)
                 PROVE  Labelled(part[i][j], made(i)[j], which[i])
      OBVIOUS
    <2>1. IsFinding(made(i)[j])  BY <1>3 DEF Made, Range
    <2>2. part[i][j] = [made(i)[j] EXCEPT !.rule = which[i]]  BY <1>5
    <2> HIDE DEF part
    <2>3. QED BY <2>1, <2>2, RenamedIs
  <1>9. \A i \in 1 .. W : DOMAIN part[i] = DOMAIN made(i)  BY <1>5
  <1> HIDE DEF part
  <1>10. stage \in Seq(S) /\ Flat(stage, part, W)  BY <1>4, <1>7, FlattenIs
  <1>11. PICK at : From(at, stage, part, W)  BY <1>10 DEF Flat
  <1> HIDE DEF stage
  <1>12. PICK N \in Nat : DOMAIN stage = 1 .. N
    <2>1. Len(stage) \in Nat /\ DOMAIN stage = 1 .. Len(stage)  BY <1>10
    <2>2. QED BY <2>1
  <1>13. numbered = [k \in 1 .. N |-> [stage[k] EXCEPT !.id = L + 1 + k - 1]]
    BY <1>1, <1>12 DEF R!Numbered
  <1> HIDE DEF all, numbered
  <1>15. /\ DOMAIN all = 1 .. L + N
         /\ \A k \in 1 .. L : all[k] = previous[k]
         /\ \A k \in 1 .. N : all[L + k] = [stage[k] EXCEPT !.id = L + k]
    <2> DEFINE T == Range(numbered)
    <2>1. numbered \in Seq(T) /\ DOMAIN numbered = 1 .. N
      <3>1. DOMAIN numbered = 1 .. N /\ numbered = [k \in 1 .. N |-> numbered[k]]
        BY <1>13
      <3>2. \A k \in 1 .. N : numbered[k] \in T  BY <3>1 DEF Range
      <3> HIDE DEF T
      <3>3. QED BY <3>1, <3>2
    <2>2. Len(numbered) = N  BY <2>1
    <2> HIDE DEF T
    <2>3. /\ DOMAIN all = 1 .. L + N
          /\ \A k \in 1 .. L : all[k] = previous[k]
          /\ \A k \in 1 .. N : all[L + k] = numbered[k]
      BY <1>1, <1>14, <2>1, <2>2
    <2>4. \A k \in 1 .. N : L + 1 + k - 1 = L + k
      OBVIOUS
    <2>5. \A k \in 1 .. N : numbered[k] = [stage[k] EXCEPT !.id = L + k]
      BY <1>13, <2>4
    <2>6. QED BY <2>3, <2>5
  <1>16. all \in Seq(Range(all))
    <2> DEFINE T == Range(all)
    <2>1. all = [k \in 1 .. L + N |-> all[k]]
      <3>1. numbered \in Seq(Range(numbered))
        <4> DEFINE U == Range(numbered)
        <4>1. DOMAIN numbered = 1 .. N /\ numbered = [k \in 1 .. N |-> numbered[k]]
          BY <1>13
        <4>2. \A k \in 1 .. N : numbered[k] \in U  BY <4>1 DEF Range
        <4> HIDE DEF U
        <4>3. numbered \in Seq(U)  BY <4>1, <4>2
        <4>4. QED BY <4>3 DEF U
      <3> DEFINE V == Range(numbered) \cup P
      <3>2. numbered \in Seq(V) /\ previous \in Seq(V)  BY <3>1
      <3> HIDE DEF V
      <3>3. all \in Seq(V)  BY <1>14, <3>2
      <3>4. QED BY <1>15, <3>3
    <2>2. \A k \in 1 .. L + N : all[k] \in T  BY <1>15 DEF Range
    <2> HIDE DEF T
    <2>3. all \in Seq(T)
      <3>1. PICK M \in Nat : M = L + N
        OBVIOUS
      <3>2. all \in [1 .. M -> T]  BY <2>1, <2>2, <3>1
      <3>3. QED BY <3>2
    <2>4. QED BY <2>3 DEF T
  <1> DEFINE from == [k \in 1 .. L + N |-> at[k - L]]
  <1>17. \A k \in 1 .. L + N : k \notin 1 .. L => k - L \in 1 .. N /\ L + (k - L) = k /\ from[k] = at[k - L]
    OBVIOUS
  <1>18. \A k \in 1 .. N : L + k \in 1 .. L + N /\ L + k \notin 1 .. L /\ from[L + k] = at[k]
    <2>1. \A k \in 1 .. N : L + k \in 1 .. L + N /\ L + k \notin 1 .. L /\ (L + k) - L = k
      OBVIOUS
    <2>2. QED BY <2>1
  <1> HIDE DEF from
  <1>19. ASSUME NEW k \in 1 .. L + N, k \notin 1 .. L
         PROVE  \E i \in 1 .. W : \E j \in DOMAIN made(i) : from[k] = << i, j >> /\ Copied(all[k], made(i)[j], which[i], k)
    <2>1. PICK n \in 1 .. N : n = k - L /\ L + n = k /\ from[k] = at[n]
      BY <1>17, <1>19
    <2>2. PICK i \in 1 .. W : \E j \in DOMAIN part[i] : at[n] = << i, j >> /\ stage[n] = part[i][j]
      BY <1>11, <1>12 DEF From
    <2>3. PICK j \in DOMAIN part[i] : at[n] = << i, j >> /\ stage[n] = part[i][j]
      BY <2>2
    <2>4. j \in DOMAIN made(i)  BY <1>9, <2>3
    <2>5. all[k] = [part[i][j] EXCEPT !.id = k]  BY <1>15, <2>1, <2>3
    <2>6. Labelled(part[i][j], made(i)[j], which[i])  BY <1>8, <2>4
    <2>7. Copied(all[k], made(i)[j], which[i], k)  BY <2>5, <2>6, RenumberedIs
    <2>8. QED BY <2>1, <2>3, <2>4, <2>7
  <1>20. ASSUME NEW i \in 1 .. W, NEW j \in DOMAIN made(i)
         PROVE  \E k \in 1 .. L + N : k \notin 1 .. L /\ from[k] = << i, j >>
    <2>1. PICK n \in 1 .. N : at[n] = << i, j >>
      BY <1>9, <1>11, <1>12 DEF From
    <2>2. QED BY <1>18, <2>1
  <1>21. ASSUME NEW k \in 1 .. L + N, NEW l \in 1 .. L + N, k \notin 1 .. L, l \notin 1 .. L, k # l
         PROVE  from[k] # from[l]
    <2>1. PICK m \in 1 .. N : L + m = k /\ from[k] = at[m]  BY <1>17, <1>21
    <2>2. PICK n \in 1 .. N : L + n = l /\ from[l] = at[n]  BY <1>17, <1>21
    <2>3. m # n  BY <1>21, <2>1, <2>2
    <2>4. QED BY <1>11, <1>12, <2>1, <2>2, <2>3 DEF From
  <1>22. \A k \in 1 .. L : k \in 1 .. L + N
    OBVIOUS
  <1>23. QED
    <2>1. DOMAIN all = 1 .. L + N /\ DOMAIN previous = 1 .. L /\ DOMAIN which = 1 .. W
      BY <1>1, <1>2, <1>15
    <2>2. \A k \in DOMAIN previous : k \in DOMAIN all /\ all[k] = previous[k]
      BY <1>15, <1>22, <2>1
    <2>3. \A k \in DOMAIN all : k \notin DOMAIN previous =>
            \E i \in DOMAIN which : \E j \in DOMAIN made(i) : from[k] = << i, j >> /\ Copied(all[k], made(i)[j], which[i], k)
      BY <1>19, <2>1
    <2>4. \A i \in DOMAIN which : \A j \in DOMAIN made(i) :
            \E k \in DOMAIN all : k \notin DOMAIN previous /\ from[k] = << i, j >>
      BY <1>20, <2>1
    <2>5. \A k, l \in DOMAIN all : k \notin DOMAIN previous /\ l \notin DOMAIN previous /\ k # l => from[k] # from[l]
      BY <1>21, <2>1
    <2>6. Staged(all, which, graph, previous)
      BY <1>16, <2>2, <2>3, <2>4, <2>5, Zenon DEF Staged, made
    <2>7. QED BY <2>6 DEF all

-----------------------------------------------------------------------------
(* The findings of both stages.                                            *)
LEMMA StageMakes ==
  ASSUME NEW all, NEW which, IsInjective(which), NEW graph, NEW previous, Staged(all, which, graph, previous)
  PROVE  FromStage(all, which, graph, previous)
  <1> DEFINE new == DOMAIN all \ DOMAIN previous
             made(rule) == R!RuleFindings(rule, graph, previous)
  <1>1. PICK from :
          /\ \A k \in DOMAIN all : k \notin DOMAIN previous =>
               \E i \in DOMAIN which : \E j \in DOMAIN made(which[i]) :
                 from[k] = << i, j >> /\ Copied(all[k], made(which[i])[j], which[i], k)
          /\ \A i \in DOMAIN which : \A j \in DOMAIN made(which[i]) :
               \E k \in DOMAIN all : k \notin DOMAIN previous /\ from[k] = << i, j >>
          /\ \A k, l \in DOMAIN all : k \notin DOMAIN previous /\ l \notin DOMAIN previous /\ k # l => from[k] # from[l]
    BY Zenon DEF Staged
  <1>2. /\ all \in Seq(Range(all))
        /\ \A k \in DOMAIN previous : k \in DOMAIN all /\ all[k] = previous[k]
    BY Zenon DEF Staged
  <1> HIDE DEF made
  <1>3. ASSUME NEW k \in new
        PROVE  \E i \in DOMAIN which : \E j \in DOMAIN made(which[i]) :
                 /\ from[k] = << i, j >> /\ all[k].rule = which[i]
                 /\ Copied(all[k], made(which[i])[j], which[i], k)
    <2>1. k \in DOMAIN all /\ k \notin DOMAIN previous  BY <1>3
    <2>2. PICK i \in DOMAIN which : \E j \in DOMAIN made(which[i]) :
                 from[k] = << i, j >> /\ Copied(all[k], made(which[i])[j], which[i], k)
      BY <1>1, <2>1
    <2>3. PICK j \in DOMAIN made(which[i]) :
                 from[k] = << i, j >> /\ Copied(all[k], made(which[i])[j], which[i], k)
      BY <2>2
    <2>4. all[k].rule = which[i]  BY <2>3, Zenon DEF Copied
    <2>5. QED BY <2>3, <2>4
  <1>4. ASSUME NEW k \in new
        PROVE  all[k].rule \in Range(which) /\ \E g \in Range(made(all[k].rule)) : Copied(all[k], g, all[k].rule, k)
    <2>1. PICK i \in DOMAIN which : \E j \in DOMAIN made(which[i]) :
                 /\ from[k] = << i, j >> /\ all[k].rule = which[i]
                 /\ Copied(all[k], made(which[i])[j], which[i], k)
      BY <1>3, <1>4
    <2>2. QED BY <2>1, Zenon DEF Range
  <1>5. ASSUME NEW rule \in Range(which), NEW g \in Range(made(rule))
        PROVE  \E k \in new : Copied(all[k], g, rule, k)
    <2>1. PICK i \in DOMAIN which : rule = which[i]  BY Zenon DEF Range
    <2>2. PICK j \in DOMAIN made(rule) : g = made(rule)[j]  BY Zenon DEF Range
    <2>3. PICK k \in new : from[k] = << i, j >>  BY <1>1, <2>1, <2>2
    <2>4. PICK m \in DOMAIN which : \E n \in DOMAIN made(which[m]) :
                 /\ from[k] = << m, n >> /\ all[k].rule = which[m]
                 /\ Copied(all[k], made(which[m])[n], which[m], k)
      BY <1>3
    <2>5. PICK n \in DOMAIN made(which[m]) :
                 /\ from[k] = << m, n >> /\ all[k].rule = which[m]
                 /\ Copied(all[k], made(which[m])[n], which[m], k)
      BY <2>4
    <2>6. << i, j >> = << m, n >>  BY <2>3, <2>5
    <2>7. m = i /\ n = j  BY <2>6
    <2>8. Copied(all[k], made(which[i])[j], which[i], k)  BY <2>5, <2>7
    <2>9. QED BY <2>1, <2>2, <2>8
  <1>6. ASSUME NEW k \in new, NEW l \in new, k # l, all[k].rule = all[l].rule
        PROVE  \E i, j \in DOMAIN made(all[k].rule) :
                 /\ i # j
                 /\ Copied(all[k], made(all[k].rule)[i], all[k].rule, k)
                 /\ Copied(all[l], made(all[k].rule)[j], all[k].rule, l)
    <2>1. PICK m \in DOMAIN which : \E i \in DOMAIN made(which[m]) :
                 /\ from[k] = << m, i >> /\ all[k].rule = which[m]
                 /\ Copied(all[k], made(which[m])[i], which[m], k)
      BY <1>3
    <2>2. PICK n \in DOMAIN which : \E j \in DOMAIN made(which[n]) :
                 /\ from[l] = << n, j >> /\ all[l].rule = which[n]
                 /\ Copied(all[l], made(which[n])[j], which[n], l)
      BY <1>3
    <2>3. m = n  BY <1>6, <2>1, <2>2 DEF IsInjective
    <2>4. PICK i \in DOMAIN made(which[m]) :
                 /\ from[k] = << m, i >> /\ all[k].rule = which[m]
                 /\ Copied(all[k], made(which[m])[i], which[m], k)
      BY <2>1
    <2>5. PICK j \in DOMAIN made(which[m]) :
                 /\ from[l] = << m, j >> /\ all[l].rule = which[m]
                 /\ Copied(all[l], made(which[m])[j], which[m], l)
      BY <2>2, <2>3
    <2>6. i # j
      <3>1. from[k] # from[l]  BY <1>1, <1>6
      <3>2. QED BY <2>4, <2>5, <3>1
    <2>7. QED BY <2>4, <2>5, <2>6
  <1>7. QED BY <1>2, <1>4, <1>5, <1>6, Zenon DEF FromStage, made

-----------------------------------------------------------------------------
(* The findings of the report, each by its rule.                           *)
LEMMA FinishedIsGraph ==
  ASSUME TraceInv
  PROVE  IsGraph(Finished)
  <1>1. edges \in Seq(Nat \X Nat)  BY DEF TraceInv, TypeInv
  <1>2. QED BY <1>1, GraphIs DEF TraceInv, IsGraph

LEMMA StagesAre ==
  ASSUME TraceInv, RegistryInv
  PROVE  /\ FromStage(Primary, Registry!ActiveRules("Primary"), Finished, << >>)
         /\ FromStage(Findings, Registry!ActiveRules("Composite"), Finished, Primary)
         /\ Primary \in Seq(Range(Primary))
  <1> DEFINE first == Registry!ActiveRules("Primary")
             second == Registry!ActiveRules("Composite")
  <1>1. /\ first \in Seq(RuleId) /\ IsInjective(first)
        /\ second \in Seq(RuleId) /\ IsInjective(second)
    BY ActiveAre
  <1>2. IsGraph(Finished)  BY FinishedIsGraph
  <1>3. Primary = R!RunStage(first, Finished, << >>) /\ Findings = R!RunStage(second, Finished, Primary)
    BY Zenon DEF Primary, Findings, R!Detect
  <1> HIDE DEF first, second
  <1>4. Staged(Primary, first, Finished, << >>)
    <2>1. << >> \in Seq({})
      OBVIOUS
    <2>2. QED BY <1>1, <1>2, <1>3, <2>1, StageIs
  <1>5. FromStage(Primary, first, Finished, << >>)  BY <1>1, <1>4, StageMakes
  <1>6. Primary \in Seq(Range(Primary))  BY <1>5, Zenon DEF FromStage
  <1>7. Staged(Findings, second, Finished, Primary)
    BY <1>1, <1>2, <1>3, <1>6, StageIs
  <1>8. FromStage(Findings, second, Finished, Primary)
    BY <1>1, <1>7, StageMakes
  <1>9. QED BY <1>5, <1>6, <1>8 DEF first, second

(* The rules of a stage, and what they have before them.                   *)
LEMMA StageRules ==
  ASSUME RegistryInv
  PROVE  /\ \A rule : rule \in Range(Registry!ActiveRules("Primary")) <=>
              rule \in RuleId /\ IsActive(rule) /\ R!StageOf[rule] = "Primary"
         /\ \A rule : rule \in Range(Registry!ActiveRules("Composite")) <=>
              rule \in RuleId /\ IsActive(rule) /\ R!StageOf[rule] = "Composite"
         /\ \A rule \in RuleId : R!StageOf[rule] \in {"Primary", "Composite"}
  <1>1. Range(rules) \subseteq RuleId  BY ItsRange DEF RegistryInv
  <1>2. Registry!Registered = Range(rules)
    BY SameHelpers DEF Registry!Registered
  <1>3. \A rule : IsActive(rule) <=> rule \in Range(rules) /\ rule \notin disabled
    BY <1>2 DEF IsActive
  <1>4. \A rule \in RuleId : R!StageOf[rule] \in {"Primary", "Composite"}
    BY RuleIdsAre
  <1>5. \A rule, stage : rule \in Range(Registry!ActiveRules(stage)) <=>
              rule \in RuleId /\ IsActive(rule) /\ R!StageOf[rule] = stage
    <2> TAKE rule, stage
    <2>1. Range(Registry!ActiveRules(stage)) = {r \in Range(rules) : R!StageOf[r] = stage /\ r \notin disabled}
      BY ActiveAre
    <2>2. QED BY <1>1, <1>3, <2>1
  <1>6. QED BY <1>4, <1>5

LEMMA ByRule ==
  ASSUME TraceInv, RegistryInv, NEW f, NEW rule \in RuleId, IsActive(rule), f.rule = rule,
         NEW g \in Range(MadeBy(rule)), Copied(f, g, rule, f.id)
  PROVE  FromRule(f)
  <1>1. Made(MadeBy(rule), KindOf(rule))
    BY RulesMake, FinishedIsGraph DEF MadeBy
  <1>2. g.kind = KindOf(rule)  BY <1>1 DEF Made
  <1>3. IsFinding(f) /\ f.kind = KindOf(f.rule)  BY <1>2, Zenon DEF Copied
  <1>4. QED BY <1>3 DEF FromRule

LEMMA FindingsAreMade ==
  ASSUME TraceInv, RegistryInv
  PROVE  FindingsAre
  <1> DEFINE first == Registry!ActiveRules("Primary")
             second == Registry!ActiveRules("Composite")
             new == DOMAIN Findings \ DOMAIN Primary
  <1>1. /\ FromStage(Primary, first, Finished, << >>)
        /\ FromStage(Findings, second, Finished, Primary)
        /\ Primary \in Seq(Range(Primary))
    BY StagesAre
  <1>2. /\ \A rule : rule \in Range(first) <=> rule \in RuleId /\ IsActive(rule) /\ R!StageOf[rule] = "Primary"
        /\ \A rule : rule \in Range(second) <=> rule \in RuleId /\ IsActive(rule) /\ R!StageOf[rule] = "Composite"
        /\ \A rule \in RuleId : R!StageOf[rule] \in {"Primary", "Composite"}
    BY StageRules
  <1> HIDE DEF first, second
  <1>3. /\ \A rule \in Range(first) : R!RuleFindings(rule, Finished, << >>) = MadeBy(rule)
        /\ \A rule \in Range(second) : R!RuleFindings(rule, Finished, Primary) = MadeBy(rule)
    BY <1>2 DEF MadeBy, Before
  <1>4. /\ \A k \in DOMAIN Primary : Primary[k].rule \in Range(first)
               /\ \E g \in Range(MadeBy(Primary[k].rule)) : Copied(Primary[k], g, Primary[k].rule, k)
        /\ \A rule \in Range(first) : \A g \in Range(MadeBy(rule)) : \E k \in DOMAIN Primary : Copied(Primary[k], g, rule, k)
        /\ \A k, l \in DOMAIN Primary : k # l /\ Primary[k].rule = Primary[l].rule =>
             \E i, j \in DOMAIN MadeBy(Primary[k].rule) :
               /\ i # j
               /\ Copied(Primary[k], MadeBy(Primary[k].rule)[i], Primary[k].rule, k)
               /\ Copied(Primary[l], MadeBy(Primary[k].rule)[j], Primary[k].rule, l)
    <2>1. DOMAIN Primary \ DOMAIN << >> = DOMAIN Primary
      OBVIOUS
    <2>2. /\ \A k \in DOMAIN Primary : Primary[k].rule \in Range(first)
               /\ \E g \in Range(R!RuleFindings(Primary[k].rule, Finished, << >>)) : Copied(Primary[k], g, Primary[k].rule, k)
          /\ \A rule \in Range(first) : \A g \in Range(R!RuleFindings(rule, Finished, << >>)) :
               \E k \in DOMAIN Primary : Copied(Primary[k], g, rule, k)
          /\ \A k, l \in DOMAIN Primary : k # l /\ Primary[k].rule = Primary[l].rule =>
               \E i, j \in DOMAIN R!RuleFindings(Primary[k].rule, Finished, << >>) :
                 /\ i # j
                 /\ Copied(Primary[k], R!RuleFindings(Primary[k].rule, Finished, << >>)[i], Primary[k].rule, k)
                 /\ Copied(Primary[l], R!RuleFindings(Primary[k].rule, Finished, << >>)[j], Primary[k].rule, l)
      <3> USE <1>1, <2>1 DEF FromStage
      <3>1. \A k \in DOMAIN Primary : Primary[k].rule \in Range(first)
               /\ \E g \in Range(R!RuleFindings(Primary[k].rule, Finished, << >>)) : Copied(Primary[k], g, Primary[k].rule, k)
        BY Zenon
      <3>2. \A rule \in Range(first) : \A g \in Range(R!RuleFindings(rule, Finished, << >>)) :
               \E k \in DOMAIN Primary : Copied(Primary[k], g, rule, k)
        BY Zenon
      <3>3. \A k, l \in DOMAIN Primary : k # l /\ Primary[k].rule = Primary[l].rule =>
               \E i, j \in DOMAIN R!RuleFindings(Primary[k].rule, Finished, << >>) :
                 /\ i # j
                 /\ Copied(Primary[k], R!RuleFindings(Primary[k].rule, Finished, << >>)[i], Primary[k].rule, k)
                 /\ Copied(Primary[l], R!RuleFindings(Primary[k].rule, Finished, << >>)[j], Primary[k].rule, l)
        BY Zenon
      <3>4. QED BY <3>1, <3>2, <3>3
    <2>3. \A k \in DOMAIN Primary : R!RuleFindings(Primary[k].rule, Finished, << >>) = MadeBy(Primary[k].rule)
      BY <1>3, <2>2
    <2>4. QED BY <1>3, <2>2, <2>3
  <1>5. /\ \A k \in new : Findings[k].rule \in Range(second)
               /\ \E g \in Range(MadeBy(Findings[k].rule)) : Copied(Findings[k], g, Findings[k].rule, k)
        /\ \A rule \in Range(second) : \A g \in Range(MadeBy(rule)) : \E k \in new : Copied(Findings[k], g, rule, k)
        /\ \A k, l \in new : k # l /\ Findings[k].rule = Findings[l].rule =>
             \E i, j \in DOMAIN MadeBy(Findings[k].rule) :
               /\ i # j
               /\ Copied(Findings[k], MadeBy(Findings[k].rule)[i], Findings[k].rule, k)
               /\ Copied(Findings[l], MadeBy(Findings[k].rule)[j], Findings[k].rule, l)
    <2> DEFINE made(rule) == R!RuleFindings(rule, Finished, Primary)
    <2>2. /\ \A k \in new : Findings[k].rule \in Range(second)
               /\ \E g \in Range(made(Findings[k].rule)) : Copied(Findings[k], g, Findings[k].rule, k)
          /\ \A rule \in Range(second) : \A g \in Range(made(rule)) : \E k \in new : Copied(Findings[k], g, rule, k)
          /\ \A k, l \in new : k # l /\ Findings[k].rule = Findings[l].rule =>
               \E i, j \in DOMAIN made(Findings[k].rule) :
                 /\ i # j
                 /\ Copied(Findings[k], made(Findings[k].rule)[i], Findings[k].rule, k)
                 /\ Copied(Findings[l], made(Findings[k].rule)[j], Findings[k].rule, l)
      BY <1>1, Zenon DEF FromStage
    <2>1. \A rule \in Range(second) : made(rule) = MadeBy(rule)  BY <1>3
    <2> HIDE DEF made, new
    <2>3. \A k \in new : made(Findings[k].rule) = MadeBy(Findings[k].rule)
      BY <2>1, <2>2
    <2>4. QED BY <2>1, <2>2, <2>3
  <1>6. \A k \in DOMAIN Primary : k \in DOMAIN Findings /\ Findings[k] = Primary[k]
    BY <1>1, Zenon DEF FromStage
  <1>7. Findings \in Seq(Range(Findings))  BY <1>1, Zenon DEF FromStage
  <1>8. \A k \in DOMAIN Findings : Findings[k].id = k /\ FromRule(Findings[k])
    <2> TAKE k \in DOMAIN Findings
    <2>1. PICK g \in Range(MadeBy(Findings[k].rule)) : Copied(Findings[k], g, Findings[k].rule, k)
      BY <1>4, <1>5, <1>6
    <2>2. Findings[k].rule \in RuleId /\ IsActive(Findings[k].rule)
      BY <1>2, <1>4, <1>5, <1>6
    <2>3. Findings[k].id = k  BY <2>1, Zenon DEF Copied
    <2>4. QED BY <2>1, <2>2, <2>3, ByRule
  <1>9. ASSUME NEW rule \in RuleId, IsActive(rule), NEW g \in Range(MadeBy(rule))
        PROVE  \E f \in Range(Findings) : Copied(f, g, rule, f.id)
    <2>1. rule \in Range(first) \/ rule \in Range(second)  BY <1>2, <1>9
    <2>2. PICK k \in DOMAIN Findings : Copied(Findings[k], g, rule, k)
      BY <1>4, <1>5, <1>6, <2>1
    <2>3. Findings[k] \in Range(Findings) /\ Findings[k].id = k
      BY <1>8 DEF Range
    <2>4. QED BY <2>2, <2>3
  <1>10. \A k \in DOMAIN Primary : R!StageOf[Primary[k].rule] = "Primary"
    BY <1>2, <1>4
  <1>11. \A k \in DOMAIN Findings : k \notin DOMAIN Primary => R!StageOf[Findings[k].rule] = "Composite"
    BY <1>2, <1>5
  <1>12. ASSUME NEW k \in DOMAIN Findings, NEW l \in DOMAIN Findings, k # l, Findings[k].rule = Findings[l].rule
         PROVE  \E i, j \in DOMAIN MadeBy(Findings[k].rule) :
                  /\ i # j
                  /\ Copied(Findings[k], MadeBy(Findings[k].rule)[i], Findings[k].rule, k)
                  /\ Copied(Findings[l], MadeBy(Findings[k].rule)[j], Findings[k].rule, l)
    <2>1. CASE k \in DOMAIN Primary /\ l \in DOMAIN Primary
      BY <1>4, <1>6, <1>12, <2>1
    <2>2. CASE k \in new /\ l \in new  BY <1>5, <1>12, <2>2
    <2>3. k \in DOMAIN Primary <=> l \in DOMAIN Primary
      BY <1>6, <1>10, <1>11, <1>12
    <2>4. QED BY <2>1, <2>2, <2>3
  <1>13. QED BY <1>1, <1>6, <1>7, <1>8, <1>9, <1>10, <1>11, <1>12 DEF FindingsAre

-----------------------------------------------------------------------------
(* The registry that the findings are made with has no rule twice, whatever*)
(* was registered, replaced, removed, disabled and enabled before.         *)
THEOREM ReportIsKept == Spec => []ReportTrace
  <1>1. Init => ReportTrace
    BY InitTypes, InitTrace, InitEnds, InitPipes, InitRegistry DEF TraceInv, PipeTrace, ReportTrace
  <1>2. ReportTrace /\ [Next]_vars => ReportTrace'
    BY TypesKept, TimeKept, ImageKept, CallKept, DataKept, ReportKept, EndsKept, ValueKept, PipeKept, EdgesKept,
       RegistryKept DEF TraceInv, PipeTrace, ReportTrace
  <1>3. QED BY <1>1, <1>2, PTL DEF Spec

LEMMA KindsDiffer == \A r, s \in RuleId : KindOf(r) = KindOf(s) => r = s
  <1> DEFINE r == R!RuleIds
  <1>1. /\ r[1] # r[2] /\ r[1] # r[3] /\ r[1] # r[4] /\ r[1] # r[5] /\ r[2] # r[3] /\ r[2] # r[4] /\ r[2] # r[5]
        /\ r[3] # r[4] /\ r[3] # r[5] /\ r[4] # r[5]
    BY DEF R!RuleIds
  <1> HIDE DEF r
  <1>2. /\ KindOf(r[1]) = "suspicious_network_connection"
        /\ KindOf(r[2]) = "sensitive_data_flow"
        /\ KindOf(r[3]) = "sensitive_data_presence"
        /\ KindOf(r[4]) = "sensitive_resource_access"
        /\ KindOf(r[5]) = "sensitive_value_cross_process_pipe_chain"
    BY <1>1 DEF KindOf, r
  <1>3. RuleId = {r[1], r[2], r[3], r[4], r[5]}  BY RuleIdsAre DEF r
  <1>4. QED BY <1>2, <1>3

LEMMA KindsAre ==
  /\ KindOf(R!RuleIds[1]) = "suspicious_network_connection"
  /\ KindOf(R!RuleIds[2]) = "sensitive_data_flow"
  /\ KindOf(R!RuleIds[3]) = "sensitive_data_presence"
  /\ KindOf(R!RuleIds[4]) = "sensitive_resource_access"
  /\ KindOf(R!RuleIds[5]) = "sensitive_value_cross_process_pipe_chain"
  BY DEF KindOf, R!RuleIds

LEMMA RuleOfKind ==
  ASSUME FindingsAre, NEW f \in Range(Findings), NEW rule \in RuleId, f.kind = KindOf(rule)
  PROVE  f.rule = rule /\ FromRule(f) /\ \E g \in Range(MadeBy(rule)) : Copied(f, g, rule, f.id)
  <1>1. FromRule(f)
    <2>1. PICK k \in DOMAIN Findings : f = Findings[k]  BY DEF Range
    <2>2. \A l \in DOMAIN Findings : FromRule(Findings[l])
      BY Zenon DEF FindingsAre
    <2>3. QED BY <2>1, <2>2
  <1>2. f.rule = rule  BY <1>1, KindsDiffer DEF FromRule
  <1>3. QED BY <1>1, <1>2 DEF FromRule

LEMMA ChainIs ==
  ASSUME ReportTrace, FindingsAre, NEW f \in Range(Findings), f.kind = "sensitive_value_cross_process_pipe_chain"
  PROVE  \E path : IsChainOf(f, path)
  <1> DEFINE rule == R!RuleIds[5]
  <1>1. rule \in RuleId /\ f.kind = KindOf(rule) /\ R!StageOf[rule] = "Composite"
    BY RuleIdsAre, KindsAre
  <1>2. IsGraph(Finished)  BY FinishedIsGraph DEF ReportTrace, PipeTrace
  <1>3. MadeBy(rule) = R!ChainFindings(Finished, Primary)
    BY <1>1, <1>2, RulesMake DEF MadeBy, Before
  <1>4. f.rule = rule /\ \E g \in Range(MadeBy(rule)) : Copied(f, g, rule, f.id)
    BY <1>1, RuleOfKind
  <1> HIDE DEF rule
  <1>5. PICK path \in Chains(Finished) : Copied(f, ChainOf(Finished, Primary, path), rule, f.id)
    BY <1>2, <1>3, <1>4, ChainsAre
  <1> DEFINE g == ChainOf(Finished, Primary, path)
             e == Along(Finished, path)
  <1>6. /\ g.edges = e /\ g.sessions = R!ChainSessions(Finished, e) /\ g.evidence = R!FlattenSeq(e)
        /\ g.value = Finished.obs[e[1][1]].value
    BY DEF ChainOf, R!ChainFinding, R!Finding
  <1>7. R!FlattenSeq(e) = FlattenSeq(e)  BY SameHelpers
  <1>8. f.edges = g.edges /\ f.sessions = g.sessions /\ f.evidence = g.evidence /\ f.value = g.value
    BY <1>5, Zenon DEF Copied
  <1> HIDE DEF g, e
  <1>9. f.edges = e /\ f.sessions = R!ChainSessions(Finished, f.edges) /\ f.evidence = FlattenSeq(f.edges)
        /\ f.value = Finished.obs[f.edges[1][1]].value
    BY <1>6, <1>7, <1>8
  <1>10. QED BY <1>4, <1>5, <1>9 DEF IsChainOf, e

LEMMA SeenIs ==
  ASSUME TraceInv, NEW n \in Obs
  PROVE  Finished.obs[n] = observations[n] /\ n \in DOMAIN Finished.obs
  BY GraphIs DEF TraceInv

LEMMA PathIs ==
  ASSUME PipeTrace, NEW path \in Chains(Finished)
  PROVE  \E N : IsPath(Along(Finished, path), N) /\ DOMAIN path = 1 .. N
  <1> DEFINE B == R!Boundaries(Finished)
             next == R!Successors(Finished, B)
             e == Along(Finished, path)
  <1>1. DOMAIN next = B  BY DEF R!Successors
  <1>2. path \in R!MaximalPaths(next)  BY DEF Chains
  <1>3. path \in R!Paths(next) /\ Len(path) >= 2  BY <1>2 DEF R!MaximalPaths
  <1>4. PICK N \in 1 .. R!Cardinality(DOMAIN next) : path \in [1 .. N -> DOMAIN next]
    BY <1>3 DEF R!Paths
  <1>5. \A k \in 1 .. Len(path) - 1 : path[k + 1] \in next[path[k]]
    BY <1>3 DEF R!Paths
  <1>6. N \in Nat  BY <1>4
  <1>7. path \in Seq(B) /\ Len(path) = N /\ DOMAIN path = 1 .. N /\ \A k \in 1 .. N : path[k] \in B
    BY <1>1, <1>4, <1>6
  <1>8. edges = Finished.edges /\ edges \in Seq(Nat \X Nat)
    BY FinishedIsGraph, GraphIs DEF IsGraph, TraceInv, PipeTrace
  <1>9. \A b \in B : b \in DOMAIN edges  BY <1>8 DEF R!Boundaries
  <1>10. \A b \in B : edges[b] \in Range(edges) /\ IsEdge(edges[b])
    BY <1>9 DEF PipeTrace, EdgeInv, Range
  <1>11. DOMAIN e = 1 .. N /\ \A k \in 1 .. N : e[k] = edges[path[k]]
    BY <1>7, <1>8 DEF Along
  <1>12. \A k \in 1 .. N - 1 : Passes(e[k], e[k + 1])
    <2> TAKE k \in 1 .. N - 1
    <2>1. k \in 1 .. N /\ k + 1 \in 1 .. N /\ path[k] \in B /\ path[k + 1] \in B
      BY <1>6, <1>7
    <2>2. path[k + 1] \in next[path[k]]  BY <1>5, <1>7
    <2>3. R!Connects(Finished.obs[Finished.edges[path[k]][2]], Finished.obs[Finished.edges[path[k + 1]][1]])
      BY <2>1, <2>2 DEF R!Successors
    <2>4. e[k] = edges[path[k]] /\ e[k + 1] = edges[path[k + 1]] /\ IsEdge(e[k]) /\ IsEdge(e[k + 1])
      BY <1>10, <1>11, <2>1
    <2>5. Finished.obs[e[k][2]] = observations[e[k][2]] /\ Finished.obs[e[k + 1][1]] = observations[e[k + 1][1]]
      BY <2>4, SeenIs DEF IsEdge, PipeTrace
    <2>6. R!Connects(observations[e[k][2]], observations[e[k + 1][1]])
      BY <1>8, <2>3, <2>4, <2>5
    <2>7. QED BY <2>6 DEF R!Connects, Passes
  <1>13. e \in Seq(Range(e))
    <2>1. \A k \in 1 .. N : e[k] \in Range(e)  BY <1>11 DEF Range
    <2>2. e = [k \in 1 .. N |-> e[k]]  BY <1>7 DEF Along
    <2> DEFINE T == Range(e)
    <2> HIDE DEF e, T
    <2>3. [k \in 1 .. N |-> e[k]] \in Seq(T)  BY <1>6, <2>1 DEF T
    <2>4. QED BY <2>2, <2>3 DEF T
  <1>14. QED BY <1>3, <1>6, <1>7, <1>10, <1>11, <1>12, <1>13 DEF IsPath

LEMMA RealEdge ==
  ASSUME PipeTrace, NEW e, IsEdge(e)
  PROVE  EdgeIsReal(e)
  <1> DEFINE w == e[1]
             r == e[2]
             supplier == actual[r].from
  <1>1. /\ w \in Obs /\ r \in Obs /\ observations[w].call = "write" /\ observations[r].call = "read"
        /\ observations[w].res = observations[r].res /\ observations[r].res # 0 /\ observations[r].value # NoValue
        /\ observations[w].start <= observations[r].end
    BY DEF IsEdge
  <1>2. actual[w].image = R!Session(observations[w]) /\ actual[r].image = R!Session(observations[r])
    BY <1>1 DEF PipeTrace, TraceInv, ImageInv, R!Session
  <1>3. observations[r].end # 0 /\ actual[r].kind # NoSource
    BY <1>1 DEF PipeTrace, ValueInv, HasValue
  <1>4. supplier # 0 /\ Supplies(supplier, observations[r].res) /\ observations[supplier].start <= observations[r].end
    BY <1>1, <1>3 DEF PipeTrace, PipeInv, WasGiven
  <1>5. ASSUME OneWriter(r) PROVE actual[supplier].image = actual[w].image
    <2> HIDE DEF w, r, supplier
    <2>1. supplier \in Obs /\ observations[supplier].call = "write" /\ observations[supplier].res = observations[r].res
      BY <1>4 DEF Supplies
    <2>2. /\ {observations[supplier].call, observations[w].call} = {"write"}
          /\ {observations[supplier].res, observations[w].res} = {observations[r].res}
      BY <1>1, <2>1
    <2>3. QED BY <1>1, <1>4, <1>5, <2>1, <2>2 DEF OneWriter, Obs
  <1>6. QED BY <1>1, <1>2, <1>4, <1>5 DEF EdgeIsReal

LEMMA SessionsAlong ==
  ASSUME PipeTrace, NEW e, NEW N, IsPath(e, N)
  PROVE  LET s == R!ChainSessions(Finished, e) IN
         /\ DOMAIN s = 1 .. N + 1
         /\ \A k \in 1 .. N : s[k] = R!Session(observations[e[k][1]]) /\ s[k + 1] = R!Session(observations[e[k][2]])
  <1> DEFINE first == R!Session(Finished.obs[e[1][1]])
             rest == [k \in DOMAIN e |-> R!Session(Finished.obs[e[k][2]])]
             s == R!ChainSessions(Finished, e)
  <1>1. /\ N \in Nat /\ N >= 2 /\ DOMAIN e = 1 .. N
        /\ \A k \in 1 .. N : IsEdge(e[k])
        /\ \A k \in 1 .. N - 1 : Passes(e[k], e[k + 1])
    BY DEF IsPath
  <1>2. \A k \in 1 .. N : Finished.obs[e[k][1]] = observations[e[k][1]] /\ Finished.obs[e[k][2]] = observations[e[k][2]]
    BY <1>1, SeenIs DEF IsEdge, PipeTrace
  <1> DEFINE last(k) == R!Session(observations[e[k][2]])
             S == {first} \cup {last(k) : k \in 1 .. N}
  <1>3. rest = [k \in 1 .. N |-> last(k)]  BY <1>1, <1>2
  <1>4. first = R!Session(observations[e[1][1]])  BY <1>1, <1>2
  <1>5. s = << first >> \o rest  BY Zenon DEF R!ChainSessions
  <1>6. \A k \in 1 .. N : last(k) \in S
    OBVIOUS
  <1>7. first \in S
    OBVIOUS
  <1> HIDE DEF S, last, rest, first, s
  <1>8. rest \in Seq(S) /\ Len(rest) = N  BY <1>1, <1>3, <1>6
  <1>9. << first >> \in Seq(S)  BY <1>7
  <1>10. DOMAIN s = 1 .. N + 1 /\ s[1] = first /\ \A k \in 1 .. N : s[k + 1] = rest[k]
    BY <1>1, <1>5, <1>8, <1>9
  <1>11. \A k \in 1 .. N : s[k + 1] = R!Session(observations[e[k][2]])
    BY <1>3, <1>10 DEF last
  <1>12. ASSUME NEW k \in 1 .. N PROVE s[k] = R!Session(observations[e[k][1]])
    <2>1. CASE k = 1  BY <1>4, <1>10, <2>1
    <2>2. CASE k > 1
      <3>1. k - 1 \in 1 .. N - 1 /\ k - 1 \in 1 .. N /\ (k - 1) + 1 = k
        BY <1>1, <1>12, <2>2
      <3>2. s[k] = R!Session(observations[e[k - 1][2]])  BY <1>11, <3>1
      <3>3. Passes(e[k - 1], e[k])  BY <1>1, <3>1
      <3>4. QED BY <3>2, <3>3 DEF Passes
    <2>3. QED BY <1>1, <2>1, <2>2
  <1>13. QED BY <1>10, <1>11, <1>12 DEF s

LEMMA RealChains ==
  ASSUME ReportTrace
  PROVE  ChainsAreReal
  <1> SUFFICES ASSUME Reported, NEW f \in Kind("sensitive_value_cross_process_pipe_chain")
               PROVE  /\ \A k \in DOMAIN f.edges :
                           LET w == f.edges[k][1]
                               r == f.edges[k][2]
                               supplier == actual[r].from
                           IN
                           /\ supplier # 0
                           /\ OneWriter(r) => actual[supplier].image = f.sessions[k]
                           /\ actual[r].image = f.sessions[k + 1]
                      /\ \A k \in 1 .. Len(f.edges) - 1 :
                           LET r == f.edges[k][2]
                               w == f.edges[k + 1][1]
                           IN actual[r].image = actual[w].image /\ observations[r].end < observations[w].start
    BY Zenon DEF ChainsAreReal
  <1>0. PipeTrace /\ RegistryInv  BY DEF ReportTrace
  <1>1. report.findings = Findings
    BY <1>0, ReportedIs DEF PipeTrace, TraceInv
  <1>2. f \in Range(Findings) /\ f.kind = "sensitive_value_cross_process_pipe_chain"
    BY <1>1 DEF Kind
  <1>3. FindingsAre  BY <1>0, FindingsAreMade DEF PipeTrace
  <1>4. PICK path : IsChainOf(f, path)  BY <1>2, <1>3, ChainIs
  <1> DEFINE e == f.edges
             s == f.sessions
  <1>5. path \in Chains(Finished) /\ e = Along(Finished, path) /\ s = R!ChainSessions(Finished, e)
    BY <1>4 DEF IsChainOf
  <1>6. PICK N : IsPath(e, N)  BY <1>0, <1>5, PathIs
  <1> HIDE DEF e, s
  <1>7. \A k \in 1 .. N : s[k] = R!Session(observations[e[k][1]]) /\ s[k + 1] = R!Session(observations[e[k][2]])
    BY <1>0, <1>5, <1>6, SessionsAlong
  <1>8. N \in Nat /\ DOMAIN e = 1 .. N /\ Len(e) = N  BY <1>6 DEF IsPath
  <1>9. \A k \in 1 .. N : EdgeIsReal(e[k])  BY <1>0, <1>6, RealEdge DEF IsPath
  <1>10. ASSUME NEW k \in 1 .. N
         PROVE  /\ actual[e[k][2]].from # 0
                /\ OneWriter(e[k][2]) => actual[actual[e[k][2]].from].image = s[k]
                /\ actual[e[k][2]].image = s[k + 1]
    <2>1. EdgeIsReal(e[k])  BY <1>9, <1>10
    <2>2. s[k] = R!Session(observations[e[k][1]]) /\ s[k + 1] = R!Session(observations[e[k][2]])
      BY <1>7, <1>10
    <2>3. QED BY <2>1, <2>2 DEF EdgeIsReal
  <1>11. ASSUME NEW k \in 1 .. N - 1
         PROVE  /\ actual[e[k][2]].image = actual[e[k + 1][1]].image
                /\ observations[e[k][2]].end < observations[e[k + 1][1]].start
    <2>1. k \in 1 .. N /\ k + 1 \in 1 .. N  BY <1>8
    <2>2. EdgeIsReal(e[k]) /\ EdgeIsReal(e[k + 1]) /\ Passes(e[k], e[k + 1])
      BY <1>6, <1>9, <1>11, <2>1 DEF IsPath
    <2> DEFINE r == e[k][2]
               w == e[k + 1][1]
    <2>3. r \in Obs /\ w \in Obs  BY <2>2 DEF EdgeIsReal
    <2>4. observations[r].end \in Nat /\ observations[w].start \in Nat /\ observations[r].end # observations[w].start
      BY <1>0, <2>3, ObsTypes DEF PipeTrace, TraceInv, TimeInv, EventType
    <2>5. QED BY <2>2, <2>4 DEF EdgeIsReal, Passes
  <1>12. QED BY <1>8, <1>10, <1>11 DEF e, s

(* A chain in the report happened (ChainsAreReal).                         *)
THEOREM ChainsAreAlwaysReal == Spec => []ChainsAreReal
  <1>1. ReportTrace => ChainsAreReal  BY RealChains
  <1>2. QED BY <1>1, ReportIsKept, PTL

-----------------------------------------------------------------------------
(* The longest path through two boundaries is a maximal one.               *)
LEMMA LaterIsHigher ==
  ASSUME NEW next, NEW B, NEW m, Rising(next, B, m), NEW path, NEW n, Follows(path, n, next, B)
  PROVE  \A j, k \in 1 .. n : j < k => m[path[j]] < m[path[k]]
  <1> DEFINE S == {d \in Nat : \A j \in 1 .. n : j + d + 1 \in 1 .. n => m[path[j]] < m[path[j + d + 1]]}
  <1>0. n \in Nat /\ \A k \in 1 .. n : path[k] \in B /\ m[path[k]] \in Nat
    BY DEF Follows, Rising
  <1>1. \A k \in 1 .. n - 1 : m[path[k]] < m[path[k + 1]]
    BY <1>0 DEF Follows, Rising
  <1>2. 0 \in S  BY <1>0, <1>1
  <1>3. ASSUME NEW d \in Nat, d \in S PROVE d + 1 \in S
    <2> SUFFICES ASSUME NEW j \in 1 .. n, j + (d + 1) + 1 \in 1 .. n PROVE m[path[j]] < m[path[j + (d + 1) + 1]]
      OBVIOUS
    <2>1. j + d + 1 \in 1 .. n - 1 /\ (j + d + 1) + 1 = j + (d + 1) + 1
      BY <1>0
    <2>2. m[path[j]] < m[path[j + d + 1]]
      <3>1. \A i \in 1 .. n : i + d + 1 \in 1 .. n => m[path[i]] < m[path[i + d + 1]]
        BY <1>3
      <3>2. j + d + 1 \in 1 .. n  BY <1>0, <2>1
      <3>3. QED BY <3>1, <3>2
    <2>3. m[path[j + d + 1]] < m[path[j + (d + 1) + 1]]  BY <1>1, <2>1
    <2>4. m[path[j]] \in Nat /\ m[path[j + d + 1]] \in Nat /\ m[path[j + (d + 1) + 1]] \in Nat
      BY <1>0, <2>1
    <2>5. QED BY <2>2, <2>3, <2>4
  <1> HIDE DEF S
  <1>4. Nat \subseteq S  BY <1>2, <1>3, Induct
  <1>5. QED
    <2> TAKE j, k \in 1 .. n
    <2> HAVE j < k
    <2>1. k - j - 1 \in Nat /\ j + (k - j - 1) + 1 = k  BY <1>0
    <2>2. k - j - 1 \in S  BY <1>4, <2>1
    <2>3. QED BY <2>1, <2>2 DEF S

LEMMA FollowsIsPath ==
  ASSUME NEW next, NEW B, IsFiniteSet(B), NEW m, Rising(next, B, m), NEW path, NEW n, Follows(path, n, next, B)
  PROVE  n <= Cardinality(B) /\ (n >= 1 => path \in R!Paths(next))
  <1>0. n \in Nat /\ path \in [1 .. n -> B] /\ DOMAIN next = B /\ Cardinality(B) \in Nat
    BY FS_CardinalityType DEF Follows, Rising
  <1>1. IsInjective(path)
    <2> SUFFICES ASSUME NEW j \in 1 .. n, NEW k \in 1 .. n, path[j] = path[k], j # k PROVE FALSE
      BY <1>0 DEF IsInjective
    <2>1. m[path[j]] < m[path[k]] \/ m[path[k]] < m[path[j]]  BY LaterIsHigher
    <2>2. m[path[j]] \in Nat  BY <1>0 DEF Rising
    <2>3. QED BY <2>1, <2>2
  <1>2. n <= Cardinality(B)
    <2>1. path \in Injection(1 .. n, B)  BY <1>0, <1>1 DEF Injection
    <2>2. Cardinality(1 .. n) <= Cardinality(B)  BY <2>1, FS_Injection
    <2>3. Cardinality(1 .. n) = n  BY <1>0, FS_Interval
    <2>4. QED BY <2>2, <2>3
  <1>3. ASSUME n >= 1 PROVE path \in R!Paths(next)
    <2>1. n \in 1 .. R!Cardinality(DOMAIN next)
      BY <1>0, <1>2, <1>3, SameHelpers
    <2>2. path \in UNION {[1 .. l -> DOMAIN next] : l \in 1 .. R!Cardinality(DOMAIN next)}
      BY <1>0, <2>1
    <2>3. R!IsInjective(path)  BY <1>1, SameHelpers
    <2>4. Len(path) = n  BY <1>0
    <2>5. \A k \in 1 .. Len(path) - 1 : path[k + 1] \in next[path[k]]
      BY <2>4 DEF Follows
    <2>6. QED BY <2>2, <2>3, <2>5 DEF R!Paths
  <1>4. QED BY <1>2, <1>3

LEMMA Longer ==
  ASSUME NEW next, NEW B, NEW m, Rising(next, B, m), NEW path, NEW n, Follows(path, n, next, B), n >= 2,
         NEW b, NEW c, Through(path, n, b, c), NEW x \in B
  PROVE  /\ path[1] \in next[x] => \E p : Follows(p, n + 1, next, B) /\ Through(p, n + 1, b, c)
         /\ x \in next[path[n]] => \E p : Follows(p, n + 1, next, B) /\ Through(p, n + 1, b, c)
  <1>0. n \in Nat /\ path \in [1 .. n -> B] /\ \A k \in 1 .. n - 1 : path[k + 1] \in next[path[k]]
    BY DEF Follows
  <1>1. ASSUME path[1] \in next[x]
        PROVE  \E p : Follows(p, n + 1, next, B) /\ Through(p, n + 1, b, c)
    <2> DEFINE p == [k \in 1 .. n + 1 |-> IF k = 1 THEN x ELSE path[k - 1]]
    <2>1. p \in [1 .. n + 1 -> B]
      <3>1. \A k \in 1 .. n + 1 : k = 1 \/ k - 1 \in 1 .. n  BY <1>0
      <3>2. QED BY <1>0, <3>1
    <2>2. p[1] = x /\ \A k \in 1 .. n : p[k + 1] = path[k]  BY <1>0
    <2> HIDE DEF p
    <2>3. ASSUME NEW k \in 1 .. (n + 1) - 1 PROVE p[k + 1] \in next[p[k]]
      <3>1. CASE k = 1  BY <1>0, <1>1, <2>2, <3>1
      <3>2. CASE k > 1
        <4>1. k - 1 \in 1 .. n - 1 /\ k - 1 \in 1 .. n /\ k \in 1 .. n /\ (k - 1) + 1 = k
          BY <1>0, <2>3, <3>2
        <4>2. p[k + 1] = path[k] /\ p[k] = path[k - 1]  BY <2>2, <4>1
        <4>3. path[(k - 1) + 1] \in next[path[k - 1]]  BY <1>0, <4>1
        <4>4. QED BY <4>1, <4>2, <4>3
      <3>3. QED BY <1>0, <3>1, <3>2
    <2>4. Through(p, n + 1, b, c)
      <3>1. PICK k \in 1 .. n - 1 : path[k] = b /\ path[k + 1] = c
        BY DEF Through
      <3>2. k \in 1 .. n /\ k + 1 \in 1 .. n /\ k + 1 \in 1 .. (n + 1) - 1
        BY <1>0
      <3>3. p[k + 1] = b /\ p[(k + 1) + 1] = c  BY <2>2, <3>1, <3>2
      <3>4. QED BY <3>2, <3>3 DEF Through
    <2>5. QED BY <1>0, <2>1, <2>3, <2>4 DEF Follows
  <1>2. ASSUME x \in next[path[n]]
        PROVE  \E p : Follows(p, n + 1, next, B) /\ Through(p, n + 1, b, c)
    <2> DEFINE p == [k \in 1 .. n + 1 |-> IF k = n + 1 THEN x ELSE path[k]]
    <2>1. p \in [1 .. n + 1 -> B]
      <3>1. \A k \in 1 .. n + 1 : k = n + 1 \/ k \in 1 .. n  BY <1>0
      <3>2. QED BY <1>0, <3>1
    <2>2. p[n + 1] = x /\ \A k \in 1 .. n : p[k] = path[k]  BY <1>0
    <2> HIDE DEF p
    <2>3. ASSUME NEW k \in 1 .. (n + 1) - 1 PROVE p[k + 1] \in next[p[k]]
      <3>1. CASE k = n  BY <1>0, <1>2, <2>2, <3>1
      <3>2. CASE k < n
        <4>1. k \in 1 .. n - 1 /\ k \in 1 .. n /\ k + 1 \in 1 .. n
          BY <1>0, <2>3, <3>2
        <4>2. QED BY <1>0, <2>2, <4>1
      <3>3. QED BY <1>0, <3>1, <3>2
    <2>4. Through(p, n + 1, b, c)
      <3>1. PICK k \in 1 .. n - 1 : path[k] = b /\ path[k + 1] = c
        BY DEF Through
      <3>2. k \in 1 .. n /\ k + 1 \in 1 .. n /\ k \in 1 .. (n + 1) - 1
        BY <1>0
      <3>3. QED BY <2>2, <3>1, <3>2 DEF Through
    <2>5. QED BY <1>0, <2>1, <2>3, <2>4 DEF Follows
  <1>3. QED BY <1>1, <1>2

LEMMA LongestPath ==
  ASSUME NEW next, NEW B, IsFiniteSet(B), NEW m, Rising(next, B, m), NEW b \in B, NEW c \in next[b]
  PROVE  \E path \in R!MaximalPaths(next), n \in Nat :
           DOMAIN path = 1 .. n /\ Through(path, n, b, c)
  <1>0. c \in B /\ DOMAIN next = B /\ Cardinality(B) \in Nat
    BY FS_CardinalityType DEF Rising
  <1> DEFINE L == {n \in Nat : n >= 2 /\ \E path : Follows(path, n, next, B) /\ Through(path, n, b, c)}
  <1>1. 2 \in L
    <2> DEFINE p == [k \in 1 .. 2 |-> IF k = 1 THEN b ELSE c]
    <2>1. p \in [1 .. 2 -> B] /\ p[1] = b /\ p[2] = c  BY <1>0
    <2> HIDE DEF p
    <2>2. \A k \in 1 .. 2 - 1 : k = 1
      OBVIOUS
    <2>3. Follows(p, 2, next, B)  BY <2>1, <2>2 DEF Follows
    <2>4. Through(p, 2, b, c)  BY <2>1 DEF Through
    <2>5. QED BY <2>3, <2>4
  <1>2. \A n \in L : n <= Cardinality(B)  BY FollowsIsPath
  <1> HIDE DEF L
  <1>3. PICK n \in L : \A k \in L : k <= n
    <2>1. L \in SUBSET Nat /\ L # {}  BY <1>1 DEF L
    <2>2. QED BY <1>0, <1>2, <2>1, GreatestNumber
  <1>4. n \in Nat /\ n >= 2 /\ n + 1 \in Nat /\ n + 1 >= 2 /\ n + 1 \notin L
    <2>1. n \in Nat /\ n >= 2  BY DEF L
    <2>2. QED BY <1>3, <2>1
  <1>5. PICK path : Follows(path, n, next, B) /\ Through(path, n, b, c)
    BY DEF L
  <1>6. \A x \in B : path[1] \notin next[x] /\ x \notin next[path[n]]
    BY <1>4, <1>5, Longer DEF L
  <1>7. path \in R!Paths(next)  BY <1>4, <1>5, FollowsIsPath
  <1>8. path \in [1 .. n -> B] /\ Len(path) = n /\ n \in DOMAIN path /\ path \in Seq(B)
    BY <1>4, <1>5 DEF Follows
  <1>9. path[1] \notin UNION R!Range(next)  BY <1>0, <1>6 DEF R!Range
  <1>10. next[path[n]] = {}  BY <1>6, <1>8 DEF Rising
  <1>11. R!Last(path) = path[n]  BY <1>8, SameHelpers DEF Last
  <1>12. path \in R!MaximalPaths(next)
    BY <1>4, <1>7, <1>8, <1>9, <1>10, <1>11 DEF R!MaximalPaths
  <1>13. QED BY <1>4, <1>5, <1>8, <1>12

-----------------------------------------------------------------------------
(* The chain through two pipes, each read given what a write supplied.     *)
LEMMA OneEndOfAPipe ==
  ASSUME TypeInv, NEW p \in Proc, NEW n, HasEnd(p, n, "write"), HasEnd(p, n, "read")
  PROVE  FALSE
  <1>1. PICK f \in Fd : /\ workload.tables[p][f] # 0 /\ workload.files[workload.tables[p][f]].pipe = n
                        /\ workload.files[workload.tables[p][f]].role = "write"
    BY DEF HasEnd
  <1>2. PICK g \in Fd : /\ workload.tables[p][g] # 0 /\ workload.files[workload.tables[p][g]].pipe = n
                        /\ workload.files[workload.tables[p][g]].role = "read"
    BY DEF HasEnd
  <1>3. workload \in Workloads  BY DEF TypeInv
  <1>4. workload.files[workload.tables[p][f]].role = workload.files[workload.tables[p][g]].role
    BY <1>1, <1>2, <1>3, Inputs
  <1>5. QED BY <1>1, <1>2, <1>4

(* An edge is a boundary between two processes.                            *)
LEMMA EdgeIsBoundary ==
  ASSUME PipeTrace, NEW e, IsEdge(e)
  PROVE  R!IsBoundary(observations[e[1]], observations[e[2]])
  <1> DEFINE w == observations[e[1]]
             r == observations[e[2]]
  <1>1. /\ e[1] \in Obs /\ e[2] \in Obs /\ w.call = "write" /\ r.call = "read"
        /\ w.res = r.res /\ r.res # 0 /\ w.value = r.value /\ r.value # NoValue
    BY DEF IsEdge
  <1>2. w \in EventType /\ r \in EventType
    BY <1>1, ObsTypes DEF PipeTrace, TraceInv
  <1>3. w.role = "write" /\ r.role = "read" /\ << w.pid, w.res, w.role >> \in Ends /\ << r.pid, r.res, r.role >> \in Ends
    BY <1>1 DEF PipeTrace, EndsInv
  <1>4. w.inst = w.pid /\ r.inst = r.pid
    BY <1>1 DEF PipeTrace, TraceInv, ImageInv
  <1>5. w.type = "Event" /\ r.type = "Event" /\ w.pid \in Proc /\ r.pid \in Proc
    BY <1>2 DEF EventType
  <1>6. NoSession \notin Proc  BY Inputs DEF PipeTrace, TraceInv, TypeInv
  <1> HIDE DEF w, r
  <1>7. HasEnd(w.pid, w.res, "write") /\ HasEnd(r.pid, r.res, "read")
    BY <1>3 DEF Ends, GoodEnd
  <1>8. w.pid # r.pid
    BY <1>1, <1>5, <1>7, OneEndOfAPipe DEF PipeTrace, TraceInv
  <1>9. R!IsBoundary(w, r)
    BY <1>1, <1>3, <1>4, <1>5, <1>6, <1>8 DEF R!IsBoundary, R!IsEvent
  <1>10. QED BY <1>9 DEF w, r

(* A read that returned with what a returned write of the secret supplied  *)
(* has an edge from it or from a later write that is as good.              *)
LEMMA GivenIsLinked ==
  ASSUME PipeTrace, NEW r \in Obs, actual[r].from # 0, observations[r].end # 0,
         observations[actual[r].from].end # 0, actual[actual[r].from].what = Secret
  PROVE  /\ actual[r].from \in Obs /\ actual[r].from \in Suppliers(observations, r)
         /\ observations[r].value = Secret
         /\ \E e \in Range(edges) : e[2] = r /\ actual[r].from <= e[1] /\ IsEdge(e)
  <1> DEFINE v == actual[r].from
             o == observations[r]
  <1>1. /\ Supplies(v, o.res) /\ o.res # 0 /\ o.call = "read" /\ actual[r].kind # NoSource
        /\ observations[v].start <= o.end
    BY DEF PipeTrace, PipeInv, WasGiven
  <1>2. NoValue # Secret  BY Values
  <1>3. o.ret = 1 /\ o.value = Secret
    BY <1>1 DEF PipeTrace, ValueInv, HasValue
  <1>4. v \in Obs /\ observations[v].call = "write" /\ observations[v].res = o.res /\ actual[v].kind = "pipe write"
    BY <1>1 DEF Supplies
  <1>5. observations[v].value = Secret /\ observations[v].ret = 1
    BY <1>4 DEF PipeTrace, ValueInv, HasValue
  <1> HIDE DEF v, o
  <1>6. v \in Suppliers(observations, r)
    <2>1. v \in DOMAIN observations /\ observations[v].call = "write" /\ observations[v].ret > 0
      <3>1. v \in DOMAIN observations  BY <1>4 DEF Obs
      <3>2. observations[v].call = "write"  BY <1>4
      <3>3. observations[v].ret > 0  BY <1>5
      <3>4. QED BY <3>1, <3>2, <3>3
    <2>2. /\ observations[v].res = observations[r].res /\ observations[v].value = observations[r].value
          /\ observations[v].start <= observations[r].end
      BY <1>1, <1>3, <1>4, <1>5 DEF o
    <2>3. QED BY <2>1, <2>2 DEF Suppliers
  <1>7. Linkable(observations, r)  BY <1>1, <1>2, <1>3, <1>6 DEF Linkable, o
  <1>8. PICK e \in Range(edges) : e[2] = r /\ v <= e[1]
    BY <1>6, <1>7 DEF PipeTrace, EdgeInv
  <1>9. IsEdge(e)  BY <1>8 DEF PipeTrace, EdgeInv
  <1>10. QED BY <1>3, <1>4, <1>6, <1>8, <1>9 DEF v, o

LEMMA BordersAre ==
  ASSUME PipeTrace
  PROVE  /\ \A b : b \in Border <=> b \in DOMAIN edges
         /\ \A b \in Border : edges[b] \in Range(edges) /\ IsEdge(edges[b])
         /\ \A b, c \in Border : c \in Onward[b] <=>
              b # c /\ R!Connects(observations[edges[b][2]], observations[edges[c][1]])
         /\ \A b \in Border : Onward[b] \subseteq Border
         /\ DOMAIN Onward = Border
  <1>1. Finished.edges = edges  BY GraphIs DEF PipeTrace, TraceInv
  <1>2. \A b \in DOMAIN edges : edges[b] \in Range(edges) /\ IsEdge(edges[b])
    BY DEF PipeTrace, EdgeInv, Range
  <1>3. \A b \in DOMAIN edges : /\ Finished.obs[edges[b][1]] = observations[edges[b][1]]
                                /\ Finished.obs[edges[b][2]] = observations[edges[b][2]]
    BY <1>2, SeenIs DEF IsEdge, PipeTrace
  <1>4. \A b : b \in Border <=> b \in DOMAIN edges
    BY <1>1, <1>2, <1>3, EdgeIsBoundary DEF Border, R!Boundaries
  <1>5. \A b \in Border : Onward[b] = {c \in Border \ {b} : R!Connects(observations[edges[b][2]], observations[edges[c][1]])}
    <2>1. \A b \in Border : Onward[b] = {c \in Border \ {b} :
                R!Connects(Finished.obs[Finished.edges[b][2]], Finished.obs[Finished.edges[c][1]])}
      BY DEF Onward, R!Successors
    <2>2. \A b, c \in Border : /\ Finished.obs[Finished.edges[b][2]] = observations[edges[b][2]]
                               /\ Finished.obs[Finished.edges[c][1]] = observations[edges[c][1]]
      BY <1>1, <1>3, <1>4
    <2> HIDE DEF Onward
    <2>3. \A b \in Border : {c \in Border \ {b} : R!Connects(Finished.obs[Finished.edges[b][2]], Finished.obs[Finished.edges[c][1]])}
                             = {c \in Border \ {b} : R!Connects(observations[edges[b][2]], observations[edges[c][1]])}
      BY <2>2
    <2>4. QED BY <2>1, <2>3
  <1>6. DOMAIN Onward = Border  BY DEF Onward, R!Successors
  <1>7. \A b, c \in Border : c \in Onward[b] <=>
              b # c /\ R!Connects(observations[edges[b][2]], observations[edges[c][1]])
    BY <1>5
  <1>8. \A b \in Border : Onward[b] \subseteq Border  BY <1>5
  <1>9. QED BY <1>2, <1>4, <1>6, <1>7, <1>8

LEMMA BordersRise ==
  ASSUME PipeTrace
  PROVE  Rising(Onward, Border, Ending)
  <1>1. \A b \in Border : Ending[b] \in Nat
    BY BordersAre, ObsTypes DEF Ending, IsEdge, EventType, PipeTrace, TraceInv
  <1>2. ASSUME NEW b \in Border, NEW c \in Onward[b] PROVE Ending[b] < Ending[c]
    <2>1. c \in Border  BY <1>2, BordersAre
    <2> DEFINE r == observations[edges[b][2]]
               w == observations[edges[c][1]]
               s == observations[edges[c][2]]
    <2>2. R!Connects(r, w)  BY <1>2, <2>1, BordersAre
    <2>3. IsEdge(edges[b]) /\ IsEdge(edges[c])  BY <2>1, BordersAre
    <2>4. r.end <= w.start /\ w.start <= s.end
      BY <2>2, <2>3 DEF IsEdge, R!Connects
    <2>5. s.end # w.start  BY <2>3 DEF IsEdge, PipeTrace, TraceInv, TimeInv
    <2>6. w.start \in Nat
      BY <2>3, ObsTypes DEF IsEdge, EventType, PipeTrace, TraceInv
    <2>7. Ending[b] = r.end /\ Ending[c] = s.end  BY <2>1 DEF Ending
    <2> HIDE DEF r, w, s
    <2>8. QED BY <1>1, <2>1, <2>4, <2>5, <2>6, <2>7
  <1>3. Ending \in [Border -> Nat]  BY <1>1 DEF Ending
  <1>4. QED BY <1>2, <1>3, BordersAre DEF Rising

LEMMA ChainFound ==
  ASSUME ReportTrace, Reported, IsActive(R!RuleIds[5]), NEW r \in Obs, NEW s \in Obs, IsChain(r, s)
  PROVE  \E f \in Kind("sensitive_value_cross_process_pipe_chain") :
           {actual[r].image, actual[s].image} \subseteq Range(f.sessions)
  <1>0. PipeTrace /\ TraceInv /\ RegistryInv  BY DEF ReportTrace, PipeTrace
  <1> DEFINE v == actual[r].from
             w == actual[s].from
  <1>1. /\ v # 0 /\ w # 0
        /\ observations[r].end # 0 /\ observations[s].end # 0 /\ observations[v].end # 0 /\ observations[w].end # 0
        /\ actual[v].what = Secret /\ actual[w].what = Secret
        /\ actual[w].image = actual[r].image /\ observations[r].end < observations[w].start
        /\ OneWriter(s)
    BY DEF IsChain
  <1>2. /\ v \in Obs /\ observations[r].value = Secret
        /\ \E e \in Range(edges) : e[2] = r /\ v <= e[1] /\ IsEdge(e)
    BY <1>0, <1>1, GivenIsLinked
  <1>3. /\ w \in Obs /\ observations[s].value = Secret /\ w \in Suppliers(observations, s)
        /\ \E e \in Range(edges) : e[2] = s /\ w <= e[1] /\ IsEdge(e)
    BY <1>0, <1>1, GivenIsLinked
  <1> HIDE DEF v, w
  <1>4. PICK d \in Range(edges) : d[2] = r /\ IsEdge(d)  BY <1>2
  <1>5. PICK e \in Range(edges) : e[2] = s /\ w <= e[1] /\ IsEdge(e)  BY <1>3
  <1>6. PICK b \in DOMAIN edges : edges[b] = d  BY <1>4 DEF Range
  <1>7. PICK c \in DOMAIN edges : edges[c] = e  BY <1>5 DEF Range
  <1>8. b \in Border /\ c \in Border  BY <1>0, BordersAre
  <1> DEFINE y == e[1]
  <1>9. /\ y \in Obs /\ observations[y].call = "write" /\ observations[y].res = observations[s].res
        /\ observations[y].value = observations[s].value /\ observations[y].start <= observations[s].end
    BY <1>5 DEF IsEdge
  <1>10. actual[y].image = actual[w].image
    <2>1. /\ observations[w].call = "write" /\ observations[w].res = observations[s].res
          /\ observations[w].start <= observations[s].end
      BY <1>3 DEF Suppliers
    <2>2. /\ {observations[w].call, observations[y].call} = {"write"}
          /\ {observations[w].res, observations[y].res} = {observations[s].res}
      BY <1>9, <2>1
    <2>3. QED BY <1>1, <1>3, <1>9, <2>1, <2>2 DEF OneWriter, Obs
  <1>11. observations[w].start <= observations[y].start
    <2>1. w \in Nat /\ y \in Nat /\ observations[w].start \in Nat /\ observations[y].start \in Nat
      BY <1>0, <1>3, <1>9, ObsTypes DEF TraceInv, EventType
    <2>2. w < y => observations[w].start < observations[y].start
      BY <1>0, <1>3, <1>9 DEF TraceInv, TimeInv
    <2>3. w < y \/ w = y  BY <1>5, <2>1
    <2>4. QED BY <2>1, <2>2, <2>3
  <1>12. \A n \in Obs : actual[n].image = R!Session(observations[n])
    BY <1>0 DEF TraceInv, ImageInv, R!Session
  <1>13. /\ observations[r].end \in Nat /\ observations[w].start \in Nat /\ observations[y].start \in Nat
         /\ observations[s].end \in Nat
    BY <1>0, <1>3, <1>9, ObsTypes DEF TraceInv, EventType
  <1>14. R!Connects(observations[r], observations[y])
    BY <1>1, <1>2, <1>3, <1>9, <1>10, <1>11, <1>12, <1>13 DEF R!Connects
  <1>15. r # s
    <2>1. observations[r].end < observations[s].end
      BY <1>1, <1>9, <1>11, <1>13
    <2>2. QED BY <1>13, <2>1
  <1>16. c \in Onward[b]
    BY <1>0, <1>4, <1>5, <1>6, <1>7, <1>8, <1>14, <1>15, BordersAre
  <1>17. IsGraph(Finished)  BY <1>0, FinishedIsGraph
  <1>18. PICK path \in Chains(Finished), n \in Nat : DOMAIN path = 1 .. n /\ Through(path, n, b, c)
    <2>1. IsFiniteSet(Border)  BY <1>17, ChainsAreFinite DEF Border
    <2>2. \E path \in R!MaximalPaths(Onward), n \in Nat : DOMAIN path = 1 .. n /\ Through(path, n, b, c)
      BY <1>0, <1>8, <1>16, <2>1, BordersRise, LongestPath
    <2>3. QED BY <2>2 DEF Chains, Onward, Border
  <1> DEFINE a == Along(Finished, path)
             q == R!ChainSessions(Finished, a)
  <1>19. PICK N : IsPath(a, N) /\ DOMAIN path = 1 .. N  BY <1>0, PathIs
  <1>20. PICK k \in 1 .. n - 1 : path[k] = b /\ path[k + 1] = c
    BY <1>18 DEF Through
  <1>21. k \in 1 .. N /\ k + 1 \in 1 .. N /\ N \in Nat
    <2>1. 1 .. n = 1 .. N /\ N \in Nat  BY <1>18, <1>19 DEF IsPath
    <2>2. k \in 1 .. n /\ k + 1 \in 1 .. n
      OBVIOUS
    <2>3. QED BY <2>1, <2>2
  <1>22. a[k] = d /\ a[k + 1] = e
    <2>1. Finished.edges = edges  BY <1>0, GraphIs DEF TraceInv
    <2>2. k \in DOMAIN path /\ k + 1 \in DOMAIN path  BY <1>19, <1>21
    <2>3. QED BY <1>6, <1>7, <1>20, <2>1, <2>2 DEF Along
  <1> HIDE DEF a
  <1>23. /\ DOMAIN q = 1 .. N + 1
         /\ \A l \in 1 .. N : q[l + 1] = R!Session(observations[a[l][2]])
    BY <1>0, <1>19, SessionsAlong
  <1>24. q[k + 1] = actual[r].image /\ q[(k + 1) + 1] = actual[s].image
    BY <1>4, <1>5, <1>12, <1>21, <1>22, <1>23
  <1>25. {actual[r].image, actual[s].image} \subseteq Range(q)
    <2>1. k + 1 \in 1 .. N + 1 /\ (k + 1) + 1 \in 1 .. N + 1  BY <1>21
    <2>2. QED BY <1>23, <1>24, <2>1 DEF Range
  <1> DEFINE rule == R!RuleIds[5]
  <1>26. rule \in RuleId /\ R!StageOf[rule] = "Composite" /\ KindOf(rule) = "sensitive_value_cross_process_pipe_chain"
    BY RuleIdsAre, KindsAre
  <1>27. MadeBy(rule) = R!ChainFindings(Finished, Primary)
    BY <1>17, <1>26, RulesMake DEF MadeBy, Before
  <1> DEFINE g == ChainOf(Finished, Primary, path)
  <1>28. g \in Range(MadeBy(rule))  BY <1>17, <1>27, ChainsAre
  <1>29. g.sessions = q /\ g.kind = "sensitive_value_cross_process_pipe_chain"
    BY DEF ChainOf, R!ChainFinding, R!Finding, a
  <1>30. FindingsAre  BY <1>0, FindingsAreMade
  <1> HIDE DEF q, g, rule
  <1>31. PICK f \in Range(Findings) : Copied(f, g, rule, f.id)
    <2>1. IsActive(rule)  BY DEF rule
    <2>2. QED BY <1>26, <1>28, <1>30, <2>1, Zenon DEF FindingsAre
  <1>32. f.sessions = q /\ f.kind = "sensitive_value_cross_process_pipe_chain"
    BY <1>29, <1>31, Zenon DEF Copied
  <1>33. report.findings = Findings  BY <1>0, ReportedIs DEF TraceInv
  <1>34. f \in Kind("sensitive_value_cross_process_pipe_chain")
    BY <1>32, <1>33 DEF Kind
  <1>35. QED BY <1>25, <1>32, <1>34

(* A chain that happened is in the report (ChainsAreFound).                *)
THEOREM ChainsAreAlwaysFound == Spec => []ChainsAreFound
  <1>1. ReportTrace => ChainsAreFound
    <2> SUFFICES ASSUME ReportTrace, Reported, IsActive(R!RuleIds[5]), NEW r \in Obs, NEW s \in Obs, IsChain(r, s)
                 PROVE  \E f \in Kind("sensitive_value_cross_process_pipe_chain") :
                          {actual[r].image, actual[s].image} \subseteq Range(f.sessions)
      BY Zenon DEF ChainsAreFound, Obs
    <2>1. QED BY ChainFound
  <1>2. QED BY <1>1, ReportIsKept, PTL

-----------------------------------------------------------------------------
(* The findings that the report shows, and those that a composite finding  *)
(* cites.                                                                  *)
LEMMA ShownIs ==
  ASSUME NEW S, NEW all \in Seq(S), NEW minimum
  PROVE  LET shown == R!Filtered(all, minimum) IN
         /\ shown \in Seq(Range(shown)) /\ Range(shown) \subseteq Range(all)
         /\ \A f \in Range(shown), g \in Range(all) : g.severity = f.severity => g \in Range(shown)
  <1> DEFINE rank(s) == CHOOSE n \in DOMAIN R!Severity : R!Severity[n] = s
             fits == {f \in R!Range(all) : rank(f.severity) <= rank(minimum)}
             shown == R!Filtered(all, minimum)
  <1>1. shown = R!Kept(all, fits)  BY Zenon DEF R!Filtered
  <1> HIDE DEF shown, rank
  <1>2. shown = Kept(all, fits) /\ R!Range(all) = Range(all)
    BY <1>1, SameHelpers
  <1>3. shown \in Seq(S) /\ Range(shown) = Range(all) \cap fits
    BY <1>2, KeptIs
  <1>4. shown \in Seq(Range(shown))  BY <1>3, ItsRange
  <1>5. QED BY <1>2, <1>3, <1>4 DEF shown

LEMMA IdsAre ==
  ASSUME NEW s
  PROVE  Range(R!Ids(s)) = {g.id : g \in Range(s)}
  BY DEF R!Ids, Range

LEMMA SupportsAre ==
  ASSUME FindingsAre, NEW value, NEW told
  PROVE  /\ Range(R!Ids(R!PresenceOf(Primary, value))) = {g.id : g \in Sighted(value)}
         /\ Range(R!Ids(R!Kept(R!PresenceOf(Primary, value), told))) \subseteq {g.id : g \in Sighted(value)}
  <1> DEFINE set == {f \in R!Range(Primary) : f.kind = "sensitive_data_presence" /\ f.value = value}
             of == R!PresenceOf(Primary, value)
             some == R!Kept(of, told)
  <1>1. Primary \in Seq(Range(Primary))  BY Zenon DEF FindingsAre
  <1>2. R!Range(Primary) = Range(Primary)  BY SameHelpers
  <1>3. of = R!Kept(Primary, set)  BY Zenon DEF R!PresenceOf
  <1>4. set = Sighted(value)  BY <1>2 DEF Sighted
  <1> HIDE DEF of, set
  <1>5. of = Kept(Primary, set)  BY <1>3, SameHelpers
  <1>6. of \in Seq(Range(Primary)) /\ Range(of) = Range(Primary) \cap set
    BY <1>1, <1>5, KeptIs
  <1>7. Range(of) = Sighted(value)  BY <1>4, <1>6 DEF Sighted
  <1>8. some = Kept(of, told)  BY SameHelpers
  <1> HIDE DEF some
  <1>9. Range(some) = Range(of) \cap told  BY <1>6, <1>8, KeptIs
  <1>10. Range(R!Ids(of)) = {g.id : g \in Sighted(value)}  BY <1>7, IdsAre
  <1>11. Range(R!Ids(some)) \subseteq {g.id : g \in Sighted(value)}
    <2>1. Range(R!Ids(some)) = {g.id : g \in Range(some)}  BY IdsAre
    <2>2. Range(some) \subseteq Sighted(value)  BY <1>7, <1>9
    <2>3. QED BY <2>1, <2>2
  <1>12. QED BY <1>10, <1>11 DEF of, some

LEMMA FlowIs ==
  ASSUME ReportTrace, FindingsAre, NEW f \in Range(Findings), f.kind = "sensitive_data_flow"
  PROVE  \E t : IsFlowOf(f, t)
  <1> DEFINE rule == R!RuleIds[2]
  <1>1. rule \in RuleId /\ f.kind = KindOf(rule) /\ R!StageOf[rule] = "Composite"
    BY RuleIdsAre, KindsAre
  <1>2. IsGraph(Finished)  BY FinishedIsGraph DEF ReportTrace, PipeTrace
  <1>3. MadeBy(rule) = R!FlowFindings(Finished, Primary)
    BY <1>1, <1>2, RulesMake DEF MadeBy, Before
  <1>4. f.rule = rule /\ \E g \in Range(MadeBy(rule)) : Copied(f, g, rule, f.id)
    BY <1>1, RuleOfKind
  <1> HIDE DEF rule
  <1>5. PICK t \in FirstFlow(Finished) : Copied(f, FlowOf(Finished, Primary, t), rule, f.id)
    BY <1>2, <1>3, <1>4, FlowsAre
  <1> DEFINE g == FlowOf(Finished, Primary, t)
             value == Finished.obs[t[1]].value
  <1>6. /\ g.evidence = t /\ g.value = value /\ g.severity = "High"
        /\ g.source = R!Resolved(Finished, t[1]).path /\ g.destination = R!Resolved(Finished, t[3]).endpoint
        /\ g.support = R!Ids(R!PresenceOf(Primary, value))
    BY DEF FlowOf, R!FlowFinding, R!Finding
  <1> HIDE DEF g
  <1>7. /\ f.evidence = g.evidence /\ f.value = g.value /\ f.severity = g.severity
        /\ f.source = g.source /\ f.destination = g.destination /\ f.support = g.support
    BY <1>5, Zenon DEF Copied, g
  <1>8. QED BY <1>5, <1>6, <1>7 DEF IsFlowOf

LEMMA EventsAreSeen ==
  ASSUME TraceInv, NEW n \in DOMAIN Finished.obs
  PROVE  /\ Finished.obs[n].type = "Event" <=> n \in Obs
         /\ Finished.obs[n].type = "Data" <=> n \notin Obs
  <1>1. \/ n \in Obs
        \/ n \notin Obs /\ \E k \in DOMAIN data : GraphDatum(Finished.obs[n], data[k])
    BY GraphIs DEF TraceInv
  <1>2. CASE n \in Obs
    <2>1. Finished.obs[n].type = "Event"  BY <1>2, GraphIs DEF TraceInv
    <2>2. QED BY <1>2, <2>1
  <1>3. CASE n \notin Obs
    <2>1. PICK k \in DOMAIN data : GraphDatum(Finished.obs[n], data[k])
      BY <1>1, <1>3
    <2>2. Finished.obs[n].type = "Data"  BY <2>1 DEF GraphDatum, DataType
    <2>3. QED BY <1>3, <2>2
  <1>4. QED BY <1>2, <1>3

LEMMA FlowEvidence ==
  ASSUME TraceInv, NEW t \in R!Flows(Finished)
  PROVE  IsFlowEvidence(t)
  <1> DEFINE A == {n \in R!Carriers(Finished, "Event", "read") : R!Resolved(Finished, n).path # NoSource}
             B == R!Carriers(Finished, "Data", "memory")
             C == {n \in R!Carriers(Finished, "Event", "write") : R!Resolved(Finished, n).endpoint # NoSource}
  <1>1. /\ t \in A \X B \X C /\ t[1] < t[3]
        /\ \A n \in {t[2], t[3]} : /\ Finished.obs[n].value = Finished.obs[t[1]].value
                                   /\ R!SameSession(Finished.obs[n], Finished.obs[t[1]])
    BY Zenon DEF R!Flows
  <1> HIDE DEF A, B, C
  <1>2. t = << t[1], t[2], t[3] >> /\ t[1] \in A /\ t[2] \in B /\ t[3] \in C
    BY <1>1
  <1>3. /\ t[1] \in DOMAIN Finished.obs /\ Finished.obs[t[1]].type = "Event" /\ Finished.obs[t[1]].call = "read"
        /\ Finished.obs[t[1]].value # NoValue /\ R!Resolved(Finished, t[1]).path # NoSource
    BY <1>2 DEF A, R!Carriers
  <1>4. /\ t[3] \in DOMAIN Finished.obs /\ Finished.obs[t[3]].type = "Event" /\ Finished.obs[t[3]].call = "write"
        /\ Finished.obs[t[3]].value # NoValue /\ R!Resolved(Finished, t[3]).endpoint # NoSource
    BY <1>2 DEF C, R!Carriers
  <1>5. t[2] \in DOMAIN Finished.obs /\ Finished.obs[t[2]].type = "Data" /\ Finished.obs[t[2]].call = "memory"
    BY <1>2 DEF B, R!Carriers
  <1>6. t[1] \in Obs /\ t[3] \in Obs  BY <1>3, <1>4, EventsAreSeen
  <1>7. Finished.obs[t[1]] = observations[t[1]] /\ Finished.obs[t[3]] = observations[t[3]]
    BY <1>6, SeenIs
  <1>8. QED BY <1>1, <1>2, <1>3, <1>4, <1>5, <1>6, <1>7 DEF IsFlowEvidence

LEMMA FirstIsFlow ==
  ASSUME NEW graph, NEW t \in FirstFlow(graph)
  PROVE  t \in R!Flows(graph)
  BY DEF FirstFlow, R!FirstFlows

(* What was extracted has a presence finding, if the rule is active.       *)
LEMMA PresenceIsFound ==
  ASSUME ReportTrace, FindingsAre, IsActive(R!RuleIds[3]), NEW n \in DOMAIN Finished.obs, Finished.obs[n].type = "Data"
  PROVE  \E g \in Sighted(Finished.obs[n].value) : n \in Range(g.evidence) /\ g.severity = "High"
  <1> DEFINE rule == R!RuleIds[3]
  <1>1. rule \in RuleId /\ KindOf(rule) = "sensitive_data_presence" /\ R!StageOf[rule] = "Primary"
    BY RuleIdsAre, KindsAre
  <1>2. IsGraph(Finished) /\ TraceInv
    BY FinishedIsGraph DEF ReportTrace, PipeTrace
  <1>3. MadeBy(rule) = R!PresenceFindings(Finished)
    BY <1>1, <1>2, RulesMake DEF MadeBy, Before
  <1> HIDE DEF rule
  <1>4. PICK N \in Nat : /\ DOMAIN Finished.obs = 1 .. N
                         /\ Picked(MadeBy(rule), N, {k \in 1 .. N : R!IsPresence(Finished.obs[k])}, [k \in 1 .. N |-> PresenceOn(Finished, k)])
    BY <1>2, <1>3, PresencesAre
  <1>5. R!IsPresence(Finished.obs[n])
    <2>1. n \notin Obs  BY <1>2, EventsAreSeen
    <2>2. PICK k \in DOMAIN data : GraphDatum(Finished.obs[n], data[k])
      BY <1>2, <2>1, GraphIs DEF TraceInv
    <2>3. Finished.obs[n].value = Secret  BY <2>2 DEF GraphDatum, DataType
    <2>4. QED BY <2>3, Values DEF R!IsPresence
  <1> DEFINE make == [k \in 1 .. N |-> PresenceOn(Finished, k)]
             fits == {k \in 1 .. N : R!IsPresence(Finished.obs[k])}
             g == PresenceOn(Finished, n)
  <1>6. n \in 1 .. N /\ n \in fits /\ make[n] = g  BY <1>4, <1>5
  <1> HIDE DEF make, fits
  <1>7. g \in Range(MadeBy(rule))
    <2>1. Range(MadeBy(rule)) = {make[k] : k \in (1 .. N) \cap fits}
      BY <1>4 DEF Picked, make, fits
    <2>2. QED BY <1>6, <2>1
  <1>8. g.value = Finished.obs[n].value /\ g.evidence = << n >> /\ g.severity = "High"
        /\ g.kind = "sensitive_data_presence"
    BY DEF PresenceOn, R!Finding
  <1> HIDE DEF g
  <1>9. PICK f \in Range(Findings) : Copied(f, g, rule, f.id)
    <2>1. IsActive(rule)  BY DEF rule
    <2>2. QED BY <1>1, <1>7, <2>1, Zenon DEF FindingsAre
  <1>10. f.rule = rule /\ f.value = g.value /\ f.evidence = g.evidence /\ f.severity = g.severity /\ f.kind = g.kind
    BY <1>9, Zenon DEF Copied
  <1>11. PICK k \in DOMAIN Findings : f = Findings[k]  BY DEF Range
  <1>12. k \in DOMAIN Primary /\ Findings[k] = Primary[k]
    <2>1. /\ \A l \in DOMAIN Primary : Findings[l] = Primary[l]
          /\ \A l \in DOMAIN Findings : l \notin DOMAIN Primary => R!StageOf[Findings[l].rule] = "Composite"
      BY Zenon DEF FindingsAre
    <2>2. QED BY <1>1, <1>10, <1>11, <2>1
  <1>13. f \in Sighted(Finished.obs[n].value)
    BY <1>8, <1>10, <1>11, <1>12 DEF Sighted, Range
  <1>14. n \in Range(f.evidence) /\ f.severity = "High"
    BY <1>8, <1>10 DEF Range
  <1>15. QED BY <1>13, <1>14

-----------------------------------------------------------------------------
(* No two findings of a rule have the same evidence.                       *)
LEMMA PickedDiffer ==
  ASSUME NEW s, NEW N \in Nat, NEW fits, NEW make, Picked(s, N, fits, make),
         \A n \in 1 .. N : make[n].evidence = << n >>,
         NEW i \in DOMAIN s, NEW j \in DOMAIN s, i # j
  PROVE  s[i].evidence # s[j].evidence
  <1>1. PICK from \in [DOMAIN s -> 1 .. N] :
          /\ \A k \in DOMAIN s : from[k] \in fits /\ s[k] = make[from[k]]
          /\ \A k, l \in DOMAIN s : k # l => from[k] # from[l]
    BY DEF Picked
  <1>2. from[i] \in 1 .. N /\ from[j] \in 1 .. N /\ from[i] # from[j]  BY <1>1
  <1>3. s[i].evidence = << from[i] >> /\ s[j].evidence = << from[j] >>
    BY <1>1, <1>2
  <1>4. << from[i] >> # << from[j] >>
    <2>1. << from[i] >>[1] = from[i] /\ << from[j] >>[1] = from[j]
      OBVIOUS
    <2>2. QED BY <1>2, <2>1
  <1>5. QED BY <1>3, <1>4

LEMMA PairIs ==
  ASSUME NEW e \in Nat \X Nat
  PROVE  IsPair(e)
  <1>1. PICK a \in Nat, b \in Nat : e = << a, b >>
    OBVIOUS
  <1>2. << a, b >> \in Seq(Nat) /\ DOMAIN << a, b >> = 1 .. 2 /\ << a, b >>[1] = a /\ << a, b >>[2] = b
    OBVIOUS
  <1>3. QED BY <1>1, <1>2 DEF IsPair

LEMMA PairsAreSame ==
  ASSUME NEW s, NEW d, NEW e, NEW M \in Nat, NEW N \in Nat, Paired(s, d, M), Paired(s, e, N),
         \A k \in 1 .. M : IsPair(d[k]), \A k \in 1 .. N : IsPair(e[k])
  PROVE  M = N /\ \A k \in 1 .. N : d[k] = e[k]
  <1>1. DOMAIN s = 1 .. 2 * M /\ DOMAIN s = 1 .. 2 * N  BY DEF Paired
  <1>2. M = N
    <2>1. \A k \in Int : k \in 1 .. 2 * M <=> k \in 1 .. 2 * N  BY <1>1
    <2>2. CASE M < N
      <3>1. 2 * N \in Int /\ 2 * N \in 1 .. 2 * N /\ 2 * N \notin 1 .. 2 * M
        BY <2>2
      <3>2. QED BY <2>1, <3>1
    <2>3. CASE N < M
      <3>1. 2 * M \in Int /\ 2 * M \in 1 .. 2 * M /\ 2 * M \notin 1 .. 2 * N
        BY <2>3
      <3>2. QED BY <2>1, <3>1
    <2>4. QED BY <2>2, <2>3
  <1>3. ASSUME NEW k \in 1 .. N PROVE d[k] = e[k]
    <2>1. d[k][1] = e[k][1] /\ d[k][2] = e[k][2]  BY <1>2 DEF Paired
    <2>2. d[k] = << d[k][1], d[k][2] >> /\ e[k] = << e[k][1], e[k][2] >>
      BY <1>2 DEF IsPair
    <2>3. QED BY <2>1, <2>2
  <1>4. QED BY <1>2, <1>3

LEMMA PathPairs ==
  ASSUME PipeTrace, NEW e, NEW N, IsPath(e, N)
  PROVE  (\A k \in 1 .. N : IsPair(e[k])) /\ Paired(FlattenSeq(e), e, N)
  <1>1. N \in Nat /\ DOMAIN e = 1 .. N /\ e \in Seq(Range(e)) /\ \A k \in 1 .. N : e[k] \in Range(edges)
    BY DEF IsPath
  <1>2. Range(edges) \subseteq Nat \X Nat
    BY ItsRange DEF PipeTrace, TraceInv, TypeInv
  <1>3. \A k \in 1 .. N : IsPair(e[k])  BY <1>1, <1>2, PairIs
  <1>4. e \in Seq(Seq(Nat))
    <2>1. \A k \in 1 .. N : e[k] \in Seq(Nat)  BY <1>3 DEF IsPair
    <2>2. Len(e) = N /\ \A k \in 1 .. Len(e) : e[k] \in Range(e)  BY <1>1
    <2>3. Range(e) \subseteq Seq(Nat)  BY <1>1, <2>1 DEF Range
    <2>4. QED BY <1>1, <2>3
  <1>5. \A k \in 1 .. N : DOMAIN e[k] = 1 .. 2  BY <1>3 DEF IsPair
  <1>6. QED BY <1>1, <1>3, <1>4, <1>5, FlattenPairs

LEMMA SamePath ==
  ASSUME PipeTrace, NEW p \in Chains(Finished), NEW q \in Chains(Finished),
         FlattenSeq(Along(Finished, p)) = FlattenSeq(Along(Finished, q))
  PROVE  Along(Finished, p) = Along(Finished, q)
  <1> DEFINE d == Along(Finished, p)
             e == Along(Finished, q)
  <1>1. PICK M : IsPath(d, M) /\ DOMAIN p = 1 .. M  BY PathIs
  <1>2. PICK N : IsPath(e, N) /\ DOMAIN q = 1 .. N  BY PathIs
  <1>3. d = [k \in 1 .. M |-> d[k]] /\ e = [k \in 1 .. N |-> e[k]]
    BY <1>1, <1>2 DEF Along
  <1>4. FlattenSeq(d) = FlattenSeq(e)
    OBVIOUS
  <1> HIDE DEF d, e
  <1>5. M \in Nat /\ N \in Nat  BY <1>1, <1>2 DEF IsPath
  <1>6. /\ (\A k \in 1 .. M : IsPair(d[k])) /\ Paired(FlattenSeq(d), d, M)
        /\ (\A k \in 1 .. N : IsPair(e[k])) /\ Paired(FlattenSeq(d), e, N)
    BY <1>1, <1>2, <1>4, PathPairs
  <1>7. M = N /\ \A k \in 1 .. N : d[k] = e[k]  BY <1>5, <1>6, PairsAreSame
  <1>8. d = e  BY <1>3, <1>7
  <1>9. QED BY <1>8 DEF d, e

LEMMA EvidenceDiffers ==
  ASSUME ReportTrace, NEW rule \in RuleId, NEW i \in DOMAIN MadeBy(rule), NEW j \in DOMAIN MadeBy(rule), i # j
  PROVE  MadeBy(rule)[i].evidence # MadeBy(rule)[j].evidence
  <1> DEFINE made == MadeBy(rule)
  <1>1. IsGraph(Finished) /\ PipeTrace
    BY FinishedIsGraph DEF ReportTrace, PipeTrace
  <1>2. rule \in {R!RuleIds[1], R!RuleIds[2], R!RuleIds[3], R!RuleIds[4], R!RuleIds[5]}
    BY RuleIdsAre
  <1>3. \A n : AccessOn(Finished, n).evidence = << n >> /\ ConnectionOn(Finished, n).evidence = << n >>
               /\ PresenceOn(Finished, n).evidence = << n >>
    BY DEF AccessOn, ConnectionOn, PresenceOn, R!Finding
  <1>4. CASE rule = R!RuleIds[1]
    <2>1. made = R!NetworkFindings(Finished)
      BY <1>1, <1>4, RulesMake DEF MadeBy
    <2> HIDE DEF made
    <2>2. PICK N \in Nat : Picked(made, N, {n \in 1 .. N : R!IsSensitiveConnect(Finished.obs[n])},
                                  [n \in 1 .. N |-> ConnectionOn(Finished, n)])
      BY <1>1, <2>1, ConnectionsAre
    <2>3. made[i].evidence # made[j].evidence
      <3> DEFINE make == [n \in 1 .. N |-> ConnectionOn(Finished, n)]
                 fits == {n \in 1 .. N : R!IsSensitiveConnect(Finished.obs[n])}
      <3>1. \A n \in 1 .. N : make[n].evidence = << n >>  BY <1>3
      <3>2. Picked(made, N, fits, make)  BY <2>2
      <3>3. i \in DOMAIN made /\ j \in DOMAIN made  BY DEF made
      <3> HIDE DEF make, fits
      <3>4. QED BY <3>1, <3>2, <3>3, PickedDiffer
    <2>4. QED BY <2>3 DEF made
  <1>5. CASE rule = R!RuleIds[2]
    <2>1. made = R!FlowFindings(Finished, Before(rule))
      BY <1>1, <1>5, RulesMake DEF MadeBy
    <2> HIDE DEF made
    <2>2. IsInjective(made) /\ Range(made) = {FlowOf(Finished, Before(rule), t) : t \in FirstFlow(Finished)}
      BY <1>1, <2>1, FlowsAre
    <2>3. i \in DOMAIN made /\ j \in DOMAIN made /\ made[i] \in Range(made) /\ made[j] \in Range(made)
      BY DEF made, Range
    <2>4. PICK t \in FirstFlow(Finished) : made[i] = FlowOf(Finished, Before(rule), t)
      BY <2>2, <2>3
    <2>5. PICK u \in FirstFlow(Finished) : made[j] = FlowOf(Finished, Before(rule), u)
      BY <2>2, <2>3
    <2>6. \A v : FlowOf(Finished, Before(rule), v).evidence = v
      BY DEF FlowOf, R!FlowFinding, R!Finding
    <2>7. made[i] # made[j]  BY <2>2, <2>3 DEF IsInjective
    <2>8. QED BY <2>4, <2>5, <2>6, <2>7 DEF made
  <1>6. CASE rule = R!RuleIds[3]
    <2>1. made = R!PresenceFindings(Finished)
      BY <1>1, <1>6, RulesMake DEF MadeBy
    <2> HIDE DEF made
    <2>2. PICK N \in Nat : Picked(made, N, {n \in 1 .. N : R!IsPresence(Finished.obs[n])},
                                  [n \in 1 .. N |-> PresenceOn(Finished, n)])
      BY <1>1, <2>1, PresencesAre
    <2>3. made[i].evidence # made[j].evidence
      <3> DEFINE make == [n \in 1 .. N |-> PresenceOn(Finished, n)]
                 fits == {n \in 1 .. N : R!IsPresence(Finished.obs[n])}
      <3>1. \A n \in 1 .. N : make[n].evidence = << n >>  BY <1>3
      <3>2. Picked(made, N, fits, make)  BY <2>2
      <3>3. i \in DOMAIN made /\ j \in DOMAIN made  BY DEF made
      <3> HIDE DEF make, fits
      <3>4. QED BY <3>1, <3>2, <3>3, PickedDiffer
    <2>4. QED BY <2>3 DEF made
  <1>7. CASE rule = R!RuleIds[4]
    <2>1. made = R!FileAccessFindings(Finished)
      BY <1>1, <1>7, RulesMake DEF MadeBy
    <2> HIDE DEF made
    <2>2. PICK N \in Nat : Picked(made, N, {n \in 1 .. N : R!IsSensitiveOpen(Finished.obs[n])},
                                  [n \in 1 .. N |-> AccessOn(Finished, n)])
      BY <1>1, <2>1, AccessesAre
    <2>3. made[i].evidence # made[j].evidence
      <3> DEFINE make == [n \in 1 .. N |-> AccessOn(Finished, n)]
                 fits == {n \in 1 .. N : R!IsSensitiveOpen(Finished.obs[n])}
      <3>1. \A n \in 1 .. N : make[n].evidence = << n >>  BY <1>3
      <3>2. Picked(made, N, fits, make)  BY <2>2
      <3>3. i \in DOMAIN made /\ j \in DOMAIN made  BY DEF made
      <3> HIDE DEF make, fits
      <3>4. QED BY <3>1, <3>2, <3>3, PickedDiffer
    <2>4. QED BY <2>3 DEF made
  <1>8. CASE rule = R!RuleIds[5]
    <2>1. made = R!ChainFindings(Finished, Before(rule))
      BY <1>1, <1>8, RulesMake DEF MadeBy
    <2> DEFINE chain(p) == ChainOf(Finished, Before(rule), p)
    <2> HIDE DEF made
    <2>2. IsInjective(made) /\ Range(made) = {chain(p) : p \in Chains(Finished)}
      BY <1>1, <2>1, ChainsAre
    <2>3. i \in DOMAIN made /\ j \in DOMAIN made /\ made[i] \in Range(made) /\ made[j] \in Range(made)
      BY DEF made, Range
    <2>4. \A p : chain(p).evidence = FlattenSeq(Along(Finished, p))
      <3>1. \A p : chain(p).evidence = R!FlattenSeq(Along(Finished, p))
        BY DEF ChainOf, R!ChainFinding, R!Finding
      <3>2. QED BY <3>1, SameHelpers
    <2>5. \A p, q : Along(Finished, p) = Along(Finished, q) => chain(p) = chain(q)
      BY DEF ChainOf
    <2> HIDE DEF chain
    <2>6. PICK p \in Chains(Finished) : made[i] = chain(p)  BY <2>2, <2>3
    <2>7. PICK q \in Chains(Finished) : made[j] = chain(q)  BY <2>2, <2>3
    <2>8. made[i] # made[j]  BY <2>2, <2>3 DEF IsInjective
    <2>9. Along(Finished, p) # Along(Finished, q)  BY <2>5, <2>6, <2>7, <2>8
    <2>10. FlattenSeq(Along(Finished, p)) # FlattenSeq(Along(Finished, q))
      BY <1>1, <2>9, SamePath
    <2>11. QED BY <2>4, <2>6, <2>7, <2>10 DEF made
  <1>9. QED BY <1>2, <1>4, <1>5, <1>6, <1>7, <1>8

-----------------------------------------------------------------------------
(* What a composite finding rests on.                                      *)
LEMMA ChainSupport ==
  ASSUME FindingsAre, NEW f, NEW path, IsChainOf(f, path)
  PROVE  /\ Range(f.support) \subseteq {g.id : g \in Sighted(f.value)}
         /\ f.severity = "High"
  <1> DEFINE g == ChainOf(Finished, Primary, path)
             e == Along(Finished, path)
             s == R!ChainSessions(Finished, e)
             told == {h \in R!Range(Primary) :
                        \E n \in R!Range(h.evidence) : R!Session(Finished.obs[n]) \in R!Range(s)}
  <1>1. /\ g.value = Finished.obs[e[1][1]].value /\ g.severity = "High"
        /\ g.support = R!Ids(R!Kept(R!PresenceOf(Primary, Finished.obs[e[1][1]].value), told))
    BY DEF ChainOf, R!ChainFinding, R!Finding
  <1> HIDE DEF g, told, e
  <1>2. f.value = g.value /\ f.severity = g.severity /\ f.support = g.support
    BY Zenon DEF IsChainOf, Copied, g
  <1>3. QED BY <1>1, <1>2, SupportsAre

LEMMA FlowSupport ==
  ASSUME FindingsAre, NEW f, NEW t, IsFlowOf(f, t)
  PROVE  /\ Range(f.support) = {g.id : g \in Sighted(f.value)}
         /\ f.severity = "High"
  BY SupportsAre DEF IsFlowOf

(* The evidence of a chain are calls.                                      *)
LEMMA ChainEvidence ==
  ASSUME ReportTrace, NEW f, NEW path, IsChainOf(f, path), NEW n \in Range(f.evidence)
  PROVE  n \in Obs
  <1>1. PipeTrace  BY DEF ReportTrace
  <1> DEFINE e == f.edges
  <1>2. path \in Chains(Finished) /\ e = Along(Finished, path) /\ f.evidence = FlattenSeq(e)
    BY DEF IsChainOf
  <1>3. PICK N : IsPath(e, N)  BY <1>1, <1>2, PathIs
  <1> HIDE DEF e
  <1>4. N \in Nat /\ Paired(f.evidence, e, N)
    BY <1>1, <1>2, <1>3, PathPairs DEF IsPath
  <1>5. \A k \in 1 .. N : e[k][1] \in Obs /\ e[k][2] \in Obs
    BY <1>3 DEF IsPath, IsEdge
  <1>6. PICK m \in 1 .. 2 * N : n = f.evidence[m]  BY <1>4 DEF Range, Paired
  <1>7. PICK k \in 1 .. N : m = 2 * k - 1 \/ m = 2 * k
    <2>1. PICK q \in Nat : m = 2 * q \/ m = 2 * q + 1
      <3>1. m \div 2 \in Nat /\ (m = 2 * (m \div 2) \/ m = 2 * (m \div 2) + 1)
        BY <1>6
      <3>2. QED BY <3>1
    <2>2. CASE m = 2 * q
      <3>1. q \in 1 .. N  BY <1>4, <2>2
      <3>2. QED BY <2>2, <3>1
    <2>3. CASE m = 2 * q + 1
      <3>1. q + 1 \in 1 .. N /\ m = 2 * (q + 1) - 1  BY <1>4, <2>3
      <3>2. QED BY <3>1
    <2>4. QED BY <2>1, <2>2, <2>3
  <1>8. f.evidence[2 * k - 1] = e[k][1] /\ f.evidence[2 * k] = e[k][2]
    BY <1>4 DEF Paired
  <1>9. QED BY <1>5, <1>6, <1>7, <1>8

(* What the presence findings are.                                         *)
LEMMA SightedShown ==
  ASSUME ReportTrace, FindingsAre, NEW value, NEW g \in Sighted(value)
  PROVE  /\ g.severity = "High" /\ g \in Range(Findings)
         /\ g.kind = "sensitive_data_presence" /\ g.value = value
  <1> DEFINE rule == R!RuleIds[3]
  <1>1. rule \in RuleId /\ KindOf(rule) = "sensitive_data_presence" /\ R!StageOf[rule] = "Primary"
    BY RuleIdsAre, KindsAre
  <1>2. IsGraph(Finished)  BY FinishedIsGraph DEF ReportTrace, PipeTrace
  <1>3. MadeBy(rule) = R!PresenceFindings(Finished)
    BY <1>1, <1>2, RulesMake DEF MadeBy, Before
  <1> HIDE DEF rule
  <1>4. g \in Range(Primary) /\ g.kind = "sensitive_data_presence" /\ g.value = value
    BY DEF Sighted
  <1>5. g \in Range(Findings)
    <2>1. PICK k \in DOMAIN Primary : g = Primary[k]  BY <1>4 DEF Range
    <2>2. k \in DOMAIN Findings /\ Findings[k] = Primary[k]
      BY Zenon DEF FindingsAre
    <2>3. QED BY <2>1, <2>2 DEF Range
  <1>6. PICK h \in Range(MadeBy(rule)) : Copied(g, h, rule, g.id)
    BY <1>1, <1>4, <1>5, RuleOfKind
  <1>7. h.severity = "High"
    <2>1. PICK N \in Nat : Picked(MadeBy(rule), N, {k \in 1 .. N : R!IsPresence(Finished.obs[k])}, [k \in 1 .. N |-> PresenceOn(Finished, k)])
      BY <1>2, <1>3, PresencesAre
    <2> DEFINE make == [k \in 1 .. N |-> PresenceOn(Finished, k)]
    <2>2. \A k \in 1 .. N : make[k].severity = "High"
      BY DEF PresenceOn, R!Finding
    <2>3. \E k \in 1 .. N : h = make[k]  BY <2>1 DEF Picked
    <2> HIDE DEF make
    <2>4. QED BY <2>2, <2>3
  <1>8. g.severity = h.severity  BY <1>6, Zenon DEF Copied
  <1>9. QED BY <1>4, <1>5, <1>7, <1>8

(* The shown findings with the ids that a finding cites are those it rests *)
(* on.                                                                     *)
LEMMA SupportOf ==
  ASSUME ReportTrace, FindingsAre, NEW minimum, NEW f \in Range(R!Filtered(Findings, minimum)), f.severity = "High",
         Range(f.support) \subseteq {g.id : g \in Sighted(f.value)}
  PROVE  LET shown == Range(R!Filtered(Findings, minimum))
             support == {g \in shown : g.id \in Range(f.support)} IN
         /\ \A id \in Range(f.support) : \E g \in support : g.id = id
         /\ \A g \in support : g.kind = "sensitive_data_presence" /\ g.value = f.value
         /\ \A g \in Sighted(f.value) : g.id \in Range(f.support) => g \in support
  <1> DEFINE shown == Range(R!Filtered(Findings, minimum))
             support == {g \in shown : g.id \in Range(f.support)}
  <1>1. Findings \in Seq(Range(Findings))  BY Zenon DEF FindingsAre
  <1>2. shown \subseteq Range(Findings) /\ \A g \in shown, h \in Range(Findings) : h.severity = g.severity => h \in shown
    BY <1>1, ShownIs
  <1>3. f \in shown
    OBVIOUS
  <1> HIDE DEF shown
  <1>4. \A g \in Sighted(f.value) : g \in shown  BY <1>2, <1>3, SightedShown
  <1>5. \A g, h \in Range(Findings) : g.id = h.id => g = h
    <2>1. \A k \in DOMAIN Findings : Findings[k].id = k
      BY Zenon DEF FindingsAre
    <2>2. QED BY <2>1 DEF Range
  <1>6. ASSUME NEW id \in Range(f.support) PROVE \E g \in support : g.id = id
    <2>1. PICK g \in Sighted(f.value) : g.id = id
      OBVIOUS
    <2>2. QED BY <1>4, <2>1
  <1>7. ASSUME NEW g \in support PROVE g.kind = "sensitive_data_presence" /\ g.value = f.value
    <2>1. PICK h \in Sighted(f.value) : h.id = g.id
      OBVIOUS
    <2>2. h \in Range(Findings) /\ h.kind = "sensitive_data_presence" /\ h.value = f.value
      BY SightedShown
    <2>3. g \in Range(Findings)  BY <1>2
    <2>4. g = h  BY <1>5, <2>1, <2>2, <2>3
    <2>5. QED BY <2>2, <2>4
  <1>8. \A g \in Sighted(f.value) : g.id \in Range(f.support) => g \in support
    BY <1>4
  <1>9. QED BY <1>6, <1>7, <1>8 DEF shown

LEMMA SupportIs ==
  ASSUME ReportTrace
  PROVE  SupportIsReported
  <1> SUFFICES ASSUME Reported
               PROVE  /\ \A k, n \in DOMAIN report.findings : k # n =>
                           LET f == report.findings[k]
                               g == report.findings[n]
                           IN f.id # g.id /\ ~(f.rule = g.rule /\ f.evidence = g.evidence)
                      /\ \A f \in Range(report.findings) : IsActive(f.rule)
                      /\ \A f \in Range(report.shown) :
                           f.kind \in {"sensitive_data_flow", "sensitive_value_cross_process_pipe_chain"} =>
                             LET support == {g \in Range(report.shown) : g.id \in Range(f.support)} IN
                             /\ \A id \in Range(f.support) : \E g \in support : g.id = id
                             /\ \A g \in support : g.kind = "sensitive_data_presence" /\ g.value = f.value
                             /\ IsActive(R!RuleIds[3]) =>
                                  \A n \in Range(f.evidence) : Graph.obs[n].type = "Data" =>
                                    \E g \in support : n \in Range(g.evidence)
    BY Zenon DEF SupportIsReported
  <1>1. PipeTrace /\ TraceInv /\ RegistryInv  BY DEF ReportTrace, PipeTrace
  <1>2. FindingsAre  BY <1>1, FindingsAreMade
  <1>3. report.findings = Findings /\ Graph = Finished
    BY <1>1, ReportedIs DEF TraceInv
  <1>4. PICK minimum : report.shown = R!Filtered(Findings, minimum)
    BY <1>1, ReportedIs DEF TraceInv
  <1>5. \A k \in DOMAIN Findings : Findings[k].id = k /\ FromRule(Findings[k])
    BY <1>2, Zenon DEF FindingsAre
  <1>6. ASSUME NEW k \in DOMAIN Findings, NEW n \in DOMAIN Findings, k # n
        PROVE  Findings[k].id # Findings[n].id
               /\ ~(Findings[k].rule = Findings[n].rule /\ Findings[k].evidence = Findings[n].evidence)
    <2>1. Findings[k].id # Findings[n].id  BY <1>5, <1>6
    <2>2. ASSUME Findings[k].rule = Findings[n].rule PROVE Findings[k].evidence # Findings[n].evidence
      <3> DEFINE made == MadeBy(Findings[k].rule)
      <3>1. PICK i \in DOMAIN made, j \in DOMAIN made :
              /\ i # j
              /\ Copied(Findings[k], made[i], Findings[k].rule, k)
              /\ Copied(Findings[n], made[j], Findings[k].rule, n)
        BY <1>2, <1>6, <2>2, Zenon DEF FindingsAre
      <3>2. Findings[k].evidence = made[i].evidence /\ Findings[n].evidence = made[j].evidence
        BY <3>1, Zenon DEF Copied
      <3>3. Findings[k].rule \in RuleId  BY <1>5 DEF FromRule
      <3>4. made[i].evidence # made[j].evidence
        BY <3>1, <3>3, EvidenceDiffers
      <3>5. QED BY <3>2, <3>4
    <2>3. QED BY <2>1, <2>2
  <1>7. \A f \in Range(Findings) : IsActive(f.rule)
    BY <1>5 DEF Range, FromRule
  <1>8. ASSUME NEW f \in Range(report.shown), f.kind \in {"sensitive_data_flow", "sensitive_value_cross_process_pipe_chain"}
        PROVE  LET support == {g \in Range(report.shown) : g.id \in Range(f.support)} IN
               /\ \A id \in Range(f.support) : \E g \in support : g.id = id
               /\ \A g \in support : g.kind = "sensitive_data_presence" /\ g.value = f.value
               /\ IsActive(R!RuleIds[3]) =>
                    \A n \in Range(f.evidence) : Finished.obs[n].type = "Data" =>
                      \E g \in support : n \in Range(g.evidence)
    <2> DEFINE shown == Range(report.shown)
               support == {g \in shown : g.id \in Range(f.support)}
    <2>1. f \in Range(Findings)
      <3>1. Findings \in Seq(Range(Findings))  BY <1>2, Zenon DEF FindingsAre
      <3>2. QED BY <1>4, <1>8, <3>1, ShownIs
    <2>2. CASE f.kind = "sensitive_data_flow"
      <3>1. PICK t : IsFlowOf(f, t)  BY <1>2, <2>1, <2>2, FlowIs
      <3>2. Range(f.support) = {g.id : g \in Sighted(f.value)} /\ f.severity = "High"
        BY <1>2, <3>1, FlowSupport
      <3>3. /\ \A id \in Range(f.support) : \E g \in support : g.id = id
            /\ \A g \in support : g.kind = "sensitive_data_presence" /\ g.value = f.value
            /\ \A g \in Sighted(f.value) : g.id \in Range(f.support) => g \in support
        BY <1>2, <1>4, <1>8, <3>2, SupportOf
      <3>4. ASSUME IsActive(R!RuleIds[3]), NEW n \in Range(f.evidence), Finished.obs[n].type = "Data"
            PROVE  \E g \in support : n \in Range(g.evidence)
        <4>1. IsFlowEvidence(t) /\ f.evidence = t /\ f.value = Finished.obs[t[1]].value
          BY <1>1, <3>1, FirstIsFlow, FlowEvidence DEF IsFlowOf
        <4>2. n = t[1] \/ n = t[2] \/ n = t[3]
          <5>1. t = << t[1], t[2], t[3] >>  BY <4>1 DEF IsFlowEvidence
          <5>2. DOMAIN t = 1 .. 3  BY <5>1
          <5>3. QED BY <3>4, <4>1, <5>2 DEF Range
        <4>3. t[1] \in Obs /\ t[3] \in Obs /\ t[2] \in DOMAIN Finished.obs /\ Finished.obs[t[2]].value = f.value
          BY <4>1 DEF IsFlowEvidence
        <4>4. n = t[2]
          <5>1. \A m \in Obs : Finished.obs[m].type # "Data"
            BY <1>1, EventsAreSeen, SeenIs
          <5>2. QED BY <3>4, <4>2, <4>3, <5>1
        <4>5. PICK g \in Sighted(f.value) : n \in Range(g.evidence)
          BY <1>2, <3>4, <4>3, <4>4, PresenceIsFound
        <4>6. g.id \in Range(f.support)  BY <3>2
        <4>7. QED BY <3>3, <4>5, <4>6
      <3>5. QED BY <3>3, <3>4
    <2>3. CASE f.kind = "sensitive_value_cross_process_pipe_chain"
      <3>1. PICK path : IsChainOf(f, path)  BY <1>2, <2>1, <2>3, ChainIs
      <3>2. Range(f.support) \subseteq {g.id : g \in Sighted(f.value)} /\ f.severity = "High"
        BY <1>2, <3>1, ChainSupport
      <3>3. /\ \A id \in Range(f.support) : \E g \in support : g.id = id
            /\ \A g \in support : g.kind = "sensitive_data_presence" /\ g.value = f.value
        BY <1>2, <1>4, <1>8, <3>2, SupportOf
      <3>4. \A n \in Range(f.evidence) : Finished.obs[n].type # "Data"
        <4>1. \A n \in Range(f.evidence) : n \in Obs  BY <3>1, ChainEvidence
        <4>2. QED BY <1>1, <4>1, EventsAreSeen, SeenIs
      <3>5. QED BY <3>3, <3>4
    <2>4. QED BY <1>8, <2>2, <2>3
  <1>9. QED BY <1>3, <1>6, <1>7, <1>8

(* A composite finding's support is in the report with it, no rule has run *)
(* twice and none that is disabled (SupportIsReported).                    *)
THEOREM SupportIsAlwaysReported == Spec => []SupportIsReported
  <1>1. ReportTrace => SupportIsReported  BY SupportIs
  <1>2. QED BY <1>1, ReportIsKept, PTL

-----------------------------------------------------------------------------
(* The programs of images.                                                 *)
LEMMA ProgramsOfEntry ==
  ASSUME TypeInv, ProgramInv, NEW t \in Thread, NEW c, NEW n, Entered(t, c, n)
  PROVE  ProgramInv'
  <1>1. /\ n \notin Obs /\ Obs' = Obs \cup {n} /\ Proc' = Proc /\ Of(t) \in Proc
        /\ \A m \in Obs : observations'[m] = observations[m]
        /\ UNCHANGED << program, generation >>
        /\ \A p \in Proc : generation[p] \in Nat
    BY SameTypes DEF Entered, TypeInv
  <1>2. Fitting(Of(t), c, workload.payloads[t])  BY DEF Entered
  <1>3. LET o == observations'[n] IN
        /\ o.pid = Of(t) /\ o.gen = generation[Of(t)] /\ o.call = c.op /\ o.end = 0
        /\ o.call = "execve" => o.source = c.what
    BY EntryStamps DEF Entered
  <1>4. ASSUME NEW p \in Proc, NEW g \in Nat, g < generation[p] PROVE Succeeded(p, g)'
    <2>1. Succeeded(p, g)  BY <1>4 DEF ProgramInv
    <2>2. ~Execed(n, p, g)'  BY <1>1, <1>3, <1>4 DEF Execed
    <2>3. \A m \in Obs : Execed(m, p, g)' <=> Execed(m, p, g)
      BY <1>1 DEF Execed
    <2>4. QED BY <1>1, <2>1, <2>2, <2>3 DEF Succeeded
  <1>5. c.op = "execve" => c.what \in Program  BY <1>2 DEF Fitting
  <1>6. \A m \in Obs' : LET o == observations'[m] IN
          o.call = "execve" => o.source \in Program /\ (o.ret = 0 /\ o.end # 0 => o.gen < generation[o.pid])
    BY <1>1, <1>3, <1>5 DEF ProgramInv
  <1>7. QED BY <1>1, <1>4, <1>6 DEF ProgramInv

LEMMA ProgramsOfExit ==
  ASSUME TypeInv, CallInv, ProgramInv, NEW t \in Thread, NEW n, Left(t, n)
  PROVE  ProgramInv'
  <1>1. /\ n = call[t].obs /\ n \in Obs /\ Obs' = Obs /\ Proc' = Proc /\ Of(t) \in Proc
        /\ \A m \in Obs : m # n => observations'[m] = observations[m]
        /\ UNCHANGED << program, generation >>
        /\ call[t] # NoCall /\ call[t].done /\ clock \in Nat
    BY SameTypes DEF Left
  <1>2. SameCall(n) /\ observations'[n].ret = call[t].ret /\ observations'[n].end = clock + 1
    BY <1>1, LeftKeeps
  <1>3. Underway(t)  BY <1>1 DEF CallInv
  <1>4. observations[n].gen \in Nat /\ generation[Of(t)] \in Nat
    BY <1>1, ObsTypes DEF EventType, TypeInv
  <1>5. observations[n].call = "execve" /\ observations[n].gen < generation[Of(t)] => call[t].ret = 0
    BY <1>1, <1>3, <1>4 DEF Underway, Changed
  <1>6. observations[n].call = "execve" /\ call[t].ret = 0 => observations[n].gen < generation[Of(t)]
    BY <1>1, <1>3, <1>4 DEF Underway, Changed
  <1>7. ASSUME NEW p \in Proc, NEW g \in Nat, g < generation[p] PROVE Succeeded(p, g)'
    <2>1. Succeeded(p, g)  BY <1>7 DEF ProgramInv
    <2>2. Execed(n, p, g)' <=> Execed(n, p, g)
      BY <1>1, <1>2, <1>3, <1>5, <1>7 DEF Execed, SameCall, Underway
    <2>3. \A m \in Obs : Execed(m, p, g)' <=> Execed(m, p, g)
      BY <1>1, <2>2 DEF Execed
    <2>4. \A m \in Obs : observations'[m].source = observations[m].source
      BY <1>1, <1>2 DEF SameCall
    <2>5. QED BY <1>1, <2>1, <2>3, <2>4 DEF Succeeded
  <1>8. \A m \in Obs' : LET o == observations'[m] IN
          o.call = "execve" => o.source \in Program /\ (o.ret = 0 /\ o.end # 0 => o.gen < generation[o.pid])
    BY <1>1, <1>2, <1>3, <1>6 DEF ProgramInv, SameCall, Underway
  <1>9. QED BY <1>1, <1>7, <1>8 DEF ProgramInv

LEMMA ProgramsOfExec ==
  ASSUME TypeInv, CallInv, ProgramInv, NEW t \in Thread, Execs(t)
  PROVE  ProgramInv'
  <1>a. Affected(t, 0) /\ call[t].op = "execve"
    BY ExecsIs
  <1>b. Of(t) \in Proc /\ generation[Of(t)] \in Nat
    BY <1>a DEF Affected, TypeInv
  <1>c. PICK p \in Proc : p = Of(t)
    BY <1>b
  <1>d. PICK h \in Nat : h = generation[p]
    BY <1>b, <1>c
  <1>e. PICK new : new = << p, h + 1 >>
    OBVIOUS
  <1>f. program' = [i \in DOMAIN program \cup {<< Of(t), generation[Of(t)] + 1 >>} |->
                      IF i = << Of(t), generation[Of(t)] + 1 >> THEN call[t].what ELSE program[i]]
    BY ExecsIs
  <1>1. program' = [i \in DOMAIN program \cup {new} |-> IF i = new THEN call[t].what ELSE program[i]]
    BY <1>c, <1>d, <1>e, <1>f
  <1>2. call[t] # NoCall /\ ~call[t].done  BY <1>a DEF Affected
  <1>o. Proc' = Proc /\ observations' = observations
    BY <1>a, SameTypes DEF Affected
  <1>p. Obs' = Obs
    BY <1>o DEF Obs
  <1>q. \A q \in Proc : generation[q] \in Nat /\ generation'[q] = generation[q] + IF q = p THEN 1 ELSE 0
    BY <1>a, <1>c DEF Affected, TypeInv
  <1>3. Underway(t)  BY <1>2 DEF CallInv
  <1>4. /\ new \in DOMAIN program' /\ program'[new] = call[t].what
        /\ \A i \in DOMAIN program : i \in DOMAIN program' /\ (i # new => program'[i] = program[i])
    BY <1>1
  <1>5. ASSUME NEW n \in Obs, Execed(n, p, h) PROVE n = call[t].obs
    <2>1. observations[n].end = 0  BY <1>5, <1>d DEF ProgramInv, Execed
    <2>2. PICK u \in Thread : call[u] # NoCall /\ call[u].obs = n
      BY <2>1 DEF CallInv
    <2>3. Of(u) = p  BY <1>5, <2>2 DEF CallInv, Underway, Execed
    <2>4. u = t  BY <1>a, <1>2, <1>c, <2>3, ExecAlone
    <2>5. QED BY <2>2, <2>4
  <1>x. ASSUME NEW q, NEW g PROVE \A n : Execed(n, q, g)' <=> Execed(n, q, g)
    BY <1>o DEF Execed
  <1>6. Succeeded(p, h)'
    <2>1. call[t].obs \in Obs /\ Execed(call[t].obs, p, h) /\ observations[call[t].obs].source = call[t].what
      <3>1. observations[call[t].obs].gen \in Nat
        BY <1>3, ObsTypes DEF Underway, EventType
      <3>2. QED BY <1>a, <1>2, <1>c, <1>d, <1>3, <3>1 DEF Underway, Changed, Execed
    <2>2. \A n \in Obs' : Execed(n, p, h)' => observations'[n].source = program'[<< p, h + 1 >>]
      BY <1>4, <1>5, <1>e, <1>o, <1>p, <1>x, <2>1
    <2>3. \E n \in Obs' : Execed(n, p, h)'  BY <1>p, <1>x, <2>1
    <2>4. << p, h + 1 >> \in DOMAIN program'  BY <1>4, <1>e
    <2>5. QED BY <2>2, <2>3, <2>4 DEF Succeeded
  <1>7. ASSUME NEW q \in Proc, NEW g \in Nat, g < generation[q] PROVE Succeeded(q, g)'
    <2>1. Succeeded(q, g)  BY <1>7 DEF ProgramInv
    <2>2. << q, g + 1 >> # new  BY <1>d, <1>e, <1>7
    <2>3. << q, g + 1 >> \in DOMAIN program' /\ program'[<< q, g + 1 >>] = program[<< q, g + 1 >>]
      BY <1>4, <2>1, <2>2 DEF Succeeded
    <2>4. \A n \in Obs' : Execed(n, q, g)' => observations'[n].source = program'[<< q, g + 1 >>]
      BY <1>o, <1>p, <1>x, <2>1, <2>3 DEF Succeeded
    <2>5. \E n \in Obs' : Execed(n, q, g)'  BY <1>p, <1>x, <2>1 DEF Succeeded
    <2>6. QED BY <2>3, <2>4, <2>5 DEF Succeeded
  <1>8. ASSUME NEW q \in Proc, NEW g \in Nat, g < generation'[q] PROVE Succeeded(q, g)'
    <2>1. CASE g < generation[q]  BY <1>7, <2>1
    <2>2. CASE ~(g < generation[q])
      <3>1. q = p /\ g = h  BY <1>q, <1>d, <1>8, <2>2
      <3>2. QED BY <1>6, <3>1
    <2>3. QED BY <2>1, <2>2
  <1>9. \A q \in Proc : << q, 0 >> \in DOMAIN program' /\ program'[<< q, 0 >>] = NoProgram
    <2>1. \A q \in Proc : << q, 0 >> # new  BY <1>e
    <2>2. QED BY <1>4, <2>1 DEF ProgramInv
  <1>10. \A n \in Obs : LET o == observations[n] IN
          o.call = "execve" => o.source \in Program /\ (o.ret = 0 /\ o.end # 0 => o.gen < generation'[o.pid])
    <2>1. \A n \in Obs : observations[n].gen \in Nat /\ observations[n].pid \in Proc
      BY ObsTypes DEF EventType
    <2>2. \A q \in Proc : generation[q] <= generation'[q] /\ generation'[q] \in Nat
      BY <1>q
    <2>3. QED BY <2>1, <2>2, <1>q DEF ProgramInv
  <1>11. QED BY <1>o, <1>p, <1>8, <1>9, <1>10 DEF ProgramInv

LEMMA ProgramsSame ==
  ASSUME TypeInv, ProgramInv, UNCHANGED << workload, observations, program >>, \A p \in Proc : generation'[p] = generation[p]
  PROVE  ProgramInv'
  <1>1. Proc' = Proc /\ Obs' = Obs  BY DEF Proc, Obs
  <1>2. ASSUME NEW p, NEW g PROVE Succeeded(p, g)' <=> Succeeded(p, g)
    BY DEF Succeeded, Execed, Obs
  <1>3. \A n \in Obs : LET o == observations[n] IN
          o.call = "execve" => o.source \in Program /\ (o.ret = 0 /\ o.end # 0 => o.gen < generation'[o.pid])
    <2>1. \A n \in Obs : observations[n].pid \in Proc
      BY ObsTypes DEF EventType
    <2>2. QED BY <2>1 DEF ProgramInv
  <1>4. \A p \in Proc, g \in Nat : g < generation'[p] => Succeeded(p, g)'
    BY <1>2 DEF ProgramInv
  <1>5. QED BY <1>1, <1>3, <1>4 DEF ProgramInv

LEMMA ProgramKept == TypeInv /\ CallInv /\ ProgramInv /\ [Next]_vars => ProgramInv'
  <1> SUFFICES ASSUME TypeInv, CallInv, ProgramInv, [Next]_vars PROVE ProgramInv'
    OBVIOUS
  <1>1. ASSUME NEW t \in Thread, NEW c, NEW n, Entered(t, c, n) PROVE ProgramInv'
    BY <1>1, ProgramsOfEntry
  <1>2. ASSUME NEW t \in Thread, NEW n, Left(t, n) PROVE ProgramInv'
    BY <1>2, ProgramsOfExit
  <1>3. ASSUME NEW t \in Thread, NEW ret \in Int, Effects(t), Affected(t, ret) PROVE ProgramInv'
    <2>1. CASE Execs(t)  BY <2>1, ProgramsOfExec
    <2>2. CASE ~Execs(t)
      <3>1. UNCHANGED program /\ ~(call[t].op = "execve" /\ ret = 0)
        <4>1. CASE Fails(t)
          <5>1. PICK other \in Int : Affected(t, other) /\ other < 0 /\ UNCHANGED program
            BY <4>1, FailsIs
          <5>2. other = ret  BY <1>3, <5>1 DEF Affected, Answered
          <5>3. QED BY <5>1, <5>2
        <4>2. CASE Opens(t) \/ Closes(t) \/ ConnectsTo(t) \/ Reads(t) \/ Writes(t)
          BY <4>2, Zenon DEF Opens, Closes, ConnectsTo, Reads, Writes, Runs
        <4>3. QED BY <1>3, <2>2, <4>1, <4>2 DEF Effects
      <3>2. UNCHANGED << workload, observations, program >> /\ \A p \in Proc : generation'[p] = generation[p]
        BY <1>3, <3>1 DEF Affected, TypeInv
      <3>3. QED BY <3>2, ProgramsSame
    <2>3. QED BY <2>1, <2>2
  <1>4. ASSUME Aside PROVE ProgramInv'
    <2>1. UNCHANGED << workload, observations, program, generation >>
      BY <1>4 DEF Aside, analyzer, kernel
    <2>2. QED BY <2>1, ProgramsSame
  <1>5. QED BY <1>1, <1>2, <1>3, <1>4, StepIs

LEMMA InitProgram == Init => ProgramInv
  <1> SUFFICES ASSUME Init PROVE ProgramInv
    OBVIOUS
  <1>1. Obs = {}  BY NothingYet
  <1>2. \A p \in Proc : generation[p] = 0  BY DEF Init
  <1>3. \A p \in Proc : << p, 0 >> \in DOMAIN program /\ program[<< p, 0 >>] = NoProgram
    BY DEF Init
  <1>4. QED BY <1>1, <1>2, <1>3 DEF ProgramInv

(* The program of an image is what its exec was of, and the trace has that *)
(* exec.                                                                   *)
THEOREM ProgramsAreKept == Spec => []StoryTrace
  <1>1. Init => StoryTrace
    BY InitTypes, InitTrace, InitEnds, InitPipes, InitRegistry, InitProgram
       DEF TraceInv, PipeTrace, ReportTrace, StoryTrace
  <1>2. StoryTrace /\ [Next]_vars => StoryTrace'
    BY TypesKept, TimeKept, ImageKept, CallKept, DataKept, ReportKept, EndsKept, ValueKept, PipeKept, EdgesKept,
       RegistryKept, ProgramKept DEF TraceInv, PipeTrace, ReportTrace, StoryTrace
  <1>3. QED BY <1>1, <1>2, PTL DEF Spec

(* The greatest of some positions.                                         *)
LEMMA MaxIs ==
  ASSUME NEW S \in SUBSET Nat, NEW n \in S, \A m \in S : m <= n
  PROVE  R!Max(S) = n /\ Tell!Max(S) = n
  <1>1. \A m \in S : (\A k \in S : m >= k) => m = n
    OBVIOUS
  <1>2. \A k \in S : n >= k
    OBVIOUS
  <1>3. R!Max(S) = n  BY <1>1, <1>2 DEF R!Max
  <1>4. Tell!Max(S) = n  BY <1>1, <1>2 DEF Tell!Max
  <1>5. QED BY <1>3, <1>4

LEMMA LastIs ==
  ASSUME NEW S, NEW N \in Nat, S \subseteq 1 .. N
  PROVE  /\ R!Max({0} \cup S) = Tell!Max({0} \cup S)
         /\ IsLast(R!Max({0} \cup S), S) /\ R!Max({0} \cup S) \in 0 .. N
         /\ \A n : IsLast(n, S) => n = R!Max({0} \cup S)
  <1> DEFINE T == {0} \cup S
  <1>1. T \in SUBSET Nat /\ T # {} /\ \A n \in T : n <= N /\ n >= 0
    OBVIOUS
  <1>2. PICK n \in T : \A m \in T : m <= n
    <2> HIDE DEF T
    <2>1. QED BY <1>1, GreatestNumber
  <1>3. \A m \in T : (\A k \in S : k <= m) => m = n  BY <1>1, <1>2
  <1> HIDE DEF T
  <1>4. R!Max(T) = n /\ Tell!Max(T) = n  BY <1>1, <1>2, MaxIs
  <1>5. n \in 0 .. N  BY <1>1, <1>2
  <1>6. QED BY <1>2, <1>3, <1>4, <1>5 DEF IsLast, T

LEMMA StoriesAre ==
  ASSUME NEW S, NEW shown \in Seq(S), NEW story \in Range(Tell!Stories(Finished, NoPrograms, shown))
  PROVE  \E f \in Range(shown) : f.kind \in Composites /\ story = TaleOf(f)
  <1>1. PICK N \in Nat : DOMAIN shown = 1 .. N
    OBVIOUS
  <1> DEFINE Fits(f) == f.kind \in Composites /\ Tell!MayBeTold(f, Tell!StatementsOf(Finished, f))
             fits == {k \in 1 .. N : Fits(shown[k])}
             make == [k \in 1 .. N |-> TaleOf(shown[k])]
             part == [k \in 1 .. N |-> IF k \in fits THEN << make[k] >> ELSE << >>]
             tale(f) == IF f.kind \in {"sensitive_data_flow", "sensitive_value_cross_process_pipe_chain"}
                        THEN Tell!StoryOf(Finished, NoPrograms, f, Tell!StatementsOf(Finished, f))
                        ELSE << >>
             s == Tell!Stories(Finished, NoPrograms, shown)
  <1>2. \A f : tale(f) = IF Fits(f) THEN << TaleOf(f) >> ELSE << >>
    BY Zenon DEF Tell!StoryOf, TaleOf, Composites
  <1>3. s = Tell!FlattenSeq([k \in DOMAIN shown |-> tale(shown[k])])
    BY Zenon DEF Tell!Stories
  <1> HIDE DEF tale, s, Fits
  <1>4. [k \in DOMAIN shown |-> tale(shown[k])] = part  BY <1>1, <1>2
  <1>5. s = FlattenSeq(part)  BY <1>3, <1>4, SameHelpers
  <1> HIDE DEF fits, make
  <1>6. Picked(s, N, fits, make)  BY <1>5, PickedIs
  <1>7. PICK k \in 1 .. N : k \in fits /\ story = make[k]
    BY <1>6 DEF Picked, s
  <1>8. shown[k] \in Range(shown) /\ shown[k].kind \in Composites /\ story = TaleOf(shown[k])
    BY <1>1, <1>7 DEF Range, fits, make, Fits
  <1>9. QED BY <1>8

-----------------------------------------------------------------------------
(* The stories: sessions, programs and what their statements name.         *)
LEMMA SessionAtIs ==
  ASSUME TraceInv, NEW n \in DOMAIN Finished.obs
  PROVE  /\ SessionAt(n) = << Finished.obs[n].inst, Finished.obs[n].gen >>
         /\ SessionAt(n) = R!Session(Finished.obs[n])
         /\ Finished.obs[n].inst \in Proc /\ Finished.obs[n].gen \in Nat
         /\ Finished.obs[n].gen <= generation[Finished.obs[n].inst]
  <1>1. SessionAt(n) = << Finished.obs[n].inst, Finished.obs[n].gen >> /\ SessionAt(n) = R!Session(Finished.obs[n])
    BY DEF SessionAt, Tell!Session, R!Session
  <1>2. CASE n \in Obs
    <2>1. Finished.obs[n] = observations[n] /\ observations[n] \in EventType
      BY <1>2, GraphIs DEF TraceInv
    <2>2. observations[n].inst = observations[n].pid /\ observations[n].gen <= generation[observations[n].pid]
      BY <1>2 DEF TraceInv, ImageInv
    <2>3. QED BY <1>1, <2>1, <2>2 DEF EventType
  <1>3. CASE n \notin Obs
    <2>1. PICK k \in DOMAIN data : GoodDatum(data[k]) /\ GraphDatum(Finished.obs[n], data[k])
      BY <1>3, GraphIs DEF TraceInv
    <2>2. Finished.obs[n] \in DataType /\ << Finished.obs[n].inst, Finished.obs[n].gen >> = data[k].image
      BY <2>1 DEF GraphDatum
    <2>3. Finished.obs[n].inst \in Proc /\ Finished.obs[n].gen \in Nat
      BY <2>2 DEF DataType
    <2>4. PICK m \in Obs : observations[m].pid = data[k].pid /\ observations[m].gen = data[k].image[2]
      BY <2>1 DEF GoodDatum
    <2>5. data[k].image[1] = data[k].pid  BY <2>1 DEF GoodDatum
    <2>6. data[k].pid = Finished.obs[n].inst /\ observations[m].gen = Finished.obs[n].gen
      BY <2>2, <2>4, <2>5
    <2>7. observations[m].gen <= generation[observations[m].pid]
      BY DEF TraceInv, ImageInv
    <2>8. QED BY <1>1, <2>3, <2>4, <2>6, <2>7
  <1>4. QED BY <1>2, <1>3

(* Each session of the graph is listed. *)
LEMMA SessionsListed ==
  ASSUME TraceInv
  PROVE  /\ Tell!SessionIds(Finished) \in Seq(Range(Tell!SessionIds(Finished)))
         /\ Range(Tell!SessionIds(Finished)) = {SessionAt(n) : n \in DOMAIN Finished.obs}
  <1>1. PICK N \in Nat : DOMAIN Finished.obs = 1 .. N
    <2>1. Finished.obs \in Seq(GraphType)  BY GraphIs DEF TraceInv
    <2>2. QED BY <2>1
  <1> DEFINE obs == Finished.obs
             begun(n) == /\ obs[n].inst # NoSession
                         /\ \A m \in 1 .. n - 1 : Tell!Session(obs[m]) # Tell!Session(obs[n])
             fits == {n \in 1 .. N : begun(n)}
             make == [n \in 1 .. N |-> SessionAt(n)]
             part == [n \in 1 .. N |-> IF n \in fits THEN << make[n] >> ELSE << >>]
             s == Tell!SessionIds(Finished)
  <1>2. s = Tell!FlattenSeq([n \in DOMAIN obs |-> IF begun(n) THEN << Tell!Session(obs[n]) >> ELSE << >>])
    BY Zenon DEF Tell!SessionIds
  <1>3. part = [n \in DOMAIN obs |-> IF begun(n) THEN << Tell!Session(obs[n]) >> ELSE << >>]
    <2>1. \A n \in 1 .. N : (n \in fits <=> begun(n)) /\ make[n] = Tell!Session(obs[n])
      BY DEF SessionAt
    <2> HIDE DEF fits, begun, make, obs
    <2>2. QED BY <1>1, <2>1 DEF obs
  <1>4. \A n \in 1 .. N : n \in fits <=> \A m \in 1 .. n - 1 : SessionAt(m) # SessionAt(n)
    <2>1. NoSession \notin Proc  BY Inputs DEF TraceInv, TypeInv
    <2>2. \A n \in 1 .. N : obs[n].inst \in Proc  BY <1>1, SessionAtIs
    <2>3. QED BY <2>1, <2>2 DEF SessionAt
  <1> HIDE DEF s, begun, obs
  <1>5. s = FlattenSeq(part)  BY <1>2, <1>3, SameHelpers
  <1> HIDE DEF fits, make
  <1>6. Picked(s, N, fits, make)  BY <1>5, PickedIs
  <1>7. s \in Seq(Range(s)) /\ Range(s) = {make[n] : n \in (1 .. N) \cap fits}
    BY <1>6 DEF Picked
  <1>8. ASSUME NEW n \in 1 .. N PROVE SessionAt(n) \in {make[m] : m \in (1 .. N) \cap fits}
    <2> DEFINE T == {m \in 1 .. N : SessionAt(m) = SessionAt(n)}
    <2>1. T \in SUBSET Nat /\ T # {}
      OBVIOUS
    <2>2. PICK m \in T : \A k \in T : m <= k
      <3> HIDE DEF T
      <3>1. QED BY <2>1, LeastNumber
    <2>3. \A k \in 1 .. m - 1 : SessionAt(k) # SessionAt(m)
      <3>1. \A k \in 1 .. m - 1 : k \in 1 .. N /\ ~(m <= k)  BY <2>2
      <3>2. QED BY <2>2, <3>1
    <2>4. m \in (1 .. N) \cap fits /\ make[m] = SessionAt(n)
      BY <1>4, <2>2, <2>3 DEF make
    <2>5. QED BY <2>4
  <1>9. \A n \in 1 .. N : make[n] = SessionAt(n)  BY DEF make
  <1>10. Range(s) = {SessionAt(n) : n \in 1 .. N}  BY <1>7, <1>8, <1>9
  <1>11. QED BY <1>1, <1>7, <1>10 DEF s

(* The program of a session is the one its image really runs. *)
LEMMA ProgramIs ==
  ASSUME TraceInv, ProgramInv, NEW n \in DOMAIN Finished.obs
  PROVE  Tell!ProgramOf(Finished, NoPrograms, SessionAt(n)) = program[SessionAt(n)]
  <1>1. PICK p \in Proc, g \in Nat : SessionAt(n) = << p, g >> /\ g <= generation[p]
    BY SessionAtIs
  <1>2. << p, g >>[1] = p /\ << p, g >>[2] = g
    OBVIOUS
  <1>3. CASE g = 0
    <2>1. Tell!ProgramOf(Finished, NoPrograms, << p, g >>) = NoPrograms[p]
      BY <1>2, <1>3 DEF Tell!ProgramOf
    <2>2. NoPrograms[p] = NoProgram /\ program[<< p, 0 >>] = NoProgram
      BY DEF NoPrograms, ProgramInv
    <2>3. QED BY <1>1, <1>3, <2>1, <2>2
  <1>4. CASE g # 0
    <2> DEFINE E == Tell!Execs(Finished, << p, g >>)
    <2>1. PICK h \in Nat : g = h + 1
      <3>1. g - 1 \in Nat /\ g = (g - 1) + 1  BY <1>4
      <3>2. QED BY <3>1
    <2>2. generation[p] \in Nat  BY DEF TraceInv, TypeInv
    <2>3. Succeeded(p, h)  BY <1>1, <2>1, <2>2 DEF ProgramInv
    <2>4. PICK N \in Nat : DOMAIN Finished.obs = 1 .. N
      <3>1. Finished.obs \in Seq(GraphType)  BY GraphIs DEF TraceInv
      <3>2. QED BY <3>1
    <2>5. ASSUME NEW k \in E PROVE k \in 1 .. N /\ Finished.obs[k].source = program[<< p, g >>]
      <3>1. /\ k \in DOMAIN Finished.obs
            /\ Finished.obs[k].type = "Event" /\ Finished.obs[k].call = "execve" /\ Finished.obs[k].ret = 0
            /\ << Finished.obs[k].inst, Finished.obs[k].gen + 1 >> = << p, g >>
        BY DEF Tell!Execs
      <3>2. k \in Obs /\ Finished.obs[k] = observations[k]
        BY <3>1, EventsAreSeen, SeenIs
      <3>3. observations[k].inst = observations[k].pid /\ observations[k].gen \in Nat
        BY <3>2, ObsTypes DEF TraceInv, ImageInv, EventType
      <3>4. Execed(k, p, h)  BY <2>1, <3>1, <3>2, <3>3 DEF Execed
      <3>5. QED BY <2>1, <2>3, <2>4, <3>1, <3>2, <3>4 DEF Succeeded
    <2>6. \E k : k \in E
      <3>1. PICK k \in Obs : Execed(k, p, h)  BY <2>3 DEF Succeeded
      <3>2. k \in DOMAIN Finished.obs /\ Finished.obs[k] = observations[k] /\ observations[k].type = "Event"
        BY GraphIs DEF TraceInv
      <3>3. observations[k].inst = observations[k].pid
        BY DEF TraceInv, ImageInv
      <3>4. observations[k].source \in Program /\ NoProgram \notin Program
        BY <3>1, Values DEF ProgramInv, Execed
      <3>5. << observations[k].inst, observations[k].gen + 1 >> = << p, g >>
        BY <2>1, <3>1, <3>3 DEF Execed
      <3>6. k \in E  BY <3>1, <3>2, <3>4, <3>5 DEF Tell!Execs, Execed
      <3>7. QED BY <3>6
    <2> DEFINE last == Tell!Max({0} \cup E)
    <2>7. Tell!ProgramOf(Finished, NoPrograms, << p, g >>) = Tell!NamedBy(Finished, last)
      BY <1>2, <1>4, Zenon DEF Tell!ProgramOf
    <2> HIDE DEF E
    <2>8. IsLast(last, E)
      <3>1. E \subseteq 1 .. N  BY <2>5
      <3>2. QED BY <3>1, LastIs
    <2> HIDE DEF last
    <2>9. last \in E /\ last # 0  BY <2>5, <2>6, <2>8 DEF IsLast
    <2>10. Tell!NamedBy(Finished, last) = Finished.obs[last].source
      BY <2>9 DEF Tell!NamedBy
    <2>11. QED BY <1>1, <2>5, <2>7, <2>9, <2>10
  <1>5. QED BY <1>3, <1>4

(* The sessions told are those of the evidence. *)
LEMMA ToldSessions ==
  ASSUME TraceInv, NEW f, Range(f.evidence) \subseteq DOMAIN Finished.obs
  PROVE  LET told == Range(Tell!Told(Finished, NoPrograms, Tell!SessionsOf(Finished, f))) IN
         /\ {s.session : s \in told} = {SessionAt(n) : n \in Range(f.evidence)}
         /\ ProgramInv => \A s \in told : program[s.session] = s.program
  <1> DEFINE of == Tell!SessionsOf(Finished, f)
             ids == Tell!SessionIds(Finished)
             told == Tell!Told(Finished, NoPrograms, of)
             set == {Tell!Session(Finished.obs[n]) : n \in Tell!Range(f.evidence)}
             item(s) == [session |-> s, program |-> Tell!ProgramOf(Finished, NoPrograms, s)]
  <1>1. of = Tell!Kept(ids, set)  BY Zenon DEF Tell!SessionsOf
  <1>2. of = Kept(ids, set)
    <2>1. \A t : Tell!FlattenSeq(t) = FlattenSeq(t)  BY SameHelpers
    <2>2. Tell!Kept(ids, set) = Kept(ids, set)
      BY <2>1, Zenon DEF Tell!Kept, Kept
    <2>3. QED BY <1>1, <2>2
  <1>3. set = {SessionAt(n) : n \in Range(f.evidence)}
    BY SameHelpers DEF SessionAt
  <1>4. told = [k \in DOMAIN of |-> item(of[k])]  BY Zenon DEF Tell!Told
  <1> HIDE DEF of, ids, set, told
  <1>5. ids \in Seq(Range(ids)) /\ Range(ids) = {SessionAt(n) : n \in DOMAIN Finished.obs}
    BY SessionsListed DEF ids
  <1>6. Range(of) = Range(ids) \cap set  BY <1>2, <1>5, KeptIs
  <1>7. Range(of) = {SessionAt(n) : n \in Range(f.evidence)}
    BY <1>3, <1>5, <1>6
  <1>8. Range(told) = {item(s) : s \in Range(of)}  BY <1>4 DEF Range
  <1>9. \A s : item(s).session = s /\ item(s).program = Tell!ProgramOf(Finished, NoPrograms, s)
    OBVIOUS
  <1> HIDE DEF item
  <1>10. {s.session : s \in Range(told)} = Range(of)  BY <1>8, <1>9
  <1>11. ASSUME ProgramInv, NEW s \in Range(told) PROVE program[s.session] = s.program
    <2>1. PICK n \in Range(f.evidence) : s = item(SessionAt(n))  BY <1>7, <1>8
    <2>2. Tell!ProgramOf(Finished, NoPrograms, SessionAt(n)) = program[SessionAt(n)]
      BY <1>11, ProgramIs
    <2>3. QED BY <1>9, <2>1, <2>2
  <1>12. QED BY <1>7, <1>10, <1>11 DEF told, of

LEMMA HalfOf ==
  ASSUME NEW N \in Nat, NEW m \in 1 .. 2 * N
  PROVE  \E k \in 1 .. N : m = 2 * k - 1 \/ m = 2 * k
  <1>1. PICK q \in Nat : m = 2 * q \/ m = 2 * q + 1
    <2>1. m \div 2 \in Nat /\ (m = 2 * (m \div 2) \/ m = 2 * (m \div 2) + 1)
      OBVIOUS
    <2>2. QED BY <2>1
  <1>2. CASE m = 2 * q  BY <1>2
  <1>3. CASE m = 2 * q + 1
    <2>1. q + 1 \in 1 .. N /\ m = 2 * (q + 1) - 1  BY <1>3
    <2>2. QED BY <2>1
  <1>4. QED BY <1>1, <1>2, <1>3

(* A chain's story has a statement for each edge.                          *)
LEMMA ChainTold ==
  ASSUME StoryTrace, NEW f, NEW path, IsChainOf(f, path), f.kind = "sensitive_value_cross_process_pipe_chain"
  PROVE  /\ Len(Tell!StatementsOf(Finished, f)) = Len(f.edges)
         /\ {SessionAt(n) : n \in Range(f.evidence)} = Range(f.sessions)
         /\ Range(f.evidence) \subseteq DOMAIN Finished.obs
  <1>1. PipeTrace /\ TraceInv /\ ReportTrace
    BY DEF StoryTrace, ReportTrace, PipeTrace
  <1> DEFINE e == f.edges
  <1>2. /\ path \in Chains(Finished) /\ e = Along(Finished, path) /\ f.evidence = FlattenSeq(e)
        /\ f.sessions = R!ChainSessions(Finished, e) /\ f.value = Finished.obs[e[1][1]].value
    BY DEF IsChainOf
  <1>3. PICK N : IsPath(e, N)  BY <1>1, <1>2, PathIs
  <1>4. N \in Nat /\ N >= 2 /\ DOMAIN e = 1 .. N /\ Len(e) = N
    BY <1>3 DEF IsPath
  <1>5. \A k \in 1 .. N : IsEdge(e[k])  BY <1>3 DEF IsPath
  <1>6. \A k \in 1 .. N : /\ e[k][1] \in Obs /\ e[k][2] \in Obs
                          /\ Finished.obs[e[k][1]] = observations[e[k][1]]
                          /\ Finished.obs[e[k][2]] = observations[e[k][2]]
    BY <1>1, <1>5, SeenIs DEF IsEdge
  <1>7. \A k \in 1 .. N : Finished.obs[e[k][1]].value = Secret /\ Finished.obs[e[k][2]].value = Secret
    <2>1. \A n \in Obs : observations[n].value \in {NoValue, Secret}
      BY <1>1, ObsTypes DEF TraceInv, EventType
    <2>2. QED BY <1>5, <1>6, <2>1 DEF IsEdge
  <1>8. f.value = Secret  BY <1>2, <1>4, <1>7
  <1> HIDE DEF e
  <1>9. \A k \in 1 .. N : Tell!Holds(f, Finished.obs[e[k][1]], Finished.obs[e[k][2]])
    BY <1>5, <1>6, <1>7, <1>8 DEF Tell!Holds, IsEdge
  <1> DEFINE statement(g) ==
               IF Tell!Holds(f, Finished.obs[g[1]], Finished.obs[g[2]])
               THEN << [about |-> g[1], resource |-> Finished.obs[g[1]].res, evidence |-> g] >>
               ELSE << >>
             one(g) == [about |-> g[1], resource |-> Finished.obs[g[1]].res, evidence |-> g]
             part == [k \in 1 .. N |-> << one(e[k]) >>]
             S == {one(e[k]) : k \in 1 .. N}
  <1>10. Tell!StatementsOf(Finished, f) = Tell!FlattenSeq([k \in DOMAIN e |-> statement(e[k])])
    BY Zenon DEF Tell!StatementsOf, Tell!ChainStory, e
  <1>11. [k \in DOMAIN e |-> statement(e[k])] = part  BY <1>4, <1>9
  <1> HIDE DEF statement
  <1>12. Tell!StatementsOf(Finished, f) = FlattenSeq(part)
    BY <1>10, <1>11, SameHelpers
  <1> HIDE DEF one
  <1>13. part \in Seq(Seq(S)) /\ DOMAIN part = 1 .. N /\ \A k \in 1 .. N : DOMAIN part[k] = 1 .. 1
    <2>1. \A k \in 1 .. N : one(e[k]) \in S
      OBVIOUS
    <2> HIDE DEF S
    <2>2. \A k \in 1 .. N : << one(e[k]) >> \in Seq(S) /\ DOMAIN << one(e[k]) >> = 1 .. 1
      BY <2>1
    <2>3. part \in [1 .. N -> Seq(S)]  BY <2>2
    <2>4. QED BY <1>4, <2>2, <2>3
  <1> HIDE DEF part, S
  <1>14. Singly(FlattenSeq(part), part, N)  BY <1>4, <1>13, FlattenSingles
  <1>15. FlattenSeq(part) \in Seq(S)  BY <1>13, FlattenIs
  <1>16. Len(FlattenSeq(part)) = N
    <2> DEFINE s == FlattenSeq(part)
    <2>1. s \in Seq(S) /\ DOMAIN s = 1 .. N  BY <1>14, <1>15 DEF Singly
    <2> HIDE DEF s
    <2>2. Len(s) = N  BY <1>4, <2>1
    <2>3. QED BY <2>2 DEF s
  <1>17. \A k \in 1 .. N : SessionAt(e[k][1]) = R!Session(observations[e[k][1]]) /\ SessionAt(e[k][2]) = R!Session(observations[e[k][2]])
    BY <1>6 DEF SessionAt, Tell!Session, R!Session
  <1>18. Range(f.evidence) = {e[k][1] : k \in 1 .. N} \cup {e[k][2] : k \in 1 .. N}
    <2>1. DOMAIN f.evidence = 1 .. 2 * N /\ \A k \in 1 .. N : f.evidence[2 * k - 1] = e[k][1] /\ f.evidence[2 * k] = e[k][2]
      BY <1>1, <1>2, <1>3, PathPairs DEF Paired
    <2>2. \A k \in 1 .. N : e[k][1] \in Range(f.evidence) /\ e[k][2] \in Range(f.evidence)
      <3> SUFFICES ASSUME NEW k \in 1 .. N PROVE e[k][1] \in Range(f.evidence) /\ e[k][2] \in Range(f.evidence)
        OBVIOUS
      <3>1. 2 * k - 1 \in 1 .. 2 * N /\ 2 * k \in 1 .. 2 * N  BY <1>4
      <3>2. QED BY <2>1, <3>1 DEF Range
    <2>3. \A n \in Range(f.evidence) : \E k \in 1 .. N : n = e[k][1] \/ n = e[k][2]
      <3> SUFFICES ASSUME NEW n \in Range(f.evidence) PROVE \E k \in 1 .. N : n = e[k][1] \/ n = e[k][2]
        OBVIOUS
      <3>1. PICK m \in 1 .. 2 * N : n = f.evidence[m]  BY <2>1 DEF Range
      <3>2. PICK k \in 1 .. N : m = 2 * k - 1 \/ m = 2 * k  BY <1>4, HalfOf
      <3>3. QED BY <2>1, <3>1, <3>2
    <2>4. QED BY <2>2, <2>3
  <1>19. Range(f.sessions) = {SessionAt(e[k][1]) : k \in 1 .. N} \cup {SessionAt(e[k][2]) : k \in 1 .. N}
    <2> DEFINE s == f.sessions
    <2>1. DOMAIN s = 1 .. N + 1 /\ \A k \in 1 .. N : s[k] = SessionAt(e[k][1]) /\ s[k + 1] = SessionAt(e[k][2])
      BY <1>1, <1>2, <1>3, <1>17, SessionsAlong
    <2> HIDE DEF s
    <2>2. \A k \in 1 .. N : s[k] \in Range(s) /\ s[k + 1] \in Range(s)
      <3>1. \A k \in 1 .. N : k \in 1 .. N + 1 /\ k + 1 \in 1 .. N + 1
        BY <1>4
      <3>2. QED BY <2>1, <3>1 DEF Range
    <2>3. \A k \in 1 .. N + 1 : k \in 1 .. N \/ (N \in 1 .. N /\ k = N + 1)
      BY <1>4
    <2>4. \A x \in Range(s) : \E k \in 1 .. N : x = s[k] \/ x = s[k + 1]
      BY <2>1, <2>3 DEF Range
    <2>5. \A k \in 1 .. N : SessionAt(e[k][1]) \in Range(s) /\ SessionAt(e[k][2]) \in Range(s)
      BY <2>1, <2>2
    <2>6. ASSUME NEW x \in Range(s) PROVE \E k \in 1 .. N : x = SessionAt(e[k][1]) \/ x = SessionAt(e[k][2])
      <3>1. PICK k \in 1 .. N : x = s[k] \/ x = s[k + 1]  BY <2>4
      <3>2. QED BY <2>1, <3>1
    <2>7. Range(s) = {SessionAt(e[k][1]) : k \in 1 .. N} \cup {SessionAt(e[k][2]) : k \in 1 .. N}
      BY <2>5, <2>6
    <2>8. QED BY <2>7 DEF s
  <1>20. {SessionAt(n) : n \in Range(f.evidence)} = Range(f.sessions)
    BY <1>18, <1>19
  <1>21. Range(f.evidence) \subseteq DOMAIN Finished.obs
    BY <1>1, <1>6, <1>18, SeenIs
  <1>22. QED BY <1>4, <1>12, <1>16, <1>20, <1>21 DEF e

(* A flow's story names what its finding names.                            *)

(* The calls of a session before an observation. *)
LEMMA SessionLasts ==
  ASSUME TraceInv, NEW a \in Obs, NEW m \in Obs, NEW b \in Obs, a < m, m < b, observations[m].inst = observations[b].inst,
         R!SameSession(observations[a], observations[b])
  PROVE  R!SameSession(observations[m], observations[b])
  <1>1. \A n \in Obs : n \in Nat /\ observations[n].gen \in Nat /\ observations[n].inst = observations[n].pid
    BY ObsTypes DEF TraceInv, ImageInv, EventType
  <1>2. /\ observations[a].inst = observations[b].inst /\ observations[a].gen = observations[b].gen
        /\ observations[a].inst # NoSession
    BY DEF R!SameSession, R!Session
  <1>3. observations[a].gen <= observations[m].gen /\ observations[m].gen <= observations[b].gen
    BY <1>1, <1>2 DEF TraceInv, ImageInv
  <1>4. observations[m].gen = observations[b].gen  BY <1>1, <1>2, <1>3
  <1>5. QED BY <1>2, <1>4 DEF R!SameSession, R!Session

LEMMA RebindIs ==
  ASSUME TraceInv, NEW n \in Obs
  PROVE  /\ IsLast(RebindOf(n), Rebindings(n)) /\ \A m : IsLast(m, Rebindings(n)) => m = RebindOf(n)
         /\ \A m \in Rebindings(n) : m \in Obs /\ m < n /\ m > 0 /\ Finished.obs[m] = observations[m]
  <1>1. n \in Nat /\ n > 0 /\ \A m \in 1 .. n - 1 : m \in Obs
    <2>1. observations \in Seq(EventType)  BY DEF TraceInv, TypeInv
    <2>2. QED BY <2>1 DEF Obs
  <1>2. Rebindings(n) \subseteq 1 .. n  BY <1>1 DEF Rebindings
  <1>3. RebindOf(n) = R!Max({0} \cup Rebindings(n))
    BY Zenon DEF RebindOf, R!LastRebind, Rebindings
  <1>4. IsLast(RebindOf(n), Rebindings(n)) /\ \A m : IsLast(m, Rebindings(n)) => m = RebindOf(n)
    BY <1>1, <1>2, <1>3, LastIs
  <1>5. \A m \in Rebindings(n) : m \in Obs /\ m < n /\ m > 0
    BY <1>1 DEF Rebindings
  <1>6. QED BY <1>4, <1>5, SeenIs

(* What it leaves the descriptor at. *)
LEMMA ResolvedIs ==
  ASSUME TraceInv, NEW n \in Obs
  PROVE  LET b == RebindOf(n)
             to == R!Resolved(Finished, n) IN
         /\ to.path # NoSource => /\ b \in Rebindings(n) /\ observations[b].call = "open"
                                  /\ to.path = observations[b].source
         /\ to.endpoint # NoSource => /\ b \in Rebindings(n) /\ observations[b].call = "connect"
                                      /\ to.endpoint = observations[b].source
         /\ b # 0 /\ observations[b].call = "open" => to.path = observations[b].source
         /\ b # 0 /\ observations[b].call = "connect" => to.endpoint = observations[b].source
  <1> DEFINE b == RebindOf(n)
             to == R!Resolved(Finished, n)
  <1>1. b \in {0} \cup Rebindings(n)  BY RebindIs DEF IsLast
  <1>2. to = R!LeftBy(Finished, b)  BY Zenon DEF R!Resolved, RebindOf
  <1> HIDE DEF b, to
  <1>3. CASE b = 0
    <2>1. to = R!Unresolved  BY <1>2, <1>3 DEF R!LeftBy
    <2>2. to.path = NoSource /\ to.endpoint = NoSource
      BY <2>1 DEF R!Unresolved
    <2>3. QED BY <1>3, <2>2 DEF b, to
  <1>4. CASE b # 0
    <2>1. b \in Rebindings(n) /\ Finished.obs[b] = observations[b]
      BY <1>1, <1>4, RebindIs
    <2>2. observations[b].call \in {"open", "connect", "close"}
      BY <2>1 DEF Rebindings, R!Rebinds
    <2>3. CASE observations[b].call = "open"
      <3>1. to = [R!Unresolved EXCEPT !.path = observations[b].source]
        BY <1>2, <1>4, <2>1, <2>3 DEF R!LeftBy
      <3>2. to.path = observations[b].source /\ to.endpoint = NoSource
        BY <3>1 DEF R!Unresolved
      <3>3. QED BY <2>1, <2>3, <3>2 DEF b, to
    <2>4. CASE observations[b].call = "connect"
      <3>1. to = [R!Unresolved EXCEPT !.endpoint = observations[b].source]
        BY <1>2, <1>4, <2>1, <2>4 DEF R!LeftBy
      <3>2. to.endpoint = observations[b].source /\ to.path = NoSource
        BY <3>1 DEF R!Unresolved
      <3>3. QED BY <2>1, <2>4, <3>2 DEF b, to
    <2>5. CASE observations[b].call = "close"
      <3>1. to = R!Unresolved  BY <1>2, <1>4, <2>1, <2>5 DEF R!LeftBy
      <3>2. to.path = NoSource /\ to.endpoint = NoSource
        BY <3>1 DEF R!Unresolved
      <3>3. QED BY <2>1, <2>5, <3>2 DEF b, to
    <2>6. QED BY <2>2, <2>3, <2>4, <2>5
  <1>5. QED BY <1>3, <1>4 DEF b, to

(* The narrative's resolver finds the same call, when it is an open or a   *)
(* connect that the rule took for the last: no exec is between.            *)
LEMMA SameResource ==
  ASSUME TraceInv, NEW n \in Obs, NEW op \in {"open", "connect"}, NEW sets,
         sets = (IF op = "open" THEN Tell!Opens(Finished, Finished.obs[n].fd) ELSE Tell!Connects(Finished, Finished.obs[n].fd)),
         RebindOf(n) \in Rebindings(n), observations[RebindOf(n)].call = op
  PROVE  Tell!Resource(Finished, n, sets) = RebindOf(n) /\ RebindOf(n) # 0
         /\ Tell!SourceAt(Finished, RebindOf(n)) = observations[RebindOf(n)].source
  <1> DEFINE b == RebindOf(n)
             fd == Finished.obs[n].fd
             closes == Tell!Closes(Finished, fd)
             before == Tell!Before(Finished, n, sets \cup closes)
             last == Tell!Max({0} \cup before)
  <1>1. /\ b \in Obs /\ b < n /\ b > 0 /\ Finished.obs[b] = observations[b] /\ n \in Nat /\ b \in Nat
        /\ Finished.obs[n] = observations[n]
    BY RebindIs, SeenIs, ObsTypes DEF TraceInv
  <1>2. /\ observations[b].type = "Event" /\ R!SameSession(observations[b], observations[n])
        /\ R!Rebinds(observations[b], fd)
    BY <1>1 DEF Rebindings, R!IsEvent
  <1>3. b \in DOMAIN Finished.obs  BY <1>1, SeenIs
  <1>4. b \in sets
    <2>1. CASE op = "open"
      BY <1>1, <1>2, <1>3, <2>1 DEF Tell!Opens, Tell!EventsOf, R!Rebinds
    <2>2. CASE op = "connect"
      BY <1>1, <1>2, <1>3, <2>2 DEF Tell!Connects, Tell!EventsOf, R!Rebinds
    <2>3. QED BY <2>1, <2>2
  <1>5. b \in before
    BY <1>1, <1>2, <1>4 DEF Tell!Before, R!SameSession, R!Session
  <1>6. ASSUME NEW m \in before PROVE m \in Obs /\ m < n /\ m <= b
    <2>1. m \in sets \cup closes /\ m < n /\ Finished.obs[m].inst = Finished.obs[n].inst
      BY DEF Tell!Before
    <2>2. m \in DOMAIN Finished.obs /\ Finished.obs[m].type = "Event" /\ R!Rebinds(Finished.obs[m], fd)
      BY <2>1 DEF Tell!Opens, Tell!Connects, Tell!Closes, Tell!EventsOf, R!Rebinds
    <2>3. m \in Obs /\ Finished.obs[m] = observations[m] /\ m \in Nat
      BY <2>2, EventsAreSeen, SeenIs, ObsTypes DEF TraceInv
    <2>4. ASSUME b < m PROVE FALSE
      <3>1. R!SameSession(observations[m], observations[n])
        BY <1>1, <1>2, <2>1, <2>3, <2>4, SessionLasts
      <3>2. m \in Rebindings(n)
        <4>1. m \in 1 .. n - 1  BY <1>1, <2>1, <2>3, <2>4
        <4>2. QED BY <1>1, <2>2, <2>3, <3>1, <4>1 DEF Rebindings, R!IsEvent
      <3>3. m <= b  BY <3>2, RebindIs DEF IsLast
      <3>4. QED BY <1>1, <2>3, <2>4, <3>3
    <2>5. QED BY <1>1, <2>1, <2>3, <2>4
  <1> HIDE DEF before, closes, fd
  <1>7. before \subseteq 1 .. n
    <2>1. \A m \in Obs : m > 0 /\ m \in Nat
      <3>1. observations \in Seq(EventType)  BY DEF TraceInv, TypeInv
      <3>2. QED BY <3>1 DEF Obs
    <2>2. \A m \in before : m \in Nat /\ 1 <= m /\ m <= n
      <3> SUFFICES ASSUME NEW m \in before PROVE m \in Nat /\ 1 <= m /\ m <= n
        OBVIOUS
      <3>1. m \in Obs /\ m < n  BY <1>6
      <3>2. m \in Nat /\ m > 0  BY <2>1, <3>1
      <3>3. QED BY <1>1, <3>1, <3>2
    <2>3. QED BY <1>1, <2>2
  <1>8. IsLast(b, before)  BY <1>5, <1>6 DEF IsLast
  <1>9. last = b  BY <1>1, <1>7, <1>8, LastIs
  <1>10. Tell!Resource(Finished, n, sets) = IF last \in sets THEN last ELSE 0
    BY Zenon DEF Tell!Resource, before, closes, fd
  <1> HIDE DEF last
  <1>11. Tell!Resource(Finished, n, sets) = b  BY <1>4, <1>9, <1>10
  <1>12. Tell!SourceAt(Finished, b) = observations[b].source
    BY <1>1 DEF Tell!SourceAt
  <1>13. QED BY <1>1, <1>11, <1>12 DEF b

LEMMA StatementsAre ==
  ASSUME NEW f, NEW t, f.evidence = t, DOMAIN t = 1 .. 3, f.kind = "sensitive_data_flow",
         NEW k \in 1 .. 3, Finished.obs[t[k]].value = f.value, Tell!Explained(Finished, t[k])
  PROVE  Tell!FlowStatement(Finished, t[k], Tell!SetBy(Finished, t[k])) \in Range(Tell!StatementsOf(Finished, f))
  <1> DEFINE told(n) == Finished.obs[n].value = f.value /\ Tell!Explained(Finished, n)
             one(n) == Tell!FlowStatement(Finished, n, Tell!SetBy(Finished, n))
             statement(n) == IF told(n) THEN << one(n) >> ELSE << >>
             fits == {i \in 1 .. 3 : told(t[i])}
             make == [i \in 1 .. 3 |-> one(t[i])]
             part == [i \in 1 .. 3 |-> IF i \in fits THEN << make[i] >> ELSE << >>]
             s == Tell!StatementsOf(Finished, f)
  <1>1. s = Tell!FlattenSeq([i \in DOMAIN t |-> statement(t[i])])
    <2>1. s = Tell!FlowStory(Finished, f)  BY Zenon DEF Tell!StatementsOf
    <2>2. Tell!FlowStory(Finished, f) = Tell!FlattenSeq([i \in DOMAIN f.evidence |-> statement(f.evidence[i])])
      BY Zenon DEF Tell!FlowStory
    <2> HIDE DEF s, statement
    <2>3. QED BY <2>1, <2>2
  <1>2. k \in fits
    OBVIOUS
  <1> HIDE DEF s, told, one
  <1>3. [i \in DOMAIN t |-> statement(t[i])] = part
    OBVIOUS
  <1> HIDE DEF statement
  <1>4. s = FlattenSeq(part)  BY <1>1, <1>3, SameHelpers
  <1>5. make[k] = one(t[k])
    OBVIOUS
  <1> HIDE DEF fits, make
  <1>6. Picked(s, 3, fits, make)  BY <1>4, PickedIs
  <1>7. make[k] \in Range(s)  BY <1>2, <1>6 DEF Picked
  <1>8. QED BY <1>5, <1>7 DEF s, one

LEMMA FlowTold ==
  ASSUME StoryTrace, NEW f, NEW t, IsFlowOf(f, t), f.kind = "sensitive_data_flow"
  PROVE  /\ \E s \in Range(Tell!StatementsOf(Finished, f)) : s.about = f.evidence[1] /\ s.resource = f.source
         /\ \E s \in Range(Tell!StatementsOf(Finished, f)) : s.about = f.evidence[3] /\ s.resource = f.destination
         /\ Range(f.evidence) \subseteq DOMAIN Finished.obs
  <1>1. TraceInv  BY DEF StoryTrace, ReportTrace, PipeTrace
  <1>2. /\ IsFlowEvidence(t) /\ f.evidence = t /\ f.value = Finished.obs[t[1]].value
        /\ f.source = R!Resolved(Finished, t[1]).path /\ f.destination = R!Resolved(Finished, t[3]).endpoint
    BY <1>1, FirstIsFlow, FlowEvidence DEF IsFlowOf
  <1>3. DOMAIN t = 1 .. 3
    <2>1. t = << t[1], t[2], t[3] >>  BY <1>2 DEF IsFlowEvidence
    <2>2. QED BY <2>1
  <1>4. /\ t[1] \in Obs /\ observations[t[1]].call = "read"
        /\ t[3] \in Obs /\ observations[t[3]].call = "write" /\ Finished.obs[t[3]].value = f.value
        /\ t[2] \in DOMAIN Finished.obs
        /\ R!Resolved(Finished, t[1]).path # NoSource /\ R!Resolved(Finished, t[3]).endpoint # NoSource
    BY <1>2 DEF IsFlowEvidence
  <1>5. /\ Finished.obs[t[1]] = observations[t[1]] /\ Finished.obs[t[3]] = observations[t[3]]
        /\ Finished.obs[t[1]].type = "Event" /\ Finished.obs[t[3]].type = "Event"
        /\ t[1] \in DOMAIN Finished.obs /\ t[3] \in DOMAIN Finished.obs
    BY <1>1, <1>4, SeenIs, EventsAreSeen
  <1>6. Tell!Explained(Finished, t[1]) /\ Tell!Explained(Finished, t[3])
    BY <1>4, <1>5 DEF Tell!Explained
  <1> DEFINE set(n) == Tell!SetBy(Finished, n)
             one(n) == Tell!FlowStatement(Finished, n, set(n))
  <1>7. one(t[1]) \in Range(Tell!StatementsOf(Finished, f)) /\ one(t[3]) \in Range(Tell!StatementsOf(Finished, f))
    BY <1>2, <1>3, <1>4, <1>6, StatementsAre
  <1>8. \A n : one(n).about = n /\ one(n).resource = Tell!SourceAt(Finished, set(n))
    BY DEF Tell!FlowStatement
  <1>9. Tell!SourceAt(Finished, set(t[1])) = f.source
    <2>1. set(t[1]) = Tell!Resource(Finished, t[1], Tell!Opens(Finished, Finished.obs[t[1]].fd))
      BY <1>4, <1>5 DEF Tell!SetBy
    <2>2. /\ RebindOf(t[1]) \in Rebindings(t[1]) /\ observations[RebindOf(t[1])].call = "open"
          /\ f.source = observations[RebindOf(t[1])].source
      BY <1>1, <1>2, <1>4, ResolvedIs
    <2>3. QED BY <1>1, <1>4, <2>1, <2>2, SameResource
  <1>10. Tell!SourceAt(Finished, set(t[3])) = f.destination
    <2>1. set(t[3]) = Tell!Resource(Finished, t[3], Tell!Connects(Finished, Finished.obs[t[3]].fd))
      BY <1>4, <1>5 DEF Tell!SetBy
    <2>2. /\ RebindOf(t[3]) \in Rebindings(t[3]) /\ observations[RebindOf(t[3])].call = "connect"
          /\ f.destination = observations[RebindOf(t[3])].source
      BY <1>1, <1>2, <1>4, ResolvedIs
    <2>3. QED BY <1>1, <1>4, <2>1, <2>2, SameResource
  <1> HIDE DEF one, set
  <1>11. Range(f.evidence) \subseteq DOMAIN Finished.obs
    BY <1>2, <1>3, <1>4, <1>5 DEF Range
  <1>12. QED BY <1>2, <1>7, <1>8, <1>9, <1>10, <1>11

LEMMA StoriesDoAgree ==
  ASSUME StoryTrace
  PROVE  StoriesAgree
  <1> DEFINE Chosen(story) == CHOOSE f \in Range(report.shown) : f.id = story.finding
             told(story, n, resource) == \E s \in Range(story.statements) : s.about = n /\ s.resource = resource
  <1> SUFFICES ASSUME Reported, NEW story \in Range(report.stories)
               PROVE  /\ \A s \in Range(story.sessions) : program[s.session] = s.program
                      /\ Chosen(story).kind = "sensitive_data_flow" =>
                           /\ told(story, Chosen(story).evidence[1], Chosen(story).source)
                           /\ told(story, Chosen(story).evidence[3], Chosen(story).destination)
                      /\ Chosen(story).kind = "sensitive_value_cross_process_pipe_chain" =>
                           /\ {s.session : s \in Range(story.sessions)} = Range(Chosen(story).sessions)
                           /\ Len(story.statements) = Len(Chosen(story).edges)
    BY Zenon DEF StoriesAgree
  <1>1. ReportTrace /\ PipeTrace /\ TraceInv /\ RegistryInv /\ ProgramInv
    BY DEF StoryTrace, ReportTrace, PipeTrace
  <1>2. FindingsAre  BY <1>1, FindingsAreMade
  <1>3. PICK minimum : /\ report.shown = R!Filtered(Findings, minimum)
                       /\ report.stories = Tell!Stories(Finished, NoPrograms, report.shown)
    BY <1>1, ReportedIs DEF TraceInv, NoPrograms
  <1>4. Findings \in Seq(Range(Findings)) /\ \A k \in DOMAIN Findings : Findings[k].id = k
    BY <1>2, Zenon DEF FindingsAre
  <1>5. report.shown \in Seq(Range(report.shown)) /\ Range(report.shown) \subseteq Range(Findings)
    BY <1>3, <1>4, ShownIs
  <1>6. PICK f \in Range(report.shown) : f.kind \in Composites /\ story = TaleOf(f)
    BY <1>3, <1>5, StoriesAre
  <1>7. /\ story.finding = f.id /\ story.statements = Tell!StatementsOf(Finished, f)
        /\ story.sessions = Tell!Told(Finished, NoPrograms, Tell!SessionsOf(Finished, f))
    BY <1>6 DEF TaleOf
  <1>8. Chosen(story) = f
    <2>1. \A g \in Range(report.shown) : g.id = f.id => g = f
      <3>1. \A g, h \in Range(Findings) : g.id = h.id => g = h
        BY <1>4 DEF Range
      <3>2. QED BY <1>5, <3>1
    <2>2. QED BY <1>6, <1>7, <2>1
  <1>9. f \in Range(Findings)  BY <1>5, <1>6
  <1> HIDE DEF Chosen
  <1>10. CASE f.kind = "sensitive_data_flow"
    <2>1. PICK t : IsFlowOf(f, t)  BY <1>1, <1>2, <1>9, <1>10, FlowIs
    <2>2. /\ \E s \in Range(story.statements) : s.about = f.evidence[1] /\ s.resource = f.source
          /\ \E s \in Range(story.statements) : s.about = f.evidence[3] /\ s.resource = f.destination
          /\ Range(f.evidence) \subseteq DOMAIN Finished.obs
      BY <1>7, <1>10, <2>1, FlowTold
    <2>3. \A s \in Range(story.sessions) : program[s.session] = s.program
      BY <1>1, <1>7, <2>2, ToldSessions
    <2>4. QED BY <1>8, <1>10, <2>2, <2>3
  <1>11. CASE f.kind = "sensitive_value_cross_process_pipe_chain"
    <2>1. PICK path : IsChainOf(f, path)  BY <1>1, <1>2, <1>9, <1>11, ChainIs
    <2>2. /\ Len(story.statements) = Len(f.edges)
          /\ {SessionAt(n) : n \in Range(f.evidence)} = Range(f.sessions)
          /\ Range(f.evidence) \subseteq DOMAIN Finished.obs
      BY <1>7, <1>11, <2>1, ChainTold
    <2>3. /\ \A s \in Range(story.sessions) : program[s.session] = s.program
          /\ {s.session : s \in Range(story.sessions)} = {SessionAt(n) : n \in Range(f.evidence)}
      BY <1>1, <1>7, <2>2, ToldSessions
    <2>4. QED BY <1>8, <1>11, <2>2, <2>3
  <1>12. QED BY <1>6, <1>10, <1>11 DEF Composites

(* The narrative's own resolver of descriptors comes to the same file and  *)
(* endpoint as the rule, the sessions are those of the finding, and each   *)
(* is named after the program it ran (StoriesAgree).                       *)
THEOREM StoriesAlwaysAgree == Spec => []StoriesAgree
  <1>1. StoryTrace => StoriesAgree  BY StoriesDoAgree
  <1>2. QED BY <1>1, ProgramsAreKept, PTL

-----------------------------------------------------------------------------
(* The files at descriptors are as they were, but for one that is new.     *)
LEMMA FilesSame ==
  ASSUME TypeInv, FilesInv, UNCHANGED << files, table >>, workload' = workload,
         \A p \in Proc : generation[p] \in Nat /\ generation'[p] \in Nat /\ generation[p] <= generation'[p]
  PROVE  FilesInv'
  <1>1. Proc' = Proc  BY DEF Proc
  <1>2. \A p, f : At(p, f)' = At(p, f)  BY DEF At
  <1>3. ASSUME NEW p \in Proc, NEW f \in Fd, table[p][f] # 0 PROVE OldMaker(p, f)'
    <2>1. At(p, f) \in FileType /\ OldMaker(p, f)
      BY <1>3, FileAt DEF FilesInv
    <2>2. At(p, f).by[2] \in Nat  BY <2>1 DEF FileType, Maker
    <2>3. QED BY <1>1, <1>2, <2>1, <2>2 DEF OldMaker
  <1>4. QED BY <1>1, <1>2, <1>3 DEF FilesInv

LEMMA FilesOther ==
  ASSUME FilesInv, NEW p \in Proc, NEW f \in Fd, workload' = workload, generation' = generation,
         \A q \in Proc, g \in Fd : q # p \/ g # f => Same(q, g),
         table'[p][f] # 0 => /\ OldMaker(p, f)'
                             /\ \A q \in Proc, g \in Fd : q # p \/ g # f => table[q][g] # table'[p][f]
  PROVE  FilesInv'
  <1>1. Proc' = Proc  BY DEF Proc
  <1>2. ASSUME NEW q \in Proc, NEW g \in Fd, q # p \/ g # f
        PROVE  /\ table'[q][g] = table[q][g]
               /\ table[q][g] # 0 => At(q, g)' = At(q, g)
    BY <1>2 DEF Same, At
  <1>3. ASSUME NEW q \in Proc, NEW g \in Fd, table'[q][g] # 0 PROVE OldMaker(q, g)'
    <2>1. CASE q = p /\ g = f  BY <1>3, <2>1
    <2>2. CASE q # p \/ g # f
      <3>1. table[q][g] # 0 /\ At(q, g)' = At(q, g)  BY <1>2, <1>3, <2>2
      <3>2. QED BY <1>1, <3>1 DEF FilesInv, OldMaker
    <2>3. QED BY <2>1, <2>2
  <1>4. ASSUME NEW q \in Proc, NEW u \in Proc, NEW g \in Fd, NEW h \in Fd, table'[q][g] # 0, table'[q][g] = table'[u][h],
               At(q, g)'.role = NoSource
        PROVE  q = u /\ g = h
    <2>1. CASE q = p /\ g = f  BY <1>2, <1>4, <2>1
    <2>2. CASE u = p /\ h = f  BY <1>2, <1>4, <2>2
    <2>3. CASE (q # p \/ g # f) /\ (u # p \/ h # f)
      <3>1. table'[q][g] = table[q][g] /\ table'[u][h] = table[u][h] /\ At(q, g).role = NoSource /\ table[q][g] # 0
        BY <1>2, <1>4, <2>3
      <3>2. table[q][g] = table[u][h] /\ table[q][g] # 0 /\ At(q, g).role = NoSource
        BY <1>4, <3>1
      <3>3. QED BY <3>2 DEF FilesInv
    <2>4. QED BY <2>1, <2>2, <2>3
  <1>5. QED BY <1>1, <1>3, <1>4 DEF FilesInv

LEMMA FilesOpened ==
  ASSUME TypeInv, FilesInv, NEW p, NEW f, NEW kind, NEW name, Opened(p, f, kind, name),
         workload' = workload, generation' = generation
  PROVE  FilesInv'
  <1>1. p \in Proc /\ f \in Fd /\ table'[p][f] # 0 /\ At(p, f)' = NewFile(kind, name, p)
    BY DEF Opened, At
  <1>2. Proc' = Proc  BY DEF Proc
  <1>3. OldMaker(p, f)'
    <2>1. NewFile(kind, name, p).by = << p, generation[p] >> /\ generation[p] \in Nat
      BY <1>1 DEF NewFile, Image, TypeInv
    <2>2. QED BY <1>1, <2>1 DEF OldMaker
  <1>4. /\ \A q \in Proc, g \in Fd : q # p \/ g # f => Same(q, g)
        /\ \A q \in Proc, g \in Fd : table[q][g] # table'[p][f]
    BY DEF Opened
  <1>5. QED BY <1>1, <1>2, <1>3, <1>4, FilesOther

(* A socket is not shared, so that its connection disturbs no other. *)
LEMMA ConnectedAlone ==
  ASSUME FilesInv, NEW p, NEW f, NEW name, Connected(p, f, name)
  PROVE  \A q \in Proc, g \in Fd : q # p \/ g # f => Same(q, g)
  <1>1. At(p, f).role = NoSource  BY DEF Connected, FileType, Roles
  <1>2. QED BY <1>1 DEF Connected, FilesInv

LEMMA FilesConnected ==
  ASSUME TypeInv, FilesInv, NEW p, NEW f, NEW name, Connected(p, f, name),
         workload' = workload, generation' = generation
  PROVE  FilesInv'
  <1>1. p \in Proc /\ f \in Fd /\ table[p][f] # 0 /\ table' = table /\ At(p, f) \in FileType
        /\ At(p, f)' = [At(p, f) EXCEPT !.name = name, !.by = Image(p)] /\ At(p, f).kind = "socket"
    BY DEF Connected, At
  <1> DEFINE file == [At(p, f) EXCEPT !.name = name, !.by = Image(p)]
  <1>2. file.by = << p, generation[p] >> /\ file.role = At(p, f).role /\ generation[p] \in Nat
    BY <1>1 DEF FileType, Image, TypeInv
  <1>3. Proc' = Proc  BY DEF Proc
  <1> HIDE DEF file
  <1>4. OldMaker(p, f)'  BY <1>1, <1>2 DEF OldMaker, file
  <1>5. \A q \in Proc, g \in Fd : q # p \/ g # f => Same(q, g) /\ table[q][g] # table'[p][f]
    <2>1. At(p, f).role = NoSource  BY <1>1 DEF FileType, Roles
    <2>2. QED BY <1>1, <2>1, ConnectedAlone DEF FilesInv
  <1>6. QED BY <1>1, <1>3, <1>4, <1>5, FilesOther DEF file

LEMMA FilesKept == TypeInv /\ FilesInv /\ [Next]_vars => FilesInv'
  <1> SUFFICES ASSUME TypeInv, FilesInv, [Next]_vars PROVE FilesInv'
    OBVIOUS
  <1>0. \A p \in Proc : generation[p] \in Nat  BY DEF TypeInv
  <1>1. ASSUME UNCHANGED << files, table >>, workload' = workload,
               \A p \in Proc : generation'[p] = generation[p] \/ generation'[p] = generation[p] + 1
        PROVE  FilesInv'
    <2>1. \A p \in Proc : generation[p] \in Nat /\ generation'[p] \in Nat /\ generation[p] <= generation'[p]
      BY <1>0, <1>1
    <2>2. QED BY <1>1, <2>1, FilesSame
  <1>2. ASSUME NEW t \in Thread, NEW c, NEW n, Entered(t, c, n) PROVE FilesInv'
    BY <1>1, <1>2 DEF Entered
  <1>3. ASSUME NEW t \in Thread, NEW n, Left(t, n) PROVE FilesInv'
    BY <1>1, <1>3 DEF Left
  <1>4. ASSUME NEW t \in Thread, NEW ret \in Int, Affected(t, ret)
        PROVE  /\ workload' = workload
               /\ \A p \in Proc : generation'[p] = generation[p] \/ generation'[p] = generation[p] + 1
               /\ call[t].op # "execve" => generation' = generation
    <2>1. /\ workload' = workload
          /\ \A p \in Proc : generation'[p] = generation[p] + IF p = Of(t) /\ call[t].op = "execve" /\ ret = 0 THEN 1 ELSE 0
      BY <1>4 DEF Affected
    <2>2. \A p \in Proc : generation'[p] = generation[p] \/ generation'[p] = generation[p] + 1
      BY <1>0, <2>1
    <2>3. ASSUME call[t].op # "execve" PROVE generation' = generation
      <3>1. \A p \in Proc : generation'[p] = generation[p]
        BY <1>0, <2>1, <2>3
      <3>2. Proc' = Proc  BY <2>1 DEF Proc
      <3>3. generation' \in [Proc -> Nat] /\ generation \in [Proc -> Nat]
        BY <3>2, TypesKept DEF TypeInv
      <3>4. QED BY <3>1, <3>3
    <2>4. QED BY <2>1, <2>2, <2>3
  <1>5. ASSUME NEW t \in Thread, Effects(t) PROVE FilesInv'
    <2>1. CASE Opens(t)
      <3>1. PICK f \in Fd : Affected(t, f) /\ Opened(Of(t), f, "file", call[t].what) /\ call[t].op = "open"
        BY <2>1, OpensIs
      <3>2. f \in Int  BY Values
      <3>3. QED BY <1>4, <3>1, <3>2, FilesOpened
    <2>2. CASE Closes(t)
      <3>1. Affected(t, 0) /\ Closed(Of(t), call[t].fd) /\ call[t].op = "close"
        BY <2>2, ClosesIs
      <3>2. workload' = workload /\ generation' = generation  BY <1>4, <3>1
      <3>3. QED BY <3>1, <3>2, FilesOther DEF Closed
    <2>3. CASE ConnectsTo(t)
      <3>1. Affected(t, 0) /\ Connected(Of(t), call[t].fd, call[t].what) /\ call[t].op = "connect"
        BY <2>3, ConnectsIs
      <3>2. QED BY <1>4, <3>1, FilesConnected
    <2>4. CASE Fails(t) \/ Reads(t) \/ Writes(t) \/ Execs(t)
      <3>1. UNCHANGED << files, table >>
        BY <2>4 DEF Fails, Reads, Writes, Execs
      <3>2. PICK ret \in Int : Affected(t, ret)  BY <1>5, EffectIs
      <3>3. QED BY <1>1, <1>4, <3>1, <3>2
    <2>5. QED BY <1>5, <2>1, <2>2, <2>3, <2>4 DEF Effects
  <1>6. ASSUME NEW p \in Proc, MakesSocket(p) PROVE FilesInv'
    <2>1. PICK f, kind : Opened(p, f, kind, NoSource)  BY <1>6, MakesSocketIs
    <2>2. workload' = workload /\ generation' = generation
      BY <1>6 DEF MakesSocket, Unobserved, analyzer
    <2>3. QED BY <2>1, <2>2, FilesOpened
  <1>7. CASE Aside /\ UNCHANGED << files, table >>  BY <1>1, <1>7 DEF Aside
  <1>8. QED BY <1>2, <1>3, <1>5, <1>6, <1>7, StepIs

(* At the start there are ends of pipes only. *)
LEMMA InitFiles == Init => FilesInv
  <1> SUFFICES ASSUME Init PROVE FilesInv
    OBVIOUS
  <1>1. workload \in Workloads /\ files = workload.files /\ table = workload.tables
    BY DEF Init
  <1>2. ASSUME NEW p \in Proc, NEW f \in Fd, table[p][f] # 0
        PROVE  At(p, f).role \in {"read", "write"} /\ At(p, f).by = << NoSession, 0 >>
    <2> DEFINE E == PipeEnd("pipe read", "read") \cup PipeEnd("pipe write", "write")
    <2>1. files \in Seq(E) /\ table[p][f] \in 0 .. Len(files)
      BY <1>1, Inputs DEF Proc
    <2> HIDE DEF E
    <2>2. At(p, f) \in E  BY <1>2, <2>1 DEF At
    <2>3. QED BY <2>2 DEF PipeEnd, E
  <1>3. NoSession \notin Proc  BY <1>1, Inputs DEF Proc
  <1>4. \A p \in Proc, f \in Fd : table[p][f] # 0 => OldMaker(p, f) /\ At(p, f).role # NoSource
    BY <1>2, <1>3, Values DEF OldMaker
  <1>5. QED BY <1>4 DEF FilesInv

-----------------------------------------------------------------------------
(* The replay of the calls agrees with the descriptors.                    *)
LEMMA EntryTakes ==
  ASSUME TypeInv, CallInv, NEW t, NEW c, NEW n, Entered(t, c, n)
  PROVE  SameTook /\ \A x : ~Took(n, x)'
  <1>1. /\ t \in Thread /\ call[t] = NoCall /\ n \notin Obs /\ Obs' = Obs \cup {n}
        /\ \A m \in Obs : observations'[m] = observations[m] /\ actual'[m] = actual[m]
        /\ \A u \in Thread : u # t => call'[u] = call[u]
        /\ call'[t].obs = n /\ call'[t].done = FALSE /\ workload' = workload
        /\ observations'[n].end = 0
    BY EntryStamps DEF Entered
  <1>2. Thread' = Thread /\ NoCall' = NoCall  BY <1>1 DEF Thread, NoCall
  <1>3. \A u \in Thread : call[u] # NoCall => call[u].obs \in Obs
    BY DEF TypeInv, Obs
  <1>4. ASSUME NEW m \in Obs, NEW x PROVE Took(m, x)' <=> Took(m, x)
    <2>1. m # n /\ observations'[m] = observations[m]  BY <1>1
    <2>2. \A u \in Thread : call'[u] # NoCall /\ call'[u].obs = m => u # t /\ call'[u] = call[u]
      BY <1>1, <2>1
    <2>3. \A u \in Thread : call[u] # NoCall => u # t /\ call'[u] = call[u]
      BY <1>1
    <2>4. QED BY <1>2, <2>1, <2>2, <2>3 DEF Took
  <1>5. ASSUME NEW x PROVE ~Took(n, x)'
    <2>1. \A u \in Thread : call'[u] # NoCall /\ call'[u].obs = n => ~call'[u].done
      BY <1>1, <1>3
    <2>2. QED BY <1>1, <1>2, <2>1 DEF Took
  <1>6. \A m \in Obs : SameCall(m)  BY <1>1 DEF SameCall
  <1>7. QED BY <1>1, <1>4, <1>5, <1>6 DEF SameTook

LEMMA ExitTakes ==
  ASSUME TypeInv, CallInv, NEW t, NEW n, Left(t, n)
  PROVE  SameTook
  <1>1. /\ t \in Thread /\ call[t] # NoCall /\ call[t].done /\ n = call[t].obs /\ n \in Obs
        /\ \A m \in Obs : m # n => observations'[m] = observations[m]
        /\ \A u \in Thread : u # t => call'[u] = call[u]
        /\ call'[t] = NoCall /\ workload' = workload /\ actual' = actual
        /\ clock \in Nat
    BY DEF Left
  <1>2. Thread' = Thread /\ NoCall' = NoCall  BY <1>1 DEF Thread, NoCall
  <1>3. observations'[n].ret = call[t].ret /\ observations'[n].end # 0 /\ \A m \in Obs : SameCall(m)
    <2>1. observations'[n].end = clock + 1  BY LeftKeeps
    <2>2. QED BY <1>1, <2>1, LeftKeeps
  <1>4. observations[n].end = 0 /\ \A u \in Thread : u # t /\ call[u] # NoCall => call[u].obs # n
    BY <1>1 DEF CallInv, Underway
  <1>5. ASSUME NEW m \in Obs, NEW x, m # n PROVE Took(m, x)' <=> Took(m, x)
    <2>1. observations'[m] = observations[m]  BY <1>1, <1>5
    <2>2. \A u \in Thread : call'[u] # NoCall => u # t /\ call'[u] = call[u]
      BY <1>1, <1>2
    <2>3. \A u \in Thread : call[u] # NoCall /\ call[u].obs = m => u # t /\ call'[u] = call[u]
      BY <1>1, <1>5
    <2>4. QED BY <1>2, <2>1, <2>2, <2>3 DEF Took
  <1>6. ASSUME NEW x PROVE Took(n, x)' <=> Took(n, x)
    <2>1. Took(n, x) <=> call[t].ret = x  BY <1>1, <1>4 DEF Took
    <2>2. \A u \in Thread : call'[u] # NoCall => call'[u].obs # n
      BY <1>1, <1>2, <1>4
    <2>3. Took(n, x)' <=> call[t].ret = x  BY <1>2, <1>3, <2>2 DEF Took
    <2>4. QED BY <2>1, <2>3
  <1>7. QED BY <1>1, <1>3, <1>5, <1>6 DEF SameTook

LEMMA EffectTakes ==
  ASSUME TypeInv, CallInv, NEW t, NEW ret, Affected(t, ret), NEW n, n = call[t].obs
  PROVE  TakesOnly(n, ret)
  <1>1. /\ t \in Thread /\ call[t] # NoCall /\ ~call[t].done /\ n \in Obs
        /\ observations' = observations /\ workload' = workload
        /\ \A u \in Thread : u # t => call'[u] = call[u]
        /\ call'[t].obs = n /\ call'[t].ret = ret /\ call'[t].done = TRUE /\ call'[t] # NoCall
        /\ \A m \in Obs : actual'[m].image = actual[m].image
    BY DEF Affected, Answered
  <1>2. Thread' = Thread /\ NoCall' = NoCall /\ Obs' = Obs
    BY <1>1 DEF Thread, NoCall, Obs
  <1>3. observations[n].end = 0 /\ \A u \in Thread : u # t /\ call[u] # NoCall => call[u].obs # n
    BY <1>1 DEF CallInv, Underway
  <1>4. \A m \in Obs : SameCall(m)  BY <1>1 DEF SameCall
  <1>5. ASSUME NEW m \in Obs, NEW x, m # n PROVE Took(m, x)' <=> Took(m, x)
    <2>1. \A u \in Thread : call'[u] # NoCall /\ call'[u].obs = m => u # t /\ call'[u] = call[u]
      BY <1>1, <1>5
    <2>2. \A u \in Thread : call[u] # NoCall /\ call[u].obs = m => u # t /\ call'[u] = call[u]
      BY <1>1, <1>5
    <2>3. QED BY <1>1, <1>2, <2>1, <2>2 DEF Took
  <1>6. ASSUME NEW x PROVE Took(n, x)' <=> x = ret
    <2>1. \A u \in Thread : u # t /\ call'[u] # NoCall => call'[u].obs # n
      BY <1>1, <1>3
    <2>2. observations'[n].end = 0  BY <1>1, <1>3
    <2>3. \A u \in Thread : call'[u] # NoCall /\ call'[u].obs = n => u = t
      BY <2>1
    <2>4. t \in Thread /\ call'[t] # NoCall /\ call'[t].obs = n /\ call'[t].done /\ call'[t].ret = ret
      BY <1>1
    <2>5. Took(n, x)' <=> \E u \in Thread : call'[u] # NoCall /\ call'[u].obs = n /\ call'[u].done /\ call'[u].ret = x
      BY <1>2, <2>2 DEF Took
    <2>6. QED BY <2>3, <2>4, <2>5
  <1>7. ASSUME NEW x PROVE ~Took(n, x)  BY <1>1, <1>3 DEF Took
  <1>8. QED BY <1>1, <1>2, <1>4, <1>5, <1>6, <1>7 DEF TakesOnly

(* Calls that overlap will always have. *)
LEMMA OverlapLasts ==
  ASSUME TypeInv, TimeInv, [Next]_vars, NEW m \in Obs, NEW n \in Obs, Overlap(m, n)
  PROVE  Overlap(m, n)'
  <1>0. \A k \in Obs : observations[k].start \in Nat /\ observations[k].end \in Nat /\ observations[k].start <= clock /\ clock \in Nat
    BY ObsTypes DEF EventType, TimeInv, TypeInv
  <1>1. ASSUME \A k \in {m, n} : /\ observations'[k].start = observations[k].start
                                 /\ observations'[k].end = observations[k].end \/ observations'[k].end = clock + 1
        PROVE  Overlap(m, n)'
    <2>1. \A j, k \in {m, n} : observations[j].start <= observations[k].end \/ observations[k].end = 0
            => observations'[j].start <= observations'[k].end \/ observations'[k].end = 0
      BY <1>0, <1>1
    <2>2. QED BY <2>1 DEF Overlap
  <1>2. ASSUME NEW t, NEW c, NEW k, Entered(t, c, k) PROVE Overlap(m, n)'
    BY <1>1, <1>2 DEF Entered
  <1>3. ASSUME NEW t, NEW k, Left(t, k) PROVE Overlap(m, n)'
    <2>1. \A j \in Obs : /\ observations'[j].start = observations[j].start
                         /\ observations'[j].end = observations[j].end \/ observations'[j].end = clock + 1
      BY <1>3, LeftKeeps DEF Left, SameCall
    <2>2. QED BY <1>1, <2>1
  <1>4. ASSUME UNCHANGED observations PROVE Overlap(m, n)'  BY <1>1, <1>4
  <1>5. QED BY <1>2, <1>3, <1>4, StepIs DEF Affected, Aside

(* A call that has not returned overlaps those entered after it. *)
LEMMA PendingOverlaps ==
  ASSUME TypeInv, TimeInv, NEW m \in Obs, NEW n \in Obs, m # n, observations[n].end = 0
  PROVE  n < m \/ observations[m].end = 0 => Overlap(m, n)
  <1>0. /\ m \in Nat /\ n \in Nat /\ observations[m].start \in Nat /\ observations[n].start \in Nat
        /\ observations[m].end \in Nat
    BY ObsTypes DEF EventType
  <1>1. n < m => observations[n].start < observations[m].start  BY DEF TimeInv
  <1>2. observations[m].end # 0 => observations[m].start < observations[m].end
    BY DEF TimeInv
  <1>3. n < m \/ observations[m].end = 0 => observations[n].start <= observations[m].end \/ observations[m].end = 0
    BY <1>0, <1>1, <1>2
  <1>4. QED BY <1>3 DEF Overlap

LEMMA SameRebound ==
  ASSUME NEW m \in Obs, SameCall(m), \A x : Took(m, x)' <=> Took(m, x)
  PROVE  \A f : Rebound(m, f)' <=> Rebound(m, f)
  BY DEF SameCall, Rebound

LEMMA SameRebinding ==
  ASSUME NEW m \in Obs, Obs \subseteq Obs', SameCall(m), actual'[m].image = actual[m].image
  PROVE  \A i : m \in RebindingCalls(i)' <=> m \in RebindingCalls(i)
  BY DEF SameCall, RebindingCalls, Obs

LEMMA NoneTakes ==
  ASSUME SameTook, Obs \subseteq Obs', \A n \in Obs' : n \in Obs \/ \A x : ~Took(n, x)'
  PROVE  \A f, i : SameLast(f, i)
  <1> SUFFICES ASSUME NEW f, NEW i PROVE SameLast(f, i)
    OBVIOUS
  <1>1. \A m \in Obs : /\ Rebound(m, f)' <=> Rebound(m, f)
                       /\ m \in RebindingCalls(i)' <=> m \in RebindingCalls(i)
    BY SameRebound, SameRebinding DEF SameTook
  <1>2. \A m \in Obs' : m \in Obs \/ ~Rebound(m, f)'  BY DEF Rebound
  <1>3. RebindingCalls(i) \subseteq Obs /\ RebindingCalls(i)' \subseteq Obs'
    BY DEF RebindingCalls, Obs
  <1>4. QED BY <1>1, <1>2, <1>3 DEF SameLast, LastRebound

LEMMA OtherTakes ==
  ASSUME NEW n, NEW ret, TakesOnly(n, ret), NEW f, NEW i, n \notin RebindingCalls(i) \/ ~Rebound(n, f)'
  PROVE  SameLast(f, i)
  <1>1. \A m \in Obs : /\ m # n => (Rebound(m, f)' <=> Rebound(m, f))
                       /\ m \in RebindingCalls(i)' <=> m \in RebindingCalls(i)
    BY SameRebound, SameRebinding DEF TakesOnly
  <1>2. ~Rebound(n, f)  BY DEF Rebound, TakesOnly
  <1>3. RebindingCalls(i) \subseteq Obs /\ RebindingCalls(i)' \subseteq Obs' /\ Obs' = Obs /\ n \in Obs
    BY DEF RebindingCalls, Obs, TakesOnly
  <1>4. \A m \in RebindingCalls(i) : Rebound(m, f)' <=> Rebound(m, f)
    BY <1>1, <1>2, <1>3
  <1>5. QED BY <1>1, <1>3, <1>4 DEF SameLast, LastRebound

(* Without a race the call that takes effect is the last. *)
LEMMA ThisTakes ==
  ASSUME TypeInv, TimeInv, NEW n, NEW ret, TakesOnly(n, ret), observations[n].end = 0, NEW f, NEW i,
         n \in RebindingCalls(i), Rebound(n, f)', NoRace(i)
  PROVE  \A m \in Obs' : LastRebound(m, f, i)' <=> m = n
  <1>1. \A m \in Obs : m \in RebindingCalls(i)' <=> m \in RebindingCalls(i)
    BY SameRebinding DEF TakesOnly
  <1>2. RebindingCalls(i) \subseteq Obs /\ RebindingCalls(i)' \subseteq Obs' /\ Obs' = Obs /\ n \in Obs
    BY DEF RebindingCalls, Obs, TakesOnly
  <1>3. \A m \in RebindingCalls(i) : m = n \/ ~(n < m)
    BY <1>2, PendingOverlaps DEF NoRace
  <1>4. \A m \in RebindingCalls(i)' : m \in Nat /\ n \in Nat /\ (m = n \/ m < n)
    BY <1>1, <1>2, <1>3, ObsTypes
  <1>5. LastRebound(n, f, i)'  BY <1>1, <1>2, <1>4 DEF LastRebound
  <1>6. ASSUME NEW m, LastRebound(m, f, i)' PROVE m = n
    BY <1>1, <1>2, <1>4, <1>6 DEF LastRebound
  <1>7. QED BY <1>5, <1>6

LEMMA ReplayStays ==
  ASSUME NEW p \in Proc, NEW f \in Fd, NEW i, SameLast(f, i), Same(p, f), Obs \subseteq Obs', \A m \in Obs : SameCall(m),
         Replayed(p, f, i)
  PROVE  Replayed(p, f, i)'
  <1>1. table'[p][f] = table[p][f] /\ (table[p][f] # 0 => At(p, f)' = At(p, f))
    BY DEF Same, At
  <1>2. \A n \in Obs : observations'[n].call = observations[n].call /\ observations'[n].source = observations[n].source
    BY DEF SameCall
  <1>3. \A n \in Obs' : LastRebound(n, f, i)' => n \in Obs /\ LastRebound(n, f, i)
    BY DEF SameLast
  <1>4. ASSUME NEW n \in Obs', LastRebound(n, f, i)', observations'[n].call # "close"
        PROVE  table'[p][f] # 0 /\ Settles(n, At(p, f))'
    <2>1. n \in Obs /\ LastRebound(n, f, i) /\ observations[n].call # "close"
      BY <1>2, <1>3, <1>4
    <2>2. table[p][f] # 0 /\ Settles(n, At(p, f))  BY <2>1 DEF Replayed
    <2>3. QED BY <1>1, <1>2, <2>1, <2>2 DEF Settles
  <1>5. ASSUME table'[p][f] # 0, At(p, f)'.by = i, Placed(At(p, f))'
        PROVE  \E n \in Obs' : LastRebound(n, f, i)' /\ observations'[n].call # "close"
    <2>1. table[p][f] # 0 /\ At(p, f).by = i /\ Placed(At(p, f))
      BY <1>1, <1>5 DEF Placed
    <2>2. PICK n \in Obs : LastRebound(n, f, i) /\ observations[n].call # "close"
      BY <2>1 DEF Replayed
    <2>3. n \in Obs' /\ LastRebound(n, f, i)' /\ observations'[n].call # "close"
      BY <1>2, <2>2 DEF SameLast
    <2>4. QED BY <2>3
  <1>6. QED BY <1>4, <1>5 DEF Replayed

(* The descriptor that a call rebinds, and the others.                     *)
LEMMA ReplayRebound ==
  ASSUME TypeInv, TimeInv, CallInv, ImageInv, ReplayInv, NEW t, NEW ret, Affected(t, ret),
         NEW n, n = call[t].obs, NEW p, p = Of(t), NEW f \in Fd,
         generation' = generation, call[t].op \in {"open", "connect", "close"},
         \A g \in Fd : Rebound(n, g)' <=> g = f,
         \A q \in Proc, g \in Fd : q # p \/ g # f => Same(q, g),
         call[t].op # "close" => table'[p][f] # 0 /\ Settles(n, At(p, f)'),
         call[t].op = "close" => table'[p][f] = 0,
         \A i : NoRace(i)' => NoRace(i)
  PROVE  ReplayInv'
  <1>1. /\ TakesOnly(n, ret) /\ n \in Obs /\ Obs' = Obs /\ p \in Proc /\ Proc' = Proc /\ observations' = observations
        /\ \A m \in Obs : SameCall(m)
    <2>1. TakesOnly(n, ret)  BY EffectTakes
    <2>2. p \in Proc /\ workload' = workload /\ observations' = observations
      BY DEF Affected
    <2>3. QED BY <2>1, <2>2 DEF TakesOnly, Proc
  <1>2. observations[n].end = 0 /\ observations[n].call = call[t].op /\ actual[n].image = Image(p)
    <2>1. Underway(t) /\ n \in Obs /\ ~Changed(t)
      BY DEF CallInv, Affected, Changed
    <2>2. observations[n].end = 0 /\ observations[n].call = call[t].op /\ observations[n].pid = p
          /\ generation[p] = observations[n].gen + 0
      BY <2>1 DEF Underway
    <2>3. observations[n].gen \in Nat  BY <2>1, ObsTypes DEF EventType
    <2>4. actual[n].image = << observations[n].pid, observations[n].gen >>
      BY <2>1 DEF ImageInv
    <2>5. QED BY <2>2, <2>3, <2>4 DEF Image
  <1>3. n \in RebindingCalls(Image(p)) /\ \A q \in Proc : q # p => n \notin RebindingCalls(Image(q))
    BY <1>1, <1>2 DEF RebindingCalls, Obs, Image
  <1>4. \A q : Image(q)' = Image(q)  BY DEF Image
  <1>5. ASSUME NEW q \in Proc, NEW g \in Fd, NoRace(Image(q))' PROVE Replayed(q, g, Image(q))'
    <2>0. PICK i : i = Image(q)
      OBVIOUS
    <2>1. NoRace(i) /\ Replayed(q, g, i)  BY <1>4, <1>5, <2>0 DEF ReplayInv
    <2>2. CASE q # p \/ g # f
      <3>1. Same(q, g)  BY <2>2
      <3>2. n \notin RebindingCalls(i) \/ ~Rebound(n, g)'  BY <1>3, <2>0, <2>2
      <3>3. SameLast(g, i)  BY <1>1, <3>2, OtherTakes
      <3>4. Replayed(q, g, i)'  BY <1>1, <2>1, <3>1, <3>3, ReplayStays
      <3>5. QED BY <1>4, <2>0, <3>4
    <2>3. CASE q = p /\ g = f
      <3>1. n \in RebindingCalls(i) /\ Rebound(n, f)'  BY <1>3, <2>0, <2>3
      <3>2. \A m \in Obs' : LastRebound(m, f, i)' <=> m = n
        BY <1>1, <1>2, <2>1, <3>1, ThisTakes
      <3>3. CASE call[t].op = "close"
        <4>1. table'[p][f] = 0 /\ observations'[n].call = "close"
          BY <1>1, <1>2, <3>3
        <4>2. Replayed(p, f, i)'  BY <3>2, <4>1 DEF Replayed
        <4>3. QED BY <1>4, <2>0, <2>3, <4>2
      <3>4. CASE call[t].op # "close"
        <4>1. table'[p][f] # 0 /\ Settles(n, At(p, f)') /\ observations'[n].call # "close" /\ n \in Obs'
          BY <1>1, <1>2, <3>4
        <4>2. Settles(n, At(p, f))'  BY <1>1, <4>1 DEF Settles
        <4>3. Replayed(p, f, i)'  BY <3>2, <4>1, <4>2 DEF Replayed
        <4>4. QED BY <1>4, <2>0, <2>3, <4>3
      <3>5. QED BY <3>3, <3>4
    <2>4. QED BY <2>2, <2>3
  <1>6. QED BY <1>1, <1>5 DEF ReplayInv

LEMMA ReplaySame ==
  ASSUME TypeInv, NEW p \in Proc, NEW f \in Fd, ReplayInv, \A i : NoRace(i)' => NoRace(i), \A g, i : SameLast(g, i),
         generation'[p] = generation[p], Same(p, f), Obs \subseteq Obs', \A m \in Obs : SameCall(m), NoRace(Image(p))'
  PROVE  Replayed(p, f, Image(p))'
  <1>1. PICK i : i = Image(p) /\ i = Image(p)'  BY DEF Image
  <1>2. Replayed(p, f, i)  BY <1>1 DEF ReplayInv
  <1>3. Replayed(p, f, i)'  BY <1>2, ReplayStays
  <1>4. QED BY <1>1, <1>3

LEMMA SameAll ==
  ASSUME UNCHANGED << files, table >>
  PROVE  \A p, f : Same(p, f)
  BY DEF Same

(* An image that has only begun rebound nothing and has no file.           *)
LEMMA ReplayBegins ==
  ASSUME TypeInv, ImageInv, FilesInv, NEW p \in Proc, NEW f \in Fd, NEW i, i = << p, generation[p] + 1 >>,
         observations' = observations, \A m \in Obs : actual'[m].image = actual[m].image, UNCHANGED << files, table >>
  PROVE  Replayed(p, f, i)'
  <1>0. generation[p] \in Nat  BY DEF TypeInv
  <1>1. \A m \in Obs : actual'[m].image # i
    <2> SUFFICES ASSUME NEW m \in Obs, actual[m].image = i PROVE FALSE
      OBVIOUS
    <2>1. observations[m].pid = p /\ observations[m].gen = generation[p] + 1 /\ observations[m].gen <= generation[p]
      BY DEF ImageInv
    <2>2. QED BY <1>0, <2>1
  <1>2. Obs' = Obs  BY DEF Obs
  <1>3. \A n : ~LastRebound(n, f, i)'
    BY <1>1, <1>2 DEF LastRebound, RebindingCalls, Obs
  <1>4. table[p][f] # 0 => At(p, f).by # i
    <2> SUFFICES ASSUME table[p][f] # 0, At(p, f).by = i PROVE FALSE
      OBVIOUS
    <2>1. OldMaker(p, f)  BY DEF FilesInv
    <2>2. generation[p] + 1 <= generation[p]  BY <2>1 DEF OldMaker
    <2>3. QED BY <1>0, <2>2
  <1>5. table'[p][f] # 0 => At(p, f)'.by # i  BY <1>4 DEF At
  <1>6. QED BY <1>3, <1>5 DEF Replayed

(* What becomes of a call that rebinds nothing when it takes effect.       *)
LEMMA ReplayAsBefore ==
  ASSUME TypeInv, TimeInv, CallInv, ImageInv, FilesInv, ReplayInv, NEW t, NEW ret \in Int, Affected(t, ret),
         UNCHANGED << files, table >>, call[t].op \in {"read", "write", "execve"} \/ ret < 0,
         \A i : NoRace(i)' => NoRace(i)
  PROVE  ReplayInv'
  <1>1. PICK n : n = call[t].obs
    OBVIOUS
  <1>2. /\ n \in Obs /\ t \in Thread /\ call[t] # NoCall /\ workload' = workload /\ observations' = observations
        /\ \A m \in Obs : actual'[m].image = actual[m].image
        /\ \A p \in Proc : generation'[p] = generation[p] + IF p = Of(t) /\ call[t].op = "execve" /\ ret = 0 THEN 1 ELSE 0
    BY <1>1 DEF Affected
  <1>3. TakesOnly(n, ret) /\ Obs' = Obs /\ Proc' = Proc /\ \A m \in Obs : SameCall(m)
    <2>1. TakesOnly(n, ret)  BY <1>1, EffectTakes
    <2>2. QED BY <1>2, <2>1 DEF TakesOnly, Proc
  <1>4. observations[n].call = call[t].op  BY <1>1, <1>2 DEF CallInv, Underway
  <1>5. ASSUME NEW f \in Fd, NEW i PROVE n \notin RebindingCalls(i) \/ ~Rebound(n, f)'
    <2>1. CASE call[t].op \in {"read", "write", "execve"}
      BY <1>4, <2>1 DEF RebindingCalls
    <2>2. CASE ret < 0
      <3>1. f # ret /\ ret # 0  BY <2>2, Values
      <3>2. ~Took(n, f)' /\ ~Took(n, 0)'  BY <1>3, <3>1 DEF TakesOnly
      <3>3. QED BY <3>2 DEF Rebound
    <2>3. QED BY <2>1, <2>2
  <1>6. ASSUME NEW p \in Proc, NEW f \in Fd, NoRace(Image(p))' PROVE Replayed(p, f, Image(p))'
    <2>0. generation[p] \in Nat  BY DEF TypeInv
    <2>1. CASE generation'[p] = generation[p] + 1
      <3>1. PICK i : i = << p, generation[p] + 1 >> /\ i = Image(p)'
        BY <2>1 DEF Image
      <3>2. Replayed(p, f, i)'  BY <1>2, <3>1, ReplayBegins
      <3>3. QED BY <3>1, <3>2
    <2>2. CASE generation'[p] = generation[p]
      <3>1. PICK i : i = Image(p) /\ i = Image(p)'  BY <2>2 DEF Image
      <3>2. Replayed(p, f, i)  BY <1>6, <3>1 DEF ReplayInv
      <3>3. SameLast(f, i)  BY <1>3, <1>5, OtherTakes
      <3>4. Replayed(p, f, i)'  BY <1>3, <3>2, <3>3, ReplayStays, SameAll
      <3>5. QED BY <3>1, <3>4
    <2>3. QED BY <1>2, <2>0, <2>1, <2>2
  <1>7. QED BY <1>3, <1>6 DEF ReplayInv

(* A step does not shorten the set of observations, nor change what is known of them. *)
LEMMA ObsGrow ==
  ASSUME TypeInv, CallInv, [Next]_vars
  PROVE  Obs \subseteq Obs' /\ \A m \in Obs : SameCall(m) /\ actual'[m].image = actual[m].image
  <1>1. ASSUME NEW t, NEW c, NEW n, Entered(t, c, n)
        PROVE  Obs \subseteq Obs' /\ \A m \in Obs : SameCall(m) /\ actual'[m].image = actual[m].image
    BY <1>1 DEF Entered, SameCall
  <1>2. ASSUME NEW t, NEW n, Left(t, n)
        PROVE  Obs \subseteq Obs' /\ \A m \in Obs : SameCall(m) /\ actual'[m].image = actual[m].image
    BY <1>2, LeftKeeps DEF Left
  <1>3. ASSUME UNCHANGED observations, \A m \in Obs : actual'[m].image = actual[m].image
        PROVE  Obs \subseteq Obs' /\ \A m \in Obs : SameCall(m) /\ actual'[m].image = actual[m].image
    BY <1>3 DEF Obs, SameCall
  <1>4. ASSUME NEW t, NEW ret, Affected(t, ret) PROVE \A m \in Obs : actual'[m].image = actual[m].image
    BY <1>4 DEF Affected
  <1>5. QED BY <1>1, <1>2, <1>3, <1>4, StepIs DEF Affected, Aside

LEMMA RacesLast ==
  ASSUME TypeInv, TimeInv, CallInv, [Next]_vars
  PROVE  \A i : NoRace(i)' => NoRace(i)
  <1> SUFFICES ASSUME NEW i, NoRace(i)', NEW m \in RebindingCalls(i), NEW n \in RebindingCalls(i), Overlap(m, n)
               PROVE  FALSE
    BY DEF NoRace
  <1>1. m \in Obs /\ n \in Obs  BY DEF RebindingCalls, Obs
  <1>2. m \in RebindingCalls(i)' /\ n \in RebindingCalls(i)'
    BY <1>1, ObsGrow, SameRebinding
  <1>3. Overlap(m, n)'  BY <1>1, OverlapLasts
  <1>4. QED BY <1>2, <1>3 DEF NoRace

LEMMA ReplayKept ==
  TypeInv /\ TimeInv /\ ImageInv /\ CallInv /\ FilesInv /\ ReplayInv /\ [Next]_vars => ReplayInv'
  <1> SUFFICES ASSUME TypeInv, TimeInv, ImageInv, CallInv, FilesInv, ReplayInv, [Next]_vars PROVE ReplayInv'
    OBVIOUS
  <1>0. /\ \A i : NoRace(i)' => NoRace(i)
        /\ Obs \subseteq Obs' /\ \A m \in Obs : SameCall(m)
    BY RacesLast, ObsGrow
  <1>1. ASSUME \A g, i : SameLast(g, i), workload' = workload, generation' = generation, UNCHANGED << files, table >>
        PROVE  ReplayInv'
    <2>1. Proc' = Proc  BY <1>1 DEF Proc
    <2>2. QED BY <1>0, <1>1, <2>1, ReplaySame, SameAll DEF ReplayInv
  <1>2. ASSUME NEW t, NEW c, NEW n, Entered(t, c, n) PROVE ReplayInv'
    <2>1. SameTook /\ \A m \in Obs' : m \in Obs \/ \A x : ~Took(m, x)'
      <3>1. Obs' = Obs \cup {n}  BY <1>2 DEF Entered
      <3>2. QED BY <1>2, <3>1, EntryTakes
    <2>2. QED BY <1>0, <1>1, <1>2, <2>1, NoneTakes DEF Entered
  <1>3. ASSUME NEW t, NEW n, Left(t, n) PROVE ReplayInv'
    <2>1. SameTook /\ Obs' = Obs  BY <1>3, ExitTakes DEF Left
    <2>2. QED BY <1>0, <1>1, <1>3, <2>1, NoneTakes DEF Left
  <1>4. ASSUME Aside PROVE SameTook /\ Obs' = Obs /\ workload' = workload /\ generation' = generation
    <2>1. UNCHANGED << workload, call, observations, actual, generation >>
      BY <1>4 DEF Aside
    <2>2. \A m, x : Took(m, x)' <=> Took(m, x)
      BY <2>1 DEF Took, Thread, NoCall
    <2>3. \A m \in Obs : SameCall(m) /\ actual'[m] = actual[m]
      BY <2>1 DEF SameCall
    <2>4. QED BY <2>1, <2>2, <2>3 DEF SameTook, Obs
  <1>5. ASSUME NEW p \in Proc, MakesSocket(p) PROVE ReplayInv'
    <2>1. Aside  BY <1>5, AsideAre
    <2>2. PICK f \in Fd, kind \in {"socket", "peer"} : Opened(p, f, kind, NoSource)
      BY <1>5, MakesSocketIs
    <2>3. SameTook /\ Obs' = Obs /\ Proc' = Proc /\ generation' = generation
      BY <1>4, <2>1 DEF Proc
    <2>4. \A g, i : SameLast(g, i)  BY <2>3, NoneTakes
    <2>5. ASSUME NEW q \in Proc, NEW g \in Fd, NoRace(Image(q))', q # p \/ g # f PROVE Replayed(q, g, Image(q))'
      <3>1. Same(q, g)  BY <2>2, <2>5 DEF Opened
      <3>2. QED BY <1>0, <2>3, <2>4, <2>5, <3>1, ReplaySame
    <2>6. ASSUME NoRace(Image(p))' PROVE Replayed(p, f, Image(p))'
      <3>1. PICK i : i = Image(p) /\ i = Image(p)'  BY <2>3 DEF Image
      <3>2. Replayed(p, f, i) /\ table[p][f] = 0
        BY <1>0, <2>2, <2>6, <3>1 DEF ReplayInv, Opened
      <3>3. \A n \in Obs : ~(LastRebound(n, f, i) /\ observations[n].call # "close")
        BY <3>2 DEF Replayed
      <3>4. \A n \in Obs' : ~(LastRebound(n, f, i)' /\ observations'[n].call # "close")
        BY <1>0, <2>3, <2>4, <3>3 DEF SameLast, SameCall
      <3>5. At(p, f)' = NewFile(kind, NoSource, p)  BY <2>2 DEF Opened, At
      <3>6. ~Placed(At(p, f))'  BY <3>5 DEF NewFile, Placed
      <3>7. Replayed(p, f, i)'  BY <3>4, <3>6 DEF Replayed
      <3>8. QED BY <3>1, <3>7
    <2>7. QED BY <2>3, <2>5, <2>6 DEF ReplayInv
  <1>6. ASSUME NEW t \in Thread, Opens(t) PROVE ReplayInv'
    <2>1. PICK f \in Fd : Affected(t, f) /\ Opened(Of(t), f, "file", call[t].what) /\ call[t].op = "open"
      BY <1>6, OpensIs
    <2>2. PICK n, p : n = call[t].obs /\ p = Of(t)
      OBVIOUS
    <2>3. /\ TakesOnly(n, f) /\ n \in Obs /\ observations[n].call = "open" /\ observations[n].source = call[t].what
          /\ observations' = observations
      BY <2>1, <2>2, EffectTakes DEF CallInv, Underway, Affected
    <2>4. \A g \in Fd : Rebound(n, g)' <=> g = f
      BY <2>3 DEF TakesOnly, Rebound
    <2>5. table'[p][f] # 0 /\ At(p, f)' = NewFile("file", call[t].what, p) /\ \A q \in Proc, g \in Fd : q # p \/ g # f => Same(q, g)
      BY <2>1, <2>2 DEF Opened, At
    <2>6. Settles(n, At(p, f)')  BY <2>3, <2>5 DEF Settles, NewFile
    <2>7. generation' = generation  BY <1>6 DEF Opens, Unobserved, analyzer
    <2>8. QED BY <1>0, <2>1, <2>2, <2>4, <2>5, <2>6, <2>7, ReplayRebound
  <1>7. ASSUME NEW t \in Thread, Closes(t) PROVE ReplayInv'
    <2>1. PICK f, n, p : n = call[t].obs /\ p = Of(t) /\ f = call[t].fd
      OBVIOUS
    <2>2. Affected(t, 0) /\ Closed(p, f) /\ call[t].op = "close"
      BY <1>7, <2>1, ClosesIs
    <2>3. TakesOnly(n, 0) /\ n \in Obs /\ observations[n].call = "close" /\ observations[n].fd = f /\ observations' = observations
      BY <2>1, <2>2, EffectTakes DEF CallInv, Underway, Affected
    <2>4. \A g \in Fd : Rebound(n, g)' <=> g = f
      BY <2>3 DEF TakesOnly, Rebound
    <2>5. f \in Fd /\ table'[p][f] = 0 /\ \A q \in Proc, g \in Fd : q # p \/ g # f => Same(q, g)
      BY <2>2 DEF Closed
    <2>6. generation' = generation  BY <1>7 DEF Closes, Unobserved, analyzer
    <2>7. QED BY <1>0, <2>1, <2>2, <2>4, <2>5, <2>6, ReplayRebound
  <1>8. ASSUME NEW t \in Thread, ConnectsTo(t) PROVE ReplayInv'
    <2>1. PICK f, n, p : n = call[t].obs /\ p = Of(t) /\ f = call[t].fd
      OBVIOUS
    <2>2. Affected(t, 0) /\ Connected(p, f, call[t].what) /\ call[t].op = "connect"
      BY <1>8, <2>1, ConnectsIs
    <2>3. /\ TakesOnly(n, 0) /\ n \in Obs /\ observations[n].call = "connect" /\ observations[n].fd = f
          /\ observations[n].source = call[t].what /\ observations' = observations
      BY <2>1, <2>2, EffectTakes DEF CallInv, Underway, Affected
    <2>4. \A g \in Fd : Rebound(n, g)' <=> g = f
      BY <2>3 DEF TakesOnly, Rebound
    <2>5. /\ f \in Fd /\ p \in Proc /\ table'[p][f] # 0
          /\ At(p, f) \in FileType /\ At(p, f).kind = "socket"
          /\ At(p, f)' = [At(p, f) EXCEPT !.name = call[t].what, !.by = Image(p)]
      BY <2>2 DEF Connected, At
    <2>6. At(p, f)'.kind = "socket" /\ At(p, f)'.name = call[t].what
      BY <2>5 DEF FileType
    <2>7. Settles(n, At(p, f)')  BY <2>3, <2>6 DEF Settles
    <2>8. \A q \in Proc, g \in Fd : q # p \/ g # f => Same(q, g)
      BY <2>2, ConnectedAlone
    <2>9. generation' = generation
      BY <1>8 DEF ConnectsTo, Unobserved, analyzer
    <2>10. QED BY <1>0, <2>1, <2>2, <2>4, <2>5, <2>7, <2>8, <2>9, ReplayRebound
  <1>9. ASSUME NEW t \in Thread, Effects(t) PROVE ReplayInv'
    <2>1. CASE Opens(t) \/ Closes(t) \/ ConnectsTo(t)
      BY <1>6, <1>7, <1>8, <2>1
    <2>2. CASE Fails(t)  BY <1>0, <2>2, FailsIs, ReplayAsBefore
    <2>3. CASE Reads(t) \/ Writes(t) \/ Execs(t)
      <3>1. call[t].op \in {"read", "write", "execve"} /\ UNCHANGED << files, table >>
        BY <2>3 DEF Reads, Writes, Execs, Runs
      <3>2. PICK ret \in Int : Affected(t, ret)  BY <1>9, EffectIs
      <3>3. QED BY <1>0, <3>1, <3>2, ReplayAsBefore
    <2>4. QED BY <1>9, <2>1, <2>2, <2>3 DEF Effects
  <1>10. CASE Aside /\ UNCHANGED << files, table >>
    BY <1>0, <1>1, <1>4, <1>10, NoneTakes
  <1>11. QED BY <1>2, <1>3, <1>5, <1>9, <1>10, StepIs

LEMMA InitReplay == Init => ReplayInv
  <1> SUFFICES ASSUME Init PROVE ReplayInv
    OBVIOUS
  <1>1. Obs = {} /\ generation = [p \in Proc |-> 0]  BY NothingYet DEF Init
  <1>2. ASSUME NEW p \in Proc, NEW f \in Fd, table[p][f] # 0 PROVE ~Placed(At(p, f))
    <2> DEFINE E == PipeEnd("pipe read", "read") \cup PipeEnd("pipe write", "write")
    <2>1. workload \in Workloads /\ files = workload.files /\ table = workload.tables
      BY DEF Init
    <2>2. files \in Seq(E) /\ table[p][f] \in 0 .. Len(files)
      BY <2>1, Inputs DEF Proc
    <2> HIDE DEF E
    <2>3. At(p, f) \in E  BY <1>2, <2>2 DEF At
    <2>4. QED BY <2>3 DEF PipeEnd, E, Placed
  <1>3. QED BY <1>1, <1>2 DEF ReplayInv, Replayed

LEMMA UnracedLast ==
  ASSUME TypeInv, TimeInv, CallInv, [Next]_vars, NEW r \in Obs, Unraced(r)'
  PROVE  Unraced(r)
  <1>1. PICK i : i = actual[r].image /\ i = actual'[r].image  BY ObsGrow
  <1>2. \A m \in RebindingCalls(i) : m \in Obs /\ m \in RebindingCalls(i)'
    BY ObsGrow, SameRebinding DEF RebindingCalls, Obs
  <1>3. \A m \in RebindingCalls(i)' : ~Overlap(m, r)' /\ \A k \in RebindingCalls(i)' : ~Overlap(m, k)'
    BY <1>1 DEF Unraced
  <1>4. \A m \in RebindingCalls(i) : ~Overlap(m, r) /\ \A k \in RebindingCalls(i) : ~Overlap(m, k)
    BY <1>2, <1>3, OverlapLasts
  <1>5. QED BY <1>1, <1>4 DEF Unraced

LEMMA RetracedStays ==
  ASSUME TypeInv, TimeInv, CallInv, [Next]_vars, NEW r \in Obs, Retraced(r), actual'[r] = actual[r],
         \A m \in RebindingCalls(actual[r].image) : m < r => observations'[m] = observations[m],
         \A m \in Obs' : m \in Obs \/ ~(m < r)
  PROVE  Retraced(r)'
  <1>1. PICK i : i = actual[r].image /\ i = actual'[r].image  BY ObsGrow
  <1>2. \A m \in Obs : m \in RebindingCalls(i)' <=> m \in RebindingCalls(i)
    BY ObsGrow, SameRebinding
  <1>3. RebindingCalls(i) \subseteq Obs /\ RebindingCalls(i)' \subseteq Obs' /\ Obs \subseteq Obs'
    BY ObsGrow DEF RebindingCalls, Obs
  <1>4. \A m \in Obs : observations'[m].call = observations[m].call /\ observations'[m].source = observations[m].source
    BY ObsGrow DEF SameCall
  <1>5. observations'[r].fd = observations[r].fd  BY ObsGrow DEF SameCall
  <1>6. \A m \in RebindingCalls(i) : m < r => (R!Rebinds(observations'[m], observations'[r].fd) <=> R!Rebinds(observations[m], observations[r].fd))
    BY <1>1, <1>5
  <1>7. \A m \in Obs' : LastBefore(m, r)' <=> m \in Obs /\ LastBefore(m, r)
    <2>1. \A m \in RebindingCalls(i)' : m < r => m \in RebindingCalls(i)
      BY <1>2, <1>3
    <2>2. \A m \in RebindingCalls(i) : m \in RebindingCalls(i)'  BY <1>2, <1>3
    <2>3. \A m : LastBefore(m, r) <=>
            /\ m \in RebindingCalls(i) /\ m < r /\ R!Rebinds(observations[m], observations[r].fd)
            /\ \A k \in RebindingCalls(i) : m < k /\ k < r => ~R!Rebinds(observations[k], observations[r].fd)
      BY <1>1 DEF LastBefore
    <2>4. \A m : LastBefore(m, r)' <=>
            /\ m \in RebindingCalls(i)' /\ m < r /\ R!Rebinds(observations'[m], observations'[r].fd)
            /\ \A k \in RebindingCalls(i)' : m < k /\ k < r => ~R!Rebinds(observations'[k], observations'[r].fd)
      BY <1>1 DEF LastBefore, R!Rebinds
    <2>5. QED BY <1>3, <1>6, <2>1, <2>2, <2>3, <2>4
  <1>8. ASSUME NEW n \in Obs', LastBefore(n, r)', observations'[n].call # "close" PROVE Settles(n, actual[r])'
    <2>1. n \in Obs /\ LastBefore(n, r) /\ observations[n].call # "close"
      BY <1>4, <1>7, <1>8
    <2>2. Settles(n, actual[r])  BY <2>1 DEF Retraced
    <2>3. QED BY <1>4, <2>1, <2>2 DEF Settles
  <1>9. ASSUME actual'[r].by = actual'[r].image, Placed(actual[r])'
        PROVE  \E n \in Obs' : LastBefore(n, r)' /\ observations'[n].call # "close"
    <2>1. PICK n \in Obs : LastBefore(n, r) /\ observations[n].call # "close"
      BY <1>9 DEF Placed, Retraced
    <2>2. n \in Obs' /\ LastBefore(n, r)' /\ observations'[n].call # "close"
      BY <1>3, <1>4, <1>7, <2>1
    <2>3. QED BY <2>2
  <1>10. QED BY <1>8, <1>9 DEF Retraced

(* A read or a write that takes effect. *)
LEMMA RetracedIs ==
  ASSUME TypeInv, TimeInv, CallInv, ImageInv, ValueInv, ReplayInv, NEW t, NEW ret, Affected(t, ret),
         NEW r, r = call[t].obs, NEW file, NEW from, Acted(t, file, from), call[t].op \in {"read", "write"},
         Unraced(r), NEW a, a = actual'[r]
  PROVE  /\ \A n \in Obs : LastBefore(n, r) /\ observations[n].call # "close" => Settles(n, a)
         /\ a.by = a.image /\ Placed(a) => \E n \in Obs : LastBefore(n, r) /\ observations[n].call # "close"
  <1>1. PICK p, f, i : p = Of(t) /\ f = call[t].fd /\ i = Image(p)
    OBVIOUS
  <1>2. /\ t \in Thread /\ call[t] # NoCall /\ r \in Obs /\ Underway(t) /\ p \in Proc /\ f \in Fd
        /\ file = At(p, f) /\ table[p][f] # 0
        /\ a.kind = file.kind /\ a.name = file.name /\ a.by = file.by /\ a.image = actual[r].image
    BY <1>1 DEF Affected, CallInv, Acted, Marked
  <1>3. observations[r].end = 0 /\ observations[r].fd = f /\ observations[r].call = call[t].op
    BY <1>1, <1>2 DEF Underway
  <1>4. actual[r].image = i
    <2>1. observations[r].pid = p /\ generation[p] = observations[r].gen + 0
      BY <1>1, <1>2 DEF Underway, Changed
    <2>2. observations[r].gen \in Nat  BY <1>2, ObsTypes DEF EventType
    <2>3. actual[r].image = << observations[r].pid, observations[r].gen >>
      BY <1>2 DEF ImageInv
    <2>4. QED BY <1>1, <2>1, <2>2, <2>3 DEF Image
  <1>5. NoRace(i) /\ \A m \in RebindingCalls(i) : ~Overlap(m, r)
    BY <1>4 DEF Unraced, NoRace
  <1>6. \A m \in RebindingCalls(i) : m \in Obs /\ observations[m].call \in {"open", "connect", "close"} /\ m # r
    BY <1>3 DEF RebindingCalls, Obs
  <1>7. \A m \in RebindingCalls(i) : m < r /\ observations[m].end # 0
    <2>1. ASSUME NEW m \in RebindingCalls(i) PROVE ~(r < m) /\ observations[m].end # 0
      BY <1>2, <1>3, <1>5, <1>6, PendingOverlaps
    <2>2. QED BY <1>2, <1>6, <2>1, ObsTypes
  <1>8. \A m \in RebindingCalls(i) : Rebound(m, f) <=> R!Rebinds(observations[m], f)
    <2> SUFFICES ASSUME NEW m \in RebindingCalls(i) PROVE Rebound(m, f) <=> R!Rebinds(observations[m], f)
      OBVIOUS
    <2>1. \A u \in Thread : call[u] # NoCall => call[u].obs # m
      BY <1>6, <1>7 DEF CallInv, Underway
    <2>2. \A x : Took(m, x) <=> observations[m].ret = x
      BY <1>7, <2>1 DEF Took
    <2>3. observations[m].call \in {"open", "connect"} => observations[m].source # NoSource
      BY <1>6 DEF ValueInv, HasValue
    <2>4. QED BY <1>6, <2>2, <2>3 DEF Rebound, R!Rebinds
  <1>9. \A n : LastBefore(n, r) <=> LastRebound(n, f, i)
    BY <1>3, <1>4, <1>7, <1>8 DEF LastBefore, LastRebound
  <1>10. Replayed(p, f, i)  BY <1>1, <1>2, <1>5 DEF ReplayInv
  <1>11. ASSUME NEW n \in Obs, LastBefore(n, r), observations[n].call # "close" PROVE Settles(n, a)
    <2>1. Settles(n, file)  BY <1>2, <1>9, <1>10, <1>11 DEF Replayed
    <2>2. QED BY <1>2, <2>1 DEF Settles
  <1>12. ASSUME a.by = a.image, Placed(a) PROVE \E n \in Obs : LastBefore(n, r) /\ observations[n].call # "close"
    <2>1. file.by = i /\ Placed(file)  BY <1>2, <1>4, <1>12 DEF Placed
    <2>2. QED BY <1>2, <1>9, <1>10, <2>1 DEF Replayed
  <1>13. QED BY <1>11, <1>12

LEMMA EffectKept ==
  TypeInv /\ TimeInv /\ ImageInv /\ CallInv /\ ValueInv /\ ReplayInv /\ EffectInv /\ [Next]_vars => EffectInv'
  <1> SUFFICES ASSUME TypeInv, TimeInv, ImageInv, CallInv, ValueInv, ReplayInv, EffectInv, [Next]_vars PROVE EffectInv'
    OBVIOUS
  <1>1. ASSUME NEW r \in Obs, actual'[r] = actual[r], actual'[r].kind # NoSource, Unraced(r)',
               \A m \in RebindingCalls(actual[r].image) : m < r => observations'[m] = observations[m],
               \A m \in Obs' : m \in Obs \/ ~(m < r)
        PROVE  Retraced(r)'
    <2>1. Unraced(r) /\ actual[r].kind # NoSource  BY <1>1, UnracedLast
    <2>2. Retraced(r)  BY <2>1 DEF EffectInv
    <2>3. QED BY <1>1, <2>2, RetracedStays
  <1>2. \A i : RebindingCalls(i) \subseteq Obs  BY DEF RebindingCalls, Obs
  <1>3. ASSUME observations' = observations, NEW r \in Obs, actual'[r] = actual[r], actual'[r].kind # NoSource, Unraced(r)'
        PROVE  Retraced(r)'
    <2>1. Obs' = Obs  BY <1>3 DEF Obs
    <2>2. QED BY <1>1, <1>3, <2>1
  <1>4. ASSUME NEW t, NEW c, NEW n, Entered(t, c, n) PROVE EffectInv'
    <2>1. /\ Obs' = Obs \cup {n} /\ \A m \in Obs : m < n /\ m \in Nat /\ observations'[m] = observations[m] /\ actual'[m] = actual[m]
          /\ n \in Nat /\ actual'[n].kind = NoSource
      BY <1>4 DEF Entered
    <2>2. ASSUME NEW r \in Obs', actual'[r].kind # NoSource, Unraced(r)' PROVE Retraced(r)'
      <3>1. r \in Obs  BY <2>1, <2>2
      <3>2. \A m \in Obs' : m \in Obs \/ ~(m < r)  BY <2>1, <3>1
      <3>3. actual'[r] = actual[r] /\ \A m \in RebindingCalls(actual[r].image) : observations'[m] = observations[m]
        BY <1>2, <2>1, <3>1
      <3>4. QED BY <1>1, <2>2, <3>1, <3>2, <3>3
    <2>3. QED BY <2>2 DEF EffectInv
  <1>5. ASSUME NEW t, NEW n, Left(t, n) PROVE EffectInv'
    <2>1. /\ Obs' = Obs /\ n \in Obs /\ \A m \in Obs : m # n => observations'[m] = observations[m]
          /\ actual' = actual /\ observations[n].end = 0 /\ \A m \in Obs : m \in Nat
      BY <1>5 DEF Left, CallInv, Underway
    <2>2. ASSUME NEW r \in Obs', actual'[r].kind # NoSource, Unraced(r)' PROVE Retraced(r)'
      <3>1. r \in Obs /\ Unraced(r)  BY <2>1, <2>2, UnracedLast
      <3>2. ASSUME NEW m \in RebindingCalls(actual[r].image), m < r PROVE m # n
        <4>1. m \in Obs /\ ~Overlap(m, r)  BY <1>2, <3>1 DEF Unraced
        <4>2. ~Overlap(r, m)  BY <4>1 DEF Overlap
        <4>3. r # m  BY <2>1, <3>1, <3>2, <4>1
        <4>4. observations[m].end # 0
          BY <3>1, <3>2, <4>1, <4>2, <4>3, PendingOverlaps
        <4>5. QED BY <2>1, <4>4
      <3>3. \A m \in RebindingCalls(actual[r].image) : m < r => observations'[m] = observations[m]
        BY <1>2, <2>1, <3>2
      <3>4. QED BY <1>1, <2>1, <2>2, <3>1, <3>3
    <2>3. QED BY <2>2 DEF EffectInv
  <1>6. ASSUME NEW t, NEW ret, Affected(t, ret), NEW file, NEW from, Acted(t, file, from), call[t].op \in {"read", "write"}
        PROVE  EffectInv'
    <2>1. PICK n : n = call[t].obs
      OBVIOUS
    <2>2. n \in Obs /\ observations' = observations /\ Obs' = Obs /\ \A m \in Obs : m # n => actual'[m] = actual[m]
      BY <1>6, <2>1 DEF Affected, Obs
    <2>3. ASSUME NEW r \in Obs', actual'[r].kind # NoSource, Unraced(r)' PROVE Retraced(r)'
      <3>1. CASE r # n  BY <1>3, <2>2, <2>3, <3>1
      <3>2. CASE r = n
        <4>1. Unraced(r) /\ r \in Obs  BY <2>2, <2>3, UnracedLast
        <4>2. PICK a : a = actual'[r]
          OBVIOUS
        <4>3. /\ \A m \in Obs : LastBefore(m, r) /\ observations[m].call # "close" => Settles(m, a)
              /\ a.by = a.image /\ Placed(a) => \E m \in Obs : LastBefore(m, r) /\ observations[m].call # "close"
          BY <1>6, <2>1, <3>2, <4>1, <4>2, RetracedIs
        <4>4. \A i : RebindingCalls(i)' = RebindingCalls(i)
          <5>1. \A m \in Obs : actual'[m].image = actual[m].image  BY ObsGrow
          <5>2. QED BY <2>2, <5>1 DEF RebindingCalls, Obs
        <4>5. actual'[r].image = actual[r].image  BY <4>1, ObsGrow
        <4>6. \A m : LastBefore(m, r)' <=> LastBefore(m, r)
          BY <2>2, <4>4, <4>5 DEF LastBefore, R!Rebinds
        <4>7. \A m : Settles(m, a)' <=> Settles(m, a)  BY <2>2 DEF Settles
        <4>8. QED BY <2>2, <4>2, <4>3, <4>6, <4>7 DEF Retraced
      <3>3. QED BY <3>1, <3>2
    <2>4. QED BY <2>3 DEF EffectInv
  <1>7. ASSUME UNCHANGED << observations, actual >> PROVE EffectInv'
    <2>1. Obs' = Obs  BY <1>7 DEF Obs
    <2>2. QED BY <1>3, <1>7, <2>1 DEF EffectInv
  <1>8. ASSUME NEW t \in Thread, Effects(t) PROVE EffectInv'
    <2>1. CASE Reads(t)  BY <1>6, <2>1, ReadsIs
    <2>2. CASE Writes(t)  BY <1>6, <2>2, WritesIs
    <2>3. CASE ~Reads(t) /\ ~Writes(t)
      <3>1. PICK ret \in Int : Affected(t, ret)  BY <1>8, EffectIs
      <3>2. UNCHANGED << observations, actual >>
        BY <1>8, <2>3, <3>1 DEF Effects, Fails, Opens, Closes, ConnectsTo, Execs, Affected
      <3>3. QED BY <1>7, <3>2
    <2>4. QED BY <2>1, <2>2, <2>3
  <1>9. CASE Aside  BY <1>7, <1>9 DEF Aside
  <1>10. QED BY <1>4, <1>5, <1>8, <1>9, StepIs

LEMMA InitEffect == Init => EffectInv
  BY NothingYet DEF EffectInv

-----------------------------------------------------------------------------
(* What the resolver replays for the call of an image is what its          *)
(* descriptor was of, unless calls that rebind descriptors raced.          *)
THEOREM FlowsAreKept == Spec => []FlowTrace
  <1>1. Init => FilesInv /\ ReplayInv /\ EffectInv
    BY InitFiles, InitReplay, InitEffect
  <1>2. /\ TypeInv /\ TimeInv /\ ImageInv /\ CallInv /\ ValueInv
        /\ FilesInv /\ ReplayInv /\ EffectInv /\ [Next]_vars
        => (FilesInv /\ ReplayInv /\ EffectInv)'
    BY FilesKept, ReplayKept, EffectKept
  <1>3. PipeTrace => TypeInv /\ TimeInv /\ ImageInv /\ CallInv /\ ValueInv
    BY DEF PipeTrace, TraceInv
  <1>4. QED BY <1>1, <1>2, <1>3, PipesAreKept, ReportIsKept, PTL DEF Spec, FlowTrace

(* What the rule takes for the last call is the last of the image.         *)
LEMMA RebindLast ==
  ASSUME TraceInv, NEW n \in Obs
  PROVE  /\ RebindOf(n) \in Rebindings(n) => LastBefore(RebindOf(n), n)
         /\ \A m : LastBefore(m, n) => m = RebindOf(n) /\ m \in Rebindings(n)
  <1>1. \A k \in Obs : /\ k \in Nat /\ Finished.obs[k] = observations[k] /\ observations[k].type = "Event"
                       /\ observations[k].inst # NoSession /\ observations[k].inst = observations[k].pid
                       /\ actual[k].image = << observations[k].pid, observations[k].gen >>
    <2>1. workload \in Workloads /\ NoSession \notin Proc
      BY Inputs DEF TraceInv, TypeInv
    <2>2. QED BY <2>1, ObsTypes, SeenIs DEF TraceInv, ImageInv, EventType
  <1>2. \A k \in Obs : k > 0
    <2>1. observations \in Seq(EventType)  BY DEF TraceInv, TypeInv
    <2>2. QED BY <2>1 DEF Obs
  <1>3. \A m : m \in Rebindings(n) <=>
          m \in RebindingCalls(actual[n].image) /\ m < n /\ R!Rebinds(observations[m], observations[n].fd)
    <2> SUFFICES ASSUME NEW m
                 PROVE  m \in Rebindings(n) <=>
                          m \in RebindingCalls(actual[n].image) /\ m < n /\ R!Rebinds(observations[m], observations[n].fd)
      OBVIOUS
    <2>1. m \in Rebindings(n) => m \in Obs /\ m < n  BY RebindIs
    <2>2. m \in RebindingCalls(actual[n].image) => m \in Obs
      BY DEF RebindingCalls, Obs
    <2>3. ASSUME m \in Obs
          PROVE  R!SameSession(observations[m], observations[n]) <=> actual[m].image = actual[n].image
      BY <1>1, <2>3 DEF R!SameSession, R!Session
    <2>4. ASSUME m \in Obs, m < n
          PROVE  m \in Rebindings(n) <=> actual[m].image = actual[n].image /\ R!Rebinds(observations[m], observations[n].fd)
      <3>1. m \in 1 .. n - 1  BY <1>1, <1>2, <2>4
      <3>2. QED BY <1>1, <2>3, <2>4, <3>1 DEF Rebindings, R!IsEvent
    <2>5. ASSUME m \in Obs
          PROVE  m \in RebindingCalls(actual[n].image) /\ R!Rebinds(observations[m], observations[n].fd)
                 <=> actual[m].image = actual[n].image /\ R!Rebinds(observations[m], observations[n].fd)
      BY <2>5 DEF RebindingCalls, R!Rebinds, Obs
    <2>6. QED BY <2>1, <2>2, <2>4, <2>5
  <1>4. \A m \in Rebindings(n) : m \in Nat  BY <1>1, RebindIs
  <1>5. ASSUME RebindOf(n) \in Rebindings(n) PROVE LastBefore(RebindOf(n), n)
    <2>1. \A m \in Rebindings(n) : m <= RebindOf(n)  BY RebindIs DEF IsLast
    <2>2. \A m \in Rebindings(n) : ~(RebindOf(n) < m)  BY <1>4, <1>5, <2>1
    <2>3. QED BY <1>3, <1>5, <2>2 DEF LastBefore
  <1>6. ASSUME NEW m, LastBefore(m, n) PROVE m = RebindOf(n) /\ m \in Rebindings(n)
    <2>1. m \in Rebindings(n) /\ \A k \in Rebindings(n) : ~(m < k)
      BY <1>3, <1>6 DEF LastBefore
    <2>2. \A k \in Rebindings(n) : k <= m  BY <1>4, <2>1
    <2>3. IsLast(m, Rebindings(n))  BY <2>1, <2>2 DEF IsLast
    <2>4. QED BY <2>1, <2>3, RebindIs
  <1>7. QED BY <1>5, <1>6

(* A call that had an effect was of what its descriptor resolves to.       *)
LEMMA ResolvedIsReal ==
  ASSUME FlowTrace, NEW n \in Obs, actual[n].kind # NoSource, Unraced(n)
  PROVE  LET to == R!Resolved(Finished, n) IN
         /\ to.path # NoSource => actual[n].kind = "file" /\ actual[n].name = to.path
         /\ to.endpoint # NoSource => actual[n].kind = "socket" /\ actual[n].name = to.endpoint
  <1> DEFINE b == RebindOf(n)
             to == R!Resolved(Finished, n)
  <1>1. TraceInv /\ Retraced(n)  BY DEF FlowTrace, PipeTrace, EffectInv
  <1>2. b \in Rebindings(n) => LastBefore(b, n) /\ b \in Obs
    BY <1>1, RebindLast, RebindIs
  <1>3. b \in Rebindings(n) /\ observations[b].call # "close" => Settles(b, actual[n])
    BY <1>1, <1>2 DEF Retraced
  <1>4. to.path # NoSource => b \in Rebindings(n) /\ observations[b].call = "open" /\ to.path = observations[b].source
    BY <1>1, ResolvedIs
  <1>5. to.endpoint # NoSource => b \in Rebindings(n) /\ observations[b].call = "connect" /\ to.endpoint = observations[b].source
    BY <1>1, ResolvedIs
  <1> HIDE DEF b, to
  <1>6. QED BY <1>3, <1>4, <1>5 DEF Settles, to

(* A call resolves to what its descriptor was of, when the image opened or *)
(* connected that itself.                                                  *)
LEMMA RealIsResolved ==
  ASSUME FlowTrace, NEW n \in Obs, actual[n].kind # NoSource, Unraced(n), actual[n].by = actual[n].image
  PROVE  LET to == R!Resolved(Finished, n) IN
         /\ actual[n].kind = "file" => to.path # NoSource
         /\ actual[n].kind = "socket" /\ actual[n].name # NoSource => to.endpoint # NoSource
  <1> DEFINE b == RebindOf(n)
             to == R!Resolved(Finished, n)
  <1>1. TraceInv /\ Retraced(n)  BY DEF FlowTrace, PipeTrace, EffectInv
  <1> SUFFICES ASSUME Placed(actual[n])
               PROVE  /\ actual[n].kind = "file" => to.path # NoSource
                      /\ actual[n].kind = "socket" => to.endpoint # NoSource
    <2> HIDE DEF to
    <2>1. QED BY DEF Placed, to
  <1>2. PICK m \in Obs : LastBefore(m, n) /\ observations[m].call # "close"
    BY <1>1 DEF Retraced
  <1>3. m = b /\ b \in Rebindings(n) /\ Settles(b, actual[n]) /\ b > 0
    BY <1>1, <1>2, RebindLast, RebindIs DEF Retraced
  <1>4. /\ b # 0 /\ observations[b].call = "open" => to.path = observations[b].source
        /\ b # 0 /\ observations[b].call = "connect" => to.endpoint = observations[b].source
    BY <1>1, ResolvedIs
  <1>5. observations[m].call \in {"open", "connect"}
    BY <1>2 DEF LastBefore, RebindingCalls
  <1>6. observations[m].source # NoSource
    BY <1>2, <1>5 DEF FlowTrace, PipeTrace, ValueInv, HasValue
  <1> HIDE DEF b, to
  <1>7. QED BY <1>3, <1>4, <1>5, <1>6 DEF Settles, to

LEMMA FlowsReal ==
  ASSUME FlowTrace
  PROVE  FlowsAreReal
  <1> SUFFICES ASSUME Reported, NEW f \in Kind("sensitive_data_flow")
               PROVE  LET r == f.evidence[1]
                          m == f.evidence[2]
                          w == f.evidence[3]
                      IN
                      /\ actual[r].image = actual[w].image /\ Graph.obs[m].image = actual[r].image
                      /\ Unraced(r) => actual[r].kind = "file" /\ actual[r].name = f.source
                      /\ Unraced(w) /\ actual[w].kind # NoSource =>
                           actual[w].kind = "socket" /\ actual[w].name = f.destination
    BY DEF FlowsAreReal
  <1>1. TraceInv /\ PipeTrace /\ ReportTrace /\ ValueInv
    BY DEF FlowTrace, PipeTrace
  <1>2. Graph = Finished /\ f \in Range(Findings) /\ f.kind = "sensitive_data_flow"
    BY <1>1, ReportedIs DEF TraceInv, Kind
  <1>3. PICK t : IsFlowOf(f, t)
    <2>1. FindingsAre  BY <1>1, FindingsAreMade DEF ReportTrace
    <2>2. QED BY <1>1, <1>2, <2>1, FlowIs
  <1>4. PICK r, m, w : r = t[1] /\ m = t[2] /\ w = t[3]
    OBVIOUS
  <1>5. /\ IsFlowEvidence(t) /\ f.evidence[1] = r /\ f.evidence[2] = m /\ f.evidence[3] = w
        /\ f.source = R!Resolved(Finished, r).path /\ f.destination = R!Resolved(Finished, w).endpoint
    BY <1>1, <1>3, <1>4, FirstIsFlow, FlowEvidence DEF IsFlowOf
  <1>6. /\ r \in Obs /\ observations[r].call = "read" /\ observations[r].value # NoValue /\ w \in Obs
        /\ m \in DOMAIN Finished.obs /\ Finished.obs[m].type = "Data"
        /\ R!Resolved(Finished, r).path # NoSource /\ R!Resolved(Finished, w).endpoint # NoSource
        /\ R!SameSession(Finished.obs[m], Finished.obs[r]) /\ R!SameSession(Finished.obs[w], Finished.obs[r])
    BY <1>4, <1>5 DEF IsFlowEvidence
  <1>7. Finished.obs[r] = observations[r] /\ Finished.obs[w] = observations[w]
    BY <1>1, <1>6, SeenIs
  <1>8. actual[r].image = actual[w].image
    BY <1>1, <1>6, <1>7 DEF TraceInv, ImageInv, R!SameSession, R!Session
  <1>9. Graph.obs[m].image = actual[r].image
    <2>1. << Finished.obs[m].inst, Finished.obs[m].gen >> = Finished.obs[m].image
      BY <1>1, <1>2, <1>6, OwnImage DEF TraceInv, DataOnOwnImage
    <2>2. actual[r].image = << observations[r].inst, observations[r].gen >>
      BY <1>1, <1>6 DEF TraceInv, ImageInv
    <2>3. QED BY <1>2, <1>6, <1>7, <2>1, <2>2 DEF R!SameSession, R!Session
  <1>10. actual[r].kind # NoSource  BY <1>1, <1>6 DEF ValueInv, HasValue
  <1>11. Unraced(r) => actual[r].kind = "file" /\ actual[r].name = f.source
    BY <1>5, <1>6, <1>10, ResolvedIsReal
  <1>12. Unraced(w) /\ actual[w].kind # NoSource => actual[w].kind = "socket" /\ actual[w].name = f.destination
    BY <1>5, <1>6, ResolvedIsReal
  <1>13. QED BY <1>5, <1>8, <1>9, <1>11, <1>12

(* A flow that is reported happened: the file named was read for the value *)
(* and the endpoint named was sent it, by one image, whatever the other    *)
(* threads did and however late the calls returned (resolve_fd_at).        *)
THEOREM FlowsAreAlwaysReal == Spec => []FlowsAreReal
  <1>1. FlowTrace => FlowsAreReal  BY FlowsReal
  <1>2. QED BY <1>1, FlowsAreKept, PTL

-----------------------------------------------------------------------------
(* Of the flows of a value there is a first.                               *)
LEMMA FirstExists ==
  ASSUME TraceInv, R!Flows(Finished) # {}
  PROVE  FirstFlow(Finished) # {}
  <1> DEFINE F == R!Flows(Finished)
  <1>1. \A t \in F : t[1] \in Nat /\ t[2] \in Nat /\ t[3] \in Nat
    <2> SUFFICES ASSUME NEW t \in F PROVE t[1] \in Nat /\ t[2] \in Nat /\ t[3] \in Nat
      OBVIOUS
    <2>1. t[1] \in Obs /\ t[2] \in DOMAIN Finished.obs /\ t[3] \in Obs
      BY FlowEvidence DEF IsFlowEvidence
    <2>2. Finished.obs \in Seq(GraphType)  BY GraphIs DEF TraceInv
    <2>3. DOMAIN Finished.obs \subseteq Nat  BY <2>2
    <2>4. t[1] \in Nat /\ t[3] \in Nat  BY <2>1, ObsTypes DEF TraceInv
    <2>5. QED BY <2>1, <2>3, <2>4
  <1> HIDE DEF F
  <1>2. PICK a \in {t[1] : t \in F} : \A m \in {t[1] : t \in F} : a <= m
    <2>1. {t[1] : t \in F} \in SUBSET Nat /\ {t[1] : t \in F} # {}
      BY <1>1 DEF F
    <2>2. QED BY <2>1, LeastNumber
  <1> DEFINE G == {t \in F : t[1] = a}
  <1>3. G # {} /\ G \subseteq F  BY <1>2
  <1>4. PICK b \in {t[2] : t \in G} : \A m \in {t[2] : t \in G} : b <= m
    <2>1. {t[2] : t \in G} \in SUBSET Nat /\ {t[2] : t \in G} # {}
      BY <1>1, <1>3
    <2> HIDE DEF G
    <2>2. QED BY <2>1, LeastNumber
  <1> DEFINE H == {t \in G : t[2] = b}
  <1>5. H # {} /\ H \subseteq G  BY <1>4
  <1>6. PICK c \in {t[3] : t \in H} : \A m \in {t[3] : t \in H} : c <= m
    <2>1. {t[3] : t \in H} \in SUBSET Nat /\ {t[3] : t \in H} # {}
      BY <1>1, <1>3, <1>5
    <2> HIDE DEF G, H
    <2>2. QED BY <2>1, LeastNumber
  <1>7. PICK t \in H : t[3] = c  BY <1>6
  <1>8. t \in F /\ t[1] = a /\ t[2] = b  BY <1>7
  <1>9. ASSUME NEW u \in F PROVE R!Earlier(t, u)
    <2>1. a \in Nat /\ b \in Nat /\ c \in Nat /\ u[1] \in Nat /\ u[2] \in Nat /\ u[3] \in Nat
      BY <1>1, <1>7, <1>8, <1>9
    <2>2. a <= u[1]  BY <1>2, <1>9
    <2>3. u[1] = a => b <= u[2]  BY <1>4, <1>9
    <2>4. u[1] = a /\ u[2] = b => c <= u[3]  BY <1>6, <1>9
    <2>5. QED BY <1>7, <1>8, <2>1, <2>2, <2>3, <2>4 DEF R!Earlier
  <1>10. t \in FirstFlow(Finished)
    BY <1>8, <1>9, Zenon DEF FirstFlow, R!FirstFlows, F
  <1>11. QED BY <1>10

(* What is needed of three observations for a flow. *)
LEMMA IsAFlow ==
  ASSUME TraceInv, NEW r \in Obs, NEW m \in DOMAIN Finished.obs, NEW w \in Obs,
         observations[r].call = "read", observations[w].call = "write",
         Finished.obs[m].type = "Data", Finished.obs[m].call = "memory",
         observations[r].value = Secret, observations[w].value = Secret, Finished.obs[m].value = Secret,
         R!Resolved(Finished, r).path # NoSource, R!Resolved(Finished, w).endpoint # NoSource,
         actual[r].image = actual[w].image,
         << Finished.obs[m].inst, Finished.obs[m].gen >> = actual[r].image,
         r < w
  PROVE  << r, m, w >> \in R!Flows(Finished)
  <1>1. /\ r \in DOMAIN Finished.obs /\ Finished.obs[r] = observations[r] /\ observations[r].type = "Event"
        /\ w \in DOMAIN Finished.obs /\ Finished.obs[w] = observations[w] /\ observations[w].type = "Event"
    BY GraphIs DEF TraceInv
  <1>2. Secret # NoValue  BY Values
  <1>3. r \in R!Carriers(Finished, "Event", "read")
    BY <1>1, <1>2 DEF R!Carriers
  <1>4. m \in R!Carriers(Finished, "Data", "memory")  BY <1>2 DEF R!Carriers
  <1>5. w \in R!Carriers(Finished, "Event", "write")
    BY <1>1, <1>2 DEF R!Carriers
  <1> DEFINE A == {n \in R!Carriers(Finished, "Event", "read") : R!Resolved(Finished, n).path # NoSource}
             B == R!Carriers(Finished, "Data", "memory")
             C == {n \in R!Carriers(Finished, "Event", "write") : R!Resolved(Finished, n).endpoint # NoSource}
             t == << r, m, w >>
  <1>6. r \in A /\ m \in B /\ w \in C  BY <1>3, <1>4, <1>5
  <1>7. /\ actual[r].image = R!Session(observations[r]) /\ actual[w].image = R!Session(observations[w])
        /\ observations[r].inst = observations[r].pid /\ observations[w].inst = observations[w].pid
    BY DEF TraceInv, ImageInv, R!Session
  <1>8. observations[r].inst # NoSession /\ observations[w].inst # NoSession
    <2>1. observations[r].pid \in Proc /\ observations[w].pid \in Proc
      BY ObsTypes DEF TraceInv, EventType
    <2>2. NoSession \notin Proc  BY Inputs DEF TraceInv, TypeInv
    <2>3. QED BY <1>7, <2>1, <2>2
  <1>9. R!Session(Finished.obs[m]) = actual[r].image  BY DEF R!Session
  <1>10. Finished.obs[m].inst = observations[r].inst  BY <1>7 DEF R!Session
  <1>11. \A n \in {m, w} : /\ Finished.obs[n].value = Finished.obs[r].value
                           /\ R!SameSession(Finished.obs[n], Finished.obs[r])
    <2>1. R!SameSession(Finished.obs[m], Finished.obs[r])
      BY <1>1, <1>7, <1>8, <1>9, <1>10 DEF R!SameSession
    <2>2. R!SameSession(Finished.obs[w], Finished.obs[r])
      BY <1>1, <1>7, <1>8 DEF R!SameSession
    <2>3. QED BY <1>1, <2>1, <2>2
  <1> HIDE DEF A, B, C
  <1>12. t \in A \X B \X C /\ t[1] = r /\ t[2] = m /\ t[3] = w  BY <1>6
  <1> HIDE DEF t
  <1>13. \A n \in {t[2], t[3]} : /\ Finished.obs[n].value = Finished.obs[t[1]].value
                                 /\ R!SameSession(Finished.obs[n], Finished.obs[t[1]])
    BY <1>11, <1>12
  <1>14. t[1] < t[3]  BY <1>12
  <1>15. t \in R!Flows(Finished)
    BY <1>12, <1>13, <1>14, Zenon DEF R!Flows, A, B, C
  <1>16. QED BY <1>15 DEF t

(* The file was read for the secret and the secret sent, by one image that *)
(* opened the one and connected the other, and it was in its memory.       *)
LEMMA FlowFound ==
  ASSUME FlowTrace, Reported, IsActive(R!RuleIds[2]), NEW r \in Obs, NEW w \in Obs, IsFlow(r, w)
  PROVE  Kind("sensitive_data_flow") # {}
  <1>0. PipeTrace /\ TraceInv /\ RegistryInv /\ ValueInv /\ ReportTrace
    BY DEF FlowTrace, PipeTrace, ReportTrace
  <1>1. /\ actual[w].image = actual[r].image /\ observations[r].call = "read"
        /\ actual[r].kind = "file" /\ actual[r].by = actual[r].image
        /\ observations[w].call = "write" /\ actual[w].what = Secret
        /\ actual[w].kind = "socket" /\ actual[w].name # NoSource /\ actual[w].by = actual[w].image
        /\ observations[r].end # 0 /\ observations[r].end < observations[w].start
        /\ Unraced(r) /\ Unraced(w)
    BY DEF IsFlow
  <1>2. PICK d \in Range(data) : d.call = "memory" /\ d.image = actual[r].image
    BY DEF IsFlow
  <1>3. PICK k \in DOMAIN data : data[k] = d  BY DEF Range
  <1>4. actual[r].kind # NoSource /\ actual[w].kind # NoSource
    BY <1>1, Values DEF Kinds
  <1>5. observations[r].value = Secret /\ observations[w].value = Secret
    BY <1>0, <1>1, <1>4 DEF ValueInv, HasValue
  <1>6. R!Resolved(Finished, r).path # NoSource  BY <1>1, <1>4, RealIsResolved
  <1>7. R!Resolved(Finished, w).endpoint # NoSource
    BY <1>1, <1>4, RealIsResolved
  <1> DEFINE m == Len(observations) + k
  <1>8. m \in DOMAIN Finished.obs /\ GraphDatum(Finished.obs[m], d)
    BY <1>0, <1>3, GraphIs DEF TraceInv
  <1> HIDE DEF m
  <1>9. /\ Finished.obs[m].type = "Data" /\ Finished.obs[m].value = Secret /\ Finished.obs[m].call = "memory"
        /\ << Finished.obs[m].inst, Finished.obs[m].gen >> = actual[r].image
    BY <1>2, <1>8 DEF GraphDatum, DataType
  <1>10. r < w
    <2>1. /\ r \in Nat /\ w \in Nat /\ observations[r].start \in Nat /\ observations[w].start \in Nat
          /\ observations[r].end \in Nat
      BY <1>0, ObsTypes DEF TraceInv, EventType
    <2>2. w < r => observations[w].start < observations[r].start
      BY <1>0 DEF TraceInv, TimeInv
    <2>3. observations[r].start <= observations[r].end
      BY <1>0, <1>1, <2>1 DEF TraceInv, TimeInv
    <2>4. w # r  BY <1>1
    <2>5. QED BY <1>1, <2>1, <2>2, <2>3, <2>4
  <1>11. << r, m, w >> \in R!Flows(Finished)
    BY <1>0, <1>1, <1>5, <1>6, <1>7, <1>8, <1>9, <1>10, IsAFlow
  <1>12. PICK t : t \in FirstFlow(Finished)
    <2>1. R!Flows(Finished) # {}  BY <1>11
    <2>2. QED BY <1>0, <2>1, FirstExists
  <1> DEFINE rule == R!RuleIds[2]
             g == FlowOf(Finished, Primary, t)
  <1>13. rule \in RuleId /\ R!StageOf[rule] = "Composite" /\ KindOf(rule) = "sensitive_data_flow"
    BY RuleIdsAre, KindsAre
  <1>14. IsGraph(Finished)  BY <1>0, FinishedIsGraph
  <1>15. MadeBy(rule) = R!FlowFindings(Finished, Primary)
    BY <1>13, <1>14, RulesMake DEF MadeBy, Before
  <1>16. g \in Range(MadeBy(rule))  BY <1>12, <1>14, <1>15, FlowsAre
  <1>17. g.kind = "sensitive_data_flow"
    BY DEF FlowOf, R!FlowFinding, R!Finding
  <1>18. FindingsAre  BY <1>0, FindingsAreMade DEF ReportTrace
  <1> HIDE DEF g, rule
  <1>19. PICK f \in Range(Findings) : Copied(f, g, rule, f.id)
    <2>1. IsActive(rule)  BY DEF rule
    <2>2. QED BY <1>13, <1>16, <1>18, <2>1, Zenon DEF FindingsAre
  <1>20. f.kind = "sensitive_data_flow"  BY <1>17, <1>19, Zenon DEF Copied
  <1>21. report.findings = Findings  BY <1>0, ReportedIs DEF TraceInv
  <1>22. f \in Kind("sensitive_data_flow")  BY <1>20, <1>21 DEF Kind
  <1>23. QED BY <1>22

(* A flow that happened is in the report, when the memory was scanned for  *)
(* the value and no two calls that set descriptors of the image were under *)
(* way at once (FlowsAreFound; src/sensitive_data_flow_rule.cpp).          *)
THEOREM FlowsAreAlwaysFound == Spec => []FlowsAreFound
  <1>1. FlowTrace => FlowsAreFound
    <2> SUFFICES ASSUME FlowTrace, Reported, IsActive(R!RuleIds[2]), NEW r \in Obs, NEW w \in Obs, IsFlow(r, w)
                 PROVE  Kind("sensitive_data_flow") # {}
      BY Zenon DEF FlowsAreFound, Obs
    <2>1. QED BY FlowFound
  <1>2. QED BY <1>1, FlowsAreKept, PTL
=============================================================================
