------------------------- MODULE ResourceLineageProofs -------------------------
(***************************************************************************)
(* Descriptors and pipes for any number of processes, descriptors, objects *)
(* and calls: the analyzer's tables are the kernel's, a resource id stands *)
(* for one object, and DataFlow edges join a write and a read of one pipe. *)
(*                                                                         *)
(* The kernel changes a table when a call takes effect, the analyzer when  *)
(* it handles the call's exit.  The invariant says of every descriptor     *)
(* that the two agree but for what the call at hand has changed (Stale),   *)
(* and what the call has changed there.  The objects that ids stand for    *)
(* are given by a map, and so are the ids of a pipe in each family of      *)
(* processes that share them; discovery, new pipes and files extend the    *)
(* maps, and reconciliation renames ids within them.                       *)
(***************************************************************************)
EXTENDS ResourceLineage, FiniteSetTheorems, SequenceTheorems,
        WellFoundedInduction, TLAPS

Kinds == {"pipe", "file", "socket"}
Roles == {"read", "write", "readwrite"}

Opened == [obj: Object, role: Roles, cloexec: BOOLEAN]

FdCalls == {"close", "dup", "dup2", "dup3", "F_DUPFD", "F_SETFD", "read", "write"}
AllOps  == FdCalls \cup {"pipe", "open", "socket", "fork", "execve"}

Recorded == [op: AllOps \cup {"none"}, fd: Nat, to: Nat, flag: BOOLEAN, ret: Nat,
             obs: Nat, child: Proc \cup {NoProc}]

Observed == [op: {"read", "write"}, res: Nat, type: Kinds \cup {"none"},
             role: Roles \cup {"none"}, token: Tokens \cup {Plain}, done: BOOLEAN,
             end: Nat, obj: Object \cup {0}, from: Nat]

KernelTyped ==
  /\ kind \in Seq(Kinds) /\ Len(kind) \in Object
  /\ table \in [Proc -> [Fd -> {Closed} \cup Opened]]
  /\ \A p \in Proc, f \in Fd : IsOpen(p, f) => table[p][f].obj <= Len(kind)
  /\ status \in [Proc -> {"none", "running", "called", "returned", "forked", "execed", "ended"}]
  /\ call \in [Proc -> Recorded]

ContentTyped ==
  /\ content \in [Object -> Seq(Nat)]
  /\ \A o \in Object : \A k \in DOMAIN content[o] : content[o][k] \in DOMAIN observations

AnalyzerTyped ==
  /\ bindings \in [Proc -> [Fd -> {Unbound} \cup Binding]]
  /\ snapshot \in [Proc -> [Fd -> {Unbound} \cup Binding]]
  /\ \A p \in Proc, f \in Fd : bindings[p][f].res < nextResource /\ snapshot[p][f].res < nextResource
  /\ discovered \subseteq Proc /\ inherited \subseteq Proc /\ early \subseteq inherited
  /\ nextResource \in Nat \ {0}
  /\ observations \in Seq(Observed)
  /\ \A i \in DOMAIN observations : observations[i].res < nextResource
  /\ edges \subseteq (DOMAIN observations) \X (DOMAIN observations)
  /\ ContentTyped

-----------------------------------------------------------------------------
Does(p, ops)      == call[p].op \in ops
Duplicating       == {"dup", "dup2", "dup3", "F_DUPFD"}
Transfers         == {"read", "write"}
Effective(p, ops) == status[p] = "returned" /\ Succeeded(p) /\ Does(p, ops)
Made(p)           == Of(call[p].ret)

(* A call, by the stop its process is at.                                  *)
CallOf(p) ==
  /\ status[p] \in {"none", "running", "ended"} => call[p] = NoCall
  /\ status[p] \in {"called", "returned", "forked", "execed"} =>
       /\ p \in discovered
       /\ Does(p, FdCalls) => call[p].fd \in Fd
       /\ Does(p, {"dup2", "dup3"}) => call[p].to \in Fd
       /\ Does(p, {"dup", "dup2"}) => ~call[p].flag
  /\ status[p] = "called" => call[p].ret = Failed
  /\ status[p] = "forked" => Does(p, {"fork"})
  /\ status[p] = "execed" => Does(p, {"execve"})

CallsInv == \A p \in Proc : CallOf(p)

(* What the kernel has done in a call that the analyzer has not handled.   *)
PipeMade(p) ==
  LET r == table[p][Made(p)]
      w == table[p][call[p].to]
  IN
  /\ call[p].to \in Fd /\ Made(p) # call[p].to
  /\ IsOpen(p, Made(p)) /\ IsOpen(p, call[p].to) /\ Pipe(r.obj)
  /\ r.role = "read" /\ r.cloexec = call[p].flag
  /\ w.role = "write" /\ w.cloexec = call[p].flag /\ w.obj = r.obj

(* Until the call is handled nobody else has the pipe.                     *)
PipeAlone(p) ==
  \A q \in Proc, f \in Fd :
    table[q][f].obj = table[p][Made(p)].obj => q = p /\ f \in {Made(p), call[p].to}

EffectOf(p) ==
  LET c == call[p]
      e == table[p][Made(p)]
  IN
  /\ Effective(p, {"pipe", "open"} \cup Duplicating) => Made(p) \in Fd
  /\ Effective(p, {"pipe"}) => PipeMade(p) /\ PipeAlone(p)
  /\ Effective(p, {"open"}) =>
       /\ e.role = "readwrite" /\ e.cloexec = c.flag
       /\ IsOpen(p, Made(p)) /\ kind[e.obj] = "file"
  /\ Effective(p, {"close"}) => ~IsOpen(p, c.fd)
  /\ Effective(p, Duplicating) =>
       /\ IsOpen(p, c.fd)
       /\ c.fd = Made(p) => Does(p, {"dup2"})
       /\ c.fd # Made(p) => e = [table[p][c.fd] EXCEPT !.cloexec = c.flag]
  /\ Effective(p, {"F_SETFD"}) => IsOpen(p, c.fd) /\ table[p][c.fd].cloexec = c.flag
  /\ status[p] = "execed" => \A f \in Fd : bindings[p][f].cloexec => ~IsOpen(p, f)

EffectInv == \A p \in Proc : EffectOf(p)

(* The descriptors at which the analyzer is behind.                        *)
Stale(p, f) ==
  \/ Effective(p, {"pipe"}) /\ f \in {Made(p), call[p].to}
  \/ Effective(p, {"open"}) /\ f = Made(p)
  \/ Effective(p, {"close"}) /\ f = call[p].fd
  \/ Effective(p, Duplicating) /\ f = Made(p) /\ f # call[p].fd
  \/ status[p] = "execed" /\ bindings[p][f].cloexec

Reflagged(p, f) == Effective(p, {"F_SETFD"}) /\ f = call[p].fd

Tracked(p) == Known(p) /\ status[p] # "ended"

(* The analyzer's tables are the kernel's.                                 *)
Agrees(p, f) ==
  LET b == bindings[p][f]
      e == table[p][f]
  IN
  /\ IsOpen(p, f) /\ kind[e.obj] # "socket" => Bound(p, f)
  /\ Bound(p, f) => /\ IsOpen(p, f) /\ b.type = kind[e.obj] /\ b.role = e.role
                    /\ Reflagged(p, f) \/ b.cloexec = e.cloexec

AgreeInv == \A p \in Proc, f \in Fd : Tracked(p) /\ ~Stale(p, f) => Agrees(p, f)

-----------------------------------------------------------------------------
(* Who is known, and how processes begin.                                  *)
KnownInv ==
  /\ \A p \in Proc : ~Tracked(p) => \A f \in Fd : bindings[p][f] = Unbound
  /\ \A p \in discovered \cup inherited : status[p] # "none"
  /\ \A p \in discovered : status[p] # "ended"
  /\ \A p \in Proc : status[p] \in {"none", "ended"} => \A f \in Fd : ~IsOpen(p, f)
  /\ Root \notin inherited /\ status[Root] # "none"
  /\ Root \in discovered \/ status[Root] = "ended" \/ \A q \in Proc \ {Root} : status[q] = "none"

ForkOf(p) ==
  LET c == call[p].child IN
  /\ c \in Proc \ {Root, p} /\ c \notin inherited /\ status[c] # "none"
  /\ c \notin discovered /\ status[c] # "ended" => status[c] = "running" /\ table[c] = table[p]
  /\ \A q \in Proc : status[q] = "forked" /\ call[q].child = c => q = p

ForksInv == \A p \in Proc : status[p] = "forked" => ForkOf(p)

-----------------------------------------------------------------------------
(* The observation of a call that has not been handled.                    *)
Transferring(p) == status[p] \in {"called", "returned"} /\ Does(p, Transfers)

ObservationOf(p) ==
  LET c == call[p]
      o == observations[c.obs]
      b == bindings[p][c.fd]
  IN
  /\ c.obs \in DOMAIN observations /\ ~o.done /\ o.op = c.op
  /\ o.res = b.res /\ o.type = b.type /\ o.role = b.role
  /\ IF Effective(p, Transfers) THEN IsOpen(p, c.fd) /\ o.obj = table[p][c.fd].obj
                                ELSE o.obj = 0
  /\ \A q \in Proc : Transferring(q) /\ call[q].obs = c.obs => q = p

ObservationsInv ==
  /\ \A p \in Proc : Transferring(p) => ObservationOf(p)
  /\ \A i \in DOMAIN observations : observations[i].done => observations[i].obj # 0

(* Every read that may have been supplied is linked.                       *)
LinkedInv ==
  \A w, r \in DOMAIN observations : MaySupply(observations, w, r) =>
    \E v \in DOMAIN observations : << v, r >> \in edges

(* The ends of an edge are settled, and but for renaming stay as they are. *)
EdgesInv ==
  \A e \in edges :
    LET w == observations[e[1]]
        r == observations[e[2]]
    IN
    /\ w.done /\ r.done /\ w.obj = r.obj /\ w.token = r.token /\ e[1] <= r.end

-----------------------------------------------------------------------------
(* Processes announced before they were met share ids with their creator;  *)
(* each of the others is a family of its own.                              *)
Family(p) == IF Early(p) THEN p ELSE Root

Id == 1 .. nextResource - 1

Refers(p, f) == Tracked(p) /\ ~Stale(p, f) /\ Bound(p, f)

(* What an id stands for, and the id a pipe has in a family.               *)
Named(object, id) ==
  /\ \A p \in Proc, f \in Fd : Refers(p, f) =>
       /\ object[bindings[p][f].res] = table[p][f].obj
       /\ Pipe(table[p][f].obj) => bindings[p][f].res = id[Family(p)][table[p][f].obj]
  /\ \A p \in Proc, f \in Fd :
       /\ bindings[p][f].key # NoKey => object[bindings[p][f].res] = bindings[p][f].key
       /\ snapshot[p][f].key # NoKey => object[snapshot[p][f].res] = snapshot[p][f].key
  /\ \A i \in DOMAIN observations :
       observations[i].obj # 0 /\ observations[i].res # 0 =>
         object[observations[i].res] = observations[i].obj

NamesInv == \E object \in [Id -> Object], id \in [Proc -> [Object -> Nat]] : Named(object, id)

IInv ==
  /\ KernelTyped /\ AnalyzerTyped /\ CallsInv /\ EffectInv /\ AgreeInv /\ KnownInv /\ ForksInv
  /\ ObservationsInv /\ LinkedInv /\ EdgesInv /\ NamesInv

-----------------------------------------------------------------------------
LEMMA InitIInv == Init => IInv
  <1>. SUFFICES ASSUME Init PROVE IInv OBVIOUS
  <1>. USE WorkloadAssumption, DescriptorAssumption
  <1>1. Root \in Proc /\ 1 \in Object /\ Len(kind) = 1 /\ kind[1] = "pipe" BY DEF Init, Object
  <1>2. KernelTyped
    <2>1. kind \in Seq(Kinds) /\ Len(kind) \in Object BY <1>1 DEF Init, Kinds
    <2>2. InitialTable \in [Fd -> {Closed} \cup Opened]
      BY <1>1 DEF Opened, Roles
    <2>3. table \in [Proc -> [Fd -> {Closed} \cup Opened]] BY <2>2 DEF Init
    <2>4. \A p \in Proc, f \in Fd : IsOpen(p, f) => table[p][f].obj <= Len(kind)
      <3>1. \A f \in Fd : InitialTable[f] = Closed \/ InitialTable[f].obj = 1 OBVIOUS
      <3>2. \A p \in Proc, f \in Fd : table[p][f] = Closed \/ table[p][f].obj = 1
        BY <3>1 DEF Init
      <3>3. QED BY <1>1, <3>2 DEF IsOpen
    <2>5. status \in [Proc -> {"none", "running", "called", "returned", "forked", "execed", "ended"}]
      BY DEF Init
    <2>6. call \in [Proc -> Recorded] BY DEF Init, NoCall, Recorded
    <2>7. QED BY <2>1, <2>3, <2>4, <2>5, <2>6 DEF KernelTyped
  <1>3. AnalyzerTyped
    <2>1. bindings \in [Proc -> [Fd -> {Unbound} \cup Binding]]
          /\ snapshot \in [Proc -> [Fd -> {Unbound} \cup Binding]]
      BY DEF Init
    <2>2. \A p \in Proc, f \in Fd :
            bindings[p][f].res < nextResource /\ snapshot[p][f].res < nextResource
      BY DEF Init, Unbound
    <2>3. observations = << >> /\ edges = {} BY DEF Init
    <2>4. content \in [Object -> Seq(Nat)]
          /\ \A o \in Object : \A k \in DOMAIN content[o] : content[o][k] \in DOMAIN observations
      BY DEF Init
    <2>5. QED BY <2>1, <2>2, <2>3, <2>4 DEF Init, AnalyzerTyped, ContentTyped
  <1>4. \A p \in Proc : status[p] \in {"none", "running"} /\ call[p] = NoCall BY DEF Init
  <1>5. \A p \in Proc, f \in Fd : bindings[p][f] = Unbound /\ snapshot[p][f] = Unbound BY DEF Init
  <1>6. CallsInv BY <1>4 DEF CallsInv, CallOf
  <1>7. EffectInv BY <1>4 DEF EffectInv, EffectOf, Effective
  <1>8. \A p \in Proc : ~Tracked(p) BY DEF Tracked, Known, Init
  <1>9. AgreeInv BY <1>8 DEF AgreeInv
  <1>10. KnownInv
    <2>1. \A p \in Proc : status[p] \in {"none", "ended"} => \A f \in Fd : ~IsOpen(p, f)
      BY DEF Init, IsOpen
    <2>2. QED BY <1>1, <1>5, <2>1 DEF Init, KnownInv
  <1>11. ForksInv BY <1>4 DEF ForksInv
  <1>12. ObservationsInv BY <1>4 DEF ObservationsInv, Transferring, Init
  <1>13. LinkedInv /\ EdgesInv BY DEF LinkedInv, EdgesInv, Init
  <1>14. NamesInv
    <2>1. [i \in Id |-> 1] \in [Id -> Object] BY <1>1
    <2>2. [p \in Proc |-> [o \in Object |-> 0]] \in [Proc -> [Object -> Nat]] OBVIOUS
    <2>3. Named([i \in Id |-> 1], [p \in Proc |-> [o \in Object |-> 0]])
      BY <1>5, <1>8 DEF Named, Refers, Unbound, NoKey, Init
    <2>4. QED BY <2>1, <2>2, <2>3 DEF NamesInv
  <1>15. QED BY <1>2, <1>3, <1>6, <1>7, <1>9, <1>10, <1>11, <1>12, <1>13, <1>14 DEF IInv

-----------------------------------------------------------------------------
(* The kernel's part of a call: of the analyzer's state it touches only    *)
(* what the observation of the call is about.                              *)
SameObject(p, f) ==
  \E g \in Fd : IsOpen(p, g) /\ table[p][g].obj = table'[p][f].obj

KernelMoves(p) ==
  /\ status[p] = "called" /\ status'[p] \in {"returned", "execed"}
  /\ KernelTyped' /\ UNCHANGED << tables, early, edges >>
  /\ \A q \in Proc \ {p} : status'[q] = status[q] /\ call'[q] = call[q] /\ table'[q] = table[q]
  /\ Len(kind') >= Len(kind) /\ \A o \in DOMAIN kind : kind'[o] = kind[o]
  /\ call'[p].op = call[p].op /\ call'[p].fd = call[p].fd /\ call'[p].flag = call[p].flag
  /\ call'[p].obs = call[p].obs /\ (call'[p].to = call[p].to \/ Does(p, {"pipe"}))
  /\ status'[p] = "execed" => Does(p, {"execve"})
  /\ \A f \in Fd :
       \/ table'[p][f] = table[p][f]
       \/ Stale(p, f)'
       \/ IsOpen(p, f) /\ Reflagged(p, f)'
          /\ table'[p][f] = [table[p][f] EXCEPT !.cloexec = call[p].flag]
       \/ ~Bound(p, f) /\ (IsOpen(p, f)' => kind'[table'[p][f].obj] = "socket")
  /\ \A f \in Fd : IsOpen(p, f)' => table'[p][f].obj > Len(kind) \/ SameObject(p, f)

Observes(p) ==
  \/ ~Effective(p, Transfers)' /\ observations' = observations
  \/ /\ Effective(p, Transfers)' /\ IsOpen(p, call[p].fd) /\ table' = table
     /\ \E token \in Tokens \cup {Plain}, from \in Nat :
          Uses(p, table[p][call[p].fd].obj, token, from)

LEMMA KindsKept ==
  ASSUME KernelTyped, NEW p \in Proc, KernelMoves(p), NEW q \in Proc, NEW f \in Fd, IsOpen(q, f)
  PROVE  /\ table[q][f].obj \in DOMAIN kind /\ table[q][f].obj \in Object
         /\ table[q][f].obj # 0 /\ table[q][f].obj <= Len(kind)
         /\ kind'[table[q][f].obj] = kind[table[q][f].obj]
  <1>1. table[q][f] \in Opened BY DEF KernelTyped, IsOpen
  <1>2. table[q][f].obj \in Object /\ table[q][f].obj <= Len(kind)
    BY <1>1 DEF KernelTyped, Opened
  <1>3. DOMAIN kind = 1 .. Len(kind) /\ Len(kind) \in Nat BY DEF KernelTyped
  <1>4. table[q][f].obj \in DOMAIN kind /\ table[q][f].obj # 0
    BY <1>2, <1>3, WorkloadAssumption DEF Object
  <1>5. QED BY <1>2, <1>4 DEF KernelMoves

LEMMA KernelEffects ==
  ASSUME IInv, NEW p \in Proc, KernelMoves(p), EffectOf(p)' PROVE EffectInv'
  <1>. SUFFICES ASSUME NEW q \in Proc, q # p PROVE EffectOf(q)' BY DEF EffectInv
  <1>1. EffectOf(q) /\ KernelTyped BY DEF IInv, EffectInv
  <1>2. status'[q] = status[q] /\ call'[q] = call[q] /\ table'[q] = table[q]
        /\ bindings' = bindings
    BY DEF KernelMoves, tables
  <1>3. \A ops : Effective(q, ops)' <=> Effective(q, ops)
    BY <1>2 DEF Effective, Succeeded, Does
  <1>4. \A f \in Fd : IsOpen(q, f)' <=> IsOpen(q, f) BY <1>2 DEF IsOpen
  <1>5. \A f \in Fd : IsOpen(q, f) => kind'[table[q][f].obj] = kind[table[q][f].obj]
    BY <1>1, KindsKept
  <1>6. Made(q)' = Made(q) BY <1>2 DEF Made
  <1>7. Effective(q, {"pipe", "open"} \cup Duplicating) => Made(q) \in Fd BY <1>1 DEF EffectOf
  <1>8. ASSUME Effective(q, {"pipe"}) PROVE PipeMade(q)' /\ PipeAlone(q)'
    <2>1. PipeMade(q) /\ PipeAlone(q) /\ Made(q) \in Fd
      BY <1>1, <1>8 DEF EffectOf, Effective, Does
    <2>2. IsOpen(q, Made(q)) /\ Pipe(table[q][Made(q)].obj) BY <2>1 DEF PipeMade
    <2>3. PipeMade(q)' BY <1>2, <1>4, <1>5, <1>6, <2>1, <2>2 DEF PipeMade, Pipe
    <2>4. ASSUME NEW u \in Proc, NEW f \in Fd, table'[u][f].obj = table[q][Made(q)].obj
          PROVE  u = q /\ f \in {Made(q), call[q].to}
      <3>1. table[q][Made(q)].obj # 0 /\ table[q][Made(q)].obj \in Nat
            /\ table[q][Made(q)].obj <= Len(kind) /\ Len(kind) \in Nat
        BY <1>1, <2>1, <2>2, KindsKept DEF Object, KernelTyped
      <3>2. CASE u # p
        <4>1. table'[u][f] = table[u][f] BY <3>2 DEF KernelMoves
        <4>2. QED BY <2>1, <2>4, <4>1 DEF PipeAlone
      <3>3. CASE u = p
        <4>1. IsOpen(p, f)' BY <2>4, <3>1, <3>3 DEF IsOpen, Closed
        <4>2. SameObject(p, f) BY <2>4, <3>1, <3>3, <4>1 DEF KernelMoves
        <4>3. PICK g \in Fd : table[p][g].obj = table[q][Made(q)].obj
          BY <2>4, <3>3, <4>2 DEF SameObject
        <4>4. QED BY <2>1, <4>3 DEF PipeAlone
      <3>4. QED BY <3>2, <3>3
    <2>5. PipeAlone(q)' BY <1>2, <1>6, <2>4 DEF PipeAlone
    <2>6. QED BY <2>3, <2>5
  <1>9. ASSUME Effective(q, {"open"})
        PROVE  /\ table[q][Made(q)].role = "readwrite" /\ table[q][Made(q)].cloexec = call[q].flag
               /\ IsOpen(q, Made(q))' /\ kind'[table[q][Made(q)].obj] = "file"
    <2>1. Made(q) \in Fd /\ IsOpen(q, Made(q)) /\ kind[table[q][Made(q)].obj] = "file"
      BY <1>1, <1>9 DEF EffectOf, Effective, Does
    <2>2. QED BY <1>1, <1>2, <1>4, <1>5, <1>6, <1>9, <2>1 DEF EffectOf
  <1>10. Effective(q, FdCalls) => call[q].fd \in Fd
    BY DEF IInv, CallsInv, CallOf, Effective, Does
  <1>11. ASSUME Effective(q, Duplicating)
         PROVE  /\ IsOpen(q, call[q].fd)'
                /\ call[q].fd = Made(q) => Does(q, {"dup2"})
                /\ call[q].fd # Made(q) =>
                     table[q][Made(q)] = [table[q][call[q].fd] EXCEPT !.cloexec = call[q].flag]
    <2>1. call[q].fd \in Fd BY <1>10, <1>11 DEF Effective, Does, Duplicating, FdCalls
    <2>2. QED BY <1>1, <1>2, <1>4, <1>11, <2>1 DEF EffectOf
  <1>12. ASSUME Effective(q, {"close"}) PROVE ~IsOpen(q, call[q].fd)'
    <2>1. call[q].fd \in Fd BY <1>10, <1>12 DEF Effective, Does, FdCalls
    <2>2. QED BY <1>1, <1>2, <1>4, <1>12, <2>1 DEF EffectOf
  <1>13. ASSUME Effective(q, {"F_SETFD"})
         PROVE  IsOpen(q, call[q].fd)' /\ table[q][call[q].fd].cloexec = call[q].flag
    <2>1. call[q].fd \in Fd BY <1>10, <1>13 DEF Effective, Does, FdCalls
    <2>2. QED BY <1>1, <1>2, <1>4, <1>13, <2>1 DEF EffectOf
  <1>14. status[q] = "execed" => \A f \in Fd : bindings[q][f].cloexec => ~IsOpen(q, f)'
    BY <1>1, <1>4 DEF EffectOf
  <1>15. Does(q, {"dup2"})' <=> Does(q, {"dup2"}) BY <1>2 DEF Does
  <1>16. IsOpen(q, call[q].fd)' <=> table[q][call[q].fd] # Closed BY <1>2 DEF IsOpen
  <1>17. IsOpen(q, Made(q))' <=> table[q][Made(q)] # Closed BY <1>2, <1>6 DEF IsOpen
  <1>18. QED
    <2>. DEFINE c == call[q]
                e == table[q][Made(q)]
    <2>1. \A ops : Effective(q, ops)' <=> Effective(q, ops) BY <1>3
    <2>2. call'[q] = c /\ table'[q] = table[q] /\ Made(q)' = Made(q) BY <1>2, <1>6
    <2>3. QED
      BY <1>2, <1>7, <1>8, <1>9, <1>11, <1>12, <1>13, <1>14, <1>15, <2>1, <2>2 DEF EffectOf

LEMMA KernelAgrees ==
  ASSUME IInv, NEW p \in Proc, KernelMoves(p) PROVE AgreeInv'
  <1>1. KernelTyped /\ AnalyzerTyped /\ AgreeInv BY DEF IInv
  <1>2. bindings' = bindings /\ discovered' = discovered /\ inherited' = inherited
    BY DEF KernelMoves, tables
  <1>3. \A q \in Proc, f \in Fd : Bound(q, f)' <=> Bound(q, f) BY <1>2 DEF Bound
  <1>4. \A q \in Proc, f \in Fd : IsOpen(q, f) => kind'[table[q][f].obj] = kind[table[q][f].obj]
    BY <1>1, KindsKept
  <1>5. ASSUME NEW q \in Proc, NEW f \in Fd, q # p, (Tracked(q) /\ ~Stale(q, f))'
        PROVE  Agrees(q, f)'
    <2>1. status'[q] = status[q] /\ call'[q] = call[q] /\ table'[q] = table[q]
      BY <1>5 DEF KernelMoves
    <2>2. \A ops : Effective(q, ops)' <=> Effective(q, ops)
      BY <2>1 DEF Effective, Succeeded, Does
    <2>3. /\ Tracked(q) /\ ~Stale(q, f) /\ (Reflagged(q, f)' <=> Reflagged(q, f))
          /\ (IsOpen(q, f)' <=> IsOpen(q, f))
      BY <1>2, <1>5, <2>1, <2>2 DEF Tracked, Known, Stale, Made, Reflagged, IsOpen
    <2>4. Agrees(q, f) BY <1>1, <2>3 DEF AgreeInv
    <2>5. QED BY <1>2, <1>3, <1>4, <2>1, <2>3, <2>4 DEF Agrees
  <1>6. ASSUME NEW f \in Fd, ~Stale(p, f)' PROVE Agrees(p, f)'
    <2>1. Tracked(p) /\ ~Stale(p, f) /\ ~Reflagged(p, f)
      BY DEF KernelMoves, IInv, CallsInv, CallOf, Tracked, Known, Stale, Reflagged, Effective
    <2>2. Agrees(p, f) BY <1>1, <2>1 DEF AgreeInv
    <2>3. CASE table'[p][f] = table[p][f]
      BY <1>2, <1>3, <1>4, <2>1, <2>2, <2>3 DEF Agrees, IsOpen
    <2>4. CASE IsOpen(p, f) /\ Reflagged(p, f)'
               /\ table'[p][f] = [table[p][f] EXCEPT !.cloexec = call[p].flag]
      <3>1. table[p][f] \in {Closed} \cup Opened /\ Closed.obj = 0 BY <1>1 DEF KernelTyped, Closed
      <3>2. /\ table'[p][f].obj = table[p][f].obj /\ table'[p][f].role = table[p][f].role
        BY <2>4, <3>1 DEF Opened, Closed
      <3>3. IsOpen(p, f) => IsOpen(p, f)'
        BY <1>1, <3>2, KindsKept DEF IsOpen, Closed
      <3>4. CASE IsOpen(p, f)
        BY <1>2, <1>3, <1>4, <2>2, <2>4, <3>2, <3>3, <3>4 DEF Agrees
      <3>5. QED BY <2>4, <3>4
    <2>5. CASE ~Bound(p, f) /\ (IsOpen(p, f)' => kind'[table'[p][f].obj] = "socket")
      BY <1>3, <2>5 DEF Agrees
    <2>6. QED BY <1>6, <2>3, <2>4, <2>5 DEF KernelMoves
  <1>7. QED BY <1>5, <1>6 DEF AgreeInv

LEMMA KernelObserved ==
  ASSUME IInv, NEW p \in Proc, KernelMoves(p), Observes(p), observations' # observations
  PROVE  /\ Effective(p, Transfers)' /\ Transferring(p) /\ table' = table
         /\ call[p].fd \in Fd /\ IsOpen(p, call[p].fd) /\ call[p].obs \in DOMAIN observations
         /\ observations' \in Seq(Observed) /\ DOMAIN observations' = DOMAIN observations
         /\ \A i \in DOMAIN observations : i # call[p].obs => observations'[i] = observations[i]
         /\ \E token \in Tokens \cup {Plain}, from \in Nat :
              observations'[call[p].obs] =
                [observations[call[p].obs] EXCEPT !.obj = table[p][call[p].fd].obj,
                                                  !.token = token, !.from = from]
  <1>1. PICK token \in Tokens \cup {Plain}, from \in Nat :
          /\ Effective(p, Transfers)' /\ IsOpen(p, call[p].fd) /\ table' = table
          /\ Uses(p, table[p][call[p].fd].obj, token, from)
    BY DEF Observes
  <1>2. Does(p, Transfers) /\ status[p] = "called" BY <1>1 DEF Effective, Does, KernelMoves
  <1>3. Transferring(p) BY <1>2 DEF Transferring
  <1>4. call[p].fd \in Fd
    BY <1>2 DEF IInv, CallsInv, CallOf, Does, Transfers, FdCalls
  <1>5. call[p].obs \in DOMAIN observations BY <1>3 DEF IInv, ObservationsInv, ObservationOf
  <1>6. observations \in Seq(Observed) BY DEF IInv, AnalyzerTyped
  <1>. DEFINE i == call[p].obs
              o == [observations[i] EXCEPT !.obj = table[p][call[p].fd].obj,
                                           !.token = token, !.from = from]
  <1>7. observations[i] \in Observed BY <1>5, <1>6
  <1>8. table[p][call[p].fd].obj \in Object BY <1>1, <1>4, KindsKept DEF IInv
  <1>9. o \in Observed BY <1>7, <1>8 DEF Observed
  <1>10. observations' = [observations EXCEPT ![i] = o] BY <1>1 DEF Uses
  <1>. HIDE DEF o, i
  <1>11. observations' \in Seq(Observed) /\ DOMAIN observations' = DOMAIN observations
         /\ observations'[i] = o
         /\ \A j \in DOMAIN observations : j # i => observations'[j] = observations[j]
    BY <1>5, <1>6, <1>9, <1>10, ExceptSeq DEF i
  <1>12. QED BY <1>1, <1>3, <1>4, <1>5, <1>11 DEF i, o

LEMMA KernelTypes ==
  ASSUME IInv, NEW p \in Proc, KernelMoves(p), Observes(p), ContentTyped' PROVE AnalyzerTyped'
  <1>1. AnalyzerTyped BY DEF IInv
  <1>2. observations' \in Seq(Observed) /\ DOMAIN observations' = DOMAIN observations
        /\ \A i \in DOMAIN observations : observations'[i].res = observations[i].res
    <2>1. CASE observations' = observations BY <1>1, <2>1 DEF AnalyzerTyped
    <2>2. CASE observations' # observations
      <3>1. observations \in Seq(Observed) BY <1>1 DEF AnalyzerTyped
      <3>2. \A i \in DOMAIN observations : observations[i] \in Observed BY <3>1
      <3>3. /\ observations' \in Seq(Observed) /\ DOMAIN observations' = DOMAIN observations
            /\ \A i \in DOMAIN observations :
                 i # call[p].obs => observations'[i] = observations[i]
            /\ call[p].obs \in DOMAIN observations
        BY <2>2, KernelObserved
      <3>4. PICK token \in Tokens \cup {Plain}, from \in Nat :
              observations'[call[p].obs] =
                [observations[call[p].obs] EXCEPT !.obj = table[p][call[p].fd].obj,
                                                  !.token = token, !.from = from]
        BY <2>2, KernelObserved
      <3>5. observations'[call[p].obs].res = observations[call[p].obs].res
        BY <3>2, <3>3, <3>4 DEF Observed
      <3>6. QED BY <3>3, <3>5
    <2>3. QED BY <2>1, <2>2
  <1>3. UNCHANGED << bindings, snapshot, discovered, inherited, nextResource, early, edges >>
    BY DEF KernelMoves, tables
  <1>4. QED BY <1>1, <1>2, <1>3 DEF AnalyzerTyped

LEMMA KernelCalls ==
  ASSUME IInv, NEW p \in Proc, KernelMoves(p) PROVE CallsInv'
  <1>. SUFFICES ASSUME NEW q \in Proc PROVE CallOf(q)' BY DEF CallsInv
  <1>1. CallOf(q) BY DEF IInv, CallsInv
  <1>2. discovered' = discovered BY DEF KernelMoves, tables
  <1>3. CASE q # p
    <2>1. status'[q] = status[q] /\ call'[q] = call[q] BY <1>3 DEF KernelMoves
    <2>2. QED BY <1>1, <1>2, <2>1 DEF CallOf, Does
  <1>4. CASE q = p
    <2>1. status[p] = "called" /\ status'[p] \in {"returned", "execed"}
          /\ (status'[p] = "execed" => Does(p, {"execve"})) /\ call'[p].op = call[p].op
          /\ call'[p].fd = call[p].fd /\ call'[p].flag = call[p].flag
          /\ (call'[p].to = call[p].to \/ Does(p, {"pipe"}))
      BY DEF KernelMoves
    <2>2. QED BY <1>1, <1>2, <1>4, <2>1 DEF CallOf, Does
  <1>5. QED BY <1>3, <1>4

LEMMA KernelKnown ==
  ASSUME IInv, NEW p \in Proc, KernelMoves(p) PROVE KnownInv' /\ ForksInv'
  <1>1. UNCHANGED << bindings, discovered, inherited >> BY DEF KernelMoves, tables
  <1>2. status[p] = "called" /\ status'[p] \in {"returned", "execed"} BY DEF KernelMoves
  <1>3. p \in discovered BY <1>2 DEF IInv, CallsInv, CallOf
  <1>4. \A q \in Proc \ {p} : status'[q] = status[q] /\ call'[q] = call[q] /\ table'[q] = table[q]
    BY DEF KernelMoves
  <1>5. KnownInv /\ ForksInv BY DEF IInv
  <1>6. \A q \in Proc : Tracked(q)' <=> Tracked(q) BY <1>1, <1>2, <1>4 DEF Tracked, Known
  <1>7. KnownInv'
    <2>1. \A q \in Proc : (~Tracked(q))' => \A f \in Fd : bindings'[q][f] = Unbound
      BY <1>1, <1>5, <1>6 DEF KnownInv
    <2>2. \A q \in discovered \cup inherited : status'[q] # "none"
      BY <1>2, <1>4, <1>5 DEF KnownInv, IInv, AnalyzerTyped
    <2>3. \A q \in discovered : status'[q] # "ended"
      BY <1>2, <1>4, <1>5 DEF KnownInv, IInv, AnalyzerTyped
    <2>4. \A q \in Proc : status'[q] \in {"none", "ended"} => \A f \in Fd : ~IsOpen(q, f)'
      BY <1>2, <1>4, <1>5 DEF KnownInv, IsOpen
    <2>5. Root \in Proc BY WorkloadAssumption
    <2>6. Root \notin inherited /\ status'[Root] # "none" BY <1>2, <1>4, <1>5, <2>5 DEF KnownInv
    <2>7. Root \in discovered \/ status'[Root] = "ended"
          \/ \A q \in Proc \ {Root} : status'[q] = "none"
      BY <1>2, <1>3, <1>4, <1>5, <2>5 DEF KnownInv
    <2>8. QED BY <1>1, <2>1, <2>2, <2>3, <2>4, <2>6, <2>7 DEF KnownInv
  <1>8. ForksInv'
    <2>. SUFFICES ASSUME NEW q \in Proc, status'[q] = "forked" PROVE ForkOf(q)' BY DEF ForksInv
    <2>1. q # p /\ status[q] = "forked" /\ call'[q] = call[q] BY <1>2, <1>4
    <2>2. ForkOf(q) BY <1>5, <2>1 DEF ForksInv
    <2>. DEFINE c == call[q].child
    <2>3. c \in Proc \ {Root, q} /\ c \notin inherited /\ status[c] # "none"
          /\ (c \notin discovered /\ status[c] # "ended" =>
                status[c] = "running" /\ table[c] = table[q])
          /\ \A u \in Proc : status[u] = "forked" /\ call[u].child = c => u = q
      BY <2>2 DEF ForkOf
    <2>4. status'[c] # "none" BY <1>2, <1>4, <2>3
    <2>5. c \notin discovered /\ status'[c] # "ended" => status'[c] = "running" /\ table'[c] = table'[q]
      BY <1>2, <1>3, <1>4, <2>1, <2>3
    <2>6. \A u \in Proc : status'[u] = "forked" /\ call'[u].child = c => u = q
      BY <1>2, <1>4, <2>3
    <2>7. QED BY <1>1, <2>1, <2>3, <2>4, <2>5, <2>6 DEF ForkOf
  <1>9. QED BY <1>7, <1>8

LEMMA KernelUndone ==
  ASSUME IInv, NEW p \in Proc, KernelMoves(p), Observes(p), observations' # observations,
         NEW i \in DOMAIN observations
  PROVE  /\ observations'[i].op = observations[i].op /\ observations'[i].done = observations[i].done
         /\ observations'[i].res = observations[i].res
         /\ observations'[i].type = observations[i].type
         /\ observations'[i].role = observations[i].role
         /\ observations[i].done => observations'[i] = observations[i]
         /\ i = call[p].obs => observations'[i].obj = table[p][call[p].fd].obj
  <1>1. CASE i # call[p].obs BY <1>1, KernelObserved
  <1>2. CASE i = call[p].obs
    <2>1. PICK token \in Tokens \cup {Plain}, from \in Nat :
            observations'[call[p].obs] =
              [observations[call[p].obs] EXCEPT !.obj = table[p][call[p].fd].obj,
                                                !.token = token, !.from = from]
      BY KernelObserved
    <2>2. observations[i] \in Observed BY DEF IInv, AnalyzerTyped
    <2>3. ~observations[i].done
      BY <1>2, KernelObserved DEF IInv, ObservationsInv, ObservationOf
    <2>4. QED BY <1>2, <2>1, <2>2, <2>3 DEF Observed
  <1>3. QED BY <1>1, <1>2

LEMMA KernelObservations ==
  ASSUME IInv, NEW p \in Proc, KernelMoves(p), Observes(p)
  PROVE  ObservationsInv' /\ LinkedInv' /\ EdgesInv'
  <1>1. ObservationsInv /\ LinkedInv /\ EdgesInv /\ AnalyzerTyped BY DEF IInv
  <1>2. DOMAIN observations' = DOMAIN observations /\ edges' = edges
    BY KernelObserved DEF KernelMoves
  <1>3. \A i \in DOMAIN observations :
          /\ observations'[i].done = observations[i].done
          /\ observations'[i].op = observations[i].op
          /\ observations'[i].res = observations[i].res
          /\ observations'[i].type = observations[i].type
          /\ observations'[i].role = observations[i].role
          /\ observations[i].done => observations'[i] = observations[i]
    BY KernelUndone
  <1>4. LinkedInv'
    <2>. SUFFICES ASSUME NEW w \in DOMAIN observations, NEW r \in DOMAIN observations,
                         MaySupply(observations', w, r)
                  PROVE  \E v \in DOMAIN observations : << v, r >> \in edges
      BY <1>2 DEF LinkedInv
    <2>1. observations'[w].done /\ observations'[r].done BY DEF MaySupply, IsPipeEnd
    <2>2. observations'[w] = observations[w] /\ observations'[r] = observations[r]
      BY <1>3, <2>1
    <2>3. MaySupply(observations, w, r) BY <2>2 DEF MaySupply
    <2>4. QED BY <1>1, <2>3 DEF LinkedInv
  <1>5. EdgesInv'
    <2>1. \A e \in edges : e[1] \in DOMAIN observations /\ e[2] \in DOMAIN observations
      BY <1>1 DEF AnalyzerTyped
    <2>2. QED BY <1>1, <1>2, <1>3, <2>1 DEF EdgesInv
  <1>6. \A i \in DOMAIN observations' : observations'[i].done => observations'[i].obj # 0
    BY <1>1, <1>2, <1>3 DEF ObservationsInv
  <1>7. ASSUME NEW q \in Proc, Transferring(q)' PROVE ObservationOf(q)'
    <2>1. Transferring(q) /\ call'[q].obs = call[q].obs /\ call'[q].fd = call[q].fd
          /\ call'[q].op = call[q].op /\ bindings'[q] = bindings[q]
      BY <1>7 DEF Transferring, Does, KernelMoves, tables
    <2>2. ObservationOf(q) BY <1>1, <2>1 DEF ObservationsInv
    <2>. DEFINE o == observations[call[q].obs]
    <2>3. call[q].obs \in DOMAIN observations /\ ~o.done /\ o.op = call[q].op
          /\ o.res = bindings[q][call[q].fd].res /\ o.type = bindings[q][call[q].fd].type
          /\ o.role = bindings[q][call[q].fd].role
          /\ \A u \in Proc : Transferring(u) /\ call[u].obs = call[q].obs => u = q
      BY <2>2 DEF ObservationOf
    <2>4. \A u \in Proc : Transferring(u)' /\ call'[u].obs = call[q].obs => u = q
      BY <2>3 DEF Transferring, Does, KernelMoves
    <2>5. IF Effective(q, Transfers)'
          THEN IsOpen(q, call[q].fd)' /\ observations'[call[q].obs].obj = table'[q][call[q].fd].obj
          ELSE observations'[call[q].obs].obj = 0
      <3>1. CASE q = p
        <4>1. ~Effective(q, Transfers) BY <3>1 DEF KernelMoves, Effective
        <4>2. o.obj = 0 BY <2>2, <4>1 DEF ObservationOf
        <4>3. CASE observations' = observations
          <5>1. CASE Effective(q, Transfers)'
            <6>1. PICK token \in Tokens \cup {Plain}, from \in Nat :
                    Uses(p, table[p][call[p].fd].obj, token, from) /\ IsOpen(p, call[p].fd)
              BY <3>1, <5>1 DEF Observes
            <6>2. observations[call[p].obs] \in Observed BY <2>3, <3>1 DEF IInv, AnalyzerTyped
            <6>3. observations'[call[p].obs].obj = table[p][call[p].fd].obj
              BY <2>3, <3>1, <6>1, <6>2 DEF Uses, Observed
            <6>4. call[p].fd \in Fd
              BY <2>1, <3>1 DEF IInv, CallsInv, CallOf, Does, Transfers, FdCalls, Transferring
            <6>5. table[p][call[p].fd].obj # 0 BY <6>1, <6>4, KindsKept DEF IInv
            <6>6. QED BY <3>1, <4>2, <4>3, <6>3, <6>5
          <5>2. QED BY <4>2, <4>3, <5>1
        <4>4. CASE observations' # observations
          <5>1. Effective(p, Transfers)' /\ table' = table /\ IsOpen(p, call[p].fd)
                /\ observations'[call[p].obs].obj = table[p][call[p].fd].obj
            BY <2>3, <3>1, <4>4, KernelObserved, KernelUndone
          <5>2. QED BY <2>1, <3>1, <5>1 DEF IsOpen
        <4>5. QED BY <4>3, <4>4
      <3>2. CASE q # p
        <4>1. status'[q] = status[q] /\ call'[q] = call[q] /\ table'[q] = table[q]
          BY <3>2 DEF KernelMoves
        <4>2. Effective(q, Transfers)' <=> Effective(q, Transfers)
          BY <4>1 DEF Effective, Succeeded, Does
        <4>3. observations'[call[q].obs] = o
          BY <2>3, <3>2, KernelObserved
        <4>4. IsOpen(q, call[q].fd)' <=> IsOpen(q, call[q].fd) BY <4>1 DEF IsOpen
        <4>5. QED BY <2>2, <4>1, <4>2, <4>3, <4>4 DEF ObservationOf
      <3>3. QED BY <3>1, <3>2
    <2>6. /\ ~observations'[call[q].obs].done
          /\ observations'[call[q].obs].op = o.op /\ observations'[call[q].obs].res = o.res
          /\ observations'[call[q].obs].type = o.type /\ observations'[call[q].obs].role = o.role
      BY <1>3, <2>3
    <2>7. IsOpen(q, call[q].fd)' <=> table'[q][call[q].fd] # Closed BY <2>1 DEF IsOpen
    <2>8. QED BY <1>2, <2>1, <2>3, <2>4, <2>5, <2>6, <2>7 DEF ObservationOf
  <1>8. QED BY <1>4, <1>5, <1>6, <1>7 DEF ObservationsInv

LEMMA KernelNames ==
  ASSUME IInv, NEW p \in Proc, KernelMoves(p), Observes(p) PROVE NamesInv'
  <1>1. AnalyzerTyped /\ KernelTyped /\ AgreeInv BY DEF IInv
  <1>2. PICK object \in [Id -> Object], id \in [Proc -> [Object -> Nat]] : Named(object, id)
    BY DEF IInv, NamesInv
  <1>3. Id' = Id /\ UNCHANGED << bindings, snapshot, discovered, inherited, early >>
    BY DEF KernelMoves, tables, Id
  <1>4. \A q \in Proc : Family(q)' = Family(q) BY <1>3 DEF Family, Early
  <1>5. status[p] = "called" BY DEF KernelMoves
  <1>6. p \in discovered BY <1>5 DEF IInv, CallsInv, CallOf
  <1>7. ASSUME NEW q \in Proc, NEW f \in Fd, Refers(q, f)'
        PROVE  /\ object[bindings[q][f].res] = table'[q][f].obj
               /\ kind'[table'[q][f].obj] = "pipe" =>
                    bindings[q][f].res = id[Family(q)][table'[q][f].obj]
    <2>1. Refers(q, f)
      <3>1. CASE q = p
        BY <1>3, <1>5, <1>6, <1>7, <3>1 DEF Refers, Tracked, Known, Stale, Effective, Bound
      <3>2. CASE q # p
        <4>1. status'[q] = status[q] /\ call'[q] = call[q] BY <3>2 DEF KernelMoves
        <4>2. QED BY <1>3, <1>7, <4>1
                  DEF Refers, Tracked, Known, Stale, Effective, Bound, Succeeded, Does, Made
      <3>3. QED BY <3>1, <3>2
    <2>2. Agrees(q, f) /\ Bound(q, f) BY <1>1, <2>1 DEF AgreeInv, Refers
    <2>3. IsOpen(q, f) BY <2>2 DEF Agrees
    <2>4. table'[q][f].obj = table[q][f].obj
      <3>1. CASE q = p
        <4>1. table[q][f] \in Opened BY <1>1, <2>3 DEF KernelTyped, IsOpen
        <4>2. table'[p][f] = table[p][f]
              \/ table'[p][f] = [table[p][f] EXCEPT !.cloexec = call[p].flag]
          BY <1>7, <2>2, <2>3, <3>1 DEF KernelMoves, Refers
        <4>3. QED BY <3>1, <4>1, <4>2 DEF Opened
      <3>2. CASE q # p BY <3>2 DEF KernelMoves
      <3>3. QED BY <3>1, <3>2
    <2>5. kind'[table[q][f].obj] = kind[table[q][f].obj] BY <1>1, <2>3, KindsKept
    <2>6. QED BY <1>2, <2>1, <2>4, <2>5 DEF Named, Pipe
  <1>8. ASSUME NEW i \in DOMAIN observations', observations'[i].obj # 0, observations'[i].res # 0
        PROVE  object[observations'[i].res] = observations'[i].obj
    <2>1. CASE observations' = observations BY <1>2, <1>8, <2>1 DEF Named
    <2>2. CASE observations' # observations
      <3>1. i \in DOMAIN observations BY <2>2, KernelObserved
      <3>2. CASE i # call[p].obs
        <4>1. observations'[i] = observations[i] BY <2>2, <3>1, <3>2, KernelObserved
        <4>2. QED BY <1>2, <1>8, <3>1, <4>1 DEF Named
      <3>3. CASE i = call[p].obs
        <4>1. /\ Transferring(p) /\ call[p].fd \in Fd /\ IsOpen(p, call[p].fd)
              /\ observations'[i].obj = table[p][call[p].fd].obj
              /\ observations'[i].res = observations[i].res
          BY <2>2, <3>1, <3>3, KernelObserved, KernelUndone
        <4>2. observations[i].res = bindings[p][call[p].fd].res
          BY <3>3, <4>1 DEF IInv, ObservationsInv, ObservationOf
        <4>3. Bound(p, call[p].fd) BY <1>8, <4>1, <4>2 DEF Bound, Unbound
        <4>4. Refers(p, call[p].fd)
          BY <1>5, <1>6, <4>3 DEF Refers, Tracked, Known, Stale, Effective
        <4>5. QED BY <1>2, <4>1, <4>2, <4>4 DEF Named
      <3>4. QED BY <3>2, <3>3
    <2>3. QED BY <2>1, <2>2
  <1>9. Named(object, id)'
    BY <1>2, <1>3, <1>4, <1>7, <1>8 DEF Named, Pipe
  <1>10. QED BY <1>3, <1>9 DEF NamesInv

LEMMA KernelKeeps ==
  ASSUME IInv, NEW p \in Proc, KernelMoves(p), Observes(p), EffectOf(p)', ContentTyped'
  PROVE  IInv'
  <1>1. KernelTyped' BY DEF KernelMoves
  <1>2. QED
    BY <1>1, KernelTypes, KernelCalls, KernelEffects, KernelAgrees, KernelKnown,
       KernelObservations, KernelNames DEF IInv

-----------------------------------------------------------------------------
LEMMA MinIsLeast ==
  ASSUME NEW S, S \subseteq Nat, S # {} PROVE Min(S) \in S /\ \A x \in S : Min(S) <= x
  <1>1. PICK m \in S : \A x \in S : ~(<< x, m >> \in OpToRel(<, Nat))
    BY NatLessThanWellFounded, WFMin, Zenon
  <1>2. ASSUME NEW x \in S, ~(m <= x) PROVE FALSE
    <2>1. << x, m >> \in Nat \X Nat /\ x < m BY <1>2
    <2>2. << x, m >> \in OpToRel(<, Nat) BY <2>1 DEF OpToRel
    <2>3. QED BY <1>1, <2>2
  <1>3. QED BY <1>2 DEF Min

LEMMA MaxIsGreatest ==
  ASSUME NEW n \in Nat, NEW S, S \subseteq 1 .. n, S # {}
  PROVE  Max(S) \in S /\ \A x \in S : x <= Max(S)
  <1>. DEFINE T == {n - x : x \in S}
  <1>1. T \subseteq Nat /\ T # {}
    <2>1. \A x \in S : n - x \in Nat OBVIOUS
    <2>2. QED BY <2>1
  <1>2. Min(T) \in T /\ \A x \in T : Min(T) <= x BY <1>1, MinIsLeast
  <1>3. PICK m \in S : Min(T) = n - m BY <1>2
  <1>4. ASSUME NEW x \in S PROVE m >= x
    <2>1. n - m <= n - x BY <1>2, <1>3
    <2>2. QED BY <2>1
  <1>5. QED BY <1>4 DEF Max

-----------------------------------------------------------------------------
(* A step of the kernel in the call of p changes that process only.        *)
KernelChanges(p, t, c, s) ==
  /\ table' = [table EXCEPT ![p] = t]
  /\ call' = [call EXCEPT ![p] = c]
  /\ status' = [status EXCEPT ![p] = s]
  /\ kind' = kind \/ \E k \in Kinds : kind' = Append(kind, k) /\ Len(kind) + 1 \in Object
  /\ \A f \in Fd : t[f] # Closed => t[f].obj <= Len(kind')
  /\ UNCHANGED << tables, early, edges >>

LEMMA KernelFrame ==
  ASSUME KernelTyped, NEW p \in Proc, NEW t \in [Fd -> {Closed} \cup Opened],
         NEW c \in Recorded, NEW s \in {"returned", "execed"}, KernelChanges(p, t, c, s)
  PROVE  /\ KernelTyped' /\ table'[p] = t /\ call'[p] = c /\ status'[p] = s
         /\ \A q \in Proc \ {p} :
              status'[q] = status[q] /\ call'[q] = call[q] /\ table'[q] = table[q]
         /\ Len(kind') >= Len(kind) /\ \A o \in DOMAIN kind : kind'[o] = kind[o]
  <1>1. table'[p] = t /\ call'[p] = c /\ status'[p] = s
        /\ \A q \in Proc \ {p} :
             status'[q] = status[q] /\ call'[q] = call[q] /\ table'[q] = table[q]
    BY DEF KernelChanges, KernelTyped
  <1>2. kind' \in Seq(Kinds) /\ Len(kind') \in Object /\ Len(kind') >= Len(kind)
        /\ \A o \in DOMAIN kind : kind'[o] = kind[o]
    <2>1. kind \in Seq(Kinds) /\ Len(kind) \in Object BY DEF KernelTyped
    <2>2. CASE kind' = kind BY <2>1, <2>2, WorkloadAssumption DEF Object
    <2>3. CASE kind' # kind
      <3>1. PICK k \in Kinds : kind' = Append(kind, k) /\ Len(kind) + 1 \in Object
        BY <2>3 DEF KernelChanges
      <3>2. QED BY <2>1, <3>1
    <2>4. QED BY <2>2, <2>3
  <1>3. table' \in [Proc -> [Fd -> {Closed} \cup Opened]] BY DEF KernelChanges, KernelTyped
  <1>4. \A q \in Proc, f \in Fd : IsOpen(q, f)' => table'[q][f].obj <= Len(kind')
    <2>1. \A q \in Proc, f \in Fd : table[q][f] # Closed => table[q][f].obj \in Nat
      BY DEF KernelTyped, Opened, Object
    <2>2. Len(kind) \in Nat /\ Len(kind') \in Nat BY <1>2 DEF KernelTyped, Object
    <2>3. QED BY <1>1, <1>2, <2>1, <2>2 DEF KernelTyped, KernelChanges, IsOpen
  <1>5. call' \in [Proc -> Recorded] /\ status' \in
          [Proc -> {"none", "running", "called", "returned", "forked", "execed", "ended"}]
    BY DEF KernelChanges, KernelTyped
  <1>6. QED BY <1>1, <1>2, <1>3, <1>4, <1>5 DEF KernelTyped

(* What is known of a process that has entered a call.                     *)
LEMMA Called ==
  ASSUME IInv, NEW p \in Proc, status[p] = "called"
  PROVE  /\ KernelTyped /\ p \in discovered /\ Tracked(p) /\ call[p].ret = Failed
         /\ call[p] \in Recorded /\ table[p] \in [Fd -> {Closed} \cup Opened]
         /\ Does(p, FdCalls) => call[p].fd \in Fd
         /\ Does(p, {"dup2", "dup3"}) => call[p].to \in Fd
         /\ Does(p, {"dup", "dup2"}) => ~call[p].flag
         /\ \A f \in Fd : /\ Bound(p, f) => IsOpen(p, f)
                          /\ IsOpen(p, f) /\ kind[table[p][f].obj] # "socket" => Bound(p, f)
                          /\ Bound(p, f) => bindings[p][f].cloexec = table[p][f].cloexec
                          /\ IsOpen(p, f) => table[p][f] \in Opened
                                             /\ table[p][f].obj \in 1 .. Len(kind)
         /\ Len(kind) \in Nat
  <1>1. KernelTyped BY DEF IInv
  <1>2. CallOf(p) BY DEF IInv, CallsInv
  <1>3. p \in discovered BY <1>2 DEF CallOf
  <1>4. Tracked(p) BY <1>3 DEF Tracked, Known
  <1>5. \A f \in Fd : Agrees(p, f) /\ ~Reflagged(p, f)
    BY <1>4 DEF IInv, AgreeInv, Stale, Effective, Reflagged
  <1>6. Len(kind) \in Nat BY <1>1 DEF KernelTyped
  <1>7. \A f \in Fd : IsOpen(p, f) => table[p][f] \in Opened /\ table[p][f].obj \in 1 .. Len(kind)
    BY <1>1, <1>6 DEF KernelTyped, IsOpen, Opened, Object
  <1>8. QED BY <1>1, <1>2, <1>3, <1>4, <1>5, <1>6, <1>7 DEF CallOf, Agrees, KernelTyped

LEMMA FailsKeeps == ASSUME IInv, NEW p \in Proc, Fails(p) PROVE IInv'
  <1>1. status[p] = "called" /\ call[p].op \notin {"fork", "execve"} BY DEF Fails
  <1>. DEFINE c == [call[p] EXCEPT !.ret = Failed]
  <1>2. KernelTyped /\ call[p] \in Recorded /\ table[p] \in [Fd -> {Closed} \cup Opened]
        /\ \A f \in Fd : table[p][f] # Closed => table[p][f].obj <= Len(kind)
    BY <1>1, Called DEF KernelTyped, IsOpen
  <1>3. c \in Recorded BY <1>2 DEF Recorded, Failed
  <1>4. KernelChanges(p, table[p], c, "returned")
    BY <1>2 DEF Fails, Returns, kernel, flow, KernelChanges, KernelTyped
  <1>5. /\ KernelTyped' /\ table'[p] = table[p] /\ call'[p] = c /\ status'[p] = "returned"
        /\ \A q \in Proc \ {p} :
             status'[q] = status[q] /\ call'[q] = call[q] /\ table'[q] = table[q]
        /\ Len(kind') >= Len(kind) /\ \A o \in DOMAIN kind : kind'[o] = kind[o]
    BY <1>2, <1>3, <1>4, KernelFrame
  <1>6. c.ret = Failed /\ c.op = call[p].op /\ c.fd = call[p].fd /\ c.to = call[p].to
        /\ c.flag = call[p].flag /\ c.obs = call[p].obs
    BY <1>2 DEF Recorded
  <1>7. \A ops : ~Effective(p, ops)' BY <1>5, <1>6 DEF Effective, Succeeded
  <1>8. \A f \in Fd : IsOpen(p, f)' => SameObject(p, f) BY <1>5 DEF IsOpen, SameObject
  <1>9. KernelMoves(p)
    BY <1>1, <1>4, <1>5, <1>6, <1>8 DEF KernelMoves, KernelChanges
  <1>10. Observes(p) BY <1>7 DEF Observes, Fails, flow
  <1>11. EffectOf(p)' BY <1>5, <1>7 DEF EffectOf
  <1>12. ContentTyped' BY DEF Fails, kernel, flow, IInv, AnalyzerTyped, ContentTyped
  <1>13. QED BY <1>9, <1>10, <1>11, <1>12, KernelKeeps

LEMMA FreeIsFree ==
  ASSUME NEW p \in Proc, Free(p) # {}
  PROVE  Min(Free(p)) \in Fd /\ ~IsOpen(p, Min(Free(p))) /\ Min(Free(p)) \in Nat
  <1>1. Free(p) \subseteq Nat BY DescriptorAssumption DEF Free
  <1>2. Min(Free(p)) \in Free(p) BY <1>1, MinIsLeast
  <1>3. QED BY <1>2, DescriptorAssumption DEF Free

LEMMA OpensKeeps == ASSUME IInv, NEW p \in Proc, Opens(p) PROVE IInv'
  <1>0. Free(p) # {} BY DEF Opens
  <1>. PICK f \in Fd : f = Min(Free(p)) /\ ~IsOpen(p, f) /\ f \in Nat BY <1>0, FreeIsFree
  <1>. DEFINE o == Len(kind) + 1
              e == [obj |-> o, role |-> "readwrite", cloexec |-> call[p].flag]
              t == [table[p] EXCEPT ![f] = e]
              c == [call[p] EXCEPT !.ret = f + 1]
              k == IF call[p].op = "open" THEN "file" ELSE "socket"
  <1>1. status[p] = "called" /\ call[p].op \in {"open", "socket"} /\ o \in Object
        /\ kind' = Append(kind, k) /\ k \in Kinds
    BY DEF Opens, Kinds
  <1>2. f \in Fd /\ ~IsOpen(p, f) /\ f \in Nat OBVIOUS
  <1>3. /\ KernelTyped /\ call[p] \in Recorded /\ table[p] \in [Fd -> {Closed} \cup Opened]
        /\ Len(kind) \in Nat /\ kind \in Seq(Kinds)
        /\ \A g \in Fd : IsOpen(p, g) => table[p][g] \in Opened /\ table[p][g].obj \in 1 .. Len(kind)
        /\ \A g \in Fd : Bound(p, g) => IsOpen(p, g)
    BY <1>1, Called DEF KernelTyped
  <1>4. c \in Recorded /\ c.ret = f + 1 /\ c.op = call[p].op /\ c.fd = call[p].fd /\ c.to = call[p].to
        /\ c.flag = call[p].flag /\ c.obs = call[p].obs
    BY <1>2, <1>3 DEF Recorded
  <1>5. e \in Opened BY <1>1, <1>3 DEF Opened, Recorded, Roles
  <1>6. t \in [Fd -> {Closed} \cup Opened] /\ t[f] = e /\ \A g \in Fd \ {f} : t[g] = table[p][g]
    BY <1>2, <1>3, <1>5
  <1>7. Len(kind') = o /\ kind'[o] = k BY <1>1, <1>3
  <1>8. \A g \in Fd : t[g] # Closed => t[g].obj <= Len(kind')
    BY <1>3, <1>6, <1>7 DEF IsOpen
  <1>9. table' = [table EXCEPT ![p] = t] /\ call' = [call EXCEPT ![p] = c]
        /\ status' = [status EXCEPT ![p] = "returned"]
        /\ UNCHANGED << tables, early, edges, observations, content >>
    BY DEF Opens, Installs, Returns, flow
  <1>. HIDE DEF t, c, e, k, o
  <1>10. KernelChanges(p, t, c, "returned") BY <1>1, <1>8, <1>9 DEF KernelChanges, o
  <1>11. /\ KernelTyped' /\ table'[p] = t /\ call'[p] = c /\ status'[p] = "returned"
         /\ \A q \in Proc \ {p} :
              status'[q] = status[q] /\ call'[q] = call[q] /\ table'[q] = table[q]
         /\ Len(kind') >= Len(kind) /\ \A i \in DOMAIN kind : kind'[i] = kind[i]
    BY <1>3, <1>4, <1>6, <1>10, KernelFrame
  <1>12. Made(p)' = f BY <1>2, <1>4, <1>11 DEF Made, Of
  <1>13. \A ops : Effective(p, ops)' <=> call[p].op \in ops
    BY <1>2, <1>4, <1>11 DEF Effective, Succeeded, Failed, Does
  <1>14. t[f].obj = o /\ t[f].role = "readwrite" /\ t[f].cloexec = call[p].flag /\ t[f] # Closed
    BY <1>3, <1>6 DEF e, Closed
  <1>15. \A g \in Fd : IsOpen(p, g)' => table'[p][g].obj > Len(kind) \/ SameObject(p, g)
    BY <1>3, <1>6, <1>11, <1>14 DEF IsOpen, SameObject, o
  <1>16. Stale(p, f)' \/ (~Bound(p, f) /\ kind'[table'[p][f].obj] = "socket")
    <2>1. CASE call[p].op = "open"
      <3>1. Effective(p, {"open"})' BY <1>13, <2>1
      <3>2. QED BY <1>12, <3>1 DEF Stale
    <2>2. CASE call[p].op = "socket"
      <3>1. kind'[o] = "socket" BY <1>7, <2>2 DEF k
      <3>2. table'[p][f].obj = o BY <1>11, <1>14
      <3>3. ~Bound(p, f) BY <1>2, <1>3
      <3>4. QED BY <3>1, <3>2, <3>3
    <2>3. QED BY <1>1, <2>1, <2>2
  <1>17. KernelMoves(p)
    <2>1. \A g \in Fd : table'[p][g] = table[p][g] \/ g = f BY <1>6, <1>11
    <2>2. QED BY <1>1, <1>4, <1>9, <1>11, <1>15, <1>16, <2>1 DEF KernelMoves
  <1>18. Observes(p) BY <1>1, <1>9, <1>13 DEF Observes, Transfers
  <1>19. EffectOf(p)'
    BY <1>1, <1>2, <1>4, <1>7, <1>11, <1>12, <1>13, <1>14
       DEF EffectOf, Duplicating, IsOpen, k
  <1>20. ContentTyped' BY <1>9 DEF IInv, AnalyzerTyped, ContentTyped
  <1>21. QED BY <1>17, <1>18, <1>19, <1>20, KernelKeeps

LEMMA MakesPipeKeeps == ASSUME IInv, NEW p \in Proc, MakesPipe(p) PROVE IInv'
  <1>0. PICK r \in Fd, w \in Fd :
          /\ r = Min(Free(p)) /\ ~IsOpen(p, r) /\ r \in Nat
          /\ w = Min(Free(p) \ {r}) /\ ~IsOpen(p, w) /\ w \in Nat /\ w # r
    <2>1. Cardinality(Free(p)) >= 2 BY DEF MakesPipe
    <2>2. Free(p) # {} BY <2>1, FS_EmptySet
    <2>3. PICK r \in Fd : r = Min(Free(p)) /\ ~IsOpen(p, r) /\ r \in Nat BY <2>2, FreeIsFree
    <2>4. Free(p) \ {r} # {}
      <3>1. Cardinality({r}) = 1 BY FS_Singleton
      <3>2. Free(p) # {r} BY <2>1, <3>1
      <3>3. QED BY <2>2, <3>2
    <2>5. Free(p) \ {r} \subseteq Nat BY DescriptorAssumption DEF Free
    <2>6. Min(Free(p) \ {r}) \in Free(p) \ {r} BY <2>4, <2>5, MinIsLeast
    <2>7. QED BY <2>3, <2>6, DescriptorAssumption DEF Free
  <1>. DEFINE o == Len(kind) + 1
              er == [obj |-> o, role |-> "read", cloexec |-> call[p].flag]
              ew == [obj |-> o, role |-> "write", cloexec |-> call[p].flag]
              t == [table[p] EXCEPT ![r] = er, ![w] = ew]
              c == [[call[p] EXCEPT !.ret = r + 1] EXCEPT !.to = w]
  <1>1. status[p] = "called" /\ call[p].op = "pipe" /\ o \in Object
        /\ kind' = Append(kind, "pipe") /\ "pipe" \in Kinds
    BY DEF MakesPipe, Kinds
  <1>5. KernelTyped /\ call[p] \in Recorded /\ table[p] \in [Fd -> {Closed} \cup Opened]
        /\ Len(kind) \in Nat /\ kind \in Seq(Kinds)
        /\ \A g \in Fd : IsOpen(p, g) => table[p][g] \in Opened /\ table[p][g].obj \in 1 .. Len(kind)
    BY <1>1, Called DEF KernelTyped
  <1>6. c \in Recorded /\ c.ret = r + 1 /\ c.op = call[p].op /\ c.fd = call[p].fd /\ c.to = w
        /\ c.flag = call[p].flag /\ c.obs = call[p].obs
    <2>. DEFINE d == [call[p] EXCEPT !.ret = r + 1]
    <2>1. d \in Recorded /\ d.ret = r + 1 /\ d.op = call[p].op /\ d.fd = call[p].fd
          /\ d.flag = call[p].flag /\ d.obs = call[p].obs
      BY <1>0, <1>5 DEF Recorded
    <2>. HIDE DEF d
    <2>2. c = [d EXCEPT !.to = w] BY DEF d
    <2>. HIDE DEF c
    <2>3. QED BY <1>0, <2>1, <2>2 DEF Recorded
  <1>7. er \in Opened /\ ew \in Opened BY <1>1, <1>5 DEF Opened, Recorded, Roles
  <1>8. t \in [Fd -> {Closed} \cup Opened] /\ t[r] = er /\ t[w] = ew
        /\ \A g \in Fd \ {r, w} : t[g] = table[p][g]
    BY <1>0, <1>5, <1>7
  <1>9. Len(kind') = o /\ kind'[o] = "pipe" BY <1>1, <1>5
  <1>16. /\ t[r].obj = o /\ t[r].role = "read" /\ t[r].cloexec = call[p].flag /\ t[r] # Closed
         /\ t[w].obj = o /\ t[w].role = "write" /\ t[w].cloexec = call[p].flag /\ t[w] # Closed
    BY <1>5, <1>8 DEF Closed
  <1>10. \A g \in Fd : t[g] # Closed => t[g].obj <= Len(kind')
    BY <1>5, <1>8, <1>9, <1>16 DEF IsOpen
  <1>11. table' = [table EXCEPT ![p] = t] /\ call' = [call EXCEPT ![p] = c]
         /\ status' = [status EXCEPT ![p] = "returned"]
         /\ UNCHANGED << tables, early, edges, observations, content >>
    BY <1>0 DEF MakesPipe, flow
  <1>. HIDE DEF t, c, er, ew
  <1>12. KernelChanges(p, t, c, "returned") BY <1>1, <1>10, <1>11 DEF KernelChanges, o
  <1>13. /\ KernelTyped' /\ table'[p] = t /\ call'[p] = c /\ status'[p] = "returned"
         /\ \A q \in Proc \ {p} :
              status'[q] = status[q] /\ call'[q] = call[q] /\ table'[q] = table[q]
         /\ Len(kind') >= Len(kind) /\ \A i \in DOMAIN kind : kind'[i] = kind[i]
    BY <1>5, <1>6, <1>8, <1>12, KernelFrame
  <1>14. Made(p)' = r BY <1>0, <1>6, <1>13 DEF Made, Of
  <1>15. \A ops : Effective(p, ops)' <=> "pipe" \in ops
    BY <1>1, <1>0, <1>6, <1>13 DEF Effective, Succeeded, Failed, Does
  <1>17. \A g \in Fd : IsOpen(p, g)' => table'[p][g].obj > Len(kind) \/ SameObject(p, g)
    BY <1>5, <1>8, <1>13, <1>16 DEF IsOpen, SameObject
  <1>18. Stale(p, r)' /\ Stale(p, w)' BY <1>6, <1>13, <1>14, <1>15 DEF Stale
  <1>19. KernelMoves(p)
    BY <1>1, <1>6, <1>8, <1>11, <1>13, <1>17, <1>18 DEF KernelMoves, Does
  <1>20. Observes(p) BY <1>11, <1>15 DEF Observes, Transfers
  <1>21. ASSUME NEW q \in Proc, NEW g \in Fd, table'[q][g].obj = o
         PROVE  q = p /\ g \in {r, w}
    <2>1. \A u \in Proc, h \in Fd : table[u][h].obj # o
      <3>. SUFFICES ASSUME NEW u \in Proc, NEW h \in Fd PROVE table[u][h].obj # o OBVIOUS
      <3>1. CASE IsOpen(u, h) BY <1>5, <3>1 DEF KernelTyped
      <3>2. CASE ~IsOpen(u, h) BY <1>5, <3>2 DEF IsOpen, Closed
      <3>3. QED BY <3>1, <3>2
    <2>2. QED BY <1>8, <1>13, <1>21, <2>1
  <1>22. PipeMade(p)'
    BY <1>0, <1>6, <1>9, <1>13, <1>14, <1>16 DEF PipeMade, IsOpen, Pipe
  <1>23. PipeAlone(p)' BY <1>6, <1>13, <1>14, <1>16, <1>21 DEF PipeAlone
  <1>24. EffectOf(p)'
    BY <1>0, <1>13, <1>14, <1>15, <1>22, <1>23 DEF EffectOf, Duplicating
  <1>25. ContentTyped' BY <1>11 DEF IInv, AnalyzerTyped, ContentTyped
  <1>26. QED BY <1>19, <1>20, <1>24, <1>25, KernelKeeps

(* A call that ends without making an object.                              *)
Ends(p, t, ret) ==
  /\ kind' = kind /\ table' = [table EXCEPT ![p] = t] /\ Returns(p, ret)
  /\ UNCHANGED << early, edges >>
  /\ \A f \in Fd : t[f] # Closed => \E g \in Fd : IsOpen(p, g) /\ table[p][g].obj = t[f].obj

LEMMA KernelEnds ==
  ASSUME IInv, NEW p \in Proc, status[p] = "called", NEW t \in [Fd -> {Closed} \cup Opened],
         NEW ret \in Nat, Ends(p, t, ret)
  PROVE  /\ KernelTyped' /\ UNCHANGED << tables, early, edges >>
         /\ table'[p] = t /\ status'[p] = "returned" /\ call'[p].ret = ret
         /\ \A q \in Proc \ {p} :
              status'[q] = status[q] /\ call'[q] = call[q] /\ table'[q] = table[q]
         /\ Len(kind') >= Len(kind) /\ \A o \in DOMAIN kind : kind'[o] = kind[o]
         /\ call'[p].op = call[p].op /\ call'[p].fd = call[p].fd /\ call'[p].flag = call[p].flag
         /\ call'[p].obs = call[p].obs /\ call'[p].to = call[p].to
         /\ \A f \in Fd : IsOpen(p, f)' => SameObject(p, f)
         /\ \A ops : Effective(p, ops)' <=> ret # Failed /\ call[p].op \in ops
  <1>. DEFINE c == [call[p] EXCEPT !.ret = ret]
  <1>1. KernelTyped /\ call[p] \in Recorded /\ Len(kind) \in Nat BY Called
  <1>2. c \in Recorded /\ c.ret = ret /\ c.op = call[p].op /\ c.fd = call[p].fd /\ c.to = call[p].to
        /\ c.flag = call[p].flag /\ c.obs = call[p].obs
    BY <1>1 DEF Recorded
  <1>3. call' = [call EXCEPT ![p] = c] /\ status' = [status EXCEPT ![p] = "returned"]
        /\ UNCHANGED tables
    BY DEF Ends, Returns
  <1>. HIDE DEF c
  <1>4. \A f \in Fd : t[f] # Closed => t[f].obj <= Len(kind')
    BY <1>1 DEF KernelTyped, Ends
  <1>5. KernelChanges(p, t, c, "returned") BY <1>3, <1>4 DEF KernelChanges, Ends
  <1>6. /\ KernelTyped' /\ table'[p] = t /\ call'[p] = c /\ status'[p] = "returned"
        /\ \A q \in Proc \ {p} :
             status'[q] = status[q] /\ call'[q] = call[q] /\ table'[q] = table[q]
        /\ Len(kind') >= Len(kind) /\ \A i \in DOMAIN kind : kind'[i] = kind[i]
    BY <1>1, <1>2, <1>5, KernelFrame
  <1>7. \A f \in Fd : IsOpen(p, f)' => SameObject(p, f) BY <1>6 DEF IsOpen, SameObject, Ends
  <1>8. \A ops : Effective(p, ops)' <=> ret # Failed /\ call[p].op \in ops
    BY <1>2, <1>6 DEF Effective, Succeeded, Does
  <1>9. QED BY <1>2, <1>3, <1>6, <1>7, <1>8 DEF Ends

LEMMA ClosesKeeps == ASSUME IInv, NEW p \in Proc, Closes(p) PROVE IInv'
  <1>1. status[p] = "called" /\ call[p].op = "close" BY DEF Closes
  <1>. PICK f \in Fd : f = call[p].fd BY <1>1, Called DEF Does, FdCalls
  <1>. DEFINE t == [table[p] EXCEPT ![f] = Closed]
  <1>2. /\ table[p] \in [Fd -> {Closed} \cup Opened]
        /\ t \in [Fd -> {Closed} \cup Opened]
        /\ table' = [table EXCEPT ![p] = t] /\ Returns(p, 1) /\ kind' = kind
        /\ UNCHANGED << early, edges, observations, content >>
        /\ \A g \in Fd : t[g] = IF g = f THEN Closed ELSE table[p][g]
    BY <1>1, Called DEF Closes, flow
  <1>. HIDE DEF t
  <1>3. \A g \in Fd : t[g] # Closed => \E h \in Fd : IsOpen(p, h) /\ table[p][h].obj = t[g].obj
    BY <1>2 DEF IsOpen
  <1>4. /\ KernelTyped' /\ UNCHANGED << tables, early, edges >>
        /\ table'[p] = t /\ status'[p] = "returned" /\ call'[p].ret = 1
        /\ \A q \in Proc \ {p} :
             status'[q] = status[q] /\ call'[q] = call[q] /\ table'[q] = table[q]
        /\ Len(kind') >= Len(kind) /\ \A o \in DOMAIN kind : kind'[o] = kind[o]
        /\ call'[p].op = call[p].op /\ call'[p].fd = call[p].fd /\ call'[p].flag = call[p].flag
        /\ call'[p].obs = call[p].obs /\ call'[p].to = call[p].to
        /\ \A g \in Fd : IsOpen(p, g)' => SameObject(p, g)
        /\ \A ops : Effective(p, ops)' <=> 1 # Failed /\ call[p].op \in ops
    <2>1. Ends(p, t, 1) BY <1>2, <1>3 DEF Ends
    <2>2. QED BY <1>1, <1>2, <2>1, KernelEnds
  <1>5. Effective(p, {"close"})' /\ ~Effective(p, Transfers)'
        /\ ~Effective(p, {"pipe", "open"} \cup Duplicating)' /\ ~Effective(p, {"pipe"})'
        /\ ~Effective(p, {"open"})' /\ ~Effective(p, Duplicating)' /\ ~Effective(p, {"F_SETFD"})'
    BY <1>1, <1>4 DEF Failed, Transfers, Duplicating
  <1>6. Stale(p, f)' BY <1>4, <1>5 DEF Stale
  <1>7. KernelMoves(p) BY <1>1, <1>2, <1>4, <1>6 DEF KernelMoves
  <1>8. Observes(p) BY <1>2, <1>5 DEF Observes
  <1>9. EffectOf(p)' BY <1>2, <1>4, <1>5 DEF EffectOf, IsOpen
  <1>10. ContentTyped' BY <1>2 DEF IInv, AnalyzerTyped, ContentTyped
  <1>11. QED BY <1>7, <1>8, <1>9, <1>10, KernelKeeps

LEMMA DuplicatesKeeps == ASSUME IInv, NEW p \in Proc, Duplicates(p) PROVE IInv'
  <1>1. /\ status[p] = "called" /\ IsOpen(p, call[p].fd) /\ kind' = kind
        /\ call[p].op \in Duplicating \cup {"F_SETFD"}
        /\ UNCHANGED << early, edges, observations, content >>
    BY DEF Duplicates, Installs, Duplicating, flow
  <1>2. /\ table[p] \in [Fd -> {Closed} \cup Opened] /\ call[p] \in Recorded
        /\ Does(p, {"dup2", "dup3"}) => call[p].to \in Fd
        /\ Does(p, {"dup", "dup2"}) => ~call[p].flag
    BY <1>1, Called
  <1>. PICK f \in Fd : f = call[p].fd BY <1>1, Called DEF Does, Duplicating, FdCalls
  <1>. DEFINE e == [table[p][f] EXCEPT !.cloexec = call[p].flag]
  <1>3. table[p][f] \in Opened BY <1>1, <1>2 DEF IsOpen
  <1>4. e \in Opened /\ e.obj = table[p][f].obj BY <1>2, <1>3 DEF Opened, Recorded
  <1>5. table[p][f] # Closed /\ e # Closed
    BY <1>1, <1>3, <1>4, WorkloadAssumption DEF Closed, Opened, Object
  <1>6. \E g \in Fd, d \in Opened, ret \in Nat \ {Failed} :
          /\ table' = [table EXCEPT ![p] = [table[p] EXCEPT ![g] = d]] /\ Returns(p, ret)
          /\ \/ /\ call[p].op \in Duplicating /\ ret = g + 1 /\ g # f /\ d = e
             \/ /\ call[p].op = "dup2" /\ ret = g + 1 /\ g = f /\ d = table[p][f]
             \/ /\ call[p].op = "F_SETFD" /\ g = f /\ d = e
    <2>1. CASE call[p].op \in {"dup", "F_DUPFD"}
      <3>1. Free(p) # {} /\ Installs(p, Min(Free(p)), e)
        BY <2>1 DEF Duplicates
      <3>2. PICK g \in Fd : g = Min(Free(p)) /\ ~IsOpen(p, g) /\ g \in Nat
        BY <3>1, FreeIsFree
      <3>3. g # f BY <1>1, <3>2
      <3>4. table' = [table EXCEPT ![p] = [table[p] EXCEPT ![g] = e]] /\ Returns(p, g + 1)
        BY <3>1, <3>2 DEF Installs
      <3>5. g + 1 \in Nat \ {Failed} BY <3>2 DEF Failed
      <3>6. QED BY <1>4, <2>1, <3>3, <3>4, <3>5 DEF Duplicating
    <2>2. CASE call[p].op \in {"dup2", "dup3"} /\ f # call[p].to
      <3>1. PICK g \in Fd : g = call[p].to BY <1>2, <2>2 DEF Does
      <3>2. Installs(p, g, e) BY <2>2, <3>1 DEF Duplicates
      <3>3. g + 1 \in Nat \ {Failed} BY DescriptorAssumption DEF Failed
      <3>4. QED BY <1>4, <2>2, <3>1, <3>2, <3>3 DEF Installs, Duplicating
    <2>3. CASE call[p].op = "dup2" /\ f = call[p].to
      <3>1. Installs(p, f, table[p][f]) BY <2>3 DEF Duplicates
      <3>2. f + 1 \in Nat \ {Failed} BY DescriptorAssumption DEF Failed
      <3>3. QED BY <1>3, <2>3, <3>1, <3>2 DEF Installs
    <2>4. CASE call[p].op = "F_SETFD"
      <3>1. table' = [table EXCEPT ![p][f].cloexec = call[p].flag] /\ Returns(p, 1)
        BY <2>4 DEF Duplicates
      <3>2. table' = [table EXCEPT ![p] = [table[p] EXCEPT ![f] = e]] BY <3>1
      <3>3. 1 \in Nat \ {Failed} BY DEF Failed
      <3>4. QED BY <1>4, <2>4, <3>1, <3>2, <3>3
    <2>5. QED BY <2>1, <2>2, <2>3, <2>4 DEF Duplicates
  <1>7. PICK g \in Fd, d \in Opened, ret \in Nat \ {Failed} :
          /\ table' = [table EXCEPT ![p] = [table[p] EXCEPT ![g] = d]] /\ Returns(p, ret)
          /\ \/ /\ call[p].op \in Duplicating /\ ret = g + 1 /\ g # f /\ d = e
             \/ /\ call[p].op = "dup2" /\ ret = g + 1 /\ g = f /\ d = table[p][f]
             \/ /\ call[p].op = "F_SETFD" /\ g = f /\ d = e
    BY <1>6
  <1>. DEFINE t == [table[p] EXCEPT ![g] = d]
  <1>8. t \in [Fd -> {Closed} \cup Opened]
        /\ \A h \in Fd : t[h] = IF h = g THEN d ELSE table[p][h]
    BY <1>2
  <1>. HIDE DEF t
  <1>9. table' = [table EXCEPT ![p] = t] BY <1>7 DEF t
  <1>10. d.obj = table[p][f].obj BY <1>4, <1>7
  <1>11. \A h \in Fd : t[h] # Closed => \E i \in Fd : IsOpen(p, i) /\ table[p][i].obj = t[h].obj
    BY <1>5, <1>8, <1>10 DEF IsOpen
  <1>12. /\ KernelTyped' /\ UNCHANGED << tables, early, edges >>
         /\ table'[p] = t /\ status'[p] = "returned" /\ call'[p].ret = ret
         /\ \A q \in Proc \ {p} :
              status'[q] = status[q] /\ call'[q] = call[q] /\ table'[q] = table[q]
         /\ Len(kind') >= Len(kind) /\ \A o \in DOMAIN kind : kind'[o] = kind[o]
         /\ call'[p].op = call[p].op /\ call'[p].fd = call[p].fd /\ call'[p].flag = call[p].flag
         /\ call'[p].obs = call[p].obs /\ call'[p].to = call[p].to
         /\ \A h \in Fd : IsOpen(p, h)' => SameObject(p, h)
         /\ \A ops : Effective(p, ops)' <=> ret # Failed /\ call[p].op \in ops
    <2>1. Ends(p, t, ret) BY <1>1, <1>7, <1>9, <1>11 DEF Ends
    <2>2. QED BY <1>1, <1>7, <1>8, <2>1, KernelEnds
  <1>13. ~Effective(p, Transfers)' /\ ~Effective(p, {"pipe"})' /\ ~Effective(p, {"open"})'
         /\ ~Effective(p, {"close"})'
         /\ (Effective(p, Duplicating)' <=> call[p].op \in Duplicating)
         /\ (Effective(p, {"F_SETFD"})' <=> call[p].op = "F_SETFD")
         /\ (Effective(p, {"pipe", "open"} \cup Duplicating)' <=> call[p].op \in Duplicating)
    BY <1>1, <1>7, <1>12 DEF Transfers, Duplicating
  <1>14. call[p].op \in Duplicating => Made(p)' = g
    <2>1. g \in Nat BY DescriptorAssumption
    <2>2. call[p].op \in Duplicating => ret = g + 1 BY <1>7 DEF Duplicating
    <2>3. QED BY <1>12, <2>1, <2>2 DEF Made, Of
  <1>15. \A h \in Fd : \/ table'[p][h] = table[p][h]
                       \/ Stale(p, h)'
                       \/ IsOpen(p, h) /\ Reflagged(p, h)'
                          /\ table'[p][h] = [table[p][h] EXCEPT !.cloexec = call[p].flag]
    <2>. SUFFICES ASSUME NEW h \in Fd, h = g, table'[p][h] # table[p][h]
                  PROVE  \/ Stale(p, h)'
                         \/ IsOpen(p, h) /\ Reflagged(p, h)'
                            /\ table'[p][h] = [table[p][h] EXCEPT !.cloexec = call[p].flag]
      BY <1>8, <1>12
    <2>1. CASE call[p].op \in Duplicating /\ g # f
      BY <1>12, <1>13, <1>14, <2>1 DEF Stale
    <2>2. CASE call[p].op = "F_SETFD" /\ g = f /\ d = e
      <3>1. Reflagged(p, h)' BY <1>12, <1>13, <2>2 DEF Reflagged
      <3>2. table'[p][h] = e BY <1>8, <1>12, <2>2
      <3>3. QED BY <1>1, <2>2, <3>1, <3>2
    <2>3. QED BY <1>7, <1>8, <1>12, <2>1, <2>2
  <1>16. KernelMoves(p) BY <1>1, <1>12, <1>15 DEF KernelMoves
  <1>17. Observes(p) BY <1>1, <1>13 DEF Observes
  <1>18. t[f] # Closed BY <1>5, <1>7, <1>8
  <1>19. ASSUME call[p].op \in Duplicating, g # f
         PROVE  t[g] = [t[f] EXCEPT !.cloexec = call[p].flag]
    BY <1>7, <1>8, <1>19
  <1>20. call[p].op = "F_SETFD" => t[f].cloexec = call[p].flag
    BY <1>3, <1>7, <1>8 DEF Opened, Duplicating
  <1>21. call[p].op \in Duplicating /\ g = f => call[p].op = "dup2" BY <1>7 DEF Duplicating
  <1>22. EffectOf(p)'
    BY <1>12, <1>13, <1>14, <1>18, <1>19, <1>20, <1>21 DEF EffectOf, IsOpen, Does
  <1>23. ContentTyped' BY <1>1 DEF IInv, AnalyzerTyped, ContentTyped
  <1>24. QED BY <1>16, <1>17, <1>22, <1>23, KernelKeeps

LEMMA TransferEnds ==
  ASSUME IInv, NEW p \in Proc, status[p] = "called", Does(p, Transfers),
         NEW ret \in Nat, Returns(p, ret), UNCHANGED << kind, table, early, edges >>
  PROVE  /\ KernelMoves(p) /\ EffectOf(p)' /\ (Effective(p, Transfers)' <=> ret # Failed)
  <1>1. table[p] \in [Fd -> {Closed} \cup Opened] /\ table = [table EXCEPT ![p] = table[p]]
    BY Called DEF KernelTyped
  <1>2. Ends(p, table[p], ret) BY <1>1 DEF Ends, IsOpen
  <1>3. /\ KernelTyped' /\ UNCHANGED << tables, early, edges >>
        /\ table'[p] = table[p] /\ status'[p] = "returned" /\ call'[p].ret = ret
        /\ \A q \in Proc \ {p} :
             status'[q] = status[q] /\ call'[q] = call[q] /\ table'[q] = table[q]
        /\ Len(kind') >= Len(kind) /\ \A o \in DOMAIN kind : kind'[o] = kind[o]
        /\ call'[p].op = call[p].op /\ call'[p].fd = call[p].fd /\ call'[p].flag = call[p].flag
        /\ call'[p].obs = call[p].obs /\ call'[p].to = call[p].to
        /\ \A f \in Fd : IsOpen(p, f)' => SameObject(p, f)
        /\ \A ops : Effective(p, ops)' <=> ret # Failed /\ call[p].op \in ops
    BY <1>1, <1>2, KernelEnds
  <1>4. KernelMoves(p) BY <1>3 DEF KernelMoves
  <1>5. ~Effective(p, {"pipe", "open"} \cup Duplicating)' /\ ~Effective(p, {"pipe"})'
        /\ ~Effective(p, {"open"})' /\ ~Effective(p, {"close"})'
        /\ ~Effective(p, Duplicating)' /\ ~Effective(p, {"F_SETFD"})'
        /\ (Effective(p, Transfers)' <=> ret # Failed)
    BY <1>3 DEF Does, Transfers, Duplicating
  <1>6. EffectOf(p)' BY <1>3, <1>5 DEF EffectOf
  <1>7. QED BY <1>4, <1>5, <1>6

LEMMA WritesKeeps == ASSUME IInv, NEW p \in Proc, Writes(p) PROVE IInv'
  <1>. DEFINE e == table[p][call[p].fd]
              w == call[p].obs
  <1>1. /\ status[p] = "called" /\ call[p].op = "write" /\ IsOpen(p, call[p].fd)
        /\ content' = IF Pipe(e.obj) THEN [content EXCEPT ![e.obj] = Append(@, w)] ELSE content
        /\ Uses(p, e.obj, observations[w].token, 0) /\ Returns(p, 1)
        /\ UNCHANGED << kind, table, early, edges >>
    BY DEF Writes
  <1>2. Does(p, Transfers) BY <1>1 DEF Does, Transfers
  <1>3. KernelMoves(p) /\ EffectOf(p)' /\ Effective(p, Transfers)'
    BY <1>1, <1>2, TransferEnds DEF Failed
  <1>4. w \in DOMAIN observations /\ observations \in Seq(Observed)
    BY <1>1, <1>2 DEF IInv, AnalyzerTyped, ObservationsInv, ObservationOf, Transferring
  <1>5. observations[w].token \in Tokens \cup {Plain}
    <2>1. observations[w] \in Observed BY <1>4
    <2>2. QED BY <2>1 DEF Observed
  <1>6. Observes(p) BY <1>1, <1>3, <1>5 DEF Observes
  <1>7. DOMAIN observations' = DOMAIN observations BY <1>3, <1>6, KernelObserved
  <1>8. content \in [Object -> Seq(Nat)]
        /\ \A o \in Object : \A k \in DOMAIN content[o] : content[o][k] \in DOMAIN observations
    BY DEF IInv, AnalyzerTyped, ContentTyped
  <1>9. w \in Nat BY <1>4
  <1>10. ContentTyped'
    <2>1. CASE ~Pipe(e.obj) BY <1>1, <1>7, <1>8, <2>1 DEF ContentTyped
    <2>2. CASE Pipe(e.obj)
      <3>1. PICK o \in Object : o = e.obj BY <1>1, Called DEF Does, FdCalls, Opened
      <3>2. content' = [content EXCEPT ![o] = Append(content[o], w)] BY <1>1, <2>2, <3>1
      <3>3. content' \in [Object -> Seq(Nat)] BY <1>8, <1>9, <3>2
      <3>4. ASSUME NEW i \in Object, NEW k \in DOMAIN content'[i]
            PROVE  content'[i][k] \in DOMAIN observations
        <4>1. CASE i # o BY <1>8, <3>2, <3>4, <4>1
        <4>2. CASE i = o
          <5>1. content'[i] = Append(content[i], w) /\ content[i] \in Seq(Nat)
            BY <1>8, <3>2, <4>2
          <5>2. (k \in DOMAIN content[i] /\ content'[i][k] = content[i][k]) \/ content'[i][k] = w
            BY <1>9, <3>4, <5>1
          <5>3. QED BY <1>4, <1>8, <5>2
        <4>3. QED BY <4>1, <4>2
      <3>5. QED BY <1>7, <3>3, <3>4 DEF ContentTyped
    <2>3. QED BY <2>1, <2>2
  <1>11. QED BY <1>3, <1>6, <1>10, KernelKeeps

LEMMA ReadsKeeps == ASSUME IInv, NEW p \in Proc, Reads(p) PROVE IInv'
  <1>. DEFINE e == table[p][call[p].fd]
  <1>1. /\ status[p] = "called" /\ call[p].op = "read" /\ IsOpen(p, call[p].fd)
        /\ UNCHANGED << kind, table, early, edges >>
    BY DEF Reads
  <1>2. Does(p, Transfers) BY <1>1 DEF Does, Transfers
  <1>3. observations \in Seq(Observed) /\ ContentTyped BY DEF IInv, AnalyzerTyped
  <1>4. CASE Returns(p, Failed) /\ UNCHANGED << content, observations >>
    <2>1. KernelMoves(p) /\ EffectOf(p)' /\ ~Effective(p, Transfers)'
      BY <1>1, <1>2, <1>4, TransferEnds DEF Failed
    <2>2. Observes(p) /\ ContentTyped' BY <1>3, <1>4, <2>1 DEF Observes, ContentTyped
    <2>3. QED BY <2>1, <2>2, KernelKeeps
  <1>5. CASE /\ content[e.obj] # << >> /\ Returns(p, 1)
             /\ Uses(p, e.obj, observations[Head(content[e.obj])].token, Head(content[e.obj]))
             /\ content' = [content EXCEPT ![e.obj] = Tail(@)]
    <2>. HIDE DEF e
    <2>0. Returns(p, 1) BY <1>5, Zenon
    <2>1. KernelMoves(p) /\ EffectOf(p)' /\ Effective(p, Transfers)'
      BY <1>1, <1>2, <2>0, TransferEnds DEF Failed
    <2>. USE DEF e
    <2>2. PICK o \in Object : o = e.obj
      BY <1>1, Called DEF Does, FdCalls, Opened
    <2>3. content \in [Object -> Seq(Nat)] /\ content[o] # << >>
          /\ content' = [content EXCEPT ![o] = Tail(content[o])]
          /\ \A i \in Object : \A k \in DOMAIN content[i] : content[i][k] \in DOMAIN observations
      BY <1>3, <1>5, <2>2 DEF ContentTyped
    <2>4. PICK s \in Seq(Nat) : s = content[o] /\ s # << >> BY <2>3
    <2>5. Head(s) = s[1] /\ 1 \in DOMAIN s /\ Head(s) \in Nat /\ Tail(s) \in Seq(Nat)
      BY <2>4
    <2>6. Head(s) \in DOMAIN observations BY <2>3, <2>4, <2>5
    <2>7. observations[Head(s)].token \in Tokens \cup {Plain}
      <3>1. observations[Head(s)] \in Observed BY <1>3, <2>6
      <3>2. QED BY <3>1 DEF Observed
    <2>8. Uses(p, e.obj, observations[Head(s)].token, Head(s)) BY <1>5, <2>2, <2>4
    <2>9. Observes(p) BY <1>1, <2>1, <2>5, <2>7, <2>8 DEF Observes
    <2>10. DOMAIN observations' = DOMAIN observations BY <2>1, <2>9, KernelObserved
    <2>11. content' \in [Object -> Seq(Nat)] BY <2>3, <2>4, <2>5
    <2>12. ASSUME NEW i \in Object, NEW k \in DOMAIN content'[i]
           PROVE  content'[i][k] \in DOMAIN observations
      <3>1. CASE i # o BY <2>3, <2>12, <3>1
      <3>2. CASE i = o
        <4>1. content'[i] = Tail(s) BY <2>3, <2>4, <3>2
        <4>2. k + 1 \in DOMAIN s /\ Tail(s)[k] = s[k + 1] BY <2>4, <2>12, <4>1
        <4>3. QED BY <2>3, <2>4, <4>1, <4>2
      <3>3. QED BY <3>1, <3>2
    <2>13. ContentTyped' BY <2>10, <2>11, <2>12 DEF ContentTyped
    <2>14. QED BY <2>1, <2>9, <2>13, KernelKeeps
  <1>6. QED BY <1>4, <1>5 DEF Reads

LEMMA ExecsKeeps == ASSUME IInv, NEW p \in Proc, Execs(p) PROVE IInv'
  <1>. DEFINE t == [f \in Fd |-> IF table[p][f].cloexec THEN Closed ELSE table[p][f]]
  <1>1. /\ status[p] = "called" /\ call[p].op = "execve"
        /\ table' = [table EXCEPT ![p] = t] /\ status' = [status EXCEPT ![p] = "execed"]
        /\ UNCHANGED << kind, content, early, call, left, tables, observations, edges >>
    BY DEF Execs, flow
  <1>2. /\ table[p] \in [Fd -> {Closed} \cup Opened] /\ call[p] \in Recorded /\ KernelTyped
        /\ \A f \in Fd : /\ Bound(p, f) => bindings[p][f].cloexec = table[p][f].cloexec
                         /\ IsOpen(p, f) /\ kind[table[p][f].obj] # "socket" => Bound(p, f)
                         /\ IsOpen(p, f) => table[p][f].obj \in 1 .. Len(kind)
    BY <1>1, Called
  <1>3. t \in [Fd -> {Closed} \cup Opened]
        /\ \A f \in Fd : t[f] = IF table[p][f].cloexec THEN Closed ELSE table[p][f]
    BY <1>2
  <1>. HIDE DEF t
  <1>4. call' = [call EXCEPT ![p] = call[p]] BY <1>1, <1>2 DEF KernelTyped
  <1>5. \A f \in Fd : t[f] # Closed => t[f].obj <= Len(kind') BY <1>1, <1>2, <1>3 DEF IsOpen
  <1>6. KernelChanges(p, t, call[p], "execed") BY <1>1, <1>4, <1>5 DEF KernelChanges
  <1>7. /\ KernelTyped' /\ table'[p] = t /\ call'[p] = call[p] /\ status'[p] = "execed"
        /\ \A q \in Proc \ {p} :
             status'[q] = status[q] /\ call'[q] = call[q] /\ table'[q] = table[q]
        /\ Len(kind') >= Len(kind) /\ \A i \in DOMAIN kind : kind'[i] = kind[i]
    BY <1>2, <1>3, <1>6, KernelFrame
  <1>8. \A ops : ~Effective(p, ops)' BY <1>7 DEF Effective
  <1>9. \A f \in Fd : IsOpen(p, f)' => SameObject(p, f)
    BY <1>3, <1>7 DEF IsOpen, SameObject
  <1>10. \A f \in Fd : \/ table'[p][f] = table[p][f]
                       \/ Stale(p, f)'
                       \/ ~Bound(p, f) /\ ~IsOpen(p, f)'
    <2>. SUFFICES ASSUME NEW f \in Fd, table'[p][f] # table[p][f], Bound(p, f)
                  PROVE  Stale(p, f)'
      BY <1>3, <1>7 DEF IsOpen
    <2>1. bindings'[p][f].cloexec BY <1>1, <1>2, <1>3, <1>7 DEF tables
    <2>2. QED BY <1>7, <2>1 DEF Stale
  <1>11. KernelMoves(p) BY <1>1, <1>7, <1>9, <1>10 DEF KernelMoves, Does
  <1>12. Observes(p) BY <1>1, <1>8 DEF Observes
  <1>13. \A f \in Fd : bindings[p][f].cloexec => ~IsOpen(p, f)'
    BY <1>2, <1>3, <1>7 DEF IsOpen, Bound, Unbound
  <1>14. EffectOf(p)' BY <1>1, <1>8, <1>13 DEF EffectOf, tables
  <1>15. ContentTyped' BY <1>1 DEF IInv, AnalyzerTyped, ContentTyped
  <1>16. QED BY <1>11, <1>12, <1>14, <1>15, KernelKeeps

LEMMA ForksKeeps == ASSUME IInv, NEW p \in Proc, Forks(p) PROVE IInv'
  <1>1. PICK c \in Proc :
          /\ status[c] = "none"
          /\ status' = [status EXCEPT ![p] = "forked", ![c] = "running"]
          /\ table' = [table EXCEPT ![c] = table[p]]
          /\ call' = [call EXCEPT ![p].child = c]
    BY DEF Forks
  <1>2. /\ status[p] = "called" /\ call[p].op = "fork" /\ c # p
        /\ UNCHANGED << kind, content, early, tables, observations, edges >>
    BY <1>1 DEF Forks, flow
  <1>3. UNCHANGED << bindings, snapshot, discovered, inherited, nextResource >>
    BY <1>2 DEF tables
  <1>4. /\ p \in discovered /\ call[p] \in Recorded /\ KernelTyped
        /\ table[p] \in [Fd -> {Closed} \cup Opened]
    BY <1>2, Called
  <1>5. KnownInv /\ ForksInv /\ AnalyzerTyped /\ AgreeInv /\ EffectInv /\ CallsInv
        /\ ObservationsInv /\ LinkedInv /\ EdgesInv
    BY DEF IInv
  <1>6. c # Root /\ c \notin discovered /\ c \notin inherited /\ Root \in Proc
    BY <1>1, <1>5, WorkloadAssumption DEF KnownInv
  <1>7. /\ status'[p] = "forked" /\ status'[c] = "running" /\ table'[c] = table[p]
        /\ table'[p] = table[p] /\ call'[c] = call[c]
        /\ call'[p].child = c /\ call'[p].op = "fork"
        /\ call'[p] = [call[p] EXCEPT !.child = c]
        /\ \A q \in Proc \ {p, c} :
             status'[q] = status[q] /\ call'[q] = call[q] /\ table'[q] = table[q]
    BY <1>1, <1>2, <1>4 DEF KernelTyped, Recorded
  <1>8. KernelTyped'
    <2>1. call'[p] \in Recorded BY <1>4, <1>7 DEF Recorded
    <2>2. call' \in [Proc -> Recorded] BY <1>1, <1>4, <2>1 DEF KernelTyped
    <2>3. table' \in [Proc -> [Fd -> {Closed} \cup Opened]]
          /\ status' \in [Proc -> {"none", "running", "called", "returned", "forked", "execed", "ended"}]
      BY <1>1, <1>4 DEF KernelTyped
    <2>4. \A q \in Proc, f \in Fd : IsOpen(q, f)' => table'[q][f].obj <= Len(kind)
      BY <1>4, <1>7 DEF KernelTyped, IsOpen
    <2>5. QED BY <1>2, <1>4, <2>2, <2>3, <2>4 DEF KernelTyped
  <1>9. AnalyzerTyped' BY <1>2, <1>3, <1>5 DEF AnalyzerTyped, ContentTyped
  <1>10. \A ops : ~Effective(p, ops)' /\ ~Effective(c, ops)' /\ ~Effective(p, ops)
    BY <1>2, <1>7 DEF Effective
  <1>11. \A q \in Proc \ {p, c} : \A ops : Effective(q, ops)' <=> Effective(q, ops)
    BY <1>7 DEF Effective, Succeeded, Does
  <1>12. CallsInv'
    <2>. SUFFICES ASSUME NEW q \in Proc PROVE CallOf(q)' BY DEF CallsInv
    <2>1. CallOf(q) BY <1>5 DEF CallsInv
    <2>2. CASE q = p BY <1>3, <1>4, <1>7, <2>2 DEF CallOf, Does, FdCalls
    <2>3. CASE q = c BY <1>1, <1>7, <2>1, <2>3 DEF CallOf
    <2>4. CASE q # p /\ q # c BY <1>3, <1>7, <2>1, <2>4 DEF CallOf, Does
    <2>5. QED BY <2>2, <2>3, <2>4
  <1>13. EffectInv'
    <2>. SUFFICES ASSUME NEW q \in Proc PROVE EffectOf(q)' BY DEF EffectInv
    <2>1. EffectOf(q) BY <1>5 DEF EffectInv
    <2>2. CASE q \in {p, c} BY <1>7, <1>10, <2>2 DEF EffectOf
    <2>3. CASE q \notin {p, c}
      <3>1. status'[q] = status[q] /\ call'[q] = call[q] /\ table'[q] = table[q]
        BY <1>7, <2>3
      <3>2. Made(q)' = Made(q) BY <3>1 DEF Made
      <3>3. Effective(q, {"pipe"}) => PipeMade(q)' /\ PipeAlone(q)'
        <4>. SUFFICES ASSUME Effective(q, {"pipe"}) PROVE PipeMade(q)' /\ PipeAlone(q)' OBVIOUS
        <4>1. PipeMade(q) /\ PipeAlone(q) BY <2>1 DEF EffectOf
        <4>2. PipeMade(q)' BY <1>2, <3>1, <3>2, <4>1 DEF PipeMade, IsOpen, Pipe
        <4>3. ASSUME NEW u \in Proc, NEW f \in Fd, table'[u][f].obj = table[q][Made(q)].obj
              PROVE  u = q /\ f \in {Made(q), call[q].to}
          <5>1. CASE u = c
            <6>1. table[p][f].obj = table[q][Made(q)].obj BY <1>7, <4>3, <5>1
            <6>2. p = q BY <4>1, <6>1 DEF PipeAlone
            <6>3. QED BY <2>3, <6>2
          <5>2. CASE u # c
            <6>1. table'[u][f] = table[u][f] BY <1>7, <5>2
            <6>2. QED BY <4>1, <4>3, <6>1 DEF PipeAlone
          <5>3. QED BY <5>1, <5>2
        <4>4. PipeAlone(q)' BY <3>1, <3>2, <4>3 DEF PipeAlone
        <4>5. QED BY <4>2, <4>4
      <3>4. \A ops : Effective(q, ops)' <=> Effective(q, ops) BY <1>11, <2>3
      <3>5. QED BY <1>2, <1>3, <2>1, <3>1, <3>2, <3>3, <3>4 DEF EffectOf, IsOpen, Does
    <2>4. QED BY <2>2, <2>3
  <1>14. \A q \in Proc : Tracked(q)' => Tracked(q) /\ q # c
    BY <1>2, <1>3, <1>6, <1>7 DEF Tracked, Known
  <1>15. \A q \in Proc, f \in Fd :
           Tracked(q)' => (Stale(q, f)' <=> Stale(q, f)) /\ (Reflagged(q, f)' <=> Reflagged(q, f))
    <2>. SUFFICES ASSUME NEW q \in Proc, NEW f \in Fd, q # c
                  PROVE  (Stale(q, f)' <=> Stale(q, f)) /\ (Reflagged(q, f)' <=> Reflagged(q, f))
      BY <1>14
    <2>1. CASE q = p BY <1>2, <1>7, <1>10, <2>1 DEF Stale, Reflagged
    <2>2. CASE q # p BY <1>3, <1>7, <1>11, <2>2 DEF Stale, Reflagged, Made
    <2>3. QED BY <2>1, <2>2
  <1>16. \A q \in Proc : q # c => table'[q] = table[q] BY <1>7
  <1>17. AgreeInv'
    <2>. SUFFICES ASSUME NEW q \in Proc, NEW f \in Fd, (Tracked(q) /\ ~Stale(q, f))'
                  PROVE  Agrees(q, f)'
      BY DEF AgreeInv
    <2>1. q # c /\ Agrees(q, f) /\ (Reflagged(q, f)' <=> Reflagged(q, f))
      BY <1>5, <1>14, <1>15 DEF AgreeInv
    <2>2. QED BY <1>2, <1>3, <1>16, <2>1 DEF Agrees, IsOpen, Bound
  <1>18. KnownInv'
    <2>1. \A q \in Proc : ~Tracked(q)' => \A f \in Fd : bindings'[q][f] = Unbound
      <3>. SUFFICES ASSUME NEW q \in Proc, ~Tracked(q)'
                    PROVE  \A f \in Fd : bindings[q][f] = Unbound
        BY <1>3
      <3>1. ~Tracked(q) BY <1>2, <1>3, <1>4, <1>6, <1>7 DEF Tracked, Known
      <3>2. QED BY <1>5, <3>1 DEF KnownInv
    <2>2. \A q \in discovered \cup inherited : q \in Proc BY <1>5 DEF AnalyzerTyped
    <2>3. \A q \in discovered \cup inherited : status'[q] # "none"
      BY <1>5, <1>7, <2>2 DEF KnownInv
    <2>4. \A q \in discovered : status'[q] # "ended" BY <1>5, <1>7, <2>2 DEF KnownInv
    <2>5. \A q \in Proc : status'[q] \in {"none", "ended"} => \A f \in Fd : ~IsOpen(q, f)'
      BY <1>5, <1>7 DEF KnownInv, IsOpen
    <2>6. Root \notin inherited /\ status'[Root] # "none" BY <1>5, <1>6, <1>7 DEF KnownInv
    <2>7. Root \in discovered \/ status'[Root] = "ended"
      BY <1>2, <1>4, <1>5, <1>6, <1>7 DEF KnownInv
    <2>8. QED BY <1>3, <2>1, <2>3, <2>4, <2>5, <2>6, <2>7 DEF KnownInv
  <1>19. ForksInv'
    <2>. SUFFICES ASSUME NEW q \in Proc, status'[q] = "forked" PROVE ForkOf(q)' BY DEF ForksInv
    <2>1. CASE q = p
      <3>1. \A u \in Proc : status'[u] = "forked" /\ call'[u].child = c => u = p
        <4>. SUFFICES ASSUME NEW u \in Proc, status'[u] = "forked", call'[u].child = c, u # p
                      PROVE  FALSE
          OBVIOUS
        <4>1. status[u] = "forked" /\ call[u].child = c BY <1>7
        <4>2. ForkOf(u) BY <1>5, <4>1 DEF ForksInv
        <4>3. QED BY <1>1, <4>1, <4>2 DEF ForkOf
      <3>2. QED BY <1>2, <1>3, <1>6, <1>7, <2>1, <3>1 DEF ForkOf
    <2>2. CASE q # p
      <3>1. q # c /\ status[q] = "forked" /\ call'[q] = call[q] /\ table'[q] = table[q]
        BY <1>7, <2>2
      <3>. DEFINE d == call[q].child
      <3>2. ForkOf(q) BY <1>5, <3>1 DEF ForksInv
      <3>3. d \in Proc \ {Root, q} /\ d \notin inherited /\ d # c
        BY <1>1, <3>2 DEF ForkOf
      <3>4. status'[d] # "none" BY <1>7, <3>2, <3>3 DEF ForkOf
      <3>5. d \notin discovered /\ status'[d] # "ended" => status'[d] = "running" /\ table'[d] = table'[q]
        BY <1>4, <1>7, <3>1, <3>2, <3>3 DEF ForkOf
      <3>6. \A u \in Proc : status'[u] = "forked" /\ call'[u].child = d => u = q
        BY <1>7, <3>2, <3>3 DEF ForkOf
      <3>7. QED BY <1>3, <3>1, <3>3, <3>4, <3>5, <3>6 DEF ForkOf
    <2>3. QED BY <2>1, <2>2
  <1>20. ASSUME NEW q \in Proc PROVE Transferring(q)' <=> Transferring(q)
    <2>1. CASE q \in {p, c} BY <1>1, <1>2, <1>7, <2>1 DEF Transferring, Does, Transfers
    <2>2. CASE q \notin {p, c}
      <3>1. status'[q] = status[q] /\ call'[q] = call[q] BY <1>7, <2>2
      <3>2. QED BY <3>1 DEF Transferring, Does
    <2>3. QED BY <2>1, <2>2
  <1>21. ObservationsInv'
    <2>1. ASSUME NEW q \in Proc, Transferring(q)' PROVE ObservationOf(q)'
      <3>1. q \notin {p, c} BY <1>7, <2>1 DEF Transferring
      <3>2. status'[q] = status[q] /\ call'[q] = call[q] /\ table'[q] = table[q]
            /\ (Effective(q, Transfers)' <=> Effective(q, Transfers))
        BY <1>7, <1>11, <3>1
      <3>3. ObservationOf(q) BY <1>5, <1>20, <2>1 DEF ObservationsInv
      <3>4. \A u \in Proc : Transferring(u)' /\ call'[u].obs = call[q].obs => u = q
        <4>. SUFFICES ASSUME NEW u \in Proc, Transferring(u)', call'[u].obs = call[q].obs
                      PROVE  u = q
          OBVIOUS
        <4>1. u \notin {p, c} BY <1>7 DEF Transferring
        <4>2. QED BY <1>7, <1>20, <3>3, <4>1 DEF ObservationOf
      <3>5. QED BY <1>2, <1>3, <3>2, <3>3, <3>4 DEF ObservationOf, IsOpen
    <2>2. QED BY <1>2, <1>5, <2>1 DEF ObservationsInv
  <1>22. LinkedInv' /\ EdgesInv' BY <1>2, <1>5 DEF LinkedInv, EdgesInv
  <1>23. NamesInv'
    <2>1. PICK object \in [Id -> Object], id \in [Proc -> [Object -> Nat]] : Named(object, id)
      BY DEF IInv, NamesInv
    <2>2. Id' = Id BY <1>3 DEF Id
    <2>3. \A q \in Proc : Family(q)' = Family(q) BY <1>2, <1>3 DEF Family, Early
    <2>4. \A q \in Proc, f \in Fd : Refers(q, f)' => Refers(q, f) /\ q # c
      BY <1>3, <1>14, <1>15 DEF Refers, Bound
    <2>5. Named(object, id)' BY <1>2, <1>3, <1>16, <2>1, <2>3, <2>4 DEF Named, Pipe
    <2>6. QED BY <2>1, <2>2, <2>5 DEF NamesInv
  <1>24. QED
    BY <1>8, <1>9, <1>12, <1>13, <1>17, <1>18, <1>19, <1>21, <1>22, <1>23 DEF IInv

LEMMA KernelStepKeeps == ASSUME IInv, KernelStep PROVE IInv'
  BY FailsKeeps, MakesPipeKeeps, OpensKeeps, ClosesKeeps, DuplicatesKeeps, WritesKeeps, ReadsKeeps,
     ForksKeeps, ExecsKeeps DEF KernelStep

-----------------------------------------------------------------------------
(* The steps of the analyzer for one process, but for the announcement of  *)
(* a child: of the other processes they touch at most what they share.     *)
LoopMoves(p) ==
  /\ kind' = kind /\ inherited' = inherited /\ early' = early
  /\ discovered \subseteq discovered' \cup {p} /\ discovered' \subseteq discovered \cup {p}
  /\ \A q \in Proc \ {p} : /\ status'[q] = status[q] /\ call'[q] = call[q]
                           /\ table'[q] = table[q] /\ bindings'[q] = bindings[q]
  /\ status[p] \in {"running", "returned", "execed"}
  /\ status'[p] \in {"called", "running", "returned", "ended"}
  /\ \/ p \in discovered' /\ status'[p] # "ended" /\ table'[p] = table[p]
     \/ /\ p \notin discovered' /\ status'[p] = "ended"
        /\ \A f \in Fd : bindings'[p][f] = Unbound /\ table'[p][f] = Closed
  /\ CallOf(p)' /\ EffectOf(p)'
  /\ \A f \in Fd : (Tracked(p) /\ ~Stale(p, f))' => Agrees(p, f)'

ObservationsKept(p) ==
  /\ \A i \in DOMAIN observations :
       /\ i \in DOMAIN observations'
       /\ observations'[i] = observations[i] \/ (Transferring(p) /\ i = call[p].obs)
  /\ Transferring(p)' => ObservationOf(p)'
  /\ \A i \in DOMAIN observations' : observations'[i].done => observations'[i].obj # 0

LEMMA LoopOthers ==
  ASSUME IInv, NEW p \in Proc, LoopMoves(p), NEW q \in Proc, q # p
  PROVE  /\ status'[q] = status[q] /\ call'[q] = call[q]
         /\ table'[q] = table[q] /\ bindings'[q] = bindings[q]
         /\ q \in discovered' <=> q \in discovered
         /\ Tracked(q)' <=> Tracked(q)
         /\ \A ops : Effective(q, ops)' <=> Effective(q, ops)
         /\ \A f \in Fd : /\ Stale(q, f)' <=> Stale(q, f)
                          /\ Reflagged(q, f)' <=> Reflagged(q, f)
                          /\ IsOpen(q, f)' <=> IsOpen(q, f)
                          /\ Bound(q, f)' <=> Bound(q, f)
                          /\ Refers(q, f)' <=> Refers(q, f)
         /\ Made(q)' = Made(q)
         /\ Transferring(q)' <=> Transferring(q)
  <1>1. status'[q] = status[q] /\ call'[q] = call[q] /\ table'[q] = table[q]
        /\ bindings'[q] = bindings[q] /\ inherited' = inherited
    BY DEF LoopMoves
  <1>2. q \in discovered' <=> q \in discovered BY DEF LoopMoves
  <1>3. \A ops : Effective(q, ops)' <=> Effective(q, ops)
    BY <1>1 DEF Effective, Succeeded, Does
  <1>4. Tracked(q)' <=> Tracked(q) BY <1>1, <1>2 DEF Tracked, Known
  <1>5. Made(q)' = Made(q) BY <1>1 DEF Made
  <1>6. \A f \in Fd : /\ Stale(q, f)' <=> Stale(q, f)
                      /\ Reflagged(q, f)' <=> Reflagged(q, f)
                      /\ IsOpen(q, f)' <=> IsOpen(q, f)
                      /\ Bound(q, f)' <=> Bound(q, f)
    BY <1>1, <1>3, <1>5 DEF Stale, Reflagged, IsOpen, Bound
  <1>7. \A f \in Fd : Refers(q, f)' <=> Refers(q, f) BY <1>4, <1>6 DEF Refers
  <1>8. Transferring(q)' <=> Transferring(q) BY <1>1 DEF Transferring, Does
  <1>9. QED BY <1>1, <1>2, <1>3, <1>4, <1>5, <1>6, <1>7, <1>8

LEMMA LoopEffects ==
  ASSUME IInv, NEW p \in Proc, LoopMoves(p) PROVE CallsInv' /\ EffectInv' /\ AgreeInv'
  <1>1. CallsInv'
    <2>. SUFFICES ASSUME NEW q \in Proc, q # p PROVE CallOf(q)' BY DEF CallsInv, LoopMoves
    <2>1. status'[q] = status[q] /\ call'[q] = call[q] /\ (q \in discovered' <=> q \in discovered)
      BY LoopOthers
    <2>2. CallOf(q) BY DEF IInv, CallsInv
    <2>3. QED BY <2>1, <2>2 DEF CallOf, Does
  <1>2. EffectInv'
    <2>. SUFFICES ASSUME NEW q \in Proc, q # p PROVE EffectOf(q)' BY DEF EffectInv, LoopMoves
    <2>1. /\ status'[q] = status[q] /\ call'[q] = call[q] /\ kind' = kind
          /\ table'[q] = table[q] /\ bindings'[q] = bindings[q]
          /\ \A ops : Effective(q, ops)' <=> Effective(q, ops)
          /\ Made(q)' = Made(q)
      BY LoopOthers DEF LoopMoves
    <2>2. EffectOf(q) BY DEF IInv, EffectInv
    <2>3. Effective(q, {"pipe"}) => PipeMade(q)' /\ PipeAlone(q)'
      <3>. SUFFICES ASSUME Effective(q, {"pipe"}) PROVE PipeMade(q)' /\ PipeAlone(q)' OBVIOUS
      <3>1. PipeMade(q) /\ PipeAlone(q) BY <2>2 DEF EffectOf
      <3>2. PipeMade(q)' BY <2>1, <3>1 DEF PipeMade, IsOpen, Pipe
      <3>3. Made(q) \in Fd /\ IsOpen(q, Made(q))
        BY <2>2, <3>1 DEF EffectOf, Effective, Does, PipeMade
      <3>4. table[q][Made(q)].obj # 0
        BY <3>3, WorkloadAssumption DEF IInv, KernelTyped, IsOpen, Opened, Object
      <3>5. ASSUME NEW u \in Proc, NEW f \in Fd, table'[u][f].obj = table[q][Made(q)].obj
            PROVE  u = q /\ f \in {Made(q), call[q].to}
        <4>1. table'[u][f] = table[u][f] BY <3>4, <3>5 DEF LoopMoves, Closed
        <4>2. QED BY <3>1, <3>5, <4>1 DEF PipeAlone
      <3>6. PipeAlone(q)' BY <2>1, <3>5 DEF PipeAlone
      <3>7. QED BY <3>2, <3>6
    <2>4. QED BY <2>1, <2>2, <2>3 DEF EffectOf, IsOpen, Does
  <1>3. AgreeInv'
    <2>. SUFFICES ASSUME NEW q \in Proc, q # p, NEW f \in Fd, (Tracked(q) /\ ~Stale(q, f))'
                  PROVE  Agrees(q, f)'
      BY DEF AgreeInv, LoopMoves
    <2>1. /\ table'[q] = table[q] /\ bindings'[q] = bindings[q] /\ kind' = kind
          /\ Reflagged(q, f)' <=> Reflagged(q, f)
          /\ Tracked(q) /\ ~Stale(q, f)
      BY LoopOthers DEF LoopMoves
    <2>2. Agrees(q, f) BY <2>1 DEF IInv, AgreeInv
    <2>3. QED BY <2>1, <2>2 DEF Agrees, IsOpen, Bound
  <1>4. QED BY <1>1, <1>2, <1>3

LEMMA LoopKnown ==
  ASSUME IInv, NEW p \in Proc, LoopMoves(p), discovered' \subseteq Proc PROVE KnownInv' /\ ForksInv'
  <1>1. KnownInv /\ ForksInv /\ Root \in Proc /\ inherited \subseteq Proc
    BY WorkloadAssumption DEF IInv, AnalyzerTyped
  <1>2. inherited' = inherited /\ status[p] \notin {"none", "forked"}
        /\ status'[p] \notin {"none", "forked"}
        /\ (p \in discovered' <=> status'[p] # "ended")
    BY DEF LoopMoves
  <1>3. \A q \in Proc : ~Tracked(q)' => \A f \in Fd : bindings'[q][f] = Unbound
    <2>. SUFFICES ASSUME NEW q \in Proc, ~Tracked(q)' PROVE \A f \in Fd : bindings'[q][f] = Unbound
      OBVIOUS
    <2>1. CASE q = p BY <1>2, <2>1 DEF Tracked, Known, LoopMoves
    <2>2. CASE q # p
      <3>1. ~Tracked(q) /\ bindings'[q] = bindings[q] BY <2>2, LoopOthers
      <3>2. QED BY <1>1, <3>1 DEF KnownInv
    <2>3. QED BY <2>1, <2>2
  <1>4. \A q \in Proc \ {p} : status'[q] = status[q] /\ call'[q] = call[q] /\ table'[q] = table[q]
                              /\ (q \in discovered' <=> q \in discovered)
    BY LoopOthers
  <1>5. \A q \in discovered' \cup inherited : status'[q] # "none" BY <1>1, <1>2, <1>4 DEF KnownInv
  <1>6. \A q \in discovered' : status'[q] # "ended" BY <1>1, <1>2, <1>4 DEF KnownInv
  <1>7. \A q \in Proc : status'[q] \in {"none", "ended"} => \A f \in Fd : ~IsOpen(q, f)'
    BY <1>1, <1>2, <1>4 DEF KnownInv, LoopMoves, IsOpen
  <1>8. Root \notin inherited /\ status'[Root] # "none" BY <1>1, <1>2, <1>4 DEF KnownInv
  <1>9. Root \in discovered' \/ status'[Root] = "ended" \/ \A q \in Proc \ {Root} : status'[q] = "none"
    BY <1>1, <1>2, <1>4 DEF KnownInv
  <1>10. KnownInv' BY <1>2, <1>3, <1>5, <1>6, <1>7, <1>8, <1>9 DEF KnownInv
  <1>11. ForksInv'
    <2>. SUFFICES ASSUME NEW q \in Proc, status'[q] = "forked" PROVE ForkOf(q)' BY DEF ForksInv
    <2>1. q # p /\ status[q] = "forked" /\ call'[q] = call[q] /\ table'[q] = table[q]
      BY <1>2, <1>4
    <2>. DEFINE d == call[q].child
    <2>2. ForkOf(q) BY <1>1, <2>1 DEF ForksInv
    <2>3. d \in Proc \ {Root, q} /\ d \notin inherited /\ status'[d] # "none"
      BY <1>2, <1>4, <2>2 DEF ForkOf
    <2>4. d \notin discovered' /\ status'[d] # "ended" => status'[d] = "running" /\ table'[d] = table'[q]
      BY <1>2, <1>4, <2>1, <2>2, <2>3 DEF ForkOf
    <2>5. \A u \in Proc : status'[u] = "forked" /\ call'[u].child = d => u = q
      BY <1>2, <1>4, <2>2 DEF ForkOf
    <2>6. QED BY <1>2, <2>1, <2>3, <2>4, <2>5 DEF ForkOf
  <1>12. QED BY <1>10, <1>11

LEMMA LoopObservations ==
  ASSUME IInv, NEW p \in Proc, LoopMoves(p), ObservationsKept(p) PROVE ObservationsInv'
  <1>1. ASSUME NEW q \in Proc, q # p, Transferring(q)' PROVE ObservationOf(q)'
    <2>1. /\ status'[q] = status[q] /\ call'[q] = call[q] /\ Transferring(q)
          /\ table'[q] = table[q] /\ bindings'[q] = bindings[q]
          /\ \A ops : Effective(q, ops)' <=> Effective(q, ops)
      BY <1>1, LoopOthers
    <2>2. ObservationOf(q) BY <2>1 DEF IInv, ObservationsInv
    <2>. DEFINE i == call[q].obs
    <2>3. i \in DOMAIN observations /\ \A u \in Proc : Transferring(u) /\ call[u].obs = i => u = q
      BY <2>2 DEF ObservationOf
    <2>4. i \in DOMAIN observations' /\ observations'[i] = observations[i]
      BY <1>1, <2>3 DEF ObservationsKept
    <2>5. \A u \in Proc : Transferring(u)' /\ call'[u].obs = i => u = q
      <3>. SUFFICES ASSUME NEW u \in Proc, Transferring(u)', call'[u].obs = i PROVE u = q
        OBVIOUS
      <3>1. CASE u = p
        <4>1. ObservationOf(p)' BY <3>1 DEF ObservationsKept
        <4>2. call'[p].obs = i /\ Transferring(q)' BY <1>1, <3>1
        <4>3. call'[q].obs = call'[p].obs BY <2>1, <4>2
        <4>4. q = p BY <1>1, <4>1, <4>3 DEF ObservationOf
        <4>5. QED BY <3>1, <4>4
      <3>2. CASE u # p
        <4>1. Transferring(u) /\ call[u].obs = i BY <3>2, LoopOthers
        <4>2. QED BY <2>3, <4>1
      <3>3. QED BY <3>1, <3>2
    <2>6. QED BY <2>1, <2>2, <2>4, <2>5 DEF ObservationOf, IsOpen
  <1>2. QED BY <1>1 DEF ObservationsInv, ObservationsKept

(* A step after which the ends of no other calls are known.                *)
LEMMA LoopLinks ==
  ASSUME IInv, edges' = edges,
         \A i \in DOMAIN observations :
           i \in DOMAIN observations' /\ observations'[i] = observations[i],
         \A i \in DOMAIN observations' : observations'[i].done => i \in DOMAIN observations
  PROVE  LinkedInv' /\ EdgesInv'
  <1>1. LinkedInv'
    <2>. SUFFICES ASSUME NEW w \in DOMAIN observations', NEW r \in DOMAIN observations',
                         MaySupply(observations', w, r)
                  PROVE  \E v \in DOMAIN observations' : << v, r >> \in edges
      BY DEF LinkedInv
    <2>1. w \in DOMAIN observations /\ r \in DOMAIN observations BY DEF MaySupply, IsPipeEnd
    <2>2. MaySupply(observations, w, r) BY <2>1 DEF MaySupply
    <2>3. QED BY <2>1, <2>2 DEF IInv, LinkedInv
  <1>2. EdgesInv'
    <2>1. \A e \in edges : e[1] \in DOMAIN observations /\ e[2] \in DOMAIN observations
      BY DEF IInv, AnalyzerTyped
    <2>2. QED BY <2>1 DEF IInv, EdgesInv
  <1>3. QED BY <1>1, <1>2

LEMMA LoopKeeps ==
  ASSUME IInv, NEW p \in Proc, KernelTyped', AnalyzerTyped', LoopMoves(p), ObservationsKept(p),
         LinkedInv', EdgesInv', NamesInv'
  PROVE  IInv'
  <1>1. discovered' \subseteq Proc BY DEF AnalyzerTyped
  <1>2. QED BY <1>1, LoopEffects, LoopKnown, LoopObservations DEF IInv

-----------------------------------------------------------------------------
(* Discovery: the ids given to the descriptors of a process that has not   *)
(* been met, one for each pipe among them and one for each of the others.  *)
Rank(p, g) == Cardinality({x \in Fresh(p) : x < g})
Same(p, f, g) == g = f \/ SamePipe(p, f, g)

LEMMA FreshIsFinite ==
  ASSUME NEW p \in Proc
  PROVE  /\ IsFiniteSet(Fresh(p)) /\ Fresh(p) \subseteq Missing(p) /\ Missing(p) \subseteq Fd
         /\ Cardinality(Fresh(p)) \in Nat
         /\ \A g \in Fresh(p) : Rank(p, g) \in Nat /\ Rank(p, g) < Cardinality(Fresh(p))
         /\ \A g, h \in Fresh(p) : Rank(p, g) = Rank(p, h) => g = h
  <1>1. Fresh(p) \subseteq Missing(p) /\ Missing(p) \subseteq Fd BY DEF Fresh, Missing
  <1>2. IsFiniteSet(Fresh(p)) BY <1>1, DescriptorAssumption, FS_Subset
  <1>3. Cardinality(Fresh(p)) \in Nat BY <1>2, FS_CardinalityType
  <1>4. \A g \in Fresh(p) : IsFiniteSet({x \in Fresh(p) : x < g}) BY <1>2, FS_Subset
  <1>5. ASSUME NEW g \in Fresh(p) PROVE Rank(p, g) \in Nat /\ Rank(p, g) < Cardinality(Fresh(p))
    <2>1. g \in Nat BY <1>1, DescriptorAssumption
    <2>2. {x \in Fresh(p) : x < g} \subseteq Fresh(p) /\ {x \in Fresh(p) : x < g} # Fresh(p)
      BY <2>1
    <2>3. QED BY <1>2, <1>4, <2>2, FS_Subset, FS_CardinalityType DEF Rank
  <1>6. ASSUME NEW g \in Fresh(p), NEW h \in Fresh(p), g < h PROVE Rank(p, g) < Rank(p, h)
    <2>1. \A x \in Fresh(p) : x \in Nat BY <1>1, DescriptorAssumption
    <2>2. {x \in Fresh(p) : x < g} \subseteq {x \in Fresh(p) : x < h} BY <1>6, <2>1
    <2>3. g \in {x \in Fresh(p) : x < h} /\ g \notin {x \in Fresh(p) : x < g} BY <1>6, <2>1
    <2>4. {x \in Fresh(p) : x < g} # {x \in Fresh(p) : x < h} BY <2>3, Zenon
    <2>5. ASSUME NEW S, NEW T, IsFiniteSet(S), T \subseteq S, T # S
          PROVE  Cardinality(T) < Cardinality(S)
      BY <2>5, FS_Subset, FS_CardinalityType
    <2>6. QED BY <1>4, <2>2, <2>4, <2>5 DEF Rank
  <1>7. ASSUME NEW g \in Fresh(p), NEW h \in Fresh(p), Rank(p, g) = Rank(p, h) PROVE g = h
    <2>1. g \in Nat /\ h \in Nat BY <1>1, DescriptorAssumption
    <2>2. Rank(p, g) \in Nat BY <1>5
    <2>3. ~(g < h) /\ ~(h < g) BY <1>6, <1>7, <2>2
    <2>4. QED BY <2>1, <2>3
  <1>8. QED BY <1>1, <1>2, <1>3, <1>5, <1>7

(* A process that is met for the first time has none of the pipes that are *)
(* found: either it has no bindings, or only sockets are missing.          *)
LEMMA NoneKnown ==
  ASSUME IInv, NEW p \in Proc, status[p] = "running", p \notin discovered, NEW f \in Missing(p)
  PROVE  /\ KnownPipe(p, f) = {}
         /\ table[p][f] \in Opened /\ table[p][f].obj \in 1 .. Len(kind) /\ Len(kind) \in Nat
         /\ kind[table[p][f].obj] \in Kinds
         /\ p \in inherited => kind[table[p][f].obj] = "socket"
         /\ p \notin inherited => \A g \in Fd : bindings[p][g] = Unbound
  <1>1. f \in Fd /\ IsOpen(p, f) /\ ~Bound(p, f) BY DEF Missing
  <1>2. /\ KernelTyped /\ AnalyzerTyped /\ table[p][f] \in Opened /\ Len(kind) \in Nat
        /\ table[p][f].obj \in 1 .. Len(kind)
    BY <1>1 DEF IInv, KernelTyped, IsOpen, Opened, Object
  <1>3. kind[table[p][f].obj] \in Kinds BY <1>2 DEF KernelTyped
  <1>4. CASE p \notin inherited
    <2>1. ~Tracked(p) BY <1>4 DEF Tracked, Known
    <2>2. \A g \in Fd : bindings[p][g] = Unbound BY <2>1 DEF IInv, KnownInv
    <2>3. KnownPipe(p, f) = {} BY <2>2 DEF KnownPipe, Unbound
    <2>4. QED BY <1>2, <1>3, <1>4, <2>2, <2>3
  <1>5. CASE p \in inherited
    <2>1. Tracked(p) BY <1>5 DEF Tracked, Known
    <2>2. \A g \in Fd : ~Stale(p, g) BY DEF Stale, Effective
    <2>3. \A g \in Fd : Agrees(p, g) BY <2>1, <2>2 DEF IInv, AgreeInv
    <2>4. kind[table[p][f].obj] = "socket" BY <1>1, <2>3 DEF Agrees
    <2>5. PICK object \in [Id -> Object], id \in [Proc -> [Object -> Nat]] : Named(object, id)
      BY DEF IInv, NamesInv
    <2>6. ASSUME NEW g \in KnownPipe(p, f) PROVE FALSE
      <3>1. g \in Fd /\ bindings[p][g].type = "pipe" /\ bindings[p][g].key = table[p][f].obj
        BY DEF KnownPipe
      <3>2. Bound(p, g) BY <3>1 DEF Bound, Unbound
      <3>3. Refers(p, g) BY <2>1, <2>2, <3>1, <3>2 DEF Refers
      <3>4. object[bindings[p][g].res] = table[p][g].obj BY <2>5, <3>1, <3>3 DEF Named
      <3>5. table[p][f].obj # 0 BY <1>2
      <3>6. object[bindings[p][g].res] = table[p][f].obj
        BY <2>5, <3>1, <3>5 DEF Named, NoKey
      <3>7. kind[table[p][g].obj] = "pipe" BY <2>3, <3>1, <3>2 DEF Agrees
      <3>8. QED BY <2>4, <3>4, <3>6, <3>7
    <2>7. QED BY <1>2, <1>3, <1>5, <2>4, <2>6
  <1>6. QED BY <1>4, <1>5

(* Of the missing descriptors of one pipe the least is given the fresh id. *)
LEMMA FirstOfPipe ==
  ASSUME IInv, NEW p \in Proc, status[p] = "running", p \notin discovered, NEW f \in Missing(p)
  PROVE  \E first \in Fresh(p) :
           /\ DiscoveredId(p, f) = nextResource + Rank(p, first)
           /\ table[p][first].obj = table[p][f].obj
           /\ \A g \in Missing(p) : SamePipe(p, f, g) =>
                DiscoveredId(p, g) = nextResource + Rank(p, first)
  <1>. DEFINE S == {g \in Missing(p) : Same(p, f, g)}
  <1>1. Missing(p) \subseteq Nat BY DescriptorAssumption DEF Missing
  <1>2. \A g \in Missing(p) : KnownPipe(p, g) = {} BY NoneKnown
  <1>3. f \in S BY DEF Same
  <1>4. PICK first \in S : \A g \in S : first <= g
    <2>1. S \subseteq Nat BY <1>1
    <2>2. Min(S) \in S /\ \A g \in S : Min(S) <= g BY <1>3, <2>1, MinIsLeast
    <2>3. QED BY <2>2
  <1>5. table[p][first].obj = table[p][f].obj BY <1>4 DEF Same, SamePipe
  <1>6. ASSUME NEW g \in Missing(p), SamePipe(p, first, g) PROVE first <= g
    <2>1. g \in S BY <1>4, <1>5, <1>6 DEF Same, SamePipe
    <2>2. QED BY <1>4, <2>1
  <1>7. first \in Fresh(p) BY <1>2, <1>4, <1>6 DEF Fresh
  <1>8. ASSUME NEW g \in Missing(p), Same(p, f, g), NEW h \in Fresh(p), Same(p, g, h)
        PROVE  h = first
    <2>1. h \in Missing(p) /\ first \in Missing(p) BY <1>4 DEF Fresh
    <2>2. CASE h = f /\ first = f BY <2>2
    <2>3. CASE h # first /\ ~(h = f /\ first = f)
      <3>1. SamePipe(p, h, first) /\ SamePipe(p, first, h)
        BY <1>4, <1>8, <2>3 DEF Same, SamePipe
      <3>2. h <= first /\ first <= h BY <1>7, <2>1, <3>1 DEF Fresh
      <3>3. QED BY <1>1, <2>1, <3>2
    <2>4. QED BY <2>2, <2>3
  <1>9. ASSUME NEW g \in Missing(p), Same(p, f, g)
        PROVE  DiscoveredId(p, g) = nextResource + Rank(p, first)
    <2>1. Same(p, g, first) BY <1>4, <1>9 DEF Same, SamePipe
    <2>2. (CHOOSE h \in Fresh(p) : h = g \/ SamePipe(p, g, h)) = first
      BY <1>7, <1>8, <1>9, <2>1 DEF Same
    <2>3. QED BY <1>2, <2>2 DEF DiscoveredId, Rank
  <1>10. QED BY <1>5, <1>7, <1>9 DEF Same

(* The family of a process once it has been met, and the next id then.     *)
MetFamily(p) == IF p \in early \/ p \notin inherited \cup {Root} THEN p ELSE Root
MetNext(p)   == IF p \in discovered THEN nextResource
                ELSE nextResource + Cardinality(Fresh(p))

LEMMA NextGrows ==
  ASSUME IInv, NEW p \in Proc
  PROVE  MetNext(p) \in Nat \ {0} /\ nextResource <= MetNext(p) /\ Id \subseteq 1 .. MetNext(p) - 1
  <1>1. nextResource \in Nat \ {0} BY DEF IInv, AnalyzerTyped
  <1>2. Cardinality(Fresh(p)) \in Nat BY FreshIsFinite
  <1>3. QED BY <1>1, <1>2 DEF MetNext, Id

DiscoveryNames(p, object, id, newObject, newId) ==
  /\ \A i \in Id : newObject[i] = object[i]
  /\ \A f \in Missing(p) :
       /\ DiscoveredId(p, f) \in Nat \ {0} /\ DiscoveredId(p, f) < MetNext(p)
       /\ newObject[DiscoveredId(p, f)] = table[p][f].obj
       /\ Pipe(table[p][f].obj) =>
            DiscoveredId(p, f) = newId[MetFamily(p)][table[p][f].obj]
  /\ \A q \in Proc : q # MetFamily(p) => newId[q] = id[q]
  /\ p \in inherited => newId = id

LEMMA Discovers ==
  ASSUME IInv, NEW p \in Proc, status[p] = "running", p \notin discovered,
         NEW object \in [Id -> Object], NEW id \in [Proc -> [Object -> Nat]]
  PROVE  \E newObject \in [1 .. MetNext(p) - 1 -> Object], newId \in [Proc -> [Object -> Nat]] :
           DiscoveryNames(p, object, id, newObject, newId)
  <1>. DEFINE n == nextResource
              has(i) == {g \in Fresh(p) : n + Rank(p, g) = i}
              newObject == [i \in 1 .. MetNext(p) - 1 |->
                             IF i \in Id THEN object[i]
                             ELSE IF has(i) = {} THEN 1
                             ELSE table[p][CHOOSE g \in has(i) : TRUE].obj]
              pipes(o) == {f \in Missing(p) : table[p][f].obj = o /\ Pipe(o)}
              newId == [q \in Proc |->
                         IF q # MetFamily(p) THEN id[q]
                         ELSE [o \in Object |->
                                IF pipes(o) = {} THEN id[q][o]
                                ELSE DiscoveredId(p, CHOOSE f \in pipes(o) : TRUE)]]
  <1>1. n \in Nat \ {0} /\ Id = 1 .. n - 1 /\ MetNext(p) = n + Cardinality(Fresh(p))
    BY DEF IInv, AnalyzerTyped, Id, MetNext
  <1>2. \A f \in Missing(p) : table[p][f].obj \in Object
    BY NoneKnown DEF Opened
  <1>3. /\ Cardinality(Fresh(p)) \in Nat /\ Fresh(p) \subseteq Missing(p)
        /\ \A g \in Fresh(p) : Rank(p, g) \in Nat /\ Rank(p, g) < Cardinality(Fresh(p))
        /\ \A g, h \in Fresh(p) : Rank(p, g) = Rank(p, h) => g = h
    BY FreshIsFinite
  <1>4. \A f \in Missing(p) : \E first \in Fresh(p) :
           /\ DiscoveredId(p, f) = n + Rank(p, first)
           /\ table[p][first].obj = table[p][f].obj
           /\ \A g \in Missing(p) : SamePipe(p, f, g) => DiscoveredId(p, g) = n + Rank(p, first)
    BY FirstOfPipe
  <1>5. newObject \in [1 .. MetNext(p) - 1 -> Object]
    <2>. SUFFICES ASSUME NEW i \in 1 .. MetNext(p) - 1, i \notin Id, has(i) # {}
                  PROVE  table[p][CHOOSE g \in has(i) : TRUE].obj \in Object
      BY WorkloadAssumption DEF Object
    <2>1. (CHOOSE g \in has(i) : TRUE) \in has(i) OBVIOUS
    <2>2. QED BY <1>2, <1>3, <2>1
  <1>6. \A i \in Id : newObject[i] = object[i] BY <1>1, <1>3
  <1>7. ASSUME NEW f \in Missing(p)
        PROVE  /\ DiscoveredId(p, f) \in Nat \ {0} /\ DiscoveredId(p, f) < MetNext(p)
               /\ newObject[DiscoveredId(p, f)] = table[p][f].obj
    <2>1. PICK first \in Fresh(p) : DiscoveredId(p, f) = n + Rank(p, first)
                                    /\ table[p][first].obj = table[p][f].obj
      BY <1>4
    <2>2. PICK i \in 1 .. MetNext(p) - 1 : i = DiscoveredId(p, f) /\ i >= n
      BY <1>1, <1>3, <2>1
    <2>3. has(i) = {first} BY <1>1, <1>3, <2>1, <2>2
    <2>4. newObject[i] = table[p][first].obj BY <1>1, <2>2, <2>3
    <2>5. QED BY <1>1, <1>3, <2>1, <2>2, <2>4
  <1>8. newId \in [Proc -> [Object -> Nat]]
    <2>. SUFFICES ASSUME NEW o \in Object, pipes(o) # {}
                  PROVE  DiscoveredId(p, CHOOSE f \in pipes(o) : TRUE) \in Nat
      OBVIOUS
    <2>1. (CHOOSE f \in pipes(o) : TRUE) \in pipes(o) OBVIOUS
    <2>2. QED BY <1>7, <2>1
  <1>9. MetFamily(p) \in Proc BY WorkloadAssumption DEF MetFamily
  <1>10. ASSUME NEW f \in Missing(p), Pipe(table[p][f].obj)
         PROVE  DiscoveredId(p, f) = newId[MetFamily(p)][table[p][f].obj]
    <2>1. PICK o \in Object : o = table[p][f].obj BY <1>2
    <2>2. f \in pipes(o) BY <1>10, <2>1
    <2>3. PICK g \in pipes(o) : g = CHOOSE h \in pipes(o) : TRUE BY <2>2
    <2>4. newId[MetFamily(p)][o] = DiscoveredId(p, g) BY <1>9, <2>2, <2>3
    <2>5. SamePipe(p, f, g) BY <1>10, <2>1, <2>3 DEF SamePipe
    <2>6. SamePipe(p, f, f) BY <1>10 DEF SamePipe
    <2>7. DiscoveredId(p, g) = DiscoveredId(p, f) BY <1>4, <2>5, <2>6
    <2>8. QED BY <2>1, <2>4, <2>7
  <1>11. \A q \in Proc : q # MetFamily(p) => newId[q] = id[q] OBVIOUS
  <1>12. p \in inherited => newId = id
    <2>. SUFFICES ASSUME p \in inherited PROVE newId = id OBVIOUS
    <2>1. \A o \in Object : pipes(o) = {} BY NoneKnown DEF Pipe
    <2>2. \A q \in Proc : newId[q] = id[q] BY <2>1
    <2>3. QED BY <2>2
  <1>. HIDE DEF newObject, newId
  <1>13. DiscoveryNames(p, object, id, newObject, newId)
    BY <1>6, <1>7, <1>10, <1>11, <1>12 DEF DiscoveryNames
  <1>14. QED BY <1>5, <1>8, <1>13

LEMMA InProcTyped ==
  ASSUME IInv, NEW p \in Proc, status[p] = "running", p \notin discovered, NEW f \in Missing(p)
  PROVE  /\ InProc(p, f) \in Binding /\ InProc(p, f).res = DiscoveredId(p, f)
         /\ DiscoveredId(p, f) < MetNext(p) /\ InProc(p, f) # Unbound
         /\ InProc(p, f).type = kind[table[p][f].obj] /\ InProc(p, f).role = table[p][f].role
         /\ InProc(p, f).cloexec = table[p][f].cloexec
         /\ InProc(p, f).key \in {NoKey, table[p][f].obj}
  <1>1. PICK object \in [Id -> Object], id \in [Proc -> [Object -> Nat]] : Named(object, id)
    BY DEF IInv, NamesInv
  <1>2. DiscoveredId(p, f) \in Nat \ {0} /\ DiscoveredId(p, f) < MetNext(p)
    BY Discovers DEF DiscoveryNames
  <1>3. table[p][f] \in Opened /\ kind[table[p][f].obj] \in Kinds BY NoneKnown
  <1>4. InProc(p, f) \in Binding
    <2>1. kind[table[p][f].obj] \in {"pipe", "file", "socket"} BY <1>3 DEF Kinds
    <2>2. table[p][f].role \in {"read", "write", "readwrite"} /\ table[p][f].cloexec \in BOOLEAN
          /\ table[p][f].obj \in Object
      BY <1>3 DEF Opened, Roles
    <2>3. QED BY <1>2, <2>1, <2>2 DEF InProc, Binding
  <1>5. InProc(p, f).res = DiscoveredId(p, f) BY DEF InProc
  <1>6. InProc(p, f) # Unbound BY <1>2, <1>5 DEF Unbound
  <1>7. QED BY <1>2, <1>4, <1>5, <1>6 DEF InProc

LEMMA EntryTables ==
  ASSUME IInv, NEW p \in Proc, status[p] = "running"
  PROVE  /\ AtEntry(p) \in [Fd -> {Unbound} \cup Binding]
         /\ \A f \in Fd : AtEntry(p)[f].res < MetNext(p)
         /\ p \notin discovered =>
              /\ Discovery(p) \in [Fd -> {Unbound} \cup Binding]
              /\ \A f \in Fd : Discovery(p)[f].res < MetNext(p)
         /\ \A f \in Fd :
              LET b == AtEntry(p)[f]
                  e == table[p][f]
              IN
              /\ IsOpen(p, f) /\ kind[e.obj] # "socket" => b # Unbound
              /\ b # Unbound => /\ IsOpen(p, f) /\ b.type = kind[e.obj] /\ b.role = e.role
                                /\ b.cloexec = e.cloexec
  <1>1. nextResource <= MetNext(p) /\ MetNext(p) \in Nat \ {0} /\ nextResource \in Nat
    BY NextGrows DEF IInv, AnalyzerTyped
  <1>2. /\ bindings[p] \in [Fd -> {Unbound} \cup Binding]
        /\ \A f \in Fd : bindings[p][f].res < nextResource
    BY DEF IInv, AnalyzerTyped
  <1>3. \A f \in Fd : bindings[p][f].res < MetNext(p)
    <2>1. \A f \in Fd : bindings[p][f].res \in Nat BY <1>2 DEF Binding, Unbound
    <2>2. QED BY <1>1, <1>2, <2>1
  <1>4. \A f \in Fd : Bound(p, f) =>
          /\ Tracked(p) /\ IsOpen(p, f)
          /\ bindings[p][f].type = kind[table[p][f].obj] /\ bindings[p][f].role = table[p][f].role
          /\ bindings[p][f].cloexec = table[p][f].cloexec
    <2>. SUFFICES ASSUME NEW f \in Fd, Bound(p, f)
                  PROVE /\ Tracked(p) /\ IsOpen(p, f)
                        /\ bindings[p][f].type = kind[table[p][f].obj]
                        /\ bindings[p][f].role = table[p][f].role
                        /\ bindings[p][f].cloexec = table[p][f].cloexec
      OBVIOUS
    <2>1. Tracked(p) BY DEF IInv, KnownInv, Bound
    <2>2. ~Stale(p, f) /\ ~Reflagged(p, f) BY DEF Stale, Effective, Reflagged
    <2>3. Agrees(p, f) BY <2>1, <2>2 DEF IInv, AgreeInv
    <2>4. QED BY <2>1, <2>2, <2>3 DEF Agrees
  <1>5. CASE p \in discovered
    <2>1. AtEntry(p) = bindings[p] BY <1>5 DEF AtEntry
    <2>2. Tracked(p) BY <1>5 DEF Tracked, Known
    <2>3. \A f \in Fd : IsOpen(p, f) /\ kind[table[p][f].obj] # "socket" => Bound(p, f)
      BY <2>2 DEF IInv, AgreeInv, Stale, Effective, Agrees
    <2>4. QED BY <1>2, <1>3, <1>4, <1>5, <2>1, <2>3 DEF Bound
  <1>6. CASE p \notin discovered
    <2>1. \A f \in Missing(p) :
            /\ InProc(p, f) \in Binding /\ InProc(p, f).res < MetNext(p) /\ InProc(p, f) # Unbound
            /\ InProc(p, f).type = kind[table[p][f].obj] /\ InProc(p, f).role = table[p][f].role
            /\ InProc(p, f).cloexec = table[p][f].cloexec
      BY <1>6, InProcTyped
    <2>2. \A f \in Fd : AtEntry(p)[f] = IF f \in Missing(p) THEN InProc(p, f) ELSE bindings[p][f]
      BY <1>6 DEF AtEntry
    <2>3. AtEntry(p) = [f \in Fd |-> AtEntry(p)[f]] BY <1>6 DEF AtEntry
    <2>4. AtEntry(p) \in [Fd -> {Unbound} \cup Binding] BY <1>2, <2>1, <2>2, <2>3
    <2>5. \A f \in Fd : AtEntry(p)[f].res < MetNext(p) BY <1>3, <2>1, <2>2
    <2>6. Discovery(p) \in [Fd -> {Unbound} \cup Binding] BY <2>1 DEF Discovery
    <2>7. \A f \in Fd : Discovery(p)[f].res < MetNext(p) BY <1>1, <2>1 DEF Discovery, Unbound
    <2>8. \A f \in Fd : f \in Missing(p) <=> IsOpen(p, f) /\ ~Bound(p, f) BY DEF Missing
    <2>9. QED BY <1>4, <2>1, <2>2, <2>4, <2>5, <2>6, <2>7, <2>8 DEF Bound
  <1>7. QED BY <1>5, <1>6

EntryNamed(p, object, id, newObject, newId) ==
  /\ \A i \in Id : newObject[i] = object[i]
  /\ \A f \in Fd :
       /\ AtEntry(p)[f] # Unbound =>
            /\ newObject[AtEntry(p)[f].res] = table[p][f].obj
            /\ Pipe(table[p][f].obj) =>
                 AtEntry(p)[f].res = newId[MetFamily(p)][table[p][f].obj]
       /\ AtEntry(p)[f].key # NoKey => newObject[AtEntry(p)[f].res] = AtEntry(p)[f].key
       /\ p \notin discovered /\ Discovery(p)[f].key # NoKey =>
            newObject[Discovery(p)[f].res] = Discovery(p)[f].key
  /\ \A q \in Proc, f \in Fd : q # p /\ Refers(q, f) => newId[Family(q)] = id[Family(q)]

LEMMA EntryNames ==
  ASSUME IInv, NEW p \in Proc, status[p] = "running",
         NEW object \in [Id -> Object], NEW id \in [Proc -> [Object -> Nat]], Named(object, id)
  PROVE  \E newObject \in [1 .. MetNext(p) - 1 -> Object], newId \in [Proc -> [Object -> Nat]] :
           EntryNamed(p, object, id, newObject, newId)
  <1>1. \A f \in Fd : ~Stale(p, f) BY DEF Stale, Effective
  <1>2. \A f \in Fd : Bound(p, f) => Refers(p, f)
    BY <1>1 DEF IInv, KnownInv, Bound, Refers
  <1>3. \A f \in Fd : Bound(p, f) =>
          /\ object[bindings[p][f].res] = table[p][f].obj
          /\ Pipe(table[p][f].obj) => bindings[p][f].res = id[Family(p)][table[p][f].obj]
    BY <1>2 DEF Named
  <1>4. \A f \in Fd : bindings[p][f].key # NoKey => object[bindings[p][f].res] = bindings[p][f].key
    BY DEF Named
  <1>5. p \in discovered \cup inherited => Family(p) = MetFamily(p)
    BY DEF Family, Early, MetFamily
  <1>6. CASE p \in discovered
    <2>1. AtEntry(p) = bindings[p] /\ MetNext(p) = nextResource BY <1>6 DEF AtEntry, MetNext
    <2>2. EntryNamed(p, object, id, object, id)
      BY <1>3, <1>4, <1>5, <1>6, <2>1 DEF EntryNamed, Bound
    <2>3. QED BY <2>1, <2>2 DEF Id
  <1>7. CASE p \notin discovered
    <2>1. PICK newObject \in [1 .. MetNext(p) - 1 -> Object], newId \in [Proc -> [Object -> Nat]] :
           DiscoveryNames(p, object, id, newObject, newId)
      BY <1>7, Discovers
    <2>2. \A f \in Missing(p) : InProc(p, f).res = DiscoveredId(p, f)
                                /\ InProc(p, f).key \in {NoKey, table[p][f].obj}
      BY <1>7, InProcTyped
    <2>3. \A f \in Fd : AtEntry(p)[f] = IF f \in Missing(p) THEN InProc(p, f) ELSE bindings[p][f]
      BY <1>7 DEF AtEntry
    <2>4. \A f \in Fd : Discovery(p)[f] = IF f \in Missing(p) THEN InProc(p, f) ELSE Unbound
      BY DEF Discovery
    <2>5. \A f \in Fd : bindings[p][f] # Unbound => p \in inherited /\ bindings[p][f].res \in Id
      <3>. SUFFICES ASSUME NEW f \in Fd, Bound(p, f) PROVE p \in inherited /\ bindings[p][f].res \in Id
        BY DEF Bound
      <3>1. p \in inherited BY <1>2, <1>7 DEF Refers, Tracked, Known
      <3>2. bindings[p][f] \in {Unbound} \cup Binding /\ bindings[p][f].res < nextResource
            /\ nextResource \in Nat
        BY DEF IInv, AnalyzerTyped
      <3>3. QED BY <3>1, <3>2 DEF Binding, Id, Bound
    <2>6. ASSUME NEW f \in Fd
          PROVE /\ AtEntry(p)[f] # Unbound =>
                     /\ newObject[AtEntry(p)[f].res] = table[p][f].obj
                     /\ Pipe(table[p][f].obj) =>
                          AtEntry(p)[f].res = newId[MetFamily(p)][table[p][f].obj]
                /\ AtEntry(p)[f].key # NoKey => newObject[AtEntry(p)[f].res] = AtEntry(p)[f].key
                /\ Discovery(p)[f].key # NoKey => newObject[Discovery(p)[f].res] = Discovery(p)[f].key
      <3>1. CASE f \in Missing(p)
        BY <2>1, <2>2, <2>3, <2>4, <3>1 DEF DiscoveryNames
      <3>2. CASE f \notin Missing(p)
        <4>1. AtEntry(p)[f] = bindings[p][f] /\ Discovery(p)[f].key = NoKey
          BY <2>3, <2>4, <3>2 DEF Unbound
        <4>2. CASE bindings[p][f] = Unbound BY <4>1, <4>2 DEF Unbound
        <4>3. CASE bindings[p][f] # Unbound
          <5>1. newId = id /\ newObject[bindings[p][f].res] = object[bindings[p][f].res]
                /\ Family(p) = MetFamily(p)
            BY <1>5, <2>1, <2>5, <4>3 DEF DiscoveryNames
          <5>2. QED BY <1>3, <1>4, <4>1, <4>3, <5>1 DEF Bound
        <4>4. QED BY <4>2, <4>3
      <3>3. QED BY <3>1, <3>2
    <2>7. ASSUME NEW q \in Proc, NEW f \in Fd, q # p, Refers(q, f)
          PROVE  newId[Family(q)] = id[Family(q)]
      <3>1. CASE p \in inherited BY <2>1, <3>1 DEF DiscoveryNames
      <3>2. CASE p \notin inherited /\ p = Root
        <4>1. status[q] = "none" BY <1>7, <2>7, <3>2 DEF IInv, KnownInv
        <4>2. QED BY <2>7, <4>1 DEF Refers, Tracked, Known, IInv, KnownInv
      <3>3. CASE p \notin inherited /\ p # Root
        <4>1. MetFamily(p) = p BY <3>3 DEF MetFamily
        <4>2. Family(q) # p /\ Family(q) \in Proc
          BY <2>7, <3>3, WorkloadAssumption DEF Family
        <4>3. QED BY <2>1, <4>1, <4>2 DEF DiscoveryNames
      <3>4. QED BY <3>1, <3>2, <3>3
    <2>8. QED BY <1>7, <2>1, <2>6, <2>7 DEF EntryNamed, DiscoveryNames
  <1>8. QED BY <1>6, <1>7

LEMMA CallIs ==
  ASSUME NEW op \in AllOps, NEW f \in Nat, NEW g \in Nat, NEW x \in BOOLEAN
  PROVE  /\ Call(op, f, g, x) \in Recorded /\ Call(op, f, g, x).op = op
         /\ Call(op, f, g, x).fd = f /\ Call(op, f, g, x).to = g
         /\ Call(op, f, g, x).flag = x
         /\ Call(op, f, g, x).ret = Failed /\ Call(op, f, g, x).obs = 0
  <1>. DEFINE d == [NoCall EXCEPT !.op = op]
              e == [d EXCEPT !.fd = f]
              h == [e EXCEPT !.to = g]
  <1>1. NoCall \in Recorded /\ NoCall.ret = 0 /\ NoCall.obs = 0 BY DEF NoCall, Recorded
  <1>2. d \in Recorded /\ d.op = op /\ d.ret = 0 /\ d.obs = 0 BY <1>1 DEF Recorded
  <1>. HIDE DEF d
  <1>3. e \in Recorded /\ e.op = op /\ e.fd = f /\ e.ret = 0 /\ e.obs = 0
    BY <1>2 DEF Recorded
  <1>. HIDE DEF e
  <1>4. h \in Recorded /\ h.op = op /\ h.fd = f /\ h.to = g /\ h.ret = 0 /\ h.obs = 0
    BY <1>3 DEF Recorded
  <1>. HIDE DEF h
  <1>5. Call(op, f, g, x) = [h EXCEPT !.flag = x] BY DEF Call, d, e, h
  <1>6. QED BY <1>4, <1>5 DEF Recorded, Failed

LEMMA CallsTyped ==
  ASSUME NEW c \in Calls
  PROVE  /\ c \in Recorded /\ c.ret = Failed /\ c.obs = 0
         /\ c.op \in FdCalls => c.fd \in Fd
         /\ c.op \in {"dup2", "dup3"} => c.to \in Fd
         /\ c.op \in {"dup", "dup2"} => ~c.flag
  <1>. DEFINE Fits(op, f, g, x) ==
                /\ op \in AllOps /\ f \in Nat /\ g \in Nat /\ x \in BOOLEAN
                /\ c = Call(op, f, g, x)
                /\ op \in FdCalls => f \in Fd
                /\ op \in {"dup2", "dup3"} => g \in Fd
                /\ op \in {"dup", "dup2"} => ~x
  <1>1. Fd \subseteq Nat BY DescriptorAssumption
  <1>2. \E op, f, g, x : Fits(op, f, g, x)
    <2>1. CASE c \in {Call(op, 0, 0, x) : op \in {"pipe", "open"}, x \in BOOLEAN}
      <3>1. PICK op \in {"pipe", "open"}, x \in BOOLEAN : c = Call(op, 0, 0, x) BY <2>1
      <3>2. Fits(op, 0, 0, x) BY <3>1 DEF AllOps, FdCalls, NoFlag
      <3>3. QED BY <3>2
    <2>2. CASE c \in {Call(op, 0, 0, NoFlag) : op \in {"socket", "fork", "execve"}}
      <3>1. PICK op \in {"socket", "fork", "execve"} : c = Call(op, 0, 0, NoFlag) BY <2>2
      <3>2. Fits(op, 0, 0, NoFlag) BY <3>1 DEF AllOps, FdCalls, NoFlag
      <3>3. QED BY <3>2
    <2>3. CASE c \in {Call(op, f, 0, NoFlag) : op \in {"close", "dup", "read", "write"}, f \in Fd}
      <3>1. PICK op \in {"close", "dup", "read", "write"}, f \in Fd : c = Call(op, f, 0, NoFlag)
        BY <2>3
      <3>2. Fits(op, f, 0, NoFlag) BY <1>1, <3>1 DEF AllOps, FdCalls, NoFlag
      <3>3. QED BY <3>2
    <2>4. CASE c \in {Call("dup2", f, g, NoFlag) : f \in Fd, g \in Fd}
      <3>1. PICK f \in Fd, g \in Fd : c = Call("dup2", f, g, NoFlag) BY <2>4
      <3>2. Fits("dup2", f, g, NoFlag) BY <1>1, <3>1 DEF AllOps, FdCalls, NoFlag
      <3>3. QED BY <3>2
    <2>5. CASE c \in {Call("dup3", f, g, x) : f \in Fd, g \in Fd, x \in BOOLEAN}
      <3>1. PICK f \in Fd, g \in Fd, x \in BOOLEAN : c = Call("dup3", f, g, x) BY <2>5
      <3>2. Fits("dup3", f, g, x) BY <1>1, <3>1 DEF AllOps, FdCalls, NoFlag
      <3>3. QED BY <3>2
    <2>6. CASE c \in {Call(op, f, 0, x) : op \in {"F_DUPFD", "F_SETFD"}, f \in Fd, x \in BOOLEAN}
      <3>1. PICK op \in {"F_DUPFD", "F_SETFD"}, f \in Fd, x \in BOOLEAN : c = Call(op, f, 0, x)
        BY <2>6
      <3>2. Fits(op, f, 0, x) BY <1>1, <3>1 DEF AllOps, FdCalls, NoFlag
      <3>3. QED BY <3>2
    <2>. HIDE DEF Fits
    <2>7. QED BY <2>1, <2>2, <2>3, <2>4, <2>5, <2>6 DEF Calls
  <1>3. PICK op, f, g, x : Fits(op, f, g, x) BY <1>2
  <1>4. /\ c \in Recorded /\ c.op = op /\ c.fd = f /\ c.to = g /\ c.flag = x
        /\ c.ret = Failed /\ c.obs = 0
    BY <1>3, CallIs
  <1>5. QED BY <1>3, <1>4

LEMMA StampedTyped ==
  ASSUME IInv, NEW p \in Proc, status[p] = "running", NEW c \in Calls, c.op \in Transfers,
         NEW token \in Tokens \cup {Plain}
  PROVE  /\ Stamped(p, c, token) \in Observed
         /\ Stamped(p, c, token).op = c.op /\ Stamped(p, c, token).obj = 0
         /\ ~Stamped(p, c, token).done
         /\ Stamped(p, c, token).res = AtEntry(p)[c.fd].res
         /\ Stamped(p, c, token).type = AtEntry(p)[c.fd].type
         /\ Stamped(p, c, token).role = AtEntry(p)[c.fd].role
  <1>1. c.fd \in Fd BY CallsTyped DEF Transfers, FdCalls
  <1>2. AtEntry(p)[c.fd] \in {Unbound} \cup Binding BY <1>1, EntryTables
  <1>3. /\ AtEntry(p)[c.fd].res \in Nat /\ AtEntry(p)[c.fd].type \in Kinds \cup {"none"}
        /\ AtEntry(p)[c.fd].role \in Roles \cup {"none"}
    BY <1>2 DEF Unbound, Binding, Kinds, Roles
  <1>4. QED BY <1>3 DEF Stamped, Observed, Transfers

LEMMA EntryKeeps == ASSUME IInv, NEW p \in Proc, Entry(p) PROVE IInv'
  <1>1. PICK c \in Calls, token \in Tokens \cup {Plain} :
          /\ call' = [call EXCEPT ![p] =
               [c EXCEPT !.obs = IF c.op \in {"read", "write"} THEN Len(observations) + 1 ELSE 0]]
          /\ observations' = IF c.op \in {"read", "write"}
                             THEN Append(observations, Stamped(p, c, token))
                             ELSE observations
    BY DEF Entry
  <1>2. /\ status[p] = "running" /\ status' = [status EXCEPT ![p] = "called"]
        /\ UNCHANGED << kind, content, table, early, edges, inherited >>
        /\ discovered' = discovered \cup {p}
        /\ bindings' = [bindings EXCEPT ![p] = AtEntry(p)]
        /\ snapshot' = IF p \in discovered THEN snapshot
                       ELSE [snapshot EXCEPT ![p] = Discovery(p)]
        /\ nextResource' = MetNext(p)
    BY DEF Entry, Discover, kernel, MetNext
  <1>3. KernelTyped /\ AnalyzerTyped /\ observations \in Seq(Observed) /\ Len(observations) \in Nat
    BY DEF IInv, AnalyzerTyped
  <1>. DEFINE n == IF c.op \in {"read", "write"} THEN Len(observations) + 1 ELSE 0
              d == [c EXCEPT !.obs = n]
              s == Stamped(p, c, token)
  <1>4. /\ c \in Recorded /\ c.ret = Failed
        /\ c.op \in FdCalls => c.fd \in Fd
        /\ c.op \in {"dup2", "dup3"} => c.to \in Fd
        /\ c.op \in {"dup", "dup2"} => ~c.flag
    BY CallsTyped
  <1>5. /\ d \in Recorded /\ d.op = c.op /\ d.fd = c.fd /\ d.to = c.to /\ d.flag = c.flag
        /\ d.ret = Failed /\ d.obs = n
    BY <1>3, <1>4 DEF Recorded
  <1>6. call' = [call EXCEPT ![p] = d] BY <1>1
  <1>. HIDE DEF d
  <1>7. /\ status'[p] = "called" /\ call'[p] = d /\ bindings'[p] = AtEntry(p)
        /\ \A q \in Proc \ {p} : /\ status'[q] = status[q] /\ call'[q] = call[q]
                                 /\ bindings'[q] = bindings[q]
        /\ \A q \in Proc : snapshot'[q] = IF q = p /\ p \notin discovered THEN Discovery(p)
                                          ELSE snapshot[q]
    BY <1>2, <1>3, <1>6 DEF KernelTyped, AnalyzerTyped
  <1>8. KernelTyped'
    <2>1. call' \in [Proc -> Recorded] /\ status' \in
            [Proc -> {"none", "running", "called", "returned", "forked", "execed", "ended"}]
      BY <1>2, <1>3, <1>5, <1>6 DEF KernelTyped
    <2>2. QED BY <1>2, <1>3, <2>1 DEF KernelTyped, IsOpen
  <1>9. /\ AtEntry(p) \in [Fd -> {Unbound} \cup Binding]
        /\ \A f \in Fd : AtEntry(p)[f].res < MetNext(p)
        /\ p \notin discovered => /\ Discovery(p) \in [Fd -> {Unbound} \cup Binding]
                                  /\ \A f \in Fd : Discovery(p)[f].res < MetNext(p)
        /\ \A f \in Fd :
              LET b == AtEntry(p)[f]
                  e == table[p][f]
              IN
              /\ IsOpen(p, f) /\ kind[e.obj] # "socket" => b # Unbound
              /\ b # Unbound => /\ IsOpen(p, f) /\ b.type = kind[e.obj] /\ b.role = e.role
                                /\ b.cloexec = e.cloexec
    BY <1>2, EntryTables
  <1>10. c.op \in Transfers =>
           /\ s \in Observed /\ s.op = c.op /\ s.obj = 0 /\ ~s.done
           /\ s.res = AtEntry(p)[c.fd].res /\ s.type = AtEntry(p)[c.fd].type
           /\ s.role = AtEntry(p)[c.fd].role
    BY <1>2, StampedTyped
  <1>. HIDE DEF s
  <1>11. /\ observations' \in Seq(Observed)
         /\ \A i \in DOMAIN observations : i \in DOMAIN observations' /\ observations'[i] = observations[i]
         /\ \A i \in DOMAIN observations' :
              i \in DOMAIN observations \/ (c.op \in Transfers /\ i = n /\ observations'[i] = s)
         /\ c.op \in Transfers => n \in DOMAIN observations' /\ observations'[n] = s
                                  /\ n \notin DOMAIN observations
    <2>1. CASE c.op \in Transfers
      <3>1. observations' = Append(observations, s) /\ n = Len(observations) + 1
        BY <1>1, <2>1 DEF s, Transfers
      <3>2. QED BY <1>3, <1>10, <2>1, <3>1
    <2>2. CASE c.op \notin Transfers BY <1>1, <1>3, <2>2 DEF Transfers
    <2>3. QED BY <2>1, <2>2
  <1>. HIDE DEF n
  <1>12. nextResource <= MetNext(p) /\ MetNext(p) \in Nat \ {0} /\ nextResource \in Nat
    BY <1>3, NextGrows DEF AnalyzerTyped
  <1>13. AnalyzerTyped'
    <2>1. bindings' \in [Proc -> [Fd -> {Unbound} \cup Binding]]
      BY <1>2, <1>3, <1>9 DEF AnalyzerTyped
    <2>2. snapshot' \in [Proc -> [Fd -> {Unbound} \cup Binding]]
      BY <1>2, <1>3, <1>9 DEF AnalyzerTyped
    <2>3. \A q \in Proc, f \in Fd : bindings[q][f].res \in Nat /\ snapshot[q][f].res \in Nat
      <3>1. \A b \in {Unbound} \cup Binding : b.res \in Nat BY DEF Unbound, Binding
      <3>2. QED BY <1>3, <3>1 DEF AnalyzerTyped
    <2>4. \A q \in Proc, f \in Fd : bindings'[q][f].res < nextResource'
                                    /\ snapshot'[q][f].res < nextResource'
      BY <1>2, <1>3, <1>7, <1>9, <1>12, <2>3 DEF AnalyzerTyped
    <2>5. \A i \in DOMAIN observations' : observations'[i].res < nextResource'
      <3>. SUFFICES ASSUME NEW i \in DOMAIN observations'
                    PROVE  observations'[i].res < nextResource'
        OBVIOUS
      <3>1. CASE i \in DOMAIN observations
        <4>1. observations[i] \in Observed /\ observations[i].res < nextResource
          BY <1>3, <3>1 DEF AnalyzerTyped
        <4>2. QED BY <1>2, <1>11, <1>12, <3>1, <4>1 DEF Observed
      <3>2. CASE i \notin DOMAIN observations
        <4>1. c.op \in Transfers /\ observations'[i] = s BY <1>11, <3>2
        <4>2. c.fd \in Fd BY <1>4, <4>1 DEF Transfers, FdCalls
        <4>3. QED BY <1>2, <1>9, <1>10, <4>1, <4>2
      <3>3. QED BY <3>1, <3>2
    <2>6. edges' \subseteq (DOMAIN observations') \X (DOMAIN observations')
      BY <1>2, <1>3, <1>11 DEF AnalyzerTyped
    <2>7. ContentTyped' BY <1>2, <1>3, <1>11 DEF AnalyzerTyped, ContentTyped
    <2>8. QED
      BY <1>2, <1>3, <1>11, <1>12, <2>1, <2>2, <2>4, <2>5, <2>6, <2>7 DEF AnalyzerTyped
  <1>14. \A ops : ~Effective(p, ops)' BY <1>7 DEF Effective
  <1>15. LoopMoves(p)
    <2>1. CallOf(p)' BY <1>2, <1>4, <1>5, <1>7 DEF CallOf, Does
    <2>2. EffectOf(p)' BY <1>7, <1>14 DEF EffectOf
    <2>3. \A f \in Fd : Agrees(p, f)' BY <1>2, <1>7, <1>9 DEF Agrees, IsOpen, Bound
    <2>4. QED BY <1>2, <1>7, <2>1, <2>2, <2>3 DEF LoopMoves
  <1>16. ObservationsKept(p)
    <2>1. ASSUME Transferring(p)' PROVE ObservationOf(p)'
      <3>1. c.op \in Transfers BY <1>5, <1>7, <2>1 DEF Transferring, Does
      <3>2. \A q \in Proc : Transferring(q)' /\ call'[q].obs = n => q = p
        <4>. SUFFICES ASSUME NEW q \in Proc, q # p, Transferring(q)', call'[q].obs = n
                      PROVE  FALSE
          OBVIOUS
        <4>1. Transferring(q) /\ call[q].obs = n BY <1>15, LoopOthers
        <4>2. n \in DOMAIN observations BY <4>1 DEF IInv, ObservationsInv, ObservationOf
        <4>3. QED BY <1>11, <3>1, <4>2
      <3>3. QED BY <1>5, <1>7, <1>10, <1>11, <1>14, <3>1, <3>2 DEF ObservationOf
    <2>2. \A i \in DOMAIN observations' : observations'[i].done => observations'[i].obj # 0
      BY <1>10, <1>11 DEF IInv, ObservationsInv
    <2>3. QED BY <1>11, <2>1, <2>2 DEF ObservationsKept
  <1>17. LinkedInv' /\ EdgesInv' BY <1>2, <1>10, <1>11, LoopLinks
  <1>18. NamesInv'
    <2>1. PICK object \in [Id -> Object], id \in [Proc -> [Object -> Nat]] : Named(object, id)
      BY DEF IInv, NamesInv
    <2>2. PICK newObject \in [1 .. MetNext(p) - 1 -> Object], newId \in [Proc -> [Object -> Nat]] :
            EntryNamed(p, object, id, newObject, newId)
      BY <1>2, <2>1, EntryNames
    <2>3. Id' = 1 .. MetNext(p) - 1 BY <1>2 DEF Id
    <2>4. Family(p)' = MetFamily(p) /\ \A q \in Proc \ {p} : Family(q)' = Family(q)
      BY <1>2 DEF Family, Early, MetFamily
    <2>5. \A q \in Proc, f \in Fd :
            /\ bindings[q][f] # Unbound => bindings[q][f].res \in Id
            /\ snapshot[q][f] # Unbound => snapshot[q][f].res \in Id
      <3>1. \A b \in Binding : b.res < nextResource => b.res \in Id BY <1>12 DEF Binding, Id
      <3>2. QED BY <1>3, <3>1 DEF AnalyzerTyped
    <2>6. ASSUME NEW q \in Proc, NEW f \in Fd, Refers(q, f)'
          PROVE  /\ newObject[bindings'[q][f].res] = table'[q][f].obj
                 /\ kind'[table'[q][f].obj] = "pipe" =>
                      bindings'[q][f].res = newId[Family(q)'][table'[q][f].obj]
      <3>1. CASE q = p
        <4>1. AtEntry(p)[f] # Unbound BY <1>7, <2>6, <3>1 DEF Refers, Bound
        <4>2. QED BY <1>2, <1>7, <2>2, <2>4, <3>1, <4>1 DEF EntryNamed, Pipe
      <3>2. CASE q # p
        <4>1. Refers(q, f) /\ bindings'[q] = bindings[q] /\ table'[q] = table[q]
          BY <1>15, <2>6, <3>2, LoopOthers
        <4>2. newId[Family(q)] = id[Family(q)] BY <2>2, <3>2, <4>1 DEF EntryNamed
        <4>3. bindings[q][f].res \in Id BY <2>5, <4>1 DEF Refers, Bound
        <4>4. newObject[bindings[q][f].res] = object[bindings[q][f].res]
          BY <2>2, <4>3 DEF EntryNamed
        <4>5. QED BY <1>2, <2>1, <2>4, <3>2, <4>1, <4>2, <4>4 DEF Named, Pipe
      <3>3. QED BY <3>1, <3>2
    <2>7. ASSUME NEW q \in Proc, NEW f \in Fd, bindings'[q][f].key # NoKey
          PROVE  newObject[bindings'[q][f].res] = bindings'[q][f].key
      <3>1. CASE q = p BY <1>7, <2>2, <2>7, <3>1 DEF EntryNamed
      <3>2. CASE q # p
        <4>1. bindings[q][f].key # NoKey /\ bindings'[q] = bindings[q] BY <1>7, <2>7, <3>2
        <4>2. bindings[q][f].res \in Id BY <2>5, <4>1 DEF Unbound
        <4>3. QED BY <2>1, <2>2, <4>1, <4>2 DEF Named, EntryNamed
      <3>3. QED BY <3>1, <3>2
    <2>8. ASSUME NEW q \in Proc, NEW f \in Fd, snapshot'[q][f].key # NoKey
          PROVE  newObject[snapshot'[q][f].res] = snapshot'[q][f].key
      <3>1. CASE q = p /\ p \notin discovered BY <1>7, <2>2, <2>8, <3>1 DEF EntryNamed
      <3>2. CASE ~(q = p /\ p \notin discovered)
        <4>1. snapshot[q][f].key # NoKey /\ snapshot'[q] = snapshot[q] BY <1>7, <2>8, <3>2
        <4>2. snapshot[q][f].res \in Id BY <2>5, <4>1 DEF Unbound
        <4>3. QED BY <2>1, <2>2, <4>1, <4>2 DEF Named, EntryNamed
      <3>3. QED BY <3>1, <3>2
    <2>9. ASSUME NEW i \in DOMAIN observations', observations'[i].obj # 0, observations'[i].res # 0
          PROVE  newObject[observations'[i].res] = observations'[i].obj
      <3>1. i \in DOMAIN observations /\ observations'[i] = observations[i]
        BY <1>10, <1>11, <2>9
      <3>2. observations[i] \in Observed /\ observations[i].res < nextResource
        BY <1>3, <3>1 DEF AnalyzerTyped
      <3>3. observations[i].res \in Id BY <1>12, <2>9, <3>1, <3>2 DEF Observed, Id
      <3>4. QED BY <2>1, <2>2, <2>9, <3>1, <3>3 DEF Named, EntryNamed
    <2>10. Named(newObject, newId)' BY <2>6, <2>7, <2>8, <2>9 DEF Named, Pipe
    <2>11. QED BY <2>3, <2>10 DEF NamesInv
  <1>19. QED BY <1>8, <1>13, <1>15, <1>16, <1>17, <1>18, LoopKeeps

-----------------------------------------------------------------------------
(* A process's bindings replaced as its call is handled: each descriptor   *)
(* is left without one, takes that of a descriptor for the same end, or is *)
(* the first for what the call made.                                       *)
Rebound(p, b, f) ==
  LET e == table[p][f] IN
  \/ b[f] = Unbound /\ (IsOpen(p, f) => kind[e.obj] = "socket")
  \/ /\ IsOpen(p, f)
     /\ \E g \in Fd : /\ Refers(p, g)
                      /\ table[p][g].obj = e.obj /\ table[p][g].role = e.role
                      /\ b[f] = [bindings[p][g] EXCEPT !.cloexec = e.cloexec]

FirstBound(p, b, f, o) ==
  LET e == table[p][f] IN
  /\ IsOpen(p, f) /\ e.obj = o
  /\ b[f] = New(kind[o], e.role, e.cloexec)

Alone(o) == \A q \in Proc, g \in Fd : Refers(q, g) /\ Pipe(o) => table[q][g].obj # o

Rebinds(p, b, o, c, s) ==
  /\ status[p] \in {"returned", "execed"}
  /\ (s = "running" /\ c = NoCall) \/ (s = "returned" /\ c.op = "execve")
  /\ status' = [status EXCEPT ![p] = s] /\ call' = [call EXCEPT ![p] = c]
  /\ bindings' = [bindings EXCEPT ![p] = b]
  /\ UNCHANGED << kernel, snapshot, discovered, inherited, flow >>
  /\ \/ nextResource' = nextResource /\ \A f \in Fd : Rebound(p, b, f)
     \/ /\ nextResource' = nextResource + 1 /\ Alone(o)
        /\ \A f \in Fd : Rebound(p, b, f) \/ FirstBound(p, b, f, o)

Grown == nextResource' = nextResource + 1

LEMMA ReboundTyped ==
  ASSUME IInv, NEW p \in Proc, status[p] # "ended", p \in discovered, NEW b, NEW f \in Fd,
         NEW o, Rebound(p, b, f) \/ FirstBound(p, b, f, o)
  PROVE  /\ b[f] \in {Unbound} \cup Binding /\ b[f].res \in Nat
         /\ b[f].res < nextResource \/ (FirstBound(p, b, f, o) /\ b[f].res = nextResource)
         /\ IsOpen(p, f) /\ kind[table[p][f].obj] # "socket" => b[f] # Unbound
         /\ b[f] # Unbound => /\ IsOpen(p, f) /\ b[f].type = kind[table[p][f].obj]
                              /\ b[f].role = table[p][f].role
                              /\ b[f].cloexec = table[p][f].cloexec
  <1>. DEFINE e == table[p][f]
  <1>1. nextResource \in Nat \ {0} BY DEF IInv, AnalyzerTyped
  <1>2. IsOpen(p, f) =>
          e \in Opened /\ e.role \in Roles /\ e.cloexec \in BOOLEAN /\ kind[e.obj] \in Kinds
    BY DEF IInv, KernelTyped, IsOpen, Opened, Object
  <1>3. CASE b[f] = Unbound /\ (IsOpen(p, f) => kind[e.obj] = "socket")
    BY <1>1, <1>3 DEF Unbound
  <1>4. ASSUME IsOpen(p, f), NEW g \in Fd, Refers(p, g),
               table[p][g].obj = e.obj, table[p][g].role = e.role,
               b[f] = [bindings[p][g] EXCEPT !.cloexec = e.cloexec]
        PROVE  /\ b[f] \in Binding /\ b[f].res < nextResource
               /\ b[f].type = kind[e.obj] /\ b[f].role = e.role /\ b[f].cloexec = e.cloexec
    <2>1. bindings[p][g] \in Binding /\ bindings[p][g].res < nextResource
      BY <1>4 DEF IInv, AnalyzerTyped, Refers, Bound
    <2>2. Agrees(p, g) BY <1>4 DEF IInv, AgreeInv, Refers
    <2>3. bindings[p][g].type = kind[e.obj] /\ bindings[p][g].role = e.role
      BY <1>4, <2>2 DEF Agrees, Refers
    <2>4. QED BY <1>2, <1>4, <2>1, <2>3 DEF Binding
  <1>5. CASE FirstBound(p, b, f, o)
    BY <1>1, <1>2, <1>5 DEF FirstBound, New, Binding, Kinds, Roles, Unbound, NoKey
  <1>6. \A x \in Binding : x # Unbound /\ x.res \in Nat BY DEF Binding, Unbound
  <1>7. QED BY <1>3, <1>4, <1>5, <1>6 DEF Rebound

LEMMA RebindNames ==
  ASSUME IInv, NEW p \in Proc, NEW b, NEW o \in Object, NEW c, NEW s, Rebinds(p, b, o, c, s),
         p \in discovered, LoopMoves(p), bindings'[p] = b
  PROVE  NamesInv'
  <1>1. PICK object \in [Id -> Object], id \in [Proc -> [Object -> Nat]] : Named(object, id)
    BY DEF IInv, NamesInv
  <1>2. /\ UNCHANGED << kind, table, early, snapshot, discovered, inherited, observations, edges >>
        /\ status[p] \in {"returned", "execed"}
        /\ \/ nextResource' = nextResource /\ \A f \in Fd : Rebound(p, b, f)
           \/ /\ Grown /\ Alone(o)
              /\ \A f \in Fd : Rebound(p, b, f) \/ FirstBound(p, b, f, o)
    BY DEF Rebinds, kernel, flow, Grown
  <1>3. nextResource \in Nat \ {0} /\ AnalyzerTyped BY DEF IInv, AnalyzerTyped
  <1>4. \A q \in Proc : Family(q)' = Family(q) /\ Family(q) \in Proc
    BY <1>2, WorkloadAssumption DEF Family, Early
  <1>5. PICK home \in Proc : home = Family(p) BY <1>4
  <1>6. Id \subseteq Id' /\ (Grown => nextResource \in Id' /\ nextResource \notin Id)
    BY <1>2, <1>3 DEF Id, Grown
  <1>7. PICK newObject \in [Id' -> Object], newId \in [Proc -> [Object -> Nat]] :
          /\ \A i \in Id : newObject[i] = object[i]
          /\ Grown => newObject[nextResource] = o /\ newId[home][o] = nextResource
          /\ \A q \in Proc, x \in Object : ~(Grown /\ x = o) => newId[q][x] = id[q][x]
    <2>. DEFINE m == [i \in Id' |-> IF i \in Id THEN object[i] ELSE o]
                d == IF Grown THEN [id EXCEPT ![home][o] = nextResource] ELSE id
    <2>1. m \in [Id' -> Object] /\ d \in [Proc -> [Object -> Nat]] BY <1>1, <1>3
    <2>2. /\ \A i \in Id : m[i] = object[i]
          /\ Grown => m[nextResource] = o /\ d[home][o] = nextResource
      BY <1>3, <1>6
    <2>3. \A q \in Proc, x \in Object : ~(Grown /\ x = o) => d[q][x] = id[q][x]
      BY <1>1
    <2>. HIDE DEF m, d
    <2>4. QED BY <2>1, <2>2, <2>3
  <1>8. /\ \A i \in Id : newObject[i] = object[i]
        /\ Grown => newObject[nextResource] = o /\ newId[home][o] = nextResource
    BY <1>7
  <1>9. \A q \in Proc, x \in Object : ~(Grown /\ x = o) => newId[q][x] = id[q][x]
    BY <1>7
  <1>10. Grown => Alone(o) BY <1>2, <1>3 DEF Grown
  <1>11. \A q \in Proc, f \in Fd :
           /\ bindings[q][f] # Unbound => bindings[q][f].res \in Id
           /\ snapshot[q][f] # Unbound => snapshot[q][f].res \in Id
    <2>1. \A x \in Binding : x.res < nextResource => x.res \in Id BY <1>3 DEF Binding, Id
    <2>2. QED BY <1>3, <2>1 DEF AnalyzerTyped
  <1>12. ASSUME NEW q \in Proc, NEW f \in Fd, Refers(q, f)
         PROVE  /\ newObject[bindings[q][f].res] = table[q][f].obj
                /\ Pipe(table[q][f].obj) =>
                     bindings[q][f].res = newId[Family(q)][table[q][f].obj]
    <2>1. Agrees(q, f) BY <1>12 DEF IInv, AgreeInv, Refers
    <2>2. table[q][f].obj \in Object
      BY <1>12, <2>1 DEF Agrees, Refers, IInv, KernelTyped, IsOpen, Opened
    <2>3. bindings[q][f].res \in Id BY <1>11, <1>12 DEF Refers, Bound
    <2>4. Pipe(table[q][f].obj) => ~(Grown /\ table[q][f].obj = o)
      BY <1>10, <1>12 DEF Alone, Pipe
    <2>5. QED BY <1>1, <1>4, <1>8, <1>9, <1>12, <2>2, <2>3, <2>4 DEF Named
  <1>13. ASSUME NEW f \in Fd, b[f] # Unbound
         PROVE  /\ newObject[b[f].res] = table[p][f].obj
                /\ Pipe(table[p][f].obj) => b[f].res = newId[home][table[p][f].obj]
                /\ b[f].key # NoKey => newObject[b[f].res] = b[f].key
    <2>1. CASE Rebound(p, b, f)
      <3>1. PICK g \in Fd : /\ Refers(p, g) /\ table[p][g].obj = table[p][f].obj
                            /\ b[f] = [bindings[p][g] EXCEPT !.cloexec = table[p][f].cloexec]
        BY <1>13, <2>1 DEF Rebound
      <3>2. bindings[p][g] \in Binding /\ bindings[p][g].res \in Id
        BY <1>3, <1>11, <3>1 DEF AnalyzerTyped, Refers, Bound
      <3>3. b[f].res = bindings[p][g].res /\ b[f].key = bindings[p][g].key
        BY <3>1, <3>2 DEF Binding
      <3>4. /\ newObject[bindings[p][g].res] = table[p][g].obj
            /\ Pipe(table[p][g].obj) => bindings[p][g].res = newId[home][table[p][g].obj]
        BY <1>5, <1>12, <3>1
      <3>5. bindings[p][g].key # NoKey => object[bindings[p][g].res] = bindings[p][g].key
        BY <1>1 DEF Named
      <3>6. QED BY <1>8, <3>1, <3>2, <3>3, <3>4, <3>5
    <2>2. CASE FirstBound(p, b, f, o) /\ Grown
      BY <1>8, <2>2 DEF FirstBound, New
    <2>3. QED BY <1>2, <2>1, <2>2
  <1>14. ASSUME NEW q \in Proc, NEW f \in Fd, Refers(q, f)'
         PROVE  /\ newObject[bindings'[q][f].res] = table'[q][f].obj
                /\ kind'[table'[q][f].obj] = "pipe" =>
                     bindings'[q][f].res = newId[Family(q)'][table'[q][f].obj]
    <2>1. CASE q = p
      <3>1. b[f] # Unbound BY <1>14, <2>1 DEF Refers, Bound
      <3>2. QED BY <1>2, <1>4, <1>5, <1>13, <2>1, <3>1 DEF Pipe
    <2>2. CASE q # p
      <3>1. Refers(q, f) /\ bindings'[q] = bindings[q] BY <1>14, <2>2, LoopOthers
      <3>2. QED BY <1>2, <1>4, <1>12, <3>1 DEF Pipe
    <2>3. QED BY <2>1, <2>2
  <1>15. ASSUME NEW q \in Proc, NEW f \in Fd
         PROVE  /\ bindings'[q][f].key # NoKey =>
                     newObject[bindings'[q][f].res] = bindings'[q][f].key
                /\ snapshot'[q][f].key # NoKey =>
                     newObject[snapshot'[q][f].res] = snapshot'[q][f].key
    <2>1. CASE q = p BY <1>1, <1>2, <1>8, <1>11, <1>13, <2>1 DEF Named, Unbound
    <2>2. CASE q # p
      <3>1. bindings'[q] = bindings[q] BY <2>2 DEF LoopMoves
      <3>2. QED BY <1>1, <1>2, <1>8, <1>11, <3>1 DEF Named, Unbound
    <2>3. QED BY <2>1, <2>2
  <1>16. ASSUME NEW i \in DOMAIN observations, observations[i].obj # 0, observations[i].res # 0
         PROVE  newObject[observations[i].res] = observations[i].obj
    <2>1. observations[i] \in Observed /\ observations[i].res < nextResource
      BY <1>3 DEF AnalyzerTyped
    <2>2. observations[i].res \in Id BY <1>3, <1>16, <2>1 DEF Observed, Id
    <2>3. QED BY <1>1, <1>8, <1>16, <2>2 DEF Named
  <1>17. Named(newObject, newId)' BY <1>2, <1>14, <1>15, <1>16 DEF Named, Pipe
  <1>18. QED BY <1>17 DEF NamesInv

LEMMA RebindKeeps ==
  ASSUME IInv, NEW p \in Proc, NEW b, NEW o \in Object, NEW c \in Recorded, NEW s,
         b = [f \in Fd |-> b[f]], Rebinds(p, b, o, c, s)
  PROVE  IInv'
  <1>1. KernelTyped /\ AnalyzerTyped /\ nextResource \in Nat \ {0} BY DEF IInv, AnalyzerTyped
  <1>2. /\ UNCHANGED << kind, content, table, early, snapshot, discovered, inherited,
                        observations, edges >>
        /\ status[p] \in {"returned", "execed"}
        /\ (s = "running" /\ c = NoCall) \/ (s = "returned" /\ c.op = "execve")
        /\ status' = [status EXCEPT ![p] = s] /\ call' = [call EXCEPT ![p] = c]
        /\ bindings' = [bindings EXCEPT ![p] = b]
    BY DEF Rebinds, kernel, flow
  <1>3. /\ nextResource' \in Nat \ {0} /\ nextResource' >= nextResource
        /\ \A f \in Fd : \/ Rebound(p, b, f)
                         \/ nextResource' = nextResource + 1 /\ FirstBound(p, b, f, o)
    BY <1>1 DEF Rebinds
  <1>4. p \in discovered /\ Tracked(p) BY <1>2 DEF IInv, CallsInv, CallOf, Tracked, Known
  <1>5. /\ status'[p] = s /\ call'[p] = c /\ bindings'[p] = b
        /\ \A q \in Proc \ {p} : /\ status'[q] = status[q] /\ call'[q] = call[q]
                                 /\ bindings'[q] = bindings[q]
    BY <1>1, <1>2 DEF KernelTyped, AnalyzerTyped
  <1>6. \A f \in Fd :
          /\ b[f] \in {Unbound} \cup Binding /\ b[f].res \in Nat
          /\ b[f].res < nextResource \/ (nextResource' = nextResource + 1 /\ b[f].res = nextResource)
          /\ IsOpen(p, f) /\ kind[table[p][f].obj] # "socket" => b[f] # Unbound
          /\ b[f] # Unbound => /\ IsOpen(p, f) /\ b[f].type = kind[table[p][f].obj]
                               /\ b[f].role = table[p][f].role
                               /\ b[f].cloexec = table[p][f].cloexec
    <2>. TAKE f \in Fd
    <2>1. CASE Rebound(p, b, f)
      <3>1. ~FirstBound(p, b, f, 0)
        BY WorkloadAssumption DEF FirstBound, IInv, KernelTyped, IsOpen, Opened, Object
      <3>2. QED BY <1>2, <1>4, <2>1, <3>1, ReboundTyped
    <2>2. CASE nextResource' = nextResource + 1 /\ FirstBound(p, b, f, o)
      BY <1>2, <1>4, <2>2, ReboundTyped
    <2>3. QED BY <1>3, <2>1, <2>2
  <1>7. KernelTyped'
    <2>1. call' \in [Proc -> Recorded] /\ status' \in
            [Proc -> {"none", "running", "called", "returned", "forked", "execed", "ended"}]
      BY <1>1, <1>2 DEF KernelTyped
    <2>2. QED BY <1>1, <1>2, <2>1 DEF KernelTyped, IsOpen
  <1>8. AnalyzerTyped'
    <2>1. b \in [Fd -> {Unbound} \cup Binding] BY <1>6
    <2>2. bindings' \in [Proc -> [Fd -> {Unbound} \cup Binding]]
      BY <1>1, <1>2, <2>1 DEF AnalyzerTyped
    <2>3. \A q \in Proc, f \in Fd : bindings[q][f].res \in Nat /\ snapshot[q][f].res \in Nat
      <3>1. \A x \in {Unbound} \cup Binding : x.res \in Nat BY DEF Unbound, Binding
      <3>2. QED BY <1>1, <3>1 DEF AnalyzerTyped
    <2>4. \A q \in Proc, f \in Fd : bindings'[q][f].res < nextResource'
      <3>. TAKE q \in Proc, f \in Fd
      <3>1. CASE q = p BY <1>1, <1>3, <1>5, <1>6, <3>1
      <3>2. CASE q # p
        <4>1. bindings[q][f].res < nextResource BY <1>1 DEF AnalyzerTyped
        <4>2. QED BY <1>1, <1>3, <1>5, <2>3, <3>2, <4>1
      <3>3. QED BY <3>1, <3>2
    <2>5. \A q \in Proc, f \in Fd : snapshot'[q][f].res < nextResource'
      BY <1>1, <1>2, <1>3, <2>3 DEF AnalyzerTyped
    <2>6. \A i \in DOMAIN observations : observations[i].res < nextResource'
      <3>1. \A i \in DOMAIN observations : observations[i].res \in Nat
        <4>1. \A i \in DOMAIN observations : observations[i] \in Observed
          BY <1>1 DEF AnalyzerTyped
        <4>2. QED BY <4>1 DEF Observed
      <3>2. QED BY <1>1, <1>3, <3>1 DEF AnalyzerTyped
    <2>7. QED BY <1>1, <1>2, <1>3, <2>2, <2>4, <2>5, <2>6 DEF AnalyzerTyped, ContentTyped
  <1>9. \A ops : Effective(p, ops)' => "execve" \in ops
    BY <1>2, <1>5 DEF Effective, Does, Succeeded, NoCall
  <1>10. \A f \in Fd : ~Reflagged(p, f)'
    BY <1>9 DEF Reflagged
  <1>11. LoopMoves(p)
    <2>1. CallOf(p)' BY <1>2, <1>4, <1>5 DEF CallOf, Does, FdCalls
    <2>2. EffectOf(p)' BY <1>2, <1>5, <1>9 DEF EffectOf, Duplicating
    <2>3. \A f \in Fd : Agrees(p, f)' BY <1>2, <1>5, <1>6 DEF Agrees, IsOpen, Bound
    <2>4. QED BY <1>2, <1>4, <1>5, <2>1, <2>2, <2>3 DEF LoopMoves
  <1>12. ~Transferring(p)'
    BY <1>2, <1>5 DEF Transferring, Does, Transfers, NoCall
  <1>13. ObservationsKept(p) BY <1>2, <1>12 DEF ObservationsKept, IInv, ObservationsInv
  <1>14. LinkedInv' /\ EdgesInv' BY <1>2, LoopLinks
  <1>15. NamesInv' BY <1>4, <1>5, <1>11, RebindNames
  <1>16. QED BY <1>7, <1>8, <1>11, <1>13, <1>14, <1>15, LoopKeeps

(* What the analyzer is not behind at stays as it is.                      *)
LEMMA SameBound ==
  ASSUME IInv, NEW p \in Proc, status[p] \in {"returned", "execed"}, NEW f \in Fd, NEW b,
         b[f] = bindings[p][f], ~Stale(p, f), ~Reflagged(p, f) \/ ~Bound(p, f)
  PROVE  Rebound(p, b, f)
  <1>1. Tracked(p) BY DEF IInv, CallsInv, CallOf, Tracked, Known
  <1>2. Agrees(p, f) BY <1>1 DEF IInv, AgreeInv
  <1>3. CASE ~Bound(p, f) BY <1>2, <1>3 DEF Agrees, Bound, Rebound
  <1>4. CASE Bound(p, f)
    <2>1. bindings[p][f] \in Binding BY <1>4 DEF IInv, AnalyzerTyped, Bound
    <2>2. IsOpen(p, f) /\ bindings[p][f].cloexec = table[p][f].cloexec
      BY <1>2, <1>4 DEF Agrees
    <2>3. b[f] = [bindings[p][f] EXCEPT !.cloexec = table[p][f].cloexec]
      BY <2>1, <2>2 DEF Binding
    <2>4. QED BY <1>1, <1>4, <2>2, <2>3 DEF Rebound, Refers
  <1>5. QED BY <1>3, <1>4

(* A call whose exit is handled has returned; its process is known.        *)
LEMMA Returned ==
  ASSUME IInv, NEW p \in Proc, status[p] = "returned"
  PROVE  /\ p \in discovered /\ Tracked(p) /\ call[p] \in Recorded /\ EffectOf(p)
         /\ Does(p, FdCalls) => call[p].fd \in Fd
         /\ bindings[p] \in [Fd -> {Unbound} \cup Binding]
         /\ \A f \in Fd : IsOpen(p, f) => table[p][f].obj \in Object
  <1>1. p \in discovered /\ (Does(p, FdCalls) => call[p].fd \in Fd)
    BY DEF IInv, CallsInv, CallOf
  <1>2. Tracked(p) BY <1>1 DEF Tracked, Known
  <1>3. QED BY <1>1, <1>2 DEF IInv, KernelTyped, AnalyzerTyped, EffectInv, IsOpen, Opened

LEMMA HandledKeeps ==
  ASSUME IInv, NEW p \in Proc, NEW op, Handled(p, op), NEW b, NEW o \in Object,
         Rebind(p, b), b = [f \in Fd |-> b[f]],
         \/ nextResource' = nextResource /\ \A f \in Fd : Rebound(p, b, f)
         \/ /\ nextResource' = nextResource + 1 /\ Alone(o)
            /\ \A f \in Fd : Rebound(p, b, f) \/ FirstBound(p, b, f, o)
  PROVE  IInv'
  <1>1. NoCall \in Recorded BY DEF NoCall, Recorded
  <1>2. Rebinds(p, b, o, NoCall, "running") BY DEF Rebinds, Handled, Rebind
  <1>3. QED BY <1>1, <1>2, RebindKeeps

LEMMA ExitIgnoredKeeps == ASSUME IInv, NEW p \in Proc, ExitIgnored(p) PROVE IInv'
  <1>1. /\ Handled(p, call[p].op) /\ status[p] = "returned"
        /\ ~Succeeded(p) \/ call[p].op \in {"socket", "fork", "execve"}
        /\ UNCHANGED << bindings, snapshot, discovered, inherited, nextResource, flow >>
    BY DEF ExitIgnored, Handled, tables
  <1>2. 1 \in Object BY WorkloadAssumption DEF Object
  <1>3. bindings[p] \in [Fd -> {Unbound} \cup Binding] BY <1>1, Returned
  <1>4. Rebind(p, bindings[p]) BY <1>1 DEF Rebind, IInv, AnalyzerTyped
  <1>5. \A f \in Fd : ~Stale(p, f) /\ ~Reflagged(p, f)
    BY <1>1 DEF Stale, Reflagged, Effective, Does, Duplicating
  <1>6. \A f \in Fd : Rebound(p, bindings[p], f) BY <1>1, <1>5, SameBound
  <1>7. QED BY <1>1, <1>2, <1>3, <1>4, <1>6, HandledKeeps

LEMMA HandlePipeExitKeeps == ASSUME IInv, NEW p \in Proc, HandlePipeExit(p) PROVE IInv'
  <1>1. PICK r, w, x, b :
          /\ r = Made(p) /\ w = call[p].to /\ x = call[p].flag
          /\ b = [bindings[p] EXCEPT ![r] = New("pipe", "read", x), ![w] = New("pipe", "write", x)]
    OBVIOUS
  <1>2. /\ Handled(p, "pipe") /\ Rebind(p, b) /\ nextResource' = nextResource + 1
        /\ status[p] = "returned" /\ Effective(p, {"pipe"})
    BY <1>1 DEF HandlePipeExit, Handled, Effective, Does, Made
  <1>3. /\ EffectOf(p) /\ bindings[p] \in [Fd -> {Unbound} \cup Binding]
        /\ \A f \in Fd : IsOpen(p, f) => table[p][f].obj \in Object
    BY <1>2, Returned
  <1>4. r \in Fd /\ PipeMade(p) /\ PipeAlone(p)
    BY <1>1, <1>2, <1>3 DEF EffectOf, Effective, Does
  <1>5. PICK o \in Object : o = table[p][r].obj BY <1>1, <1>3, <1>4 DEF PipeMade
  <1>6. w \in Fd /\ w # r /\ IsOpen(p, r) /\ IsOpen(p, w) /\ kind[o] = "pipe"
        /\ table[p][r].role = "read" /\ table[p][r].cloexec = x
        /\ table[p][w].role = "write" /\ table[p][w].cloexec = x /\ table[p][w].obj = o
    BY <1>1, <1>4, <1>5 DEF PipeMade, Pipe
  <1>7. \A f \in {r, w} : FirstBound(p, b, f, o)
    BY <1>1, <1>3, <1>4, <1>5, <1>6 DEF FirstBound
  <1>8. ASSUME NEW f \in Fd \ {r, w} PROVE Rebound(p, b, f)
    <2>1. ~Stale(p, f) /\ ~Reflagged(p, f)
      BY <1>1, <1>2 DEF Stale, Reflagged, Effective, Does, Duplicating
    <2>2. b[f] = bindings[p][f] BY <1>1, <1>3
    <2>3. QED BY <1>2, <2>1, <2>2, SameBound
  <1>9. Alone(o)
    <2>. SUFFICES ASSUME NEW q \in Proc, NEW g \in Fd, Refers(q, g), table[q][g].obj = o
                  PROVE  FALSE
      BY DEF Alone
    <2>1. q = p /\ g \in {r, w} BY <1>1, <1>4, <1>5 DEF PipeAlone
    <2>2. Stale(q, g) BY <1>1, <1>2, <2>1 DEF Stale
    <2>3. QED BY <2>2 DEF Refers
  <1>10. b = [f \in Fd |-> b[f]] BY <1>1, <1>3
  <1>11. QED BY <1>2, <1>7, <1>8, <1>9, <1>10, HandledKeeps

LEMMA HandleOpenExitKeeps == ASSUME IInv, NEW p \in Proc, HandleOpenExit(p) PROVE IInv'
  <1>1. PICK r, x, b : /\ r = Made(p) /\ x = call[p].flag
                       /\ b = [bindings[p] EXCEPT ![r] = New("file", "readwrite", x)]
    OBVIOUS
  <1>2. /\ Handled(p, "open") /\ Rebind(p, b) /\ nextResource' = nextResource + 1
        /\ status[p] = "returned" /\ Effective(p, {"open"})
    BY <1>1 DEF HandleOpenExit, Handled, Effective, Does, Made
  <1>3. /\ EffectOf(p) /\ bindings[p] \in [Fd -> {Unbound} \cup Binding]
        /\ \A f \in Fd : IsOpen(p, f) => table[p][f].obj \in Object
    BY <1>2, Returned
  <1>4. r \in Fd /\ IsOpen(p, r) /\ table[p][r].role = "readwrite" /\ table[p][r].cloexec = x
        /\ kind[table[p][r].obj] = "file"
    BY <1>1, <1>2, <1>3 DEF EffectOf, Effective, Does
  <1>5. PICK o \in Object : o = table[p][r].obj BY <1>3, <1>4
  <1>6. FirstBound(p, b, r, o) BY <1>1, <1>3, <1>4, <1>5 DEF FirstBound
  <1>7. ASSUME NEW f \in Fd \ {r} PROVE Rebound(p, b, f)
    <2>1. ~Stale(p, f) /\ ~Reflagged(p, f)
      BY <1>1, <1>2 DEF Stale, Reflagged, Effective, Does, Duplicating
    <2>2. b[f] = bindings[p][f] BY <1>1, <1>3
    <2>3. QED BY <1>2, <2>1, <2>2, SameBound
  <1>8. Alone(o) BY <1>4, <1>5 DEF Alone, Pipe
  <1>9. b = [f \in Fd |-> b[f]] BY <1>1, <1>3
  <1>10. QED BY <1>2, <1>6, <1>7, <1>8, <1>9, HandledKeeps

LEMMA HandleCloseExitKeeps == ASSUME IInv, NEW p \in Proc, HandleCloseExit(p) PROVE IInv'
  <1>1. PICK r, b : r = call[p].fd /\ b = [bindings[p] EXCEPT ![r] = Unbound] OBVIOUS
  <1>2. /\ Handled(p, "close") /\ Rebind(p, b) /\ nextResource' = nextResource
        /\ status[p] = "returned" /\ Effective(p, {"close"})
    BY <1>1 DEF HandleCloseExit, Handled, Effective, Does
  <1>3. EffectOf(p) /\ bindings[p] \in [Fd -> {Unbound} \cup Binding] BY <1>2, Returned
  <1>4. ~IsOpen(p, r) BY <1>1, <1>2, <1>3 DEF EffectOf
  <1>5. ASSUME NEW f \in Fd PROVE Rebound(p, b, f)
    <2>1. CASE f = r BY <1>1, <1>3, <1>4, <2>1 DEF Rebound
    <2>2. CASE f # r
      <3>1. ~Stale(p, f) /\ ~Reflagged(p, f)
        BY <1>1, <1>2, <2>2 DEF Stale, Reflagged, Effective, Does, Duplicating
      <3>2. b[f] = bindings[p][f] BY <1>1, <1>3, <2>2
      <3>3. QED BY <1>2, <3>1, <3>2, SameBound
    <2>3. QED BY <2>1, <2>2
  <1>6. b = [f \in Fd |-> b[f]] BY <1>1, <1>3
  <1>7. 1 \in Object BY WorkloadAssumption DEF Object
  <1>8. QED BY <1>2, <1>5, <1>6, <1>7, HandledKeeps

LEMMA HandleSetfdExitKeeps == ASSUME IInv, NEW p \in Proc, HandleSetfdExit(p) PROVE IInv'
  <1>1. PICK r, x, b :
          /\ r = call[p].fd /\ x = call[p].flag
          /\ b = IF Bound(p, r) THEN [bindings[p] EXCEPT ![r].cloexec = x] ELSE bindings[p]
    OBVIOUS
  <1>2. /\ Handled(p, "F_SETFD") /\ Rebind(p, b) /\ nextResource' = nextResource
        /\ status[p] = "returned" /\ Effective(p, {"F_SETFD"})
    BY <1>1 DEF HandleSetfdExit, Handled, Effective, Does
  <1>3. EffectOf(p) /\ bindings[p] \in [Fd -> {Unbound} \cup Binding] /\ Tracked(p)
    BY <1>2, Returned
  <1>4. IsOpen(p, r) /\ table[p][r].cloexec = x BY <1>1, <1>2, <1>3 DEF EffectOf
  <1>5. \A f \in Fd : ~Stale(p, f) /\ (f # r => ~Reflagged(p, f))
    BY <1>1, <1>2 DEF Stale, Reflagged, Effective, Does, Duplicating
  <1>6. ASSUME NEW f \in Fd PROVE Rebound(p, b, f)
    <2>1. CASE f = r /\ Bound(p, r)
      <3>1. b[f] = [bindings[p][f] EXCEPT !.cloexec = table[p][f].cloexec]
        BY <1>1, <1>3, <1>4, <2>1
      <3>2. Refers(p, f) BY <1>3, <1>5, <2>1 DEF Refers
      <3>3. QED BY <1>4, <2>1, <3>1, <3>2 DEF Rebound
    <2>2. CASE ~(f = r /\ Bound(p, r))
      <3>1. b[f] = bindings[p][f] BY <1>1, <1>3, <2>2
      <3>2. ~Reflagged(p, f) \/ ~Bound(p, f) BY <1>5, <2>2
      <3>3. QED BY <1>2, <1>5, <3>1, <3>2, SameBound
    <2>3. QED BY <2>1, <2>2
  <1>7. b = [f \in Fd |-> b[f]] BY <1>1, <1>3
  <1>8. 1 \in Object BY WorkloadAssumption DEF Object
  <1>9. QED BY <1>2, <1>6, <1>7, <1>8, HandledKeeps

LEMMA HandleDupExitKeeps == ASSUME IInv, NEW p \in Proc, HandleDupExit(p) PROVE IInv'
  <1>1. PICK op \in Duplicating : Handled(p, op) BY DEF HandleDupExit, Duplicating
  <1>2. PICK r, s, x : r = Made(p) /\ s = call[p].fd /\ x = call[p].flag OBVIOUS
  <1>3. /\ status[p] = "returned" /\ Effective(p, Duplicating) /\ Does(p, FdCalls)
        /\ nextResource' = nextResource
    BY <1>1 DEF HandleDupExit, Handled, Effective, Does, Duplicating, FdCalls
  <1>4. /\ EffectOf(p) /\ bindings[p] \in [Fd -> {Unbound} \cup Binding] /\ Tracked(p)
        /\ s \in Fd
    BY <1>2, <1>3, Returned
  <1>5. r \in Fd BY <1>2, <1>3, <1>4 DEF EffectOf, Effective, Does
  <1>6. /\ IsOpen(p, s) /\ (s = r => call[p].op = "dup2")
        /\ s # r => table[p][r] = [table[p][s] EXCEPT !.cloexec = x]
    BY <1>2, <1>3, <1>4 DEF EffectOf, Does
  <1>7. table[p][s] \in Opened BY <1>4, <1>6 DEF IInv, KernelTyped, IsOpen
  <1>8. s # r => /\ table[p][r] \in Opened /\ IsOpen(p, r) /\ table[p][r].cloexec = x
                 /\ table[p][r].obj = table[p][s].obj /\ table[p][r].role = table[p][s].role
    <2>. SUFFICES ASSUME s # r
                  PROVE  /\ table[p][r] \in Opened /\ IsOpen(p, r) /\ table[p][r].cloexec = x
                         /\ table[p][r].obj = table[p][s].obj
                         /\ table[p][r].role = table[p][s].role
      OBVIOUS
    <2>1. x \in BOOLEAN BY <1>2, <1>3, Returned DEF Recorded
    <2>2. /\ table[p][r] \in Opened /\ table[p][r].cloexec = x
          /\ table[p][r].obj = table[p][s].obj /\ table[p][r].role = table[p][s].role
      BY <1>6, <1>7, <2>1 DEF Opened
    <2>3. table[p][r] # Closed
      BY <2>2, WorkloadAssumption DEF Opened, Object, Closed
    <2>4. QED BY <2>2, <2>3 DEF IsOpen
  <1>9. \A f \in Fd : ~Reflagged(p, f) /\ (Stale(p, f) => f = r /\ f # s)
    BY <1>2, <1>3 DEF Stale, Reflagged, Effective, Does, Duplicating
  <1>10. PICK b : /\ Rebind(p, b)
                  /\ s = r => b = bindings[p]
                  /\ s # r /\ ~Bound(p, s) => b = [bindings[p] EXCEPT ![r] = Unbound]
                  /\ s # r /\ Bound(p, s) =>
                       b = [bindings[p] EXCEPT ![r] = [bindings[p][s] EXCEPT !.cloexec = x]]
    <2>1. CASE s = r
      <3>1. call[p].op = "dup2" /\ call[p].fd = Of(call[p].ret) BY <1>2, <1>6, <2>1 DEF Made
      <3>2. Rebind(p, bindings[p]) BY <3>1 DEF HandleDupExit
      <3>3. QED BY <2>1, <3>2
    <2>2. CASE s # r /\ ~Bound(p, s)
      <3>1. Rebind(p, [bindings[p] EXCEPT ![r] = Unbound])
        BY <1>2, <2>2 DEF HandleDupExit, Made
      <3>2. QED BY <2>2, <3>1
    <2>3. CASE s # r /\ Bound(p, s)
      <3>1. Rebind(p, [bindings[p] EXCEPT ![r] = [bindings[p][s] EXCEPT !.cloexec = x]])
        BY <1>2, <2>3 DEF HandleDupExit, Made
      <3>2. QED BY <2>3, <3>1
    <2>4. QED BY <2>1, <2>2, <2>3
  <1>11. ASSUME NEW f \in Fd PROVE Rebound(p, b, f)
    <2>1. CASE f # r \/ s = r
      <3>1. b[f] = bindings[p][f] BY <1>4, <1>10, <2>1
      <3>2. QED BY <1>3, <1>9, <2>1, <3>1, SameBound
    <2>2. CASE f = r /\ s # r /\ ~Bound(p, s)
      <3>1. b[f] = Unbound BY <1>4, <1>10, <2>2
      <3>2. Agrees(p, s) BY <1>4, <1>9 DEF IInv, AgreeInv
      <3>3. kind[table[p][f].obj] = "socket" BY <1>6, <1>8, <2>2, <3>2 DEF Agrees
      <3>4. QED BY <3>1, <3>3 DEF Rebound
    <2>3. CASE f = r /\ s # r /\ Bound(p, s)
      <3>1. b[f] = [bindings[p][s] EXCEPT !.cloexec = x] BY <1>4, <1>10, <2>3
      <3>2. Refers(p, s) BY <1>4, <1>9, <2>3 DEF Refers
      <3>3. QED BY <1>4, <1>8, <2>3, <3>1, <3>2 DEF Rebound
    <2>4. QED BY <2>1, <2>2, <2>3
  <1>12. b = [f \in Fd |-> b[f]] BY <1>4, <1>5, <1>10
  <1>13. 1 \in Object BY WorkloadAssumption DEF Object
  <1>14. QED BY <1>1, <1>3, <1>10, <1>11, <1>12, <1>13, HandledKeeps

LEMMA HandleExecSuccessKeeps == ASSUME IInv, NEW p \in Proc, HandleExecSuccess(p) PROVE IInv'
  <1>. DEFINE b == [f \in Fd |-> IF bindings[p][f].cloexec THEN Unbound ELSE bindings[p][f]]
              c == [call[p] EXCEPT !.ret = 1]
  <1>1. /\ status[p] = "execed" /\ status' = [status EXCEPT ![p] = "returned"]
        /\ call' = [call EXCEPT ![p].ret = 1]
        /\ bindings' = [bindings EXCEPT ![p] = b]
        /\ UNCHANGED << kernel, snapshot, discovered, inherited, flow, nextResource >>
    BY DEF HandleExecSuccess, Resumes, Rebind, kernel
  <1>2. call[p] \in Recorded /\ call[p].op = "execve" /\ EffectOf(p)
    BY <1>1 DEF IInv, KernelTyped, CallsInv, CallOf, Does, EffectInv
  <1>3. c \in Recorded /\ c.op = "execve" BY <1>2 DEF Recorded
  <1>4. call' = [call EXCEPT ![p] = c] BY <1>1 DEF IInv, KernelTyped
  <1>5. ASSUME NEW f \in Fd PROVE Rebound(p, b, f)
    <2>1. CASE bindings[p][f].cloexec
      <3>1. ~IsOpen(p, f) BY <1>1, <1>2, <2>1 DEF EffectOf
      <3>2. QED BY <2>1, <3>1 DEF Rebound
    <2>2. CASE ~bindings[p][f].cloexec
      <3>1. ~Stale(p, f) /\ ~Reflagged(p, f) BY <1>1, <2>2 DEF Stale, Reflagged, Effective
      <3>2. QED BY <1>1, <2>2, <3>1, SameBound
    <2>3. QED BY <2>1, <2>2
  <1>6. 1 \in Object BY WorkloadAssumption DEF Object
  <1>. HIDE DEF c
  <1>7. Rebinds(p, b, 1, c, "returned") BY <1>1, <1>3, <1>4, <1>5 DEF Rebinds
  <1>8. b = [f \in Fd |-> b[f]] OBVIOUS
  <1>9. QED BY <1>3, <1>6, <1>7, <1>8, RebindKeeps

-----------------------------------------------------------------------------
(* What links a read to a write.                                           *)
LEMMA LinksAreReal ==
  ASSUME NEW n \in Nat, NEW obs, DOMAIN obs = 1 .. n, NEW reads, reads \subseteq DOMAIN obs,
         NEW e \in Links(obs, reads)
  PROVE  e[1] \in DOMAIN obs /\ e[2] \in reads /\ MaySupply(obs, e[1], e[2])
         /\ e \in (DOMAIN obs) \X (DOMAIN obs)
  <1>1. PICK r \in reads : Suppliers(obs, r) # {} /\ e = << Max(Suppliers(obs, r)), r >>
    BY DEF Links
  <1>2. Suppliers(obs, r) \subseteq 1 .. n BY DEF Suppliers
  <1>3. Max(Suppliers(obs, r)) \in Suppliers(obs, r) BY <1>1, <1>2, MaxIsGreatest
  <1>4. QED BY <1>1, <1>3 DEF Suppliers

LEMMA LinksAreMade ==
  ASSUME NEW n \in Nat, NEW obs, DOMAIN obs = 1 .. n, NEW reads, reads \subseteq DOMAIN obs,
         NEW r \in reads, NEW w \in DOMAIN obs, MaySupply(obs, w, r)
  PROVE  \E v \in DOMAIN obs : << v, r >> \in Links(obs, reads)
  <1>1. w \in Suppliers(obs, r) BY DEF Suppliers
  <1>2. Suppliers(obs, r) \subseteq 1 .. n BY DEF Suppliers
  <1>3. Max(Suppliers(obs, r)) \in Suppliers(obs, r) BY <1>1, <1>2, MaxIsGreatest
  <1>4. << Max(Suppliers(obs, r)), r >> \in Links(obs, reads) BY <1>1 DEF Links
  <1>5. QED BY <1>3, <1>4 DEF Suppliers

(* A call that moves data ends well: its observation i becomes x, and the  *)
(* links of the reads it completes are added.                              *)
TransferDone(p, op, i, x, reads) ==
  /\ Handled(p, op) /\ Succeeded(p) /\ UNCHANGED tables
  /\ i \in DOMAIN observations /\ i = call[p].obs /\ x \in Observed
  /\ observations' = [observations EXCEPT ![i] = x]
  /\ x.done /\ x.op = observations[i].op /\ x.res = observations[i].res
  /\ x.obj = observations[i].obj /\ x.token = observations[i].token
  /\ reads \subseteq DOMAIN observations
  /\ edges' = edges \cup Links(observations', reads)
  /\ op = "read" => i \in reads
  /\ \A r \in DOMAIN observations :
       op = "write" /\ r # i /\ MaySupply(observations', i, r) => r \in reads

LEMMA TransferHandledKeeps ==
  ASSUME IInv, NEW p \in Proc, NEW op \in Transfers, NEW i, NEW x, NEW reads,
         TransferDone(p, op, i, x, reads)
  PROVE  IInv'
  <1>. USE DEF TransferDone
  <1>1. KernelTyped /\ AnalyzerTyped /\ observations \in Seq(Observed) BY DEF IInv, AnalyzerTyped
  <1>2. /\ UNCHANGED << kind, content, table, early, bindings, snapshot, discovered, inherited,
                        nextResource >>
        /\ status[p] = "returned" /\ Does(p, {op}) /\ Effective(p, {op})
        /\ status' = [status EXCEPT ![p] = "running"] /\ call' = [call EXCEPT ![p] = NoCall]
    BY DEF Handled, kernel, tables, Effective, Does
  <1>3. p \in discovered /\ Tracked(p) BY <1>2, Returned
  <1>4. ObservationOf(p) /\ Effective(p, Transfers)
    BY <1>2 DEF IInv, ObservationsInv, Transferring, Does, Effective
  <1>5. /\ i \in DOMAIN observations /\ ~observations[i].done /\ observations[i].op = op
        /\ IsOpen(p, call[p].fd) /\ observations[i].obj = table[p][call[p].fd].obj
    BY <1>2, <1>4 DEF ObservationOf, Does
  <1>6. call[p].fd \in Fd BY <1>2, Returned DEF Does, FdCalls, Transfers
  <1>7. observations[i].obj # 0
    BY <1>1, <1>5, <1>6, WorkloadAssumption DEF KernelTyped, IsOpen, Opened, Object
  <1>8. PICK n \in Nat : DOMAIN observations = 1 .. n BY <1>1
  <1>9. /\ observations' \in Seq(Observed) /\ DOMAIN observations' = DOMAIN observations
        /\ observations'[i] = x
        /\ \A j \in DOMAIN observations : j # i => observations'[j] = observations[j]
    BY <1>1, <1>5
  <1>10. /\ status'[p] = "running" /\ call'[p] = NoCall
         /\ \A q \in Proc \ {p} : status'[q] = status[q] /\ call'[q] = call[q]
    BY <1>1, <1>2 DEF KernelTyped
  <1>11. KernelTyped'
    <2>1. NoCall \in Recorded BY DEF NoCall, Recorded
    <2>2. call' \in [Proc -> Recorded] /\ status' \in
            [Proc -> {"none", "running", "called", "returned", "forked", "execed", "ended"}]
      BY <1>1, <1>2, <2>1 DEF KernelTyped
    <2>3. QED BY <1>1, <1>2, <2>2 DEF KernelTyped, IsOpen
  <1>12. \A j \in DOMAIN observations :
           observations'[j].res = observations[j].res /\ observations'[j].obj = observations[j].obj
    BY <1>9
  <1>13. AnalyzerTyped'
    <2>1. edges' \subseteq (DOMAIN observations) \X (DOMAIN observations)
      <3>1. \A e \in Links(observations', reads) : e \in (DOMAIN observations) \X (DOMAIN observations)
        BY <1>1, <1>8, <1>9, LinksAreReal
      <3>2. QED BY <1>1, <1>8, <1>9, <3>1 DEF AnalyzerTyped
    <2>2. QED BY <1>1, <1>2, <1>9, <1>12, <2>1 DEF AnalyzerTyped, ContentTyped
  <1>14. \A ops : ~Effective(p, ops)' BY <1>10 DEF Effective
  <1>15. LoopMoves(p)
    <2>1. CallOf(p)' BY <1>10 DEF CallOf
    <2>2. EffectOf(p)' BY <1>10, <1>14 DEF EffectOf
    <2>3. ASSUME NEW f \in Fd PROVE Agrees(p, f)'
      <3>1. ~Stale(p, f) /\ ~Reflagged(p, f)
        BY <1>2 DEF Stale, Reflagged, Effective, Does, Duplicating, Transfers
      <3>2. Agrees(p, f) BY <1>3, <3>1 DEF IInv, AgreeInv
      <3>3. QED BY <1>2, <3>1, <3>2 DEF Agrees, IsOpen, Bound
    <2>4. QED BY <1>2, <1>3, <1>10, <2>1, <2>2, <2>3 DEF LoopMoves
  <1>16. ObservationsKept(p)
    <2>1. Transferring(p) BY <1>2 DEF Transferring, Does
    <2>2. ~Transferring(p)' BY <1>10 DEF Transferring
    <2>3. \A j \in DOMAIN observations' : observations'[j].done => observations'[j].obj # 0
      BY <1>7, <1>9 DEF IInv, ObservationsInv
    <2>4. QED BY <1>9, <2>1, <2>2, <2>3 DEF ObservationsKept
  <1>17. PICK object \in [Id -> Object], id \in [Proc -> [Object -> Nat]] : Named(object, id)
    BY DEF IInv, NamesInv
  <1>18. \A j \in DOMAIN observations :
           observations[j].obj # 0 /\ observations[j].res # 0 =>
             object[observations[j].res] = observations[j].obj
    BY <1>17 DEF Named
  <1>19. NamesInv'
    <2>1. \A q \in Proc, f \in Fd : Refers(q, f)' => Refers(q, f)
      <3>. SUFFICES ASSUME NEW q \in Proc, NEW f \in Fd, Refers(q, f)' PROVE Refers(q, f) OBVIOUS
      <3>1. CASE q = p
        <4>1. ~Stale(p, f) BY <1>2 DEF Stale, Effective, Does, Duplicating, Transfers
        <4>2. QED BY <1>2, <1>3, <3>1, <4>1 DEF Refers, Bound
      <3>2. CASE q # p BY <1>15, <3>2, LoopOthers
      <3>3. QED BY <3>1, <3>2
    <2>2. \A q \in Proc : Family(q)' = Family(q) BY <1>2 DEF Family, Early
    <2>3. Named(object, id)' BY <1>2, <1>9, <1>12, <1>17, <2>1, <2>2, SMTT(20) DEF Named, Pipe
    <2>4. Id' = Id BY <1>2 DEF Id
    <2>5. QED BY <1>17, <2>3, <2>4 DEF NamesInv
  <1>20. LinkedInv'
    <2>. SUFFICES ASSUME NEW w \in DOMAIN observations, NEW r \in DOMAIN observations,
                         MaySupply(observations', w, r)
                  PROVE  \E v \in DOMAIN observations : << v, r >> \in edges'
      BY <1>9 DEF LinkedInv
    <2>1. CASE w # i /\ r # i
      <3>1. MaySupply(observations, w, r) BY <1>9, <2>1 DEF MaySupply
      <3>2. QED BY <3>1 DEF IInv, LinkedInv
    <2>2. CASE ~(w # i /\ r # i)
      <3>1. r \in reads
        <4>1. (w = i => op = "write") /\ (r = i => op = "read")
          BY <1>5, <1>9 DEF MaySupply, IsPipeEnd
        <4>2. QED BY <2>2, <4>1
      <3>2. QED BY <1>8, <1>9, <3>1, LinksAreMade
    <2>3. QED BY <2>1, <2>2
  <1>21. EdgesInv'
    <2>. SUFFICES ASSUME NEW e \in edges'
                  PROVE  /\ observations'[e[1]].done /\ observations'[e[2]].done
                         /\ observations'[e[1]].obj = observations'[e[2]].obj
                         /\ observations'[e[1]].token = observations'[e[2]].token
                         /\ e[1] <= observations'[e[2]].end
      BY DEF EdgesInv
    <2>1. CASE e \in edges
      <3>1. /\ observations[e[1]].done /\ observations[e[2]].done
            /\ observations[e[1]].obj = observations[e[2]].obj
            /\ observations[e[1]].token = observations[e[2]].token
            /\ e[1] <= observations[e[2]].end
        BY <2>1 DEF IInv, EdgesInv
      <3>2. e[1] \in DOMAIN observations /\ e[2] \in DOMAIN observations
        BY <1>1, <2>1 DEF AnalyzerTyped
      <3>3. QED BY <1>5, <1>9, <3>1, <3>2
    <2>2. CASE e \in Links(observations', reads)
      <3>1. /\ e[1] \in DOMAIN observations /\ e[2] \in DOMAIN observations
            /\ MaySupply(observations', e[1], e[2])
        BY <1>8, <1>9, <2>2, LinksAreReal
      <3>2. /\ observations'[e[1]].done /\ observations'[e[2]].done
            /\ observations'[e[1]].res = observations'[e[2]].res /\ observations'[e[1]].res # 0
            /\ observations'[e[1]].token = observations'[e[2]].token
            /\ e[1] <= observations'[e[2]].end
        BY <3>1 DEF MaySupply, IsPipeEnd
      <3>3. observations'[e[1]].obj # 0 /\ observations'[e[2]].obj # 0
        BY <1>9, <1>16, <3>1, <3>2 DEF ObservationsKept
      <3>4. observations'[e[1]].obj = observations'[e[2]].obj
        BY <1>12, <1>18, <3>1, <3>2, <3>3
      <3>5. QED BY <3>2, <3>4
    <2>3. QED BY <2>1, <2>2
  <1>22. QED BY <1>11, <1>13, <1>15, <1>16, <1>19, <1>20, <1>21, LoopKeeps

LEMMA HandleWriteExitKeeps == ASSUME IInv, NEW p \in Proc, HandleWriteExit(p) PROVE IInv'
  <1>1. PICK i, x : i = call[p].obs /\ x = [observations[i] EXCEPT !.done = TRUE] OBVIOUS
  <1>. DEFINE reads == {r \in DOMAIN observations :
                          /\ IsPipeEnd(observations'[i], "write")
                          /\ IsPipeEnd(observations[r], "read")
                          /\ observations[r].res = observations[i].res
                          /\ observations[r].token = observations[i].token}
  <1>2. /\ Handled(p, "write") /\ Succeeded(p) /\ UNCHANGED tables
        /\ status[p] = "returned" /\ call[p].op = "write"
        /\ observations' = [observations EXCEPT ![i].done = TRUE]
        /\ edges' = edges \cup Links(observations', reads)
    BY <1>1 DEF HandleWriteExit, Handled
  <1>3. observations \in Seq(Observed) BY DEF IInv, AnalyzerTyped
  <1>4. i \in DOMAIN observations
    BY <1>1, <1>2 DEF IInv, ObservationsInv, Transferring, Does, Transfers, ObservationOf
  <1>5. observations[i] \in Observed BY <1>3, <1>4
  <1>6. observations' = [observations EXCEPT ![i] = x] BY <1>1, <1>2
  <1>7. /\ x \in Observed /\ x.done /\ x.op = observations[i].op /\ x.res = observations[i].res
        /\ x.obj = observations[i].obj /\ x.token = observations[i].token
    BY <1>1, <1>5 DEF Observed
  <1>8. ASSUME NEW r \in DOMAIN observations, r # i, MaySupply(observations', i, r)
        PROVE  r \in reads
    <2>1. observations'[r] = observations[r] /\ observations'[i] = x BY <1>3, <1>4, <1>6, <1>8
    <2>2. QED BY <1>7, <1>8, <2>1 DEF MaySupply
  <1>9. reads \subseteq DOMAIN observations OBVIOUS
  <1>. HIDE DEF reads
  <1>10. i = call[p].obs BY <1>1
  <1>11. "write" \in Transfers BY DEF Transfers
  <1>12. \A r \in DOMAIN observations :
           "write" = "write" /\ r # i /\ MaySupply(observations', i, r) => r \in reads
    BY <1>8
  <1>13. TransferDone(p, "write", i, x, reads)
    BY <1>2, <1>4, <1>6, <1>7, <1>9, <1>10, <1>12 DEF TransferDone
  <1>14. QED BY <1>11, <1>13, TransferHandledKeeps

LEMMA HandleReadExitKeeps == ASSUME IInv, NEW p \in Proc, HandleReadExit(p) PROVE IInv'
  <1>1. PICK i, x : /\ i = call[p].obs
                    /\ x = [observations[i] EXCEPT !.done = TRUE, !.end = Len(observations)]
    OBVIOUS
  <1>2. /\ Handled(p, "read") /\ Succeeded(p) /\ UNCHANGED tables
        /\ status[p] = "returned" /\ call[p].op = "read"
        /\ observations' = [observations EXCEPT ![i] = x]
        /\ edges' = edges \cup Links(observations', {i})
    BY <1>1 DEF HandleReadExit, Handled
  <1>3. observations \in Seq(Observed) /\ Len(observations) \in Nat BY DEF IInv, AnalyzerTyped
  <1>4. i \in DOMAIN observations
    BY <1>1, <1>2 DEF IInv, ObservationsInv, Transferring, Does, Transfers, ObservationOf
  <1>5. observations[i] \in Observed BY <1>3, <1>4
  <1>6. /\ x \in Observed /\ x.done /\ x.op = observations[i].op /\ x.res = observations[i].res
        /\ x.obj = observations[i].obj /\ x.token = observations[i].token
    BY <1>1, <1>3, <1>5 DEF Observed
  <1>. DEFINE reads == {i}
  <1>7. i \in reads /\ reads \subseteq DOMAIN observations
        /\ edges' = edges \cup Links(observations', reads)
    BY <1>2, <1>4
  <1>. HIDE DEF reads
  <1>8. "read" \in Transfers BY DEF Transfers
  <1>9. i = call[p].obs /\ observations' = [observations EXCEPT ![i] = x] BY <1>1, <1>2
  <1>10. \A r \in DOMAIN observations :
           "read" = "write" /\ r # i /\ MaySupply(observations', i, r) => r \in reads
    OBVIOUS
  <1>11. TransferDone(p, "read", i, x, reads)
    BY <1>2, <1>4, <1>6, <1>7, <1>9, <1>10 DEF TransferDone
  <1>12. QED BY <1>8, <1>11, TransferHandledKeeps

-----------------------------------------------------------------------------
(* The end of a process: its descriptors and its bindings go together.     *)
LEMMA ExitGroupKeeps == ASSUME IInv, NEW p \in Proc, ExitGroup(p) PROVE IInv'
  <1>1. /\ status[p] = "running" /\ status' = [status EXCEPT ![p] = "ended"]
        /\ table' = [table EXCEPT ![p] = [f \in Fd |-> Closed]]
        /\ bindings' = [bindings EXCEPT ![p] = [f \in Fd |-> Unbound]]
        /\ snapshot' = [snapshot EXCEPT ![p] = [f \in Fd |-> Unbound]]
        /\ discovered' = discovered \ {p} /\ nextResource' = MetNext(p)
        /\ UNCHANGED << kind, content, early, call, inherited, observations, edges >>
    BY DEF ExitGroup, MetNext, flow
  <1>2. KernelTyped /\ AnalyzerTyped BY DEF IInv
  <1>3. /\ nextResource \in Nat \ {0} /\ MetNext(p) \in Nat \ {0} /\ nextResource <= MetNext(p)
        /\ Id \subseteq 1 .. MetNext(p) - 1
    BY <1>2, NextGrows DEF AnalyzerTyped
  <1>4. /\ status'[p] = "ended" /\ call'[p] = call[p] /\ call[p] = NoCall
        /\ \A f \in Fd : table'[p][f] = Closed /\ bindings'[p][f] = Unbound
                         /\ snapshot'[p][f] = Unbound
        /\ \A q \in Proc \ {p} : /\ status'[q] = status[q] /\ call'[q] = call[q]
                                 /\ table'[q] = table[q] /\ bindings'[q] = bindings[q]
                                 /\ snapshot'[q] = snapshot[q]
    BY <1>1, <1>2 DEF KernelTyped, AnalyzerTyped, IInv, CallsInv, CallOf
  <1>5. KernelTyped'
    <2>1. status' \in [Proc -> {"none", "running", "called", "returned", "forked", "execed", "ended"}]
          /\ table' \in [Proc -> [Fd -> {Closed} \cup Opened]]
      BY <1>1, <1>2 DEF KernelTyped
    <2>2. \A q \in Proc, f \in Fd : IsOpen(q, f)' => table'[q][f].obj <= Len(kind)
      BY <1>2, <1>4 DEF KernelTyped, IsOpen
    <2>3. QED BY <1>1, <1>2, <2>1, <2>2 DEF KernelTyped
  <1>6. \A q \in Proc, f \in Fd :
          /\ bindings[q][f].res \in Nat /\ snapshot[q][f].res \in Nat
          /\ bindings[q][f] # Unbound => bindings[q][f].res \in Id
          /\ snapshot[q][f] # Unbound => snapshot[q][f].res \in Id
    <2>1. \A x \in Binding : x.res \in Nat /\ (x.res < nextResource => x.res \in Id)
      BY <1>3 DEF Binding, Id
    <2>2. Unbound.res \in Nat BY DEF Unbound
    <2>3. QED BY <1>2, <2>1, <2>2 DEF AnalyzerTyped
  <1>7. \A i \in DOMAIN observations : observations[i].res \in Nat
    <2>1. \A i \in DOMAIN observations : observations[i] \in Observed BY <1>2 DEF AnalyzerTyped
    <2>2. QED BY <2>1 DEF Observed
  <1>8. AnalyzerTyped'
    <2>1. bindings' \in [Proc -> [Fd -> {Unbound} \cup Binding]]
          /\ snapshot' \in [Proc -> [Fd -> {Unbound} \cup Binding]]
      BY <1>1, <1>2 DEF AnalyzerTyped
    <2>2. ASSUME NEW q \in Proc, NEW f \in Fd
          PROVE  bindings'[q][f].res < nextResource' /\ snapshot'[q][f].res < nextResource'
      <3>1. bindings[q][f].res < nextResource /\ snapshot[q][f].res < nextResource
        BY <1>2 DEF AnalyzerTyped
      <3>2. CASE q = p BY <1>1, <1>3, <1>4, <3>2 DEF Unbound
      <3>3. CASE q # p BY <1>1, <1>3, <1>4, <1>6, <3>1, <3>3
      <3>4. QED BY <3>2, <3>3
    <2>3. \A i \in DOMAIN observations : observations[i].res < nextResource'
      BY <1>1, <1>2, <1>3, <1>7 DEF AnalyzerTyped
    <2>4. QED BY <1>1, <1>2, <1>3, <2>1, <2>2, <2>3 DEF AnalyzerTyped, ContentTyped
  <1>9. \A ops : ~Effective(p, ops)' BY <1>4 DEF Effective
  <1>10. LoopMoves(p)
    <2>1. CallOf(p)' BY <1>4 DEF CallOf
    <2>2. EffectOf(p)' BY <1>4, <1>9 DEF EffectOf
    <2>3. ~Tracked(p)' BY <1>4 DEF Tracked
    <2>4. QED BY <1>1, <1>4, <2>1, <2>2, <2>3 DEF LoopMoves
  <1>11. ObservationsKept(p)
    BY <1>1, <1>4 DEF ObservationsKept, Transferring, IInv, ObservationsInv
  <1>12. LinkedInv' /\ EdgesInv' BY <1>1, LoopLinks
  <1>13. NamesInv'
    <2>1. PICK object \in [Id -> Object], id \in [Proc -> [Object -> Nat]] : Named(object, id)
      BY DEF IInv, NamesInv
    <2>2. PICK newObject \in [1 .. MetNext(p) - 1 -> Object] : \A i \in Id : newObject[i] = object[i]
      <3>. DEFINE m == [i \in 1 .. MetNext(p) - 1 |-> IF i \in Id THEN object[i] ELSE 1]
      <3>1. m \in [1 .. MetNext(p) - 1 -> Object] BY WorkloadAssumption DEF Object
      <3>2. \A i \in Id : m[i] = object[i] BY <1>3
      <3>. HIDE DEF m
      <3>3. QED BY <3>1, <3>2
    <2>3. Id' = 1 .. MetNext(p) - 1 BY <1>1 DEF Id
    <2>4. \A q \in Proc \ {p} : Family(q)' = Family(q) BY <1>1 DEF Family, Early
    <2>5. ASSUME NEW q \in Proc, NEW f \in Fd, Refers(q, f)'
          PROVE  /\ newObject[bindings'[q][f].res] = table'[q][f].obj
                 /\ kind'[table'[q][f].obj] = "pipe" =>
                      bindings'[q][f].res = id[Family(q)'][table'[q][f].obj]
      <3>1. q # p BY <1>4, <2>5 DEF Refers, Tracked
      <3>2. Refers(q, f) BY <1>10, <2>5, <3>1, LoopOthers
      <3>3. bindings[q][f].res \in Id BY <1>6, <3>2 DEF Refers, Bound
      <3>4. QED BY <1>1, <1>4, <2>1, <2>2, <2>4, <3>1, <3>2, <3>3 DEF Named, Pipe
    <2>6. ASSUME NEW q \in Proc, NEW f \in Fd
          PROVE  /\ bindings'[q][f].key # NoKey =>
                      newObject[bindings'[q][f].res] = bindings'[q][f].key
                 /\ snapshot'[q][f].key # NoKey =>
                      newObject[snapshot'[q][f].res] = snapshot'[q][f].key
      <3>1. CASE q = p BY <1>4, <3>1 DEF Unbound
      <3>2. CASE q # p
        <4>1. bindings'[q] = bindings[q] /\ snapshot'[q] = snapshot[q] BY <1>4, <3>2
        <4>2. /\ bindings[q][f].key # NoKey => object[bindings[q][f].res] = bindings[q][f].key
              /\ snapshot[q][f].key # NoKey => object[snapshot[q][f].res] = snapshot[q][f].key
          BY <2>1 DEF Named
        <4>3. /\ bindings[q][f].key # NoKey => bindings[q][f].res \in Id
              /\ snapshot[q][f].key # NoKey => snapshot[q][f].res \in Id
          BY <1>6 DEF Unbound
        <4>4. QED BY <2>2, <4>1, <4>2, <4>3
      <3>3. QED BY <3>1, <3>2
    <2>7. ASSUME NEW i \in DOMAIN observations, observations[i].obj # 0, observations[i].res # 0
          PROVE  newObject[observations[i].res] = observations[i].obj
      <3>1. observations[i].res \in Id BY <1>2, <1>3, <1>7, <2>7 DEF AnalyzerTyped, Id
      <3>2. QED BY <2>1, <2>2, <2>7, <3>1 DEF Named
    <2>8. Named(newObject, id)' BY <1>1, <2>5, <2>6, <2>7 DEF Named, Pipe
    <2>9. QED BY <2>1, <2>3, <2>8 DEF NamesInv
  <1>14. QED BY <1>5, <1>8, <1>10, <1>11, <1>12, <1>13, LoopKeeps

-----------------------------------------------------------------------------
(* The announcement of a child: it is given its creator's bindings, or, if *)
(* it has been met, ids that both have for one thing become one everywhere.*)
Like(x, b) ==
  /\ x.type = b.type /\ x.role = b.role /\ x.cloexec = b.cloexec
  /\ x = Unbound <=> b = Unbound

Adopts(p, c) == c \notin discovered /\ status[c] # "ended" /\ bindings'[c] = bindings[p]

LEMMA Announced ==
  ASSUME IInv, NEW p \in Proc, HandleTaskCreate(p), NEW c, c = call[p].child
  PROVE  /\ KernelTyped /\ AnalyzerTyped /\ status[p] = "forked" /\ call[p].op = "fork"
         /\ p \in discovered /\ c \in Proc \ {Root, p} /\ c \notin inherited /\ c \notin early
         /\ status[c] # "none"
         /\ c \notin discovered /\ status[c] # "ended" => status[c] = "running" /\ table[c] = table[p]
         /\ inherited' = inherited \cup {c}
         /\ early' = IF c \in discovered \/ Early(p) THEN early \cup {c} ELSE early
         /\ UNCHANGED << kind, content, table, discovered, nextResource >>
         /\ status' = [status EXCEPT ![p] = "returned"] /\ status'[p] = "returned"
         /\ call' = [call EXCEPT ![p] = [call[p] EXCEPT !.ret = 1]]
         /\ call'[p].op = "fork" /\ call'[p] \in Recorded
         /\ \A q \in Proc \ {p} : status'[q] = status[q] /\ call'[q] = call[q]
         /\ \A q \in Proc : call'[q].obs = call[q].obs /\ call'[q].fd = call[q].fd
                            /\ call'[q].op = call[q].op
         /\ \A q \in Proc : Transferring(q)' <=> Transferring(q)
         /\ \A q \in Proc : \A ops : "fork" \notin ops => (Effective(q, ops)' <=> Effective(q, ops))
         /\ \A q \in Proc : q # p => Made(q)' = Made(q)
  <1>1. /\ status[p] = "forked" /\ inherited' = inherited \cup {c}
        /\ early' = IF c \in discovered \/ Early(p) THEN early \cup {c} ELSE early
        /\ UNCHANGED << kind, content, table, discovered, nextResource >>
        /\ status' = [status EXCEPT ![p] = "returned"]
        /\ call' = [call EXCEPT ![p].ret = 1]
    BY DEF HandleTaskCreate, Resumes
  <1>2. KernelTyped /\ AnalyzerTyped BY DEF IInv
  <1>3. /\ call[p].op = "fork" /\ p \in discovered /\ call[p] \in Recorded
        /\ c \in Proc \ {Root, p} /\ c \notin inherited /\ status[c] # "none"
        /\ c \notin discovered /\ status[c] # "ended" => status[c] = "running" /\ table[c] = table[p]
    BY <1>1, <1>2 DEF IInv, CallsInv, CallOf, Does, ForksInv, ForkOf, KernelTyped
  <1>4. c \notin early BY <1>2, <1>3 DEF AnalyzerTyped
  <1>. DEFINE d == [call[p] EXCEPT !.ret = 1]
  <1>5. /\ d \in Recorded /\ d.op = "fork" /\ d.obs = call[p].obs /\ d.fd = call[p].fd
        /\ call' = [call EXCEPT ![p] = d]
    BY <1>1, <1>2, <1>3 DEF Recorded, KernelTyped
  <1>. HIDE DEF d
  <1>6. /\ status'[p] = "returned" /\ call'[p] = d
        /\ \A q \in Proc \ {p} : status'[q] = status[q] /\ call'[q] = call[q]
    BY <1>1, <1>2, <1>5 DEF KernelTyped
  <1>7. \A q \in Proc : /\ call'[q].obs = call[q].obs /\ call'[q].fd = call[q].fd
                        /\ call'[q].op = call[q].op
    BY <1>3, <1>5, <1>6
  <1>8. \A q \in Proc : Transferring(q)' <=> Transferring(q)
    BY <1>1, <1>3, <1>6, <1>7 DEF Transferring, Does, Transfers
  <1>9. \A q \in Proc : \A ops : "fork" \notin ops => (Effective(q, ops)' <=> Effective(q, ops))
    BY <1>1, <1>3, <1>6, <1>7 DEF Effective, Does, Succeeded
  <1>10. \A q \in Proc : q # p => Made(q)' = Made(q) BY <1>6 DEF Made
  <1>11. call' = [call EXCEPT ![p] = [call[p] EXCEPT !.ret = 1]] BY <1>5 DEF d
  <1>12. QED BY <1>1, <1>2, <1>3, <1>4, <1>5, <1>6, <1>7, <1>8, <1>9, <1>10, <1>11

LEMMA AnnouncedTables ==
  ASSUME IInv, NEW p \in Proc, HandleTaskCreate(p), NEW c, c = call[p].child,
         \A q \in Proc, f \in Fd : Like(bindings'[q][f], bindings[q][f]) \/ (q = c /\ Adopts(p, c))
  PROVE  /\ \A q \in Proc, f \in Fd : Stale(q, f)' <=> Stale(q, f)
         /\ \A q \in Proc : Tracked(q)' => Tracked(q) \/ (q = c /\ c \notin discovered)
         /\ \A q \in Proc : Tracked(q) => Tracked(q)'
         /\ CallsInv' /\ EffectInv' /\ AgreeInv'
  <1>1. /\ KernelTyped /\ AnalyzerTyped /\ status[p] = "forked" /\ call[p].op = "fork"
        /\ p \in discovered /\ c \in Proc \ {Root, p} /\ c \notin inherited
        /\ c \notin discovered /\ status[c] # "ended" => status[c] = "running" /\ table[c] = table[p]
        /\ inherited' = inherited \cup {c}
        /\ UNCHANGED << kind, content, table, discovered, nextResource >>
        /\ status'[p] = "returned" /\ call'[p].op = "fork"
        /\ \A q \in Proc \ {p} : status'[q] = status[q] /\ call'[q] = call[q]
        /\ \A q \in Proc : \A ops : "fork" \notin ops => (Effective(q, ops)' <=> Effective(q, ops))
        /\ \A q \in Proc : q # p => Made(q)' = Made(q)
    BY Announced
  <1>2. \A ops : "fork" \notin ops => ~Effective(p, ops) /\ ~Effective(p, ops)'
    BY <1>1 DEF Effective
  <1>3. ASSUME NEW q \in Proc, q # p
        PROVE  /\ Effective(q, {"pipe"})' <=> Effective(q, {"pipe"})
               /\ Effective(q, {"open"})' <=> Effective(q, {"open"})
               /\ Effective(q, {"close"})' <=> Effective(q, {"close"})
               /\ Effective(q, {"F_SETFD"})' <=> Effective(q, {"F_SETFD"})
               /\ Effective(q, Duplicating)' <=> Effective(q, Duplicating)
               /\ Effective(q, {"pipe", "open"} \cup Duplicating)'
                    <=> Effective(q, {"pipe", "open"} \cup Duplicating)
    BY <1>1 DEF Duplicating
  <1>4. ASSUME NEW q \in Proc, NEW f \in Fd, status[q] = "execed"
        PROVE  bindings'[q][f].cloexec = bindings[q][f].cloexec
    <2>1. ~(q = c /\ Adopts(p, c)) BY <1>1, <1>4 DEF Adopts
    <2>2. QED BY <2>1 DEF Like
  <1>5. ASSUME NEW q \in Proc, NEW f \in Fd
        PROVE  (Stale(q, f)' <=> Stale(q, f)) /\ (Reflagged(q, f)' <=> Reflagged(q, f))
    <2>1. CASE q = p
      <3>1. ~Stale(p, f)' /\ ~Reflagged(p, f)'
        BY <1>1, <1>2 DEF Stale, Reflagged, Duplicating
      <3>2. ~Stale(p, f) /\ ~Reflagged(p, f)
        BY <1>1, <1>2 DEF Stale, Reflagged, Duplicating
      <3>3. QED BY <2>1, <3>1, <3>2
    <2>2. CASE q # p
      <3>1. status'[q] = status[q] /\ call'[q] = call[q] BY <1>1, <2>2
      <3>2. QED BY <1>1, <1>3, <1>4, <2>2, <3>1 DEF Stale, Reflagged
    <2>3. QED BY <2>1, <2>2
  <1>6. /\ \A q \in Proc : Tracked(q)' => Tracked(q) \/ (q = c /\ c \notin discovered)
        /\ \A q \in Proc : Tracked(q) => Tracked(q)'
    BY <1>1 DEF Tracked, Known
  <1>7. CallsInv'
    <2>. SUFFICES ASSUME NEW q \in Proc PROVE CallOf(q)' BY DEF CallsInv
    <2>1. CASE q = p BY <1>1, <2>1 DEF CallOf, Does, FdCalls
    <2>2. CASE q # p
      <3>1. CallOf(q) BY DEF IInv, CallsInv
      <3>2. QED BY <1>1, <2>2, <3>1 DEF CallOf, Does
    <2>3. QED BY <2>1, <2>2
  <1>8. EffectInv'
    <2>. SUFFICES ASSUME NEW q \in Proc PROVE EffectOf(q)' BY DEF EffectInv
    <2>1. CASE q = p BY <1>1, <1>2, <2>1 DEF EffectOf, Duplicating
    <2>2. CASE q # p
      <3>1. EffectOf(q) BY DEF IInv, EffectInv
      <3>2. /\ status'[q] = status[q] /\ call'[q] = call[q] /\ table' = table /\ kind' = kind
            /\ Made(q)' = Made(q)
        BY <1>1, <2>2
      <3>3. (PipeMade(q)' <=> PipeMade(q)) /\ (PipeAlone(q)' <=> PipeAlone(q))
        BY <3>2 DEF PipeMade, PipeAlone, IsOpen, Pipe
      <3>4. /\ \A f \in Fd : IsOpen(q, f)' <=> IsOpen(q, f)
            /\ \A ops : Does(q, ops)' <=> Does(q, ops)
        BY <3>2 DEF IsOpen, Does
      <3>5. /\ Effective(q, {"pipe", "open"} \cup Duplicating)' => Made(q)' \in Fd
            /\ Effective(q, {"pipe"})' => PipeMade(q)' /\ PipeAlone(q)'
        BY <1>3, <2>2, <3>1, <3>2, <3>3 DEF EffectOf
      <3>11. Effective(q, {"close"})' => ~IsOpen(q, call[q].fd)'
        BY <1>3, <2>2, <3>1, <3>2 DEF EffectOf, IsOpen
      <3>6. Effective(q, {"open"})' =>
              /\ table'[q][Made(q)'].role = "readwrite" /\ table'[q][Made(q)'].cloexec = call'[q].flag
              /\ IsOpen(q, Made(q))' /\ kind'[table'[q][Made(q)'].obj] = "file"
        BY <1>3, <2>2, <3>1, <3>2 DEF EffectOf, IsOpen
      <3>7. Effective(q, Duplicating)' =>
              /\ IsOpen(q, call[q].fd)'
              /\ call'[q].fd = Made(q)' => Does(q, {"dup2"})'
              /\ call'[q].fd # Made(q)' =>
                   table'[q][Made(q)'] = [table'[q][call'[q].fd] EXCEPT !.cloexec = call'[q].flag]
        BY <1>3, <2>2, <3>1, <3>2, <3>4 DEF EffectOf, IsOpen
      <3>8. Effective(q, {"F_SETFD"})' =>
              IsOpen(q, call[q].fd)' /\ table'[q][call'[q].fd].cloexec = call'[q].flag
        BY <1>3, <2>2, <3>1, <3>2 DEF EffectOf, IsOpen
      <3>9. status'[q] = "execed" => \A f \in Fd : bindings'[q][f].cloexec => ~IsOpen(q, f)'
        <4>1. status[q] = "execed" => \A f \in Fd : bindings[q][f].cloexec => ~IsOpen(q, f)
          BY <3>1 DEF EffectOf
        <4>2. QED BY <1>4, <3>2, <4>1 DEF IsOpen
      <3>10. QED BY <3>5, <3>6, <3>7, <3>8, <3>9, <3>11 DEF EffectOf
    <2>3. QED BY <2>1, <2>2
  <1>9. AgreeInv'
    <2>. SUFFICES ASSUME NEW q \in Proc, NEW f \in Fd, Tracked(q)', ~Stale(q, f)'
                  PROVE  Agrees(q, f)'
      BY DEF AgreeInv
    <2>1. CASE q = c /\ Adopts(p, c)
      <3>1. ~Stale(p, f) /\ ~Reflagged(p, f)
        BY <1>1, <1>2 DEF Stale, Reflagged, Duplicating
      <3>2. Tracked(p) BY <1>1 DEF Tracked, Known
      <3>3. Agrees(p, f) BY <3>1, <3>2 DEF IInv, AgreeInv
      <3>4. bindings'[c] = bindings[p] /\ table'[c] = table[p] /\ kind' = kind
        BY <1>1, <2>1 DEF Adopts
      <3>5. QED BY <2>1, <3>1, <3>3, <3>4 DEF Agrees, IsOpen, Bound
    <2>2. CASE ~(q = c /\ Adopts(p, c))
      <3>1. Like(bindings'[q][f], bindings[q][f]) BY <2>2
      <3>2. CASE Tracked(q)
        <4>1. Agrees(q, f) BY <1>5, <3>2 DEF IInv, AgreeInv
        <4>2. QED BY <1>1, <1>5, <3>1, <4>1 DEF Agrees, IsOpen, Bound, Like
      <3>3. CASE ~Tracked(q)
        <4>1. q = c /\ c \notin discovered /\ status[c] # "ended"
          BY <1>1, <1>6, <3>3 DEF Tracked
        <4>2. c = call[p].child /\ HandleTaskCreate(p) OBVIOUS
        <4>3. Inherit(p, c) BY <4>1, <4>2 DEF HandleTaskCreate
        <4>4. bindings'[c] = bindings[p] BY <1>1, <4>3 DEF Inherit, AnalyzerTyped
        <4>5. QED BY <2>2, <4>1, <4>4 DEF Adopts
      <3>4. QED BY <3>2, <3>3
    <2>3. QED BY <2>1, <2>2
  <1>10. QED BY <1>5, <1>6, <1>7, <1>8, <1>9

LEMMA AnnounceKeeps ==
  ASSUME IInv, NEW p \in Proc, HandleTaskCreate(p), NEW c, c = call[p].child,
         \A q \in Proc, f \in Fd : Like(bindings'[q][f], bindings[q][f]) \/ (q = c /\ Adopts(p, c)),
         AnalyzerTyped', ObservationsInv', LinkedInv', EdgesInv', NamesInv'
  PROVE  IInv'
  <1>1. /\ KernelTyped /\ AnalyzerTyped /\ status[p] = "forked"
        /\ p \in discovered /\ c \in Proc \ {Root, p} /\ c \notin inherited /\ status[c] # "none"
        /\ inherited' = inherited \cup {c}
        /\ UNCHANGED << kind, content, table, discovered, nextResource >>
        /\ status' = [status EXCEPT ![p] = "returned"] /\ status'[p] = "returned"
        /\ call' = [call EXCEPT ![p] = [call[p] EXCEPT !.ret = 1]] /\ call'[p] \in Recorded
        /\ \A q \in Proc \ {p} : status'[q] = status[q] /\ call'[q] = call[q]
    BY Announced
  <1>2. CallsInv' /\ EffectInv' /\ AgreeInv' /\ (\A q \in Proc : Tracked(q) => Tracked(q)')
    BY AnnouncedTables
  <1>3. KernelTyped'
    <2>1. call' \in [Proc -> Recorded] /\ status' \in
            [Proc -> {"none", "running", "called", "returned", "forked", "execed", "ended"}]
      BY <1>1 DEF KernelTyped
    <2>2. QED BY <1>1, <2>1 DEF KernelTyped, IsOpen
  <1>4. KnownInv'
    <2>1. KnownInv BY DEF IInv
    <2>2. ASSUME NEW q \in Proc, ~Tracked(q)', NEW f \in Fd PROVE bindings'[q][f] = Unbound
      <3>1. ~Tracked(q) BY <1>2, <2>2
      <3>2. ~(q = c /\ Adopts(p, c)) BY <1>1, <2>2 DEF Tracked, Known, Adopts
      <3>3. QED BY <2>1, <3>1, <3>2 DEF KnownInv, Like
    <2>3. /\ \A q \in discovered' \cup inherited' : status'[q] # "none"
          /\ \A q \in discovered' : status'[q] # "ended"
      BY <1>1, <2>1 DEF KnownInv, AnalyzerTyped
    <2>4. \A q \in Proc : status'[q] \in {"none", "ended"} => \A f \in Fd : ~IsOpen(q, f)'
      BY <1>1, <2>1 DEF KnownInv, IsOpen
    <2>5. Root \notin inherited' /\ status'[Root] # "none"
      BY <1>1, <2>1, WorkloadAssumption DEF KnownInv
    <2>6. Root \in discovered' \/ status'[Root] = "ended"
            \/ \A q \in Proc \ {Root} : status'[q] = "none"
      BY <1>1, <2>1, WorkloadAssumption DEF KnownInv
    <2>7. QED BY <2>2, <2>3, <2>4, <2>5, <2>6 DEF KnownInv
  <1>5. ForksInv'
    <2>. SUFFICES ASSUME NEW q \in Proc, status'[q] = "forked" PROVE ForkOf(q)' BY DEF ForksInv
    <2>1. q # p /\ status[q] = "forked" /\ call'[q] = call[q] BY <1>1
    <2>2. ForkOf(q) /\ ForkOf(p) BY <1>1, <2>1 DEF IInv, ForksInv
    <2>. DEFINE d == call[q].child
    <2>3. d # c BY <1>1, <2>1, <2>2 DEF ForkOf
    <2>4. d \in Proc \ {Root, q} /\ d \notin inherited' /\ status'[d] # "none"
      BY <1>1, <2>2, <2>3 DEF ForkOf
    <2>5. d \notin discovered' /\ status'[d] # "ended" =>
            status'[d] = "running" /\ table'[d] = table'[q]
      <3>1. d \notin discovered' => d # p BY <1>1
      <3>2. QED BY <1>1, <2>1, <2>2, <2>4, <3>1 DEF ForkOf
    <2>6. \A u \in Proc : status'[u] = "forked" /\ call'[u].child = d => u = q
      BY <1>1, <2>2 DEF ForkOf
    <2>7. QED BY <2>1, <2>4, <2>5, <2>6 DEF ForkOf
  <1>6. QED BY <1>2, <1>3, <1>4, <1>5 DEF IInv

LEMMA AdoptKeeps ==
  ASSUME IInv, NEW p \in Proc, HandleTaskCreate(p), NEW c, c = call[p].child, c \notin discovered,
         UNCHANGED << snapshot, observations, edges >>,
         \/ status[c] = "ended" /\ bindings' = bindings
         \/ status[c] # "ended" /\ bindings' = [bindings EXCEPT ![c] = bindings[p]]
  PROVE  IInv'
  <1>1. /\ KernelTyped /\ AnalyzerTyped /\ status[p] = "forked" /\ call[p].op = "fork"
        /\ p \in discovered /\ c \in Proc \ {Root, p} /\ c \notin inherited /\ c \notin early
        /\ status[c] # "ended" => status[c] = "running" /\ table[c] = table[p]
        /\ inherited' = inherited \cup {c}
        /\ early' = IF c \in discovered \/ Early(p) THEN early \cup {c} ELSE early
        /\ UNCHANGED << kind, content, table, discovered, nextResource >>
        /\ \A q \in Proc \ {p} : status'[q] = status[q]
        /\ \A q \in Proc : /\ call'[q].obs = call[q].obs /\ call'[q].fd = call[q].fd
                           /\ call'[q].op = call[q].op
        /\ \A q \in Proc : Transferring(q)' <=> Transferring(q)
        /\ \A q \in Proc : \A ops : "fork" \notin ops => (Effective(q, ops)' <=> Effective(q, ops))
    BY Announced
  <1>2. /\ \A q \in Proc \ {c} : bindings'[q] = bindings[q]
        /\ status[c] = "ended" => bindings'[c] = bindings[c]
        /\ status[c] # "ended" => bindings'[c] = bindings[p]
    BY <1>1 DEF AnalyzerTyped
  <1>3. \A q \in Proc, f \in Fd :
          Like(bindings'[q][f], bindings[q][f]) \/ (q = c /\ Adopts(p, c))
    BY <1>2 DEF Like, Adopts
  <1>4. AnalyzerTyped'
    <2>1. bindings' \in [Proc -> [Fd -> {Unbound} \cup Binding]] BY <1>1 DEF AnalyzerTyped
    <2>2. \A q \in Proc, f \in Fd : bindings'[q][f].res < nextResource
      BY <1>1, <1>2 DEF AnalyzerTyped
    <2>3. inherited' \subseteq Proc /\ early' \subseteq inherited' BY <1>1 DEF AnalyzerTyped
    <2>4. QED BY <1>1, <2>1, <2>2, <2>3 DEF AnalyzerTyped, ContentTyped
  <1>5. ObservationsInv'
    <2>1. ASSUME NEW q \in Proc, Transferring(q)' PROVE ObservationOf(q)'
      <3>1. Transferring(q) BY <1>1, <2>1
      <3>2. ObservationOf(q) BY <3>1 DEF IInv, ObservationsInv
      <3>3. bindings'[q] = bindings[q] BY <1>1, <1>2, <3>1 DEF Transferring
      <3>4. Effective(q, Transfers)' <=> Effective(q, Transfers) BY <1>1 DEF Transfers
      <3>5. QED BY <1>1, <3>2, <3>3, <3>4 DEF ObservationOf, IsOpen
    <2>2. QED BY <2>1 DEF IInv, ObservationsInv
  <1>6. LinkedInv' /\ EdgesInv' BY LoopLinks
  <1>7. PICK object \in [Id -> Object], id \in [Proc -> [Object -> Nat]] : Named(object, id)
    BY DEF IInv, NamesInv
  <1>8. PICK newId \in [Proc -> [Object -> Nat]] :
          newId = IF Early(p) THEN [id EXCEPT ![c] = id[p]] ELSE id
    BY <1>1
  <1>9. \A q \in Proc \ {c} : Family(q)' = Family(q) /\ newId[Family(q)] = id[Family(q)]
    BY <1>1, <1>8, WorkloadAssumption DEF Family, Early
  <1>10. newId[Family(c)'] = id[Family(p)]
    BY <1>1, <1>8, WorkloadAssumption DEF Family, Early
  <1>11. \A q \in Proc, f \in Fd : Stale(q, f)' <=> Stale(q, f) BY <1>3, AnnouncedTables
  <1>12. ASSUME NEW q \in Proc, NEW f \in Fd, Refers(q, f)'
         PROVE  /\ object[bindings'[q][f].res] = table[q][f].obj
                /\ Pipe(table[q][f].obj) =>
                     bindings'[q][f].res = newId[Family(q)'][table[q][f].obj]
    <2>1. Tracked(q)' /\ ~Stale(q, f) /\ bindings'[q][f] # Unbound
      BY <1>11, <1>12 DEF Refers, Bound
    <2>2. CASE q = c
      <3>1. status[c] # "ended" BY <1>1, <2>1, <2>2 DEF Tracked
      <3>2. bindings'[c] = bindings[p] /\ table[c] = table[p] BY <1>1, <1>2, <3>1
      <3>3. ~Stale(p, f) BY <1>1 DEF Stale, Effective
      <3>4. Refers(p, f) BY <1>1, <2>1, <2>2, <3>2, <3>3 DEF Refers, Tracked, Known, Bound
      <3>5. QED BY <1>7, <1>10, <2>2, <3>2, <3>4 DEF Named
    <2>3. CASE q # c
      <3>1. Tracked(q) BY <1>3, <2>1, <2>3, AnnouncedTables
      <3>2. Refers(q, f) BY <1>2, <2>1, <2>3, <3>1 DEF Refers, Bound
      <3>3. QED BY <1>2, <1>7, <1>9, <2>3, <3>2 DEF Named
    <2>4. QED BY <2>2, <2>3
  <1>13. \A q \in Proc, f \in Fd :
           /\ bindings'[q][f].key # NoKey => object[bindings'[q][f].res] = bindings'[q][f].key
           /\ snapshot[q][f].key # NoKey => object[snapshot[q][f].res] = snapshot[q][f].key
    BY <1>1, <1>2, <1>7 DEF Named
  <1>14. Named(object, newId)' BY <1>1, <1>7, <1>12, <1>13 DEF Named, Pipe
  <1>15. Id' = Id BY <1>1 DEF Id
  <1>16. NamesInv' BY <1>14, <1>15 DEF NamesInv
  <1>17. QED BY <1>3, <1>4, <1>5, <1>6, <1>16, AnnounceKeeps

(* Reconciling renames an id to one that stands for the same object.       *)
LEMMA RenamedIs ==
  ASSUME IInv, NEW p \in Proc, NEW c \in Proc, NEW res \in Nat, res < nextResource,
         NEW object \in [Id -> Object], NEW id \in [Proc -> [Object -> Nat]], Named(object, id)
  PROVE  /\ Renamed(p, c, res) \in Nat /\ Renamed(p, c, res) < nextResource
         /\ res = 0 <=> Renamed(p, c, res) = 0
         /\ res # 0 => object[Renamed(p, c, res)] = object[res]
         /\ Renamed(p, c, res) # res => \E f \in Fd : snapshot[c][f].res = res
  <1>. DEFINE same == {f \in Fd : Inherits(p, c, f) /\ snapshot[c][f].res = res}
  <1>1. CASE same = {} BY <1>1 DEF Renamed
  <1>2. CASE same # {}
    <2>1. same \subseteq Nat BY DescriptorAssumption
    <2>2. PICK g \in same : g = Min(same) BY <1>2, <2>1, MinIsLeast
    <2>3. Renamed(p, c, res) = snapshot[p][g].res BY <1>2, <2>2 DEF Renamed
    <2>4. /\ snapshot[c][g] \in Binding /\ snapshot[p][g] \in Binding
          /\ snapshot[p][g].res < nextResource /\ snapshot[c][g].res = res
          /\ snapshot[c][g].key # NoKey /\ snapshot[c][g].key = snapshot[p][g].key
      BY <2>2 DEF Inherits, IInv, AnalyzerTyped
    <2>5. object[snapshot[c][g].res] = object[snapshot[p][g].res] BY <2>2, <2>4 DEF Named
    <2>6. snapshot[p][g].res \in Nat \ {0} /\ res # 0 BY <2>4 DEF Binding
    <2>7. QED BY <2>2, <2>3, <2>4, <2>5, <2>6
  <1>3. QED BY <1>1, <1>2

RenamedBinding(p, c, x) == [x EXCEPT !.res = Renamed(p, c, x.res)]

LEMMA RenamedTyped ==
  ASSUME IInv, NEW p \in Proc, NEW c \in Proc, NEW x \in {Unbound} \cup Binding,
         x.res < nextResource, NEW y, y = RenamedBinding(p, c, x)
  PROVE  /\ y \in {Unbound} \cup Binding /\ y.res = Renamed(p, c, x.res) /\ y.key = x.key
         /\ Like(y, x) /\ y.res < nextResource
  <1>1. PICK object \in [Id -> Object], id \in [Proc -> [Object -> Nat]] : Named(object, id)
    BY DEF IInv, NamesInv
  <1>2. PICK n : n = Renamed(p, c, x.res) OBVIOUS
  <1>3. x.res \in Nat BY DEF Unbound, Binding
  <1>4. n \in Nat /\ n < nextResource /\ (x.res = 0 <=> n = 0) BY <1>1, <1>2, <1>3, RenamedIs
  <1>5. CASE x = Unbound
    <2>1. n = 0 BY <1>4, <1>5 DEF Unbound
    <2>2. y = Unbound BY <1>2, <1>5, <2>1 DEF Unbound, RenamedBinding
    <2>3. QED BY <1>2, <1>4, <1>5, <2>1, <2>2 DEF Like, Unbound
  <1>6. CASE x \in Binding
    <2>1. n # 0 BY <1>4, <1>6 DEF Binding
    <2>2. /\ y \in Binding /\ y.res = n /\ y.key = x.key
          /\ y.type = x.type /\ y.role = x.role /\ y.cloexec = x.cloexec
      BY <1>2, <1>4, <1>6, <2>1 DEF Binding, RenamedBinding
    <2>3. y # Unbound /\ x # Unbound BY <1>6, <2>2 DEF Binding, Unbound
    <2>4. QED BY <1>2, <1>4, <2>2, <2>3 DEF Like
  <1>7. QED BY <1>5, <1>6

LEMMA ReconcileKeeps ==
  ASSUME IInv, NEW p \in Proc, HandleTaskCreate(p), NEW c, c = call[p].child, c \in discovered,
         Reconcile(p, c)
  PROVE  IInv'
  <1>1. /\ KernelTyped /\ AnalyzerTyped /\ status[p] = "forked"
        /\ p \in discovered /\ c \in Proc \ {Root, p} /\ c \notin inherited /\ c \notin early
        /\ inherited' = inherited \cup {c} /\ early' = early \cup {c}
        /\ UNCHANGED << kind, content, table, discovered, nextResource >>
        /\ \A q \in Proc \ {p} : status'[q] = status[q]
        /\ \A q \in Proc : /\ call'[q].obs = call[q].obs /\ call'[q].fd = call[q].fd
                           /\ call'[q].op = call[q].op
        /\ \A q \in Proc : Transferring(q)' <=> Transferring(q)
        /\ \A q \in Proc : \A ops : "fork" \notin ops => (Effective(q, ops)' <=> Effective(q, ops))
    BY Announced
  <1>2. PICK object \in [Id -> Object], id \in [Proc -> [Object -> Nat]] : Named(object, id)
    BY DEF IInv, NamesInv
  <1>3. ASSUME NEW res \in Nat, res < nextResource
         PROVE  /\ Renamed(p, c, res) \in Nat /\ Renamed(p, c, res) < nextResource
                /\ res = 0 <=> Renamed(p, c, res) = 0
                /\ res # 0 => object[Renamed(p, c, res)] = object[res]
                /\ Renamed(p, c, res) # res => \E f \in Fd : snapshot[c][f].res = res
    <2>1. c \in Proc BY <1>1
    <2>2. QED BY <1>2, <1>3, <2>1, RenamedIs
  <1>4. PICK rn \in [0 .. nextResource - 1 -> Nat] :
          \A res \in 0 .. nextResource - 1 : rn[res] = Renamed(p, c, res)
    <2>. DEFINE m == [res \in 0 .. nextResource - 1 |-> Renamed(p, c, res)]
    <2>1. nextResource \in Nat \ {0} BY <1>1 DEF AnalyzerTyped
    <2>2. m \in [0 .. nextResource - 1 -> Nat] BY <1>3, <2>1
    <2>3. QED BY <2>2
  <1>5. nextResource \in Nat \ {0} BY <1>1 DEF AnalyzerTyped
  <1>6. ASSUME NEW res \in Nat, res < nextResource
        PROVE  /\ res \in 0 .. nextResource - 1 /\ rn[res] = Renamed(p, c, res)
               /\ rn[res] \in Nat /\ rn[res] < nextResource /\ (res = 0 <=> rn[res] = 0)
               /\ res # 0 => res \in Id /\ rn[res] \in Id /\ object[rn[res]] = object[res]
               /\ rn[res] # res => \E f \in Fd : snapshot[c][f].res = res
    <2>1. res \in 0 .. nextResource - 1 BY <1>5, <1>6
    <2>2. rn[res] = Renamed(p, c, res) BY <1>4, <2>1
    <2>3. /\ rn[res] \in Nat /\ rn[res] < nextResource /\ (res = 0 <=> rn[res] = 0)
          /\ res # 0 => object[rn[res]] = object[res]
          /\ rn[res] # res => \E f \in Fd : snapshot[c][f].res = res
      BY <1>6, <1>3, <2>2
    <2>4. QED BY <1>5, <1>6, <2>1, <2>2, <2>3 DEF Id
  <1>7. \A q \in Proc, f \in Fd :
          /\ bindings'[q][f] = RenamedBinding(p, c, bindings[q][f])
          /\ snapshot'[q][f] = RenamedBinding(p, c, snapshot[q][f])
    BY DEF Reconcile, RenamedBinding
  <1>8. ASSUME NEW q \in Proc, NEW f \in Fd
        PROVE  /\ bindings[q][f].res \in Nat /\ bindings[q][f].res < nextResource
               /\ snapshot[q][f].res \in Nat /\ snapshot[q][f].res < nextResource
               /\ bindings'[q][f] \in {Unbound} \cup Binding
               /\ bindings'[q][f].res = rn[bindings[q][f].res]
               /\ bindings'[q][f].key = bindings[q][f].key
               /\ Like(bindings'[q][f], bindings[q][f]) /\ bindings'[q][f].res < nextResource
               /\ snapshot'[q][f] \in {Unbound} \cup Binding
               /\ snapshot'[q][f].res = rn[snapshot[q][f].res]
               /\ snapshot'[q][f].key = snapshot[q][f].key
               /\ snapshot'[q][f].res < nextResource
    <2>1. /\ bindings[q][f] \in {Unbound} \cup Binding /\ bindings[q][f].res < nextResource
          /\ snapshot[q][f] \in {Unbound} \cup Binding /\ snapshot[q][f].res < nextResource
      BY <1>1 DEF AnalyzerTyped
    <2>2. bindings[q][f].res \in Nat /\ snapshot[q][f].res \in Nat BY <2>1 DEF Unbound, Binding
    <2>3. rn[bindings[q][f].res] = Renamed(p, c, bindings[q][f].res)
          /\ rn[snapshot[q][f].res] = Renamed(p, c, snapshot[q][f].res)
      BY <1>6, <2>1, <2>2
    <2>4. /\ bindings'[q][f] \in {Unbound} \cup Binding
          /\ bindings'[q][f].res = Renamed(p, c, bindings[q][f].res)
          /\ bindings'[q][f].key = bindings[q][f].key
          /\ Like(bindings'[q][f], bindings[q][f]) /\ bindings'[q][f].res < nextResource
      BY <1>1, <1>7, <2>1, RenamedTyped
    <2>5. /\ snapshot'[q][f] \in {Unbound} \cup Binding
          /\ snapshot'[q][f].res = Renamed(p, c, snapshot[q][f].res)
          /\ snapshot'[q][f].key = snapshot[q][f].key
          /\ snapshot'[q][f].res < nextResource
      BY <1>1, <1>7, <2>1, RenamedTyped
    <2>6. QED BY <2>1, <2>2, <2>3, <2>4, <2>5
  <1>9. observations \in Seq(Observed) /\ (\A i \in DOMAIN observations : observations[i] \in Observed)
    BY <1>1 DEF AnalyzerTyped
  <1>10. PICK n \in Nat : DOMAIN observations = 1 .. n BY <1>9
  <1>11. ASSUME NEW i \in DOMAIN observations
         PROVE  /\ observations[i].res \in Nat /\ observations[i].res < nextResource
                /\ observations'[i] \in Observed
                /\ observations'[i].res = rn[observations[i].res]
                /\ observations'[i].op = observations[i].op
                /\ observations'[i].type = observations[i].type
                /\ observations'[i].role = observations[i].role
                /\ observations'[i].token = observations[i].token
                /\ observations'[i].done = observations[i].done
                /\ observations'[i].end = observations[i].end
                /\ observations'[i].obj = observations[i].obj
    <2>1. observations[i].res \in Nat /\ observations[i].res < nextResource
      BY <1>1, <1>9 DEF Observed, AnalyzerTyped
    <2>2. PICK m \in Nat : m = rn[observations[i].res] BY <1>6, <2>1
    <2>3. observations'[i] = [observations[i] EXCEPT !.res = m]
      BY <1>6, <2>1, <2>2 DEF Reconcile
    <2>4. QED BY <1>9, <2>1, <2>2, <2>3 DEF Observed
  <1>12. DOMAIN observations' = DOMAIN observations /\ observations' \in Seq(Observed)
    <2>1. observations' = [i \in 1 .. n |-> observations'[i]] BY <1>10 DEF Reconcile
    <2>2. observations' \in [1 .. n -> Observed] BY <1>10, <1>11, <2>1
    <2>3. QED BY <1>10, <2>2
  <1>. DEFINE old == {res \in {snapshot[c][f].res : f \in Fd} : Renamed(p, c, res) # res}
              new == {Renamed(p, c, res) : res \in old}
              reads == {r \in DOMAIN observations :
                          IsPipeEnd(observations'[r], "read") /\ observations'[r].res \in new}
  <1>13. edges' = edges \cup Links(observations', reads) /\ reads \subseteq DOMAIN observations
    BY <1>12 DEF Reconcile, Relinked
  <1>14. ASSUME NEW r \in DOMAIN observations, NEW res \in Nat, res < nextResource, rn[res] # res,
                observations'[r].res = rn[res], IsPipeEnd(observations'[r], "read")
         PROVE  r \in reads
    <2>1. rn[res] = Renamed(p, c, res) BY <1>6, <1>14
    <2>2. PICK f \in Fd : snapshot[c][f].res = res BY <1>6, <1>14
    <2>3. res \in old BY <1>14, <2>1, <2>2
    <2>4. QED BY <1>14, <2>1, <2>3
  <1>. HIDE DEF reads
  <1>15. AnalyzerTyped'
    <2>1. /\ bindings' = [q \in Proc |-> [f \in Fd |-> bindings'[q][f]]]
          /\ snapshot' = [q \in Proc |-> [f \in Fd |-> snapshot'[q][f]]]
      BY DEF Reconcile
    <2>2. bindings' \in [Proc -> [Fd -> {Unbound} \cup Binding]]
          /\ snapshot' \in [Proc -> [Fd -> {Unbound} \cup Binding]]
      BY <1>8, <2>1
    <2>3. \A q \in Proc, f \in Fd :
            bindings'[q][f].res < nextResource /\ snapshot'[q][f].res < nextResource
      BY <1>8
    <2>4. \A i \in DOMAIN observations : observations'[i].res < nextResource BY <1>6, <1>11
    <2>5. edges' \subseteq (DOMAIN observations) \X (DOMAIN observations)
      <3>1. \A e \in Links(observations', reads) : e \in (DOMAIN observations) \X (DOMAIN observations)
        BY <1>1, <1>10, <1>12, <1>13, LinksAreReal
      <3>2. QED BY <1>1, <1>10, <1>12, <1>13, <3>1 DEF AnalyzerTyped
    <2>6. inherited' \subseteq Proc /\ early' \subseteq inherited' BY <1>1 DEF AnalyzerTyped
    <2>7. ContentTyped' BY <1>1, <1>12 DEF AnalyzerTyped, ContentTyped
    <2>8. QED BY <1>1, <1>12, <2>2, <2>3, <2>4, <2>5, <2>6, <2>7 DEF AnalyzerTyped
  <1>16. ObservationsInv'
    <2>1. ASSUME NEW q \in Proc, Transferring(q)' PROVE ObservationOf(q)'
      <3>1. Transferring(q) BY <1>1, <2>1
      <3>2. ObservationOf(q) BY <3>1 DEF IInv, ObservationsInv
      <3>. DEFINE i == call[q].obs
                  g == call[q].fd
      <3>3. i \in DOMAIN observations /\ g \in Fd
        BY <3>1, <3>2
           DEF ObservationOf, Transferring, IInv, CallsInv, CallOf, Does, Transfers, FdCalls
      <3>4. /\ bindings'[q][g].res = rn[bindings[q][g].res]
            /\ bindings'[q][g].type = bindings[q][g].type
            /\ bindings'[q][g].role = bindings[q][g].role
        BY <1>8, <3>3 DEF Like
      <3>5. Effective(q, Transfers)' <=> Effective(q, Transfers) BY <1>1 DEF Transfers
      <3>6. /\ observations'[i].res = rn[observations[i].res]
            /\ observations'[i].op = observations[i].op
            /\ observations'[i].type = observations[i].type
            /\ observations'[i].role = observations[i].role
            /\ observations'[i].done = observations[i].done
            /\ observations'[i].obj = observations[i].obj
        BY <1>11, <3>3
      <3>7. QED BY <1>1, <1>12, <3>2, <3>4, <3>5, <3>6, SMTT(20) DEF ObservationOf, IsOpen
    <2>2. \A i \in DOMAIN observations' : observations'[i].done => observations'[i].obj # 0
      BY <1>11, <1>12 DEF IInv, ObservationsInv
    <2>3. QED BY <2>1, <2>2 DEF ObservationsInv
  <1>17. \A i \in DOMAIN observations :
           observations[i].obj # 0 /\ observations'[i].res # 0 =>
             object[observations'[i].res] = observations[i].obj
    <2>. SUFFICES ASSUME NEW i \in DOMAIN observations,
                         observations[i].obj # 0, observations'[i].res # 0
                  PROVE  object[observations'[i].res] = observations[i].obj
      OBVIOUS
    <2>1. observations[i].res # 0 /\ object[observations'[i].res] = object[observations[i].res]
      BY <1>6, <1>11
    <2>2. QED BY <1>2, <2>1 DEF Named
  <1>18. LinkedInv'
    <2>. SUFFICES ASSUME NEW w \in DOMAIN observations, NEW r \in DOMAIN observations,
                         MaySupply(observations', w, r)
                  PROVE  \E v \in DOMAIN observations : << v, r >> \in edges'
      BY <1>12 DEF LinkedInv
    <2>. DEFINE a == observations[w].res
                b == observations[r].res
    <2>1. /\ a \in Nat /\ a < nextResource /\ b \in Nat /\ b < nextResource
          /\ observations'[w].res = rn[a] /\ observations'[r].res = rn[b]
      BY <1>11
    <2>2. rn[a] = rn[b] /\ IsPipeEnd(observations'[r], "read") BY <2>1 DEF MaySupply
    <2>3. CASE a = b
      <3>1. rn[a] # 0 /\ rn[b] # 0 BY <2>1 DEF MaySupply, IsPipeEnd
      <3>2. a # 0 /\ b # 0 BY <1>6, <2>1, <3>1
      <3>3. MaySupply(observations, w, r) BY <1>11, <2>3, <3>2 DEF MaySupply, IsPipeEnd
      <3>4. QED BY <1>13, <3>3 DEF IInv, LinkedInv
    <2>4. CASE a # b
      <3>1. rn[a] # a \/ rn[b] # b BY <2>2, <2>4
      <3>2. r \in reads BY <1>14, <2>1, <2>2, <3>1
      <3>3. QED BY <1>10, <1>12, <1>13, <3>2, LinksAreMade
    <2>5. QED BY <2>3, <2>4
  <1>19. EdgesInv'
    <2>. SUFFICES ASSUME NEW e \in edges'
                  PROVE  /\ observations'[e[1]].done /\ observations'[e[2]].done
                         /\ observations'[e[1]].obj = observations'[e[2]].obj
                         /\ observations'[e[1]].token = observations'[e[2]].token
                         /\ e[1] <= observations'[e[2]].end
      BY DEF EdgesInv
    <2>1. CASE e \in edges
      <3>1. /\ observations[e[1]].done /\ observations[e[2]].done
            /\ observations[e[1]].obj = observations[e[2]].obj
            /\ observations[e[1]].token = observations[e[2]].token
            /\ e[1] <= observations[e[2]].end
        BY <2>1 DEF IInv, EdgesInv
      <3>2. e[1] \in DOMAIN observations /\ e[2] \in DOMAIN observations
        BY <1>1, <2>1 DEF AnalyzerTyped
      <3>3. QED BY <1>11, <3>1, <3>2
    <2>2. CASE e \in Links(observations', reads)
      <3>1. /\ e[1] \in DOMAIN observations /\ e[2] \in DOMAIN observations
            /\ MaySupply(observations', e[1], e[2])
        BY <1>10, <1>12, <1>13, <2>2, LinksAreReal
      <3>2. /\ observations'[e[1]].done /\ observations'[e[2]].done
            /\ observations'[e[1]].res = observations'[e[2]].res /\ observations'[e[1]].res # 0
            /\ observations'[e[1]].token = observations'[e[2]].token
            /\ e[1] <= observations'[e[2]].end
        BY <3>1 DEF MaySupply, IsPipeEnd
      <3>3. observations'[e[1]].obj # 0 /\ observations'[e[2]].obj # 0
        BY <1>12, <1>16, <3>1, <3>2 DEF ObservationsInv
      <3>4. /\ observations[e[1]].obj = observations'[e[1]].obj
            /\ observations[e[2]].obj = observations'[e[2]].obj
        BY <1>11, <3>1
      <3>5. /\ object[observations'[e[1]].res] = observations[e[1]].obj
            /\ object[observations'[e[2]].res] = observations[e[2]].obj
        BY <1>17, <3>1, <3>2, <3>3, <3>4
      <3>6. QED BY <3>2, <3>4, <3>5
    <2>3. QED BY <1>13, <2>1, <2>2
  <1>20. \A q \in Proc, f \in Fd :
           Like(bindings'[q][f], bindings[q][f]) \/ (q = c /\ Adopts(p, c))
    BY <1>8
  <1>21. NamesInv'
    <2>1. PICK newId \in [Proc -> [Object -> Nat]] :
            \A q \in Proc, o \in Object :
              id[q][o] \in 0 .. nextResource - 1 => newId[q][o] = rn[id[q][o]]
      <3>. DEFINE m == [q \in Proc |-> [o \in Object |->
                         IF id[q][o] \in 0 .. nextResource - 1 THEN rn[id[q][o]] ELSE 0]]
      <3>1. m \in [Proc -> [Object -> Nat]] BY <1>4
      <3>2. \A q \in Proc, o \in Object :
              id[q][o] \in 0 .. nextResource - 1 => m[q][o] = rn[id[q][o]]
        OBVIOUS
      <3>. HIDE DEF m
      <3>3. QED BY <3>1, <3>2
    <2>2. \A q \in Proc : Family(q)' = Family(q) /\ Family(q) \in Proc
      BY <1>1, WorkloadAssumption DEF Family, Early
    <2>3. /\ \A q \in Proc, f \in Fd : Stale(q, f)' <=> Stale(q, f)
          /\ \A q \in Proc : Tracked(q)' => Tracked(q)
      BY <1>1, <1>20, AnnouncedTables
    <2>4. ASSUME NEW q \in Proc, NEW f \in Fd, Refers(q, f)'
          PROVE  /\ object[bindings'[q][f].res] = table[q][f].obj
                 /\ Pipe(table[q][f].obj) =>
                      bindings'[q][f].res = newId[Family(q)'][table[q][f].obj]
      <3>1. Tracked(q)' /\ ~Stale(q, f) /\ bindings'[q][f] # Unbound
        BY <2>3, <2>4 DEF Refers, Bound
      <3>2. Tracked(q) BY <2>3, <3>1
      <3>3. Bound(q, f) BY <1>8, <3>1 DEF Like, Bound
      <3>4. Refers(q, f) BY <3>1, <3>2, <3>3 DEF Refers
      <3>5. bindings[q][f].res \in Nat \ {0} /\ bindings[q][f].res < nextResource
        <4>1. bindings[q][f] \in Binding BY <1>1, <3>3 DEF AnalyzerTyped, Bound
        <4>2. QED BY <1>8, <4>1 DEF Binding
      <3>6. object[bindings'[q][f].res] = object[bindings[q][f].res]
        <4>1. bindings'[q][f].res = rn[bindings[q][f].res] BY <1>8
        <4>2. object[rn[bindings[q][f].res]] = object[bindings[q][f].res] BY <1>6, <3>5
        <4>3. QED BY <4>1, <4>2
      <3>7. object[bindings[q][f].res] = table[q][f].obj BY <1>2, <3>4 DEF Named
      <3>8. ASSUME Pipe(table[q][f].obj)
            PROVE  bindings'[q][f].res = newId[Family(q)'][table[q][f].obj]
        <4>1. Agrees(q, f) BY <3>1, <3>2 DEF IInv, AgreeInv
        <4>2. PICK o \in Object : o = table[q][f].obj
          BY <1>1, <3>3, <4>1 DEF Agrees, KernelTyped, IsOpen, Opened
        <4>3. PICK u \in Proc : u = Family(q) BY <2>2
        <4>4. bindings[q][f].res = id[u][o] BY <1>2, <3>4, <3>8, <4>2, <4>3 DEF Named
        <4>5. id[u][o] \in 0 .. nextResource - 1 BY <1>6, <3>5, <4>4
        <4>6. newId[u][o] = rn[bindings[q][f].res] BY <2>1, <4>4, <4>5
        <4>7. QED BY <1>8, <2>2, <4>2, <4>3, <4>6
      <3>9. QED BY <3>6, <3>7, <3>8
    <2>5. ASSUME NEW q \in Proc, NEW f \in Fd
          PROVE  /\ bindings'[q][f].key # NoKey =>
                      object[bindings'[q][f].res] = bindings'[q][f].key
                 /\ snapshot'[q][f].key # NoKey =>
                      object[snapshot'[q][f].res] = snapshot'[q][f].key
      <3>1. \A x \in {Unbound} \cup Binding : x.key # NoKey => x.res # 0
        BY DEF Unbound, Binding
      <3>2. /\ bindings[q][f].key # NoKey => bindings[q][f].res # 0
            /\ snapshot[q][f].key # NoKey => snapshot[q][f].res # 0
        BY <1>1, <3>1 DEF AnalyzerTyped
      <3>3. /\ bindings[q][f].key # NoKey => object[bindings[q][f].res] = bindings[q][f].key
            /\ snapshot[q][f].key # NoKey => object[snapshot[q][f].res] = snapshot[q][f].key
        BY <1>2 DEF Named
      <3>4. /\ bindings[q][f].key # NoKey =>
                  object[rn[bindings[q][f].res]] = object[bindings[q][f].res]
            /\ snapshot[q][f].key # NoKey =>
                  object[rn[snapshot[q][f].res]] = object[snapshot[q][f].res]
        BY <1>6, <1>8, <3>2
      <3>5. QED BY <1>8, <3>3, <3>4
    <2>6. \A i \in DOMAIN observations' :
            observations'[i].obj # 0 /\ observations'[i].res # 0 =>
              object[observations'[i].res] = observations'[i].obj
      BY <1>11, <1>12, <1>17
    <2>7. Named(object, newId)' BY <1>1, <2>4, <2>5, <2>6 DEF Named, Pipe
    <2>8. Id' = Id BY <1>1 DEF Id
    <2>9. QED BY <2>7, <2>8 DEF NamesInv
  <1>22. QED BY <1>15, <1>16, <1>18, <1>19, <1>20, <1>21, AnnounceKeeps

LEMMA HandleTaskCreateKeeps == ASSUME IInv, NEW p \in Proc, HandleTaskCreate(p) PROVE IInv'
  <1>1. PICK c : c = call[p].child OBVIOUS
  <1>2. c \in discovered => status[c] # "ended" BY DEF IInv, KnownInv
  <1>3. CASE c \notin discovered /\ status[c] # "ended" /\ Inherit(p, c)
    <2>1. UNCHANGED << snapshot, observations, edges >>
          /\ bindings' = [bindings EXCEPT ![c] = bindings[p]]
      BY <1>3 DEF Inherit, flow
    <2>2. QED BY <1>1, <1>3, <2>1, AdoptKeeps
  <1>4. CASE c \in discovered /\ Reconcile(p, c) BY <1>1, <1>4, ReconcileKeeps
  <1>5. CASE status[c] = "ended" /\ UNCHANGED << bindings, snapshot, flow >>
    <2>1. UNCHANGED << snapshot, observations, edges >> /\ bindings' = bindings BY <1>5 DEF flow
    <2>2. QED BY <1>1, <1>2, <1>5, <2>1, AdoptKeeps
  <1>6. QED BY <1>1, <1>3, <1>4, <1>5 DEF HandleTaskCreate

-----------------------------------------------------------------------------
LEMMA LoopStepKeeps == ASSUME IInv, LoopStep PROVE IInv'
  <1>1. PICK p \in Proc :
          \/ Entry(p) \/ ExitGroup(p) \/ ExitIgnored(p)
          \/ HandlePipeExit(p) \/ HandleOpenExit(p) \/ HandleCloseExit(p)
          \/ HandleDupExit(p) \/ HandleSetfdExit(p)
          \/ HandleWriteExit(p) \/ HandleReadExit(p)
          \/ HandleTaskCreate(p) \/ HandleExecSuccess(p)
    BY DEF LoopStep
  <1>2. QED
    BY <1>1, EntryKeeps, ExitGroupKeeps, ExitIgnoredKeeps, HandlePipeExitKeeps,
       HandleOpenExitKeeps, HandleCloseExitKeeps, HandleDupExitKeeps, HandleSetfdExitKeeps,
       HandleWriteExitKeeps, HandleReadExitKeeps, HandleTaskCreateKeeps, HandleExecSuccessKeeps

LEMMA StutterKeeps == ASSUME IInv, UNCHANGED vars PROVE IInv'
  <1>1. UNCHANGED << kind, content, table, early, status, call, left, bindings, snapshot,
                     discovered, inherited, nextResource, observations, edges >>
    BY DEF vars, kernel, tables, flow
  <1>2. KernelTyped' /\ AnalyzerTyped'
    BY <1>1 DEF IInv, KernelTyped, AnalyzerTyped, ContentTyped, IsOpen
  <1>3. CallsInv' BY <1>1 DEF IInv, CallsInv, CallOf, Does
  <1>4. /\ \A p \in Proc : \A ops : Effective(p, ops)' <=> Effective(p, ops)
        /\ \A p \in Proc : Made(p)' = Made(p)
        /\ \A p \in Proc, f \in Fd : /\ IsOpen(p, f)' <=> IsOpen(p, f)
                                     /\ Bound(p, f)' <=> Bound(p, f)
    BY <1>1 DEF Effective, Made, IsOpen, Bound, Succeeded, Does
  <1>5. EffectInv'
    <2>. SUFFICES ASSUME NEW p \in Proc PROVE EffectOf(p)' BY DEF EffectInv
    <2>1. EffectOf(p) BY DEF IInv, EffectInv
    <2>2. (PipeMade(p)' <=> PipeMade(p)) /\ (PipeAlone(p)' <=> PipeAlone(p))
      BY <1>1, <1>4 DEF PipeMade, PipeAlone, IsOpen, Pipe
    <2>3. QED BY <1>1, <1>4, <2>1, <2>2 DEF EffectOf, IsOpen, Does
  <1>6. \A p \in Proc, f \in Fd : /\ Stale(p, f)' <=> Stale(p, f)
                                  /\ Reflagged(p, f)' <=> Reflagged(p, f)
    BY <1>1, <1>4 DEF Stale, Reflagged
  <1>7. \A p \in Proc : Tracked(p)' <=> Tracked(p) BY <1>1 DEF Tracked, Known
  <1>8. AgreeInv'
    <2>. SUFFICES ASSUME NEW p \in Proc, NEW f \in Fd, (Tracked(p) /\ ~Stale(p, f))'
                  PROVE  Agrees(p, f)'
      BY DEF AgreeInv
    <2>1. Agrees(p, f) BY <1>6, <1>7 DEF IInv, AgreeInv
    <2>2. QED BY <1>1, <1>6, <2>1 DEF Agrees, IsOpen, Bound
  <1>9. KnownInv' BY <1>1, <1>7 DEF IInv, KnownInv, IsOpen
  <1>10. ForksInv' BY <1>1 DEF IInv, ForksInv, ForkOf
  <1>11. \A p \in Proc : Transferring(p)' <=> Transferring(p) BY <1>1 DEF Transferring, Does
  <1>12. ObservationsInv'
    <2>1. ASSUME NEW p \in Proc, Transferring(p)' PROVE ObservationOf(p)'
      <3>1. ObservationOf(p) BY <1>11, <2>1 DEF IInv, ObservationsInv
      <3>2. QED BY <1>1, <1>4, <1>11, <3>1 DEF ObservationOf, IsOpen
    <2>2. QED BY <1>1, <2>1 DEF IInv, ObservationsInv
  <1>13. LinkedInv' /\ EdgesInv' BY <1>1 DEF IInv, LinkedInv, EdgesInv
  <1>14. NamesInv'
    <2>1. PICK object \in [Id -> Object], id \in [Proc -> [Object -> Nat]] : Named(object, id)
      BY DEF IInv, NamesInv
    <2>2. \A p \in Proc, f \in Fd : Refers(p, f)' <=> Refers(p, f)
      BY <1>4, <1>6, <1>7 DEF Refers
    <2>3. \A p \in Proc : Family(p)' = Family(p) BY <1>1 DEF Family, Early
    <2>4. Named(object, id)' BY <1>1, <2>1, <2>2, <2>3 DEF Named, Pipe
    <2>5. Id' = Id BY <1>1 DEF Id
    <2>6. QED BY <2>4, <2>5 DEF NamesInv
  <1>15. QED
    BY <1>2, <1>3, <1>5, <1>8, <1>9, <1>10, <1>12, <1>13, <1>14 DEF IInv

LEMMA StepKeeps == ASSUME IInv, [Next]_vars PROVE IInv'
  BY KernelStepKeeps, LoopStepKeeps, StutterKeeps DEF Next

LEMMA Inductive == Spec => []IInv
  <1>1. Init => IInv BY InitIInv
  <1>2. IInv /\ [Next]_vars => IInv' BY StepKeeps
  <1>3. QED BY <1>1, <1>2, PTL DEF Spec

-----------------------------------------------------------------------------
LEMMA Typed == IInv => TypeOK
  <1>. SUFFICES ASSUME IInv PROVE TypeOK OBVIOUS
  <1>1. KernelTyped /\ AnalyzerTyped BY DEF IInv
  <1>2. \A p \in Proc, f \in Fd : /\ bindings[p][f] \in Binding \cup {Unbound}
                                  /\ snapshot[p][f] \in Binding \cup {Unbound}
                                  /\ bindings[p][f].res < nextResource
    BY <1>1 DEF AnalyzerTyped
  <1>3. QED BY <1>1, <1>2 DEF TypeOK, KernelTyped, AnalyzerTyped

LEMMA SettledRefers ==
  ASSUME IInv, NEW p \in Proc, Settled(p), NEW f \in Fd
  PROVE  Agrees(p, f) /\ ~Reflagged(p, f) /\ (Bound(p, f) => Refers(p, f))
  <1>1. Tracked(p) /\ ~Stale(p, f) /\ ~Reflagged(p, f)
    BY DEF Settled, Tracked, Stale, Reflagged, Effective
  <1>2. QED BY <1>1 DEF IInv, AgreeInv, Refers

(* Between its calls a process's bindings are its descriptors, of the same *)
(* kinds, ends and close-on-exec flags: the analyzer replays pipe, open,   *)
(* close, dup, fcntl, fork and exec, and reads /proc once for each process.*)
THEOREM TablesAreTheKernels == Spec => []TablesAgree
  <1>1. IInv => TablesAgree
    <2>. SUFFICES ASSUME IInv, NEW p \in Proc, NEW f \in Fd, Settled(p)
                  PROVE  /\ IsOpen(p, f) /\ kind[table[p][f].obj] # "socket" => Bound(p, f)
                         /\ Bound(p, f) => /\ IsOpen(p, f)
                                           /\ bindings[p][f].type = kind[table[p][f].obj]
                                           /\ bindings[p][f].role = table[p][f].role
                                           /\ bindings[p][f].cloexec = table[p][f].cloexec
      BY Typed DEF TablesAgree
    <2>1. QED BY SettledRefers DEF Agrees
  <1>2. QED BY <1>1, Inductive, PTL

(* A resource id that discovery, an open or a pipe call gave out stands    *)
(* for one kernel object wherever it is found, whatever was inherited,     *)
(* duplicated or renamed since.                                            *)
THEOREM IdsStandForOneObject == Spec => []ResourceIsOneObject
  <1>1. IInv => ResourceIsOneObject
    <2>. SUFFICES ASSUME IInv, NEW res \in 1 .. nextResource - 1
                  PROVE  Cardinality(Meaning(res)) <= 1
      BY DEF ResourceIsOneObject
    <2>1. PICK object \in [Id -> Object], id \in [Proc -> [Object -> Nat]] : Named(object, id)
      BY DEF IInv, NamesInv
    <2>2. res # 0 BY DEF IInv, AnalyzerTyped
    <2>3. ASSUME NEW p \in Proc, NEW f \in Fd, Settled(p), bindings[p][f].res = res
          PROVE  table[p][f].obj = object[res]
      <3>1. Bound(p, f) BY <2>2, <2>3 DEF Bound, Unbound
      <3>2. Refers(p, f) BY <2>3, <3>1, SettledRefers
      <3>3. QED BY <2>1, <2>3, <3>2 DEF Named
    <2>4. ASSUME NEW i \in DOMAIN observations, observations[i].res = res, observations[i].obj # 0
          PROVE  observations[i].obj = object[res]
      BY <2>1, <2>2, <2>4 DEF Named
    <2>5. Meaning(res) \subseteq {object[res]} BY <2>3, <2>4 DEF Meaning
    <2>6. Meaning(res) = {} \/ Meaning(res) = {object[res]} BY <2>5
    <2>7. Cardinality({}) = 0 /\ Cardinality({object[res]}) = 1 BY FS_EmptySet, FS_Singleton
    <2>8. Cardinality(Meaning(res)) = 0 \/ Cardinality(Meaning(res)) = 1
      <3>1. CASE Meaning(res) = {} BY <2>7, <3>1, Zenon
      <3>2. CASE Meaning(res) = {object[res]} BY <2>7, <3>2, Zenon
      <3>3. QED BY <2>6, <3>1, <3>2
    <2>9. QED BY <2>8
  <1>2. QED BY <1>1, Inductive, PTL

(* Both ends of a pipe carry one id within a process, and across all the   *)
(* processes that were announced before they were met.                     *)
THEOREM PipesHaveOneId == Spec => []PipeEndsShareId
  <1>1. IInv => PipeEndsShareId
    <2>. SUFFICES ASSUME IInv, NEW p \in Proc, NEW q \in Proc, NEW f \in Fd, NEW g \in Fd,
                         Settled(p), Settled(q), Bound(p, f), Bound(q, g),
                         p = q \/ ~(Early(p) \/ Early(q)),
                         table[p][f].obj = table[q][g].obj, Pipe(table[p][f].obj)
                  PROVE  bindings[p][f].res = bindings[q][g].res
      BY DEF PipeEndsShareId
    <2>1. PICK object \in [Id -> Object], id \in [Proc -> [Object -> Nat]] : Named(object, id)
      BY DEF IInv, NamesInv
    <2>2. Refers(p, f) /\ Refers(q, g) BY SettledRefers
    <2>3. Family(p) = Family(q) BY DEF Family
    <2>4. QED BY <2>1, <2>2, <2>3 DEF Named
  <1>2. QED BY <1>1, Inductive, PTL

(* A DataFlow edge joins a write to a read of the same pipe with the same  *)
(* content, and the write had begun when the read ended.                   *)
THEOREM EdgesJoinOnePipe == Spec => []EdgesAreReal
  <1>1. IInv => EdgesAreReal BY DEF IInv, EdgesInv, EdgesAreReal
  <1>2. QED BY <1>1, Inductive, PTL

-----------------------------------------------------------------------------
(* What supplied a read is a write that was recorded before.               *)
FromInv == \A i \in DOMAIN observations : observations[i].from \in {0} \cup DOMAIN observations

LEMMA FromKept ==
  ASSUME FromInv, DOMAIN observations' = DOMAIN observations,
         \A i \in DOMAIN observations :
           observations'[i].from \in {0, observations[i].from} \cup DOMAIN observations
  PROVE  FromInv'
  BY DEF FromInv

LEMMA KernelFrom == ASSUME IInv, FromInv, KernelStep PROVE FromInv'
  <1>1. PICK p \in Proc :
          \/ Fails(p) \/ MakesPipe(p) \/ Opens(p) \/ Closes(p) \/ Duplicates(p)
          \/ Writes(p) \/ Reads(p) \/ Forks(p) \/ Execs(p)
    BY DEF KernelStep
  <1>2. ContentTyped /\ KernelTyped BY DEF IInv, AnalyzerTyped
  <1>3. observations \in Seq(Observed) BY DEF IInv, AnalyzerTyped
  <1>4. ASSUME NEW o, NEW token, NEW from \in {0} \cup DOMAIN observations, Uses(p, o, token, from)
        PROVE  FromInv'
    <2>. DEFINE i == call[p].obs
                x == [observations[i] EXCEPT !.obj = o, !.token = token, !.from = from]
    <2>1. observations' = [observations EXCEPT ![i] = x] BY <1>4 DEF Uses
    <2>2. i \in DOMAIN observations => x.from = from
      <3>1. i \in DOMAIN observations => observations[i] \in Observed BY <1>3
      <3>2. QED BY <3>1 DEF Observed
    <2>. HIDE DEF x
    <2>3. QED BY <1>3, <1>4, <2>1, <2>2, FromKept
  <1>5. CASE Writes(p)
    <2>1. \E o, token : Uses(p, o, token, 0) BY <1>5 DEF Writes
    <2>2. QED BY <1>4, <2>1
  <1>6. CASE Reads(p)
    <2>1. CASE UNCHANGED observations BY <2>1 DEF FromInv
    <2>2. CASE observations' # observations
      <3>1. status[p] = "called" /\ call[p].op = "read" /\ Pipe(table[p][call[p].fd].obj)
            /\ IsOpen(p, call[p].fd)
        BY <1>6 DEF Reads
      <3>2. call[p].fd \in Fd BY <3>1, Called DEF Does, FdCalls
      <3>3. PICK o \in Object : o = table[p][call[p].fd].obj
        BY <1>2, <3>1, <3>2 DEF KernelTyped, IsOpen, Opened
      <3>4. content[o] # << >> /\ \E token : Uses(p, o, token, Head(content[o]))
        BY <1>6, <2>2, <3>3 DEF Reads
      <3>5. content[o] \in Seq(Nat) /\ \A k \in DOMAIN content[o] : content[o][k] \in DOMAIN observations
        BY <1>2 DEF ContentTyped
      <3>6. Head(content[o]) \in DOMAIN observations BY <3>4, <3>5
      <3>7. QED BY <1>4, <3>4, <3>6
    <2>3. QED BY <2>1, <2>2
  <1>7. CASE ~Writes(p) /\ ~Reads(p)
    <2>1. UNCHANGED observations
      BY <1>1, <1>7
         DEF Fails, MakesPipe, Opens, Closes, Duplicates, Installs, Forks, Execs, flow
    <2>2. QED BY <2>1 DEF FromInv
  <1>8. QED BY <1>5, <1>6, <1>7

LEMMA LoopFrom == ASSUME IInv, FromInv, LoopStep PROVE FromInv'
  <1>1. PICK p \in Proc :
          \/ Entry(p) \/ ExitGroup(p) \/ ExitIgnored(p)
          \/ HandlePipeExit(p) \/ HandleOpenExit(p) \/ HandleCloseExit(p)
          \/ HandleDupExit(p) \/ HandleSetfdExit(p)
          \/ HandleWriteExit(p) \/ HandleReadExit(p)
          \/ HandleTaskCreate(p) \/ HandleExecSuccess(p)
    BY DEF LoopStep
  <1>2. observations \in Seq(Observed) BY DEF IInv, AnalyzerTyped
  <1>3. \A i \in DOMAIN observations : observations[i] \in Observed BY <1>2
  <1>4. CASE Entry(p)
    <2>1. CASE UNCHANGED observations BY <2>1 DEF FromInv
    <2>2. CASE \E c, token : observations' = Append(observations, Stamped(p, c, token))
      <3>1. PICK s : observations' = Append(observations, s) /\ s.from = 0 BY <2>2 DEF Stamped
      <3>2. QED BY <1>2, <3>1 DEF FromInv
    <2>3. QED BY <1>4, <2>1, <2>2 DEF Entry
  <1>5. CASE HandleWriteExit(p)
    <2>. DEFINE i == call[p].obs
    <2>1. observations' = [observations EXCEPT ![i].done = TRUE] BY <1>5 DEF HandleWriteExit
    <2>2. \A j \in DOMAIN observations : observations'[j].from = observations[j].from
      BY <1>3, <2>1 DEF Observed
    <2>3. QED BY <2>1, <2>2, FromKept
  <1>6. CASE HandleReadExit(p)
    <2>. DEFINE i == call[p].obs
                x == [observations[i] EXCEPT !.done = TRUE, !.end = Len(observations)]
    <2>1. observations' = [observations EXCEPT ![i] = x] BY <1>6 DEF HandleReadExit
    <2>2. i \in DOMAIN observations => x.from = observations[i].from BY <1>3 DEF Observed
    <2>. HIDE DEF x
    <2>3. QED BY <1>2, <2>1, <2>2, FromKept
  <1>7. CASE HandleTaskCreate(p)
    <2>1. CASE UNCHANGED observations BY <2>1 DEF FromInv
    <2>2. CASE Reconcile(p, call[p].child)
      <3>1. /\ DOMAIN observations' = DOMAIN observations
            /\ \A i \in DOMAIN observations : \E res :
                 observations'[i] = [observations[i] EXCEPT !.res = res]
        BY <2>2 DEF Reconcile
      <3>2. \A i \in DOMAIN observations : observations'[i].from = observations[i].from
        BY <1>3, <3>1 DEF Observed
      <3>3. QED BY <3>1, <3>2, FromKept
    <2>3. QED BY <1>7, <2>1, <2>2 DEF HandleTaskCreate, Inherit, flow
  <1>8. CASE ~(Entry(p) \/ HandleWriteExit(p) \/ HandleReadExit(p) \/ HandleTaskCreate(p))
    <2>1. UNCHANGED observations
      BY <1>1, <1>8
         DEF ExitGroup, ExitIgnored, HandlePipeExit, HandleOpenExit, HandleCloseExit,
             HandleDupExit, HandleSetfdExit, HandleExecSuccess, Rebind, flow
    <2>2. QED BY <2>1 DEF FromInv
  <1>9. QED BY <1>4, <1>5, <1>6, <1>7, <1>8

LEMMA FromInductive == Spec => []FromInv
  <1>1. Init => FromInv BY DEF Init, FromInv
  <1>2. IInv /\ FromInv /\ [Next]_vars => FromInv'
    <2>1. ASSUME FromInv, UNCHANGED vars PROVE FromInv' BY <2>1 DEF FromInv, vars, flow
    <2>2. QED BY <2>1, KernelFrom, LoopFrom DEF Next
  <1>3. QED BY <1>1, <1>2, Inductive, PTL DEF Spec

(* Once the exits of a read and of the write that supplied it are handled  *)
(* and the two are of one resource, the read has an edge: in whichever     *)
(* order the exits came, and when ids were reconciled only later.          *)
THEOREM SuppliedReadsHaveEdges == Spec => []SuppliedReadsAreLinked
  <1>1. IInv /\ FromInv => SuppliedReadsAreLinked
    BY DEF IInv, LinkedInv, FromInv, SuppliedReadsAreLinked
  <1>2. QED BY <1>1, Inductive, FromInductive, PTL
=============================================================================
