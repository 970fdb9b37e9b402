------------------------ MODULE ProcessLineageProofs ------------------------
(* Proofs about ProcessLineage, for any task ids, bounds and event order.  *)
EXTENDS ProcessLineage, SequenceTheorems, TLAPS

(* A process node is that of an active TGID, or has an end time.           *)
NodesStand ==
  \A i \in Instance : node[i] \in Tid => i \in ended \/ active[node[i]] = i

IInv == TypeOK /\ MapsAgree /\ NodesStand /\ OneCausalParent /\ FreshIdsAreClean

(***************************************************************************)
(* The maps a step follows, as values: handle_fork_exit goes through       *)
(* ensure_process twice, so the lemmas speak of any state of the maps, the *)
(* one between the two calls included.                                     *)
(***************************************************************************)
Agree(next, act, nod, live, end) ==
  /\ next \in 1 .. MaxInstances + 1
  /\ act \in [Tid -> Instance \cup {NoInstance}]
  /\ nod \in [Instance -> Tid \cup {NoTid}]
  /\ live \in [Instance -> SUBSET Tid]
  /\ end \subseteq Instance
  /\ \A g \in Tid : act[g] # NoInstance =>
       act[g] < next /\ act[g] \notin end /\ nod[act[g]] = g /\ live[act[g]] # {}
  /\ \A i \in Instance : live[i] # {} => nod[i] \in Tid /\ act[nod[i]] = i
  /\ \A i \in Instance : nod[i] \in Tid => i \in end \/ act[nod[i]] = i
  /\ \A i \in Instance : i >= next => i \notin end /\ live[i] = {}

Known(act, g)          == act[g] # NoInstance
Named(next, act, g)    == IF Known(act, g) THEN act[g] ELSE next
Next1(next, act, g)    == IF Known(act, g) THEN next ELSE next + 1
Node1(next, act, nod, g) == IF Known(act, g) THEN nod ELSE [nod EXCEPT ![next] = g]

(* ensure_process, the instance kept alive by some thread.                 *)
LEMMA TouchAgrees ==
  ASSUME NEW next, NEW act, NEW nod, NEW live, NEW end,
         Agree(next, act, nod, live, end),
         NEW g \in Tid, Named(next, act, g) \in Instance,
         NEW S \in SUBSET Tid, S # {}
  PROVE  Agree(Next1(next, act, g),
               [act EXCEPT ![g] = Named(next, act, g)],
               Node1(next, act, nod, g),
               [live EXCEPT ![Named(next, act, g)] = S],
               end)
  <1> DEFINE p == Named(next, act, g)
  <1> USE BoundAssumption, TidAssumption
      DEF Agree, Instance, NoInstance, NoTid
  <1>1. CASE Known(act, g)
    BY <1>1 DEF Known, Named, Next1, Node1
  <1>2. CASE ~Known(act, g)
    <2>1. p = next /\ next \in Instance BY <1>2 DEF Named
    <2>2. \A h \in Tid : h # g => act[h] # next BY <2>1
    <2>3. QED BY <1>2, <2>1, <2>2 DEF Known, Named, Next1, Node1
  <1>3. QED BY <1>1, <1>2

(* ensure_process, then the end of the instance.                           *)
LEMMA RetireAgrees ==
  ASSUME NEW next, NEW act, NEW nod, NEW live, NEW end,
         Agree(next, act, nod, live, end),
         NEW g \in Tid, Named(next, act, g) \in Instance
  PROVE  Agree(Next1(next, act, g),
               [act EXCEPT ![g] = NoInstance],
               Node1(next, act, nod, g),
               [live EXCEPT ![Named(next, act, g)] = {}],
               end \cup {Named(next, act, g)})
  <1> USE BoundAssumption, TidAssumption
      DEF Agree, Instance, NoInstance, NoTid
  <1>1. CASE Known(act, g)
    <2>. DEFINE p == act[g]
    <2>1. /\ p \in Instance /\ p < next /\ nod[p] = g
          /\ Named(next, act, g) = p
          /\ Next1(next, act, g) = next
          /\ Node1(next, act, nod, g) = nod
      BY <1>1 DEF Known, Named, Next1, Node1
    <2>2. \A h \in Tid : h # g => act[h] # p BY <2>1
    <2>3. \A i \in Instance : i # p /\ live[i] # {} => nod[i] # g BY <2>1
    <2>. HIDE DEF p
    <2>4. Agree(next, [act EXCEPT ![g] = NoInstance], nod,
                [live EXCEPT ![p] = {}], end \cup {p})
      BY <2>1, <2>2, <2>3
    <2>5. QED BY <2>1, <2>4
  <1>2. CASE ~Known(act, g)
    <2>. DEFINE p == Named(next, act, g)
    <2>1. p = next /\ next \in Instance BY <1>2 DEF Named
    <2>2. act[g] = NoInstance BY <1>2 DEF Known
    <2>3. [act EXCEPT ![g] = NoInstance] = act BY <2>2
    <2>4. live[next] = {} BY <2>1
    <2>5. [live EXCEPT ![next] = {}] = live BY <2>4
    <2>6. \A h \in Tid : act[h] # next BY <2>1
    <2>7. Agree(next + 1, act, [nod EXCEPT ![next] = g], live, end \cup {next})
      BY <2>1, <2>4, <2>6
    <2>8. Next1(next, act, g) = next + 1 /\ Node1(next, act, nod, g) = [nod EXCEPT ![next] = g]
      BY <1>2 DEF Next1, Node1
    <2>9. QED BY ONLY <2>1, <2>3, <2>5, <2>7, <2>8
  <1>3. QED BY <1>1, <1>2

-----------------------------------------------------------------------------
MapsNow   == Agree(nextInstance, active, node, tids, ended)
MapsAfter == Agree(nextInstance', active', node', tids', ended')

LEMMA MapsOfIInv ==
  ASSUME IInv PROVE MapsNow
  BY BoundAssumption, TidAssumption
  DEF IInv, MapsNow, Agree, TypeOK, MapsAgree, NodesStand, FreshIdsAreClean, IsActive, IsAllocated

(* Every action but the fork fallback follows the maps once.               *)
LEMMA OneTouch ==
  ASSUME IInv, NEW g \in Tid, NEW S \in SUBSET Tid,
         CanCreate(g),
         nextInstance' = NextAfter(g),
         node' = NodeFor(g),
         tids' = [tids EXCEPT ![InstanceFor(g)] = S],
         \/ /\ S # {}
            /\ active' = [active EXCEPT ![g] = InstanceFor(g)]
            /\ ended' = ended
         \/ /\ S = {}
            /\ active' = [active EXCEPT ![g] = NoInstance]
            /\ ended' = ended \cup {InstanceFor(g)}
  PROVE  MapsAfter
  <1>1. MapsNow BY MapsOfIInv
  <1>2. /\ InstanceFor(g) = Named(nextInstance, active, g)
        /\ NextAfter(g) = Next1(nextInstance, active, g)
        /\ NodeFor(g) = Node1(nextInstance, active, node, g)
    BY DEF InstanceFor, NextAfter, NodeFor, IsActive, Named, Next1, Node1, Known
  <1>3. Named(nextInstance, active, g) \in Instance BY <1>2 DEF CanCreate
  <1>4. CASE S # {}
    <2>1. Agree(Next1(nextInstance, active, g),
                [active EXCEPT ![g] = Named(nextInstance, active, g)],
                Node1(nextInstance, active, node, g),
                [tids EXCEPT ![Named(nextInstance, active, g)] = S],
                ended)
      BY <1>1, <1>3, <1>4, TouchAgrees DEF MapsNow
    <2>2. QED BY <1>2, <1>4, <2>1 DEF MapsAfter
  <1>5. CASE S = {}
    <2>1. Agree(Next1(nextInstance, active, g),
                [active EXCEPT ![g] = NoInstance],
                Node1(nextInstance, active, node, g),
                [tids EXCEPT ![Named(nextInstance, active, g)] = {}],
                ended \cup {Named(nextInstance, active, g)})
      BY <1>1, <1>3, RetireAgrees DEF MapsNow
    <2>2. QED BY <1>2, <1>5, <2>1 DEF MapsAfter
  <1>6. QED BY <1>4, <1>5

LEMMA EnsureAgrees ==
  ASSUME IInv, NEW tid \in Tid, NEW g \in Tid, EnsureProcess(tid, g), ended' = ended
  PROVE  MapsAfter
  <1>. DEFINE S == tids[InstanceFor(g)] \cup {tid}
  <1>1. S \in SUBSET Tid /\ S # {} BY DEF IInv, TypeOK, EnsureProcess, CanCreate
  <1>2. QED BY <1>1, OneTouch DEF EnsureProcess

(* What a step on an already known process does is a touch as well.        *)
LEMMA KnownAgrees ==
  ASSUME IInv, NEW g \in Tid, IsActive(g), NEW S \in SUBSET Tid, S # {},
         tids' = [tids EXCEPT ![active[g]] = S],
         UNCHANGED << nextInstance, active, node, ended >>
  PROVE  MapsAfter
  <1>1. /\ InstanceFor(g) = active[g] /\ NextAfter(g) = nextInstance
        /\ NodeFor(g) = node
    BY DEF InstanceFor, NextAfter, NodeFor
  <1>2. active \in [Tid -> Instance \cup {NoInstance}] BY DEF IInv, TypeOK
  <1>3. CanCreate(g) BY <1>1, <1>2 DEF CanCreate, IsActive
  <1>4. active = [active EXCEPT ![g] = InstanceFor(g)] BY <1>1, <1>2
  <1>5. QED BY <1>1, <1>3, <1>4, OneTouch

(* The fork fallback touches the parent and then the child.                *)
LEMMA ForkCreateAgrees ==
  ASSUME IInv, NEW tid \in Tid, NEW g \in Tid, NEW call, NEW child,
         ForkExitCreate(tid, g, call, child)
  PROVE  MapsAfter
  <1>. DEFINE p == InstanceFor(g)
              known == IsActive(child) \/ child = g
              c == IF child = g THEN p
                   ELSE IF known THEN active[child] ELSE NextAfter(g)
              n1 == NextAfter(g)
              a1 == [active EXCEPT ![g] = p]
              d1 == NodeFor(g)
              l1 == [tids EXCEPT ![p] = @ \cup {tid}]
              S2 == l1[c] \cup {child}
  <1>1. child \in Tid /\ p \in Instance /\ c \in Instance
    BY DEF ForkExitCreate, ForkExit
  <1>2. active \in [Tid -> Instance \cup {NoInstance}]
        /\ tids \in [Instance -> SUBSET Tid]
    BY DEF IInv, TypeOK
  <1>3. Agree(n1, a1, d1, l1, ended)
    <2>1. MapsNow BY MapsOfIInv
    <2>2. p = Named(nextInstance, active, g) /\ n1 = Next1(nextInstance, active, g)
          /\ d1 = Node1(nextInstance, active, node, g)
      BY DEF InstanceFor, NextAfter, NodeFor, IsActive, Named, Next1, Node1, Known
    <2>3. l1 = [tids EXCEPT ![p] = tids[p] \cup {tid}] BY <1>1, <1>2
    <2>4. tids[p] \cup {tid} \in SUBSET Tid BY <1>1, <1>2
    <2>. HIDE DEF p, n1, d1, l1
    <2>5. QED BY <1>1, <2>1, <2>2, <2>3, <2>4, TouchAgrees DEF MapsNow
  <1>4. p # NoInstance BY <1>1 DEF Instance, NoInstance
  <1>5. Known(a1, child) <=> known BY <1>1, <1>2, <1>4 DEF Known, IsActive
  <1>6. Named(n1, a1, child) = c BY <1>1, <1>2, <1>5 DEF Named
  <1>7. S2 \in SUBSET Tid /\ S2 # {} BY <1>1, <1>2
  <1>8. Agree(Next1(n1, a1, child), [a1 EXCEPT ![child] = c],
              Node1(n1, a1, d1, child), [l1 EXCEPT ![c] = S2], ended)
    <2>. HIDE DEF n1, a1, d1, l1, c, S2
    <2>1. QED BY <1>1, <1>3, <1>6, <1>7, TouchAgrees
  <1>9. /\ nextInstance' = Next1(n1, a1, child)
        /\ node' = Node1(n1, a1, d1, child)
    <2>1. ~known => c = n1 BY DEF known
    <2>2. QED BY <1>5, <2>1 DEF ForkExitCreate, Next1, Node1
  <1>10. active' = [a1 EXCEPT ![child] = c] BY DEF ForkExitCreate
  <1>11. tids' = [l1 EXCEPT ![c] = S2] BY DEF ForkExitCreate
  <1>12. ended' = ended BY DEF ForkExitCreate
  <1>. HIDE DEF n1, a1, d1, l1, c, S2, known, p
  <1>13. QED BY <1>8, <1>9, <1>10, <1>11, <1>12 DEF MapsAfter

-----------------------------------------------------------------------------
(* The rest of the invariant: what the maps themselves do not constrain.   *)
Others ==
  /\ generation \in [Instance -> 0 .. MaxGeneration]
  /\ inherited \subseteq Instance
  /\ createdBy \in [Tid -> Instance \cup {NoInstance}]
  /\ causality \in [Instance -> Seq(Instance)]
  /\ pending \in [Tid -> Observation \cup {NoCall}]
  /\ OneCausalParent
  /\ \A i \in Instance : i >= nextInstance =>
       /\ i \notin inherited /\ generation[i] = 0 /\ causality[i] = << >>
       /\ \A t \in Tid : /\ pending[t].instance # i
                         /\ createdBy[t] # i

LEMMA OthersOfIInv ==
  ASSUME IInv PROVE Others
  BY DEF IInv, Others, TypeOK, FreshIdsAreClean

LEMMA IInvAfter ==
  ASSUME MapsAfter, Others' PROVE IInv'
  BY BoundAssumption, TidAssumption
  DEF IInv, Others, MapsAfter, Agree, TypeOK, MapsAgree, NodesStand, FreshIdsAreClean,
      IsActive, IsAllocated, OneCausalParent

(* The instance a TGID leads to is allocated once the event is handled,    *)
(* and allocation only moves forward.                                      *)
LEMMA Ensured ==
  ASSUME IInv, NEW g \in Tid, CanCreate(g)
  PROVE  /\ nextInstance \in Nat /\ NextAfter(g) \in Nat
         /\ nextInstance <= NextAfter(g)
         /\ InstanceFor(g) \in Instance
         /\ InstanceFor(g) < NextAfter(g)
         /\ InstanceFor(g) # NoInstance
  BY BoundAssumption
  DEF IInv, TypeOK, MapsAgree, IsAllocated, CanCreate, InstanceFor, NextAfter,
      IsActive, Instance, NoInstance

(* Raising nextInstance and clearing a pending entry disturb nothing.      *)
LEMMA OthersKept ==
  ASSUME IInv, NEW tid \in Tid,
         nextInstance' \in Nat, nextInstance <= nextInstance',
         pending' = pending \/ pending' = [pending EXCEPT ![tid] = NoCall],
         UNCHANGED << generation, inherited, createdBy, causality >>
  PROVE  Others'
  <1>1. Others /\ nextInstance \in Nat
    BY OthersOfIInv, BoundAssumption DEF IInv, TypeOK
  <1>2. pending' \in [Tid -> Observation \cup {NoCall}] BY <1>1 DEF Others
  <1>3. NoCall.instance = NoInstance BY DEF NoCall
  <1>4. ASSUME NEW i \in Instance, i >= nextInstance', NEW t \in Tid
        PROVE  pending'[t].instance # i
    <2>1. i >= nextInstance BY <1>1, <1>4, BoundAssumption DEF Instance
    <2>2. pending[t].instance # i BY <1>1, <2>1 DEF Others
    <2>3. pending'[t] = pending[t] \/ pending'[t] = NoCall BY <1>1 DEF Others
    <2>4. i # NoInstance BY BoundAssumption DEF Instance, NoInstance
    <2>5. QED BY <1>3, <2>2, <2>3, <2>4
  <1>5. \A i \in Instance : i >= nextInstance' => i >= nextInstance
    BY <1>1, BoundAssumption DEF Instance
  <1>6. QED BY <1>1, <1>2, <1>4, <1>5 DEF Others, OneCausalParent

(* A Causality edge to an allocated child, drawn once.                     *)
LEMMA InheritKept ==
  ASSUME IInv, NEW p \in Instance, NEW c \in Instance, InheritOnce(p, c)
  PROVE  /\ inherited' \subseteq Instance
         /\ causality' \in [Instance -> Seq(Instance)]
         /\ OneCausalParent'
         /\ \A i \in Instance : i # c =>
              /\ i \in inherited' <=> i \in inherited
              /\ causality'[i] = causality[i]
  <1>1. Others BY OthersOfIInv
  <1>2. CASE c \in inherited
    BY <1>1, <1>2 DEF InheritOnce, Others, OneCausalParent
  <1>3. CASE c \notin inherited
    <2>1. causality[c] = << >> BY <1>1, <1>3 DEF Others, OneCausalParent
    <2>2. Append(causality[c], p) \in Seq(Instance) /\ Len(Append(causality[c], p)) = 1
      BY <2>1
    <2>3. causality' = [causality EXCEPT ![c] = Append(causality[c], p)]
      BY <1>3 DEF InheritOnce
    <2>4. inherited' = inherited \cup {c} BY DEF InheritOnce
    <2>5. QED BY <1>1, <2>2, <2>3, <2>4 DEF Others, OneCausalParent
  <1>4. QED BY <1>2, <1>3

LEMMA RecordKept ==
  ASSUME IInv, NEW tid \in Tid, NEW g \in Tid, NEW call \in Calls,
         RecordEntry(tid, g, call)
  PROVE  Others'
  <1>1. Others /\ CanCreate(g) BY OthersOfIInv DEF RecordEntry
  <1>2. /\ nextInstance \in Nat /\ nextInstance' \in Nat
        /\ nextInstance <= nextInstance'
        /\ InstanceFor(g) \in Instance /\ InstanceFor(g) < nextInstance'
    BY <1>1, Ensured DEF RecordEntry
  <1>. DEFINE o == [call |-> call, instance |-> InstanceFor(g),
                    generation |-> generation[InstanceFor(g)]]
  <1>3. o \in Observation /\ o.instance = InstanceFor(g)
    BY <1>1, <1>2, CallsAssumption DEF Observation, Others
  <1>. HIDE DEF o
  <1>4. pending' = [pending EXCEPT ![tid] = o]
        /\ UNCHANGED << generation, inherited, createdBy, causality >>
    BY DEF RecordEntry, o
  <1>5. pending' \in [Tid -> Observation \cup {NoCall}]
    BY <1>1, <1>2, <1>3, <1>4 DEF Others
  <1>6. \A i \in Instance : i >= nextInstance' =>
          i >= nextInstance /\ i # InstanceFor(g)
    BY <1>2, BoundAssumption DEF Instance
  <1>7. ASSUME NEW i \in Instance, i >= nextInstance', NEW t \in Tid
        PROVE  pending'[t].instance # i
    <2>1. pending'[t] = pending[t] \/ pending'[t] = o
      BY <1>1, <1>4 DEF Others
    <2>2. pending[t].instance # i BY <1>1, <1>6, <1>7 DEF Others
    <2>3. QED BY <1>3, <1>6, <1>7, <2>1, <2>2
  <1>8. QED BY <1>1, <1>4, <1>5, <1>6, <1>7 DEF Others, OneCausalParent

-----------------------------------------------------------------------------
LEMMA InitIInv == Init => IInv
  BY BoundAssumption, TidAssumption
  DEF Init, IInv, TypeOK, MapsAgree, NodesStand, OneCausalParent, FreshIdsAreClean,
      IsActive, IsAllocated, Instance, NoInstance, NoTid, NoCall

LEMMA TaskCreateKeepsIInv ==
  ASSUME IInv, NEW pg \in Tid, NEW ct \in Tid, NEW cg \in Tid,
         TaskCreate(pg, ct, cg)
  PROVE  IInv'
  <1>1. Others /\ nextInstance \in Nat
    BY OthersOfIInv, BoundAssumption DEF IInv, TypeOK
  <1>2. CASE TaskCreateOrphan(pg)
    BY <1>2 DEF TaskCreateOrphan, vars, IInv, TypeOK, MapsAgree, NodesStand, OneCausalParent,
                FreshIdsAreClean, IsActive, IsAllocated
  <1>3. CASE TaskCreateThread(pg, ct)
    <2>1. tids[active[pg]] \cup {ct} \in SUBSET Tid
      BY <1>3 DEF IInv, TypeOK, TaskCreateThread, IsActive
    <2>2. MapsAfter BY <1>3, <2>1, KnownAgrees DEF TaskCreateThread
    <2>3. Others' BY <1>1, <1>3, OthersKept DEF TaskCreateThread
    <2>4. QED BY <2>2, <2>3, IInvAfter
  <1>4. CASE TaskCreateProcess(pg, ct, cg)
    <2>. DEFINE p == active[pg]
                c == InstanceFor(cg)
    <2>1. /\ EnsureProcess(ct, cg) /\ InheritOnce(p, c)
          /\ createdBy' = [createdBy EXCEPT ![ct] = p]
          /\ UNCHANGED << ended, generation, pending >>
      BY <1>4 DEF TaskCreateProcess
    <2>2. MapsAfter BY <2>1, EnsureAgrees
    <2>3. p \in Instance /\ p < nextInstance
      BY <1>4 DEF IInv, TypeOK, MapsAgree, IsAllocated, TaskCreateProcess, IsActive
    <2>4. /\ nextInstance' \in Nat /\ nextInstance <= nextInstance'
          /\ c \in Instance /\ c < nextInstance'
      BY <2>1, Ensured DEF EnsureProcess
    <2>. HIDE DEF p, c
    <2>5. /\ inherited' \subseteq Instance
          /\ causality' \in [Instance -> Seq(Instance)]
          /\ OneCausalParent'
          /\ \A i \in Instance : i # c =>
               /\ i \in inherited' <=> i \in inherited
               /\ causality'[i] = causality[i]
      BY <2>1, <2>3, <2>4, InheritKept
    <2>6. \A i \in Instance : i >= nextInstance' => i >= nextInstance /\ i # c /\ i # p
      BY <1>1, <2>3, <2>4, BoundAssumption DEF Instance
    <2>7. Others' BY <1>1, <2>1, <2>3, <2>5, <2>6 DEF Others
    <2>8. QED BY <2>2, <2>7, IInvAfter
  <1>5. QED BY <1>2, <1>3, <1>4 DEF TaskCreate

LEMMA ExecKeepsIInv ==
  ASSUME IInv, NEW tid \in Tid, NEW g \in Tid, Exec(tid, g)
  PROVE  IInv'
  <1>1. CASE IsActive(g)
    <2>. DEFINE i == active[g]
    <2>1. /\ generation[i] < MaxGeneration
          /\ generation' = [generation EXCEPT ![i] = @ + 1]
          /\ tids' = [tids EXCEPT ![i] = {tid}]
          /\ UNCHANGED << nextInstance, active, node, ended, inherited,
                          createdBy, causality, pending >>
      BY <1>1 DEF Exec
    <2>2. {tid} \in SUBSET Tid /\ {tid} # {} OBVIOUS
    <2>9. MapsAfter BY <1>1, <2>1, <2>2, KnownAgrees
    <2>3. i \in Instance /\ i < nextInstance /\ nextInstance \in Nat
      BY <1>1, BoundAssumption DEF IInv, TypeOK, MapsAgree, IsAllocated, IsActive
    <2>. HIDE DEF i
    <2>4. Others BY OthersOfIInv
    <2>5. generation' \in [Instance -> 0 .. MaxGeneration]
      BY <2>1, <2>3, <2>4, BoundAssumption DEF Others
    <2>6. \A j \in Instance : j >= nextInstance => j # i
      BY <2>3, BoundAssumption DEF Instance
    <2>7. Others' BY <2>1, <2>3, <2>4, <2>5, <2>6 DEF Others, OneCausalParent
    <2>8. QED BY <2>9, <2>7, IInvAfter
  <1>2. CASE ~IsActive(g)
    BY <1>2 DEF Exec, vars, IInv, TypeOK, MapsAgree, NodesStand, OneCausalParent,
                FreshIdsAreClean, IsActive, IsAllocated
  <1>3. QED BY <1>1, <1>2

LEMMA EntryKeepsIInv ==
  ASSUME IInv, NEW tid \in Tid, NEW g \in Tid, NEW call \in Calls,
         Entry(tid, g, call)
  PROVE  IInv'
  <1>1. CASE EntryOrdinary(tid, g, call)
    <2>1. /\ RecordEntry(tid, g, call) /\ CanCreate(g)
      BY <1>1 DEF EntryOrdinary, RecordEntry
    <2>2. tids[InstanceFor(g)] \cup {tid} \in SUBSET Tid
      BY <2>1 DEF IInv, TypeOK, CanCreate
    <2>3. MapsAfter
      BY <1>1, <2>1, <2>2, OneTouch DEF EntryOrdinary, RecordEntry
    <2>4. QED BY <2>1, <2>3, RecordKept, IInvAfter
  <1>2. CASE call = "exit" /\ EntryThreadExit(tid, g)
    <2>. DEFINE rest == tids[InstanceFor(g)] \ {tid}
    <2>1. RecordEntry(tid, g, "exit") /\ CanCreate(g)
      BY <1>2 DEF EntryThreadExit, RecordEntry
    <2>2. rest \in SUBSET Tid BY <2>1 DEF IInv, TypeOK, CanCreate
    <2>3. MapsAfter
      BY <1>2, <2>1, <2>2, OneTouch DEF EntryThreadExit, RecordEntry
    <2>4. QED BY <1>2, <2>1, <2>3, RecordKept, IInvAfter
  <1>3. CASE call = "exit_group" /\ EntryGroupExit(tid, g)
    <2>1. RecordEntry(tid, g, "exit_group") /\ CanCreate(g)
      BY <1>3 DEF EntryGroupExit, RecordEntry
    <2>4. {} \in SUBSET Tid OBVIOUS
    <2>2. MapsAfter BY <1>3, <2>1, <2>4, OneTouch DEF EntryGroupExit, RecordEntry
    <2>3. QED BY <1>3, <2>1, <2>2, RecordKept, IInvAfter
  <1>4. QED BY <1>1, <1>2, <1>3 DEF Entry

LEMMA ExitKeepsIInv ==
  ASSUME IInv, NEW tid \in Tid, NEW g \in Tid, NEW call, NEW child,
         Exit(tid, g, call, child)
  PROVE  IInv'
  <1>1. Others BY OthersOfIInv
  <1>2. CASE \/ ExitOrdinary(tid, g, call, child)
             \/ ForkExitDeferred(tid, g, call, child)
    <2>1. /\ EnsureProcess(tid, g) /\ ended' = ended
          /\ pending' = [pending EXCEPT ![tid] = NoCall]
          /\ UNCHANGED << generation, inherited, createdBy, causality >>
      BY <1>2 DEF ExitOrdinary, ForkExitDeferred
    <2>2. Others' BY <2>1, Ensured, OthersKept DEF EnsureProcess
    <2>3. QED BY <2>1, <2>2, EnsureAgrees, IInvAfter
  <1>3. CASE ForkExitThread(tid, g, call, child)
    <2>1. CanCreate(g) /\ child \in Tid BY <1>3 DEF ForkExitThread, ForkExit
    <2>2. tids[InstanceFor(g)] \cup {tid, child} \in SUBSET Tid
      BY <2>1 DEF IInv, TypeOK, CanCreate
    <2>3. MapsAfter BY <1>3, <2>1, <2>2, OneTouch DEF ForkExitThread
    <2>4. Others' BY <1>3, <2>1, Ensured, OthersKept DEF ForkExitThread
    <2>5. QED BY <2>3, <2>4, IInvAfter
  <1>4. CASE ForkExitMatched(tid, g, call, child)
    <2>1. /\ EnsureProcess(tid, g) /\ CanCreate(g) /\ ended' = ended
          /\ createdBy' = [createdBy EXCEPT ![child] = NoInstance]
          /\ pending' = [pending EXCEPT ![tid] = NoCall]
          /\ UNCHANGED << generation, inherited, causality >>
      BY <1>4 DEF ForkExitMatched, EnsureProcess
    <2>2. nextInstance \in Nat /\ nextInstance' \in Nat /\ nextInstance <= nextInstance'
      BY <2>1, Ensured DEF EnsureProcess
    <2>3. \A i \in Instance :
             i # NoInstance /\ (i >= nextInstance' => i >= nextInstance)
      BY <2>2, BoundAssumption DEF Instance, NoInstance
    <2>4. NoCall.instance = NoInstance BY DEF NoCall
    <2>5. \A t \in Tid : pending'[t] = pending[t] \/ pending'[t] = NoCall
      BY <1>1, <2>1 DEF Others
    <2>6. Others'
      BY <1>1, <2>1, <2>3, <2>4, <2>5 DEF Others, OneCausalParent
    <2>7. QED BY <2>1, <2>6, EnsureAgrees, IInvAfter
  <1>5. CASE ForkExitCreate(tid, g, call, child)
    <2>. DEFINE p == InstanceFor(g)
                known == IsActive(child) \/ child = g
                c == IF child = g THEN p
                     ELSE IF known THEN active[child] ELSE NextAfter(g)
    <2>1. /\ child \in Tid /\ p \in Instance /\ c \in Instance
          /\ nextInstance' = IF known THEN NextAfter(g) ELSE NextAfter(g) + 1
          /\ InheritOnce(p, c)
          /\ pending' = [pending EXCEPT ![tid] = NoCall]
          /\ UNCHANGED << ended, generation, createdBy >>
      BY <1>5 DEF ForkExitCreate, ForkExit
    <2>2. /\ nextInstance \in Nat /\ NextAfter(g) \in Nat
          /\ nextInstance <= NextAfter(g) /\ p < NextAfter(g)
      BY <2>1, Ensured DEF CanCreate
    <2>3. IsActive(child) => active[child] < nextInstance
      BY <2>1 DEF IInv, MapsAgree, IsAllocated
    <2>4. c < nextInstance' /\ nextInstance <= nextInstance' /\ nextInstance' \in Nat
      BY <2>1, <2>2, <2>3, BoundAssumption DEF Instance
    <2>. HIDE DEF p, c, known
    <2>5. /\ inherited' \subseteq Instance
          /\ causality' \in [Instance -> Seq(Instance)]
          /\ OneCausalParent'
          /\ \A i \in Instance : i # c =>
               /\ i \in inherited' <=> i \in inherited
               /\ causality'[i] = causality[i]
      BY <2>1, InheritKept
    <2>6. \A i \in Instance : i # NoInstance
            /\ (i >= nextInstance' => i >= nextInstance /\ i # c)
      BY <2>1, <2>2, <2>4, BoundAssumption DEF Instance, NoInstance
    <2>7. NoCall.instance = NoInstance BY DEF NoCall
    <2>8. \A t \in Tid : pending'[t] = pending[t] \/ pending'[t] = NoCall
      BY <1>1, <2>1 DEF Others
    <2>9. Others' BY <1>1, <2>1, <2>5, <2>6, <2>7, <2>8 DEF Others
    <2>10. MapsAfter BY <1>5, ForkCreateAgrees
    <2>11. QED BY <2>9, <2>10, IInvAfter
  <1>6. QED BY <1>2, <1>3, <1>4, <1>5 DEF Exit

LEMMA NextKeepsIInv ==
  ASSUME IInv, [Next]_vars PROVE IInv'
  <1>1. ASSUME NEW pg \in Tid, NEW ct \in Tid, NEW cg \in Tid,
               TaskCreate(pg, ct, cg)
        PROVE  IInv'
    BY <1>1, TaskCreateKeepsIInv
  <1>2. ASSUME NEW tid \in Tid, NEW g \in Tid, Exec(tid, g) PROVE IInv'
    BY <1>2, ExecKeepsIInv
  <1>3. ASSUME NEW tid \in Tid, NEW g \in Tid, NEW call \in Calls,
               Entry(tid, g, call)
        PROVE  IInv'
    BY <1>3, EntryKeepsIInv
  <1>4. ASSUME NEW tid \in Tid, NEW g \in Tid, NEW call \in Calls,
               NEW child \in Tid \cup {NoTid}, Exit(tid, g, call, child)
        PROVE  IInv'
    BY <1>4, ExitKeepsIInv
  <1>5. ASSUME UNCHANGED vars PROVE IInv'
    BY <1>5 DEF vars, IInv, TypeOK, MapsAgree, NodesStand, OneCausalParent, FreshIdsAreClean,
                IsActive, IsAllocated
  <1>6. QED BY <1>1, <1>2, <1>3, <1>4, <1>5 DEF Next, Exit

(* The whole inductive invariant holds of every behaviour of the analyzer, *)
(* whatever order the backends deliver their events in.                    *)
THEOREM Invariance == Spec => []IInv
  <1>1. Init => IInv BY InitIInv
  <1>2. IInv /\ [Next]_vars => IInv' BY NextKeepsIInv
  <1>3. QED BY <1>1, <1>2, PTL DEF Spec

(* Every variable keeps its type.                                          *)
THEOREM TypeCorrect == Spec => []TypeOK
  <1>1. IInv => TypeOK BY DEF IInv
  <1>2. QED BY <1>1, Invariance, PTL

(* active_process_by_tgid_, the process nodes, their end times and the     *)
(* live-thread sets agree, so no TGID is ever answered for by an instance  *)
(* that ended, belongs to another TGID or has no thread left.              *)
THEOREM MapsAlwaysAgree == Spec => []MapsAgree
  <1>1. IInv => MapsAgree BY DEF IInv
  <1>2. QED BY <1>1, Invariance, PTL

(* And a process node without an end time is that of an active TGID.       *)
THEOREM NodesAlwaysStand == Spec => []NodesStand
  <1>1. IInv => NodesStand BY DEF IInv
  <1>2. QED BY <1>1, Invariance, PTL

(* TaskCreate and fork exits never give a child a second Causality edge.   *)
THEOREM AtMostOneCausalParent == Spec => []OneCausalParent
  <1>1. IInv => OneCausalParent BY DEF IInv
  <1>2. QED BY <1>1, Invariance, PTL

(* A process instance id carries nothing over when it is handed out.       *)
THEOREM IdsAreFresh == Spec => []FreshIdsAreClean
  <1>1. IInv => FreshIdsAreClean BY DEF IInv
  <1>2. QED BY <1>1, Invariance, PTL

-----------------------------------------------------------------------------
(* What keeps an ended instance as it was: an event leads only to an       *)
(* instance that has not ended.                                            *)
LEMMA NeverEnded ==
  ASSUME IInv, NEW g \in Tid, CanCreate(g)
  PROVE  /\ InstanceFor(g) \notin ended
         /\ \A i \in ended : i \in Instance /\ NodeFor(g)[i] = node[i]
         /\ NextAfter(g) \notin ended
         /\ NoInstance \notin ended
  <1>1. /\ nextInstance \in 1 .. MaxInstances + 1 /\ ended \subseteq Instance
        /\ node \in [Instance -> Tid \cup {NoTid}]
        /\ \A i \in Instance : i >= nextInstance => i \notin ended
    BY DEF IInv, TypeOK, FreshIdsAreClean
  <1>2. CASE IsActive(g)
    <2>1. active[g] \notin ended BY <1>2 DEF IInv, MapsAgree
    <2>2. nextInstance \notin ended /\ NoInstance \notin ended
      BY <1>1, BoundAssumption DEF Instance, NoInstance
    <2>3. QED BY <1>1, <1>2, <2>1, <2>2 DEF InstanceFor, NextAfter, NodeFor
  <1>3. CASE ~IsActive(g)
    <2>1. nextInstance \in Instance /\ nextInstance \notin ended
      BY <1>1, <1>3, BoundAssumption DEF CanCreate, InstanceFor, Instance
    <2>2. nextInstance + 1 \notin ended
      BY <1>1, BoundAssumption DEF Instance
    <2>3. QED BY <1>1, <1>3, <2>1, <2>2
      DEF InstanceFor, NextAfter, NodeFor, Instance, NoInstance
  <1>4. QED BY <1>2, <1>3

LEMMA RecordIsEndedStep ==
  ASSUME IInv, NEW tid \in Tid, NEW g \in Tid, NEW call \in Calls,
         RecordEntry(tid, g, call), ended \subseteq ended'
  PROVE  EndedStep
  <1>1. CanCreate(g) BY DEF RecordEntry
  <1>. DEFINE o == [call |-> call, instance |-> InstanceFor(g),
                    generation |-> generation[InstanceFor(g)]]
  <1>2. o.instance \notin ended BY <1>1, NeverEnded
  <1>3. pending' = [pending EXCEPT ![tid] = o] /\ node' = NodeFor(g)
        /\ generation' = generation
    BY DEF RecordEntry
  <1>. HIDE DEF o
  <1>4. pending \in [Tid -> Observation \cup {NoCall}] BY DEF IInv, TypeOK
  <1>5. \A t \in Tid : pending'[t] # pending[t] => pending'[t] = o
    BY <1>3, <1>4
  <1>6. QED BY <1>1, <1>2, <1>3, <1>5, NeverEnded DEF EndedStep

(* Steps that stamp no observation.                                        *)
LEMMA QuietIsEndedStep ==
  ASSUME IInv, NEW tid \in Tid,
         pending' = pending \/ pending' = [pending EXCEPT ![tid] = NoCall],
         \A i \in ended : node'[i] = node[i],
         ended \subseteq ended', generation' = generation
  PROVE  EndedStep
  <1>1. pending \in [Tid -> Observation \cup {NoCall}] /\ ended \subseteq Instance
    BY DEF IInv, TypeOK
  <1>2. NoCall.instance = NoInstance BY DEF NoCall
  <1>3. NoInstance \notin ended BY <1>1 DEF Instance, NoInstance
  <1>4. \A t \in Tid : pending'[t] # pending[t] => pending'[t] = NoCall BY <1>1
  <1>5. QED BY <1>2, <1>3, <1>4 DEF EndedStep

LEMMA NextIsEndedStep ==
  ASSUME IInv, [Next]_vars PROVE [EndedStep]_vars
  <1>1. ASSUME NEW pg \in Tid, NEW ct \in Tid, NEW cg \in Tid,
               TaskCreate(pg, ct, cg)
        PROVE  EndedStep
    <2>1. CASE TaskCreateOrphan(pg)
      BY <2>1, QuietIsEndedStep DEF TaskCreateOrphan, vars
    <2>2. CASE TaskCreateThread(pg, ct)
      BY <2>2, QuietIsEndedStep DEF TaskCreateThread
    <2>3. CASE TaskCreateProcess(pg, ct, cg)
      BY <2>3, NeverEnded, QuietIsEndedStep DEF TaskCreateProcess, EnsureProcess
    <2>4. QED BY <1>1, <2>1, <2>2, <2>3 DEF TaskCreate
  <1>2. ASSUME NEW tid \in Tid, NEW g \in Tid, Exec(tid, g) PROVE EndedStep
    <2>1. CASE ~IsActive(g)
      BY <1>2, <2>1, QuietIsEndedStep DEF Exec, vars
    <2>2. CASE IsActive(g)
      <3>1. active[g] \in Instance /\ active[g] \notin ended
        BY <2>2 DEF IInv, TypeOK, MapsAgree, IsAllocated, IsActive
      <3>2. /\ generation' = [generation EXCEPT ![active[g]] = @ + 1]
            /\ UNCHANGED << node, ended, pending >>
        BY <1>2, <2>2 DEF Exec
      <3>3. generation \in [Instance -> 0 .. MaxGeneration] /\ ended \subseteq Instance
        BY DEF IInv, TypeOK
      <3>4. QED BY <3>1, <3>2, <3>3 DEF EndedStep
    <2>3. QED BY <2>1, <2>2
  <1>3. ASSUME NEW tid \in Tid, NEW g \in Tid, NEW call \in Calls,
               Entry(tid, g, call)
        PROVE  EndedStep
    <2>1. CASE EntryOrdinary(tid, g, call)
      BY <2>1, RecordIsEndedStep DEF EntryOrdinary
    <2>2. CASE call = "exit" /\ EntryThreadExit(tid, g)
      BY <2>2, RecordIsEndedStep DEF EntryThreadExit
    <2>3. CASE call = "exit_group" /\ EntryGroupExit(tid, g)
      BY <2>3, RecordIsEndedStep DEF EntryGroupExit
    <2>4. QED BY <1>3, <2>1, <2>2, <2>3 DEF Entry
  <1>4. ASSUME NEW tid \in Tid, NEW g \in Tid, NEW call, NEW child,
               Exit(tid, g, call, child)
        PROVE  EndedStep
    <2>1. CASE ExitOrdinary(tid, g, call, child)
      BY <2>1, NeverEnded, QuietIsEndedStep DEF ExitOrdinary, EnsureProcess
    <2>2. CASE ForkExitThread(tid, g, call, child)
      BY <2>2, NeverEnded, QuietIsEndedStep DEF ForkExitThread
    <2>3. CASE ForkExitMatched(tid, g, call, child)
      BY <2>3, NeverEnded, QuietIsEndedStep DEF ForkExitMatched, EnsureProcess
    <2>4. CASE ForkExitDeferred(tid, g, call, child)
      BY <2>4, NeverEnded, QuietIsEndedStep DEF ForkExitDeferred, EnsureProcess
    <2>5. CASE ForkExitCreate(tid, g, call, child)
      <3>1. CanCreate(g) BY <2>5 DEF ForkExitCreate, CanCreate
      <3>2. \/ node' = NodeFor(g)
            \/ node' = [NodeFor(g) EXCEPT ![NextAfter(g)] = child]
        BY <2>5 DEF ForkExitCreate
      <3>3. NodeFor(g) \in [Instance -> Tid \cup {NoTid}]
        BY <3>1 DEF IInv, TypeOK, NodeFor, CanCreate, InstanceFor
      <3>4. \A i \in ended : node'[i] = node[i]
        BY <3>1, <3>2, <3>3, NeverEnded
      <3>5. QED BY <2>5, <3>4, QuietIsEndedStep DEF ForkExitCreate
    <2>6. QED BY <1>4, <2>1, <2>2, <2>3, <2>4, <2>5 DEF Exit
  <1>5. QED BY <1>1, <1>2, <1>3, <1>4 DEF Next, Exit

(* Ended instances stay as they were: no late, duplicated or reordered     *)
(* event revives one, renumbers its image or is attributed to it.          *)
THEOREM EndedIsFinal == Spec => EndedStaysEnded
  <1>1. IInv /\ [Next]_vars => [EndedStep]_vars BY NextIsEndedStep
  <1>2. QED BY <1>1, Invariance, PTL DEF Spec, EndedStaysEnded
=============================================================================
