--------------------------- MODULE EbpfBackendProofs ---------------------------
(***************************************************************************)
(* What holds of the eBPF backend for any number of tasks and calls, any   *)
(* size of the ring and of the filter, and whatever the ring refuses:      *)
(* TaskCreate comes first and once, and the bytes of a read come from its  *)
(* own buffer, if it has one;                                              *)
(* and of a process of which nothing is lost, an exit is paired with its   *)
(* own entry and the execs are counted.                                    *)
(***************************************************************************)
EXTENDS EbpfBackend, FiniteSetTheorems, TLAPS

Pair == (Task \cup {NoTask}) \X (Task \cup {NoTask})

Call == [task: Task, n: Nat, op: Ops \cup {"other"}, made: Task \cup {NoTask}]

Buffer == Call \cup {Nothing}

Message == [tid: Task, tgid: Task, call: Call, entry: BOOLEAN, ok: BOOLEAN,
            buf: Buffer, parent: Pair]

Status == {"none", "user", "called", "dethreading", "execed", "dead"}

KernelTyped ==
  /\ group \in [Task -> Task \cup {NoTask}]
  /\ status \in [Task -> Status]
  /\ call \in [Task -> Call]
  /\ calls \in [Task -> Nat]
  /\ creator \in [Task -> Pair]

MapsTyped ==
  /\ filter \subseteq Task /\ IsFiniteSet(filter) /\ Cardinality(filter) <= FilterSize
  /\ parents \in [Task -> Pair]
  /\ readBuf \in [Task -> Buffer] /\ pipeBuf \in [Task -> Buffer]
  /\ ring \in Seq(Message) /\ Len(ring) <= RingSize
  /\ lost \subseteq Task

BackendTyped ==
  /\ loop \in {"polling", "draining", "done"}
  /\ execTid \in [Task -> Task \cup {NoTask}]
  /\ pending \in [Task -> Buffer]
  /\ announced \in [Task -> Seq(Pair)]

(* A thread group is that of its leader, who is a task that was created.   *)
GroupsInv ==
  /\ group[Root] = Root /\ Root \in filter
  /\ \A t \in Task :
       /\ status[t] = "none" <=> group[t] = NoTask
       /\ group[t] # NoTask => group[group[t]] = group[t]
       /\ status[t] # "none" /\ t # Root => creator[t][1] \in Task
       /\ status[t] = "none" => call[t] = NoCall(t)
       /\ call[t].made # NoTask => status[call[t].made] # "none"
  /\ \A t \in filter : status[t] # "none"
  /\ \A k \in DOMAIN ring : ring[k].call.made # NoTask => status[ring[k].call.made] # "none"

(* A process is untraced only for want of room in the filter, which then   *)
(* never changes: whether a process is traced is settled when it begins.   *)
FilterInv ==
  follow => \A t \in Task : group[t] \in Task \ filter => ~Room

Silent(t) == \A k \in DOMAIN ring : ring[k].tid # t

Unmet(t) == announced[t] = << >> /\ t \notin met

(* Where the announcement of a task is: not made, in the scratch map, in   *)
(* the ring in front of the task's other events, or handed on; a task that *)
(* is not traced has none.                                                 *)
Uncreated(t) == status[t] = "none" /\ parents[t] = NoParent /\ Silent(t) /\ Unmet(t)
Scratched(t) == status[t] # "none" /\ parents[t] = creator[t] /\ Silent(t) /\ Unmet(t)
Underway(t)  ==
  /\ status[t] # "none" /\ parents[t] = NoParent /\ Unmet(t)
  /\ \E k \in DOMAIN ring :
       /\ ring[k].tid = t /\ ring[k].parent = creator[t]
       /\ \A j \in DOMAIN ring : ring[j].tid = t /\ j # k => j > k /\ ring[j].parent = NoParent
Delivered(t) ==
  /\ status[t] # "none" /\ parents[t] = NoParent /\ announced[t] = << creator[t] >>
  /\ \A k \in DOMAIN ring : ring[k].tid = t => ring[k].parent = NoParent
Untraced(t)  == status[t] # "none" /\ group[t] \notin filter /\ Silent(t) /\ Unmet(t)

AnnounceInv ==
  follow =>
    /\ \A t \in Task \ {Root} :
         Uncreated(t) \/ Scratched(t) \/ Underway(t) \/ Delivered(t) \/ Untraced(t)
    /\ \A g \in Task : execTid[g] # NoTask => execTid[g] \in met \cap Task

RootInv ==
  /\ status[Root] # "none" /\ parents[Root] = NoParent /\ announced[Root] = << >>
  /\ \A k \in DOMAIN ring : ring[k].tid = Root => ring[k].parent = NoParent

(* A traced task in a read has its argument stashed, one in a pipe call    *)
(* unless an event of its process was lost; a read without a buffer finds  *)
(* nothing, or what an earlier read of its task has left.                  *)
StashInv ==
  \A t \in Task :
    /\ status[t] \in {"dethreading", "execed"} => call[t].op = "execve"
    /\ call[t].op \in {"read", "discard", "pipe"} => call[t].task = t
    /\ readBuf[t] # Nothing => /\ readBuf[t].op = "read" /\ readBuf[t].task = t
                               /\ readBuf[t].n <= calls[t]
                               /\ call[t].op = "discard" => readBuf[t].n < call[t].n
    /\ group[t] \in filter /\ status[t] = "called" =>
         /\ call[t].op = "read" => readBuf[t] = call[t]
         /\ call[t].op = "pipe" => pipeBuf[t] = call[t] \/ group[t] \in lost

LostPipe(c) == c.op = "pipe" /\ c.task \in Task /\ group[c.task] \in lost

OlderRead(c, b) == c.op = "discard" /\ b.op = "read" /\ b.task = c.task /\ b.n < c.n

Copyable(c, b) == LostPipe(c) \/ OlderRead(c, b)

PayloadInv ==
  /\ \A k \in DOMAIN ring :
       LET e == ring[k] IN
       e.buf = Nothing \/ Known(e.buf) = Known(e.call) \/ Copyable(e.call, e.buf)
  /\ \A p \in miscopied : Copyable(p[1], p[2])

IInv ==
  /\ KernelTyped /\ MapsTyped /\ BackendTyped
  /\ GroupsInv /\ FilterInv /\ RootInv /\ AnnounceInv
  /\ StashInv /\ PayloadInv

-----------------------------------------------------------------------------
LEMMA OneMore ==
  ASSUME NEW S, IsFiniteSet(S), NEW x
  PROVE  /\ IsFiniteSet(S \cup {x})
         /\ Cardinality(S) \in Nat /\ Cardinality(S \cup {x}) \in Nat
         /\ Cardinality(S \cup {x}) <= Cardinality(S) + 1
  <1>1. Cardinality(S) \in Nat BY FS_CardinalityType
  <1>2. CASE x \in S
    <2>1. S \cup {x} = S BY <1>2
    <2>2. IsFiniteSet(S \cup {x}) /\ Cardinality(S \cup {x}) = Cardinality(S) BY <2>1, Zenon
    <2>3. QED BY <1>1, <2>2
  <1>3. CASE x \notin S
    <2>1. IsFiniteSet(S \cup {x}) /\ Cardinality(S \cup {x}) = Cardinality(S) + 1
      BY <1>3, FS_AddElement
    <2>2. QED BY <1>1, <2>1
  <1>4. QED BY <1>2, <1>3

LEMMA InitIInv == Init => IInv
  <1>. SUFFICES ASSUME Init PROVE IInv OBVIOUS
  <1>. USE SizesAssumption, TaskAssumption
  <1>1. KernelTyped BY DEF Init, KernelTyped, Status, Call, NoCall, Pair, NoParent
  <1>2. MapsTyped
    <2>1. IsFiniteSet(filter) /\ Cardinality(filter) = 1 BY FS_Singleton DEF Init
    <2>2. ring = << >> /\ ring \in Seq(Message) BY DEF Init
    <2>3. readBuf \in [Task -> Buffer] /\ pipeBuf \in [Task -> Buffer] BY DEF Init, Buffer
    <2>4. parents \in [Task -> Pair] BY DEF Init, Pair, NoParent
    <2>5. filter \subseteq Task /\ lost \subseteq Task BY DEF Init
    <2>6. QED BY <2>1, <2>2, <2>3, <2>4, <2>5 DEF MapsTyped
  <1>3. BackendTyped
    <2>1. pending \in [Task -> Buffer] BY DEF Init, Buffer
    <2>2. announced \in [Task -> Seq(Pair)] BY DEF Init
    <2>3. QED BY <2>1, <2>2 DEF Init, BackendTyped
  <1>4. GroupsInv BY DEF Init, GroupsInv, NoCall
  <1>5. FilterInv BY DEF Init, FilterInv
  <1>6. RootInv BY DEF Init, RootInv
  <1>7. AnnounceInv BY DEF Init, AnnounceInv, Uncreated, Silent, Unmet
  <1>8. StashInv BY DEF Init, StashInv, NoCall
  <1>9. PayloadInv BY DEF Init, PayloadInv
  <1>10. QED BY <1>1, <1>2, <1>3, <1>4, <1>5, <1>6, <1>7, <1>8, <1>9 DEF IInv

-----------------------------------------------------------------------------
(* An event of a task goes to the back of the ring with the announcement   *)
(* that is waiting for it, or leaves everything where it is.               *)
Seen(t, e) ==
  /\ e \in Message /\ e.tid = t /\ e.parent = parents[t]
  /\ e.call.made # NoTask => status[e.call.made] # "none"
  /\ Emit(t, e)
  /\ UNCHANGED << group, creator, filter, follow, announced, met, execTid >>
  /\ \A u \in Task : status'[u] = "none" <=> status[u] = "none"

LEMMA EmitTypes ==
  ASSUME IInv, NEW t \in Task, NEW e, Seen(t, e)
  PROVE  /\ parents' \in [Task -> Pair] /\ lost' \subseteq Task /\ lost \subseteq lost'
         /\ ring' \in Seq(Message) /\ Len(ring') <= RingSize
         /\ \A k \in DOMAIN ring' : ring'[k].call.made # NoTask => status[ring'[k].call.made] # "none"
  <1>1. /\ parents \in [Task -> Pair] /\ ring \in Seq(Message) /\ Len(ring) <= RingSize
        /\ lost \subseteq Task /\ filter \subseteq Task
        /\ \A k \in DOMAIN ring : ring[k].call.made # NoTask => status[ring[k].call.made] # "none"
    BY DEF IInv, MapsTyped, GroupsInv
  <1>2. CASE Traces(t) /\ Reserved
    <2>1. ring' = Append(ring, e) /\ lost' = lost /\ parents' = [parents EXCEPT ![t] = NoParent]
      BY <1>2 DEF Seen, Emit, AnnouncedBy
    <2>2. ring' \in Seq(Message) /\ Len(ring') <= RingSize
      BY <1>1, <1>2, <2>1, SizesAssumption DEF Seen, Reserved
    <2>3. NoParent \in Pair BY DEF NoParent, Pair
    <2>4. ASSUME NEW k \in DOMAIN ring', ring'[k].call.made # NoTask
          PROVE  status[ring'[k].call.made] # "none"
      BY <1>1, <2>1, <2>4 DEF Seen
    <2>5. QED BY <1>1, <2>1, <2>2, <2>3, <2>4
  <1>3. CASE ~(Traces(t) /\ Reserved)
    BY <1>1, <1>3 DEF Seen, Emit, AnnouncedBy, Traces
  <1>4. QED BY <1>2, <1>3

LEMMA EmitAppends ==
  ASSUME NEW t \in Task, NEW e, Seen(t, e), ring \in Seq(Message)
  PROVE  \A k \in DOMAIN ring' : (k \in DOMAIN ring /\ ring'[k] = ring[k]) \/ ring'[k] = e
  <1>1. CASE ring' = ring BY <1>1
  <1>2. CASE ring' = Append(ring, e)
    <2>1. \A k \in 1 .. Len(ring) : ring'[k] = ring[k] BY <1>2 DEF Seen
    <2>2. ring'[Len(ring) + 1] = e /\ DOMAIN ring' = 1 .. Len(ring) + 1 BY <1>2 DEF Seen
    <2>3. DOMAIN ring = 1 .. Len(ring) /\ Len(ring) \in Nat OBVIOUS
    <2>4. QED BY <2>1, <2>2, <2>3
  <1>3. QED BY <1>1, <1>2 DEF Seen, Emit

LEMMA EmitAnnounces ==
  ASSUME IInv, NEW t \in Task, NEW e, Seen(t, e), status[t] # "none"
  PROVE  AnnounceInv' /\ RootInv'
  <1>1. /\ parents \in [Task -> Pair] /\ ring \in Seq(Message)
        /\ RootInv /\ AnnounceInv /\ TaskAssumption
    BY TaskAssumption DEF IInv, MapsTyped
  <1>2. CASE Traces(t) /\ Reserved
    <2>1. ring' = Append(ring, e) /\ parents' = [parents EXCEPT ![t] = NoParent]
      BY <1>2 DEF Seen, Emit, AnnouncedBy
    <2>2. /\ DOMAIN ring' = 1 .. Len(ring) + 1 /\ ring'[Len(ring) + 1] = e
          /\ \A k \in 1 .. Len(ring) : ring'[k] = ring[k]
          /\ DOMAIN ring = 1 .. Len(ring) /\ Len(ring) \in Nat
      BY <1>1, <2>1 DEF Seen
    <2>3. RootInv'
      BY <1>1, <2>1, <2>2, TaskAssumption DEF Seen, RootInv
    <2>4. ASSUME follow, NEW u \in Task \ {Root}
          PROVE  (Uncreated(u) \/ Scratched(u) \/ Underway(u) \/ Delivered(u) \/ Untraced(u))'
      <3>1. CASE u = t
        <4>1. CASE Scratched(t)
          <5>1. creator[t] # NoParent
            BY <1>1, <3>1, <4>1 DEF IInv, GroupsInv, Scratched, NoParent, TaskAssumption
          <5>2. Underway(t)'
            BY <2>1, <2>2, <4>1, <1>1 DEF Seen, Scratched, Underway, Silent, Unmet
          <5>3. QED BY <3>1, <5>2
        <4>2. CASE Underway(t)
          <5>1. PICK k \in DOMAIN ring :
                  /\ ring[k].tid = t /\ ring[k].parent = creator[t]
                  /\ \A j \in DOMAIN ring : ring[j].tid = t /\ j # k
                       => j > k /\ ring[j].parent = NoParent
            BY <4>2 DEF Underway
          <5>2. /\ k \in DOMAIN ring' /\ ring'[k].tid = t /\ ring'[k].parent = creator'[t]
                /\ \A j \in DOMAIN ring' : ring'[j].tid = t /\ j # k
                     => j > k /\ ring'[j].parent = NoParent
            BY <2>2, <4>2, <5>1 DEF Seen, Underway
          <5>3. parents'[t] = NoParent /\ Unmet(t)' /\ status'[t] # "none"
            BY <1>1, <2>1, <4>2 DEF Seen, Underway, Unmet
          <5>4. QED BY <3>1, <5>2, <5>3 DEF Underway
        <4>3. CASE Delivered(t)
          <5>1. Delivered(t)' BY <1>1, <2>1, <2>2, <4>3 DEF Seen, Delivered
          <5>2. QED BY <3>1, <5>1
        <4>4. QED BY <1>1, <1>2, <2>4, <3>1, <4>1, <4>2, <4>3
                  DEF AnnounceInv, Uncreated, Untraced, Traces
      <3>2. CASE u # t
        <4>1. parents'[u] = parents[u] /\ (Unmet(u) => Unmet(u)') /\ (Silent(u) => Silent(u)')
          BY <1>1, <2>1, <2>2, <3>2 DEF Seen, Unmet, Silent
        <4>2. CASE Uncreated(u) BY <4>1, <4>2 DEF Uncreated, Seen
        <4>3. CASE Scratched(u) BY <4>1, <4>3 DEF Scratched, Seen
        <4>4. CASE Untraced(u) BY <4>1, <4>4 DEF Untraced, Seen
        <4>5. CASE Delivered(u) BY <2>2, <3>2, <4>1, <4>5 DEF Delivered, Seen
        <4>6. CASE Underway(u)
          <5>1. PICK k \in DOMAIN ring :
                  /\ ring[k].tid = u /\ ring[k].parent = creator[u]
                  /\ \A j \in DOMAIN ring : ring[j].tid = u /\ j # k
                       => j > k /\ ring[j].parent = NoParent
            BY <4>6 DEF Underway
          <5>2. /\ k \in DOMAIN ring' /\ ring'[k].tid = u /\ ring'[k].parent = creator'[u]
                /\ \A j \in DOMAIN ring' : ring'[j].tid = u /\ j # k
                     => j > k /\ ring'[j].parent = NoParent
            BY <2>2, <3>2, <5>1 DEF Seen
          <5>3. QED BY <4>1, <4>6, <5>2 DEF Underway, Seen
        <4>7. QED BY <1>1, <2>4, <4>2, <4>3, <4>4, <4>5, <4>6 DEF AnnounceInv
      <3>3. QED BY <3>1, <3>2
    <2>5. QED BY <1>1, <2>3, <2>4 DEF AnnounceInv, Seen
  <1>3. CASE ~(Traces(t) /\ Reserved)
    <2>1. ring' = ring /\ parents' = parents BY <1>3 DEF Seen, Emit, AnnouncedBy
    <2>2. RootInv' BY <1>1, <2>1, TaskAssumption DEF Seen, RootInv
    <2>3. ASSUME NEW u \in Task
          PROVE  /\ Uncreated(u) => Uncreated(u)'
                 /\ Scratched(u) => Scratched(u)'
                 /\ Underway(u) => Underway(u)'
                 /\ Delivered(u) => Delivered(u)'
                 /\ Untraced(u) => Untraced(u)'
      BY <2>1 DEF Seen, Uncreated, Scratched, Underway, Delivered, Untraced, Silent, Unmet
    <2>4. QED BY <1>1, <2>2, <2>3 DEF AnnounceInv, Seen
  <1>4. QED BY <1>2, <1>3

-----------------------------------------------------------------------------
(* Handing on the event at the front of the ring.                          *)
Handles(e) ==
  /\ Take(e)
  /\ \/ met' = met /\ execTid' = execTid
     \/ met' = met \cup {e.tid} /\ execTid' \in {execTid, [execTid EXCEPT ![e.tgid] = e.tid]}
     \/ met' = met \cup {EntryTid(e)} /\ execTid' \in {execTid, [execTid EXCEPT ![e.tgid] = NoTask]}

LEMMA TakeShifts ==
  ASSUME IInv, NEW e, Take(e)
  PROVE  /\ ring \in Seq(Message) /\ Len(ring) \in Nat \ {0} /\ DOMAIN ring = 1 .. Len(ring)
         /\ e = ring[1] /\ e \in Message /\ 1 \in DOMAIN ring
         /\ ring' \in Seq(Message) /\ Len(ring') <= RingSize
         /\ DOMAIN ring' = 1 .. Len(ring) - 1
         /\ \A k \in DOMAIN ring' : k + 1 \in DOMAIN ring /\ ring'[k] = ring[k + 1]
  <1>1. ring \in Seq(Message) /\ Len(ring) <= RingSize BY DEF IInv, MapsTyped
  <1>2. ring # << >> /\ e = Head(ring) /\ ring' = Tail(ring) BY DEF Take
  <1>3. Len(ring) \in Nat \ {0} /\ DOMAIN ring = 1 .. Len(ring) BY <1>1, <1>2
  <1>4. e = ring[1] /\ 1 \in DOMAIN ring /\ e \in Message BY <1>1, <1>2, <1>3
  <1>5. ring' \in Seq(Message) /\ Len(ring') = Len(ring) - 1 BY <1>1, <1>2
  <1>6. \A k \in 1 .. Len(ring) - 1 : ring'[k] = ring[k + 1] BY <1>1, <1>2
  <1>7. QED BY <1>1, <1>3, <1>4, <1>5, <1>6, SizesAssumption

(* The filter grows only while it has room, and then no process is         *)
(* untraced.                                                               *)
LEMMA TakeFilter ==
  ASSUME IInv, NEW e, Take(e)
  PROVE  /\ filter \subseteq filter' /\ filter' \subseteq Task
         /\ IsFiniteSet(filter') /\ Cardinality(filter') <= FilterSize
         /\ \A t \in filter' : status[t] # "none"
         /\ ~follow => filter' = filter
         /\ follow /\ filter' # filter => \A t \in Task : group[t] \notin Task \ filter
         /\ FilterInv'
  <1>1. /\ filter \subseteq Task /\ IsFiniteSet(filter) /\ Cardinality(filter) <= FilterSize
        /\ \A t \in filter : status[t] # "none"
        /\ FilterInv
    BY DEF IInv, MapsTyped, GroupsInv
  <1>2. UNCHANGED << group, follow >> BY DEF Take, tasks
  <1>3. CASE filter' = filter
    BY <1>1, <1>2, <1>3 DEF FilterInv, Room
  <1>4. CASE filter' # filter
    <2>1. /\ follow /\ Room /\ e.call.made # NoTask
          /\ filter' = filter \cup {e.call.made}
      BY <1>4 DEF Take
    <2>2. e.call.made \in Task /\ status[e.call.made] # "none"
      BY <2>1, TakeShifts DEF IInv, GroupsInv, Message, Call
    <2>3. IsFiniteSet(filter') /\ Cardinality(filter') <= Cardinality(filter) + 1
          /\ Cardinality(filter) \in Nat /\ Cardinality(filter') \in Nat
      BY <1>1, <2>1, OneMore
    <2>4. Cardinality(filter') <= FilterSize BY <2>1, <2>3, SizesAssumption DEF Room
    <2>5. \A t \in Task : group[t] \notin Task \ filter BY <1>1, <2>1 DEF FilterInv
    <2>6. FilterInv' BY <1>2, <2>1, <2>5 DEF FilterInv
    <2>7. QED BY <1>1, <2>1, <2>2, <2>3, <2>4, <2>5, <2>6
  <1>5. QED BY <1>3, <1>4

LEMMA TakeAnnounces ==
  ASSUME IInv, NEW e, Handles(e)
  PROVE  announced' \in [Task -> Seq(Pair)] /\ AnnounceInv' /\ RootInv'
  <1>. USE TaskAssumption
  <1>1. /\ AnnounceInv /\ RootInv /\ announced \in [Task -> Seq(Pair)] /\ creator \in [Task -> Pair]
        /\ parents \in [Task -> Pair] /\ execTid \in [Task -> Task \cup {NoTask}]
    BY DEF IInv, KernelTyped, MapsTyped, BackendTyped
  <1>2. /\ UNCHANGED << group, status, creator, parents, follow >>
        /\ announced' = IF e.parent = NoParent THEN announced
                        ELSE [announced EXCEPT ![e.tid] = Append(@, e.parent)]
        /\ Take(e)
    BY DEF Handles, Take, tasks
  <1>3. /\ e = ring[1] /\ e \in Message /\ 1 \in DOMAIN ring
        /\ \A k \in DOMAIN ring' : k + 1 \in DOMAIN ring /\ ring'[k] = ring[k + 1]
        /\ DOMAIN ring = 1 .. Len(ring) /\ DOMAIN ring' = 1 .. Len(ring) - 1 /\ Len(ring) \in Nat \ {0}
    BY <1>2, TakeShifts
  <1>4. e.tid \in Task /\ e.tgid \in Task /\ e.parent \in Pair BY <1>3 DEF Message
  <1>5. announced' \in [Task -> Seq(Pair)] BY <1>1, <1>2, <1>4
  <1>6. RootInv'
    <2>1. announced'[Root] = << >>
      BY <1>1, <1>2, <1>3, <1>4 DEF RootInv
    <2>2. \A k \in DOMAIN ring' : ring'[k].tid = Root => ring'[k].parent = NoParent
      BY <1>1, <1>3 DEF RootInv
    <2>3. QED BY <1>1, <1>2, <2>1, <2>2 DEF RootInv
  <1>7. ASSUME follow PROVE \A g \in Task : execTid'[g] # NoTask => execTid'[g] \in met' \cap Task
    <2>1. \A g \in Task : execTid[g] # NoTask => execTid[g] \in met \cap Task
      BY <1>1, <1>7 DEF AnnounceInv
    <2>2. QED BY <1>1, <1>4, <2>1 DEF Handles
  <1>8. ASSUME follow, NEW t \in Task \ {Root}, t \in met', t \notin met PROVE t = e.tid
    <2>1. \A g \in Task : execTid[g] # NoTask => execTid[g] \in met
      BY <1>1, <1>8 DEF AnnounceInv
    <2>2. QED BY <1>4, <1>8, <2>1 DEF Handles, EntryTid
  <1>9. ASSUME follow, NEW t \in Task \ {Root}
        PROVE  (Uncreated(t) \/ Scratched(t) \/ Underway(t) \/ Delivered(t) \/ Untraced(t))'
    <2>1. Silent(t) => Silent(t)' /\ e.tid # t BY <1>3 DEF Silent
    <2>2. e.tid # t => announced'[t] = announced[t] /\ (Unmet(t) => Unmet(t)')
      BY <1>1, <1>2, <1>4, <1>8, <1>9 DEF Unmet
    <2>3. CASE Uncreated(t) BY <1>2, <2>1, <2>2, <2>3 DEF Uncreated
    <2>4. CASE Scratched(t) BY <1>2, <2>1, <2>2, <2>4 DEF Scratched
    <2>5. CASE Untraced(t)
      <3>1. group[t] \in Task
        BY <2>5 DEF Untraced, IInv, KernelTyped, GroupsInv
      <3>2. group'[t] \notin filter'
        BY <1>2, <1>9, <2>5, <3>1, TakeFilter DEF Untraced
      <3>3. QED BY <1>2, <2>1, <2>2, <2>5, <3>2 DEF Untraced
    <2>6. CASE Delivered(t)
      <3>1. e.tid = t => e.parent = NoParent BY <1>3, <2>6 DEF Delivered
      <3>2. announced'[t] = announced[t] BY <1>1, <1>2, <1>4, <3>1
      <3>3. QED BY <1>2, <1>3, <2>6, <3>2 DEF Delivered
    <2>7. CASE Underway(t)
      <3>1. PICK k \in DOMAIN ring :
              /\ ring[k].tid = t /\ ring[k].parent = creator[t]
              /\ \A j \in DOMAIN ring : ring[j].tid = t /\ j # k
                   => j > k /\ ring[j].parent = NoParent
        BY <2>7 DEF Underway
      <3>2. CASE e.tid = t
        <4>1. k = 1 BY <1>3, <3>1, <3>2
        <4>2. creator[t] # NoParent
          BY <2>7 DEF IInv, GroupsInv, Underway, NoParent
        <4>3. announced[t] = << >> BY <2>7 DEF Underway, Unmet
        <4>4. announced'[t] = << creator[t] >>
          BY <1>1, <1>2, <1>3, <3>1, <3>2, <4>1, <4>2, <4>3
        <4>5. \A j \in DOMAIN ring' : ring'[j].tid = t => ring'[j].parent = NoParent
          BY <1>3, <3>1, <4>1
        <4>6. QED BY <1>2, <2>7, <4>4, <4>5 DEF Underway, Delivered
      <3>3. CASE e.tid # t
        <4>1. k # 1 BY <1>3, <3>1, <3>3
        <4>2. k - 1 \in DOMAIN ring' /\ ring'[k - 1] = ring[k] BY <1>3, <4>1
        <4>3. \A j \in DOMAIN ring' : ring'[j].tid = t /\ j # k - 1
                => j > k - 1 /\ ring'[j].parent = NoParent
          BY <1>3, <3>1, <4>1
        <4>4. Underway(t)'
          BY <1>2, <2>2, <2>7, <3>1, <3>3, <4>2, <4>3 DEF Underway
        <4>5. QED BY <4>4
      <3>4. QED BY <3>2, <3>3
    <2>8. QED BY <1>1, <1>9, <2>3, <2>4, <2>5, <2>6, <2>7 DEF AnnounceInv
  <1>10. QED BY <1>2, <1>5, <1>6, <1>7, <1>9 DEF AnnounceInv

LEMMA TakeKeeps ==
  ASSUME IInv, NEW e, Handles(e),
         loop' \in {"polling", "draining", "done"}, pending' \in [Task -> Buffer],
         miscopied' = miscopied \/ miscopied' = miscopied \cup {<< Known(e.call), Known(e.buf) >>},
         e.buf = Nothing \/ Known(e.buf) = Known(e.call) => miscopied' = miscopied
  PROVE  IInv'
  <1>1. Take(e) /\ UNCHANGED << tasks, parents, scratch, follow, lost >>
    BY DEF Handles, Take
  <1>2. /\ e = ring[1] /\ e \in Message /\ 1 \in DOMAIN ring
        /\ ring' \in Seq(Message) /\ Len(ring') <= RingSize
        /\ \A k \in DOMAIN ring' : k + 1 \in DOMAIN ring /\ ring'[k] = ring[k + 1]
    BY <1>1, TakeShifts
  <1>3. KernelTyped' BY <1>1 DEF IInv, KernelTyped, tasks
  <1>4. MapsTyped' BY <1>1, <1>2, TakeFilter DEF IInv, MapsTyped, scratch
  <1>5. execTid' \in [Task -> Task \cup {NoTask}]
    BY <1>2 DEF IInv, BackendTyped, Handles, Message
  <1>6. announced' \in [Task -> Seq(Pair)] /\ AnnounceInv' /\ RootInv'
    BY TakeAnnounces
  <1>7. BackendTyped' BY <1>5, <1>6 DEF BackendTyped
  <1>8. GroupsInv'
    <2>1. Root \in filter' /\ \A t \in filter' : status[t] # "none"
      BY <1>1, TakeFilter DEF IInv, GroupsInv
    <2>2. \A k \in DOMAIN ring' : ring'[k].call.made # NoTask => status[ring'[k].call.made] # "none"
      BY <1>2 DEF IInv, GroupsInv
    <2>3. QED BY <1>1, <2>1, <2>2 DEF IInv, GroupsInv, tasks
  <1>9. FilterInv' BY <1>1, TakeFilter
  <1>10. StashInv'
    <2>1. ASSUME NEW t \in Task, group[t] \in filter', status[t] = "called"
          PROVE  group[t] \in filter
      <3>1. group[t] \in Task BY <1>1, <2>1, TakeFilter
      <3>2. QED BY <1>1, <2>1, <3>1, TakeFilter
    <2>2. QED BY <1>1, <2>1 DEF IInv, StashInv, tasks, scratch
  <1>11. PayloadInv'
    <2>1. \A c, b : Copyable(c, b)' <=> Copyable(c, b)
      BY <1>1 DEF Copyable, OlderRead, LostPipe, tasks
    <2>2. \A k \in DOMAIN ring' : ring'[k].buf = Nothing \/ Known(ring'[k].buf) = Known(ring'[k].call)
                                  \/ Copyable(ring'[k].call, ring'[k].buf)
      BY <1>2 DEF IInv, PayloadInv
    <2>3. ASSUME NEW p \in miscopied' PROVE Copyable(p[1], p[2])
      <3>1. CASE p \in miscopied BY <3>1 DEF IInv, PayloadInv
      <3>2. CASE p \notin miscopied
        <4>1. p = << Known(e.call), Known(e.buf) >> BY <2>3, <3>2
        <4>2. Copyable(e.call, e.buf) BY <1>2, <2>3, <3>2 DEF IInv, PayloadInv
        <4>3. p[1] = Known(e.call) /\ p[2] = Known(e.buf) BY <4>1
        <4>4. QED BY <4>2, <4>3 DEF Copyable, OlderRead, LostPipe, Known
      <3>3. QED BY <3>1, <3>2
    <2>4. QED BY <2>1, <2>2, <2>3 DEF PayloadInv
  <1>12. QED BY <1>3, <1>4, <1>6, <1>7, <1>8, <1>9, <1>10, <1>11 DEF IInv

LEMMA LaunchKeeps == ASSUME IInv, NEW e, HandleLaunch(e) PROVE IInv'
  <1>1. Handles(e) BY DEF HandleLaunch, Handles
  <1>2. UNCHANGED << loop, pending, miscopied >> BY DEF HandleLaunch, Take
  <1>3. QED BY <1>1, <1>2, TakeKeeps DEF IInv, BackendTyped

LEMMA EntryKeeps == ASSUME IInv, NEW e, HandleEntry(e) PROVE IInv'
  <1>1. Handles(e) BY DEF HandleEntry, Handles
  <1>2. UNCHANGED << loop, miscopied >> BY DEF HandleEntry, Take
  <1>3. e \in Message BY <1>1, TakeShifts DEF Handles
  <1>4. pending' \in [Task -> Buffer]
    BY <1>3 DEF HandleEntry, IInv, BackendTyped, Message, Buffer
  <1>5. QED BY <1>1, <1>2, <1>4, TakeKeeps DEF IInv, BackendTyped

LEMMA ExitKeeps == ASSUME IInv, NEW e, HandleExit(e) PROVE IInv'
  <1>1. Handles(e) BY DEF HandleExit, Handles
  <1>2. loop' = loop BY DEF HandleExit, Take
  <1>3. pending' \in [Task -> Buffer] BY DEF HandleExit, IInv, BackendTyped, Buffer
  <1>4. /\ miscopied' = miscopied \/ miscopied' = miscopied \cup {<< Known(e.call), Known(e.buf) >>}
        /\ e.buf = Nothing \/ Known(e.buf) = Known(e.call) => miscopied' = miscopied
    BY DEF HandleExit
  <1>5. QED BY <1>1, <1>2, <1>3, <1>4, TakeKeeps DEF IInv, BackendTyped

-----------------------------------------------------------------------------
LEMMA SysEnterKeeps == ASSUME IInv, NEW t \in Task, NEW op \in Ops, SysEnter(t, op) PROVE IInv'
  <1>. DEFINE c == [task |-> t, n |-> calls[t] + 1, op |-> op, made |-> NoTask]
              e == Event(t, c, TRUE, FALSE, Nothing)
  <1>1. /\ status[t] = "user" /\ status' = [status EXCEPT ![t] = "called"]
        /\ calls' = [calls EXCEPT ![t] = c.n] /\ call' = [call EXCEPT ![t] = c]
        /\ StashRead(t, c) /\ StashPipe(t, c) /\ Emit(t, e)
        /\ UNCHANGED << group, creator, execs, filter, follow, backend, seen >>
    BY DEF SysEnter
  <1>2. /\ group \in [Task -> Task \cup {NoTask}] /\ status \in [Task -> Status]
        /\ call \in [Task -> Call] /\ calls \in [Task -> Nat] /\ parents \in [Task -> Pair]
        /\ readBuf \in [Task -> Buffer] /\ pipeBuf \in [Task -> Buffer]
        /\ ring \in Seq(Message) /\ filter \subseteq Task
    BY DEF IInv, KernelTyped, MapsTyped
  <1>3. group[t] \in Task BY <1>1, <1>2 DEF IInv, GroupsInv
  <1>4. c \in Call /\ c.made = NoTask BY <1>2 DEF Call
  <1>5. e \in Message /\ e.tid = t /\ e.parent = parents[t] /\ e.call = c /\ e.buf = Nothing
    BY <1>2, <1>3, <1>4 DEF Event, Message, Buffer
  <1>. HIDE DEF c, e
  <1>6. Seen(t, e)
    BY <1>1, <1>2, <1>4, <1>5 DEF Seen, seen, backend
  <1>7. KernelTyped'
    BY <1>1, <1>2, <1>4 DEF IInv, KernelTyped, Status, Call
  <1>8. MapsTyped'
    <2>1. readBuf' \in [Task -> Buffer] /\ pipeBuf' \in [Task -> Buffer]
      BY <1>1, <1>2, <1>4 DEF StashRead, StashPipe, Buffer
    <2>2. QED BY <1>1, <1>6, <2>1, EmitTypes DEF IInv, MapsTyped
  <1>9. BackendTyped' BY <1>1 DEF IInv, BackendTyped, backend, seen
  <1>10. GroupsInv'
    <2>1. \A u \in Task : status'[u] = "none" <=> status[u] = "none" BY <1>1, <1>2
    <2>2. \A k \in DOMAIN ring' : ring'[k].call.made # NoTask => status'[ring'[k].call.made] # "none"
      <3>1. ring' \in Seq(Message) BY <1>6, EmitTypes
      <3>2. \A k \in DOMAIN ring' : ring'[k] \in Message BY <3>1
      <3>3. \A k \in DOMAIN ring' : ring'[k].call.made \in Task \cup {NoTask}
        BY <3>2 DEF Message, Call
      <3>4. QED BY <1>6, <2>1, <3>3, EmitTypes
    <2>3. \A u \in Task : call'[u].made # NoTask => status'[call'[u].made] # "none"
      <3>1. \A u \in Task : call[u].made \in Task \cup {NoTask} BY <1>2 DEF Call
      <3>2. QED BY <1>1, <1>2, <1>4, <2>1, <3>1 DEF IInv, GroupsInv
    <2>4. \A u \in Task : status'[u] = "none" => call'[u] = NoCall(u)
      BY <1>1, <1>2 DEF IInv, GroupsInv
    <2>5. QED BY <1>1, <1>2, <2>1, <2>2, <2>3, <2>4 DEF IInv, GroupsInv
  <1>11. FilterInv' BY <1>1 DEF IInv, FilterInv, Room
  <1>12. AnnounceInv' /\ RootInv' BY <1>1, <1>6, EmitAnnounces
  <1>13. StashInv'
    <2>1. ASSUME NEW u \in Task, u # t
          PROVE  /\ status'[u] = status[u] /\ call'[u] = call[u]
                 /\ readBuf'[u] = readBuf[u] /\ pipeBuf'[u] = pipeBuf[u]
      BY <1>1, <1>2, <2>1 DEF StashRead, StashPipe
    <2>2. lost \subseteq lost' BY <1>6, EmitTypes
    <2>3. call'[t] = c /\ status'[t] = "called" BY <1>1, <1>2
    <2>4. c.task = t BY DEF c
    <2>5. group[t] \in filter =>
            /\ c.op = "read" => readBuf'[t] = c
            /\ c.op = "pipe" => pipeBuf'[t] = c \/ group[t] \in lost'
      BY <1>1, <1>2 DEF StashRead, StashPipe, Traces, Emit
    <2>6. /\ calls'[t] = calls[t] + 1 /\ calls[t] \in Nat
          /\ \A u \in Task : u # t => calls'[u] = calls[u]
      BY <1>1, <1>2 DEF c
    <2>7. ASSUME readBuf'[t] # Nothing
          PROVE  /\ readBuf'[t].op = "read" /\ readBuf'[t].task = t
                 /\ readBuf'[t].n <= calls'[t]
                 /\ c.op = "discard" => readBuf'[t].n < c.n
      <3>1. c.n = calls[t] + 1 /\ c.op = op BY DEF c
      <3>2. CASE readBuf'[t] = c /\ c.op = "read" BY <2>4, <2>6, <3>1, <3>2
      <3>3. CASE readBuf'[t] = readBuf[t]
        <4>1. readBuf[t].n \in Nat BY <1>2, <2>7, <3>3 DEF Buffer, Call
        <4>2. QED BY <2>6, <2>7, <3>1, <3>3, <4>1 DEF IInv, StashInv
      <3>4. QED BY <1>1, <1>2, <3>2, <3>3 DEF StashRead
    <2>8. QED BY <1>1, <2>1, <2>2, <2>3, <2>4, <2>5, <2>6, <2>7 DEF IInv, StashInv
  <1>14. PayloadInv'
    <2>1. \A d, b : Copyable(d, b) => Copyable(d, b)'
      BY <1>1, <1>6, EmitTypes DEF Copyable, OlderRead, LostPipe
    <2>3. \A k \in DOMAIN ring' : (k \in DOMAIN ring /\ ring'[k] = ring[k]) \/ ring'[k] = e
      BY <1>2, <1>6, EmitAppends
    <2>4. QED BY <1>1, <1>5, <2>1, <2>3 DEF IInv, PayloadInv, seen
  <1>15. QED BY <1>7, <1>8, <1>9, <1>10, <1>11, <1>12, <1>13, <1>14 DEF IInv

LEMMA SysExitKeeps == ASSUME IInv, NEW t \in Task, SysExit(t) PROVE IInv'
  <1>. PICK ok \in Outcomes(t) : /\ Consume(t, call[t], ok)
                                 /\ Emit(t, Event(t, call[t], FALSE, ok, Copied(t, call[t], ok)))
    BY DEF SysExit
  <1>. DEFINE e == Event(t, call[t], FALSE, ok, Copied(t, call[t], ok))
  <1>1. /\ status[t] \in {"called", "execed"} /\ status' = [status EXCEPT ![t] = "user"]
        /\ call' = [call EXCEPT ![t] = NoCall(t)] /\ Emit(t, e)
        /\ UNCHANGED << group, calls, creator, execs, filter, follow, backend, seen, rivals >>
    BY DEF SysExit
  <1>2. /\ group \in [Task -> Task \cup {NoTask}] /\ status \in [Task -> Status]
        /\ call \in [Task -> Call] /\ calls \in [Task -> Nat] /\ parents \in [Task -> Pair]
        /\ readBuf \in [Task -> Buffer] /\ pipeBuf \in [Task -> Buffer]
        /\ ring \in Seq(Message) /\ filter \subseteq Task
    BY DEF IInv, KernelTyped, MapsTyped
  <1>3. group[t] \in Task BY <1>1, <1>2 DEF IInv, GroupsInv
  <1>4. NoCall(t) \in Call /\ NoCall(t).made = NoTask /\ NoCall(t).op = "other" BY DEF NoCall, Call
  <1>5. ok \in BOOLEAN BY DEF Outcomes
  <1>6. Copied(t, call[t], ok) \in Buffer BY <1>2 DEF Copied, Buffer
  <1>7. /\ e \in Message /\ e.tid = t /\ e.parent = parents[t] /\ e.call = call[t]
        /\ e.buf = Copied(t, call[t], ok)
    BY <1>2, <1>3, <1>5, <1>6 DEF Event, Message
  <1>. HIDE DEF e
  <1>8. \A u \in Task : status'[u] = "none" <=> status[u] = "none" BY <1>1, <1>2
  <1>9. Seen(t, e)
    BY <1>1, <1>7, <1>8 DEF Seen, seen, backend, IInv, GroupsInv
  <1>10. KernelTyped' BY <1>1, <1>2, <1>4 DEF IInv, KernelTyped, Status
  <1>11. MapsTyped'
    <2>1. readBuf' \in [Task -> Buffer] /\ pipeBuf' \in [Task -> Buffer]
      BY <1>2 DEF Consume, Buffer
    <2>2. QED BY <1>1, <1>9, <2>1, EmitTypes DEF IInv, MapsTyped
  <1>12. BackendTyped' BY <1>1 DEF IInv, BackendTyped, backend, seen
  <1>13. GroupsInv'
    <2>1. \A k \in DOMAIN ring' : ring'[k].call.made # NoTask => status'[ring'[k].call.made] # "none"
      <3>1. ring' \in Seq(Message) BY <1>9, EmitTypes
      <3>2. \A k \in DOMAIN ring' : ring'[k] \in Message BY <3>1
      <3>3. \A k \in DOMAIN ring' : ring'[k].call.made \in Task \cup {NoTask}
        BY <3>2 DEF Message, Call
      <3>4. QED BY <1>8, <1>9, <3>3, EmitTypes
    <2>2. \A u \in Task : call'[u].made # NoTask => status'[call'[u].made] # "none"
      <3>1. \A u \in Task : call[u].made \in Task \cup {NoTask} BY <1>2 DEF Call
      <3>2. QED BY <1>1, <1>2, <1>4, <1>8, <3>1 DEF IInv, GroupsInv
    <2>3. \A u \in Task : status'[u] = "none" => call'[u] = NoCall(u)
      BY <1>1, <1>2 DEF IInv, GroupsInv
    <2>4. QED BY <1>1, <1>2, <1>8, <2>1, <2>2, <2>3 DEF IInv, GroupsInv
  <1>14. FilterInv' BY <1>1 DEF IInv, FilterInv, Room
  <1>15. AnnounceInv' /\ RootInv' BY <1>1, <1>9, EmitAnnounces
  <1>16. lost \subseteq lost' BY <1>9, EmitTypes
  <1>17. StashInv'
    <2>1. ASSUME NEW u \in Task, u # t
          PROVE  /\ status'[u] = status[u] /\ call'[u] = call[u]
                 /\ readBuf'[u] = readBuf[u] /\ pipeBuf'[u] = pipeBuf[u]
      BY <1>1, <1>2, <2>1 DEF Consume
    <2>2. call'[t] = NoCall(t) /\ status'[t] = "user" BY <1>1, <1>2
    <2>3. readBuf'[t] \in {readBuf[t], Nothing} BY <1>2 DEF Consume
    <2>4. QED BY <1>1, <1>4, <1>16, <2>1, <2>2, <2>3 DEF IInv, StashInv
  <1>18. PayloadInv'
    <2>1. \A d, b : Copyable(d, b) => Copyable(d, b)'
      BY <1>1, <1>16 DEF Copyable, OlderRead, LostPipe
    <2>2. \A k \in DOMAIN ring' : (k \in DOMAIN ring /\ ring'[k] = ring[k]) \/ ring'[k] = e
      BY <1>2, <1>9, EmitAppends
    <2>3. CASE Traces(t)
      <3>1. e.buf = Nothing \/ Known(e.buf) = Known(e.call) \/ Copyable(e.call, e.buf)
        <4>1. status[t] = "execed" => call[t].op = "execve" BY DEF IInv, StashInv
        <4>2. call[t].op \in {"read", "discard", "pipe"} => call[t].task = t /\ status[t] = "called"
          BY <1>1, <4>1 DEF IInv, StashInv
        <4>3. /\ call[t].op = "read" => readBuf[t] = call[t]
              /\ call[t].op = "pipe" => pipeBuf[t] = call[t] \/ group[t] \in lost
          BY <2>3, <4>2 DEF IInv, StashInv, Traces
        <4>4. CASE call[t].op = "read" BY <1>7, <4>3, <4>4 DEF Copied, ReadLike
        <4>5. CASE call[t].op = "pipe"
          BY <1>7, <4>2, <4>3, <4>5 DEF Copied, ReadLike, Copyable, LostPipe
        <4>6. CASE call[t].op = "discard"
          <5>1. readBuf[t] = Nothing \/ OlderRead(call[t], readBuf[t])
            BY <4>2, <4>6 DEF IInv, StashInv, OlderRead
          <5>2. e.buf = Nothing \/ e.buf = readBuf[t] BY <1>7, <4>6 DEF Copied
          <5>3. QED BY <1>7, <5>1, <5>2 DEF Copyable
        <4>7. QED BY <1>7, <4>4, <4>5, <4>6 DEF Copied, ReadLike
      <3>2. QED BY <1>1, <2>1, <2>2, <3>1 DEF IInv, PayloadInv, seen
    <2>4. CASE ~Traces(t)
      <3>1. ring' = ring BY <1>1, <2>4 DEF Emit
      <3>2. QED BY <1>1, <2>1, <3>1 DEF IInv, PayloadInv, seen
    <2>5. QED BY <2>3, <2>4
  <1>19. QED BY <1>10, <1>11, <1>12, <1>13, <1>14, <1>15, <1>17, <1>18 DEF IInv

LEMMA SpawnKeeps == ASSUME IInv, NEW t \in Task, Spawn(t) PROVE IInv'
  <1>. USE TaskAssumption
  <1>1. PICK c \in Task :
          /\ status[c] = "none" /\ status' = [status EXCEPT ![c] = "called"]
          /\ group' = [group EXCEPT ![c] = IF call[t].op = "fork" THEN c ELSE group[t]]
          /\ creator' = [creator EXCEPT ![c] = << t, group[t] >>]
          /\ call' = [call EXCEPT ![t].made = c]
          /\ TraceFork(t, c)
    BY DEF Spawn
  <1>2. /\ status[t] = "called" /\ call[t].op \in {"fork", "clone"}
        /\ UNCHANGED << calls, execs, scratch, ring, follow, backend, seen, lost >>
    BY DEF Spawn
  <1>3. /\ group \in [Task -> Task \cup {NoTask}] /\ status \in [Task -> Status]
        /\ call \in [Task -> Call] /\ calls \in [Task -> Nat] /\ parents \in [Task -> Pair]
        /\ creator \in [Task -> Pair] /\ ring \in Seq(Message) /\ filter \subseteq Task
        /\ IsFiniteSet(filter) /\ Cardinality(filter) <= FilterSize /\ lost \subseteq Task
        /\ GroupsInv /\ FilterInv /\ AnnounceInv /\ RootInv /\ StashInv /\ PayloadInv
    BY DEF IInv, KernelTyped, MapsTyped
  <1>4. /\ c # t /\ c # Root /\ group[c] = NoTask /\ group[t] \in Task /\ c \notin filter
        /\ group[t] # c /\ group[group[t]] = group[t]
    BY <1>1, <1>2, <1>3 DEF GroupsInv
  <1>5. << t, group[t] >> \in Pair /\ << t, group[t] >> # NoParent
    BY <1>4 DEF Pair, NoParent
  <1>6. /\ \A u \in Task \ {c} : /\ status'[u] = status[u] /\ group'[u] = group[u]
                                /\ creator'[u] = creator[u]
        /\ status'[c] = "called" /\ creator'[c] = << t, group[t] >>
        /\ group'[c] = IF call[t].op = "fork" THEN c ELSE group[t]
        /\ \A u \in Task \ {t} : call'[u] = call[u]
        /\ call'[t] = [call[t] EXCEPT !.made = c]
    BY <1>1, <1>3
  <1>7. /\ filter' \in {filter, filter \cup {c}} /\ parents' \in [Task -> Pair]
        /\ \A u \in Task \ {c} : parents'[u] = parents[u]
        /\ filter' # filter => follow /\ Room
    BY <1>1, <1>3, <1>5 DEF TraceFork
  <1>8. call'[t] \in Call BY <1>3, <1>6 DEF Call
  <1>9. KernelTyped'
    <2>1. group' \in [Task -> Task \cup {NoTask}] BY <1>1, <1>3, <1>4
    <2>2. status' \in [Task -> Status] BY <1>1, <1>3 DEF Status
    <2>3. call' \in [Task -> Call] BY <1>1, <1>3, <1>6, <1>8
    <2>4. creator' \in [Task -> Pair] BY <1>1, <1>3, <1>5
    <2>5. QED BY <1>2, <1>3, <2>1, <2>2, <2>3, <2>4 DEF KernelTyped
  <1>10. MapsTyped'
    <2>1. filter' \subseteq Task BY <1>3, <1>7
    <2>2. IsFiniteSet(filter') /\ Cardinality(filter') <= FilterSize
      <3>1. CASE filter' = filter BY <1>3, <3>1
      <3>2. CASE filter' = filter \cup {c} /\ filter' # filter
        <4>1. IsFiniteSet(filter') /\ Cardinality(filter') <= Cardinality(filter) + 1
              /\ Cardinality(filter) \in Nat /\ Cardinality(filter') \in Nat
          BY <1>3, <3>2, OneMore
        <4>2. QED BY <1>7, <3>2, <4>1, SizesAssumption DEF Room
      <3>3. QED BY <1>7, <3>1, <3>2
    <2>3. QED BY <1>2, <1>7, <2>1, <2>2 DEF IInv, MapsTyped, scratch
  <1>11. BackendTyped' BY <1>2 DEF IInv, BackendTyped, backend, seen
  <1>12. GroupsInv'
    <2>1. group'[Root] = Root /\ Root \in filter' BY <1>3, <1>4, <1>6, <1>7 DEF GroupsInv
    <2>2. \A u \in Task : status[u] # "none" => status'[u] # "none" BY <1>6
    <2>3. \A u \in Task : status'[u] = "none" <=> group'[u] = NoTask
      BY <1>3, <1>4, <1>6 DEF GroupsInv
    <2>4. \A u \in Task : group'[u] # NoTask => group'[group'[u]] = group'[u]
      <3>1. \A u \in Task : group[u] # c BY <1>3, <1>4 DEF GroupsInv
      <3>2. \A u \in Task \ {c} : group'[u] # NoTask => group'[group'[u]] = group'[u]
        BY <1>3, <1>6, <3>1 DEF GroupsInv
      <3>3. group'[group'[c]] = group'[c] BY <1>4, <1>6
      <3>4. QED BY <3>2, <3>3
    <2>5. \A u \in Task : status'[u] # "none" /\ u # Root => creator'[u][1] \in Task
      <3>1. creator'[c][1] \in Task BY <1>6
      <3>2. ASSUME NEW u \in Task, u # c, status'[u] # "none", u # Root
            PROVE  creator'[u][1] \in Task
        <4>1. status[u] # "none" /\ creator'[u] = creator[u] BY <1>6, <3>2
        <4>2. creator[u][1] \in Task BY <1>3, <3>2, <4>1 DEF GroupsInv
        <4>3. QED BY <4>1, <4>2
      <3>3. QED BY <3>1, <3>2
    <2>6. \A u \in Task : status'[u] = "none" => call'[u] = NoCall(u)
      BY <1>2, <1>3, <1>4, <1>6 DEF GroupsInv
    <2>7. \A u \in Task : call'[u].made # NoTask => status'[call'[u].made] # "none"
      <3>1. \A u \in Task : call[u].made \in Task \cup {NoTask} BY <1>3 DEF Call
      <3>2. call'[t].made = c BY <1>3, <1>6 DEF Call
      <3>3. ASSUME NEW u \in Task, u # t, call'[u].made # NoTask
            PROVE  status'[call'[u].made] # "none"
        <4>1. call'[u] = call[u] /\ call[u].made \in Task BY <1>6, <3>1, <3>3
        <4>2. status[call[u].made] # "none" BY <1>3, <3>3, <4>1 DEF GroupsInv
        <4>3. QED BY <2>2, <4>1, <4>2
      <3>4. status'[c] # "none" BY <1>6
      <3>5. QED BY <3>2, <3>3, <3>4
    <2>8. \A u \in filter' : status'[u] # "none"
      BY <1>3, <1>6, <1>7, <2>2 DEF GroupsInv
    <2>9. \A k \in DOMAIN ring : ring[k].call.made # NoTask => status'[ring[k].call.made] # "none"
      <3>1. \A k \in DOMAIN ring : ring[k] \in Message BY <1>3
      <3>2. \A k \in DOMAIN ring : ring[k].call.made \in Task \cup {NoTask}
        BY <3>1 DEF Message, Call
      <3>3. QED BY <1>3, <2>2, <3>2 DEF GroupsInv
    <2>10. QED BY <1>2, <2>1, <2>3, <2>4, <2>5, <2>6, <2>7, <2>8, <2>9 DEF GroupsInv
  <1>13. FilterInv'
    <2>1. ASSUME follow, NEW u \in Task, group'[u] \in Task \ filter' PROVE ~Room'
      <3>1. \A v \in Task : group[v] \in Task \ filter => ~Room BY <1>3, <2>1 DEF FilterInv
      <3>2. CASE \E v \in Task : group[v] \in Task \ filter
        <4>1. ~Room BY <3>1, <3>2
        <4>2. filter' = filter BY <1>7, <4>1
        <4>3. QED BY <4>1, <4>2 DEF Room
      <3>3. CASE \A v \in Task : group[v] \notin Task \ filter
        <4>1. u = c BY <1>6, <1>7, <2>1, <3>3
        <4>2. Traces(t) BY <1>4, <3>3 DEF Traces
        <4>3. call[t].op = "fork" /\ c \notin filter'
          BY <1>6, <1>7, <2>1, <4>1, <4>2 DEF Traces
        <4>4. ~Room /\ filter' = filter BY <1>1, <2>1, <4>2, <4>3 DEF TraceFork
        <4>5. QED BY <4>4 DEF Room
      <3>4. QED BY <3>2, <3>3
    <2>2. QED BY <1>2, <2>1 DEF FilterInv
  <1>14. RootInv'
    BY <1>2, <1>3, <1>4, <1>6, <1>7 DEF RootInv, seen
  <1>15. AnnounceInv'
    <2>1. ASSUME follow, NEW u \in Task \ {Root}, u # c
          PROVE  (Uncreated(u) \/ Scratched(u) \/ Underway(u) \/ Delivered(u) \/ Untraced(u))'
      <3>1. /\ status'[u] = status[u] /\ parents'[u] = parents[u] /\ creator'[u] = creator[u]
            /\ group'[u] = group[u] /\ (Silent(u) => Silent(u)') /\ (Unmet(u) => Unmet(u)')
        BY <1>2, <1>6, <1>7, <2>1 DEF Silent, Unmet, seen
      <3>2. CASE Uncreated(u) BY <3>1, <3>2 DEF Uncreated
      <3>3. CASE Scratched(u) BY <3>1, <3>3 DEF Scratched
      <3>4. CASE Underway(u) BY <1>2, <3>1, <3>4 DEF Underway
      <3>5. CASE Delivered(u) BY <1>2, <3>1, <3>5 DEF Delivered, seen
      <3>6. CASE Untraced(u)
        <4>1. group[u] # c BY <1>3, <1>4, <2>1 DEF GroupsInv
        <4>2. QED BY <1>7, <3>1, <3>6, <4>1 DEF Untraced
      <3>7. QED BY <1>3, <2>1, <3>2, <3>3, <3>4, <3>5, <3>6 DEF AnnounceInv
    <2>2. ASSUME follow PROVE Scratched(c)' \/ Untraced(c)'
      <3>1. Uncreated(c)
        BY <1>1, <1>3, <1>4, <2>2
           DEF AnnounceInv, Uncreated, Scratched, Underway, Delivered, Untraced
      <3>2. Silent(c)' /\ Unmet(c)' /\ status'[c] # "none"
        BY <1>2, <1>6, <3>1 DEF Uncreated, Silent, Unmet, seen
      <3>3. CASE Traces(t)
        <4>1. parents'[c] = << t, group[t] >>
          BY <1>1, <1>3, <2>2, <3>3 DEF TraceFork
        <4>2. Scratched(c)' BY <1>6, <3>2, <4>1 DEF Scratched
        <4>3. QED BY <4>2
      <3>4. CASE ~Traces(t)
        <4>1. filter' = filter BY <1>1, <3>4 DEF TraceFork
        <4>2. group'[c] \notin filter' BY <1>4, <1>6, <3>4, <4>1 DEF Traces
        <4>3. Untraced(c)' BY <3>2, <4>2 DEF Untraced
        <4>4. QED BY <4>3
      <3>5. QED BY <3>3, <3>4
    <2>3. QED BY <1>2, <1>3, <2>1, <2>2 DEF AnnounceInv, backend, seen
  <1>16. StashInv'
    <2>1. ASSUME NEW u \in Task, u # c, group[u] \in filter' PROVE group[u] \in filter
      BY <1>3, <1>4, <1>7, <2>1 DEF GroupsInv
    <2>2. call'[t].op = call[t].op /\ call'[t].task = call[t].task
      BY <1>3, <1>6 DEF Call
    <2>3. call'[c].op = "other" BY <1>1, <1>3, <1>4, <1>6 DEF GroupsInv, NoCall
    <2>4. ASSUME NEW u \in Task
          PROVE  /\ status'[u] \in {"dethreading", "execed"} => call'[u].op = "execve"
                 /\ call'[u].op \in {"read", "discard", "pipe"} => call'[u].task = u
                 /\ group'[u] \in filter' /\ status'[u] = "called" =>
                      /\ call'[u].op = "read" => readBuf'[u] = call'[u]
                      /\ call'[u].op = "pipe" => pipeBuf'[u] = call'[u] \/ group'[u] \in lost'
      <3>1. CASE u = c BY <1>6, <2>3, <3>1
      <3>2. CASE u = t BY <1>2, <1>4, <1>6, <2>2, <3>2
      <3>3. CASE u # c /\ u # t BY <1>2, <1>3, <1>6, <2>1, <3>3 DEF StashInv, scratch
      <3>4. QED BY <3>1, <3>2, <3>3
    <2>5. ASSUME NEW u \in Task, readBuf'[u] # Nothing
          PROVE  /\ readBuf'[u].op = "read" /\ readBuf'[u].task = u
                 /\ readBuf'[u].n <= calls'[u]
                 /\ call'[u].op = "discard" => readBuf'[u].n < call'[u].n
      <3>1. readBuf' = readBuf /\ calls' = calls BY <1>2 DEF scratch
      <3>2. call'[t].n = call[t].n BY <1>3, <1>6 DEF Call
      <3>3. CASE u = c BY <1>2, <1>3, <2>3, <2>5, <3>1, <3>3 DEF StashInv
      <3>4. CASE u = t BY <1>2, <1>3, <2>2, <2>5, <3>1, <3>2, <3>4 DEF StashInv
      <3>5. CASE u # c /\ u # t BY <1>2, <1>3, <1>6, <2>5, <3>1, <3>5 DEF StashInv
      <3>6. QED BY <3>3, <3>4, <3>5
    <2>6. QED BY <2>4, <2>5 DEF StashInv
  <1>17. PayloadInv'
    <2>1. \A d, b : Copyable(d, b) => Copyable(d, b)'
      BY <1>2, <1>3, <1>4, <1>6 DEF Copyable, OlderRead, LostPipe
    <2>2. QED BY <1>2, <1>3, <2>1 DEF PayloadInv, seen
  <1>18. QED BY <1>9, <1>10, <1>11, <1>12, <1>13, <1>14, <1>15, <1>16, <1>17 DEF IInv

-----------------------------------------------------------------------------
(* Steps that leave groups, maps and ring alone, and no task uncreated.    *)
StatusOnly ==
  /\ UNCHANGED << group, creator, filter, parents, scratch, ring, follow, execTid, seen >>
  /\ status' \in [Task -> Status] /\ call' \in [Task -> Call] /\ calls' = calls
  /\ \A u \in Task : status'[u] = "none" <=> status[u] = "none"
  /\ \A u \in Task : \/ call'[u] = call[u]
                     \/ call'[u].op = "execve" /\ \E v \in Task : call'[u] = call[v]
  /\ \A u \in Task : status'[u] = "none" => call'[u] = call[u]
  /\ \A u \in Task :
       /\ status'[u] \in {"dethreading", "execed"} => call'[u].op = "execve"
       /\ status'[u] = "called" => status[u] = "called" /\ call'[u] = call[u]
  /\ lost \subseteq lost' /\ lost' \subseteq Task
  /\ loop' \in {"polling", "draining", "done"}

LEMMA StatusOnlyKeeps == ASSUME IInv, StatusOnly PROVE IInv'
  <1>1. KernelTyped' BY DEF StatusOnly, IInv, KernelTyped
  <1>2. MapsTyped' BY DEF StatusOnly, IInv, MapsTyped, scratch
  <1>3. BackendTyped' BY DEF StatusOnly, IInv, BackendTyped, seen
  <1>4. GroupsInv'
    <2>1. \A u \in Task : call[u].made \in Task \cup {NoTask}
      BY DEF IInv, KernelTyped, Call
    <2>2. \A u \in Task : call'[u].made # NoTask => status'[call'[u].made] # "none"
      BY <2>1 DEF StatusOnly, IInv, GroupsInv
    <2>3. \A k \in DOMAIN ring : ring[k].call.made # NoTask => status'[ring[k].call.made] # "none"
      <3>1. ring \in Seq(Message) BY DEF IInv, MapsTyped
      <3>2. \A k \in DOMAIN ring : ring[k] \in Message BY <3>1
      <3>3. \A k \in DOMAIN ring : ring[k].call.made \in Task \cup {NoTask}
        BY <3>2 DEF Message, Call
      <3>4. QED BY <3>3 DEF StatusOnly, IInv, GroupsInv
    <2>4. \A u \in filter : status'[u] # "none"
      BY DEF StatusOnly, IInv, GroupsInv, MapsTyped
    <2>5. QED BY <2>2, <2>3, <2>4 DEF StatusOnly, IInv, GroupsInv
  <1>5. FilterInv' BY DEF StatusOnly, IInv, FilterInv, Room
  <1>6. RootInv' BY TaskAssumption DEF StatusOnly, IInv, RootInv, seen
  <1>7. AnnounceInv'
    <2>1. ASSUME NEW u \in Task
          PROVE  /\ Uncreated(u) => Uncreated(u)'
                 /\ Scratched(u) => Scratched(u)'
                 /\ Underway(u) => Underway(u)'
                 /\ Delivered(u) => Delivered(u)'
                 /\ Untraced(u) => Untraced(u)'
      BY DEF StatusOnly, Uncreated, Scratched, Underway, Delivered, Untraced, Silent, Unmet, seen
    <2>2. QED BY <2>1 DEF StatusOnly, IInv, AnnounceInv, seen
  <1>8. StashInv'
    BY DEF StatusOnly, IInv, StashInv, scratch
  <1>9. PayloadInv'
    BY DEF StatusOnly, IInv, PayloadInv, Copyable, OlderRead, LostPipe, seen
  <1>10. QED BY <1>1, <1>2, <1>3, <1>4, <1>5, <1>6, <1>7, <1>8, <1>9 DEF IInv

LEMMA DethreadKeeps == ASSUME IInv, NEW t \in Task, Dethread(t) PROVE IInv'
  <1>1. StatusOnly
    BY DEF Dethread, StatusOnly, IInv, KernelTyped, MapsTyped, BackendTyped, StashInv, Status, backend
  <1>2. QED BY <1>1, StatusOnlyKeeps

LEMMA ExecKeeps == ASSUME IInv, NEW t \in Task, Exec(t) PROVE IInv'
  <1>1. /\ status \in [Task -> Status] /\ call \in [Task -> Call] /\ lost \subseteq Task
        /\ loop \in {"polling", "draining", "done"} /\ GroupsInv /\ StashInv
        /\ group \in [Task -> Task \cup {NoTask}]
    BY DEF IInv, KernelTyped, MapsTyped, BackendTyped
  <1>2. /\ status[t] = "dethreading" /\ call' = [call EXCEPT ![group[t]] = call[t]]
        /\ status' = [status EXCEPT ![t] = "dead", ![group[t]] = "execed"]
        /\ UNCHANGED << group, creator, filter, parents, scratch, ring, follow, execTid, seen,
                        calls, lost, loop >>
    BY DEF Exec, backend
  <1>3. call[t].op = "execve" BY <1>1, <1>2 DEF StashInv
  <1>4. group[t] \in Task /\ status[group[t]] # "none" /\ status[t] # "none"
    BY <1>1, <1>2, TaskAssumption DEF GroupsInv
  <1>5. status' \in [Task -> Status] /\ call' \in [Task -> Call]
    BY <1>1, <1>2, <1>4 DEF Status
  <1>6. /\ call'[group[t]] = call[t] /\ status'[group[t]] = "execed"
        /\ \A u \in Task \ {group[t]} : call'[u] = call[u]
        /\ \A u \in Task \ {t, group[t]} : status'[u] = status[u]
        /\ t # group[t] => status'[t] = "dead"
    BY <1>1, <1>2, <1>4
  <1>7. \A u \in Task :
          /\ status'[u] = "none" <=> status[u] = "none"
          /\ status'[u] = "none" => call'[u] = call[u]
          /\ status'[u] \in {"dethreading", "execed"} => call'[u].op = "execve"
          /\ status'[u] = "called" => status[u] = "called" /\ call'[u] = call[u]
    BY <1>1, <1>3, <1>4, <1>6 DEF StashInv
  <1>8. StatusOnly BY <1>1, <1>2, <1>3, <1>5, <1>6, <1>7 DEF StatusOnly
  <1>9. QED BY <1>8, StatusOnlyKeeps

LEMMA DieKeeps == ASSUME IInv, NEW t \in Task, Die(t) PROVE IInv'
  <1>1. StatusOnly
    BY DEF Die, StatusOnly, IInv, KernelTyped, MapsTyped, BackendTyped, StashInv, Status, backend
  <1>2. QED BY <1>1, StatusOnlyKeeps

LEMMA LoopKeeps == ASSUME IInv, ReapRoot \/ Detach PROVE IInv'
  <1>1. StatusOnly
    BY DEF ReapRoot, Detach, Ends, StatusOnly, IInv, KernelTyped, MapsTyped, BackendTyped, StashInv
  <1>2. QED BY <1>1, StatusOnlyKeeps

LEMMA TimeoutKeeps == ASSUME IInv, Timeout PROVE IInv'
  <1>1. /\ status \in [Task -> Status] /\ call \in [Task -> Call] /\ lost \subseteq Task
        /\ GroupsInv /\ StashInv
    BY DEF IInv, KernelTyped, MapsTyped
  <1>2. /\ status' = [t \in Task |-> IF group[t] = Root THEN "dead" ELSE status[t]]
        /\ lost' = lost \cup {Root} /\ loop' = "draining"
        /\ UNCHANGED << group, call, calls, creator, filter, parents, scratch, ring, follow,
                        execTid, seen >>
    BY DEF Timeout, Ends
  <1>3. status' \in [Task -> Status] BY <1>1, <1>2 DEF Status
  <1>4. \A u \in Task :
          /\ status'[u] = "none" <=> status[u] = "none"
          /\ status'[u] \in {"dethreading", "execed"} => call[u].op = "execve"
          /\ status'[u] = "called" => status[u] = "called"
    BY <1>1, <1>2, TaskAssumption DEF GroupsInv, StashInv
  <1>5. StatusOnly BY <1>1, <1>2, <1>3, <1>4, TaskAssumption DEF StatusOnly
  <1>6. QED BY <1>5, StatusOnlyKeeps

LEMMA StutterKeeps == ASSUME IInv, UNCHANGED vars PROVE IInv'
  <1>1. StatusOnly
    BY DEF vars, tasks, backend, StatusOnly, IInv, KernelTyped, MapsTyped, BackendTyped, StashInv
  <1>2. QED BY <1>1, StatusOnlyKeeps

(* The invariant holds whatever the ring refuses and whenever the trace    *)
(* ends.                                                                   *)
THEOREM BackendInvariance == Spec => []IInv
  <1>1. Init => IInv BY InitIInv
  <1>2. IInv /\ [Next]_vars => IInv'
    <2>. SUFFICES ASSUME IInv, [Next]_vars PROVE IInv' OBVIOUS
    <2>1. CASE KernelStep
      BY <2>1, SysEnterKeeps, SysExitKeeps, SpawnKeeps, DethreadKeeps, ExecKeeps, DieKeeps
         DEF KernelStep
    <2>2. CASE BackendStep
      BY <2>2, LaunchKeeps, EntryKeeps, ExitKeeps, LoopKeeps, TimeoutKeeps DEF BackendStep
    <2>3. CASE UNCHANGED vars BY <2>3, StutterKeeps
    <2>4. QED BY <2>1, <2>2, <2>3 DEF Next
  <1>3. QED BY <1>1, <1>2, PTL DEF Spec

-----------------------------------------------------------------------------
(* "Deliver TaskCreate exactly once: on the first successfully emitted     *)
(* syscall event from the child" (ebpf/trace.bpf.c), for any number of     *)
(* tasks and whatever the ring refuses.                                    *)
THEOREM AnnouncedBeforeCalls == Spec => []AnnouncedFirst
  <1>1. IInv => AnnouncedFirst
    <2>. SUFFICES ASSUME IInv PROVE AnnouncedFirst OBVIOUS
    <2>1. TypeOK
      <3>1. \A c \in Buffer : CallOrNothing(c) BY DEF Buffer, Call, CallOrNothing
      <3>2. /\ readBuf \in [Task -> Buffer] /\ pipeBuf \in [Task -> Buffer]
            /\ pending \in [Task -> Buffer]
        BY DEF IInv, MapsTyped, BackendTyped
      <3>3. \A t \in Task : /\ CallOrNothing(readBuf[t]) /\ CallOrNothing(pipeBuf[t])
                            /\ CallOrNothing(pending[t])
        BY <3>1, <3>2
      <3>4. QED BY <3>3 DEF IInv, KernelTyped, MapsTyped, BackendTyped, TypeOK, Status
    <2>2. ASSUME follow, NEW t \in Task
          PROVE  /\ Len(announced[t]) <= 1
                 /\ t \in met \ {Root} => announced[t] = << creator[t] >>
      <3>1. CASE t = Root BY <3>1 DEF IInv, RootInv
      <3>2. CASE t # Root
        <4>1. Uncreated(t) \/ Scratched(t) \/ Underway(t) \/ Delivered(t) \/ Untraced(t)
          BY <2>2, <3>2 DEF IInv, AnnounceInv
        <4>2. (announced[t] = << >> /\ t \notin met) \/ announced[t] = << creator[t] >>
          BY <4>1 DEF Uncreated, Scratched, Underway, Delivered, Untraced, Unmet
        <4>3. CASE announced[t] = << >> /\ t \notin met BY <4>3
        <4>4. CASE announced[t] = << creator[t] >>
          <5>1. Len(announced[t]) = 1 BY <4>4
          <5>2. QED BY <4>4, <5>1
        <4>5. QED BY <4>2, <4>3, <4>4
      <3>3. QED BY <3>1, <3>2
    <2>3. QED BY <2>1, <2>2 DEF AnnouncedFirst
  <1>2. QED BY <1>1, BackendInvariance, PTL

(* The bytes handed on with a read into a buffer are that read's, whatever *)
(* events were lost; those of a pipe are its own unless one of its process *)
(* was; and with a read into none come at most the bytes of an earlier     *)
(* buffer of the same task.                                                *)
THEOREM PayloadAlwaysOwn == Spec => []PayloadIsOwn
  <1>1. IInv => PayloadIsOwn
    BY DEF IInv, PayloadInv, Copyable, LostPipe, OlderRead, PayloadIsOwn
  <1>2. QED BY <1>1, BackendInvariance, PTL

-----------------------------------------------------------------------------
(* A task has begun a call and is yet to leave it.                         *)
InCall(t) == status[t] \in {"called", "dethreading", "execed"}
(* A traced process of which the backend has missed nothing, and of whose  *)
(* threads no two were in execve at once.                                  *)
Sound(g) == g \in filter /\ g \notin lost /\ g \notin rivals
(* The exec by which the child becomes the target.                         *)
IsLaunch(c) == c.op = "execve" /\ c.task = Root /\ c.n = 1
(* The entry and the exit of a call, at a place in the ring.               *)
EntryAt(k, c) == ring[k].entry /\ Known(ring[k].call) = Known(c)
ExitAt(k, c)  == ~ring[k].entry /\ Known(ring[k].call) = Known(c)

(* The call of a task is the last it made; that of a leader after a        *)
(* worker's exec is the last of the worker, who is gone.                   *)
CallInv(t) ==
  /\ group[call[t].task] = group[t]
  /\ status[t] = "user" => call[t] = NoCall(t)
  /\ status[t] = "execed" => group[t] = t
  /\ InCall(t) => /\ call[t].n = calls[call[t].task]
                  /\ call[t].task = t \/ (status[t] = "execed" /\ status[call[t].task] = "dead")
  /\ call[t].op # "other" => call[t].n > 0
  /\ call[t].op # "execve" => call[t].task = t
  /\ status[t] = "none" => calls[t] = 0

CallsInv == rivals \subseteq Task /\ \A t \in Task : CallInv(t)

(* What an event says of its call, and what is kept of it after the event: *)
(* an exec that ends under its leader's id is the only call to change ids. *)
EventInv(e) ==
  /\ e.tgid \in filter /\ group[e.tid] = e.tgid /\ group[e.call.task] = e.tgid
  /\ e.entry => e.call.n > 0
  /\ e.entry \/ ~IsExec(e) => e.tid = e.call.task
  /\ e.call.n <= calls[e.call.task]

PendingInv(t) ==
  /\ pending[t] # Nothing => /\ group[t] \in filter /\ pending[t].task = t
                             /\ pending[t].n > 0 /\ pending[t].n <= calls[t]
  /\ execTid[t] # NoTask => group[execTid[t]] = t

RingInv ==
  /\ \A k \in DOMAIN ring : EventInv(ring[k])
  /\ \A t \in Task : PendingInv(t)

(* The events of a task come in the order of its calls, entry before exit, *)
(* behind what the analyzer keeps of it and before what it is still to do. *)
Follows(e, n, entry) == n < e.call.n \/ (n = e.call.n /\ entry /\ ~e.entry)

OrderInv ==
 /\ \A j, k \in DOMAIN ring : j < k /\ ring[j].call.task = ring[k].call.task
      => Follows(ring[k], ring[j].call.n, ring[j].entry)
 /\ \A k \in DOMAIN ring : pending[ring[k].call.task] # Nothing
      => Follows(ring[k], pending[ring[k].call.task].n, TRUE)
 /\ \A t \in Task : InCall(t) => \A k \in DOMAIN ring :
      ~(~ring[k].entry /\ ring[k].call.task = call[t].task /\ ring[k].call.n = call[t].n)

(* The entry of a call is ahead in the ring or is what the analyzer keeps, *)
(* so its exit, when it comes to the front, finds it there.                *)
Entered(c, k) ==
  \/ \E j \in DOMAIN ring : j < k /\ EntryAt(j, c)
  \/ pending[c.task] # Nothing /\ Known(pending[c.task]) = Known(c)

PairInv ==
 /\ \A k \in DOMAIN ring : LET e == ring[k] IN
     Sound(e.tgid) /\ ~e.entry /\ e.call.n > 0 /\ ~IsLaunch(e.call) => Entered(e.call, k)
 /\ \A t \in Task : Sound(group[t]) /\ InCall(t) /\ call[t].n > 0 /\ ~IsLaunch(call[t])
      => Entered(call[t], Len(ring) + 1)

(* An entry stays open only while its call is underway or its exit waits.  *)
Open(c) == c.op = "exit" \/ Known(call[c.task]) = Known(c) \/ \E j \in DOMAIN ring : ExitAt(j, c)

OpenInv ==
  /\ \A k \in DOMAIN ring : Sound(ring[k].tgid) /\ ring[k].entry => Open(ring[k].call)
  /\ \A t \in Task : Sound(group[t]) /\ pending[t] # Nothing => Open(pending[t]) /\ ~IsLaunch(pending[t])
  /\ \A t \in Task : Sound(group[t]) /\ status[t] = "dead" /\ group[t] = t
       => call[t] = NoCall(t) \/ call[t].op = "exit"

(* The last exec the group entered is the one that its next exit ends: its *)
(* entry waits in the ring, or its task is the one the backend remembers.  *)
ExecAt(k, g) == ring[k].tgid = g /\ IsExec(ring[k]) /\ ~IsLaunch(ring[k].call)

LastExec(c, g, k) ==
  \/ \E j \in DOMAIN ring : /\ j < k /\ ExecAt(j, g) /\ EntryAt(j, c)
                            /\ \A i \in DOMAIN ring : j < i /\ i < k => ~ExecAt(i, g)
  \/ (\A i \in DOMAIN ring : i < k => ~ExecAt(i, g)) /\ execTid[g] = c.task

ExecInv ==
  /\ \A k \in DOMAIN ring : LET e == ring[k] IN
       Sound(e.tgid) /\ ExecAt(k, e.tgid) /\ ~e.entry => LastExec(e.call, e.tgid, k)
  /\ \A t \in Task : Sound(group[t]) /\ InCall(t) /\ call[t].op = "execve" /\ ~IsLaunch(call[t])
       => LastExec(call[t], group[t], Len(ring) + 1)
  /\ \A t, u \in Task : Sound(group[t]) /\ group[u] = group[t] /\ u # t /\ InCall(t) /\ InCall(u)
       => ~(call[t].op = "execve" /\ call[u].op = "execve")

(* Only where events were lost or execs met are calls taken for others.    *)
MispairInv == \A p \in mispaired : p[2].task \in Task /\ group[p[2].task] \in lost \cup rivals

(* The launch: the child has not returned from its exec; the exit of that  *)
(* exec waits in the ring, and the suppression with it; or it is over.     *)
Alone == \A t \in Task \ {Root} : status[t] = "none"

RootExec(k) == ring[k].tgid = Root /\ IsExec(ring[k])

Launching ==
  /\ Alone /\ initialExec /\ (Launched <=> status[Root] = "execed")
  /\ \/ calls[Root] = 0 /\ status[Root] \in {"called", "user"}
     \/ calls[Root] = 1 /\ InCall(Root) /\ IsLaunch(call[Root])
  /\ \A k \in DOMAIN ring : RootExec(k) => IsLaunch(ring[k].call) /\ ring[k].entry

Returned ==
  /\ calls[Root] > 0
  /\ \A t \in Task : InCall(t) => ~IsLaunch(call[t])
  /\ ~Launched => Alone /\ (status[Root] = "dead" \/ call[Root] = NoCall(Root) \/ call[Root].op = "exit")

LaunchReturning ==
  /\ Returned /\ initialExec
  /\ \E k \in DOMAIN ring :
      /\ RootExec(k) /\ IsLaunch(ring[k].call) /\ ~ring[k].entry /\ (ring[k].ok <=> Launched)
      /\ \A i \in DOMAIN ring : RootExec(i) /\ i # k =>
           \/ i < k /\ IsLaunch(ring[i].call) /\ ring[i].entry
           \/ i > k /\ ~IsLaunch(ring[i].call)

LaunchOver ==
  /\ Returned /\ ~initialExec
  /\ \A k \in DOMAIN ring : RootExec(k) => ~IsLaunch(ring[k].call)

LaunchInv == Root \notin lost => Launching \/ LaunchReturning \/ LaunchOver

(* An exec of a group is one that the analyzer was told of, one whose exit *)
(* waits in the ring, one that has not returned, or the launch.            *)
Successes(g) == {k \in DOMAIN ring : ring[k].tgid = g /\ IsExec(ring[k]) /\ ~ring[k].entry /\ ring[k].ok}

Counted(g) ==
  execs[g] = images[g] + Cardinality(Successes(g)) + (IF status[g] = "execed" THEN 1 ELSE 0)
             + (IF g = Root /\ Launched /\ ~initialExec THEN 1 ELSE 0)

CountsTyped == execs \in [Task -> Nat] /\ images \in [Task -> Nat]

CountInv ==
  \A g \in Task \ lost : g \in filter \/ group[g] # g => Counted(g)
-----------------------------------------------------------------------------
LEMMA CallsEnter == ASSUME IInv, CallsInv, NEW t \in Task, NEW op \in Ops, SysEnter(t, op) PROVE CallsInv'
  <1>. DEFINE c == [task |-> t, n |-> calls[t] + 1, op |-> op, made |-> NoTask]
  <1>1. /\ status[t] = "user" /\ status' = [status EXCEPT ![t] = "called"]
        /\ calls' = [calls EXCEPT ![t] = c.n] /\ call' = [call EXCEPT ![t] = c]
        /\ group' = group /\ rivals' \in {rivals, rivals \cup {group[t]}}
    BY DEF SysEnter
  <1>2. /\ group \in [Task -> Task \cup {NoTask}] /\ status \in [Task -> Status]
        /\ call \in [Task -> Call] /\ calls \in [Task -> Nat] /\ GroupsInv
    BY DEF IInv, KernelTyped
  <1>3. /\ call'[t] = c /\ status'[t] = "called" /\ calls'[t] = c.n
        /\ \A u \in Task \ {t} : call'[u] = call[u] /\ status'[u] = status[u] /\ calls'[u] = calls[u]
        /\ c.task = t /\ c.n = calls[t] + 1 /\ c.n \in Nat /\ c.n > 0 /\ group[t] \in Task
    BY <1>1, <1>2 DEF GroupsInv
  <1>. HIDE DEF c
  <1>4. rivals' \subseteq Task BY <1>1, <1>3 DEF CallsInv, CallInv
  <1>5. ASSUME NEW u \in Task
        PROVE  /\ group[call'[u].task] = group[u]
               /\ status'[u] = "user" => call'[u] = NoCall(u)
               /\ status'[u] = "execed" => group[u] = u
               /\ call'[u].op # "other" => call'[u].n > 0
               /\ call'[u].op # "execve" => call'[u].task = u
               /\ status'[u] = "none" => calls'[u] = 0
    BY <1>3 DEF CallsInv, CallInv
  <1>6. ASSUME NEW u \in Task, InCall(u)'
        PROVE  /\ call'[u].n = calls'[call'[u].task]
               /\ call'[u].task = u \/ (status'[u] = "execed" /\ status'[call'[u].task] = "dead")
    <2>1. CASE u = t BY <1>3, <2>1
    <2>2. CASE u # t
      <3>1. InCall(u) /\ call[u].task \in Task BY <1>2, <1>3, <1>6, <2>2 DEF InCall, Call
      <3>2. call[u].task # t BY <1>1, <2>2, <3>1 DEF CallsInv, CallInv
      <3>3. QED BY <1>3, <2>2, <3>1, <3>2 DEF CallsInv, CallInv
    <2>3. QED BY <2>1, <2>2
  <1>7. QED BY <1>1, <1>4, <1>5, <1>6 DEF CallsInv, CallInv

LEMMA CallsExit == ASSUME IInv, CallsInv, NEW t \in Task, SysExit(t) PROVE CallsInv'
  <1>1. /\ status[t] \in {"called", "execed"} /\ status' = [status EXCEPT ![t] = "user"]
        /\ call' = [call EXCEPT ![t] = NoCall(t)]
        /\ group' = group /\ rivals' = rivals /\ calls' = calls
    BY DEF SysExit
  <1>2. /\ group \in [Task -> Task \cup {NoTask}] /\ status \in [Task -> Status]
        /\ call \in [Task -> Call] /\ calls \in [Task -> Nat]
    BY DEF IInv, KernelTyped
  <1>3. /\ call'[t] = NoCall(t) /\ status'[t] = "user"
        /\ \A u \in Task \ {t} : call'[u] = call[u] /\ status'[u] = status[u]
        /\ NoCall(t).task = t /\ NoCall(t).n = 0 /\ NoCall(t).op = "other"
    BY <1>1, <1>2 DEF NoCall
  <1>4. ASSUME NEW u \in Task, u # t, InCall(u)'
        PROVE  /\ call'[u].n = calls'[call'[u].task]
               /\ call'[u].task = u \/ (status'[u] = "execed" /\ status'[call'[u].task] = "dead")
    <2>1. InCall(u) /\ call[u].task \in Task BY <1>2, <1>3, <1>4 DEF InCall, Call
    <2>2. call[u].task # t BY <1>1, <1>4, <2>1 DEF CallsInv, CallInv
    <2>3. QED BY <1>1, <1>3, <1>4, <2>1, <2>2 DEF CallsInv, CallInv
  <1>5. QED BY <1>1, <1>3, <1>4 DEF CallsInv, CallInv, InCall

LEMMA CallsSpawn == ASSUME IInv, CallsInv, NEW t \in Task, Spawn(t) PROVE CallsInv'
  <1>1. PICK c \in Task :
          /\ status[c] = "none" /\ status' = [status EXCEPT ![c] = "called"]
          /\ group' = [group EXCEPT ![c] = IF call[t].op = "fork" THEN c ELSE group[t]]
          /\ call' = [call EXCEPT ![t].made = c]
    BY DEF Spawn
  <1>2. status[t] = "called" /\ call[t].op \in {"fork", "clone"} /\ UNCHANGED << calls, rivals >>
    BY DEF Spawn
  <1>3. /\ group \in [Task -> Task \cup {NoTask}] /\ status \in [Task -> Status]
        /\ call \in [Task -> Call] /\ GroupsInv
    BY DEF IInv, KernelTyped
  <1>4. /\ c # t /\ \A u \in Task \ {c} : status'[u] = status[u] /\ group'[u] = group[u]
        /\ status'[c] = "called" /\ call'[c] = NoCall(c) /\ call[c] = NoCall(c) /\ calls[c] = 0
        /\ \A u \in Task : /\ call'[u].task = call[u].task /\ call'[u].n = call[u].n
                           /\ call'[u].op = call[u].op
        /\ \A u \in Task \ {t} : call'[u] = call[u]
        /\ NoCall(c).task = c /\ NoCall(c).n = 0 /\ NoCall(c).op = "other"
    BY <1>1, <1>2, <1>3 DEF Call, GroupsInv, CallsInv, CallInv, NoCall
  <1>5. \A u \in Task \ {c} : call[u].task \in Task \ {c}
    <2>1. ASSUME NEW u \in Task \ {c} PROVE call[u].task \in Task \ {c}
      <3>1. call[u].task \in Task BY <1>3 DEF Call
      <3>2. CASE status[u] = "none" BY <1>3, <3>2 DEF GroupsInv, NoCall
      <3>3. CASE status[u] # "none" BY <1>1, <1>3, <3>1, <3>3 DEF GroupsInv, CallsInv, CallInv
      <3>4. QED BY <3>2, <3>3
    <2>2. QED BY <2>1
  <1>6. ASSUME NEW u \in Task, u # c
        PROVE  /\ group'[call'[u].task] = group'[u]
               /\ status'[u] = "user" => call'[u] = NoCall(u)
               /\ status'[u] = "execed" => group'[u] = u
               /\ InCall(u)' => /\ call'[u].n = calls[call'[u].task]
                                /\ \/ call'[u].task = u
                                   \/ status'[u] = "execed" /\ status'[call'[u].task] = "dead"
               /\ call'[u].op # "other" => call'[u].n > 0
               /\ call'[u].op # "execve" => call'[u].task = u
               /\ status'[u] = "none" => calls[u] = 0
    <2>1. status'[u] = status[u] /\ group'[u] = group[u] /\ (InCall(u)' <=> InCall(u))
      BY <1>4, <1>6 DEF InCall
    <2>2. group'[call[u].task] = group[call[u].task] /\ status'[call[u].task] = status[call[u].task]
      BY <1>4, <1>5, <1>6
    <2>3. status[u] = "user" => u # t BY <1>2
    <2>4. QED BY <1>4, <2>1, <2>2, <2>3 DEF CallsInv, CallInv
  <1>7. QED BY <1>2, <1>4, <1>6 DEF CallsInv, CallInv, InCall

LEMMA CallsKernel ==
  ASSUME IInv, CallsInv, NEW t \in Task, Dethread(t) \/ Exec(t) \/ Die(t) PROVE CallsInv'
  <1>1. /\ group \in [Task -> Task \cup {NoTask}] /\ status \in [Task -> Status]
        /\ call \in [Task -> Call] /\ GroupsInv /\ StashInv
    BY DEF IInv, KernelTyped
  <1>2. CASE Dethread(t)
    <2>1. /\ status[t] = "called" /\ status' = [status EXCEPT ![t] = "dethreading"]
          /\ UNCHANGED << group, call, calls, rivals >>
      BY <1>2 DEF Dethread
    <2>2. \A u \in Task : call[u].task \in Task BY <1>1 DEF Call
    <2>3. \A u \in Task : status[u] = "dead" => status'[u] = "dead" BY <1>1, <2>1
    <2>4. ASSUME NEW u \in Task
          PROVE  /\ InCall(u)' <=> InCall(u)
                 /\ status'[u] = status[u] \/ (status'[u] = "dethreading" /\ status[u] = "called")
      BY <1>1, <2>1 DEF InCall
    <2>5. ASSUME NEW u \in Task, InCall(u)'
          PROVE  /\ call[u].n = calls[call[u].task]
                 /\ call[u].task = u \/ (status'[u] = "execed" /\ status'[call[u].task] = "dead")
      BY <2>2, <2>3, <2>4, <2>5 DEF CallsInv, CallInv
    <2>6. ASSUME NEW u \in Task
          PROVE  /\ group[call[u].task] = group[u]
                 /\ status'[u] = "user" => call[u] = NoCall(u)
                 /\ status'[u] = "execed" => group[u] = u
                 /\ call[u].op # "other" => call[u].n > 0
                 /\ call[u].op # "execve" => call[u].task = u
                 /\ status'[u] = "none" => calls[u] = 0
      BY <2>4 DEF CallsInv, CallInv
    <2>7. \A u \in Task : CallInv(u)' BY <2>1, <2>5, <2>6 DEF CallInv
    <2>8. QED BY <2>1, <2>7 DEF CallsInv
  <1>3. CASE Die(t)
    <2>1. /\ status' = [status EXCEPT ![t] = "dead"]
          /\ UNCHANGED << group, call, calls, rivals >>
      BY <1>3 DEF Die
    <2>2. \A u \in Task : call[u].task \in Task BY <1>1 DEF Call
    <2>3. \A u \in Task : status[u] = "dead" => status'[u] = "dead" BY <1>1, <2>1
    <2>4. ASSUME NEW u \in Task
          PROVE  (InCall(u)' => InCall(u)) /\ (status'[u] = status[u] \/ status'[u] = "dead")
      BY <1>1, <2>1 DEF InCall
    <2>5. ASSUME NEW u \in Task, InCall(u)'
          PROVE  /\ call[u].n = calls[call[u].task]
                 /\ call[u].task = u \/ (status'[u] = "execed" /\ status'[call[u].task] = "dead")
      BY <2>2, <2>3, <2>4, <2>5 DEF CallsInv, CallInv, InCall
    <2>6. ASSUME NEW u \in Task
          PROVE  /\ group[call[u].task] = group[u]
                 /\ status'[u] = "user" => call[u] = NoCall(u)
                 /\ status'[u] = "execed" => group[u] = u
                 /\ call[u].op # "other" => call[u].n > 0
                 /\ call[u].op # "execve" => call[u].task = u
                 /\ status'[u] = "none" => calls[u] = 0
      BY <2>4 DEF CallsInv, CallInv
    <2>7. \A u \in Task : CallInv(u)' BY <2>1, <2>5, <2>6 DEF CallInv
    <2>8. QED BY <2>1, <2>7 DEF CallsInv
  <1>4. CASE Exec(t)
    <2>0. PICK g \in Task : g = group[t] BY <1>1, <1>4, TaskAssumption DEF Exec, GroupsInv
    <2>1. /\ status[t] = "dethreading" /\ \A u \in Threads(g) \ {t} : ~Alive(u)
          /\ status' = [status EXCEPT ![t] = "dead", ![g] = "execed"]
          /\ call' = [call EXCEPT ![g] = call[t]]
          /\ UNCHANGED << group, calls, rivals >>
      BY <1>4, <2>0 DEF Exec
    <2>2. g \in Task /\ group[g] = g /\ status[g] # "none"
      BY <1>1, <2>0, <2>1, TaskAssumption DEF GroupsInv
    <2>3. call[t].op = "execve" /\ call[t].task = t /\ call[t].n = calls[t] /\ call[t].n > 0
      BY <1>1, <2>1 DEF CallsInv, CallInv, StashInv, InCall
    <2>4. g # t => status[g] = "dead" BY <1>1, <2>1, <2>2 DEF Threads, Alive
    <2>5. /\ call'[g] = call[t] /\ status'[g] = "execed"
          /\ \A u \in Task \ {g} : call'[u] = call[u]
          /\ \A u \in Task \ {g, t} : status'[u] = status[u]
          /\ t # g => status'[t] = "dead"
      BY <1>1, <2>1, <2>2
    <2>6. ASSUME NEW u \in Task, u # g, InCall(u)'
          PROVE  /\ call'[u].n = calls[call'[u].task]
                 /\ call'[u].task = u \/ (status'[u] = "execed" /\ status'[call'[u].task] = "dead")
      <3>1. u # t /\ InCall(u) /\ call'[u] = call[u] /\ status'[u] = status[u]
        BY <2>5, <2>6 DEF InCall
      <3>2. call[u].n = calls[call[u].task] BY <3>1 DEF CallsInv, CallInv
      <3>3. CASE call[u].task # u
        <4>1. /\ status[u] = "execed" /\ status[call[u].task] = "dead" /\ group[u] = u
              /\ group[call[u].task] = u /\ call[u].task \in Task
          BY <1>1, <3>1, <3>3 DEF CallsInv, CallInv, Call
        <4>2. call[u].task # g BY <2>2, <2>6, <4>1
        <4>3. status'[call[u].task] = "dead" BY <2>1, <2>5, <4>1, <4>2
        <4>4. QED BY <3>1, <3>2, <4>1, <4>3
      <3>4. QED BY <3>1, <3>2, <3>3
    <2>7. group[t] = g BY <2>0
    <2>8. ASSUME NEW u \in Task
          PROVE  /\ group[call'[u].task] = group[u]
                 /\ status'[u] = "user" => call'[u] = NoCall(u)
                 /\ status'[u] = "execed" => group[u] = u
                 /\ call'[u].op # "other" => call'[u].n > 0
                 /\ call'[u].op # "execve" => call'[u].task = u
                 /\ status'[u] = "none" => calls[u] = 0
      <3>1. CASE u = g BY <2>2, <2>3, <2>5, <2>7, <3>1
      <3>2. CASE u = t /\ u # g BY <2>5, <2>3, <3>2 DEF CallsInv, CallInv
      <3>3. CASE u # t /\ u # g BY <2>5, <3>3 DEF CallsInv, CallInv
      <3>4. QED BY <3>1, <3>2, <3>3
    <2>9. ASSUME InCall(g)'
          PROVE  /\ call'[g].n = calls[call'[g].task]
                 /\ call'[g].task = g \/ (status'[g] = "execed" /\ status'[call'[g].task] = "dead")
      BY <2>3, <2>5
    <2>10. ASSUME NEW u \in Task, InCall(u)'
           PROVE  /\ call'[u].n = calls[call'[u].task]
                  /\ call'[u].task = u \/ (status'[u] = "execed" /\ status'[call'[u].task] = "dead")
      <3>1. CASE u = g BY <2>9, <2>10, <3>1
      <3>2. CASE u # g BY <2>6, <2>10, <3>2
      <3>3. QED BY <3>1, <3>2
    <2>11. ASSUME NEW u \in Task PROVE CallInv(u)'
      <3>1. UNCHANGED << group, calls >> BY <2>1
      <3>2. /\ group'[call'[u].task] = group'[u]
            /\ status'[u] = "execed" => group'[u] = u
            /\ status'[u] = "none" => calls'[u] = 0
        BY <2>8, <3>1
      <3>3. InCall(u)' => /\ call'[u].n = calls'[call'[u].task]
                         /\ \/ call'[u].task = u
                            \/ status'[u] = "execed" /\ status'[call'[u].task] = "dead"
        BY <2>10, <3>1
      <3>4. QED BY <2>8, <3>2, <3>3 DEF CallInv
    <2>12. QED BY <2>1, <2>11 DEF CallsInv
  <1>5. QED BY <1>2, <1>3, <1>4

LEMMA CallsTimeout == ASSUME IInv, CallsInv, Timeout PROVE CallsInv'
  <1>1. /\ status' = [t \in Task |-> IF group[t] = Root THEN "dead" ELSE status[t]]
        /\ UNCHANGED << group, call, calls, rivals >>
    BY DEF Timeout, Ends
  <1>2. \A u \in Task : call[u].task \in Task BY DEF IInv, KernelTyped, Call
  <1>3. ASSUME NEW u \in Task
        PROVE  /\ status'[u] = status[u] \/ status'[u] = "dead"
               /\ status[u] = "dead" => status'[u] = "dead"
    BY <1>1
  <1>4. QED BY <1>1, <1>2, <1>3 DEF CallsInv, CallInv, InCall

LEMMA CallsKept == ASSUME CallsInv, UNCHANGED << tasks, rivals >> PROVE CallsInv'
  BY DEF CallsInv, CallInv, tasks, InCall

-----------------------------------------------------------------------------
RingTyped ==
  /\ Len(ring) \in Nat /\ DOMAIN ring = 1 .. Len(ring) /\ ring \in Seq(Message)
  /\ \A k \in DOMAIN ring :
       /\ ring[k] \in Message /\ ring[k].tid \in Task /\ ring[k].tgid \in Task
       /\ ring[k].entry \in BOOLEAN /\ ring[k].call \in Call
       /\ ring[k].call.task \in Task /\ ring[k].call.n \in Nat
  /\ \A t \in Task : /\ calls[t] \in Nat /\ call[t] \in Call /\ call[t].task \in Task
                     /\ call[t].n \in Nat /\ group[t] \in Task \cup {NoTask}
                     /\ pending[t] # Nothing => pending[t].n \in Nat

LEMMA RingFacts == ASSUME IInv PROVE RingTyped
  <1>1. ring \in Seq(Message) BY DEF IInv, MapsTyped
  <1>2. Len(ring) \in Nat /\ DOMAIN ring = 1 .. Len(ring) BY <1>1
  <1>3. \A k \in DOMAIN ring : ring[k] \in Message BY <1>1
  <1>4. \A k \in DOMAIN ring :
          /\ ring[k].tid \in Task /\ ring[k].tgid \in Task
          /\ ring[k].entry \in BOOLEAN /\ ring[k].call \in Call
          /\ ring[k].call.task \in Task /\ ring[k].call.n \in Nat
    BY <1>3 DEF Message, Call
  <1>5. \A t \in Task : /\ calls[t] \in Nat /\ call[t] \in Call /\ call[t].task \in Task
                       /\ call[t].n \in Nat /\ group[t] \in Task \cup {NoTask}
    BY DEF IInv, KernelTyped, Call
  <1>6. \A t \in Task : pending[t] # Nothing => pending[t].n \in Nat
    BY DEF IInv, BackendTyped, Buffer, Call
  <1>7. QED BY <1>1, <1>2, <1>3, <1>4, <1>5, <1>6 DEF RingTyped

(* The event a task emits: its place at the back of the ring, unless its   *)
(* process is not, or no longer, one of which everything is known.         *)
Appends(t, e) ==
  /\ ring' = Append(ring, e) /\ DOMAIN ring' = 1 .. Len(ring) + 1 /\ Len(ring') = Len(ring) + 1
  /\ ring'[Len(ring) + 1] = e /\ \A k \in DOMAIN ring : k \in DOMAIN ring' /\ ring'[k] = ring[k]
  /\ group[t] \in filter /\ lost' = lost

LEMMA EmitShape ==
  ASSUME IInv, NEW t \in Task, NEW e \in Message, Emit(t, e), filter' = filter, group' = group
  PROVE  /\ lost \subseteq lost'
         /\ Appends(t, e) \/ (ring' = ring /\ (group[t] \notin filter \/ group[t] \in lost'))
  <1>1. ring \in Seq(Message) BY RingFacts DEF RingTyped
  <1>2. CASE Traces(t) /\ Reserved
    <2>1. ring' = Append(ring, e) /\ lost' = lost BY <1>2 DEF Emit
    <2>2. DOMAIN ring' = 1 .. Len(ring) + 1 /\ Len(ring') = Len(ring) + 1 BY <1>1, <2>1
    <2>3. ring'[Len(ring) + 1] = e /\ \A k \in DOMAIN ring : k \in DOMAIN ring' /\ ring'[k] = ring[k]
      BY <1>1, <2>1
    <2>4. QED BY <1>2, <2>1, <2>2, <2>3 DEF Appends, Traces
  <1>3. CASE ~(Traces(t) /\ Reserved)
    <2>1. ring' = ring /\ lost \subseteq lost' BY <1>3 DEF Emit
    <2>2. group[t] \notin filter' \/ group[t] \in lost' BY <1>3 DEF Emit, Traces
    <2>3. QED BY <2>1, <2>2
  <1>4. QED BY <1>2, <1>3

(* A task begins a call, and leaves one, as the invariants below see it.   *)
Emits(t, e) ==
  /\ e \in Message /\ e.tid = t /\ e.tgid = group[t] /\ e.call \in Call /\ group[t] \in Task
  /\ filter' = filter /\ group' = group /\ rivals \subseteq rivals' /\ lost \subseteq lost'
  /\ UNCHANGED << pending, execTid, mispaired >>
  /\ \A u \in Task \ {t} : call'[u] = call[u] /\ status'[u] = status[u] /\ calls'[u] = calls[u]
  /\ Appends(t, e) \/ (ring' = ring /\ (group[t] \notin filter \/ group[t] \in lost'))

Enters(t, e) ==
  /\ Emits(t, e) /\ e.entry
  /\ e.call.task = t /\ e.call.n = calls[t] + 1 /\ calls'[t] = e.call.n
  /\ status[t] = "user" /\ call[t] = NoCall(t) /\ status'[t] = "called" /\ call'[t] = e.call
  /\ IsExec(e) /\ (\E u \in Threads(group[t]) \ {t} : Alive(u) /\ call[u].op = "execve")
       => group[t] \in rivals'

Leaves(t, e) ==
  /\ Emits(t, e) /\ ~e.entry
  /\ e.call = call[t] /\ InCall(t) /\ calls' = calls
  /\ status'[t] = "user" /\ call'[t] = NoCall(t)

LEMMA SysEnterEnters ==
  ASSUME IInv, CallsInv, NEW t \in Task, NEW op \in Ops, SysEnter(t, op)
  PROVE  \E e : Enters(t, e)
  <1>. DEFINE c == [task |-> t, n |-> calls[t] + 1, op |-> op, made |-> NoTask]
              e == Event(t, c, TRUE, FALSE, Nothing)
  <1>1. /\ status[t] = "user" /\ status' = [status EXCEPT ![t] = "called"]
        /\ calls' = [calls EXCEPT ![t] = c.n] /\ call' = [call EXCEPT ![t] = c]
        /\ Emit(t, e)
        /\ UNCHANGED << group, filter, execTid, pending, mispaired >>
        /\ rivals' = IF op = "execve" /\ \E u \in Threads(group[t]) \ {t} : Alive(u) /\ call[u].op = "execve"
                     THEN rivals \cup {group[t]} ELSE rivals
    BY DEF SysEnter, backend, seen
  <1>2. /\ group \in [Task -> Task \cup {NoTask}] /\ status \in [Task -> Status]
        /\ call \in [Task -> Call] /\ calls \in [Task -> Nat] /\ parents \in [Task -> Pair]
    BY DEF IInv, KernelTyped, MapsTyped
  <1>3. group[t] \in Task BY <1>1, <1>2 DEF IInv, GroupsInv
  <1>4. c \in Call /\ c.task = t /\ c.n = calls[t] + 1 /\ c.op = op BY <1>2 DEF Call
  <1>5. /\ e \in Message /\ e.tid = t /\ e.tgid = group[t] /\ e.call = c /\ e.entry = TRUE
    BY <1>2, <1>3, <1>4 DEF Event, Message, Buffer
  <1>. HIDE DEF c, e
  <1>6. lost \subseteq lost' /\ (Appends(t, e) \/ (ring' = ring /\ (group[t] \notin filter \/ group[t] \in lost')))
    BY <1>1, <1>5, EmitShape
  <1>7. call[t] = NoCall(t) BY <1>1 DEF CallsInv, CallInv
  <1>8. Emits(t, e) BY <1>1, <1>2, <1>3, <1>4, <1>5, <1>6 DEF Emits
  <1>9. Enters(t, e) BY <1>1, <1>2, <1>4, <1>5, <1>7, <1>8 DEF Enters, IsExec
  <1>10. QED BY <1>9

LEMMA SysExitLeaves ==
  ASSUME IInv, CallsInv, NEW t \in Task, SysExit(t)
  PROVE  \E e : Leaves(t, e) /\ e.ok \in Outcomes(t) /\ Emit(t, e)
  <1>. PICK ok \in Outcomes(t) : Emit(t, Event(t, call[t], FALSE, ok, Copied(t, call[t], ok)))
    BY DEF SysExit
  <1>. DEFINE e == Event(t, call[t], FALSE, ok, Copied(t, call[t], ok))
  <1>1. /\ status[t] \in {"called", "execed"} /\ status' = [status EXCEPT ![t] = "user"]
        /\ call' = [call EXCEPT ![t] = NoCall(t)] /\ Emit(t, e)
        /\ UNCHANGED << group, calls, filter, execTid, pending, mispaired, rivals >>
    BY DEF SysExit, backend, seen
  <1>2. /\ group \in [Task -> Task \cup {NoTask}] /\ status \in [Task -> Status]
        /\ call \in [Task -> Call] /\ calls \in [Task -> Nat] /\ parents \in [Task -> Pair]
        /\ readBuf \in [Task -> Buffer] /\ pipeBuf \in [Task -> Buffer]
    BY DEF IInv, KernelTyped, MapsTyped
  <1>3. group[t] \in Task BY <1>1, <1>2 DEF IInv, GroupsInv
  <1>5. ok \in BOOLEAN BY DEF Outcomes
  <1>6. Copied(t, call[t], ok) \in Buffer BY <1>2 DEF Copied, Buffer
  <1>7. /\ e \in Message /\ e.tid = t /\ e.tgid = group[t] /\ e.call = call[t] /\ e.entry = FALSE
        /\ e.ok = ok
    BY <1>2, <1>3, <1>5, <1>6 DEF Event, Message
  <1>. HIDE DEF e
  <1>8. lost \subseteq lost' /\ (Appends(t, e) \/ (ring' = ring /\ (group[t] \notin filter \/ group[t] \in lost')))
    BY <1>1, <1>7, EmitShape
  <1>9. Emits(t, e) BY <1>1, <1>2, <1>3, <1>7, <1>8 DEF Emits
  <1>10. Leaves(t, e) BY <1>1, <1>2, <1>7, <1>9 DEF Leaves, InCall
  <1>11. QED BY <1>1, <1>7, <1>10

LEMMA RingEmits ==
  ASSUME IInv, CallsInv, RingInv, NEW t \in Task, NEW e, Enters(t, e) \/ Leaves(t, e) PROVE RingInv'
  <1>0. RingTyped BY RingFacts
  <1>1. Emits(t, e) BY DEF Enters, Leaves
  <1>2. ASSUME NEW u \in Task PROVE calls[u] \in Nat /\ calls'[u] \in Nat /\ calls[u] <= calls'[u]
    BY <1>0, <1>1 DEF RingTyped, Enters, Leaves, Emits
  <1>3. EventInv(e)' \/ ring' = ring
    <2>1. e.tgid \in filter \/ ring' = ring BY <1>1 DEF Emits, Appends
    <2>2. group[e.call.task] = group[t] BY DEF Enters, Leaves, CallsInv, CallInv
    <2>3. e.entry => e.call.n > 0 BY <1>0 DEF RingTyped, Enters, Leaves
    <2>4. e.entry \/ ~IsExec(e) => e.tid = e.call.task
      BY <1>1 DEF Enters, Leaves, Emits, IsExec, CallsInv, CallInv
    <2>5. e.call.n <= calls'[e.call.task]
      BY <1>0, <1>2 DEF RingTyped, Enters, Leaves, CallsInv, CallInv
    <2>6. QED BY <1>1, <2>1, <2>2, <2>3, <2>4, <2>5 DEF Emits, EventInv
  <1>4. ASSUME NEW k \in DOMAIN ring PROVE EventInv(ring[k])'
    <2>1. EventInv(ring[k]) BY DEF RingInv
    <2>2. PICK f : f = ring[k] OBVIOUS
    <2>3. f.call.task \in Task /\ f.call.n \in Nat BY <1>0, <2>2 DEF RingTyped
    <2>4. calls[f.call.task] <= calls'[f.call.task] /\ calls[f.call.task] \in Nat /\ calls'[f.call.task] \in Nat
      BY <1>2, <2>3
    <2>5. filter' = filter /\ group' = group BY <1>1 DEF Emits
    <2>6. EventInv(f)' BY <2>1, <2>2, <2>3, <2>4, <2>5 DEF EventInv
    <2>7. ring'[k] = f BY <1>1, <2>2 DEF Emits, Appends
    <2>8. QED BY <2>6, <2>7
  <1>5. ASSUME NEW k \in DOMAIN ring' PROVE EventInv(ring[k])'
    <2>1. k \in DOMAIN ring \/ (ring' # ring /\ ring'[k] = e)
      BY <1>0, <1>1, <1>5 DEF RingTyped, Emits, Appends
    <2>2. QED BY <1>3, <1>4, <2>1
  <1>6. ASSUME NEW u \in Task PROVE PendingInv(u)'
    <2>1. PendingInv(u) /\ (pending[u] # Nothing => pending[u].n \in Nat) BY <1>0 DEF RingInv, RingTyped
    <2>2. UNCHANGED << pending, execTid, group, filter >> BY <1>1 DEF Emits
    <2>3. QED BY <1>2, <2>1, <2>2 DEF PendingInv
  <1>7. QED BY <1>5, <1>6 DEF RingInv

(* The event at the front is handed on.                                    *)
Shifts(e) ==
  /\ UNCHANGED << group, status, call, calls, execs, lost, rivals >> /\ filter \subseteq filter'
  /\ e = ring[1] /\ 1 \in DOMAIN ring
  /\ DOMAIN ring' = 1 .. Len(ring) - 1 /\ Len(ring') = Len(ring) - 1
  /\ \A k \in DOMAIN ring' : k + 1 \in DOMAIN ring /\ ring'[k] = ring[k + 1]
  /\ \A k \in DOMAIN ring : k > 1 => k - 1 \in DOMAIN ring' /\ ring'[k - 1] = ring[k]
  /\ \A t \in Task : group[t] \in Task /\ Sound(group[t])' => Sound(group[t])

LEMMA TakeShape == ASSUME IInv, NEW e, Take(e) PROVE Shifts(e)
  <1>0. RingTyped BY RingFacts
  <1>1. UNCHANGED << group, status, call, calls, execs, lost, rivals >> BY DEF Take, tasks
  <1>2. /\ ring \in Seq(Message) /\ Len(ring) \in Nat \ {0} /\ DOMAIN ring = 1 .. Len(ring)
        /\ e = ring[1] /\ 1 \in DOMAIN ring
        /\ ring' \in Seq(Message)
        /\ DOMAIN ring' = 1 .. Len(ring) - 1
        /\ \A k \in DOMAIN ring' : k + 1 \in DOMAIN ring /\ ring'[k] = ring[k + 1]
    BY TakeShifts
  <1>3. Len(ring') = Len(ring) - 1 BY <1>2 DEF Take
  <1>4. \A k \in DOMAIN ring : k > 1 => k - 1 \in DOMAIN ring' /\ ring'[k - 1] = ring[k]
    BY <1>2
  <1>5. /\ filter \subseteq filter'
        /\ ~follow => filter' = filter
        /\ follow /\ filter' # filter => \A t \in Task : group[t] \notin Task \ filter
    BY TakeFilter
  <1>6. \A t \in Task : group[t] \in Task /\ Sound(group[t])' => Sound(group[t])
    BY <1>1, <1>5 DEF Sound
  <1>7. QED BY <1>1, <1>2, <1>3, <1>4, <1>5, <1>6 DEF Shifts

Handled(e) == HandleLaunch(e) \/ HandleEntry(e) \/ HandleExit(e)

LEMMA EntryTidGroup ==
  ASSUME IInv, RingInv, NEW e, Shifts(e) PROVE EntryTid(e) \in Task /\ group[EntryTid(e)] = e.tgid
  <1>0. RingTyped BY RingFacts
  <1>1. e.tgid \in Task /\ e.tid \in Task /\ group[e.tid] = e.tgid
    BY <1>0 DEF Shifts, RingTyped, RingInv, EventInv
  <1>2. execTid[e.tgid] \in Task \cup {NoTask} BY <1>1 DEF IInv, BackendTyped
  <1>3. PendingInv(e.tgid) BY <1>1 DEF RingInv
  <1>4. QED BY <1>1, <1>2, <1>3 DEF EntryTid, PendingInv

LEMMA RingHandled == ASSUME IInv, RingInv, NEW e, Handled(e) PROVE RingInv'
  <1>0. RingTyped BY RingFacts
  <1>1. Shifts(e) BY TakeShape DEF Handled, HandleLaunch, HandleEntry, HandleExit
  <1>2. EventInv(e) /\ e.tid \in Task /\ e.tgid \in Task BY <1>0, <1>1 DEF Shifts, RingInv, RingTyped
  <1>3. ASSUME NEW k \in DOMAIN ring' PROVE EventInv(ring[k])'
    <2>1. PICK f : f = ring[k + 1] /\ ring'[k] = f BY <1>1, <1>3 DEF Shifts
    <2>2. EventInv(f) BY <1>1, <1>3, <2>1 DEF Shifts, RingInv
    <2>3. EventInv(f)' BY <1>1, <2>2 DEF Shifts, EventInv
    <2>4. QED BY <2>1, <2>3
  <1>4. ASSUME NEW t \in Task PROVE PendingInv(t)'
    <2>1. PendingInv(t) BY DEF RingInv
    <2>2. UNCHANGED << group, calls >> /\ filter \subseteq filter' BY <1>1 DEF Shifts
    <2>3. pending \in [Task -> Buffer] /\ execTid \in [Task -> Task \cup {NoTask}]
      BY DEF IInv, BackendTyped
    <2>4. \/ pending'[t] \in {pending[t], Nothing}
          \/ pending'[t] = e.call /\ t = e.tid /\ e.entry
      BY <1>2, <2>3 DEF Handled, HandleLaunch, HandleEntry, HandleExit
    <2>5. \/ execTid'[t] \in {execTid[t], NoTask}
          \/ execTid'[t] = e.tid /\ t = e.tgid
      BY <1>2, <2>3 DEF Handled, HandleLaunch, HandleEntry, HandleExit
    <2>6. pending'[t] # Nothing => /\ group[t] \in filter /\ pending'[t].task = t
                                   /\ pending'[t].n > 0 /\ pending'[t].n <= calls[t]
      BY <1>2, <2>1, <2>4 DEF EventInv, PendingInv
    <2>7. execTid'[t] # NoTask => group[execTid'[t]] = t
      BY <1>2, <2>1, <2>5 DEF EventInv, PendingInv
    <2>8. QED BY <2>2, <2>6, <2>7 DEF PendingInv
  <1>5. QED BY <1>3, <1>4 DEF RingInv

-----------------------------------------------------------------------------
(* Steps that no event reports: those of the kernel between two calls, and *)
(* the end of the loop.                                                    *)
Quiet ==
  /\ UNCHANGED << ring, pending, execTid, mispaired, calls, rivals >>
  /\ filter \subseteq filter' /\ lost \subseteq lost'
  /\ \A u \in Task : group[u] \in Task => group'[u] = group[u] /\ (Sound(group[u])' => Sound(group[u]))
  /\ \A u \in Task : InCall(u)' =>
       \/ \E v \in Task : InCall(v) /\ Known(call'[u]) = Known(call[v]) /\ group'[u] = group[v]
       \/ call'[u].n = 0 /\ call'[u].op # "execve" /\ call'[u].task \in Task /\ group[call'[u].task] = NoTask
  /\ \A u \in Task : group[u] \in Task /\ Sound(group[u])' =>
       Known(call'[u]) = Known(call[u]) \/ call[u].n = 0 \/ call[u].op = "exit"
  /\ \A u \in Task : group'[u] = u /\ Sound(u)' /\ status'[u] = "dead" =>
       \/ status[u] = "dead" /\ group[u] = u /\ call'[u] = call[u]
       \/ call'[u] = NoCall(u) \/ call'[u].op = "exit"
  /\ \A t, u \in Task : InCall(t)' /\ InCall(u)' /\ t # u /\ group'[t] = group'[u]
                        /\ call'[t].op = "execve" /\ call'[u].op = "execve" =>
       /\ InCall(t) /\ InCall(u) /\ group[t] = group[u] /\ group'[t] = group[t]
       /\ call[t].op = "execve" /\ call[u].op = "execve"

LEMMA RingQuiet == ASSUME IInv, RingInv, Quiet PROVE RingInv'
  <1>0. RingTyped BY RingFacts
  <1>1. ASSUME NEW k \in DOMAIN ring' PROVE EventInv(ring[k])'
    <2>1. PICK f : f = ring[k] /\ ring'[k] = f BY DEF Quiet
    <2>2. EventInv(f) /\ f.tid \in Task /\ f.call.task \in Task /\ f.tgid \in Task
      BY <1>0, <1>1, <2>1 DEF Quiet, RingInv, RingTyped
    <2>3. EventInv(f)' BY <2>2 DEF Quiet, EventInv
    <2>4. QED BY <2>1, <2>3
  <1>2. ASSUME NEW t \in Task PROVE PendingInv(t)'
    <2>1. PendingInv(t) /\ filter \subseteq Task BY DEF RingInv, IInv, MapsTyped
    <2>2. execTid[t] \in Task \cup {NoTask} BY DEF IInv, BackendTyped
    <2>3. QED BY <2>1, <2>2 DEF Quiet, PendingInv
  <1>3. QED BY <1>1, <1>2 DEF RingInv

-----------------------------------------------------------------------------
(* No call is underway in two tasks, be it that a worker's exec goes on in *)
(* its leader.                                                             *)
LEMMA CallsDiffer ==
  ASSUME CallsInv, NEW t \in Task, NEW u \in Task, t # u, InCall(t), InCall(u)
  PROVE  call[t].task # call[u].task
  BY DEF CallsInv, CallInv, InCall

LEMMA OrderEmits ==
  ASSUME IInv, CallsInv, RingInv, OrderInv, NEW t \in Task, NEW e, Enters(t, e) \/ Leaves(t, e)
  PROVE  OrderInv'
  <1>0. RingTyped BY RingFacts
  <1>1. Emits(t, e) BY DEF Enters, Leaves
  <1>2. e.call.task \in Task /\ e.call.n \in Nat /\ calls[t] \in Nat
    BY <1>0, <1>1 DEF Emits, Call, RingTyped
  <1>3. ASSUME NEW k \in DOMAIN ring, ring[k].call.task = e.call.task
        PROVE  Follows(e, ring[k].call.n, ring[k].entry)
    <2>1. EventInv(ring[k]) /\ ring[k].call.n \in Nat BY <1>0 DEF RingInv, RingTyped
    <2>2. CASE Enters(t, e) BY <1>0, <1>2, <1>3, <2>1, <2>2 DEF Enters, EventInv, Follows
    <2>3. CASE Leaves(t, e)
      <3>1. ring[k].call.n <= e.call.n
        BY <1>3, <2>1, <2>3 DEF Leaves, EventInv, CallsInv, CallInv
      <3>2. ring[k].entry \/ ring[k].call.n # e.call.n
        BY <1>3, <2>3 DEF Leaves, OrderInv
      <3>3. QED BY <1>2, <2>1, <2>3, <3>1, <3>2 DEF Leaves, Follows
    <2>4. QED BY <2>2, <2>3
  <1>4. pending[e.call.task] # Nothing => Follows(e, pending[e.call.task].n, TRUE)
    <2>1. PendingInv(e.call.task) BY <1>2 DEF RingInv
    <2>2. pending[e.call.task] # Nothing => pending[e.call.task].n \in Nat
      BY <1>0, <1>2 DEF RingTyped
    <2>3. CASE Enters(t, e) BY <1>2, <2>1, <2>2, <2>3 DEF Enters, PendingInv, Follows
    <2>4. CASE Leaves(t, e)
      BY <1>2, <2>1, <2>2, <2>4 DEF Leaves, CallsInv, CallInv, PendingInv, Follows
    <2>5. QED BY <2>3, <2>4
  <1>5. \A k \in DOMAIN ring' : (k \in DOMAIN ring /\ ring'[k] = ring[k])
                                \/ (k = Len(ring) + 1 /\ Appends(t, e) /\ ring'[k] = e)
    BY <1>0, <1>1 DEF Emits, Appends, RingTyped
  <1>6. ASSUME NEW j \in DOMAIN ring', NEW k \in DOMAIN ring',
               j < k, ring'[j].call.task = ring'[k].call.task
        PROVE  Follows(ring'[k], ring'[j].call.n, ring'[j].entry)
    <2>1. j \in DOMAIN ring /\ ring'[j] = ring[j] BY <1>0, <1>5, <1>6 DEF RingTyped, Appends
    <2>2. CASE k \in DOMAIN ring /\ ring'[k] = ring[k] BY <1>6, <2>1, <2>2 DEF OrderInv
    <2>3. CASE ring'[k] = e BY <1>3, <1>6, <2>1, <2>3
    <2>4. QED BY <1>5, <2>2, <2>3
  <1>7. ASSUME NEW k \in DOMAIN ring', pending'[ring'[k].call.task] # Nothing
        PROVE  Follows(ring'[k], pending'[ring'[k].call.task].n, TRUE)
    <2>1. pending' = pending BY <1>1 DEF Emits
    <2>2. CASE k \in DOMAIN ring /\ ring'[k] = ring[k] BY <1>7, <2>1, <2>2 DEF OrderInv
    <2>3. CASE ring'[k] = e BY <1>4, <1>7, <2>1, <2>3
    <2>4. QED BY <1>5, <2>2, <2>3
  <1>8. ASSUME NEW u \in Task, InCall(u)', NEW k \in DOMAIN ring', ~ring'[k].entry
        PROVE  ~(ring'[k].call.task = call'[u].task /\ ring'[k].call.n = call'[u].n)
    <2>1. CASE u = t
      <3>1. Enters(t, e) BY <1>8, <2>1 DEF Leaves, InCall
      <3>2. k \in DOMAIN ring /\ ring'[k] = ring[k] BY <1>5, <1>8, <3>1 DEF Enters
      <3>3. call'[u] = e.call BY <2>1, <3>1 DEF Enters
      <3>4. ring[k].call.task = e.call.task => ring[k].call.n < e.call.n
        BY <1>2, <1>3, <1>8, <3>2, <3>1 DEF Follows, Enters
      <3>5. ring[k].call.n \in Nat BY <1>0, <3>2 DEF RingTyped
      <3>6. QED BY <1>2, <3>2, <3>3, <3>4, <3>5
    <2>2. CASE u # t
      <3>1. InCall(u) /\ call'[u] = call[u] BY <1>1, <1>8, <2>2 DEF Emits, InCall
      <3>2. CASE k \in DOMAIN ring /\ ring'[k] = ring[k] BY <1>8, <3>1, <3>2 DEF OrderInv
      <3>3. CASE ring'[k] = e
        <4>1. Leaves(t, e) BY <1>8, <3>3 DEF Enters
        <4>2. e.call = call[t] /\ InCall(t) BY <4>1 DEF Leaves
        <4>3. call[t].task # call[u].task BY <2>2, <3>1, <4>2, CallsDiffer
        <4>4. QED BY <3>1, <3>3, <4>2, <4>3
      <3>4. QED BY <1>5, <3>2, <3>3
    <2>3. QED BY <2>1, <2>2
  <1>9. QED BY <1>6, <1>7, <1>8 DEF OrderInv

LEMMA OrderHandled ==
  ASSUME IInv, CallsInv, RingInv, OrderInv, NEW e, Handled(e) PROVE OrderInv'
  <1>0. RingTyped BY RingFacts
  <1>1. Shifts(e) BY TakeShape DEF Handled, HandleLaunch, HandleEntry, HandleExit
  <1>2. EventInv(e) /\ e.tid \in Task BY <1>0, <1>1 DEF Shifts, RingInv, RingTyped
  <1>3. ASSUME NEW k \in DOMAIN ring'
        PROVE  /\ k \in Nat /\ k > 0 /\ k + 1 \in DOMAIN ring /\ ring'[k] = ring[k + 1]
               /\ ring[k + 1].call.task \in Task
    BY <1>0, <1>1, <1>3 DEF Shifts, RingTyped
  <1>4. ASSUME NEW j \in DOMAIN ring', NEW k \in DOMAIN ring',
               j < k, ring'[j].call.task = ring'[k].call.task
        PROVE  Follows(ring'[k], ring'[j].call.n, ring'[j].entry)
    <2>1. j + 1 < k + 1 BY <1>3, <1>4
    <2>2. QED BY <1>3, <1>4, <2>1 DEF OrderInv
  <1>5. ASSUME NEW k \in DOMAIN ring', pending'[ring'[k].call.task] # Nothing
        PROVE  Follows(ring'[k], pending'[ring'[k].call.task].n, TRUE)
    <2>1. PICK f : f = ring[k + 1] /\ ring'[k] = f /\ f.call.task \in Task BY <1>3
    <2>2. pending \in [Task -> Buffer] BY DEF IInv, BackendTyped
    <2>3. \/ pending'[f.call.task] = pending[f.call.task]
          \/ pending'[f.call.task] = e.call /\ f.call.task = e.tid /\ e.entry
      BY <1>2, <1>5, <2>1, <2>2 DEF Handled, HandleLaunch, HandleEntry, HandleExit
    <2>4. CASE pending'[f.call.task] = pending[f.call.task]
      BY <1>3, <1>5, <2>1, <2>4 DEF OrderInv
    <2>5. CASE pending'[f.call.task] = e.call /\ f.call.task = e.tid /\ e.entry
      <3>1. e.call.task = f.call.task BY <1>2, <2>5 DEF EventInv
      <3>2. 1 < k + 1 /\ 1 \in DOMAIN ring /\ k + 1 \in DOMAIN ring BY <1>1, <1>3 DEF Shifts
      <3>3. Follows(f, e.call.n, e.entry) BY <1>1, <2>1, <3>1, <3>2 DEF OrderInv, Shifts
      <3>4. Follows(f, e.call.n, TRUE) BY <2>5, <3>3 DEF Follows
      <3>5. QED BY <2>1, <2>5, <3>4
    <2>6. QED BY <2>3, <2>4, <2>5
  <1>6. ASSUME NEW u \in Task, InCall(u)', NEW k \in DOMAIN ring', ~ring'[k].entry
        PROVE  ~(ring'[k].call.task = call'[u].task /\ ring'[k].call.n = call'[u].n)
    <2>1. InCall(u) /\ call' = call BY <1>1, <1>6 DEF Shifts, InCall
    <2>2. QED BY <1>3, <1>6, <2>1 DEF OrderInv
  <1>7. QED BY <1>4, <1>5, <1>6 DEF OrderInv

LEMMA OrderQuiet == ASSUME IInv, RingInv, OrderInv, Quiet PROVE OrderInv'
  <1>0. RingTyped BY RingFacts
  <1>1. ring' = ring /\ pending' = pending BY DEF Quiet
  <1>2. ASSUME NEW u \in Task, InCall(u)', NEW k \in DOMAIN ring, ~ring[k].entry
        PROVE  ~(ring[k].call.task = call'[u].task /\ ring[k].call.n = call'[u].n)
    <2>1. CASE \E v \in Task : InCall(v) /\ Known(call'[u]) = Known(call[v])
      <3>1. PICK v \in Task : InCall(v) /\ Known(call'[u]) = Known(call[v]) BY <2>1
      <3>2. call'[u].task = call[v].task /\ call'[u].n = call[v].n BY <3>1 DEF Known
      <3>3. QED BY <1>2, <3>1, <3>2 DEF OrderInv
    <2>2. CASE group[call'[u].task] = NoTask
      <3>1. group[ring[k].call.task] \in Task
        BY <1>0, <1>2 DEF RingTyped, RingInv, EventInv
      <3>2. QED BY <2>2, <3>1, TaskAssumption
    <2>3. QED BY <1>2, <2>1, <2>2 DEF Quiet
  <1>3. QED BY <1>1, <1>2 DEF OrderInv

-----------------------------------------------------------------------------
LEMMA LaunchIsSuppressed ==
  ASSUME IInv, RingInv, LaunchInv, NEW e, Shifts(e), Sound(e.tgid)
  PROVE  Suppressed(e) <=> IsLaunch(e.call)
  <1>0. RingTyped BY RingFacts
  <1>1. /\ e = ring[1] /\ 1 \in DOMAIN ring /\ group[e.call.task] = e.tgid
        /\ \A k \in DOMAIN ring : k \in Nat /\ ~(k < 1)
    BY <1>0 DEF Shifts, RingInv, EventInv, RingTyped
  <1>2. group[Root] = Root BY DEF IInv, GroupsInv
  <1>3. ASSUME e.tgid = Root, IsExec(e)
        PROVE  initialExec <=> IsLaunch(e.call)
    <2>1. Root \notin lost /\ RootExec(1) BY <1>1, <1>3 DEF Sound, RootExec
    <2>2. CASE Launching BY <1>1, <2>1, <2>2 DEF Launching
    <2>3. CASE LaunchReturning BY <1>1, <2>1, <2>3 DEF LaunchReturning
    <2>4. CASE LaunchOver BY <1>1, <2>1, <2>4 DEF LaunchOver
    <2>5. QED BY <2>1, <2>2, <2>3, <2>4 DEF LaunchInv
  <1>4. IsLaunch(e.call) => e.tgid = Root /\ IsExec(e) BY <1>1, <1>2 DEF IsLaunch, IsExec
  <1>5. QED BY <1>3, <1>4 DEF Suppressed

LEMMA LaunchEnter ==
  ASSUME IInv, CallsInv, LaunchInv, NEW t \in Task, NEW op \in Ops, SysEnter(t, op)
  PROVE  LaunchInv'
  <1>. SUFFICES ASSUME Root \notin lost' PROVE (Launching \/ LaunchReturning \/ LaunchOver)'
    BY DEF LaunchInv
  <1>0. RingTyped /\ TaskAssumption BY RingFacts, TaskAssumption
  <1>1. PICK e : Enters(t, e) BY SysEnterEnters
  <1>2. /\ UNCHANGED << execs, initialExec >> /\ status[t] = "user" /\ MayCall(t, op) /\ call'[t].op = op
    <2>1. call \in [Task -> Call] BY DEF IInv, KernelTyped
    <2>2. QED BY <2>1 DEF SysEnter, backend
  <1>3. group[Root] = Root /\ Root \in filter BY DEF IInv, GroupsInv
  <1>4. /\ \A u \in Task \ {t} : call'[u] = call[u] /\ status'[u] = status[u] /\ calls'[u] = calls[u]
        /\ call'[t] = e.call /\ e.call.task = t /\ e.call.n = calls[t] + 1 /\ calls'[t] = e.call.n
        /\ status'[t] = "called" /\ e.entry /\ e.tgid = group[t]
        /\ Root \notin lost /\ calls[t] \in Nat /\ calls[Root] \in Nat
        /\ Appends(t, e) \/ (ring' = ring /\ (group[t] \notin filter \/ group[t] \in lost'))
    BY <1>0, <1>1 DEF Enters, Emits, RingTyped
  <1>5. Launched' <=> Launched BY <1>2 DEF Launched
  <1>6. \A k \in DOMAIN ring' : (k \in DOMAIN ring /\ ring'[k] = ring[k])
                                \/ (k = Len(ring) + 1 /\ ring'[k] = e)
    BY <1>0, <1>4 DEF Appends, RingTyped
  <1>7. CASE Launching
    <2>1. t = Root /\ calls[Root] = 0 /\ ~Launched BY <1>2, <1>7 DEF Launching, Alone, InCall
    <2>2. op = "execve" BY <1>2, <2>1 DEF MayCall
    <2>3. IsLaunch(e.call) /\ calls'[Root] = 1 /\ InCall(Root)'
      BY <1>2, <1>4, <2>1, <2>2 DEF IsLaunch, InCall
    <2>4. \A k \in DOMAIN ring' : RootExec(k)' => IsLaunch(ring'[k].call) /\ ring'[k].entry
      BY <1>4, <1>6, <1>7, <2>3 DEF Launching, RootExec
    <2>5. Alone' BY <1>4, <1>7, <2>1 DEF Launching, Alone
    <2>6. QED BY <1>2, <1>4, <1>5, <1>7, <2>1, <2>3, <2>4, <2>5 DEF Launching, IsLaunch
  <1>8. ASSUME Returned PROVE Returned' /\ ~IsLaunch(e.call)
    <2>0. calls[Root] > 0 BY <1>8 DEF Returned
    <2>a. ASSUME t = Root PROVE calls'[Root] > 0 /\ ~IsLaunch(e.call)
      BY <1>4, <2>0, <2>a DEF IsLaunch
    <2>b. ASSUME t # Root PROVE calls'[Root] > 0 /\ ~IsLaunch(e.call)
      BY <1>0, <1>4, <2>0, <2>b DEF IsLaunch
    <2>1. calls'[Root] > 0 /\ ~IsLaunch(e.call) BY <2>a, <2>b
    <2>2. \A u \in Task : InCall(u)' => ~IsLaunch(call'[u])
      BY <1>4, <1>8, <2>1 DEF Returned, InCall
    <2>3. ASSUME ~Launched PROVE Alone' /\ call'[Root].op = "exit"
      <3>1. t = Root /\ Alone BY <1>2, <1>8, <2>3 DEF Returned, Alone
      <3>2. call'[Root].op = "exit" BY <1>2, <1>8, <2>3, <3>1 DEF MayCall, Returned
      <3>3. QED BY <1>4, <3>1, <3>2 DEF Alone
    <2>4. QED BY <1>5, <2>1, <2>2, <2>3 DEF Returned, IsLaunch
  <1>9. CASE LaunchReturning
    <2>1. PICK k \in DOMAIN ring :
            /\ RootExec(k) /\ IsLaunch(ring[k].call) /\ ~ring[k].entry /\ (ring[k].ok <=> Launched)
            /\ \A i \in DOMAIN ring : RootExec(i) /\ i # k =>
                 \/ i < k /\ IsLaunch(ring[i].call) /\ ring[i].entry
                 \/ i > k /\ ~IsLaunch(ring[i].call)
      BY <1>9 DEF LaunchReturning
    <2>2. k \in DOMAIN ring' /\ ring'[k] = ring[k] /\ Len(ring) + 1 > k
      BY <1>0, <1>4 DEF Appends, RingTyped
    <2>3. ~IsLaunch(e.call) /\ Returned' BY <1>8, <1>9 DEF LaunchReturning
    <2>4. \A i \in DOMAIN ring' : RootExec(i)' /\ i # k =>
            \/ i < k /\ IsLaunch(ring'[i].call) /\ ring'[i].entry
            \/ i > k /\ ~IsLaunch(ring'[i].call)
      BY <1>6, <2>1, <2>2, <2>3 DEF RootExec
    <2>5. QED BY <1>2, <1>5, <1>9, <2>1, <2>2, <2>3, <2>4 DEF LaunchReturning, RootExec, IsLaunch
  <1>10. CASE LaunchOver
    BY <1>2, <1>6, <1>8, <1>10 DEF LaunchOver, RootExec, IsLaunch
  <1>11. QED BY <1>4, <1>7, <1>9, <1>10 DEF LaunchInv

LEMMA LaunchExit ==
  ASSUME IInv, CallsInv, LaunchInv, NEW t \in Task, SysExit(t)
  PROVE  LaunchInv'
  <1>. SUFFICES ASSUME Root \notin lost' PROVE (Launching \/ LaunchReturning \/ LaunchOver)'
    BY DEF LaunchInv
  <1>0. RingTyped /\ TaskAssumption BY RingFacts, TaskAssumption
  <1>1. PICK e : Leaves(t, e) /\ e.ok \in Outcomes(t) BY SysExitLeaves
  <1>2. UNCHANGED << execs, initialExec, calls >> /\ status[t] \in {"called", "execed"}
        /\ call[t].op # "exit"
    BY DEF SysExit, backend
  <1>3. group[Root] = Root /\ Root \in filter BY DEF IInv, GroupsInv
  <1>4. /\ \A u \in Task \ {t} : call'[u] = call[u] /\ status'[u] = status[u]
        /\ call'[t] = NoCall(t) /\ status'[t] = "user" /\ e.call = call[t]
        /\ ~e.entry /\ e.tgid = group[t] /\ InCall(t)
        /\ Root \notin lost /\ calls[Root] \in Nat /\ call[Root].n \in Nat
        /\ Appends(t, e) \/ (ring' = ring /\ (group[t] \notin filter \/ group[t] \in lost'))
    BY <1>0, <1>1 DEF Leaves, Emits, RingTyped
  <1>5. Launched' <=> Launched BY <1>2 DEF Launched
  <1>6. \A k \in DOMAIN ring' : (k \in DOMAIN ring /\ ring'[k] = ring[k])
                                \/ (k = Len(ring) + 1 /\ ring'[k] = e)
    BY <1>0, <1>4 DEF Appends, RingTyped
  <1>7. CASE Launching
    <2>1. t = Root BY <1>2, <1>7 DEF Launching, Alone
    <2>2. Alone' BY <1>4, <1>7, <2>1 DEF Launching, Alone
    <2>3. CASE calls[Root] = 0
      <3>1. call[Root].n = 0
        <4>1. status[Root] = "called" BY <1>2, <1>7, <2>1, <2>3 DEF Launching
        <4>2. QED BY <1>4, <2>1, <2>3, <4>1 DEF CallsInv, CallInv
      <3>2. ~IsExec(e) BY <1>4, <2>1, <3>1 DEF CallsInv, CallInv, IsExec
      <3>3. ~Launched BY <1>2, <1>7, <2>1, <2>3 DEF Launching
      <3>4. Launching' BY <1>2, <1>4, <1>5, <1>6, <1>7, <2>1, <2>2, <2>3, <3>2, <3>3
                       DEF Launching, RootExec, IsExec, IsLaunch
      <3>5. QED BY <3>4
    <2>4. CASE calls[Root] = 1 /\ IsLaunch(call[Root])
      <3>1. Appends(t, e) BY <1>3, <1>4, <2>1
      <3>2. e.ok <=> Launched
        <4>1. call[t].n = 1 /\ call[t].op = "execve" BY <2>1, <2>4 DEF IsLaunch
        <4>2. Outcomes(t) = {status[t] = "execed"} BY <4>1 DEF Outcomes
        <4>3. QED BY <1>1, <1>7, <2>1, <4>2 DEF Launching
      <3>. PICK k : k = Len(ring) + 1 OBVIOUS
      <3>3. k \in DOMAIN ring' /\ ring'[k] = e BY <1>0, <3>1 DEF Appends, RingTyped
      <3>4. RootExec(k)' /\ IsLaunch(e.call) BY <1>3, <1>4, <2>1, <2>4, <3>3 DEF RootExec, IsExec, IsLaunch
      <3>5. \A i \in DOMAIN ring' : RootExec(i)' /\ i # k =>
              i < k /\ IsLaunch(ring'[i].call) /\ ring'[i].entry
        <4>1. \A i \in DOMAIN ring : i < k BY <1>0 DEF RingTyped
        <4>2. QED BY <1>6, <1>7, <4>1 DEF Launching, RootExec
      <3>6. Returned'
        <4>1. \A u \in Task : ~InCall(u)'
          BY <1>4, <1>7, <2>1 DEF Launching, Alone, InCall
        <4>2. QED BY <1>2, <1>4, <2>1, <2>2, <2>4, <4>1 DEF Returned, NoCall
      <3>7. LaunchReturning'
        BY <1>2, <1>4, <1>5, <1>7, <3>2, <3>3, <3>4, <3>5, <3>6 DEF Launching, LaunchReturning, IsLaunch
      <3>8. QED BY <3>7
    <2>5. QED BY <1>7, <2>3, <2>4 DEF Launching
  <1>8. ASSUME Returned PROVE Returned' /\ ~IsLaunch(e.call)
    <2>1. ~IsLaunch(e.call) BY <1>4, <1>8 DEF Returned
    <2>2. \A u \in Task : InCall(u)' => ~IsLaunch(call'[u])
      BY <1>4, <1>8 DEF Returned, InCall
    <2>3. ASSUME ~Launched PROVE FALSE
      <3>1. t = Root /\ status[Root] # "dead" /\ call[Root] = NoCall(Root)
        BY <1>2, <1>8, <2>3 DEF Returned, Alone
      <3>2. call[Root].n = calls[Root] BY <1>4, <3>1 DEF CallsInv, CallInv, NoCall
      <3>3. QED BY <1>8, <3>1, <3>2 DEF Returned, NoCall
    <2>4. QED BY <1>2, <1>5, <1>8, <2>1, <2>2, <2>3 DEF Returned, IsLaunch
  <1>9. CASE LaunchReturning
    <2>1. PICK k \in DOMAIN ring :
            /\ RootExec(k) /\ IsLaunch(ring[k].call) /\ ~ring[k].entry /\ (ring[k].ok <=> Launched)
            /\ \A i \in DOMAIN ring : RootExec(i) /\ i # k =>
                 \/ i < k /\ IsLaunch(ring[i].call) /\ ring[i].entry
                 \/ i > k /\ ~IsLaunch(ring[i].call)
      BY <1>9 DEF LaunchReturning
    <2>2. k \in DOMAIN ring' /\ ring'[k] = ring[k] /\ Len(ring) + 1 > k
      BY <1>0, <1>4 DEF Appends, RingTyped
    <2>3. ~IsLaunch(e.call) /\ Returned' BY <1>8, <1>9 DEF LaunchReturning
    <2>4. \A i \in DOMAIN ring' : RootExec(i)' /\ i # k =>
            \/ i < k /\ IsLaunch(ring'[i].call) /\ ring'[i].entry
            \/ i > k /\ ~IsLaunch(ring'[i].call)
      BY <1>6, <2>1, <2>2, <2>3 DEF RootExec
    <2>5. QED BY <1>2, <1>5, <1>9, <2>1, <2>2, <2>3, <2>4 DEF LaunchReturning, RootExec, IsLaunch
  <1>10. CASE LaunchOver
    BY <1>2, <1>6, <1>8, <1>10 DEF LaunchOver, RootExec, IsLaunch
  <1>11. QED BY <1>4, <1>7, <1>9, <1>10 DEF LaunchInv

(* No other step of the kernel ends the launch.                            *)
LEMMA LaunchKernel ==
  ASSUME IInv, CallsInv, CountsTyped, LaunchInv,
         NEW t \in Task, Spawn(t) \/ Dethread(t) \/ Exec(t) \/ Die(t)
  PROVE  LaunchInv'
  <1>. SUFFICES ASSUME Root \notin lost' PROVE (Launching \/ LaunchReturning \/ LaunchOver)'
    BY DEF LaunchInv
  <1>0. /\ status \in [Task -> Status] /\ call \in [Task -> Call] /\ execs \in [Task -> Nat]
        /\ group \in [Task -> Task \cup {NoTask}] /\ calls \in [Task -> Nat]
        /\ GroupsInv /\ StashInv /\ group[Root] = Root
        /\ Root \in Task /\ NoTask \notin Task
    BY TaskAssumption DEF IInv, KernelTyped, CountsTyped, GroupsInv
  <1>1. Root \notin lost /\ UNCHANGED << ring, calls, initialExec >>
    BY DEF Spawn, Dethread, Exec, Die, backend
  <1>2. status[t] # "none" BY DEF Spawn, Dethread, Exec, Die, Doomed
  <1>3. Launched => Launched'
    <2>1. CASE execs' = execs BY <2>1 DEF Launched
    <2>2. CASE Exec(t)
      <3>1. execs' = [execs EXCEPT ![group[t]] = @ + 1] BY <2>2 DEF Exec
      <3>2. QED BY <1>0, <3>1 DEF Launched
    <2>3. QED BY <2>1, <2>2 DEF Spawn, Dethread, Die
  <1>4. CASE Launching
    <2>1. t = Root /\ \A u \in Task \ {Root} : status[u] = "none" BY <1>2, <1>4 DEF Launching, Alone
    <2>2. call[Root].n > 0 => calls[Root] = 1 /\ IsLaunch(call[Root])
      <3>1. CASE calls[Root] = 0 /\ status[Root] = "called"
        BY <1>0, <3>1 DEF CallsInv, CallInv, InCall
      <3>2. CASE calls[Root] = 0 /\ status[Root] = "user"
        BY <1>0, <3>2 DEF CallsInv, CallInv, NoCall
      <3>3. QED BY <1>4, <3>1, <3>2 DEF Launching
    <2>3. call[Root].op # "other" => call[Root].n > 0 BY <1>0 DEF CallsInv, CallInv
    <2>4. ~Spawn(t) BY <2>1, <2>2 DEF Spawn, IsLaunch
    <2>5. ~Die(t)
      <3>1. ~(status[t] = "called" /\ call[t].op = "exit") BY <2>1, <2>2, <2>3 DEF IsLaunch
      <3>2. ~Doomed(t) BY <2>1 DEF Doomed, Threads
      <3>3. QED BY <3>1, <3>2 DEF Die
    <2>6. CASE Dethread(t)
      <3>1. /\ status[Root] = "called" /\ status' = [status EXCEPT ![Root] = "dethreading"]
            /\ call[Root].op = "execve" /\ UNCHANGED << execs, call >>
        BY <2>1, <2>6 DEF Dethread
      <3>2. calls[Root] = 1 /\ IsLaunch(call[Root]) BY <2>2, <2>3, <3>1
      <3>3. Alone' BY <1>0, <2>1, <3>1 DEF Alone
      <3>4. status'[Root] = "dethreading" /\ InCall(Root)' BY <1>0, <3>1 DEF InCall
      <3>5. ~Launched' BY <1>4, <3>1 DEF Launching, Launched
      <3>6. Launching'
        BY <1>1, <1>4, <3>1, <3>2, <3>3, <3>4, <3>5 DEF Launching, IsLaunch, RootExec, IsExec
      <3>7. QED BY <3>6
    <2>7. CASE Exec(t)
      <3>1. /\ status[Root] = "dethreading" /\ call' = [call EXCEPT ![Root] = call[Root]]
            /\ status' = [status EXCEPT ![Root] = "dead", ![Root] = "execed"]
            /\ execs' = [execs EXCEPT ![Root] = @ + 1]
        BY <1>0, <2>1, <2>7 DEF Exec
      <3>2. calls[Root] = 1 /\ IsLaunch(call[Root]) BY <1>4, <3>1 DEF Launching
      <3>3. Alone' BY <1>0, <2>1, <3>1 DEF Alone
      <3>4. status'[Root] = "execed" /\ InCall(Root)' /\ call' = call BY <1>0, <3>1 DEF InCall
      <3>5. Launched' BY <1>0, <3>1 DEF Launched
      <3>6. Launching'
        BY <1>1, <1>4, <3>2, <3>3, <3>4, <3>5 DEF Launching, IsLaunch, RootExec, IsExec
      <3>7. QED BY <3>6
    <2>8. QED BY <2>4, <2>5, <2>6, <2>7
  <1>5. ASSUME Returned PROVE Returned' /\ (Launched' <=> Launched)
    <2>1. \A u \in Task : InCall(u)' => ~IsLaunch(call'[u])
      <3>1. CASE Spawn(t)
        <4>1. PICK c \in Task : /\ status[c] = "none" /\ status' = [status EXCEPT ![c] = "called"]
                                /\ call' = [call EXCEPT ![t].made = c]
          BY <3>1 DEF Spawn
        <4>2. t # c /\ call[c] = NoCall(c) BY <1>0, <1>2, <4>1 DEF GroupsInv
        <4>3. \A u \in Task : call'[u].op = call[u].op /\ call'[u].task = call[u].task /\ call'[u].n = call[u].n
          BY <1>0, <4>1 DEF Call
        <4>4. \A u \in Task : u # c => (InCall(u)' <=> InCall(u)) BY <1>0, <4>1 DEF InCall
        <4>5. QED BY <1>5, <4>2, <4>3, <4>4 DEF Returned, IsLaunch, NoCall
      <3>2. CASE Dethread(t)
        <4>1. status' = [status EXCEPT ![t] = "dethreading"] /\ call' = call /\ InCall(t)
          BY <3>2 DEF Dethread, InCall
        <4>2. \A u \in Task : InCall(u)' => InCall(u) BY <1>0, <4>1 DEF InCall
        <4>3. QED BY <1>5, <4>1, <4>2 DEF Returned
      <3>3. CASE Die(t)
        <4>1. status' = [status EXCEPT ![t] = "dead"] /\ call' = call BY <3>3 DEF Die
        <4>2. \A u \in Task : InCall(u)' => InCall(u) BY <1>0, <4>1 DEF InCall
        <4>3. QED BY <1>5, <4>1, <4>2 DEF Returned
      <3>4. CASE Exec(t)
        <4>1. PICK g \in Task : g = group[t] BY <1>0, <1>2 DEF GroupsInv
        <4>2. /\ status' = [status EXCEPT ![t] = "dead", ![g] = "execed"]
              /\ call' = [call EXCEPT ![g] = call[t]] /\ InCall(t)
          BY <3>4, <4>1 DEF Exec, InCall
        <4>3. ~IsLaunch(call[t]) BY <1>5, <4>2 DEF Returned
        <4>4. \A u \in Task : u # g => call'[u] = call[u] /\ (InCall(u)' => InCall(u))
          BY <1>0, <4>1, <4>2 DEF InCall
        <4>5. call'[g] = call[t] BY <1>0, <4>1, <4>2
        <4>6. QED BY <1>5, <4>3, <4>4, <4>5 DEF Returned
      <3>5. QED BY <3>1, <3>2, <3>3, <3>4
    <2>2. CASE Launched BY <1>1, <1>3, <1>5, <2>1, <2>2 DEF Returned, IsLaunch
    <2>3. CASE ~Launched
      <3>1. /\ t = Root /\ Alone
            /\ status[Root] = "dead" \/ call[Root] = NoCall(Root) \/ call[Root].op = "exit"
        BY <1>2, <1>5, <2>3 DEF Returned, Alone
      <3>2. ~Spawn(t) /\ ~Dethread(t) /\ ~Exec(t)
        BY <1>0, <3>1 DEF Spawn, Dethread, Exec, StashInv, NoCall
      <3>3. Die(t) BY <3>2
      <3>4. status' = [status EXCEPT ![Root] = "dead"] /\ execs' = execs BY <3>1, <3>3 DEF Die
      <3>5. Alone' /\ status'[Root] = "dead" BY <1>0, <3>1, <3>4 DEF Alone
      <3>6. Launched' <=> Launched BY <3>4 DEF Launched
      <3>7. QED BY <1>1, <1>5, <2>1, <3>5, <3>6 DEF Returned, IsLaunch
    <2>4. QED BY <2>2, <2>3
  <1>6. CASE LaunchReturning
    <2>1. Returned' /\ (Launched' <=> Launched) BY <1>5, <1>6 DEF LaunchReturning
    <2>2. PICK k \in DOMAIN ring :
            /\ RootExec(k) /\ IsLaunch(ring[k].call) /\ ~ring[k].entry /\ (ring[k].ok <=> Launched)
            /\ \A i \in DOMAIN ring : RootExec(i) /\ i # k =>
                 \/ i < k /\ IsLaunch(ring[i].call) /\ ring[i].entry
                 \/ i > k /\ ~IsLaunch(ring[i].call)
      BY <1>6 DEF LaunchReturning
    <2>3. initialExec' BY <1>1, <1>6 DEF LaunchReturning
    <2>4. QED BY <1>1, <2>1, <2>2, <2>3 DEF LaunchReturning, RootExec, IsExec, IsLaunch
  <1>7. CASE LaunchOver
    <2>1. Returned' BY <1>5, <1>7 DEF LaunchOver
    <2>2. QED BY <1>1, <1>7, <2>1 DEF LaunchOver, RootExec, IsExec, IsLaunch
  <1>8. QED BY <1>1, <1>4, <1>6, <1>7 DEF LaunchInv

LEMMA LaunchHandled ==
  ASSUME IInv, LaunchInv, NEW e, Handled(e) PROVE LaunchInv'
  <1>. SUFFICES ASSUME Root \notin lost' PROVE (Launching \/ LaunchReturning \/ LaunchOver)'
    BY DEF LaunchInv
  <1>0. RingTyped BY RingFacts
  <1>1. Shifts(e) BY TakeShape DEF Handled, HandleLaunch, HandleEntry, HandleExit
  <1>2. Root \notin lost /\ UNCHANGED << status, call, calls, execs >> BY <1>1 DEF Shifts
  <1>3. (Alone' <=> Alone) /\ (Launched' <=> Launched) /\ (InCall(Root)' <=> InCall(Root))
    BY <1>2 DEF Alone, Launched, InCall
  <1>4. Returned => Returned' BY <1>2, <1>3 DEF Returned, InCall, IsLaunch
  <1>5. initialExec' = initialExec \/ (Suppressed(e) /\ initialExec' = e.entry)
    BY DEF Handled, HandleLaunch, HandleEntry, HandleExit
  <1>6. /\ Suppressed(e) <=> RootExec(1) /\ initialExec
        /\ 1 \in DOMAIN ring /\ e = ring[1] /\ e.entry \in BOOLEAN
    BY <1>0, <1>1 DEF Suppressed, RootExec, Shifts, RingTyped
  <1>7. ASSUME NEW i \in DOMAIN ring'
        PROVE  /\ i \in Nat /\ i > 0 /\ i + 1 \in DOMAIN ring /\ ring'[i] = ring[i + 1]
               /\ RootExec(i)' <=> RootExec(i + 1)
    <2>1. i \in Nat /\ i > 0 BY <1>0, <1>1, <1>7 DEF Shifts, RingTyped
    <2>2. i + 1 \in DOMAIN ring /\ ring'[i] = ring[i + 1] BY <1>1, <1>7 DEF Shifts
    <2>3. RootExec(i)' <=> RootExec(i + 1) BY <2>2 DEF RootExec
    <2>4. QED BY <2>1, <2>2, <2>3
  <1>8. CASE Launching
    <2>1. initialExec' = TRUE BY <1>5, <1>6, <1>8 DEF Launching
    <2>2. \A k \in DOMAIN ring' : RootExec(k)' => IsLaunch(ring'[k].call) /\ ring'[k].entry
      BY <1>7, <1>8 DEF Launching
    <2>3. QED BY <1>2, <1>3, <1>8, <2>1, <2>2 DEF Launching, IsLaunch
  <1>9. CASE LaunchReturning
    <2>1. PICK k \in DOMAIN ring :
            /\ RootExec(k) /\ IsLaunch(ring[k].call) /\ ~ring[k].entry /\ (ring[k].ok <=> Launched)
            /\ \A i \in DOMAIN ring : RootExec(i) /\ i # k =>
                 \/ i < k /\ IsLaunch(ring[i].call) /\ ring[i].entry
                 \/ i > k /\ ~IsLaunch(ring[i].call)
      BY <1>9 DEF LaunchReturning
    <2>2. k \in Nat /\ k > 0 BY <1>0 DEF RingTyped
    <2>3. CASE k = 1
      <3>1. Suppressed(e) /\ ~e.entry BY <1>6, <1>9, <2>1, <2>3 DEF LaunchReturning
      <3>2. initialExec' = FALSE BY <1>5, <3>1 DEF Handled, HandleLaunch, HandleEntry, HandleExit
      <3>3. \A i \in DOMAIN ring' : RootExec(i)' => ~IsLaunch(ring'[i].call)
        BY <1>7, <2>1, <2>3
      <3>4. QED BY <1>4, <1>9, <3>2, <3>3 DEF LaunchReturning, LaunchOver, IsLaunch
    <2>4. CASE k # 1
      <3>1. Suppressed(e) => e.entry BY <1>6, <2>1, <2>2, <2>4
      <3>2. initialExec' BY <1>5, <1>9, <3>1 DEF LaunchReturning
      <3>3. PICK m : m = k - 1 OBVIOUS
      <3>4. m \in DOMAIN ring' /\ ring'[m] = ring[k] /\ m + 1 = k
        BY <1>1, <2>2, <2>4, <3>3 DEF Shifts
      <3>5. RootExec(m)' BY <1>7, <2>1, <3>4
      <3>6. \A i \in DOMAIN ring' : RootExec(i)' /\ i # m =>
              \/ i < m /\ IsLaunch(ring'[i].call) /\ ring'[i].entry
              \/ i > m /\ ~IsLaunch(ring'[i].call)
        <4>1. ASSUME NEW i \in DOMAIN ring', RootExec(i)', i # m
              PROVE  \/ i < m /\ IsLaunch(ring'[i].call) /\ ring'[i].entry
                     \/ i > m /\ ~IsLaunch(ring'[i].call)
          <5>1. RootExec(i + 1) /\ i + 1 \in DOMAIN ring /\ i + 1 # k BY <1>7, <2>2, <3>3, <4>1
          <5>2. \/ i + 1 < k /\ IsLaunch(ring'[i].call) /\ ring'[i].entry
                \/ i + 1 > k /\ ~IsLaunch(ring'[i].call)
            BY <1>7, <2>1, <4>1, <5>1
          <5>3. QED BY <1>7, <2>2, <3>3, <4>1, <5>2
        <4>2. QED BY <4>1
      <3>7. QED BY <1>3, <1>4, <1>9, <2>1, <3>2, <3>4, <3>5, <3>6 DEF LaunchReturning, IsLaunch
    <2>5. QED BY <2>3, <2>4
  <1>10. CASE LaunchOver
    <2>1. ~initialExec' BY <1>5, <1>6, <1>10 DEF LaunchOver
    <2>2. QED BY <1>4, <1>7, <1>10, <2>1 DEF LaunchOver, IsLaunch
  <1>11. QED BY <1>2, <1>8, <1>9, <1>10 DEF LaunchInv

-----------------------------------------------------------------------------
LEMMA ExitFindsItsTask ==
  ASSUME IInv, RingInv, LaunchInv, ExecInv, NEW e, Shifts(e), Sound(e.tgid), ~Suppressed(e), ~e.entry
  PROVE  EntryTid(e) = e.call.task
  <1>0. RingTyped BY RingFacts
  <1>1. /\ e = ring[1] /\ 1 \in DOMAIN ring /\ EventInv(e) /\ e.call.task \in Task
        /\ \A k \in DOMAIN ring : ~(k < 1)
    BY <1>0 DEF Shifts, RingInv, RingTyped
  <1>2. CASE ~IsExec(e) BY <1>1, <1>2 DEF EntryTid, EventInv
  <1>3. CASE IsExec(e)
    <2>1. ExecAt(1, e.tgid) BY <1>1, <1>3, LaunchIsSuppressed DEF ExecAt
    <2>2. LastExec(e.call, e.tgid, 1) BY <1>1, <2>1 DEF ExecInv
    <2>3. execTid[e.tgid] = e.call.task BY <1>1, <2>2 DEF LastExec
    <2>4. QED BY <1>1, <1>3, <2>3, TaskAssumption DEF EntryTid
  <1>4. QED BY <1>2, <1>3

LEMMA PairEmits ==
  ASSUME IInv, CallsInv, PairInv, NEW t \in Task, NEW e, Enters(t, e) \/ Leaves(t, e) PROVE PairInv'
  <1>0. RingTyped BY RingFacts
  <1>1. Emits(t, e) BY DEF Enters, Leaves
  <1>2. /\ \A g : Sound(g)' => Sound(g)
        /\ Sound(group[t])' => Appends(t, e)
        /\ group' = group /\ pending' = pending /\ e.tgid = group[t]
    BY <1>1 DEF Emits, Sound
  <1>3. \A k \in DOMAIN ring' : \/ k \in DOMAIN ring /\ ring'[k] = ring[k]
                                \/ k = Len(ring) + 1 /\ Appends(t, e) /\ ring'[k] = e
    BY <1>0, <1>1 DEF Emits, Appends, RingTyped
  <1>4. /\ \A j \in DOMAIN ring : j \in DOMAIN ring' /\ ring'[j] = ring[j] /\ j < Len(ring') + 1
        /\ Len(ring') \in {Len(ring), Len(ring) + 1}
    BY <1>0, <1>1 DEF Emits, Appends, RingTyped
  <1>5. ASSUME NEW c, NEW k, NEW m, Entered(c, k), \A j \in DOMAIN ring : j < k => j < m
        PROVE  Entered(c, m)'
    <2>1. CASE \E j \in DOMAIN ring : j < k /\ EntryAt(j, c)
      <3>1. PICK j \in DOMAIN ring : j < k /\ EntryAt(j, c) BY <2>1
      <3>2. j \in DOMAIN ring' /\ j < m /\ EntryAt(j, c)' BY <1>4, <1>5, <3>1 DEF EntryAt
      <3>3. QED BY <3>2 DEF Entered
    <2>2. CASE pending[c.task] # Nothing /\ Known(pending[c.task]) = Known(c)
      BY <1>2, <2>2 DEF Entered
    <2>3. QED BY <1>5, <2>1, <2>2 DEF Entered
  <1>6. ASSUME NEW k \in DOMAIN ring', NEW c, c = ring'[k].call, Sound(ring[k].tgid)',
               ~ring'[k].entry, c.n > 0, ~IsLaunch(c)
        PROVE  Entered(c, k)'
    <2>1. CASE k \in DOMAIN ring /\ ring'[k] = ring[k]
      <3>1. Sound(ring[k].tgid) BY <1>2, <1>6, <2>1 DEF Sound
      <3>2. Entered(c, k) BY <1>6, <2>1, <3>1 DEF PairInv
      <3>3. QED BY <1>5, <3>2
    <2>2. CASE k = Len(ring) + 1 /\ Appends(t, e) /\ ring'[k] = e
      <3>1. c = call[t] /\ InCall(t) BY <1>6, <2>2 DEF Enters, Leaves
      <3>2. Sound(group[t]) BY <1>2, <1>6, <2>2 DEF Sound
      <3>3. Entered(c, Len(ring) + 1) BY <1>6, <2>2, <3>1, <3>2 DEF PairInv
      <3>4. QED BY <1>5, <2>2, <3>3
    <2>3. QED BY <1>3, <1>6, <2>1, <2>2
  <1>7. ASSUME NEW u \in Task, NEW c, c = call'[u], NEW m, m = Len(ring') + 1,
               Sound(group[u])', InCall(u)', c.n > 0, ~IsLaunch(c)
        PROVE  Entered(c, m)'
    <2>1. CASE u # t
      <3>1. InCall(u) /\ c = call[u] BY <1>1, <1>7, <2>1 DEF Emits, InCall
      <3>2. Entered(c, Len(ring) + 1) BY <1>2, <1>7, <3>1 DEF PairInv
      <3>3. QED BY <1>4, <1>5, <1>7, <3>2
    <2>2. CASE u = t
      <3>1. Enters(t, e) BY <1>7, <2>2 DEF Leaves, InCall
      <3>2. Appends(t, e) /\ c = e.call /\ e.entry BY <1>2, <1>7, <2>2, <3>1 DEF Enters
      <3>3. PICK j : j = Len(ring) + 1 OBVIOUS
      <3>4. j \in DOMAIN ring' /\ ring'[j] = e /\ j < m
        BY <1>0, <1>7, <3>2, <3>3 DEF Appends, RingTyped
      <3>5. EntryAt(j, c)' BY <3>2, <3>4 DEF EntryAt
      <3>6. QED BY <3>4, <3>5 DEF Entered
    <2>3. QED BY <2>1, <2>2
  <1>8. ASSUME NEW k \in DOMAIN ring', Sound(ring[k].tgid)', ~ring'[k].entry,
               ring'[k].call.n > 0, ~IsLaunch(ring[k].call)'
        PROVE  Entered(ring[k].call, k)'
    <2>1. PICK c : c = ring'[k].call OBVIOUS
    <2>2. Entered(c, k)' BY <1>6, <1>8, <2>1 DEF IsLaunch
    <2>3. QED BY <2>1, <2>2 DEF Entered, EntryAt
  <1>9. ASSUME NEW u \in Task, Sound(group[u])', InCall(u)', call'[u].n > 0, ~IsLaunch(call[u])'
        PROVE  Entered(call[u], Len(ring) + 1)'
    <2>1. PICK c : c = call'[u] OBVIOUS
    <2>2. PICK m : m = Len(ring') + 1 OBVIOUS
    <2>3. Entered(c, m)' BY <1>7, <1>9, <2>1, <2>2 DEF IsLaunch
    <2>4. QED BY <2>1, <2>2, <2>3 DEF Entered, EntryAt
  <1>10. QED BY <1>8, <1>9 DEF PairInv

(* The entry that is handed on is what its exit will find: no other event  *)
(* of the task comes between.                                              *)
LEMMA EnteredHandled ==
  ASSUME IInv, RingInv, OrderInv, LaunchInv, PairInv, ExecInv, NEW e, Handled(e), Shifts(e),
         NEW c, c.task \in Task, c.n \in Nat, Sound(group[c.task]), ~IsLaunch(c),
         NEW k \in Nat, k > 1, Entered(c, k),
         e.call.task = c.task => e.call.n < c.n \/ (e.call.n = c.n /\ e.entry)
  PROVE  Entered(c, k - 1)'
  <1>0. RingTyped BY RingFacts
  <1>1. /\ e = ring[1] /\ 1 \in DOMAIN ring /\ EventInv(e) /\ e.call.task \in Task /\ e.call.n \in Nat
        /\ e.tgid \in Task /\ e.tid \in Task
    BY <1>0 DEF Shifts, RingInv, RingTyped
  <1>2. pending \in [Task -> Buffer] BY DEF IInv, BackendTyped
  <1>3. CASE \E j \in DOMAIN ring : j < k /\ j > 1 /\ EntryAt(j, c)
    <2>1. PICK j \in DOMAIN ring : j < k /\ j > 1 /\ EntryAt(j, c) BY <1>3
    <2>2. PICK i : i = j - 1 OBVIOUS
    <2>3. i \in DOMAIN ring' /\ ring'[i] = ring[j] BY <2>1, <2>2 DEF Shifts
    <2>4. j \in Nat BY <1>0 DEF RingTyped
    <2>5. i < k - 1 /\ EntryAt(i, c)' BY <2>1, <2>2, <2>3, <2>4 DEF EntryAt
    <2>6. QED BY <2>3, <2>5 DEF Entered
  <1>4. CASE e.entry /\ Known(e.call) = Known(c)
    <2>1. e.call.task = c.task /\ e.call.n = c.n /\ e.call.op = c.op BY <1>4 DEF Known
    <2>2. e.tgid = group[c.task] BY <1>1, <2>1 DEF EventInv
    <2>3. ~Suppressed(e) BY <2>1, <2>2, LaunchIsSuppressed DEF IsLaunch
    <2>4. HandleEntry(e) BY <1>4, <2>3 DEF Handled, HandleLaunch, HandleExit
    <2>5. e.tid = c.task BY <1>1, <1>4, <2>1 DEF EventInv
    <2>6. pending'[c.task] = e.call BY <1>2, <2>4, <2>5 DEF HandleEntry
    <2>7. e.call # Nothing BY <1>1, TaskAssumption DEF Nothing, NoCall
    <2>8. QED BY <1>4, <2>6, <2>7 DEF Entered
  <1>5. CASE pending[c.task] # Nothing /\ Known(pending[c.task]) = Known(c)
             /\ ~(e.entry /\ Known(e.call) = Known(c))
    <2>1. pending[c.task].n = c.n BY <1>5 DEF Known
    <2>2. e.call.task = c.task => Follows(e, c.n, TRUE)
      BY <1>1, <1>5, <2>1 DEF OrderInv
    <2>3. e.call.task # c.task
      <3>1. ASSUME e.call.task = c.task PROVE FALSE BY <1>1, <2>2, <3>1 DEF Follows
      <3>2. QED BY <3>1
    <2>4. pending'[c.task] = pending[c.task]
      <3>1. CASE HandleLaunch(e) BY <3>1 DEF HandleLaunch
      <3>2. CASE HandleEntry(e)
        BY <1>1, <1>2, <2>3, <3>2 DEF HandleEntry, EventInv
      <3>3. CASE HandleExit(e)
        <4>1. EntryTid(e) # c.task
          <5>1. ASSUME EntryTid(e) = c.task PROVE FALSE
            <6>1. e.tgid = group[c.task] BY <5>1, EntryTidGroup
            <6>2. EntryTid(e) = e.call.task
              BY <3>3, <6>1, ExitFindsItsTask DEF HandleExit
            <6>3. QED BY <2>3, <5>1, <6>2
          <5>2. QED BY <5>1
        <4>2. QED BY <1>2, <3>3, <4>1 DEF HandleExit
      <3>4. QED BY <3>1, <3>2, <3>3 DEF Handled
    <2>5. QED BY <1>5, <2>4 DEF Entered
  <1>6. QED
    <2>1. CASE \E j \in DOMAIN ring : j < k /\ EntryAt(j, c)
      <3>1. PICK j \in DOMAIN ring : j < k /\ EntryAt(j, c) BY <2>1
      <3>2. j = 1 \/ j > 1 BY <1>0 DEF RingTyped
      <3>3. j = 1 => e.entry /\ Known(e.call) = Known(c) BY <1>1, <3>1 DEF EntryAt
      <3>4. QED BY <1>3, <1>4, <3>1, <3>2, <3>3
    <2>2. QED BY <1>4, <1>5, <2>1 DEF Entered

LEMMA PairHandled ==
  ASSUME IInv, CallsInv, RingInv, OrderInv, LaunchInv, PairInv, ExecInv, NEW e, Handled(e)
  PROVE  PairInv'
  <1>0. RingTyped BY RingFacts
  <1>1. Shifts(e) BY TakeShape DEF Handled, HandleLaunch, HandleEntry, HandleExit
  <1>2. /\ e = ring[1] /\ 1 \in DOMAIN ring /\ EventInv(e) /\ e.call.n \in Nat
        /\ e.entry \in BOOLEAN /\ Len(ring) \in Nat /\ Len(ring) >= 1 /\ Len(ring') = Len(ring) - 1
    <2>1. e = ring[1] /\ 1 \in DOMAIN ring /\ Len(ring') = Len(ring) - 1 BY <1>1 DEF Shifts
    <2>2. EventInv(e) BY <2>1 DEF RingInv
    <2>3. /\ e.call.n \in Nat /\ e.entry \in BOOLEAN
          /\ Len(ring) \in Nat /\ DOMAIN ring = 1 .. Len(ring)
      BY <1>0, <2>1 DEF RingTyped
    <2>4. QED BY <2>1, <2>2, <2>3
  <1>3. ASSUME NEW k \in DOMAIN ring', Sound(ring[k].tgid)', ~ring'[k].entry,
               ring'[k].call.n > 0, ~IsLaunch(ring[k].call)'
        PROVE  Entered(ring[k].call, k)'
    <2>1. PICK c : c = ring'[k].call OBVIOUS
    <2>2. PICK m : m = k + 1 OBVIOUS
    <2>3. m \in DOMAIN ring /\ ring'[k] = ring[m] /\ m \in Nat /\ m > 1 /\ k = m - 1
      BY <1>0, <1>1, <1>3, <2>2 DEF Shifts, RingTyped
    <2>4. c.task \in Task /\ c.n \in Nat /\ group[c.task] = ring[m].tgid /\ group[c.task] \in Task
      BY <1>0, <2>1, <2>3 DEF RingInv, EventInv, RingTyped
    <2>5. Sound(group[c.task])' BY <1>1, <1>3, <2>3, <2>4 DEF Sound, Shifts
    <2>6. Sound(group[c.task]) BY <1>1, <2>4, <2>5 DEF Shifts
    <2>7. ~IsLaunch(c) BY <1>3, <2>1 DEF IsLaunch
    <2>8. Entered(c, m) BY <1>3, <2>1, <2>3, <2>4, <2>6, <2>7 DEF PairInv
    <2>9. e.call.task = c.task => Follows(ring[m], e.call.n, e.entry)
      BY <1>2, <2>1, <2>3 DEF OrderInv
    <2>10. e.call.task = c.task => e.call.n < c.n \/ (e.call.n = c.n /\ e.entry)
      BY <2>1, <2>3, <2>9 DEF Follows
    <2>11. Entered(c, m - 1)' BY <1>1, <2>3, <2>4, <2>6, <2>7, <2>8, <2>10, EnteredHandled
    <2>12. QED BY <2>1, <2>3, <2>11 DEF Entered, EntryAt
  <1>4. ASSUME NEW u \in Task, Sound(group[u])', InCall(u)', call'[u].n > 0, ~IsLaunch(call[u])'
        PROVE  Entered(call[u], Len(ring) + 1)'
    <2>1. PICK c : c = call[u] /\ call'[u] = c BY <1>1 DEF Shifts
    <2>2. PICK m : m = Len(ring) + 1 OBVIOUS
    <2>3. m \in Nat /\ m > 1 /\ m - 1 = Len(ring') + 1 BY <1>2, <2>2
    <2>4. /\ c.task \in Task /\ c.n \in Nat /\ group[c.task] = group[u] /\ InCall(u)
          /\ c.n = calls[c.task] /\ group[u] \in Task
      <3>1. InCall(u) /\ status[u] # "none" BY <1>1, <1>4 DEF Shifts, InCall
      <3>2. group[u] \in Task BY <1>0, <3>1 DEF RingTyped, IInv, GroupsInv
      <3>3. QED BY <1>0, <2>1, <3>1, <3>2 DEF CallsInv, CallInv, RingTyped
    <2>5. Sound(group[u]) BY <1>1, <1>4, <2>4 DEF Shifts, Sound
    <2>6. ~IsLaunch(c) BY <1>4, <2>1 DEF IsLaunch
    <2>7. Entered(c, m) BY <1>4, <2>1, <2>2, <2>4, <2>5, <2>6 DEF PairInv
    <2>8. e.call.task = c.task => e.call.n < c.n \/ (e.call.n = c.n /\ e.entry)
      <3>1. e.call.task = c.task => e.call.n <= c.n BY <1>2, <2>4 DEF EventInv
      <3>2. e.call.task = c.task /\ e.call.n = c.n => e.entry
        BY <1>2, <2>1, <2>4 DEF OrderInv
      <3>3. QED BY <1>2, <2>4, <3>1, <3>2
    <2>9. Entered(c, m - 1)' BY <1>1, <2>3, <2>4, <2>5, <2>6, <2>7, <2>8, EnteredHandled
    <2>10. QED BY <2>1, <2>3, <2>9 DEF Entered, EntryAt
  <1>5. QED BY <1>3, <1>4 DEF PairInv

LEMMA PairQuiet == ASSUME IInv, CallsInv, RingInv, PairInv, Quiet PROVE PairInv'
  <1>0. RingTyped BY RingFacts
  <1>1. ring' = ring /\ pending' = pending BY DEF Quiet
  <1>2. ASSUME NEW c, NEW d, NEW k, Known(c) = Known(d), Entered(d, k) PROVE Entered(c, k)'
    <2>1. c.task = d.task BY <1>2 DEF Known
    <2>2. QED BY <1>1, <1>2, <2>1 DEF Entered, EntryAt
  <1>3. ASSUME NEW k \in DOMAIN ring', Sound(ring[k].tgid)', ~ring'[k].entry,
               ring'[k].call.n > 0, ~IsLaunch(ring[k].call)'
        PROVE  Entered(ring[k].call, k)'
    <2>1. PICK c : c = ring[k].call /\ ring'[k].call = c BY <1>1
    <2>2. EventInv(ring[k]) /\ c.task \in Task /\ ring[k].tgid \in Task
      BY <1>0, <1>1, <1>3, <2>1 DEF RingInv, RingTyped
    <2>3. Sound(group[c.task]) /\ group[c.task] = ring[k].tgid
      BY <1>1, <1>3, <2>1, <2>2 DEF EventInv, Quiet, Sound
    <2>4. Entered(c, k) BY <1>1, <1>3, <2>1, <2>3 DEF PairInv, IsLaunch
    <2>5. Entered(c, k)' BY <1>2, <2>4
    <2>6. QED BY <2>1, <2>5 DEF Entered, EntryAt
  <1>4. ASSUME NEW u \in Task, Sound(group[u])', InCall(u)', call'[u].n > 0, ~IsLaunch(call[u])'
        PROVE  Entered(call[u], Len(ring) + 1)'
    <2>1. PICK c : c = call'[u] OBVIOUS
    <2>2. call'[u].n # 0
      <3>1. CASE call'[u].n = 0 BY <1>4, <3>1
      <3>2. QED BY <3>1
    <2>3. PICK v \in Task : InCall(v) /\ Known(c) = Known(call[v]) /\ group'[u] = group[v]
      BY <1>4, <2>1, <2>2 DEF Quiet
    <2>4. c.task = call[v].task /\ c.n = call[v].n /\ c.op = call[v].op BY <2>3 DEF Known
    <2>5. group[v] \in Task
      BY <1>0, <2>3 DEF RingTyped, InCall, IInv, GroupsInv
    <2>6. Sound(group[v])
      <3>1. Sound(group[v])' BY <1>4, <2>3, <2>5 DEF Sound, Quiet
      <3>2. QED BY <2>3, <2>5, <3>1 DEF Quiet
    <2>7. Entered(call[v], Len(ring) + 1)
      BY <1>4, <2>1, <2>3, <2>4, <2>6 DEF PairInv, IsLaunch
    <2>8. PICK m : m = Len(ring) + 1 OBVIOUS
    <2>9. Entered(c, m)' BY <1>2, <2>3, <2>7, <2>8
    <2>10. QED BY <1>1, <2>1, <2>8, <2>9 DEF Entered, EntryAt
  <1>5. QED BY <1>3, <1>4 DEF PairInv

-----------------------------------------------------------------------------
LEMMA OpenEmits ==
  ASSUME IInv, CallsInv, RingInv, OpenInv, NEW t \in Task, NEW e, Enters(t, e) \/ Leaves(t, e)
  PROVE  OpenInv'
  <1>0. RingTyped BY RingFacts
  <1>1. Emits(t, e) BY DEF Enters, Leaves
  <1>2. /\ \A g : Sound(g)' => Sound(g)
        /\ Sound(group[t])' => Appends(t, e)
        /\ group' = group /\ pending' = pending /\ e.tgid = group[t]
        /\ \A u \in Task \ {t} : call'[u] = call[u] /\ status'[u] = status[u]
        /\ call[t].task \in Task
    BY <1>0, <1>1 DEF Emits, Sound, RingTyped
  <1>3. \A k \in DOMAIN ring' : \/ k \in DOMAIN ring /\ ring'[k] = ring[k]
                                \/ k = Len(ring) + 1 /\ Appends(t, e) /\ ring'[k] = e
    BY <1>0, <1>1 DEF Emits, Appends, RingTyped
  <1>4. \A j \in DOMAIN ring : j \in DOMAIN ring' /\ ring'[j] = ring[j]
    BY <1>1 DEF Emits, Appends
  <1>5. ASSUME NEW c, c.task \in Task, c.n \in Nat, c.n > 0, Sound(group[c.task])', Open(c)
        PROVE  Open(c)'
    <2>1. CASE c.op = "exit" BY <2>1 DEF Open
    <2>2. CASE \E j \in DOMAIN ring : ExitAt(j, c)
      <3>1. PICK j \in DOMAIN ring : ExitAt(j, c) BY <2>2
      <3>2. j \in DOMAIN ring' /\ ExitAt(j, c)' BY <1>4, <3>1 DEF ExitAt
      <3>3. QED BY <3>2 DEF Open
    <2>3. CASE c.task # t /\ Known(call[c.task]) = Known(c)
      BY <1>2, <1>5, <2>3 DEF Open
    <2>4. CASE c.task = t /\ Known(call[t]) = Known(c)
      <3>1. Leaves(t, e)
        <4>1. ~Enters(t, e)
          <5>1. ASSUME Enters(t, e) PROVE FALSE
            <6>1. call[t].n = 0 BY <5>1 DEF Enters, NoCall
            <6>2. call[t].n = c.n BY <2>4 DEF Known
            <6>3. QED BY <1>5, <6>1, <6>2
          <5>2. QED BY <5>1
        <4>2. QED BY <4>1
      <3>2. Appends(t, e) /\ e.call = call[t] /\ ~e.entry BY <1>2, <1>5, <2>4, <3>1 DEF Leaves
      <3>3. PICK j : j = Len(ring) + 1 OBVIOUS
      <3>4. j \in DOMAIN ring' /\ ring'[j] = e
        BY <1>0, <3>2, <3>3 DEF Appends, RingTyped
      <3>5. ExitAt(j, c)' BY <2>4, <3>2, <3>4 DEF ExitAt
      <3>6. QED BY <3>4, <3>5 DEF Open
    <2>5. QED BY <1>5, <2>1, <2>2, <2>3, <2>4 DEF Open
  <1>6. ASSUME NEW k \in DOMAIN ring', Sound(ring[k].tgid)', ring'[k].entry PROVE Open(ring[k].call)'
    <2>1. PICK c : c = ring'[k].call OBVIOUS
    <2>2. CASE k \in DOMAIN ring /\ ring'[k] = ring[k]
      <3>1. EventInv(ring[k]) /\ c.task \in Task /\ c.n \in Nat
        BY <1>0, <2>1, <2>2 DEF RingInv, RingTyped
      <3>2. Sound(group[c.task])' /\ c.n > 0
        BY <1>2, <1>6, <2>1, <2>2, <3>1 DEF EventInv, Sound
      <3>3. Open(c) BY <1>2, <1>6, <2>1, <2>2 DEF OpenInv, Sound
      <3>4. Open(c)' BY <1>5, <3>1, <3>2, <3>3
      <3>5. QED BY <2>1, <3>4 DEF Open, ExitAt
    <2>3. CASE ring'[k] = e
      <3>1. c.task = t /\ call'[t] = c BY <1>6, <2>1, <2>3 DEF Leaves, Enters
      <3>2. Open(c)' BY <3>1 DEF Open
      <3>3. QED BY <2>1, <3>2 DEF Open, ExitAt
    <2>4. QED BY <1>3, <2>2, <2>3
  <1>7. ASSUME NEW u \in Task, Sound(group[u])', pending'[u] # Nothing
        PROVE  Open(pending[u])' /\ ~IsLaunch(pending[u])'
    <2>1. PICK c : c = pending[u] /\ pending'[u] = c BY <1>2
    <2>2. PendingInv(u) /\ c.n \in Nat
      BY <1>0, <1>7, <2>1 DEF RingInv, RingTyped
    <2>3. c.task = u /\ c.n > 0 BY <1>7, <2>1, <2>2 DEF PendingInv
    <2>4. Sound(group[u]) BY <1>2, <1>7 DEF Sound
    <2>5. Open(c) /\ ~IsLaunch(c) BY <1>7, <2>1, <2>4 DEF OpenInv
    <2>6. Open(c)' BY <1>5, <1>7, <2>2, <2>3, <2>5 DEF Sound
    <2>7. QED BY <2>1, <2>5, <2>6 DEF Open, ExitAt, IsLaunch
  <1>8. ASSUME NEW u \in Task, Sound(group[u])', status'[u] = "dead", group'[u] = u
        PROVE  call'[u] = NoCall(u)' \/ call'[u].op = "exit"
    <2>1. u # t BY <1>8 DEF Enters, Leaves
    <2>2. Sound(group[u]) BY <1>2, <1>8 DEF Sound
    <2>3. QED BY <1>2, <1>8, <2>1, <2>2 DEF OpenInv, NoCall
  <1>9. QED BY <1>6, <1>7, <1>8 DEF OpenInv

LEMMA OpenHandled ==
  ASSUME IInv, CallsInv, RingInv, OrderInv, LaunchInv, OpenInv, ExecInv, NEW e, Handled(e)
  PROVE  OpenInv'
  <1>0. RingTyped BY RingFacts
  <1>1. Shifts(e) BY TakeShape DEF Handled, HandleLaunch, HandleEntry, HandleExit
  <1>2. /\ e = ring[1] /\ 1 \in DOMAIN ring /\ EventInv(e) /\ e.call.n \in Nat
        /\ e.call.task \in Task /\ e.tid \in Task /\ e.tgid \in Task
    <2>1. e = ring[1] /\ 1 \in DOMAIN ring BY <1>1 DEF Shifts
    <2>2. QED BY <1>0, <2>1 DEF RingTyped, RingInv
  <1>3. UNCHANGED << call, status, group >> BY <1>1 DEF Shifts
  <1>4. pending \in [Task -> Buffer] BY DEF IInv, BackendTyped
  <1>5. ASSUME NEW c, Open(c), ~ExitAt(1, c) PROVE Open(c)'
    <2>1. CASE \E j \in DOMAIN ring : ExitAt(j, c)
      <3>1. PICK j \in DOMAIN ring : ExitAt(j, c) BY <2>1
      <3>2. j > 1 BY <1>0, <1>5, <3>1 DEF RingTyped
      <3>3. PICK i : i = j - 1 OBVIOUS
      <3>4. i \in DOMAIN ring' /\ ring'[i] = ring[j] BY <1>1, <3>2, <3>3 DEF Shifts
      <3>5. ExitAt(i, c)' BY <3>1, <3>4 DEF ExitAt
      <3>6. QED BY <3>4, <3>5 DEF Open
    <2>2. QED BY <1>3, <1>5, <2>1 DEF Open
  <1>6. ASSUME NEW k \in DOMAIN ring', Sound(ring[k].tgid)', ring'[k].entry PROVE Open(ring[k].call)'
    <2>1. PICK c : c = ring'[k].call OBVIOUS
    <2>2. PICK m : m = k + 1 OBVIOUS
    <2>3. m \in DOMAIN ring /\ ring'[k] = ring[m] /\ 1 < m
      BY <1>0, <1>1, <1>6, <2>2 DEF Shifts, RingTyped
    <2>4. EventInv(ring[m]) /\ c.n \in Nat /\ ring[m].tgid \in Task /\ c.task \in Task
      BY <1>0, <2>1, <2>3 DEF RingInv, RingTyped
    <2>5. Sound(ring[m].tgid)
      <3>1. group[c.task] = ring[m].tgid BY <2>1, <2>3, <2>4 DEF EventInv
      <3>2. Sound(group[c.task])' BY <1>3, <1>6, <2>3, <3>1 DEF Sound
      <3>3. QED BY <1>1, <2>4, <3>1, <3>2 DEF Shifts
    <2>6. Open(c) BY <1>6, <2>1, <2>3, <2>5 DEF OpenInv
    <2>7. ~ExitAt(1, c)
      <3>1. ASSUME ExitAt(1, c) PROVE FALSE
        <4>1. e.call.task = c.task /\ e.call.n = c.n /\ ~e.entry BY <1>2, <3>1 DEF ExitAt, Known
        <4>2. Follows(ring[m], e.call.n, e.entry) BY <1>2, <2>1, <2>3, <4>1 DEF OrderInv
        <4>3. QED BY <1>2, <2>1, <2>3, <4>1, <4>2 DEF Follows
      <3>2. QED BY <3>1
    <2>8. Open(c)' BY <1>5, <2>6, <2>7
    <2>9. QED BY <2>1, <2>8 DEF Open, ExitAt
  <1>7. ASSUME NEW u \in Task, Sound(group[u])', pending'[u] # Nothing
        PROVE  Open(pending[u])' /\ ~IsLaunch(pending[u])'
    <2>0. group[u] \in Task
      <3>1. pending[u] # Nothing \/ u = e.tid
        BY <1>4, <1>7 DEF Handled, HandleLaunch, HandleEntry, HandleExit
      <3>2. pending[u] # Nothing => group[u] \in filter /\ filter \subseteq Task
        BY DEF RingInv, PendingInv, IInv, MapsTyped
      <3>3. QED BY <1>2, <3>1, <3>2 DEF EventInv
    <2>1. Sound(group[u]) BY <1>1, <1>3, <1>7, <2>0 DEF Shifts, Sound
    <2>2. CASE pending'[u] = pending[u]
      <3>1. PICK c : c = pending[u] /\ pending'[u] = c BY <2>2
      <3>2. Open(c) /\ ~IsLaunch(c) BY <1>7, <2>1, <3>1 DEF OpenInv
      <3>3. c.task = u BY <1>7, <3>1 DEF RingInv, PendingInv
      <3>4. ~ExitAt(1, c)
        <4>1. ASSUME ExitAt(1, c) PROVE FALSE
          <5>1. e.call.task = c.task /\ e.call.n = c.n /\ e.call.op = c.op /\ ~e.entry
            BY <1>2, <4>1 DEF ExitAt, Known
          <5>2. e.tgid = group[u] BY <1>2, <3>3, <5>1 DEF EventInv
          <5>3. ~Suppressed(e) BY <1>1, <2>1, <3>2, <5>1, <5>2, LaunchIsSuppressed DEF IsLaunch
          <5>4. HandleExit(e) BY <5>1, <5>3 DEF Handled, HandleLaunch, HandleEntry
          <5>5. EntryTid(e) = u
            BY <1>1, <2>1, <3>3, <5>1, <5>2, <5>3, ExitFindsItsTask
          <5>6. pending'[u] = Nothing BY <1>4, <5>4, <5>5 DEF HandleExit
          <5>7. QED BY <1>7, <5>6
        <4>2. QED BY <4>1
      <3>5. Open(c)' BY <1>5, <3>2, <3>4
      <3>6. QED BY <3>1, <3>2, <3>5 DEF Open, ExitAt, IsLaunch
    <2>3. CASE HandleEntry(e) /\ u = e.tid
      <3>1. PICK c : c = e.call OBVIOUS
      <3>2. pending'[u] = c /\ e.entry /\ ~Suppressed(e) BY <1>4, <2>3, <3>1 DEF HandleEntry
      <3>3. e.tgid = group[u] BY <1>2, <2>3 DEF EventInv
      <3>4. Open(c) BY <1>2, <2>1, <3>1, <3>2, <3>3 DEF OpenInv
      <3>5. ~IsLaunch(c) BY <1>1, <2>1, <3>1, <3>2, <3>3, LaunchIsSuppressed
      <3>6. ~ExitAt(1, c) BY <1>2, <3>2 DEF ExitAt
      <3>7. Open(c)' BY <1>5, <3>4, <3>6
      <3>8. QED BY <3>2, <3>5, <3>7 DEF Open, ExitAt, IsLaunch
    <2>4. pending'[u] = pending[u] \/ (HandleEntry(e) /\ u = e.tid)
      BY <1>4, <1>7 DEF Handled, HandleLaunch, HandleEntry, HandleExit
    <2>5. QED BY <2>2, <2>3, <2>4
  <1>8. ASSUME NEW u \in Task, Sound(group[u])', status'[u] = "dead", group'[u] = u
        PROVE  call'[u] = NoCall(u)' \/ call'[u].op = "exit"
    <2>1. Sound(group[u]) BY <1>1, <1>3, <1>8 DEF Shifts, Sound
    <2>2. QED BY <1>3, <1>8, <2>1 DEF OpenInv, NoCall
  <1>9. QED BY <1>6, <1>7, <1>8 DEF OpenInv

LEMMA OpenQuiet == ASSUME IInv, CallsInv, RingInv, OpenInv, Quiet PROVE OpenInv'
  <1>0. RingTyped BY RingFacts
  <1>1. ring' = ring /\ pending' = pending BY DEF Quiet
  <1>2. ASSUME NEW c, c.task \in Task, c.n \in Nat, c.n > 0, group[c.task] \in Task,
               Sound(group[c.task])', Open(c)
        PROVE  Open(c)'
    <2>1. CASE Known(call[c.task]) = Known(c)
      <3>1. call[c.task].n = c.n /\ call[c.task].op = c.op BY <2>1 DEF Known
      <3>2. \/ Known(call'[c.task]) = Known(call[c.task])
            \/ call[c.task].n = 0 \/ call[c.task].op = "exit"
        BY <1>2 DEF Quiet
      <3>3. QED BY <1>2, <2>1, <3>1, <3>2 DEF Open
    <2>2. QED BY <1>1, <1>2, <2>1 DEF Open, ExitAt
  <1>3. ASSUME NEW k \in DOMAIN ring', Sound(ring[k].tgid)', ring'[k].entry PROVE Open(ring[k].call)'
    <2>1. PICK c : c = ring[k].call /\ ring'[k].call = c BY <1>1
    <2>2. EventInv(ring[k]) /\ c.task \in Task /\ c.n \in Nat /\ ring[k].tgid \in Task
      BY <1>0, <1>1, <1>3, <2>1 DEF RingInv, RingTyped
    <2>3. group[c.task] = ring[k].tgid /\ c.n > 0 BY <1>1, <1>3, <2>1, <2>2 DEF EventInv
    <2>4. group'[c.task] = group[c.task] BY <2>2, <2>3 DEF Quiet
    <2>5. Sound(group[c.task])' BY <1>1, <1>3, <2>3, <2>4 DEF Sound
    <2>6. Sound(group[c.task]) BY <2>2, <2>3, <2>5 DEF Quiet
    <2>7. Open(c) BY <1>1, <1>3, <2>1, <2>3, <2>6 DEF OpenInv
    <2>8. Open(c)' BY <1>2, <2>2, <2>3, <2>5, <2>7
    <2>9. QED BY <2>1, <2>8 DEF Open, ExitAt
  <1>4. ASSUME NEW u \in Task, Sound(group[u])', pending'[u] # Nothing
        PROVE  Open(pending[u])' /\ ~IsLaunch(pending[u])'
    <2>1. PICK c : c = pending[u] /\ pending'[u] = c BY <1>1
    <2>2. PendingInv(u) /\ c.n \in Nat /\ filter \subseteq Task
      BY <1>0, <1>4, <2>1 DEF RingInv, RingTyped, IInv, MapsTyped
    <2>3. c.task = u /\ c.n > 0 /\ group[u] \in Task BY <1>4, <2>1, <2>2 DEF PendingInv
    <2>4. Sound(group[u]) BY <1>4, <2>3 DEF Quiet
    <2>5. Open(c) /\ ~IsLaunch(c) BY <1>4, <2>1, <2>4 DEF OpenInv
    <2>6. Open(c)' BY <1>2, <1>4, <2>2, <2>3, <2>5
    <2>7. QED BY <2>1, <2>5, <2>6 DEF Open, ExitAt, IsLaunch
  <1>5. ASSUME NEW u \in Task, Sound(group[u])', status'[u] = "dead", group'[u] = u
        PROVE  call'[u] = NoCall(u)' \/ call'[u].op = "exit"
    <2>1. Sound(u)' BY <1>5 DEF Sound
    <2>2. \/ status[u] = "dead" /\ group[u] = u /\ call'[u] = call[u]
          \/ call'[u] = NoCall(u) \/ call'[u].op = "exit"
      BY <1>5, <2>1 DEF Quiet
    <2>3. group[u] = u => Sound(group[u]) BY <1>5 DEF Quiet
    <2>4. QED BY <2>2, <2>3 DEF OpenInv, NoCall
  <1>6. QED BY <1>3, <1>4, <1>5 DEF OpenInv

-----------------------------------------------------------------------------
LEMMA ExecEmits ==
  ASSUME IInv, CallsInv, RingInv, ExecInv, NEW t \in Task, NEW e, Enters(t, e) \/ Leaves(t, e)
  PROVE  ExecInv'
  <1>0. RingTyped BY RingFacts
  <1>1. Emits(t, e) BY DEF Enters, Leaves
  <1>2. /\ \A g : Sound(g)' => Sound(g)
        /\ Sound(group[t])' => Appends(t, e)
        /\ group' = group /\ execTid' = execTid /\ e.tgid = group[t]
        /\ \A u \in Task \ {t} : call'[u] = call[u] /\ status'[u] = status[u]
    BY <1>1 DEF Emits, Sound
  <1>3. \A k \in DOMAIN ring' : \/ k \in DOMAIN ring /\ ring'[k] = ring[k]
                                \/ k = Len(ring) + 1 /\ Appends(t, e) /\ ring'[k] = e
    BY <1>0, <1>1 DEF Emits, Appends, RingTyped
  <1>4. \A j \in DOMAIN ring : /\ j \in DOMAIN ring' /\ ring'[j] = ring[j]
                               /\ j < Len(ring) + 1 /\ j < Len(ring') + 1
    BY <1>0, <1>1 DEF Emits, Appends, RingTyped
  <1>5. ASSUME NEW c, NEW g, NEW k, NEW m, LastExec(c, g, k), \A j \in DOMAIN ring : j < k => j < m,
               \A i \in DOMAIN ring' : i < m => (i \in DOMAIN ring /\ i < k) \/ ~ExecAt(i, g)'
        PROVE  LastExec(c, g, m)'
    <2>1. \A i \in DOMAIN ring : ExecAt(i, g)' <=> ExecAt(i, g) BY <1>4 DEF ExecAt
    <2>2. CASE \E j \in DOMAIN ring : /\ j < k /\ ExecAt(j, g) /\ EntryAt(j, c)
                                      /\ \A i \in DOMAIN ring : j < i /\ i < k => ~ExecAt(i, g)
      <3>1. PICK j \in DOMAIN ring : /\ j < k /\ ExecAt(j, g) /\ EntryAt(j, c)
                                     /\ \A i \in DOMAIN ring : j < i /\ i < k => ~ExecAt(i, g)
        BY <2>2
      <3>2. j \in DOMAIN ring' /\ j < m /\ ExecAt(j, g)' /\ EntryAt(j, c)'
        BY <1>4, <1>5, <2>1, <3>1 DEF EntryAt
      <3>3. \A i \in DOMAIN ring' : j < i /\ i < m => ~ExecAt(i, g)'
        BY <1>5, <2>1, <3>1
      <3>4. QED BY <3>2, <3>3 DEF LastExec
    <2>3. CASE (\A i \in DOMAIN ring : i < k => ~ExecAt(i, g)) /\ execTid[g] = c.task
      <3>1. \A i \in DOMAIN ring' : i < m => ~ExecAt(i, g)' BY <1>5, <2>1, <2>3
      <3>2. QED BY <1>2, <2>3, <3>1 DEF LastExec
    <2>4. QED BY <1>5, <2>2, <2>3 DEF LastExec
  <1>6. ASSUME Enters(t, e), IsExec(e), NEW u \in Task, u # t, group[u] = group[t], InCall(u),
               call[u].op = "execve", Sound(group[t])'
        PROVE  FALSE
    <2>1. Alive(u) /\ u \in Threads(group[t]) \ {t} BY <1>6 DEF InCall, Alive, Threads
    <2>2. group[t] \in rivals' BY <1>6, <2>1 DEF Enters
    <2>3. QED BY <1>2, <1>6, <2>2 DEF Sound
  <1>7. ASSUME NEW k \in DOMAIN ring', NEW c, c = ring'[k].call, NEW g, g = ring'[k].tgid,
               Sound(g)', ExecAt(k, g)', ~ring'[k].entry
        PROVE  LastExec(c, g, k)'
    <2>1. CASE k \in DOMAIN ring /\ ring'[k] = ring[k]
      <3>1. Sound(g) /\ ExecAt(k, g) BY <1>2, <1>7, <2>1 DEF ExecAt
      <3>2. LastExec(c, g, k) BY <1>7, <2>1, <3>1 DEF ExecInv
      <3>3. \A i \in DOMAIN ring' : i < k => i \in DOMAIN ring
        BY <1>0, <1>3, <2>1 DEF RingTyped
      <3>4. QED BY <1>5, <3>2, <3>3
    <2>2. CASE k = Len(ring) + 1 /\ ring'[k] = e
      <3>1. Leaves(t, e) BY <1>7, <2>2 DEF Enters
      <3>2. c = call[t] /\ InCall(t) /\ g = group[t] BY <1>2, <1>7, <2>2, <3>1 DEF Leaves
      <3>3. c.op = "execve" /\ ~IsLaunch(c) BY <1>7, <2>2 DEF ExecAt, IsExec, IsLaunch
      <3>4. Sound(g) BY <1>2, <1>7
      <3>5. LastExec(c, g, k) BY <2>2, <3>2, <3>3, <3>4 DEF ExecInv
      <3>6. \A i \in DOMAIN ring' : i < k => i \in DOMAIN ring
        BY <1>0, <1>3, <2>2 DEF RingTyped
      <3>7. QED BY <1>5, <3>5, <3>6
    <2>3. QED BY <1>3, <2>1, <2>2
  <1>8. ASSUME NEW u \in Task, NEW c, c = call'[u], NEW g, g = group[u], NEW m, m = Len(ring') + 1,
               Sound(g)', InCall(u)', c.op = "execve", ~IsLaunch(c)
        PROVE  LastExec(c, g, m)'
    <2>1. CASE u = t
      <3>1. Enters(t, e) BY <1>8, <2>1 DEF Leaves, InCall
      <3>2. Appends(t, e) /\ c = e.call /\ e.entry BY <1>2, <1>8, <2>1, <3>1 DEF Enters
      <3>3. PICK j : j = Len(ring) + 1 OBVIOUS
      <3>4. j \in DOMAIN ring' /\ ring'[j] = e /\ j < m /\ m = j + 1 /\ j \in Nat
            /\ \A i \in DOMAIN ring' : i <= j /\ i \in Nat
        BY <1>0, <1>8, <3>2, <3>3 DEF Appends, RingTyped
      <3>5. EntryAt(j, c)' /\ ExecAt(j, g)'
        BY <1>2, <1>8, <2>1, <3>2, <3>4 DEF EntryAt, ExecAt, IsExec, IsLaunch
      <3>6. \A i \in DOMAIN ring' : j < i /\ i < m => ~ExecAt(i, g)' BY <3>4
      <3>7. QED BY <3>4, <3>5, <3>6 DEF LastExec
    <2>2. CASE u # t
      <3>1. InCall(u) /\ c = call[u] BY <1>2, <1>8, <2>2 DEF InCall
      <3>2. PICK n : n = Len(ring) + 1 OBVIOUS
      <3>3. LastExec(c, g, n) BY <1>2, <1>8, <3>1, <3>2 DEF ExecInv
      <3>4. ASSUME NEW i \in DOMAIN ring', ring'[i] = e, ExecAt(i, g)' PROVE FALSE
        <4>1. IsExec(e) /\ group[u] = group[t] BY <1>2, <1>8, <3>4 DEF ExecAt
        <4>2. CASE Enters(t, e)
          <5>1. Sound(group[t])' BY <1>2, <1>8, <4>1 DEF Sound
          <5>2. QED BY <1>6, <1>8, <2>2, <3>1, <4>1, <4>2, <5>1
        <4>3. CASE Leaves(t, e)
          <5>1. InCall(t) /\ call[t].op = "execve" BY <4>1, <4>3 DEF Leaves, IsExec
          <5>2. QED BY <1>2, <1>8, <2>2, <3>1, <4>1, <5>1 DEF ExecInv
        <4>4. QED BY <4>2, <4>3
      <3>5. \A i \in DOMAIN ring' : (i \in DOMAIN ring /\ i < n) \/ ~ExecAt(i, g)'
        BY <1>3, <1>4, <3>2, <3>4
      <3>6. \A j \in DOMAIN ring : j < m BY <1>4, <1>8
      <3>7. QED BY <1>5, <3>3, <3>5, <3>6
    <2>3. QED BY <2>1, <2>2
  <1>9. ASSUME NEW u \in Task, NEW v \in Task, Sound(group[u])', group[v] = group[u], v # u,
               InCall(u)', InCall(v)', call'[u].op = "execve", call'[v].op = "execve"
        PROVE  FALSE
    <2>1. CASE u # t /\ v # t
      <3>1. InCall(u) /\ InCall(v) /\ call[u].op = "execve" /\ call[v].op = "execve"
        BY <1>2, <1>9, <2>1 DEF InCall
      <3>2. Sound(group[u]) BY <1>2, <1>9 DEF Sound
      <3>3. QED BY <1>9, <3>1, <3>2 DEF ExecInv
    <2>2. CASE u = t \/ v = t
      <3>1. Enters(t, e) /\ IsExec(e) BY <1>9, <2>2 DEF Leaves, InCall, Enters, IsExec
      <3>2. PICK w \in Task : w # t /\ group[w] = group[t] /\ InCall(w)' /\ call'[w].op = "execve"
        BY <1>9, <2>2
      <3>3. InCall(w) /\ call[w].op = "execve" BY <1>2, <3>2 DEF InCall
      <3>4. Sound(group[t])' BY <1>2, <1>9, <2>2 DEF Sound
      <3>5. QED BY <1>6, <3>1, <3>2, <3>3, <3>4
    <2>3. QED BY <2>1, <2>2
  <1>10. ASSUME NEW k \in DOMAIN ring', Sound(ring[k].tgid)', ExecAt(k, ring[k].tgid)', ~ring'[k].entry
         PROVE  LastExec(ring[k].call, ring[k].tgid, k)'
    <2>1. PICK c : c = ring'[k].call OBVIOUS
    <2>2. PICK g : g = ring'[k].tgid OBVIOUS
    <2>3. Sound(g)' /\ ExecAt(k, g)' BY <1>10, <2>2 DEF Sound, ExecAt
    <2>4. LastExec(c, g, k)' BY <1>7, <1>10, <2>1, <2>2, <2>3
    <2>5. QED BY <2>1, <2>2, <2>4 DEF LastExec, EntryAt, ExecAt
  <1>11. ASSUME NEW u \in Task, Sound(group[u])', InCall(u)', call'[u].op = "execve", ~IsLaunch(call[u])'
         PROVE  LastExec(call[u], group[u], Len(ring) + 1)'
    <2>1. PICK c : c = call'[u] OBVIOUS
    <2>2. PICK g : g = group[u] /\ g = group'[u] BY <1>2
    <2>3. PICK m : m = Len(ring') + 1 OBVIOUS
    <2>4. Sound(g)' /\ c.op = "execve" /\ ~IsLaunch(c) BY <1>11, <2>1, <2>2 DEF Sound, IsLaunch
    <2>5. LastExec(c, g, m)' BY <1>8, <1>11, <2>1, <2>2, <2>3, <2>4
    <2>6. QED BY <2>1, <2>2, <2>3, <2>5 DEF LastExec, EntryAt, ExecAt
  <1>12. ASSUME NEW u \in Task, NEW v \in Task, Sound(group[u])', group'[v] = group'[u], v # u,
                InCall(u)', InCall(v)'
         PROVE  ~(call'[u].op = "execve" /\ call'[v].op = "execve")
    BY <1>2, <1>9, <1>12
  <1>13. QED BY <1>10, <1>11, <1>12 DEF ExecInv

LEMMA ExecHandled ==
  ASSUME IInv, CallsInv, RingInv, LaunchInv, ExecInv, NEW e, Handled(e) PROVE ExecInv'
  <1>0. RingTyped BY RingFacts
  <1>1. Shifts(e) BY TakeShape DEF Handled, HandleLaunch, HandleEntry, HandleExit
  <1>2. /\ e = ring[1] /\ 1 \in DOMAIN ring /\ EventInv(e) /\ e.tgid \in Task
        /\ e.entry \in BOOLEAN /\ Len(ring) \in Nat /\ Len(ring) >= 1 /\ Len(ring') = Len(ring) - 1
    <2>1. e = ring[1] /\ 1 \in DOMAIN ring /\ Len(ring') = Len(ring) - 1 BY <1>1 DEF Shifts
    <2>2. EventInv(e) BY <2>1 DEF RingInv
    <2>3. /\ e.tgid \in Task /\ e.entry \in BOOLEAN
          /\ Len(ring) \in Nat /\ DOMAIN ring = 1 .. Len(ring)
      BY <1>0, <2>1 DEF RingTyped
    <2>4. QED BY <2>1, <2>2, <2>3
  <1>3. UNCHANGED << call, status, group >> BY <1>1 DEF Shifts
  <1>4. execTid \in [Task -> Task \cup {NoTask}] BY DEF IInv, BackendTyped
  <1>5. ASSUME NEW i \in DOMAIN ring'
        PROVE  /\ i \in Nat /\ i > 0 /\ i + 1 \in DOMAIN ring /\ ring'[i] = ring[i + 1]
               /\ \A g : ExecAt(i, g)' <=> ExecAt(i + 1, g)
    <2>1. i \in Nat /\ i > 0 /\ i + 1 \in DOMAIN ring /\ ring'[i] = ring[i + 1]
      BY <1>0, <1>1, <1>5 DEF Shifts, RingTyped
    <2>2. QED BY <2>1 DEF ExecAt
  <1>6. ASSUME NEW c, NEW g \in Task, NEW k \in Nat, k > 1, Sound(g), LastExec(c, g, k)
        PROVE  LastExec(c, g, k - 1)'
    <2>1. CASE \E j \in DOMAIN ring : /\ j < k /\ ExecAt(j, g) /\ EntryAt(j, c)
                                      /\ \A i \in DOMAIN ring : j < i /\ i < k => ~ExecAt(i, g)
      <3>1. PICK j \in DOMAIN ring : /\ j < k /\ ExecAt(j, g) /\ EntryAt(j, c)
                                     /\ \A i \in DOMAIN ring : j < i /\ i < k => ~ExecAt(i, g)
        BY <2>1
      <3>2. j \in Nat /\ j > 0 BY <1>0 DEF RingTyped
      <3>3. CASE j > 1
        <4>1. PICK m : m = j - 1 OBVIOUS
        <4>2. m \in DOMAIN ring' /\ ring'[m] = ring[j] /\ m < k - 1 /\ m + 1 = j
          BY <1>1, <3>1, <3>2, <3>3, <4>1 DEF Shifts
        <4>3. ExecAt(m, g)' /\ EntryAt(m, c)' BY <3>1, <4>2 DEF ExecAt, EntryAt
        <4>4. \A i \in DOMAIN ring' : m < i /\ i < k - 1 => ~ExecAt(i, g)'
          BY <1>5, <3>1, <3>2, <4>1
        <4>5. QED BY <4>2, <4>3, <4>4 DEF LastExec
      <3>4. CASE j = 1
        <4>1. /\ e.tgid = g /\ IsExec(e) /\ ~IsLaunch(e.call) /\ e.entry
              /\ e.call.task = c.task
          BY <1>2, <3>1, <3>4 DEF ExecAt, EntryAt, Known
        <4>2. ~Suppressed(e) BY <1>1, <1>6, <4>1, LaunchIsSuppressed
        <4>3. HandleEntry(e) BY <4>1, <4>2 DEF Handled, HandleLaunch, HandleExit
        <4>4. execTid'[g] = e.tid BY <1>4, <4>1, <4>3 DEF HandleEntry
        <4>5. e.tid = c.task BY <1>2, <4>1 DEF EventInv
        <4>6. \A i \in DOMAIN ring' : i < k - 1 => ~ExecAt(i, g)'
          BY <1>5, <3>1, <3>4
        <4>7. QED BY <4>4, <4>5, <4>6 DEF LastExec
      <3>5. QED BY <3>2, <3>3, <3>4
    <2>2. CASE (\A i \in DOMAIN ring : i < k => ~ExecAt(i, g)) /\ execTid[g] = c.task
      <3>1. ~ExecAt(1, g) BY <1>2, <1>6, <2>2
      <3>2. execTid'[g] = execTid[g]
        <4>1. CASE HandleLaunch(e) BY <4>1 DEF HandleLaunch
        <4>2. CASE ~Suppressed(e) /\ (HandleEntry(e) \/ HandleExit(e))
          <5>1. ~(IsExec(e) /\ e.tgid = g)
            <6>1. ASSUME IsExec(e), e.tgid = g PROVE FALSE
              <7>1. IsLaunch(e.call) BY <1>2, <3>1, <6>1 DEF ExecAt
              <7>2. QED BY <1>1, <1>6, <4>2, <6>1, <7>1, LaunchIsSuppressed
            <6>2. QED BY <6>1
          <5>2. QED BY <1>4, <4>2, <5>1 DEF HandleEntry, HandleExit
        <4>3. QED BY <4>1, <4>2 DEF Handled, HandleEntry, HandleExit
      <3>3. \A i \in DOMAIN ring' : i < k - 1 => ~ExecAt(i, g)' BY <1>5, <1>6, <2>2
      <3>4. QED BY <2>2, <3>2, <3>3 DEF LastExec
    <2>3. QED BY <1>6, <2>1, <2>2 DEF LastExec
  <1>7. ASSUME NEW k \in DOMAIN ring', Sound(ring[k].tgid)', ExecAt(k, ring[k].tgid)', ~ring'[k].entry
        PROVE  LastExec(ring[k].call, ring[k].tgid, k)'
    <2>1. PICK m : m = k + 1 OBVIOUS
    <2>2. m \in DOMAIN ring /\ ring'[k] = ring[m] /\ m \in Nat /\ m > 1 /\ k = m - 1
      BY <1>5, <2>1
    <2>3. PICK c : c = ring[m].call /\ c = ring'[k].call BY <2>2
    <2>4. PICK g : g = ring[m].tgid /\ g = ring'[k].tgid BY <2>2
    <2>5. g \in Task /\ group[ring[m].tid] = g /\ ring[m].tid \in Task
      BY <1>0, <2>2, <2>4 DEF RingInv, EventInv, RingTyped
    <2>6. Sound(g)
      <3>1. PICK t \in Task : t = ring[m].tid BY <2>5
      <3>2. Sound(group[t])' BY <1>3, <1>7, <2>4, <2>5, <3>1 DEF Sound
      <3>3. QED BY <1>1, <2>5, <3>1, <3>2 DEF Shifts
    <2>7. ExecAt(m, g)
      <3>1. ExecAt(k, g)' BY <1>7, <2>4 DEF ExecAt
      <3>2. QED BY <1>5, <2>1, <3>1
    <2>8. LastExec(c, g, m) BY <1>7, <2>2, <2>3, <2>4, <2>6, <2>7 DEF ExecInv
    <2>9. LastExec(c, g, m - 1)' BY <1>6, <2>2, <2>5, <2>6, <2>8
    <2>10. QED BY <2>2, <2>3, <2>4, <2>9 DEF LastExec, EntryAt, ExecAt
  <1>8. ASSUME NEW u \in Task, Sound(group[u])', InCall(u)', call'[u].op = "execve", ~IsLaunch(call[u])'
        PROVE  LastExec(call[u], group[u], Len(ring) + 1)'
    <2>1. PICK c : c = call[u] /\ call'[u] = c BY <1>3
    <2>2. PICK m : m = Len(ring) + 1 OBVIOUS
    <2>3. m \in Nat /\ m > 1 /\ m - 1 = Len(ring') + 1 BY <1>2, <2>2
    <2>4. InCall(u) /\ group[u] \in Task
      BY <1>0, <1>3, <1>8 DEF InCall, IInv, GroupsInv, RingTyped
    <2>5. PICK g \in Task : g = group[u] /\ g = group'[u] BY <1>3, <2>4
    <2>6. Sound(g) BY <1>1, <1>3, <1>8, <2>5 DEF Shifts, Sound
    <2>7. LastExec(c, g, m) BY <1>3, <1>8, <2>1, <2>2, <2>4, <2>5, <2>6 DEF ExecInv, IsLaunch
    <2>8. LastExec(c, g, m - 1)' BY <1>6, <2>3, <2>6, <2>7
    <2>9. QED BY <2>1, <2>3, <2>5, <2>8 DEF LastExec, EntryAt, ExecAt
  <1>9. ASSUME NEW u \in Task, NEW v \in Task, Sound(group[u])', group'[v] = group'[u], v # u,
               InCall(u)', InCall(v)'
        PROVE  ~(call'[u].op = "execve" /\ call'[v].op = "execve")
    <2>1. InCall(u) /\ InCall(v) /\ group[u] \in Task
      BY <1>0, <1>3, <1>9 DEF InCall, IInv, GroupsInv, RingTyped
    <2>2. Sound(group[u]) BY <1>1, <1>9, <2>1 DEF Shifts
    <2>3. QED BY <1>3, <1>9, <2>1, <2>2 DEF ExecInv
  <1>10. QED BY <1>7, <1>8, <1>9 DEF ExecInv

LEMMA ExecQuiet == ASSUME IInv, CallsInv, RingInv, ExecInv, Quiet PROVE ExecInv'
  <1>0. RingTyped BY RingFacts
  <1>1. ring' = ring /\ execTid' = execTid BY DEF Quiet
  <1>2. ASSUME NEW c, NEW d, NEW g, NEW k, Known(c) = Known(d), LastExec(d, g, k) PROVE LastExec(c, g, k)'
    <2>1. c.task = d.task BY <1>2 DEF Known
    <2>2. \A i : ExecAt(i, g)' <=> ExecAt(i, g) BY <1>1 DEF ExecAt
    <2>3. \A i : EntryAt(i, d) => EntryAt(i, c)' BY <1>1, <1>2 DEF EntryAt
    <2>4. QED BY <1>1, <1>2, <2>1, <2>2, <2>3 DEF LastExec
  <1>3. ASSUME NEW k \in DOMAIN ring', Sound(ring[k].tgid)', ExecAt(k, ring[k].tgid)', ~ring'[k].entry
        PROVE  LastExec(ring[k].call, ring[k].tgid, k)'
    <2>1. PICK c : c = ring[k].call /\ ring'[k].call = c BY <1>1
    <2>2. PICK g : g = ring[k].tgid /\ ring'[k].tgid = g BY <1>1
    <2>3. EventInv(ring[k]) /\ ring[k].tid \in Task /\ g \in Task
      BY <1>0, <1>1, <1>3, <2>2 DEF RingInv, RingTyped
    <2>4. group[ring[k].tid] = g /\ Sound(group[ring[k].tid])'
      BY <1>3, <2>2, <2>3 DEF EventInv, Quiet, Sound
    <2>5. Sound(g) BY <2>3, <2>4 DEF Quiet
    <2>6. ExecAt(k, g) BY <1>1, <1>3, <2>2 DEF ExecAt
    <2>7. LastExec(c, g, k) BY <1>1, <1>3, <2>1, <2>2, <2>5, <2>6 DEF ExecInv
    <2>8. LastExec(c, g, k)' BY <1>2, <2>7
    <2>9. QED BY <2>1, <2>2, <2>8 DEF LastExec, EntryAt, ExecAt
  <1>4. ASSUME NEW u \in Task, Sound(group[u])', InCall(u)', call'[u].op = "execve", ~IsLaunch(call[u])'
        PROVE  LastExec(call[u], group[u], Len(ring) + 1)'
    <2>1. PICK c : c = call'[u] OBVIOUS
    <2>2. PICK v \in Task : InCall(v) /\ Known(c) = Known(call[v]) /\ group'[u] = group[v]
      BY <1>4, <2>1 DEF Quiet
    <2>3. c.task = call[v].task /\ c.n = call[v].n /\ c.op = call[v].op BY <2>2 DEF Known
    <2>4. group[v] \in Task BY <1>0, <2>2 DEF RingTyped, InCall, IInv, GroupsInv
    <2>5. PICK g : g = group[v] /\ g = group'[u] BY <2>2
    <2>6. Sound(g)
      <3>1. Sound(group[v])' BY <1>4, <2>2, <2>4 DEF Sound, Quiet
      <3>2. QED BY <2>2, <2>4, <2>5, <3>1 DEF Quiet
    <2>7. PICK m : m = Len(ring) + 1 /\ m = Len(ring') + 1 BY <1>1
    <2>8. call[v].op = "execve" /\ ~IsLaunch(call[v]) BY <1>4, <2>1, <2>3 DEF IsLaunch
    <2>9. LastExec(call[v], g, m) BY <2>2, <2>5, <2>6, <2>7, <2>8 DEF ExecInv
    <2>10. LastExec(c, g, m)' BY <1>2, <2>2, <2>9
    <2>11. QED BY <2>1, <2>5, <2>7, <2>10 DEF LastExec, EntryAt, ExecAt
  <1>5. ASSUME NEW u \in Task, NEW v \in Task, Sound(group[u])', group'[v] = group'[u], v # u,
               InCall(u)', InCall(v)'
        PROVE  ~(call'[u].op = "execve" /\ call'[v].op = "execve")
    <2>1. ASSUME call'[u].op = "execve", call'[v].op = "execve" PROVE FALSE
      <3>1. /\ InCall(u) /\ InCall(v) /\ group[u] = group[v] /\ group'[u] = group[u]
            /\ call[u].op = "execve" /\ call[v].op = "execve"
        BY <1>5, <2>1 DEF Quiet
      <3>2. group[u] \in Task BY <1>0, <3>1 DEF RingTyped, InCall, IInv, GroupsInv
      <3>3. Sound(group[u]) BY <1>5, <3>2 DEF Quiet
      <3>4. QED BY <1>5, <3>1, <3>3 DEF ExecInv
    <2>2. QED BY <2>1
  <1>6. QED BY <1>3, <1>4, <1>5 DEF ExecInv

-----------------------------------------------------------------------------
LEMMA MispairKept ==
  ASSUME IInv, CallsInv, MispairInv, mispaired' = mispaired, lost \subseteq lost', rivals \subseteq rivals',
         \A u \in Task : group[u] \in Task => group'[u] = group[u]
  PROVE  MispairInv'
  <1>1. lost \subseteq Task /\ rivals \subseteq Task BY DEF IInv, MapsTyped, CallsInv
  <1>2. QED BY <1>1 DEF MispairInv

LEMMA MispairHandled ==
  ASSUME IInv, CallsInv, RingInv, OrderInv, LaunchInv, PairInv, ExecInv, MispairInv, NEW e, Handled(e)
  PROVE  MispairInv'
  <1>0. RingTyped BY RingFacts
  <1>1. Shifts(e) BY TakeShape DEF Handled, HandleLaunch, HandleEntry, HandleExit
  <1>2. /\ e = ring[1] /\ 1 \in DOMAIN ring /\ EventInv(e)
        /\ e.call.task \in Task /\ e.call.n \in Nat /\ e.tgid \in Task
        /\ \A k \in DOMAIN ring : ~(k < 1)
    BY <1>0, <1>1 DEF Shifts, RingInv, RingTyped
  <1>3. UNCHANGED << group, lost, rivals >> BY <1>1 DEF Shifts
  <1>4. CASE mispaired' = mispaired BY <1>3, <1>4, MispairKept
  <1>5. CASE mispaired' # mispaired
    <2>1. HandleExit(e) /\ ~Suppressed(e) /\ ~e.entry
      BY <1>5 DEF Handled, HandleLaunch, HandleEntry, HandleExit
    <2>2. PICK T : T = EntryTid(e) OBVIOUS
    <2>3. /\ pending[T] # Nothing /\ Known(pending[T]) # Known(e.call)
          /\ mispaired' = mispaired \cup {<< Known(pending[T]), Known(e.call) >>}
      BY <1>5, <2>1, <2>2 DEF HandleExit
    <2>4. ~Sound(e.tgid)
      <3>1. ASSUME Sound(e.tgid) PROVE FALSE
        <4>1. T = e.call.task BY <1>1, <2>1, <2>2, <3>1, ExitFindsItsTask
        <4>2. Follows(e, pending[T].n, TRUE) BY <1>2, <2>3, <4>1 DEF OrderInv
        <4>3. pending[T].n > 0 /\ pending[T].n \in Nat
          BY <1>0, <1>2, <2>3, <4>1 DEF RingInv, PendingInv, RingTyped
        <4>4. e.call.n > 0 BY <1>2, <4>2, <4>3 DEF Follows
        <4>5. ~IsLaunch(e.call) BY <1>1, <2>1, <3>1, LaunchIsSuppressed
        <4>6. Entered(e.call, 1) BY <1>2, <2>1, <3>1, <4>4, <4>5 DEF PairInv
        <4>7. QED BY <1>2, <2>3, <4>1, <4>6 DEF Entered
      <3>2. QED BY <3>1
    <2>5. e.tgid \in lost \cup rivals BY <1>2, <2>4 DEF Sound, EventInv
    <2>6. Known(e.call).task = e.call.task /\ group[e.call.task] = e.tgid
      BY <1>2 DEF Known, EventInv
    <2>7. QED BY <1>2, <1>3, <2>3, <2>5, <2>6 DEF MispairInv
  <1>6. QED BY <1>4, <1>5

-----------------------------------------------------------------------------
LEMMA QuietSame ==
  ASSUME UNCHANGED << ring, pending, execTid, mispaired, calls, rivals, filter, lost, group, status, call >>
  PROVE  Quiet
  <1>1. \A g : Sound(g)' => Sound(g) BY DEF Sound
  <1>2. \A u \in Task : InCall(u)' => InCall(u) BY DEF InCall
  <1>3. \A u \in Task : group[u] \in Task => group'[u] = group[u] /\ (Sound(group[u])' => Sound(group[u]))
    BY DEF Sound
  <1>4. QED BY <1>2, <1>3 DEF Quiet

LEMMA QuietSpawn == ASSUME IInv, CallsInv, NEW t \in Task, Spawn(t) PROVE Quiet
  <1>1. PICK c \in Task :
          /\ status[c] = "none" /\ status' = [status EXCEPT ![c] = "called"]
          /\ group' = [group EXCEPT ![c] = IF call[t].op = "fork" THEN c ELSE group[t]]
          /\ call' = [call EXCEPT ![t].made = c]
          /\ TraceFork(t, c)
    BY DEF Spawn
  <1>2. /\ status[t] = "called" /\ call[t].op \in {"fork", "clone"}
        /\ UNCHANGED << ring, pending, execTid, mispaired, calls, rivals, lost >>
    BY DEF Spawn, backend, seen
  <1>3. /\ group \in [Task -> Task \cup {NoTask}] /\ status \in [Task -> Status]
        /\ call \in [Task -> Call] /\ GroupsInv /\ NoTask \notin Task
    BY TaskAssumption DEF IInv, KernelTyped
  <1>4. /\ c # t /\ \A u \in Task \ {c} : status'[u] = status[u] /\ group'[u] = group[u]
        /\ status'[c] = "called" /\ call'[c] = NoCall(c) /\ group[c] = NoTask
        /\ \A u \in Task : Known(call'[u]) = Known(call[u])
        /\ \A u \in Task \ {t} : call'[u] = call[u]
        /\ NoCall(c).task = c /\ NoCall(c).n = 0 /\ NoCall(c).op = "other"
    BY <1>1, <1>2, <1>3 DEF Call, GroupsInv, NoCall, Known
  <1>5. filter \subseteq filter' /\ filter' \subseteq filter \cup {c} BY <1>1 DEF TraceFork
  <1>6. \A u \in Task : group[u] \in Task => group'[u] = group[u] /\ group[u] # c
    BY <1>3, <1>4 DEF GroupsInv
  <1>7. \A u \in Task : group[u] \in Task => (Sound(group[u])' => Sound(group[u]))
    BY <1>2, <1>5, <1>6 DEF Sound
  <1>8. \A u \in Task \ {c} : InCall(u)' => InCall(u) BY <1>4 DEF InCall
  <1>9. ASSUME NEW u \in Task, InCall(u)'
        PROVE  \/ \E v \in Task : InCall(v) /\ Known(call'[u]) = Known(call[v]) /\ group'[u] = group[v]
               \/ call'[u].n = 0 /\ call'[u].op # "execve" /\ call'[u].task \in Task
                  /\ group[call'[u].task] = NoTask
    <2>1. CASE u = c BY <1>4, <2>1
    <2>2. CASE u # c BY <1>4, <1>8, <1>9, <2>2
    <2>3. QED BY <2>1, <2>2
  <1>10. ASSUME NEW u \in Task, group'[u] = u, status'[u] = "dead"
         PROVE  status[u] = "dead" /\ group[u] = u /\ call'[u] = call[u]
    <2>1. u # c BY <1>4, <1>10
    <2>2. u # t BY <1>2, <1>4, <1>10
    <2>3. QED BY <1>4, <1>10, <2>1, <2>2
  <1>11. ASSUME NEW u \in Task, InCall(u)', call'[u].op = "execve"
         PROVE  InCall(u) /\ group'[u] = group[u] /\ call[u].op = "execve"
    <2>1. u # c BY <1>4, <1>11
    <2>2. call'[u].op = call[u].op BY <1>4 DEF Known
    <2>3. QED BY <1>4, <1>8, <1>11, <2>1, <2>2
  <1>12. \A v, u \in Task : InCall(v)' /\ InCall(u)' /\ v # u /\ group'[v] = group'[u]
                        /\ call'[v].op = "execve" /\ call'[u].op = "execve" =>
       /\ InCall(v) /\ InCall(u) /\ group[v] = group[u] /\ group'[v] = group[v]
       /\ call[v].op = "execve" /\ call[u].op = "execve"
    BY <1>11
  <1>13. QED BY <1>2, <1>4, <1>5, <1>6, <1>7, <1>9, <1>10, <1>12 DEF Quiet

(* A task only changes where it is in its call, or is gone.                *)
LEMMA QuietStatus ==
  ASSUME CallsInv, UNCHANGED << ring, pending, execTid, mispaired, calls, rivals, filter, group, call >>,
         lost \subseteq lost', \A u \in Task : InCall(u)' => InCall(u),
         \A u \in Task : Sound(u)' /\ group[u] = u /\ status'[u] = "dead" =>
           status[u] = "dead" \/ call[u] = NoCall(u) \/ call[u].op = "exit"
  PROVE  Quiet
  <1>1. \A g : Sound(g)' => Sound(g) BY DEF Sound
  <1>2. \A u \in Task : group[u] \in Task => group'[u] = group[u] /\ (Sound(group[u])' => Sound(group[u]))
    BY DEF Sound
  <1>3. \A u \in Task : InCall(u)' => InCall(u) /\ call'[u] = call[u] /\ group'[u] = group[u]
    OBVIOUS
  <1>4. QED BY <1>2, <1>3 DEF Quiet

LEMMA QuietKernel ==
  ASSUME IInv, CallsInv, OpenInv, NEW t \in Task, Dethread(t) \/ Exec(t) \/ Die(t) PROVE Quiet
  <1>1. /\ group \in [Task -> Task \cup {NoTask}] /\ status \in [Task -> Status]
        /\ call \in [Task -> Call] /\ GroupsInv
    BY DEF IInv, KernelTyped
  <1>2. CASE Dethread(t)
    <2>1. /\ status[t] = "called" /\ status' = [status EXCEPT ![t] = "dethreading"]
          /\ UNCHANGED << ring, pending, execTid, mispaired, calls, rivals, filter, group, call, lost >>
      BY <1>2 DEF Dethread, seen, backend
    <2>2. \A u \in Task : (InCall(u)' => InCall(u)) /\ (status'[u] = "dead" => status[u] = "dead")
      BY <1>1, <2>1 DEF InCall
    <2>3. QED BY <2>1, <2>2, QuietStatus
  <1>3. CASE Die(t)
    <2>1. /\ status' = [status EXCEPT ![t] = "dead"]
          /\ UNCHANGED << ring, pending, execTid, mispaired, calls, rivals, filter, group, call, lost >>
      BY <1>3 DEF Die, seen, backend
    <2>2. call[t] = NoCall(t) \/ call[t].op = "exit" BY <1>3 DEF Die, CallsInv, CallInv
    <2>3. \A u \in Task : /\ InCall(u)' => InCall(u)
                          /\ status'[u] = "dead" => status[u] = "dead" \/ u = t
      BY <1>1, <2>1 DEF InCall
    <2>4. QED BY <2>1, <2>2, <2>3, QuietStatus
  <1>4. CASE Exec(t)
    <2>0. PICK g \in Task : g = group[t] BY <1>1, <1>4, TaskAssumption DEF Exec, GroupsInv
    <2>1. /\ status[t] = "dethreading" /\ \A u \in Threads(g) \ {t} : ~Alive(u)
          /\ status' = [status EXCEPT ![t] = "dead", ![g] = "execed"]
          /\ call' = [call EXCEPT ![g] = call[t]]
          /\ UNCHANGED << ring, pending, execTid, mispaired, calls, rivals, filter, group, lost >>
      BY <1>4, <2>0 DEF Exec, seen, backend
    <2>2. group[g] = g /\ status[g] # "none" BY <1>1, <2>0, <2>1, TaskAssumption DEF GroupsInv
    <2>3. g # t => status[g] = "dead" BY <1>1, <2>1, <2>2 DEF Threads, Alive
    <2>4. /\ call'[g] = call[t] /\ status'[g] = "execed"
          /\ \A u \in Task \ {g} : call'[u] = call[u]
          /\ \A u \in Task \ {g, t} : status'[u] = status[u]
          /\ t # g => status'[t] = "dead"
      BY <1>1, <2>1, <2>2
    <2>5. \A u \in Task \ {g} : InCall(u)' => InCall(u) /\ u # t BY <2>4 DEF InCall
    <2>6. InCall(t) BY <2>1 DEF InCall
    <2>7. \A h : Sound(h)' => Sound(h) BY <2>1 DEF Sound
    <2>8. \A u \in Task : InCall(u)' =>
            \E v \in Task : InCall(v) /\ Known(call'[u]) = Known(call[v]) /\ group'[u] = group[v]
      BY <2>0, <2>1, <2>2, <2>4, <2>5, <2>6
    <2>9. ASSUME NEW u \in Task, Sound(group[u])'
          PROVE  Known(call'[u]) = Known(call[u]) \/ call[u].n = 0 \/ call[u].op = "exit"
      <3>1. CASE u = g /\ g # t
        <4>1. Sound(group[g]) BY <2>1, <2>9, <3>1 DEF Sound
        <4>2. call[g] = NoCall(g) \/ call[g].op = "exit" BY <2>2, <2>3, <3>1, <4>1 DEF OpenInv
        <4>3. QED BY <3>1, <4>2 DEF NoCall
      <3>2. CASE u # g \/ g = t BY <2>4, <3>2
      <3>3. QED BY <3>1, <3>2
    <2>10. ASSUME NEW u \in Task, group'[u] = u, status'[u] = "dead"
           PROVE  status[u] = "dead" /\ group[u] = u /\ call'[u] = call[u]
      BY <2>0, <2>1, <2>4, <2>10
    <2>11. ASSUME NEW v \in Task, NEW u \in Task, InCall(v)', InCall(u)', v # u, group'[v] = group'[u]
           PROVE  v # g
      <3>1. ASSUME v = g PROVE FALSE
        <4>1. u # g /\ InCall(u) /\ u # t /\ group[u] = g BY <2>1, <2>2, <2>5, <2>11, <3>1
        <4>2. Alive(u) /\ u \in Threads(g) BY <4>1 DEF InCall, Alive, Threads
        <4>3. QED BY <2>1, <4>1, <4>2
      <3>2. QED BY <3>1
    <2>12. \A v, u \in Task : InCall(v)' /\ InCall(u)' /\ v # u /\ group'[v] = group'[u]
                              /\ call'[v].op = "execve" /\ call'[u].op = "execve" =>
             /\ InCall(v) /\ InCall(u) /\ group[v] = group[u] /\ group'[v] = group[v]
             /\ call[v].op = "execve" /\ call[u].op = "execve"
      BY <2>1, <2>4, <2>5, <2>11
    <2>13. \A u \in Task : group[u] \in Task => group'[u] = group[u] /\ (Sound(group[u])' => Sound(group[u]))
      BY <2>1 DEF Sound
    <2>14. /\ UNCHANGED << ring, pending, execTid, mispaired, calls, rivals >>
           /\ filter \subseteq filter' /\ lost \subseteq lost'
      BY <2>1
    <2>15. \A u \in Task : InCall(u)' =>
             \/ \E v \in Task : InCall(v) /\ Known(call'[u]) = Known(call[v]) /\ group'[u] = group[v]
             \/ call'[u].n = 0 /\ call'[u].op # "execve" /\ call'[u].task \in Task /\ group[call'[u].task] = NoTask
      BY ONLY <2>8
    <2>16. \A u \in Task : group[u] \in Task /\ Sound(group[u])' =>
             Known(call'[u]) = Known(call[u]) \/ call[u].n = 0 \/ call[u].op = "exit"
      BY ONLY <2>9
    <2>17. \A u \in Task : group'[u] = u /\ Sound(u)' /\ status'[u] = "dead" =>
             \/ status[u] = "dead" /\ group[u] = u /\ call'[u] = call[u]
             \/ call'[u] = NoCall(u) \/ call'[u].op = "exit"
      BY ONLY <2>10
    <2>18. QED BY ONLY <2>12, <2>13, <2>14, <2>15, <2>16, <2>17, Zenon DEF Quiet
  <1>5. QED BY <1>2, <1>3, <1>4

LEMMA QuietTimeout == ASSUME IInv, CallsInv, Timeout PROVE Quiet
  <1>1. /\ status' = [u \in Task |-> IF group[u] = Root THEN "dead" ELSE status[u]]
        /\ lost' = lost \cup {Root}
        /\ UNCHANGED << ring, pending, execTid, mispaired, calls, rivals, filter, group, call >>
    BY DEF Timeout, Ends, seen
  <1>2. \A u \in Task : (InCall(u)' => InCall(u)) /\ (status'[u] = "dead" => status[u] = "dead" \/ group[u] = Root)
    BY <1>1 DEF InCall
  <1>3. \A u \in Task : Sound(u)' => u # Root BY <1>1 DEF Sound
  <1>4. QED BY <1>1, <1>2, <1>3, QuietStatus

LEMMA LaunchTimeout == ASSUME Timeout PROVE LaunchInv'
  BY DEF Timeout, LaunchInv

LEMMA LaunchKept ==
  ASSUME LaunchInv, UNCHANGED << status, call, calls, execs, ring, initialExec, lost >> PROVE LaunchInv'
  <1>1. /\ (Alone' <=> Alone) /\ (Launched' <=> Launched)
        /\ \A u : InCall(u)' <=> InCall(u)
    BY DEF Alone, Launched, InCall
  <1>2. (Returned' <=> Returned)
    BY <1>1 DEF Returned, IsLaunch
  <1>3. \A k : RootExec(k)' <=> RootExec(k) BY DEF RootExec, IsExec
  <1>4. Launching => Launching' BY <1>1, <1>3 DEF Launching, IsLaunch
  <1>5. LaunchReturning => LaunchReturning' BY <1>1, <1>2, <1>3 DEF LaunchReturning, IsLaunch
  <1>6. LaunchOver => LaunchOver' BY <1>2, <1>3 DEF LaunchOver, IsLaunch
  <1>7. QED BY <1>4, <1>5, <1>6 DEF LaunchInv

-----------------------------------------------------------------------------
LEMMA CountsTypedKernel == ASSUME CountsTyped, KernelStep PROVE CountsTyped'
  <1>1. CASE UNCHANGED << execs, images >> BY <1>1 DEF CountsTyped
  <1>2. ASSUME NEW t \in Task, Exec(t) PROVE CountsTyped'
    <2>1. PICK g : g = group[t] OBVIOUS
    <2>2. execs' = [execs EXCEPT ![g] = @ + 1] /\ images' = images BY <1>2, <2>1 DEF Exec, seen
    <2>3. execs \in [Task -> Nat] /\ images \in [Task -> Nat] BY DEF CountsTyped
    <2>4. execs' \in [Task -> Nat]
      <3>1. CASE g \in Task
        <4>1. execs[g] + 1 \in Nat BY <2>3, <3>1
        <4>2. QED BY <2>2, <2>3, <4>1
      <3>2. CASE g \notin Task BY <2>2, <2>3, <3>2
      <3>3. QED BY <3>1, <3>2
    <2>5. QED BY <2>2, <2>3, <2>4 DEF CountsTyped
  <1>3. ASSUME NEW t \in Task, NEW op \in Ops, SysEnter(t, op) PROVE UNCHANGED << execs, images >>
    BY <1>3 DEF SysEnter, seen
  <1>4. ASSUME NEW t \in Task, SysExit(t) \/ Spawn(t) \/ Dethread(t) \/ Die(t)
        PROVE  UNCHANGED << execs, images >>
    BY <1>4 DEF SysExit, Spawn, Dethread, Die, seen
  <1>5. QED BY <1>1, <1>2, <1>3, <1>4 DEF KernelStep

LEMMA ShiftedCardinality ==
  ASSUME NEW S \in SUBSET Nat, IsFiniteSet(S), NEW T, T = {k - 1 : k \in S}
  PROVE  IsFiniteSet(T) /\ Cardinality(T) = Cardinality(S)
  <1>. DEFINE f == [k \in S |-> k - 1]
  <1>1. f \in Injection(S, T)
    <2>1. f \in [S -> T] OBVIOUS
    <2>2. \A a, b \in S : f[a] = f[b] => a = b OBVIOUS
    <2>3. IsInjective(f) BY <2>1, <2>2 DEF IsInjective
    <2>4. QED BY <2>1, <2>3 DEF Injection
  <1>2. f \in Surjection(S, T) BY DEF Surjection
  <1>3. ExistsBijection(S, T) BY <1>1, <1>2 DEF ExistsBijection, Bijection
  <1>4. QED BY <1>3, FS_Bijection

(* A successful exec of the group, as an event in the ring reports it.     *)
Success(e, g) == e.tgid = g /\ IsExec(e) /\ ~e.entry /\ e.ok

LEMMA SuccessesFinite ==
  ASSUME RingTyped, NEW g
  PROVE  /\ IsFiniteSet(Successes(g)) /\ Cardinality(Successes(g)) \in Nat
         /\ Successes(g) \in SUBSET Nat
  <1>1. Successes(g) \in SUBSET (1 .. Len(ring)) BY DEF Successes, RingTyped
  <1>2. IsFiniteSet(1 .. Len(ring)) BY FS_Interval DEF RingTyped
  <1>3. IsFiniteSet(Successes(g)) BY <1>1, <1>2, FS_Subset
  <1>4. Cardinality(Successes(g)) \in Nat BY <1>3, FS_CardinalityType
  <1>5. QED BY <1>1, <1>3, <1>4

LEMMA SuccessesEmitted ==
  ASSUME IInv, NEW t \in Task, NEW e, Emits(t, e), NEW g
  PROVE  Cardinality(Successes(g))' =
           Cardinality(Successes(g)) + (IF Appends(t, e) /\ Success(e, g) THEN 1 ELSE 0)
  <1>0. RingTyped BY RingFacts
  <1>. PICK S : S = Successes(g) OBVIOUS
  <1>. PICK n : n = Len(ring) + 1 OBVIOUS
  <1>1. IsFiniteSet(S) /\ Cardinality(S) \in Nat /\ n \notin S
    <2>1. n \notin S BY <1>0 DEF Successes, RingTyped
    <2>2. QED BY <1>0, <2>1, SuccessesFinite
  <1>2. CASE Appends(t, e)
    <2>1. DOMAIN ring' = DOMAIN ring \cup {n} BY <1>0, <1>2 DEF Appends, RingTyped
    <2>2. \A k \in DOMAIN ring : ring'[k] = ring[k] BY <1>2 DEF Appends
    <2>3. ring'[n] = e BY <1>2 DEF Appends
    <2>4. CASE Success(e, g)
      <3>1. Successes(g)' = S \cup {n}
        BY <2>1, <2>2, <2>3, <2>4 DEF Successes, Success, IsExec
      <3>2. Cardinality(S \cup {n}) = Cardinality(S) + 1 BY <1>1, FS_AddElement
      <3>3. QED BY <1>2, <2>4, <3>1, <3>2
    <2>5. CASE ~Success(e, g)
      <3>1. Successes(g)' = S
        BY <1>1, <2>1, <2>2, <2>3, <2>5 DEF Successes, Success, IsExec
      <3>2. QED BY <1>1, <2>5, <3>1
    <2>6. QED BY <2>4, <2>5
  <1>3. CASE ~Appends(t, e)
    <2>1. ring' = ring BY <1>3 DEF Emits
    <2>2. Successes(g)' = S BY <2>1 DEF Successes, IsExec
    <2>3. QED BY <1>1, <1>3, <2>2
  <1>4. QED BY <1>2, <1>3

LEMMA SuccessesShifted ==
  ASSUME IInv, NEW e, Shifts(e), NEW g
  PROVE  /\ Cardinality(Successes(g))' \in Nat
         /\ Cardinality(Successes(g)) = Cardinality(Successes(g))' + (IF Success(e, g) THEN 1 ELSE 0)
  <1>0. RingTyped BY RingFacts
  <1>. PICK S : S = Successes(g) OBVIOUS
  <1>. PICK T : T = S \ {1} OBVIOUS
  <1>1. IsFiniteSet(S) /\ Cardinality(S) \in Nat /\ S \in SUBSET Nat BY <1>0, SuccessesFinite
  <1>2. /\ IsFiniteSet(T) /\ T \in SUBSET Nat
        /\ Cardinality(T) = IF 1 \in S THEN Cardinality(S) - 1 ELSE Cardinality(S)
    BY <1>1, FS_RemoveElement
  <1>3. 1 \in S <=> Success(e, g) BY DEF Shifts, Successes, Success, IsExec
  <1>4. Successes(g)' = {k - 1 : k \in T}
    <2>1. ASSUME NEW i \in Successes(g)' PROVE i \in {k - 1 : k \in T}
      <3>1. i \in DOMAIN ring' /\ i \in Nat /\ i > 0
        BY <1>0, <2>1 DEF Successes, Shifts, RingTyped
      <3>2. PICK m : m = i + 1 OBVIOUS
      <3>3. m \in DOMAIN ring /\ ring'[i] = ring[m] /\ m # 1 /\ i = m - 1
        BY <3>1, <3>2 DEF Shifts
      <3>4. m \in T BY <2>1, <3>3 DEF Successes, IsExec
      <3>5. QED BY <3>3, <3>4
    <2>2. ASSUME NEW k \in T PROVE k - 1 \in Successes(g)'
      <3>1. k \in DOMAIN ring /\ k > 1 BY <1>0, <2>2 DEF Successes, RingTyped
      <3>2. PICK i : i = k - 1 OBVIOUS
      <3>3. i \in DOMAIN ring' /\ ring'[i] = ring[k] BY <3>1, <3>2 DEF Shifts
      <3>4. i \in Successes(g)' BY <2>2, <3>3 DEF Successes, IsExec
      <3>5. QED BY <3>2, <3>4
    <2>3. QED BY <2>1, <2>2
  <1>5. Cardinality(Successes(g)') = Cardinality(T)
    <2>1. PICK U : U = Successes(g)' OBVIOUS
    <2>2. Cardinality(U) = Cardinality(T) BY <1>2, <1>4, <2>1, ShiftedCardinality
    <2>3. QED BY <2>1, <2>2
  <1>6. Cardinality(T) \in Nat BY <1>2, FS_CardinalityType
  <1>7. QED BY <1>1, <1>2, <1>3, <1>5, <1>6

-----------------------------------------------------------------------------
(* What is counted of a group, when nothing of it changes.                 *)
LEMMA CountedKept ==
  ASSUME NEW g, Counted(g), execs'[g] = execs[g], images'[g] = images[g],
         Cardinality(Successes(g))' = Cardinality(Successes(g)),
         status'[g] = "execed" <=> status[g] = "execed",
         g = Root => (Launched' <=> Launched) /\ initialExec' = initialExec
  PROVE  Counted(g)'
  <1>1. (IF g = Root /\ Launched' /\ ~initialExec' THEN 1 ELSE 0)
          = (IF g = Root /\ Launched /\ ~initialExec THEN 1 ELSE 0)
    OBVIOUS
  <1>2. (IF status'[g] = "execed" THEN 1 ELSE 0) = (IF status[g] = "execed" THEN 1 ELSE 0)
    OBVIOUS
  <1>3. QED BY <1>1, <1>2 DEF Counted

LEMMA CountEnter ==
  ASSUME IInv, CallsInv, CountsTyped, CountInv, NEW t \in Task, NEW op \in Ops, SysEnter(t, op)
  PROVE  CountInv'
  <1>1. PICK e : Enters(t, e) BY SysEnterEnters
  <1>2. UNCHANGED << execs, images, initialExec, group, filter >> BY DEF SysEnter, backend, seen
  <1>3. Emits(t, e) /\ ~Success(e, e.tgid) /\ e.entry BY <1>1 DEF Enters, Success
  <1>4. ASSUME NEW g \in Task \ lost', g \in filter' \/ group'[g] # g PROVE Counted(g)'
    <2>1. Counted(g) BY <1>2, <1>3, <1>4 DEF CountInv, Emits
    <2>2. ~Success(e, g) BY <1>3 DEF Success
    <2>3. Cardinality(Successes(g))' = Cardinality(Successes(g)) + 0
      BY <1>3, <2>2, SuccessesEmitted
    <2>4. Cardinality(Successes(g))' = Cardinality(Successes(g))
      BY <2>3, RingFacts, SuccessesFinite
    <2>5. status'[g] = "execed" <=> status[g] = "execed" BY <1>1, <1>3 DEF Enters, Emits
    <2>6. Launched' <=> Launched BY <1>2 DEF Launched
    <2>7. QED BY <1>2, <2>1, <2>4, <2>5, <2>6, CountedKept
  <1>5. QED BY <1>4 DEF CountInv

LEMMA CountExit ==
  ASSUME IInv, CallsInv, CountsTyped, CountInv, NEW t \in Task, SysExit(t)
  PROVE  CountInv'
  <1>0. RingTyped BY RingFacts
  <1>1. PICK e : Leaves(t, e) /\ e.ok \in Outcomes(t) BY SysExitLeaves
  <1>2. /\ UNCHANGED << execs, images, initialExec, group, filter >>
        /\ status[t] \in {"called", "execed"}
    BY DEF SysExit, backend, seen
  <1>3. /\ Emits(t, e) /\ e.tgid = group[t] /\ ~e.entry /\ e.call = call[t]
        /\ status'[t] = "user" /\ \A u \in Task \ {t} : status'[u] = status[u]
    BY <1>1 DEF Leaves, Emits
  <1>4. Launched' <=> Launched BY <1>2 DEF Launched
  <1>5. status[t] = "execed" => group[t] = t /\ call[t].op = "execve" /\ call[t].n > 0
    BY DEF CallsInv, CallInv, IInv, StashInv
  <1>6. IsExec(e) => (e.ok <=> status[t] = "execed")
    <2>1. ASSUME IsExec(e) PROVE e.ok <=> status[t] = "execed"
      <3>1. call[t].op = "execve" BY <1>3, <2>1 DEF IsExec
      <3>2. call[t].n # 0
        <4>1. call[t].n > 0 BY <3>1 DEF CallsInv, CallInv
        <4>2. QED BY <4>1
      <3>3. Outcomes(t) = {status[t] = "execed"} BY <3>1, <3>2 DEF Outcomes
      <3>4. QED BY <1>1, <3>3
    <2>2. QED BY <2>1
  <1>7. Success(e, group[t]) <=> status[t] = "execed"
    BY <1>3, <1>5, <1>6 DEF Success, IsExec
  <1>8. ASSUME NEW g \in Task \ lost', g \in filter' \/ group'[g] # g PROVE Counted(g)'
    <2>1. Counted(g) BY <1>2, <1>3, <1>8 DEF CountInv, Emits
    <2>2. Cardinality(Successes(g)) \in Nat BY <1>0, SuccessesFinite
    <2>3. CASE Appends(t, e) /\ Success(e, g)
      <3>1. g = t /\ status[g] = "execed" BY <1>3, <1>5, <1>7, <2>3 DEF Success
      <3>2. Cardinality(Successes(g))' = Cardinality(Successes(g)) + 1
        BY <1>3, <2>3, SuccessesEmitted
      <3>3. status'[g] # "execed" BY <1>3, <3>1
      <3>4. images[g] \in Nat BY DEF CountsTyped
      <3>5. (IF g = Root /\ Launched' /\ ~initialExec' THEN 1 ELSE 0)
              = (IF g = Root /\ Launched /\ ~initialExec THEN 1 ELSE 0)
        BY <1>2, <1>4
      <3>6. PICK b \in Nat : b = (IF g = Root /\ Launched /\ ~initialExec THEN 1 ELSE 0)
        OBVIOUS
      <3>7. execs[g] = images[g] + Cardinality(Successes(g)) + 1 + b
        BY <2>1, <3>1, <3>6 DEF Counted
      <3>8. execs[g] = images[g] + (Cardinality(Successes(g)) + 1) + 0 + b
        BY <2>2, <3>4, <3>6, <3>7
      <3>9. QED BY <1>2, <3>2, <3>3, <3>5, <3>6, <3>8 DEF Counted
    <2>4. CASE ~(Appends(t, e) /\ Success(e, g))
      <3>1. ~(g = t /\ status[t] = "execed")
        <4>1. ASSUME g = t, status[t] = "execed" PROVE FALSE
          <5>1. group[t] = g /\ Success(e, g) BY <1>5, <1>7, <4>1
          <5>2. g \in filter BY <1>2, <1>8, <5>1, <4>1
          <5>3. Appends(t, e) BY <1>3, <1>8, <5>1, <5>2 DEF Emits
          <5>4. QED BY <2>4, <5>1, <5>3
        <4>2. QED BY <4>1
      <3>2. Cardinality(Successes(g))' = Cardinality(Successes(g)) + 0
        BY <1>3, <2>4, SuccessesEmitted
      <3>3. Cardinality(Successes(g))' = Cardinality(Successes(g)) BY <2>2, <3>2
      <3>4. status'[g] = "execed" <=> status[g] = "execed" BY <1>3, <3>1
      <3>5. QED BY <1>2, <1>4, <2>1, <3>3, <3>4, CountedKept
    <2>5. QED BY <2>3, <2>4
  <1>9. QED BY <1>8 DEF CountInv

LEMMA CountSpawn ==
  ASSUME IInv, CountsTyped, CountInv, NEW t \in Task, Spawn(t) PROVE CountInv'
  <1>1. PICK c \in Task :
          /\ status[c] = "none" /\ status' = [status EXCEPT ![c] = "called"]
          /\ group' = [group EXCEPT ![c] = IF call[t].op = "fork" THEN c ELSE group[t]]
          /\ TraceFork(t, c)
    BY DEF Spawn
  <1>2. UNCHANGED << execs, images, initialExec, ring, lost >> BY DEF Spawn, backend, seen
  <1>3. /\ group \in [Task -> Task \cup {NoTask}] /\ status \in [Task -> Status]
        /\ GroupsInv /\ NoTask \notin Task
    BY TaskAssumption DEF IInv, KernelTyped
  <1>4. /\ \A u \in Task \ {c} : status'[u] = status[u] /\ group'[u] = group[u]
        /\ status'[c] = "called" /\ group[c] = NoTask
    BY <1>1, <1>3 DEF GroupsInv
  <1>5. filter' \subseteq filter \cup {c} BY <1>1 DEF TraceFork
  <1>6. ASSUME NEW g \in Task \ lost', g \in filter' \/ group'[g] # g PROVE Counted(g)'
    <2>1. g \in filter \/ group[g] # g BY <1>3, <1>4, <1>5, <1>6
    <2>2. Counted(g) BY <1>2, <1>6, <2>1 DEF CountInv
    <2>3. Cardinality(Successes(g))' = Cardinality(Successes(g)) BY <1>2 DEF Successes, IsExec
    <2>4. status'[g] = "execed" <=> status[g] = "execed" BY <1>1, <1>4
    <2>5. Launched' <=> Launched BY <1>2 DEF Launched
    <2>6. QED BY <1>2, <2>2, <2>3, <2>4, <2>5, CountedKept
  <1>7. QED BY <1>6 DEF CountInv

(* A step that leaves the counts alone, and every exec where it is.        *)
LEMMA CountQuiet ==
  ASSUME CountInv, UNCHANGED << execs, images, initialExec, ring, group, filter >>, lost \subseteq lost',
         \A u \in Task \ lost' : status'[u] = "execed" <=> status[u] = "execed"
  PROVE  CountInv'
  <1>1. ASSUME NEW g \in Task \ lost', g \in filter' \/ group'[g] # g PROVE Counted(g)'
    <2>1. Counted(g) BY <1>1 DEF CountInv
    <2>2. Cardinality(Successes(g))' = Cardinality(Successes(g)) BY DEF Successes, IsExec
    <2>3. Launched' <=> Launched BY DEF Launched
    <2>4. QED BY <1>1, <2>1, <2>2, <2>3, CountedKept
  <1>2. QED BY <1>1 DEF CountInv

LEMMA CountTimeout == ASSUME IInv, CallsInv, CountInv, Timeout PROVE CountInv'
  <1>1. /\ status' = [u \in Task |-> IF group[u] = Root THEN "dead" ELSE status[u]]
        /\ lost' = lost \cup {Root}
        /\ UNCHANGED << execs, images, initialExec, ring, group, filter >>
    BY DEF Timeout, Ends, seen
  <1>2. ASSUME NEW u \in Task \ lost' PROVE status'[u] = "execed" <=> status[u] = "execed"
    <2>1. u # Root BY <1>1, <1>2
    <2>2. status[u] = "execed" => group[u] = u BY DEF CallsInv, CallInv
    <2>3. QED BY <1>1, <2>1, <2>2
  <1>3. QED BY <1>1, <1>2, CountQuiet

LEMMA CountKernel ==
  ASSUME IInv, CallsInv, CountsTyped, LaunchInv, CountInv, NEW t \in Task, Dethread(t) \/ Exec(t) \/ Die(t)
  PROVE  CountInv'
  <1>1. /\ group \in [Task -> Task \cup {NoTask}] /\ status \in [Task -> Status]
        /\ execs \in [Task -> Nat] /\ images \in [Task -> Nat] /\ GroupsInv
    BY DEF IInv, KernelTyped, CountsTyped
  <1>2. CASE Dethread(t) \/ Die(t)
    <2>1. /\ UNCHANGED << execs, images, initialExec, ring, group, filter, lost >>
          /\ \/ status[t] = "called" /\ status' = [status EXCEPT ![t] = "dethreading"]
             \/ status[t] \in {"called", "user"} /\ status' = [status EXCEPT ![t] = "dead"]
      BY <1>2 DEF Dethread, Die, backend, seen
    <2>2. \A u \in Task : status'[u] = "execed" <=> status[u] = "execed" BY <1>1, <2>1
    <2>3. QED BY <2>1, <2>2, CountQuiet
  <1>3. CASE Exec(t)
    <2>0. PICK g \in Task : g = group[t] BY <1>1, <1>3, TaskAssumption DEF Exec, GroupsInv
    <2>1. /\ status[t] = "dethreading" /\ \A u \in Threads(g) \ {t} : ~Alive(u)
          /\ status' = [status EXCEPT ![t] = "dead", ![g] = "execed"]
          /\ execs' = [execs EXCEPT ![g] = @ + 1]
          /\ UNCHANGED << images, initialExec, ring, group, filter, lost >>
      BY <1>3, <2>0 DEF Exec, seen, backend
    <2>2. group[g] = g /\ status[g] # "none" BY <1>1, <2>0, <2>1, TaskAssumption DEF GroupsInv
    <2>3. status[g] # "execed" BY <1>1, <2>1, <2>2 DEF Threads, Alive
    <2>4. /\ status'[g] = "execed" /\ \A u \in Task \ {g, t} : status'[u] = status[u]
          /\ t # g => status'[t] = "dead"
          /\ execs'[g] = execs[g] + 1 /\ \A u \in Task \ {g} : execs'[u] = execs[u]
      BY <1>1, <2>1, <2>2
    <2>5. \A h : Cardinality(Successes(h))' = Cardinality(Successes(h))
      BY <2>1 DEF Successes, IsExec
    <2>6. ASSUME g = Root, Root \notin lost, ~Launched PROVE initialExec
      <3>1. CASE LaunchOver
        <4>1. t = Root /\ (call[Root] = NoCall(Root) \/ call[Root].op = "exit")
          BY <2>1, <2>6, <3>1 DEF LaunchOver, Returned, Alone
        <4>2. call[Root].op = "execve" BY <2>1, <4>1 DEF IInv, StashInv
        <4>3. QED BY <4>1, <4>2 DEF NoCall
      <3>2. QED BY <2>6, <3>1 DEF LaunchInv, Launching, LaunchReturning
    <2>7. ASSUME NEW h \in Task \ lost', h \in filter' \/ group'[h] # h PROVE Counted(h)'
      <3>1. Counted(h) /\ h \notin lost BY <2>1, <2>7 DEF CountInv
      <3>2. CASE h = g
        <4>1. (IF h = Root /\ Launched' /\ ~initialExec' THEN 1 ELSE 0)
                = (IF h = Root /\ Launched /\ ~initialExec THEN 1 ELSE 0)
          <5>1. CASE h = Root
            <6>1. Launched' BY <1>1, <2>4, <3>2, <5>1, TaskAssumption DEF Launched
            <6>2. ~Launched => initialExec BY <2>6, <3>1, <3>2, <5>1
            <6>3. QED BY <2>1, <6>1, <6>2
          <5>2. CASE h # Root BY <5>2
          <5>3. QED BY <5>1, <5>2
        <4>2. PICK b \in Nat : b = (IF h = Root /\ Launched /\ ~initialExec THEN 1 ELSE 0)
          OBVIOUS
        <4>3. PICK s \in Nat : s = Cardinality(Successes(h)) BY RingFacts, SuccessesFinite
        <4>4. execs[h] = images[h] + s + 0 + b BY <2>3, <3>1, <3>2, <4>2, <4>3 DEF Counted
        <4>5. images[h] \in Nat /\ execs[h] \in Nat BY <1>1
        <4>6. execs'[h] = images[h] + s + 1 + b BY <2>4, <3>2, <4>4, <4>5
        <4>7. images'[h] = images[h] /\ status'[h] = "execed" BY <2>1, <2>4, <3>2
        <4>8. Cardinality(Successes(h))' = s BY <2>5, <4>3
        <4>9. QED BY <4>1, <4>2, <4>6, <4>7, <4>8 DEF Counted
      <3>3. CASE h # g
        <4>1. status'[h] = "execed" <=> status[h] = "execed" BY <2>1, <2>4, <3>3
        <4>2. h = Root => (Launched' <=> Launched) BY <2>4, <3>3 DEF Launched
        <4>3. execs'[h] = execs[h] BY <2>4, <3>3
        <4>4. QED BY <2>1, <2>5, <3>1, <4>1, <4>2, <4>3, CountedKept
      <3>4. QED BY <3>2, <3>3
    <2>8. QED BY <2>7 DEF CountInv
  <1>4. QED BY <1>2, <1>3

(* The suppression ends with the exit of the launcher's own exec, and that *)
(* exit succeeded if the target runs.                                      *)
LEMMA LaunchEnds ==
  ASSUME IInv, LaunchInv, NEW e, Shifts(e), Suppressed(e), ~e.entry, Root \notin lost
  PROVE  e.ok <=> Launched
  <1>0. RingTyped BY RingFacts
  <1>1. /\ e = ring[1] /\ 1 \in DOMAIN ring /\ RootExec(1) /\ initialExec
        /\ \A k \in DOMAIN ring : ~(k < 1)
    BY <1>0 DEF Shifts, RingTyped, Suppressed, RootExec
  <1>2. LaunchReturning BY <1>1 DEF LaunchInv, Launching, LaunchOver
  <1>3. PICK k \in DOMAIN ring :
          /\ RootExec(k) /\ IsLaunch(ring[k].call) /\ ~ring[k].entry /\ (ring[k].ok <=> Launched)
          /\ \A i \in DOMAIN ring : RootExec(i) /\ i # k =>
               \/ i < k /\ IsLaunch(ring[i].call) /\ ring[i].entry
               \/ i > k /\ ~IsLaunch(ring[i].call)
    BY <1>2 DEF LaunchReturning
  <1>4. k = 1 BY <1>0, <1>1, <1>3 DEF RingTyped
  <1>5. QED BY <1>1, <1>3, <1>4

LEMMA CountHandled ==
  ASSUME IInv, CountsTyped, LaunchInv, CountInv, NEW e, Handled(e) PROVE CountInv'
  <1>0. RingTyped BY RingFacts
  <1>1. Shifts(e) /\ Take(e) BY TakeShape DEF Handled, HandleLaunch, HandleEntry, HandleExit
  <1>2. /\ UNCHANGED << group, status, execs, lost >> /\ (Launched' <=> Launched)
        /\ e.tgid \in Task
    BY <1>0, <1>1 DEF Shifts, Launched, RingTyped
  <1>3. execs \in [Task -> Nat] /\ images \in [Task -> Nat] BY DEF CountsTyped
  <1>4. ASSUME NEW g \in Task, g \in filter' \/ group'[g] # g PROVE g \in filter \/ group[g] # g
    <2>1. follow /\ filter' # filter => \A u \in Task : group[u] \notin Task \ filter
      BY <1>1, TakeFilter
    <2>2. ~follow => filter' = filter BY <1>1, TakeFilter
    <2>3. QED BY <1>2, <1>4, <2>1, <2>2
  <1>5. ASSUME NEW g \in Task \ lost', g \in filter' \/ group'[g] # g PROVE Counted(g)'
    <2>1. Counted(g) /\ g \notin lost BY <1>2, <1>4, <1>5 DEF CountInv
    <2>2. PICK s : s = Cardinality(Successes(g)) OBVIOUS
    <2>3. PICK r : r = Cardinality(Successes(g))' OBVIOUS
    <2>4. r \in Nat /\ s = r + (IF Success(e, g) THEN 1 ELSE 0)
      BY <1>1, <2>2, <2>3, SuccessesShifted
    <2>5. PICK x \in Nat : x = IF status[g] = "execed" THEN 1 ELSE 0 OBVIOUS
    <2>6. PICK b \in Nat : b = IF g = Root /\ Launched /\ ~initialExec THEN 1 ELSE 0 OBVIOUS
    <2>7. PICK a \in Nat : a = IF g = Root /\ Launched' /\ ~initialExec' THEN 1 ELSE 0 OBVIOUS
    <2>8. execs[g] = images[g] + s + x + b BY <2>1, <2>2, <2>5, <2>6 DEF Counted
    <2>9. images[g] \in Nat BY <1>3
    <2>10. execs[g] = images'[g] + r + x + a
      <3>1. CASE HandleLaunch(e)
        <4>1. Suppressed(e) /\ images' = images /\ initialExec' = e.entry /\ initialExec
              /\ e.tgid = Root /\ IsExec(e) /\ e.entry \in BOOLEAN
          BY <1>0, <1>1, <3>1 DEF HandleLaunch, Suppressed, Shifts, RingTyped
        <4>2. CASE g = Root /\ ~e.entry
          <5>1. e.ok <=> Launched BY <1>1, <2>1, <4>1, <4>2, LaunchEnds
          <5>2. Success(e, g) <=> Launched BY <4>1, <4>2, <5>1 DEF Success
          <5>3. b = 0 /\ (a = IF Launched THEN 1 ELSE 0) BY <1>2, <2>6, <2>7, <4>1, <4>2
          <5>4. CASE Launched
            <6>1. s = r + 1 /\ a = 1 BY <2>4, <5>2, <5>3, <5>4
            <6>2. QED BY <2>4, <2>8, <2>9, <4>1, <5>3, <6>1
          <5>5. CASE ~Launched
            <6>1. s = r + 0 /\ a = 0 BY <2>4, <5>2, <5>3, <5>5
            <6>2. QED BY <2>4, <2>8, <2>9, <4>1, <5>3, <6>1
          <5>6. QED BY <5>4, <5>5
        <4>3. CASE g # Root \/ e.entry
          <5>1. ~Success(e, g) BY <4>1, <4>3 DEF Success
          <5>2. a = b BY <1>2, <2>6, <2>7, <4>1, <4>3
          <5>3. s = r + 0 BY <2>4, <5>1
          <5>4. QED BY <2>4, <2>8, <2>9, <4>1, <5>2, <5>3
        <4>4. QED BY <4>2, <4>3
      <3>2. CASE HandleEntry(e)
        <4>1. ~Success(e, g) /\ images' = images /\ initialExec' = initialExec
          BY <3>2 DEF HandleEntry, Success
        <4>2. a = b BY <1>2, <2>6, <2>7, <4>1
        <4>3. s = r + 0 BY <2>4, <4>1
        <4>4. QED BY <2>4, <2>8, <2>9, <4>1, <4>2, <4>3
      <3>3. CASE HandleExit(e)
        <4>1. initialExec' = initialExec /\ ~e.entry BY <3>3 DEF HandleExit
        <4>2. a = b BY <1>2, <2>6, <2>7, <4>1
        <4>3. CASE Success(e, g)
          <5>1. g = e.tgid /\ IsExec(e) /\ e.ok BY <4>3 DEF Success
          <5>2. images' = [images EXCEPT ![g] = @ + 1] BY <3>3, <5>1 DEF HandleExit
          <5>3. images'[g] = images[g] + 1 BY <1>3, <5>2
          <5>4. s = r + 1 BY <2>4, <4>3
          <5>5. QED BY <2>4, <2>8, <2>9, <4>2, <5>3, <5>4
        <4>4. CASE ~Success(e, g)
          <5>1. ~(g = e.tgid /\ IsExec(e) /\ e.ok) BY <4>1, <4>4 DEF Success
          <5>2. images'[g] = images[g] BY <1>3, <3>3, <5>1 DEF HandleExit
          <5>3. s = r + 0 BY <2>4, <4>4
          <5>4. QED BY <2>4, <2>8, <2>9, <4>2, <5>2, <5>3
        <4>5. QED BY <4>3, <4>4
      <3>4. QED BY <3>1, <3>2, <3>3 DEF Handled
    <2>11. QED BY <1>2, <2>3, <2>5, <2>7, <2>10 DEF Counted
  <1>6. QED BY <1>5 DEF CountInv

-----------------------------------------------------------------------------
(* What the events in flight say of the calls that the tasks are in.       *)
EventsInv ==
  /\ CallsInv /\ RingInv /\ OrderInv /\ LaunchInv /\ PairInv /\ OpenInv /\ ExecInv /\ MispairInv
  /\ CountsTyped /\ CountInv

LEMMA InitEventsInv == Init => EventsInv
  <1>. SUFFICES ASSUME Init PROVE EventsInv OBVIOUS
  <1>. USE TaskAssumption
  <1>1. /\ ring = << >> /\ DOMAIN ring = {} /\ lost = {} /\ rivals = {} /\ mispaired = {}
        /\ initialExec = TRUE
    BY DEF Init
  <1>2. ASSUME NEW t \in Task
        PROVE  /\ call[t] = NoCall(t) /\ call[t].task = t /\ call[t].n = 0 /\ call[t].op = "other"
               /\ calls[t] = 0 /\ execs[t] = 0 /\ images[t] = 0
               /\ pending[t] = Nothing /\ execTid[t] = NoTask
               /\ status[t] = IF t = Root THEN "called" ELSE "none"
    BY DEF Init, NoCall
  <1>3. CallsInv
    <2>1. \A t \in Task : CallInv(t) BY <1>2 DEF CallInv, InCall
    <2>2. QED BY <1>1, <2>1 DEF CallsInv
  <1>4. RingInv BY <1>1, <1>2 DEF RingInv, PendingInv
  <1>5. OrderInv BY <1>1 DEF OrderInv
  <1>6. ~Launched /\ Alone BY <1>2 DEF Launched, Alone
  <1>7. LaunchInv BY <1>1, <1>2, <1>6 DEF LaunchInv, Launching
  <1>8. PairInv BY <1>1, <1>2 DEF PairInv
  <1>9. OpenInv BY <1>1, <1>2 DEF OpenInv
  <1>10. ExecInv BY <1>1, <1>2 DEF ExecInv
  <1>11. MispairInv BY <1>1 DEF MispairInv
  <1>12. CountsTyped BY DEF Init, CountsTyped
  <1>13. ASSUME NEW g \in Task PROVE Counted(g)
    <2>1. Successes(g) = {} BY <1>1 DEF Successes
    <2>2. Cardinality(Successes(g)) = 0 BY <2>1, FS_EmptySet
    <2>3. status[g] # "execed" BY <1>2
    <2>4. QED BY <1>2, <1>6, <2>2, <2>3 DEF Counted
  <1>14. CountInv BY <1>13 DEF CountInv
  <1>15. QED BY <1>3, <1>4, <1>5, <1>7, <1>8, <1>9, <1>10, <1>11, <1>12, <1>14 DEF EventsInv

LEMMA EmitsKeep ==
  ASSUME IInv, EventsInv, NEW t \in Task, NEW e, Enters(t, e) \/ Leaves(t, e)
  PROVE  RingInv' /\ OrderInv' /\ PairInv' /\ OpenInv' /\ ExecInv' /\ MispairInv'
  <1>1. /\ CallsInv /\ RingInv /\ OrderInv /\ PairInv /\ OpenInv /\ ExecInv /\ MispairInv
    BY DEF EventsInv
  <1>2. /\ mispaired' = mispaired /\ group' = group
        /\ lost \subseteq lost' /\ rivals \subseteq rivals'
    BY DEF Enters, Leaves, Emits
  <1>3. MispairInv' BY <1>1, <1>2, MispairKept
  <1>4. QED BY <1>1, <1>3, RingEmits, OrderEmits, PairEmits, OpenEmits, ExecEmits

LEMMA QuietKeeps ==
  ASSUME IInv, EventsInv, Quiet
  PROVE  RingInv' /\ OrderInv' /\ PairInv' /\ OpenInv' /\ ExecInv' /\ MispairInv'
  <1>1. /\ CallsInv /\ RingInv /\ OrderInv /\ PairInv /\ OpenInv /\ ExecInv /\ MispairInv
    BY DEF EventsInv
  <1>2. /\ mispaired' = mispaired /\ rivals \subseteq rivals' /\ lost \subseteq lost'
        /\ \A u \in Task : group[u] \in Task => group'[u] = group[u]
    BY DEF Quiet
  <1>3. MispairInv' BY <1>1, <1>2, MispairKept
  <1>4. QED BY <1>1, <1>3, RingQuiet, OrderQuiet, PairQuiet, OpenQuiet, ExecQuiet

LEMMA KernelKeepsEvents == ASSUME IInv, EventsInv, KernelStep PROVE EventsInv'
  <1>0. CountsTyped' BY CountsTypedKernel DEF EventsInv
  <1>1. /\ CallsInv /\ LaunchInv /\ CountsTyped /\ CountInv /\ OpenInv BY DEF EventsInv
  <1>2. ASSUME NEW t \in Task, NEW op \in Ops, SysEnter(t, op) PROVE EventsInv'
    <2>1. CallsInv' /\ LaunchInv' /\ CountInv' BY <1>1, <1>2, CallsEnter, LaunchEnter, CountEnter
    <2>2. PICK e : Enters(t, e) BY <1>1, <1>2, SysEnterEnters
    <2>3. RingInv' /\ OrderInv' /\ PairInv' /\ OpenInv' /\ ExecInv' /\ MispairInv'
      BY <2>2, EmitsKeep
    <2>4. QED BY <1>0, <2>1, <2>3 DEF EventsInv
  <1>3. ASSUME NEW t \in Task, SysExit(t) PROVE EventsInv'
    <2>1. CallsInv' /\ LaunchInv' /\ CountInv' BY <1>1, <1>3, CallsExit, LaunchExit, CountExit
    <2>2. PICK e : Leaves(t, e) BY <1>1, <1>3, SysExitLeaves
    <2>3. RingInv' /\ OrderInv' /\ PairInv' /\ OpenInv' /\ ExecInv' /\ MispairInv'
      BY <2>2, EmitsKeep
    <2>4. QED BY <1>0, <2>1, <2>3 DEF EventsInv
  <1>4. ASSUME NEW t \in Task, Spawn(t) PROVE EventsInv'
    <2>1. CallsInv' /\ LaunchInv' /\ CountInv' BY <1>1, <1>4, CallsSpawn, LaunchKernel, CountSpawn
    <2>2. Quiet BY <1>1, <1>4, QuietSpawn
    <2>3. QED BY <1>0, <2>1, <2>2, QuietKeeps DEF EventsInv
  <1>5. ASSUME NEW t \in Task, Dethread(t) \/ Exec(t) \/ Die(t) PROVE EventsInv'
    <2>1. CallsInv' BY <1>1, <1>5, CallsKernel
    <2>2. LaunchInv' BY <1>1, <1>5, LaunchKernel
    <2>3. CountInv' BY <1>1, <1>5, CountKernel
    <2>4. Quiet BY <1>1, <1>5, QuietKernel
    <2>5. QED BY <1>0, <2>1, <2>2, <2>3, <2>4, QuietKeeps DEF EventsInv
  <1>6. QED BY <1>2, <1>3, <1>4, <1>5 DEF KernelStep

LEMMA HandledKeepsEvents == ASSUME IInv, EventsInv, NEW e, Handled(e) PROVE EventsInv'
  <1>1. /\ CallsInv /\ RingInv /\ OrderInv /\ LaunchInv /\ PairInv /\ OpenInv /\ ExecInv /\ MispairInv
        /\ CountsTyped /\ CountInv
    BY DEF EventsInv
  <1>2. CallsInv'
    <2>1. UNCHANGED << tasks, rivals >>
      BY DEF Handled, HandleLaunch, HandleEntry, HandleExit, Take
    <2>2. QED BY <1>1, <2>1, CallsKept
  <1>3. CountsTyped'
    <2>1. Take(e) BY DEF Handled, HandleLaunch, HandleEntry, HandleExit
    <2>2. execs' = execs BY <2>1 DEF Take, tasks
    <2>3. PICK g : g = e.tgid OBVIOUS
    <2>4. images' = images \/ images' = [images EXCEPT ![g] = @ + 1]
      BY <2>3 DEF Handled, HandleLaunch, HandleEntry, HandleExit
    <2>5. QED BY <1>1, <2>2, <2>4 DEF CountsTyped
  <1>4. RingInv' /\ LaunchInv' /\ CountInv' BY <1>1, RingHandled, LaunchHandled, CountHandled
  <1>5. OrderInv' /\ PairInv' /\ OpenInv'
    BY <1>1, OrderHandled, PairHandled, OpenHandled
  <1>6. ExecInv' /\ MispairInv' BY <1>1, ExecHandled, MispairHandled
  <1>7. QED BY <1>2, <1>3, <1>4, <1>5, <1>6 DEF EventsInv

LEMMA LoopKeepsEvents ==
  ASSUME IInv, EventsInv, ReapRoot \/ Detach \/ Timeout \/ UNCHANGED vars PROVE EventsInv'
  <1>1. CallsInv /\ LaunchInv /\ CountsTyped /\ CountInv BY DEF EventsInv
  <1>2. CASE ReapRoot \/ Detach \/ UNCHANGED vars
    <2>1. UNCHANGED << group, status, call, calls, execs, images, filter, ring, pending, execTid,
                       mispaired, rivals, lost, initialExec >>
      BY <1>2 DEF ReapRoot, Detach, Ends, vars, tasks, seen, backend
    <2>2. CallsInv' BY <1>1, <2>1 DEF CallsInv, CallInv, InCall
    <2>3. Quiet BY <2>1, QuietSame
    <2>4. LaunchInv' BY <1>1, <2>1, LaunchKept
    <2>5. CountsTyped' BY <1>1, <2>1 DEF CountsTyped
    <2>6. CountInv' BY <1>1, <2>1, CountQuiet
    <2>7. QED BY <2>2, <2>3, <2>4, <2>5, <2>6, QuietKeeps DEF EventsInv
  <1>3. CASE Timeout
    <2>1. Quiet BY <1>1, <1>3, QuietTimeout
    <2>2. CallsInv' /\ LaunchInv' /\ CountInv' BY <1>1, <1>3, CallsTimeout, LaunchTimeout, CountTimeout
    <2>3. UNCHANGED << execs, images >> BY <1>3 DEF Timeout, Ends, seen
    <2>4. CountsTyped' BY <1>1, <2>3 DEF CountsTyped
    <2>5. QED BY <2>1, <2>2, <2>4, QuietKeeps DEF EventsInv
  <1>4. QED BY <1>2, <1>3

(* The events in flight tell of the calls what the kernel did, in whatever *)
(* order the tasks, the ring and the backend take their turns.             *)
THEOREM EventsInvariance == Spec => [](IInv /\ EventsInv)
  <1>1. Init => IInv /\ EventsInv BY InitIInv, InitEventsInv
  <1>2. IInv /\ EventsInv /\ [Next]_vars => EventsInv'
    <2>. SUFFICES ASSUME IInv, EventsInv, [Next]_vars PROVE EventsInv' OBVIOUS
    <2>1. CASE KernelStep BY <2>1, KernelKeepsEvents
    <2>2. CASE BackendStep BY <2>2, HandledKeepsEvents, LoopKeepsEvents DEF BackendStep, Handled
    <2>3. CASE UNCHANGED vars BY <2>3, LoopKeepsEvents
    <2>4. QED BY <2>1, <2>2, <2>3 DEF Next
  <1>3. QED BY <1>1, <1>2, BackendInvariance, PTL DEF Spec

(* The analyzer pairs an exit with the entry of the same call and leaves   *)
(* no returned call open, unless an event of the process was lost or two   *)
(* of its threads were in execve at once (handle_event of                  *)
(* src/ebpf_backend.cpp), for any number of tasks and any ring.            *)
THEOREM EntriesArePaired == Spec => []PairsOwnEntry
  <1>1. IInv /\ EventsInv => PairsOwnEntry
    <2>. SUFFICES ASSUME IInv, EventsInv PROVE PairsOwnEntry OBVIOUS
    <2>1. \A p \in mispaired : group[p[2].task] \in lost \cup rivals
      BY DEF EventsInv, MispairInv
    <2>2. ASSUME NEW t \in Task, ring = << >>, pending[t] # Nothing, group[t] \notin lost \cup rivals
          PROVE  Known(pending[t]) = Known(call[t]) \/ pending[t].op = "exit"
      <3>1. group[t] \in filter /\ pending[t].task = t BY <2>2 DEF EventsInv, RingInv, PendingInv
      <3>2. Open(pending[t]) BY <2>2, <3>1 DEF EventsInv, OpenInv, Sound
      <3>3. DOMAIN ring = {} BY <2>2
      <3>4. QED BY <3>1, <3>2, <3>3 DEF Open
    <2>3. QED BY <2>1, <2>2 DEF PairsOwnEntry
  <1>2. QED BY <1>1, EventsInvariance, PTL

(* With no event of a process lost or waiting, the analyzer has been told  *)
(* of each of its successful execs once, and not of the launcher's own     *)
(* (suppress_initial_exec_ of src/ebpf_backend.cpp).                       *)
THEOREM ImagesAlwaysCounted == Spec => []ImagesAreCounted
  <1>1. IInv /\ EventsInv => ImagesAreCounted
    <2>. SUFFICES ASSUME IInv, EventsInv, NEW g \in filter \ lost, ring = << >>,
                         \A t \in Threads(g) : status[t] # "execed"
                  PROVE  images[g] = execs[g] - IF g = Root /\ Launched THEN 1 ELSE 0
      BY DEF ImagesAreCounted
    <2>1. g \in Task /\ execs[g] \in Nat /\ images[g] \in Nat
      BY DEF IInv, MapsTyped, EventsInv, CountsTyped
    <2>2. DOMAIN ring = {} OBVIOUS
    <2>3. Successes(g) = {} BY <2>2 DEF Successes
    <2>4. Cardinality(Successes(g)) = 0 BY <2>3, FS_EmptySet
    <2>5. status[g] # "execed"
      BY <2>1 DEF Threads, EventsInv, CallsInv, CallInv
    <2>6. g = Root /\ Launched => ~initialExec
      BY <2>2, <2>5 DEF EventsInv, LaunchInv, Launching, LaunchReturning, LaunchOver
    <2>7. Counted(g) BY <2>1 DEF EventsInv, CountInv
    <2>8. CASE g = Root /\ Launched
      <3>1. execs[g] = images[g] + 0 + 0 + 1 BY <2>4, <2>5, <2>6, <2>7, <2>8 DEF Counted
      <3>2. QED BY <2>1, <2>8, <3>1
    <2>9. CASE ~(g = Root /\ Launched)
      <3>1. execs[g] = images[g] + 0 + 0 + 0 BY <2>4, <2>5, <2>7, <2>9 DEF Counted
      <3>2. QED BY <2>1, <2>9, <3>1
    <2>10. QED BY <2>8, <2>9
  <1>2. QED BY <1>1, EventsInvariance, PTL
=============================================================================
