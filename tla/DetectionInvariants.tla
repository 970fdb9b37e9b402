-------------------------- MODULE DetectionInvariants --------------------------
(***************************************************************************)
(* What the theorems about Detection speak of: the kinds of its steps, the *)
(* invariants of the trace (TraceInv), of pipes and edges (PipeTrace), of  *)
(* the findings (ReportTrace), of programs (StoryTrace) and of descriptors *)
(* (FlowTrace), and what the rules make of a finished graph.  The proofs   *)
(* are in DetectionProofs, which takes them in the same order.             *)
(***************************************************************************)
EXTENDS Detection, Selection

(* What the variables hold.                                                *)
Kinds == {"file", "socket", "peer", "pipe read", "pipe write"}
Roles == {NoSource, "read", "write"}
Ops   == {"open", "close", "read", "write", "connect", "execve"}
Names == {NoSource} \cup Endpoint \cup workload.names
What  == Names \cup Program \cup {NoValue, Secret, Large}
Maker == (Proc \cup {NoSession}) \X Nat
Pipes == {workload.files[k].pipe : k \in DOMAIN workload.files}

(* The end of a pipe is one that was inherited; there are no others. *)
FileType ==
  {file \in [kind: Kinds, name: Names, by: Maker, pipe: Nat, role: Roles] :
    /\ file.kind = "pipe read" <=> file.role = "read"
    /\ file.kind = "pipe write" <=> file.role = "write"
    /\ file.pipe # 0 <=> file.role # NoSource
    /\ file.role # NoSource => file.by[1] = NoSession /\ file.pipe \in Pipes}

CallType ==
  {c \in [op: Ops \cup {"none"}, fd: Nat, what: What, obs: Nat, ret: Int, done: BOOLEAN] :
    /\ c.op = "open" => c.what \in workload.names
    /\ c.op = "connect" => c.what \in Endpoint
    /\ c.op = "execve" => c.what \in Program
    /\ c.op = "write" => c.what \in {Secret, Large}
    /\ c.op \in {"close", "read", "write", "connect"} => c.fd \in Fd
    /\ c.op \in {"open", "execve"} => c.fd = 0}

EventType ==
  [type: {"Event"}, call: Ops, fd: Nat, ret: Int, source: What, value: {NoValue, Secret},
   inst: Proc, gen: Nat, res: Nat, role: Roles, start: Nat, end: Nat, pid: Proc]

ActualType ==
  [image: Proc \X Nat, kind: Kinds \cup {NoSource}, name: Names, by: Maker, from: Nat, what: What]

DatumType ==
  [call: {"memory", "environment", "read", "write"}, start: Nat, pid: Proc, origin: Nat,
   image: Proc \X Nat]

TypeInv ==
  /\ workload \in Workloads
  /\ call \in [Thread -> CallType]
  /\ \A t \in Thread : call[t] # NoCall => call[t].obs \in DOMAIN observations /\ call[t].op \in Ops
  /\ files \in Seq(FileType)
  /\ table \in [Proc -> [Fd -> 0 .. Len(files)]]
  /\ pipe \in [Pipes -> Seq(Nat)]
  /\ knows \subseteq Proc
  /\ generation \in [Proc -> Nat]
  /\ observations \in Seq(EventType)
  /\ actual \in Seq(ActualType) /\ Len(actual) = Len(observations)
  /\ edges \in Seq(Nat \X Nat)
  /\ data \in Seq(DatumType)
  /\ clock \in Nat

(* What a call is of, by its kind. *)
Fitting(p, c, payloads) ==
  /\ c.op \in Ops /\ c.what \in What /\ c.fd \in Nat
  /\ c.op \in {"open", "execve"} => c.fd = 0
  /\ c.op \notin {"open", "execve"} =>
       c.fd \in Fd /\ c.fd # 0 /\ table[p][c.fd] \in 1 .. Len(files)
  /\ c.op = "open" => c.what \in workload.names
  /\ c.op = "execve" => c.what \in Program
  /\ c.op = "connect" => c.what \in Endpoint /\ At(p, c.fd).kind = "socket"
  /\ c.op = "read" => At(p, c.fd).kind \in {"file", "peer", "pipe read"}
  /\ c.op = "write" => At(p, c.fd).kind \in {"socket", "peer", "pipe write"} /\ c.what \in payloads

(* The kinds of steps: an entry, an effect, an exit, and what the traced   *)
(* threads have no part in.                                                *)
Entry(t, c) ==
  LET p == Of(t)
      n == Len(observations) + 1
  IN
  /\ Tracing /\ call[t] = NoCall
  /\ c \in Offers(p, workload.offers[t], workload.payloads[t])
  /\ actual' = Append(actual, [image |-> Image(p), kind |-> NoSource, name |-> NoSource,
                               by |-> Image(p), from |-> 0, what |-> c.what])
  /\ call' = [call EXCEPT ![t] = [op |-> c.op, fd |-> c.fd, what |-> c.what,
                                  obs |-> n, ret |-> 0, done |-> FALSE]]
  /\ observations' = Append(observations, EventObservation(p, c, clock + 1))
  /\ clock' = clock + 1
  /\ UNCHANGED << workload, files, table, pipe, knows, program, generation, edges,
                  rules, disabled, report >>

(* What an entry or an exit adds to the data. *)
Found(p, time, n, locations) ==
  {DataObservation(p, l, time, o) : l \in locations, o \in {0, n}}

(* An effect: its thread's call now has a return value. *)
Effect(t, ret) ==
  /\ Tracing /\ call[t] # NoCall /\ ~call[t].done
  /\ ret \in Int
  /\ Done(t, ret)
  /\ UNCHANGED << workload, clock, observations, edges, data, scanned, rules, disabled, report >>

Effects(t) ==
  Fails(t) \/ Opens(t) \/ Closes(t) \/ ConnectsTo(t) \/ Reads(t) \/ Writes(t) \/ Execs(t)

(* An exit. *)
Leaving(t) ==
  /\ Tracing /\ call[t] # NoCall /\ call[t].done
  /\ call' = [call EXCEPT ![t] = NoCall]
  /\ observations' = [observations EXCEPT ![call[t].obs] = Returned(observations[call[t].obs], call[t], clock + 1)]
  /\ clock' = clock + 1
  /\ UNCHANGED << workload, files, table, pipe, knows, program, actual, generation,
                  rules, disabled, report >>

Linked(t) ==
  edges' = IF call[t].op = "read" /\ call[t].ret > 0 THEN Link(observations', edges, call[t].obs)
           ELSE IF call[t].op = "write" THEN Reconcile(observations', edges, call[t].obs)
           ELSE edges

(* What changes nothing that the analyzer sees. *)
Aside ==
  UNCHANGED << workload, call, pipe, knows, program, actual, clock, generation, observations,
               edges, data >>

-----------------------------------------------------------------------------
(* The edges.                                                              *)
IsLink(obs, e) ==
  /\ e[2] \in DOMAIN obs /\ Linkable(obs, e[2])
  /\ e[1] \in Suppliers(obs, e[2])
  /\ \A v \in Suppliers(obs, e[2]) : v <= e[1]

(* What linking reads makes of the known edges. *)
Links(obs, known, new, reads) ==
  /\ new \in Seq(Nat \X Nat)
  /\ \A e \in Range(known) : e \in Range(new)
  /\ \A e \in Range(new) : e \in Range(known) \/ (IsLink(obs, e) /\ e[2] \in reads)
  /\ \A r \in reads : Linkable(obs, r) => \E e \in Range(new) : IsLink(obs, e) /\ e[2] = r

Matching(obs, w) == {r \in DOMAIN obs : obs[r].call = "read" /\ obs[r].res = obs[w].res /\ obs[r].value = obs[w].value}

-----------------------------------------------------------------------------
CallsAt(c, n) ==
  /\ c \in [Thread -> CallType]
  /\ \A t \in Thread : c[t] # NoCall => c[t].obs \in 1 .. n /\ c[t].op \in Ops

(* What an effect does to the calls. *)
Answered(t, ret) ==
  /\ \A u \in Thread : u # t => call'[u] = call[u]
  /\ call'[t].op = call[t].op /\ call'[t].fd = call[t].fd /\ call'[t].what = call[t].what
  /\ call'[t].obs = call[t].obs /\ call'[t].ret = ret /\ call'[t].done = TRUE
  /\ call'[t] # NoCall

-----------------------------------------------------------------------------
(* What the three kinds of steps make of observations and calls.           *)
Obs == DOMAIN observations

(* An entry: the observation n is new. *)
Entered(t, c, n) ==
  LET p == Of(t) IN
  /\ Tracing /\ t \in Thread /\ call[t] = NoCall /\ p \in Proc
  /\ c \in Offers(p, workload.offers[t], workload.payloads[t])
  /\ c.op \in workload.offers[t] /\ Fitting(p, c, workload.payloads[t])
  /\ workload.payloads[t] \subseteq {Secret, Large}
  /\ n = Len(observations) + 1 /\ n \in Nat
  /\ n \notin Obs /\ Obs' = Obs \cup {n} /\ \A m \in Obs : m < n /\ m \in Nat
  /\ \A m \in Obs : observations'[m] = observations[m] /\ actual'[m] = actual[m]
  /\ observations'[n] = EventObservation(p, c, clock + 1)
  /\ actual'[n] = [image |-> Image(p), kind |-> NoSource, name |-> NoSource,
                   by |-> Image(p), from |-> 0, what |-> c.what]
  /\ \A u \in Thread : u # t => call'[u] = call[u]
  /\ call'[t] = [op |-> c.op, fd |-> c.fd, what |-> c.what, obs |-> n, ret |-> 0, done |-> FALSE]
  /\ call'[t] # NoCall
  /\ clock \in Nat /\ clock' = clock + 1
  /\ UNCHANGED << workload, files, table, pipe, knows, program, generation, edges,
                  rules, disabled, report >>

(* An exit: the observation n is complete. *)
Left(t, n) ==
  /\ Tracing /\ t \in Thread /\ Of(t) \in Proc /\ call[t] # NoCall /\ call[t].done
  /\ n = call[t].obs /\ n \in Obs /\ Obs' = Obs
  /\ call[t] \in CallType /\ call[t].op \in Ops
  /\ \A m \in Obs : m \in Nat /\ observations[m] \in EventType /\ (m # n => observations'[m] = observations[m])
  /\ observations'[n] = Returned(observations[n], call[t], clock + 1)
  /\ \A u \in Thread : u # t => call'[u] = call[u]
  /\ call'[t] = NoCall
  /\ clock \in Nat /\ clock' = clock + 1
  /\ UNCHANGED << workload, files, table, pipe, knows, program, actual, generation,
                  rules, disabled, report >>

(* An effect: only reads and writes have a part in actual. *)
Affected(t, ret) ==
  LET n == call[t].obs IN
  /\ Tracing /\ t \in Thread /\ Of(t) \in Proc
  /\ call[t] # NoCall /\ ~call[t].done /\ call[t] \in CallType /\ call[t].op \in Ops
  /\ n \in Obs /\ ret \in Int /\ Answered(t, ret)
  /\ \A m \in Obs : m \in Nat /\ (m # n => actual'[m] = actual[m])
  /\ actual'[n].image = actual[n].image /\ actual'[n].what = actual[n].what
  /\ call[t].op \notin {"read", "write"} => actual'[n] = actual[n]
  /\ call[t].op = "read" => (ret = 1 /\ actual'[n].kind \in Kinds) \/ (ret < 0 /\ actual'[n] = actual[n])
  /\ \A p \in Proc : generation'[p] = generation[p] + IF p = Of(t) /\ call[t].op = "execve" /\ ret = 0 THEN 1 ELSE 0
  /\ UNCHANGED << workload, clock, observations, edges, data, scanned, rules, disabled, report >>

(* Every call has a time of its own. *)
TimeInv ==
  /\ \A n \in Obs : LET o == observations[n] IN
       /\ 0 < o.start /\ o.start <= clock /\ o.end <= clock
       /\ o.end # 0 => o.start < o.end
  /\ \A m, n \in Obs : m < n => observations[m].start < observations[n].start
  /\ \A m, n \in Obs : observations[m].end # observations[n].start

(* An exit keeps what was known of the call. *)
SameCall(m) ==
  LET o == observations[m]
      new == observations'[m]
  IN
  /\ new.type = o.type /\ new.call = o.call /\ new.fd = o.fd /\ new.source = o.source
  /\ new.inst = o.inst /\ new.gen = o.gen /\ new.res = o.res /\ new.role = o.role
  /\ new.start = o.start /\ new.pid = o.pid

(* An observation is of the image that made it. *)
ImageInv ==
  /\ \A n \in Obs : LET o == observations[n] IN
       /\ o.inst = o.pid /\ actual[n].image = << o.pid, o.gen >>
       /\ o.gen <= generation[o.pid]
  /\ \A m, n \in Obs : m < n /\ observations[m].pid = observations[n].pid
       => observations[m].gen <= observations[n].gen

(* The observation of a call that has not returned. *)
Changed(t) == call[t].op = "execve" /\ call[t].done /\ call[t].ret = 0

Underway(t) ==
  LET c == call[t]
      o == observations[c.obs]
      a == actual[c.obs]
  IN
  /\ c.obs \in Obs /\ c.op \in workload.offers[t]
  /\ o.end = 0 /\ o.ret = 0 /\ o.call = c.op /\ o.fd = c.fd /\ o.pid = Of(t)
  /\ o.source = IF c.op \in {"open", "connect", "execve"} THEN c.what ELSE NoSource
  /\ generation[Of(t)] = o.gen + IF Changed(t) THEN 1 ELSE 0
  /\ ~c.done => a.kind = NoSource
  /\ c.op = "read" /\ c.done => (c.ret = 1 /\ a.kind # NoSource) \/ (c.ret < 0 /\ a.kind = NoSource)

CallInv ==
  /\ \A t \in Thread : call[t] # NoCall => Underway(t)
  /\ \A t, u \in Thread : t # u /\ call[t] # NoCall /\ call[u] # NoCall => call[t].obs # call[u].obs
  /\ \A n \in Obs : observations[n].end = 0 => \E t \in Thread : call[t] # NoCall /\ call[t].obs = n

(* What was extracted came from the image its process had at the time. *)
GoodDatum(d) ==
  /\ d.image[1] = d.pid /\ d.start <= clock
  /\ \E n \in Obs : /\ observations[n].pid = d.pid /\ observations[n].start <= d.start
                    /\ observations[n].gen = d.image[2]
  /\ \A n \in Obs : observations[n].pid = d.pid /\ observations[n].start <= d.start
                    => observations[n].gen <= d.image[2]
  /\ d.origin # 0 => /\ d.origin \in Obs
                     /\ << observations[d.origin].inst, observations[d.origin].gen >> = d.image

DataInv == \A k \in DOMAIN data : GoodDatum(data[k])

-----------------------------------------------------------------------------
(* The finished graph: the observations, then the data.                    *)
DataType ==
  [type: {"Data"}, call: {"memory", "environment", "read", "write"}, fd: {0}, ret: {0}, source: What,
   value: {Secret}, inst: Proc, gen: Nat, res: Nat, role: Roles, start: Nat, end: Nat, pid: Proc,
   origin: Nat, image: Proc \X Nat]

GraphType == EventType \cup DataType

(* A data observation is of the image that it was extracted from. *)
GraphDatum(o, d) ==
  /\ o \in DataType
  /\ o.call = d.call /\ o.start = d.start /\ o.pid = d.pid /\ o.origin = d.origin
  /\ o.image = d.image /\ << o.inst, o.gen >> = d.image
  /\ d.origin # 0 => o.res = observations[d.origin].res

Appended(obs, n) ==
  /\ obs \in Seq(GraphType) /\ Len(obs) = Len(observations) + n
  /\ \A m \in Obs : m \in DOMAIN obs /\ obs[m] = observations[m]
  /\ \A k \in 1 .. n : GraphDatum(obs[Len(observations) + k], data[k])

-----------------------------------------------------------------------------
(* The report is of the trace as it was left.                              *)
Findings == R!Detect(Finished, Registry!ActiveRules("Primary"), Registry!ActiveRules("Composite"))

ReportInv ==
  Reported => \E minimum \in workload.minimums :
                report = Report(Finished, Findings, R!Filtered(Findings, minimum))

-----------------------------------------------------------------------------
TraceInv == TypeInv /\ TimeInv /\ ImageInv /\ CallInv /\ DataInv /\ ReportInv

-----------------------------------------------------------------------------
(* What the effects make of descriptors.                                   *)
Same(q, g) ==
  /\ table'[q][g] = table[q][g]
  /\ table[q][g] # 0 => files'[table[q][g]] = files[table[q][g]]

(* A new file at a free descriptor. *)
Opened(p, f, kind, name) ==
  /\ p \in Proc /\ f \in Fd /\ table[p][f] = 0
  /\ table'[p][f] # 0 /\ files'[table'[p][f]] = NewFile(kind, name, p)
  /\ \A q \in Proc, g \in Fd : table[q][g] # table'[p][f]
  /\ \A q \in Proc, g \in Fd : q # p \/ g # f => Same(q, g)

Closed(p, f) ==
  /\ p \in Proc /\ f \in Fd /\ table[p][f] # 0 /\ table'[p][f] = 0
  /\ \A q \in Proc, g \in Fd : q # p \/ g # f => Same(q, g)

Connected(p, f, name) ==
  /\ p \in Proc /\ f \in Fd /\ table[p][f] # 0 /\ UNCHANGED table
  /\ At(p, f) \in FileType /\ At(p, f).kind = "socket" /\ At(p, f).name = NoSource
  /\ files'[table[p][f]] = [At(p, f) EXCEPT !.name = name, !.by = Image(p)]
  /\ \A q \in Proc, g \in Fd : table[q][g] # table[p][f] => Same(q, g)

(* What actual says of it afterwards. *)
Marked(a, b, file, from) ==
  /\ b.kind = file.kind /\ b.name = file.name /\ b.by = file.by /\ b.from = from
  /\ b.image = a.image /\ b.what = a.what

(* A read or a write: of the file that its descriptor is of now. *)
Acted(t, file, from) ==
  /\ file = At(Of(t), call[t].fd) /\ table[Of(t)][call[t].fd] # 0 /\ call[t].fd \in Fd
  /\ file \in FileType
  /\ Marked(actual[call[t].obs], actual'[call[t].obs], file, from) /\ UNCHANGED << files, table >>

-----------------------------------------------------------------------------
(* Descriptors of pipes.  They are inherited, and a process that has one   *)
(* has a single thread: nothing comes between its calls.                   *)
Alone(p) == \A t, u \in Thread : Of(t) = p /\ Of(u) = p => t = u

HasEnd(p, n, role) ==
  \E f \in Fd : LET k == workload.tables[p][f] IN
    k # 0 /\ workload.files[k].pipe = n /\ workload.files[k].role = role

GoodEnd(p, n, role) == Alone(p) /\ role # NoSource /\ HasEnd(p, n, role)

(* The descriptor of a call that has not taken effect is what it was. *)
Steady(t) ==
  LET p == Of(t)
      f == call[t].fd
      o == observations[call[t].obs]
  IN Alone(p) => table[p][f] # 0 /\ At(p, f).pipe = o.res

Ends == {e \in Proc \X Nat \X Roles : GoodEnd(e[1], e[2], e[3])}

EndsInv ==
  /\ \A p \in Proc, f \in Fd : table[p][f] # 0 /\ At(p, f).pipe # 0 => << p, At(p, f).pipe, At(p, f).role >> \in Ends
  /\ \A n \in Obs : LET o == observations[n] IN o.res # 0 =>
       /\ << o.pid, o.res, o.role >> \in Ends
       /\ o.call = "read" => o.role = "read"
       /\ o.call = "write" => o.role = "write"
  /\ \A t \in Thread : call[t] # NoCall /\ ~call[t].done /\ call[t].op \in {"read", "write"} => Steady(t)

(* The end at a descriptor is what it was. *)
SameEnd(q, g) == table'[q][g] # 0 /\ At(q, g)'.pipe = At(q, g).pipe /\ At(q, g)'.role = At(q, g).role

NoNewEnds ==
  \A q \in Proc, g \in Fd : table'[q][g] # 0 /\ At(q, g)'.pipe # 0 => table[q][g] # 0 /\ SameEnd(q, g)

Waits(u) ==
  /\ call'[u] = call[u] /\ call[u] # NoCall
  /\ Alone(Of(u)) /\ table[Of(u)][call[u].fd] # 0 => SameEnd(Of(u), call[u].fd)

-----------------------------------------------------------------------------
(* What an observation says of its value.                                  *)
HasValue(n) ==
  LET o == observations[n]
      a == actual[n]
  IN
  /\ o.call = "read" =>
       \/ o.end = 0 /\ o.value = NoValue
       \/ o.end # 0 /\ o.ret = 1 /\ o.value = Secret /\ a.kind # NoSource
       \/ o.end # 0 /\ o.ret < 0 /\ o.value = NoValue /\ a.kind = NoSource
  /\ o.call = "write" => /\ o.value = IF a.what = Secret THEN Secret ELSE NoValue
                         /\ o.end # 0 /\ a.kind = "pipe write" => o.ret = 1
  /\ o.call \notin {"read", "write"} => o.value = NoValue
  /\ o.call \in {"open", "connect"} => o.source # NoSource

Succeeds(t) ==
  call[t].op = "write" /\ call[t].done /\ actual[call[t].obs].kind = "pipe write" => call[t].ret = 1

ValueInv ==
  /\ \A n \in Obs : HasValue(n)
  /\ \A t \in Thread : call[t] # NoCall => Succeeds(t)

-----------------------------------------------------------------------------
(* What is in a pipe, and what a read of one was given.                    *)
Supplies(v, n) ==
  v \in Obs /\ observations[v].call = "write" /\ observations[v].res = n /\ actual[v].kind = "pipe write"

(* A read has from the moment it takes effect what one of the writes on    *)
(* the same pipe put there.                                                *)
WasGiven(r) ==
  LET v == actual[r].from
      o == observations[r]
  IN
  /\ v # 0 => /\ Supplies(v, o.res) /\ o.res # 0 /\ o.call = "read" /\ actual[r].kind # NoSource
              /\ o.end # 0 => observations[v].start <= o.end
  /\ o.call = "read" /\ o.res # 0 /\ actual[r].kind # NoSource => v # 0

PipeInv ==
  /\ \A q \in Pipes : \A v \in Range(pipe[q]) : Supplies(v, q)
  /\ \A r \in Obs : WasGiven(r)

-----------------------------------------------------------------------------
(* Edges.                                                                  *)
IsEdge(e) ==
  LET w == observations[e[1]]
      r == observations[e[2]]
  IN
  /\ e[1] \in Obs /\ e[2] \in Obs
  /\ w.call = "write" /\ w.ret > 0 /\ r.call = "read" /\ r.ret > 0
  /\ w.res = r.res /\ r.res # 0 /\ w.value = r.value /\ r.value # NoValue
  /\ w.start <= r.end

(* A read is linked to the last of the writes that it can be linked to, or *)
(* to one that was the last when it was linked.                            *)
EdgeInv ==
  /\ \A e \in Range(edges) : IsEdge(e)
  /\ \A r \in Obs : Linkable(observations, r) =>
       \A v \in Suppliers(observations, r) : \E e \in Range(edges) : e[2] = r /\ v <= e[1]

-----------------------------------------------------------------------------
PipeTrace == TraceInv /\ EndsInv /\ ValueInv /\ PipeInv /\ EdgeInv

-----------------------------------------------------------------------------
(* Of the helpers on sequences: where the elements of a flattened sequence *)
(* are from.                                                               *)
From(from, s, parts, n) ==
  /\ from \in [DOMAIN s -> Nat \X Nat]
  /\ \A k \in DOMAIN s : \E i \in 1 .. n : \E j \in DOMAIN parts[i] : from[k] = << i, j >> /\ s[k] = parts[i][j]
  /\ \A i \in 1 .. n : \A j \in DOMAIN parts[i] : \E k \in DOMAIN s : from[k] = << i, j >>
  /\ \A k, l \in DOMAIN s : k # l => from[k] # from[l]

Flat(s, parts, n) == \E from : From(from, s, parts, n)

Built(s, parts, N, S) ==
  \E g \in [0 .. N -> Seq(S)] :
    /\ g[0] = << >> /\ g[N] = s
    /\ \A i \in 1 .. N : g[i] = g[i - 1] \o parts[i]

(* Of parts that are single, or pairs, the order is kept.                  *)
Joined(t, s, n, part, m) ==
  /\ DOMAIN t = 1 .. n + m
  /\ \A i \in 1 .. n : t[i] = s[i]
  /\ \A i \in 1 .. m : t[n + i] = part[i]

Singly(s, parts, n) ==
  DOMAIN s = 1 .. n /\ \A i \in 1 .. n : s[i] = parts[i][1]

Paired(s, parts, n) ==
  DOMAIN s = 1 .. 2 * n /\ \A i \in 1 .. n : s[2 * i - 1] = parts[i][1] /\ s[2 * i] = parts[i][2]

-----------------------------------------------------------------------------
(* Of the helpers on findings.                                             *)
IsFinding(f) == DOMAIN f = DOMAIN R!Finding

(* Some of the findings, or one for each of some observations: every one   *)
(* once.                                                                   *)
Picked(s, N, fits, make) ==
  /\ s \in Seq(Range(s))
  /\ Range(s) = {make[n] : n \in (1 .. N) \cap fits}
  /\ \E from \in [DOMAIN s -> 1 .. N] :
       /\ \A k \in DOMAIN s : from[k] \in fits /\ s[k] = make[from[k]]
       /\ \A k, l \in DOMAIN s : k # l => from[k] # from[l]

-----------------------------------------------------------------------------
RuleId == Range(R!RuleIds)

RegistryInv == rules \in Seq(RuleId) /\ IsInjective(rules)

-----------------------------------------------------------------------------
IsGraph(graph) == graph.obs \in Seq(GraphType) /\ graph.edges \in Seq(Nat \X Nat)

(* The paths between the boundaries, and the finding of each.              *)
Chains(graph) == R!MaximalPaths(R!Successors(graph, R!Boundaries(graph)))

Along(graph, path) == [k \in DOMAIN path |-> graph.edges[path[k]]]

ChainOf(graph, previous, path) ==
  LET e == Along(graph, path)
  IN R!ChainFinding(graph, previous, e, graph.obs[e[1][1]].value, R!ChainSessions(graph, e))

-----------------------------------------------------------------------------
(* What each rule makes.                                                   *)
Made(s, kind) ==
  s \in Seq(Range(s)) /\ \A f \in Range(s) : IsFinding(f) /\ f.kind = kind

PresenceOn(graph, n) ==
  [R!Finding EXCEPT !.kind = "sensitive_data_presence", !.severity = "High",
                    !.value = graph.obs[n].value, !.evidence = << n >>]

AccessOn(graph, n) ==
  [R!Finding EXCEPT !.kind = "sensitive_resource_access", !.severity = R!PathSeverity(graph.obs[n].source),
                    !.source = graph.obs[n].source, !.outcome = R!Outcome(graph.obs[n].ret), !.evidence = << n >>]

ConnectionOn(graph, n) ==
  [R!Finding EXCEPT !.kind = "suspicious_network_connection", !.severity = "Medium",
                    !.destination = graph.obs[n].source, !.evidence = << n >>]

FlowOf(graph, previous, t) == R!FlowFinding(graph, previous, t, graph.obs[t[1]].value)

FirstFlow(graph) == R!FirstFlows(graph, R!Flows(graph))

KindOf(rule) ==
  CASE rule = R!RuleIds[1] -> "suspicious_network_connection"
    [] rule = R!RuleIds[2] -> "sensitive_data_flow"
    [] rule = R!RuleIds[3] -> "sensitive_data_presence"
    [] rule = R!RuleIds[4] -> "sensitive_resource_access"
    [] rule = R!RuleIds[5] -> "sensitive_value_cross_process_pipe_chain"

-----------------------------------------------------------------------------
(* A stage adds to the findings so far what its rules make, each with the  *)
(* name of its rule and its position as its id.                            *)
Copied(g, f, rule, id) ==
  /\ IsFinding(g) /\ g.rule = rule /\ g.id = id
  /\ g.kind = f.kind /\ g.severity = f.severity /\ g.value = f.value
  /\ g.source = f.source /\ g.destination = f.destination /\ g.outcome = f.outcome
  /\ g.sessions = f.sessions /\ g.edges = f.edges /\ g.evidence = f.evidence /\ g.support = f.support

Labelled(g, f, rule) ==
  /\ IsFinding(g) /\ g.rule = rule
  /\ g.kind = f.kind /\ g.severity = f.severity /\ g.value = f.value
  /\ g.source = f.source /\ g.destination = f.destination /\ g.outcome = f.outcome
  /\ g.sessions = f.sessions /\ g.edges = f.edges /\ g.evidence = f.evidence /\ g.support = f.support

Staged(all, which, graph, previous) ==
  /\ all \in Seq(Range(all))
  /\ \A k \in DOMAIN previous : k \in DOMAIN all /\ all[k] = previous[k]
  /\ \E from :
       /\ \A k \in DOMAIN all : k \notin DOMAIN previous =>
            \E i \in DOMAIN which : \E j \in DOMAIN R!RuleFindings(which[i], graph, previous) :
              from[k] = << i, j >> /\ Copied(all[k], R!RuleFindings(which[i], graph, previous)[j], which[i], k)
       /\ \A i \in DOMAIN which : \A j \in DOMAIN R!RuleFindings(which[i], graph, previous) :
            \E k \in DOMAIN all : k \notin DOMAIN previous /\ from[k] = << i, j >>
       /\ \A k, l \in DOMAIN all : k \notin DOMAIN previous /\ l \notin DOMAIN previous /\ k # l => from[k] # from[l]

-----------------------------------------------------------------------------
(* The findings of the report, each by its rule.                           *)
FromStage(all, which, graph, previous) ==
  LET new == DOMAIN all \ DOMAIN previous
      made(rule) == R!RuleFindings(rule, graph, previous)
  IN
  /\ all \in Seq(Range(all))
  /\ \A k \in DOMAIN previous : k \in DOMAIN all /\ all[k] = previous[k]
  /\ \A k \in new : all[k].rule \in Range(which) /\ \E g \in Range(made(all[k].rule)) : Copied(all[k], g, all[k].rule, k)
  /\ \A rule \in Range(which) : \A g \in Range(made(rule)) : \E k \in new : Copied(all[k], g, rule, k)
  /\ \A k, l \in new : k # l /\ all[k].rule = all[l].rule =>
       \E i, j \in DOMAIN made(all[k].rule) :
         /\ i # j
         /\ Copied(all[k], made(all[k].rule)[i], all[k].rule, k)
         /\ Copied(all[l], made(all[k].rule)[j], all[k].rule, l)

Primary == R!RunStage(Registry!ActiveRules("Primary"), Finished, << >>)

(* The findings a rule sees, and what it makes.                            *)
Before(rule) == IF R!StageOf[rule] = "Composite" THEN Primary ELSE << >>

MadeBy(rule) == R!RuleFindings(rule, Finished, Before(rule))

FromRule(f) ==
  /\ f.rule \in RuleId /\ IsActive(f.rule)
  /\ IsFinding(f) /\ f.kind = KindOf(f.rule)
  /\ \E g \in Range(MadeBy(f.rule)) : Copied(f, g, f.rule, f.id)

FindingsAre ==
  /\ Findings \in Seq(Range(Findings))
  /\ \A k \in DOMAIN Findings : Findings[k].id = k /\ FromRule(Findings[k])
  /\ \A rule \in RuleId : IsActive(rule) =>
       \A g \in Range(MadeBy(rule)) : \E f \in Range(Findings) : Copied(f, g, rule, f.id)
  /\ \A k, l \in DOMAIN Findings : k # l /\ Findings[k].rule = Findings[l].rule =>
       LET made == MadeBy(Findings[k].rule) IN
       \E i, j \in DOMAIN made :
         /\ i # j
         /\ Copied(Findings[k], made[i], Findings[k].rule, k)
         /\ Copied(Findings[l], made[j], Findings[k].rule, l)
  /\ Primary \in Seq(Range(Primary))
  /\ \A k \in DOMAIN Primary : /\ k \in DOMAIN Findings /\ Findings[k] = Primary[k]
                               /\ R!StageOf[Primary[k].rule] = "Primary"
  /\ \A k \in DOMAIN Findings : k \notin DOMAIN Primary => R!StageOf[Findings[k].rule] = "Composite"

-----------------------------------------------------------------------------
(* The chains.                                                             *)
ReportTrace == PipeTrace /\ RegistryInv

IsChainOf(f, path) ==
  /\ path \in Chains(Finished)
  /\ f.edges = Along(Finished, path)
  /\ f.sessions = R!ChainSessions(Finished, f.edges)
  /\ f.evidence = FlattenSeq(f.edges)
  /\ f.value = Finished.obs[f.edges[1][1]].value
  /\ Copied(f, ChainOf(Finished, Primary, path), f.rule, f.id)

(* Each edge along a path is a boundary between two processes, and the     *)
(* read of the one had returned before the write of the next.              *)
Passes(from, to) ==
  /\ R!Session(observations[from[2]]) = R!Session(observations[to[1]])
  /\ observations[from[2]].end # 0
  /\ observations[from[2]].end <= observations[to[1]].start

IsPath(e, N) ==
  /\ N \in Nat /\ N >= 2 /\ DOMAIN e = 1 .. N /\ e \in Seq(Range(e))
  /\ \A k \in 1 .. N : e[k] \in Range(edges) /\ IsEdge(e[k])
  /\ \A k \in 1 .. N - 1 : Passes(e[k], e[k + 1])

(* What an edge says of the calls.                                         *)
EdgeIsReal(e) ==
  LET w == e[1]
      r == e[2]
      supplier == actual[r].from
  IN
  /\ w \in Obs /\ r \in Obs
  /\ actual[w].image = R!Session(observations[w]) /\ actual[r].image = R!Session(observations[r])
  /\ supplier # 0
  /\ OneWriter(r) => actual[supplier].image = actual[w].image

-----------------------------------------------------------------------------
(* Two boundaries of which one follows the other are on a path that cannot *)
(* be made longer: each boundary ends later than the one before, so no     *)
(* path enters one twice, and the longest path through the two is maximal. *)
Rising(next, B, m) ==
  /\ DOMAIN next = B /\ m \in [B -> Nat]
  /\ \A b \in B : next[b] \subseteq B
  /\ \A b \in B : \A c \in next[b] : m[b] < m[c]

Follows(path, n, next, B) ==
  /\ n \in Nat /\ path \in [1 .. n -> B]
  /\ \A k \in 1 .. n - 1 : path[k + 1] \in next[path[k]]

Through(path, n, b, c) == \E k \in 1 .. n - 1 : path[k] = b /\ path[k + 1] = c

-----------------------------------------------------------------------------
(* The boundaries of the graph, and when each ended.                       *)
Border == R!Boundaries(Finished)

Onward == R!Successors(Finished, Border)

Ending == [b \in Border |-> observations[edges[b][2]].end]

-----------------------------------------------------------------------------
(* Their presence findings. *)
Sighted(value) == {g \in Range(Primary) : g.kind = "sensitive_data_presence" /\ g.value = value}

(* A flow is made of three observations.                                   *)
IsFlowOf(f, t) ==
  /\ t \in FirstFlow(Finished)
  /\ f.evidence = t
  /\ f.value = Finished.obs[t[1]].value
  /\ f.source = R!Resolved(Finished, t[1]).path /\ f.destination = R!Resolved(Finished, t[3]).endpoint
  /\ f.support = R!Ids(R!PresenceOf(Primary, f.value))
  /\ f.severity = "High"

(* What the observations of a flow are. *)
IsFlowEvidence(t) ==
  /\ t = << t[1], t[2], t[3] >>
  /\ t[1] \in Obs /\ observations[t[1]].call = "read" /\ observations[t[1]].value # NoValue
  /\ t[3] \in Obs /\ observations[t[3]].call = "write" /\ observations[t[3]].value # NoValue
  /\ t[2] \in DOMAIN Finished.obs /\ Finished.obs[t[2]].type = "Data" /\ Finished.obs[t[2]].call = "memory"
  /\ R!Resolved(Finished, t[1]).path # NoSource /\ R!Resolved(Finished, t[3]).endpoint # NoSource
  /\ \A n \in {t[2], t[3]} : /\ Finished.obs[n].value = Finished.obs[t[1]].value
                             /\ R!SameSession(Finished.obs[n], Finished.obs[t[1]])
  /\ t[1] < t[3]

-----------------------------------------------------------------------------
IsPair(e) == e = << e[1], e[2] >> /\ e \in Seq(Nat) /\ DOMAIN e = 1 .. 2

-----------------------------------------------------------------------------
(* The program of each image is the one of the exec that made it, and that *)
(* is the only exec of the image before which did not fail.                *)
Execed(n, p, g) ==
  LET o == observations[n] IN o.call = "execve" /\ o.ret = 0 /\ o.pid = p /\ o.gen = g

Succeeded(p, g) ==
  /\ << p, g + 1 >> \in DOMAIN program
  /\ \A n \in Obs : Execed(n, p, g) => observations[n].source = program[<< p, g + 1 >>]
  /\ \E n \in Obs : Execed(n, p, g)

ProgramInv ==
  /\ \A p \in Proc : << p, 0 >> \in DOMAIN program /\ program[<< p, 0 >>] = NoProgram
  /\ \A p \in Proc, g \in Nat : g < generation[p] => Succeeded(p, g)
  /\ \A n \in Obs : LET o == observations[n] IN
       o.call = "execve" => o.source \in Program /\ (o.ret = 0 /\ o.end # 0 => o.gen < generation[o.pid])

StoryTrace == ReportTrace /\ ProgramInv

IsLast(n, S) == n \in {0} \cup S /\ \A m \in S : m <= n

(* The stories are of findings that are shown.                             *)
NoPrograms == [p \in Proc |-> NoProgram]

TaleOf(f) ==
  [finding |-> f.id, value |-> f.value,
   sessions |-> Tell!Told(Finished, NoPrograms, Tell!SessionsOf(Finished, f)),
   statements |-> Tell!StatementsOf(Finished, f)]

Composites == {"sensitive_data_flow", "sensitive_value_cross_process_pipe_chain"}

-----------------------------------------------------------------------------
(* The sessions of a story.                                                *)
SessionAt(n) == Tell!Session(Finished.obs[n])

(* What the rule takes for the last call that rebound a descriptor. *)
RebindOf(n) == R!LastRebind(Finished, Finished.obs[n], Finished.obs[n].fd, n)

Rebindings(n) ==
  {m \in 1 .. n - 1 : /\ R!IsEvent(Finished.obs[m]) /\ R!SameSession(Finished.obs[m], Finished.obs[n])
                      /\ R!Rebinds(Finished.obs[m], Finished.obs[n].fd)}

-----------------------------------------------------------------------------
(* Flows.  Files other than pipe ends are private to the descriptor of a   *)
(* process, and made or connected by an image of the past or of now.       *)
OldMaker(p, f) == At(p, f).by[1] \in Proc => At(p, f).by[2] <= generation[At(p, f).by[1]]

FilesInv ==
  /\ \A p \in Proc, f \in Fd : table[p][f] # 0 => OldMaker(p, f)
  /\ \A p, q \in Proc, f, g \in Fd :
       table[p][f] # 0 /\ table[p][f] = table[q][g] /\ At(p, f).role = NoSource => p = q /\ f = g

-----------------------------------------------------------------------------
(* The replay of calls in the order of their entries agrees with the       *)
(* descriptors themselves, unless calls that rebind descriptors race.      *)

(* The call n took effect and returns, or returned, ret. *)
Took(n, ret) ==
  \/ observations[n].end # 0 /\ observations[n].ret = ret
  \/ \E t \in Thread : call[t] # NoCall /\ call[t].obs = n /\ call[t].done /\ call[t].ret = ret

Rebound(n, f) ==
  \/ observations[n].call = "open" /\ Took(n, f)
  \/ observations[n].call \in {"close", "connect"} /\ observations[n].fd = f /\ Took(n, 0)

NoRace(i) == \A m, n \in RebindingCalls(i) : ~Overlap(m, n)

LastRebound(n, f, i) ==
  /\ n \in RebindingCalls(i) /\ Rebound(n, f)
  /\ \A m \in RebindingCalls(i) : n < m => ~Rebound(m, f)

(* The calls that were entered are as they were: none takes effect.        *)
SameTook == \A m \in Obs : SameCall(m) /\ actual'[m] = actual[m] /\ \A x : Took(m, x)' <=> Took(m, x)

(* Of the calls that were entered only n takes effect, with ret.           *)
TakesOnly(n, ret) ==
  /\ n \in Obs /\ Obs' = Obs
  /\ \A m \in Obs : SameCall(m) /\ actual'[m].image = actual[m].image
  /\ \A m \in Obs : m # n => \A x : Took(m, x)' <=> Took(m, x)
  /\ \A x : Took(n, x)' <=> x = ret
  /\ \A x : ~Took(n, x)

Settles(n, file) ==
  /\ file.kind = IF observations[n].call = "open" THEN "file" ELSE "socket"
  /\ file.name = observations[n].source

Placed(file) == \/ file.kind = "file"
                \/ file.kind = "socket" /\ file.name # NoSource

Replayed(p, f, i) ==
  /\ \A n \in Obs : LastRebound(n, f, i) /\ observations[n].call # "close"
                    => table[p][f] # 0 /\ Settles(n, At(p, f))
  /\ table[p][f] # 0 /\ At(p, f).by = i /\ Placed(At(p, f))
     => \E n \in Obs : LastRebound(n, f, i) /\ observations[n].call # "close"

(* Of an image none of whose calls raced, each descriptor is what the last *)
(* call that set it says.                                                  *)
ReplayInv == \A p \in Proc, f \in Fd : NoRace(Image(p)) => Replayed(p, f, Image(p))

(* The last call that rebound a descriptor is the one it was.              *)
SameLast(f, i) ==
  /\ \A m \in Obs : LastRebound(m, f, i)' <=> LastRebound(m, f, i)
  /\ \A m \in Obs' : m \in Obs \/ ~LastRebound(m, f, i)'

(* The calls that rebound a descriptor before another call, as the         *)
(* resolver sees them.                                                     *)
LastBefore(n, r) ==
  /\ n \in RebindingCalls(actual[r].image) /\ n < r /\ R!Rebinds(observations[n], observations[r].fd)
  /\ \A m \in RebindingCalls(actual[r].image) :
       n < m /\ m < r => ~R!Rebinds(observations[m], observations[r].fd)

Retraced(r) ==
  /\ \A n \in Obs : LastBefore(n, r) /\ observations[n].call # "close" => Settles(n, actual[r])
  /\ actual[r].by = actual[r].image /\ Placed(actual[r])
     => \E n \in Obs : LastBefore(n, r) /\ observations[n].call # "close"

(* They tell what the call was of, unless some of them raced.              *)
EffectInv == \A r \in Obs : actual[r].kind # NoSource /\ Unraced(r) => Retraced(r)

-----------------------------------------------------------------------------
FlowTrace == PipeTrace /\ ReportTrace /\ FilesInv /\ ReplayInv /\ EffectInv
=============================================================================
