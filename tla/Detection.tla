------------------------------- MODULE Detection -------------------------------
(***************************************************************************)
(* From the calls of traced processes to the report: the callback of the   *)
(* trace command (src/commands/trace_command.cpp) stamps the analyzer's    *)
(* observations with paths, endpoints and fingerprints and collects what   *)
(* was extracted; when the trace is over, these data observations are      *)
(* appended to the graph, the registered rules run, and the narrative      *)
(* tells their findings.                                                   *)
(*                                                                         *)
(* The processes and the kernel are the environment: threads that open,    *)
(* read, connect, write, close and exec, descriptors and pipes.  What they *)
(* really did is kept in the history variables actual and program, for the *)
(* properties to compare the report with.  The call is seen at its entry,  *)
(* takes effect some time later and is seen again at its exit; the trace   *)
(* can end between any two steps (a timeout).                              *)
(*                                                                         *)
(* Process lifetimes and the binding of descriptors to resources are in    *)
(* TracedProcesses and ResourceLineage; here a process is its instance,    *)
(* and the resource id of a pipe is the number of the pipe.  Whether a     *)
(* scan is permitted and what it reads are in TraceScanSession; here it    *)
(* finds what is in memory or not.                                         *)
(***************************************************************************)
EXTENDS Integers, Sequences, SequencesExt

CONSTANTS
  NoValue, NoSource, NoSession, NoProgram, NoReport,
  Secret,           (* The one sensitive value.                             *)
  Large,            (* A large payload with it.                             *)
  PathLists, SensitiveEndpoint,
  Endpoint,         (* Where sockets are connected to.                      *)
  Program,          (* What is exec'd.                                      *)
  Fd,               (* Descriptor numbers.                                  *)
  Workloads         (* What the processes may do: records of thread (which  *)
                    (* process each thread is of), files and tables (their  *)
                    (* descriptors at the start), knows (who has the secret *)
                    (* at the start), offers and unseen (their calls, for   *)
                    (* each thread, and what they do besides), names (the   *)
                    (* files they open), payloads (what each thread writes),*)
                    (* fails (the calls that may fail), calls and silent    *)
                    (* (how many of the two kinds), scan                    *)
                    (* (whether scans find it, empty without the option     *)
                    (* --scan-memory), operations (how many on the          *)
                    (* registry) and minimums (--min-severity).             *)

VARIABLES
  workload,
  (* The processes and the kernel. *)
  call,             (* What each thread is doing.                           *)
  files,            (* Open file descriptions.                              *)
  table,            (* The description at each descriptor, 0 if closed.     *)
  pipe,             (* What is in each pipe: the positions of the writes.   *)
  knows,            (* The processes with the secret in memory.             *)
  program, actual,  (* Histories: what each image runs; for each            *)
                    (* observation its image and the effect of the call.    *)
  (* RuntimeXRay. *)
  clock,            (* steady_clock                                         *)
  generation,       (* exec_generation_by_instance_                         *)
  observations, edges,
  data,             (* secret_observations                                  *)
  scanned,          (* startup_scanned_images_                              *)
  rules, disabled,  (* Of the registry.                                     *)
  report,           (* NoReport during the trace.                           *)
  left              (* What remains of the workload's bounds.               *)

R == INSTANCE DetectionRules
Tell == INSTANCE Narrative
Registry == INSTANCE RuleRegistry WITH
  RuleIds <- R!RuleIds, StageOf <- R!StageOf, Builtin <- R!RuleIds

(* The threads of a process with several do not exec (TracedProcesses has  *)
(* what becomes of them) and do not share pipes; a process has one end of  *)
(* a pipe at most; what else it has at the start is of no account.         *)
PipeEnd(kind, role) ==
  [kind: {kind}, name: {NoSource}, by: {<< NoSession, 0 >>}, pipe: Nat \ {0}, role: {role}]

WorkloadAssumption ==
  \A w \in Workloads :
    /\ NoSession \notin Range(w.thread)
    /\ w.files \in Seq(PipeEnd("pipe read", "read") \cup PipeEnd("pipe write", "write"))
    /\ w.tables \in [Range(w.thread) -> [Fd -> 0 .. Len(w.files)]]
    /\ w.knows \subseteq Range(w.thread)
    /\ NoSource \notin w.names
    /\ \A t \in DOMAIN w.thread : w.payloads[t] \subseteq {Secret, Large}
    /\ \A t, u \in DOMAIN w.thread : t # u /\ w.thread[t] = w.thread[u] =>
         "execve" \notin w.offers[t] /\ \A f \in Fd : w.tables[w.thread[t]][f] = 0
    /\ \A p \in Range(w.thread), f, g \in Fd :
         LET k == w.tables[p][f]
             l == w.tables[p][g]
         IN k # 0 /\ l # 0 /\ w.files[k].pipe = w.files[l].pipe => w.files[k].role = w.files[l].role
    /\ w.minimums \subseteq Range(R!Severity)

ValuesAssumption ==
  /\ Fd \subseteq Nat \ {0}
  /\ NoValue \notin {Secret, Large} /\ Secret # Large
  /\ NoProgram \notin Program
  /\ NoSource \notin Endpoint
  /\ NoSource \notin {"file", "socket", "peer", "pipe read", "pipe write", "read", "write"}

ASSUME InputsAssumption == ValuesAssumption /\ WorkloadAssumption

kernel == << call, files, table, pipe, knows, program, actual >>
analyzer == << clock, generation, observations, edges, data, scanned >>
vars == << workload, kernel, analyzer, rules, disabled, report, left >>

Thread == DOMAIN workload.thread
Proc   == Range(workload.thread)
Of(t)  == workload.thread[t]
Image(p) == << p, generation[p] >>

NoCall == [op |-> "none", fd |-> 0, what |-> NoSource, obs |-> 0, ret |-> 0, done |-> FALSE]

Tracing == report = NoReport

Init ==
  /\ workload \in Workloads
  /\ call = [t \in Thread |-> NoCall]
  /\ files = workload.files
  /\ table = workload.tables
  /\ pipe = [n \in {files[k].pipe : k \in DOMAIN files} |-> << >>]
  /\ knows = workload.knows
  /\ program = [i \in {<< p, 0 >> : p \in Proc} |-> NoProgram]
  /\ actual = << >>
  /\ clock = 0
  /\ generation = [p \in Proc |-> 0]
  /\ observations = << >> /\ edges = << >> /\ data = << >>
  /\ scanned = {}
  /\ Registry!Init
  /\ report = NoReport
  /\ left = [calls |-> workload.calls, silent |-> workload.silent,
             operations |-> workload.operations]

-----------------------------------------------------------------------------
(* What a thread may do next.  Payloads without a secret leave nothing a   *)
(* rule reads: a process writes when it has the secret.                    *)
IsOpen(p, f) == table[p][f] # 0
At(p, f) == files[table[p][f]]

Readable(p) == {f \in Fd : IsOpen(p, f) /\ At(p, f).kind \in {"file", "peer", "pipe read"}}
Writable(p) == {f \in Fd : p \in knows /\ IsOpen(p, f) /\ At(p, f).kind \in {"socket", "peer", "pipe write"}}
Sockets(p)  == {f \in Fd : IsOpen(p, f) /\ At(p, f).kind = "socket"}

Call(op, f, what) == [op |-> op, fd |-> f, what |-> what]

Offers(p, ops, payloads) ==
  {c \in {Call("open", 0, name) : name \in workload.names}
         \cup {Call("close", f, NoSource) : f \in {f \in Fd : IsOpen(p, f)}}
         \cup {Call("read", f, NoValue) : f \in Readable(p)}
         \cup {Call("write", f, what) : f \in Writable(p), what \in payloads}
         \cup {Call("connect", f, e) : f \in Sockets(p), e \in Endpoint}
         \cup {Call("execve", 0, name) : name \in Program} :
    c.op \in ops}

(* A data observation: what was extracted from a call's buffer (location   *)
(* "read" or "write") or found in memory.  origin is source_event_seq;     *)
(* image, a history, is where it was.                                      *)
DataObservation(p, location, time, origin) ==
  [call |-> location, start |-> time, pid |-> p, origin |-> origin, image |-> Image(p)]

(* A scan may find the secret, when it is there.                           *)
Scan(p, time) ==
  IF p \notin knows \/ workload.scan = {} THEN {<< >>}
  ELSE {IF found THEN << DataObservation(p, "memory", time, 0) >> ELSE << >> :
          found \in workload.scan}

(* scan_environ_for_secrets at an image's first call: what it knows by     *)
(* then was handed to it in its environment or arguments.                  *)
StartUp(p, time) ==
  IF p \notin knows \/ workload.scan = {} THEN << >>
  ELSE << DataObservation(p, "environment", time, 0) >>

(* The fingerprint of an outgoing payload.  One of more than 4096 bytes is *)
(* not looked at.                                                          *)
Carries(c) == IF c.op = "write" /\ c.what # Large THEN c.what ELSE NoValue

-----------------------------------------------------------------------------
(* Mutant of EventObservation: the payload is not stamped.                 *)
EventObservationPlain(p, c, time) ==
  [type |-> "Event", call |-> c.op, fd |-> c.fd, ret |-> 0,
   source |-> IF c.op \in {"open", "connect", "execve"} THEN c.what ELSE NoSource,
   value |-> NoValue,
   inst |-> p, gen |-> generation[p],
   res |-> IF c.fd # 0 THEN At(p, c.fd).pipe ELSE 0,
   role |-> IF c.fd # 0 THEN At(p, c.fd).role ELSE NoSource,
   start |-> time, end |-> 0, pid |-> p]

(* The observation of an entry.  Its return value is zero until the call   *)
(* has returned (include/lineage.hpp).  The callback stamps the path or    *)
(* endpoint, and the fingerprint of what a write carries.                  *)
EventObservation(p, c, time) ==
  [type |-> "Event", call |-> c.op, fd |-> c.fd, ret |-> 0,
   source |-> IF c.op \in {"open", "connect", "execve"} THEN c.what ELSE NoSource,
   value |-> Carries(c),
   inst |-> p, gen |-> generation[p],
   res |-> IF c.fd # 0 THEN At(p, c.fd).pipe ELSE 0,
   role |-> IF c.fd # 0 THEN At(p, c.fd).role ELSE NoSource,
   start |-> time, end |-> 0, pid |-> p]

(* A syscall's entry: the analyzer's observation, the inspection of an     *)
(* image met for the first time, what a write carries, and the scan when   *)
(* it carries the secret.                                                  *)
Enter(t) ==
  LET p    == Of(t)
      time == clock + 1
      n    == Len(observations) + 1
      new  == Image(p) \notin scanned
  IN
  /\ Tracing /\ call[t] = NoCall /\ left.calls > 0
  /\ \E c \in Offers(p, workload.offers[t], workload.payloads[t]) :
       LET sends == Carries(c) # NoValue IN
       /\ actual' = Append(actual, [image |-> Image(p), kind |-> NoSource, name |-> NoSource,
                                    by |-> Image(p), from |-> 0, what |-> c.what])
       /\ call' = [call EXCEPT ![t] = [op |-> c.op, fd |-> c.fd, what |-> c.what,
                                       obs |-> n, ret |-> 0, done |-> FALSE]]
       /\ observations' = Append(observations, EventObservation(p, c, time))
       /\ \E first \in IF new THEN Scan(p, time) ELSE {<< >>},
             boundary \in IF sends THEN Scan(p, time) ELSE {<< >>} :
            data' = data \o ((IF new THEN StartUp(p, time) ELSE << >>) \o first
                             \o (IF sends THEN << DataObservation(p, "write", time, n) >> ELSE << >>)
                             \o boundary)
  /\ scanned' = scanned \cup {Image(p)}
  /\ clock' = time
  /\ left' = [left EXCEPT !.calls = @ - 1]
  /\ UNCHANGED << workload, files, table, pipe, knows, program, generation, edges,
                  rules, disabled, report >>

-----------------------------------------------------------------------------
(* The call takes effect in the kernel.                                    *)
Runs(t, op) == Tracing /\ call[t] # NoCall /\ ~call[t].done /\ call[t].op = op

Done(t, ret) == call' = [call EXCEPT ![t].ret = ret, ![t].done = TRUE]

OnIt(t, file, from) ==
  actual' = [actual EXCEPT ![call[t].obs] =
               [@ EXCEPT !.kind = file.kind, !.name = file.name, !.by = file.by, !.from = from]]

Unobserved == UNCHANGED << workload, analyzer, rules, disabled, report >>

Free(p) == {f \in Fd : ~IsOpen(p, f)}

NewFile(kind, name, p) ==
  [kind |-> kind, name |-> name, by |-> Image(p), pipe |-> 0, role |-> NoSource]

Fails(t) ==
  /\ \/ \E op \in workload.fails : Runs(t, op) /\ Done(t, -13)
     \/ Runs(t, "close") /\ ~IsOpen(Of(t), call[t].fd) /\ Done(t, -9)
     \/ Runs(t, "read") /\ call[t].fd \notin Readable(Of(t)) /\ Done(t, -9)
     \/ Runs(t, "write") /\ ~IsOpen(Of(t), call[t].fd) /\ Done(t, -9)
  /\ UNCHANGED << files, table, pipe, knows, program, actual, left >> /\ Unobserved

Opens(t) ==
  LET p == Of(t) IN
  /\ Runs(t, "open") /\ Free(p) # {}
  /\ LET f == CHOOSE f \in Free(p) : \A g \in Free(p) : f <= g IN
       /\ files' = Append(files, NewFile("file", call[t].what, p))
       /\ table' = [table EXCEPT ![p][f] = Len(files')]
       /\ Done(t, f)
  /\ UNCHANGED << pipe, knows, program, actual, left >> /\ Unobserved

Closes(t) ==
  LET p == Of(t) IN
  /\ Runs(t, "close") /\ IsOpen(p, call[t].fd)
  /\ table' = [table EXCEPT ![p][call[t].fd] = 0]
  /\ Done(t, 0)
  /\ UNCHANGED << files, pipe, knows, program, actual, left >> /\ Unobserved

ConnectsTo(t) ==
  LET p == Of(t) IN
  /\ Runs(t, "connect") /\ call[t].fd \in Sockets(p)
  /\ At(p, call[t].fd).name = NoSource
  /\ files' = [files EXCEPT ![table[p][call[t].fd]] =
                 [@ EXCEPT !.name = call[t].what, !.by = Image(p)]]
  /\ Done(t, 0)
  /\ UNCHANGED << table, pipe, knows, program, actual, left >> /\ Unobserved

(* A file and a peer hold the secret; a pipe what was written, and a read  *)
(* of an empty one waits.                                                  *)
Reads(t) ==
  LET p == Of(t)
      file == At(p, call[t].fd)
  IN
  /\ Runs(t, "read") /\ call[t].fd \in Readable(p)
  /\ IF file.kind = "pipe read"
     THEN /\ pipe[file.pipe] # << >>
          /\ OnIt(t, file, Head(pipe[file.pipe]))
          /\ pipe' = [pipe EXCEPT ![file.pipe] = Tail(@)]
     ELSE OnIt(t, file, 0) /\ UNCHANGED pipe
  /\ Done(t, 1)
  /\ knows' = knows \cup {p}
  /\ UNCHANGED << files, table, program, left >> /\ Unobserved

Writes(t) ==
  LET p == Of(t)
      file == At(p, call[t].fd)
  IN
  /\ Runs(t, "write") /\ IsOpen(p, call[t].fd)
  /\ Done(t, IF file.kind = "socket" /\ file.name = NoSource THEN -32 ELSE 1)
  /\ OnIt(t, file, 0)
  /\ pipe' = IF file.kind # "pipe write" THEN pipe
             ELSE [pipe EXCEPT ![file.pipe] = Append(@, call[t].obs)]
  /\ UNCHANGED << files, table, knows, program, left >> /\ Unobserved

(* A successful exec and its event, which the analyzer handles at once     *)
(* (handle_exec_success).  The new image has the secret only if it is      *)
(* handed over.                                                            *)
Execs(t) ==
  LET p == Of(t) IN
  /\ Runs(t, "execve")
  /\ Done(t, 0)
  /\ generation' = [generation EXCEPT ![p] = @ + 1]
  /\ program' = LET new == << p, generation[p] + 1 >>
                 IN [i \in DOMAIN program \cup {new} |-> IF i = new THEN call[t].what ELSE program[i]]
  /\ knows' \in {knows, knows \ {p}}
  /\ UNCHANGED << workload, files, table, pipe, actual, clock, observations, edges,
                  data, scanned, rules, disabled, report, left >>

(* Calls that leave no observation a rule reads: a socket is made, or      *)
(* accepted from a peer.                                                   *)
MakesSocket(p) ==
  /\ Tracing /\ left.silent > 0 /\ Free(p) # {}
  /\ LET f == CHOOSE f \in Free(p) : \A g \in Free(p) : f <= g IN
       /\ \E kind \in {"socket", "peer"} \cap workload.unseen : files' = Append(files, NewFile(kind, NoSource, p))
       /\ table' = [table EXCEPT ![p][f] = Len(files')]
  /\ left' = [left EXCEPT !.silent = @ - 1]
  /\ UNCHANGED << call, pipe, knows, program, actual >> /\ Unobserved

-----------------------------------------------------------------------------
(* The exit of a call.                                                     *)

(* link_pipe_dataflow: the last of the writes that had returned and were   *)
(* entered before the read returned.                                       *)
Suppliers(obs, r) ==
  {w \in DOMAIN obs :
    /\ obs[w].call = "write" /\ obs[w].ret > 0
    /\ obs[w].res = obs[r].res /\ obs[w].value = obs[r].value
    /\ obs[w].start <= obs[r].end}

Linkable(obs, r) ==
  /\ obs[r].call = "read" /\ obs[r].ret > 0
  /\ obs[r].res # 0 /\ obs[r].value # NoValue
  /\ Suppliers(obs, r) # {}

Link(obs, known, r) ==
  LET e == << CHOOSE w \in Suppliers(obs, r) : \A v \in Suppliers(obs, r) : v <= w, r >>
  IN IF Linkable(obs, r) /\ e \notin Range(known) THEN Append(known, e) ELSE known

(* Mutant of Reconcile: the reads are not tried again.                     *)
ReconcileNone(obs, known, w) == known

(* reconcile_pipe_dataflow_from_write: the reads of what was written are   *)
(* tried again.                                                            *)
Reconcile(obs, known, w) ==
  LET IsRead(r) == obs[r].call = "read" /\ obs[r].res = obs[w].res /\ obs[r].value = obs[w].value
      upTo[n \in 0 .. Len(obs)] ==
        IF n = 0 THEN known ELSE IF IsRead(n) THEN Link(obs, upTo[n - 1], n) ELSE upTo[n - 1]
  IN IF obs[w].ret <= 0 \/ obs[w].res = 0 \/ obs[w].value = NoValue THEN known ELSE upTo[Len(obs)]

(* What becomes of the call's observation.                                 *)
Returned(o, c, time) ==
  [o EXCEPT !.ret = c.ret, !.end = time,
            !.value = IF c.op = "read" /\ c.ret > 0 THEN Secret ELSE @]

Exit(t) ==
  LET p    == Of(t)
      c    == call[t]
      time == clock + 1
      got  == c.op = "read" /\ c.ret > 0
      obs  == [observations EXCEPT ![c.obs] = Returned(@, c, time)]
  IN
  /\ Tracing /\ c # NoCall /\ c.done
  /\ call' = [call EXCEPT ![t] = NoCall]
  /\ observations' = obs
  /\ edges' = CASE got -> Link(obs, edges, c.obs)
                [] c.op = "write" -> Reconcile(obs, edges, c.obs)
                [] OTHER -> edges
  /\ \E found \in IF got THEN Scan(p, time) ELSE {<< >>} :
       data' = data \o ((IF got THEN << DataObservation(p, "read", time, c.obs) >> ELSE << >>)
                        \o found)
  /\ clock' = time
  /\ UNCHANGED << workload, files, table, pipe, knows, program, actual, generation,
                  scanned, rules, disabled, report, left >>

-----------------------------------------------------------------------------
(* The end of the trace.                                                   *)

(* append_data_observations_to_graph: the context of a data observation is *)
(* the last observation of its process started by then.                    *)
Candidates(obs, d) == {n \in DOMAIN obs : obs[n].pid = d.pid /\ obs[n].start <= d.start}

(* Mutant of Context: the first instead of the last.                       *)
ContextFirst(obs, d) ==
  CHOOSE n \in Candidates(obs, d) : \A m \in Candidates(obs, d) : n <= m

Context(obs, d) ==
  CHOOSE n \in Candidates(obs, d) : \A m \in Candidates(obs, d) :
    \/ obs[m].start < obs[n].start
    \/ obs[m].start = obs[n].start /\ m <= n

(* It is of that image, and of the resource of the call it came from when  *)
(* that is of the image too.                                               *)
ResourceOf(obs, d, of) ==
  IF \E n \in {d.origin} \cap DOMAIN obs : /\ obs[n].type = "Event"
                                           /\ obs[n].inst = of.inst /\ obs[n].gen = of.gen
  THEN obs[d.origin]
  ELSE [res |-> 0, role |-> NoSource, source |-> NoSource]

GraphObservation(d, of, from) ==
  [type |-> "Data", call |-> d.call, fd |-> 0, ret |-> 0, source |-> from.source,
   value |-> Secret, inst |-> of.inst, gen |-> of.gen, res |-> from.res, role |-> from.role,
   start |-> d.start, end |-> d.start, pid |-> d.pid, origin |-> d.origin, image |-> d.image]

AppendData(obs, d) ==
  LET of == obs[Context(obs, d)]
  IN Append(obs, GraphObservation(d, of, ResourceOf(obs, d, of)))

Finished ==
  LET upTo[n \in 0 .. Len(data)] ==
        IF n = 0 THEN observations ELSE AppendData(upTo[n - 1], data[n])
  IN [obs |-> upTo[Len(data)], edges |-> edges]

(* produce_graph takes the observations as they are, those of calls that   *)
(* have not returned too.  Detection, the severity filter and the report   *)
(* follow.                                                                 *)
Report(graph, findings, shown) ==
  [graph |-> graph, findings |-> findings, shown |-> shown,
   stories |-> Tell!Stories(graph, [p \in Proc |-> NoProgram], shown)]

End ==
  /\ Tracing
  /\ \E graph \in {Finished} :
     \E findings \in {R!Detect(graph, Registry!ActiveRules("Primary"),
                                     Registry!ActiveRules("Composite"))} :
     \E minimum \in workload.minimums :
       report' = Report(graph, findings, R!Filtered(findings, minimum))
  /\ UNCHANGED << workload, kernel, analyzer, rules, disabled, left >>

(* The registry is set up before the trace starts.                         *)
Configure ==
  /\ Tracing /\ left.operations > 0 /\ observations = << >> /\ left.silent = workload.silent
  /\ Registry!Next
  /\ left' = [left EXCEPT !.operations = @ - 1]
  /\ UNCHANGED << workload, kernel, analyzer, report >>

Next ==
  \/ \E t \in Thread :
       \/ Enter(t) \/ Fails(t) \/ Opens(t) \/ Closes(t) \/ ConnectsTo(t) \/ Reads(t)
       \/ Writes(t) \/ Execs(t) \/ Exit(t)
  \/ \E p \in Proc : MakesSocket(p)
  \/ Configure
  \/ End

Spec == Init /\ [][Next]_vars

-----------------------------------------------------------------------------
(* Properties: all are about the report.                                   *)
Reported == report # NoReport

Graph == report.graph

Kind(kind) == {f \in Range(report.findings) : f.kind = kind}

Overlap(m, n) ==
  /\ m # n
  /\ observations[m].start <= observations[n].end \/ observations[n].end = 0
  /\ observations[n].start <= observations[m].end \/ observations[m].end = 0

(* The calls of an image that open, connect or close a descriptor.         *)
RebindingCalls(i) ==
  {n \in DOMAIN observations : /\ observations[n].call \in {"open", "connect", "close"}
                               /\ actual[n].image = i}

(* No such call overlaps another or the call n: entries are in the order   *)
(* of effects, as the replay of descriptors by their entries supposes.     *)
Unraced(n) ==
  LET calls == RebindingCalls(actual[n].image)
  IN \A m \in calls : ~Overlap(m, n) /\ \A k \in calls : ~Overlap(m, k)

(* A flow that is reported happened: the file named was read for the value *)
(* and the endpoint named was sent it, by one image.  (The resolver replays   *)
(* calls by their entries, so calls that raced for the descriptor are not  *)
(* vouched for.)                                                           *)
FlowsAreReal ==
  Reported => \A f \in Kind("sensitive_data_flow") :
    LET r == f.evidence[1]
        m == f.evidence[2]
        w == f.evidence[3]
    IN
    /\ actual[r].image = actual[w].image /\ Graph.obs[m].image = actual[r].image
    /\ Unraced(r) => actual[r].kind = "file" /\ actual[r].name = f.source
    /\ Unraced(w) /\ actual[w].kind # NoSource =>
         actual[w].kind = "socket" /\ actual[w].name = f.destination

(* A read of a file that returned with the secret, the secret found in     *)
(* memory, and a later write of it to a connected socket, all of one image *)
(* which opened and connected the two itself: a flow is reported.          *)
IsFlow(r, w) ==
  LET i == actual[r].image IN
  /\ actual[w].image = i
  /\ observations[r].call = "read"
  /\ actual[r].kind = "file" /\ actual[r].by = i
  /\ observations[w].call = "write" /\ actual[w].what = Secret
  /\ actual[w].kind = "socket" /\ actual[w].name # NoSource /\ actual[w].by = i
  /\ observations[r].end # 0 /\ observations[r].end < observations[w].start
  /\ \E d \in Range(data) : d.call = "memory" /\ d.image = i
  /\ Unraced(r) /\ Unraced(w)

IsActive(rule) == rule \in Registry!Registered \ disabled

FlowsAreFound ==
  Reported /\ IsActive(R!RuleIds[2]) =>
    ((\E r, w \in DOMAIN observations : IsFlow(r, w)) => Kind("sensitive_data_flow") # {})

(* The writes on the pipe of a read that were entered before it returned   *)
(* are of one image: the last of them is then as good as the one that      *)
(* supplied it.                                                            *)
OneWriter(r) ==
  \A v, w \in DOMAIN observations :
    /\ {observations[v].call, observations[w].call} = {"write"}
    /\ {observations[v].res, observations[w].res} = {observations[r].res}
    /\ observations[v].start <= observations[r].end /\ observations[w].start <= observations[r].end
    => actual[v].image = actual[w].image

(* A chain that is reported happened: along it, each read was given the    *)
(* secret by a write of the session named, and a session that passes it on *)
(* is the very image that had been given it before.                        *)
ChainsAreReal ==
  Reported => \A f \in Kind("sensitive_value_cross_process_pipe_chain") :
    /\ \A k \in DOMAIN f.edges :
         LET w == f.edges[k][1]
             r == f.edges[k][2]
             supplier == actual[r].from
         IN
         /\ supplier # 0
         /\ OneWriter(r) => actual[supplier].image = f.sessions[k]
         /\ actual[r].image = f.sessions[k + 1]
    /\ \A k \in 1 .. Len(f.edges) - 1 :
         LET r == f.edges[k][2]
             w == f.edges[k + 1][1]
         IN actual[r].image = actual[w].image /\ observations[r].end < observations[w].start

(* A secret that was written, read, written again by the reader and read   *)
(* once more is reported as a chain through those processes once the four  *)
(* calls have returned, in whatever order they did.                        *)
IsChain(r, s) ==
  LET v == actual[r].from
      w == actual[s].from
  IN
  /\ v # 0 /\ w # 0
  /\ \A n \in {r, s, v, w} : observations[n].end # 0
  /\ \A n \in {v, w} : actual[n].what = Secret
  /\ actual[w].image = actual[r].image /\ observations[r].end < observations[w].start
  /\ OneWriter(s)

ChainsAreFound ==
  Reported /\ IsActive(R!RuleIds[5]) =>
    \A r, s \in DOMAIN observations : IsChain(r, s) =>
      \E f \in Kind("sensitive_value_cross_process_pipe_chain") :
        {actual[r].image, actual[s].image} \subseteq Range(f.sessions)

(* What was extracted is put down to the image it was extracted from,      *)
(* whatever that process exec'd later, and to the pipe or file of the call *)
(* it came from.                                                           *)
DataOnOwnImage ==
  Reported => \A n \in DOMAIN Graph.obs : Graph.obs[n].type = "Data" =>
    LET d == Graph.obs[n] IN
    /\ << d.inst, d.gen >> = d.image
    /\ d.origin # 0 => d.res = Graph.obs[d.origin].res

(* The findings a composite finding rests on are in the report with it,    *)
(* under the ids it cites, are of the same value, and there is one for     *)
(* each sighting of it that the composite finding has as evidence; a rule  *)
(* runs once, and not when disabled, whatever was done to the registry.    *)
SupportIsReported ==
  Reported =>
    /\ \A k, n \in DOMAIN report.findings : k # n =>
         LET f == report.findings[k]
             g == report.findings[n]
         IN f.id # g.id /\ ~(f.rule = g.rule /\ f.evidence = g.evidence)
    /\ \A f \in Range(report.findings) : IsActive(f.rule)
    /\ \A f \in Range(report.shown) :
         f.kind \in {"sensitive_data_flow", "sensitive_value_cross_process_pipe_chain"} =>
           LET support == {g \in Range(report.shown) : g.id \in Range(f.support)} IN
           /\ \A id \in Range(f.support) : \E g \in support : g.id = id
           /\ \A g \in support : g.kind = "sensitive_data_presence" /\ g.value = f.value
           /\ IsActive(R!RuleIds[3]) =>
                \A n \in Range(f.evidence) : Graph.obs[n].type = "Data" =>
                  \E g \in support : n \in Range(g.evidence)

(* A story tells what its finding says: the same file, endpoint and        *)
(* sessions, although the narrative resolves descriptors with a function   *)
(* of its own; and it names each session after the program it really ran.  *)
StoriesAgree ==
  Reported => \A story \in Range(report.stories) :
    LET f == CHOOSE f \in Range(report.shown) : f.id = story.finding
        told(n, resource) == \E s \in Range(story.statements) : s.about = n /\ s.resource = resource
    IN
    /\ \A s \in Range(story.sessions) : program[s.session] = s.program
    /\ f.kind = "sensitive_data_flow" =>
         told(f.evidence[1], f.source) /\ told(f.evidence[3], f.destination)
    /\ f.kind = "sensitive_value_cross_process_pipe_chain" =>
         /\ {s.session : s \in Range(story.sessions)} = Range(f.sessions)
         /\ Len(story.statements) = Len(f.edges)

(* "at entry the syscall has not returned, so we cannot yet distinguish a  *)
(* successful open from an ENOENT/EACCES probe" (trace_command.cpp): a     *)
(* file is reported as opened if the call returned a descriptor.           *)
OpenedMeansOpened ==
  Reported => \A f \in Kind("sensitive_resource_access") :
    f.outcome = "opened" => observations[f.evidence[1]].end # 0
=============================================================================
