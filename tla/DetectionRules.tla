----------------------------- MODULE DetectionRules -----------------------------
(***************************************************************************)
(* The built-in detection rules (src/*_rule.cpp) and the two stages of the *)
(* engine (src/detection_engine.cpp) as operators of a finished graph.     *)
(*                                                                         *)
(* A graph is a record: obs, the sequence of observations (an observation  *)
(* has its position as its seq), and edges, the sequence of its DataFlow   *)
(* edges as pairs of positions.  An observation is a record with the       *)
(* fields of struct Observation that the rules read; value stands for the  *)
(* fingerprint and res is zero for what is not a pipe.  Of a finding the   *)
(* fields that its kind does not use are empty.                            *)
(*                                                                         *)
(* The rules for static observations (hardening, dangerous APIs) have      *)
(* nothing to say about a trace and are left out.                          *)
(***************************************************************************)
EXTENDS Integers, Sequences, FiniteSets, SequencesExt, Selection

CONSTANTS
  NoValue,          (* The empty fingerprint.                               *)
  NoSource,         (* The empty path or endpoint.                          *)
  NoSession,        (* A process instance id of zero.                       *)
  PathLists,        (* For each path, the severities of the pattern lists   *)
                    (* with a pattern in it.                                *)
  SensitiveEndpoint (* The endpoints with a port of is_sensitive_port.      *)

Finding ==
  [id |-> 0, rule |-> "", kind |-> "", severity |-> "", value |-> NoValue, source |-> NoSource,
   destination |-> NoSource, outcome |-> "", sessions |-> << >>, edges |-> << >>,
   evidence |-> << >>, support |-> << >>]

Severity == << "Critical", "High", "Medium", "Low", "Info" >>

(* The findings a rule makes of single observations, in their order.       *)
OnePerObservation(graph, Fits(_), Make(_)) ==
  LET found(n) == IF Fits(graph.obs[n]) THEN << Make(n) >> ELSE << >>
  IN FlattenSeq([n \in DOMAIN graph.obs |-> found(n)])

Session(o) == << o.inst, o.gen >>

SameSession(a, b) == a.inst # NoSession /\ Session(a) = Session(b)

IsEvent(o) == o.type = "Event"

-----------------------------------------------------------------------------
(* Primary rules.                                                          *)

IsPresence(o) == o.type = "Data" /\ o.value # NoValue

PresenceFindings(graph) ==
  OnePerObservation(graph, IsPresence,
    LAMBDA n : [Finding EXCEPT !.kind = "sensitive_data_presence", !.severity = "High",
                               !.value = graph.obs[n].value, !.evidence = << n >>])

(* classify_sensitive_path: the lists are searched from the most severe.   *)
PathSeverity(path) ==
  Severity[CHOOSE s \in DOMAIN Severity :
             /\ Severity[s] \in PathLists[path]
             /\ \A r \in 1 .. s - 1 : Severity[r] \notin PathLists[path]]

IsSensitiveOpen(o) ==
  /\ IsEvent(o) /\ o.call = "open"
  /\ o.source # NoSource
  /\ PathLists[o.source] # {}

(* A return value of zero or more is a descriptor; EPERM and EACCES deny.  *)
Outcome(ret) ==
  IF ret >= 0 THEN "opened" ELSE IF ret \in {-1, -13} THEN "denied" ELSE "failed"

FileAccessFindings(graph) ==
  OnePerObservation(graph, IsSensitiveOpen,
    LAMBDA n : [Finding EXCEPT !.kind = "sensitive_resource_access",
                               !.severity = PathSeverity(graph.obs[n].source),
                               !.source = graph.obs[n].source,
                               !.outcome = Outcome(graph.obs[n].ret), !.evidence = << n >>])

IsSensitiveConnect(o) ==
  IsEvent(o) /\ o.call = "connect" /\ o.source \in SensitiveEndpoint

NetworkFindings(graph) ==
  OnePerObservation(graph, IsSensitiveConnect,
    LAMBDA n : [Finding EXCEPT !.kind = "suspicious_network_connection", !.severity = "Medium",
                               !.destination = graph.obs[n].source, !.evidence = << n >>])

-----------------------------------------------------------------------------
(* The file-to-socket rule.                                                *)

Unresolved == [path |-> NoSource, endpoint |-> NoSource]

(* Mutant of Rebinds: close is forgotten.                                  *)
RebindsNotClose(o, fd) ==
  \/ o.call = "open" /\ o.ret = fd /\ o.source # NoSource
  \/ o.call = "connect" /\ o.ret = 0 /\ o.fd = fd /\ o.source # NoSource

(* The calls that set what a descriptor resolves to.                       *)
Rebinds(o, fd) ==
  \/ o.call = "open" /\ o.ret = fd /\ o.source # NoSource
  \/ o.call = "connect" /\ o.ret = 0 /\ o.fd = fd /\ o.source # NoSource
  \/ o.call = "close" /\ o.ret = 0 /\ o.fd = fd

(* resolve_fd_at: the last such call of the session before position at, or *)
(* zero, and what it leaves the descriptor at.                             *)
LastRebind(graph, event, fd, at) ==
  Max({0} \cup {n \in 1 .. at - 1 : /\ IsEvent(graph.obs[n])
                                   /\ SameSession(graph.obs[n], event)
                                   /\ Rebinds(graph.obs[n], fd)})

LeftBy(graph, n) ==
  IF n = 0 THEN Unresolved ELSE
  CASE graph.obs[n].call = "open"    -> [Unresolved EXCEPT !.path = graph.obs[n].source]
    [] graph.obs[n].call = "connect" -> [Unresolved EXCEPT !.endpoint = graph.obs[n].source]
    [] graph.obs[n].call = "close"   -> Unresolved

Resolved(graph, n) ==
  LeftBy(graph, LastRebind(graph, graph.obs[n], graph.obs[n].fd, n))

(* A read of a file, a memory observation and an output to a connected     *)
(* socket, of one value in one session, the output entered after the read. *)
Carriers(graph, type, call) ==
  {n \in DOMAIN graph.obs : /\ graph.obs[n].type = type /\ graph.obs[n].call = call
                            /\ graph.obs[n].value # NoValue}

Flows(graph) ==
  {t \in {n \in Carriers(graph, "Event", "read") : Resolved(graph, n).path # NoSource}
       \X Carriers(graph, "Data", "memory")
       \X {n \in Carriers(graph, "Event", "write") : Resolved(graph, n).endpoint # NoSource} :
    /\ \A n \in {t[2], t[3]} : /\ graph.obs[n].value = graph.obs[t[1]].value
                               /\ SameSession(graph.obs[n], graph.obs[t[1]])
    /\ t[1] < t[3]}

Earlier(t, u) ==
  \/ t[1] < u[1]
  \/ t[1] = u[1] /\ t[2] < u[2]
  \/ t[1] = u[1] /\ t[2] = u[2] /\ t[3] <= u[3]

(* The first such triple of each value.                                    *)
FirstFlows(graph, flows) ==
  {t \in flows : \A u \in flows :
     graph.obs[u[1]].value = graph.obs[t[1]].value => Earlier(t, u)}

PresenceOf(previous, value) ==
  Kept(previous, {f \in Range(previous) : f.kind = "sensitive_data_presence" /\ f.value = value})

Ids(findings) == [k \in DOMAIN findings |-> findings[k].id]

FlowFinding(graph, previous, t, value) ==
  [Finding EXCEPT !.kind = "sensitive_data_flow", !.severity = "High", !.value = value,
     !.source = Resolved(graph, t[1]).path, !.destination = Resolved(graph, t[3]).endpoint,
     !.evidence = t, !.support = Ids(PresenceOf(previous, value))]

FlowFindings(graph, previous) ==
  SetToSeq({FlowFinding(graph, previous, t, graph.obs[t[1]].value) :
              t \in FirstFlows(graph, Flows(graph))})

-----------------------------------------------------------------------------
(* The pipe-chain rule.                                                    *)

(* is_cross_process_pipe_dataflow                                          *)
IsBoundary(from, to) ==
  /\ IsEvent(from) /\ IsEvent(to)
  /\ from.value # NoValue /\ from.value = to.value
  /\ from.res # 0 /\ from.res = to.res
  /\ from.role = "write" /\ to.role = "read"
  /\ NoSession \notin {from.inst, to.inst}
  /\ from.inst # to.inst

(* Mutant of Connects: the session is not compared.                        *)
ConnectsInstances(into, out) ==
  /\ into.inst = out.inst
  /\ into.value = out.value
  /\ into.end # 0
  /\ into.end <= out.start

(* boundaries_connect: the read of the one had returned in that session    *)
(* when the write of the other was entered.  A start is always stamped; an *)
(* end of zero is the unset time point.                                    *)
Connects(into, out) ==
  /\ Session(into) = Session(out)
  /\ into.value = out.value
  /\ into.end # 0
  /\ into.end <= out.start

Boundaries(graph) ==
  {b \in DOMAIN graph.edges :
     IsBoundary(graph.obs[graph.edges[b][1]], graph.obs[graph.edges[b][2]])}

Successors(graph, boundaries) ==
  [b \in boundaries |->
     {c \in boundaries \ {b} :
        Connects(graph.obs[graph.edges[b][2]], graph.obs[graph.edges[c][1]])}]

(* The paths the walk goes along: no boundary is entered twice.            *)
Paths(next) ==
  {path \in UNION {[1 .. n -> DOMAIN next] : n \in 1 .. Cardinality(DOMAIN next)} :
    /\ IsInjective(path)
    /\ \A k \in 1 .. Len(path) - 1 : path[k + 1] \in next[path[k]]}

(* From a boundary that follows none to one that none follows; a path is   *)
(* reported if it has two.                                                 *)
MaximalPaths(next) ==
  {path \in Paths(next) :
    Len(path) >= 2 /\ path[1] \notin UNION Range(next) /\ next[Last(path)] = {}}

(* build_finding: the sessions along the path, and as support the presence *)
(* findings of the value in one of them.                                   *)
ChainSessions(graph, edges) ==
  << Session(graph.obs[edges[1][1]]) >> \o
  [k \in DOMAIN edges |-> Session(graph.obs[edges[k][2]])]

ChainFinding(graph, previous, edges, value, sessions) ==
  LET told == {f \in Range(previous) :
                 \E n \in Range(f.evidence) : Session(graph.obs[n]) \in Range(sessions)}
  IN [Finding EXCEPT !.kind = "sensitive_value_cross_process_pipe_chain", !.severity = "High",
        !.value = value, !.sessions = sessions, !.edges = edges,
        !.evidence = FlattenSeq(edges),
        !.support = Ids(Kept(PresenceOf(previous, value), told))]

(* The order of the values is that of an unordered map.                    *)
ChainFindings(graph, previous) ==
  LET finding(edges) == ChainFinding(graph, previous, edges, graph.obs[edges[1][1]].value,
                                     ChainSessions(graph, edges))
  IN SetToSeq({finding([k \in DOMAIN path |-> graph.edges[path[k]]]) :
                 path \in MaximalPaths(Successors(graph, Boundaries(graph)))})

-----------------------------------------------------------------------------
(* The engine.                                                             *)

RuleIds == << "builtin.network", "builtin.sensitive_data_flow",
              "builtin.sensitive_data_presence", "builtin.sensitive_file_access",
              "builtin.sensitive_value_cross_process_pipe_chain" >>

StageOf == [r \in Range(RuleIds) |->
  IF r \in {RuleIds[2], RuleIds[5]} THEN "Composite" ELSE "Primary"]

RuleFindings(rule, graph, previous) ==
  CASE rule = RuleIds[1] -> NetworkFindings(graph)
    [] rule = RuleIds[2] -> FlowFindings(graph, previous)
    [] rule = RuleIds[3] -> PresenceFindings(graph)
    [] rule = RuleIds[4] -> FileAccessFindings(graph)
    [] rule = RuleIds[5] -> ChainFindings(graph, previous)

(* run_stage: every rule of the stage sees the same earlier findings; the  *)
(* engine names the rule and numbers the findings from next on.            *)
Named(rule, findings) == [k \in DOMAIN findings |-> [findings[k] EXCEPT !.rule = rule]]

Numbered(findings, next) ==
  [k \in DOMAIN findings |-> [findings[k] EXCEPT !.id = next + k - 1]]

StageFindings(rules, graph, previous) ==
  FlattenSeq([k \in DOMAIN rules |->
                Named(rules[k], RuleFindings(rules[k], graph, previous))])

(* Mutant of RunStage: each stage numbers its findings from one.           *)
RunStageRestarts(rules, graph, previous) ==
  previous \o Numbered(StageFindings(rules, graph, previous), 1)

RunStage(rules, graph, previous) ==
  previous \o Numbered(StageFindings(rules, graph, previous), Len(previous) + 1)

Detect(graph, primary, composite) ==
  RunStage(composite, graph, RunStage(primary, graph, << >>))

(* filter_findings: those at least as severe as the minimum.               *)
Filtered(findings, minimum) ==
  LET rank(s) == CHOOSE n \in DOMAIN Severity : Severity[n] = s
  IN Kept(findings, {f \in Range(findings) : rank(f.severity) <= rank(minimum)})
=============================================================================
