------------------------------- MODULE Narrative -------------------------------
(***************************************************************************)
(* What the report tells of a graph and its findings: the executable       *)
(* sessions (src/narrative.cpp) and a story for each composite finding     *)
(* (src/narrative_builder.cpp).  Of a statement its evidence and the       *)
(* resource it names are kept, not its wording.                            *)
(*                                                                         *)
(* A graph is one of DetectionRules; its "process" observations, which     *)
(* belong to no session, are not in it, and the name a process had at its  *)
(* start is the function initial.                                          *)
(***************************************************************************)
EXTENDS Integers, Sequences, SequencesExt, Selection

CONSTANTS NoValue, NoSource, NoSession, NoProgram

Session(o) == << o.inst, o.gen >>

(* build_narrative_sessions: a session's first position orders it.         *)
SessionIds(graph) ==
  LET begun(n) == /\ graph.obs[n].inst # NoSession
                  /\ \A m \in 1 .. n - 1 : Session(graph.obs[m]) # Session(graph.obs[n])
  IN FlattenSeq([n \in DOMAIN graph.obs |->
                   IF begun(n) THEN << Session(graph.obs[n]) >> ELSE << >>])

(* The successful execs that led to a session: an exec belongs to the old  *)
(* generation.                                                             *)
Execs(graph, session) ==
  {n \in DOMAIN graph.obs :
    /\ graph.obs[n].type = "Event" /\ graph.obs[n].call = "execve"
    /\ graph.obs[n].source # NoProgram
    /\ graph.obs[n].ret = 0
    /\ << graph.obs[n].inst, graph.obs[n].gen + 1 >> = session}

(* The last of them names the program.                                     *)
NamedBy(graph, n) == IF n = 0 THEN NoProgram ELSE graph.obs[n].source

ProgramOf(graph, initial, session) ==
  IF session[2] = 0 THEN initial[session[1]]
  ELSE NamedBy(graph, Max({0} \cup Execs(graph, session)))

(* associate_findings_with_sessions: the sessions with evidence of it.     *)
SessionsOf(graph, finding) ==
  Kept(SessionIds(graph), {Session(graph.obs[n]) : n \in Range(finding.evidence)})

-----------------------------------------------------------------------------
(* Mutant of Before: the whole trace is searched.                          *)
BeforeEver(graph, target, calls) ==
  {n \in calls : graph.obs[n].inst = graph.obs[target].inst}

(* The calls of its process before an observation.                         *)
Before(graph, target, calls) ==
  {n \in calls : n < target /\ graph.obs[n].inst = graph.obs[target].inst}

EventsOf(graph, call) ==
  {n \in DOMAIN graph.obs : graph.obs[n].type = "Event" /\ graph.obs[n].call = call}

Closes(graph, fd) ==
  {n \in EventsOf(graph, "close") : graph.obs[n].ret = 0 /\ graph.obs[n].fd = fd}

Opens(graph, fd) ==
  {n \in EventsOf(graph, "open") : graph.obs[n].ret = fd /\ graph.obs[n].source # NoSource}

Connects(graph, fd) ==
  {n \in EventsOf(graph, "connect") : /\ graph.obs[n].ret = 0 /\ graph.obs[n].fd = fd
                                     /\ graph.obs[n].source # NoSource}

(* resolve_fd_resource_at: the last open of the descriptor, or the last    *)
(* connect, unless a close followed; 0 if there is none.  Unlike the       *)
(* rule's resolver it looks at the whole process, and opening does not     *)
(* clear the endpoint.                                                     *)
Resource(graph, target, sets) ==
  LET last == Max({0} \cup Before(graph, target,
                                  sets \cup Closes(graph, graph.obs[target].fd)))
  IN IF last \in sets THEN last ELSE 0

SourceAt(graph, n) == IF n = 0 THEN NoSource ELSE graph.obs[n].source

(* One statement of a flow story.                                          *)
Explained(graph, n) ==
  LET o == graph.obs[n] IN
  \/ o.type = "Event" /\ o.call \in {"read", "write"}
  \/ o.type = "Data" /\ o.call = "memory"

SetBy(graph, n) ==
  CASE graph.obs[n].type = "Data"  -> 0
    [] graph.obs[n].call = "read"  -> Resource(graph, n, Opens(graph, graph.obs[n].fd))
    [] graph.obs[n].call = "write" -> Resource(graph, n, Connects(graph, graph.obs[n].fd))

FlowStatement(graph, n, at) ==
  [about |-> n, resource |-> SourceAt(graph, at),
   evidence |-> IF at = 0 THEN << n >> ELSE << n, at >>]

FlowStory(graph, finding) ==
  LET told(n) == graph.obs[n].value = finding.value /\ Explained(graph, n)
      statement(n) == IF told(n) THEN << FlowStatement(graph, n, SetBy(graph, n)) >> ELSE << >>
  IN FlattenSeq([k \in DOMAIN finding.evidence |-> statement(finding.evidence[k])])

(* A statement for each edge the finding names that the graph bears out.   *)
Holds(finding, from, to) ==
  /\ {from.value, to.value} = {finding.value}
  /\ from.res # 0 /\ from.res = to.res

ChainStory(graph, finding) ==
  LET statement(e) ==
        IF Holds(finding, graph.obs[e[1]], graph.obs[e[2]])
        THEN << [about |-> e[1], resource |-> graph.obs[e[1]].res, evidence |-> e] >>
        ELSE << >>
  IN FlattenSeq([k \in DOMAIN finding.edges |-> statement(finding.edges[k])])

StatementsOf(graph, finding) ==
  IF finding.kind = "sensitive_data_flow" THEN FlowStory(graph, finding)
  ELSE ChainStory(graph, finding)

(* A chain needs two statements, a flow one.                               *)
MayBeTold(finding, statements) ==
  Len(statements) >= IF finding.kind = "sensitive_data_flow" THEN 1 ELSE 2

Told(graph, initial, sessions) ==
  [k \in DOMAIN sessions |->
     [session |-> sessions[k], program |-> ProgramOf(graph, initial, sessions[k])]]

StoryOf(graph, initial, finding, statements) ==
  IF MayBeTold(finding, statements)
  THEN << [finding |-> finding.id, value |-> finding.value,
           sessions |-> Told(graph, initial, SessionsOf(graph, finding)),
           statements |-> statements] >>
  ELSE << >>

(* NarrativeBuilder::build                                                 *)
Stories(graph, initial, findings) ==
  LET story(f) ==
        IF f.kind \in {"sensitive_data_flow", "sensitive_value_cross_process_pipe_chain"}
        THEN StoryOf(graph, initial, f, StatementsOf(graph, f))
        ELSE << >>
  IN FlattenSeq([k \in DOMAIN findings |-> story(findings[k])])
=============================================================================
