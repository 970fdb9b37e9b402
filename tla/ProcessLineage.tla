---------------------------- MODULE ProcessLineage ----------------------------
(***************************************************************************)
(* Process identity in LineageAnalyzer (src/lineage_analyzer.cpp).         *)
(*                                                                         *)
(* Linux names a process by a TGID it may reuse; the analyzer gives every  *)
(* process lifetime a process_instance_id that it never reuses, and every  *)
(* executable image of that lifetime an exec generation.  This module is   *)
(* the analyzer's side only: one action per callback on_syscall_event()    *)
(* dispatches to, open to any order of events.  TracedProcesses composes   *)
(* it with the kernel and the ptrace loop that produce the events.         *)
(*                                                                         *)
(* File descriptors, resource identities and pipe data flow are left out;  *)
(* of handle_task_create and handle_fork_exit this module keeps whether    *)
(* the child's descriptor table was initialised, not what is in it.  Left  *)
(* out too are the pending exec path, which only a log line reads, and     *)
(* thread_last_syscall_, which only draws the Chronological edges.         *)
(***************************************************************************)
EXTENDS Naturals, Sequences

CONSTANTS
  Tid,              (* Linux task ids; a TGID is the id of its leader.      *)
  Calls,            (* The syscalls of interest the workload makes.         *)
  MaxInstances,     (* Bounds next_process_instance_id_.                    *)
  MaxGeneration     (* Bounds exec_generation.                              *)

ASSUME BoundAssumption == MaxInstances \in Nat /\ MaxGeneration \in Nat

NoInstance == 0
Instance   == 1 .. MaxInstances

ASSUME TidAssumption == NoInstance \notin Tid

NoTid == 0

(***************************************************************************)
(* Syscalls, as far as process identity tells them apart.  "fork" stands   *)
(* for fork, vfork and clone without CLONE_THREAD, "clone_thread" for      *)
(* clone with it; clone3 hides its flags behind a pointer.                 *)
(***************************************************************************)
Call == {"fork", "clone_thread", "clone3", "execve", "exit", "exit_group", "other"}

ASSUME CallsAssumption == Calls \subseteq Call

VARIABLES
  nextInstance,     (* next_process_instance_id_                            *)
  active,           (* active_process_by_tgid_                              *)
  node,             (* instance -> TGID of its process node                 *)
  ended,            (* instances whose process node has an end_time         *)
  tids,             (* active_tids_by_instance_                             *)
  generation,       (* exec_generation_by_instance_                         *)
  inherited,        (* fd_inheritance_initialized_instances_                *)
  createdBy,        (* task_create_parent_instance_by_child_tid_            *)
  causality,        (* child instance -> sources of its Causality edges     *)
  pending           (* pending_entry_: the in-flight observation of a tid   *)

vars == << nextInstance, active, node, ended, tids, generation, inherited,
           createdBy, causality, pending >>

NoCall == [call |-> "none", instance |-> NoInstance, generation |-> 0]
Observation == [call: Call, instance: Instance, generation: 0 .. MaxGeneration]

TypeOK ==
  /\ nextInstance \in 1 .. MaxInstances + 1
  /\ active \in [Tid -> Instance \cup {NoInstance}]
  /\ node \in [Instance -> Tid \cup {NoTid}]
  /\ ended \subseteq Instance
  /\ tids \in [Instance -> SUBSET Tid]
  /\ generation \in [Instance -> 0 .. MaxGeneration]
  /\ inherited \subseteq Instance
  /\ createdBy \in [Tid -> Instance \cup {NoInstance}]
  /\ causality \in [Instance -> Seq(Instance)]
  /\ pending \in [Tid -> Observation \cup {NoCall}]

Init ==
  /\ nextInstance = 1
  /\ active = [t \in Tid |-> NoInstance]
  /\ node = [i \in Instance |-> NoTid]
  /\ ended = {}
  /\ tids = [i \in Instance |-> {}]
  /\ generation = [i \in Instance |-> 0]
  /\ inherited = {}
  /\ createdBy = [t \in Tid |-> NoInstance]
  /\ causality = [i \in Instance |-> << >>]
  /\ pending = [t \in Tid |-> NoCall]

-----------------------------------------------------------------------------
(***************************************************************************)
(* ensure_process.  The event's tgid either is active or starts a new      *)
(* lifetime under the next instance id; the tid joins the live set.        *)
(***************************************************************************)
IsActive(tgid) == active[tgid] # NoInstance

InstanceFor(tgid) == IF IsActive(tgid) THEN active[tgid] ELSE nextInstance

(* Mutant of NextAfter: the id counter is not advanced.                    *)
NextAfterReused(tgid) == nextInstance

NextAfter(tgid) == IF IsActive(tgid) THEN nextInstance ELSE nextInstance + 1

NodeFor(tgid) == IF IsActive(tgid) THEN node ELSE [node EXCEPT ![nextInstance] = tgid]

CanCreate(tgid) == InstanceFor(tgid) \in Instance

EnsureProcess(tid, tgid) ==
  /\ CanCreate(tgid)
  /\ nextInstance' = NextAfter(tgid)
  /\ active' = [active EXCEPT ![tgid] = InstanceFor(tgid)]
  /\ node' = NodeFor(tgid)
  /\ tids' = [tids EXCEPT ![InstanceFor(tgid)] = @ \cup {tid}]

(* Mutants of InheritOnce: every announcement draws the edge, or the edge  *)
(* is drawn from the child.                                                *)
InheritTwice(parent, child) ==
  /\ inherited' = inherited \cup {child}
  /\ causality' = [causality EXCEPT ![child] = Append(@, parent)]

InheritReversed(parent, child) ==
  /\ inherited' = inherited \cup {child}
  /\ causality' = IF child \in inherited
                  THEN causality
                  ELSE [causality EXCEPT ![parent] = Append(@, child)]

(***************************************************************************)
(* The first of TaskCreate and the parent's fork exit to name a child      *)
(* process initialises its descriptors and draws the Causality edge.       *)
(***************************************************************************)
InheritOnce(parent, child) ==
  /\ inherited' = inherited \cup {child}
  /\ causality' = IF child \in inherited
                  THEN causality
                  ELSE [causality EXCEPT ![child] = Append(@, parent)]

-----------------------------------------------------------------------------
(* handle_task_create, the parent's process unknown: the event is dropped. *)
TaskCreateOrphan(parentTgid) ==
  /\ ~IsActive(parentTgid)
  /\ UNCHANGED vars

(* handle_task_create, a new thread of the parent's process.               *)
TaskCreateThread(parentTgid, childTid) ==
  /\ IsActive(parentTgid)
  /\ tids' = [tids EXCEPT ![active[parentTgid]] = @ \cup {childTid}]
  /\ UNCHANGED << nextInstance, active, node, ended, generation, inherited,
                  createdBy, causality, pending >>

(* handle_task_create, a new process.                                      *)
TaskCreateProcess(parentTgid, childTid, childTgid) ==
  /\ IsActive(parentTgid)
  /\ childTgid # parentTgid
  /\ EnsureProcess(childTid, childTgid)
  /\ createdBy' = [createdBy EXCEPT ![childTid] = active[parentTgid]]
  /\ InheritOnce(active[parentTgid], InstanceFor(childTgid))
  /\ UNCHANGED << ended, generation, pending >>

TaskCreate(parentTgid, childTid, childTgid) ==
  \/ TaskCreateOrphan(parentTgid)
  \/ childTgid = parentTgid /\ TaskCreateThread(parentTgid, childTid)
  \/ TaskCreateProcess(parentTgid, childTid, childTgid)

-----------------------------------------------------------------------------
(* Mutant of Exec: the new image keeps the old generation.                 *)
ExecSameImage(tid, tgid) ==
  IF IsActive(tgid)
  THEN /\ tids' = [tids EXCEPT ![active[tgid]] = {tid}]
       /\ UNCHANGED << nextInstance, active, node, ended, generation, inherited,
                       createdBy, causality, pending >>
  ELSE UNCHANGED vars

(* handle_exec_success: the only thread left starts a new generation.      *)
Exec(tid, tgid) ==
  IF IsActive(tgid)
  THEN LET i == active[tgid] IN
       /\ generation[i] < MaxGeneration
       /\ generation' = [generation EXCEPT ![i] = @ + 1]
       /\ tids' = [tids EXCEPT ![i] = {tid}]
       /\ UNCHANGED << nextInstance, active, node, ended, inherited,
                       createdBy, causality, pending >>
  ELSE UNCHANGED vars

-----------------------------------------------------------------------------
(* Mutant of RecordEntry: stamped before the process is ensured.           *)
RecordEntryEarly(tid, tgid, call) ==
  LET i == InstanceFor(tgid) IN
  /\ CanCreate(tgid)
  /\ nextInstance' = NextAfter(tgid)
  /\ node' = NodeFor(tgid)
  /\ pending' = [pending EXCEPT ![tid] =
       [call |-> call, instance |-> active[tgid], generation |-> generation[i]]]
  /\ UNCHANGED << generation, inherited, createdBy, causality >>

(* The entry observation: stamped with the instance and the generation of  *)
(* the moment and left pending.                                            *)
RecordEntry(tid, tgid, call) ==
  LET i == InstanceFor(tgid) IN
  /\ CanCreate(tgid)
  /\ nextInstance' = NextAfter(tgid)
  /\ node' = NodeFor(tgid)
  /\ pending' = [pending EXCEPT ![tid] =
       [call |-> call, instance |-> i, generation |-> generation[i]]]
  /\ UNCHANGED << generation, inherited, createdBy, causality >>

EntryOrdinary(tid, tgid, call) ==
  /\ call \notin {"exit", "exit_group"}
  /\ RecordEntry(tid, tgid, call)
  /\ active' = [active EXCEPT ![tgid] = InstanceFor(tgid)]
  /\ tids' = [tids EXCEPT ![InstanceFor(tgid)] = @ \cup {tid}]
  /\ UNCHANGED ended

(* Mutants of EntryThreadExit: the TGID stays active after the last thread,*)
(* or any thread's exit ends the process.                                  *)
EntryThreadExitStaysActive(tid, tgid) ==
  LET i    == InstanceFor(tgid)
      rest == tids[i] \ {tid}
  IN
  /\ RecordEntry(tid, tgid, "exit")
  /\ tids' = [tids EXCEPT ![i] = rest]
  /\ active' = [active EXCEPT ![tgid] = i]
  /\ ended' = IF rest = {} THEN ended \cup {i} ELSE ended

EntryThreadExitIsLast(tid, tgid) ==
  LET i == InstanceFor(tgid) IN
  /\ RecordEntry(tid, tgid, "exit")
  /\ tids' = [tids EXCEPT ![i] = {}]
  /\ active' = [active EXCEPT ![tgid] = NoInstance]
  /\ ended' = ended \cup {i}

(* handle_thread_exit: the last observed thread ends the instance.         *)
EntryThreadExit(tid, tgid) ==
  LET i    == InstanceFor(tgid)
      rest == tids[i] \ {tid}
  IN
  /\ RecordEntry(tid, tgid, "exit")
  /\ tids' = [tids EXCEPT ![i] = rest]
  /\ active' = [active EXCEPT ![tgid] = IF rest = {} THEN NoInstance ELSE i]
  /\ ended' = IF rest = {} THEN ended \cup {i} ELSE ended

(* handle_exit_group: the instance ends whatever its threads do.           *)
EntryGroupExit(tid, tgid) ==
  LET i == InstanceFor(tgid) IN
  /\ RecordEntry(tid, tgid, "exit_group")
  /\ tids' = [tids EXCEPT ![i] = {}]
  /\ active' = [active EXCEPT ![tgid] = NoInstance]
  /\ ended' = ended \cup {i}

Entry(tid, tgid, call) ==
  \/ EntryOrdinary(tid, tgid, call)
  \/ call = "exit" /\ EntryThreadExit(tid, tgid)
  \/ call = "exit_group" /\ EntryGroupExit(tid, tgid)

-----------------------------------------------------------------------------
ForkCalls == {"fork", "clone_thread", "clone3"}

(* The exit carries the name its backend reports; the flags that make a    *)
(* clone a thread come from the entry observation it is paired with.       *)
ForkExit(tid, call, child) ==
  /\ pending[tid] # NoCall
  /\ call \in ForkCalls
  /\ child \in Tid

(* Every exit event first makes sure its process exists, paired or not.    *)
ExitOrdinary(tid, tgid, call, child) ==
  /\ ~ForkExit(tid, call, child)
  /\ EnsureProcess(tid, tgid)
  /\ pending' = [pending EXCEPT ![tid] = NoCall]
  /\ UNCHANGED << ended, generation, inherited, createdBy, causality >>

(* handle_fork_exit, clone with CLONE_THREAD.                              *)
ForkExitThread(tid, tgid, call, child) ==
  /\ ForkExit(tid, call, child)
  /\ pending[tid].call = "clone_thread"
  /\ CanCreate(tgid)
  /\ nextInstance' = NextAfter(tgid)
  /\ active' = [active EXCEPT ![tgid] = InstanceFor(tgid)]
  /\ node' = NodeFor(tgid)
  /\ tids' = [tids EXCEPT ![InstanceFor(tgid)] = @ \cup {tid, child}]
  /\ pending' = [pending EXCEPT ![tid] = NoCall]
  /\ UNCHANGED << ended, generation, inherited, createdBy, causality >>

(* Mutant of AlreadyCreated: TaskCreate leaves no trace.                   *)
AlreadyCreatedForgotten(tgid, child) == FALSE

AlreadyCreated(tgid, child) == createdBy[child] = InstanceFor(tgid)

(* handle_fork_exit, the child already announced by TaskCreate: it may be  *)
(* dead by now, so no instance is made for it.                             *)
ForkExitMatched(tid, tgid, call, child) ==
  /\ ForkExit(tid, call, child)
  /\ pending[tid].call # "clone_thread"
  /\ AlreadyCreated(tgid, child)
  /\ EnsureProcess(tid, tgid)
  /\ createdBy' = [createdBy EXCEPT ![child] = NoInstance]
  /\ pending' = [pending EXCEPT ![tid] = NoCall]
  /\ UNCHANGED << ended, generation, inherited, causality >>

(* handle_fork_exit, clone3 without TaskCreate: classification deferred.   *)
ForkExitDeferred(tid, tgid, call, child) ==
  /\ ForkExit(tid, call, child)
  /\ pending[tid].call = "clone3"
  /\ ~AlreadyCreated(tgid, child)
  /\ EnsureProcess(tid, tgid)
  /\ pending' = [pending EXCEPT ![tid] = NoCall]
  /\ UNCHANGED << ended, generation, inherited, createdBy, causality >>

(* handle_fork_exit, the fallback: the child leads a process of its own.   *)
(* The parent was ensured just before, so it is known here even if this    *)
(* very event brought it in.                                               *)
ForkExitCreate(tid, tgid, call, child) ==
  LET p     == InstanceFor(tgid)
      known == IsActive(child) \/ child = tgid
      c     == IF child = tgid THEN p
               ELSE IF known THEN active[child] ELSE NextAfter(tgid)
  IN
  /\ ForkExit(tid, call, child)
  /\ pending[tid].call \notin {"clone_thread", "clone3"}
  /\ ~AlreadyCreated(tgid, child)
  /\ {p, c} \subseteq Instance
  /\ nextInstance' = IF known THEN NextAfter(tgid) ELSE NextAfter(tgid) + 1
  /\ active' = [active EXCEPT ![tgid] = p, ![child] = c]
  /\ node' = IF known THEN NodeFor(tgid) ELSE [NodeFor(tgid) EXCEPT ![c] = child]
  /\ tids' = [[tids EXCEPT ![p] = @ \cup {tid}] EXCEPT ![c] = @ \cup {child}]
  /\ InheritOnce(p, c)
  /\ pending' = [pending EXCEPT ![tid] = NoCall]
  /\ UNCHANGED << ended, generation, createdBy >>

Exit(tid, tgid, call, child) ==
  \/ ExitOrdinary(tid, tgid, call, child)
  \/ ForkExitThread(tid, tgid, call, child)
  \/ ForkExitMatched(tid, tgid, call, child)
  \/ ForkExitDeferred(tid, tgid, call, child)
  \/ ForkExitCreate(tid, tgid, call, child)

-----------------------------------------------------------------------------
(***************************************************************************)
(* Events may be late, lost or out of order across threads, and TIDs are   *)
(* reused, so the component itself accepts any event about real task ids.  *)
(***************************************************************************)
Next ==
  \/ \E parentTgid, childTid, childTgid \in Tid :
       TaskCreate(parentTgid, childTid, childTgid)
  \/ \E tid, tgid \in Tid :
       \/ Exec(tid, tgid)
       \/ \E call \in Calls : Entry(tid, tgid, call)
       \/ \E call \in Calls : ExitOrdinary(tid, tgid, call, NoTid)
       \/ \E call \in ForkCalls \cap Calls, child \in Tid :
            Exit(tid, tgid, call, child)

Spec == Init /\ [][Next]_vars

-----------------------------------------------------------------------------
IsAllocated(i) == i \in Instance /\ i < nextInstance

(* Whatever the order of events, an active TGID maps to one allocated,     *)
(* unended instance whose own process node carries that TGID (so no two    *)
(* TGIDs share an instance), and some thread keeps it alive; instances not *)
(* active hold no threads.  This is what find_active_process_node and      *)
(* handle_thread_exit rely on when they follow the maps.                   *)
MapsAgree ==
  /\ \A g \in Tid : IsActive(g) =>
       /\ IsAllocated(active[g])
       /\ active[g] \notin ended
       /\ node[active[g]] = g
       /\ tids[active[g]] # {}
  /\ \A i \in Instance : tids[i] # {} => node[i] \in Tid /\ active[node[i]] = i

(* A child gets at most one Causality edge, however TaskCreate, the fork   *)
(* exit and the child's own events interleave.                             *)
OneCausalParent ==
  \A i \in Instance : /\ Len(causality[i]) <= 1
                      /\ i \notin inherited => causality[i] = << >>

(* Unallocated ids carry nothing: an id is fresh when it is handed out.    *)
FreshIdsAreClean ==
  \A i \in Instance : i >= nextInstance =>
    /\ i \notin ended /\ i \notin inherited
    /\ tids[i] = {} /\ generation[i] = 0 /\ causality[i] = << >>
    /\ \A t \in Tid : /\ pending[t].instance # i
                      /\ createdBy[t] # i

(* An instance that has ended is never revived, stamped on a later         *)
(* observation or handed to another TGID ("RuntimeXRay never reuses        *)
(* instance IDs", lineage_analyzer.cpp), and its exec generation is final; *)
(* what is attributed by (instance, generation) downstream relies on it.   *)
EndedStep ==
  /\ ended \subseteq ended'
  /\ \A i \in ended : generation'[i] = generation[i] /\ node'[i] = node[i]
  /\ \A i \in Instance : generation'[i] \in {generation[i], generation[i] + 1}
  /\ \A t \in Tid : pending'[t] # pending[t] => pending'[t].instance \notin ended

EndedStaysEnded == [][EndedStep]_vars
=============================================================================
