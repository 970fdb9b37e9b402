# Verification of RuntimeXRay

RuntimeXRay runs a program under ptrace (or eBPF), turns what its tasks do into events, builds a
provenance graph from them (which process, which executable image, which descriptor, which pipe),
scans process memory for secrets under a page budget, evaluates detection rules over the graph, and
tells what they found as stories. This directory models the parts whose correctness depends on order:
what happens when the events of several tasks interleave, when ids are reused, when events are lost,
when budgets run out, when a task dies between two steps of the tracer, and what a report says of a
trace that can end at any point.

Paths below are relative to the repository.

## Inventory

| Component | State it keeps | Operations | What is hard | What makes it correct |
|---|---|---|---|---|
| `LineageAnalyzer`: identity (`src/lineage_analyzer.cpp`) | `active_process_by_tgid_`, `next_process_instance_id_`, live-thread sets, exec generations, pending entries, fork bookkeeping | `on_syscall_event` and the handlers it calls | a child is announced three times in any order; TGIDs are reused; exits of threads and of groups | one lifetime, one instance; one image, one key; at most one causal parent; ended is final |
| `LineageAnalyzer`: descriptors, pipes (same file) | fd bindings per instance, resource ids, pipe reads and writes | open, close, dup, fcntl, pipe, fork inheritance, close-on-exec, read, write | a child met before it is announced; late write exits; dup onto itself | bindings are the kernel's descriptors; one id, one object; edges join real writes and reads |
| Tachikoma, the ptrace loop (`src/tachikoma.cpp`) | `traced_pids_`, `in_syscall_state_`, entry snapshots, TGID cache | `run`, `handle_ptrace_event`, `handle_syscall_stop`, `resolve_tgid`, the destructor | adopting children, stops of dying tasks, timeout | every stopped task is resumed; the loop ends when the tasks have |
| eBPF backend (`ebpf/trace.bpf.c`, `src/ebpf_backend.cpp`) | pid filter, scratch maps, ring buffer; `pending_exec_tid_by_tgid_` | three tracepoint programs, `trace`, `handle_event` | events lost when the ring is full, stale scratch entries, exec changing a task's id | an exit meets its own entry; a child is announced before its calls; buffers are those of the call |
| `MemoryScanCoordinator` | per-image counts and pages, open reservations | `request_scan`, `complete_scan` | overlapping, repeated and altered permits; wrap-around | limits hold, accounting is exact |
| Trace command: scan session (`src/commands/trace_command.cpp`) | images inspected, coordinator | `capture_initial_context`, `request_scan`, the event callback | failures between permit and completion; starvation of one reason by another | each reason gets its scan, no permit leaks |
| Trace command: data observations | the graph under construction, data observations put aside | the callback's stamps, `append_data_observations_to_graph` | scanned data is attributed to a process image by time, after the trace | data belongs to the image, and the resource, it was found in |
| Detection engine, registry | rule list, disabled ids | `register_rule`, `unregister_rule`, `enable_rule`, `disable_rule`, `detect` | rules replaced and disabled, ids over two stages | each active rule runs once; what a finding cites is there |
| Detection rules | none (they read a finished graph) | `detect` of each rule | descriptors resolved by replay; paths through pipes; exec; calls that never returned | a finding tells what happened, and what happened is found |
| Scanner, readers, region policy | one scan's position and counts | `scan_memory_for_secrets`, `read`, `prioritize_memory_regions` | partial and failed reads, caps | no more pages than granted, the likeliest first |
| `/proc` descriptor discovery | none between calls | list, classify | | its result is part of the descriptors above |
| Narrative, finding filter | none | `build_narrative_sessions`, `NarrativeBuilder::build`, `filter_findings` | a second resolver of descriptors; findings cited but filtered out | a story tells what its finding says |
| Extractors, reporters, ELF analysis, CLI | none | text and file processing | parsing | not modelled |

The backend's loop calls the trace command's callback, which calls the analyzer and then the scan
session; nothing in the program runs concurrently with it. The concurrency is outside: the traced
tasks run while the tracer works, and the kernel decides in which order their stops are reported
(ptrace), or lets them run on while their events wait in a ring (eBPF).

`PROJECT.json` lists every component with its status and every hazard with its line and the
properties that cover it.

## Modules

* **`ProcessLineage`** is the analyzer's identity half: one action per handler `on_syscall_event`
  dispatches to. It accepts *any* order of events about the task ids, since events may be late or
  lost and the analyzer must keep its maps consistent whatever comes.
* **`TracedProcesses`** closes it with an environment: a kernel that forks, clones, execs, kills and
  reuses ids (external, modelled from what the tracer sees of it), and the tracer's order of handling.
  Every traced task waits at its stop until the tracer handles it; stops of different tasks are
  handled in any order, which is what `waitpid(-1)` allows: a child's whole life, its exit included, may be
  handled before its creator's fork stop. The history variable `early` remembers the tasks for which it
  was, and `mistaken` whether a cached TGID was ever used for a task of another process; the properties say
  what such an order leaves behind instead of leaving it out.
* **`TracerLoop`** is the loop itself: `traced_pids_`, `in_syscall_state_`, each ptrace request that
  can fail, the timeout, the exception paths and the reaping of the destructor. It drops the events.
  Receiving a status and handling it are two steps, because the task may be killed in between; for the
  same reason `handle_ptrace_event` is a step for each request it makes to the child and to its creator
  (`ForkTakesStop` or `ForkDefers`, `ForkAdopts`, `ForkResumesChild`, `ForkResumesParent`). A new
  child and its creator may stop in either order (a comment in `handle_ptrace_event` counts on one of them).
* **`ResourceLineage`** is the analyzer's descriptor half: the kernel's tables (external) beside the
  bindings the analyzer replays, the discovery of a process's descriptors at its first entry, the
  inheritance and reconciliation at TaskCreate, and the DataFlow edges between writes and reads.
* **`EbpfBackend`** is the three tracepoint programs, the maps they share, the ring, and
  `handle_event` on the other side. A program is one step: it touches the maps under its own task id,
  the pid filter apart. An event that finds no room is dropped with the program's early return, so
  what was written before it stays. What goes wrong further on is kept as history: entry and exit of
  different calls taken for one (`mispaired`), a buffer of another call copied (`miscopied`).
* **`PageBudget`** is what the coordinator promises, without permit ids, scan counts and policies: a
  promise takes its pages from an image's budget before anything is read, is given once, settled at
  most once, and its settlement returns what was not used.
* **`ScanCoordinator`** is `MemoryScanCoordinator`: two operations, every refusal a disjunct.
  `ImplementsBudget` maps what an image has left to what is not accounted, and open promises to
  reservations; refused requests and rejected completions are stuttering steps.
* **`MemoryScanner`** is one scan: the regions of `/proc/<pid>/maps` in the order of the region policy,
  one read at a time, each of which may fail or come back short.
* **`TraceScanSession`** is the trace command's use of both. A request is granted, the scan runs, and
  what it reports is settled; every step that touches the permits is an action of
  `ScanCoordinator`, every scan step one of `MemoryScanner`.
* **`DetectionRules`** is the rules that read a trace and the engine's two stages, as operators of a
  finished graph. The pipe-chain rule's search is the set
  of the paths that it goes along (`MaximalPaths`).
* **`Selection`** is the filtering of a sequence that these modules share (`Kept`).
* **`RuleRegistry`** is the registry the engine takes its rules from: replace, remove, disable, enable.
* **`Narrative`** is the executable sessions and the stories of composite findings, with the
  narrative's own resolver of descriptors.
* **`Detection`** puts these four behind the trace command's callback: traced threads (external) open,
  read, connect, write, close and exec; each call is seen at its entry, takes effect some time later,
  and is seen again at its exit; data observations are collected and, at the end of the trace, appended
  to the graph by time; then rules, filter and narrative run. What each call really did is kept in the
  history `actual`, which files, pipes and images in it the report is then compared with.

`ProcessLineageProofs`, `ScanCoordinatorProofs`, `TraceScanSessionProofs`, `EbpfBackendProofs`,
`ResourceLineageProofs`, `TracedProcessesProofs`,
`TracerLoopProofs` and `DetectionProofs` (about the invariants of `DetectionInvariants`) hold the theorems. The `MC*` modules and the `.cfg`
files are what TLC runs; each `Violate*.cfg` shows one disagreement listed under "Disagreements found".
Definitions whose comment says "Mutant of" are plausible errors in the code: replacing the named
definition by one of them breaks the property listed with it in `PROJECT.json`.

## Runs

| Run | Question | Bounds, and why they are enough |
|---|---|---|
| `lineage_processes` | do the maps agree after any events about two ids? | 2 ids, 2 instances, 1 exec: two processes and a reuse of each id; the theorems remove the bounds |
| `traced_processes` | are keys, edges and ends those of the kernel's processes? | 3 ids, 1 exec, 5 instances; four workloads: 4 processes (so one id is reused) that fork, exec and exit; 3 that signals may kill; 4 threads and processes made by clone and clone3 that exit one by one; 3 that signals may kill. A child's stops, its exit too, may be handled before its creator's: enough for an instance left behind to be taken over by the next process with the id |
| `scan_coordinator` | do limits and accounting survive overlapping, repeated and altered permits, and is that the abstract budget? | 2 images, 2 reasons, 4 reservation ids (the counter runs out); page limits that a scan, and that all scans, can reach |
| `scan_session` | does every reason get its scan, does a scan keep to its permit, and is every permit settled? | 2 images, all reasons, 4 reservation ids; scans of 3 pages and 2 observations, of which one page may hold more, over two maps, one with more than a scan may read and the interesting regions last, one with little; sizes in half pages, so that a read may be short |
| `tracer_loop` | is every stopped task resumed, and does the loop end? | 3 tasks (leader, worker, child process, in any arrangement), 1 syscall or signal stop each, both fork modes, exit_group, a worker's exec, and the timeout |
| `resource_lineage` | are the replayed tables the kernel's, and supplied reads linked? | 2 processes, 3 descriptors, 3 objects (two pipes and a file, or three of a kind), 3 calls of the parent and 1 of the child: enough for pipe, fork, and a read or write on each side |
| `ebpf_backend` | are children announced first, and exits and buffers those of their call? | 3 tasks, a ring of 2 events, a filter of 2 ids, 3 calls of the target (its exec and two more, reads with and without a buffer among them) and 1 of its first child: both the ring and the filter fill up |
| `detection` | does the report tell what the processes did, and is what they did found? | one secret, 2 descriptors in each process, 4 or 5 observed calls; five workloads: one thread that reuses descriptors for files, sockets and accepted peers; the same with execs and calls that fail; two threads, one of which closes; three processes joined by two inherited pipes, of which the middle one may exec, and may write a payload too large to be looked at; a registry changed twice before a trace |
| `split_image_violated`, `loop_throws_violated`, `reaping_violated`, `unreturned_open_violated` | four disagreements between code and comments, see below | the smallest workload that shows each |

A flow takes four observed calls (open, read, connect, write) and one that is not seen (socket); a chain
of two pipes takes four, and the fifth is an exec, a second transfer or a close at any place among them.

Deadlock is not checked in these runs: a finite workload ends, and the program with it.

**Fairness.** Only `TracerLoop` states liveness, and it assumes weak fairness of two things: the
kernel runs a task that can run (`KernelStep`), and the loop, which polls with `WNOHANG` and a short
sleep, keeps taking what there is (`LoopStep`). The timeout has no fairness: it need not come. The
workload is finite, so a program that runs for ever is outside `LoopEnds`, as it is outside the
comment it is taken from.

## What the properties say

* Identity: `KeyIdentifiesImage` and `ImageHasOneKey` (a process key is one executable image and the
  other way round), `CausalityFollowsForks`, `OneNodePerLifetime`, `NoInstanceOutlivesProcess`,
  `LiveProcessIsActive`; and inside the analyzer `MapsAgree`, `OneCausalParent`, `FreshIdsAreClean`,
  `EndedStaysEnded`.
* Descriptors: `TablesAgree` (numbers, ends and close-on-exec flags are the kernel's whenever the
  process is between calls), `ResourceIsOneObject`, `PipeEndsShareId`, `EdgesAreReal`,
  `SuppliedReadsAreLinked` (also when the write's exit or the child's announcement comes late).
* Loop: `TracedExist`, `StopsAreResumed`, `LoopEnds`.
* eBPF: `AnnouncedFirst`, `PairsOwnEntry`, `PayloadIsOwn`, `ImagesAreCounted`. The second and third
  exempt processes of which an event was lost only as far as the code needs it: the bytes of a read
  are its own after any loss, a pipe's descriptors are not. A read without a buffer is the exception: it
  may be given the bytes of an earlier buffer of its task, and of no other.
* Scans: `ReservationsAreUnique`, `ScanLimitsHold`, `AccountingIsExact`, `ImplementsBudget`,
  `NoReasonStarved` (a granted scan is a full one, and only a reason's own scans can use it up),
  `PermitsAreSettled` (no completion is rejected, no page stays reserved), `ScanHonoursPermit`,
  `InitialInspectionOnce`.
* Reports: soundness and completeness, each against what the calls really did. `FlowsAreReal` and
  `FlowsAreFound` for files that end in sockets, `ChainsAreReal` and `ChainsAreFound` for values passed
  on through pipes, `DataOnOwnImage` for scanned data, `SupportIsReported` for the findings that
  others rest on, under any registry and severity filter, and `StoriesAgree` for the narrative.
  The first two exempt calls of threads that raced for a descriptor (`Unraced`), the third and fourth
  pipes with writers of several images (`OneWriter`), where a read is joined to the last write entered
  before it returned; the exemptions are as far as the code needs them and no further.

## Disagreements found

* `split_image_violated`: `handle_exit_group` ends the instance when one thread *enters* `exit_group`.
  Another thread may be at an unhandled syscall stop; its event revives the TGID as a second instance.
* `loop_throws_violated`: a task killed by a sibling's `exit_group` between the report of its stop and its
  resumption makes `handle_ptrace_event` (`src/tachikoma.cpp:465`, in this run) or `handle_syscall_stop`
  (`src/tachikoma.cpp:613`) throw; every other branch forgets such a task.
* `reaping_violated`: `handle_ptrace_event` waits for the new child without blocking, and if
  the loop adopted the child earlier that wait may take an early adopted child's *death*. Its
  id stays in `traced_pids_`, `waitpid` fails with ECHILD in the end, and the destructor waits for
  that id for ever.
* `unreturned_open_violated`: an observation's return value is 0 from its entry on, so an open that has
  not returned when the trace ends is reported as "opened" with a descriptor
  (`src/sensitive_file_access_rule.cpp:172`), although the callback's own comment says that nothing is
  known of it yet.

Known, and not run:

* The exit of a child may be handled before its creator's fork stop. `handle_task_create` then finds the
  child's TGID inactive, and `ensure_process` (`src/lineage_analyzer.cpp:504`) makes a second process node
  for a lifetime that has ended, against core invariant #1 of `tests/test_process_instance_lifetime.sh`
  ("one active Linux TGID lifetime must have exactly one process node", line 76). Nothing ends that
  instance: the edge from the creator goes to it, and the next process with the TGID is attributed to it
  and so to the wrong parent. `OneNodePerLifetime`, `CausalityFollowsForks` and `NoInstanceOutlivesProcess`
  hold but for this; without their exceptions TLC refutes each of them on the bounds of `traced_processes`
  (the first in 5 steps).
* `handle_ptrace_event` resolves the child after its death may have been handled, and so caches the TGID
  of a task that `run()` has forgotten (`src/tachikoma.cpp:397`), although the cache is cleared there
  because "linux can eventually reuse a TID" (`src/tachikoma.cpp:685`). If the id is then given to a thread of
  another process, its events go to the wrong TGID (`mistaken`): one process may get two keys.
* The same wait may take a later *stop* of an early adopted child, for example its exec stop
  (`src/tachikoma.cpp:418`); the analyzer is then never told of that exec. `TracedProcesses` leaves it out;
  `TracerLoop` has it.
* `SensitiveDataFlow` compares the entries of the input and the output
  (`src/sensitive_data_flow_rule.cpp:285`): a thread may send before another's read, entered earlier,
  has returned. `FlowsAreReal` does not ask for the order.
* An execve that has not returned has return value 0 like a successful one, and the narrative names a
  session after it if it comes last (`src/narrative.cpp:141`). One thread cannot make this visible, since
  its exec has taken effect when its next session has an observation; two threads' execs are not run.
* The pipe-chain rule makes one finding per maximal path (`src/sensitive_value_cross_process_pipe_chain_rule.cpp:495`):
  k transfers of a value on each of m pipes make k^m findings.
* A worker's exec ends under its leader's id and completes the leader's pending entry
  (`src/lineage_analyzer.cpp:294`); its old id stays in `traced_pids_`, so the timeout's reap loop,
  which waits for every id, may not end (`src/tachikoma.cpp:647`).
* A worker that exits before its creator's clone exit is handled is listed as live again
  (`src/lineage_analyzer.cpp:599`).
* A process killed by a signal is never ended, so the next process with its TGID continues its
  instance (`src/tachikoma.cpp:680`). `KeyIdentifiesImage` and two others therefore leave out programs
  that signals may kill.
* The last syscall of a TID is kept when the task is gone, so a chronological chain can start at
  another task's call (`src/lineage_analyzer.cpp:270`).
* Without following forks, a child that has not stopped yet cannot be detached, and the loop throws
  (`src/tachikoma.cpp:460`); one adopted before stays in `traced_pids_` after its detachment.
* The comments of `remap_resource_identity` and `reconcile_child_fd_bindings` say that no DataFlow
  edges are made; both relink the reads they rename.
* eBPF: two threads in execve at once overwrite each other's pending id (`src/ebpf_backend.cpp:541`);
  the filter holds 1024 ids and never drops one, so children can go untraced and a reused id be
  traced; the draining loop lasts as long as descendants make events (`src/ebpf_backend.cpp:269`);
  after a lost entry a pipe's exit reads an earlier call's address (`ebpf/trace.bpf.c:400`); and a
  `recvfrom` without a buffer (`MSG_TRUNC`) stashes nothing (`ebpf/trace.bpf.c:453`), so if it returns
  more than 0 it is given the bytes of an earlier buffer, whose read returned nothing or lost its exit.

## Limits of the models

* `TracedProcesses`, `TracerLoop`: at most one exec per image, no job control, no tracer other than
  this one. `TracerLoop` and `EbpfBackend` do not reuse task ids; `TracedProcesses` does.
* `TracedProcesses`: of what the fork handler's own wait can take it has only the child's first stop;
  a later stop, or the death, of a child adopted early is left to `TracerLoop`. A dead child is released
  by a wait of its creator after the fork call has returned: a parent that ignores SIGCHLD, or whose other
  thread waits earlier, is left out. Once a cached TGID has been used for a task of another process
  (`mistaken`), `ImageHasOneKey`, `LiveProcessIsActive` and `OneNodePerLifetime` say nothing more.
* `TracerLoop`: PTRACE_GETEVENTMSG at a fork stop answers with the child or fails. A creator that was
  killed and has already reached its exit stop by then would answer with its exit status.
* `ResourceLineage`: single-threaded processes, the ptrace backend (eBPF does not discover
  descriptors), no shared tables (`CLONE_FILES`), no `close_range`, no accepted or connected
  descriptors, and a read takes one written chunk. Live and dead pipes have different kernel keys.
  With threads, a `dup2` or `close` in flight at a fork gives the child a wrong binding that nothing
  corrects later. `PipeEndsShareId` across processes is limited to those announced before they were
  met: ids made before the announcement stay apart for pipes made under trace.
* `EbpfBackend`: the ring is a queue in the order of the reservations; the timeout's kill is one step
  and the exits it hides count as lost; the model stops once the programs are detached. Capacities of
  the scratch maps (4096), the set-up and what is copied into an event are left out.
* `TraceScanSession`: which image an event resolves to is left open, any or none. The two readers
  (`process_vm_readv`, `/proc/<pid>/mem`) are one that may fail at any read.
* `Detection`: one secret, whose extraction from a payload always succeeds, and which a read always
  returns; a write carries it whole, or as a large payload that is not looked at (more than 4096 bytes).
  `sendto`, `recvfrom` and `writev` are folded into `read` and `write`; `dup`, inherited sockets, and
  execs and pipes of a process with several threads are left out (`WorkloadAssumption`); process lifetimes and resource ids are those of
  `ProcessLineage` and `ResourceLineage`, which are checked on their own. A scan finds what is in memory
  or not, within any budget. The environment and the command line are one (`StartUp`).

## Proofs

`ProcessLineageProofs` proves `Spec => []IInv` by one lemma per action and derives `TypeOK`,
`MapsAgree`, `OneCausalParent`, `FreshIdsAreClean` and the action property `EndedStaysEnded`, for any
task ids, any bounds and any order of events. None of them is inductive alone: that a new instance has
no threads, edges or end time is `FreshIdsAreClean`, which in turn needs that every reference names an
allocated instance, which is `MapsAgree`. The assumptions are those of the module: the bounds are
naturals, 0 is not a task id, and the calls are known.

`ScanCoordinatorProofs` proves the coordinator's invariants, for any policy and any number of images.
The strengthening ties each counter to the set of permits issued: counts are cardinalities, accounted
pages are sums over open and completed permits. Two results are proved and not run:
`CompletionIsAccepted` (`complete_scan` never rejects an outstanding permit) and
`OnlyCompletionRefunds`. `BudgetImplemented` is the refinement `Spec => ImplementsBudget`: the initial
state maps to the budget's, an issued permit to `Give`, a completion to `Settle`, and everything else,
refusals and rejected completions included, to a stutter.

`TraceScanSessionProofs` proves the session's side for any policy that `SessionAssumption` allows: an
image may be scanned at least as often as its three reasons together. The invariant `SInv` says that the only open permit is the running scan's, that a scan has read no
more than its limit, which is no more than its permit, that the pages accounted are at most the scans
issued times the pages of one, that an image's scans are the sum of those of its three reasons, and
that the initial inspection is either awaited or answered. None of the properties is inductive: that
no reason starves another is arithmetic over all permits issued so far, and that a completion is
accepted needs the running scan's own history.

`ScanAlwaysHonoursPermit` proves of a scan, for any maps and limits, that it keeps to its permit and goes
through the regions in the order of their priority. `LimitsInv` counts reads; `InOrder` says that every
region left comes after every one read. That the next region exists is `FirstOfLeft`: of the regions left
in a stable order there is a first, by `LeastNumber`, that a nonempty set of numbers has a least one. The
prover has no induction; `LeastNumber` is from the library's theorem that a well-founded relation has
minimal elements.

`EbpfBackendProofs` proves `AnnouncedFirst` and `PayloadIsOwn` for any tasks, any calls, and any sizes
of the ring and the filter (`SizesAssumption`, `TaskAssumption`). The invariant `IInv` follows each
task's announcement: the task does not exist yet, or its announcement waits in a scratch map, or is in
the ring before its other events, or has been handed on, or the task is not traced. It needs that the
filter takes a task only while it has room, and that a process's leader is known. For the payloads it
says that what a scratch map holds for a task in a read is that read's buffer, for a task in a pipe
call that pipe's, unless an event of its process was lost, and for a task in a read without a buffer
nothing or an earlier read's.

It then proves `PairsOwnEntry` and `ImagesAreCounted` by a second invariant, `EventsInv`, relative to the
first (`EventsInvariance`). Neither property is near inductive: which entry an exit meets depends on all
that still waits in the ring before it, and an exec changes the id under which the call ends. The
conjuncts say:

* `CallsInv`, `RingInv`: a task is in its own call, or in that of the worker whose exec gave it the id;
  an event names a call that was made, by a task of the event's process.
* `OrderInv`: a task's events are in the ring in the order of its calls, behind the entry kept for it,
  and the exit of a call still underway is not there.
* `PairInv`: of a process that lost nothing and never had two threads in execve at once (`Sound`), the
  entry of each call that is underway, or whose exit waits, is ahead in the ring or is the pending one.
  The launch is the exception: its entry was before the filter.
* `OpenInv`: an entry stays open only while its call is underway or its exit waits.
* `ExecInv`: the last exec of a process in the ring, or else `pending_exec_tid_by_tgid_`, names the task whose
  entry its next exec exit ends.
* `MispairInv`: only a process that is not `Sound` has an exit taken for another call's.
* `LaunchInv`: the launcher's own exec has not returned, or its exit waits in the ring and the
  suppression with it, or both are over.
* `CountInv`: a process's execs are the images told, plus the successful exits that wait in the ring,
  plus one that has not returned, plus the launch while that is not suppressed.

TLC found `EventsInv` invariant on the instance of `MCEbpfBackend` before it was proved. The properties
are what it says when the ring is empty, `MispairInv` what it says of the exits handled before.

`TracedProcessesProofs` proves `Spec => PL!Spec`: the ids and calls that the tracer passes on are ids of
tasks and calls of the workload (`Told`: caches and stops name tasks that exist, and what an exec stop
forgets was an execve), so every event is a step of `ProcessLineage` and its theorems hold of the events
real processes make. So the analyzer's maps agree here too (`AnalyzerAgrees`, from
`ProcessLineageProofs`), and all variables keep their types (`AlwaysTyped`).

It then follows threads, any number of them, through kernel, tracer and analyzer, and proves
`LiveProcessIsActive`, `ImageHasOneKey` and `OneNodePerLifetime`. The invariant `GInv` says, conjunct by
conjunct:

* `GroupsInv`: a thread group is a process, and its leader's id stays taken until the process is reaped.
* `MetInv`: a process makes its first call before it makes threads or execs.
* `LiveInv`: a thread that is not exiting is in its instance's live set, or a thread that is, of the same
  process, has the stop of its creation still waiting. This is the strengthening that makes
  `handle_thread_exit` right: the set is never emptied by one thread's exit while another is left.
* `KeysInv`: all keys of a process are of one instance, generations and images run in step but for an
  exec whose stop still waits, and a live process's instance is the active one.

Each action has a lemma; the four that only add to the analyzer's maps share `GrowsKeeps`. The
hypothesis `ThreadsEndAlone` is that the program has no threads, or that no thread of it calls `execve`
or `exit_group`: those kill the other threads, whose last entry may be handled afterwards and process anew. `split_image_violated` shows that, so the hypothesis cannot be dropped; the workloads of
the run `traced_processes` satisfy it. Signals, which kill a whole group at once, are allowed. The
invariant, and so `LiveProcessIsActive` and `ImageHasOneKey`, ends with the first task that is taken for
one of another process (`mistaken`, see "Known, and not run"). `NoneMistaken` is that a program without
threads never comes to that, which is why the next three properties do not ask for it.

For the nodes, `NodesInv` counts. An instance that has ended has attributed calls (`NamedInv`), all of
one process, and a process's are of one instance, so an id has no more ended nodes than ended processes
were started under it. A node that has not ended is the active one (`NodesStand`, of
`ProcessLineageProofs`); it is of a process that has not ended, or an exit under the id was handled early
(`LifeInv`). The theorem is the count of the two, by an injection from nodes to processes.
What the announcement may meet is `AwaitInv`: a child whose creator's stop waits is there and not ended,
or its exit is among the early ones. That a fork's exit makes no node needs `MadeInv`: its child keeps
its id until the fork has returned, and the announcement's mark (`createdBy`) is still there. The
hypothesis `OneForkCall` adds
that a program does not use both `fork` and `clone3`. With both, a thread made by `clone3` can end and its
id be given to a process that another thread forks, before the `clone3` returns; its exit then takes the
mark of the fork's child (`ForkExitMatched`), and the fork's own exit makes a second node if that child
has exited. TLC finds this with three ids and the calls `fork`, `clone3` and `exit`; it takes the kernel
going through all ids during one stop, and no run is kept for it.

The last part of the module proves what the analyzer's identities are for: `KeyIdentifiesImage`,
`CausalityFollowsForks` and `NoInstanceOutlivesProcess`, for programs whose every death is reported
(`DeathsAreReported`: no threads, no deaths by signal; outside it a killed process's id stays active). The
bounds are arbitrary (`BoundsAssumption`, `TidAssumption`). None of them is inductive: a key is right
because of everything its instance was through. `KInv` follows each instance to the process it answers
for:

* `ActiveInv`: an active id is that of a task not exiting, whose the instance's one thread is, or the
  last process under the id exited before it was announced. The announcement of that process made the
  instance, and the next process with the id takes it over.
* `OwnersInv`: the calls attributed to an instance are of one process, and while the instance is active
  that is the one that has the id.
* `CausesInv`: the source of an edge forked whoever the instance answers for, or will answer for; if that
  is a process that took the instance over, it forked the earlier one.
* `ChildrenInv`, `LatestInv`: a forked task is there until the fork has returned, does not exit before
  its announcement but early, and has the mark its fork's exit looks for; and the process that has an id
  is the last one started under it.

Most steps leave every id answering for what it did before (`Quiet`, `QuietKeeps`). The four that do not
have a lemma each: a fork (`ForkKeepsKin`), an entry (`EntryKeepsKin`), an announcement
(`AnnounceKeepsKin`), and a release of an id, which `ReleaseQuiet` shows not to come before the fork's return.

`ResourceLineageProofs` proves the five invariants of `ResourceLineage` for any processes, any
descriptors (numbers, `DescriptorAssumption`), any bound on the calls and any open descriptors at the
start (`WorkloadAssumption`). None is inductive. `IInv` says, conjunct by conjunct:

* `AgreeInv`: the bindings of a process the analyzer has met agree with its table at every moment, but
  for the descriptors that the call in progress has changed and whose exit is not handled (`Stale`,
  `Reflagged`); this is what makes replaying each exit enough.
* `EffectInv`, `CallsInv`: what a returned call did is still there to see when its exit is handled, for
  nothing else changes the table of a single-threaded process in between.
* `KnownInv`, `ForksInv`: who may be known and bound, and that a child whose creator's stop is not
  handled is not announced, is no other creator's, and, until it is met, still has its creator's table.
* `NamesInv`: there is a map from ids to objects, and for each family of processes one from pipes to
  ids, that the bindings, the snapshots and the recorded reads and writes all obey. `ResourceIsOneObject`
  and `PipeEndsShareId` follow from them; every exit, discovery, inheritance and reconciliation is
  shown to extend or keep them (`LoopKeeps`, `RebindKeeps`, `Discovers`, `ReconcileKeeps`).
* `LinkedInv`, `EdgesInv`: every read that some handled write may have supplied has been
  linked, and an edge's ends are settled, so only their ids may still be renamed. With `FromInv` (what a
  read got its bytes from is a recorded observation) they give the two properties of edges.

`TracerLoopProofs` proves `TracedExist` for any number of tasks, and why `run()` throws. `IInv` adds to it
that a fork stop names a task, in the kernel and in `run()`'s hands, and that a detached task ends
unseen. `KernelMoves` and `LoopMoves` list what a step of either side may change, and each action is
shown to be one of them. `ThrowsOnlyForUnseen` assumes `Undisturbed`: forks are followed, and threads
end only by themselves. Without it a stopped task can be killed between the stop that `run()` was told
of and its request, which then fails; the run `loop_throws_violated` shows that. Under it a stop in
`run()`'s hands stays a stop (`HandledIsStopped`), and so only the fork handler's own wait for the
child, which may take a death from the loop, leaves it waiting for nobody.

`DetectionProofs` proves all seven properties of `Detection`, for any number of processes, threads,
pipes, descriptors and calls, any registry and any filter. What it assumes of a workload is
`WorkloadAssumption`: the processes start with ends of pipes and nothing else, of a pipe with one of its
two ends, and those with several threads neither exec nor hold an end of a pipe, since another thread's
call could come between a call's effect and its return. `ValuesAssumption` keeps the model's values
apart. The invariant (in `DetectionInvariants`) is built up in four steps, each a theorem of its own:

* `TraceIsKept`: types; when each call was entered and returned and of which image it is (`TimeInv`,
  `ImageInv`); that the observations without a return are those of the calls under way (`CallInv`); where
  each data observation is from (`DataInv`); and that a report is of the trace as it was left (`ReportInv`).
  `DataOnOwnImage` follows by a fact about the graph: of the events of a process up to a time the last one
  is of the image it had then.
* `PipesAreKept`: what is in a pipe came from writes, and a read was given the value of one (`PipeInv`); the
  edges (`EdgeInv`) are exact enough for both directions: each joins a write and a read that may have
  met, and every read that can be linked has one from a write no earlier than any that may have supplied
  it. The second half needs `link_pipe_dataflow` for the reads that return last and
  `reconcile_pipe_dataflow_from_write` for the writes that do.
* `ProgramsAreKept`: the program of an image is that of the last exec of it that succeeded, and the exec
  is in the trace.
* `FlowsAreKept`: what the resolver replays is what the process's table holds (`ReplayInv`). The resolver
  goes by the order of entries, the table by the order of effects, and the two differ only if two calls
  that set descriptors were under way at once; so a call of an image in which none were (`NoRace`) finds
  there what it acts on (`EffectInv`). That needs files which are not a pipe's to be held by one
  descriptor only (`FilesInv`), as nothing but pipes is inherited.

The rules are then treated as algorithms on the finished graph. `FindingsAre` is what the engine's two
stages make of their findings: each numbered by its position, made by an active rule, none lost, none
made twice, composite ones last. For chains, `LongestPath` shows that a maximal path goes through any
two boundaries that follow each other: the ends of the reads rise along a path (`BordersRise`), so paths
are bounded, and a longest one through both can be extended on neither side. Chain findings of different
paths differ (`SupportIsReported`) since a path can be got back from its evidence. For flows, of the
triples of a value there is a first (`FirstExists`). The stories agree because the narrative's resolver, which looks
at other calls than the rule's, has the same last one to go by.

These need induction and recursion that the prover does not have. Functions over positions in a
sequence (`Reconcile`, `Finished`, `FlattenSeq`) are shown to exist and to be what they say by
`LeastNumber`, and the model has `Kept` (of `Selection`) where `SelectSeq` would do, and the set of all paths (`Paths`) where the
code walks recursively.

Only model-checked: of `TracerLoop`, `StopsAreResumed` and `LoopEnds`, which are liveness. Liveness and
`ENABLED` are out of the prover's reach and stay with TLC. Every other property of a passing run is
stated by a theorem.

## Not modelled

* Secret and credential extractors, fingerprints: matching of text, with no state. `Detection` uses
  only whether a payload holds the secret.
* Static analysis (ELF parsing, mapped files, hardening and dangerous-API rules): one pass over a file
  that nothing else touches.
* Reporters, wording, scores and attributes of findings: layout of data the models already have.
* Command line, logger, syscall tables: parsing of arguments, output and constants.
* Parsing of `/proc` in descriptor discovery: its result is an operator of `ResourceLineage`.

## Plan

Done: `ProcessLineage`, `TracedProcesses`, `ScanCoordinator`, `TraceScanSession`, `TracerLoop`,
`ResourceLineage`, `EbpfBackend`; `PageBudget` and the refinement to it; `MemoryScanner`;
`DetectionRules`, `RuleRegistry`, `Narrative` and `Detection`; the proofs of all components.

What is left, the most useful first:

1. Composition: the events of `EbpfBackend`, losses included, into `ProcessLineage`, and its delay
   into `TraceScanSession` (a scan may read a later image than its permit names).
2. `ResourceLineage` with threads and shared tables; the hazards of descriptors that another thread
   closes between a call's entry and exit.
3. `Detection` with `dup`, inherited sockets and execs of two threads at once; more than one secret.
4. Proofs: those of the composition in 1; and of `Detection` with the workloads of 3.

