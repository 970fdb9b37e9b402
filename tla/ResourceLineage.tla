--------------------------- MODULE ResourceLineage ---------------------------
(***************************************************************************)
(* Descriptors and pipes in LineageAnalyzer (src/lineage_analyzer.cpp):    *)
(* which kernel object a descriptor number stands for in each process, and *)
(* which write supplied which read.                                        *)
(*                                                                         *)
(* The analyzer never sees the kernel's tables.  It copies its own tables  *)
(* at TaskCreate, replays the calls whose exits it handles, and reads      *)
(* /proc once, at the first entry of a process it meets.  A new child may  *)
(* be met before its TaskCreate is handled; what was recorded until then   *)
(* is reconciled afterwards.                                               *)
(*                                                                         *)
(* The kernel is external.  Processes have one thread each and do not      *)
(* reuse ids (ProcessLineage has both); the backend is ptrace, which is    *)
(* the one that discovers descriptors; the keys of live and dead pipes     *)
(* differ.  A read takes one written chunk, and its content is a token.    *)
(***************************************************************************)
EXTENDS Naturals, Sequences, FiniteSets, FiniteSetsExt

CONSTANTS
  Proc, Root,       (* The processes; the traced program.                   *)
  NoProc,
  Fd,               (* The descriptor numbers.                              *)
  MaxObjects,       (* Bounds the kernel objects ever made.                 *)
  MaxCalls,         (* Process -> a bound on its calls.                     *)
  Ops,              (* The calls the workload makes.                        *)
  Tokens,           (* The contents written.                                *)
  Plain,            (* The token of content without a secret.               *)
  InitialTable      (* The descriptors Root starts with, for object 1.      *)

VARIABLES
  kind,             (* kernel: the kind of each object made                 *)
  content,          (* kernel: what is in each pipe                         *)
  table,            (* kernel: the descriptor tables                        *)
  status,           (* kernel and loop: where each process is               *)
  call,             (* kernel: its call, and the observation of it          *)
  left,             (* kernel: the rest of its workload                     *)
  bindings,         (* fd_bindings_by_instance_                             *)
  snapshot,         (* initial_fd_bindings_by_instance_                     *)
  discovered,       (* fd_discovery_initialized_instances_                  *)
  inherited,        (* fd_inheritance_initialized_instances_                *)
  nextResource,     (* next_resource_id_                                    *)
  observations,     (* the read and write events of observations_           *)
  edges,            (* the DataFlow edges of edges_                         *)
  early             (* history: processes met before they were announced,   *)
                    (* and what these forked                                *)

kernel   == << kind, content, table, early >>
flow     == << observations, edges >>
tables   == << bindings, snapshot, discovered, inherited, nextResource >>
vars     == << kernel, status, call, left, tables, flow >>

Object == 1 .. MaxObjects
NoKey  == 0
Closed == [obj |-> 0, role |-> "none", cloexec |-> FALSE]

(* A binding without the source path, which only rules and reports read.   *)
Unbound  == [res |-> 0, type |-> "none", role |-> "none", cloexec |-> FALSE, key |-> NoKey]
Pipe(obj) == kind[obj] = "pipe"

NoCall == [op |-> "none", fd |-> 0, to |-> 0, flag |-> FALSE, ret |-> 0,
           obs |-> 0, child |-> NoProc]

ASSUME WorkloadAssumption ==
  /\ Root \in Proc /\ NoProc \notin Proc
  /\ MaxObjects \in Nat \ {0} /\ MaxCalls \in [Proc -> Nat]
ASSUME DescriptorAssumption ==
  /\ IsFiniteSet(Fd) /\ Fd \subseteq Nat
  /\ InitialTable \in [Fd -> {Closed} \cup
                              [obj: {1}, role: {"read", "write"}, cloexec: BOOLEAN]]

Init ==
  /\ kind = << "pipe" >>
  /\ content = [o \in Object |-> << >>]
  /\ table = [p \in Proc |-> [f \in Fd |-> IF p = Root THEN InitialTable[f] ELSE Closed]]
  /\ status = [p \in Proc |-> IF p = Root THEN "running" ELSE "none"]
  /\ call = [p \in Proc |-> NoCall]
  /\ left = MaxCalls
  /\ bindings = [p \in Proc |-> [f \in Fd |-> Unbound]]
  /\ snapshot = [p \in Proc |-> [f \in Fd |-> Unbound]]
  /\ discovered = {}
  /\ inherited = {}
  /\ nextResource = 1
  /\ observations = << >>
  /\ edges = {}
  /\ early = {}

-----------------------------------------------------------------------------
(* discover_initial_fd_bindings: what /proc shows of a process that stands *)
(* still.  Descriptors already bound keep their bindings; of the others,   *)
(* those of one pipe share an id, with a bound one if its key is known.    *)
Bound(p, f) == bindings[p][f] # Unbound
IsOpen(p, f)  == table[p][f] # Closed

Missing(p) == {f \in Fd : IsOpen(p, f) /\ ~Bound(p, f)}

SamePipe(p, f, g) == table[p][f].obj = table[p][g].obj /\ Pipe(table[p][f].obj)

KnownPipe(p, f) ==
  {g \in Fd : /\ bindings[p][g].type = "pipe" /\ bindings[p][g].key = table[p][f].obj}

(* The descriptors that are given a fresh id, in ascending order.          *)
Fresh(p) ==
  {f \in Missing(p) : /\ KnownPipe(p, f) = {}
                      /\ \A g \in Missing(p) : SamePipe(p, f, g) => f <= g}

DiscoveredId(p, f) ==
  IF KnownPipe(p, f) # {}
  THEN bindings[p][Min(KnownPipe(p, f))].res
  ELSE LET first == CHOOSE g \in Fresh(p) : g = f \/ SamePipe(p, f, g)
       IN  nextResource + Cardinality({g \in Fresh(p) : g < first})

InProc(p, f) ==
  LET e == table[p][f] IN
  [res |-> DiscoveredId(p, f), type |-> kind[e.obj], role |-> e.role, cloexec |-> e.cloexec,
   key |-> IF kind[e.obj] \in {"pipe", "socket"} THEN e.obj ELSE NoKey]

Discovery(p) == [f \in Fd |-> IF f \in Missing(p) THEN InProc(p, f) ELSE Unbound]

(* The bindings with which the entry of p is stamped.                      *)
AtEntry(p) ==
  IF p \in discovered THEN bindings[p]
  ELSE [f \in Fd |-> IF f \in Missing(p) THEN InProc(p, f) ELSE bindings[p][f]]

Discover(p) ==
  /\ discovered' = discovered \cup {p}
  /\ bindings' = [bindings EXCEPT ![p] = AtEntry(p)]
  /\ snapshot' = IF p \in discovered THEN snapshot
                 ELSE [snapshot EXCEPT ![p] = Discovery(p)]
  /\ nextResource' = IF p \in discovered THEN nextResource
                     ELSE nextResource + Cardinality(Fresh(p))
  /\ UNCHANGED inherited

-----------------------------------------------------------------------------
(* Calls: the arguments the properties tell apart.                         *)
NoFlag == FALSE

Call(op, fd, to, flag) == [NoCall EXCEPT !.op = op, !.fd = fd, !.to = to, !.flag = flag]

Calls ==
  {Call(op, 0, 0, x) : op \in {"pipe", "open"}, x \in BOOLEAN}
  \cup {Call(op, 0, 0, NoFlag) : op \in {"socket", "fork", "execve"}}
  \cup {Call(op, f, 0, NoFlag) : op \in {"close", "dup", "read", "write"}, f \in Fd}
  \cup {Call("dup2", f, g, NoFlag) : f \in Fd, g \in Fd}
  \cup {Call("dup3", f, g, x) : f \in Fd, g \in Fd, x \in BOOLEAN}
  \cup {Call(op, f, 0, x) : op \in {"F_DUPFD", "F_SETFD"}, f \in Fd, x \in BOOLEAN}

(* stamp_fd_resource, and the fingerprint of a write's payload, which the  *)
(* callback sets while the observation is pending.                         *)
Stamped(p, c, token) ==
  LET b == AtEntry(p)[c.fd] IN
  [op |-> c.op, res |-> b.res, type |-> b.type, role |-> b.role, token |-> token,
   done |-> FALSE, end |-> 0, obj |-> 0, from |-> 0]

(* The entry stop of a call, handled.                                      *)
Entry(p) ==
  /\ status[p] = "running" /\ left[p] > 0
  /\ left' = [left EXCEPT ![p] = @ - 1]
  /\ Discover(p)
  /\ \E c \in {d \in Calls : d.op \in Ops} :
       /\ call' = [call EXCEPT ![p] =
            [c EXCEPT !.obs = IF c.op \in {"read", "write"} THEN Len(observations) + 1 ELSE 0]]
       /\ \E token \in IF c.op = "write" THEN Tokens ELSE {Plain} :
            observations' = IF c.op \in {"read", "write"}
                            THEN Append(observations, Stamped(p, c, token))
                            ELSE observations
  /\ status' = [status EXCEPT ![p] = "called"]
  /\ UNCHANGED << kernel, edges >>

(* handle_exit_group; the process is as good as gone.                      *)
ExitGroup(p) ==
  /\ status[p] = "running"
  /\ status' = [status EXCEPT ![p] = "ended"]
  /\ table' = [table EXCEPT ![p] = [f \in Fd |-> Closed]]
  /\ bindings' = [bindings EXCEPT ![p] = [f \in Fd |-> Unbound]]
  /\ snapshot' = [snapshot EXCEPT ![p] = [f \in Fd |-> Unbound]]
  /\ discovered' = discovered \ {p}
  /\ nextResource' = IF p \in discovered THEN nextResource
                     ELSE nextResource + Cardinality(Fresh(p))
  /\ UNCHANGED << kind, content, early, call, left, inherited, flow >>

-----------------------------------------------------------------------------
(* The kernel runs the call.                                               *)
Free(p) == {f \in Fd : ~IsOpen(p, f)}

Holds(p, role, obj) == \E f \in Fd : table[p][f].obj = obj /\ table[p][f].role = role

Returns(p, ret) ==
  /\ call' = [call EXCEPT ![p].ret = ret]
  /\ status' = [status EXCEPT ![p] = "returned"]
  /\ UNCHANGED << left, tables >>

Failed == 0
(* Descriptor f is returned as f + 1, so that Failed is no descriptor.     *)
Of(ret) == ret - 1

Installs(p, f, entry) ==
  /\ table' = [table EXCEPT ![p][f] = entry]
  /\ Returns(p, f + 1)
  /\ UNCHANGED << content, early, flow >>

(* EBADF, EMFILE, EINTR and the like.                                      *)
Fails(p) ==
  /\ status[p] = "called" /\ call[p].op \notin {"fork", "execve"}
  /\ Returns(p, Failed)
  /\ UNCHANGED << kernel, flow >>

MakesPipe(p) ==
  LET r == Min(Free(p))
      w == Min(Free(p) \ {r})
      o == Len(kind) + 1
  IN
  /\ status[p] = "called" /\ call[p].op = "pipe"
  /\ Cardinality(Free(p)) >= 2 /\ o \in Object
  /\ kind' = Append(kind, "pipe")
  /\ table' = [table EXCEPT ![p] = [@ EXCEPT
       ![r] = [obj |-> o, role |-> "read", cloexec |-> call[p].flag],
       ![w] = [obj |-> o, role |-> "write", cloexec |-> call[p].flag]]]
  /\ call' = [call EXCEPT ![p].ret = r + 1, ![p].to = w]
  /\ status' = [status EXCEPT ![p] = "returned"]
  /\ UNCHANGED << content, early, left, tables, flow >>

(* open, and the calls that make descriptors the analyzer does not follow. *)
Opens(p) ==
  /\ status[p] = "called" /\ call[p].op \in {"open", "socket"}
  /\ Free(p) # {} /\ Len(kind) + 1 \in Object
  /\ kind' = Append(kind, IF call[p].op = "open" THEN "file" ELSE "socket")
  /\ Installs(p, Min(Free(p)),
              [obj |-> Len(kind) + 1, role |-> "readwrite", cloexec |-> call[p].flag])

Closes(p) ==
  /\ status[p] = "called" /\ call[p].op = "close" /\ IsOpen(p, call[p].fd)
  /\ table' = [table EXCEPT ![p][call[p].fd] = Closed]
  /\ Returns(p, 1)
  /\ UNCHANGED << kind, content, early, flow >>

Duplicates(p) ==
  LET c == call[p]
      e == table[p][c.fd]
  IN
  /\ status[p] = "called" /\ IsOpen(p, c.fd)
  /\ UNCHANGED kind
  /\ \/ /\ c.op \in {"dup", "F_DUPFD"} /\ Free(p) # {}
        /\ Installs(p, Min(Free(p)), [e EXCEPT !.cloexec = c.flag])
     \/ /\ c.op \in {"dup2", "dup3"} /\ c.fd # c.to
        /\ Installs(p, c.to, [e EXCEPT !.cloexec = c.flag])
     \/ /\ c.op = "dup2" /\ c.fd = c.to
        /\ Installs(p, c.to, e)
     \/ /\ c.op = "F_SETFD"
        /\ table' = [table EXCEPT ![p][c.fd].cloexec = c.flag]
        /\ Returns(p, 1)
        /\ UNCHANGED << content, early, flow >>

(* What the observation of a call really was about.                        *)
Uses(p, o, token, from) ==
  observations' = [observations EXCEPT ![call[p].obs] =
                     [@ EXCEPT !.obj = o, !.token = token, !.from = from]]

Writes(p) ==
  LET e == table[p][call[p].fd]
      w == call[p].obs
  IN
  /\ status[p] = "called" /\ call[p].op = "write"
  /\ IsOpen(p, call[p].fd) /\ e.role # "read"
  /\ Pipe(e.obj) => \E q \in Proc : Holds(q, "read", e.obj)
  /\ content' = IF Pipe(e.obj) THEN [content EXCEPT ![e.obj] = Append(@, w)] ELSE content
  /\ Uses(p, e.obj, observations[w].token, 0)
  /\ Returns(p, 1)
  /\ UNCHANGED << kind, table, early, edges >>

(* A read waits for content while there is a writer.                       *)
Reads(p) ==
  LET e == table[p][call[p].fd] IN
  /\ status[p] = "called" /\ call[p].op = "read"
  /\ IsOpen(p, call[p].fd) /\ e.role # "write" /\ Pipe(e.obj)
  /\ \/ /\ content[e.obj] # << >>
        /\ LET w == Head(content[e.obj]) IN Uses(p, e.obj, observations[w].token, w)
        /\ content' = [content EXCEPT ![e.obj] = Tail(@)]
        /\ Returns(p, 1)
     \/ /\ content[e.obj] = << >> /\ ~\E q \in Proc : Holds(q, "write", e.obj)
        /\ Returns(p, Failed)
        /\ UNCHANGED << content, observations >>
  /\ UNCHANGED << kind, table, early, edges >>

(* The child exists and may run; its creator stops at the fork event.      *)
Forks(p) ==
  /\ status[p] = "called" /\ call[p].op = "fork"
  /\ \E c \in Proc :
       /\ status[c] = "none"
       /\ status' = [status EXCEPT ![p] = "forked", ![c] = "running"]
       /\ table' = [table EXCEPT ![c] = table[p]]
       /\ call' = [call EXCEPT ![p].child = c]
  /\ UNCHANGED << kind, content, early, left, tables, flow >>

Execs(p) ==
  /\ status[p] = "called" /\ call[p].op = "execve"
  /\ table' = [table EXCEPT ![p] = [f \in Fd |-> IF @[f].cloexec THEN Closed ELSE @[f]]]
  /\ status' = [status EXCEPT ![p] = "execed"]
  /\ UNCHANGED << kind, content, early, call, left, tables, flow >>

KernelStep ==
  \E p \in Proc :
    \/ Fails(p) \/ MakesPipe(p) \/ Opens(p) \/ Closes(p) \/ Duplicates(p)
    \/ Writes(p) \/ Reads(p) \/ Forks(p) \/ Execs(p)

-----------------------------------------------------------------------------
(* link_pipe_dataflow: a read that ended gets an edge from the write begun *)
(* last among those that may have supplied it; what has no fingerprint is  *)
(* left alone.                                                             *)
IsPipeEnd(o, op) == o.op = op /\ o.done /\ o.res # 0 /\ o.type = "pipe" /\ o.role = op

(* Mutant of MaySupply: a write begun after the read ended counts too.     *)
MaySupplyAnytime(obs, w, r) ==
  /\ IsPipeEnd(obs[w], "write") /\ IsPipeEnd(obs[r], "read")
  /\ obs[w].res = obs[r].res
  /\ obs[w].token = obs[r].token /\ obs[r].token # Plain

MaySupply(obs, w, r) ==
  /\ IsPipeEnd(obs[w], "write") /\ IsPipeEnd(obs[r], "read")
  /\ obs[w].res = obs[r].res
  /\ obs[w].token = obs[r].token /\ obs[r].token # Plain
  /\ w <= obs[r].end

Suppliers(obs, r) == {w \in DOMAIN obs : MaySupply(obs, w, r)}

Links(obs, reads) ==
  {<< Max(Suppliers(obs, r)), r >> : r \in {r \in reads : Suppliers(obs, r) # {}}}

-----------------------------------------------------------------------------
(* The exit stop, handled.                                                 *)
Handled(p, op) ==
  /\ status[p] = "returned" /\ call[p].op = op
  /\ status' = [status EXCEPT ![p] = "running"]
  /\ call' = [call EXCEPT ![p] = NoCall]
  /\ UNCHANGED << kernel, left >>

Succeeded(p) == call[p].ret # Failed

Rebind(p, b) ==
  /\ bindings' = [bindings EXCEPT ![p] = b]
  /\ UNCHANGED << snapshot, discovered, inherited, flow >>

New(type, role, flag) ==
  [res |-> nextResource, type |-> type, role |-> role, cloexec |-> flag, key |-> NoKey]

(* Neither a failed call nor one the analyzer does not follow matters.     *)
ExitIgnored(p) ==
  /\ Handled(p, call[p].op)
  /\ ~Succeeded(p) \/ call[p].op \in {"socket", "fork", "execve"}
  /\ UNCHANGED << tables, flow >>

HandlePipeExit(p) ==
  LET c == call[p] IN
  /\ Handled(p, "pipe") /\ Succeeded(p)
  /\ Rebind(p, [bindings[p] EXCEPT ![Of(c.ret)] = New("pipe", "read", c.flag),
                                   ![c.to] = New("pipe", "write", c.flag)])
  /\ nextResource' = nextResource + 1

HandleOpenExit(p) ==
  LET c == call[p] IN
  /\ Handled(p, "open") /\ Succeeded(p)
  /\ Rebind(p, [bindings[p] EXCEPT ![Of(c.ret)] = New("file", "readwrite", c.flag)])
  /\ nextResource' = nextResource + 1

HandleCloseExit(p) ==
  /\ Handled(p, "close") /\ Succeeded(p)
  /\ Rebind(p, [bindings[p] EXCEPT ![call[p].fd] = Unbound])
  /\ UNCHANGED nextResource

(* Mutant of HandleDupExit: an unknown source leaves the target alone.     *)
HandleDupExitKnown(p) ==
  LET c == call[p] IN
  /\ \E op \in {"dup", "dup2", "dup3", "F_DUPFD"} : Handled(p, op)
  /\ Succeeded(p)
  /\ Rebind(p, IF (c.op = "dup2" /\ c.fd = Of(c.ret)) \/ ~Bound(p, c.fd) THEN bindings[p]
               ELSE [bindings[p] EXCEPT
                      ![Of(c.ret)] = [bindings[p][c.fd] EXCEPT !.cloexec = c.flag]])
  /\ UNCHANGED nextResource

(* handle_dup_exit, and F_DUPFD and F_DUPFD_CLOEXEC of handle_fcntl_exit.  *)
HandleDupExit(p) ==
  LET c == call[p] IN
  /\ \E op \in {"dup", "dup2", "dup3", "F_DUPFD"} : Handled(p, op)
  /\ Succeeded(p)
  /\ Rebind(p, IF c.op = "dup2" /\ c.fd = Of(c.ret) THEN bindings[p]
               ELSE IF ~Bound(p, c.fd) THEN [bindings[p] EXCEPT ![Of(c.ret)] = Unbound]
               ELSE [bindings[p] EXCEPT
                      ![Of(c.ret)] = [bindings[p][c.fd] EXCEPT !.cloexec = c.flag]])
  /\ UNCHANGED nextResource

(* F_SETFD of handle_fcntl_exit.                                           *)
HandleSetfdExit(p) ==
  LET c == call[p] IN
  /\ Handled(p, "F_SETFD") /\ Succeeded(p)
  /\ Rebind(p, IF Bound(p, c.fd) THEN [bindings[p] EXCEPT ![c.fd].cloexec = c.flag]
                                 ELSE bindings[p])
  /\ UNCHANGED nextResource

(* Mutant of HandleWriteExit: reads that ended earlier are not retried.    *)
HandleWriteExitAlone(p) ==
  /\ Handled(p, "write") /\ Succeeded(p)
  /\ observations' = [observations EXCEPT ![call[p].obs].done = TRUE]
  /\ UNCHANGED << tables, edges >>

(* reconcile_pipe_dataflow_from_write: reads that ended before the write   *)
(* did are tried again.                                                    *)
HandleWriteExit(p) ==
  LET w == call[p].obs IN
  /\ Handled(p, "write") /\ Succeeded(p)
  /\ observations' = [observations EXCEPT ![w].done = TRUE]
  /\ edges' = edges \cup
       Links(observations', {r \in DOMAIN observations :
                               /\ IsPipeEnd(observations'[w], "write")
                               /\ IsPipeEnd(observations[r], "read")
                               /\ observations[r].res = observations[w].res
                               /\ observations[r].token = observations[w].token})
  /\ UNCHANGED tables

(* The callback sets the fingerprint of what was read, and the read is     *)
(* linked.                                                                 *)
HandleReadExit(p) ==
  LET r == call[p].obs IN
  /\ Handled(p, "read") /\ Succeeded(p)
  /\ observations' = [observations EXCEPT
       ![r] = [@ EXCEPT !.done = TRUE, !.end = Len(observations)]]
  /\ edges' = edges \cup Links(observations', {r})
  /\ UNCHANGED tables

-----------------------------------------------------------------------------
(* reconcile_child_fd_bindings: the snapshots of parent and child show the *)
(* same pipe or socket at the same number.                                 *)
(* Mutant of Inherits: the number alone decides.                           *)
InheritsByNumber(p, c, f) ==
  /\ snapshot[c][f] # Unbound /\ snapshot[p][f] # Unbound
  /\ snapshot[c][f].type = snapshot[p][f].type /\ snapshot[c][f].role = snapshot[p][f].role

Inherits(p, c, f) ==
  /\ snapshot[c][f] # Unbound /\ snapshot[p][f] # Unbound
  /\ snapshot[c][f].type = snapshot[p][f].type /\ snapshot[c][f].role = snapshot[p][f].role
  /\ snapshot[c][f].key # NoKey /\ snapshot[c][f].key = snapshot[p][f].key

Renamed(p, c, res) ==
  LET same == {f \in Fd : Inherits(p, c, f) /\ snapshot[c][f].res = res} IN
  IF same = {} THEN res ELSE snapshot[p][Min(same)].res

(* remap_resource_identity tries the reads again that may now find their   *)
(* write.                                                                  *)
Relinked(p, c, obs) ==
  LET old == {res \in {snapshot[c][f].res : f \in Fd} : Renamed(p, c, res) # res}
      new == {Renamed(p, c, res) : res \in old}
  IN
  Links(obs, {r \in DOMAIN obs : IsPipeEnd(obs[r], "read") /\ obs[r].res \in new})

Reconcile(p, c) ==
  LET rename(b) == [q \in Proc |-> [f \in Fd |-> [b[q][f] EXCEPT !.res = Renamed(p, c, @)]]]
  IN
  /\ bindings' = rename(bindings)
  /\ snapshot' = rename(snapshot)
  /\ observations' = [i \in DOMAIN observations |->
                        [observations[i] EXCEPT !.res = Renamed(p, c, @)]]
  /\ edges' = edges \cup Relinked(p, c, observations')

(* Mutant of Inherit: the child starts with nothing.                       *)
InheritNothing(p, c) == UNCHANGED << bindings, snapshot, flow >>

Inherit(p, c) ==
  /\ bindings' = [bindings EXCEPT ![c] = bindings[p]]
  /\ UNCHANGED << snapshot, flow >>

Resumes(p) ==
  /\ status' = [status EXCEPT ![p] = "returned"]
  /\ call' = [call EXCEPT ![p].ret = 1]
  /\ UNCHANGED << kind, content, table, left >>

Early(p) == p \in early \/ (p \in discovered /\ p \notin inherited \cup {Root})

(* handle_task_create.  A child that has already ended is taken for a      *)
(* process of its own, which nobody will use.                              *)
HandleTaskCreate(p) ==
  LET c == call[p].child IN
  /\ status[p] = "forked"
  /\ inherited' = inherited \cup {c}
  /\ \/ c \notin discovered /\ status[c] # "ended" /\ Inherit(p, c)
     \/ c \in discovered /\ Reconcile(p, c)
     \/ status[c] = "ended" /\ UNCHANGED << bindings, snapshot, flow >>
  /\ early' = IF c \in discovered \/ Early(p) THEN early \cup {c} ELSE early
  /\ UNCHANGED << discovered, nextResource >>
  /\ Resumes(p)

HandleExecSuccess(p) ==
  /\ status[p] = "execed"
  /\ Resumes(p)
  /\ Rebind(p, [f \in Fd |-> IF bindings[p][f].cloexec THEN Unbound ELSE bindings[p][f]])
  /\ UNCHANGED << nextResource, early >>

LoopStep ==
  \E p \in Proc :
    \/ Entry(p) \/ ExitGroup(p) \/ ExitIgnored(p)
    \/ HandlePipeExit(p) \/ HandleOpenExit(p) \/ HandleCloseExit(p)
    \/ HandleDupExit(p) \/ HandleSetfdExit(p)
    \/ HandleWriteExit(p) \/ HandleReadExit(p)
    \/ HandleTaskCreate(p) \/ HandleExecSuccess(p)

Next == KernelStep \/ LoopStep

Spec == Init /\ [][Next]_vars

-----------------------------------------------------------------------------
Binding == [res: Nat \ {0}, type: {"pipe", "file", "socket"}, role: {"read", "write", "readwrite"},
            cloexec: BOOLEAN, key: Object \cup {NoKey}]

TypeOK ==
  /\ \A p \in Proc, f \in Fd : /\ bindings[p][f] \in Binding \cup {Unbound}
                              /\ snapshot[p][f] \in Binding \cup {Unbound}
                              /\ bindings[p][f].res < nextResource
  /\ discovered \subseteq Proc /\ inherited \subseteq Proc
  /\ \A p \in Proc : status[p] \in {"none", "running", "called", "returned", "forked", "execed", "ended"}
  /\ edges \subseteq (DOMAIN observations) \X (DOMAIN observations)

Known(p)   == p \in discovered \cup inherited
Settled(p) == Known(p) /\ status[p] = "running"

(* Between its calls, the bindings of a process are its descriptors: the   *)
(* same numbers, ends and close-on-exec flags, through dup, fcntl, fork    *)
(* and exec, although the analyzer only replays them.  Sockets made under  *)
(* trace are not followed, but never answered for by an older binding.     *)
TablesAgree ==
  /\ TypeOK
  /\ \A p \in Proc, f \in Fd : Settled(p) =>
       LET b == bindings[p][f]
           e == table[p][f]
       IN
       /\ IsOpen(p, f) /\ kind[e.obj] # "socket" => Bound(p, f)
       /\ Bound(p, f) => /\ IsOpen(p, f) /\ b.type = kind[e.obj]
                         /\ b.role = e.role /\ b.cloexec = e.cloexec

(* A resource id stands for one kernel object wherever it occurs: in any   *)
(* process's bindings, or on a read or write made at any time, renamed or  *)
(* not.                                                                    *)
Meaning(res) ==
  {table[b[1]][b[2]].obj : b \in {pf \in Proc \X Fd : /\ Settled(pf[1])
                                                      /\ bindings[pf[1]][pf[2]].res = res}}
  \cup {observations[i].obj : i \in {j \in DOMAIN observations : /\ observations[j].res = res
                                                                /\ observations[j].obj # 0}}

ResourceIsOneObject == \A res \in 1 .. nextResource - 1 : Cardinality(Meaning(res)) <= 1

(* The ends of a pipe carry one id in each process ("Both endpoints of the *)
(* same live kernel pipe must share one RuntimeXRay resource identity"),   *)
(* and in all processes that were announced before they were met.          *)
PipeEndsShareId ==
  \A p, q \in Proc : \A f, g \in Fd :
    /\ Settled(p) /\ Settled(q) /\ Bound(p, f) /\ Bound(q, g) /\ IsOpen(p, f)
    /\ p = q \/ ~(Early(p) \/ Early(q))
    /\ table[p][f].obj = table[q][g].obj /\ Pipe(table[p][f].obj)
    => bindings[p][f].res = bindings[q][g].res

(* A DataFlow edge joins a write and a read of one pipe, the write begun   *)
(* before the read ended.                                                  *)
EdgesAreReal ==
  \A e \in edges :
    LET w == observations[e[1]]
        r == observations[e[2]]
    IN  w.obj = r.obj /\ w.token = r.token /\ e[1] <= r.end

(* Once the exits of a read and of the write that supplied it are handled, *)
(* in either order, and both are known to be of one resource, the read has *)
(* an edge: late announcements and late write exits included.              *)
SuppliedReadsAreLinked ==
  \A r \in DOMAIN observations :
    LET w == observations[r].from IN
    w # 0 /\ MaySupply(observations, w, r) => \E v \in DOMAIN observations : << v, r >> \in edges
=============================================================================
