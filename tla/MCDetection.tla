------------------------------ MODULE MCDetection ------------------------------
(* Bounds: one secret; two files, of which one is sensitive; one endpoint; *)
(* two descriptors in each process; up to five calls that are observed.     *)
EXTENDS Detection

MCPathLists == [F |-> {"Critical"}, G |-> {}]

(* One thread, from files to sockets: a descriptor is used for one thing   *)
(* after another.                                                          *)
Reuse ==
  [thread |-> << 1 >>, files |-> << >>, tables |-> << [f \in Fd |-> 0] >>, knows |-> {},
   offers |-> << {"open", "close", "read", "write", "connect"} >>,
   unseen |-> {"socket", "peer"}, names |-> {"F"}, payloads |-> << {Secret}, {Secret}, {} >>, fails |-> {},
   calls |-> 5, silent |-> 2, scan |-> {TRUE}, operations |-> 0, minimums |-> {"Info"}]

(* The same with other programs in between, and calls that fail.           *)
Exec ==
  [Reuse EXCEPT !.offers = << {"open", "read", "write", "connect", "execve"} >>,
     !.unseen = {"socket"}, !.names = {"F", "G"}, !.fails = {"open", "connect", "execve"},
     !.silent = 1, !.scan = BOOLEAN]

(* Two threads of a process: one of them closes descriptors.               *)
Race ==
  [Reuse EXCEPT !.thread = << 1, 1 >>, !.silent = 1, !.unseen = {"socket"},
     !.offers = << {"open", "read", "connect", "write"}, {"close"} >>]

(* Three processes in a row, joined by two pipes they inherited.           *)
InheritedEnd(n, kind, role) ==
  [kind |-> kind, name |-> NoSource, by |-> << NoSession, 0 >>, pipe |-> n, role |-> role]

Chain ==
  [Reuse EXCEPT !.thread = << 1, 2, 3 >>, !.knows = {1},
     !.files = << InheritedEnd(1, "pipe write", "write"), InheritedEnd(1, "pipe read", "read"),
                  InheritedEnd(2, "pipe write", "write"), InheritedEnd(2, "pipe read", "read") >>,
     !.tables = << [f \in Fd |-> IF f = 4 THEN 1 ELSE 0],
                   [f \in Fd |-> IF f = 3 THEN 2 ELSE 3],
                   [f \in Fd |-> IF f = 3 THEN 4 ELSE 0] >>,
     !.offers = << {"write"}, {"read", "write", "execve"}, {"read"} >>,
     !.payloads = << {Secret}, {Secret, Large}, {} >>, !.silent = 0, !.scan = {}]

(* The registry changed before a short trace.                              *)
Registering ==
  [Reuse EXCEPT !.offers = << {"open", "read", "write", "connect"} >>, !.unseen = {"socket"},
     !.calls = 4, !.silent = 1, !.operations = 2, !.minimums = {"Critical", "High", "Info"}]

MCWorkloads == {Reuse, Exec, Race, Chain, Registering}

MCExec == {Exec}
=============================================================================
