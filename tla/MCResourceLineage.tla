-------------------------- MODULE MCResourceLineage --------------------------
(* Root starts with a pipe on descriptor 0, as the reader of a pipeline    *)
(* does, or with both ends of one; it has the larger part of the calls.    *)
EXTENDS ResourceLineage, TLC

CONSTANTS p1, p2, RootCalls, ChildCalls, BothEnds

MCProc == {p1, p2}
MCFd == 0 .. 2
MCMaxCalls == (p1 :> RootCalls) @@ (p2 :> ChildCalls)

MCInitialTable == [f \in MCFd |->
  CASE f = 0 -> [obj |-> 1, role |-> "read", cloexec |-> FALSE]
    [] f = 1 /\ BothEnds -> [obj |-> 1, role |-> "write", cloexec |-> FALSE]
    [] OTHER -> Closed]
=============================================================================
