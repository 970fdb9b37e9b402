-------------------------- MODULE MCTracedProcesses --------------------------
(* Small programs for TracedProcesses.                                      *)
EXTENDS TracedProcesses

(* Processes with TGID reuse, which exit or are killed; threads and         *)
(* processes that end one by one; both killed by signals.                   *)
MCWorkloads == {
  [calls |-> {"fork", "execve", "exit_group"}, tasks |-> 4, signals |-> FALSE],
  [calls |-> {"fork", "exit"}, tasks |-> 3, signals |-> TRUE],
  [calls |-> {"clone_thread", "clone3", "exit"}, tasks |-> 4, signals |-> FALSE],
  [calls |-> {"clone_thread", "clone3", "exit"}, tasks |-> 3, signals |-> TRUE]}

(* Threads of one process, one of which ends it.                            *)
MCGroupExit == {[calls |-> {"clone_thread", "exit_group", "other"}, tasks |-> 3, signals |-> FALSE]}
=============================================================================
