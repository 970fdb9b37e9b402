---------------------------- MODULE MCTracerLoop ----------------------------
(* Small workloads for the run loop; each cfg says what its tasks may do.  *)
EXTENDS TracerLoop
=============================================================================
