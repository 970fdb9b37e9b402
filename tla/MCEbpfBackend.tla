---------------------------- MODULE MCEbpfBackend ----------------------------
(* The target launches, then makes its calls; two more tasks can come.     *)
EXTENDS EbpfBackend, TLC

CONSTANTS t1, t2, t3, RootCalls, OtherCalls

MCTask == {t1, t2, t3}

MCMaxCalls == (t1 :> RootCalls) @@ (t2 :> OtherCalls) @@ (t3 :> 0)
=============================================================================
