-------------------------- MODULE MCProcessLineage --------------------------
(* The analyzer alone, against every order of events about two task ids.   *)
EXTENDS ProcessLineage, TLC

(* Task ids are only compared, so they may be exchanged.                   *)
MCSymmetry == Permutations(Tid)
=============================================================================
