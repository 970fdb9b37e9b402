------------------------------- MODULE Selection -------------------------------
(***************************************************************************)
(* std::copy_if, the erase-remove idiom and the loops that come to the     *)
(* same (src/finding_filter.cpp, src/detection_rule_registry.cpp): of a    *)
(* sequence what is in a set, in order.  Unlike SelectSeq it takes a set,  *)
(* so that theorems about it can be cited.                                 *)
(***************************************************************************)
EXTENDS Sequences, SequencesExt

Kept(s, set) == FlattenSeq([n \in DOMAIN s |-> IF s[n] \in set THEN << s[n] >> ELSE << >>])
=============================================================================
