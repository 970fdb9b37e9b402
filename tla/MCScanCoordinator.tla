--------------------------- MODULE MCScanCoordinator ---------------------------
(* Two images and two reasons, with ids that run out.                      *)
EXTENDS ScanCoordinator, TLC

MCSymmetry == Permutations(Image) \cup Permutations(Reason)
=============================================================================
