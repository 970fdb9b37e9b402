-------------------------- MODULE MCTraceScanSession --------------------------
(* The session with the default scan counts and small limits for a scan:   *)
(* three pages and two observations.  One map has more than a scan may read, *)
(* with the interesting regions behind the others; one has little.         *)
EXTENDS TraceScanSession, TLC

RegionOf(what, writable, executable, size) ==
  [what |-> what, readable |-> TRUE, writable |-> writable, executable |-> executable,
   size |-> size]

MCMaps ==
  {<< RegionOf("file", FALSE, TRUE, 2), RegionOf("file", FALSE, FALSE, 1),
      RegionOf("heap", TRUE, FALSE, 3), RegionOf("stack", TRUE, FALSE, 2) >>,
   << [RegionOf("anonymous", TRUE, FALSE, 2) EXCEPT !.readable = FALSE],
      RegionOf("file", TRUE, FALSE, 1), RegionOf("anonymous", TRUE, FALSE, 1) >>}

MCSymmetry == Permutations(Image)
=============================================================================
