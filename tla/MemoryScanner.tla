----------------------------- MODULE MemoryScanner -----------------------------
(***************************************************************************)
(* scan_memory_for_secrets (src/memory_scanner.cpp) with the order of the  *)
(* regions (src/memory_region_policy.cpp) and the readers                  *)
(* (src/memory_reader.cpp): one scan of a process's memory, a read at a    *)
(* time.  Sizes are in half pages, so that a read can come back short; the *)
(* other threads of the process run on, so any read may fail.              *)
(***************************************************************************)
EXTENDS Naturals, Sequences

CONSTANTS
  Maps,             (* What /proc/<pid>/maps may show: sequences of regions *)
                    (* (readable, writable, executable, what, size) in the  *)
                    (* order of their addresses.                            *)
  MaxObservations   (* permit->max_observations                             *)

VARIABLE scan       (* Where the scan is.                                   *)

Page == 2

Off == [at |-> "off"]

Init == scan = Off

(* region_priority: what is likelier to hold credentials comes first.      *)
Priority(region) ==
  CASE region.writable /\ region.what = "stack"     -> 1
    [] region.writable /\ region.what = "heap"      -> 2
    [] region.writable /\ region.what = "anonymous" -> 3
    [] region.writable /\ region.what = "file"      -> 4
    [] ~region.writable /\ ~region.executable       -> 5
    [] ~region.writable /\ region.executable        -> 6

(* get_readable_regions: their positions, for a region is its place in maps. *)
Readable(maps) == {n \in DOMAIN maps : maps[n].readable}

(* Mutant of Ahead: the order of the addresses.                            *)
AheadByAddress(maps, m, n) == m < n

(* prioritize_memory_regions, a stable sort: what comes before what.       *)
Ahead(maps, m, n) ==
  \/ Priority(maps[m]) < Priority(maps[n])
  \/ Priority(maps[m]) = Priority(maps[n]) /\ m < n

(* The region to be read, the first of those left.                         *)
Current(s) ==
  CHOOSE n \in s.left : \A m \in s.left \ {n} : Ahead(s.maps, n, m)

(* The early returns leave nothing scanned.                                *)
Finished == [at |-> "done", maps |-> << >>, left |-> {}, address |-> 0,
             scanned |-> 0, found |-> 0, limit |-> 0, reads |-> 0]

(* The regions still to be read and the address in the first of them.      *)
(* reads counts what the reader was asked for, a history.                  *)
Begin(pages) ==
  /\ scan = Off
  /\ \E maps \in Maps :
       \/ scan' = Finished
       \/ /\ pages > 0 /\ MaxObservations > 0 /\ Readable(maps) # {}
          /\ scan' = [Finished EXCEPT !.at = "reading", !.limit = pages,
                                      !.maps = maps, !.left = Readable(maps)]

MayRead ==
  /\ scan.at = "reading" /\ scan.left # {}
  /\ scan.scanned < scan.limit /\ scan.found < MaxObservations

(* On to an address of the region, or to the next region.                  *)
Onward(s, to) ==
  IF to < s.maps[Current(s)].size THEN [s EXCEPT !.address = to]
  ELSE [s EXCEPT !.address = 0, !.left = @ \ {Current(s)}]

(* A failed read skips the page, which counts.                             *)
ReadFails ==
  /\ MayRead
  /\ scan' = Onward([scan EXCEPT !.reads = @ + 1, !.scanned = @ + 1], scan.address + Page)

(* append_secret_observations: what a page holds is recorded as far as the *)
(* limit allows.                                                           *)
Recorded(secrets, remaining) == IF secrets < remaining THEN secrets ELSE remaining

(* A read returns up to a page, which may hold more than a scan may record. *)
Reads ==
  /\ MayRead
  /\ \E n \in 1 .. Page, secrets \in 0 .. MaxObservations + 1 :
       /\ scan.address + n <= scan.maps[Current(scan)].size
       /\ scan' = Onward([scan EXCEPT !.reads = @ + 1, !.scanned = @ + 1,
                                      !.found = @ + Recorded(secrets, MaxObservations - @)],
                         scan.address + n)

Stops ==
  /\ scan.at = "reading" /\ ~MayRead
  /\ scan' = [scan EXCEPT !.at = "done"]

Next == ReadFails \/ Reads \/ Stops

(* However its reads turn out, a scan asks the reader for no more than was *)
(* granted and for what it reports; it stops before the last region only   *)
(* at a limit; and the regions it did not come to are of no higher         *)
(* priority than those it read.                                            *)
HonoursLimits ==
  scan # Off =>
    /\ scan.reads = scan.scanned /\ scan.scanned <= scan.limit
    /\ scan.found <= MaxObservations
    /\ scan.at = "done" /\ scan.left # {} =>
         scan.scanned = scan.limit \/ scan.found = MaxObservations
    /\ \A m \in Readable(scan.maps) \ scan.left, n \in scan.left :
         Priority(scan.maps[m]) <= Priority(scan.maps[n])
=============================================================================
