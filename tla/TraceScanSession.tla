--------------------------- MODULE TraceScanSession ---------------------------
(***************************************************************************)
(* TraceMemoryScanSession (src/commands/trace_command.cpp): the trace      *)
(* command's only user of MemoryScanCoordinator.  For every traced syscall *)
(* stop the callback may inspect the process: once when an image is first  *)
(* seen (InitialInspection), when data crosses a boundary at an entry, and *)
(* when sensitive data arrives at an exit.  The callback runs on one       *)
(* thread, a scan at a time, so the steps below follow one another.  The   *)
(* scan between a request and its completion is that of MemoryScanner.     *)
(*                                                                         *)
(* Which image an event resolves to (resolve_target, after the analyzer    *)
(* has handled the event) is left open: any image, or none.                *)
(***************************************************************************)
EXTENDS Naturals, Sequences, FiniteSets

CONSTANTS
  Image, NoImage, MaxReservationId,
  MaxScansPerReason, MaxScansPerImage, MaxPagesPerScan,
  Maps, MaxObservations

Reason == {"InitialInspection", "SensitiveDataDiscovery", "DataBoundaryCrossing"}

(* Mutant of MaxPagesPerImage: one scan short, as the generic default is.  *)
MaxPagesPerImageDefault == (MaxScansPerImage - 1) * MaxPagesPerScan

(* make_trace_scan_policy: a full grant for every scan of an image.        *)
MaxPagesPerImage == MaxScansPerImage * MaxPagesPerScan

(* The default policy the session starts from: one scan per reason, and as *)
(* many scans per image as the session has reasons.                        *)
ASSUME SessionAssumption ==
  /\ MaxScansPerReason \in Nat \ {0}
  /\ MaxPagesPerScan \in Nat \ {0}
  /\ MaxScansPerImage \in Nat
  /\ MaxScansPerImage >= 3 * MaxScansPerReason
  /\ MaxObservations \in Nat \ {0}
  /\ MaxReservationId \in Nat \ {0}
ASSUME ImageAssumption == NoImage \notin Image

(* What /proc/<pid>/maps shows is of these kinds.                          *)
Region == [what: {"stack", "heap", "anonymous", "file"}, readable: BOOLEAN,
           writable: BOOLEAN, executable: BOOLEAN, size: Nat]
ASSUME MapsAssumption == Maps \subseteq Seq(Region)

VARIABLES
  nextReservationId, scanCounts, totalScans, accountedPages, reservations, settled,
  startupScanned,   (* startup_scanned_images_                              *)
  work,             (* where the callback is                                *)
  scan,             (* the scan of the memory that it is in                 *)
  thrown,           (* complete_scan was rejected: std::logic_error         *)
  refused           (* history: refused requests, as image and reason       *)

coordinator == << nextReservationId, scanCounts, totalScans, accountedPages,
                  reservations, settled >>
vars == << coordinator, startupScanned, work, scan, thrown, refused >>

SC == INSTANCE ScanCoordinator
Scanner == INSTANCE MemoryScanner

(* A request still to be made by the running callback, and what follows.   *)
Idle == [at |-> "idle"]
Request(image, reason, then) ==
  [at |-> "request", image |-> image, reason |-> reason, then |-> then]
Scanning(permit, then) == [at |-> "scanning", permit |-> permit, then |-> then]

Semantic == {"none", "DataBoundaryCrossing", "SensitiveDataDiscovery"}

TypeOK ==
  /\ SC!TypeOK
  /\ startupScanned \subseteq Image
  /\ work \in {Idle}
       \cup [at: {"request"}, image: Image \cup {NoImage}, reason: Reason, then: Semantic]
       \cup [at: {"scanning"}, permit: SC!Permit, then: Semantic]
  /\ scan = Scanner!Off \/ scan.scanned \in Nat
  /\ thrown \in BOOLEAN
  /\ refused \subseteq (Image \X Reason)

Init ==
  /\ SC!Init
  /\ startupScanned = {}
  /\ work = Idle
  /\ Scanner!Init
  /\ thrown = FALSE
  /\ refused = {}

(* What the callback does once the scan asked for first is over.           *)
Continue(image, then) ==
  IF then = "none" THEN Idle ELSE Request(image, then, "none")

-----------------------------------------------------------------------------
(* Mutant of SyscallEntry: an image is marked without being inspected.     *)
SyscallEntryUnmarked(image, boundary) ==
  /\ work = Idle /\ ~thrown
  /\ boundary \in {"none", "DataBoundaryCrossing"}
  /\ startupScanned' = startupScanned \cup ({image} \ {NoImage})
  /\ work' = Continue(image, boundary)
  /\ UNCHANGED << coordinator, scan, thrown, refused >>

(* The callback at a syscall entry: capture_initial_context, and then a    *)
(* request if the payload is sensitive or the call is sendto.              *)
SyscallEntry(image, boundary) ==
  /\ work = Idle /\ ~thrown
  /\ boundary \in {"none", "DataBoundaryCrossing"}
  /\ startupScanned' = startupScanned \cup ({image} \ {NoImage})
  /\ work' = IF image \in Image \ startupScanned
             THEN Request(image, "InitialInspection", boundary)
             ELSE Continue(image, boundary)
  /\ UNCHANGED << coordinator, scan, thrown, refused >>

(* The callback at a read or recvfrom exit with a sensitive payload.       *)
SensitiveInput(image) ==
  /\ work = Idle /\ ~thrown
  /\ work' = Request(image, "SensitiveDataDiscovery", "none")
  /\ UNCHANGED << coordinator, startupScanned, scan, thrown, refused >>

(* request_scan: no target, so nothing is asked of the coordinator.        *)
NoTarget ==
  /\ work.at = "request" /\ work.image = NoImage
  /\ work' = Continue(work.image, work.then)
  /\ UNCHANGED << coordinator, startupScanned, scan, thrown, refused >>

(* request_scan: the coordinator issues a permit and the scan starts.      *)
StartScan ==
  /\ work.at = "request" /\ work.image # NoImage
  /\ SC!Issue(work.image, work.reason)
  /\ \E p \in reservations' \ reservations :
       /\ work' = Scanning(p, work.then)
       /\ Scanner!Begin(p.pages)
  /\ UNCHANGED << startupScanned, thrown, refused >>

(* request_scan: the coordinator refuses.                                  *)
ScanRefused ==
  /\ work.at = "request" /\ work.image # NoImage
  /\ SC!Refuse(work.image, work.reason)
  /\ work' = Continue(work.image, work.then)
  /\ refused' = refused \cup {<< work.image, work.reason >>}
  /\ UNCHANGED << startupScanned, scan, thrown >>

(* scan_memory_for_secrets goes on.                                        *)
ContinueScan ==
  /\ work.at = "scanning"
  /\ Scanner!Next
  /\ UNCHANGED << coordinator, startupScanned, work, thrown, refused >>

(* Mutant of FinishScan: the grant of a scan that found no readable page   *)
(* is not settled.                                                         *)
FinishScanLeaks ==
  /\ work.at = "scanning" /\ scan.at = "done"
  /\ IF scan.scanned = 0 THEN UNCHANGED coordinator ELSE SC!Complete(work.permit, scan.scanned)
  /\ work' = Continue(work.permit.image, work.then)
  /\ scan' = Scanner!Off
  /\ UNCHANGED << startupScanned, thrown, refused >>

(* request_scan: complete_scan settles the pages the scan reports, or      *)
(* rejects them and the callback throws.                                   *)
FinishScan ==
  LET accepted == SC!MayComplete(work.permit, scan.scanned) IN
  /\ work.at = "scanning" /\ scan.at = "done"
  /\ IF accepted THEN SC!Complete(work.permit, scan.scanned) ELSE UNCHANGED coordinator
  /\ work' = IF accepted THEN Continue(work.permit.image, work.then) ELSE Idle
  /\ scan' = Scanner!Off
  /\ thrown' = ~accepted
  /\ UNCHANGED << startupScanned, refused >>

Next ==
  \/ \E image \in Image \cup {NoImage} :
       \/ \E boundary \in Semantic : SyscallEntry(image, boundary)
       \/ SensitiveInput(image)
  \/ NoTarget \/ StartScan \/ ScanRefused \/ ContinueScan \/ FinishScan

Spec == Init /\ [][Next]_vars

-----------------------------------------------------------------------------
(* "The trace session must therefore have enough aggregate page budget for *)
(* three independent scans of the same executable image": whatever earlier *)
(* scans of the image took, a granted scan has the full page limit, and a  *)
(* request is refused only when that image used up the scans of that very  *)
(* reason, or ids ran out.                                                 *)
EveryScanIsFull == \A p \in SC!Issued : p.pages = MaxPagesPerScan

RefusedOnlyWhenUsed ==
  \A r \in refused :
    \/ scanCounts[r[1]][r[2]] = MaxScansPerReason
    \/ nextReservationId = 0

NoReasonStarved == EveryScanIsFull /\ RefusedOnlyWhenUsed

(* The coordinator never refuses the completion of a scan the session ran  *)
(* (the std::logic_error "Memory scan coordinator rejected completion" is  *)
(* not raised), and between callbacks nothing is outstanding: no page      *)
(* stays reserved for a scan that is over.                                 *)
PermitsAreSettled ==
  /\ TypeOK
  /\ ~thrown
  /\ IF work.at = "scanning" THEN reservations = {work.permit} ELSE reservations = {}

(* A scan keeps to its permit, however its reads turn out, and spends it   *)
(* on the regions of the highest priority.                                 *)
ScanHonoursPermit ==
  /\ work.at = "scanning" => scan.scanned <= work.permit.pages
  /\ Scanner!HonoursLimits

(* Every image is inspected when it is first seen, at most once, and the   *)
(* inspection is asked for before any boundary scan of that image.         *)
InitialInspectionOnce ==
  \A i \in Image :
    /\ scanCounts[i]["InitialInspection"] <= 1
    /\ scanCounts[i]["DataBoundaryCrossing"] > 0 =>
         \/ scanCounts[i]["InitialInspection"] = 1
         \/ << i, "InitialInspection" >> \in refused
    /\ i \in startupScanned /\ work = Idle /\ ~thrown =>
         \/ scanCounts[i]["InitialInspection"] = 1
         \/ << i, "InitialInspection" >> \in refused
=============================================================================
