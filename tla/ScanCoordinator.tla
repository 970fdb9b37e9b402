---------------------------- MODULE ScanCoordinator ----------------------------
(***************************************************************************)
(* MemoryScanCoordinator (src/memory_scan_coordinator.cpp): it answers a   *)
(* request for a memory scan of a process image with a permit for a number *)
(* of pages, reserves those pages at once, and on completion refunds the   *)
(* pages that were not attempted.                                          *)
(*                                                                         *)
(* Any number of permits may be outstanding, and a caller may complete     *)
(* them in any order, twice, or with a permit it has altered.  An altered  *)
(* permit differs in its image, reason or grant; related_event_seq and     *)
(* max_observations are compared in the same way and are left out.         *)
(***************************************************************************)
EXTENDS Integers, FiniteSets

CONSTANTS
  Image,              (* ProcessImageKeys with a nonzero instance id.       *)
  NoImage,            (* A key whose process_instance_id is zero.           *)
  Reason,             (* MemoryScanReason                                   *)
  MaxScansPerReason,  (* policy_.max_scans_per_reason                       *)
  MaxScansPerImage,   (* policy_.max_scans_per_process_image                *)
  MaxPagesPerScan,    (* policy_.max_pages_per_scan                         *)
  MaxPagesPerImage,   (* policy_.max_pages_per_process_image                *)
  MaxObservations,    (* policy_.max_observations_per_scan                  *)
  MaxReservationId    (* The largest uint64_t.                              *)

ASSUME PolicyAssumption ==
  /\ MaxScansPerReason \in Nat /\ MaxScansPerImage \in Nat
  /\ MaxPagesPerScan \in Nat /\ MaxPagesPerImage \in Nat
  /\ MaxObservations \in Nat
  /\ MaxReservationId \in Nat \ {0}
ASSUME ImageAssumption == NoImage \notin Image

VARIABLES
  nextReservationId,  (* next_reservation_id_; 0 once the ids have run out  *)
  scanCounts,         (* image_states_: scan_counts_by_reason               *)
  totalScans,         (* image_states_: total_scans                         *)
  accountedPages,     (* image_states_: accounted_pages                     *)
  reservations,       (* active_reservations_                               *)
  settled             (* history: completed permits and the pages they took *)

vars == << nextReservationId, scanCounts, totalScans, accountedPages,
           reservations, settled >>

Permit == [id: 1 .. MaxReservationId, image: Image, reason: Reason,
           pages: 0 .. MaxPagesPerScan]

TypeOK ==
  /\ nextReservationId \in 0 .. MaxReservationId
  /\ scanCounts \in [Image -> [Reason -> 0 .. MaxScansPerReason]]
  /\ totalScans \in [Image -> 0 .. MaxScansPerImage]
  /\ accountedPages \in [Image -> 0 .. MaxPagesPerImage]
  /\ reservations \subseteq Permit
  /\ settled \subseteq [permit: Permit, pages: 0 .. MaxPagesPerScan]

(* An image without a state yet reads as one with nothing accounted.       *)
Init ==
  /\ nextReservationId = 1
  /\ scanCounts = [i \in Image |-> [r \in Reason |-> 0]]
  /\ totalScans = [i \in Image |-> 0]
  /\ accountedPages = [i \in Image |-> 0]
  /\ reservations = {}
  /\ settled = {}

-----------------------------------------------------------------------------
PolicyAllowsScans ==
  /\ MaxScansPerReason > 0 /\ MaxScansPerImage > 0
  /\ MaxPagesPerScan > 0 /\ MaxPagesPerImage > 0
  /\ MaxObservations > 0

Remaining(image) == MaxPagesPerImage - accountedPages[image]

(* Mutant of Grant: the page limit of a scan, whatever remains.            *)
GrantFull(image) == MaxPagesPerScan

(* min(remaining_pages, max_pages_per_scan)                                *)
Grant(image) ==
  IF Remaining(image) < MaxPagesPerScan THEN Remaining(image) ELSE MaxPagesPerScan

MayScan(image, reason) ==
  /\ image # NoImage
  /\ PolicyAllowsScans
  /\ nextReservationId # 0
  /\ scanCounts[image][reason] < MaxScansPerReason
  /\ totalScans[image] < MaxScansPerImage
  /\ accountedPages[image] < MaxPagesPerImage

IssuedPermit(image, reason) ==
  [id |-> nextReservationId, image |-> image, reason |-> reason, pages |-> Grant(image)]

(* Mutant of NextReservationId: the counter wraps to the first id.         *)
NextReservationIdWraps ==
  IF nextReservationId = MaxReservationId THEN 1 ELSE nextReservationId + 1

(* The id after the largest is 0, which every later request refuses.       *)
NextReservationId ==
  IF nextReservationId = MaxReservationId THEN 0 ELSE nextReservationId + 1

(* Mutant of Issue: the reason's count is not kept.                        *)
IssueUncounted(image, reason) ==
  /\ MayScan(image, reason)
  /\ \A p \in reservations : p.id # nextReservationId
  /\ reservations' = reservations \cup {IssuedPermit(image, reason)}
  /\ totalScans' = [totalScans EXCEPT ![image] = @ + 1]
  /\ accountedPages' = [accountedPages EXCEPT ![image] = @ + Grant(image)]
  /\ nextReservationId' = NextReservationId
  /\ UNCHANGED << scanCounts, settled >>

(* request_scan, a permit is issued.                                       *)
Issue(image, reason) ==
  /\ MayScan(image, reason)
  /\ \A p \in reservations : p.id # nextReservationId
  /\ reservations' = reservations \cup {IssuedPermit(image, reason)}
  /\ scanCounts' = [scanCounts EXCEPT ![image][reason] = @ + 1]
  /\ totalScans' = [totalScans EXCEPT ![image] = @ + 1]
  /\ accountedPages' = [accountedPages EXCEPT ![image] = @ + Grant(image)]
  /\ nextReservationId' = NextReservationId
  /\ UNCHANGED settled

(* request_scan, the request is refused.                                   *)
Refuse(image, reason) ==
  /\ ~ (MayScan(image, reason) /\ \A p \in reservations : p.id # nextReservationId)
  /\ UNCHANGED vars

-----------------------------------------------------------------------------
(* Mutant of MayComplete: a permit is known by its id alone.               *)
MayCompleteById(permit, pages) ==
  /\ \E p \in reservations : p.id = permit.id
  /\ pages <= permit.pages
  /\ accountedPages[permit.image] >= permit.pages

(* What complete_scan checks before it touches the accounting.             *)
MayComplete(permit, pages) ==
  /\ permit \in reservations
  /\ pages <= permit.pages
  /\ accountedPages[permit.image] >= permit.pages

(* Mutant of Complete: the pages attempted are refunded instead of the     *)
(* pages that were not.                                                    *)
CompleteRefundsAttempts(permit, pages) ==
  /\ MayComplete(permit, pages)
  /\ accountedPages' = [accountedPages EXCEPT ![permit.image] = @ - pages]
  /\ reservations' = reservations \ {permit}
  /\ settled' = settled \cup {[permit |-> permit, pages |-> pages]}
  /\ UNCHANGED << nextReservationId, scanCounts, totalScans >>

(* complete_scan, accepted: the pages attempted stay accounted.            *)
Complete(permit, pages) ==
  /\ MayComplete(permit, pages)
  /\ accountedPages' = [accountedPages EXCEPT ![permit.image] = @ - (permit.pages - pages)]
  /\ reservations' = reservations \ {permit}
  /\ settled' = settled \cup {[permit |-> permit, pages |-> pages]}
  /\ UNCHANGED << nextReservationId, scanCounts, totalScans >>

(* complete_scan, rejected.                                                *)
Reject(permit, pages) ==
  /\ ~ MayComplete(permit, pages)
  /\ UNCHANGED vars

RequestScan(image, reason) == Issue(image, reason) \/ Refuse(image, reason)

CompleteScan(permit, pages) == Complete(permit, pages) \/ Reject(permit, pages)

(* Callers may present any permit, one they were issued or one they made   *)
(* up, and any page count up to one too many.                              *)
Next ==
  \/ \E image \in Image \cup {NoImage}, reason \in Reason : RequestScan(image, reason)
  \/ \E permit \in Permit, pages \in 0 .. MaxPagesPerScan + 1 : CompleteScan(permit, pages)

Spec == Init /\ [][Next]_vars

-----------------------------------------------------------------------------
Issued == reservations \cup {s.permit : s \in settled}

IssuedFor(image) == {p \in Issued : p.image = image}

(* A reservation id names one permit of the coordinator's lifetime, the    *)
(* id counter's wrap included, and a permit is completed at most once:     *)
(* after its completion it is not outstanding again.                       *)
ReservationsAreUnique ==
  /\ \A p, q \in Issued : p.id = q.id => p = q
  /\ \A s \in settled : s.permit \notin reservations
  /\ \A s, r \in settled : s.permit = r.permit => s = r

(* The counters tell how many permits an image really got, whichever of    *)
(* them are completed, so no image gets more scans than the policy allows, *)
(* in total or for one reason.                                             *)
ScanLimitsHold ==
  \A i \in Image :
    /\ totalScans[i] = Cardinality(IssuedFor(i))
    /\ \A r \in Reason :
         scanCounts[i][r] = Cardinality({p \in IssuedFor(i) : p.reason = r})

(* The pages that count against an image, one by one: those its open       *)
(* permits may still attempt and those its completed scans attempted.      *)
PagesOf(permit, pages) == {permit.id} \X (1 .. pages)

PagesHeld(image) ==
  (UNION {PagesOf(p, p.pages) : p \in {q \in reservations : q.image = image}})
  \cup
  (UNION {PagesOf(s.permit, s.pages) : s \in {t \in settled : t.permit.image = image}})

(* accounted_pages is exactly those pages: reservations and refunds never  *)
(* drift, so outstanding scans cannot collectively exceed the page budget. *)
AccountingIsExact ==
  \A i \in Image : accountedPages[i] = Cardinality(PagesHeld(i))

(* An outstanding permit can always be completed: the defensive check of   *)
(* the accounting in complete_scan never fires.                            *)
CompletionIsAccepted ==
  \A p \in reservations : accountedPages[p.image] >= p.pages

(* Only the completion of an outstanding permit gives pages back, at most  *)
(* its grant; a refused, altered or repeated one changes nothing.          *)
RefundStep ==
  \A i \in Image :
    accountedPages'[i] < accountedPages[i] =>
      \E p \in reservations \ reservations' :
        p.image = i /\ accountedPages[i] - accountedPages'[i] <= p.pages

OnlyCompletionRefunds == [][RefundStep]_vars

-----------------------------------------------------------------------------
(* The coordinator implements the abstract page budget: what an image has  *)
(* left is what is not accounted, and an open promise is a reservation.    *)
(* Refused requests and rejected completions are stuttering steps.         *)
Budget == INSTANCE PageBudget WITH
  Promise <- Permit,
  Limit   <- MaxPagesPerImage,
  left    <- [i \in Image |-> Remaining(i)],
  open    <- reservations,
  closed  <- settled

(* No sequence of requests and completions, honest or not, promises pages  *)
(* an image does not have, gives or settles a permit twice, or returns     *)
(* other than the pages that were not attempted.                           *)
ImplementsBudget == Budget!Spec
=============================================================================
