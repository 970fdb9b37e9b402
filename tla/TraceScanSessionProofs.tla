------------------------ MODULE TraceScanSessionProofs ------------------------
(***************************************************************************)
(* What holds of the trace command's scans for every policy its session    *)
(* may have (SessionAssumption), any number of images, and any order of    *)
(* events: the properties of TraceScanSession that the run scan_session    *)
(* checks.                                                                 *)
(***************************************************************************)
EXTENDS TraceScanSession, Integers, WellFoundedInduction, TLAPS

Initial  == "InitialInspection"
Boundary == "DataBoundaryCrossing"

(* The session's only permit is that of the scan it is in.                 *)
PermitInv ==
  /\ thrown = FALSE
  /\ work.at \in {"idle", "request"} => reservations = {} /\ scan = Scanner!Off
  /\ work.at = "scanning" =>
       /\ reservations = {work.permit}
       /\ work.permit.pages <= accountedPages[work.permit.image]

(* A scan has read no more than it was granted.                            *)
ScanRecord ==
  scan = [at |-> scan.at, maps |-> scan.maps, left |-> scan.left,
          address |-> scan.address, scanned |-> scan.scanned, found |-> scan.found,
          limit |-> scan.limit, reads |-> scan.reads]

(* What was read is of no lower priority than what is left.                *)
InOrder(maps, left) ==
  /\ maps \in Seq(Region) /\ left \subseteq Scanner!Readable(maps)
  /\ \A m \in Scanner!Readable(maps) \ left, n \in left :
       Scanner!Priority(maps[m]) <= Scanner!Priority(maps[n])

LimitsInv ==
  /\ scan.at \in {"reading", "done"}
  /\ scan.limit \in Nat /\ scan.scanned \in Nat /\ scan.scanned <= scan.limit
  /\ scan.reads = scan.scanned
  /\ scan.found \in Nat /\ scan.found <= MaxObservations
  /\ scan.at = "done" /\ scan.left # {} =>
       scan.scanned = scan.limit \/ scan.found = MaxObservations
  /\ InOrder(scan.maps, scan.left)

ScanInv ==
  work.at = "scanning" =>
    /\ ScanRecord /\ LimitsInv
    /\ scan.limit <= work.permit.pages

(* What the coordinator's counters amount to under the session's policy.   *)
Total(i) == scanCounts[i]["InitialInspection"] + scanCounts[i]["SensitiveDataDiscovery"]
              + scanCounts[i]["DataBoundaryCrossing"]

CountsInv ==
  \A i \in Image :
    /\ totalScans[i] = Total(i)
    /\ accountedPages[i] <= totalScans[i] * MaxPagesPerScan

WorkTyped ==
  work \in {Idle}
       \cup [at: {"request"}, image: Image \cup {NoImage}, reason: Reason, then: {"none", Boundary}]
       \cup [at: {"scanning"}, permit: SC!Permit, then: {"none", Boundary}]

Typed ==
  /\ SC!TypeOK
  /\ startupScanned \subseteq Image
  /\ refused \subseteq Image \X Reason
  /\ WorkTyped

(* The initial inspection of an image has been asked for and not answered. *)
Awaited(i) == work.at = "request" /\ work.image = i /\ work.reason = Initial

Answered(i) == scanCounts[i][Initial] = 1 \/ << i, Initial >> \in refused

InspectionInv ==
  \A i \in Image :
    /\ i \notin startupScanned \/ Awaited(i) =>
         scanCounts[i][Initial] = 0 /\ scanCounts[i][Boundary] = 0
    /\ i \in startupScanned /\ ~Awaited(i) => Answered(i)
    /\ scanCounts[i][Initial] <= 1
    /\ work.at = "request" /\ work.image = i /\ (work.reason # "SensitiveDataDiscovery" \/ work.then # "none")
         => i \in startupScanned
    /\ work.at = "scanning" /\ work.permit.image = i /\ work.then # "none" => i \in startupScanned

SInv ==
  /\ Typed
  /\ PermitInv
  /\ ScanInv
  /\ CountsInv
  /\ NoReasonStarved
  /\ InspectionInv

-----------------------------------------------------------------------------
(* The page limit of an image: what a scan less may have taken leaves room *)
(* for one more.                                                           *)
LEMMA RoomForOneMore ==
  ASSUME NEW a \in Nat, NEW b \in Nat, NEW p \in Nat, a < b
  PROVE  a * p + p <= b * p /\ a * p \in Nat /\ b * p \in Nat /\ (a + 1) * p = a * p + p
  <1>1. PICK d \in Nat : b = a + 1 + d
    <2>1. b - a - 1 \in Nat /\ b = a + 1 + (b - a - 1) OBVIOUS
    <2>2. QED BY <2>1
  <1>2. b * p = a * p + p + d * p BY <1>1
  <1>3. d * p \in Nat /\ a * p \in Nat OBVIOUS
  <1>4. QED BY <1>2, <1>3

LEMMA PolicyIsSound ==
  /\ MaxPagesPerImage \in Nat /\ MaxPagesPerImage > 0
  /\ SC!PolicyAllowsScans
  <1>1. MaxScansPerImage \in Nat \ {0} /\ MaxPagesPerScan \in Nat \ {0}
    BY SessionAssumption
  <1>2. 0 * MaxPagesPerScan + MaxPagesPerScan <= MaxScansPerImage * MaxPagesPerScan
        /\ MaxScansPerImage * MaxPagesPerScan \in Nat
    BY <1>1, RoomForOneMore
  <1>3. QED BY <1>1, <1>2, SessionAssumption DEF MaxPagesPerImage, SC!PolicyAllowsScans

(* While an image has scans left, it has the pages of one left.            *)
LEMMA GrantIsFull ==
  ASSUME SInv, NEW i \in Image, totalScans[i] < MaxScansPerImage
  PROVE  SC!Grant(i) = MaxPagesPerScan /\ accountedPages[i] + MaxPagesPerScan <= MaxPagesPerImage
         /\ accountedPages[i] \in Nat /\ totalScans[i] \in Nat
  <1>1. totalScans[i] \in Nat /\ accountedPages[i] \in Nat
    BY PolicyIsSound, SessionAssumption DEF SInv, Typed, SC!TypeOK
  <1>2. totalScans[i] * MaxPagesPerScan + MaxPagesPerScan <= MaxPagesPerImage
        /\ totalScans[i] * MaxPagesPerScan \in Nat
    BY <1>1, RoomForOneMore, SessionAssumption DEF MaxPagesPerImage
  <1>3. accountedPages[i] <= totalScans[i] * MaxPagesPerScan
    BY DEF SInv, CountsInv
  <1>4. accountedPages[i] + MaxPagesPerScan <= MaxPagesPerImage
    <2>. DEFINE t == totalScans[i] * MaxPagesPerScan
    <2>1. t \in Nat /\ t + MaxPagesPerScan <= MaxPagesPerImage /\ accountedPages[i] <= t
      BY <1>2, <1>3
    <2>. HIDE DEF t
    <2>2. QED BY <1>1, <2>1, PolicyIsSound, SessionAssumption
  <1>5. QED BY <1>1, <1>4, PolicyIsSound, SessionAssumption DEF SC!Grant, SC!Remaining

LEMMA InitSInv == Init => SInv
  <1>. SUFFICES ASSUME Init PROVE SInv OBVIOUS
  <1>. USE DEF Init, SC!Init, Scanner!Init
  <1>1. Typed
    BY PolicyIsSound, SessionAssumption DEF Typed, SC!TypeOK, WorkTyped, Idle
  <1>2. PermitInv BY DEF PermitInv, Idle
  <1>3. ScanInv BY DEF ScanInv, Idle
  <1>4. CountsInv
    <2>1. 0 * MaxPagesPerScan = 0 BY SessionAssumption
    <2>2. QED BY <2>1 DEF CountsInv, Total, Reason
  <1>5. NoReasonStarved
    BY DEF NoReasonStarved, EveryScanIsFull, RefusedOnlyWhenUsed, SC!Issued
  <1>6. InspectionInv BY DEF InspectionInv, Awaited, Idle, Reason, Initial, Boundary
  <1>7. QED BY <1>1, <1>2, <1>3, <1>4, <1>5, <1>6 DEF SInv

(* What stays as it was keeps the parts that speak of the coordinator.     *)
LEMMA SameCoordinator ==
  ASSUME SInv, UNCHANGED << coordinator, refused >>
  PROVE  CountsInv' /\ NoReasonStarved' /\ SC!TypeOK'
  BY DEF SInv, Typed, CountsInv, Total, NoReasonStarved, EveryScanIsFull, RefusedOnlyWhenUsed,
         SC!Issued, SC!TypeOK, coordinator

LEMMA EntryKeepsSInv ==
  ASSUME SInv, NEW image \in Image \cup {NoImage}, NEW boundary \in Semantic,
         SyscallEntry(image, boundary)
  PROVE  SInv'
  <1>. USE DEF SyscallEntry
  <1>1. CountsInv' /\ NoReasonStarved' /\ SC!TypeOK' BY SameCoordinator
  <1>2. /\ boundary \in {"none", Boundary}
        /\ \/ work' = Request(image, Initial, boundary)
           \/ work' = Idle
           \/ work' = Request(image, Boundary, "none")
    BY DEF Continue, Initial, Boundary
  <1>3. Typed'
    BY <1>1, <1>2 DEF SInv, Typed, WorkTyped, Request, Idle, Reason, Initial, Boundary
  <1>4. PermitInv'
    BY <1>2 DEF SInv, PermitInv, Request, Idle, coordinator
  <1>5. ScanInv' BY <1>2 DEF ScanInv, Request, Idle
  <1>6. InspectionInv'
    BY ImageAssumption DEF SInv, InspectionInv, Awaited, Answered, Request, Idle, Continue, Initial, Boundary,
         coordinator
  <1>7. QED BY <1>1, <1>3, <1>4, <1>5, <1>6 DEF SInv

LEMMA InputKeepsSInv ==
  ASSUME SInv, NEW image \in Image \cup {NoImage}, SensitiveInput(image)
  PROVE  SInv'
  <1>. USE DEF SensitiveInput
  <1>1. CountsInv' /\ NoReasonStarved' /\ SC!TypeOK' BY SameCoordinator
  <1>2. Typed'
    BY <1>1 DEF SInv, Typed, WorkTyped, Request, Reason
  <1>3. PermitInv' BY DEF SInv, PermitInv, Request, Idle, coordinator
  <1>4. ScanInv' BY DEF ScanInv, Request
  <1>5. InspectionInv'
    BY ImageAssumption DEF SInv, InspectionInv, Awaited, Answered, Request, Idle, Initial, Boundary,
         coordinator
  <1>6. QED BY <1>1, <1>2, <1>3, <1>4, <1>5 DEF SInv

LEMMA NoTargetKeepsSInv ==
  ASSUME SInv, NoTarget
  PROVE  SInv'
  <1>. USE DEF NoTarget
  <1>1. CountsInv' /\ NoReasonStarved' /\ SC!TypeOK' BY SameCoordinator
  <1>2. /\ work.then \in {"none", Boundary}
        /\ work' = Idle \/ work' = Request(NoImage, Boundary, "none")
    BY DEF SInv, Typed, WorkTyped, Continue, Idle
  <1>3. Typed'
    BY <1>1, <1>2 DEF SInv, Typed, WorkTyped, Request, Idle, Reason, Boundary
  <1>4. PermitInv' BY <1>2 DEF SInv, PermitInv, Request, Idle, coordinator
  <1>5. ScanInv' BY <1>2 DEF ScanInv, Request, Idle
  <1>6. ASSUME NEW j \in Image
        PROVE  ~Awaited(j) /\ ~Awaited(j)' /\ (work'.at = "request" => work'.image # j)
               /\ work'.at # "scanning"
    BY <1>2, ImageAssumption DEF Awaited, Request, Idle
  <1>7. InspectionInv'
    BY <1>6 DEF SInv, InspectionInv, Answered, coordinator
  <1>8. QED BY <1>1, <1>3, <1>4, <1>5, <1>7 DEF SInv

(* What a pending request is for, and what it asks next.                   *)
LEMMA PendingRequest ==
  ASSUME SInv, work.at = "request", work.image # NoImage
  PROVE  /\ work.image \in Image /\ work.reason \in Reason /\ work.then \in {"none", Boundary}
         /\ reservations = {} /\ scan = Scanner!Off /\ thrown = FALSE
  BY DEF SInv, Typed, WorkTyped, PermitInv, Idle

LEMMA RefusedKeepsSInv ==
  ASSUME SInv, ScanRefused
  PROVE  SInv'
  <1>. DEFINE i == work.image
              r == work.reason
  <1>1. /\ i \in Image /\ r \in Reason /\ work.then \in {"none", Boundary}
        /\ reservations = {} /\ scan = Scanner!Off /\ thrown = FALSE
    BY PendingRequest DEF ScanRefused
  <1>2. /\ UNCHANGED << coordinator, startupScanned, scan, thrown >>
        /\ refused' = refused \cup {<< i, r >>}
    BY DEF ScanRefused, SC!Refuse, SC!vars, coordinator
  <1>3. work' = Idle \/ (work' = Request(i, Boundary, "none") /\ work.then = Boundary)
    BY <1>1 DEF ScanRefused, Continue
  <1>4. Typed'
    BY <1>1, <1>2, <1>3 DEF SInv, Typed, WorkTyped, SC!TypeOK, Request, Idle, Reason, Boundary, coordinator
  <1>5. PermitInv' BY <1>1, <1>2, <1>3 DEF PermitInv, Request, Idle, coordinator
  <1>6. ScanInv' BY <1>3 DEF ScanInv, Request, Idle
  <1>7. CountsInv' BY <1>2 DEF SInv, CountsInv, Total, coordinator
  <1>8. NoReasonStarved'
    <2>1. scanCounts[i][r] = MaxScansPerReason \/ nextReservationId = 0
      <3>1. SUFFICES ASSUME scanCounts[i][r] # MaxScansPerReason, nextReservationId # 0
                     PROVE  FALSE
        OBVIOUS
      <3>2. ~SC!MayScan(i, r) BY <1>1 DEF ScanRefused, SC!Refuse
      <3>3. \A q \in Reason : scanCounts[i][q] \in 0 .. MaxScansPerReason
        BY <1>1 DEF SInv, Typed, SC!TypeOK
      <3>4. totalScans[i] = Total(i) BY <1>1 DEF SInv, CountsInv
      <3>5. totalScans[i] < MaxScansPerImage
        BY <1>1, <3>1, <3>3, <3>4, SessionAssumption DEF Total, Reason
      <3>6. accountedPages[i] < MaxPagesPerImage
        BY <1>1, <3>5, GrantIsFull, PolicyIsSound, SessionAssumption
      <3>7. scanCounts[i][r] < MaxScansPerReason
        BY <1>1, <3>1, <3>3, SessionAssumption
      <3>8. QED BY <1>1, <3>1, <3>2, <3>5, <3>6, <3>7, ImageAssumption, PolicyIsSound DEF SC!MayScan
    <2>2. QED BY <1>2, <2>1 DEF SInv, NoReasonStarved, EveryScanIsFull, RefusedOnlyWhenUsed,
                                SC!Issued, coordinator
  <1>9. InspectionInv'
    <2>1. ASSUME NEW j \in Image PROVE ~Awaited(j)' /\ work'.at # "scanning"
      BY <1>3 DEF Awaited, Request, Idle, Initial, Boundary
    <2>2. ASSUME NEW j \in Image
          PROVE  /\ Answered(j) => Answered(j)'
                 /\ Awaited(j) => Answered(j)' /\ j = i
      BY <1>1, <1>2 DEF Answered, Awaited, coordinator
    <2>3. ASSUME NEW j \in Image, work'.at = "request", work'.image = j
          PROVE  j \in startupScanned
      <3>1. j = i /\ work.then = Boundary BY <1>3, <2>3 DEF Request, Idle
      <3>2. work.at = "request" /\ work.then # "none" BY <3>1 DEF ScanRefused, Boundary
      <3>3. QED BY <1>1, <3>1, <3>2 DEF SInv, InspectionInv
    <2>4. startupScanned' = startupScanned /\ scanCounts' = scanCounts
      BY <1>2 DEF coordinator
    <2>5. ASSUME NEW j \in Image, Awaited(j) PROVE j \in startupScanned
      BY <2>5 DEF SInv, InspectionInv, Awaited, Initial
    <2>6. QED BY <2>1, <2>2, <2>3, <2>4, <2>5 DEF SInv, InspectionInv
  <1>10. QED BY <1>4, <1>5, <1>6, <1>7, <1>8, <1>9 DEF SInv

(* A granted request: a full permit, the only one there is.                *)
LEMMA StartIssues ==
  ASSUME SInv, StartScan
  PROVE  LET i == work.image
             r == work.reason
             P == SC!IssuedPermit(i, r)
         IN
         /\ i \in Image /\ r \in Reason /\ work.then \in {"none", Boundary}
         /\ P \in SC!Permit /\ P.pages = MaxPagesPerScan /\ P.image = i
         /\ reservations' = {P} /\ work' = Scanning(P, work.then)
         /\ SC!Issue(i, r) /\ Scanner!Begin(P.pages)
         /\ scanCounts[i][r] \in 0 .. MaxScansPerReason - 1
         /\ totalScans[i] \in 0 .. MaxScansPerImage - 1
         /\ nextReservationId \in 1 .. MaxReservationId
         /\ accountedPages[i] \in Nat /\ accountedPages[i] + MaxPagesPerScan <= MaxPagesPerImage
         /\ SC!Grant(i) = MaxPagesPerScan
  <1>. DEFINE i == work.image
              r == work.reason
              P == SC!IssuedPermit(i, r)
  <1>1. /\ i \in Image /\ r \in Reason /\ work.then \in {"none", Boundary}
        /\ reservations = {}
    BY PendingRequest DEF StartScan
  <1>2. SC!Issue(i, r) /\ reservations' = {P}
    BY <1>1 DEF StartScan, SC!Issue
  <1>3. work' = Scanning(P, work.then) /\ Scanner!Begin(P.pages)
    BY <1>1, <1>2 DEF StartScan
  <1>4. /\ scanCounts[i][r] < MaxScansPerReason /\ totalScans[i] < MaxScansPerImage
        /\ nextReservationId # 0
    BY <1>2 DEF SC!Issue, SC!MayScan
  <1>5. /\ scanCounts[i][r] \in 0 .. MaxScansPerReason /\ totalScans[i] \in 0 .. MaxScansPerImage
        /\ nextReservationId \in 0 .. MaxReservationId
    BY <1>1 DEF SInv, Typed, SC!TypeOK
  <1>6. /\ scanCounts[i][r] \in 0 .. MaxScansPerReason - 1
        /\ totalScans[i] \in 0 .. MaxScansPerImage - 1
        /\ nextReservationId \in 1 .. MaxReservationId
    BY <1>4, <1>5, SessionAssumption
  <1>7. /\ SC!Grant(i) = MaxPagesPerScan /\ accountedPages[i] \in Nat
        /\ accountedPages[i] + MaxPagesPerScan <= MaxPagesPerImage
    BY <1>1, <1>4, GrantIsFull
  <1>8. P \in SC!Permit /\ P.pages = MaxPagesPerScan /\ P.image = i
    BY <1>1, <1>6, <1>7, SessionAssumption DEF SC!IssuedPermit, SC!Permit
  <1>9. QED BY <1>1, <1>2, <1>3, <1>6, <1>7, <1>8

LEMMA StartKeepsSInv ==
  ASSUME SInv, StartScan
  PROVE  SInv'
  <1>. DEFINE i == work.image
              r == work.reason
              P == SC!IssuedPermit(i, r)
  <1>1. /\ i \in Image /\ r \in Reason /\ work.then \in {"none", Boundary}
        /\ P \in SC!Permit /\ P.pages = MaxPagesPerScan /\ P.image = i
        /\ reservations' = {P} /\ work' = Scanning(P, work.then)
        /\ SC!Issue(i, r) /\ Scanner!Begin(P.pages)
        /\ scanCounts[i][r] \in 0 .. MaxScansPerReason - 1
        /\ totalScans[i] \in 0 .. MaxScansPerImage - 1
        /\ nextReservationId \in 1 .. MaxReservationId
        /\ accountedPages[i] \in Nat /\ accountedPages[i] + MaxPagesPerScan <= MaxPagesPerImage
        /\ SC!Grant(i) = MaxPagesPerScan
    BY StartIssues
  <1>. HIDE DEF P
  <1>2. /\ scanCounts' = [scanCounts EXCEPT ![i][r] = @ + 1]
        /\ totalScans' = [totalScans EXCEPT ![i] = @ + 1]
        /\ accountedPages' = [accountedPages EXCEPT ![i] = @ + MaxPagesPerScan]
        /\ nextReservationId' = SC!NextReservationId
        /\ UNCHANGED << settled, startupScanned, thrown, refused >>
    BY <1>1 DEF SC!Issue, StartScan
  <1>3. Typed'
    <2>1. nextReservationId' \in 0 .. MaxReservationId
      BY <1>1, <1>2, SessionAssumption DEF SC!NextReservationId
    <2>2. scanCounts' \in [Image -> [Reason -> 0 .. MaxScansPerReason]]
      BY <1>1, <1>2, SessionAssumption DEF SInv, Typed, SC!TypeOK
    <2>3. totalScans' \in [Image -> 0 .. MaxScansPerImage]
      BY <1>1, <1>2, SessionAssumption DEF SInv, Typed, SC!TypeOK
    <2>4. accountedPages' \in [Image -> 0 .. MaxPagesPerImage]
      BY <1>1, <1>2, SessionAssumption, PolicyIsSound DEF SInv, Typed, SC!TypeOK
    <2>5. SC!TypeOK'
      BY <1>1, <1>2, <2>1, <2>2, <2>3, <2>4 DEF SInv, Typed, SC!TypeOK
    <2>6. WorkTyped' BY <1>1 DEF WorkTyped, Scanning
    <2>7. QED BY <1>2, <2>5, <2>6 DEF SInv, Typed
  <1>4. PermitInv'
    <2>1. accountedPages'[i] = accountedPages[i] + MaxPagesPerScan
      BY <1>1, <1>2 DEF SInv, Typed, SC!TypeOK
    <2>2. MaxPagesPerScan <= accountedPages'[i]
      BY <1>1, <2>1, SessionAssumption
    <2>3. QED BY <1>1, <1>2, <2>2 DEF SInv, PermitInv, Scanning
  <1>5. ScanInv'
    <2>1. PICK at, maps, left, limit :
            /\ \/ at = "done" /\ limit = 0 /\ maps = << >> /\ left = {}
               \/ at = "reading" /\ limit = P.pages /\ maps \in Maps /\ left = Scanner!Readable(maps)
            /\ scan' = [at |-> at, maps |-> maps, left |-> left, address |-> 0,
                        scanned |-> 0, found |-> 0, limit |-> limit, reads |-> 0]
      <3>1. PICK shown \in Maps :
              \/ scan' = Scanner!Finished
              \/ scan' = [Scanner!Finished EXCEPT !.at = "reading", !.limit = P.pages,
                                            !.maps = shown, !.left = Scanner!Readable(shown)]
        BY <1>1 DEF Scanner!Begin
      <3>2. CASE scan' = Scanner!Finished BY <3>2 DEF Scanner!Finished
      <3>3. CASE scan' = [at |-> "reading", maps |-> shown, left |-> Scanner!Readable(shown),
                          address |-> 0, scanned |-> 0, found |-> 0, limit |-> P.pages, reads |-> 0]
        BY <3>3
      <3>4. QED BY <3>1, <3>2, <3>3 DEF Scanner!Finished
    <2>2. ScanRecord' BY <2>1 DEF ScanRecord
    <2>3. /\ scan'.at = at /\ scan'.scanned = 0 /\ scan'.limit = limit /\ scan'.reads = 0
          /\ scan'.found = 0 /\ scan'.maps = maps /\ scan'.left = left
      BY <2>1
    <2>4. work'.permit = P BY <1>1 DEF Scanning
    <2>5. InOrder(maps, left)
      <3>1. maps \in Seq(Region) /\ left = Scanner!Readable(maps)
        <4>1. << >> \in Seq(Region) /\ DOMAIN << >> = {} OBVIOUS
        <4>2. Scanner!Readable(<< >>) = {} BY <4>1 DEF Scanner!Readable
        <4>3. QED BY <2>1, <4>1, <4>2, MapsAssumption
      <3>2. QED BY <3>1 DEF InOrder
    <2>6. limit \in Nat /\ limit <= P.pages BY <1>1, <2>1, SessionAssumption
    <2>7. LimitsInv' BY <2>1, <2>3, <2>5, <2>6, SessionAssumption DEF LimitsInv
    <2>8. QED BY <2>2, <2>3, <2>4, <2>6, <2>7 DEF ScanInv
  <1>6. CountsInv'
    <2>1. SUFFICES ASSUME NEW j \in Image
                   PROVE  totalScans'[j] = Total(j)' /\ accountedPages'[j] <= totalScans'[j] * MaxPagesPerScan
      BY DEF CountsInv
    <2>2. totalScans[j] = Total(j) /\ accountedPages[j] <= totalScans[j] * MaxPagesPerScan
      BY DEF SInv, CountsInv
    <2>3. CASE j = i
      <3>1. totalScans'[i] = totalScans[i] + 1 /\ accountedPages'[i] = accountedPages[i] + MaxPagesPerScan
        BY <1>1, <1>2 DEF SInv, Typed, SC!TypeOK
      <3>2. (totalScans[i] + 1) * MaxPagesPerScan = totalScans[i] * MaxPagesPerScan + MaxPagesPerScan
            /\ totalScans[i] * MaxPagesPerScan \in Nat
        <4>1. totalScans[i] \in Nat /\ MaxScansPerImage \in Nat /\ totalScans[i] < MaxScansPerImage
              /\ MaxPagesPerScan \in Nat
          BY <1>1, SessionAssumption
        <4>2. QED BY <4>1, RoomForOneMore
      <3>3. accountedPages'[i] <= totalScans'[i] * MaxPagesPerScan
        <4>. DEFINE t == totalScans[i] * MaxPagesPerScan
        <4>1. t \in Nat /\ accountedPages[i] <= t /\ totalScans'[i] * MaxPagesPerScan = t + MaxPagesPerScan
          BY <2>2, <2>3, <3>1, <3>2
        <4>. HIDE DEF t
        <4>2. QED BY <1>1, <3>1, <4>1, SessionAssumption
      <3>4. \A q \in Reason : scanCounts[i][q] \in Nat
        BY <1>1, SessionAssumption DEF SInv, Typed, SC!TypeOK
      <3>5. \A q \in Reason : scanCounts'[i][q] = IF q = r THEN scanCounts[i][q] + 1 ELSE scanCounts[i][q]
        BY <1>1, <1>2 DEF SInv, Typed, SC!TypeOK
      <3>6. Total(j)' = Total(j) + 1
        BY <1>1, <2>3, <3>4, <3>5 DEF Total, Reason
      <3>7. QED BY <2>2, <2>3, <3>1, <3>3, <3>6
    <2>4. CASE j # i
      BY <1>1, <1>2, <2>2, <2>4 DEF SInv, Typed, SC!TypeOK, Total
    <2>5. QED BY <2>3, <2>4
  <1>7. NoReasonStarved'
    <2>1. SC!Issued' = SC!Issued \cup {P}
      <3>1. reservations = {} BY PendingRequest DEF StartScan
      <3>2. QED BY <1>1, <1>2, <3>1 DEF SC!Issued
    <2>2. EveryScanIsFull' BY <1>1, <2>1 DEF SInv, NoReasonStarved, EveryScanIsFull
    <2>3. ASSUME NEW q \in refused PROVE scanCounts'[q[1]][q[2]] = MaxScansPerReason
      <3>1. scanCounts[q[1]][q[2]] = MaxScansPerReason
        BY <1>1 DEF SInv, NoReasonStarved, RefusedOnlyWhenUsed
      <3>2. q[1] \in Image /\ q[2] \in Reason BY DEF SInv, Typed
      <3>3. ~(q[1] = i /\ q[2] = r) BY <1>1, <3>1, SessionAssumption
      <3>4. QED BY <1>1, <1>2, <3>1, <3>2, <3>3 DEF SInv, Typed, SC!TypeOK
    <2>4. QED BY <1>2, <2>2, <2>3 DEF NoReasonStarved, RefusedOnlyWhenUsed
  <1>8. InspectionInv'
    <2>1. SUFFICES ASSUME NEW j \in Image
                   PROVE  /\ j \notin startupScanned =>
                               scanCounts'[j][Initial] = 0 /\ scanCounts'[j][Boundary] = 0
                          /\ j \in startupScanned => Answered(j)'
                          /\ scanCounts'[j][Initial] <= 1
                          /\ i = j /\ work.then # "none" => j \in startupScanned
      BY <1>1, <1>2 DEF InspectionInv, Awaited, Scanning
    <2>2. /\ j \notin startupScanned \/ Awaited(j) =>
               scanCounts[j][Initial] = 0 /\ scanCounts[j][Boundary] = 0
          /\ j \in startupScanned /\ ~Awaited(j) => Answered(j)
          /\ scanCounts[j][Initial] <= 1
          /\ i = j /\ (r # "SensitiveDataDiscovery" \/ work.then # "none") => j \in startupScanned
      BY DEF SInv, InspectionInv, StartScan
    <2>3. CASE j # i
      <3>1. scanCounts'[j] = scanCounts[j] BY <1>1, <1>2, <2>3 DEF SInv, Typed, SC!TypeOK
      <3>2. QED BY <1>2, <2>2, <2>3, <3>1 DEF Answered, Awaited
    <2>4. CASE j = i
      <3>1. \A q \in Reason : scanCounts'[i][q] = IF q = r THEN scanCounts[i][q] + 1 ELSE scanCounts[i][q]
        BY <1>1, <1>2 DEF SInv, Typed, SC!TypeOK
      <3>2. Awaited(i) <=> r = Initial BY DEF StartScan, Awaited
      <3>3. Initial \in Reason /\ Boundary \in Reason /\ Initial # Boundary
            /\ Initial # "SensitiveDataDiscovery" /\ Boundary # "SensitiveDataDiscovery"
        BY DEF Initial, Boundary, Reason
      <3>4. CASE r = Initial
        BY <1>1, <1>2, <2>2, <2>4, <3>1, <3>2, <3>3, <3>4 DEF Answered
      <3>5. CASE r # Initial
        BY <1>1, <1>2, <2>2, <2>4, <3>1, <3>2, <3>3, <3>5 DEF Answered
      <3>6. QED BY <3>4, <3>5
    <2>5. QED BY <2>3, <2>4
  <1>9. QED BY <1>3, <1>4, <1>5, <1>6, <1>7, <1>8 DEF SInv

(* A set of numbers has a least one.                                       *)
LEMMA LessIsWellFounded == IsWellFoundedOn({p \in Nat \X Nat : p[1] < p[2]}, Nat)
  BY NatLessThanWellFounded, Zenon DEF OpToRel

LEMMA LeastNumber == ASSUME NEW S \in SUBSET Nat, S # {} PROVE \E n \in S : \A m \in S : n <= m
  <1>. DEFINE less == {p \in Nat \X Nat : p[1] < p[2]}
  <1>1. IsWellFoundedOn(less, Nat) /\ S \subseteq Nat BY LessIsWellFounded
  <1>. HIDE DEF less
  <1>2. \E n \in S : \A m \in S : << m, n >> \notin less BY <1>1, WFMin
  <1>3. \A m, n \in S : << m, n >> \notin less => n <= m BY <1>1 DEF less
  <1>4. QED BY <1>2, <1>3

(* The stable sort has a first among the regions left.                     *)
LEMMA FirstOfLeft ==
  ASSUME NEW s, s.maps \in Seq(Region), s.left \subseteq Scanner!Readable(s.maps), s.left # {}
  PROVE  /\ Scanner!Current(s) \in s.left
         /\ \A m \in s.left : Scanner!Priority(s.maps[Scanner!Current(s)]) <= Scanner!Priority(s.maps[m])
         /\ \A m \in s.left : Scanner!Priority(s.maps[m]) \in 1 .. 6
  <1>. DEFINE P(n) == Scanner!Priority(s.maps[n])
  <1>1. \A n \in s.left : s.maps[n] \in Region /\ n \in Nat BY DEF Scanner!Readable
  <1>2. \A r \in Region : Scanner!Priority(r) \in 1 .. 6
    <2>1. SUFFICES ASSUME NEW r \in Region PROVE Scanner!Priority(r) \in 1 .. 6 OBVIOUS
    <2>2. r.writable \in BOOLEAN /\ r.executable \in BOOLEAN
          /\ r.what \in {"stack", "heap", "anonymous", "file"}
      BY DEF Region
    <2>3. CASE r.writable BY <2>2, <2>3 DEF Scanner!Priority
    <2>4. CASE ~r.writable BY <2>2, <2>4 DEF Scanner!Priority
    <2>5. QED BY <2>3, <2>4
  <1>3. \A n \in s.left : P(n) \in 1 .. 6 BY <1>1, <1>2
  <1>. HIDE DEF P
  <1>4. PICK p \in {P(n) : n \in s.left} : \A q \in {P(n) : n \in s.left} : p <= q
    <2>1. {P(n) : n \in s.left} \subseteq Nat /\ {P(n) : n \in s.left} # {} BY <1>3
    <2>2. QED BY <2>1, LeastNumber
  <1>5. PICK n \in {k \in s.left : P(k) = p} : \A m \in {k \in s.left : P(k) = p} : n <= m
    <2>1. {k \in s.left : P(k) = p} \subseteq Nat /\ {k \in s.left : P(k) = p} # {} BY <1>1, <1>4
    <2>2. QED BY <2>1, LeastNumber
  <1>6. \A m \in s.left \ {n} : P(n) < P(m) \/ (P(n) = P(m) /\ n < m)
    <2>1. SUFFICES ASSUME NEW m \in s.left \ {n} PROVE P(n) < P(m) \/ (P(n) = P(m) /\ n < m) OBVIOUS
    <2>2. P(n) = p /\ n \in s.left BY <1>5
    <2>3. p <= P(m) /\ (P(m) = p => n <= m) BY <1>4, <1>5
    <2>4. P(m) \in 1 .. 6 /\ p \in 1 .. 6 /\ n \in Nat /\ m \in Nat BY <1>1, <1>3, <2>2
    <2>5. m # n OBVIOUS
    <2>6. CASE P(m) = p BY <2>2, <2>3, <2>4, <2>5, <2>6
    <2>7. CASE P(m) # p BY <2>2, <2>3, <2>4, <2>7
    <2>8. QED BY <2>6, <2>7
  <1>7. n \in s.left /\ \A m \in s.left \ {n} : Scanner!Ahead(s.maps, n, m)
    BY <1>5, <1>6 DEF Scanner!Ahead, P
  <1>8. LET c == Scanner!Current(s) IN c \in s.left /\ \A m \in s.left \ {c} : Scanner!Ahead(s.maps, c, m)
    BY <1>7 DEF Scanner!Current
  <1>9. \A m \in s.left : P(Scanner!Current(s)) <= P(m)
    BY <1>3, <1>8 DEF Scanner!Ahead, P
  <1>10. QED BY <1>3, <1>8, <1>9 DEF P

(* A step of the scan counts one read and at most one secret, only below   *)
(* the limits, or finds itself at one; and takes the regions in order.     *)
LEMMA ScanStep ==
  ASSUME ScanRecord, LimitsInv, Scanner!Next
  PROVE  ScanRecord' /\ LimitsInv' /\ scan'.limit = scan.limit
  <1>1. CASE Scanner!Stops
    <2>1. scan' = [scan EXCEPT !.at = "done"] BY <1>1 DEF Scanner!Stops
    <2>2. ScanRecord' /\ scan'.at = "done" BY <2>1 DEF ScanRecord
    <2>3. /\ scan'.limit = scan.limit /\ scan'.scanned = scan.scanned /\ scan'.reads = scan.reads
          /\ scan'.found = scan.found /\ scan'.maps = scan.maps /\ scan'.left = scan.left
      BY <2>1 DEF ScanRecord
    <2>4. scan.left # {} => scan.scanned = scan.limit \/ scan.found = MaxObservations
      BY <1>1, SessionAssumption DEF Scanner!Stops, Scanner!MayRead, LimitsInv
    <2>5. QED BY <2>2, <2>3, <2>4 DEF LimitsInv
  <1>2. ASSUME NEW s, NEW to, NEW found \in Nat, found <= MaxObservations, Scanner!MayRead,
               s = [scan EXCEPT !.reads = @ + 1, !.scanned = @ + 1, !.found = found],
               scan' = Scanner!Onward(s, to)
        PROVE  ScanRecord' /\ LimitsInv' /\ scan'.limit = scan.limit
    <2>1. s = [at |-> scan.at, maps |-> scan.maps, left |-> scan.left,
               address |-> scan.address, scanned |-> scan.scanned + 1, found |-> found,
               limit |-> scan.limit, reads |-> scan.reads + 1]
      BY <1>2 DEF ScanRecord
    <2>2. s.maps = scan.maps /\ s.left = scan.left BY <2>1
    <2>3. PICK address, left :
            /\ left \in {scan.left, scan.left \ {Scanner!Current(s)}}
            /\ scan' = [at |-> scan.at, maps |-> scan.maps, left |-> left,
                        address |-> address, scanned |-> scan.scanned + 1, found |-> found,
                        limit |-> scan.limit, reads |-> scan.reads + 1]
      BY <1>2, <2>1 DEF Scanner!Onward
    <2>4. /\ scan'.at = scan.at /\ scan'.limit = scan.limit /\ scan'.scanned = scan.scanned + 1
          /\ scan'.reads = scan.reads + 1 /\ scan'.found = found
          /\ scan'.maps = scan.maps /\ scan'.left = left
      BY <2>3
    <2>5. InOrder(scan.maps, left)
      <3>1. InOrder(scan.maps, scan.left) /\ scan.left # {} BY <1>2 DEF LimitsInv, Scanner!MayRead
      <3>2. CASE left = scan.left BY <3>1, <3>2
      <3>3. CASE left = scan.left \ {Scanner!Current(s)}
        <4>. DEFINE P(n) == Scanner!Priority(scan.maps[n])
                    c == Scanner!Current(s)
        <4>1. /\ c \in scan.left /\ \A m \in scan.left : P(c) <= P(m)
          BY <2>2, <3>1, FirstOfLeft DEF InOrder
        <4>2. \A m \in Scanner!Readable(scan.maps) \ scan.left, n \in scan.left : P(m) <= P(n)
          BY <3>1 DEF InOrder
        <4>. HIDE DEF P, c
        <4>3. \A m \in Scanner!Readable(scan.maps) \ left, n \in left : P(m) <= P(n)
          BY <3>3, <4>1, <4>2 DEF c
        <4>4. QED BY <3>1, <3>3, <4>3 DEF InOrder, P
      <3>4. QED BY <2>3, <3>2, <3>3
    <2>6. scan.scanned < scan.limit /\ scan.at = "reading" BY <1>2 DEF Scanner!MayRead
    <2>7. LimitsInv' BY <1>2, <2>4, <2>5, <2>6 DEF LimitsInv
    <2>8. QED BY <2>3, <2>4, <2>7 DEF ScanRecord
  <1>3. CASE Scanner!ReadFails
    <2>1. [scan EXCEPT !.reads = @ + 1, !.scanned = @ + 1]
            = [scan EXCEPT !.reads = @ + 1, !.scanned = @ + 1, !.found = scan.found]
      BY DEF ScanRecord
    <2>2. QED BY <1>2, <1>3, <2>1 DEF Scanner!ReadFails, LimitsInv
  <1>4. CASE Scanner!Reads
    <2>1. PICK n \in 1 .. Scanner!Page, secrets \in 0 .. MaxObservations + 1 :
            scan' = Scanner!Onward([scan EXCEPT !.reads = @ + 1, !.scanned = @ + 1,
                                                !.found = @ + Scanner!Recorded(secrets, MaxObservations - @)],
                                   scan.address + n)
      BY <1>4 DEF Scanner!Reads
    <2>. DEFINE recorded == Scanner!Recorded(secrets, MaxObservations - scan.found)
    <2>2. [scan EXCEPT !.reads = @ + 1, !.scanned = @ + 1,
                       !.found = @ + Scanner!Recorded(secrets, MaxObservations - @)]
            = [scan EXCEPT !.reads = @ + 1, !.scanned = @ + 1, !.found = scan.found + recorded]
      BY DEF ScanRecord
    <2>3. scan.found + recorded \in Nat /\ scan.found + recorded <= MaxObservations
      BY <1>4, <2>1, SessionAssumption DEF Scanner!Reads, Scanner!MayRead, Scanner!Recorded, LimitsInv
    <2>4. Scanner!MayRead BY <1>4 DEF Scanner!Reads
    <2>5. QED BY <1>2, <2>1, <2>2, <2>3, <2>4
  <1>5. QED BY <1>1, <1>3, <1>4 DEF Scanner!Next

LEMMA ContinueKeepsSInv ==
  ASSUME SInv, ContinueScan
  PROVE  SInv'
  <1>. USE DEF ContinueScan
  <1>1. CountsInv' /\ NoReasonStarved' /\ SC!TypeOK' BY SameCoordinator
  <1>2. Typed' BY <1>1 DEF SInv, Typed, WorkTyped
  <1>3. PermitInv' BY DEF SInv, PermitInv, coordinator
  <1>4. ScanInv'
    <2>1. ScanRecord' /\ LimitsInv' /\ scan'.limit = scan.limit
      BY ScanStep DEF SInv, ScanInv
    <2>2. QED BY <2>1 DEF SInv, ScanInv
  <1>5. InspectionInv' BY DEF SInv, InspectionInv, Awaited, Answered, coordinator
  <1>6. QED BY <1>1, <1>2, <1>3, <1>4, <1>5 DEF SInv

(* A finished scan is settled: complete_scan accepts what it reports.      *)
LEMMA FinishSettles ==
  ASSUME SInv, FinishScan
  PROVE  /\ work.permit \in SC!Permit /\ work.permit \in reservations
         /\ work.then \in {"none", Boundary}
         /\ scan.scanned \in 0 .. work.permit.pages /\ work.permit.pages \in 0 .. MaxPagesPerScan
         /\ SC!Complete(work.permit, scan.scanned)
         /\ reservations' = {} /\ scan' = Scanner!Off /\ thrown' = FALSE
         /\ work' = Continue(work.permit.image, work.then)
  <1>1. work.at = "scanning" BY DEF FinishScan
  <1>2. work.permit \in SC!Permit /\ work.then \in {"none", Boundary}
    BY <1>1 DEF SInv, Typed, WorkTyped, Idle
  <1>3. reservations = {work.permit} /\ work.permit.pages <= accountedPages[work.permit.image]
    BY <1>1 DEF SInv, PermitInv
  <1>4. work.permit.pages \in 0 .. MaxPagesPerScan BY <1>2 DEF SC!Permit
  <1>5. scan.scanned \in 0 .. work.permit.pages
    BY <1>1, <1>4, SessionAssumption DEF SInv, ScanInv, LimitsInv
  <1>6. accountedPages[work.permit.image] \in Nat
    BY <1>2, PolicyIsSound DEF SInv, Typed, SC!TypeOK, SC!Permit
  <1>7. SC!MayComplete(work.permit, scan.scanned)
    BY <1>3, <1>4, <1>5, <1>6, SessionAssumption DEF SC!MayComplete
  <1>8. SC!Complete(work.permit, scan.scanned) BY <1>7 DEF FinishScan
  <1>9. reservations' = {} BY <1>3, <1>8 DEF SC!Complete
  <1>10. scan' = Scanner!Off /\ thrown' = FALSE /\ work' = Continue(work.permit.image, work.then)
    BY <1>7 DEF FinishScan
  <1>11. QED BY <1>2, <1>3, <1>4, <1>5, <1>8, <1>9, <1>10

LEMMA FinishKeepsSInv ==
  ASSUME SInv, FinishScan
  PROVE  SInv'
  <1>. DEFINE P == work.permit
              i == P.image
              n == scan.scanned
  <1>1. /\ P \in SC!Permit /\ P \in reservations /\ work.then \in {"none", Boundary}
        /\ n \in 0 .. P.pages /\ P.pages \in 0 .. MaxPagesPerScan
        /\ SC!Complete(P, n)
        /\ reservations' = {} /\ scan' = Scanner!Off /\ thrown' = FALSE
        /\ work' = Continue(i, work.then)
    BY FinishSettles
  <1>2. /\ accountedPages' = [accountedPages EXCEPT ![i] = @ - (P.pages - n)]
        /\ settled' = settled \cup {[permit |-> P, pages |-> n]}
        /\ UNCHANGED << nextReservationId, scanCounts, totalScans, startupScanned, refused >>
    BY <1>1 DEF SC!Complete, FinishScan
  <1>3. i \in Image /\ P.pages <= accountedPages[i] BY <1>1 DEF SC!Permit, SC!Complete, SC!MayComplete
  <1>4. accountedPages \in [Image -> 0 .. MaxPagesPerImage] BY DEF SInv, Typed, SC!TypeOK
  <1>5. /\ accountedPages'[i] \in 0 .. MaxPagesPerImage /\ accountedPages'[i] <= accountedPages[i]
        /\ accountedPages' \in [Image -> 0 .. MaxPagesPerImage]
        /\ \A j \in Image \ {i} : accountedPages'[j] = accountedPages[j]
    <2>1. accountedPages[i] - (P.pages - n) \in 0 .. MaxPagesPerImage
          /\ accountedPages[i] - (P.pages - n) <= accountedPages[i]
      BY <1>1, <1>3, <1>4, PolicyIsSound, SessionAssumption
    <2>2. QED BY <1>2, <1>3, <1>4, <2>1
  <1>6. \/ work.then = "none" /\ work' = Idle
        \/ work.then = Boundary /\ work' = Request(i, Boundary, "none")
    BY <1>1 DEF Continue, Boundary
  <1>7. Typed'
    <2>1. settled' \subseteq [permit: SC!Permit, pages: 0 .. MaxPagesPerScan]
      BY <1>1, <1>2, SessionAssumption DEF SInv, Typed, SC!TypeOK
    <2>2. SC!TypeOK' BY <1>1, <1>2, <1>5, <2>1 DEF SInv, Typed, SC!TypeOK
    <2>3. WorkTyped' BY <1>3, <1>6 DEF WorkTyped, Request, Idle, Reason, Boundary
    <2>4. QED BY <1>2, <2>2, <2>3 DEF SInv, Typed
  <1>8. PermitInv' BY <1>1, <1>6 DEF PermitInv, Request, Idle
  <1>9. ScanInv' BY <1>6 DEF ScanInv, Request, Idle
  <1>10. CountsInv'
    <2>1. SUFFICES ASSUME NEW j \in Image
                   PROVE  totalScans'[j] = Total(j)' /\ accountedPages'[j] <= totalScans'[j] * MaxPagesPerScan
      BY DEF CountsInv
    <2>2. totalScans[j] = Total(j) /\ accountedPages[j] <= totalScans[j] * MaxPagesPerScan
      BY DEF SInv, CountsInv
    <2>3. totalScans'[j] = Total(j)' /\ totalScans'[j] = totalScans[j] BY <1>2, <2>2 DEF Total
    <2>4. accountedPages'[j] <= accountedPages[j] /\ accountedPages'[j] \in Int /\ accountedPages[j] \in Int
      BY <1>3, <1>4, <1>5, PolicyIsSound
    <2>5. totalScans[j] * MaxPagesPerScan \in Int
      BY SessionAssumption DEF SInv, Typed, SC!TypeOK
    <2>. DEFINE t == totalScans[j] * MaxPagesPerScan
    <2>6. t \in Int /\ accountedPages[j] <= t BY <2>2, <2>5
    <2>. HIDE DEF t
    <2>7. accountedPages'[j] <= t BY <2>4, <2>6
    <2>8. QED BY <2>3, <2>7 DEF t
  <1>11. NoReasonStarved'
    <2>1. SC!Issued' = SC!Issued
      <3>1. reservations = {P} BY DEF SInv, PermitInv, FinishScan
      <3>2. {t.permit : t \in settled'} = {t.permit : t \in settled} \cup {P}
        <4>1. [permit |-> P, pages |-> n].permit = P OBVIOUS
        <4>. HIDE DEF P, n
        <4>2. QED BY <1>2, <4>1
      <3>3. SC!Issued' = {t.permit : t \in settled'} BY <1>1 DEF SC!Issued
      <3>4. QED BY <3>1, <3>2, <3>3 DEF SC!Issued
    <2>2. QED BY <1>2, <2>1 DEF SInv, NoReasonStarved, EveryScanIsFull, RefusedOnlyWhenUsed
  <1>12. InspectionInv'
    <2>1. ASSUME NEW j \in Image
          PROVE ~Awaited(j) /\ ~Awaited(j)' /\ work'.at # "scanning" /\ (Answered(j) => Answered(j)')
      BY <1>2, <1>6 DEF Awaited, Answered, Request, Idle, Initial, Boundary, FinishScan
    <2>2. ASSUME NEW j \in Image, work'.at = "request", work'.image = j
          PROVE  j \in startupScanned
      BY <1>6, <2>2 DEF SInv, InspectionInv, Request, Idle, FinishScan, Boundary
    <2>3. QED BY <1>2, <2>1, <2>2 DEF SInv, InspectionInv
  <1>13. QED BY <1>7, <1>8, <1>9, <1>10, <1>11, <1>12 DEF SInv

LEMMA NextKeepsSInv ==
  ASSUME SInv, [Next]_vars PROVE SInv'
  <1>1. ASSUME NEW image \in Image \cup {NoImage}, NEW boundary \in Semantic,
               SyscallEntry(image, boundary)
        PROVE  SInv'
    BY <1>1, EntryKeepsSInv
  <1>2. ASSUME NEW image \in Image \cup {NoImage}, SensitiveInput(image) PROVE SInv'
    BY <1>2, InputKeepsSInv
  <1>3. CASE NoTarget BY <1>3, NoTargetKeepsSInv
  <1>4. CASE StartScan BY <1>4, StartKeepsSInv
  <1>5. CASE ScanRefused BY <1>5, RefusedKeepsSInv
  <1>6. CASE ContinueScan BY <1>6, ContinueKeepsSInv
  <1>7. CASE FinishScan BY <1>7, FinishKeepsSInv
  <1>8. CASE UNCHANGED vars
    <2>1. CountsInv' /\ NoReasonStarved' /\ SC!TypeOK' BY <1>8, SameCoordinator DEF vars
    <2>2. Typed' BY <1>8, <2>1 DEF SInv, Typed, WorkTyped, vars
    <2>3. PermitInv' /\ ScanInv'
      BY <1>8 DEF SInv, PermitInv, ScanInv, ScanRecord, LimitsInv, vars, coordinator
    <2>4. InspectionInv' BY <1>8 DEF SInv, InspectionInv, Awaited, Answered, vars, coordinator
    <2>5. QED BY <2>1, <2>2, <2>3, <2>4 DEF SInv
  <1>9. QED BY <1>1, <1>2, <1>3, <1>4, <1>5, <1>6, <1>7, <1>8 DEF Next

(* The invariant holds of every session: at most the running scan has a    *)
(* permit, and what is counted stays within the scans that were made.      *)
THEOREM SessionInvariance == Spec => []SInv
  <1>1. Init => SInv BY InitSInv
  <1>2. SInv /\ [Next]_vars => SInv' BY NextKeepsSInv
  <1>3. QED BY <1>1, <1>2, PTL DEF Spec

-----------------------------------------------------------------------------
(* The comment of make_trace_scan_policy, for every policy: whatever       *)
(* earlier scans of an image took, a granted scan is a full one, and only  *)
(* a reason's own scans of that image, or the end of the ids, refuse it.   *)
THEOREM NoReasonIsStarved == Spec => []NoReasonStarved
  <1>1. SInv => NoReasonStarved BY DEF SInv
  <1>2. QED BY <1>1, SessionInvariance, PTL

(* complete_scan never rejects the session's permit, so that the callback  *)
(* never throws, and nothing stays reserved when a scan is over, whatever  *)
(* its reads returned.                                                     *)
THEOREM PermitsAlwaysSettled == Spec => []PermitsAreSettled
  <1>1. SInv => PermitsAreSettled
    <2>. SUFFICES ASSUME SInv PROVE PermitsAreSettled OBVIOUS
    <2>2. work \in {Idle}
            \cup [at: {"request"}, image: Image \cup {NoImage}, reason: Reason, then: Semantic]
            \cup [at: {"scanning"}, permit: SC!Permit, then: Semantic]
      BY DEF SInv, Typed, WorkTyped, Semantic, Boundary
    <2>3. work.at \in {"idle", "request", "scanning"} BY <2>2 DEF Idle
    <2>4. scan = Scanner!Off \/ scan.scanned \in Nat
      BY <2>3 DEF SInv, PermitInv, ScanInv, LimitsInv
    <2>5. TypeOK BY <2>2, <2>4 DEF SInv, Typed, PermitInv, TypeOK
    <2>6. QED BY <2>3, <2>5 DEF SInv, PermitInv, PermitsAreSettled
  <1>2. QED BY <1>1, SessionInvariance, PTL

(* An image is inspected when it is first seen, once, and before any scan  *)
(* for data that crosses a boundary, for any order of events.              *)
THEOREM InspectedOnce == Spec => []InitialInspectionOnce
  <1>1. SInv => InitialInspectionOnce
    <2>. SUFFICES ASSUME SInv, NEW i \in Image
                  PROVE  /\ scanCounts[i][Initial] <= 1
                         /\ scanCounts[i][Boundary] > 0 => Answered(i)
                         /\ i \in startupScanned /\ work = Idle => Answered(i)
      BY DEF InitialInspectionOnce, Answered, Initial, Boundary
    <2>1. /\ i \notin startupScanned \/ Awaited(i) => scanCounts[i][Boundary] = 0
          /\ i \in startupScanned /\ ~Awaited(i) => Answered(i)
          /\ scanCounts[i][Initial] <= 1
      BY DEF SInv, InspectionInv
    <2>2. work = Idle => ~Awaited(i) BY DEF Awaited, Idle
    <2>3. QED BY <2>1, <2>2
  <1>2. QED BY <1>1, SessionInvariance, PTL

(* However its reads turn out, a scan asks for no more than its permit     *)
(* grants and reports no more than the limit, stops before the last region *)
(* only at one of the two, and what it did not come to is of no higher     *)
(* priority than what it read: for any maps and any limits.                *)
THEOREM ScanAlwaysHonoursPermit == Spec => []ScanHonoursPermit
  <1>1. SInv => ScanHonoursPermit
    <2>. SUFFICES ASSUME SInv PROVE ScanHonoursPermit OBVIOUS
    <2>1. work.at \in {"idle", "request", "scanning"}
      BY DEF SInv, Typed, WorkTyped, Idle
    <2>2. CASE work.at # "scanning"
      BY <2>1, <2>2 DEF SInv, PermitInv, ScanHonoursPermit, Scanner!HonoursLimits
    <2>3. CASE work.at = "scanning"
      <3>1. LimitsInv /\ scan.limit <= work.permit.pages BY <2>3 DEF SInv, ScanInv
      <3>2. work.permit.pages \in Int BY <2>3, SessionAssumption DEF SInv, Typed, WorkTyped, Idle, SC!Permit
      <3>3. scan.scanned <= work.permit.pages BY <3>1, <3>2 DEF LimitsInv
      <3>4. Scanner!HonoursLimits BY <3>1 DEF LimitsInv, InOrder, Scanner!HonoursLimits
      <3>5. QED BY <3>3, <3>4 DEF ScanHonoursPermit
    <2>4. QED BY <2>2, <2>3
  <1>2. QED BY <1>1, SessionInvariance, PTL
=============================================================================
