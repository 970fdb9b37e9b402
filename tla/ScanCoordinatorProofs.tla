------------------------ MODULE ScanCoordinatorProofs ------------------------
(* Proofs about ScanCoordinator, for every policy and any set of images.   *)
EXTENDS ScanCoordinator, FiniteSetTheorems, TLAPS

(* Ids still to come are larger than any issued, the wrapped counter apart.*)
IdsAreFresh ==
  nextReservationId # 0 => \A p \in Issued : p.id < nextReservationId

AllFinite ==
  /\ IsFiniteSet(Issued)
  /\ \A i \in Image : IsFiniteSet(PagesHeld(i))

IInv ==
  /\ TypeOK
  /\ IdsAreFresh
  /\ AllFinite
  /\ ReservationsAreUnique
  /\ ScanLimitsHold
  /\ AccountingIsExact

-----------------------------------------------------------------------------
(* A permit's pages are as many as it says.                                *)
LEMMA PagesCounted ==
  ASSUME NEW p, NEW a \in Nat, NEW b \in Nat, a <= b
  PROVE  /\ IsFiniteSet({p.id} \X (a + 1 .. b))
         /\ Cardinality({p.id} \X (a + 1 .. b)) = b - a
  <1>. DEFINE S == {p.id}
              c == a + 1
              T == c .. b
  <1>1. IsFiniteSet(S) /\ Cardinality(S) = 1 BY FS_Singleton
  <1>2. c \in Int /\ b \in Int /\ (IF c > b THEN 0 ELSE b - c + 1) = b - a
        /\ 1 * (b - a) = b - a
    OBVIOUS
  <1>3. IsFiniteSet(T) /\ Cardinality(T) = b - a
    <2>. HIDE DEF c
    <2>1. QED BY <1>2, FS_Interval
  <1>4. IsFiniteSet(S \X T) /\ Cardinality(S \X T) = Cardinality(S) * Cardinality(T)
    <2>. HIDE DEF S, T
    <2>1. QED BY <1>1, <1>3, FS_Product
  <1>5. QED BY <1>1, <1>2, <1>3, <1>4

LEMMA PagesOfCounted ==
  ASSUME NEW p, NEW n \in Nat
  PROVE  IsFiniteSet(PagesOf(p, n)) /\ Cardinality(PagesOf(p, n)) = n
  <1>1. 0 + 1 = 1 OBVIOUS
  <1>2. PagesOf(p, n) = {p.id} \X (0 + 1 .. n) BY <1>1 DEF PagesOf
  <1>3. 0 \in Nat /\ 0 <= n /\ n - 0 = n OBVIOUS
  <1>4. IsFiniteSet({p.id} \X (0 + 1 .. n)) /\ Cardinality({p.id} \X (0 + 1 .. n)) = n - 0
    BY ONLY 0 \in Nat, n \in Nat, 0 <= n, PagesCounted
  <1>5. QED BY <1>2, <1>3, <1>4

LEMMA IssuedTyped ==
  ASSUME TypeOK PROVE Issued \subseteq Permit
  BY DEF TypeOK, Issued

(* An outstanding permit's pages are among those held for its image, so    *)
(* the accounting covers them.                                             *)
LEMMA OutstandingCovered ==
  ASSUME IInv PROVE CompletionIsAccepted
  <1>1. SUFFICES ASSUME NEW p \in reservations
                 PROVE  accountedPages[p.image] >= p.pages
    BY DEF CompletionIsAccepted
  <1>2. p.image \in Image /\ p.pages \in Nat
    BY PolicyAssumption DEF IInv, TypeOK, Permit
  <1>3. PagesOf(p, p.pages) \in SUBSET PagesHeld(p.image) BY DEF PagesHeld
  <1>4. IsFiniteSet(PagesHeld(p.image)) BY <1>2 DEF IInv, AllFinite
  <1>5. Cardinality(PagesOf(p, p.pages)) <= Cardinality(PagesHeld(p.image))
    BY <1>3, <1>4, FS_Subset
  <1>6. Cardinality(PagesOf(p, p.pages)) = p.pages BY <1>2, PagesOfCounted
  <1>7. accountedPages[p.image] = Cardinality(PagesHeld(p.image))
    BY <1>2 DEF IInv, AccountingIsExact
  <1>8. accountedPages[p.image] \in Nat
    BY <1>2, PolicyAssumption DEF IInv, TypeOK
  <1>9. QED BY <1>2, <1>5, <1>6, <1>7, <1>8

-----------------------------------------------------------------------------
LEMMA InitIInv == Init => IInv
  <1>. SUFFICES ASSUME Init PROVE IInv OBVIOUS
  <1>1. TypeOK BY PolicyAssumption DEF Init, TypeOK
  <1>2. Issued = {} BY DEF Init, Issued
  <1>3. \A i \in Image : PagesHeld(i) = {} BY DEF Init, PagesHeld
  <1>4. \A i \in Image : /\ IssuedFor(i) = {}
                         /\ \A r \in Reason : {p \in IssuedFor(i) : p.reason = r} = {}
    BY <1>2 DEF IssuedFor
  <1>5. IdsAreFresh BY <1>2 DEF IdsAreFresh
  <1>6. AllFinite BY <1>2, <1>3, FS_EmptySet DEF AllFinite
  <1>7. ReservationsAreUnique BY <1>2 DEF Init, ReservationsAreUnique
  <1>8. ScanLimitsHold BY <1>4, FS_EmptySet DEF Init, ScanLimitsHold
  <1>9. AccountingIsExact BY <1>3, FS_EmptySet DEF Init, AccountingIsExact
  <1>10. QED BY <1>1, <1>5, <1>6, <1>7, <1>8, <1>9 DEF IInv

(* What issuing a permit does to the sets the invariant counts.            *)
LEMMA IssueAddsOne ==
  ASSUME IInv, NEW image \in Image, NEW reason \in Reason, Issue(image, reason)
  PROVE  LET P == IssuedPermit(image, reason) IN
         /\ P \in Permit
         /\ Grant(image) \in Nat
         /\ accountedPages[image] + Grant(image) <= MaxPagesPerImage
         /\ P \notin Issued
         /\ Issued' = Issued \cup {P}
         /\ \A p \in Issued : p.id # P.id
  <1>. DEFINE P == IssuedPermit(image, reason)
  <1>1. nextReservationId \in 1 .. MaxReservationId
    BY PolicyAssumption DEF IInv, TypeOK, Issue, MayScan
  <1>2. accountedPages[image] \in 0 .. MaxPagesPerImage
    BY DEF IInv, TypeOK
  <1>3. /\ Grant(image) \in 0 .. MaxPagesPerScan
        /\ accountedPages[image] + Grant(image) <= MaxPagesPerImage
    BY <1>2, PolicyAssumption DEF Grant, Remaining
  <1>4. P \in Permit BY <1>1, <1>3 DEF IssuedPermit, Permit
  <1>5. \A p \in Issued : p.id # P.id
    <2>1. \A p \in Issued : p.id < nextReservationId
      BY <1>1 DEF IInv, IdsAreFresh
    <2>2. P.id = nextReservationId BY DEF IssuedPermit
    <2>3. QED BY <1>1, <2>1, <2>2
  <1>6. Issued' = Issued \cup {P} BY DEF Issue, Issued
  <1>7. QED BY <1>3, <1>4, <1>5, <1>6, PolicyAssumption

LEMMA IssueKeepsIInv ==
  ASSUME IInv, NEW image \in Image, NEW reason \in Reason, Issue(image, reason)
  PROVE  IInv'
  <1>. DEFINE P == IssuedPermit(image, reason)
  <1>1. /\ P \in Permit /\ Grant(image) \in Nat
        /\ accountedPages[image] + Grant(image) <= MaxPagesPerImage
        /\ P \notin Issued /\ Issued' = Issued \cup {P}
        /\ \A p \in Issued : p.id # P.id
    BY IssueAddsOne
  <1>2. P.id = nextReservationId /\ P.image = image /\ P.reason = reason
        /\ P.pages = Grant(image)
    BY DEF IssuedPermit
  <1>3. /\ nextReservationId \in 1 .. MaxReservationId
        /\ scanCounts[image][reason] < MaxScansPerReason
        /\ totalScans[image] < MaxScansPerImage
        /\ reservations' = reservations \cup {P}
        /\ scanCounts' = [scanCounts EXCEPT ![image][reason] = @ + 1]
        /\ totalScans' = [totalScans EXCEPT ![image] = @ + 1]
        /\ accountedPages' = [accountedPages EXCEPT ![image] = @ + Grant(image)]
        /\ nextReservationId' = NextReservationId
        /\ settled' = settled
    BY PolicyAssumption DEF IInv, TypeOK, Issue, MayScan
  <1>. HIDE DEF P
  <1>4. TypeOK'
    <2>1. TypeOK BY DEF IInv
    <2>2. nextReservationId' \in 0 .. MaxReservationId
      BY <1>3, PolicyAssumption DEF NextReservationId
    <2>3. scanCounts' \in [Image -> [Reason -> 0 .. MaxScansPerReason]]
      BY <1>3, <2>1, PolicyAssumption DEF TypeOK
    <2>4. totalScans' \in [Image -> 0 .. MaxScansPerImage]
      BY <1>3, <2>1, PolicyAssumption DEF TypeOK
    <2>5. accountedPages' \in [Image -> 0 .. MaxPagesPerImage]
      <3>1. accountedPages[image] + Grant(image) \in 0 .. MaxPagesPerImage
        BY <1>1, <2>1, PolicyAssumption DEF TypeOK
      <3>2. QED BY <1>3, <2>1, <3>1 DEF TypeOK
    <2>6. reservations' \subseteq Permit BY <1>1, <1>3, <2>1 DEF TypeOK
    <2>7. QED BY <1>3, <2>1, <2>2, <2>3, <2>4, <2>5, <2>6 DEF TypeOK
  <1>5. IdsAreFresh'
    <2>1. \A p \in Issued : p.id \in Nat /\ p.id < nextReservationId
      BY <1>3, IssuedTyped DEF IInv, IdsAreFresh, Permit
    <2>2. QED BY <1>1, <1>2, <1>3, <2>1, PolicyAssumption
      DEF IdsAreFresh, NextReservationId
  <1>6. ReservationsAreUnique'
    BY <1>1, <1>3 DEF IInv, ReservationsAreUnique, Issued
  <1>7. IsFiniteSet(Issued) /\ IsFiniteSet(Issued')
    BY <1>1, FS_AddElement DEF IInv, AllFinite
  <1>8. ScanLimitsHold'
    <2>1. TypeOK /\ ScanLimitsHold BY DEF IInv
    <2>2. ASSUME NEW i \in Image, NEW r \in Reason
          PROVE  /\ totalScans'[i] = Cardinality(IssuedFor(i)')
                 /\ scanCounts'[i][r] = Cardinality({p \in IssuedFor(i)' : p.reason = r})
      <3>. DEFINE F == IssuedFor(i)
                  G == {p \in IssuedFor(i) : p.reason = r}
      <3>3. IsFiniteSet(F) /\ IsFiniteSet(G) /\ P \notin F /\ P \notin G
        BY <1>1, <1>7, FS_Subset DEF IssuedFor
      <3>4. IssuedFor(i)' = IF i = image THEN F \cup {P} ELSE F
        BY <1>1, <1>2 DEF IssuedFor
      <3>5. {p \in IssuedFor(i)' : p.reason = r} =
              IF i = image /\ r = reason THEN G \cup {P} ELSE G
        BY <1>2, <3>4
      <3>6. totalScans[i] = Cardinality(F) /\ scanCounts[i][r] = Cardinality(G)
        BY <2>1 DEF ScanLimitsHold
      <3>7. totalScans'[i] = IF i = image THEN totalScans[i] + 1 ELSE totalScans[i]
        BY <1>3, <2>1 DEF TypeOK
      <3>8. scanCounts'[i][r] = IF i = image /\ r = reason THEN scanCounts[i][r] + 1
                                ELSE scanCounts[i][r]
        BY <1>3, <2>1 DEF TypeOK
      <3>. HIDE DEF F, G
      <3>9. /\ Cardinality(F \cup {P}) = Cardinality(F) + 1
            /\ Cardinality(G \cup {P}) = Cardinality(G) + 1
        BY <3>3, FS_AddElement
      <3>10. QED BY <3>4, <3>5, <3>6, <3>7, <3>8, <3>9
    <2>3. QED BY <2>2 DEF ScanLimitsHold
  <1>9. ASSUME NEW i \in Image
        PROVE  /\ IsFiniteSet(PagesHeld(i)')
               /\ accountedPages'[i] = Cardinality(PagesHeld(i)')
    <2>1. /\ TypeOK /\ IsFiniteSet(PagesHeld(i))
          /\ accountedPages[i] = Cardinality(PagesHeld(i))
      BY DEF IInv, AllFinite, AccountingIsExact
    <2>2. CASE i # image
      <3>1. PagesHeld(i)' = PagesHeld(i) BY <1>2, <1>3, <2>2 DEF PagesHeld
      <3>2. accountedPages'[i] = accountedPages[i] BY <1>3, <2>1, <2>2 DEF TypeOK
      <3>3. QED BY <2>1, <3>1, <3>2
    <2>3. CASE i = image
      <3>. DEFINE H == PagesHeld(i)
                  N == PagesOf(P, Grant(image))
      <3>1. PagesHeld(i)' = H \cup N BY <1>2, <1>3, <2>3 DEF PagesHeld
      <3>2. H \cap N = {}
        <4>1. \A x \in N : x[1] = P.id BY DEF PagesOf
        <4>2. \A x \in H : x[1] # P.id BY <1>1 DEF PagesHeld, PagesOf, Issued
        <4>3. QED BY <4>1, <4>2
      <3>3. IsFiniteSet(N) /\ Cardinality(N) = Grant(image) BY <1>1, PagesOfCounted
      <3>4. accountedPages'[i] = accountedPages[i] + Grant(image)
        BY <1>3, <2>1, <2>3 DEF TypeOK
      <3>. HIDE DEF H, N
      <3>5. /\ IsFiniteSet(H) /\ accountedPages[i] = Cardinality(H) BY <2>1 DEF H
      <3>6. /\ IsFiniteSet(H \cup N)
            /\ Cardinality(H \cup N) = Cardinality(H) + Cardinality(N) - Cardinality({})
        BY <3>2, <3>3, <3>5, FS_Union
      <3>7. Cardinality(H) \in Nat BY <3>5, FS_CardinalityType
      <3>8. QED BY <1>1, <3>1, <3>3, <3>4, <3>5, <3>6, <3>7, FS_EmptySet
    <2>4. QED BY <2>2, <2>3
  <1>10. QED BY <1>4, <1>5, <1>6, <1>7, <1>8, <1>9 DEF IInv, AllFinite, AccountingIsExact

LEMMA CompleteKeepsIInv ==
  ASSUME IInv, NEW permit, NEW pages \in Nat, Complete(permit, pages)
  PROVE  IInv'
  <1>. DEFINE done == [permit |-> permit, pages |-> pages]
              image == permit.image
              back == permit.pages - pages
  <1>1. /\ permit \in reservations /\ permit \in Permit
        /\ image \in Image /\ permit.pages \in 0 .. MaxPagesPerScan
        /\ pages <= permit.pages
        /\ accountedPages[image] >= permit.pages
        /\ accountedPages' = [accountedPages EXCEPT ![image] = @ - back]
        /\ reservations' = reservations \ {permit}
        /\ settled' = settled \cup {done}
        /\ UNCHANGED << nextReservationId, scanCounts, totalScans >>
    BY DEF Complete, MayComplete, IInv, TypeOK, Permit
  <1>2. done.permit = permit /\ done.pages = pages OBVIOUS
  <1>3. /\ back \in Nat /\ back <= permit.pages /\ permit.pages \in Nat
    BY <1>1, PolicyAssumption
  <1>4. TypeOK'
    <2>1. TypeOK BY DEF IInv
    <2>2. accountedPages[image] - back \in 0 .. MaxPagesPerImage
      BY <1>1, <1>3, <2>1, PolicyAssumption DEF TypeOK
    <2>3. done \in [permit: Permit, pages: 0 .. MaxPagesPerScan]
      BY <1>1, PolicyAssumption
    <2>. HIDE DEF done, back, image
    <2>4. QED BY <1>1, <2>1, <2>2, <2>3 DEF TypeOK
  <1>. HIDE DEF done
  <1>5. Issued' = Issued
    <2>1. Issued' = (reservations \ {permit}) \cup {t.permit : t \in settled \cup {done}}
      BY <1>1 DEF Issued
    <2>2. QED BY <1>1, <1>2, <2>1 DEF Issued
  <1>6. IdsAreFresh' BY <1>1, <1>5 DEF IInv, IdsAreFresh
  <1>7. ReservationsAreUnique'
    BY <1>1, <1>2, <1>5 DEF IInv, ReservationsAreUnique
  <1>8. ScanLimitsHold'
    BY <1>1, <1>5 DEF IInv, ScanLimitsHold, IssuedFor
  <1>9. ASSUME NEW i \in Image
        PROVE  /\ IsFiniteSet(PagesHeld(i)')
               /\ accountedPages'[i] = Cardinality(PagesHeld(i)')
    <2>1. /\ TypeOK /\ IsFiniteSet(PagesHeld(i))
          /\ accountedPages[i] = Cardinality(PagesHeld(i))
      BY DEF IInv, AllFinite, AccountingIsExact
    <2>2. CASE i # image
      <3>1. PagesHeld(i)' = PagesHeld(i) BY <1>1, <1>2, <2>2 DEF PagesHeld
      <3>2. accountedPages'[i] = accountedPages[i] BY <1>1, <2>1, <2>2 DEF TypeOK
      <3>3. QED BY <2>1, <3>1, <3>2
    <2>3. CASE i = image
      <3>. DEFINE H == PagesHeld(i)
                  B == {permit.id} \X (pages + 1 .. permit.pages)
      <3>1. IsFiniteSet(B) /\ Cardinality(B) = back BY <1>1, <1>3, PagesCounted
      <3>2. PagesOf(permit, permit.pages) = PagesOf(permit, pages) \cup B
        BY <1>1, <1>3 DEF PagesOf
      <3>3. PagesOf(permit, pages) \cap B = {}
        BY <1>1, <1>3 DEF PagesOf
      <3>4. B \subseteq H BY <1>1, <2>3, <3>2 DEF PagesHeld
      <3>5. PagesHeld(i)' = H \ B
        <4>. DEFINE Others == (UNION {PagesOf(q, q.pages) :
                                q \in {r \in reservations \ {permit} : r.image = i}})
                              \cup
                              (UNION {PagesOf(t.permit, t.pages) :
                                t \in {u \in settled : u.permit.image = i}})
        <4>1. H = Others \cup PagesOf(permit, permit.pages)
          BY <1>1, <2>3 DEF PagesHeld
        <4>2. PagesHeld(i)' = Others \cup PagesOf(permit, pages)
          BY <1>1, <1>2, <2>3 DEF PagesHeld
        <4>3. \A x \in Others : x[1] # permit.id
          BY <1>1 DEF IInv, ReservationsAreUnique, Issued, PagesOf
        <4>4. \A x \in B : x[1] = permit.id OBVIOUS
        <4>. HIDE DEF Others, B, H
        <4>5. QED BY <3>2, <3>3, <4>1, <4>2, <4>3, <4>4
      <3>6. accountedPages'[i] = accountedPages[i] - back
        BY <1>1, <2>1, <2>3 DEF TypeOK
      <3>. HIDE DEF H, B, back
      <3>7. IsFiniteSet(H) /\ accountedPages[i] = Cardinality(H) BY <2>1 DEF H
      <3>8. H \cap B = B BY <3>4
      <3>9. /\ IsFiniteSet(H \ B)
            /\ Cardinality(H \ B) = Cardinality(H) - Cardinality(B)
        BY <3>7, <3>8, FS_Difference
      <3>10. QED BY <3>1, <3>5, <3>6, <3>7, <3>9
    <2>4. QED BY <2>2, <2>3
  <1>10. QED BY <1>4, <1>5, <1>6, <1>7, <1>8, <1>9
         DEF IInv, AllFinite, AccountingIsExact

LEMMA UnchangedKeepsIInv ==
  ASSUME IInv, UNCHANGED vars PROVE IInv'
  BY DEF vars, IInv, TypeOK, IdsAreFresh, AllFinite, ReservationsAreUnique,
         ScanLimitsHold, AccountingIsExact, Issued, IssuedFor, PagesHeld

LEMMA NextKeepsIInv ==
  ASSUME IInv, [Next]_vars PROVE IInv'
  <1>1. ASSUME NEW image \in Image \cup {NoImage}, NEW reason \in Reason,
               RequestScan(image, reason)
        PROVE  IInv'
    <2>1. CASE Issue(image, reason)
      <3>1. image \in Image BY <2>1 DEF Issue, MayScan
      <3>2. QED BY <2>1, <3>1, IssueKeepsIInv
    <2>2. CASE Refuse(image, reason) BY <2>2, UnchangedKeepsIInv DEF Refuse
    <2>3. QED BY <1>1, <2>1, <2>2 DEF RequestScan
  <1>2. ASSUME NEW permit \in Permit, NEW pages \in 0 .. MaxPagesPerScan + 1,
               CompleteScan(permit, pages)
        PROVE  IInv'
    <2>1. pages \in Nat BY PolicyAssumption
    <2>2. CASE Complete(permit, pages) BY <2>1, <2>2, CompleteKeepsIInv
    <2>3. CASE Reject(permit, pages) BY <2>3, UnchangedKeepsIInv DEF Reject
    <2>4. QED BY <1>2, <2>2, <2>3 DEF CompleteScan
  <1>3. QED BY <1>1, <1>2, UnchangedKeepsIInv DEF Next

(* The inductive invariant holds whatever requests and completions, honest *)
(* or not, the callers make.                                               *)
THEOREM Invariance == Spec => []IInv
  <1>1. Init => IInv BY InitIInv
  <1>2. IInv /\ [Next]_vars => IInv' BY NextKeepsIInv
  <1>3. QED BY <1>1, <1>2, PTL DEF Spec

(* The counters keep their types; in particular accounted_pages stays      *)
(* within max_pages_per_process_image and never underflows.                *)
THEOREM TypeCorrect == Spec => []TypeOK
  <1>1. IInv => TypeOK BY DEF IInv
  <1>2. QED BY <1>1, Invariance, PTL

(* No reservation id is ever given to two permits, the wrap of the id      *)
(* counter included, and no permit is completed twice.                     *)
THEOREM ReservationsStayUnique == Spec => []ReservationsAreUnique
  <1>1. IInv => ReservationsAreUnique BY DEF IInv
  <1>2. QED BY <1>1, Invariance, PTL

(* Scan counts are the permits issued, so the policy's limits bound them.  *)
THEOREM ScanLimitsAlwaysHold == Spec => []ScanLimitsHold
  <1>1. IInv => ScanLimitsHold BY DEF IInv
  <1>2. QED BY <1>1, Invariance, PTL

(* accounted_pages is the pages of open permits plus the pages completed   *)
(* scans attempted, in any order of requests and completions.              *)
THEOREM AccountingStaysExact == Spec => []AccountingIsExact
  <1>1. IInv => AccountingIsExact BY DEF IInv
  <1>2. QED BY <1>1, Invariance, PTL

(* The defensive accounting check in complete_scan never rejects a permit  *)
(* that is outstanding.                                                    *)
THEOREM CompletionAlwaysAccepted == Spec => []CompletionIsAccepted
  <1>1. IInv => CompletionIsAccepted BY OutstandingCovered
  <1>2. QED BY <1>1, Invariance, PTL

LEMMA NextIsRefundStep ==
  ASSUME IInv, [Next]_vars PROVE [RefundStep]_vars
  <1>1. ASSUME NEW image \in Image, NEW reason \in Reason, Issue(image, reason)
        PROVE  RefundStep
    <2>1. Grant(image) \in Nat BY <1>1, IssueAddsOne
    <2>2. accountedPages \in [Image -> 0 .. MaxPagesPerImage] BY DEF IInv, TypeOK
    <2>3. accountedPages' = [accountedPages EXCEPT ![image] = @ + Grant(image)]
      BY <1>1 DEF Issue
    <2>4. \A i \in Image : ~ (accountedPages'[i] < accountedPages[i])
      BY <2>1, <2>2, <2>3, PolicyAssumption
    <2>5. QED BY <2>4 DEF RefundStep
  <1>2. ASSUME NEW permit, NEW pages \in Nat, Complete(permit, pages)
        PROVE  RefundStep
    <2>1. /\ permit \in reservations /\ permit \notin reservations'
          /\ permit.image \in Image /\ permit.pages \in Nat /\ pages <= permit.pages
          /\ accountedPages' = [accountedPages EXCEPT ![permit.image] =
                                  @ - (permit.pages - pages)]
          /\ accountedPages \in [Image -> 0 .. MaxPagesPerImage]
      BY <1>2, PolicyAssumption DEF Complete, MayComplete, IInv, TypeOK, Permit
    <2>2. ASSUME NEW i \in Image, accountedPages'[i] < accountedPages[i]
          PROVE  permit.image = i /\ accountedPages[i] - accountedPages'[i] <= permit.pages
      <3>1. CASE i # permit.image
        <4>1. accountedPages'[i] = accountedPages[i] BY <2>1, <3>1
        <4>2. accountedPages[i] \in Nat BY <2>1, PolicyAssumption
        <4>3. QED BY <2>2, <4>1, <4>2
      <3>2. CASE i = permit.image
        <4>1. accountedPages'[i] = accountedPages[i] - (permit.pages - pages)
          BY <2>1, <3>2
        <4>2. accountedPages[i] \in Nat BY <2>1, PolicyAssumption
        <4>3. QED BY <2>1, <3>2, <4>1, <4>2
      <3>3. QED BY <3>1, <3>2
    <2>3. QED BY <2>1, <2>2 DEF RefundStep
  <1>3. ASSUME NEW image \in Image \cup {NoImage}, NEW reason \in Reason,
               RequestScan(image, reason)
        PROVE  [RefundStep]_vars
    BY <1>1, <1>3 DEF RequestScan, Refuse, Issue, MayScan
  <1>4. ASSUME NEW permit \in Permit, NEW pages \in 0 .. MaxPagesPerScan + 1,
               CompleteScan(permit, pages)
        PROVE  [RefundStep]_vars
    <2>1. pages \in Nat BY PolicyAssumption
    <2>2. QED BY <1>2, <1>4, <2>1 DEF CompleteScan, Reject
  <1>5. QED BY <1>3, <1>4 DEF Next

(* Pages come back only from the completion of an outstanding permit, and  *)
(* never more than it was granted.                                         *)
THEOREM RefundsAreEarned == Spec => OnlyCompletionRefunds
  <1>1. IInv /\ [Next]_vars => [RefundStep]_vars BY NextIsRefundStep
  <1>2. QED BY <1>1, Invariance, PTL DEF Spec, OnlyCompletionRefunds

-----------------------------------------------------------------------------
LEMMA InitRefines == Init => Budget!Init
  BY PolicyAssumption DEF Init, Budget!Init, Remaining

LEMMA GivenIsIssued == Budget!Given = Issued
  BY DEF Budget!Given, Issued

(* Issuing a permit is giving a promise that was never given before.       *)
LEMMA IssueRefines ==
  ASSUME IInv, NEW image \in Image, NEW reason \in Reason, Issue(image, reason)
  PROVE  Budget!Next
  <1>. DEFINE P == IssuedPermit(image, reason)
              left == [i \in Image |-> Remaining(i)]
  <1>1. P \in Permit /\ P \notin Issued /\ Grant(image) \in Nat
    BY IssueAddsOne
  <1>2. P.image = image /\ P.pages = Grant(image) BY DEF IssuedPermit
  <1>3. accountedPages \in [Image -> 0 .. MaxPagesPerImage] BY DEF IInv, TypeOK
  <1>4. Grant(image) > 0 /\ Grant(image) <= Remaining(image)
    BY <1>3, PolicyAssumption DEF Issue, MayScan, PolicyAllowsScans, Grant, Remaining
  <1>5. left' = [left EXCEPT ![image] = @ - Grant(image)]
    <2>1. ASSUME NEW i \in Image
          PROVE  left'[i] = [left EXCEPT ![image] = @ - Grant(image)][i]
      <3>1. accountedPages'[i] = IF i = image THEN accountedPages[i] + Grant(image)
                                 ELSE accountedPages[i]
        BY <1>3 DEF Issue
      <3>2. accountedPages[i] \in Nat BY <1>3, PolicyAssumption
      <3>3. QED BY <1>1, <3>1, <3>2, PolicyAssumption DEF Remaining
    <2>2. QED BY <2>1
  <1>6. reservations' = reservations \cup {P} /\ settled' = settled BY DEF Issue
  <1>7. Budget!Give(P) BY <1>2, <1>4, <1>5, <1>6 DEF Budget!Give
  <1>8. QED BY <1>1, <1>7, GivenIsIssued DEF Budget!Next

(* Completing a permit is settling an open promise.                        *)
LEMMA CompleteRefines ==
  ASSUME IInv, NEW permit, NEW pages \in Nat, Complete(permit, pages)
  PROVE  Budget!Next
  <1>. DEFINE left == [i \in Image |-> Remaining(i)]
              back == permit.pages - pages
  <1>1. /\ permit \in reservations /\ permit.image \in Image
        /\ permit.pages \in Nat /\ pages \in 0 .. permit.pages
        /\ accountedPages \in [Image -> 0 .. MaxPagesPerImage]
        /\ accountedPages' = [accountedPages EXCEPT ![permit.image] = @ - back]
    BY PolicyAssumption DEF Complete, MayComplete, IInv, TypeOK, Permit
  <1>2. left' = [left EXCEPT ![permit.image] = @ + back]
    <2>1. ASSUME NEW i \in Image
          PROVE  left'[i] = [left EXCEPT ![permit.image] = @ + back][i]
      <3>1. accountedPages'[i] = IF i = permit.image THEN accountedPages[i] - back
                                 ELSE accountedPages[i]
        BY <1>1
      <3>2. accountedPages[i] \in Nat BY <1>1, PolicyAssumption
      <3>3. QED BY <1>1, <3>1, <3>2, PolicyAssumption DEF Remaining
    <2>2. QED BY <2>1
  <1>3. /\ reservations' = reservations \ {permit}
        /\ settled' = settled \cup {[permit |-> permit, pages |-> pages]}
    BY DEF Complete
  <1>4. Budget!Settle(permit, pages) BY <1>2, <1>3 DEF Budget!Settle
  <1>5. QED BY <1>1, <1>4 DEF Budget!Next

LEMMA UnchangedRefines ==
  ASSUME UNCHANGED vars PROVE UNCHANGED Budget!vars
  BY DEF vars, Budget!vars, Remaining

LEMMA NextRefines ==
  ASSUME IInv, [Next]_vars PROVE [Budget!Next]_(Budget!vars)
  <1>1. ASSUME NEW image \in Image \cup {NoImage}, NEW reason \in Reason,
               RequestScan(image, reason)
        PROVE  Budget!Next \/ UNCHANGED Budget!vars
    <2>1. CASE Issue(image, reason)
      <3>1. image \in Image BY <2>1 DEF Issue, MayScan
      <3>2. QED BY <2>1, <3>1, IssueRefines
    <2>2. CASE Refuse(image, reason) BY <2>2, UnchangedRefines DEF Refuse
    <2>3. QED BY <1>1, <2>1, <2>2 DEF RequestScan
  <1>2. ASSUME NEW permit \in Permit, NEW pages \in 0 .. MaxPagesPerScan + 1,
               CompleteScan(permit, pages)
        PROVE  Budget!Next \/ UNCHANGED Budget!vars
    <2>1. pages \in Nat BY PolicyAssumption
    <2>2. CASE Complete(permit, pages) BY <2>1, <2>2, CompleteRefines
    <2>3. CASE Reject(permit, pages) BY <2>3, UnchangedRefines DEF Reject
    <2>4. QED BY <1>2, <2>2, <2>3 DEF CompleteScan
  <1>3. QED BY <1>1, <1>2, UnchangedRefines DEF Next

(* The coordinator implements the page budget, for every policy, any       *)
(* images and reasons, and callers that complete permits in any order,     *)
(* twice, or altered.                                                      *)
THEOREM BudgetImplemented == Spec => ImplementsBudget
  <1>1. Init => Budget!Init BY InitRefines
  <1>2. IInv /\ [Next]_vars => [Budget!Next]_(Budget!vars) BY NextRefines
  <1>3. QED BY <1>1, <1>2, Invariance, PTL DEF Spec, ImplementsBudget, Budget!Spec
=============================================================================
