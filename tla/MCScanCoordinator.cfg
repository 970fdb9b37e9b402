CONSTANTS
  Image = {i1, i2}
  NoImage = NoImage
  Reason = {initial, boundary}
  MaxScansPerReason = 2
  MaxScansPerImage = 3
  MaxPagesPerScan = 2
  MaxPagesPerImage = 3
  MaxObservations = 1
  MaxReservationId = 4
SPECIFICATION Spec
INVARIANTS TypeOK ReservationsAreUnique ScanLimitsHold AccountingIsExact
PROPERTIES ImplementsBudget
SYMMETRY MCSymmetry
CHECK_DEADLOCK FALSE
