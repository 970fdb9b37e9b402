CONSTANTS
  Image = {i1, i2}
  NoImage = NoImage
  MaxReservationId = 4
  MaxScansPerReason = 1
  MaxScansPerImage = 3
  MaxPagesPerScan = 3
  Maps <- MCMaps
  MaxObservations = 2
SPECIFICATION Spec
INVARIANTS NoReasonStarved PermitsAreSettled ScanHonoursPermit InitialInspectionOnce
SYMMETRY MCSymmetry
CHECK_DEADLOCK FALSE
