CONSTANTS
  PageSize = 2
  OutCap = 2
  Zone = 2
  Preload <- MCSettled
  MaxSends = 1
  MaxLosses = 0
SPECIFICATION ChatSpec
INVARIANTS NoOverlap
CHECK_DEADLOCK FALSE
