CONSTANTS
  PageSize = 2
  OutCap = 2
  Zone = 0
  Preload <- MCPreload
  MaxSends = 1
  MaxLosses = 1
SPECIFICATION ChatSpec
INVARIANTS ChatTypeOK ShownOnce NothingMissing  HistoryIsComing AckIsComing
CHECK_DEADLOCK FALSE
