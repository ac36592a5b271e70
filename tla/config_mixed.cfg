SPECIFICATION FairSpec
CONSTANTS
  e1 = e1  e2 = e2  b1 = b1  b2 = b2  w1 = w1
  Editor <- OneEditor
  Blind <- OneBlind
  Cleaner <- OneCleaner
  Worker <- OneWorker
  Reloader <- None
  MaxAttempts = 2
  ReadsFail = TRUE
  CacheAbsent = FALSE
  MaxEdits = 3
INVARIANTS TypeOK LockedRowStands
PROPERTY CacheConverges
CHECK_DEADLOCK FALSE
