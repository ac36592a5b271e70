SPECIFICATION Spec
CONSTANTS
  e1 = e1  e2 = e2  b1 = b1  b2 = b2  w1 = w1
  Editor <- OneEditor
  Blind <- OneBlind
  Cleaner <- None
  Worker <- None
  Reloader <- None
  MaxAttempts = 2
  ReadsFail = FALSE
  CacheAbsent = FALSE
  MaxEdits = 3
INVARIANT NoLostUpdate
CHECK_DEADLOCK FALSE
