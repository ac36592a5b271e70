SPECIFICATION Spec
CONSTANTS
  e1 = e1  e2 = e2  b1 = b1  b2 = b2  w1 = w1
  Editor <- TwoEditors
  Blind <- None
  Cleaner <- None
  Worker <- OneWorker
  Reloader <- OneWorker
  MaxAttempts = 2
  ReadsFail = TRUE
  CacheAbsent = TRUE
  MaxEdits = 4
SYMMETRY EditorSymmetry
INVARIANTS CopiesAreCommitted HistoryIsAChain AcceptedSaveIsFresh NoLostUpdate LostOnlyUnderContention
PROPERTY ImplementsRegister
CHECK_DEADLOCK FALSE
