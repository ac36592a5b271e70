SPECIFICATION FairSpec
CONSTANTS
  N = 2
  Workflows <- Chosen
  MaxEntries = 3
  MaxSnaps = 3
  MaxRows = 4
INVARIANTS TypeOK EachEntryOnce StoredOnce OneParent SuccessMeansStored ReviewIsComplete
PROPERTIES NoOrphans SavingEnds
CHECK_DEADLOCK FALSE
