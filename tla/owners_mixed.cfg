SPECIFICATION FairSpec
CONSTANTS
  s1 = s1  s2 = s2  m1 = m1  m2 = m2  x = x  y = y  ann = ann  bob = bob
  Record <- TwoRecords
  User <- TwoUsers
  Single <- OneSingle
  Bulk <- TwoBulks
  MaxRequests = 3
  MaxFaults = 1
INVARIANTS TypeOK ExtraOwnersHaveAReason UnownedHaveAReason ChecksAgree
PROPERTY RequestsEnd
CHECK_DEADLOCK FALSE
