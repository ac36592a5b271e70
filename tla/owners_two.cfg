SPECIFICATION Spec
CONSTANTS
  s1 = s1  s2 = s2  m1 = m1  m2 = m2  x = x  y = y  ann = ann  bob = bob
  Record <- OneRecord
  User <- TwoUsers
  Single <- TwoSingles
  Bulk <- None
  MaxRequests = 3
  MaxFaults = 0
INVARIANT OneActiveRow
CHECK_DEADLOCK FALSE
