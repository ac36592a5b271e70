SPECIFICATION FairSpec
CONSTANTS
  schema = schema  workflows = workflows  overview = overview
  None = None
  Tab <- TwoTabs
  Page <- OnePage
  Schema <- schema
  Validated <- Checked
  MaxEdits = 2
  MaxLoads = 1
INVARIANTS TypeOK KeepsItsKey NoEditVanishes DirtyIsScheduled
PROPERTIES NothingOverwritten EditsSettle
CHECK_DEADLOCK FALSE
