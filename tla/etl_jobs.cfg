\* Two processes, a job with each of five settings, a flow that repeats the job.
CONSTANTS
  a = a
  Process = {p1, p2}
  FlowProcess = {p2}
  Job = {a}
  Key = {k1, k2}
  Loads <- EachSetting
  Flows <- Twice
  MaxStamp = 2
  MaxFaults = 1
SPECIFICATION FairSpec
INVARIANTS TypeOK NothingSkipped AppendedOnce
PROPERTIES NeverOlder CatchesUp
