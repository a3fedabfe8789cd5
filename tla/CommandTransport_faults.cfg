SPECIFICATION FairSpec
CONSTANTS
  MaxCmd = 1
  MaxConn = 3
  JournalCap = 1
  Results = {"succeeded", "failed"}
  MaxLapses = 1
  MaxBreaks = 0
  MaxAgentCrashes = 1
  MaxCoreCrashes = 1
INVARIANTS
  TypeOK
  ExecutionBound
  ReportedIsRecorded
PROPERTIES
  ContractSpec
  EventuallyCompleted
  EventuallyAnnounced
CHECK_DEADLOCK FALSE
