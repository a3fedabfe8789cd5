SPECIFICATION FairSpec
CONSTANTS
  MaxCmd = 2
  MaxConn = 2
  JournalCap = 2
  Results = {"succeeded"}
  MaxLapses = 1
  MaxBreaks = 1
  MaxAgentCrashes = 0
  MaxCoreCrashes = 0
INVARIANTS
  SessionReachable
  NoCommandStranded
CHECK_DEADLOCK FALSE
