SPECIFICATION Spec
CONSTANTS
  MaxCmd = 1
  MaxConn = 2
  JournalCap = 1
  Results = {"succeeded"}
  MaxLapses = 0
  MaxBreaks = 0
  MaxAgentCrashes = 1
  MaxCoreCrashes = 0
INVARIANTS
  ExecutedIsNotReplayed
CHECK_DEADLOCK FALSE
