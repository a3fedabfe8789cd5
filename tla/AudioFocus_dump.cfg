SPECIFICATION Spec
CONSTANTS
  Sources = {"assistant", "airplay", "music"}
  Volumes = {2, 4}
  MaxChanges = 4
  MaxDumpFailures = 1
  MaxCallFailures = 0
  MaxRestarts = 0
INVARIANTS
  CanRestore
CHECK_DEADLOCK FALSE
