SPECIFICATION Spec
CONSTANTS
  Topics = {t1, t2}
  Hidden = hidden
  Retention = 6
  PollLimit = 2
  SnapshotLimit = 4
  MaxEvents = 4
  MaxFailures = 0
  FirstStart = FALSE
INVARIANTS
  NothingSkipped
CHECK_DEADLOCK FALSE
