SPECIFICATION FairCoreSpec
CONSTANTS
  Grants = {"g1", "g2"}
  Tickets = {"t1"}
  Sockets = {"s1", "s2"}
  MaxTokens = 2
  Legacy = TRUE
  Uploads = {"u1", "u2"}
  Processors = {"p1", "p2"}
  MaxWritten = 3
  MaxCrashes = 1
  Entities = {lamp}
  Named = {lamp}
  Hint = "hint"
  Other = "other"
  NoArea = "none"
  MaxChanges = 2
  MaxRestarts = 1
  Topics = {t1, t2}
  Hidden = hidden
  Retention = 3
  PollLimit = 2
  SnapshotLimit = 2
  MaxEvents = 4
  MaxFailures = 1
  FirstStart = FALSE
INVARIANTS
  TypesOK
  AdmissionIsCurrent
  ReadyIsConsistent
  RoomIsRegistered
  GapsAreTold
PROPERTIES
  StreamEnds
  ProcessingEnds
  CatalogueRecovers
  EventuallyUpToDate
CHECK_DEADLOCK FALSE
