SPECIFICATION ServicesSpec
CONSTANTS
  Versions = {1, 2, 3}
  Builds = {"b1"}
  MaxPublished = 3
  MaxFailures = 2
  MaxStates = 3
  MaxTroubles = 2
  Devices = {"d1", "d2"}
  Portable = {"d1"}
  Rooms = {"r1", "r2"}
  Assets = {"a1"}
  Turns = {"t1"}
  MaxUpsets = 2
  Lights = {"l1", "l2"}
  Texts <- Sayings
  RoomLights <- Curated
  Sessions = {"s1"}
  Requests = {q1, q2}
  MaxTurns = 3
  MaxCalls = 2
  MaxTalks = 3
  Readers = {"r1", "r2"}
  Clients = {"c1"}
  Migrations = {"m1"}
  Providers = {"proxmox"}
  CacheTime = 1
  ConfirmTime = 1
  MaxTime = 2
  MaxShifts = 1
SYMMETRY Alike
INVARIANTS
  TypesOK
  FocusFollows
  SpeechIsPrivate
  FollowUpGrounded
  LabHolds
  AlwaysBootable
PROPERTIES
  ActsOnceAndSaysSo
  UpgradesOnly
CHECK_DEADLOCK FALSE
