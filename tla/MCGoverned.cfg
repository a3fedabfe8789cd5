SPECIFICATION GovernedSpec
CONSTANTS
  Requests = {r1, r2}
  Devices = {"phone", "panel"}
  Entities = {"door", "lamp"}
  HighRisk = {"door"}
  Subjects <- Asking
  MaxReads = 2
  MaxCrashes = 1
  Orders = {o1}
  OrderKinds <- Ordering
  MaxRunners = 3
  MaxStops = 1
INVARIANTS
  TypesOK
  AuditExplains
  VerdictIsAuthoritative
  RouteDecides
PROPERTIES
  ContractSpec
  VehicleContract
  AllResolved
CHECK_DEADLOCK FALSE
