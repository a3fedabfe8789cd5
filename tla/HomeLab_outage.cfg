SPECIFICATION Spec
CONSTANTS
  Readers = {r1}
  Clients = {c1}
  Migrations = {m1}
  Providers = {"proxmox", "truenas"}
  CacheTime = 1
  ConfirmTime = 1
  MaxTime = 2
  MaxShifts = 1
PROPERTIES
  OutageIsMarkedStale
CHECK_DEADLOCK FALSE
