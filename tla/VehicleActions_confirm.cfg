SPECIFICATION Spec
CONSTANTS
  Requests = {r1}
  Offers <- MCRisky
  MaxRunners = 2
  MaxCrashes = 0
PROPERTIES
  ConfirmedOnce
CHECK_DEADLOCK FALSE
