SPECIFICATION Spec
CONSTANTS
  Entities = {e1}
  Named = {e1}
  Hint = hint
  Other = other
  NoArea = none
  MaxChanges = 2
  MaxCrashes = 0
INVARIANTS
  HiddenStaysHidden
CHECK_DEADLOCK FALSE
