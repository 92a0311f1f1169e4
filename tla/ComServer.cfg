SPECIFICATION Spec
CONSTANTS
  Clients = {c1, c2}
  MaxUses = 2
PROPERTIES
  QuitWhenIdle
  NotBeforeServed
  Exits
CHECK_DEADLOCK FALSE
