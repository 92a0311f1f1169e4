\* A service is started again while the other keeps the process alive.
SPECIFICATION Spec
CONSTANTS
  a = a  b = b
  Services = {a, b}
  Processes <- SoundOnly
  MaxStarts = 2
  MaxWaits = 0
  MaxRaises = 0
CHECK_DEADLOCK FALSE
INVARIANT NoHandleYet
