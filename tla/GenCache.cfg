\* Three processes and a library; one may be killed, one may fail to generate. They need not make calls for ever.
SPECIFICATION Spec
CONSTANTS
  p1 = p1  p2 = p2  p3 = p3  l1 = l1
  Procs = {p1, p2, p3}
  Libs = {l1}
  MaxCalls = 3
  Mortal = {p1}
  MayFail = {p2}
  Free = Free
INVARIANTS NeverHollow EnsureSucceeds
PROPERTY Returns
CHECK_DEADLOCK FALSE
