\* A faulty service alone, two sound services, and a sound one beside a faulty one; after the last start each is stopped for good.
SPECIFICATION FairSpec
CONSTANTS
  a = a  b = b
  Services = {a, b}
  Processes <- SmallProcesses
  MaxStarts = 2
  MaxWaits = 1
  MaxRaises = 1
CHECK_DEADLOCK FALSE
INVARIANTS NoZombie ControlsCurrent
PROPERTIES FollowsLifecycle StopsWhenAsked StartResolves
