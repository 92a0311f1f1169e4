\* Two requests to an extension of one worker, with up to two reloads, or of two, with one.
SPECIFICATION FairSpec
CONSTANTS
  Requests = {r1, r2}
  Workers = {1, 2}
  r1 = r1  r2 = r2
  Troubles <- TroublesOfTwo
  Shutdown = Shutdown  Nobody = Nobody  Iis = Iis
  MaxReloads <- ReloadsOfTwo
INVARIANTS OwnIdentity OneAnswer NoOrphans
PROPERTIES Answered WorkersExit
CHECK_DEADLOCK FALSE
