\* Two writers and a reader, any of which may be killed at any step; when all are dead the system has stopped.
SPECIFICATION Spec
CONSTANTS
  w1 = w1  w2 = w2  r1 = r1  r2 = r2
  Writers = {w1, w2}
  Readers = {r1}
  Mortal = {w1, w2, r1}
  MsgLens = {2, 5}
  MaxBytes = 5
  HolderMayStall = FALSE
  MallocMayFail = TRUE
  Size = 6
  Word = 1
  Free = Free
  Abandoned = Abandoned
SYMMETRY WriterSymmetry
INVARIANTS TypeOK MutualExclusion InBounds WholeChunks Ordered NothingLost
PROPERTY ImplementsLog
CHECK_DEADLOCK FALSE
