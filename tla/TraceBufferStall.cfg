\* A thread keeps the mutex for more than ten seconds.
SPECIFICATION Spec
CONSTANTS
  w1 = w1  w2 = w2  r1 = r1  r2 = r2
  Writers = {w1}
  Readers = {r1}
  Mortal = {}
  MsgLens = {2}
  MaxBytes = 2
  HolderMayStall = TRUE
  MallocMayFail = FALSE
  Size = 6
  Word = 1
  Free = Free
  Abandoned = Abandoned
INVARIANT MutualExclusion
