\* Liveness by the events alone, with two readers, and a writer and a reader that may be killed.
SPECIFICATION FairSpec
CONSTANTS
  w1 = w1  w2 = w2  r1 = r1  r2 = r2
  Writers = {w1, w2}
  Readers = {r1, r2}
  Mortal = {w1, r1}
  MsgLens = {3}
  MaxBytes = 3
  HolderMayStall = FALSE
  MallocMayFail = FALSE
  Size = 6
  Word = 1
  Free = Free
  Abandoned = Abandoned
INVARIANT ReadOnce
PROPERTIES EventuallyRead WriteReturns
