\* Two threads and the main thread print; the user may close the window and interrupt. They need not print for ever.
SPECIFICATION Spec
CONSTANTS
  t1 = t1  t2 = t2  main = main
  Others = {t1, t2}
  Main = main
  Flush = 2
  MaxWrites = 4
  MaxCloses = 1
  MaxInterrupts = 1
  CreateMayFail = TRUE
INVARIANTS NothingPrintedIsLost ShownInOrder
PROPERTY EventuallyShown
CHECK_DEADLOCK FALSE
