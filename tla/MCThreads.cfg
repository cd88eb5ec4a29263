CONSTANTS
  main = main
  a = a
  b = b
  disk = disk
  mutex = mutex
  Thread = {main, a, b}
  MainThread = main
  NoThread = NoThread
  Sem = {disk, mutex}
  Device = {disk}
  InitialValue <- MCInitialValue
  TimerOn = TRUE
  MaxValue = 2
SPECIFICATION FairSpec
CHECK_DEADLOCK FALSE
INVARIANT TypeOK
INVARIANT ThreadPlacement
INVARIANT NoLostWakeup
INVARIANT CarcassSafe
PROPERTY FinishIsFinal
PROPERTY ReadyRuns
