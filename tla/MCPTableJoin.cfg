CONSTANTS
  main = main
  t1 = t1
  t2 = t2
  t3 = t3
  p = p
  q = q
  r = r
  Thread = {main, t1, t2, t3}
  MainThread = main
  NoThread = NoThread
  NoPCB = NoPCB
  MaxProcess = 3
  MainName = main
  Program = {p, q, r}
  ExitCode = {0, 1}
  Garbage <- AnyGarbage
  Settings <- TwoChildren
SPECIFICATION Spec
INVARIANT JoinZeroMeansSuccess
