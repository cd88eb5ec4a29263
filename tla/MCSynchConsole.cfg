CONSTANTS
  t1 = t1
  t2 = t2
  Thread = {t1, t2}
  Typed <- MCTyped
  MaxBytes = 2
  MaxCalls = 2
SPECIFICATION FairSpec
CHECK_DEADLOCK FALSE
INVARIANT ConsoleInv
INVARIANT LinesWhole
INVARIANT InputKept
PROPERTY ReadReturnsLine
PROPERTY ConsoleGoesOn
