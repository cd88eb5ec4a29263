CONSTANTS
  p1 = p1
  p2 = p2
  p3 = p3
  Proc = {p1, p2, p3}
  Main = p1
  NumPhysPages = 4
  PageSize = 2
  UserStackSize = 1
  HeaderSize = 40
  Program <- MCProgram
  StoreByte = {9}
  AccessSize = {2}
SPECIFICATION Spec
INVARIANT FramesInv
PROPERTY MemoryIsPrivate
