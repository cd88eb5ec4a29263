CONSTANTS
  ta = ta
  tb = tb
  Thread = {ta, tb}
  FirstThread = ta
  ByteBits = 2
  Reg = {0, 1, 2, 3, 31}
  PageSize = 8
  NumPhysPages = 4
  PageTable <- Tables
  Operand <- Operands
  CoreWord <- Core
  LastWord <- Every
  MaxSteps <- Steps
  Result = {7}
SPECIFICATION Spec
INVARIANT OrAsOnHardware
