CONSTANTS
  f1 = f1
  f2 = f2
  Name = {f1, f2}
  NumSlots = 4
  Data <- MCData
  Line <- MCLine
  Number <- MCNumber
  Count = {1, 2}
  MaxString = 4
  MaxNum = 9
  OutSize = 10
  MaxCalls <- MCMaxCalls
  NoFile = NoFile
SPECIFICATION Spec
SYMMETRY MCSymmetry
CHECK_DEADLOCK FALSE
INVARIANT DescriptorsInv
INVARIANT FilesAsWritten
INVARIANT ReadDelivers
INVARIANT NumbersExact
