CONSTANTS
  SectorSize = 5
  NumSectors = 11
  NumDirEntries = 4
  NumDirect = 2
  NumFiles = 5
  f1 = f1
  f2 = f2
  f3 = f3
  Name = {f1, f2, f3}
  Size = {3, 7}
  Position = {3}
  Data <- WriteData
  MaxOps = 5
  MaxWriteOps = 3
SYMMETRY Symmetry
SPECIFICATION Spec
INVARIANT DiskInv
INVARIANT NeverFails
PROPERTY CrashLeaksNothing
PROPERTY ImplementsFlatFiles
