SPECIFICATION Spec
CONSTANTS
  File = {f1, f2}
  NBlock = 4
  SFS_NDIRECT = 1
  SFS_BLK_NENTRY = 3
  SFS_BLKSIZE = 2
  Position = {2, 5, 7}
INVARIANTS
  BlocksExact
  NoHoles
  BlockAssertsHold
SYMMETRY Symmetry
CHECK_DEADLOCK FALSE
