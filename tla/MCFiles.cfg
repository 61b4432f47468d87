CONSTANTS
  Proc = {init, u1, u2}
  Initproc = init
  File = {prog}
  Device = {stdin}
  Root = root
  Table = {t1, t2, t3, t4}
  FILES_STRUCT_NENTRY = 4
  MaxLost = 1
  NULL = NULL
SPECIFICATION Spec
INVARIANT CountsExact
INVARIANT TablesOwned
INVARIANT FileAssertsHold
SYMMETRY Symmetry
CHECK_DEADLOCK FALSE
