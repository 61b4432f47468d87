CONSTANTS
  init = init
  k1 = k1
  u1 = u1
  u2 = u2
  u3 = u3
  idle = idle
  NULL = NULL
  Proc = {init, k1, u1, u2}
  KThread = {init, k1}
  Initproc = init
  Idle = idle
  Killable = {k1, u1, u2}
  Sem = {1}
  SemValue <- MCSemValue
  MaxSleep = 2
  MAX_TIME_SLICE = 1
  MAX_PROCESS = 5
SPECIFICATION Spec
SYMMETRY Users
INVARIANT AssertionsHold
INVARIANT RunQueueExact
INVARIANT SleeperHasWaker
INVARIANT SemAccounting
INVARIANT SleepCutShort
INVARIANT Lineage
INVARIANT InitprocLast
PROPERTY TimersKeepTime
INVARIANT IInv
