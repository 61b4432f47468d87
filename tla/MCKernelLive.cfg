CONSTANTS
  init = init
  k1 = k1
  u1 = u1
  u2 = u2
  u3 = u3
  idle = idle
  NULL = NULL
  Proc = {init, k1, u1}
  KThread = {init, k1}
  Initproc = init
  Idle = idle
  Killable = {k1, u1}
  Sem = {1, 2}
  SemValue <- MCSemValue
  MaxSleep = 1
  MAX_TIME_SLICE = 1
  MAX_PROCESS = 4
SPECIFICATION FairSpec
PROPERTY RunnableRuns
PROPERTY LockGranted
PROPERTY OrphansReaped
PROPERTY SemaphoresFair
