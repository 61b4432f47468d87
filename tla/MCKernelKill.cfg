CONSTANTS
  init = init
  k1 = k1
  u1 = u1
  u2 = u2
  u3 = u3
  idle = idle
  NULL = NULL
  Proc = {init, u1, u2}
  KThread = {init}
  Initproc = init
  Idle = idle
  Killable = {u1, u2}
  Sem = {}
  SemValue <- MCSemValue
  MaxSleep = 1
  MAX_TIME_SLICE = 1
  MAX_PROCESS = 4
SPECIFICATION FairSpec
PROPERTY KilledProcessExits
