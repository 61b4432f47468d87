CONSTANTS
  MAX_PID = 6
  MAX_PROCESS = 5
  Nil = Nil
  Bucket = {0, 1}
  pid_hashfn <- MCHash
SPECIFICATION TreeSpec
INVARIANT PidInv
INVARIANT ListsExact
PROPERTY ImplementsPidSpec
PROPERTY ImplementsFamilySpec
PROPERTY GetPidReturns
