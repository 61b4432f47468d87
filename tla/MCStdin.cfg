CONSTANTS
  Proc = {r1, r2, r3}
  Idle = idle
  MAX_TIME_SLICE = 1
  STDIN_BUFSIZE = 2
  MaxTyped = 4
  MaxRead = 2
SPECIFICATION FairSpec
INVARIANT ReaderAsleep
INVARIANT CharsOnce
PROPERTY InputReachesReader
