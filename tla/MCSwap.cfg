\* Three frames for four pages, so that every fault of the fourth swaps. The client
\* counts its uses of pages 1 to 3, and "uses" page 5, which it does not have.
CONSTANTS
  NFrame = 3
  NPage = 4
  MAX_SWAP_OFFSET = 6
  UNUSED = 3
  NUSE = 6
  Used = {1, 2, 3, 5}
  Written = {4}
  Value = {a, b}
  Junk = a
  NULL = NULL
  HEAD = HEAD
SPECIFICATION FairSpec
INVARIANT ListExact
INVARIANT VictimPolicy
INVARIANT StopsOnly
PROPERTY ImplementsMemSpec
PROPERTY FaultEnds
\* A wild read or a search without end stops the kernel.
CHECK_DEADLOCK FALSE
