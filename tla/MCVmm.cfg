\* 8 pages; 24 frames hold two processes of Apart with all of their stacks touched,
\* or one of Apart and one of Big; each exit of Apart loses a page table.
CONSTANTS
  p1 = p1  p2 = p2  new = new  null = null  d = d  z = z  w = w
  Proc = {p1, p2}
  First = p1
  New = new
  NULL = null
  NFrame = 24
  NENTRY = 2
  KSTACKPAGE = 2
  USTACKPAGE = 2
  NPreload = 1
  Program <- Programs
  Value = {d, z, w}
  Zero = z
  Junk = w
  Written = {d}
SPECIFICATION Spec
INVARIANT FramesExact
INVARIANT VmasExact
INVARIANT AssertsOnlyOnOverlap
PROPERTY LossOnlyWhenSpread
PROPERTY ImplementsMemSpec
\* Every process may exit; the kernel may stop.
CHECK_DEADLOCK FALSE
