CONSTANTS
  NPage = 3
  NoPage = NoPage
SPECIFICATION Spec
INVARIANT TotalIsNrFree
