CONSTANTS
  NPage = 4
  NoPage = NoPage
SPECIFICATION Spec
INVARIANT FreeListExact
INVARIANT AllocAnswers
PROPERTY OperationsEnd
CONSTRAINT FirstDoubling
