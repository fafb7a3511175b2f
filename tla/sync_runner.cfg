\* One category in depth: three entries of two entities on pages of two,
\* every launch, every failure, any number of crashes and restarts.
SPECIFICATION Spec
CONSTANTS
  c1 = c1
  c2 = c2
  e1 = e1
  e2 = e2
  Categories <- MCOneCategory
  Entities <- MCEntities
  MaxFeed = 3
  PageSize = 2
  MaxAttempts = 2
  Launches <- MCAllLaunches
SYMMETRY Symmetry
INVARIANTS
  TypeOK
  RowsMatchCursor
  TransactionHoldsPage
  InStep
  RecordedFailureVisible
PROPERTIES
  ShutdownKeepsFetchedPage
