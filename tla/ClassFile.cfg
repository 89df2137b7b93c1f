SPECIFICATION Spec
CONSTANTS
  Files <- MCFiles
  MaxDimensions = 2
INVARIANTS AcceptsWellFormed PoolAsWritten CallSitesListed NothingLeft
CHECK_DEADLOCK FALSE
