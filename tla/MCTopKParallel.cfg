CONSTANTS
  Rows <- MCRows
  Better <- MCBetter
  Files <- MCFiles
  Bounds <- MCBounds
  MaxThreads = 3
  Unset = Unset
SPECIFICATION FairSpec
INVARIANTS
  TypeOK
  HeapsHoldBest
  CopiesSelected
PROPERTY CallEnds
