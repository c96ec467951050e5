CONSTANTS
  Rows <- MCRows
  Better <- MCBetter
  Files <- MCFiles
  Bounds <- MCBounds
  MaxThreads = 2
  Unset = Unset
SPECIFICATION Spec
INVARIANT NoRowTwice
