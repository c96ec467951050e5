CONSTANTS
  Rows <- MCRows
  Files <- MCFiles
  Bounds <- MCBounds
  Better <- MCBetter
  Unset = Unset
SPECIFICATION Spec
INVARIANTS
  TypeOK
  HoldsBest
PROPERTY SelectionSpec
