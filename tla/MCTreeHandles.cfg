CONSTANTS
  Objects <- MCObjects
  Keys = {1, 2, 3}
  Sentinels <- MCSentinels
  Null = Null
SPECIFICATION Spec
INVARIANTS
  TypeOK
  SentinelsOwned
  HomeIteratorEnds
