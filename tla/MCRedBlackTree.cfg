CONSTANTS
  Keys = {1, 2, 3, 4, 5, 6, 7, 8}
  Sought = {4}
  Nil = Nil
  Null = Null
SPECIFICATION Spec
INVARIANTS
  TypeOK
  SearchTree
  RedBlack
  LoopInv
PROPERTIES
  OrderedSetSpec
  FixupsEnd
