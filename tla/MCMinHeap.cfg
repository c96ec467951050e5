CONSTANTS
  Items <- MCItems4
  Less <- MCLess
  NoItem = NoItem
  MaxSize = 4
  CopyMayThrow = TRUE
SPECIFICATION FairSpec
INVARIANTS
  TypeOK
  Distinct
  HeapOrder
  LoopInv
  SwapBound
PROPERTIES
  PriorityQueueSpec
  OperationsReturn
