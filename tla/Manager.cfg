SPECIFICATION Spec
CONSTANTS
  Setups <- MCSetups
  Node <- MCNode
  ConstNode <- MCConst
  NULL = NULL
  Xor <- MCXor
  Secure <- MCSecure
  MaxLeaking = 10
INVARIANTS CacheSound ReportsExact CyclesAvailable EveryTupleAsked
PROPERTY ReportsKept
CHECK_DEADLOCK FALSE
