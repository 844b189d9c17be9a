SPECIFICATION Spec
CONSTANTS
  Cpus <- AllCpus
  InitBound = 2
  RunBound = 7
  Layouts <- MCLayouts
  Masks <- MCMasks
  AtOnce = 1
  Asserts = TRUE
INVARIANTS NodesAgree TableMasked StatExact
PROPERTIES MeasureWindow Ends
CHECK_DEADLOCK FALSE
