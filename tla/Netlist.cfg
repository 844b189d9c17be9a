SPECIFICATION Spec
CONSTANT Setups <- MCSetups
INVARIANTS Covered TransitionsCovered StructureFixed RootsExact
PROPERTY TrackingEnds
CHECK_DEADLOCK FALSE
