SPECIFICATION Spec
CONSTANT Setups <- MCFused
INVARIANT Covered
CHECK_DEADLOCK FALSE
