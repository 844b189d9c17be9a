SPECIFICATION Spec
CONSTANT Setups <- MCSelector
INVARIANT Covered
CHECK_DEADLOCK FALSE
