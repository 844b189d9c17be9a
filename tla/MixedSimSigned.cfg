SPECIFICATION Spec
CONSTANTS
  Env <- MCEnv
  NULL = NULL
  Env0 = 1
  MaxCycles = 1
  Circuits <- MCSigned
INVARIANT ConstantsAgree
CHECK_DEADLOCK FALSE
