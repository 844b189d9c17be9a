SPECIFICATION Spec
CONSTANTS
  Env <- MCEnv
  NULL = NULL
  Env0 = 1
  MaxCycles = 2
  Circuits <- MCSelectors
INVARIANT GlitchesLeaked
CHECK_DEADLOCK FALSE
