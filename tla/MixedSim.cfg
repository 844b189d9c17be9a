SPECIFICATION Spec
CONSTANTS
  Env <- MCEnv
  NULL = NULL
  Env0 = 1
  MaxCycles = 2
  Circuits <- MCAll
INVARIANTS TypeOK StableBitsHold GlitchesLeaked StableBitsPure ConcreteAgrees
CHECK_DEADLOCK FALSE
