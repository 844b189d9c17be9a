SPECIFICATION Spec
CONSTANT Copies <- MCCopies
INVARIANTS Masked HookExact KeysExact
PROPERTIES ComputesAes
CHECK_DEADLOCK FALSE
