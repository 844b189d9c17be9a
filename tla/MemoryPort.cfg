SPECIFICATION Spec
CONSTANTS
  Index = {0, 1}
  Bits = {0, 1}
  Sym = {"0", "a"}
  Priority = {0, 1}
  Conc <- MCConc
  FirstChunk = {0}
  Hookable = {1}
  Stimuli <- MCStimuli
  MaxQueue = 3
INVARIANTS Sorted Foreseen WrittenCovers ObserverExact
PROPERTIES Atomic CommitEnds
CHECK_DEADLOCK FALSE
