SPECIFICATION Spec
CONSTANTS
  NULL = NULL
  Ptr = {p1, p2, p3, p4}
  Wires = {w1}
  KeepNext = {w1}
  Split = {w1}
  Index = {i1}
  HigherOrder = FALSE
SYMMETRY Symmetry
INVARIANTS NoDangling NoDoubleDelete MemoryDatabaseReadable IInv
PROPERTY RegistryIsExact
