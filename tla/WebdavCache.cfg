SPECIFICATION Spec
CONSTANTS
  Readers = {r1, r2}
  Writer = w
  Name = {"b", "d"}
  None = None
  MaxVersion = 2
SYMMETRY Symmetry
INVARIANTS StatFresh OpenFresh
