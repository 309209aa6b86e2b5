SPECIFICATION Spec
CONSTANTS
  Files = {a, b}
  InDir = {a, b}
  Dir = dir
  Root = root
  Requests = {r1, r2}
  Nobody = nobody
  MaxVersion = 2
  MaxBroken = 1
SYMMETRY Symmetry
INVARIANTS NothingLost MoveDone OneName DeletedGone
