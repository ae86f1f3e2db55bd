CONSTANTS
  Callers = {c1, c2}
  Timer = Timer
  Handlers = {h1, h2}
  Nodes = {n1, n2, n3}
  NULL = NULL
  MaxDelay = 2
  MaxCalls = 3
SPECIFICATION Spec
INVARIANTS TypeOK NoneLost OnTime
PROPERTIES StaysRemoved
SYMMETRY Symmetry
