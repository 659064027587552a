SPECIFICATION Spec
CONSTANTS
  c1 = c1
  c2 = c2
  Managers = {"m1"}
  Exits = {"e1"}
  Plain = {"p1"}
  Closers <- MCClosers
  MaxStacks = 2
SYMMETRY Symmetry
INVARIANTS TypeOK Conservation LastInFirstOut ErrorsAccounted
CHECK_DEADLOCK FALSE
