SPECIFICATION Spec
CONSTANTS
  p1 = p1
  p2 = p2
  f1 = f1
  f2 = f2
  Forwards = {w1}
  Nodes = {n1, n2, n3}
  Plugins = {p1, p2}
  Funcs = {f1, f2}
  Owner <- MCOwner
  Public = {f1, f2}
  NULL = NULL
  Habits = {"AddInCall"}
  MaxDepth = 2
SYMMETRY NodeSymmetry
INVARIANTS WalkOK CallsSafe ManagedComplete
