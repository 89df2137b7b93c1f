SPECIFICATION Spec
CONSTANTS
  Cap = 4
  Node = Node
  Reference = Reference
  Classes = {Node, Reference}
  Locked = {Node}
  NRefs <- Nodes
  Roots = {r1, r2}
  r1 = r1
  r2 = r2
  Handler = Handler
  Args = {arg}
  arg = arg
  Hashes = {1}
  RootsFit = FALSE
INVARIANT NoDangling
SYMMETRY RootSymmetry
