SPECIFICATION HSpec
CONSTANTS
  Cap = 5
  Node = Node
  Reference = Reference
  Classes = {Node, Reference}
  Locked = {Node, Reference}
  NRefs <- Nodes
  Roots = {r1, r2}
  r1 = r1
  r2 = r2
  arg = arg
  Handler = Handler
  Args = {arg}
  Hashes = {1}
  RootsFit = TRUE
INVARIANTS NoDangling SlideIsSafe NoFloatingGarbage
PROPERTY ImplementsJavaHeap
SYMMETRY RootSymmetry
