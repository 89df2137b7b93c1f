SPECIFICATION Spec
CONSTANTS
  StackLimit = 6
  Insns <- MCInsns
  Shapes <- MCShapes
  MaxInsns = 2
  MaxGC = 1
INVARIANTS StackAgrees OperandsRight HandlerExists RootsCurrent
