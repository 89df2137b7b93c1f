CONSTANTS
  ScratchBytes = 64
  Worlds <- MCWorlds
SPECIFICATION Spec
INVARIANTS
  SelectionRight
  TablesConsistent
  InstanceofRight
  LayoutSound
  FailureReported
CHECK_DEADLOCK FALSE
