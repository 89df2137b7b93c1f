CONSTANTS
  ScratchBytes = 64
  Worlds <- Factories
SPECIFICATION Spec
INVARIANT ConstructorAsNamed
CHECK_DEADLOCK FALSE
