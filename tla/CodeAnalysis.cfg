SPECIFICATION Spec
CONSTANTS
  Methods <- MCMethods
  MaxSteps = 14
INVARIANTS VerdictRight RunsAsWritten SummaryHolds NoReferenceMissed GraphSound
PROPERTY StepsFollowEdges
CHECK_DEADLOCK FALSE
