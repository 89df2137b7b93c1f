SPECIFICATION Spec
CONSTANTS
  Main = main
  Nobody = nobody
  NoObject = noObject
  Threads = {main, t1}
  Daemons = {}
  Objects = {t1}
  MaxTime = 2
  Delays = {0, 1}
  MaxHold = 2
  MaxCalls = 1
  Ops = {"monitor", "wait", "notify", "sleep", "park", "yield", "interrupt", "references", "start", "schedule", "join"}
  RecordsSurvive = FALSE
INVARIANTS TypeOK RunQueueSound
PROPERTIES WakesForACause ImplementsJavaMonitors
