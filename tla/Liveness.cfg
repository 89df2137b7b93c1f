SPECIFICATION FairSpec
CONSTANTS
  Main = main
  Nobody = nobody
  NoObject = noObject
  Threads = {main, t1, t2}
  Daemons = {t2}
  Objects = {lock}
  MaxTime = 0
  Delays = {0}
  MaxHold = 1
  MaxCalls = 1
  Ops = {"monitor", "wait", "notify", "start", "schedule"}
  RecordsSurvive = TRUE
INVARIANTS MonitorsSound HandOff
PROPERTIES RunnableIsRun LockNotAbandoned
