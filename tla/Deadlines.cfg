SPECIFICATION FairSpec
CONSTANTS
  Main = main
  Nobody = nobody
  NoObject = noObject
  Threads = {main, t1}
  Daemons = {}
  Objects = {}
  MaxTime = 3
  Delays = {0, 1}
  MaxHold = 1
  MaxCalls = 1
  Ops = {"sleep", "park", "start", "schedule"}
  RecordsSurvive = TRUE
PROPERTIES DeadlineIsMet
