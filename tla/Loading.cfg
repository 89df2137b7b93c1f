SPECIFICATION FairSpec
CONSTANTS
  Threads = {t1, t2}
  Loaders = {"boot", "app", "child"}
  Boot = "boot"
  Parent <- MCParent
  Names = {"A", "B"}
  Worlds <- MCWorlds
  MaxRequests = 2
  MaxDepth = 8
  MaxDims = 1
INVARIANT RecordsSound
PROPERTIES LookupRight CircularityJustified LookupsEnd
CHECK_DEADLOCK FALSE
