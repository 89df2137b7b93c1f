SPECIFICATION FairSpec
CONSTANTS
  t1 = t1
  t2 = t2
  Super = Super
  Sub = Sub
  Other = Other
  Broken = Broken
  Threads = {t1, t2}
  Classes = {Super, Sub, Other, Broken}
  Parents <- MCParents
  Clinit = {Super, Sub, Other}
  Uses <- MCUses
  Defective = {Broken}
  CallocFails = FALSE
INVARIANTS
  Owned
  ParentsFirst
PROPERTIES
  Advances
  InitializationEnds
