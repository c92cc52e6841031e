SPECIFICATION Spec
CONSTANTS
  b1 = b1 b2 = b2 s1 = s1 s2 = s2 t1 = t1 t2 = t2
  Builders = {b1, b2}
  Servers = {s1, s2}
  Targets = {t1, t2}
  Files <- TwoFiles
  Configured <- TwoConfigured
  None = None Absent = Absent Rotten = Rotten
  MaxSeeds = 2 MaxCrashes = 2 MaxRots = 1
INVARIANTS Inv BuiltFromOneCommit AnswersMatchTheCatalog
PROPERTIES PublishedStays
CHECK_DEADLOCK FALSE
