SPECIFICATION Spec
CONSTANTS
  u1 = u1 u2 = u2 g1 = g1 g2 = g2
  Users = {u1}
  Games = {g1, g2}
  Absent = Absent
  MaxRows = 3
  MaxEvents = 1
  MaxTime = 2
  MaxMigrations = 7
INVARIANTS Inv UpgradesSucceed
PROPERTIES MigrationsKeepHistory NobodyInheritsASession
CHECK_DEADLOCK FALSE
