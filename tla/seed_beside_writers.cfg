SPECIFICATION Spec
CONSTANTS
  p1 = p1 p2 = p2 p3 = p3 p4 = p4 u1 = u1
  action = action puzzle = puzzle chess = chess doom = doom
  Seeders = {p1, p2}
  Writers = {p3, p4}
  Families <- TwoFamilies
  Wanted <- TwoWriters
  Stored <- HalfStored
INVARIANTS Inv
PROPERTIES ValidatedRowsStay EveryoneEnds
CHECK_DEADLOCK FALSE
