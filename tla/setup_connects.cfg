SPECIFICATION SurfSpec
CONSTANTS
  t1 = t1  t2 = t2  a1 = a1
  Tabs = {t1, t2}
  Users = {a1}
  MostSessions = 2
  MostVisits = 1
  MostLost = 1
SYMMETRY TabSymmetry
INVARIANT SetupConnects
CHECK_DEADLOCK FALSE
