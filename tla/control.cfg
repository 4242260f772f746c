SPECIFICATION ControlSpec
CONSTANTS
  b1 = b1  b2 = b2  m1 = m1  m2 = m2  q1 = q1
  a = a  b = b  d = d  k1 = k1  p1 = p1  g = g  r = r
  c1 = c1  c2 = c2  u1 = u1
  Blocks = {b1, b2}
  Templates = {m1, m2}
  LastDate = 1
  Seeds <- BothSeeds
  SlotLists <- FiveLists
  Cycles = {"A"}
  Meetings <- Algebra
  Moments = {0}
  UnrealTimes <- ClocksChange
  Editors = {c1, c2}
  Resolutions = {q1}
  MostEdits = 3
  Locations = {a, b, d}
  Categories = {k1}
  Places = {p1}
  Duties = {g}
  Rules = {r}
  Clerks = {c1, c2}
  Students = {u1}
  t1 = t1  t2 = t2
  Pages = {t1, t2}
  Openings <- EveryKind
  Edits = {c1, c2}
  MostSubmissions = 2
  MostLosses = 1
  Foci = {"placement", "schedule", "tree", "references", "pages"}
SYMMETRY ControlSymmetry
INVARIANTS CurrentDaysAreUsable OneEditNeverTears DangleOnlyLate CycleOnlyCrossed
INVARIANTS KeptCommandsAreSure AcceptedFormsShowAll
PROPERTY NoLostEdit
CHECK_DEADLOCK FALSE
