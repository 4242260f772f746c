SPECIFICATION SchoolDaySpec
CONSTANTS
  r1 = r1  r2 = r2  algebra = algebra  art = art  tom = tom  ann = ann
  Rules = {r1, r2}
  Versions <- TheVersions
  Sections = {algebra, art}
  Placements <- ThePlacements
  Staff = {tom, ann}
  SchoolTier = {ann}
  Teaches <- TheTeaches
  Sources = {"student_web", "preapproved"}
  LastTime = 2
  MostEdits = 3
  LastRevision = 6
  MostInFlight = 1
  Foci = {"one rule", "two rules", "unanswered"}
INVARIANTS PendingIsRequired
PROPERTY ClearedByPeople
CHECK_DEADLOCK FALSE
