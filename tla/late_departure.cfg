SPECIFICATION Spec
CONSTANTS
  p1 = p1  p2 = p2  p3 = p3  d1 = d1  w1 = w1  w2 = w2
  Passes = {p1, p2, p3}
  Students = {p1, p2, p3}
  Destinations = {d1}
  Workers = {w1}
  StudentOf <- OwnStudent
  DestOf <- OneDestination
  Configs <- QueueOfOne
  Operations = {"request", "depart"}
  Decisions = {"allow"}
  ClaimTimeout = 1
  QueueTimeout = 3
  SlotEnds = {0}
  MaxTime = 4
  MaxRevision = 3
  MaxInFlight = 1
  MaxCommandLag = 1
  MaxBatchLag = 1
  CrashesAllowed = TRUE
SYMMETRY PassSymmetry
INVARIANT CapacityRespected
