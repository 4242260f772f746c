SPECIFICATION ScenarioSpec
CONSTANTS
  p1 = p1  p2 = p2  p3 = p3  d1 = d1  w1 = w1  w2 = w2
  Passes = {p1, p2, p3}
  Students = {p1, p2, p3}
  Destinations = {d1}
  Workers = {w1, w2}
  StudentOf <- OwnStudent
  DestOf <- OneDestination
  Configs <- QueueOfOne
  Operations = {"request", "depart"}
  Decisions = {"allow"}
  ClaimTimeout = 1
  QueueTimeout = 2
  SlotEnds = {0, 1}
  MaxTime = 3
  MaxRevision = 3
  MaxInFlight = 1
  MaxCommandLag = 1
  MaxBatchLag = 1
  CrashesAllowed = TRUE
  Scenarios = {"departures", "replicas"}
SYMMETRY ReplicaSymmetry
INVARIANTS TypeOK RowsMatchState OffersCoherent CapacityExceptLateClaims
PROPERTIES NobodyPassedOver DeadlineInherited
