SPECIFICATION ScenarioSpec
CONSTANTS
  p1 = p1  p2 = p2  p3 = p3  d1 = d1  w1 = w1  w2 = w2
  Passes = {p1, p2}
  Students = {p1, p2}
  Destinations = {d1}
  Workers = {w1}
  StudentOf <- OwnStudent
  DestOf <- OneDestination
  Configs <- Edited
  Operations = {"request", "approval", "override_request", "override_resolve", "depart"}
  Decisions = {"allow", "deny", "approval_required", "override_required"}
  ClaimTimeout = 1
  QueueTimeout = 2
  SlotEnds = {0}
  MaxTime = 2
  MaxRevision = 5
  MaxInFlight = 1
  MaxCommandLag = 1
  MaxBatchLag = 1
  CrashesAllowed = FALSE
  Scenarios = {"worked", "administered"}
SYMMETRY PassSymmetry
INVARIANTS ArchivedHasNoMovement RefusedPassesAreQuiet
PROPERTY LifecycleRespected
