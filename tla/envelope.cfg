SPECIFICATION DeliverySpec
CONSTANTS
  r1 = r1  r2 = r2  r3 = r3  k1 = k1  l1 = l1
  Requests = {r1, r2, r3}
  Keys = {k1}
  Locks = {l1}
  LockOf <- AllCollide
  Ttl = 1
  MaxTime = 1
  MostChanges = 3
  MostBreaks = 1
  Foci = {"envelope", "one page", "every page"}
INVARIANTS OncePerLifetime StoreNeverClashes SuccessIsAnEffect NoSpurious412  NeverSilentlyStale
PROPERTIES EveryRequestEnds ChangesAppear
CHECK_DEADLOCK FALSE
