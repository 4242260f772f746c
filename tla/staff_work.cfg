SPECIFICATION StaffWorkSpec
CONSTANTS
  me = me  pupil = pupil  north = north  south = south  algebra = algebra  clinic = clinic
  Me = me
  Pupil = pupil
  Schools = {north, south}
  Sections = {algebra}
  Stations = {clinic}
  SchoolOf <- TheSchoolOf
  MembershipFacts <- TheMemberships
  SectionFacts <- TheEnrolments
  GrantFacts <- TheGrants
  Methods = {"oidc", "recovery"}
  LastInstant = 2
  MostRetired = 1
  b1 = b1  s1 = s1  d1 = d1  c1 = c1  c2 = c2
  Bookings = {b1}
  Travellers = {s1}
  Places = {d1}
  TravellerOf <- OneTraveller
  PlaceOf <- OnePlace
  Windows <- TwoWindows
  Calls = {c1, c2}
  Connections = 2
  LastMinute = 1
  MostAttempts = 3
  Foci = {"rights", "scheduled"}
INVARIANTS RightsHaveReasons HintsAreEnforced
INVARIANT BookingMovesOnce
PROPERTY EveryCallEnds
