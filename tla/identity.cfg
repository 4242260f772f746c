SPECIFICATION IdentitySpec
CONSTANTS
  a1 = a1  a2 = a2  s1 = s1  i1 = i1  i2 = i2  x1 = x1  x2 = x2  r1 = r1
  p1 = p1  p2 = p2  t1 = t1  t2 = t2  t3 = t3  t4 = t4
  Accounts = {a1, a2}
  Subjects = {s1}
  Invitations = {i1, i2}
  Attempts = {x1, x2}
  Callbacks = {t1, t2}
  Requests = {r1}
  AttemptLife = 1
  InvitationLife = 1
  IdleLife = 2
  AbsoluteLife = 3
  TouchWindow = 0
  LastMoment = 1
  MostRevisions = 1
  Codes = {i1, i2}
  Providers = {p1}
  Ceremonies = {x1, x2}
  Tasks = {t1, t2, t3, t4}
  CodeLife = 1
  CeremonyLife = 1
  LastHour = 1
  Tabs = {t1, t2}
  Users = {a1}
  MostSessions = 2
  MostVisits = 2
  MostLost = 1
  Foci = {"sign-in", "installation", "browser"}
SYMMETRY IdentitySymmetry
INVARIANTS SignInOnce InvitationLinksOnce SessionsFollowLinks LogoutAllIsFinal
INVARIANTS InstalledOnce TemporarySessionsEnd
INVARIANTS CommandsRunAsTold CommandsComeComplete RedirectsEnd
CHECK_DEADLOCK FALSE
