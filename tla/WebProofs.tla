----------------------------- MODULE WebProofs -----------------------------
(***************************************************************************)
(* Theorems about the tabs of a browser, for any tabs and users and any     *)
(* number of sessions, visits and losses.                                   *)
(*                                                                         *)
(* The routes come first: what each demands and what each page's requests    *)
(* carry are finite tables, and the lemmas read them off.  The invariant,    *)
(* BrowserOK, says of every tab what it may know of its session              *)
(* (StandingOK), how often it can still be redirected (HopsOK) and what the   *)
(* request it has under way carries and was answered (AskingOK).             *)
(***************************************************************************)
EXTENDS BrowserSession, TLAPS

RouteFields == {"op", "session", "csrf", "key", "match", "code"}

(* The routes of each kind, spelled out.                                    *)
LEMMA KindsOfRoutes ==
    ASSUME NEW ops
    PROVE  /\ \A r \in Public(ops) : /\ DOMAIN r = RouteFields
                                     /\ r.op \in ops /\ ~ r.session /\ ~ r.csrf /\ ~ r.key /\ ~ r.match
           /\ \A r \in Read(ops) : /\ DOMAIN r = RouteFields
                                   /\ r.op \in ops /\ r.session /\ ~ r.csrf /\ ~ r.key /\ ~ r.match
           /\ \A r \in Account(ops) : /\ DOMAIN r = RouteFields
                                      /\ r.op \in ops /\ r.session /\ r.csrf /\ ~ r.key /\ ~ r.match
           /\ \A r \in Create(ops) : /\ DOMAIN r = RouteFields
                                     /\ r.op \in ops /\ r.session /\ r.csrf /\ r.key /\ ~ r.match
           /\ \A r \in Change(ops) : /\ DOMAIN r = RouteFields
                                     /\ r.op \in ops /\ r.session /\ r.csrf /\ r.key /\ r.match
<1> USE DEF RouteFields
<1>1. \A r \in Public(ops) : /\ DOMAIN r = RouteFields
                             /\ r.op \in ops /\ ~ r.session /\ ~ r.csrf /\ ~ r.key /\ ~ r.match
  BY DEF Public, Nothing
<1>2. \A r \in Read(ops) : /\ DOMAIN r = RouteFields
                           /\ r.op \in ops /\ r.session /\ ~ r.csrf /\ ~ r.key /\ ~ r.match
  BY <1>1 DEF Read
<1>3. \A r \in Account(ops) : /\ DOMAIN r = RouteFields
                              /\ r.op \in ops /\ r.session /\ r.csrf /\ ~ r.key /\ ~ r.match
  BY <1>2 DEF Account
<1>4. \A r \in Create(ops) : /\ DOMAIN r = RouteFields
                             /\ r.op \in ops /\ r.session /\ r.csrf /\ r.key /\ ~ r.match
  BY <1>3 DEF Create
<1>5. \A r \in Change(ops) : /\ DOMAIN r = RouteFields
                             /\ r.op \in ops /\ r.session /\ r.csrf /\ r.key /\ r.match
  BY <1>4 DEF Change
<1> QED
  BY <1>1, <1>2, <1>3, <1>4, <1>5

(* And the ones that take a one-time code instead of a session.             *)
LEMMA CodesOnly ==
    ASSUME NEW ops, NEW scheme
    PROVE  \A r \in WithCode(ops, scheme) :
              /\ DOMAIN r = RouteFields
              /\ r.op \in ops /\ ~ r.session /\ ~ r.csrf /\ ~ r.key /\ ~ r.match
<1>1. \A r \in Public(ops) : /\ DOMAIN r = RouteFields
                             /\ r.op \in ops /\ ~ r.session /\ ~ r.csrf /\ ~ r.key /\ ~ r.match
  BY KindsOfRoutes
<1> QED
  BY <1>1 DEF WithCode, RouteFields

PublicOps == {"getBootstrapStatus", "getAuthSession", "completeOidcLogin", "consumeRecoveryGrant",
              "initializeBootstrap"}
AccountOps == {"logout", "logoutAll", "prepareSetupIdentityProvider"}
CreateOps == {"requestMyPass", "requestStudentPass", "createLocation", "createDestination",
              "issueAuthorizationGrant", "createDestinationCategory", "createPolicyRule",
              "createScheduledAuthorization", "issueIdentityEnrollment"}

(* Which of the routes ask for what. *)
LEMMA RoutesAsk ==
    \A r \in Routes :
       /\ DOMAIN r = RouteFields
       /\ r.op \in PublicOps => ~ r.csrf /\ ~ r.key /\ ~ r.match
       /\ r.op \in AccountOps => r.session /\ ~ r.key /\ ~ r.match
       /\ r.op = "getMe" => ~ r.csrf /\ ~ r.key /\ ~ r.match
       /\ r.op \in CreateOps => ~ r.match
<1> SUFFICES ASSUME NEW r \in Routes
             PROVE  /\ DOMAIN r = RouteFields
                    /\ r.op \in PublicOps => ~ r.csrf /\ ~ r.key /\ ~ r.match
                    /\ r.op \in AccountOps => r.session /\ ~ r.key /\ ~ r.match
                    /\ r.op = "getMe" => ~ r.csrf /\ ~ r.key /\ ~ r.match
                    /\ r.op \in CreateOps => ~ r.match
  OBVIOUS
<1> USE KindsOfRoutes DEF PublicOps, AccountOps, CreateOps
<1>1. CASE r \in SessionReads \cup SignInStarts \cup SignInCallback \cup SignOuts \cup RecoveryRoutes
  BY <1>1, CodesOnly DEF SessionReads, SignInStarts, SignInCallback, SignOuts, RecoveryRoutes
<1>2. CASE r \in BootstrapStarts \cup BootstrapSteps \cup SetupRoutes
  BY <1>2, CodesOnly DEF BootstrapStarts, BootstrapSteps, SetupRoutes
<1>3. CASE r \in PassRequests \cup ActivePassRead \cup PassCancellation \cup ApprovalRoutes
                   \cup OverrideRequests \cup OverrideRoutes
  BY <1>3 DEF PassRequests, ActivePassRead, PassCancellation, ApprovalRoutes, OverrideRequests,
              OverrideRoutes
<1>4. CASE r \in MovementRoutes \cup StationRoutes \cup MovementReads \cup LivePassReads \cup BookingStarts
  BY <1>4 DEF MovementRoutes, StationRoutes, MovementReads, LivePassReads, BookingStarts
<1>5. CASE r \in LocationRoutes \cup LocationChanges \cup DestinationRoutes \cup DestinationChanges
                   \cup MyDestinations \cup CategoryRoutes \cup CategoryChanges \cup CatalogRead
  BY <1>5 DEF LocationRoutes, LocationChanges, DestinationRoutes, DestinationChanges,
              MyDestinations, CategoryRoutes, CategoryChanges, CatalogRead
<1>6. CASE r \in ScheduleReads \cup BlockRoutes \cup TemplateRoutes \cup CalendarRoutes
                   \cup PolicyRoutes \cup PolicyChanges
  BY <1>6 DEF ScheduleReads, BlockRoutes, TemplateRoutes, CalendarRoutes, PolicyRoutes, PolicyChanges
<1>7. CASE r \in GrantRoutes \cup GrantChanges \cup InvitationRoutes \cup InvitationChanges
                   \cup BookingRoutes \cup BookingChanges
  BY <1>7 DEF GrantRoutes, GrantChanges, InvitationRoutes, InvitationChanges, BookingRoutes,
              BookingChanges
<1>8. CASE r \in PeopleReads \cup AuditRead \cup MeReads \cup EventStream \cup SystemReads \cup DemoRoutes
  BY <1>8 DEF PeopleReads, AuditRead, MeReads, EventStream, SystemReads, DemoRoutes
<1> QED
  BY <1>1, <1>2, <1>3, <1>4, <1>5, <1>6, <1>7, <1>8 DEF Routes

(* The kinds leave no operation out. *)
LEMMA KindsAreWhole ==
    ASSUME NEW ops, NEW op \in ops
    PROVE  /\ \E r \in Public(ops) : r.op = op
           /\ \E r \in Read(ops) : r.op = op
           /\ \E r \in Account(ops) : r.op = op
           /\ \E r \in Create(ops) : r.op = op
           /\ \A scheme : \E r \in WithCode(ops, scheme) : r.op = op
<1> DEFINE Fields == {"op", "session", "csrf", "key", "match", "code"}
<1>1. PICK public \in Public(ops) : DOMAIN public = Fields /\ public.op = op
  <2>1. [Nothing EXCEPT !.op = op] \in Public(ops)
    BY DEF Public
  <2>2. DOMAIN [Nothing EXCEPT !.op = op] = Fields /\ [Nothing EXCEPT !.op = op].op = op
    BY DEF Nothing
  <2> QED
    BY <2>1, <2>2
<1>2. PICK read \in Read(ops) : DOMAIN read = Fields /\ read.op = op
  <2>1. [public EXCEPT !.session = TRUE] \in Read(ops)
    BY <1>1 DEF Read
  <2> QED
    BY <1>1, <2>1
<1>3. PICK account \in Account(ops) : DOMAIN account = Fields /\ account.op = op
  <2>1. [read EXCEPT !.csrf = TRUE] \in Account(ops)
    BY <1>2 DEF Account
  <2> QED
    BY <1>2, <2>1
<1>4. PICK create \in Create(ops) : DOMAIN create = Fields /\ create.op = op
  <2>1. [account EXCEPT !.key = TRUE] \in Create(ops)
    BY <1>3 DEF Create
  <2> QED
    BY <1>3, <2>1
<1>5. ASSUME NEW scheme
      PROVE  \E r \in WithCode(ops, scheme) : r.op = op
  <2>1. [public EXCEPT !.code = scheme] \in WithCode(ops, scheme)
    BY <1>1 DEF WithCode
  <2> QED
    BY <1>1, <2>1
<1> QED
  BY <1>1, <1>2, <1>3, <1>4, <1>5

(* Every operation of the pages that the lemmas speak of has a route.       *)
LEMMA OpsHaveRoutes ==
    \A op \in PublicOps \cup AccountOps \cup CreateOps \cup {"getMe"} :
        RouteOf(op) \in Routes /\ RouteOf(op).op = op
<1>1. \A op \in PublicOps : \E r \in Routes : r.op = op
  <2>1. \E r \in BootstrapStarts : r.op = "getBootstrapStatus"
    BY KindsAreWhole DEF BootstrapStarts
  <2>2. \E r \in SessionReads : r.op = "getAuthSession"
    BY KindsAreWhole DEF SessionReads
  <2>3. \E r \in SignInCallback : r.op = "completeOidcLogin"
    BY KindsAreWhole DEF SignInCallback
  <2>4. \E r \in RecoveryRoutes : r.op = "consumeRecoveryGrant"
    BY KindsAreWhole DEF RecoveryRoutes
  <2>5. \E r \in BootstrapSteps : r.op = "initializeBootstrap"
    BY KindsAreWhole DEF BootstrapSteps
  <2> QED
    BY <2>1, <2>2, <2>3, <2>4, <2>5 DEF PublicOps, Routes
<1>2. \A op \in AccountOps : \E r \in Routes : r.op = op
  <2>1. \A op \in {"logout", "logoutAll"} : \E r \in SignOuts : r.op = op
    BY KindsAreWhole DEF SignOuts
  <2>2. \E r \in SetupRoutes : r.op = "prepareSetupIdentityProvider"
    BY KindsAreWhole DEF SetupRoutes
  <2> QED
    BY <2>1, <2>2 DEF AccountOps, Routes
<1>3. \A op \in CreateOps : \E r \in Routes : r.op = op
  <2>1. \A op \in {"requestMyPass", "requestStudentPass"} : \E r \in PassRequests : r.op = op
    BY KindsAreWhole DEF PassRequests
  <2>2. \E r \in LocationRoutes : r.op = "createLocation"
    BY KindsAreWhole DEF LocationRoutes
  <2>3. \E r \in DestinationRoutes : r.op = "createDestination"
    BY KindsAreWhole DEF DestinationRoutes
  <2>4. \E r \in GrantRoutes : r.op = "issueAuthorizationGrant"
    BY KindsAreWhole DEF GrantRoutes
  <2>5. \E r \in CategoryRoutes : r.op = "createDestinationCategory"
    BY KindsAreWhole DEF CategoryRoutes
  <2>6. \E r \in PolicyRoutes : r.op = "createPolicyRule"
    BY KindsAreWhole DEF PolicyRoutes
  <2>7. \E r \in BookingRoutes : r.op = "createScheduledAuthorization"
    BY KindsAreWhole DEF BookingRoutes
  <2>8. \E r \in InvitationRoutes : r.op = "issueIdentityEnrollment"
    BY KindsAreWhole DEF InvitationRoutes
  <2> QED
    BY <2>1, <2>2, <2>3, <2>4, <2>5, <2>6, <2>7, <2>8 DEF CreateOps, Routes
<1>4. \E r \in Routes : r.op = "getMe"
  <2>1. \E r \in SessionReads : r.op = "getMe"
    BY KindsAreWhole DEF SessionReads
  <2> QED
    BY <2>1 DEF Routes
<1> QED
  BY <1>1, <1>2, <1>3, <1>4 DEF RouteOf

(* The pages name no revision only with commands that make rows.            *)
LEMMA NewRowsNameNothing ==
    \A c \in SchoolCommands : c.key /\ (c.revision = "none" => c.op \in CreateOps)
BY DEF CreateOps, SchoolCommands, StudentCommands, StudentStarts, RequestsCommands, ClassCommands,
       MovementCommands, StationCommands, LocationCommands, DestinationListCommands,
       DestinationPageCommands, AssignedStaffCommands, CategoryCommands, PolicyListCommands,
       PolicyPageCommands, ScheduleCommands, ScheduledPassesCommands, StaffAccessCommands,
       PeopleCommands, Sends

(* So what the pages send with their commands suits the routes.             *)
LEMMA CommandsSuit ==
    \A c \in SchoolCommands : c.key /\ (RouteOf(c.op).match => c.revision # "none")
BY NewRowsNameNothing, RoutesAsk, OpsHaveRoutes

---------------------------------------------------------------------------
(* The invariant. *)

TabFields ==
    {"page", "to", "session", "asked", "token", "shows", "knows", "note", "hops", "request"}
Methods == {"oidc", "recovery", "setup"}
SessionRows == [account : Users, method : Methods, alive : BOOLEAN]
MethodIn(s, n) == IF n = 0 THEN "anonymous" ELSE s[n].method

(* What a tab remembers: the token is of the session it was told of, and    *)
(* without a school there is none.                                         *)
StandingOK(tb, s, i) ==
    /\ DOMAIN tb = TabFields
    /\ tb.to \in WebPages \cup {Rest}
    /\ tb.session \in Unread..Len(s)
    /\ tb.session # Unread => tb.token = tb.session
    /\ ~ i => tb.token = 0
    /\ tb.knows \in {"unknown", "yes", "no"} /\ (tb.knows = "yes" => i)
    /\ tb.to = Rest => /\ ShowsData(tb.page) => tb.session # Unread
                       /\ tb.page \in {"login", "access", "away"} => i

(* A page whose loader lets the tab arrive, unless it hears something new.  *)
Settles(tb, s) ==
    \/ tb.to = "setup" /\ tb.knows = "no"
    \/ /\ tb.session # Unread /\ tb.to \in WebPages \ {"setup"}
       /\ NextPage(tb.to, MethodIn(s, tb.session)) = tb.to
       /\ AsksBootstrap(tb.to) => tb.knows = "yes"
HopsOK(tb, s) ==
    /\ tb.hops \in 0..2
    /\ tb.to = Rest => tb.hops = 0
    /\ tb.hops = 1 => \/ Settles(tb, s) \/ tb.to = "start"
                      \/ tb.to = "login" /\ tb.session = 0
    /\ tb.hops = 2 => Settles(tb, s)

(* What the request under way carries, and what its answer says.            *)
AskingOK(tb, s, i) ==
    LET r == tb.request IN
    /\ r.state \in {"none", "sent", "answered"}
    /\ r.state = "none" => r = NoRequest
    /\ r.as # 0 => r.as = r.told
    /\ r.status \notin {400, 428}
    /\ r.state = "sent" =>
          /\ r.cookie \in 0..Len(s)
          /\ r.route.csrf => r.told = r.token
          /\ (r.route.key => r.has.key) /\ (r.route.match => r.has.match)
          /\ r.op = "prepareSetupIdentityProvider" => r.route.session
    /\ r.state # "none" =>
          /\ r.op = "getBootstrapStatus" => tb.knows = "unknown"
          /\ r.op = "getMe" => tb.session # Unread /\ (tb.to = Rest \/ ShowsData(tb.to))
          /\ r.op = "initializeBootstrap" => tb.to = Rest /\ tb.page = "setup"
          /\ r.op = "consumeRecoveryGrant" => tb.to = Rest /\ i
          /\ r.op = "completeOidcLogin" => i
    /\ r.state = "answered" =>
          /\ r.sets \in Unread..Len(s)
          /\ r.op = "getAuthSession" => r.body \in 0..Len(s)
          /\ (r.op = "getBootstrapStatus" /\ r.body = 1) => i
          /\ (r.op = "prepareSetupIdentityProvider" /\ r.status = 200) => i
          /\ (r.op = "initializeBootstrap" /\ r.status = 200) => tb.token = 0 /\ i

TabOK(tb, s, i) == StandingOK(tb, s, i) /\ HopsOK(tb, s) /\ AskingOK(tb, s, i)

BrowserOK ==
    /\ installed \in BOOLEAN
    /\ sessions \in Seq(SessionRows)
    /\ ~ installed => Len(sessions) = 0
    /\ jar \in 0..Len(sessions)
    /\ DOMAIN tab = Tabs
    /\ \A t \in Tabs : TabOK(tab[t], sessions, installed)

---------------------------------------------------------------------------
(* Tabs. *)

(* What a blank tab holds. *)
LEMMA BlankFields ==
    ASSUME NEW page
    PROVE  /\ DOMAIN Blank(page) = TabFields
           /\ Blank(page).page = Rest /\ Blank(page).to = page
           /\ Blank(page).session = Unread /\ Blank(page).token = 0
           /\ Blank(page).knows = "unknown" /\ Blank(page).hops = 0
           /\ Blank(page).request = NoRequest
BY DEF Blank, TabFields

(* And the idle request. *)
LEMMA IdleRequest ==
    NoRequest.state = "none" /\ NoRequest.as = 0 /\ NoRequest.status = 0
BY DEF NoRequest

(* A tab may always be opened or loaded anew.                              *)
LEMMA BlankOK ==
    ASSUME NEW s \in Seq(SessionRows), NEW i, NEW page \in WebPages, NEW shown,
           NEW tb, tb = Blank(page) \/ tb = [Blank(page) EXCEPT !.page = shown]
    PROVE  TabOK(tb, s, i)
<1>1. /\ DOMAIN tb = TabFields /\ tb.to = page /\ tb.session = Unread /\ tb.token = 0
      /\ tb.knows = "unknown" /\ tb.hops = 0 /\ tb.request = NoRequest
  BY BlankFields DEF TabFields
<1>2. page # Rest
  BY DEF WebPages, Rest
<1>3. Unread \in Unread..Len(s)
  BY DEF Unread
<1>4. StandingOK(tb, s, i)
  BY <1>1, <1>2, <1>3 DEF StandingOK
<1>5. HopsOK(tb, s)
  BY <1>1, <1>2 DEF HopsOK
<1>6. AskingOK(tb, s, i)
  BY <1>1, IdleRequest DEF AskingOK
<1> QED
  BY <1>4, <1>5, <1>6 DEF TabOK

(* A tab that is not open, and one that is at the provider.                *)
LEMMA ElsewhereOK ==
    ASSUME NEW s \in Seq(SessionRows), NEW i, NEW shown \in {Rest, "away"}, shown = "away" => i
    PROVE  TabOK([Blank(Rest) EXCEPT !.page = shown], s, i)
<1> DEFINE tb == [Blank(Rest) EXCEPT !.page = shown]
<1>1. /\ DOMAIN tb = TabFields /\ tb.to = Rest /\ tb.session = Unread /\ tb.token = 0
      /\ tb.knows = "unknown" /\ tb.hops = 0 /\ tb.request = NoRequest /\ tb.page = shown
  BY BlankFields DEF TabFields
<1> HIDE DEF tb
<1>2. shown \notin {"login", "access"} /\ ~ ShowsData(shown)
  BY DEF Rest, ShowsData
<1>3. Unread \in Unread..Len(s)
  BY DEF Unread
<1>4. StandingOK(tb, s, i)
  BY <1>1, <1>2, <1>3 DEF StandingOK
<1>5. HopsOK(tb, s)
  BY <1>1 DEF HopsOK
<1>6. AskingOK(tb, s, i)
  BY <1>1, IdleRequest DEF AskingOK
<1>7. TabOK(tb, s, i)
  BY <1>4, <1>5, <1>6 DEF TabOK
<1> QED
  BY <1>7 DEF tb

(* Asking leaves alone what the tab remembers.                             *)
LEMMA SentFields ==
    ASSUME NEW tb, DOMAIN tb = TabFields, NEW op, NEW route, NEW has
    PROVE  LET new == Sent(tb, op, route, has)
               r == new.request IN
           /\ DOMAIN new = TabFields
           /\ \A f \in TabFields \ {"request"} : new[f] = tb[f]
           /\ r.state = "sent" /\ r.op = op /\ r.route = route /\ r.has = has /\ r.cookie = jar
           /\ r.told = (IF route.csrf THEN tb.session ELSE 0)
           /\ r.token = (IF route.csrf THEN tb.token ELSE 0)
           /\ r.as = 0 /\ r.status = 0
<1> DEFINE r == [NoRequest EXCEPT !.state = "sent", !.op = op, !.route = route, !.has = has,
                                  !.cookie = jar,
                                  !.told = IF route.csrf THEN tb.session ELSE 0,
                                  !.token = IF route.csrf THEN tb.token ELSE 0]
<1>1. /\ r.state = "sent" /\ r.op = op /\ r.route = route /\ r.has = has /\ r.cookie = jar
      /\ r.told = (IF route.csrf THEN tb.session ELSE 0)
      /\ r.token = (IF route.csrf THEN tb.token ELSE 0)
      /\ r.as = 0 /\ r.status = 0
  BY DEF NoRequest
<1>2. Sent(tb, op, route, has) = [tb EXCEPT !.request = r]
  BY DEF Sent
<1> HIDE DEF r
<1> QED
  BY <1>1, <1>2 DEF TabFields

(* Tabs that differ in their request alone remember the same.              *)
LEMMA SameMemory ==
    ASSUME NEW tb, NEW new, NEW s, NEW i, DOMAIN tb = TabFields, DOMAIN new = TabFields,
           \A f \in {"page", "to", "session", "token", "knows", "hops"} : new[f] = tb[f]
    PROVE  /\ StandingOK(tb, s, i) <=> StandingOK(new, s, i)
           /\ HopsOK(tb, s) <=> HopsOK(new, s)
<1>1. /\ new.page = tb.page /\ new.to = tb.to /\ new.session = tb.session
      /\ new.token = tb.token /\ new.knows = tb.knows /\ new.hops = tb.hops
  OBVIOUS
<1>2. Settles(tb, s) <=> Settles(new, s)
  BY <1>1 DEF Settles
<1> QED
  BY <1>1, <1>2 DEF StandingOK, HopsOK

(* A request that suits its route may be sent.                             *)
LEMMA SentOK ==
    ASSUME NEW tb, NEW s, NEW i, StandingOK(tb, s, i), HopsOK(tb, s), jar \in 0..Len(s),
           NEW op, NEW route, NEW has,
           route.csrf => tb.session # Unread,
           (route.key => has.key) /\ (route.match => has.match),
           op = "prepareSetupIdentityProvider" => route.session,
           op = "getBootstrapStatus" => tb.knows = "unknown",
           op = "getMe" => tb.session # Unread /\ (tb.to = Rest \/ ShowsData(tb.to)),
           op = "initializeBootstrap" => tb.to = Rest /\ tb.page = "setup",
           op = "consumeRecoveryGrant" => tb.to = Rest /\ i,
           op = "completeOidcLogin" => i
    PROVE  TabOK(Sent(tb, op, route, has), s, i)
<1> DEFINE new == Sent(tb, op, route, has)
           r == new.request
<1>1. DOMAIN tb = TabFields
  BY DEF StandingOK
<1>2. /\ DOMAIN new = TabFields
      /\ \A f \in TabFields \ {"request"} : new[f] = tb[f]
      /\ r.state = "sent" /\ r.op = op /\ r.route = route /\ r.has = has /\ r.cookie = jar
      /\ r.told = (IF route.csrf THEN tb.session ELSE 0)
      /\ r.token = (IF route.csrf THEN tb.token ELSE 0)
      /\ r.as = 0 /\ r.status = 0
  BY <1>1, SentFields
<1> HIDE DEF new
<1>3. /\ new.page = tb.page /\ new.to = tb.to /\ new.session = tb.session
      /\ new.token = tb.token /\ new.knows = tb.knows /\ new.hops = tb.hops
  BY <1>2 DEF TabFields
<1>4. StandingOK(new, s, i) /\ HopsOK(new, s)
  BY <1>1, <1>2, <1>3, SameMemory
<1>5. r.told = r.token
  BY <1>2 DEF StandingOK
<1>6. AskingOK(new, s, i)
  BY <1>2, <1>3, <1>5 DEF AskingOK
<1>7. TabOK(new, s, i)
  BY <1>4, <1>6 DEF TabOK
<1> QED
  BY <1>7 DEF new

(* So may the requests that have no body of their own.                     *)
LEMMA AskOK ==
    ASSUME NEW tb, NEW s, NEW i, StandingOK(tb, s, i), HopsOK(tb, s), jar \in 0..Len(s),
           NEW op \in PublicOps \cup AccountOps \cup {"getMe"},
           op \notin PublicOps => tb.session # Unread,
           op = "getBootstrapStatus" => tb.knows = "unknown",
           op = "getMe" => tb.to = Rest \/ ShowsData(tb.to),
           op = "initializeBootstrap" => tb.to = Rest /\ tb.page = "setup",
           op = "consumeRecoveryGrant" => tb.to = Rest /\ i,
           op = "completeOidcLogin" => i
    PROVE  TabOK(Ask(tb, op), s, i)
<1> DEFINE route == RouteOf(op)
           has == Carries(Bare(op, route.code))
<1>1. route \in Routes /\ route.op = op
  BY OpsHaveRoutes
<1> HIDE DEF route, has
<1>2. /\ op \in PublicOps => ~ route.csrf
      /\ ~ route.key /\ ~ route.match
      /\ op \in AccountOps => route.session
  BY <1>1, RoutesAsk
<1>3. "getMe" \notin PublicOps /\ "prepareSetupIdentityProvider" \in AccountOps
  BY DEF PublicOps, AccountOps
<1>4. TabOK(Sent(tb, op, route, has), s, i)
  BY <1>2, <1>3, SentOK
<1> QED
  BY <1>4 DEF Ask, route, has

(* A tab that asks nothing carries nothing.                                *)
LEMMA IdleOK ==
    ASSUME NEW tb, NEW s, NEW i, tb.request = NoRequest
    PROVE  AskingOK(tb, s, i)
BY IdleRequest DEF AskingOK

(* Where the loaders lead: every page but the first page of the wizard is   *)
(* left at most twice for another.                                         *)
LEMMA LoadersLead ==
    ASSUME NEW page \in WebPages \ {"setup"}, NEW m \in Methods \cup {"anonymous"}
    PROVE  LET next == NextPage(page, m) IN
           /\ next \in WebPages \ {"setup"}
           /\ \/ next \in {page, "start"} \/ (next = "login" /\ m = "anonymous")
              \/ NextPage(next, m) = next /\ (AsksBootstrap(next) => AsksBootstrap(page))
           /\ page = "start" => NextPage(next, m) = next
           /\ (page = "login" /\ m = "anonymous") => next = "login"
<1>1. \A q \in WebPages \ {"setup"} :
         q \in {"start", "connect", "access", "login", "school", "recovery"}
  BY DEF WebPages
<1>2. /\ NextPage("start", m) = StartNext(m) /\ NextPage("connect", m) = ConnectNext(m)
      /\ NextPage("access", m) = AccessNext(m) /\ NextPage("login", m) = LoginNext(m)
      /\ NextPage("school", m) = SchoolNext(m) /\ NextPage("recovery", m) = RecoveryNext(m)
  BY DEF NextPage
<1> USE <1>2 DEF Methods, WebPages, AsksBootstrap, StartNext, ConnectNext, AccessNext, LoginNext,
                 SchoolNext, RecoveryNext
<1>3. CASE page = "start"
  BY <1>3
<1>4. CASE page = "connect"
  BY <1>4
<1>5. CASE page = "access"
  BY <1>5
<1>6. CASE page = "login"
  BY <1>6
<1>7. CASE page = "school"
  BY <1>7
<1>8. CASE page = "recovery"
  BY <1>8
<1> QED
  BY <1>1, <1>3, <1>4, <1>5, <1>6, <1>7, <1>8

(* Sessions have one of the three methods, and no session is anonymous.     *)
LEMMA MethodsKnown ==
    ASSUME NEW s \in Seq(SessionRows), NEW n \in 0..Len(s)
    PROVE  /\ MethodIn(s, n) \in Methods \cup {"anonymous"}
           /\ MethodIn(s, n) = "anonymous" <=> n = 0
<1>1. CASE n = 0
  BY <1>1 DEF MethodIn
<1>2. CASE n # 0
  <2>1. s[n] \in SessionRows
    BY <1>2
  <2>2. s[n].method \in Methods
    BY <2>1 DEF SessionRows
  <2> QED
    BY <1>2, <2>2 DEF MethodIn, Methods
<1> QED
  BY <1>1, <1>2

(* A tab arrives. *)
LEMMA ArrivedOK ==
    ASSUME NEW tb, NEW s, NEW i, StandingOK(tb, s, i), tb.request = NoRequest, tb.to # Rest,
           ShowsData(tb.to) => tb.session # Unread, tb.to \in {"login", "access"} => i
    PROVE  TabOK(Arrived(tb), s, i)
<1> DEFINE new == Arrived(tb)
<1>1. DOMAIN tb = TabFields
  BY DEF StandingOK
<1>2. /\ DOMAIN new = TabFields /\ new.page = tb.to /\ new.to = Rest /\ new.hops = 0
      /\ new.session = tb.session /\ new.token = tb.token /\ new.knows = tb.knows
      /\ new.request = tb.request
  BY <1>1 DEF Arrived, TabFields
<1> HIDE DEF new
<1>3. tb.to # "away"
  BY DEF StandingOK, WebPages, Rest
<1>4. StandingOK(new, s, i)
  BY <1>2, <1>3 DEF StandingOK
<1>5. HopsOK(new, s)
  BY <1>2 DEF HopsOK
<1>6. TabOK(new, s, i)
  BY <1>2, <1>4, <1>5, IdleOK DEF TabOK
<1> QED
  BY <1>6 DEF new

(* A loader that fails shows an error.                                     *)
LEMMA FailedOK ==
    ASSUME NEW tb, NEW s, NEW i, StandingOK(tb, s, i), HopsOK(tb, s), tb.request = NoRequest
    PROVE  TabOK(Failed(tb), s, i)
<1>1. CASE tb.to = Rest
  BY <1>1, IdleOK DEF Failed, TabOK
<1>2. CASE tb.to # Rest
  <2> DEFINE new == [Arrived(tb) EXCEPT !.page = "error"]
  <2>1. DOMAIN tb = TabFields
    BY DEF StandingOK
  <2>2. /\ DOMAIN new = TabFields /\ new.page = "error" /\ new.to = Rest /\ new.hops = 0
        /\ new.session = tb.session /\ new.token = tb.token /\ new.knows = tb.knows
        /\ new.request = tb.request
    BY <2>1 DEF Arrived, TabFields
  <2> HIDE DEF new
  <2>3. StandingOK(new, s, i)
    BY <2>2 DEF StandingOK, ShowsData
  <2>4. HopsOK(new, s)
    BY <2>2 DEF HopsOK
  <2>5. TabOK(new, s, i)
    BY <2>2, <2>3, <2>4, IdleOK DEF TabOK
  <2> QED
    BY <1>2, <2>5 DEF Failed, new
<1> QED
  BY <1>1, <1>2

(* A tab is redirected: once to where it may be redirected once more, or to *)
(* where it settles.                                                       *)
LEMMA RedirectedOK ==
    ASSUME NEW tb, NEW s, NEW i, StandingOK(tb, s, i), HopsOK(tb, s), tb.request = NoRequest,
           NEW page \in WebPages, tb.hops \in {0, 1},
           LET new == Redirected(tb, page) IN
             \/ Settles(new, s)
             \/ tb.hops = 0 /\ (page = "start" \/ (page = "login" /\ tb.session = 0))
    PROVE  TabOK(Redirected(tb, page), s, i)
<1> DEFINE new == Redirected(tb, page)
<1>1. DOMAIN tb = TabFields
  BY DEF StandingOK
<1>2. /\ DOMAIN new = TabFields /\ new.page = tb.page /\ new.to = page /\ new.hops = tb.hops + 1
      /\ new.session = tb.session /\ new.token = tb.token /\ new.knows = tb.knows
      /\ new.request = tb.request
  BY <1>1 DEF Redirected, TabFields
<1>3. Settles(new, s) \/ (tb.hops = 0 /\ (page = "start" \/ (page = "login" /\ tb.session = 0)))
  OBVIOUS
<1> HIDE DEF new
<1>4. page # Rest
  BY DEF WebPages, Rest
<1>5. StandingOK(new, s, i)
  BY <1>2, <1>4 DEF StandingOK
<1>6. HopsOK(new, s)
  BY <1>2, <1>3, <1>4 DEF HopsOK
<1>7. TabOK(new, s, i)
  BY <1>2, <1>5, <1>6, IdleOK DEF TabOK
<1> QED
  BY <1>7 DEF new

---------------------------------------------------------------------------
(* The steps of a tab. *)

(* A step of one tab keeps the invariant if the tab stays sound.           *)
LEMMA OneTabSteps ==
    ASSUME BrowserOK, NEW t \in Tabs, UNCHANGED <<installed, sessions>>,
           DOMAIN tab' = Tabs, \A u \in Tabs \ {t} : tab'[u] = tab[u],
           TabOK(tab'[t], sessions, installed), jar' \in 0..Len(sessions)
    PROVE  BrowserOK'
<1>1. \A u \in Tabs : TabOK(tab'[u], sessions, installed)
  BY DEF BrowserOK
<1>2. installed' = installed /\ sessions' = sessions
  OBVIOUS
<1>3. \A u \in Tabs : TabOK(tab'[u], sessions', installed')
  BY <1>1, <1>2
<1> QED
  BY <1>2, <1>3 DEF BrowserOK

(* What Put does. *)
LEMMA PutTab ==
    ASSUME DOMAIN tab = Tabs, NEW t \in Tabs, NEW record, Put(t, record)
    PROVE  DOMAIN tab' = Tabs /\ tab'[t] = record /\ \A u \in Tabs \ {t} : tab'[u] = tab[u]
BY DEF Put

(* What is known of a tab.                                                 *)
LEMMA TabKnown ==
    ASSUME BrowserOK, NEW t \in Tabs
    PROVE  /\ DOMAIN tab = Tabs /\ jar \in 0..Len(sessions) /\ sessions \in Seq(SessionRows)
           /\ StandingOK(tab[t], sessions, installed) /\ HopsOK(tab[t], sessions)
           /\ AskingOK(tab[t], sessions, installed) /\ DOMAIN tab[t] = TabFields
BY DEF BrowserOK, TabOK, StandingOK

(* Loading a page keeps the invariant, bootstrap first ... *)
LEMMA LoadBootstrapKeeps ==
    ASSUME BrowserOK, NEW t \in Tabs, LoadBootstrap(t)
    PROVE  BrowserOK'
<1> DEFINE tb == tab[t]
<1>1. /\ DOMAIN tab = Tabs /\ jar \in 0..Len(sessions) /\ sessions \in Seq(SessionRows)
      /\ StandingOK(tb, sessions, installed) /\ HopsOK(tb, sessions)
      /\ AskingOK(tb, sessions, installed) /\ DOMAIN tb = TabFields
  BY TabKnown
<1>2. tb.request = NoRequest /\ tb.to # Rest /\ AsksBootstrap(tb.to)
  BY <1>1 DEF LoadBootstrap, Quiet, AskingOK
<1>3. PICK new :
         /\ Put(t, new)
         /\ \/ tb.knows = "unknown" /\ new = Ask(tb, "getBootstrapStatus")
            \/ tb.knows = "no" /\ tb.to = "setup" /\ new = Arrived(tb)
            \/ tb.knows = "no" /\ tb.to # "setup" /\ new = Redirected(tb, "setup")
            \/ tb.knows = "yes" /\ tb.to = "setup" /\ new = Redirected(tb, "start")
  BY DEF LoadBootstrap
<1>4. UNCHANGED <<installed, sessions, jar>>
  BY DEF LoadBootstrap
<1> HIDE DEF tb
<1>5. TabOK(new, sessions, installed)
  <2>1. CASE tb.knows = "unknown" /\ new = Ask(tb, "getBootstrapStatus")
    <3>1. "getBootstrapStatus" \in PublicOps
      BY DEF PublicOps
    <3> QED
      BY <1>1, <2>1, <3>1, AskOK
  <2>2. CASE tb.knows = "no" /\ tb.to = "setup" /\ new = Arrived(tb)
    BY <1>1, <1>2, <2>2, ArrivedOK DEF ShowsData
  <2>3. CASE tb.knows = "no" /\ tb.to # "setup" /\ new = Redirected(tb, "setup")
    <3>1. tb.hops \in {0, 1}
      BY <1>1, <1>2, <2>3 DEF HopsOK, Settles
    <3>2. new.to = "setup" /\ new.knows = "no"
      BY <1>1, <2>3 DEF Redirected, TabFields
    <3>3. Settles(new, sessions) /\ "setup" \in WebPages
      BY <3>2 DEF Settles, WebPages
    <3> QED
      BY <1>1, <1>2, <2>3, <3>1, <3>3, RedirectedOK
  <2>4. CASE tb.knows = "yes" /\ tb.to = "setup" /\ new = Redirected(tb, "start")
    <3>1. tb.hops = 0 /\ "start" \in WebPages
      BY <1>1, <2>4 DEF HopsOK, Settles, WebPages
    <3> QED
      BY <1>1, <1>2, <2>4, <3>1, RedirectedOK
  <2> QED
    BY <1>3, <2>1, <2>2, <2>3, <2>4
<1>6. DOMAIN tab' = Tabs /\ tab'[t] = new /\ \A u \in Tabs \ {t} : tab'[u] = tab[u]
  BY <1>1, <1>3, PutTab
<1> QED
  BY <1>1, <1>4, <1>5, <1>6, OneTabSteps

(* ... then the session ...                                                *)
LEMMA LoadSessionKeeps ==
    ASSUME BrowserOK, NEW t \in Tabs, LoadSession(t)
    PROVE  BrowserOK'
<1>1. /\ DOMAIN tab = Tabs /\ jar \in 0..Len(sessions)
      /\ StandingOK(tab[t], sessions, installed) /\ HopsOK(tab[t], sessions)
  BY TabKnown
<1>2. "getAuthSession" \in PublicOps
  BY DEF PublicOps
<1>3. TabOK(Ask(tab[t], "getAuthSession"), sessions, installed)
  BY <1>1, <1>2, AskOK
<1>4. Put(t, Ask(tab[t], "getAuthSession")) /\ UNCHANGED <<installed, sessions, jar>>
  BY DEF LoadSession
<1>5. /\ DOMAIN tab' = Tabs /\ tab'[t] = Ask(tab[t], "getAuthSession")
      /\ \A u \in Tabs \ {t} : tab'[u] = tab[u]
  BY <1>1, <1>4, PutTab
<1> QED
  BY <1>1, <1>3, <1>4, <1>5, OneTabSteps

(* ... and then the page itself, which is left at most twice for another.   *)
LEMMA LoadPageKeeps ==
    ASSUME BrowserOK, NEW t \in Tabs, LoadPage(t)
    PROVE  BrowserOK'
<1> DEFINE tb == tab[t]
           m == MethodOf(tb.session)
           next == NextPage(tb.to, m)
<1>1. /\ DOMAIN tab = Tabs /\ jar \in 0..Len(sessions) /\ sessions \in Seq(SessionRows)
      /\ StandingOK(tb, sessions, installed) /\ HopsOK(tb, sessions)
      /\ AskingOK(tb, sessions, installed) /\ DOMAIN tb = TabFields
  BY TabKnown
<1>2. /\ tb.request = NoRequest /\ tb.to \notin {Rest, "setup"} /\ tb.session # Unread
      /\ AsksBootstrap(tb.to) => tb.knows = "yes"
  BY <1>1 DEF LoadPage, ReadyForSession, Quiet, AskingOK
<1>3. PICK new :
         /\ Put(t, new)
         /\ \/ next # tb.to /\ new = Redirected(tb, next)
            \/ next = tb.to /\ new = Arrived(tb)
            \/ next = tb.to /\ ShowsData(tb.to) /\ new = Ask([tb EXCEPT !.asked = TRUE], "getMe")
  BY DEF LoadPage
<1>4. UNCHANGED <<installed, sessions, jar>>
  BY DEF LoadPage
<1>5. tb.session \in 0..Len(sessions) /\ tb.to \in WebPages \ {"setup"}
  BY <1>1, <1>2 DEF StandingOK, Unread
<1>6. m = MethodIn(sessions, tb.session)
  BY DEF MethodOf, MethodIn
<1>7. m \in Methods \cup {"anonymous"} /\ (m = "anonymous" <=> tb.session = 0)
  BY <1>1, <1>5, <1>6, MethodsKnown
<1> HIDE DEF tb, m
<1>8. /\ next \in WebPages \ {"setup"}
      /\ \/ next \in {tb.to, "start"} \/ (next = "login" /\ m = "anonymous")
         \/ NextPage(next, m) = next /\ (AsksBootstrap(next) => AsksBootstrap(tb.to))
      /\ tb.to = "start" => NextPage(next, m) = next
      /\ (tb.to = "login" /\ m = "anonymous") => next = "login"
  BY <1>5, <1>7, LoadersLead
<1> HIDE DEF next
<1>9. TabOK(new, sessions, installed)
  <2>1. CASE next # tb.to /\ new = Redirected(tb, next)
    <3>1. ~ Settles(tb, sessions)
      BY <1>2, <1>6, <2>1 DEF Settles, next
    <3>2. tb.hops = 0 \/ (tb.hops = 1 /\ tb.to = "start")
      BY <1>1, <1>2, <1>7, <1>8, <2>1, <3>1 DEF HopsOK
    <3>3. new.to = next /\ new.session = tb.session /\ new.knows = tb.knows
      BY <1>1, <2>1 DEF Redirected, TabFields
    <3>4. ASSUME NextPage(next, m) = next, AsksBootstrap(next) => AsksBootstrap(tb.to)
          PROVE  Settles(new, sessions)
      BY <1>2, <1>6, <1>8, <3>3, <3>4 DEF Settles
    <3>5. tb.to = "start" => AsksBootstrap(tb.to)
      BY DEF AsksBootstrap
    <3>6. \/ Settles(new, sessions)
          \/ tb.hops = 0 /\ (next = "start" \/ (next = "login" /\ tb.session = 0))
      BY <1>7, <1>8, <2>1, <3>2, <3>4, <3>5
    <3>7. next \in WebPages /\ tb.hops \in {0, 1}
      BY <1>8, <3>2
    <3> QED
      BY <1>1, <1>2, <2>1, <3>6, <3>7, RedirectedOK
  <2>2. CASE next = tb.to /\ new = Arrived(tb)
    <3>1. tb.to \in {"login", "access"} => installed
      BY <1>1, <1>2 DEF AsksBootstrap, StandingOK
    <3> QED
      BY <1>1, <1>2, <2>2, <3>1, ArrivedOK
  <2>3. CASE next = tb.to /\ ShowsData(tb.to) /\ new = Ask([tb EXCEPT !.asked = TRUE], "getMe")
    <3> DEFINE asked == [tb EXCEPT !.asked = TRUE]
    <3>1. /\ DOMAIN asked = TabFields
          /\ \A f \in {"page", "to", "session", "token", "knows", "hops"} : asked[f] = tb[f]
      BY <1>1 DEF TabFields
    <3>2. asked.session = tb.session /\ asked.to = tb.to
      BY <3>1
    <3> HIDE DEF asked
    <3>3. StandingOK(asked, sessions, installed) /\ HopsOK(asked, sessions)
      BY <1>1, <3>1, SameMemory
    <3>4. "getMe" \notin PublicOps /\ ShowsData(tb.to)
      BY <2>3 DEF PublicOps
    <3>5. TabOK(Ask(asked, "getMe"), sessions, installed)
      BY <1>1, <1>2, <3>2, <3>3, <3>4, AskOK
    <3> QED
      BY <2>3, <3>5 DEF asked
  <2> QED
    BY <1>3, <2>1, <2>2, <2>3
<1>10. DOMAIN tab' = Tabs /\ tab'[t] = new /\ \A u \in Tabs \ {t} : tab'[u] = tab[u]
  BY <1>1, <1>3, PutTab
<1> QED
  BY <1>1, <1>4, <1>9, <1>10, OneTabSteps

(* What a page says changes nothing else.                                  *)
LEMMA NoteOK ==
    ASSUME NEW tb, NEW s, NEW i, TabOK(tb, s, i), NEW note
    PROVE  TabOK([tb EXCEPT !.note = note], s, i)
<1> DEFINE new == [tb EXCEPT !.note = note]
<1>1. StandingOK(tb, s, i) /\ HopsOK(tb, s) /\ AskingOK(tb, s, i) /\ DOMAIN tb = TabFields
  BY DEF TabOK, StandingOK
<1>2. /\ DOMAIN new = TabFields
      /\ \A f \in {"page", "to", "session", "token", "knows", "hops", "request"} : new[f] = tb[f]
  BY <1>1 DEF TabFields
<1> HIDE DEF new
<1>3. /\ new.request = tb.request /\ new.page = tb.page /\ new.to = tb.to /\ new.session = tb.session
      /\ new.token = tb.token /\ new.knows = tb.knows
  BY <1>2
<1>4. StandingOK(new, s, i) /\ HopsOK(new, s)
  BY <1>1, <1>2, SameMemory
<1>5. AskingOK(new, s, i)
  BY <1>1, <1>3 DEF AskingOK
<1>6. TabOK(new, s, i)
  BY <1>4, <1>5 DEF TabOK
<1> QED
  BY <1>6 DEF new

(* A user goes somewhere else. *)
LEMMA VisitKeeps ==
    ASSUME BrowserOK, NEW t \in Tabs, NEW page \in WebPages, Visit(t, page)
    PROVE  BrowserOK'
<1> DEFINE tb == tab[t]
<1>1. /\ DOMAIN tab = Tabs /\ jar \in 0..Len(sessions) /\ sessions \in Seq(SessionRows)
      /\ StandingOK(tb, sessions, installed) /\ HopsOK(tb, sessions)
      /\ AskingOK(tb, sessions, installed) /\ DOMAIN tb = TabFields
  BY TabKnown
<1>2. tb.request = NoRequest /\ tb.to = Rest
  BY <1>1 DEF Visit, AtRest, Quiet, AskingOK
<1>3. PICK new : Put(t, new) /\ new \in {[tb EXCEPT !.to = page, !.note = "none"], Blank(page)}
  BY DEF Visit
<1>4. UNCHANGED <<installed, sessions, jar>>
  BY DEF Visit
<1> HIDE DEF tb
<1>5. TabOK(new, sessions, installed)
  <2>1. CASE new = [tb EXCEPT !.to = page, !.note = "none"]
    <3>1. /\ DOMAIN new = TabFields /\ new.page = tb.page /\ new.to = page /\ new.hops = tb.hops
          /\ new.session = tb.session /\ new.token = tb.token /\ new.knows = tb.knows
          /\ new.request = tb.request
      BY <1>1, <2>1 DEF TabFields
    <3>2. page # Rest
      BY DEF WebPages, Rest
    <3>3. StandingOK(new, sessions, installed)
      BY <1>1, <3>1, <3>2 DEF StandingOK
    <3>4. HopsOK(new, sessions)
      BY <1>1, <1>2, <3>1 DEF HopsOK
    <3> QED
      BY <1>2, <3>1, <3>3, <3>4, IdleOK DEF TabOK
  <2>2. CASE new = Blank(page)
    BY <1>1, <2>2, BlankOK
  <2> QED
    BY <1>3, <2>1, <2>2
<1>6. DOMAIN tab' = Tabs /\ tab'[t] = new /\ \A u \in Tabs \ {t} : tab'[u] = tab[u]
  BY <1>1, <1>3, PutTab
<1> QED
  BY <1>1, <1>4, <1>5, <1>6, OneTabSteps

(* Coming back to a window asks again what is shown.                       *)
LEMMA FocusKeeps ==
    ASSUME BrowserOK, NEW t \in Tabs, Focus(t)
    PROVE  BrowserOK'
<1>1. /\ DOMAIN tab = Tabs /\ jar \in 0..Len(sessions)
      /\ StandingOK(tab[t], sessions, installed) /\ HopsOK(tab[t], sessions)
  BY TabKnown
<1>2. PICK op \in {"getAuthSession", "getMe"} :
         Put(t, Ask(tab[t], op)) /\ (op = "getMe" => ShowsData(tab[t].page))
  BY DEF Focus
<1>3. tab[t].to = Rest /\ (op = "getMe" => tab[t].session # Unread)
  BY <1>1, <1>2 DEF Focus, AtRest, StandingOK
<1>4. "getAuthSession" \in PublicOps /\ op \in PublicOps \cup {"getMe"}
  BY DEF PublicOps
<1>5. TabOK(Ask(tab[t], op), sessions, installed)
  BY <1>1, <1>3, <1>4, AskOK
<1>6. DOMAIN tab' = Tabs /\ tab'[t] = Ask(tab[t], op) /\ \A u \in Tabs \ {t} : tab'[u] = tab[u]
  BY <1>1, <1>2, PutTab
<1>7. UNCHANGED <<installed, sessions, jar>>
  BY DEF Focus
<1> QED
  BY <1>1, <1>5, <1>6, <1>7, OneTabSteps

(* Commands are not sent without a token.                                  *)
LEMMA CommandOK ==
    ASSUME NEW tb, NEW s, NEW i, TabOK(tb, s, i), NEW sent, TabOK(sent, s, i)
    PROVE  TabOK(Command(tb, sent), s, i)
<1>1. TabOK([tb EXCEPT !.note = "could not connect"], s, i)
  BY NoteOK
<1> QED
  BY <1>1 DEF Command

(* A page of the school sends one of its commands.                         *)
LEMMA SendCommandKeeps ==
    ASSUME BrowserOK, NEW t \in Tabs, SendCommand(t)
    PROVE  BrowserOK'
<1> DEFINE tb == tab[t]
<1>1. /\ DOMAIN tab = Tabs /\ jar \in 0..Len(sessions)
      /\ StandingOK(tb, sessions, installed) /\ HopsOK(tb, sessions)
      /\ TabOK(tb, sessions, installed)
  BY TabKnown DEF TabOK
<1>2. tb.session # Unread
  BY <1>1 DEF SendCommand, AtRest, StandingOK, ShowsData
<1>3. PICK c \in SchoolCommands :
         Put(t, Command(tb, Sent(tb, "command", [RouteOf(c.op) EXCEPT !.op = ""], Carries(c))))
  <2>1. PICK shape \in CommandShapes :
           Put(t, Command(tb, Sent(tb, "command", shape.route, shape.has)))
    BY DEF SendCommand
  <2>2. PICK c \in SchoolCommands :
           shape = [route |-> [RouteOf(c.op) EXCEPT !.op = ""], has |-> Carries(c)]
    BY DEF CommandShapes
  <2>3. shape.route = [RouteOf(c.op) EXCEPT !.op = ""] /\ shape.has = Carries(c)
    BY <2>2
  <2> QED
    BY <2>1, <2>3
<1> DEFINE route == [RouteOf(c.op) EXCEPT !.op = ""]
           has == Carries(c)
<1>4. (route.key => has.key) /\ (route.match => has.match)
  <2>1. c.key /\ (RouteOf(c.op).match => c.revision # "none")
    BY CommandsSuit
  <2>2. has.key = c.key /\ (has.match <=> c.revision # "none")
    BY DEF Carries
  <2>3. CASE c.revision # "none"
    BY <2>1, <2>2, <2>3
  <2>4. CASE c.revision = "none"
    <3>1. RouteOf(c.op) \in Routes
      BY <2>4, OpsHaveRoutes, NewRowsNameNothing
    <3>2. DOMAIN RouteOf(c.op) = RouteFields
      BY <3>1, RoutesAsk
    <3>3. route.match = RouteOf(c.op).match
      BY <3>2 DEF RouteFields
    <3> QED
      BY <2>1, <2>2, <2>4, <3>3
  <2> QED
    BY <2>3, <2>4
<1> DEFINE sent == Sent(tb, "command", route, has)
<1> HIDE DEF tb, route, has
<1>5. TabOK(sent, sessions, installed)
  BY <1>1, <1>2, <1>4, SentOK
<1> HIDE DEF sent
<1>6. TabOK(Command(tb, sent), sessions, installed)
  BY <1>1, <1>5, CommandOK
<1>7. Put(t, Command(tb, sent)) /\ UNCHANGED <<installed, sessions, jar>>
  BY <1>3 DEF SendCommand, sent, route, has
<1>8. /\ DOMAIN tab' = Tabs /\ tab'[t] = Command(tb, sent)
      /\ \A u \in Tabs \ {t} : tab'[u] = tab[u]
  BY <1>1, <1>7, PutTab
<1> QED
  BY <1>1, <1>6, <1>7, <1>8, OneTabSteps

(* What the account's pages ask for: signing out, and connecting a provider. *)
LEMMA AccountSteps ==
    ASSUME BrowserOK, NEW t \in Tabs, SignOut(t) \/ ConnectSignIn(t)
    PROVE  BrowserOK'
<1>1. /\ DOMAIN tab = Tabs /\ jar \in 0..Len(sessions)
      /\ StandingOK(tab[t], sessions, installed) /\ HopsOK(tab[t], sessions)
      /\ TabOK(tab[t], sessions, installed)
  BY TabKnown DEF TabOK
<1>2. tab[t].session # Unread
  BY <1>1 DEF SignOut, ConnectSignIn, AtRest, StandingOK, ShowsData
<1>3. PICK op \in AccountOps : Put(t, Command(tab[t], Ask(tab[t], op)))
  BY DEF SignOut, ConnectSignIn, AccountOps, SignOutCommands, Bare
<1>4. "getMe" \notin AccountOps /\ "getBootstrapStatus" \notin AccountOps /\ "initializeBootstrap" \notin AccountOps
      /\ "consumeRecoveryGrant" \notin AccountOps /\ "completeOidcLogin" \notin AccountOps
  BY DEF AccountOps
<1>5. TabOK(Ask(tab[t], op), sessions, installed)
  BY <1>1, <1>2, <1>3, <1>4, AskOK
<1>6. TabOK(Command(tab[t], Ask(tab[t], op)), sessions, installed)
  BY <1>1, <1>5, CommandOK
<1>7. /\ DOMAIN tab' = Tabs /\ tab'[t] = Command(tab[t], Ask(tab[t], op))
      /\ \A u \in Tabs \ {t} : tab'[u] = tab[u]
  BY <1>1, <1>3, PutTab
<1>8. UNCHANGED <<installed, sessions, jar>>
  BY DEF SignOut, ConnectSignIn
<1> QED
  BY <1>1, <1>6, <1>7, <1>8, OneTabSteps

(* What makes a session is asked for by pages that a school must exist for,  *)
(* but for the wizard's.                                                    *)
LEMMA EntrySteps ==
    ASSUME BrowserOK, NEW t \in Tabs, SignIn(t) \/ EnterRecoveryCode(t)
    PROVE  BrowserOK'
<1>1. /\ DOMAIN tab = Tabs /\ jar \in 0..Len(sessions)
      /\ StandingOK(tab[t], sessions, installed) /\ HopsOK(tab[t], sessions)
  BY TabKnown
<1>2. tab[t].to = Rest /\ installed
  BY <1>1 DEF SignIn, EnterRecoveryCode, AtRest, StandingOK
<1>3. PICK op \in {"completeOidcLogin", "consumeRecoveryGrant"} : Put(t, Ask(tab[t], op))
  BY DEF SignIn, EnterRecoveryCode
<1>4. op \in PublicOps /\ op # "getBootstrapStatus"
  BY DEF PublicOps
<1>5. TabOK(Ask(tab[t], op), sessions, installed)
  BY <1>1, <1>2, <1>4, AskOK
<1>6. DOMAIN tab' = Tabs /\ tab'[t] = Ask(tab[t], op) /\ \A u \in Tabs \ {t} : tab'[u] = tab[u]
  BY <1>1, <1>3, PutTab
<1>7. UNCHANGED <<installed, sessions, jar>>
  BY DEF SignIn, EnterRecoveryCode
<1> QED
  BY <1>1, <1>5, <1>6, <1>7, OneTabSteps

(* The wizard's last step. *)
LEMMA CreateSchoolKeeps ==
    ASSUME BrowserOK, NEW t \in Tabs, NEW choice, CreateSchool(t, choice)
    PROVE  BrowserOK'
<1> DEFINE new == [Ask(tab[t], "initializeBootstrap") EXCEPT !.note = choice]
<1>1. /\ DOMAIN tab = Tabs /\ jar \in 0..Len(sessions)
      /\ StandingOK(tab[t], sessions, installed) /\ HopsOK(tab[t], sessions)
  BY TabKnown
<1>2. tab[t].to = Rest /\ tab[t].page = "setup" /\ "initializeBootstrap" \in PublicOps
  BY DEF CreateSchool, AtRest, PublicOps
<1>3. TabOK(Ask(tab[t], "initializeBootstrap"), sessions, installed)
  BY <1>1, <1>2, AskOK
<1>4. TabOK(new, sessions, installed)
  BY <1>3, NoteOK
<1>5. Put(t, new) /\ UNCHANGED <<installed, sessions, jar>>
  BY DEF CreateSchool
<1> HIDE DEF new
<1>6. DOMAIN tab' = Tabs /\ tab'[t] = new /\ \A u \in Tabs \ {t} : tab'[u] = tab[u]
  BY <1>1, <1>5, PutTab
<1> QED
  BY <1>1, <1>4, <1>5, <1>6, OneTabSteps

(* A request that is over leaves the memory of its tab as it was.           *)
LEMMA DoneKnown ==
    ASSUME NEW tb, NEW s, NEW i, StandingOK(tb, s, i), HopsOK(tb, s)
    PROVE  /\ StandingOK(Done(tb), s, i) /\ HopsOK(Done(tb), s) /\ TabOK(Done(tb), s, i)
           /\ DOMAIN Done(tb) = TabFields /\ Done(tb).request = NoRequest
           /\ \A f \in TabFields \ {"request"} : Done(tb)[f] = tb[f]
<1> DEFINE new == Done(tb)
<1>1. DOMAIN tb = TabFields
  BY DEF StandingOK
<1>2. /\ DOMAIN new = TabFields /\ new.request = NoRequest
      /\ \A f \in TabFields \ {"request"} : new[f] = tb[f]
  BY <1>1 DEF Done, TabFields
<1> HIDE DEF new
<1>3. \A f \in {"page", "to", "session", "token", "knows", "hops"} : new[f] = tb[f]
  BY <1>2 DEF TabFields
<1>4. StandingOK(new, s, i) /\ HopsOK(new, s)
  BY <1>1, <1>2, <1>3, SameMemory
<1>5. TabOK(new, s, i)
  BY <1>2, <1>4, IdleOK DEF TabOK
<1> QED
  BY <1>2, <1>4, <1>5 DEF new

(* A request or its answer is lost.                                        *)
LEMMA LoseRequestKeeps ==
    ASSUME BrowserOK, NEW t \in Tabs, LoseRequest(t)
    PROVE  BrowserOK'
<1> DEFINE noted == [Done(tab[t]) EXCEPT !.note = "could not connect"]
<1>1. /\ DOMAIN tab = Tabs /\ jar \in 0..Len(sessions)
      /\ StandingOK(tab[t], sessions, installed) /\ HopsOK(tab[t], sessions)
  BY TabKnown
<1>2. TabOK(noted, sessions, installed)
  BY <1>1, DoneKnown, NoteOK
<1>3. noted.request = NoRequest
  BY <1>1, DoneKnown DEF TabFields
<1>4. Put(t, Failed(noted)) /\ UNCHANGED <<installed, sessions, jar>>
  BY DEF LoseRequest
<1> HIDE DEF noted
<1>5. TabOK(Failed(noted), sessions, installed)
  BY <1>2, <1>3, FailedOK DEF TabOK
<1>6. DOMAIN tab' = Tabs /\ tab'[t] = Failed(noted) /\ \A u \in Tabs \ {t} : tab'[u] = tab[u]
  BY <1>1, <1>4, PutTab
<1> QED
  BY <1>1, <1>4, <1>5, <1>6, OneTabSteps

---------------------------------------------------------------------------
(* Answers. *)

(* What a tab is told of its session replaces what it knew; told of another *)
(* one, it is not going round in a circle.                                 *)
LEMMA ToldOK ==
    ASSUME NEW tb, NEW s, NEW i, StandingOK(tb, s, i), HopsOK(tb, s), tb.request = NoRequest,
           NEW n \in 0..Len(s), ~ i => n = 0
    PROVE  TabOK(Told(tb, n), s, i)
<1> DEFINE new == Told(tb, n)
<1>1. DOMAIN tb = TabFields
  BY DEF StandingOK
<1>2. /\ DOMAIN new = TabFields /\ new.page = tb.page /\ new.to = tb.to
      /\ new.hops = (IF n = tb.session THEN tb.hops ELSE 0)
      /\ new.session = n /\ new.token = n /\ new.knows = tb.knows
      /\ new.request = tb.request
  BY <1>1 DEF Told, TabFields
<1> HIDE DEF new
<1>3. n \in Unread..Len(s) /\ n # Unread
  BY DEF Unread
<1>4. StandingOK(new, s, i)
  BY <1>2, <1>3 DEF StandingOK
<1>5. HopsOK(new, s)
  <2>1. CASE n = tb.session
    <3>1. Settles(new, s) <=> Settles(tb, s)
      BY <1>2, <2>1 DEF Settles
    <3> QED
      BY <1>2, <2>1, <3>1 DEF HopsOK
  <2>2. CASE n # tb.session
    BY <1>2, <2>2 DEF HopsOK
  <2> QED
    BY <2>1, <2>2
<1>6. TabOK(new, s, i)
  BY <1>2, <1>4, <1>5, IdleOK DEF TabOK
<1> QED
  BY <1>6 DEF new

(* A tab that reads everything anew and goes somewhere, from rest.          *)
LEMMA RereadOK ==
    ASSUME NEW tb, NEW s, NEW i, StandingOK(tb, s, i), HopsOK(tb, s), tb.request = NoRequest,
           tb.to = Rest, NEW new, DOMAIN new = TabFields, new.request = NoRequest, new.hops = tb.hops,
           new.session = Unread, new.token = tb.token, new.knows = "unknown", new.page = tb.page,
           \/ new.to \in WebPages
           \/ new.to = Rest /\ i /\ ~ ShowsData(new.page)
    PROVE  TabOK(new, s, i)
<1>1. Rest \notin WebPages
  BY DEF WebPages, Rest
<1>2. Unread \in Unread..Len(s)
  BY DEF StandingOK, Unread
<1>3. StandingOK(new, s, i)
  BY <1>1, <1>2 DEF StandingOK
<1>4. HopsOK(new, s)
  BY <1>1 DEF HopsOK
<1> QED
  BY <1>3, <1>4, IdleOK DEF TabOK

(* The wizard's answer: it goes on, or asks for the code it has forgotten;  *)
(* it holds no token, so it sends nothing.                                 *)
LEMMA HeardCreateOK ==
    ASSUME NEW tb, NEW s, NEW i, StandingOK(tb, s, i), HopsOK(tb, s), tb.request = NoRequest,
           tb.to = Rest, tb.page = "setup", tb.token = 0, i
    PROVE  TabOK(HeardCreate(tb), s, i)
<1> DEFINE made == [Reread(tb) EXCEPT !.note = "none"]
           gone == [made EXCEPT !.to = "start"]
           asks == [made EXCEPT !.note = "asks for the code"]
<1>1. DOMAIN tb = TabFields
  BY DEF StandingOK
<1>2. /\ DOMAIN made = TabFields /\ made.page = tb.page /\ made.to = tb.to
      /\ made.hops = tb.hops /\ made.session = Unread /\ made.token = tb.token
      /\ made.knows = "unknown" /\ made.request = tb.request
  BY <1>1 DEF Reread, TabFields
<1> HIDE DEF made
<1>3. HeardCreate(tb) \in {gone, asks}
  BY <1>2 DEF HeardCreate, made
<1>4. TabOK(gone, s, i)
  <2>1. /\ DOMAIN gone = TabFields /\ gone.page = tb.page /\ gone.to = "start"
        /\ gone.hops = tb.hops /\ gone.session = Unread /\ gone.token = tb.token
        /\ gone.knows = "unknown" /\ gone.request = tb.request
    BY <1>2 DEF TabFields
  <2>2. "start" \in WebPages
    BY DEF WebPages
  <2> HIDE DEF gone
  <2> QED
    BY <2>1, <2>2, RereadOK
<1>5. TabOK(asks, s, i)
  <2>1. /\ DOMAIN asks = TabFields /\ asks.page = tb.page /\ asks.to = tb.to
        /\ asks.hops = tb.hops /\ asks.session = Unread /\ asks.token = tb.token
        /\ asks.knows = "unknown" /\ asks.request = tb.request
    BY <1>2 DEF TabFields
  <2>2. ~ ShowsData("setup")
    BY DEF ShowsData
  <2> HIDE DEF asks
  <2> QED
    BY <2>1, <2>2, RereadOK
<1> QED
  BY <1>3, <1>4, <1>5

(* Whatever an answer says, its page stays sound.                          *)
LEMMA ReactionOK ==
    ASSUME NEW tb, NEW s \in Seq(SessionRows), NEW i, TabOK(tb, s, i), ~ i => Len(s) = 0,
           tb.request.state = "answered"
    PROVE  TabOK(Reaction(tb, tb.request), s, i)
<1> DEFINE r == tb.request
           done == Done(tb)
<1>1. StandingOK(tb, s, i) /\ HopsOK(tb, s) /\ AskingOK(tb, s, i) /\ DOMAIN tb = TabFields
  BY DEF TabOK, StandingOK
<1>2. /\ StandingOK(done, s, i) /\ HopsOK(done, s) /\ TabOK(done, s, i)
      /\ DOMAIN done = TabFields /\ done.request = NoRequest
      /\ \A f \in TabFields \ {"request"} : done[f] = tb[f]
  BY <1>1, DoneKnown
<1>3. /\ done.page = tb.page /\ done.to = tb.to /\ done.hops = tb.hops
      /\ done.session = tb.session /\ done.token = tb.token /\ done.knows = tb.knows
  BY <1>2 DEF TabFields
<1> HIDE DEF done
<1>4. CASE r.status = 401 /\ r.op \notin OwnAnswers
  <2>1. Reaction(tb, r) = [Blank("login") EXCEPT !.page = tb.page]
    BY <1>4 DEF Reaction, SessionExpired
  <2>2. "login" \in WebPages
    BY DEF WebPages
  <2> QED
    BY <2>1, <2>2, BlankOK
<1>5. ASSUME ~ (r.status = 401 /\ r.op \notin OwnAnswers)
      PROVE  TabOK(Reaction(tb, r), s, i)
  <2>1. CASE r.op = "getBootstrapStatus"
    <3> DEFINE new == [done EXCEPT !.knows = IF r.body = 1 THEN "yes" ELSE "no"]
    <3>1. Reaction(tb, r) = new
      BY <1>5, <2>1 DEF Reaction, OwnAnswers, done
    <3>2. /\ DOMAIN new = TabFields /\ new.page = tb.page /\ new.to = tb.to /\ new.hops = tb.hops
          /\ new.session = tb.session /\ new.token = tb.token /\ new.request = NoRequest
          /\ new.knows = (IF r.body = 1 THEN "yes" ELSE "no")
      BY <1>2, <1>3 DEF TabFields
    <3> HIDE DEF new
    <3>3. tb.knows = "unknown" /\ (r.body = 1 => i)
      BY <1>1, <2>1 DEF AskingOK
    <3>4. StandingOK(new, s, i)
      BY <1>1, <3>2, <3>3 DEF StandingOK
    <3>5. Settles(tb, s) => Settles(new, s)
      BY <3>2, <3>3 DEF Settles
    <3>6. HopsOK(new, s)
      BY <1>1, <3>2, <3>5 DEF HopsOK
    <3> QED
      BY <3>1, <3>2, <3>4, <3>6, IdleOK DEF TabOK
  <2>2. CASE r.op = "getAuthSession"
    <3>1. Reaction(tb, r) = Told(done, r.body)
      BY <1>5, <2>2 DEF Reaction, OwnAnswers, done
    <3>2. r.body \in 0..Len(s)
      BY <1>1, <2>2 DEF AskingOK
    <3>3. ~ i => r.body = 0
      BY <3>2
    <3> QED
      BY <1>2, <3>1, <3>2, <3>3, ToldOK
  <2>3. CASE r.op = "completeOidcLogin"
    <3>1. Reaction(tb, r) = Blank("start") /\ "start" \in WebPages
      BY <1>5, <2>3 DEF Reaction, OwnAnswers, WebPages
    <3> QED
      BY <3>1, BlankOK
  <2>4. CASE r.op \in {"logout", "logoutAll"}
    <3>1. Reaction(tb, r) \in {Blank("login"), done} /\ "login" \in WebPages
      BY <1>5, <2>4 DEF Reaction, OwnAnswers, done, WebPages
    <3> QED
      BY <1>2, <3>1, BlankOK
  <2>5. CASE r.op = "initializeBootstrap"
    <3>1. Reaction(tb, r) = (IF r.status = 200 THEN HeardCreate(done)
                                               ELSE [done EXCEPT !.note = "refused"])
      BY <1>5, <2>5 DEF Reaction, OwnAnswers, done
    <3>2. CASE r.status = 200
      <4>1. tb.to = Rest /\ tb.token = 0 /\ i /\ tb.page = "setup"
        BY <1>1, <2>5, <3>2 DEF AskingOK
      <4>2. TabOK(HeardCreate(done), s, i)
        BY <1>2, <1>3, <4>1, HeardCreateOK
      <4>3. Reaction(tb, r) = HeardCreate(done)
        BY <3>1, <3>2
      <4> QED
        BY <4>2, <4>3
    <3>3. CASE r.status # 200
      <4>1. TabOK([done EXCEPT !.note = "refused"], s, i)
        BY <1>2, NoteOK
      <4>2. Reaction(tb, r) = [done EXCEPT !.note = "refused"]
        BY <3>1, <3>3
      <4> QED
        BY <4>1, <4>2
    <3> QED
      BY <3>2, <3>3
  <2>6. CASE r.op = "consumeRecoveryGrant"
    <3> DEFINE new == [Reread(done) EXCEPT !.to = "connect"]
    <3>1. Reaction(tb, r) = new
      BY <1>5, <2>6 DEF Reaction, OwnAnswers, done
    <3>2. /\ DOMAIN new = TabFields /\ new.page = done.page /\ new.to = "connect"
          /\ new.hops = done.hops /\ new.session = Unread /\ new.token = done.token
          /\ new.knows = "unknown" /\ new.request = NoRequest
      BY <1>2 DEF Reread, TabFields
    <3> HIDE DEF new
    <3>3. done.to = Rest /\ "connect" \in WebPages
      BY <1>1, <1>3, <2>6 DEF AskingOK, WebPages
    <3> QED
      BY <1>2, <3>1, <3>2, <3>3, RereadOK
  <2>7. CASE r.op = "getMe"
    <3> DEFINE heard == [done EXCEPT !.shows = TRUE]
    <3>1. Reaction(tb, r) = IF tb.to = Rest THEN heard ELSE Arrived(heard)
      BY <1>5, <2>7 DEF Reaction, OwnAnswers, done
    <3>2. /\ DOMAIN heard = TabFields /\ heard.request = NoRequest
          /\ \A f \in {"page", "to", "session", "token", "knows", "hops"} : heard[f] = done[f]
      BY <1>2 DEF TabFields
    <3>3. heard.to = tb.to /\ heard.session = tb.session
      BY <1>3, <3>2
    <3> HIDE DEF heard
    <3>4. StandingOK(heard, s, i) /\ HopsOK(heard, s)
      BY <1>2, <3>2, SameMemory
    <3>5. tb.session # Unread /\ (tb.to = Rest \/ ShowsData(tb.to))
      BY <1>1, <2>7 DEF AskingOK
    <3>6. CASE tb.to = Rest
      BY <3>1, <3>2, <3>4, <3>6, IdleOK DEF TabOK
    <3>7. CASE tb.to # Rest
      <4>1. tb.to \notin {"login", "access"}
        BY <3>5, <3>7 DEF ShowsData
      <4> QED
        BY <3>1, <3>2, <3>3, <3>4, <3>5, <3>7, <4>1, ArrivedOK
    <3> QED
      BY <3>6, <3>7
  <2>8. CASE r.op = "prepareSetupIdentityProvider" /\ r.status = 200
    <3>1. Reaction(tb, r) = [Blank(Rest) EXCEPT !.page = "away"]
      BY <1>5, <2>8 DEF Reaction
    <3>2. i
      BY <1>1, <2>8 DEF AskingOK
    <3> QED
      BY <3>1, <3>2, ElsewhereOK
  <2>9. ASSUME r.op \notin OwnAnswers \cup {"getMe"},
               ~ (r.op = "prepareSetupIdentityProvider" /\ r.status = 200)
        PROVE  TabOK(Reaction(tb, r), s, i)
    <3>1. Reaction(tb, r) = done
      BY <1>5, <2>9 DEF Reaction, OwnAnswers, done
    <3> QED
      BY <1>2, <3>1
  <2> QED
    BY <2>1, <2>2, <2>3, <2>4, <2>5, <2>6, <2>7, <2>8, <2>9 DEF OwnAnswers
<1> QED
  BY <1>4, <1>5

(* An answer arrives, the cookie first.                                    *)
LEMMA HearKeeps ==
    ASSUME BrowserOK, NEW t \in Tabs, Hear(t)
    PROVE  BrowserOK'
<1> DEFINE tb == tab[t]
           new == Reaction(tb, tb.request)
<1>1. /\ DOMAIN tab = Tabs /\ jar \in 0..Len(sessions) /\ sessions \in Seq(SessionRows)
      /\ AskingOK(tb, sessions, installed)
  BY TabKnown
<1>2. TabOK(tb, sessions, installed) /\ (~ installed => Len(sessions) = 0)
  BY DEF BrowserOK
<1>3. tb.request.state = "answered" /\ Put(t, new) /\ UNCHANGED <<installed, sessions>>
  BY DEF Hear
<1>4. jar' \in 0..Len(sessions)
  <2>1. tb.request.sets \in Unread..Len(sessions)
    BY <1>1, <1>3 DEF AskingOK
  <2>2. jar' = (IF tb.request.sets = Unread THEN jar ELSE tb.request.sets)
    BY DEF Hear
  <2> QED
    BY <1>1, <2>1, <2>2 DEF Unread
<1>5. TabOK(new, sessions, installed)
  BY <1>1, <1>2, <1>3, ReactionOK
<1> HIDE DEF new
<1>6. DOMAIN tab' = Tabs /\ tab'[t] = new /\ \A u \in Tabs \ {t} : tab'[u] = tab[u]
  BY <1>1, <1>3, PutTab
<1> QED
  BY <1>3, <1>4, <1>5, <1>6, OneTabSteps

---------------------------------------------------------------------------
(* The server. *)

(* The server forgets no session and changes none's method.                *)
Grows(s, more) ==
    /\ more \in Seq(SessionRows) /\ Len(s) <= Len(more)
    /\ \A n \in 1..Len(s) : more[n].method = s[n].method

(* A tab that does nothing stays sound while the server goes on.            *)
LEMMA GrowthKeeps ==
    ASSUME NEW tb, NEW s \in Seq(SessionRows), NEW i, NEW more, NEW j, Grows(s, more), i => j,
           StandingOK(tb, s, i), HopsOK(tb, s)
    PROVE  /\ StandingOK(tb, more, j) /\ HopsOK(tb, more)
           /\ AskingOK(tb, s, i) => AskingOK(tb, more, j)
<1>1. Len(s) \in Nat /\ Len(more) \in Nat /\ Len(s) <= Len(more)
  BY DEF Grows
<1>2. 0..Len(s) \subseteq 0..Len(more) /\ Unread..Len(s) \subseteq Unread..Len(more)
  BY <1>1 DEF Unread
<1>3. StandingOK(tb, more, j)
  BY <1>2 DEF StandingOK
<1>4. tb.session # Unread => MethodIn(more, tb.session) = MethodIn(s, tb.session)
  BY <1>1 DEF Grows, MethodIn, StandingOK, Unread
<1>5. Settles(tb, s) => Settles(tb, more)
  BY <1>4 DEF Settles
<1>6. HopsOK(tb, more)
  BY <1>5 DEF HopsOK
<1>7. AskingOK(tb, s, i) => AskingOK(tb, more, j)
  BY <1>2 DEF AskingOK
<1> QED
  BY <1>3, <1>6, <1>7

(* Ending sessions leaves them where they are.                             *)
LEMMA EndedGrow ==
    ASSUME sessions \in Seq(SessionRows), NEW dead
    PROVE  Grows(sessions, Without(dead)) /\ Len(Without(dead)) = Len(sessions)
<1> DEFINE more == Without(dead)
<1>1. DOMAIN sessions = 1..Len(sessions) /\ Len(sessions) \in Nat
  OBVIOUS
<1>2. \A n \in 1..Len(sessions) : more[n] = [sessions[n] EXCEPT !.alive = @ /\ n \notin dead]
  BY <1>1 DEF Without
<1>3. \A n \in 1..Len(sessions) : more[n] \in SessionRows /\ more[n].method = sessions[n].method
  <2> SUFFICES ASSUME NEW n \in 1..Len(sessions)
               PROVE  more[n] \in SessionRows /\ more[n].method = sessions[n].method
    OBVIOUS
  <2>1. sessions[n] \in SessionRows
    OBVIOUS
  <2> DEFINE ended == [sessions[n] EXCEPT !.alive = @ /\ n \notin dead]
  <2>2. /\ DOMAIN ended = {"account", "method", "alive"} /\ ended.account = sessions[n].account
        /\ ended.method = sessions[n].method
        /\ ended.alive = (sessions[n].alive /\ n \notin dead)
    BY <2>1 DEF SessionRows
  <2>3. ended = [account |-> ended.account, method |-> ended.method, alive |-> ended.alive]
    BY <2>1 DEF SessionRows
  <2>4. sessions[n].account \in Users /\ sessions[n].method \in Methods
    BY <2>1 DEF SessionRows
  <2>5. ended.alive \in BOOLEAN
    BY <2>2
  <2> HIDE DEF ended
  <2>6. ended \in SessionRows
    BY <2>2, <2>3, <2>4, <2>5 DEF SessionRows
  <2> QED
    BY <1>2, <2>2, <2>6 DEF ended
<1>4. more = [n \in 1..Len(sessions) |-> more[n]]
  BY <1>1 DEF Without
<1> HIDE DEF more
<1>5. more \in [1..Len(sessions) -> SessionRows]
  BY <1>3, <1>4
<1>6. more \in Seq(SessionRows) /\ Len(more) = Len(sessions)
  BY <1>1, <1>5
<1>7. Grows(sessions, more)
  BY <1>1, <1>3, <1>6 DEF Grows
<1> QED
  BY <1>6, <1>7 DEF more

(* A new session comes after the others.                                   *)
LEMMA AppendGrows ==
    ASSUME NEW s \in Seq(SessionRows), NEW more, Grows(s, more), Len(more) = Len(s),
           NEW x \in SessionRows
    PROVE  Grows(s, Append(more, x)) /\ Len(Append(more, x)) = Len(s) + 1
BY DEF Grows

(* What a use case does to the sessions.                                   *)
LEMMA EffectGrows ==
    ASSUME sessions \in Seq(SessionRows), installed \in BOOLEAN, ~ installed => Len(sessions) = 0,
           NEW r, NEW who, r.op \in {"completeOidcLogin", "consumeRecoveryGrant"} => installed,
           Effect(r, who)
    PROVE  /\ Grows(sessions, sessions') /\ installed' \in BOOLEAN /\ (installed => installed')
           /\ ~ installed' => Len(sessions') = 0
           /\ r.op \in Makers => Len(sessions') = Len(sessions) + 1
           /\ r.op = "initializeBootstrap" => installed'
<1>1. Grows(sessions, sessions)
  BY DEF Grows
<1>2. CASE r.op = "logout"
  <2>1. sessions' = Without({who}) /\ installed' = installed
    BY <1>2 DEF Effect
  <2> QED
    BY <1>2, <2>1, EndedGrow DEF Makers
<1>3. CASE r.op = "logoutAll"
  <2>1. sessions' = Without(OfAccount(sessions[who].account)) /\ installed' = installed
    BY <1>3 DEF Effect
  <2> QED
    BY <1>3, <2>1, EndedGrow DEF Makers
<1>4. CASE r.op = "completeOidcLogin"
  <2>1. PICK a \in Users : sessions' = Append(Without({who}), [account |-> a, method |-> "oidc", alive |-> TRUE])
    BY <1>4 DEF Effect
  <2>2. installed' = installed
    BY <1>4 DEF Effect
  <2>3. [account |-> a, method |-> "oidc", alive |-> TRUE] \in SessionRows
    BY DEF SessionRows, Methods
  <2>4. Grows(sessions, sessions') /\ Len(sessions') = Len(sessions) + 1
    BY <2>1, <2>3, EndedGrow, AppendGrows
  <2> QED
    BY <1>4, <2>2, <2>4
<1>5. CASE r.op = "consumeRecoveryGrant"
  <2>1. PICK a \in Users : sessions' = Append(sessions, [account |-> a, method |-> "recovery", alive |-> TRUE])
    BY <1>5 DEF Effect
  <2>2. installed' = installed
    BY <1>5 DEF Effect
  <2>3. [account |-> a, method |-> "recovery", alive |-> TRUE] \in SessionRows
    BY DEF SessionRows, Methods
  <2>4. Grows(sessions, sessions') /\ Len(sessions') = Len(sessions) + 1
    BY <1>1, <2>1, <2>3, AppendGrows
  <2> QED
    BY <1>5, <2>2, <2>4
<1>6. CASE r.op = "initializeBootstrap"
  <2>1. PICK a \in Users : sessions' = Append(sessions, [account |-> a, method |-> "setup", alive |-> TRUE])
    BY <1>6 DEF Effect
  <2>2. installed' = TRUE
    BY <1>6 DEF Effect
  <2>3. [account |-> a, method |-> "setup", alive |-> TRUE] \in SessionRows
    BY DEF SessionRows, Methods
  <2>4. Grows(sessions, sessions') /\ Len(sessions') = Len(sessions) + 1
    BY <1>1, <2>1, <2>3, AppendGrows
  <2> QED
    BY <1>6, <2>2, <2>4
<1>7. CASE r.op \notin {"logout", "logoutAll", "completeOidcLogin", "consumeRecoveryGrant", "initializeBootstrap"}
  <2>1. sessions' = sessions /\ installed' = installed
    BY <1>7 DEF Effect
  <2> QED
    BY <1>1, <1>7, <2>1 DEF Makers
<1> QED
  BY <1>2, <1>3, <1>4, <1>5, <1>6, <1>7

(* A request is answered: what is admitted is the tab's own session's.      *)
LEMMA ServeKeeps ==
    ASSUME BrowserOK, NEW t \in Tabs, Serve(t)
    PROVE  BrowserOK'
<1> DEFINE tb == tab[t]
           r == tb.request
           who == Principal(r)
           admitted == Admission(r.route, who, r.token, r.has)
           status == IF admitted = 200 /\ r.op = "initializeBootstrap" /\ installed THEN 409 ELSE admitted
           answer == [NoRequest EXCEPT
                         !.state = "answered", !.op = r.op, !.status = status, !.body = Body(r, who),
                         !.as = IF status = 200 /\ r.route.csrf THEN who ELSE 0, !.told = r.told,
                         !.sets = Sets(r, status, who)]
<1>1. /\ DOMAIN tab = Tabs /\ jar \in 0..Len(sessions) /\ sessions \in Seq(SessionRows)
      /\ StandingOK(tb, sessions, installed) /\ HopsOK(tb, sessions)
      /\ AskingOK(tb, sessions, installed) /\ DOMAIN tb = TabFields
      /\ installed \in BOOLEAN /\ (~ installed => Len(sessions) = 0)
      /\ \A u \in Tabs : TabOK(tab[u], sessions, installed)
  BY TabKnown DEF BrowserOK
<1>2. /\ r.state = "sent"
      /\ IF status = 200 THEN Effect(r, who) ELSE UNCHANGED <<installed, sessions>>
      /\ tab' = [tab EXCEPT ![t].request = answer]
      /\ jar' = jar
  BY DEF Serve
<1>3. who \in 0..Len(sessions)
  <2>1. r.cookie \in 0..Len(sessions)
    BY <1>1, <1>2 DEF AskingOK
  <2> QED
    BY <2>1 DEF Principal
<1>4. /\ status \notin {400, 428}
      /\ status = 200 => /\ r.route.csrf => r.token = who
                         /\ r.route.session => who # 0
                         /\ r.op = "initializeBootstrap" => ~ installed
  <2>1. (r.route.key => r.has.key) /\ (r.route.match => r.has.match)
    BY <1>1, <1>2 DEF AskingOK
  <2>2. admitted \notin {400, 428}
    BY <2>1 DEF Admission, KeepsContract
  <2>3. admitted = 200 => (r.route.csrf => r.token = who) /\ (r.route.session => who # 0)
    BY DEF Admission, RequireCsrf, RequirePrincipal
  <2> QED
    BY <2>2, <2>3
<1>5. /\ answer.state = "answered" /\ answer.op = r.op /\ answer.status = status
      /\ answer.body = Body(r, who) /\ answer.told = r.told /\ answer.sets = Sets(r, status, who)
      /\ answer.as = (IF status = 200 /\ r.route.csrf THEN who ELSE 0)
  BY DEF NoRequest
<1> HIDE DEF answer, status, who
<1>6. /\ Grows(sessions, sessions') /\ installed' \in BOOLEAN /\ (installed => installed')
      /\ ~ installed' => Len(sessions') = 0
      /\ (status = 200 /\ r.op \in Makers) => Len(sessions') = Len(sessions) + 1
      /\ (status = 200 /\ r.op = "initializeBootstrap") => installed'
  <2>1. CASE status = 200
    <3>1. r.op \in {"completeOidcLogin", "consumeRecoveryGrant"} => installed
      BY <1>1, <1>2 DEF AskingOK
    <3>2. Effect(r, who)
      BY <1>2, <2>1
    <3> QED
      BY <1>1, <2>1, <3>1, <3>2, EffectGrows
  <2>2. CASE status # 200
    BY <1>1, <1>2, <2>2 DEF Grows
  <2> QED
    BY <2>1, <2>2
<1>7. \A u \in Tabs \ {t} : tab'[u] = tab[u]
  BY <1>1, <1>2
<1>8. DOMAIN tab' = Tabs /\ tab'[t] = [tb EXCEPT !.request = answer]
  BY <1>1, <1>2
<1> DEFINE new == [tb EXCEPT !.request = answer]
<1>9. /\ DOMAIN new = TabFields /\ new.request = answer
      /\ \A f \in {"page", "to", "session", "token", "knows", "hops"} : new[f] = tb[f]
  BY <1>1 DEF TabFields
<1>10. new.to = tb.to /\ new.page = tb.page /\ new.session = tb.session /\ new.token = tb.token
       /\ new.knows = tb.knows
  BY <1>9
<1> HIDE DEF new
<1>11. StandingOK(new, sessions', installed') /\ HopsOK(new, sessions')
  <2>1. StandingOK(new, sessions, installed) /\ HopsOK(new, sessions)
    BY <1>1, <1>9, SameMemory
  <2> QED
    BY <1>1, <1>6, <2>1, GrowthKeeps
<1>12. AskingOK(new, sessions', installed')
  <2>1. Len(sessions) \in Nat /\ Len(sessions') \in Nat /\ Len(sessions) <= Len(sessions')
    BY <1>1, <1>6 DEF Grows
  <2>2. answer.as # 0 => answer.as = answer.told
    BY <1>1, <1>2, <1>4, <1>5 DEF AskingOK
  <2>3. answer.sets \in Unread..Len(sessions')
    <3>1. answer.sets \in {0, Unread} \/ (status = 200 /\ r.op \in Makers /\ answer.sets = Len(sessions) + 1)
      BY <1>5 DEF Sets
    <3> QED
      BY <1>6, <2>1, <3>1 DEF Unread
  <2>4. r.op = "getAuthSession" => answer.body \in 0..Len(sessions')
    <3>1. r.op = "getAuthSession" => answer.body = who
      BY <1>5 DEF Body
    <3> QED
      BY <1>3, <2>1, <3>1
  <2>5. (r.op = "getBootstrapStatus" /\ answer.body = 1) => installed'
    <3>1. r.op = "getBootstrapStatus" => answer.body = (IF installed THEN 1 ELSE 0)
      BY <1>5 DEF Body
    <3> QED
      BY <1>6, <3>1
  <2>6. (r.op = "prepareSetupIdentityProvider" /\ status = 200) => installed'
    <3>1. (r.op = "prepareSetupIdentityProvider" /\ status = 200) => who # 0
      BY <1>1, <1>2, <1>4 DEF AskingOK
    <3> QED
      BY <1>1, <1>3, <1>6, <3>1
  <2>7. (r.op = "initializeBootstrap" /\ status = 200) => tb.token = 0 /\ installed'
    BY <1>1, <1>4, <1>6 DEF StandingOK
  <2>8. /\ r.op = "getBootstrapStatus" => tb.knows = "unknown"
        /\ r.op = "getMe" => tb.session # Unread /\ (tb.to = Rest \/ ShowsData(tb.to))
        /\ r.op = "initializeBootstrap" => tb.to = Rest /\ tb.page = "setup"
        /\ r.op = "consumeRecoveryGrant" => tb.to = Rest /\ installed'
        /\ r.op = "completeOidcLogin" => installed'
    BY <1>1, <1>2, <1>6 DEF AskingOK
  <2> QED
    BY <1>4, <1>5, <1>9, <1>10, <2>2, <2>3, <2>4, <2>5, <2>6, <2>7, <2>8 DEF AskingOK
<1>13. TabOK(tab'[t], sessions', installed')
  BY <1>8, <1>11, <1>12 DEF TabOK, new
<1>14. \A u \in Tabs \ {t} : TabOK(tab'[u], sessions', installed')
  BY <1>1, <1>6, <1>7, GrowthKeeps DEF TabOK
<1>15. jar' \in 0..Len(sessions')
  BY <1>1, <1>2, <1>6 DEF Grows
<1>16. \A u \in Tabs : TabOK(tab'[u], sessions', installed')
  BY <1>13, <1>14
<1>17. sessions' \in Seq(SessionRows)
  BY <1>6 DEF Grows
<1> QED
  BY <1>6, <1>8, <1>15, <1>16, <1>17 DEF BrowserOK

(* A session ends of its own. *)
LEMMA ExpireKeeps ==
    ASSUME BrowserOK, NEW n \in DOMAIN sessions, Expire(n)
    PROVE  BrowserOK'
<1>1. sessions' = Without({n}) /\ UNCHANGED <<installed, jar, tab>>
  BY DEF Expire
<1>2. Grows(sessions, sessions') /\ Len(sessions') = Len(sessions)
  BY <1>1, EndedGrow DEF BrowserOK
<1>3. \A u \in Tabs : TabOK(tab'[u], sessions', installed')
  BY <1>1, <1>2, GrowthKeeps DEF BrowserOK, TabOK
<1>4. sessions' \in Seq(SessionRows)
  BY <1>2 DEF Grows
<1> QED
  BY <1>1, <1>2, <1>3, <1>4 DEF BrowserOK

---------------------------------------------------------------------------
(* The invariant holds and gives the properties.                           *)

(* Blank tabs are sound. *)
LEMMA BrowserInitOK == BrowserInit => BrowserOK
<1> SUFFICES ASSUME BrowserInit PROVE BrowserOK
  OBVIOUS
<1>1. /\ installed \in BOOLEAN /\ sessions = <<>> /\ jar = 0
      /\ tab \in [Tabs -> {Unopened, Blank("start")}]
  BY DEF BrowserInit
<1>2. sessions \in Seq(SessionRows) /\ Len(sessions) = 0
  BY <1>1
<1>3. \A s \in Seq(SessionRows) : \A i : TabOK(Unopened, s, i) /\ TabOK(Blank("start"), s, i)
  BY ElsewhereOK, BlankOK DEF Unopened, WebPages, Rest
<1>4. \A t \in Tabs : TabOK(tab[t], sessions, installed)
  BY <1>1, <1>2, <1>3
<1> QED
  BY <1>1, <1>2, <1>4 DEF BrowserOK

(* Every step keeps the invariant. *)
LEMMA BrowserNextKeeps == BrowserOK /\ [BrowserNext]_browserVars => BrowserOK'
<1> SUFFICES ASSUME BrowserOK, [BrowserNext]_browserVars PROVE BrowserOK'
  OBVIOUS
<1>1. ASSUME NEW t \in Tabs, LoadBootstrap(t) \/ LoadSession(t) \/ LoadPage(t)
      PROVE  BrowserOK'
  BY <1>1, LoadBootstrapKeeps, LoadSessionKeeps, LoadPageKeeps
<1>2. ASSUME NEW t \in Tabs, (\E page \in WebPages : Visit(t, page)) \/ Focus(t)
      PROVE  BrowserOK'
  BY <1>2, VisitKeeps, FocusKeeps
<1>3. ASSUME NEW t \in Tabs, SendCommand(t) \/ SignOut(t) \/ ConnectSignIn(t)
      PROVE  BrowserOK'
  BY <1>3, SendCommandKeeps, AccountSteps
<1>4. ASSUME NEW t \in Tabs, SignIn(t) \/ EnterRecoveryCode(t) \/ (\E choice \in {"now", "later"} : CreateSchool(t, choice))
      PROVE  BrowserOK'
  BY <1>4, EntrySteps, CreateSchoolKeeps
<1>5. ASSUME NEW t \in Tabs, Serve(t) \/ Hear(t) \/ LoseRequest(t)
      PROVE  BrowserOK'
  BY <1>5, ServeKeeps, HearKeeps, LoseRequestKeeps
<1>6. ASSUME NEW n \in DOMAIN sessions, Expire(n)
      PROVE  BrowserOK'
  BY <1>6, ExpireKeeps
<1>7. CASE UNCHANGED browserVars
  BY <1>7 DEF BrowserOK, browserVars
<1> QED
  BY <1>1, <1>2, <1>3, <1>4, <1>5, <1>6, <1>7 DEF BrowserNext

(* Every reachable state of a browser is sound.                            *)
LEMMA BrowserSound == BrowserSpec => []BrowserOK
BY BrowserInitOK, BrowserNextKeeps, PTL DEF BrowserSpec

(* A command runs under the session its tab was last told of, and under no  *)
(* other, however many tabs sign in and out, install and recover at once.   *)
THEOREM CommandsRunUnderTheirSession == BrowserSpec => []CommandsRunAsTold
<1>1. BrowserOK => CommandsRunAsTold
  BY DEF BrowserOK, TabOK, AskingOK, CommandsRunAsTold
<1> QED
  BY <1>1, BrowserSound, PTL

(* No page sends a command that the API refuses for a key or a revision it  *)
(* lacks.                                                                  *)
THEOREM CommandsAreComplete == BrowserSpec => []CommandsComeComplete
<1>1. BrowserOK => CommandsComeComplete
  BY DEF BrowserOK, TabOK, AskingOK, CommandsComeComplete
<1> QED
  BY <1>1, BrowserSound, PTL

(* No loader sends the user round in a circle.                             *)
THEOREM LoadersSettle == BrowserSpec => []RedirectsEnd
<1>1. BrowserOK => RedirectsEnd
  BY DEF BrowserOK, TabOK, HopsOK, RedirectsEnd
<1> QED
  BY <1>1, BrowserSound, PTL

=============================================================================
