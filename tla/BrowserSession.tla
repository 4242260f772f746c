---------------------------- MODULE BrowserSession ----------------------------
(***************************************************************************)
(* The tabs of one browser and the session they share.                       *)
(*                                                                         *)
(* The session is a cookie: one jar for all tabs, sent with every request as   *)
(* it is at that moment, changed when an answer arrives.  The CSRF token, the   *)
(* answer to "who am I" and the data on the page are in each tab's memory.      *)
(* A navigation runs the loader of the page it goes to: the loader asks for     *)
(* what is not cached or no longer fresh, and stays, redirects or fails.        *)
(* The setup wizard, the recovery page and the sign-in pages change the         *)
(* session.                                                                  *)
(*                                                                         *)
(* Sessions are numbered; 0 is none.  A tab has one request under way.         *)
(***************************************************************************)
EXTENDS WebCommands, Sequences, FiniteSets

CONSTANTS
    Tabs, Users,
    MostSessions,       \* bound: sessions ever made
    MostVisits,         \* bound: navigations the user makes in a browser
    MostLost            \* bound: requests and answers that are lost

ASSUME BrowserAssumption == MostSessions \in Nat /\ MostVisits \in Nat /\ MostLost \in Nat

VARIABLES
    installed,    \* the server has a tenant
    sessions,     \* the server's sessions
    jar,          \* the session cookie
    tab,
    visits, lost  \* navigations still to come; requests and answers lost

browserVars == <<installed, sessions, jar, tab, visits, lost>>

Unread == -1
WebPages == {"start", "setup", "connect", "access", "login", "school", "recovery"}
Rest == "none"

NoRequest == [state |-> "none", op |-> "none", route |-> Nothing, has |-> Carries(EnrollCommand),
              cookie |-> 0, token |-> 0, told |-> Unread, status |-> 0, as |-> 0, sets |-> Unread,
              body |-> 0]
(* A page load leaves nothing in memory. *)
Blank(page) == [page |-> Rest, to |-> page, session |-> Unread, asked |-> FALSE, token |-> 0,
                shows |-> FALSE, knows |-> "unknown", note |-> "none", hops |-> 0, request |-> NoRequest]
(* A tab that is not open shows nothing and goes nowhere. *)
Unopened == [Blank(Rest) EXCEPT !.page = Rest]

BrowserInit ==
    /\ installed \in BOOLEAN
    /\ sessions = <<>> /\ jar = 0 /\ visits = MostVisits /\ lost = 0
    /\ tab \in [Tabs -> {Unopened, Blank("start")}]

Quiet(t) == tab[t].request.state = "none"
AtRest(t) == Quiet(t) /\ tab[t].to = Rest
Put(t, record) == tab' = [tab EXCEPT ![t] = record]

(* The cookie goes along; the token is what the tab was last told. *)
Sent(tb, op, route, has) ==
    [tb EXCEPT !.request = [NoRequest EXCEPT !.state = "sent", !.op = op, !.route = route, !.has = has,
                                             !.cookie = jar,
                                             !.told = IF route.csrf THEN tb.session ELSE 0,
                                             !.token = IF route.csrf THEN tb.token ELSE 0]]
Ask(tb, op) == Sent(tb, op, RouteOf(op), Carries(Bare(op, RouteOf(op).code)))

(* Requests that will make a session, if all goes well. *)
Makers == {"initializeBootstrap", "completeOidcLogin", "consumeRecoveryGrant"}
MayMake == Len(sessions) + Cardinality({t \in Tabs : tab[t].request.op \in Makers}) < MostSessions

------------------------------------------------------------------------------
(* The loaders (apps/web/src/app/loaders.ts). *)

MethodOf(n) == IF n = 0 THEN "anonymous" ELSE sessions[n].method
StartNext(m) == IF m = "anonymous" THEN "login" ELSE IF m = "recovery" THEN "recovery" ELSE "school"
ConnectNext(m) == IF m = "anonymous" THEN "login" ELSE IF m = "oidc" THEN "start" ELSE "connect"
AccessNext(m) == IF m = "anonymous" THEN "access" ELSE IF m = "oidc" THEN "start" ELSE "connect"
LoginNext(m) == IF m = "anonymous" THEN "login" ELSE IF m = "recovery" THEN "recovery" ELSE "start"
SchoolNext(m) == IF m = "anonymous" THEN "login" ELSE IF m = "recovery" THEN "recovery" ELSE "school"
FaultyRecoveryNext(m) == IF m = "anonymous" THEN "login" ELSE "start"
RecoveryNext(m) ==
    IF m = "anonymous" THEN "login" ELSE IF m = "recovery" THEN "recovery" ELSE "start"
NextPage(page, m) ==
    CASE page = "start" -> StartNext(m) [] page = "connect" -> ConnectNext(m)
      [] page = "access" -> AccessNext(m) [] page = "login" -> LoginNext(m)
      [] page = "school" -> SchoolNext(m) [] page = "recovery" -> RecoveryNext(m)

AsksBootstrap(page) == page \notin {"school", "recovery"}
ShowsData(page) == page \in {"school", "recovery", "connect"}
Arrived(tb) == [tb EXCEPT !.page = tb.to, !.to = Rest, !.asked = FALSE, !.hops = 0]
Redirected(tb, page) == [tb EXCEPT !.to = page, !.asked = FALSE, !.hops = @ + 1]

LoadBootstrap(t) ==
    LET tb == tab[t] IN
    /\ Quiet(t) /\ tb.to # Rest /\ AsksBootstrap(tb.to)
    /\ \/ tb.knows = "unknown" /\ Put(t, Ask(tb, "getBootstrapStatus"))
       \/ tb.knows = "no" /\ Put(t, IF tb.to = "setup" THEN Arrived(tb) ELSE Redirected(tb, "setup"))
       \/ tb.knows = "yes" /\ tb.to = "setup" /\ Put(t, Redirected(tb, "start"))
    /\ UNCHANGED <<installed, sessions, jar, visits, lost>>

ReadyForSession(t) ==
    /\ Quiet(t) /\ tab[t].to \notin {Rest, "setup"}
    /\ AsksBootstrap(tab[t].to) => tab[t].knows = "yes"
(* A fresh answer is used as it is; one older than 15 seconds is asked again. *)
LoadSession(t) ==
    /\ ReadyForSession(t) /\ ~ tab[t].asked
    /\ Put(t, Ask(tab[t], "getAuthSession"))
    /\ UNCHANGED <<installed, sessions, jar, visits, lost>>
LoadPage(t) ==
    LET tb == tab[t]
        next == NextPage(tb.to, MethodOf(tb.session)) IN
    /\ ReadyForSession(t) /\ tb.session # Unread
    /\ \/ next # tb.to /\ Put(t, Redirected(tb, next))
       \/ next = tb.to /\ (ShowsData(tb.to) => tb.shows) /\ Put(t, Arrived(tb))
       \/ next = tb.to /\ ShowsData(tb.to) /\ Put(t, Ask([tb EXCEPT !.asked = TRUE], "getMe"))
    /\ UNCHANGED <<installed, sessions, jar, visits, lost>>

(* The user follows a link, loads the page anew, or comes back to the window. *)
Visit(t, page) ==
    /\ AtRest(t) /\ tab[t].page # Rest
    /\ visits > 0 /\ visits' = visits - 1
    /\ \/ Put(t, [tab[t] EXCEPT !.to = page, !.note = "none"])
       \/ Put(t, Blank(page))
    /\ UNCHANGED <<installed, sessions, jar, lost>>
Focus(t) ==
    /\ AtRest(t) /\ tab[t].page \notin {Rest, "setup"}
    /\ visits > 0 /\ visits' = visits - 1
    /\ \/ Put(t, Ask(tab[t], "getAuthSession"))
       \/ ShowsData(tab[t].page) /\ Put(t, Ask(tab[t], "getMe"))
    /\ UNCHANGED <<installed, sessions, jar, lost>>

------------------------------------------------------------------------------
(* Commands.  Without a token in memory the page sends nothing and says that  *)
(* it could not connect.                                                     *)

Command(tb, sent) == IF tb.token = 0 THEN [tb EXCEPT !.note = "could not connect"] ELSE sent
CommandShapes == {[route |-> [RouteOf(c.op) EXCEPT !.op = ""], has |-> Carries(c)] :
                      c \in SchoolCommands}
SendCommand(t) ==
    /\ AtRest(t) /\ tab[t].page = "school"
    /\ \E shape \in CommandShapes :
           Put(t, Command(tab[t], Sent(tab[t], "command", shape.route, shape.has)))
    /\ UNCHANGED <<installed, sessions, jar, visits, lost>>
SignOut(t) ==
    /\ AtRest(t) /\ tab[t].page \in {"school", "recovery"}
    /\ \E c \in SignOutCommands : Put(t, Command(tab[t], Ask(tab[t], c.op)))
    /\ UNCHANGED <<installed, sessions, jar, visits, lost>>
(* The browser goes to the provider and comes back to the callback. *)
SignIn(t) ==
    /\ AtRest(t) /\ tab[t].page \in {"login", "away"} /\ MayMake
    /\ Put(t, Ask(tab[t], "completeOidcLogin"))
    /\ UNCHANGED <<installed, sessions, jar, visits, lost>>
EnterRecoveryCode(t) ==
    /\ AtRest(t) /\ tab[t].page = "access" /\ MayMake
    /\ Put(t, Ask(tab[t], "consumeRecoveryGrant"))
    /\ UNCHANGED <<installed, sessions, jar, visits, lost>>
ConnectSignIn(t) ==
    /\ AtRest(t) /\ tab[t].page = "connect"
    /\ Put(t, Command(tab[t], Ask(tab[t], "prepareSetupIdentityProvider")))
    /\ UNCHANGED <<installed, sessions, jar, visits, lost>>
(* The wizard's last step: the school is made, and its sign-in is connected   *)
(* now or later.                                                             *)
CreateSchool(t, choice) ==
    /\ AtRest(t) /\ tab[t].page = "setup" /\ tab[t].note = "none" /\ MayMake
    /\ Put(t, [Ask(tab[t], "initializeBootstrap") EXCEPT !.note = choice])
    /\ UNCHANGED <<installed, sessions, jar, visits, lost>>

------------------------------------------------------------------------------
(* The server. *)

Alive(n) == n # 0 /\ sessions[n].alive
Principal(r) == IF Alive(r.cookie) THEN r.cookie ELSE 0
Without(dead) == [n \in DOMAIN sessions |->
                   [sessions[n] EXCEPT !.alive = @ /\ n \notin dead]]
OfAccount(a) == {n \in DOMAIN sessions : sessions[n].account = a}

(* What the use case does to the sessions; an answer to an invalid cookie     *)
(* clears it.                                                                *)
Effect(r, who) ==
    CASE r.op = "logout" -> sessions' = Without({who}) /\ UNCHANGED installed
      [] r.op = "logoutAll" -> sessions' = Without(OfAccount(sessions[who].account)) /\ UNCHANGED installed
      [] r.op = "completeOidcLogin" ->
             /\ \E a \in Users : sessions' =
                    Append(Without({who}), [account |-> a, method |-> "oidc", alive |-> TRUE])
             /\ UNCHANGED installed
      [] r.op = "consumeRecoveryGrant" ->
             /\ \E a \in Users : sessions' =
                    Append(sessions, [account |-> a, method |-> "recovery", alive |-> TRUE])
             /\ UNCHANGED installed
      [] r.op = "initializeBootstrap" ->
             /\ \E a \in Users : sessions' =
                    Append(sessions, [account |-> a, method |-> "setup", alive |-> TRUE])
             /\ installed' = TRUE
      [] OTHER -> UNCHANGED <<sessions, installed>>
Sets(r, status, who) ==
    IF status = 200 /\ r.op \in Makers THEN Len(sessions) + 1
    ELSE IF status = 200 /\ r.op \in {"logout", "logoutAll"} THEN 0
    ELSE IF r.cookie # 0 /\ who = 0 THEN 0 ELSE Unread
Body(r, who) ==
    CASE r.op = "getBootstrapStatus" -> IF installed THEN 1 ELSE 0
      [] OTHER -> who
Serve(t) ==
    LET r == tab[t].request
        who == Principal(r)
        admitted == Admission(r.route, who, r.token, r.has)
        status == IF admitted = 200 /\ r.op = "initializeBootstrap" /\ installed THEN 409
                  ELSE admitted IN
    /\ r.state = "sent"
    /\ IF status = 200 THEN Effect(r, who) ELSE UNCHANGED <<installed, sessions>>
    /\ tab' = [tab EXCEPT ![t].request =
                  [NoRequest EXCEPT
                      !.state = "answered", !.op = r.op, !.status = status, !.body = Body(r, who),
                      !.as = IF status = 200 /\ r.route.csrf THEN who ELSE 0, !.told = r.told,
                      !.sets = Sets(r, status, who)]]
    /\ UNCHANGED <<jar, visits, lost>>

(* Idle and absolute expiry, a disabled account, a lost link. *)
Expire(n) ==
    /\ Alive(n)
    /\ sessions' = Without({n})
    /\ UNCHANGED <<installed, jar, tab, visits, lost>>

------------------------------------------------------------------------------
(* The answer arrives: first the cookie, then the page. *)

Done(tb) == [tb EXCEPT !.request = NoRequest]
Told(tb, n) == [tb EXCEPT !.session = n, !.token = n, !.asked = tb.to # Rest,
                             !.hops = IF n = tb.session THEN @ ELSE 0]
SessionExpired(tb) == [Blank("login") EXCEPT !.page = tb.page]
Reread(tb) == [tb EXCEPT !.session = Unread, !.asked = FALSE, !.shows = FALSE, !.knows = "unknown"]
Failed(tb) == IF tb.to = Rest THEN tb ELSE [Arrived(tb) EXCEPT !.page = "error"]

(* The school is made.  The wizard forgets the setup code, which takes it back  *)
(* to its first page, and goes on: to the start page, or to the provider if     *)
(* there is a token to ask with.                                               *)
HeardCreate(tb) ==
    LET made == [Reread(tb) EXCEPT !.note = "none"] IN
    IF tb.note = "later" THEN [made EXCEPT !.to = "start"]
    ELSE IF made.token = 0 THEN [made EXCEPT !.note = "asks for the code"]
    ELSE Ask(made, "prepareSetupIdentityProvider")
(* The answers a page reads without asking whether its session has expired. *)
OwnAnswers == {"getBootstrapStatus", "getAuthSession", "completeOidcLogin", "logout", "logoutAll",
               "initializeBootstrap", "consumeRecoveryGrant"}
Reaction(tb, r) ==
    IF r.status = 401 /\ r.op \notin OwnAnswers THEN SessionExpired(tb)
    ELSE CASE r.op = "getBootstrapStatus" ->
                  [Done(tb) EXCEPT !.knows = IF r.body = 1 THEN "yes" ELSE "no"]
           [] r.op = "getAuthSession" -> Told(Done(tb), r.body)
           [] r.op = "completeOidcLogin" -> Blank("start")
           [] r.op \in {"logout", "logoutAll"} -> IF r.status = 200 THEN Blank("login") ELSE Done(tb)
           [] r.op = "initializeBootstrap" ->
                  IF r.status = 200 THEN HeardCreate(Done(tb)) ELSE [Done(tb) EXCEPT !.note = "refused"]
           [] r.op = "consumeRecoveryGrant" -> [Reread(Done(tb)) EXCEPT !.to = "connect"]
           [] r.op = "getMe" -> LET heard == [Done(tb) EXCEPT !.shows = TRUE] IN
                                IF tb.to = Rest THEN heard ELSE Arrived(heard)
           [] r.op = "prepareSetupIdentityProvider" /\ r.status = 200 ->
                  [Blank(Rest) EXCEPT !.page = "away"]
           [] OTHER -> Done(tb)
Hear(t) ==
    LET r == tab[t].request IN
    /\ r.state = "answered"
    /\ jar' = IF r.sets = Unread THEN jar ELSE r.sets
    /\ Put(t, Reaction(tab[t], r))
    /\ UNCHANGED <<installed, sessions, visits, lost>>

(* A request or its answer is lost: a loader fails, a form says so. *)
LoseRequest(t) ==
    /\ ~ Quiet(t) /\ lost < MostLost
    /\ lost' = lost + 1
    /\ Put(t, Failed([Done(tab[t]) EXCEPT !.note = "could not connect"]))
    /\ UNCHANGED <<installed, sessions, jar, visits>>

BrowserNext ==
    \/ \E t \in Tabs :
           \/ LoadBootstrap(t) \/ LoadSession(t) \/ LoadPage(t)
           \/ \E page \in WebPages : Visit(t, page)
           \/ Focus(t) \/ SendCommand(t) \/ SignOut(t) \/ SignIn(t)
           \/ EnterRecoveryCode(t) \/ ConnectSignIn(t)
           \/ \E choice \in {"now", "later"} : CreateSchool(t, choice)
           \/ Serve(t) \/ Hear(t) \/ LoseRequest(t)
    \/ \E n \in DOMAIN sessions : Expire(n)
BrowserSpec == BrowserInit /\ [][BrowserNext]_browserVars

------------------------------------------------------------------------------
(* A command runs under the session its tab was last told of, and under no    *)
(* other: somebody may have signed in or out in another tab since the page     *)
(* was opened, and the cookie that goes along is then the new one.             *)
CommandsRunAsTold == \A t \in Tabs :
    LET r == tab[t].request IN r.as # 0 => r.as = r.told

(* No page sends a command that the API refuses for what it lacks: every      *)
(* command that gets past session and token has the key and the revision its    *)
(* operation asks for.                                                        *)
CommandsComeComplete == \A t \in Tabs : tab[t].request.status \notin {400, 428}

(* The loaders never send the user round in a circle: as long as a tab hears  *)
(* of no other session, it is redirected twice at most.                 *)
RedirectsEnd == \A t \in Tabs : tab[t].hops <= 2

(* README: "Open the setup page, paste the bootstrap token when asked, and     *)
(* complete OIDC sign-in as the founding administrator."  While no request     *)
(* is lost, the wizard that has made the school does not ask for the token      *)
(* again instead of going to the provider.                                     *)
SetupConnects == \A t \in Tabs :
    lost = 0 => ~ (tab[t].page = "setup" /\ tab[t].note = "asks for the code")

==============================================================================
