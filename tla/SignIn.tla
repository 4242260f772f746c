------------------------------- MODULE SignIn -------------------------------
(***************************************************************************)
(* Signing in through the school's identity provider: login attempts and   *)
(* their callbacks, one-time invitations that link an identity to an       *)
(* account, the sessions that come of both, and their end.                  *)
(*                                                                         *)
(* Granularity.  A callback claims its attempt in a transaction of its own, *)
(* then exchanges the code and works inside one tenant transaction, whose   *)
(* writes others see when it commits.  Consuming or failing the attempt     *)
(* happens on another connection, at once, before that commit.  A server    *)
(* may die between any two steps.  A request reads its session's row first  *)
(* and judges it in a transaction that begins later.                        *)
(***************************************************************************)
EXTENDS Integers, FiniteSets

CONSTANTS
    Accounts, Subjects,   \* accounts, and subjects the provider vouches for
    Invitations,          \* identity_enrollment_grant rows
    Attempts,             \* oidc_login_transaction rows
    Callbacks,            \* callback requests; each may create one session
    Requests,             \* other requests the server handles at once
    AttemptLife, InvitationLife, IdleLife, AbsoluteLife,
    TouchWindow,          \* last_seen_at is rewritten after this long
    LastMoment,           \* bound: the last moment of the clock
    MostRevisions         \* bound: logouts of all sessions of an account

Unlinked == "none"
Login == "login"      \* an attempt without an invitation
NoSession == "none"

ASSUME SignInAssumption ==
    /\ Login \notin Invitations /\ Unlinked \notin Accounts   \* NULL is no id
    /\ {AttemptLife, InvitationLife, IdleLife, AbsoluteLife} \subseteq Nat \ {0}
    /\ {TouchWindow, LastMoment, MostRevisions} \subseteq Nat

VARIABLES
    moment,       \* the wall clock
    sessionRev,   \* account.session_revision
    link,         \* auth_identity: the account of each subject
    invitation, attempt,
    callback,     \* what each callback has done so far
    session,      \* the session each callback created
    request

signInVars == <<moment, sessionRev, link, invitation, attempt, callback, session, request>>

InvitationRecords ==
    [status : {"absent", "checked", "live", "consumed", "revoked"},
     account : Accounts \cup {Unlinked}, until : Nat]
AttemptRecords ==
    [status : {"absent", "pending", "processing", "consumed", "failed"},
     purpose : Invitations \cup {Login}, until : Nat]
Stages == {"claimed", "exchanging", "verified", "resolved", "written", "consumed"}
CallbackRecords ==
    [stage : Stages, attempt : Attempts, at : Nat, subject : Subjects \cup {Unlinked},
     account : Accounts \cup {Unlinked}, rev : Nat, old : Callbacks \cup {NoSession}]
SessionRecords ==
    [status : {"live", "revoked"}, attempt : Attempts, subject : Subjects,
     account : Accounts, rev : Nat, seen : Nat, idleUntil : Nat, until : Nat]

Waiting == [stage |-> "waiting"]   \* a callback that has not arrived
Over == [stage |-> "over"]         \* a callback that was answered or died
Absent == [status |-> "absent"]    \* no session
Idle == [stage |-> "idle"]

SignInInit ==
    /\ moment = 0
    /\ sessionRev = [a \in Accounts |-> 0]
    /\ link \in [Subjects -> Accounts \cup {Unlinked}]
    /\ invitation = [i \in Invitations |->
                      [status |-> "absent", account |-> Unlinked, until |-> 0]]
    /\ attempt = [x \in Attempts |-> [status |-> "absent", purpose |-> Login, until |-> 0]]
    /\ callback = [k \in Callbacks |-> Waiting]
    /\ session = [k \in Callbacks |-> Absent]
    /\ request = [r \in Requests |-> Idle]

---------------------------------------------------------------------------
(* Helpers.                                                                *)

In(k, stage) == callback[k].stage = stage
Running(k) == callback[k].stage \in Stages
PurposeOf(k) == attempt[callback[k].attempt].purpose

(* SELECT ... FOR UPDATE locks the invitation and, through the join, its    *)
(* account, to the end of the callback's transaction.                      *)
Locks(k, a) ==
    Running(k) /\ callback[k].stage \in {"resolved", "written", "consumed"}
               /\ PurposeOf(k) # Login /\ callback[k].account = a
AccountIsFree(a) == \A k \in Callbacks : ~ Locks(k, a)

(* Inserted, not committed: the unique index makes other inserts wait.     *)
InsertsLink(k, s) ==
    Running(k) /\ callback[k].stage \in {"written", "consumed"}
               /\ PurposeOf(k) # Login /\ callback[k].subject = s

Usable(k) ==
    /\ session[k].status = "live"
    /\ moment < session[k].idleUntil /\ moment < session[k].until
    /\ session[k].rev = sessionRev[session[k].account]

HasIdentity(a) == \E s \in Subjects : link[s] = a

(* The partial unique index: not consumed, not revoked.  Expiry is not in it. *)
MayInsert(a) ==
    \A i \in Invitations : invitation[i].status = "live" => invitation[i].account # a

Redeemable(i, at) == invitation[i].status = "live" /\ at < invitation[i].until

---------------------------------------------------------------------------
(* Invitations.                                                            *)

CheckInvitee(i, a) ==
    /\ invitation[i].status = "absent"
    /\ ~ HasIdentity(a)
    /\ invitation' = [invitation EXCEPT ![i] =
                        [status |-> "checked", account |-> a, until |-> moment + InvitationLife]]
    /\ UNCHANGED <<moment, sessionRev, link, attempt, callback, session, request>>

InsertInvitation(i) ==
    /\ invitation[i].status = "checked"
    /\ \/ /\ MayInsert(invitation[i].account)
          /\ invitation' = [invitation EXCEPT ![i].status = "live"]
       \/ /\ ~ MayInsert(invitation[i].account)
          /\ invitation' = [invitation EXCEPT ![i] =
                               [status |-> "absent", account |-> Unlinked, until |-> 0]]
    /\ UNCHANGED <<moment, sessionRev, link, attempt, callback, session, request>>

RevokeInvitation(i) ==
    /\ AccountIsFree(invitation[i].account)
    /\ Redeemable(i, moment)
    /\ invitation' = [invitation EXCEPT ![i].status = "revoked"]
    /\ UNCHANGED <<moment, sessionRev, link, attempt, callback, session, request>>

---------------------------------------------------------------------------
(* Attempts and their callbacks.                                           *)

StartAttempt(x, purpose) ==
    /\ attempt[x].status = "absent"
    /\ purpose # Login => Redeemable(purpose, moment)
    /\ attempt' = [attempt EXCEPT ![x] = [status |-> "pending", purpose |-> purpose,
                                          until |-> moment + AttemptLife]]
    /\ UNCHANGED <<moment, sessionRev, link, invitation, callback, session, request>>

FaultyClaimable(x) == attempt[x].status \in {"pending", "processing"}
Claimable(x) == attempt[x].status = "pending"

(* The claim, and the session the browser already had, judged before it. *)
Claim(k, x, old) ==
    /\ In(k, "waiting")
    /\ Claimable(x)
    /\ old # NoSession => Usable(old)
    /\ attempt' = [attempt EXCEPT ![x].status = "processing"]
    /\ callback' = [callback EXCEPT ![k] =
                      [stage |-> "claimed", attempt |-> x, at |-> moment, old |-> old,
                       subject |-> Unlinked, account |-> Unlinked, rev |-> 0]]
    /\ UNCHANGED <<moment, sessionRev, link, invitation, session, request>>

(* Expiry, binding, provider revision: then the exchange, transaction open. *)
BeginExchange(k) ==
    /\ In(k, "claimed")
    /\ callback[k].at < attempt[callback[k].attempt].until
    /\ callback' = [callback EXCEPT ![k].stage = "exchanging"]
    /\ UNCHANGED <<moment, sessionRev, link, invitation, attempt, session, request>>

Exchange(k, s) ==
    /\ In(k, "exchanging")
    /\ callback' = [callback EXCEPT ![k].stage = "verified", ![k].subject = s,
                                    ![k].at = moment]
    /\ UNCHANGED <<moment, sessionRev, link, invitation, attempt, session, request>>

(* finalizeLogin: the identity's account and its revision, unlocked.       *)
ResolveLogin(k) ==
    LET a == link[callback[k].subject] IN
    /\ In(k, "verified") /\ PurposeOf(k) = Login
    /\ a # Unlinked
    /\ callback' = [callback EXCEPT ![k].stage = "resolved", ![k].account = a,
                                    ![k].rev = sessionRev[a]]
    /\ UNCHANGED <<moment, sessionRev, link, invitation, attempt, session, request>>

(* An unknown identity: the attempt is consumed and no session is made.    *)
RefuseLogin(k) ==
    /\ In(k, "verified") /\ PurposeOf(k) = Login
    /\ link[callback[k].subject] = Unlinked
    /\ attempt' = [attempt EXCEPT ![callback[k].attempt].status = "consumed"]
    /\ callback' = [callback EXCEPT ![k] = Over]
    /\ UNCHANGED <<moment, sessionRev, link, invitation, session, request>>

FaultyMayLink(s, a) == TRUE                          \* conflict unnoticed
(* The identity is new, or already this account's.                         *)
MayLink(s, a) == link[s] \in {Unlinked, a}

(* finalizeEnrollment: lock the invitation, judge it as of before the wait. *)
ResolveEnrollment(k) ==
    /\ In(k, "verified") /\ PurposeOf(k) # Login
    /\ LET i == PurposeOf(k)  a == invitation[i].account IN
       /\ AccountIsFree(a)
       /\ Redeemable(i, callback[k].at)
       /\ MayLink(callback[k].subject, a)
       /\ callback' = [callback EXCEPT ![k].stage = "resolved", ![k].account = a,
                                       ![k].rev = sessionRev[a]]
    /\ UNCHANGED <<moment, sessionRev, link, invitation, attempt, session, request>>

(* The link (new ones wait for the index, and fail if it was taken), the    *)
(* invitation's consumption and the session are written, not committed.    *)
WriteResult(k) ==
    LET s == callback[k].subject IN
    /\ In(k, "resolved")
    /\ PurposeOf(k) # Login =>
          /\ \A other \in Callbacks : ~ InsertsLink(other, s)
          /\ MayLink(s, callback[k].account)
    /\ callback' = [callback EXCEPT ![k].stage = "written"]
    /\ UNCHANGED <<moment, sessionRev, link, invitation, attempt, session, request>>

FaultyConsumeAttempt(k) ==                           \* left for a later clean-up
    /\ In(k, "written")
    /\ callback' = [callback EXCEPT ![k].stage = "consumed"]
    /\ UNCHANGED <<moment, sessionRev, link, invitation, attempt, session, request>>

ConsumeAttempt(k) ==
    /\ In(k, "written")
    /\ attempt' = [attempt EXCEPT ![callback[k].attempt].status =
                     IF @ = "processing" THEN "consumed" ELSE @]
    /\ callback' = [callback EXCEPT ![k].stage = "consumed"]
    /\ UNCHANGED <<moment, sessionRev, link, invitation, session, request>>

FaultyRedeemed(k) == invitation                      \* grant not consumed
Redeemed(k) ==
    IF PurposeOf(k) = Login THEN invitation
    ELSE [invitation EXCEPT ![PurposeOf(k)].status = "consumed"]

NewSession(k) ==
    [status |-> "live", attempt |-> callback[k].attempt, subject |-> callback[k].subject,
     account |-> callback[k].account, rev |-> callback[k].rev, seen |-> callback[k].at,
     idleUntil |-> callback[k].at + IdleLife, until |-> callback[k].at + AbsoluteLife]

Revoked(K) ==
    [k \in Callbacks |-> IF k \in K /\ session[k] # Absent
                         THEN [session[k] EXCEPT !.status = "revoked"] ELSE session[k]]

(* Only logins supersede the session the browser had. *)
CommitCallback(k) ==
    LET superseded == IF PurposeOf(k) = Login THEN {callback[k].old} ELSE {} IN
    /\ In(k, "consumed")
    /\ session' = [Revoked(superseded) EXCEPT ![k] = NewSession(k)]
    /\ invitation' = Redeemed(k)
    /\ link' = IF PurposeOf(k) # Login /\ link[callback[k].subject] = Unlinked
               THEN [link EXCEPT ![callback[k].subject] = callback[k].account] ELSE link
    /\ callback' = [callback EXCEPT ![k] = Over]
    /\ UNCHANGED <<moment, sessionRev, attempt, request>>

(* A check fails, or the provider does: markFailed, on another connection.  *)
FailCallback(k) ==
    /\ In(k, "claimed") \/ In(k, "exchanging") \/ (In(k, "verified") /\ PurposeOf(k) # Login)
    /\ attempt' = [attempt EXCEPT ![callback[k].attempt].status =
                     IF @ = "processing" THEN "failed" ELSE @]
    /\ callback' = [callback EXCEPT ![k] = Over]
    /\ UNCHANGED <<moment, sessionRev, link, invitation, session, request>>

(* The server dies or the transaction fails: nothing of it remains.        *)
LoseCallback(k) ==
    /\ Running(k)
    /\ callback' = [callback EXCEPT ![k] = Over]
    /\ UNCHANGED <<moment, sessionRev, link, invitation, attempt, session, request>>

---------------------------------------------------------------------------
(* Requests.                                                               *)

FindSession(r, k) ==
    /\ request[r] = Idle
    /\ session[k].status = "live"
    /\ request' = [request EXCEPT ![r] =
                     [stage |-> "found", of |-> k, since |-> sessionRev[session[k].account]]]
    /\ UNCHANGED <<moment, sessionRev, link, invitation, attempt, callback, session>>

FaultyStillValid(k) == moment < session[k].idleUntil /\ moment < session[k].until
(* Revocation was judged when the row was found; the rest is judged now.   *)
StillValid(k) ==
    /\ moment < session[k].idleUntil /\ moment < session[k].until
    /\ session[k].rev = sessionRev[session[k].account]

ValidateSession(r) ==
    LET k == request[r].of IN
    /\ request[r].stage = "found"
    /\ StillValid(k)
    /\ request' = [request EXCEPT ![r].stage = "admitted"]
    /\ session' = IF moment >= session[k].seen + TouchWindow
                  THEN [session EXCEPT ![k].seen = moment] ELSE session
    /\ UNCHANGED <<moment, sessionRev, link, invitation, attempt, callback>>

EndRequest(r) ==
    /\ request[r] # Idle
    /\ request' = [request EXCEPT ![r] = Idle]
    /\ UNCHANGED <<moment, sessionRev, link, invitation, attempt, callback, session>>

Logout(r) ==
    /\ request[r].stage = "admitted"
    /\ session' = Revoked({request[r].of})
    /\ request' = [request EXCEPT ![r] = Idle]
    /\ UNCHANGED <<moment, sessionRev, link, invitation, attempt, callback>>

(* The account's revision grows and every committed session is revoked.    *)
LogoutAll(r) ==
    LET a == session[request[r].of].account IN
    /\ request[r].stage = "admitted"
    /\ AccountIsFree(a)
    /\ sessionRev[a] < MostRevisions
    /\ sessionRev' = [sessionRev EXCEPT ![a] = @ + 1]
    /\ session' = Revoked({k \in Callbacks : session[k] # Absent /\ session[k].account = a})
    /\ request' = [request EXCEPT ![r] = Idle]
    /\ UNCHANGED <<moment, link, invitation, attempt, callback>>

MomentPasses ==
    /\ moment < LastMoment
    /\ moment' = moment + 1
    /\ UNCHANGED <<sessionRev, link, invitation, attempt, callback, session, request>>

SignInNext ==
    \/ \E i \in Invitations :
          (\E a \in Accounts : CheckInvitee(i, a)) \/ InsertInvitation(i) \/ RevokeInvitation(i)
    \/ \E x \in Attempts, purpose \in Invitations \cup {Login} : StartAttempt(x, purpose)
    \/ \E k \in Callbacks, x \in Attempts, old \in Callbacks \cup {NoSession} : Claim(k, x, old)
    \/ \E k \in Callbacks :
          \/ BeginExchange(k) \/ (\E s \in Subjects : Exchange(k, s))
          \/ ResolveLogin(k) \/ RefuseLogin(k) \/ ResolveEnrollment(k)
          \/ WriteResult(k) \/ ConsumeAttempt(k) \/ CommitCallback(k)
          \/ FailCallback(k) \/ LoseCallback(k)
    \/ \E r \in Requests :
          \/ (\E k \in Callbacks : FindSession(r, k)) \/ ValidateSession(r)
          \/ EndRequest(r) \/ Logout(r) \/ LogoutAll(r)
    \/ MomentPasses

SignInSpec == SignInInit /\ [][SignInNext]_signInVars

---------------------------------------------------------------------------
(* Properties.                                                             *)

Sessions == {k \in Callbacks : session[k] # Absent}
InvitationOf(k) == attempt[session[k].attempt].purpose

(* A sign-in attempt gives at most one session, however often its callback *)
(* is delivered or replayed, and the attempt is spent before the session   *)
(* can be seen, wherever the server dies.                                   *)
SignInOnce ==
    \A k \in Sessions :
        /\ attempt[session[k].attempt].status = "consumed"
        /\ \A other \in Sessions : session[other].attempt = session[k].attempt => other = k

(* Exactly the consumed invitations have signed someone in, once, into the *)
(* invited account; racing callbacks and revocations do not change that.   *)
InvitationLinksOnce ==
    \A i \in Invitations :
        LET redeemers == {k \in Sessions : InvitationOf(k) = i} IN
        /\ Cardinality(redeemers) = IF invitation[i].status = "consumed" THEN 1 ELSE 0
        /\ \A k \in redeemers : session[k].account = invitation[i].account

(* A session belongs to the account its identity is linked to: two         *)
(* invitations redeemed at once by one identity never sign it into both.    *)
SessionsFollowLinks ==
    \A k \in Sessions : link[session[k].subject] = session[k].account

(* A request that arrives after a logout of all sessions is not admitted    *)
(* by a session whose sign-in had read the account before that logout,      *)
(* even if the session was committed after it and so was never revoked.     *)
LogoutAllIsFinal ==
    \A r \in Requests : request[r].stage = "admitted" =>
        request[r].since <= session[request[r].of].rev

===========================================================================
