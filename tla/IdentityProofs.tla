--------------------------- MODULE IdentityProofs ---------------------------
(***************************************************************************)
(* Theorems about who gets a session, for any accounts, invitations,        *)
(* attempts, codes, ceremonies, providers and requests.                     *)
(*                                                                         *)
(* Sign-in: one session per attempt, one account per identity and            *)
(* invitation, and no admission by what a logout of all has ended.  The      *)
(* invariant, SignInOK, says what a callback holds while it runs: its        *)
(* attempt, from the claim on; the invitation and its account, from the       *)
(* lock on; the entry of the unique index on identities, from the insert on; *)
(* and that the revision it read can only be older than the account's.       *)
(*                                                                         *)
(* Installation: one school, one provider, and no temporary session that     *)
(* outlives its purpose, by the invariant InstallationOK.                    *)
(***************************************************************************)
EXTENDS SignIn, Installation, FiniteSetTheorems, TLAPS

(* Sign-in. *)

RequestRecords ==
    {Idle} \cup [stage : {"found", "admitted"}, of : Callbacks, since : Nat]

(* Every variable keeps its type. *)
SignInTypeOK ==
    /\ moment \in Nat
    /\ sessionRev \in [Accounts -> Nat]
    /\ link \in [Subjects -> Accounts \cup {Unlinked}]
    /\ invitation \in [Invitations -> InvitationRecords]
    /\ attempt \in [Attempts -> AttemptRecords]
    /\ callback \in [Callbacks -> CallbackRecords \cup {Waiting, Over}]
    /\ session \in [Callbacks -> SessionRecords \cup {Absent}]
    /\ request \in [Requests -> RequestRecords]

Verified == {"verified", "resolved", "written", "consumed"}
Resolved == {"resolved", "written", "consumed"}
Enrolling(k) == Running(k) /\ callback[k].stage \in Resolved /\ PurposeOf(k) # Login

(* What the rows and the callbacks say is there once their stage says so. *)
StagesTell ==
    /\ \A i \in Invitations : invitation[i].status # "absent" =>
          invitation[i].account \in Accounts
    /\ \A k \in Callbacks :
          /\ callback[k].stage \in Verified => callback[k].subject \in Subjects
          /\ callback[k].stage \in Resolved => callback[k].account \in Accounts
          /\ session[k] # Absent => callback[k] = Over
    /\ \A r \in Requests : request[r] # Idle => session[request[r].of] # Absent

(* A running callback has its attempt to itself and spends it before it     *)
(* commits.                                                                 *)
AttemptsSpent ==
    /\ \A k \in Callbacks : Running(k) =>
          /\ attempt[callback[k].attempt].status =
                IF callback[k].stage = "consumed" THEN "consumed" ELSE "processing"
          /\ \A other \in Callbacks :
                Running(other) /\ callback[other].attempt = callback[k].attempt => other = k
          /\ \A other \in Sessions : session[other].attempt # callback[k].attempt
    /\ SignInOnce

(* Revisions read are never ahead of the account's. *)
RevisionsGrow ==
    /\ \A k \in Callbacks : callback[k].stage \in Resolved =>
          callback[k].rev <= sessionRev[callback[k].account]
    /\ \A k \in Sessions : session[k].rev <= sessionRev[session[k].account]
    /\ \A r \in Requests : request[r] # Idle =>
          request[r].since <= sessionRev[session[request[r].of].account]
    /\ LogoutAllIsFinal

(* An identity stays with the account a callback found it linked to, or is  *)
(* about to link it to.                                                     *)
LinksHold ==
    /\ \A k \in Callbacks : callback[k].stage \in Resolved /\ PurposeOf(k) = Login =>
          link[callback[k].subject] = callback[k].account
    /\ \A k \in Callbacks : InsertsLink(k, callback[k].subject) =>
          /\ MayLink(callback[k].subject, callback[k].account)
          /\ \A other \in Callbacks : InsertsLink(other, callback[k].subject) => other = k
    /\ SessionsFollowLinks

(* An enrolling callback has a live invitation of its account, and both to  *)
(* itself; exactly the consumed invitations have a session.                 *)
InvitationsHold ==
    /\ \A k \in Callbacks : Enrolling(k) =>
          /\ invitation[PurposeOf(k)].status = "live"
          /\ invitation[PurposeOf(k)].account = callback[k].account
          /\ \A other \in Callbacks : Locks(other, callback[k].account) => other = k
    /\ \A k \in Sessions : InvitationOf(k) # Login =>
          /\ invitation[InvitationOf(k)].status = "consumed"
          /\ invitation[InvitationOf(k)].account = session[k].account
          /\ \A other \in Sessions : InvitationOf(other) = InvitationOf(k) => other = k
    /\ \A i \in Invitations : invitation[i].status = "consumed" =>
          \E k \in Sessions : InvitationOf(k) = i

SignInOK ==
    /\ SignInTypeOK /\ StagesTell
    /\ AttemptsSpent /\ RevisionsGrow /\ LinksHold /\ InvitationsHold

---------------------------------------------------------------------------
(* What the steps of a callback do to it.                                  *)

(* The stages are told apart from those of callbacks that do not run. *)
LEMMA RunningIsARecord ==
    ASSUME SignInTypeOK, NEW k \in Callbacks
    PROVE  /\ Running(k) <=> callback[k] \in CallbackRecords
           /\ callback[k].stage \in Resolved => Running(k)
           /\ callback[k].stage \in Verified => Running(k)
           /\ Running(k) => /\ callback[k].attempt \in Attempts
                            /\ callback[k].at \in Nat /\ callback[k].rev \in Nat
                            /\ PurposeOf(k) \in Invitations \cup {Login}
                            /\ callback[k].old \in Callbacks \cup {NoSession}
<1>1. callback[k] \in CallbackRecords \cup {Waiting, Over}
  BY DEF SignInTypeOK
<1>2. \A b \in CallbackRecords :
        b.stage \in Stages /\ b.attempt \in Attempts /\ b.at \in Nat /\ b.rev \in Nat
        /\ b.old \in Callbacks \cup {NoSession}
  BY DEF CallbackRecords
<1>3. Waiting.stage \notin Stages /\ Over.stage \notin Stages
  BY DEF Waiting, Over, Stages
<1>4. Resolved \subseteq Stages /\ Verified \subseteq Stages
  BY DEF Resolved, Verified, Stages
<1>5. \A x \in Attempts : attempt[x].purpose \in Invitations \cup {Login}
  BY DEF SignInTypeOK, AttemptRecords
<1> QED
  BY <1>1, <1>2, <1>3, <1>4, <1>5 DEF Running, PurposeOf

(* A callback with another stage is a callback with that stage. *)
LEMMA StageMoved ==
    ASSUME NEW b \in CallbackRecords, NEW st \in Stages, NEW new, new = [b EXCEPT !.stage = st]
    PROVE  /\ new \in CallbackRecords /\ new.stage = st
           /\ new.attempt = b.attempt /\ new.subject = b.subject
           /\ new.account = b.account /\ new.rev = b.rev
BY DEF CallbackRecords

(* Callback k goes to a stage with its attempt, and the others stay. *)
GoesTo(k, stage) ==
    /\ Running(k)
    /\ callback' \in [Callbacks -> CallbackRecords \cup {Waiting, Over}]
    /\ callback'[k] \in CallbackRecords
    /\ callback'[k].stage = stage
    /\ callback'[k].attempt = callback[k].attempt
    /\ \A other \in Callbacks \ {k} : callback'[other] = callback[other]
Same(k) ==
    /\ callback'[k].subject = callback[k].subject
    /\ callback'[k].account = callback[k].account
    /\ callback'[k].rev = callback[k].rev
Ends(k) ==
    /\ callback' \in [Callbacks -> CallbackRecords \cup {Waiting, Over}]
    /\ callback'[k] = Over
    /\ \A other \in Callbacks \ {k} : callback'[other] = callback[other]

(* A stage move, as written in the actions. *)
LEMMA MovesStage ==
    ASSUME SignInTypeOK, NEW k \in Callbacks, Running(k), NEW st \in Stages,
           callback' = [callback EXCEPT ![k].stage = st]
    PROVE  GoesTo(k, st) /\ Same(k)
<1>1. callback[k] \in CallbackRecords
  BY RunningIsARecord
<1>2. callback' = [callback EXCEPT ![k] = [callback[k] EXCEPT !.stage = st]]
  BY <1>1 DEF SignInTypeOK
<1>3. callback'[k] = [callback[k] EXCEPT !.stage = st]
  BY <1>2 DEF SignInTypeOK
<1>4. callback'[k] \in CallbackRecords /\ callback'[k].stage = st
      /\ callback'[k].attempt = callback[k].attempt /\ Same(k)
  BY <1>1, <1>3, StageMoved DEF Same
<1> QED
  BY <1>2, <1>4 DEF GoesTo, SignInTypeOK

(* The exchange. *)
LEMMA Exchanges ==
    ASSUME SignInTypeOK, NEW k \in Callbacks, NEW s \in Subjects, Exchange(k, s)
    PROVE  GoesTo(k, "verified") /\ callback'[k].subject = s
<1>0. Running(k)
  BY DEF Exchange, In, Running, Stages
<1>1. callback[k] \in CallbackRecords /\ moment \in Nat
  BY <1>0, RunningIsARecord DEF SignInTypeOK
<1>2. callback' = [callback EXCEPT ![k] =
        [callback[k] EXCEPT !.stage = "verified", !.subject = s, !.at = moment]]
  BY <1>1 DEF SignInTypeOK, Exchange
<1> DEFINE c == [callback[k] EXCEPT !.stage = "verified"]  d == [c EXCEPT !.subject = s]
<1>3. callback'[k] = [d EXCEPT !.at = moment]
  <2>1. callback'[k] = [callback[k] EXCEPT !.stage = "verified", !.subject = s, !.at = moment]
    BY <1>2 DEF SignInTypeOK
  <2> QED
    BY <2>1, Zenon
<1>4. c \in CallbackRecords /\ c.stage = "verified" /\ c.attempt = callback[k].attempt
  BY <1>1, StageMoved DEF Stages
<1> HIDE DEF c
<1>5. d \in CallbackRecords /\ d.stage = c.stage /\ d.attempt = c.attempt /\ d.subject = s
  BY <1>4 DEF CallbackRecords
<1> HIDE DEF d
<1>6. callback'[k] \in CallbackRecords /\ callback'[k].stage = d.stage
      /\ callback'[k].attempt = d.attempt /\ callback'[k].subject = d.subject
  BY <1>1, <1>3, <1>5 DEF CallbackRecords
<1> QED
  BY <1>0, <1>2, <1>4, <1>5, <1>6 DEF GoesTo, SignInTypeOK

(* The account resolved, for a login or an invitation. *)
LEMMA Resolves ==
    ASSUME SignInTypeOK, NEW k \in Callbacks, In(k, "verified"), NEW a \in Accounts,
           callback' = [callback EXCEPT ![k].stage = "resolved", ![k].account = a,
                                        ![k].rev = sessionRev[a]]
    PROVE  /\ GoesTo(k, "resolved") /\ callback'[k].subject = callback[k].subject
           /\ callback'[k].account = a /\ callback'[k].rev = sessionRev[a]
<1>0. Running(k)
  BY DEF In, Running, Stages
<1>1. callback[k] \in CallbackRecords /\ sessionRev[a] \in Nat
  BY <1>0, RunningIsARecord DEF SignInTypeOK
<1>2. callback' = [callback EXCEPT ![k] =
        [callback[k] EXCEPT !.stage = "resolved", !.account = a, !.rev = sessionRev[a]]]
  BY <1>1 DEF SignInTypeOK
<1> DEFINE c == [callback[k] EXCEPT !.stage = "resolved"]  d == [c EXCEPT !.account = a]
<1>3. callback'[k] = [d EXCEPT !.rev = sessionRev[a]]
  <2>1. callback'[k] = [callback[k] EXCEPT !.stage = "resolved", !.account = a,
                                           !.rev = sessionRev[a]]
    BY <1>2 DEF SignInTypeOK
  <2> QED
    BY <2>1, Zenon
<1>4. c \in CallbackRecords /\ c.stage = "resolved" /\ c.attempt = callback[k].attempt
      /\ c.subject = callback[k].subject
  BY <1>1, StageMoved DEF Stages
<1> HIDE DEF c
<1>5. d \in CallbackRecords /\ d.stage = c.stage /\ d.attempt = c.attempt
      /\ d.subject = c.subject /\ d.account = a
  BY <1>4 DEF CallbackRecords
<1> HIDE DEF d
<1> DEFINE n == sessionRev[a]  e == [d EXCEPT !.rev = n]
<1>6. n \in Nat /\ callback'[k] = e
  BY <1>1, <1>3
<1> HIDE DEF n
<1>7. e \in CallbackRecords /\ e.stage = d.stage /\ e.attempt = d.attempt
      /\ e.subject = d.subject /\ e.account = d.account /\ e.rev = n
  BY <1>5, <1>6 DEF CallbackRecords
<1> HIDE DEF e
<1> QED
  BY <1>0, <1>2, <1>4, <1>5, <1>6, <1>7 DEF GoesTo, SignInTypeOK, n

(* The end of a callback. *)
LEMMA CallbackEnds ==
    ASSUME SignInTypeOK, NEW k \in Callbacks, callback' = [callback EXCEPT ![k] = Over]
    PROVE  Ends(k)
BY DEF Ends, SignInTypeOK

(* A step of callback k leaves the other attempts, and every purpose. *)
OnlyItsAttempt(k) ==
    /\ attempt' \in [Attempts -> AttemptRecords]
    /\ \A x \in Attempts : attempt'[x].purpose = attempt[x].purpose
    /\ \A x \in Attempts \ {callback[k].attempt} : attempt'[x] = attempt[x]

(* Consuming or failing an attempt changes its status only. *)
LEMMA SpendsAttempt ==
    ASSUME SignInTypeOK, NEW k \in Callbacks, Running(k), NEW st \in {"consumed", "failed"},
           \/ attempt' = [attempt EXCEPT ![callback[k].attempt].status = st]
           \/ attempt' = [attempt EXCEPT ![callback[k].attempt].status =
                                IF @ = "processing" THEN st ELSE @]
    PROVE  OnlyItsAttempt(k)
<1>1. callback[k].attempt \in Attempts
  BY RunningIsARecord
<1>2. \A x \in Attempts : attempt[x] \in AttemptRecords
  BY DEF SignInTypeOK
<1>3. CASE attempt' = [attempt EXCEPT ![callback[k].attempt].status = st]
  BY <1>1, <1>2, <1>3 DEF OnlyItsAttempt, SignInTypeOK, AttemptRecords
<1>4. CASE attempt' = [attempt EXCEPT ![callback[k].attempt].status =
                                IF @ = "processing" THEN st ELSE @]
  BY <1>1, <1>2, <1>4 DEF OnlyItsAttempt, SignInTypeOK, AttemptRecords
<1> QED
  BY <1>3, <1>4

(* A step of a callback, before its commit. *)
CallbackStep(k) ==
    \/ BeginExchange(k) \/ (\E s \in Subjects : Exchange(k, s))
    \/ ResolveLogin(k) \/ ResolveEnrollment(k) \/ WriteResult(k) \/ ConsumeAttempt(k)
CallbackStops(k) == RefuseLogin(k) \/ FailCallback(k) \/ LoseCallback(k)

(* What a callback's step before its commit does, stage by stage. *)
LEMMA StepsOfACallback ==
    ASSUME SignInTypeOK, StagesTell, NEW k \in Callbacks, CallbackStep(k)
    PROVE  /\ UNCHANGED <<moment, sessionRev, link, invitation, session, request>>
           /\ OnlyItsAttempt(k)
           /\ callback[k].stage # "written" => UNCHANGED attempt
           /\ \/ /\ callback[k].stage = "claimed" /\ GoesTo(k, "exchanging")
              \/ /\ callback[k].stage = "exchanging" /\ GoesTo(k, "verified")
                 /\ callback'[k].subject \in Subjects
              \/ /\ callback[k].stage = "verified" /\ GoesTo(k, "resolved")
                 /\ callback'[k].subject = callback[k].subject
                 /\ callback'[k].account \in Accounts
                 /\ callback'[k].rev = sessionRev[callback'[k].account]
                 /\ \/ /\ PurposeOf(k) = Login
                       /\ callback'[k].account = link[callback[k].subject]
                    \/ /\ PurposeOf(k) # Login
                       /\ callback'[k].account = invitation[PurposeOf(k)].account
                       /\ invitation[PurposeOf(k)].status = "live"
                       /\ AccountIsFree(callback'[k].account)
              \/ /\ callback[k].stage = "resolved" /\ GoesTo(k, "written") /\ Same(k)
                 /\ PurposeOf(k) # Login =>
                       /\ \A other \in Callbacks : ~ InsertsLink(other, callback[k].subject)
                       /\ MayLink(callback[k].subject, callback[k].account)
              \/ /\ callback[k].stage = "written" /\ GoesTo(k, "consumed") /\ Same(k)
                 /\ attempt[callback[k].attempt].status = "processing" =>
                       attempt'[callback[k].attempt].status = "consumed"
<1>0. UNCHANGED attempt => OnlyItsAttempt(k)
  BY DEF OnlyItsAttempt, SignInTypeOK
<1>1. CASE BeginExchange(k)
  BY <1>0, <1>1, MovesStage DEF BeginExchange, In, Running, Stages
<1>2. ASSUME NEW s \in Subjects, Exchange(k, s)
      PROVE  /\ callback[k].stage = "exchanging" /\ GoesTo(k, "verified")
             /\ callback'[k].subject \in Subjects
             /\ UNCHANGED <<moment, sessionRev, link, invitation, attempt, session, request>>
  BY <1>2, Exchanges DEF Exchange, In
<1>3. CASE ResolveLogin(k)
  <2>1. callback[k].subject \in Subjects
    BY <1>3 DEF ResolveLogin, In, StagesTell, Verified
  <2>2. link[callback[k].subject] \in Accounts
    BY <1>3, <2>1 DEF ResolveLogin, SignInTypeOK
  <2> QED
    BY <1>0, <1>3, <2>2, Resolves DEF ResolveLogin, In
<1>4. CASE ResolveEnrollment(k)
  <2>1. Running(k) /\ PurposeOf(k) \in Invitations
    BY <1>4, RunningIsARecord DEF ResolveEnrollment, In, Verified
  <2>2. invitation[PurposeOf(k)].account \in Accounts
    BY <1>4, <2>1 DEF ResolveEnrollment, Redeemable, StagesTell
  <2> QED
    BY <1>0, <1>4, <2>2, Resolves DEF ResolveEnrollment, In, Redeemable
<1>5. CASE WriteResult(k)
  <2>1. callback[k].stage = "resolved" /\ GoesTo(k, "written") /\ Same(k)
    BY <1>5, MovesStage DEF WriteResult, In, Running, Stages
  <2> QED
    BY <1>0, <1>5, <2>1 DEF WriteResult
<1>6. CASE ConsumeAttempt(k)
  <2>1. callback[k].stage = "written" /\ GoesTo(k, "consumed") /\ Same(k)
    BY <1>6, MovesStage DEF ConsumeAttempt, In, Running, Stages
  <2>2. OnlyItsAttempt(k)
    BY <1>6, <2>1, SpendsAttempt DEF ConsumeAttempt, GoesTo
  <2>3. attempt[callback[k].attempt].status = "processing" =>
            attempt'[callback[k].attempt].status = "consumed"
    BY <1>6, <2>1, RunningIsARecord DEF ConsumeAttempt, GoesTo, SignInTypeOK, AttemptRecords
  <2> QED
    BY <1>6, <2>1, <2>2, <2>3 DEF ConsumeAttempt
<1> QED
  BY <1>0, <1>1, <1>2, <1>3, <1>4, <1>5, <1>6 DEF CallbackStep

(* A callback that stops leaves nothing but its spent attempt. *)
LEMMA StopsOfACallback ==
    ASSUME SignInTypeOK, NEW k \in Callbacks, CallbackStops(k)
    PROVE  /\ UNCHANGED <<moment, sessionRev, link, invitation, session, request>>
           /\ Running(k) /\ OnlyItsAttempt(k) /\ Ends(k)
<1>1. Running(k)
  BY DEF CallbackStops, RefuseLogin, FailCallback, LoseCallback, In, Running, Stages
<1>2. Ends(k)
  BY CallbackEnds DEF CallbackStops, RefuseLogin, FailCallback, LoseCallback
<1>3. OnlyItsAttempt(k)
  <2>1. CASE UNCHANGED attempt
    BY <2>1 DEF OnlyItsAttempt, SignInTypeOK
  <2>2. CASE RefuseLogin(k)
    BY <1>1, <2>2, SpendsAttempt DEF RefuseLogin
  <2>3. CASE FailCallback(k)
    BY <1>1, <2>3, SpendsAttempt DEF FailCallback
  <2> QED
    BY <2>1, <2>2, <2>3 DEF CallbackStops, LoseCallback
<1> QED
  BY <1>1, <1>2, <1>3 DEF CallbackStops, RefuseLogin, FailCallback, LoseCallback

---------------------------------------------------------------------------
(* What the steps do to sessions.                                          *)

(* Session k is what it was, but for its status and its times. *)
SameSession(k) ==
    /\ session[k] = Absent <=> session'[k] = Absent
    /\ session[k] # Absent =>
          /\ session'[k].attempt = session[k].attempt
          /\ session'[k].subject = session[k].subject
          /\ session'[k].account = session[k].account
          /\ session'[k].rev = session[k].rev

(* A session record is not an absent one; its fields have their types. *)
LEMMA SessionsAreRecords ==
    ASSUME SignInTypeOK, NEW k \in Callbacks, session[k] # Absent
    PROVE  /\ session[k] \in SessionRecords
           /\ session[k].attempt \in Attempts /\ session[k].subject \in Subjects
           /\ session[k].account \in Accounts /\ session[k].rev \in Nat
           /\ session[k].seen \in Nat
BY DEF SignInTypeOK, SessionRecords

(* A session's record is not the sign of no session. *)
LEMMA RecordsAreNotAbsent ==
    ASSUME NEW x \in SessionRecords
    PROVE  x # Absent
BY DEF SessionRecords, Absent

(* Revoking sessions keeps them what they were. *)
LEMMA RevokedSessions ==
    ASSUME SignInTypeOK, NEW K
    PROVE  /\ Revoked(K) \in [Callbacks -> SessionRecords \cup {Absent}]
           /\ \A k \in Callbacks :
                 /\ session[k] = Absent <=> Revoked(K)[k] = Absent
                 /\ session[k] # Absent =>
                       /\ Revoked(K)[k].attempt = session[k].attempt
                       /\ Revoked(K)[k].subject = session[k].subject
                       /\ Revoked(K)[k].account = session[k].account
                       /\ Revoked(K)[k].rev = session[k].rev
<1>1. ASSUME NEW x \in SessionRecords
      PROVE  /\ [x EXCEPT !.status = "revoked"] \in SessionRecords
             /\ [x EXCEPT !.status = "revoked"].attempt = x.attempt
             /\ [x EXCEPT !.status = "revoked"].subject = x.subject
             /\ [x EXCEPT !.status = "revoked"].account = x.account
             /\ [x EXCEPT !.status = "revoked"].rev = x.rev
  BY DEF SessionRecords
<1>2. \A j \in Callbacks : Revoked(K)[j] =
        IF j \in K /\ session[j] # Absent
        THEN [session[j] EXCEPT !.status = "revoked"] ELSE session[j]
  BY DEF Revoked
<1>3. \A j \in Callbacks : session[j] \in SessionRecords \cup {Absent}
  BY DEF SignInTypeOK
<1>4. \A j \in Callbacks : Revoked(K)[j] \in SessionRecords \cup {Absent}
  BY <1>1, <1>2, <1>3
<1>5. Revoked(K) \in [Callbacks -> SessionRecords \cup {Absent}]
  BY <1>4 DEF Revoked
<1> QED
  BY <1>1, <1>2, <1>3, <1>5, RecordsAreNotAbsent

(* A step of a request. *)
RequestStep(r) ==
    \/ (\E k \in Callbacks : FindSession(r, k)) \/ ValidateSession(r)
    \/ EndRequest(r) \/ Logout(r) \/ LogoutAll(r)

(* No request changes whose session it is, or touches a callback. *)
LEMMA RequestsKeepSessions ==
    ASSUME SignInTypeOK, StagesTell, NEW r \in Requests, RequestStep(r)
    PROVE  /\ session' \in [Callbacks -> SessionRecords \cup {Absent}]
           /\ \A k \in Callbacks : SameSession(k)
           /\ UNCHANGED <<moment, link, invitation, attempt, callback>>
<1>1. CASE UNCHANGED session
  BY <1>1 DEF RequestStep, FindSession, ValidateSession, EndRequest, Logout, LogoutAll,
              SignInTypeOK, SameSession
<1>2. ASSUME NEW K, session' = Revoked(K)
      PROVE  /\ session' \in [Callbacks -> SessionRecords \cup {Absent}]
             /\ \A k \in Callbacks : SameSession(k)
  <2> DEFINE revoked == Revoked(K)
  <2>1. session' = revoked
    BY <1>2
  <2>2. /\ revoked \in [Callbacks -> SessionRecords \cup {Absent}]
        /\ \A k \in Callbacks :
              /\ session[k] = Absent <=> revoked[k] = Absent
              /\ session[k] # Absent =>
                    /\ revoked[k].attempt = session[k].attempt
                    /\ revoked[k].subject = session[k].subject
                    /\ revoked[k].account = session[k].account
                    /\ revoked[k].rev = session[k].rev
    BY RevokedSessions
  <2> HIDE DEF revoked
  <2> QED
    BY <2>1, <2>2 DEF SameSession
<1>3. ASSUME ValidateSession(r), ~ UNCHANGED session
      PROVE  /\ session' \in [Callbacks -> SessionRecords \cup {Absent}]
             /\ \A k \in Callbacks : SameSession(k)
  <2> DEFINE k == request[r].of
  <2>1. session' = [session EXCEPT ![k].seen = moment]
    BY <1>3 DEF ValidateSession
  <2>2. k \in Callbacks /\ session[k] # Absent /\ moment \in Nat
    <3>1. request[r] # Idle
      BY <1>3 DEF ValidateSession, Idle
    <3> QED
      BY <3>1 DEF StagesTell, SignInTypeOK, RequestRecords
  <2> HIDE DEF k
  <2>3. [session[k] EXCEPT !.seen = moment] \in SessionRecords
        /\ [session[k] EXCEPT !.seen = moment].attempt = session[k].attempt
        /\ [session[k] EXCEPT !.seen = moment].subject = session[k].subject
        /\ [session[k] EXCEPT !.seen = moment].account = session[k].account
        /\ [session[k] EXCEPT !.seen = moment].rev = session[k].rev
    BY <2>2, SessionsAreRecords DEF SessionRecords
  <2> QED
    BY <2>1, <2>2, <2>3, RecordsAreNotAbsent DEF SameSession, SignInTypeOK
<1> QED
  BY <1>1, <1>2, <1>3
     DEF RequestStep, FindSession, ValidateSession, EndRequest, Logout, LogoutAll

(* The commit of a callback. *)
LEMMA Commits ==
    ASSUME SignInTypeOK, StagesTell, NEW k \in Callbacks, CommitCallback(k)
    PROVE  /\ UNCHANGED <<moment, sessionRev, attempt, request>>
           /\ Running(k) /\ callback[k].stage = "consumed" /\ Ends(k)
           /\ callback[k].subject \in Subjects /\ callback[k].account \in Accounts
           /\ session[k] = Absent
           /\ session' \in [Callbacks -> SessionRecords \cup {Absent}]
           /\ \A j \in Callbacks \ {k} : SameSession(j)
           /\ session'[k] # Absent
           /\ session'[k].attempt = callback[k].attempt
           /\ session'[k].subject = callback[k].subject
           /\ session'[k].account = callback[k].account
           /\ session'[k].rev = callback[k].rev
<1>1. callback[k].stage = "consumed" /\ Running(k)
  BY DEF CommitCallback, In, Running, Stages
<1>2. callback[k].subject \in Subjects /\ callback[k].account \in Accounts
  BY <1>1 DEF StagesTell, Verified, Resolved
<1>3. session[k] = Absent
  BY <1>1 DEF StagesTell, Over
<1>4. NewSession(k) \in SessionRecords
  <2>1. IdleLife \in Nat /\ AbsoluteLife \in Nat
    BY SignInAssumption
  <2> QED
    BY <1>1, <1>2, <2>1, RunningIsARecord DEF NewSession, SessionRecords
<1>5. /\ NewSession(k).attempt = callback[k].attempt
      /\ NewSession(k).subject = callback[k].subject
      /\ NewSession(k).account = callback[k].account
      /\ NewSession(k).rev = callback[k].rev
  BY DEF NewSession
<1>6. PICK K : session' = [Revoked(K) EXCEPT ![k] = NewSession(k)]
  BY DEF CommitCallback
<1>7. Revoked(K) \in [Callbacks -> SessionRecords \cup {Absent}]
  BY RevokedSessions
<1>8. /\ session' \in [Callbacks -> SessionRecords \cup {Absent}]
      /\ session'[k] = NewSession(k)
      /\ \A j \in Callbacks \ {k} : session'[j] = Revoked(K)[j]
  BY <1>4, <1>6, <1>7
<1>9. \A j \in Callbacks \ {k} : SameSession(j)
  BY <1>8, RevokedSessions DEF SameSession
<1>10. Ends(k)
  BY CallbackEnds DEF CommitCallback
<1> QED
  BY <1>1, <1>2, <1>3, <1>4, <1>5, <1>8, <1>9, <1>10, RecordsAreNotAbsent DEF CommitCallback

---------------------------------------------------------------------------
(* Steps that touch neither a callback nor a session.                       *)

(* What a part of the invariant does not read does not disturb it. *)
LEMMA PartsKept ==
    /\ AttemptsSpent /\ UNCHANGED <<attempt, callback, session>> => AttemptsSpent'
    /\ RevisionsGrow /\ UNCHANGED <<sessionRev, callback, session, request>>
         => RevisionsGrow'
    /\ LinksHold /\ UNCHANGED <<link, attempt, callback, session>> => LinksHold'
    /\ InvitationsHold /\ UNCHANGED <<invitation, attempt, callback, session>>
         => InvitationsHold'
    /\ StagesTell /\ UNCHANGED <<invitation, callback, session, request>> => StagesTell'
<1>1. AttemptsSpent /\ UNCHANGED <<attempt, callback, session>> => AttemptsSpent'
  BY DEF AttemptsSpent, Running, SignInOnce, Sessions
<1>2. RevisionsGrow /\ UNCHANGED <<sessionRev, callback, session, request>>
         => RevisionsGrow'
  BY DEF RevisionsGrow, Sessions, LogoutAllIsFinal
<1>3. LinksHold /\ UNCHANGED <<link, attempt, callback, session>> => LinksHold'
  BY DEF LinksHold, PurposeOf, InsertsLink, Running, MayLink, SessionsFollowLinks, Sessions
<1>4. InvitationsHold /\ UNCHANGED <<invitation, attempt, callback, session>>
         => InvitationsHold'
  BY DEF InvitationsHold, Enrolling, Running, PurposeOf, Locks, Sessions, InvitationOf
<1>5. StagesTell /\ UNCHANGED <<invitation, callback, session, request>> => StagesTell'
  BY DEF StagesTell
<1> QED
  BY <1>1, <1>2, <1>3, <1>4, <1>5

InvitationStep(i) ==
    (\E a \in Accounts : CheckInvitee(i, a)) \/ InsertInvitation(i) \/ RevokeInvitation(i)

(* A live invitation is revoked only while no callback has its account      *)
(* locked, and a consumed one stays as it is.                               *)
LEMMA InvitationsMove ==
    ASSUME SignInTypeOK, StagesTell, NEW i \in Invitations, InvitationStep(i)
    PROVE  /\ UNCHANGED <<moment, sessionRev, link, attempt, callback, session, request>>
           /\ invitation' \in [Invitations -> InvitationRecords]
           /\ \A other \in Invitations \ {i} : invitation'[other] = invitation[other]
           /\ invitation[i].status # "consumed" /\ invitation'[i].status # "consumed"
           /\ invitation[i].status = "live" => AccountIsFree(invitation[i].account)
           /\ invitation'[i].status # "absent" => invitation'[i].account \in Accounts
<1>0. invitation[i] \in InvitationRecords
  BY DEF SignInTypeOK
<1>1. ASSUME NEW a \in Accounts, CheckInvitee(i, a)
      PROVE  /\ invitation' = [invitation EXCEPT ![i] =
                   [status |-> "checked", account |-> a, until |-> moment + InvitationLife]]
             /\ [status |-> "checked", account |-> a, until |-> moment + InvitationLife]
                   \in InvitationRecords
  BY <1>1, SignInAssumption DEF CheckInvitee, SignInTypeOK, InvitationRecords
<1>2. CASE InsertInvitation(i)
  <2>1. [invitation[i] EXCEPT !.status = "live"] \in InvitationRecords
        /\ [status |-> "absent", account |-> Unlinked, until |-> 0] \in InvitationRecords
    BY <1>0 DEF InvitationRecords
  <2>2. CASE invitation' = [invitation EXCEPT ![i].status = "live"]
    <3>1. invitation[i].account \in Accounts /\ invitation[i].status = "checked"
      BY <1>2 DEF InsertInvitation, StagesTell
    <3> QED
      BY <1>0, <1>2, <2>1, <2>2, <3>1 DEF InsertInvitation, SignInTypeOK, InvitationRecords
  <2>3. CASE invitation' = [invitation EXCEPT ![i] =
                              [status |-> "absent", account |-> Unlinked, until |-> 0]]
    BY <1>2, <2>1, <2>3 DEF InsertInvitation, SignInTypeOK
  <2> QED
    BY <1>2, <2>2, <2>3 DEF InsertInvitation
<1>3. CASE RevokeInvitation(i)
  <2>1. [invitation[i] EXCEPT !.status = "revoked"] \in InvitationRecords
    BY <1>0 DEF InvitationRecords
  <2> QED
    BY <1>0, <1>3, <2>1
       DEF RevokeInvitation, Redeemable, SignInTypeOK, StagesTell, InvitationRecords
<1>4. ASSUME NEW a \in Accounts, CheckInvitee(i, a)
      PROVE  /\ UNCHANGED <<moment, sessionRev, link, attempt, callback, session, request>>
             /\ invitation' \in [Invitations -> InvitationRecords]
             /\ \A other \in Invitations \ {i} : invitation'[other] = invitation[other]
             /\ invitation[i].status = "absent" /\ invitation'[i].status = "checked"
             /\ invitation'[i].account = a
  BY <1>1, <1>4 DEF CheckInvitee, SignInTypeOK
<1> QED
  BY <1>2, <1>3, <1>4 DEF InvitationStep

(* A step of the invitations keeps the invariant. *)
LEMMA InvitationStepsKeep ==
    ASSUME SignInOK, NEW i \in Invitations, InvitationStep(i)
    PROVE  SignInOK'
<1> USE DEF SignInOK
<1>1. /\ UNCHANGED <<moment, sessionRev, link, attempt, callback, session, request>>
      /\ invitation' \in [Invitations -> InvitationRecords]
      /\ \A other \in Invitations \ {i} : invitation'[other] = invitation[other]
      /\ invitation[i].status # "consumed" /\ invitation'[i].status # "consumed"
      /\ invitation[i].status = "live" => AccountIsFree(invitation[i].account)
      /\ invitation'[i].status # "absent" => invitation'[i].account \in Accounts
  BY InvitationsMove
<1>2. SignInTypeOK' /\ StagesTell'
  BY <1>1 DEF SignInTypeOK, StagesTell
<1>3. AttemptsSpent' /\ RevisionsGrow' /\ LinksHold'
  BY <1>1, PartsKept
<1>4. \A k \in Callbacks : Enrolling(k) => PurposeOf(k) # i
  <2> SUFFICES ASSUME NEW k \in Callbacks, Enrolling(k), PurposeOf(k) = i
               PROVE  FALSE
    OBVIOUS
  <2>1. Locks(k, invitation[i].account) /\ invitation[i].status = "live"
    BY DEF InvitationsHold, Enrolling, Locks, Resolved
  <2> QED
    BY <1>1, <2>1 DEF AccountIsFree
<1>5. \A k \in Callbacks : Enrolling(k) => PurposeOf(k) \in Invitations
  BY RunningIsARecord DEF Enrolling
<1>6. \A k \in Sessions : InvitationOf(k) \in Invitations \cup {Login}
  BY SessionsAreRecords DEF Sessions, InvitationOf, SignInTypeOK, AttemptRecords
<1>7. InvitationsHold'
  <2>1. /\ \A k \in Callbacks : Enrolling(k)' = Enrolling(k) /\ PurposeOf(k)' = PurposeOf(k)
        /\ \A k \in Callbacks : \A a : Locks(k, a)' = Locks(k, a)
        /\ Sessions' = Sessions
        /\ \A k \in Callbacks : InvitationOf(k)' = InvitationOf(k)
    BY <1>1 DEF Enrolling, Running, PurposeOf, Locks, Sessions, InvitationOf
  <2>2. ASSUME NEW k \in Callbacks, Enrolling(k)
        PROVE  invitation'[PurposeOf(k)] = invitation[PurposeOf(k)]
    BY <1>1, <1>4, <1>5, <2>2
  <2>3. ASSUME NEW k \in Sessions, InvitationOf(k) # Login
        PROVE  invitation'[InvitationOf(k)] = invitation[InvitationOf(k)]
    BY <1>1, <1>6, <2>3 DEF InvitationsHold
  <2> QED
    BY <1>1, <2>1, <2>2, <2>3 DEF InvitationsHold, Sessions
<1> QED
  BY <1>2, <1>3, <1>7

(* A new attempt is nobody's yet. *)
LEMMA StartAttemptKeeps ==
    ASSUME SignInOK, NEW x \in Attempts, NEW purpose \in Invitations \cup {Login},
           StartAttempt(x, purpose)
    PROVE  SignInOK'
<1> USE DEF SignInOK
<1>1. /\ UNCHANGED <<moment, sessionRev, link, invitation, callback, session, request>>
      /\ attempt' \in [Attempts -> AttemptRecords]
      /\ \A other \in Attempts \ {x} : attempt'[other] = attempt[other]
      /\ attempt[x].status = "absent"
  <2>1. [status |-> "pending", purpose |-> purpose, until |-> moment + AttemptLife]
           \in AttemptRecords
    BY SignInAssumption DEF SignInTypeOK, AttemptRecords
  <2> QED
    BY <2>1 DEF StartAttempt, SignInTypeOK
<1>2. \A k \in Callbacks : Running(k) => attempt'[callback[k].attempt] = attempt[callback[k].attempt]
  BY <1>1, RunningIsARecord DEF AttemptsSpent
<1>3. \A k \in Sessions : attempt'[session[k].attempt] = attempt[session[k].attempt]
  BY <1>1, SessionsAreRecords DEF AttemptsSpent, SignInOnce, Sessions
<1>4. SignInTypeOK' /\ StagesTell' /\ RevisionsGrow'
  BY <1>1, PartsKept DEF SignInTypeOK
<1>5. AttemptsSpent'
  BY <1>1, <1>2, <1>3 DEF AttemptsSpent, Running, SignInOnce, Sessions
<1>6. /\ \A k \in Callbacks : Running(k)' = Running(k)
      /\ \A k \in Callbacks : Running(k) => PurposeOf(k)' = PurposeOf(k)
      /\ \A k \in Callbacks : \A s : InsertsLink(k, s)' = InsertsLink(k, s)
      /\ \A k \in Callbacks : \A a : Locks(k, a)' = Locks(k, a)
      /\ \A k \in Callbacks : Enrolling(k)' = Enrolling(k)
      /\ Sessions' = Sessions
      /\ \A k \in Sessions : InvitationOf(k)' = InvitationOf(k)
  BY <1>1, <1>2, <1>3 DEF Running, PurposeOf, InsertsLink, Locks, Enrolling, Sessions, InvitationOf
<1>7. LinksHold'
  BY <1>1, <1>6, RunningIsARecord DEF LinksHold, MayLink, SessionsFollowLinks
<1>8. InvitationsHold'
  BY <1>1, <1>6 DEF InvitationsHold, Enrolling
<1> QED
  BY <1>4, <1>5, <1>7, <1>8

---------------------------------------------------------------------------
(* Steps of callbacks.                                                     *)

(* A callback that is claimed, moves on or ends, with its attempt, leaves    *)
(* every other callback and what it holds alone.                            *)
LEMMA OthersKeepTheirs ==
    ASSUME SignInOK, NEW k \in Callbacks, NEW x \in Attempts,
           \A j \in Callbacks \ {k} : Running(j) => callback[j].attempt # x,
           \A j \in Callbacks \ {k} : callback'[j] = callback[j],
           \A y \in Attempts \ {x} : attempt'[y] = attempt[y]
    PROVE  \A j \in Callbacks \ {k} :
             /\ Running(j)' = Running(j)
             /\ Running(j) => /\ attempt'[callback[j].attempt] = attempt[callback[j].attempt]
                              /\ PurposeOf(j)' = PurposeOf(j)
             /\ \A s : InsertsLink(j, s)' = InsertsLink(j, s)
             /\ \A a : Locks(j, a)' = Locks(j, a)
             /\ Enrolling(j)' = Enrolling(j)
<1> USE DEF SignInOK
<1> SUFFICES ASSUME NEW j \in Callbacks \ {k}
             PROVE  /\ Running(j)' = Running(j)
                    /\ Running(j) =>
                          /\ attempt'[callback[j].attempt] = attempt[callback[j].attempt]
                          /\ PurposeOf(j)' = PurposeOf(j)
                    /\ \A s : InsertsLink(j, s)' = InsertsLink(j, s)
                    /\ \A a : Locks(j, a)' = Locks(j, a)
                    /\ Enrolling(j)' = Enrolling(j)
  OBVIOUS
<1>1. callback'[j] = callback[j]
  OBVIOUS
<1>2. Running(j)' = Running(j)
  BY <1>1 DEF Running
<1>3. Running(j) => /\ attempt'[callback[j].attempt] = attempt[callback[j].attempt]
                    /\ PurposeOf(j)' = PurposeOf(j)
  BY <1>1, RunningIsARecord DEF PurposeOf
<1>4. \A s : InsertsLink(j, s)' = InsertsLink(j, s)
  BY <1>1, <1>2, <1>3 DEF InsertsLink
<1>5. \A a : Locks(j, a)' = Locks(j, a)
  BY <1>1, <1>2, <1>3 DEF Locks
<1>6. Enrolling(j)' = Enrolling(j)
  BY <1>1, <1>2, <1>3 DEF Enrolling
<1> QED
  BY <1>2, <1>3, <1>4, <1>5, <1>6

(* What a callback holds, another does not have: its attempt is of no other *)
(* running callback and of no session.                                      *)
LEMMA AttemptsAreExclusive ==
    ASSUME SignInOK, NEW k \in Callbacks, Running(k)
    PROVE  /\ \A j \in Callbacks \ {k} : Running(j) => callback[j].attempt # callback[k].attempt
           /\ \A j \in Sessions : session[j].attempt # callback[k].attempt
BY DEF SignInOK, AttemptsSpent

(* The sessions keep their attempts when a step of a callback spends its own. *)
LEMMA SessionsKeepTheirs ==
    ASSUME SignInOK, UNCHANGED session, NEW x \in Attempts,
           \A j \in Sessions : session[j].attempt # x,
           \A y \in Attempts \ {x} : attempt'[y] = attempt[y]
    PROVE  /\ Sessions' = Sessions
           /\ \A j \in Sessions : /\ attempt'[session[j].attempt] = attempt[session[j].attempt]
                                   /\ InvitationOf(j)' = InvitationOf(j)
BY SessionsAreRecords DEF SignInOK, Sessions, InvitationOf

(* A claim takes a pending attempt, which nobody holds. *)
LEMMA ClaimKeeps ==
    ASSUME SignInOK, NEW k \in Callbacks, NEW x \in Attempts,
           NEW old \in Callbacks \cup {NoSession}, Claim(k, x, old)
    PROVE  SignInOK'
<1> USE DEF SignInOK
<1>1. /\ UNCHANGED <<moment, sessionRev, link, invitation, session, request>>
      /\ callback[k].stage = "waiting" /\ attempt[x].status = "pending"
  BY DEF Claim, In, Claimable
<1>2. ~ Running(k) /\ session[k] = Absent
  BY <1>1 DEF Running, Stages, StagesTell, Over
<1>3. /\ callback' \in [Callbacks -> CallbackRecords \cup {Waiting, Over}]
      /\ callback'[k].stage = "claimed" /\ callback'[k].attempt = x
      /\ \A j \in Callbacks \ {k} : callback'[j] = callback[j]
  <2>1. [stage |-> "claimed", attempt |-> x, at |-> moment, old |-> old,
         subject |-> Unlinked, account |-> Unlinked, rev |-> 0] \in CallbackRecords
    BY DEF CallbackRecords, Stages, SignInTypeOK
  <2> QED
    BY <2>1 DEF Claim, SignInTypeOK
<1>4. /\ attempt' \in [Attempts -> AttemptRecords]
      /\ attempt'[x].status = "processing"
      /\ \A y \in Attempts \ {x} : attempt'[y] = attempt[y]
  <2>1. [attempt[x] EXCEPT !.status = "processing"] \in AttemptRecords
    BY DEF SignInTypeOK, AttemptRecords
  <2> QED
    BY <2>1 DEF Claim, SignInTypeOK, AttemptRecords
<1>5. /\ \A j \in Callbacks : Running(j) => callback[j].attempt # x
      /\ \A j \in Sessions : session[j].attempt # x
  BY <1>1 DEF AttemptsSpent, SignInOnce
<1>6. \A j \in Callbacks \ {k} :
             /\ Running(j)' = Running(j)
             /\ Running(j) => /\ attempt'[callback[j].attempt] = attempt[callback[j].attempt]
                              /\ PurposeOf(j)' = PurposeOf(j)
             /\ \A s : InsertsLink(j, s)' = InsertsLink(j, s)
             /\ \A a : Locks(j, a)' = Locks(j, a)
             /\ Enrolling(j)' = Enrolling(j)
  BY <1>3, <1>4, <1>5, OthersKeepTheirs
<1>7. /\ Sessions' = Sessions
      /\ \A j \in Sessions : /\ attempt'[session[j].attempt] = attempt[session[j].attempt]
                              /\ InvitationOf(j)' = InvitationOf(j)
  BY <1>1, <1>4, <1>5, SessionsKeepTheirs
<1>8. /\ callback'[k].stage \notin Verified /\ callback'[k].stage \notin Resolved
      /\ \A s : ~ InsertsLink(k, s)'
      /\ \A a : ~ Locks(k, a)'
      /\ ~ Enrolling(k)'
  BY <1>3 DEF Verified, Resolved, InsertsLink, Locks, Enrolling
<1>9. SignInTypeOK' /\ StagesTell'
  BY <1>1, <1>2, <1>3, <1>4, <1>8 DEF SignInTypeOK, StagesTell
<1>10. AttemptsSpent'
  BY <1>1, <1>3, <1>4, <1>5, <1>6, <1>7 DEF AttemptsSpent, SignInOnce, Sessions
<1>11. RevisionsGrow'
  BY <1>1, <1>3, <1>8 DEF RevisionsGrow, LogoutAllIsFinal, Sessions
<1>12. LinksHold'
  BY <1>1, <1>3, <1>6, <1>7, <1>8, RunningIsARecord DEF LinksHold, MayLink, SessionsFollowLinks
<1>13. InvitationsHold'
  BY <1>1, <1>3, <1>6, <1>7, <1>8 DEF InvitationsHold, Enrolling
<1> QED
  BY <1>9, <1>10, <1>11, <1>12, <1>13

(* A callback that stops gives up what it held. *)
LEMMA StopsKeep ==
    ASSUME SignInOK, NEW k \in Callbacks, CallbackStops(k)
    PROVE  SignInOK'
<1> USE DEF SignInOK
<1> DEFINE x == callback[k].attempt
<1>1. /\ UNCHANGED <<moment, sessionRev, link, invitation, session, request>>
      /\ Running(k) /\ OnlyItsAttempt(k) /\ Ends(k)
  BY StopsOfACallback
<1>2. /\ x \in Attempts
      /\ \A j \in Callbacks \ {k} : Running(j) => callback[j].attempt # x
      /\ \A j \in Sessions : session[j].attempt # x
  BY <1>1, RunningIsARecord, AttemptsAreExclusive
<1>3. /\ callback' \in [Callbacks -> CallbackRecords \cup {Waiting, Over}]
      /\ \A j \in Callbacks \ {k} : callback'[j] = callback[j]
      /\ callback'[k] = Over
      /\ \A y \in Attempts \ {x} : attempt'[y] = attempt[y]
  BY <1>1 DEF Ends, OnlyItsAttempt
<1> HIDE DEF x
<1>6. \A j \in Callbacks \ {k} :
             /\ Running(j)' = Running(j)
             /\ Running(j) => /\ attempt'[callback[j].attempt] = attempt[callback[j].attempt]
                              /\ PurposeOf(j)' = PurposeOf(j)
             /\ \A s : InsertsLink(j, s)' = InsertsLink(j, s)
             /\ \A a : Locks(j, a)' = Locks(j, a)
             /\ Enrolling(j)' = Enrolling(j)
  BY <1>2, <1>3, OthersKeepTheirs
<1>7. /\ Sessions' = Sessions
      /\ \A j \in Sessions : /\ attempt'[session[j].attempt] = attempt[session[j].attempt]
                              /\ InvitationOf(j)' = InvitationOf(j)
  BY <1>1, <1>2, <1>3, SessionsKeepTheirs
<1>8. /\ callback'[k].stage \notin Verified /\ callback'[k].stage \notin Resolved
      /\ ~ Running(k)'
      /\ \A s : ~ InsertsLink(k, s)'
      /\ \A a : ~ Locks(k, a)'
      /\ ~ Enrolling(k)'
  BY <1>3 DEF Over, Running, Stages, Verified, Resolved, InsertsLink, Locks, Enrolling
<1>9. SignInTypeOK' /\ StagesTell'
  BY <1>1, <1>3, <1>8 DEF SignInTypeOK, StagesTell, OnlyItsAttempt
<1>10. AttemptsSpent'
  BY <1>1, <1>3, <1>6, <1>7, <1>8 DEF AttemptsSpent, SignInOnce, Sessions
<1>11. RevisionsGrow'
  BY <1>1, <1>3, <1>8 DEF RevisionsGrow, LogoutAllIsFinal, Sessions
<1>12. LinksHold'
  BY <1>1, <1>3, <1>6, <1>7, <1>8, RunningIsARecord DEF LinksHold, MayLink, SessionsFollowLinks
<1>13. InvitationsHold'
  BY <1>1, <1>3, <1>6, <1>7, <1>8 DEF InvitationsHold, Enrolling
<1> QED
  BY <1>9, <1>10, <1>11, <1>12, <1>13

(* A callback that moves on gets only what nobody else has. *)
LEMMA MovesGain ==
    ASSUME SignInOK, NEW k \in Callbacks, CallbackStep(k)
    PROVE  /\ UNCHANGED <<moment, sessionRev, link, invitation, session, request>>
           /\ Running(k) /\ Running(k)' /\ OnlyItsAttempt(k)
           /\ callback' \in [Callbacks -> CallbackRecords \cup {Waiting, Over}]
           /\ \A j \in Callbacks \ {k} : callback'[j] = callback[j]
           /\ callback'[k].attempt = callback[k].attempt
           /\ PurposeOf(k)' = PurposeOf(k)
           /\ attempt'[callback[k].attempt].status =
                IF callback'[k].stage = "consumed" THEN "consumed" ELSE "processing"
           /\ callback'[k].stage \in Verified => callback'[k].subject \in Subjects
           /\ callback'[k].stage \in Resolved =>
                 /\ callback'[k].account \in Accounts
                 /\ callback'[k].rev <= sessionRev[callback'[k].account]
                 /\ PurposeOf(k) = Login =>
                       link[callback'[k].subject] = callback'[k].account
           /\ Enrolling(k)' =>
                 /\ invitation[PurposeOf(k)].status = "live"
                 /\ invitation[PurposeOf(k)].account = callback'[k].account
                 /\ \A j \in Callbacks \ {k} : ~ Locks(j, callback'[k].account)
           /\ \A s : InsertsLink(k, s)' =>
                 /\ s = callback'[k].subject /\ MayLink(s, callback'[k].account)
                 /\ \A j \in Callbacks \ {k} : ~ InsertsLink(j, s)
<1> USE DEF SignInOK
<1>1. PICK stage :
        /\ UNCHANGED <<moment, sessionRev, link, invitation, session, request>>
        /\ OnlyItsAttempt(k) /\ GoesTo(k, stage)
        /\ stage = "consumed" <=> callback[k].stage = "written"
        /\ callback[k].stage # "consumed"
        /\ stage # "consumed" => UNCHANGED attempt
        /\ stage = "consumed" /\ attempt[callback[k].attempt].status = "processing" =>
                attempt'[callback[k].attempt].status = "consumed"
  BY StepsOfACallback
<1>2. Running(k) /\ callback[k].attempt \in Attempts /\ callback'[k].stage = stage
  BY <1>1, RunningIsARecord DEF GoesTo
<1>3. Running(k)'
  BY <1>1, <1>2 DEF GoesTo, CallbackRecords, Running
<1>4. /\ callback' \in [Callbacks -> CallbackRecords \cup {Waiting, Over}]
      /\ \A j \in Callbacks \ {k} : callback'[j] = callback[j]
      /\ callback'[k].attempt = callback[k].attempt
  BY <1>1 DEF GoesTo
<1>5. PurposeOf(k)' = PurposeOf(k)
  BY <1>1, <1>2, <1>4 DEF OnlyItsAttempt, PurposeOf
<1>6. attempt'[callback[k].attempt].status = IF stage = "consumed" THEN "consumed" ELSE "processing"
  <2>1. attempt[callback[k].attempt].status = "processing"
    BY <1>1, <1>2 DEF AttemptsSpent
  <2> QED
    BY <1>1, <2>1
<1>7. callback[k].stage \in Resolved =>
        /\ callback[k].account \in Accounts
        /\ callback[k].rev <= sessionRev[callback[k].account]
        /\ PurposeOf(k) = Login => link[callback[k].subject] = callback[k].account
        /\ PurposeOf(k) # Login =>
              /\ invitation[PurposeOf(k)].status = "live"
              /\ invitation[PurposeOf(k)].account = callback[k].account
              /\ \A j \in Callbacks \ {k} : ~ Locks(j, callback[k].account)
  BY <1>2 DEF StagesTell, RevisionsGrow, LinksHold, InvitationsHold, Enrolling
<1>8. callback'[k].stage \in Verified => callback'[k].subject \in Subjects
  BY <1>2, StepsOfACallback DEF GoesTo, Verified, Same, StagesTell
<1>9. callback'[k].stage \in Resolved =>
        /\ callback'[k].account \in Accounts
        /\ callback'[k].rev <= sessionRev[callback'[k].account]
        /\ PurposeOf(k) = Login => link[callback'[k].subject] = callback'[k].account
        /\ PurposeOf(k) # Login =>
              /\ invitation[PurposeOf(k)].status = "live"
              /\ invitation[PurposeOf(k)].account = callback'[k].account
              /\ \A j \in Callbacks \ {k} : ~ Locks(j, callback'[k].account)
  <2>1. CASE Same(k) /\ callback[k].stage \in Resolved
    BY <1>7, <2>1 DEF Same
  <2>2. CASE callback[k].stage = "verified"
    <3>1. /\ callback'[k].subject = callback[k].subject
          /\ callback'[k].account \in Accounts
          /\ callback'[k].rev = sessionRev[callback'[k].account]
          /\ \/ /\ PurposeOf(k) = Login
                /\ callback'[k].account = link[callback[k].subject]
             \/ /\ PurposeOf(k) # Login
                /\ callback'[k].account = invitation[PurposeOf(k)].account
                /\ invitation[PurposeOf(k)].status = "live"
                /\ AccountIsFree(callback'[k].account)
      BY <2>2, StepsOfACallback
    <3>2. sessionRev[callback'[k].account] \in Nat
      BY <3>1 DEF SignInTypeOK
    <3> QED
      BY <3>1, <3>2 DEF AccountIsFree
  <2>3. CASE callback[k].stage \in {"claimed", "exchanging"}
    <3>1. callback'[k].stage \notin Resolved
      BY <2>3, StepsOfACallback DEF GoesTo, Resolved
    <3> QED
      BY <3>1
  <2> QED
    BY <2>1, <2>2, <2>3, StepsOfACallback DEF Resolved
<1>10. ASSUME NEW s, InsertsLink(k, s)'
       PROVE  /\ s = callback'[k].subject /\ MayLink(s, callback'[k].account)
              /\ \A j \in Callbacks \ {k} : ~ InsertsLink(j, s)
  <2>1. stage \in {"written", "consumed"} /\ PurposeOf(k) # Login /\ s = callback'[k].subject
    BY <1>2, <1>5, <1>10 DEF InsertsLink
  <2>2. Same(k) /\ s = callback[k].subject
    BY <1>2, <2>1, StepsOfACallback DEF GoesTo, Same
  <2>3. CASE stage = "written"
    <3>1. /\ \A other \in Callbacks : ~ InsertsLink(other, s)
          /\ MayLink(s, callback[k].account)
      BY <1>2, <2>1, <2>2, <2>3, StepsOfACallback DEF GoesTo
    <3> QED
      BY <2>1, <2>2, <3>1 DEF Same
  <2>4. CASE stage = "consumed"
    <3>1. InsertsLink(k, s)
      BY <1>1, <1>2, <2>1, <2>2, <2>4 DEF InsertsLink
    <3>2. MayLink(s, callback[k].account)
          /\ \A j \in Callbacks \ {k} : ~ InsertsLink(j, s)
      BY <2>2, <3>1 DEF LinksHold
    <3> QED
      BY <2>1, <2>2, <3>2 DEF Same
  <2> QED
    BY <2>1, <2>3, <2>4
<1>11. Enrolling(k)' => callback'[k].stage \in Resolved /\ PurposeOf(k) # Login
  BY <1>5 DEF Enrolling
<1> QED
  BY <1>1, <1>2, <1>3, <1>4, <1>5, <1>6, <1>8, <1>9, <1>10, <1>11

(* A step of a callback keeps the invariant. *)
LEMMA StepsKeep ==
    ASSUME SignInOK, NEW k \in Callbacks, CallbackStep(k)
    PROVE  SignInOK'
<1> USE DEF SignInOK
<1> DEFINE x == callback[k].attempt
<1>1. /\ UNCHANGED <<moment, sessionRev, link, invitation, session, request>>
      /\ Running(k) /\ Running(k)' /\ OnlyItsAttempt(k)
      /\ callback' \in [Callbacks -> CallbackRecords \cup {Waiting, Over}]
      /\ \A j \in Callbacks \ {k} : callback'[j] = callback[j]
      /\ callback'[k].attempt = x
      /\ PurposeOf(k)' = PurposeOf(k)
      /\ attempt'[x].status =
                IF callback'[k].stage = "consumed" THEN "consumed" ELSE "processing"
      /\ callback'[k].stage \in Verified => callback'[k].subject \in Subjects
      /\ callback'[k].stage \in Resolved =>
            /\ callback'[k].account \in Accounts
            /\ callback'[k].rev <= sessionRev[callback'[k].account]
            /\ PurposeOf(k) = Login => link[callback'[k].subject] = callback'[k].account
  BY MovesGain
<1>2. /\ Enrolling(k)' =>
            /\ invitation[PurposeOf(k)].status = "live"
            /\ invitation[PurposeOf(k)].account = callback'[k].account
            /\ \A j \in Callbacks \ {k} : ~ Locks(j, callback'[k].account)
      /\ \A s : InsertsLink(k, s)' =>
            /\ s = callback'[k].subject /\ MayLink(s, callback'[k].account)
            /\ \A j \in Callbacks \ {k} : ~ InsertsLink(j, s)
  BY MovesGain
<1>3. /\ x \in Attempts
      /\ \A j \in Callbacks \ {k} : Running(j) => callback[j].attempt # x
      /\ \A j \in Sessions : session[j].attempt # x
  BY <1>1, RunningIsARecord, AttemptsAreExclusive
<1>4. /\ attempt' \in [Attempts -> AttemptRecords]
      /\ \A y \in Attempts \ {x} : attempt'[y] = attempt[y]
  BY <1>1 DEF OnlyItsAttempt
<1>5. session[k] = Absent
  BY <1>1 DEF StagesTell, Running, Over, Stages
<1> HIDE DEF x
<1>6. \A j \in Callbacks \ {k} :
             /\ Running(j)' = Running(j)
             /\ Running(j) => /\ attempt'[callback[j].attempt] = attempt[callback[j].attempt]
                              /\ PurposeOf(j)' = PurposeOf(j)
             /\ \A s : InsertsLink(j, s)' = InsertsLink(j, s)
             /\ \A a : Locks(j, a)' = Locks(j, a)
             /\ Enrolling(j)' = Enrolling(j)
  BY <1>1, <1>3, <1>4, OthersKeepTheirs
<1>7. /\ Sessions' = Sessions
      /\ \A j \in Sessions : /\ attempt'[session[j].attempt] = attempt[session[j].attempt]
                              /\ InvitationOf(j)' = InvitationOf(j)
  BY <1>1, <1>3, <1>4, SessionsKeepTheirs
<1>9. SignInTypeOK' /\ StagesTell'
  BY <1>1, <1>4, <1>5 DEF SignInTypeOK, StagesTell
<1>10. AttemptsSpent'
  <2>1. \A j \in Callbacks : Running(j)' =>
          /\ attempt'[callback'[j].attempt].status =
                IF callback'[j].stage = "consumed" THEN "consumed" ELSE "processing"
          /\ \A other \in Callbacks :
                Running(other)' /\ callback'[other].attempt = callback'[j].attempt => other = j
          /\ \A other \in Sessions : session[other].attempt # callback'[j].attempt
    BY <1>1, <1>3, <1>6 DEF AttemptsSpent
  <2>2. SignInOnce'
    BY <1>1, <1>7 DEF AttemptsSpent, SignInOnce, Sessions
  <2> QED
    BY <1>1, <1>7, <2>1, <2>2 DEF AttemptsSpent
<1>11. RevisionsGrow'
  BY <1>1 DEF RevisionsGrow, LogoutAllIsFinal, Sessions
<1>12. LinksHold'
  <2>1. \A j \in Callbacks : callback'[j].stage \in Resolved /\ PurposeOf(j)' = Login =>
            link[callback'[j].subject] = callback'[j].account
    BY <1>1, <1>6, RunningIsARecord DEF LinksHold
  <2>2. ASSUME NEW j \in Callbacks, NEW s, InsertsLink(j, s)'
        PROVE  /\ s = callback'[j].subject /\ MayLink(s, callback'[j].account)
               /\ \A other \in Callbacks : InsertsLink(other, s)' => other = j
    <3>1. CASE j = k
      BY <1>2, <1>6, <2>2, <3>1
    <3>2. CASE j # k
      <4>1. InsertsLink(j, s) /\ s = callback[j].subject
        BY <1>6, <2>2, <3>2 DEF InsertsLink
      <4>2. /\ MayLink(s, callback[j].account)
            /\ \A other \in Callbacks : InsertsLink(other, s) => other = j
        BY <4>1 DEF LinksHold
      <4>3. ~ InsertsLink(k, s)'
        BY <1>2, <3>2, <4>1
      <4> QED
        BY <1>1, <1>6, <3>2, <4>1, <4>2, <4>3
    <3> QED
      BY <3>1, <3>2
  <2>3. \A j \in Callbacks : InsertsLink(j, callback[j].subject)' =>
          /\ MayLink(callback[j].subject, callback[j].account)'
          /\ \A other \in Callbacks : InsertsLink(other, callback[j].subject)' => other = j
    BY <1>1, <2>2 DEF MayLink
  <2>4. SessionsFollowLinks'
    BY <1>1, <1>7 DEF LinksHold, SessionsFollowLinks
  <2> QED
    BY <1>1, <2>1, <2>3, <2>4 DEF LinksHold
<1>13. InvitationsHold'
  <2>1. ASSUME NEW j \in Callbacks, Enrolling(j)'
        PROVE  /\ invitation[PurposeOf(j)'].status = "live"
               /\ invitation[PurposeOf(j)'].account = callback'[j].account
               /\ \A other \in Callbacks : Locks(other, callback[j].account)' => other = j
    <3>1. CASE j = k
      BY <1>1, <1>2, <1>6, <2>1, <3>1
    <3>2. CASE j # k
      <4>1. /\ Enrolling(j) /\ PurposeOf(j)' = PurposeOf(j)
            /\ Locks(j, callback[j].account) /\ callback'[j] = callback[j]
        BY <1>1, <1>6, <2>1, <3>2 DEF Enrolling, Locks, Resolved
      <4>2. /\ invitation[PurposeOf(j)].status = "live"
            /\ invitation[PurposeOf(j)].account = callback[j].account
            /\ \A other \in Callbacks : Locks(other, callback[j].account) => other = j
        BY <4>1 DEF InvitationsHold
      <4>3. \A a : Locks(k, a)' => Enrolling(k)' /\ a = callback'[k].account
        BY DEF Locks, Enrolling, Resolved
      <4>4. ~ Locks(k, callback[j].account)'
        BY <1>2, <3>2, <4>1, <4>3
      <4> QED
        BY <1>6, <3>2, <4>1, <4>2, <4>4
    <3> QED
      BY <3>1, <3>2
  <2>2. \A j \in Sessions' : InvitationOf(j)' # Login =>
          /\ invitation[InvitationOf(j)'].status = "consumed"
          /\ invitation[InvitationOf(j)'].account = session[j].account
          /\ \A other \in Sessions' : InvitationOf(other)' = InvitationOf(j)' => other = j
    BY <1>7 DEF InvitationsHold
  <2>3. \A i \in Invitations : invitation[i].status = "consumed" =>
          \E j \in Sessions' : InvitationOf(j)' = i
    BY <1>7 DEF InvitationsHold
  <2> QED
    BY <1>1, <2>1, <2>2, <2>3 DEF InvitationsHold
<1> QED
  BY <1>9, <1>10, <1>11, <1>12, <1>13

(* The commit makes one session, links one identity, consumes one invitation. *)
LEMMA CommitWrites ==
    ASSUME SignInOK, NEW k \in Callbacks, CommitCallback(k)
    PROVE  /\ link' \in [Subjects -> Accounts \cup {Unlinked}]
           /\ link'[callback[k].subject] = callback[k].account
           /\ \A s \in Subjects : link'[s] # link[s] =>
                 link[s] = Unlinked /\ InsertsLink(k, s)
           /\ invitation' \in [Invitations -> InvitationRecords]
           /\ \A i \in Invitations : invitation'[i].account = invitation[i].account
           /\ PurposeOf(k) = Login => invitation' = invitation
           /\ PurposeOf(k) # Login =>
                 /\ invitation[PurposeOf(k)].status = "live"
                 /\ invitation[PurposeOf(k)].account = callback[k].account
                 /\ invitation'[PurposeOf(k)].status = "consumed"
                 /\ \A i \in Invitations \ {PurposeOf(k)} : invitation'[i] = invitation[i]
<1> USE DEF SignInOK
<1>1. /\ callback[k].stage = "consumed" /\ Running(k)
      /\ callback[k].subject \in Subjects /\ callback[k].account \in Accounts
  BY Commits
<1>2. PurposeOf(k) \in Invitations \cup {Login}
  BY <1>1, RunningIsARecord
<1>3. PurposeOf(k) = Login => link[callback[k].subject] = callback[k].account
  BY <1>1 DEF LinksHold, Resolved
<1>4. PurposeOf(k) # Login =>
         InsertsLink(k, callback[k].subject) /\ link[callback[k].subject] \in {Unlinked, callback[k].account}
  BY <1>1 DEF LinksHold, InsertsLink, MayLink
<1>5. /\ link' \in [Subjects -> Accounts \cup {Unlinked}]
      /\ link'[callback[k].subject] = callback[k].account
      /\ \A s \in Subjects : link'[s] # link[s] => link[s] = Unlinked /\ InsertsLink(k, s)
  BY <1>1, <1>3, <1>4 DEF CommitCallback, SignInTypeOK
<1>6. PurposeOf(k) # Login =>
         /\ invitation[PurposeOf(k)].status = "live"
         /\ invitation[PurposeOf(k)].account = callback[k].account
  BY <1>1 DEF InvitationsHold, Enrolling, Resolved
<1>7. /\ invitation' \in [Invitations -> InvitationRecords]
      /\ \A i \in Invitations : invitation'[i].account = invitation[i].account
      /\ PurposeOf(k) = Login => invitation' = invitation
      /\ PurposeOf(k) # Login =>
            /\ invitation'[PurposeOf(k)].status = "consumed"
            /\ \A i \in Invitations \ {PurposeOf(k)} : invitation'[i] = invitation[i]
  <2>1. CASE PurposeOf(k) = Login
    BY <2>1 DEF CommitCallback, Redeemed, SignInTypeOK
  <2>2. CASE PurposeOf(k) # Login
    <3> DEFINE p == PurposeOf(k)
    <3>1. invitation' = [invitation EXCEPT ![p].status = "consumed"] /\ p \in Invitations
      BY <1>2, <2>2 DEF CommitCallback, Redeemed
    <3> HIDE DEF p
    <3>2. [invitation[p] EXCEPT !.status = "consumed"] \in InvitationRecords
          /\ [invitation[p] EXCEPT !.status = "consumed"].account = invitation[p].account
          /\ [invitation[p] EXCEPT !.status = "consumed"].status = "consumed"
      BY <3>1 DEF SignInTypeOK, InvitationRecords
    <3>3. /\ invitation' \in [Invitations -> InvitationRecords]
          /\ invitation'[p].account = invitation[p].account
          /\ invitation'[p].status = "consumed"
          /\ \A i \in Invitations \ {p} : invitation'[i] = invitation[i]
      BY <3>1, <3>2 DEF SignInTypeOK
    <3> QED
      BY <2>2, <3>3 DEF p
  <2> QED
    BY <2>1, <2>2
<1> QED
  BY <1>5, <1>6, <1>7

(* A commit keeps the invariant. *)
LEMMA CommitKeeps ==
    ASSUME SignInOK, NEW k \in Callbacks, CommitCallback(k)
    PROVE  SignInOK'
<1> USE DEF SignInOK
<1> DEFINE x == callback[k].attempt
<1>1. /\ UNCHANGED <<moment, sessionRev, attempt, request>>
      /\ Running(k) /\ callback[k].stage = "consumed" /\ Ends(k)
      /\ callback[k].subject \in Subjects /\ callback[k].account \in Accounts
      /\ session[k] = Absent
      /\ session' \in [Callbacks -> SessionRecords \cup {Absent}]
      /\ \A j \in Callbacks \ {k} : SameSession(j)
      /\ session'[k] # Absent
      /\ session'[k].attempt = x
      /\ session'[k].subject = callback[k].subject
      /\ session'[k].account = callback[k].account
      /\ session'[k].rev = callback[k].rev
  BY Commits
<1>2. /\ link' \in [Subjects -> Accounts \cup {Unlinked}]
      /\ link'[callback[k].subject] = callback[k].account
      /\ \A s \in Subjects : link'[s] # link[s] => link[s] = Unlinked /\ InsertsLink(k, s)
      /\ invitation' \in [Invitations -> InvitationRecords]
      /\ \A i \in Invitations : invitation'[i].account = invitation[i].account
      /\ PurposeOf(k) = Login => invitation' = invitation
      /\ PurposeOf(k) # Login =>
            /\ invitation[PurposeOf(k)].status = "live"
            /\ invitation[PurposeOf(k)].account = callback[k].account
            /\ invitation'[PurposeOf(k)].status = "consumed"
            /\ \A i \in Invitations \ {PurposeOf(k)} : invitation'[i] = invitation[i]
  BY CommitWrites
<1>3. /\ x \in Attempts /\ PurposeOf(k) = attempt[x].purpose
      /\ PurposeOf(k) \in Invitations \cup {Login}
      /\ \A j \in Callbacks \ {k} : Running(j) => callback[j].attempt # x
      /\ \A j \in Sessions : session[j].attempt # x
      /\ attempt[x].status = "consumed"
  BY <1>1, RunningIsARecord, AttemptsAreExclusive DEF PurposeOf, AttemptsSpent
<1>4. /\ callback' \in [Callbacks -> CallbackRecords \cup {Waiting, Over}]
      /\ \A j \in Callbacks \ {k} : callback'[j] = callback[j]
      /\ callback'[k] = Over
  BY <1>1 DEF Ends
<1> HIDE DEF x
<1>5. \A j \in Callbacks \ {k} :
             /\ Running(j)' = Running(j)
             /\ Running(j) => PurposeOf(j)' = PurposeOf(j)
             /\ \A s : InsertsLink(j, s)' = InsertsLink(j, s)
             /\ \A a : Locks(j, a)' = Locks(j, a)
             /\ Enrolling(j)' = Enrolling(j)
  BY <1>1, <1>3, <1>4, OthersKeepTheirs
<1>6. /\ callback'[k].stage \notin Verified /\ callback'[k].stage \notin Resolved
      /\ ~ Running(k)'
      /\ \A s : ~ InsertsLink(k, s)'
      /\ \A a : ~ Locks(k, a)'
      /\ ~ Enrolling(k)'
  BY <1>4 DEF Over, Running, Stages, Verified, Resolved, InsertsLink, Locks, Enrolling
<1>7. /\ Sessions' = Sessions \cup {k} /\ k \notin Sessions
      /\ InvitationOf(k)' = PurposeOf(k)
      /\ \A j \in Sessions : /\ session'[j].attempt = session[j].attempt
                              /\ session'[j].subject = session[j].subject
                              /\ session'[j].account = session[j].account
                              /\ session'[j].rev = session[j].rev
                              /\ InvitationOf(j)' = InvitationOf(j)
  BY <1>1, <1>3 DEF Sessions, SameSession, InvitationOf
<1>8. SignInTypeOK'
  BY <1>1, <1>2, <1>4 DEF SignInTypeOK
<1>9. StagesTell'
  <2>1. \A i \in Invitations : invitation'[i].status # "absent" => invitation'[i].account \in Accounts
    BY <1>2 DEF StagesTell
  <2>2. \A j \in Callbacks :
          /\ callback'[j].stage \in Verified => callback'[j].subject \in Subjects
          /\ callback'[j].stage \in Resolved => callback'[j].account \in Accounts
          /\ session'[j] # Absent => callback'[j] = Over
    BY <1>1, <1>4, <1>6 DEF StagesTell, SameSession
  <2>3. \A r \in Requests : request[r] # Idle => session'[request[r].of] # Absent
    BY <1>1 DEF StagesTell, SameSession, SignInTypeOK, RequestRecords
  <2> QED
    BY <1>1, <2>1, <2>2, <2>3 DEF StagesTell
<1>10. AttemptsSpent'
  <2>1. \A j \in Callbacks : Running(j)' =>
          /\ attempt'[callback'[j].attempt].status =
                IF callback'[j].stage = "consumed" THEN "consumed" ELSE "processing"
          /\ \A other \in Callbacks :
                Running(other)' /\ callback'[other].attempt = callback'[j].attempt => other = j
          /\ \A other \in Sessions' : session'[other].attempt # callback'[j].attempt
    BY <1>1, <1>3, <1>4, <1>5, <1>6, <1>7 DEF AttemptsSpent
  <2>2. SignInOnce'
    BY <1>1, <1>3, <1>7 DEF AttemptsSpent, SignInOnce
  <2> QED
    BY <2>1, <2>2 DEF AttemptsSpent
<1>11. RevisionsGrow'
  <2>1. callback[k].rev <= sessionRev[callback[k].account]
    BY <1>1 DEF RevisionsGrow, Resolved
  <2>2. \A j \in Sessions' : session'[j].rev <= sessionRev[session'[j].account]
    BY <1>1, <1>7, <2>1 DEF RevisionsGrow
  <2>3. \A r \in Requests : request[r] # Idle => request[r].of \in Sessions
    BY DEF StagesTell, SignInTypeOK, RequestRecords, Sessions
  <2>4. \A r \in Requests : request[r].stage = "admitted" => request[r] # Idle
    BY DEF Idle
  <2> QED
    BY <1>1, <1>4, <1>6, <1>7, <2>2, <2>3, <2>4 DEF RevisionsGrow, LogoutAllIsFinal
<1>12. LinksHold'
  <2>1. ASSUME NEW j \in Callbacks, callback'[j].stage \in Resolved, PurposeOf(j)' = Login
        PROVE  link'[callback'[j].subject] = callback'[j].account
    <3>1. j # k /\ callback'[j] = callback[j]
      BY <1>4, <1>6, <2>1
    <3>2. Running(j) /\ PurposeOf(j) = Login
      BY <1>5, <2>1, <3>1, RunningIsARecord
    <3>3. link[callback[j].subject] = callback[j].account
          /\ callback[j].account \in Accounts /\ callback[j].subject \in Subjects
      BY <2>1, <3>1, <3>2 DEF LinksHold, StagesTell, Resolved, Verified
    <3> QED
      BY <1>2, <3>1, <3>3, SignInAssumption
  <2>2. ASSUME NEW j \in Callbacks, InsertsLink(j, callback[j].subject)'
        PROVE  /\ MayLink(callback[j].subject, callback[j].account)'
               /\ \A other \in Callbacks : InsertsLink(other, callback[j].subject)' => other = j
    <3>1. j # k /\ callback'[j] = callback[j]
      BY <1>4, <1>6, <2>2
    <3>2. InsertsLink(j, callback[j].subject)
      BY <1>5, <2>2, <3>1
    <3>3. /\ link[callback[j].subject] \in {Unlinked, callback[j].account}
          /\ callback[j].subject \in Subjects
          /\ \A other \in Callbacks : InsertsLink(other, callback[j].subject) => other = j
      BY <3>2 DEF LinksHold, MayLink, StagesTell, InsertsLink, Verified
    <3>4. link'[callback[j].subject] = link[callback[j].subject]
      BY <1>2, <3>1, <3>3
    <3> QED
      BY <1>5, <1>6, <3>1, <3>3, <3>4 DEF MayLink
  <2>3. ASSUME NEW j \in Sessions'
        PROVE  link'[session'[j].subject] = session'[j].account
    <3>1. CASE j = k
      BY <1>1, <1>2, <3>1
    <3>2. CASE j \in Sessions
      <4>1. link[session[j].subject] = session[j].account
            /\ session[j].account \in Accounts /\ session[j].subject \in Subjects
        BY <3>2, SessionsAreRecords DEF LinksHold, SessionsFollowLinks, Sessions
      <4> QED
        BY <1>2, <1>7, <3>2, <4>1, SignInAssumption
    <3> QED
      BY <1>7, <3>1, <3>2
  <2> QED
    BY <2>1, <2>2, <2>3 DEF LinksHold, SessionsFollowLinks
<1>13. InvitationsHold'
  <2>1. ASSUME NEW j \in Callbacks, Enrolling(j)'
        PROVE  /\ invitation'[PurposeOf(j)'].status = "live"
               /\ invitation'[PurposeOf(j)'].account = callback'[j].account
               /\ \A other \in Callbacks : Locks(other, callback[j].account)' => other = j
    <3>1. /\ j # k /\ callback'[j] = callback[j] /\ Enrolling(j) /\ Running(j)
          /\ PurposeOf(j)' = PurposeOf(j)
      BY <1>4, <1>5, <1>6, <2>1 DEF Enrolling
    <3>2. /\ invitation[PurposeOf(j)].status = "live"
          /\ invitation[PurposeOf(j)].account = callback[j].account
          /\ \A other \in Callbacks : Locks(other, callback[j].account) => other = j
          /\ PurposeOf(j) \in Invitations /\ PurposeOf(j) # Login
      BY <3>1, RunningIsARecord DEF InvitationsHold, Enrolling
    <3>3. PurposeOf(k) # PurposeOf(j)
      <4>1. PurposeOf(k) # Login => Locks(k, callback[k].account)
        BY <1>1 DEF Locks
      <4> QED
        BY <1>2, <3>1, <3>2, <4>1
    <3>4. invitation'[PurposeOf(j)] = invitation[PurposeOf(j)]
      BY <1>2, <3>2, <3>3
    <3> QED
      BY <1>5, <1>6, <3>1, <3>2, <3>4
  <2>2. \A j \in Sessions : InvitationOf(j) # Login =>
          /\ InvitationOf(j) \in Invitations
          /\ invitation[InvitationOf(j)].status = "consumed"
          /\ InvitationOf(j) # PurposeOf(k)
    <3>1. \A j \in Sessions : InvitationOf(j) \in Invitations \cup {Login}
      BY SessionsAreRecords DEF Sessions, InvitationOf, SignInTypeOK, AttemptRecords
    <3> QED
      BY <1>2, <3>1 DEF InvitationsHold
  <2>3. ASSUME NEW j \in Sessions', InvitationOf(j)' # Login
        PROVE  /\ invitation'[InvitationOf(j)'].status = "consumed"
               /\ invitation'[InvitationOf(j)'].account = session'[j].account
               /\ \A other \in Sessions' : InvitationOf(other)' = InvitationOf(j)' => other = j
    <3>1. CASE j = k
      BY <1>1, <1>2, <1>3, <1>7, <2>2, <2>3, <3>1
    <3>2. CASE j \in Sessions
      <4>1. InvitationOf(j) # Login /\ InvitationOf(j)' = InvitationOf(j)
        BY <1>7, <2>3, <3>2
      <4>2. invitation'[InvitationOf(j)] = invitation[InvitationOf(j)]
        BY <1>2, <2>2, <3>2, <4>1
      <4> QED
        BY <1>7, <2>2, <3>2, <4>1, <4>2 DEF InvitationsHold
    <3> QED
      BY <1>7, <3>1, <3>2
  <2>4. ASSUME NEW i \in Invitations, invitation'[i].status = "consumed"
        PROVE  \E j \in Sessions' : InvitationOf(j)' = i
    <3>1. CASE PurposeOf(k) = i
      BY <1>7, <3>1
    <3>2. CASE PurposeOf(k) # i
      <4>1. invitation'[i] = invitation[i]
        BY <1>2, <3>2
      <4>2. PICK j \in Sessions : InvitationOf(j) = i
        BY <2>4, <4>1 DEF InvitationsHold
      <4> QED
        BY <1>7, <4>2
    <3> QED
      BY <3>1, <3>2
  <2> QED
    BY <2>1, <2>3, <2>4 DEF InvitationsHold
<1> QED
  BY <1>8, <1>9, <1>10, <1>11, <1>12, <1>13

---------------------------------------------------------------------------
(* Requests.                                                               *)

(* Revisions only grow; a request is admitted by a session whose revision    *)
(* is the account's, hence not older than what it saw when it arrived.      *)
LEMMA RequestWrites ==
    ASSUME SignInOK, NEW r \in Requests, RequestStep(r)
    PROVE  /\ sessionRev' \in [Accounts -> Nat]
           /\ \A a \in Accounts : sessionRev[a] <= sessionRev'[a]
           /\ request' \in [Requests -> RequestRecords]
           /\ \A other \in Requests \ {r} : request'[other] = request[other]
           /\ request'[r] # Idle =>
                 /\ session[request'[r].of] # Absent
                 /\ request'[r].since <= sessionRev[session[request'[r].of].account]
                 /\ request'[r].stage = "admitted" =>
                       request'[r].since <= session[request'[r].of].rev
<1> USE DEF SignInOK
<1>1. ASSUME NEW k \in Callbacks, FindSession(r, k)
      PROVE  /\ request' \in [Requests -> RequestRecords]
             /\ \A other \in Requests \ {r} : request'[other] = request[other]
             /\ request'[r].of = k /\ request'[r].stage = "found"
             /\ session[k] # Absent
             /\ request'[r].since <= sessionRev[session[k].account]
             /\ UNCHANGED sessionRev
  <2>1. session[k] # Absent
    BY <1>1 DEF FindSession, Absent
  <2>2. sessionRev[session[k].account] \in Nat
    BY <2>1, SessionsAreRecords DEF SignInTypeOK
  <2>3. [stage |-> "found", of |-> k, since |-> sessionRev[session[k].account]] \in RequestRecords
    BY <2>2 DEF RequestRecords
  <2> QED
    BY <1>1, <2>1, <2>2, <2>3 DEF FindSession, SignInTypeOK
<1>2. ASSUME request[r] # Idle
      PROVE  /\ request[r].of \in Callbacks /\ request[r].since \in Nat
             /\ request[r].stage \in {"found", "admitted"}
             /\ session[request[r].of] # Absent
             /\ session[request[r].of].account \in Accounts
             /\ request[r].since <= sessionRev[session[request[r].of].account]
  BY <1>2, SessionsAreRecords DEF SignInTypeOK, RequestRecords, StagesTell, RevisionsGrow
<1>3. CASE ValidateSession(r)
  <2>1. request[r] # Idle /\ UNCHANGED sessionRev
    BY <1>3 DEF ValidateSession, Idle
  <2>2. [request[r] EXCEPT !.stage = "admitted"] \in RequestRecords
        /\ [request[r] EXCEPT !.stage = "admitted"].of = request[r].of
        /\ [request[r] EXCEPT !.stage = "admitted"].since = request[r].since
    BY <2>1 DEF SignInTypeOK, RequestRecords
  <2>3. /\ request'[r] = [request[r] EXCEPT !.stage = "admitted"]
        /\ request' \in [Requests -> RequestRecords]
        /\ \A other \in Requests \ {r} : request'[other] = request[other]
    BY <1>3, <2>2 DEF ValidateSession, SignInTypeOK
  <2>4. session[request[r].of].rev = sessionRev[session[request[r].of].account]
    BY <1>3 DEF ValidateSession, StillValid
  <2> QED
    BY <1>2, <2>1, <2>2, <2>3, <2>4 DEF SignInTypeOK
<1>4. ASSUME EndRequest(r) \/ Logout(r) \/ LogoutAll(r)
      PROVE  /\ request' \in [Requests -> RequestRecords] /\ request'[r] = Idle
             /\ \A other \in Requests \ {r} : request'[other] = request[other]
  BY <1>4 DEF EndRequest, Logout, LogoutAll, SignInTypeOK, RequestRecords
<1>5. CASE LogoutAll(r)
  <2>1. request[r] # Idle
    BY <1>5 DEF LogoutAll, Idle
  <2> DEFINE a == session[request[r].of].account
  <2>2. a \in Accounts /\ sessionRev' = [sessionRev EXCEPT ![a] = @ + 1]
    BY <1>2, <1>5, <2>1 DEF LogoutAll
  <2> HIDE DEF a
  <2>3. /\ sessionRev' \in [Accounts -> Nat]
        /\ \A b \in Accounts : sessionRev[b] <= sessionRev'[b]
    BY <2>2 DEF SignInTypeOK
  <2> QED
    BY <1>4, <1>5, <2>3
<1> QED
  BY <1>1, <1>3, <1>4, <1>5 DEF RequestStep, EndRequest, Logout, SignInTypeOK

(* A request's step keeps the invariant. *)
LEMMA RequestsKeep ==
    ASSUME SignInOK, NEW r \in Requests, RequestStep(r)
    PROVE  SignInOK'
<1> USE DEF SignInOK
<1>1. /\ session' \in [Callbacks -> SessionRecords \cup {Absent}]
      /\ \A k \in Callbacks : SameSession(k)
      /\ UNCHANGED <<moment, link, invitation, attempt, callback>>
  BY RequestsKeepSessions
<1>2. /\ sessionRev' \in [Accounts -> Nat]
      /\ \A a \in Accounts : sessionRev[a] <= sessionRev'[a]
      /\ request' \in [Requests -> RequestRecords]
      /\ \A other \in Requests \ {r} : request'[other] = request[other]
      /\ request'[r] # Idle =>
            /\ session[request'[r].of] # Absent
            /\ request'[r].since <= sessionRev[session[request'[r].of].account]
            /\ request'[r].stage = "admitted" =>
                  request'[r].since <= session[request'[r].of].rev
  BY RequestWrites
<1>3. /\ Sessions' = Sessions
      /\ \A j \in Sessions : /\ session'[j].attempt = session[j].attempt
                              /\ session'[j].subject = session[j].subject
                              /\ session'[j].account = session[j].account
                              /\ session'[j].rev = session[j].rev
                              /\ InvitationOf(j)' = InvitationOf(j)
  BY <1>1 DEF Sessions, SameSession, InvitationOf
<1>4. /\ \A k \in Callbacks : Running(k)' = Running(k) /\ PurposeOf(k)' = PurposeOf(k)
      /\ \A k \in Callbacks : \A s : InsertsLink(k, s)' = InsertsLink(k, s)
      /\ \A k \in Callbacks : \A a : Locks(k, a)' = Locks(k, a)
      /\ \A k \in Callbacks : Enrolling(k)' = Enrolling(k)
  BY <1>1 DEF Running, PurposeOf, InsertsLink, Locks, Enrolling
<1>5. \A other \in Requests : request'[other] # Idle => request'[other].of \in Sessions
  BY <1>2 DEF StagesTell, Sessions, SignInTypeOK, RequestRecords
<1>6. SignInTypeOK' /\ StagesTell'
  <2>1. \A k \in Callbacks : session'[k] # Absent => callback'[k] = Over
    BY <1>1 DEF StagesTell, SameSession
  <2>2. \A other \in Requests : request'[other] # Idle => session'[request'[other].of] # Absent
    BY <1>1, <1>5 DEF Sessions, SameSession
  <2> QED
    BY <1>1, <1>2, <2>1, <2>2 DEF SignInTypeOK, StagesTell
<1>7. AttemptsSpent'
  BY <1>1, <1>3, <1>4 DEF AttemptsSpent, SignInOnce
<1>8. RevisionsGrow'
  <2>1. ASSUME NEW k \in Callbacks, callback[k].stage \in Resolved
        PROVE  callback[k].rev <= sessionRev'[callback[k].account]
    <3>1. callback[k].rev \in Nat /\ callback[k].account \in Accounts
      BY <2>1, RunningIsARecord DEF StagesTell
    <3>2. callback[k].rev <= sessionRev[callback[k].account]
      BY <2>1 DEF RevisionsGrow
    <3> QED
      BY <1>2, <3>1, <3>2 DEF SignInTypeOK
  <2>2. ASSUME NEW k \in Sessions
        PROVE  session[k].rev <= sessionRev'[session[k].account]
    <3>1. session[k].rev \in Nat /\ session[k].account \in Accounts
      BY SessionsAreRecords DEF Sessions
    <3>2. session[k].rev <= sessionRev[session[k].account]
      BY DEF RevisionsGrow
    <3> QED
      BY <1>2, <3>1, <3>2 DEF SignInTypeOK
  <2>3. ASSUME NEW other \in Requests, request'[other] # Idle
        PROVE  /\ request'[other].since <= sessionRev'[session'[request'[other].of].account]
               /\ request'[other].stage = "admitted" =>
                     request'[other].since <= session'[request'[other].of].rev
    <3> DEFINE k == request'[other].of
    <3>1. k \in Sessions
      BY <1>5, <2>3
    <3>2. session'[k].account = session[k].account /\ session'[k].rev = session[k].rev
      BY <1>3, <3>1
    <3>3. session[k].account \in Accounts
      BY <3>1, SessionsAreRecords DEF Sessions
    <3>4. /\ request'[other].since <= sessionRev[session[k].account]
          /\ request'[other].stage = "admitted" => request'[other].since <= session[k].rev
      BY <1>2, <2>3 DEF RevisionsGrow, LogoutAllIsFinal
    <3>5. request'[other].since \in Nat
      BY <1>2, <2>3 DEF RequestRecords
    <3> HIDE DEF k
    <3>6. request'[other].since <= sessionRev'[session[k].account]
      BY <1>2, <3>3, <3>4, <3>5 DEF SignInTypeOK
    <3> QED
      BY <3>2, <3>4, <3>6 DEF k
  <2>4. \A other \in Requests : request'[other].stage = "admitted" => request'[other] # Idle
    BY DEF Idle
  <2> QED
    BY <1>1, <1>3, <2>1, <2>2, <2>3, <2>4 DEF RevisionsGrow, LogoutAllIsFinal
<1>9. LinksHold'
  BY <1>1, <1>3, <1>4 DEF LinksHold, MayLink, SessionsFollowLinks
<1>10. InvitationsHold'
  BY <1>1, <1>3, <1>4 DEF InvitationsHold
<1> QED
  BY <1>6, <1>7, <1>8, <1>9, <1>10

---------------------------------------------------------------------------
(* The theorems.                                                           *)

(* The initial state satisfies the invariant. *)
LEMMA SignInOKAtFirst == SignInInit => SignInOK
<1> SUFFICES ASSUME SignInInit PROVE SignInOK
  OBVIOUS
<1> USE DEF SignInInit
<1>1. /\ [status |-> "absent", account |-> Unlinked, until |-> 0] \in InvitationRecords
      /\ [status |-> "absent", purpose |-> Login, until |-> 0] \in AttemptRecords
      /\ Idle \in RequestRecords
  BY DEF InvitationRecords, AttemptRecords, RequestRecords
<1>2. SignInTypeOK
  BY <1>1 DEF SignInTypeOK
<1>3. /\ \A k \in Callbacks : /\ ~ Running(k) /\ callback[k].stage \notin Resolved
                              /\ callback[k].stage \notin Verified
      /\ Sessions = {}
      /\ \A r \in Requests : request[r].stage # "admitted"
  BY DEF Running, Waiting, Stages, Resolved, Verified, Sessions, Idle
<1>4. StagesTell /\ AttemptsSpent /\ RevisionsGrow
  BY <1>3 DEF StagesTell, AttemptsSpent, RevisionsGrow, SignInOnce, LogoutAllIsFinal, Sessions
<1>5. LinksHold /\ InvitationsHold
  BY <1>3 DEF LinksHold, InvitationsHold, InsertsLink, Enrolling, SessionsFollowLinks
<1> QED
  BY <1>2, <1>4, <1>5 DEF SignInOK

(* Every step keeps it. *)
LEMMA SignInOKKept == SignInOK /\ [SignInNext]_signInVars => SignInOK'
<1> SUFFICES ASSUME SignInOK, [SignInNext]_signInVars
             PROVE  SignInOK'
  OBVIOUS
<1>1. ASSUME NEW i \in Invitations, InvitationStep(i)
      PROVE  SignInOK'
  BY <1>1, InvitationStepsKeep
<1>2. ASSUME NEW x \in Attempts, NEW purpose \in Invitations \cup {Login},
             StartAttempt(x, purpose)
      PROVE  SignInOK'
  BY <1>2, StartAttemptKeeps
<1>3. ASSUME NEW k \in Callbacks, NEW x \in Attempts, NEW old \in Callbacks \cup {NoSession},
             Claim(k, x, old)
      PROVE  SignInOK'
  BY <1>3, ClaimKeeps
<1>4. ASSUME NEW k \in Callbacks, CallbackStep(k) \/ CallbackStops(k) \/ CommitCallback(k)
      PROVE  SignInOK'
  BY <1>4, StepsKeep, StopsKeep, CommitKeeps
<1>5. ASSUME NEW r \in Requests, RequestStep(r)
      PROVE  SignInOK'
  BY <1>5, RequestsKeep
<1>6. CASE UNCHANGED <<sessionRev, link, invitation, attempt, callback, session, request>>
           /\ moment' \in Nat
  BY <1>6, PartsKept DEF SignInOK, SignInTypeOK
<1>7. CASE MomentPasses
  BY <1>6, <1>7 DEF MomentPasses, SignInOK, SignInTypeOK
<1>8. CASE UNCHANGED signInVars
  BY <1>6, <1>8 DEF signInVars, SignInOK, SignInTypeOK
<1> QED
  BY <1>1, <1>2, <1>3, <1>4, <1>5, <1>7, <1>8
     DEF SignInNext, InvitationStep, CallbackStep, CallbackStops, RequestStep

(* The invariant holds in every reachable state. *)
THEOREM SignInHolds == SignInSpec => []SignInOK
BY SignInOKAtFirst, SignInOKKept, PTL DEF SignInSpec

(* A sign-in attempt gives at most one session, however often its callback  *)
(* is delivered, for any numbers of accounts, attempts and callbacks and    *)
(* wherever servers die: the claim gives the attempt to one callback, which *)
(* spends it before its commit.                                             *)
THEOREM OneSessionPerAttempt == SignInSpec => []SignInOnce
<1>1. SignInOK => SignInOnce
  BY DEF SignInOK, AttemptsSpent
<1> QED
  BY <1>1, SignInHolds, PTL

(* A session belongs to the account its identity is linked to: the unique   *)
(* index makes the second of two enrolments of one identity wait and fail.  *)
THEOREM SessionsAreOfTheLinked == SignInSpec => []SessionsFollowLinks
<1>1. SignInOK => SessionsFollowLinks
  BY DEF SignInOK, LinksHold
<1> QED
  BY <1>1, SignInHolds, PTL

(* No request that arrives after a logout of all sessions is admitted by a  *)
(* session whose sign-in had read the account before it: the revision read  *)
(* goes into the session and is compared again at every request.            *)
THEOREM LogoutOfAllIsFinal == SignInSpec => []LogoutAllIsFinal
<1>1. SignInOK => LogoutAllIsFinal
  BY DEF SignInOK, RevisionsGrow
<1> QED
  BY <1>1, SignInHolds, PTL

(* Exactly the consumed invitations have signed someone in, once and into    *)
(* the invited account: the row and its account stay locked from the        *)
(* judgement to the commit, against other callbacks and revocations.        *)
THEOREM InvitationsLinkOnce == SignInSpec => []InvitationLinksOnce
<1>1. ASSUME SignInOK PROVE InvitationLinksOnce
  <2> SUFFICES ASSUME NEW i \in Invitations, NEW R,
                      R = {k \in Sessions : InvitationOf(k) = i}
               PROVE  /\ Cardinality(R) = IF invitation[i].status = "consumed" THEN 1 ELSE 0
                      /\ \A k \in R : session[k].account = invitation[i].account
    BY DEF InvitationLinksOnce
  <2>1. i # Login
    BY SignInAssumption
  <2>2. \A k \in R : /\ invitation[i].status = "consumed"
                     /\ invitation[i].account = session[k].account
                     /\ \A other \in R : other = k
    BY <1>1, <2>1 DEF SignInOK, InvitationsHold
  <2>3. CASE invitation[i].status = "consumed"
    <3>1. PICK k : k \in R
      BY <1>1, <2>3 DEF SignInOK, InvitationsHold
    <3>2. R = {k}
      BY <2>2, <3>1
    <3> QED
      BY <2>2, <2>3, <3>2, FS_Singleton
  <2>4. CASE invitation[i].status # "consumed"
    <3>1. R = {}
      BY <2>2, <2>4
    <3> QED
      BY <2>4, <3>1, FS_EmptySet
  <2> QED
    BY <2>3, <2>4
<1> QED
  BY <1>1, SignInHolds, PTL

-----------------------------------------------------------------------------
(* Installation. *)

Nullable(S) == S \cup {None}

InitializeTasks == [kind : {"initialize"}, step : {"checked", "spent", "locked"}, code : Codes]
PrepareTasks == [kind : {"prepare"}, step : {"checked"}, code : Codes, provider : Providers]
CompleteTasks ==
    [kind : {"complete"}, step : {"checked", "exchanging", "exchanged"}, ceremony : Ceremonies,
     code : Codes, at : Nat, provider : Nullable(Providers)]
FinalTasks ==
    [kind : {"complete"}, step : {"locked"}, ceremony : Ceremonies, code : Codes,
     verified : Nullable(Providers), provider : Providers]
ChooseTasks == [kind : {"choose"}, step : {"checked"}, provider : Providers]
ConnectTasks ==
    [kind : {"connect"}, step : {"checked", "exchanging", "exchanged", "locked"},
     ceremony : Ceremonies, code : {None}, at : Nat, provider : Providers]
RecoverTasks ==
    [kind : {"recover"}, step : {"spent"}, code : Codes] \cup
    [kind : {"recover"}, step : {"exchanged"}, code : Codes, rev : Nat, connected : BOOLEAN]
TaskRecords ==
    {Unstarted, Ended} \cup InitializeTasks \cup PrepareTasks \cup CompleteTasks
    \cup FinalTasks \cup ChooseTasks \cup ConnectTasks \cup RecoverTasks
SchoolRecords ==
    [tenants : Nat, providers : Nat, provider : Nullable(Providers),
     identity : Nullable(Providers), rev : Nat]

InstallationTypeOK ==
    /\ hour \in Nat
    /\ code \in [Codes -> CodeRecords]
    /\ draft \in [Codes -> DraftRecords]
    /\ ceremony \in [Ceremonies -> CeremonyRecords]
    /\ task \in [Tasks -> TaskRecords]
    /\ school \in SchoolRecords
    /\ DOMAIN admission = Tasks

(* Every ceremony is of a draft with a provider, or of a provider itself.   *)
ProvidersNamed ==
    /\ \A x \in Ceremonies : ceremony[x].status # "absent" =>
          IF ceremony[x].code = None THEN ceremony[x].provider \in Providers
          ELSE draft[ceremony[x].code].provider \in Providers
    /\ \A t \in Tasks : task[t].kind = "complete" =>
          draft[task[t].code].provider \in Providers
    /\ \A t \in Tasks : task[t].kind \in {"complete", "connect"} =>
          ceremony[task[t].ceremony].status # "absent"

(* The lock, and what was judged under it. *)
OneAtATime == \A s, t \in Tasks : task[s].step = "locked" /\ task[t].step = "locked" => s = t
JudgementHolds ==
    \A t \in Tasks : task[t].step = "locked" =>
        IF task[t].kind = "connect" THEN school.provider = None ELSE ~ Installed
Counted ==
    /\ school.tenants <= 1
    /\ school.providers = IF school.provider = None THEN 0 ELSE 1
    /\ school.provider # None => Installed

(* What presupposes a school. *)
SchoolFirst ==
    ~ Installed =>
        /\ \A g \in Codes : code[g].purpose = "recovery" => code[g].status = "absent"
        /\ \A x \in Ceremonies : ceremony[x].status # "absent" => ceremony[x].code # None
        /\ \A t \in Tasks : task[t].kind \notin {"choose", "connect", "recover"}
        /\ \A t \in Tasks : admission[t] = NoAdmission

(* A session of the account's last revision, made or to be made, that       *)
(* knew of no provider.                                                    *)
RevisionsTell ==
    /\ \A t \in Tasks : task[t].kind = "recover" /\ task[t].step = "exchanged" =>
          /\ task[t].rev <= school.rev
          /\ task[t].rev = school.rev /\ ~ task[t].connected => school.provider = None
    /\ \A t \in Tasks : admission[t] # NoAdmission =>
          /\ admission[t].rev \in Nat /\ admission[t].rev <= school.rev
          /\ admission[t].rev = school.rev /\ ~ admission[t].connected => school.provider = None

InstallationOK ==
    /\ InstallationTypeOK
    /\ ProvidersNamed
    /\ OneAtATime
    /\ JudgementHolds
    /\ Counted
    /\ SchoolFirst
    /\ RevisionsTell

---------------------------------------------------------------------------
(* Types.                                                                  *)

(* The kind of a task says which record it keeps.                          *)
LEMMA KindsTell ==
    ASSUME InstallationTypeOK, NEW t \in Tasks
    PROVE  /\ task[t].kind = "initialize" => task[t] \in InitializeTasks
           /\ task[t].kind = "prepare" => task[t] \in PrepareTasks
           /\ task[t].kind = "complete" => task[t] \in CompleteTasks \cup FinalTasks
           /\ task[t].kind = "choose" => task[t] \in ChooseTasks
           /\ task[t].kind = "connect" => task[t] \in ConnectTasks
           /\ task[t].kind = "recover" => task[t] \in RecoverTasks
<1>1. task[t] \in TaskRecords
    BY DEF InstallationTypeOK
<1> QED
    BY <1>1 DEF TaskRecords, Unstarted, Ended, InitializeTasks, PrepareTasks, CompleteTasks,
        FinalTasks, ChooseTasks, ConnectTasks, RecoverTasks, None

(* A step of one task leaves the tasks well typed if it leaves that one so. *)
LEMMA TypedTask ==
    ASSUME InstallationTypeOK, NEW t \in Tasks, NEW r \in TaskRecords,
           task' = [task EXCEPT ![t] = r]
    PROVE  task' \in [Tasks -> TaskRecords]
BY DEF InstallationTypeOK

(* A task that has ended is a task.                                        *)
LEMMA EndedIsTyped == Ended \in TaskRecords
BY DEF TaskRecords

(* Finishing a task leaves the other tasks.                                *)
LEMMA FinishEnds ==
    ASSUME InstallationTypeOK, NEW t \in Tasks, Finish(t)
    PROVE  task'[t] = Ended /\ \A u \in Tasks : u # t => task'[u] = task[u]
BY DEF InstallationTypeOK, Finish

(* A spent code is a code.                                                 *)
LEMMA SpendIsTyped ==
    ASSUME InstallationTypeOK, NEW g \in Codes, Spend(g)
    PROVE  code' \in [Codes -> CodeRecords]
<1>1. code[g] \in CodeRecords
    BY DEF InstallationTypeOK
<1>2. [code[g] EXCEPT !.status = "spent"] \in CodeRecords
    BY <1>1 DEF CodeRecords
<1> QED
    BY <1>2 DEF Spend, InstallationTypeOK

(* An issued code is a code.                                               *)
LEMMA IssueIsTyped ==
    ASSUME InstallationTypeOK, NEW g \in Codes, IssueBootstrapCode(g) \/ IssueRecoveryCode(g)
    PROVE  code' \in [Codes -> CodeRecords]
<1>1. hour + CodeLife \in Nat
    BY InstallationAssumption DEF InstallationTypeOK
<1>2. /\ [status |-> "live", purpose |-> "bootstrap", until |-> hour + CodeLife] \in CodeRecords
      /\ [status |-> "live", purpose |-> "recovery", until |-> hour + CodeLife] \in CodeRecords
    BY <1>1 DEF CodeRecords
<1> QED
    BY <1>2 DEF IssueBootstrapCode, IssueRecoveryCode, InstallationTypeOK

(* A ceremony keeps everything but its status. *)
LEMMA StatusIsTyped ==
    ASSUME InstallationTypeOK, NEW x \in Ceremonies,
           NEW status \in {"processing", "consumed", "failed"},
           ceremony' = [ceremony EXCEPT ![x].status = status]
    PROVE  /\ ceremony' \in [Ceremonies -> CeremonyRecords]
           /\ \A y \in Ceremonies :
                  /\ ceremony'[y].code = ceremony[y].code
                  /\ ceremony'[y].provider = ceremony[y].provider
                  /\ ceremony'[y].status \in {status, ceremony[y].status}
<1>1. ceremony[x] \in CeremonyRecords
    BY DEF InstallationTypeOK
<1>2. [ceremony[x] EXCEPT !.status = status] \in CeremonyRecords
    BY <1>1 DEF CeremonyRecords
<1>3. \A y \in Ceremonies : y # x => ceremony'[y] = ceremony[y]
    BY DEF InstallationTypeOK
<1>4. ceremony'[x] = [ceremony[x] EXCEPT !.status = status]
    BY DEF InstallationTypeOK
<1>5. ceremony' \in [Ceremonies -> CeremonyRecords]
    BY <1>2 DEF InstallationTypeOK
<1> QED
    BY <1>1, <1>3, <1>4, <1>5 DEF CeremonyRecords

(* What a commit makes of the school. *)
LEMMA SchoolAfter ==
    ASSUME InstallationTypeOK, NEW t \in Tasks
    PROVE  /\ CommitInitialize(t) => school' =
                  [tenants |-> school.tenants + 1, providers |-> school.providers,
                   provider |-> school.provider, identity |-> school.identity, rev |-> school.rev]
           /\ CommitComplete(t) => school' =
                  [tenants |-> school.tenants + 1, providers |-> school.providers + 1,
                   provider |-> task[t].provider, identity |-> task[t].verified, rev |-> school.rev]
           /\ CommitConnect(t) => school' =
                  [tenants |-> school.tenants, providers |-> school.providers + 1,
                   provider |-> task[t].provider, identity |-> task[t].provider,
                   rev |-> school.rev + 1]
<1>1. school \in SchoolRecords
    BY DEF InstallationTypeOK
<1>2. school = [tenants |-> school.tenants, providers |-> school.providers,
                provider |-> school.provider, identity |-> school.identity, rev |-> school.rev]
    BY <1>1 DEF SchoolRecords
<1>3. CommitInitialize(t) => school' = [school EXCEPT !.tenants = @ + 1]
    BY DEF CommitInitialize
<1>4. CommitComplete(t) => school' =
          [school EXCEPT !.tenants = @ + 1, !.providers = @ + 1,
                         !.provider = task[t].provider, !.identity = task[t].verified]
    BY DEF CommitComplete
<1>5. CommitConnect(t) => school' =
          [school EXCEPT !.providers = @ + 1, !.provider = task[t].provider,
                         !.identity = task[t].provider, !.rev = @ + 1]
    BY DEF CommitConnect, Connected
<1>6. CommitInitialize(t) => school' =
          [tenants |-> school.tenants + 1, providers |-> school.providers,
           provider |-> school.provider, identity |-> school.identity, rev |-> school.rev]
    BY <1>2, <1>3
<1>7. CommitComplete(t) => school' =
          [tenants |-> school.tenants + 1, providers |-> school.providers + 1,
           provider |-> task[t].provider, identity |-> task[t].verified, rev |-> school.rev]
    BY <1>2, <1>4
<1>8. CommitConnect(t) => school' =
          [tenants |-> school.tenants, providers |-> school.providers + 1,
           provider |-> task[t].provider, identity |-> task[t].provider,
           rev |-> school.rev + 1]
    BY <1>2, <1>5
<1> QED
    BY <1>6, <1>7, <1>8

(* The commits that write the school write a school.                       *)
LEMMA SchoolIsTyped ==
    ASSUME InstallationTypeOK, NEW t \in Tasks,
           CommitInitialize(t) \/ CommitComplete(t) \/ CommitConnect(t)
    PROVE  school' \in SchoolRecords
<1>1. school \in SchoolRecords
    BY DEF InstallationTypeOK
<1>2. CASE CommitInitialize(t)
    BY <1>1, <1>2, SchoolAfter DEF SchoolRecords
<1>3. CASE CommitComplete(t)
    <2>1. task[t].provider \in Providers /\ task[t].verified \in Nullable(Providers)
        BY <1>3, KindsTell DEF CommitComplete, Step, CompleteTasks, FinalTasks
    <2> QED
        BY <1>1, <1>3, <2>1, SchoolAfter DEF SchoolRecords, Nullable
<1>4. CASE CommitConnect(t)
    <2>1. task[t].provider \in Providers
        BY <1>4, KindsTell DEF CommitConnect, Step, ConnectTasks
    <2> QED
        BY <1>1, <1>4, <2>1, SchoolAfter DEF SchoolRecords, Nullable
<1> QED
    BY <1>2, <1>3, <1>4

(* A task that advances is a task.                                         *)
LEMMA AdvanceIsTyped ==
    ASSUME InstallationTypeOK, NEW t \in Tasks, NEW step, Advance(t, step),
           \/ task[t].kind = "initialize" /\ step \in {"spent", "locked"}
           \/ task[t].kind = "connect" /\ step = "locked"
           \/ task[t].step = "exchanging" /\ step = "exchanged"
    PROVE  task' \in [Tasks -> TaskRecords]
<1> DEFINE r == [task[t] EXCEPT !.step = step]
<1>1. task[t] \in TaskRecords
    BY DEF InstallationTypeOK
<1>2. CASE task[t].kind = "initialize" /\ step \in {"spent", "locked"}
    <2>1. task[t] \in InitializeTasks
        BY <1>2, KindsTell
    <2>2. r \in InitializeTasks
        BY <1>2, <2>1 DEF InitializeTasks
    <2> QED
        BY <2>2, TypedTask DEF Advance, TaskRecords
<1>3. CASE task[t].kind = "connect" /\ step = "locked"
    <2>1. task[t] \in ConnectTasks
        BY <1>3, KindsTell
    <2>2. r \in ConnectTasks
        BY <1>3, <2>1 DEF ConnectTasks
    <2> QED
        BY <2>2, TypedTask DEF Advance, TaskRecords
<1>4. CASE task[t].step = "exchanging" /\ step = "exchanged"
    <2>1. task[t] \in CompleteTasks \/ task[t] \in ConnectTasks
        BY <1>1, <1>4 DEF TaskRecords, Unstarted, Ended, InitializeTasks, PrepareTasks, FinalTasks,
            ChooseTasks, RecoverTasks, None
    <2>2. CASE task[t] \in CompleteTasks
        <3>1. r \in CompleteTasks
            BY <1>4, <2>2 DEF CompleteTasks
        <3> QED
            BY <3>1, TypedTask DEF Advance, TaskRecords
    <2>3. CASE task[t] \in ConnectTasks
        <3>1. r \in ConnectTasks
            BY <1>4, <2>3 DEF ConnectTasks
        <3> QED
            BY <3>1, TypedTask DEF Advance, TaskRecords
    <2> QED
        BY <2>1, <2>2, <2>3
<1> QED
    BY <1>2, <1>3, <1>4

(* Codes and the guided ceremony's first half. *)
LEMMA CodesAreTyped ==
    ASSUME InstallationTypeOK, NEW g \in Codes,
           IssueBootstrapCode(g) \/ IssueRecoveryCode(g) \/ WasteCode(g)
    PROVE  InstallationTypeOK'
<1>1. code' \in [Codes -> CodeRecords]
    BY SpendIsTyped, IssueIsTyped DEF WasteCode
<1> QED
    BY <1>1 DEF IssueBootstrapCode, IssueRecoveryCode, WasteCode, InstallationTypeOK

(* A task that starts has its type.                                        *)
LEMMA StartsAreTyped ==
    ASSUME InstallationTypeOK, NEW t \in Tasks, NEW g \in Codes,
           \/ StartInitialize(t, g) \/ SpendRecoveryCode(t, g)
           \/ \E p \in Providers : StartPrepare(t, g, p)
    PROVE  InstallationTypeOK'
<1>1. CASE StartInitialize(t, g)
    <2>1. [kind |-> "initialize", step |-> "checked", code |-> g] \in TaskRecords
        BY DEF TaskRecords, InitializeTasks
    <2> QED
        BY <1>1, <2>1, TypedTask DEF StartInitialize, InstallationTypeOK
<1>2. CASE SpendRecoveryCode(t, g)
    <2>1. [kind |-> "recover", step |-> "spent", code |-> g] \in TaskRecords
        BY DEF TaskRecords, RecoverTasks
    <2> QED
        BY <1>2, <2>1, TypedTask, SpendIsTyped DEF SpendRecoveryCode, InstallationTypeOK
<1>3. ASSUME NEW p \in Providers, StartPrepare(t, g, p)
      PROVE  InstallationTypeOK'
    <2>1. [kind |-> "prepare", step |-> "checked", code |-> g, provider |-> p] \in TaskRecords
        BY DEF TaskRecords, PrepareTasks
    <2> QED
        BY <1>3, <2>1, TypedTask DEF StartPrepare, InstallationTypeOK
<1> QED
    BY <1>1, <1>2, <1>3

(* A ceremony that is saved has its type.                                  *)
LEMMA SavesAreTyped ==
    ASSUME InstallationTypeOK, NEW t \in Tasks, NEW x \in Ceremonies,
           SaveDraft(t, x) \/ SaveChoice(t, x)
    PROVE  /\ InstallationTypeOK'
           /\ \A y \in Ceremonies : y # x => ceremony'[y] = ceremony[y]
           /\ SaveDraft(t, x) => ceremony'[x].code = task[t].code
           /\ SaveChoice(t, x) => ceremony'[x].code = None /\ ceremony'[x].provider = task[t].provider
<1>1. hour + CodeLife \in Nat /\ hour + CeremonyLife \in Nat
    BY InstallationAssumption DEF InstallationTypeOK
<1>2. task' \in [Tasks -> TaskRecords]
    BY TypedTask, EndedIsTyped DEF SaveDraft, SaveChoice, Finish
<1>3. CASE SaveDraft(t, x)
    <2> DEFINE g == task[t].code
               row == [status |-> "pending", code |-> g, provider |-> None,
                       until |-> hour + CeremonyLife]
    <2>1. g \in Codes /\ task[t].provider \in Providers
        BY <1>3, KindsTell DEF SaveDraft, Step, PrepareTasks
    <2>2. row \in CeremonyRecords
        BY <1>1, <2>1 DEF CeremonyRecords
    <2>3. [provider |-> task[t].provider, completed |-> FALSE, until |-> hour + CodeLife] \in DraftRecords
        BY <1>1, <2>1 DEF DraftRecords
    <2>4. draft' \in [Codes -> DraftRecords]
        BY <1>3, <2>1, <2>3 DEF SaveDraft, InstallationTypeOK
    <2>5. ceremony' = [ceremony EXCEPT ![x] = row]
        BY <1>3 DEF SaveDraft
    <2>6. ~ SaveChoice(t, x)
        BY <1>3 DEF SaveDraft, SaveChoice, Step
    <2> QED
        BY <1>2, <1>3, <2>2, <2>4, <2>5, <2>6 DEF SaveDraft, InstallationTypeOK
<1>4. CASE SaveChoice(t, x)
    <2> DEFINE row == [status |-> "pending", code |-> None, provider |-> task[t].provider,
                       until |-> hour + CeremonyLife]
    <2>1. task[t].provider \in Providers
        BY <1>4, KindsTell DEF SaveChoice, Step, ChooseTasks
    <2>2. row \in CeremonyRecords
        BY <1>1, <2>1 DEF CeremonyRecords
    <2>3. ceremony' = [ceremony EXCEPT ![x] = row]
        BY <1>4 DEF SaveChoice
    <2>4. ~ SaveDraft(t, x)
        BY <1>4 DEF SaveDraft, SaveChoice, Step
    <2> QED
        BY <1>2, <1>4, <2>2, <2>3, <2>4 DEF SaveChoice, InstallationTypeOK
<1> QED
    BY <1>3, <1>4

(* A ceremony that is claimed leaves typed rows.                           *)
LEMMA ClaimsAreTyped ==
    ASSUME InstallationTypeOK, ProvidersNamed, NEW t \in Tasks, NEW x \in Ceremonies,
           NEW kind \in {"complete", "connect"}, ClaimCeremony(t, x, kind)
    PROVE  InstallationTypeOK'
<1> DEFINE r == [kind |-> kind, step |-> "checked", ceremony |-> x, code |-> ceremony[x].code,
                 at |-> hour, provider |-> ceremony[x].provider]
<1>1. ceremony[x] \in CeremonyRecords /\ hour \in Nat
    BY DEF InstallationTypeOK
<1>2. CASE kind = "complete"
    <2>1. r \in CompleteTasks
        BY <1>1, <1>2 DEF ClaimCeremony, CompleteTasks, CeremonyRecords, Nullable
    <2> QED
        BY <2>1, StatusIsTyped, TypedTask DEF ClaimCeremony, InstallationTypeOK, TaskRecords
<1>3. CASE kind = "connect"
    <2>1. ceremony[x].code = None /\ ceremony[x].status = "pending"
        BY <1>3 DEF ClaimCeremony
    <2>2. r \in ConnectTasks
        BY <1>1, <1>3, <2>1 DEF ProvidersNamed, ConnectTasks
    <2> QED
        BY <2>2, StatusIsTyped, TypedTask DEF ClaimCeremony, InstallationTypeOK, TaskRecords
<1> QED
    BY <1>2, <1>3

(* The steps within a task keep the types.                                 *)
LEMMA TasksAreTyped ==
    ASSUME InstallationTypeOK, ProvidersNamed, NEW t \in Tasks,
           \/ SpendBootstrapCode(t) \/ LockInitialize(t) \/ ReadConfiguration(t) \/ ExchangeCode(t)
           \/ LockComplete(t) \/ LockConnect(t) \/ ReadAdministrator(t)
    PROVE  InstallationTypeOK'
<1>1. CASE SpendBootstrapCode(t)
    <2>1. task[t].code \in Codes
        BY <1>1, KindsTell DEF SpendBootstrapCode, Step, InitializeTasks
    <2> QED
        BY <1>1, <2>1, SpendIsTyped, AdvanceIsTyped DEF SpendBootstrapCode, Step, InstallationTypeOK
<1>2. CASE LockInitialize(t)
    BY <1>2, AdvanceIsTyped DEF LockInitialize, Step, InstallationTypeOK
<1>3. CASE ReadConfiguration(t)
    <2> DEFINE p == IF task[t].kind = "complete" THEN draft[task[t].code].provider ELSE task[t].provider
               r == [task[t] EXCEPT !.step = "exchanging", !.provider = p]
    <2>1. task' = [task EXCEPT ![t] = r]
        BY <1>3 DEF ReadConfiguration, InstallationTypeOK
    <2>2. CASE task[t].kind = "complete"
        <3>1. task[t] \in CompleteTasks
            BY <1>3, <2>2, KindsTell DEF ReadConfiguration, Step, FinalTasks
        <3>2. p \in Nullable(Providers)
            BY <2>2, <3>1 DEF InstallationTypeOK, DraftRecords, CompleteTasks, Nullable
        <3>3. r \in CompleteTasks
            BY <3>1, <3>2 DEF CompleteTasks
        <3> QED
            BY <1>3, <2>1, <3>3, TypedTask DEF TaskRecords, ReadConfiguration, InstallationTypeOK
    <2>3. CASE task[t].kind = "connect"
        <3>1. task[t] \in ConnectTasks
            BY <2>3, KindsTell
        <3>2. p \in Providers
            BY <2>3, <3>1 DEF ConnectTasks
        <3>3. r \in ConnectTasks
            BY <3>1, <3>2 DEF ConnectTasks
        <3> QED
            BY <1>3, <2>1, <3>3, TypedTask DEF TaskRecords, ReadConfiguration, InstallationTypeOK
    <2> QED
        BY <1>3, <2>2, <2>3 DEF ReadConfiguration, Step
<1>4. CASE ExchangeCode(t)
    BY <1>4, AdvanceIsTyped DEF ExchangeCode, InstallationTypeOK
<1>5. CASE LockComplete(t)
    <2>1. task[t] \in CompleteTasks
        BY <1>5, KindsTell DEF LockComplete, Step, FinalTasks
    <2>2. draft[task[t].code].provider \in Providers
        BY <1>5 DEF LockComplete, Step, ProvidersNamed
    <2>3. [kind |-> "complete", step |-> "locked", code |-> task[t].code,
           ceremony |-> task[t].ceremony, verified |-> task[t].provider,
           provider |-> draft[task[t].code].provider] \in FinalTasks
        BY <2>1, <2>2 DEF CompleteTasks, FinalTasks
    <2> QED
        BY <1>5, <2>3, TypedTask DEF LockComplete, TaskRecords, InstallationTypeOK
<1>6. CASE LockConnect(t)
    BY <1>6, AdvanceIsTyped DEF LockConnect, Step, InstallationTypeOK
<1>7. CASE ReadAdministrator(t)
    <2>1. task[t].code \in Codes /\ school.rev \in Nat
        BY <1>7, KindsTell DEF ReadAdministrator, Step, RecoverTasks, InstallationTypeOK, SchoolRecords
    <2>2. [kind |-> "recover", step |-> "exchanged", code |-> task[t].code, rev |-> school.rev,
           connected |-> school.provider # None] \in RecoverTasks
        BY <2>1 DEF RecoverTasks
    <2> QED
        BY <1>7, <2>2, TypedTask DEF ReadAdministrator, TaskRecords, InstallationTypeOK
<1> QED
    BY <1>1, <1>2, <1>3, <1>4, <1>5, <1>6, <1>7

(* The steps that end a task keep the types.                               *)
LEMMA EndsAreTyped ==
    ASSUME InstallationTypeOK, NEW t \in Tasks,
           \/ CommitInitialize(t) \/ CommitComplete(t) \/ CommitConnect(t) \/ CommitRecover(t)
           \/ FailCeremony(t) \/ LoseTask(t)
    PROVE  InstallationTypeOK'
<1>1. task' \in [Tasks -> TaskRecords]
    BY TypedTask, EndedIsTyped
    DEF CommitInitialize, CommitComplete, CommitConnect, CommitRecover, FailCeremony, LoseTask, Finish
<1>2. CASE CommitInitialize(t)
    BY <1>1, <1>2, SchoolIsTyped DEF CommitInitialize, Admit, InstallationTypeOK
<1>3. CASE CommitComplete(t)
    <2>1. task[t].code \in Codes /\ task[t].ceremony \in Ceremonies
        BY <1>3, KindsTell DEF CommitComplete, Step, CompleteTasks, FinalTasks
    <2>2. [draft[task[t].code] EXCEPT !.completed = TRUE] \in DraftRecords
        BY <2>1 DEF InstallationTypeOK, DraftRecords
    <2>3. draft' \in [Codes -> DraftRecords]
        BY <1>3, <2>1, <2>2 DEF CommitComplete, InstallationTypeOK
    <2>4. ceremony' \in [Ceremonies -> CeremonyRecords]
        BY <1>3, <2>1, StatusIsTyped DEF CommitComplete
    <2> QED
        BY <1>1, <1>3, <2>1, <2>3, <2>4, SchoolIsTyped, SpendIsTyped
        DEF CommitComplete, Admit, InstallationTypeOK
<1>4. CASE CommitConnect(t)
    <2>1. task[t].ceremony \in Ceremonies
        BY <1>4, KindsTell DEF CommitConnect, Step, ConnectTasks
    <2>2. ceremony' \in [Ceremonies -> CeremonyRecords]
        BY <1>4, <2>1, StatusIsTyped DEF CommitConnect
    <2> QED
        BY <1>1, <1>4, <2>2, SchoolIsTyped DEF CommitConnect, Admit, InstallationTypeOK
<1>5. CASE CommitRecover(t)
    BY <1>1, <1>5 DEF CommitRecover, InstallationTypeOK
<1>6. CASE FailCeremony(t)
    <2>1. task[t].ceremony \in Ceremonies
        BY <1>6, KindsTell DEF FailCeremony, CompleteTasks, FinalTasks, ConnectTasks
    <2>2. ceremony' \in [Ceremonies -> CeremonyRecords]
        BY <1>6, <2>1, StatusIsTyped DEF FailCeremony
    <2> QED
        BY <1>1, <1>6, <2>2 DEF FailCeremony, InstallationTypeOK
<1>7. CASE LoseTask(t)
    BY <1>1, <1>7 DEF LoseTask, InstallationTypeOK
<1> QED
    BY <1>2, <1>3, <1>4, <1>5, <1>6, <1>7

(* Every step keeps the types.                                             *)
LEMMA StepKeepsTypes ==
    ASSUME InstallationTypeOK, ProvidersNamed, [InstallationNext]_installationVars
    PROVE  InstallationTypeOK'
<1>1. ASSUME NEW t \in Tasks, NEW s \in Tasks, NEW p \in Providers, StartChoose(t, s, p)
      PROVE  InstallationTypeOK'
    <2>1. [kind |-> "choose", step |-> "checked", provider |-> p] \in TaskRecords
        BY DEF TaskRecords, ChooseTasks
    <2> QED
        BY <1>1, <2>1, TypedTask DEF StartChoose, InstallationTypeOK
<1>2. CASE HourPasses
    BY <1>2 DEF HourPasses, InstallationTypeOK
<1>3. CASE UNCHANGED installationVars
    BY <1>3 DEF installationVars, InstallationTypeOK
<1> QED
    BY <1>1, <1>2, <1>3, CodesAreTyped, StartsAreTyped, SavesAreTyped, ClaimsAreTyped,
       TasksAreTyped, EndsAreTyped
    DEF InstallationNext

---------------------------------------------------------------------------
(* Providers.                                                              *)

(* Ceremonies keep their code and provider, drafts get others. *)
LEMMA StepKeepsProviders ==
    ASSUME InstallationTypeOK, ProvidersNamed, InstallationTypeOK',
           [InstallationNext]_installationVars
    PROVE  ProvidersNamed'
<1>1. ASSUME NEW t \in Tasks, NEW x \in Ceremonies, SaveDraft(t, x)
      PROVE  ProvidersNamed'
    <2> DEFINE g == task[t].code
    <2>1. g \in Codes /\ task[t].provider \in Providers
        BY <1>1, KindsTell DEF SaveDraft, Step, PrepareTasks
    <2>2. draft'[g].provider \in Providers /\ \A h \in Codes : h # g => draft'[h] = draft[h]
        BY <1>1, <2>1 DEF SaveDraft, InstallationTypeOK
    <2>3. ceremony'[x].code = g /\ \A y \in Ceremonies : y # x => ceremony'[y] = ceremony[y]
        BY <1>1, SavesAreTyped
    <2>4. ceremony[x].status = "absent" /\ ceremony'[x].status = "pending"
        BY <1>1 DEF SaveDraft, InstallationTypeOK
    <2>5. \A y \in Ceremonies : ceremony[y].code \in Nullable(Codes)
        BY DEF InstallationTypeOK, CeremonyRecords, Nullable
    <2>6. \A h \in Codes : draft[h].provider \in Providers => draft'[h].provider \in Providers
        BY <2>2
    <2>7. \A u \in Tasks : u # t => task'[u] = task[u]
        BY <1>1 DEF SaveDraft, Finish, InstallationTypeOK
    <2>8. task'[t].kind = "ended"
        BY <1>1 DEF SaveDraft, Finish, Ended, InstallationTypeOK
    <2>9. \A u \in Tasks : task[u].kind = "complete" => task[u].code \in Codes
        BY KindsTell DEF CompleteTasks, FinalTasks
    <2>10. \A u \in Tasks : task[u].kind \in {"complete", "connect"} => task[u].ceremony \in Ceremonies
        BY KindsTell DEF CompleteTasks, FinalTasks, ConnectTasks
    <2> QED
        BY <2>1, <2>2, <2>3, <2>4, <2>5, <2>6, <2>7, <2>8, <2>9, <2>10, InstallationAssumption
        DEF ProvidersNamed, Nullable
<1>2. ASSUME NEW t \in Tasks, NEW x \in Ceremonies, SaveChoice(t, x)
      PROVE  ProvidersNamed'
    <2>1. task[t].provider \in Providers
        BY <1>2, KindsTell DEF SaveChoice, Step, ChooseTasks
    <2>2. /\ ceremony'[x].code = None /\ ceremony'[x].provider = task[t].provider
          /\ \A y \in Ceremonies : y # x => ceremony'[y] = ceremony[y]
        BY <1>2, SavesAreTyped
    <2>3. ceremony[x].status = "absent" /\ ceremony'[x].status = "pending"
        BY <1>2 DEF SaveChoice, InstallationTypeOK
    <2>4. /\ \A u \in Tasks : u # t => task'[u] = task[u]
          /\ task'[t].kind = "ended"
        BY <1>2 DEF SaveChoice, Finish, Ended, InstallationTypeOK
    <2>5. \A u \in Tasks : task[u].kind \in {"complete", "connect"} => task[u].ceremony \in Ceremonies
        BY KindsTell DEF CompleteTasks, FinalTasks, ConnectTasks
    <2> QED
        BY <1>2, <2>1, <2>2, <2>3, <2>4, <2>5 DEF ProvidersNamed, SaveChoice
<1>3. ASSUME \A g \in Codes : draft'[g].provider = draft[g].provider,
             \A y \in Ceremonies : /\ ceremony'[y].code = ceremony[y].code
                                   /\ ceremony'[y].provider = ceremony[y].provider
                                   /\ ceremony'[y].status = "absent" <=> ceremony[y].status = "absent",
             \A u \in Tasks :
                 \/ task'[u] = task[u]
                 \/ task'[u].kind \notin {"complete", "connect"}
                 \/ /\ task'[u].kind = task[u].kind /\ task'[u].code = task[u].code
                    /\ task'[u].ceremony = task[u].ceremony
      PROVE  ProvidersNamed'
    <2>1. \A y \in Ceremonies : ceremony[y].code \in Nullable(Codes)
        BY DEF InstallationTypeOK, CeremonyRecords, Nullable
    <2>2. \A u \in Tasks : task[u].kind = "complete" => task[u].code \in Codes
        BY KindsTell DEF CompleteTasks, FinalTasks
    <2>3. \A u \in Tasks : task[u].kind \in {"complete", "connect"} => task[u].ceremony \in Ceremonies
        BY KindsTell DEF CompleteTasks, FinalTasks, ConnectTasks
    <2> QED
        BY <1>3, <2>1, <2>2, <2>3 DEF ProvidersNamed, Nullable
<1>4. ASSUME NEW t \in Tasks, NEW x \in Ceremonies, NEW kind \in {"complete", "connect"},
             ClaimCeremony(t, x, kind)
      PROVE  ProvidersNamed'
    <2>1. /\ ceremony' = [ceremony EXCEPT ![x].status = "processing"]
          /\ ceremony[x].status = "pending" /\ draft' = draft
          /\ (kind = "complete") <=> (ceremony[x].code # None)
          /\ \A u \in Tasks : u # t => task'[u] = task[u]
          /\ task'[t].kind = kind /\ task'[t].code = ceremony[x].code /\ task'[t].ceremony = x
        BY <1>4 DEF ClaimCeremony, InstallationTypeOK
    <2>2. /\ ceremony'[x].status = "processing"
          /\ \A y \in Ceremonies : y # x => ceremony'[y] = ceremony[y]
          /\ ceremony'[x].code = ceremony[x].code /\ ceremony'[x].provider = ceremony[x].provider
        BY <2>1 DEF InstallationTypeOK, CeremonyRecords
    <2>3. \A u \in Tasks : task[u].kind \in {"complete", "connect"} => task[u].ceremony \in Ceremonies
        BY KindsTell DEF CompleteTasks, FinalTasks, ConnectTasks
    <2> QED
        BY <2>1, <2>2, <2>3 DEF ProvidersNamed
<1>5. ASSUME NEW t \in Tasks, CommitComplete(t) \/ CommitConnect(t) \/ FailCeremony(t)
      PROVE  ProvidersNamed'
    <2>1. task[t].kind \in {"complete", "connect"} /\ task[t].ceremony \in Ceremonies
        BY <1>5, KindsTell
        DEF CommitComplete, CommitConnect, FailCeremony, Step, CompleteTasks, FinalTasks, ConnectTasks
    <2>2. ceremony[task[t].ceremony].status # "absent"
        BY <2>1 DEF ProvidersNamed
    <2>3. \A y \in Ceremonies : /\ ceremony'[y].code = ceremony[y].code
                                /\ ceremony'[y].provider = ceremony[y].provider
        BY <1>5, <2>1, StatusIsTyped DEF CommitComplete, CommitConnect, FailCeremony
    <2>4. \A y \in Ceremonies : ceremony'[y].status = "absent" <=> ceremony[y].status = "absent"
        <3>1. PICK status \in {"consumed", "failed"} :
                  ceremony' = [ceremony EXCEPT ![task[t].ceremony].status = status]
            BY <1>5 DEF CommitComplete, CommitConnect, FailCeremony
        <3>2. ceremony[task[t].ceremony] \in CeremonyRecords
            BY <2>1 DEF InstallationTypeOK
        <3>3. ceremony'[task[t].ceremony].status = status
            BY <2>1, <3>1, <3>2 DEF InstallationTypeOK, CeremonyRecords
        <3>4. \A y \in Ceremonies : y # task[t].ceremony => ceremony'[y] = ceremony[y]
            BY <3>1 DEF InstallationTypeOK
        <3> QED
            BY <2>2, <3>3, <3>4
    <2>5. \A g \in Codes : draft'[g].provider = draft[g].provider
        <3>1. CASE draft' = draft
            BY <3>1
        <3>2. CASE draft' = [draft EXCEPT ![task[t].code].completed = TRUE]
            BY <3>2 DEF InstallationTypeOK, DraftRecords
        <3> QED
            BY <1>5, <3>1, <3>2 DEF CommitComplete, CommitConnect, FailCeremony
    <2>6. /\ \A u \in Tasks : u # t => task'[u] = task[u]
          /\ task'[t].kind = "ended"
        <3>1. Finish(t)
            BY <1>5 DEF CommitComplete, CommitConnect, FailCeremony
        <3> QED
            BY <3>1, FinishEnds DEF Ended
    <2> QED
        BY <1>3, <2>3, <2>4, <2>5, <2>6
<1>6. ASSUME NEW t \in Tasks,
             \/ SpendBootstrapCode(t) \/ LockInitialize(t) \/ ReadConfiguration(t) \/ ExchangeCode(t)
             \/ LockComplete(t) \/ LockConnect(t)
      PROVE  ProvidersNamed'
    <2>1. UNCHANGED <<draft, ceremony>> /\ \A u \in Tasks : u # t => task'[u] = task[u]
        BY <1>6 DEF SpendBootstrapCode, LockInitialize, ReadConfiguration, ExchangeCode, LockComplete,
            LockConnect, Advance, InstallationTypeOK
    <2>2. \/ task'[t].kind \notin {"complete", "connect"}
          \/ /\ task'[t].kind = task[t].kind /\ task'[t].code = task[t].code
             /\ task'[t].ceremony = task[t].ceremony
        <3>1. CASE SpendBootstrapCode(t) \/ LockInitialize(t) \/ LockConnect(t)
            BY <3>1, KindsTell DEF SpendBootstrapCode, LockInitialize, LockConnect, Advance, Step,
                InstallationTypeOK, InitializeTasks, ConnectTasks
        <3>2. CASE ReadConfiguration(t)
            BY <3>2, KindsTell DEF ReadConfiguration, Step, InstallationTypeOK, CompleteTasks, FinalTasks, ConnectTasks
        <3>3. CASE ExchangeCode(t)
            <4>1. task'[t] = [task[t] EXCEPT !.step = "exchanged"]
                BY <3>3 DEF ExchangeCode, Advance, InstallationTypeOK
            <4>2. task[t] \in CompleteTasks \/ task[t] \in ConnectTasks
                BY <3>3 DEF ExchangeCode, InstallationTypeOK, TaskRecords, Unstarted, Ended,
                    InitializeTasks, PrepareTasks, FinalTasks, ChooseTasks, RecoverTasks, None
            <4> QED
                BY <4>1, <4>2 DEF CompleteTasks, ConnectTasks
        <3>4. CASE LockComplete(t)
            BY <3>4 DEF LockComplete, Step, InstallationTypeOK
        <3> QED
            BY <1>6, <3>1, <3>2, <3>3, <3>4
    <2> QED
        BY <1>3, <2>1, <2>2
<1>7. ASSUME NEW t \in Tasks, UNCHANGED <<draft, ceremony>>,
             \A u \in Tasks : u # t => task'[u] = task[u],
             task'[t].kind \notin {"complete", "connect"}
      PROVE  ProvidersNamed'
    BY <1>3, <1>7
<1>8. ASSUME NEW t \in Tasks,
             \/ \E g \in Codes : \/ StartInitialize(t, g) \/ SpendRecoveryCode(t, g)
                                 \/ \E p \in Providers : StartPrepare(t, g, p)
             \/ \E s \in Tasks, p \in Providers : StartChoose(t, s, p)
             \/ CommitInitialize(t) \/ ReadAdministrator(t) \/ CommitRecover(t) \/ LoseTask(t)
      PROVE  ProvidersNamed'
    <2>1. CASE CommitInitialize(t) \/ CommitRecover(t) \/ LoseTask(t)
        <3>1. Finish(t) /\ UNCHANGED <<draft, ceremony>>
            BY <2>1 DEF CommitInitialize, CommitRecover, LoseTask
        <3> QED
            BY <1>7, <3>1, FinishEnds DEF Ended
    <2>2. CASE ReadAdministrator(t)
        BY <1>7, <2>2 DEF ReadAdministrator, InstallationTypeOK
    <2>3. ASSUME NEW g \in Codes, StartInitialize(t, g) \/ SpendRecoveryCode(t, g)
          PROVE  ProvidersNamed'
        BY <1>7, <2>3 DEF StartInitialize, SpendRecoveryCode, InstallationTypeOK
    <2>4. ASSUME NEW g \in Codes, NEW p \in Providers, StartPrepare(t, g, p)
          PROVE  ProvidersNamed'
        BY <1>7, <2>4 DEF StartPrepare, InstallationTypeOK
    <2>5. ASSUME NEW s \in Tasks, NEW p \in Providers, StartChoose(t, s, p)
          PROVE  ProvidersNamed'
        BY <1>7, <2>5 DEF StartChoose, InstallationTypeOK
    <2> QED
        BY <1>8, <2>1, <2>2, <2>3, <2>4, <2>5
<1>9. CASE UNCHANGED <<draft, ceremony, task>>
    BY <1>9 DEF ProvidersNamed
<1> QED
    BY <1>1, <1>2, <1>4, <1>5, <1>6, <1>8, <1>9
    DEF InstallationNext, installationVars, IssueBootstrapCode, IssueRecoveryCode, WasteCode, HourPasses

---------------------------------------------------------------------------
(* One finalization at a time.                                             *)

(* Nobody comes to hold the lock, or to hold it differently, save by the    *)
(* three actions that take it; and only its holders change the school.     *)
LEMMA WhoLocks ==
    ASSUME InstallationTypeOK, [InstallationNext]_installationVars
    PROVE  \/ \E t \in Tasks : LockInitialize(t) \/ LockComplete(t) \/ LockConnect(t)
           \/ \E t \in Tasks : CommitInitialize(t) \/ CommitComplete(t) \/ CommitConnect(t)
           \/ /\ school' = school
              /\ \A u \in Tasks : task'[u].step = "locked" => task'[u] = task[u]
<1>1. ASSUME NEW t \in Tasks, \A u \in Tasks : u # t => task'[u] = task[u],
             task'[t].step # "locked"
      PROVE  \A u \in Tasks : task'[u].step = "locked" => task'[u] = task[u]
    BY <1>1
<1>2. ASSUME NEW t \in Tasks,
             \/ \E g \in Codes : \/ StartInitialize(t, g) \/ SpendRecoveryCode(t, g)
                                 \/ \E p \in Providers : StartPrepare(t, g, p)
             \/ \E s \in Tasks, p \in Providers : StartChoose(t, s, p)
             \/ \E x \in Ceremonies : \/ SaveDraft(t, x) \/ SaveChoice(t, x)
                                      \/ ClaimCeremony(t, x, "complete") \/ ClaimCeremony(t, x, "connect")
             \/ ReadAdministrator(t) \/ CommitRecover(t) \/ FailCeremony(t) \/ LoseTask(t)
      PROVE  school' = school /\ \A u \in Tasks : task'[u].step = "locked" => task'[u] = task[u]
    BY <1>1, <1>2
    DEF StartInitialize, SpendRecoveryCode, StartPrepare, StartChoose, SaveDraft, SaveChoice,
        ClaimCeremony, ReadAdministrator, CommitRecover, FailCeremony, LoseTask, Finish, Ended,
        InstallationTypeOK, None
<1>3. ASSUME NEW t \in Tasks, SpendBootstrapCode(t) \/ ExchangeCode(t) \/ ReadConfiguration(t)
      PROVE  school' = school /\ \A u \in Tasks : task'[u].step = "locked" => task'[u] = task[u]
    <2>1. \E step \in {"spent", "exchanged", "exchanging"} :
             task'[t].step = step \/ task'[t] = [task[t] EXCEPT !.step = step]
        BY <1>3 DEF SpendBootstrapCode, ExchangeCode, ReadConfiguration, Advance, InstallationTypeOK
    <2>2. task[t] \in InitializeTasks \cup CompleteTasks \cup ConnectTasks \cup FinalTasks
        BY <1>3 DEF SpendBootstrapCode, ExchangeCode, ReadConfiguration, Step, InstallationTypeOK,
            TaskRecords, Unstarted, Ended, PrepareTasks, ChooseTasks, RecoverTasks, None
    <2>3. task'[t].step # "locked"
        BY <2>1, <2>2 DEF InitializeTasks, CompleteTasks, ConnectTasks, FinalTasks
    <2>4. school' = school /\ \A u \in Tasks : u # t => task'[u] = task[u]
        BY <1>3 DEF SpendBootstrapCode, ExchangeCode, ReadConfiguration, Advance, InstallationTypeOK
    <2> QED
        BY <1>1, <2>3, <2>4
<1>4. CASE UNCHANGED <<school, task>>
    BY <1>4
<1> QED
    BY <1>2, <1>3, <1>4
    DEF InstallationNext, installationVars, IssueBootstrapCode, IssueRecoveryCode, WasteCode, HourPasses

(* Every step keeps the installation's lock and what is judged under it.   *)
LEMMA StepKeepsLock ==
    ASSUME InstallationOK, InstallationTypeOK', [InstallationNext]_installationVars
    PROVE  OneAtATime' /\ JudgementHolds' /\ Counted'
<1>1. ASSUME NEW t \in Tasks, LockInitialize(t) \/ LockComplete(t) \/ LockConnect(t)
      PROVE  OneAtATime' /\ JudgementHolds' /\ Counted'
    <2>1. /\ FinalizationIsFree /\ school' = school
          /\ \A u \in Tasks : u # t => task'[u] = task[u]
        BY <1>1 DEF LockInitialize, LockComplete, LockConnect, Advance, InstallationOK, InstallationTypeOK
    <2>2. OneAtATime'
        BY <2>1 DEF FinalizationIsFree, OneAtATime
    <2>3. /\ task'[t].kind = task[t].kind
          /\ IF task[t].kind = "connect" THEN school.provider = None ELSE ~ Installed
        <3>1. CASE LockInitialize(t)
            BY <3>1, KindsTell DEF LockInitialize, Advance, Step, MayInstall, InitializeTasks,
                InstallationOK, InstallationTypeOK
        <3>2. CASE LockComplete(t)
            BY <3>2 DEF LockComplete, Step, MayInstall, InstallationOK, InstallationTypeOK
        <3>3. CASE LockConnect(t)
            BY <3>3, KindsTell DEF LockConnect, Advance, Step, MayConnect, ConnectTasks,
                InstallationOK, InstallationTypeOK
        <3> QED
            BY <1>1, <3>1, <3>2, <3>3
    <2>4. JudgementHolds'
        BY <2>1, <2>3 DEF FinalizationIsFree, JudgementHolds, Installed
    <2>5. Counted'
        BY <2>1 DEF Counted, Installed, InstallationOK
    <2> QED
        BY <2>2, <2>4, <2>5
<1>2. ASSUME NEW t \in Tasks, CommitInitialize(t) \/ CommitComplete(t) \/ CommitConnect(t)
      PROVE  OneAtATime' /\ JudgementHolds' /\ Counted'
    <2>1. /\ task[t].step = "locked" /\ task'[t].step = None
          /\ \A u \in Tasks : u # t => task'[u] = task[u]
        <3>1. Finish(t) /\ task[t].step = "locked"
            BY <1>2 DEF CommitInitialize, CommitComplete, CommitConnect, Step
        <3> QED
            BY <3>1, FinishEnds DEF Ended, InstallationOK
    <2>2. \A u \in Tasks : task'[u].step # "locked"
        BY <2>1 DEF InstallationOK, OneAtATime, None
    <2>3. IF task[t].kind = "connect" THEN school.provider = None ELSE ~ Installed
        BY <2>1 DEF InstallationOK, JudgementHolds
    <2>4. school \in SchoolRecords
        BY DEF InstallationOK, InstallationTypeOK
    <2>5. Counted'
        <3>1. CASE CommitInitialize(t)
            BY <3>1, <2>3, <2>4, SchoolAfter
            DEF CommitInitialize, Step, Counted, Installed, InstallationOK, SchoolRecords
        <3>2. CASE CommitComplete(t)
            <4>1. task[t].provider # None
                BY <3>2, KindsTell, InstallationAssumption
                DEF CommitComplete, Step, CompleteTasks, FinalTasks, InstallationOK
            <4>2. school.tenants = 0 /\ school.provider = None /\ school.providers = 0
                BY <3>2, <2>3, <2>4 DEF CommitComplete, Step, Counted, Installed, InstallationOK, SchoolRecords
            <4>3. school'.tenants = 1 /\ school'.providers = 1 /\ school'.provider = task[t].provider
                BY <3>2, <4>2, SchoolAfter DEF InstallationOK
            <4> QED
                BY <4>1, <4>3 DEF Counted, Installed
        <3>3. CASE CommitConnect(t)
            <4>1. task[t].provider # None
                BY <3>3, KindsTell, InstallationAssumption
                DEF CommitConnect, Step, ConnectTasks, InstallationOK
            <4>2. Installed
                BY <3>3 DEF CommitConnect, Step, InstallationOK, SchoolFirst
            <4>3. school.tenants = 1 /\ school.provider = None /\ school.providers = 0
                BY <3>3, <4>2, <2>3, <2>4 DEF CommitConnect, Step, Counted, Installed, InstallationOK, SchoolRecords
            <4>4. school'.tenants = 1 /\ school'.providers = 1 /\ school'.provider = task[t].provider
                BY <3>3, <4>3, SchoolAfter DEF InstallationOK
            <4> QED
                BY <4>1, <4>4 DEF Counted, Installed
        <3> QED
            BY <1>2, <3>1, <3>2, <3>3
    <2> QED
        BY <2>2, <2>5 DEF OneAtATime, JudgementHolds
<1>3. ASSUME school' = school, \A u \in Tasks : task'[u].step = "locked" => task'[u] = task[u]
      PROVE  OneAtATime' /\ JudgementHolds' /\ Counted'
    BY <1>3 DEF InstallationOK, OneAtATime, JudgementHolds, Counted, Installed
<1> QED
    BY <1>1, <1>2, <1>3, WhoLocks DEF InstallationOK

(* Codes, tasks and sessions that presuppose a school come after it. *)
LEMMA StepKeepsOrder ==
    ASSUME InstallationOK, InstallationTypeOK', [InstallationNext]_installationVars
    PROVE  SchoolFirst'
<1> USE DEF InstallationOK
<1>1. ASSUME Installed'
      PROVE  SchoolFirst'
    BY <1>1 DEF SchoolFirst
<1>2. CASE Installed
    <2>1. school'.tenants >= school.tenants
        <3>1. ASSUME NEW t \in Tasks, CommitInitialize(t) \/ CommitComplete(t) \/ CommitConnect(t)
              PROVE  school'.tenants >= school.tenants
            BY <3>1, SchoolAfter DEF InstallationTypeOK, SchoolRecords
        <3>2. ASSUME school' = school
              PROVE  school'.tenants >= school.tenants
            BY <3>2 DEF InstallationTypeOK, SchoolRecords
        <3> QED
            BY <3>1, <3>2, WhoLocks DEF LockInitialize, LockComplete, LockConnect
    <2>2. school.tenants \in Nat /\ school'.tenants \in Nat
        BY DEF InstallationTypeOK, SchoolRecords
    <2> QED
        BY <1>1, <1>2, <2>1, <2>2 DEF Installed
<1>3. CASE ~ Installed
    <2>1. /\ \A g \in Codes : code[g].purpose = "recovery" => code[g].status = "absent"
          /\ \A x \in Ceremonies : ceremony[x].status # "absent" => ceremony[x].code # None
          /\ \A t \in Tasks : task[t].kind \notin {"choose", "connect", "recover"}
          /\ \A t \in Tasks : admission[t] = NoAdmission
        BY <1>3 DEF SchoolFirst
    <2>2. ASSUME NEW t \in Tasks, CommitInitialize(t) \/ CommitComplete(t)
          PROVE  Installed'
        BY <2>2, SchoolAfter DEF Installed, InstallationTypeOK, SchoolRecords
    <2>3. ASSUME ~ Installed'
          PROVE  /\ \A g \in Codes : code'[g].purpose = "recovery" => code'[g].status = "absent"
                 /\ admission' = admission
        <3>1. ASSUME NEW g \in Codes, IssueBootstrapCode(g) \/ IssueRecoveryCode(g) \/ WasteCode(g)
              PROVE  /\ \A h \in Codes : code'[h].purpose = "recovery" => code'[h].status = "absent"
                     /\ admission' = admission
            BY <2>1, <3>1, <1>3 DEF IssueBootstrapCode, IssueRecoveryCode, WasteCode, Spend, Good,
                InstallationTypeOK, CodeRecords
        <3>2. ASSUME NEW t \in Tasks, NEW g \in Codes, SpendRecoveryCode(t, g)
              PROVE  FALSE
            BY <2>1, <3>2 DEF SpendRecoveryCode, Spendable, Good
        <3>3. ASSUME NEW t \in Tasks, SpendBootstrapCode(t)
              PROVE  /\ \A h \in Codes : code'[h].purpose = "recovery" => code'[h].status = "absent"
                     /\ admission' = admission
            <4>1. task[t].code \in Codes
                BY <3>3, KindsTell DEF SpendBootstrapCode, Step, InitializeTasks
            <4> QED
                BY <2>1, <3>3, <4>1 DEF SpendBootstrapCode, Spend, Good, InstallationTypeOK, CodeRecords
        <3>4. ASSUME NEW t \in Tasks, CommitConnect(t) \/ CommitRecover(t)
              PROVE  FALSE
            BY <2>1, <3>4 DEF CommitConnect, CommitRecover, Step
        <3>5. CASE UNCHANGED <<code, admission>>
            BY <2>1, <3>5
        <3> QED
            BY <2>2, <2>3, <3>1, <3>2, <3>3, <3>4, <3>5
            DEF InstallationNext, installationVars, StartInitialize, StartPrepare, SaveDraft, SaveChoice,
                ClaimCeremony, StartChoose, LockInitialize, ReadConfiguration, ExchangeCode, LockComplete,
                LockConnect, ReadAdministrator, FailCeremony, LoseTask, HourPasses
    <2>4. ASSUME ~ Installed'
          PROVE  \A x \in Ceremonies : ceremony'[x].status # "absent" => ceremony'[x].code # None
        <3>1. ASSUME NEW t \in Tasks, NEW x \in Ceremonies, SaveDraft(t, x)
              PROVE  \A y \in Ceremonies : ceremony'[y].status # "absent" => ceremony'[y].code # None
            <4>1. task[t].code # None
                BY <3>1, KindsTell, InstallationAssumption DEF SaveDraft, Step, PrepareTasks
            <4> QED
                BY <2>1, <3>1, <4>1, SavesAreTyped
        <3>2. ASSUME NEW t \in Tasks, NEW x \in Ceremonies, SaveChoice(t, x)
              PROVE  FALSE
            BY <2>1, <3>2 DEF SaveChoice, Step
        <3>3. ASSUME NEW t \in Tasks, NEW x \in Ceremonies, NEW kind \in {"complete", "connect"},
                     ClaimCeremony(t, x, kind)
              PROVE  \A y \in Ceremonies : ceremony'[y].status # "absent" => ceremony'[y].code # None
            <4>1. /\ ceremony[x].status = "pending"
                  /\ ceremony' = [ceremony EXCEPT ![x].status = "processing"]
                BY <3>3 DEF ClaimCeremony
            <4>2. /\ \A y \in Ceremonies : y # x => ceremony'[y] = ceremony[y]
                  /\ ceremony'[x].code = ceremony[x].code
                BY <4>1, StatusIsTyped DEF InstallationTypeOK
            <4> QED
                BY <2>1, <4>1, <4>2
        <3>4. ASSUME NEW t \in Tasks, FailCeremony(t)
              PROVE  \A y \in Ceremonies : ceremony'[y].status # "absent" => ceremony'[y].code # None
            <4>1. task[t].kind \in {"complete", "connect"} /\ task[t].ceremony \in Ceremonies
                BY <3>4, KindsTell DEF FailCeremony, CompleteTasks, FinalTasks, ConnectTasks
            <4>2. ceremony[task[t].ceremony].status # "absent"
                BY <4>1 DEF ProvidersNamed
            <4>3. /\ \A y \in Ceremonies : y # task[t].ceremony => ceremony'[y] = ceremony[y]
                  /\ ceremony'[task[t].ceremony].code = ceremony[task[t].ceremony].code
                BY <3>4, <4>1, StatusIsTyped DEF FailCeremony, InstallationTypeOK
            <4> QED
                BY <2>1, <4>2, <4>3
        <3>5. ASSUME NEW t \in Tasks, CommitConnect(t)
              PROVE  FALSE
            BY <2>1, <3>5 DEF CommitConnect, Step
        <3>6. CASE UNCHANGED ceremony
            BY <2>1, <3>6
        <3> QED
            BY <2>2, <2>4, <3>1, <3>2, <3>3, <3>4, <3>5, <3>6
            DEF InstallationNext, installationVars, IssueBootstrapCode, IssueRecoveryCode, WasteCode,
                StartInitialize, SpendRecoveryCode, StartPrepare, StartChoose, SpendBootstrapCode,
                LockInitialize, ReadConfiguration, ExchangeCode, LockComplete, LockConnect,
                ReadAdministrator, CommitRecover, LoseTask, HourPasses
    <2>5. \A t \in Tasks : task'[t].kind \notin {"choose", "connect", "recover"}
        <3>1. ASSUME NEW t \in Tasks, task'[t].kind \in {task[t].kind, "ended", "initialize", "prepare", "complete"},
                     \A u \in Tasks : u # t => task'[u] = task[u]
              PROVE  \A u \in Tasks : task'[u].kind \notin {"choose", "connect", "recover"}
            BY <2>1, <3>1
        <3>2. ASSUME NEW t \in Tasks,
                     \/ \E x \in Ceremonies : SaveDraft(t, x) \/ SaveChoice(t, x)
                     \/ CommitInitialize(t) \/ CommitComplete(t) \/ CommitConnect(t)
                     \/ CommitRecover(t) \/ FailCeremony(t) \/ LoseTask(t)
              PROVE  \A u \in Tasks : task'[u].kind \notin {"choose", "connect", "recover"}
            <4>1. Finish(t)
                BY <3>2 DEF SaveDraft, SaveChoice, CommitInitialize, CommitComplete, CommitConnect,
                    CommitRecover, FailCeremony, LoseTask
            <4> QED
                BY <3>1, <4>1, FinishEnds DEF Ended
        <3>3. ASSUME NEW t \in Tasks, NEW g \in Codes,
                     StartInitialize(t, g) \/ \E p \in Providers : StartPrepare(t, g, p)
              PROVE  \A u \in Tasks : task'[u].kind \notin {"choose", "connect", "recover"}
            BY <3>1, <3>3 DEF StartInitialize, StartPrepare, InstallationTypeOK
        <3>4. ASSUME NEW t \in Tasks, NEW x \in Ceremonies, ClaimCeremony(t, x, "complete")
              PROVE  \A u \in Tasks : task'[u].kind \notin {"choose", "connect", "recover"}
            BY <3>1, <3>4 DEF ClaimCeremony, InstallationTypeOK
        <3>5. ASSUME NEW t \in Tasks,
                     \/ \E g \in Codes : SpendRecoveryCode(t, g)
                     \/ \E x \in Ceremonies : ClaimCeremony(t, x, "connect")
                     \/ \E u \in Tasks, p \in Providers : StartChoose(t, u, p)
                     \/ ReadAdministrator(t) \/ LockConnect(t)
              PROVE  FALSE
            BY <2>1, <3>5 DEF SpendRecoveryCode, Spendable, Good, ClaimCeremony, StartChoose, IsGood,
                ReadAdministrator, LockConnect, Step
        <3>6. ASSUME NEW t \in Tasks, LockComplete(t)
              PROVE  \A u \in Tasks : task'[u].kind \notin {"choose", "connect", "recover"}
            BY <3>1, <3>6 DEF LockComplete, InstallationTypeOK
        <3>7. ASSUME NEW t \in Tasks, SpendBootstrapCode(t) \/ LockInitialize(t)
              PROVE  \A u \in Tasks : task'[u].kind \notin {"choose", "connect", "recover"}
            BY <3>1, <3>7, KindsTell DEF SpendBootstrapCode, LockInitialize, Step, Advance, InitializeTasks,
                InstallationTypeOK
        <3>8. ASSUME NEW t \in Tasks, ReadConfiguration(t)
              PROVE  \A u \in Tasks : task'[u].kind \notin {"choose", "connect", "recover"}
            BY <2>1, <3>1, <3>8, KindsTell DEF ReadConfiguration, Step, CompleteTasks, FinalTasks,
                InstallationTypeOK
        <3>9. ASSUME NEW t \in Tasks, ExchangeCode(t)
              PROVE  \A u \in Tasks : task'[u].kind \notin {"choose", "connect", "recover"}
            <4>1. task[t] \in CompleteTasks \/ task[t] \in ConnectTasks
                BY <3>9 DEF ExchangeCode, InstallationTypeOK, TaskRecords, Unstarted, Ended,
                    InitializeTasks, PrepareTasks, FinalTasks, ChooseTasks, RecoverTasks, None
            <4>2. task'[t] = [task[t] EXCEPT !.step = "exchanged"]
                BY <3>9 DEF ExchangeCode, Advance, InstallationTypeOK
            <4>3. task'[t].kind = task[t].kind
                BY <4>1, <4>2 DEF CompleteTasks, ConnectTasks
            <4> QED
                BY <3>1, <3>9, <4>3 DEF ExchangeCode, Advance, InstallationTypeOK
        <3>10. CASE UNCHANGED task
            BY <2>1, <3>10
        <3> QED
            BY <3>2, <3>3, <3>4, <3>5, <3>6, <3>7, <3>8, <3>9, <3>10
            DEF InstallationNext, installationVars, IssueBootstrapCode, IssueRecoveryCode, WasteCode, HourPasses
    <2> QED
        BY <2>1, <2>3, <2>4, <2>5 DEF SchoolFirst
<1> QED
    BY <1>2, <1>3

---------------------------------------------------------------------------
(* What sessions know of the provider.                                     *)

(* The account's revision only grows, and grows when a provider comes to an *)
(* installed school.                                                       *)
LEMMA SchoolMoves ==
    ASSUME InstallationOK, [InstallationNext]_installationVars
    PROVE  \/ school'.rev = school.rev /\ (school.provider = None => school'.provider = None)
           \/ school'.rev = school.rev + 1
           \/ ~ Installed /\ school'.rev = school.rev
<1>1. ASSUME NEW t \in Tasks, CommitInitialize(t)
      PROVE  school'.rev = school.rev /\ (school.provider = None => school'.provider = None)
    BY <1>1, SchoolAfter DEF InstallationOK
<1>2. ASSUME NEW t \in Tasks, CommitComplete(t)
      PROVE  ~ Installed /\ school'.rev = school.rev
    BY <1>2, SchoolAfter DEF InstallationOK, JudgementHolds, CommitComplete, Step
<1>3. ASSUME NEW t \in Tasks, CommitConnect(t)
      PROVE  school'.rev = school.rev + 1
    BY <1>3, SchoolAfter DEF InstallationOK
<1>4. school' = school => school'.rev = school.rev /\ (school.provider = None => school'.provider = None)
    OBVIOUS
<1> QED
    BY <1>1, <1>2, <1>3, <1>4, WhoLocks
    DEF InstallationOK, LockInitialize, LockComplete, LockConnect

(* What is known of the provider stays right as the school moves. *)
Knows(rev, connected) ==
    /\ rev \in Nat /\ rev <= school.rev
    /\ rev = school.rev /\ ~ connected => school.provider = None

(* What a task has read of a revision stays true of it.                    *)
LEMMA KnowledgeLasts ==
    ASSUME InstallationOK, [InstallationNext]_installationVars, Installed,
           NEW rev, NEW connected, Knows(rev, connected)
    PROVE  Knows(rev, connected)'
<1>1. school.rev \in Nat
    BY DEF InstallationOK, InstallationTypeOK, SchoolRecords
<1> QED
    BY <1>1, SchoolMoves DEF Knows

(* Only reading the administrator gives a recovery its knowledge.          *)
LEMMA WhoReads ==
    ASSUME InstallationTypeOK, [InstallationNext]_installationVars, NEW u \in Tasks,
           task'[u].kind = "recover", task'[u].step = "exchanged"
    PROVE  task'[u] = task[u] \/ ReadAdministrator(u)
<1>1. ASSUME NEW t \in Tasks,
             \/ \E x \in Ceremonies : SaveDraft(t, x) \/ SaveChoice(t, x)
             \/ CommitInitialize(t) \/ CommitComplete(t) \/ CommitConnect(t)
             \/ CommitRecover(t) \/ FailCeremony(t) \/ LoseTask(t)
      PROVE  task'[u] = task[u]
    <2>1. Finish(t)
        BY <1>1 DEF SaveDraft, SaveChoice, CommitInitialize, CommitComplete, CommitConnect,
            CommitRecover, FailCeremony, LoseTask
    <2> QED
        BY <2>1, FinishEnds DEF Ended
<1>2. ASSUME NEW t \in Tasks, NEW g \in Codes,
             StartInitialize(t, g) \/ SpendRecoveryCode(t, g) \/ \E p \in Providers : StartPrepare(t, g, p)
      PROVE  task'[u] = task[u]
    BY <1>2 DEF StartInitialize, SpendRecoveryCode, StartPrepare, InstallationTypeOK
<1>3. ASSUME NEW t \in Tasks,
             \/ \E x \in Ceremonies : ClaimCeremony(t, x, "complete") \/ ClaimCeremony(t, x, "connect")
             \/ \E s \in Tasks, p \in Providers : StartChoose(t, s, p)
             \/ LockComplete(t)
      PROVE  task'[u] = task[u]
    BY <1>3 DEF ClaimCeremony, StartChoose, LockComplete, InstallationTypeOK
<1>4. ASSUME NEW t \in Tasks,
             \/ SpendBootstrapCode(t) \/ LockInitialize(t) \/ LockConnect(t)
             \/ ReadConfiguration(t) \/ ExchangeCode(t)
      PROVE  task'[u] = task[u]
    <2>1. task[t] \in InitializeTasks \cup CompleteTasks \cup FinalTasks \cup ConnectTasks
        BY <1>4 DEF SpendBootstrapCode, LockInitialize, LockConnect, ReadConfiguration, ExchangeCode,
            Step, InstallationTypeOK, TaskRecords, Unstarted, Ended, PrepareTasks, ChooseTasks,
            RecoverTasks, None
    <2>2. task[t].kind # "recover" /\ DOMAIN task[t] # {}
          /\ "kind" \in DOMAIN task[t]
        BY <2>1 DEF InitializeTasks, CompleteTasks, FinalTasks, ConnectTasks
    <2>3. \A v \in Tasks : v # t => task'[v] = task[v]
        BY <1>4 DEF SpendBootstrapCode, LockInitialize, LockConnect, ReadConfiguration, ExchangeCode,
            Advance, InstallationTypeOK
    <2>4. task'[t].kind = task[t].kind
        <3>1. CASE ReadConfiguration(t)
            BY <3>1, <2>2 DEF ReadConfiguration, InstallationTypeOK
        <3>2. CASE \E step \in {"spent", "locked", "exchanged"} : Advance(t, step)
            BY <3>2, <2>2 DEF Advance, InstallationTypeOK
        <3> QED
            BY <1>4, <3>1, <3>2 DEF SpendBootstrapCode, LockInitialize, LockConnect, ExchangeCode
    <2> QED
        BY <2>2, <2>3, <2>4
<1>5. ASSUME NEW t \in Tasks, ReadAdministrator(t)
      PROVE  task'[u] = task[u] \/ ReadAdministrator(u)
    BY <1>5 DEF ReadAdministrator, InstallationTypeOK
<1>6. CASE UNCHANGED task
    BY <1>6
<1> QED
    BY <1>1, <1>2, <1>3, <1>4, <1>5, <1>6
    DEF InstallationNext, installationVars, IssueBootstrapCode, IssueRecoveryCode, WasteCode, HourPasses

(* Every step keeps what the admissions know.                              *)
LEMMA StepKeepsKnowledge ==
    ASSUME InstallationOK, InstallationTypeOK', [InstallationNext]_installationVars
    PROVE  RevisionsTell'
<1>1. ASSUME NEW u \in Tasks, admission[u] # NoAdmission, admission'[u] = admission[u]
      PROVE  Knows(admission[u].rev, admission[u].connected)'
    BY <1>1, KnowledgeLasts DEF InstallationOK, SchoolFirst, RevisionsTell, Knows
<1>2. ASSUME NEW u \in Tasks, task[u].kind = "recover", task[u].step = "exchanged"
      PROVE  /\ task[u].rev \in Nat /\ task[u].rev <= school'.rev
             /\ task[u].rev = school'.rev /\ ~ task[u].connected => school'.provider = None
    <2>1. task[u].rev \in Nat
        BY <1>2, KindsTell DEF RecoverTasks, InstallationOK
    <2> QED
        BY <1>2, <2>1, KnowledgeLasts DEF InstallationOK, SchoolFirst, RevisionsTell, Knows
<1>3. ASSUME NEW u \in Tasks, admission'[u] # admission[u]
      PROVE  Knows(admission[u].rev, admission[u].connected)'
    <2>1. PICK t \in Tasks : CommitInitialize(t) \/ CommitComplete(t) \/ CommitConnect(t) \/ CommitRecover(t)
        BY <1>3 DEF InstallationNext, installationVars, IssueBootstrapCode, IssueRecoveryCode, WasteCode,
            StartInitialize, SpendRecoveryCode, StartPrepare, SaveDraft, SaveChoice, ClaimCeremony,
            StartChoose, SpendBootstrapCode, LockInitialize, ReadConfiguration, ExchangeCode, LockComplete,
            LockConnect, ReadAdministrator, FailCeremony, LoseTask, HourPasses
    <2>2. u = t
        BY <1>3, <2>1 DEF CommitInitialize, CommitComplete, CommitConnect, CommitRecover, Admit,
            InstallationOK, InstallationTypeOK
    <2>3. DOMAIN admission = Tasks /\ school.rev \in Nat
        BY DEF InstallationOK, InstallationTypeOK, SchoolRecords
    <2>4. CASE CommitInitialize(t)
        <3>1. school'.rev = school.rev /\ school'.provider = school.provider
            BY <2>4, SchoolAfter DEF InstallationOK
        <3>2. school.provider = None
            BY <2>4 DEF CommitInitialize, Step, InstallationOK, JudgementHolds, Counted
        <3>3. admission'[u].rev = 0 /\ admission'[u].connected = FALSE
            BY <2>2, <2>3, <2>4 DEF CommitInitialize, Admit
        <3> QED
            BY <2>3, <3>1, <3>2, <3>3 DEF Knows
    <2>5. CASE CommitComplete(t)
        <3>1. school'.rev = school.rev
            BY <2>5, SchoolAfter DEF InstallationOK
        <3>2. admission'[u].rev = 0 /\ admission'[u].connected = TRUE
            BY <2>2, <2>3, <2>5 DEF CommitComplete, Admit
        <3> QED
            BY <2>3, <3>1, <3>2 DEF Knows
    <2>6. CASE CommitConnect(t)
        <3>1. school'.rev = school.rev + 1
            BY <2>6, SchoolAfter DEF InstallationOK
        <3>2. admission'[u].rev = school'.rev /\ admission'[u].connected = TRUE
            BY <2>2, <2>3, <2>6 DEF CommitConnect, Admit
        <3> QED
            BY <2>3, <3>1, <3>2 DEF Knows
    <2>7. CASE CommitRecover(t)
        <3>1. admission'[u].rev = task[t].rev /\ admission'[u].connected = task[t].connected
            BY <2>2, <2>3, <2>7 DEF CommitRecover
        <3>2. task[t].kind = "recover" /\ task[t].step = "exchanged"
            BY <2>7 DEF CommitRecover, Step
        <3>3. /\ task[t].rev \in Nat /\ task[t].rev <= school'.rev
              /\ task[t].rev = school'.rev /\ ~ task[t].connected => school'.provider = None
            BY <3>2, <1>2
        <3>4. task[t].connected \in BOOLEAN
            BY <3>2, KindsTell DEF RecoverTasks, InstallationOK
        <3> QED
            BY <3>1, <3>3, <3>4 DEF Knows
    <2> QED
        BY <2>1, <2>4, <2>5, <2>6, <2>7
<1>4. ASSUME NEW u \in Tasks, task'[u].kind = "recover", task'[u].step = "exchanged"
      PROVE  Knows(task[u].rev, task[u].connected)'
    <2>1. CASE task'[u] = task[u]
        BY <1>2, <1>4, <2>1 DEF Knows
    <2>2. CASE ReadAdministrator(u)
        <3>1. /\ task'[u].rev = school.rev /\ (~ task'[u].connected => school.provider = None)
              /\ school' = school /\ school.rev \in Nat
            BY <2>2 DEF ReadAdministrator, InstallationOK, InstallationTypeOK, SchoolRecords
        <3> QED
            BY <3>1 DEF Knows
    <2> QED
        BY <2>1, <2>2, WhoReads, <1>4 DEF InstallationOK
<1> QED
    BY <1>1, <1>3, <1>4 DEF RevisionsTell, Knows

---------------------------------------------------------------------------
(* The theorems.                                                           *)

(* Nothing is installed at the start.                                      *)
LEMMA InstallationStartsOK == InstallationInit => InstallationOK
<1> SUFFICES ASSUME InstallationInit PROVE InstallationOK
    OBVIOUS
<1>1. InstallationTypeOK
    BY DEF InstallationInit, InstallationTypeOK, CodeRecords, DraftRecords, CeremonyRecords, TaskRecords,
        SchoolRecords, Nullable
<1>2. ProvidersNamed /\ OneAtATime /\ JudgementHolds /\ Counted /\ SchoolFirst /\ RevisionsTell
    BY DEF InstallationInit, ProvidersNamed, OneAtATime, JudgementHolds, Counted, SchoolFirst,
        RevisionsTell, Unstarted, Installed, NoAdmission, None
<1> QED
    BY <1>1, <1>2 DEF InstallationOK

(* Every step keeps the invariant.                                         *)
LEMMA InstallationStaysOK == InstallationOK /\ [InstallationNext]_installationVars => InstallationOK'
<1> SUFFICES ASSUME InstallationOK, [InstallationNext]_installationVars PROVE InstallationOK'
    OBVIOUS
<1>1. InstallationTypeOK'
    BY StepKeepsTypes DEF InstallationOK
<1>2. ProvidersNamed'
    BY <1>1, StepKeepsProviders DEF InstallationOK
<1> QED
    BY <1>1, <1>2, StepKeepsLock, StepKeepsOrder, StepKeepsKnowledge DEF InstallationOK

(* The invariant holds in every reachable state.                           *)
LEMMA InstallationIsOK == InstallationSpec => []InstallationOK
BY InstallationStartsOK, InstallationStaysOK, PTL DEF InstallationSpec

(* "Two concurrent bootstrap callbacks cannot create two installations",    *)
(* with any number of codes, ceremonies of both kinds, drafts and tabs.     *)
THEOREM OneInstallation == InstallationSpec => []InstalledOnce
<1>1. InstallationOK => InstalledOnce
    BY DEF InstallationOK, Counted, InstalledOnce
<1> QED
    BY <1>1, InstallationIsOK, PTL

(* The revision that connecting a provider raises outdates every temporary  *)
(* session that knew of none, those a recovery is about to make included.   *)
THEOREM NoTemporarySessionStays == InstallationSpec => []TemporarySessionsEnd
<1>1. InstallationOK => TemporarySessionsEnd
    BY DEF InstallationOK, RevisionsTell, TemporarySessionsEnd, IsGood
<1> QED
    BY <1>1, InstallationIsOK, PTL

=============================================================================
