--------------------------- MODULE DeliveryProofs ---------------------------
(***************************************************************************)
(* The safety of the way a command goes.                                   *)
(*                                                                         *)
(* Into the database: the command envelope, for any number of requests and  *)
(* keys and any lock hash.  From the database to the pages: the realtime     *)
(* delivery of every command to every query of every page, for any number of *)
(* changes and of lost connections.  The two share no state.               *)
(***************************************************************************)
EXTENDS CommandEnvelope, Realtime, SequenceTheorems, TLAPS

---------------------------------------------------------------------------
(* The command envelope.                                                   *)

(* One row per identity, young enough to vouch for every execution under   *)
(* the key, and the result of one of them.                                 *)
RecordPerKey == \A a, b \in records : a.key = b.key => a = b
RecordsVouch ==
    \A e \in effects : \E row \in records :
        row.key = e.key /\ e.at + Ttl <= row.expiresAt
RecordsAreEffects ==
    \A row \in records : \E e \in effects :
        /\ e.key = row.key
        /\ e.fingerprint = row.fingerprint
        /\ e.result = row.result

(* The advisory lock and the row lock exclude. *)
Exclusion ==
    \A q, r \in Requests :
        /\ q # r
        /\ request[q].stage \in Holding
        /\ request[r].stage \in Holding
        => LockOf[request[q].key] # LockOf[request[r].key]
RowLocked ==
    /\ \A q, r \in Requests : At(q, "executed") /\ At(r, "executed") => q = r
    /\ \A r \in Requests : At(r, "executed") =>
           request[r].expected \in {revision, AnyRevision}

(* What a lookup found stays true until its transaction ends. *)
LookupHolds ==
    \A r \in Requests : request[r].stage \in {"cleared", "executed"} =>
        \A row \in RecordsOf(request[r].key) :
            /\ row.result = request[r].result
            /\ row.expiresAt <= request[r].at

(* Clients demand revisions they have read, and stale ones stay stale. *)
RevisionsRead == \A r \in Requests : request[r].expected <= revision
StaleIsOld ==
    \A r \in Requests : request[r].answer = "stale" =>
        request[r].expected # AnyRevision /\ request[r].expected < revision

AnswersAtEnd ==
    \A r \in Requests : request[r].stage # "done" => request[r].answer = "none"
CommittedIsAnEffect ==
    \A r \in Requests : At(r, "committed") =>
        \E e \in effects : /\ e.key = request[r].key
                           /\ e.fingerprint = request[r].expected
                           /\ e.result = request[r].result

IInv ==
    /\ TypeOK
    /\ RecordPerKey
    /\ RecordsVouch
    /\ RecordsAreEffects
    /\ Exclusion
    /\ RowLocked
    /\ LookupHolds
    /\ RevisionsRead
    /\ StaleIsOld
    /\ AnswersAtEnd
    /\ CommittedIsAnEffect
    /\ OncePerLifetime
    /\ SuccessIsAnEffect
    /\ NoSpurious412

---------------------------------------------------------------------------

USE HashAssumption, TtlAssumption DEF Revisions, AnyRevision, At, RecordsOf, Holding

(* An empty table and idle clients are a good start.                       *)
LEMMA InitHolds == Init => IInv
<1> SUFFICES ASSUME Init PROVE IInv
    OBVIOUS
<1> DEFINE k0 == CHOOSE k \in Keys : TRUE
<1>1. k0 \in Keys
    OBVIOUS
<1>2. TypeOK
    BY <1>1 DEF Init, TypeOK, RequestRecords, Stages, Answers
<1>3. RecordPerKey /\ RecordsVouch /\ RecordsAreEffects /\ OncePerLifetime
    BY DEF Init, RecordPerKey, RecordsVouch, RecordsAreEffects, OncePerLifetime
<1>4. \A r \in Requests : /\ request[r].stage = "unsent"
                          /\ request[r].answer = "none"
                          /\ request[r].expected = -1
    BY DEF Init
<1>5. Exclusion /\ RowLocked /\ LookupHolds
    BY <1>4 DEF Exclusion, RowLocked, LookupHolds
<1>6. RevisionsRead
    BY <1>4 DEF RevisionsRead, Init
<1>7. StaleIsOld /\ AnswersAtEnd /\ CommittedIsAnEffect
    BY <1>4 DEF StaleIsOld, AnswersAtEnd, CommittedIsAnEffect
<1>8. SuccessIsAnEffect /\ NoSpurious412
    BY <1>4 DEF SuccessIsAnEffect, NoSpurious412
<1> QED
    BY <1>2, <1>3, <1>5, <1>6, <1>7, <1>8 DEF IInv

(* What moving one request leaves alone: its key, instant and demand, and  *)
(* every other request.                                                    *)
Moves(r, stage, answer, result) ==
    /\ request' \in [Requests -> RequestRecords]
    /\ request'[r].stage = stage
    /\ request'[r].answer = answer
    /\ request'[r].result = result
    /\ \A q \in Requests : /\ request'[q].key = request[q].key
                           /\ request'[q].at = request[q].at
                           /\ request'[q].expected = request[q].expected
    /\ \A q \in Requests \ {r} : request'[q] = request[q]

(* A request whose record is rewritten has moved, and the others stay.     *)
LEMMA MovesIntro ==
    ASSUME TypeOK, NEW r \in Requests,
           NEW stage \in Stages, NEW answer \in Answers, NEW result \in Nat,
           request' = [request EXCEPT ![r] = [request[r] EXCEPT
               !.stage = stage, !.answer = answer, !.result = result]]
    PROVE  Moves(r, stage, answer, result)
<1>1. request \in [Requests -> RequestRecords]
    BY DEF TypeOK
<1> DEFINE new == [request[r] EXCEPT !.stage = stage, !.answer = answer,
                                     !.result = result]
<1>2. /\ new \in RequestRecords
      /\ new.stage = stage /\ new.answer = answer /\ new.result = result
      /\ new.key = request[r].key /\ new.at = request[r].at
      /\ new.expected = request[r].expected
    BY <1>1 DEF RequestRecords
<1>3. request' = [request EXCEPT ![r] = new]
    OBVIOUS
<1> HIDE DEF new
<1> QED
    BY <1>1, <1>2, <1>3 DEF Moves

(* Passing to the next stage keeps the answer and the result.              *)
LEMMA GotoMoves ==
    ASSUME TypeOK, NEW r \in Requests, NEW stage \in Stages, Goto(r, stage)
    PROVE  Moves(r, stage, request[r].answer, request[r].result)
<1>1. request[r] \in RequestRecords
    BY DEF TypeOK
<1>2. [request[r] EXCEPT !.stage = stage] =
      [request[r] EXCEPT !.stage = stage, !.answer = request[r].answer,
                         !.result = request[r].result]
    BY <1>1 DEF RequestRecords
<1>3. request' = [request EXCEPT ![r] = [request[r] EXCEPT !.stage = stage]]
    BY DEF Goto
<1> QED
    BY <1>1, <1>2, <1>3, MovesIntro DEF RequestRecords

(* An answer ends the request.                                             *)
LEMMA AnswerMoves ==
    ASSUME TypeOK, NEW r \in Requests, NEW answer \in Answers, NEW result \in Nat,
           Answer(r, answer, result)
    PROVE  Moves(r, "done", answer, result)
<1>1. request \in [Requests -> RequestRecords]
    BY DEF TypeOK
<1>2. request' = [request EXCEPT ![r] = [request[r] EXCEPT
           !.stage = "done", !.answer = answer, !.result = result]]
    BY <1>1 DEF Answer, RequestRecords
<1> QED
    BY <1>2, MovesIntro DEF Stages

(* A step that writes no row and moves one request preserves the invariant *)
(* if it respects the locks and gives an answer that is true.              *)
LEMMA PrivateStep ==
    ASSUME IInv,
           NEW r \in Requests, NEW stage, NEW answer, NEW result,
           Moves(r, stage, answer, result),
           UNCHANGED <<clock, revision, usable, records, effects>>,
           stage # "committed",
           stage = "done" \/ answer = "none",
           stage \in Holding =>
               \A q \in Requests \ {r} : request[q].stage \in Holding =>
                   LockOf[request[q].key] # LockOf[request[r].key],
           stage \in {"cleared", "executed"} =>
               \A row \in RecordsOf(request[r].key) :
                   row.result = result /\ row.expiresAt <= request[r].at,
           stage = "executed" =>
               /\ \A q \in Requests \ {r} : ~ At(q, "executed")
               /\ request[r].expected \in {revision, AnyRevision},
           answer = "success" =>
               \E e \in effects : /\ e.key = request[r].key
                                  /\ e.fingerprint = request[r].expected
                                  /\ e.result = result,
           answer = "stale" =>
               /\ request[r].expected # AnyRevision
               /\ request[r].expected < revision
               /\ \A e \in effects : ~ Answerable(e, r)
    PROVE  IInv'
<1> USE DEF Moves
<1>1. TypeOK'
    BY DEF TypeOK, IInv
<1>2. (RecordPerKey /\ RecordsVouch /\ RecordsAreEffects /\ OncePerLifetime)'
    BY DEF RecordPerKey, RecordsVouch, RecordsAreEffects, OncePerLifetime, IInv
<1>3. Exclusion'
    BY DEF Exclusion, IInv
<1>4. RowLocked'
    BY DEF RowLocked, IInv
<1>5. LookupHolds'
    BY DEF LookupHolds, IInv
<1>6. RevisionsRead'
    BY DEF RevisionsRead, IInv
<1>7. StaleIsOld'
    BY DEF StaleIsOld, IInv
<1>8. AnswersAtEnd'
    BY DEF AnswersAtEnd, IInv
<1>9. CommittedIsAnEffect'
    BY DEF CommittedIsAnEffect, IInv
<1>10. SuccessIsAnEffect'
    BY DEF SuccessIsAnEffect, IInv
<1>11. NoSpurious412'
    BY DEF NoSpurious412, Answerable, IInv
<1> QED
    BY <1>1, <1>2, <1>3, <1>4, <1>5, <1>6, <1>7, <1>8, <1>9, <1>10, <1>11 DEF IInv

(* A request that was not sent yet holds no lock and has no answer, so the *)
(* invariant says nothing of what it becomes but that it is well formed.   *)
LEMMA ReceiveStep ==
    ASSUME IInv, NEW r \in Requests, NEW k \in Keys,
           NEW expected \in 0..revision \cup {AnyRevision}, Receive(r, k, expected)
    PROVE  IInv'
<1>1. request \in [Requests -> RequestRecords] /\ revision \in Nat /\ clock \in Nat
    BY DEF IInv, TypeOK
<1> DEFINE new == [request[r] EXCEPT !.stage = "checking", !.at = clock,
                                     !.key = k, !.expected = expected]
<1>2. /\ new \in RequestRecords
      /\ new.stage = "checking" /\ new.answer = "none" /\ new.expected = expected
  <2>1. request[r] \in RequestRecords /\ request[r].answer = "none"
    BY <1>1 DEF Receive, AnswersAtEnd, IInv
  <2>2. expected \in Revisions /\ "checking" \in Stages
    BY <1>1 DEF Stages
  <2> QED
    BY <1>1, <2>1, <2>2 DEF RequestRecords
<1>3. request' = [request EXCEPT ![r] = new]
  <2>1. request' = [request EXCEPT ![r].stage = "checking", ![r].at = clock,
                                   ![r].key = k, ![r].expected = expected]
    BY DEF Receive
  <2> QED
    BY <1>1, <2>1
<1> HIDE DEF new
<1>4. /\ request'[r] = new
      /\ \A q \in Requests \ {r} : request'[q] = request[q]
      /\ request' \in [Requests -> RequestRecords]
    BY <1>1, <1>2, <1>3
<1>5. UNCHANGED <<clock, revision, usable, records, effects>>
    BY DEF Receive
<1>6. TypeOK'
    BY <1>4, <1>5 DEF TypeOK, IInv
<1>7. (RecordPerKey /\ RecordsVouch /\ RecordsAreEffects /\ OncePerLifetime)'
    BY <1>5 DEF RecordPerKey, RecordsVouch, RecordsAreEffects, OncePerLifetime, IInv
<1>8. Exclusion'
    BY <1>2, <1>4 DEF Exclusion, IInv
<1>9. RowLocked'
    BY <1>2, <1>4, <1>5 DEF RowLocked, IInv
<1>10. LookupHolds'
    BY <1>2, <1>4, <1>5 DEF LookupHolds, IInv
<1>11. RevisionsRead'
    BY <1>1, <1>2, <1>4, <1>5 DEF RevisionsRead, IInv
<1>12. StaleIsOld' /\ AnswersAtEnd'
    BY <1>2, <1>4, <1>5 DEF StaleIsOld, AnswersAtEnd, IInv
<1>13. CommittedIsAnEffect'
    BY <1>2, <1>4, <1>5 DEF CommittedIsAnEffect, IInv
<1>14. SuccessIsAnEffect'
    BY <1>2, <1>4, <1>5 DEF SuccessIsAnEffect, IInv
<1>15. NoSpurious412'
    BY <1>2, <1>4, <1>5 DEF NoSpurious412, Answerable, IInv
<1> QED
    BY <1>6, <1>7, <1>8, <1>9, <1>10, <1>11, <1>12, <1>13, <1>14, <1>15 DEF IInv

(* A request that ends without success has done nothing.                   *)
LEMMA EndingStep ==
    ASSUME IInv, NEW r \in Requests, NEW answer \in {"refused", "failed", "lost", "key_reused"},
           Answer(r, answer, 0),
           UNCHANGED <<clock, revision, usable, records, effects>>
    PROVE  IInv'
<1>1. Moves(r, "done", answer, 0)
    BY AnswerMoves DEF IInv, Answers
<1> QED
    BY <1>1, PrivateStep

(* The check before the envelope refuses or lets the request pass.         *)
LEMMA CheckStep ==
    ASSUME IInv, NEW r \in Requests, Check(r)
    PROVE  IInv'
<1>1. CASE usable
  <2>1. Moves(r, "waiting", request[r].answer, request[r].result)
    BY <1>1, GotoMoves DEF Check, Stages, IInv
  <2>2. request[r].answer = "none"
    BY DEF AnswersAtEnd, Check, IInv
  <2> QED
    BY <2>1, <2>2, PrivateStep DEF Check
<1>2. CASE ~ usable
    BY <1>2, EndingStep DEF Check
<1> QED
    BY <1>1, <1>2

(* The lock of a key is granted while no holder of that lock works.        *)
LEMMA AcquireLockStep ==
    ASSUME IInv, NEW r \in Requests, AcquireLock(r)
    PROVE  IInv'
<1>1. Moves(r, "locked", request[r].answer, request[r].result)
    BY GotoMoves DEF AcquireLock, Stages, IInv
<1>2. request[r].answer = "none"
    BY DEF AnswersAtEnd, AcquireLock, IInv
<1>3. \A q \in Requests \ {r} : request[q].stage \in Holding =>
          LockOf[request[q].key] # LockOf[request[r].key]
    BY DEF AcquireLock, LockFree
<1> QED
    BY <1>1, <1>2, <1>3, PrivateStep DEF AcquireLock

(* A stored result is replayed, refused as reused, or not found live.      *)
LEMMA LookupStep ==
    ASSUME IInv, NEW r \in Requests, Lookup(r)
    PROVE  IInv'
<1> DEFINE found == RecordsOf(request[r].key)
<1> DEFINE live == {row \in found : Live(row, request[r].at)}
<1>0. /\ request[r] \in RequestRecords
      /\ request[r].answer = "none"
      /\ request[r].stage = "locked"
      /\ records \subseteq Records
      /\ \A a, b \in found : a = b
    BY DEF TypeOK, AnswersAtEnd, RecordPerKey, Lookup, IInv
<1>1. \A q \in Requests \ {r} : request[q].stage \in Holding =>
          LockOf[request[q].key] # LockOf[request[r].key]
    BY <1>0 DEF Exclusion, IInv
<1>2. UNCHANGED <<clock, revision, usable, records, effects>>
    BY DEF Lookup
<1>3. CASE found = {} /\ Goto(r, "cleared")
  <2>1. Moves(r, "cleared", request[r].answer, request[r].result)
    BY <1>3, GotoMoves DEF Stages, IInv
  <2> QED
    BY <1>0, <1>1, <1>2, <1>3, <2>1, PrivateStep
<1>4. ASSUME live = {}, NEW row \in found,
             request' = [request EXCEPT ![r].stage = "cleared", ![r].result = row.result]
      PROVE  IInv'
  <2>1. row.result \in Nat
    BY <1>0 DEF Records
  <2>2. [request[r] EXCEPT !.stage = "cleared", !.result = row.result] =
        [request[r] EXCEPT !.stage = "cleared", !.answer = request[r].answer,
                           !.result = row.result]
    BY <1>0 DEF RequestRecords
  <2>3. request' = [request EXCEPT ![r] = [request[r] EXCEPT
            !.stage = "cleared", !.result = row.result]]
    BY <1>4 DEF IInv, TypeOK
  <2>4. Moves(r, "cleared", request[r].answer, row.result)
    BY <1>0, <2>1, <2>2, <2>3, MovesIntro DEF Stages, RequestRecords, IInv
  <2>5. \A a \in found : a.result = row.result /\ a.expiresAt <= request[r].at
    BY <1>0, <1>4 DEF Live, Records, RequestRecords
  <2> QED
    BY <1>0, <1>1, <1>2, <2>4, <2>5, PrivateStep
<1>5. ASSUME NEW row \in live, Match(row, r), Answer(r, "success", row.result)
      PROVE  IInv'
  <2>1. row \in records /\ row.result \in Nat /\ row.key = request[r].key
    BY <1>0 DEF Records
  <2>2. Moves(r, "done", "success", row.result)
    BY <1>5, <2>1, AnswerMoves DEF IInv, Answers
  <2>3. \E e \in effects : /\ e.key = request[r].key
                           /\ e.fingerprint = request[r].expected
                           /\ e.result = row.result
    BY <1>5, <2>1 DEF Match, RecordsAreEffects, IInv
  <2> QED
    BY <1>2, <2>2, <2>3, PrivateStep
<1>6. CASE Answer(r, "key_reused", 0)
    BY <1>2, <1>6, EndingStep
<1> QED
    BY <1>3, <1>4, <1>5, <1>6 DEF Lookup

(* Every execution under a key that a transaction found free is at least a *)
(* lifetime older than the instant the transaction carries.                *)
LEMMA FoundFree ==
    ASSUME IInv, NEW r \in Requests, request[r].stage \in {"cleared", "executed"}
    PROVE  \A e \in effects : e.key = request[r].key => e.at + Ttl <= request[r].at
<1> SUFFICES ASSUME NEW e \in effects, e.key = request[r].key
             PROVE  e.at + Ttl <= request[r].at
    OBVIOUS
<1>1. PICK row \in records : row.key = e.key /\ e.at + Ttl <= row.expiresAt
    BY DEF RecordsVouch, IInv
<1>2. row.expiresAt <= request[r].at
    BY <1>1 DEF LookupHolds, IInv
<1>3. e.at \in Nat /\ row.expiresAt \in Nat /\ request[r].at \in Nat
    BY <1>1 DEF IInv, TypeOK, Effects, Records, RequestRecords
<1> QED
    BY <1>1, <1>2, <1>3

(* An execution checks the revision and writes nothing yet.                *)
LEMMA ExecuteStep ==
    ASSUME IInv, NEW r \in Requests, Execute(r)
    PROVE  IInv'
<1>1. /\ request[r].stage = "cleared" /\ request[r].answer = "none"
      /\ request[r].expected \in Revisions /\ request[r].at \in Nat
      /\ revision \in Nat
      /\ UNCHANGED <<clock, revision, usable, records, effects>>
    BY DEF Execute, TypeOK, RequestRecords, AnswersAtEnd, IInv
<1>2. CASE request[r].expected \in {revision, AnyRevision} /\ Goto(r, "executed")
  <2>1. Moves(r, "executed", request[r].answer, request[r].result)
    BY <1>2, GotoMoves DEF Stages, IInv
  <2>2. \A q \in Requests \ {r} : request[q].stage \in Holding =>
            LockOf[request[q].key] # LockOf[request[r].key]
    BY <1>1 DEF Exclusion, IInv
  <2>3. \A row \in RecordsOf(request[r].key) :
            row.result = request[r].result /\ row.expiresAt <= request[r].at
    BY <1>1 DEF LookupHolds, IInv
  <2>4. \A q \in Requests \ {r} : ~ At(q, "executed")
    BY DEF Execute, RowFree
  <2> QED
    BY <1>1, <1>2, <2>1, <2>2, <2>3, <2>4, PrivateStep
<1>3. CASE Answer(r, "refused", 0)
    BY <1>1, <1>3, EndingStep
<1>4. CASE /\ request[r].expected \notin {revision, AnyRevision}
           /\ Answer(r, "stale", 0)
  <2>1. Moves(r, "done", "stale", 0)
    BY <1>4, AnswerMoves DEF IInv, Answers
  <2>2. request[r].expected # AnyRevision /\ request[r].expected < revision
    BY <1>1, <1>4 DEF RevisionsRead, IInv
  <2>3. \A e \in effects : ~ Answerable(e, r)
    BY <1>1, FoundFree DEF Answerable, IInv, TypeOK, Effects
  <2> QED
    BY <1>1, <2>1, <2>2, <2>3, PrivateStep
<1> QED
    BY <1>2, <1>3, <1>4 DEF Execute

(* The answer of a committed execution is a success.                       *)
LEMMA ReplyStep ==
    ASSUME IInv, NEW r \in Requests, Reply(r)
    PROVE  IInv'
<1>1. Moves(r, "done", "success", request[r].result)
    BY AnswerMoves DEF Reply, Answers, TypeOK, RequestRecords, IInv
<1>2. \E e \in effects : /\ e.key = request[r].key
                         /\ e.fingerprint = request[r].expected
                         /\ e.result = request[r].result
    BY DEF Reply, CommittedIsAnEffect, IInv
<1> QED
    BY <1>1, <1>2, PrivateStep DEF Reply

(* A store that fails rolls its execution back.                            *)
LEMMA StoreFailsStep ==
    ASSUME IInv, NEW r \in Requests, StoreFails(r)
    PROVE  IInv'
    BY EndingStep DEF StoreFails

(* A lost request leaves what was committed.                               *)
LEMMA LoseStep ==
    ASSUME IInv, NEW r \in Requests, Lose(r)
    PROVE  IInv'
    BY EndingStep DEF Lose

(* The commit of an execution and of its record keeps the invariant.       *)
LEMMA CommitStep ==
    ASSUME IInv, NEW r \in Requests, Commit(r)
    PROVE  IInv'
<1> DEFINE key == request[r].key
           at == request[r].at
           row == [key |-> key, fingerprint |-> request[r].expected,
                   expiresAt |-> at + Ttl, result |-> revision + 1]
           effect == [key |-> key, fingerprint |-> request[r].expected,
                      at |-> at, result |-> revision + 1]
<1>1. /\ request[r] \in RequestRecords
      /\ revision \in Nat
      /\ request[r].stage = "executed" /\ request[r].answer = "none"
      /\ request[r].expected \in {revision, AnyRevision}
      /\ records \subseteq Records /\ effects \subseteq Effects
    BY DEF Commit, TypeOK, AnswersAtEnd, RowLocked, IInv
<1>2. /\ revision' = revision + 1
      /\ records' = (records \ RecordsOf(key)) \cup {row}
      /\ effects' = effects \cup {effect}
      /\ UNCHANGED <<clock, usable>>
    BY DEF Commit, ExpiresAt
<1>3. Moves(r, "committed", "none", revision + 1)
  <2>1. [request[r] EXCEPT !.stage = "committed", !.result = revision + 1] =
        [request[r] EXCEPT !.stage = "committed", !.answer = "none",
                           !.result = revision + 1]
    BY <1>1 DEF RequestRecords
  <2>2. request' = [request EXCEPT ![r] = [request[r] EXCEPT
            !.stage = "committed", !.result = revision + 1]]
    BY DEF Commit, IInv, TypeOK
  <2>3. request' = [request EXCEPT ![r] = [request[r] EXCEPT
            !.stage = "committed", !.answer = "none", !.result = revision + 1]]
    BY <2>1, <2>2
  <2>4. "committed" \in Stages /\ "none" \in Answers /\ revision + 1 \in Nat /\ TypeOK
    BY <1>1 DEF Stages, Answers, IInv
  <2> QED
    BY <2>3, <2>4, MovesIntro
<1>4. row \in Records /\ effect \in Effects
    BY <1>1 DEF Records, Effects, RequestRecords
<1>5. \A e \in effects : e.key = key => e.at + Ttl <= at
    BY <1>1, FoundFree
<1>6. /\ row.key = key /\ row.fingerprint = request[r].expected
      /\ row.expiresAt = at + Ttl /\ row.result = revision + 1
      /\ effect.key = key /\ effect.fingerprint = request[r].expected
      /\ effect.at = at /\ effect.result = revision + 1
    OBVIOUS
<1>7. at \in Nat /\ key \in Keys
    BY <1>1 DEF RequestRecords
<1> HIDE DEF row, effect, key, at
<1>8. TypeOK'
    BY <1>1, <1>2, <1>3, <1>4 DEF TypeOK, Moves, IInv
<1>9. RecordPerKey'
    BY <1>2, <1>6 DEF RecordPerKey, IInv
<1>10. RecordsVouch'
  <2> SUFFICES ASSUME NEW e \in effects'
               PROVE  \E a \in records' : a.key = e.key /\ e.at + Ttl <= a.expiresAt
    BY DEF RecordsVouch
  <2>1. CASE e = effect
    BY <1>2, <1>6, <1>7, <2>1
  <2>2. CASE e \in effects /\ e.key = key
    <3>1. e.at \in Nat
      BY <1>1, <2>2 DEF Effects
    <3> QED
      BY <1>2, <1>5, <1>6, <1>7, <2>2, <3>1
  <2>3. CASE e \in effects /\ e.key # key
    BY <1>2, <2>3 DEF RecordsVouch, IInv
  <2> QED
    BY <1>2, <2>1, <2>2, <2>3
<1>11. RecordsAreEffects'
    BY <1>2, <1>6 DEF RecordsAreEffects, IInv
<1>12. Exclusion'
    BY <1>3 DEF Exclusion, Moves, IInv
<1>13. RowLocked'
    BY <1>1, <1>3 DEF RowLocked, Moves, IInv
<1>14. LookupHolds'
  <2> SUFFICES ASSUME NEW q \in Requests,
                      request'[q].stage \in {"cleared", "executed"},
                      NEW a \in records', a.key = request'[q].key
               PROVE  a.result = request'[q].result /\ a.expiresAt <= request'[q].at
    BY DEF LookupHolds
  <2>1. q # r /\ request'[q] = request[q]
    BY <1>3 DEF Moves
  <2>2. request[q].key # key
    BY <1>1, <2>1 DEF Exclusion, IInv, key
  <2>3. a \in records
    BY <1>2, <1>6, <2>1, <2>2
  <2> QED
    BY <2>1, <2>3 DEF LookupHolds, IInv
<1>15. RevisionsRead'
    BY <1>1, <1>2, <1>3 DEF RevisionsRead, Moves, TypeOK, RequestRecords, IInv
<1>16. StaleIsOld'
    BY <1>1, <1>2, <1>3 DEF StaleIsOld, Moves, TypeOK, RequestRecords, IInv
<1>17. AnswersAtEnd'
    BY <1>3 DEF AnswersAtEnd, Moves, IInv
<1>18. CommittedIsAnEffect'
    BY <1>2, <1>3, <1>6 DEF CommittedIsAnEffect, Moves, IInv, key
<1>19. OncePerLifetime'
    BY <1>2, <1>5, <1>6, <1>7 DEF OncePerLifetime, IInv
<1>20. SuccessIsAnEffect'
    BY <1>2, <1>3 DEF SuccessIsAnEffect, Moves, IInv
<1>21. NoSpurious412'
  <2> SUFFICES ASSUME NEW q \in Requests, request'[q].answer = "stale",
                      NEW e \in effects'
               PROVE  ~ Answerable(e, q)'
    BY DEF NoSpurious412
  <2>1. q # r /\ request'[q] = request[q]
    BY <1>3 DEF Moves
  <2>2. CASE e \in effects
    BY <2>1, <2>2 DEF NoSpurious412, Answerable, IInv
  <2>3. CASE e = effect
    BY <1>1, <1>6, <2>1, <2>3 DEF StaleIsOld, Answerable, IInv
  <2> QED
    BY <1>2, <2>2, <2>3
<1> QED
    BY <1>8, <1>9, <1>10, <1>11, <1>12, <1>13, <1>14, <1>15, <1>16, <1>17,
       <1>18, <1>19, <1>20, <1>21 DEF IInv

(* Neither time nor the archive touches a request.                         *)
LEMMA OtherSteps ==
    ASSUME IInv, Retire \/ Tick \/ UNCHANGED vars
    PROVE  IInv'
<1>1. UNCHANGED <<revision, records, request, effects>>
    BY DEF Retire, Tick, vars
<1>2. TypeOK'
  <2>1. usable' \in BOOLEAN
    BY Zenon DEF TypeOK, Retire, Tick, vars, IInv
  <2>2. clock' \in Nat
    BY DEF TypeOK, Retire, Tick, vars, IInv
  <2> QED
    BY <1>1, <2>1, <2>2 DEF TypeOK, IInv
<1>3. (RecordPerKey /\ RecordsVouch /\ RecordsAreEffects /\ OncePerLifetime)'
    BY <1>1 DEF RecordPerKey, RecordsVouch, RecordsAreEffects, OncePerLifetime, IInv
<1>4. (Exclusion /\ RowLocked /\ LookupHolds /\ RevisionsRead)'
    BY <1>1 DEF Exclusion, RowLocked, LookupHolds, RevisionsRead, IInv
<1>5. (StaleIsOld /\ AnswersAtEnd /\ CommittedIsAnEffect)'
    BY <1>1 DEF StaleIsOld, AnswersAtEnd, CommittedIsAnEffect, IInv
<1>6. (SuccessIsAnEffect /\ NoSpurious412)'
    BY <1>1 DEF SuccessIsAnEffect, NoSpurious412, Answerable, IInv
<1> QED
    BY <1>2, <1>3, <1>4, <1>5, <1>6 DEF IInv

(* Every step of the envelope keeps the invariant.                         *)
LEMMA NextStep ==
    ASSUME IInv, [Next]_vars
    PROVE  IInv'
<1>1. ASSUME NEW r \in Requests, NEW k \in Keys,
             NEW expected \in 0..revision \cup {AnyRevision}, Receive(r, k, expected)
      PROVE  IInv'
    BY <1>1, ReceiveStep
<1>2. ASSUME NEW r \in Requests, Step(r)
      PROVE  IInv'
    BY <1>2, CheckStep, AcquireLockStep, LookupStep, ExecuteStep, CommitStep,
       StoreFailsStep, ReplyStep DEF Step
<1>3. ASSUME NEW r \in Requests, Lose(r)
      PROVE  IInv'
    BY <1>3, LoseStep
<1>4. CASE Retire \/ Tick \/ UNCHANGED vars
    BY <1>4, OtherSteps
<1> QED
    BY <1>1, <1>2, <1>3, <1>4 DEF Next

(* The strengthening holds in every reachable state. *)
THEOREM EnvelopeInvariant == Spec => []IInv
<1> QED
    BY InitHolds, NextStep, PTL DEF Spec

(* Every variable keeps its type. *)
THEOREM EnvelopeTypes == Spec => []TypeOK
<1>1. IInv => TypeOK
    BY DEF IInv
<1> QED
    BY <1>1, EnvelopeInvariant, PTL

(* A key takes effect at most once in a lifetime (runIdempotentCommand),   *)
(* whatever the hash of the lock key and the age of the instants.          *)
THEOREM AtMostOnce == Spec => []OncePerLifetime
<1>1. IInv => OncePerLifetime
    BY DEF IInv
<1> QED
    BY <1>1, EnvelopeInvariant, PTL

(* The insert of a result never meets a row of the same identity, so no    *)
(* request fails on the unique constraint of idempotency_record.           *)
THEOREM InsertsSucceed == Spec => []StoreNeverClashes
<1>1. IInv => StoreNeverClashes
    BY DEF IInv, LookupHolds, StoreNeverClashes, Clashes
<1> QED
    BY <1>1, EnvelopeInvariant, PTL

(* Success is only ever reported for what was executed, replays included.  *)
THEOREM SuccessIsTrue == Spec => []SuccessIsAnEffect
<1>1. IInv => SuccessIsAnEffect
    BY DEF IInv
<1> QED
    BY <1>1, EnvelopeInvariant, PTL

(* A retry within the lifetime of its own success is never told that its   *)
(* revision is stale (ADR 0015, concurrency and lost updates).             *)
THEOREM LostResponsesAreReplayed == Spec => []NoSpurious412
<1>1. IInv => NoSpurious412
    BY DEF IInv
<1> QED
    BY <1>1, EnvelopeInvariant, PTL

---------------------------------------------------------------------------
(* Realtime delivery.  First the data: what the commands write and tell, by   *)
(* the kinds and fields of their outbox rows; what the screens ask for; and   *)
(* that every screen is told of what it reads.                             *)

Kinds == {"pass", "scheduled_authorization", "destination", "destination_category", "location",
          "school_schedule", "policy_rule", "authorization_grant", "identity_enrollment_grant"}
Fields == {"studentId", "destinationId", "requiredSectionId"}
Events == [kind : Kinds, fields : SUBSET Fields]

(* An outbox row of a kind, with these fields at least, is among those that *)
(* an effect appends.                                                      *)
Tells(e, kind, fields) ==
    \E i \in DOMAIN e.tells : e.tells[i].kind = kind /\ fields \subseteq e.tells[i].fields
Appends(e) == e.tells \in Seq(Events)

(* What two effects tell together.                                         *)
LEMMA Together ==
    ASSUME NEW x, NEW y, Appends(x), Appends(y)
    PROVE  /\ Appends(Then(x, y))
           /\ Then(x, y).writes = x.writes \cup y.writes
           /\ \A k : \A f : Tells(Then(x, y), k, f) <=> Tells(x, k, f) \/ Tells(y, k, f)
<1> DEFINE s == x.tells  t == y.tells
<1>1. /\ Then(x, y).writes = x.writes \cup y.writes /\ Then(x, y).tells = s \o t
  BY DEF Then, Effect
<1>2. s \in Seq(Events) /\ t \in Seq(Events)
  BY DEF Appends
<1> HIDE DEF s, t
<1>3. /\ s \o t \in Seq(Events) /\ DOMAIN s = 1..Len(s) /\ DOMAIN t = 1..Len(t)
      /\ DOMAIN (s \o t) = 1..(Len(s) + Len(t)) /\ Len(s) \in Nat /\ Len(t) \in Nat
      /\ \A i \in 1..(Len(s) + Len(t)) : (s \o t)[i] = IF i <= Len(s) THEN s[i] ELSE t[i - Len(s)]
  BY <1>2
<1>4. ASSUME NEW k, NEW f, Tells(Then(x, y), k, f) PROVE Tells(x, k, f) \/ Tells(y, k, f)
  <2>1. PICK i \in 1..(Len(s) + Len(t)) : (s \o t)[i].kind = k /\ f \subseteq (s \o t)[i].fields
    BY <1>1, <1>3, <1>4 DEF Tells
  <2>2. CASE i <= Len(s)
    BY <2>1, <2>2, <1>3 DEF Tells, s
  <2>3. CASE i > Len(s)
    <3>1. i - Len(s) \in 1..Len(t) /\ (s \o t)[i] = t[i - Len(s)]
      BY <2>3, <1>3
    <3> QED
      BY <3>1, <2>1, <1>3 DEF Tells, t
  <2> QED
    BY <2>2, <2>3, <1>3
<1>5. ASSUME NEW k, NEW f, Tells(x, k, f) PROVE Tells(Then(x, y), k, f)
  <2>1. PICK i \in 1..Len(s) : s[i].kind = k /\ f \subseteq s[i].fields
    BY <1>5, <1>3 DEF Tells, s
  <2>2. i \in 1..(Len(s) + Len(t)) /\ (s \o t)[i] = s[i]
    BY <1>3
  <2> QED
    BY <2>1, <2>2, <1>1, <1>3 DEF Tells
<1>6. ASSUME NEW k, NEW f, Tells(y, k, f) PROVE Tells(Then(x, y), k, f)
  <2>1. PICK i \in 1..Len(t) : t[i].kind = k /\ f \subseteq t[i].fields
    BY <1>6, <1>3 DEF Tells, t
  <2>2. i + Len(s) \in 1..(Len(s) + Len(t)) /\ (s \o t)[i + Len(s)] = t[i]
    BY <1>3
  <2> QED
    BY <2>1, <2>2, <1>1, <1>3 DEF Tells
<1> QED
  BY <1>1, <1>3, <1>4, <1>5, <1>6 DEF Appends

(* What one row tells.                                                     *)
LEMMA OneRow ==
    ASSUME NEW w, NEW r \in Events
    PROVE  LET e == Effect(w, <<r>>) IN
           /\ Appends(e) /\ e.writes = w
           /\ \A k : \A f : Tells(e, k, f) <=> r.kind = k /\ f \subseteq r.fields
BY DEF Effect, Appends, Tells

(* What an effect without a row tells.                                     *)
LEMMA NoRow ==
    ASSUME NEW w
    PROVE  LET e == Effect(w, <<>>) IN
           Appends(e) /\ e.writes = w /\ \A k : \A f : ~ Tells(e, k, f)
BY DEF Effect, Appends, Tells

(* What a row of a pass tells.                                             *)
LEMMA PassRowTells ==
    ASSUME NEW w, NEW fs \in SUBSET Fields
    PROVE  LET e == Effect(w, Pass(fs)) IN
           /\ Appends(e) /\ e.writes = w
           /\ \A k : \A f : Tells(e, k, f) <=> k = "pass" /\ f \subseteq {"studentId"} \cup fs
<1> DEFINE r == [kind |-> "pass", fields |-> {"studentId"} \cup fs]
<1>1. r \in Events /\ r.kind = "pass" /\ r.fields = {"studentId"} \cup fs
  BY DEF Events, Kinds, Fields
<1>2. Pass(fs) = <<r>>
  BY DEF Pass
<1> HIDE DEF r
<1> QED
  BY <1>1, <1>2, OneRow

(* What a row of another kind tells.                                       *)
LEMMA EventRow ==
    ASSUME NEW w, NEW kind \in Kinds
    PROVE  LET e == Effect(w, Event(kind)) IN
           /\ Appends(e) /\ e.writes = w
           /\ \A k : \A f : Tells(e, k, f) <=> k = kind /\ f = {}
<1> DEFINE r == [kind |-> kind, fields |-> {}]
<1>1. r \in Events /\ r.kind = kind /\ r.fields = {}
  BY DEF Events
<1>2. Event(kind) = <<r>>
  BY DEF Event
<1> HIDE DEF r
<1>3. \A f : f \subseteq {} <=> f = {}
  OBVIOUS
<1> QED
  BY <1>1, <1>2, <1>3, OneRow

---------------------------------------------------------------------------
(* What the effects of passes tell.                                        *)

(* The tables it writes are among w; its rows of passes carry these fields.  *)
Informs(e, w, fs) ==
    /\ Appends(e) /\ e.writes \subseteq w
    /\ \A f \in fs : Tells(e, "pass", {f})

(* What two effects inform of together.                                    *)
LEMMA InformTogether ==
    ASSUME NEW x, NEW y, NEW w, NEW v, NEW fs, NEW gs, Informs(x, w, fs), Informs(y, v, gs)
    PROVE  Informs(Then(x, y), w \cup v, fs \cup gs)
BY Together DEF Informs

(* More tables and fewer fields may be said of what an effect informs of.  *)
LEMMA InformMore ==
    ASSUME NEW e, NEW w, NEW v, NEW fs, NEW gs, Informs(e, w, fs), w \subseteq v, gs \subseteq fs
    PROVE  Informs(e, v, gs)
BY DEF Informs

(* A row of a pass informs of what it writes.                              *)
LEMMA PassRowInforms ==
    ASSUME NEW w, NEW fs \in SUBSET Fields
    PROVE  Informs(Effect(w, Pass(fs)), w, {"studentId"} \cup fs)
<1> DEFINE e == Effect(w, Pass(fs))  gs == {"studentId"} \cup fs
<1>1. /\ Appends(e) /\ e.writes = w
      /\ \A k : \A f : Tells(e, k, f) <=> k = "pass" /\ f \subseteq gs
  BY PassRowTells
<1> HIDE DEF e, gs
<1>2. \A f \in gs : {f} \subseteq gs
  OBVIOUS
<1>3. Informs(e, w, gs)
  BY <1>1, <1>2 DEF Informs
<1> QED
  BY <1>3 DEF e, gs

(* An effect without a row informs of nothing.                             *)
LEMMA Silent ==
    ASSUME NEW w
    PROVE  Informs(Effect(w, <<>>), w, {})
BY NoRow DEF Informs

Whom == {"studentId"}
Where == {"studentId", "destinationId"}
Whose == {"studentId", "requiredSectionId"}
AllFields == {"studentId", "destinationId", "requiredSectionId"}

(* The parts that effects are put together from.                           *)
LEMMA Parts ==
    /\ Informs(PolicyDecided, {"policy_evaluation"}, Whom)
    /\ Informs(Undecided, {}, {})
    /\ Informs(AsksTeacher, {"pass_approval"}, Whose)
    /\ Informs(Offered, FlowRow \cup {"destination_reservation"}, Where)
    /\ Informs(Parked, FlowRow \cup {"queue_entry"}, Where)
    /\ Informs(Refused, {"pass", "pass_event"}, Where)
    /\ Informs(Withdrawn, {"waiting", "pass_approval", "pass_override"}, {})
    /\ Informs(Moved, FlowRow, Where)
    /\ Informs(Audited, {"audit_event"}, {})
    /\ Informs(Requested, {"pass", "pass_event", "audit_event"}, Where)
    /\ Informs(ApprovalResolved,
               {"pass", "waiting", "pass_event", "pass_approval", "audit_event"}, Whose)
    /\ Informs(OverrideChanged,
               {"pass", "waiting", "pass_event", "pass_override", "audit_event"}, Whom)
<1>1. /\ {} \in SUBSET Fields /\ {"destinationId"} \in SUBSET Fields
      /\ {"requiredSectionId"} \in SUBSET Fields
  BY DEF Fields
<1>2. \A w : /\ Informs(Effect(w, Pass({})), w, Whom)
            /\ Informs(Effect(w, Pass({"destinationId"})), w, Where)
            /\ Informs(Effect(w, Pass({"requiredSectionId"})), w, Whose)
  <2> SUFFICES ASSUME NEW w
               PROVE  /\ Informs(Effect(w, Pass({})), w, Whom)
                      /\ Informs(Effect(w, Pass({"destinationId"})), w, Where)
                      /\ Informs(Effect(w, Pass({"requiredSectionId"})), w, Whose)
    OBVIOUS
  <2>1. /\ {"studentId"} \cup {} = Whom /\ {"studentId"} \cup {"destinationId"} = Where
        /\ {"studentId"} \cup {"requiredSectionId"} = Whose
    BY DEF Whom, Where, Whose
  <2>2. /\ Informs(Effect(w, Pass({})), w, {"studentId"} \cup {})
        /\ Informs(Effect(w, Pass({"destinationId"})), w, {"studentId"} \cup {"destinationId"})
        /\ Informs(Effect(w, Pass({"requiredSectionId"})), w, {"studentId"} \cup {"requiredSectionId"})
    BY <1>1, PassRowInforms
  <2> QED
    BY <2>1, <2>2
<1> QED
  BY <1>2, Silent DEF PolicyDecided, Undecided, AsksTeacher, Offered, Parked, Refused, Withdrawn,
     Moved, Audited, Requested, ApprovalResolved, OverrideChanged

(* A pass that ends tells where it was.                                    *)
LEMMA EndedParts ==
    ASSUME NEW w
    PROVE  Informs(Ended(w), FlowRow \cup w \cup {"waiting", "pass_approval", "pass_override"}, Where)
<1>1. {"destinationId"} \in SUBSET Fields /\ Where = {"studentId"} \cup {"destinationId"}
  BY DEF Fields, Where
<1> DEFINE x == Effect(FlowRow \cup w, Pass({"destinationId"}))
<1>2. Informs(x, FlowRow \cup w, Where)
  <2>1. Informs(x, FlowRow \cup w, {"studentId"} \cup {"destinationId"})
    BY <1>1, PassRowInforms
  <2> QED
    BY <1>1, <2>1
<1>3. Informs(Withdrawn, {"waiting", "pass_approval", "pass_override"}, {})
  BY Parts
<1>4. Ended(w) = Then(x, Withdrawn)
  BY DEF Ended
<1> HIDE DEF x
<1>5. Informs(Then(x, Withdrawn), (FlowRow \cup w) \cup {"waiting", "pass_approval", "pass_override"},
              Where \cup {})
  BY <1>2, <1>3, InformTogether
<1>6. Where \cup {} = Where
  OBVIOUS
<1> QED
  BY <1>4, <1>5, <1>6

---------------------------------------------------------------------------
(* What the commands tell of passes.                                       *)

RequestTables ==
    {"pass", "pass_event", "audit_event", "policy_evaluation", "flow", "destination_reservation",
     "queue_entry"}

(* A request tells where to, and whom it asks.                             *)
LEMMA NewPassTells ==
    ASSUME NEW e \in NewPass
    PROVE  \/ Informs(e, RequestTables, Where)
           \/ Informs(e, RequestTables \cup {"pass_approval"}, AllFields)
<1> DEFINE x == Then(Requested, PolicyDecided)
<1>1. Informs(x, {"pass", "pass_event", "audit_event"} \cup {"policy_evaluation"}, Where \cup Whom)
  BY Parts, InformTogether
<1>2. Where \cup Whom = Where /\ Where \cup Whose = AllFields
  BY DEF Where, Whom, Whose, AllFields
<1>3. PICK y \in {Undecided, AsksTeacher, Refused, Offered, Parked} : e = Then(x, y)
  BY DEF NewPass
<1> HIDE DEF x
<1>4. CASE y = AsksTeacher
  <2>1. Informs(e, ({"pass", "pass_event", "audit_event"} \cup {"policy_evaluation"})
                       \cup {"pass_approval"}, Where \cup Whose)
    BY <1>1, <1>2, <1>3, <1>4, Parts, InformTogether
  <2>2. ({"pass", "pass_event", "audit_event"} \cup {"policy_evaluation"}) \cup {"pass_approval"}
            \subseteq RequestTables \cup {"pass_approval"}
    BY DEF RequestTables
  <2> QED
    BY <2>1, <2>2, <1>2, InformMore
<1>5. CASE y # AsksTeacher
  <2>1. Informs(y, FlowRow \cup {"destination_reservation", "queue_entry"}, {})
    <3>1. {} \subseteq Where /\ {} \subseteq {}
      OBVIOUS
    <3>2. /\ {"pass", "pass_event"} \subseteq FlowRow \cup {"destination_reservation", "queue_entry"}
          /\ FlowRow \cup {"destination_reservation"}
                \subseteq FlowRow \cup {"destination_reservation", "queue_entry"}
          /\ FlowRow \cup {"queue_entry"} \subseteq FlowRow \cup {"destination_reservation", "queue_entry"}
          /\ {} \subseteq FlowRow \cup {"destination_reservation", "queue_entry"}
      BY DEF FlowRow
    <3> QED
      BY <1>3, <1>5, <3>1, <3>2, Parts, InformMore
  <2>2. Informs(e, ({"pass", "pass_event", "audit_event"} \cup {"policy_evaluation"})
                       \cup (FlowRow \cup {"destination_reservation", "queue_entry"}), Where \cup {})
    BY <1>1, <1>2, <1>3, <2>1, InformTogether
  <2>3. /\ ({"pass", "pass_event", "audit_event"} \cup {"policy_evaluation"})
             \cup (FlowRow \cup {"destination_reservation", "queue_entry"}) \subseteq RequestTables
        /\ Where \subseteq Where \cup {}
    BY DEF RequestTables, FlowRow
  <2> QED
    BY <2>2, <2>3, InformMore
<1> QED
  BY <1>4, <1>5

DecisionTables ==
    {"pass", "waiting", "pass_event", "pass_approval", "pass_override", "audit_event",
     "policy_evaluation"}
AllocationTables == {"flow", "destination_reservation", "queue_entry"}

(* A decision about a pass tells where to if it places the pass.            *)
LEMMA ReevaluatedTells ==
    ASSUME NEW x, NEW fs, Informs(x, DecisionTables, fs), "studentId" \in fs, NEW e \in Reevaluated(x)
    PROVE  \/ Informs(e, DecisionTables, fs)
           \/ Informs(e, DecisionTables \cup AllocationTables, fs \cup Where)
<1> DEFINE z == Then(x, PolicyDecided)
           a == Effect({"pass_approval"}, <<>>)
<1>1. Informs(z, DecisionTables \cup {"policy_evaluation"}, fs \cup Whom)
  BY Parts, InformTogether
<1>2. Informs(a, {"pass_approval"}, {})
  BY Silent
<1>3. PICK y \in {Undecided, AsksTeacher, Then(Refused, Withdrawn), Offered, Parked} :
         e = Then(z, Then(a, y))
  BY DEF Reevaluated
<1>4. Informs(Then(Refused, Withdrawn),
              {"pass", "pass_event"} \cup {"waiting", "pass_approval", "pass_override"}, Where \cup {})
  BY Parts, InformTogether
<1> HIDE DEF z, a
<1>5. CASE y \in {Undecided, AsksTeacher}
  <2>1. Informs(y, {"pass_approval"}, {})
    <3>1. {} \subseteq Whose /\ {} \subseteq {"pass_approval"} /\ {} \subseteq {}
          /\ {"pass_approval"} \subseteq {"pass_approval"}
      OBVIOUS
    <3> QED
      BY <1>5, <3>1, Parts, InformMore
  <2>2. Informs(Then(a, y), {"pass_approval"} \cup {"pass_approval"}, {} \cup {})
    BY <2>1, <1>2, InformTogether
  <2>3. Informs(e, (DecisionTables \cup {"policy_evaluation"})
                       \cup ({"pass_approval"} \cup {"pass_approval"}), (fs \cup Whom) \cup ({} \cup {}))
    BY <2>2, <1>1, <1>3, InformTogether
  <2>4. /\ (DecisionTables \cup {"policy_evaluation"}) \cup ({"pass_approval"} \cup {"pass_approval"})
             \subseteq DecisionTables
        /\ fs \subseteq (fs \cup Whom) \cup ({} \cup {})
    BY DEF DecisionTables
  <2> QED
    BY <2>3, <2>4, InformMore
<1>6. CASE y \in {Then(Refused, Withdrawn), Offered, Parked}
  <2>1. Informs(y, DecisionTables \cup AllocationTables, Where)
    <3>1. /\ Where \subseteq Where \cup {} /\ Where \subseteq Where
          /\ {"pass", "pass_event"} \cup {"waiting", "pass_approval", "pass_override"}
                \subseteq DecisionTables \cup AllocationTables
          /\ FlowRow \cup {"destination_reservation"} \subseteq DecisionTables \cup AllocationTables
          /\ FlowRow \cup {"queue_entry"} \subseteq DecisionTables \cup AllocationTables
      BY DEF DecisionTables, AllocationTables, FlowRow
    <3> QED
      BY <1>4, <1>6, <3>1, Parts, InformMore
  <2>2. Informs(Then(a, y), {"pass_approval"} \cup (DecisionTables \cup AllocationTables), {} \cup Where)
    BY <2>1, <1>2, InformTogether
  <2>3. Informs(e, (DecisionTables \cup {"policy_evaluation"})
                       \cup ({"pass_approval"} \cup (DecisionTables \cup AllocationTables)),
                (fs \cup Whom) \cup ({} \cup Where))
    BY <2>2, <1>1, <1>3, InformTogether
  <2>4. /\ (DecisionTables \cup {"policy_evaluation"})
             \cup ({"pass_approval"} \cup (DecisionTables \cup AllocationTables))
             \subseteq DecisionTables \cup AllocationTables
        /\ fs \cup Where \subseteq (fs \cup Whom) \cup ({} \cup Where)
    BY DEF DecisionTables
  <2> QED
    BY <2>3, <2>4, InformMore
<1> QED
  BY <1>3, <1>5, <1>6

---------------------------------------------------------------------------
(* What a command tells of the tables it writes, but for what it is known    *)
(* not to tell.                                                            *)

PassCommands ==
    {"request", "resolve_approval", "override", "move", "cancel", "reconcile", "start_booking"}
ScheduleTables == {"schedule_block", "schedule_template", "schedule_slot", "calendar_day"}
AllTables ==
    RequestTables \cup DecisionTables \cup ScheduleTables \cup
    {"scheduled_authorization", "destination", "destination_category", "location", "policy_rule",
     "authorization_grant", "identity_enrollment_grant", "account", "auth_identity"}

PassesAnnounced(c, e) ==
    /\ (\E t \in e.writes : t \in (RequestTables \cup DecisionTables) \ {"audit_event"}) =>
          c \in PassCommands /\ Tells(e, "pass", {"studentId"})
    /\ (\E t \in e.writes : t \in AllocationTables) => Tells(e, "pass", {"destinationId"})
    /\ ("pass_approval" \in e.writes \/ "waiting" \in e.writes) =>
          c \in {"override", "move", "cancel", "reconcile"} \/ Tells(e, "pass", {"requiredSectionId"})
    /\ "waiting" \in e.writes => c \in {"resolve_approval", "override", "cancel", "reconcile"}
    /\ "pass_override" \in e.writes => c \in {"resolve_approval", "override", "cancel", "reconcile"}
    /\ "pass_approval" \in e.writes => c # "move"
RowsAnnounced(c, e) ==
    /\ (\E t \in e.writes : t \in ScheduleTables) => c = "edit_schedule"
    /\ "destination" \in e.writes => c = "edit_destination" /\ Tells(e, "destination", {})
    /\ "destination_category" \in e.writes => c = "edit_category"
    /\ "location" \in e.writes => c = "edit_location" /\ Tells(e, "location", {})
    /\ "policy_rule" \in e.writes => c = "edit_policy" /\ Tells(e, "policy_rule", {})
    /\ "authorization_grant" \in e.writes => c = "grant" /\ Tells(e, "authorization_grant", {})
    /\ "scheduled_authorization" \in e.writes => Tells(e, "scheduled_authorization", {})
PeopleAnnounced(c, e) ==
    /\ "account" \in e.writes => c = "grant" \/ Tells(e, "identity_enrollment_grant", {})
    /\ "auth_identity" \in e.writes => c = "redeem"
    /\ "identity_enrollment_grant" \in e.writes =>
          c = "redeem" \/ Tells(e, "identity_enrollment_grant", {})
    /\ "audit_event" \in e.writes => \E k \in Kinds : Tells(e, k, {})
Announced(c, e) ==
    /\ Appends(e) /\ e.writes \subseteq AllTables
    /\ PassesAnnounced(c, e) /\ RowsAnnounced(c, e) /\ PeopleAnnounced(c, e)

(* Whatever has fields has none.                                           *)
LEMMA TellsAtAll ==
    ASSUME NEW e, NEW k, NEW f, Tells(e, k, f)
    PROVE  Tells(e, k, {})
BY DEF Tells

(* An effect that writes only the tables of passes is announced if it tells *)
(* of the pass what its tables ask for.                                    *)
LEMMA PassesAlone ==
    ASSUME NEW c, NEW e, NEW w, NEW fs, Informs(e, w, fs), "studentId" \in fs,
           w \subseteq RequestTables \cup DecisionTables,
           PassesAnnounced(c, e)
    PROVE  Announced(c, e)
<1>1. /\ Appends(e) /\ e.writes \subseteq RequestTables \cup DecisionTables
      /\ Tells(e, "pass", {"studentId"})
  BY DEF Informs
<1>2. Tells(e, "pass", {}) /\ "pass" \in Kinds
  BY <1>1, TellsAtAll DEF Kinds
<1>3. RowsAnnounced(c, e)
  BY <1>1 DEF RowsAnnounced, RequestTables, DecisionTables, ScheduleTables
<1>4. PeopleAnnounced(c, e)
  BY <1>1, <1>2 DEF PeopleAnnounced, RequestTables, DecisionTables
<1> QED
  BY <1>1, <1>3, <1>4 DEF Announced, AllTables

(* What a request tells.                                                   *)
LEMMA RequestsTell == \A e \in EffectsOf["request"] : Announced("request", e)
<1> SUFFICES ASSUME NEW e \in NewPass PROVE Announced("request", e)
  BY DEF EffectsOf
<1>1. CASE Informs(e, RequestTables, Where)
  <2>1. PassesAnnounced("request", e)
    BY <1>1 DEF PassesAnnounced, Informs, Where, PassCommands, RequestTables
  <2> QED
    BY <1>1, <2>1, PassesAlone DEF Where
<1>2. CASE Informs(e, RequestTables \cup {"pass_approval"}, AllFields)
  <2>1. PassesAnnounced("request", e)
    BY <1>2 DEF PassesAnnounced, Informs, AllFields, PassCommands, RequestTables
  <2>2. RequestTables \cup {"pass_approval"} \subseteq RequestTables \cup DecisionTables
    BY DEF DecisionTables
  <2> QED
    BY <1>2, <2>1, <2>2, PassesAlone DEF AllFields
<1> QED
  BY <1>1, <1>2, NewPassTells

(* What resolving an approval tells.                                       *)
LEMMA ApprovalsTell == \A e \in EffectsOf["resolve_approval"] : Announced("resolve_approval", e)
<1> SUFFICES ASSUME NEW e \in Reevaluated(ApprovalResolved) PROVE Announced("resolve_approval", e)
  BY DEF EffectsOf
<1>1. Informs(ApprovalResolved, DecisionTables, Whose)
  <2>1. /\ {"pass", "waiting", "pass_event", "pass_approval", "audit_event"} \subseteq DecisionTables
        /\ Whose \subseteq Whose
    BY DEF DecisionTables
  <2> QED
    BY <2>1, Parts, InformMore
<1>2. CASE Informs(e, DecisionTables, Whose)
  <2>1. PassesAnnounced("resolve_approval", e)
    BY <1>2 DEF PassesAnnounced, Informs, Whose, PassCommands, DecisionTables, AllocationTables
  <2> QED
    BY <1>2, <2>1, PassesAlone DEF Whose
<1>3. CASE Informs(e, DecisionTables \cup AllocationTables, Whose \cup Where)
  <2>1. PassesAnnounced("resolve_approval", e)
    BY <1>3 DEF PassesAnnounced, Informs, Whose, Where, PassCommands
  <2>2. DecisionTables \cup AllocationTables \subseteq RequestTables \cup DecisionTables
    BY DEF RequestTables, AllocationTables
  <2> QED
    BY <1>3, <2>1, <2>2, PassesAlone DEF Whose
<1> QED
  BY <1>1, <1>2, <1>3, ReevaluatedTells DEF Whose

(* What a step of an override tells.                                       *)
LEMMA OverridesTell == \A e \in EffectsOf["override"] : Announced("override", e)
<1> SUFFICES ASSUME NEW e \in Reevaluated(OverrideChanged) PROVE Announced("override", e)
  BY DEF EffectsOf
<1>1. Informs(OverrideChanged, DecisionTables, Whom)
  <2>1. /\ {"pass", "waiting", "pass_event", "pass_override", "audit_event"} \subseteq DecisionTables
        /\ Whom \subseteq Whom
    BY DEF DecisionTables
  <2> QED
    BY <2>1, Parts, InformMore
<1>2. CASE Informs(e, DecisionTables, Whom)
  <2>1. PassesAnnounced("override", e)
    BY <1>2 DEF PassesAnnounced, Informs, Whom, PassCommands, DecisionTables, AllocationTables
  <2> QED
    BY <1>2, <2>1, PassesAlone DEF Whom
<1>3. CASE Informs(e, DecisionTables \cup AllocationTables, Whom \cup Where)
  <2>1. PassesAnnounced("override", e)
    BY <1>3 DEF PassesAnnounced, Informs, Whom, Where, PassCommands
  <2>2. DecisionTables \cup AllocationTables \subseteq RequestTables \cup DecisionTables
    BY DEF RequestTables, AllocationTables
  <2> QED
    BY <1>3, <2>1, <2>2, PassesAlone DEF Whom
<1> QED
  BY <1>1, <1>2, <1>3, ReevaluatedTells DEF Whom

(* Moves, cancellations and the reconciler tell where the pass goes.        *)
LEMMA Located ==
    ASSUME NEW c \in {"cancel", "reconcile"}, NEW e,
           Informs(e, DecisionTables \cup AllocationTables, Where)
    PROVE  Announced(c, e)
<1>1. PassesAnnounced(c, e)
  BY DEF PassesAnnounced, Informs, Where, PassCommands
<1>2. DecisionTables \cup AllocationTables \subseteq RequestTables \cup DecisionTables
  BY DEF RequestTables, AllocationTables
<1> QED
  BY <1>1, <1>2, PassesAlone DEF Where

(* What a step on the way tells.                                           *)
LEMMA MovesTell == \A e \in EffectsOf["move"] : Announced("move", e)
<1> SUFFICES ASSUME NEW x \in {Moved, Offered} PROVE Announced("move", Then(x, Audited))
  BY DEF EffectsOf
<1> DEFINE e == Then(x, Audited)
           w == (FlowRow \cup {"destination_reservation"}) \cup {"audit_event"}
<1>1. Informs(x, FlowRow \cup {"destination_reservation"}, Where)
  <2>1. /\ FlowRow \subseteq FlowRow \cup {"destination_reservation"} /\ Where \subseteq Where
        /\ FlowRow \cup {"destination_reservation"} \subseteq FlowRow \cup {"destination_reservation"}
    OBVIOUS
  <2> QED
    BY <2>1, Parts, InformMore
<1>2. Informs(e, w, Where \cup {})
  BY <1>1, Parts, InformTogether
<1> HIDE DEF e
<1>3. PassesAnnounced("move", e)
  BY <1>2 DEF PassesAnnounced, Informs, Where, PassCommands, FlowRow
<1>4. w \subseteq RequestTables \cup DecisionTables /\ "studentId" \in Where \cup {}
  BY DEF RequestTables, FlowRow, Where
<1>5. Announced("move", e)
  BY <1>2, <1>3, <1>4, PassesAlone
<1> QED
  BY <1>5 DEF e

(* What the end of a pass that was under way tells.                        *)
LEMMA EndsInFlowTell ==
    ASSUME NEW e \in EndedInFlow
    PROVE  Informs(e, DecisionTables \cup AllocationTables, Where)
<1>1. PICK w \in {{"destination_reservation"}, {"queue_entry"}} : e = Ended(w)
  BY DEF EndedInFlow
<1>2. Informs(e, FlowRow \cup w \cup {"waiting", "pass_approval", "pass_override"}, Where)
  BY <1>1, EndedParts
<1>3. /\ FlowRow \cup w \cup {"waiting", "pass_approval", "pass_override"}
            \subseteq DecisionTables \cup AllocationTables
      /\ Where \subseteq Where
  BY <1>1 DEF FlowRow, DecisionTables, AllocationTables
<1> QED
  BY <1>2, <1>3, InformMore

(* What a cancellation tells.                                              *)
LEMMA CancellationsTell == \A e \in EffectsOf["cancel"] : Announced("cancel", e)
<1> SUFFICES ASSUME NEW x \in {Then(Refused, Withdrawn)} \cup EndedInFlow
             PROVE  Announced("cancel", Then(x, Audited))
  BY DEF EffectsOf
<1>1. Informs(Then(Refused, Withdrawn),
              {"pass", "pass_event"} \cup {"waiting", "pass_approval", "pass_override"}, Where \cup {})
  BY Parts, InformTogether
<1>2. Informs(x, DecisionTables \cup AllocationTables, Where)
  <2>1. /\ {"pass", "pass_event"} \cup {"waiting", "pass_approval", "pass_override"}
              \subseteq DecisionTables \cup AllocationTables
        /\ Where \subseteq Where \cup {}
    BY DEF DecisionTables, AllocationTables
  <2> QED
    BY <1>1, <2>1, InformMore, EndsInFlowTell
<1>3. Informs(Then(x, Audited), (DecisionTables \cup AllocationTables) \cup {"audit_event"}, Where \cup {})
  BY <1>2, Parts, InformTogether
<1>4. /\ (DecisionTables \cup AllocationTables) \cup {"audit_event"} \subseteq DecisionTables \cup AllocationTables
      /\ Where \subseteq Where \cup {}
  BY DEF DecisionTables
<1> QED
  BY <1>3, <1>4, InformMore, Located

(* What a round of the reconciler tells.                                   *)
LEMMA ReconcilerTells == \A e \in EffectsOf["reconcile"] : Announced("reconcile", e)
<1> SUFFICES ASSUME NEW e \in EndedInFlow \cup {Requeued} \cup Promoted PROVE Announced("reconcile", e)
  BY DEF EffectsOf
<1> DEFINE every == DecisionTables \cup AllocationTables
<1>1. CASE e \in EndedInFlow
  BY <1>1, EndsInFlowTell, Located
<1>2. CASE e = Requeued
  <2>1. Informs(Effect({"destination_reservation"}, <<>>), {"destination_reservation"}, {})
    BY Silent
  <2>2. Informs(Requeued, (FlowRow \cup {"queue_entry"}) \cup {"destination_reservation"}, Where \cup {})
    BY <2>1, Parts, InformTogether DEF Requeued
  <2>3. /\ (FlowRow \cup {"queue_entry"}) \cup {"destination_reservation"} \subseteq every
        /\ Where \subseteq Where \cup {}
    BY DEF FlowRow, AllocationTables, DecisionTables
  <2>4. Informs(e, every, Where)
    BY <1>2, <2>2, <2>3, InformMore
  <2> QED
    BY <2>4, Located
<1>3. CASE e \in Promoted
  <2> DEFINE x == Effect({"policy_evaluation", "pass_approval", "queue_entry"}, Pass({}))
  <2>1. PICK y \in {Offered, Moved, Then(AsksTeacher, Moved), Ended({})} : e = Then(x, y)
    BY <1>3 DEF Promoted
  <2>2. {} \in SUBSET Fields
    OBVIOUS
  <2>3. Informs(x, {"policy_evaluation", "pass_approval", "queue_entry"}, {"studentId"} \cup {})
    BY <2>2, PassRowInforms
  <2>4. Informs(Then(AsksTeacher, Moved), {"pass_approval"} \cup FlowRow, Whose \cup Where)
    BY Parts, InformTogether
  <2>5. Informs(Ended({}), FlowRow \cup {} \cup {"waiting", "pass_approval", "pass_override"}, Where)
    BY EndedParts
  <2> HIDE DEF x
  <2>6. Informs(y, every, Where)
    <3>1. /\ Where \subseteq Where /\ Where \subseteq Whose \cup Where
          /\ FlowRow \subseteq every /\ {"pass_approval"} \cup FlowRow \subseteq every
          /\ FlowRow \cup {"destination_reservation"} \subseteq every
          /\ FlowRow \cup {} \cup {"waiting", "pass_approval", "pass_override"} \subseteq every
      BY DEF FlowRow, DecisionTables, AllocationTables
    <3> HIDE DEF every
    <3> QED
      BY <2>1, <2>4, <2>5, <3>1, Parts, InformMore
  <2>7. Informs(e, {"policy_evaluation", "pass_approval", "queue_entry"} \cup every,
                ({"studentId"} \cup {}) \cup Where)
    BY <2>1, <2>3, <2>6, InformTogether
  <2>8. /\ {"policy_evaluation", "pass_approval", "queue_entry"} \cup every \subseteq every
        /\ Where \subseteq ({"studentId"} \cup {}) \cup Where
    BY DEF DecisionTables, AllocationTables
  <2>9. Informs(e, every, Where)
    BY <2>7, <2>8, InformMore
  <2> QED
    BY <2>9, Located
<1> QED
  BY <1>1, <1>2, <1>3

(* What writes no rows of passes.                                          *)
LEMMA NoPassesAnnounced ==
    ASSUME NEW c, NEW e,
           \A t \in e.writes : t \notin (RequestTables \cup DecisionTables) \ {"audit_event"}
    PROVE  PassesAnnounced(c, e)
BY DEF PassesAnnounced, RequestTables, DecisionTables, AllocationTables

(* What the row of a booking tells.                                        *)
LEMMA BookingTells ==
    /\ Appends(Booked) /\ Booked.writes = {"scheduled_authorization", "audit_event"}
    /\ Tells(Booked, "scheduled_authorization", {})
<1>1. "scheduled_authorization" \in Kinds
  BY DEF Kinds
<1> QED
  BY <1>1, EventRow DEF Booked

(* What a change of a booking tells.                                       *)
LEMMA BookingsTell == \A e \in EffectsOf["book"] : Announced("book", e)
<1>1. Announced("book", Booked)
  <2>1. PassesAnnounced("book", Booked)
    BY BookingTells, NoPassesAnnounced DEF RequestTables, DecisionTables
  <2>2. RowsAnnounced("book", Booked)
    BY BookingTells DEF RowsAnnounced, ScheduleTables
  <2>3. PeopleAnnounced("book", Booked)
    BY BookingTells DEF PeopleAnnounced, Kinds
  <2>4. Booked.writes \subseteq AllTables
    BY BookingTells DEF AllTables, RequestTables
  <2> QED
    BY <2>1, <2>2, <2>3, <2>4, BookingTells DEF Announced
<1> QED
  BY <1>1 DEF EffectsOf

(* What starting a booked pass tells.                                      *)
LEMMA StartsTell == \A e \in EffectsOf["start_booking"] : Announced("start_booking", e)
<1> SUFFICES ASSUME NEW x \in NewPass PROVE Announced("start_booking", Then(x, Booked))
  BY DEF EffectsOf
<1> DEFINE e == Then(x, Booked)
<1>1. PassesAnnounced("request", x) /\ Appends(x)
  BY RequestsTell DEF Announced, EffectsOf
<1>2. x.writes \subseteq RequestTables \cup {"pass_approval"} /\ Tells(x, "pass", {"studentId"})
  BY NewPassTells DEF Informs, Where, AllFields
<1>3. /\ Appends(e) /\ e.writes = x.writes \cup {"scheduled_authorization", "audit_event"}
      /\ \A k : \A f : Tells(x, k, f) => Tells(e, k, f)
      /\ Tells(e, "scheduled_authorization", {})
  BY <1>1, BookingTells, Together
<1> HIDE DEF e
<1>4. PassesAnnounced("start_booking", e)
  <2>1. /\ (\E t \in e.writes : t \in AllocationTables) => Tells(x, "pass", {"destinationId"})
        /\ "pass_approval" \in e.writes => Tells(x, "pass", {"requiredSectionId"})
    BY <1>1, <1>3 DEF PassesAnnounced, AllocationTables
  <2>2. "waiting" \notin e.writes /\ "pass_override" \notin e.writes
    BY <1>2, <1>3 DEF RequestTables
  <2> QED
    BY <1>2, <1>3, <2>1, <2>2 DEF PassesAnnounced, PassCommands
<1>5. RowsAnnounced("start_booking", e)
  BY <1>2, <1>3 DEF RowsAnnounced, ScheduleTables, RequestTables
<1>6. PeopleAnnounced("start_booking", e)
  BY <1>2, <1>3 DEF PeopleAnnounced, RequestTables, Kinds
<1>7. e.writes \subseteq AllTables
  BY <1>2, <1>3 DEF AllTables, DecisionTables
<1>8. Announced("start_booking", e)
  BY <1>3, <1>4, <1>5, <1>6, <1>7 DEF Announced
<1> QED
  BY <1>8 DEF e

(* Configuration and grants.                                               *)
LEMMA EditsTell ==
    /\ \A e \in EffectsOf["edit_destination"] : Announced("edit_destination", e)
    /\ \A e \in EffectsOf["edit_category"] : Announced("edit_category", e)
    /\ \A e \in EffectsOf["edit_location"] : Announced("edit_location", e)
    /\ \A e \in EffectsOf["edit_policy"] : Announced("edit_policy", e)
    /\ \A e \in EffectsOf["edit_schedule"] : Announced("edit_schedule", e)
<1>1. ASSUME NEW t, NEW kind \in Kinds
      PROVE  LET e == Effect({t, "audit_event"}, Event(kind)) IN
             Appends(e) /\ e.writes = {t, "audit_event"} /\ Tells(e, kind, {})
  BY EventRow
<1>2. ASSUME NEW c, NEW t, NEW kind \in Kinds, NEW e, e = Effect({t, "audit_event"}, Event(kind)),
             \/ c = "edit_schedule" /\ t \in ScheduleTables
             \/ c = "edit_destination" /\ t = "destination" /\ kind = "destination"
             \/ c = "edit_category" /\ t = "destination_category"
             \/ c = "edit_location" /\ t = "location" /\ kind = "location"
             \/ c = "edit_policy" /\ t = "policy_rule" /\ kind = "policy_rule"
      PROVE  Announced(c, e)
  <2>1. Appends(e) /\ e.writes = {t, "audit_event"} /\ Tells(e, kind, {})
    BY <1>1, <1>2
  <2>2. PassesAnnounced(c, e)
    BY <1>2, <2>1, NoPassesAnnounced DEF RequestTables, DecisionTables, ScheduleTables
  <2>3. RowsAnnounced(c, e)
    BY <1>2, <2>1 DEF RowsAnnounced, ScheduleTables
  <2>4. PeopleAnnounced(c, e)
    BY <1>2, <2>1 DEF PeopleAnnounced, ScheduleTables
  <2>5. e.writes \subseteq AllTables
    BY <1>2, <2>1 DEF AllTables, RequestTables, ScheduleTables
  <2> QED
    BY <2>1, <2>2, <2>3, <2>4, <2>5 DEF Announced
<1>3. {"destination", "destination_category", "location", "school_schedule", "policy_rule"} \subseteq Kinds
  BY DEF Kinds
<1>4. /\ EffectsOf["edit_destination"] = Wrote({"destination"}, "destination")
      /\ EffectsOf["edit_category"] = Wrote({"destination_category"}, "destination_category")
      /\ EffectsOf["edit_location"] = Wrote({"location"}, "location")
      /\ EffectsOf["edit_policy"] = Wrote({"policy_rule"}, "policy_rule")
      /\ EffectsOf["edit_schedule"] = Wrote(ScheduleTables, "school_schedule")
  BY DEF EffectsOf, ScheduleTables
<1>5. ASSUME NEW c, NEW tables, NEW kind \in Kinds, NEW e \in Wrote(tables, kind),
             \A t \in tables :
                \/ c = "edit_schedule" /\ t \in ScheduleTables
                \/ c = "edit_destination" /\ t = "destination" /\ kind = "destination"
                \/ c = "edit_category" /\ t = "destination_category"
                \/ c = "edit_location" /\ t = "location" /\ kind = "location"
                \/ c = "edit_policy" /\ t = "policy_rule" /\ kind = "policy_rule"
      PROVE  Announced(c, e)
  <2>1. PICK t \in tables : e = Effect({t, "audit_event"}, Event(kind))
    BY <1>5 DEF Wrote
  <2> QED
    BY <1>2, <1>5, <2>1
<1>6. \A e \in EffectsOf["edit_destination"] : Announced("edit_destination", e)
  BY <1>3, <1>4, <1>5
<1>7. \A e \in EffectsOf["edit_category"] : Announced("edit_category", e)
  BY <1>3, <1>4, <1>5
<1>8. \A e \in EffectsOf["edit_location"] : Announced("edit_location", e)
  BY <1>3, <1>4, <1>5
<1>9. \A e \in EffectsOf["edit_policy"] : Announced("edit_policy", e)
  BY <1>3, <1>4, <1>5
<1>10. \A e \in EffectsOf["edit_schedule"] : Announced("edit_schedule", e)
  BY <1>3, <1>4, <1>5
<1> QED
  BY <1>6, <1>7, <1>8, <1>9, <1>10

(* A grant or an invitation may give its person an account.                 *)
LEMMA PeopleTell ==
    /\ \A e \in EffectsOf["grant"] : Announced("grant", e)
    /\ \A e \in EffectsOf["invite"] : Announced("invite", e)
    /\ \A e \in EffectsOf["redeem"] : Announced("redeem", e)
<1>1. ASSUME NEW c, NEW kind \in Kinds, NEW e, Appends(e), Tells(e, kind, {}),
             e.writes \subseteq {kind, "audit_event", "account"},
             \/ c = "grant" /\ kind = "authorization_grant"
             \/ c = "invite" /\ kind = "identity_enrollment_grant"
      PROVE  Announced(c, e)
  <2>1. PassesAnnounced(c, e)
    BY <1>1, NoPassesAnnounced DEF RequestTables, DecisionTables
  <2>2. RowsAnnounced(c, e)
    BY <1>1 DEF RowsAnnounced, ScheduleTables
  <2>3. PeopleAnnounced(c, e)
    BY <1>1 DEF PeopleAnnounced
  <2>4. e.writes \subseteq AllTables
    BY <1>1 DEF AllTables, RequestTables
  <2> QED
    BY <1>1, <2>1, <2>2, <2>3, <2>4 DEF Announced
<1>2. ASSUME NEW kind \in Kinds, NEW e \in WithAccount(Wrote({kind}, kind))
      PROVE  Appends(e) /\ Tells(e, kind, {}) /\ e.writes \subseteq {kind, "audit_event", "account"}
  <2> DEFINE x == Effect({kind, "audit_event"}, Event(kind))
             y == Effect({"account"}, <<>>)
  <2>1. Appends(x) /\ x.writes = {kind, "audit_event"} /\ Tells(x, kind, {})
    BY EventRow
  <2>2. Appends(y) /\ y.writes = {"account"}
    BY NoRow
  <2>3. e = x \/ e = Then(x, y)
    BY <1>2 DEF WithAccount, Wrote
  <2> HIDE DEF x, y
  <2>4. Appends(Then(x, y)) /\ Tells(Then(x, y), kind, {})
        /\ Then(x, y).writes = {kind, "audit_event"} \cup {"account"}
    BY <2>1, <2>2, Together
  <2> QED
    BY <2>1, <2>3, <2>4
<1>3. "authorization_grant" \in Kinds /\ "identity_enrollment_grant" \in Kinds
  BY DEF Kinds
<1>4. /\ EffectsOf["grant"] = WithAccount(Wrote({"authorization_grant"}, "authorization_grant"))
      /\ EffectsOf["invite"] =
            WithAccount(Wrote({"identity_enrollment_grant"}, "identity_enrollment_grant"))
      /\ EffectsOf["redeem"] = {Redeemed}
  BY DEF EffectsOf
<1>5. Announced("redeem", Redeemed)
  <2>1. Appends(Redeemed) /\ Redeemed.writes = {"identity_enrollment_grant", "auth_identity"}
    BY NoRow DEF Redeemed
  <2>2. PassesAnnounced("redeem", Redeemed)
    BY <2>1, NoPassesAnnounced DEF RequestTables, DecisionTables
  <2>3. RowsAnnounced("redeem", Redeemed)
    BY <2>1 DEF RowsAnnounced, ScheduleTables
  <2>4. PeopleAnnounced("redeem", Redeemed)
    BY <2>1 DEF PeopleAnnounced
  <2>5. Redeemed.writes \subseteq AllTables
    BY <2>1 DEF AllTables
  <2> QED
    BY <2>1, <2>2, <2>3, <2>4, <2>5 DEF Announced
<1>6. \A e \in EffectsOf["grant"] : Announced("grant", e)
  BY <1>1, <1>2, <1>3, <1>4
<1>7. \A e \in EffectsOf["invite"] : Announced("invite", e)
  BY <1>1, <1>2, <1>3, <1>4
<1> QED
  BY <1>4, <1>5, <1>6, <1>7

(* What every command tells.                                               *)
LEMMA EverythingIsAnnounced == \A c \in Commands : \A e \in EffectsOf[c] : Announced(c, e)
<1>1. Commands = {"request", "resolve_approval", "override", "move", "cancel", "reconcile", "book",
                  "start_booking", "edit_destination", "edit_category", "edit_location",
                  "edit_schedule", "edit_policy", "grant", "invite", "redeem"}
  BY DEF Commands, EffectsOf
<1> QED
  BY <1>1, RequestsTell, ApprovalsTell, OverridesTell, MovesTell, CancellationsTell,
     ReconcilerTells,
     BookingsTell, StartsTell, EditsTell, PeopleTell

---------------------------------------------------------------------------
(* What is on a screen.                                                    *)

Asks(s, key, query) == s.key = key /\ s.reads = query.reads /\ s.by \in query.needs
AsksOwn(s) ==
    \/ Asks(s, "active_self_pass", ActiveSelfPass)
    \/ Asks(s, "student_catalog", StudentCatalog)
    \/ Asks(s, "self_scheduled", OwnBookings)
    \/ Asks(s, "queue_status", QueueStatus)
    \/ Asks(s, "pending_approvals", PendingApprovals)
    \/ Asks(s, "pending_overrides", PendingOverrides)
    \/ Asks(s, "section_students", SectionStudents)
    \/ Asks(s, "section_live", SectionLive)
    \/ Asks(s, "destinations", MemberDestinations)
    \/ Asks(s, "school_live", SchoolLive)
    \/ Asks(s, "station", Station)
    \/ Asks(s, "destinations", Destinations)
    \/ Asks(s, "locations", Locations)
AsksMore(s) ==
    \/ Asks(s, "destination_categories", Categories)
    \/ Asks(s, "destination", OneDestination)
    \/ Asks(s, "grants", Grants)
    \/ Asks(s, "people", People)
    \/ Asks(s, "schedule_blocks", ScheduleBlocks)
    \/ Asks(s, "schedule_templates", Templates)
    \/ Asks(s, "schedule_calendar", Calendar)
    \/ Asks(s, "policies", Policies)
    \/ Asks(s, "policy", OnePolicy)
    \/ Asks(s, "scheduled_admin", Bookings)
    \/ Asks(s, "enrollment", Invitation)
    \/ Asks(s, "audit", AuditTrail)

(* A screen shows one of these queries.                                     *)
LEMMA ScreensAre == \A s \in Shown : AsksOwn(s) \/ AsksMore(s)
<1> SUFFICES ASSUME NEW s \in Shown PROVE AsksOwn(s) \/ AsksMore(s)
  OBVIOUS
<1>1. PICK p \in Pages : \E k \in DOMAIN p : \E n \in p[k].needs :
         s = [key |-> k, by |-> n, reads |-> p[k].reads]
  BY DEF Shown
<1>2. PICK k \in DOMAIN p : \E n \in p[k].needs : s = [key |-> k, by |-> n, reads |-> p[k].reads]
  BY <1>1
<1>3. Asks(s, k, p[k])
  BY <1>2 DEF Asks
<1>4. CASE p = StudentPage
  <2>1. \/ k = "active_self_pass" /\ p[k] = ActiveSelfPass
        \/ k = "student_catalog" /\ p[k] = StudentCatalog
        \/ k = "self_scheduled" /\ p[k] = OwnBookings
        \/ k = "queue_status" /\ p[k] = QueueStatus
    BY <1>2, <1>4 DEF StudentPage
  <2> QED
    BY <1>3, <2>1 DEF AsksOwn, AsksMore
<1>5. CASE p = RequestsPage
  <2>1. \/ k = "pending_approvals" /\ p[k] = PendingApprovals
        \/ k = "pending_overrides" /\ p[k] = PendingOverrides
    BY <1>2, <1>5 DEF RequestsPage
  <2> QED
    BY <1>3, <2>1 DEF AsksOwn, AsksMore
<1>6. CASE p = ClassPage
  <2>1. \/ k = "section_students" /\ p[k] = SectionStudents
        \/ k = "section_live" /\ p[k] = SectionLive
        \/ k = "destinations" /\ p[k] = MemberDestinations
    BY <1>2, <1>6 DEF ClassPage
  <2> QED
    BY <1>3, <2>1 DEF AsksOwn, AsksMore
<1>7. CASE p = LiveMovementPage
  <2>1. \/ k = "school_live" /\ p[k] = SchoolLive
    BY <1>2, <1>7 DEF LiveMovementPage
  <2> QED
    BY <1>3, <2>1 DEF AsksOwn, AsksMore
<1>8. CASE p = LiveMovementForm
  <2>1. \/ k = "destinations" /\ p[k] = MemberDestinations
    BY <1>2, <1>8 DEF LiveMovementForm
  <2> QED
    BY <1>3, <2>1 DEF AsksOwn, AsksMore
<1>9. CASE p = StationPage
  <2>1. \/ k = "station" /\ p[k] = Station
    BY <1>2, <1>9 DEF StationPage
  <2> QED
    BY <1>3, <2>1 DEF AsksOwn, AsksMore
<1>10. CASE p = DestinationsPage
  <2>1. \/ k = "destinations" /\ p[k] = Destinations
        \/ k = "locations" /\ p[k] = Locations
        \/ k = "destination_categories" /\ p[k] = Categories
    BY <1>2, <1>10 DEF DestinationsPage
  <2> QED
    BY <1>3, <2>1 DEF AsksOwn, AsksMore
<1>11. CASE p = DestinationDetailPage
  <2>1. \/ k = "destination" /\ p[k] = OneDestination
        \/ k = "locations" /\ p[k] = Locations
        \/ k = "destination_categories" /\ p[k] = Categories
    BY <1>2, <1>11 DEF DestinationDetailPage
  <2> QED
    BY <1>3, <2>1 DEF AsksOwn, AsksMore
<1>12. CASE p = AssignedStaff
  <2>1. \/ k = "grants" /\ p[k] = Grants
        \/ k = "people" /\ p[k] = People
    BY <1>2, <1>12 DEF AssignedStaff
  <2> QED
    BY <1>3, <2>1 DEF AsksOwn, AsksMore
<1>13. CASE p = CategoriesDialog
  <2>1. \/ k = "destination_categories" /\ p[k] = Categories
        \/ k = "destinations" /\ p[k] = Destinations
    BY <1>2, <1>13 DEF CategoriesDialog
  <2> QED
    BY <1>3, <2>1 DEF AsksOwn, AsksMore
<1>14. CASE p = LocationsPage
  <2>1. \/ k = "locations" /\ p[k] = Locations
    BY <1>2, <1>14 DEF LocationsPage
  <2> QED
    BY <1>3, <2>1 DEF AsksOwn, AsksMore
<1>15. CASE p = SchedulesPage
  <2>1. \/ k = "schedule_blocks" /\ p[k] = ScheduleBlocks
        \/ k = "schedule_templates" /\ p[k] = Templates
        \/ k = "schedule_calendar" /\ p[k] = Calendar
    BY <1>2, <1>15 DEF SchedulesPage
  <2> QED
    BY <1>3, <2>1 DEF AsksOwn, AsksMore
<1>16. CASE p = PoliciesPage
  <2>1. \/ k = "policies" /\ p[k] = Policies
        \/ k = "destinations" /\ p[k] = Destinations
    BY <1>2, <1>16 DEF PoliciesPage
  <2> QED
    BY <1>3, <2>1 DEF AsksOwn, AsksMore
<1>17. CASE p = PolicyDetailPage
  <2>1. \/ k = "policy" /\ p[k] = OnePolicy
        \/ k = "destinations" /\ p[k] = Destinations
    BY <1>2, <1>17 DEF PolicyDetailPage
  <2> QED
    BY <1>3, <2>1 DEF AsksOwn, AsksMore
<1>18. CASE p = StaffAccessPage
  <2>1. \/ k = "grants" /\ p[k] = Grants
        \/ k = "people" /\ p[k] = People
        \/ k = "destinations" /\ p[k] = Destinations
    BY <1>2, <1>18 DEF StaffAccessPage
  <2> QED
    BY <1>3, <2>1 DEF AsksOwn, AsksMore
<1>19. CASE p = ScheduledPassesPage
  <2>1. \/ k = "scheduled_admin" /\ p[k] = Bookings
        \/ k = "destinations" /\ p[k] = Destinations
        \/ k = "locations" /\ p[k] = Locations
    BY <1>2, <1>19 DEF ScheduledPassesPage
  <2> QED
    BY <1>3, <2>1 DEF AsksOwn, AsksMore
<1>20. CASE p = PeoplePage
  <2>1. \/ k = "people" /\ p[k] = People
        \/ k = "enrollment" /\ p[k] = Invitation
    BY <1>2, <1>20 DEF PeoplePage
  <2> QED
    BY <1>3, <2>1 DEF AsksOwn, AsksMore
<1>21. CASE p = AuditPage
  <2>1. \/ k = "audit" /\ p[k] = AuditTrail
    BY <1>2, <1>21 DEF AuditPage
  <2> QED
    BY <1>3, <2>1 DEF AsksOwn, AsksMore
<1> QED
  BY <1>1, <1>4, <1>5, <1>6, <1>7, <1>8, <1>9, <1>10, <1>11, <1>12, <1>13, <1>14, <1>15,
     <1>16, <1>17, <1>18, <1>19, <1>20, <1>21 DEF Pages

---------------------------------------------------------------------------
(* Who hears of it.                                                        *)

Topics ==
    {"audit", "self-pass", "school-live", "section-live", "station", "requests", "self-scheduled",
     "scheduled-passes", "destinations", "organization-context", "schedule", "policies",
     "staff-access", "people", "enrollment", "locations"}

(* The topics of every row are topics.                                     *)
LEMMA TopicsAre == \A ev : \A holds : TopicsFor(ev, holds) \subseteq Topics
BY DEF TopicsFor, Topics

(* The topics of each kind of row, by what the subscriber holds.            *)
LEMMA TopicsOfRows ==
    ASSUME NEW ev, NEW holds
    PROVE  /\ "audit.view" \in holds => "audit" \in TopicsFor(ev, holds)
           /\ ev.kind = "pass" =>
                 /\ "self" \in holds => "self-pass" \in TopicsFor(ev, holds)
                 /\ "pass.view.school_live" \in holds => "school-live" \in TopicsFor(ev, holds)
                 /\ "teaches" \in holds => "section-live" \in TopicsFor(ev, holds)
                 /\ "destinationId" \in ev.fields /\ "destination.station.manage" \in holds =>
                       "station" \in TopicsFor(ev, holds)
                 /\ "requiredSectionId" \in ev.fields /\ "teaches" \in holds =>
                       "requests" \in TopicsFor(ev, holds)
           /\ ev.kind = "scheduled_authorization" =>
                 /\ "self" \in holds => "self-scheduled" \in TopicsFor(ev, holds)
                 /\ "scheduled_authorization.manage" \in holds =>
                       "scheduled-passes" \in TopicsFor(ev, holds)
           /\ ev.kind = "destination" => "destinations" \in TopicsFor(ev, holds)
           /\ ev.kind = "policy_rule" /\ "policy.manage" \in holds =>
                 "policies" \in TopicsFor(ev, holds)
           /\ ev.kind = "authorization_grant" =>
                 /\ "organization-context" \in TopicsFor(ev, holds)
                 /\ "authorization.manage" \in holds => "staff-access" \in TopicsFor(ev, holds)
           /\ ev.kind = "identity_enrollment_grant" =>
                 /\ "people.view" \in holds => "people" \in TopicsFor(ev, holds)
                 /\ "identity.enroll" \in holds => "enrollment" \in TopicsFor(ev, holds)
           /\ ev.kind = "location" /\ "destination.manage" \in holds =>
                 "locations" \in TopicsFor(ev, holds)
BY DEF TopicsFor

(* The queries of each topic.                                              *)
LEMMA QueriesOfTopics ==
    /\ QueriesOf("self-pass") = {"active_self_pass"}
    /\ QueriesOf("self-scheduled") = {"self_scheduled"}
    /\ QueriesOf("organization-context") = {"organization_context"}
    /\ QueriesOf("requests") = {"pending_approvals", "pending_overrides"}
    /\ QueriesOf("school-live") = {"school_live"}
    /\ QueriesOf("section-live") = {"section_live"}
    /\ QueriesOf("staff-access") = {"grants"}
    /\ QueriesOf("scheduled-passes") = {"scheduled_admin"}
    /\ \A t \in {"audit", "station", "destinations", "policies", "people", "enrollment", "locations"} :
          QueriesOf(t) = {t}
BY DEF QueriesOf

(* A query is read again when this row is announced to who holds this.      *)
Reaches(ev, holds, key) == \E t \in TopicsFor(ev, holds) : key \in QueriesOf(t)
Told(s, e) == \E i \in DOMAIN e.tells : Reaches(e.tells[i], {s.by}, s.key)

(* A row whose topic leads to what is shown tells its reader.              *)
LEMMA Heard ==
    ASSUME NEW s, NEW e, NEW k, NEW f, NEW topic, Tells(e, k, f), s.key \in QueriesOf(topic),
           \A ev : ev.kind = k /\ f \subseteq ev.fields => topic \in TopicsFor(ev, {s.by})
    PROVE  Told(s, e)
BY DEF Told, Tells, Reaches

(* The known gaps, by command.                                             *)
LEMMA UntoldOnes ==
    ASSUME NEW c
    PROVE  /\ c \in {"override", "cancel", "reconcile"} => IsUntold(c, "pending_approvals")
           /\ c \in {"resolve_approval", "override", "cancel", "reconcile", "edit_schedule"} =>
                 IsUntold(c, "pending_overrides")
           /\ c = "edit_destination" => /\ IsUntold(c, "station") /\ IsUntold(c, "student_catalog")
                                        /\ IsUntold(c, "destination")
           /\ c \in {"edit_category", "edit_location"} => IsUntold(c, "student_catalog")
           /\ c \in PassCommands => IsUntold(c, "queue_status")
           /\ c = "edit_category" => IsUntold(c, "destination_categories")
           /\ c = "edit_policy" => IsUntold(c, "policy")
           /\ c = "edit_schedule" => /\ IsUntold(c, "schedule_blocks") /\ IsUntold(c, "schedule_templates")
                                     /\ IsUntold(c, "schedule_calendar")
           /\ c \in {"grant", "redeem"} => IsUntold(c, "people")
           /\ c = "redeem" => IsUntold(c, "enrollment")
BY DEF IsUntold, Untold, PassCommands

Covered(c, e, s) == (e.writes \cap s.reads # {} /\ ~ IsUntold(c, s.key)) => Told(s, e)

(* Whoever shows "active_self_pass" is told of what it reads, but for its gaps.*)
LEMMA ActiveSelfPassCovered ==
    ASSUME NEW c, NEW e, NEW s, Announced(c, e)
    PROVE  Asks(s, "active_self_pass", ActiveSelfPass) => Covered(c, e, s)
<1> SUFFICES ASSUME Asks(s, "active_self_pass", ActiveSelfPass), e.writes \cap s.reads # {},
                    ~ IsUntold(c, s.key)
             PROVE  Told(s, e)
  BY DEF Covered
<1>1. Tells(e, "pass", {"studentId"})
  BY UntoldOnes DEF Asks, ActiveSelfPass, PassRow, LatestEvaluation, MovementOfRow, Query,
     Announced, PassesAnnounced, RequestTables, DecisionTables
<1>2. \A ev : ev.kind = "pass" /\ {"studentId"} \subseteq ev.fields =>
        "self-pass" \in TopicsFor(ev, {s.by})
  BY TopicsOfRows DEF Asks, ActiveSelfPass, Query
<1>3. s.key \in QueriesOf("self-pass")
  BY QueriesOfTopics DEF Asks
<1> QED
  BY <1>1, <1>2, <1>3, Heard

(* Whoever writes what "student_catalog" reads is one of its gaps.         *)
LEMMA StudentCatalogCovered ==
    ASSUME NEW c, NEW e, NEW s, Announced(c, e)
    PROVE  Asks(s, "student_catalog", StudentCatalog) => Covered(c, e, s)
BY UntoldOnes DEF Covered, Asks, StudentCatalog, CategoryRows, DestinationRows,
   LocationRows, Query, Announced, RowsAnnounced

(* Whoever shows "self_scheduled" is told of what it reads, but for its gaps.*)
LEMMA OwnBookingsCovered ==
    ASSUME NEW c, NEW e, NEW s, Announced(c, e)
    PROVE  Asks(s, "self_scheduled", OwnBookings) => Covered(c, e, s)
<1> SUFFICES ASSUME Asks(s, "self_scheduled", OwnBookings), e.writes \cap s.reads # {},
                    ~ IsUntold(c, s.key)
             PROVE  Told(s, e)
  BY DEF Covered
<1>1. Tells(e, "scheduled_authorization", {})
  BY UntoldOnes DEF Asks, OwnBookings, BookingRows, Query, Announced, RowsAnnounced
<1>2. \A ev : ev.kind = "scheduled_authorization" /\ {} \subseteq ev.fields =>
        "self-scheduled" \in TopicsFor(ev, {s.by})
  BY TopicsOfRows DEF Asks, OwnBookings, Query
<1>3. s.key \in QueriesOf("self-scheduled")
  BY QueriesOfTopics DEF Asks
<1> QED
  BY <1>1, <1>2, <1>3, Heard

(* Whoever writes what "queue_status" reads is one of its gaps.            *)
LEMMA QueueStatusCovered ==
    ASSUME NEW c, NEW e, NEW s, Announced(c, e)
    PROVE  Asks(s, "queue_status", QueueStatus) => Covered(c, e, s)
BY UntoldOnes DEF Covered, Asks, QueueStatus, PassRow, QueuePosition, Query, Announced,
   PassesAnnounced, RequestTables, DecisionTables

(* Whoever shows "pending_approvals" is told of what it reads, but for its gaps.*)
LEMMA PendingApprovalsCovered ==
    ASSUME NEW c, NEW e, NEW s, Announced(c, e)
    PROVE  Asks(s, "pending_approvals", PendingApprovals) => Covered(c, e, s)
<1> SUFFICES ASSUME Asks(s, "pending_approvals", PendingApprovals), e.writes \cap s.reads # {},
                    ~ IsUntold(c, s.key)
             PROVE  Told(s, e)
  BY DEF Covered
<1>1. Tells(e, "pass", {"requiredSectionId"})
  BY UntoldOnes DEF Asks, PendingApprovals, PendingApprovalViews, Query, Announced,
     PassesAnnounced, RequestTables, DecisionTables
<1>2. \A ev : ev.kind = "pass" /\ {"requiredSectionId"} \subseteq ev.fields =>
        "requests" \in TopicsFor(ev, {s.by})
  BY TopicsOfRows DEF Asks, PendingApprovals, Query
<1>3. s.key \in QueriesOf("requests")
  BY QueriesOfTopics DEF Asks
<1> QED
  BY <1>1, <1>2, <1>3, Heard

(* Whoever writes what "pending_overrides" reads is one of its gaps.       *)
LEMMA PendingOverridesCovered ==
    ASSUME NEW c, NEW e, NEW s, Announced(c, e)
    PROVE  Asks(s, "pending_overrides", PendingOverrides) => Covered(c, e, s)
BY UntoldOnes DEF Covered, Asks, PendingOverrides, PendingOverrideViews, DayRows, Query,
   Announced, PassesAnnounced, RowsAnnounced, ScheduleTables

(* Whoever writes what "section_students" reads is one of its gaps.        *)
LEMMA SectionStudentsCovered ==
    ASSUME NEW c, NEW e, NEW s, Announced(c, e)
    PROVE  Asks(s, "section_students", SectionStudents) => Covered(c, e, s)
BY UntoldOnes DEF Covered, Asks, SectionStudents, SectionRoster, Query, Announced,
   AllTables, RequestTables, DecisionTables, ScheduleTables

(* Whoever shows "section_live" is told of what it reads, but for its gaps.*)
LEMMA SectionLiveCovered ==
    ASSUME NEW c, NEW e, NEW s, Announced(c, e)
    PROVE  Asks(s, "section_live", SectionLive) => Covered(c, e, s)
<1> SUFFICES ASSUME Asks(s, "section_live", SectionLive), e.writes \cap s.reads # {},
                    ~ IsUntold(c, s.key)
             PROVE  Told(s, e)
  BY DEF Covered
<1>1. Tells(e, "pass", {"studentId"})
  BY UntoldOnes DEF Asks, SectionLive, LivePassRows, Query, Announced, PassesAnnounced,
     RequestTables, DecisionTables
<1>2. \A ev : ev.kind = "pass" /\ {"studentId"} \subseteq ev.fields =>
        "section-live" \in TopicsFor(ev, {s.by})
  BY TopicsOfRows DEF Asks, SectionLive, Query
<1>3. s.key \in QueriesOf("section-live")
  BY QueriesOfTopics DEF Asks
<1> QED
  BY <1>1, <1>2, <1>3, Heard

(* Whoever shows "destinations" is told of what it reads, but for its gaps.*)
LEMMA MemberDestinationsCovered ==
    ASSUME NEW c, NEW e, NEW s, Announced(c, e)
    PROVE  Asks(s, "destinations", MemberDestinations) => Covered(c, e, s)
<1> SUFFICES ASSUME Asks(s, "destinations", MemberDestinations), e.writes \cap s.reads # {},
                    ~ IsUntold(c, s.key)
             PROVE  Told(s, e)
  BY DEF Covered
<1>1. Tells(e, "destination", {})
  BY UntoldOnes DEF Asks, MemberDestinations, DestinationRows, Query, Announced, RowsAnnounced
<1>2. \A ev : ev.kind = "destination" /\ {} \subseteq ev.fields =>
        "destinations" \in TopicsFor(ev, {s.by})
  BY TopicsOfRows DEF Asks, MemberDestinations, Query
<1>3. s.key \in QueriesOf("destinations")
  BY QueriesOfTopics DEF Asks
<1> QED
  BY <1>1, <1>2, <1>3, Heard

(* Whoever shows "school_live" is told of what it reads, but for its gaps. *)
LEMMA SchoolLiveCovered ==
    ASSUME NEW c, NEW e, NEW s, Announced(c, e)
    PROVE  Asks(s, "school_live", SchoolLive) => Covered(c, e, s)
<1> SUFFICES ASSUME Asks(s, "school_live", SchoolLive), e.writes \cap s.reads # {},
                    ~ IsUntold(c, s.key)
             PROVE  Told(s, e)
  BY DEF Covered
<1>1. Tells(e, "pass", {"studentId"})
  BY UntoldOnes DEF Asks, SchoolLive, LivePassRows, Query, Announced, PassesAnnounced,
     RequestTables, DecisionTables
<1>2. \A ev : ev.kind = "pass" /\ {"studentId"} \subseteq ev.fields =>
        "school-live" \in TopicsFor(ev, {s.by})
  BY TopicsOfRows DEF Asks, SchoolLive, Query
<1>3. s.key \in QueriesOf("school-live")
  BY QueriesOfTopics DEF Asks
<1> QED
  BY <1>1, <1>2, <1>3, Heard

(* Whoever shows "station" is told of what it reads, but for its gaps.     *)
LEMMA StationCovered ==
    ASSUME NEW c, NEW e, NEW s, Announced(c, e)
    PROVE  Asks(s, "station", Station) => Covered(c, e, s)
<1> SUFFICES ASSUME Asks(s, "station", Station), e.writes \cap s.reads # {}, ~ IsUntold(c, s.key)
             PROVE  Told(s, e)
  BY DEF Covered
<1>1. Tells(e, "pass", {"destinationId"})
  BY UntoldOnes DEF Asks, Station, StationAggregates, Query, Announced, PassesAnnounced,
     RowsAnnounced, AllocationTables
<1>2. \A ev : ev.kind = "pass" /\ {"destinationId"} \subseteq ev.fields =>
        "station" \in TopicsFor(ev, {s.by})
  BY TopicsOfRows DEF Asks, Station, Query
<1>3. s.key \in QueriesOf("station")
  BY QueriesOfTopics DEF Asks
<1> QED
  BY <1>1, <1>2, <1>3, Heard

(* Whoever shows "destinations" is told of what it reads, but for its gaps.*)
LEMMA DestinationsCovered ==
    ASSUME NEW c, NEW e, NEW s, Announced(c, e)
    PROVE  Asks(s, "destinations", Destinations) => Covered(c, e, s)
<1> SUFFICES ASSUME Asks(s, "destinations", Destinations), e.writes \cap s.reads # {},
                    ~ IsUntold(c, s.key)
             PROVE  Told(s, e)
  BY DEF Covered
<1>1. Tells(e, "destination", {})
  BY UntoldOnes DEF Asks, Destinations, DestinationRows, Query, Announced, RowsAnnounced
<1>2. \A ev : ev.kind = "destination" /\ {} \subseteq ev.fields =>
        "destinations" \in TopicsFor(ev, {s.by})
  BY TopicsOfRows DEF Asks, Destinations, Query
<1>3. s.key \in QueriesOf("destinations")
  BY QueriesOfTopics DEF Asks
<1> QED
  BY <1>1, <1>2, <1>3, Heard

(* Whoever shows "locations" is told of what it reads, but for its gaps.   *)
LEMMA LocationsCovered ==
    ASSUME NEW c, NEW e, NEW s, Announced(c, e)
    PROVE  Asks(s, "locations", Locations) => Covered(c, e, s)
<1> SUFFICES ASSUME Asks(s, "locations", Locations), e.writes \cap s.reads # {},
                    ~ IsUntold(c, s.key)
             PROVE  Told(s, e)
  BY DEF Covered
<1>1. Tells(e, "location", {})
  BY UntoldOnes DEF Asks, Locations, LocationRows, Query, Announced, RowsAnnounced
<1>2. \A ev : ev.kind = "location" /\ {} \subseteq ev.fields =>
        "locations" \in TopicsFor(ev, {s.by})
  BY TopicsOfRows DEF Asks, Locations, Query
<1>3. s.key \in QueriesOf("locations")
  BY QueriesOfTopics DEF Asks
<1> QED
  BY <1>1, <1>2, <1>3, Heard

(* Whoever writes what "destination_categories" reads is one of its gaps.  *)
LEMMA CategoriesCovered ==
    ASSUME NEW c, NEW e, NEW s, Announced(c, e)
    PROVE  Asks(s, "destination_categories", Categories) => Covered(c, e, s)
BY UntoldOnes DEF Covered, Asks, Categories, CategoryRows, Query, Announced, RowsAnnounced

(* Whoever writes what "destination" reads is one of its gaps.             *)
LEMMA OneDestinationCovered ==
    ASSUME NEW c, NEW e, NEW s, Announced(c, e)
    PROVE  Asks(s, "destination", OneDestination) => Covered(c, e, s)
BY UntoldOnes DEF Covered, Asks, OneDestination, DestinationRows, Query, Announced, RowsAnnounced

(* Whoever shows "grants" is told of what it reads, but for its gaps.      *)
LEMMA GrantsCovered ==
    ASSUME NEW c, NEW e, NEW s, Announced(c, e)
    PROVE  Asks(s, "grants", Grants) => Covered(c, e, s)
<1> SUFFICES ASSUME Asks(s, "grants", Grants), e.writes \cap s.reads # {}, ~ IsUntold(c, s.key)
             PROVE  Told(s, e)
  BY DEF Covered
<1>1. Tells(e, "authorization_grant", {})
  BY UntoldOnes DEF Asks, Grants, GrantRows, Query, Announced, RowsAnnounced
<1>2. \A ev : ev.kind = "authorization_grant" /\ {} \subseteq ev.fields =>
        "staff-access" \in TopicsFor(ev, {s.by})
  BY TopicsOfRows DEF Asks, Grants, Query
<1>3. s.key \in QueriesOf("staff-access")
  BY QueriesOfTopics DEF Asks
<1> QED
  BY <1>1, <1>2, <1>3, Heard

(* Whoever shows "people" is told of what it reads, but for its gaps.      *)
LEMMA PeopleCovered ==
    ASSUME NEW c, NEW e, NEW s, Announced(c, e)
    PROVE  Asks(s, "people", People) => Covered(c, e, s)
<1> SUFFICES ASSUME Asks(s, "people", People), e.writes \cap s.reads # {}, ~ IsUntold(c, s.key)
             PROVE  Told(s, e)
  BY DEF Covered
<1>1. Tells(e, "identity_enrollment_grant", {})
  BY UntoldOnes DEF Asks, People, PersonRows, Query, Announced, PeopleAnnounced
<1>2. \A ev : ev.kind = "identity_enrollment_grant" /\ {} \subseteq ev.fields =>
        "people" \in TopicsFor(ev, {s.by})
  BY TopicsOfRows DEF Asks, People, Query
<1>3. s.key \in QueriesOf("people")
  BY QueriesOfTopics DEF Asks
<1> QED
  BY <1>1, <1>2, <1>3, Heard

(* Whoever writes what "schedule_blocks" reads is one of its gaps.         *)
LEMMA ScheduleBlocksCovered ==
    ASSUME NEW c, NEW e, NEW s, Announced(c, e)
    PROVE  Asks(s, "schedule_blocks", ScheduleBlocks) => Covered(c, e, s)
BY UntoldOnes DEF Covered, Asks, ScheduleBlocks, Query, Announced, RowsAnnounced, ScheduleTables

(* Whoever writes what "schedule_templates" reads is one of its gaps.      *)
LEMMA TemplatesCovered ==
    ASSUME NEW c, NEW e, NEW s, Announced(c, e)
    PROVE  Asks(s, "schedule_templates", Templates) => Covered(c, e, s)
BY UntoldOnes DEF Covered, Asks, Templates, TemplateSlots, Query, Announced, RowsAnnounced,
   ScheduleTables

(* Whoever writes what "schedule_calendar" reads is one of its gaps.       *)
LEMMA CalendarCovered ==
    ASSUME NEW c, NEW e, NEW s, Announced(c, e)
    PROVE  Asks(s, "schedule_calendar", Calendar) => Covered(c, e, s)
BY UntoldOnes DEF Covered, Asks, Calendar, DayRows, Query, Announced, RowsAnnounced, ScheduleTables

(* Whoever shows "policies" is told of what it reads, but for its gaps.    *)
LEMMA PoliciesCovered ==
    ASSUME NEW c, NEW e, NEW s, Announced(c, e)
    PROVE  Asks(s, "policies", Policies) => Covered(c, e, s)
<1> SUFFICES ASSUME Asks(s, "policies", Policies), e.writes \cap s.reads # {}, ~ IsUntold(c, s.key)
             PROVE  Told(s, e)
  BY DEF Covered
<1>1. Tells(e, "policy_rule", {})
  BY UntoldOnes DEF Asks, Policies, Query, Announced, RowsAnnounced
<1>2. \A ev : ev.kind = "policy_rule" /\ {} \subseteq ev.fields =>
        "policies" \in TopicsFor(ev, {s.by})
  BY TopicsOfRows DEF Asks, Policies, Query
<1>3. s.key \in QueriesOf("policies")
  BY QueriesOfTopics DEF Asks
<1> QED
  BY <1>1, <1>2, <1>3, Heard

(* Whoever writes what "policy" reads is one of its gaps.                  *)
LEMMA OnePolicyCovered ==
    ASSUME NEW c, NEW e, NEW s, Announced(c, e)
    PROVE  Asks(s, "policy", OnePolicy) => Covered(c, e, s)
BY UntoldOnes DEF Covered, Asks, OnePolicy, Query, Announced, RowsAnnounced

(* Whoever shows "scheduled_admin" is told of what it reads, but for its gaps.*)
LEMMA BookingsCovered ==
    ASSUME NEW c, NEW e, NEW s, Announced(c, e)
    PROVE  Asks(s, "scheduled_admin", Bookings) => Covered(c, e, s)
<1> SUFFICES ASSUME Asks(s, "scheduled_admin", Bookings), e.writes \cap s.reads # {},
                    ~ IsUntold(c, s.key)
             PROVE  Told(s, e)
  BY DEF Covered
<1>1. Tells(e, "scheduled_authorization", {})
  BY UntoldOnes DEF Asks, Bookings, BookingRows, Query, Announced, RowsAnnounced
<1>2. \A ev : ev.kind = "scheduled_authorization" /\ {} \subseteq ev.fields =>
        "scheduled-passes" \in TopicsFor(ev, {s.by})
  BY TopicsOfRows DEF Asks, Bookings, Query
<1>3. s.key \in QueriesOf("scheduled-passes")
  BY QueriesOfTopics DEF Asks
<1> QED
  BY <1>1, <1>2, <1>3, Heard

(* Whoever shows "enrollment" is told of what it reads, but for its gaps.  *)
LEMMA InvitationCovered ==
    ASSUME NEW c, NEW e, NEW s, Announced(c, e)
    PROVE  Asks(s, "enrollment", Invitation) => Covered(c, e, s)
<1> SUFFICES ASSUME Asks(s, "enrollment", Invitation), e.writes \cap s.reads # {},
                    ~ IsUntold(c, s.key)
             PROVE  Told(s, e)
  BY DEF Covered
<1>1. Tells(e, "identity_enrollment_grant", {})
  BY UntoldOnes DEF Asks, Invitation, ActiveInvitation, Query, Announced, PeopleAnnounced
<1>2. \A ev : ev.kind = "identity_enrollment_grant" /\ {} \subseteq ev.fields =>
        "enrollment" \in TopicsFor(ev, {s.by})
  BY TopicsOfRows DEF Asks, Invitation, Query
<1>3. s.key \in QueriesOf("enrollment")
  BY QueriesOfTopics DEF Asks
<1> QED
  BY <1>1, <1>2, <1>3, Heard

(* Whoever shows "audit" is told of what it reads, but for its gaps.       *)
LEMMA AuditTrailCovered ==
    ASSUME NEW c, NEW e, NEW s, Announced(c, e)
    PROVE  Asks(s, "audit", AuditTrail) => Covered(c, e, s)
<1> SUFFICES ASSUME Asks(s, "audit", AuditTrail), e.writes \cap s.reads # {}
             PROVE  Told(s, e)
  BY DEF Covered
<1>1. PICK k \in Kinds : Tells(e, k, {})
  BY DEF Asks, AuditTrail, AuditRows, Query, Announced, PeopleAnnounced
<1>2. \A ev : "audit" \in TopicsFor(ev, {s.by})
  BY TopicsOfRows DEF Asks, AuditTrail, Query
<1>3. s.key \in QueriesOf("audit")
  BY QueriesOfTopics DEF Asks
<1> QED
  BY <1>1, <1>2, <1>3, Heard

(* What changes on a screen, its reader is told, but for the known gaps.    *)
LEMMA ScreensAreTold ==
    ASSUME NEW c \in Commands, NEW e \in EffectsOf[c], NEW s \in Shown
    PROVE  Covered(c, e, s)
<1>1. Announced(c, e)
  BY EverythingIsAnnounced
<1>2. CASE AsksOwn(s)
  BY <1>1, <1>2, ActiveSelfPassCovered, StudentCatalogCovered, OwnBookingsCovered,
     QueueStatusCovered, PendingApprovalsCovered, PendingOverridesCovered,
     SectionStudentsCovered, SectionLiveCovered, MemberDestinationsCovered,
     SchoolLiveCovered, StationCovered, DestinationsCovered, LocationsCovered DEF AsksOwn
<1>3. CASE AsksMore(s)
  BY <1>1, <1>3, CategoriesCovered, OneDestinationCovered, GrantsCovered, PeopleCovered,
     ScheduleBlocksCovered, TemplatesCovered, CalendarCovered, PoliciesCovered,
     OnePolicyCovered, BookingsCovered, InvitationCovered, AuditTrailCovered DEF AsksMore
<1> QED
  BY <1>2, <1>3, ScreensAre

(* Every row is one of an outbox.                                          *)
LEMMA RowsAreEvents == \A c \in Commands : \A e \in EffectsOf[c] : e.tells \in Seq(Events)
BY EverythingIsAnnounced DEF Announced, Appends

---------------------------------------------------------------------------
(* What keeps a page from being stale without anything on its way.          *)

WatchedBy(s) == s.reads \cup {"authorization_grant"}
May(s, rights) == s.by \in ByRelationship \/ rights % 2 = 0
HeldBy(s, rights) == IF May(s, rights) THEN {s.by} ELSE {}

(* A query is about to be read, or failed to be, or what was read of these   *)
(* tables is what is committed.                                            *)
Fresh(c, f, true, tables) ==
    \/ f.state \in {"asked", "failed"}
    \/ f.state = "read" /\ \A t \in tables : f.version[t] = true[t]
    \/ f.state = "idle" /\ (c = Unread \/ \A t \in tables : c.version[t] = true[t])

(* A message makes a browser read a query again; one is on its way, or what   *)
(* is opened next begins with one.                                         *)
Hits(m, v) == m.event = "resync" \/ (m.event = "invalidate" /\ \E t \in m.topics : v \in QueriesOf(t))
Bears(messages, v) == \E i \in 1..Len(messages) : Hits(messages[i], v)
Awaited(rows, holds, v) == \E i \in 1..Len(rows) : Reaches(rows[i], holds, v)
Coming(str, lis, s) ==
    \/ str.state # "open" \/ ~ lis.up
    \/ Bears(str.out, s.key) \/ Awaited(lis.inbox, HeldBy(s, str.rights), s.key)
Deaf(str, s) == ~ May(s, str.rights)
Hidden(p, s) == p.status = "away" \/ ~ May(s, p.context)

Messages ==
    [event : {"resync", "realtime-unavailable"}] \cup [event : {"invalidate"}, topics : SUBSET Topics]
ListenerOK(lis) ==
    DOMAIN lis = {"up", "inbox"} /\ lis.up \in BOOLEAN /\ lis.inbox \in Seq(Events)
StreamOK(str) ==
    \/ str = Off \/ str = GivenUp
    \/ /\ DOMAIN str = {"state", "rights", "out"} /\ str.state \in {"opening", "open"}
       /\ str.out \in Seq(Messages)
Statuses == {"away", "connecting", "live", "reconnecting", "unreachable"}
PageOK(p) == p \in [status : Statuses, context : Nat, cached : BOOLEAN]
LoaderOK(l) == l = Resting \/ (l.state = "read" /\ l.rights \in Nat)
CachedOK(c, tables) ==
    c = Unread \/ c \in [read : {TRUE}, version : [tables -> Nat], stale : BOOLEAN]
FetchOK(f, tables) ==
    \/ f = Resting \/ f.state \in {"asked", "failed"}
    \/ f.state = "read" /\ f.version \in [tables -> Nat]
TypesOK ==
    /\ screen \in Shown /\ truth \in [WatchedBy(screen) -> Nat]
    /\ ListenerOK(listener) /\ StreamOK(stream) /\ PageOK(page) /\ LoaderOK(loader)
    /\ CachedOK(cached, screen.reads) /\ FetchOK(fetch, screen.reads) /\ missed \in BOOLEAN

(* Before the school is opened there is neither context nor stream.         *)
NothingYet(p, str) == p.status = "away" => ~ p.cached /\ str = Off

(* What the screen's query shows is what is committed, or it will be read    *)
(* again, or a stream that begins with a resync is opened before it is shown *)
(* again.  A subscriber who may not hear of the screen hears of no change of *)
(* it.                                                                     *)
PageFollows ==
    \/ missed \/ Fresh(cached, fetch, truth, screen.reads)
    \/ Hidden(page, screen) \/ Coming(stream, listener, screen) \/ Deaf(stream, screen)

DeliveryInv == TypesOK /\ NothingYet(page, stream) /\ PageFollows

(* The operators of the module, by their screen.                           *)
LEMMA ByScreen ==
    /\ Watched = WatchedBy(screen)
    /\ \A r : Entitled(r) <=> May(screen, r)
    /\ \A r : Holds(r) = HeldBy(screen, r)
    /\ Mounted <=> ~ Hidden(page, screen)
<1>1. \A r : Entitled(r) <=> May(screen, r)
  BY DEF Entitled, May
<1>2. \A r : Holds(r) = HeldBy(screen, r)
  BY <1>1 DEF Holds, HeldBy
<1>3. Watched = WatchedBy(screen)
  BY DEF Watched, WatchedBy
<1>4. Mounted <=> ~ Hidden(page, screen)
  BY <1>1 DEF Mounted, Hidden
<1> QED
  BY <1>1, <1>2, <1>3, <1>4

(* What is in a sequence stays in it when another is appended, and all but   *)
(* its head when it is taken.                                              *)
LEMMA InAppended ==
    ASSUME NEW S, NEW s \in Seq(S), NEW t \in Seq(S)
    PROVE  /\ s \o t \in Seq(S)
           /\ \A i \in 1..Len(s) : i \in 1..Len(s \o t) /\ (s \o t)[i] = s[i]
           /\ \A i \in 1..Len(t) : Len(s) + i \in 1..Len(s \o t) /\ (s \o t)[Len(s) + i] = t[i]
OBVIOUS

(* The head, and what is left in the tail.                                 *)
LEMMA InTail ==
    ASSUME NEW S, NEW s \in Seq(S), s # <<>>
    PROVE  /\ Tail(s) \in Seq(S) /\ Head(s) \in S
           /\ \A i \in 1..Len(s) :
                 s[i] = Head(s) \/ (i - 1 \in 1..Len(Tail(s)) /\ Tail(s)[i - 1] = s[i])
OBVIOUS

(* What messages bear and what rows await, when some are appended or the     *)
(* first is taken.                                                         *)
LEMMA Borne ==
    ASSUME NEW v, NEW s \in Seq(Messages), NEW t \in Seq(Messages)
    PROVE  /\ Bears(s, v) => Bears(s \o t, v)
           /\ Bears(t, v) => Bears(s \o t, v)
           /\ s # <<>> /\ Bears(s, v) => Hits(Head(s), v) \/ Bears(Tail(s), v)
           /\ ~ Bears(<<>>, v)
<1>1. ASSUME NEW i \in 1..Len(s), Hits(s[i], v) PROVE Bears(s \o t, v)
  <2>1. i \in 1..Len(s \o t) /\ (s \o t)[i] = s[i]
    BY InAppended
  <2> DEFINE both == s \o t  j == i
  <2>2. j \in 1..Len(both) /\ both[j] = s[i]
    BY <2>1
  <2> HIDE DEF both, j
  <2>3. Bears(both, v)
    BY <1>1, <2>2 DEF Bears
  <2> QED
    BY <2>3 DEF both
<1>2. ASSUME NEW i \in 1..Len(t), Hits(t[i], v) PROVE Bears(s \o t, v)
  <2>1. Len(s) + i \in 1..Len(s \o t) /\ (s \o t)[Len(s) + i] = t[i]
    BY InAppended
  <2> DEFINE both == s \o t  j == Len(s) + i
  <2>2. j \in 1..Len(both) /\ both[j] = t[i]
    BY <2>1
  <2> HIDE DEF both, j
  <2>3. Bears(both, v)
    BY <1>2, <2>2 DEF Bears
  <2> QED
    BY <2>3 DEF both
<1>3. ASSUME s # <<>>, NEW i \in 1..Len(s), Hits(s[i], v) PROVE Hits(Head(s), v) \/ Bears(Tail(s), v)
  <2> DEFINE rest == Tail(s)
  <2>1. s[i] = Head(s) \/ (i - 1 \in 1..Len(rest) /\ rest[i - 1] = s[i])
    BY <1>3, InTail
  <2> HIDE DEF rest
  <2>2. Hits(Head(s), v) \/ Bears(rest, v)
    BY <1>3, <2>1 DEF Bears
  <2> QED
    BY <2>2 DEF rest
<1> QED
  BY <1>1, <1>2, <1>3 DEF Bears

(* The rows that are still to be loaded.                                   *)
LEMMA RowsAwaited ==
    ASSUME NEW v, NEW holds, NEW s \in Seq(Events), NEW t \in Seq(Events)
    PROVE  /\ Awaited(s, holds, v) => Awaited(s \o t, holds, v)
           /\ Awaited(t, holds, v) => Awaited(s \o t, holds, v)
           /\ s # <<>> /\ Awaited(s, holds, v) =>
                 Reaches(Head(s), holds, v) \/ Awaited(Tail(s), holds, v)
           /\ ~ Awaited(<<>>, holds, v)
<1>1. ASSUME NEW i \in 1..Len(s), Reaches(s[i], holds, v) PROVE Awaited(s \o t, holds, v)
  <2>1. i \in 1..Len(s \o t) /\ (s \o t)[i] = s[i]
    BY InAppended
  <2> DEFINE both == s \o t  j == i
  <2>2. j \in 1..Len(both) /\ both[j] = s[i]
    BY <2>1
  <2> HIDE DEF both, j
  <2>3. Awaited(both, holds, v)
    BY <1>1, <2>2 DEF Awaited
  <2> QED
    BY <2>3 DEF both
<1>2. ASSUME NEW i \in 1..Len(t), Reaches(t[i], holds, v) PROVE Awaited(s \o t, holds, v)
  <2>1. Len(s) + i \in 1..Len(s \o t) /\ (s \o t)[Len(s) + i] = t[i]
    BY InAppended
  <2> DEFINE both == s \o t  j == Len(s) + i
  <2>2. j \in 1..Len(both) /\ both[j] = t[i]
    BY <2>1
  <2> HIDE DEF both, j
  <2>3. Awaited(both, holds, v)
    BY <1>2, <2>2 DEF Awaited
  <2> QED
    BY <2>3 DEF both
<1>3. ASSUME s # <<>>, NEW i \in 1..Len(s), Reaches(s[i], holds, v)
      PROVE  Reaches(Head(s), holds, v) \/ Awaited(Tail(s), holds, v)
  <2> DEFINE rest == Tail(s)
  <2>1. s[i] = Head(s) \/ (i - 1 \in 1..Len(rest) /\ rest[i - 1] = s[i])
    BY <1>3, InTail
  <2> HIDE DEF rest
  <2>2. Reaches(Head(s), holds, v) \/ Awaited(rest, holds, v)
    BY <1>3, <2>1 DEF Awaited
  <2> QED
    BY <2>2 DEF rest
<1> QED
  BY <1>1, <1>2, <1>3 DEF Awaited

(* One message bears what it hits.                                         *)
LEMMA OneMessage ==
    ASSUME NEW v, NEW m \in Messages, Hits(m, v)
    PROVE  Bears(<<m>>, v)
<1>1. Len(<<m>>) = 1 /\ <<m>>[1] = m
  OBVIOUS
<1> DEFINE s == <<m>>
<1> HIDE DEF s
<1>2. Len(s) = 1 /\ s[1] = m
  BY <1>1 DEF s
<1>3. Bears(s, v)
  BY <1>2 DEF Bears
<1> QED
  BY <1>3 DEF s

(* What is sent to an open stream, and what is heard of it.                 *)
SentTo(str, ms) == [str EXCEPT !.out = @ \o ms]
Taken(str) == [str EXCEPT !.out = Tail(@)]

(* A stream that is sent messages.                                         *)
LEMMA SentOn ==
    ASSUME NEW str, StreamOK(str), str.state = "open", NEW ms \in Seq(Messages),
           NEW new, new = SentTo(str, ms)
    PROVE  /\ StreamOK(new) /\ new # Off /\ new.state = "open" /\ new.rights = str.rights
           /\ \A v : Bears(str.out, v) \/ Bears(ms, v) => Bears(new.out, v)
<1>1. DOMAIN str = {"state", "rights", "out"} /\ str.out \in Seq(Messages)
  BY DEF StreamOK, Off, GivenUp
<1>2. /\ DOMAIN new = {"state", "rights", "out"} /\ new.state = "open"
      /\ new.rights = str.rights /\ new.out = str.out \o ms
  BY <1>1 DEF SentTo
<1>3. new.out \in Seq(Messages)
  BY <1>1, <1>2, InAppended
<1>4. new # Off
  BY <1>2 DEF Off
<1>5. StreamOK(new)
  BY <1>2, <1>3 DEF StreamOK
<1> QED
  BY <1>1, <1>2, <1>4, <1>5, Borne

(* A stream of which one message is heard.                                 *)
LEMMA HeardOf ==
    ASSUME NEW str, StreamOK(str), str.state = "open", str.out # <<>>,
           NEW new, new = Taken(str)
    PROVE  /\ StreamOK(new) /\ new # Off /\ new.state = "open" /\ new.rights = str.rights
           /\ Head(str.out) \in Messages
           /\ \A v : Bears(str.out, v) => Hits(Head(str.out), v) \/ Bears(new.out, v)
<1>1. DOMAIN str = {"state", "rights", "out"} /\ str.out \in Seq(Messages)
  BY DEF StreamOK, Off, GivenUp
<1>2. /\ DOMAIN new = {"state", "rights", "out"} /\ new.state = "open"
      /\ new.rights = str.rights /\ new.out = Tail(str.out)
  BY <1>1 DEF Taken
<1>3. new.out \in Seq(Messages) /\ Head(str.out) \in Messages
  BY <1>1, <1>2, InTail
<1>4. new # Off
  BY <1>2 DEF Off
<1>5. StreamOK(new)
  BY <1>2, <1>3 DEF StreamOK
<1> QED
  BY <1>1, <1>2, <1>3, <1>4, <1>5, Borne

(* What of the invariant a step can disturb that leaves the query alone:     *)
(* what is coming, and whether it is shown.                                *)
LEMMA OnlyTheWay ==
    ASSUME DeliveryInv, UNCHANGED <<screen, truth, cached, fetch, missed>>,
           ListenerOK(listener'), StreamOK(stream'), PageOK(page'), LoaderOK(loader'),
           NothingYet(page', stream'),
           stream'.state = "open" => stream.state = "open" /\ stream'.rights = stream.rights,
           Hidden(page, screen) => Hidden(page', screen) \/ Coming(stream', listener', screen),
           Coming(stream, listener, screen) => Coming(stream', listener', screen)
    PROVE  DeliveryInv'
<1>1. TypesOK'
  BY DEF DeliveryInv, TypesOK
<1>2. Deaf(stream, screen) => Coming(stream', listener', screen) \/ Deaf(stream', screen)
  <2>1. CASE stream'.state = "open"
    BY <2>1 DEF Deaf
  <2>2. CASE stream'.state # "open"
    BY <2>2 DEF Coming
  <2> QED
    BY <2>1, <2>2
<1>3. \/ missed \/ Fresh(cached, fetch, truth, screen.reads)
      \/ Hidden(page, screen) \/ Coming(stream, listener, screen) \/ Deaf(stream, screen)
  BY DEF DeliveryInv, PageFollows
<1>4. PageFollows'
  BY <1>2, <1>3 DEF PageFollows
<1> QED
  BY <1>1, <1>4 DEF DeliveryInv

(* Loading a notification keeps the invariant.                             *)
LEMMA ObserveFollows ==
    ASSUME DeliveryInv, Observe
    PROVE  DeliveryInv'
<1>1. ListenerOK(listener) /\ StreamOK(stream) /\ listener.inbox \in Seq(Events)
  BY DEF DeliveryInv, TypesOK, ListenerOK
<1> DEFINE ev == Head(listener.inbox)  rest == Tail(listener.inbox)
<1>2. listener.inbox # <<>> /\ ev \in Events /\ rest \in Seq(Events)
  BY <1>1, InTail DEF Observe
<1>3. ListenerOK(listener') /\ listener'.up /\ listener'.inbox = rest
  BY <1>1, <1>2 DEF ListenerOK, Observe
<1>4. UNCHANGED <<screen, truth, cached, fetch, missed, page, loader>>
  BY DEF Observe, browserVars
<1>5. PageOK(page') /\ LoaderOK(loader') /\ NothingYet(page, stream)
      /\ (Hidden(page, screen) => Hidden(page', screen))
  BY <1>4 DEF DeliveryInv, TypesOK
<1>6. CASE stream.state # "open"
  <2>1. stream' = stream
    BY <1>6 DEF Observe
  <2>2. Coming(stream', listener', screen)
    BY <1>6, <2>1 DEF Coming
  <2> QED
    BY <1>1, <1>3, <1>4, <1>5, <1>6, <2>1, <2>2, OnlyTheWay
<1>7. CASE stream.state = "open"
  <2> DEFINE holds == HeldBy(screen, stream.rights)  topics == TopicsFor(ev, holds)  v == screen.key
             m == [event |-> "invalidate", topics |-> topics]  ms == <<m>>
  <2>1. Holds(stream.rights) = holds
    BY ByScreen
  <2>2. topics \subseteq Topics
    BY TopicsAre
  <2>3. m \in Messages /\ m.event = "invalidate" /\ m.topics = topics
    BY <2>2 DEF Messages
  <2>4. ms \in Seq(Messages) /\ (Hits(m, v) => Bears(ms, v))
    BY <2>3, OneMessage
  <2>5. stream' = IF topics = {} THEN stream ELSE SentTo(stream, ms)
    BY <1>7, <2>1 DEF Observe, Sent, SentTo
  <2>6. Reaches(ev, holds, v) => topics # {} /\ Bears(ms, v)
    <3>1. Reaches(ev, holds, v) => topics # {} /\ Hits(m, v)
      BY <2>3 DEF Reaches, Hits
    <3> QED
      BY <2>4, <3>1
  <2>7. Awaited(listener.inbox, holds, v) => Reaches(ev, holds, v) \/ Awaited(rest, holds, v)
    BY <1>1, <1>2, RowsAwaited
  <2>8. stream # Off /\ page.status # "away"
    BY <1>5, <1>7 DEF Off, NothingYet
  <2> HIDE DEF ev, rest, holds, topics, m, ms, v
  <2>9. /\ StreamOK(stream') /\ stream'.state = "open" /\ stream'.rights = stream.rights
        /\ Bears(stream.out, v) => Bears(stream'.out, v)
        /\ topics # {} /\ Bears(ms, v) => Bears(stream'.out, v)
    <3>1. CASE topics = {}
      BY <1>1, <1>7, <2>5, <3>1
    <3>2. CASE topics # {}
      <4>1. stream' = SentTo(stream, ms)
        BY <2>5, <3>2
      <4> QED
        BY <1>1, <1>7, <2>4, <4>1, SentOn
    <3> QED
      BY <3>1, <3>2
  <2>10. Coming(stream, listener, screen) => Coming(stream', listener', screen)
    <3>1. HeldBy(screen, stream.rights) = holds /\ HeldBy(screen, stream'.rights) = holds
      BY <2>9 DEF holds
    <3>2. Coming(stream, listener, screen) =>
              ~ listener.up \/ Bears(stream.out, v) \/ Awaited(listener.inbox, holds, v)
      BY <1>7, <3>1 DEF Coming, v
    <3>3. Bears(stream'.out, v) \/ Awaited(rest, holds, v) => Coming(stream', listener', screen)
      BY <1>3, <3>1 DEF Coming, v
    <3>4. listener.up
      BY DEF Observe
    <3> QED
      BY <2>6, <2>7, <2>9, <3>2, <3>3, <3>4
  <2>11. NothingYet(page', stream')
    BY <1>4, <2>8 DEF NothingYet
  <2> QED
    BY <1>3, <1>4, <1>5, <1>7, <2>9, <2>10, <2>11, OnlyTheWay
<1> QED
  BY <1>6, <1>7

(* The messages that announce a loss and a new beginning.                   *)
LEMMA Announcements ==
    ASSUME NEW lost, lost = <<[event |-> "realtime-unavailable"]>>,
           NEW begin, begin = <<[event |-> "resync"]>>, NEW v
    PROVE  /\ lost \in Seq(Messages) /\ begin \in Seq(Messages) /\ Bears(begin, v)
           /\ Welcome \in Seq(Messages) /\ Bears(Welcome, v)
<1> DEFINE loss == [event |-> "realtime-unavailable"]  again == [event |-> "resync"]
<1>1. loss \in Messages /\ again \in Messages /\ Hits(again, v)
  BY DEF Messages, Hits
<1>2. lost \in Seq(Messages) /\ begin \in Seq(Messages) /\ Bears(begin, v)
  BY <1>1, OneMessage
<1>3. <<again, loss>> = begin \o lost
  OBVIOUS
<1>4. Welcome = begin \/ Welcome = begin \o lost
  BY <1>3 DEF Welcome
<1> HIDE DEF loss, again
<1>5. begin \o lost \in Seq(Messages) /\ Bears(begin \o lost, v)
  BY <1>2, Borne, InAppended
<1> QED
  BY <1>2, <1>4, <1>5

(* Lost and new connections of the listener keep the invariant.             *)
LEMMA ListenersFollow ==
    ASSUME DeliveryInv, Disconnected \/ Reconnect
    PROVE  DeliveryInv'
<1>1. StreamOK(stream) /\ PageOK(page) /\ LoaderOK(loader) /\ NothingYet(page, stream)
  BY DEF DeliveryInv, TypesOK
<1>2. UNCHANGED <<screen, truth, cached, fetch, missed, page, loader>>
  BY DEF Disconnected, Reconnect, browserVars
<1>3. ListenerOK(listener')
  <2>1. \A b \in BOOLEAN : ListenerOK([up |-> b, inbox |-> <<>>])
    BY DEF ListenerOK
  <2> QED
    BY <2>1 DEF Disconnected, Reconnect
<1> DEFINE lost == <<[event |-> "realtime-unavailable"]>>  begin == <<[event |-> "resync"]>>
           ms == IF Disconnected THEN lost ELSE begin
<1>4. lost \in Seq(Messages) /\ begin \in Seq(Messages) /\ Bears(begin, screen.key)
  BY Announcements
<1>5. (stream' = Sent(lost) /\ ~ listener'.up) \/ stream' = Sent(begin)
  BY DEF Disconnected, Reconnect
<1> HIDE DEF lost, begin
<1>6. CASE stream.state = "open"
  <2>1. (stream' = SentTo(stream, lost) /\ ~ listener'.up) \/ stream' = SentTo(stream, begin)
    BY <1>5, <1>6 DEF Sent, SentTo
  <2>2. StreamOK(stream') /\ stream'.rights = stream.rights
    BY <1>1, <1>4, <1>6, <2>1, SentOn
  <2>3. ~ listener'.up \/ Bears(stream'.out, screen.key)
    BY <1>1, <1>4, <1>6, <2>1, SentOn
  <2>4. Coming(stream', listener', screen)
    BY <2>3 DEF Coming
  <2>5. NothingYet(page', stream')
    BY <1>1, <1>2, <1>6 DEF NothingYet, Off
  <2> QED
    BY <1>1, <1>2, <1>3, <1>6, <2>2, <2>4, <2>5, OnlyTheWay
<1>7. CASE stream.state # "open"
  <2>1. stream' = stream
    BY <1>5, <1>7 DEF Sent
  <2>2. Coming(stream', listener', screen)
    BY <1>7, <2>1 DEF Coming
  <2> QED
    BY <1>1, <1>2, <1>3, <1>7, <2>1, <2>2, OnlyTheWay
<1> QED
  BY <1>6, <1>7

(* So do streams that are opened, refused, lost and given up.               *)
LEMMA StreamsFollow ==
    ASSUME DeliveryInv, OpenStream \/ RefuseStream \/ StreamBreaks \/ Forget \/ Navigate
    PROVE  DeliveryInv'
<1>1. /\ ListenerOK(listener) /\ StreamOK(stream) /\ PageOK(page) /\ LoaderOK(loader)
      /\ NothingYet(page, stream) /\ truth \in [WatchedBy(screen) -> Nat]
  BY DEF DeliveryInv, TypesOK
<1>2. UNCHANGED <<screen, truth, cached, fetch, missed, listener>>
  BY DEF OpenStream, RefuseStream, StreamBreaks, Forget, Navigate, browserVars
<1>3. Off.state # "open" /\ GivenUp.state # "open" /\ StreamOK(Off) /\ StreamOK(GivenUp)
  BY DEF Off, GivenUp, StreamOK
<1>4. CASE Navigate
  <2>1. UNCHANGED <<page, stream>> /\ loader' = [state |-> "read", rights |-> Rights]
    BY <1>4 DEF Navigate
  <2>2. Rights \in Nat
    BY <1>1 DEF Rights, WatchedBy
  <2>3. LoaderOK(loader')
    BY <2>1, <2>2 DEF LoaderOK
  <2> QED
    BY <1>1, <1>2, <2>1, <2>3, OnlyTheWay
<1>5. CASE OpenStream
  <2>1. /\ UNCHANGED <<page, loader>> /\ page.status # "away"
        /\ stream' = [state |-> "opening", rights |-> Rights, out |-> <<>>]
    BY <1>5 DEF OpenStream, browserVars
  <2>2. /\ DOMAIN stream' = {"state", "rights", "out"} /\ stream'.state = "opening" /\ stream'.out = <<>>
    BY <2>1
  <2>3. StreamOK(stream') /\ Coming(stream', listener', screen)
    BY <2>2 DEF StreamOK, Coming
  <2>4. NothingYet(page', stream')
    BY <2>1 DEF NothingYet
  <2> QED
    BY <1>1, <1>2, <2>1, <2>2, <2>3, <2>4, OnlyTheWay
<1>6. CASE RefuseStream \/ StreamBreaks \/ Forget
  <2>1. stream' \in {Off, GivenUp} /\ loader' = loader
    BY <1>6 DEF RefuseStream, StreamBreaks, Forget
  <2>2. page.status # "away"
    BY <1>1, <1>6 DEF RefuseStream, StreamBreaks, Forget, NothingYet, Off
  <2>3. /\ PageOK(page') /\ page'.context = page.context /\ page'.status # "away"
    BY <1>1, <1>6, <2>2 DEF PageOK, Statuses, RefuseStream, StreamBreaks, Forget
  <2>4. StreamOK(stream') /\ Coming(stream', listener', screen) /\ stream'.state # "open"
    BY <1>3, <2>1 DEF Coming
  <2>5. NothingYet(page', stream')
    BY <2>3 DEF NothingYet
  <2> QED
    BY <1>1, <1>2, <2>1, <2>3, <2>4, <2>5, OnlyTheWay
<1> QED
  BY <1>4, <1>5, <1>6

(* A new subscriber is welcomed with a resync.                             *)
LEMMA SubscribeFollows ==
    ASSUME DeliveryInv, Subscribe
    PROVE  DeliveryInv'
<1>1. /\ UNCHANGED <<screen, truth, listener, loader, cached, fetch, missed>>
      /\ stream' = [stream EXCEPT !.state = "open", !.out = Welcome]
      /\ page' = [page EXCEPT !.status = "live"] /\ stream.state = "opening"
  BY DEF Subscribe
<1>2. DOMAIN stream = {"state", "rights", "out"} /\ PageOK(page)
  BY <1>1 DEF DeliveryInv, TypesOK, StreamOK, Off, GivenUp
<1>3. Welcome \in Seq(Messages) /\ Bears(Welcome, screen.key)
  BY Announcements
<1>4. DOMAIN stream' = {"state", "rights", "out"} /\ stream'.state = "open" /\ stream'.out = Welcome
  BY <1>1, <1>2
<1>5. StreamOK(stream')
  BY <1>3, <1>4 DEF StreamOK
<1>6. Coming(stream', listener', screen)
  BY <1>3, <1>4 DEF Coming
<1>7. PageOK(page') /\ page'.status = "live"
  BY <1>1, <1>2 DEF PageOK, Statuses
<1>8. NothingYet(page', stream')
  BY <1>7 DEF NothingYet
<1>9. TypesOK'
  BY <1>1, <1>5, <1>7 DEF DeliveryInv, TypesOK
<1> QED
  BY <1>1, <1>6, <1>8, <1>9 DEF DeliveryInv, PageFollows

(* A page that comes to show the query had a context that did not entitle to *)
(* it, or none, and opens another stream.                                  *)
LEMMA EnterFollows ==
    ASSUME DeliveryInv, EnterSchool
    PROVE  DeliveryInv'
<1>1. /\ UNCHANGED <<screen, truth, listener, cached, missed>> /\ loader' = Resting
      /\ stream' = KeptStream(loader.rights)
      /\ page' = [status |-> IF page.status = "away" THEN "connecting" ELSE page.status,
                  context |-> loader.rights, cached |-> TRUE]
      /\ fetch' = Asked \/ fetch' = fetch
  BY DEF EnterSchool
<1>2. TypesOK /\ NothingYet(page, stream)
  BY DEF DeliveryInv
<1>3. loader.rights \in Nat
  BY <1>2 DEF EnterSchool, TypesOK, LoaderOK, Resting
<1>4. PageOK(page') /\ page'.status # "away" /\ page'.context = loader.rights
  BY <1>1, <1>2, <1>3 DEF TypesOK, PageOK, Statuses
<1>5. StreamOK(stream') /\ (stream' = stream \/ stream' = Off)
  BY <1>1, <1>2 DEF TypesOK, KeptStream, StreamOK
<1>6. NothingYet(page', stream')
  BY <1>4 DEF NothingYet
<1>7. FetchOK(fetch', screen.reads)
  <2>1. Asked.state = "asked"
    BY DEF Asked
  <2> QED
    BY <1>1, <1>2, <2>1 DEF TypesOK, FetchOK
<1>8. TypesOK'
  BY <1>1, <1>2, <1>4, <1>5, <1>7 DEF TypesOK, LoaderOK
<1>9. Fresh(cached, fetch, truth, screen.reads) => Fresh(cached, fetch', truth, screen.reads)
  BY <1>1 DEF Fresh, Asked
<1>10. CASE stream' = Off
  <2>1. Coming(stream', listener', screen)
    BY <1>10 DEF Coming, Off
  <2> QED
    BY <1>6, <1>8, <2>1, <1>1 DEF DeliveryInv, PageFollows
<1>11. CASE stream' # Off
  <2>1. stream' = stream /\ page.cached /\ (May(screen, loader.rights) <=> May(screen, page.context))
    BY <1>1, <1>5, <1>11, ByScreen DEF KeptStream
  <2>2. page.status # "away"
    BY <1>2, <2>1 DEF NothingYet
  <2>3. Hidden(page, screen) => Hidden(page', screen)
    BY <1>4, <2>1, <2>2 DEF Hidden
  <2>4. \/ missed \/ Fresh(cached, fetch, truth, screen.reads)
        \/ Hidden(page, screen) \/ Coming(stream, listener, screen) \/ Deaf(stream, screen)
    BY DEF DeliveryInv, PageFollows
  <2>5. PageFollows'
    BY <1>1, <1>9, <2>1, <2>3, <2>4 DEF PageFollows
  <2> QED
    BY <1>6, <1>8, <2>5 DEF DeliveryInv
<1> QED
  BY <1>10, <1>11

(* The version that is read is of the types, and of what is committed.       *)
LEMMA VersionIs ==
    ASSUME TypesOK
    PROVE  /\ Version \in [screen.reads -> Nat]
           /\ \A t \in screen.reads : Version[t] = truth[t]
<1>1. truth \in [WatchedBy(screen) -> Nat] /\ screen.reads \subseteq WatchedBy(screen)
  BY DEF TypesOK, WatchedBy
<1> QED
  BY <1>1 DEF Version

(* The screen's request keeps the invariant.                               *)
LEMMA FetchFollows ==
    ASSUME DeliveryInv, Read \/ FailToRead \/ Settle
    PROVE  DeliveryInv'
<1>1. UNCHANGED <<screen, truth, listener, stream, page, loader>>
  BY DEF Read, FailToRead, Settle
<1>2. TypesOK /\ NothingYet(page, stream)
      /\ CachedOK(cached, screen.reads) /\ FetchOK(fetch, screen.reads)
  BY DEF DeliveryInv, TypesOK
<1>3. /\ CachedOK(cached', screen.reads) /\ FetchOK(fetch', screen.reads) /\ missed' \in BOOLEAN
      /\ \/ Fresh(cached', fetch', truth, screen.reads)
         \/ missed' = missed /\ ~ Fresh(cached, fetch, truth, screen.reads)
  <2>1. CASE Read
    <3> DEFINE read == [state |-> "read", version |-> Version]
    <3>1. read.state = "read" /\ read.version = Version
      OBVIOUS
    <3>2. fetch' = read /\ cached' = cached /\ missed' = FALSE
      BY <2>1 DEF Read
    <3> HIDE DEF read
    <3>3. FetchOK(read, screen.reads) /\ Fresh(cached, read, truth, screen.reads)
      BY <1>2, <3>1, VersionIs DEF FetchOK, Fresh
    <3> QED
      BY <1>2, <3>2, <3>3
  <2>2. CASE FailToRead
    <3>1. fetch' = [state |-> "failed"] /\ cached' = cached /\ missed' = missed
      BY <2>2 DEF FailToRead
    <3>2. fetch'.state = "failed"
      BY <3>1
    <3>3. FetchOK(fetch', screen.reads) /\ Fresh(cached', fetch', truth, screen.reads)
      BY <3>2 DEF FetchOK, Fresh
    <3> QED
      BY <1>2, <3>1, <3>3 DEF TypesOK
  <2>3. CASE Settle
    <3>1. /\ cached' = [read |-> TRUE, version |-> fetch.version, stale |-> FALSE]
          /\ fetch' = Resting /\ missed' = missed /\ fetch.state = "read"
      BY <2>3 DEF Settle
    <3>2. fetch.version \in [screen.reads -> Nat]
      BY <1>2, <3>1 DEF FetchOK, Resting
    <3>3. CachedOK(cached', screen.reads) /\ FetchOK(fetch', screen.reads)
      BY <3>1, <3>2 DEF CachedOK, FetchOK
    <3>4. Fresh(cached, fetch, truth, screen.reads) => Fresh(cached', fetch', truth, screen.reads)
      BY <3>1 DEF Fresh, Resting
    <3> QED
      BY <1>2, <3>1, <3>3, <3>4 DEF TypesOK
  <2> QED
    BY <2>1, <2>2, <2>3
<1>4. TypesOK'
  BY <1>1, <1>2, <1>3 DEF TypesOK
<1>5. \/ missed \/ Fresh(cached, fetch, truth, screen.reads)
      \/ Hidden(page, screen) \/ Coming(stream, listener, screen) \/ Deaf(stream, screen)
  BY DEF DeliveryInv, PageFollows
<1>6. PageFollows'
  BY <1>1, <1>3, <1>5 DEF PageFollows
<1> QED
  BY <1>1, <1>2, <1>4, <1>6 DEF DeliveryInv

(* What is invalidated is read again, or is being read first, or is hidden.  *)
LEMMA WhatIsInvalidated ==
    ASSUME TypesOK, Invalidated
    PROVE  /\ CachedOK(cached', screen.reads) /\ FetchOK(fetch', screen.reads) /\ missed' \in BOOLEAN
           /\ (missed' \/ Fresh(cached', fetch', truth, screen.reads) \/ Hidden(page, screen))
<1>1. /\ cached' = Marked
      /\ fetch' = IF Mounted /\ ~ FirstLoad THEN Asked ELSE fetch
      /\ missed' = (missed \/ FirstLoad)
  BY DEF Invalidated
<1>2. CachedOK(cached, screen.reads) /\ FetchOK(fetch, screen.reads) /\ missed \in BOOLEAN
  BY DEF TypesOK
<1>3. CachedOK(Marked, screen.reads)
  BY <1>2 DEF CachedOK, Marked
<1>4. Asked.state = "asked"
  BY DEF Asked
<1>5. FirstLoad \in BOOLEAN
  BY DEF FirstLoad, UnderWay
<1>6. FetchOK(fetch', screen.reads)
  BY <1>1, <1>2, <1>4 DEF FetchOK
<1>7. missed' \in BOOLEAN /\ (FirstLoad => missed')
  BY <1>1, <1>2, <1>5
<1>8. Mounted /\ ~ FirstLoad => Fresh(cached', fetch', truth, screen.reads)
  BY <1>1, <1>4 DEF Fresh
<1> QED
  BY <1>1, <1>3, <1>6, <1>7, <1>8, ByScreen

(* Hearing an event keeps the invariant.                                   *)
LEMMA HearFollows ==
    ASSUME DeliveryInv, HearEvent
    PROVE  DeliveryInv'
<1> DEFINE m == Head(stream.out)
<1>1. TypesOK /\ StreamOK(stream) /\ stream.state = "open" /\ stream.out # <<>> /\ PageOK(page)
  BY DEF DeliveryInv, TypesOK, HearEvent
<1>2. stream' = Taken(stream) /\ UNCHANGED <<screen, truth, listener, loader>>
  BY DEF HearEvent, Taken
<1>3. /\ StreamOK(stream') /\ stream' # Off /\ stream'.state = "open" /\ stream'.rights = stream.rights
      /\ m \in Messages
      /\ \A v : Bears(stream.out, v) => Hits(m, v) \/ Bears(stream'.out, v)
  BY <1>1, <1>2, HeardOf
<1>4. page.status # "away"
  BY <1>1 DEF DeliveryInv, NothingYet, Off
<1>5. Coming(stream, listener, screen) => Hits(m, screen.key) \/ Coming(stream', listener', screen)
  BY <1>1, <1>2, <1>3 DEF Coming
<1>6. Deaf(stream, screen) => Deaf(stream', screen)
  BY <1>3 DEF Deaf
<1>7. PageOK(page') /\ page'.status # "away" /\ page'.context = page.context
  BY <1>1, <1>4 DEF HearEvent, PageOK, Statuses
<1>8. Hidden(page, screen) => Hidden(page', screen)
  BY <1>4, <1>7 DEF Hidden
<1>9. NothingYet(page', stream')
  BY <1>7 DEF NothingYet
<1>10. CASE Hits(m, screen.key)
  <2>1. Invalidated
    <3>1. CASE m.event = "resync"
      BY <3>1 DEF HearEvent
    <3>2. CASE m.event # "resync"
      <4>1. m.event = "invalidate" /\ screen.key \in UNION {QueriesOf(t) : t \in m.topics}
        BY <1>10, <3>2 DEF Hits
      <4> QED
        BY <4>1 DEF HearEvent
    <3> QED
      BY <3>1, <3>2
  <2>2. /\ CachedOK(cached', screen.reads) /\ FetchOK(fetch', screen.reads) /\ missed' \in BOOLEAN
        /\ (missed' \/ Fresh(cached', fetch', truth, screen.reads) \/ Hidden(page, screen))
    BY <1>1, <2>1, WhatIsInvalidated
  <2>3. TypesOK'
    BY <1>1, <1>2, <1>3, <1>7, <2>2 DEF TypesOK
  <2>4. PageFollows'
    BY <1>2, <1>8, <2>2 DEF PageFollows
  <2> QED
    BY <1>9, <2>3, <2>4 DEF DeliveryInv
<1>11. CASE ~ Hits(m, screen.key)
  <2>1. UNCHANGED <<cached, fetch, missed>>
    <3>1. m.event # "resync"
          /\ (m.event = "invalidate" => screen.key \notin UNION {QueriesOf(t) : t \in m.topics})
      BY <1>11 DEF Hits
    <3> QED
      BY <3>1 DEF HearEvent
  <2>2. ListenerOK(listener') /\ LoaderOK(loader')
    BY <1>2 DEF DeliveryInv, TypesOK
  <2> HIDE DEF m
  <2> QED
    BY <1>1, <1>2, <1>3, <1>5, <1>7, <1>8, <1>9, <1>11, <2>1, <2>2, OnlyTheWay
<1> QED
  BY <1>10, <1>11

(* A command that writes what a query reads is told of, or is a known gap.   *)
LEMMA ChangeFollows ==
    ASSUME DeliveryInv, NEW command \in Commands, Change(command)
    PROVE  DeliveryInv'
<1>1. PICK effect \in EffectsOf[command] :
         /\ truth' = [t \in Watched |-> IF t \in effect.writes \cap Watched THEN truth[t] + 1 ELSE truth[t]]
         /\ listener' = IF listener.up THEN [listener EXCEPT !.inbox = @ \o effect.tells] ELSE listener
         /\ missed' = (missed \/ (IsUntold(command, screen.key)
                                  /\ effect.writes \cap Watched \cap screen.reads # {}))
         /\ UNCHANGED <<screen, stream, page, loader, cached, fetch>>
  BY DEF Change
<1> DEFINE w == effect.writes
<1>2. /\ screen \in Shown /\ truth \in [WatchedBy(screen) -> Nat] /\ missed \in BOOLEAN
      /\ screen.reads \subseteq WatchedBy(screen) /\ Watched = WatchedBy(screen)
  BY ByScreen DEF DeliveryInv, TypesOK, WatchedBy
<1>3. ListenerOK(listener) /\ effect.tells \in Seq(Events)
  BY RowsAreEvents DEF DeliveryInv, TypesOK
<1>4. /\ DOMAIN listener = {"up", "inbox"} /\ listener.inbox \in Seq(Events)
  BY <1>3 DEF ListenerOK
<1>5. /\ DOMAIN listener' = {"up", "inbox"} /\ listener'.up = listener.up
      /\ listener'.inbox = IF listener.up THEN listener.inbox \o effect.tells ELSE listener.inbox
  BY <1>1, <1>4
<1>6. listener'.inbox \in Seq(Events)
  BY <1>3, <1>4, <1>5, InAppended
<1>7. ListenerOK(listener')
  BY <1>3, <1>5, <1>6 DEF ListenerOK
<1>8. /\ truth' \in [WatchedBy(screen) -> Nat]
      /\ \A t \in WatchedBy(screen) \ w : truth'[t] = truth[t]
  BY <1>1, <1>2
<1>9. w \cap Watched \cap screen.reads = w \cap screen.reads
  BY <1>2
<1>10. missed' = (missed \/ (IsUntold(command, screen.key) /\ w \cap screen.reads # {}))
  BY <1>1, <1>9
<1>11. UNCHANGED <<screen, stream, page, loader, cached, fetch>>
  BY <1>1
<1> HIDE DEF w
<1>12. ASSUME w \cap screen.reads = {}, Fresh(cached, fetch, truth, screen.reads)
       PROVE  Fresh(cached, fetch, truth', screen.reads)
  <2>1. \A t \in screen.reads : truth'[t] = truth[t]
    BY <1>2, <1>8, <1>12
  <2> QED
    BY <1>12, <2>1 DEF Fresh
<1> DEFINE rows == listener.inbox  more == effect.tells  held == HeldBy(screen, stream.rights)
           longer == rows \o more  v == screen.key
<1>13. rows \in Seq(Events) /\ more \in Seq(Events)
  BY <1>3, <1>4
<1>14. listener'.inbox = IF listener.up THEN longer ELSE rows
  BY <1>5
<1> HIDE DEF rows, more, held, v
<1>15. /\ Awaited(rows, held, v) => Awaited(longer, held, v)
       /\ Awaited(more, held, v) => Awaited(longer, held, v)
  BY <1>13, RowsAwaited
<1> HIDE DEF longer
<1>16. Coming(stream, listener, screen) => Coming(stream', listener', screen)
  <2>1. Awaited(rows, held, v) => Awaited(listener'.inbox, held, v)
    BY <1>14, <1>15
  <2> QED
    BY <1>5, <1>11, <2>1 DEF Coming, rows, held, v
<1>17. ASSUME NEW i \in DOMAIN effect.tells, Reaches(effect.tells[i], HeldBy(screen, stream.rights), v)
       PROVE  Coming(stream', listener', screen)
  <2>1. CASE ~ listener.up
    BY <1>5, <2>1 DEF Coming
  <2>2. CASE listener.up
    <3>1. i \in 1..Len(effect.tells)
      BY <1>3
    <3>2. Awaited(more, held, v)
      BY <1>17, <3>1 DEF Awaited, more, held
    <3>3. Awaited(listener'.inbox, held, v)
      BY <1>14, <1>15, <2>2, <3>2
    <3> QED
      BY <1>11, <3>3 DEF Coming, held, v
  <2> QED
    BY <2>1, <2>2
<1>18. missed' \in BOOLEAN
  BY <1>10, <1>2 DEF IsUntold
<1>19. TypesOK'
  BY <1>7, <1>8, <1>11, <1>18 DEF DeliveryInv, TypesOK
<1>20. \/ missed \/ Fresh(cached, fetch, truth, screen.reads)
       \/ Hidden(page, screen) \/ Coming(stream, listener, screen) \/ Deaf(stream, screen)
  BY DEF DeliveryInv, PageFollows
<1>21. \/ missed' \/ Fresh(cached, fetch, truth', screen.reads)
       \/ Hidden(page, screen) \/ Coming(stream', listener', screen) \/ Deaf(stream, screen)
  <2>1. CASE w \cap screen.reads = {}
    BY <1>10, <1>12, <1>16, <1>20, <2>1
  <2>2. CASE w \cap screen.reads # {}
    <3>1. ASSUME ~ missed', May(screen, stream.rights) PROVE Coming(stream', listener', screen)
      <4>1. ~ IsUntold(command, screen.key)
        BY <1>10, <2>2, <3>1
      <4>2. Covered(command, effect, screen)
        BY <1>2, ScreensAreTold
      <4>3. Told(screen, effect)
        BY <2>2, <4>1, <4>2 DEF Covered, w
      <4>4. HeldBy(screen, stream.rights) = {screen.by}
        BY <3>1 DEF HeldBy
      <4> QED
        BY <1>17, <4>3, <4>4 DEF Told, v
    <3> QED
      BY <3>1 DEF Deaf
  <2> QED
    BY <2>1, <2>2
<1>22. PageFollows'
  BY <1>11, <1>21 DEF PageFollows
<1>23. NothingYet(page', stream')
  BY <1>11 DEF DeliveryInv
<1> QED
  BY <1>19, <1>22, <1>23 DEF DeliveryInv

(* The invariant holds at first.                                           *)
LEMMA DeliveryBegins == RealtimeInit => DeliveryInv
<1> SUFFICES ASSUME RealtimeInit PROVE DeliveryInv
  OBVIOUS
<1>1. /\ screen \in Shown /\ truth = [t \in WatchedBy(screen) |-> 0]
  BY ByScreen DEF RealtimeInit
<1>2. ListenerOK(listener)
  <2>1. listener = [up |-> TRUE, inbox |-> <<>>]
    BY DEF RealtimeInit
  <2>2. DOMAIN listener = {"up", "inbox"} /\ listener.up = TRUE /\ listener.inbox = <<>>
    BY <2>1
  <2>3. <<>> \in Seq(Events)
    OBVIOUS
  <2> QED
    BY <2>2, <2>3 DEF ListenerOK
<1>3. StreamOK(stream) /\ stream.state # "open" /\ stream = Off
  BY DEF RealtimeInit, StreamOK, Off
<1>4. PageOK(page) /\ NothingYet(page, stream)
  BY <1>3 DEF RealtimeInit, PageOK, Statuses, NothingYet
<1>5. LoaderOK(loader) /\ CachedOK(cached, screen.reads) /\ FetchOK(fetch, screen.reads)
      /\ missed \in BOOLEAN
  BY DEF RealtimeInit, LoaderOK, CachedOK, FetchOK
<1>6. truth \in [WatchedBy(screen) -> Nat]
  BY <1>1
<1>7. TypesOK
  BY <1>1, <1>2, <1>3, <1>4, <1>5, <1>6 DEF TypesOK
<1>8. Coming(stream, listener, screen)
  BY <1>3 DEF Coming
<1> QED
  BY <1>4, <1>7, <1>8 DEF DeliveryInv, PageFollows

(* Every step keeps the invariant.                                         *)
LEMMA DeliverySteps == DeliveryInv /\ [RealtimeNext]_realtimeVars => DeliveryInv'
<1> SUFFICES ASSUME DeliveryInv, [RealtimeNext]_realtimeVars PROVE DeliveryInv'
  OBVIOUS
<1>1. CASE \E command \in Commands : Change(command)
  BY <1>1, ChangeFollows
<1>2. CASE Observe
  BY <1>2, ObserveFollows
<1>3. CASE Disconnected \/ Reconnect
  BY <1>3, ListenersFollow
<1>4. CASE OpenStream \/ RefuseStream \/ StreamBreaks \/ Forget \/ Navigate
  BY <1>4, StreamsFollow
<1>5. CASE Subscribe
  BY <1>5, SubscribeFollows
<1>6. CASE HearEvent
  BY <1>6, HearFollows
<1>7. CASE EnterSchool
  BY <1>7, EnterFollows
<1>8. CASE Read \/ FailToRead \/ Settle
  BY <1>8, FetchFollows
<1>9. CASE UNCHANGED realtimeVars
  BY <1>9 DEF realtimeVars, DeliveryInv, TypesOK, PageFollows
<1> QED
  BY <1>1, <1>2, <1>3, <1>4, <1>5, <1>6, <1>7, <1>8, <1>9 DEF RealtimeNext

(* Nothing is on its way to a quiet page, so what it follows it shows.       *)
LEMMA QuietPagesAreCurrent == DeliveryInv => NeverSilentlyStale
<1> SUFFICES ASSUME DeliveryInv, Quiet, Heeded, Shows, ~ missed
             PROVE  Current
  BY DEF NeverSilentlyStale
<1>1. TypesOK /\ CachedOK(cached, screen.reads) /\ FetchOK(fetch, screen.reads)
  BY DEF DeliveryInv, TypesOK
<1>2. /\ listener.up /\ stream.state = "open" /\ listener.inbox = <<>> /\ stream.out = <<>>
      /\ fetch.state \notin {"asked", "read"}
  BY DEF Quiet, UnderWay
<1>3. ~ Coming(stream, listener, screen)
  <2>1. <<>> \in Seq(Messages) /\ <<>> \in Seq(Events)
    OBVIOUS
  <2>2. ~ Bears(stream.out, screen.key) /\ ~ Awaited(listener.inbox, HeldBy(screen, stream.rights), screen.key)
    BY <1>2, <2>1, Borne, RowsAwaited
  <2> QED
    BY <1>2, <2>2 DEF Coming
<1>4. ~ Hidden(page, screen)
  BY ByScreen DEF Shows
<1>5. ~ Deaf(stream, screen)
  BY <1>2, ByScreen DEF Heeded, Deaf
<1>6. Fresh(cached, fetch, truth, screen.reads)
  BY <1>3, <1>4, <1>5 DEF DeliveryInv, PageFollows
<1>7. cached # Unread /\ fetch.state # "failed"
  BY DEF Shows
<1>8. \A t \in screen.reads : cached.version[t] = truth[t]
  BY <1>2, <1>6, <1>7 DEF Fresh
<1> DEFINE shown == cached.version
           now == Version
<1>9. shown \in [screen.reads -> Nat] /\ now \in [screen.reads -> Nat]
      /\ \A t \in screen.reads : shown[t] = now[t]
  BY <1>1, <1>7, <1>8, VersionIs DEF CachedOK
<1> HIDE DEF shown, now
<1>10. shown = now
  BY <1>9
<1> QED
  BY <1>10 DEF Current, shown, now

(* A page that says live, with nothing on its way, shows what is committed:  *)
(* for every query that a page observes and every command, whatever is lost, *)
(* refused, forgotten or navigated to, except the known gaps, what is being  *)
(* read for the first time, a request that failed, and a stream opened       *)
(* without the right.  The queries of the web application, the outbox rows    *)
(* of the repositories and the topics of the hub are written by hand in three *)
(* packages; this says they agree.                                         *)
THEOREM PagesAreNeverSilentlyStale == RealtimeSpec => []NeverSilentlyStale
<1>1. RealtimeInit => DeliveryInv
  BY DeliveryBegins
<1>2. DeliveryInv /\ [RealtimeNext]_realtimeVars => DeliveryInv'
  BY DeliverySteps
<1>3. DeliveryInv => NeverSilentlyStale
  BY QuietPagesAreCurrent
<1> QED
  BY <1>1, <1>2, <1>3, PTL DEF RealtimeSpec

=============================================================================
