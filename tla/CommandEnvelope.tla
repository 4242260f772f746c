-------------------------- MODULE CommandEnvelope --------------------------
(***************************************************************************)
(* The exactly-once envelope every mutating command runs in.  A client     *)
(* sends a command under an idempotency key and may send it again, or send *)
(* something else under the same key, at any time and to any replica; the  *)
(* request reads the clock, checks the target outside the envelope, waits  *)
(* for the key's advisory lock, looks for a stored result, and only then   *)
(* executes and stores, all in one transaction.                            *)
(*                                                                         *)
(* The command itself is abstracted to what retries can tell: it demands   *)
(* the revision its client has read (If-Match), or none when it creates    *)
(* something, and raises the revision by one.  The fingerprint of a        *)
(* request covers the demanded revision and nothing else that varies here, *)
(* so the two are the same value.                                          *)
(*                                                                         *)
(* The operators named Faulty... are not part of the specification: each   *)
(* is the definition that follows it with one plausible programming error. *)
(***************************************************************************)
EXTENDS Integers, FiniteSets

CONSTANTS
    Requests,        \* HTTP requests that may arrive, each once
    Keys,            \* (tenant, actor, command, idempotency key)
    Locks,           \* 64-bit advisory lock keys
    LockOf,          \* the hash of a key; keys may collide
    Ttl,             \* IDEMPOTENCY_TTL_HOURS, in ticks
    MaxTime          \* bound: the last instant of the clock

ASSUME HashAssumption == LockOf \in [Keys -> Locks] /\ Keys # {}
ASSUME TtlAssumption == Ttl \in Nat \ {0} /\ MaxTime \in Nat

AnyRevision == -1    \* a command without If-Match
Revisions == Nat \cup {AnyRevision}

VARIABLES
    clock,
    revision,        \* revision of the resource the commands act on
    usable,          \* the target passes the checks made outside the envelope
    records,         \* committed idempotency_record rows
    request,         \* what each request is doing, and its answer
    effects          \* history: the executions that committed

vars == <<clock, revision, usable, records, request, effects>>

Stages == {"unsent", "checking", "waiting", "locked", "cleared", "executed",
           "committed", "done"}
Answers == {"none", "success", "key_reused", "stale", "refused", "failed", "lost"}

RequestRecords == [stage : Stages, answer : Answers, at : Nat, key : Keys,
                   expected : Revisions, result : Nat]
Records == [key : Keys, fingerprint : Revisions, expiresAt : Nat, result : Nat]
Effects == [key : Keys, fingerprint : Revisions, at : Nat, result : Nat]

Init ==
    /\ clock = 0
    /\ revision = 0
    /\ usable = TRUE
    /\ records = {}
    /\ request = [r \in Requests |->
                     [stage |-> "unsent", answer |-> "none", at |-> 0,
                      key |-> CHOOSE k \in Keys : TRUE,
                      expected |-> AnyRevision, result |-> 0]]
    /\ effects = {}

---------------------------------------------------------------------------

At(r, stage) == request[r].stage = stage
Goto(r, stage) == request' = [request EXCEPT ![r].stage = stage]
Answer(r, answer, result) ==
    request' = [request EXCEPT ![r].stage = "done", ![r].answer = answer,
                               ![r].result = result]

(* pg_advisory_xact_lock: held until the transaction ends. *)
FaultyHolding == {"locked", "cleared", "executed", "done"}   \* session lock
Holding == {"locked", "cleared", "executed"}
FaultyLockFree(r) == ~ At(r, "unsent")             \* lock not taken
LockFree(r) ==
    \A q \in Requests : LockOf[request[q].key] = LockOf[request[r].key] =>
                            request[q].stage \notin Holding

RecordsOf(k) == {row \in records : row.key = k}
FaultyLive(row, at) == row.expiresAt < at          \* operands swapped
Live(row, at) == row.expiresAt > at

(* The client read the revision it demands, or demands none; a request is  *)
(* a first attempt, a retry, or a key used for something else.             *)
Receive(r, k, expected) ==
    /\ At(r, "unsent")
    /\ expected \in 0..revision \cup {AnyRevision}
    /\ request' = [request EXCEPT ![r].stage = "checking", ![r].at = clock,
                                  ![r].key = k, ![r].expected = expected]
    /\ UNCHANGED <<clock, revision, usable, records, effects>>

(* Reads outside the envelope: loadSchoolForDestination refuses a target   *)
(* that is archived by now.                                                *)
Check(r) ==
    /\ At(r, "checking")
    /\ IF usable THEN Goto(r, "waiting") ELSE Answer(r, "refused", 0)
    /\ UNCHANGED <<clock, revision, usable, records, effects>>

AcquireLock(r) ==
    /\ At(r, "waiting")
    /\ LockFree(r)
    /\ Goto(r, "locked")
    /\ UNCHANGED <<clock, revision, usable, records, effects>>

FaultyLookup(r) ==                      \* revision validated before the replay
    /\ At(r, "locked")
    /\ IF RecordsOf(request[r].key) = {} /\ request[r].expected \in {revision, AnyRevision}
       THEN Goto(r, "cleared")
       ELSE Answer(r, "stale", 0)
    /\ UNCHANGED <<clock, revision, usable, records, effects>>

FaultyMatch(row, r) == row.key = request[r].key     \* fingerprint not compared
Match(row, r) == row.fingerprint = request[r].expected

(* A live record answers; an expired one is deleted, which others see when *)
(* this transaction commits.  "result" remembers which row it deleted.     *)
Lookup(r) ==
    LET found == RecordsOf(request[r].key)
        live == {row \in found : Live(row, request[r].at)}
    IN
    /\ At(r, "locked")
    /\ \/ found = {} /\ Goto(r, "cleared")
       \/ /\ live = {}
          /\ \E row \in found :
                request' = [request EXCEPT ![r].stage = "cleared",
                                           ![r].result = row.result]
       \/ \E row \in live :
             IF Match(row, r)
             THEN Answer(r, "success", row.result)
             ELSE Answer(r, "key_reused", 0)
    /\ UNCHANGED <<clock, revision, usable, records, effects>>

(* The execution locks the resource's row until the transaction ends. *)
RowFree(r) == \A q \in Requests \ {r} : ~ At(q, "executed")

(* Compared under the row lock; a stale client is told so, and any other   *)
(* refusal is thrown as well: nothing is stored for either.                *)
Execute(r) ==
    /\ At(r, "cleared")
    /\ RowFree(r)
    /\ IF request[r].expected \in {revision, AnyRevision}
       THEN Goto(r, "executed") \/ Answer(r, "refused", 0)
       ELSE Answer(r, "stale", 0)
    /\ UNCHANGED <<clock, revision, usable, records, effects>>

ExpiresAt(r) == request[r].at + Ttl

(* The store is an insert: a row of the same identity that this            *)
(* transaction did not delete violates the unique constraint, and the      *)
(* transaction fails; so does one that waited until its own lifetime was   *)
(* over, as the schema demands expires_at > created_at.                    *)
Clashes(r) ==
    \E row \in RecordsOf(request[r].key) : row.result # request[r].result
Storable(r) == ~ Clashes(r) /\ ExpiresAt(r) > clock

Commit(r) ==
    /\ At(r, "executed")
    /\ Storable(r)
    /\ revision' = revision + 1
    /\ records' = (records \ RecordsOf(request[r].key)) \cup
                  {[key |-> request[r].key, fingerprint |-> request[r].expected,
                    expiresAt |-> ExpiresAt(r), result |-> revision + 1]}
    /\ effects' = effects \cup
                  {[key |-> request[r].key, fingerprint |-> request[r].expected,
                    at |-> request[r].at, result |-> revision + 1]}
    /\ request' = [request EXCEPT ![r].stage = "committed", ![r].result = revision + 1]
    /\ UNCHANGED <<clock, usable>>

StoreFails(r) ==
    /\ At(r, "executed")
    /\ ~ Storable(r)
    /\ Answer(r, "failed", 0)
    /\ UNCHANGED <<clock, revision, usable, records, effects>>

Reply(r) ==
    /\ At(r, "committed")
    /\ Answer(r, "success", request[r].result)
    /\ UNCHANGED <<clock, revision, usable, records, effects>>

(* The server, the database or the network fails: an open transaction is   *)
(* rolled back, and the client never learns what became of its request.    *)
Lose(r) ==
    /\ request[r].stage \notin {"unsent", "done"}
    /\ Answer(r, "lost", 0)
    /\ UNCHANGED <<clock, revision, usable, records, effects>>

(* An administrator archives the target, once what was done with it has    *)
(* ended; nobody brings it back.                                           *)
Retire ==
    /\ usable
    /\ usable' = FALSE
    /\ UNCHANGED <<clock, revision, records, request, effects>>

Tick ==
    /\ clock < MaxTime
    /\ clock' = clock + 1
    /\ UNCHANGED <<revision, usable, records, request, effects>>

Step(r) ==
    \/ Check(r) \/ AcquireLock(r) \/ Lookup(r) \/ Execute(r)
    \/ Commit(r) \/ StoreFails(r) \/ Reply(r)

Next ==
    \/ \E r \in Requests, k \in Keys, expected \in 0..revision \cup {AnyRevision} :
          Receive(r, k, expected)
    \/ \E r \in Requests : Step(r) \/ Lose(r)
    \/ Retire
    \/ Tick

Spec == Init /\ [][Next]_vars

(* A transaction that can go on does: the server and the database run. *)
Fairness == \A r \in Requests : WF_vars(Step(r))
FairSpec == Spec /\ Fairness

---------------------------------------------------------------------------
(* Properties.                                                             *)

(* Every variable keeps its type. *)
TypeOK ==
    /\ clock \in Nat
    /\ revision \in Nat
    /\ usable \in BOOLEAN
    /\ records \subseteq Records
    /\ request \in [Requests -> RequestRecords]
    /\ effects \subseteq Effects

(* A key takes effect once in a lifetime: two executions under one key     *)
(* carry instants at least a lifetime apart, however old the instants are  *)
(* with which requests come out of the lock.                               *)
OncePerLifetime ==
    \A e, f \in effects :
        e.key = f.key /\ e # f => e.at + Ttl <= f.at \/ f.at + Ttl <= e.at

(* The unique constraint on the identity never fires: what a transaction   *)
(* learnt at its lookup is still true when it stores its result, although  *)
(* the lookup locks no row.                                                *)
StoreNeverClashes == \A r \in Requests : At(r, "executed") => ~ Clashes(r)

(* Whoever is answered with success is told the result of an execution of  *)
(* what it asked for, under its key.                                       *)
SuccessIsAnEffect ==
    \A r \in Requests : request[r].answer = "success" =>
        \E e \in effects : /\ e.key = request[r].key
                           /\ e.fingerprint = request[r].expected
                           /\ e.result = request[r].result

(* A lost response returns its committed result instead of a spurious 412: *)
(* a request is told that its revision is stale only if no execution of    *)
(* the same command was recent enough to answer it.                        *)
Answerable(e, r) ==
    /\ e.key = request[r].key
    /\ e.fingerprint = request[r].expected
    /\ request[r].at < e.at + Ttl
NoSpurious412 ==
    \A r \in Requests : request[r].answer = "stale" =>
        \A e \in effects : ~ Answerable(e, r)

(* Colliding lock keys and rows locked by others only delay a request:     *)
(* each one is answered or lost in the end.                                *)
EveryRequestEnds ==
    \A r \in Requests : At(r, "checking") ~> At(r, "done")

===========================================================================
