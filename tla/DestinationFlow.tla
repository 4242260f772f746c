-------------------------- MODULE DestinationFlow --------------------------
(***************************************************************************)
(* The core of OpenHall: hall passes competing for the capacity of         *)
(* destinations.  Students and staff send commands (request, approval and  *)
(* override decisions, departure, movement, cancellation), administrators  *)
(* edit destinations, and the polling reconciler promotes, requeues and    *)
(* expires what was left behind.                                           *)
(*                                                                         *)
(* Granularity.  A command reads the clock first and runs its transaction  *)
(* later, so a command whose instant matters is two steps: it is put in    *)
(* flight (Issue) with the instant and the revision its client knows, and  *)
(* it commits, in one step, under the pass row lock and the destination    *)
(* advisory lock.  The destination row the allocator reads BEFORE it takes *)
(* the advisory lock is part of the command in flight (RereadDestination). *)
(* The reconciler reads the clock once per batch, finds a candidate in one *)
(* transaction and handles it in another.  A transaction that fails leaves *)
(* everything as it was: the command is dropped (Abandon), the batch ends. *)
(*                                                                         *)
(* Policy rules are abstracted to the decision they produce: every         *)
(* evaluation may return any decision its inputs allow.                    *)
(*                                                                         *)
(* The operators named Faulty... are not part of the specification: each   *)
(* is the definition that follows it with one plausible programming error, *)
(* kept to see that the properties notice it.                              *)
(***************************************************************************)
EXTENDS Integers, FiniteSets

CONSTANTS
    Passes,          \* pass rows that may come to exist
    Students,
    Destinations,
    Workers,         \* API replicas that run the reconciler loop
    StudentOf,       \* the student a pass is for
    DestOf,          \* the destination a pass is for
    Configs,         \* Configs[d]: destination rows administrators may store
    Operations,      \* the two-step commands that clients send
    Decisions,       \* the policy decisions that occur
    ClaimTimeout,    \* ready_claim_timeout_seconds, in ticks
    QueueTimeout,    \* queue_timeout_seconds, in ticks
    SlotEnds,        \* instants at which a schedule slot may end (0: no slot)
    MaxTime,         \* bound: the last instant of the clock
    MaxRevision,     \* bound: no two-step command on a pass at this revision
    MaxInFlight,     \* bound: commands in flight at once
    MaxCommandLag,   \* bound: age of a command's instant when it commits
    MaxBatchLag,     \* bound: age of a batch's instant when it writes
    CrashesAllowed   \* whether a reconciler may die in the middle of a batch

Unlimited == -1      \* capacity IS NULL
Unclaimed == -1      \* claimed_at IS NULL

Modes == {"none", "optional", "required"}
PolicyDecisions == {"allow", "deny", "approval_required", "override_required"}
TwoStepOperations == {"request", "approval", "override_request",
                      "override_resolve", "depart"}
ConfigRecords == [status : {"active", "closed", "archived"},
                  capacity : (Nat \ {0}) \cup {Unlimited},
                  queueEnabled : BOOLEAN, mode : Modes]

ASSUME PlacementAssumption ==
    /\ StudentOf \in [Passes -> Students]
    /\ DestOf \in [Passes -> Destinations]
ASSUME ConfigAssumption ==
    \A d \in Destinations : Configs[d] \subseteq ConfigRecords
ASSUME VocabularyAssumption ==
    /\ Operations \subseteq TwoStepOperations
    /\ Decisions \subseteq PolicyDecisions
ASSUME TimeAssumption ==
    /\ ClaimTimeout \in Nat \ {0}
    /\ QueueTimeout \in Nat \ {0}
    /\ SlotEnds \subseteq Nat
    /\ MaxTime \in Nat /\ MaxRevision \in Nat /\ MaxInFlight \in Nat
    /\ MaxCommandLag \in Nat /\ MaxBatchLag \in Nat
    /\ CrashesAllowed \in BOOLEAN

VARIABLES
    clock,           \* the wall clock
    pass,            \* pass rows: state, revision, departure check-in snapshot
    reservations,    \* destination_reservation rows with released_at IS NULL
    queue,           \* queue_entry rows with released_at IS NULL
    destination,     \* destination rows
    evaluation,      \* latest policy_evaluation row of each pass
    workflow,        \* kinds of pending approval / override rows of each pass
    inflight,        \* commands whose clock has been read, not yet committed
    worker           \* the batch each reconciler is running

flowRows == <<reservations, queue>>
vars == <<clock, pass, reservations, queue, destination, evaluation,
          workflow, inflight, worker>>

Lifecycle == INSTANCE PassLifecycle WITH
    life <- [p \in Passes |-> [state |-> pass[p].state, rev |-> pass[p].rev]]
States == Lifecycle!States
ActiveStates == Lifecycle!ActiveStates
TerminalStates == Lifecycle!TerminalStates
CanTransition(from, to) == Lifecycle!CanTransition(from, to)

Stages == {"idle", "stale_ready", "expired_queue", "unavailable",
           "promotion", "orphaned"}

PassRecords == [state : States, rev : Nat, mode : Modes]
(* "born" stands for the row's id: the pass revision that inserted it. *)
Reservations == [pass : Passes, born : Nat, reservedAt : Nat,
                 readyUntil : Nat, flowUntil : Nat,
                 claimedAt : Nat \cup {Unclaimed}, late : BOOLEAN]
(* "ord" is the insertion order, the last key of the queue's order. *)
Entries == [pass : Passes, born : Nat, enteredAt : Nat, flowUntil : Nat,
            ord : Nat]
Commands == [op : TwoStepOperations, pass : Passes, at : Nat, rev : Nat,
             config : ConfigRecords]
Candidates == [pass : Passes, born : Nat]
WorkerRecords == [stage : Stages, at : Nat, todo : SUBSET Destinations,
                  found : SUBSET Candidates]

Init ==
    /\ clock = 0
    /\ pass = [p \in Passes |-> [state |-> "absent", rev |-> 0, mode |-> "none"]]
    /\ reservations = {}
    /\ queue = {}
    /\ destination \in {f \in [Destinations -> UNION {Configs[d] : d \in Destinations}] :
                           \A d \in Destinations : f[d] \in Configs[d]
                                                /\ f[d].status = "active"}
    /\ evaluation = [p \in Passes |-> [rev |-> 0, decision |-> "allow"]]
    /\ workflow = [p \in Passes |-> {}]
    /\ inflight = {}
    /\ worker = [w \in Workers |->
                    [stage |-> "idle", at |-> 0, todo |-> {}, found |-> {}]]

---------------------------------------------------------------------------
(* Rows and what the repository's queries compute from them.               *)

Rev(p) == pass[p].rev
InState(p, states) == pass[p].state \in states

ReservationsOf(p) == {o \in reservations : o.pass = p}
EntriesOf(p) == {e \in queue : e.pass = p}

(* An expired unclaimed offer stops consuming before anyone releases it. *)
Consumes(o, at) == o.claimedAt # Unclaimed \/ o.readyUntil > at
ConsumingReservations(d, at) ==
    {o \in reservations : DestOf[o.pass] = d /\ Consumes(o, at)}
FaultyHasRoom(config, d, at) ==                     \* off by one
    \/ config.capacity = Unlimited
    \/ Cardinality(ConsumingReservations(d, at)) <= config.capacity
HasRoom(config, d, at) ==
    \/ config.capacity = Unlimited
    \/ Cardinality(ConsumingReservations(d, at)) < config.capacity

EntriesAt(d) == {e \in queue : DestOf[e.pass] = d}
OthersWaiting(d, p) == {e \in EntriesAt(d) : e.pass # p}
Precedes(e, f) == \/ e.enteredAt < f.enteredAt
                  \/ e.enteredAt = f.enteredAt /\ e.ord < f.ord
QueueHeads(d) ==
    {e \in EntriesAt(d) : \A f \in EntriesAt(d) \ {e} : Precedes(e, f)}
NextOrds == {n \in {0} \cup {e.ord + 1 : e \in queue} :
                \A e \in queue : e.ord < n}

FlowUntil(at, slotEnd) ==
    IF slotEnd > at /\ slotEnd < at + QueueTimeout
    THEN slotEnd ELSE at + QueueTimeout
FaultyReadyUntil(at, flowUntil) ==                  \* wrong sign
    IF at - ClaimTimeout < flowUntil THEN at - ClaimTimeout ELSE flowUntil
ReadyUntil(at, flowUntil) ==
    IF at + ClaimTimeout < flowUntil THEN at + ClaimTimeout ELSE flowUntil

SetPass(p, state, rev) ==
    pass' = [pass EXCEPT ![p].state = state, ![p].rev = rev]
SetWorkflow(p, kinds) == workflow' = [workflow EXCEPT ![p] = kinds]
RecordEvaluation(p, rev, decision) ==
    evaluation' = [evaluation EXCEPT ![p] = [rev |-> rev, decision |-> decision]]

FaultyOffer(p, born, at, flowUntil) ==              \* deadline starts again
    [pass |-> p, born |-> born, reservedAt |-> at,
     readyUntil |-> ReadyUntil(at, flowUntil), flowUntil |-> at + QueueTimeout,
     claimedAt |-> Unclaimed, late |-> FALSE]
Offer(p, born, at, flowUntil) ==
    [pass |-> p, born |-> born, reservedAt |-> at,
     readyUntil |-> ReadyUntil(at, flowUntil), flowUntil |-> flowUntil,
     claimedAt |-> Unclaimed, late |-> FALSE]
Enqueue(p, born, at, flowUntil) ==
    \E n \in NextOrds :
        queue' = (queue \ EntriesOf(p)) \cup
                 {[pass |-> p, born |-> born, enteredAt |-> at,
                   flowUntil |-> flowUntil, ord |-> n]}

---------------------------------------------------------------------------
(* Allocation and the policy tail shared by every clearing command.        *)

AllocateUnavailable(p, rev, config) ==
    /\ config.status # "active"
    /\ SetPass(p, "denied", rev + 1)
    /\ SetWorkflow(p, {})
    /\ UNCHANGED flowRows

FaultySlotIsFree(p, at, config) ==                  \* ignores the queue
    HasRoom(config, DestOf[p], at)
(* A freed slot belongs to the queue first. *)
SlotIsFree(p, at, config) ==
    /\ HasRoom(config, DestOf[p], at)
    /\ config.queueEnabled => OthersWaiting(DestOf[p], p) = {}

AllocateReady(p, rev, at, config, flowUntil, pending) ==
    /\ config.status = "active"
    /\ SlotIsFree(p, at, config)
    /\ SetPass(p, "ready", rev + 1)
    /\ SetWorkflow(p, pending)
    /\ reservations' = reservations \cup {Offer(p, rev + 1, at, flowUntil)}
    /\ UNCHANGED queue

AllocateQueued(p, rev, at, config, flowUntil, pending) ==
    /\ config.status = "active"
    /\ ~ SlotIsFree(p, at, config)
    /\ config.queueEnabled
    /\ SetPass(p, "queued", rev + 1)
    /\ SetWorkflow(p, pending)
    /\ Enqueue(p, rev + 1, at, flowUntil)
    /\ UNCHANGED reservations

AllocateFull(p, rev, at, config) ==
    /\ config.status = "active"
    /\ ~ SlotIsFree(p, at, config)
    /\ ~ config.queueEnabled
    /\ SetPass(p, "denied", rev + 1)
    /\ SetWorkflow(p, {})
    /\ UNCHANGED flowRows

Allocate(p, rev, at, config, pending) ==
    \E slotEnd \in SlotEnds :
        LET flowUntil == FlowUntil(at, slotEnd) IN
        \/ AllocateUnavailable(p, rev, config)
        \/ AllocateReady(p, rev, at, config, flowUntil, pending)
        \/ AllocateQueued(p, rev, at, config, flowUntil, pending)
        \/ AllocateFull(p, rev, at, config)

(* reconcilePendingApprovals: which pending approvals a decision leaves. *)
ApprovalsAfter(decision) ==
    CASE decision = "approval_required" -> {{"approval"}}
      [] decision = "override_required" -> {{}, {"approval"}}
      [] OTHER -> {{}}

FaultyDenyByPolicy(p, from, rev) ==                 \* matrix not consulted
    /\ SetPass(p, "denied", rev + 1)
    /\ SetWorkflow(p, {})
    /\ UNCHANGED flowRows

(* A denial in the policy tail releases no flow row, whatever the state. *)
DenyByPolicy(p, from, rev) ==
    /\ CanTransition(from, "denied")
    /\ SetPass(p, "denied", rev + 1)
    /\ SetWorkflow(p, {})
    /\ UNCHANGED flowRows

KeepState(p, from, rev, pending) ==
    /\ SetPass(p, from, rev)
    /\ SetWorkflow(p, pending)
    /\ UNCHANGED flowRows

(* Evaluate at revision rev, persist, reconcile approvals, apply. *)
EvaluateAndApply(p, from, rev, decision, k, overrides) ==
    /\ RecordEvaluation(p, rev, decision)
    /\ \E approvals \in ApprovalsAfter(decision) :
          LET pending == approvals \cup overrides IN
          \/ decision = "deny" /\ DenyByPolicy(p, from, rev)
          \/ /\ decision = "allow" /\ from = "requested"
             /\ Allocate(p, rev, k.at, k.config, pending)
          \/ /\ ~ (decision = "deny")
             /\ ~ (decision = "allow" /\ from = "requested")
             /\ KeepState(p, from, rev, pending)

---------------------------------------------------------------------------
(* Commands in flight.                                                     *)

(* The client knows the pass at its current revision; an older If-Match,   *)
(* or a command that is already out of place, can only fail.  Creation     *)
(* also looks at the destination's status first.                           *)
Issue(op, p) ==
    /\ Cardinality(inflight) < MaxInFlight
    /\ IF op = "request"
       THEN /\ InState(p, {"absent"})
            /\ destination[DestOf[p]].status = "active"
       ELSE InState(p, ActiveStates)
    /\ op = "approval" => InState(p, {"requested"}) /\ "approval" \in workflow[p]
    /\ op = "override_request" => "override" \notin workflow[p]
    /\ op = "override_resolve" => "override" \in workflow[p]
    /\ op = "depart" => InState(p, {"ready"})
    /\ op # "depart" => /\ clock + QueueTimeout <= MaxTime
                        /\ Rev(p) < MaxRevision
    /\ inflight' = inflight \cup
          {[op |-> op, pass |-> p, at |-> clock, rev |-> Rev(p),
            config |-> destination[DestOf[p]]]}
    /\ UNCHANGED <<clock, pass, flowRows, destination, evaluation, workflow, worker>>

(* The allocator's unlocked read of the destination row. *)
RereadDestination(k) ==
    LET current == destination[DestOf[k.pass]] IN
    /\ k.op # "depart"
    /\ k.config # current
    /\ inflight' = (inflight \ {k}) \cup {[k EXCEPT !.config = current]}
    /\ UNCHANGED <<clock, pass, flowRows, destination, evaluation, workflow, worker>>

(* Refused, failed, or lost with its server: nothing was written. *)
Abandon(k) ==
    /\ inflight' = inflight \ {k}
    /\ UNCHANGED <<clock, pass, flowRows, destination, evaluation, workflow, worker>>

Committed(k) ==
    /\ inflight' = inflight \ {k}
    /\ UNCHANGED <<clock, destination, worker>>

(* The partial unique index admits one active pass per student. *)
CommitRequest(k) ==
    /\ k.op = "request"
    /\ InState(k.pass, {"absent"})
    /\ \A q \in Passes : StudentOf[q] = StudentOf[k.pass] => ~ InState(q, ActiveStates)
    /\ \E decision \in Decisions :
          EvaluateAndApply(k.pass, "requested", 1, decision, k, {})
    /\ Committed(k)

CommitApproval(k) ==
    /\ k.op = "approval"
    /\ Rev(k.pass) = k.rev
    /\ InState(k.pass, {"requested"})
    /\ "approval" \in workflow[k.pass]
    /\ \E decision \in Decisions :
          EvaluateAndApply(k.pass, "requested", k.rev + 1, decision, k,
                           workflow[k.pass] \ {"approval"})
    /\ Committed(k)

(* One overrideable rule per pass.  A blocker must be found in the latest  *)
(* evaluation, or an evaluation be persisted at the current revision,      *)
(* which has room for one only.                                            *)
CommitOverrideRequest(k) ==
    LET p == k.pass IN
    /\ k.op = "override_request"
    /\ Rev(p) = k.rev
    /\ InState(p, ActiveStates)
    /\ "override" \notin workflow[p]
    /\ \/ evaluation[p].decision \in {"approval_required", "override_required"}
       \/ evaluation[p].rev # k.rev
    /\ \/ \E decision \in Decisions \cap {"allow", "approval_required"} :
             EvaluateAndApply(p, pass[p].state, k.rev + 1, decision, k, {})
       \/ \E decision \in Decisions \cap {"approval_required", "override_required"} :
             EvaluateAndApply(p, pass[p].state, k.rev + 1, decision, k, {"override"})
    /\ Committed(k)

CommitOverrideResolve(k) ==
    LET p == k.pass IN
    /\ k.op = "override_resolve"
    /\ Rev(p) = k.rev
    /\ InState(p, ActiveStates)
    /\ "override" \in workflow[p]
    /\ \E decision \in Decisions :
          EvaluateAndApply(p, pass[p].state, k.rev + 1, decision, k, {})
    /\ Committed(k)

FaultyCommitDepart(k) ==                            \* If-Match not compared
    LET p == k.pass IN
    /\ k.op = "depart"
    /\ InState(p, {"ready"})
    /\ destination[DestOf[p]].status = "active"
    /\ \E o \in ReservationsOf(p) :
          /\ o.claimedAt = Unclaimed
          /\ k.at < o.readyUntil
          /\ k.at < o.flowUntil
          /\ reservations' = (reservations \ {o}) \cup
                {[o EXCEPT !.claimedAt = k.at, !.late = clock >= o.readyUntil]}
    /\ pass' = [pass EXCEPT ![p] = [state |-> "outbound", rev |-> Rev(p) + 1,
                                    mode |-> destination[DestOf[p]].mode]]
    /\ UNCHANGED <<queue, evaluation, workflow>>
    /\ Committed(k)

(* The offer is judged at the command's instant; the capacity is not       *)
(* counted again.  "late" records, for the properties only, that the offer *)
(* had already run out when the claim was written.                         *)
CommitDepart(k) ==
    LET p == k.pass IN
    /\ k.op = "depart"
    /\ Rev(p) = k.rev
    /\ InState(p, {"ready"})
    /\ destination[DestOf[p]].status = "active"
    /\ \E o \in ReservationsOf(p) :
          /\ o.claimedAt = Unclaimed
          /\ k.at < o.readyUntil
          /\ k.at < o.flowUntil
          /\ reservations' = (reservations \ {o}) \cup
                {[o EXCEPT !.claimedAt = k.at, !.late = clock >= o.readyUntil]}
    /\ pass' = [pass EXCEPT ![p] = [state |-> "outbound", rev |-> k.rev + 1,
                                    mode |-> destination[DestOf[p]].mode]]
    /\ UNCHANGED <<queue, evaluation, workflow>>
    /\ Committed(k)

---------------------------------------------------------------------------
(* Commands whose instant decides nothing: one step.                       *)

ReleaseAll(p) ==
    /\ reservations' = reservations \ ReservationsOf(p)
    /\ queue' = queue \ EntriesOf(p)

FaultyCancelSelf(p) ==                              \* forgets the offer
    /\ InState(p, Lifecycle!CancellableStates)
    /\ SetPass(p, "cancelled", Rev(p) + 1)
    /\ queue' = queue \ EntriesOf(p)
    /\ SetWorkflow(p, {})
    /\ UNCHANGED <<clock, reservations, destination, evaluation, inflight, worker>>

CancelSelf(p) ==
    /\ InState(p, Lifecycle!CancellableStates)
    /\ SetPass(p, "cancelled", Rev(p) + 1)
    /\ CASE InState(p, {"queued"}) ->
                queue' = queue \ EntriesOf(p) /\ UNCHANGED reservations
         [] InState(p, {"ready"}) ->
                reservations' = reservations \ ReservationsOf(p) /\ UNCHANGED queue
         [] OTHER -> UNCHANGED flowRows
    /\ SetWorkflow(p, {})
    /\ UNCHANGED <<clock, destination, evaluation, inflight, worker>>

Moved(p, state) ==
    /\ SetPass(p, state, Rev(p) + 1)
    /\ UNCHANGED <<clock, destination, evaluation, workflow, inflight, worker>>

(* By the student when check-in is optional, by the station when it is not *)
(* "none".                                                                 *)
Arrive(p) ==
    /\ InState(p, {"outbound"})
    /\ pass[p].mode \in {"optional", "required"}
    /\ Moved(p, "at_destination")
    /\ UNCHANGED flowRows

BeginReturn(p) ==
    /\ InState(p, {"at_destination"})
    /\ Moved(p, "returning")
    /\ reservations' = reservations \ ReservationsOf(p)
    /\ UNCHANGED queue

(* By the student; the station too completes a pass at_destination. *)
Complete(p) ==
    /\ \/ InState(p, {"returning"})
       \/ InState(p, {"outbound"}) /\ pass[p].mode # "required"
       \/ InState(p, {"at_destination"})
    /\ Moved(p, "completed")
    /\ reservations' = reservations \ ReservationsOf(p)
    /\ UNCHANGED queue

---------------------------------------------------------------------------
(* Administrators.                                                         *)

SetDestination(d, config) ==
    /\ config \in Configs[d]
    /\ config # destination[d]
    /\ destination' = [destination EXCEPT ![d] = config]
    /\ UNCHANGED <<clock, pass, flowRows, evaluation, workflow, inflight, worker>>

UpdateDestination(d, config) ==
    /\ destination[d].status # "archived"
    /\ config.status = destination[d].status
    /\ SetDestination(d, config)

SameButStatus(d, config) == [config EXCEPT !.status = destination[d].status] = destination[d]

OpenOrClose(d, config) ==
    /\ {config.status, destination[d].status} = {"active", "closed"}
    /\ SameButStatus(d, config)
    /\ SetDestination(d, config)

FaultyArchive(d, config) ==                         \* active passes not checked
    /\ destination[d].status # "archived"
    /\ config.status = "archived"
    /\ SameButStatus(d, config)
    /\ SetDestination(d, config)

(* Only the archive command takes the flow lock, and it sees only passes   *)
(* that are already inserted.                                              *)
Archive(d, config) ==
    /\ destination[d].status # "archived"
    /\ config.status = "archived"
    /\ SameButStatus(d, config)
    /\ \A p \in Passes : DestOf[p] = d => ~ InState(p, ActiveStates)
    /\ SetDestination(d, config)

---------------------------------------------------------------------------
(* The reconciler: one batch scans the stages in order with one instant.   *)

SetWorker(w, record) == worker' = [worker EXCEPT ![w] = record]
AtStage(w, stage) == worker[w].stage = stage

FaultyNextStage(stage) ==                           \* never expires the queue
    CASE stage = "stale_ready" -> "unavailable"
      [] stage = "unavailable" -> "promotion"
      [] stage = "promotion" -> "orphaned"
      [] OTHER -> "idle"

NextStage(stage) ==
    CASE stage = "stale_ready" -> "expired_queue"
      [] stage = "expired_queue" -> "unavailable"
      [] stage = "unavailable" -> "promotion"
      [] stage = "promotion" -> "orphaned"
      [] OTHER -> "idle"

EnterStage(w, stage) ==
    SetWorker(w, [stage |-> stage,
                  at |-> IF stage = "idle" THEN 0 ELSE worker[w].at,
                  todo |-> IF stage = "promotion"
                           THEN {d \in Destinations : EntriesAt(d) # {}} ELSE {},
                  found |-> {}])

StartBatch(w) ==
    /\ AtStage(w, "idle")
    /\ SetWorker(w, [stage |-> "stale_ready", at |-> clock, todo |-> {}, found |-> {}])
    /\ UNCHANGED <<clock, pass, flowRows, destination, evaluation, workflow, inflight>>

RowId(row) == [pass |-> row.pass, born |-> row.born]

(* The candidate queries, for the stages that look at the whole tenant.    *)
StaleReady(at) == {o \in reservations : /\ InState(o.pass, {"ready"})
                                        /\ o.claimedAt = Unclaimed
                                        /\ o.readyUntil <= at}
ExpiredQueue(at) == {e \in queue : /\ InState(e.pass, {"queued"})
                                   /\ e.flowUntil <= at}
UnavailableFlow ==
    {r \in queue \cup {o \in reservations : o.claimedAt = Unclaimed} :
        /\ InState(r.pass, {"queued", "ready"})
        /\ destination[DestOf[r.pass]].status # "active"}
FaultyOrphanedRows ==                               \* forgets denied passes
    {r \in queue \cup reservations :
        InState(r.pass, {"completed", "cancelled", "expired"})}
OrphanedRows == {r \in queue \cup reservations : InState(r.pass, TerminalStates)}

CandidateRows(stage, at) ==
    CASE stage = "stale_ready" ->
            {o \in StaleReady(at) : \A q \in StaleReady(at) : o.readyUntil <= q.readyUntil}
      [] stage = "expired_queue" ->
            {e \in ExpiredQueue(at) : \A f \in ExpiredQueue(at) : e.flowUntil <= f.flowUntil}
      [] stage = "unavailable" -> UnavailableFlow
      [] stage = "orphaned" -> OrphanedRows
      [] OTHER -> {}

Discover(w) ==
    LET rows == CandidateRows(worker[w].stage, worker[w].at) IN
    /\ worker[w].stage \in {"stale_ready", "expired_queue", "unavailable", "orphaned"}
    /\ worker[w].found = {}
    /\ \/ \E row \in rows : SetWorker(w, [worker[w] EXCEPT !.found = {RowId(row)}])
       \/ rows = {} /\ EnterStage(w, NextStage(worker[w].stage))
    /\ UNCHANGED <<clock, pass, flowRows, destination, evaluation, workflow, inflight>>

(* The promotion stage visits each queued destination once.  This is the   *)
(* read of the head that counts: under the pass lock, before the           *)
(* destination lock.  A head that is not a live queued pass defers.        *)
DiscoverHead(w) ==
    /\ AtStage(w, "promotion")
    /\ worker[w].found = {}
    /\ \/ /\ worker[w].todo = {}
          /\ EnterStage(w, NextStage("promotion"))
       \/ \E d \in worker[w].todo :
             SetWorker(w, [worker[w] EXCEPT
                 !.todo = @ \ {d},
                 !.found = {RowId(e) : e \in {h \in QueueHeads(d) :
                                 /\ InState(h.pass, {"queued"})
                                 /\ worker[w].at < h.flowUntil}}])
    /\ UNCHANGED <<clock, pass, flowRows, destination, evaluation, workflow, inflight>>

(* A handler that did its work: the batch goes on with the same instant,   *)
(* or stops at its limit.  One that found nothing left to do: next stage.  *)
Done(w) == \E stage \in {"stale_ready", "idle"} : EnterStage(w, stage)
GiveUp(w) ==
    /\ IF AtStage(w, "promotion")
       THEN SetWorker(w, [worker[w] EXCEPT !.found = {}])
       ELSE EnterStage(w, NextStage(worker[w].stage))
    /\ UNCHANGED <<pass, flowRows, evaluation, workflow>>

Handling(w) == UNCHANGED <<clock, destination, inflight>>

FaultyEnd(p, state) ==                              \* pending workflow survives
    SetPass(p, state, Rev(p) + 1) /\ UNCHANGED workflow
End(p, state) == SetPass(p, state, Rev(p) + 1) /\ SetWorkflow(p, {})

HandleStaleReady(w) ==
    /\ AtStage(w, "stale_ready")
    /\ \E c \in worker[w].found :
        LET p == c.pass
            d == DestOf[p]
            now == worker[w].at
            missed == {o \in ReservationsOf(p) :
                          o.born = c.born /\ o.claimedAt = Unclaimed /\ o.readyUntil <= now}
            mayRequeue(o) == /\ now < o.flowUntil
                             /\ destination[d].queueEnabled
                             /\ OthersWaiting(d, p) # {}
        IN
        \/ /\ InState(p, {"ready"})
           /\ \E o \in missed :
                 /\ reservations' = reservations \ {o}
                 /\ \/ /\ destination[d].status # "active"
                       /\ End(p, "denied")
                       /\ UNCHANGED queue
                    \/ /\ destination[d].status = "active"
                       /\ ~ mayRequeue(o)
                       /\ End(p, "expired")
                       /\ UNCHANGED queue
                    \/ /\ destination[d].status = "active"
                       /\ mayRequeue(o)
                       /\ Enqueue(p, Rev(p) + 1, now, o.flowUntil)
                       /\ SetPass(p, "queued", Rev(p) + 1)
                       /\ UNCHANGED workflow
           /\ UNCHANGED evaluation
           /\ Done(w)
        \/ /\ ~ InState(p, {"ready"}) \/ missed = {}
           /\ GiveUp(w)
    /\ Handling(w)

HandleExpiredQueue(w) ==
    /\ AtStage(w, "expired_queue")
    /\ \E c \in worker[w].found :
        LET p == c.pass
            timedOut == {e \in EntriesOf(p) : e.flowUntil <= worker[w].at}
        IN
        \/ /\ InState(p, {"queued"})
           /\ timedOut # {}
           /\ queue' = queue \ timedOut
           /\ End(p, "expired")
           /\ UNCHANGED <<reservations, evaluation>>
           /\ Done(w)
        \/ /\ ~ InState(p, {"queued"}) \/ timedOut = {}
           /\ GiveUp(w)
    /\ Handling(w)

(* CHECK (released_at >= entered_at), and the same for reservations: a     *)
(* batch cannot release a row younger than its own instant.                *)
TooYoung(w, p) ==
    \/ \E e \in EntriesOf(p) : worker[w].at < e.enteredAt
    \/ \E o \in ReservationsOf(p) : worker[w].at < o.reservedAt

(* Discover stands for the read of the destination that counts: under the  *)
(* pass lock, before the destination lock.  By now it may be open again.   *)
HandleUnavailable(w) ==
    /\ AtStage(w, "unavailable")
    /\ \E c \in worker[w].found :
        LET p == c.pass
            row == IF InState(p, {"queued"})
                   THEN {e \in EntriesOf(p) : e.born = c.born}
                   ELSE IF InState(p, {"ready"})
                        THEN {o \in ReservationsOf(p) :
                                 o.born = c.born /\ o.claimedAt = Unclaimed}
                        ELSE {}
        IN
        \/ /\ row # {}
           /\ ~ TooYoung(w, p)
           /\ reservations' = reservations \ row
           /\ queue' = queue \ row
           /\ End(p, "denied")
           /\ UNCHANGED evaluation
           /\ Done(w)
        \/ row = {} /\ GiveUp(w)
    /\ Handling(w)

(* What the promotion transaction still checks under both locks. *)
Promotable(w, c) ==
    LET d == DestOf[c.pass] IN
    /\ InState(c.pass, {"queued"})
    /\ \E e \in EntriesOf(c.pass) : e.born = c.born
    /\ destination[d].status = "active"
    /\ HasRoom(destination[d], d, worker[w].at)

(* One evaluation per pass revision: a second insert violates the index.   *)
EvaluationClash(p) == evaluation[p].rev = Rev(p)

HandlePromotion(w) ==
    /\ AtStage(w, "promotion")
    /\ \E c \in worker[w].found :
        LET p == c.pass IN
        \/ /\ Promotable(w, c)
           /\ ~ EvaluationClash(p)
           /\ ~ TooYoung(w, p)
           /\ \E decision \in Decisions, e \in EntriesOf(p) :
                /\ e.born = c.born
                /\ RecordEvaluation(p, Rev(p), decision)
                /\ queue' = queue \ {e}
                /\ \/ /\ decision = "deny"
                      /\ End(p, "denied")
                      /\ UNCHANGED reservations
                   \/ /\ decision \in {"approval_required", "override_required"}
                      /\ SetPass(p, "requested", Rev(p) + 1)
                      /\ \E approvals \in ApprovalsAfter(decision) :
                            SetWorkflow(p, approvals \cup (workflow[p] \cap {"override"}))
                      /\ UNCHANGED reservations
                   \/ /\ decision = "allow"
                      /\ SetPass(p, "ready", Rev(p) + 1)
                      /\ SetWorkflow(p, workflow[p] \cap {"override"})
                      /\ reservations' = reservations \cup
                            {Offer(p, Rev(p) + 1, worker[w].at, e.flowUntil)}
           /\ Done(w)
        \/ ~ Promotable(w, c) /\ GiveUp(w)
    /\ Handling(w)

HandleOrphans(w) ==
    /\ AtStage(w, "orphaned")
    /\ \E c \in worker[w].found :
        LET p == c.pass
            rows == ReservationsOf(p) \cup EntriesOf(p)
        IN
        \/ /\ InState(p, TerminalStates)
           /\ rows # {}
           /\ ~ TooYoung(w, p)
           /\ ReleaseAll(p)
           /\ UNCHANGED <<pass, evaluation, workflow>>
           /\ Done(w)
        \/ /\ ~ InState(p, TerminalStates) \/ rows = {}
           /\ GiveUp(w)
    /\ Handling(w)

(* A constraint of the database ends the transaction and with it the batch. *)
AbortBatch(w) ==
    /\ \E c \in worker[w].found :
        \/ AtStage(w, "unavailable") /\ TooYoung(w, c.pass)
        \/ AtStage(w, "orphaned") /\ TooYoung(w, c.pass)
        \/ /\ AtStage(w, "promotion")
           /\ Promotable(w, c)
           /\ EvaluationClash(c.pass) \/ TooYoung(w, c.pass)
    /\ EnterStage(w, "idle")
    /\ UNCHANGED <<clock, pass, flowRows, destination, evaluation, workflow, inflight>>

(* The process dies; the next tick of a restarted one begins a new batch. *)
Crash(w) ==
    /\ CrashesAllowed
    /\ ~ AtStage(w, "idle")
    /\ EnterStage(w, "idle")
    /\ UNCHANGED <<clock, pass, flowRows, destination, evaluation, workflow, inflight>>

---------------------------------------------------------------------------

Tick ==
    /\ clock < MaxTime
    /\ \A k \in inflight : clock < k.at + MaxCommandLag
    /\ \A w \in Workers : AtStage(w, "idle") \/ clock < worker[w].at + MaxBatchLag
    /\ clock' = clock + 1
    /\ UNCHANGED <<pass, flowRows, destination, evaluation, workflow, inflight, worker>>

Commit(k) ==
    \/ CommitRequest(k) \/ CommitApproval(k)
    \/ CommitOverrideRequest(k) \/ CommitOverrideResolve(k)
    \/ CommitDepart(k)

Handle(w) ==
    \/ HandleStaleReady(w) \/ HandleExpiredQueue(w) \/ HandleUnavailable(w)
    \/ HandlePromotion(w) \/ HandleOrphans(w)

Reconcile(w) == StartBatch(w) \/ Discover(w) \/ DiscoverHead(w) \/ Handle(w) \/ AbortBatch(w)

Next ==
    \/ \E op \in Operations, p \in Passes : Issue(op, p)
    \/ \E k \in inflight : Commit(k) \/ RereadDestination(k) \/ Abandon(k)
    \/ \E p \in Passes : CancelSelf(p) \/ Arrive(p) \/ BeginReturn(p) \/ Complete(p)
    \/ \E d \in Destinations : \E config \in Configs[d] :
          UpdateDestination(d, config) \/ OpenOrClose(d, config) \/ Archive(d, config)
    \/ \E w \in Workers : Reconcile(w) \/ Crash(w)
    \/ Tick

Spec == Init /\ [][Next]_vars

(* Time passes, every request is answered or lost, and every replica polls *)
(* again after each batch, whatever it threw.                              *)
Fairness ==
    /\ WF_vars(Tick)
    /\ WF_vars(\E k \in inflight : Commit(k) \/ Abandon(k))
    /\ \A w \in Workers : WF_vars(Reconcile(w))

FairSpec == Spec /\ Fairness

---------------------------------------------------------------------------
(* Properties.                                                             *)

(* Every variable keeps its type. *)
TypeOK ==
    /\ clock \in Nat
    /\ pass \in [Passes -> PassRecords]
    /\ reservations \subseteq Reservations
    /\ queue \subseteq Entries
    /\ destination \in [Destinations -> ConfigRecords]
    /\ evaluation \in [Passes -> [rev : Nat, decision : PolicyDecisions]]
    /\ workflow \in [Passes -> SUBSET {"approval", "override"}]
    /\ inflight \subseteq Commands
    /\ worker \in [Workers -> WorkerRecords]

(* The state of a pass and its flow rows agree, whichever of a dozen       *)
(* transactions wrote last: a ready pass holds exactly one unclaimed offer, *)
(* a queued pass exactly one queue entry, a student on the way out or at   *)
(* the destination exactly one claimed slot, and nobody else holds         *)
(* anything, but for the rows a policy denial strands on a denied pass,    *)
(* which are never claimed ones.                                           *)
OneEntryEach == \A e, f \in queue : e.pass = f.pass => e = f
OneOfferEach == \A o, q \in reservations : o.pass = q.pass => o = q
RowsMatchState ==
    /\ \A p \in Passes :
        /\ InState(p, {"ready"}) <=>
              \E o \in ReservationsOf(p) : o.claimedAt = Unclaimed /\ ~ InState(p, {"denied"})
        /\ InState(p, {"queued"}) <=> EntriesOf(p) # {} /\ ~ InState(p, {"denied"})
        /\ InState(p, {"outbound", "at_destination"}) <=>
              \E o \in ReservationsOf(p) : o.claimedAt # Unclaimed
    /\ OneEntryEach
    /\ OneOfferEach
    /\ \A o \in reservations, e \in queue : o.pass # e.pass

(* Offers and entries keep the order of instants the schema's checks       *)
(* demand, so no command ever fails on them: an offer ends after it began  *)
(* and no later than the attempt, and a claim lies inside the offer.       *)
OffersCoherent ==
    /\ \A o \in reservations :
          /\ o.reservedAt < o.readyUntil
          /\ o.readyUntil <= o.flowUntil
          /\ o.claimedAt # Unclaimed => o.reservedAt <= o.claimedAt /\ o.claimedAt < o.readyUntil
    /\ \A e \in queue : e.enteredAt < e.flowUntil

(* What commands and batches carry from the past is never ahead of what    *)
(* they meet: no instant lies in the future, no row or command is of a     *)
(* later revision than its pass, a command that still knows the current    *)
(* revision was issued no earlier than the offer it will claim, and a      *)
(* queue head a batch has picked has time left at the batch's instant.     *)
PastInstants ==
    /\ \A k \in inflight : k.at <= clock
    /\ \A w \in Workers : worker[w].at <= clock
    /\ \A o \in reservations : o.reservedAt <= clock
PastRevisions ==
    /\ \A p \in Passes : InState(p, {"absent"}) => Rev(p) = 0
    /\ \A k \in inflight : k.rev <= Rev(k.pass)
    /\ \A r \in reservations \cup queue : r.born <= Rev(r.pass)
    /\ \A w \in Workers : \A c \in worker[w].found : c.born <= Rev(c.pass)
CommandsFollowOffers ==
    \A k \in inflight : k.rev = Rev(k.pass) =>
        \A o \in ReservationsOf(k.pass) : o.reservedAt <= k.at
HeadsHaveTime ==
    \A w \in Workers : AtStage(w, "promotion") =>
        \A c \in worker[w].found : \A e \in EntriesOf(c.pass) :
            e.born = c.born => worker[w].at < e.flowUntil
NothingFromTheFuture ==
    PastInstants /\ PastRevisions /\ CommandsFollowOffers /\ HeadsHaveTime

(* The students who hold or are offered a slot of a destination never      *)
(* outnumber the largest capacity it was ever given, except for those      *)
(* whose departure was written after their offer had run out: commands     *)
(* that carry old instants, replicas that promote with old batches and     *)
(* destinations read before the lock never add another one.                *)
CapacityExceptLateClaims ==
    \A d \in Destinations : \A most \in {c.capacity : c \in Configs[d]} :
        (\A c \in Configs[d] : c.capacity # Unlimited /\ c.capacity <= most) =>
            Cardinality({o \in ConsumingReservations(d, clock) : ~ o.late}) <= most

(* No override or timing brings a destination above its physical capacity. *)
CapacityRespected ==
    \A d \in Destinations : destination[d].capacity # Unlimited =>
        Cardinality(ConsumingReservations(d, clock)) <= destination[d].capacity

(* Every step of every actor follows the lifecycle matrix and the revision *)
(* discipline: DestinationFlow implements PassLifecycle.                   *)
LifecycleRespected == Lifecycle!Spec

(* Denying, cancelling and expiring a pass withdraws the approvals and     *)
(* overrides still pending on it, and nothing adds one to it afterwards.   *)
RefusedPassesAreQuiet ==
    \A p \in Passes :
        InState(p, {"denied", "cancelled", "expired"}) => workflow[p] = {}

(* An archived destination has nobody on the way to it, at it or on the    *)
(* way back, although a request checked against the open destination can   *)
(* still insert its pass, and offer it a slot, after the archive command   *)
(* found no active pass.                                                   *)
ArchivedHasNoMovement ==
    \A p \in Passes : destination[DestOf[p]].status = "archived" =>
        ~ InState(p, {"outbound", "at_destination", "returning"})

(* A queued pass can always be evaluated again at its revision: the schema *)
(* admits one evaluation per revision, and promotion persists one.         *)
PromotionCanEvaluate ==
    \A p \in Passes : InState(p, {"queued"}) => evaluation[p].rev < Rev(p)

(* The deadline of an attempt is fixed when the pass is allocated: being   *)
(* promoted, missing the offer and waiting again, or having an override    *)
(* decided meanwhile never extend it.                                      *)
Deadlines(p) == {r.flowUntil : r \in ReservationsOf(p) \cup EntriesOf(p)}
DeadlineInherited ==
    [][\A p \in Passes : (InState(p, {"queued", "ready"}) /\ InState(p, {"queued", "ready"})')
                              => Deadlines(p)' = Deadlines(p)]_vars

(* Whoever is offered a slot passes over nobody: not a newcomer while      *)
(* others wait (where the queue is always in use), and not a promoted pass *)
(* while another waits that joined before it by the clock and by           *)
(* insertion, even if several replicas promote and requeue at once.        *)
PassesOver(p, f) ==
    IF InState(p, {"queued"})
    THEN \E e \in EntriesOf(p) : f.enteredAt < e.enteredAt /\ f.ord < e.ord
    ELSE \A c \in Configs[DestOf[p]] : c.queueEnabled
NobodyPassedOver ==
    [][\A p \in Passes : (~ InState(p, {"ready"}) /\ InState(p, {"ready"})') =>
          \A f \in OthersWaiting(DestOf[p], p) : ~ PassesOver(p, f)]_vars

(* A flow row outlives a denial only until the reconciler reaches it: no   *)
(* row belongs to a terminal pass for ever.                                *)
StrandedRowsReleased ==
    \A p \in Passes :
        (InState(p, TerminalStates) /\ Deadlines(p) # {}) ~> (Deadlines(p) = {})

(* Nobody is queued, or offered a slot, for ever: the reconciler promotes, *)
(* requeues, denies or expires, whatever administrators do and even when   *)
(* its batches abort on the one evaluation per revision.                   *)
EveryWaitEnds ==
    \A p \in Passes : InState(p, {"queued", "ready"}) ~> ~ InState(p, {"queued", "ready"})

===========================================================================
