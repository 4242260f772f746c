----------------------- MODULE DestinationFlowProofs -----------------------
(* Theorems of DestinationFlow, for every value of its constants. *)
EXTENDS DestinationFlow, TLAPS

USE DEF InState, Rev, EntriesOf, ReservationsOf

(* The operators on rows return rows. *)
LEMMA DeadlineTypes ==
    ASSUME NEW at \in Nat, NEW slotEnd \in SlotEnds, NEW flowUntil \in Nat
    PROVE  /\ FlowUntil(at, slotEnd) \in Nat
           /\ ReadyUntil(at, flowUntil) \in Nat
BY TimeAssumption DEF FlowUntil, ReadyUntil

(* A new offer is a row of its table.                                      *)
LEMMA OfferType ==
    ASSUME NEW p \in Passes, NEW born \in Nat, NEW at \in Nat,
           NEW flowUntil \in Nat
    PROVE  Offer(p, born, at, flowUntil) \in Reservations
<1>1. ReadyUntil(at, flowUntil) \in Nat
  BY TimeAssumption DEF ReadyUntil
<1> QED
  BY <1>1 DEF Offer, Reservations

(* A new entry is a row of its table.                                      *)
LEMMA EnqueueType ==
    ASSUME queue \subseteq Entries, NEW p \in Passes, NEW born \in Nat,
           NEW at \in Nat, NEW flowUntil \in Nat,
           Enqueue(p, born, at, flowUntil)
    PROVE  queue' \subseteq Entries
<1>1. NextOrds \subseteq Nat
  BY DEF NextOrds, Entries
<1>2. PICK n \in NextOrds :
        queue' = (queue \ EntriesOf(p)) \cup
                 {[pass |-> p, born |-> born, enteredAt |-> at,
                   flowUntil |-> flowUntil, ord |-> n]}
  BY DEF Enqueue
<1> QED
  BY <1>1, <1>2 DEF Entries

(* A written pass is a row of its table.                                   *)
LEMMA SetPassType ==
    ASSUME pass \in [Passes -> PassRecords], NEW p \in Passes,
           NEW state \in States, NEW rev \in Nat, SetPass(p, state, rev)
    PROVE  pass' \in [Passes -> PassRecords]
BY DEF SetPass, PassRecords

FlowTypes == /\ pass \in [Passes -> PassRecords]
             /\ reservations \subseteq Reservations
             /\ queue \subseteq Entries
             /\ evaluation \in [Passes -> [rev : Nat, decision : PolicyDecisions]]
             /\ workflow \in [Passes -> SUBSET {"approval", "override"}]

(* The states the code names are the states there are.                     *)
LEMMA StateNames ==
    /\ ActiveStates \subseteq States
    /\ TerminalStates \subseteq States
    /\ {"requested", "queued", "ready", "outbound", "at_destination", "returning",
        "completed", "denied", "cancelled", "expired"} \subseteq States
BY DEF States, ActiveStates, TerminalStates, Lifecycle!States,
       Lifecycle!ActiveStates, Lifecycle!TerminalStates

(* The policy tail keeps the types of the five variables it writes. *)
LEMMA EvaluateAndApplyType ==
    ASSUME FlowTypes, NEW p \in Passes, NEW from \in States, NEW rev \in Nat,
           NEW decision \in PolicyDecisions, NEW k \in Commands,
           NEW overrides \in SUBSET {"approval", "override"},
           EvaluateAndApply(p, from, rev, decision, k, overrides)
    PROVE  FlowTypes'
<1>1. evaluation' \in [Passes -> [rev : Nat, decision : PolicyDecisions]]
  BY DEF EvaluateAndApply, RecordEvaluation, FlowTypes
<1>2. PICK approvals \in ApprovalsAfter(decision) :
        LET pending == approvals \cup overrides IN
          \/ decision = "deny" /\ DenyByPolicy(p, from, rev)
          \/ /\ decision = "allow" /\ from = "requested"
             /\ Allocate(p, rev, k.at, k.config, pending)
          \/ /\ ~ (decision = "deny")
             /\ ~ (decision = "allow" /\ from = "requested")
             /\ KeepState(p, from, rev, pending)
  BY DEF EvaluateAndApply
<1> DEFINE pending == approvals \cup overrides
<1>3. pending \in SUBSET {"approval", "override"}
  BY <1>2 DEF ApprovalsAfter
<1>4. ASSUME NEW kinds \in SUBSET {"approval", "override"}, SetWorkflow(p, kinds)
      PROVE  workflow' \in [Passes -> SUBSET {"approval", "override"}]
  BY <1>4 DEF SetWorkflow, FlowTypes
<1>5. rev + 1 \in Nat /\ k.at \in Nat
  BY DEF Commands
<1>6. CASE DenyByPolicy(p, from, rev)
  <2>1. pass' \in [Passes -> PassRecords]
    BY <1>5, <1>6, SetPassType, StateNames DEF DenyByPolicy, FlowTypes
  <2> QED
    BY <1>1, <1>4, <1>6, <2>1 DEF DenyByPolicy, FlowTypes, flowRows
<1>7. CASE KeepState(p, from, rev, pending)
  <2>1. pass' \in [Passes -> PassRecords]
    BY <1>7, SetPassType DEF KeepState, FlowTypes
  <2> QED
    BY <1>1, <1>3, <1>4, <1>7, <2>1 DEF KeepState, FlowTypes, flowRows
<1>8. CASE Allocate(p, rev, k.at, k.config, pending)
  <2>1. PICK slotEnd \in SlotEnds :
          LET flowUntil == FlowUntil(k.at, slotEnd) IN
          \/ AllocateUnavailable(p, rev, k.config)
          \/ AllocateReady(p, rev, k.at, k.config, flowUntil, pending)
          \/ AllocateQueued(p, rev, k.at, k.config, flowUntil, pending)
          \/ AllocateFull(p, rev, k.at, k.config)
    BY <1>8 DEF Allocate
  <2> DEFINE flowUntil == FlowUntil(k.at, slotEnd)
  <2>2. flowUntil \in Nat
    BY <1>5, DeadlineTypes
  <2>3. ASSUME NEW state \in {"denied", "ready", "queued"}, SetPass(p, state, rev + 1)
        PROVE  pass' \in [Passes -> PassRecords]
    BY <1>5, <2>3, SetPassType, StateNames DEF FlowTypes
  <2>4. CASE AllocateUnavailable(p, rev, k.config)
    BY <1>1, <1>4, <2>3, <2>4 DEF AllocateUnavailable, FlowTypes, flowRows
  <2>5. CASE AllocateReady(p, rev, k.at, k.config, flowUntil, pending)
    <3>1. reservations' \subseteq Reservations
      BY <1>5, <2>2, <2>5, OfferType DEF AllocateReady, FlowTypes
    <3> HIDE DEF pending, flowUntil
    <3> QED
      BY <1>1, <1>3, <1>4, <2>3, <2>5, <3>1 DEF AllocateReady, FlowTypes
  <2>6. CASE AllocateQueued(p, rev, k.at, k.config, flowUntil, pending)
    <3>1. queue' \subseteq Entries
      BY <1>5, <2>2, <2>6, EnqueueType DEF AllocateQueued, FlowTypes
    <3> HIDE DEF pending, flowUntil
    <3> QED
      BY <1>1, <1>3, <1>4, <2>3, <2>6, <3>1 DEF AllocateQueued, FlowTypes
  <2>7. CASE AllocateFull(p, rev, k.at, k.config)
    BY <1>1, <1>4, <2>3, <2>7 DEF AllocateFull, FlowTypes, flowRows
  <2> QED
    BY <2>1, <2>4, <2>5, <2>6, <2>7
<1> QED
  BY <1>2, <1>6, <1>7, <1>8

(* The stored configuration and empty tables have their types.             *)
LEMMA InitType == Init => TypeOK
<1> SUFFICES ASSUME Init PROVE TypeOK
  OBVIOUS
<1>1. destination \in [Destinations -> ConfigRecords]
  <2>1. PICK f \in [Destinations -> UNION {Configs[d] : d \in Destinations}] :
          /\ \A d \in Destinations : f[d] \in Configs[d]
          /\ destination = f
    BY DEF Init
  <2> QED
    BY <2>1, ConfigAssumption
<1> QED
  BY <1>1 DEF Init, TypeOK, PassRecords, States, Lifecycle!States, Modes,
              PolicyDecisions, WorkerRecords, Stages

(* A command that commits leaves the queue of commands in flight. *)
LEMMA CommitType ==
    ASSUME TypeOK, NEW k \in inflight, Commit(k)
    PROVE  TypeOK'
<1>0. /\ k \in Commands /\ k.pass \in Passes /\ k.rev \in Nat /\ k.at \in Nat
      /\ Decisions \subseteq PolicyDecisions
      /\ FlowTypes
      /\ "requested" \in States /\ pass[k.pass].state \in States
      /\ workflow[k.pass] \in SUBSET {"approval", "override"}
  BY VocabularyAssumption, StateNames DEF TypeOK, FlowTypes, Commands, PassRecords
<1>1. ASSUME FlowTypes', Committed(k) PROVE TypeOK'
  BY <1>1 DEF TypeOK, FlowTypes, Committed
<1>2. CASE CommitRequest(k)
  <2>1. PICK decision \in Decisions :
          EvaluateAndApply(k.pass, "requested", 1, decision, k, {})
    BY <1>2 DEF CommitRequest
  <2> QED
    BY <1>0, <1>1, <1>2, <2>1, EvaluateAndApplyType DEF CommitRequest
<1>3. CASE CommitApproval(k)
  <2>1. PICK decision \in Decisions :
          EvaluateAndApply(k.pass, "requested", k.rev + 1, decision, k,
                           workflow[k.pass] \ {"approval"})
    BY <1>3 DEF CommitApproval
  <2> QED
    BY <1>0, <1>1, <1>3, <2>1, EvaluateAndApplyType DEF CommitApproval
<1>4. CASE CommitOverrideRequest(k)
  <2>1. PICK decision \in Decisions, overrides \in {{}, {"override"}} :
          EvaluateAndApply(k.pass, pass[k.pass].state, k.rev + 1, decision, k, overrides)
    BY <1>4 DEF CommitOverrideRequest
  <2> QED
    BY <1>0, <1>1, <1>4, <2>1, EvaluateAndApplyType DEF CommitOverrideRequest
<1>5. CASE CommitOverrideResolve(k)
  <2>1. PICK decision \in Decisions :
          EvaluateAndApply(k.pass, pass[k.pass].state, k.rev + 1, decision, k, {})
    BY <1>5 DEF CommitOverrideResolve
  <2> QED
    BY <1>0, <1>1, <1>5, <2>1, EvaluateAndApplyType DEF CommitOverrideResolve
<1>6. CASE CommitDepart(k)
  <2> DEFINE p == k.pass
  <2>1. PICK o \in ReservationsOf(p) :
          reservations' = (reservations \ {o}) \cup
              {[o EXCEPT !.claimedAt = k.at, !.late = clock >= o.readyUntil]}
    BY <1>6 DEF CommitDepart
  <2>2. o \in Reservations
    BY <2>1 DEF TypeOK
  <2>3. [o EXCEPT !.claimedAt = k.at, !.late = clock >= o.readyUntil] \in Reservations
    <3>1. ASSUME NEW late \in BOOLEAN
          PROVE  [o EXCEPT !.claimedAt = k.at, !.late = late] \in Reservations
      BY <1>0, <2>2 DEF Reservations
    <3>2. (clock >= o.readyUntil) \in BOOLEAN
      OBVIOUS
    <3> QED
      BY <3>1, <3>2, Zenon
  <2>4. reservations' \subseteq Reservations
    BY <2>1, <2>3 DEF TypeOK
  <2>5. pass' \in [Passes -> PassRecords]
    <3>1. destination[DestOf[p]].mode \in Modes
      BY <1>0, PlacementAssumption DEF TypeOK, ConfigRecords
    <3> QED
      BY <1>0, <1>6, <3>1, StateNames DEF CommitDepart, TypeOK, PassRecords
  <2> QED
    BY <1>0, <1>1, <1>6, <2>4, <2>5 DEF CommitDepart, FlowTypes
<1> QED
  BY <1>2, <1>3, <1>4, <1>5, <1>6 DEF Commit

(* A batch that enters a stage keeps its type.                             *)
LEMMA StageTypes ==
    ASSUME TypeOK, NEW w \in Workers, NEW stage \in Stages, EnterStage(w, stage)
    PROVE  worker' \in [Workers -> WorkerRecords]
<1>1. [stage |-> stage,
       at |-> IF stage = "idle" THEN 0 ELSE worker[w].at,
       todo |-> IF stage = "promotion"
                THEN {d \in Destinations : EntriesAt(d) # {}} ELSE {},
       found |-> {}] \in WorkerRecords
  BY DEF TypeOK, WorkerRecords
<1> QED
  BY <1>1 DEF EnterStage, SetWorker, TypeOK

(* The stages follow one another.                                          *)
LEMMA StageNames ==
    /\ {"idle", "stale_ready", "expired_queue", "unavailable",
        "promotion", "orphaned"} = Stages
    /\ \A stage \in Stages : NextStage(stage) \in Stages
BY DEF Stages, NextStage

(* A batch that has handled a candidate keeps its type.                    *)
LEMMA DoneType ==
    ASSUME TypeOK, NEW w \in Workers, Done(w)
    PROVE  worker' \in [Workers -> WorkerRecords]
BY StageTypes, StageNames DEF Done

(* A batch that drops a candidate keeps every type.                        *)
LEMMA GiveUpType ==
    ASSUME TypeOK, NEW w \in Workers, GiveUp(w)
    PROVE  FlowTypes' /\ worker' \in [Workers -> WorkerRecords]
<1>1. worker[w] \in WorkerRecords
  BY DEF TypeOK
<1>2. CASE AtStage(w, "promotion")
  <2>1. [worker[w] EXCEPT !.found = {}] \in WorkerRecords
    BY <1>1 DEF WorkerRecords
  <2> QED
    BY <1>2, <2>1 DEF GiveUp, SetWorker, TypeOK, FlowTypes, flowRows
<1>3. CASE ~ AtStage(w, "promotion")
  <2>1. NextStage(worker[w].stage) \in Stages
    BY <1>1, StageNames DEF WorkerRecords
  <2> QED
    BY <1>3, <2>1, StageTypes DEF GiveUp, TypeOK, FlowTypes, flowRows
<1> QED
  BY <1>2, <1>3

(* The batch a reconciler runs keeps its type while it looks for work. *)
LEMMA SearchType ==
    ASSUME TypeOK, NEW w \in Workers,
           StartBatch(w) \/ Discover(w) \/ DiscoverHead(w) \/ AbortBatch(w) \/ Crash(w)
    PROVE  TypeOK'
<1>0. worker[w] \in WorkerRecords
  BY DEF TypeOK
<1>1. ASSUME worker' \in [Workers -> WorkerRecords],
             UNCHANGED <<clock, pass, flowRows, destination, evaluation, workflow, inflight>>
      PROVE  TypeOK'
  BY <1>1 DEF TypeOK, flowRows
<1>2. ASSUME NEW record \in WorkerRecords, SetWorker(w, record)
      PROVE  worker' \in [Workers -> WorkerRecords]
  BY <1>2 DEF SetWorker, TypeOK
<1>3. ASSUME NEW rows, rows \subseteq reservations \cup queue
      PROVE  {RowId(r) : r \in rows} \subseteq Candidates
  BY <1>3 DEF TypeOK, RowId, Candidates, Reservations, Entries
<1>4. CASE StartBatch(w)
  <2>1. [stage |-> "stale_ready", at |-> clock, todo |-> {}, found |-> {}] \in WorkerRecords
    BY DEF TypeOK, WorkerRecords, Stages
  <2> QED
    BY <1>1, <1>2, <1>4, <2>1 DEF StartBatch
<1>5. CASE Discover(w)
  <2> DEFINE rows == CandidateRows(worker[w].stage, worker[w].at)
  <2>1. rows \subseteq reservations \cup queue
    BY DEF CandidateRows, StaleReady, ExpiredQueue, UnavailableFlow, OrphanedRows
  <2>2. CASE \E row \in rows : SetWorker(w, [worker[w] EXCEPT !.found = {RowId(row)}])
    <3>1. PICK row \in rows : SetWorker(w, [worker[w] EXCEPT !.found = {RowId(row)}])
      BY <2>2
    <3>2. {RowId(row)} \subseteq Candidates
      BY <1>3, <2>1, <3>1
    <3>3. [worker[w] EXCEPT !.found = {RowId(row)}] \in WorkerRecords
      BY <1>0, <3>2 DEF WorkerRecords
    <3> QED
      BY <1>1, <1>2, <1>5, <3>1, <3>3 DEF Discover
  <2>3. CASE EnterStage(w, NextStage(worker[w].stage))
    BY <1>0, <1>1, <1>5, <2>3, StageTypes, StageNames DEF Discover, WorkerRecords
  <2> QED
    BY <1>5, <2>2, <2>3 DEF Discover
<1>6. CASE DiscoverHead(w)
  <2>1. CASE EnterStage(w, NextStage("promotion"))
    BY <1>1, <1>6, <2>1, StageTypes, StageNames DEF DiscoverHead
  <2>2. ASSUME NEW d \in worker[w].todo,
               SetWorker(w, [worker[w] EXCEPT
                 !.todo = @ \ {d},
                 !.found = {RowId(e) : e \in {h \in QueueHeads(d) :
                                 /\ InState(h.pass, {"queued"})
                                 /\ worker[w].at < h.flowUntil}}])
        PROVE  TypeOK'
    <3> DEFINE heads == {h \in QueueHeads(d) : /\ InState(h.pass, {"queued"})
                                              /\ worker[w].at < h.flowUntil}
               found == {RowId(e) : e \in heads}
    <3>1. heads \subseteq reservations \cup queue
      BY DEF QueueHeads, EntriesAt
    <3> HIDE DEF heads
    <3>2. found \subseteq Candidates
      BY <1>3, <3>1
    <3> HIDE DEF found
    <3>3. [worker[w] EXCEPT !.todo = @ \ {d}, !.found = found] \in WorkerRecords
      BY <1>0, <3>2 DEF WorkerRecords
    <3> QED
      BY <1>1, <1>2, <1>6, <2>2, <3>3 DEF DiscoverHead, found, heads
  <2> QED
    BY <1>6, <2>1, <2>2 DEF DiscoverHead
<1>7. CASE AbortBatch(w)
  BY <1>1, <1>7, StageTypes, StageNames DEF AbortBatch
<1>8. CASE Crash(w)
  BY <1>1, <1>8, StageTypes, StageNames DEF Crash
<1> QED
  BY <1>4, <1>5, <1>6, <1>7, <1>8

(* Ending a pass keeps the types of the rows it touches.                   *)
LEMMA EndType ==
    ASSUME TypeOK, NEW p \in Passes, NEW state \in States, End(p, state)
    PROVE  /\ pass' \in [Passes -> PassRecords]
           /\ workflow' \in [Passes -> SUBSET {"approval", "override"}]
<1>1. Rev(p) + 1 \in Nat
  BY DEF TypeOK, PassRecords
<1> QED
  BY <1>1, SetPassType DEF End, SetWorkflow, TypeOK

(* What a reconciler writes keeps the types. *)
LEMMA HandleType ==
    ASSUME TypeOK, NEW w \in Workers, Handle(w)
    PROVE  TypeOK'
<1>0. /\ worker[w] \in WorkerRecords
      /\ worker[w].at \in Nat
      /\ worker[w].found \subseteq Candidates
      /\ \A c \in worker[w].found : c.pass \in Passes
      /\ \A p \in Passes : Rev(p) + 1 \in Nat
      /\ {"denied", "expired", "queued", "requested", "ready"} \subseteq States
  BY StateNames DEF TypeOK, WorkerRecords, Candidates, PassRecords
<1>1. ASSUME FlowTypes', worker' \in [Workers -> WorkerRecords], Handling(w)
      PROVE  TypeOK'
  BY <1>1 DEF TypeOK, FlowTypes, Handling
<1>2. ASSUME FlowTypes', Done(w), Handling(w) PROVE TypeOK'
  BY <1>1, <1>2, DoneType
<1>3. ASSUME GiveUp(w), Handling(w) PROVE TypeOK'
  BY <1>1, <1>3, GiveUpType
<1>4. ASSUME NEW p \in Passes, NEW state \in States, SetPass(p, state, Rev(p) + 1)
      PROVE  pass' \in [Passes -> PassRecords]
  BY <1>0, <1>4, SetPassType DEF TypeOK
<1>5. CASE HandleStaleReady(w)
  <2>1. PICK c \in worker[w].found :
          LET p == c.pass
              d == DestOf[p]
              now == worker[w].at
              missed == {o \in ReservationsOf(p) :
                          o.born = c.born /\ o.claimedAt = Unclaimed /\ o.readyUntil <= now}
              mayRequeue(o) == /\ now < o.flowUntil
                               /\ destination[d].queueEnabled
                               /\ OthersWaiting(d, p) # {}
          IN
          \/ /\ \E o \in missed :
                 /\ reservations' = reservations \ {o}
                 /\ \/ /\ End(p, "denied")
                       /\ UNCHANGED queue
                    \/ /\ End(p, "expired")
                       /\ UNCHANGED queue
                    \/ /\ Enqueue(p, Rev(p) + 1, now, o.flowUntil)
                       /\ SetPass(p, "queued", Rev(p) + 1)
                       /\ UNCHANGED workflow
             /\ UNCHANGED evaluation
             /\ Done(w)
          \/ GiveUp(w)
    BY <1>5 DEF HandleStaleReady
  <2> DEFINE p == c.pass
             now == worker[w].at
  <2>2. p \in Passes
    BY <1>0
  <2>3. ASSUME NEW o \in reservations, reservations' = reservations \ {o},
               \/ End(p, "denied") /\ UNCHANGED queue
               \/ End(p, "expired") /\ UNCHANGED queue
               \/ /\ Enqueue(p, Rev(p) + 1, now, o.flowUntil)
                  /\ SetPass(p, "queued", Rev(p) + 1)
                  /\ UNCHANGED workflow,
               UNCHANGED evaluation, Done(w)
        PROVE  TypeOK'
    <3> HIDE DEF p
    <3>1. reservations' \subseteq Reservations
      BY <2>3 DEF TypeOK
    <3>2. CASE End(p, "denied") /\ UNCHANGED queue
      BY <1>0, <1>2, <1>5, <2>2, <2>3, <3>1, <3>2, EndType
         DEF HandleStaleReady, FlowTypes, TypeOK
    <3>3. CASE End(p, "expired") /\ UNCHANGED queue
      BY <1>0, <1>2, <1>5, <2>2, <2>3, <3>1, <3>3, EndType
         DEF HandleStaleReady, FlowTypes, TypeOK
    <3>4. CASE /\ Enqueue(p, Rev(p) + 1, now, o.flowUntil)
               /\ SetPass(p, "queued", Rev(p) + 1)
               /\ UNCHANGED workflow
      <4>1. o.flowUntil \in Nat
        BY DEF TypeOK, Reservations
      <4>2. queue' \subseteq Entries
        BY <1>0, <2>2, <3>4, <4>1, EnqueueType DEF TypeOK
      <4> QED
        BY <1>0, <1>2, <1>4, <1>5, <2>2, <2>3, <3>1, <3>4, <4>2
           DEF HandleStaleReady, FlowTypes, TypeOK
    <3> QED
      BY <2>3, <3>2, <3>3, <3>4
  <2> QED
    BY <1>3, <1>5, <2>1, <2>3 DEF HandleStaleReady
<1>6. CASE HandleExpiredQueue(w)
  <2>1. PICK c \in worker[w].found :
          \/ /\ queue' = queue \ {e \in EntriesOf(c.pass) : e.flowUntil <= worker[w].at}
             /\ End(c.pass, "expired")
             /\ UNCHANGED <<reservations, evaluation>>
             /\ Done(w)
          \/ GiveUp(w)
    BY <1>6 DEF HandleExpiredQueue
  <2>2. c.pass \in Passes
    BY <1>0
  <2> QED
    BY <1>0, <1>2, <1>3, <1>6, <2>1, <2>2, EndType DEF HandleExpiredQueue, FlowTypes, TypeOK
<1>7. CASE HandleUnavailable(w)
  <2>1. PICK c \in worker[w].found :
          \/ /\ reservations' \subseteq reservations
             /\ queue' \subseteq queue
             /\ End(c.pass, "denied")
             /\ UNCHANGED evaluation
             /\ Done(w)
          \/ GiveUp(w)
    BY <1>7 DEF HandleUnavailable
  <2>2. c.pass \in Passes
    BY <1>0
  <2> QED
    BY <1>0, <1>2, <1>3, <1>7, <2>1, <2>2, EndType DEF HandleUnavailable, FlowTypes, TypeOK
<1>8. CASE HandlePromotion(w)
  <2>1. PICK c \in worker[w].found :
          LET p == c.pass IN
          \/ /\ \E decision \in Decisions, e \in EntriesOf(p) :
                /\ RecordEvaluation(p, Rev(p), decision)
                /\ queue' = queue \ {e}
                /\ \/ /\ End(p, "denied")
                      /\ UNCHANGED reservations
                   \/ /\ SetPass(p, "requested", Rev(p) + 1)
                      /\ \E approvals \in ApprovalsAfter(decision) :
                            SetWorkflow(p, approvals \cup (workflow[p] \cap {"override"}))
                      /\ UNCHANGED reservations
                   \/ /\ SetPass(p, "ready", Rev(p) + 1)
                      /\ SetWorkflow(p, workflow[p] \cap {"override"})
                      /\ reservations' = reservations \cup
                            {Offer(p, Rev(p) + 1, worker[w].at, e.flowUntil)}
             /\ Done(w)
          \/ GiveUp(w)
    BY <1>8 DEF HandlePromotion
  <2>2. CASE GiveUp(w)
    BY <1>3, <1>8, <2>2 DEF HandlePromotion
  <2>3. ASSUME NEW p \in Passes, NEW decision \in Decisions, NEW e \in queue,
               RecordEvaluation(p, Rev(p), decision),
               queue' = queue \ {e},
               Done(w),
               \/ /\ End(p, "denied")
                  /\ UNCHANGED reservations
               \/ /\ SetPass(p, "requested", Rev(p) + 1)
                  /\ \E approvals \in ApprovalsAfter(decision) :
                        SetWorkflow(p, approvals \cup (workflow[p] \cap {"override"}))
                  /\ UNCHANGED reservations
               \/ /\ SetPass(p, "ready", Rev(p) + 1)
                  /\ SetWorkflow(p, workflow[p] \cap {"override"})
                  /\ reservations' = reservations \cup
                        {Offer(p, Rev(p) + 1, worker[w].at, e.flowUntil)}
        PROVE  TypeOK'
    <3>1. evaluation' \in [Passes -> [rev : Nat, decision : PolicyDecisions]]
      BY <2>3, VocabularyAssumption DEF RecordEvaluation, TypeOK, PassRecords
    <3>2. queue' \subseteq Entries
      BY <2>3 DEF TypeOK
    <3>3. ASSUME NEW kinds \in SUBSET {"approval", "override"}, SetWorkflow(p, kinds)
          PROVE  workflow' \in [Passes -> SUBSET {"approval", "override"}]
      BY <3>3 DEF SetWorkflow, TypeOK
    <3>4. CASE End(p, "denied") /\ UNCHANGED reservations
      BY <1>0, <1>2, <1>8, <2>3, <3>1, <3>2, <3>4, EndType
         DEF HandlePromotion, FlowTypes, TypeOK
    <3>5. CASE /\ SetPass(p, "requested", Rev(p) + 1)
               /\ \E approvals \in ApprovalsAfter(decision) :
                     SetWorkflow(p, approvals \cup (workflow[p] \cap {"override"}))
               /\ UNCHANGED reservations
      <4>1. workflow' \in [Passes -> SUBSET {"approval", "override"}]
        BY <3>3, <3>5 DEF ApprovalsAfter
      <4> QED
        BY <1>0, <1>2, <1>4, <1>8, <2>3, <3>1, <3>2, <3>5, <4>1
           DEF HandlePromotion, FlowTypes, TypeOK
    <3>6. CASE /\ SetPass(p, "ready", Rev(p) + 1)
               /\ SetWorkflow(p, workflow[p] \cap {"override"})
               /\ reservations' = reservations \cup
                     {Offer(p, Rev(p) + 1, worker[w].at, e.flowUntil)}
      <4>1. e.flowUntil \in Nat
        BY DEF TypeOK, Entries
      <4>2. reservations' \subseteq Reservations
        BY <1>0, <3>6, <4>1, OfferType DEF TypeOK
      <4>3. workflow' \in [Passes -> SUBSET {"approval", "override"}]
        BY <3>3, <3>6
      <4> QED
        BY <1>0, <1>2, <1>4, <1>8, <2>3, <3>1, <3>2, <3>6, <4>2, <4>3
           DEF HandlePromotion, FlowTypes, TypeOK
    <3> QED
      BY <2>3, <3>4, <3>5, <3>6
  <2> QED
    BY <1>0, <2>1, <2>2, <2>3
<1>9. CASE HandleOrphans(w)
  <2>1. PICK c \in worker[w].found :
          \/ /\ ReleaseAll(c.pass)
             /\ UNCHANGED <<pass, evaluation, workflow>>
             /\ Done(w)
          \/ GiveUp(w)
    BY <1>9 DEF HandleOrphans
  <2> QED
    BY <1>2, <1>3, <1>9, <2>1 DEF HandleOrphans, ReleaseAll, FlowTypes, TypeOK
<1> QED
  BY <1>5, <1>6, <1>7, <1>8, <1>9 DEF Handle

(* Commands of one step, by students, stations and administrators. *)
LEMMA OneStepType ==
    ASSUME TypeOK,
           \/ \E p \in Passes : CancelSelf(p) \/ Arrive(p) \/ BeginReturn(p) \/ Complete(p)
           \/ \E d \in Destinations : \E config \in Configs[d] :
                 UpdateDestination(d, config) \/ OpenOrClose(d, config) \/ Archive(d, config)
    PROVE  TypeOK'
<1>1. ASSUME NEW p \in Passes, NEW state \in States, SetPass(p, state, Rev(p) + 1)
      PROVE  pass' \in [Passes -> PassRecords]
  <2>1. Rev(p) + 1 \in Nat
    BY DEF TypeOK, PassRecords
  <2> QED
    BY <1>1, <2>1, SetPassType DEF TypeOK
<1>2. ASSUME NEW p \in Passes, CancelSelf(p) PROVE TypeOK'
  <2>1. reservations' \subseteq reservations /\ queue' \subseteq queue
    BY <1>2 DEF CancelSelf, flowRows
  <2> QED
    BY <1>1, <1>2, <2>1, StateNames DEF CancelSelf, SetWorkflow, TypeOK
<1>3. ASSUME NEW p \in Passes, Arrive(p) \/ BeginReturn(p) \/ Complete(p)
      PROVE  TypeOK'
  <2>1. PICK state \in {"at_destination", "returning", "completed"} : Moved(p, state)
    BY <1>3 DEF Arrive, BeginReturn, Complete
  <2>2. reservations' \subseteq reservations /\ queue' = queue
    BY <1>3 DEF Arrive, BeginReturn, Complete, flowRows
  <2> QED
    BY <1>1, <2>1, <2>2, StateNames DEF Moved, TypeOK
<1>4. ASSUME NEW d \in Destinations, NEW config \in Configs[d], SetDestination(d, config)
      PROVE  TypeOK'
  BY <1>4, ConfigAssumption DEF SetDestination, TypeOK, flowRows
<1> QED
  BY <1>2, <1>3, <1>4 DEF UpdateDestination, OpenOrClose, Archive

(* Every step keeps the types.                                             *)
LEMMA NextType == TypeOK /\ [Next]_vars => TypeOK'
<1> SUFFICES ASSUME TypeOK, [Next]_vars PROVE TypeOK'
  OBVIOUS
<1>1. ASSUME NEW op \in Operations, NEW p \in Passes, Issue(op, p) PROVE TypeOK'
  <2>1. [op |-> op, pass |-> p, at |-> clock, rev |-> Rev(p),
         config |-> destination[DestOf[p]]] \in Commands
    BY VocabularyAssumption, PlacementAssumption DEF TypeOK, Commands, PassRecords
  <2> QED
    BY <1>1, <2>1 DEF Issue, TypeOK, flowRows
<1>2. ASSUME NEW k \in inflight, RereadDestination(k) PROVE TypeOK'
  <2>1. [k EXCEPT !.config = destination[DestOf[k.pass]]] \in Commands
    BY PlacementAssumption DEF TypeOK, Commands
  <2> QED
    BY <1>2, <2>1 DEF RereadDestination, TypeOK, flowRows
<1>3. ASSUME NEW k \in inflight, Abandon(k) PROVE TypeOK'
  BY <1>3 DEF Abandon, TypeOK, flowRows
<1>4. ASSUME NEW k \in inflight, Commit(k) PROVE TypeOK'
  BY <1>4, CommitType
<1>5. ASSUME NEW w \in Workers, Reconcile(w) \/ Crash(w) PROVE TypeOK'
  BY <1>5, SearchType, HandleType DEF Reconcile
<1>6. CASE Tick
  BY <1>6 DEF Tick, TypeOK, flowRows
<1>7. CASE UNCHANGED vars
  BY <1>7 DEF vars, TypeOK
<1> QED
  BY <1>1, <1>2, <1>3, <1>4, <1>5, <1>6, <1>7, OneStepType DEF Next

(* In every reachable state, whatever the passes, the destinations, the    *)
(* replicas and the timeouts, each variable has its type.                  *)
THEOREM TypeCorrect == Spec => []TypeOK
BY InitType, NextType, PTL DEF Spec

----------------------------------------------------------------------------
(* The offers and the queue entries of DestinationFlow keep the order of   *)
(* instants the schema checks, for every value of the constants.           *)

(* Coherence alone is not inductive.  A claim lies after its offer because *)
(* a command that still knows the revision is no older than the offer, and *)
(* a promoted offer ends after it began because the head it promotes had   *)
(* time left when the batch picked it and is still the same entry.         *)
IInv == TypeOK /\ OffersCoherent /\ NothingFromTheFuture /\ OneEntryEach

OfferCoherent(o) ==
    /\ o.reservedAt < o.readyUntil
    /\ o.readyUntil <= o.flowUntil
    /\ o.claimedAt # Unclaimed => o.reservedAt <= o.claimedAt /\ o.claimedAt < o.readyUntil

(* What a transaction does to the rows: no revision goes back, and a row   *)
(* is either one that was there (an offer may have been claimed since) or  *)
(* a new one, of a revision the pass did not have before.                  *)
OldOffer(o) == \E q \in reservations :
    q.pass = o.pass /\ q.born = o.born /\ q.reservedAt = o.reservedAt
RevisionsGrow ==
    \A p \in Passes : /\ Rev(p) <= Rev(p)'
                      /\ InState(p, {"absent"})' => Rev(p)' = 0
NewOffersCoherent ==
    \A o \in reservations' :
        /\ OfferCoherent(o)
        /\ \/ OldOffer(o)
           \/ /\ Rev(o.pass) < Rev(o.pass)' /\ o.born = Rev(o.pass)'
              /\ o.reservedAt <= clock
NewEntriesCoherent ==
    /\ \A e \in queue' :
        /\ e.enteredAt < e.flowUntil
        /\ \/ e \in queue
           \/ Rev(e.pass) < Rev(e.pass)' /\ e.born = Rev(e.pass)'
    /\ OneEntryEach'
BatchesEndOrStay ==
    \A w \in Workers : \/ worker'[w] = worker[w]
                       \/ worker'[w].found = {} /\ worker'[w].at <= clock
Transaction ==
    /\ RevisionsGrow /\ NewOffersCoherent /\ NewEntriesCoherent /\ BatchesEndOrStay
    /\ clock' = clock
    /\ inflight' \subseteq inflight

(* A transaction of this shape keeps the strengthened invariant.           *)
LEMMA TransactionKeeps ==
    ASSUME IInv, TypeOK', Transaction
    PROVE  IInv'
<1> USE DEF IInv, Transaction
<1>0. /\ \A o \in reservations : /\ o.pass \in Passes /\ o.born \in Nat
                                 /\ o.reservedAt \in Nat
      /\ \A e \in queue : e.pass \in Passes /\ e.born \in Nat
      /\ \A k \in inflight : k.pass \in Passes /\ k.rev \in Nat /\ k.at \in Nat
      /\ \A w \in Workers : worker[w].at \in Nat
      /\ \A w \in Workers : \A c \in worker[w].found : c.pass \in Passes /\ c.born \in Nat
      /\ \A p \in Passes : Rev(p) \in Nat /\ Rev(p)' \in Nat
      /\ clock \in Nat
  <2>1. \A o \in reservations : o.pass \in Passes /\ o.born \in Nat /\ o.reservedAt \in Nat
    BY DEF TypeOK, Reservations
  <2>2. \A e \in queue : e.pass \in Passes /\ e.born \in Nat
    BY DEF TypeOK, Entries
  <2>3. \A k \in inflight : k.pass \in Passes /\ k.rev \in Nat /\ k.at \in Nat
    BY DEF TypeOK, Commands
  <2>4. \A w \in Workers : worker[w].at \in Nat /\ worker[w].found \subseteq Candidates
    BY DEF TypeOK, WorkerRecords
  <2>5. \A p \in Passes : Rev(p) \in Nat /\ Rev(p)' \in Nat
    BY DEF TypeOK, PassRecords
  <2> QED
    BY <2>1, <2>2, <2>3, <2>4, <2>5 DEF TypeOK, Candidates
<1>1. \A o \in reservations' : o.pass \in Passes /\ o.born \in Nat /\ o.reservedAt \in Nat
  BY DEF TypeOK, Reservations
<1>2. \A e \in queue' : e.pass \in Passes /\ e.born \in Nat
  BY DEF TypeOK, Entries
<1>3. OffersCoherent'
  BY DEF NewOffersCoherent, NewEntriesCoherent, OfferCoherent, OffersCoherent
<1>4. PastInstants'
  <2>1. \A o \in reservations' : o.reservedAt <= clock
    BY <1>0, <1>1 DEF NewOffersCoherent, OldOffer, NothingFromTheFuture, PastInstants
  <2> QED
    BY <2>1 DEF BatchesEndOrStay, NothingFromTheFuture, PastInstants
<1>5. PastRevisions'
  <2>1. \A p \in Passes : InState(p, {"absent"})' => Rev(p)' = 0
    BY DEF RevisionsGrow
  <2>2. \A k \in inflight' : k.rev <= Rev(k.pass)'
    BY <1>0 DEF RevisionsGrow, NothingFromTheFuture, PastRevisions
  <2>3. \A o \in reservations' : o.born <= Rev(o.pass)'
    BY <1>0, <1>1 DEF RevisionsGrow, NewOffersCoherent, OldOffer,
                      NothingFromTheFuture, PastRevisions
  <2>4. \A e \in queue' : e.born <= Rev(e.pass)'
    BY <1>0, <1>2 DEF RevisionsGrow, NewEntriesCoherent, NothingFromTheFuture, PastRevisions
  <2>5. \A w \in Workers : \A c \in worker'[w].found : c.born <= Rev(c.pass)'
    <3> SUFFICES ASSUME NEW w \in Workers, NEW c \in worker'[w].found
                 PROVE  c.born <= Rev(c.pass)'
      OBVIOUS
    <3>1. c \in worker[w].found
      BY DEF BatchesEndOrStay
    <3>2. c.born <= Rev(c.pass)
      BY <3>1 DEF NothingFromTheFuture, PastRevisions
    <3> QED
      BY <1>0, <3>1, <3>2 DEF RevisionsGrow
  <2> QED
    BY <2>1, <2>2, <2>3, <2>4, <2>5 DEF PastRevisions
<1>6. CommandsFollowOffers'
  <2> SUFFICES ASSUME NEW k \in inflight', k.rev = Rev(k.pass)',
                      NEW o \in reservations', o.pass = k.pass
               PROVE  o.reservedAt <= k.at
    BY DEF CommandsFollowOffers
  <2>1. k \in inflight /\ k.rev <= Rev(k.pass) /\ Rev(k.pass) <= Rev(k.pass)'
    BY <1>0 DEF RevisionsGrow, NothingFromTheFuture, PastRevisions
  <2>2. k.rev = Rev(k.pass)
    BY <1>0, <2>1
  <2>3. ~ (Rev(o.pass) < Rev(o.pass)')
    BY <1>0, <2>1, <2>2
  <2>4. OldOffer(o)
    BY <2>3 DEF NewOffersCoherent
  <2> QED
    BY <2>1, <2>2, <2>4 DEF OldOffer, NothingFromTheFuture, CommandsFollowOffers
<1>7. HeadsHaveTime'
  <2> SUFFICES ASSUME NEW w \in Workers, AtStage(w, "promotion")',
                      NEW c \in worker'[w].found,
                      NEW e \in queue', e.pass = c.pass, e.born = c.born
               PROVE  worker'[w].at < e.flowUntil
    BY DEF HeadsHaveTime
  <2>1. worker'[w] = worker[w]
    BY DEF BatchesEndOrStay
  <2>2. c.born <= Rev(c.pass)
    BY <2>1 DEF NothingFromTheFuture, PastRevisions
  <2>3. e \in queue
    BY <1>0, <1>2, <2>1, <2>2 DEF NewEntriesCoherent
  <2> QED
    BY <2>1, <2>3 DEF NothingFromTheFuture, HeadsHaveTime, AtStage
<1>8. OneEntryEach'
  BY DEF NewEntriesCoherent
<1> QED
  BY <1>3, <1>4, <1>5, <1>6, <1>7, <1>8 DEF NothingFromTheFuture

(* A deadline derived at an instant lies after it, and an offer that       *)
(* begins before the attempt ends also ends by then.                       *)
LEMMA DeadlinesFollow ==
    ASSUME NEW at \in Nat, NEW slotEnd \in SlotEnds, NEW flowUntil \in Nat,
           at < flowUntil
    PROVE  /\ at < FlowUntil(at, slotEnd)
           /\ at < ReadyUntil(at, flowUntil)
           /\ ReadyUntil(at, flowUntil) <= flowUntil
BY TimeAssumption DEF FlowUntil, ReadyUntil

(* Offers that only leave stay coherent.                                   *)
LEMMA RowsLeft ==
    ASSUME IInv, reservations' \subseteq reservations
    PROVE  NewOffersCoherent
BY DEF IInv, NewOffersCoherent, OffersCoherent, OfferCoherent, OldOffer

(* Entries that only leave stay coherent.                                  *)
LEMMA EntriesLeft ==
    ASSUME IInv, queue' \subseteq queue
    PROVE  NewEntriesCoherent
<1>1. \A e \in queue : e.enteredAt < e.flowUntil
  BY DEF IInv, OffersCoherent
<1>2. OneEntryEach'
  BY DEF IInv, OneEntryEach
<1> QED
  BY <1>1, <1>2 DEF NewEntriesCoherent

(* Writing a pass at a later revision moves no revision back.              *)
LEMMA RevisionsGrowWith ==
    ASSUME IInv, NEW p \in Passes, NEW state \in States, state # "absent",
           NEW rev \in Nat, Rev(p) <= rev, SetPass(p, state, rev)
    PROVE  RevisionsGrow /\ Rev(p)' = rev
BY DEF IInv, TypeOK, PassRecords, SetPass, RevisionsGrow, NothingFromTheFuture, PastRevisions

(* Leaving the passes alone moves no revision back.                        *)
LEMMA PassesStay ==
    ASSUME IInv, UNCHANGED pass
    PROVE  RevisionsGrow
BY DEF IInv, TypeOK, PassRecords, RevisionsGrow, NothingFromTheFuture, PastRevisions

(* An offer at a new revision with time left is coherent.                  *)
LEMMA OffersJoined ==
    ASSUME IInv, NEW p \in Passes, NEW rev \in Nat, NEW at \in Nat, NEW flowUntil \in Nat,
           Rev(p) < rev, Rev(p)' = rev, at <= clock, at < flowUntil,
           reservations' = reservations \cup {Offer(p, rev, at, flowUntil)}
    PROVE  NewOffersCoherent
<1> DEFINE new == Offer(p, rev, at, flowUntil)
<1>1. /\ new.pass = p /\ new.born = rev /\ new.reservedAt = at /\ new.flowUntil = flowUntil
      /\ new.readyUntil = ReadyUntil(at, flowUntil) /\ new.claimedAt = Unclaimed
  BY DEF Offer
<1>2. OfferCoherent(new)
  BY <1>1, DeadlinesFollow, TimeAssumption DEF OfferCoherent, ReadyUntil
<1> HIDE DEF new
<1>3. \A o \in reservations : OfferCoherent(o) /\ OldOffer(o)
  BY DEF IInv, OffersCoherent, OfferCoherent, OldOffer
<1>4. reservations' = reservations \cup {new}
  BY DEF new
<1> QED
  BY <1>1, <1>2, <1>3, <1>4 DEF NewOffersCoherent

(* An entry at a new revision with time left is coherent.                  *)
LEMMA EntriesJoined ==
    ASSUME IInv, NEW p \in Passes, NEW rev \in Nat, NEW at \in Nat, NEW flowUntil \in Nat,
           Rev(p) < rev, Rev(p)' = rev, at < flowUntil,
           Enqueue(p, rev, at, flowUntil)
    PROVE  NewEntriesCoherent
<1>1. \A e \in queue : e.enteredAt < e.flowUntil
  BY DEF IInv, OffersCoherent
<1>2. PICK n : queue' = (queue \ EntriesOf(p)) \cup
                        {[pass |-> p, born |-> rev, enteredAt |-> at,
                          flowUntil |-> flowUntil, ord |-> n]}
  BY DEF Enqueue
<1>3. OneEntryEach'
  BY <1>2 DEF IInv, OneEntryEach
<1> QED
  BY <1>1, <1>2, <1>3 DEF NewEntriesCoherent

(* Allocation writes coherent rows of the revision it gives the pass. *)
LEMMA EvaluateAndApplyCoherent ==
    ASSUME IInv, NEW k \in inflight, NEW p \in Passes, NEW from \in States \ {"absent"},
           NEW rev \in Nat, Rev(p) < rev, NEW decision, NEW overrides,
           EvaluateAndApply(p, from, rev, decision, k, overrides)
    PROVE  RevisionsGrow /\ NewOffersCoherent /\ NewEntriesCoherent
<1>0. /\ k.at \in Nat /\ k.at <= clock /\ rev + 1 \in Nat
      /\ Rev(p) < rev + 1 /\ Rev(p) <= rev
      /\ {"denied", "ready", "queued"} \subseteq States \ {"absent"}
  BY StateNames DEF IInv, TypeOK, Commands, PassRecords, NothingFromTheFuture, PastInstants
<1>1. ASSUME NEW state \in States, state # "absent", SetPass(p, state, rev + 1)
      PROVE  RevisionsGrow /\ Rev(p)' = rev + 1
  <2>1. PICK r \in Nat : r = rev + 1
    BY <1>0
  <2>2. Rev(p) <= r /\ SetPass(p, state, r)
    BY <1>1, <1>0, <2>1 DEF IInv, TypeOK, PassRecords
  <2>3. RevisionsGrow /\ Rev(p)' = r
    BY <1>1, <2>2, RevisionsGrowWith
  <2> QED
    BY <2>1, <2>3
<1>2. ASSUME UNCHANGED flowRows PROVE NewOffersCoherent /\ NewEntriesCoherent
  BY <1>2, RowsLeft, EntriesLeft DEF flowRows
<1>3. PICK approvals \in ApprovalsAfter(decision) :
          \/ DenyByPolicy(p, from, rev)
          \/ Allocate(p, rev, k.at, k.config, approvals \cup overrides)
          \/ KeepState(p, from, rev, approvals \cup overrides)
  BY DEF EvaluateAndApply
<1>4. CASE DenyByPolicy(p, from, rev)
  BY <1>0, <1>1, <1>2, <1>4 DEF DenyByPolicy
<1>5. CASE KeepState(p, from, rev, approvals \cup overrides)
  BY <1>0, <1>2, <1>5, RevisionsGrowWith DEF KeepState
<1>6. CASE Allocate(p, rev, k.at, k.config, approvals \cup overrides)
  <2>1. PICK slotEnd \in SlotEnds :
          \/ AllocateUnavailable(p, rev, k.config)
          \/ AllocateReady(p, rev, k.at, k.config, FlowUntil(k.at, slotEnd), approvals \cup overrides)
          \/ AllocateQueued(p, rev, k.at, k.config, FlowUntil(k.at, slotEnd), approvals \cup overrides)
          \/ AllocateFull(p, rev, k.at, k.config)
    BY <1>6 DEF Allocate
  <2> DEFINE flowUntil == FlowUntil(k.at, slotEnd)
  <2>2. flowUntil \in Nat /\ k.at < flowUntil
    BY <1>0, TimeAssumption DEF FlowUntil
  <2> HIDE DEF flowUntil
  <2>3. CASE AllocateUnavailable(p, rev, k.config) \/ AllocateFull(p, rev, k.at, k.config)
    BY <1>0, <1>1, <1>2, <2>3 DEF AllocateUnavailable, AllocateFull
  <2>4. CASE AllocateReady(p, rev, k.at, k.config, flowUntil, approvals \cup overrides)
    <3>1. RevisionsGrow /\ Rev(p)' = rev + 1
      BY <1>0, <1>1, <2>4 DEF AllocateReady
    <3>2. NewOffersCoherent
      BY <1>0, <2>2, <2>4, <3>1, OffersJoined DEF AllocateReady
    <3> QED
      BY <2>4, <3>1, <3>2, EntriesLeft DEF AllocateReady
  <2>5. CASE AllocateQueued(p, rev, k.at, k.config, flowUntil, approvals \cup overrides)
    <3>1. RevisionsGrow /\ Rev(p)' = rev + 1
      BY <1>0, <1>1, <2>5 DEF AllocateQueued
    <3>2. NewEntriesCoherent
      BY <1>0, <2>2, <2>5, <3>1, EntriesJoined DEF AllocateQueued
    <3> QED
      BY <2>5, <3>1, <3>2, RowsLeft DEF AllocateQueued
  <2> QED
    BY <2>1, <2>3, <2>4, <2>5 DEF flowUntil
<1> QED
  BY <1>3, <1>4, <1>5, <1>6

(* A transition raises the revision of its pass by one.                    *)
LEMMA NextRevision ==
    ASSUME IInv, NEW p \in Passes, NEW state \in States, state # "absent",
           SetPass(p, state, Rev(p) + 1)
    PROVE  RevisionsGrow /\ Rev(p)' = Rev(p) + 1 /\ Rev(p) < Rev(p)' /\ Rev(p)' \in Nat
BY DEF IInv, TypeOK, PassRecords, SetPass, RevisionsGrow, NothingFromTheFuture, PastRevisions

(* Every command in flight commits such a transaction.                     *)
LEMMA CommitCoherent ==
    ASSUME IInv, NEW k \in inflight, Commit(k)
    PROVE  Transaction
<1>0. /\ k.pass \in Passes /\ k.rev \in Nat /\ k.at \in Nat
      /\ pass[k.pass].state \in States /\ Rev(k.pass) \in Nat
      /\ k.rev + 1 \in Nat
  BY DEF IInv, TypeOK, Commands, PassRecords
<1>1. ASSUME Committed(k), RevisionsGrow, NewOffersCoherent, NewEntriesCoherent
      PROVE  Transaction
  BY <1>1 DEF Committed, Transaction, BatchesEndOrStay
<1>2. CASE CommitRequest(k)
  <2>1. PICK decision : EvaluateAndApply(k.pass, "requested", 1, decision, k, {})
    BY <1>2 DEF CommitRequest
  <2>2. Rev(k.pass) < 1
    BY <1>0, <1>2 DEF CommitRequest, IInv, NothingFromTheFuture, PastRevisions
  <2> QED
    BY <1>0, <1>1, <1>2, <2>1, <2>2, StateNames, EvaluateAndApplyCoherent DEF CommitRequest
<1>3. CASE CommitApproval(k) \/ CommitOverrideRequest(k) \/ CommitOverrideResolve(k)
  <2>1. PICK from \in States \ {"absent"} : \E decision, overrides :
          EvaluateAndApply(k.pass, from, k.rev + 1, decision, k, overrides)
    <3>1. CASE CommitApproval(k)
      BY <3>1, StateNames DEF CommitApproval
    <3>2. CASE CommitOverrideRequest(k) \/ CommitOverrideResolve(k)
      <4>1. pass[k.pass].state \in States \ {"absent"}
        BY <1>0, <3>2 DEF CommitOverrideRequest, CommitOverrideResolve,
                          ActiveStates, Lifecycle!ActiveStates
      <4>2. \E decision, overrides :
              EvaluateAndApply(k.pass, pass[k.pass].state, k.rev + 1, decision, k, overrides)
        BY <3>2 DEF CommitOverrideRequest, CommitOverrideResolve
      <4> QED
        BY <4>1, <4>2
    <3> QED
      BY <1>3, <3>1, <3>2
  <2>2. Rev(k.pass) < k.rev + 1
    BY <1>0, <1>3 DEF CommitApproval, CommitOverrideRequest, CommitOverrideResolve
  <2>3. PICK r \in Nat : r = k.rev + 1
    BY <1>0
  <2>4. RevisionsGrow /\ NewOffersCoherent /\ NewEntriesCoherent
    BY <1>0, <2>1, <2>2, <2>3, EvaluateAndApplyCoherent
  <2> QED
    BY <1>1, <1>3, <2>4 DEF CommitApproval, CommitOverrideRequest, CommitOverrideResolve
<1>4. CASE CommitDepart(k)
  <2> DEFINE p == k.pass
  <2>1. PICK o \in ReservationsOf(p) :
          /\ k.at < o.readyUntil
          /\ reservations' = (reservations \ {o}) \cup
                {[o EXCEPT !.claimedAt = k.at, !.late = clock >= o.readyUntil]}
    BY <1>4 DEF CommitDepart
  <2> DEFINE claimed == [o EXCEPT !.claimedAt = k.at, !.late = clock >= o.readyUntil]
  <2>2. o \in Reservations
    BY <2>1 DEF IInv, TypeOK
  <2>3. /\ claimed.pass = o.pass /\ claimed.born = o.born
        /\ claimed.reservedAt = o.reservedAt /\ claimed.readyUntil = o.readyUntil
        /\ claimed.flowUntil = o.flowUntil /\ claimed.claimedAt = k.at
    BY <2>2 DEF Reservations
  <2>4. o.reservedAt <= k.at
    BY <1>4, <2>1 DEF CommitDepart, IInv, NothingFromTheFuture, CommandsFollowOffers
  <2>5. OfferCoherent(claimed) /\ OldOffer(claimed)
    BY <2>1, <2>3, <2>4 DEF IInv, OffersCoherent, OfferCoherent, OldOffer
  <2>6. \A q \in reservations : OfferCoherent(q) /\ OldOffer(q)
    BY DEF IInv, OffersCoherent, OfferCoherent, OldOffer
  <2>7. NewOffersCoherent
    <3> HIDE DEF claimed
    <3>1. reservations' = (reservations \ {o}) \cup {claimed}
      BY <2>1 DEF claimed
    <3> QED
      BY <2>5, <2>6, <3>1 DEF NewOffersCoherent
  <2>8. RevisionsGrow
    BY <1>0, <1>4 DEF CommitDepart, IInv, TypeOK, PassRecords, RevisionsGrow,
                      NothingFromTheFuture, PastRevisions
  <2> QED
    BY <1>1, <1>4, <2>7, <2>8, EntriesLeft DEF CommitDepart
<1> QED
  BY <1>2, <1>3, <1>4 DEF Commit

(* Entering a stage starts its list of candidates anew.                    *)
LEMMA StageEnds ==
    ASSUME IInv, NEW w \in Workers, NEW stage, EnterStage(w, stage)
    PROVE  BatchesEndOrStay
BY DEF EnterStage, SetWorker, BatchesEndOrStay, IInv, TypeOK, WorkerRecords,
       NothingFromTheFuture, PastInstants

(* Handling a candidate is such a transaction.                             *)
LEMMA DoneCoherent ==
    ASSUME IInv, NEW w \in Workers, Done(w), Handling(w),
           RevisionsGrow, NewOffersCoherent, NewEntriesCoherent
    PROVE  Transaction
BY StageEnds DEF Done, Handling, Transaction

(* Dropping a candidate is such a transaction.                             *)
LEMMA GiveUpCoherent ==
    ASSUME IInv, NEW w \in Workers, GiveUp(w), Handling(w)
    PROVE  Transaction
<1>1. BatchesEndOrStay
  <2>1. CASE AtStage(w, "promotion")
    BY <2>1 DEF GiveUp, SetWorker, BatchesEndOrStay, IInv, TypeOK, WorkerRecords,
                NothingFromTheFuture, PastInstants
  <2>2. CASE ~ AtStage(w, "promotion")
    BY <2>2, StageEnds DEF GiveUp
  <2> QED
    BY <2>1, <2>2
<1> QED
  BY <1>1, PassesStay, RowsLeft, EntriesLeft DEF GiveUp, Handling, Transaction, flowRows

(* A reconciler writes coherent rows although its instant may be old. *)
LEMMA HandleCoherent ==
    ASSUME IInv, NEW w \in Workers, Handle(w)
    PROVE  Transaction
<1>0. /\ worker[w].at \in Nat /\ worker[w].at <= clock
      /\ \A c \in worker[w].found : c.pass \in Passes
      /\ {"denied", "expired", "queued", "requested", "ready"} \subseteq States \ {"absent"}
      /\ Handling(w)
  <2>1. worker[w] \in WorkerRecords
    BY DEF IInv, TypeOK
  <2> QED
    BY <2>1, StateNames DEF WorkerRecords, Candidates, IInv, NothingFromTheFuture, PastInstants,
       Handle, HandleStaleReady, HandleExpiredQueue, HandleUnavailable, HandlePromotion, HandleOrphans
<1>1. ASSUME NEW p \in Passes, NEW state \in {"denied", "expired"}, End(p, state),
             reservations' \subseteq reservations, queue' \subseteq queue, Done(w)
      PROVE  Transaction
  BY <1>0, <1>1, NextRevision, RowsLeft, EntriesLeft, DoneCoherent DEF End
<1>2. CASE GiveUp(w)
  BY <1>0, <1>2, GiveUpCoherent
<1>3. CASE HandleStaleReady(w)
  <2>1. PICK c \in worker[w].found :
          \/ \E o \in ReservationsOf(c.pass) :
                /\ reservations' = reservations \ {o}
                /\ \/ End(c.pass, "denied") /\ UNCHANGED queue
                   \/ End(c.pass, "expired") /\ UNCHANGED queue
                   \/ /\ worker[w].at < o.flowUntil
                      /\ Enqueue(c.pass, Rev(c.pass) + 1, worker[w].at, o.flowUntil)
                      /\ SetPass(c.pass, "queued", Rev(c.pass) + 1)
                /\ Done(w)
          \/ GiveUp(w)
    BY <1>3 DEF HandleStaleReady
  <2>2. ASSUME NEW p \in Passes, NEW o \in reservations, reservations' = reservations \ {o},
               worker[w].at < o.flowUntil,
               Enqueue(p, Rev(p) + 1, worker[w].at, o.flowUntil),
               SetPass(p, "queued", Rev(p) + 1),
               Done(w)
        PROVE  Transaction
    <3>1. RevisionsGrow /\ Rev(p)' = Rev(p) + 1 /\ Rev(p) < Rev(p)' /\ Rev(p)' \in Nat
      BY <1>0, <2>2, NextRevision
    <3>2. PICK r \in Nat : r = Rev(p)'
      BY <3>1
    <3>3. o.flowUntil \in Nat
      BY DEF IInv, TypeOK, Reservations
    <3>4. Enqueue(p, r, worker[w].at, o.flowUntil)
      BY <2>2, <3>1, <3>2
    <3>5. NewEntriesCoherent
      BY <1>0, <2>2, <3>1, <3>2, <3>3, <3>4, EntriesJoined
    <3> QED
      BY <1>0, <2>2, <3>1, <3>5, RowsLeft, DoneCoherent
  <2> QED
    BY <1>0, <1>1, <1>2, <2>1, <2>2
<1>4. CASE HandleExpiredQueue(w)
  <2>1. PICK c \in worker[w].found :
          \/ /\ queue' \subseteq queue /\ UNCHANGED reservations
             /\ End(c.pass, "expired") /\ Done(w)
          \/ GiveUp(w)
    BY <1>4 DEF HandleExpiredQueue
  <2> QED
    BY <1>0, <1>1, <1>2, <2>1
<1>5. CASE HandleUnavailable(w)
  <2>1. PICK c \in worker[w].found :
          \/ /\ queue' \subseteq queue /\ reservations' \subseteq reservations
             /\ End(c.pass, "denied") /\ Done(w)
          \/ GiveUp(w)
    BY <1>5 DEF HandleUnavailable
  <2> QED
    BY <1>0, <1>1, <1>2, <2>1
<1>6. CASE HandlePromotion(w)
  <2>1. PICK c \in worker[w].found :
          \/ /\ \E e \in EntriesOf(c.pass) :
                /\ e.born = c.born
                /\ queue' = queue \ {e}
                /\ \/ End(c.pass, "denied") /\ UNCHANGED reservations
                   \/ SetPass(c.pass, "requested", Rev(c.pass) + 1) /\ UNCHANGED reservations
                   \/ /\ SetPass(c.pass, "ready", Rev(c.pass) + 1)
                      /\ reservations' = reservations \cup
                            {Offer(c.pass, Rev(c.pass) + 1, worker[w].at, e.flowUntil)}
             /\ Done(w)
          \/ GiveUp(w)
    BY <1>6 DEF HandlePromotion
  <2>2. ASSUME NEW p \in Passes, NEW e \in queue, worker[w].at < e.flowUntil,
               queue' = queue \ {e}, Done(w),
               SetPass(p, "ready", Rev(p) + 1),
               reservations' = reservations \cup
                 {Offer(p, Rev(p) + 1, worker[w].at, e.flowUntil)}
        PROVE  Transaction
    <3>1. RevisionsGrow /\ Rev(p)' = Rev(p) + 1 /\ Rev(p) < Rev(p)' /\ Rev(p)' \in Nat
      BY <1>0, <2>2, NextRevision
    <3>2. PICK r \in Nat : r = Rev(p)'
      BY <3>1
    <3>3. e.flowUntil \in Nat
      BY DEF IInv, TypeOK, Entries
    <3>4. reservations' = reservations \cup {Offer(p, r, worker[w].at, e.flowUntil)}
      BY <2>2, <3>1, <3>2
    <3>5. NewOffersCoherent
      BY <1>0, <2>2, <3>1, <3>2, <3>3, <3>4, OffersJoined
    <3> QED
      BY <1>0, <2>2, <3>1, <3>5, EntriesLeft, DoneCoherent
  <2>3. ASSUME NEW p \in Passes, SetPass(p, "requested", Rev(p) + 1),
               queue' \subseteq queue, UNCHANGED reservations, Done(w)
        PROVE  Transaction
    BY <1>0, <2>3, NextRevision, RowsLeft, EntriesLeft, DoneCoherent
  <2>4. \A e \in EntriesOf(c.pass) : e.born = c.born => worker[w].at < e.flowUntil
    BY <1>6 DEF HandlePromotion, IInv, NothingFromTheFuture, HeadsHaveTime
  <2> QED
    BY <1>0, <1>1, <1>2, <2>1, <2>2, <2>3, <2>4
<1>7. CASE HandleOrphans(w)
  <2>1. PICK c \in worker[w].found :
          \/ ReleaseAll(c.pass) /\ UNCHANGED pass /\ Done(w)
          \/ GiveUp(w)
    BY <1>7 DEF HandleOrphans
  <2> QED
    BY <1>0, <1>2, <2>1, PassesStay, RowsLeft, EntriesLeft, DoneCoherent DEF ReleaseAll
<1> QED
  BY <1>3, <1>4, <1>5, <1>6, <1>7 DEF Handle

(* The commands of a single step are such transactions.                    *)
LEMMA OneStepCoherent ==
    ASSUME IInv, NEW p \in Passes,
           CancelSelf(p) \/ Arrive(p) \/ BeginReturn(p) \/ Complete(p)
    PROVE  Transaction
<1>1. PICK state \in {"cancelled", "at_destination", "returning", "completed"} :
        SetPass(p, state, Rev(p) + 1)
  BY DEF CancelSelf, Arrive, BeginReturn, Complete, Moved
<1>2. RevisionsGrow
  BY <1>1, NextRevision, StateNames
<1>3. reservations' \subseteq reservations /\ queue' \subseteq queue
  <2>1. CASE CancelSelf(p)
    BY <2>1 DEF CancelSelf, flowRows
  <2>2. CASE Arrive(p) \/ BeginReturn(p) \/ Complete(p)
    BY <2>2 DEF Arrive, BeginReturn, Complete, flowRows
  <2> QED
    BY <2>1, <2>2
<1>4. UNCHANGED <<clock, inflight, worker>>
  BY DEF CancelSelf, Arrive, BeginReturn, Complete, Moved
<1> QED
  BY <1>2, <1>3, <1>4, RowsLeft, EntriesLeft DEF Transaction, BatchesEndOrStay

(* The strengthened invariant holds at the start.                          *)
LEMMA InitCoherent == Init => IInv
BY InitType DEF Init, IInv, OffersCoherent, NothingFromTheFuture, PastInstants,
                PastRevisions, CommandsFollowOffers, HeadsHaveTime, AtStage, OneEntryEach

(* The steps that write no row: what is in flight, or found, is fresh. *)
LEMMA IssueCoherent ==
    ASSUME IInv, NEW op \in Operations, NEW p \in Passes, Issue(op, p), TypeOK'
    PROVE  IInv'
<1> DEFINE new == [op |-> op, pass |-> p, at |-> clock, rev |-> Rev(p),
                   config |-> destination[DestOf[p]]]
<1>1. /\ inflight' = inflight \cup {new}
      /\ UNCHANGED <<clock, pass, reservations, queue, worker>>
  BY DEF Issue, flowRows
<1>2. new.pass = p /\ new.at = clock /\ new.rev = Rev(p)
  OBVIOUS
<1>3. clock \in Nat /\ Rev(p) \in Nat
  BY DEF IInv, TypeOK, PassRecords
<1> HIDE DEF new
<1>4. OffersCoherent' /\ HeadsHaveTime' /\ OneEntryEach'
  BY <1>1 DEF IInv, OffersCoherent, NothingFromTheFuture, HeadsHaveTime, AtStage, OneEntryEach
<1>5. PastInstants' /\ PastRevisions'
  BY <1>1, <1>2, <1>3 DEF IInv, NothingFromTheFuture, PastInstants, PastRevisions
<1>6. CommandsFollowOffers'
  BY <1>1, <1>2, <1>3 DEF IInv, NothingFromTheFuture, PastInstants, CommandsFollowOffers
<1> QED
  BY <1>4, <1>5, <1>6 DEF IInv, NothingFromTheFuture

(* A command that rereads or is abandoned keeps the invariant.             *)
LEMMA RereadCoherent ==
    ASSUME IInv, NEW k \in inflight, RereadDestination(k) \/ Abandon(k), TypeOK'
    PROVE  IInv'
<1>1. /\ \A q \in inflight' : \E j \in inflight :
            q.pass = j.pass /\ q.at = j.at /\ q.rev = j.rev
      /\ UNCHANGED <<clock, pass, reservations, queue, worker>>
  <2>1. CASE RereadDestination(k)
    <3> DEFINE read == [k EXCEPT !.config = destination[DestOf[k.pass]]]
    <3>1. read.pass = k.pass /\ read.at = k.at /\ read.rev = k.rev
      BY DEF IInv, TypeOK, Commands
    <3> HIDE DEF read
    <3>2. /\ inflight' = (inflight \ {k}) \cup {read}
          /\ UNCHANGED <<clock, pass, reservations, queue, worker>>
      BY <2>1 DEF RereadDestination, flowRows, read
    <3> QED
      BY <3>1, <3>2
  <2>2. CASE Abandon(k)
    BY <2>2 DEF Abandon, flowRows
  <2> QED
    BY <2>1, <2>2
<1>2. OffersCoherent' /\ HeadsHaveTime' /\ OneEntryEach'
  BY <1>1 DEF IInv, OffersCoherent, NothingFromTheFuture, HeadsHaveTime, AtStage, OneEntryEach
<1>3. PastInstants'
  BY <1>1 DEF IInv, NothingFromTheFuture, PastInstants
<1>4. PastRevisions'
  BY <1>1 DEF IInv, NothingFromTheFuture, PastRevisions
<1>5. CommandsFollowOffers'
  BY <1>1 DEF IInv, NothingFromTheFuture, CommandsFollowOffers
<1> QED
  BY <1>2, <1>3, <1>4, <1>5 DEF IInv, NothingFromTheFuture

(* A batch finds rows that are there, and only heads that have time left. *)
LEMMA SearchCoherent ==
    ASSUME IInv, NEW w \in Workers, TypeOK',
           StartBatch(w) \/ Discover(w) \/ DiscoverHead(w) \/ AbortBatch(w) \/ Crash(w)
    PROVE  IInv'
<1>0. /\ UNCHANGED <<clock, pass, reservations, queue, inflight>>
      /\ worker[w].at \in Nat /\ worker[w].at <= clock /\ clock \in Nat
  <2>1. worker[w] \in WorkerRecords
    BY DEF IInv, TypeOK
  <2> QED
    BY <2>1 DEF StartBatch, Discover, DiscoverHead, AbortBatch, Crash, flowRows,
                IInv, TypeOK, WorkerRecords, NothingFromTheFuture, PastInstants
<1>1. ASSUME /\ \A v \in Workers \ {w} : worker'[v] = worker[v]
             /\ worker'[w].at <= clock
             /\ \A c \in worker'[w].found : \E r \in reservations \cup queue : c = RowId(r)
             /\ worker'[w].stage = "promotion" =>
                   \A c \in worker'[w].found : \E e \in queue :
                       c = RowId(e) /\ worker'[w].at < e.flowUntil
      PROVE  IInv'
  <2>1. OffersCoherent' /\ CommandsFollowOffers' /\ OneEntryEach'
    BY <1>0 DEF IInv, OffersCoherent, NothingFromTheFuture, CommandsFollowOffers, OneEntryEach
  <2>2. PastInstants'
    BY <1>0, <1>1 DEF IInv, NothingFromTheFuture, PastInstants
  <2>3. PastRevisions'
    BY <1>0, <1>1 DEF IInv, NothingFromTheFuture, PastRevisions, RowId
  <2>4. HeadsHaveTime'
    BY <1>0, <1>1 DEF IInv, NothingFromTheFuture, HeadsHaveTime, AtStage, RowId, OneEntryEach
  <2> QED
    BY <2>1, <2>2, <2>3, <2>4 DEF IInv, NothingFromTheFuture
<1>2. ASSUME NEW stage, EnterStage(w, stage) PROVE IInv'
  <2>1. /\ worker'[w].found = {} /\ worker'[w].at <= clock
        /\ \A v \in Workers \ {w} : worker'[v] = worker[v]
    BY <1>0, <1>2 DEF EnterStage, SetWorker, IInv, TypeOK, WorkerRecords
  <2> QED
    BY <1>1, <2>1
<1>3. CASE StartBatch(w)
  <2>1. /\ worker'[w].found = {} /\ worker'[w].at <= clock
        /\ \A v \in Workers \ {w} : worker'[v] = worker[v]
    BY <1>0, <1>3 DEF StartBatch, SetWorker, IInv, TypeOK, WorkerRecords
  <2> QED
    BY <1>1, <2>1
<1>4. CASE Discover(w)
  <2>1. ASSUME NEW row \in CandidateRows(worker[w].stage, worker[w].at),
               SetWorker(w, [worker[w] EXCEPT !.found = {RowId(row)}])
        PROVE  IInv'
    <3>1. row \in reservations \cup queue
      BY DEF CandidateRows, StaleReady, ExpiredQueue, UnavailableFlow, OrphanedRows
    <3>2. /\ worker'[w].found = {RowId(row)} /\ worker'[w].at = worker[w].at
          /\ worker'[w].stage = worker[w].stage
          /\ \A v \in Workers \ {w} : worker'[v] = worker[v]
      BY <2>1 DEF SetWorker, IInv, TypeOK, WorkerRecords
    <3>3. worker'[w].stage # "promotion"
      BY <1>4, <3>2 DEF Discover
    <3> QED
      BY <1>0, <1>1, <3>1, <3>2, <3>3
  <2> QED
    BY <1>2, <1>4, <2>1 DEF Discover
<1>5. CASE DiscoverHead(w)
  <2>1. ASSUME NEW d \in worker[w].todo,
               SetWorker(w, [worker[w] EXCEPT
                 !.todo = @ \ {d},
                 !.found = {RowId(e) : e \in {h \in QueueHeads(d) :
                                 /\ InState(h.pass, {"queued"})
                                 /\ worker[w].at < h.flowUntil}}])
        PROVE  IInv'
    <3> DEFINE found == {RowId(e) : e \in {h \in QueueHeads(d) :
                                 /\ InState(h.pass, {"queued"})
                                 /\ worker[w].at < h.flowUntil}}
    <3>1. \A c \in found : \E e \in queue : c = RowId(e) /\ worker[w].at < e.flowUntil
      BY DEF QueueHeads, EntriesAt
    <3> HIDE DEF found
    <3>2. SetWorker(w, [worker[w] EXCEPT !.todo = @ \ {d}, !.found = found])
      BY <2>1 DEF found
    <3>3. /\ worker'[w].found = found /\ worker'[w].at = worker[w].at
          /\ \A v \in Workers \ {w} : worker'[v] = worker[v]
      BY <3>2 DEF SetWorker, IInv, TypeOK, WorkerRecords
    <3> QED
      BY <1>0, <1>1, <3>1, <3>3
  <2> QED
    BY <1>2, <1>5, <2>1 DEF DiscoverHead
<1>6. CASE AbortBatch(w) \/ Crash(w)
  BY <1>2, <1>6 DEF AbortBatch, Crash
<1> QED
  BY <1>3, <1>4, <1>5, <1>6

(* Every step keeps the strengthened invariant.                            *)
LEMMA NextCoherent == IInv /\ [Next]_vars => IInv'
<1> SUFFICES ASSUME IInv, [Next]_vars PROVE IInv'
  OBVIOUS
<1>0. TypeOK'
  BY NextType DEF IInv
<1>1. ASSUME NEW op \in Operations, NEW p \in Passes, Issue(op, p) PROVE IInv'
  BY <1>0, <1>1, IssueCoherent
<1>2. ASSUME NEW k \in inflight, Commit(k) PROVE IInv'
  BY <1>0, <1>2, CommitCoherent, TransactionKeeps
<1>3. ASSUME NEW k \in inflight, RereadDestination(k) \/ Abandon(k) PROVE IInv'
  BY <1>0, <1>3, RereadCoherent
<1>4. ASSUME NEW p \in Passes, CancelSelf(p) \/ Arrive(p) \/ BeginReturn(p) \/ Complete(p)
      PROVE  IInv'
  BY <1>0, <1>4, OneStepCoherent, TransactionKeeps
<1>5. ASSUME UNCHANGED <<pass, reservations, queue, inflight, worker>>,
             clock' = clock \/ clock' = clock + 1
      PROVE  IInv'
  <2>1. clock <= clock' /\ clock \in Nat /\ clock' \in Nat
    BY <1>5 DEF IInv, TypeOK
  <2>2. PastInstants'
    <3>1. /\ \A k \in inflight : k.at \in Nat
          /\ \A w \in Workers : worker[w].at \in Nat
          /\ \A o \in reservations : o.reservedAt \in Nat
      BY DEF IInv, TypeOK, Commands, WorkerRecords, Reservations
    <3> QED
      BY <1>5, <2>1, <3>1 DEF IInv, NothingFromTheFuture, PastInstants
  <2>3. PastRevisions' /\ CommandsFollowOffers'
    BY <1>5 DEF IInv, NothingFromTheFuture, PastRevisions, CommandsFollowOffers
  <2>4. HeadsHaveTime' /\ OffersCoherent' /\ OneEntryEach'
    BY <1>5 DEF IInv, NothingFromTheFuture, HeadsHaveTime, AtStage, OffersCoherent, OneEntryEach
  <2> QED
    BY <1>0, <2>2, <2>3, <2>4 DEF IInv, NothingFromTheFuture
<1>6. ASSUME NEW d \in Destinations, NEW config \in Configs[d],
             UpdateDestination(d, config) \/ OpenOrClose(d, config) \/ Archive(d, config)
      PROVE  IInv'
  BY <1>5, <1>6 DEF UpdateDestination, OpenOrClose, Archive, SetDestination, flowRows
<1>7. ASSUME NEW w \in Workers, Reconcile(w) \/ Crash(w) PROVE IInv'
  BY <1>0, <1>7, SearchCoherent, HandleCoherent, TransactionKeeps DEF Reconcile
<1>8. CASE Tick \/ UNCHANGED vars
  BY <1>5, <1>8 DEF Tick, vars, flowRows
<1> QED
  BY <1>1, <1>2, <1>3, <1>4, <1>6, <1>7, <1>8 DEF Next

(* Whatever the interleaving of commands that carry old instants, replicas *)
(* that work with old batches and administrators, no offer is empty or     *)
(* outlives its attempt and no claim lies outside its offer: the checks of *)
(* the schema never fail a departure, an allocation or a promotion.        *)
THEOREM OffersAreCoherent == Spec => []OffersCoherent
<1>1. IInv => OffersCoherent
  BY DEF IInv
<1> QED
  BY InitCoherent, NextCoherent, <1>1, PTL DEF Spec

(* No instant is in the future and no revision is ahead of its pass, which *)
(* is what optimistic concurrency and the row identities rest on.          *)
THEOREM NothingIsFromTheFuture == Spec => []NothingFromTheFuture
<1>1. IInv => NothingFromTheFuture
  BY DEF IInv
<1> QED
  BY InitCoherent, NextCoherent, <1>1, PTL DEF Spec

===========================================================================
