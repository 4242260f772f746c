----------------------- MODULE DestinationFlowSafety -----------------------
(***************************************************************************)
(* Two invariants of DestinationFlow and what follows from them, for every  *)
(* value of the constants.  First: a pass, its flow rows and its pending     *)
(* workflow agree, and every step follows the lifecycle matrix.  Second:     *)
(* nobody holds a slot that is not there, and nobody who waits is passed     *)
(* over.                                                                    *)
(***************************************************************************)
EXTENDS DestinationFlowProofs, FiniteSetTheorems

(* Rows, workflow and lifecycle. *)

(* The rows a pass holds in each state.  A policy denial leaves the row of *)
(* the state it was taken in, which a reconciler releases later.           *)
RowsFit(state, offers, entries) ==
    /\ state = "ready" =>
          /\ entries = {}
          /\ \E o \in offers : offers = {o} /\ o.claimedAt = Unclaimed
    /\ state = "queued" =>
          /\ offers = {}
          /\ \E e \in entries : entries = {e}
    /\ state \in {"outbound", "at_destination"} =>
          /\ entries = {}
          /\ \E o \in offers : offers = {o} /\ o.claimedAt # Unclaimed
    /\ state = "denied" =>
          \/ entries = {} /\ \A o, q \in offers : o = q /\ o.claimedAt = Unclaimed
          \/ offers = {} /\ \A e, f \in entries : e = f
    /\ state \notin {"ready", "queued", "outbound", "at_destination", "denied"} =>
          offers = {} /\ entries = {}

Moving == {"outbound", "at_destination", "returning"}
Refused == {"denied", "cancelled", "expired"}

PassFits(p) == RowsFit(pass[p].state, ReservationsOf(p), EntriesOf(p))
RowsInv == /\ TypeOK
           /\ \A p \in Passes : PassFits(p)
           /\ RefusedPassesAreQuiet
           /\ ArchivedHasNoMovement

(* What a transaction does to the one pass it is about. *)
OthersKeep(p) ==
    \A q \in Passes \ {p} : /\ pass'[q] = pass[q]
                            /\ ReservationsOf(q)' = ReservationsOf(q)
                            /\ EntriesOf(q)' = EntriesOf(q)
                            /\ workflow'[q] = workflow[q]
LifeStep(p) ==
    \/ /\ pass[p].state = "absent"
       /\ \/ pass'[p].state = "requested" /\ pass'[p].rev = 1
          \/ /\ pass'[p].state \in Lifecycle!NormalTransitions["requested"]
             /\ pass'[p].rev = 2
    \/ /\ pass[p].state \in ActiveStates
       /\ pass'[p].state = pass[p].state
       /\ pass'[p].rev = pass[p].rev + 1
    \/ /\ pass'[p].state \in Lifecycle!NormalTransitions[pass[p].state]
       /\ pass'[p].rev \in {pass[p].rev + 1, pass[p].rev + 2}
    \/ pass'[p] = pass[p]
DeadlinesStay(p) ==
    (pass[p].state \in {"queued", "ready"} /\ pass'[p].state \in {"queued", "ready"})
        => Deadlines(p)' = Deadlines(p)
PassStep(p) ==
    /\ OthersKeep(p)
    /\ LifeStep(p)
    /\ PassFits(p)'
    /\ pass'[p].state \in Refused => workflow'[p] = {}
    /\ pass'[p].state \in Moving =>
          pass[p].state \in Moving \/ destination[DestOf[p]].status = "active"
    /\ DeadlinesStay(p)
    /\ destination' = destination

---------------------------------------------------------------------------
(* Writing the rows of one pass leaves the rows of the others. *)

(* Releasing offers of one pass leaves those of the others.                *)
LEMMA OffersReleased ==
    ASSUME NEW p, NEW gone \in SUBSET ReservationsOf(p), reservations' = reservations \ gone
    PROVE  /\ ReservationsOf(p)' = ReservationsOf(p) \ gone
           /\ \A q : q # p => ReservationsOf(q)' = ReservationsOf(q)
BY DEF ReservationsOf

(* Releasing entries of one pass leaves those of the others.               *)
LEMMA EntriesReleased ==
    ASSUME NEW p, NEW gone \in SUBSET EntriesOf(p), queue' = queue \ gone
    PROVE  /\ EntriesOf(p)' = EntriesOf(p) \ gone
           /\ \A q : q # p => EntriesOf(q)' = EntriesOf(q)
BY DEF EntriesOf

(* Who leaves the table alone leaves everyone's offers.                    *)
LEMMA OffersUntouched ==
    ASSUME UNCHANGED reservations
    PROVE  \A q : ReservationsOf(q)' = ReservationsOf(q)
BY DEF ReservationsOf

(* Who leaves the table alone leaves everyone's entries.                   *)
LEMMA EntriesUntouched ==
    ASSUME UNCHANGED queue
    PROVE  \A q : EntriesOf(q)' = EntriesOf(q)
BY DEF EntriesOf

(* An offer to one pass is added to its offers alone.                      *)
LEMMA OneOffered ==
    ASSUME NEW p, NEW born, NEW at, NEW flowUntil,
           reservations' = reservations \cup {Offer(p, born, at, flowUntil)}
    PROVE  /\ ReservationsOf(p)' = ReservationsOf(p) \cup {Offer(p, born, at, flowUntil)}
           /\ \A q : q # p => ReservationsOf(q)' = ReservationsOf(q)
           /\ Offer(p, born, at, flowUntil).claimedAt = Unclaimed
           /\ Offer(p, born, at, flowUntil).flowUntil = flowUntil
<1> DEFINE new == Offer(p, born, at, flowUntil)
<1>1. new.pass = p /\ new.claimedAt = Unclaimed /\ new.flowUntil = flowUntil
  BY DEF Offer
<1> HIDE DEF new
<1>2. reservations' = reservations \cup {new}
  BY DEF new
<1>3. /\ ReservationsOf(p)' = ReservationsOf(p) \cup {new}
      /\ \A q : q # p => ReservationsOf(q)' = ReservationsOf(q)
  BY <1>1, <1>2 DEF ReservationsOf
<1> QED
  BY <1>1, <1>3 DEF new

(* A pass that is enqueued has exactly its new entry.                      *)
LEMMA OneEnqueued ==
    ASSUME NEW p, NEW born, NEW at, NEW flowUntil, Enqueue(p, born, at, flowUntil)
    PROVE  /\ \E e : EntriesOf(p)' = {e} /\ e.flowUntil = flowUntil
           /\ \A q : q # p => EntriesOf(q)' = EntriesOf(q)
<1>1. PICK n : queue' = (queue \ EntriesOf(p)) \cup
                        {[pass |-> p, born |-> born, enteredAt |-> at,
                          flowUntil |-> flowUntil, ord |-> n]}
  BY DEF Enqueue
<1> DEFINE e == [pass |-> p, born |-> born, enteredAt |-> at,
                 flowUntil |-> flowUntil, ord |-> n]
<1>2. e.pass = p /\ e.flowUntil = flowUntil
  OBVIOUS
<1>3. queue' = (queue \ EntriesOf(p)) \cup {e}
  BY <1>1
<1> HIDE DEF e
<1>4. /\ EntriesOf(p)' = {e}
      /\ \A q : q # p => EntriesOf(q)' = EntriesOf(q)
  BY <1>2, <1>3 DEF EntriesOf
<1> QED
  BY <1>2, <1>4

(* Writing one pass leaves the others.                                     *)
LEMMA PassWritten ==
    ASSUME TypeOK, NEW p \in Passes, NEW state, NEW rev, SetPass(p, state, rev)
    PROVE  /\ pass'[p].state = state /\ pass'[p].rev = rev
           /\ \A q \in Passes \ {p} : pass'[q] = pass[q]
BY DEF SetPass, TypeOK, PassRecords

(* Writing one pass's workflow leaves that of the others.                  *)
LEMMA WorkflowWritten ==
    ASSUME TypeOK, NEW p \in Passes, NEW kinds, SetWorkflow(p, kinds)
    PROVE  workflow'[p] = kinds /\ \A q \in Passes \ {p} : workflow'[q] = workflow[q]
BY DEF SetWorkflow, TypeOK

(* The rows of the lifecycle matrix that the commands rely on. *)
LEMMA Matrix ==
    /\ \A from \in States : CanTransition(from, "denied") => from \in {"requested", "queued", "ready"}
    /\ Lifecycle!NormalTransitions["requested"] = {"queued", "ready", "denied", "cancelled", "expired"}
    /\ Lifecycle!NormalTransitions["queued"] = {"requested", "ready", "denied", "cancelled", "expired"}
    /\ Lifecycle!NormalTransitions["ready"] = {"queued", "outbound", "denied", "cancelled", "expired"}
    /\ Lifecycle!NormalTransitions["outbound"] = {"at_destination", "completed"}
    /\ Lifecycle!NormalTransitions["at_destination"] = {"returning", "completed"}
    /\ Lifecycle!NormalTransitions["returning"] = {"completed"}
    /\ ActiveStates = {"requested", "queued", "ready", "outbound", "at_destination", "returning"}
    /\ TerminalStates = {"completed", "denied", "cancelled", "expired"}
    /\ Lifecycle!CancellableStates = {"requested", "queued", "ready"}
    /\ States = {"absent"} \cup ActiveStates \cup TerminalStates
BY DEF CanTransition, Lifecycle!CanTransition, Lifecycle!NormalTransitions, States, Lifecycle!States,
       ActiveStates, Lifecycle!ActiveStates, TerminalStates, Lifecycle!TerminalStates,
       Lifecycle!CancellableStates


---------------------------------------------------------------------------
(* Every transaction is a step of one pass. *)

(* What the invariant says of one pass.                                    *)
LEMMA Fitting ==
    ASSUME RowsInv, NEW p \in Passes
    PROVE  /\ RowsFit(pass[p].state, ReservationsOf(p), EntriesOf(p))
           /\ pass[p].state \in States /\ pass[p].rev \in Nat
BY DEF RowsInv, PassFits, TypeOK, PassRecords

(* Rows that stay, or do not exist, leave the deadlines alone. *)
LEMMA SameDeadlines ==
    ASSUME NEW p, ReservationsOf(p)' = ReservationsOf(p), EntriesOf(p)' = EntriesOf(p)
    PROVE  Deadlines(p)' = Deadlines(p)
BY DEF Deadlines

(* The phase of a pass that is written follows its state.                  *)
LEMMA LifeAfter ==
    ASSUME NEW p \in Passes, pass[p].rev \in Nat, NEW from, NEW rev,
           \/ pass[p].state = "absent" /\ from = "requested" /\ rev = 1
           \/ pass[p].state = from /\ rev = pass[p].rev + 1,
           pass'[p].state \in Lifecycle!NormalTransitions[from], pass'[p].rev = rev + 1
    PROVE  LifeStep(p)
BY DEF LifeStep

(* What a policy decision does to a pass is one of its steps.              *)
LEMMA PolicyTail ==
    ASSUME RowsInv, NEW p \in Passes, NEW from \in States, NEW rev \in Nat,
           \/ pass[p].state = "absent" /\ from = "requested" /\ rev = 1
           \/ pass[p].state = from /\ from \in ActiveStates /\ rev = pass[p].rev + 1,
           NEW k, NEW decision, NEW overrides, UNCHANGED destination,
           EvaluateAndApply(p, from, rev, decision, k, overrides)
    PROVE  PassStep(p)
<1> DEFINE s == pass[p].state
           offers == ReservationsOf(p)
           entries == EntriesOf(p)
<1>0. TypeOK /\ RowsFit(s, offers, entries) /\ pass[p].rev \in Nat
  BY Fitting DEF RowsInv
<1>1. PICK approvals \in ApprovalsAfter(decision) :
          \/ DenyByPolicy(p, from, rev)
          \/ from = "requested" /\ Allocate(p, rev, k.at, k.config, approvals \cup overrides)
          \/ KeepState(p, from, rev, approvals \cup overrides)
  BY DEF EvaluateAndApply
<1> DEFINE pending == approvals \cup overrides
<1>2. ASSUME NEW state, NEW r, NEW kinds, SetPass(p, state, r), SetWorkflow(p, kinds)
      PROVE  /\ pass'[p].state = state /\ pass'[p].rev = r /\ workflow'[p] = kinds
             /\ \A q \in Passes \ {p} : pass'[q] = pass[q] /\ workflow'[q] = workflow[q]
  BY <1>0, <1>2, PassWritten, WorkflowWritten
<1>3. ASSUME UNCHANGED flowRows
      PROVE  /\ \A q : ReservationsOf(q)' = ReservationsOf(q) /\ EntriesOf(q)' = EntriesOf(q)
             /\ Deadlines(p)' = Deadlines(p)
  BY <1>3, OffersUntouched, EntriesUntouched, SameDeadlines DEF flowRows
<1>4. ASSUME SetPass(p, "denied", rev + 1), SetWorkflow(p, {}), UNCHANGED flowRows,
             from \in {"requested", "queued", "ready"}
      PROVE  PassStep(p)
  <2>1. OthersKeep(p) /\ pass'[p].state = "denied" /\ pass'[p].rev = rev + 1 /\ workflow'[p] = {}
    BY <1>2, <1>3, <1>4 DEF OthersKeep
  <2>2. PassFits(p)'
    BY <1>0, <1>3, <1>4, <2>1, Matrix DEF PassFits, RowsFit
  <2>3. "denied" \in Lifecycle!NormalTransitions[from]
    BY <1>4, Matrix
  <2>4. LifeStep(p)
    BY <1>0, <2>1, <2>3, LifeAfter
  <2> QED
    BY <2>1, <2>2, <2>4 DEF PassStep, DeadlinesStay, Moving
<1>5. CASE DenyByPolicy(p, from, rev)
  BY <1>4, <1>5, Matrix DEF DenyByPolicy
<1>6. CASE KeepState(p, from, rev, pending)
  <2>1. OthersKeep(p) /\ pass'[p].state = from /\ pass'[p].rev = rev
    BY <1>2, <1>3, <1>6 DEF OthersKeep, KeepState
  <2>2. PassFits(p)'
    BY <1>0, <1>3, <1>6, <2>1 DEF PassFits, RowsFit, KeepState
  <2>3. LifeStep(p)
    BY <2>1 DEF LifeStep
  <2>4. from \notin Refused /\ (from \in Moving => s = from)
    BY Matrix DEF Refused, Moving
  <2> QED
    BY <1>3, <1>6, <2>1, <2>2, <2>3, <2>4 DEF PassStep, DeadlinesStay, KeepState
<1>7. CASE from = "requested" /\ Allocate(p, rev, k.at, k.config, pending)
  <2>1. PICK flowUntil :
          \/ AllocateUnavailable(p, rev, k.config)
          \/ AllocateReady(p, rev, k.at, k.config, flowUntil, pending)
          \/ AllocateQueued(p, rev, k.at, k.config, flowUntil, pending)
          \/ AllocateFull(p, rev, k.at, k.config)
    BY <1>7 DEF Allocate
  <2>2. CASE AllocateUnavailable(p, rev, k.config) \/ AllocateFull(p, rev, k.at, k.config)
    BY <1>4, <1>7, <2>2 DEF AllocateUnavailable, AllocateFull
  <2>3. offers = {} /\ entries = {} /\ s \in {"absent", "requested"}
    BY <1>0, <1>7 DEF RowsFit
  <2>6. {"ready", "queued"} \subseteq Lifecycle!NormalTransitions["requested"]
    BY Matrix
  <2>4. CASE AllocateReady(p, rev, k.at, k.config, flowUntil, pending)
    <3>1. /\ pass'[p].state = "ready" /\ pass'[p].rev = rev + 1
          /\ \A q \in Passes \ {p} : pass'[q] = pass[q] /\ workflow'[q] = workflow[q]
      BY <1>2, <2>4 DEF AllocateReady
    <3>2. PICK o : ReservationsOf(p)' = {o} /\ o.claimedAt = Unclaimed
      BY <2>3, <2>4, OneOffered DEF AllocateReady
    <3>3. /\ \A q : q # p => ReservationsOf(q)' = ReservationsOf(q)
          /\ \A q : EntriesOf(q)' = EntriesOf(q)
      BY <2>4, OneOffered, EntriesUntouched DEF AllocateReady
    <3>4. PassFits(p)'
      BY <2>3, <3>1, <3>2, <3>3 DEF PassFits, RowsFit
    <3>5. LifeStep(p)
      BY <1>0, <1>7, <2>6, <3>1, LifeAfter
    <3> QED
      BY <2>3, <3>1, <3>3, <3>4, <3>5 DEF PassStep, OthersKeep, DeadlinesStay, Moving, Refused
  <2>5. CASE AllocateQueued(p, rev, k.at, k.config, flowUntil, pending)
    <3>1. /\ pass'[p].state = "queued" /\ pass'[p].rev = rev + 1
          /\ \A q \in Passes \ {p} : pass'[q] = pass[q] /\ workflow'[q] = workflow[q]
      BY <1>2, <2>5 DEF AllocateQueued
    <3>2. PICK e : EntriesOf(p)' = {e}
      BY <2>5, OneEnqueued DEF AllocateQueued
    <3>3. /\ \A q : q # p => EntriesOf(q)' = EntriesOf(q)
          /\ \A q : ReservationsOf(q)' = ReservationsOf(q)
      BY <2>5, OneEnqueued, OffersUntouched DEF AllocateQueued
    <3>4. PassFits(p)'
      BY <2>3, <3>1, <3>2, <3>3 DEF PassFits, RowsFit
    <3>5. LifeStep(p)
      BY <1>0, <1>7, <2>6, <3>1, LifeAfter
    <3> QED
      BY <2>3, <3>1, <3>3, <3>4, <3>5 DEF PassStep, OthersKeep, DeadlinesStay, Moving, Refused
  <2> QED
    BY <2>1, <2>2, <2>4, <2>5
<1> QED
  BY <1>1, <1>5, <1>6, <1>7

(* A pass that leaves its state with all its rows released. *)
LEMMA Emptied ==
    ASSUME RowsInv, NEW p \in Passes,
           NEW state \in Lifecycle!NormalTransitions[pass[p].state]
                        \ {"ready", "queued", "outbound", "at_destination"},
           SetPass(p, state, Rev(p) + 1),
           SetWorkflow(p, {}) \/ (state \notin Refused /\ UNCHANGED workflow),
           state = "returning" => pass[p].state \in Moving,
           ReservationsOf(p)' = {}, EntriesOf(p)' = {},
           \A q : q # p => /\ ReservationsOf(q)' = ReservationsOf(q)
                          /\ EntriesOf(q)' = EntriesOf(q),
           UNCHANGED destination
    PROVE  PassStep(p)
<1>0. TypeOK /\ pass[p].rev \in Nat /\ Rev(p) = pass[p].rev
  BY Fitting DEF RowsInv, Rev
<1>1. /\ pass'[p].state = state /\ pass'[p].rev = pass[p].rev + 1
      /\ \A q \in Passes \ {p} : pass'[q] = pass[q]
  BY <1>0, PassWritten
<1>2. \A q \in Passes \ {p} : workflow'[q] = workflow[q]
  BY <1>0, WorkflowWritten
<1>3. state \in Refused => workflow'[p] = {}
  BY <1>0, WorkflowWritten
<1>4. PassFits(p)'
  BY <1>1 DEF PassFits, RowsFit
<1>5. LifeStep(p)
  BY <1>1 DEF LifeStep
<1> QED
  BY <1>1, <1>2, <1>3, <1>4, <1>5 DEF PassStep, OthersKeep, DeadlinesStay, Moving

(* A command that commits makes one step of its pass.                      *)
LEMMA CommitStep ==
    ASSUME RowsInv, NEW k \in inflight, Commit(k)
    PROVE  PassStep(k.pass)
<1> DEFINE p == k.pass
<1>0. /\ TypeOK /\ p \in Passes /\ k.at \in Nat /\ k.rev \in Nat
      /\ RowsFit(pass[p].state, ReservationsOf(p), EntriesOf(p))
      /\ pass[p].state \in States /\ pass[p].rev \in Nat
  BY Fitting DEF RowsInv, TypeOK, Commands
<1>1. CASE CommitRequest(k)
  <2>1. PICK decision : EvaluateAndApply(p, "requested", 1, decision, k, {})
    BY <1>1 DEF CommitRequest
  <2>2. pass[p].state = "absent" /\ UNCHANGED destination
    BY <1>1 DEF CommitRequest, InState, Committed
  <2> QED
    BY <1>0, <2>1, <2>2, PolicyTail, StateNames
<1>2. CASE CommitApproval(k)
  <2>1. PICK decision :
          EvaluateAndApply(p, "requested", k.rev + 1, decision, k, workflow[p] \ {"approval"})
    BY <1>2 DEF CommitApproval
  <2>2. /\ pass[p].state = "requested" /\ UNCHANGED destination
        /\ k.rev + 1 = pass[p].rev + 1 /\ k.rev + 1 \in Nat
    BY <1>0, <1>2 DEF CommitApproval, InState, Rev, Committed
  <2> QED
    BY <1>0, <2>1, <2>2, PolicyTail, StateNames, Matrix
<1>3. CASE CommitOverrideRequest(k) \/ CommitOverrideResolve(k)
  <2>1. PICK decision, overrides :
          EvaluateAndApply(p, pass[p].state, k.rev + 1, decision, k, overrides)
    BY <1>3 DEF CommitOverrideRequest, CommitOverrideResolve
  <2>2. /\ pass[p].state \in ActiveStates /\ UNCHANGED destination
        /\ k.rev + 1 = pass[p].rev + 1 /\ k.rev + 1 \in Nat
    BY <1>0, <1>3 DEF CommitOverrideRequest, CommitOverrideResolve, InState, Rev, Committed
  <2> QED
    BY <1>0, <2>1, <2>2, PolicyTail
<1>4. CASE CommitDepart(k)
  <2>1. PICK o \in ReservationsOf(p) :
          reservations' = (reservations \ {o}) \cup
                {[o EXCEPT !.claimedAt = k.at, !.late = clock >= o.readyUntil]}
    BY <1>4 DEF CommitDepart
  <2> DEFINE claimed == [o EXCEPT !.claimedAt = k.at, !.late = clock >= o.readyUntil]
  <2>2. o \in Reservations /\ o.pass = p
    BY <1>0, <2>1 DEF TypeOK, ReservationsOf
  <2>3. claimed.pass = p /\ claimed.claimedAt = k.at
    BY <2>2 DEF Reservations
  <2>4. reservations' = (reservations \ {o}) \cup {claimed}
    BY <2>1
  <2> HIDE DEF claimed
  <2>5. /\ pass[p].state = "ready" /\ destination[DestOf[p]].status = "active"
        /\ k.rev = pass[p].rev
        /\ UNCHANGED <<queue, workflow, destination>>
    BY <1>4 DEF CommitDepart, InState, Rev, Committed
  <2>6. ReservationsOf(p) = {o} /\ EntriesOf(p) = {}
    BY <1>0, <2>1, <2>5 DEF RowsFit
  <2>7. ReservationsOf(p)' = {claimed}
    BY <2>3, <2>4, <2>6 DEF ReservationsOf
  <2>8. \A q : q # p => ReservationsOf(q)' = ReservationsOf(q)
    BY <2>2, <2>3, <2>4 DEF ReservationsOf
  <2>9. \A q : EntriesOf(q)' = EntriesOf(q)
    BY <2>5, EntriesUntouched
  <2>10. /\ pass'[p].state = "outbound" /\ pass'[p].rev = pass[p].rev + 1
         /\ \A q \in Passes \ {p} : pass'[q] = pass[q]
    <3>1. pass' = [pass EXCEPT ![p] = [state |-> "outbound", rev |-> k.rev + 1,
                                       mode |-> destination[DestOf[p]].mode]]
      BY <1>4 DEF CommitDepart
    <3> QED
      BY <1>0, <2>5, <3>1 DEF TypeOK
  <2>11. PassFits(p)'
    BY <1>0, <2>3, <2>6, <2>7, <2>9, <2>10 DEF PassFits, RowsFit, Unclaimed
  <2>12. LifeStep(p)
    BY <2>5, <2>10, Matrix DEF LifeStep
  <2> QED
    BY <2>5, <2>8, <2>9, <2>10, <2>11, <2>12 DEF PassStep, OthersKeep, DeadlinesStay, Moving, Refused
<1> QED
  BY <1>1, <1>2, <1>3, <1>4 DEF Commit

(* So do the commands of a single step.                                    *)
LEMMA OneStep ==
    ASSUME RowsInv, NEW p \in Passes,
           CancelSelf(p) \/ Arrive(p) \/ BeginReturn(p) \/ Complete(p)
    PROVE  PassStep(p)
<1>0. /\ TypeOK
      /\ RowsFit(pass[p].state, ReservationsOf(p), EntriesOf(p))
      /\ pass[p].state \in States /\ pass[p].rev \in Nat /\ Rev(p) = pass[p].rev
      /\ UNCHANGED destination
  BY Fitting DEF RowsInv, Rev, CancelSelf, Arrive, BeginReturn, Complete, Moved
<1>1. CASE CancelSelf(p)
  <2>1. /\ pass[p].state \in {"requested", "queued", "ready"}
        /\ SetPass(p, "cancelled", Rev(p) + 1) /\ SetWorkflow(p, {})
    BY <1>1, Matrix DEF CancelSelf, InState
  <2>2. /\ ReservationsOf(p)' = {} /\ EntriesOf(p)' = {}
        /\ \A q : q # p => /\ ReservationsOf(q)' = ReservationsOf(q)
                           /\ EntriesOf(q)' = EntriesOf(q)
    <3>1. CASE pass[p].state = "queued"
      <4>1. queue' = queue \ EntriesOf(p) /\ UNCHANGED reservations
        BY <1>1, <3>1 DEF CancelSelf, InState
      <4> QED
        BY <1>0, <3>1, <4>1, EntriesReleased, OffersUntouched DEF RowsFit
    <3>2. CASE pass[p].state = "ready"
      <4>1. reservations' = reservations \ ReservationsOf(p) /\ UNCHANGED queue
        BY <1>1, <3>2 DEF CancelSelf, InState
      <4> QED
        BY <1>0, <3>2, <4>1, OffersReleased, EntriesUntouched DEF RowsFit
    <3>3. CASE pass[p].state = "requested"
      <4>1. UNCHANGED flowRows
        BY <1>1, <3>3 DEF CancelSelf, InState
      <4> QED
        BY <1>0, <3>3, <4>1, OffersUntouched, EntriesUntouched DEF RowsFit, flowRows
    <3> QED
      BY <2>1, <3>1, <3>2, <3>3
  <2>3. "cancelled" \in Lifecycle!NormalTransitions[pass[p].state]
    BY <2>1, Matrix
  <2> QED
    BY <1>0, <2>1, <2>2, <2>3, Emptied DEF Refused
<1>2. CASE Arrive(p)
  <2>1. /\ pass[p].state = "outbound" /\ SetPass(p, "at_destination", Rev(p) + 1)
        /\ UNCHANGED <<workflow, reservations, queue>>
    BY <1>2 DEF Arrive, InState, Moved, flowRows
  <2>2. /\ pass'[p].state = "at_destination" /\ pass'[p].rev = pass[p].rev + 1
        /\ \A q \in Passes \ {p} : pass'[q] = pass[q]
    BY <1>0, <2>1, PassWritten
  <2>3. /\ \A q : ReservationsOf(q)' = ReservationsOf(q)
        /\ \A q : EntriesOf(q)' = EntriesOf(q)
    BY <2>1, OffersUntouched, EntriesUntouched
  <2>4. PassFits(p)'
    BY <1>0, <2>1, <2>2, <2>3 DEF PassFits, RowsFit
  <2>5. LifeStep(p)
    BY <2>1, <2>2, Matrix DEF LifeStep
  <2> QED
    BY <1>0, <2>1, <2>2, <2>3, <2>4, <2>5
       DEF PassStep, OthersKeep, DeadlinesStay, Moving, Refused
<1>3. CASE BeginReturn(p) \/ Complete(p)
  <2>1. PICK state \in {"returning", "completed"} :
          /\ SetPass(p, state, Rev(p) + 1)
          /\ state \in Lifecycle!NormalTransitions[pass[p].state]
          /\ state = "returning" => pass[p].state \in Moving
          /\ pass[p].state \in Moving
    BY <1>3, Matrix DEF BeginReturn, Complete, InState, Moved, Moving
  <2>2. /\ reservations' = reservations \ ReservationsOf(p)
        /\ UNCHANGED <<queue, workflow>>
    BY <1>3 DEF BeginReturn, Complete, Moved
  <2>3. /\ ReservationsOf(p)' = {} /\ EntriesOf(p)' = {}
        /\ \A q : q # p => /\ ReservationsOf(q)' = ReservationsOf(q)
                           /\ EntriesOf(q)' = EntriesOf(q)
    BY <1>0, <2>1, <2>2, OffersReleased, EntriesUntouched DEF RowsFit, Moving
  <2>4. /\ state \in Lifecycle!NormalTransitions[pass[p].state]
                     \ {"ready", "queued", "outbound", "at_destination"}
        /\ state \notin Refused
    BY <2>1 DEF Refused
  <2> QED
    BY <1>0, <2>1, <2>2, <2>3, <2>4, Emptied
<1> QED
  BY <1>1, <1>2, <1>3

(* A batch makes one step of one pass, or drops its candidate.             *)
LEMMA HandleStep ==
    ASSUME RowsInv, NEW w \in Workers, Handle(w)
    PROVE  \/ \E p \in Passes : PassStep(p)
           \/ UNCHANGED <<pass, reservations, queue, workflow, destination>>
<1>0. /\ TypeOK /\ UNCHANGED destination
      /\ \A c \in worker[w].found : c.pass \in Passes
      /\ GiveUp(w) => UNCHANGED <<pass, reservations, queue, workflow>>
  BY DEF RowsInv, TypeOK, WorkerRecords, Candidates, Handle, HandleStaleReady, HandleExpiredQueue,
         HandleUnavailable, HandlePromotion, HandleOrphans, Handling, GiveUp, flowRows
<1>1. ASSUME NEW p \in Passes, NEW state \in {"denied", "expired"}, End(p, state),
             pass[p].state \in {"queued", "ready"},
             reservations' = reservations \ ReservationsOf(p),
             queue' = queue \ EntriesOf(p)
      PROVE  PassStep(p)
  <2>1. state \in Lifecycle!NormalTransitions[pass[p].state]
                   \ {"ready", "queued", "outbound", "at_destination"}
    BY <1>1, Matrix
  <2>2. /\ ReservationsOf(p)' = {} /\ EntriesOf(p)' = {}
        /\ \A q : q # p => /\ ReservationsOf(q)' = ReservationsOf(q)
                           /\ EntriesOf(q)' = EntriesOf(q)
    BY <1>1, OffersReleased, EntriesReleased
  <2>3. SetPass(p, state, Rev(p) + 1) /\ SetWorkflow(p, {}) /\ state # "returning"
    BY <1>1 DEF End
  <2> QED
    BY <1>0, <2>1, <2>2, <2>3, Emptied
<1>2. CASE HandleStaleReady(w)
  <2>1. PICK c \in worker[w].found :
          \/ /\ InState(c.pass, {"ready"})
             /\ \E o \in ReservationsOf(c.pass) :
                /\ reservations' = reservations \ {o}
                /\ \/ End(c.pass, "denied") /\ UNCHANGED queue
                   \/ End(c.pass, "expired") /\ UNCHANGED queue
                   \/ /\ Enqueue(c.pass, Rev(c.pass) + 1, worker[w].at, o.flowUntil)
                      /\ SetPass(c.pass, "queued", Rev(c.pass) + 1)
                      /\ UNCHANGED workflow
          \/ GiveUp(w)
    BY <1>2 DEF HandleStaleReady
  <2>2. CASE GiveUp(w)
    BY <1>0, <2>2
  <2>3. ASSUME NEW p \in Passes, InState(p, {"ready"}), NEW o \in ReservationsOf(p),
               reservations' = reservations \ {o},
               \/ End(p, "denied") /\ UNCHANGED queue
               \/ End(p, "expired") /\ UNCHANGED queue
               \/ /\ Enqueue(p, Rev(p) + 1, worker[w].at, o.flowUntil)
                  /\ SetPass(p, "queued", Rev(p) + 1)
                  /\ UNCHANGED workflow
        PROVE  PassStep(p)
    <3>1. /\ pass[p].state = "ready" /\ pass[p].rev \in Nat /\ Rev(p) = pass[p].rev
          /\ ReservationsOf(p) = {o} /\ EntriesOf(p) = {}
      BY <2>3, Fitting DEF RowsFit, InState, Rev
    <3>2. CASE (End(p, "denied") \/ End(p, "expired")) /\ UNCHANGED queue
      <4>1. /\ reservations' = reservations \ ReservationsOf(p)
            /\ queue' = queue \ EntriesOf(p)
        BY <2>3, <3>1, <3>2
      <4> QED
        BY <1>1, <3>1, <3>2, <4>1
    <3>3. CASE /\ Enqueue(p, Rev(p) + 1, worker[w].at, o.flowUntil)
               /\ SetPass(p, "queued", Rev(p) + 1)
               /\ UNCHANGED workflow
      <4>1. PICK e : EntriesOf(p)' = {e} /\ e.flowUntil = o.flowUntil
        BY <3>3, OneEnqueued
      <4>2. \A q : q # p => EntriesOf(q)' = EntriesOf(q)
        BY <3>3, OneEnqueued
      <4>3. /\ ReservationsOf(p)' = {}
            /\ \A q : q # p => ReservationsOf(q)' = ReservationsOf(q)
        BY <2>3, <3>1 DEF ReservationsOf
      <4>4. /\ pass'[p].state = "queued" /\ pass'[p].rev = pass[p].rev + 1
            /\ \A q \in Passes \ {p} : pass'[q] = pass[q]
        BY <1>0, <3>1, <3>3, PassWritten
      <4>5. PassFits(p)'
        BY <4>1, <4>3, <4>4 DEF PassFits, RowsFit
      <4>6. LifeStep(p)
        BY <3>1, <4>4, Matrix DEF LifeStep
      <4>7. DeadlinesStay(p)
        BY <3>1, <4>1, <4>3 DEF DeadlinesStay, Deadlines
      <4> QED
        BY <1>0, <3>3, <4>2, <4>3, <4>4, <4>5, <4>6, <4>7 DEF PassStep, OthersKeep, Moving, Refused
    <3> QED
      BY <2>3, <3>2, <3>3
  <2> QED
    BY <1>0, <2>1, <2>2, <2>3
<1>3. CASE HandleExpiredQueue(w)
  <2>1. PICK c \in worker[w].found :
          \/ /\ InState(c.pass, {"queued"})
             /\ {e \in EntriesOf(c.pass) : e.flowUntil <= worker[w].at} # {}
             /\ queue' = queue \ {e \in EntriesOf(c.pass) : e.flowUntil <= worker[w].at}
             /\ End(c.pass, "expired")
             /\ UNCHANGED reservations
          \/ GiveUp(w)
    BY <1>3 DEF HandleExpiredQueue
  <2>2. CASE GiveUp(w)
    BY <1>0, <2>2
  <2>3. ASSUME NEW p \in Passes, InState(p, {"queued"}),
               NEW gone \in SUBSET EntriesOf(p), gone # {},
               queue' = queue \ gone, End(p, "expired"), UNCHANGED reservations
        PROVE  PassStep(p)
    <3>0. /\ pass[p].state = "queued" /\ ReservationsOf(p) = {}
          /\ \E e \in EntriesOf(p) : EntriesOf(p) = {e}
      BY <2>3, Fitting DEF RowsFit, InState
    <3>1. gone = EntriesOf(p)
      BY <2>3, <3>0, Zenon
    <3>2. /\ reservations' = reservations \ ReservationsOf(p)
          /\ queue' = queue \ EntriesOf(p)
      BY <2>3, <3>0, <3>1
    <3> QED
      BY <1>1, <2>3, <3>0, <3>2
  <2>4. ASSUME NEW e0 \in worker[w].found PROVE
            {e \in EntriesOf(e0.pass) : e.flowUntil <= worker[w].at} \in SUBSET EntriesOf(e0.pass)
    OBVIOUS
  <2> QED
    BY <1>0, <2>1, <2>2, <2>3, <2>4
<1>4. CASE HandleUnavailable(w)
  <2>1. PICK c \in worker[w].found :
          \/ /\ \/ /\ InState(c.pass, {"queued"})
                   /\ \E row \in SUBSET EntriesOf(c.pass) : 
                         row # {} /\ reservations' = reservations \ row /\ queue' = queue \ row
                \/ /\ InState(c.pass, {"ready"})
                   /\ \E row \in SUBSET ReservationsOf(c.pass) :
                         row # {} /\ reservations' = reservations \ row /\ queue' = queue \ row
             /\ End(c.pass, "denied")
          \/ GiveUp(w)
    BY <1>4 DEF HandleUnavailable, InState
  <2>2. CASE GiveUp(w)
    BY <1>0, <2>2
  <2>3. ASSUME NEW p \in Passes, NEW row, row # {},
               \/ InState(p, {"queued"}) /\ row \in SUBSET EntriesOf(p)
               \/ InState(p, {"ready"}) /\ row \in SUBSET ReservationsOf(p),
               reservations' = reservations \ row, queue' = queue \ row,
               End(p, "denied")
        PROVE  PassStep(p)
    <3>1. pass[p].state \in {"queued", "ready"}
      BY <2>3 DEF InState
    <3>2. \/ /\ ReservationsOf(p) = {} /\ row \in SUBSET EntriesOf(p)
             /\ \E e \in EntriesOf(p) : EntriesOf(p) = {e}
          \/ /\ EntriesOf(p) = {} /\ row \in SUBSET ReservationsOf(p)
             /\ \E o \in ReservationsOf(p) : ReservationsOf(p) = {o}
      BY <2>3, Fitting DEF RowsFit, InState
    <3>3. CASE /\ ReservationsOf(p) = {} /\ row \in SUBSET EntriesOf(p)
               /\ \E e \in EntriesOf(p) : EntriesOf(p) = {e}
      <4>1. row = EntriesOf(p)
        BY <2>3, <3>3, Zenon
      <4>2. reservations \ row = reservations
        BY <3>3, <4>1 DEF ReservationsOf, EntriesOf
      <4>3. reservations' = reservations \ ReservationsOf(p) /\ queue' = queue \ EntriesOf(p)
        BY <2>3, <3>3, <4>1, <4>2
      <4> QED
        BY <1>1, <2>3, <3>1, <4>3
    <3>4. CASE /\ EntriesOf(p) = {} /\ row \in SUBSET ReservationsOf(p)
               /\ \E o \in ReservationsOf(p) : ReservationsOf(p) = {o}
      <4>1. row = ReservationsOf(p)
        BY <2>3, <3>4, Zenon
      <4>2. queue \ row = queue
        BY <3>4, <4>1 DEF ReservationsOf, EntriesOf
      <4>3. reservations' = reservations \ ReservationsOf(p) /\ queue' = queue \ EntriesOf(p)
        BY <2>3, <3>4, <4>1, <4>2
      <4> QED
        BY <1>1, <2>3, <3>1, <4>3
    <3> QED
      BY <3>2, <3>3, <3>4
  <2> QED
    BY <1>0, <2>1, <2>2, <2>3
<1>5. CASE HandlePromotion(w)
  <2>1. PICK c \in worker[w].found :
          \/ /\ InState(c.pass, {"queued"})
             /\ \E e \in EntriesOf(c.pass) :
                /\ queue' = queue \ {e}
                /\ \/ End(c.pass, "denied") /\ UNCHANGED reservations
                   \/ /\ SetPass(c.pass, "requested", Rev(c.pass) + 1)
                      /\ \E kinds : SetWorkflow(c.pass, kinds)
                      /\ UNCHANGED reservations
                   \/ /\ SetPass(c.pass, "ready", Rev(c.pass) + 1)
                      /\ \E kinds : SetWorkflow(c.pass, kinds)
                      /\ reservations' = reservations \cup
                            {Offer(c.pass, Rev(c.pass) + 1, worker[w].at, e.flowUntil)}
          \/ GiveUp(w)
    BY <1>5 DEF HandlePromotion, Promotable
  <2>2. CASE GiveUp(w)
    BY <1>0, <2>2
  <2>3. ASSUME NEW p \in Passes, InState(p, {"queued"}), NEW e \in EntriesOf(p),
               queue' = queue \ {e},
               \/ End(p, "denied") /\ UNCHANGED reservations
               \/ /\ SetPass(p, "requested", Rev(p) + 1)
                  /\ \E kinds : SetWorkflow(p, kinds)
                  /\ UNCHANGED reservations
               \/ /\ SetPass(p, "ready", Rev(p) + 1)
                  /\ \E kinds : SetWorkflow(p, kinds)
                  /\ reservations' = reservations \cup
                        {Offer(p, Rev(p) + 1, worker[w].at, e.flowUntil)}
        PROVE  PassStep(p)
    <3>1. /\ pass[p].state = "queued" /\ pass[p].rev \in Nat /\ Rev(p) = pass[p].rev
          /\ EntriesOf(p) = {e} /\ ReservationsOf(p) = {}
      BY <2>3, Fitting DEF RowsFit, InState, Rev
    <3>2. /\ EntriesOf(p)' = {}
          /\ \A q : q # p => EntriesOf(q)' = EntriesOf(q)
      BY <2>3, <3>1 DEF EntriesOf
    <3>3. CASE End(p, "denied") /\ UNCHANGED reservations
      <4>1. /\ reservations' = reservations \ ReservationsOf(p)
            /\ queue' = queue \ EntriesOf(p)
        BY <2>3, <3>1, <3>3
      <4> QED
        BY <1>1, <3>1, <3>3, <4>1
    <3>4. CASE /\ SetPass(p, "requested", Rev(p) + 1)
               /\ \E kinds : SetWorkflow(p, kinds)
               /\ UNCHANGED reservations
      <4>1. /\ pass'[p].state = "requested" /\ pass'[p].rev = pass[p].rev + 1
            /\ \A q \in Passes \ {p} : pass'[q] = pass[q] /\ workflow'[q] = workflow[q]
        BY <1>0, <3>1, <3>4, PassWritten, WorkflowWritten
      <4>2. \A q : ReservationsOf(q)' = ReservationsOf(q)
        BY <3>4, OffersUntouched
      <4>3. PassFits(p)'
        BY <3>1, <3>2, <4>1, <4>2 DEF PassFits, RowsFit
      <4>4. LifeStep(p)
        BY <3>1, <4>1, Matrix DEF LifeStep
      <4> QED
        BY <1>0, <3>2, <4>1, <4>2, <4>3, <4>4
           DEF PassStep, OthersKeep, DeadlinesStay, Moving, Refused
    <3>5. CASE /\ SetPass(p, "ready", Rev(p) + 1)
               /\ \E kinds : SetWorkflow(p, kinds)
               /\ reservations' = reservations \cup
                     {Offer(p, Rev(p) + 1, worker[w].at, e.flowUntil)}
      <4>1. /\ pass'[p].state = "ready" /\ pass'[p].rev = pass[p].rev + 1
            /\ \A q \in Passes \ {p} : pass'[q] = pass[q] /\ workflow'[q] = workflow[q]
        BY <1>0, <3>1, <3>5, PassWritten, WorkflowWritten
      <4>2. PICK o : ReservationsOf(p)' = {o} /\ o.claimedAt = Unclaimed
                     /\ o.flowUntil = e.flowUntil
        BY <3>1, <3>5, OneOffered
      <4>3. \A q : q # p => ReservationsOf(q)' = ReservationsOf(q)
        BY <3>5, OneOffered
      <4>4. PassFits(p)'
        BY <3>2, <4>1, <4>2 DEF PassFits, RowsFit
      <4>5. LifeStep(p)
        BY <3>1, <4>1, Matrix DEF LifeStep
      <4>6. DeadlinesStay(p)
        BY <3>1, <3>2, <4>2 DEF DeadlinesStay, Deadlines
      <4> QED
        BY <1>0, <3>2, <4>1, <4>3, <4>4, <4>5, <4>6 DEF PassStep, OthersKeep, Moving, Refused
    <3> QED
      BY <2>3, <3>3, <3>4, <3>5
  <2> QED
    BY <1>0, <2>1, <2>2, <2>3
<1>6. CASE HandleOrphans(w)
  <2>1. PICK c \in worker[w].found :
          \/ /\ InState(c.pass, TerminalStates)
             /\ ReleaseAll(c.pass) /\ UNCHANGED <<pass, workflow>>
          \/ GiveUp(w)
    BY <1>6 DEF HandleOrphans
  <2>2. CASE GiveUp(w)
    BY <1>0, <2>2
  <2>3. ASSUME NEW p \in Passes, InState(p, TerminalStates),
               ReleaseAll(p), UNCHANGED <<pass, workflow>>
        PROVE  PassStep(p)
    <3>1. /\ ReservationsOf(p)' = {} /\ EntriesOf(p)' = {}
          /\ \A q : q # p => /\ ReservationsOf(q)' = ReservationsOf(q)
                             /\ EntriesOf(q)' = EntriesOf(q)
      BY <2>3, OffersReleased, EntriesReleased DEF ReleaseAll
    <3>2. pass[p].state \in {"completed", "denied", "cancelled", "expired"}
      BY <2>3, Matrix DEF InState
    <3>3. PassFits(p)'
      BY <2>3, <3>1, <3>2 DEF PassFits, RowsFit
    <3>4. pass[p].state \in Refused => workflow[p] = {}
      BY DEF RowsInv, RefusedPassesAreQuiet, InState, Refused
    <3> QED
      BY <1>0, <2>3, <3>1, <3>2, <3>3, <3>4 DEF PassStep, OthersKeep, LifeStep, DeadlinesStay, Moving
  <2> QED
    BY <1>0, <2>1, <2>2, <2>3
<1> QED
  BY <1>2, <1>3, <1>4, <1>5, <1>6 DEF Handle

---------------------------------------------------------------------------
(* What every step does, and the invariant. *)

Still == UNCHANGED <<pass, reservations, queue, workflow, destination>>
AdministratorStep ==
    /\ UNCHANGED <<pass, reservations, queue, workflow>>
    /\ \A p \in Passes : destination'[DestOf[p]].status = "archived" =>
          \/ destination[DestOf[p]].status = "archived"
          \/ pass[p].state \notin ActiveStates

(* Administrators archive only a destination nobody is bound for.          *)
LEMMA Administrators ==
    ASSUME RowsInv, NEW d \in Destinations, NEW config \in Configs[d],
           UpdateDestination(d, config) \/ OpenOrClose(d, config) \/ Archive(d, config)
    PROVE  AdministratorStep
<1>1. /\ UNCHANGED <<pass, reservations, queue, workflow>>
      /\ destination'[d] = config
      /\ \A e \in Destinations \ {d} : destination'[e] = destination[e]
  BY DEF UpdateDestination, OpenOrClose, Archive, SetDestination, flowRows, RowsInv, TypeOK
<1>2. \A p \in Passes : DestOf[p] \in Destinations
  BY PlacementAssumption
<1>3. config.status = "archived" =>
        \/ destination[d].status = "archived"
        \/ \A p \in Passes : DestOf[p] = d => pass[p].state \notin ActiveStates
  <2>1. CASE OpenOrClose(d, config)
    <3>1. config.status \in {"active", "closed"}
      BY <2>1 DEF OpenOrClose
    <3> QED
      BY <3>1
  <2>2. CASE UpdateDestination(d, config) \/ Archive(d, config)
    BY <2>2 DEF UpdateDestination, Archive, InState
  <2> QED
    BY <2>1, <2>2
<1> QED
  BY <1>1, <1>2, <1>3 DEF AdministratorStep

(* Every step is a step of one pass, of no pass, or of an administrator.   *)
LEMMA EveryStep ==
    ASSUME RowsInv, [Next]_vars
    PROVE  (\E p \in Passes : PassStep(p)) \/ Still \/ AdministratorStep
<1>1. ASSUME NEW op \in Operations, NEW p \in Passes, Issue(op, p) PROVE Still
  BY <1>1 DEF Issue, Still, flowRows
<1>2. ASSUME NEW k \in inflight, RereadDestination(k) \/ Abandon(k) PROVE Still
  BY <1>2 DEF RereadDestination, Abandon, Still, flowRows
<1>3. ASSUME NEW k \in inflight, Commit(k) PROVE \E p \in Passes : PassStep(p)
  <2>1. k.pass \in Passes
    BY DEF RowsInv, TypeOK, Commands
  <2> QED
    BY <1>3, <2>1, CommitStep
<1>4. ASSUME NEW w \in Workers, Reconcile(w) \/ Crash(w)
      PROVE  (\E p \in Passes : PassStep(p)) \/ Still
  <2>1. CASE StartBatch(w) \/ Discover(w) \/ DiscoverHead(w) \/ AbortBatch(w) \/ Crash(w)
    BY <2>1 DEF StartBatch, Discover, DiscoverHead, AbortBatch, Crash, Still, flowRows
  <2>2. CASE Handle(w)
    BY <2>2, HandleStep DEF Still
  <2> QED
    BY <1>4, <2>1, <2>2 DEF Reconcile
<1>5. CASE Tick \/ UNCHANGED vars
  BY <1>5 DEF Tick, vars, Still, flowRows
<1> QED
  BY <1>1, <1>2, <1>3, <1>4, <1>5, OneStep, Administrators DEF Next

(* No pass and no row: they agree.                                         *)
LEMMA InitRows == Init => RowsInv
<1> SUFFICES ASSUME Init PROVE RowsInv
  OBVIOUS
<1>1. TypeOK
  BY InitType
<1>2. \A p \in Passes : pass[p].state = "absent" /\ workflow[p] = {}
  BY DEF Init
<1>3. \A p \in Passes : ReservationsOf(p) = {} /\ EntriesOf(p) = {}
  BY DEF Init, ReservationsOf, EntriesOf
<1>4. \A p \in Passes : PassFits(p)
  BY <1>2, <1>3 DEF PassFits, RowsFit
<1> QED
  BY <1>1, <1>2, <1>4 DEF RowsInv, RefusedPassesAreQuiet, ArchivedHasNoMovement, InState

(* Every step keeps passes and rows in agreement.                          *)
LEMMA NextRows == RowsInv /\ [Next]_vars => RowsInv'
<1> SUFFICES ASSUME RowsInv, [Next]_vars PROVE RowsInv'
  OBVIOUS
<1>1. TypeOK'
  BY NextType DEF RowsInv
<1>2. ASSUME NEW p \in Passes, PassStep(p) PROVE RowsInv'
  <2>1. \A q \in Passes : PassFits(q)'
    BY <1>2 DEF PassStep, OthersKeep, RowsInv, PassFits
  <2>2. RefusedPassesAreQuiet'
    BY <1>2 DEF PassStep, OthersKeep, RowsInv, RefusedPassesAreQuiet, InState, Refused
  <2>3. ArchivedHasNoMovement'
    BY <1>2 DEF PassStep, OthersKeep, RowsInv, ArchivedHasNoMovement, InState, Moving
  <2> QED
    BY <1>1, <2>1, <2>2, <2>3 DEF RowsInv
<1>3. ASSUME UNCHANGED <<pass, reservations, queue, workflow>>
      PROVE  (\A q \in Passes : PassFits(q)') /\ RefusedPassesAreQuiet'
  BY <1>3 DEF RowsInv, PassFits, ReservationsOf, EntriesOf, RefusedPassesAreQuiet, InState
<1>4. CASE Still
  BY <1>1, <1>3, <1>4 DEF Still, RowsInv, ArchivedHasNoMovement, InState
<1>5. CASE AdministratorStep
  <2>1. ArchivedHasNoMovement'
    BY <1>5, Matrix DEF AdministratorStep, RowsInv, ArchivedHasNoMovement, InState
  <2> QED
    BY <1>1, <1>3, <1>5, <2>1 DEF AdministratorStep, RowsInv
<1> QED
  BY <1>2, <1>4, <1>5, EveryStep

(* The invariant of the rows holds in every reachable state.               *)
LEMMA RowsHold == Spec => []RowsInv
BY InitRows, NextRows, PTL DEF Spec

(* In every reachable state a pass and its flow rows agree, whichever      *)
(* command or replica wrote last.                                          *)
THEOREM RowsAgree == Spec => []RowsMatchState
<1>1. RowsInv => RowsMatchState
  <2> SUFFICES ASSUME RowsInv PROVE RowsMatchState
    OBVIOUS
  <2>0. /\ \A e \in queue : e.pass \in Passes
        /\ \A o \in reservations : o.pass \in Passes
    BY DEF RowsInv, TypeOK, Entries, Reservations
  <2>1. \A p \in Passes :
          /\ InState(p, {"ready"}) <=>
                \E o \in ReservationsOf(p) : o.claimedAt = Unclaimed /\ ~ InState(p, {"denied"})
          /\ InState(p, {"queued"}) <=> EntriesOf(p) # {} /\ ~ InState(p, {"denied"})
          /\ InState(p, {"outbound", "at_destination"}) <=>
                \E o \in ReservationsOf(p) : o.claimedAt # Unclaimed
    <3> SUFFICES ASSUME NEW p \in Passes
                 PROVE  /\ InState(p, {"ready"}) <=>
                              \E o \in ReservationsOf(p) :
                                  o.claimedAt = Unclaimed /\ ~ InState(p, {"denied"})
                        /\ InState(p, {"queued"}) <=> EntriesOf(p) # {} /\ ~ InState(p, {"denied"})
                        /\ InState(p, {"outbound", "at_destination"}) <=>
                              \E o \in ReservationsOf(p) : o.claimedAt # Unclaimed
      OBVIOUS
    <3>1. RowsFit(pass[p].state, ReservationsOf(p), EntriesOf(p))
      BY Fitting
    <3> QED
      BY <3>1 DEF RowsFit, InState
  <2>2. \A p \in Passes :
          /\ \A o, q \in ReservationsOf(p) : o = q
          /\ \A e, f \in EntriesOf(p) : e = f
          /\ ReservationsOf(p) = {} \/ EntriesOf(p) = {}
    <3> SUFFICES ASSUME NEW p \in Passes
                 PROVE  /\ \A o, q \in ReservationsOf(p) : o = q
                        /\ \A e, f \in EntriesOf(p) : e = f
                        /\ ReservationsOf(p) = {} \/ EntriesOf(p) = {}
      OBVIOUS
    <3>1. RowsFit(pass[p].state, ReservationsOf(p), EntriesOf(p))
      BY Fitting
    <3> QED
      BY <3>1 DEF RowsFit
  <2>3. OneEntryEach /\ OneOfferEach
    BY <2>0, <2>2 DEF OneEntryEach, OneOfferEach, EntriesOf, ReservationsOf
  <2>4. \A o \in reservations, e \in queue : o.pass # e.pass
    BY <2>0, <2>2 DEF EntriesOf, ReservationsOf
  <2> QED
    BY <2>1, <2>3, <2>4 DEF RowsMatchState
<1> QED
  BY RowsHold, <1>1, PTL

(* Nothing is pending on a pass that was denied, cancelled or expired,     *)
(* whatever was in flight when that happened.                              *)
THEOREM RefusedStaysQuiet == Spec => []RefusedPassesAreQuiet
<1>1. RowsInv => RefusedPassesAreQuiet
  BY DEF RowsInv
<1> QED
  BY RowsHold, <1>1, PTL

(* Nobody moves to or from an archived destination, although requests can  *)
(* still be inserted after the archive command looked.                     *)
THEOREM ArchivedIsEmpty == Spec => []ArchivedHasNoMovement
<1>1. RowsInv => ArchivedHasNoMovement
  BY DEF RowsInv
<1> QED
  BY RowsHold, <1>1, PTL

(* No step extends, or shortens, the deadline of a waiting pass. *)
THEOREM DeadlinesAreInherited == Spec => DeadlineInherited
<1> DEFINE Kept == \A p \in Passes :
              (InState(p, {"queued", "ready"}) /\ InState(p, {"queued", "ready"})')
                  => Deadlines(p)' = Deadlines(p)
<1>1. RowsInv /\ [Next]_vars => [Kept]_vars
  <2> SUFFICES ASSUME RowsInv, [Next]_vars PROVE Kept
    OBVIOUS
  <2>1. ASSUME NEW p \in Passes, PassStep(p) PROVE Kept
    <3> SUFFICES ASSUME NEW q \in Passes, InState(q, {"queued", "ready"}),
                        InState(q, {"queued", "ready"})'
                 PROVE  Deadlines(q)' = Deadlines(q)
      OBVIOUS
    <3>1. CASE q = p
      BY <2>1, <3>1 DEF PassStep, DeadlinesStay, InState
    <3>2. CASE q # p
      BY <2>1, <3>2, SameDeadlines DEF PassStep, OthersKeep
    <3> QED
      BY <3>1, <3>2
  <2>2. CASE Still \/ AdministratorStep
    BY <2>2, SameDeadlines, OffersUntouched, EntriesUntouched DEF Still, AdministratorStep
  <2> QED
    BY <2>1, <2>2, EveryStep
<1> QED
  BY RowsHold, <1>1, PTL DEF Spec, DeadlineInherited

(* What the lifecycle matrix sees of the passes. *)
Life == [p \in Passes |-> [state |-> pass[p].state, rev |-> pass[p].rev]]

(* DestinationFlow implements PassLifecycle: every step of every actor is  *)
(* a transition of the matrix that numbers its events, or leaves the       *)
(* lifecycle of every pass alone.                                          *)
THEOREM ImplementsLifecycle == Spec => LifecycleRespected
<1>1. Init => Lifecycle!Init
  BY DEF Init, Lifecycle!Init
<1>2. RowsInv /\ [Next]_vars => [Lifecycle!Next]_Life
  <2> SUFFICES ASSUME RowsInv, [Next]_vars PROVE [Lifecycle!Next]_Life
    OBVIOUS
  <2>1. ASSUME NEW p \in Passes, PassStep(p) PROVE [Lifecycle!Next]_Life
    <3>1. \A q \in Passes : q # p => pass'[q] = pass[q]
      BY <2>1 DEF PassStep, OthersKeep
    <3>2. ASSUME NEW state, NEW rev, pass'[p].state = state, pass'[p].rev = rev
          PROVE  Life' = [Life EXCEPT ![p] = [state |-> state, rev |-> rev]]
      BY <3>1, <3>2 DEF Life
    <3>3. Life[p].state = pass[p].state /\ Life[p].rev = pass[p].rev
      BY DEF Life
    <3>4. CASE /\ pass[p].state = "absent"
               /\ \/ pass'[p].state = "requested" /\ pass'[p].rev = 1
                  \/ /\ pass'[p].state \in Lifecycle!NormalTransitions["requested"]
                     /\ pass'[p].rev = 2
      <4>1. Lifecycle!Create(p)
        BY <3>2, <3>3, <3>4 DEF Lifecycle!Create, Life
      <4> QED
        BY <4>1 DEF Lifecycle!Next
    <3>5. CASE /\ pass[p].state \in ActiveStates
               /\ pass'[p].state = pass[p].state
               /\ pass'[p].rev = pass[p].rev + 1
      <4>1. Life' = [Life EXCEPT ![p].rev = @ + 1]
        BY <3>1, <3>5 DEF Life
      <4>2. Lifecycle!Touch(p)
        BY <3>3, <3>5, <4>1 DEF Lifecycle!Touch, Life, ActiveStates
      <4> QED
        BY <4>2 DEF Lifecycle!Next
    <3>6. CASE /\ pass'[p].state \in Lifecycle!NormalTransitions[pass[p].state]
               /\ pass'[p].rev \in {pass[p].rev + 1, pass[p].rev + 2}
      <4>1. PICK touched \in {0, 1} : pass'[p].rev = pass[p].rev + touched + 1
        BY <3>6, Fitting
      <4>2. Life' = [Life EXCEPT ![p] = [state |-> pass'[p].state,
                                         rev |-> Life[p].rev + touched + 1]]
        BY <3>2, <3>3, <4>1
      <4>3. Lifecycle!Move(p)
        BY <3>3, <3>6, <4>2 DEF Lifecycle!Move, Life
      <4> QED
        BY <4>3 DEF Lifecycle!Next
    <3>7. CASE pass'[p] = pass[p]
      BY <3>1, <3>7 DEF Life
    <3>8. LifeStep(p)
      BY <2>1 DEF PassStep
    <3> QED
      BY <3>4, <3>5, <3>6, <3>7, <3>8 DEF LifeStep
  <2>2. CASE Still \/ AdministratorStep
    BY <2>2 DEF Still, AdministratorStep, Life
  <2> QED
    BY <2>1, <2>2, EveryStep
<1> QED
  BY <1>1, <1>2, RowsHold, PTL DEF Spec, LifecycleRespected, Lifecycle!Spec, Life

-----------------------------------------------------------------------------
(* Capacity and order. *)

ConfigsStored ==
    /\ \A d \in Destinations : destination[d] \in Configs[d]
    /\ \A k \in inflight : k.config \in Configs[DestOf[k.pass]]
OnlyClaimsAreLate == \A o \in reservations : o.claimedAt = Unclaimed => ~ o.late

(* A command counts the slots at its own instant, when at least the offers *)
(* of now were consuming, and with a row of the destination that an        *)
(* administrator stored once.                                              *)
CapacityInv == /\ IInv
               /\ IsFiniteSet(reservations)
               /\ ConfigsStored
               /\ OnlyClaimsAreLate
               /\ CapacityExceptLateClaims

(* What a step does to the offers. *)
OffersShrink ==
    /\ reservations' \subseteq reservations
    /\ clock' \in Nat /\ clock <= clock'
OfferJoins ==
    /\ clock' = clock
    /\ \E p \in Passes, rev \in Nat, at \in Nat, flowUntil \in Nat :
        /\ at <= clock
        /\ \E config \in Configs[DestOf[p]] : HasRoom(config, DestOf[p], at)
        /\ reservations' = reservations \cup {Offer(p, rev, at, flowUntil)}
OfferClaimed ==
    /\ clock' = clock
    /\ \E o \in reservations, at \in Nat :
        /\ o.claimedAt = Unclaimed
        /\ reservations' = (reservations \ {o}) \cup
              {[o EXCEPT !.claimedAt = at, !.late = clock >= o.readyUntil]}
OfferStep == OffersShrink \/ OfferJoins \/ OfferClaimed

---------------------------------------------------------------------------
(* Slots are only taken when there is room. *)

Held(d) == {o \in ConsumingReservations(d, clock) : ~ o.late}

(* The instants of offers and of the clock are comparable.                 *)
LEMMA InstantsAreNumbers ==
    ASSUME TypeOK
    PROVE  /\ clock \in Nat
           /\ \A o \in reservations : /\ o \in Reservations /\ o.pass \in Passes
                                      /\ o.readyUntil \in Nat
BY DEF TypeOK, Reservations

(* The earlier the instant, the more offers are counted. *)
LEMMA EarlierCountsMore ==
    ASSUME TypeOK, NEW d, NEW at \in Nat, at <= clock
    PROVE  Held(d) \subseteq ConsumingReservations(d, at)
BY InstantsAreNumbers DEF Held, ConsumingReservations, Consumes

(* The offers counted at a destination are finite in number.               *)
LEMMA HeldIsFinite ==
    ASSUME IsFiniteSet(reservations), NEW d, NEW at
    PROVE  IsFiniteSet(Held(d)) /\ IsFiniteSet(ConsumingReservations(d, at))
<1>1. Held(d) \subseteq reservations /\ ConsumingReservations(d, at) \subseteq reservations
  BY DEF Held, ConsumingReservations
<1> QED
  BY <1>1, FS_Subset

(* Offers that leave, or time that passes, free slots only.                *)
LEMMA ShrinkKeepsCapacity ==
    ASSUME CapacityInv, TypeOK', OffersShrink
    PROVE  /\ \A d : Held(d)' \subseteq Held(d)
           /\ IsFiniteSet(reservations)' /\ OnlyClaimsAreLate'
<1>1. TypeOK
  BY DEF CapacityInv, IInv
<1>2. \A d : Held(d)' \subseteq Held(d)
  BY <1>1, InstantsAreNumbers DEF OffersShrink, Held, ConsumingReservations, Consumes
<1>3. IsFiniteSet(reservations')
  BY FS_Subset DEF CapacityInv, OffersShrink
<1> QED
  BY <1>2, <1>3 DEF CapacityInv, OffersShrink, OnlyClaimsAreLate

(* An offer made where there is room exceeds no capacity.                  *)
LEMMA JoinKeepsCapacity ==
    ASSUME CapacityInv, OfferJoins, NEW d \in Destinations, NEW most \in {c.capacity : c \in Configs[d]},
           \A c \in Configs[d] : c.capacity # Unlimited /\ c.capacity <= most
    PROVE  Cardinality(Held(d)') <= most
<1>0. TypeOK /\ IsFiniteSet(reservations) /\ Cardinality(Held(d)) <= most
  BY DEF CapacityInv, IInv, CapacityExceptLateClaims, Held
<1>1. most \in Nat /\ \A c \in Configs[d] : c.capacity \in Nat
  BY ConfigAssumption DEF ConfigRecords
<1>2. PICK p \in Passes, rev \in Nat, at \in Nat, flowUntil \in Nat :
        /\ at <= clock
        /\ \E config \in Configs[DestOf[p]] : HasRoom(config, DestOf[p], at)
        /\ reservations' = reservations \cup {Offer(p, rev, at, flowUntil)}
  BY DEF OfferJoins
<1> DEFINE new == Offer(p, rev, at, flowUntil)
<1>3. new.pass = p
  BY DEF Offer
<1>4. reservations' = reservations \cup {new} /\ clock' = clock
  BY <1>2 DEF OfferJoins
<1> HIDE DEF new
<1>5. CASE DestOf[p] # d
  <2>1. Held(d)' = Held(d)
    BY <1>3, <1>4, <1>5 DEF Held, ConsumingReservations, Consumes
  <2> QED
    BY <1>0, <2>1
<1>6. CASE DestOf[p] = d
  <2> DEFINE counted == ConsumingReservations(d, at)
  <2>1. PICK config \in Configs[d] : HasRoom(config, d, at)
    BY <1>2, <1>6
  <2>2. IsFiniteSet(counted) /\ Cardinality(counted) \in Nat
    BY <1>0, HeldIsFinite, FS_CardinalityType
  <2>3. Cardinality(counted) < most
    <3>1. Cardinality(counted) < config.capacity /\ config.capacity <= most
      BY <2>1 DEF HasRoom
    <3> QED
      BY <1>1, <2>2, <3>1
  <2>4. Held(d)' \subseteq counted \cup {new}
    <3>1. Held(d) \subseteq counted
      BY <1>0, <1>2, EarlierCountsMore
    <3>2. Held(d)' \subseteq Held(d) \cup {new}
      BY <1>4 DEF Held, ConsumingReservations, Consumes
    <3> QED
      BY <3>1, <3>2
  <2> HIDE DEF counted
  <2>5. /\ IsFiniteSet(counted \cup {new})
        /\ Cardinality(counted \cup {new}) <= Cardinality(counted) + 1
        /\ Cardinality(counted \cup {new}) \in Nat
    <3>1. /\ IsFiniteSet(counted \cup {new})
          /\ Cardinality(counted \cup {new}) <= Cardinality(counted) + 1
      BY <2>2, FS_AddElement
    <3> QED
      BY <3>1, FS_CardinalityType
  <2>6. Cardinality(Held(d)') <= Cardinality(counted \cup {new}) /\ Cardinality(Held(d)') \in Nat
    <3> DEFINE after == Held(d)'
    <3>1. after \subseteq counted \cup {new}
      BY <2>4
    <3> HIDE DEF after
    <3>2. IsFiniteSet(after) /\ Cardinality(after) <= Cardinality(counted \cup {new})
      BY <2>5, <3>1, FS_Subset
    <3>3. Cardinality(after) \in Nat
      BY <3>2, FS_CardinalityType
    <3> QED
      BY <3>2, <3>3 DEF after
  <2> QED
    BY <1>1, <2>2, <2>3, <2>5, <2>6
<1> QED
  BY <1>5, <1>6

(* A claim replaces an offer by one that counts no more than it.           *)
LEMMA ClaimKeepsCapacity ==
    ASSUME CapacityInv, OfferClaimed
    PROVE  /\ \A d : Cardinality(Held(d)') <= Cardinality(Held(d))
           /\ IsFiniteSet(reservations)' /\ OnlyClaimsAreLate'
<1>0. TypeOK /\ IsFiniteSet(reservations)
  BY DEF CapacityInv, IInv
<1>1. PICK o \in reservations, at \in Nat :
        /\ o.claimedAt = Unclaimed
        /\ reservations' = (reservations \ {o}) \cup
              {[o EXCEPT !.claimedAt = at, !.late = clock >= o.readyUntil]}
  BY DEF OfferClaimed
<1> DEFINE claimed == [o EXCEPT !.claimedAt = at, !.late = clock >= o.readyUntil]
<1>2. o \in Reservations /\ o.readyUntil \in Nat /\ clock \in Nat
  BY <1>0, InstantsAreNumbers
<1>3. /\ claimed.pass = o.pass /\ claimed.claimedAt = at
      /\ claimed.late = (clock >= o.readyUntil)
  BY <1>2 DEF Reservations
<1>4. reservations' = (reservations \ {o}) \cup {claimed} /\ clock' = clock
  BY <1>1 DEF OfferClaimed
<1> HIDE DEF claimed
<1>5. IsFiniteSet(reservations')
  BY <1>0, <1>4, FS_RemoveElement, FS_AddElement
<1>6. OnlyClaimsAreLate'
  BY <1>3, <1>4 DEF CapacityInv, OnlyClaimsAreLate, Unclaimed
<1>7. ASSUME NEW d PROVE Cardinality(Held(d)') <= Cardinality(Held(d))
  <2>1. IsFiniteSet(Held(d)) /\ Cardinality(Held(d)) \in Nat
    BY <1>0, HeldIsFinite, FS_CardinalityType
  <2> DEFINE before == Held(d)
             after == Held(d)'
  <2>2. CASE after \subseteq before
    <3> HIDE DEF before, after
    <3>1. Cardinality(after) <= Cardinality(before)
      BY <2>1, <2>2, FS_Subset DEF before
    <3> QED
      BY <3>1 DEF before, after
  <2>3. CASE o \in before /\ after \subseteq (before \ {o}) \cup {claimed}
    <3> HIDE DEF before, after
    <3>1. IsFiniteSet(before \ {o}) /\ Cardinality(before \ {o}) = Cardinality(before) - 1
      BY <2>1, <2>3, FS_RemoveElement DEF before
    <3>2. /\ IsFiniteSet((before \ {o}) \cup {claimed})
          /\ Cardinality((before \ {o}) \cup {claimed}) <= Cardinality(before)
      <4> DEFINE rest == before \ {o}
      <4>1. IsFiniteSet(rest) /\ Cardinality(rest) = Cardinality(before) - 1
        BY <3>1
      <4>2. Cardinality(before) \in Nat
        BY <2>1 DEF before
      <4> HIDE DEF rest
      <4>3. /\ IsFiniteSet(rest \cup {claimed})
            /\ Cardinality(rest \cup {claimed}) <= Cardinality(rest) + 1
        BY <4>1, <4>2, FS_AddElement
      <4>4. Cardinality(rest \cup {claimed}) <= Cardinality(before)
        <5>1. Cardinality(rest \cup {claimed}) \in Nat
          BY <4>3, FS_CardinalityType
        <5> QED
          BY <4>1, <4>2, <4>3, <5>1
      <4> QED
        BY <4>3, <4>4 DEF rest
    <3>3. Cardinality(after) <= Cardinality((before \ {o}) \cup {claimed}) /\ Cardinality(after) \in Nat
      <4>1. IsFiniteSet(after) /\ Cardinality(after) <= Cardinality((before \ {o}) \cup {claimed})
        BY <2>3, <3>2, FS_Subset
      <4> QED
        BY <4>1, FS_CardinalityType
    <3>4. Cardinality((before \ {o}) \cup {claimed}) \in Nat /\ Cardinality(before) \in Nat
      BY <2>1, <3>2, FS_CardinalityType DEF before
    <3> QED
      BY <3>2, <3>3, <3>4 DEF before, after
  <2>4. \/ after \subseteq before
        \/ o \in before /\ after \subseteq (before \ {o}) \cup {claimed}
    <3>1. CASE claimed \notin after
      BY <1>4, <3>1 DEF Held, ConsumingReservations, Consumes
    <3>2. CASE claimed \in after
      <4>1. DestOf[o.pass] = d /\ ~ claimed.late
        BY <1>3, <3>2 DEF Held, ConsumingReservations
      <4>2. o.readyUntil > clock
        <5> DEFINE due == clock >= o.readyUntil
        <5>1. claimed.late = due
          BY <1>3
        <5> HIDE DEF due
        <5>2. ~ due
          BY <4>1, <5>1, Zenon
        <5> QED
          BY <1>2, <5>2 DEF due
      <4>3. o \in before
        BY <1>1, <4>1, <4>2 DEF Held, ConsumingReservations, Consumes, CapacityInv, OnlyClaimsAreLate
      <4>4. after \subseteq (before \ {o}) \cup {claimed}
        BY <1>4 DEF Held, ConsumingReservations, Consumes
      <4> QED
        BY <4>3, <4>4
    <3> QED
      BY <3>1, <3>2
  <2> QED
    BY <2>2, <2>3, <2>4
<1> QED
  BY <1>5, <1>6, <1>7

---------------------------------------------------------------------------
(* Who waits keeps the place. *)

(* The head a batch has picked stays a head: whoever joins later comes     *)
(* last by insertion, even with an older instant.                          *)
HeadsPassNobody ==
    \A w \in Workers : AtStage(w, "promotion") =>
        \A c \in worker[w].found : \A e \in EntriesOf(c.pass) : e.born = c.born =>
            \A f \in EntriesAt(DestOf[c.pass]) :
                ~ (f.enteredAt < e.enteredAt /\ f.ord < e.ord)
FlowInv == CapacityInv /\ RowsInv /\ HeadsPassNobody

NewcomersLast ==
    \A f \in queue' : f \in queue \/ \A e \in queue : e.ord < f.ord
FairTurns ==
    \A p \in Passes : (~ InState(p, {"ready"}) /\ InState(p, {"ready"})') =>
        \A f \in OthersWaiting(DestOf[p], p) : ~ PassesOver(p, f)
RowStep == OfferStep /\ NewcomersLast /\ FairTurns

(* A step that readies nobody passes over nobody.                          *)
LEMMA NobodyReadied ==
    ASSUME TypeOK, NEW p \in Passes, NEW state, NEW rev, SetPass(p, state, rev),
           state # "ready" \/ pass[p].state = "ready"
    PROVE  FairTurns
BY PassWritten DEF FairTurns, InState

(* Offers that only leave are a step of the offers.                        *)
LEMMA OffersRemain ==
    ASSUME TypeOK, reservations' \subseteq reservations, clock' = clock
    PROVE  OfferStep
BY InstantsAreNumbers DEF OfferStep, OffersShrink

(* Entries that only leave bring no newcomer.                              *)
LEMMA EntriesRemain ==
    ASSUME queue' \subseteq queue
    PROVE  NewcomersLast
BY DEF NewcomersLast

(* A pass that is enqueued comes after everyone who waits.                 *)
LEMMA EnqueuedLast ==
    ASSUME TypeOK, NEW p, NEW born, NEW at, NEW flowUntil, Enqueue(p, born, at, flowUntil)
    PROVE  NewcomersLast
<1>1. PICK n \in NextOrds :
        queue' = (queue \ EntriesOf(p)) \cup
                 {[pass |-> p, born |-> born, enteredAt |-> at,
                   flowUntil |-> flowUntil, ord |-> n]}
  BY DEF Enqueue
<1>2. \A e \in queue : e.ord < n
  BY <1>1 DEF NextOrds
<1> QED
  BY <1>1, <1>2 DEF NewcomersLast

(* Allocation offers a slot that is free, to a newcomer nobody waits for. *)
LEMMA TailTurns ==
    ASSUME TypeOK, NEW k \in inflight, k.config \in Configs[DestOf[k.pass]],
           k.at <= clock, clock' = clock,
           NEW from, NEW rev \in Nat, NEW decision, NEW overrides,
           from = "requested" => pass[k.pass].state # "queued",
           from # "requested" => pass[k.pass].state = from,
           EvaluateAndApply(k.pass, from, rev, decision, k, overrides)
    PROVE  RowStep
<1> DEFINE p == k.pass
<1>0. p \in Passes /\ k.at \in Nat /\ rev + 1 \in Nat
  BY DEF TypeOK, Commands
<1>1. PICK approvals \in ApprovalsAfter(decision) :
          \/ DenyByPolicy(p, from, rev)
          \/ from = "requested" /\ Allocate(p, rev, k.at, k.config, approvals \cup overrides)
          \/ KeepState(p, from, rev, approvals \cup overrides)
  BY DEF EvaluateAndApply
<1>2. ASSUME UNCHANGED flowRows PROVE OfferStep /\ NewcomersLast
  BY <1>2, OffersRemain, EntriesRemain DEF flowRows
<1>3. CASE DenyByPolicy(p, from, rev)
  BY <1>0, <1>2, <1>3, NobodyReadied DEF DenyByPolicy, RowStep
<1>4. CASE KeepState(p, from, rev, approvals \cup overrides)
  BY <1>0, <1>2, <1>4, NobodyReadied DEF KeepState, RowStep
<1>5. CASE from = "requested" /\ Allocate(p, rev, k.at, k.config, approvals \cup overrides)
  <2>1. PICK slotEnd \in SlotEnds :
          \/ AllocateUnavailable(p, rev, k.config)
          \/ AllocateReady(p, rev, k.at, k.config, FlowUntil(k.at, slotEnd), approvals \cup overrides)
          \/ AllocateQueued(p, rev, k.at, k.config, FlowUntil(k.at, slotEnd), approvals \cup overrides)
          \/ AllocateFull(p, rev, k.at, k.config)
    BY <1>5 DEF Allocate
  <2> DEFINE flowUntil == FlowUntil(k.at, slotEnd)
  <2>2. flowUntil \in Nat
    BY <1>0, DeadlineTypes
  <2> HIDE DEF flowUntil
  <2>3. CASE AllocateUnavailable(p, rev, k.config) \/ AllocateFull(p, rev, k.at, k.config)
    BY <1>0, <1>2, <2>3, NobodyReadied DEF AllocateUnavailable, AllocateFull, RowStep
  <2>4. CASE AllocateReady(p, rev, k.at, k.config, flowUntil, approvals \cup overrides)
    <3>1. /\ HasRoom(k.config, DestOf[p], k.at)
          /\ k.config.queueEnabled => OthersWaiting(DestOf[p], p) = {}
          /\ SetPass(p, "ready", rev + 1)
          /\ reservations' = reservations \cup {Offer(p, rev + 1, k.at, flowUntil)}
          /\ UNCHANGED queue
      BY <2>4 DEF AllocateReady, SlotIsFree
    <3>2. OfferJoins
      BY <1>0, <2>2, <3>1 DEF OfferJoins
    <3>3. FairTurns
      <4>1. \A q \in Passes \ {p} : pass'[q] = pass[q]
        BY <1>0, <3>1, PassWritten
      <4>2. ASSUME NEW f \in OthersWaiting(DestOf[p], p) PROVE ~ PassesOver(p, f)
        BY <1>5, <3>1, <4>2 DEF PassesOver, InState
      <4> QED
        BY <4>1, <4>2 DEF FairTurns, InState
    <3> QED
      BY <3>1, <3>2, <3>3, EntriesRemain DEF RowStep, OfferStep
  <2>5. CASE AllocateQueued(p, rev, k.at, k.config, flowUntil, approvals \cup overrides)
    BY <1>0, <2>5, NobodyReadied, OffersRemain, EnqueuedLast DEF AllocateQueued, RowStep
  <2> QED
    BY <2>1, <2>3, <2>4, <2>5 DEF flowUntil
<1> QED
  BY <1>1, <1>3, <1>4, <1>5

(* Every command in flight keeps the turns when it commits.                *)
LEMMA CommitTurns ==
    ASSUME FlowInv, NEW k \in inflight, Commit(k)
    PROVE  RowStep
<1>0. /\ TypeOK /\ k.pass \in Passes /\ k.at \in Nat /\ k.rev + 1 \in Nat
      /\ k.config \in Configs[DestOf[k.pass]] /\ k.at <= clock /\ clock' = clock
  <2>1. TypeOK /\ k.config \in Configs[DestOf[k.pass]] /\ k.at <= clock
    BY DEF FlowInv, CapacityInv, ConfigsStored, IInv, NothingFromTheFuture, PastInstants
  <2>2. clock' = clock
    BY DEF Commit, CommitRequest, CommitApproval, CommitOverrideRequest, CommitOverrideResolve,
           CommitDepart, Committed
  <2> QED
    BY <2>1, <2>2 DEF TypeOK, Commands
<1>1. CASE CommitRequest(k)
  <2>1. PICK decision : EvaluateAndApply(k.pass, "requested", 1, decision, k, {})
    BY <1>1 DEF CommitRequest
  <2>2. pass[k.pass].state = "absent"
    BY <1>1 DEF CommitRequest, InState
  <2> QED
    BY <1>0, <2>1, <2>2, TailTurns
<1>2. CASE CommitApproval(k)
  <2>1. PICK decision, overrides :
          EvaluateAndApply(k.pass, "requested", k.rev + 1, decision, k, overrides)
    BY <1>2 DEF CommitApproval
  <2>2. pass[k.pass].state = "requested"
    BY <1>2 DEF CommitApproval, InState
  <2> QED
    BY <1>0, <2>1, <2>2, TailTurns
<1>3. CASE CommitOverrideRequest(k) \/ CommitOverrideResolve(k)
  <2>1. PICK decision, overrides :
          EvaluateAndApply(k.pass, pass[k.pass].state, k.rev + 1, decision, k, overrides)
    BY <1>3 DEF CommitOverrideRequest, CommitOverrideResolve
  <2> QED
    BY <1>0, <2>1, TailTurns
<1>4. CASE CommitDepart(k)
  <2>1. PICK o \in ReservationsOf(k.pass) :
          /\ o.claimedAt = Unclaimed
          /\ reservations' = (reservations \ {o}) \cup
                {[o EXCEPT !.claimedAt = k.at, !.late = clock >= o.readyUntil]}
    BY <1>4 DEF CommitDepart
  <2>2. OfferClaimed
    BY <1>0, <2>1 DEF OfferClaimed, ReservationsOf
  <2>3. FairTurns
    <3>1. /\ pass' = [pass EXCEPT ![k.pass] = [state |-> "outbound", rev |-> k.rev + 1,
                                               mode |-> destination[DestOf[k.pass]].mode]]
          /\ InState(k.pass, {"ready"})
      BY <1>4 DEF CommitDepart
    <3> QED
      BY <1>0, <3>1 DEF FairTurns, InState, TypeOK
  <2> QED
    BY <1>4, <2>2, <2>3, EntriesRemain DEF CommitDepart, RowStep, OfferStep
<1> QED
  BY <1>1, <1>2, <1>3, <1>4 DEF Commit

(* So does every candidate a batch handles.                                *)
LEMMA HandleTurns ==
    ASSUME FlowInv, NEW w \in Workers, Handle(w)
    PROVE  RowStep
<1>0. /\ TypeOK /\ clock' = clock /\ destination' = destination
      /\ \A c \in worker[w].found : c.pass \in Passes
      /\ worker[w].at \in Nat /\ worker[w].at <= clock
      /\ \A d \in Destinations : destination[d] \in Configs[d]
      /\ \A p \in Passes : DestOf[p] \in Destinations /\ Rev(p) + 1 \in Nat
  <2>1. /\ TypeOK /\ worker[w].at <= clock
        /\ \A d \in Destinations : destination[d] \in Configs[d]
    BY DEF FlowInv, CapacityInv, ConfigsStored, IInv, NothingFromTheFuture, PastInstants
  <2>2. clock' = clock /\ destination' = destination
    BY DEF Handle, HandleStaleReady, HandleExpiredQueue, HandleUnavailable, HandlePromotion,
           HandleOrphans, Handling
  <2> QED
    BY <2>1, <2>2, PlacementAssumption DEF TypeOK, WorkerRecords, Candidates, PassRecords, Rev
<1>1. CASE GiveUp(w)
  BY <1>0, <1>1, OffersRemain, EntriesRemain DEF GiveUp, flowRows, RowStep, FairTurns, InState
<1>2. ASSUME NEW p \in Passes, NEW state \in {"denied", "expired"}, End(p, state),
             reservations' \subseteq reservations, queue' \subseteq queue
      PROVE  RowStep
  BY <1>0, <1>2, NobodyReadied, OffersRemain, EntriesRemain DEF End, RowStep
<1>3. CASE HandleStaleReady(w)
  <2>1. PICK c \in worker[w].found :
          \/ \E o \in ReservationsOf(c.pass) :
                /\ reservations' = reservations \ {o}
                /\ \/ End(c.pass, "denied") /\ UNCHANGED queue
                   \/ End(c.pass, "expired") /\ UNCHANGED queue
                   \/ /\ Enqueue(c.pass, Rev(c.pass) + 1, worker[w].at, o.flowUntil)
                      /\ SetPass(c.pass, "queued", Rev(c.pass) + 1)
          \/ GiveUp(w)
    BY <1>3 DEF HandleStaleReady
  <2>2. ASSUME NEW p \in Passes, NEW o, reservations' = reservations \ {o},
               Enqueue(p, Rev(p) + 1, worker[w].at, o.flowUntil),
               SetPass(p, "queued", Rev(p) + 1)
        PROVE  RowStep
    BY <1>0, <2>2, NobodyReadied, OffersRemain, EnqueuedLast DEF RowStep
  <2> QED
    BY <1>0, <1>1, <1>2, <2>1, <2>2
<1>4. CASE HandleExpiredQueue(w)
  <2>1. PICK c \in worker[w].found :
          \/ /\ queue' \subseteq queue /\ UNCHANGED reservations
             /\ End(c.pass, "expired")
          \/ GiveUp(w)
    BY <1>4 DEF HandleExpiredQueue
  <2> QED
    BY <1>0, <1>1, <1>2, <2>1
<1>5. CASE HandleUnavailable(w)
  <2>1. PICK c \in worker[w].found :
          \/ /\ queue' \subseteq queue /\ reservations' \subseteq reservations
             /\ End(c.pass, "denied")
          \/ GiveUp(w)
    BY <1>5 DEF HandleUnavailable
  <2> QED
    BY <1>0, <1>1, <1>2, <2>1
<1>6. CASE HandlePromotion(w)
  <2>1. PICK c \in worker[w].found :
          \/ /\ Promotable(w, c)
             /\ \E e \in EntriesOf(c.pass) :
                /\ e.born = c.born
                /\ queue' = queue \ {e}
                /\ \/ End(c.pass, "denied") /\ UNCHANGED reservations
                   \/ SetPass(c.pass, "requested", Rev(c.pass) + 1) /\ UNCHANGED reservations
                   \/ /\ SetPass(c.pass, "ready", Rev(c.pass) + 1)
                      /\ reservations' = reservations \cup
                            {Offer(c.pass, Rev(c.pass) + 1, worker[w].at, e.flowUntil)}
          \/ GiveUp(w)
    BY <1>6 DEF HandlePromotion
  <2>2. ASSUME Promotable(w, c), NEW e \in EntriesOf(c.pass), e.born = c.born,
               queue' = queue \ {e},
               SetPass(c.pass, "ready", Rev(c.pass) + 1),
               reservations' = reservations \cup
                   {Offer(c.pass, Rev(c.pass) + 1, worker[w].at, e.flowUntil)}
        PROVE  RowStep
    <3> DEFINE p == c.pass
    <3>1. /\ p \in Passes /\ pass[p].state = "queued"
          /\ HasRoom(destination[DestOf[p]], DestOf[p], worker[w].at)
      BY <1>0, <2>2 DEF Promotable, InState
    <3>2. e.flowUntil \in Nat /\ EntriesOf(p) = {e}
      <4>1. \E x \in EntriesOf(p) : EntriesOf(p) = {x}
        BY <3>1, Fitting DEF FlowInv, RowsFit
      <4> QED
        BY <1>0, <2>2, <4>1 DEF TypeOK, Entries, EntriesOf
    <3>3. OfferJoins
      BY <1>0, <2>2, <3>1, <3>2 DEF OfferJoins
    <3>4. \A f \in OthersWaiting(DestOf[p], p) : ~ PassesOver(p, f)
      <4>1. \A f \in EntriesAt(DestOf[p]) : ~ (f.enteredAt < e.enteredAt /\ f.ord < e.ord)
        BY <1>6, <2>2 DEF HandlePromotion, FlowInv, HeadsPassNobody
      <4> QED
        BY <3>1, <3>2, <4>1 DEF PassesOver, OthersWaiting, InState
    <3>5. FairTurns
      <4>1. \A q \in Passes \ {p} : pass'[q] = pass[q]
        BY <1>0, <2>2, <3>1, PassWritten
      <4> QED
        BY <3>4, <4>1 DEF FairTurns, InState
    <3> QED
      BY <2>2, <3>3, <3>5, EntriesRemain DEF RowStep, OfferStep
  <2>3. ASSUME NEW p \in Passes, SetPass(p, "requested", Rev(p) + 1),
               queue' \subseteq queue, UNCHANGED reservations
        PROVE  RowStep
    BY <1>0, <2>3, NobodyReadied, OffersRemain, EntriesRemain DEF RowStep
  <2> QED
    BY <1>0, <1>1, <1>2, <2>1, <2>2, <2>3
<1>7. CASE HandleOrphans(w)
  <2>1. PICK c \in worker[w].found :
          \/ ReleaseAll(c.pass) /\ UNCHANGED pass
          \/ GiveUp(w)
    BY <1>7 DEF HandleOrphans
  <2> QED
    BY <1>0, <1>1, <2>1, OffersRemain, EntriesRemain DEF ReleaseAll, RowStep, FairTurns, InState
<1> QED
  BY <1>3, <1>4, <1>5, <1>6, <1>7 DEF Handle

(* So do the commands of a single step.                                    *)
LEMMA OneStepTurns ==
    ASSUME FlowInv, NEW p \in Passes,
           CancelSelf(p) \/ Arrive(p) \/ BeginReturn(p) \/ Complete(p)
    PROVE  RowStep /\ destination' = destination
<1>0. TypeOK
  BY DEF FlowInv, RowsInv
<1>1. PICK state \in {"cancelled", "at_destination", "returning", "completed"} :
        SetPass(p, state, Rev(p) + 1)
  BY DEF CancelSelf, Arrive, BeginReturn, Complete, Moved
<1>2. /\ reservations' \subseteq reservations /\ queue' \subseteq queue
      /\ clock' = clock /\ destination' = destination
  <2>1. CASE CancelSelf(p)
    BY <2>1 DEF CancelSelf, flowRows
  <2>2. CASE Arrive(p) \/ BeginReturn(p) \/ Complete(p)
    BY <2>2 DEF Arrive, BeginReturn, Complete, Moved, flowRows
  <2> QED
    BY <2>1, <2>2
<1> QED
  BY <1>0, <1>1, <1>2, NobodyReadied, OffersRemain, EntriesRemain DEF RowStep

---------------------------------------------------------------------------
(* The invariant. *)

(* A head picked by a batch stays ahead of those who join later.           *)
LEMMA HeadsKept ==
    ASSUME FlowInv, TypeOK', Transaction, NewcomersLast
    PROVE  HeadsPassNobody'
<1> SUFFICES ASSUME NEW w \in Workers, AtStage(w, "promotion")',
                    NEW c \in worker'[w].found, NEW e \in EntriesOf(c.pass)', e.born = c.born,
                    NEW f \in EntriesAt(DestOf[c.pass])'
             PROVE  ~ (f.enteredAt < e.enteredAt /\ f.ord < e.ord)
  BY DEF HeadsPassNobody
<1>1. worker'[w] = worker[w] /\ c \in worker[w].found
  BY DEF Transaction, BatchesEndOrStay
<1>2. c.born <= Rev(c.pass) /\ c.pass \in Passes /\ c.born \in Nat /\ Rev(c.pass) \in Nat
  <2>1. c \in Candidates /\ c.born <= Rev(c.pass)
    BY <1>1 DEF FlowInv, CapacityInv, IInv, NothingFromTheFuture, PastRevisions, TypeOK, WorkerRecords
  <2>2. \A p \in Passes : Rev(p) \in Nat
    BY DEF FlowInv, RowsInv, TypeOK, PassRecords, Rev
  <2> QED
    BY <2>1, <2>2 DEF Candidates
<1>3. e \in queue' /\ e.pass = c.pass /\ f \in queue' /\ DestOf[f.pass] = DestOf[c.pass]
  BY DEF EntriesOf, EntriesAt
<1>4. e \in queue
  <2>1. Rev(c.pass)' \in Nat
    BY <1>2 DEF TypeOK, PassRecords, Rev
  <2> QED
    BY <1>2, <1>3, <2>1 DEF Transaction, NewEntriesCoherent
<1>5. e.ord \in Nat /\ f.ord \in Nat
  BY <1>3 DEF TypeOK, Entries
<1>6. CASE f \in queue
  <2>1. AtStage(w, "promotion")
    BY <1>1 DEF AtStage
  <2> QED
    BY <1>1, <1>3, <1>4, <1>6, <2>1 DEF FlowInv, HeadsPassNobody, EntriesOf, EntriesAt
<1>7. CASE f \notin queue
  BY <1>3, <1>4, <1>5, <1>7 DEF NewcomersLast
<1> QED
  BY <1>6, <1>7

(* A step of the offers of this shape keeps the capacity.                  *)
LEMMA OffersCounted ==
    ASSUME CapacityInv, TypeOK', OfferStep
    PROVE  /\ CapacityExceptLateClaims'
           /\ IsFiniteSet(reservations)' /\ OnlyClaimsAreLate'
<1>0. /\ TypeOK /\ IsFiniteSet(reservations)
      /\ \A d : IsFiniteSet(Held(d)) /\ Cardinality(Held(d)) \in Nat
  <2>1. TypeOK /\ IsFiniteSet(reservations)
    BY DEF CapacityInv, IInv
  <2> QED
    BY <2>1, HeldIsFinite, FS_CardinalityType
<1>1. ASSUME NEW d \in Destinations, NEW most \in {c.capacity : c \in Configs[d]},
             \A c \in Configs[d] : c.capacity # Unlimited /\ c.capacity <= most
      PROVE  Cardinality(Held(d)') <= most
  <2>1. Cardinality(Held(d)) <= most /\ most \in Nat
    BY <1>1, ConfigAssumption DEF CapacityInv, CapacityExceptLateClaims, Held, ConfigRecords
  <2>2. CASE OffersShrink
    <3> DEFINE before == Held(d)
               after == Held(d)'
    <3>1. after \subseteq before /\ IsFiniteSet(before) /\ Cardinality(before) \in Nat
      BY <1>0, <2>2, ShrinkKeepsCapacity
    <3> HIDE DEF before, after
    <3>2. IsFiniteSet(after) /\ Cardinality(after) <= Cardinality(before)
      BY <3>1, FS_Subset
    <3>3. Cardinality(after) \in Nat
      BY <3>2, FS_CardinalityType
    <3> QED
      BY <2>1, <3>1, <3>2, <3>3 DEF before, after
  <2>3. CASE OfferJoins
    BY <1>1, <2>3, JoinKeepsCapacity
  <2>4. CASE OfferClaimed
    <3>1. Cardinality(Held(d)') <= Cardinality(Held(d))
      BY <2>4, ClaimKeepsCapacity
    <3>2. Cardinality(Held(d)') \in Nat
      <4> DEFINE after == Held(d)'
      <4>1. after \subseteq reservations' /\ IsFiniteSet(reservations')
        BY <2>4, ClaimKeepsCapacity DEF Held, ConsumingReservations
      <4> HIDE DEF after
      <4>2. IsFiniteSet(after)
        BY <4>1, FS_Subset
      <4>3. Cardinality(after) \in Nat
        BY <4>2, FS_CardinalityType
      <4> QED
        BY <4>3 DEF after
    <3> QED
      BY <1>0, <2>1, <3>1, <3>2
  <2> QED
    BY <2>2, <2>3, <2>4 DEF OfferStep
<1>2. CapacityExceptLateClaims'
  BY <1>1 DEF CapacityExceptLateClaims, Held
<1>3. IsFiniteSet(reservations)' /\ OnlyClaimsAreLate'
  <2>1. CASE OffersShrink
    BY <2>1, ShrinkKeepsCapacity
  <2>2. CASE OfferJoins
    <3>1. PICK p, rev, at, flowUntil :
            reservations' = reservations \cup {Offer(p, rev, at, flowUntil)}
      BY <2>2 DEF OfferJoins
    <3>2. ~ Offer(p, rev, at, flowUntil).late
      BY DEF Offer
    <3>3. OnlyClaimsAreLate'
      BY <3>1, <3>2 DEF CapacityInv, OnlyClaimsAreLate
    <3>4. IsFiniteSet(reservations')
      BY <1>0, <3>1, FS_AddElement
    <3> QED
      BY <3>3, <3>4
  <2>3. CASE OfferClaimed
    BY <2>3, ClaimKeepsCapacity
  <2> QED
    BY <2>1, <2>2, <2>3 DEF OfferStep
<1> QED
  BY <1>2, <1>3

(* The invariant of the flow holds at the start.                           *)
LEMMA InitFlow == Init => FlowInv
<1> SUFFICES ASSUME Init PROVE FlowInv
  OBVIOUS
<1>1. IInv /\ RowsInv /\ reservations = {} /\ inflight = {}
  BY InitCoherent, InitRows DEF Init
<1>2. \A d \in Destinations : destination[d] \in Configs[d]
  BY DEF Init
<1>3. IsFiniteSet(reservations)
  BY <1>1, FS_EmptySet
<1>4. CapacityExceptLateClaims
  <2> SUFFICES ASSUME NEW d \in Destinations, NEW most \in {c.capacity : c \in Configs[d]},
                      \A c \in Configs[d] : c.capacity # Unlimited /\ c.capacity <= most
               PROVE  Cardinality({o \in ConsumingReservations(d, clock) : ~ o.late}) <= most
    BY DEF CapacityExceptLateClaims
  <2>1. {o \in ConsumingReservations(d, clock) : ~ o.late} = {}
    BY <1>1 DEF ConsumingReservations
  <2>2. most \in Nat
    BY ConfigAssumption DEF ConfigRecords
  <2>3. Cardinality({o \in ConsumingReservations(d, clock) : ~ o.late}) = 0
    BY <2>1, FS_EmptySet, Zenon
  <2> QED
    BY <2>2, <2>3
<1>5. HeadsPassNobody
  BY DEF Init, HeadsPassNobody, AtStage
<1> QED
  BY <1>1, <1>2, <1>3, <1>4, <1>5 DEF FlowInv, CapacityInv, ConfigsStored, OnlyClaimsAreLate

(* The head a batch picks is the first of its destination. *)
LEMMA SearchHeads ==
    ASSUME FlowInv, NEW w \in Workers,
           StartBatch(w) \/ Discover(w) \/ DiscoverHead(w) \/ AbortBatch(w) \/ Crash(w)
    PROVE  HeadsPassNobody'
<1>0. /\ queue' = queue /\ worker[w] \in WorkerRecords
      /\ \A e \in queue : e.ord \in Nat /\ e.enteredAt \in Nat
      /\ \A e, f \in queue : e.pass = f.pass => e = f
  <2>1. TypeOK /\ OneEntryEach
    BY DEF FlowInv, CapacityInv, IInv
  <2> QED
    BY <2>1 DEF StartBatch, Discover, DiscoverHead, AbortBatch, Crash, flowRows, TypeOK, Entries,
                OneEntryEach
<1>1. ASSUME /\ \A v \in Workers \ {w} : worker'[v] = worker[v]
             /\ worker'[w].stage = "promotion" =>
                   \A c \in worker'[w].found : \E e \in queue :
                       /\ c = RowId(e)
                       /\ \A f \in EntriesAt(DestOf[c.pass]) :
                             ~ (f.enteredAt < e.enteredAt /\ f.ord < e.ord)
      PROVE  HeadsPassNobody'
  <2> SUFFICES ASSUME NEW v \in Workers, AtStage(v, "promotion")',
                      NEW c \in worker'[v].found, NEW e \in EntriesOf(c.pass)', e.born = c.born,
                      NEW f \in EntriesAt(DestOf[c.pass])'
               PROVE  ~ (f.enteredAt < e.enteredAt /\ f.ord < e.ord)
    BY DEF HeadsPassNobody
  <2>1. e \in EntriesOf(c.pass) /\ f \in EntriesAt(DestOf[c.pass])
    BY <1>0 DEF EntriesOf, EntriesAt
  <2>2. CASE v = w
    <3>1. PICK h \in queue :
            /\ c = RowId(h)
            /\ \A g \in EntriesAt(DestOf[c.pass]) :
                  ~ (g.enteredAt < h.enteredAt /\ g.ord < h.ord)
      BY <1>1, <2>2 DEF AtStage
    <3>2. h = e
      BY <1>0, <2>1, <3>1 DEF RowId, EntriesOf
    <3> QED
      BY <2>1, <3>1, <3>2
  <2>3. CASE v # w
    <3>1. worker'[v] = worker[v]
      BY <1>1, <2>3
    <3> QED
      BY <2>1, <3>1 DEF FlowInv, HeadsPassNobody, AtStage
  <2> QED
    BY <2>2, <2>3
<1>2. ASSUME NEW stage, EnterStage(w, stage) PROVE HeadsPassNobody'
  <2>1. worker'[w].found = {} /\ \A v \in Workers \ {w} : worker'[v] = worker[v]
    BY <1>2 DEF EnterStage, SetWorker, FlowInv, RowsInv, TypeOK
  <2> QED
    BY <1>1, <2>1
<1>3. CASE StartBatch(w)
  <2>1. worker'[w].found = {} /\ \A v \in Workers \ {w} : worker'[v] = worker[v]
    BY <1>3 DEF StartBatch, SetWorker, FlowInv, RowsInv, TypeOK
  <2> QED
    BY <1>1, <2>1
<1>4. CASE Discover(w)
  <2>1. ASSUME NEW row, SetWorker(w, [worker[w] EXCEPT !.found = {RowId(row)}])
        PROVE  HeadsPassNobody'
    <3>1. /\ worker'[w].stage = worker[w].stage
          /\ \A v \in Workers \ {w} : worker'[v] = worker[v]
      BY <1>0, <2>1 DEF SetWorker, FlowInv, RowsInv, TypeOK, WorkerRecords
    <3>2. worker'[w].stage # "promotion"
      BY <1>4, <3>1 DEF Discover
    <3> QED
      BY <1>1, <3>1, <3>2
  <2> QED
    BY <1>2, <1>4, <2>1 DEF Discover
<1>5. CASE DiscoverHead(w)
  <2>1. ASSUME NEW d \in worker[w].todo,
               SetWorker(w, [worker[w] EXCEPT
                 !.todo = @ \ {d},
                 !.found = {RowId(e) : e \in {h \in QueueHeads(d) :
                                 /\ InState(h.pass, {"queued"})
                                 /\ worker[w].at < h.flowUntil}}])
        PROVE  HeadsPassNobody'
    <3> DEFINE found == {RowId(e) : e \in {h \in QueueHeads(d) :
                                 /\ InState(h.pass, {"queued"})
                                 /\ worker[w].at < h.flowUntil}}
    <3>1. ASSUME NEW c \in found
          PROVE  \E e \in queue :
                    /\ c = RowId(e)
                    /\ \A f \in EntriesAt(DestOf[c.pass]) :
                          ~ (f.enteredAt < e.enteredAt /\ f.ord < e.ord)
      <4>1. PICK e \in QueueHeads(d) : c = RowId(e)
        OBVIOUS
      <4>2. /\ e \in queue /\ DestOf[e.pass] = d /\ c.pass = e.pass
            /\ \A f \in EntriesAt(d) \ {e} : Precedes(e, f)
        BY <4>1 DEF QueueHeads, EntriesAt, RowId
      <4>3. \A f \in EntriesAt(d) : ~ (f.enteredAt < e.enteredAt /\ f.ord < e.ord)
        BY <1>0, <4>2 DEF Precedes, EntriesAt
      <4> QED
        BY <4>1, <4>2, <4>3
    <3> HIDE DEF found
    <3>2. SetWorker(w, [worker[w] EXCEPT !.todo = @ \ {d}, !.found = found])
      BY <2>1 DEF found
    <3>3. worker'[w].found = found /\ \A v \in Workers \ {w} : worker'[v] = worker[v]
      BY <1>0, <3>2 DEF SetWorker, FlowInv, RowsInv, TypeOK, WorkerRecords
    <3> QED
      BY <1>1, <3>1, <3>3
  <2> QED
    BY <1>2, <1>5, <2>1 DEF DiscoverHead
<1>6. CASE AbortBatch(w) \/ Crash(w)
  BY <1>2, <1>6 DEF AbortBatch, Crash
<1> QED
  BY <1>3, <1>4, <1>5, <1>6

(* Every step keeps the invariant of the flow, and the turns.              *)
LEMMA NextFlow == FlowInv /\ [Next]_vars => FlowInv' /\ FairTurns
<1> SUFFICES ASSUME FlowInv, [Next]_vars PROVE FlowInv' /\ FairTurns
  OBVIOUS
<1>0. TypeOK' /\ IInv' /\ RowsInv' /\ TypeOK /\ CapacityInv
  BY NextType, NextCoherent, NextRows DEF FlowInv, CapacityInv, IInv
<1>1. ASSUME Transaction, RowStep, destination' = destination
      PROVE  FlowInv' /\ FairTurns
  <2>1. ConfigsStored'
    BY <1>1 DEF Transaction, FlowInv, CapacityInv, ConfigsStored
  <2> QED
    BY <1>0, <1>1, <2>1, HeadsKept, OffersCounted DEF RowStep, FlowInv, CapacityInv
<1>2. ASSUME UNCHANGED <<pass, reservations, queue>>, clock' \in Nat, clock <= clock',
             ConfigsStored', HeadsPassNobody'
      PROVE  FlowInv' /\ FairTurns
  <2>1. OfferStep
    BY <1>2 DEF OfferStep, OffersShrink
  <2>2. FairTurns
    BY <1>2 DEF FairTurns, InState
  <2> QED
    BY <1>0, <1>2, <2>1, <2>2, OffersCounted DEF FlowInv, CapacityInv
<1>3. ASSUME UNCHANGED <<queue, worker>> PROVE HeadsPassNobody'
  BY <1>3 DEF FlowInv, HeadsPassNobody, AtStage, EntriesOf, EntriesAt
<1>4. clock \in Nat /\ clock <= clock /\ clock <= clock + 1 /\ clock + 1 \in Nat
  BY <1>0 DEF TypeOK
<1>5. ASSUME NEW op \in Operations, NEW p \in Passes, Issue(op, p)
      PROVE  FlowInv' /\ FairTurns
  <2> DEFINE new == [op |-> op, pass |-> p, at |-> clock, rev |-> Rev(p),
                     config |-> destination[DestOf[p]]]
  <2>1. /\ inflight' = inflight \cup {new}
        /\ UNCHANGED <<clock, pass, reservations, queue, destination, worker>>
    BY <1>5 DEF Issue, flowRows
  <2>2. new.config \in Configs[DestOf[new.pass]]
    BY PlacementAssumption DEF FlowInv, CapacityInv, ConfigsStored
  <2> HIDE DEF new
  <2>3. ConfigsStored'
    BY <2>1, <2>2 DEF FlowInv, CapacityInv, ConfigsStored
  <2> QED
    BY <1>2, <1>3, <1>4, <2>1, <2>3
<1>6. ASSUME NEW k \in inflight, RereadDestination(k) \/ Abandon(k)
      PROVE  FlowInv' /\ FairTurns
  <2>1. UNCHANGED <<clock, pass, reservations, queue, destination, worker>>
    BY <1>6 DEF RereadDestination, Abandon, flowRows
  <2>2. CASE RereadDestination(k)
    <3> DEFINE read == [k EXCEPT !.config = destination[DestOf[k.pass]]]
    <3>1. inflight' = (inflight \ {k}) \cup {read}
      BY <2>2 DEF RereadDestination
    <3>2. read.pass = k.pass /\ read.config \in Configs[DestOf[k.pass]]
      BY <1>0, PlacementAssumption DEF TypeOK, Commands, CapacityInv, ConfigsStored
    <3> HIDE DEF read
    <3>3. ConfigsStored'
      BY <2>1, <3>1, <3>2 DEF FlowInv, CapacityInv, ConfigsStored
    <3> QED
      BY <1>2, <1>3, <1>4, <2>1, <3>3
  <2>3. CASE Abandon(k)
    <3>1. ConfigsStored'
      BY <2>1, <2>3 DEF Abandon, FlowInv, CapacityInv, ConfigsStored
    <3> QED
      BY <1>2, <1>3, <1>4, <2>1, <3>1
  <2> QED
    BY <1>6, <2>2, <2>3
<1>7. ASSUME NEW k \in inflight, Commit(k) PROVE FlowInv' /\ FairTurns
  <2>1. destination' = destination
    BY <1>7 DEF Commit, CommitRequest, CommitApproval, CommitOverrideRequest, CommitOverrideResolve,
                CommitDepart, Committed
  <2> QED
    BY <1>0, <1>1, <1>7, <2>1, CommitCoherent, CommitTurns DEF CapacityInv
<1>8. ASSUME NEW p \in Passes, CancelSelf(p) \/ Arrive(p) \/ BeginReturn(p) \/ Complete(p)
      PROVE  FlowInv' /\ FairTurns
  BY <1>0, <1>1, <1>8, OneStepCoherent, OneStepTurns DEF CapacityInv
<1>9. ASSUME NEW d \in Destinations, NEW config \in Configs[d],
             UpdateDestination(d, config) \/ OpenOrClose(d, config) \/ Archive(d, config)
      PROVE  FlowInv' /\ FairTurns
  <2>1. /\ UNCHANGED <<clock, pass, reservations, queue, inflight, worker>>
        /\ destination' = [destination EXCEPT ![d] = config]
    BY <1>9 DEF UpdateDestination, OpenOrClose, Archive, SetDestination, flowRows
  <2>2. ConfigsStored'
    BY <1>0, <2>1 DEF CapacityInv, ConfigsStored, TypeOK
  <2> QED
    BY <1>2, <1>3, <1>4, <2>1, <2>2
<1>10. ASSUME NEW w \in Workers, Reconcile(w) \/ Crash(w) PROVE FlowInv' /\ FairTurns
  <2>1. CASE StartBatch(w) \/ Discover(w) \/ DiscoverHead(w) \/ AbortBatch(w) \/ Crash(w)
    <3>1. UNCHANGED <<clock, pass, reservations, queue, destination, inflight>>
      BY <2>1 DEF StartBatch, Discover, DiscoverHead, AbortBatch, Crash, flowRows
    <3>2. ConfigsStored'
      BY <3>1 DEF FlowInv, CapacityInv, ConfigsStored
    <3> QED
      BY <1>2, <1>4, <2>1, <3>1, <3>2, SearchHeads
  <2>2. CASE Handle(w)
    <3>1. destination' = destination
      BY <2>2 DEF Handle, HandleStaleReady, HandleExpiredQueue, HandleUnavailable, HandlePromotion,
                  HandleOrphans, Handling
    <3> QED
      BY <1>0, <1>1, <2>2, <3>1, HandleCoherent, HandleTurns DEF CapacityInv
  <2> QED
    BY <1>10, <2>1, <2>2 DEF Reconcile
<1>11. CASE Tick \/ UNCHANGED vars
  <2>1. /\ UNCHANGED <<pass, reservations, queue, destination, inflight, worker>>
        /\ clock' = clock \/ clock' = clock + 1
    BY <1>11 DEF Tick, vars, flowRows
  <2>2. ConfigsStored'
    BY <2>1 DEF FlowInv, CapacityInv, ConfigsStored
  <2> QED
    BY <1>2, <1>3, <1>4, <2>1, <2>2
<1> QED
  BY <1>5, <1>6, <1>7, <1>8, <1>9, <1>10, <1>11 DEF Next

(* The invariant of the flow holds in every reachable state.               *)
LEMMA FlowHolds == Spec => []FlowInv
<1>1. FlowInv /\ [Next]_vars => FlowInv'
  BY NextFlow
<1> QED
  BY InitFlow, <1>1, PTL DEF Spec

(* The students who hold or are offered a slot never outnumber the largest *)
(* capacity the destination was given, late departures aside: neither a    *)
(* command with an old instant, nor a replica with an old batch, nor a     *)
(* destination row read before the lock adds another one.                  *)
THEOREM CapacityHolds == Spec => []CapacityExceptLateClaims
<1>1. FlowInv => CapacityExceptLateClaims
  BY DEF FlowInv, CapacityInv
<1> QED
  BY FlowHolds, <1>1, PTL

(* Whoever is offered a slot passes over nobody who waits. *)
THEOREM TurnsAreFair == Spec => NobodyPassedOver
<1>1. FlowInv /\ [Next]_vars => [FairTurns]_vars
  BY NextFlow
<1> QED
  BY FlowHolds, <1>1, PTL DEF Spec, NobodyPassedOver, FairTurns

=============================================================================
