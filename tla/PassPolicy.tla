----------------------------- MODULE PassPolicy -----------------------------
(***************************************************************************)
(* The movement policy of one pass: rules that administrators edit while   *)
(* it is on its way, the evaluation each command persists, and the         *)
(* evidence people give - classroom approvals and overrides, each bound to *)
(* one revision of a rule - that later evaluations read.  A command reads  *)
(* the clock and the student's placement first and commits later.  What    *)
(* an allowed pass then meets at its destination is DestinationFlow.       *)
(***************************************************************************)
EXTENDS Integers, FiniteSets

CONSTANTS
    Rules,            \* policy_rule rows
    Versions,         \* what administrators configure a rule to be
    Sections, Placements,
    Staff,
    SchoolTier,       \* staff who resolve overrides for the whole school
    Teaches,          \* the sections of each member of staff
    Sources,          \* how the pass comes about: a request source, or "preapproved"
    LastTime, MostEdits, LastRevision, MostInFlight       \* bounds

ASSUME PolicyAssumption ==
    /\ SchoolTier \subseteq Staff /\ Teaches \in [Staff -> SUBSET Sections]
    /\ \A v \in Versions :
          /\ v.type \in {"schedule_boundary", "approval_requirement"}
          /\ v.mode \in {"never", "authorized", "approval_required"}
          /\ v.scope \in {"organization", "destination", "elsewhere"} \cup Sections
          /\ v.first \in Nat /\ v.last \in Nat /\ v.from < v.until
    /\ \A h \in Placements :
          /\ h.kind \in {"resolved", "block_only", "outside_schedule"}
          /\ h.kind = "resolved" => h.section \in Sections
          /\ h.elapsed \in Nat /\ h.left \in Nat \ {0}
    /\ "student" \notin Staff

VARIABLES
    time,
    placement,        \* where the student is expected to be now
    rules,            \* revision, whether enabled, and version of each rule
    movement,         \* the pass: state, revision, source, its place in the queue
    approvals, overrides,
    evaluation,       \* the latest policy_evaluation with its results
    pending           \* commands that have read the clock and the placement

policyVars == <<time, placement, rules, movement, approvals, overrides, evaluation, pending>>

NoEvaluation == [rev |-> 0, decision |-> "none", settled |-> TRUE]

PolicyInit ==
    /\ time = 0
    /\ placement \in Placements
    /\ \E is \in [Rules -> Versions], on \in [Rules -> BOOLEAN] :
          rules = [r \in Rules |-> [rev |-> 2, enabled |-> on[r], is |-> is[r]]]
    /\ \E source \in Sources :
          movement = [state |-> "absent", rev |-> 0, source |-> source, entry |-> 0]
    /\ approvals = {} /\ overrides = {}
    /\ evaluation = NoEvaluation
    /\ pending = {}

---------------------------------------------------------------------------
(* The engine.                                                             *)

(* A booking that was approved in advance starts like any other.            *)
Preapproved == movement.source = "preapproved"
RequestSource == IF Preapproved THEN "scheduled" ELSE movement.source

Applies(r, c) ==
    LET v == rules[r].is IN
    /\ rules[r].enabled
    /\ v.from <= c.at /\ c.at < v.until
    /\ \/ v.scope \in {"organization", "destination"}
       \/ c.here.kind = "resolved" /\ v.scope = c.here.section
    /\ RequestSource \in v.sources

(* Half-open windows at both ends of the block. *)
NearBoundary(v, here) ==
    /\ here.kind \in {"resolved", "block_only"}
    /\ here.block \in v.kinds
    /\ here.elapsed < v.first \/ here.left <= v.last

(* The rule stands in the way unless somebody has cleared it. *)
Blocks(r, c) ==
    /\ Applies(r, c)
    /\ rules[r].is.type = "schedule_boundary" => NearBoundary(rules[r].is, c.here)

FaultyEvidence(rows, r, decision) ==                 \* of any revision
    {x \in rows : x.rule = r /\ x.decision = decision}
Evidence(rows, r, decision) ==
    {x \in rows : x.rule = r /\ x.rev = rules[r].rev /\ x.decision = decision}

(* What overrides make of a rule that blocks; failing is what it does else. *)
Overridden(r, ov, failing) ==
    IF rules[r].is.mode = "never" THEN failing
    ELSE IF Evidence(ov, r, "approved") # {} THEN "none"
    ELSE IF Evidence(ov, r, "denied") # {} THEN "deny"
    ELSE failing

Escalation(r) == IF rules[r].is.mode = "never" THEN "deny" ELSE "override_required"

(* An approval counts for the section the student is expected in. *)
ApprovedOrDenied(r, c, ap, decision) ==
    \E x \in Evidence(ap, r, decision) : x.section = c.here.section

Contribution(r, c, ap, ov, preapproved) ==
    IF ~ Blocks(r, c) THEN "none"
    ELSE IF rules[r].is.type = "schedule_boundary" \/ c.here.kind # "resolved"
    THEN Overridden(r, ov, Escalation(r))
    ELSE IF ApprovedOrDenied(r, c, ap, "approved") THEN "none"
    ELSE IF ApprovedOrDenied(r, c, ap, "denied") THEN "deny"
    ELSE Overridden(r, ov, IF preapproved THEN "none" ELSE "approval_required")

Results(c, ap, ov, preapproved) ==
    [r \in Rules |-> [rev |-> rules[r].rev, gives |-> Contribution(r, c, ap, ov, preapproved)]]

Gives(results, contribution) == {r \in Rules : results[r].gives = contribution}

(* Any denial wins, then what needs an override, then what needs approval.  *)
Combined(results) ==
    IF Gives(results, "deny") # {} THEN "deny"
    ELSE IF Gives(results, "override_required") # {} THEN "override_required"
    ELSE IF Gives(results, "approval_required") # {} THEN "approval_required"
    ELSE "allow"

(* settled is a ghost: the command went on to reconcile the approvals.      *)
Evaluated(c, rev, results, settled) ==
    [rev |-> rev, at |-> c.at, here |-> c.here, decision |-> Combined(results),
     results |-> results, settled |-> settled]

---------------------------------------------------------------------------
(* What a command does with an evaluation.                                 *)

Required(e) ==
    {[rule |-> r, rev |-> e.results[r].rev, section |-> e.here.section] :
        r \in Gives(e.results, "approval_required")}

Named(x) == [rule |-> x.rule, rev |-> x.rev, section |-> x.section]
Open(rows) == {x \in rows : x.decision = "pending"}
Cancelled(rows) ==
    {IF x.decision = "pending" THEN [x EXCEPT !.decision = "cancelled"] ELSE x : x \in rows}
NewApproval(q) ==
    [rule |-> q.rule, rev |-> q.rev, section |-> q.section, decision |-> "pending", by |-> "none"]

FaultyReconciled(ap, required) ==                    \* obsolete ones stay pending
    ap \cup {NewApproval(q) : q \in required \ {Named(x) : x \in Open(ap)}}
(* Rows that are still wanted are kept, the other pending ones cancelled,   *)
(* missing ones created.                                                   *)
Reconciled(ap, required) ==
    LET kept == {x \in Open(ap) : Named(x) \in required} IN
    Cancelled(ap \ kept) \cup kept
        \cup {NewApproval(q) : q \in required \ {Named(x) : x \in kept}}

(* An ended pass leaves nothing for anybody to decide. *)
Refuse(state, rev, ap, ov) ==
    /\ movement' = [movement EXCEPT !.state = state, !.rev = rev]
    /\ approvals' = Cancelled(ap)
    /\ overrides' = Cancelled(ov)

MoveTo(state, rev) ==
    movement' = [movement EXCEPT !.state = state, !.rev = rev,
                                 !.entry = IF state = "queued" THEN rev ELSE 0]

Deniable == {"requested", "queued", "ready"}

(* The pass has revision rev and was in a state.  A denial in any other     *)
(* state than these fails the command.                                     *)
Apply(c, was, rev, ap, ov, preapproved) ==
    LET e == Evaluated(c, rev, Results(c, ap, ov, preapproved), TRUE)
        settled == Reconciled(ap, Required(e))
    IN
    /\ evaluation' = e
    /\ \/ /\ e.decision = "deny" /\ was \in Deniable
          /\ Refuse("denied", rev + 1, settled, ov)
       \/ /\ e.decision = "allow" /\ was = "requested"
          /\ \/ \E state \in {"queued", "ready"} : MoveTo(state, rev + 1)
                /\ approvals' = settled /\ overrides' = ov
             \/ Refuse("denied", rev + 1, settled, ov)
       \/ /\ e.decision # "deny"
          /\ e.decision = "allow" => was # "requested"
          /\ movement' = [movement EXCEPT !.state = was, !.rev = rev]
          /\ approvals' = settled /\ overrides' = ov

---------------------------------------------------------------------------
(* Commands.                                                               *)

Active == {"requested", "queued", "ready", "out"}

Begin(op, by, row, decision) ==
    /\ Cardinality(pending) < MostInFlight
    /\ movement.rev < LastRevision
    /\ pending' = pending \cup
          {[op |-> op, by |-> by, row |-> row, decision |-> decision, at |-> time,
            here |-> placement, rev |-> IF op = "promote" THEN movement.entry ELSE movement.rev]}
    /\ UNCHANGED <<time, placement, rules, movement, approvals, overrides, evaluation>>

BeginRequest == movement.state = "absent" /\ Begin("request", "student", "none", "none")

BeginApproval(by, x, decision) == x \in Open(approvals) /\ Begin("approval", by, x, decision)

BeginAsk(by) == movement.state \in Active /\ Begin("ask", by, "none", "none")

BeginResolve(by, x, decision) == x \in Open(overrides) /\ Begin("override", by, x, decision)

BeginPromote == movement.state = "queued" /\ Begin("promote", "none", "none", "none")

Ends(c, op) ==
    /\ c.op = op /\ pending' = pending \ {c}
    /\ UNCHANGED <<time, placement, rules>>

(* Refused: stale, not authorized, lost.  Or a constraint ends the batch.   *)
Fails(c) ==
    /\ pending' = pending \ {c}
    /\ UNCHANGED <<time, placement, rules, movement, approvals, overrides, evaluation>>

RequestPass(c) ==
    /\ Ends(c, "request")
    /\ movement.state = "absent"
    /\ Apply(c, "requested", 1, approvals, overrides, Preapproved)

(* By a teacher of the section that the requirement names. *)
ResolveApproval(c) ==
    /\ Ends(c, "approval")
    /\ movement.rev = c.rev /\ movement.state = "requested"
    /\ c.row \in Open(approvals)
    /\ c.row.section \in Teaches[c.by]
    /\ LET resolved == [c.row EXCEPT !.decision = c.decision, !.by = c.by] IN
       Apply(c, "requested", movement.rev + 1, (approvals \ {c.row}) \cup {resolved},
             overrides, FALSE)

(* Who may resolve an override where the student is expected to be.         *)
InTier(by, here) ==
    by \in SchoolTier \/ (here.kind = "resolved" /\ here.section \in Teaches[by])

Blockers(results) ==
    {r \in Gives(results, "approval_required") \cup Gives(results, "override_required") :
        rules[r].is.mode # "never"}

(* The latest evaluation has a result of this very rule that blocks.        *)
Recorded(r) ==
    /\ evaluation.rev > 0
    /\ evaluation.results[r].rev = rules[r].rev
    /\ evaluation.results[r].gives \in {"approval_required", "override_required"}

Live(r) == Evidence(overrides, r, "pending") \cup Evidence(overrides, r, "approved")

NewOverride(r, by, approved) ==
    [rule |-> r, rev |-> rules[r].rev, mode |-> rules[r].is.mode, asked |-> by,
     decision |-> IF approved THEN "approved" ELSE "pending",
     decided |-> IF approved THEN by ELSE "none"]

(* A blocker that no evaluation records needs one, and a revision has one   *)
(* evaluation only.  If all of them have an override already, that one is   *)
(* kept and nothing else done.  Staff who could resolve every blocker       *)
(* approve at once.                                                        *)
RequestOverride(c) ==
    /\ Ends(c, "ask")
    /\ movement.rev = c.rev /\ movement.state \in Active
    /\ LET results == Results(c, approvals, overrides, FALSE)
           blockers == Blockers(results)
           unrecorded == {r \in blockers : ~ Recorded(r)}
           wanted == {r \in blockers : Live(r) = {}}
           atOnce == /\ c.by \in Staff
                     /\ \A r \in blockers : rules[r].is.mode = "authorized"
                     /\ InTier(c.by, c.here)
       IN
       /\ Combined(results) # "deny" /\ blockers # {}
       /\ unrecorded # {} => evaluation.rev # movement.rev
       /\ \/ /\ wanted = {}
             /\ evaluation' = IF unrecorded = {} THEN evaluation
                              ELSE Evaluated(c, movement.rev, results, FALSE)
             /\ UNCHANGED <<movement, approvals, overrides>>
          \/ /\ wanted # {}
             /\ Apply(c, movement.state, movement.rev + 1, approvals,
                      overrides \cup {NewOverride(r, c.by, atOnce) : r \in wanted}, FALSE)

FaultyMayResolve(by, x, here) ==                     \* they may have asked themselves
    by \in SchoolTier \/ (x.mode = "authorized" /\ InTier(by, here))
MayResolve(by, x, here) ==
    /\ by \in SchoolTier \/ (x.mode = "authorized" /\ InTier(by, here))
    /\ x.mode = "approval_required" => x.asked # by

ResolveOverride(c) ==
    /\ Ends(c, "override")
    /\ movement.rev = c.rev /\ movement.state \in Active
    /\ c.row \in Open(overrides)
    /\ MayResolve(c.by, c.row, c.here)
    /\ LET resolved == [c.row EXCEPT !.decision = c.decision, !.decided = c.by] IN
       Apply(c, movement.state, movement.rev + 1, approvals,
             (overrides \ {c.row}) \cup {resolved}, FALSE)

(* A slot became free for the head of the queue.  An evaluation of this     *)
(* revision that exists already makes the batch fail.                      *)
Promote(c) ==
    /\ Ends(c, "promote")
    /\ movement.state = "queued" /\ movement.entry = c.rev
    /\ evaluation.rev # movement.rev
    /\ LET rev == movement.rev
           e == Evaluated(c, rev, Results(c, approvals, overrides, FALSE), TRUE)
           settled == Reconciled(approvals, Required(e))
       IN
       /\ evaluation' = e
       /\ \/ e.decision = "deny" /\ Refuse("denied", rev + 1, settled, overrides)
          \/ /\ e.decision # "deny"
             /\ MoveTo(IF e.decision = "allow" THEN "ready" ELSE "requested", rev + 1)
             /\ approvals' = settled /\ overrides' = overrides

---------------------------------------------------------------------------
(* The pass without its policy, the rules, and the world.                  *)

(* Departing, completing, and missing an offer look at no rule. *)
Travel ==
    /\ movement.rev < LastRevision
    /\ \E step \in {<<"ready", "out">>, <<"out", "completed">>, <<"ready", "queued">>} :
          movement.state = step[1] /\ MoveTo(step[2], movement.rev + 1)
    /\ UNCHANGED <<time, placement, rules, approvals, overrides, evaluation, pending>>

(* The student cancels, or the reconciler ends the wait. *)
EndBeforeDeparture ==
    /\ movement.state \in Deniable
    /\ \E state \in {"cancelled", "denied"} :
          Refuse(state, movement.rev + 1, approvals, overrides)
    /\ UNCHANGED <<time, placement, rules, evaluation, pending>>

(* Every command of the administrators raises the revision of the rule.     *)
EditRule(r, rule) ==
    /\ rules[r].rev < MostEdits
    /\ rules' = [rules EXCEPT ![r] = [rev |-> @.rev + 1, enabled |-> rule.enabled, is |-> rule.is]]
    /\ UNCHANGED <<time, placement, movement, approvals, overrides, evaluation, pending>>

UpdateRule(r) == \E v \in Versions : EditRule(r, [rules[r] EXCEPT !.is = v])
EnableOrDisable(r) == EditRule(r, [rules[r] EXCEPT !.enabled = ~ @])

TimePasses ==
    /\ time < LastTime /\ time' = time + 1
    /\ placement' \in Placements
    /\ UNCHANGED <<rules, movement, approvals, overrides, evaluation, pending>>

Answers(by) ==
    \E decision \in {"approved", "denied"} :
        \/ \E x \in approvals : BeginApproval(by, x, decision)
        \/ \E x \in overrides : BeginResolve(by, x, decision)

PolicyNext ==
    \/ BeginRequest \/ BeginPromote \/ BeginAsk("student")
    \/ \E by \in Staff : BeginAsk(by) \/ Answers(by)
    \/ \E c \in pending :
          RequestPass(c) \/ ResolveApproval(c) \/ RequestOverride(c) \/ ResolveOverride(c)
          \/ Promote(c) \/ Fails(c)
    \/ Travel \/ EndBeforeDeparture \/ TimePasses
    \/ \E r \in Rules : UpdateRule(r) \/ EnableOrDisable(r)

PolicySpec == PolicyInit /\ [][PolicyNext]_policyVars

---------------------------------------------------------------------------
(* Properties.                                                             *)

(* An approval or override, as it stands now, that answers for a rule that  *)
(* blocks: of this very revision, by a teacher of the section the student   *)
(* is expected in, or by two people where the rule asks for two.            *)
Answered(r, here) ==
    \/ \E x \in overrides :
          /\ x.rule = r /\ x.rev = rules[r].rev /\ x.decision = "approved"
          /\ rules[r].is.mode # "never"
          /\ rules[r].is.mode = "approval_required" => x.asked # x.decided
    \/ /\ rules[r].is.type = "approval_requirement" /\ here.kind = "resolved"
       /\ \E x \in approvals :
             /\ x.rule = r /\ x.rev = rules[r].rev /\ x.decision = "approved"
             /\ x.section = here.section /\ here.section \in Teaches[x.by]
    \/ /\ rules[r].is.type = "approval_requirement" /\ here.kind = "resolved"
       /\ Preapproved

(* No pass is cleared to wait for or take a slot while a rule blocks it,    *)
(* however rules are edited, students move and evidence ages between the    *)
(* evaluations: every rule that blocks is answered for at that moment.      *)
ClearedByPeople ==
    [][(movement'.state \in {"queued", "ready"} /\ movement'.rev # movement.rev
        /\ evaluation'.rev = movement'.rev - 1 /\ evaluation' # evaluation)
          => (\A r \in Rules : Blocks(r, evaluation) => Answered(r, evaluation.here))']_policyVars

(* Teachers see exactly the requests that matter: the approvals pending on  *)
(* a live pass are those its latest evaluation requires, on one that ended  *)
(* before departing there are none.  An evaluation that was only kept       *)
(* because overrides were asked for again is not acted upon.               *)
PendingIsRequired ==
    /\ (movement.state \in Active /\ evaluation.settled) =>
          {Named(x) : x \in Open(approvals)} = Required(evaluation)
    /\ movement.state \in {"absent", "denied", "cancelled"} => Open(approvals) = {}

===========================================================================
