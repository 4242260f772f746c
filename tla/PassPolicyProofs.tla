-------------------------- MODULE PassPolicyProofs --------------------------
(***************************************************************************)
(* Theorems about the policy of one pass, for any rules, placements and     *)
(* staff: what an evaluation requires is what people are asked for, and no  *)
(* pass is cleared that a rule still blocks.                               *)
(*                                                                         *)
(* The invariant, PolicyOK, has three parts: RulesOK, what the rules are;   *)
(* RowsOK, how every approval and override came about - an approved one was *)
(* approved by somebody who may, and an override has the mode of the        *)
(* revision it is of; and PendingIsRequired itself.                        *)
(***************************************************************************)
EXTENDS PassPolicy, TLAPS

Modes == {"never", "authorized", "approval_required"}
Contributions == {"none", "deny", "override_required", "approval_required"}
States == {"absent", "requested", "queued", "ready", "out", "completed", "denied", "cancelled"}

RulesOK ==
    /\ DOMAIN rules = Rules
    /\ \A r \in Rules :
          /\ DOMAIN rules[r] = {"rev", "enabled", "is"}
          /\ rules[r].rev \in Nat /\ rules[r].is \in Versions

ApprovalOK(x) ==
    /\ DOMAIN x = {"rule", "rev", "section", "decision", "by"}
    /\ x.decision = "approved" => x.section \in Teaches[x.by]
OverrideOK(x) ==
    /\ DOMAIN x = {"rule", "rev", "mode", "asked", "decision", "decided"}
    /\ x.rule \in Rules /\ x.rev \in Nat /\ x.rev <= rules[x.rule].rev
    /\ x.rev = rules[x.rule].rev => x.mode = rules[x.rule].is.mode
    /\ (x.decision = "approved" /\ x.mode = "approval_required") => x.asked # x.decided
RowsOK(ap, ov) == (\A x \in ap : ApprovalOK(x)) /\ (\A x \in ov : OverrideOK(x))

MovementOK ==
    /\ DOMAIN movement = {"state", "rev", "source", "entry"}
    /\ movement.state \in States /\ movement.rev \in Nat

PolicyOK == RulesOK /\ RowsOK(approvals, overrides) /\ MovementOK /\ PendingIsRequired

---------------------------------------------------------------------------
(* What the operators on rows do.                                          *)

(* Nothing that was cancelled is open, and nothing else is lost.            *)
LEMMA CancelledRows ==
    ASSUME NEW rows, \A x \in rows : "decision" \in DOMAIN x
    PROVE  /\ Open(Cancelled(rows)) = {}
           /\ \A x \in rows : x.decision # "pending" => x \in Cancelled(rows)
           /\ \A y \in Cancelled(rows) : y \in rows \/ \E x \in rows :
                 x.decision = "pending" /\ y = [x EXCEPT !.decision = "cancelled"]
<1>1. \A x : [x EXCEPT !.decision = "cancelled"].decision = "cancelled" \/ "decision" \notin DOMAIN x
  OBVIOUS
<1> QED
  BY <1>1 DEF Open, Cancelled

(* Cancelling keeps the rows well formed.                                  *)
LEMMA CancelledOK ==
    ASSUME NEW ap, NEW ov, RowsOK(ap, ov)
    PROVE  RowsOK(Cancelled(ap), Cancelled(ov))
<1>1. \A x \in ap : ApprovalOK([x EXCEPT !.decision = "cancelled"])
  <2> SUFFICES ASSUME NEW x \in ap PROVE ApprovalOK([x EXCEPT !.decision = "cancelled"])
    OBVIOUS
  <2> DEFINE y == [x EXCEPT !.decision = "cancelled"]
  <2>1. DOMAIN y = DOMAIN x /\ y.decision = "cancelled"
    BY DEF RowsOK, ApprovalOK
  <2> HIDE DEF y
  <2>2. ApprovalOK(y)
    BY <2>1 DEF RowsOK, ApprovalOK
  <2> QED
    BY <2>2 DEF y
<1>2. \A x \in ov : OverrideOK([x EXCEPT !.decision = "cancelled"])
  <2> SUFFICES ASSUME NEW x \in ov PROVE OverrideOK([x EXCEPT !.decision = "cancelled"])
    OBVIOUS
  <2> DEFINE y == [x EXCEPT !.decision = "cancelled"]
  <2>1. /\ DOMAIN y = DOMAIN x /\ y.decision = "cancelled"
        /\ y.rule = x.rule /\ y.rev = x.rev /\ y.mode = x.mode
    BY DEF RowsOK, OverrideOK
  <2> HIDE DEF y
  <2>2. OverrideOK(y)
    BY <2>1 DEF RowsOK, OverrideOK
  <2> QED
    BY <2>2 DEF y
<1> QED
  BY <1>1, <1>2 DEF RowsOK, Cancelled

(* Reconciling leaves pending exactly what is required, and what has been   *)
(* decided as it was.                                                      *)
LEMMA ReconciledRows ==
    ASSUME NEW ap, NEW required, \A x \in ap : ApprovalOK(x),
           \A q \in required : q = [rule |-> q.rule, rev |-> q.rev, section |-> q.section]
    PROVE  /\ {Named(x) : x \in Open(Reconciled(ap, required))} = required
           /\ \A x \in ap : x.decision # "pending" => x \in Reconciled(ap, required)
           /\ \A x \in Reconciled(ap, required) : ApprovalOK(x)
<1> DEFINE kept == {x \in Open(ap) : Named(x) \in required}
           missing == required \ {Named(x) : x \in kept}
           added == {NewApproval(q) : q \in missing}
           others == Cancelled(ap \ kept)
<1>1. Reconciled(ap, required) = others \cup kept \cup added
  BY DEF Reconciled
<1>2. /\ Open(others) = {}
      /\ \A x \in ap \ kept : x.decision # "pending" => x \in others
  BY CancelledRows DEF ApprovalOK
<1>3. RowsOK(others, {})
  <2>1. RowsOK(ap \ kept, {}) /\ Cancelled({}) = {}
    BY DEF RowsOK, Cancelled
  <2> QED
    BY <2>1, CancelledOK
<1>4. \A q \in missing : /\ Named(NewApproval(q)) = q /\ NewApproval(q).decision = "pending"
                         /\ ApprovalOK(NewApproval(q))
  BY DEF Named, NewApproval, ApprovalOK
<1>5. \A x \in kept : x \in ap /\ x.decision = "pending" /\ Named(x) \in required
  BY DEF Open
<1>6. Open(Reconciled(ap, required)) = kept \cup added
  <2> HIDE DEF others, kept, missing
  <2>1. \A x \in added : x.decision = "pending"
    BY <1>4
  <2> QED
    BY <1>1, <1>2, <1>5, <2>1 DEF Open
<1>7. {Named(x) : x \in kept \cup added} = required
  <2>1. \A q \in missing : q \in required
    OBVIOUS
  <2>2. \A q \in required : q \in missing \/ \E x \in kept : Named(x) = q
    OBVIOUS
  <2>3. \A x \in added : \E q \in missing : x = NewApproval(q)
    OBVIOUS
  <2> HIDE DEF kept, missing
  <2> QED
    BY <1>4, <1>5, <2>1, <2>2, <2>3
<1>8. \A x \in ap : x.decision # "pending" => x \in Reconciled(ap, required)
  BY <1>1, <1>2, <1>5
<1>9. \A x \in Reconciled(ap, required) : ApprovalOK(x)
  BY <1>1, <1>3, <1>4, <1>5 DEF RowsOK
<1> QED
  BY <1>6, <1>7, <1>8, <1>9

---------------------------------------------------------------------------
(* The engine.                                                             *)

(* A rule contributes one of four things.                                  *)
LEMMA RulesContribute ==
    ASSUME NEW r, NEW c, NEW ap, NEW ov, NEW preapproved
    PROVE  Contribution(r, c, ap, ov, preapproved) \in Contributions
<1>1. \A failing \in Contributions : Overridden(r, ov, failing) \in Contributions
  BY DEF Overridden, Contributions
<1>2. Escalation(r) \in Contributions
  BY DEF Escalation, Contributions
<1>3. \A x : x \in {"none", "deny", "approval_required"} => x \in Contributions
  BY DEF Contributions
<1> QED
  BY <1>1, <1>2, <1>3 DEF Contribution

(* What is required names a rule, its revision and the section.            *)
LEMMA RequiredShape ==
    ASSUME NEW e
    PROVE  \A q \in Required(e) : q = [rule |-> q.rule, rev |-> q.rev, section |-> q.section]
BY DEF Required

AnsweredIn(r, here, ap, ov) ==
    \/ \E x \in ov :
          /\ x.rule = r /\ x.rev = rules[r].rev /\ x.decision = "approved"
          /\ rules[r].is.mode # "never"
          /\ rules[r].is.mode = "approval_required" => x.asked # x.decided
    \/ /\ rules[r].is.type = "approval_requirement" /\ here.kind = "resolved"
       /\ \E x \in ap :
             /\ x.rule = r /\ x.rev = rules[r].rev /\ x.decision = "approved"
             /\ x.section = here.section /\ here.section \in Teaches[x.by]
    \/ /\ rules[r].is.type = "approval_requirement" /\ here.kind = "resolved"
       /\ Preapproved

(* An override that clears a rule is an answer.                            *)
LEMMA OverridesAnswer ==
    ASSUME RulesOK, NEW ap, NEW ov, RowsOK(ap, ov), NEW r \in Rules, NEW here,
           NEW failing, failing # "none", Overridden(r, ov, failing) = "none"
    PROVE  AnsweredIn(r, here, ap, ov)
<1>1. rules[r].is.mode # "never" /\ Evidence(ov, r, "approved") # {}
  BY DEF Overridden
<1>2. PICK x \in ov : x.rule = r /\ x.rev = rules[r].rev /\ x.decision = "approved"
  BY <1>1 DEF Evidence
<1>3. rules[r].is.mode = "approval_required" => x.asked # x.decided
  BY <1>2 DEF RowsOK, OverrideOK
<1> QED
  BY <1>1, <1>2, <1>3 DEF AnsweredIn

(* An evaluation that allows has an answer for every rule that blocks.      *)
LEMMA AllowedIsAnswered ==
    ASSUME RulesOK, NEW ap, NEW ov, RowsOK(ap, ov), NEW c, NEW preapproved \in BOOLEAN,
           preapproved => Preapproved,
           Combined(Results(c, ap, ov, preapproved)) = "allow",
           NEW r \in Rules, Blocks(r, c)
    PROVE  AnsweredIn(r, c.here, ap, ov)
<1> DEFINE gives == Contribution(r, c, ap, ov, preapproved)
<1>1. gives = "none"
  <2> DEFINE results == Results(c, ap, ov, preapproved)
  <2>1. results[r].gives = gives
    BY DEF Results
  <2>2. gives \in Contributions
    BY RulesContribute
  <2>3. Gives(results, "deny") = {} /\ Gives(results, "override_required") = {}
        /\ Gives(results, "approval_required") = {}
    BY DEF Combined
  <2> HIDE DEF results, gives
  <2> QED
    BY <2>1, <2>2, <2>3 DEF Gives, Contributions
<1>2. Escalation(r) # "none"
  BY DEF Escalation
<1>3. CASE rules[r].is.type = "schedule_boundary" \/ c.here.kind # "resolved"
  <2>1. Overridden(r, ov, Escalation(r)) = "none"
    BY <1>1, <1>3 DEF Contribution
  <2> QED
    BY <1>2, <2>1, OverridesAnswer
<1>4. CASE ~ (rules[r].is.type = "schedule_boundary" \/ c.here.kind # "resolved")
  <2>1. rules[r].is.type = "approval_requirement" /\ c.here.kind = "resolved"
    BY <1>4, PolicyAssumption DEF RulesOK
  <2>2. CASE ApprovedOrDenied(r, c, ap, "approved")
    <3>1. PICK x \in ap : x.rule = r /\ x.rev = rules[r].rev /\ x.decision = "approved"
                          /\ x.section = c.here.section
      BY <2>2 DEF ApprovedOrDenied, Evidence
    <3>2. c.here.section \in Teaches[x.by]
      BY <3>1 DEF RowsOK, ApprovalOK
    <3> QED
      BY <2>1, <3>1, <3>2 DEF AnsweredIn
  <2>3. CASE ~ ApprovedOrDenied(r, c, ap, "approved")
    <3>1. Overridden(r, ov, IF preapproved THEN "none" ELSE "approval_required") = "none"
      BY <1>1, <1>4, <2>3 DEF Contribution
    <3>2. CASE preapproved
      BY <2>1, <3>2 DEF AnsweredIn
    <3>3. CASE ~ preapproved
      BY <3>1, <3>3, OverridesAnswer
    <3> QED
      BY <3>2, <3>3
  <2> QED
    BY <2>2, <2>3
<1> QED
  BY <1>3, <1>4

---------------------------------------------------------------------------
(* The tail of every command.                                              *)

Settles(c, rev, ap, ov, preapproved) ==
    LET e == Evaluated(c, rev, Results(c, ap, ov, preapproved), TRUE)
        settled == Reconciled(ap, Required(e))
    IN
    /\ evaluation' = e
    /\ \/ Refuse("denied", rev + 1, settled, ov)
       \/ /\ DOMAIN movement' = DOMAIN movement
          /\ movement'.state \in Active /\ movement'.rev \in Nat
          /\ approvals' = settled /\ overrides' = ov

(* Whatever a command has changed in the rows before, the evaluation and    *)
(* the reconciliation that follow leave the invariant intact.              *)
LEMMA SettlesKeepsOK ==
    ASSUME PolicyOK, NEW c, NEW rev \in Nat, NEW ap, NEW ov, RowsOK(ap, ov), NEW preapproved,
           Settles(c, rev, ap, ov, preapproved), UNCHANGED rules
    PROVE  PolicyOK'
<1> DEFINE e == Evaluated(c, rev, Results(c, ap, ov, preapproved), TRUE)
           required == Required(e)
           settled == Reconciled(ap, required)
<1>1. evaluation' = e /\ e.settled = TRUE
  BY DEF Settles, Evaluated
<1>2. \A q \in required : q = [rule |-> q.rule, rev |-> q.rev, section |-> q.section]
  BY RequiredShape
<1> HIDE DEF required
<1>3. /\ {Named(x) : x \in Open(settled)} = required
      /\ RowsOK(settled, ov)
  BY <1>2, ReconciledRows DEF RowsOK
<1>4. \/ Refuse("denied", rev + 1, settled, ov)
      \/ /\ DOMAIN movement' = DOMAIN movement
         /\ movement'.state \in Active /\ movement'.rev \in Nat
         /\ approvals' = settled /\ overrides' = ov
  BY DEF Settles, required
<1> HIDE DEF e, settled
<1>5. /\ Open(Cancelled(settled)) = {}
      /\ RowsOK(Cancelled(settled), Cancelled(ov))
  <2>1. \A x \in settled : "decision" \in DOMAIN x
    BY <1>3 DEF RowsOK, ApprovalOK
  <2> QED
    BY <1>3, <2>1, CancelledRows, CancelledOK
<1>6. RulesOK'
  BY DEF PolicyOK, RulesOK
<1>7. \A x, y : (approvals' = x /\ overrides' = y /\ RowsOK(x, y)) => RowsOK(approvals, overrides)'
  BY DEF RowsOK, ApprovalOK, OverrideOK
<1>8. CASE Refuse("denied", rev + 1, settled, ov)
  <2>1. movement'.state = "denied" /\ MovementOK'
    BY <1>8 DEF Refuse, PolicyOK, MovementOK, States
  <2>2. RowsOK(approvals, overrides)' /\ Open(approvals)' = {}
    BY <1>5, <1>7, <1>8 DEF Refuse, Open
  <2>3. PendingIsRequired'
    BY <2>1, <2>2 DEF PendingIsRequired, Active
  <2> QED
    BY <1>6, <2>1, <2>2, <2>3 DEF PolicyOK
<1>9. CASE /\ DOMAIN movement' = DOMAIN movement
           /\ movement'.state \in Active /\ movement'.rev \in Nat
           /\ approvals' = settled /\ overrides' = ov
  <2>1. MovementOK'
    BY <1>9 DEF PolicyOK, MovementOK, States, Active
  <2>2. RowsOK(approvals, overrides)'
    BY <1>3, <1>7, <1>9
  <2>3. {Named(x) : x \in Open(approvals)}' = {Named(x) : x \in Open(settled)}
    BY <1>9 DEF Open, Named
  <2>4. Required(evaluation)' = required
    BY <1>1 DEF required, Required, Gives
  <2>5. PendingIsRequired'
    BY <1>3, <1>9, <2>3, <2>4 DEF PendingIsRequired, Active
  <2> QED
    BY <1>6, <2>1, <2>2, <2>5 DEF PolicyOK
<1> QED
  BY <1>4, <1>8, <1>9

(* The tail of the commands on a pass is such an end.                      *)
LEMMA ApplyKeepsOK ==
    ASSUME PolicyOK, NEW c, NEW was \in Active, NEW rev \in Nat, NEW ap, NEW ov, RowsOK(ap, ov),
           NEW preapproved, Apply(c, was, rev, ap, ov, preapproved), UNCHANGED rules
    PROVE  PolicyOK'
<1> DEFINE e == Evaluated(c, rev, Results(c, ap, ov, preapproved), TRUE)
           settled == Reconciled(ap, Required(e))
<1>1. evaluation' = e
  BY DEF Apply
<1>2. \/ Refuse("denied", rev + 1, settled, ov)
      \/ \E state \in {"queued", "ready"} : MoveTo(state, rev + 1)
            /\ approvals' = settled /\ overrides' = ov
      \/ /\ movement' = [movement EXCEPT !.state = was, !.rev = rev]
         /\ approvals' = settled /\ overrides' = ov
  BY DEF Apply
<1> HIDE DEF e, settled
<1>3. DOMAIN movement = {"state", "rev", "source", "entry"} /\ {"queued", "ready"} \subseteq Active
  BY DEF PolicyOK, MovementOK, Active
<1>4. ASSUME movement' = [movement EXCEPT !.state = was, !.rev = rev]
      PROVE  DOMAIN movement' = DOMAIN movement /\ movement'.state \in Active /\ movement'.rev \in Nat
  BY <1>3, <1>4
<1>5. ASSUME NEW state \in {"queued", "ready"}, MoveTo(state, rev + 1)
      PROVE  DOMAIN movement' = DOMAIN movement /\ movement'.state \in Active /\ movement'.rev \in Nat
  BY <1>3, <1>5 DEF MoveTo
<1>6. Settles(c, rev, ap, ov, preapproved)
  BY <1>1, <1>2, <1>4, <1>5 DEF Settles, e, settled
<1> QED
  BY <1>6, SettlesKeepsOK

---------------------------------------------------------------------------
(* The steps.                                                              *)

(* A command on the pass changes rows as they may be changed and ends with  *)
(* the evaluation and its tail, or it only keeps an evaluation.             *)
CommandApplies(c) ==
    \E was \in Active, rev \in Nat, preapproved \in BOOLEAN : \E ap, ov :
        /\ RowsOK(ap, ov) /\ (preapproved => Preapproved)
        /\ Apply(c, was, rev, ap, ov, preapproved)
EvaluationKept ==
    /\ UNCHANGED <<movement, approvals, overrides>>
    /\ evaluation' = evaluation \/ evaluation'.settled = FALSE

(* Every such command is of one of the two kinds.                          *)
LEMMA CommandsApply ==
    ASSUME PolicyOK, NEW c,
           RequestPass(c) \/ ResolveApproval(c) \/ RequestOverride(c) \/ ResolveOverride(c)
    PROVE  UNCHANGED rules /\ (CommandApplies(c) \/ EvaluationKept)
<1>0. UNCHANGED rules
  BY DEF RequestPass, ResolveApproval, RequestOverride, ResolveOverride, Ends
<1>1. RowsOK(approvals, overrides) /\ movement.rev \in Nat /\ RulesOK
  BY DEF PolicyOK, MovementOK
<1>2. CASE RequestPass(c)
  <2>1. Apply(c, "requested", 1, approvals, overrides, Preapproved)
    BY <1>2 DEF RequestPass
  <2>2. "requested" \in Active /\ 1 \in Nat
    BY DEF Active
  <2> QED
    BY <1>0, <1>1, <2>1, <2>2 DEF CommandApplies, Preapproved
<1>3. CASE ResolveApproval(c)
  <2> DEFINE resolved == [c.row EXCEPT !.decision = c.decision, !.by = c.by]
  <2>1. /\ c.row \in approvals /\ c.row.section \in Teaches[c.by]
        /\ Apply(c, "requested", movement.rev + 1, (approvals \ {c.row}) \cup {resolved},
                 overrides, FALSE)
    BY <1>3 DEF ResolveApproval, Open
  <2>2. ApprovalOK(c.row)
    BY <1>1, <2>1 DEF RowsOK
  <2>3. DOMAIN resolved = DOMAIN c.row /\ resolved.section = c.row.section /\ resolved.by = c.by
    BY <2>2 DEF ApprovalOK
  <2> HIDE DEF resolved
  <2>4. ApprovalOK(resolved)
    BY <2>1, <2>2, <2>3 DEF ApprovalOK
  <2>5. RowsOK((approvals \ {c.row}) \cup {resolved}, overrides)
    BY <1>1, <2>4 DEF RowsOK
  <2>6. "requested" \in Active
    BY DEF Active
  <2>7. movement.rev + 1 \in Nat
    BY <1>1
  <2> QED
    BY <1>0, <2>1, <2>5, <2>6, <2>7 DEF CommandApplies
<1>4. CASE ResolveOverride(c)
  <2> DEFINE resolved == [c.row EXCEPT !.decision = c.decision, !.decided = c.by]
  <2>1. /\ c.row \in overrides /\ movement.state \in Active
        /\ c.row.mode = "approval_required" => c.row.asked # c.by
        /\ Apply(c, movement.state, movement.rev + 1, approvals,
                 (overrides \ {c.row}) \cup {resolved}, FALSE)
    BY <1>4 DEF ResolveOverride, MayResolve, Open
  <2>2. OverrideOK(c.row)
    BY <1>1, <2>1 DEF RowsOK
  <2>3. /\ DOMAIN resolved = DOMAIN c.row /\ resolved.rule = c.row.rule
        /\ resolved.rev = c.row.rev /\ resolved.mode = c.row.mode
        /\ resolved.asked = c.row.asked /\ resolved.decided = c.by
    BY <2>2 DEF OverrideOK
  <2> HIDE DEF resolved
  <2>4. OverrideOK(resolved)
    BY <2>1, <2>2, <2>3 DEF OverrideOK
  <2>5. RowsOK(approvals, (overrides \ {c.row}) \cup {resolved})
    BY <1>1, <2>4 DEF RowsOK
  <2>6. movement.state \in Active
    BY <2>1
  <2>7. movement.rev + 1 \in Nat
    BY <1>1
  <2> QED
    BY <1>0, <2>1, <2>5, <2>6, <2>7 DEF CommandApplies
<1>5. CASE RequestOverride(c)
  <2> DEFINE results == Results(c, approvals, overrides, FALSE)
             blockers == Blockers(results)
             unrecorded == {r \in blockers : ~ Recorded(r)}
             wanted == {r \in blockers : Live(r) = {}}
             atOnce == /\ c.by \in Staff
                       /\ \A r \in blockers : rules[r].is.mode = "authorized"
                       /\ InTier(c.by, c.here)
             added == {NewOverride(r, c.by, atOnce) : r \in wanted}
  <2>1. movement.state \in Active
    BY <1>5 DEF RequestOverride
  <2>2. CASE /\ evaluation' = IF unrecorded = {} THEN evaluation
                              ELSE Evaluated(c, movement.rev, results, FALSE)
             /\ UNCHANGED <<movement, approvals, overrides>>
    <3>1. evaluation' = evaluation \/ evaluation'.settled = FALSE
      BY <2>2 DEF Evaluated
    <3> QED
      BY <1>0, <2>2, <3>1 DEF EvaluationKept
  <2>3. CASE Apply(c, movement.state, movement.rev + 1, approvals, overrides \cup added, FALSE)
    <3>1. \A r \in wanted : r \in Rules /\ (atOnce => rules[r].is.mode = "authorized")
      BY DEF Blockers, Gives
    <3>2. \A r \in Rules : \A by, approved :
             (approved => rules[r].is.mode = "authorized") => OverrideOK(NewOverride(r, by, approved))
      BY <1>1 DEF RulesOK, OverrideOK, NewOverride
    <3>3. \A x \in added : OverrideOK(x)
      <4> HIDE DEF wanted, atOnce
      <4> QED
        BY <3>1, <3>2
    <3> HIDE DEF added
    <3>4. RowsOK(approvals, overrides \cup added)
      BY <1>1, <3>3 DEF RowsOK
    <3>5. movement.state \in Active
      BY <2>1
    <3>6. movement.rev + 1 \in Nat
      BY <1>1
    <3> QED
      BY <1>0, <2>3, <3>4, <3>5, <3>6 DEF CommandApplies
  <2> QED
    BY <1>5, <2>2, <2>3 DEF RequestOverride
<1> QED
  BY <1>2, <1>3, <1>4, <1>5

(* Both keep the invariant.                                                *)
LEMMA CommandsKeepOK ==
    ASSUME PolicyOK, NEW c, UNCHANGED rules, CommandApplies(c) \/ EvaluationKept
    PROVE  PolicyOK'
<1>1. CASE CommandApplies(c)
  BY <1>1, ApplyKeepsOK DEF CommandApplies
<1>2. CASE EvaluationKept
  <2>1. Open(approvals)' = Open(approvals)
        /\ {Named(x) : x \in Open(approvals)}' = {Named(x) : x \in Open(approvals)}
    BY <1>2 DEF EvaluationKept, Open, Named
  <2>2. evaluation' = evaluation => Required(evaluation)' = Required(evaluation)
    BY DEF Required, Gives
  <2>3. PendingIsRequired'
    BY <1>2, <2>1, <2>2 DEF EvaluationKept, PolicyOK, PendingIsRequired
  <2> QED
    BY <1>2, <2>3 DEF EvaluationKept, PolicyOK, RulesOK, RowsOK, ApprovalOK, OverrideOK, MovementOK
<1> QED
  BY <1>1, <1>2

(* The promotion of the head of the queue.                                 *)
LEMMA PromoteKeepsOK ==
    ASSUME PolicyOK, NEW c, Promote(c)
    PROVE  PolicyOK'
<1> DEFINE rev == movement.rev
           e == Evaluated(c, rev, Results(c, approvals, overrides, FALSE), TRUE)
           settled == Reconciled(approvals, Required(e))
<1>1. /\ evaluation' = e /\ UNCHANGED rules
      /\ \/ Refuse("denied", rev + 1, settled, overrides)
         \/ /\ MoveTo(IF e.decision = "allow" THEN "ready" ELSE "requested", rev + 1)
            /\ approvals' = settled /\ overrides' = overrides
  BY DEF Promote, Ends
<1> HIDE DEF e, settled
<1>2. /\ RowsOK(approvals, overrides) /\ movement.rev \in Nat
      /\ DOMAIN movement = {"state", "rev", "source", "entry"}
      /\ {"requested", "ready"} \subseteq Active
  BY DEF PolicyOK, MovementOK, Active
<1>3. ASSUME NEW state \in {"requested", "ready"}, MoveTo(state, rev + 1)
      PROVE  DOMAIN movement' = DOMAIN movement /\ movement'.state \in Active /\ movement'.rev \in Nat
  BY <1>2, <1>3 DEF MoveTo
<1>4. Settles(c, rev, approvals, overrides, FALSE)
  BY <1>1, <1>3 DEF Settles, e, settled
<1> HIDE DEF rev
<1>5. rev \in Nat
  BY <1>2 DEF rev
<1> QED
  BY <1>1, <1>2, <1>4, <1>5, SettlesKeepsOK

(* Steps that evaluate nothing: the pass moves on or ends, rules are edited,*)
(* commands begin and fail, time passes.                                   *)
LEMMA OtherStepsKeepOK ==
    ASSUME PolicyOK,
           \/ UNCHANGED <<rules, movement, approvals, overrides, evaluation>>
           \/ Travel \/ EndBeforeDeparture
           \/ \E r \in Rules : UpdateRule(r) \/ EnableOrDisable(r)
    PROVE  PolicyOK'
<1>0. /\ RulesOK /\ RowsOK(approvals, overrides) /\ MovementOK /\ PendingIsRequired
  BY DEF PolicyOK
<1>1. UNCHANGED <<movement, approvals, evaluation>> => PendingIsRequired'
  <2> SUFFICES ASSUME UNCHANGED <<movement, approvals, evaluation>> PROVE PendingIsRequired'
    OBVIOUS
  <2>1. Open(approvals)' = Open(approvals)
        /\ {Named(x) : x \in Open(approvals)}' = {Named(x) : x \in Open(approvals)}
    BY DEF Open, Named
  <2>2. Required(evaluation)' = Required(evaluation)
    BY DEF Required, Gives
  <2> QED
    BY <1>0, <2>1, <2>2 DEF PendingIsRequired
<1>2. UNCHANGED <<rules, approvals, overrides>> => RulesOK' /\ RowsOK(approvals, overrides)'
  BY <1>0 DEF RulesOK, RowsOK, ApprovalOK, OverrideOK
<1>3. CASE UNCHANGED <<rules, movement, approvals, overrides, evaluation>>
  BY <1>0, <1>1, <1>2, <1>3 DEF PolicyOK, MovementOK
<1>4. CASE Travel
  <2>1. PICK step \in {<<"ready", "out">>, <<"out", "completed">>, <<"ready", "queued">>} :
          movement.state = step[1] /\ MoveTo(step[2], movement.rev + 1)
    BY <1>4 DEF Travel
  <2>2. /\ movement'.state = step[2] /\ MovementOK'
    BY <1>0, <2>1 DEF MoveTo, MovementOK, States
  <2>3. UNCHANGED <<rules, approvals, overrides, evaluation>>
    BY <1>4 DEF Travel
  <2>4. movement.state \in Active /\ movement'.state \in Active \cup {"completed"}
    BY <2>1, <2>2 DEF Active
  <2>5. PendingIsRequired'
    <3>1. Open(approvals)' = Open(approvals)
          /\ {Named(x) : x \in Open(approvals)}' = {Named(x) : x \in Open(approvals)}
      BY <2>3 DEF Open, Named
    <3>2. Required(evaluation)' = Required(evaluation)
      BY <2>3 DEF Required, Gives
    <3> QED
      BY <1>0, <2>3, <2>4, <3>1, <3>2 DEF PendingIsRequired, Active
  <2> QED
    BY <1>2, <2>2, <2>3, <2>5 DEF PolicyOK
<1>5. CASE EndBeforeDeparture
  <2>1. PICK state \in {"cancelled", "denied"} : Refuse(state, movement.rev + 1, approvals, overrides)
    BY <1>5 DEF EndBeforeDeparture
  <2>2. /\ movement'.state = state /\ MovementOK'
    BY <1>0, <2>1 DEF Refuse, MovementOK, States
  <2>3. \A x \in approvals : "decision" \in DOMAIN x
    BY <1>0 DEF RowsOK, ApprovalOK
  <2>4. /\ approvals' = Cancelled(approvals) /\ Open(Cancelled(approvals)) = {}
        /\ overrides' = Cancelled(overrides)
        /\ RowsOK(Cancelled(approvals), Cancelled(overrides)) /\ UNCHANGED rules
    BY <1>0, <1>5, <2>1, <2>3, CancelledRows, CancelledOK DEF Refuse, EndBeforeDeparture
  <2>5. PendingIsRequired'
    BY <2>2, <2>4 DEF PendingIsRequired, Active, Open
  <2>6. RulesOK' /\ RowsOK(approvals, overrides)'
    BY <1>0, <2>4 DEF RulesOK, RowsOK, ApprovalOK, OverrideOK
  <2> QED
    BY <2>2, <2>5, <2>6 DEF PolicyOK
<1>6. CASE \E r \in Rules : UpdateRule(r) \/ EnableOrDisable(r)
  <2>1. PICK r \in Rules : UpdateRule(r) \/ EnableOrDisable(r)
    BY <1>6
  <2>2. \E enabled, is :
          /\ is \in Versions
          /\ rules' = [rules EXCEPT ![r] = [rev |-> @.rev + 1, enabled |-> enabled, is |-> is]]
    <3>1. CASE UpdateRule(r)
      <4>1. PICK v \in Versions : EditRule(r, [rules[r] EXCEPT !.is = v])
        BY <3>1 DEF UpdateRule
      <4>2. [rules[r] EXCEPT !.is = v].is = v
        BY <1>0 DEF RulesOK
      <4> QED
        BY <4>1, <4>2 DEF EditRule
    <3>2. CASE EnableOrDisable(r)
      <4>1. [rules[r] EXCEPT !.enabled = ~ @].is = rules[r].is /\ rules[r].is \in Versions
        BY <1>0 DEF RulesOK
      <4> QED
        BY <3>2, <4>1 DEF EnableOrDisable, EditRule
    <3> QED
      BY <2>1, <3>1, <3>2
  <2>3. UNCHANGED <<movement, approvals, overrides, evaluation>>
    BY <2>1 DEF UpdateRule, EnableOrDisable, EditRule
  <2>4. RulesOK' /\ \A q \in Rules : rules'[q] = rules[q] \/ rules'[q].rev > rules[q].rev
    BY <1>0, <2>2 DEF RulesOK
  <2>5. RowsOK(approvals, overrides)'
    BY <1>0, <2>3, <2>4 DEF RulesOK, RowsOK, ApprovalOK, OverrideOK
  <2> QED
    BY <1>0, <1>1, <2>3, <2>4, <2>5 DEF PolicyOK, MovementOK
<1> QED
  BY <1>3, <1>4, <1>5, <1>6

---------------------------------------------------------------------------
(* Theorems.                                                               *)

(* A pass that does not exist yet keeps nobody busy.                       *)
LEMMA PolicyStartsOK == PolicyInit => PolicyOK
<1> SUFFICES ASSUME PolicyInit PROVE PolicyOK
  OBVIOUS
<1>1. PICK is \in [Rules -> Versions], on \in [Rules -> BOOLEAN] :
        rules = [r \in Rules |-> [rev |-> 2, enabled |-> on[r], is |-> is[r]]]
  BY DEF PolicyInit
<1>2. RulesOK
  BY <1>1 DEF RulesOK
<1>3. MovementOK
  BY DEF PolicyInit, MovementOK, States
<1>4. RowsOK(approvals, overrides)
  BY DEF PolicyInit, RowsOK
<1>5. PendingIsRequired
  BY DEF PolicyInit, PendingIsRequired, Open, Active
<1> QED
  BY <1>2, <1>3, <1>4, <1>5 DEF PolicyOK

(* The steps of a policy, sorted by what they do to it.                    *)
LEMMA KindsOfSteps ==
    ASSUME [PolicyNext]_policyVars
    PROVE  \/ \E c \in pending : \/ RequestPass(c) \/ ResolveApproval(c) \/ RequestOverride(c)
                                 \/ ResolveOverride(c)
           \/ \E c \in pending : Promote(c)
           \/ UNCHANGED <<rules, movement, approvals, overrides, evaluation>>
           \/ Travel \/ EndBeforeDeparture
           \/ \E r \in Rules : UpdateRule(r) \/ EnableOrDisable(r)
<1>1. CASE UNCHANGED policyVars
  BY <1>1 DEF policyVars
<1>2. CASE PolicyNext
  BY <1>2 DEF PolicyNext, BeginRequest, BeginPromote, BeginAsk, Answers, BeginApproval,
              BeginResolve, Begin, Fails, TimePasses
<1> QED
  BY <1>1, <1>2

(* The invariant holds throughout.                                         *)
LEMMA PolicyStaysOK == PolicySpec => []PolicyOK
<1>1. PolicyOK /\ [PolicyNext]_policyVars => PolicyOK'
  BY KindsOfSteps, CommandsApply, CommandsKeepOK, PromoteKeepsOK, OtherStepsKeepOK
<1> QED
  BY <1>1, PolicyStartsOK, PTL DEF PolicySpec

(* The approvals pending on a live pass are those its latest evaluation     *)
(* requires, however rules are edited and the student moves in between;     *)
(* a pass that ended before departing leaves none.                         *)
THEOREM PendingApprovalsAreRequired == PolicySpec => []PendingIsRequired
BY PolicyStaysOK, PTL DEF PolicyOK

(* An evaluation that clears the pass.                                     *)
LEMMA ClearingIsAnswered ==
    ASSUME PolicyOK, NEW c, NEW ap, NEW ov, RowsOK(ap, ov), NEW preapproved \in BOOLEAN,
           preapproved => Preapproved, NEW rev,
           evaluation' = Evaluated(c, rev, Results(c, ap, ov, preapproved), TRUE),
           evaluation'.decision = "allow",
           \A x \in ap : x.decision # "pending" => x \in approvals',
           overrides' = ov, movement'.source = movement.source, UNCHANGED rules
    PROVE  (\A r \in Rules : Blocks(r, evaluation) => Answered(r, evaluation.here))'
<1> SUFFICES ASSUME NEW r \in Rules, Blocks(r, evaluation)'
             PROVE  Answered(r, evaluation.here)'
  OBVIOUS
<1>1. /\ evaluation'.at = c.at /\ evaluation'.here = c.here
      /\ Combined(Results(c, ap, ov, preapproved)) = "allow"
  BY DEF Evaluated
<1>2. RequestSource' = RequestSource /\ Preapproved' = Preapproved
  BY DEF RequestSource, Preapproved
<1>3. Blocks(r, c)
  BY <1>1, <1>2 DEF Blocks, Applies, NearBoundary
<1>4. AnsweredIn(r, c.here, ap, ov)
  BY <1>1, <1>3, AllowedIsAnswered DEF PolicyOK
<1> QED
  BY <1>1, <1>2, <1>4 DEF AnsweredIn, Answered

(* No pass is cleared to wait for a slot or to take one while a rule        *)
(* blocks it: at that moment every rule that blocks is answered for by      *)
(* people who may, for this very revision of the rule.                     *)
THEOREM PassesAreClearedByPeople == PolicySpec => ClearedByPeople
<1> DEFINE Cleared == (movement'.state \in {"queued", "ready"} /\ movement'.rev # movement.rev
                       /\ evaluation'.rev = movement'.rev - 1 /\ evaluation' # evaluation)
           Clear == (\A r \in Rules : Blocks(r, evaluation) => Answered(r, evaluation.here))'
<1>1. PolicyOK /\ [PolicyNext]_policyVars => [Cleared => Clear]_policyVars
  <2> SUFFICES ASSUME PolicyOK, [PolicyNext]_policyVars, Cleared PROVE Clear
    OBVIOUS
  <2>0. /\ RowsOK(approvals, overrides) /\ movement.rev \in Nat /\ RulesOK
        /\ DOMAIN movement = {"state", "rev", "source", "entry"}
    BY DEF PolicyOK, MovementOK
  <2>1. ASSUME NEW c, NEW was, NEW rev \in Nat, NEW ap, NEW ov, RowsOK(ap, ov),
               NEW preapproved \in BOOLEAN, preapproved => Preapproved,
               Apply(c, was, rev, ap, ov, preapproved), UNCHANGED rules
        PROVE  Clear
    <3> DEFINE e == Evaluated(c, rev, Results(c, ap, ov, preapproved), TRUE)
               settled == Reconciled(ap, Required(e))
    <3>1. \A x \in ap : x.decision # "pending" => x \in settled
      BY <2>1, RequiredShape, ReconciledRows DEF RowsOK
    <3>2. e.rev = rev /\ evaluation' = e
      BY <2>1 DEF Evaluated, Apply
    <3>3. \/ Refuse("denied", rev + 1, settled, ov)
          \/ /\ e.decision = "allow"
             /\ \E state \in {"queued", "ready"} : MoveTo(state, rev + 1)
             /\ approvals' = settled /\ overrides' = ov
          \/ movement' = [movement EXCEPT !.state = was, !.rev = rev]
      BY <2>1 DEF Apply
    <3> HIDE DEF settled, e
    <3>4. ~ Refuse("denied", rev + 1, settled, ov)
      BY <2>0 DEF Refuse
    <3>5. movement' # [movement EXCEPT !.state = was, !.rev = rev]
      <4> SUFFICES ASSUME movement' = [movement EXCEPT !.state = was, !.rev = rev] PROVE FALSE
        OBVIOUS
      <4>1. movement'.rev = rev
        BY <2>0
      <4> QED
        BY <4>1, <3>2
    <3>6. movement'.source = movement.source
      BY <2>0, <3>3, <3>4, <3>5 DEF MoveTo
    <3>7. evaluation' = Evaluated(c, rev, Results(c, ap, ov, preapproved), TRUE)
      BY <3>2 DEF e
    <3>8. /\ evaluation'.decision = "allow" /\ overrides' = ov
          /\ \A x \in ap : x.decision # "pending" => x \in approvals'
      BY <3>1, <3>2, <3>3, <3>4, <3>5
    <3> QED
      BY <2>1, <3>6, <3>7, <3>8, ClearingIsAnswered
  <2>2. ASSUME NEW c, UNCHANGED rules, CommandApplies(c) \/ EvaluationKept PROVE Clear
    BY <2>1, <2>2 DEF CommandApplies, EvaluationKept
  <2>3. ASSUME NEW c, Promote(c) PROVE Clear
    <3> DEFINE rev == movement.rev
               e == Evaluated(c, rev, Results(c, approvals, overrides, FALSE), TRUE)
               settled == Reconciled(approvals, Required(e))
    <3>1. \A x \in approvals : x.decision # "pending" => x \in settled
      BY <2>0, RequiredShape, ReconciledRows DEF RowsOK
    <3>2. /\ evaluation' = e /\ UNCHANGED rules
          /\ \/ Refuse("denied", rev + 1, settled, overrides)
             \/ /\ MoveTo(IF e.decision = "allow" THEN "ready" ELSE "requested", rev + 1)
                /\ approvals' = settled /\ overrides' = overrides
      BY <2>3 DEF Promote, Ends
    <3> HIDE DEF settled, e
    <3>3. /\ MoveTo(IF e.decision = "allow" THEN "ready" ELSE "requested", rev + 1)
          /\ approvals' = settled /\ overrides' = overrides
      BY <2>0, <3>2 DEF Refuse
    <3>4. e.decision = "allow" /\ movement'.source = movement.source
      BY <2>0, <3>3 DEF MoveTo
    <3>5. evaluation' = Evaluated(c, rev, Results(c, approvals, overrides, FALSE), TRUE)
      BY <3>2 DEF e
    <3>6. evaluation'.decision = "allow" /\ \A x \in approvals : x.decision # "pending" => x \in approvals'
      BY <3>1, <3>2, <3>3, <3>4
    <3> QED
      BY <2>0, <3>2, <3>3, <3>4, <3>5, <3>6, ClearingIsAnswered
  <2>4. CASE UNCHANGED evaluation
    BY <2>4
  <2> QED
    BY <2>2, <2>3, <2>4, KindsOfSteps, CommandsApply
    DEF Travel, EndBeforeDeparture, UpdateRule, EnableOrDisable, EditRule
<1> QED
  BY <1>1, PolicyStaysOK, PTL DEF PolicySpec, ClearedByPeople

=============================================================================
