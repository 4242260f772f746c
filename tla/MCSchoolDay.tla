---------------------------- MODULE MCSchoolDay ----------------------------
(* Instances of PassPolicy for TLC: the rules that passes meet while a       *)
(* school is open, in three foci that are chosen in the initial state.        *)
EXTENDS PassPolicy, TLC

CONSTANTS r1, r2, algebra, art, tom, ann
CONSTANT Foci

VARIABLE focus

(* Tom teaches algebra, Ann is in the office.                                *)
TheTeaches == tom :> {algebra} @@ ann :> {}

Rule(type, mode, scope, first, last, until) ==
    [type |-> type, mode |-> mode, scope |-> scope, first |-> first, last |-> last,
     kinds |-> {"class"}, sources |-> {"student_web", "scheduled"},
     from |-> 0, until |-> until]
AlgebraAsks == Rule("approval_requirement", "authorized", algebra, 0, 0, 3)
NoEarlyLeave == Rule("schedule_boundary", "approval_required", "destination", 1, 0, 2)
OnceAtTheEnd == Rule("schedule_boundary", "authorized", "organization", 0, 1, 1)
TheVersions ==
    {AlgebraAsks, NoEarlyLeave, Rule("approval_requirement", "never", "organization", 0, 0, 2),
     OnceAtTheEnd}

Class(section, elapsed, left) ==
    [kind |-> "resolved", section |-> section, block |-> "class",
     elapsed |-> elapsed, left |-> left]
ThePlacements ==
    {Class(algebra, 0, 2), Class(art, 1, 1),
     [kind |-> "outside_schedule", elapsed |-> 0, left |-> 1]}

(* Two rules at once, of two versions, on the way of an ordinary pass     *)
(* within a minute; one, of any version, over time, at every placement and   *)
(* for every source; or one on the longer way of a pass that is offered its  *)
(* slot twice while an override nobody answers stays with it.              *)
TwoRules ==
    /\ placement.kind = "resolved" /\ movement.source = "student_web" /\ time = 0
    /\ \A r \in Rules : rules[r].is \in {AlgebraAsks, NoEarlyLeave}
Unused(r) == rules[r] = [rev |-> 2, enabled |-> FALSE, is |-> AlgebraAsks]

Unanswered ==
    /\ movement.source = "student_web"
    /\ rules[r1].is \in {AlgebraAsks, OnceAtTheEnd} /\ rules[r1].enabled
    /\ \A c \in pending : c.by \in {"student", "none"}
Short == time' <= 1 /\ (movement.rev < 4 \/ (pending' \subseteq pending /\ ~ Travel))

SchoolDayInit ==
    /\ PolicyInit /\ focus \in Foci
    /\ focus = "two rules" => TwoRules /\ \A r \in Rules : rules[r].enabled
    /\ focus # "two rules" => rules[r1].enabled /\ Unused(r2)
    /\ focus = "unanswered" => Unanswered
SchoolDayNext ==
    /\ \/ focus = "two rules" /\ PolicyNext /\ TwoRules' /\ Short
       \/ focus = "one rule" /\ PolicyNext /\ UNCHANGED rules[r2] /\ Short
       \/ focus = "unanswered" /\ PolicyNext /\ UNCHANGED rules[r2] /\ Unanswered'
    /\ UNCHANGED focus
SchoolDaySpec == SchoolDayInit /\ [][SchoolDayNext]_<<policyVars, focus>>

===========================================================================
