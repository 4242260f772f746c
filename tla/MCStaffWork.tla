---------------------------- MODULE MCStaffWork ----------------------------
(* Instances of what the staff of a school may do, and of the bookings they *)
(* make for students.  The two share no state here, so one run explores     *)
(* them side by side: the focus is chosen in the initial state, and only    *)
(* that component takes steps.                                              *)
EXTENDS Authorization, ScheduledAuthorization, TLC

CONSTANTS me, pupil, north, south, algebra, clinic, b1, s1, d1, c1, c2
CONSTANT Foci

VARIABLE focus

(* A member of staff of two schools, and a student of one, who may hold any *)
(* of these over two days.                                                 *)
TheSchoolOf == algebra :> north @@ clinic :> north
Fact(who, at, as, from, until) ==
    [who |-> who, at |-> at, as |-> as, from |-> from, until |-> until]
Duty(role, owner, at, from, until) ==
    [role |-> role, school |-> owner, at |-> at, from |-> from, until |-> until]
TheMemberships ==
    {Fact(me, north, "staff", 0, 1), Fact(me, south, "staff", 0, 0),
     Fact(pupil, north, "student", 0, 0)}
TheEnrolments == {Fact(me, algebra, "teacher", 0, 0), Fact(pupil, algebra, "student", 0, 1)}
TheGrants ==
    {Duty("counselor", north, north, 0, 2), Duty("school_admin", south, south, 0, 2),
     Duty("destination_staff", north, clinic, 1, 3), Duty("system_admin", "none", "none", 0, 1)}

OneTraveller == [b \in Bookings |-> s1]
OnePlace == [b \in Bookings |-> d1]

(* Two windows that meet: at each instant one of them can be used. *)
TwoWindows == {[from |-> 0, until |-> 1], [from |-> 1, until |-> 2]}

StaffWorkInit ==
    /\ RightsInit /\ ScheduledInit /\ focus \in Foci
    /\ focus # "rights" => method = "oidc"
StaffWorkNext ==
    /\ \/ focus = "rights" /\ RightsNext /\ UNCHANGED scheduledVars
       \/ focus = "scheduled" /\ ScheduledNext /\ UNCHANGED rightsVars
    /\ UNCHANGED focus
StaffWorkSpec ==
    /\ StaffWorkInit
    /\ [][StaffWorkNext]_<<rightsVars, scheduledVars, focus>>
    /\ focus = "scheduled" => ScheduledFairness

===========================================================================
