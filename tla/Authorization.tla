----------------------------- MODULE Authorization -----------------------------
(***************************************************************************)
(* Who may do what: RelationshipAuthorizationService.  Every decision is    *)
(* computed from facts in the database, read anew each time: memberships of *)
(* a school and of a section, whose days are inclusive, and explicit grants,*)
(* whose instants are half open.  The context of a signed-in user is a      *)
(* snapshot of hints made from the same facts.                              *)
(*                                                                         *)
(* One principal, Me, and one other person, Pupil.  A section and a         *)
(* destination belong to a school.  Other tenants, unusable time zones and  *)
(* the reasons of a denial are left out: they all end in a refusal.         *)
(***************************************************************************)
EXTENDS Integers, FiniteSets

CONSTANTS
    Me, Pupil,
    Schools, Sections, Stations,
    SchoolOf,             \* the school of a section or a destination
    MembershipFacts,      \* memberships of a school that may exist
    SectionFacts,         \* memberships of a section that may exist
    GrantFacts,           \* grants that may exist
    Methods,              \* how the principal signed in
    MostRetired,          \* bound: how many of them are taken out of service
    LastInstant           \* bound: instants are 0..LastInstant, two to a day

ASSUME RightsAssumption ==
    /\ LastInstant \in Nat /\ MostRetired \in Nat
    /\ Methods \subseteq {"oidc", "setup", "recovery"}
    /\ \A x \in Sections \cup Stations : SchoolOf[x] \in Schools
    /\ \A m \in MembershipFacts : m.at \in Schools /\ m.as \in {"student", "staff", "other"}
    /\ \A m \in SectionFacts : m.at \in Sections /\ m.as \in {"student", "teacher"}

VARIABLES
    instant, method,
    memberships, enrolments, grants,
    retired               \* archived schools and destinations, inactive sections

rightsVars == <<instant, method, memberships, enrolments, grants, retired>>

SystemAdminCapabilities ==
    {"organization.context.read", "pass.create.student", "pass.depart.student",
     "pass.approve.section", "pass.override.request.student", "pass.override.resolve.section",
     "pass.override.resolve.school", "pass.view.section_live", "pass.view.school_live",
     "pass.view.school_history", "scheduled_authorization.manage", "destination.station.manage",
     "destination.manage", "schedule.view", "schedule.manage", "people.view", "people.manage",
     "policy.manage", "authorization.manage", "integration.manage", "incident.view",
     "incident.manage", "audit.view", "identity.enroll", "identity.manage", "system.manage"}

OwnCapabilities == {"self.read", "pass.view.self", "pass.cancel.self", "pass.progress.self"}
StudentCapabilities == {"pass.request.self", "pass.override.request.self", "pass.depart.self"}
Capabilities == SystemAdminCapabilities \cup OwnCapabilities \cup StudentCapabilities

OfficeCapabilities ==
    {"pass.create.student", "pass.depart.student", "pass.view.school_live",
     "scheduled_authorization.manage", "pass.override.request.student",
     "pass.override.resolve.school"}

RoleCapabilities ==
    [counselor |-> OfficeCapabilities, office_staff |-> OfficeCapabilities,
     school_admin |-> SystemAdminCapabilities \ {"organization.context.read",
                          "pass.override.resolve.section", "identity.manage", "system.manage"}]

TeacherCapabilities ==
    {"pass.create.student", "pass.depart.student", "pass.approve.section",
     "pass.view.section_live", "pass.override.request.student", "pass.override.resolve.section"}

(* Which kinds of resource a capability is about. *)
KindsOf(capability) ==
    CASE capability \in OwnCapabilities -> {"self"}
      [] capability \in StudentCapabilities \cup {"pass.override.resolve.school"} -> {"student"}
      [] capability \in {"pass.create.student", "pass.depart.student",
                         "pass.override.request.student"} -> {"student", "student_in_section"}
      [] capability \in {"pass.approve.section", "pass.override.resolve.section"} ->
            {"student_in_section"}
      [] capability = "pass.view.section_live" -> {"section"}
      [] capability = "destination.station.manage" -> {"destination"}
      [] capability = "destination.manage" -> {"organization", "destination"}
      [] capability \in {"identity.manage", "system.manage"} -> {"tenant"}
      [] OTHER -> {"organization"}

Resources ==
    {[kind |-> "self"], [kind |-> "tenant"]}
    \cup {[kind |-> "organization", at |-> s] : s \in Schools}
    \cup {[kind |-> "section", at |-> x] : x \in Sections}
    \cup {[kind |-> "destination", at |-> d] : d \in Stations}
    \cup {[kind |-> "student", at |-> s, who |-> u] : s \in Schools, u \in {Me, Pupil}}
    \cup {[kind |-> "student_in_section", at |-> x, who |-> u] :
              x \in Sections, u \in {Me, Pupil}}

---------------------------------------------------------------------------
(* Facts in force.                                                         *)

Today == instant \div 2

GrantInForce(g) == g.from <= instant /\ instant < g.until
InForce(m) == m.from <= Today /\ Today <= m.until

Affiliated(person, school, as) ==
    \E m \in memberships : m.who = person /\ m.at = school /\ m.as = as /\ InForce(m)

Belongs(person, section, as) ==
    \E m \in enrolments : m.who = person /\ m.at = section /\ m.as = as /\ InForce(m)

IsStaff(school) == Affiliated(Me, school, "staff")

SystemAdmin == \E g \in grants : g.role = "system_admin" /\ GrantInForce(g)

(* An office is worth nothing without the membership that goes with it.     *)
Granted(role, at) == \E g \in grants : g.role = role /\ g.at = at /\ GrantInForce(g)
FaultyHolds(role, school) == Granted(role, school)   \* the membership has ended
Holds(role, school) == Granted(role, school) /\ IsStaff(school)

RoleAllows(capability, school) ==
    \E role \in DOMAIN RoleCapabilities :
        Holds(role, school) /\ capability \in RoleCapabilities[role]

AdminAllows(capability) == SystemAdmin /\ capability \in SystemAdminCapabilities

Teaches(section) == IsStaff(SchoolOf[section]) /\ Belongs(Me, section, "teacher")
Attends(station) == IsStaff(SchoolOf[station]) /\ Granted("destination_staff", station)

---------------------------------------------------------------------------
(* Decisions.                                                              *)

OrganizationAllows(capability, school) ==
    /\ school \notin retired
    /\ \/ AdminAllows(capability)
       \/ IF capability = "organization.context.read"
          THEN \E as \in {"student", "staff", "other"} : Affiliated(Me, school, as)
          ELSE RoleAllows(capability, school)

SectionAllows(capability, section) ==
    /\ section \notin retired /\ SchoolOf[section] \notin retired
    /\ AdminAllows(capability) \/ Holds("school_admin", SchoolOf[section]) \/ Teaches(section)

StudentAllows(capability, school, student) ==
    /\ school \notin retired
    /\ Affiliated(student, school, "student")
    /\ IF capability \in StudentCapabilities
       THEN student = Me
       ELSE AdminAllows(capability) \/ RoleAllows(capability, school)

(* A section never resurrects authority over someone who left the school.   *)
StudentInSectionAllows(capability, section, student) ==
    /\ section \notin retired /\ SchoolOf[section] \notin retired
    /\ Affiliated(student, SchoolOf[section], "student")
    /\ Belongs(student, section, "student")
    /\ AdminAllows(capability) \/ RoleAllows(capability, SchoolOf[section]) \/ Teaches(section)

DestinationAllows(capability, station) ==
    /\ station \notin retired /\ SchoolOf[station] \notin retired
    /\ \/ SystemAdmin \/ Holds("school_admin", SchoolOf[station])
       \/ capability = "destination.station.manage" /\ Attends(station)

(* Recovery is decided before any grant is looked at.                       *)
RecoveryAllows(capability) ==
    capability = "self.read" \/ (capability = "identity.manage" /\ SystemAdmin)

Allows(capability, r) ==
    /\ r.kind \in KindsOf(capability)
    /\ IF method = "recovery" THEN RecoveryAllows(capability)
       ELSE
       CASE r.kind = "self" -> TRUE
         [] r.kind = "tenant" -> SystemAdmin
         [] r.kind = "organization" -> OrganizationAllows(capability, r.at)
         [] r.kind = "section" -> SectionAllows(capability, r.at)
         [] r.kind = "student" -> StudentAllows(capability, r.at, r.who)
         [] r.kind = "student_in_section" -> StudentInSectionAllows(capability, r.at, r.who)
         [] OTHER -> DestinationAllows(capability, r.at)

Questions == {p \in Capabilities \X Resources : p[2].kind \in KindsOf(p[1])}
Rights == {p \in Questions : Allows(p[1], p[2])}

---------------------------------------------------------------------------
(* The context of a user: hints for the interface, per school.              *)

OrgCreateAllowed(school) ==
    SystemAdmin \/ \E role \in DOMAIN RoleCapabilities : Holds(role, school)

SchoolHints(school) ==
    {capability \in Capabilities : Allows(capability, [kind |-> "organization", at |-> school])}
    \cup {capability \in {"pass.create.student"} : OrgCreateAllowed(school)}
    \cup {capability \in {"pass.request.self", "pass.depart.self"} :
            Allows(capability, [kind |-> "student", at |-> school, who |-> Me])}

FaultyTeachingSections(school) ==                    \* the query's rows as they are
    {x \in Sections \ retired : SchoolOf[x] = school
        /\ \E m \in enrolments : m.who = Me /\ m.at = x /\ m.as = "teacher"}
TeachingSections(school) ==
    {x \in Sections \ retired : SchoolOf[x] = school /\ Teaches(x)}

StaffedDestinations(school) ==
    {d \in Stations \ retired : SchoolOf[d] = school /\ Attends(d)}

(* Recovery sessions are turned away before, and so is whoever may not read *)
(* the school's context at all.                                             *)
HasContext(school) ==
    /\ method # "recovery"
    /\ school \notin retired
    /\ "organization.context.read" \in SchoolHints(school)

---------------------------------------------------------------------------
(* The facts change under the decisions.                                   *)

RightsInit ==
    /\ instant = 0
    /\ method \in Methods
    /\ memberships = {} /\ enrolments = {} /\ grants = {}
    /\ retired = {}

(* Imported from the school's records. *)
Join(m) ==
    /\ m \notin memberships
    /\ memberships' = memberships \cup {m}
    /\ UNCHANGED <<instant, method, enrolments, grants, retired>>
Leave(m) ==
    /\ m \in memberships
    /\ memberships' = memberships \ {m}
    /\ UNCHANGED <<instant, method, enrolments, grants, retired>>
Enrol(m) ==
    /\ m \notin enrolments
    /\ enrolments' = enrolments \cup {m}
    /\ UNCHANGED <<instant, method, memberships, grants, retired>>
Drop(m) ==
    /\ m \in enrolments
    /\ enrolments' = enrolments \ {m}
    /\ UNCHANGED <<instant, method, memberships, grants, retired>>

(* An office is granted to active staff, at a destination in service.       *)
Grant(g) ==
    /\ g \notin grants /\ instant < g.until
    /\ g.role = "system_admin" \/
       (/\ \E s \in Schools : Affiliated(Me, s, "staff") /\ s = g.school
        /\ g.at \notin retired)
    /\ grants' = grants \cup {g}
    /\ UNCHANGED <<instant, method, memberships, enrolments, retired>>
Revoke(g) ==
    /\ g \in grants
    /\ grants' = grants \ {g}
    /\ UNCHANGED <<instant, method, memberships, enrolments, retired>>

Retire(x) ==
    /\ Cardinality(retired) < MostRetired
    /\ retired' = retired \cup {x}
    /\ UNCHANGED <<instant, method, memberships, enrolments, grants>>

InstantPasses ==
    /\ instant < LastInstant
    /\ instant' = instant + 1
    /\ UNCHANGED <<method, memberships, enrolments, grants, retired>>

RightsNext ==
    \/ \E m \in MembershipFacts : Join(m) \/ Leave(m)
    \/ \E m \in SectionFacts : Enrol(m) \/ Drop(m)
    \/ \E g \in GrantFacts : Grant(g) \/ Revoke(g)
    \/ \E x \in Schools \cup Sections \cup Stations : Retire(x)
    \/ InstantPasses

RightsSpec == RightsInit /\ [][RightsNext]_rightsVars

---------------------------------------------------------------------------
(* Properties.                                                             *)

SchoolOfResource(r) ==
    CASE r.kind \in {"organization", "student"} -> r.at
      [] OTHER -> SchoolOf[r.at]

(* A right over anybody or anything else is held by a tenant administrator  *)
(* or by today's staff of the school concerned, whatever grants and section *)
(* relationships are left over, and never in a recovery session.            *)
RightsHaveReasons ==
    \A p \in Rights :
        p[1] \in OwnCapabilities \cup StudentCapabilities \cup {"organization.context.read"}
        \/ SystemAdmin
        \/ (/\ method # "recovery" /\ p[2].kind \notin {"self", "tenant"}
            /\ IsStaff(SchoolOfResource(p[2])))

(* "using the same helpers as enforcement, so hints and enforcement cannot   *)
(* drift": what the interface offers is allowed when it is done.            *)
HintsAreEnforced ==
    \A s \in {x \in Schools : HasContext(x)} :
        /\ \A h \in SchoolHints(s) :
              (h = "pass.create.student" => Affiliated(Pupil, s, "student")) =>
                  \E r \in {q \in Resources : q.kind \in {"organization", "student"} /\ q.at = s} :
                      Allows(h, r)
        /\ \A x \in TeachingSections(s), h \in TeacherCapabilities :
              IF h = "pass.view.section_live"
              THEN Allows(h, [kind |-> "section", at |-> x])
              ELSE (Affiliated(Pupil, s, "student") /\ Belongs(Pupil, x, "student")) =>
                      Allows(h, [kind |-> "student_in_section", at |-> x, who |-> Pupil])
        /\ \A d \in StaffedDestinations(s) :
              Allows("destination.station.manage", [kind |-> "destination", at |-> d])

===============================================================================
