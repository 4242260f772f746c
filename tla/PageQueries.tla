------------------------------ MODULE PageQueries ------------------------------
(***************************************************************************)
(* What a page reads, and what a command tells of what it wrote.            *)
(*                                                                         *)
(* A page observes queries; a query is a GET of the API that its reader must *)
(* be entitled to, and selects from tables.  A command writes tables and     *)
(* appends outbox rows whose kind and payload decide which topics the hub    *)
(* gives to whom; the topics decide which queries a browser reads again.     *)
(* The two halves are written by hand, in packages that do not import each   *)
(* other.                                                                  *)
(*                                                                         *)
(* A read is the set of the tables whose rows it returns, counts or filters  *)
(* by; a table joined only for a name to display is left out, and so is one  *)
(* that no command writes.  "flow" stands for the rows of pass that are      *)
(* queued, ready or under way, "waiting" for those that an approval or an    *)
(* override waits on.                                                      *)
(***************************************************************************)
EXTENDS Naturals, Sequences

---------------------------------------------------------------------------
(* The reads of the repositories.                                          *)

PassRow == {"pass"}
LatestEvaluation == {"policy_evaluation"}
LivePassRows == {"pass", "destination_reservation"}
SectionRoster == {"section_membership"}
StationAggregates == {"destination", "flow", "destination_reservation", "queue_entry"}
QueuePosition == {"queue_entry"}
PendingApprovalViews == {"pass_approval", "waiting"}
PendingOverrideViews == {"pass_override", "waiting"}
CategoryRows == {"destination_category"}
LocationRows == {"location"}
DestinationRows == {"destination"}
TemplateSlots == {"schedule_slot"}
DayRows == {"calendar_day"}
GrantRows == {"authorization_grant"}
BookingRows == {"scheduled_authorization"}
PersonRows == {"account", "auth_identity"}
ActiveInvitation == {"identity_enrollment_grant"}
AuditRows == {"audit_event"}
MovementOfRow == {"destination_reservation", "queue_entry", "pass_event"}

---------------------------------------------------------------------------
(* The queries: who may read them, by a relationship or by a capability, and *)
(* what they read.                                                         *)

Query(needs, reads) == [needs |-> needs, reads |-> reads]

ActiveSelfPass ==
    Query({"self"}, PassRow \cup LatestEvaluation \cup {"pass_approval", "pass_override"}
                        \cup MovementOfRow)
QueueStatus == Query({"self"}, PassRow \cup QueuePosition)
Station == Query({"destination.station.manage"}, StationAggregates)
SchoolLive == Query({"pass.view.school_live"}, LivePassRows)
SectionLive == Query({"teaches"}, LivePassRows)
SectionStudents == Query({"teaches"}, SectionRoster)
PendingApprovals == Query({"teaches"}, PendingApprovalViews)
PendingOverrides ==
    Query({"teaches", "pass.override.resolve.school"}, PendingOverrideViews \cup DayRows)
Destinations == Query({"destination.manage"}, DestinationRows)
OneDestination == Query({"destination.manage"}, DestinationRows)
MemberDestinations == Query({"self", "teaches", "pass.create.student"}, DestinationRows)
StudentCatalog == Query({"self"}, CategoryRows \cup DestinationRows \cup LocationRows)
Categories == Query({"destination.manage"}, CategoryRows)
Locations == Query({"destination.manage"}, LocationRows)
ScheduleBlocks == Query({"schedule.view"}, {"schedule_block"})
Templates == Query({"schedule.view"}, {"schedule_template"} \cup TemplateSlots)
Calendar == Query({"schedule.view"}, DayRows)
Policies == Query({"policy.manage"}, {"policy_rule"})
OnePolicy == Query({"policy.manage"}, {"policy_rule"})
Grants == Query({"authorization.manage"}, GrantRows)
Bookings == Query({"scheduled_authorization.manage"}, BookingRows)
OwnBookings == Query({"self"}, BookingRows)
People == Query({"people.view"}, PersonRows)
Invitation == Query({"identity.enroll"}, ActiveInvitation)
AuditTrail == Query({"audit.view"}, AuditRows)

---------------------------------------------------------------------------
(* The pages: the queries each observes, by the key it caches them under.    *)
(* The organization's context is not among them: the loader of the school's  *)
(* route asks for it, and no component observes it.                        *)

StudentPage ==
    [active_self_pass |-> ActiveSelfPass, student_catalog |-> StudentCatalog,
     self_scheduled |-> OwnBookings, queue_status |-> QueueStatus]
RequestsPage == [pending_approvals |-> PendingApprovals, pending_overrides |-> PendingOverrides]
ClassPage ==
    [section_students |-> SectionStudents, section_live |-> SectionLive,
     destinations |-> MemberDestinations]
LiveMovementPage == [school_live |-> SchoolLive]
LiveMovementForm == [destinations |-> MemberDestinations]
StationPage == [station |-> Station]
DestinationsPage ==
    [destinations |-> Destinations, locations |-> Locations, destination_categories |-> Categories]
DestinationDetailPage ==
    [destination |-> OneDestination, locations |-> Locations,
     destination_categories |-> Categories]
AssignedStaff == [grants |-> Grants, people |-> People]
CategoriesDialog == [destination_categories |-> Categories, destinations |-> Destinations]
LocationsPage == [locations |-> Locations]
SchedulesPage ==
    [schedule_blocks |-> ScheduleBlocks, schedule_templates |-> Templates, schedule_calendar |-> Calendar]
PoliciesPage == [policies |-> Policies, destinations |-> Destinations]
PolicyDetailPage == [policy |-> OnePolicy, destinations |-> Destinations]
StaffAccessPage == [grants |-> Grants, people |-> People, destinations |-> Destinations]
ScheduledPassesPage ==
    [scheduled_admin |-> Bookings, destinations |-> Destinations, locations |-> Locations]
PeoplePage == [people |-> People, enrollment |-> Invitation]
AuditPage == [audit |-> AuditTrail]

Pages ==
    {StudentPage, RequestsPage, ClassPage, LiveMovementPage, LiveMovementForm, StationPage,
     DestinationsPage, DestinationDetailPage, AssignedStaff, CategoriesDialog, LocationsPage,
     SchedulesPage, PoliciesPage, PolicyDetailPage, StaffAccessPage, ScheduledPassesPage,
     PeoplePage, AuditPage}

(* What is on a screen: a query of a page, and what entitles its reader.     *)
Shown == UNION {UNION {{[key |-> k, by |-> n, reads |-> p[k].reads] : n \in p[k].needs}
                          : k \in DOMAIN p} : p \in Pages}

---------------------------------------------------------------------------
(* The commands: what each may write, and the outbox rows it appends: their *)
(* kind, and the fields of the payload that the hub looks at.  No pass event *)
(* carries the section it started from.                                    *)

Effect(writes, tells) == [writes |-> writes, tells |-> tells]
Then(x, y) == Effect(x.writes \cup y.writes, x.tells \o y.tells)
Pass(fields) == <<[kind |-> "pass", fields |-> {"studentId"} \cup fields]>>
Event(kind) == <<[kind |-> kind, fields |-> {}]>>

FlowRow == {"pass", "flow", "pass_event"}
PolicyDecided == Effect({"policy_evaluation"}, Pass({}))
Undecided == Effect({}, <<>>)
AsksTeacher == Effect({"pass_approval"}, Pass({"requiredSectionId"}))
Offered == Effect(FlowRow \cup {"destination_reservation"}, Pass({"destinationId"}))
Parked == Effect(FlowRow \cup {"queue_entry"}, Pass({"destinationId"}))
Refused == Effect({"pass", "pass_event"}, Pass({"destinationId"}))
Withdrawn == Effect({"waiting", "pass_approval", "pass_override"}, <<>>)
Moved == Effect(FlowRow, Pass({"destinationId"}))
Ended(allocation) == Then(Effect(FlowRow \cup allocation, Pass({"destinationId"})), Withdrawn)

Requested == Effect({"pass", "pass_event", "audit_event"}, Pass({"destinationId"}))
NewPass ==
    {Then(Then(Requested, PolicyDecided), e)
       : e \in {Undecided, AsksTeacher, Refused, Offered, Parked}}
Reevaluated(x) ==
    {Then(Then(x, PolicyDecided), Then(Effect({"pass_approval"}, <<>>), e))
       : e \in {Undecided, AsksTeacher, Then(Refused, Withdrawn), Offered, Parked}}
ApprovalResolved ==
    Effect({"pass", "waiting", "pass_event", "pass_approval", "audit_event"},
           Pass({"requiredSectionId"}))
OverrideChanged ==
    Effect({"pass", "waiting", "pass_event", "pass_override", "audit_event"}, Pass({}))
Promoted ==
    {Then(Effect({"policy_evaluation", "pass_approval", "queue_entry"}, Pass({})), e)
       : e \in {Offered, Moved, Then(AsksTeacher, Moved), Ended({})}}
Requeued == Then(Parked, Effect({"destination_reservation"}, <<>>))

Audited == Effect({"audit_event"}, <<>>)
EndedInFlow == {Ended({"destination_reservation"}), Ended({"queue_entry"})}

FaultyBooked ==                                    \* the kind as the table's name
    Effect({"scheduled_authorization", "audit_event"}, Event("scheduled_authorizations"))
Booked == Effect({"scheduled_authorization", "audit_event"}, Event("scheduled_authorization"))
Wrote(tables, kind) == {Effect({t, "audit_event"}, Event(kind)) : t \in tables}
WithAccount(effects) == effects \cup {Then(e, Effect({"account"}, <<>>)) : e \in effects}
Redeemed == Effect({"identity_enrollment_grant", "auth_identity"}, <<>>)

EffectsOf ==
    [request |-> NewPass,
     resolve_approval |-> Reevaluated(ApprovalResolved),
     override |-> Reevaluated(OverrideChanged),
     move |-> {Then(e, Audited) : e \in {Moved, Offered}},
     cancel |-> {Then(e, Audited) : e \in {Then(Refused, Withdrawn)} \cup EndedInFlow},
     reconcile |-> EndedInFlow \cup {Requeued} \cup Promoted,
     book |-> {Booked},
     start_booking |-> {Then(e, Booked) : e \in NewPass},
     edit_destination |-> Wrote({"destination"}, "destination"),
     edit_category |-> Wrote({"destination_category"}, "destination_category"),
     edit_location |-> Wrote({"location"}, "location"),
     edit_schedule |-> Wrote({"schedule_block", "schedule_template", "schedule_slot",
                              "calendar_day"}, "school_schedule"),
     edit_policy |-> Wrote({"policy_rule"}, "policy_rule"),
     grant |-> WithAccount(Wrote({"authorization_grant"}, "authorization_grant")),
     invite |-> WithAccount(Wrote({"identity_enrollment_grant"}, "identity_enrollment_grant")),
     redeem |-> {Redeemed}]
Commands == DOMAIN EffectsOf
Tables == UNION {UNION {e.writes : e \in EffectsOf[c]} : c \in Commands}

---------------------------------------------------------------------------
(* From the outbox to the cache.                                           *)

(* The topics of a loaded row that a subscriber hears of.  The outbox rows of *)
(* the schedule and of the categories have kinds that none of the branches   *)
(* knows.                                                                  *)
TopicsFor(event, holds) ==
    LET may(n, topics) == IF n \in holds THEN topics ELSE {}
        has(field) == field \in event.fields
    IN
    may("audit.view", {"audit"}) \cup
    CASE event.kind = "pass" ->
            may("self", {"self-pass"})
            \cup may("pass.view.school_live", {"school-live"})
            \cup may("teaches", {"section-live"})
            \cup (IF has("destinationId") THEN may("destination.station.manage", {"station"})
                  ELSE {})
            \cup (IF has("requiredSectionId") THEN may("teaches", {"requests"}) ELSE {})
      [] event.kind = "scheduled_authorization" ->
            may("self", {"self-scheduled"})
            \cup may("scheduled_authorization.manage", {"scheduled-passes"})
      [] event.kind = "destination" -> {"destinations"}
      [] event.kind \in {"schedule", "schedule_configuration", "calendar_day"} ->
            {"organization-context"} \cup may("schedule.view", {"schedule"})
      [] event.kind = "policy_rule" -> may("policy.manage", {"policies"})
      [] event.kind = "authorization_grant" ->
            {"organization-context"} \cup may("authorization.manage", {"staff-access"})
      [] event.kind = "identity_enrollment_grant" ->
            may("people.view", {"people"}) \cup may("identity.enroll", {"enrollment"})
      [] event.kind = "location" -> may("destination.manage", {"locations"})
      [] OTHER -> {}

QueriesOf(topic) ==
    CASE topic = "self-pass" -> {"active_self_pass"}
      [] topic = "self-scheduled" -> {"self_scheduled"}
      [] topic = "organization-context" -> {"organization_context"}
      [] topic = "requests" -> {"pending_approvals", "pending_overrides"}
      [] topic = "school-live" -> {"school_live"}
      [] topic = "section-live" -> {"section_live"}
      [] topic = "schedule" -> {"schedule_blocks", "schedule_templates", "schedule_calendar"}
      [] topic = "staff-access" -> {"grants"}
      [] topic = "scheduled-passes" -> {"scheduled_admin"}
      [] OTHER -> {topic}

(* What nobody is told of, by query: the commands after which it stays as it *)
(* was until it is read again for another reason.                          *)
Untold ==
    [pending_approvals |-> {"override", "cancel", "reconcile"},
     pending_overrides |-> {"resolve_approval", "override", "cancel", "reconcile", "edit_schedule"},
     station |-> {"edit_destination"},
     student_catalog |-> {"edit_category", "edit_destination", "edit_location"},
     queue_status |-> {"request", "resolve_approval", "override", "move", "cancel", "reconcile",
                       "start_booking"},
     destination |-> {"edit_destination"},
     destination_categories |-> {"edit_category"},
     policy |-> {"edit_policy"},
     schedule_blocks |-> {"edit_schedule"},
     schedule_templates |-> {"edit_schedule"},
     schedule_calendar |-> {"edit_schedule"},
     people |-> {"grant", "redeem"},
     enrollment |-> {"redeem"}]
IsUntold(command, key) == key \in DOMAIN Untold /\ command \in Untold[key]

(* Each of them is real: some effect of the command changes what the query   *)
(* reads, and none of its rows leads to it.                                *)
Hears(effect, shown) ==
    UNION {QueriesOf(t) : t \in UNION {TopicsFor(effect.tells[i], {shown.by})
                                         : i \in DOMAIN effect.tells}}
GapsAreReal ==
    \A key \in DOMAIN Untold : \A command \in Untold[key] :
        \E shown \in Shown, effect \in EffectsOf[command] :
            /\ shown.key = key /\ effect.writes \cap shown.reads # {}
            /\ key \notin Hears(effect, shown)

===============================================================================
