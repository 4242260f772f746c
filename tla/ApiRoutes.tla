------------------------------ MODULE ApiRoutes ------------------------------
(***************************************************************************)
(* The operations of the HTTP API (apps/api/src/routes), and what a request  *)
(* must bring before the use case behind the route runs: a session, the       *)
(* session's CSRF token, an Idempotency-Key, the ETag of the revision the      *)
(* user saw (If-Match), or a one-time code in the Authorization header.        *)
(*                                                                         *)
(* Commands ask for session and token before they look at the request, so      *)
(* that a caller without a session is always told 401.  The HTTP contract       *)
(* leaves If-Match optional: `match' says that the use case answers 428          *)
(* without it.                                                                 *)
(***************************************************************************)
EXTENDS Integers

Nothing == [op |-> "", session |-> FALSE, csrf |-> FALSE, key |-> FALSE, match |-> FALSE,
            code |-> "none"]
Public(ops) == {[Nothing EXCEPT !.op = o] : o \in ops}
Read(ops) == {[r EXCEPT !.session = TRUE] : r \in Public(ops)}
(* Account commands have no envelope: no key and no revision. *)
Account(ops) == {[r EXCEPT !.csrf = TRUE] : r \in Read(ops)}
Create(ops) == {[r EXCEPT !.key = TRUE] : r \in Account(ops)}
Change(ops) == {[r EXCEPT !.match = TRUE] : r \in Create(ops)}
WithCode(ops, scheme) == {[r EXCEPT !.code = scheme] : r \in Public(ops)}

------------------------------------------------------------------------------
(* Sign-in and the session. *)
SessionReads == Public({"getAuthSession", "getAuthDiscovery"}) \cup Read({"getMe"})
SignInStarts == Public({"startOidcLogin"}) \cup WithCode({"startIdentityEnrollment"}, "Enrollment")
SignInCallback == Public({"completeOidcLogin"})
SignOuts == Account({"logout", "logoutAll"})
RecoveryRoutes == WithCode({"consumeRecoveryGrant"}, "Recovery")

(* Installing a school. *)
BootstrapStarts == Public({"getBootstrapStatus"}) \cup WithCode({"prepareBootstrap"}, "Bootstrap")
BootstrapSteps == WithCode({"validateBootstrap", "initializeBootstrap"}, "Bootstrap")
SetupRoutes == Account({"prepareSetupIdentityProvider"})

(* Passes, their approvals and overrides, and movement. *)
PassRequests == Create({"requestMyPass", "requestStudentPass"})
ActivePassRead == Read({"getMyActivePass"})
PassCancellation == Change({"cancelMyPass"})
ApprovalRoutes == Read({"listMyPendingPassApprovals"})
                      \cup Change({"approvePassApproval", "denyPassApproval"})
OverrideRequests == Change({"requestMyPassOverride", "requestStudentPassOverride"})
OverrideRoutes == Read({"listMyPendingPassOverrides"})
                      \cup Change({"approvePassOverride", "denyPassOverride"})
MovementRoutes == Change({"departMyPass", "departStudentPass", "arriveMyPass", "returnMyPass",
                          "completeMyPass"})
StationRoutes == Change({"stationCheckInPass", "stationBeginReturnPass", "stationCompletePass"})
MovementReads == Read({"getMyPassQueueStatus", "getDestinationStation"})
LivePassReads == Read({"listSectionLivePasses", "listSectionStudents", "listSchoolLivePasses"})
BookingStarts == Read({"listMyScheduledAuthorizations"})
                     \cup Change({"startMyScheduledAuthorization"})

(* The school's configuration.  Creating a block or a template changes the    *)
(* schedule, so it names the schedule's revision; creating a policy rule has   *)
(* the headers of a change in its contract, and needs no revision.             *)
LocationRoutes == Read({"listLocations", "getLocation"}) \cup Create({"createLocation"})
LocationChanges == Change({"updateLocation", "archiveLocation"})
DestinationRoutes == Read({"listDestinations", "getDestination"}) \cup Create({"createDestination"})
DestinationChanges == Change({"updateDestination", "openDestination", "closeDestination",
                              "archiveDestination"})
MyDestinations == Read({"listMyDestinations"})
CategoryRoutes == Read({"listDestinationCategories", "getDestinationCategory"})
                      \cup Create({"createDestinationCategory"})
CategoryChanges == Change({"updateDestinationCategory", "archiveDestinationCategory"})
CatalogRead == Read({"listMyStudentDestinationCatalog"})
ScheduleReads == Read({"listScheduleBlocks", "listScheduleTemplates", "getScheduleCalendar"})
BlockRoutes == Change({"createScheduleBlock", "updateScheduleBlock", "archiveScheduleBlock"})
TemplateRoutes == Change({"createScheduleTemplate", "updateScheduleTemplate",
                          "archiveScheduleTemplate"})
CalendarRoutes == Change({"updateScheduleCalendar"})
PolicyRoutes == Read({"listPolicyRules", "getPolicyRule"}) \cup Create({"createPolicyRule"})
PolicyChanges == Change({"updatePolicyRule", "activatePolicyRule", "deactivatePolicyRule",
                         "archivePolicyRule"})
GrantRoutes == Read({"listAuthorizationGrants", "getAuthorizationGrant"})
                   \cup Create({"issueAuthorizationGrant"})
GrantChanges == Change({"revokeAuthorizationGrant"})
InvitationRoutes == Read({"getIdentityEnrollmentStatus"}) \cup Create({"issueIdentityEnrollment"})
InvitationChanges == Change({"revokeIdentityEnrollment"})
BookingRoutes == Read({"listScheduledAuthorizations", "getScheduledAuthorization"})
                     \cup Create({"createScheduledAuthorization"})
BookingChanges == Change({"cancelScheduledAuthorization"}) \cup Read({"listScheduledStudents"})
PeopleReads == Read({"searchOrganizationPeople", "searchOrganizationSections"})
AuditRead == Read({"listAuditEvents"})
MeReads == Read({"listMyOrganizations", "getMyOrganizationContext"})
EventStream == Read({"streamOrganizationEvents"})
SystemReads == Public({"getLiveness", "getReadiness"})
DemoRoutes == Public({"getDemo", "startDemoSession"})      \* only in a local demo

Routes ==
    SessionReads \cup SignInStarts \cup SignInCallback \cup SignOuts \cup RecoveryRoutes
    \cup BootstrapStarts \cup BootstrapSteps \cup SetupRoutes \cup PassRequests
    \cup ActivePassRead \cup PassCancellation \cup ApprovalRoutes \cup OverrideRequests
    \cup OverrideRoutes \cup MovementRoutes \cup StationRoutes \cup MovementReads
    \cup LivePassReads \cup BookingStarts \cup LocationRoutes \cup LocationChanges
    \cup DestinationRoutes \cup DestinationChanges \cup MyDestinations \cup CategoryRoutes
    \cup CategoryChanges \cup CatalogRead \cup ScheduleReads \cup BlockRoutes
    \cup TemplateRoutes \cup CalendarRoutes \cup PolicyRoutes \cup PolicyChanges
    \cup GrantRoutes \cup GrantChanges \cup InvitationRoutes \cup InvitationChanges
    \cup BookingRoutes \cup BookingChanges \cup PeopleReads \cup AuditRead \cup MeReads
    \cup EventStream \cup SystemReads \cup DemoRoutes

RouteOf(op) == CHOOSE r \in Routes : r.op = op

------------------------------------------------------------------------------
(* What a request meets on its way to the use case.  `principal' is the        *)
(* session its cookie resolves to, `token' the session whose CSRF token it      *)
(* carries; 0 stands for none.                                                 *)

FaultyRequireCsrf(route, principal, token) == TRUE            \* any token will do
RequirePrincipal(route, principal) == route.session => principal # 0
RequireCsrf(route, principal, token) == route.csrf => token = principal
BringsCode(route, has) == route.code = "none" \/ route.code = has.code
KeepsContract(route, has) == route.key => has.key

Admission(route, principal, token, has) ==
    IF ~ RequirePrincipal(route, principal) \/ ~ BringsCode(route, has) THEN 401
    ELSE IF ~ RequireCsrf(route, principal, token) THEN 403
    ELSE IF ~ KeepsContract(route, has) THEN 400
    ELSE IF route.match /\ ~ has.match THEN 428
    ELSE 200
==============================================================================
