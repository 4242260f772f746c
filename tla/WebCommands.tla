----------------------------- MODULE WebCommands -----------------------------
(***************************************************************************)
(* The commands the pages of the web application send (apps/web/src/         *)
(* features), by page: the operation, whether the page makes an               *)
(* Idempotency-Key, where its If-Match comes from, and what "Check again"      *)
(* does after a request or an answer was lost.                                *)
(*                                                                         *)
(*   revision  "none"    the command names no revision                        *)
(*             "cached"  the ETag of the resource in the query cache          *)
(*             "fetched" the resource is read for its ETag, just before       *)
(*             "listed"  the ETag in the row of the list the user clicked on   *)
(*   again     "same"    key, body and If-Match of the first attempt           *)
(*             "reread"  its key, and the ETag read once more                  *)
(*             "remade"  a new key, and the ETag of that moment                *)
(*             "none"    the page offers no repetition                        *)
(***************************************************************************)
EXTENDS ApiRoutes

Sends(ops, revision, again) ==
    {[op |-> o, key |-> TRUE, revision |-> revision, again |-> again, code |-> "none"] : o \in ops}

(* The student's page keeps one logical command per intent. *)
StudentCommands ==
    Sends({"requestMyPass"}, "none", "same")
    \cup Sends({"departMyPass", "arriveMyPass", "returnMyPass", "completeMyPass"}, "cached", "same")
StudentStarts ==
    Sends({"startMyScheduledAuthorization"}, "listed", "same")
    \cup Sends({"requestMyPassOverride"}, "cached", "same")

(* Staff act on the rows of a list. *)
RequestsCommands ==
    Sends({"approvePassApproval", "denyPassApproval", "approvePassOverride", "denyPassOverride"},
          "listed", "same")
ClassCommands ==
    Sends({"requestStudentPass"}, "none", "same") \cup Sends({"departStudentPass"}, "listed", "same")
MovementCommands == Sends({"requestStudentPass"}, "none", "same")
StationCommands ==
    Sends({"stationCheckInPass", "stationBeginReturnPass", "stationCompletePass"}, "listed", "none")

(* Administration. *)
LocationCommands ==
    Sends({"createLocation"}, "none", "remade")
    \cup Sends({"updateLocation", "archiveLocation"}, "cached", "remade")
DestinationListCommands ==
    Sends({"createDestination"}, "none", "remade")
    \cup Sends({"openDestination", "closeDestination"}, "fetched", "remade")
    \cup Sends({"archiveDestination"}, "fetched", "reread")
DestinationPageCommands ==
    Sends({"updateDestination", "openDestination", "closeDestination", "archiveDestination"},
          "cached", "none")
AssignedStaffCommands ==
    Sends({"issueAuthorizationGrant"}, "none", "same")
    \cup Sends({"revokeAuthorizationGrant"}, "fetched", "reread")
FaultyCategoryCommands ==                              \* a change sent like a new row
    Sends({"createDestinationCategory", "updateDestinationCategory"}, "none", "same")
CategoryCommands ==
    Sends({"createDestinationCategory"}, "none", "same")
    \cup Sends({"updateDestinationCategory", "archiveDestinationCategory"}, "fetched", "reread")
PolicyListCommands == Sends({"createPolicyRule"}, "none", "same")
PolicyPageCommands ==
    Sends({"updatePolicyRule", "activatePolicyRule", "deactivatePolicyRule", "archivePolicyRule"},
          "cached", "same")
ScheduleCommands ==
    Sends({"createScheduleBlock", "createScheduleTemplate", "updateScheduleCalendar"},
          "cached", "none")
ScheduledPassesCommands ==
    Sends({"createScheduledAuthorization"}, "none", "same")
    \cup Sends({"cancelScheduledAuthorization"}, "fetched", "reread")
StaffAccessCommands ==
    Sends({"issueAuthorizationGrant"}, "none", "same")
    \cup Sends({"revokeAuthorizationGrant"}, "fetched", "reread")
PeopleCommands ==
    Sends({"issueIdentityEnrollment"}, "none", "none")
    \cup Sends({"revokeIdentityEnrollment"}, "cached", "none")

SchoolCommands ==
    StudentCommands \cup StudentStarts \cup RequestsCommands \cup ClassCommands
    \cup MovementCommands \cup StationCommands \cup LocationCommands
    \cup DestinationListCommands \cup DestinationPageCommands \cup AssignedStaffCommands
    \cup CategoryCommands \cup PolicyListCommands \cup PolicyPageCommands \cup ScheduleCommands
    \cup ScheduledPassesCommands \cup StaffAccessCommands \cup PeopleCommands

(* The commands about the account carry a token or a one-time code, and       *)
(* no key.                                                                   *)
Bare(op, code) == [op |-> op, key |-> FALSE, revision |-> "none", again |-> "none", code |-> code]
SignOutCommands == {Bare("logout", "none"), Bare("logoutAll", "none")}
SetupCommands == {Bare("validateBootstrap", "Bootstrap"), Bare("initializeBootstrap", "Bootstrap"),
                  Bare("prepareSetupIdentityProvider", "none"),
                  Bare("consumeRecoveryGrant", "Recovery")}
EnrollCommand == Bare("startIdentityEnrollment", "Enrollment")

Carries(c) == [key |-> c.key, match |-> c.revision # "none", code |-> c.code]
==============================================================================
