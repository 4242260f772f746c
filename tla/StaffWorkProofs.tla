-------------------------- MODULE StaffWorkProofs --------------------------
(***************************************************************************)
(* Theorems about what staff may do and what they book for students.         *)
(*                                                                         *)
(* Rights: in every state, not only the reachable ones, a right over others  *)
(* has a reason, and a hint the application gives is honoured when it is     *)
(* acted on.                                                                *)
(*                                                                         *)
(* Bookings: a booking moves its student at most once, and a start that has  *)
(* its row decides alone.  The count of a booking follows from the WHERE     *)
(* clause of every write and the types alone.  That a start decides alone    *)
(* needs what it holds: the row from its lock to its commit, and the unique  *)
(* index on live passes from its insert to its commit.                       *)
(***************************************************************************)
EXTENDS ScheduledAuthorization, Authorization, TLAPS

(* Rights. *)

(* The capabilities that are about oneself, and only they.                 *)
LEMMA SelfIsOwn ==
    ASSUME NEW capability, "self" \in KindsOf(capability)
    PROVE  capability \in OwnCapabilities
BY DEF KindsOf

(* The kinds of the capabilities of teachers, stations and the office.      *)
LEMMA KindsOfDuties ==
    /\ "section" \in KindsOf("pass.view.section_live")
    /\ "destination" \in KindsOf("destination.station.manage")
    /\ "student" \in KindsOf("pass.create.student")
    /\ \A h \in TeacherCapabilities \ {"pass.view.section_live"} : "student_in_section" \in KindsOf(h)
<1>1. "section" \in KindsOf("pass.view.section_live")
  BY DEF KindsOf, OwnCapabilities, StudentCapabilities
<1>2. "destination" \in KindsOf("destination.station.manage")
  BY DEF KindsOf, OwnCapabilities, StudentCapabilities
<1>3. "student" \in KindsOf("pass.create.student")
  BY DEF KindsOf, OwnCapabilities, StudentCapabilities
<1>4. \A h \in TeacherCapabilities \ {"pass.view.section_live"} : "student_in_section" \in KindsOf(h)
  BY DEF KindsOf, OwnCapabilities, StudentCapabilities, TeacherCapabilities
<1> QED
  BY <1>1, <1>2, <1>3, <1>4

(* Every office may create passes for students.                            *)
LEMMA OfficesCreate ==
    /\ \A role \in DOMAIN RoleCapabilities : "pass.create.student" \in RoleCapabilities[role]
    /\ "pass.create.student" \in SystemAdminCapabilities
    /\ "pass.create.student" \notin StudentCapabilities
BY DEF RoleCapabilities, OfficeCapabilities, SystemAdminCapabilities, StudentCapabilities

(* In every state, a right over others has a reason.                       *)
LEMMA RightsHaveReasonsNow == RightsHaveReasons
<1> SUFFICES ASSUME NEW p \in Rights,
                    p[1] \notin OwnCapabilities \cup StudentCapabilities \cup {"organization.context.read"}
             PROVE  SystemAdmin \/ (/\ method # "recovery" /\ p[2].kind \notin {"self", "tenant"}
                                    /\ IsStaff(SchoolOfResource(p[2])))
  BY DEF RightsHaveReasons
<1> DEFINE capability == p[1]
           r == p[2]
<1>1. Allows(capability, r)
  BY DEF Rights
<1> HIDE DEF capability, r
<1>2. capability \notin OwnCapabilities /\ capability \notin StudentCapabilities
      /\ capability # "organization.context.read"
  BY DEF capability
<1>3. r.kind # "self"
  BY <1>1, <1>2, SelfIsOwn DEF Allows
<1>4. \A s : RoleAllows(capability, s) => IsStaff(s)
  BY DEF RoleAllows, Holds
<1>5. CASE method = "recovery"
  <2>1. RecoveryAllows(capability)
    BY <1>1, <1>5 DEF Allows
  <2>2. capability # "self.read"
    BY <1>2 DEF OwnCapabilities
  <2> QED
    BY <2>1, <2>2 DEF RecoveryAllows
<1>6. CASE method # "recovery" /\ r.kind = "tenant"
  BY <1>1, <1>6 DEF Allows, capability, r
<1>7. CASE method # "recovery" /\ r.kind = "organization"
  <2>1. OrganizationAllows(capability, r.at) /\ SchoolOfResource(r) = r.at
    BY <1>1, <1>7 DEF Allows, SchoolOfResource
  <2> QED
    BY <1>2, <1>4, <1>7, <2>1 DEF OrganizationAllows, AdminAllows, capability, r
<1>8. CASE method # "recovery" /\ r.kind = "student"
  <2>1. StudentAllows(capability, r.at, r.who) /\ SchoolOfResource(r) = r.at
    BY <1>1, <1>8 DEF Allows, SchoolOfResource
  <2> QED
    BY <1>2, <1>4, <1>8, <2>1 DEF StudentAllows, AdminAllows, capability, r
<1>9. CASE method # "recovery" /\ r.kind \notin {"tenant", "organization", "student"}
  <2>1. SchoolOfResource(r) = SchoolOf[r.at]
    BY <1>9 DEF SchoolOfResource
  <2>2. \/ SectionAllows(capability, r.at) \/ StudentInSectionAllows(capability, r.at, r.who)
        \/ DestinationAllows(capability, r.at)
    BY <1>1, <1>3, <1>9 DEF Allows
  <2>3. SystemAdmin \/ IsStaff(SchoolOf[r.at])
    BY <1>4, <2>2 DEF SectionAllows, StudentInSectionAllows, DestinationAllows, AdminAllows,
                      Holds, Teaches, Attends
  <2> QED
    BY <1>3, <1>9, <2>1, <2>3 DEF r
<1> QED
  BY <1>5, <1>6, <1>7, <1>8, <1>9

(* In every state, what is offered is allowed.                             *)
LEMMA HintsAreEnforcedNow == HintsAreEnforced
<1> SUFFICES ASSUME NEW s \in Schools, HasContext(s)
             PROVE  /\ \A h \in SchoolHints(s) :
                          (h = "pass.create.student" => Affiliated(Pupil, s, "student")) =>
                              \E r \in {q \in Resources : q.kind \in {"organization", "student"} /\ q.at = s} :
                                  Allows(h, r)
                    /\ \A x \in TeachingSections(s), h \in TeacherCapabilities :
                          IF h = "pass.view.section_live"
                          THEN Allows(h, [kind |-> "section", at |-> x])
                          ELSE (Affiliated(Pupil, s, "student") /\ Belongs(Pupil, x, "student")) =>
                                  Allows(h, [kind |-> "student_in_section", at |-> x, who |-> Pupil])
                    /\ \A d \in StaffedDestinations(s) :
                          Allows("destination.station.manage", [kind |-> "destination", at |-> d])
  BY DEF HintsAreEnforced
<1>0. method # "recovery" /\ s \notin retired
  BY DEF HasContext
<1>1. ASSUME NEW h \in SchoolHints(s), h = "pass.create.student" => Affiliated(Pupil, s, "student")
      PROVE  \E r \in {q \in Resources : q.kind \in {"organization", "student"} /\ q.at = s} :
                Allows(h, r)
  <2> DEFINE school == [kind |-> "organization", at |-> s]
             me == [kind |-> "student", at |-> s, who |-> Me]
             pupil == [kind |-> "student", at |-> s, who |-> Pupil]
  <2>1. {school, me, pupil} \subseteq {q \in Resources : q.kind \in {"organization", "student"} /\ q.at = s}
    BY DEF Resources
  <2>2. CASE Allows(h, school)
    BY <2>1, <2>2
  <2>3. CASE h = "pass.create.student" /\ OrgCreateAllowed(s)
    <3>1. AdminAllows(h) \/ RoleAllows(h, s)
      BY <2>3, OfficesCreate DEF OrgCreateAllowed, AdminAllows, RoleAllows
    <3>2. StudentAllows(h, s, Pupil)
      BY <1>0, <1>1, <2>3, <3>1, OfficesCreate DEF StudentAllows
    <3>3. Allows(h, pupil)
      BY <1>0, <2>3, <3>2, KindsOfDuties DEF Allows
    <3> QED
      BY <2>1, <3>3
  <2>4. CASE Allows(h, me)
    BY <2>1, <2>4
  <2> QED
    BY <2>2, <2>3, <2>4 DEF SchoolHints
<1>2. ASSUME NEW x \in TeachingSections(s), NEW h \in TeacherCapabilities
      PROVE  IF h = "pass.view.section_live"
             THEN Allows(h, [kind |-> "section", at |-> x])
             ELSE (Affiliated(Pupil, s, "student") /\ Belongs(Pupil, x, "student")) =>
                     Allows(h, [kind |-> "student_in_section", at |-> x, who |-> Pupil])
  <2>1. x \notin retired /\ SchoolOf[x] = s /\ Teaches(x)
    BY DEF TeachingSections
  <2>2. CASE h = "pass.view.section_live"
    BY <1>0, <2>1, <2>2, KindsOfDuties DEF Allows, SectionAllows
  <2>3. ASSUME h # "pass.view.section_live", Affiliated(Pupil, s, "student"), Belongs(Pupil, x, "student")
        PROVE  Allows(h, [kind |-> "student_in_section", at |-> x, who |-> Pupil])
    <3>1. StudentInSectionAllows(h, x, Pupil)
      BY <1>0, <2>1, <2>3 DEF StudentInSectionAllows
    <3> QED
      BY <1>0, <2>3, <3>1, KindsOfDuties DEF Allows
  <2> QED
    BY <2>2, <2>3
<1>3. ASSUME NEW d \in StaffedDestinations(s)
      PROVE  Allows("destination.station.manage", [kind |-> "destination", at |-> d])
  <2>1. d \notin retired /\ SchoolOf[d] = s /\ Attends(d)
    BY <1>3 DEF StaffedDestinations
  <2> QED
    BY <1>0, <2>1, KindsOfDuties DEF Allows, DestinationAllows
<1> QED
  BY <1>1, <1>2, <1>3

(* A right over anybody or anything else is held by a tenant administrator  *)
(* or by today's staff of the school concerned, whatever grants and section *)
(* relationships are left over, and never in a recovery session.            *)
THEOREM RightsAreReasoned == RightsSpec => []RightsHaveReasons
BY RightsHaveReasonsNow, PTL

(* What the interface offers is allowed when it is done: the hints of the   *)
(* user's context are computed from what enforcement decides by.            *)
THEOREM HintsAreHonoured == RightsSpec => []HintsAreEnforced
BY HintsAreEnforcedNow, PTL

-----------------------------------------------------------------------------
(* Bookings. *)

---------------------------------------------------------------------------
(* Types.                                                                  *)

(* A call in progress is a call record; an idle one is told from it. *)
LEMMA BusyCalls ==
    ASSUME call \in [Calls -> CallRecords \cup {NoCall}], NEW c \in Calls, Busy(c)
    PROVE  call[c] \in CallRecords
BY DEF Busy

(* Moving a call to a stage keeps the type of the calls, its other fields   *)
(* and the other calls.                                                     *)
LEMMA ToStageKeepsCalls ==
    ASSUME call \in [Calls -> CallRecords \cup {NoCall}], NEW c \in Calls, Busy(c),
           NEW stage \in CallStages, ToStage(c, stage)
    PROVE  /\ call' \in [Calls -> CallRecords \cup {NoCall}]
           /\ call'[c] # NoCall
           /\ call'[c].op = call[c].op /\ call'[c].of = call[c].of
           /\ call'[c].at = call[c].at /\ call'[c].rev = call[c].rev
           /\ call'[c].stage = stage
           /\ \A other \in Calls \ {c} : call'[other] = call[other]
<1>1. call[c] \in CallRecords
  BY BusyCalls
<1>2. call'[c] = [call[c] EXCEPT !.stage = stage]
  BY DEF ToStage
<1>3. call'[c] \in CallRecords
  BY <1>1, <1>2 DEF CallRecords
<1>4. /\ call'[c].op = call[c].op /\ call'[c].of = call[c].of
      /\ call'[c].at = call[c].at /\ call'[c].rev = call[c].rev
      /\ call'[c].stage = stage
  BY <1>1, <1>2 DEF CallRecords
<1>5. call'[c] # NoCall
  BY <1>1, <1>4 DEF CallRecords, NoCall, Operations
<1> QED
  BY <1>3, <1>4, <1>5 DEF ToStage

(* The end of a call keeps the type of the calls and the other calls. *)
LEMMA EndCallKeepsCalls ==
    ASSUME call \in [Calls -> CallRecords \cup {NoCall}], NEW c \in Calls, EndCall(c)
    PROVE  /\ call' \in [Calls -> CallRecords \cup {NoCall}]
           /\ call'[c] = NoCall
           /\ \A other \in Calls \ {c} : call'[other] = call[other]
BY DEF EndCall

(* Every action is one of five kinds by what it does to the calls. *)
LEMMA CallsMoveOn ==
    ASSUME call \in [Calls -> CallRecords \cup {NoCall}], NEW c \in Calls,
           Progress(c) \/ CallFails(c)
    PROVE  /\ Busy(c)
           /\ EndCall(c) \/ \E stage \in CallStages : ToStage(c, stage)
BY DEF Progress, CallFails, BeginTransaction, CheckBooking, InsertBooking, CancelBooking,
       LockForStart, ResolvePlacement, CreatesPass, CommitStart, InStage, CallStages

(* The call sent is a call record. *)
LEMMA SentIsTyped ==
    ASSUME ScheduledTypeOK, NEW c \in Calls, NEW op \in Operations, NEW a \in Bookings,
           Send(c, op, a)
    PROVE  ScheduledTypeOK'
<1>1. [op |-> op, of |-> a, at |-> minute, rev |-> booking[a].rev, stage |-> "sent"]
         \in CallRecords
  BY DEF ScheduledTypeOK, CallRecords, CallStages, Bookables
<1> QED
  BY <1>1 DEF ScheduledTypeOK, Send

(* The call of a step in progress is of some booking. *)
LEMMA CallIsOfABooking ==
    ASSUME ScheduledTypeOK, NEW c \in Calls, Busy(c)
    PROVE  /\ call[c].of \in Bookings /\ call[c].at \in Nat /\ call[c].rev \in Nat
           /\ TravellerOf[call[c].of] \in Travellers
BY BusyCalls, BookingAssumption DEF ScheduledTypeOK, CallRecords

(* A row with one field set is a row. *)
LEMMA OneFieldSet ==
    ASSUME NEW b \in Bookables, minute \in Nat
    PROVE  /\ \A st \in BookingStates : [b EXCEPT !.status = st] \in Bookables
           /\ [b EXCEPT !.rev = @ + 1] \in Bookables
           /\ [b EXCEPT !.started = @ + 1] \in Bookables
           /\ [b EXCEPT !.denied = @ + 1] \in Bookables
           /\ [b EXCEPT !.startedAt = minute] \in Bookables
BY DEF Bookables

(* What the writes make of a row is a row. *)
LEMMA WrittenRows ==
    ASSUME NEW b \in Bookables, minute \in Nat
    PROVE  /\ [b EXCEPT !.status = "cancelled", !.rev = @ + 1] \in Bookables
           /\ [b EXCEPT !.status = "used", !.rev = @ + 1, !.started = @ + 1,
                         !.startedAt = minute] \in Bookables
           /\ [b EXCEPT !.rev = @ + 1, !.denied = @ + 1] \in Bookables
<1> DEFINE off == [b EXCEPT !.status = "cancelled"]
           used == [b EXCEPT !.status = "used"]
           tried == [b EXCEPT !.rev = @ + 1]
           stale == [used EXCEPT !.rev = @ + 1]
           counted == [stale EXCEPT !.started = @ + 1]
<1>1. off \in Bookables /\ used \in Bookables /\ tried \in Bookables
  BY OneFieldSet DEF BookingStates
<1> HIDE DEF off, used, tried
<1>2. [off EXCEPT !.rev = @ + 1] \in Bookables /\ stale \in Bookables
  BY <1>1, OneFieldSet
<1> HIDE DEF stale
<1>3. counted \in Bookables
  BY <1>2, OneFieldSet
<1> HIDE DEF counted
<1>4. [tried EXCEPT !.denied = @ + 1] \in Bookables
      /\ [counted EXCEPT !.startedAt = minute] \in Bookables
  BY <1>1, <1>3, OneFieldSet
<1> QED
  BY <1>2, <1>4, Zenon DEF off, used, tried, stale, counted

(* A row written by a booking, a cancellation or a start is a row.  *)
LEMMA RowsStayRows ==
    ASSUME ScheduledTypeOK, NEW c \in Calls, Progress(c)
    PROVE  booking' \in [Bookings -> Bookables]
<1> USE BookingAssumption DEF ScheduledTypeOK
<1> DEFINE a == call[c].of
<1>0. Busy(c) /\ a \in Bookings
  BY CallsMoveOn, CallIsOfABooking
<1>1. CASE InsertBooking(c)
  <2>1. PICK w \in Windows :
          booking' = [booking EXCEPT ![call[c].of] = [NoBooking EXCEPT
                          !.status = "active", !.rev = 1, !.window = w]]
    BY <1>1 DEF InsertBooking
  <2>2. [NoBooking EXCEPT !.status = "active", !.rev = 1, !.window = w] \in Bookables
    BY DEF NoBooking, Bookables, BookingStates
  <2> QED
    BY <2>1, <2>2
<1>2. CASE CancelBooking(c)
  <2>1. booking' = [booking EXCEPT ![a] = [booking[a] EXCEPT !.status = "cancelled",
                                                              !.rev = @ + 1]]
    BY <1>0, <1>2 DEF CancelBooking, Bookables
  <2> QED
    BY <1>0, <2>1, WrittenRows
<1>3. CASE CommitStart(c)
  <2>1. CASE MarkUsed(a)
    <3>1. booking' = [booking EXCEPT ![a] =
            [booking[a] EXCEPT !.status = "used", !.rev = @ + 1, !.started = @ + 1,
                               !.startedAt = minute]]
      BY <1>0, <2>1 DEF MarkUsed, Bookables
    <3> QED
      BY <1>0, <3>1, WrittenRows
  <2>2. CASE RecordAttempt(a)
    <3>1. booking' = [booking EXCEPT ![a] =
            [booking[a] EXCEPT !.rev = @ + 1, !.denied = @ + 1]]
      BY <1>0, <2>2 DEF RecordAttempt, Bookables
    <3> QED
      BY <1>0, <3>1, WrittenRows
  <2> QED
    BY <1>3, <2>1, <2>2 DEF CommitStart
<1>4. CASE UNCHANGED booking
  BY <1>4
<1> QED
  BY <1>1, <1>2, <1>3, <1>4
     DEF Progress, BeginTransaction, CheckBooking, LockForStart, ResolvePlacement, CreatesPass

(* Only a committed start touches the live passes among the calls' steps. *)
LEMMA LivePassesStayTyped ==
    ASSUME ScheduledTypeOK, NEW c \in Calls, Progress(c)
    PROVE  livePass' \in [Travellers -> Bookings \cup {Nobody, Elsewhere}]
<1> USE DEF ScheduledTypeOK
<1>1. CASE CommitStart(c)
  <2>1. Busy(c)
    BY <1>1 DEF CommitStart, InStage
  <2> QED
    BY <1>1, <2>1, CallIsOfABooking DEF CommitStart
<1>2. CASE UNCHANGED livePass
  BY <1>2
<1> QED
  BY <1>1, <1>2
     DEF Progress, BeginTransaction, CheckBooking, InsertBooking, CancelBooking,
         LockForStart, ResolvePlacement, CreatesPass

(* A call's step changes neither the clock nor the places. *)
LEMMA CallsLeaveTheRest ==
    ASSUME NEW c \in Calls, Progress(c) \/ CallFails(c)
    PROVE  UNCHANGED <<minute, place>>
BY DEF Progress, CallFails, BeginTransaction, CheckBooking, InsertBooking, CancelBooking,
       LockForStart, ResolvePlacement, CreatesPass, CommitStart

(* Every step keeps the types. *)
LEMMA ScheduledTypesKept ==
    ScheduledTypeOK /\ [ScheduledNext]_scheduledVars => ScheduledTypeOK'
<1> SUFFICES ASSUME ScheduledTypeOK, [ScheduledNext]_scheduledVars
             PROVE  ScheduledTypeOK'
  OBVIOUS
<1>1. ASSUME NEW c \in Calls, NEW op \in Operations, NEW a \in Bookings, Send(c, op, a)
      PROVE  ScheduledTypeOK'
  BY <1>1, SentIsTyped
<1>2. ASSUME NEW c \in Calls, Progress(c) \/ CallFails(c)
      PROVE  ScheduledTypeOK'
  <2>1. call' \in [Calls -> CallRecords \cup {NoCall}]
    BY <1>2, CallsMoveOn, ToStageKeepsCalls, EndCallKeepsCalls DEF ScheduledTypeOK
  <2>2. booking' \in [Bookings -> Bookables]
    BY <1>2, RowsStayRows DEF CallFails, ScheduledTypeOK
  <2>3. livePass' \in [Travellers -> Bookings \cup {Nobody, Elsewhere}]
    BY <1>2, LivePassesStayTyped DEF CallFails, ScheduledTypeOK
  <2> QED
    BY <1>2, <2>1, <2>2, <2>3, CallsLeaveTheRest DEF ScheduledTypeOK
<1>3. CASE \E s \in Travellers : RequestElsewhere(s) \/ EndPass(s)
  BY <1>3 DEF ScheduledTypeOK, RequestElsewhere, EndPass
<1>4. CASE \E d \in Places : OpenOrClosePlace(d) \/ ArchivePlace(d)
  BY <1>4 DEF ScheduledTypeOK, OpenOrClosePlace, ArchivePlace
<1>5. CASE MinutePasses
  BY <1>5 DEF ScheduledTypeOK, MinutePasses
<1>6. CASE UNCHANGED scheduledVars
  BY <1>6 DEF ScheduledTypeOK, scheduledVars
<1> QED
  BY <1>1, <1>2, <1>3, <1>4, <1>5, <1>6 DEF ScheduledNext

(* The initial state has the types. *)
LEMMA ScheduledTypesAtFirst == ScheduledInit => ScheduledTypeOK
BY DEF ScheduledInit, ScheduledTypeOK, NoBooking, Bookables, BookingStates

(* ScheduledTypeOK holds in every reachable state, for any bookings, pool,  *)
(* windows and number of calls: what the steps of booking, cancelling and   *)
(* starting write are rows of the schema.                                   *)
THEOREM BookingsAreTyped == ScheduledSpec => []ScheduledTypeOK
BY ScheduledTypesAtFirst, ScheduledTypesKept, PTL DEF ScheduledSpec

---------------------------------------------------------------------------
(* A booking moves its student once.                                       *)

(* The writes of a call's step, one row at most, each from the status that  *)
(* its WHERE clause demands.                                                *)
LEMMA WritesAreGuarded ==
    ASSUME ScheduledTypeOK, NEW c \in Calls, Progress(c), NEW a \in Bookings,
           booking'[a] # booking[a]
    PROVE  \/ /\ booking[a].status = "absent"
              /\ booking'[a].status = "active" /\ booking'[a].rev = 1
              /\ booking'[a].started = 0 /\ booking'[a].denied = 0
           \/ /\ booking[a].status = "active" /\ booking'[a].status = "cancelled"
              /\ booking'[a].rev = booking[a].rev + 1
              /\ booking'[a].started = booking[a].started
              /\ booking'[a].denied = booking[a].denied
           \/ /\ booking[a].status = "active" /\ booking'[a].status = "used"
              /\ booking'[a].rev = booking[a].rev + 1
              /\ booking'[a].started = booking[a].started + 1
              /\ booking'[a].denied = booking[a].denied
           \/ /\ booking[a].status = "active" /\ booking'[a].status = "active"
              /\ booking'[a].rev = booking[a].rev + 1
              /\ booking'[a].started = booking[a].started
              /\ booking'[a].denied = booking[a].denied + 1
<1>0. booking[a] \in Bookables
  BY DEF ScheduledTypeOK
<1>1. CASE InsertBooking(c)
  <2>1. PICK w \in Windows :
          booking' = [booking EXCEPT ![call[c].of] = [NoBooking EXCEPT
                          !.status = "active", !.rev = 1, !.window = w]]
    BY <1>1 DEF InsertBooking
  <2>2. a = call[c].of
    BY <2>1 DEF ScheduledTypeOK
  <2>3. booking'[a] = [NoBooking EXCEPT !.status = "active", !.rev = 1, !.window = w]
    BY <2>1, <2>2 DEF ScheduledTypeOK
  <2> QED
    BY <1>1, <2>2, <2>3 DEF InsertBooking, NoBooking
<1>2. CASE CancelBooking(c)
  <2>1. a = call[c].of
    BY <1>2 DEF CancelBooking, ScheduledTypeOK
  <2> QED
    BY <1>0, <1>2, <2>1 DEF CancelBooking, StillExpected, ScheduledTypeOK, Bookables
<1>3. CASE CommitStart(c)
  <2>1. a = call[c].of
    BY <1>3 DEF CommitStart, MarkUsed, RecordAttempt, ScheduledTypeOK
  <2>2. CASE MarkUsed(a)
    BY <1>0, <1>3, <2>1, <2>2 DEF MarkUsed, CommitStart, StillExpected, ScheduledTypeOK, Bookables
  <2>3. CASE RecordAttempt(a)
    BY <1>0, <1>3, <2>1, <2>3 DEF RecordAttempt, CommitStart, StillExpected, ScheduledTypeOK, Bookables
  <2> QED
    BY <1>3, <2>1, <2>2, <2>3 DEF CommitStart
<1> QED
  BY <1>1, <1>2, <1>3
     DEF Progress, BeginTransaction, CheckBooking, LockForStart, ResolvePlacement, CreatesPass

(* Only calls write bookings. *)
LEMMA OnlyCallsWrite ==
    ASSUME [ScheduledNext]_scheduledVars, ~ \E c \in Calls : Progress(c)
    PROVE  booking' = booking
BY DEF ScheduledNext, scheduledVars, Send, CallFails, RequestElsewhere, EndPass,
       OpenOrClosePlace, ArchivePlace, MinutePasses

(* Every step keeps the counts of every booking. *)
LEMMA CountsKept ==
    ASSUME ScheduledTypeOK, BookingMovesOnce, [ScheduledNext]_scheduledVars
    PROVE  BookingMovesOnce'
<1> SUFFICES ASSUME NEW a \in Bookings
             PROVE  /\ booking'[a].started = IF booking'[a].status = "used" THEN 1 ELSE 0
                    /\ booking'[a].status # "absent" =>
                          booking'[a].rev = 1 + booking'[a].denied
                                 + (IF booking'[a].status = "active" THEN 0 ELSE 1)
  BY DEF BookingMovesOnce
<1>1. /\ booking[a].started = IF booking[a].status = "used" THEN 1 ELSE 0
      /\ booking[a].status # "absent" =>
            booking[a].rev = 1 + booking[a].denied
                             + (IF booking[a].status = "active" THEN 0 ELSE 1)
  BY DEF BookingMovesOnce
<1>2. booking[a].started \in Nat /\ booking[a].denied \in Nat /\ booking[a].rev \in Nat
  BY DEF ScheduledTypeOK, Bookables
<1>3. CASE booking'[a] = booking[a]
  BY <1>1, <1>3
<1>4. CASE booking'[a] # booking[a]
  <2>1. PICK c \in Calls : Progress(c)
    BY <1>4, OnlyCallsWrite
  <2> QED
    BY <1>1, <1>2, <1>4, <2>1, WritesAreGuarded
<1> QED
  BY <1>3, <1>4

(* However starts, cancellations, retries and dying servers interleave,     *)
(* exactly the used bookings have started a live pass, once, and every      *)
(* start and cancellation made the revision of all clients stale.           *)
THEOREM BookingsMoveOnce == ScheduledSpec => []BookingMovesOnce
<1>1. ScheduledInit => BookingMovesOnce
  BY DEF ScheduledInit, BookingMovesOnce, NoBooking
<1>2. ScheduledTypeOK /\ BookingMovesOnce /\ [ScheduledNext]_scheduledVars => BookingMovesOnce'
  BY CountsKept
<1> QED
  BY <1>1, <1>2, BookingsAreTyped, PTL DEF ScheduledSpec

---------------------------------------------------------------------------
(* What a start holds.                                                     *)

Holding == {"placing", "placed", "live", "denied"}   \* stages with the row locked
Inserted == {"live", "denied"}                       \* stages with a pass inserted

(* Who holds a row is a start, alone, and meets the row it expected; whose  *)
(* pass is inserted but not committed is alone with a student who has no    *)
(* live pass.                                                               *)
RowsHeldAlone ==
    \A c \in Calls : Busy(c) /\ call[c].stage \in Holding =>
        /\ call[c].op = "start"
        /\ StillExpected(c)
        /\ \A other \in Calls : HoldsRow(other, call[c].of) => other = c
InsertsAlone ==
    \A c \in Calls : Busy(c) /\ call[c].stage \in Inserted =>
        /\ livePass[TravellerOf[call[c].of]] = Nobody
        /\ Inserting(TravellerOf[call[c].of]) = {c}
StartsDecideAlone == RowsHeldAlone /\ InsertsAlone

(* A call that enters a stage with the row locked, by a step of its own,     *)
(* had it, or found it free and as expected.                                *)
LEMMA EntersHolding ==
    ASSUME ScheduledTypeOK, NEW c \in Calls, Progress(c),
           Busy(c)', call'[c].stage \in Holding
    PROVE  /\ UNCHANGED <<booking, livePass>>
           /\ call'[c].of = call[c].of /\ call'[c].rev = call[c].rev
           /\ call'[c].op = call[c].op
           /\ \/ call[c].stage \in Holding
              \/ /\ call[c].op = "start" /\ StillExpected(c) /\ RowIsFree(call[c].of)
<1>1. Busy(c)
  BY CallsMoveOn DEF ScheduledTypeOK
<1>2. ~ EndCall(c)
  BY EndCallKeepsCalls DEF Busy, ScheduledTypeOK
<1>3. ASSUME NEW stage \in CallStages, ToStage(c, stage)
      PROVE  /\ call'[c].of = call[c].of /\ call'[c].rev = call[c].rev
             /\ call'[c].op = call[c].op /\ call'[c].stage = stage
  BY <1>1, <1>3, ToStageKeepsCalls DEF ScheduledTypeOK
<1>4. CASE BeginTransaction(c) \/ CheckBooking(c)
  <2>1. call'[c].stage \in {"begun", "checked"}
    BY <1>3, <1>4 DEF BeginTransaction, CheckBooking, CallStages
  <2> QED
    BY <2>1 DEF Holding
<1>5. CASE LockForStart(c)
  BY <1>3, <1>5 DEF LockForStart, InStage, CallStages
<1>6. CASE ResolvePlacement(c)
  BY <1>3, <1>6 DEF ResolvePlacement, InStage, CallStages, Holding
<1>7. CASE CreatesPass(c)
  BY <1>3, <1>7 DEF CreatesPass, InStage, CallStages, Holding
<1> QED
  BY <1>2, <1>4, <1>5, <1>6, <1>7 DEF Progress, InsertBooking, CancelBooking, CommitStart

(* A row that is held, and expected as it is, is written by its holder only. *)
LEMMA HeldRowsKeep ==
    ASSUME ScheduledTypeOK, RowsHeldAlone, NEW c \in Calls, Progress(c),
           NEW x \in Calls \ {c}, Busy(x), call[x].stage \in Holding
    PROVE  booking'[call[x].of] = booking[call[x].of]
<1> DEFINE a == call[x].of
<1>1. HoldsRow(x, a) /\ booking[a].status = "active" /\ a \in Bookings
  BY CallIsOfABooking DEF RowsHeldAlone, HoldsRow, Holding, StillExpected
<1>2. ~ HoldsRow(c, a)
  BY DEF RowsHeldAlone
<1>3. CASE InsertBooking(c)
  BY <1>1, <1>3 DEF InsertBooking, ScheduledTypeOK
<1>4. CASE CancelBooking(c)
  BY <1>1, <1>4 DEF CancelBooking, RowIsFree, ScheduledTypeOK
<1>5. CASE CommitStart(c)
  <2>1. HoldsRow(c, call[c].of)
    BY <1>5 DEF CommitStart, InStage, HoldsRow
  <2>2. call[c].of # a
    BY <1>2, <2>1
  <2> QED
    BY <1>1, <1>5, <2>2 DEF CommitStart, MarkUsed, RecordAttempt, ScheduledTypeOK
<1> QED
  BY <1>3, <1>4, <1>5
     DEF Progress, BeginTransaction, CheckBooking, LockForStart, ResolvePlacement, CreatesPass

(* The steps of calls keep the rows to those who hold them. *)
LEMMA CallsKeepRowsAlone ==
    ASSUME ScheduledTypeOK, RowsHeldAlone, NEW c \in Calls, Progress(c) \/ CallFails(c)
    PROVE  RowsHeldAlone'
<1>1. \A other \in Calls \ {c} : call'[other] = call[other]
  BY CallsMoveOn, ToStageKeepsCalls, EndCallKeepsCalls DEF ScheduledTypeOK
<1>2. CallFails(c) => ~ Busy(c)' /\ UNCHANGED booking
  BY EndCallKeepsCalls DEF CallFails, ScheduledTypeOK, Busy
<1> SUFFICES ASSUME NEW x \in Calls, Busy(x)', call'[x].stage \in Holding
             PROVE  /\ call'[x].op = "start"
                    /\ StillExpected(x)'
                    /\ \A other \in Calls : HoldsRow(other, call[x].of)' => other = x
                    /\ call'[x].of = call[x].of
  BY DEF RowsHeldAlone, HoldsRow
<1>3. CASE x = c
  <2>1. Progress(c)
    BY <1>2, <1>3
  <2>2. /\ UNCHANGED booking
        /\ call'[c].of = call[c].of /\ call'[c].rev = call[c].rev /\ call'[c].op = call[c].op
        /\ \/ call[c].stage \in Holding
           \/ /\ call[c].op = "start" /\ StillExpected(c) /\ RowIsFree(call[c].of)
    BY <1>3, <2>1, EntersHolding
  <2>3. Busy(c)
    BY <2>1, CallsMoveOn DEF ScheduledTypeOK
  <2>4. /\ call[c].op = "start" /\ StillExpected(c)
        /\ \A other \in Calls \ {c} : ~ HoldsRow(other, call[c].of)
    BY <2>2, <2>3 DEF RowsHeldAlone, RowIsFree
  <2> QED
    BY <1>1, <1>3, <2>2, <2>4 DEF StillExpected, HoldsRow, Busy
<1>4. CASE x # c
  <2>1. call'[x] = call[x] /\ Busy(x) /\ call[x].stage \in Holding
    BY <1>1, <1>4 DEF Busy
  <2>2. booking'[call[x].of] = booking[call[x].of]
    BY <1>2, <1>4, <2>1, HeldRowsKeep
  <2>3. /\ call[x].op = "start" /\ StillExpected(x)
        /\ \A other \in Calls : HoldsRow(other, call[x].of) => other = x
    BY <2>1 DEF RowsHeldAlone
  <2>4. ~ HoldsRow(c, call[x].of)'
    <3> SUFFICES ASSUME HoldsRow(c, call[x].of)'
                 PROVE  FALSE
      OBVIOUS
    <3>1. Busy(c)' /\ call'[c].of = call[x].of /\ call'[c].stage \in Holding
      BY <2>1 DEF HoldsRow, Holding
    <3>2. Progress(c) /\ Busy(c)
      BY <1>2, <3>1, CallsMoveOn DEF ScheduledTypeOK
    <3>3. call[c].of = call[x].of /\ (call[c].stage \in Holding \/ RowIsFree(call[x].of))
      BY <3>1, <3>2, EntersHolding
    <3>4. HoldsRow(x, call[x].of)
      BY <2>1 DEF HoldsRow, Holding
    <3>5. HoldsRow(c, call[x].of)
      BY <3>2, <3>3, <3>4 DEF HoldsRow, Holding, RowIsFree
    <3> QED
      BY <1>4, <2>3, <3>5
  <2> QED
    BY <1>1, <1>4, <2>1, <2>2, <2>3, <2>4 DEF StillExpected, HoldsRow, Busy
<1> QED
  BY <1>3, <1>4

(* The steps of calls keep an uncommitted pass alone with its student. *)
LEMMA CallsKeepInsertsAlone ==
    ASSUME ScheduledTypeOK, RowsHeldAlone, InsertsAlone,
           NEW c \in Calls, Progress(c) \/ CallFails(c)
    PROVE  InsertsAlone'
<1>1. \A other \in Calls \ {c} : call'[other] = call[other]
  BY CallsMoveOn, ToStageKeepsCalls, EndCallKeepsCalls DEF ScheduledTypeOK
<1>2. CallFails(c) => ~ Busy(c)' /\ UNCHANGED livePass
  BY EndCallKeepsCalls DEF CallFails, ScheduledTypeOK, Busy
<1>3. ASSUME Busy(c)', call'[c].stage \in Inserted
      PROVE  /\ call'[c].of = call[c].of /\ UNCHANGED livePass
             /\ livePass[TravellerOf[call[c].of]] = Nobody
             /\ Inserting(TravellerOf[call[c].of]) = {}
  <2>1. Progress(c) /\ Busy(c)
    BY <1>2, <1>3, CallsMoveOn DEF ScheduledTypeOK
  <2>2. call'[c].of = call[c].of /\ UNCHANGED livePass
    BY <1>3, <2>1, EntersHolding DEF Inserted, Holding
  <2>3. ~ EndCall(c)
    BY <1>3, EndCallKeepsCalls DEF Busy, ScheduledTypeOK
  <2>4. \A stage \in CallStages : ToStage(c, stage) => call'[c].stage = stage
    BY <2>1, ToStageKeepsCalls DEF ScheduledTypeOK
  <2>5. CreatesPass(c)
    <3>1. ~ \E stage \in {"begun", "checked", "placing", "placed"} : ToStage(c, stage)
      BY <1>3, <2>4 DEF Inserted, CallStages
    <3> QED
      BY <2>1, <2>3, <3>1
         DEF Progress, BeginTransaction, CheckBooking, LockForStart, ResolvePlacement,
             InsertBooking, CancelBooking, CommitStart
  <2> QED
    BY <2>2, <2>5 DEF CreatesPass
<1> SUFFICES ASSUME NEW x \in Calls, Busy(x)', call'[x].stage \in Inserted,
                    NEW s, s = TravellerOf[call'[x].of]
             PROVE  livePass'[s] = Nobody /\ Inserting(s)' = {x}
  BY DEF InsertsAlone, Inserting
<1>4. x \in Inserting(s)'
  BY DEF Inserting, Inserted
<1>5. CASE x = c
  <2>1. \A other \in Calls \ {c} : other \notin Inserting(s)'
    BY <1>1, <1>3, <1>5 DEF Inserting, Busy
  <2> QED
    BY <1>3, <1>4, <1>5, <2>1 DEF Inserting
<1>6. CASE x # c
  <2>1. call'[x] = call[x] /\ Busy(x) /\ call[x].stage \in Inserted
    BY <1>1, <1>6 DEF Busy
  <2>2. livePass[s] = Nobody /\ Inserting(s) = {x} /\ s = TravellerOf[call[x].of]
    BY <2>1 DEF InsertsAlone
  <2>3. \A other \in Calls \ {c} : other \in Inserting(s)' => other = x
    BY <1>1, <2>2 DEF Inserting, Busy
  <2>4. c \notin Inserting(s)'
    <3> SUFFICES ASSUME c \in Inserting(s)'
                 PROVE  FALSE
      OBVIOUS
    <3>1. Busy(c)' /\ call'[c].stage \in Inserted /\ TravellerOf[call'[c].of] = s
      BY <2>1 DEF Inserting, Inserted
    <3> QED
      BY <1>3, <2>2, <3>1
  <2>5. livePass'[s] = Nobody
    <3>1. CASE CommitStart(c)
      <4>1. c \notin Inserting(s)
        BY <1>6, <2>2
      <4>2. TravellerOf[call[c].of] # s
        BY <3>1, <4>1 DEF CommitStart, InStage, Inserting
      <4> QED
        BY <2>1, <2>2, <3>1, <4>2, CallIsOfABooking DEF CommitStart, ScheduledTypeOK
    <3>2. CASE UNCHANGED livePass
      BY <2>2, <3>2
    <3> QED
      BY <1>2, <3>1, <3>2
         DEF Progress, BeginTransaction, CheckBooking, InsertBooking, CancelBooking,
             LockForStart, ResolvePlacement, CreatesPass
  <2> QED
    BY <1>4, <2>1, <2>3, <2>4, <2>5 DEF Inserting
<1> QED
  BY <1>5, <1>6

(* Whoever does not hold a row or an insert leaves them alone. *)
LEMMA DecidesAloneKept ==
    ASSUME ScheduledTypeOK, StartsDecideAlone, [ScheduledNext]_scheduledVars
    PROVE  StartsDecideAlone'
<1>1. ASSUME NEW c \in Calls, NEW op \in Operations, NEW a \in Bookings, Send(c, op, a)
      PROVE  StartsDecideAlone'
  <2>1. /\ \A other \in Calls \ {c} : call'[other] = call[other]
        /\ call'[c].stage = "sent" /\ UNCHANGED <<booking, livePass>>
        /\ ~ Busy(c)
    BY <1>1 DEF Send, ScheduledTypeOK
  <2>2. RowsHeldAlone'
    BY <2>1 DEF StartsDecideAlone, RowsHeldAlone, HoldsRow, Holding, Busy, StillExpected
  <2>3. \A s : Inserting(s)' = Inserting(s)
    BY <2>1 DEF Inserting, Busy
  <2>4. InsertsAlone'
    BY <2>1, <2>3 DEF StartsDecideAlone, InsertsAlone, Inserted, Busy
  <2> QED
    BY <2>2, <2>4 DEF StartsDecideAlone
<1>2. ASSUME NEW c \in Calls, Progress(c) \/ CallFails(c)
      PROVE  StartsDecideAlone'
  BY <1>2, CallsKeepRowsAlone, CallsKeepInsertsAlone DEF StartsDecideAlone
<1>3. ASSUME NEW s \in Travellers, RequestElsewhere(s) \/ EndPass(s)
      PROVE  StartsDecideAlone'
  <2>1. UNCHANGED <<booking, call>>
    BY <1>3 DEF RequestElsewhere, EndPass
  <2>2. \A t \in Travellers :
          livePass[t] = Nobody /\ Inserting(t) # {} => livePass'[t] = Nobody
    BY <1>3 DEF RequestElsewhere, EndPass, ScheduledTypeOK
  <2>3. RowsHeldAlone' /\ \A t : Inserting(t)' = Inserting(t)
    BY <2>1 DEF StartsDecideAlone, RowsHeldAlone, HoldsRow, Busy, StillExpected, Inserting
  <2>4. InsertsAlone'
    <3> SUFFICES ASSUME NEW c \in Calls, Busy(c), call[c].stage \in Inserted
                 PROVE  /\ livePass'[TravellerOf[call[c].of]] = Nobody
                        /\ Inserting(TravellerOf[call[c].of]) = {c}
      BY <2>1 DEF InsertsAlone, Busy, Inserting
    <3> QED
      BY <2>2, CallIsOfABooking DEF StartsDecideAlone, InsertsAlone
  <2> QED
    BY <2>3, <2>4 DEF StartsDecideAlone
<1>4. CASE UNCHANGED <<booking, livePass, call>>
  BY <1>4 DEF StartsDecideAlone, RowsHeldAlone, InsertsAlone, HoldsRow, Busy, StillExpected,
              Inserting
<1> QED
  BY <1>1, <1>2, <1>3, <1>4
     DEF ScheduledNext, scheduledVars, OpenOrClosePlace, ArchivePlace, MinutePasses

(* A start decides alone, for any pool and any number of calls: from its    *)
(* lock to its commit the booking stays as it judged it, so that the        *)
(* revision of the final write is never refused; and a pass it inserted is  *)
(* the only live one its student gets, so that the commit overwrites none.  *)
THEOREM AStartDecidesAlone == ScheduledSpec => []StartsDecideAlone
<1>1. ScheduledInit => StartsDecideAlone
  BY DEF ScheduledInit, StartsDecideAlone, RowsHeldAlone, InsertsAlone, Busy
<1>2. ScheduledTypeOK /\ StartsDecideAlone /\ [ScheduledNext]_scheduledVars
        => StartsDecideAlone'
  BY DecidesAloneKept
<1> QED
  BY <1>1, <1>2, BookingsAreTyped, PTL DEF ScheduledSpec

=============================================================================
