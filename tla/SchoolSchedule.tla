---------------------------- MODULE SchoolSchedule ----------------------------
(***************************************************************************)
(* The bell schedule of one school and the question everything else asks of *)
(* it: where is the student expected to be?                                 *)
(*                                                                         *)
(* Blocks, templates and calendar days are one aggregate.  A command locks  *)
(* its configuration row, compares the revision the administrator had seen, *)
(* and raises it; a read is a repeatable-read snapshot.  The placement      *)
(* resolver is not part of any transaction: each of its queries sees what   *)
(* has been committed when it runs, and an edit may fall between two.        *)
(*                                                                         *)
(* A block is identified by its code.  Display names, kinds of blocks and   *)
(* notes are left out, and so are teachers, who follow from the section.    *)
(***************************************************************************)
EXTENDS Integers, Sequences

CONSTANTS
    Blocks, Templates,
    LastDate,            \* bound: school dates are 0..LastDate
    Seeds,               \* the schedules to start from
    SlotLists,           \* the slot lists administrators submit
    Cycles,              \* cycle codes of calendar days
    Meetings,            \* when and where the student's sections meet
    Moments,             \* times of day at which a placement is asked for
    UnrealTimes,         \* <<date, time>> that the clocks skip or repeat
    Editors, Resolutions,
    MostEdits            \* bound: the last revision

Dates == 0..LastDate
Unset == [kind |-> "unset"]
NoLesson == [kind |-> "non_instructional"]
Lessons == [kind : {"instructional"}, template : Templates, cycle : Cycles]
Slots == [block : Blocks, from : Nat, until : Nat]
Statuses == {"absent", "active", "archived"}
Schedules ==
    [rev : Nat, block : [Blocks -> Statuses], template : [Templates -> Statuses],
     slots : [Templates -> SUBSET Slots], day : [Dates -> Lessons \cup {Unset, NoLesson}]]

VARIABLES
    schoolDate,
    schedule,
    editor,       \* what each administrator has read
    resolution    \* the placements being resolved

scheduleVars == <<schoolDate, schedule, editor, resolution>>

(* The page reads the three parts of the aggregate one by one. *)
Parts == {"blocks", "templates", "calendar"}
NothingRead ==
    [stage |-> "reading", rev |-> 0, on |-> 0, outdated |-> Parts, before |-> Parts]
Unasked == [stage |-> "unasked"]

(* A provisioned school has an aggregate without blocks. *)
EmptySchedule ==
    [rev |-> 1, block |-> [b \in Blocks |-> "absent"],
     template |-> [m \in Templates |-> "absent"], slots |-> [m \in Templates |-> {}],
     day |-> [d \in Dates |-> Unset]]

Apart(S) == \A x, y \in S : x # y => x.until <= y.from \/ y.until <= x.from
ActiveBlocks(S, s) == \A x \in S : s.block[x.block] = "active"

(* Every lesson day from a date on has an active template, whose slots are  *)
(* of active blocks and do not overlap.                                     *)
UsableFrom(s, today) ==
    \A d \in Dates :
        (today <= d /\ s.day[d].kind = "instructional") =>
            LET m == s.day[d].template IN
            s.template[m] = "active" /\ ActiveBlocks(s.slots[m], s) /\ Apart(s.slots[m])

ActiveTemplatesSound(s) ==
    \A m \in Templates :
        s.template[m] = "active" => ActiveBlocks(s.slots[m], s) /\ Apart(s.slots[m])

ASSUME ScheduleAssumption ==
    /\ LastDate \in Nat /\ MostEdits \in Nat
    /\ \A s \in Seeds : s \in Schedules /\ UsableFrom(s, 0) /\ ActiveTemplatesSound(s)
    /\ SlotLists \subseteq Seq(Slots)
    /\ \A x \in Meetings : DOMAIN x = {"section", "block", "cycle", "from", "until"}

ScheduleInit ==
    /\ schoolDate = 0
    /\ schedule \in Seeds
    /\ editor = [e \in Editors |-> NothingRead]
    /\ resolution = [r \in Resolutions |-> Unasked]

---------------------------------------------------------------------------
(* The placement of the student.                                           *)

RunsAt(x, time) == x.from <= time /\ time < x.until

Applies(meeting, x, lesson, date) ==
    /\ meeting.block = x.block
    /\ meeting.from <= date /\ date <= meeting.until
    /\ meeting.cycle \in {"any", lesson.cycle}

RealTimes(x, date) == <<date, x.from>> \notin UnrealTimes /\ <<date, x.until>> \notin UnrealTimes

(* What follows from the active slots and the meetings of the student.     *)
Conclusion(active, lesson, date) ==
    LET found == {f \in active \X Meetings : Applies(f[2], f[1], lesson, date)}
        several(S) == \E a, b \in S : a # b
    IN CASE several(found) -> <<"ambiguous", "multiple_placements">>
         [] found = {} /\ several(active) -> <<"ambiguous", "overlapping_unassigned_slots">>
         [] OTHER ->
              LET x == CHOOSE y \in active : found = {} \/ \E f \in found : f[1] = y IN
              CASE ~ RealTimes(x, date) -> <<"configuration_error", "invalid_slot_wall_time">>
                [] RealTimes(x, date) /\ found = {} -> <<"block_only", x.block>>
                [] OTHER -> <<"resolved", (CHOOSE f \in found : TRUE)[2].section>>

(* The slots of a template as a query sees them: archived blocks drop out. *)
ActiveSlots(s, m, time) ==
    {x \in s.slots[m] : s.block[x.block] = "active" /\ RunsAt(x, time)}

Placement(s, date, time) ==
    LET lesson == s.day[date] IN
    IF lesson.kind # "instructional" THEN <<lesson.kind>>
    ELSE LET active == ActiveSlots(s, lesson.template, time) IN
         IF active = {} THEN <<"outside_schedule">> ELSE Conclusion(active, lesson, date)

---------------------------------------------------------------------------
(* Resolving it, one query at a time.  truth collects what the placement    *)
(* has been since the question was asked.                                  *)

Ask(r, time) ==
    /\ resolution[r] = Unasked
    /\ resolution' = [resolution EXCEPT ![r] =
           [stage |-> "asked", date |-> schoolDate, time |-> time, edits |-> 0,
            truth |-> {Placement(schedule, schoolDate, time)}]]
    /\ UNCHANGED <<schoolDate, schedule, editor>>

Answer(r, result) ==
    [stage |-> "answered", date |-> resolution[r].date, time |-> resolution[r].time,
     edits |-> resolution[r].edits, truth |-> resolution[r].truth, result |-> result]

FaultyLoadCalendarDay(r) ==                          \* the clock is read again
    /\ resolution[r].stage = "asked"
    /\ LET q == resolution[r]  lesson == schedule.day[schoolDate] IN
       resolution' = [resolution EXCEPT ![r] =
           IF lesson.kind # "instructional" THEN Answer(r, <<lesson.kind>>)
           ELSE [stage |-> "day", date |-> q.date, time |-> q.time, edits |-> q.edits,
                 truth |-> q.truth, lesson |-> lesson]]
    /\ UNCHANGED <<schoolDate, schedule, editor>>

LoadCalendarDay(r) ==
    /\ resolution[r].stage = "asked"
    /\ LET q == resolution[r]  lesson == schedule.day[q.date] IN
       resolution' = [resolution EXCEPT ![r] =
           IF lesson.kind # "instructional" THEN Answer(r, <<lesson.kind>>)
           ELSE [stage |-> "day", date |-> q.date, time |-> q.time, edits |-> q.edits,
                 truth |-> q.truth, lesson |-> lesson]]
    /\ UNCHANGED <<schoolDate, schedule, editor>>

LoadScheduleSlots(r) ==
    /\ resolution[r].stage = "day"
    /\ LET q == resolution[r]  active == ActiveSlots(schedule, q.lesson.template, q.time) IN
       resolution' = [resolution EXCEPT ![r] =
           Answer(r, IF active = {} THEN <<"outside_schedule">>
                     ELSE Conclusion(active, q.lesson, q.date))]
    /\ UNCHANGED <<schoolDate, schedule, editor>>

Forget(r) ==
    /\ resolution[r].stage = "answered"
    /\ resolution' = [resolution EXCEPT ![r] = Unasked]
    /\ UNCHANGED <<schoolDate, schedule, editor>>

---------------------------------------------------------------------------
(* Editing.  A page is outdated in the parts that have been edited since    *)
(* they were read.  Its commands carry the revision that came with the      *)
(* blocks, whatever they edit; before are the parts that were outdated      *)
(* already when the blocks were read.                                      *)

ShowsPart(q, part) == [q EXCEPT !.outdated = @ \ {part}, !.before = @ \ {part}]

ShowsBlocks(q) ==
    [stage |-> "open", rev |-> schedule.rev, on |-> schoolDate,
     outdated |-> q.outdated \ {"blocks"}, before |-> q.outdated \ {"blocks"}]

FaultyReadPart(e, part) ==                           \* If-Match of the latest answer
    /\ part \in editor[e].outdated \/ (part = "blocks" /\ editor[e].rev # schedule.rev)
    /\ editor' = [editor EXCEPT ![e] =
          IF part = "blocks" THEN ShowsBlocks(@)
          ELSE [ShowsPart(@, part) EXCEPT !.rev = schedule.rev]]
    /\ UNCHANGED <<schoolDate, schedule, resolution>>

(* The first reading, one after an edit of one's own, or one when the page  *)
(* gets the focus.  A part that is not outdated would be read as it was.    *)
ReadPart(e, part) ==
    /\ part \in editor[e].outdated \/ (part = "blocks" /\ editor[e].rev # schedule.rev)
    /\ editor' = [editor EXCEPT ![e] =
          IF part = "blocks" THEN ShowsBlocks(@) ELSE ShowsPart(@, part)]
    /\ UNCHANGED <<schoolDate, schedule, resolution>>

FaultyMatches(e) == TRUE                             \* If-Match not compared
Matches(e) == editor[e].rev = schedule.rev

FaultyRaised(s) == s                                 \* the revision stays
Raised(s) == [s EXCEPT !.rev = @ + 1]

(* Who has committed must read the blocks again before the next command. *)
Commit(e, part, edited) ==
    /\ editor[e].stage = "open"
    /\ Matches(e)
    /\ schedule.rev < MostEdits
    /\ schedule' = Raised(edited)
    /\ editor' = [x \in Editors |->
          [editor[x] EXCEPT !.stage = IF x = e THEN "reading" ELSE @,
                            !.outdated = @ \cup {part}]]
    /\ resolution' = [r \in Resolutions |->
          IF resolution[r].stage \in {"asked", "day"}
          THEN [resolution[r] EXCEPT
                  !.edits = IF @ < 2 THEN @ + 1 ELSE 2,
                  !.truth = @ \cup {Placement(edited, resolution[r].date, resolution[r].time)}]
          ELSE resolution[r]]
    /\ UNCHANGED schoolDate

CreateBlock(e, b) ==
    /\ schedule.block[b] = "absent"
    /\ Commit(e, "blocks", [schedule EXCEPT !.block[b] = "active"])

UpdateBlock(e, b) ==
    /\ schedule.block[b] = "active"
    /\ Commit(e, "blocks", schedule)

FaultyInTemplates(b) ==                              \* only templates of days count
    \E d \in Dates : schedule.day[d].kind = "instructional" /\ d > schoolDate
        /\ \E x \in schedule.slots[schedule.day[d].template] : x.block = b
InTemplates(b) ==
    \E m \in Templates : schedule.template[m] = "active" /\ \E x \in schedule.slots[m] : x.block = b

ArchiveBlock(e, b) ==
    /\ schedule.block[b] = "active"
    /\ ~ InTemplates(b)
    /\ Commit(e, "blocks", [schedule EXCEPT !.block[b] = "archived"])

(* The slots in the order of their start must not overlap their neighbours. *)
ValidSlots(list) ==
    /\ \A i \in DOMAIN list :
          list[i].from < list[i].until /\ schedule.block[list[i].block] = "active"
    /\ \A i, j \in DOMAIN list :
          (i # j /\ list[i].from <= list[j].from) => list[i].until <= list[j].from

SlotsOf(list) == {list[i] : i \in DOMAIN list}

CreateTemplate(e, m, list) ==
    /\ schedule.template[m] = "absent"
    /\ ValidSlots(list)
    /\ Commit(e, "templates", [schedule EXCEPT !.template[m] = "active",
                                               !.slots[m] = SlotsOf(list)])

UpdateTemplate(e, m, list) ==
    /\ schedule.template[m] = "active"
    /\ ValidSlots(list)
    /\ Commit(e, "templates", [schedule EXCEPT !.slots[m] = SlotsOf(list)])

FaultyAssigned(m, today) ==                          \* today's lessons overlooked
    \E d \in Dates : d > today /\ schedule.day[d].kind = "instructional"
                               /\ schedule.day[d].template = m
Assigned(m, today) ==
    \E d \in Dates : d >= today /\ schedule.day[d].kind = "instructional"
                                /\ schedule.day[d].template = m

(* today is of the instant the command read before it waited for the lock. *)
ArchiveTemplate(e, m, today) ==
    /\ schedule.template[m] = "active"
    /\ ~ Assigned(m, today)
    /\ Commit(e, "templates", [schedule EXCEPT !.template[m] = "archived"])

(* One batch, all or nothing. *)
PutCalendarDays(e, batch) ==
    /\ \A d \in DOMAIN batch :
          batch[d].kind = "instructional" => schedule.template[batch[d].template] = "active"
    /\ Commit(e, "calendar", [schedule EXCEPT !.day = [d \in Dates |->
                                 IF d \in DOMAIN batch THEN batch[d] ELSE schedule.day[d]]])

DateTurns ==
    /\ schoolDate < LastDate
    /\ schoolDate' = schoolDate + 1
    /\ UNCHANGED <<schedule, editor, resolution>>

Edit(e) ==
    \/ \E b \in Blocks : CreateBlock(e, b) \/ UpdateBlock(e, b) \/ ArchiveBlock(e, b)
    \/ \E m \in Templates :
          \/ \E list \in SlotLists : CreateTemplate(e, m, list) \/ UpdateTemplate(e, m, list)
          \/ \E today \in Dates :
                editor[e].on <= today /\ today <= schoolDate
                /\ ArchiveTemplate(e, m, today)
    \/ \E D \in SUBSET Dates \ {{}} : \E batch \in [D -> Lessons \cup {NoLesson}] :
          PutCalendarDays(e, batch)

ScheduleNext ==
    \/ \E e \in Editors : (\E part \in Parts : ReadPart(e, part)) \/ Edit(e)
    \/ \E r \in Resolutions :
          (\E time \in Moments : Ask(r, time)) \/ LoadCalendarDay(r) \/ LoadScheduleSlots(r)
          \/ Forget(r)
    \/ DateTurns

ScheduleSpec == ScheduleInit /\ [][ScheduleNext]_scheduleVars

---------------------------------------------------------------------------
(* Properties.                                                             *)

(* A lesson of today or later never loses its template or a block, and no   *)
(* two of its slots overlap, whoever archives and assigns what in between:  *)
(* "Rejects while any non-archived template still references the block,      *)
(* because placement silently drops archived blocks".                       *)
CurrentDaysAreUsable == UsableFrom(schedule, schoolDate)

(* What an edit was made without seeing had been committed before its       *)
(* administrator last read the blocks: no edit since then is overwritten    *)
(* unseen, of any of the three parts.  Edits from before may be: a calendar  *)
(* that was read earlier than the blocks is sent over days others have set.  *)
NoLostEdit ==
    [][schedule' # schedule =>
          \E e \in Editors :
              /\ editor[e].stage = "open" /\ editor'[e].stage = "reading"
              /\ editor[e].outdated \subseteq editor[e].before]_scheduleVars

(* The queries of a resolution run outside any transaction.  One edit        *)
(* between them cannot tear its answer: it is what the placement was before *)
(* or after.  (Two can: the day is moved to another template, and the one    *)
(* that was read loses its slots.)                                          *)
OneEditNeverTears ==
    \A r \in Resolutions :
        (resolution[r].stage = "answered" /\ resolution[r].edits <= 1) =>
            resolution[r].result \in resolution[r].truth

===========================================================================
