------------------------ MODULE SchoolControlProofs ------------------------
(***************************************************************************)
(* Theorems about what administrators edit, for any rows, editors and       *)
(* pages: the schedule of a school never tears and its current days can be  *)
(* read; no row in use is made to refer to an archived one, but by the       *)
(* one command that was overtaken, nor the locations to stop being a tree;   *)
(* and a page that shows a form and keeps commands does not say what it      *)
(* cannot know.  The three components share no state: each part has an       *)
(* invariant of its own, ScheduleOK with EditorsOK and ResolutionsOK,        *)
(* SetupOK with TreeOK, and PagesOK.                                        *)
(***************************************************************************)
EXTENDS SchoolSchedule, SchoolSetup, EditPages, FiniteSetTheorems, WellFoundedInduction, TLAPS

(* The schedule. *)

(* The aggregate at every date: archived templates may dangle, others not.  *)
ScheduleOK ==
    /\ schoolDate \in Dates
    /\ schedule \in Schedules
    /\ ActiveTemplatesSound(schedule)
    /\ CurrentDaysAreUsable

Screens ==
    [stage : {"reading", "open"}, rev : Nat, on : Dates,
     outdated : SUBSET Parts, before : SUBSET Parts]
(* A screen that has the last revision is outdated only where it was when   *)
(* the blocks were read.                                                   *)
ScreenOK(q) ==
    /\ q \in Screens
    /\ q.rev <= schedule.rev
    /\ q.rev = schedule.rev => q.outdated \subseteq q.before
EditorsOK ==
    /\ schoolDate \in Dates
    /\ schedule \in Schedules
    /\ DOMAIN editor = Editors
    /\ \A e \in Editors : ScreenOK(editor[e])

(* What a resolution that has read the day would be answered now. *)
Outcome(s, lesson, date, time) ==
    LET active == ActiveSlots(s, lesson.template, time) IN
    IF active = {} THEN <<"outside_schedule">> ELSE Conclusion(active, lesson, date)

AskedParts == {"stage", "date", "time", "edits", "truth"}
(* The present placement is among the true ones, and after at most one edit *)
(* so is the answer that the day read before would lead to.                *)
ResolutionOK(q) ==
    \/ q = Unasked
    \/ /\ q.stage \in {"asked", "day"}
       /\ DOMAIN q = IF q.stage = "asked" THEN AskedParts ELSE AskedParts \cup {"lesson"}
       /\ q.date \in Dates /\ q.edits \in 0..2
       /\ Placement(schedule, q.date, q.time) \in q.truth
       /\ q.stage = "day" =>
             /\ q.lesson.kind = "instructional"
             /\ q.edits = 0 => q.lesson = schedule.day[q.date]
             /\ q.edits <= 1 => Outcome(schedule, q.lesson, q.date, q.time) \in q.truth
    \/ q.stage = "answered" /\ (q.edits <= 1 => q.result \in q.truth)
ResolutionsOK ==
    /\ schoolDate \in Dates
    /\ schedule \in Schedules
    /\ DOMAIN resolution = Resolutions
    /\ \A r \in Resolutions : ResolutionOK(resolution[r])

---------------------------------------------------------------------------
(* What each edit submits.                                                 *)

(* Sound, of the same revision, and different in its days or in its slots   *)
(* and blocks, never in both.                                              *)
GoodEdit(edited) ==
    /\ edited \in Schedules
    /\ edited.rev = schedule.rev
    /\ ActiveTemplatesSound(edited)
    /\ UsableFrom(edited, schoolDate)
    /\ \/ edited.day = schedule.day
       \/ edited.block = schedule.block /\ edited.slots = schedule.slots

(* A day of lessons has a template.                                        *)
LEMMA LessonsHaveTemplates ==
    ASSUME NEW s \in Schedules, NEW d \in Dates, s.day[d].kind = "instructional"
    PROVE  s.day[d].template \in Templates
<1>1. s.day[d] \in Lessons \cup {Unset, NoLesson}
    BY DEF Schedules
<1> QED
    BY <1>1 DEF Lessons, Unset, NoLesson

(* Opening a block takes nothing from any template. *)
LEMMA CreateBlockIsGood ==
    ASSUME ScheduleOK, NEW b \in Blocks, schedule.block[b] = "absent"
    PROVE  GoodEdit([schedule EXCEPT !.block[b] = "active"])
<1> DEFINE edited == [schedule EXCEPT !.block[b] = "active"]
<1>1. edited \in Schedules /\ edited.rev = schedule.rev /\ edited.day = schedule.day
      /\ edited.slots = schedule.slots /\ edited.template = schedule.template
    BY DEF ScheduleOK, Schedules, Statuses
<1>2. \A x \in Blocks : schedule.block[x] = "active" => edited.block[x] = "active"
    BY DEF ScheduleOK, Schedules
<1>3. \A m \in Templates : ActiveBlocks(schedule.slots[m], schedule)
                           => ActiveBlocks(edited.slots[m], edited)
    <2>1. \A m \in Templates : \A x \in schedule.slots[m] : x.block \in Blocks
        BY DEF ScheduleOK, Schedules, Slots
    <2> QED
        BY <1>1, <1>2, <2>1 DEF ActiveBlocks
<1>4. ActiveTemplatesSound(edited)
    BY <1>1, <1>3 DEF ScheduleOK, ActiveTemplatesSound
<1>5. UsableFrom(edited, schoolDate)
    BY <1>1, <1>4, LessonsHaveTemplates
    DEF ScheduleOK, CurrentDaysAreUsable, UsableFrom, ActiveTemplatesSound
<1> QED
    BY <1>1, <1>4, <1>5 DEF GoodEdit

(* A block that no active template names is missed by none. *)
LEMMA ArchiveBlockIsGood ==
    ASSUME ScheduleOK, NEW b \in Blocks, ~ InTemplates(b)
    PROVE  GoodEdit([schedule EXCEPT !.block[b] = "archived"])
<1> DEFINE edited == [schedule EXCEPT !.block[b] = "archived"]
<1>1. edited \in Schedules /\ edited.rev = schedule.rev /\ edited.day = schedule.day
      /\ edited.slots = schedule.slots /\ edited.template = schedule.template
    BY DEF ScheduleOK, Schedules, Statuses
<1>2. \A x \in Blocks : x # b => edited.block[x] = schedule.block[x]
    BY DEF ScheduleOK, Schedules
<1>3. \A m \in Templates : schedule.template[m] = "active" /\ ActiveBlocks(schedule.slots[m], schedule)
                           => ActiveBlocks(edited.slots[m], edited)
    <2> SUFFICES ASSUME NEW m \in Templates, schedule.template[m] = "active",
                        ActiveBlocks(schedule.slots[m], schedule), NEW x \in schedule.slots[m]
                 PROVE  edited.block[x.block] = "active"
        BY <1>1 DEF ActiveBlocks
    <2>1. x.block \in Blocks
        BY DEF ScheduleOK, Schedules, Slots
    <2>2. x.block # b
        BY DEF InTemplates
    <2> QED
        BY <2>1, <2>2, <1>2 DEF ActiveBlocks
<1>4. ActiveTemplatesSound(edited)
    BY <1>1, <1>3 DEF ScheduleOK, ActiveTemplatesSound
<1>5. UsableFrom(edited, schoolDate)
    BY <1>1, <1>4, LessonsHaveTemplates
    DEF ScheduleOK, CurrentDaysAreUsable, UsableFrom, ActiveTemplatesSound
<1> QED
    BY <1>1, <1>4, <1>5 DEF GoodEdit

(* A list that was accepted gives slots apart, of active blocks. *)
LEMMA ValidSlotsAreSound ==
    ASSUME ScheduleOK, NEW list \in SlotLists, ValidSlots(list)
    PROVE  /\ SlotsOf(list) \in SUBSET Slots
           /\ ActiveBlocks(SlotsOf(list), schedule)
           /\ Apart(SlotsOf(list))
<1>1. list \in Seq(Slots)
    BY ScheduleAssumption
<1>2. \A i \in DOMAIN list : list[i] \in Slots
    BY <1>1
<1>3. ASSUME NEW i \in DOMAIN list, NEW j \in DOMAIN list, list[i] # list[j]
      PROVE  list[i].until <= list[j].from \/ list[j].until <= list[i].from
    <2>1. list[i].from \in Nat /\ list[j].from \in Nat
        BY <1>2 DEF Slots
    <2>2. list[i].from <= list[j].from \/ list[j].from <= list[i].from
        BY <2>1
    <2> QED
        BY <1>3, <2>2 DEF ValidSlots
<1> QED
    <2>1. SlotsOf(list) \in SUBSET Slots
        BY <1>2 DEF SlotsOf
    <2>2. ActiveBlocks(SlotsOf(list), schedule)
        BY DEF SlotsOf, ActiveBlocks, ValidSlots
    <2>3. Apart(SlotsOf(list))
        BY <1>3 DEF SlotsOf, Apart
    <2> QED
        BY <2>1, <2>2, <2>3

(* So a template may be made of it, or made anew. *)
LEMMA TemplateEditIsGood ==
    ASSUME ScheduleOK, NEW m \in Templates, NEW list \in SlotLists, ValidSlots(list),
           NEW edited, edited \in {[schedule EXCEPT !.template[m] = "active", !.slots[m] = SlotsOf(list)],
                         [schedule EXCEPT !.slots[m] = SlotsOf(list)]}
    PROVE  GoodEdit(edited)
<1>1. edited \in Schedules /\ edited.rev = schedule.rev /\ edited.day = schedule.day
      /\ edited.block = schedule.block
    <2>1. SlotsOf(list) \in SUBSET Slots
        BY ValidSlotsAreSound
    <2>2. CASE edited = [schedule EXCEPT !.slots[m] = SlotsOf(list)]
        BY <2>1, <2>2 DEF ScheduleOK, Schedules
    <2>3. CASE edited = [schedule EXCEPT !.template[m] = "active", !.slots[m] = SlotsOf(list)]
        BY <2>1, <2>3 DEF ScheduleOK, Schedules, Statuses
    <2> QED
        BY <2>2, <2>3
<1>2. edited.slots[m] = SlotsOf(list)
    BY DEF ScheduleOK, Schedules
<1>3. \A n \in Templates : n # m => edited.slots[n] = schedule.slots[n]
                                    /\ edited.template[n] = schedule.template[n]
    BY DEF ScheduleOK, Schedules
<1>4. schedule.template[m] = "active" => edited.template[m] = "active"
    BY DEF ScheduleOK, Schedules
<1>5. \A S : ActiveBlocks(S, schedule) <=> ActiveBlocks(S, edited)
    BY <1>1 DEF ActiveBlocks
<1>6. ActiveTemplatesSound(edited)
    <2> SUFFICES ASSUME NEW n \in Templates, edited.template[n] = "active"
                 PROVE  ActiveBlocks(edited.slots[n], edited) /\ Apart(edited.slots[n])
        BY DEF ActiveTemplatesSound
    <2>1. CASE n = m
        BY <2>1, <1>2, <1>5, ValidSlotsAreSound
    <2>2. CASE n # m
        BY <2>2, <1>3, <1>5 DEF ScheduleOK, ActiveTemplatesSound
    <2> QED
        BY <2>1, <2>2
<1>7. UsableFrom(edited, schoolDate)
    <2> SUFFICES ASSUME NEW d \in Dates, schoolDate <= d, edited.day[d].kind = "instructional"
                 PROVE  edited.template[edited.day[d].template] = "active"
        BY <1>6, <1>1, LessonsHaveTemplates DEF UsableFrom, ActiveTemplatesSound
    <2>1. schedule.template[schedule.day[d].template] = "active"
        BY <1>1 DEF ScheduleOK, CurrentDaysAreUsable, UsableFrom
    <2>2. schedule.day[d].template \in Templates
        BY <1>1, LessonsHaveTemplates DEF ScheduleOK
    <2> QED
        BY <2>1, <2>2, <1>1, <1>3, <1>4
<1> QED
    BY <1>1, <1>6, <1>7 DEF GoodEdit

(* No lesson from the judged day on has the template: none from today on.   *)
LEMMA ArchiveTemplateIsGood ==
    ASSUME ScheduleOK, NEW m \in Templates, NEW today \in Dates, today <= schoolDate,
           ~ Assigned(m, today)
    PROVE  GoodEdit([schedule EXCEPT !.template[m] = "archived"])
<1> DEFINE edited == [schedule EXCEPT !.template[m] = "archived"]
<1>1. edited \in Schedules /\ edited.rev = schedule.rev /\ edited.day = schedule.day
      /\ edited.block = schedule.block /\ edited.slots = schedule.slots
    BY DEF ScheduleOK, Schedules, Statuses
<1>2. \A n \in Templates : n # m => edited.template[n] = schedule.template[n]
    BY DEF ScheduleOK, Schedules
<1>3. edited.template[m] = "archived"
    BY DEF ScheduleOK, Schedules
<1>4. \A d \in Dates : schoolDate <= d /\ schedule.day[d].kind = "instructional"
                       => schedule.day[d].template # m
    BY DEF Assigned, Dates, ScheduleOK
<1>5. \A S : ActiveBlocks(S, schedule) <=> ActiveBlocks(S, edited)
    BY <1>1 DEF ActiveBlocks
<1>6. ActiveTemplatesSound(edited)
    BY <1>1, <1>2, <1>3, <1>5 DEF ScheduleOK, ActiveTemplatesSound
<1>7. \A d \in Dates : schedule.day[d].kind = "instructional" => schedule.day[d].template \in Templates
    BY LessonsHaveTemplates DEF ScheduleOK
<1>8. UsableFrom(edited, schoolDate)
    BY <1>1, <1>2, <1>4, <1>5, <1>7 DEF ScheduleOK, CurrentDaysAreUsable, UsableFrom
<1> QED
    BY <1>1, <1>6, <1>8 DEF GoodEdit

(* A batch gives days to active templates only, which are sound. *)
LEMMA PutCalendarDaysIsGood ==
    ASSUME ScheduleOK, NEW D \in SUBSET Dates, NEW batch \in [D -> Lessons \cup {NoLesson}],
           \A d \in DOMAIN batch :
               batch[d].kind = "instructional" => schedule.template[batch[d].template] = "active"
    PROVE  GoodEdit([schedule EXCEPT !.day = [d \in Dates |->
                        IF d \in DOMAIN batch THEN batch[d] ELSE schedule.day[d]]])
<1> DEFINE edited == [schedule EXCEPT !.day = [d \in Dates |->
                        IF d \in DOMAIN batch THEN batch[d] ELSE schedule.day[d]]]
<1>1. edited \in Schedules /\ edited.rev = schedule.rev /\ edited.block = schedule.block
      /\ edited.slots = schedule.slots /\ edited.template = schedule.template
    BY DEF ScheduleOK, Schedules
<1>2. \A S : ActiveBlocks(S, schedule) <=> ActiveBlocks(S, edited)
    BY <1>1 DEF ActiveBlocks
<1>3. ActiveTemplatesSound(edited)
    BY <1>1, <1>2 DEF ScheduleOK, ActiveTemplatesSound
<1>4. UsableFrom(edited, schoolDate)
    <2> SUFFICES ASSUME NEW d \in Dates, schoolDate <= d, edited.day[d].kind = "instructional"
                 PROVE  edited.template[edited.day[d].template] = "active"
        BY <1>3, <1>1, LessonsHaveTemplates DEF UsableFrom, ActiveTemplatesSound
    <2>1. CASE d \in D
        BY <2>1, <1>1 DEF ScheduleOK, Schedules
    <2>2. CASE d \notin D
        <3>1. edited.day[d] = schedule.day[d]
            BY <2>2 DEF ScheduleOK, Schedules
        <3> QED
            BY <3>1, <1>1 DEF ScheduleOK, CurrentDaysAreUsable, UsableFrom
    <2> QED
        BY <2>1, <2>2
<1> QED
    BY <1>1, <1>3, <1>4 DEF GoodEdit

(* Every edit commits a good one. *)
LEMMA EditsAreGood ==
    ASSUME ScheduleOK, NEW e \in Editors, Edit(e)
    PROVE  \E part, edited : part \in Parts /\ GoodEdit(edited) /\ Commit(e, part, edited)
<1>1. ASSUME NEW b \in Blocks, CreateBlock(e, b)
      PROVE  \E part, edited : part \in Parts /\ GoodEdit(edited) /\ Commit(e, part, edited)
    BY <1>1, CreateBlockIsGood DEF CreateBlock, Parts
<1>2. ASSUME NEW b \in Blocks, UpdateBlock(e, b)
      PROVE  \E part, edited : part \in Parts /\ GoodEdit(edited) /\ Commit(e, part, edited)
    BY <1>2 DEF UpdateBlock, GoodEdit, ScheduleOK, CurrentDaysAreUsable, Parts
<1>3. ASSUME NEW b \in Blocks, ArchiveBlock(e, b)
      PROVE  \E part, edited : part \in Parts /\ GoodEdit(edited) /\ Commit(e, part, edited)
    BY <1>3, ArchiveBlockIsGood DEF ArchiveBlock, Parts
<1>4. ASSUME NEW m \in Templates, NEW list \in SlotLists,
             CreateTemplate(e, m, list) \/ UpdateTemplate(e, m, list)
      PROVE  \E part, edited : part \in Parts /\ GoodEdit(edited) /\ Commit(e, part, edited)
    BY <1>4, TemplateEditIsGood DEF CreateTemplate, UpdateTemplate, Parts
<1>5. ASSUME NEW m \in Templates, NEW today \in Dates, today <= schoolDate,
             ArchiveTemplate(e, m, today)
      PROVE  \E part, edited : part \in Parts /\ GoodEdit(edited) /\ Commit(e, part, edited)
    BY <1>5, ArchiveTemplateIsGood DEF ArchiveTemplate, Parts
<1>6. ASSUME NEW D \in SUBSET Dates, NEW batch \in [D -> Lessons \cup {NoLesson}],
             PutCalendarDays(e, batch)
      PROVE  \E part, edited : part \in Parts /\ GoodEdit(edited) /\ Commit(e, part, edited)
    BY <1>6, PutCalendarDaysIsGood DEF PutCalendarDays, Parts
<1> QED
    BY <1>1, <1>2, <1>3, <1>4, <1>5, <1>6 DEF Edit

---------------------------------------------------------------------------
(* Lessons of today and later.                                             *)

(* The seeded school has no day that refers to anything.                   *)
LEMMA SeedsAreOK == ScheduleInit => ScheduleOK
BY ScheduleAssumption
DEF ScheduleInit, ScheduleOK, CurrentDaysAreUsable, Dates

(* Every edit keeps the invariant.                                         *)
LEMMA StepKeepsOK == ScheduleOK /\ [ScheduleNext]_scheduleVars => ScheduleOK'
<1> SUFFICES ASSUME ScheduleOK, [ScheduleNext]_scheduleVars
             PROVE  ScheduleOK'
    OBVIOUS
<1>1. ASSUME NEW e \in Editors, Edit(e)
      PROVE  ScheduleOK'
    <2>1. PICK part, edited : part \in Parts /\ GoodEdit(edited) /\ Commit(e, part, edited)
        BY <1>1, EditsAreGood
    <2>2. schoolDate' = schoolDate /\ schedule' = [edited EXCEPT !.rev = @ + 1]
        BY <2>1 DEF Commit, Raised
    <2>3. /\ schedule' \in Schedules
          /\ schedule'.block = edited.block /\ schedule'.template = edited.template
          /\ schedule'.slots = edited.slots /\ schedule'.day = edited.day
        BY <2>1, <2>2 DEF GoodEdit, Schedules
    <2>4. \A S : ActiveBlocks(S, edited) <=> ActiveBlocks(S, schedule')
        BY <2>3 DEF ActiveBlocks
    <2>5. ActiveTemplatesSound(schedule')
        BY <2>1, <2>3, <2>4 DEF GoodEdit, ActiveTemplatesSound
    <2>6. UsableFrom(schedule', schoolDate)
        BY <2>1, <2>3, <2>4 DEF GoodEdit, UsableFrom
    <2> QED
        BY <2>2, <2>3, <2>5, <2>6 DEF ScheduleOK, CurrentDaysAreUsable
<1>2. CASE DateTurns
    <2>1. /\ schedule' = schedule /\ schoolDate' \in Dates
          /\ \A d \in Dates : schoolDate' <= d => schoolDate <= d
        BY <1>2, ScheduleAssumption DEF DateTurns, ScheduleOK, Dates
    <2> QED
        BY <2>1 DEF ScheduleOK, CurrentDaysAreUsable, UsableFrom
<1>3. CASE UNCHANGED <<schoolDate, schedule>>
    BY <1>3 DEF ScheduleOK, CurrentDaysAreUsable
<1> QED
    BY <1>1, <1>2, <1>3
    DEF ScheduleNext, scheduleVars, ReadPart, Ask, LoadCalendarDay, LoadScheduleSlots, Forget

(* The invariant holds in every reachable state.                           *)
LEMMA ScheduleIsOK == ScheduleSpec => []ScheduleOK
BY SeedsAreOK, StepKeepsOK, PTL DEF ScheduleSpec

(* "Rejects while any non-archived template still references the block":    *)
(* no lesson of today or later ever loses its template or one of its        *)
(* blocks, nor do two of its slots overlap, whoever edits what.            *)
THEOREM SchedulesAreUsable == ScheduleSpec => []CurrentDaysAreUsable
<1>1. ScheduleOK => CurrentDaysAreUsable
    BY DEF ScheduleOK
<1> QED
    BY <1>1, ScheduleIsOK, PTL

---------------------------------------------------------------------------
(* Screens.                                                                *)

(* A reading of a part shows it as it is, and one of the blocks brings the  *)
(* revision along.                                                         *)
LEMMA ReadingKeepsScreens ==
    ASSUME EditorsOK, NEW e \in Editors, NEW part \in Parts, ReadPart(e, part)
    PROVE  EditorsOK'
<1>1. editor[e] \in Screens /\ schedule.rev \in Nat /\ schoolDate \in Dates /\ ScreenOK(editor[e])
    BY DEF EditorsOK, ScreenOK, Schedules
<1>2. ScreenOK(editor'[e])
    <2>1. CASE part = "blocks"
        <3>1. editor'[e] = ShowsBlocks(editor[e])
            BY <2>1 DEF ReadPart, EditorsOK
        <3> QED
            BY <1>1, <3>1 DEF ScreenOK, Screens, ShowsBlocks
    <2>2. CASE part # "blocks"
        <3>1. editor'[e] = ShowsPart(editor[e], part)
            BY <2>2 DEF ReadPart, EditorsOK
        <3> DEFINE q == editor[e]
                   shown == q.outdated \ {part}
                   older == q.before \ {part}
        <3>2. ShowsPart(q, part) = [q EXCEPT !.outdated = shown, !.before = older]
            BY Zenon DEF ShowsPart
        <3>3. shown \in SUBSET Parts /\ older \in SUBSET Parts /\ q \in Screens
              /\ (q.outdated \subseteq q.before => shown \subseteq older)
            BY <1>1 DEF Screens
        <3>4. q.rev <= schedule.rev /\ (q.rev = schedule.rev => q.outdated \subseteq q.before)
            BY <1>1 DEF ScreenOK
        <3> HIDE DEF q, shown, older
        <3>5. /\ ShowsPart(q, part) \in Screens /\ ShowsPart(q, part).rev = q.rev
              /\ ShowsPart(q, part).outdated = shown /\ ShowsPart(q, part).before = older
            BY <3>2, <3>3 DEF Screens
        <3>6. ScreenOK(ShowsPart(q, part))
            BY <3>3, <3>4, <3>5 DEF ScreenOK
        <3> QED
            BY <3>1, <3>6 DEF q
    <2> QED
        BY <2>1, <2>2
<1>3. \A x \in Editors \ {e} : editor'[x] = editor[x]
    BY DEF ReadPart, EditorsOK
<1>4. schedule' = schedule /\ schoolDate' = schoolDate /\ DOMAIN editor' = Editors
    BY DEF ReadPart, EditorsOK
<1> QED
    BY <1>2, <1>3, <1>4 DEF EditorsOK, ScreenOK

(* After an edit no screen has the last revision. *)
LEMMA EditKeepsScreens ==
    ASSUME ScheduleOK, EditorsOK, NEW e \in Editors, Edit(e)
    PROVE  EditorsOK'
<1>1. PICK part, edited : part \in Parts /\ GoodEdit(edited) /\ Commit(e, part, edited)
    BY EditsAreGood
<1>2. schedule' \in Schedules /\ schedule'.rev = schedule.rev + 1
    <2>1. schedule' = [edited EXCEPT !.rev = @ + 1]
        BY <1>1 DEF Commit, Raised
    <2>2. edited \in Schedules /\ edited.rev = schedule.rev
        BY <1>1 DEF GoodEdit
    <2> QED
        BY <2>1, <2>2 DEF Schedules
<1>3. DOMAIN editor' = Editors /\ schoolDate' = schoolDate
    BY <1>1 DEF Commit
<1>4. ASSUME NEW x \in Editors
      PROVE  ScreenOK(editor[x])'
    <2>1. editor[x] \in Screens /\ editor[x].rev <= schedule.rev /\ schedule.rev \in Nat
        BY DEF EditorsOK, ScreenOK, Schedules
    <2> DEFINE stage == IF x = e THEN "reading" ELSE editor[x].stage
               missed == editor[x].outdated \cup {part}
    <2>2. editor'[x] = [stage |-> stage, rev |-> editor[x].rev, on |-> editor[x].on,
                        outdated |-> missed, before |-> editor[x].before]
        BY <1>1, <2>1 DEF Commit, Screens
    <2>3. editor'[x] \in Screens /\ editor'[x].rev = editor[x].rev
        <3>1. stage \in {"reading", "open"} /\ missed \in SUBSET Parts
            BY <1>1, <2>1 DEF Screens
        <3> HIDE DEF stage, missed
        <3> QED
            BY <2>1, <2>2, <3>1 DEF Screens
    <2>4. editor'[x].rev \in Nat /\ editor'[x].rev < schedule'.rev
        BY <1>2, <2>1, <2>3 DEF Screens
    <2>5. editor'[x].rev <= schedule'.rev /\ editor'[x].rev # schedule'.rev
        BY <2>4, <1>2 DEF Schedules
    <2> QED
        BY <2>3, <2>5 DEF ScreenOK
<1> QED
    BY <1>2, <1>3, <1>4 DEF EditorsOK

LEMMA StepKeepsScreens ==
    ASSUME ScheduleOK, EditorsOK, [ScheduleNext]_scheduleVars
    PROVE  EditorsOK'
<1>1. CASE DateTurns
    BY <1>1, ScheduleAssumption DEF DateTurns, EditorsOK, ScreenOK, Dates
<1>2. CASE UNCHANGED <<schoolDate, schedule, editor>>
    BY <1>2 DEF EditorsOK, ScreenOK
<1> QED
    BY <1>1, <1>2, EditKeepsScreens, ReadingKeepsScreens
    DEF ScheduleNext, scheduleVars, Ask, LoadCalendarDay, LoadScheduleSlots, Forget

(* So it does in every reachable state.                                    *)
LEMMA ScreensAreOK == ScheduleSpec => []EditorsOK
<1>1. ScheduleInit => EditorsOK
    BY ScheduleAssumption
    DEF ScheduleInit, EditorsOK, ScreenOK, Screens, NothingRead, Dates, Schedules
<1>2. ScheduleOK /\ EditorsOK /\ [ScheduleNext]_scheduleVars => EditorsOK'
    BY StepKeepsScreens
<1> QED
    BY <1>1, <1>2, ScheduleIsOK, PTL DEF ScheduleSpec

(* The If-Match of the blocks protects the three parts that were read apart  *)
(* from the moment the blocks were read: what an edit overwrites unseen is  *)
(* older than that.                                                        *)
THEOREM EditsAreInformed == ScheduleSpec => NoLostEdit
<1>1. ASSUME ScheduleOK, EditorsOK, [ScheduleNext]_scheduleVars, schedule' # schedule
      PROVE  \E e \in Editors :
                 /\ editor[e].stage = "open" /\ editor'[e].stage = "reading"
                 /\ editor[e].outdated \subseteq editor[e].before
    <2>1. PICK e \in Editors : Edit(e)
        BY <1>1 DEF ScheduleNext, scheduleVars, DateTurns, ReadPart, Ask, LoadCalendarDay,
            LoadScheduleSlots, Forget
    <2>2. PICK part, edited : part \in Parts /\ Commit(e, part, edited)
        BY <1>1, <2>1, EditsAreGood
    <2>3. editor[e].stage = "open" /\ editor[e].rev = schedule.rev
        BY <2>2 DEF Commit, Matches
    <2>4. editor'[e].stage = "reading"
        <3>1. editor'[e] = [editor[e] EXCEPT !.stage = "reading", !.outdated = @ \cup {part}]
            BY <2>2 DEF Commit
        <3>2. editor[e] \in Screens
            BY <1>1 DEF EditorsOK, ScreenOK
        <3> QED
            BY <3>1, <3>2 DEF Screens
    <2>5. editor[e].outdated \subseteq editor[e].before
        BY <1>1, <2>3 DEF EditorsOK, ScreenOK
    <2> QED
        BY <2>3, <2>4, <2>5
<1> QED
    BY <1>1, ScheduleIsOK, ScreensAreOK, PTL DEF ScheduleSpec, NoLostEdit

---------------------------------------------------------------------------
(* Resolutions.                                                            *)

(* A placement is the outcome for the lesson of the day. *)
LEMMA PlacementIsOutcome ==
    ASSUME NEW s, NEW date, NEW time
    PROVE  Placement(s, date, time) =
               IF s.day[date].kind # "instructional" THEN <<s.day[date].kind>>
               ELSE Outcome(s, s.day[date], date, time)
BY DEF Placement, Outcome

(* An outcome depends on the slots and the blocks, and on nothing else. *)
LEMMA OutcomeOfSlots ==
    ASSUME NEW s, NEW t, s.slots = t.slots, s.block = t.block,
           NEW lesson, NEW date, NEW time
    PROVE  Outcome(s, lesson, date, time) = Outcome(t, lesson, date, time)
<1>1. ActiveSlots(s, lesson.template, time) = ActiveSlots(t, lesson.template, time)
    BY DEF ActiveSlots
<1> QED
    BY <1>1 DEF Outcome

(* An edit falls into a resolution: the day that was read is still the      *)
(* day, or the slots and blocks are still what they were.                  *)
LEMMA EditKeepsResolution ==
    ASSUME ScheduleOK, ResolutionsOK, NEW e \in Editors, NEW edited, GoodEdit(edited),
           NEW part \in Parts, Commit(e, part, edited), NEW r \in Resolutions
    PROVE  ResolutionOK(resolution[r])'
<1> DEFINE q == resolution[r]
           now == Placement(edited, q.date, q.time)
<1>1. schedule'.day = edited.day /\ schedule'.slots = edited.slots
      /\ schedule'.block = edited.block
    BY DEF Commit, Raised, GoodEdit, Schedules
<1>2. ResolutionOK(q)
    BY DEF ResolutionsOK
<1>3. CASE q.stage \notin {"asked", "day"}
    <2>1. resolution'[r] = q
        BY <1>3 DEF Commit
    <2> QED
        BY <2>1, <1>2, <1>3 DEF ResolutionOK
<1>4. CASE q.stage \in {"asked", "day"}
    <2>1. resolution'[r] = [q EXCEPT !.edits = IF @ < 2 THEN @ + 1 ELSE 2, !.truth = @ \cup {now}]
        BY <1>4 DEF Commit
    <2>2. /\ DOMAIN q = IF q.stage = "asked" THEN AskedParts ELSE AskedParts \cup {"lesson"}
          /\ q.date \in Dates /\ q.edits \in 0..2
        BY <1>2, <1>4 DEF ResolutionOK, Unasked
    <2>3. /\ DOMAIN resolution'[r] = DOMAIN q
          /\ resolution'[r].stage = q.stage /\ resolution'[r].date = q.date
          /\ resolution'[r].time = q.time
          /\ resolution'[r].edits = IF q.edits < 2 THEN q.edits + 1 ELSE 2
          /\ resolution'[r].truth = q.truth \cup {now}
          /\ q.stage = "day" => resolution'[r].lesson = q.lesson
        BY <2>1, <2>2, <1>4 DEF AskedParts
    <2>4. Placement(schedule', q.date, q.time) = now
        BY <1>1, PlacementIsOutcome, OutcomeOfSlots
    <2>5. ASSUME q.stage = "day", resolution'[r].edits <= 1
          PROVE  Outcome(schedule', q.lesson, q.date, q.time) \in resolution'[r].truth
        <3>1. q.edits = 0
            BY <2>5, <2>3, <2>2
        <3>2. /\ q.lesson.kind = "instructional" /\ q.lesson = schedule.day[q.date]
              /\ Placement(schedule, q.date, q.time) \in q.truth
            BY <1>2, <2>5, <3>1 DEF ResolutionOK, Unasked
        <3>3. CASE edited.day = schedule.day
            <4>1. Outcome(schedule', q.lesson, q.date, q.time) = now
                BY <3>2, <3>3, <1>1, PlacementIsOutcome, OutcomeOfSlots
            <4> QED
                BY <4>1, <2>3
        <3>4. CASE edited.block = schedule.block /\ edited.slots = schedule.slots
            <4>1. Outcome(schedule', q.lesson, q.date, q.time)
                    = Outcome(schedule, q.lesson, q.date, q.time)
                BY <3>4, <1>1, OutcomeOfSlots
            <4>2. Outcome(schedule, q.lesson, q.date, q.time) = Placement(schedule, q.date, q.time)
                BY <3>2, PlacementIsOutcome
            <4> QED
                BY <4>1, <4>2, <3>2, <2>3
        <3> QED
            BY <3>3, <3>4 DEF GoodEdit
    <2>6. q.stage = "day" => q.lesson.kind = "instructional"
        BY <1>2 DEF ResolutionOK, Unasked
    <2>7. resolution'[r].edits \in 1..2
        BY <2>2, <2>3
    <2> QED
        BY <2>2, <2>3, <2>4, <2>5, <2>6, <2>7, <1>4 DEF ResolutionOK
<1> QED
    BY <1>3, <1>4

(* Every step keeps what the resolutions have read.                        *)
LEMMA StepKeepsResolutions ==
    ASSUME ScheduleOK, ResolutionsOK, [ScheduleNext]_scheduleVars
    PROVE  ResolutionsOK'
<1>1. ASSUME NEW e \in Editors, Edit(e)
      PROVE  ResolutionsOK'
    <2>1. PICK part, edited : part \in Parts /\ GoodEdit(edited) /\ Commit(e, part, edited)
        BY <1>1, EditsAreGood
    <2>2. schedule' \in Schedules
        <3>1. schedule' = [edited EXCEPT !.rev = @ + 1]
            BY <2>1 DEF Commit, Raised
        <3> QED
            BY <2>1, <3>1 DEF GoodEdit, Schedules
    <2>3. DOMAIN resolution' = Resolutions /\ schoolDate' = schoolDate
        BY <2>1 DEF Commit
    <2> QED
        BY <2>1, <2>2, <2>3, EditKeepsResolution DEF ResolutionsOK
<1>2. CASE DateTurns
    BY <1>2, StepKeepsOK DEF DateTurns, ScheduleOK, ResolutionsOK, ResolutionOK
<1>3. ASSUME NEW r \in Resolutions,
             \/ \E time \in Moments : Ask(r, time)
             \/ LoadCalendarDay(r) \/ LoadScheduleSlots(r) \/ Forget(r)
      PROVE  ResolutionsOK'
    <2> DEFINE q == resolution[r]
    <2>1. UNCHANGED <<schoolDate, schedule>>
        BY <1>3 DEF Ask, LoadCalendarDay, LoadScheduleSlots, Forget
    <2>2. /\ DOMAIN resolution' = Resolutions
          /\ \A x \in Resolutions : x # r => resolution'[x] = resolution[x]
        BY <1>3 DEF Ask, LoadCalendarDay, LoadScheduleSlots, Forget, ResolutionsOK
    <2>3. ResolutionOK(q)
        BY DEF ResolutionsOK
    <2>4. ASSUME NEW time \in Moments, Ask(r, time)
          PROVE  ResolutionOK(resolution[r])'
        <3>1. resolution'[r] = [stage |-> "asked", date |-> schoolDate, time |-> time, edits |-> 0,
                                truth |-> {Placement(schedule, schoolDate, time)}]
            BY <2>4 DEF Ask, ResolutionsOK
        <3> QED
            BY <3>1, <2>1 DEF ResolutionOK, ResolutionsOK, AskedParts
    <2>5. ASSUME LoadCalendarDay(r) /\ schedule.day[q.date].kind # "instructional"
          PROVE  ResolutionOK(resolution[r])'
        <3>1. resolution'[r] = Answer(r, <<schedule.day[q.date].kind>>)
            BY <2>5 DEF LoadCalendarDay, ResolutionsOK
        <3>2. Placement(schedule, q.date, q.time) \in q.truth
            BY <2>3, <2>5 DEF LoadCalendarDay, ResolutionOK, Unasked
        <3>3. Placement(schedule, q.date, q.time) = <<schedule.day[q.date].kind>>
            BY <2>5, PlacementIsOutcome
        <3> QED
            BY <3>1, <3>2, <3>3 DEF ResolutionOK, Answer
    <2>6. ASSUME LoadCalendarDay(r) /\ schedule.day[q.date].kind = "instructional"
          PROVE  ResolutionOK(resolution[r])'
        <3>1. resolution'[r] = [stage |-> "day", date |-> q.date, time |-> q.time, edits |-> q.edits,
                                truth |-> q.truth, lesson |-> schedule.day[q.date]]
            BY <2>6 DEF LoadCalendarDay, ResolutionsOK
        <3>2. /\ Placement(schedule, q.date, q.time) \in q.truth
              /\ q.date \in Dates /\ q.edits \in 0..2
            BY <2>3, <2>6 DEF LoadCalendarDay, ResolutionOK, Unasked
        <3>3. Placement(schedule, q.date, q.time) = Outcome(schedule, schedule.day[q.date], q.date, q.time)
            BY <2>6, PlacementIsOutcome
        <3> QED
            BY <3>1, <3>2, <3>3, <2>1, <2>6 DEF ResolutionOK, AskedParts
    <2>7. ASSUME LoadScheduleSlots(r)
          PROVE  ResolutionOK(resolution[r])'
        <3>1. resolution'[r] = Answer(r, Outcome(schedule, q.lesson, q.date, q.time))
            BY <2>7 DEF LoadScheduleSlots, ResolutionsOK, Outcome
        <3>2. q.edits <= 1 => Outcome(schedule, q.lesson, q.date, q.time) \in q.truth
            BY <2>3, <2>7 DEF LoadScheduleSlots, ResolutionOK, Unasked
        <3> QED
            BY <3>1, <3>2 DEF ResolutionOK, Answer
    <2>8. ASSUME Forget(r)
          PROVE  ResolutionOK(resolution[r])'
        BY <2>8 DEF Forget, ResolutionsOK, ResolutionOK
    <2>9. ResolutionOK(resolution[r])'
        BY <1>3, <2>4, <2>5, <2>6, <2>7, <2>8
    <2>10. ASSUME NEW x \in Resolutions, x # r
           PROVE  ResolutionOK(resolution[x])'
        <3>1. ResolutionOK(resolution[x])
            BY DEF ResolutionsOK
        <3> QED
            BY <3>1, <2>1, <2>2, <2>10 DEF ResolutionOK
    <2> QED
        BY <2>1, <2>2, <2>9, <2>10 DEF ResolutionsOK
<1>4. CASE UNCHANGED <<schoolDate, schedule, resolution>>
    BY <1>4 DEF ResolutionsOK, ResolutionOK
<1> QED
    BY <1>1, <1>2, <1>3, <1>4 DEF ScheduleNext, scheduleVars, ReadPart

(* The queries of the placement resolver run outside any transaction, and   *)
(* still one edit between them cannot tear the answer.                     *)
THEOREM OneEditIsHarmless == ScheduleSpec => []OneEditNeverTears
<1>1. ScheduleInit => ResolutionsOK
    BY ScheduleAssumption DEF ScheduleInit, ResolutionsOK, ResolutionOK, Dates
<1>2. ScheduleOK /\ ResolutionsOK /\ [ScheduleNext]_scheduleVars => ResolutionsOK'
    BY StepKeepsResolutions
<1>3. ResolutionsOK => OneEditNeverTears
    BY DEF ResolutionsOK, ResolutionOK, OneEditNeverTears, Unasked
<1> QED
    BY <1>1, <1>2, <1>3, ScheduleIsOK, PTL DEF ScheduleSpec

-----------------------------------------------------------------------------
(* References between rows. *)

(* What a row may refer to. *)
RefersTo(x) ==
    IF x \in Locations THEN Locations
    ELSE IF x \in Places THEN Locations \cup Categories
    ELSE IF x \in Duties \cup Rules THEN Places ELSE {}

LiveAs(x, as) ==
    CASE x \in Places -> as \in {"closed", "active"}
      [] x \in Rules -> as = "enabled"
      [] OTHER -> as = "active"

(* Written now, a command makes no live row refer to an archived one that   *)
(* did not already.                                                        *)
Harmless(x, to, as) ==
    /\ (x \notin Locations /\ LiveAs(x, as)) =>
          \A y \in to : standing[y] = "archived" => Live(x) /\ y \in refs[x]
    /\ as = "archived" =>
          \A z \in Things \ Locations : (Live(z) /\ x \in refs[z]) => standing[x] = "archived"

CommandOK(do) ==
    /\ do.stage = "flow" => do.on \in Places
    /\ do.stage = "decided" =>
        /\ do.on \in Things /\ do.to \subseteq RefersTo(do.on)
        /\ do.overtaken \in BOOLEAN
        /\ DOMAIN do = {"stage", "on", "to", "as", "locks", "flow", "overtaken"}
        /\ ~ do.overtaken => Harmless(do.on, do.to, do.as)

SetupOK ==
    /\ DOMAIN standing = Things /\ DOMAIN refs = Things /\ DOMAIN command = Clerks
    /\ \A x \in Things : refs[x] \subseteq RefersTo(x)
    /\ \A c \in Clerks : CommandOK(command[c])
    /\ DangleOnlyLate

(* Kinds of rows have nothing in common.                                   *)
LEMMA KindsDiffer ==
    /\ Locations \cap Categories = {} /\ Locations \cap Places = {}
    /\ Locations \cap Duties = {} /\ Locations \cap Rules = {}
    /\ Categories \cap Places = {} /\ Categories \cap Duties = {}
    /\ Categories \cap Rules = {} /\ Places \cap Duties = {}
    /\ Places \cap Rules = {} /\ Duties \cap Rules = {}
BY SetupAssumption

(* A row is live by its kind and its standing.                             *)
LEMMA LiveIs == \A x : Live(x) <=> LiveAs(x, standing[x])
BY DEF Live, LiveAs

(* No row is live once archived or revoked; the others by their kind.       *)
LEMMA LiveByKind ==
    /\ \A x : \A as \in {"archived", "revoked", "disabled"} : ~ LiveAs(x, as)
    /\ \A x \in Places : \A as : LiveAs(x, as) <=> as \in {"closed", "active"}
    /\ \A x \in Rules : \A as : LiveAs(x, as) <=> as = "enabled"
    /\ \A x \in Duties : \A as : LiveAs(x, as) <=> as = "active"
<1>1. \A x : \A as \in {"archived", "revoked", "disabled"} : ~ LiveAs(x, as)
  BY DEF LiveAs
<1>2. \A x \in Places : \A as : LiveAs(x, as) <=> as \in {"closed", "active"}
  BY KindsDiffer DEF LiveAs
<1>3. \A x \in Rules : \A as : LiveAs(x, as) <=> as = "enabled"
  BY KindsDiffer DEF LiveAs
<1>4. \A x \in Duties : \A as : LiveAs(x, as) <=> as = "active"
  BY KindsDiffer DEF LiveAs
<1> QED
  BY <1>1, <1>2, <1>3, <1>4

(* What it takes for a row to dangle.                                      *)
LEMMA DanglingIs ==
    \A x, y : <<x, y>> \in Dangling <=>
        (x \in Things \ Locations /\ y \in Things /\ Live(x) /\ y \in refs[x] /\ standing[y] = "archived")
BY DEF Dangling

(* A command is decided that would do no harm now.                         *)
LEMMA DecisionsKeepOK ==
    ASSUME SetupOK, NEW c \in Clerks, NEW x \in Things, NEW to, to \subseteq RefersTo(x),
           NEW as, Harmless(x, to, as), NEW locks, NEW flow, Decide(c, x, to, as, locks, flow)
    PROVE  SetupOK'
<1> DEFINE do == [stage |-> "decided", on |-> x, to |-> to, as |-> as, locks |-> locks,
                  flow |-> flow, overtaken |-> FALSE]
<1>1. command' = [command EXCEPT ![c] = do] /\ UNCHANGED <<standing, refs, late>>
  BY DEF Decide
<1>2. \A y, t, a : Harmless(y, t, a)' <=> Harmless(y, t, a)
  BY <1>1 DEF Harmless, Live
<1>3. CommandOK(do)
  BY DEF CommandOK
<1>4. \A e : CommandOK(e)' <=> CommandOK(e)
  BY <1>2 DEF CommandOK
<1>5. DangleOnlyLate'
  BY <1>1 DEF SetupOK, DangleOnlyLate, Dangling, Live
<1> HIDE DEF do
<1>6. \A d \in Clerks : CommandOK(command'[d])
  BY <1>1, <1>3 DEF SetupOK
<1> QED
  BY <1>1, <1>4, <1>5, <1>6 DEF SetupOK

(* Steps that write nothing and decide nothing.                            *)
LEMMA QuietStepsKeepOK ==
    ASSUME SetupOK, UNCHANGED <<standing, refs, late>>,
           \/ UNCHANGED command
           \/ \E c \in Clerks : \E e : /\ e.stage # "decided" /\ (e.stage = "flow" => e.on \in Places)
                                       /\ command' = [command EXCEPT ![c] = e]
    PROVE  SetupOK'
<1>2. \A y, t, a : Harmless(y, t, a)' <=> Harmless(y, t, a)
  BY DEF Harmless, Live
<1>4. \A e : CommandOK(e)' <=> CommandOK(e)
  BY <1>2 DEF CommandOK
<1>5. DangleOnlyLate'
  BY DEF SetupOK, DangleOnlyLate, Dangling, Live
<1>6. DOMAIN command' = Clerks /\ \A d \in Clerks : CommandOK(command'[d])
  <2>1. CASE UNCHANGED command
    BY <2>1 DEF SetupOK
  <2>2. ASSUME NEW c \in Clerks, NEW e, e.stage # "decided", e.stage = "flow" => e.on \in Places,
               command' = [command EXCEPT ![c] = e]
        PROVE  DOMAIN command' = Clerks /\ \A d \in Clerks : CommandOK(command'[d])
    <3>1. CommandOK(e)
      BY <2>2 DEF CommandOK
    <3> QED
      BY <2>2, <3>1 DEF SetupOK
  <2> QED
    BY <2>1, <2>2
<1> QED
  BY <1>4, <1>5, <1>6 DEF SetupOK

(* The write: harmless, or on an overtaken check and remembered as late.    *)
LEMMA CommitsKeepOK ==
    ASSUME SetupOK, NEW c \in Clerks, CommitCommand(c)
    PROVE  SetupOK'
<1> DEFINE do == command[c]
<1>1. /\ do.stage = "decided" /\ CommandOK(do)
      /\ standing' = [standing EXCEPT ![do.on] = do.as]
      /\ refs' = [refs EXCEPT ![do.on] = do.to]
      /\ late' = IF do.overtaken THEN late \cup (Dangling' \ Dangling) ELSE late
  BY DEF CommitCommand, SetupOK
<1>2. /\ do.on \in Things /\ do.to \subseteq RefersTo(do.on) /\ do.overtaken \in BOOLEAN
      /\ ~ do.overtaken => Harmless(do.on, do.to, do.as)
  BY <1>1 DEF CommandOK
<1> DEFINE x == do.on
<1> HIDE DEF x, do
<1>3. \A z \in Things : /\ standing'[z] = IF z = x THEN do.as ELSE standing[z]
                        /\ refs'[z] = IF z = x THEN do.to ELSE refs[z]
  BY <1>1 DEF SetupOK, x
<1>4. DOMAIN standing' = Things /\ DOMAIN refs' = Things /\ \A z \in Things : refs'[z] \subseteq RefersTo(z)
  BY <1>1, <1>2, <1>3 DEF SetupOK, x
<1>5. DangleOnlyLate'
  <2>1. CASE do.overtaken
    BY <1>1, <2>1 DEF SetupOK, DangleOnlyLate
  <2>2. CASE ~ do.overtaken
    <3> SUFFICES ASSUME NEW p \in Dangling' PROVE p \in Dangling
      BY <1>1, <2>2 DEF SetupOK, DangleOnlyLate
    <3> DEFINE u == p[1]
               y == p[2]
    <3>1. /\ p \in (Things \ Locations) \X Things
          /\ u \in Things /\ u \notin Locations /\ y \in Things
          /\ Live(u)' /\ y \in refs'[u] /\ standing'[y] = "archived"
      BY DEF Dangling
    <3>2. LiveAs(u, standing'[u])
      BY <3>1 DEF Live, LiveAs
    <3> HIDE DEF u, y
    <3>3. Harmless(x, do.to, do.as)
      BY <1>2, <2>2 DEF x
    <3>4. y # u
      BY <3>1, <3>2 DEF LiveAs
    <3>5. CASE u = x
      BY <1>3, <3>1, <3>2, <3>3, <3>4, <3>5 DEF Harmless, Dangling, u, y
    <3>6. CASE u # x
      <4>1. Live(u) /\ y \in refs[u]
        BY <1>3, <3>1, <3>2, <3>6, LiveIs
      <4>2. standing[y] = "archived"
        BY <1>3, <3>1, <3>3, <3>6, <4>1 DEF Harmless
      <4> QED
        BY <3>1, <4>1, <4>2 DEF Dangling, u, y
    <3> QED
      BY <3>5, <3>6
  <2> QED
    BY <1>2, <2>1, <2>2
<1>6. DOMAIN command' = Clerks /\ \A d \in Clerks : CommandOK(command[d]) => CommandOK(command[d])'
  <2>1. command' = [d \in Clerks |->
          IF d = c THEN NoCommand
          ELSE IF command[d].stage = "decided" THEN [command[d] EXCEPT !.overtaken = TRUE]
          ELSE command[d]]
    BY DEF CommitCommand
  <2>2. ASSUME NEW d \in Clerks, CommandOK(command[d]) PROVE CommandOK(command[d])'
    <3>1. CASE command'[d] = NoCommand
      <4>1. NoCommand.stage = "none"
        BY DEF NoCommand
      <4> QED
        BY <3>1, <4>1 DEF CommandOK
    <3>3. CASE command'[d] = command[d] /\ command[d].stage # "decided"
      BY <2>2, <3>3 DEF CommandOK
    <3>2. CASE command[d].stage = "decided" /\ command'[d] = [command[d] EXCEPT !.overtaken = TRUE]
      BY <2>2, <3>2 DEF CommandOK
    <3> QED
      BY <2>1, <3>1, <3>3, <3>2
  <2> QED
    BY <2>1, <2>2
<1> QED
  BY <1>4, <1>5, <1>6 DEF SetupOK

---------------------------------------------------------------------------
(* The commands: what each checks is what keeps its write from harm.        *)

(* A new row, or one that was created before.                              *)
LEMMA CreatesKeepsOK ==
    ASSUME SetupOK, NEW c \in Clerks, NEW x \in Things, NEW to, to \subseteq RefersTo(x),
           NEW as, Harmless(x, to, as), Creates(c, x, to, as) \/ Changes(c, x, to, as)
    PROVE  SetupOK'
BY DecisionsKeepOK DEF Creates, Changes

(* Locations refer to locations, and nothing live is referred to when it    *)
(* goes.                                                                   *)
LEMMA LocationsKeepOK ==
    ASSUME SetupOK, NEW c \in Clerks, LocationCommand(c)
    PROVE  SetupOK'
<1>1. PICK l \in Locations :
        \/ \E parents \in Singles : CreateLocation(c, l, parents) \/ UpdateLocation(c, l, parents)
                                    \/ UpdateLocationWalks(c, l, parents)
        \/ ArchiveLocation(c, l)
  BY DEF LocationCommand
<1>2. l \in Things /\ RefersTo(l) = Locations
  BY DEF Things, RefersTo
<1>3. \A to : Harmless(l, to, "active") /\ Harmless(l, to, standing[l])
  BY DEF Harmless
<1>4. ASSUME NEW parents \in Singles, CreateLocation(c, l, parents) \/ UpdateLocation(c, l, parents)
      PROVE  SetupOK'
  <2>1. parents \subseteq RefersTo(l)
    BY <1>2 DEF Singles
  <2> QED
    BY <1>2, <1>3, <1>4, <2>1, CreatesKeepsOK DEF CreateLocation, UpdateLocation
<1>5. ASSUME NEW parents \in Singles, UpdateLocationWalks(c, l, parents)
      PROVE  SetupOK'
  <2> DEFINE e == [stage |-> "walks", on |-> l, locks |-> TRUE]
  <2>1. /\ command' = [command EXCEPT ![c] = e] /\ e.stage = "walks"
        /\ UNCHANGED <<standing, refs, late>>
    BY <1>5 DEF UpdateLocationWalks
  <2> HIDE DEF e
  <2> QED
    BY <2>1, QuietStepsKeepOK
<1>6. CASE ArchiveLocation(c, l)
  <2>1. ~ InUse(l) /\ Changes(c, l, refs[l], "archived")
    BY <1>6 DEF ArchiveLocation
  <2>2. \A z \in Things \ Locations : l \in refs[z] => z \in Places
    BY KindsDiffer DEF SetupOK, RefersTo, Things
  <2>3. Harmless(l, refs[l], "archived")
    BY <2>1, <2>2, LiveIs, LiveByKind DEF Harmless, InUse
  <2> QED
    BY <1>2, <2>1, <2>3, CreatesKeepsOK DEF SetupOK
<1> QED
  BY <1>1, <1>4, <1>5, <1>6

(* Destinations refer to a location and a category that were active.       *)
LEMMA DestinationsKeepOK ==
    ASSUME SetupOK, NEW c \in Clerks, DestinationCommand(c)
    PROVE  SetupOK'
<1>1. ASSUME NEW k \in Categories, CreateCategory(c, k) \/ UpdateCategory(c, k) \/ ArchiveCategory(c, k)
      PROVE  SetupOK'
  <2>1. k \in Things /\ RefersTo(k) = {}
    BY KindsDiffer DEF Things, RefersTo
  <2>2. \A z \in Things \ Locations : k \in refs[z] => z \in Places
    BY KindsDiffer DEF SetupOK, RefersTo, Things
  <2>3. Harmless(k, {}, "active")
    BY DEF Harmless
  <2>4. ~ InUse(k) => Harmless(k, {}, "archived")
    BY <2>2, LiveIs, LiveByKind DEF Harmless, InUse
  <2> QED
    BY <1>1, <2>1, <2>3, <2>4, CreatesKeepsOK DEF CreateCategory, UpdateCategory, ArchiveCategory
<1>2. ASSUME NEW p \in Places, NEW l \in Locations, NEW k \in Categories,
             CreateDestination(c, p, l, k) \/ UpdateDestination(c, p, l, k)
      PROVE  SetupOK'
  <2>1. p \in Things /\ {l, k} \subseteq RefersTo(p)
    BY KindsDiffer DEF Things, RefersTo
  <2>2. UsableSite(l, k)
    BY <1>2 DEF CreateDestination, UpdateDestination
  <2>3. \A as \in {"closed", "active"} : Harmless(p, {l, k}, as)
    BY <2>2 DEF Harmless, UsableSite
  <2> QED
    BY <1>2, <2>1, <2>3, CreatesKeepsOK DEF CreateDestination, UpdateDestination
<1>3. ASSUME NEW p \in Places, OpenDestination(c, p) \/ CloseDestination(c, p)
      PROVE  SetupOK'
  <2>1. p \in Things /\ refs[p] \subseteq RefersTo(p)
    BY DEF Things, SetupOK
  <2>2. standing[p] \in {"closed", "active"}
    BY <1>3 DEF OpenDestination, CloseDestination
  <2>3. Live(p)
    BY <2>2, LiveIs, LiveByKind
  <2>4. \A as \in {"closed", "active"} : Harmless(p, refs[p], as)
    BY <2>3 DEF Harmless
  <2> QED
    BY <1>3, <2>1, <2>4, CreatesKeepsOK DEF OpenDestination, CloseDestination
<1>4. ASSUME NEW p \in Places, ArchiveDestination(c, p)
      PROVE  SetupOK'
  <2> DEFINE e == [stage |-> "flow", on |-> p, flow |-> TRUE]
  <2>1. /\ command' = [command EXCEPT ![c] = e] /\ e.stage = "flow" /\ e.on = p
        /\ UNCHANGED <<standing, refs, late>>
    BY <1>4 DEF ArchiveDestination
  <2> HIDE DEF e
  <2> QED
    BY <2>1, QuietStepsKeepOK
<1>5. CASE ArchiveDestinationChecks(c)
  <2> DEFINE p == command[c].on
  <2>1. /\ standing[p] \in {"closed", "active"} /\ Archivable(p)
        /\ Decide(c, p, refs[p], "archived", TRUE, TRUE)
    BY <1>5 DEF ArchiveDestinationChecks
  <2>2. p \in Things /\ p \in Places /\ refs[p] \subseteq RefersTo(p)
    BY <1>5, KindsDiffer DEF ArchiveDestinationChecks, SetupOK, CommandOK, Things
  <2>3. \A z \in Things \ Locations : p \in refs[z] => z \in Duties \cup Rules
    BY <2>2, KindsDiffer DEF SetupOK, RefersTo, Things
  <2>4. Harmless(p, refs[p], "archived")
    BY <2>1, <2>3, LiveIs, LiveByKind DEF Harmless, Archivable
  <2> QED
    BY <2>1, <2>2, <2>4, DecisionsKeepOK
<1> QED
  BY <1>1, <1>2, <1>3, <1>4, <1>5 DEF DestinationCommand

(* Duties and enabled rules refer to destinations in service.              *)
LEMMA ScopesKeepOK ==
    ASSUME SetupOK, NEW c \in Clerks, ScopeCommand(c)
    PROVE  SetupOK'
<1>1. ASSUME NEW g \in Duties, NEW p \in Places, IssueGrant(c, g, p)
      PROVE  SetupOK'
  <2>1. g \in Things /\ {p} \subseteq RefersTo(g)
    BY KindsDiffer DEF Things, RefersTo
  <2>2. Harmless(g, {p}, "active")
    BY <1>1 DEF IssueGrant, UsableScope, Harmless
  <2> QED
    BY <1>1, <2>1, <2>2, DecisionsKeepOK DEF IssueGrant
<1>2. ASSUME NEW g \in Duties, RevokeGrant(c, g)
      PROVE  SetupOK'
  <2>1. g \in Things /\ refs[g] \subseteq RefersTo(g)
    BY DEF Things, SetupOK
  <2>2. Harmless(g, refs[g], "revoked")
    BY LiveByKind DEF Harmless
  <2> QED
    BY <1>2, <2>1, <2>2, CreatesKeepsOK DEF RevokeGrant
<1>3. ASSUME NEW r \in Rules, NEW scope \in {{p} : p \in Places} \cup {{}},
             CreateRule(c, r, scope) \/ UpdateRule(c, r, scope)
      PROVE  SetupOK'
  <2>1. r \in Things /\ scope \subseteq RefersTo(r)
    BY KindsDiffer DEF Things, RefersTo
  <2>2. UsableScope(scope)
    BY <1>3 DEF CreateRule, UpdateRule
  <2>3. \A as \in {"disabled", "enabled"} : Harmless(r, scope, as)
    BY <2>2 DEF UsableScope, Harmless
  <2> QED
    BY <1>3, <2>1, <2>3, CreatesKeepsOK DEF CreateRule, UpdateRule
<1>4. ASSUME NEW r \in Rules, ActivateRule(c, r) \/ DeactivateRule(c, r) \/ ArchiveRule(c, r)
      PROVE  SetupOK'
  <2>1. r \in Things /\ refs[r] \subseteq RefersTo(r)
    BY DEF Things, SetupOK
  <2>2. UsableScope(refs[r]) => Harmless(r, refs[r], "enabled")
    BY DEF UsableScope, Harmless
  <2>3. \A z \in Things \ Locations : r \notin refs[z]
    BY KindsDiffer DEF SetupOK, RefersTo, Things
  <2>4. Harmless(r, refs[r], "disabled") /\ Harmless(r, refs[r], "archived")
    BY <2>3, LiveByKind DEF Harmless
  <2> QED
    BY <1>4, <2>1, <2>2, <2>4, CreatesKeepsOK DEF ActivateRule, DeactivateRule, ArchiveRule
<1> QED
  BY <1>1, <1>2, <1>3, <1>4 DEF ScopeCommand

(* The catalogue's invariant is one of every behaviour.                    *)
LEMMA SetupStaysOK == SetupSpec => []SetupOK
<1>1. SetupInit => SetupOK
  BY DEF SetupInit, SetupOK, CommandOK, NoCommand, DangleOnlyLate, Dangling, Live
<1>2. SetupOK /\ [SetupNext]_setupVars => SetupOK'
  <2> SUFFICES ASSUME SetupOK, [SetupNext]_setupVars PROVE SetupOK'
    OBVIOUS
  <2>1. CASE UNCHANGED setupVars
    BY <2>1, QuietStepsKeepOK DEF setupVars
  <2>2. ASSUME NEW c \in Clerks, AbortCommand(c) PROVE SetupOK'
    <3>1. NoCommand.stage = "none" /\ command' = [command EXCEPT ![c] = NoCommand]
          /\ UNCHANGED <<standing, refs, late>>
      BY <2>2 DEF NoCommand, AbortCommand
    <3> QED
      BY <3>1, QuietStepsKeepOK
  <2>3. ASSUME NEW u \in Students, EnterFlow(u) \/ EndPass(u) \/ \E p \in Places : InsertRequestedPass(u, p)
        PROVE  SetupOK'
    BY <2>3, QuietStepsKeepOK DEF EnterFlow, EndPass, InsertRequestedPass
  <2> QED
    BY <2>1, <2>2, <2>3, LocationsKeepOK, DestinationsKeepOK, ScopesKeepOK, CommitsKeepOK DEF SetupNext
<1> QED
  BY <1>1, <1>2, PTL DEF SetupSpec

(* A live row refers to an archived one only if a commit had overtaken the  *)
(* check of the command that made it so.                                   *)
THEOREM ReferencesAreLive == SetupSpec => []DangleOnlyLate
BY SetupStaysOK, PTL DEF SetupOK

-----------------------------------------------------------------------------
(* The tree of locations. *)

(* What the walk of Upwards has met after each of its rounds, for any        *)
(* parents r, and all it meets in the end.                                 *)
Climbs(g, r, l, m) ==
    g = [n \in 0..m |->
           IF n = 0 THEN {l} ELSE g[n - 1] \cup UNION {r[k] \cap Locations : k \in g[n - 1]}]
Up(r, l) == (CHOOSE g : Climbs(g, r, l, Cardinality(Locations)))[Cardinality(Locations)]

Less == {p \in Nat \X Nat : p[1] < p[2]}
(* Every set of naturals has a least one.                                  *)
LEMMA LessWF == IsWellFoundedOn(Less, Nat)
BY NatLessThanWellFounded DEF OpToRel, Less

(* A set of naturals with 0 and every successor has them all.              *)
LEMMA NatSteps ==
    ASSUME NEW T \in SUBSET Nat, 0 \in T, \A n \in T : n + 1 \in T
    PROVE  T = Nat
<1> SUFFICES ASSUME Nat \ T # {} PROVE FALSE
  OBVIOUS
<1> DEFINE S == Nat \ T
<1>1. S \subseteq Nat /\ S # {}
  OBVIOUS
<1> HIDE DEF S
<1>2. PICK x \in S : \A y \in S : ~ (<<y, x>> \in Less)
  BY <1>1, LessWF, WFMin
<1> USE DEF S
<1>3. x # 0 /\ x \in Nat
  BY <1>2
<1>4. x - 1 \in Nat /\ <<x - 1, x>> \in Less
  BY <1>3 DEF Less
<1>5. x - 1 \in T
  BY <1>2, <1>4
<1>6. (x - 1) + 1 = x
  BY <1>3
<1> QED
  BY <1>2, <1>5, <1>6

(* The walk is defined for any number of rounds.                           *)
LEMMA SomethingClimbs ==
    ASSUME NEW r, NEW l
    PROVE  \A m \in Nat : \E g : Climbs(g, r, l, m)
<1> DEFINE T == {m \in Nat : \E g : Climbs(g, r, l, m)}
<1>1. 0 \in T
  <2> DEFINE g == [n \in 0..0 |-> {l}]
  <2>1. Climbs(g, r, l, 0)
    BY DEF Climbs
  <2> QED
    BY <2>1
<1>2. ASSUME NEW m \in T PROVE m + 1 \in T
  <2>1. m \in Nat /\ m + 1 \in Nat
    OBVIOUS
  <2>2. PICK g : Climbs(g, r, l, m)
    OBVIOUS
  <2> DEFINE More(A) == A \cup UNION {r[k] \cap Locations : k \in A}
  <2>3. \A n \in 0..m : g[n] = IF n = 0 THEN {l} ELSE More(g[n - 1])
    BY <2>2 DEF Climbs
  <2> DEFINE above == More(g[m])
             h == [n \in 0..(m + 1) |-> IF n = m + 1 THEN above ELSE g[n]]
  <2>4. \A n \in 0..(m + 1) : h[n] = IF n = m + 1 THEN above ELSE g[n]
    OBVIOUS
  <2>11. h = [n \in 0..(m + 1) |-> IF n = m + 1 THEN above ELSE g[n]]
    OBVIOUS
  <2> HIDE DEF h, More
  <2>5. ASSUME NEW n \in 0..(m + 1)
        PROVE  (IF n = m + 1 THEN above ELSE g[n]) = IF n = 0 THEN {l} ELSE More(h[n - 1])
    <3> n \in Int
      OBVIOUS
    <3>1. CASE n = 0
      <4>1. n # m + 1 /\ n \in 0..m
        BY <2>1, <3>1
      <4> QED
        BY <2>3, <3>1, <4>1
    <3>2. CASE n = m + 1
      <4>1. n # 0 /\ n - 1 = m /\ m \in 0..(m + 1) /\ m # m + 1
        BY <2>1, <3>2
      <4>2. h[m] = g[m]
        BY <2>4, <4>1
      <4> QED
        BY <3>2, <4>1, <4>2
    <3>3. CASE n # 0 /\ n # m + 1
      <4>1. n \in 0..m /\ n - 1 \in 0..m /\ n - 1 \in 0..(m + 1) /\ n - 1 # m + 1
        BY <2>1, <3>3
      <4>2. h[n - 1] = g[n - 1]
        BY <2>4, <4>1
      <4> QED
        BY <2>3, <3>3, <4>1, <4>2
    <3> QED
      BY <3>1, <3>2, <3>3
  <2>6. h = [n \in 0..(m + 1) |-> IF n = 0 THEN {l} ELSE More(h[n - 1])]
    BY <2>5, <2>11
  <2>7. Climbs(h, r, l, m + 1)
    BY <2>6 DEF Climbs, More
  <2> QED
    BY <2>1, <2>7
<1> HIDE DEF T
<1>3. T \in SUBSET Nat
  BY DEF T
<1>4. T = Nat
  BY <1>1, <1>2, <1>3, NatSteps
<1> QED
  BY <1>4 DEF T

(* The parents of a set of locations, and a set that holds its parents.     *)
ParentsOf(r, A) == UNION {r[k] \cap Locations : k \in A}
HoldsParents(r, A) == \A k \in A : r[k] \cap Locations \subseteq A

(* The walk ends in the smallest set of locations with its first one that   *)
(* holds its parents: each round that adds nothing is the last one, and     *)
(* there are no more rounds that add something than locations.             *)
LEMMA UpFacts ==
    ASSUME NEW r, NEW l \in Locations
    PROVE  /\ Up(r, l) \subseteq Locations
           /\ l \in Up(r, l)
           /\ HoldsParents(r, Up(r, l))
           /\ \A S \in SUBSET Locations : l \in S /\ HoldsParents(r, S) => Up(r, l) \subseteq S
<1> DEFINE N == Cardinality(Locations)
           g == CHOOSE f : Climbs(f, r, l, N)
<1>1. IsFiniteSet(Locations) /\ N \in Nat
  BY SetupAssumption, FS_CardinalityType
<1>2. \E f : Climbs(f, r, l, N)
  BY <1>1, SomethingClimbs
<1>3. Climbs(g, r, l, N)
  BY <1>2
<1>4. Up(r, l) = g[N]
  BY DEF Up
<1> HIDE DEF N, g
<1>5. g[0] = {l}
  BY <1>1, <1>3 DEF Climbs
<1>6. \A n \in 1..N : g[n] = g[n - 1] \cup ParentsOf(r, g[n - 1])
  <2> TAKE n \in 1..N
  <2>1. n \in 0..N /\ n # 0
    BY <1>1
  <2> QED
    BY <1>3, <2>1 DEF Climbs, ParentsOf
<1> DEFINE Good(n) ==
      /\ g[n] \subseteq Locations
      /\ l \in g[n]
      /\ \A S \in SUBSET Locations : l \in S /\ HoldsParents(r, S) => g[n] \subseteq S
      /\ HoldsParents(r, g[n]) \/ Cardinality(g[n]) >= n + 1
    T == {n \in Nat : n <= N => Good(n)}
<1>7. Good(0)
  <2>1. Cardinality({l}) = 1
    BY FS_Singleton
  <2> QED
    BY <1>5, <2>1
<1>8. ASSUME NEW n \in Nat, n + 1 <= N, Good(n) PROVE Good(n + 1)
  <2>1. n + 1 \in 1..N /\ (n + 1) - 1 = n
    BY <1>1, <1>8
  <2>2. g[n + 1] = g[n] \cup ParentsOf(r, g[n])
    BY <1>6, <2>1
  <2>3. g[n + 1] \subseteq Locations /\ l \in g[n + 1]
    BY <1>8, <2>2 DEF ParentsOf
  <2>4. ASSUME NEW S \in SUBSET Locations, l \in S, HoldsParents(r, S) PROVE g[n + 1] \subseteq S
    <3>1. g[n] \subseteq S
      BY <1>8, <2>4
    <3>2. ParentsOf(r, g[n]) \subseteq S
      BY <3>1, <2>4 DEF ParentsOf, HoldsParents
    <3> QED
      BY <2>2, <3>1, <3>2
  <2>5. CASE HoldsParents(r, g[n])
    <3>1. ParentsOf(r, g[n]) \subseteq g[n]
      BY <2>5 DEF ParentsOf, HoldsParents
    <3>2. g[n + 1] = g[n]
      BY <2>2, <3>1
    <3> QED
      BY <2>3, <2>4, <2>5, <3>2
  <2>6. CASE ~ HoldsParents(r, g[n])
    <3>1. PICK k \in g[n] : ~ (r[k] \cap Locations \subseteq g[n])
      BY <2>6 DEF HoldsParents
    <3>2. PICK x \in r[k] \cap Locations : x \notin g[n]
      BY <3>1
    <3>3. g[n] \cup {x} \subseteq g[n + 1]
      BY <2>2, <3>1, <3>2 DEF ParentsOf
    <3>4. IsFiniteSet(g[n]) /\ IsFiniteSet(g[n + 1])
      BY <1>1, <1>8, <2>3, FS_Subset
    <3>5. Cardinality(g[n] \cup {x}) = Cardinality(g[n]) + 1
      BY <3>2, <3>4, FS_AddElement
    <3>6. Cardinality(g[n] \cup {x}) <= Cardinality(g[n + 1])
      BY <3>3, <3>4, FS_Subset
    <3>7. Cardinality(g[n]) \in Nat /\ Cardinality(g[n + 1]) \in Nat
      BY <3>4, FS_CardinalityType
    <3>8. Cardinality(g[n]) >= n + 1
      BY <1>8, <2>6
    <3> DEFINE a == Cardinality(g[n])
               b == Cardinality(g[n + 1])
               d == Cardinality(g[n] \cup {x})
    <3>9. a \in Nat /\ b \in Nat /\ a >= n + 1 /\ d = a + 1 /\ d <= b
      BY <3>5, <3>6, <3>7, <3>8
    <3> HIDE DEF a, b, d
    <3>10. b >= (n + 1) + 1
      BY <3>9
    <3>11. Cardinality(g[n + 1]) >= (n + 1) + 1
      BY <3>10 DEF b
    <3> QED
      BY <2>3, <2>4, <3>11
  <2> QED
    BY <2>5, <2>6
<1> HIDE DEF Good
<1>9. 0 \in T
  BY <1>7
<1>10. \A n \in T : n + 1 \in T
  <2> TAKE n \in T
  <2>1. n \in Nat /\ n + 1 \in Nat /\ (n + 1 <= N => n <= N)
    BY <1>1
  <2> QED
    BY <1>8, <2>1
<1>11. T \in SUBSET Nat
  OBVIOUS
<1> HIDE DEF T
<1>12. T = Nat
  BY <1>9, <1>10, <1>11, NatSteps
<1>13. Good(N)
  <2>1. N \in T /\ N <= N
    BY <1>1, <1>12
  <2> QED
    BY <2>1 DEF T
<1>14. HoldsParents(r, g[N])
  <2>1. g[N] \subseteq Locations
    BY <1>13 DEF Good
  <2>2. Cardinality(g[N]) <= N
    BY <1>1, <2>1, FS_Subset DEF N
  <2>3. Cardinality(g[N]) \in Nat
    BY <1>1, <2>1, FS_Subset, FS_CardinalityType
  <2>4. ~ (Cardinality(g[N]) >= N + 1)
    BY <1>1, <2>2, <2>3
  <2> QED
    BY <1>13, <2>4 DEF Good
<1> QED
  BY <1>4, <1>13, <1>14 DEF Good

(* The walk depends on the parents of locations only.                      *)
LEMMA SameUp ==
    ASSUME NEW r, NEW q, \A x \in Locations : r[x] = q[x], NEW l \in Locations
    PROVE  Up(r, l) = Up(q, l)
<1>1. \A S \in SUBSET Locations : HoldsParents(r, S) <=> HoldsParents(q, S)
  BY DEF HoldsParents
<1>2. Up(r, l) \in SUBSET Locations /\ Up(q, l) \in SUBSET Locations
  BY UpFacts
<1>3. HoldsParents(q, Up(r, l)) /\ HoldsParents(r, Up(q, l))
  BY <1>1, <1>2, UpFacts
<1>4. Up(r, l) \subseteq Up(q, l)
  BY <1>2, <1>3, UpFacts
<1>5. Up(q, l) \subseteq Up(r, l)
  BY <1>2, <1>3, UpFacts
<1> QED
  BY <1>4, <1>5

(* A location above its own parent.                                        *)
InCycle(r, l) == \E k \in r[l] \cap Locations : l \in Up(r, k)

(* A tree stays one when a location moves under others it is not above.     *)
LEMMA MoveKeepsTree ==
    ASSUME NEW r, NEW q, NEW x \in Locations, NEW to \in SUBSET Locations,
           \A l \in Locations \ {x} : q[l] = r[l],
           q[x] = to,
           \A k \in to : x \notin Up(r, k),
           \A l \in Locations : ~ InCycle(r, l)
    PROVE  \A l \in Locations : ~ InCycle(q, l)
<1> DEFINE U == UNION {Up(r, k) : k \in to}
<1>1. U \in SUBSET Locations /\ to \subseteq U /\ x \notin U
  BY UpFacts
<1>2. HoldsParents(r, U)
  <2> SUFFICES ASSUME NEW k \in U PROVE r[k] \cap Locations \subseteq U
    BY DEF HoldsParents
  <2>1. PICK j \in to : k \in Up(r, j)
    OBVIOUS
  <2>2. HoldsParents(r, Up(r, j))
    BY UpFacts
  <2> QED
    BY <2>1, <2>2 DEF HoldsParents
<1> HIDE DEF U
<1>3. HoldsParents(q, U)
  BY <1>1, <1>2 DEF HoldsParents
<1>4. ASSUME NEW y \in U PROVE Up(q, y) \subseteq Up(r, y)
  <2> DEFINE S == Up(r, y) \cap U
  <2>1. S \in SUBSET Locations /\ y \in S /\ x \notin S
    BY <1>1, UpFacts
  <2>2. HoldsParents(r, Up(r, y))
    BY <1>1, UpFacts
  <2>3. HoldsParents(r, S)
    BY <1>2, <2>2 DEF HoldsParents
  <2>4. S \subseteq Up(r, y)
    OBVIOUS
  <2> HIDE DEF S
  <2>5. HoldsParents(q, S)
    BY <2>1, <2>3 DEF HoldsParents
  <2>6. Up(q, y) \subseteq S
    BY <1>1, <2>1, <2>5, UpFacts
  <2> QED
    BY <2>4, <2>6
<1>5. ASSUME NEW y \in Locations PROVE Up(q, y) \subseteq Up(r, y) \cup U
  <2> DEFINE S == Up(r, y) \cup U
  <2>1. S \in SUBSET Locations /\ y \in S
    BY <1>1, UpFacts
  <2>2. HoldsParents(r, Up(r, y))
    BY UpFacts
  <2>3. Up(r, y) \subseteq Locations
    BY UpFacts
  <2>4. ASSUME NEW k \in S PROVE q[k] \cap Locations \subseteq S
    <3>1. CASE k = x
      BY <1>1, <3>1
    <3>2. CASE k # x
      <4>1. q[k] = r[k]
        BY <2>1, <3>2
      <4>2. CASE k \in U
        BY <1>2, <4>1, <4>2 DEF HoldsParents
      <4>3. CASE k \in Up(r, y)
        BY <2>2, <4>1, <4>3 DEF HoldsParents
      <4> QED
        BY <4>2, <4>3
    <3> QED
      BY <3>1, <3>2
  <2> HIDE DEF S
  <2>5. HoldsParents(q, S)
    BY <2>4 DEF HoldsParents
  <2>6. Up(q, y) \subseteq S
    BY <2>1, <2>5, UpFacts
  <2> QED
    BY <2>6 DEF S
<1>6. ASSUME NEW l \in Locations, NEW k \in q[l] \cap Locations, l \in Up(q, k) PROVE FALSE
  <2>1. CASE l = x
    <3>1. k \in U
      BY <1>1, <2>1
    <3>2. Up(q, k) \subseteq U
      <4>1. k \in Locations /\ U \in SUBSET Locations
        BY <1>1
      <4> QED
        BY <1>3, <3>1, <4>1, UpFacts
    <3> QED
      BY <1>1, <1>6, <2>1, <3>2
  <2>2. CASE l # x
    <3>1. k \in r[l] \cap Locations
      BY <2>2
    <3>2. l \notin Up(r, k)
      BY <3>1 DEF InCycle
    <3>3. l \in U
      BY <1>5, <1>6, <3>2
    <3>4. k \in U
      BY <1>2, <3>1, <3>3 DEF HoldsParents
    <3> QED
      BY <1>4, <1>6, <3>2, <3>4
  <2> QED
    BY <2>1, <2>2
<1> QED
  BY <1>6 DEF InCycle

(* The walk upwards in the next state as in this one.                      *)
LEMMA WalksAre ==
    /\ \A l : Upwards(l) = Up(refs, l) /\ Upwards(l)' = Up(refs', l)
    /\ \A l : Cyclic(l) <=> InCycle(refs, l)
    /\ \A l : Cyclic(l)' <=> InCycle(refs', l)
<1>1. \A l : Upwards(l) = Up(refs, l)
  BY DEF Upwards, Up, Climbs, Parent
<1>2. \A l : Upwards(l)' = Up(refs', l)
  BY DEF Upwards, Up, Climbs, Parent
<1> QED
  BY <1>1, <1>2 DEF Cyclic, InCycle, Parent

(* A decided command on a location refers to locations that were created,   *)
(* and unless another commit has overtaken it closes no cycle.             *)
MoveOK(do) ==
    do.stage = "decided" /\ do.on \in Locations =>
        /\ do.as # "absent" /\ \A k \in do.to : standing[k] # "absent"
        /\ ~ do.overtaken /\ ~ crossed => ~ Beneath(do.on, do.to)

TreeOK ==
    /\ crossed \in BOOLEAN
    /\ ~ crossed => \A l \in Locations : ~ Cyclic(l)
    /\ \A l \in Locations : standing[l] = "absent" => \A k \in Locations : l \notin refs[k]
    /\ \A c \in Clerks : MoveOK(command[c])

(* A command is decided that would close no cycle now; others are written.  *)
LEMMA QuietStepsKeepTree ==
    ASSUME SetupOK, TreeOK, UNCHANGED <<standing, refs, crossed>>,
           \/ UNCHANGED command
           \/ \E c \in Clerks : \E e : MoveOK(e) /\ command' = [command EXCEPT ![c] = e]
    PROVE  TreeOK'
<1>1. \A e : MoveOK(e)' <=> MoveOK(e)
  <2>1. \A x, ks : Beneath(x, ks)' <=> Beneath(x, ks)
    BY WalksAre DEF Beneath
  <2> QED
    BY <2>1 DEF MoveOK
<1>2. \A l : Cyclic(l)' <=> Cyclic(l)
  BY WalksAre
<1>3. \A c \in Clerks : MoveOK(command'[c])
  <2>1. CASE UNCHANGED command
    BY <2>1 DEF TreeOK
  <2>2. ASSUME NEW c \in Clerks, NEW e, MoveOK(e), command' = [command EXCEPT ![c] = e]
        PROVE  \A d \in Clerks : MoveOK(command'[d])
    BY <2>2 DEF TreeOK, SetupOK
  <2> QED
    BY <2>1, <2>2
<1>4. \A c \in Clerks : MoveOK(command[c])'
  BY <1>1, <1>3
<1> QED
  BY <1>2, <1>4 DEF TreeOK

(* The commands that are decided.                                          *)
LEMMA DecisionsKeepTree ==
    ASSUME SetupOK, TreeOK, NEW c \in Clerks, NEW x, NEW to, NEW as, NEW locks, NEW flow,
           Decide(c, x, to, as, locks, flow),
           x \in Locations => as # "absent" /\ (\A k \in to : standing[k] # "absent")
                              /\ (~ crossed => ~ Beneath(x, to))
    PROVE  TreeOK'
<1> DEFINE do == [stage |-> "decided", on |-> x, to |-> to, as |-> as, locks |-> locks,
                  flow |-> flow, overtaken |-> FALSE]
<1>1. command' = [command EXCEPT ![c] = do] /\ UNCHANGED <<standing, refs, crossed>>
  BY DEF Decide
<1>2. MoveOK(do)
  BY DEF MoveOK
<1> HIDE DEF do
<1> QED
  BY <1>1, <1>2, QuietStepsKeepTree

(* Nobody refers to a location before it is created: it is above none.      *)
LEMMA NewIsNowhere ==
    ASSUME TreeOK, NEW l \in Locations, standing[l] = "absent", NEW k \in Locations, k # l
    PROVE  l \notin Upwards(k)
<1> DEFINE S == Locations \ {l}
<1>1. S \in SUBSET Locations /\ k \in S /\ l \notin S
  OBVIOUS
<1>2. HoldsParents(refs, S)
  BY DEF TreeOK, HoldsParents
<1> HIDE DEF S
<1> QED
  BY <1>1, <1>2, UpFacts, WalksAre

(* The commands on locations: a new one is above none, a move is checked,   *)
(* and an archived one keeps its parent.                                   *)
LEMMA LocationsKeepTree ==
    ASSUME SetupOK, TreeOK, NEW c \in Clerks, LocationCommand(c)
    PROVE  TreeOK'
<1>1. PICK l \in Locations :
        \/ \E parents \in Singles : CreateLocation(c, l, parents) \/ UpdateLocation(c, l, parents)
                                    \/ UpdateLocationWalks(c, l, parents)
        \/ ArchiveLocation(c, l)
  BY DEF LocationCommand
<1>2. \A parents \in Singles : parents \subseteq Locations
  BY DEF Singles
<1>3. ASSUME NEW parents \in Singles, CreateLocation(c, l, parents) PROVE TreeOK'
  <2>1. /\ standing[l] = "absent" /\ Decide(c, l, parents, "active", FALSE, FALSE)
        /\ \A k \in parents : standing[k] = "active"
    BY <1>3 DEF CreateLocation, Creates, UsableParent
  <2>2. \A k \in parents : k \in Locations /\ k # l
    BY <1>2, <2>1
  <2>3. ~ Beneath(l, parents)
    BY <2>1, <2>2, NewIsNowhere DEF Beneath
  <2>4. \A k \in parents : standing[k] # "absent"
    BY <2>1
  <2> QED
    BY <2>1, <2>3, <2>4, DecisionsKeepTree
<1>4. ASSUME NEW parents \in Singles, UpdateLocation(c, l, parents) PROVE TreeOK'
  <2>1. /\ standing[l] # "absent" /\ Decide(c, l, parents, standing[l], TRUE, FALSE)
        /\ \A k \in parents : standing[k] = "active"
        /\ ~ Beneath(l, parents)
    BY <1>4 DEF UpdateLocation, Changes, UsableParent
  <2>2. \A k \in parents : standing[k] # "absent"
    BY <2>1
  <2> QED
    BY <2>1, <2>2, DecisionsKeepTree
<1>5. ASSUME NEW parents \in Singles, UpdateLocationWalks(c, l, parents) PROVE TreeOK'
  <2> DEFINE e == [stage |-> "walks", on |-> l, locks |-> TRUE]
  <2>1. /\ command' = [command EXCEPT ![c] = e] /\ MoveOK(e)
        /\ UNCHANGED <<standing, refs, crossed>>
    BY <1>5 DEF UpdateLocationWalks, MoveOK
  <2> HIDE DEF e
  <2> QED
    BY <2>1, QuietStepsKeepTree
<1>6. CASE ArchiveLocation(c, l)
  <2>1. Decide(c, l, refs[l], "archived", TRUE, FALSE)
    BY <1>6 DEF ArchiveLocation, Changes
  <2>2. refs[l] \subseteq Locations
    BY DEF SetupOK, RefersTo, Things
  <2>3. ~ crossed => ~ Beneath(l, refs[l])
    BY <2>2 DEF TreeOK, Cyclic, Parent, Beneath
  <2>4. \A k \in refs[l] : standing[k] # "absent"
    BY <2>2 DEF TreeOK
  <2> QED
    BY <2>1, <2>3, <2>4, DecisionsKeepTree
<1> QED
  BY <1>1, <1>3, <1>4, <1>5, <1>6

(* Commands on other rows are none of the tree's.                          *)
LEMMA OthersKeepTree ==
    ASSUME SetupOK, TreeOK, NEW c \in Clerks, DestinationCommand(c) \/ ScopeCommand(c)
    PROVE  TreeOK'
<1>1. \A x \in Things \ Locations : \A to, as, locks, flow :
          Decide(c, x, to, as, locks, flow) => TreeOK'
  BY DecisionsKeepTree
<1>2. \A x \in Things \ Locations : \A to, as :
          Creates(c, x, to, as) \/ Changes(c, x, to, as) => TreeOK'
  BY <1>1 DEF Creates, Changes
<1>3. Categories \cup Places \cup Duties \cup Rules \subseteq Things \ Locations
  BY KindsDiffer DEF Things
<1> HIDE DEF TreeOK
<1>4. ASSUME DestinationCommand(c) PROVE TreeOK'
  <2>1. ASSUME NEW k \in Categories,
               CreateCategory(c, k) \/ UpdateCategory(c, k) \/ ArchiveCategory(c, k)
        PROVE  TreeOK'
    BY <1>2, <1>3, <2>1 DEF CreateCategory, UpdateCategory, ArchiveCategory
  <2>2. ASSUME NEW p \in Places, NEW l \in Locations, NEW k \in Categories,
               CreateDestination(c, p, l, k) \/ UpdateDestination(c, p, l, k)
        PROVE  TreeOK'
    BY <1>2, <1>3, <2>2 DEF CreateDestination, UpdateDestination
  <2>3. ASSUME NEW p \in Places, OpenDestination(c, p) \/ CloseDestination(c, p) PROVE TreeOK'
    BY <1>2, <1>3, <2>3 DEF OpenDestination, CloseDestination
  <2>4. ASSUME NEW p \in Places, ArchiveDestination(c, p) PROVE TreeOK'
    <3> DEFINE e == [stage |-> "flow", on |-> p, flow |-> TRUE]
    <3>1. /\ command' = [command EXCEPT ![c] = e] /\ MoveOK(e)
          /\ UNCHANGED <<standing, refs, crossed>>
      BY <2>4 DEF ArchiveDestination, MoveOK
    <3> HIDE DEF e
    <3> QED
      BY <3>1, QuietStepsKeepTree
  <2>5. ASSUME ArchiveDestinationChecks(c) PROVE TreeOK'
    <3>1. command[c].on \in Places
      BY <2>5 DEF ArchiveDestinationChecks, SetupOK, CommandOK
    <3> QED
      BY <1>1, <1>3, <2>5, <3>1 DEF ArchiveDestinationChecks
  <2> QED
    BY <1>4, <2>1, <2>2, <2>3, <2>4, <2>5 DEF DestinationCommand
<1>5. ASSUME ScopeCommand(c) PROVE TreeOK'
  BY <1>1, <1>2, <1>3, <1>5
     DEF ScopeCommand, RevokeGrant, IssueGrant, CreateRule, UpdateRule, ActivateRule,
         DeactivateRule, ArchiveRule
<1> QED
  BY <1>4, <1>5

(* The write: a move decided on the tree as it is keeps it one.             *)
LEMMA CommitsKeepTree ==
    ASSUME SetupOK, TreeOK, NEW c \in Clerks, CommitCommand(c)
    PROVE  TreeOK'
<1> DEFINE do == command[c]
<1>1. /\ do.stage = "decided" /\ CommandOK(do) /\ MoveOK(do)
      /\ standing' = [standing EXCEPT ![do.on] = do.as]
      /\ refs' = [refs EXCEPT ![do.on] = do.to]
      /\ crossed' = (crossed \/ (do.overtaken /\ do.on \in Locations))
      /\ command' = [d \in Clerks |->
            IF d = c THEN NoCommand
            ELSE IF command[d].stage = "decided" THEN [command[d] EXCEPT !.overtaken = TRUE]
            ELSE command[d]]
  BY DEF CommitCommand, SetupOK, TreeOK
<1>2. do.on \in Things /\ do.to \subseteq RefersTo(do.on) /\ do.overtaken \in BOOLEAN
  BY <1>1 DEF CommandOK
<1> DEFINE x == do.on
<1>3. x \in Locations => /\ do.to \subseteq Locations /\ do.as # "absent"
                         /\ \A k \in do.to : standing[k] # "absent"
                         /\ ~ do.overtaken /\ ~ crossed => ~ Beneath(x, do.to)
  BY <1>1, <1>2 DEF MoveOK, RefersTo
<1>4. \A d \in Clerks :
          /\ command[d].stage = "decided" =>
                DOMAIN command[d] = {"stage", "on", "to", "as", "locks", "flow", "overtaken"}
          /\ MoveOK(command[d])
  BY DEF SetupOK, CommandOK, TreeOK
<1> HIDE DEF x, do
<1>5. \A z \in Things : /\ standing'[z] = IF z = x THEN do.as ELSE standing[z]
                        /\ refs'[z] = IF z = x THEN do.to ELSE refs[z]
  BY <1>1 DEF SetupOK, x
<1>6. Locations \subseteq Things
  BY DEF Things
<1>7. crossed' \in BOOLEAN
  BY <1>1, <1>2 DEF TreeOK
<1>8. ASSUME ~ crossed' PROVE \A l \in Locations : ~ Cyclic(l)'
  <2>1. ~ crossed /\ ~ (do.overtaken /\ x \in Locations)
    BY <1>1, <1>8 DEF x
  <2>2. \A l \in Locations : ~ InCycle(refs, l)
    BY <2>1, WalksAre DEF TreeOK
  <2>3. CASE x \notin Locations
    <3>1. \A l \in Locations : refs[l] = refs'[l]
      BY <1>5, <1>6, <2>3
    <3>2. \A l \in Locations : Up(refs, l) = Up(refs', l)
      BY <3>1, SameUp
    <3> QED
      BY <2>2, <3>1, <3>2, WalksAre DEF InCycle
  <2>4. CASE x \in Locations
    <3>1. /\ do.to \in SUBSET Locations
          /\ \A k \in do.to : x \notin Up(refs, k)
      BY <1>3, <2>1, <2>4, WalksAre DEF Beneath
    <3>2. refs'[x] = do.to /\ \A l \in Locations \ {x} : refs'[l] = refs[l]
      BY <1>5, <1>6, <2>4
    <3>3. \A l \in Locations : ~ InCycle(refs', l)
      BY <2>2, <2>4, <3>1, <3>2, MoveKeepsTree
    <3> QED
      BY <3>3, WalksAre
  <2> QED
    BY <2>3, <2>4
<1>9. ASSUME NEW l \in Locations, standing'[l] = "absent", NEW k \in Locations PROVE l \notin refs'[k]
  <2>1. standing[l] = "absent" /\ l # x
    BY <1>3, <1>5, <1>6, <1>9
  <2>2. l \notin refs[k]
    BY <2>1 DEF TreeOK
  <2>3. k = x => l \notin do.to
    BY <1>3, <2>1
  <2> QED
    BY <1>5, <1>6, <2>2, <2>3
<1>10. ASSUME NEW d \in Clerks PROVE MoveOK(command[d])'
  <2>1. CASE command'[d] = NoCommand
    BY <2>1 DEF MoveOK, NoCommand
  <2>2. CASE command'[d] = command[d] /\ command[d].stage # "decided"
    BY <2>2 DEF MoveOK
  <2>3. CASE command[d].stage = "decided" /\ command'[d] = [command[d] EXCEPT !.overtaken = TRUE]
    <3> DEFINE e == command[d]
    <3>1. /\ command'[d].on = e.on /\ command'[d].to = e.to /\ command'[d].as = e.as
          /\ command'[d].overtaken = TRUE
      BY <1>4, <2>3
    <3>2. e.on \in Locations => /\ e.as # "absent" /\ e.to \subseteq Locations
                                /\ \A k \in e.to : standing[k] # "absent"
      BY <1>4, <2>3 DEF MoveOK, SetupOK, CommandOK, RefersTo
    <3>3. e.on \in Locations => \A k \in e.to : standing'[k] # "absent"
      <4>1. \A k \in Locations : standing[k] # "absent" => standing'[k] # "absent"
        BY <1>3, <1>5, <1>6
      <4> QED
        BY <3>2, <4>1
    <3> QED
      BY <3>1, <3>2, <3>3 DEF MoveOK
  <2> QED
    BY <1>1, <2>1, <2>2, <2>3
<1> QED
  BY <1>7, <1>8, <1>9, <1>10 DEF TreeOK

(* Locations form a tree, unless a location was moved on a check another    *)
(* command's commit had overtaken (locations.ts, assertUsableParent).       *)
THEOREM LocationsFormATree == SetupSpec => []CycleOnlyCrossed
<1>1. SetupInit => TreeOK
  <2> SUFFICES ASSUME SetupInit PROVE TreeOK
    OBVIOUS
  <2>1. \A l \in Locations : refs[l] = {}
    BY DEF SetupInit, Things
  <2>2. \A l \in Locations : ~ Cyclic(l)
    BY <2>1, WalksAre DEF InCycle
  <2>3. \A c \in Clerks : MoveOK(command[c])
    BY DEF SetupInit, MoveOK, NoCommand
  <2>4. crossed = FALSE
    BY DEF SetupInit
  <2> QED
    BY <2>1, <2>2, <2>3, <2>4 DEF TreeOK
<1>2. SetupOK /\ TreeOK /\ [SetupNext]_setupVars => TreeOK'
  <2> SUFFICES ASSUME SetupOK, TreeOK, [SetupNext]_setupVars PROVE TreeOK'
    OBVIOUS
  <2>1. CASE UNCHANGED setupVars
    BY <2>1, QuietStepsKeepTree DEF setupVars
  <2>2. ASSUME NEW c \in Clerks, AbortCommand(c) PROVE TreeOK'
    <3>1. /\ MoveOK(NoCommand) /\ command' = [command EXCEPT ![c] = NoCommand]
          /\ UNCHANGED <<standing, refs, crossed>>
      BY <2>2 DEF MoveOK, NoCommand, AbortCommand
    <3> QED
      BY <3>1, QuietStepsKeepTree
  <2>3. ASSUME NEW u \in Students, EnterFlow(u) \/ EndPass(u) \/ \E p \in Places : InsertRequestedPass(u, p)
        PROVE  TreeOK'
    BY <2>3, QuietStepsKeepTree DEF EnterFlow, EndPass, InsertRequestedPass
  <2> QED
    BY <2>1, <2>2, <2>3, LocationsKeepTree, OthersKeepTree, CommitsKeepTree DEF SetupNext
<1>3. TreeOK => CycleOnlyCrossed
  BY DEF TreeOK, CycleOnlyCrossed
<1> QED
  BY <1>1, <1>2, <1>3, SetupStaysOK, PTL DEF SetupSpec

-----------------------------------------------------------------------------
(* The pages. *)

(* What a page sends when. *)
LEMMA WhatIsSent ==
    ASSUME NEW ops, NEW revision, NEW again, NEW c
    PROVE  c \in Sends(ops, revision, again) <=>
             \E o \in ops : c = [op |-> o, key |-> TRUE, revision |-> revision, again |-> again, code |-> "none"]
BY DEF Sends

(* The pages keep one command per intent only where no repetition reads a   *)
(* revision anew.                                                          *)
LEMMA FormCommands ==
    /\ \A c \in SchoolCommands : (c.op \in Forms /\ c.again = "same") => c.revision # "fetched"
    /\ \A c \in SchoolCommands : c.op = "updateLocation" => c.revision = "cached"
    /\ \A kind \in Forms : \E c \in SchoolCommands : c.op = kind
<1>1. \A c \in SchoolCommands : (c.op \in Forms /\ c.again = "same") => c.revision # "fetched"
  BY DEF Forms, SchoolCommands, StudentCommands, StudentStarts, RequestsCommands, ClassCommands,
         MovementCommands, StationCommands, LocationCommands, DestinationListCommands,
         DestinationPageCommands, AssignedStaffCommands, CategoryCommands, PolicyListCommands,
         PolicyPageCommands, ScheduleCommands, ScheduledPassesCommands, StaffAccessCommands,
         PeopleCommands, Sends
<1>2. \A c \in SchoolCommands : c.op = "updateLocation" => c.revision = "cached"
  BY DEF SchoolCommands, StudentCommands, StudentStarts, RequestsCommands, ClassCommands,
         MovementCommands, StationCommands, LocationCommands, DestinationListCommands,
         DestinationPageCommands, AssignedStaffCommands, CategoryCommands, PolicyListCommands,
         PolicyPageCommands, ScheduleCommands, ScheduledPassesCommands, StaffAccessCommands,
         PeopleCommands, Sends
<1>3. \A kind \in Forms : \E c \in SchoolCommands : c.op = kind
  <2> DEFINE Sent(op, revision, again) ==
        [op |-> op, key |-> TRUE, revision |-> revision, again |-> again, code |-> "none"]
  <2>1. Sent("requestMyPass", "none", "same") \in StudentCommands
    BY DEF StudentCommands, Sends
  <2>2. Sent("createLocation", "none", "remade") \in LocationCommands
    BY DEF LocationCommands, Sends
  <2>3. Sent("updateLocation", "cached", "remade") \in LocationCommands
    BY DEF LocationCommands, Sends
  <2>4. Sent("updateDestination", "cached", "none") \in DestinationPageCommands
    BY DEF DestinationPageCommands, Sends
  <2>5. Sent("updateDestinationCategory", "fetched", "reread") \in CategoryCommands
    BY DEF CategoryCommands, Sends
  <2>6. Sent("updatePolicyRule", "cached", "same") \in PolicyPageCommands
    BY DEF PolicyPageCommands, Sends
  <2>7. \A op, revision, again : Sent(op, revision, again).op = op
    OBVIOUS
  <2> HIDE DEF Sent
  <2> QED
    BY <2>1, <2>2, <2>3, <2>4, <2>5, <2>6, <2>7 DEF Forms, SchoolCommands
<1> QED
  BY <1>1, <1>2, <1>3

LEMMA KindsOfForms ==
    /\ \A kind \in Forms : CommandOf[kind].again = "same" => CommandOf[kind].revision # "fetched"
    /\ CommandOf["updateLocation"].revision = "cached"
<1>1. \A kind \in Forms : CommandOf[kind] \in SchoolCommands /\ CommandOf[kind].op = kind
  <2> SUFFICES ASSUME NEW kind \in Forms
               PROVE  CommandOf[kind] \in SchoolCommands /\ CommandOf[kind].op = kind
    OBVIOUS
  <2>1. \E c \in SchoolCommands : c.op = kind
    BY FormCommands
  <2>2. CommandOf[kind] = CHOOSE c \in SchoolCommands : c.op = kind
    BY Zenon DEF CommandOf
  <2> QED
    BY <2>1, <2>2, Zenon
<1>2. "updateLocation" \in Forms
  BY DEF Forms
<1> QED
  BY <1>1, <1>2, FormCommands

---------------------------------------------------------------------------
(* Pages.                                                                  *)

Fields == {"kind", "stage", "cache", "reading", "seeded", "draft", "dirty", "sent", "command", "answer"}
PageTyped(pg) ==
    /\ DOMAIN pg = Fields /\ pg.kind \in Forms
    /\ pg.sent \in Nat /\ pg.seeded \in BOOLEAN
    /\ pg.cache.rev \in Int /\ pg.reading.rev \in Int
    /\ DOMAIN pg.command = {"key", "body", "ifMatch"}
    /\ pg.command.key \in Nat \X Nat /\ pg.command.ifMatch \in Int
    /\ pg.stage = "answered" => pg.answer \in {"success", "stale", "reused"}

(* A page that keeps its command: what took effect for it, mine, did so    *)
(* under the one key of its submission, and a refusal is the truth.         *)
Keeps(pg) == Repeats(pg) = "same"
Told(pg) == \/ pg.stage = "answered" /\ pg.answer \in {"stale", "reused"}
            \/ pg.stage \in {"conflict", "failed"}
Kept(pg, mine) ==
    /\ pg.stage # "fetching"
    /\ \A x \in mine : /\ x.submission \in Nat /\ x.submission <= pg.sent
                       /\ x.command.key = <<x.submission, 1>>
    /\ \A x, y \in mine : x.submission = y.submission => x = y
    /\ pg.stage \in {"sent", "answered", "uncertain"} =>
          /\ pg.command.key = <<pg.sent, 1>>
          /\ \A x \in mine : x.submission = pg.sent => x.command = pg.command
    /\ Told(pg) => \A x \in mine : x.submission # pg.sent

(* A location's page: what it has read is the row of some revision, and its *)
(* form shows what it has read.                                            *)
Seen(data, now) == data.rev <= now.rev /\ (data.rev = now.rev => data.has = now.has)
Shows(pg, now) ==
    /\ pg.stage # "fetching"
    /\ pg.seeded => pg.cache.has \subseteq pg.draft
    /\ Seen(pg.cache, now) /\ (pg.reading.rev > 0 => Seen(pg.reading, now))
    /\ pg.stage \in {"sent", "answered", "uncertain"} => pg.command.key[2] # 0
    /\ pg.command.key[2] = 1 =>
          /\ pg.command.ifMatch <= now.rev
          /\ pg.command.ifMatch = now.rev => now.has \subseteq pg.command.body

Mine(p) == {x \in stored : x.by = p}
PageOK(pg, mine, now) ==
    /\ PageTyped(pg)
    /\ Keeps(pg) => Kept(pg, mine)
    /\ pg.kind = "updateLocation" => Shows(pg, now)
PagesOK ==
    /\ DOMAIN page = Pages
    /\ row.rev \in Nat \ {0}
    /\ \A p \in Pages : PageOK(page[p], Mine(p), row)

(* A step of one page that neither the row nor the server's records notice. *)
LEMMA PageBecomes ==
    ASSUME PagesOK, NEW p \in Pages, NEW new, PageOK(new, Mine(p), row),
           page' = [page EXCEPT ![p] = new], UNCHANGED <<row, stored>>
    PROVE  PagesOK'
<1>1. \A q \in Pages : Mine(q)' = Mine(q) /\ page'[q] = IF q = p THEN new ELSE page[q]
  BY DEF Mine, PagesOK
<1> QED
  BY <1>1 DEF PagesOK

LEMMA RenderedOK ==
    ASSUME NEW pg, NEW mine, NEW now, PageOK(pg, mine, now)
    PROVE  PageOK(Rendered(pg), mine, now)
<1> DEFINE new == [pg EXCEPT !.seeded = TRUE, !.draft = pg.cache.has, !.dirty = FALSE]
<1>1. PageTyped(pg)
  BY DEF PageOK
<1>2. /\ DOMAIN new = Fields /\ new.kind = pg.kind /\ new.sent = pg.sent
      /\ new.stage = pg.stage /\ new.cache = pg.cache /\ new.reading = pg.reading
      /\ new.command = pg.command /\ new.answer = pg.answer
      /\ new.seeded = TRUE /\ new.draft = pg.cache.has
  BY <1>1 DEF PageTyped, Fields
<1> HIDE DEF new
<1>3. PageOK(new, mine, now)
  BY <1>2 DEF PageOK, PageTyped, Keeps, Repeats, Kept, Told, Shows
<1>4. Rendered(pg) = new \/ Rendered(pg) = pg
  BY DEF Rendered, new
<1> QED
  BY <1>3, <1>4

(* A step that ends with the effect that runs after every render.          *)
LEMMA PageRenders ==
    ASSUME PagesOK, NEW p \in Pages, NEW new, PageOK(new, Mine(p), row),
           Becomes(p, new), UNCHANGED <<row, stored>>
    PROVE  PagesOK'
<1>1. PageOK(Rendered(new), Mine(p), row)
  BY RenderedOK
<1> QED
  BY <1>1, PageBecomes DEF Becomes

LEMMA Unpacked ==
    ASSUME PagesOK, NEW p \in Pages
    PROVE  /\ PageOK(page[p], Mine(p), row) /\ PageTyped(page[p])
           /\ DOMAIN page[p] = Fields
           /\ page[p].kind = "updateLocation" => ~ Creating(page[p]) /\ Sending(page[p]) = "sent"
           /\ Keeps(page[p]) => Sending(page[p]) = "sent"
<1>1. PageTyped(page[p]) /\ PageOK(page[p], Mine(p), row) /\ page[p].kind \in Forms
  BY DEF PagesOK, PageOK, PageTyped
<1> QED
  BY <1>1, KindsOfForms DEF PageTyped, Creating, Sending, Keeps, Repeats

(* Opening, closing, refetching: nothing is sent.                          *)
LEMMA ReadingSteps ==
    ASSUME PagesOK, NEW p \in Pages,
           \/ OpenPage(p) \/ ClosePage(p) \/ Refetch(p) \/ Serve(p) \/ Settle(p)
           \/ Cancel(p) \/ Review(p)
    PROVE  PagesOK'
<1> DEFINE pg == page[p]
<1>0. PageOK(pg, Mine(p), row) /\ PageTyped(pg) /\ row.rev \in Nat /\ UNCHANGED <<row, stored>>
  BY Unpacked DEF PagesOK, OpenPage, ClosePage, Refetch, Serve, Settle, Cancel, Review
<1>1. CASE OpenPage(p)
  <2> DEFINE opened == [pg EXCEPT !.stage = "editing", !.seeded = Creating(pg)]
             asked == Refetching(opened)
  <2>1. /\ DOMAIN opened = Fields /\ opened.kind = pg.kind /\ opened.sent = pg.sent
        /\ opened.stage = "editing" /\ opened.cache = pg.cache /\ opened.reading = pg.reading
        /\ opened.command = pg.command /\ opened.seeded = Creating(pg) /\ opened.draft = pg.draft
    BY <1>0 DEF PageTyped, Fields
  <2>2. /\ DOMAIN asked = Fields /\ asked.kind = pg.kind /\ asked.sent = pg.sent
        /\ asked.stage = "editing" /\ asked.cache = pg.cache /\ asked.reading = Asked
        /\ asked.command = pg.command /\ asked.seeded = Creating(pg) /\ asked.draft = pg.draft
    BY <1>0 DEF PageTyped, Fields, Refetching
  <2>3. Creating(pg) \in BOOLEAN /\ Asked.rev = -2
    BY DEF Creating, Asked
  <2>4. Becomes(p, opened) \/ Becomes(p, asked)
    BY <1>1 DEF OpenPage
  <2> HIDE DEF opened, asked
  <2>5. PageOK(opened, Mine(p), row) /\ PageOK(asked, Mine(p), row)
    BY <1>0, <2>1, <2>2, <2>3, Unpacked DEF PageOK, PageTyped, Keeps, Repeats, Kept, Told, Shows
  <2> QED
    BY <1>0, <2>4, <2>5, PageRenders
<1>2. CASE ClosePage(p)
  <2> DEFINE new == Closed(pg)
  <2>1. /\ DOMAIN new = Fields /\ new.kind = pg.kind /\ new.sent = pg.sent
        /\ new.stage = "closed" /\ new.cache = pg.cache /\ new.reading = pg.reading
        /\ new.command = NothingSent /\ new.seeded = FALSE
    BY <1>0 DEF PageTyped, Fields, Closed
  <2>2. /\ DOMAIN NothingSent = {"key", "body", "ifMatch"} /\ NothingSent.key = <<0, 0>>
        /\ NothingSent.ifMatch = 0 /\ NothingSent.key[2] = 0 /\ NothingSent.key \in Nat \X Nat
    BY DEF NothingSent
  <2>3. page' = [page EXCEPT ![p] = new]
    BY <1>2 DEF ClosePage
  <2> HIDE DEF new
  <2>a. DOMAIN new.command = {"key", "body", "ifMatch"} /\ new.command.key \in Nat \X Nat
    BY <2>1, <2>2, Zenon
  <2>b. new.kind \in Forms /\ new.sent \in Nat /\ new.cache.rev \in Int /\ new.reading.rev \in Int
    BY <1>0, <2>1, Zenon DEF PageTyped
  <2>c. new.seeded \in BOOLEAN /\ new.command.ifMatch \in Int
    <3>1. new.seeded \in BOOLEAN /\ new.command.ifMatch = 0
      BY <2>1, <2>2, Zenon
    <3> QED
      BY <3>1
  <2>4. PageTyped(new)
    BY <2>1, <2>a, <2>b, <2>c, Zenon DEF PageTyped
  <2>5. Keeps(new) => Kept(new, Mine(p))
    BY <1>0, <2>1 DEF PageOK, Keeps, Repeats, Kept, Told
  <2>6. pg.kind = "updateLocation" => Shows(new, row)
    BY <1>0, <2>1, <2>2 DEF PageOK, Shows
  <2>7. PageOK(new, Mine(p), row)
    BY <2>1, <2>4, <2>5, <2>6 DEF PageOK
  <2> QED
    BY <1>0, <2>3, <2>7, PageBecomes
<1>3. CASE Refetch(p) \/ Serve(p)
  <2> DEFINE new == [pg EXCEPT !.reading = IF Refetch(p) THEN Asked ELSE row]
  <2>1. /\ DOMAIN new = Fields /\ new.kind = pg.kind /\ new.sent = pg.sent
        /\ new.stage = pg.stage /\ new.cache = pg.cache /\ new.answer = pg.answer
        /\ new.reading = IF Refetch(p) THEN Asked ELSE row
        /\ new.command = pg.command /\ new.seeded = pg.seeded /\ new.draft = pg.draft
    BY <1>0 DEF PageTyped, Fields
  <2>2. Becomes(p, new)
    BY <1>3 DEF Refetch, Serve, Refetching, Still, Asked
  <2>3. Asked.rev = -2
    BY DEF Asked
  <2> HIDE DEF new
  <2>4. PageOK(new, Mine(p), row)
    BY <1>0, <2>1, <2>3 DEF PageOK, PageTyped, Keeps, Repeats, Kept, Told, Shows, Seen
  <2> QED
    BY <1>0, <2>2, <2>4, PageRenders
<1>4. CASE Settle(p)
  <2> DEFINE new == [pg EXCEPT !.cache = pg.reading, !.reading = Still,
                               !.seeded = pg.seeded /\ ~ FollowsData(pg)]
  <2>1. /\ DOMAIN new = Fields /\ new.kind = pg.kind /\ new.sent = pg.sent
        /\ new.stage = pg.stage /\ new.cache = pg.reading /\ new.answer = pg.answer
        /\ new.reading = Still /\ new.draft = pg.draft
        /\ new.command = pg.command /\ new.seeded = (pg.seeded /\ ~ FollowsData(pg))
    BY <1>0 DEF PageTyped, Fields
  <2>2. Becomes(p, new) /\ pg.reading.rev > 0
    BY <1>4 DEF Settle
  <2>3. Still.rev = -1
    BY DEF Still
  <2> HIDE DEF new
  <2>4. PageTyped(new)
    BY <1>0, <2>1, <2>3 DEF PageTyped
  <2>a. (pg.kind = "updateLocation" /\ new.seeded) => pg.seeded /\ pg.cache = pg.reading
    BY <2>1, <1>0 DEF FollowsData, PageTyped
  <2>b. pg.kind = "updateLocation" => Shows(pg, row)
    BY <1>0 DEF PageOK
  <2>5. pg.kind = "updateLocation" => Shows(new, row)
    <3> SUFFICES ASSUME pg.kind = "updateLocation" PROVE Shows(new, row)
      OBVIOUS
    <3>1. new.seeded => new.cache.has \subseteq new.draft
      BY <2>a, <2>b, <2>1, Zenon DEF Shows
    <3>2. Seen(new.cache, row) /\ (new.reading.rev > 0 => Seen(new.reading, row))
      BY <2>b, <2>1, <2>2, <2>3 DEF Shows
    <3> QED
      BY <3>1, <3>2, <2>b, <2>1, Zenon DEF Shows
  <2>6. Keeps(new) => Kept(new, Mine(p))
    BY <1>0, <2>1 DEF PageOK, Keeps, Repeats, Kept, Told
  <2>7. PageOK(new, Mine(p), row)
    BY <2>1, <2>4, <2>5, <2>6 DEF PageOK
  <2> QED
    BY <1>0, <2>2, <2>7, PageRenders
<1>5. CASE Cancel(p)
  <2> DEFINE new == [pg EXCEPT !.seeded = FALSE]
  <2>1. /\ DOMAIN new = Fields /\ new.kind = pg.kind /\ new.sent = pg.sent
        /\ new.stage = pg.stage /\ new.cache = pg.cache /\ new.answer = pg.answer
        /\ new.reading = pg.reading /\ new.draft = pg.draft
        /\ new.command = pg.command /\ new.seeded = FALSE
    BY <1>0 DEF PageTyped, Fields
  <2>2. Becomes(p, new)
    BY <1>5 DEF Cancel
  <2> HIDE DEF new
  <2>3. PageOK(new, Mine(p), row)
    BY <1>0, <2>1 DEF PageOK, PageTyped, Keeps, Repeats, Kept, Told, Shows
  <2> QED
    BY <1>0, <2>2, <2>3, PageRenders
<1>6. CASE Review(p)
  <2> DEFINE new == Refetching([pg EXCEPT !.seeded = pg.kind = "updatePolicyRule"])
  <2>1. /\ DOMAIN new = Fields /\ new.kind = pg.kind /\ new.sent = pg.sent
        /\ new.stage = pg.stage /\ new.cache = pg.cache /\ new.answer = pg.answer
        /\ new.reading = Asked /\ new.draft = pg.draft
        /\ new.command = pg.command /\ new.seeded = (pg.kind = "updatePolicyRule")
    BY <1>0 DEF PageTyped, Fields, Refetching
  <2>2. Becomes(p, new) /\ Asked.rev = -2
    BY <1>6 DEF Review, Asked
  <2> HIDE DEF new
  <2>3. PageOK(new, Mine(p), row)
    BY <1>0, <2>1, <2>2 DEF PageOK, PageTyped, Keeps, Repeats, Kept, Told, Shows
  <2> QED
    BY <1>0, <2>2, <2>3, PageRenders
<1> QED
  BY <1>1, <1>2, <1>3, <1>4, <1>5, <1>6

(* Typing changes the draft alone.                                         *)
LEMMA TypeSteps ==
    ASSUME PagesOK, NEW p \in Pages, NEW e, Type(p, e)
    PROVE  PagesOK'
<1> DEFINE pg == page[p]
           new == [pg EXCEPT !.draft = pg.draft \cup {e}, !.dirty = TRUE]
<1>0. PageOK(pg, Mine(p), row) /\ PageTyped(pg) /\ UNCHANGED <<row, stored>>
  BY Unpacked DEF Type
<1>1. /\ DOMAIN new = Fields /\ new.kind = pg.kind /\ new.sent = pg.sent
      /\ new.stage = pg.stage /\ new.cache = pg.cache /\ new.answer = pg.answer
      /\ new.reading = pg.reading /\ new.draft = pg.draft \cup {e}
      /\ new.command = pg.command /\ new.seeded = pg.seeded
  BY <1>0 DEF PageTyped, Fields
<1>2. page' = [page EXCEPT ![p] = new]
  BY DEF Type, PagesOK
<1> HIDE DEF new
<1>3. PageOK(new, Mine(p), row)
  BY <1>0, <1>1 DEF PageOK, PageTyped, Keeps, Repeats, Kept, Told, Shows
<1> QED
  BY <1>0, <1>2, <1>3, PageBecomes

(* A new submission: no record is of it yet, and a location's form shows    *)
(* everything it has read.                                                 *)
LEMMA SubmitSteps ==
    ASSUME PagesOK, NEW p \in Pages, Submit(p)
    PROVE  PagesOK'
<1> DEFINE pg == page[p]
           sent == [key |-> <<pg.sent + 1, 1>>, body |-> pg.draft, ifMatch |-> pg.cache.rev]
           new == [pg EXCEPT !.stage = Sending(pg), !.sent = pg.sent + 1, !.dirty = FALSE,
                             !.command = sent]
<1>0. PageOK(pg, Mine(p), row) /\ PageTyped(pg) /\ UNCHANGED <<row, stored>>
      /\ row.rev \in Nat
  BY Unpacked DEF Submit, PagesOK
<1>1. /\ DOMAIN new = Fields /\ new.kind = pg.kind /\ new.sent = pg.sent + 1
      /\ new.stage = Sending(pg) /\ new.cache = pg.cache /\ new.answer = pg.answer
      /\ new.reading = pg.reading /\ new.draft = pg.draft
      /\ new.command = sent /\ new.seeded = pg.seeded
  BY <1>0 DEF PageTyped, Fields
<1>2. page' = [page EXCEPT ![p] = new] /\ pg.seeded
  BY Zenon DEF Submit
<1>3. /\ DOMAIN sent = {"key", "body", "ifMatch"}
      /\ sent.key = <<pg.sent + 1, 1>> /\ sent.body = pg.draft /\ sent.ifMatch = pg.cache.rev
  OBVIOUS
<1>4. /\ pg.kind = "updateLocation" => Sending(pg) = "sent"
      /\ Keeps(pg) => Sending(pg) = "sent"
      /\ Sending(pg) \in {"fetching", "sent"}
  BY Unpacked DEF Sending
<1> HIDE DEF new, sent
<1>5. PageTyped(new)
  BY <1>0, <1>1, <1>3, <1>4 DEF PageTyped
<1>6. Keeps(new) => Kept(new, Mine(p))
  BY <1>0, <1>1, <1>3, <1>4 DEF PageOK, PageTyped, Keeps, Repeats, Kept, Told
<1>7. new.kind = "updateLocation" => Shows(new, row)
  BY <1>0, <1>1, <1>2, <1>3, <1>4 DEF PageOK, PageTyped, Shows, Seen
<1>8. PageOK(new, Mine(p), row)
  BY <1>5, <1>6, <1>7 DEF PageOK
<1> QED
  BY <1>0, <1>2, <1>8, PageBecomes

(* Reading the revision before a command is sent.                          *)
LEMMA FetchSteps ==
    ASSUME PagesOK, NEW p \in Pages, FetchRevision(p)
    PROVE  PagesOK'
<1> DEFINE pg == page[p]
           read == [pg.command EXCEPT !.ifMatch = row.rev]
           new == [pg EXCEPT !.command = read, !.stage = "sent"]
<1>0. PageOK(pg, Mine(p), row) /\ PageTyped(pg) /\ UNCHANGED <<row, stored>>
      /\ row.rev \in Nat /\ pg.stage = "fetching"
  BY Unpacked DEF FetchRevision, PagesOK
<1>1. /\ DOMAIN new = Fields /\ new.kind = pg.kind /\ new.sent = pg.sent
      /\ new.stage = "sent" /\ new.cache = pg.cache /\ new.answer = pg.answer
      /\ new.reading = pg.reading /\ new.draft = pg.draft
      /\ new.command = read /\ new.seeded = pg.seeded
  BY <1>0 DEF PageTyped, Fields
<1>2. page' = [page EXCEPT ![p] = new]
  BY DEF FetchRevision, PagesOK
<1>3. /\ DOMAIN read = {"key", "body", "ifMatch"}
      /\ read.key = pg.command.key /\ read.ifMatch = row.rev
  BY <1>0 DEF PageTyped
<1> HIDE DEF new, read
<1>4. PageOK(new, Mine(p), row)
  BY <1>0, <1>1, <1>3 DEF PageOK, PageTyped, Keeps, Repeats, Kept, Shows
<1> QED
  BY <1>0, <1>2, <1>4, PageBecomes

(* "Check again": the same command, or one with another key.               *)
LEMMA CheckAgainSteps ==
    ASSUME PagesOK, NEW p \in Pages, CheckAgain(p)
    PROVE  PagesOK'
<1> DEFINE pg == page[p]
           remade == [pg.command EXCEPT !.key[2] = @ + 1, !.ifMatch = pg.cache.rev]
           new == [pg EXCEPT !.stage = Sending(pg), !.command = Repeated(pg)]
<1>0. PageOK(pg, Mine(p), row) /\ PageTyped(pg) /\ UNCHANGED <<row, stored>>
      /\ pg.stage = "uncertain"
  BY Unpacked DEF CheckAgain
<1>1. /\ DOMAIN new = Fields /\ new.kind = pg.kind /\ new.sent = pg.sent
      /\ new.stage = Sending(pg) /\ new.cache = pg.cache /\ new.answer = pg.answer
      /\ new.reading = pg.reading /\ new.draft = pg.draft
      /\ new.command = Repeated(pg) /\ new.seeded = pg.seeded
  BY <1>0 DEF PageTyped, Fields
<1>2. page' = [page EXCEPT ![p] = new]
  BY Zenon DEF CheckAgain
<1>3. Repeated(pg) = pg.command \/ Repeated(pg) = remade
  BY DEF Repeated
<1>4. Keeps(pg) => Repeated(pg) = pg.command
  BY DEF Repeated, Keeps
<1>5. /\ DOMAIN remade = {"key", "body", "ifMatch"}
      /\ remade.key \in Nat \X Nat /\ remade.key[2] = pg.command.key[2] + 1
      /\ remade.ifMatch = pg.cache.rev
  BY <1>0 DEF PageTyped
<1>6. /\ pg.kind = "updateLocation" => Sending(pg) = "sent"
      /\ Keeps(pg) => Sending(pg) = "sent"
      /\ Sending(pg) \in {"fetching", "sent"}
  BY Unpacked DEF Sending
<1> HIDE DEF new, remade
<1>7. PageTyped(new)
  BY <1>0, <1>1, <1>3, <1>5, <1>6 DEF PageTyped
<1>8. Keeps(new) => Kept(new, Mine(p))
  BY <1>0, <1>1, <1>4, <1>6 DEF PageOK, PageTyped, Keeps, Repeats, Kept, Told
<1>9. new.kind = "updateLocation" => Shows(new, row)
  BY <1>0, <1>1, <1>3, <1>5, <1>6 DEF PageOK, PageTyped, Shows
<1>10. PageOK(new, Mine(p), row)
  BY <1>7, <1>8, <1>9 DEF PageOK
<1> QED
  BY <1>0, <1>2, <1>10, PageBecomes

(* What was executed for a page that keeps its command and found nothing    *)
(* under its key, was not of this submission.                              *)
LEMMA NotFound ==
    ASSUME PagesOK, NEW p \in Pages, page[p].stage = "sent", Keeps(page[p])
    PROVE  /\ Found(p) = {} => \A x \in Mine(p) : x.submission # page[p].sent
           /\ \A x \in Found(p) : x.command = page[p].command
<1> DEFINE pg == page[p]
<1>1. Kept(pg, Mine(p)) /\ pg.sent \in Nat
  BY Unpacked DEF PageOK, PageTyped
<1>2. pg.command.key = <<pg.sent, 1>>
  BY <1>1 DEF Kept
<1>3. \A x \in Mine(p) : x.submission = pg.sent => x.command.key = pg.command.key
  BY <1>1, <1>2, Zenon DEF Kept
<1>4. \A x \in Mine(p) : x.command.key = <<pg.sent, 1>> => x.submission = pg.sent
  BY <1>1 DEF Kept
<1>5. \A x \in Found(p) : x \in Mine(p) /\ x.command.key = pg.command.key
  BY DEF Found, Mine
<1>6. \A x \in Mine(p) : x.command.key = pg.command.key => x \in Found(p)
  BY DEF Found, Mine
<1>7. \A x \in Mine(p) : x.submission = pg.sent => x.command = pg.command
  BY <1>1 DEF Kept
<1> QED
  BY <1>2, <1>3, <1>4, <1>5, <1>6, <1>7, Zenon

(* Answers, and what the page makes of them.                               *)
LEMMA AnswerSteps ==
    ASSUME PagesOK, NEW p \in Pages, Replay(p) \/ Refuse(p) \/ Lose(p) \/ Hear(p)
    PROVE  PagesOK'
<1> DEFINE pg == page[p]
<1>0. PageOK(pg, Mine(p), row) /\ PageTyped(pg) /\ UNCHANGED <<row, stored>>
  BY Unpacked DEF Replay, Refuse, Lose, Hear
<1>1. ASSUME NEW stage, NEW answer, page' = [page EXCEPT ![p] = [pg EXCEPT !.stage = stage, !.answer = answer]],
             stage \in {"answered", "uncertain", "conflict", "failed"},
             stage \in {"answered", "uncertain"} => pg.stage \in {"sent", "answered"},
             stage = "answered" => answer \in {"success", "stale", "reused"},
             Keeps(pg) /\ (stage # "answered" \/ answer \in {"stale", "reused"}) /\ stage # "uncertain"
               => \A x \in Mine(p) : x.submission # pg.sent
      PROVE  PagesOK'
  <2> DEFINE new == [pg EXCEPT !.stage = stage, !.answer = answer]
  <2>1. /\ DOMAIN new = Fields /\ new.kind = pg.kind /\ new.sent = pg.sent
        /\ new.stage = stage /\ new.cache = pg.cache /\ new.answer = answer
        /\ new.reading = pg.reading /\ new.draft = pg.draft
        /\ new.command = pg.command /\ new.seeded = pg.seeded
    BY <1>0 DEF PageTyped, Fields
  <2> HIDE DEF new
  <2>2. PageTyped(new)
    BY <1>0, <1>1, <2>1 DEF PageTyped
  <2>3. Keeps(new) => Kept(new, Mine(p))
    BY <1>0, <1>1, <2>1 DEF PageOK, PageTyped, Keeps, Repeats, Kept, Told
  <2>4. new.kind = "updateLocation" => Shows(new, row)
    BY <1>0, <1>1, <2>1 DEF PageOK, PageTyped, Shows
  <2>5. PageOK(new, Mine(p), row)
    BY <2>2, <2>3, <2>4 DEF PageOK
  <2>6. page' = [page EXCEPT ![p] = new]
    BY <1>1 DEF new
  <2> QED
    BY <1>0, <2>5, <2>6, PageBecomes
<1>2. ASSUME NEW answer \in {"success", "stale", "reused"}, Reply(p, answer), pg.stage = "sent",
             Keeps(pg) /\ answer \in {"stale", "reused"} => \A x \in Mine(p) : x.submission # pg.sent
      PROVE  PagesOK'
  <2>1. page' = [page EXCEPT ![p] = [pg EXCEPT !.stage = "answered", !.answer = answer]]
    BY <1>2 DEF Reply, PagesOK
  <2> QED
    BY <1>1, <1>2, <2>1
<1>3. CASE Replay(p)
  <2> DEFINE answer == IF \E x \in Found(p) : x.command = page[p].command THEN "success" ELSE "reused"
  <2>1. pg.stage = "sent" /\ Found(p) # {} /\ Reply(p, answer)
    BY <1>3 DEF Replay
  <2>2. Keeps(pg) => answer = "success"
    BY <2>1, NotFound
  <2>3. answer \in {"success", "stale", "reused"}
    OBVIOUS
  <2> HIDE DEF answer
  <2> QED
    BY <1>2, <2>1, <2>2, <2>3
<1>4. CASE Refuse(p)
  <2>1. pg.stage = "sent" /\ Found(p) = {} /\ Reply(p, "stale")
    BY <1>4 DEF Refuse
  <2> QED
    BY <1>2, <2>1, NotFound
<1>5. CASE Lose(p)
  <2>1. page' = [page EXCEPT ![p] = [pg EXCEPT !.stage = "uncertain", !.answer = "none"]]
        /\ pg.stage \in {"sent", "answered"}
    BY <1>5 DEF Lose, PagesOK
  <2> QED
    BY <1>1, <2>1
<1>6. CASE Hear(p) /\ pg.answer = "success"
  <2> DEFINE ended == [pg EXCEPT !.stage = "editing", !.seeded = FALSE, !.answer = "none",
                                 !.command = NothingSent]
             closed == Closed(pg)
             new == Succeeded(pg)
  <2>1. /\ DOMAIN ended = Fields /\ ended.kind = pg.kind /\ ended.sent = pg.sent
        /\ ended.stage = "editing" /\ ended.cache = pg.cache /\ ended.reading = pg.reading
        /\ ended.command = NothingSent /\ ended.seeded = FALSE
    BY <1>0 DEF PageTyped, Fields
  <2>2. /\ DOMAIN closed = Fields /\ closed.kind = pg.kind /\ closed.sent = pg.sent
        /\ closed.stage = "closed" /\ closed.cache = pg.cache /\ closed.reading = pg.reading
        /\ closed.command = NothingSent /\ closed.seeded = FALSE
    BY <1>0 DEF PageTyped, Fields, Closed
  <2>3. new = Refetching(ended) \/ new = Refetching(closed) \/ new = closed
    BY DEF Succeeded
  <2> HIDE DEF ended, closed, new
  <2>4. /\ DOMAIN new = Fields /\ new.kind = pg.kind /\ new.sent = pg.sent
        /\ new.stage \in {"editing", "closed"} /\ new.cache = pg.cache
        /\ new.reading = pg.reading \/ new.reading = Asked
        /\ new.command = NothingSent /\ new.seeded = FALSE
    BY <2>1, <2>2, <2>3 DEF Refetching, Fields
  <2>5. /\ DOMAIN NothingSent = {"key", "body", "ifMatch"} /\ NothingSent.key = <<0, 0>>
        /\ NothingSent.ifMatch = 0 /\ NothingSent.key[2] = 0 /\ NothingSent.key \in Nat \X Nat
        /\ Asked.rev = -2
    BY DEF NothingSent, Asked
  <2>6. Becomes(p, new)
    BY <1>6 DEF Hear, new
  <2>7. PageTyped(new)
    <3>1. DOMAIN new.command = {"key", "body", "ifMatch"} /\ new.command.key \in Nat \X Nat
      BY <2>4, <2>5, Zenon
    <3>2. new.kind \in Forms /\ new.sent \in Nat /\ new.cache.rev \in Int
      BY <1>0, <2>4, Zenon DEF PageTyped
    <3>3. new.reading.rev \in Int
      BY <1>0, <2>4, <2>5 DEF PageTyped
    <3>4. new.seeded \in BOOLEAN /\ new.command.ifMatch = 0
      BY <2>4, <2>5, Zenon
    <3>5. new.command.ifMatch \in Int
      BY <3>4
    <3> QED
      BY <2>4, <3>1, <3>2, <3>3, <3>4, <3>5, Zenon DEF PageTyped
  <2>8. Keeps(new) => Kept(new, Mine(p))
    BY <1>0, <2>4 DEF PageOK, Keeps, Repeats, Kept, Told
  <2>9. new.kind = "updateLocation" => Shows(new, row)
    BY <1>0, <2>4, <2>5 DEF PageOK, Shows
  <2>10. PageOK(new, Mine(p), row)
    BY <2>7, <2>8, <2>9 DEF PageOK
  <2> QED
    BY <1>0, <2>6, <2>10, PageRenders
<1>7. CASE Hear(p) /\ pg.answer # "success"
  <2>1. PICK stage \in {"conflict", "failed"} :
          Becomes(p, [pg EXCEPT !.stage = stage, !.answer = "none"]) /\ pg.answer \in {"stale", "reused"}
    BY <1>0, <1>7 DEF Hear, PageTyped
  <2> DEFINE new == [pg EXCEPT !.stage = stage, !.answer = "none"]
  <2>2. /\ DOMAIN new = Fields /\ new.kind = pg.kind /\ new.sent = pg.sent
        /\ new.stage = stage /\ new.cache = pg.cache
        /\ new.reading = pg.reading /\ new.draft = pg.draft
        /\ new.command = pg.command /\ new.seeded = pg.seeded
    BY <1>0 DEF PageTyped, Fields
  <2>3. pg.stage = "answered"
    BY <1>7 DEF Hear
  <2>4. Becomes(p, new)
    BY <2>1
  <2> HIDE DEF new
  <2>5. PageOK(new, Mine(p), row)
    BY <1>0, <2>1, <2>2, <2>3 DEF PageOK, PageTyped, Keeps, Repeats, Kept, Told, Shows
  <2> QED
    BY <1>0, <2>4, <2>5, PageRenders
<1> QED
  BY <1>3, <1>4, <1>5, <1>6, <1>7

(* A command that takes effect: one more record of the page, and the row    *)
(* moves on from whatever the pages have read of it.                       *)
LEMMA ExecuteSteps ==
    ASSUME PagesOK, NEW p \in Pages, Execute(p)
    PROVE  PagesOK'
<1> DEFINE pg == page[p]
           done == [by |-> p, submission |-> pg.sent, command |-> pg.command]
           new == [pg EXCEPT !.stage = "answered", !.answer = "success"]
<1>0. /\ PageOK(pg, Mine(p), row) /\ PageTyped(pg) /\ row.rev \in Nat \ {0}
      /\ pg.stage = "sent" /\ Found(p) = {} /\ RevisionMatches(p)
  BY Unpacked DEF Execute, PagesOK
<1>1. /\ DOMAIN new = Fields /\ new.kind = pg.kind /\ new.sent = pg.sent
      /\ new.stage = "answered" /\ new.cache = pg.cache /\ new.answer = "success"
      /\ new.reading = pg.reading /\ new.draft = pg.draft
      /\ new.command = pg.command /\ new.seeded = pg.seeded
  BY <1>0 DEF PageTyped, Fields
<1>2. page' = [page EXCEPT ![p] = new] /\ stored' = stored \cup {done}
  BY DEF Execute, Reply, PagesOK
<1>3. done.by = p /\ done.submission = pg.sent /\ done.command = pg.command
  OBVIOUS
<1>4. row' = row \/ (row'.rev = row.rev + 1 /\ ~ Creating(pg))
  BY DEF Execute
<1> HIDE DEF new, done
<1>5. Mine(p)' = Mine(p) \cup {done} /\ \A q \in Pages \ {p} : Mine(q)' = Mine(q)
  BY <1>2, <1>3 DEF Mine
<1>6. \A q \in Pages : page'[q] = IF q = p THEN new ELSE page[q]
  BY <1>2 DEF PagesOK
<1>7. row'.rev \in Nat \ {0} /\ row'.rev >= row.rev /\ (row'.rev = row.rev => row' = row)
  BY <1>0, <1>4
<1>8. ASSUME NEW any, PageTyped(any), Shows(any, row)
      PROVE  Shows(any, row')
  <2>1. \A data : (data.rev \in Int /\ Seen(data, row)) => Seen(data, row')
    BY <1>0, <1>7 DEF Seen
  <2>2. Seen(any.cache, row') /\ (any.reading.rev > 0 => Seen(any.reading, row'))
    BY <1>8, <2>1, Zenon DEF PageTyped, Shows
  <2>3. any.command.key[2] = 1 => /\ any.command.ifMatch <= row'.rev
                                  /\ any.command.ifMatch = row'.rev => row'.has \subseteq any.command.body
    BY <1>0, <1>7, <1>8 DEF PageTyped, Shows
  <2> QED
    BY <1>8, <2>2, <2>3, Zenon DEF Shows
<1>9. \A q \in Pages \ {p} : PageOK(page'[q], Mine(q)', row')
  BY <1>5, <1>6, <1>8, Unpacked DEF PageOK
<1>10. PageTyped(new)
  BY <1>0, <1>1 DEF PageTyped
<1>11. new.kind = "updateLocation" => Shows(new, row')
  <2>1. new.kind = "updateLocation" => Shows(new, row)
    BY <1>0, <1>1 DEF PageOK, Shows
  <2> QED
    BY <1>8, <1>10, <2>1
<1>12. Keeps(new) => Kept(new, Mine(p) \cup {done})
  <2> SUFFICES ASSUME Keeps(new) PROVE Kept(new, Mine(p) \cup {done})
    OBVIOUS
  <2>1. Keeps(pg)
    BY <1>1 DEF Keeps, Repeats
  <2>2. Kept(pg, Mine(p)) /\ (\A x \in Mine(p) : x.submission # pg.sent) /\ pg.sent \in Nat
    BY <1>0, <2>1, NotFound DEF PageOK, PageTyped
  <2>3. pg.command.key = <<pg.sent, 1>>
    BY <1>0, <2>2 DEF Kept
  <2>4. \A x \in Mine(p) \cup {done} : /\ x.submission \in Nat /\ x.submission <= pg.sent
                                       /\ x.command.key = <<x.submission, 1>>
    BY <1>3, <2>2, <2>3 DEF Kept
  <2>5. \A x, y \in Mine(p) \cup {done} : x.submission = y.submission => x = y
    <3>1. \A x, y \in Mine(p) : x.submission = y.submission => x = y
      BY <2>2, Zenon DEF Kept
    <3>2. \A x \in Mine(p) : x.submission # done.submission /\ done.submission # x.submission
      BY <1>3, <2>2, Zenon
    <3> QED
      BY <3>1, <3>2, Zenon
  <2>6. \A x \in Mine(p) \cup {done} : x.submission = pg.sent => x.command = pg.command
    BY <1>3, <2>2, Zenon
  <2>7. ~ Told(new) /\ new.stage = "answered"
    BY <1>1 DEF Told
  <2> QED
    BY <1>1, <2>3, <2>4, <2>5, <2>6, <2>7 DEF Kept
<1>13. PageOK(new, Mine(p)', row')
  BY <1>5, <1>10, <1>11, <1>12 DEF PageOK
<1> QED
  BY <1>2, <1>6, <1>7, <1>9, <1>13 DEF PagesOK

(* At first every page is closed and nothing has been sent.                *)
LEMMA FirstPages == PagesInit => PagesOK
<1> SUFFICES ASSUME PagesInit PROVE PagesOK
  OBVIOUS
<1>1. PICK kind \in Openings : page = [p \in Pages |->
        [kind |-> kind[p], stage |-> "closed", cache |-> NoData, reading |-> Still,
         seeded |-> FALSE, draft |-> {}, dirty |-> FALSE, sent |-> 0,
         command |-> NothingSent, answer |-> "none"]]
  BY DEF PagesInit
<1>2. row = [rev |-> 1, has |-> {}] /\ stored = {}
  BY DEF PagesInit
<1>3. /\ NoData.rev = 0 /\ Still.rev = -1
      /\ DOMAIN NothingSent = {"key", "body", "ifMatch"} /\ NothingSent.key = <<0, 0>>
      /\ NothingSent.ifMatch = 0 /\ NothingSent.key[2] = 0 /\ NothingSent.key \in Nat \X Nat
  BY DEF NoData, Still, NothingSent
<1>4. ASSUME NEW p \in Pages PROVE PageOK(page[p], Mine(p), row)
  <2> DEFINE pg == page[p]
  <2>1. /\ DOMAIN pg = Fields /\ pg.kind = kind[p] /\ pg.sent = 0 /\ pg.stage = "closed"
        /\ pg.cache = NoData /\ pg.reading = Still /\ pg.seeded = FALSE
        /\ pg.command = NothingSent
    BY <1>1 DEF Fields
  <2>2. kind[p] \in Forms /\ Mine(p) = {} /\ row.rev = 1
    BY <1>2, OpeningsAssumption DEF Mine
  <2> HIDE DEF pg
  <2>3. PageTyped(pg)
    <3>1. DOMAIN pg.command = {"key", "body", "ifMatch"} /\ pg.command.key \in Nat \X Nat
      BY <2>1, <1>3, Zenon
    <3>2. pg.kind \in Forms /\ pg.cache.rev = 0 /\ pg.reading.rev = -1 /\ pg.command.ifMatch = 0
      BY <1>3, <2>1, <2>2, Zenon
    <3>3. pg.cache.rev \in Int /\ pg.reading.rev \in Int /\ pg.command.ifMatch \in Int
      BY <3>2
    <3>a. pg.sent = 0 /\ pg.seeded = FALSE /\ pg.stage = "closed"
      BY <2>1, Zenon
    <3>b. pg.seeded \in BOOLEAN
      BY <3>a, Zenon
    <3>c. pg.stage # "answered"
      BY <3>a, Zenon
    <3>d. pg.sent \in Nat
      BY <3>a
    <3>4. pg.sent \in Nat /\ pg.seeded \in BOOLEAN /\ pg.stage # "answered"
      BY <3>b, <3>c, <3>d
    <3> QED
      BY <2>1, <3>1, <3>2, <3>3, <3>4, Zenon DEF PageTyped
  <2>4. Kept(pg, Mine(p))
    BY <2>1, <2>2 DEF Kept, Told
  <2>5. Shows(pg, row)
    BY <1>3, <2>1, <2>2 DEF Shows, Seen
  <2> QED
    BY <2>3, <2>4, <2>5 DEF PageOK, pg
<1> QED
  BY <1>1, <1>2, <1>4 DEF PagesOK

(* The pages' invariant is one of every behaviour.                         *)
LEMMA PagesStayOK == PagesSpec => []PagesOK
<1>1. PagesOK /\ [PagesNext]_pagesVars => PagesOK'
  <2> SUFFICES ASSUME PagesOK, [PagesNext]_pagesVars PROVE PagesOK'
    OBVIOUS
  <2>1. CASE UNCHANGED pagesVars
    BY <2>1 DEF pagesVars, PagesOK, Mine
  <2>2. CASE PagesNext
    <3>1. PICK p \in Pages :
            \/ OpenPage(p) \/ ClosePage(p) \/ Refetch(p) \/ Serve(p) \/ Settle(p)
            \/ \E e \in Edits : Type(p, e)
            \/ Cancel(p) \/ Submit(p) \/ FetchRevision(p) \/ CheckAgain(p)
            \/ Replay(p) \/ Refuse(p) \/ Execute(p) \/ Lose(p) \/ Hear(p) \/ Review(p)
      BY <2>2 DEF PagesNext
    <3> QED
      BY <3>1, ReadingSteps, TypeSteps, SubmitSteps, FetchSteps, CheckAgainSteps, AnswerSteps,
         ExecuteSteps
  <2> QED
    BY <2>1, <2>2
<1> QED
  BY <1>1, FirstPages, PTL DEF PagesSpec

(* A page that keeps its command can be believed: whatever is lost and      *)
(* however often "Check again" is pressed, a submission takes effect at      *)
(* most once, and a conflict that is shown is one.                         *)
THEOREM KeptCommandsAreBelievable == PagesSpec => []KeptCommandsAreSure
<1>1. PagesOK => KeptCommandsAreSure
  <2> SUFFICES ASSUME PagesOK, NEW p \in Pages, Repeats(page[p]) = "same"
               PROVE  /\ \A n \in 1..MostSubmissions : Cardinality(EffectsOf(p, n)) <= 1
                      /\ page[p].stage \in {"conflict", "failed"} => EffectsOf(p, page[p].sent) = {}
    BY DEF KeptCommandsAreSure
  <2>1. Kept(page[p], Mine(p))
    BY Unpacked DEF PageOK, Keeps
  <2>2. \A n : EffectsOf(p, n) \subseteq Mine(p) /\ \A x \in EffectsOf(p, n) : x.submission = n
    BY DEF EffectsOf, Mine
  <2>3. ASSUME NEW n PROVE Cardinality(EffectsOf(p, n)) <= 1
    <3> DEFINE effects == EffectsOf(p, n)
    <3>1. \A x, y \in effects : x = y
      BY <2>1, <2>2 DEF Kept
    <3>2. effects = {} \/ \E x : effects = {x}
      BY <3>1
    <3> HIDE DEF effects
    <3>3. ASSUME effects = {} PROVE Cardinality(effects) <= 1
      <4>1. Cardinality(effects) = 0
        BY <3>3, FS_EmptySet, Zenon
      <4> QED
        BY <4>1
    <3>4. ASSUME NEW x, effects = {x} PROVE Cardinality(effects) <= 1
      <4>1. Cardinality({x}) = 1
        BY FS_Singleton, Zenon
      <4>2. Cardinality(effects) = 1
        BY <3>4, <4>1, Zenon
      <4> QED
        BY <4>2
    <3> QED
      BY <3>2, <3>3, <3>4 DEF effects
  <2>4. page[p].stage \in {"conflict", "failed"} => EffectsOf(p, page[p].sent) = {}
    BY <2>1, <2>2 DEF Kept, Told
  <2> QED
    BY <2>3, <2>4
<1> QED
  BY <1>1, PagesStayOK, PTL

(* What the server accepts of the first attempt of a location's form was    *)
(* made over everything that is in the row.                                *)
THEOREM AcceptedFormsHideNothing == PagesSpec => []AcceptedFormsShowAll
<1>1. PagesOK => AcceptedFormsShowAll
  BY Unpacked DEF AcceptedFormsShowAll, PageOK, Shows
<1> QED
  BY <1>1, PagesStayOK, PTL

=============================================================================
