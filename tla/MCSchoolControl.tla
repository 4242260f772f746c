-------------------------- MODULE MCSchoolControl --------------------------
(* Instances of the school's schedule, of its other configuration, and of   *)
(* the pages on which staff edit them.  They share no state, so one run     *)
(* explores them side by side: the focus is chosen in the initial state,    *)
(* and only its steps are taken.                                            *)
EXTENDS SchoolSchedule, SchoolSetup, MCEditPages

CONSTANTS b1, b2, m1, m2, q1, a, b, d, k1, p1, g, r, c1, c2, u1
CONSTANT Foci

VARIABLE focus

(* An empty schedule, and one with a lesson every day. *)
Lesson(m) == [kind |-> "instructional", template |-> m, cycle |-> "A"]
Slot(x, from, until) == [block |-> x, from |-> from, until |-> until]
Built ==
    [rev |-> 1, block |-> [x \in Blocks |-> "active"],
     template |-> (m1 :> "active" @@ m2 :> "absent"),
     slots |-> (m1 :> {Slot(b1, 0, 1)} @@ m2 :> {}),
     day |-> [x \in Dates |-> Lesson(m1)]]
BothSeeds == {EmptySchedule, Built}
FiveLists ==
    {<<>>, <<Slot(b1, 0, 1)>>, <<Slot(b2, 0, 2)>>,
     <<Slot(b2, 1, 2), Slot(b1, 0, 1)>>, <<Slot(b2, 1, 2), Slot(b1, 0, 2)>>}
Algebra ==
    {[section |-> "algebra", block |-> b1, cycle |-> "any", from |-> 0, until |-> 0]}
ClocksChange == {<<1, 1>>}

(* Three locations that clerks move; or one of each thing that refers to    *)
(* another, and a request for a pass.                                      *)
OnlyOn(S) ==
    /\ \A c \in {x \in Clerks : command'[x] # NoCommand} : command'[c].on \in S
    /\ \A u \in {x \in Students : request'[x] # NoRequest} : request'[u].at \in S

(* One administrator edits while a placement is resolved, or two edit while *)
(* none is.                                                                *)
OnePage == \A x, y \in Editors : x # y => NothingRead \in {editor'[x], editor'[y]}
NoQuestion == resolution' = resolution

ControlInit ==
    /\ ScheduleInit /\ SetupInit /\ PagesInit /\ focus \in Foci
    /\ focus \notin {"placement", "schedule"} => schedule = EmptySchedule
    /\ focus # "pages" => \A p \in Pages : page[p].kind = (CHOOSE kind \in Openings : TRUE)[p]
ControlNext ==
    /\ \/ focus = "placement" /\ ScheduleNext /\ OnePage /\ UNCHANGED <<setupVars, pagesVars>>
       \/ focus = "schedule" /\ ScheduleNext /\ NoQuestion /\ UNCHANGED <<setupVars, pagesVars>>
       \/ focus = "tree" /\ SetupNext /\ OnlyOn(Locations) /\ UNCHANGED <<scheduleVars, pagesVars>>
       \/ focus = "references" /\ SetupNext /\ OnlyOn(Things \ {b, d}) /\ UNCHANGED <<scheduleVars, pagesVars>>
       \/ focus = "pages" /\ PagesNext /\ UNCHANGED <<scheduleVars, setupVars>>
    /\ UNCHANGED focus
ControlSpec ==
    ControlInit /\ [][ControlNext]_<<scheduleVars, setupVars, pagesVars, focus>>

(* Editors of the schedule, clerks and edits are the same model values. *)
ControlSymmetry == Permutations(Clerks)

===========================================================================
