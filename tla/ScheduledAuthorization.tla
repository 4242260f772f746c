----------------------- MODULE ScheduledAuthorization -----------------------
(***************************************************************************)
(* Scheduled authorizations: staff book a window in which one student may   *)
(* go to one destination, the student starts it, staff may cancel it, and   *)
(* administrators close, open and archive the destination meanwhile.        *)
(*                                                                         *)
(* Granularity.  A call reads the clock when it arrives, waits for a        *)
(* connection of the pool and begins its transaction.  A start locks the    *)
(* booking's row, then resolves the student's placement on a SECOND         *)
(* connection of the same pool while it holds the first, then creates the   *)
(* pass, then records on the booking what became of it and commits.  Other  *)
(* sessions see nothing of it before the commit, except that the lock on    *)
(* the row and the unique index on live passes make them wait.              *)
(*                                                                         *)
(* The pass pipeline itself is DestinationFlow's; here a started pass is    *)
(* live (requested, queued or ready) or denied at once.                     *)
(***************************************************************************)
EXTENDS Integers, FiniteSets

CONSTANTS
    Bookings,        \* scheduled_authorization rows that may come to exist
    Travellers,      \* the students they are for
    Places,          \* the destinations they are for
    TravellerOf, PlaceOf,
    Windows,         \* the [from, until) pairs that staff may book
    Calls,           \* requests the server handles at once
    Connections,     \* size of the connection pool (max)
    LastMinute,     \* bound: the last minute of the clock
    MostAttempts     \* bound: no start is sent at this revision

ASSUME BookingAssumption ==
    /\ TravellerOf \in [Bookings -> Travellers]
    /\ PlaceOf \in [Bookings -> Places]
    /\ Windows \subseteq [from : Nat, until : Nat]
    /\ \A w \in Windows : w.from < w.until
    /\ IsFiniteSet(Calls)
    /\ Connections \in Nat \ {0} /\ LastMinute \in Nat /\ MostAttempts \in Nat

VARIABLES
    minute,         \* the wall clock
    booking,         \* the rows, with the number of passes started from each
    livePass,        \* what each student's live pass was started from
    place,           \* status of each destination
    call             \* the calls in progress

scheduledVars == <<minute, booking, livePass, place, call>>

Nobody == "none"     \* no live pass
Elsewhere == "other" \* a live pass of another source

BookingStates == {"absent", "active", "used", "cancelled"}
Bookables == [status : BookingStates, rev : Nat,
              window : Windows \cup {[from |-> 0, until |-> 0]},
              started : Nat, denied : Nat, startedAt : Nat]
Operations == {"create", "cancel", "start"}
CallStages == {"sent", "begun", "checked", "placing", "placed", "live", "denied"}
CallRecords == [op : Operations, of : Bookings, at : Nat, rev : Nat, stage : CallStages]
NoCall == [op |-> "idle"]

NoBooking == [status |-> "absent", rev |-> 0,
              window |-> [from |-> 0, until |-> 0],
              started |-> 0, denied |-> 0, startedAt |-> 0]

ScheduledInit ==
    /\ minute = 0
    /\ booking = [a \in Bookings |-> NoBooking]
    /\ livePass = [s \in Travellers |-> Nobody]
    /\ place = [d \in Places |-> "active"]
    /\ call = [c \in Calls |-> NoCall]

---------------------------------------------------------------------------
(* Who holds what.                                                         *)

Busy(c) == call[c] # NoCall
InStage(c, op, stage) == Busy(c) /\ call[c].op = op /\ call[c].stage = stage

InTransaction == {c \in Calls : Busy(c) /\ call[c].stage # "sent"}
FreeConnection == Cardinality(InTransaction) < Connections

(* SELECT ... FOR UPDATE of the row, held to the end of the transaction. *)
HoldsRow(c, a) ==
    Busy(c) /\ call[c].of = a /\ call[c].stage \in {"placing", "placed", "live", "denied"}
RowIsFree(a) == \A c \in Calls : ~ HoldsRow(c, a)

(* A pass inserted but not committed: a second insert for the student waits. *)
Inserting(s) == {c \in Calls : Busy(c) /\ TravellerOf[call[c].of] = s
                                       /\ call[c].stage \in {"live", "denied"}}

LiveBookings(d, at) ==
    {a \in Bookings : PlaceOf[a] = d /\ booking[a].status = "active"
                                     /\ at < booking[a].window.until}
PassesTo(d) == {s \in Travellers : \E a \in Bookings : livePass[s] = a /\ PlaceOf[a] = d}

---------------------------------------------------------------------------
(* Calls.                                                                  *)

ToStage(c, stage) == call' = [call EXCEPT ![c].stage = stage]
EndCall(c) == call' = [call EXCEPT ![c] = NoCall]

(* Clients send what their view of the row allows, with its revision. *)
Send(c, op, a) ==
    /\ ~ Busy(c)
    /\ (op = "create") <=> (booking[a].status = "absent")
    /\ op = "start" => booking[a].rev < MostAttempts
    /\ call' = [call EXCEPT ![c] = [op |-> op, of |-> a, at |-> minute,
                                    rev |-> booking[a].rev, stage |-> "sent"]]
    /\ UNCHANGED <<minute, booking, livePass, place>>

BeginTransaction(c) ==
    /\ Busy(c) /\ call[c].stage = "sent"
    /\ FreeConnection
    /\ ToStage(c, "begun")
    /\ UNCHANGED <<minute, booking, livePass, place>>

FaultyWaitsInVain(c) == FALSE                       \* no connection timeout
(* connectionTimeoutMillis: whoever waits for a connection gives up.       *)
WaitsInVain(c) ==
    /\ Busy(c) /\ call[c].stage \in {"sent", "placing"}
    /\ ~ FreeConnection

(* The transaction rolls back: refused, timed out, or lost with its server. *)
CallFails(c) ==
    /\ Busy(c)
    /\ EndCall(c)
    /\ UNCHANGED <<minute, booking, livePass, place>>
TimesOut(c) == WaitsInVain(c) /\ CallFails(c)

(* Booking: the destination is looked at, unlocked, and then the row is    *)
(* inserted.  Nothing demands that the window still lies ahead.            *)
CheckBooking(c) ==
    /\ InStage(c, "create", "begun")
    /\ place[PlaceOf[call[c].of]] # "archived"
    /\ ToStage(c, "checked")
    /\ UNCHANGED <<minute, booking, livePass, place>>

InsertBooking(c) ==
    LET a == call[c].of IN
    /\ InStage(c, "create", "checked")
    /\ booking[a].status = "absent"
    /\ \E w \in Windows :
          booking' = [booking EXCEPT ![a] = [NoBooking EXCEPT
                          !.status = "active", !.rev = 1, !.window = w]]
    /\ EndCall(c)
    /\ UNCHANGED <<minute, livePass, place>>

(* WHERE revision = expected AND status = 'active' *)
StillExpected(c) == /\ booking[call[c].of].rev = call[c].rev
                    /\ booking[call[c].of].status = "active"

CancelBooking(c) ==
    LET a == call[c].of IN
    /\ InStage(c, "cancel", "begun")
    /\ RowIsFree(a)
    /\ StillExpected(c)
    /\ booking' = [booking EXCEPT ![a].status = "cancelled", ![a].rev = @ + 1]
    /\ EndCall(c)
    /\ UNCHANGED <<minute, livePass, place>>

(* The start: lock the row, judge status, window and revision. *)
LockForStart(c) ==
    LET a == call[c].of IN
    /\ InStage(c, "start", "begun")
    /\ RowIsFree(a)
    /\ StillExpected(c)
    /\ booking[a].window.from <= call[c].at
    /\ call[c].at < booking[a].window.until
    /\ place[PlaceOf[a]] # "archived"
    /\ ToStage(c, "placing")
    /\ UNCHANGED <<minute, booking, livePass, place>>

(* The placement repository takes a connection of its own and returns it. *)
ResolvePlacement(c) ==
    /\ InStage(c, "start", "placing")
    /\ FreeConnection
    /\ ToStage(c, "placed")
    /\ UNCHANGED <<minute, booking, livePass, place>>

(* createPassInTransaction: reads the destination again, inserts, decides. *)
CreatesPass(c) ==
    LET s == TravellerOf[call[c].of] IN
    /\ InStage(c, "start", "placed")
    /\ place[PlaceOf[call[c].of]] = "active"
    /\ livePass[s] = Nobody
    /\ Inserting(s) = {}
    /\ \E outcome \in {"live", "denied"} : ToStage(c, outcome)
    /\ UNCHANGED <<minute, booking, livePass, place>>

MarkUsed(a) ==
    booking' = [booking EXCEPT ![a].status = "used", ![a].rev = @ + 1,
                               ![a].started = @ + 1, ![a].startedAt = minute]

FaultyRecordAttempt(a) ==                           \* revision kept
    booking' = [booking EXCEPT ![a].denied = @ + 1]
(* The row stays active, but every client's revision of it is stale now. *)
RecordAttempt(a) ==
    booking' = [booking EXCEPT ![a].rev = @ + 1, ![a].denied = @ + 1]

CommitStart(c) ==
    LET a == call[c].of IN
    /\ InStage(c, "start", "live") \/ InStage(c, "start", "denied")
    /\ StillExpected(c)
    /\ \/ /\ InStage(c, "start", "live")
          /\ MarkUsed(a)
          /\ livePass' = [livePass EXCEPT ![TravellerOf[a]] = a]
       \/ /\ InStage(c, "start", "denied")
          /\ RecordAttempt(a)
          /\ UNCHANGED livePass
    /\ EndCall(c)
    /\ UNCHANGED <<minute, place>>

---------------------------------------------------------------------------
(* The world around.                                                       *)

(* The student requests a pass of another kind, or the live pass ends. *)
RequestElsewhere(s) ==
    /\ livePass[s] = Nobody
    /\ Inserting(s) = {}
    /\ livePass' = [livePass EXCEPT ![s] = Elsewhere]
    /\ UNCHANGED <<minute, booking, place, call>>
EndPass(s) ==
    /\ livePass[s] # Nobody
    /\ livePass' = [livePass EXCEPT ![s] = Nobody]
    /\ UNCHANGED <<minute, booking, place, call>>

OpenOrClosePlace(d) ==
    /\ place[d] # "archived"
    /\ place' = [place EXCEPT ![d] = IF @ = "active" THEN "closed" ELSE "active"]
    /\ UNCHANGED <<minute, booking, livePass, call>>

(* assertArchivable counts live passes and live bookings that are committed. *)
ArchivePlace(d) ==
    /\ place[d] # "archived"
    /\ PassesTo(d) = {}
    /\ LiveBookings(d, minute) = {}
    /\ place' = [place EXCEPT ![d] = "archived"]
    /\ UNCHANGED <<minute, booking, livePass, call>>

MinutePasses ==
    /\ minute < LastMinute
    /\ minute' = minute + 1
    /\ UNCHANGED <<booking, livePass, place, call>>

Progress(c) ==
    \/ BeginTransaction(c) \/ CheckBooking(c) \/ InsertBooking(c)
    \/ CancelBooking(c) \/ LockForStart(c) \/ ResolvePlacement(c)
    \/ CreatesPass(c) \/ CommitStart(c)

(* What a call waits for: a connection, the row, a row of the unique index. *)
Waits(c) ==
    \/ call[c].stage \in {"sent", "placing"}
    \/ call[c].stage = "begun" /\ call[c].op # "create" /\ ~ RowIsFree(call[c].of)
    \/ call[c].stage = "placed" /\ Inserting(TravellerOf[call[c].of]) # {}

(* What the server does with a call: its next step, or a refusal. *)
Handled(c) == Progress(c) \/ TimesOut(c) \/ (Busy(c) /\ ~ Waits(c) /\ CallFails(c))

ScheduledNext ==
    \/ \E c \in Calls, op \in Operations, a \in Bookings : Send(c, op, a)
    \/ \E c \in Calls : Progress(c) \/ CallFails(c)
    \/ \E s \in Travellers : RequestElsewhere(s) \/ EndPass(s)
    \/ \E d \in Places : OpenOrClosePlace(d) \/ ArchivePlace(d)
    \/ MinutePasses

ScheduledSpec == ScheduledInit /\ [][ScheduledNext]_scheduledVars

(* The pool and the row locks serve their waiters in turn, so a call that  *)
(* could go on again and again does, and a wait in vain times out.          *)
ScheduledFairness == \A c \in Calls : SF_scheduledVars(Handled(c))

---------------------------------------------------------------------------
(* Properties.                                                             *)

(* Every variable keeps its type. *)
ScheduledTypeOK ==
    /\ minute \in Nat
    /\ booking \in [Bookings -> Bookables]
    /\ livePass \in [Travellers -> Bookings \cup {Nobody, Elsewhere}]
    /\ place \in [Places -> {"active", "closed", "archived"}]
    /\ call \in [Calls -> CallRecords \cup {NoCall}]

(* A booking moves a student at most once, however starts, cancellations   *)
(* and retries interleave: exactly the used ones have started a live pass, *)
(* so a cancelled one never has; and every start, denied ones included,    *)
(* and every cancellation made the revision of all clients stale.          *)
BookingMovesOnce ==
    \A a \in Bookings :
        /\ booking[a].started = IF booking[a].status = "used" THEN 1 ELSE 0
        /\ booking[a].status # "absent" =>
              booking[a].rev = 1 + booking[a].denied
                                 + (IF booking[a].status = "active" THEN 0 ELSE 1)

(* No call waits for ever, although starts hold a connection and a row     *)
(* while they wait for a second connection, and others hold connections    *)
(* while they wait for the row.                                            *)
EveryCallEnds == \A c \in Calls : Busy(c) ~> ~ Busy(c)

===========================================================================
