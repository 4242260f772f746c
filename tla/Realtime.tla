------------------------------- MODULE Realtime -------------------------------
(***************************************************************************)
(* How a committed change reaches a page that somebody is looking at.       *)
(*                                                                         *)
(* A transaction notifies the listening connection of each API replica with *)
(* the id of its outbox row.  The replica loads the row, works out the      *)
(* topics the subscriber may hear of, and writes them to the event stream of *)
(* the browser, which marks its cached queries stale and fetches again those *)
(* that a component observes.  Nothing is replayed: a change made while the  *)
(* connection or the stream is down is recovered by a resync, which marks    *)
(* everything.                                                             *)
(*                                                                         *)
(* One replica and one browser, in one school.  The screen shows one of the  *)
(* queries of PageQueries, to a reader entitled to it and to nothing else.  *)
(* What entitles him is in the organization's context, which no component    *)
(* observes: the loader of the school's route reads it, the page keeps what  *)
(* the loader gave it, and the stream is opened anew when what is cached of  *)
(* it changes.  What grants entitle him to alternates with every change of   *)
(* them; what he may as a student or a teacher stays.  Refetching on focus   *)
(* and by timer, and leaving the page for another, is left out: the question *)
(* is what the stream alone achieves.                                      *)
(***************************************************************************)
EXTENDS PageQueries

CONSTANTS
    MostChanges,      \* bound: commands that change what the browser reads
    MostBreaks        \* bound: lost connections, refused streams and failed reads

ASSUME RealtimeAssumption == MostChanges \in Nat /\ MostBreaks \in Nat

VARIABLES
    screen,       \* the query that is shown, and what entitles its reader
    truth,        \* how often each table that the browser reads has changed
    listener,     \* the listening connection: up, and the notifications to load
    stream,       \* the event stream: its subscriber's rights, and what is on its way
    page,         \* its connection status, and the context its loader read last
    loader,       \* the request for the context
    cached,       \* what the screen's query shows, and whether it is marked stale
    fetch,        \* the screen's request
    missed,       \* ghost: what the screen shows owes nothing to the stream, until read again
    changes, breaks

realtimeVars ==
    <<screen, truth, listener, stream, page, loader, cached, fetch, missed, changes, breaks>>

Watched == screen.reads \cup {"authorization_grant"}

(* The context, by the changes of the grants it has seen. *)
Rights == truth["authorization_grant"]
ByRelationship == {"self", "teaches"}
Entitled(rights) == screen.by \in ByRelationship \/ rights % 2 = 0
Holds(rights) == IF Entitled(rights) THEN {screen.by} ELSE {}

Off == [state |-> "closed"]
GivenUp == [state |-> "refused"]
Unread == [read |-> FALSE]
Resting == [state |-> "idle"]
Asked == [state |-> "asked"]

Version == [t \in screen.reads |-> truth[t]]

RealtimeInit ==
    /\ screen \in Shown
    /\ truth = [t \in Watched |-> 0]
    /\ listener = [up |-> TRUE, inbox |-> <<>>]
    /\ stream = Off
    /\ page = [status |-> "away", context |-> 0, cached |-> FALSE]
    /\ loader = Resting
    /\ cached = Unread
    /\ fetch = Resting
    /\ missed = FALSE
    /\ changes = 0 /\ breaks = 0

---------------------------------------------------------------------------
(* The server.                                                             *)

(* A command commits; its rows are announced in their order.                *)
Change(command) ==
    \E effect \in EffectsOf[command] :
        LET changed == effect.writes \cap Watched IN
        /\ changed # {} /\ changes < MostChanges /\ changes' = changes + 1
        /\ truth' = [t \in Watched |-> IF t \in changed THEN truth[t] + 1 ELSE truth[t]]
        /\ listener' = IF listener.up THEN [listener EXCEPT !.inbox = @ \o effect.tells]
                       ELSE listener
        /\ missed' = (missed \/ (IsUntold(command, screen.key) /\ changed \cap screen.reads # {}))
        /\ UNCHANGED <<screen, stream, page, loader, cached, fetch, breaks>>

Sent(messages) ==
    IF stream.state = "open" THEN [stream EXCEPT !.out = @ \o messages] ELSE stream

browserVars == <<screen, page, loader, cached, fetch, missed>>

(* handleNotification: the row is loaded, and the hub told. *)
Observe ==
    /\ listener.up /\ listener.inbox # <<>>
    /\ listener' = [listener EXCEPT !.inbox = Tail(@)]
    /\ stream' = IF stream.state # "open" THEN stream
                 ELSE LET topics == TopicsFor(Head(listener.inbox), Holds(stream.rights)) IN
                      IF topics = {} THEN stream
                      ELSE Sent(<<[event |-> "invalidate", topics |-> topics]>>)
    /\ UNCHANGED <<browserVars, truth, changes, breaks>>

(* The connection ends, or loading a row fails.                             *)
Disconnected ==
    /\ listener.up /\ breaks < MostBreaks
    /\ breaks' = breaks + 1
    /\ listener' = [up |-> FALSE, inbox |-> <<>>]
    /\ stream' = Sent(<<[event |-> "realtime-unavailable"]>>)
    /\ UNCHANGED <<browserVars, truth, changes>>

FaultyReconnect ==                                   \* healthy again, and nobody is told
    /\ ~ listener.up
    /\ listener' = [up |-> TRUE, inbox |-> <<>>]
    /\ UNCHANGED <<browserVars, truth, stream, changes, breaks>>
Reconnect ==
    /\ ~ listener.up
    /\ listener' = [up |-> TRUE, inbox |-> <<>>]
    /\ stream' = Sent(<<[event |-> "resync"]>>)
    /\ UNCHANGED <<browserVars, truth, changes, breaks>>

---------------------------------------------------------------------------
(* The event stream.                                                       *)

(* The route reads the user's context before it subscribes.  A browser that *)
(* lost the network tries again until it is answered.                       *)
OpenStream ==
    /\ page.status # "away" /\ stream = Off
    /\ stream' = [state |-> "opening", rights |-> Rights, out |-> <<>>]
    /\ UNCHANGED <<browserVars, truth, listener, changes, breaks>>

(* Any answer but 200, the session's or the school's, or a server's that is  *)
(* starting: the EventSource gives up, and the page makes another only when  *)
(* the cached context changes.                                             *)
RefuseStream ==
    /\ page.status # "away" /\ stream = Off /\ breaks < MostBreaks
    /\ breaks' = breaks + 1
    /\ stream' = GivenUp
    /\ page' = [page EXCEPT !.status = "reconnecting"]
    /\ UNCHANGED <<screen, truth, listener, loader, cached, fetch, missed, changes>>

Welcome ==
    IF listener.up THEN <<[event |-> "resync"]>>
    ELSE <<[event |-> "resync"], [event |-> "realtime-unavailable"]>>

Subscribe ==
    /\ stream.state = "opening"
    /\ stream' = [stream EXCEPT !.state = "open", !.out = Welcome]
    /\ page' = [page EXCEPT !.status = "live"]
    /\ UNCHANGED <<screen, truth, listener, loader, cached, fetch, missed, changes, breaks>>

StreamBreaks ==
    /\ stream.state \in {"opening", "open"} /\ breaks < MostBreaks
    /\ breaks' = breaks + 1
    /\ stream' = Off
    /\ page' = [page EXCEPT !.status = "reconnecting"]
    /\ UNCHANGED <<screen, truth, listener, loader, cached, fetch, missed, changes>>

---------------------------------------------------------------------------
(* The context.                                                            *)

(* Somebody opens the school, or goes on to a place of it that runs its      *)
(* loader again, and the API answers what it may be.  An entry that is marked *)
(* stale or older than half a minute is fetched; a younger one leaves        *)
(* everything as it is.                                                    *)
Navigate ==
    /\ loader = Resting
    /\ loader' = [state |-> "read", rights |-> Rights]
    /\ UNCHANGED <<screen, truth, listener, stream, page, cached, fetch, missed, changes, breaks>>

(* The page shows the query to whom the loader's context entitles to it. *)
Mounted == page.status # "away" /\ Entitled(page.context)

UnderWay == fetch.state \in {"asked", "read"}
DueOnMount == ~ UnderWay /\ (cached = Unread \/ cached.stale)

(* The context settles.  A page that comes to show the query asks for it; a  *)
(* cached context that differs from the last opens another stream.          *)
FaultyKeptStream(new) == IF page.status = "away" THEN Off ELSE stream
                                                     \* the stream stays with its rights
KeptStream(new) ==
    IF page.cached /\ Entitled(new) = Entitled(page.context) THEN stream ELSE Off

EnterSchool ==
    /\ loader.state = "read"
    /\ loader' = Resting
    /\ stream' = KeptStream(loader.rights)
    /\ page' = [status |-> IF page.status = "away" THEN "connecting" ELSE page.status,
                context |-> loader.rights, cached |-> TRUE]
    /\ fetch' = IF ~ Mounted /\ Entitled(loader.rights) /\ DueOnMount THEN Asked ELSE fetch
    /\ UNCHANGED <<screen, truth, listener, cached, missed, changes, breaks>>

(* Five minutes after it was read, the cache drops a query that nobody       *)
(* observes: the context is unknown, and another stream is opened.  The page *)
(* keeps what the loader gave it.                                          *)
Forget ==
    /\ page.cached /\ loader = Resting
    /\ page' = [page EXCEPT !.cached = FALSE]
    /\ stream' = Off
    /\ UNCHANGED <<screen, truth, listener, loader, cached, fetch, missed, changes, breaks>>

---------------------------------------------------------------------------
(* The screen's query.                                                     *)

FirstLoad == cached = Unread /\ UnderWay
Marked == IF cached = Unread THEN Unread ELSE [cached EXCEPT !.stale = TRUE]

(* An invalidated query is marked.  One that is shown is fetched again, and  *)
(* the request it had under way is cancelled, except during its very first   *)
(* load, which settles it.  One that is not shown is fetched when it next    *)
(* is.                                                                     *)
Invalidated ==
    /\ cached' = Marked
    /\ fetch' = IF Mounted /\ ~ FirstLoad THEN Asked ELSE fetch
    /\ missed' = (missed \/ FirstLoad)

HearEvent ==
    /\ stream.state = "open" /\ stream.out # <<>>
    /\ stream' = [stream EXCEPT !.out = Tail(@)]
    /\ LET message == Head(stream.out) IN
       CASE message.event = "resync" ->
               Invalidated /\ page' = [page EXCEPT !.status = "live"]
         [] message.event = "invalidate" ->
               /\ IF screen.key \in UNION {QueriesOf(t) : t \in message.topics}
                  THEN Invalidated ELSE UNCHANGED <<cached, fetch, missed>>
               /\ UNCHANGED page
         [] OTHER ->
               /\ page' = [page EXCEPT !.status = "unreachable"]
               /\ UNCHANGED <<cached, fetch, missed>>
    /\ UNCHANGED <<screen, truth, listener, loader, changes, breaks>>

Read ==
    /\ fetch.state = "asked" /\ Entitled(Rights)
    /\ fetch' = [state |-> "read", version |-> Version]
    /\ missed' = FALSE
    /\ UNCHANGED <<screen, truth, listener, stream, page, loader, cached, changes, breaks>>

(* The reader is refused, or the server fails him three times.  The page     *)
(* keeps what it had.                                                      *)
FailToRead ==
    /\ fetch.state = "asked"
    /\ \/ ~ Entitled(Rights) /\ UNCHANGED breaks
       \/ breaks < MostBreaks /\ breaks' = breaks + 1
    /\ fetch' = [state |-> "failed"]
    /\ UNCHANGED <<screen, truth, listener, stream, page, loader, cached, missed, changes>>

Settle ==
    /\ fetch.state = "read"
    /\ cached' = [read |-> TRUE, version |-> fetch.version, stale |-> FALSE]
    /\ fetch' = Resting
    /\ UNCHANGED <<screen, truth, listener, stream, page, loader, missed, changes, breaks>>

RealtimeNext ==
    \/ \E command \in Commands : Change(command)
    \/ Observe \/ Disconnected \/ Reconnect
    \/ OpenStream \/ RefuseStream \/ Subscribe \/ StreamBreaks \/ HearEvent
    \/ Navigate \/ EnterSchool \/ Forget
    \/ Read \/ FailToRead \/ Settle

(* Timers and answers come; nobody has to navigate, and no stream is opened  *)
(* in place of a refused one.  An event may cancel a request and a dropped    *)
(* context a stream, but not each time, as the latter takes five minutes.    *)
RealtimeFairness ==
    /\ WF_realtimeVars(Observe) /\ WF_realtimeVars(Reconnect) /\ WF_realtimeVars(OpenStream)
    /\ SF_realtimeVars(Subscribe) /\ SF_realtimeVars(HearEvent)
    /\ WF_realtimeVars(Read \/ FailToRead) /\ SF_realtimeVars(Settle)

RealtimeSpec == RealtimeInit /\ [][RealtimeNext]_realtimeVars /\ RealtimeFairness

---------------------------------------------------------------------------
(* Properties.                                                             *)

(* Nothing is on its way to the page any more. *)
Quiet ==
    /\ listener.up /\ listener.inbox = <<>>
    /\ stream.state = "open" /\ stream.out = <<>>
    /\ ~ UnderWay

(* The page shows rows that its last request brought, and not what was left  *)
(* when one failed.                                                        *)
Shows == Mounted /\ cached # Unread /\ fetch.state # "failed"
Current == cached.version = Version

(* The reader is entitled, and the stream was opened when he was.  The       *)
(* subscriber's rights are fixed then: a reader who gains his afterwards     *)
(* hears of nothing until another is opened, and his page does not know.    *)
Heeded == stream.state = "open" => Entitled(stream.rights) /\ Entitled(Rights)

(* A page that says live, with nothing on its way, shows what is committed:  *)
(* "A missed notification costs latency, not correctness, because            *)
(* connection/resync and ordinary refetch recover state."  This holds of     *)
(* every query that a page observes and every command that changes what it   *)
(* reads, whatever connections, streams, contexts and requests come and go   *)
(* meanwhile, but for the commands that nobody is told of, for a first load  *)
(* that an event overtakes, and for a stream opened without the right.  It   *)
(* says nothing of the context itself, which nobody observes.              *)
NeverSilentlyStale ==
    (Quiet /\ page.status = "live" /\ Heeded /\ Shows /\ ~ missed) => Current

(* A change appears on the page, whatever connection or stream was lost,     *)
(* unless a stream was refused: then the page says until the next navigation *)
(* that it is not live.                                                    *)
ChangesAppear ==
    (Shows /\ ~ Current) ~>
        \/ ~ Shows \/ Current \/ missed \/ ~ Heeded
        \/ (stream = GivenUp /\ page.status # "live")

===============================================================================
