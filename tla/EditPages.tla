------------------------------ MODULE EditPages ------------------------------
(***************************************************************************)
(* The pages of the browser on which staff edit one row of the school's     *)
(* configuration, or create rows, and the way they send a command: the      *)
(* draft in the form, the resource in the query cache with the revision      *)
(* (ETag) it was read at, the command under way and what became of it.       *)
(*                                                                         *)
(* Requests and answers may be lost; the page then offers "Check again".     *)
(* The pages differ in when the form takes over newly read data, in where    *)
(* If-Match comes from, and in what a repetition keeps of the first attempt. *)
(*                                                                         *)
(* The row's content is the set of the edits in it, a form's the set of the  *)
(* edits it shows.  A PUT replaces the whole content.                        *)
(***************************************************************************)
EXTENDS WebCommands, FiniteSets

CONSTANTS
    Pages,               \* browser tabs
    Openings,            \* which kind of page each tab shows
    Edits,
    MostSubmissions,     \* bound: times a tab sends a form, repetitions excluded
    MostLosses           \* bound: requests and answers that are lost

(* A page is named after the command of its form. *)
Forms == {"updateDestination", "updatePolicyRule", "updateLocation", "updateDestinationCategory",
          "requestMyPass", "createLocation"}
CommandOf == [op \in Forms |-> CHOOSE c \in SchoolCommands : c.op = op]
Creating(pg) == CommandOf[pg.kind].revision = "none"         \* POST of a new row
Repeats(pg) == CommandOf[pg.kind].again
FormStages == {"closed", "editing", "fetching", "sent", "answered", "uncertain", "conflict", "failed"}

ASSUME OpeningsAssumption == Openings \subseteq [Pages -> Forms]
ASSUME BoundsAssumption == MostSubmissions \in Nat /\ MostLosses \in Nat

VARIABLES
    row,        \* the edited row: revision and content
    stored,     \* the idempotency records of the commands that took effect
    typed,      \* the edits that were made in some form
    losses,     \* requests and answers lost so far
    page

pagesVars == <<row, stored, typed, losses, page>>

Contents == [rev : Int, has : SUBSET Edits]
NoData == [rev |-> 0, has |-> {}]             \* never read
Still == [rev |-> -1, has |-> {}]             \* no refetch under way
Asked == [rev |-> -2, has |-> {}]             \* refetch sent, not yet served
NothingSent == [key |-> <<0, 0>>, body |-> {}, ifMatch |-> 0]
Submission(p) == <<p, page[p].sent>>          \* one user intent

PagesInit ==
    /\ row = [rev |-> 1, has |-> {}]
    /\ stored = {}
    /\ typed = {}
    /\ losses = 0
    /\ \E kind \in Openings :
           page = [p \in Pages |->
                      [kind |-> kind[p], stage |-> "closed", cache |-> NoData, reading |-> Still,
                       seeded |-> FALSE, draft |-> {}, dirty |-> FALSE, sent |-> 0,
                       command |-> NothingSent, answer |-> "none"]]

Shown(pg) == pg.stage # "closed"
Pending(pg) == pg.stage \in {"fetching", "sent", "answered"}

(* The effect that runs after every render: a form without a draft takes    *)
(* over whatever the cache holds.                                           *)
Rendered(pg) ==
    IF Shown(pg) /\ ~ pg.seeded /\ pg.cache.rev > 0
    THEN [pg EXCEPT !.seeded = TRUE, !.draft = pg.cache.has, !.dirty = FALSE]
    ELSE pg
Becomes(p, pg) == page' = [page EXCEPT ![p] = Rendered(pg)]
Closed(pg) == [pg EXCEPT !.stage = "closed", !.seeded = FALSE, !.draft = {}, !.dirty = FALSE,
                         !.command = NothingSent, !.answer = "none"]
Refetching(pg) == [pg EXCEPT !.reading = Asked]

(* The cache outlives the page.  A query that is still fresh is not read     *)
(* again when its page opens; any other is.                                 *)
OpenPage(p) ==
    LET opened == [page[p] EXCEPT !.stage = "editing", !.seeded = Creating(page[p])] IN
    /\ ~ Shown(page[p])
    /\ \/ /\ Creating(page[p]) \/ page[p].cache.rev > 0
          /\ Becomes(p, opened)
       \/ /\ ~ Creating(page[p]) /\ page[p].reading = Still
          /\ Becomes(p, Refetching(opened))
    /\ UNCHANGED <<row, stored, typed, losses>>

ClosePage(p) ==
    /\ Shown(page[p]) /\ ~ Pending(page[p])
    /\ page' = [page EXCEPT ![p] = Closed(page[p])]
    /\ UNCHANGED <<row, stored, typed, losses>>

(* The window gets the focus, or the network is back. *)
Refetch(p) ==
    /\ Shown(page[p]) /\ ~ Creating(page[p]) /\ page[p].reading = Still
    /\ Becomes(p, Refetching(page[p]))
    /\ UNCHANGED <<row, stored, typed, losses>>

Serve(p) ==
    /\ page[p].reading = Asked
    /\ Becomes(p, [page[p] EXCEPT !.reading = row])
    /\ UNCHANGED <<row, stored, typed, losses>>

(* The location's form follows the data; the others keep the draft they have. *)
FaultyFollowsData(pg) == FALSE                     \* only an empty form is filled
FollowsData(pg) == pg.kind = "updateLocation" /\ pg.cache # pg.reading
Settle(p) ==
    LET pg == page[p] IN
    /\ pg.reading.rev > 0
    /\ Becomes(p, [pg EXCEPT !.cache = pg.reading, !.reading = Still,
                             !.seeded = pg.seeded /\ ~ FollowsData(pg)])
    /\ UNCHANGED <<row, stored, typed, losses>>

Type(p, e) ==
    /\ page[p].seeded /\ e \notin typed
    /\ typed' = typed \cup {e}
    /\ page' = [page EXCEPT ![p].draft = @ \cup {e}, ![p].dirty = TRUE]
    /\ UNCHANGED <<row, stored, losses>>

(* "Cancel" on the destination's and the policy's page. *)
Cancel(p) ==
    /\ page[p].kind \in {"updateDestination", "updatePolicyRule"} /\ page[p].seeded /\ page[p].dirty
    /\ Becomes(p, [page[p] EXCEPT !.seeded = FALSE])
    /\ UNCHANGED <<row, stored, typed, losses>>

------------------------------------------------------------------------------
(* A submission makes a new key and takes the revision of the cached data;   *)
(* the category's dialog reads the row first, only for its revision.         *)

Sending(pg) == IF CommandOf[pg.kind].revision = "fetched" THEN "fetching" ELSE "sent"
Submit(p) ==
    LET pg == page[p] IN
    /\ pg.seeded /\ ~ Pending(pg) /\ pg.sent < MostSubmissions
    /\ pg.dirty \/ pg.stage # "editing"
    /\ page' = [page EXCEPT ![p] =
           [pg EXCEPT !.stage = Sending(pg), !.sent = pg.sent + 1, !.dirty = FALSE,
                      !.command = [key |-> <<pg.sent + 1, 1>>, body |-> pg.draft,
                                   ifMatch |-> pg.cache.rev]]]
    /\ UNCHANGED <<row, stored, typed, losses>>

FetchRevision(p) ==
    /\ page[p].stage = "fetching"
    /\ page' = [page EXCEPT ![p].command.ifMatch = row.rev, ![p].stage = "sent"]
    /\ UNCHANGED <<row, stored, typed, losses>>

(* "Check again" after a lost request or answer. *)
FaultyRepeated(pg) == [pg.command EXCEPT !.key[2] = @ + 1]   \* the key made on sending
Repeated(pg) == IF Repeats(pg) \in {"same", "reread"} THEN pg.command
                ELSE [pg.command EXCEPT !.key[2] = @ + 1, !.ifMatch = pg.cache.rev]
CheckAgain(p) ==
    LET pg == page[p] IN
    /\ pg.stage = "uncertain" /\ Repeats(pg) # "none"
    /\ page' = [page EXCEPT ![p] = [pg EXCEPT !.stage = Sending(pg), !.command = Repeated(pg)]]
    /\ UNCHANGED <<row, stored, typed, losses>>

(* The server: a stored result answers the same command, a key with another  *)
(* command is refused, and so is a revision that is not the row's.           *)
Found(p) == {x \in stored : x.by = p /\ x.command.key = page[p].command.key}
Reply(p, answer) == page' = [page EXCEPT ![p].stage = "answered", ![p].answer = answer]

Replay(p) ==
    /\ page[p].stage = "sent" /\ Found(p) # {}
    /\ Reply(p, IF \E x \in Found(p) : x.command = page[p].command THEN "success" ELSE "reused")
    /\ UNCHANGED <<row, stored, typed, losses>>
RevisionMatches(p) == Creating(page[p]) \/ page[p].command.ifMatch = row.rev
Refuse(p) ==
    /\ page[p].stage = "sent" /\ Found(p) = {} /\ ~ RevisionMatches(p)
    /\ Reply(p, "stale")
    /\ UNCHANGED <<row, stored, typed, losses>>
Execute(p) ==
    /\ page[p].stage = "sent" /\ Found(p) = {} /\ RevisionMatches(p)
    /\ row' = IF Creating(page[p]) THEN row
              ELSE [rev |-> row.rev + 1, has |-> page[p].command.body]
    /\ stored' = stored \cup {[by |-> p, submission |-> page[p].sent, command |-> page[p].command]}
    /\ Reply(p, "success")
    /\ UNCHANGED <<typed, losses>>

Lose(p) ==
    /\ page[p].stage \in {"sent", "answered"} /\ losses < MostLosses
    /\ losses' = losses + 1
    /\ page' = [page EXCEPT ![p].stage = "uncertain", ![p].answer = "none"]
    /\ UNCHANGED <<row, stored, typed>>

(* Success empties the draft and invalidates the query: the form is filled   *)
(* from the cache as it is, and the refetch comes later.                     *)
Succeeded(pg) ==
    CASE pg.kind \in {"updateDestination", "updatePolicyRule"} ->
             Refetching([pg EXCEPT !.stage = "editing", !.seeded = FALSE, !.answer = "none",
                                   !.command = NothingSent])
      [] pg.kind = "updateDestinationCategory" -> Refetching(Closed(pg))
      [] OTHER -> Closed(pg)
Hear(p) ==
    LET pg == page[p] IN
    /\ pg.stage = "answered"
    /\ CASE pg.answer = "success" -> Becomes(p, Succeeded(pg))
         [] pg.answer = "stale" -> Becomes(p, [pg EXCEPT !.stage = "conflict", !.answer = "none"])
         [] pg.answer = "reused" -> Becomes(p, [pg EXCEPT !.stage = "failed", !.answer = "none"])
    /\ UNCHANGED <<row, stored, typed, losses>>

(* "Review latest version".  The policy's page keeps the draft. *)
Review(p) ==
    LET pg == page[p] IN
    /\ pg.stage = "conflict" /\ pg.kind \in {"updateDestination", "updatePolicyRule"} /\ pg.reading = Still
    /\ Becomes(p, Refetching([pg EXCEPT !.seeded = pg.kind = "updatePolicyRule"]))
    /\ UNCHANGED <<row, stored, typed, losses>>

PagesNext == \E p \in Pages :
    \/ OpenPage(p) \/ ClosePage(p) \/ Refetch(p) \/ Serve(p) \/ Settle(p)
    \/ \E e \in Edits : Type(p, e)
    \/ Cancel(p) \/ Submit(p) \/ FetchRevision(p) \/ CheckAgain(p)
    \/ Replay(p) \/ Refuse(p) \/ Execute(p) \/ Lose(p) \/ Hear(p) \/ Review(p)
PagesSpec == PagesInit /\ [][PagesNext]_pagesVars

------------------------------------------------------------------------------
(* A page that keeps its command can be believed: however often a submission *)
(* is repeated it takes effect at most once, and when the page says that it   *)
(* did not, because somebody else was faster, it did not.                    *)
EffectsOf(p, n) == {x \in stored : x.by = p /\ x.submission = n}
KeptCommandsAreSure == \A p \in {q \in Pages : Repeats(page[q]) = "same"} :
    /\ \A n \in 1..MostSubmissions : Cardinality(EffectsOf(p, n)) <= 1
    /\ page[p].stage \in {"conflict", "failed"} => EffectsOf(p, page[p].sent) = {}

(* The form of a location follows the data, so what the server accepts of a   *)
(* first attempt shows every edit that is in the row: it overwrites nothing   *)
(* that was not on the screen.                                              *)
AcceptedFormsShowAll == \A p \in {q \in Pages : page[q].kind = "updateLocation"} :
    LET c == page[p].command IN
    (page[p].stage = "sent" /\ c.key[2] = 1 /\ c.ifMatch = row.rev) => row.has \subseteq c.body

(* ADR 0018: "A 412 is never replayed blindly: the authoritative resource is  *)
(* fetched and the user reviews the changed state."  Nobody takes an edit     *)
(* back, so an edit that leaves the row was overwritten unseen.              *)
NoBlindOverwrite == [][row.has \subseteq row'.has]_row

(* ADR 0018: "Every consequential user intent creates one logical command     *)
(* containing its UUID idempotency key, original body, and original           *)
(* `If-Match`."  Then no intent takes effect twice.                          *)
IntentTakesEffectOnce == \A p \in Pages, n \in 1..MostSubmissions : Cardinality(EffectsOf(p, n)) <= 1

==============================================================================
