# A verification project for OpenHall

OpenHall runs digital hall passes: a student asks to go somewhere, policies and
people decide, the destination has room or a queue, and the pass lives until the
student is back. These TLA+ modules model the parts of it that are concurrent,
timed or spread over several hands: the API's commands, the polling reconciler,
the administrators' configuration, sign-in, and what the pages in the browsers do
with all that. TLC checks them on small instances, and TLAPS proves what it can
for every instance.

Run inside this directory (the module of every run is in `PROJECT.json`):

    tlc -workers 2 -config capacity.cfg MCDestinationScenarios
    tlc -workers 2 -config envelope.cfg MCCommandEnvelope
    tlapm DeliveryProofs.tla

## Inventory

Paths are below `src/`; `app` is `packages/application/src`, `db` is
`packages/db/src`, `web` is `apps/web/src`.

| component | state | operations | what makes it hard | modules |
|---|---|---|---|---|
| destination flow (`app/destination-flow`, `db/repositories/destination-flow-repository.ts`) | `destination_reservation`, `queue_entry` | allocate; reconcile: stale offers, timed-out entries, unavailable destinations, promotion, orphaned rows | several replicas, instants read before locks, work found in one transaction and done in another | `DestinationFlow` |
| pass lifecycle (`packages/domain/src/passes`) | `pass.lifecycle_state`, `pass.revision`, event ledger | create, transition | a dozen writers | `PassLifecycle`, implemented by `DestinationFlow` |
| pass commands (`app/passes`) | pass, `pass_approval`, `policy_override`, `policy_evaluation` | request, approve, request and resolve overrides, depart, check in, return, complete, cancel | optimistic revisions, reevaluation at each step | `DestinationFlow`, `PassPolicy` |
| policy engine (`app/policy`) | rules and their revisions, evaluations, evidence | evaluate, combine, settle approvals | rules edited while a pass is on its way, evidence bound to revisions | `PassPolicy` |
| destination administration (`app/control-plane/destinations.ts`) | `destination` rows | create, update, open, close, archive | races with everything above | `DestinationFlow`, `SchoolSetup` |
| command envelope (`app/idempotency`) | stored results, advisory locks | run, replay, expire | retries racing the first attempt | `CommandEnvelope` |
| scheduled authorizations (`app/control-plane/scheduled.ts`) | authorization rows | issue, edit, cancel, start, expire | coupled with the pass it starts; a second connection inside a transaction | `ScheduledAuthorization` |
| outbox and realtime (`db/outbox-listener.ts`, `apps/api/src/realtime`, `web/app/realtime`) | outbox rows, listener health, subscriptions, browser caches | commit and notify, reconnect, subscribe, resynchronise | lost notifications, rights fixed at subscription, topics and queries written in different packages | `Realtime`, `PageQueries` |
| sign-in and enrollment (`app/authentication`) | login attempts, identities, invitations, sessions | begin, claim, complete, fail, redeem, revoke, log out | writes on two connections of which one may roll back | `SignIn` |
| installation (`app/authentication/bootstrap.ts` and neighbours) | operator codes, setup drafts, ceremonies, temporary sessions | bootstrap with or without provider, connect, recover | two bootstraps; sessions that must end | `Installation` |
| authorization service (`app/authorization`) | none (reads) | decide; hint | combination of memberships, sections and grants, by two pieces of code | `Authorization` |
| schedules and placement (`app/scheduling`, `app/control-plane/schedules.ts`) | configuration, templates, calendar | edit, resolve | four queries outside of any transaction; date and slot boundaries | `SchoolSchedule` |
| other configuration (`app/control-plane`) | locations, categories, destinations, duties, rules | create, move, archive | each command locks its own row and reads the others unlocked | `SchoolSetup` |
| web pages that edit (`web/features`) | drafts, cached resources, commands under way | type, save, check again, refetch | draft and revision from two readings of the cache; lost answers | `EditPages`, `WebCommands` |
| web session and loaders (`web/api`, `web/app`, `web/features/setup`) | cookie, CSRF token, cached answers of each tab | navigate, redirect, sign in and out, install | one cookie for all tabs, one token for each | `BrowserSession` |
| routes (`apps/api/src/routes`) | none | admit | what a route demands and what a page sends are written apart | `ApiRoutes` |
| database (`db/transactions.ts`, `db/database.ts`, migrations) | constraints, locks, a pool of connections | run a transaction | nested use of the pool | constraints and locks in the modules that rely on them |
| reads, contracts, configuration, test support | none | | | reads in `PageQueries`; the rest not modelled |

Components talk to each other by function calls inside one tenant transaction
(`READ COMMITTED`); what orders two commands is the pass row lock, the
destination's advisory lock and the revision a client sends in `If-Match`. The
reconciler shares nothing with the commands but the database; browsers hear of
commits through the outbox. `PROJECT.json` lists every component with what is
modelled of it, and every hazard with the properties that would notice it.

## Modules

**`DestinationFlow`** is the core, and implements the abstract **`PassLifecycle`**
(`LifecycleRespected`, with `INSTANCE ... WITH` mapping each pass to its state and
revision): a pass is created at revision 1, and each step follows the matrix of
`lifecycle.ts`, or two of its rows for a decision with its consequence.

| code | model |
|---|---|
| `pass` row: state, revision, the check-in mode copied at departure | `pass` |
| `destination_reservation` with `released_at IS NULL` | `reservations` |
| `queue_entry` with `released_at IS NULL` | `queue`; `ord` is the UUIDv7 that breaks ties |
| `destination` row; latest `policy_evaluation`; pending approval and override rows | `destination`, `evaluation`, `workflow` |
| a command whose clock is read and whose transaction has not committed | `inflight` |
| a reconciler's batch: stage, instant, candidate found | `worker` |

Commands read the clock before their transaction begins. Where that instant
decides something, the command is two steps, `Issue` and its `Commit...`; the commit
is one step because it holds the pass row and the destination's advisory lock. The
allocator reads the destination row before it takes that lock, so the row is part
of the command in flight, and `RereadDestination` lets it be any value the
destination had meanwhile. The reconciler reads the clock once per batch
(`StartBatch`), finds a candidate and handles it in separate transactions; anything
may happen in between, and a replica may die there (`Crash`). A handler that violates
a constraint ends the batch (`AbortBatch`). An evaluation returns any decision its
inputs allow; that the decision is the right one is `PassPolicy`'s subject.

**`PassPolicy`** follows one pass under rules that are edited meanwhile: `rules` with
revision and version, `approvals` and `overrides` with the revision of the rule they
answer, the last `evaluation` with its results, and commands that have read the
clock and the placement (`pending`). What `engine.ts` and `evaluate.ts` compute is
written out: scope, validity, boundary windows, which evidence still counts.

**`CommandEnvelope`** is `runIdempotentCommand`: a request reads the clock and is checked
outside (`Receive`, `Check`), takes the advisory lock, looks for a stored result,
executes, stores and commits, and is answered or lost. The command inside is
abstracted to what a retry can tell: it compares a revision and raises it.

**`Realtime`** is the way of a committed change to a page that somebody looks at: the
listening connection (`listener`), the stream with the rights its subscriber had when
it opened (`stream`), the query the page shows and its request (`cached`, `fetch`), the
page's status. The organization context is not one of the shown queries: no component
observes it (`RealtimeProvider.tsx:77`), so an invalidation only marks it. `Navigate` and
`EnterSchool` are the loader that reads it and the page that keeps what it was given;
the provider opens another stream when what is cached of it changes (`KeptStream`), or
when the cache drops it after five minutes (`Forget`). A stream that is answered with
anything but 200 is given up (`RefuseStream`), and a request may fail (`FailToRead`).
**`PageQueries`** holds the two tables it goes by: what every observed query
reads and whom it is for, and what every command writes and appends to the outbox,
with the topics the hub makes of that. The commands after which a query stays as it
was are listed there (`Untold`), and an assumption of the run confirms that each gap
is real; `missed` remembers that the screen owes nothing to the stream. Both properties
speak of readers whose stream was opened with the right to what they see (`Heeded`): the
code offers the others nothing, see below.

**`SignIn`** has login attempts, the callbacks that claim them and work in a transaction,
the unique index on identities, invitations, sessions, and requests whose session is
read before it is judged. **`Installation`** has operator codes, the two ways to install,
the provider's ceremony, recovery and the sessions each leaves. In both, consuming
happens on a connection of its own and so survives a rollback, and servers die.

**`ApiRoutes`** tables what each route demands, **`WebCommands`** what each page sends, and
**`BrowserSession`** plays tabs that navigate, sign in and out, install and recover on one
cookie jar. **`EditPages`** follows two tabs on one row of configuration: draft, cached
resource with its ETag, the command under way, "Check again".

**`Authorization`** decides every capability from memberships, sections and grants and
their dates, and states the snapshot of hints that the pages are built from.
**`ScheduledAuthorization`** has bookings, calls that wait for a connection of the pool,
the row lock of a start, its placement on a second connection, and the pass.
**`SchoolSchedule`** has the aggregate of blocks, templates and calendar days under
revisions, the page that reads its three parts apart (`ReadPart`) and sends the revision
that came with the blocks, and a resolver that reads it in pieces. **`SchoolSetup`** has the rows that
refer to others, their row locks and foreign-key locks, and the checks that other
commits overtake (`late` and `crossed` remember those).

Definitions named `Faulty...` are programming errors, each next to the definition it
would be a mutation of; no specification uses them, and each shows that some property
is able to fail. `MC...` modules give the constants values. Several components that share
no state are explored in one run: a variable (`focus`, `scenario`) is chosen in the
initial state and only that part takes steps.

## Runs

| run | foci | question |
|---|---|---|
| `capacity` | departures, replicas | with departures that carry old instants, and with two replicas, crashes and slots that end early: do states and rows agree, are offers coherent, is the capacity kept but for late departures, is nobody passed over and no deadline moved |
| `commands` | worked, administered | every command and decision, then an edited destination: nothing pending on refused passes, no movement at an archived destination, and `PassLifecycle` implemented |
| `waits_end` | contended, resolved | does every wait end and is every stranded row released (liveness) |
| `envelope` | envelope, one page, every page | does a key take effect once per lifetime, is every answer true, is every request answered (liveness); is a page that says live current but for the context, and does every change appear unless the stream was refused (liveness) |
| `identity` | sign-in, installation, browser | who gets a session, once, and until when; do commands run under the session their tab knows, complete, and do redirects end |
| `staff_work` | rights, scheduled | has every right a reason and every hint its right; does a booking move once and every call end on a pool of two connections (liveness) |
| `school_day` | one rule, two rules, unanswered | is exactly what the last evaluation requires pending, and is a pass cleared only by people who may |
| `control` | placement, schedule, tree, references, pages | are current days usable and resolutions untorn, and is no edit of the schedule overwritten unseen that is younger than the reading of the blocks; do references dangle or hierarchies close only by overtaken checks; do pages keep commands and drafts honestly |
| `late_departure` | | counterexample to ADR 0016, "no override bypasses physical capacity" |
| `promotion_clash` | | counterexample to the seed test's "must not collide with a pre-existing row" |
| `blind_overwrite` | | counterexample to ADR 0018, "a 412 is never replayed blindly: ... the user reviews the changed state" |
| `setup_connects` | | counterexample to the README's founding of a school in one go |

The four counterexamples are disagreements between the code and its own words, quoted
in `PROJECT.json` under "findings". The passing runs check the nearest thing that
does hold: `CapacityExceptLateClaims` says that late claims are the *only* way above
the capacity, `EveryWaitEnds` that the clash never keeps a pass for ever,
`AcceptedFormsShowAll` that the location's form, unlike the destination's, never
overwrites at the first try what it did not show.

*Bounds.* Each is a constant of its configuration. `MaxTime` 2 or 3 ticks (4 in the
counterexamples) with a claim timeout of one tick leaves time for an offer, a missed
offer and a requeue before the attempt's deadline. `MaxRevision` stops commands, not
the reconciler, at a revision beyond which a pass repeats earlier states. One command
in flight suffices for the races of the flow, since locks make every conflict one of a
stale reader and a writer, and the reconciler is always the other party; lags of one
tick already let an offer run out under a command and a batch act on an old instant.
`worked` restricts the commands of the last revisions and lets nothing in flight grow
old, as it is about decisions. In the envelope three requests are a first attempt, its
retry and a third; they arrive in order since they are interchangeable, and the lock
table has one lock, so that keys that collide and keys that are equal are the same
case. "One page" meets up to three events, a change of its rows, one or two of the rights to
see them, and a lost connection, a refused stream or a failed read in the place of the second,
with any navigation that can bring another context between them; "every page" is every query of every page, at rest, under one command of every kind
with each effect it may have. In `control` one administrator makes two edits of the schedule while a
placement is resolved, and two make two edits while none is: what an edit overwrites
takes one edit and two readings before it. Two clerks and three locations close the shortest cycle the
check does not see and any detour to it; two tabs are a page beside whoever else edits
the row. `staff_work` has a pool of two connections, each of which a start needs:
the smallest pool on which starts can starve each other. `CHECK_DEADLOCK FALSE` stands
where requests, calls or visits are finite in number, so that the system really stops.
The theorems need none of these bounds.

*Fairness.* `DestinationFlow`: time passes (`Tick`); a command in flight commits or
is abandoned, because its transaction ends or its connection does; `Reconcile(w)`,
because `setInterval` polls again after every batch, also after one that threw
(`reconciler-runner.ts`). Crashes are off in the liveness run: a replica that dies
finitely often ends in such a suffix, and one that dies for ever reconciles nothing.
Nothing is assumed of students, staff or administrators. `CommandEnvelope`: a
transaction that can go on does; weak fairness is enough though locks are contended,
since each request arrives once and so competes finitely often with any other.
`ScheduledAuthorization`: `Handled(c)` is strongly fair, because the pool serves
waiting calls in order and the row lock queues; a call whose connection does not come
in time is failed by the pool's timeout. `Realtime`: the listener reconnects because it
retries for ever (`outbox-listener.ts:111`), notifications are handled in order, requests
are answered or fail, and a stream whose network was lost is opened again because an
`EventSource` retries, as long as it is not answered with an error. What an event may
cancel (a request) or a dropped context may close (a stream) is strongly fair, since
the one is finite in number and the other takes five minutes each time. Nobody has to
navigate, so a refused stream may stay refused; `ChangesAppear` then asks that the page
says so.

## Proofs

Eight modules hold the 38 theorems listed in `PROJECT.json`, with their lemmas. All safety properties of the passing runs are
among them, for any value of the constants that meets the modules' ASSUMEs; those ask
for no more than positive lifetimes, well-typed tables and, where something is counted,
finite sets.

- `DestinationFlowProofs`: types and the instants of rows. `OffersCoherent` alone is not
  inductive: a claim carries the instant of a command issued earlier, and lies inside
  the offer only because a command that still knows the pass's current revision cannot be
  older than the offer; that rests on `NothingFromTheFuture` (rows and commands are
  never of a later revision, instant or identity than the state they meet) and on
  `OneEntryEach`. `IInv` is their conjunction.
- `DestinationFlowSafety`: `RowsInv` ties each pass's rows to its state, with what is
  pending and what is archived; from it follow `RowsMatchState`, the quiet passes, the
  empty archived destinations, inherited deadlines and the refinement
  `ImplementsLifecycle`, one step of the code at a time. `CapacityInv` adds that a
  command in flight holds a row of its destination that was once stored, which
  bounds the offers that consume a slot by the largest capacity stored; counting them is
  where finite sets come in. `HeadsPassNobody` adds what a batch knows of the head it
  has picked, for `TurnsAreFair`.
- `DeliveryProofs`: the envelope's `IInv` says of the rows that there is one per key, the
  result of an execution, and that its expiry vouches for *every* execution under the
  key; of the locks that two transactions inside them never share one; and of a
  transaction past its lookup that what it found is still so, which is where the
  advisory lock does its work. For `PagesAreNeverSilentlyStale` the tables come first:
  lemmas show, table by table, that every screen is told of every change of what it reads,
  but for the listed gaps, or that its reader is not one who may hear of it. The invariant
  `DeliveryInv` then says that whoever
  owes something to the stream is fresh, or its request or a message that causes one is
  on its way, or its last request failed, or its stream was refused, will be opened, or
  is one that does not hear of it (`PageFollows`).
- `SchoolControlProofs`: `ScheduleOK`, `EditorsOK` and `ResolutionsOK` for schedules (a
  resolution that meets at most one edit concludes from the day it read before what it
  would conclude after; a screen that has the last revision is outdated only where it was
  when the blocks were read); `SetupOK`, whose `Harmless` says of a decided command
  that was not overtaken that its write, now, makes nothing dangle; `TreeOK` for the
  locations; `PagesOK` for the pages. `LocationsFormATree` has to reason about a walk of
  any length: `UpFacts` shows that the walk upwards, cut off after as many rounds as
  there are locations, ends in the smallest set that holds its parents, by induction over
  the rounds (`NatSteps`, from the well-foundedness of the naturals), and
  `MoveKeepsTree` that a move under something one is not above closes no cycle.
- `IdentityProofs`: `SignInOK` says what a callback holds while it runs (its attempt from
  the claim on, the invitation and its account from the lock on, the entry of the
  index from the insert on) and that the session revision it read is at most the
  account's; `InstallationOK` what a task's judgement of a code, a draft or a school still
  means when it commits.
- `StaffWorkProofs`: rights and hints are shown in *every* state, not only the reachable ones;
  bookings by an invariant on the row, its lock and the unique index on live passes.
- `PassPolicyProofs`: `PolicyOK` says how every approval and override came about, and
  contains `PendingIsRequired`, which is inductive with it.
- `WebProofs`: the tables of routes and pages are read off by lemmas; `BrowserOK` says of
  each tab what it may know of its session (`StandingOK`), how often it can still be
  redirected (`HopsOK`) and what its request carries (`AskingOK`).

Each invariant was checked by TLC before it was proved, and each theorem that states a
property of a run names it in `PROJECT.json`. `NothingFromTheFuture` and
`AStartDecidesAlone` are proved without being properties of a run.

*Only model-checked:* the liveness properties `EveryWaitEnds`, `StrandedRowsReleased`,
`EveryRequestEnds`, `ChangesAppear` and `EveryCallEnds`, since fairness and ENABLED are
out of the prover's reach. The properties of the four counterexamples are false.

## What else disagrees

Found while modelling, and not kept as runs of their own:

- a batch requeues a missed offer at the instant the batch began, so it may end up before
  a student who joined since ("move this student to the back of the queue");
- completing a pass leaves a pending override on it ("terminal passes must not leave
  actionable workflow rows");
- a retry whose target was archived meanwhile is refused although its success is stored
  (ADR 0015: "same key plus same fingerprint returns the stored success"), as the check runs
  before the envelope;
- two moves of locations that lock different rows close a cycle (`locations.ts`, around 167),
  and the check of a later move above it never ends; `TreeOK` shows this is the only way;
- a request inserts its pass and then waits for the destination's advisory lock, archiving
  takes them in the other order (`request-pass.ts:316`, `destinations.ts:737`): PostgreSQL
  aborts one of the two;
- an expired invitation blocks the next one for its account until it is revoked
  (`migrations/008`, 260), and a session is idle from its last *touch*, which a request inside
  of the touch window does not renew (ADR 0012:48);
- an answer to a request that was sent with an old cookie clears the cookie, also the one that
  a sign-in has set meanwhile (`session-context.ts:60`);
- when rules change after the last evaluation, no override can be asked for at that revision,
  and a pass that waits for no approval has no other way to a new one, although a comment
  expects "the approval path" to advance it; and the evaluation that asking for an override
  stores is not acted upon (`overrides.ts:291`);
- a promotion evaluates without the preapproval of a scheduled pass
  (`reconciler.ts:519`; ADR 0017:60), so a preapproved pass that waited asks again;
- schedule commands write outbox rows that lead to no topic (`schedules.ts:301`,
  `hub.ts:107`; `docs/architecture.md:34`), the largest of the gaps in `Untold`, so no stream repairs that page;
- a live page on which nobody navigates keeps the organization context it was loaded with, and
  its stream the rights of that time (`RealtimeProvider.tsx:77-83`, "reconnects so the hub
  authorizes with the current context"; ADR 0018, "a missed notification costs latency, not
  correctness"): the topic `organization-context` only marks a query without observer, and
  rights that are lost and regained between two readings do not change `contextRevision`;
- an `EventSource` that was answered with an error is not made anew until the cached context
  changes (`realtime.ts:59-78`, `RealtimeProvider.tsx:161`);
- a refetch that fails leaves the old rows, without a word on most pages (`StationPage` is the
  exception);
- `SchedulesPage` reads blocks, templates and calendar apart, sends the revision of the blocks
  with all its commands, and reads only the blocks again after creating one
  (`SchedulesPage.tsx:81-121`): a calendar read earlier is saved over days that others have
  set since, without a 412 (ADR 0018:19, "the user reviews the changed state");
- creating twice after a lost answer: two creation pages make a new key for "Check again"
  (`LocationsPage.tsx:305`, `DestinationsPage.tsx:296`; ADR 0018:19);
- the bootstrap answer that a tab has cached never goes stale, so a tab opened before the
  installation goes on as if there were none;
- `ClassPage` and `LiveMovementPage` keep different answers under one cache key;
- `pass.override.resolve.school` is never among the capabilities of the organization's
  snapshot, so pages that ask for it are hidden from those who hold it
  (`authorization/service.ts:343`, `workspace-nav.ts:58`);
- the page of scheduled passes reads lists that need `destination.manage`, which two of the
  roles that may use the page lack (`roles.ts:11`); and the list of pending overrides shows
  its requester some that only others may resolve (`overrides.ts`, around 805).

## Not modelled

The rotation of `runBatch` over several tenants and `QUEUE_SCAN_LIMIT`: the instances have
one tenant and one destination, and both are listed under hazards. Rows' representations,
paging and search; body schemas, error rendering and rate limits; layout and the dialogs'
inner steps; what the cache of a browser does with queries of pages that were left (the context
excepted), and refetching on focus and by timer, which `Realtime` leaves out so as to ask what the
stream alone achieves; cryptography, which is abstracted to the claim it supports; migrations, which
run once; contracts, environment parsing and test support, which have no behaviour over
time.

## Plan

Done: the inventory; every module above with its runs; all safety properties of the passing
runs proved. Left, in this order: an abstract specification of the envelope (a map from keys
to results) and of the realtime delivery (a page that follows a register) with their
refinements proved step by step; the rotation of tenants; several destinations in one
instance of `capacity`.
