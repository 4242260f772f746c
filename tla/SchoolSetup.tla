------------------------------ MODULE SchoolSetup ------------------------------
(***************************************************************************)
(* The administrators' catalogue of one school: locations, destination      *)
(* categories, destinations, staff duties at a destination and policy rules,*)
(* each a row of its own that refers to others.                             *)
(*                                                                         *)
(* A command locks only its own row.  What it reads of the others it reads  *)
(* unlocked, under READ COMMITTED, so another command may commit between    *)
(* the check and the write.  What the write does lock is the rows a changed *)
(* reference points at (the foreign key, FOR KEY SHARE), which waits for a  *)
(* command that holds such a row FOR UPDATE.                                *)
(*                                                                         *)
(* If-Match is taken to match: the administrator has just read the row.     *)
(* Names, sections, other schools and who may manage what are left out, and *)
(* so are meetings, bookings and passes that keep a row in use: a refusal   *)
(* on their account is a command that does not come this far.               *)
(***************************************************************************)
EXTENDS Naturals, FiniteSets

CONSTANTS
    Locations, Categories, Places, Duties, Rules,
    Clerks,               \* administrators with one command each
    Students              \* each with one request for a pass

Things == Locations \cup Categories \cup Places \cup Duties \cup Rules

ASSUME SetupAssumption ==
    /\ IsFiniteSet(Locations)
    /\ Locations \cap (Categories \cup Places \cup Duties \cup Rules) = {}
    /\ Categories \cap (Places \cup Duties \cup Rules) = {}
    /\ Places \cap (Duties \cup Rules) = {} /\ Duties \cap Rules = {}

VARIABLES
    standing,     \* status of each row, "absent" before it is created
    refs,         \* the rows it refers to
    command,      \* what each clerk's transaction is doing
    request,      \* what each student's request transaction is doing
    late,         \* ghost: references made or orphaned on an overtaken check
    crossed       \* ghost: a location was moved on an overtaken check

setupVars == <<standing, refs, command, request, late, crossed>>

NoCommand == [stage |-> "none"]
NoRequest == [stage |-> "none"]

SetupInit ==
    /\ standing = [x \in Things |-> "absent"]
    /\ refs = [x \in Things |-> {}]
    /\ command = [c \in Clerks |-> NoCommand]
    /\ request = [u \in Students |-> NoRequest]
    /\ late = {}
    /\ crossed = FALSE

---------------------------------------------------------------------------
(* Locks.                                                                  *)

(* FOR UPDATE, held from the load to the commit; a create has no row yet.   *)
RowLocked(x) ==
    \E c \in Clerks : command[c].stage \in {"decided", "walks"}
                      /\ command[c].locks /\ command[c].on = x

(* The foreign key of a pass that is inserted and not committed.            *)
RowShared(x) == \E u \in Students : request[u].stage = "inserted" /\ request[u].at = x

(* The advisory lock of a destination's flow: an archive takes it first.    *)
FlowLocked(p) ==
    \E c \in Clerks : command[c].stage \in {"flow", "decided"} /\ command[c].flow
                      /\ command[c].on = p

(* The checks of a command are done; its write is to come.                  *)
Decide(c, x, to, as, locks, flow) ==
    /\ command' = [command EXCEPT ![c] =
          [stage |-> "decided", on |-> x, to |-> to, as |-> as, locks |-> locks,
           flow |-> flow, overtaken |-> FALSE]]
    /\ UNCHANGED <<standing, refs, request, late, crossed>>

Creates(c, x, to, as) ==
    /\ command[c] = NoCommand
    /\ standing[x] = "absent"
    /\ \A d \in Clerks : command[d].stage = "decided" => command[d].on # x
    /\ Decide(c, x, to, as, FALSE, FALSE)

Changes(c, x, to, as) ==
    /\ command[c] = NoCommand
    /\ ~ RowLocked(x) /\ ~ RowShared(x)
    /\ Decide(c, x, to, as, TRUE, FALSE)

---------------------------------------------------------------------------
(* Locations.                                                              *)

Parent(l) == refs[l] \cap Locations

(* The walk from a location upwards: what it meets. *)
Upwards(l) ==
    LET climb[n \in 0..Cardinality(Locations)] ==
          IF n = 0 THEN {l} ELSE climb[n - 1] \cup UNION {Parent(k) : k \in climb[n - 1]}
    IN climb[Cardinality(Locations)]

Cyclic(l) == \E k \in Parent(l) : l \in Upwards(k)

FaultyBeneath(l, parents) == l \in parents \/ \E k \in parents : Parent(k) = {l}
                                                     \* only one level is checked
Beneath(l, parents) == \E k \in parents : l \in Upwards(k)

(* The walk of assertUsableParent stops at the location itself or at a root. *)
NeverStops(l, parents) ==
    ~ Beneath(l, parents) /\ \E k \in parents : \E j \in Upwards(k) : Cyclic(j)

UsableParent(parents) == \A k \in parents : standing[k] = "active"

CreateLocation(c, l, parents) ==
    /\ UsableParent(parents)
    /\ Creates(c, l, parents, "active")

(* An archived location may be edited, and stays archived. *)
UpdateLocation(c, l, parents) ==
    /\ standing[l] # "absent"
    /\ l \notin parents /\ UsableParent(parents)
    /\ ~ Beneath(l, parents)
    /\ ~ NeverStops(l, parents)
    /\ Changes(c, l, parents, standing[l])

(* A cycle above the new parent: the walk goes round for ever.              *)
UpdateLocationWalks(c, l, parents) ==
    /\ standing[l] # "absent"
    /\ command[c] = NoCommand /\ ~ RowLocked(l)
    /\ l \notin parents /\ UsableParent(parents)
    /\ NeverStops(l, parents)
    /\ command' = [command EXCEPT ![c] = [stage |-> "walks", on |-> l, locks |-> TRUE]]
    /\ UNCHANGED <<standing, refs, request, late, crossed>>

(* Destinations that are not archived refer to x. *)
FaultyInUse(x) == \E p \in Places : standing[p] = "active" /\ x \in refs[p]
                                                     \* a closed one does not count
InUse(x) == \E p \in Places : standing[p] \in {"closed", "active"} /\ x \in refs[p]

ArchiveLocation(c, l) ==
    /\ standing[l] = "active"
    /\ ~ InUse(l)
    /\ Changes(c, l, refs[l], "archived")

---------------------------------------------------------------------------
(* Categories.                                                             *)

CreateCategory(c, k) == Creates(c, k, {}, "active")

UpdateCategory(c, k) == standing[k] = "active" /\ Changes(c, k, {}, "active")

ArchiveCategory(c, k) ==
    /\ standing[k] = "active"
    /\ ~ InUse(k)
    /\ Changes(c, k, {}, "archived")

---------------------------------------------------------------------------
(* Destinations.                                                           *)

UsableSite(l, k) == standing[l] = "active" /\ standing[k] = "active"

CreateDestination(c, p, l, k) ==
    /\ UsableSite(l, k)
    /\ Creates(c, p, {l, k}, "closed")

FaultyUpdateDestination(c, p, l, k) ==               \* the category is not looked at
    /\ standing[p] \in {"closed", "active"}
    /\ standing[l] = "active" /\ standing[k] # "absent"
    /\ Changes(c, p, {l, k}, standing[p])
UpdateDestination(c, p, l, k) ==
    /\ standing[p] \in {"closed", "active"}
    /\ UsableSite(l, k)
    /\ Changes(c, p, {l, k}, standing[p])

OpenDestination(c, p) == standing[p] = "closed" /\ Changes(c, p, refs[p], "active")
CloseDestination(c, p) == standing[p] = "active" /\ Changes(c, p, refs[p], "closed")

(* The lock of its flow first, then its row, then what still depends on it. *)
ArchiveDestination(c, p) ==
    /\ standing[p] \in {"closed", "active"}
    /\ command[c] = NoCommand
    /\ ~ FlowLocked(p)
    /\ command' = [command EXCEPT ![c] = [stage |-> "flow", on |-> p, flow |-> TRUE]]
    /\ UNCHANGED <<standing, refs, request, late, crossed>>

FaultyArchivable(p) == ~ \E u \in Students : request[u].stage = "live" /\ request[u].at = p
                                                     \* rules and duties forgotten
Archivable(p) ==
    /\ ~ \E u \in Students : request[u].stage = "live" /\ request[u].at = p
    /\ \A x \in Duties \cup Rules : p \in refs[x] => standing[x] \notin {"active", "enabled"}

ArchiveDestinationChecks(c) ==
    /\ command[c].stage = "flow"
    /\ LET p == command[c].on IN
       /\ ~ RowLocked(p) /\ ~ RowShared(p)
       /\ standing[p] \in {"closed", "active"} /\ Archivable(p)
       /\ Decide(c, p, refs[p], "archived", TRUE, TRUE)

---------------------------------------------------------------------------
(* Duties and rules.  A scope is a destination or, empty, the school.       *)

UsableScope(scope) == \A p \in scope : standing[p] \in {"closed", "active"}

(* A duty is the person at the destination; a revoked one is issued anew.   *)
IssueGrant(c, g, p) ==
    /\ UsableScope({p})
    /\ command[c] = NoCommand
    /\ Decide(c, g, {p}, "active", FALSE, FALSE)

RevokeGrant(c, g) == standing[g] = "active" /\ Changes(c, g, refs[g], "revoked")

CreateRule(c, r, scope) == UsableScope(scope) /\ Creates(c, r, scope, "disabled")

UpdateRule(c, r, scope) ==
    /\ standing[r] \in {"disabled", "enabled"}
    /\ UsableScope(scope)
    /\ Changes(c, r, scope, standing[r])

FaultyActivateRule(c, r) ==                          \* the scope is not looked at again
    standing[r] \in {"disabled", "enabled"} /\ Changes(c, r, refs[r], "enabled")
ActivateRule(c, r) ==
    /\ standing[r] \in {"disabled", "enabled"}
    /\ UsableScope(refs[r])
    /\ Changes(c, r, refs[r], "enabled")

DeactivateRule(c, r) ==
    standing[r] \in {"disabled", "enabled"} /\ Changes(c, r, refs[r], "disabled")
ArchiveRule(c, r) ==
    standing[r] \in {"disabled", "enabled"} /\ Changes(c, r, refs[r], "archived")

---------------------------------------------------------------------------
(* The write and the commit.                                               *)

Live(x) ==
    CASE x \in Places -> standing[x] \in {"closed", "active"}
      [] x \in Rules -> standing[x] = "enabled"
      [] OTHER -> standing[x] = "active"

(* Live rows that refer to an archived one.  A location does not keep its   *)
(* parent: archiving one looks at destinations, not at the locations below. *)
Dangling ==
    {p \in (Things \ Locations) \X Things :
        Live(p[1]) /\ p[2] \in refs[p[1]] /\ standing[p[2]] = "archived"}

CommitCommand(c) ==
    /\ command[c].stage = "decided"
    /\ LET do == command[c] IN
       /\ \A y \in do.to \ refs[do.on] : ~ RowLocked(y) \/ y = do.on
       /\ do.on \in Duties /\ do.as = "active" => standing[do.on] # "active"
       /\ standing' = [standing EXCEPT ![do.on] = do.as]
       /\ refs' = [refs EXCEPT ![do.on] = do.to]
       /\ late' = IF do.overtaken THEN late \cup (Dangling' \ Dangling) ELSE late
       /\ crossed' = (crossed \/ (do.overtaken /\ do.on \in Locations))
    /\ command' = [d \in Clerks |->
          IF d = c THEN NoCommand
          ELSE IF command[d].stage = "decided" THEN [command[d] EXCEPT !.overtaken = TRUE]
          ELSE command[d]]
    /\ UNCHANGED request

(* Refused, timed out or chosen by the database to break a deadlock.        *)
AbortCommand(c) ==
    /\ command[c].stage \in {"flow", "decided"}
    /\ command' = [command EXCEPT ![c] = NoCommand]
    /\ UNCHANGED <<standing, refs, request, late, crossed>>

---------------------------------------------------------------------------
(* The locks of a request for a pass: the row is inserted, then the flow is *)
(* entered under its lock, and committed.                                  *)

InsertRequestedPass(u, p) ==
    /\ request[u] = NoRequest
    /\ standing[p] = "active"
    /\ ~ RowLocked(p)
    /\ request' = [request EXCEPT ![u] = [stage |-> "inserted", at |-> p]]
    /\ UNCHANGED <<standing, refs, command, late, crossed>>

EnterFlow(u) ==
    /\ request[u].stage = "inserted"
    /\ ~ FlowLocked(request[u].at)
    /\ request' = [request EXCEPT ![u].stage = "live"]
    /\ UNCHANGED <<standing, refs, command, late, crossed>>

(* The pass ends, or the request fails.                                    *)
EndPass(u) ==
    /\ request[u].stage \in {"inserted", "live"}
    /\ request' = [request EXCEPT ![u] = NoRequest]
    /\ UNCHANGED <<standing, refs, command, late, crossed>>

Singles == {{l} : l \in Locations} \cup {{}}

LocationCommand(c) ==
    \E l \in Locations :
        \/ \E parents \in Singles : CreateLocation(c, l, parents) \/ UpdateLocation(c, l, parents)
                                    \/ UpdateLocationWalks(c, l, parents)
        \/ ArchiveLocation(c, l)

DestinationCommand(c) ==
    \/ \E k \in Categories : CreateCategory(c, k) \/ UpdateCategory(c, k) \/ ArchiveCategory(c, k)
    \/ \E p \in Places :
          \/ \E l \in Locations, k \in Categories :
                CreateDestination(c, p, l, k) \/ UpdateDestination(c, p, l, k)
          \/ OpenDestination(c, p) \/ CloseDestination(c, p) \/ ArchiveDestination(c, p)
    \/ ArchiveDestinationChecks(c)

ScopeCommand(c) ==
    \/ \E g \in Duties : RevokeGrant(c, g) \/ \E p \in Places : IssueGrant(c, g, p)
    \/ \E r \in Rules :
          \/ \E scope \in {{p} : p \in Places} \cup {{}} : CreateRule(c, r, scope)
                                                           \/ UpdateRule(c, r, scope)
          \/ ActivateRule(c, r) \/ DeactivateRule(c, r) \/ ArchiveRule(c, r)

SetupNext ==
    \/ \E c \in Clerks : LocationCommand(c) \/ DestinationCommand(c) \/ ScopeCommand(c)
                         \/ CommitCommand(c) \/ AbortCommand(c)
    \/ \E u \in Students : EnterFlow(u) \/ EndPass(u)
                           \/ \E p \in Places : InsertRequestedPass(u, p)

SetupSpec == SetupInit /\ [][SetupNext]_setupVars

---------------------------------------------------------------------------
(* Properties.                                                             *)

(* A destination in use keeps its location and category, an enabled rule    *)
(* and an active duty their destination: whoever archives is refused while  *)
(* it is referred to, and whoever refers is refused once it is archived.    *)
(* What is left is a check another command's commit has overtaken.          *)
DangleOnlyLate == Dangling \subseteq late

(* Locations form a tree, unless a location was moved on an overtaken check. *)
CycleOnlyCrossed == (\E l \in Locations : Cyclic(l)) => crossed

===============================================================================
