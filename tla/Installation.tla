---------------------------- MODULE Installation ----------------------------
(***************************************************************************)
(* How a school comes to exist and to have a sign-in provider: one-time     *)
(* operator codes, the two bootstrap ceremonies (with the provider at once, *)
(* or guided: the school first, its provider afterwards), and break-glass   *)
(* recovery of the first administrator.                                     *)
(*                                                                         *)
(* Granularity.  A task is one request to the server: its validation, its   *)
(* autocommitted claim or code consumption, the exchange with the provider, *)
(* and its transaction, whose writes are seen at the commit.  The server    *)
(* may die between any two of them.                                         *)
(***************************************************************************)
EXTENDS Integers, FiniteSets

CONSTANTS
    Codes,         \* local_operator_grant rows that may be issued
    Providers,     \* identity providers an operator may enter
    Ceremonies,    \* oidc_login_transaction rows of both setups
    Tasks,         \* requests; each may create one administrator session
    CodeLife, CeremonyLife,
    LastHour       \* bound: the last instant of the clock

None == "none"       \* SQL's NULL, which is no row's id

ASSUME InstallationAssumption ==
    /\ {CodeLife, CeremonyLife} \subseteq Nat \ {0}
    /\ LastHour \in Nat
    /\ None \notin Codes \cup Providers

VARIABLES
    hour,          \* the wall clock
    code, draft,   \* operator codes, and the bootstrap_setup row of each
    ceremony, task,
    school,        \* tenants, active providers, and the first administrator
    admission      \* the session each task created

installationVars == <<hour, code, draft, ceremony, task, school, admission>>

TaskKinds == {"initialize", "prepare", "complete", "choose", "connect", "recover"}
Steps == {"checked", "spent", "exchanging", "exchanged", "locked"}

CodeRecords == [status : {"absent", "live", "spent"},
                purpose : {"bootstrap", "recovery"}, until : Nat]
DraftRecords == [provider : Providers \cup {None}, completed : BOOLEAN, until : Nat]
CeremonyRecords ==
    [status : {"absent", "pending", "processing", "consumed", "failed"},
     code : Codes \cup {None}, provider : Providers \cup {None}, until : Nat]

Unstarted == [kind |-> None, step |-> None]
Ended == [kind |-> "ended", step |-> None]
NoAdmission == [kind |-> None]

InstallationInit ==
    /\ hour = 0
    /\ code = [g \in Codes |-> [status |-> "absent", purpose |-> "bootstrap", until |-> 0]]
    /\ draft = [g \in Codes |-> [provider |-> None, completed |-> FALSE, until |-> 0]]
    /\ ceremony = [x \in Ceremonies |->
                      [status |-> "absent", code |-> None, provider |-> None, until |-> 0]]
    /\ task = [t \in Tasks |-> Unstarted]
    /\ school = [tenants |-> 0, providers |-> 0, provider |-> None, identity |-> None, rev |-> 0]
    /\ admission = [t \in Tasks |-> NoAdmission]

---------------------------------------------------------------------------
(* Helpers.                                                                *)

Step(t, kind, step) == task[t].kind = kind /\ task[t].step = step
Advance(t, step) == task' = [task EXCEPT ![t].step = step]
Finish(t) == task' = [task EXCEPT ![t] = Ended]

Installed == school.tenants > 0
Good(g, purpose) == code[g].status = "live" /\ code[g].purpose = purpose /\ hour < code[g].until

(* pg_advisory_xact_lock: one finalization at a time, of either ceremony;   *)
(* the provider setup has a lock of its own, but needs the school to exist. *)
FinalizationIsFree == \A t \in Tasks : task[t].step # "locked"

Admit(t, kind, rev, connected) ==
    admission' = [admission EXCEPT ![t] = [kind |-> kind, rev |-> rev, connected |-> connected]]

(* A session is good while the account keeps its revision. *)
IsGood(t) == admission[t] # NoAdmission /\ admission[t].rev = school.rev

---------------------------------------------------------------------------
(* The operator issues codes on the server's command line.                 *)

IssueBootstrapCode(g) ==
    /\ code[g].status = "absent" /\ ~ Installed
    /\ code' = [code EXCEPT ![g] = [status |-> "live", purpose |-> "bootstrap",
                                    until |-> hour + CodeLife]]
    /\ UNCHANGED <<hour, draft, ceremony, task, school, admission>>

IssueRecoveryCode(g) ==
    /\ code[g].status = "absent" /\ Installed
    /\ code' = [code EXCEPT ![g] = [status |-> "live", purpose |-> "recovery",
                                    until |-> hour + CodeLife]]
    /\ UNCHANGED <<hour, draft, ceremony, task, school, admission>>

(* UPDATE ... WHERE consumed_at IS NULL, autocommitted: spent, come what may. *)
Spend(g) == code' = [code EXCEPT ![g].status = "spent"]

---------------------------------------------------------------------------
(* The guided ceremony: the school first.                                  *)

StartInitialize(t, g) ==
    /\ task[t] = Unstarted
    /\ ~ Installed
    /\ task' = [task EXCEPT ![t] = [kind |-> "initialize", step |-> "checked", code |-> g]]
    /\ UNCHANGED <<hour, code, draft, ceremony, school, admission>>

SpendBootstrapCode(t) ==
    LET g == task[t].code IN
    /\ Step(t, "initialize", "checked")
    /\ Good(g, "bootstrap")
    /\ \A other \in Tasks : ~ (Step(other, "complete", "locked") /\ task[other].code = g)
    /\ Spend(g)
    /\ Advance(t, "spent")
    /\ UNCHANGED <<hour, draft, ceremony, school, admission>>

FaultyMayInstall == TRUE                             \* only the first look counts
(* Tenants are counted again under the lock. *)
MayInstall == ~ Installed

LockInitialize(t) ==
    /\ Step(t, "initialize", "spent")
    /\ FinalizationIsFree
    /\ MayInstall
    /\ Advance(t, "locked")
    /\ UNCHANGED <<hour, code, draft, ceremony, school, admission>>

CommitInitialize(t) ==
    /\ Step(t, "initialize", "locked")
    /\ school' = [school EXCEPT !.tenants = @ + 1]
    /\ Admit(t, "setup", 0, FALSE)
    /\ Finish(t)
    /\ UNCHANGED <<hour, code, draft, ceremony>>

---------------------------------------------------------------------------
(* The ceremony with the provider at once.                                 *)

(* The code is looked at, not spent; the provider is then asked about.     *)
StartPrepare(t, g, p) ==
    /\ task[t] = Unstarted
    /\ Good(g, "bootstrap") /\ ~ Installed
    /\ task' = [task EXCEPT ![t] = [kind |-> "prepare", step |-> "checked",
                                    code |-> g, provider |-> p]]
    /\ UNCHANGED <<hour, code, draft, ceremony, school, admission>>

(* The one draft of the code is made or corrected, and a ceremony begun.   *)
SaveDraft(t, x) ==
    LET g == task[t].code IN
    /\ Step(t, "prepare", "checked")
    /\ ceremony[x].status = "absent"
    /\ ~ draft[g].completed
    /\ draft' = [draft EXCEPT ![g] = [provider |-> task[t].provider, completed |-> FALSE,
                                      until |-> hour + CodeLife]]
    /\ ceremony' = [ceremony EXCEPT ![x] = [status |-> "pending", code |-> g,
                                            provider |-> None, until |-> hour + CeremonyLife]]
    /\ Finish(t)
    /\ UNCHANGED <<hour, code, school, admission>>

ClaimCeremony(t, x, kind) ==
    /\ task[t] = Unstarted
    /\ ceremony[x].status = "pending"
    /\ (kind = "complete") <=> (ceremony[x].code # None)
    /\ ceremony' = [ceremony EXCEPT ![x].status = "processing"]
    /\ task' = [task EXCEPT ![t] = [kind |-> kind, step |-> "checked", ceremony |-> x,
                                    code |-> ceremony[x].code, at |-> hour,
                                    provider |-> ceremony[x].provider]]
    /\ UNCHANGED <<hour, code, draft, school, admission>>

(* Expiry and binding; the configuration is the draft's as it is now, or    *)
(* the one staged with the ceremony.                                       *)
ReadConfiguration(t) ==
    /\ Step(t, "complete", "checked") \/ Step(t, "connect", "checked")
    /\ task[t].at < ceremony[task[t].ceremony].until
    /\ task[t].kind = "complete" => ~ draft[task[t].code].completed
    /\ task' = [task EXCEPT ![t].step = "exchanging",
                            ![t].provider = IF task[t].kind = "complete"
                                            THEN draft[task[t].code].provider ELSE @]
    /\ UNCHANGED <<hour, code, draft, ceremony, school, admission>>

ExchangeCode(t) ==
    /\ task[t].step = "exchanging"
    /\ Advance(t, "exchanged")
    /\ UNCHANGED <<hour, code, draft, ceremony, school, admission>>

(* Under the lock: tenants, draft, code and ceremony are judged again; the  *)
(* code is spent in this transaction.                                      *)
LockComplete(t) ==
    LET g == task[t].code IN
    /\ Step(t, "complete", "exchanged")
    /\ FinalizationIsFree
    /\ MayInstall
    /\ ~ draft[g].completed /\ hour < draft[g].until
    /\ Good(g, "bootstrap")
    /\ ceremony[task[t].ceremony].status = "processing"
    /\ task' = [task EXCEPT ![t] = [kind |-> "complete", step |-> "locked", code |-> g,
                     ceremony |-> @.ceremony, verified |-> @.provider,
                     provider |-> draft[g].provider]]
    /\ UNCHANGED <<hour, code, draft, ceremony, school, admission>>

(* The provider is created from the draft as finalize read it, the identity *)
(* is the one that was verified.                                           *)
CommitComplete(t) ==
    LET g == task[t].code IN
    /\ Step(t, "complete", "locked")
    /\ school' = [school EXCEPT !.tenants = @ + 1, !.providers = @ + 1,
                                !.provider = task[t].provider,
                                !.identity = task[t].verified]
    /\ Spend(g)
    /\ draft' = [draft EXCEPT ![g].completed = TRUE]
    /\ ceremony' = [ceremony EXCEPT ![task[t].ceremony].status = "consumed"]
    /\ Admit(t, "oidc", 0, TRUE)
    /\ Finish(t)
    /\ UNCHANGED hour

---------------------------------------------------------------------------
(* The guided ceremony: its provider.                                      *)

StartChoose(t, s, p) ==
    /\ task[t] = Unstarted
    /\ IsGood(s) /\ admission[s].kind \in {"setup", "recovery"}
    /\ school.provider = None
    /\ task' = [task EXCEPT ![t] = [kind |-> "choose", step |-> "checked", provider |-> p]]
    /\ UNCHANGED <<hour, code, draft, ceremony, school, admission>>

(* Eligibility is judged again, the session is not. *)
SaveChoice(t, x) ==
    /\ Step(t, "choose", "checked")
    /\ school.provider = None
    /\ ceremony[x].status = "absent"
    /\ ceremony' = [ceremony EXCEPT ![x] = [status |-> "pending", code |-> None,
                        provider |-> task[t].provider, until |-> hour + CeremonyLife]]
    /\ Finish(t)
    /\ UNCHANGED <<hour, code, draft, school, admission>>

MayConnect == school.provider = None

LockConnect(t) ==
    /\ Step(t, "connect", "exchanged")
    /\ FinalizationIsFree
    /\ ceremony[task[t].ceremony].status = "processing"
    /\ MayConnect
    /\ Advance(t, "locked")
    /\ UNCHANGED <<hour, code, draft, ceremony, school, admission>>

FaultyConnected(p) ==                                \* sessions left as they are
    [school EXCEPT !.providers = @ + 1, !.provider = p, !.identity = p]
(* The revision is raised before the new session is made, so that all the  *)
(* temporary ones, committed or not, stop being good.                      *)
Connected(p) ==
    [school EXCEPT !.providers = @ + 1, !.provider = p, !.identity = p, !.rev = @ + 1]

CommitConnect(t) ==
    /\ Step(t, "connect", "locked")
    /\ school' = Connected(task[t].provider)
    /\ ceremony' = [ceremony EXCEPT ![task[t].ceremony].status = "consumed"]
    /\ Admit(t, "oidc", school'.rev, TRUE)
    /\ Finish(t)
    /\ UNCHANGED <<hour, code, draft>>

---------------------------------------------------------------------------
(* Recovery, failure, time.                                                *)

Spendable(g) == Good(g, "recovery")

SpendRecoveryCode(t, g) ==
    /\ task[t] = Unstarted
    /\ Spendable(g)
    /\ Spend(g)
    /\ task' = [task EXCEPT ![t] = [kind |-> "recover", step |-> "spent", code |-> g]]
    /\ UNCHANGED <<hour, draft, ceremony, school, admission>>

(* The account is read, and the session made at its revision later. *)
ReadAdministrator(t) ==
    /\ Step(t, "recover", "spent")
    /\ task' = [task EXCEPT ![t] = [kind |-> "recover", step |-> "exchanged", code |-> @.code,
                     rev |-> school.rev, connected |-> school.provider # None]]
    /\ UNCHANGED <<hour, code, draft, ceremony, school, admission>>

CommitRecover(t) ==
    /\ Step(t, "recover", "exchanged")
    /\ admission' = [admission EXCEPT ![t] =
                       [kind |-> "recovery", rev |-> task[t].rev,
                        connected |-> task[t].connected, code |-> task[t].code]]
    /\ Finish(t)
    /\ UNCHANGED <<hour, code, draft, ceremony, school>>

(* A code presented where the other purpose is wanted is spent all the same. *)
WasteCode(g) ==
    /\ \E purpose \in {"bootstrap", "recovery"} : Good(g, purpose)
    /\ Spend(g)
    /\ UNCHANGED <<hour, draft, ceremony, task, school, admission>>

(* A check or the provider fails: the ceremony is marked as failed at once. *)
FailCeremony(t) ==
    /\ task[t].kind \in {"complete", "connect"}
    /\ task[t].step \in {"checked", "exchanging"}
    /\ ceremony' = [ceremony EXCEPT ![task[t].ceremony].status = "failed"]
    /\ Finish(t)
    /\ UNCHANGED <<hour, code, draft, school, admission>>

(* The server dies, or the transaction is refused: it leaves nothing. *)
LoseTask(t) ==
    /\ task[t] \notin {Unstarted, Ended}
    /\ Finish(t)
    /\ UNCHANGED <<hour, code, draft, ceremony, school, admission>>

HourPasses ==
    /\ hour < LastHour
    /\ hour' = hour + 1
    /\ UNCHANGED <<code, draft, ceremony, task, school, admission>>

InstallationNext ==
    \/ \E g \in Codes : IssueBootstrapCode(g) \/ IssueRecoveryCode(g) \/ WasteCode(g)
    \/ \E t \in Tasks, g \in Codes :
          \/ StartInitialize(t, g) \/ SpendRecoveryCode(t, g)
          \/ \E p \in Providers : StartPrepare(t, g, p)
    \/ \E t \in Tasks, x \in Ceremonies :
          \/ SaveDraft(t, x) \/ SaveChoice(t, x)
          \/ ClaimCeremony(t, x, "complete") \/ ClaimCeremony(t, x, "connect")
    \/ \E t, s \in Tasks, p \in Providers : StartChoose(t, s, p)
    \/ \E t \in Tasks :
          \/ SpendBootstrapCode(t) \/ LockInitialize(t) \/ CommitInitialize(t)
          \/ ReadConfiguration(t) \/ ExchangeCode(t) \/ LockComplete(t) \/ CommitComplete(t)
          \/ LockConnect(t) \/ CommitConnect(t)
          \/ ReadAdministrator(t) \/ CommitRecover(t) \/ FailCeremony(t) \/ LoseTask(t)
    \/ HourPasses

InstallationSpec == InstallationInit /\ [][InstallationNext]_installationVars

---------------------------------------------------------------------------
(* Properties.                                                             *)

(* "Two concurrent bootstrap callbacks cannot create two installations":    *)
(* nor can two codes, the two ceremonies at once, or two tabs that connect  *)
(* a provider each.                                                        *)
InstalledOnce == school.tenants <= 1 /\ school.providers <= 1

(* Once a provider is connected, no temporary session is good that had its  *)
(* start before that, not even one that a recovery creates afterwards from  *)
(* what it read of the account before.                                     *)
TemporarySessionsEnd ==
    \A t \in Tasks :
        (/\ IsGood(t) /\ admission[t].kind \in {"setup", "recovery"}
         /\ ~ admission[t].connected)
        => school.provider = None

===========================================================================
