------------------------- MODULE MCCommandEnvelope -------------------------
(* Instances of the way a command goes: into the database, once, through the *)
(* envelope; and from the database to the pages that other people look at.   *)
(* The two share no state, so one run explores them side by side: the focus  *)
(* is chosen in the initial state, and only its steps are taken.            *)
EXTENDS CommandEnvelope, Realtime, TLC

CONSTANTS r1, r2, r3, k1, l1
CONSTANT Foci

VARIABLE focus

(* One advisory lock for every key. *)
AllCollide == [k \in Keys |-> l1]

(* One page under changes of it and of the grants, and lost connections; or  *)
(* any query of any page, at rest, under one command, with nothing lost.      *)
OnePage ==
    /\ changes > 0 \/ breaks > 0 => page.status # "away"
    /\ changes + breaks <= MostChanges /\ Rights + breaks <= 2
    /\ screen.key = "policies"
    /\ \A t \in Watched :
          truth[t] <= CASE t = "policy_rule" -> 1 [] t = "authorization_grant" -> 2 [] OTHER -> 0
WorthIt == loader' # loader /\ loader = Resting => ~ page.cached \/ page.context # Rights
EveryPage ==
    /\ breaks = 0 /\ changes <= 1
    /\ page.status # "away" => page.cached /\ loader = Resting
AtRest == stream.state = "open" /\ stream.out = <<>> /\ fetch = Resting /\ cached # Unread

(* Requests are interchangeable, so they arrive in one order.              *)
InOrder ==
    /\ At(r2, "unsent") => At(r3, "unsent")
    /\ At(r1, "unsent") => At(r2, "unsent")

(* The gaps are real ones.                                                 *)
ASSUME GapsAreReal

DeliveryInit ==
    /\ Init /\ RealtimeInit /\ focus \in Foci
    /\ focus = "envelope" => screen.key = "audit"
    /\ focus = "one page" => OnePage
DeliveryNext ==
    /\ \/ focus = "envelope" /\ Next /\ InOrder' /\ UNCHANGED realtimeVars
       \/ focus = "one page" /\ RealtimeNext /\ OnePage' /\ WorthIt /\ UNCHANGED vars
       \/ focus = "every page" /\ RealtimeNext /\ EveryPage' /\ (changes' # changes => AtRest) /\ UNCHANGED vars
    /\ UNCHANGED focus
DeliverySpec ==
    /\ DeliveryInit /\ [][DeliveryNext]_<<vars, realtimeVars, focus>>
    /\ Fairness /\ RealtimeFairness

===========================================================================
