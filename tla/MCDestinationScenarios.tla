----------------------- MODULE MCDestinationScenarios -----------------------
(* Instances of DestinationFlow that visit several small worlds in one run: *)
(* the scenario is chosen in the initial state and restricts the steps.     *)
EXTENDS MCDestinationFlow

CONSTANT Scenarios

VARIABLE scenario

InFlight(Allowed(_)) == \A k \in inflight : Allowed(k)

(* Three students with departures and at most one batch at a time, or      *)
(* without departures and with two replicas that batch as they like.       *)
Departures ==
    \A v, w \in Workers : v = w \/ AtStage(v, "idle") \/ AtStage(w, "idle")
Replicas ==
    /\ InFlight(LAMBDA k : k.op # "depart")
    /\ \A r \in reservations \cup queue : r.flowUntil \notin SlotEnds

(* Two students wait for one slot; they are interchangeable, so p1 comes   *)
(* first.  Or one student, with everything that may be decided about it.   *)
(* Neither disables a command in flight for good: it may be abandoned.     *)
Contended ==
    /\ InFlight(LAMBDA k : k.op # "override_resolve" /\ k.rev < 3)
    /\ InFlight(LAMBDA k : k.pass # p1 => ~ InState(p1, {"absent"}))
    /\ \A p \in Passes : evaluation[p].decision # "deny"
Resolved == InFlight(LAMBDA k : k.pass = p1)

(* Two students and every command and decision, at one destination that    *)
(* nobody edits, while nothing in flight grows old and only decisions     *)
(* come at the last revision.  Or ordinary requests and departures while   *)
(* administrators change the destination.                                  *)
WithoutEdits == \A d \in Destinations : destination[d] = Row("active", 1, TRUE, "none")
Worked ==
    /\ WithoutEdits
    /\ InFlight(LAMBDA k : k.at = clock /\ (k.op = "override_resolve" \/ k.rev < 4))
    /\ \A w \in Workers : AtStage(w, "idle") \/ worker[w].at = clock
Administered ==
    /\ InFlight(LAMBDA k : k.op \in {"request", "depart"})
    /\ \A p \in Passes : evaluation[p].decision = "allow"

Within ==
    CASE scenario = "departures" -> Departures
      [] scenario = "replicas" -> Replicas
      [] scenario = "contended" -> Contended
      [] scenario = "resolved" -> Resolved
      [] scenario = "worked" -> Worked
      [] scenario = "administered" -> Administered

ScenarioInit ==
    /\ Init /\ scenario \in Scenarios
    /\ scenario = "worked" => WithoutEdits
ScenarioNext == Next /\ UNCHANGED scenario /\ Within'
ScenarioSpec == ScenarioInit /\ [][ScenarioNext]_<<vars, scenario>>
FairScenarioSpec == ScenarioSpec /\ Fairness

===========================================================================
