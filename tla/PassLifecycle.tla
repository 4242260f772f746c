--------------------------- MODULE PassLifecycle ---------------------------
(***************************************************************************)
(* What the pass aggregate promises, whoever drives it: the central        *)
(* lifecycle matrix of the domain package, and the revision discipline of  *)
(* every command.  A transaction touches the revision at most once (an     *)
(* approval or an override is resolved) and then takes at most one         *)
(* transition of the matrix; each of the two appends the one pass event    *)
(* whose sequence number is the revision it produced.                      *)
(*                                                                         *)
(* This is the abstract specification; DestinationFlow implements it.      *)
(***************************************************************************)
EXTENDS Integers

CONSTANT Passes

VARIABLE life      \* life[p] = [state, rev] of the pass row

ActiveStates == {"requested", "queued", "ready",
                 "outbound", "at_destination", "returning"}
TerminalStates == {"completed", "denied", "cancelled", "expired"}
CancellableStates == {"requested", "queued", "ready"}

(* "absent": no row has been inserted for this pass yet. *)
States == {"absent"} \cup ActiveStates \cup TerminalStates

NormalTransitions ==
    [s \in States |->
        CASE s = "requested" ->
                 {"queued", "ready", "denied", "cancelled", "expired"}
          [] s = "queued" ->
                 {"requested", "ready", "denied", "cancelled", "expired"}
          [] s = "ready" ->
                 {"queued", "outbound", "denied", "cancelled", "expired"}
          [] s = "outbound" -> {"at_destination", "completed"}
          [] s = "at_destination" -> {"returning", "completed"}
          [] s = "returning" -> {"completed"}
          [] OTHER -> {}]

CanTransition(from, to) == to \in NormalTransitions[from]

LifeRecords == [state : States, rev : Nat]

---------------------------------------------------------------------------

Init == life = [p \in Passes |-> [state |-> "absent", rev |-> 0]]

(* The row is inserted at revision 1, and the same transaction may already *)
(* place or deny the pass.                                                 *)
Create(p) ==
    /\ life[p].state = "absent"
    /\ \/ life' = [life EXCEPT ![p] = [state |-> "requested", rev |-> 1]]
       \/ \E to \in NormalTransitions["requested"] :
             life' = [life EXCEPT ![p] = [state |-> to, rev |-> 2]]

(* A workflow fact is recorded on an active pass: revision only. *)
Touch(p) ==
    /\ life[p].state \in ActiveStates
    /\ life' = [life EXCEPT ![p].rev = @ + 1]

(* One transition of the matrix, after at most one touch. *)
Move(p) ==
    \E to \in NormalTransitions[life[p].state], touched \in {0, 1} :
        life' = [life EXCEPT ![p] = [state |-> to,
                                     rev |-> life[p].rev + touched + 1]]

Next == \E p \in Passes : Create(p) \/ Touch(p) \/ Move(p)

Spec == Init /\ [][Next]_life

===========================================================================
