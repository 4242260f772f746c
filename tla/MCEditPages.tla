---------------------------- MODULE MCEditPages ----------------------------
(* Two tabs of the browser on one row. *)
EXTENDS EditPages, TLC

CONSTANTS t1, t2

(* Every kind of page, each beside another one, which stands for whoever else *)
(* edits the row.                                                            *)
EveryKind ==
    {(t1 :> "updatePolicyRule" @@ t2 :> "updateLocation"),
     (t1 :> "updateDestinationCategory" @@ t2 :> "updateDestination"),
     (t1 :> "requestMyPass" @@ t2 :> "createLocation")}
OneRule == {(t1 :> "updateDestination" @@ t2 :> "updatePolicyRule")}
EditSymmetry == Permutations(Edits)

============================================================================
