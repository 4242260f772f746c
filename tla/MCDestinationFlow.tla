------------------------- MODULE MCDestinationFlow -------------------------
(* Instances of DestinationFlow for TLC. *)
EXTENDS DestinationFlow, TLC

CONSTANTS p1, p2, p3, d1, w1, w2

OwnStudent == [p \in Passes |-> p]
OneDestination == [p \in Passes |-> d1]

PassSymmetry == Permutations(Passes)
ReplicaSymmetry == PassSymmetry \cup Permutations(Workers)

Row(status, capacity, queueEnabled, mode) ==
    [status |-> status, capacity |-> capacity,
     queueEnabled |-> queueEnabled, mode |-> mode]

QueueOfOne == [d \in Destinations |-> {Row("active", 1, TRUE, "none")}]

(* One slot and a queue; the destination closes and may open again. *)
OpensAndCloses ==
    [d \in Destinations |->
        {Row(status, 1, TRUE, "none") : status \in {"active", "closed"}}]

(* Everything an administrator can change, one slot or no limit. *)
Edited ==
    [d \in Destinations |->
        {Row("active", 1, TRUE, "none"), Row("active", 1, FALSE, "required"),
         Row("active", Unlimited, TRUE, "optional"),
         Row("closed", 1, TRUE, "none"), Row("archived", 1, TRUE, "none")}]

===========================================================================
