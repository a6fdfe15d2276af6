-------------------------- MODULE ClaimedPlacement --------------------------
(***************************************************************************)
(* What the finalizer protocol of a slice controller promises, with no     *)
(* queue, cache, crash or API call in sight.  An owner holds places: the   *)
(* ManifestWorks of a slice, one per managed cluster.  It may take a place *)
(* only while it is claimed, loses one only once it is leaving, and is     *)
(* free again only when it holds none, so that nothing of a deleted slice  *)
(* stays behind on a managed cluster and nothing of another slice goes     *)
(* with it.                                                                *)
(***************************************************************************)
CONSTANTS Owners,   \* the slices
          Places,   \* the keys of ManifestWorks
          Nobody    \* no owner holds the place

VARIABLES
    status,  \* status[o]: "free", "claimed" (finalizer set), "leaving" (deleted)
    holder   \* holder[p]: the owner whose work is at place p

vars == <<status, holder>>

Init ==
    /\ status = [o \in Owners |-> "free"]
    /\ holder = [p \in Places |-> Nobody]

Claim(o) ==
    /\ status[o] = "free"
    /\ status' = [status EXCEPT ![o] = "claimed"]
    /\ UNCHANGED holder

Leave(o) ==
    /\ status[o] = "claimed"
    /\ status' = [status EXCEPT ![o] = "leaving"]
    /\ UNCHANGED holder

\* A slice deleted while it is being placed may still take places.
Place(o, p) ==
    /\ status[o] # "free"
    /\ holder[p] \in {Nobody, o}
    /\ holder' = [holder EXCEPT ![p] = o]
    /\ UNCHANGED status

Withdraw(o, p) ==
    /\ status[o] = "leaving"
    /\ holder[p] = o
    /\ holder' = [holder EXCEPT ![p] = Nobody]
    /\ UNCHANGED status

Release(o) ==
    /\ status[o] = "leaving"
    /\ \A p \in Places : holder[p] # o
    /\ status' = [status EXCEPT ![o] = "free"]
    /\ UNCHANGED holder

Next ==
    \/ \E o \in Owners : Claim(o) \/ Leave(o) \/ Release(o)
    \/ \E o \in Owners, p \in Places : Place(o, p) \/ Withdraw(o, p)

Spec == Init /\ [][Next]_vars

=============================================================================
