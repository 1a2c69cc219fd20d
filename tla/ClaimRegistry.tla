--------------------------- MODULE ClaimRegistry ---------------------------
(***************************************************************************)
(* What the claim flow promises: a device gets one owner, once, and only   *)
(* after somebody at the device has offered it by pressing its button.     *)
(***************************************************************************)
CONSTANTS Devices, Users, Nobody

VARIABLES
    owner,      \* the user each device belongs to
    offered,    \* the devices whose button has been pressed to claim them
    revocable   \* may an administrator take a device away?

Init ==
    /\ owner = [d \in Devices |-> Nobody]
    /\ offered = {}
    /\ revocable \in BOOLEAN

Offer(d) ==
    /\ offered' = offered \cup {d}
    /\ UNCHANGED owner

Take(d, u) ==
    /\ d \in offered
    /\ owner[d] = Nobody
    /\ owner' = [owner EXCEPT ![d] = u]
    /\ UNCHANGED offered

Revoke(d) ==
    /\ revocable
    /\ owner' = [owner EXCEPT ![d] = Nobody]
    /\ UNCHANGED offered

Next ==
    /\ \E d \in Devices : Offer(d) \/ Revoke(d) \/ \E u \in Users : Take(d, u)
    /\ UNCHANGED revocable

Spec == Init /\ [][Next]_<<owner, offered, revocable>>
=============================================================================
