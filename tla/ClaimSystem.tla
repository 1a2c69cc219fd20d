---------------------------- MODULE ClaimSystem ----------------------------
(***************************************************************************)
(* Claiming a device: the button task of each device, its link to the MQTT *)
(* broker, the ingestion process that lists the codes devices report, and  *)
(* the web requests that turn a listed code into a Device row of a user.   *)
(*                                                                         *)
(* claim_request is published with QoS 1: what the broker has not          *)
(* acknowledged is sent again, in order, after a reconnect.  claim_status  *)
(* is not retained: it reaches a device that is connected, or nobody.      *)
(***************************************************************************)
EXTENDS Naturals, Sequences

CONSTANTS
    Devices, Users, Codes,
    Nobody,        \* no user
    NoCode,        \* no claim code; on the wire, the empty code
    MaxOutbox,     \* bound: messages of a device alone not yet acknowledged
    Scenarios      \* sets of what the environment may do

FaultKinds ==
    {"offline",    \* a device loses its connection and finds it again
     "restart",    \* a device restarts
     "flash",      \* a device's write to flash fails
     "backend",    \* a message is published while nobody ingests
     "publish",    \* the web process does not reach the broker
     "delete",     \* an administrator deletes a device
     "alone"}      \* bound: one device that every user wants, not all devices
                   \* of one user

ASSUME ClaimConstants ==
    /\ Nobody \notin Users
    /\ NoCode \notin Codes
    /\ MaxOutbox \in Nat \ {0}
    /\ Scenarios \subseteq SUBSET FaultKinds

VARIABLES
    faults,      \* the scenario, fixed throughout
    code,        \* per device: m_code
    claimed,     \* per device: m_claimed
    flash,       \* per device: the claim status and code stored
    showing,     \* per device: l_showing
    button,      \* per device: where its button task is
    connected,   \* per device: m_connected
    outbox,      \* per device: the codes published and not acknowledged
    sent,        \* per device: how many of them the broker has had
    told,        \* per device: is a claim_status on its way to it?
    claim,       \* per device: the code of its DeviceClaim row
    owner,       \* per device: the user of its Device row
    offered,     \* history: the devices that published their code
    web,         \* per user: where the user's request is
    found,       \* per user: the device whose row the request found, if any
    fresh        \* per user: is the row it found still the row there is?

deviceVars == <<code, claimed, flash, showing, button>>
linkVars == <<connected, outbox, sent, told>>
dbVars == <<claim, owner>>
webVars == <<web, found, fresh>>
state == <<deviceVars, linkVars, dbVars, offered, webVars>>
vars == <<faults, state>>

TypeOK ==
    /\ faults \in Scenarios
    /\ code \in [Devices -> Codes]
    /\ claimed \in [Devices -> BOOLEAN]
    /\ flash \in [Devices -> [claimed : BOOLEAN, code : Codes \cup {NoCode}]]
    /\ showing \in [Devices -> BOOLEAN]
    /\ button \in [Devices -> {"idle", "show"}]
    /\ connected \in [Devices -> BOOLEAN]
    /\ outbox \in [Devices -> Seq(Codes \cup {NoCode})]
    /\ sent \in [Devices -> Nat]
    /\ \A d \in Devices : sent[d] <= Len(outbox[d]) /\ Len(outbox[d]) <= MaxOutbox
    /\ told \in [Devices -> BOOLEAN]
    /\ claim \in [Devices -> Codes \cup {NoCode}]
    /\ owner \in [Devices -> Users \cup {Nobody}]
    /\ offered \subseteq Devices
    /\ web \in [Users -> {"idle", "found", "created"}]
    /\ found \in [Users -> SUBSET Devices]
    /\ fresh \in [Users -> BOOLEAN]

(* Who takes part, and how many messages a device has under way. *)
Any(set) == {x \in set : x = CHOOSE y \in set : TRUE}
Active == IF "alone" \in faults THEN Any(Devices) ELSE Devices
Visitors == IF "alone" \in faults THEN Users ELSE Any(Users)
HasRoom(d) == Len(outbox[d]) < IF "alone" \in faults THEN MaxOutbox ELSE 1

(* New devices: each draws a code at its first start, which may be taken. *)
Init ==
    /\ faults \in Scenarios
    /\ code \in [Devices -> Codes]
    /\ claimed = [d \in Devices |-> FALSE]
    /\ flash \in [Devices -> [claimed : {FALSE}, code : Codes \cup {NoCode}]]
    /\ \A d \in Devices : flash[d].code = code[d] \/ (flash[d].code = NoCode /\ "flash" \in faults)
    /\ \A d \in Devices \ Active, e \in Active : code[d] = code[e] /\ flash[d] = flash[e]
    /\ showing = [d \in Devices |-> FALSE]
    /\ button = [d \in Devices |-> "idle"]
    /\ connected = [d \in Devices |-> TRUE]
    /\ outbox = [d \in Devices |-> <<>>]
    /\ sent = [d \in Devices |-> 0]
    /\ told = [d \in Devices |-> FALSE]
    /\ claim = [d \in Devices |-> NoCode]
    /\ owner = [d \in Devices |-> Nobody]
    /\ offered = {}
    /\ web = [u \in Users |-> "idle"]
    /\ found = [u \in Users |-> {}]
    /\ fresh = [u \in Users |-> FALSE]

-----------------------------------------------------------------------------
(* The button task of device d. *)

(* publish(): nothing is queued for a device that is not connected. *)
PublishCode(d, c) ==
    outbox' = IF connected[d]
              THEN [outbox EXCEPT ![d] = Append(@, c)]
              ELSE outbox

(* A press that shows the code; show() reads m_claimed before it sends. *)
PressToShow(d) ==
    /\ button[d] = "idle" /\ ~showing[d]
    /\ showing' = [showing EXCEPT ![d] = TRUE]
    /\ button' = IF claimed[d] THEN button ELSE [button EXCEPT ![d] = "show"]
    /\ UNCHANGED <<code, claimed, flash, linkVars, dbVars, offered, webVars>>

SendClaimCode(d) ==
    /\ button[d] = "show"
    /\ HasRoom(d)
    /\ PublishCode(d, code[d])
    /\ offered' = IF connected[d] THEN offered \cup {d} ELSE offered
    /\ button' = [button EXCEPT ![d] = "idle"]
    /\ UNCHANGED <<code, claimed, flash, showing, connected, sent, told, dbVars, webVars>>

(* Mutant: the claim is left standing. *)
HideOnly(d) ==
    /\ button[d] = "idle" /\ showing[d]
    /\ showing' = [showing EXCEPT ![d] = FALSE]
    /\ UNCHANGED <<code, claimed, flash, button, linkVars, dbVars, offered, webVars>>

(* A press that hides it: hide() and clearClaimCode(). *)
PressToHide(d) ==
    /\ button[d] = "idle" /\ showing[d]
    /\ HasRoom(d)
    /\ showing' = [showing EXCEPT ![d] = FALSE]
    /\ PublishCode(d, NoCode)
    /\ UNCHANGED <<code, claimed, flash, button, connected, sent, told, dbVars, offered, webVars>>

(* setClaimed(TRUE), from the MQTT task: stored when it is news. *)
SetClaimed(d) ==
    /\ told[d]
    /\ told' = [told EXCEPT ![d] = FALSE]
    /\ claimed' = [claimed EXCEPT ![d] = TRUE]
    /\ \/ flash' = IF claimed[d] THEN flash ELSE [flash EXCEPT ![d].claimed = TRUE]
       \/ "flash" \in faults /\ UNCHANGED flash
    /\ UNCHANGED <<code, showing, button, connected, outbox, sent, dbVars, offered, webVars>>

-----------------------------------------------------------------------------
(* The link of device d. *)

(* The client session is clean: what was on its way to the device is lost. *)
Disconnect(d) ==
    /\ "offline" \in faults
    /\ connected[d]
    /\ connected' = [connected EXCEPT ![d] = FALSE]
    /\ told' = [told EXCEPT ![d] = FALSE]
    /\ UNCHANGED <<deviceVars, outbox, sent, dbVars, offered, webVars>>

Reconnect(d) ==
    /\ ~connected[d]
    /\ connected' = [connected EXCEPT ![d] = TRUE]
    /\ sent' = [sent EXCEPT ![d] = 0]
    /\ UNCHANGED <<deviceVars, outbox, told, dbVars, offered, webVars>>

Acknowledge(d) ==
    /\ connected[d] /\ sent[d] > 0
    /\ outbox' = [outbox EXCEPT ![d] = Tail(@)]
    /\ sent' = [sent EXCEPT ![d] = @ - 1]
    /\ UNCHANGED <<deviceVars, connected, told, dbVars, offered, webVars>>

(* init(): the code saved, or one drawn for want of it. *)
LoadOrDrawCode(d) == IF flash[d].code = NoCode THEN Codes ELSE {flash[d].code}

Restart(d) ==
    /\ "restart" \in faults
    /\ claimed' = [claimed EXCEPT ![d] = flash[d].claimed]
    /\ \E c \in LoadOrDrawCode(d) :
          /\ code' = [code EXCEPT ![d] = c]
          /\ \/ flash' = [flash EXCEPT ![d].code = c]
             \/ "flash" \in faults /\ UNCHANGED flash
    /\ showing' = [showing EXCEPT ![d] = FALSE]
    /\ button' = [button EXCEPT ![d] = "idle"]
    /\ connected' = [connected EXCEPT ![d] = FALSE]
    /\ outbox' = [outbox EXCEPT ![d] = <<>>]
    /\ sent' = [sent EXCEPT ![d] = 0]
    /\ told' = [told EXCEPT ![d] = FALSE]
    /\ UNCHANGED <<dbVars, offered, webVars>>

-----------------------------------------------------------------------------
(* The ingestion process. *)

(* A row that goes is no longer the row any web request has found. *)
RowGone(d) == fresh' = [u \in Users |-> fresh[u] /\ d \notin found[u]]

(* _handle_device_claim: the empty code deletes; a code that another device
   has listed violates its unique constraint and is dropped. *)
Withdraw(d) ==
    /\ claim' = [claim EXCEPT ![d] = NoCode]
    /\ RowGone(d)

(* Mutant: the row is looked up but not created. *)
ListNothing(d, c) ==
    /\ \A e \in Devices \ {d} : claim[e] # c
    /\ UNCHANGED <<claim, fresh>>

List(d, c) ==
    /\ \A e \in Devices \ {d} : claim[e] # c
    /\ claim' = [claim EXCEPT ![d] = c]
    /\ UNCHANGED fresh

Collide(d, c) ==
    /\ \E e \in Devices \ {d} : claim[e] = c
    /\ UNCHANGED <<claim, fresh>>

HandleDeviceClaim(d) ==
    /\ connected[d] /\ sent[d] < Len(outbox[d])
    /\ sent' = [sent EXCEPT ![d] = @ + 1]
    /\ LET c == outbox[d][sent[d] + 1]
       IN  \/ c = NoCode /\ Withdraw(d)
           \/ c # NoCode /\ (List(d, c) \/ Collide(d, c))
           \/ "backend" \in faults /\ UNCHANGED <<claim, fresh>>
    /\ UNCHANGED <<deviceVars, connected, outbox, told, owner, offered, web, found>>

-----------------------------------------------------------------------------
(* IaqDeviceAddView.form_valid, the request of user u. *)

Respond(u) ==
    /\ web' = [web EXCEPT ![u] = "idle"]
    /\ found' = [found EXCEPT ![u] = {}]
    /\ fresh' = [fresh EXCEPT ![u] = FALSE]

FindClaim(u) ==
    /\ web[u] = "idle"
    /\ \E d \in Devices :
          /\ claim[d] # NoCode
          /\ found' = [found EXCEPT ![u] = {d}]
    /\ fresh' = [fresh EXCEPT ![u] = TRUE]
    /\ web' = [web EXCEPT ![u] = "found"]
    /\ UNCHANGED <<deviceVars, linkVars, dbVars, offered>>

(* Mutant: the Device row is updated or created. *)
TakeOver(u) ==
    \E d \in found[u] :
        /\ web[u] = "found"
        /\ owner' = [owner EXCEPT ![d] = u]
        /\ claim' = [claim EXCEPT ![d] = IF fresh[u] THEN NoCode ELSE @]
        /\ IF fresh[u] THEN RowGone(d) ELSE UNCHANGED fresh
        /\ web' = [web EXCEPT ![u] = "created"]
        /\ UNCHANGED <<deviceVars, linkVars, offered, found>>

(* The transaction: mac is unique, and delete() removes the row found, if it
   is still there. *)
CreateDevice(u) ==
    \E d \in found[u] :
        /\ web[u] = "found"
        /\ owner[d] = Nobody
        /\ owner' = [owner EXCEPT ![d] = u]
        /\ claim' = [claim EXCEPT ![d] = IF fresh[u] THEN NoCode ELSE @]
        /\ IF fresh[u] THEN RowGone(d) ELSE UNCHANGED fresh
        /\ web' = [web EXCEPT ![u] = "created"]
        /\ UNCHANGED <<deviceVars, linkVars, offered, found>>

(* Mutant: the claim is confirmed to the device before its row is created. *)
ConfirmAnyway(u) ==
    /\ web[u] = "found"
    /\ web' = [web EXCEPT ![u] = "created"]
    /\ UNCHANGED <<deviceVars, linkVars, dbVars, offered, found, fresh>>

AlreadyClaimed(u) ==
    /\ web[u] = "found"
    /\ \E d \in found[u] : owner[d] # Nobody
    /\ Respond(u)
    /\ UNCHANGED <<deviceVars, linkVars, dbVars, offered>>

(* Mutant: the claim status is never published. *)
ConfirmToNobody(u) ==
    /\ web[u] = "created"
    /\ Respond(u)
    /\ UNCHANGED <<deviceVars, linkVars, dbVars, offered>>

PublishStatus(u) ==
    \E d \in found[u] :
        /\ web[u] = "created"
        /\ Respond(u)
        /\ \/ told' = [told EXCEPT ![d] = @ \/ connected[d]]
           \/ "publish" \in faults /\ UNCHANGED told
        /\ UNCHANGED <<deviceVars, connected, outbox, sent, dbVars, offered>>

(* The admin site. *)
DeleteDevice(d) ==
    /\ "delete" \in faults
    /\ owner[d] # Nobody
    /\ owner' = [owner EXCEPT ![d] = Nobody]
    /\ UNCHANGED <<deviceVars, linkVars, claim, offered, webVars>>

-----------------------------------------------------------------------------
Device(d) ==
    \/ PressToShow(d)
    \/ SendClaimCode(d)
    \/ PressToHide(d)
    \/ SetClaimed(d)

Link(d) == Disconnect(d) \/ Reconnect(d) \/ Acknowledge(d) \/ Restart(d)

Web(u) ==
    \/ FindClaim(u)
    \/ CreateDevice(u)
    \/ AlreadyClaimed(u)
    \/ PublishStatus(u)

Step ==
    \/ \E d \in Active :
          Device(d) \/ Link(d) \/ HandleDeviceClaim(d) \/ DeleteDevice(d)
    \/ \E u \in Visitors : Web(u)

Next == Step /\ UNCHANGED faults

Spec == Init /\ [][Next]_vars

(* People press and submit when they like; tasks, the link and requests that
   have begun go on. *)
FairSpec ==
    /\ Spec
    /\ \A d \in Devices :
          /\ WF_state(SendClaimCode(d))
          /\ WF_state(SetClaimed(d))
          /\ WF_state(Reconnect(d) \/ Acknowledge(d) \/ HandleDeviceClaim(d))
    /\ \A u \in Users :
          WF_state(CreateDevice(u) \/ AlreadyClaimed(u) \/ PublishStatus(u))

-----------------------------------------------------------------------------
Registry == INSTANCE ClaimRegistry WITH revocable <- "delete" \in faults

(* A device is owned once, until an administrator deletes it, and only after
   its button was pressed (IaqDeviceAddView.form_valid and the unique mac,
   views.py:164-175). *)
ImplementsRegistry == Registry!Spec

(* A device that says it is registered is (setClaimed, claim_handler.cpp:38),
   as long as no administrator deletes it: nothing tells it of that. *)
ClaimedIsOwned ==
    "delete" \in faults \/ \A d \in Devices : claimed[d] => owner[d] # Nobody

(* Links hold, and nothing fails. *)
Ideal == faults \subseteq {"alone"}

(* With everything the device published handled, a device is listed only while
   it shows its code (claim_handler.hpp:16-17, "start/stop showing the claim
   code and notifying the server"). *)
ListedWhileShown ==
    Ideal => \A d \in Devices :
        sent[d] = Len(outbox[d]) /\ claim[d] # NoCode => showing[d]

(* A code that is shown gets listed, unless the device is taken or another
   device is listed with the code both have drawn. *)
ShownIsListed ==
    \A d \in Devices :
        Ideal /\ button[d] = "show" ~>
            \/ claim[d] = code[d]
            \/ owner[d] # Nobody
            \/ \E e \in Devices \ {d} : claim[e] = code[d]

(* A device that gets an owner learns of it. *)
OwnerIsTold ==
    \A d \in Devices :
        faults \cap {"offline", "restart", "publish"} = {} /\ owner[d] # Nobody ~> claimed[d]

=============================================================================
