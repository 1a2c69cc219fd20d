-------------------------- MODULE ClaimSystemProofs --------------------------
(***************************************************************************)
(* What Claiming.cfg checks of safety, proved for every set of devices,    *)
(* users and codes, length of the outbox and scenario: that the claim flow *)
(* implements the registry, that a device believes it is registered only   *)
(* if it is, and that with nothing failing a device is listed only while   *)
(* it shows its code.                                                      *)
(***************************************************************************)
EXTENDS ClaimSystem, TLAPS

CodesSent == Codes \cup {NoCode}

(* Whatever shows that a device was offered, its button was pressed: its code
   under way, its row in the list, or the one row a request has found. *)
OfferedFirst ==
    /\ \A d \in Devices : \A i \in 1..Len(outbox[d]) : outbox[d][i] # NoCode => d \in offered
    /\ \A d \in Devices : claim[d] # NoCode => d \in offered
    /\ \A u \in Users : found[u] \subseteq offered /\ \A d, e \in found[u] : d = e

(* Whatever tells a device that it is registered, it is: the status under way
   or stored, and the request that is to publish it. *)
OwnedFirst ==
    "delete" \notin faults =>
        /\ \A d \in Devices : told[d] \/ claimed[d] \/ flash[d].claimed => owner[d] # Nobody
        /\ \A u \in Users : web[u] = "created" => \A d \in found[u] : owner[d] # Nobody

(* With nothing failing, a device that has hidden its code has withdrawn it:
   nothing lists it any more, or the last message on its way is the empty code. *)
HiddenIsWithdrawn ==
    Ideal => \A d \in Devices :
        /\ connected[d]
        /\ ~showing[d] =>
              /\ button[d] = "idle"
              /\ sent[d] = Len(outbox[d]) => claim[d] = NoCode
              /\ sent[d] < Len(outbox[d]) => outbox[d][Len(outbox[d])] = NoCode

IInv == TypeOK /\ OfferedFirst /\ OwnedFirst /\ HiddenIsWithdrawn

-----------------------------------------------------------------------------
(* The types, in three parts. *)

DeviceTypeOK ==
    /\ code \in [Devices -> Codes]
    /\ claimed \in [Devices -> BOOLEAN]
    /\ flash \in [Devices -> [claimed : BOOLEAN, code : CodesSent]]
    /\ showing \in [Devices -> BOOLEAN]
    /\ button \in [Devices -> {"idle", "show"}]

LinkTypeOK ==
    /\ connected \in [Devices -> BOOLEAN]
    /\ outbox \in [Devices -> Seq(CodesSent)]
    /\ sent \in [Devices -> Nat]
    /\ \A d \in Devices : sent[d] <= Len(outbox[d]) /\ Len(outbox[d]) <= MaxOutbox
    /\ told \in [Devices -> BOOLEAN]

BackendTypeOK ==
    /\ claim \in [Devices -> CodesSent]
    /\ owner \in [Devices -> Users \cup {Nobody}]
    /\ offered \subseteq Devices
    /\ web \in [Users -> {"idle", "found", "created"}]
    /\ found \in [Users -> SUBSET Devices]
    /\ fresh \in [Users -> BOOLEAN]

TypeParts == faults \in Scenarios /\ DeviceTypeOK /\ LinkTypeOK /\ BackendTypeOK

LEMMA TypesInParts == (TypeOK <=> TypeParts) /\ (TypeOK' <=> TypeParts')
BY DEF TypeOK, TypeParts, DeviceTypeOK, LinkTypeOK, BackendTypeOK, CodesSent

(* Only devices and users take part. *)
LEMMA Participants == Active \subseteq Devices /\ Visitors \subseteq Users
BY DEF Active, Visitors, Any

(* What is published goes to the end of the outbox of a device that is
   connected, if it has room, and nowhere else. *)
LEMMA PublishEffect ==
    ASSUME ClaimConstants, TypeOK, NEW d \in Devices, NEW c \in CodesSent,
           HasRoom(d), PublishCode(d, c)
    PROVE  /\ outbox' \in [Devices -> Seq(CodesSent)]
           /\ \A e \in Devices : e # d => outbox'[e] = outbox[e]
           /\ ~connected[d] => outbox'[d] = outbox[d]
           /\ connected[d] =>
                 /\ Len(outbox'[d]) = Len(outbox[d]) + 1
                 /\ outbox'[d][Len(outbox[d]) + 1] = c
                 /\ \A i \in 1..Len(outbox[d]) : outbox'[d][i] = outbox[d][i]
           /\ Len(outbox'[d]) <= MaxOutbox /\ Len(outbox[d]) <= Len(outbox'[d])
<1>1. outbox \in [Devices -> Seq(CodesSent)] /\ Len(outbox[d]) \in Nat
  BY DEF TypeOK, CodesSent
<1>2. Len(outbox[d]) < MaxOutbox
  BY <1>1 DEF HasRoom, ClaimConstants
<1>3. CASE connected[d]
  <2>1. outbox' = [outbox EXCEPT ![d] = Append(outbox[d], c)]
    BY <1>3 DEF PublishCode
  <2>2. Append(outbox[d], c) \in Seq(CodesSent)
    BY <1>1
  <2>3. /\ Len(Append(outbox[d], c)) = Len(outbox[d]) + 1
        /\ Append(outbox[d], c)[Len(outbox[d]) + 1] = c
        /\ \A i \in 1..Len(outbox[d]) : Append(outbox[d], c)[i] = outbox[d][i]
    BY <1>1
  <2>4. outbox'[d] = Append(outbox[d], c) /\ \A e \in Devices : e # d => outbox'[e] = outbox[e]
    BY <1>1, <2>1
  <2>5. outbox' \in [Devices -> Seq(CodesSent)]
    BY <1>1, <2>1, <2>2
  <2> QED
    BY <1>1, <1>2, <1>3, <2>3, <2>4, <2>5, ClaimConstants DEF ClaimConstants
<1>4. CASE ~connected[d]
  BY <1>1, <1>2, <1>4, ClaimConstants DEF PublishCode, ClaimConstants
<1> QED
  BY <1>3, <1>4 DEF TypeOK

(* An acknowledgement takes the first of them off. *)
LEMMA AcknowledgeEffect ==
    ASSUME TypeOK, NEW d \in Devices, Acknowledge(d)
    PROVE  /\ outbox' \in [Devices -> Seq(CodesSent)]
           /\ \A e \in Devices : e # d => outbox'[e] = outbox[e] /\ sent'[e] = sent[e]
           /\ Len(outbox'[d]) = Len(outbox[d]) - 1
           /\ sent' \in [Devices -> Nat] /\ sent'[d] = sent[d] - 1
           /\ \A i \in 1..(Len(outbox[d]) - 1) : outbox'[d][i] = outbox[d][i + 1]
<1>1. outbox \in [Devices -> Seq(CodesSent)] /\ outbox[d] # <<>> /\ sent \in [Devices -> Nat]
      /\ sent[d] > 0
  <2>1. sent[d] > 0 /\ sent[d] <= Len(outbox[d]) /\ sent[d] \in Nat
    BY DEF TypeOK, Acknowledge
  <2> QED
    BY <2>1 DEF TypeOK, CodesSent
<1>2. outbox[d] \in Seq(CodesSent)
  BY <1>1
<1>3. /\ Tail(outbox[d]) \in Seq(CodesSent)
      /\ Len(Tail(outbox[d])) = Len(outbox[d]) - 1
      /\ \A i \in 1..(Len(outbox[d]) - 1) : Tail(outbox[d])[i] = outbox[d][i + 1]
  BY <1>1, <1>2
<1>4. outbox' = [outbox EXCEPT ![d] = Tail(outbox[d])] /\ sent' = [sent EXCEPT ![d] = sent[d] - 1]
  BY DEF Acknowledge
<1>5. outbox'[d] = Tail(outbox[d]) /\ outbox' \in [Devices -> Seq(CodesSent)]
      /\ \A e \in Devices : e # d => outbox'[e] = outbox[e]
  BY <1>1, <1>3, <1>4
<1>6. sent' \in [Devices -> Nat] /\ sent'[d] = sent[d] - 1
      /\ \A e \in Devices : e # d => sent'[e] = sent[e]
  BY <1>1, <1>4
<1> QED
  BY <1>3, <1>5, <1>6

-----------------------------------------------------------------------------
(* The steps of a device, of its link, of the list and of the web that leave
   the outbox, the list and the owners alone. *)

LEMMA InitIInv ==
    ASSUME ClaimConstants, Init
    PROVE  IInv
<1>1. DeviceTypeOK
  BY DEF Init, DeviceTypeOK, CodesSent
<1>2. /\ outbox \in [Devices -> Seq(CodesSent)] /\ sent \in [Devices -> Nat]
      /\ \A d \in Devices : Len(outbox[d]) = 0 /\ sent[d] = 0
  BY DEF Init
<1>3. LinkTypeOK
  BY <1>2 DEF Init, LinkTypeOK, ClaimConstants
<1>4. BackendTypeOK
  BY DEF Init, BackendTypeOK, CodesSent
<1>5. TypeOK
  BY <1>1, <1>3, <1>4, TypesInParts DEF Init, TypeParts
<1>6. OfferedFirst
  BY <1>2 DEF Init, OfferedFirst
<1>7. OwnedFirst
  BY DEF Init, OwnedFirst
<1>8. HiddenIsWithdrawn
  <2>1. \A d \in Devices : connected[d] /\ button[d] = "idle" /\ claim[d] = NoCode
    BY DEF Init
  <2>2. ASSUME NEW d \in Devices
        PROVE  ~(sent[d] < Len(outbox[d]))
    <3>1. sent[d] = 0 /\ Len(outbox[d]) = 0 /\ ~(0 < 0)
      BY <1>2
    <3> QED
      BY <3>1
  <2> QED
    BY <2>1, <2>2 DEF HiddenIsWithdrawn
<1> QED
  BY <1>5, <1>6, <1>7, <1>8 DEF IInv

LEMMA PressToShowKeeps ==
    ASSUME IInv, NEW d \in Devices, PressToShow(d), UNCHANGED faults
    PROVE  IInv'
BY DEF IInv, TypeOK, OfferedFirst, OwnedFirst, HiddenIsWithdrawn, Ideal, PressToShow, linkVars,
       dbVars, webVars

LEMMA SendClaimCodeKeeps ==
    ASSUME ClaimConstants, IInv, NEW d \in Devices, SendClaimCode(d), UNCHANGED faults
    PROVE  IInv'
<1>1. code[d] \in CodesSent /\ HasRoom(d) /\ PublishCode(d, code[d])
  BY DEF SendClaimCode, IInv, TypeOK, CodesSent
<1>2. /\ outbox' \in [Devices -> Seq(CodesSent)]
      /\ \A e \in Devices : e # d => outbox'[e] = outbox[e]
      /\ ~connected[d] => outbox'[d] = outbox[d]
      /\ connected[d] =>
            /\ Len(outbox'[d]) = Len(outbox[d]) + 1
            /\ outbox'[d][Len(outbox[d]) + 1] = code[d]
            /\ \A i \in 1..Len(outbox[d]) : outbox'[d][i] = outbox[d][i]
      /\ Len(outbox'[d]) <= MaxOutbox /\ Len(outbox[d]) <= Len(outbox'[d])
  BY <1>1, PublishEffect DEF IInv
<1>3. TypeOK'
  <2>1. DeviceTypeOK' /\ BackendTypeOK'
    BY TypesInParts DEF IInv, TypeParts, DeviceTypeOK, BackendTypeOK, SendClaimCode, dbVars, webVars
  <2>2. \A e \in Devices : sent[e] <= Len(outbox'[e]) /\ Len(outbox'[e]) <= MaxOutbox
    <3>1. sent[d] <= Len(outbox'[d])
      <4>1. {sent[d], Len(outbox[d]), Len(outbox'[d])} \subseteq Nat /\ sent[d] <= Len(outbox[d])
        BY <1>2 DEF IInv, TypeOK
      <4> QED
        BY <1>2, <4>1
    <3> QED
      BY <1>2, <3>1 DEF IInv, TypeOK
  <2>3. LinkTypeOK'
    BY <1>2, <2>2, TypesInParts DEF IInv, TypeParts, LinkTypeOK, SendClaimCode
  <2> QED
    BY <2>1, <2>3, TypesInParts DEF IInv, TypeOK, TypeParts
<1>4. OfferedFirst'
  BY <1>2 DEF IInv, TypeOK, OfferedFirst, SendClaimCode, dbVars, webVars
<1>5. OwnedFirst'
  BY DEF IInv, OwnedFirst, SendClaimCode, dbVars, webVars
<1>6. HiddenIsWithdrawn'
  BY <1>2 DEF IInv, TypeOK, HiddenIsWithdrawn, Ideal, SendClaimCode, dbVars, webVars
<1> QED
  BY <1>3, <1>4, <1>5, <1>6 DEF IInv

LEMMA PressToHideKeeps ==
    ASSUME ClaimConstants, IInv, NEW d \in Devices, PressToHide(d), UNCHANGED faults
    PROVE  IInv'
<1>1. NoCode \in CodesSent /\ HasRoom(d) /\ PublishCode(d, NoCode)
  BY DEF PressToHide, CodesSent
<1>2. /\ outbox' \in [Devices -> Seq(CodesSent)]
      /\ \A e \in Devices : e # d => outbox'[e] = outbox[e]
      /\ ~connected[d] => outbox'[d] = outbox[d]
      /\ connected[d] =>
            /\ Len(outbox'[d]) = Len(outbox[d]) + 1
            /\ outbox'[d][Len(outbox[d]) + 1] = NoCode
            /\ \A i \in 1..Len(outbox[d]) : outbox'[d][i] = outbox[d][i]
      /\ Len(outbox'[d]) <= MaxOutbox /\ Len(outbox[d]) <= Len(outbox'[d])
  BY <1>1, PublishEffect DEF IInv
<1>3. TypeOK'
  <2>1. DeviceTypeOK' /\ BackendTypeOK'
    BY TypesInParts DEF IInv, TypeParts, DeviceTypeOK, BackendTypeOK, PressToHide, dbVars, webVars
  <2>2. \A e \in Devices : sent[e] <= Len(outbox'[e]) /\ Len(outbox'[e]) <= MaxOutbox
    <3>1. sent[d] <= Len(outbox'[d])
      <4>1. {sent[d], Len(outbox[d]), Len(outbox'[d])} \subseteq Nat /\ sent[d] <= Len(outbox[d])
        BY <1>2 DEF IInv, TypeOK
      <4> QED
        BY <1>2, <4>1
    <3> QED
      BY <1>2, <3>1 DEF IInv, TypeOK
  <2>3. LinkTypeOK'
    BY <1>2, <2>2, TypesInParts DEF IInv, TypeParts, LinkTypeOK, PressToHide
  <2> QED
    BY <2>1, <2>3, TypesInParts DEF IInv, TypeOK, TypeParts
<1>4. OfferedFirst'
  <2>1. \A i \in 1..Len(outbox'[d]) : outbox'[d][i] # NoCode => d \in offered
    BY <1>2 DEF IInv, TypeOK, OfferedFirst
  <2> QED
    BY <1>2, <2>1 DEF IInv, OfferedFirst, PressToHide, dbVars, webVars
<1>5. OwnedFirst'
  BY DEF IInv, OwnedFirst, PressToHide, dbVars, webVars
<1>6. HiddenIsWithdrawn'
  BY <1>2 DEF IInv, TypeOK, HiddenIsWithdrawn, Ideal, PressToHide, dbVars, webVars
<1> QED
  BY <1>3, <1>4, <1>5, <1>6 DEF IInv

LEMMA SetClaimedKeeps ==
    ASSUME IInv, NEW d \in Devices, SetClaimed(d), UNCHANGED faults
    PROVE  IInv'
<1>1. TypeOK'
  <2>1. flash' \in [Devices -> [claimed : BOOLEAN, code : CodesSent]]
    <3>1. flash \in [Devices -> [claimed : BOOLEAN, code : CodesSent]]
      BY DEF IInv, TypeOK, CodesSent
    <3>2. [flash[d] EXCEPT !.claimed = TRUE] \in [claimed : BOOLEAN, code : CodesSent]
      BY <3>1
    <3>3. \/ UNCHANGED flash
          \/ flash' = [flash EXCEPT ![d] = [flash[d] EXCEPT !.claimed = TRUE]]
      BY DEF SetClaimed
    <3> QED
      BY <3>1, <3>2, <3>3
  <2>2. DeviceTypeOK'
    BY <2>1, TypesInParts DEF IInv, TypeParts, DeviceTypeOK, SetClaimed
  <2>3. LinkTypeOK' /\ BackendTypeOK'
    BY TypesInParts DEF IInv, TypeParts, LinkTypeOK, BackendTypeOK, SetClaimed, dbVars, webVars
  <2> QED
    BY <2>2, <2>3, TypesInParts DEF IInv, TypeOK, TypeParts
<1>2. OfferedFirst' /\ OwnedFirst' /\ HiddenIsWithdrawn'
  BY DEF IInv, TypeOK, OfferedFirst, OwnedFirst, HiddenIsWithdrawn, Ideal, SetClaimed, dbVars,
         webVars
<1> QED
  BY <1>1, <1>2 DEF IInv

-----------------------------------------------------------------------------
LEMMA DisconnectKeeps ==
    ASSUME IInv, NEW d \in Devices, Disconnect(d), UNCHANGED faults
    PROVE  IInv'
BY DEF IInv, TypeOK, OfferedFirst, OwnedFirst, HiddenIsWithdrawn, Ideal, Disconnect, deviceVars,
       dbVars, webVars

LEMMA ReconnectKeeps ==
    ASSUME IInv, NEW d \in Devices, Reconnect(d), UNCHANGED faults
    PROVE  IInv'
<1>1. TypeOK'
  BY DEF IInv, TypeOK, Reconnect, deviceVars, dbVars, webVars
<1>2. OfferedFirst' /\ OwnedFirst' /\ HiddenIsWithdrawn'
  BY DEF IInv, TypeOK, OfferedFirst, OwnedFirst, HiddenIsWithdrawn, Ideal, Reconnect, deviceVars,
         dbVars, webVars
<1> QED
  BY <1>1, <1>2 DEF IInv

LEMMA AcknowledgeKeeps ==
    ASSUME IInv, NEW d \in Devices, Acknowledge(d), UNCHANGED faults
    PROVE  IInv'
<1>1. /\ outbox' \in [Devices -> Seq(CodesSent)]
      /\ \A e \in Devices : e # d => outbox'[e] = outbox[e] /\ sent'[e] = sent[e]
      /\ Len(outbox'[d]) = Len(outbox[d]) - 1
      /\ sent' \in [Devices -> Nat] /\ sent'[d] = sent[d] - 1
      /\ \A i \in 1..(Len(outbox[d]) - 1) : outbox'[d][i] = outbox[d][i + 1]
  BY AcknowledgeEffect DEF IInv
<1>2. /\ sent[d] \in Nat /\ Len(outbox[d]) \in Nat /\ Len(outbox'[d]) \in Nat
      /\ sent[d] <= Len(outbox[d]) /\ Len(outbox[d]) <= MaxOutbox /\ sent[d] > 0
  BY <1>1 DEF IInv, TypeOK, Acknowledge
<1>3. TypeOK'
  <2>1. sent'[d] <= Len(outbox'[d]) /\ Len(outbox'[d]) <= MaxOutbox
    BY <1>1, <1>2, ClaimConstants DEF ClaimConstants
  <2>2. \A e \in Devices : sent'[e] <= Len(outbox'[e]) /\ Len(outbox'[e]) <= MaxOutbox
    BY <1>1, <2>1 DEF IInv, TypeOK
  <2> QED
    BY <1>1, <2>2 DEF IInv, TypeOK, Acknowledge, CodesSent, deviceVars, dbVars, webVars
<1>4. OfferedFirst'
  <2>1. \A i \in 1..Len(outbox'[d]) : outbox'[d][i] # NoCode => d \in offered
    BY <1>1, <1>2 DEF IInv, OfferedFirst
  <2> QED
    BY <1>1, <2>1 DEF IInv, OfferedFirst, Acknowledge, dbVars, webVars
<1>5. OwnedFirst'
  BY DEF IInv, OwnedFirst, Acknowledge, deviceVars, dbVars, webVars
<1>6. HiddenIsWithdrawn'
  <2>1. ASSUME sent'[d] < Len(outbox'[d])
        PROVE  outbox'[d][Len(outbox'[d])] = outbox[d][Len(outbox[d])]
    <3>1. sent'[d] \in Nat
      BY <1>1
    <3>2. Len(outbox[d]) - 1 \in 1..(Len(outbox[d]) - 1)
      BY <1>1, <1>2, <2>1, <3>1
    <3>3. outbox'[d][Len(outbox[d]) - 1] = outbox[d][(Len(outbox[d]) - 1) + 1]
      BY <1>1, <3>2
    <3> QED
      BY <1>1, <1>2, <3>3
  <2>2. sent'[d] = Len(outbox'[d]) => sent[d] = Len(outbox[d])
    BY <1>1, <1>2
  <2>3. sent'[d] < Len(outbox'[d]) => sent[d] < Len(outbox[d])
    BY <1>1, <1>2
  <2> QED
    BY <1>1, <2>1, <2>2, <2>3
       DEF IInv, HiddenIsWithdrawn, Ideal, Acknowledge, deviceVars, dbVars, webVars
<1> QED
  BY <1>3, <1>4, <1>5, <1>6 DEF IInv

LEMMA RestartKeeps ==
    ASSUME ClaimConstants, IInv, NEW d \in Devices, Restart(d), UNCHANGED faults
    PROVE  IInv'
<1>1. PICK c \in LoadOrDrawCode(d) :
        /\ code' = [code EXCEPT ![d] = c]
        /\ \/ flash' = [flash EXCEPT ![d].code = c]
           \/ "flash" \in faults /\ UNCHANGED flash
  BY DEF Restart
<1>2. c \in Codes
  BY <1>1 DEF IInv, TypeOK, LoadOrDrawCode
<1>3. /\ flash' \in [Devices -> [claimed : BOOLEAN, code : CodesSent]]
      /\ \A e \in Devices : flash'[e].claimed = flash[e].claimed
  <2>1. flash \in [Devices -> [claimed : BOOLEAN, code : CodesSent]]
    BY DEF IInv, TypeOK, CodesSent
  <2>2. CASE UNCHANGED flash
    BY <2>1, <2>2
  <2>3. CASE flash' = [flash EXCEPT ![d].code = c]
    <3>1. c \in CodesSent /\ flash[d] \in [claimed : BOOLEAN, code : CodesSent]
      BY <1>2, <2>1 DEF CodesSent
    <3>2. [flash[d] EXCEPT !.code = c] \in [claimed : BOOLEAN, code : CodesSent]
          /\ [flash[d] EXCEPT !.code = c].claimed = flash[d].claimed
      BY <3>1
    <3>3. flash' = [flash EXCEPT ![d] = [flash[d] EXCEPT !.code = c]]
      BY <2>3
    <3> QED
      BY <2>1, <3>2, <3>3
  <2> QED
    BY <1>1, <2>2, <2>3
<1>4. code' \in [Devices -> Codes] /\ claimed' \in [Devices -> BOOLEAN]
  BY <1>1, <1>2 DEF IInv, TypeOK, Restart
<1>5. /\ outbox' \in [Devices -> Seq(CodesSent)] /\ sent' \in [Devices -> Nat]
      /\ \A e \in Devices : e # d => outbox'[e] = outbox[e] /\ sent'[e] = sent[e]
      /\ outbox'[d] = <<>> /\ Len(outbox'[d]) = 0 /\ sent'[d] = 0
  BY DEF IInv, TypeOK, Restart, CodesSent
<1>6. TypeOK'
  <2>1. \A e \in Devices : sent'[e] <= Len(outbox'[e]) /\ Len(outbox'[e]) <= MaxOutbox
    <3>1. 0 <= MaxOutbox
      BY ClaimConstants DEF ClaimConstants
    <3>2. sent'[d] <= Len(outbox'[d]) /\ Len(outbox'[d]) <= MaxOutbox
      BY <1>5, <3>1
    <3>3. \A e \in Devices : e # d => sent'[e] = sent[e] /\ Len(outbox'[e]) = Len(outbox[e])
      BY <1>5
    <3>4. \A e \in Devices : sent[e] <= Len(outbox[e]) /\ Len(outbox[e]) <= MaxOutbox
      BY DEF IInv, TypeOK
    <3> QED
      BY <3>2, <3>3, <3>4
  <2> QED
    BY <1>3, <1>4, <1>5, <2>1 DEF IInv, TypeOK, Restart, CodesSent, dbVars, webVars
<1>7. OfferedFirst'
  BY <1>5 DEF IInv, OfferedFirst, Restart, dbVars, webVars
<1>8. OwnedFirst'
  BY <1>3 DEF IInv, TypeOK, OwnedFirst, Restart, dbVars, webVars
<1>9. HiddenIsWithdrawn'
  BY DEF HiddenIsWithdrawn, Ideal, Restart
<1> QED
  BY <1>6, <1>7, <1>8, <1>9 DEF IInv

-----------------------------------------------------------------------------
(* The code a device has published is that of an offered one, so its row is
   too; the empty code withdraws it. *)
LEMMA HandleDeviceClaimKeeps ==
    ASSUME IInv, NEW d \in Devices, HandleDeviceClaim(d), UNCHANGED faults
    PROVE  IInv'
<1> DEFINE c == outbox[d][sent[d] + 1]
<1>1. /\ {sent[d], Len(outbox[d])} \subseteq Nat /\ sent[d] < Len(outbox[d])
      /\ sent[d] + 1 \in 1..Len(outbox[d])
  BY DEF HandleDeviceClaim, IInv, TypeOK
<1>2. c \in CodesSent /\ (c # NoCode => d \in offered)
  BY <1>1 DEF IInv, TypeOK, OfferedFirst, CodesSent
<1>3. \/ c = NoCode /\ Withdraw(d)
      \/ c # NoCode /\ List(d, c)
      \/ UNCHANGED <<claim, fresh>> /\ ("backend" \in faults \/ c # NoCode)
  BY DEF HandleDeviceClaim, Collide
<1>4. /\ claim' \in [Devices -> CodesSent] /\ fresh' \in [Users -> BOOLEAN]
      /\ \A e \in Devices : claim'[e] # NoCode => claim[e] # NoCode \/ e \in offered
      /\ c = NoCode => claim'[d] = NoCode \/ "backend" \in faults
      /\ \A e \in Devices : e # d => claim'[e] = claim[e]
  <2>1. CASE c = NoCode /\ Withdraw(d)
    BY <2>1 DEF IInv, TypeOK, Withdraw, RowGone, CodesSent
  <2>2. CASE c # NoCode /\ List(d, c)
    BY <1>2, <2>2 DEF IInv, TypeOK, List, CodesSent
  <2>3. CASE UNCHANGED <<claim, fresh>> /\ ("backend" \in faults \/ c # NoCode)
    BY <2>3 DEF IInv, TypeOK, CodesSent
  <2> QED
    BY <1>3, <2>1, <2>2, <2>3
<1>5. /\ sent' \in [Devices -> Nat] /\ sent'[d] = sent[d] + 1
      /\ \A e \in Devices : e # d => sent'[e] = sent[e]
  BY DEF IInv, TypeOK, HandleDeviceClaim
<1>6. TypeOK'
  <2>1. DeviceTypeOK' /\ BackendTypeOK'
    BY <1>4, TypesInParts
       DEF IInv, TypeParts, DeviceTypeOK, BackendTypeOK, HandleDeviceClaim, deviceVars
  <2>2. sent'[d] <= Len(outbox[d])
    BY <1>1, <1>5
  <2>3. LinkTypeOK'
    BY <1>5, <2>2, TypesInParts DEF IInv, TypeParts, LinkTypeOK, HandleDeviceClaim
  <2> QED
    BY <2>1, <2>3, TypesInParts DEF IInv, TypeOK, TypeParts
<1>7. OfferedFirst'
  BY <1>4 DEF IInv, OfferedFirst, HandleDeviceClaim
<1>8. OwnedFirst'
  BY DEF IInv, OwnedFirst, HandleDeviceClaim, deviceVars
<1>9. HiddenIsWithdrawn'
  <2>1. sent'[d] = Len(outbox[d]) => c = outbox[d][Len(outbox[d])]
    BY <1>1, <1>5
  <2>2. sent'[d] < Len(outbox[d]) => sent[d] < Len(outbox[d])
    BY <1>1
  <2> QED
    BY <1>1, <1>4, <1>5, <2>1, <2>2
       DEF IInv, HiddenIsWithdrawn, Ideal, HandleDeviceClaim, deviceVars
<1> QED
  BY <1>6, <1>7, <1>8, <1>9 DEF IInv

-----------------------------------------------------------------------------
LEMMA FindClaimKeeps ==
    ASSUME IInv, NEW u \in Users, FindClaim(u), UNCHANGED faults
    PROVE  IInv'
<1>1. TypeOK'
  BY DEF IInv, TypeOK, FindClaim, deviceVars, linkVars, dbVars
<1>2. OfferedFirst' /\ OwnedFirst'
  BY DEF IInv, TypeOK, OfferedFirst, OwnedFirst, FindClaim, deviceVars, linkVars, dbVars
<1>3. HiddenIsWithdrawn'
  BY DEF IInv, HiddenIsWithdrawn, Ideal, FindClaim, deviceVars, linkVars, dbVars
<1> QED
  BY <1>1, <1>2, <1>3 DEF IInv

(* The row it found may be gone, but the device was offered. *)
LEMMA CreateDeviceKeeps ==
    ASSUME ClaimConstants, IInv, NEW u \in Users, CreateDevice(u), UNCHANGED faults
    PROVE  IInv'
<1>1. PICK d \in found[u] :
        /\ owner[d] = Nobody
        /\ owner' = [owner EXCEPT ![d] = u]
        /\ claim' = [claim EXCEPT ![d] = IF fresh[u] THEN NoCode ELSE claim[d]]
        /\ IF fresh[u] THEN RowGone(d) ELSE UNCHANGED fresh
  BY DEF CreateDevice
<1>2. d \in Devices /\ u # Nobody
  BY DEF IInv, TypeOK, ClaimConstants
<1>3. /\ claim' \in [Devices -> CodesSent] /\ fresh' \in [Users -> BOOLEAN]
      /\ \A e \in Devices : claim'[e] \in {claim[e], NoCode}
      /\ owner' \in [Devices -> Users \cup {Nobody}]
      /\ owner'[d] = u /\ \A e \in Devices : e # d => owner'[e] = owner[e]
  <2>1. claim' \in [Devices -> CodesSent] /\ \A e \in Devices : claim'[e] \in {claim[e], NoCode}
    BY <1>1, <1>2 DEF IInv, TypeOK, CodesSent
  <2>2. fresh' \in [Users -> BOOLEAN]
    <3>1. CASE fresh[u]
      <4>1. fresh' = [v \in Users |-> fresh[v] /\ d \notin found[v]]
        BY <1>1, <3>1 DEF RowGone
      <4> QED
        BY <4>1
    <3>2. CASE ~fresh[u]
      BY <1>1, <3>2 DEF IInv, TypeOK
    <3> QED
      BY <3>1, <3>2
  <2>3. /\ owner' \in [Devices -> Users \cup {Nobody}]
        /\ owner'[d] = u /\ \A e \in Devices : e # d => owner'[e] = owner[e]
    BY <1>1, <1>2 DEF IInv, TypeOK
  <2> QED
    BY <2>1, <2>2, <2>3
<1>4. web' = [web EXCEPT ![u] = "created"] /\ UNCHANGED <<deviceVars, linkVars, offered, found>>
  BY DEF CreateDevice
<1>5. TypeOK'
  BY <1>3, <1>4 DEF IInv, TypeOK, CodesSent, deviceVars, linkVars
<1>6. OfferedFirst'
  BY <1>3, <1>4 DEF IInv, OfferedFirst, linkVars
<1>7. OwnedFirst'
  <2>1. \A e \in Devices : owner[e] # Nobody => owner'[e] # Nobody
    BY <1>1, <1>2, <1>3
  <2>2. \A e \in found[u] : owner'[e] # Nobody
    BY <1>2, <1>3 DEF IInv, OfferedFirst
  <2>3. \A v \in Users : v # u => web'[v] = web[v]
    BY <1>4 DEF IInv, TypeOK
  <2>4. \A v \in Users : found[v] \subseteq Devices
    BY DEF IInv, TypeOK
  <2> QED
    BY <1>4, <2>1, <2>2, <2>3, <2>4 DEF IInv, OwnedFirst, deviceVars, linkVars
<1>8. HiddenIsWithdrawn'
  BY <1>3, <1>4 DEF IInv, HiddenIsWithdrawn, Ideal, deviceVars, linkVars
<1> QED
  BY <1>5, <1>6, <1>7, <1>8 DEF IInv

LEMMA RespondKeeps ==
    ASSUME IInv, NEW u \in Users, AlreadyClaimed(u) \/ PublishStatus(u), UNCHANGED faults
    PROVE  IInv'
<1>1. /\ Respond(u)
      /\ UNCHANGED <<deviceVars, connected, outbox, sent, dbVars, offered>>
      /\ \/ UNCHANGED told
         \/ /\ web[u] = "created"
            /\ \E d \in found[u] : told' = [told EXCEPT ![d] = told[d] \/ connected[d]]
  BY DEF AlreadyClaimed, PublishStatus, linkVars
<1>2. /\ told' \in [Devices -> BOOLEAN]
      /\ \A d \in Devices : told'[d] => told[d] \/ (web[u] = "created" /\ d \in found[u])
  BY <1>1 DEF IInv, TypeOK
<1>3. TypeOK'
  BY <1>1, <1>2 DEF IInv, TypeOK, Respond, deviceVars, dbVars
<1>4. OfferedFirst'
  BY <1>1 DEF IInv, TypeOK, OfferedFirst, Respond, dbVars
<1>5. OwnedFirst'
  BY <1>1, <1>2 DEF IInv, TypeOK, OwnedFirst, Respond, deviceVars, dbVars
<1>6. HiddenIsWithdrawn'
  BY <1>1 DEF IInv, HiddenIsWithdrawn, Ideal, deviceVars, dbVars
<1> QED
  BY <1>3, <1>4, <1>5, <1>6 DEF IInv

LEMMA DeleteDeviceKeeps ==
    ASSUME IInv, NEW d \in Devices, DeleteDevice(d), UNCHANGED faults
    PROVE  IInv'
<1>1. TypeOK'
  BY DEF IInv, TypeOK, DeleteDevice, deviceVars, linkVars, webVars
<1>2. OfferedFirst' /\ OwnedFirst' /\ HiddenIsWithdrawn'
  BY DEF IInv, OfferedFirst, OwnedFirst, HiddenIsWithdrawn, Ideal, DeleteDevice, deviceVars,
         linkVars, webVars
<1> QED
  BY <1>1, <1>2 DEF IInv

-----------------------------------------------------------------------------
LEMMA NextIInv ==
    ASSUME ClaimConstants, IInv, Next
    PROVE  IInv'
<1>0. UNCHANGED faults
  BY DEF Next
<1>1. ASSUME NEW d \in Active, Device(d) \/ Link(d) \/ HandleDeviceClaim(d) \/ DeleteDevice(d)
      PROVE  IInv'
  <2>1. d \in Devices
    BY Participants
  <2>2. CASE Device(d)
    BY <1>0, <2>1, <2>2, PressToShowKeeps, SendClaimCodeKeeps, PressToHideKeeps, SetClaimedKeeps
       DEF Device
  <2>3. CASE Link(d)
    BY <1>0, <2>1, <2>3, DisconnectKeeps, ReconnectKeeps, AcknowledgeKeeps, RestartKeeps DEF Link
  <2> QED
    BY <1>0, <1>1, <2>1, <2>2, <2>3, HandleDeviceClaimKeeps, DeleteDeviceKeeps
<1>2. ASSUME NEW u \in Visitors, Web(u)
      PROVE  IInv'
  <2>1. u \in Users
    BY Participants
  <2> QED
    BY <1>0, <1>2, <2>1, FindClaimKeeps, CreateDeviceKeeps, RespondKeeps DEF Web
<1> QED
  BY <1>1, <1>2 DEF Next, Step

LEMMA StutterIInv ==
    ASSUME IInv, UNCHANGED vars
    PROVE  IInv'
BY DEF IInv, TypeOK, OfferedFirst, OwnedFirst, HiddenIsWithdrawn, Ideal, vars, state, deviceVars,
       linkVars, dbVars, webVars

LEMMA Invariance == Spec => []IInv
BY InitIInv, NextIInv, StutterIInv, ClaimConstants, PTL DEF Spec

-----------------------------------------------------------------------------
(* The types are kept, and with them the bound on what a device publishes. *)
THEOREM TypesKept == Spec => []TypeOK
<1>1. IInv => TypeOK
  BY DEF IInv
<1> QED
  BY <1>1, Invariance, PTL

(* A device says it is registered only when it has an owner, whatever link,
   flash, process or publish failed in between, as long as nobody deletes it. *)
THEOREM RegisteredIsOwned == Spec => []ClaimedIsOwned
<1>1. IInv => ClaimedIsOwned
  BY DEF IInv, OwnedFirst, ClaimedIsOwned
<1> QED
  BY <1>1, Invariance, PTL

(* With nothing failing, and all that it published handled, a device is listed
   only while it shows its code. *)
THEOREM ListedIsShown == Spec => []ListedWhileShown
<1>1. IInv => ListedWhileShown
  BY DEF IInv, HiddenIsWithdrawn, ListedWhileShown
<1> QED
  BY <1>1, Invariance, PTL

-----------------------------------------------------------------------------
(* The refinement: sending a code offers the device, creating its row takes it,
   the administrator revokes it, and no other step is seen. *)

LEMMA InitImplements ==
    ASSUME Init
    PROVE  Registry!Init
BY DEF Init, Registry!Init

LEMMA StepImplements ==
    ASSUME IInv, Next
    PROVE  [Registry!Next]_<<owner, offered, "delete" \in faults>>
<1>0. UNCHANGED faults
  BY DEF Next
<1>1. ASSUME NEW d \in Active, Device(d) \/ Link(d) \/ HandleDeviceClaim(d)
      PROVE  \/ UNCHANGED <<owner, offered>>
             \/ Registry!Offer(d)
  BY <1>1 DEF Device, PressToShow, SendClaimCode, PressToHide, SetClaimed, Link, Disconnect,
     Reconnect, Acknowledge, Restart, HandleDeviceClaim, dbVars, Registry!Offer
<1>2. ASSUME NEW d \in Active, DeleteDevice(d)
      PROVE  Registry!Revoke(d)
  BY <1>2 DEF DeleteDevice, Registry!Revoke
<1>3. ASSUME NEW u \in Visitors, Web(u)
      PROVE  \/ UNCHANGED <<owner, offered>>
             \/ \E d \in Devices : Registry!Take(d, u)
  <2>1. u \in Users
    BY Participants
  <2>2. CASE CreateDevice(u)
    BY <2>1, <2>2 DEF IInv, TypeOK, OfferedFirst, CreateDevice, Registry!Take
  <2> QED
    BY <1>3, <2>2 DEF Web, FindClaim, AlreadyClaimed, PublishStatus, dbVars
<1> QED
  BY <1>0, <1>1, <1>2, <1>3, Participants DEF Next, Step, Registry!Next

(* The claim flow implements the registry: whatever fails and however requests
   race, a device gets one owner, once, and only after its button was pressed. *)
THEOREM FlowImplementsRegistry == Spec => ImplementsRegistry
<1>1. UNCHANGED vars => UNCHANGED <<owner, offered, "delete" \in faults>>
  BY DEF vars, state, dbVars
<1> QED
  BY <1>1, InitImplements, StepImplements, Invariance, PTL
     DEF Spec, ImplementsRegistry, Registry!Spec
=============================================================================
