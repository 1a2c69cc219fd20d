-------------------------- MODULE ProvisioningProofs -------------------------
(***************************************************************************)
(* What Provisioning.cfg checks of safety, proved for every set of         *)
(* networks, length of the two queues and scenario.  The invariant is      *)
(* built in layers.  What the stack and the host task do agrees whatever   *)
(* the Wi-Fi task does; a patient Wi-Fi task adds that a start finds the   *)
(* stack at rest, so that one place in its queue is enough; a steady peer  *)
(* adds that nothing is saved while it is read; and without failed writes  *)
(* and restarts the pair in flash is torn only during a save.              *)
(***************************************************************************)
EXTENDS Provisioning, TLAPS

Stopping == {"count", "pend", "drop", "deinit"}

(* Advertising ends before peers are counted, and a deferral is one of a stack
   that is up. *)
StackAgrees ==
    /\ pc \in Stopping => running /\ ~advertising
    /\ pc = "deinit" => peer # "connected"
    /\ pc = "started" => ~running
    /\ ~running /\ pc = "receive" => ~advertising /\ peer = "none"
    /\ stopPending => running /\ ~advertising

(* The host task saves for the peer that is there, once it has both fields. *)
SaverAgrees ==
    /\ saver # "idle" => peer = "connected" /\ received = Fields
    /\ \A f \in received : buffer[f] # Empty

(* The Wi-Fi task wants the stack exactly in set-up. *)
WifiAgrees ==
    /\ wanted <=> wifi = "setup"
    /\ ssidRead # {} => wifi \in {"booting", "setup"}
    /\ wifi = "booting" =>
          queue = <<>> /\ pc = "receive" /\ ~running /\ updates = 0 /\ written = {}

(* One request at a time; a stop that was put off waits for its peer, except
   where that peer has left unnoticed. *)
RequestsAgree ==
    /\ queue \in {<<>>, <<"Start">>, <<"Stop">>}
    /\ queue = <<"Start">> =>
          /\ wanted /\ pc = "receive" /\ peer = "none" /\ ~advertising
          /\ written = {} /\ updates = 0 /\ ssidRead = {}
    /\ queue = <<"Stop">> => ~wanted /\ pc \in {"receive", "started", "drop"}
    /\ wanted => pc \in {"receive", "started"}
    /\ ~wanted /\ queue = <<>> => ~advertising
    /\ stopPending /\ (wanted \/ queue = <<"Stop">> \/ pc \in {"count", "pend", "deinit"})
          => peer = "none"

(* Flags of an earlier session are those of a stack nobody can reach. *)
FlagsAgree ==
    \/ received \subseteq written
    \/ peer = "none" /\ ~advertising /\ pc # "started"

(* An update in set-up comes after the session's one save. *)
SteadyAgrees ==
    /\ \A f \in written : buffer[f] = meant
    /\ wifi = "setup" /\ (updates > 0 \/ ssidRead # {}) => written = Fields /\ saver = "idle"
    /\ ~wanted /\ written # Fields => peer = "none" /\ ~advertising
    /\ ssidRead \subseteq {flash["ssid"]}
    /\ wifi \in {"offline", "online"} => loaded = flash /\ saver = "idle"

FlashAgrees ==
    /\ saver # "password" => ~Torn(flash)
    /\ saver = "password" => flash["ssid"] = meant

IInv ==
    /\ ProvisioningTypeOK
    /\ StackAgrees /\ SaverAgrees /\ WifiAgrees
    /\ Patient => RequestsAgree /\ FlagsAgree
    /\ Patient /\ Without({"rewrite"}) => SteadyAgrees
    /\ Patient /\ Without({"rewrite", "write", "restart"}) => FlashAgrees

-----------------------------------------------------------------------------
(* What a request adds to the queue, and what the task takes from it. *)

LEMMA SendTyped ==
    ASSUME BleConstants, TypeOK, NEW a \in {"Start", "Stop"}, Send(a)
    PROVE  /\ queue' \in Seq({"Start", "Stop"}) /\ Len(queue') <= ActionQueueLength
           /\ queue = <<>> => queue' = <<a>>
<1>1. CASE Len(queue) < ActionQueueLength
  <2>1. queue' = Append(queue, a)
    BY <1>1 DEF Send
  <2>2. queue' \in Seq({"Start", "Stop"}) /\ Len(queue') = Len(queue) + 1
    BY <2>1 DEF TypeOK
  <2>3. queue = <<>> => queue' = <<a>>
    BY <2>1
  <2> QED
    BY <1>1, <2>2, <2>3 DEF TypeOK, BleConstants
<1>2. CASE ~(Len(queue) < ActionQueueLength)
  <2>1. queue' = queue /\ queue # <<>>
    BY <1>2 DEF Send, TypeOK, BleConstants
  <2> QED
    BY <2>1 DEF TypeOK
<1> QED
  BY <1>1, <1>2

LEMMA ReceiveTyped ==
    ASSUME BleConstants, TypeOK, NEW a \in {"Start", "Stop"}, Receive(a)
    PROVE  /\ queue' \in Seq({"Start", "Stop"}) /\ Len(queue') <= ActionQueueLength
           /\ queue # <<>>
           /\ pc = "receive"
           /\ \A b \in {"Start", "Stop"} : queue = <<b>> => b = a /\ queue' = <<>>
<1>1. queue \in Seq({"Start", "Stop"}) /\ queue # <<>> /\ queue' = Tail(queue)
  BY DEF Receive, TypeOK
<1>2. queue' \in Seq({"Start", "Stop"}) /\ Len(queue') = Len(queue) - 1
  BY <1>1
<1>3. Len(queue') <= ActionQueueLength
  BY <1>2 DEF TypeOK, BleConstants
<1>4. ASSUME NEW b \in {"Start", "Stop"}, queue = <<b>>
      PROVE  b = a /\ queue' = <<>>
  BY <1>4 DEF Receive
<1> QED
  BY <1>1, <1>2, <1>3, <1>4 DEF Receive

-----------------------------------------------------------------------------
(* The initial state: a board that boots with one network in flash, or none. *)
LEMMA InitIInv ==
    ASSUME BleConstants, ProvisioningConstants, ProvisioningInit
    PROVE  IInv
<1>1. TypeOK
  <2>1. queue \in Seq({"Start", "Stop"}) /\ Len(queue) <= ActionQueueLength
    BY DEF ProvisioningInit, Init, BleConstants
  <2> QED
    BY <2>1 DEF ProvisioningInit, Init, TypeOK, Steps, Fields
<1>2. ProvisioningTypeOK
  <2>1. {buffer, flash, loaded} \subseteq [Fields -> Values]
    BY DEF ProvisioningInit, Blank, Values
  <2> QED
    BY <1>1, <2>1 DEF ProvisioningInit, ProvisioningTypeOK, Values, ProvisioningConstants
<1>3. StackAgrees /\ SaverAgrees /\ WifiAgrees
  BY DEF ProvisioningInit, Init, StackAgrees, SaverAgrees, WifiAgrees, Stopping
<1>4. RequestsAgree /\ FlagsAgree /\ SteadyAgrees
  BY DEF ProvisioningInit, Init, RequestsAgree, FlagsAgree, SteadyAgrees
<1>5. FlashAgrees
  BY DEF ProvisioningInit, FlashAgrees, Torn, Blank, Fields
<1> QED
  BY <1>2, <1>3, <1>4, <1>5 DEF IInv

-----------------------------------------------------------------------------
(* The BLE task. *)

(* begin() finds the stack at rest, or does nothing. *)
LEMMA BeginKeeps ==
    ASSUME IInv, StartsEmpty, UNCHANGED faults
    PROVE  IInv'
<1> USE DEF StartsEmpty, Begin, Blank, flashVars, wifiVars, peerVars, vars, taskVars, hostVars, writeVars
<1>1. /\ queue' \in Seq({"Start", "Stop"}) /\ Len(queue') <= ActionQueueLength
      /\ queue # <<>>
      /\ pc = "receive"
      /\ \A b \in {"Start", "Stop"} : queue = <<b>> => b = "Start" /\ queue' = <<>>
  BY BleConstants, ReceiveTyped DEF IInv, ProvisioningTypeOK
<1>2. ProvisioningTypeOK'
  BY <1>1, ProvisioningConstants DEF IInv, ProvisioningTypeOK, TypeOK, Steps, Fields, Values
<1>3. StackAgrees' /\ SaverAgrees' /\ WifiAgrees'
  BY <1>1 DEF IInv, StackAgrees, SaverAgrees, WifiAgrees, Stopping
<1>4. ASSUME Patient
      PROVE  RequestsAgree' /\ FlagsAgree'
  BY <1>1, <1>4 DEF IInv, RequestsAgree, FlagsAgree
<1>5. ASSUME Patient, Without({"rewrite"})
      PROVE  SteadyAgrees'
  BY <1>1, <1>5 DEF IInv, RequestsAgree, SteadyAgrees
<1>6. ASSUME Patient, Without({"rewrite", "write", "restart"})
      PROVE  FlashAgrees'
  BY <1>6 DEF IInv, FlashAgrees
<1> QED
  BY <1>2, <1>3, <1>4, <1>5, <1>6 DEF IInv, Patient, Without

(* A peer may have come and written before the last step. *)
LEMMA BeginRunsKeeps ==
    ASSUME IInv, BeginRuns, UNCHANGED <<flashVars, wifiVars, peerVars>>, UNCHANGED faults
    PROVE  IInv'
<1> USE DEF BeginRuns, flashVars, wifiVars, peerVars, vars, taskVars, hostVars, writeVars
<1>2. ProvisioningTypeOK'
  BY ProvisioningConstants DEF IInv, ProvisioningTypeOK, TypeOK, Steps, Fields, Values
<1>3. StackAgrees' /\ SaverAgrees' /\ WifiAgrees'
  BY DEF IInv, StackAgrees, SaverAgrees, WifiAgrees, Stopping
<1>4. ASSUME Patient
      PROVE  RequestsAgree' /\ FlagsAgree'
  BY <1>4 DEF IInv, RequestsAgree, FlagsAgree
<1>5. ASSUME Patient, Without({"rewrite"})
      PROVE  SteadyAgrees'
  BY <1>5 DEF IInv, SteadyAgrees
<1>6. ASSUME Patient, Without({"rewrite", "write", "restart"})
      PROVE  FlashAgrees'
  BY <1>6 DEF IInv, FlashAgrees
<1> QED
  BY <1>2, <1>3, <1>4, <1>5, <1>6 DEF IInv, Patient, Without

(* From here no peer can come. *)
LEMMA StopsAdvertisingKeeps ==
    ASSUME IInv, EndStopsAdvertising, UNCHANGED <<flashVars, wifiVars, peerVars>>, UNCHANGED faults
    PROVE  IInv'
<1> USE DEF EndStopsAdvertising, flashVars, wifiVars, peerVars, vars, taskVars, hostVars, writeVars
<1>1. /\ queue' \in Seq({"Start", "Stop"}) /\ Len(queue') <= ActionQueueLength
      /\ queue # <<>>
      /\ pc = "receive"
      /\ \A b \in {"Start", "Stop"} : queue = <<b>> => b = "Stop" /\ queue' = <<>>
  BY BleConstants, ReceiveTyped DEF IInv, ProvisioningTypeOK
<1>2. ProvisioningTypeOK'
  BY <1>1, ProvisioningConstants DEF IInv, ProvisioningTypeOK, TypeOK, Steps, Fields, Values
<1>3. StackAgrees' /\ SaverAgrees' /\ WifiAgrees'
  BY <1>1 DEF IInv, StackAgrees, SaverAgrees, WifiAgrees
<1>4. ASSUME Patient
      PROVE  RequestsAgree' /\ FlagsAgree'
  BY <1>1, <1>4 DEF IInv, StackAgrees, RequestsAgree, FlagsAgree
<1>5. ASSUME Patient, Without({"rewrite"})
      PROVE  SteadyAgrees'
  BY <1>5 DEF IInv, SteadyAgrees
<1>6. ASSUME Patient, Without({"rewrite", "write", "restart"})
      PROVE  FlashAgrees'
  BY <1>6 DEF IInv, FlashAgrees
<1> QED
  BY <1>2, <1>3, <1>4, <1>5, <1>6 DEF IInv, Patient, Without

(* Nobody is left at the count, and nobody can come after it. *)
LEMMA CountsPeersKeeps ==
    ASSUME IInv, EndCountsPeers, UNCHANGED <<flashVars, wifiVars, peerVars>>, UNCHANGED faults
    PROVE  IInv'
<1> USE DEF EndCountsPeers, flashVars, wifiVars, peerVars, vars, taskVars, hostVars, writeVars
<1>2. ProvisioningTypeOK'
  BY ProvisioningConstants DEF IInv, ProvisioningTypeOK, TypeOK, Steps, Fields, Values
<1>3. StackAgrees' /\ SaverAgrees' /\ WifiAgrees'
  BY DEF IInv, StackAgrees, SaverAgrees, WifiAgrees, Stopping
<1>4. ASSUME Patient
      PROVE  RequestsAgree' /\ FlagsAgree'
  BY <1>4 DEF IInv, RequestsAgree, FlagsAgree
<1>5. ASSUME Patient, Without({"rewrite"})
      PROVE  SteadyAgrees'
  BY <1>5 DEF IInv, SteadyAgrees
<1>6. ASSUME Patient, Without({"rewrite", "write", "restart"})
      PROVE  FlashAgrees'
  BY <1>6 DEF IInv, FlashAgrees
<1> QED
  BY <1>2, <1>3, <1>4, <1>5, <1>6 DEF IInv, Patient, Without

(* A stop is put off. *)
LEMMA DefersKeeps ==
    ASSUME IInv, EndDefers, UNCHANGED <<flashVars, wifiVars, peerVars>>, UNCHANGED faults
    PROVE  IInv'
<1> USE DEF EndDefers, flashVars, wifiVars, peerVars, vars, taskVars, hostVars, writeVars
<1>2. ProvisioningTypeOK'
  BY ProvisioningConstants DEF IInv, ProvisioningTypeOK, TypeOK, Steps, Fields, Values
<1>3. StackAgrees' /\ SaverAgrees' /\ WifiAgrees'
  BY DEF IInv, StackAgrees, SaverAgrees, WifiAgrees, Stopping
<1>4. ASSUME Patient
      PROVE  RequestsAgree' /\ FlagsAgree'
  BY <1>4 DEF IInv, RequestsAgree, FlagsAgree
<1>5. ASSUME Patient, Without({"rewrite"})
      PROVE  SteadyAgrees'
  BY <1>5 DEF IInv, SteadyAgrees
<1>6. ASSUME Patient, Without({"rewrite", "write", "restart"})
      PROVE  FlashAgrees'
  BY <1>6 DEF IInv, FlashAgrees
<1> QED
  BY <1>2, <1>3, <1>4, <1>5, <1>6 DEF IInv, Patient, Without

(* The peer is asked to go. *)
LEMMA DropsPeersKeeps ==
    ASSUME IInv, EndDropsPeers, UNCHANGED <<flashVars, wifiVars, peerVars>>, UNCHANGED faults
    PROVE  IInv'
<1> USE DEF EndDropsPeers, flashVars, wifiVars, peerVars, vars, taskVars, hostVars, writeVars
<1>2. ProvisioningTypeOK'
  BY ProvisioningConstants DEF IInv, ProvisioningTypeOK, TypeOK, Steps, Fields, Values
<1>3. StackAgrees' /\ SaverAgrees' /\ WifiAgrees'
  BY DEF IInv, StackAgrees, SaverAgrees, WifiAgrees, Stopping
<1>4. ASSUME Patient
      PROVE  RequestsAgree' /\ FlagsAgree'
  BY <1>4 DEF IInv, RequestsAgree, FlagsAgree
<1>5. ASSUME Patient, Without({"rewrite"})
      PROVE  SteadyAgrees'
  BY <1>5 DEF IInv, SteadyAgrees
<1>6. ASSUME Patient, Without({"rewrite", "write", "restart"})
      PROVE  FlashAgrees'
  BY <1>6 DEF IInv, FlashAgrees
<1> QED
  BY <1>2, <1>3, <1>4, <1>5, <1>6 DEF IInv, Patient, Without

(* The stack goes down; the host task is in no callback. *)
LEMMA DeinitsKeeps ==
    ASSUME IInv, EndDeinits, saver = "idle", UNCHANGED <<flashVars, wifiVars, peerVars>>, UNCHANGED faults
    PROVE  IInv'
<1> USE DEF EndDeinits, flashVars, wifiVars, peerVars, vars, taskVars, hostVars, writeVars
<1>2. ProvisioningTypeOK'
  BY ProvisioningConstants DEF IInv, ProvisioningTypeOK, TypeOK, Steps, Fields, Values
<1>3. StackAgrees' /\ SaverAgrees' /\ WifiAgrees'
  BY DEF IInv, StackAgrees, SaverAgrees, WifiAgrees, Stopping
<1>4. ASSUME Patient
      PROVE  RequestsAgree' /\ FlagsAgree'
  BY <1>4 DEF IInv, RequestsAgree, FlagsAgree
<1>5. ASSUME Patient, Without({"rewrite"})
      PROVE  SteadyAgrees'
  BY <1>5 DEF IInv, SteadyAgrees
<1>6. ASSUME Patient, Without({"rewrite", "write", "restart"})
      PROVE  FlashAgrees'
  BY <1>6 DEF IInv, FlashAgrees
<1> QED
  BY <1>2, <1>3, <1>4, <1>5, <1>6 DEF IInv, Patient, Without

-----------------------------------------------------------------------------
(* The peer and the host task. *)

(* A peer comes while the stack advertises. *)
LEMMA ConnectKeeps ==
    ASSUME IInv, HostFree, OnConnect, UNCHANGED <<flashVars, wifiVars, peerVars>>, UNCHANGED faults
    PROVE  IInv'
<1> USE DEF HostFree, OnConnect, flashVars, wifiVars, peerVars, vars, taskVars, hostVars, writeVars
<1>2. ProvisioningTypeOK'
  BY ProvisioningConstants DEF IInv, ProvisioningTypeOK, TypeOK, Steps, Fields, Values
<1>3. StackAgrees' /\ SaverAgrees' /\ WifiAgrees'
  BY DEF IInv, StackAgrees, SaverAgrees, WifiAgrees, Stopping
<1>4. ASSUME Patient
      PROVE  RequestsAgree' /\ FlagsAgree'
  BY <1>4 DEF IInv, StackAgrees, RequestsAgree, FlagsAgree
<1>5. ASSUME Patient, Without({"rewrite"})
      PROVE  SteadyAgrees'
  BY <1>5 DEF IInv, SteadyAgrees
<1>6. ASSUME Patient, Without({"rewrite", "write", "restart"})
      PROVE  FlashAgrees'
  BY <1>6 DEF IInv, FlashAgrees
<1> QED
  BY <1>2, <1>3, <1>4, <1>5, <1>6 DEF IInv, Patient, Without

(* A peer that leaves is in no callback. *)
LEMMA LeaveKeeps ==
    ASSUME IInv, HostFree, PeerLeaves, UNCHANGED <<flashVars, wifiVars, peerVars>>, UNCHANGED faults
    PROVE  IInv'
<1> USE DEF HostFree, PeerLeaves, flashVars, wifiVars, peerVars, vars, taskVars, hostVars, writeVars
<1>2. ProvisioningTypeOK'
  BY ProvisioningConstants DEF IInv, ProvisioningTypeOK, TypeOK, Steps, Fields, Values
<1>3. StackAgrees' /\ SaverAgrees' /\ WifiAgrees'
  BY DEF IInv, StackAgrees, SaverAgrees, WifiAgrees
<1>4. ASSUME Patient
      PROVE  RequestsAgree' /\ FlagsAgree'
  BY <1>4 DEF IInv, RequestsAgree, FlagsAgree
<1>5. ASSUME Patient, Without({"rewrite"})
      PROVE  SteadyAgrees'
  BY <1>5 DEF IInv, SteadyAgrees
<1>6. ASSUME Patient, Without({"rewrite", "write", "restart"})
      PROVE  FlashAgrees'
  BY <1>6 DEF IInv, FlashAgrees
<1> QED
  BY <1>2, <1>3, <1>4, <1>5, <1>6 DEF IInv, Patient, Without

(* The stop that was put off comes back. *)
LEMMA DisconnectKeeps ==
    ASSUME IInv, HostFree, OnDisconnect, UNCHANGED <<flashVars, wifiVars, peerVars>>, UNCHANGED faults
    PROVE  IInv'
<1> USE DEF HostFree, OnDisconnect, flashVars, wifiVars, peerVars, vars, taskVars, hostVars, writeVars
<1>1. /\ queue' \in Seq({"Start", "Stop"}) /\ Len(queue') <= ActionQueueLength
      /\ stopPending => (queue = <<>> => queue' = <<"Stop">>)
      /\ ~(stopPending) => UNCHANGED queue
  <2>1. CASE stopPending
    <3>1. Send("Stop")
      BY <2>1
    <3> QED
      BY <2>1, <3>1, BleConstants, SendTyped DEF IInv, ProvisioningTypeOK
  <2>2. CASE ~(stopPending)
    BY <2>2 DEF IInv, ProvisioningTypeOK, TypeOK
  <2> QED
    BY <2>1, <2>2
<1>2. ProvisioningTypeOK'
  BY <1>1, ProvisioningConstants DEF IInv, ProvisioningTypeOK, TypeOK, Steps, Fields, Values
<1>3. StackAgrees' /\ SaverAgrees' /\ WifiAgrees'
  BY DEF IInv, StackAgrees, SaverAgrees, WifiAgrees
<1>4. ASSUME Patient
      PROVE  RequestsAgree' /\ FlagsAgree'
  <2>1. stopPending => queue = <<>> /\ ~wanted /\ pc \notin {"count", "pend", "deinit"}
    BY <1>4 DEF IInv, RequestsAgree
  <2>2. pc \in {"receive", "started", "drop", "count", "pend", "deinit"}
    BY DEF IInv, ProvisioningTypeOK, TypeOK, Steps
  <2> QED
    BY <1>1, <1>4, <2>2 DEF IInv, RequestsAgree, FlagsAgree
<1>5. ASSUME Patient, Without({"rewrite"})
      PROVE  SteadyAgrees'
  BY <1>5 DEF IInv, SteadyAgrees
<1>6. ASSUME Patient, Without({"rewrite", "write", "restart"})
      PROVE  FlashAgrees'
  BY <1>6 DEF IInv, FlashAgrees
<1> QED
  BY <1>2, <1>3, <1>4, <1>5, <1>6 DEF IInv, Patient, Without

(* A steady peer writes each field once. *)
LEMMA WriteKeeps ==
    ASSUME IInv, NEW field \in Fields, NEW n \in Offered, Write(field, n), UNCHANGED faults
    PROVE  IInv'
<1> USE DEF Write, HostFree, Steady, OnWrite, Offered, flashVars, wifiVars, peerVars, vars, taskVars, hostVars, writeVars
<1>2. ProvisioningTypeOK'
  BY ProvisioningConstants DEF IInv, ProvisioningTypeOK, TypeOK, Steps, Fields, Values
<1>3. StackAgrees' /\ SaverAgrees' /\ WifiAgrees'
  BY ProvisioningConstants DEF IInv, ProvisioningTypeOK, StackAgrees, SaverAgrees, WifiAgrees
<1>4. ASSUME Patient
      PROVE  RequestsAgree' /\ FlagsAgree'
  BY <1>4 DEF IInv, RequestsAgree, FlagsAgree
<1>5. ASSUME Patient, Without({"rewrite"})
      PROVE  SteadyAgrees'
  BY <1>5 DEF IInv, ProvisioningTypeOK, WifiAgrees, SteadyAgrees, Without
<1>6. ASSUME Patient, Without({"rewrite", "write", "restart"})
      PROVE  FlashAgrees'
  BY <1>6 DEF IInv, FlashAgrees
<1> QED
  BY <1>2, <1>3, <1>4, <1>5, <1>6 DEF IInv, Patient, Without

(* The name is saved; flash may be torn until the password is. *)
LEMMA SaveSsidKeeps ==
    ASSUME IInv, SaveSsid, UNCHANGED faults
    PROVE  IInv'
<1> USE DEF SaveSsid, Put, Torn, flashVars, wifiVars, peerVars, vars, taskVars, hostVars, writeVars
<1>2. ProvisioningTypeOK'
  BY ProvisioningConstants DEF IInv, ProvisioningTypeOK, TypeOK, Steps, Fields, Values
<1>3. StackAgrees' /\ SaverAgrees' /\ WifiAgrees'
  BY DEF IInv, StackAgrees, SaverAgrees, WifiAgrees
<1>4. ASSUME Patient
      PROVE  RequestsAgree' /\ FlagsAgree'
  BY <1>4 DEF IInv, RequestsAgree, FlagsAgree
<1>5. ASSUME Patient, Without({"rewrite"})
      PROVE  SteadyAgrees'
  BY <1>5 DEF IInv, StackAgrees, SaverAgrees, WifiAgrees, SteadyAgrees
<1>6. ASSUME Patient, Without({"rewrite", "write", "restart"})
      PROVE  FlashAgrees'
  BY <1>6
     DEF IInv, ProvisioningTypeOK, SaverAgrees, FlagsAgree, SteadyAgrees, FlashAgrees, Without,
         Fields
<1> QED
  BY <1>2, <1>3, <1>4, <1>5, <1>6 DEF IInv, Patient, Without

(* The pair is complete, unless a write failed. *)
LEMMA SavePasswordKeeps ==
    ASSUME IInv, SavePassword, UNCHANGED faults
    PROVE  IInv'
<1> USE DEF SavePassword, Put, Torn, flashVars, wifiVars, peerVars, vars, taskVars, hostVars, writeVars
<1>2. ProvisioningTypeOK'
  BY ProvisioningConstants DEF IInv, ProvisioningTypeOK, TypeOK, Steps, Fields, Values
<1>3. StackAgrees' /\ SaverAgrees' /\ WifiAgrees'
  BY DEF IInv, StackAgrees, SaverAgrees, WifiAgrees
<1>4. ASSUME Patient
      PROVE  RequestsAgree' /\ FlagsAgree'
  BY <1>4 DEF IInv, RequestsAgree, FlagsAgree
<1>5. ASSUME Patient, Without({"rewrite"})
      PROVE  SteadyAgrees'
  BY <1>5 DEF IInv, StackAgrees, SaverAgrees, WifiAgrees, SteadyAgrees
<1>6. ASSUME Patient, Without({"rewrite", "write", "restart"})
      PROVE  FlashAgrees'
  BY <1>6
     DEF IInv, ProvisioningTypeOK, SaverAgrees, FlagsAgree, SteadyAgrees, FlashAgrees, Without,
         Fields
<1> QED
  BY <1>2, <1>3, <1>4, <1>5, <1>6 DEF IInv, Patient, Without

(* The update follows the save. *)
LEMMA UpdateKeeps ==
    ASSUME IInv, EnqueueUpdate, UNCHANGED faults
    PROVE  IInv'
<1> USE DEF EnqueueUpdate, flashVars, wifiVars, peerVars, vars, taskVars, hostVars, writeVars
<1>2. ProvisioningTypeOK'
  BY ProvisioningConstants DEF IInv, ProvisioningTypeOK, TypeOK, Steps, Fields, Values
<1>3. StackAgrees' /\ SaverAgrees' /\ WifiAgrees'
  BY DEF IInv, StackAgrees, SaverAgrees, WifiAgrees
<1>4. ASSUME Patient
      PROVE  RequestsAgree' /\ FlagsAgree'
  BY <1>4 DEF IInv, SaverAgrees, RequestsAgree, FlagsAgree
<1>5. ASSUME Patient, Without({"rewrite"})
      PROVE  SteadyAgrees'
  BY <1>5
     DEF IInv, ProvisioningTypeOK, TypeOK, StackAgrees, SaverAgrees, WifiAgrees, RequestsAgree,
         FlagsAgree, SteadyAgrees, Without, Patient
<1>6. ASSUME Patient, Without({"rewrite", "write", "restart"})
      PROVE  FlashAgrees'
  BY <1>6 DEF IInv, FlashAgrees
<1> QED
  BY <1>2, <1>3, <1>4, <1>5, <1>6 DEF IInv, Patient, Without

-----------------------------------------------------------------------------
(* The Wi-Fi task. *)

(* The name is read when no save is under way. *)
LEMMA ReadKeeps ==
    ASSUME IInv, ReadSsid, UNCHANGED faults
    PROVE  IInv'
<1> USE DEF ReadSsid, Torn, flashVars, wifiVars, peerVars, vars, taskVars, hostVars, writeVars
<1>2. ProvisioningTypeOK'
  BY ProvisioningConstants DEF IInv, ProvisioningTypeOK, TypeOK, Steps, Fields, Values
<1>3. StackAgrees' /\ SaverAgrees' /\ WifiAgrees'
  BY DEF IInv, StackAgrees, SaverAgrees, WifiAgrees
<1>4. ASSUME Patient
      PROVE  RequestsAgree' /\ FlagsAgree'
  BY <1>4 DEF IInv, WifiAgrees, RequestsAgree, FlagsAgree
<1>5. ASSUME Patient, Without({"rewrite"})
      PROVE  SteadyAgrees'
  BY <1>5 DEF IInv, SteadyAgrees
<1>6. ASSUME Patient, Without({"rewrite", "write", "restart"})
      PROVE  FlashAgrees'
  BY <1>6 DEF IInv, FlashAgrees
<1> QED
  BY <1>2, <1>3, <1>4, <1>5, <1>6 DEF IInv, Patient, Without

(* What is loaded is what flash holds. *)
LEMMA ConfigureKeeps ==
    ASSUME IInv, Configure, UNCHANGED faults
    PROVE  IInv'
<1> USE DEF Configure, Keys, Found, EnqueueProvisioningStop, flashVars, wifiVars, peerVars, vars, taskVars, hostVars, writeVars
<1>1. /\ queue' \in Seq({"Start", "Stop"}) /\ Len(queue') <= ActionQueueLength
      /\ wifi = "setup" => (queue = <<>> => queue' = <<"Stop">>)
      /\ ~(wifi = "setup") => UNCHANGED queue
  <2>1. CASE wifi = "setup"
    <3>1. Send("Stop")
      BY <2>1
    <3> QED
      BY <2>1, <3>1, BleConstants, SendTyped DEF IInv, ProvisioningTypeOK
  <2>2. CASE ~(wifi = "setup")
    BY <2>2 DEF IInv, ProvisioningTypeOK, TypeOK
  <2> QED
    BY <2>1, <2>2
<1>2. ProvisioningTypeOK'
  <2>1. Keys["ssid"] \in ssidRead /\ Keys["password"] = flash["password"]
    OBVIOUS
  <2>2. Keys \in [Fields -> Values]
    BY <2>1 DEF IInv, ProvisioningTypeOK, Fields
  <2>3. loaded' \in [Fields -> Values]
    BY <2>2
  <2> QED
    BY <1>1, <2>3 DEF IInv, ProvisioningTypeOK, TypeOK, Steps, Fields, Values
<1>3. StackAgrees' /\ SaverAgrees' /\ WifiAgrees'
  BY <1>1, ProvisioningConstants
     DEF IInv, ProvisioningTypeOK, TypeOK, StackAgrees, SaverAgrees, WifiAgrees, Stopping,
         Fields
<1>4. ASSUME Patient
      PROVE  RequestsAgree' /\ FlagsAgree'
  BY <1>1, <1>4 DEF IInv, RequestsAgree, FlagsAgree
<1>5. ASSUME Patient, Without({"rewrite"})
      PROVE  SteadyAgrees'
  <2>1. ssidRead = {flash["ssid"]} /\ Keys["ssid"] = flash["ssid"]
    BY <1>5 DEF IInv, SteadyAgrees
  <2>2. Keys = flash
    BY <2>1 DEF IInv, ProvisioningTypeOK, Fields
  <2>3. loaded' = flash' /\ ssidRead' = {} /\ wifi' = "offline"
    BY <2>2
  <2>4. saver' = "idle" /\ (wifi = "setup" => written' = Fields)
    BY <1>5 DEF IInv, SteadyAgrees, WifiAgrees, StackAgrees, SaverAgrees
  <2>5. ~wanted' /\ written' # Fields => peer' = "none" /\ ~advertising'
    BY <1>5, <2>4 DEF IInv, SteadyAgrees, WifiAgrees
  <2> QED
    BY <1>5, <2>3, <2>4 DEF IInv, SteadyAgrees
<1>6. ASSUME Patient, Without({"rewrite", "write", "restart"})
      PROVE  FlashAgrees'
  BY <1>6 DEF IInv, FlashAgrees
<1> QED
  BY <1>2, <1>3, <1>4, <1>5, <1>6 DEF IInv, Patient, Without

(* A board without credentials asks for the stack. *)
LEMMA NothingStoredKeeps ==
    ASSUME IInv, NothingStored, UNCHANGED faults
    PROVE  IInv'
<1> USE DEF NothingStored, EnqueueProvisioningStart, AtRest, flashVars, wifiVars, peerVars, vars, taskVars, hostVars, writeVars
<1>1. /\ queue' \in Seq({"Start", "Stop"}) /\ Len(queue') <= ActionQueueLength
      /\ wifi = "booting" => (queue = <<>> => queue' = <<"Start">>)
      /\ ~(wifi = "booting") => UNCHANGED queue
  <2>1. CASE wifi = "booting"
    <3>1. Send("Start")
      BY <2>1
    <3> QED
      BY <2>1, <3>1, BleConstants, SendTyped DEF IInv, ProvisioningTypeOK
  <2>2. CASE ~(wifi = "booting")
    BY <2>2 DEF IInv, ProvisioningTypeOK, TypeOK
  <2> QED
    BY <2>1, <2>2
<1>2. ProvisioningTypeOK'
  BY <1>1, ProvisioningConstants DEF IInv, ProvisioningTypeOK, TypeOK, Steps, Fields, Values
<1>3. StackAgrees' /\ SaverAgrees' /\ WifiAgrees'
  BY <1>1, ProvisioningConstants
     DEF IInv, ProvisioningTypeOK, TypeOK, StackAgrees, SaverAgrees, WifiAgrees, Stopping,
         Fields
<1>4. ASSUME Patient
      PROVE  RequestsAgree' /\ FlagsAgree'
  BY <1>1, <1>4 DEF IInv, WifiAgrees, RequestsAgree, FlagsAgree
<1>5. ASSUME Patient, Without({"rewrite"})
      PROVE  SteadyAgrees'
  BY <1>5 DEF IInv, WifiAgrees, SteadyAgrees
<1>6. ASSUME Patient, Without({"rewrite", "write", "restart"})
      PROVE  FlashAgrees'
  BY <1>6 DEF IInv, FlashAgrees
<1> QED
  BY <1>2, <1>3, <1>4, <1>5, <1>6 DEF IInv, Patient, Without

(* An update outside set-up is dropped. *)
LEMMA IgnoreKeeps ==
    ASSUME IInv, IgnoreUpdate, UNCHANGED faults
    PROVE  IInv'
<1> USE DEF IgnoreUpdate, flashVars, wifiVars, peerVars, vars, taskVars, hostVars, writeVars
<1>2. ProvisioningTypeOK'
  BY ProvisioningConstants DEF IInv, ProvisioningTypeOK, TypeOK, Steps, Fields, Values
<1>3. StackAgrees' /\ SaverAgrees' /\ WifiAgrees'
  BY DEF IInv, StackAgrees, SaverAgrees, WifiAgrees
<1>4. ASSUME Patient
      PROVE  RequestsAgree' /\ FlagsAgree'
  BY <1>4 DEF IInv, RequestsAgree, FlagsAgree
<1>5. ASSUME Patient, Without({"rewrite"})
      PROVE  SteadyAgrees'
  BY <1>5 DEF IInv, SteadyAgrees
<1>6. ASSUME Patient, Without({"rewrite", "write", "restart"})
      PROVE  FlashAgrees'
  BY <1>6 DEF IInv, FlashAgrees
<1> QED
  BY <1>2, <1>3, <1>4, <1>5, <1>6 DEF IInv, Patient, Without

(* The link comes and goes. *)
LEMMA LinkKeeps ==
    ASSUME IInv, Connect \/ LoseLink, UNCHANGED faults
    PROVE  IInv'
<1> USE DEF Connect, LoseLink, flashVars, wifiVars, peerVars, vars, taskVars, hostVars, writeVars
<1>2. ProvisioningTypeOK'
  BY ProvisioningConstants DEF IInv, ProvisioningTypeOK, TypeOK, Steps, Fields, Values
<1>3. StackAgrees' /\ SaverAgrees' /\ WifiAgrees'
  <2>1. wifi \in {"offline", "online"} /\ wifi' \in {"offline", "online"}
    OBVIOUS
  <2>2. StackAgrees' /\ SaverAgrees'
    BY DEF IInv, StackAgrees, SaverAgrees
  <2>3. ~wanted' /\ ssidRead' = {}
    BY <2>1 DEF IInv, WifiAgrees
  <2> QED
    BY <2>1, <2>2, <2>3 DEF WifiAgrees
<1>4. ASSUME Patient
      PROVE  RequestsAgree' /\ FlagsAgree'
  BY <1>4 DEF IInv, RequestsAgree, FlagsAgree
<1>5. ASSUME Patient, Without({"rewrite"})
      PROVE  SteadyAgrees'
  BY <1>5 DEF IInv, SteadyAgrees
<1>6. ASSUME Patient, Without({"rewrite", "write", "restart"})
      PROVE  FlashAgrees'
  BY <1>6 DEF IInv, FlashAgrees
<1> QED
  BY <1>2, <1>3, <1>4, <1>5, <1>6 DEF IInv, Patient, Without

(* A patient Wi-Fi task that gives up finds the stack at rest. *)
LEMMA GiveUpKeeps ==
    ASSUME IInv, GiveUp, UNCHANGED faults
    PROVE  IInv'
<1> USE DEF GiveUp, EnqueueProvisioningStart, AtRest, flashVars, wifiVars, peerVars, vars, taskVars, hostVars, writeVars
<1>1. /\ queue' \in Seq({"Start", "Stop"}) /\ Len(queue') <= ActionQueueLength
      /\ queue = <<>> => queue' = <<"Start">>
  BY BleConstants, SendTyped DEF IInv, ProvisioningTypeOK
<1>2. ProvisioningTypeOK'
  BY <1>1, ProvisioningConstants DEF IInv, ProvisioningTypeOK, TypeOK, Steps, Fields, Values
<1>3. StackAgrees' /\ SaverAgrees' /\ WifiAgrees'
  BY DEF IInv, StackAgrees, SaverAgrees, WifiAgrees
<1>4. ASSUME Patient
      PROVE  RequestsAgree' /\ FlagsAgree'
  BY <1>1, <1>4 DEF IInv, WifiAgrees, RequestsAgree, FlagsAgree
<1>5. ASSUME Patient, Without({"rewrite"})
      PROVE  SteadyAgrees'
  BY <1>5 DEF IInv, WifiAgrees, SteadyAgrees
<1>6. ASSUME Patient, Without({"rewrite", "write", "restart"})
      PROVE  FlashAgrees'
  BY <1>6 DEF IInv, FlashAgrees
<1> QED
  BY <1>2, <1>3, <1>4, <1>5, <1>6 DEF IInv, Patient, Without

(* Flash alone survives. *)
LEMMA RestartKeeps ==
    ASSUME IInv, Restart, UNCHANGED faults
    PROVE  IInv'
<1> USE DEF Restart, Blank
<1>2. ProvisioningTypeOK'
  <2>1. {buffer, flash, loaded}' \subseteq [Fields -> Values]
    BY DEF IInv, ProvisioningTypeOK, Values
  <2>2. TypeOK'
    <3>1. queue' \in Seq({"Start", "Stop"}) /\ Len(queue') <= ActionQueueLength
      BY BleConstants
    <3> QED
      BY <3>1 DEF IInv, ProvisioningTypeOK, TypeOK, Steps
  <2> QED
    BY <2>1, <2>2, ProvisioningConstants DEF IInv, ProvisioningTypeOK, Values
<1>3. StackAgrees' /\ SaverAgrees' /\ WifiAgrees'
  BY DEF StackAgrees, SaverAgrees, WifiAgrees, Stopping
<1>4. ASSUME Patient
      PROVE  RequestsAgree' /\ FlagsAgree'
  BY DEF RequestsAgree, FlagsAgree
<1>5. ASSUME Patient, Without({"rewrite"})
      PROVE  SteadyAgrees'
  BY DEF SteadyAgrees
<1>6. ASSUME Patient, Without({"rewrite", "write", "restart"})
      PROVE  FlashAgrees'
  BY <1>6 DEF Without
<1> QED
  BY <1>2, <1>3, <1>4, <1>5, <1>6 DEF IInv, Patient, Without

(* Nothing happens. *)
LEMMA StutterKeeps ==
    ASSUME IInv, UNCHANGED allVars, UNCHANGED faults
    PROVE  IInv'
<1> USE DEF allVars, flashVars, wifiVars, peerVars, vars, taskVars, hostVars, writeVars
<1>2. ProvisioningTypeOK'
  BY ProvisioningConstants DEF IInv, ProvisioningTypeOK, TypeOK, Steps, Fields, Values
<1>3. StackAgrees' /\ SaverAgrees' /\ WifiAgrees'
  BY DEF IInv, StackAgrees, SaverAgrees, WifiAgrees
<1>4. ASSUME Patient
      PROVE  RequestsAgree' /\ FlagsAgree'
  BY <1>4 DEF IInv, RequestsAgree, FlagsAgree
<1>5. ASSUME Patient, Without({"rewrite"})
      PROVE  SteadyAgrees'
  BY <1>5 DEF IInv, SteadyAgrees
<1>6. ASSUME Patient, Without({"rewrite", "write", "restart"})
      PROVE  FlashAgrees'
  BY <1>6 DEF IInv, FlashAgrees
<1> QED
  BY <1>2, <1>3, <1>4, <1>5, <1>6 DEF IInv, Patient, Without

-----------------------------------------------------------------------------
LEMMA NextIInv ==
    ASSUME IInv, [ProvisioningNext]_allVars
    PROVE  IInv'
<1>1. ASSUME StartsEmpty \/ Teardown, UNCHANGED faults
      PROVE  IInv'
  BY <1>1, BeginKeeps, BeginRunsKeeps, StopsAdvertisingKeeps, CountsPeersKeeps, DefersKeeps,
     DropsPeersKeeps, DeinitsKeeps
     DEF Teardown
<1>2. ASSUME Link, UNCHANGED faults
      PROVE  IInv'
  BY <1>2, ConnectKeeps, LeaveKeeps, DisconnectKeeps DEF Link
<1>3. ASSUME NEW field \in Fields, NEW n \in Offered, Write(field, n), UNCHANGED faults
      PROVE  IInv'
  BY <1>3, WriteKeeps
<1>4. ASSUME Save, UNCHANGED faults
      PROVE  IInv'
  BY <1>4, SaveSsidKeeps, SavePasswordKeeps, UpdateKeeps DEF Save
<1>5. ASSUME WifiTask, UNCHANGED faults
      PROVE  IInv'
  BY <1>5, ReadKeeps, ConfigureKeeps, NothingStoredKeeps, IgnoreKeeps DEF WifiTask
<1>6. ASSUME Connect \/ LoseLink \/ GiveUp \/ Restart, UNCHANGED faults
      PROVE  IInv'
  BY <1>6, LinkKeeps, GiveUpKeeps, RestartKeeps
<1>7. CASE UNCHANGED allVars
  BY <1>7, StutterKeeps DEF allVars, vars
<1> QED
  BY <1>1, <1>2, <1>3, <1>4, <1>5, <1>6, <1>7 DEF ProvisioningNext, ProvisioningStep

LEMMA Invariance == ProvisioningSpec => []IInv
<1>1. ProvisioningInit => IInv
  BY InitIInv, BleConstants, ProvisioningConstants
<1>2. IInv /\ [ProvisioningNext]_allVars => IInv'
  BY NextIInv
<1> QED
  BY <1>1, <1>2, PTL DEF ProvisioningSpec

(* Every variable of the provisioner and of the two tasks at either end of the
   credentials keeps its type, whatever the lengths of their queues. *)
THEOREM TypesKept == ProvisioningSpec => []ProvisioningTypeOK
<1>1. IInv => ProvisioningTypeOK
  BY DEF IInv
<1> QED
  BY <1>1, Invariance, PTL

(* The stack is not torn down under a connected peer, by any interleaving of
   end(), the callbacks and the Wi-Fi task's requests, impatient ones too. *)
THEOREM PeersAreSafe == ProvisioningSpec => NoTeardownUnderPeer
<1>1. IInv /\ [ProvisioningNext]_allVars
         => [pc = "deinit" /\ running /\ ~running' => peer # "connected"]_vars
  BY DEF IInv, StackAgrees
<1> QED
  BY <1>1, Invariance, PTL DEF ProvisioningSpec, NoTeardownUnderPeer

(* What the host task saves was written in the session it saves it in. *)
THEOREM SessionsAreSeparate == ProvisioningSpec => []SavedIsOfSession
<1>1. ASSUME IInv, Patient, saver # "idle"
      PROVE  written = Fields /\ \A f \in Fields : buffer[f] # Empty
  <2>1. received = Fields /\ peer = "connected"
    BY <1>1 DEF IInv, SaverAgrees
  <2>2. received \subseteq written /\ written \subseteq Fields
    BY <1>1, <2>1 DEF IInv, FlagsAgree, ProvisioningTypeOK, TypeOK
  <2> QED
    BY <1>1, <2>1, <2>2 DEF IInv, SaverAgrees
<1>2. IInv => SavedIsOfSession
  BY <1>1 DEF SavedIsOfSession
<1> QED
  BY <1>2, Invariance, PTL

(* What the device uses is what a restart would use, whichever saves failed or
   were cut short. *)
THEOREM FlashIsUsed == ProvisioningSpec => []UsedIsStored
<1>1. IInv => UsedIsStored
  BY DEF IInv, SteadyAgrees, UsedIsStored
<1> QED
  BY <1>1, Invariance, PTL

(* The two reads of the Wi-Fi task never see a pair between the two writes of
   the host task. *)
THEOREM PairsStayWhole == ProvisioningSpec => []TriedIsMeant
<1>1. ASSUME IInv, Patient, Without({"rewrite", "write", "restart"}),
             wifi \in {"offline", "online"}
      PROVE  ~Torn(loaded)
  <2>1. SteadyAgrees /\ FlashAgrees
    BY <1>1 DEF IInv, Without
  <2> QED
    BY <1>1, <2>1 DEF SteadyAgrees, FlashAgrees
<1>2. IInv => TriedIsMeant
  BY <1>1 DEF TriedIsMeant
<1> QED
  BY <1>2, Invariance, PTL
=============================================================================
