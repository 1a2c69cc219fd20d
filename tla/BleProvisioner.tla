--------------------------- MODULE BleProvisioner ----------------------------
(***************************************************************************)
(* The BLE provisioner: a task that starts and stops the NimBLE stack when *)
(* the Wi-Fi task asks for it, and the NimBLE host task that calls it back *)
(* when a peer connects, writes or leaves.  end() is not atomic: the peer  *)
(* may leave between any two of its steps.                                 *)
(***************************************************************************)
EXTENDS Naturals, Sequences

CONSTANTS
    ActionQueueLength,      \* BLE_ACTION_QUEUE_LENGTH, 2 in the code
    Scenarios               \* sets of what the environment may do

(* receive, the last step of begin(), and the steps of end() in their order. *)
Steps == {"receive", "started", "count", "pend", "drop", "deinit"}

(* A peer may leave on its own during some steps of the task; an impatient
   Wi-Fi task starts a stack that is still going down.  The last three are
   Provisioning's: a peer that changes what it wrote, a write to flash that
   fails, and a restart. *)
FaultKinds == Steps \cup {"impatient", "rewrite", "write", "restart"}

ASSUME BleConstants ==
    /\ ActionQueueLength \in Nat \ {0}
    /\ Scenarios \subseteq SUBSET FaultKinds

VARIABLES
    faults,        \* the scenario, fixed throughout
    queue,         \* BleProvisioner::m_queue
    pc,            \* where the BLE task is: in receive, or inside end()
    running,       \* m_running
    stopPending,   \* m_stopPending
    advertising,   \* NimBLE advertises
    peer,          \* "leaving": off the server's list, onDisconnect to come
    asked,         \* NimBLE was asked to disconnect the peer
    received,      \* m_ssidReceived and m_passwordReceived
    wanted,        \* the last command of the Wi-Fi task was a start
    written        \* history: what was written since that start

taskVars == <<pc, running, stopPending>>
hostVars == <<advertising, peer, asked>>
writeVars == <<received, written>>
vars == <<faults, queue, taskVars, hostVars, writeVars, wanted>>

Fields == {"ssid", "password"}

TypeOK ==
    /\ faults \in Scenarios
    /\ queue \in Seq({"Start", "Stop"}) /\ Len(queue) <= ActionQueueLength
    /\ pc \in Steps
    /\ {running, stopPending, advertising, asked, wanted} \subseteq BOOLEAN
    /\ peer \in {"none", "connected", "leaving"}
    /\ received \subseteq Fields
    /\ written \subseteq Fields

Init ==
    /\ faults \in Scenarios
    /\ queue = <<>>
    /\ pc = "receive"
    /\ running = FALSE
    /\ stopPending = FALSE
    /\ advertising = FALSE
    /\ peer = "none"
    /\ asked = FALSE
    /\ received = {}
    /\ wanted = FALSE
    /\ written = {}

-----------------------------------------------------------------------------
(* Mutant: the queue has no bound. *)
SendUnbounded(a) == queue' = Append(queue, a)

Send(a) ==
    queue' = IF Len(queue) < ActionQueueLength THEN Append(queue, a) ELSE queue

(* The Wi-Fi task: at least MaxAttempts retry delays pass between its stop and
   its next start, so a patient one finds the stack at rest. *)
Patient == "impatient" \notin faults
AtRest == queue = <<>> /\ pc = "receive" /\ peer = "none"

EnqueueProvisioningStart ==
    /\ ~wanted
    /\ Patient => AtRest
    /\ wanted' = TRUE
    /\ written' = {}
    /\ Send("Start")
    /\ UNCHANGED <<taskVars, hostVars, received>>

EnqueueProvisioningStop ==
    /\ wanted
    /\ wanted' = FALSE
    /\ Send("Stop")
    /\ UNCHANGED <<taskVars, hostVars, writeVars>>

-----------------------------------------------------------------------------
(* The BLE task. *)

Receive(a) ==
    /\ pc = "receive"
    /\ queue # <<>>
    /\ Head(queue) = a
    /\ queue' = Tail(queue)

(* Mutant, part of Provisioning's: the flags of the previous session survive. *)
BeginKeepsFlags ==
    /\ Receive("Start")
    /\ IF running
       THEN UNCHANGED <<advertising, pc>>
       ELSE advertising' = TRUE /\ pc' = "started"
    /\ UNCHANGED <<running, stopPending, peer, asked, writeVars, wanted>>

(* begin(): nothing if the stack is up already. *)
Begin ==
    /\ Receive("Start")
    /\ IF running
       THEN UNCHANGED <<advertising, pc, received>>
       ELSE advertising' = TRUE /\ pc' = "started" /\ received' = {}
    /\ UNCHANGED <<running, stopPending, peer, asked, written, wanted>>

(* Its last step; a peer may have connected and written before it. *)
BeginRuns ==
    /\ pc = "started"
    /\ pc' = "receive"
    /\ running' = TRUE
    /\ UNCHANGED <<queue, stopPending, hostVars, writeVars, wanted>>

(* end(), up to where it looks for peers. *)
EndStopsAdvertising ==
    /\ Receive("Stop")
    /\ IF running
       THEN advertising' = FALSE /\ pc' = "count"
       ELSE UNCHANGED <<advertising, pc>>
    /\ UNCHANGED <<running, stopPending, peer, asked, writeVars, wanted>>

(* Mutant: the stack is torn down whoever is connected. *)
EndIgnoresPeers ==
    /\ pc = "count"
    /\ pc' = "deinit"
    /\ UNCHANGED <<queue, running, stopPending, hostVars, writeVars, wanted>>

EndCountsPeers ==
    /\ pc = "count"
    /\ pc' = IF peer = "connected" THEN "pend" ELSE "deinit"
    /\ UNCHANGED <<queue, running, stopPending, hostVars, writeVars, wanted>>

(* Mutant: the deferral is not remembered. *)
EndForgetsPending ==
    /\ pc = "pend"
    /\ pc' = "drop"
    /\ UNCHANGED <<queue, running, stopPending, hostVars, writeVars, wanted>>

EndDefers ==
    /\ pc = "pend"
    /\ stopPending' = TRUE
    /\ pc' = "drop"
    /\ UNCHANGED <<queue, running, hostVars, writeVars, wanted>>

EndDropsPeers ==
    /\ pc = "drop"
    /\ asked' = (peer = "connected")
    /\ pc' = "receive"
    /\ UNCHANGED <<queue, running, stopPending, advertising, peer, writeVars,
                   wanted>>

(* Mutant: m_running is not reset, and the next begin() does nothing. *)
EndStaysRunning ==
    /\ pc = "deinit"
    /\ stopPending' = FALSE
    /\ advertising' = FALSE
    /\ peer' = "none"
    /\ asked' = FALSE
    /\ pc' = "receive"
    /\ UNCHANGED <<queue, running, writeVars, wanted>>

(* deinit() ends the host task and whatever it had still to report. *)
EndDeinits ==
    /\ pc = "deinit"
    /\ stopPending' = FALSE
    /\ running' = FALSE
    /\ advertising' = FALSE
    /\ peer' = "none"
    /\ asked' = FALSE
    /\ pc' = "receive"
    /\ UNCHANGED <<queue, writeVars, wanted>>

Task ==
    \/ Begin
    \/ BeginRuns
    \/ EndStopsAdvertising
    \/ EndCountsPeers
    \/ EndDefers
    \/ EndDropsPeers
    \/ EndDeinits

-----------------------------------------------------------------------------
(* The NimBLE host task.  A connection ends the advertising. *)

OnConnect ==
    /\ advertising
    /\ peer = "none"
    /\ advertising' = FALSE
    /\ peer' = "connected"
    /\ UNCHANGED <<queue, taskVars, asked, writeVars, wanted>>

(* onWrite() of an acceptable value; a rejected one changes nothing. *)
OnWrite(field) ==
    /\ peer = "connected"
    /\ received' = received \cup {field}
    /\ written' = written \cup {field}
    /\ UNCHANGED <<queue, taskVars, hostVars, wanted>>

(* The server takes the peer off its list before it calls onDisconnect. *)
PeerLeaves ==
    /\ peer = "connected"
    /\ asked \/ pc \in faults
    /\ peer' = "leaving"
    /\ UNCHANGED <<queue, taskVars, advertising, asked, writeVars, wanted>>

(* NimBLE is not asked to advertise again (advertiseOnDisconnect). *)
OnDisconnect ==
    /\ peer = "leaving"
    /\ peer' = "none"
    /\ asked' = FALSE
    /\ IF stopPending THEN Send("Stop") ELSE UNCHANGED queue
    /\ UNCHANGED <<taskVars, advertising, writeVars, wanted>>

-----------------------------------------------------------------------------
Step ==
    \/ EnqueueProvisioningStart
    \/ EnqueueProvisioningStop
    \/ Task
    \/ OnConnect
    \/ \E field \in Fields : OnWrite(field)
    \/ PeerLeaves
    \/ OnDisconnect

Next == Step /\ UNCHANGED faults

Spec == Init /\ [][Next]_vars

(* FreeRTOS runs both tasks; a peer asked to go is gone at last (by its
   answer or by the supervision timeout). *)
Fairness ==
    /\ WF_vars(Task /\ UNCHANGED faults)
    /\ WF_vars(OnDisconnect /\ UNCHANGED faults)
    /\ WF_vars(asked /\ PeerLeaves /\ UNCHANGED faults)

FairSpec == Spec /\ Fairness

-----------------------------------------------------------------------------
(* The stack is never torn down under a connected peer
   (ble_provisioner.hpp:58-60), whichever way tasks and peers interleave. *)
NoTeardownUnderPeer ==
    [][pc = "deinit" /\ running /\ ~running' => peer # "connected"]_vars

(* A stop takes the stack down, however many peers have to go first
   (end() and onDisconnect, ble_provisioner.cpp:117-154), unless the next start
   comes before the stack is down. *)
StopCompletes == Patient => (~wanted ~> (~running \/ wanted))
=============================================================================
