----------------------------- MODULE WifiManager -----------------------------
(***************************************************************************)
(* The Wi-Fi subsystem of the firmware: WifiManager's task and queue, the  *)
(* WifiSm state machine it feeds, WifiAdapter's reconnect timer and the    *)
(* credentials in flash, together with what drives them from outside: the  *)
(* Wi-Fi driver's events, the timer task, and the BLE host task that saves *)
(* credentials.                                                            *)
(*                                                                         *)
(* Only the Wi-Fi task reads or writes the state machine; every other task *)
(* talks to it through the queue, which drops an event when it is full.    *)
(***************************************************************************)
EXTENDS Naturals, Sequences, FiniteSets

CONSTANTS
    QueueLength,   \* WIFI_EVENT_QUEUE_LENGTH, 10 in the code
    MaxAttempts,   \* MAX_RECONNECT_ATTEMPTS, 5 in the code
    MaxLeaves,     \* bound: clean-up disconnects the driver emits per begin()
    MaxSaves,      \* bound: BLE saves only while fewer updates are queued
    Faults         \* the failures the environment may cause

FaultKinds ==
    {"begin",      \* WiFi.begin() returns WL_CONNECT_FAILED
     "rejected",   \* an attempt ends with reason CONNECTION_FAIL
     "timer",      \* xTimerStart() fails
     "read",       \* a flash read finds nothing though the key is there
     "write",      \* saving the password is reported as failed
     "restart"}    \* esp_restart(), a crash or a power cycle

ASSUME WifiConstants ==
    /\ QueueLength \in Nat \ {0}
    /\ MaxAttempts \in Nat \ {0}
    /\ MaxLeaves \in Nat
    /\ MaxSaves \in Nat
    /\ Faults \subseteq FaultKinds

VARIABLES
    sm,         \* state of WifiSm
    step,       \* the Wi-Fi task: blocked in receive, or between two events
    queue,      \* WifiManager::m_queue
    attempts,   \* WifiAdapter::m_reconnectAttempts
    timer,      \* is the one-shot reconnect timer armed?
    loaded,     \* are m_ssid and m_password filled in?
    nvs,        \* the credential keys present in flash
    saver,      \* the BLE host task inside saveCredentialsAndEnqueueUpdate
    radio,      \* the driver's link
    leaves,     \* clean-up disconnects the current begin() may still emit
    wifiShown,  \* DisplayController's Wi-Fi status
    ble,        \* what BleProvisioner was last told, and whether it obeyed
    started,    \* has setup() enqueued the start?
    begins      \* history: begin() calls since the last success or
                \* give-up, counted up to MaxAttempts + 1

taskVars == <<sm, step, attempts, loaded, begins>>
storeVars == <<nvs, saver>>
radioVars == <<radio, leaves>>
uiVars == <<wifiShown, ble>>
vars == <<taskVars, queue, timer, storeVars, radioVars, uiVars, started>>

States == {"Idle", "Disconnected", "Connecting", "Connected",
           "ReconnectPending", "Provisioning"}
Events == {"StartRequested", "ConnectRequested", "Connected", "Disconnected",
           "CredentialsReceived"}
Keys == {"ssid", "pass"}
Reasons == {"NO_AP_FOUND", "ASSOC_LEAVE", "ASSOC_FAIL", "CONNECTION_FAIL"}

TypeOK ==
    /\ sm \in States
    /\ step \in {"receive", "reconnect"}
    /\ queue \in Seq(Events)
    /\ Len(queue) <= QueueLength
    /\ attempts \in 0..MaxAttempts
    /\ timer \in BOOLEAN
    /\ loaded \in BOOLEAN
    /\ nvs \subseteq Keys
    /\ saver \in {"idle", "ssidSaved", "bothSaved"}
    /\ radio \in {"down", "joining", "up"}
    /\ leaves \in 0..MaxLeaves
    /\ wifiShown \in BOOLEAN
    /\ ble \in {"off", "on", "stopping"}
    /\ started \in BOOLEAN
    /\ begins \in 0..(MaxAttempts + 1)

(* Everything but the flash is lost at a restart. *)
Init ==
    /\ sm = "Idle"
    /\ step = "receive"
    /\ queue = <<>>
    /\ attempts = 0
    /\ timer = FALSE
    /\ loaded = FALSE
    /\ saver = "idle"
    /\ radio = "down"
    /\ leaves = 0
    /\ wifiShown = FALSE
    /\ ble = "off"
    /\ started = FALSE
    /\ begins = 0
    /\ nvs \in SUBSET Keys

-----------------------------------------------------------------------------
(* Mutant: the queue has no bound. *)
EnqueueUnbounded(e) == queue' = Append(queue, e)

(* enqueueEvent: xQueueSend with no wait, its result ignored. *)
Enqueue(e) ==
    queue' = IF Len(queue) < QueueLength THEN Append(queue, e) ELSE queue

(* Where an event waits in the queue. *)
Queued(e) == {i \in 1..Len(queue) : queue[i] = e}

(* The Wi-Fi task takes the next event. *)
Receive(e) ==
    /\ step = "receive"
    /\ queue # <<>>
    /\ Head(queue) = e
    /\ queue' = Tail(queue)

(* setup(), once every task is running. *)
EnqueueStart ==
    /\ ~started
    /\ started' = TRUE
    /\ Enqueue("StartRequested")
    /\ UNCHANGED <<taskVars, timer, storeVars, radioVars, uiVars>>

-----------------------------------------------------------------------------
(* Guards and actions of the transition table. *)

(* Mutant: new credentials also restart an attempt under way. *)
AcceptsUpdateWhileConnecting(e) ==
    CASE e = "StartRequested"      -> {"Idle"}
      [] e = "Connected"           -> {"Connecting"}
      [] e = "Disconnected"        -> {"Connecting", "Connected"}
      [] e = "ConnectRequested"    -> {"ReconnectPending"}
      [] e = "CredentialsReceived" -> {"Provisioning", "Connecting"}

(* The states whose rows of the transition table take an event. *)
Accepts(e) ==
    CASE e = "StartRequested"      -> {"Idle"}
      [] e = "Connected"           -> {"Connecting"}
      [] e = "Disconnected"        -> {"Connecting", "Connected"}
      [] e = "ConnectRequested"    -> {"ReconnectPending"}
      [] e = "CredentialsReceived" -> {"Provisioning"}

(* Mutant: one of the two keys is enough. *)
LoadOutcomesEitherKey ==
    {nvs # {}} \cup (IF "read" \in Faults THEN {FALSE} ELSE {})

(* What loadCredentials() may return: both keys are needed. *)
LoadOutcomes ==
    {nvs = Keys} \cup (IF "read" \in Faults THEN {FALSE} ELSE {})

(* WifiAdapter::connect().  Called while the link is up, begin() may leave
   the link alone and report no event, or tear it down and join again. *)
Begin ==
    /\ begins' = IF begins <= MaxAttempts THEN begins + 1 ELSE begins
    /\ \/ /\ radio' \in IF radio = "up" THEN {"up", "joining"} ELSE {"joining"}
          /\ leaves' = IF radio' = "up" THEN 0 ELSE MaxLeaves
       \/ /\ "begin" \in Faults
          /\ UNCHANGED radioVars

(* DoStartProvisioning and the callback setup() installs. *)
StartProvisioning ==
    /\ attempts' = 0
    /\ begins' = 0
    /\ ble' = "on"
    /\ UNCHANGED <<radioVars, wifiShown>>

(* DoStopProvisioning and the callback setup() installs. *)
StopProvisioning == ble' = "stopping"

-----------------------------------------------------------------------------
(* handleQueueEvent, one action per event; WifiSm evaluates loadCredentials
   once for the plain row and, when that fails, again for the negated one. *)

HandleStart ==
    /\ Receive("StartRequested")
    /\ sm \in Accepts("StartRequested")
    /\ \E first, second \in LoadOutcomes :
          \/ /\ first
             /\ loaded' = TRUE
             /\ Begin
             /\ sm' = "Connecting"
             /\ UNCHANGED <<attempts, uiVars>>
          \/ /\ ~first /\ ~second
             /\ StartProvisioning
             /\ sm' = "Provisioning"
             /\ UNCHANGED loaded
          \/ /\ ~first /\ second
             /\ loaded' = TRUE
             /\ UNCHANGED <<sm, attempts, begins, radioVars, uiVars>>
    /\ UNCHANGED <<step, timer, storeVars, started>>

(* Mutant: resetReconnectAttempts() forgotten. *)
HandleConnectedKeepsCount ==
    /\ Receive("Connected")
    /\ sm \in Accepts("Connected")
    /\ sm' = "Connected"
    /\ begins' = 0
    /\ wifiShown' = TRUE
    /\ UNCHANGED <<step, attempts, timer, loaded, storeVars, radioVars, ble,
                   started>>

HandleConnected ==
    /\ Receive("Connected")
    /\ sm \in Accepts("Connected")
    /\ sm' = "Connected"
    /\ attempts' = 0
    /\ begins' = 0
    /\ wifiShown' = TRUE
    /\ UNCHANGED <<step, timer, loaded, storeVars, radioVars, ble, started>>

(* The first of the two events handleQueueEvent makes of a Disconnected. *)
HandleDisconnected ==
    /\ Receive("Disconnected")
    /\ sm \in Accepts("Disconnected")
    /\ sm' = "Disconnected"
    /\ step' = "reconnect"
    /\ wifiShown' = FALSE
    /\ UNCHANGED <<attempts, begins, timer, loaded, storeVars, radioVars, ble,
                   started>>

(* Mutant: off by one. *)
MaxReachedEarly == attempts + 1 >= MaxAttempts

(* hasReachedMaxReconnectAttempts *)
MaxReached == attempts >= MaxAttempts

(* Mutant: retries are not counted. *)
CountNothing == UNCHANGED attempts

(* increaseReconnectAttempts *)
CountRetry == attempts' = attempts + 1

(* The second: a retry while the budget lasts, provisioning after that. *)
RequestReconnect ==
    /\ step = "reconnect"
    /\ step' = "receive"
    /\ sm = "Disconnected"
    /\ \/ /\ ~MaxReached
          /\ CountRetry
          /\ \/ timer' = TRUE
             \/ "timer" \in Faults /\ UNCHANGED timer
          /\ sm' = "ReconnectPending"
          /\ UNCHANGED <<begins, radioVars, uiVars>>
       \/ /\ MaxReached
          /\ StartProvisioning
          /\ sm' = "Provisioning"
          /\ UNCHANGED timer
    /\ UNCHANGED <<queue, loaded, storeVars, started>>

HandleConnectRequested ==
    /\ Receive("ConnectRequested")
    /\ sm \in Accepts("ConnectRequested")
    /\ sm' = "Connecting"
    /\ Begin
    /\ UNCHANGED <<step, attempts, timer, loaded, storeVars, uiVars, started>>

HandleCredentialsReceived ==
    /\ Receive("CredentialsReceived")
    /\ sm \in Accepts("CredentialsReceived")
    /\ \E first, second \in LoadOutcomes :
          \/ /\ first
             /\ loaded' = TRUE
             /\ StopProvisioning
             /\ Begin
             /\ sm' = "Connecting"
          \/ /\ ~first
             /\ loaded' = (loaded \/ second)
             /\ UNCHANGED <<sm, begins, radioVars, ble>>
    /\ UNCHANGED <<step, attempts, timer, storeVars, wifiShown,
                   started>>

(* An event no row takes is consumed without effect. *)
IgnoreEvent ==
    /\ \E e \in Events : Receive(e) /\ sm \notin Accepts(e)
    /\ UNCHANGED <<taskVars, timer, storeVars, radioVars, uiVars, started>>

WifiTask ==
    \/ HandleStart
    \/ HandleConnected
    \/ HandleDisconnected
    \/ RequestReconnect
    \/ HandleConnectRequested
    \/ HandleCredentialsReceived
    \/ IgnoreEvent

-----------------------------------------------------------------------------
(* Mutant: the timer reloads itself. *)
TimerFiresPeriodically ==
    /\ timer
    /\ Enqueue("ConnectRequested")
    /\ UNCHANGED <<taskVars, timer, storeVars, radioVars, uiVars, started>>

(* The timer task: the timer is one-shot. *)
TimerFires ==
    /\ timer
    /\ timer' = FALSE
    /\ Enqueue("ConnectRequested")
    /\ UNCHANGED <<taskVars, storeVars, radioVars, uiVars, started>>

(* The Wi-Fi event callback: an address was obtained. *)
RadioGotIp ==
    /\ radio = "joining"
    /\ radio' = "up"
    /\ leaves' = 0
    /\ Enqueue("Connected")
    /\ UNCHANGED <<taskVars, timer, storeVars, uiVars, started>>

(* Mutant: ASSOC_LEAVE filtered as well. *)
FilteredLeave == {"ASSOC_FAIL", "CONNECTION_FAIL", "ASSOC_LEAVE"}

(* The reasons the Wi-Fi event callback does not report. *)
Filtered == {"ASSOC_FAIL", "CONNECTION_FAIL"}

(* STA_DISCONNECTED with a reason: begin() cleans up before it joins, the
   attempt fails, or an established link is lost. *)
RadioDisconnected(reason) ==
    /\ \/ /\ reason \in {"ASSOC_FAIL", "ASSOC_LEAVE"}
          /\ radio = "joining"
          /\ leaves > 0
          /\ leaves' = leaves - 1
          /\ UNCHANGED radio
       \/ /\ \/ reason = "NO_AP_FOUND" /\ radio = "joining"
             \/ reason = "CONNECTION_FAIL" /\ radio = "joining"
                  /\ "rejected" \in Faults
             \/ reason \in {"NO_AP_FOUND", "ASSOC_LEAVE"} /\ radio = "up"
          /\ radio' = "down"
          /\ leaves' = 0
    /\ IF reason \in Filtered THEN UNCHANGED queue ELSE Enqueue("Disconnected")
    /\ UNCHANGED <<taskVars, timer, storeVars, uiVars, started>>

-----------------------------------------------------------------------------
(* The BLE host task in saveCredentialsAndEnqueueUpdate.  Writing the
   password may be reported as failed (putString returns its length, 0 for
   an open network) whether or not the key was written. *)
SaveSsid ==
    /\ ble # "off"
    /\ saver = "idle"
    /\ Cardinality(Queued("CredentialsReceived")) < MaxSaves
    /\ nvs' = nvs \cup {"ssid"}
    /\ saver' = "ssidSaved"
    /\ UNCHANGED <<taskVars, queue, timer, radioVars, uiVars, started>>

SavePass ==
    /\ saver = "ssidSaved"
    /\ \/ /\ nvs' = nvs \cup {"pass"}
          /\ saver' = "bothSaved"
       \/ /\ "write" \in Faults
          /\ nvs' \in {nvs, nvs \cup {"pass"}}
          /\ saver' = "idle"
    /\ UNCHANGED <<taskVars, queue, timer, radioVars, uiVars, started>>

EnqueueUpdate ==
    /\ saver = "bothSaved"
    /\ saver' = "idle"
    /\ Enqueue("CredentialsReceived")
    /\ UNCHANGED <<taskVars, timer, nvs, radioVars, uiVars, started>>

(* BleProvisioner's task obeys the stop, some time later. *)
BleStops ==
    /\ ble = "stopping"
    /\ ble' = "off"
    /\ UNCHANGED <<taskVars, queue, timer, storeVars, radioVars, wifiShown,
                   started>>

(* A restart at any moment, in the middle of a save included. *)
Restart ==
    /\ "restart" \in Faults
    /\ sm' = "Idle"
    /\ step' = "receive"
    /\ queue' = <<>>
    /\ attempts' = 0
    /\ timer' = FALSE
    /\ loaded' = FALSE
    /\ saver' = "idle"
    /\ radio' = "down"
    /\ leaves' = 0
    /\ wifiShown' = FALSE
    /\ ble' = "off"
    /\ started' = FALSE
    /\ begins' = 0
    /\ UNCHANGED nvs

-----------------------------------------------------------------------------
Radio == RadioGotIp \/ \E reason \in Reasons : RadioDisconnected(reason)

Saver == SavePass \/ EnqueueUpdate

Next ==
    \/ EnqueueStart
    \/ WifiTask
    \/ TimerFires
    \/ Radio
    \/ SaveSsid
    \/ Saver
    \/ BleStops
    \/ Restart

Spec == Init /\ [][Next]_vars

(* FreeRTOS runs every ready task; an attempt the driver began ends. *)
AttemptEnds == radio = "joining" /\ Radio

Fairness ==
    /\ WF_vars(EnqueueStart)
    /\ WF_vars(WifiTask)
    /\ WF_vars(TimerFires)
    /\ WF_vars(Saver)
    /\ WF_vars(BleStops)
    /\ WF_vars(AttemptEnds)

FairSpec == Spec /\ Fairness

-----------------------------------------------------------------------------
(* Safety, whatever fails and whatever is dropped. *)

(* At most one retry is ever under way, as the armed timer or as one queued
   ConnectRequested, and only while the state machine waits for it: no timer
   of an earlier disconnect fires into a later state (startReconnectTimer,
   the ReconnectPending row and the one-shot timer callback together). *)
ReconnectToken ==
    /\ timer \/ Queued("ConnectRequested") # {} => sm = "ReconnectPending"
    /\ ~(timer /\ Queued("ConnectRequested") # {})
    /\ \A i, j \in Queued("ConnectRequested") : i = j

(* The retries counted are the attempts made: outside a retry sequence the
   count is zero, and within one each retry stands for one begin(), whatever
   is dropped or fails (increaseReconnectAttempts, resetReconnectAttempts). *)
AttemptBudget ==
    /\ sm \in {"Idle", "Connected", "Provisioning"} => attempts = 0 /\ begins = 0
    /\ sm = "ReconnectPending" => attempts >= 1 /\ begins \in {attempts - 1, attempts}
    /\ sm = "Connecting" => begins >= 1
    /\ sm \in {"Connecting", "Disconnected"} => begins \in {attempts, attempts + 1}

(* The display and the BLE provisioner have been told what the state machine
   is in, and StDisconnected is left before the next event is taken. *)
NotificationsAgree ==
    /\ wifiShown <=> sm = "Connected"
    /\ ble = "on" <=> sm = "Provisioning"
    /\ step = "reconnect" <=> sm = "Disconnected"

(* begin() is never called without credentials, and a queued update means
   that both keys are in flash, though the queue and the flash are written
   by one task and read by another (loadCredentials, saveCredentials). *)
CredentialsBehindAttempts ==
    /\ sm \notin {"Idle", "Provisioning"} => loaded /\ nvs = Keys
    /\ Queued("CredentialsReceived") # {} \/ saver = "bothSaved" => nvs = Keys
    /\ saver = "ssidSaved" => "ssid" \in nvs

(* A lost link leads to provisioning only after MaxAttempts begin() calls
   that brought no connection (guMaxAttemptsReached). *)
GiveUpOnlyAfterBudget ==
    [][sm = "Disconnected" /\ sm' = "Provisioning" => begins >= MaxAttempts]_vars

(* The subsystem implements its abstract lifecycle. *)
Lifecycle == INSTANCE WifiLifecycle WITH
    phase <- CASE sm = "Idle"         -> "booting"
               [] sm = "Connected"    -> "online"
               [] sm = "Provisioning" -> "setup"
               [] OTHER               -> "offline",
    used <- attempts

(* Every behaviour of the code's model is one of the lifecycle's: the retry
   budget is spent and given back only as it promises. *)
ImplementsLifecycle == Lifecycle!Spec

-----------------------------------------------------------------------------
(* Safety and liveness while the environment is well behaved: no fault, no
   clean-up disconnect, and at most MaxSaves updates waiting in the queue. *)

(* The queue has room for every event: none is ever dropped. *)
NeverFull == Len(queue) < QueueLength

(* Whatever state the machine rests in, what makes it leave is on its way:
   a retry, the outcome of the attempt, or the report of a lost link. *)
NeverStalls ==
    /\ sm = "ReconnectPending" => timer \/ Queued("ConnectRequested") # {}
    /\ sm = "Connecting" =>
          radio = "joining" \/ Queued("Connected") # {} \/ Queued("Disconnected") # {}
    /\ sm = "Connected" => radio = "up" \/ Queued("Disconnected") # {}

(* When begin() is about to be called the link is down and no event of an
   earlier attempt is queued: an outcome is never taken for another one's. *)
NoStaleLinkEvent ==
    sm \in {"Idle", "ReconnectPending", "Provisioning"} =>
        radio = "down" /\ Queued("Connected") \cup Queued("Disconnected") = {}

(* The device always comes to rest online or asking its user. *)
Settles == []<>(sm \in {"Connected", "Provisioning"})
=============================================================================
