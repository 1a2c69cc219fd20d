------------------------------ MODULE Presence ------------------------------
(***************************************************************************)
(* What the backend knows of a device that it did not see: whether it is   *)
(* online, its description and its sensor's mode.  The device's MQTT       *)
(* client, the broker with its retained messages and the device's will,    *)
(* the ingestion process, and the web requests that send a command to a    *)
(* device shown online.                                                    *)
(*                                                                         *)
(* Of the client library and the broker: QoS 1 messages wait in an outbox, *)
(* the unacknowledged ones are sent again in order after a reconnect; a    *)
(* client that connects ends the older session of the same client id; a    *)
(* clean session forgets what was not acknowledged; a PUBACK follows the   *)
(* event handler.                                                          *)
(***************************************************************************)
EXTENDS Naturals, Sequences, SequencesExt

CONSTANTS
    Modes,
    QueueSize,      \* TELEMETRY_EVENT_QUEUE_LENGTH
    MaxOutbox,      \* bound: messages published and not acknowledged
    MaxInbox,       \* bound: messages on their way to the ingestion process
    MaxCommands,    \* bound: reboots asked for
    Scenarios       \* sets of the failures and other events there may be

FaultKinds ==
    {"offline",     \* either end loses the connection
     "restart",     \* the device restarts
     "backend",     \* the ingestion process stops and comes back
     "modes",       \* the sensor's mode is changed
     "commands",    \* reboots are asked for
     "telemetry",   \* the sensor has readings, which share the queue
     "full",        \* the mode changes while the queue is full
     "expire",      \* the client library gives up a message unsent for 30 s
     "overtake",    \* a message is sent at once, before older ones sent again
     "register",    \* the device is claimed only after a while
     "publish",     \* the web process does not reach the broker
     "slow"}        \* the broker does not answer the web process in 500 ms

None == "none"
Data == "data"

ASSUME PresenceConstants ==
    /\ None \notin Modes /\ Data \notin Modes
    /\ QueueSize \in Nat \ {0}
    /\ MaxOutbox \in Nat /\ MaxOutbox > 2
    /\ MaxInbox \in Nat /\ MaxInbox > 2
    /\ MaxCommands \in Nat
    /\ Scenarios \subseteq SUBSET FaultKinds

VARIABLES
    faults,       \* the scenario, fixed throughout
    link,         \* the device's client: off, down, accepted, up (m_connected)
    mode,         \* EnvSensor's m_mode
    queue,        \* TelemetryPublisher's m_queue
    outbox,       \* the messages published and not acknowledged
    sent,         \* how many of them this connection has sent
    session,      \* the broker's session of the device
    retained,     \* per topic: the message the broker retains
    commands,     \* the commands of the session the device has not acknowledged
    listening,    \* is the ingestion process subscribed?
    inbox,        \* the messages on their way to it
    registered,   \* is there a Device row?
    row,          \* per topic: what DeviceStatus and DeviceInfo hold
    web,          \* the request: idle, or past its look at the status
    answer,       \* what the last request told its user
    asked,        \* history: the reboots the broker was asked for
    reboots       \* history: the reboots commanded

deviceVars == <<link, mode, queue, outbox, sent>>
brokerVars == <<session, retained, commands>>
backendVars == <<listening, inbox, registered, row>>
webVars == <<web, answer, asked>>
vars == <<faults, deviceVars, brokerVars, backendVars, webVars, reboots>>

Topics == {"status", "info", "mode"}
Values == {"online", "offline", "known"} \cup Modes
Message(topic, value) == [topic |-> topic, value |-> value]
Messages == [topic : Topics, value : Values] \cup {Message(Data, Data)}
Rows == [Topics -> Values \cup {None}]

TypeOK ==
    /\ faults \in Scenarios
    /\ link \in {"off", "down", "accepted", "up"}
    /\ mode \in Modes
    /\ queue \in Seq(Modes \cup {Data}) /\ Len(queue) <= QueueSize
    /\ outbox \in Seq(Messages) /\ Len(outbox) <= MaxOutbox
    /\ sent \in 0..Len(outbox)
    /\ session \in {None, "open", "subscribed"}
    /\ retained \in Rows
    /\ commands \in 0..MaxCommands
    /\ listening \in BOOLEAN
    /\ inbox \in Seq(Messages) /\ Len(inbox) <= MaxInbox
    /\ registered \in BOOLEAN
    /\ row \in Rows
    /\ web \in {"idle", "publish"}
    /\ answer \in {None, "refused", "sent", "failed"}
    /\ asked \in 0..MaxCommands
    /\ reboots \in Nat

Init ==
    /\ faults \in Scenarios
    /\ link = "off"
    /\ mode \in Modes
    /\ queue = <<mode>>
    /\ outbox = <<>> /\ sent = 0
    /\ session = None
    /\ retained = [t \in Topics |-> None]
    /\ commands = 0
    /\ listening = FALSE
    /\ inbox = <<>>
    /\ registered = ("register" \notin faults)
    /\ row = [t \in Topics |-> None]
    /\ web = "idle"
    /\ answer = None
    /\ asked = 0 /\ reboots = 0

-----------------------------------------------------------------------------
(* The broker receives a message and hands it to the subscriber. *)

(* Mutant: the status is published like a reading. *)
RetainedFacts(topic) == topic \in {"info", "mode"}

Retained(topic) == topic \in {"status", "info", "mode"}

BrokerReceives(m) ==
    /\ retained' = IF Retained(m.topic) THEN [retained EXCEPT ![m.topic] = m.value] ELSE retained
    /\ listening => Len(inbox) < MaxInbox
    /\ inbox' = IF listening THEN Append(inbox, m) ELSE inbox

(* The will the client registers when it connects. *)
Will == Message("status", "offline")

-----------------------------------------------------------------------------
(* The sensor and telemetry tasks. *)
Enqueue(e) == queue' = IF Len(queue) < QueueSize THEN Append(queue, e) ELSE queue

(* EnvSensor::applyMode, asked for by a user or an update. *)
ApplyMode(m) ==
    /\ "modes" \in faults /\ m # mode
    /\ "full" \in faults \/ Len(queue) < QueueSize
    /\ mode' = m
    /\ Enqueue(m)
    /\ UNCHANGED <<link, outbox, sent, brokerVars, backendVars, webVars, reboots>>

Sample ==
    /\ "telemetry" \in faults
    /\ Enqueue(Data)
    /\ UNCHANGED <<link, mode, outbox, sent, brokerVars, backendVars, webVars, reboots>>

Linked == link = "up" /\ session # None

(* Room for n more; a new connection takes two. *)
Room(n) == Len(outbox) + n <= MaxOutbox

(* Mutant: the mode is sent like the description, to a connected broker only. *)
TelemetryTaskConnected ==
    /\ queue # <<>> /\ Room(IF Linked THEN 1 ELSE 3)
    /\ queue' = Tail(queue)
    /\ outbox' = IF link # "up" THEN outbox
                 ELSE Append(outbox, Message(IF Head(queue) = Data THEN Data ELSE "mode", Head(queue)))
    /\ UNCHANGED <<link, mode, sent, brokerVars, backendVars, webVars, reboots>>

(* TelemetryPublisher::handle, then sendTelemetryData or sendTelemetryInfo:
   published whether or not the client is connected. *)
TelemetryTask ==
    /\ queue # <<>> /\ Room(IF Linked THEN 1 ELSE 3)
    /\ queue' = Tail(queue)
    /\ outbox' = Append(outbox, Message(IF Head(queue) = Data THEN Data ELSE "mode", Head(queue)))
    /\ UNCHANGED <<link, mode, sent, brokerVars, backendVars, webVars, reboots>>

-----------------------------------------------------------------------------
(* The MQTT client. *)

(* connect(), the first time; later calls only hurry a reconnect. *)
StartClient ==
    /\ link = "off"
    /\ link' = "down"
    /\ UNCHANGED <<mode, queue, outbox, sent, brokerVars, backendVars, webVars, reboots>>

(* Mutant: a session that is kept. *)
ConnectPersistent ==
    /\ link = "down"
    /\ link' = "accepted" /\ session' = IF commands = 0 THEN "open" ELSE "subscribed"
    /\ IF session = None THEN UNCHANGED <<retained, inbox>> ELSE BrokerReceives(Will)
    /\ UNCHANGED <<mode, queue, outbox, sent, commands, listening, registered, row, webVars, reboots>>

(* The broker accepts the client, with a clean session, and ends the session
   it may still have of it. *)
Connect ==
    /\ link = "down"
    /\ link' = "accepted" /\ session' = "open"
    /\ commands' = 0
    /\ IF session = None THEN UNCHANGED <<retained, inbox>> ELSE BrokerReceives(Will)
    /\ UNCHANGED <<mode, queue, outbox, sent, listening, registered, row, webVars, reboots>>

(* handleConnected and the callback that sends the device's description. *)
HandleConnected ==
    /\ link = "accepted" /\ session # None
    /\ link' = "up" /\ session' = "subscribed"
    /\ outbox' = outbox \o <<Message("status", "online"), Message("info", "known")>>
    /\ UNCHANGED <<mode, queue, sent, retained, commands, backendVars, webVars, reboots>>

(* handleDisconnected: the client notices that the connection is gone. *)
HandleDisconnected ==
    /\ link \in {"accepted", "up"}
    /\ "offline" \in faults \/ session = None
    /\ Room(2)
    /\ link' = "down" /\ sent' = 0
    /\ UNCHANGED <<mode, queue, outbox, brokerVars, backendVars, webVars, reboots>>

(* The broker notices it and publishes the will. *)
SessionEnds ==
    /\ session # None
    /\ "offline" \in faults \/ link \in {"off", "down"}
    /\ link = "up" => Room(2)
    /\ session' = None /\ commands' = 0
    /\ BrokerReceives(Will)
    /\ UNCHANGED <<deviceVars, listening, registered, row, webVars, reboots>>

Deliver ==
    /\ Linked /\ sent < Len(outbox)
    /\ BrokerReceives(outbox[sent + 1])
    /\ sent' = sent + 1
    /\ UNCHANGED <<link, mode, queue, outbox, session, commands, listening, registered, row, webVars, reboots>>

Overtake ==
    /\ "overtake" \in faults
    /\ Linked /\ sent < Len(outbox)
    /\ BrokerReceives(Last(outbox))
    /\ outbox' = Front(outbox)
    /\ UNCHANGED <<link, mode, queue, sent, session, commands, listening, registered, row, webVars, reboots>>

Acknowledge ==
    /\ Linked /\ sent > 0
    /\ outbox' = Tail(outbox) /\ sent' = sent - 1
    /\ UNCHANGED <<link, mode, queue, brokerVars, backendVars, webVars, reboots>>

Expire(k) ==
    /\ "expire" \in faults
    /\ link # "up"
    /\ outbox' = RemoveAt(outbox, k)
    /\ UNCHANGED <<link, mode, queue, sent, brokerVars, backendVars, webVars, reboots>>

(* setup(): the mode is stored, and told again when it is applied. *)
Boot ==
    /\ link' = "off"
    /\ queue' = <<mode>>
    /\ outbox' = <<>> /\ sent' = 0
    /\ UNCHANGED <<mode, brokerVars, backendVars, webVars>>

Restart ==
    /\ "restart" \in faults
    /\ Boot
    /\ UNCHANGED reboots

(* handleCommandMessage restarts the device before it acknowledges.  The bound
   lets the model see one reboot more than were asked for. *)
RebootCommanded ==
    /\ link = "up" /\ session = "subscribed" /\ commands > 0
    /\ reboots <= MaxCommands
    /\ reboots' = reboots + 1
    /\ Boot

-----------------------------------------------------------------------------
(* The ingestion process. *)

(* _on_connect: the broker answers a subscription with what it retains. *)
Held(topic) == IF retained[topic] = None THEN <<>> ELSE <<Message(topic, retained[topic])>>

Subscribe ==
    /\ ~listening
    /\ listening' = TRUE
    /\ inbox' = Held("status") \o Held("info") \o Held("mode")
    /\ UNCHANGED <<deviceVars, brokerVars, registered, row, webVars, reboots>>

StopListening ==
    /\ "backend" \in faults
    /\ listening
    /\ listening' = FALSE /\ inbox' = <<>>
    /\ UNCHANGED <<deviceVars, brokerVars, registered, row, webVars, reboots>>

(* _handle_device_status, _handle_device_info and _handle_sensor_info; a
   message of a device without a row is dropped.  Readings: see Ingestion. *)
HandleMessage ==
    /\ inbox # <<>>
    /\ inbox' = Tail(inbox)
    /\ LET m == Head(inbox) IN
          row' = IF registered /\ m.topic \in Topics THEN [row EXCEPT ![m.topic] = m.value] ELSE row
    /\ UNCHANGED <<deviceVars, brokerVars, listening, registered, webVars, reboots>>

(* IaqDeviceAddView creates the Device row. *)
Register ==
    /\ ~registered
    /\ registered' = TRUE
    /\ UNCHANGED <<deviceVars, brokerVars, listening, inbox, row, webVars, reboots>>

-----------------------------------------------------------------------------
(* IaqDevicePublishView: a look at the status, then the command. *)
Refuse ==
    /\ web = "idle" /\ registered /\ row["status"] # "online"
    /\ answer' = "refused"
    /\ UNCHANGED <<deviceVars, brokerVars, backendVars, web, asked, reboots>>

PassCheck ==
    /\ web = "idle" /\ registered /\ row["status"] = "online"
    /\ "commands" \in faults /\ asked < MaxCommands
    /\ web' = "publish"
    /\ UNCHANGED <<deviceVars, brokerVars, backendVars, answer, asked, reboots>>

(* publish() succeeds, within its time or with the broker's answer still under
   way: the broker passes the command to a device that is subscribed, or to
   nobody. *)
PublishCommand ==
    /\ web = "publish"
    /\ web' = "idle" /\ answer' = "sent"
    /\ asked' = asked + 1
    /\ commands' = IF session = "subscribed" THEN commands + 1 ELSE commands
    /\ UNCHANGED <<deviceVars, session, retained, backendVars, reboots>>

(* wait_for_publish() returns when its time is up, and so does publish(),
   before the broker has the command. *)
PublishTimesOut ==
    /\ "slow" \in faults
    /\ web = "publish"
    /\ web' = "idle" /\ answer' = "sent"
    /\ UNCHANGED <<deviceVars, brokerVars, backendVars, asked, reboots>>

PublishFails ==
    /\ "publish" \in faults
    /\ web = "publish"
    /\ web' = "idle" /\ answer' = "failed"
    /\ UNCHANGED <<deviceVars, brokerVars, backendVars, asked, reboots>>

Step ==
    \/ \E m \in Modes : ApplyMode(m)
    \/ Sample \/ TelemetryTask
    \/ StartClient \/ Connect \/ HandleConnected \/ HandleDisconnected \/ SessionEnds
    \/ Deliver \/ Overtake \/ Acknowledge
    \/ \E k \in DOMAIN outbox : Expire(k)
    \/ Restart \/ RebootCommanded
    \/ Subscribe \/ StopListening \/ HandleMessage \/ Register
    \/ Refuse \/ PassCheck \/ PublishCommand \/ PublishTimesOut \/ PublishFails

Next == Step /\ UNCHANGED faults

Spec == Init /\ [][Next]_vars

-----------------------------------------------------------------------------
(* Nothing is on its way, and both ends agree on the connection. *)
Settled ==
    /\ queue = <<>> /\ outbox = <<>>
    /\ listening /\ inbox = <<>>
    /\ (link = "up") <=> (session # None)

(* Whatever was lost, missed or sent again: once nothing is on its way, the
   backend holds what the broker retains, and shows a device online exactly
   when it is connected (mqtt_bridge.cpp:89-97 and 495, handlers.py:207).  What
   was said before the device was claimed is dropped, and not asked for again. *)
StatusAgrees ==
    Settled /\ "register" \notin faults =>
        /\ row = retained
        /\ session # None => row["status"] = "online" /\ row["info"] = "known"
        /\ session = None => row["status"] # "online"

(* The backend knows the sensor's mode of a connected device
   (mqtt_bridge.hpp:61-62, mqtt_bridge.cpp:242-243), unless the queue was full,
   or the client library gave up the message or sent it out of order. *)
ModeAgrees ==
    Settled /\ session # None /\ faults \cap {"register", "full", "expire", "overtake"} = {} =>
        row["mode"] = mode

(* A reboot asked for once reboots the device once: it restarts before it
   acknowledges, so that a session that was kept would reboot it for ever
   (mqtt_bridge.cpp:65 and 394-397). *)
RebootOnce == reboots <= asked

(* A device is refused as offline only while it is, or while the news is still
   on its way (views.py:229 "Device is offline."). *)
RefusedIsOffline == [][Refuse => ~Settled \/ session = None]_vars
=============================================================================
