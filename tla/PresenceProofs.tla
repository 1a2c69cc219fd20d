---------------------------- MODULE PresenceProofs ----------------------------
(***************************************************************************)
(* What PresenceFaults.cfg checks, proved for every set of modes, length   *)
(* of the queues and scenario: once nothing is on its way the backend      *)
(* knows what there is to know, and no reboot is commanded twice.  The     *)
(* argument follows each fact from the device to the row: the last message *)
(* about it that is still in a queue says what the sender holds, and where *)
(* there is none the receiver holds it already.                            *)
(***************************************************************************)
EXTENDS Presence, TLAPS

(* Of the messages s about a topic, the last one says v, or there is none and
   known is v. *)
LastSays(s, topic, v, known) ==
    \/ \E i \in DOMAIN s :
          /\ s[i].topic = topic /\ s[i].value = v
          /\ \A j \in DOMAIN s : j > i => s[j].topic # topic
    \/ v = known /\ \A j \in DOMAIN s : s[j].topic # topic

(* The device says of itself that it is online and known, and nothing else, and
   keeps room for saying it anew. *)
DeviceAgrees ==
    /\ ~Linked => Room(2)
    /\ link # "up" => sent = 0
    /\ \A i \in DOMAIN outbox :
          /\ outbox[i].topic = "status" => outbox[i].value = "online"
          /\ outbox[i].topic = "info" => outbox[i].value = "known"

(* The broker retains that a device is online while it is, or will have it
   from the device, and never while it has no session. *)
BrokerAgrees ==
    /\ session = None => retained["status"] # "online"
    /\ Linked => \A topic \in {"status", "info"} :
          \/ retained[topic] = IF topic = "status" THEN "online" ELSE "known"
          \/ \E i \in DOMAIN outbox : i > sent /\ outbox[i].topic = topic

(* The ingestion process holds what the broker retains, or will have it. *)
BackendAgrees ==
    /\ "register" \notin faults => registered
    /\ \A topic \in Topics : retained[topic] = None =>
          row[topic] = None /\ \A i \in DOMAIN inbox : inbox[i].topic # topic
    /\ registered /\ "register" \notin faults /\ listening =>
          \A topic \in Topics : LastSays(inbox, topic, retained[topic], row[topic])
    /\ ~listening => inbox = <<>>

(* The mode the sensor is in is the last one queued; with none queued, the last
   one published; with none of those, the one retained.  What was sent of the
   outbox the broker has. *)
LastQueued ==
    \E i \in DOMAIN queue : queue[i] = mode /\ \A j \in DOMAIN queue : j > i => queue[j] = Data

ModeOnItsWay ==
    faults \cap {"full", "expire", "overtake"} = {} =>
        /\ \/ LastQueued
           \/ /\ \A j \in DOMAIN queue : queue[j] = Data
              /\ LastSays(outbox, "mode", mode, retained["mode"])
        /\ \A i \in DOMAIN outbox :
              /\ i <= sent /\ outbox[i].topic = "mode"
              /\ \A j \in DOMAIN outbox : j > i => outbox[j].topic # "mode"
              => retained["mode"] = outbox[i].value

(* A command not acknowledged was asked for and, while the device may receive
   it, is none of those that rebooted it.  A request past its check has one
   left to ask for. *)
CommandsAgree ==
    /\ commands <= asked /\ reboots <= asked
    /\ link \in {"accepted", "up"} => reboots + commands <= asked
    /\ web = "publish" => asked < MaxCommands

IInv ==
    /\ TypeOK
    /\ DeviceAgrees
    /\ BrokerAgrees
    /\ BackendAgrees
    /\ ModeOnItsWay
    /\ CommandsAgree

-----------------------------------------------------------------------------
(* What is said last, when a message is added or the first one is taken. *)

LEMMA AppendSays ==
    ASSUME NEW S, NEW s \in Seq(S), NEW m \in S, NEW topic, NEW v, NEW known,
           IF m.topic = topic THEN v = m.value ELSE LastSays(s, topic, v, known)
    PROVE  LastSays(Append(s, m), topic, v, known)
<1> DEFINE t == Append(s, m)
<1>1. /\ Len(s) \in Nat /\ DOMAIN s = 1..Len(s) /\ DOMAIN t = 1..(Len(s) + 1)
      /\ \A i \in 1..Len(s) : t[i] = s[i]
      /\ t[Len(s) + 1] = m
  OBVIOUS
<1> HIDE DEF t
<1>2. CASE m.topic = topic
  <2>1. \A j \in DOMAIN t : ~(j > Len(s) + 1)
    BY <1>1
  <2> QED
    BY <1>1, <1>2, <2>1 DEF LastSays, t
<1>3. CASE m.topic # topic
  <2>1. \A j \in DOMAIN t : j \in DOMAIN s \/ t[j].topic # topic
    BY <1>1, <1>3
  <2>2. DOMAIN s \subseteq DOMAIN t /\ \A i \in DOMAIN s : t[i] = s[i]
    BY <1>1
  <2> QED
    BY <1>3, <2>1, <2>2 DEF LastSays, t
<1> QED
  BY <1>2, <1>3

LEMMA TailSays ==
    ASSUME NEW S, NEW s \in Seq(S), s # <<>>, NEW topic, NEW v, NEW known,
           LastSays(s, topic, v, known), NEW next,
           \/ next = IF Head(s).topic = topic THEN Head(s).value ELSE known
           \/ \E j \in DOMAIN Tail(s) : Tail(s)[j].topic = topic
    PROVE  LastSays(Tail(s), topic, v, next)
<1> DEFINE t == Tail(s)
<1>1. /\ Len(s) \in Nat /\ Len(s) > 0 /\ DOMAIN s = 1..Len(s) /\ DOMAIN t = 1..(Len(s) - 1)
      /\ \A i \in 1..(Len(s) - 1) : t[i] = s[i + 1]
      /\ Head(s) = s[1]
  OBVIOUS
<1> HIDE DEF t
<1>2. \A j \in DOMAIN t : j + 1 \in DOMAIN s /\ t[j] = s[j + 1]
  BY <1>1
<1>3. CASE v = known /\ \A j \in DOMAIN s : s[j].topic # topic
  BY <1>1, <1>2, <1>3 DEF LastSays, t
<1>4. CASE \E i \in DOMAIN s : /\ s[i].topic = topic /\ s[i].value = v
                              /\ \A j \in DOMAIN s : j > i => s[j].topic # topic
  <2>1. PICK i \in DOMAIN s : /\ s[i].topic = topic /\ s[i].value = v
                              /\ \A j \in DOMAIN s : j > i => s[j].topic # topic
    BY <1>4
  <2>2. CASE i = 1
    <3>1. \A j \in DOMAIN t : t[j].topic # topic
      BY <1>1, <1>2, <2>1, <2>2
    <3> QED
      BY <1>1, <2>1, <2>2, <3>1 DEF LastSays, t
  <2>3. CASE i # 1
    <3>1. i - 1 \in DOMAIN t /\ t[i - 1] = s[i]
      BY <1>1, <2>3
    <3>2. \A j \in DOMAIN t : j > i - 1 => t[j].topic # topic
      BY <1>1, <1>2, <2>1
    <3> QED
      BY <2>1, <3>1, <3>2 DEF LastSays, t
  <2> QED
    BY <2>2, <2>3
<1> QED
  BY <1>3, <1>4 DEF LastSays

-----------------------------------------------------------------------------
(* The types, in three parts. *)

DeviceTypeOK ==
    /\ link \in {"off", "down", "accepted", "up"}
    /\ mode \in Modes
    /\ queue \in Seq(Modes \cup {Data}) /\ Len(queue) <= QueueSize
    /\ outbox \in Seq(Messages) /\ Len(outbox) <= MaxOutbox
    /\ sent \in 0..Len(outbox)

ServerTypeOK ==
    /\ session \in {None, "open", "subscribed"}
    /\ retained \in Rows
    /\ listening \in BOOLEAN
    /\ inbox \in Seq(Messages) /\ Len(inbox) <= MaxInbox
    /\ registered \in BOOLEAN
    /\ row \in Rows

CommandTypeOK ==
    /\ commands \in 0..MaxCommands
    /\ web \in {"idle", "publish"}
    /\ answer \in {None, "refused", "sent", "failed"}
    /\ asked \in 0..MaxCommands
    /\ reboots \in Nat

LEMMA TypesInParts ==
    /\ TypeOK <=> faults \in Scenarios /\ DeviceTypeOK /\ ServerTypeOK /\ CommandTypeOK
    /\ TypeOK' <=> (faults \in Scenarios /\ DeviceTypeOK /\ ServerTypeOK /\ CommandTypeOK)'
BY DEF TypeOK, DeviceTypeOK, ServerTypeOK, CommandTypeOK

(* The broker hands on what it receives, and what it retains of it is a fact
   about the device. *)

LEMMA BrokerReceivesEffect ==
    ASSUME PresenceConstants, ServerTypeOK, BackendAgrees, NEW m \in Messages,
           BrokerReceives(m),
           UNCHANGED <<faults, listening, registered, row>>
    PROVE  /\ retained' \in Rows
           /\ \A topic \in Topics :
                 retained'[topic] = IF m.topic = topic THEN m.value ELSE retained[topic]
           /\ inbox' \in Seq(Messages) /\ Len(inbox') <= MaxInbox
           /\ BackendAgrees'
<1>0. m.topic \in Topics => m.value \in Values
  BY DEF Messages, Message, Topics, Data
<1>1. /\ retained' \in Rows
      /\ \A topic \in Topics :
            retained'[topic] = IF m.topic = topic THEN m.value ELSE retained[topic]
  BY <1>0 DEF ServerTypeOK, BrokerReceives, Retained, Topics, Rows
<1>2. inbox' \in Seq(Messages) /\ Len(inbox') <= MaxInbox
  <2>1. CASE listening
    <3>1. inbox' = Append(inbox, m) /\ Len(inbox) < MaxInbox /\ inbox \in Seq(Messages)
      BY <2>1 DEF BrokerReceives, ServerTypeOK
    <3> QED
      BY <3>1, PresenceConstants DEF PresenceConstants
  <2>2. CASE ~listening
    BY <2>2 DEF BrokerReceives, ServerTypeOK
  <2> QED
    BY <2>1, <2>2
<1>3. \A topic \in Topics : retained'[topic] = None =>
         row[topic] = None /\ \A i \in DOMAIN inbox' : inbox'[i].topic # topic
  <2>1. SUFFICES ASSUME NEW topic \in Topics, retained'[topic] = None
                 PROVE  row[topic] = None /\ \A i \in DOMAIN inbox' : inbox'[i].topic # topic
    OBVIOUS
  <2>2. m.topic # topic
    <3>1. None \notin Values
      BY PresenceConstants DEF PresenceConstants, Values, None
    <3> QED
      BY <1>0, <1>1, <2>1, <3>1
  <2>3. row[topic] = None /\ \A i \in DOMAIN inbox : inbox[i].topic # topic
    BY <1>1, <2>1, <2>2 DEF BackendAgrees
  <2>4. CASE listening
    <3>1. inbox' = Append(inbox, m) /\ inbox \in Seq(Messages)
      BY <2>4 DEF BrokerReceives, ServerTypeOK
    <3>2. \A i \in DOMAIN inbox' : inbox'[i] = m \/ (i \in DOMAIN inbox /\ inbox'[i] = inbox[i])
      BY <3>1
    <3> QED
      BY <2>2, <2>3, <3>2
  <2>5. CASE ~listening
    BY <2>3, <2>5 DEF BrokerReceives
  <2> QED
    BY <2>4, <2>5 DEF ServerTypeOK
<1>4. registered /\ "register" \notin faults /\ listening =>
         \A topic \in Topics : LastSays(inbox', topic, retained'[topic], row[topic])
  <2>1. SUFFICES ASSUME registered, "register" \notin faults, listening, NEW topic \in Topics
                 PROVE  LastSays(inbox', topic, retained'[topic], row[topic])
    OBVIOUS
  <2>2. inbox' = Append(inbox, m) /\ inbox \in Seq(Messages)
    BY <2>1 DEF BrokerReceives, ServerTypeOK
  <2>3. LastSays(inbox, topic, retained[topic], row[topic])
    BY <2>1 DEF BackendAgrees
  <2> QED
    BY <1>1, <2>2, <2>3, AppendSays
<1>5. ~listening => inbox' = <<>>
  BY DEF BackendAgrees, BrokerReceives
<1>6. BackendAgrees'
  BY <1>3, <1>4, <1>5 DEF BackendAgrees
<1> QED
  BY <1>1, <1>2, <1>6

-----------------------------------------------------------------------------
(* Each part of the invariant depends on a few variables only. *)
LEMMA Frames ==
    ASSUME IInv, UNCHANGED faults
    PROVE  /\ UNCHANGED <<link, outbox, sent, session>> => DeviceAgrees'
           /\ UNCHANGED <<link, outbox, sent, session, retained>> => BrokerAgrees'
           /\ UNCHANGED <<retained, listening, inbox, registered, row>> => BackendAgrees'
           /\ UNCHANGED <<mode, queue, outbox, sent>> /\ retained'["mode"] = retained["mode"]
                => ModeOnItsWay'
           /\ UNCHANGED <<link, commands, asked, reboots, web>> => CommandsAgree'
<1>1. UNCHANGED <<link, outbox, sent, session>> => DeviceAgrees'
  BY DEF IInv, DeviceAgrees, Linked, Room
<1>2. UNCHANGED <<link, outbox, sent, session, retained>> => BrokerAgrees'
  BY DEF IInv, BrokerAgrees, Linked
<1>3. UNCHANGED <<retained, listening, inbox, registered, row>> => BackendAgrees'
  BY DEF IInv, BackendAgrees
<1>4. UNCHANGED <<mode, queue, outbox, sent>> /\ retained'["mode"] = retained["mode"]
         => ModeOnItsWay'
  BY DEF IInv, ModeOnItsWay, LastQueued
<1>5. UNCHANGED <<link, commands, asked, reboots, web>> => CommandsAgree'
  BY DEF IInv, CommandsAgree
<1> QED
  BY <1>1, <1>2, <1>3, <1>4, <1>5

LEMMA TypeFrames ==
    ASSUME IInv, UNCHANGED faults
    PROVE  /\ faults' \in Scenarios /\ DeviceTypeOK /\ ServerTypeOK /\ CommandTypeOK
           /\ UNCHANGED deviceVars => DeviceTypeOK'
           /\ UNCHANGED <<session, retained, listening, inbox, registered, row>> => ServerTypeOK'
           /\ UNCHANGED <<commands, web, answer, asked, reboots>> => CommandTypeOK'
BY TypesInParts
   DEF IInv, TypeOK, DeviceTypeOK, ServerTypeOK, CommandTypeOK, deviceVars

LEMMA Sizes ==
    ASSUME PresenceConstants, DeviceTypeOK
    PROVE  /\ {Len(outbox), Len(queue), sent, MaxOutbox, QueueSize} \subseteq Nat
           /\ sent <= Len(outbox) /\ MaxOutbox > 2
           /\ DOMAIN outbox = 1..Len(outbox) /\ DOMAIN queue = 1..Len(queue)
BY DEF DeviceTypeOK, PresenceConstants

-----------------------------------------------------------------------------
LEMMA InitIInv ==
    ASSUME PresenceConstants, Init
    PROVE  IInv
<1>1. /\ Len(outbox) = 0 /\ DOMAIN outbox = {} /\ outbox \in Seq(Messages)
      /\ Len(inbox) = 0 /\ DOMAIN inbox = {} /\ inbox \in Seq(Messages)
      /\ queue \in Seq(Modes \cup {Data}) /\ Len(queue) = 1 /\ DOMAIN queue = {1}
      /\ queue[1] = mode
  BY DEF Init
<1>2. DeviceTypeOK
  BY <1>1 DEF Init, DeviceTypeOK, PresenceConstants
<1>3. ServerTypeOK
  <2>1. registered \in BOOLEAN
    BY DEF Init
  <2>2. [t \in Topics |-> None] \in Rows
    BY DEF Rows
  <2>3. Len(inbox) <= MaxInbox
    BY <1>1 DEF PresenceConstants
  <2> QED
    BY <1>1, <2>1, <2>2, <2>3 DEF Init, ServerTypeOK
<1>4. CommandTypeOK
  BY DEF Init, CommandTypeOK, PresenceConstants
<1>5. DeviceAgrees /\ BrokerAgrees
  BY <1>1 DEF Init, DeviceAgrees, BrokerAgrees, Linked, Room, PresenceConstants, None, Topics
<1>6. BackendAgrees
  BY <1>1 DEF Init, BackendAgrees
<1>7. ModeOnItsWay
  BY <1>1 DEF ModeOnItsWay, LastQueued
<1>8. CommandsAgree
  BY DEF Init, CommandsAgree
<1> QED
  BY <1>2, <1>3, <1>4, <1>5, <1>6, <1>7, <1>8, TypesInParts DEF IInv, Init

-----------------------------------------------------------------------------
(* The sensor: the newest mode is the last one queued. *)

LEMMA EnqueueEffect ==
    ASSUME PresenceConstants, DeviceTypeOK, NEW e \in Modes \cup {Data}, Enqueue(e)
    PROVE  /\ queue' \in Seq(Modes \cup {Data}) /\ Len(queue') <= QueueSize
           /\ Len(queue) >= QueueSize => queue' = queue
           /\ Len(queue) < QueueSize =>
                 /\ DOMAIN queue' = DOMAIN queue \cup {Len(queue) + 1}
                 /\ queue'[Len(queue) + 1] = e
                 /\ \A i \in DOMAIN queue : queue'[i] = queue[i]
<1>1. queue \in Seq(Modes \cup {Data}) /\ Len(queue) <= QueueSize /\ Len(queue) \in Nat
      /\ QueueSize \in Nat
  BY DEF DeviceTypeOK, PresenceConstants
<1>2. CASE Len(queue) < QueueSize
  <2>1. queue' = Append(queue, e)
    BY <1>2 DEF Enqueue
  <2> QED
    BY <1>1, <1>2, <2>1
<1>3. CASE ~(Len(queue) < QueueSize)
  BY <1>1, <1>3 DEF Enqueue
<1> QED
  BY <1>2, <1>3

LEMMA ApplyModeKeeps ==
    ASSUME PresenceConstants, IInv, NEW m \in Modes, ApplyMode(m), UNCHANGED faults
    PROVE  IInv'
<1>1. /\ Enqueue(m) /\ mode' = m /\ ("full" \in faults \/ Len(queue) < QueueSize)
      /\ UNCHANGED <<link, outbox, sent, brokerVars, backendVars, webVars, reboots>>
  BY DEF ApplyMode
<1>2. DeviceTypeOK /\ DeviceTypeOK'
  BY <1>1, EnqueueEffect, TypeFrames DEF DeviceTypeOK
<1>3. ModeOnItsWay'
  <2>1. SUFFICES ASSUME faults \cap {"full", "expire", "overtake"} = {}
                 PROVE  LastQueued' /\ \A i \in DOMAIN outbox :
                           /\ i <= sent /\ outbox[i].topic = "mode"
                           /\ \A j \in DOMAIN outbox : j > i => outbox[j].topic # "mode"
                           => retained["mode"] = outbox[i].value
    BY <1>1 DEF ModeOnItsWay, brokerVars
  <2>2. /\ DOMAIN queue' = DOMAIN queue \cup {Len(queue) + 1}
        /\ queue'[Len(queue) + 1] = m
    BY <1>1, <1>2, <2>1, EnqueueEffect
  <2>3. \A j \in DOMAIN queue' : ~(j > Len(queue) + 1)
    BY <1>2, <2>2, Sizes
  <2> QED
    BY <1>1, <2>1, <2>2, <2>3 DEF IInv, ModeOnItsWay, LastQueued
<1> QED
  BY <1>1, <1>2, <1>3, Frames, TypeFrames, TypesInParts
     DEF IInv, brokerVars, backendVars, webVars

LEMMA SampleKeeps ==
    ASSUME PresenceConstants, IInv, Sample, UNCHANGED faults
    PROVE  IInv'
<1>1. /\ Enqueue(Data)
      /\ UNCHANGED <<link, mode, outbox, sent, brokerVars, backendVars, webVars, reboots>>
  BY DEF Sample
<1>2. DeviceTypeOK /\ DeviceTypeOK'
  BY <1>1, EnqueueEffect, TypeFrames DEF DeviceTypeOK
<1>3. /\ LastQueued => LastQueued'
      /\ (\A j \in DOMAIN queue : queue[j] = Data) => \A j \in DOMAIN queue' : queue'[j] = Data
  <2>1. CASE Len(queue) < QueueSize
    BY <1>1, <1>2, <2>1, EnqueueEffect DEF LastQueued
  <2>2. CASE ~(Len(queue) < QueueSize)
    BY <1>1, <2>2 DEF Enqueue, LastQueued
  <2> QED
    BY <2>1, <2>2
<1>4. ModeOnItsWay'
  BY <1>1, <1>3 DEF IInv, ModeOnItsWay, brokerVars
<1> QED
  BY <1>1, <1>2, <1>4, Frames, TypeFrames, TypesInParts
     DEF IInv, brokerVars, backendVars, webVars

(* What the telemetry task publishes is the oldest of what was queued. *)
LEMMA TelemetryTaskKeeps ==
    ASSUME PresenceConstants, IInv, TelemetryTask, UNCHANGED faults
    PROVE  IInv'
<1> DEFINE e == Head(queue)
           m == Message(IF e = Data THEN Data ELSE "mode", e)
<1>1. /\ queue # <<>> /\ Room(IF Linked THEN 1 ELSE 3)
      /\ queue' = Tail(queue) /\ outbox' = Append(outbox, m)
      /\ UNCHANGED <<link, mode, sent, brokerVars, backendVars, webVars, reboots>>
  BY DEF TelemetryTask
<1>2. DeviceTypeOK
  BY TypeFrames
<1>3. /\ queue' \in Seq(Modes \cup {Data}) /\ Len(queue') = Len(queue) - 1
      /\ DOMAIN queue' = 1..(Len(queue) - 1) /\ Len(queue) > 0
      /\ \A i \in 1..(Len(queue) - 1) : queue'[i] = queue[i + 1]
      /\ e = queue[1] /\ e \in Modes \cup {Data}
  BY <1>1, <1>2 DEF DeviceTypeOK
<1>4. m \in Messages
  BY <1>3 DEF Messages, Message, Topics, Values
<1>5. m.topic = IF e = Data THEN "data" ELSE "mode"
  BY DEF Message, Data
<1>6. m.value = e
  BY DEF Message
<1> HIDE DEF e, m
<1>7. /\ outbox' \in Seq(Messages) /\ Len(outbox') = Len(outbox) + 1
      /\ DOMAIN outbox' = 1..(Len(outbox) + 1)
      /\ \A i \in 1..Len(outbox) : outbox'[i] = outbox[i]
      /\ outbox'[Len(outbox) + 1] = m
  BY <1>1, <1>2, <1>4 DEF DeviceTypeOK
<1>8. /\ Linked' <=> Linked
      /\ Len(outbox) + (IF Linked THEN 1 ELSE 3) <= MaxOutbox
  BY <1>1 DEF Linked, Room, brokerVars
<1>9. DeviceTypeOK'
  <2>1. Len(queue') <= QueueSize /\ Len(outbox') <= MaxOutbox /\ sent \in 0..Len(outbox')
    BY <1>2, <1>3, <1>7, <1>8, Sizes DEF DeviceTypeOK
  <2> QED
    BY <1>1, <1>2, <1>3, <1>7, <2>1 DEF DeviceTypeOK
<1>10. DeviceAgrees'
  <2>1. ~Linked' => Len(outbox') + 2 <= MaxOutbox
    BY <1>2, <1>7, <1>8, Sizes
  <2> QED
    BY <1>1, <1>2, <1>5, <1>7, <2>1, Sizes DEF IInv, DeviceAgrees, Room
<1>11. BrokerAgrees'
  <2>1. DOMAIN outbox \subseteq DOMAIN outbox' /\ \A i \in DOMAIN outbox : outbox'[i] = outbox[i]
    BY <1>2, <1>7, Sizes
  <2> QED
    BY <1>1, <1>8, <2>1 DEF IInv, BrokerAgrees, brokerVars
<1>12. ModeOnItsWay'
  <2>1. SUFFICES ASSUME faults \cap {"full", "expire", "overtake"} = {}
                 PROVE  /\ \/ LastQueued'
                           \/ /\ \A j \in DOMAIN queue' : queue'[j] = Data
                              /\ LastSays(outbox', "mode", mode, retained["mode"])
                        /\ \A i \in DOMAIN outbox' :
                              /\ i <= sent /\ outbox'[i].topic = "mode"
                              /\ \A j \in DOMAIN outbox' : j > i => outbox'[j].topic # "mode"
                              => retained["mode"] = outbox'[i].value
    BY <1>1 DEF ModeOnItsWay, brokerVars
  <2>2. \A i \in DOMAIN outbox' : i <= sent => i \in DOMAIN outbox /\ outbox'[i] = outbox[i]
    BY <1>2, <1>7, Sizes
  <2>3. DOMAIN outbox \subseteq DOMAIN outbox' /\ \A i \in DOMAIN outbox : outbox'[i] = outbox[i]
    BY <1>2, <1>7, Sizes
  <2>4. \A i \in DOMAIN outbox' :
           /\ i <= sent /\ outbox'[i].topic = "mode"
           /\ \A j \in DOMAIN outbox' : j > i => outbox'[j].topic # "mode"
           => retained["mode"] = outbox'[i].value
    BY <2>1, <2>2, <2>3 DEF IInv, ModeOnItsWay
  <2>5. \A j \in DOMAIN queue' : j + 1 \in DOMAIN queue /\ queue'[j] = queue[j + 1]
    BY <1>2, <1>3, Sizes
  <2>6. CASE LastQueued
    <3>1. PICK i \in DOMAIN queue :
            queue[i] = mode /\ \A j \in DOMAIN queue : j > i => queue[j] = Data
      BY <2>6 DEF LastQueued
    <3>2. CASE i = 1
      <4>1. \A j \in DOMAIN queue' : queue'[j] = Data
        BY <1>2, <1>3, <2>5, <3>1, <3>2, Sizes
      <4>2. e = mode /\ e # Data
        BY <1>2, <1>3, <3>1, <3>2 DEF DeviceTypeOK, PresenceConstants
      <4>3. LastSays(outbox', "mode", mode, retained["mode"])
        BY <1>1, <1>2, <1>4, <1>5, <1>6, <4>2, AppendSays DEF DeviceTypeOK
      <4> QED
        BY <2>4, <4>1, <4>3
    <3>3. CASE i # 1
      <4>1. i - 1 \in DOMAIN queue' /\ queue'[i - 1] = mode
        BY <1>2, <1>3, <3>1, <3>3, Sizes
      <4>2. \A j \in DOMAIN queue' : j > i - 1 => queue'[j] = Data
        BY <1>2, <1>3, <2>5, <3>1, Sizes
      <4> QED
        BY <1>1, <2>4, <4>1, <4>2 DEF LastQueued
    <3> QED
      BY <3>2, <3>3
  <2>7. CASE ~LastQueued
    <3>1. /\ \A j \in DOMAIN queue : queue[j] = Data
          /\ LastSays(outbox, "mode", mode, retained["mode"])
      BY <2>1, <2>7 DEF IInv, ModeOnItsWay
    <3>2. e = Data /\ \A j \in DOMAIN queue' : queue'[j] = Data
      BY <1>2, <1>3, <2>5, <3>1, Sizes
    <3>3. m.topic # "mode"
      BY <1>5, <3>2
    <3>4. LastSays(outbox', "mode", mode, retained["mode"])
      BY <1>1, <1>2, <1>4, <3>1, <3>3, AppendSays DEF DeviceTypeOK
    <3> QED
      BY <2>4, <3>2, <3>4
  <2> QED
    BY <2>6, <2>7
<1> QED
  BY <1>1, <1>9, <1>10, <1>11, <1>12, Frames, TypeFrames, TypesInParts
     DEF IInv, brokerVars, backendVars, webVars

-----------------------------------------------------------------------------
(* The client. *)

LEMMA WillIsMessage == Will \in Messages /\ Will.topic = "status" /\ Will.value = "offline"
BY DEF Will, Message, Messages, Topics, Values

LEMMA StartClientKeeps ==
    ASSUME IInv, StartClient, UNCHANGED faults
    PROVE  IInv'
<1>1. /\ link = "off" /\ link' = "down"
      /\ UNCHANGED <<mode, queue, outbox, sent, brokerVars, backendVars, webVars, reboots>>
  BY DEF StartClient
<1>2. DeviceTypeOK'
  BY <1>1, TypeFrames DEF DeviceTypeOK
<1>3. DeviceAgrees' /\ BrokerAgrees' /\ CommandsAgree'
  BY <1>1 DEF IInv, DeviceAgrees, BrokerAgrees, CommandsAgree, Linked, Room, brokerVars, webVars
<1> QED
  BY <1>1, <1>2, <1>3, Frames, TypeFrames, TypesInParts
     DEF IInv, brokerVars, backendVars, webVars

(* A new session: the old one's commands are gone with it. *)
LEMMA ConnectKeeps ==
    ASSUME PresenceConstants, IInv, Connect, UNCHANGED faults
    PROVE  IInv'
<1>1. /\ link = "down" /\ link' = "accepted" /\ session' = "open" /\ commands' = 0
      /\ UNCHANGED <<mode, queue, outbox, sent, listening, registered, row, webVars, reboots>>
      /\ UNCHANGED <<retained, inbox>> \/ BrokerReceives(Will)
  BY DEF Connect
<1>2. /\ retained' \in Rows /\ retained'["mode"] = retained["mode"]
      /\ inbox' \in Seq(Messages) /\ Len(inbox') <= MaxInbox
      /\ BackendAgrees'
  <2>1. CASE UNCHANGED <<retained, inbox>>
    BY <1>1, <2>1, Frames, TypeFrames DEF ServerTypeOK
  <2>2. CASE BrokerReceives(Will)
    BY <1>1, <2>2, WillIsMessage, BrokerReceivesEffect, TypeFrames DEF IInv, Topics
  <2> QED
    BY <1>1, <2>1, <2>2
<1>3. DeviceTypeOK' /\ ServerTypeOK'
  BY <1>1, <1>2, TypeFrames DEF DeviceTypeOK, ServerTypeOK
<1>4. CommandTypeOK'
  BY <1>1, TypeFrames, PresenceConstants DEF CommandTypeOK, PresenceConstants, webVars
<1>5. DeviceAgrees'
  BY <1>1 DEF IInv, DeviceAgrees, Linked, Room
<1>6. BrokerAgrees'
  BY <1>1 DEF BrokerAgrees, Linked, None
<1>7. CommandsAgree'
  BY <1>1, TypeFrames DEF IInv, CommandsAgree, CommandTypeOK, webVars
<1> QED
  BY <1>1, <1>2, <1>3, <1>4, <1>5, <1>6, <1>7, Frames, TypeFrames, TypesInParts DEF IInv

(* The device says that it is online and what it is. *)
LEMMA HandleConnectedKeeps ==
    ASSUME PresenceConstants, IInv, HandleConnected, UNCHANGED faults
    PROVE  IInv'
<1> DEFINE online == Message("status", "online")
           info == Message("info", "known")
<1>1. /\ link = "accepted" /\ session # None /\ link' = "up" /\ session' = "subscribed"
      /\ outbox' = outbox \o <<online, info>>
      /\ UNCHANGED <<mode, queue, sent, retained, commands, backendVars, webVars, reboots>>
  BY DEF HandleConnected
<1>2. DeviceTypeOK
  BY TypeFrames
<1>3. /\ online \in Messages /\ online.topic = "status" /\ online.value = "online"
      /\ info \in Messages /\ info.topic = "info" /\ info.value = "known"
  BY DEF Message, Messages, Topics, Values
<1> HIDE DEF online, info
<1>4. outbox' = Append(Append(outbox, online), info)
  BY <1>1, <1>2, <1>3 DEF DeviceTypeOK
<1>5. /\ Append(outbox, online) \in Seq(Messages)
      /\ outbox' \in Seq(Messages) /\ Len(outbox') = Len(outbox) + 2
      /\ DOMAIN outbox' = 1..(Len(outbox) + 2)
      /\ \A i \in 1..Len(outbox) : outbox'[i] = outbox[i]
      /\ outbox'[Len(outbox) + 1] = online
      /\ outbox'[Len(outbox) + 2] = info
  BY <1>2, <1>3, <1>4 DEF DeviceTypeOK
<1>6. Len(outbox) + 2 <= MaxOutbox
  BY <1>1 DEF IInv, DeviceAgrees, Linked, Room
<1>7. DeviceTypeOK'
  <2>1. Len(outbox') <= MaxOutbox /\ sent \in 0..Len(outbox')
    BY <1>2, <1>5, <1>6, Sizes
  <2> QED
    BY <1>1, <1>2, <1>5, <2>1 DEF DeviceTypeOK
<1>8. ServerTypeOK'
  BY <1>1, TypeFrames DEF ServerTypeOK, backendVars
<1>9. \A i \in DOMAIN outbox' :
         outbox'[i] \in {online, info} \/ (i \in DOMAIN outbox /\ outbox'[i] = outbox[i])
  BY <1>2, <1>5, Sizes
<1>10. DeviceAgrees'
  BY <1>1, <1>3, <1>9 DEF IInv, DeviceAgrees, Linked, None
<1>11. BrokerAgrees'
  <2>1. /\ Len(outbox) + 1 \in DOMAIN outbox' /\ Len(outbox) + 1 > sent
        /\ Len(outbox) + 2 \in DOMAIN outbox' /\ Len(outbox) + 2 > sent
    BY <1>2, <1>5, Sizes
  <2> QED
    BY <1>1, <1>3, <1>5, <2>1 DEF BrokerAgrees, None
<1>12. ModeOnItsWay'
  <2>1. \A v : LastSays(outbox, "mode", v, retained["mode"])
                 => LastSays(outbox', "mode", v, retained["mode"])
    <3>1. SUFFICES ASSUME NEW v, LastSays(outbox, "mode", v, retained["mode"])
                   PROVE  LastSays(outbox', "mode", v, retained["mode"])
      OBVIOUS
    <3>2. LastSays(Append(outbox, online), "mode", v, retained["mode"])
      BY <1>2, <1>3, <3>1, AppendSays DEF DeviceTypeOK
    <3> QED
      BY <1>3, <1>4, <1>5, <3>2, AppendSays
  <2>2. /\ DOMAIN outbox \subseteq DOMAIN outbox'
        /\ \A i \in DOMAIN outbox : outbox'[i] = outbox[i]
        /\ \A i \in DOMAIN outbox' : i <= sent => i \in DOMAIN outbox
    BY <1>2, <1>5, Sizes
  <2> QED
    BY <1>1, <2>1, <2>2 DEF IInv, ModeOnItsWay, LastQueued
<1>13. CommandsAgree'
  BY <1>1 DEF IInv, CommandsAgree, webVars
<1> QED
  BY <1>1, <1>7, <1>8, <1>10, <1>11, <1>12, <1>13, Frames, TypeFrames, TypesInParts
     DEF IInv, backendVars, webVars

LEMMA HandleDisconnectedKeeps ==
    ASSUME PresenceConstants, IInv, HandleDisconnected, UNCHANGED faults
    PROVE  IInv'
<1>1. /\ Room(2) /\ link' = "down" /\ sent' = 0
      /\ UNCHANGED <<mode, queue, outbox, brokerVars, backendVars, webVars, reboots>>
  BY DEF HandleDisconnected
<1>2. DeviceTypeOK'
  BY <1>1, TypeFrames, Sizes DEF DeviceTypeOK
<1>3. DeviceAgrees' /\ BrokerAgrees' /\ CommandsAgree'
  BY <1>1 DEF IInv, DeviceAgrees, BrokerAgrees, CommandsAgree, Linked, Room, brokerVars, webVars
<1>4. ModeOnItsWay'
  <2>1. \A i \in DOMAIN outbox : ~(i <= 0)
    BY TypeFrames, Sizes
  <2> QED
    BY <1>1, <2>1 DEF IInv, ModeOnItsWay, LastQueued, brokerVars
<1> QED
  BY <1>1, <1>2, <1>3, <1>4, Frames, TypeFrames, TypesInParts
     DEF IInv, brokerVars, backendVars, webVars

LEMMA SessionEndsKeeps ==
    ASSUME PresenceConstants, IInv, SessionEnds, UNCHANGED faults
    PROVE  IInv'
<1>1. /\ link = "up" => Room(2)
      /\ session' = None /\ commands' = 0
      /\ BrokerReceives(Will)
      /\ UNCHANGED <<deviceVars, listening, registered, row, webVars, reboots>>
  BY DEF SessionEnds
<1>2. /\ retained' \in Rows /\ retained'["mode"] = retained["mode"]
      /\ retained'["status"] = "offline"
      /\ inbox' \in Seq(Messages) /\ Len(inbox') <= MaxInbox
      /\ BackendAgrees'
  BY <1>1, WillIsMessage, BrokerReceivesEffect, TypeFrames DEF IInv, Topics
<1>3. ServerTypeOK'
  BY <1>1, <1>2, TypeFrames DEF ServerTypeOK
<1>4. CommandTypeOK'
  BY <1>1, TypeFrames, PresenceConstants DEF CommandTypeOK, PresenceConstants, webVars
<1>5. DeviceAgrees'
  BY <1>1 DEF IInv, DeviceAgrees, Linked, Room, deviceVars
<1>6. BrokerAgrees'
  BY <1>1, <1>2 DEF BrokerAgrees, Linked, None
<1>7. CommandsAgree'
  BY <1>1, TypeFrames DEF IInv, CommandsAgree, CommandTypeOK, deviceVars, webVars
<1> QED
  BY <1>1, <1>2, <1>3, <1>4, <1>5, <1>6, <1>7, Frames, TypeFrames, TypesInParts
     DEF IInv, deviceVars

-----------------------------------------------------------------------------
(* The link.  What the broker receives it retains, and it has received all that
   was sent. *)

LEMMA DeliverKeeps ==
    ASSUME PresenceConstants, IInv, Deliver, UNCHANGED faults
    PROVE  IInv'
<1> DEFINE m == outbox[sent + 1]
<1>1. /\ link = "up" /\ session # None /\ sent < Len(outbox)
      /\ BrokerReceives(m) /\ sent' = sent + 1
      /\ UNCHANGED <<link, mode, queue, outbox, session, commands, listening, registered, row,
                     webVars, reboots>>
  BY DEF Deliver, Linked
<1>2. DeviceTypeOK
  BY TypeFrames
<1>3. sent + 1 \in DOMAIN outbox /\ sent + 1 \in 0..Len(outbox)
  BY <1>1, <1>2, Sizes
<1>4. m \in Messages
  BY <1>2, <1>3 DEF DeviceTypeOK
<1>5. /\ retained' \in Rows
      /\ \A topic \in Topics :
            retained'[topic] = IF m.topic = topic THEN m.value ELSE retained[topic]
      /\ inbox' \in Seq(Messages) /\ Len(inbox') <= MaxInbox
      /\ BackendAgrees'
  BY <1>1, <1>4, BrokerReceivesEffect, TypeFrames DEF IInv
<1>6. DeviceTypeOK' /\ ServerTypeOK'
  BY <1>1, <1>2, <1>3, <1>5, TypeFrames DEF DeviceTypeOK, ServerTypeOK
<1>7. DeviceAgrees'
  BY <1>1 DEF IInv, DeviceAgrees, Linked, Room
<1>8. BrokerAgrees'
  <2>1. \A i \in DOMAIN outbox : i > sent => i = sent + 1 \/ i > sent + 1
    BY <1>2, Sizes
  <2>2. /\ m.topic = "status" => m.value = "online"
        /\ m.topic = "info" => m.value = "known"
    BY <1>3 DEF IInv, DeviceAgrees
  <2> QED
    BY <1>1, <1>3, <1>5, <2>1, <2>2 DEF IInv, BrokerAgrees, Linked, Topics
<1>9. ModeOnItsWay'
  <2>1. SUFFICES ASSUME faults \cap {"full", "expire", "overtake"} = {}
                 PROVE  /\ \/ LastQueued
                           \/ /\ \A j \in DOMAIN queue : queue[j] = Data
                              /\ LastSays(outbox, "mode", mode, retained'["mode"])
                        /\ \A i \in DOMAIN outbox :
                              /\ i <= sent + 1 /\ outbox[i].topic = "mode"
                              /\ \A j \in DOMAIN outbox : j > i => outbox[j].topic # "mode"
                              => retained'["mode"] = outbox[i].value
    BY <1>1 DEF ModeOnItsWay, LastQueued
  <2>2. retained'["mode"] = IF m.topic = "mode" THEN m.value ELSE retained["mode"]
    BY <1>5 DEF Topics
  <2>3. LastSays(outbox, "mode", mode, retained["mode"])
          => LastSays(outbox, "mode", mode, retained'["mode"])
    BY <1>3, <2>2 DEF LastSays
  <2>4. ASSUME NEW i \in DOMAIN outbox, i <= sent + 1, outbox[i].topic = "mode",
               \A j \in DOMAIN outbox : j > i => outbox[j].topic # "mode"
        PROVE  retained'["mode"] = outbox[i].value
    <3>1. CASE i = sent + 1
      BY <2>2, <2>4, <3>1
    <3>2. CASE i # sent + 1
      <4>1. i <= sent /\ sent + 1 > i
        BY <1>2, <2>4, <3>2, Sizes
      <4>2. m.topic # "mode"
        BY <1>3, <2>4, <4>1
      <4> QED
        BY <2>1, <2>2, <2>4, <4>1, <4>2 DEF IInv, ModeOnItsWay
    <3> QED
      BY <3>1, <3>2
  <2> QED
    BY <2>1, <2>3, <2>4 DEF IInv, ModeOnItsWay
<1> QED
  BY <1>1, <1>5, <1>6, <1>7, <1>8, <1>9, Frames, TypeFrames, TypesInParts DEF IInv, webVars

(* A message that overtakes is no longer in the outbox, and the broker has it. *)
LEMMA OvertakeKeeps ==
    ASSUME PresenceConstants, IInv, Overtake, UNCHANGED faults
    PROVE  IInv'
<1> DEFINE m == outbox[Len(outbox)]
<1>1. /\ "overtake" \in faults /\ link = "up" /\ session # None /\ sent < Len(outbox)
      /\ BrokerReceives(m) /\ outbox' = SubSeq(outbox, 1, Len(outbox) - 1)
      /\ UNCHANGED <<link, mode, queue, sent, session, commands, listening, registered, row,
                     webVars, reboots>>
  BY DEF Overtake, Linked, Last, Front
<1>2. DeviceTypeOK
  BY TypeFrames
<1>3. Len(outbox) \in DOMAIN outbox /\ sent \in 0..(Len(outbox) - 1)
  BY <1>1, <1>2, Sizes
<1>4. m \in Messages
  BY <1>2, <1>3 DEF DeviceTypeOK
<1>5. /\ retained' \in Rows
      /\ \A topic \in Topics :
            retained'[topic] = IF m.topic = topic THEN m.value ELSE retained[topic]
      /\ inbox' \in Seq(Messages) /\ Len(inbox') <= MaxInbox
      /\ BackendAgrees'
  BY <1>1, <1>4, BrokerReceivesEffect, TypeFrames DEF IInv
<1>6. /\ outbox' \in Seq(Messages) /\ Len(outbox') = Len(outbox) - 1
      /\ DOMAIN outbox' = 1..(Len(outbox) - 1)
      /\ \A i \in 1..(Len(outbox) - 1) : outbox'[i] = outbox[i]
  <2>1. ASSUME NEW s \in Seq(Messages), NEW n \in Nat, n <= Len(s)
        PROVE  /\ SubSeq(s, 1, n) \in Seq(Messages) /\ Len(SubSeq(s, 1, n)) = n
               /\ DOMAIN SubSeq(s, 1, n) = 1..n
               /\ \A i \in 1..n : SubSeq(s, 1, n)[i] = s[i]
    BY <2>1
  <2>2. Len(outbox) - 1 \in Nat /\ Len(outbox) - 1 <= Len(outbox)
    BY <1>2, <1>3, Sizes
  <2> QED
    BY <1>1, <1>2, <2>1, <2>2 DEF DeviceTypeOK
<1>7. DeviceTypeOK'
  <2>1. Len(outbox') <= MaxOutbox
    BY <1>2, <1>6, Sizes DEF DeviceTypeOK
  <2> QED
    BY <1>1, <1>2, <1>3, <1>6, <2>1 DEF DeviceTypeOK
<1>8. ServerTypeOK'
  BY <1>1, <1>5, TypeFrames DEF ServerTypeOK
<1>9. DeviceAgrees'
  <2>1. \A i \in DOMAIN outbox' : i \in DOMAIN outbox /\ outbox'[i] = outbox[i]
    BY <1>2, <1>6, Sizes
  <2> QED
    BY <1>1, <2>1 DEF IInv, DeviceAgrees, Linked
<1>10. BrokerAgrees'
  <2>1. \A i \in DOMAIN outbox :
           i = Len(outbox) \/ (i \in DOMAIN outbox' /\ outbox'[i] = outbox[i])
    BY <1>2, <1>6, Sizes
  <2>2. /\ m.topic = "status" => m.value = "online"
        /\ m.topic = "info" => m.value = "known"
    BY <1>3 DEF IInv, DeviceAgrees
  <2> QED
    BY <1>1, <1>5, <2>1, <2>2 DEF IInv, BrokerAgrees, Linked, Topics
<1>11. ModeOnItsWay'
  BY <1>1 DEF ModeOnItsWay
<1> QED
  BY <1>1, <1>5, <1>7, <1>8, <1>9, <1>10, <1>11, Frames, TypeFrames, TypesInParts
     DEF IInv, webVars

(* What is acknowledged was sent, so what it said is retained. *)
LEMMA AcknowledgeKeeps ==
    ASSUME PresenceConstants, IInv, Acknowledge, UNCHANGED faults
    PROVE  IInv'
<1>1. /\ link = "up" /\ session # None /\ sent > 0
      /\ outbox' = Tail(outbox) /\ sent' = sent - 1
      /\ UNCHANGED <<link, mode, queue, brokerVars, backendVars, webVars, reboots>>
  BY DEF Acknowledge, Linked
<1>2. DeviceTypeOK
  BY TypeFrames
<1>3. outbox # <<>> /\ Len(outbox) > 0 /\ 1 \in DOMAIN outbox
  BY <1>1, <1>2, Sizes
<1>4. /\ outbox' \in Seq(Messages) /\ Len(outbox') = Len(outbox) - 1
      /\ DOMAIN outbox' = 1..(Len(outbox) - 1)
      /\ \A i \in 1..(Len(outbox) - 1) : outbox'[i] = outbox[i + 1]
      /\ Head(outbox) = outbox[1]
  BY <1>1, <1>2, <1>3 DEF DeviceTypeOK
<1>5. DeviceTypeOK'
  <2>1. Len(outbox') <= MaxOutbox /\ sent' \in 0..Len(outbox')
    BY <1>1, <1>2, <1>4, Sizes DEF DeviceTypeOK
  <2> QED
    BY <1>1, <1>2, <1>4, <2>1 DEF DeviceTypeOK
<1>6. /\ \A i \in DOMAIN outbox' : i + 1 \in DOMAIN outbox /\ outbox'[i] = outbox[i + 1]
      /\ \A i \in DOMAIN outbox :
            i > sent => /\ i - 1 \in DOMAIN outbox' /\ i - 1 > sent - 1
                        /\ outbox'[i - 1] = outbox[i]
  BY <1>1, <1>2, <1>4, Sizes
<1>7. DeviceAgrees'
  BY <1>1, <1>6 DEF IInv, DeviceAgrees, Linked, brokerVars
<1>8. BrokerAgrees'
  BY <1>1, <1>6 DEF IInv, BrokerAgrees, Linked, brokerVars
<1>9. ModeOnItsWay'
  <2>1. SUFFICES ASSUME faults \cap {"full", "expire", "overtake"} = {}
                 PROVE  /\ \/ LastQueued
                           \/ /\ \A j \in DOMAIN queue : queue[j] = Data
                              /\ LastSays(outbox', "mode", mode, retained["mode"])
                        /\ \A i \in DOMAIN outbox' :
                              /\ i <= sent - 1 /\ outbox'[i].topic = "mode"
                              /\ \A j \in DOMAIN outbox' : j > i => outbox'[j].topic # "mode"
                              => retained["mode"] = outbox'[i].value
    BY <1>1 DEF ModeOnItsWay, LastQueued, brokerVars
  <2>2. \A i \in DOMAIN outbox :
           /\ i <= sent /\ outbox[i].topic = "mode"
           /\ \A j \in DOMAIN outbox : j > i => outbox[j].topic # "mode"
           => retained["mode"] = outbox[i].value
    BY <2>1 DEF IInv, ModeOnItsWay
  <2>3. \A j \in DOMAIN outbox : j > 1 => j - 1 \in DOMAIN outbox' /\ outbox'[j - 1] = outbox[j]
    BY <1>2, <1>4, Sizes
  <2>4. \/ retained["mode"] = IF Head(outbox).topic = "mode" THEN Head(outbox).value
                               ELSE retained["mode"]
        \/ \E j \in DOMAIN outbox' : outbox'[j].topic = "mode"
    <3>1. SUFFICES ASSUME \A j \in DOMAIN outbox' : outbox'[j].topic # "mode",
                          outbox[1].topic = "mode"
                   PROVE  retained["mode"] = outbox[1].value
      BY <1>4
    <3>2. \A j \in DOMAIN outbox : j > 1 => outbox[j].topic # "mode"
      BY <2>3, <3>1
    <3>3. 1 <= sent
      BY <1>1, <1>2, Sizes
    <3> QED
      BY <1>3, <2>2, <3>1, <3>2, <3>3
  <2>5. LastSays(outbox, "mode", mode, retained["mode"])
          => LastSays(outbox', "mode", mode, retained["mode"])
    BY <1>1, <1>2, <1>3, <2>4, TailSays DEF DeviceTypeOK
  <2>6. ASSUME NEW i \in DOMAIN outbox', i <= sent - 1, outbox'[i].topic = "mode",
               \A j \in DOMAIN outbox' : j > i => outbox'[j].topic # "mode"
        PROVE  retained["mode"] = outbox'[i].value
    <3>1. i + 1 <= sent /\ i + 1 > 1 /\ i + 1 \in DOMAIN outbox /\ outbox'[i] = outbox[i + 1]
      BY <1>2, <1>4, <1>6, <2>6, Sizes
    <3>2. \A j \in DOMAIN outbox : j > i + 1 => j > 1 /\ j - 1 > i
      BY <1>2, <1>4, Sizes
    <3>3. \A j \in DOMAIN outbox : j > i + 1 => outbox[j].topic # "mode"
      BY <2>3, <2>6, <3>2
    <3> QED
      BY <2>2, <2>6, <3>1, <3>3
  <2> QED
    BY <2>1, <2>5, <2>6 DEF IInv, ModeOnItsWay
<1> QED
  BY <1>1, <1>5, <1>7, <1>8, <1>9, Frames, TypeFrames, TypesInParts
     DEF IInv, brokerVars, backendVars, webVars

(* A message the client gives up waits for a connection. *)
LEMMA ExpireKeeps ==
    ASSUME PresenceConstants, IInv, NEW k \in DOMAIN outbox, Expire(k), UNCHANGED faults
    PROVE  IInv'
<1>1. /\ "expire" \in faults /\ link # "up"
      /\ outbox' = SubSeq(outbox, 1, k - 1) \o SubSeq(outbox, k + 1, Len(outbox))
      /\ UNCHANGED <<link, mode, queue, sent, brokerVars, backendVars, webVars, reboots>>
  BY DEF Expire, RemoveAt
<1>2. DeviceTypeOK
  BY TypeFrames
<1>3. k \in 1..Len(outbox) /\ Len(outbox) \in Nat
  BY <1>2, Sizes
<1> DEFINE front == SubSeq(outbox, 1, k - 1)
           back == SubSeq(outbox, k + 1, Len(outbox))
<1>4. front \in Seq(Messages) /\ Len(front) = k - 1 /\ \A i \in 1..(k - 1) : front[i] = outbox[i]
  BY <1>2, <1>3 DEF DeviceTypeOK
<1>5. /\ back \in Seq(Messages) /\ Len(back) = Len(outbox) - k
      /\ \A i \in 1..(Len(outbox) - k) : back[i] = outbox[k + i]
  BY <1>2, <1>3 DEF DeviceTypeOK
<1>6. outbox' = front \o back
  BY <1>1
<1> HIDE DEF front, back
<1>7. /\ outbox' \in Seq(Messages) /\ Len(outbox') = Len(outbox) - 1
      /\ \A i \in DOMAIN outbox' : \E j \in DOMAIN outbox : outbox'[i] = outbox[j]
  <2>1. ASSUME NEW T, NEW p \in Seq(T), NEW q \in Seq(T)
        PROVE  p \o q \in Seq(T) /\ Len(p \o q) = Len(p) + Len(q)
    OBVIOUS
  <2>2. front \o back \in Seq(Messages) /\ Len(front \o back) = Len(front) + Len(back)
    BY <1>4, <1>5, <2>1
  <2>3. outbox' \in Seq(Messages) /\ Len(outbox') = (k - 1) + (Len(outbox) - k)
    BY <1>4, <1>5, <1>6, <2>2
  <2>4. ASSUME NEW i \in DOMAIN outbox'
        PROVE  \E j \in DOMAIN outbox : outbox'[i] = outbox[j]
    <3>1. i \in Nat /\ 1 <= i /\ i <= Len(outbox) - 1
      BY <1>3, <2>3
    <3>2. CASE i <= k - 1
      <4>1. outbox'[i] = front[i] /\ i \in 1..(k - 1)
        BY <1>3, <1>4, <1>5, <1>6, <3>1, <3>2
      <4> QED
        BY <1>2, <1>3, <1>4, <4>1, Sizes
    <3>3. CASE ~(i <= k - 1)
      <4>1. outbox'[i] = back[i - (k - 1)] /\ i - (k - 1) \in 1..(Len(outbox) - k)
        BY <1>3, <1>4, <1>5, <1>6, <3>1, <3>3
      <4>2. k + (i - (k - 1)) \in DOMAIN outbox
        BY <1>2, <1>3, <4>1, Sizes
      <4> QED
        BY <1>5, <4>1, <4>2
    <3> QED
      BY <3>2, <3>3
  <2> QED
    BY <1>3, <2>3, <2>4
<1>8. sent = 0
  BY <1>1 DEF IInv, DeviceAgrees
<1>9. DeviceTypeOK'
  <2>1. Len(outbox') <= MaxOutbox /\ sent \in 0..Len(outbox')
    BY <1>2, <1>3, <1>7, <1>8, Sizes DEF DeviceTypeOK
  <2> QED
    BY <1>1, <1>2, <1>7, <2>1 DEF DeviceTypeOK
<1>10. DeviceAgrees'
  <2>1. Len(outbox) + 2 <= MaxOutbox
    BY <1>1 DEF IInv, DeviceAgrees, Linked, Room
  <2>2. Len(outbox') + 2 <= MaxOutbox
    BY <1>2, <1>7, <2>1, Sizes
  <2>3. \A i \in DOMAIN outbox' :
          /\ outbox'[i].topic = "status" => outbox'[i].value = "online"
          /\ outbox'[i].topic = "info" => outbox'[i].value = "known"
    BY <1>7 DEF IInv, DeviceAgrees
  <2>4. sent' = 0
    BY <1>1, <1>8
  <2> QED
    BY <2>2, <2>3, <2>4 DEF DeviceAgrees, Room
<1>11. BrokerAgrees' /\ ModeOnItsWay'
  BY <1>1 DEF IInv, BrokerAgrees, ModeOnItsWay, Linked, brokerVars
<1> QED
  BY <1>1, <1>9, <1>10, <1>11, Frames, TypeFrames, TypesInParts
     DEF IInv, brokerVars, backendVars, webVars

(* A restart loses what was not sent and queues the mode anew; the broker and
   the backend do not notice yet. *)
LEMMA BootKeeps ==
    ASSUME PresenceConstants, IInv, Restart \/ RebootCommanded, UNCHANGED faults
    PROVE  IInv'
<1>1. /\ link' = "off" /\ queue' = <<mode>> /\ outbox' = <<>> /\ sent' = 0
      /\ UNCHANGED <<mode, brokerVars, backendVars, webVars>>
  BY DEF Restart, RebootCommanded, Boot
<1>2. /\ reboots' \in Nat /\ reboots' <= asked
  <2>1. {reboots, commands, asked} \subseteq Nat /\ reboots <= asked
    BY TypeFrames, PresenceConstants DEF IInv, CommandsAgree, CommandTypeOK, PresenceConstants
  <2>2. CASE Restart
    BY <2>1, <2>2 DEF Restart
  <2>3. CASE RebootCommanded
    <3>1. commands > 0 /\ reboots' = reboots + 1 /\ reboots + commands <= asked
      BY <2>3 DEF RebootCommanded, IInv, CommandsAgree
    <3> QED
      BY <2>1, <3>1
  <2> QED
    BY <2>2, <2>3
<1>3. /\ Len(outbox') = 0 /\ DOMAIN outbox' = {} /\ outbox' \in Seq(Messages)
      /\ Len(queue') = 1 /\ DOMAIN queue' = {1} /\ queue'[1] = mode
      /\ queue' \in Seq(Modes \cup {Data})
  BY <1>1, TypeFrames DEF DeviceTypeOK
<1>4. DeviceTypeOK'
  BY <1>1, <1>3, TypeFrames, PresenceConstants DEF DeviceTypeOK, PresenceConstants
<1>5. CommandTypeOK'
  BY <1>1, <1>2, TypeFrames DEF CommandTypeOK, brokerVars, webVars
<1>6. ServerTypeOK'
  BY <1>1, TypeFrames DEF ServerTypeOK, brokerVars, backendVars
<1>7. DeviceAgrees'
  BY <1>1, <1>3, PresenceConstants DEF DeviceAgrees, Linked, Room, PresenceConstants
<1>8. BrokerAgrees'
  BY <1>1 DEF IInv, BrokerAgrees, Linked, brokerVars
<1>9. ModeOnItsWay'
  <2>1. LastQueued'
    BY <1>1, <1>3 DEF LastQueued
  <2> QED
    BY <1>3, <2>1 DEF ModeOnItsWay
<1>10. CommandsAgree'
  BY <1>1, <1>2 DEF IInv, CommandsAgree, brokerVars, webVars
<1> QED
  BY <1>1, <1>4, <1>5, <1>6, <1>7, <1>8, <1>9, <1>10, Frames, TypeFrames, TypesInParts
     DEF IInv, brokerVars, backendVars

-----------------------------------------------------------------------------
(* The ingestion process. *)

(* What the broker retains of a topic is said next. *)
LEMMA HeldSays ==
    ASSUME ServerTypeOK, NEW s \in Seq(Messages), NEW about \in Topics,
           NEW topic \in Topics, NEW v, NEW known, LastSays(s, topic, v, known),
           topic = about /\ retained[about] = None => v = None
    PROVE  LastSays(s \o Held(about), topic, IF topic = about THEN retained[about] ELSE v, known)
<1>1. CASE retained[about] = None
  <2>1. s \o Held(about) = s
    BY <1>1 DEF Held
  <2> QED
    BY <1>1, <2>1
<1>2. CASE retained[about] # None
  <2> DEFINE m == Message(about, retained[about])
  <2>1. m \in Messages /\ m.topic = about /\ m.value = retained[about]
    BY <1>2 DEF Message, Messages, ServerTypeOK, Rows
  <2> HIDE DEF m
  <2>2. s \o Held(about) = Append(s, m)
    <3>1. Held(about) = <<m>>
      BY <1>2 DEF Held, m
    <3> QED
      BY <2>1, <3>1
  <2> QED
    BY <2>1, <2>2, AppendSays
<1> QED
  BY <1>1, <1>2

LEMMA HeldTypes ==
    ASSUME ServerTypeOK, NEW about \in Topics
    PROVE  Held(about) \in Seq(Messages) /\ Len(Held(about)) <= 1
<1>1. CASE retained[about] = None
  BY <1>1 DEF Held
<1>2. CASE retained[about] # None
  <2>1. Message(about, retained[about]) \in Messages
    BY <1>2 DEF Message, Messages, ServerTypeOK, Rows
  <2> QED
    BY <1>2, <2>1 DEF Held
<1> QED
  BY <1>1, <1>2

LEMMA SubscribeKeeps ==
    ASSUME PresenceConstants, IInv, Subscribe, UNCHANGED faults
    PROVE  IInv'
<1> DEFINE none == <<>>
           one == none \o Held("status")
           two == one \o Held("info")
<1>1. /\ listening' = TRUE /\ inbox' = Held("status") \o Held("info") \o Held("mode")
      /\ UNCHANGED <<deviceVars, brokerVars, registered, row, webVars, reboots>>
  BY DEF Subscribe
<1>2. ServerTypeOK /\ {"status", "info", "mode"} = Topics
  BY TypeFrames DEF Topics
<1>3. /\ \A about \in Topics : Held(about) \in Seq(Messages) /\ Len(Held(about)) <= 1
      /\ \A about \in Topics : Len(Held(about)) \in Nat
  BY <1>2, HeldTypes
<1>4. none \in Seq(Messages) /\ Len(none) = 0 /\ DOMAIN none = {}
  OBVIOUS
<1> HIDE DEF none
<1>5. one \in Seq(Messages) /\ Len(one) <= 1 /\ Len(one) \in Nat
  BY <1>2, <1>3, <1>4
<1>6. inbox' = two \o Held("mode")
  <2>1. Held("status") = one
    BY <1>2, <1>3 DEF none
  <2> QED
    BY <1>1, <2>1
<1> HIDE DEF one
<1>7. two \in Seq(Messages) /\ Len(two) <= 2 /\ Len(two) \in Nat
  BY <1>2, <1>3, <1>5
<1> HIDE DEF two
<1>8. inbox' \in Seq(Messages) /\ Len(inbox') <= 3 /\ Len(inbox') \in Nat
  BY <1>2, <1>3, <1>6, <1>7
<1>9. \A topic \in Topics : LastSays(inbox', topic, retained[topic], row[topic])
  <2>1. SUFFICES ASSUME NEW topic \in Topics
                 PROVE  LastSays(inbox', topic, retained[topic], row[topic])
    OBVIOUS
  <2>2. retained[topic] = None => row[topic] = None
    BY DEF IInv, BackendAgrees
  <2> DEFINE v1 == IF topic = "status" THEN retained["status"] ELSE row[topic]
             v2 == IF topic = "info" THEN retained["info"] ELSE v1
             v3 == IF topic = "mode" THEN retained["mode"] ELSE v2
  <2>3. LastSays(none, topic, row[topic], row[topic])
    BY <1>4 DEF LastSays
  <2>4. LastSays(one, topic, v1, row[topic])
    BY <1>2, <1>4, <2>2, <2>3, HeldSays DEF one
  <2>5. LastSays(two, topic, v2, row[topic])
    BY <1>2, <1>5, <2>2, <2>4, HeldSays DEF two
  <2>6. LastSays(inbox', topic, v3, row[topic])
    BY <1>2, <1>6, <1>7, <2>2, <2>5, HeldSays
  <2> QED
    BY <1>2, <2>6
<1>10. ServerTypeOK'
  BY <1>1, <1>2, <1>8, PresenceConstants DEF ServerTypeOK, PresenceConstants, brokerVars
<1>11. BackendAgrees'
  <2>1. ASSUME NEW topic \in Topics, retained[topic] = None
        PROVE  row[topic] = None /\ \A i \in DOMAIN inbox' : inbox'[i].topic # topic
    <3>1. row[topic] = None
      BY <2>1 DEF IInv, BackendAgrees
    <3>2. \A i \in DOMAIN inbox' : inbox'[i].value # None
      <4>1. \A m \in Messages : m.value # None
        BY PresenceConstants DEF PresenceConstants, Messages, Message, Values, None, Data
      <4>2. \A i \in DOMAIN inbox' : inbox'[i] \in Messages
        BY <1>8
      <4> QED
        BY <4>1, <4>2
    <3> QED
      BY <1>9, <2>1, <3>1, <3>2 DEF LastSays
  <2> QED
    BY <1>1, <1>9, <2>1 DEF IInv, BackendAgrees, brokerVars
<1> QED
  BY <1>1, <1>10, <1>11, Frames, TypeFrames, TypesInParts DEF IInv, deviceVars, brokerVars, webVars

LEMMA StopListeningKeeps ==
    ASSUME PresenceConstants, IInv, StopListening, UNCHANGED faults
    PROVE  IInv'
<1>1. /\ listening' = FALSE /\ inbox' = <<>>
      /\ UNCHANGED <<deviceVars, brokerVars, registered, row, webVars, reboots>>
  BY DEF StopListening
<1>2. inbox' \in Seq(Messages) /\ Len(inbox') = 0 /\ DOMAIN inbox' = {}
  BY <1>1
<1>3. ServerTypeOK'
  <2>1. Len(inbox') <= MaxInbox
    BY <1>2, PresenceConstants DEF PresenceConstants
  <2> QED
    BY <1>1, <1>2, <2>1, TypeFrames DEF ServerTypeOK, brokerVars
<1>4. BackendAgrees'
  BY <1>1, <1>2 DEF IInv, BackendAgrees, brokerVars
<1> QED
  BY <1>1, <1>3, <1>4, Frames, TypeFrames, TypesInParts DEF IInv, deviceVars, brokerVars, webVars

LEMMA HandleMessageKeeps ==
    ASSUME PresenceConstants, IInv, HandleMessage, UNCHANGED faults
    PROVE  IInv'
<1> DEFINE m == Head(inbox)
<1>1. /\ inbox # <<>> /\ inbox' = Tail(inbox)
      /\ row' = IF registered /\ m.topic \in Topics THEN [row EXCEPT ![m.topic] = m.value] ELSE row
      /\ UNCHANGED <<deviceVars, brokerVars, listening, registered, webVars, reboots>>
  BY DEF HandleMessage
<1>2. ServerTypeOK
  BY TypeFrames
<1>3. /\ inbox' \in Seq(Messages) /\ Len(inbox') = Len(inbox) - 1 /\ Len(inbox) \in Nat
      /\ m \in Messages
      /\ \A i \in DOMAIN inbox' : i + 1 \in DOMAIN inbox /\ inbox'[i] = inbox[i + 1]
      /\ 1 \in DOMAIN inbox /\ m = inbox[1]
  BY <1>1, <1>2 DEF ServerTypeOK
<1>4. m.topic \in Topics => m.value \in Values
  BY <1>3 DEF Messages, Message, Topics, Data
<1> HIDE DEF m
<1>5. /\ row' \in Rows
      /\ \A topic \in Topics :
            row'[topic] = IF registered /\ m.topic = topic THEN m.value ELSE row[topic]
  BY <1>1, <1>2, <1>4 DEF ServerTypeOK, Rows
<1>6. ServerTypeOK'
  <2>1. Len(inbox') <= MaxInbox
    BY <1>2, <1>3, PresenceConstants DEF ServerTypeOK, PresenceConstants
  <2> QED
    BY <1>1, <1>2, <1>3, <1>5, <2>1 DEF ServerTypeOK, brokerVars
<1>7. BackendAgrees'
  <2>1. ASSUME NEW topic \in Topics, retained[topic] = None
        PROVE  row'[topic] = None /\ \A i \in DOMAIN inbox' : inbox'[i].topic # topic
    BY <1>3, <1>5, <2>1 DEF IInv, BackendAgrees
  <2>2. ASSUME registered, "register" \notin faults, listening, NEW topic \in Topics
        PROVE  LastSays(inbox', topic, retained[topic], row'[topic])
    <3>1. LastSays(inbox, topic, retained[topic], row[topic])
      BY <2>2 DEF IInv, BackendAgrees
    <3>2. row'[topic] = IF Head(inbox).topic = topic THEN Head(inbox).value ELSE row[topic]
      BY <1>5, <2>2 DEF m
    <3> QED
      BY <1>1, <1>2, <3>1, <3>2, TailSays DEF ServerTypeOK
  <2>3. listening
    BY <1>1 DEF IInv, BackendAgrees
  <2> QED
    BY <1>1, <2>1, <2>2, <2>3 DEF IInv, BackendAgrees, brokerVars
<1> QED
  BY <1>1, <1>6, <1>7, Frames, TypeFrames, TypesInParts DEF IInv, deviceVars, brokerVars, webVars

LEMMA RegisterKeeps ==
    ASSUME IInv, Register, UNCHANGED faults
    PROVE  IInv'
<1>1. /\ ~registered /\ registered' = TRUE
      /\ UNCHANGED <<deviceVars, brokerVars, listening, inbox, row, webVars, reboots>>
  BY DEF Register
<1>2. ServerTypeOK'
  BY <1>1, TypeFrames DEF ServerTypeOK, brokerVars
<1>3. BackendAgrees'
  BY <1>1 DEF IInv, BackendAgrees, brokerVars
<1> QED
  BY <1>1, <1>2, <1>3, Frames, TypeFrames, TypesInParts DEF IInv, deviceVars, brokerVars, webVars

-----------------------------------------------------------------------------
(* The web process. *)

LEMMA WebKeeps ==
    ASSUME PresenceConstants, IInv, UNCHANGED faults,
           Refuse \/ PassCheck \/ PublishCommand \/ PublishTimesOut \/ PublishFails
    PROVE  IInv'
<1>1. /\ UNCHANGED <<deviceVars, session, retained, backendVars, reboots>>
      /\ answer' \in {None, "refused", "sent", "failed"} /\ web' \in {"idle", "publish"}
      /\ \/ UNCHANGED <<commands, asked>> /\ (web' = "publish" => asked < MaxCommands)
         \/ /\ web = "publish" /\ web' = "idle" /\ asked' = asked + 1
            /\ commands' \in {commands, commands + 1}
  BY TypeFrames
     DEF Refuse, PassCheck, PublishCommand, PublishTimesOut, PublishFails, brokerVars,
         IInv, CommandsAgree, CommandTypeOK
<1>2. {commands, asked, reboots, MaxCommands} \subseteq Nat
  BY TypeFrames, PresenceConstants DEF CommandTypeOK, PresenceConstants
<1>3. CommandTypeOK'
  <2>1. commands' \in 0..MaxCommands /\ asked' \in 0..MaxCommands
    BY <1>1, <1>2, TypeFrames DEF IInv, CommandsAgree, CommandTypeOK
  <2> QED
    BY <1>1, <2>1, TypeFrames DEF CommandTypeOK
<1>4. CommandsAgree'
  BY <1>1, <1>2 DEF IInv, CommandsAgree, deviceVars
<1>5. DeviceTypeOK' /\ ServerTypeOK'
  BY <1>1, TypeFrames DEF backendVars
<1>6. DeviceAgrees' /\ BrokerAgrees' /\ BackendAgrees' /\ ModeOnItsWay'
  BY <1>1, Frames DEF deviceVars, backendVars
<1> QED
  BY <1>3, <1>4, <1>5, <1>6, TypeFrames, TypesInParts DEF IInv

-----------------------------------------------------------------------------
LEMMA StutterIInv ==
    ASSUME IInv, UNCHANGED vars
    PROVE  IInv'
<1>1. UNCHANGED <<faults, deviceVars, brokerVars, backendVars, webVars, reboots>>
  BY DEF vars
<1> QED
  BY <1>1, Frames, TypeFrames, TypesInParts DEF IInv, deviceVars, brokerVars, backendVars, webVars

LEMMA NextIInv ==
    ASSUME PresenceConstants, IInv, Next
    PROVE  IInv'
<1>0. UNCHANGED faults
  BY DEF Next
<1>1. CASE (\E m \in Modes : ApplyMode(m)) \/ Sample \/ TelemetryTask
  BY <1>0, <1>1, ApplyModeKeeps, SampleKeeps, TelemetryTaskKeeps
<1>2. CASE StartClient \/ Connect \/ HandleConnected \/ HandleDisconnected \/ SessionEnds
  BY <1>0, <1>2, StartClientKeeps, ConnectKeeps, HandleConnectedKeeps, HandleDisconnectedKeeps,
     SessionEndsKeeps
<1>3. CASE Deliver \/ Overtake \/ Acknowledge \/ \E k \in DOMAIN outbox : Expire(k)
  BY <1>0, <1>3, DeliverKeeps, OvertakeKeeps, AcknowledgeKeeps, ExpireKeeps
<1>4. CASE Restart \/ RebootCommanded
  BY <1>0, <1>4, BootKeeps
<1>5. CASE Subscribe \/ StopListening \/ HandleMessage \/ Register
  BY <1>0, <1>5, SubscribeKeeps, StopListeningKeeps, HandleMessageKeeps, RegisterKeeps
<1>6. CASE Refuse \/ PassCheck \/ PublishCommand \/ PublishTimesOut \/ PublishFails
  BY <1>0, <1>6, WebKeeps
<1> QED
  BY <1>1, <1>2, <1>3, <1>4, <1>5, <1>6 DEF Next, Step

LEMMA Invariance == Spec => []IInv
BY InitIInv, NextIInv, StutterIInv, PresenceConstants, PTL DEF Spec

-----------------------------------------------------------------------------
(* The types are kept: the queues stay within their bounds, and a device has
   room to say that it is online whenever it connects. *)
THEOREM TypesKept == Spec => []TypeOK
<1>1. IInv => TypeOK
  BY DEF IInv
<1> QED
  BY <1>1, Invariance, PTL

(* With nothing on its way, what was said last is what is known. *)
LEMMA SettledAgrees ==
    ASSUME IInv, Settled, "register" \notin faults
    PROVE  row = retained
<1>1. inbox = <<>> /\ listening /\ registered
  BY DEF IInv, BackendAgrees, Settled
<1>2. \A topic \in Topics : row[topic] = retained[topic]
  BY <1>1 DEF IInv, BackendAgrees, LastSays
<1>3. row \in Rows /\ retained \in Rows
  BY DEF IInv, TypeOK
<1> QED
  BY <1>2, <1>3 DEF Rows

(* Whatever was lost, missed, sent again or overtaken, and however often device,
   link and backend failed: once nothing is on its way, a device is shown online
   exactly while it is connected. *)
THEOREM StatusIsKnown == Spec => []StatusAgrees
<1>1. ASSUME IInv, Settled, "register" \notin faults
      PROVE  /\ row = retained
             /\ session # None => row["status"] = "online" /\ row["info"] = "known"
             /\ session = None => row["status"] # "online"
  <2>1. row = retained
    BY <1>1, SettledAgrees
  <2>2. session # None => retained["status"] = "online" /\ retained["info"] = "known"
    BY <1>1 DEF IInv, BrokerAgrees, Settled, Linked
  <2>3. session = None => retained["status"] # "online"
    BY <1>1 DEF IInv, BrokerAgrees
  <2> QED
    BY <2>1, <2>2, <2>3
<1>2. IInv => StatusAgrees
  BY <1>1 DEF StatusAgrees
<1> QED
  BY <1>2, Invariance, PTL

(* So is the mode of its sensor, however often it changed while the device was
   not connected, unless the queue was full or the client library lost or
   reordered a message. *)
THEOREM ModeIsKnown == Spec => []ModeAgrees
<1>1. ASSUME IInv, Settled, session # None,
             faults \cap {"register", "full", "expire", "overtake"} = {}
      PROVE  row["mode"] = mode
  <2>1. row = retained
    BY <1>1, SettledAgrees
  <2>2. queue = <<>> /\ outbox = <<>>
    BY <1>1 DEF Settled
  <2>3. LastSays(outbox, "mode", mode, retained["mode"])
    BY <1>1, <2>2 DEF IInv, ModeOnItsWay, LastQueued
  <2> QED
    BY <2>1, <2>2, <2>3 DEF LastSays
<1>2. IInv => ModeAgrees
  BY <1>1 DEF ModeAgrees
<1> QED
  BY <1>2, Invariance, PTL

(* However a device restarts, a reboot that was asked for once reboots it once. *)
THEOREM NoRebootTwice == Spec => []RebootOnce
<1>1. IInv => RebootOnce
  BY DEF IInv, CommandsAgree, RebootOnce
<1> QED
  BY <1>1, Invariance, PTL

(* A device that was claimed before it first connected is refused as offline
   only while it is, or while the news is on its way: the late claim that
   PresenceClaimed.cfg shows is the only way around it. *)
THEOREM RefusalIsTrue ==
    Spec => [][Refuse /\ "register" \notin faults => ~Settled \/ session = None]_vars
<1>1. ASSUME IInv
      PROVE  [Refuse /\ "register" \notin faults => ~Settled \/ session = None]_vars
  <2>1. session # None /\ Settled => retained["status"] = "online"
    BY <1>1 DEF IInv, BrokerAgrees, Settled, Linked
  <2> QED
    BY <1>1, <2>1, SettledAgrees DEF Refuse
<1> QED
  BY <1>1, Invariance, PTL
=============================================================================
