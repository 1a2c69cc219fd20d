-------------------------- MODULE WifiManagerProofs --------------------------
(***************************************************************************)
(* What WifiFaults.cfg and WifiIdeal.cfg check of safety, proved for every *)
(* queue length, retry budget and set of faults.  The invariants of        *)
(* WifiManager are inductive together: the retry token needs to know in    *)
(* which state a Disconnected is being handled, the budget which state     *)
(* follows which.  What holds while nothing fails needs in addition what   *)
(* each event in the queue stands for.                                     *)
(***************************************************************************)
EXTENDS WifiManager, FiniteSetTheorems, TLAPS

IInv ==
    /\ TypeOK
    /\ ReconnectToken
    /\ AttemptBudget
    /\ NotificationsAgree
    /\ CredentialsBehindAttempts

-----------------------------------------------------------------------------
(* The queue. *)

(* An event enqueued changes where that event waits and nothing else: it is
   put last or dropped. *)
LEMMA EnqueueEffect ==
    ASSUME WifiConstants, TypeOK, NEW e \in Events, Enqueue(e)
    PROVE  /\ queue' \in Seq(Events)
           /\ Len(queue') <= QueueLength
           /\ \A f \in Events : f # e => Queued(f)' = Queued(f)
           /\ Queued(e)' \in {Queued(e), Queued(e) \cup {Len(queue) + 1}}
<1>1. CASE Len(queue) < QueueLength
  <2>1. queue' = Append(queue, e)
    BY <1>1 DEF Enqueue
  <2>2. /\ queue' \in Seq(Events)
        /\ Len(queue') = Len(queue) + 1
        /\ \A i \in 1..Len(queue) : queue'[i] = queue[i]
        /\ queue'[Len(queue) + 1] = e
    BY <2>1 DEF TypeOK
  <2>3. \A f \in Events : f # e => Queued(f)' = Queued(f)
    BY <2>2 DEF Queued, TypeOK
  <2>4. Queued(e)' = Queued(e) \cup {Len(queue) + 1}
    BY <2>2 DEF Queued, TypeOK
  <2>5. Len(queue') <= QueueLength
    BY <1>1, <2>2 DEF TypeOK, WifiConstants
  <2> QED
    BY <2>2, <2>3, <2>4, <2>5
<1>2. CASE ~(Len(queue) < QueueLength)
  <2>1. queue' = queue
    BY <1>2 DEF Enqueue
  <2> QED
    BY <2>1 DEF TypeOK, Queued
<1> QED
  BY <1>1, <1>2

(* Taking an event removes it and moves the others one place forward. *)
LEMMA ReceiveEffect ==
    ASSUME TypeOK, NEW e \in Events, Receive(e)
    PROVE  /\ queue' \in Seq(Events)
           /\ Len(queue') = Len(queue) - 1
           /\ 1 \in Queued(e)
           /\ \A f \in Events : Queued(f)' = {i \in 1..Len(queue') : i + 1 \in Queued(f)}
<1>1. /\ queue \in Seq(Events)
      /\ queue # <<>>
      /\ Head(queue) = e
      /\ queue' = Tail(queue)
  BY DEF Receive, TypeOK
<1>2. /\ Len(queue) \in Nat \ {0}
      /\ queue' \in Seq(Events)
      /\ Len(queue') = Len(queue) - 1
      /\ \A i \in 1..Len(queue') : queue'[i] = queue[i + 1]
      /\ queue[1] = e
  BY <1>1
<1>3. \A f \in Events : Queued(f)' = {i \in 1..Len(queue') : i + 1 \in Queued(f)}
  BY <1>2 DEF Queued
<1>4. 1 \in Queued(e)
  BY <1>2 DEF Queued
<1> QED
  BY <1>2, <1>3, <1>4

(* What the invariants need of a received event: it appears nowhere anew, a
   single one stays single, and a single one received is gone. *)
LEMMA ReceiveToken ==
    ASSUME TypeOK, NEW e \in Events, Receive(e)
    PROVE  /\ queue' \in Seq(Events)
           /\ Len(queue') <= QueueLength
           /\ \A f \in Events : Queued(f)' # {} => Queued(f) # {}
           /\ \A f \in Events :
                 (\A i, j \in Queued(f) : i = j) => \A i, j \in Queued(f)' : i = j
           /\ (\A i, j \in Queued(e) : i = j) => Queued(e)' = {}
           /\ Queued(e) # {}
<1>1. /\ queue' \in Seq(Events)
      /\ Len(queue') = Len(queue) - 1
      /\ 1 \in Queued(e)
      /\ \A f \in Events : Queued(f)' = {i \in 1..Len(queue') : i + 1 \in Queued(f)}
  BY ReceiveEffect
<1>2. Len(queue') <= QueueLength
  <2>1. Len(queue) \in Nat /\ Len(queue) <= QueueLength
    BY DEF TypeOK
  <2>2. queue # <<>> /\ Len(queue) > 0
    BY DEF Receive, TypeOK
  <2>3. QueueLength \in Nat
    BY WifiConstants
  <2> QED
    BY <1>1, <2>1, <2>2, <2>3
<1>3. \A f \in Events : Queued(f)' # {} => Queued(f) # {}
  BY <1>1
<1>4. ASSUME NEW f \in Events, \A i, j \in Queued(f) : i = j
      PROVE  \A i, j \in Queued(f)' : i = j
  <2> SUFFICES ASSUME NEW i \in Queued(f)', NEW j \in Queued(f)'
               PROVE  i = j
    OBVIOUS
  <2>1. i \in Nat /\ j \in Nat /\ i + 1 \in Queued(f) /\ j + 1 \in Queued(f)
    BY <1>1
  <2>2. i + 1 = j + 1
    BY <1>4, <2>1
  <2> QED
    BY <2>1, <2>2
<1>5. ASSUME \A i, j \in Queued(e) : i = j
      PROVE  Queued(e)' = {}
  <2> SUFFICES ASSUME NEW i \in Queued(e)'
               PROVE  FALSE
    OBVIOUS
  <2>1. i \in 1..Len(queue') /\ i + 1 \in Queued(e)
    BY <1>1
  <2>2. i + 1 = 1
    BY <1>1, <1>5, <2>1
  <2>3. i >= 1
    BY <2>1
  <2> QED
    BY <2>1, <2>2, <2>3
<1> QED
  BY <1>1, <1>2, <1>3, <1>4, <1>5

-----------------------------------------------------------------------------
(* The inductive invariant. *)

LEMMA InitIInv ==
    ASSUME WifiConstants, Init
    PROVE  IInv
<1>1. Queued("ConnectRequested") = {} /\ Queued("CredentialsReceived") = {}
  BY DEF Init, Queued
<1>2. TypeOK
  <2>1. queue \in Seq(Events) /\ Len(queue) <= QueueLength
    BY DEF Init, WifiConstants
  <2>2. nvs \subseteq Keys
    BY DEF Init
  <2>3. /\ attempts \in 0..MaxAttempts
        /\ leaves \in 0..MaxLeaves
        /\ begins \in 0..(MaxAttempts + 1)
    BY DEF Init, WifiConstants
  <2> QED
    BY <2>1, <2>2, <2>3 DEF Init, TypeOK, States
<1>3. ReconnectToken /\ AttemptBudget /\ NotificationsAgree
      /\ CredentialsBehindAttempts
  BY <1>1 DEF Init, ReconnectToken, AttemptBudget, NotificationsAgree, CredentialsBehindAttempts
<1> QED
  BY <1>2, <1>3 DEF IInv

(* setup() enqueues the start. *)
LEMMA StartEnqueued ==
    ASSUME WifiConstants, IInv, EnqueueStart
    PROVE  IInv'
<1>1. Enqueue("StartRequested")
  BY DEF EnqueueStart
<1>2. /\ queue' \in Seq(Events)
      /\ Len(queue') <= QueueLength
      /\ \A f \in Events : f # "StartRequested" => Queued(f)' = Queued(f)
      /\ Queued("StartRequested")' \in
            {Queued("StartRequested"), Queued("StartRequested") \cup {Len(queue) + 1}}
  BY <1>1, EnqueueEffect DEF IInv, Events
<1>3. TypeOK'
  BY <1>2 DEF IInv, TypeOK, EnqueueStart, taskVars, storeVars, radioVars, uiVars
<1>4. ReconnectToken'
  BY <1>2 DEF IInv, ReconnectToken, EnqueueStart, taskVars, Events
<1>5. AttemptBudget'
  BY DEF IInv, AttemptBudget, EnqueueStart, taskVars
<1>6. NotificationsAgree'
  BY DEF IInv, NotificationsAgree, EnqueueStart, taskVars, uiVars
<1>7. CredentialsBehindAttempts'
  BY <1>2 DEF IInv, CredentialsBehindAttempts, EnqueueStart, taskVars, storeVars, Events
<1> QED
  BY <1>3, <1>4, <1>5, <1>6, <1>7 DEF IInv

(* The armed timer turns into the queued event. *)
LEMMA TimerFiring ==
    ASSUME WifiConstants, IInv, TimerFires
    PROVE  IInv'
<1>1. Enqueue("ConnectRequested")
  BY DEF TimerFires
<1>2. /\ queue' \in Seq(Events)
      /\ Len(queue') <= QueueLength
      /\ \A f \in Events : f # "ConnectRequested" => Queued(f)' = Queued(f)
      /\ Queued("ConnectRequested")' \in
            {Queued("ConnectRequested"), Queued("ConnectRequested") \cup {Len(queue) + 1}}
  BY <1>1, EnqueueEffect DEF IInv, Events
<1>3. TypeOK'
  BY <1>2 DEF IInv, TypeOK, TimerFires, taskVars, storeVars, radioVars, uiVars
<1>4. ReconnectToken'
  BY <1>2 DEF IInv, ReconnectToken, TimerFires, taskVars
<1>5. AttemptBudget'
  BY DEF IInv, AttemptBudget, TimerFires, taskVars
<1>6. NotificationsAgree'
  BY DEF IInv, NotificationsAgree, TimerFires, taskVars, uiVars
<1>7. CredentialsBehindAttempts'
  BY <1>2 DEF IInv, CredentialsBehindAttempts, TimerFires, taskVars, storeVars, Events
<1> QED
  BY <1>3, <1>4, <1>5, <1>6, <1>7 DEF IInv

(* Both keys are in flash when an update is enqueued. *)
LEMMA UpdateEnqueued ==
    ASSUME WifiConstants, IInv, EnqueueUpdate
    PROVE  IInv'
<1>1. Enqueue("CredentialsReceived")
  BY DEF EnqueueUpdate
<1>2. /\ queue' \in Seq(Events)
      /\ Len(queue') <= QueueLength
      /\ \A f \in Events : f # "CredentialsReceived" => Queued(f)' = Queued(f)
      /\ Queued("CredentialsReceived")' \in
            {Queued("CredentialsReceived"), Queued("CredentialsReceived") \cup {Len(queue) + 1}}
  BY <1>1, EnqueueEffect DEF IInv, Events
<1>3. TypeOK'
  BY <1>2 DEF IInv, TypeOK, EnqueueUpdate, taskVars, radioVars, uiVars
<1>4. ReconnectToken'
  BY <1>2 DEF IInv, ReconnectToken, EnqueueUpdate, taskVars, Events
<1>5. AttemptBudget'
  BY DEF IInv, AttemptBudget, EnqueueUpdate, taskVars
<1>6. NotificationsAgree'
  BY DEF IInv, NotificationsAgree, EnqueueUpdate, taskVars, uiVars
<1>7. CredentialsBehindAttempts'
  BY DEF IInv, CredentialsBehindAttempts, EnqueueUpdate, taskVars
<1> QED
  BY <1>3, <1>4, <1>5, <1>6, <1>7 DEF IInv

(* The driver obtains an address. *)
LEMMA AddressObtained ==
    ASSUME WifiConstants, IInv, RadioGotIp
    PROVE  IInv'
<1>1. Enqueue("Connected")
  BY DEF RadioGotIp
<1>2. /\ queue' \in Seq(Events)
      /\ Len(queue') <= QueueLength
      /\ \A f \in Events : f # "Connected" => Queued(f)' = Queued(f)
      /\ Queued("Connected")' \in
            {Queued("Connected"), Queued("Connected") \cup {Len(queue) + 1}}
  BY <1>1, EnqueueEffect DEF IInv, Events
<1>3. TypeOK'
  BY <1>2 DEF IInv, TypeOK, RadioGotIp, taskVars, storeVars, uiVars
<1>4. ReconnectToken'
  BY <1>2 DEF IInv, ReconnectToken, RadioGotIp, taskVars, Events
<1>5. AttemptBudget'
  BY DEF IInv, AttemptBudget, RadioGotIp, taskVars
<1>6. NotificationsAgree'
  BY DEF IInv, NotificationsAgree, RadioGotIp, taskVars, uiVars
<1>7. CredentialsBehindAttempts'
  BY <1>2 DEF IInv, CredentialsBehindAttempts, RadioGotIp, taskVars, storeVars, Events
<1> QED
  BY <1>3, <1>4, <1>5, <1>6, <1>7 DEF IInv

(* The start is handled. *)
LEMMA StartHandled ==
    ASSUME WifiConstants, IInv, HandleStart
    PROVE  IInv'
<1>1. Receive("StartRequested")
  BY DEF HandleStart, Accepts, Begin, StartProvisioning, LoadOutcomes
<1>2. /\ queue' \in Seq(Events)
      /\ Len(queue') <= QueueLength
      /\ \A f \in Events : Queued(f)' # {} => Queued(f) # {}
      /\ \A f \in Events :
            (\A i, j \in Queued(f) : i = j) => \A i, j \in Queued(f)' : i = j
      /\ (\A i, j \in Queued("StartRequested") : i = j) => Queued("StartRequested")' = {}
      /\ Queued("StartRequested") # {}
  BY <1>1, ReceiveToken DEF IInv, Events
<1>3. TypeOK'
  <2>1. loaded' \in BOOLEAN /\ timer' \in BOOLEAN /\ nvs' \subseteq Keys
    BY DEF IInv, TypeOK, HandleStart, Begin, StartProvisioning, LoadOutcomes, storeVars
  <2>2. attempts' \in 0..MaxAttempts /\ begins' \in 0..(MaxAttempts + 1)
    BY DEF IInv, TypeOK, HandleStart, Begin, StartProvisioning
  <2>3. radio' \in {"down", "joining", "up"} /\ leaves' \in 0..MaxLeaves
    BY DEF IInv, TypeOK, HandleStart, Begin, StartProvisioning, radioVars
  <2>4. /\ sm' \in States
        /\ step' \in {"receive", "reconnect"}
        /\ queue' \in Seq(Events)
        /\ Len(queue') <= QueueLength
    BY <1>2 DEF IInv, TypeOK, States, HandleStart
  <2>5. /\ saver' \in {"idle", "ssidSaved", "bothSaved"}
        /\ wifiShown' \in BOOLEAN
        /\ ble' \in {"off", "on", "stopping"}
        /\ started' \in BOOLEAN
    BY DEF IInv, TypeOK, HandleStart, StartProvisioning, storeVars, uiVars
  <2> QED
    BY <2>1, <2>2, <2>3, <2>4, <2>5 DEF TypeOK
<1>4. ReconnectToken'
  BY <1>2 DEF IInv, ReconnectToken, HandleStart, Accepts, Events
<1>5. AttemptBudget'
  BY DEF IInv, AttemptBudget, HandleStart, Accepts, Begin, StartProvisioning
<1>6. NotificationsAgree'
  BY DEF IInv, NotificationsAgree, HandleStart, Accepts, StartProvisioning, uiVars
<1>7. CredentialsBehindAttempts'
  BY <1>2
     DEF IInv, TypeOK, CredentialsBehindAttempts, Keys, HandleStart, Accepts, Begin,
         StartProvisioning, LoadOutcomes, storeVars, Events
<1> QED
  BY <1>3, <1>4, <1>5, <1>6, <1>7 DEF IInv

(* A connection is handled. *)
LEMMA ConnectedHandled ==
    ASSUME WifiConstants, IInv, HandleConnected
    PROVE  IInv'
<1>1. Receive("Connected")
  BY DEF HandleConnected, Accepts
<1>2. /\ queue' \in Seq(Events)
      /\ Len(queue') <= QueueLength
      /\ \A f \in Events : Queued(f)' # {} => Queued(f) # {}
      /\ \A f \in Events :
            (\A i, j \in Queued(f) : i = j) => \A i, j \in Queued(f)' : i = j
      /\ (\A i, j \in Queued("Connected") : i = j) => Queued("Connected")' = {}
      /\ Queued("Connected") # {}
  BY <1>1, ReceiveToken DEF IInv, Events
<1>3. TypeOK'
  BY <1>2 DEF IInv, TypeOK, States, HandleConnected, storeVars, radioVars
<1>4. ReconnectToken'
  BY <1>2 DEF IInv, ReconnectToken, HandleConnected, Accepts, Events
<1>5. AttemptBudget'
  BY DEF AttemptBudget, HandleConnected
<1>6. NotificationsAgree'
  BY DEF IInv, NotificationsAgree, HandleConnected, Accepts
<1>7. CredentialsBehindAttempts'
  BY DEF IInv, CredentialsBehindAttempts, HandleConnected, Accepts, storeVars
<1> QED
  BY <1>3, <1>4, <1>5, <1>6, <1>7 DEF IInv

(* A disconnect is handled; no retry is under way in the states that take it. *)
LEMMA DisconnectedHandled ==
    ASSUME WifiConstants, IInv, HandleDisconnected
    PROVE  IInv'
<1>1. Receive("Disconnected")
  BY DEF HandleDisconnected, Accepts
<1>2. /\ queue' \in Seq(Events)
      /\ Len(queue') <= QueueLength
      /\ \A f \in Events : Queued(f)' # {} => Queued(f) # {}
      /\ \A f \in Events :
            (\A i, j \in Queued(f) : i = j) => \A i, j \in Queued(f)' : i = j
      /\ (\A i, j \in Queued("Disconnected") : i = j) => Queued("Disconnected")' = {}
      /\ Queued("Disconnected") # {}
  BY <1>1, ReceiveToken DEF IInv, Events
<1>3. TypeOK'
  BY <1>2 DEF IInv, TypeOK, States, HandleDisconnected, Accepts, storeVars, radioVars, uiVars
<1>4. ReconnectToken'
  BY <1>2 DEF IInv, ReconnectToken, HandleDisconnected, Accepts, Events
<1>5. AttemptBudget'
  BY DEF IInv, AttemptBudget, HandleDisconnected, Accepts
<1>6. NotificationsAgree'
  BY DEF IInv, NotificationsAgree, HandleDisconnected, Accepts
<1>7. CredentialsBehindAttempts'
  BY DEF IInv, CredentialsBehindAttempts, HandleDisconnected, Accepts, storeVars
<1> QED
  BY <1>3, <1>4, <1>5, <1>6, <1>7 DEF IInv

(* The retry is taken, and with it the only token. *)
LEMMA ConnectHandled ==
    ASSUME WifiConstants, IInv, HandleConnectRequested
    PROVE  IInv'
<1>1. Receive("ConnectRequested")
  BY DEF HandleConnectRequested, Accepts, Begin
<1>2. /\ queue' \in Seq(Events)
      /\ Len(queue') <= QueueLength
      /\ \A f \in Events : Queued(f)' # {} => Queued(f) # {}
      /\ \A f \in Events :
            (\A i, j \in Queued(f) : i = j) => \A i, j \in Queued(f)' : i = j
      /\ (\A i, j \in Queued("ConnectRequested") : i = j) => Queued("ConnectRequested")' = {}
      /\ Queued("ConnectRequested") # {}
  BY <1>1, ReceiveToken DEF IInv, Events
<1>3. TypeOK'
  BY <1>2 DEF IInv, TypeOK, States, HandleConnectRequested, Begin, storeVars, radioVars, uiVars
<1>4. ReconnectToken'
  BY <1>2 DEF IInv, ReconnectToken, HandleConnectRequested
<1>5. AttemptBudget'
  BY DEF IInv, TypeOK, AttemptBudget, HandleConnectRequested, Accepts, Begin
<1>6. NotificationsAgree'
  BY DEF IInv, NotificationsAgree, HandleConnectRequested, Accepts, uiVars
<1>7. CredentialsBehindAttempts'
  BY DEF IInv, CredentialsBehindAttempts, HandleConnectRequested, Accepts, storeVars
<1> QED
  BY <1>3, <1>4, <1>5, <1>6, <1>7 DEF IInv

(* New credentials are handled. *)
LEMMA UpdateHandled ==
    ASSUME WifiConstants, IInv, HandleCredentialsReceived
    PROVE  IInv'
<1>1. Receive("CredentialsReceived")
  BY DEF HandleCredentialsReceived, Accepts, Begin, StopProvisioning, LoadOutcomes
<1>2. /\ queue' \in Seq(Events)
      /\ Len(queue') <= QueueLength
      /\ \A f \in Events : Queued(f)' # {} => Queued(f) # {}
      /\ \A f \in Events :
            (\A i, j \in Queued(f) : i = j) => \A i, j \in Queued(f)' : i = j
      /\ (\A i, j \in Queued("CredentialsReceived") : i = j) => Queued("CredentialsReceived")' = {}
      /\ Queued("CredentialsReceived") # {}
  BY <1>1, ReceiveToken DEF IInv, Events
<1>3. TypeOK'
  <2>1. loaded' \in BOOLEAN /\ timer' \in BOOLEAN /\ nvs' \subseteq Keys
    BY DEF IInv, TypeOK, HandleCredentialsReceived, Begin, LoadOutcomes, storeVars
  <2>2. attempts' \in 0..MaxAttempts /\ begins' \in 0..(MaxAttempts + 1)
    BY DEF IInv, TypeOK, HandleCredentialsReceived, Begin
  <2>3. radio' \in {"down", "joining", "up"} /\ leaves' \in 0..MaxLeaves
    BY DEF IInv, TypeOK, HandleCredentialsReceived, Begin, radioVars
  <2>4. /\ sm' \in States
        /\ step' \in {"receive", "reconnect"}
        /\ queue' \in Seq(Events)
        /\ Len(queue') <= QueueLength
    BY <1>2 DEF IInv, TypeOK, States, HandleCredentialsReceived
  <2>5. /\ saver' \in {"idle", "ssidSaved", "bothSaved"}
        /\ wifiShown' \in BOOLEAN
        /\ ble' \in {"off", "on", "stopping"}
        /\ started' \in BOOLEAN
    BY DEF IInv, TypeOK, HandleCredentialsReceived, StopProvisioning, storeVars
  <2> QED
    BY <2>1, <2>2, <2>3, <2>4, <2>5 DEF TypeOK
<1>4. ReconnectToken'
  BY <1>2 DEF IInv, ReconnectToken, HandleCredentialsReceived, Accepts, Events
<1>5. AttemptBudget'
  BY DEF IInv, AttemptBudget, HandleCredentialsReceived, Accepts, Begin
<1>6. NotificationsAgree'
  BY DEF IInv, NotificationsAgree, HandleCredentialsReceived, Accepts, StopProvisioning
<1>7. CredentialsBehindAttempts'
  BY <1>2 DEF IInv, CredentialsBehindAttempts, HandleCredentialsReceived, Accepts, storeVars
<1> QED
  BY <1>3, <1>4, <1>5, <1>6, <1>7 DEF IInv

(* A retry is scheduled or given up. *)
LEMMA RetryRequested ==
    ASSUME WifiConstants, IInv, RequestReconnect
    PROVE  IInv'
<1>1. queue' = queue
  BY DEF RequestReconnect
<1>2. \A f \in Events : Queued(f)' = Queued(f)
  BY <1>1 DEF Queued
<1>3. TypeOK'
  <2>1. loaded' \in BOOLEAN /\ timer' \in BOOLEAN /\ nvs' \subseteq Keys
    BY DEF IInv, TypeOK, RequestReconnect, MaxReached, CountRetry, StartProvisioning, storeVars
  <2>2. attempts' \in 0..MaxAttempts /\ begins' \in 0..(MaxAttempts + 1)
    BY DEF IInv, TypeOK, RequestReconnect, MaxReached, CountRetry, StartProvisioning
  <2>3. radio' \in {"down", "joining", "up"} /\ leaves' \in 0..MaxLeaves
    BY DEF IInv, TypeOK, RequestReconnect, StartProvisioning, radioVars
  <2>4. /\ sm' \in States
        /\ step' \in {"receive", "reconnect"}
        /\ queue' \in Seq(Events)
        /\ Len(queue') <= QueueLength
    BY DEF IInv, TypeOK, States, RequestReconnect
  <2>5. /\ saver' \in {"idle", "ssidSaved", "bothSaved"}
        /\ wifiShown' \in BOOLEAN
        /\ ble' \in {"off", "on", "stopping"}
        /\ started' \in BOOLEAN
    BY DEF IInv, TypeOK, RequestReconnect, StartProvisioning, storeVars, uiVars
  <2> QED
    BY <2>1, <2>2, <2>3, <2>4, <2>5 DEF TypeOK
<1>4. ReconnectToken'
  BY <1>2 DEF IInv, ReconnectToken, RequestReconnect, Events
<1>5. AttemptBudget'
  BY DEF IInv, TypeOK, AttemptBudget, RequestReconnect, CountRetry, StartProvisioning
<1>6. NotificationsAgree'
  BY DEF IInv, NotificationsAgree, RequestReconnect, StartProvisioning, uiVars
<1>7. CredentialsBehindAttempts'
  BY DEF IInv, CredentialsBehindAttempts, RequestReconnect, storeVars
<1> QED
  BY <1>3, <1>4, <1>5, <1>6, <1>7 DEF IInv

(* The BLE host task writes the first key. *)
LEMMA SsidSaved ==
    ASSUME WifiConstants, IInv, SaveSsid
    PROVE  IInv'
<1>1. queue' = queue
  BY DEF SaveSsid, vars, taskVars, storeVars, radioVars, uiVars
<1>2. \A f \in Events : Queued(f)' = Queued(f)
  BY <1>1 DEF Queued
<1>3. TypeOK'
  BY DEF IInv, TypeOK, Keys, SaveSsid, taskVars, radioVars, uiVars
<1>4. ReconnectToken'
  BY <1>2 DEF IInv, ReconnectToken, SaveSsid, taskVars, Events
<1>5. AttemptBudget'
  BY DEF IInv, AttemptBudget, SaveSsid, taskVars
<1>6. NotificationsAgree'
  BY DEF IInv, NotificationsAgree, SaveSsid, taskVars, uiVars
<1>7. CredentialsBehindAttempts'
  BY <1>2 DEF IInv, CredentialsBehindAttempts, Keys, SaveSsid, taskVars, Events
<1> QED
  BY <1>3, <1>4, <1>5, <1>6, <1>7 DEF IInv

(* The BLE host task writes the second key. *)
LEMMA PassSaved ==
    ASSUME WifiConstants, IInv, SavePass
    PROVE  IInv'
<1>1. queue' = queue
  BY DEF SavePass, vars, taskVars, storeVars, radioVars, uiVars
<1>2. \A f \in Events : Queued(f)' = Queued(f)
  BY <1>1 DEF Queued
<1>3. TypeOK'
  <2>1. loaded' \in BOOLEAN /\ timer' \in BOOLEAN /\ nvs' \subseteq Keys
    BY DEF IInv, TypeOK, Keys, SavePass, taskVars
  <2>2. attempts' \in 0..MaxAttempts /\ begins' \in 0..(MaxAttempts + 1)
    BY DEF IInv, TypeOK, SavePass, taskVars
  <2>3. radio' \in {"down", "joining", "up"} /\ leaves' \in 0..MaxLeaves
    BY DEF IInv, TypeOK, SavePass, radioVars
  <2>4. /\ sm' \in States
        /\ step' \in {"receive", "reconnect"}
        /\ queue' \in Seq(Events)
        /\ Len(queue') <= QueueLength
    BY DEF IInv, TypeOK, SavePass, taskVars
  <2>5. /\ saver' \in {"idle", "ssidSaved", "bothSaved"}
        /\ wifiShown' \in BOOLEAN
        /\ ble' \in {"off", "on", "stopping"}
        /\ started' \in BOOLEAN
    BY DEF IInv, TypeOK, SavePass, uiVars
  <2> QED
    BY <2>1, <2>2, <2>3, <2>4, <2>5 DEF TypeOK
<1>4. ReconnectToken'
  BY <1>2 DEF IInv, ReconnectToken, SavePass, taskVars, Events
<1>5. AttemptBudget'
  BY DEF IInv, AttemptBudget, SavePass, taskVars
<1>6. NotificationsAgree'
  BY DEF IInv, NotificationsAgree, SavePass, taskVars, uiVars
<1>7. CredentialsBehindAttempts'
  BY <1>2 DEF IInv, TypeOK, CredentialsBehindAttempts, Keys, SavePass, taskVars, radioVars, Events
<1> QED
  BY <1>3, <1>4, <1>5, <1>6, <1>7 DEF IInv

(* BLE obeys a stop. *)
LEMMA BleStopped ==
    ASSUME WifiConstants, IInv, BleStops
    PROVE  IInv'
<1>1. queue' = queue
  BY DEF BleStops, vars, taskVars, storeVars, radioVars, uiVars
<1>2. \A f \in Events : Queued(f)' = Queued(f)
  BY <1>1 DEF Queued
<1>3. TypeOK'
  BY DEF IInv, TypeOK, BleStops, taskVars, storeVars, radioVars
<1>4. ReconnectToken'
  BY <1>2 DEF IInv, ReconnectToken, BleStops, taskVars, Events
<1>5. AttemptBudget'
  BY DEF IInv, AttemptBudget, BleStops, taskVars
<1>6. NotificationsAgree'
  BY DEF IInv, NotificationsAgree, BleStops, taskVars
<1>7. CredentialsBehindAttempts'
  BY <1>2 DEF IInv, CredentialsBehindAttempts, BleStops, taskVars, storeVars, Events
<1> QED
  BY <1>3, <1>4, <1>5, <1>6, <1>7 DEF IInv

(* An event no row takes only leaves the queue.  Ignoring a ConnectRequested
   would lose the retry; the invariant excludes it. *)
LEMMA EventIgnored ==
    ASSUME WifiConstants, IInv, IgnoreEvent
    PROVE  IInv'
<1> PICK e \in Events : Receive(e) /\ sm \notin Accepts(e)
  BY DEF IgnoreEvent
<1>1. UNCHANGED <<taskVars, timer, storeVars, radioVars, uiVars, started>>
  BY DEF IgnoreEvent
<1>2. /\ queue' \in Seq(Events)
      /\ Len(queue') <= QueueLength
      /\ \A f \in Events : Queued(f)' # {} => Queued(f) # {}
      /\ \A f \in Events :
            (\A i, j \in Queued(f) : i = j) => \A i, j \in Queued(f)' : i = j
  BY ReceiveToken DEF IInv
<1>3. TypeOK'
  BY <1>1, <1>2 DEF IInv, TypeOK, taskVars, storeVars, radioVars, uiVars
<1>4. ReconnectToken'
  BY <1>1, <1>2 DEF IInv, ReconnectToken, taskVars, Events
<1>5. AttemptBudget'
  BY <1>1 DEF IInv, AttemptBudget, taskVars
<1>6. NotificationsAgree'
  BY <1>1 DEF IInv, NotificationsAgree, taskVars, uiVars
<1>7. CredentialsBehindAttempts'
  BY <1>1, <1>2 DEF IInv, CredentialsBehindAttempts, taskVars, storeVars, Events
<1> QED
  BY <1>3, <1>4, <1>5, <1>6, <1>7 DEF IInv

(* A disconnect reported by the driver is enqueued, filtered or dropped. *)
LEMMA DisconnectReported ==
    ASSUME WifiConstants, IInv, NEW reason \in Reasons, RadioDisconnected(reason)
    PROVE  IInv'
<1>1. UNCHANGED <<taskVars, timer, storeVars, uiVars, started>>
  BY DEF RadioDisconnected
<1>2. /\ queue' \in Seq(Events)
      /\ Len(queue') <= QueueLength
      /\ \A f \in Events : f # "Disconnected" => Queued(f)' = Queued(f)
  <2>1. CASE reason \in Filtered
    <3>1. queue' = queue
      BY <2>1 DEF RadioDisconnected
    <3> QED
      BY <3>1 DEF IInv, TypeOK, Queued
  <2>2. CASE reason \notin Filtered
    <3>1. Enqueue("Disconnected")
      BY <2>2 DEF RadioDisconnected
    <3> QED
      BY <3>1, EnqueueEffect DEF IInv, Events
  <2> QED
    BY <2>1, <2>2
<1>3. TypeOK'
  BY <1>2 DEF IInv, TypeOK, RadioDisconnected, taskVars, storeVars, uiVars
<1>4. ReconnectToken'
  BY <1>2 DEF IInv, ReconnectToken, RadioDisconnected, taskVars, Events
<1>5. AttemptBudget'
  BY DEF IInv, AttemptBudget, RadioDisconnected, taskVars
<1>6. NotificationsAgree'
  BY DEF IInv, NotificationsAgree, RadioDisconnected, taskVars, uiVars
<1>7. CredentialsBehindAttempts'
  BY <1>1, <1>2 DEF IInv, CredentialsBehindAttempts, taskVars, storeVars, Events
<1> QED
  BY <1>3, <1>4, <1>5, <1>6, <1>7 DEF IInv

(* A restart keeps nothing but the flash. *)
LEMMA Restarted ==
    ASSUME WifiConstants, IInv, Restart
    PROVE  IInv'
<1>1. queue' = <<>> /\ queue' \in Seq(Events) /\ Len(queue') <= QueueLength
  BY DEF Restart, WifiConstants
<1>2. \A f \in Events : Queued(f)' = {}
  BY <1>1 DEF Queued
<1>3. TypeOK'
  <2>1. nvs' \subseteq Keys
    BY DEF IInv, TypeOK, Restart
  <2>2. /\ attempts' \in 0..MaxAttempts
        /\ leaves' \in 0..MaxLeaves
        /\ begins' \in 0..(MaxAttempts + 1)
    BY DEF Restart, WifiConstants
  <2> QED
    BY <1>1, <2>1, <2>2 DEF Restart, TypeOK, States
<1>4. ReconnectToken'
  BY <1>2 DEF ReconnectToken, Restart, Events
<1>5. AttemptBudget'
  BY DEF AttemptBudget, Restart
<1>6. NotificationsAgree'
  BY DEF NotificationsAgree, Restart
<1>7. CredentialsBehindAttempts'
  BY <1>2 DEF CredentialsBehindAttempts, Restart, Events
<1> QED
  BY <1>3, <1>4, <1>5, <1>6, <1>7 DEF IInv

LEMMA Stuttered ==
    ASSUME WifiConstants, IInv, UNCHANGED vars
    PROVE  IInv'
<1>1. /\ UNCHANGED <<sm, step, attempts, loaded, begins>>
      /\ UNCHANGED <<queue, timer, nvs, saver, radio, leaves, wifiShown, ble, started>>
  BY DEF vars, taskVars, storeVars, radioVars, uiVars
<1> QED
  BY <1>1
     DEF IInv, TypeOK, ReconnectToken, AttemptBudget, NotificationsAgree,
         CredentialsBehindAttempts, Queued

LEMMA NextIInv ==
    ASSUME WifiConstants, IInv, [Next]_vars
    PROVE  IInv'
<1>1. CASE EnqueueStart
  BY <1>1, StartEnqueued
<1>2. CASE WifiTask
  BY <1>2, StartHandled, ConnectedHandled, DisconnectedHandled, RetryRequested, ConnectHandled,
     UpdateHandled, EventIgnored
     DEF WifiTask
<1>3. CASE TimerFires
  BY <1>3, TimerFiring
<1>4. CASE Radio
  BY <1>4, AddressObtained, DisconnectReported DEF Radio
<1>5. CASE SaveSsid
  BY <1>5, SsidSaved
<1>6. CASE Saver
  BY <1>6, PassSaved, UpdateEnqueued DEF Saver
<1>7. CASE BleStops
  BY <1>7, BleStopped
<1>8. CASE Restart
  BY <1>8, Restarted
<1>9. CASE UNCHANGED vars
  BY <1>9, Stuttered
<1> QED
  BY <1>1, <1>2, <1>3, <1>4, <1>5, <1>6, <1>7, <1>8, <1>9 DEF Next

(* The conjunction of the type invariant and the four safety invariants holds
   of every run of the Wi-Fi subsystem (WifiManager::handleQueueEvent and the
   transition table under any interleaving, drop and fault). *)
THEOREM Invariance == Spec => []IInv
<1>1. Init => IInv
  BY InitIInv, WifiConstants
<1>2. IInv /\ [Next]_vars => IInv'
  BY NextIInv, WifiConstants
<1> QED
  BY <1>1, <1>2, PTL DEF Spec

(* Every variable keeps its type; the queue never outgrows its capacity and
   the attempt counter never passes its maximum. *)
THEOREM TypeCorrect == Spec => []TypeOK
<1>1. IInv => TypeOK
  BY DEF IInv
<1> QED
  BY <1>1, Invariance, PTL

(* At most one retry is under way, and only in StReconnectPending. *)
THEOREM OneRetry == Spec => []ReconnectToken
<1>1. IInv => ReconnectToken
  BY DEF IInv
<1> QED
  BY <1>1, Invariance, PTL

(* Retries counted are begin() calls made, for every budget. *)
THEOREM BudgetKept == Spec => []AttemptBudget
<1>1. IInv => AttemptBudget
  BY DEF IInv
<1> QED
  BY <1>1, Invariance, PTL

(* No attempt is made without credentials. *)
THEOREM CredentialsPresent == Spec => []CredentialsBehindAttempts
<1>1. IInv => CredentialsBehindAttempts
  BY DEF IInv
<1> QED
  BY <1>1, Invariance, PTL

-----------------------------------------------------------------------------
(* The steps that change the state machine, for the action property and the
   refinement: outside WifiTask only a restart does. *)

LEMMA OtherTasks ==
    ASSUME EnqueueStart \/ TimerFires \/ Radio \/ SaveSsid \/ Saver \/ BleStops
           \/ UNCHANGED vars
    PROVE  UNCHANGED <<sm, attempts>>
BY DEF EnqueueStart, TimerFires, Radio, RadioGotIp, RadioDisconnected, SaveSsid, Saver,
       SavePass, EnqueueUpdate, BleStops, vars, taskVars

(* A lost link leads to provisioning only after a whole budget of begin()
   calls, for every budget. *)
THEOREM BudgetBeforeSetup == Spec => GiveUpOnlyAfterBudget
<1>1. ASSUME IInv, [Next]_vars, sm = "Disconnected", sm' = "Provisioning"
      PROVE  begins >= MaxAttempts
  <2>1. step = "reconnect"
    BY <1>1 DEF IInv, NotificationsAgree
  <2>2. ~(EnqueueStart \/ TimerFires \/ Radio \/ SaveSsid \/ Saver \/ BleStops
          \/ UNCHANGED vars)
    BY <1>1, OtherTasks
  <2>3. ~Restart
    BY <1>1 DEF Restart
  <2>4. WifiTask
    BY <1>1, <2>2, <2>3 DEF Next
  <2>5. RequestReconnect
    BY <2>1, <2>4
       DEF WifiTask, HandleStart, HandleConnected, HandleDisconnected, HandleConnectRequested,
           HandleCredentialsReceived, IgnoreEvent, Receive
  <2>6. attempts >= MaxAttempts
    BY <1>1, <2>5 DEF RequestReconnect, MaxReached
  <2>7. begins \in {attempts, attempts + 1} /\ attempts \in Nat /\ MaxAttempts \in Nat
    BY <1>1, WifiConstants DEF IInv, AttemptBudget, TypeOK, WifiConstants
  <2> QED
    BY <2>6, <2>7
<1> QED
  BY <1>1, Invariance, PTL DEF Spec, GiveUpOnlyAfterBudget

-----------------------------------------------------------------------------
(* The refinement. *)

USE DEF Lifecycle!vars

LEMMA RefineInit ==
    ASSUME Init
    PROVE  Lifecycle!Init
BY DEF Init, Lifecycle!Init

LEMMA RefineNext ==
    ASSUME WifiConstants, IInv, [Next]_vars
    PROVE  [Lifecycle!Next]_(Lifecycle!vars)
<1> USE DEF Lifecycle!Next
<1>1. CASE EnqueueStart \/ TimerFires \/ Radio \/ SaveSsid \/ Saver \/ BleStops
           \/ UNCHANGED vars
  BY <1>1, OtherTasks
<1>2. CASE Restart
  <2>1. Lifecycle!PowerCycle
    BY <1>2 DEF Restart, Lifecycle!PowerCycle
  <2> QED
    BY <2>1
<1>3. CASE HandleStart
  <2>1. sm = "Idle"
    BY <1>3 DEF HandleStart, Accepts
  <2>2. attempts = 0
    BY <2>1 DEF IInv, AttemptBudget
  <2>3. CASE sm' = "Idle"
    <3>1. UNCHANGED attempts
      BY <1>3, <2>3 DEF HandleStart
    <3> QED
      BY <2>1, <2>3, <3>1
  <2>4. CASE sm' \in {"Connecting", "Provisioning"}
    <3>1. attempts' = attempts
      BY <1>3, <2>2 DEF HandleStart, StartProvisioning
    <3>2. Lifecycle!Boot
      BY <2>1, <2>4, <3>1 DEF Lifecycle!Boot
    <3> QED
      BY <3>2
  <2> QED
    BY <1>3, <2>1, <2>3, <2>4 DEF HandleStart
<1>4. CASE HandleConnected
  <2>1. Lifecycle!Succeed
    BY <1>4 DEF HandleConnected, Accepts, Lifecycle!Succeed
  <2> QED
    BY <2>1
<1>5. CASE HandleDisconnected
  <2>1. sm \in {"Connecting", "Connected"} /\ sm' = "Disconnected" /\ UNCHANGED attempts
    BY <1>5 DEF HandleDisconnected, Accepts
  <2>2. CASE sm = "Connecting"
    BY <2>1, <2>2
  <2>3. CASE sm = "Connected"
    <3>1. Lifecycle!Lose
      BY <2>1, <2>3 DEF Lifecycle!Lose
    <3> QED
      BY <3>1
  <2> QED
    BY <2>1, <2>2, <2>3
<1>6. CASE RequestReconnect
  <2>1. attempts \in 0..MaxAttempts /\ MaxAttempts \in Nat
    BY WifiConstants DEF IInv, TypeOK, WifiConstants
  <2>2. CASE ~MaxReached
    <3>1. Lifecycle!Retry
      BY <1>6, <2>1, <2>2 DEF RequestReconnect, MaxReached, CountRetry, Lifecycle!Retry
    <3> QED
      BY <3>1
  <2>3. CASE MaxReached
    <3>1. attempts = MaxAttempts
      BY <2>1, <2>3 DEF MaxReached
    <3>2. Lifecycle!GiveUp
      BY <1>6, <2>3, <3>1 DEF RequestReconnect, StartProvisioning, Lifecycle!GiveUp
    <3> QED
      BY <3>2
  <2> QED
    BY <2>2, <2>3
<1>7. CASE HandleConnectRequested
  <2>1. sm = "ReconnectPending" /\ sm' = "Connecting" /\ UNCHANGED attempts
    BY <1>7 DEF HandleConnectRequested, Accepts
  <2> QED
    BY <2>1
<1>8. CASE HandleCredentialsReceived
  <2>1. sm = "Provisioning" /\ sm' \in {"Connecting", "Provisioning"}
        /\ UNCHANGED attempts
    BY <1>8 DEF HandleCredentialsReceived, Accepts
  <2>2. CASE sm' = "Provisioning"
    BY <2>1, <2>2
  <2>3. CASE sm' = "Connecting"
    <3>1. Lifecycle!Configure
      BY <2>1, <2>3 DEF Lifecycle!Configure
    <3> QED
      BY <3>1
  <2> QED
    BY <2>1, <2>2, <2>3
<1>9. CASE IgnoreEvent
  <2>1. UNCHANGED <<sm, attempts>>
    BY <1>9 DEF IgnoreEvent, taskVars
  <2> QED
    BY <2>1
<1> QED
  BY <1>1, <1>2, <1>3, <1>4, <1>5, <1>6, <1>7, <1>8, <1>9 DEF Next, WifiTask

(* The Wi-Fi subsystem implements its abstract lifecycle: at any interleaving,
   drop or fault, the retry budget is spent and given back as promised. *)
THEOREM Refinement == Spec => ImplementsLifecycle
<1>1. Init => Lifecycle!Init
  BY RefineInit
<1>2. IInv /\ [Next]_vars => [Lifecycle!Next]_(Lifecycle!vars)
  BY RefineNext, WifiConstants
<1> QED
  BY <1>1, <1>2, Invariance, PTL DEF Spec, ImplementsLifecycle, Lifecycle!Spec

-----------------------------------------------------------------------------
(* What WifiIdeal.cfg checks, for every queue that holds the updates and two
   events more. *)

(* The environment of that run. *)
Calm ==
    /\ Faults = {}
    /\ MaxLeaves = 0
    /\ MaxSaves + 2 < QueueLength

Single(e) == \A i, j \in Queued(e) : i = j

(* The start is asked for once. *)
StartedOnce ==
    /\ Queued("StartRequested") # {} => sm = "Idle"
    /\ ~started => sm = "Idle" /\ Queued("StartRequested") = {}
    /\ Single("StartRequested")

(* What the driver has reported and the state machine has not heard of yet is
   how its link differs from the state, in the order it happened. *)
LinkReported ==
    /\ sm \notin {"Connecting", "Connected"} =>
          radio = "down" /\ Queued("Connected") = {} /\ Queued("Disconnected") = {}
    /\ sm = "Connecting" =>
          \/ radio = "joining" /\ Queued("Connected") = {} /\ Queued("Disconnected") = {}
          \/ radio = "up" /\ Queued("Connected") # {} /\ Queued("Disconnected") = {}
          \/ radio = "down" /\ Queued("Disconnected") # {}
    /\ sm = "Connected" =>
          /\ Queued("Connected") = {}
          /\ \/ radio = "up" /\ Queued("Disconnected") = {}
             \/ radio = "down" /\ Queued("Disconnected") # {}
    /\ Single("Connected")
    /\ Single("Disconnected")
    /\ \A i \in Queued("Connected"), j \in Queued("Disconnected") : i < j

RetryArmed == sm = "ReconnectPending" => timer \/ Queued("ConnectRequested") # {}

(* A save under way has its place in the queue. *)
UpdatesFit ==
    Cardinality(Queued("CredentialsReceived")) + (IF saver = "idle" THEN 0 ELSE 1) <= MaxSaves

CalmInv ==
    /\ StartedOnce
    /\ LinkReported
    /\ RetryArmed
    /\ UpdatesFit

(* Where events wait. *)
LEMMA Places ==
    ASSUME TypeOK, NEW e \in Events
    PROVE  /\ Queued(e) \subseteq 1..Len(queue)
           /\ IsFiniteSet(Queued(e))
           /\ Cardinality(Queued(e)) \in Nat
<1>1. Len(queue) \in Nat
  BY DEF TypeOK
<1>2. Queued(e) \subseteq 1..Len(queue)
  BY DEF Queued
<1>3. IsFiniteSet(1..Len(queue))
  BY <1>1, FS_Interval
<1>4. IsFiniteSet(Queued(e))
  BY <1>2, <1>3, FS_Subset
<1> QED
  BY <1>2, <1>4, FS_CardinalityType

(* While nothing fails the queue holds, besides the updates, at most a request
   and a report, or two reports. *)
LEMMA RoomLeft ==
    ASSUME WifiConstants, Calm, IInv, CalmInv
    PROVE  NeverFull
<1> DEFINE updates == Queued("CredentialsReceived")
           firsts == Queued("StartRequested") \cup Queued("ConnectRequested")
                       \cup Queued("Connected")
           n == Cardinality(updates)
<1>1. PICK a : \A i \in firsts : i = a
  <2>1. /\ Queued("StartRequested") # {} =>
              Queued("ConnectRequested") = {} /\ Queued("Connected") = {}
        /\ Queued("ConnectRequested") # {} => Queued("Connected") = {}
    BY DEF IInv, ReconnectToken, CalmInv, StartedOnce, LinkReported
  <2>2. \A i, j \in firsts : i = j
    BY <2>1 DEF IInv, ReconnectToken, CalmInv, StartedOnce, LinkReported, Single
  <2> QED
    BY <2>2
<1>2. PICK b : \A i \in Queued("Disconnected") : i = b
  BY DEF CalmInv, LinkReported, Single
<1>3. 1..Len(queue) \subseteq (updates \cup {a}) \cup {b}
  <2>1. ASSUME NEW i \in 1..Len(queue)
        PROVE  \E e \in Events : i \in Queued(e)
    BY DEF IInv, TypeOK, Queued
  <2> QED
    BY <1>1, <1>2, <2>1 DEF Events
<1>4. IsFiniteSet(updates) /\ n \in Nat
  BY Places DEF IInv, Events
<1>5. IsFiniteSet(updates \cup {a}) /\ Cardinality(updates \cup {a}) \in {n, n + 1}
  BY <1>4, FS_AddElement
<1>6. /\ IsFiniteSet((updates \cup {a}) \cup {b})
      /\ Cardinality((updates \cup {a}) \cup {b}) \in {n, n + 1, n + 2}
  <2>1. IsFiniteSet((updates \cup {a}) \cup {b})
        /\ Cardinality((updates \cup {a}) \cup {b})
             \in {Cardinality(updates \cup {a}), Cardinality(updates \cup {a}) + 1}
    BY <1>5, FS_AddElement
  <2> QED
    BY <1>4, <1>5, <2>1
<1>7. Len(queue) \in Nat /\ Cardinality(1..Len(queue)) = Len(queue)
  <2>1. Len(queue) \in Nat
    BY DEF IInv, TypeOK
  <2>2. Cardinality(1..Len(queue)) = IF 1 > Len(queue) THEN 0 ELSE Len(queue) - 1 + 1
    BY <2>1, FS_Interval
  <2> QED
    BY <2>1, <2>2
<1>8. Len(queue) <= Cardinality((updates \cup {a}) \cup {b})
  BY <1>3, <1>6, <1>7, FS_Subset
<1>9. n <= MaxSaves
  BY <1>4, WifiConstants DEF CalmInv, UpdatesFit, WifiConstants
<1> HIDE DEF n
<1>10. Len(queue) <= n + 2
  BY <1>4, <1>6, <1>7, <1>8
<1> QED
  BY <1>4, <1>7, <1>9, <1>10, WifiConstants DEF Calm, WifiConstants, NeverFull

-----------------------------------------------------------------------------
(* An event enqueued while there is room is the last one. *)
LEMMA EnqueueLast ==
    ASSUME WifiConstants, TypeOK, NeverFull, NEW e \in Events, Enqueue(e)
    PROVE  /\ \A f \in Events : f # e => Queued(f)' = Queued(f)
           /\ Queued(e)' # {}
           /\ Queued(e) = {} => Single(e)'
           /\ \A f \in Events : \A i \in Queued(f), j \in Queued(e)' \ Queued(e) : i < j
           /\ Cardinality(Queued(e)') = Cardinality(Queued(e)) + 1
<1>1. queue \in Seq(Events) /\ Len(queue) \in Nat /\ queue' = Append(queue, e)
  BY DEF TypeOK, NeverFull, Enqueue
<1>2. \A f \in Events : f # e => Queued(f)' = Queued(f)
  BY <1>1 DEF Queued
<1>3. Queued(e)' = Queued(e) \cup {Len(queue) + 1}
  BY <1>1 DEF Queued
<1>4. \A f \in Events : \A i \in Queued(f) : i \in 1..Len(queue)
  BY DEF Queued
<1>5. Len(queue) + 1 \notin Queued(e)
  BY <1>1, <1>4
<1>6. Queued(e) = {} => Single(e)'
  BY <1>3 DEF Single
<1>7. Cardinality(Queued(e)') = Cardinality(Queued(e)) + 1
  BY <1>3, <1>5, Places, FS_AddElement
<1>8. \A f \in Events : \A i \in Queued(f), j \in Queued(e)' \ Queued(e) : i < j
  BY <1>1, <1>3, <1>4
<1> QED
  BY <1>2, <1>3, <1>6, <1>7, <1>8

(* Taking an event leaves the others in their order. *)
LEMMA ReceiveFirst ==
    ASSUME TypeOK, NEW e \in Events, Receive(e)
    PROVE  /\ \A f \in Events : Queued(f) = {} => Queued(f)' = {}
           /\ \A f \in Events : Single(f) => Single(f)'
           /\ \A f \in Events : f # e /\ Queued(f) # {} => Queued(f)' # {}
           /\ Queued(e) # {}
           /\ Single(e) => Queued(e)' = {}
           /\ \A f \in Events : f # e => \A i \in Queued(f) : \E j \in Queued(e) : j < i
           /\ \A f, g \in Events :
                 (\A i \in Queued(f), j \in Queued(g) : i < j)
                    => \A i \in Queued(f)', j \in Queued(g)' : i < j
           /\ \A f \in Events :
                 /\ {Cardinality(Queued(f)), Cardinality(Queued(f)')} \subseteq Nat
                 /\ Cardinality(Queued(f)') <= Cardinality(Queued(f))
<1>1. /\ queue' \in Seq(Events)
      /\ Len(queue') = Len(queue) - 1
      /\ 1 \in Queued(e)
      /\ \A f \in Events : Queued(f)' = {i \in 1..Len(queue') : i + 1 \in Queued(f)}
  BY ReceiveEffect
<1>2. Len(queue) \in Nat /\ Len(queue') \in Nat
  BY <1>1 DEF TypeOK
<1>3. \A f \in Events : \A i \in Queued(f) : i \in 1..Len(queue) /\ queue[i] = f
  BY DEF Queued
<1>4. \A f \in Events : Queued(f) = {} => Queued(f)' = {}
  BY <1>1
<1>5. ASSUME NEW f \in Events, Single(f)
      PROVE  Single(f)'
  BY <1>1, <1>5 DEF Single
<1>6. ASSUME NEW f \in Events, f # e
      PROVE  /\ \A i \in Queued(f) : \E j \in Queued(e) : j < i
             /\ Queued(f) # {} => Queued(f)' # {}
  <2>1. ASSUME NEW i \in Queued(f)
        PROVE  i \in Nat /\ i > 1 /\ i - 1 \in Queued(f)'
    <3>1. i \in 1..Len(queue) /\ i # 1
      BY <1>1, <1>3, <1>6
    <3>2. i - 1 \in 1..Len(queue') /\ (i - 1) + 1 = i
      BY <1>1, <1>2, <3>1
    <3> QED
      BY <1>1, <3>1, <3>2
  <2> QED
    BY <1>1, <2>1
<1>7. Single(e) => Queued(e)' = {}
  <2>1. ASSUME Single(e), NEW i \in Queued(e)'
        PROVE  FALSE
    <3>1. i \in Nat /\ i >= 1 /\ i + 1 \in Queued(e)
      BY <1>1
    <3>2. i + 1 = 1
      BY <1>1, <2>1, <3>1 DEF Single
    <3> QED
      BY <3>1, <3>2
  <2> QED
    BY <2>1
<1>8. ASSUME NEW f \in Events, NEW g \in Events,
             \A i \in Queued(f), j \in Queued(g) : i < j,
             NEW i \in Queued(f)', NEW j \in Queued(g)'
      PROVE  i < j
  <2>1. i \in Nat /\ j \in Nat /\ i + 1 < j + 1
    BY <1>1, <1>8
  <2> QED
    BY <2>1
<1>9. ASSUME NEW f \in Events
      PROVE  /\ {Cardinality(Queued(f)), Cardinality(Queued(f)')} \subseteq Nat
             /\ Cardinality(Queued(f)') <= Cardinality(Queued(f))
  <2> DEFINE next == [i \in Queued(f)' |-> i + 1]
  <2>1. \A i \in Queued(f)' : i \in Nat /\ i + 1 \in Queued(f)
    BY <1>1
  <2>2. next \in Injection(Queued(f)', Queued(f))
    <3>1. next \in [Queued(f)' -> Queued(f)]
      BY <2>1
    <3>2. \A i, j \in Queued(f)' : next[i] = next[j] => i = j
      BY <2>1
    <3> QED
      BY <3>1, <3>2 DEF Injection, IsInjective
  <2> QED
    BY <2>2, Places, FS_Injection, FS_CardinalityType
<1> QED
  BY <1>1, <1>4, <1>5, <1>6, <1>7, <1>8, <1>9

-----------------------------------------------------------------------------
(* Every step keeps the invariant while nothing fails. *)

LEMMA BeginCalm ==
    ASSUME Calm, Begin, radio = "down"
    PROVE  radio' = "joining"
BY DEF Calm, Begin

LEMMA StartEnqueuedCalm ==
    ASSUME WifiConstants, Calm, IInv, CalmInv, EnqueueStart
    PROVE  CalmInv'
<1>1. /\ ~started /\ started' = TRUE
      /\ Enqueue("StartRequested")
      /\ UNCHANGED <<sm, timer, saver, radio>>
  BY DEF EnqueueStart, taskVars, storeVars, radioVars
<1>2. /\ \A f \in Events : f # "StartRequested" => Queued(f)' = Queued(f)
      /\ Queued("StartRequested") = {} => Single("StartRequested")'
  BY <1>1, RoomLeft, EnqueueLast DEF IInv, Events
<1>3. StartedOnce'
  BY <1>1, <1>2 DEF CalmInv, StartedOnce
<1>4. LinkReported'
  BY <1>1, <1>2 DEF CalmInv, LinkReported, Single, Events
<1>5. RetryArmed' /\ UpdatesFit'
  BY <1>1, <1>2 DEF CalmInv, RetryArmed, UpdatesFit, Events
<1> QED
  BY <1>3, <1>4, <1>5 DEF CalmInv

LEMMA StartHandledCalm ==
    ASSUME WifiConstants, Calm, IInv, CalmInv, HandleStart
    PROVE  CalmInv'
<1>1. /\ sm = "Idle" /\ Receive("StartRequested")
      /\ UNCHANGED <<timer, saver, started>>
  BY DEF HandleStart, Accepts, storeVars
<1>2. /\ Queued("StartRequested")' = {}
      /\ Queued("Connected")' = {}
      /\ Queued("Disconnected")' = {}
      /\ Cardinality(Queued("CredentialsReceived")') <= Cardinality(Queued("CredentialsReceived"))
  BY <1>1, ReceiveFirst DEF IInv, CalmInv, StartedOnce, LinkReported, Events
<1>3. /\ Cardinality(Queued("CredentialsReceived")) \in Nat
      /\ Cardinality(Queued("CredentialsReceived")') \in Nat
  BY <1>1, ReceiveFirst DEF IInv, Events
<1>4. radio = "down"
  BY <1>1 DEF CalmInv, LinkReported
<1>5. \/ sm' = "Connecting" /\ radio' = "joining"
      \/ sm' = "Provisioning" /\ radio' = "down"
  BY <1>4, BeginCalm DEF HandleStart, LoadOutcomes, Calm, StartProvisioning, radioVars
<1>6. started
  BY <1>1, ReceiveFirst DEF IInv, CalmInv, StartedOnce, Events
<1>7. StartedOnce' /\ RetryArmed'
  BY <1>1, <1>2, <1>5, <1>6 DEF StartedOnce, RetryArmed, Single
<1>8. LinkReported'
  BY <1>2, <1>5 DEF LinkReported, Single
<1>9. UpdatesFit'
  BY <1>1, <1>2, <1>3, WifiConstants DEF CalmInv, UpdatesFit, WifiConstants
<1> QED
  BY <1>7, <1>8, <1>9 DEF CalmInv

LEMMA ConnectedHandledCalm ==
    ASSUME WifiConstants, Calm, IInv, CalmInv, HandleConnected
    PROVE  CalmInv'
<1>1. /\ sm = "Connecting" /\ sm' = "Connected" /\ Receive("Connected")
      /\ UNCHANGED <<timer, saver, radio, started>>
  BY DEF HandleConnected, Accepts, storeVars, radioVars
<1>2. /\ Queued("StartRequested")' = {}
      /\ Queued("Connected") # {}
      /\ Queued("Connected")' = {}
      /\ Queued("Disconnected") = {} => Queued("Disconnected")' = {}
      /\ Queued("Disconnected") # {} => Queued("Disconnected")' # {}
      /\ Single("Disconnected")'
      /\ Cardinality(Queued("CredentialsReceived")') <= Cardinality(Queued("CredentialsReceived"))
  BY <1>1, ReceiveFirst DEF IInv, CalmInv, StartedOnce, LinkReported, Events
<1>3. /\ Cardinality(Queued("CredentialsReceived")) \in Nat
      /\ Cardinality(Queued("CredentialsReceived")') \in Nat
  BY <1>1, ReceiveFirst DEF IInv, Events
<1>4. StartedOnce' /\ RetryArmed'
  BY <1>1, <1>2 DEF CalmInv, StartedOnce, RetryArmed, Single
<1>5. LinkReported'
  BY <1>1, <1>2 DEF CalmInv, LinkReported, Single
<1>6. UpdatesFit'
  BY <1>1, <1>2, <1>3, WifiConstants DEF CalmInv, UpdatesFit, WifiConstants
<1> QED
  BY <1>4, <1>5, <1>6 DEF CalmInv

LEMMA DisconnectedHandledCalm ==
    ASSUME WifiConstants, Calm, IInv, CalmInv, HandleDisconnected
    PROVE  CalmInv'
<1>1. /\ sm \in {"Connecting", "Connected"} /\ sm' = "Disconnected"
      /\ Receive("Disconnected")
      /\ UNCHANGED <<timer, saver, radio, started>>
  BY DEF HandleDisconnected, Accepts, storeVars, radioVars
<1>2. Queued("Disconnected") # {}
  BY <1>1, ReceiveFirst DEF IInv, Events
<1>3. radio = "down"
  BY <1>1, <1>2 DEF CalmInv, LinkReported
<1>4. Queued("Connected") = {}
  <2>1. ASSUME NEW i \in Queued("Connected")
        PROVE  FALSE
    <3>1. PICK j \in Queued("Disconnected") : j < i
      BY <1>1, ReceiveFirst DEF IInv, Events
    <3>2. i < j
      BY DEF CalmInv, LinkReported
    <3>3. i \in Nat /\ j \in Nat
      BY Places DEF IInv, Events
    <3> QED
      BY <3>1, <3>2, <3>3
  <2> QED
    BY <2>1
<1>5. /\ Queued("StartRequested")' = {}
      /\ Queued("Connected")' = {}
      /\ Queued("Disconnected")' = {}
      /\ Cardinality(Queued("CredentialsReceived")') <= Cardinality(Queued("CredentialsReceived"))
  BY <1>1, <1>4, ReceiveFirst DEF IInv, CalmInv, StartedOnce, LinkReported, Events
<1>6. /\ Cardinality(Queued("CredentialsReceived")) \in Nat
      /\ Cardinality(Queued("CredentialsReceived")') \in Nat
  BY <1>1, ReceiveFirst DEF IInv, Events
<1>7. StartedOnce' /\ RetryArmed'
  BY <1>1, <1>5 DEF CalmInv, StartedOnce, RetryArmed, Single
<1>8. LinkReported'
  BY <1>1, <1>3, <1>5 DEF LinkReported, Single
<1>9. UpdatesFit'
  BY <1>1, <1>5, <1>6, WifiConstants DEF CalmInv, UpdatesFit, WifiConstants
<1> QED
  BY <1>7, <1>8, <1>9 DEF CalmInv

LEMMA RetryRequestedCalm ==
    ASSUME WifiConstants, Calm, IInv, CalmInv, RequestReconnect
    PROVE  CalmInv'
<1>1. /\ sm = "Disconnected"
      /\ \/ sm' = "ReconnectPending" /\ timer'
         \/ sm' = "Provisioning"
      /\ UNCHANGED <<queue, saver, radio, started>>
  BY DEF RequestReconnect, StartProvisioning, Calm, storeVars, radioVars
<1>2. \A f \in Events : Queued(f)' = Queued(f)
  BY <1>1 DEF Queued
<1>3. StartedOnce' /\ RetryArmed' /\ UpdatesFit'
  BY <1>1, <1>2 DEF CalmInv, StartedOnce, RetryArmed, UpdatesFit, Single, Events
<1>4. LinkReported'
  BY <1>1, <1>2 DEF CalmInv, LinkReported, Single, Events
<1> QED
  BY <1>3, <1>4 DEF CalmInv

LEMMA ConnectHandledCalm ==
    ASSUME WifiConstants, Calm, IInv, CalmInv, HandleConnectRequested
    PROVE  CalmInv'
<1>1. /\ sm = "ReconnectPending" /\ sm' = "Connecting" /\ Receive("ConnectRequested")
      /\ Begin
      /\ UNCHANGED <<timer, saver, started>>
  BY DEF HandleConnectRequested, Accepts, storeVars
<1>2. /\ Queued("StartRequested")' = {}
      /\ Queued("Connected")' = {}
      /\ Queued("Disconnected")' = {}
      /\ Cardinality(Queued("CredentialsReceived")') <= Cardinality(Queued("CredentialsReceived"))
  BY <1>1, ReceiveFirst DEF IInv, CalmInv, StartedOnce, LinkReported, Events
<1>3. /\ Cardinality(Queued("CredentialsReceived")) \in Nat
      /\ Cardinality(Queued("CredentialsReceived")') \in Nat
  BY <1>1, ReceiveFirst DEF IInv, Events
<1>4. radio' = "joining"
  BY <1>1, BeginCalm DEF CalmInv, LinkReported
<1>5. StartedOnce' /\ RetryArmed'
  BY <1>1, <1>2 DEF CalmInv, StartedOnce, RetryArmed, Single
<1>6. LinkReported'
  BY <1>1, <1>2, <1>4 DEF LinkReported, Single
<1>7. UpdatesFit'
  BY <1>1, <1>2, <1>3, WifiConstants DEF CalmInv, UpdatesFit, WifiConstants
<1> QED
  BY <1>5, <1>6, <1>7 DEF CalmInv

LEMMA UpdateHandledCalm ==
    ASSUME WifiConstants, Calm, IInv, CalmInv, HandleCredentialsReceived
    PROVE  CalmInv'
<1>1. /\ sm = "Provisioning" /\ Receive("CredentialsReceived")
      /\ UNCHANGED <<timer, saver, started>>
  BY DEF HandleCredentialsReceived, Accepts, storeVars
<1>2. /\ Queued("StartRequested")' = {}
      /\ Queued("Connected")' = {}
      /\ Queued("Disconnected")' = {}
      /\ Cardinality(Queued("CredentialsReceived")') <= Cardinality(Queued("CredentialsReceived"))
  BY <1>1, ReceiveFirst DEF IInv, CalmInv, StartedOnce, LinkReported, Events
<1>3. /\ Cardinality(Queued("CredentialsReceived")) \in Nat
      /\ Cardinality(Queued("CredentialsReceived")') \in Nat
  BY <1>1, ReceiveFirst DEF IInv, Events
<1>4. \/ sm' = "Connecting" /\ radio' = "joining"
      \/ sm' = "Provisioning" /\ radio' = "down"
  BY <1>1, BeginCalm DEF CalmInv, LinkReported, HandleCredentialsReceived, radioVars
<1>5. StartedOnce' /\ RetryArmed'
  BY <1>1, <1>2, <1>4 DEF CalmInv, StartedOnce, RetryArmed, Single
<1>6. LinkReported'
  BY <1>2, <1>4 DEF LinkReported, Single
<1>7. UpdatesFit'
  BY <1>1, <1>2, <1>3, WifiConstants DEF CalmInv, UpdatesFit, WifiConstants
<1> QED
  BY <1>5, <1>6, <1>7 DEF CalmInv

(* Only updates are ever ignored. *)
LEMMA EventIgnoredCalm ==
    ASSUME WifiConstants, Calm, IInv, CalmInv, IgnoreEvent
    PROVE  CalmInv'
<1>1. PICK e \in Events : Receive(e) /\ sm \notin Accepts(e)
  BY DEF IgnoreEvent
<1>2. UNCHANGED <<sm, timer, saver, radio, started>>
  BY DEF IgnoreEvent, taskVars, storeVars, radioVars
<1>3. Queued(e) # {}
  BY <1>1, ReceiveFirst DEF IInv
<1>4. e # "StartRequested"
  BY <1>1, <1>3 DEF CalmInv, StartedOnce, Accepts
<1>5. e # "ConnectRequested"
  BY <1>1, <1>3 DEF IInv, ReconnectToken, Accepts
<1>6. e \notin {"Connected", "Disconnected"}
  BY <1>1, <1>3 DEF CalmInv, LinkReported, Accepts
<1>7. e = "CredentialsReceived"
  BY <1>4, <1>5, <1>6 DEF Events
<1>8. /\ \A f \in Events : Queued(f) = {} => Queued(f)' = {}
      /\ \A f \in Events : Single(f) => Single(f)'
      /\ \A f \in Events : f # "CredentialsReceived" /\ Queued(f) # {} => Queued(f)' # {}
      /\ \A f, g \in Events :
            (\A i \in Queued(f), j \in Queued(g) : i < j)
               => \A i \in Queued(f)', j \in Queued(g)' : i < j
      /\ Cardinality(Queued("CredentialsReceived")') <= Cardinality(Queued("CredentialsReceived"))
  BY <1>1, <1>7, ReceiveFirst DEF IInv
<1>9. /\ Cardinality(Queued("CredentialsReceived")) \in Nat
      /\ Cardinality(Queued("CredentialsReceived")') \in Nat
  BY <1>1, ReceiveFirst DEF IInv, Events
<1>10. StartedOnce' /\ RetryArmed'
  BY <1>2, <1>8 DEF CalmInv, StartedOnce, RetryArmed, Events
<1>11. LinkReported'
  BY <1>2, <1>8 DEF CalmInv, LinkReported, Events
<1>12. UpdatesFit'
  BY <1>2, <1>8, <1>9, WifiConstants DEF CalmInv, UpdatesFit, WifiConstants
<1> QED
  BY <1>10, <1>11, <1>12 DEF CalmInv

LEMMA TimerFiringCalm ==
    ASSUME WifiConstants, Calm, IInv, CalmInv, TimerFires
    PROVE  CalmInv'
<1>1. /\ Enqueue("ConnectRequested")
      /\ UNCHANGED <<sm, saver, radio, started>>
  BY DEF TimerFires, taskVars, storeVars, radioVars
<1>2. /\ \A f \in Events : f # "ConnectRequested" => Queued(f)' = Queued(f)
      /\ Queued("ConnectRequested")' # {}
  BY <1>1, RoomLeft, EnqueueLast DEF IInv, Events
<1>3. StartedOnce' /\ RetryArmed' /\ UpdatesFit'
  BY <1>1, <1>2 DEF CalmInv, StartedOnce, RetryArmed, UpdatesFit, Single, Events
<1>4. LinkReported'
  BY <1>1, <1>2 DEF CalmInv, LinkReported, Single, Events
<1> QED
  BY <1>3, <1>4 DEF CalmInv

LEMMA AddressObtainedCalm ==
    ASSUME WifiConstants, Calm, IInv, CalmInv, RadioGotIp
    PROVE  CalmInv'
<1>1. /\ radio = "joining" /\ radio' = "up" /\ Enqueue("Connected")
      /\ UNCHANGED <<sm, timer, saver, started>>
  BY DEF RadioGotIp, taskVars, storeVars
<1>2. sm = "Connecting" /\ Queued("Connected") = {} /\ Queued("Disconnected") = {}
  BY <1>1 DEF CalmInv, LinkReported
<1>3. /\ \A f \in Events : f # "Connected" => Queued(f)' = Queued(f)
      /\ Queued("Connected")' # {} /\ Single("Connected")'
  BY <1>1, <1>2, RoomLeft, EnqueueLast DEF IInv, Events
<1>4. StartedOnce' /\ RetryArmed' /\ UpdatesFit'
  BY <1>1, <1>3 DEF CalmInv, StartedOnce, RetryArmed, UpdatesFit, Single, Events
<1>5. LinkReported'
  BY <1>1, <1>2, <1>3 DEF LinkReported, Single, Events
<1> QED
  BY <1>4, <1>5 DEF CalmInv

LEMMA DisconnectReportedCalm ==
    ASSUME WifiConstants, Calm, IInv, CalmInv, NEW reason \in Reasons, RadioDisconnected(reason)
    PROVE  CalmInv'
<1>1. /\ radio \in {"joining", "up"} /\ radio' = "down" /\ Enqueue("Disconnected")
      /\ UNCHANGED <<sm, timer, saver, started>>
  BY DEF RadioDisconnected, Filtered, Calm, IInv, TypeOK, taskVars, storeVars
<1>2. sm \in {"Connecting", "Connected"} /\ Queued("Disconnected") = {}
  BY <1>1 DEF CalmInv, LinkReported
<1>3. /\ \A f \in Events : f # "Disconnected" => Queued(f)' = Queued(f)
      /\ Queued("Disconnected")' # {} /\ Single("Disconnected")'
      /\ \A i \in Queued("Connected"), j \in Queued("Disconnected")' : i < j
  BY <1>1, <1>2, RoomLeft, EnqueueLast DEF IInv, Events
<1>4. StartedOnce' /\ RetryArmed' /\ UpdatesFit'
  BY <1>1, <1>3 DEF CalmInv, StartedOnce, RetryArmed, UpdatesFit, Single, Events
<1>5. LinkReported'
  BY <1>1, <1>2, <1>3 DEF CalmInv, LinkReported, Single, Events
<1> QED
  BY <1>4, <1>5 DEF CalmInv

LEMMA SavedCalm ==
    ASSUME WifiConstants, Calm, IInv, CalmInv, SaveSsid \/ SavePass
    PROVE  CalmInv'
<1>1. /\ UNCHANGED <<sm, queue, timer, radio, started>>
      /\ \/ saver = "idle" /\ Cardinality(Queued("CredentialsReceived")) < MaxSaves
         \/ saver = "ssidSaved" /\ saver' = "bothSaved"
  BY DEF SaveSsid, SavePass, Calm, taskVars, radioVars
<1>2. \A f \in Events : Queued(f)' = Queued(f)
  BY <1>1 DEF Queued
<1>3. Cardinality(Queued("CredentialsReceived")) \in Nat
  BY Places DEF IInv, Events
<1>4. StartedOnce' /\ RetryArmed'
  BY <1>1, <1>2 DEF CalmInv, StartedOnce, RetryArmed, Single, Events
<1>5. LinkReported'
  BY <1>1, <1>2 DEF CalmInv, LinkReported, Single, Events
<1>6. UpdatesFit'
  BY <1>1, <1>2, <1>3, WifiConstants DEF CalmInv, UpdatesFit, WifiConstants, Events
<1> QED
  BY <1>4, <1>5, <1>6 DEF CalmInv

LEMMA UpdateEnqueuedCalm ==
    ASSUME WifiConstants, Calm, IInv, CalmInv, EnqueueUpdate
    PROVE  CalmInv'
<1>1. /\ saver = "bothSaved" /\ saver' = "idle" /\ Enqueue("CredentialsReceived")
      /\ UNCHANGED <<sm, timer, radio, started>>
  BY DEF EnqueueUpdate, taskVars, radioVars
<1>2. /\ \A f \in Events : f # "CredentialsReceived" => Queued(f)' = Queued(f)
      /\ Cardinality(Queued("CredentialsReceived")') = Cardinality(Queued("CredentialsReceived")) + 1
  BY <1>1, RoomLeft, EnqueueLast DEF IInv, Events
<1>3. Cardinality(Queued("CredentialsReceived")) \in Nat
  BY Places DEF IInv, Events
<1>4. StartedOnce' /\ RetryArmed'
  BY <1>1, <1>2 DEF CalmInv, StartedOnce, RetryArmed, Single, Events
<1>5. LinkReported'
  BY <1>1, <1>2 DEF CalmInv, LinkReported, Single, Events
<1>6. UpdatesFit'
  BY <1>1, <1>2, <1>3, WifiConstants DEF CalmInv, UpdatesFit, WifiConstants
<1> QED
  BY <1>4, <1>5, <1>6 DEF CalmInv

LEMMA UnconcernedCalm ==
    ASSUME CalmInv, BleStops \/ UNCHANGED vars
    PROVE  CalmInv'
<1>1. UNCHANGED <<sm, queue, timer, saver, radio, started>>
  BY DEF BleStops, vars, taskVars, storeVars, radioVars
<1>2. \A f \in Events : Queued(f)' = Queued(f)
  BY <1>1 DEF Queued
<1>3. StartedOnce' /\ RetryArmed' /\ UpdatesFit'
  BY <1>1, <1>2 DEF CalmInv, StartedOnce, RetryArmed, UpdatesFit, Single, Events
<1>4. LinkReported'
  BY <1>1, <1>2 DEF CalmInv, LinkReported, Single, Events
<1> QED
  BY <1>3, <1>4 DEF CalmInv

LEMMA InitCalm ==
    ASSUME WifiConstants, Init
    PROVE  CalmInv
<1>1. \A f \in Events : Queued(f) = {}
  BY DEF Init, Queued
<1>2. Cardinality(Queued("CredentialsReceived")) = 0
  BY <1>1, FS_EmptySet DEF Events
<1>3. StartedOnce /\ LinkReported /\ RetryArmed
  BY <1>1 DEF Init, StartedOnce, LinkReported, RetryArmed, Single, Events
<1>4. UpdatesFit
  BY <1>2, WifiConstants DEF Init, UpdatesFit, WifiConstants
<1> QED
  BY <1>3, <1>4 DEF CalmInv

LEMMA NextCalm ==
    ASSUME WifiConstants, Calm, IInv, CalmInv, [Next]_vars
    PROVE  CalmInv'
<1>1. CASE EnqueueStart
  BY <1>1, StartEnqueuedCalm
<1>2. CASE WifiTask
  BY <1>2, StartHandledCalm, ConnectedHandledCalm, DisconnectedHandledCalm,
     RetryRequestedCalm, ConnectHandledCalm, UpdateHandledCalm, EventIgnoredCalm
     DEF WifiTask
<1>3. CASE TimerFires
  BY <1>3, TimerFiringCalm
<1>4. CASE Radio
  BY <1>4, AddressObtainedCalm, DisconnectReportedCalm DEF Radio
<1>5. CASE SaveSsid \/ Saver
  BY <1>5, SavedCalm, UpdateEnqueuedCalm DEF Saver
<1>6. CASE BleStops \/ UNCHANGED vars
  BY <1>6, UnconcernedCalm
<1>7. ~Restart
  BY DEF Calm, Restart
<1> QED
  BY <1>1, <1>2, <1>3, <1>4, <1>5, <1>6, <1>7 DEF Next

LEMMA CalmInvariance ==
    ASSUME Calm
    PROVE  Spec => [](IInv /\ CalmInv)
<1>1. Init => CalmInv
  BY InitCalm, WifiConstants
<1>2. IInv /\ CalmInv /\ [Next]_vars => CalmInv'
  BY NextCalm, WifiConstants
<1> QED
  BY <1>1, <1>2, Invariance, PTL DEF Spec

(* While nothing fails no event is ever dropped: a queue needs two places more
   than the updates that may wait in it (enqueueEvent ignores the result of
   xQueueSend). *)
THEOREM NothingIsDropped ==
    ASSUME Calm
    PROVE  Spec => []NeverFull
<1>1. IInv /\ CalmInv => NeverFull
  BY RoomLeft, WifiConstants
<1> QED
  BY <1>1, CalmInvariance, PTL

(* While nothing fails, what makes the machine leave a state it rests in is
   on its way, for every retry budget (the rows of the transition table). *)
THEOREM SomethingIsDue ==
    ASSUME Calm
    PROVE  Spec => []NeverStalls
<1>1. CalmInv => NeverStalls
  BY DEF CalmInv, LinkReported, RetryArmed, NeverStalls
<1> QED
  BY <1>1, CalmInvariance, PTL

(* While nothing fails, an attempt begins with the link down and no report of
   an earlier one queued (WifiAdapter::connect, the Wi-Fi event callback). *)
THEOREM AttemptsAreSeparate ==
    ASSUME Calm
    PROVE  Spec => []NoStaleLinkEvent
<1>1. CalmInv => NoStaleLinkEvent
  BY DEF CalmInv, LinkReported, NoStaleLinkEvent
<1> QED
  BY <1>1, CalmInvariance, PTL
=============================================================================
