---------------------------- MODULE Provisioning -----------------------------
(***************************************************************************)
(* Credentials on their way from the peer's two writes to the next attempt *)
(* to connect: the BLE provisioner's buffers, the two keys in flash, which *)
(* the NimBLE host task writes one after the other, and the Wi-Fi task,    *)
(* which reads them one after the other and starts and stops the           *)
(* provisioner.  The Wi-Fi task is as WifiLifecycle promises.              *)
(***************************************************************************)
EXTENDS BleProvisioner

CONSTANTS
    Networks,      \* each has a name and a password of its own
    MaxUpdates     \* bound: credential events in the Wi-Fi task's queue

Empty == "empty"

ASSUME ProvisioningConstants ==
    /\ MaxUpdates \in Nat \ {0}
    /\ Networks # {} /\ Empty \notin Networks

VARIABLES
    buffer,    \* m_ssid and m_password of the BLE provisioner
    flash,     \* the keys in flash
    loaded,    \* m_ssid and m_password of the Wi-Fi adapter
    saver,     \* the host task in saveCredentialsAndEnqueueUpdate
    updates,   \* CredentialsReceived events in the Wi-Fi task's queue
    wifi,      \* the phase of the Wi-Fi task
    ssidRead,  \* its loadCredentials(), half-way: the name read
    meant      \* history: the network the peer wrote of last in this session

flashVars == <<flash, saver, updates>>
wifiVars == <<wifi, ssidRead, loaded>>
peerVars == <<buffer, meant>>
allVars == <<vars, flashVars, wifiVars, peerVars>>

Values == Networks \cup {Empty}
Blank == [f \in Fields |-> Empty]

ProvisioningTypeOK ==
    /\ TypeOK
    /\ {buffer, flash, loaded} \subseteq [Fields -> Values]
    /\ saver \in {"idle", "ssid", "password", "enqueue"}
    /\ updates \in 0..MaxUpdates
    /\ wifi \in {"booting", "offline", "online", "setup"}
    /\ ssidRead \subseteq Values
    /\ meant \in Values

(* Flash holds one network's credentials, or nothing. *)
ProvisioningInit ==
    /\ Init
    /\ buffer = Blank
    /\ flash \in {Blank} \cup {[f \in Fields |-> n] : n \in Networks}
    /\ loaded = Blank
    /\ saver = "idle"
    /\ updates = 0
    /\ wifi = "booting"
    /\ ssidRead = {}
    /\ meant = Empty

-----------------------------------------------------------------------------
(* The BLE side: begin() also clears the buffers. *)

(* Mutant: the flags and the buffers of the previous session survive. *)
StartsWithOldBuffer ==
    /\ BeginKeepsFlags
    /\ UNCHANGED <<flashVars, wifiVars, peerVars>>

StartsEmpty ==
    /\ Begin
    /\ buffer' = IF running THEN buffer ELSE Blank
    /\ UNCHANGED <<flashVars, wifiVars, meant>>

(* Its other steps; deinit() waits for the host task to be out of a callback. *)
Teardown ==
    /\ BeginRuns \/ EndStopsAdvertising \/ EndCountsPeers \/ EndDefers
       \/ EndDropsPeers \/ (EndDeinits /\ saver = "idle")
    /\ UNCHANGED <<flashVars, wifiVars, peerVars>>

(* The callbacks of the host task, one at a time. *)
HostFree == saver = "idle"

Link ==
    /\ HostFree
    /\ OnConnect \/ PeerLeaves \/ OnDisconnect
    /\ UNCHANGED <<flashVars, wifiVars, peerVars>>

(* Bound: one network is enough for what an impatient Wi-Fi task can disturb. *)
Offered == IF Patient THEN Networks ELSE {CHOOSE n \in Networks : TRUE}

(* A peer that does not change its mind writes each field of one network once. *)
Steady(field, n) ==
    \/ "rewrite" \in faults
    \/ field \notin written /\ (written = {} \/ n = meant)

Write(field, n) ==
    /\ HostFree
    /\ Steady(field, n)
    /\ OnWrite(field)
    /\ buffer' = [buffer EXCEPT ![field] = n]
    /\ meant' = n
    /\ saver' = IF received' = Fields THEN "ssid" ELSE "idle"
    /\ UNCHANGED <<flash, updates, wifiVars>>

-----------------------------------------------------------------------------
(* saveCredentialsAndEnqueueUpdate, in the host task.  A write that fails is
   the end of it. *)

(* One write to flash, under Storage's mutex; nothing spans two of them. *)
Put(field) == [flash EXCEPT ![field] = buffer[field]]

(* Mutant: the update is announced before both keys are written. *)
AnnounceThenSave ==
    /\ saver = "ssid"
    /\ flash' = Put("ssid")
    /\ updates' = IF updates < MaxUpdates THEN updates + 1 ELSE updates
    /\ saver' = "password"
    /\ UNCHANGED <<vars, wifiVars, peerVars>>

SaveSsid ==
    /\ saver = "ssid"
    /\ \/ /\ flash' = Put("ssid")
          /\ saver' = "password"
       \/ /\ "write" \in faults
          /\ saver' = "idle"
          /\ UNCHANGED flash
    /\ UNCHANGED <<vars, updates, wifiVars, peerVars>>

SavePassword ==
    /\ saver = "password"
    /\ \/ /\ flash' = Put("password")
          /\ saver' = "enqueue"
       \/ /\ "write" \in faults
          /\ flash' \in {flash, Put("password")}
          /\ saver' = "idle"
    /\ UNCHANGED <<vars, updates, wifiVars, peerVars>>

(* Mutant: the update is saved and not announced. *)
SaveOnly ==
    /\ saver = "enqueue"
    /\ saver' = "idle"
    /\ UNCHANGED <<vars, flash, updates, wifiVars, peerVars>>

(* A full queue drops the event. *)
EnqueueUpdate ==
    /\ saver = "enqueue"
    /\ saver' = "idle"
    /\ updates' = IF updates < MaxUpdates THEN updates + 1 ELSE updates
    /\ UNCHANGED <<vars, flash, wifiVars, peerVars>>

Save == SaveSsid \/ SavePassword \/ EnqueueUpdate

-----------------------------------------------------------------------------
(* The Wi-Fi task.  loadCredentials() reads at boot and for an update that is
   taken during set-up; an update taken at any other time is ignored. *)

ReadSsid ==
    /\ ssidRead = {}
    /\ \/ wifi = "booting" /\ UNCHANGED updates
       \/ wifi = "setup" /\ updates > 0 /\ updates' = updates - 1
    /\ ssidRead' = {flash["ssid"]}
    /\ UNCHANGED <<vars, flash, saver, wifi, loaded, peerVars>>

(* The second read; an empty value is none. *)
Keys == [ssid |-> CHOOSE s \in ssidRead : TRUE, password |-> flash["password"]]
Found == Empty \notin {Keys[f] : f \in Fields}

(* Mutant: a name that is there is not replaced. *)
KeepsName ==
    /\ ssidRead # {}
    /\ Found
    /\ loaded' = IF loaded = Blank THEN Keys
                 ELSE [loaded EXCEPT !["password"] = flash["password"]]
    /\ ssidRead' = {}
    /\ wifi' = "offline"
    /\ IF wifi = "setup" THEN EnqueueProvisioningStop ELSE UNCHANGED vars
    /\ UNCHANGED <<flashVars, peerVars>>

(* The credentials, the stop callback and the attempt. *)
Configure ==
    /\ ssidRead # {}
    /\ Found
    /\ loaded' = Keys
    /\ ssidRead' = {}
    /\ wifi' = "offline"
    /\ IF wifi = "setup" THEN EnqueueProvisioningStop ELSE UNCHANGED vars
    /\ UNCHANGED <<flashVars, peerVars>>

(* None: the start callback, unless the device is in set-up already. *)
NothingStored ==
    /\ ssidRead # {}
    /\ ~Found
    /\ ssidRead' = {}
    /\ wifi' = "setup"
    /\ IF wifi = "booting" THEN EnqueueProvisioningStart ELSE UNCHANGED vars
    /\ UNCHANGED <<flashVars, loaded, peerVars>>

IgnoreUpdate ==
    /\ wifi \in {"offline", "online"}
    /\ updates > 0
    /\ updates' = updates - 1
    /\ UNCHANGED <<vars, flash, saver, wifiVars, peerVars>>

(* A name and a password that do not belong together. *)
Torn(pair) == pair["ssid"] # pair["password"]

(* No access point lets a torn pair in. *)
Connect ==
    /\ wifi = "offline" /\ ~Torn(loaded)
    /\ wifi' = "online"
    /\ UNCHANGED <<vars, flashVars, ssidRead, loaded, peerVars>>

LoseLink ==
    /\ wifi = "online"
    /\ wifi' = "offline"
    /\ UNCHANGED <<vars, flashVars, ssidRead, loaded, peerVars>>

(* The retries are spent; an update sent during them has long been taken. *)
GiveUp ==
    /\ wifi = "offline"
    /\ Patient => updates = 0
    /\ wifi' = "setup"
    /\ EnqueueProvisioningStart
    /\ UNCHANGED <<flashVars, ssidRead, loaded, peerVars>>

WifiTask == ReadSsid \/ Configure \/ NothingStored \/ IgnoreUpdate

(* Everything but the flash is lost. *)
Restart ==
    /\ "restart" \in faults
    /\ queue' = <<>> /\ pc' = "receive"
    /\ running' = FALSE /\ stopPending' = FALSE
    /\ advertising' = FALSE /\ peer' = "none" /\ asked' = FALSE
    /\ received' = {} /\ written' = {} /\ wanted' = FALSE
    /\ buffer' = Blank /\ loaded' = Blank
    /\ saver' = "idle" /\ updates' = 0
    /\ wifi' = "booting" /\ ssidRead' = {} /\ meant' = Empty
    /\ UNCHANGED flash

-----------------------------------------------------------------------------
ProvisioningStep ==
    \/ StartsEmpty \/ Teardown \/ Link
    \/ \E field \in Fields, n \in Offered : Write(field, n)
    \/ Save
    \/ WifiTask
    \/ Connect \/ LoseLink \/ GiveUp
    \/ Restart

ProvisioningNext == ProvisioningStep /\ UNCHANGED faults

ProvisioningSpec == ProvisioningInit /\ [][ProvisioningNext]_allVars

BleTask == (StartsEmpty \/ Teardown) /\ UNCHANGED faults
Saver == Save /\ UNCHANGED faults
Credentials == WifiTask /\ UNCHANGED faults
LinkEnds == Link /\ (OnDisconnect \/ (asked /\ PeerLeaves)) /\ UNCHANGED faults
TornGivesUp == GiveUp /\ Torn(loaded) /\ UNCHANGED faults

(* FreeRTOS runs the three tasks; a peer asked to go is gone at last; a network
   that does not answer is given up. *)
ProvisioningFairness ==
    /\ WF_allVars(BleTask)
    /\ WF_allVars(Saver)
    /\ WF_allVars(Credentials)
    /\ SF_allVars(LinkEnds)
    /\ WF_allVars(TornGivesUp)

FairProvisioningSpec == ProvisioningSpec /\ ProvisioningFairness

-----------------------------------------------------------------------------
Without(kinds) == faults \cap kinds = {}

(* What is saved was written in the session it is saved in: a session that is
   cut short leaves nothing a later one would complete (begin() clears the
   flags and the buffers, ble_provisioner.cpp:79-82). *)
SavedIsOfSession ==
    Patient /\ saver # "idle" => written = Fields /\ \A f \in Fields : buffer[f] # Empty

(* A peer that writes one network's name and password has these tried, though
   they are written by one task in two steps and read by another in two
   (wifi_adapter.cpp:48-72). *)
TriedIsMeant ==
    Patient /\ Without({"rewrite", "write", "restart"}) /\ wifi \in {"offline", "online"}
        => ~Torn(loaded)

(* What is tried is what a restart would try, after failed and interrupted
   saves as well. *)
UsedIsStored ==
    Patient /\ Without({"rewrite"}) /\ wifi \in {"offline", "online"} => loaded = flash

(* Credentials given in full are tried as they were given. *)
GivenIsTried ==
    Patient /\ Without({"rewrite", "write", "restart"}) =>
        \A n \in Networks :
            (wifi = "setup" /\ written = Fields /\ meant = n)
                ~> loaded = [f \in Fields |-> n]

(* A save cut short by a restart or a failed write may leave the name of one
   network with the password of another; the device that tries the pair ends
   up reachable over BLE again. *)
TornIsRepaired ==
    Patient => (wifi = "offline" /\ Torn(loaded) ~> advertising \/ wifi = "booting")
=============================================================================
