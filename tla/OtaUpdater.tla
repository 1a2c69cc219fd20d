----------------------------- MODULE OtaUpdater -----------------------------
(***************************************************************************)
(* The firmware updater and the sensor it turns off.  onOtaRequested() runs*)
(* in the MQTT client's task and spawns a task that downloads and flashes; *)
(* the sensor task takes the mode requests of both when it next looks.     *)
(* The MQTT task handles one message at a time, an update or a mode.       *)
(***************************************************************************)
EXTENDS EnvSensor, Sequences

CONSTANTS
    MaxUpdates      \* bound: the updates requested between two restarts

ASSUME UpdaterConstants == MaxUpdates \in Nat

VARIABLES
    inProgress,   \* m_inProgress
    caller,       \* where onOtaRequested() is, in the MQTT task
    updaters,     \* where each OTA task is, one per update requested
    displayOn     \* is the display enabled?

updateVars == <<inProgress, caller, updaters, displayOn>>
allVars == <<vars, updateVars>>

UpdaterTypeOK ==
    /\ TypeOK
    /\ inProgress \in BOOLEAN
    /\ caller \in {"idle", "enqueue", "display", "create"}
    /\ updaters \in Seq({"updating", "enqueue", "display", "store", "deleted"})
    /\ Len(updaters) <= MaxUpdates
    /\ displayOn \in BOOLEAN

UpdaterInit ==
    /\ inProgress = FALSE
    /\ caller = "idle"
    /\ updaters = <<>>
    /\ displayOn = TRUE

OtaInit == Init /\ UpdaterInit

-----------------------------------------------------------------------------
(* Mutant: the exchange's result is not looked at. *)
RequestTwice ==
    /\ "update" \in faults
    /\ caller = "idle" /\ pc \notin {"boot", "aborted"}
    /\ Len(updaters) < MaxUpdates
    /\ inProgress' = TRUE
    /\ caller' = "enqueue"
    /\ UNCHANGED <<request, taskVars, updaters, displayOn>>

(* onOtaRequested(), its head; a request while one is in progress is ignored. *)
OtaRequested ==
    /\ "update" \in faults
    /\ caller = "idle" /\ pc \notin {"boot", "aborted"}
    /\ Len(updaters) < MaxUpdates
    /\ ~inProgress
    /\ inProgress' = TRUE
    /\ caller' = "enqueue"
    /\ UNCHANGED <<request, taskVars, updaters, displayOn>>

DisableSensor ==
    /\ caller = "enqueue"
    /\ EnqueueModeChange("Disabled")
    /\ caller' = "display"
    /\ UNCHANGED <<taskVars, inProgress, updaters, displayOn>>

DisableDisplay ==
    /\ caller = "display"
    /\ displayOn' = FALSE
    /\ caller' = "create"
    /\ UNCHANGED <<request, taskVars, inProgress, updaters>>

CreateTask ==
    /\ caller = "create"
    /\ caller' = "idle"
    /\ updaters' = Append(updaters, "updating")
    /\ UNCHANGED <<request, taskVars, inProgress, displayOn>>

(* Mutant: a task that was not created leaves the update in progress. *)
NoTaskKeepsFlag ==
    /\ caller = "create"
    /\ "no_task" \in faults
    /\ caller' = "idle"
    /\ EnqueueModeChange("LowPower")
    /\ displayOn' = TRUE
    /\ updaters' = Append(updaters, "deleted")
    /\ UNCHANGED <<taskVars, inProgress>>

(* Mutant: the display stays off. *)
NoTaskKeepsDisplayOff ==
    /\ caller = "create"
    /\ "no_task" \in faults
    /\ caller' = "idle"
    /\ EnqueueModeChange("LowPower")
    /\ updaters' = Append(updaters, "deleted")
    /\ inProgress' = FALSE
    /\ UNCHANGED <<taskVars, displayOn>>

(* The task is not created: the preparation is undone in place. *)
NoTask ==
    /\ caller = "create"
    /\ "no_task" \in faults
    /\ caller' = "idle"
    /\ EnqueueModeChange("LowPower")
    /\ displayOn' = TRUE
    /\ updaters' = Append(updaters, "deleted")
    /\ inProgress' = FALSE
    /\ UNCHANGED <<taskVars>>

-----------------------------------------------------------------------------
(* runUpdate(), the task of update u. *)
Advance(u, from, to) ==
    /\ updaters[u] = from
    /\ updaters' = [updaters EXCEPT ![u] = to]

UpdateFails(u) ==
    /\ "not_updated" \in faults
    /\ Advance(u, "updating", "enqueue")
    /\ UNCHANGED <<request, taskVars, inProgress, caller, displayOn>>

(* Mutant: the sensor stays disabled. *)
SkipSensor(u) ==
    /\ Advance(u, "enqueue", "display")
    /\ UNCHANGED <<request, taskVars, inProgress, caller, displayOn>>

EnableSensor(u) ==
    /\ Advance(u, "enqueue", "display")
    /\ EnqueueModeChange("LowPower")
    /\ UNCHANGED <<taskVars, inProgress, caller, displayOn>>

EnableDisplay(u) ==
    /\ Advance(u, "display", "store")
    /\ displayOn' = TRUE
    /\ UNCHANGED <<request, taskVars, inProgress, caller>>

StoreDone(u) ==
    /\ Advance(u, "store", "deleted")
    /\ inProgress' = FALSE
    /\ UNCHANGED <<request, taskVars, caller, displayOn>>

ResetUpdater ==
    /\ inProgress' = FALSE
    /\ caller' = "idle"
    /\ updaters' = <<>>
    /\ displayOn' = TRUE

(* httpUpdate restarts the board when it has flashed. *)
UpdateSucceeds(u) ==
    /\ updaters[u] = "updating"
    /\ Reset
    /\ ResetUpdater

Request ==
    /\ pc # "aborted"
    /\ DisableSensor \/ DisableDisplay \/ CreateTask \/ NoTask

Update(u) ==
    /\ pc # "aborted"
    /\ \/ UpdateFails(u)
       \/ EnableSensor(u)
       \/ EnableDisplay(u)
       \/ StoreDone(u)
       \/ UpdateSucceeds(u)

OtaStep ==
    \/ caller = "idle" /\ RequestMode /\ UNCHANGED updateVars
    \/ (Task \/ PeriodElapses) /\ UNCHANGED updateVars
    \/ (Restart \/ Panic) /\ ResetUpdater
    \/ OtaRequested
    \/ Request
    \/ \E u \in DOMAIN updaters : Update(u)

OtaNext == OtaStep /\ UNCHANGED faults

OtaSpec == OtaInit /\ [][OtaNext]_allVars

(* Every task runs on, and httpUpdate times out: no update lasts for ever. *)
FairOtaSpec ==
    /\ OtaSpec
    /\ WF_allVars(Task /\ UNCHANGED <<faults, updateVars>>)
    /\ WF_allVars(Panic /\ ResetUpdater /\ UNCHANGED faults)
    /\ WF_allVars(Request /\ UNCHANGED faults)
    /\ \A u \in 1..MaxUpdates :
          WF_allVars(u \in DOMAIN updaters /\ Update(u) /\ UNCHANGED faults)

-----------------------------------------------------------------------------
(* Only one update may run at a time (ota_updater.hpp:12-13): two would write
   the same partition and share m_url. *)
OneUpdate ==
    \A u, v \in DOMAIN updaters :
        updaters[u] # "deleted" /\ updaters[v] # "deleted" => u = v

(* The display is off through every update, and on again only when the sensor
   has been asked to resume (runUpdate, ota_updater.cpp:57-64). *)
DisplayFollowsUpdate ==
    /\ (\E u \in DOMAIN updaters : updaters[u] \in {"updating", "enqueue"}) => ~displayOn
    /\ ~inProgress => displayOn

(* An update that has not yet asked the sensor to resume, and the sensor doing it. *)
Updating == caller # "idle" \/ \E u \in DOMAIN updaters : updaters[u] \in {"updating", "enqueue"}
Resuming == pc = "apply" /\ target # "Disabled"

(* A sensor that an update disabled is made to sample again, whatever the update's
   end, and does unless BSEC rejects the mode: the request is used up then, and
   nothing repeats it (runUpdate, ota_updater.cpp:57-60; checkModeChangeRequest,
   env_sensor.cpp:202-207). *)
SensorResumes ==
    /\ Updating /\ mode = "Disabled" ~> mode # "Disabled" \/ Resuming
    /\ faults \cap {"config", "subscribe"} = {} /\ mode = "Disabled" ~> mode # "Disabled"

(* An update ends, and leaves the display on. *)
UpdateEnds == inProgress ~> ~inProgress /\ displayOn

=============================================================================
