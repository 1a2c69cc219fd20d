------------------------------ MODULE EnvSensor ------------------------------
(***************************************************************************)
(* The environment sensor's task: it takes mode requests from a queue of   *)
(* one that a newer request overwrites, runs the BSEC library and saves    *)
(* what BSEC has learned, one key of the flash per mode.                   *)
(*                                                                         *)
(* BSEC is external: it is reset by a new configuration, learns while it   *)
(* samples and reports its accuracy with each sample only.  Only the step  *)
(* between two reads of what another task or call may change is a state:   *)
(* applyMode() is atomic, as no other task uses BSEC.                      *)
(***************************************************************************)
EXTENDS Naturals

CONSTANTS
    Requests,   \* the modes other tasks request
    Scenarios   \* sets of what the environment may do

Modes == {"Disabled", "LowPower", "UltraLowPower"}
Learning == {"LowPower", "UltraLowPower"}     \* the modes with a key in flash
NoRequest == "none"

FaultKinds ==
    {"config",      \* BSEC rejects setConfig()
     "subscribe",   \* BSEC rejects updateSubscription()
     "restore",     \* BSEC rejects setState()
     "save",        \* getState() or the write to flash fails
     "write",       \* the mode is not written to flash
     "restart",     \* esp_restart(), a crash or a power cycle
     "update",      \* updates are requested: see OtaUpdater
     "no_task",     \* an update's task is not created
     "not_updated"} \* an update fails

ASSUME SensorConstants ==
    /\ Requests \subseteq Modes
    /\ Scenarios \subseteq SUBSET FaultKinds

VARIABLES
    faults,       \* the scenario, fixed throughout
    request,      \* m_modeRequestQueue
    pc,           \* where the sensor task is
    target,       \* the mode setMode() is switching to
    mode,         \* m_mode
    config,       \* the configuration BSEC runs, named by its mode
    rate,         \* the sample rate BSEC is subscribed at, named by its mode
    mature,       \* has BSEC learned enough to be accurate?
    accuracy,     \* s_currentAccuracy
    saved,        \* m_hasSavedStateForMode
    due,          \* have four hours passed since m_lastStateSaveMs?
    states,       \* the BSEC states in flash
    storedMode    \* the mode in flash; "Disabled" (0) reads as none

bsecVars == <<config, rate, mature>>
saveVars == <<saved, due, states>>
taskVars == <<pc, target, mode, bsecVars, accuracy, saveVars, storedMode>>
vars == <<faults, request, taskVars>>

TypeOK ==
    /\ faults \in Scenarios
    /\ request \in Modes \cup {NoRequest}
    /\ pc \in {"boot", "check", "outgoing", "apply", "run", "save", "aborted"}
    /\ {target, mode, rate, storedMode} \subseteq Modes
    /\ config \in Learning
    /\ {mature, saved, due} \subseteq BOOLEAN
    /\ accuracy \in {"Low", "High"}
    /\ states \in [Learning -> {"none", "immature", "mature"}]

(* Flash as an earlier version of the device left it: no state, any mode. *)
Init ==
    /\ faults \in Scenarios
    /\ request = NoRequest
    /\ pc = "boot"
    /\ target = "LowPower"
    /\ mode = "LowPower"
    /\ config = "LowPower"
    /\ rate = "Disabled"
    /\ mature = FALSE
    /\ accuracy = "Low"
    /\ saved = FALSE
    /\ due = FALSE
    /\ states = [m \in Learning |-> "none"]
    /\ storedMode \in Modes

-----------------------------------------------------------------------------
(* enqueueModeChange: the newest request wins. *)
EnqueueModeChange(m) == request' = m

RequestMode ==
    /\ pc \notin {"boot", "aborted"}
    /\ \E m \in Requests : EnqueueModeChange(m)
    /\ UNCHANGED taskVars

-----------------------------------------------------------------------------
(* setConfig() picks the bundled configuration, LowPower's for want of a
   better one; modeToSampleRate() the rate. *)
ConfigFor(m) == IF m = "UltraLowPower" THEN m ELSE "LowPower"

(* applyMode(m): each step may fail and leaves what the steps before it did. *)
RejectConfig(next) ==
    /\ "config" \in faults
    /\ pc' = next
    /\ UNCHANGED <<mode, bsecVars, saved, storedMode>>

RejectSubscription(m, next) ==
    /\ "subscribe" \in faults
    /\ config' = ConfigFor(m)
    /\ mature' = FALSE
    /\ pc' = next
    /\ UNCHANGED <<mode, rate, saved, storedMode>>

Restore(m) ==
    /\ m \in Learning /\ states[m] # "none"
    /\ mature' = (states[m] = "mature")
    /\ saved' = TRUE

NoRestore(m) ==
    /\ (m \in Learning /\ states[m] # "none") => "restore" \in faults
    /\ mature' = FALSE
    /\ UNCHANGED saved

StoreMode(m) ==
    \/ storedMode' = m
    \/ "write" \in faults /\ UNCHANGED storedMode

Accept(m) ==
    /\ config' = ConfigFor(m)
    /\ rate' = m
    /\ Restore(m) \/ NoRestore(m)
    /\ StoreMode(m)
    /\ mode' = m
    /\ pc' = "run"

(* Mutant: the mode is stored before BSEC has taken it. *)
ApplyStoringFirst(m, failed) ==
    \/ /\ "config" \in faults
       /\ pc' = failed
       /\ storedMode' = m
       /\ UNCHANGED <<mode, bsecVars, saved>>
    \/ Accept(m)

Apply(m, failed) ==
    \/ RejectConfig(failed)
    \/ RejectSubscription(m, failed)
    \/ Accept(m)

-----------------------------------------------------------------------------
(* init(), with main's setup(): the board restarts until the mode applies. *)
StartMode == IF storedMode = "Disabled" THEN "LowPower" ELSE storedMode

Boot ==
    /\ pc = "boot"
    /\ Apply(StartMode, "boot")
    /\ UNCHANGED <<request, target, accuracy, due, states>>

(* checkModeChangeRequest() and the head of setMode(). *)
CheckModeChangeRequest ==
    /\ pc = "check"
    /\ IF request \in {NoRequest, mode}
       THEN pc' = "run" /\ UNCHANGED <<target, saved>>
       ELSE pc' = "outgoing" /\ target' = request /\ saved' = FALSE
    /\ request' = NoRequest
    /\ UNCHANGED <<mode, bsecVars, accuracy, due, states, storedMode>>

FirstSave == accuracy = "High" /\ ~saved
PeriodicSave == accuracy = "High" /\ saved /\ due

(* What is written: BSEC's present state under the present mode. *)
SavedState == [states EXCEPT ![mode] = IF mature THEN "mature" ELSE "immature"]

(* Mutant: the outgoing state is not saved. *)
MaybeSaveNever(next) == pc' = next /\ UNCHANGED saveVars

(* maybeSaveStateToStorage(): the periodic save counts as made before it is,
   the first one does not restart the period, and a mode without a key is
   asserted never to be saved (sensorModeToKey). *)
MaybeSave(next) ==
    \/ /\ ~FirstSave /\ ~PeriodicSave
       /\ pc' = next
       /\ UNCHANGED saveVars
    \/ /\ FirstSave \/ PeriodicSave
       /\ due' = (due /\ ~PeriodicSave)
       /\ \/ /\ "save" \in faults
             /\ pc' = next
             /\ UNCHANGED <<saved, states>>
          \/ /\ mode \in Learning
             /\ states' = SavedState
             /\ saved' = TRUE
             /\ pc' = next
          \/ /\ mode \notin Learning
             /\ pc' = "aborted"
             /\ UNCHANGED <<saved, states>>

(* setMode(), its save of the outgoing mode. *)
SaveOutgoing ==
    /\ pc = "outgoing"
    /\ MaybeSave("apply")
    /\ UNCHANGED <<request, target, mode, bsecVars, accuracy, storedMode>>

ApplyTarget ==
    /\ pc = "apply"
    /\ Apply(target, "run")
    /\ UNCHANGED <<request, target, accuracy, due, states>>

(* run(): BSEC samples, learns and reports, when it is due a sample; most
   calls are not. *)
Run ==
    /\ pc = "run"
    /\ pc' = "save"
    /\ \/ /\ rate # "Disabled"
          /\ mature' \in BOOLEAN
          /\ accuracy' = IF mature' THEN "High" ELSE "Low"
       \/ UNCHANGED <<mature, accuracy>>
    /\ UNCHANGED <<request, target, mode, config, rate, saveVars, storedMode>>

SaveState ==
    /\ pc = "save"
    /\ MaybeSave("check")
    /\ UNCHANGED <<request, target, mode, bsecVars, accuracy, storedMode>>

Task ==
    \/ Boot
    \/ CheckModeChangeRequest
    \/ SaveOutgoing
    \/ ApplyTarget
    \/ Run
    \/ SaveState

-----------------------------------------------------------------------------
PeriodElapses ==
    /\ ~due
    /\ pc # "aborted"
    /\ due' = TRUE
    /\ UNCHANGED <<request, pc, target, mode, bsecVars, accuracy, saved, states,
                   storedMode>>

(* All but the flash is lost. *)
Reset ==
    /\ request' = NoRequest
    /\ pc' = "boot"
    /\ target' = "LowPower"
    /\ mode' = "LowPower"
    /\ config' = "LowPower"
    /\ rate' = "Disabled"
    /\ mature' = FALSE
    /\ accuracy' = "Low"
    /\ saved' = FALSE
    /\ due' = FALSE
    /\ UNCHANGED <<states, storedMode>>

Restart == "restart" \in faults /\ Reset

(* A failed configASSERT() restarts the board. *)
Panic == pc = "aborted" /\ Reset

Next == (RequestMode \/ Task \/ PeriodElapses \/ Restart \/ Panic) /\ UNCHANGED faults

Spec == Init /\ [][Next]_vars

-----------------------------------------------------------------------------
(* What BSEC has learned outlives a change of mode: its state is in flash before
   applyMode() resets it, whichever way that ends, unless saving failed; and a state
   worth having is never written over by one that is not, unless BSEC rejected a
   subscription or a state and left its present one unlearned (setMode,
   env_sensor.cpp:251-257, maybeSaveStateToStorage). *)
LearnedIsKept ==
    [][/\ "save" \notin faults /\ pc = "apply" /\ mode \in Learning /\ mature
             => states[mode] = "mature"
       /\ faults \cap {"subscribe", "restore"} = {} =>
             \A m \in Learning : states[m] = "mature" => states'[m] = "mature"]_vars

(* Whatever BSEC rejects, the rate it runs at is that of m_mode; so is the mode a
   restart finds, unless it could not be written; and so is its configuration,
   unless BSEC took that and rejected the subscription (applyMode,
   env_sensor.cpp:287-324). *)
ModeIsEffective ==
    pc \notin {"boot", "aborted"} =>
        /\ rate = mode
        /\ "write" \notin faults => storedMode = mode
        /\ "subscribe" \notin faults => config = ConfigFor(mode)

=============================================================================
