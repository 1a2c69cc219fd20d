--------------------------- MODULE OtaUpdaterProofs ---------------------------
(***************************************************************************)
(* What OtaFaults.cfg checks of safety, proved for every set of modes that *)
(* are requested, number of updates and scenario.  The sensor's invariants *)
(* relate what BSEC has learned to the accuracy it last reported and to the*)
(* state in flash; the updater's say that m_inProgress covers the request  *)
(* from its head to the end of the task it creates.                        *)
(***************************************************************************)
EXTENDS OtaUpdater, TLAPS

(* A mode about to be left counts as unsaved until it was saved.  Where BSEC's state
   and the accuracy last reported differ, the state was restored from flash, or the
   accuracy is an earlier mode's and flash holds nothing better. *)
LearningAgrees ==
    /\ pc = "outgoing" => ~saved
    /\ "save" \notin faults /\ pc = "apply" /\ mode \in Learning /\ mature
          => states[mode] = "mature"
    /\ mode \in Learning /\ mature /\ accuracy = "Low" => states[mode] = "mature"
    /\ faults \cap {"subscribe", "restore"} = {} /\ mode \in Learning /\ ~mature
          /\ accuracy = "High" => states[mode] # "mature"

SensorInv == TypeOK /\ ModeIsEffective /\ LearningAgrees

Active == {u \in DOMAIN updaters : updaters[u] # "deleted"}

(* The flag covers a request and its task, of which there is one. *)
FlagAgrees ==
    /\ ~inProgress => caller = "idle" /\ Active = {}
    /\ caller # "idle" => Active = {} /\ Len(updaters) < MaxUpdates
    /\ \A u, v \in Active : u = v

(* The display is on except from the request to the task's last steps. *)
DisplayAgrees ==
    /\ ~inProgress => displayOn
    /\ caller = "create" => ~displayOn
    /\ \A u \in Active :
          /\ updaters[u] \in {"updating", "enqueue"} => ~displayOn
          /\ updaters[u] = "store" => displayOn

UpdaterInv == UpdaterTypeOK /\ FlagAgrees /\ DisplayAgrees

IInv == SensorInv /\ UpdaterInv

-----------------------------------------------------------------------------
(* applyMode() changes the mode and its rate together, or neither; BSEC is as
   learned as the state restored, or reset. *)
LEMMA ApplyEffect ==
    ASSUME TypeOK, NEW m \in Modes, NEW failed, Apply(m, failed)
    PROVE  /\ config' \in Learning /\ {rate, mode, storedMode}' \subseteq Modes
           /\ {mature, saved}' \subseteq BOOLEAN
           /\ \/ /\ pc' = failed /\ UNCHANGED <<mode, rate, storedMode>>
                 /\ \/ UNCHANGED <<config, mature>>
                    \/ "subscribe" \in faults /\ mature' = FALSE
              \/ /\ pc' = "run" /\ mode' = m /\ rate' = m /\ config' = ConfigFor(m)
                 /\ "write" \notin faults => storedMode' = m
                 /\ m \in Learning /\ mature' => states[m] = "mature"
                 /\ m \in Learning /\ ~mature' /\ "restore" \notin faults => states[m] # "mature"
<1> USE DEF TypeOK, Learning, Modes, ConfigFor, bsecVars
<1>1. CASE RejectConfig(failed)
  BY <1>1 DEF RejectConfig
<1>2. CASE RejectSubscription(m, failed)
  BY <1>2 DEF RejectSubscription
<1>3. CASE Accept(m)
  <2>1. /\ {mature, saved}' \subseteq BOOLEAN
        /\ m \in Learning /\ mature' => states[m] = "mature"
        /\ m \in Learning /\ ~mature' /\ "restore" \notin faults => states[m] # "mature"
    <3>1. CASE Restore(m)
      BY <3>1 DEF Restore
    <3>2. CASE NoRestore(m)
      BY <3>2 DEF NoRestore
    <3> QED
      BY <1>3, <3>1, <3>2 DEF Accept
  <2>2. storedMode' \in Modes /\ ("write" \notin faults => storedMode' = m)
    BY <1>3 DEF Accept, StoreMode
  <2> QED
    BY <1>3, <2>1, <2>2 DEF Accept
<1> QED
  BY <1>1, <1>2, <1>3 DEF Apply

(* maybeSaveStateToStorage() writes BSEC's present state or nothing, and writes it
   wherever a first save was due and did not fail. *)
LEMMA MaybeSaveEffect ==
    ASSUME TypeOK, NEW next, MaybeSave(next)
    PROVE  /\ states' \in [Learning -> {"none", "immature", "mature"}]
           /\ {saved, due}' \subseteq BOOLEAN
           /\ pc' \in {next, "aborted"}
           /\ \A m \in Learning :
                 \/ states'[m] = states[m]
                 \/ /\ m = mode /\ accuracy = "High"
                    /\ states'[m] = IF mature THEN "mature" ELSE "immature"
           /\ FirstSave /\ "save" \notin faults /\ mode \in Learning /\ mature
                 => states'[mode] = "mature"
<1> USE DEF TypeOK, saveVars
<1>1. CASE ~FirstSave /\ ~PeriodicSave
  BY <1>1 DEF MaybeSave
<1>2. CASE FirstSave \/ PeriodicSave
  <2>1. due' \in BOOLEAN /\ accuracy = "High"
    BY <1>2 DEF MaybeSave, FirstSave, PeriodicSave
  <2>2. CASE mode \in Learning /\ states' = SavedState /\ saved' = TRUE /\ pc' = next
    BY <2>1, <2>2 DEF SavedState
  <2>3. CASE UNCHANGED <<saved, states>> /\ pc' \in {next, "aborted"}
             /\ ("save" \in faults \/ mode \notin Learning)
    BY <2>1, <2>3
  <2> QED
    BY <1>2, <2>2, <2>3 DEF MaybeSave
<1> QED
  BY <1>1, <1>2

-----------------------------------------------------------------------------
(* The sensor task. *)

LEMMA InitSensorInv ==
    ASSUME SensorConstants, Init
    PROVE  SensorInv
BY DEF Init, SensorConstants, SensorInv, TypeOK, Modes, Learning, ModeIsEffective, LearningAgrees

(* The mode switched to is in effect, or the one before; the state learned in it is
   the one in flash, or as before. *)
LEMMA ApplyKeeps ==
    ASSUME SensorInv, NEW m \in Modes, NEW failed \in {"boot", "run"}, Apply(m, failed),
           failed = "boot" => pc = "boot", failed = "run" => pc = "apply",
           UNCHANGED <<faults, request, target, accuracy, due, states>>
    PROVE  SensorInv'
<1>1. /\ config' \in Learning /\ {rate, mode, storedMode}' \subseteq Modes
      /\ {mature, saved}' \subseteq BOOLEAN
      /\ \/ /\ pc' = failed /\ UNCHANGED <<mode, rate, storedMode>>
            /\ \/ UNCHANGED <<config, mature>>
               \/ "subscribe" \in faults /\ mature' = FALSE
         \/ /\ pc' = "run" /\ mode' = m /\ rate' = m /\ config' = ConfigFor(m)
            /\ "write" \notin faults => storedMode' = m
            /\ m \in Learning /\ mature' => states[m] = "mature"
            /\ m \in Learning /\ ~mature' /\ "restore" \notin faults => states[m] # "mature"
  BY ApplyEffect DEF SensorInv
<1>2. TypeOK'
  BY <1>1 DEF SensorInv, TypeOK
<1>3. ModeIsEffective'
  BY <1>1 DEF SensorInv, ModeIsEffective, ConfigFor
<1>4. LearningAgrees'
  BY <1>1, <1>2 DEF SensorInv, TypeOK, LearningAgrees
<1> QED
  BY <1>2, <1>3, <1>4 DEF SensorInv

(* The board comes up in the mode in flash, or tries again. *)
LEMMA BootKeeps ==
    ASSUME SensorInv, Boot, UNCHANGED faults
    PROVE  SensorInv'
<1>1. StartMode \in Modes /\ Apply(StartMode, "boot") /\ pc = "boot"
  BY DEF SensorInv, TypeOK, Boot, StartMode, Modes
<1> QED
  BY <1>1, ApplyKeeps DEF Boot

(* A new request makes the outgoing mode's state count as unsaved. *)
LEMMA CheckKeeps ==
    ASSUME SensorInv, CheckModeChangeRequest, UNCHANGED faults
    PROVE  SensorInv'
BY DEF SensorInv, TypeOK, ModeIsEffective, ConfigFor, LearningAgrees, CheckModeChangeRequest, bsecVars

(* What a save does to the invariant, its own step aside. *)
LEMMA MaybeSaveKeeps ==
    ASSUME SensorInv, NEW next \in {"apply", "check"}, MaybeSave(next),
           next = "apply" => pc = "outgoing", next = "check" => pc = "save",
           UNCHANGED <<faults, request, target, mode, bsecVars, accuracy, storedMode>>
    PROVE  SensorInv'
<1>1. /\ states' \in [Learning -> {"none", "immature", "mature"}]
      /\ {saved, due}' \subseteq BOOLEAN
      /\ pc' \in {next, "aborted"}
      /\ \A m \in Learning :
            \/ states'[m] = states[m]
            \/ /\ m = mode /\ accuracy = "High"
               /\ states'[m] = IF mature THEN "mature" ELSE "immature"
      /\ FirstSave /\ "save" \notin faults /\ mode \in Learning /\ mature
            => states'[mode] = "mature"
  BY MaybeSaveEffect DEF SensorInv
<1>2. TypeOK'
  BY <1>1 DEF SensorInv, TypeOK, bsecVars
<1>3. ModeIsEffective'
  BY <1>1 DEF SensorInv, ModeIsEffective, ConfigFor, bsecVars
<1>4. LearningAgrees'
  BY <1>1 DEF SensorInv, TypeOK, LearningAgrees, FirstSave, bsecVars
<1> QED
  BY <1>2, <1>3, <1>4 DEF SensorInv

LEMMA SaveOutgoingKeeps ==
    ASSUME SensorInv, SaveOutgoing, UNCHANGED faults
    PROVE  SensorInv'
BY MaybeSaveKeeps DEF SaveOutgoing

LEMMA ApplyTargetKeeps ==
    ASSUME SensorInv, ApplyTarget, UNCHANGED faults
    PROVE  SensorInv'
<1>1. target \in Modes /\ Apply(target, "run") /\ pc = "apply"
  BY DEF SensorInv, TypeOK, ApplyTarget
<1> QED
  BY <1>1, ApplyKeeps DEF ApplyTarget

(* A sample's accuracy is that of what BSEC has learned. *)
LEMMA RunKeeps ==
    ASSUME SensorInv, Run, UNCHANGED faults
    PROVE  SensorInv'
BY DEF SensorInv, TypeOK, ModeIsEffective, ConfigFor, LearningAgrees, Run, saveVars

LEMMA SaveStateKeeps ==
    ASSUME SensorInv, SaveState, UNCHANGED faults
    PROVE  SensorInv'
BY MaybeSaveKeeps DEF SaveState

LEMMA PeriodKeeps ==
    ASSUME SensorInv, PeriodElapses, UNCHANGED faults
    PROVE  SensorInv'
BY DEF SensorInv, TypeOK, ModeIsEffective, ConfigFor, LearningAgrees, PeriodElapses, bsecVars

LEMMA ResetKeeps ==
    ASSUME SensorInv, Reset, UNCHANGED faults
    PROVE  SensorInv'
BY DEF SensorInv, TypeOK, ModeIsEffective, LearningAgrees, Reset, Modes, Learning

(* Requests touch the queue alone. *)
LEMMA RequestKeeps ==
    ASSUME SensorInv, request' \in Modes \cup {NoRequest}, UNCHANGED <<faults, taskVars>>
    PROVE  SensorInv'
BY DEF SensorInv, TypeOK, ModeIsEffective, ConfigFor, LearningAgrees, taskVars, bsecVars, saveVars

LEMMA SensorKeeps ==
    ASSUME SensorInv, RequestMode \/ Task \/ PeriodElapses \/ Restart \/ Panic, UNCHANGED faults
    PROVE  SensorInv'
<1>1. CASE RequestMode
  <2>1. request' \in Modes \cup {NoRequest} /\ UNCHANGED taskVars
    BY <1>1, SensorConstants DEF SensorConstants, RequestMode, EnqueueModeChange
  <2> QED
    BY <2>1, RequestKeeps
<1>2. CASE Task
  BY <1>2, BootKeeps, CheckKeeps, SaveOutgoingKeeps, ApplyTargetKeeps, RunKeeps, SaveStateKeeps
     DEF Task
<1>3. CASE PeriodElapses
  BY <1>3, PeriodKeeps
<1>4. CASE Restart \/ Panic
  BY <1>4, ResetKeeps DEF Restart, Panic
<1> QED
  BY <1>1, <1>2, <1>3, <1>4

-----------------------------------------------------------------------------
(* The updater.  A task is added at the end, and each task changes its own
   place. *)

Places == {"updating", "enqueue", "display", "store", "deleted"}

LEMMA AppendEffect ==
    ASSUME UpdaterTypeOK, NEW place \in Places, updaters' = Append(updaters, place)
    PROVE  /\ updaters' \in Seq(Places) /\ Len(updaters') = Len(updaters) + 1
           /\ DOMAIN updaters' = DOMAIN updaters \cup {Len(updaters) + 1}
           /\ \A u \in DOMAIN updaters : updaters'[u] = updaters[u]
           /\ updaters'[Len(updaters) + 1] = place
           /\ Active' = IF place = "deleted" THEN Active ELSE Active \cup {Len(updaters) + 1}
<1>1. updaters \in Seq(Places)
  BY DEF UpdaterTypeOK, Places
<1>2. /\ updaters' \in Seq(Places) /\ Len(updaters') = Len(updaters) + 1
      /\ DOMAIN updaters' = DOMAIN updaters \cup {Len(updaters) + 1}
      /\ \A u \in DOMAIN updaters : updaters'[u] = updaters[u]
      /\ updaters'[Len(updaters) + 1] = place
  BY <1>1
<1> QED
  BY <1>2 DEF Active

LEMMA AdvanceEffect ==
    ASSUME UpdaterTypeOK, NEW u \in DOMAIN updaters, NEW from \in Places \ {"deleted"},
           NEW to \in Places, Advance(u, from, to)
    PROVE  /\ updaters' \in Seq(Places) /\ Len(updaters') = Len(updaters)
           /\ DOMAIN updaters' = DOMAIN updaters
           /\ u \in Active /\ updaters'[u] = to
           /\ \A v \in DOMAIN updaters : v # u => updaters'[v] = updaters[v]
           /\ Active' = IF to = "deleted" THEN Active \ {u} ELSE Active
<1>1. updaters \in Seq(Places)
  BY DEF UpdaterTypeOK, Places
<1>2. /\ updaters' \in Seq(Places) /\ Len(updaters') = Len(updaters)
      /\ DOMAIN updaters' = DOMAIN updaters
      /\ updaters'[u] = to
      /\ \A v \in DOMAIN updaters : v # u => updaters'[v] = updaters[v]
  BY <1>1 DEF Advance
<1>3. u \in Active
  BY DEF Active, Advance
<1> QED
  BY <1>2, <1>3 DEF Active

LEMMA InitUpdaterInv ==
    ASSUME UpdaterConstants, SensorInv, UpdaterInit
    PROVE  UpdaterInv
<1>1. updaters = <<>> /\ Active = {} /\ updaters \in Seq(Places) /\ Len(updaters) = 0
  BY DEF UpdaterInit, Active
<1>2. Len(updaters) <= MaxUpdates
  BY <1>1 DEF UpdaterConstants
<1>3. UpdaterTypeOK
  BY <1>1, <1>2 DEF SensorInv, UpdaterInit, UpdaterTypeOK, Places
<1> QED
  BY <1>1, <1>3 DEF UpdaterInv, UpdaterInit, FlagAgrees, DisplayAgrees

(* Without its own variables changed, the updater stays as it is. *)
LEMMA UpdaterStays ==
    ASSUME UpdaterInv, SensorInv', UNCHANGED updateVars
    PROVE  UpdaterInv'
BY DEF SensorInv, UpdaterInv, UpdaterTypeOK, FlagAgrees, DisplayAgrees, Active, updateVars

(* A request takes the flag and prepares, and no other comes meanwhile. *)
LEMMA OtaRequestedKeeps ==
    ASSUME UpdaterInv, SensorInv', OtaRequested
    PROVE  UpdaterInv'
BY DEF SensorInv, UpdaterInv, UpdaterTypeOK, FlagAgrees, DisplayAgrees, Active, OtaRequested

LEMMA PreparationKeeps ==
    ASSUME UpdaterInv, SensorInv', DisableSensor \/ DisableDisplay
    PROVE  UpdaterInv'
BY DEF SensorInv, UpdaterInv, UpdaterTypeOK, FlagAgrees, DisplayAgrees, Active,
       DisableSensor, DisableDisplay

LEMMA CreateTaskKeeps ==
    ASSUME UpdaterInv, SensorInv', CreateTask
    PROVE  UpdaterInv'
<1>1. /\ updaters' \in Seq(Places) /\ Len(updaters') = Len(updaters) + 1
      /\ Active' = Active \cup {Len(updaters) + 1}
      /\ updaters'[Len(updaters) + 1] = "updating"
  BY AppendEffect DEF UpdaterInv, CreateTask, Places
<1>2. Active = {} /\ Len(updaters) < MaxUpdates /\ inProgress /\ ~displayOn
  BY DEF UpdaterInv, FlagAgrees, DisplayAgrees, CreateTask
<1>3. UpdaterTypeOK'
  BY <1>1, <1>2, UpdaterConstants
     DEF SensorInv, UpdaterInv, UpdaterTypeOK, CreateTask, Places, UpdaterConstants
<1> QED
  BY <1>1, <1>2, <1>3 DEF UpdaterInv, UpdaterTypeOK, FlagAgrees, DisplayAgrees, CreateTask

LEMMA NoTaskKeeps ==
    ASSUME UpdaterInv, SensorInv', NoTask
    PROVE  UpdaterInv'
<1>1. /\ updaters' \in Seq(Places) /\ Len(updaters') = Len(updaters) + 1
      /\ Active' = Active
  BY AppendEffect DEF UpdaterInv, NoTask, Places
<1>2. Active = {} /\ Len(updaters) < MaxUpdates
  BY DEF UpdaterInv, FlagAgrees, NoTask
<1>3. /\ inProgress' = FALSE /\ caller' = "idle" /\ displayOn' = TRUE
      /\ Len(updaters') <= MaxUpdates
  BY <1>1, <1>2, UpdaterConstants DEF UpdaterInv, UpdaterTypeOK, NoTask, UpdaterConstants
<1>4. UpdaterTypeOK'
  BY <1>1, <1>3 DEF SensorInv, UpdaterTypeOK, Places
<1> QED
  BY <1>1, <1>2, <1>3, <1>4 DEF UpdaterInv, FlagAgrees, DisplayAgrees

(* The steps of a task that keep it: the display comes on at the last but one. *)
LEMMA TaskKeeps ==
    ASSUME UpdaterInv, SensorInv', NEW u \in DOMAIN updaters,
           UpdateFails(u) \/ EnableSensor(u) \/ EnableDisplay(u)
    PROVE  UpdaterInv'
<1>1. PICK from \in Places \ {"deleted"}, to \in Places \ {"deleted"} :
         /\ Advance(u, from, to)
         /\ to \in {"updating", "enqueue"} => from = "updating" /\ UNCHANGED displayOn
         /\ to = "store" => displayOn'
         /\ displayOn' \in {displayOn, TRUE}
  <2>1. CASE UpdateFails(u)
    BY <2>1 DEF UpdateFails, Places
  <2>2. CASE EnableSensor(u)
    BY <2>2 DEF EnableSensor, Places
  <2>3. CASE EnableDisplay(u)
    BY <2>3 DEF EnableDisplay, Places
  <2> QED
    BY <2>1, <2>2, <2>3
<1>2. /\ updaters' \in Seq(Places) /\ Len(updaters') = Len(updaters)
      /\ u \in Active /\ updaters[u] = from /\ updaters'[u] = to
      /\ Active' = Active
  BY <1>1, AdvanceEffect DEF UpdaterInv, Advance
<1>3. Active = {u} /\ inProgress /\ caller = "idle"
  BY <1>2 DEF UpdaterInv, UpdaterTypeOK, FlagAgrees
<1>4. UNCHANGED <<inProgress, caller>>
  BY DEF UpdateFails, EnableSensor, EnableDisplay
<1>5. UpdaterTypeOK'
  BY <1>1, <1>2, <1>4 DEF SensorInv, UpdaterInv, UpdaterTypeOK, Places
<1> QED
  BY <1>1, <1>2, <1>3, <1>4, <1>5 DEF UpdaterInv, FlagAgrees, DisplayAgrees

(* The last one gives the flag back. *)
LEMMA StoreDoneKeeps ==
    ASSUME UpdaterInv, SensorInv', NEW u \in DOMAIN updaters, StoreDone(u)
    PROVE  UpdaterInv'
<1>1. /\ updaters' \in Seq(Places) /\ Len(updaters') = Len(updaters)
      /\ u \in Active
      /\ Active' = Active \ {u}
  BY AdvanceEffect DEF UpdaterInv, StoreDone, Places
<1>2. Active = {u} /\ caller = "idle"
  BY <1>1 DEF UpdaterInv, UpdaterTypeOK, FlagAgrees
<1>3. displayOn /\ inProgress' = FALSE /\ UNCHANGED <<caller, displayOn>>
  BY <1>1 DEF UpdaterInv, DisplayAgrees, StoreDone, Advance
<1>4. UpdaterTypeOK'
  BY <1>1, <1>3 DEF SensorInv, UpdaterInv, UpdaterTypeOK, Places
<1> QED
  BY <1>1, <1>2, <1>3, <1>4 DEF UpdaterInv, FlagAgrees, DisplayAgrees

LEMMA ResetUpdaterKeeps ==
    ASSUME UpdaterConstants, SensorInv', ResetUpdater
    PROVE  UpdaterInv'
<1>1. updaters' = <<>> /\ Active' = {} /\ updaters' \in Seq(Places) /\ Len(updaters') = 0
  BY DEF ResetUpdater, Active
<1>2. Len(updaters') <= MaxUpdates
  BY <1>1 DEF UpdaterConstants
<1>3. UpdaterTypeOK'
  BY <1>1, <1>2 DEF SensorInv, ResetUpdater, UpdaterTypeOK, Places
<1> QED
  BY <1>1, <1>3 DEF UpdaterInv, ResetUpdater, FlagAgrees, DisplayAgrees

-----------------------------------------------------------------------------
LEMMA InitIInv ==
    ASSUME SensorConstants, UpdaterConstants, OtaInit
    PROVE  IInv
BY InitSensorInv, InitUpdaterInv DEF OtaInit, IInv

LEMMA NextIInv ==
    ASSUME SensorConstants, UpdaterConstants, IInv, OtaNext
    PROVE  IInv'
<1> USE DEF IInv
<1>0. UNCHANGED faults
  BY DEF OtaNext
<1>1. CASE (RequestMode \/ Task \/ PeriodElapses) /\ UNCHANGED updateVars
  BY <1>0, <1>1, SensorKeeps, UpdaterStays
<1>2. CASE (Restart \/ Panic) /\ ResetUpdater
  BY <1>0, <1>2, SensorKeeps, ResetUpdaterKeeps
<1>3. CASE OtaRequested
  <2>1. SensorInv'
    BY <1>0, <1>3, RequestKeeps DEF OtaRequested, SensorInv, TypeOK
  <2> QED
    BY <1>3, <2>1, OtaRequestedKeeps
<1>4. CASE Request
  <2>1. request' \in Modes \cup {NoRequest} /\ UNCHANGED taskVars
    BY <1>4 DEF Request, DisableSensor, DisableDisplay, CreateTask, NoTask, EnqueueModeChange,
                SensorInv, TypeOK, Modes
  <2>2. SensorInv'
    BY <1>0, <2>1, RequestKeeps
  <2> QED
    BY <1>4, <2>2, PreparationKeeps, CreateTaskKeeps, NoTaskKeeps DEF Request
<1>5. ASSUME NEW u \in DOMAIN updaters, Update(u)
      PROVE  IInv'
  <2>1. CASE UpdateSucceeds(u)
    <3>1. Reset /\ ResetUpdater
      BY <2>1 DEF UpdateSucceeds
    <3> QED
      BY <1>0, <3>1, ResetKeeps, ResetUpdaterKeeps
  <2>2. CASE UpdateFails(u) \/ EnableSensor(u) \/ EnableDisplay(u) \/ StoreDone(u)
    <3>1. request' \in Modes \cup {NoRequest} /\ UNCHANGED taskVars
      BY <2>2 DEF UpdateFails, EnableSensor, EnableDisplay, StoreDone, EnqueueModeChange,
                  SensorInv, TypeOK, Modes
    <3>2. SensorInv'
      BY <1>0, <3>1, RequestKeeps
    <3> QED
      BY <2>2, <3>2, TaskKeeps, StoreDoneKeeps
  <2> QED
    BY <1>5, <2>1, <2>2 DEF Update
<1> QED
  BY <1>1, <1>2, <1>3, <1>4, <1>5 DEF OtaNext, OtaStep

LEMMA StutterIInv ==
    ASSUME IInv, UNCHANGED allVars
    PROVE  IInv'
<1>1. SensorInv'
  BY DEF IInv, allVars, vars, SensorInv, TypeOK, ModeIsEffective, ConfigFor,
         LearningAgrees, taskVars, bsecVars, saveVars
<1> QED
  BY <1>1, UpdaterStays DEF IInv, allVars

LEMMA Invariance == OtaSpec => []IInv
BY InitIInv, NextIInv, StutterIInv, SensorConstants, UpdaterConstants, PTL DEF OtaSpec

-----------------------------------------------------------------------------
(* Only a save writes a state, and where no subscription or state was rejected it
   writes none that is worth less. *)
LEMMA StatesKept ==
    ASSUME IInv, OtaNext \/ UNCHANGED allVars, faults \cap {"subscribe", "restore"} = {},
           NEW m \in Learning, states[m] = "mature"
    PROVE  states'[m] = "mature"
<1>1. CASE SaveOutgoing \/ SaveState
  <2>1. \/ states'[m] = states[m]
        \/ /\ m = mode /\ accuracy = "High"
           /\ states'[m] = IF mature THEN "mature" ELSE "immature"
    BY <1>1, MaybeSaveEffect DEF IInv, SensorInv, SaveOutgoing, SaveState
  <2> QED
    BY <2>1 DEF IInv, SensorInv, LearningAgrees
<1>2. CASE UNCHANGED states
  BY <1>2
<1>3. CASE OtaNext
  <2>1. CASE Task
    BY <1>1, <2>1 DEF Task, Boot, CheckModeChangeRequest, ApplyTarget, Run, saveVars
  <2>2. CASE RequestMode \/ PeriodElapses \/ Restart \/ Panic \/ OtaRequested \/ Request
    BY <2>2 DEF RequestMode, PeriodElapses, Restart, Panic, Reset, OtaRequested, Request,
                DisableSensor, DisableDisplay, CreateTask, NoTask, taskVars, saveVars
  <2>3. ASSUME NEW u \in DOMAIN updaters, Update(u)
        PROVE  UNCHANGED states
    BY <2>3 DEF Update, UpdateFails, EnableSensor, EnableDisplay, StoreDone, UpdateSucceeds,
                Reset, taskVars, saveVars
  <2> QED
    BY <1>3, <2>1, <2>2, <2>3 DEF OtaNext, OtaStep
<1>4. CASE UNCHANGED allVars
  BY <1>4 DEF allVars, vars, taskVars, saveVars
<1> QED
  BY <1>3, <1>4

(* The types are kept: the queues hold one mode, and no more tasks run than
   updates were requested. *)
THEOREM TypesKept == OtaSpec => []UpdaterTypeOK
<1>1. IInv => UpdaterTypeOK
  BY DEF IInv, UpdaterInv
<1> QED
  BY <1>1, Invariance, PTL

(* However the library's calls fail, a running sensor samples at the rate of the
   mode it reports, under that mode's configuration unless a subscription is
   rejected, and comes up in it after a restart if it could be stored. *)
THEOREM SensorIsInMode == OtaSpec => []ModeIsEffective
<1>1. IInv => ModeIsEffective
  BY DEF IInv, SensorInv
<1> QED
  BY <1>1, Invariance, PTL

(* When a mode is about to be applied, what BSEC has learned in the old one is in
   flash as it is, unless a save fails; and no save replaces a state that had
   matured by one that has not, unless BSEC rejects a subscription or a state. *)
THEOREM LearningIsKept == OtaSpec => LearnedIsKept
<1>1. IInv /\ [OtaNext]_allVars =>
        [/\ "save" \notin faults /\ pc = "apply" /\ mode \in Learning /\ mature
              => states[mode] = "mature"
         /\ faults \cap {"subscribe", "restore"} = {} =>
              \A m \in Learning : states[m] = "mature" => states'[m] = "mature"]_vars
  <2> SUFFICES ASSUME IInv, [OtaNext]_allVars
               PROVE  /\ "save" \notin faults /\ pc = "apply" /\ mode \in Learning /\ mature
                            => states[mode] = "mature"
                      /\ faults \cap {"subscribe", "restore"} = {} =>
                            \A m \in Learning : states[m] = "mature" => states'[m] = "mature"
    OBVIOUS
  <2>1. "save" \notin faults /\ pc = "apply" /\ mode \in Learning /\ mature
          => states[mode] = "mature"
    BY DEF IInv, SensorInv, LearningAgrees
  <2> QED
    BY <2>1, StatesKept
<1> QED
  BY <1>1, Invariance, PTL DEF LearnedIsKept, OtaSpec

(* m_inProgress lets one update through at a time, whatever the tasks of the
   updates before did and wherever the board restarts. *)
THEOREM UpdatesAreAlone == OtaSpec => []OneUpdate
<1>1. IInv => OneUpdate
  BY DEF IInv, UpdaterInv, FlagAgrees, Active, OneUpdate
<1> QED
  BY <1>1, Invariance, PTL

(* The display is off through every update, and never stays off after one. *)
THEOREM DisplayIsRestored == OtaSpec => []DisplayFollowsUpdate
<1>1. IInv => DisplayFollowsUpdate
  BY DEF IInv, UpdaterInv, DisplayAgrees, Active, DisplayFollowsUpdate
<1> QED
  BY <1>1, Invariance, PTL
=============================================================================
