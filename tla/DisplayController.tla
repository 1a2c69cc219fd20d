-------------------------- MODULE DisplayController --------------------------
(***************************************************************************)
(* The display: tasks of every kind change what it should show, each under *)
(* the mutex, then look at m_enabled without it and wake the display task, *)
(* which renders under the mutex.  The updater turns the panel off and on. *)
(* The callers are those setup() installs: the Wi-Fi task, the NimBLE host *)
(* task, the MQTT client's task and the claim button's, each making its    *)
(* calls one after the other.                                              *)
(***************************************************************************)
EXTENDS Sequences

CONSTANTS
    Sessions,    \* set-ups, each told from others by its passkey
    NoPasskey

ASSUME DisplayConstants == NoPasskey \notin Sessions

Callers == {"wifi", "host", "mqtt", "button"}
Overlays == {"None", "Provisioning", "Claim"}
VARIABLES
    available,   \* m_available
    state,       \* m_state
    overlay,     \* m_overlay
    enabled,     \* m_enabled, and with it the panel
    todo,        \* per caller: the setter calls it has still to make
    caller,      \* per caller: has the call it is in still to wake the task?
    switch,      \* the same of enableDisplay()
    notified,    \* the display task's notification
    task,        \* where the display task is
    frame,       \* what the panel was sent last: one picture, or nothing yet
    settingUp,   \* is the Wi-Fi task in set-up?
    session,     \* the present set-up, or the last one
    showing,     \* l_showing of the button task
    claimed      \* m_claimed of the claim handler

stateVars == <<state, overlay>>
screenVars == <<enabled, switch, notified, task, frame>>
callerVars == <<settingUp, session, showing, claimed>>
vars == <<available, stateVars, screenVars, callerVars, todo, caller>>

(* What render() draws; the readings and the Wi-Fi and MQTT statuses, set by the
   same updateState(), are left out. *)
Picture ==
    [overlay |-> overlay,
     line |-> CASE overlay = "Provisioning" -> <<state.passkey>>
                [] overlay = "Claim" -> <<state.claimed>>
                [] OTHER -> <<>>]

Blank == {}

InitialState == [passkey |-> NoPasskey, claimed |-> FALSE]

Init ==
    /\ available \in BOOLEAN
    /\ state = InitialState
    /\ overlay = "None"
    /\ enabled = FALSE
    /\ todo = [c \in Callers |-> <<>>]
    /\ caller = [c \in Callers |-> "idle"]
    /\ switch = "idle"
    /\ notified = FALSE
    /\ task = "render"
    /\ frame = Blank
    /\ settingUp = FALSE
    /\ session \in Sessions
    /\ showing = FALSE
    /\ claimed \in BOOLEAN

-----------------------------------------------------------------------------
(* The setters, each a change under the mutex and a look at m_enabled. *)

Written(c) ==
    /\ caller' = [caller EXCEPT ![c] = "written"]
    /\ todo' = [todo EXCEPT ![c] = Tail(@)]

Calling(c, field) ==
    /\ available /\ caller[c] = "idle" /\ todo[c] # <<>>
    /\ field = Head(todo[c]).field

(* updateState() *)
UpdateState(c, field) ==
    /\ Calling(c, field)
    /\ state' = [state EXCEPT ![field] = Head(todo[c]).value]
    /\ Written(c)
    /\ UNCHANGED <<available, overlay, screenVars, callerVars>>

(* Mutant: nobody is woken. *)
SetOverlayQuietly(c) ==
    /\ Calling(c, "overlay")
    /\ overlay' = Head(todo[c]).value
    /\ todo' = [todo EXCEPT ![c] = Tail(@)]
    /\ UNCHANGED <<available, state, screenVars, callerVars, caller>>

SetActiveOverlay(c) ==
    /\ Calling(c, "overlay")
    /\ overlay' = Head(todo[c]).value
    /\ Written(c)
    /\ UNCHANGED <<available, state, screenVars, callerVars>>

(* The end of both, without the mutex. *)
NotifyIfEnabled(c) ==
    /\ caller[c] = "written"
    /\ caller' = [caller EXCEPT ![c] = "idle"]
    /\ notified' = (notified \/ enabled)
    /\ UNCHANGED <<available, stateVars, enabled, switch, task, frame, callerVars, todo>>

Setter(c) == (\E field \in DOMAIN state : UpdateState(c, field)) \/ SetActiveOverlay(c)

NotAvailable == ~available /\ UNCHANGED vars

-----------------------------------------------------------------------------
(* The callers. *)

Call(field, value) == [field |-> field, value |-> value]

(* A caller that is done with its last calls makes these. *)
Makes(c, calls) ==
    /\ available /\ todo[c] = <<>> /\ caller[c] = "idle"
    /\ todo' = [todo EXCEPT ![c] = calls]
    /\ UNCHANGED <<available, stateVars, screenVars, caller>>

(* Mutant: the overlay is shown before the old passkey is taken away. *)
OverlayFirst == <<Call("overlay", "Provisioning"), Call("passkey", NoPasskey)>>

StartCalls == <<Call("passkey", NoPasskey), Call("overlay", "Provisioning")>>

(* By the next set-up the peer of the last one is long gone. *)
StartProvisioning ==
    /\ ~settingUp /\ settingUp' = TRUE
    /\ todo["host"] = <<>> /\ caller["host"] = "idle"
    /\ session' \in Sessions \ {session}
    /\ Makes("wifi", StartCalls)
    /\ UNCHANGED <<showing, claimed>>

StopProvisioning ==
    /\ settingUp /\ settingUp' = FALSE
    /\ Makes("wifi", <<Call("overlay", "None")>>)
    /\ UNCHANGED <<session, showing, claimed>>

(* A peer pairs while BLE is up: not before the start callback is done, for
   that takes a person, but perhaps while it is being stopped. *)
PasskeyDisplay ==
    /\ settingUp \/ overlay = "Provisioning"
    /\ settingUp => todo["wifi"] = <<>>
    /\ Makes("host", <<Call("passkey", session)>>)
    /\ UNCHANGED callerVars

(* ClaimHandler::setClaimed() *)
SetClaimed(c) ==
    /\ claimed' = c
    /\ Makes("mqtt", <<Call("claimed", c)>>)
    /\ UNCHANGED <<settingUp, session, showing>>

(* The button: m_claimed is read once, before the calls. *)
Show ==
    /\ ~showing /\ showing' = TRUE
    /\ Makes("button", <<Call("claimed", claimed), Call("overlay", "Claim")>>)
    /\ UNCHANGED <<settingUp, session, claimed>>

Hide ==
    /\ showing /\ showing' = FALSE
    /\ Makes("button", <<Call("overlay", "None")>>)
    /\ UNCHANGED <<settingUp, session, claimed>>

Environment ==
    \/ StartProvisioning \/ StopProvisioning \/ PasskeyDisplay
    \/ \E b \in BOOLEAN : SetClaimed(b)
    \/ Show \/ Hide

-----------------------------------------------------------------------------
(* Mutant: the panel is switched on and nobody renders. *)
EnableQuietly ==
    /\ available /\ switch = "idle" /\ ~enabled
    /\ enabled' = TRUE
    /\ UNCHANGED <<available, stateVars, callerVars, todo, caller, switch, notified,
                   task, frame>>

EnableDisplay ==
    /\ available /\ switch = "idle" /\ ~enabled
    /\ enabled' = TRUE
    /\ switch' = "enabled"
    /\ UNCHANGED <<available, stateVars, callerVars, todo, caller, notified, task, frame>>

(* enableDisplay()'s notify(), after the mutex. *)
EnableNotifies ==
    /\ switch = "enabled"
    /\ switch' = "idle"
    /\ notified' = TRUE
    /\ UNCHANGED <<available, stateVars, callerVars, todo, caller, enabled, task, frame>>

DisableDisplay ==
    /\ available /\ switch = "idle" /\ enabled
    /\ enabled' = FALSE
    /\ UNCHANGED <<available, stateVars, callerVars, todo, caller, switch, notified,
                   task, frame>>

-----------------------------------------------------------------------------
(* loop(): renders once at the start, then whenever it is notified; start()
   creates no task when there is no display. *)
Wait ==
    /\ task = "wait" /\ notified
    /\ notified' = FALSE
    /\ task' = "render"
    /\ UNCHANGED <<available, stateVars, callerVars, todo, caller, enabled, switch, frame>>

(* render() and renderHalves() look at neither m_enabled nor m_mode. *)
Render ==
    /\ available
    /\ task = "render"
    /\ task' = "wait"
    /\ frame' = {Picture}
    /\ UNCHANGED <<available, stateVars, callerVars, todo, caller, enabled, switch,
                   notified>>

Next ==
    \/ \E c \in Callers : Setter(c) \/ NotifyIfEnabled(c)
    \/ Environment
    \/ EnableDisplay \/ EnableNotifies \/ DisableDisplay
    \/ Wait \/ Render
    \/ NotAvailable

Spec == Init /\ [][Next]_vars

(* The tasks run on; nothing has to be set or switched. *)
FairSpec ==
    /\ Spec
    /\ \A c \in Callers : WF_vars(NotifyIfEnabled(c))
    /\ WF_vars(EnableNotifies)
    /\ WF_vars(Wait \/ Render)

-----------------------------------------------------------------------------
(* No wake-up is lost: an enabled display that nobody is about to wake shows
   the present state, though m_enabled is read without the mutex
   (display_controller.hpp:37-49, display_controller.cpp:102-113). *)
NothingIsMissed ==
    \/ ~enabled
    \/ \E c \in Callers : caller[c] = "written"
    \/ switch = "enabled" \/ notified \/ task = "render"
    \/ frame = {Picture}

(* An overlay is shown only while its owner wants it, though two tasks share
   it, and a set-up never shows the passkey of an earlier one
   (main.cpp:70-84, claim_handler.cpp:78-98). *)
OverlayIsDue ==
    /\ overlay = "Claim" => showing \/ todo["button"] # <<>>
    /\ overlay = "Provisioning" =>
          /\ settingUp \/ todo["wifi"] # <<>>
          /\ state.passkey \in {NoPasskey, session}

(* The passkey a peer has to enter comes on a display that stays on. *)
Pairing == enabled /\ overlay = "Provisioning" /\ state.passkey # NoPasskey
PasskeyIsSeen == Pairing ~> (~Pairing \/ frame = {Picture})
=============================================================================
