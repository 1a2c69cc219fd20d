----------------------- MODULE DisplayControllerProofs -----------------------
(***************************************************************************)
(* What DisplayWakeups.cfg checks, proved.  NothingIsMissed needs no more  *)
(* than the types.  OverlayIsDue depends on which calls a task may still   *)
(* have to make: a button or a Wi-Fi task that took back its wish has only *)
(* the call left that takes back the overlay, and the passkey of a set-up  *)
(* is cleared before its overlay can show.                                 *)
(***************************************************************************)
EXTENDS DisplayController, TLAPS

StopCalls == <<Call("overlay", "None")>>

(* The calls a task may have still to make. *)
WifiCalls == {<<>>, StartCalls, <<Call("overlay", "Provisioning")>>, StopCalls}
HostCalls == {<<>>} \cup {<<Call("passkey", s)>> : s \in Sessions}
MqttCalls == {<<>>} \cup {<<Call("claimed", b)>> : b \in BOOLEAN}
ButtonCalls ==
    {<<>>, <<Call("overlay", "Claim")>>, StopCalls}
        \cup {<<Call("claimed", b), Call("overlay", "Claim")>> : b \in BOOLEAN}

TypeOK ==
    /\ available \in BOOLEAN
    /\ state \in [passkey : {NoPasskey} \cup Sessions, claimed : BOOLEAN]
    /\ overlay \in Overlays
    /\ enabled \in BOOLEAN
    /\ todo \in [Callers -> WifiCalls \cup HostCalls \cup MqttCalls \cup ButtonCalls]
    /\ todo["wifi"] \in WifiCalls
    /\ todo["host"] \in HostCalls
    /\ todo["mqtt"] \in MqttCalls
    /\ todo["button"] \in ButtonCalls
    /\ caller \in [Callers -> {"idle", "written"}]
    /\ switch \in {"idle", "enabled"}
    /\ notified \in BOOLEAN
    /\ task \in {"wait", "render"}
    /\ settingUp \in BOOLEAN
    /\ session \in Sessions
    /\ showing \in BOOLEAN
    /\ claimed \in BOOLEAN

(* A wish taken back leaves one call, and one that stands none that would. *)
WishesAgree ==
    /\ todo["wifi"] = StopCalls => ~settingUp
    /\ todo["wifi"] \in {StartCalls, <<Call("overlay", "Provisioning")>>} => settingUp
    /\ todo["button"] = StopCalls => ~showing
    /\ todo["button"] \notin {<<>>, StopCalls} => showing

(* The passkey of an earlier set-up is gone before the overlay comes. *)
PasskeyIsFresh ==
    /\ todo["host"] \in {<<>>, <<Call("passkey", session)>>}
    /\ todo["wifi"] = StartCalls => overlay # "Provisioning" /\ todo["host"] = <<>>
    /\ todo["wifi"] = <<Call("overlay", "Provisioning")>> =>
          state.passkey = NoPasskey /\ todo["host"] = <<>>
    /\ settingUp /\ todo["wifi"] = <<>> => state.passkey \in {NoPasskey, session}

IInv ==
    /\ TypeOK
    /\ WishesAgree
    /\ PasskeyIsFresh
    /\ OverlayIsDue
    /\ NothingIsMissed

-----------------------------------------------------------------------------
(* The initial state, where nothing is enabled, pending or shown. *)
LEMMA InitIInv ==
    ASSUME Init
    PROVE  IInv
<1>1. TypeOK
  <2>1. state \in [passkey : {NoPasskey} \cup Sessions, claimed : BOOLEAN]
    BY DEF Init, InitialState
  <2>2. /\ todo \in [Callers -> WifiCalls \cup HostCalls \cup MqttCalls \cup ButtonCalls]
        /\ todo["wifi"] \in WifiCalls
        /\ todo["host"] \in HostCalls
        /\ todo["mqtt"] \in MqttCalls
        /\ todo["button"] \in ButtonCalls
    BY DEF Init, WifiCalls, HostCalls, MqttCalls, ButtonCalls, Callers
  <2>3. /\ caller \in [Callers -> {"idle", "written"}]
        /\ overlay \in Overlays
        /\ session \in Sessions
    BY DEF Init, Overlays
  <2> QED
    BY <2>1, <2>2, <2>3 DEF Init, TypeOK
<1>2. WishesAgree
  BY DEF Init, WishesAgree, StopCalls, StartCalls, Callers
<1>3. PasskeyIsFresh
  BY DEF Init, PasskeyIsFresh, StartCalls, Callers
<1>4. OverlayIsDue /\ NothingIsMissed
  BY DEF Init, OverlayIsDue, NothingIsMissed
<1> QED
  BY <1>1, <1>2, <1>3, <1>4 DEF IInv

-----------------------------------------------------------------------------
(* What a setter does: it makes the first of the calls its task has to make. *)

LEMMA WifiSets ==
    ASSUME TypeOK, Setter("wifi")
    PROVE  \/ /\ todo["wifi"] = StartCalls
              /\ todo' = [todo EXCEPT !["wifi"] = <<Call("overlay", "Provisioning")>>]
              /\ state' = [state EXCEPT !["passkey"] = NoPasskey]
              /\ UNCHANGED overlay
           \/ /\ todo["wifi"] = <<Call("overlay", "Provisioning")>>
              /\ todo' = [todo EXCEPT !["wifi"] = <<>>]
              /\ overlay' = "Provisioning"
              /\ UNCHANGED state
           \/ /\ todo["wifi"] = StopCalls
              /\ todo' = [todo EXCEPT !["wifi"] = <<>>]
              /\ overlay' = "None"
              /\ UNCHANGED state
<1>1. todo["wifi"] \in {StartCalls, <<Call("overlay", "Provisioning")>>, StopCalls}
  BY DEF TypeOK, WifiCalls, Setter, UpdateState, SetActiveOverlay, Calling
<1>2. CASE todo["wifi"] = StartCalls
  BY <1>2 DEF Setter, UpdateState, SetActiveOverlay, Calling, Written, StartCalls, Call
<1>3. CASE todo["wifi"] = <<Call("overlay", "Provisioning")>>
  BY <1>3 DEF TypeOK, Setter, UpdateState, SetActiveOverlay, Calling, Written, Call
<1>4. CASE todo["wifi"] = StopCalls
  BY <1>4 DEF TypeOK, Setter, UpdateState, SetActiveOverlay, Calling, Written, StopCalls, Call
<1> QED
  BY <1>1, <1>2, <1>3, <1>4

LEMMA HostSets ==
    ASSUME TypeOK, Setter("host")
    PROVE  /\ todo["host"] # <<>>
           /\ todo' = [todo EXCEPT !["host"] = <<>>]
           /\ \E s \in Sessions : /\ todo["host"] = <<Call("passkey", s)>>
                                 /\ state' = [state EXCEPT !["passkey"] = s]
           /\ UNCHANGED overlay
<1>1. PICK s \in Sessions : todo["host"] = <<Call("passkey", s)>>
  BY DEF TypeOK, Setter, UpdateState, SetActiveOverlay, Calling, HostCalls
<1> QED
  BY <1>1 DEF TypeOK, Setter, UpdateState, SetActiveOverlay, Calling, Written, Call

LEMMA MqttSets ==
    ASSUME TypeOK, Setter("mqtt")
    PROVE  /\ todo' = [todo EXCEPT !["mqtt"] = <<>>]
           /\ \E b \in BOOLEAN : state' = [state EXCEPT !["claimed"] = b]
           /\ UNCHANGED overlay
<1>1. PICK b \in BOOLEAN : todo["mqtt"] = <<Call("claimed", b)>>
  BY DEF TypeOK, Setter, UpdateState, SetActiveOverlay, Calling, MqttCalls
<1> QED
  BY <1>1 DEF TypeOK, Setter, UpdateState, SetActiveOverlay, Calling, Written, Call

LEMMA ButtonSets ==
    ASSUME TypeOK, Setter("button")
    PROVE  \/ \E b \in BOOLEAN :
                 /\ todo["button"] = <<Call("claimed", b), Call("overlay", "Claim")>>
                 /\ todo' = [todo EXCEPT !["button"] = <<Call("overlay", "Claim")>>]
                 /\ state' = [state EXCEPT !["claimed"] = b]
                 /\ UNCHANGED overlay
           \/ /\ todo["button"] = <<Call("overlay", "Claim")>>
              /\ todo' = [todo EXCEPT !["button"] = <<>>]
              /\ overlay' = "Claim"
              /\ UNCHANGED state
           \/ /\ todo["button"] = StopCalls
              /\ todo' = [todo EXCEPT !["button"] = <<>>]
              /\ overlay' = "None"
              /\ UNCHANGED state
<1>1. \/ todo["button"] \in {<<Call("overlay", "Claim")>>, StopCalls}
      \/ \E b \in BOOLEAN : todo["button"] = <<Call("claimed", b), Call("overlay", "Claim")>>
  BY DEF TypeOK, Setter, UpdateState, SetActiveOverlay, Calling, ButtonCalls
<1>2. CASE \E b \in BOOLEAN : todo["button"] = <<Call("claimed", b), Call("overlay", "Claim")>>
  <2>1. PICK b \in BOOLEAN : todo["button"] = <<Call("claimed", b), Call("overlay", "Claim")>>
    BY <1>2
  <2> QED
    BY <2>1 DEF TypeOK, Setter, UpdateState, SetActiveOverlay, Calling, Written, Call
<1>3. CASE todo["button"] = <<Call("overlay", "Claim")>>
  BY <1>3 DEF TypeOK, Setter, UpdateState, SetActiveOverlay, Calling, Written, Call
<1>4. CASE todo["button"] = StopCalls
  BY <1>4 DEF TypeOK, Setter, UpdateState, SetActiveOverlay, Calling, Written, StopCalls, Call
<1> QED
  BY <1>1, <1>2, <1>3, <1>4

(* What all setters leave alone, and what they leave behind. *)
LEMMA SetterFrame ==
    ASSUME TypeOK, NEW c \in Callers, Setter(c)
    PROVE  /\ UNCHANGED <<available, screenVars, callerVars>>
           /\ caller' = [caller EXCEPT ![c] = "written"]
BY DEF TypeOK, Setter, UpdateState, SetActiveOverlay, Calling, Written

LEMMA WifiSetterKeeps ==
    ASSUME IInv, Setter("wifi")
    PROVE  IInv'
<1>1. UNCHANGED <<available, screenVars, callerVars>> /\ caller' = [caller EXCEPT !["wifi"] = "written"]
  BY SetterFrame DEF IInv, Callers
<1>2. \/ /\ todo["wifi"] = StartCalls
         /\ todo' = [todo EXCEPT !["wifi"] = <<Call("overlay", "Provisioning")>>]
         /\ state' = [state EXCEPT !["passkey"] = NoPasskey]
         /\ UNCHANGED overlay
      \/ /\ todo["wifi"] = <<Call("overlay", "Provisioning")>>
         /\ todo' = [todo EXCEPT !["wifi"] = <<>>]
         /\ overlay' = "Provisioning"
         /\ UNCHANGED state
      \/ /\ todo["wifi"] = StopCalls
         /\ todo' = [todo EXCEPT !["wifi"] = <<>>]
         /\ overlay' = "None"
         /\ UNCHANGED state
  BY WifiSets DEF IInv
<1>3. TypeOK'
  <2>1. state' \in [passkey : {NoPasskey} \cup Sessions, claimed : BOOLEAN] /\ overlay' \in Overlays
    BY <1>1, <1>2 DEF IInv, TypeOK, Overlays
  <2>2. /\ todo' \in [Callers -> WifiCalls \cup HostCalls \cup MqttCalls \cup ButtonCalls]
        /\ todo'["wifi"] \in WifiCalls
        /\ todo'["host"] \in HostCalls
        /\ todo'["mqtt"] \in MqttCalls
        /\ todo'["button"] \in ButtonCalls
    BY <1>1, <1>2 DEF IInv, TypeOK, Callers, WifiCalls, HostCalls, MqttCalls, ButtonCalls
  <2>3. caller' \in [Callers -> {"idle", "written"}]
    BY <1>1 DEF IInv, TypeOK
  <2> QED
    BY <1>1, <2>1, <2>2, <2>3 DEF IInv, TypeOK, screenVars, callerVars
<1>4. WishesAgree'
  BY <1>1, <1>2
     DEF IInv, TypeOK, WishesAgree, callerVars, Callers, WifiCalls, StartCalls, StopCalls, Call
<1>5. PasskeyIsFresh'
  BY <1>1, <1>2 DEF IInv, TypeOK, WishesAgree, PasskeyIsFresh, callerVars, Callers, StartCalls
<1>6. OverlayIsDue'
  BY <1>1, <1>2
     DEF IInv, TypeOK, WishesAgree, PasskeyIsFresh, OverlayIsDue, callerVars, Callers,
         StartCalls, StopCalls, Call
<1>7. NothingIsMissed'
  BY <1>1 DEF IInv, TypeOK, NothingIsMissed, Callers
<1> QED
  BY <1>3, <1>4, <1>5, <1>6, <1>7 DEF IInv

LEMMA HostSetterKeeps ==
    ASSUME IInv, Setter("host")
    PROVE  IInv'
<1>1. UNCHANGED <<available, screenVars, callerVars>> /\ caller' = [caller EXCEPT !["host"] = "written"]
  BY SetterFrame DEF IInv, Callers
<1>2. /\ todo["host"] # <<>>
      /\ todo' = [todo EXCEPT !["host"] = <<>>]
      /\ \E s \in Sessions : /\ todo["host"] = <<Call("passkey", s)>>
                            /\ state' = [state EXCEPT !["passkey"] = s]
      /\ UNCHANGED overlay
  BY HostSets DEF IInv
<1>3. TypeOK'
  <2>1. state' \in [passkey : {NoPasskey} \cup Sessions, claimed : BOOLEAN] /\ overlay' \in Overlays
    BY <1>1, <1>2 DEF IInv, TypeOK, Overlays
  <2>2. /\ todo' \in [Callers -> WifiCalls \cup HostCalls \cup MqttCalls \cup ButtonCalls]
        /\ todo'["wifi"] \in WifiCalls
        /\ todo'["host"] \in HostCalls
        /\ todo'["mqtt"] \in MqttCalls
        /\ todo'["button"] \in ButtonCalls
    BY <1>1, <1>2 DEF IInv, TypeOK, Callers, WifiCalls, HostCalls, MqttCalls, ButtonCalls
  <2>3. caller' \in [Callers -> {"idle", "written"}]
    BY <1>1 DEF IInv, TypeOK
  <2> QED
    BY <1>1, <2>1, <2>2, <2>3 DEF IInv, TypeOK, screenVars, callerVars
<1>4. WishesAgree'
  BY <1>1, <1>2 DEF IInv, WishesAgree, callerVars
<1>5. PasskeyIsFresh'
  BY <1>1, <1>2 DEF IInv, TypeOK, PasskeyIsFresh, callerVars, Call
<1>6. OverlayIsDue'
  BY <1>1, <1>2 DEF IInv, PasskeyIsFresh, OverlayIsDue, callerVars, Call
<1>7. NothingIsMissed'
  BY <1>1 DEF IInv, TypeOK, NothingIsMissed, Callers
<1> QED
  BY <1>3, <1>4, <1>5, <1>6, <1>7 DEF IInv

LEMMA MqttSetterKeeps ==
    ASSUME IInv, Setter("mqtt")
    PROVE  IInv'
<1>1. UNCHANGED <<available, screenVars, callerVars>> /\ caller' = [caller EXCEPT !["mqtt"] = "written"]
  BY SetterFrame DEF IInv, Callers
<1>2. /\ todo' = [todo EXCEPT !["mqtt"] = <<>>]
      /\ \E b \in BOOLEAN : state' = [state EXCEPT !["claimed"] = b]
      /\ UNCHANGED overlay
  BY MqttSets DEF IInv
<1>3. TypeOK'
  <2>1. state' \in [passkey : {NoPasskey} \cup Sessions, claimed : BOOLEAN] /\ overlay' \in Overlays
    BY <1>1, <1>2 DEF IInv, TypeOK, Overlays
  <2>2. /\ todo' \in [Callers -> WifiCalls \cup HostCalls \cup MqttCalls \cup ButtonCalls]
        /\ todo'["wifi"] \in WifiCalls
        /\ todo'["host"] \in HostCalls
        /\ todo'["mqtt"] \in MqttCalls
        /\ todo'["button"] \in ButtonCalls
    BY <1>1, <1>2 DEF IInv, TypeOK, Callers, WifiCalls, HostCalls, MqttCalls, ButtonCalls
  <2>3. caller' \in [Callers -> {"idle", "written"}]
    BY <1>1 DEF IInv, TypeOK
  <2> QED
    BY <1>1, <2>1, <2>2, <2>3 DEF IInv, TypeOK, screenVars, callerVars
<1>4. WishesAgree'
  BY <1>1, <1>2 DEF IInv, WishesAgree, callerVars
<1>5. PasskeyIsFresh'
  BY <1>1, <1>2 DEF IInv, PasskeyIsFresh, callerVars
<1>6. OverlayIsDue'
  BY <1>1, <1>2 DEF IInv, OverlayIsDue, callerVars
<1>7. NothingIsMissed'
  BY <1>1 DEF IInv, TypeOK, NothingIsMissed, Callers
<1> QED
  BY <1>3, <1>4, <1>5, <1>6, <1>7 DEF IInv

LEMMA ButtonSetterKeeps ==
    ASSUME IInv, Setter("button")
    PROVE  IInv'
<1>1. UNCHANGED <<available, screenVars, callerVars>> /\ caller' = [caller EXCEPT !["button"] = "written"]
  BY SetterFrame DEF IInv, Callers
<1>2. \/ \E b \in BOOLEAN :
            /\ todo["button"] = <<Call("claimed", b), Call("overlay", "Claim")>>
            /\ todo' = [todo EXCEPT !["button"] = <<Call("overlay", "Claim")>>]
            /\ state' = [state EXCEPT !["claimed"] = b]
            /\ UNCHANGED overlay
      \/ /\ todo["button"] = <<Call("overlay", "Claim")>>
         /\ todo' = [todo EXCEPT !["button"] = <<>>]
         /\ overlay' = "Claim"
         /\ UNCHANGED state
      \/ /\ todo["button"] = StopCalls
         /\ todo' = [todo EXCEPT !["button"] = <<>>]
         /\ overlay' = "None"
         /\ UNCHANGED state
  BY ButtonSets DEF IInv
<1>3. TypeOK'
  <2>1. state' \in [passkey : {NoPasskey} \cup Sessions, claimed : BOOLEAN] /\ overlay' \in Overlays
    BY <1>1, <1>2 DEF IInv, TypeOK, Overlays
  <2>2. /\ todo' \in [Callers -> WifiCalls \cup HostCalls \cup MqttCalls \cup ButtonCalls]
        /\ todo'["wifi"] \in WifiCalls
        /\ todo'["host"] \in HostCalls
        /\ todo'["mqtt"] \in MqttCalls
        /\ todo'["button"] \in ButtonCalls
    BY <1>1, <1>2 DEF IInv, TypeOK, Callers, WifiCalls, HostCalls, MqttCalls, ButtonCalls
  <2>3. caller' \in [Callers -> {"idle", "written"}]
    BY <1>1 DEF IInv, TypeOK
  <2> QED
    BY <1>1, <2>1, <2>2, <2>3 DEF IInv, TypeOK, screenVars, callerVars
<1>4. WishesAgree'
  BY <1>1, <1>2 DEF IInv, TypeOK, WishesAgree, callerVars, Callers, StopCalls, Call
<1>5. PasskeyIsFresh'
  BY <1>1, <1>2 DEF IInv, TypeOK, PasskeyIsFresh, callerVars, Callers
<1>6. OverlayIsDue'
  BY <1>1, <1>2
     DEF IInv, TypeOK, WishesAgree, OverlayIsDue, callerVars, Callers, StopCalls, Call
<1>7. NothingIsMissed'
  BY <1>1 DEF IInv, TypeOK, NothingIsMissed, Callers
<1> QED
  BY <1>3, <1>4, <1>5, <1>6, <1>7 DEF IInv

-----------------------------------------------------------------------------
(* The callers, the switch and the display task. *)

LEMMA StartsProvisioning ==
    ASSUME IInv, StartProvisioning
    PROVE  IInv'
<1>1. TypeOK'
  <2>1. /\ todo' \in [Callers -> WifiCalls \cup HostCalls \cup MqttCalls \cup ButtonCalls]
        /\ todo'["wifi"] \in WifiCalls
        /\ todo'["host"] \in HostCalls
        /\ todo'["mqtt"] \in MqttCalls
        /\ todo'["button"] \in ButtonCalls
    BY DEF IInv, TypeOK, StartProvisioning, Makes, Callers, WifiCalls
  <2>2. /\ settingUp' \in BOOLEAN /\ showing' \in BOOLEAN /\ claimed' \in BOOLEAN
        /\ session' \in Sessions
    BY DEF IInv, TypeOK, StartProvisioning, callerVars
  <2> QED
    BY <2>1, <2>2 DEF IInv, TypeOK, StartProvisioning, Makes, stateVars, screenVars
<1>2. WishesAgree'
  BY DEF IInv, WishesAgree, StartProvisioning, Makes, StartCalls, StopCalls
<1>3. PasskeyIsFresh'
  BY DEF IInv, TypeOK, PasskeyIsFresh, OverlayIsDue, Callers, StartProvisioning, Makes,
         stateVars, StartCalls
<1>4. OverlayIsDue'
  BY DEF IInv, OverlayIsDue, StartProvisioning, Makes, stateVars
<1>5. NothingIsMissed'
  BY DEF IInv, NothingIsMissed, Picture, StartProvisioning, Makes, stateVars, screenVars
<1> QED
  BY <1>1, <1>2, <1>3, <1>4, <1>5 DEF IInv

LEMMA StopsProvisioning ==
    ASSUME IInv, StopProvisioning
    PROVE  IInv'
<1>1. TypeOK'
  <2>1. /\ todo' \in [Callers -> WifiCalls \cup HostCalls \cup MqttCalls \cup ButtonCalls]
        /\ todo'["wifi"] \in WifiCalls
        /\ todo'["host"] \in HostCalls
        /\ todo'["mqtt"] \in MqttCalls
        /\ todo'["button"] \in ButtonCalls
    BY DEF IInv, TypeOK, StopProvisioning, Makes, StopCalls, Callers, WifiCalls
  <2>2. /\ settingUp' \in BOOLEAN /\ showing' \in BOOLEAN /\ claimed' \in BOOLEAN
        /\ session' \in Sessions
    BY DEF IInv, TypeOK, StopProvisioning, callerVars
  <2> QED
    BY <2>1, <2>2 DEF IInv, TypeOK, StopProvisioning, Makes, stateVars, screenVars
<1>2. WishesAgree'
  BY DEF IInv, WishesAgree, StopProvisioning, Makes, Call, StartCalls
<1>3. PasskeyIsFresh'
  BY DEF IInv, PasskeyIsFresh, StopProvisioning, Makes, Call, StartCalls
<1>4. OverlayIsDue'
  BY DEF IInv, TypeOK, OverlayIsDue, Callers, StopProvisioning, Makes, stateVars
<1>5. NothingIsMissed'
  BY DEF IInv, NothingIsMissed, Picture, StopProvisioning, Makes, stateVars, screenVars
<1> QED
  BY <1>1, <1>2, <1>3, <1>4, <1>5 DEF IInv

LEMMA DisplaysPasskey ==
    ASSUME IInv, PasskeyDisplay
    PROVE  IInv'
<1>1. TypeOK'
  <2>1. /\ todo' \in [Callers -> WifiCalls \cup HostCalls \cup MqttCalls \cup ButtonCalls]
        /\ todo'["wifi"] \in WifiCalls
        /\ todo'["host"] \in HostCalls
        /\ todo'["mqtt"] \in MqttCalls
        /\ todo'["button"] \in ButtonCalls
    BY DEF IInv, TypeOK, PasskeyDisplay, Makes, Callers, HostCalls
  <2>2. /\ settingUp' \in BOOLEAN /\ showing' \in BOOLEAN /\ claimed' \in BOOLEAN
        /\ session' \in Sessions
    BY DEF IInv, TypeOK, PasskeyDisplay, callerVars
  <2> QED
    BY <2>1, <2>2 DEF IInv, TypeOK, PasskeyDisplay, Makes, stateVars, screenVars
<1>2. WishesAgree'
  BY DEF IInv, WishesAgree, PasskeyDisplay, Makes, callerVars
<1>3. PasskeyIsFresh'
  BY DEF IInv, WishesAgree, PasskeyIsFresh, PasskeyDisplay, Makes, stateVars, callerVars, Call,
         StartCalls
<1>4. OverlayIsDue'
  BY DEF IInv, OverlayIsDue, PasskeyDisplay, Makes, stateVars, callerVars
<1>5. NothingIsMissed'
  BY DEF IInv, NothingIsMissed, Picture, PasskeyDisplay, Makes, stateVars, screenVars
<1> QED
  BY <1>1, <1>2, <1>3, <1>4, <1>5 DEF IInv

LEMMA SetsClaimed ==
    ASSUME IInv, NEW b \in BOOLEAN, SetClaimed(b)
    PROVE  IInv'
<1>1. TypeOK'
  <2>1. /\ todo' \in [Callers -> WifiCalls \cup HostCalls \cup MqttCalls \cup ButtonCalls]
        /\ todo'["wifi"] \in WifiCalls
        /\ todo'["host"] \in HostCalls
        /\ todo'["mqtt"] \in MqttCalls
        /\ todo'["button"] \in ButtonCalls
    BY DEF IInv, TypeOK, SetClaimed, Makes, Callers, MqttCalls
  <2>2. /\ settingUp' \in BOOLEAN /\ showing' \in BOOLEAN /\ claimed' \in BOOLEAN
        /\ session' \in Sessions
    BY DEF IInv, TypeOK, SetClaimed, callerVars
  <2> QED
    BY <2>1, <2>2 DEF IInv, TypeOK, SetClaimed, Makes, stateVars, screenVars
<1>2. WishesAgree'
  BY DEF IInv, WishesAgree, SetClaimed, Makes
<1>3. PasskeyIsFresh'
  BY DEF IInv, PasskeyIsFresh, SetClaimed, Makes, stateVars
<1>4. OverlayIsDue'
  BY DEF IInv, OverlayIsDue, SetClaimed, Makes, stateVars
<1>5. NothingIsMissed'
  BY DEF IInv, NothingIsMissed, Picture, SetClaimed, Makes, stateVars, screenVars
<1> QED
  BY <1>1, <1>2, <1>3, <1>4, <1>5 DEF IInv

LEMMA Shows ==
    ASSUME IInv, Show
    PROVE  IInv'
<1>1. TypeOK'
  <2>1. /\ todo' \in [Callers -> WifiCalls \cup HostCalls \cup MqttCalls \cup ButtonCalls]
        /\ todo'["wifi"] \in WifiCalls
        /\ todo'["host"] \in HostCalls
        /\ todo'["mqtt"] \in MqttCalls
        /\ todo'["button"] \in ButtonCalls
    BY DEF IInv, TypeOK, Show, Makes, Callers, ButtonCalls
  <2>2. /\ settingUp' \in BOOLEAN /\ showing' \in BOOLEAN /\ claimed' \in BOOLEAN
        /\ session' \in Sessions
    BY DEF IInv, TypeOK, Show, callerVars
  <2> QED
    BY <2>1, <2>2 DEF IInv, TypeOK, Show, Makes, stateVars, screenVars
<1>2. WishesAgree'
  BY DEF IInv, TypeOK, WishesAgree, Callers, Show, Makes, stateVars, StopCalls
<1>3. PasskeyIsFresh'
  BY DEF IInv, PasskeyIsFresh, Show, Makes, stateVars
<1>4. OverlayIsDue'
  BY DEF IInv, OverlayIsDue, Show, Makes, stateVars
<1>5. NothingIsMissed'
  BY DEF IInv, NothingIsMissed, Picture, Show, Makes, stateVars, screenVars
<1> QED
  BY <1>1, <1>2, <1>3, <1>4, <1>5 DEF IInv

LEMMA Hides ==
    ASSUME IInv, Hide
    PROVE  IInv'
<1>1. TypeOK'
  <2>1. /\ todo' \in [Callers -> WifiCalls \cup HostCalls \cup MqttCalls \cup ButtonCalls]
        /\ todo'["wifi"] \in WifiCalls
        /\ todo'["host"] \in HostCalls
        /\ todo'["mqtt"] \in MqttCalls
        /\ todo'["button"] \in ButtonCalls
    BY DEF IInv, TypeOK, Hide, Makes, StopCalls, Callers, ButtonCalls
  <2>2. /\ settingUp' \in BOOLEAN /\ showing' \in BOOLEAN /\ claimed' \in BOOLEAN
        /\ session' \in Sessions
    BY DEF IInv, TypeOK, Hide, callerVars
  <2> QED
    BY <2>1, <2>2 DEF IInv, TypeOK, Hide, Makes, stateVars, screenVars
<1>2. WishesAgree'
  BY DEF IInv, WishesAgree, Hide, Makes, StopCalls
<1>3. PasskeyIsFresh'
  BY DEF IInv, PasskeyIsFresh, Hide, Makes, stateVars
<1>4. OverlayIsDue'
  BY DEF IInv, TypeOK, OverlayIsDue, Callers, Hide, Makes, stateVars
<1>5. NothingIsMissed'
  BY DEF IInv, NothingIsMissed, Picture, Hide, Makes, stateVars, screenVars
<1> QED
  BY <1>1, <1>2, <1>3, <1>4, <1>5 DEF IInv

(* The steps that make no call: they change neither what is pending nor what is
   shown, so that only NothingIsMissed is at stake. *)
LEMMA NoCall ==
    ASSUME IInv, UNCHANGED <<available, stateVars, callerVars, todo>>,
           caller' \in [Callers -> {"idle", "written"}],
           switch' \in {"idle", "enabled"}, task' \in {"wait", "render"},
           enabled' \in BOOLEAN, notified' \in BOOLEAN,
           NothingIsMissed'
    PROVE  IInv'
<1>1. TypeOK'
  BY DEF IInv, TypeOK, stateVars, callerVars
<1>2. WishesAgree' /\ PasskeyIsFresh' /\ OverlayIsDue'
  BY DEF IInv, WishesAgree, PasskeyIsFresh, OverlayIsDue, stateVars, callerVars
<1> QED
  BY <1>1, <1>2 DEF IInv

LEMMA CallerNotifies ==
    ASSUME IInv, NEW c \in Callers, NotifyIfEnabled(c)
    PROVE  IInv'
<1>1. notified' \in BOOLEAN
  BY DEF IInv, TypeOK, NotifyIfEnabled
<1>2. NothingIsMissed'
  BY DEF IInv, TypeOK, NothingIsMissed, Picture, NotifyIfEnabled, stateVars
<1> QED
  BY <1>1, <1>2, NoCall DEF IInv, TypeOK, NotifyIfEnabled

LEMMA SwitchTurns ==
    ASSUME IInv, EnableDisplay \/ EnableNotifies \/ DisableDisplay
    PROVE  IInv'
<1>1. NothingIsMissed'
  BY DEF NothingIsMissed, EnableDisplay, EnableNotifies, DisableDisplay
<1> QED
  BY <1>1, NoCall DEF IInv, TypeOK, EnableDisplay, EnableNotifies, DisableDisplay

LEMMA TaskRuns ==
    ASSUME IInv, Wait \/ Render
    PROVE  IInv'
<1>1. NothingIsMissed'
  BY DEF IInv, NothingIsMissed, Picture, Wait, Render, stateVars
<1> QED
  BY <1>1, NoCall DEF IInv, TypeOK, Wait, Render

LEMMA Stutters ==
    ASSUME IInv, UNCHANGED vars
    PROVE  IInv'
<1>1. NothingIsMissed'
  BY DEF IInv, NothingIsMissed, Picture, vars, stateVars, screenVars
<1> QED
  BY <1>1, NoCall DEF IInv, TypeOK, vars, screenVars

LEMMA NextIInv ==
    ASSUME IInv, [Next]_vars
    PROVE  IInv'
<1>1. ASSUME NEW c \in Callers, Setter(c)
      PROVE  IInv'
  BY <1>1, WifiSetterKeeps, HostSetterKeeps, MqttSetterKeeps, ButtonSetterKeeps DEF Callers
<1>2. ASSUME NEW c \in Callers, NotifyIfEnabled(c)
      PROVE  IInv'
  BY <1>2, CallerNotifies
<1>3. CASE Environment
  BY <1>3, StartsProvisioning, StopsProvisioning, DisplaysPasskey, SetsClaimed, Shows, Hides
     DEF Environment
<1>4. CASE EnableDisplay \/ EnableNotifies \/ DisableDisplay
  BY <1>4, SwitchTurns
<1>5. CASE Wait \/ Render
  BY <1>5, TaskRuns
<1>6. CASE NotAvailable \/ UNCHANGED vars
  BY <1>6, Stutters DEF NotAvailable
<1> QED
  BY <1>1, <1>2, <1>3, <1>4, <1>5, <1>6 DEF Next

LEMMA Invariance == Spec => []IInv
<1> QED
  BY InitIInv, NextIInv, PTL DEF Spec

(* No change of what the display shows is missed while it is enabled, whatever
   the order in which setters look at m_enabled and the switch is turned. *)
THEOREM NoWakeupLost == Spec => []NothingIsMissed
<1>1. IInv => NothingIsMissed
  BY DEF IInv
<1> QED
  BY <1>1, Invariance, PTL

(* No overlay outlives the wish of the task that shows it, and no set-up shows
   the passkey of an earlier one, though two tasks share the overlay. *)
THEOREM OverlayOnDemand == Spec => []OverlayIsDue
<1>1. IInv => OverlayIsDue
  BY DEF IInv
<1> QED
  BY <1>1, Invariance, PTL
=============================================================================
