---------------------------- MODULE WifiLifecycle ----------------------------
(***************************************************************************)
(* What the Wi-Fi subsystem promises the rest of the firmware, without its *)
(* queue, timer, radio or storage: the device is booting, online, offline  *)
(* with a budget of retries, or asking its user for credentials.  It asks  *)
(* the user only at boot or once the whole budget is spent, and a budget   *)
(* spent is given back only by a success or by the user.                   *)
(***************************************************************************)
EXTENDS Naturals

CONSTANT MaxAttempts    \* retries before the user is asked

VARIABLES phase, used

vars == <<phase, used>>

Phases == {"booting", "online", "offline", "setup"}

TypeOK ==
    /\ phase \in Phases
    /\ used \in 0..MaxAttempts

Init ==
    /\ phase = "booting"
    /\ used = 0

(* A boot with credentials goes offline and tries; one without asks. *)
Boot ==
    /\ phase = "booting"
    /\ phase' \in {"offline", "setup"}
    /\ UNCHANGED used

Retry ==
    /\ phase = "offline"
    /\ used < MaxAttempts
    /\ used' = used + 1
    /\ UNCHANGED phase

Succeed ==
    /\ phase = "offline"
    /\ phase' = "online"
    /\ used' = 0

Lose ==
    /\ phase = "online"
    /\ phase' = "offline"
    /\ UNCHANGED used

GiveUp ==
    /\ phase = "offline"
    /\ used = MaxAttempts
    /\ phase' = "setup"
    /\ used' = 0

Configure ==
    /\ phase = "setup"
    /\ phase' = "offline"
    /\ UNCHANGED used

PowerCycle ==
    /\ phase' = "booting"
    /\ used' = 0

Next == Boot \/ Retry \/ Succeed \/ Lose \/ GiveUp \/ Configure \/ PowerCycle

Spec == Init /\ [][Next]_vars
=============================================================================
