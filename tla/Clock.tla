------------------------------- MODULE Clock --------------------------------
(***************************************************************************)
(* The time of a device: a real-time clock with a battery (rtc.cpp), which *)
(* seeds the system clock at start-up, and the network's time, which sets  *)
(* it once the device is connected and is written back (time_sync.cpp and  *)
(* the connected callback in main.cpp).                                    *)
(***************************************************************************)

VARIABLES
    chip,      \* does the chip answer on the bus?
    battery,   \* has it a battery that keeps it running?
    low,       \* its voltage-low flag, until its time is set
    held,      \* the time the chip holds
    present,   \* m_present
    clock,     \* the system clock
    synced,    \* m_synced
    asked,     \* has the network been asked for the time?
    pc,        \* where setup(), then the Wi-Fi task is
    kept       \* history: the time was written, and the battery has held since

chipVars == <<chip, battery, low, held>>
vars == <<chipVars, present, clock, synced, asked, pc, kept>>

Times ==
    {"epoch",    \* the system clock counts from 1970
     "stale",    \* a date that is plausible and not today's
     "right"}

Init ==
    /\ chip \in BOOLEAN /\ battery \in BOOLEAN /\ low \in BOOLEAN
    /\ held \in {"stale", "right"}
    /\ present = FALSE
    /\ clock = "epoch"
    /\ synced = FALSE /\ asked = FALSE
    /\ pc = "init"
    /\ kept = FALSE

-----------------------------------------------------------------------------
(* RealTimeClock::init() and seedSystemClock(), both called by setup(). *)
Probe ==
    /\ pc = "init"
    /\ present' = chip
    /\ pc' = "seed"
    /\ UNCHANGED <<chipVars, clock, synced, asked, kept>>

(* read() *)
Trusted == present /\ ~low

SeedSystemClock ==
    /\ pc = "seed"
    /\ clock' = IF Trusted THEN held ELSE clock
    /\ pc' = "run"
    /\ UNCHANGED <<chipVars, present, synced, asked, kept>>

(* The connected callback begins: sync() asks the network. *)
Connected ==
    /\ pc = "run"
    /\ asked' = TRUE
    /\ pc' = "sync"
    /\ UNCHANGED <<chipVars, present, clock, synced, kept>>

(* The answer, whenever it comes. *)
NetworkTime ==
    /\ asked
    /\ clock' = "right"
    /\ UNCHANGED <<chipVars, present, synced, asked, pc, kept>>

(* getLocalTime() waits for a plausible date, and a seeded clock has one. *)
SyncReturns ==
    /\ pc = "sync" /\ clock # "epoch"
    /\ synced' = TRUE
    /\ pc' = "write"
    /\ UNCHANGED <<chipVars, present, clock, asked, kept>>

SyncTimesOut ==
    /\ pc = "sync" /\ clock = "epoch"
    /\ pc' = "run"
    /\ UNCHANGED <<chipVars, present, clock, synced, asked, kept>>

(* write(): a clock that lost its power is not set. *)
Write ==
    /\ pc = "write"
    /\ held' = IF Trusted THEN clock ELSE held
    /\ kept' = (present /\ battery)
    /\ pc' = "run"
    /\ UNCHANGED <<chip, battery, low, present, clock, synced, asked>>

-----------------------------------------------------------------------------
(* The power goes, and comes again: without a battery the chip stops too. *)
PowerLoss ==
    /\ pc' = "init"
    /\ present' = FALSE /\ clock' = "epoch" /\ synced' = FALSE /\ asked' = FALSE
    /\ IF battery THEN UNCHANGED <<low, held>> ELSE low' = TRUE /\ held' = "stale"
    /\ UNCHANGED <<chip, battery, kept>>

(* The battery is taken out, or a new one put in, while the board has power. *)
ChangeBattery ==
    /\ pc = "run"
    /\ battery' = ~battery
    /\ kept' = FALSE
    /\ UNCHANGED <<chip, low, held, present, clock, synced, asked, pc>>

(* No crystal is exact. *)
Drift ==
    /\ held' = "stale"
    /\ UNCHANGED <<chip, battery, low, present, clock, synced, asked, pc, kept>>

Next ==
    \/ Probe \/ SeedSystemClock
    \/ Connected \/ NetworkTime \/ SyncReturns \/ SyncTimesOut \/ Write
    \/ PowerLoss \/ ChangeBattery \/ Drift

Spec == Init /\ [][Next]_vars

-----------------------------------------------------------------------------
(* A time written to a chip that init() found survives the next loss of power
   (rtc.hpp:24-25): while its battery holds, a device that starts again does
   not start in 1970. *)
SurvivesPowerLoss == pc = "run" /\ kept => clock # "epoch"
=============================================================================
