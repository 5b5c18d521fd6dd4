----------------------------- MODULE SafetyModes -----------------------------
(***************************************************************************)
(* What the global state machine of DDIno promises its users, without the  *)
(* timers, causes and tasks that implement it (SafetyCore does).           *)
(*                                                                         *)
(* EMERGENCY is left for SAFE_OFF only, and only after an operator         *)
(* acknowledged that EMERGENCY: no lesser condition lowers it.  SAFE_OFF   *)
(* is left, other than by escalation, only for NORMAL and only when a      *)
(* restart sequence ends; a restart sequence begins only in SAFE_OFF and   *)
(* only after an operator acknowledged that SAFE_OFF.                      *)
(***************************************************************************)

VARIABLES
    mode,           \* the global state
    safeoffAcked,   \* an operator acknowledged the current SAFE_OFF
    emergencyAcked, \* an operator acknowledged the current EMERGENCY
    rearming        \* a restart sequence is under way

acks == <<safeoffAcked, emergencyAcked>>
vars == <<mode, acks, rearming>>

Modes == {"NORMAL", "DEGRADED", "SAFE_OFF", "EMERGENCY"}

TypeOK ==
    /\ mode \in Modes
    /\ safeoffAcked \in BOOLEAN
    /\ emergencyAcked \in BOOLEAN
    /\ rearming \in BOOLEAN

\* Boot ends in any state but EMERGENCY.
Init ==
    /\ mode \in Modes \ {"EMERGENCY"}
    /\ safeoffAcked = FALSE
    /\ emergencyAcked = FALSE
    /\ rearming = FALSE

\* Into SAFE_OFF: older acknowledgements of a SAFE_OFF count for nothing.
SafeOffAfresh ==
    /\ mode' = "SAFE_OFF"
    /\ safeoffAcked' = FALSE
    /\ UNCHANGED <<emergencyAcked, rearming>>

EnterSafeOff ==
    /\ mode \in {"NORMAL", "DEGRADED"}
    /\ SafeOffAfresh

\* The only way out of EMERGENCY.
StepDown ==
    /\ mode = "EMERGENCY"
    /\ emergencyAcked
    /\ SafeOffAfresh

EnterEmergency ==
    /\ mode # "EMERGENCY"
    /\ mode' = "EMERGENCY"
    /\ emergencyAcked' = FALSE
    /\ UNCHANGED <<safeoffAcked, rearming>>

\* The two unprotected modes follow the plant freely.
Drift ==
    /\ mode \in {"NORMAL", "DEGRADED"}
    /\ mode' \in {"NORMAL", "DEGRADED"}
    /\ UNCHANGED <<acks, rearming>>

\* A SAFE_OFF may be acknowledged alone, an EMERGENCY only with everything else.
Acknowledge ==
    /\ safeoffAcked' = TRUE
    /\ emergencyAcked' \in {emergencyAcked, TRUE}
    /\ UNCHANGED <<mode, rearming>>

BeginRearm ==
    /\ mode = "SAFE_OFF"
    /\ safeoffAcked
    /\ ~rearming
    /\ rearming' = TRUE
    /\ UNCHANGED <<mode, acks>>

AbandonRearm ==
    /\ rearming
    /\ rearming' = FALSE
    /\ UNCHANGED <<mode, acks>>

FinishRearm ==
    /\ mode = "SAFE_OFF"
    /\ rearming
    /\ rearming' = FALSE
    /\ mode' = "NORMAL"
    /\ UNCHANGED acks

Next ==
    \/ EnterSafeOff
    \/ StepDown
    \/ EnterEmergency
    \/ Drift
    \/ Acknowledge
    \/ BeginRearm
    \/ AbandonRearm
    \/ FinishRearm

Spec == Init /\ [][Next]_vars
=============================================================================
