--------------------------- MODULE SafetyCoreProofs ---------------------------
(***************************************************************************)
(* SafetyCore for every second length, stabilisation time and request mix: *)
(* typing, the agreement of cause, power and mode, the confinement of the  *)
(* restart sequence, and the implementation of SafetyModes.                *)
(***************************************************************************)
EXTENDS SafetyCore, TLAPS

\* An age may be unset or zero, whatever the bound on the ages.
LEMMA AgeBounds == NotGone \in Ages /\ 0 \in Ages
<1>1. CoreAgeCap \in Nat
  BY TimingAssumption, SMT DEF CoreAgeCap
<1>2. QED
  BY <1>1, SMT DEF Ages, NotGone

\* The ages and the tick stay in range as time passes.
LEMMA ClockTypes ==
    ASSUME CoreTypeOK
    PROVE  /\ \A age \in Ages : Older(age) \in Ages
           /\ (tick + 1) % TicksPerSec \in 0 .. TicksPerSec - 1
<1>1. CoreAgeCap \in Nat
  BY TimingAssumption, SMT DEF CoreAgeCap
<1>2. \A age \in Ages : Older(age) \in Ages
  BY <1>1, SMT DEF Ages, NotGone, Older
<1>3. (tick + 1) % TicksPerSec \in 0 .. TicksPerSec - 1
  BY TimingAssumption, SMT DEF CoreTypeOK
<1>4. QED
  BY <1>2, <1>3

\* The variables that the mode handlers write.
GlobalsTyped ==
    /\ mode' \in Modes
    /\ reason' \in Reasons
    /\ source' \in Sources
    /\ electricOk' \in BOOLEAN
    /\ safeoffAck' \in BOOLEAN
    /\ emergencyAck' \in BOOLEAN

\* The four handlers that change the mode keep the types of what they write.
LEMMA HandlerTypes ==
    ASSUME CoreTypeOK
    PROVE  /\ \A r \in Reasons, alm \in Sources : EnterSafeoff(r, alm) => GlobalsTyped
           /\ \A alm \in Sources : EnterEmergency(alm) => GlobalsTyped
           /\ EnterDegraded => GlobalsTyped
           /\ EnterNormal => GlobalsTyped
           /\ UNCHANGED <<globals, acks>> => GlobalsTyped
<1> USE DEF CoreTypeOK, GlobalsTyped
<1>1. UNCHANGED <<globals, acks>> => GlobalsTyped
  BY DEF globals, acks
<1>2. \A r \in Reasons, alm \in Sources : EnterSafeoff(r, alm) => GlobalsTyped
  BY <1>1 DEF EnterSafeoff, Modes
<1>3. \A alm \in Sources : EnterEmergency(alm) => GlobalsTyped
  BY <1>1 DEF EnterEmergency, Modes
<1>4. EnterDegraded => GlobalsTyped
  BY DEF EnterDegraded, acks, Modes
<1>5. EnterNormal => GlobalsTyped
  BY DEF EnterNormal, acks, Modes, Reasons, Sources
<1>6. QED
  BY <1>1, <1>2, <1>3, <1>4, <1>5

\* Type correctness, for every instance of the constants.
THEOREM CoreTypeCorrect == CoreSpec => []CoreTypeOK
<1>1. CoreInit => CoreTypeOK
  BY AgeBounds DEF CoreInit, CoreTypeOK, Modes, Reasons, Sources, Locations
<1>2. CoreTypeOK /\ [CoreNext]_coreVars => CoreTypeOK'
  <2> SUFFICES ASSUME CoreTypeOK, [CoreNext]_coreVars PROVE CoreTypeOK'
    OBVIOUS
  <2> USE AgeBounds, ClockTypes, HandlerTypes DEF CoreTypeOK, GlobalsTyped
  <2>1. CASE Watchdog
    BY <2>1 DEF Watchdog, Reasons, Sources, Locations, restart, thermal, timers
  <2>2. CASE EmergencyExit
    BY <2>2 DEF EmergencyExit, Reasons, Sources, Locations, restart, Since
  <2>3. CASE SkipEmergencyExit
    BY <2>3 DEF SkipEmergencyExit, Locations, restart, thermal, timers
  <2>4. CASE FinishRestart
    BY <2>4 DEF FinishRestart, SafeoffExit, CauseResolved, Since, Locations, thermal
  <2>5. CASE LoseConditions
    BY <2>5 DEF LoseConditions, SafeoffExit, CauseResolved, Since, Locations, thermal
  <2>6. CASE AdvanceRestart
    BY <2>6 DEF AdvanceRestart, SafeoffExit, CauseResolved, Since, Locations, thermal, restart
  <2>7. CASE ConsiderRestart
    BY <2>7 DEF ConsiderRestart, SafeoffExit, CauseResolved, Since, Locations, thermal, restart
  <2>8. CASE SkipSafeoffExit
    BY <2>8 DEF SkipSafeoffExit, Locations, restart, thermal, timers
  <2>9. CASE EvaluateTick
    BY <2>9 DEF EvaluateTick, EvaluateConditions, Reasons, Sources, Locations, restart
  <2>10. CASE Monitor
    BY <2>10 DEF Monitor, Reasons, Sources, Locations, restart, thermal, timers
  <2>11. CASE Delay
    BY <2>11 DEF Delay, Locations, globals, acks, restart, thermal
  <2>12. CASE Acknowledge
    BY <2>12 DEF Acknowledge, globals, restart, thermal, timers
  <2>13. CASE ApiRestart
    BY <2>13 DEF ApiRestart, globals, acks, thermal, timers
  <2>14. CASE ReloadConfig
    BY <2>14 DEF ReloadConfig, globals, acks, thermal, timers
  <2>15. CASE ManualCriticalOff
    BY <2>15 DEF ManualCriticalOff, restart, thermal, timers
  <2>16. CASE UNCHANGED coreVars
    BY <2>16 DEF coreVars, globals, acks, restart, thermal, timers
  <2>17. QED
    BY <2>1, <2>2, <2>3, <2>4, <2>5, <2>6, <2>7, <2>8, <2>9, <2>10, <2>11, <2>12, <2>13,
       <2>14, <2>15, <2>16 DEF CoreNext, Loop
<1>3. QED
  BY <1>1, <1>2, PTL DEF CoreSpec

\* An extreme temperature is an EMERGENCY by the end of the evaluation that
\* found it (safety_controller_evaluate), whatever requests come between.
THEOREM ExtremeAnswered == CoreSpec => []ExtremeIsEmergency
<1>1. CoreInit => ExtremeIsEmergency
  BY DEF CoreInit, ExtremeIsEmergency
<1>2. ExtremeIsEmergency /\ [CoreNext]_coreVars => ExtremeIsEmergency'
  <2> SUFFICES ASSUME ExtremeIsEmergency, [CoreNext]_coreVars, pc' = "monitor", forceEmergency'
               PROVE  mode' = "EMERGENCY" /\ latched'
    BY DEF ExtremeIsEmergency
  <2>1. CASE EvaluateTick
    <3>1. PICK sample \in Temperatures,
               process \in BOOLEAN, degraded \in BOOLEAN, allow \in BOOLEAN :
              LET extreme == sample = "extreme" /\ ~latched
                  hot == sample # "invalid" /\ (latched \/ sample \in {"critical", "extreme"})
                  cause == IF ~hot THEN "PROCESS" ELSE IF extreme THEN "EXTREME" ELSE "THERMAL"
              IN /\ latched' = (latched \/ extreme)
                 /\ forceEmergency' = extreme
                 /\ EvaluateConditions(extreme, hot \/ process,
                             degraded \/ sample \in {"invalid", "alert"}, cause, allow)
      BY <2>1 DEF EvaluateTick
    <3>2. latched' /\ EnterEmergency("OTHER")
      BY <3>1 DEF EvaluateConditions
    <3>3. QED
      BY <3>2 DEF EnterEmergency, globals
  <2>2. CASE \/ Acknowledge
             \/ ApiRestart
             \/ ReloadConfig
             \/ UNCHANGED coreVars
    BY <2>2
    DEF Acknowledge, ApiRestart, ReloadConfig, coreVars, globals, thermal, ExtremeIsEmergency
  <2>3. CASE ManualCriticalOff
    BY <2>3 DEF ManualCriticalOff, Unprotected, thermal, ExtremeIsEmergency
  <2>4. QED
    BY <2>1, <2>2, <2>3 DEF CoreNext, Loop, Watchdog, EmergencyExit, SkipEmergencyExit,
       FinishRestart, LoseConditions, AdvanceRestart, ConsiderRestart, SafeoffExit,
       SkipSafeoffExit, Monitor, Delay
<1>3. QED
  BY <1>1, <1>2, PTL DEF CoreSpec

-----------------------------------------------------------------------------
(* Both invariants are inductive together with the typing: power follows   *)
(* the mode in each handler, and only SAFE_OFF, where the sequence lives,  *)
(* is ever left for NORMAL.                                                *)

Inv == CoreTypeOK /\ CauseMatchesMode /\ RestartConfined

LEMMA InvInductive == CoreSpec => []Inv
<1>1. CoreInit => CauseMatchesMode /\ RestartConfined
  BY DEF CoreInit, CauseMatchesMode, RestartConfined, Unprotected
<1>2. Inv /\ [CoreNext]_coreVars => (CauseMatchesMode /\ RestartConfined)'
  <2> SUFFICES ASSUME Inv, [CoreNext]_coreVars PROVE (CauseMatchesMode /\ RestartConfined)'
    OBVIOUS
  <2> USE DEF Inv, CauseMatchesMode, RestartConfined, Unprotected, EnterSafeoff,
          EnterEmergency, EnterDegraded, EnterNormal, globals, acks, restart
  <2>1. CASE Watchdog
    BY <2>1 DEF Watchdog
  <2>2. CASE EmergencyExit
    BY <2>2 DEF EmergencyExit
  <2>3. CASE SkipEmergencyExit
    BY <2>3 DEF SkipEmergencyExit
  <2>4. CASE FinishRestart
    BY <2>4 DEF FinishRestart, SafeoffExit
  <2>5. CASE LoseConditions
    BY <2>5 DEF LoseConditions, SafeoffExit
  <2>6. CASE AdvanceRestart
    BY <2>6 DEF AdvanceRestart, SafeoffExit
  <2>7. CASE ConsiderRestart
    BY <2>7 DEF ConsiderRestart, SafeoffExit
  <2>8. CASE SkipSafeoffExit
    BY <2>8 DEF SkipSafeoffExit
  <2>9. CASE EvaluateTick
    BY <2>9 DEF EvaluateTick, EvaluateConditions, CoreTypeOK, Modes
  <2>10. CASE Monitor
    BY <2>10 DEF Monitor
  <2>11. CASE Delay
    BY <2>11 DEF Delay
  <2>12. CASE Acknowledge
    BY <2>12 DEF Acknowledge
  <2>13. CASE ApiRestart
    BY <2>13 DEF ApiRestart
  <2>14. CASE ReloadConfig
    BY <2>14 DEF ReloadConfig
  <2>15. CASE ManualCriticalOff
    BY <2>15 DEF ManualCriticalOff
  <2>16. CASE UNCHANGED coreVars
    BY <2>16 DEF coreVars
  <2>17. QED
    BY <2>1, <2>2, <2>3, <2>4, <2>5, <2>6, <2>7, <2>8, <2>9, <2>10, <2>11, <2>12, <2>13,
       <2>14, <2>15, <2>16 DEF CoreNext, Loop
<1>3. QED
  BY <1>1, <1>2, CoreTypeCorrect, PTL DEF CoreSpec, Inv

\* Cause, alarm, power permission and mode always agree.
THEOREM CauseAlwaysMatches == CoreSpec => []CauseMatchesMode
BY InvInductive, PTL DEF Inv

\* A restart sequence is always owned and confined to the protected modes.
THEOREM RestartAlwaysConfined == CoreSpec => []RestartConfined
BY InvInductive, PTL DEF Inv

-----------------------------------------------------------------------------
(* Every step of SafetyCore is a step of SafetyModes, leaves it alone, or  *)
(* is the watchdog reaction in an EMERGENCY.  RestartConfined is what      *)
(* makes a start of the sequence a BeginRearm: no sequence is active while *)
(* its flag is down.                                                       *)

LEMMA StepsKeepModes ==
    ASSUME Inv, [CoreNext]_coreVars
    PROVE  \/ Abstract!Next
           \/ HangLowersEmergency
           \/ UNCHANGED Abstract!vars
<1> USE DEF Abstract!Next, Abstract!vars, Abstract!acks, Abstract!SafeOffAfresh,
        globals, acks, restart, Inv, CoreTypeOK, Modes
<1>1. ASSUME NEW r, NEW alm, EnterSafeoff(r, alm), UNCHANGED restartFsm
      PROVE  \/ mode = "EMERGENCY" /\ Abstract!SafeOffAfresh
             \/ Abstract!EnterSafeOff
             \/ UNCHANGED Abstract!vars
  BY <1>1 DEF EnterSafeoff, Abstract!EnterSafeOff
<1>2. ASSUME NEW alm, EnterEmergency(alm), UNCHANGED restartFsm
      PROVE  Abstract!EnterEmergency \/ UNCHANGED Abstract!vars
  BY <1>2 DEF EnterEmergency, Abstract!EnterEmergency
<1>3. ASSUME EnterDegraded, UNCHANGED restartFsm
      PROVE  Abstract!Drift \/ UNCHANGED Abstract!vars
  BY <1>3 DEF EnterDegraded, Abstract!Drift
<1>4. CASE Watchdog
  BY <1>1, <1>4 DEF Watchdog, HangLowersEmergency
<1>5. CASE EmergencyExit
  BY <1>1, <1>5 DEF EmergencyExit, CanExitEmergency, Abstract!StepDown
<1>6. CASE FinishRestart
  <2>1. mode = "SAFE_OFF" /\ restartFsm = "COMPLETE" /\ restartFsm' = "IDLE"
    BY <1>6 DEF FinishRestart, SafeoffExit
  <2>2. CASE EnterNormal
    BY <2>1, <2>2 DEF EnterNormal, Abstract!FinishRearm
  <2>3. CASE EnterDegraded
    BY <2>1, <2>3 DEF EnterDegraded, Abstract!AbandonRearm
  <2>4. QED
    BY <1>6, <2>2, <2>3 DEF FinishRestart
<1>7. CASE LoseConditions
  BY <1>7 DEF LoseConditions, Abstract!AbandonRearm
<1>8. CASE AdvanceRestart
  BY <1>8 DEF AdvanceRestart, Abstract!AbandonRearm
<1>9. CASE ConsiderRestart
  BY <1>9 DEF ConsiderRestart, SafeoffExit, CanExitSafeoff, RestartConfined,
              Abstract!BeginRearm
<1>10. CASE EvaluateTick
  <2>1. UNCHANGED restartFsm
    BY <1>10 DEF EvaluateTick
  <2>2. PICK sample \in Temperatures, e, s, d, a \in BOOLEAN, r \in Reasons :
          EvaluateConditions(e, s, d, r, a)
    BY <1>10, Zenon DEF EvaluateTick, Reasons
  <2>3. CASE ~e /\ s /\ mode # "EMERGENCY"
    BY <2>1, <2>2, <2>3, <1>1 DEF EvaluateConditions
  <2>4. QED
    BY <2>1, <2>2, <2>3, <1>2, <1>3 DEF EvaluateConditions, EnterNormal, Abstract!Drift
<1>11. CASE Monitor
  BY <1>1, <1>2, <1>11 DEF Monitor, Unprotected
<1>12. CASE Acknowledge
  BY <1>12 DEF Acknowledge, Abstract!Acknowledge
<1>13. CASE ReloadConfig
  BY <1>13 DEF ReloadConfig, Abstract!AbandonRearm
<1>14. CASE ManualCriticalOff
  BY <1>3, <1>14 DEF ManualCriticalOff
<1>15. CASE \/ SkipEmergencyExit
           \/ SkipSafeoffExit
           \/ Delay
           \/ ApiRestart
           \/ UNCHANGED coreVars
  BY <1>15 DEF SkipEmergencyExit, SkipSafeoffExit, Delay, ApiRestart, coreVars
<1>16. QED
  BY <1>4, <1>5, <1>6, <1>7, <1>8, <1>9, <1>10, <1>11, <1>12, <1>13, <1>14, <1>15
  DEF CoreNext, Loop

LEMMA ModesInit == CoreInit => Abstract!Init
BY DEF CoreInit, Abstract!Init, Abstract!Modes

\* The firmware keeps what SafetyModes promises, except where a hung task turns
\* an EMERGENCY into a SAFE_OFF.
THEOREM CoreKeepsModes == CoreSpec => ModesKeptButForHangs
<1>1. Inv /\ [CoreNext]_coreVars => [Abstract!Next \/ HangLowersEmergency]_(Abstract!vars)
  BY StepsKeepModes
<1>2. QED
  BY <1>1, ModesInit, InvInductive, PTL DEF CoreSpec, ModesKeptButForHangs

\* Without that step of the watchdog it implements SafetyModes as it stands:
\* nothing else in the loop or in the requests is in the way.
THEOREM ModesButForHangs == CoreSpec /\ [][~HangLowersEmergency]_coreVars => ImplementsModes
<1>1. Inv /\ [CoreNext]_coreVars /\ [~HangLowersEmergency]_coreVars
        => [Abstract!Next]_(Abstract!vars)
  <2>1. UNCHANGED coreVars => UNCHANGED Abstract!vars
    BY DEF coreVars, Abstract!vars, Abstract!acks, globals, acks, restart
  <2>2. QED
    BY <2>1, StepsKeepModes
<1>2. QED
  BY <1>1, ModesInit, InvInductive, PTL DEF CoreSpec, ImplementsModes, Abstract!Spec
=============================================================================
