------------------------------ MODULE SafetyCore ------------------------------
(***************************************************************************)
(* The global state machine: core/safety_controller.c and the part of      *)
(* main/app/app_main.c that drives it.  One iteration of task_safety_core  *)
(* is split at the points where it calls into a handler, so the web and UI *)
(* tasks interleave with it:                                               *)
(*                                                                         *)
(*   watchdog -> emergency -> safeoff -> evaluate -> monitor -> delay      *)
(*                                                                         *)
(* Time is counted in iterations.  `tick' is the iteration within the      *)
(* current second: the code computes now_s by truncating now_ms, and mixes *)
(* the two when it measures how long a cause has been gone.                *)
(*                                                                         *)
(* Sensor readings are inputs of each step, not state: the sensors task    *)
(* rewrites them at any time.  The anti-flap gate is an input as well.     *)
(* The wizard is complete and no factory reset is pending.                 *)
(***************************************************************************)
EXTENDS Integers

CONSTANTS
    TicksPerSec,        \* safety_core iterations per second (20 on the target)
    SafeoffStableS,     \* HW_SAFEOFF_CAUSE_STABLE_S
    EmergencyStableS,   \* HW_EMERGENCY_CAUSE_STABLE_S
    Requests            \* what the web and UI tasks ask for, of AllRequests

AllRequests == {"ack", "restart", "reload", "critical_off"}

ASSUME TimingAssumption ==
    /\ TicksPerSec \in Nat \ {0}
    /\ SafeoffStableS \in Nat
    /\ EmergencyStableS \in Nat

ASSUME RequestsAssumption == Requests \subseteq AllRequests

VARIABLES
    mode,               \* g_gs.system_state
    reason,             \* g_gs.safeoff_reason
    source,             \* g_gs.safeoff_source_alm
    electricOk,         \* g_gs.electric_ok
    safeoffAck,         \* s_safeoff_ack
    emergencyAck,       \* s_emergency_ack
    restartInProgress,  \* g_gs.restart_in_progress
    restartFsm,         \* g_restart_fsm.state, the active states as RUNNING
    latched,            \* s_thermal_fsm.over_temp_latched
    forceEmergency,     \* s_thermal_fsm.out.force_emergency
    wdtAlarmRaised,     \* s_alm029_raised
    safeoffSince,       \* age of s_safeoff_resolved_at_ms, NotGone when it is 0
    emergencySince,     \* age of s_emergency_resolved_at_ms
    prevMode,           \* prev_state of the task loop
    pc,                 \* where the task is in its loop
    tick                \* iteration within the current second

globals == <<mode, reason, source, electricOk>>
acks == <<safeoffAck, emergencyAck>>
restart == <<restartInProgress, restartFsm>>
thermal == <<latched, forceEmergency>>
timers == <<safeoffSince, emergencySince>>
coreVars == <<globals, acks, restart, thermal, wdtAlarmRaised, timers, prevMode, pc, tick>>

Modes == {"NORMAL", "DEGRADED", "SAFE_OFF", "EMERGENCY"}

Unprotected == {"NORMAL", "DEGRADED"}

\* Causes that are told apart: THERMAL is SAFEOFF_REASON_THERMAL_CRITICAL,
\* EXTREME is ..._THERMAL_EXTREME, and PROCESS stands for those decided by one
\* reading or probe (ATO, electric, MCP23017, configuration, self-test).
Reasons == {"NONE", "THERMAL", "EXTREME", "PROCESS", "WDT_RECOVERY", "FSM_INVALID"}

\* ALM-029, or any other ALM identifier.
Sources == {"NONE", "ALM-029", "OTHER"}

Locations == {"watchdog", "emergency", "safeoff", "evaluate", "monitor", "delay"}

Temperatures == {"invalid", "normal", "alert", "critical", "extreme"}

NotGone == -1

\* Bound on the ages: past it every stabilisation test gives the same answer.
CoreAgeCap == (SafeoffStableS + EmergencyStableS + 1) * TicksPerSec

Ages == NotGone .. CoreAgeCap

CoreTypeOK ==
    /\ mode \in Modes
    /\ reason \in Reasons
    /\ source \in Sources
    /\ electricOk \in BOOLEAN
    /\ safeoffAck \in BOOLEAN
    /\ emergencyAck \in BOOLEAN
    /\ restartInProgress \in BOOLEAN
    /\ restartFsm \in {"IDLE", "RUNNING", "COMPLETE"}
    /\ latched \in BOOLEAN
    /\ forceEmergency \in BOOLEAN
    /\ wdtAlarmRaised \in BOOLEAN
    /\ safeoffSince \in Ages
    /\ emergencySince \in Ages
    /\ prevMode \in Modes
    /\ pc \in Locations
    /\ tick \in 0 .. TicksPerSec - 1

\* The boot self-test and configuration check leave NORMAL, DEGRADED, or
\* SAFE_OFF with the self-test or the configuration as its reason.
CoreInit ==
    /\ mode \in {"NORMAL", "DEGRADED", "SAFE_OFF"}
    /\ reason = IF mode = "SAFE_OFF" THEN "PROCESS" ELSE "NONE"
    /\ source = IF mode = "SAFE_OFF" THEN "OTHER" ELSE "NONE"
    /\ electricOk = (mode # "SAFE_OFF")
    /\ safeoffAck = FALSE
    /\ emergencyAck = FALSE
    /\ restartInProgress = FALSE
    /\ restartFsm = "IDLE"
    /\ latched = FALSE
    /\ forceEmergency = FALSE
    /\ wdtAlarmRaised = FALSE
    /\ safeoffSince = NotGone
    /\ emergencySince = NotGone
    /\ prevMode = mode
    /\ pc = "watchdog"
    /\ tick \in 0 .. TicksPerSec - 1

-----------------------------------------------------------------------------
(* core/safety_controller.c: the four ways to change the mode.             *)

\* Variants that the checks must reject: older acknowledgements survive, and
\* the reason and its alarm change places.
EnterSafeoffKeepingAck(r, alm) ==
    IF mode = "SAFE_OFF"
    THEN UNCHANGED <<globals, acks>>
    ELSE /\ mode' = "SAFE_OFF"
         /\ reason' = r
         /\ source' = alm
         /\ electricOk' = FALSE
         /\ UNCHANGED acks

EnterSafeoffSwapped(r, alm) ==
    IF mode = "SAFE_OFF"
    THEN UNCHANGED <<globals, acks>>
    ELSE /\ mode' = "SAFE_OFF"
         /\ reason' = alm
         /\ source' = r
         /\ electricOk' = FALSE
         /\ safeoffAck' = FALSE
         /\ UNCHANGED emergencyAck

EnterSafeoff(r, alm) ==
    IF mode = "SAFE_OFF"
    THEN UNCHANGED <<globals, acks>>
    ELSE /\ mode' = "SAFE_OFF"
         /\ reason' = r
         /\ source' = alm
         /\ electricOk' = FALSE
         /\ safeoffAck' = FALSE
         /\ UNCHANGED emergencyAck

EnterEmergency(alm) ==
    IF mode = "EMERGENCY"
    THEN UNCHANGED <<globals, acks>>
    ELSE /\ mode' = "EMERGENCY"
         /\ source' = alm
         /\ electricOk' = FALSE
         /\ emergencyAck' = FALSE
         /\ UNCHANGED <<reason, safeoffAck>>

EnterDegraded ==
    /\ mode' = IF mode = "NORMAL" THEN "DEGRADED" ELSE mode
    /\ UNCHANGED <<reason, source, electricOk, acks>>

\* Variant: the alarm is cleared, the reason is forgotten.
EnterNormalKeepingReason ==
    /\ mode' = "NORMAL"
    /\ source' = "NONE"
    /\ electricOk' = TRUE
    /\ UNCHANGED <<reason, acks>>

EnterNormal ==
    /\ mode' = "NORMAL"
    /\ reason' = "NONE"
    /\ source' = "NONE"
    /\ electricOk' = TRUE
    /\ UNCHANGED acks

\* Variant: the SAFE_OFF conditions are tested before the EMERGENCY ones.
EvaluateSafeoffFirst(emergency, safeoff, degraded, r, allow) ==
    CASE safeoff /\ mode # "EMERGENCY" -> EnterSafeoff(r, "OTHER")
      [] emergency /\ ~(safeoff /\ mode # "EMERGENCY") -> EnterEmergency("OTHER")
      [] ~emergency /\ ~safeoff /\ degraded /\ mode = "NORMAL" /\ allow -> EnterDegraded
      [] ~emergency /\ ~safeoff /\ ~degraded /\ mode = "DEGRADED" /\ allow -> EnterNormal
      [] OTHER -> UNCHANGED <<globals, acks>>

\* safety_controller_evaluate.  A recovery, to NORMAL or to DEGRADED, needs
\* the anti-flap gate; NORMAL and DEGRADED never replace a protected mode.
EvaluateConditions(emergency, safeoff, degraded, r, allow) ==
    CASE emergency -> EnterEmergency("OTHER")
      [] ~emergency /\ safeoff /\ mode # "EMERGENCY" -> EnterSafeoff(r, "OTHER")
      [] ~emergency /\ ~safeoff /\ degraded /\ mode = "NORMAL" /\ allow -> EnterDegraded
      [] ~emergency /\ ~safeoff /\ ~degraded /\ mode = "DEGRADED" /\ allow -> EnterNormal
      [] OTHER -> UNCHANGED <<globals, acks>>

\* now_s * 1000 - resolved_at_ms as uint64_t: now_s is now_ms truncated to the
\* second, so a cause gone for less than `tick' iterations wraps to a huge value.
StableFor(age, seconds) ==
    \/ age < tick
    \/ age - tick >= seconds * TicksPerSec

\* fill_safeoff_stabilization, fill_emergency_stabilization
Since(age, resolved) ==
    IF ~resolved THEN NotGone ELSE IF age = NotGone THEN 0 ELSE age

\* safety_controller_can_exit_safeoff, given the updated timer
CanExitSafeoff(resolved, sensors, selftest) ==
    /\ resolved
    /\ sensors
    /\ selftest
    /\ safeoffAck
    /\ StableFor(safeoffSince', SafeoffStableS)

\* safety_controller_can_exit_emergency
CanExitEmergency(resolved, sensors) ==
    /\ resolved
    /\ sensors
    /\ emergencyAck
    /\ StableFor(emergencySince', EmergencyStableS)

-----------------------------------------------------------------------------
(* The iteration of task_safety_core, in order.                            *)

\* Heartbeat check: a critical task that hangs means SAFE_OFF, in any mode.
Watchdog ==
    /\ pc = "watchdog"
    /\ pc' = "emergency"
    /\ \/ EnterSafeoff("FSM_INVALID", "OTHER")
       \/ UNCHANGED <<globals, acks>>
    /\ UNCHANGED <<restart, thermal, wdtAlarmRaised, timers, prevMode, tick>>

\* handle_emergency_exit: the thermal output is the previous iteration's.
EmergencyExit ==
    /\ pc = "emergency"
    /\ pc' = "safeoff"
    /\ mode = "EMERGENCY"
    /\ \E sensors, wdtExcess \in BOOLEAN :
         LET resolved == IF source = "ALM-029" THEN ~wdtExcess ELSE ~forceEmergency
         IN /\ emergencySince' = Since(emergencySince, resolved)
            /\ IF CanExitEmergency(resolved, sensors)
               THEN /\ EnterSafeoff(IF source = "ALM-029" THEN "WDT_RECOVERY" ELSE "EXTREME",
                                    "OTHER")
                    /\ safeoffSince' = NotGone
                    /\ latched' = FALSE
               ELSE UNCHANGED <<globals, acks, safeoffSince, latched>>
    /\ UNCHANGED <<restart, forceEmergency, wdtAlarmRaised, prevMode, tick>>

SkipEmergencyExit ==
    /\ pc = "emergency"
    /\ pc' = "safeoff"
    /\ mode # "EMERGENCY"
    /\ UNCHANGED <<globals, acks, restart, thermal, wdtAlarmRaised, timers, prevMode, tick>>

\* safeoff_cause_is_resolved: a hung task never counts as resolved.
CauseResolved == IF reason \in {"NONE", "FSM_INVALID"} THEN {FALSE} ELSE BOOLEAN

\* What every branch of handle_safeoff_exit begins with.
SafeoffExit(resolved) ==
    /\ pc = "safeoff"
    /\ pc' = "evaluate"
    /\ mode = "SAFE_OFF"
    /\ safeoffSince' = Since(safeoffSince, resolved)
    /\ UNCHANGED <<thermal, wdtAlarmRaised, emergencySince, prevMode, tick>>

\* The sequence is over: NORMAL, or DEGRADED, which enter_degraded ignores here.
FinishRestart ==
    /\ restartInProgress
    /\ restartFsm = "COMPLETE"
    /\ restartInProgress' = FALSE
    /\ restartFsm' = "IDLE"
    /\ \E resolved \in CauseResolved : SafeoffExit(resolved)
    /\ \/ EnterNormal
       \/ EnterDegraded

\* Variant: the flag is withdrawn, the sequence keeps running.
LoseConditionsKeepingSequence ==
    /\ restartInProgress
    /\ restartFsm # "COMPLETE"
    /\ \E resolved \in CauseResolved, sensors \in BOOLEAN :
         /\ ~(resolved /\ sensors)
         /\ SafeoffExit(resolved)
    /\ restartInProgress' = FALSE
    /\ UNCHANGED <<globals, acks, restartFsm>>

\* The cause is back or a sensor is lost: the sequence is abandoned.
LoseConditions ==
    /\ restartInProgress
    /\ restartFsm # "COMPLETE"
    /\ \E resolved \in CauseResolved, sensors \in BOOLEAN :
         /\ ~(resolved /\ sensors)
         /\ SafeoffExit(resolved)
    /\ restartInProgress' = FALSE
    /\ restartFsm' = "IDLE"
    /\ UNCHANGED <<globals, acks>>

\* restart_fsm_update, on a sequence that was started or on an idle one, and
\* the abort when it reports an overcurrent.
AdvanceRestart ==
    /\ restartInProgress
    /\ restartFsm # "COMPLETE"
    /\ TRUE \in CauseResolved
    /\ SafeoffExit(TRUE)
    /\ \/ UNCHANGED restart
       \/ /\ restartFsm = "RUNNING"
          /\ restartFsm' = "COMPLETE"
          /\ UNCHANGED restartInProgress
       \/ /\ restartFsm = "RUNNING"
          /\ restartFsm' = "IDLE"
          /\ restartInProgress' = FALSE
    /\ UNCHANGED <<globals, acks>>

\* The exit conditions hold: restart_fsm_start.  Otherwise wait.
ConsiderRestart ==
    /\ ~restartInProgress
    /\ \E resolved \in CauseResolved, sensors, selftest \in BOOLEAN :
         /\ SafeoffExit(resolved)
         /\ IF CanExitSafeoff(resolved, sensors, selftest)
            THEN restartInProgress' = TRUE /\ restartFsm' = "RUNNING"
            ELSE UNCHANGED restart
    /\ UNCHANGED <<globals, acks>>

SkipSafeoffExit ==
    /\ pc = "safeoff"
    /\ pc' = "evaluate"
    /\ mode # "SAFE_OFF"
    /\ UNCHANGED <<globals, acks, restart, thermal, wdtAlarmRaised, timers, prevMode, tick>>

\* thermal_fsm_update and update_safety_outputs: the forced conditions, the
\* evaluation, and the timers reset when the loop sees that the mode changed.
EvaluateTick ==
    /\ pc = "evaluate"
    /\ pc' = "monitor"
    /\ \E sample \in Temperatures, process, degraded, allow \in BOOLEAN :
         LET extreme == sample = "extreme" /\ ~latched
             hot == sample # "invalid" /\ (latched \/ sample \in {"critical", "extreme"})
             cause == IF ~hot THEN "PROCESS" ELSE IF extreme THEN "EXTREME" ELSE "THERMAL"
         IN /\ latched' = (latched \/ extreme)
            /\ forceEmergency' = extreme
            /\ EvaluateConditions(extreme, hot \/ process,
                        degraded \/ sample \in {"invalid", "alert"}, cause, allow)
    /\ prevMode' = mode'
    /\ safeoffSince' = IF mode' # prevMode /\ mode' = "SAFE_OFF" THEN NotGone ELSE safeoffSince
    /\ emergencySince' = IF mode' # prevMode /\ mode' = "EMERGENCY" THEN NotGone ELSE emergencySince
    /\ UNCHANGED <<restart, wdtAlarmRaised, tick>>

\* alm_monitor_tick: ALM-029, at most once per boot, then ALM-048.
Monitor ==
    /\ pc = "monitor"
    /\ pc' = "delay"
    /\ \/ /\ ~wdtAlarmRaised
          /\ wdtAlarmRaised' = TRUE
          /\ EnterEmergency("ALM-029")
       \/ /\ mode \in Unprotected
          /\ EnterSafeoff("PROCESS", "OTHER")
          /\ UNCHANGED wdtAlarmRaised
       \/ UNCHANGED <<globals, acks, wdtAlarmRaised>>
    /\ UNCHANGED <<restart, thermal, timers, prevMode, tick>>

Older(age) == IF age \in {NotGone, CoreAgeCap} THEN age ELSE age + 1

\* vTaskDelay: one iteration of time passes.
Delay ==
    /\ pc = "delay"
    /\ pc' = "watchdog"
    /\ tick' = (tick + 1) % TicksPerSec
    /\ safeoffSince' = Older(safeoffSince)
    /\ emergencySince' = Older(emergencySince)
    /\ UNCHANGED <<globals, acks, restart, thermal, wdtAlarmRaised, prevMode>>

-----------------------------------------------------------------------------
(* Requests of the web and UI tasks, between any two steps of the loop.    *)

\* safe_state_ack_on_alert_ack: the last pending alert, or the source alarm of
\* the current SAFE_OFF while others are pending.
Acknowledge ==
    /\ "ack" \in Requests
    /\ \/ safeoffAck' = TRUE /\ emergencyAck' = TRUE
       \/ mode = "SAFE_OFF" /\ safeoffAck' = TRUE /\ UNCHANGED emergencyAck
    /\ UNCHANGED <<globals, restart, thermal, wdtAlarmRaised, timers, prevMode, pc, tick>>

\* POST command "restart": the flag is set, the sequence is not started.
ApiRestart ==
    /\ "restart" \in Requests
    /\ mode = "SAFE_OFF"
    /\ ~restartInProgress
    /\ restartInProgress' = TRUE
    /\ UNCHANGED restartFsm
    /\ UNCHANGED <<globals, acks, thermal, wdtAlarmRaised, timers, prevMode, pc, tick>>

\* on_config_changed: app_reload_fsms_from_config re-initialises the sequence.
ReloadConfig ==
    /\ "reload" \in Requests
    /\ restartFsm' = "IDLE"
    /\ UNCHANGED restartInProgress
    /\ UNCHANGED <<globals, acks, thermal, wdtAlarmRaised, timers, prevMode, pc, tick>>

\* plug_manager_toggle_ex: a critical plug switched off by hand.
ManualCriticalOff ==
    /\ "critical_off" \in Requests
    /\ mode \in Unprotected
    /\ EnterDegraded
    /\ UNCHANGED <<restart, thermal, wdtAlarmRaised, timers, prevMode, pc, tick>>

-----------------------------------------------------------------------------

Loop ==
    \/ Watchdog
    \/ EmergencyExit
    \/ SkipEmergencyExit
    \/ FinishRestart
    \/ LoseConditions
    \/ AdvanceRestart
    \/ ConsiderRestart
    \/ SkipSafeoffExit
    \/ EvaluateTick
    \/ Monitor
    \/ Delay

CoreNext ==
    \/ Loop
    \/ Acknowledge
    \/ ApiRestart
    \/ ReloadConfig
    \/ ManualCriticalOff

CoreSpec == CoreInit /\ [][CoreNext]_coreVars
-----------------------------------------------------------------------------
(* Properties                                                              *)

Abstract == INSTANCE SafetyModes WITH
    safeoffAcked <- safeoffAck,
    emergencyAcked <- emergencyAck,
    rearming <- restartFsm # "IDLE"

\* The promises of SafetyModes.  The watchdog reaction does not keep the first of
\* them: it enters SAFE_OFF from an EMERGENCY that still lasts and that nobody
\* acknowledged (SRS TECNICO 4.3, rule 5, and 4.7).
ImplementsModes == Abstract!Spec

\* That reaction: it lowers an EMERGENCY, and forgets the acknowledgement of SAFE_OFF.
HangLowersEmergency ==
    /\ pc = "watchdog"
    /\ mode = "EMERGENCY"
    /\ Abstract!SafeOffAfresh

\* What the code keeps of the promises: with the reaction to a hung task as the
\* single exception EMERGENCY steps down to SAFE_OFF only acknowledged, SAFE_OFF
\* is left only by a finished restart sequence, and a sequence begins only in an
\* acknowledged SAFE_OFF, whatever the tasks do between the steps of the loop.
ModesKeptButForHangs ==
    /\ Abstract!Init
    /\ [][Abstract!Next \/ HangLowersEmergency]_(Abstract!vars)

\* The recorded cause, the power permission and the mode agree although four
\* handlers in two files write them: SAFE_OFF always has a cause, the cause and
\* its alarm are gone in the unprotected modes, and power is permitted exactly there.
CauseMatchesMode ==
    /\ mode = "SAFE_OFF" => reason # "NONE"
    /\ mode \in Unprotected => reason = "NONE" /\ source = "NONE"
    /\ mode = "EMERGENCY" => source # "NONE"
    /\ electricOk <=> mode \in Unprotected

\* A restart sequence never runs unowned or outlives the protected modes: whoever
\* interrupts the sequence or the mode, an active sequence has its flag set, and
\* the flag is down again by the time the mode is unprotected.
RestartConfined ==
    /\ restartFsm # "IDLE" => restartInProgress
    /\ restartInProgress => mode \in {"SAFE_OFF", "EMERGENCY"}

\* An over-temperature that the thermal machine reports as an emergency is an
\* EMERGENCY by the end of the same evaluation, whatever the mode was.
ExtremeIsEmergency == pc = "monitor" /\ forceEmergency => mode = "EMERGENCY" /\ latched

\* SAFE_OFF gives way to NORMAL only when that SAFE_OFF was acknowledged
\* (docs/AF_ERRATAS.md:13: SAFE_OFF needs the cause resolved and an ACK).
ExitAcknowledged == [][mode = "SAFE_OFF" /\ mode' = "NORMAL" => safeoffAck]_coreVars

\* A restart sequence starts only after the cause has been gone for the whole
\* stabilisation time, measured on the timestamp the code keeps.
Stabilised ==
    [][restartFsm = "IDLE" /\ restartFsm' = "RUNNING"
         => safeoffSince' >= SafeoffStableS * TicksPerSec]_coreVars
=============================================================================
