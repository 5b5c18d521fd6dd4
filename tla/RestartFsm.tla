------------------------------ MODULE RestartFsm ------------------------------
(***************************************************************************)
(* The restart sequence after SAFE_OFF: fsm/restart_fsm.c, and the part of *)
(* handle_safeoff_exit (main/app/app_main.c) that starts it, advances it,  *)
(* hands its mask to the plug manager and ends it.                         *)
(*                                                                         *)
(* Time is counted in iterations of the safety task.  The three durations  *)
(* are measured from `since', the age of state_entered_ms.  Masks are sets *)
(* of bit numbers.  Plug p is bit p - 1 for the plug manager; the sequence *)
(* uses the numbers of Order as bits, as the code does.                    *)
(***************************************************************************)
EXTENDS Integers, Sequences

CONSTANTS
    Order,            \* RELAY_ENERGIZE_ORDER
    WaitTicks,        \* cfg.wait_time_ms
    StaggerTicks,     \* cfg.stagger_interval_ms
    MonitorTicks,     \* cfg.monitor_time_ms
    SequenceRequests  \* what the web task asks for

ASSUME OrderAssumption == Order \in Seq(Nat) /\ Len(Order) > 0

ASSUME DurationsAssumption ==
    /\ WaitTicks \in Nat
    /\ StaggerTicks \in Nat
    /\ MonitorTicks \in Nat

AllSequenceRequests == {"restart", "reload"}

ASSUME SequenceRequestsAssumption == SequenceRequests \subseteq AllSequenceRequests

VARIABLES
    sequenceMode,   \* g_gs.system_state, as far as the sequence depends on it
    inProgress,     \* g_gs.restart_in_progress
    phase,          \* g_restart_fsm.state
    since,          \* age of g_restart_fsm.state_entered_ms
    next,           \* g_restart_fsm.next_relay_idx
    blockedMask,    \* g_restart_fsm.blocked_mask
    restartMask,    \* s_restart_energized_mask of the plug manager
    turn,           \* what the safety task does next: "exit" handler or "delay"
    ran             \* history: iterations since the sequence was started

fsm == <<phase, since, next, blockedMask>>
sequenceVars == <<sequenceMode, inProgress, fsm, restartMask, turn, ran>>

Count == Len(Order)

Bits == {Order[i] : i \in 1 .. Count}

Phases == {"IDLE", "WAITING", "ENERGIZING", "MONITORING", "COMPLETE"}

ActivePhases == {"WAITING", "ENERGIZING", "MONITORING"}

FullTime == WaitTicks + Count * StaggerTicks + MonitorTicks

\* Bound on the two ages: past it every comparison of the code is settled.
SequenceAgeCap == FullTime + Count + 2

SequenceTypeOK ==
    /\ sequenceMode \in {"NORMAL", "SAFE_OFF", "EMERGENCY"}
    /\ inProgress \in BOOLEAN
    /\ phase \in Phases
    /\ since \in 0 .. SequenceAgeCap
    /\ next \in 0 .. Count
    /\ blockedMask \subseteq Bits
    /\ restartMask \subseteq Bits
    /\ turn \in {"exit", "delay"}
    /\ ran \in 0 .. SequenceAgeCap

SequenceInit ==
    /\ sequenceMode \in {"NORMAL", "SAFE_OFF"}
    /\ inProgress = FALSE
    /\ phase = "IDLE"
    /\ since = 0
    /\ next = 0
    /\ blockedMask = {}
    /\ restartMask = {}
    /\ turn = "exit"
    /\ ran = 0

-----------------------------------------------------------------------------
(* fsm/restart_fsm.c                                                       *)

\* restart_fsm_start; it also clears the mask restart_fsm_set_blocked_mask has
\* just stored.
Start ==
    /\ phase' = "WAITING"
    /\ since' = 0
    /\ next' = 0
    /\ blockedMask' = {}

Abort ==
    /\ phase' = "IDLE"
    /\ next' = 0
    /\ UNCHANGED <<since, blockedMask>>

Enter(s) == phase' = s /\ since' = 0

\* Positions still to energise once position k is done: blocked bits are skipped.
Pending(k) == {i \in k + 1 .. Count - 1 : Order[i + 1] \notin blockedMask}

SkipBlocked(k) ==
    IF Pending(k) = {} THEN Count
    ELSE CHOOSE i \in Pending(k) : \A j \in Pending(k) : i <= j

\* Variant: the intervals of the earlier relays are not subtracted.
DueFromStart == since >= StaggerTicks

\* The next relay is due: elapsed - next * stagger >= stagger in unsigned
\* arithmetic, where a negative difference wraps to a huge one.
Due ==
    \/ since < next * StaggerTicks
    \/ since - next * StaggerTicks >= StaggerTicks

\* restart_fsm_update
UpdateWaiting ==
    /\ phase = "WAITING"
    /\ IF since >= WaitTicks
       THEN Enter("ENERGIZING") /\ next' = 0
       ELSE UNCHANGED <<phase, since, next>>

\* Variant: the last relay is waited for once more.
UpdateEnergizingOffByOne ==
    /\ phase = "ENERGIZING"
    /\ IF next > Count
       THEN Enter("MONITORING") /\ UNCHANGED next
       ELSE /\ next' = IF Due THEN SkipBlocked(next) ELSE next
            /\ UNCHANGED <<phase, since>>

UpdateEnergizing ==
    /\ phase = "ENERGIZING"
    /\ IF next >= Count
       THEN Enter("MONITORING") /\ UNCHANGED next
       ELSE /\ next' = IF Due THEN SkipBlocked(next) ELSE next
            /\ UNCHANGED <<phase, since>>

\* Variant: the monitoring window is skipped.
UpdateMonitoringAtOnce ==
    /\ phase = "MONITORING"
    /\ phase' = "COMPLETE"
    /\ UNCHANGED <<since, next>>

UpdateMonitoring ==
    /\ phase = "MONITORING"
    /\ phase' = IF since >= MonitorTicks THEN "COMPLETE" ELSE phase
    /\ UNCHANGED <<since, next>>

UpdateSequence ==
    /\ \/ UpdateWaiting
       \/ UpdateEnergizing
       \/ UpdateMonitoring
       \/ phase \notin ActivePhases /\ UNCHANGED <<phase, since, next>>
    /\ UNCHANGED blockedMask

\* restart_fsm_energized_mask
Energized(s, k) ==
    LET reached == CASE s = "ENERGIZING" -> k
                     [] s \in {"MONITORING", "COMPLETE"} -> Count
                     [] OTHER -> 0
    IN {Order[i] : i \in 1 .. reached} \ blockedMask

-----------------------------------------------------------------------------
(* handle_safeoff_exit, once per iteration while the mode is SAFE_OFF      *)

ExitTurn ==
    /\ turn = "exit"
    /\ turn' = "delay"

\* The exit conditions hold (SafetyCore says when).
Begin ==
    /\ ExitTurn
    /\ sequenceMode = "SAFE_OFF"
    /\ ~inProgress
    /\ inProgress' = TRUE
    /\ Start
    /\ ran' = 0
    /\ UNCHANGED <<sequenceMode, restartMask>>

\* To NORMAL, or to DEGRADED, which enter_degraded ignores in SAFE_OFF.
Finish ==
    /\ ExitTurn
    /\ sequenceMode = "SAFE_OFF"
    /\ inProgress
    /\ phase = "COMPLETE"
    /\ sequenceMode' \in {"NORMAL", "SAFE_OFF"}
    /\ inProgress' = FALSE
    /\ restartMask' = {}
    /\ Abort
    /\ UNCHANGED ran

\* The cause is back, a sensor is lost, or the update reports an overcurrent.
GiveUp ==
    /\ ExitTurn
    /\ sequenceMode = "SAFE_OFF"
    /\ inProgress
    /\ phase # "COMPLETE"
    /\ inProgress' = FALSE
    /\ restartMask' = {}
    /\ Abort
    /\ UNCHANGED <<sequenceMode, ran>>

Advance ==
    /\ ExitTurn
    /\ sequenceMode = "SAFE_OFF"
    /\ inProgress
    /\ phase # "COMPLETE"
    /\ UpdateSequence
    /\ restartMask' = Energized(phase', next')
    /\ UNCHANGED <<sequenceMode, inProgress, ran>>

-----------------------------------------------------------------------------
(* The rest of the system                                                  *)

\* Variant: the mask of the interrupted sequence stays with the plug manager.
EnterProtectedKeepingMask ==
    /\ \/ sequenceMode = "NORMAL" /\ sequenceMode' = "SAFE_OFF"
       \/ sequenceMode \in {"NORMAL", "SAFE_OFF"} /\ sequenceMode' = "EMERGENCY"
       \/ sequenceMode = "EMERGENCY" /\ sequenceMode' = "SAFE_OFF"
    /\ UNCHANGED <<restartMask, inProgress, fsm, turn, ran>>

\* Entering SAFE_OFF or EMERGENCY: plug_manager_apply_safe_off drops the mask;
\* the sequence itself is left as it is.
EnterProtected ==
    /\ \/ sequenceMode = "NORMAL" /\ sequenceMode' = "SAFE_OFF"
       \/ sequenceMode \in {"NORMAL", "SAFE_OFF"} /\ sequenceMode' = "EMERGENCY"
       \/ sequenceMode = "EMERGENCY" /\ sequenceMode' = "SAFE_OFF"
    /\ restartMask' = {}
    /\ UNCHANGED <<inProgress, fsm, turn, ran>>

\* POST command "restart" sets the flag only.
ApiSetsFlag ==
    /\ "restart" \in SequenceRequests
    /\ sequenceMode = "SAFE_OFF"
    /\ ~inProgress
    /\ inProgress' = TRUE
    /\ UNCHANGED <<sequenceMode, fsm, restartMask, turn, ran>>

\* app_reload_fsms_from_config: restart_fsm_init
ReloadSequence ==
    /\ "reload" \in SequenceRequests
    /\ phase' = "IDLE"
    /\ since' = 0
    /\ next' = 0
    /\ blockedMask' = {}
    /\ UNCHANGED <<sequenceMode, inProgress, restartMask, turn, ran>>

SequenceOlder(age) == IF age = SequenceAgeCap THEN age ELSE age + 1

\* The handler is not called outside SAFE_OFF, and in SAFE_OFF it may find that
\* the exit conditions do not hold.
Skip ==
    /\ ExitTurn
    /\ sequenceMode = "SAFE_OFF" => ~inProgress
    /\ UNCHANGED <<sequenceMode, inProgress, fsm, restartMask, ran>>

\* vTaskDelay: one iteration passes, in every mode.
NextIteration ==
    /\ turn = "delay"
    /\ turn' = "exit"
    /\ since' = SequenceOlder(since)
    /\ ran' = SequenceOlder(ran)
    /\ UNCHANGED <<sequenceMode, inProgress, phase, next, blockedMask, restartMask>>

SequenceTask == Begin \/ Finish \/ GiveUp \/ Advance \/ Skip \/ NextIteration

SequenceNext ==
    \/ SequenceTask
    \/ EnterProtected
    \/ ApiSetsFlag
    \/ ReloadSequence

SequenceSpec == SequenceInit /\ [][SequenceNext]_sequenceVars

\* The safety task is periodic and has the highest priority: it always runs.
FairSequenceSpec == SequenceSpec /\ WF_sequenceVars(SequenceTask)

-----------------------------------------------------------------------------
(* Properties                                                              *)

\* Pacing of the mask: the sequence does not reach relay number k of the order
\* before k stagger intervals of the energising phase, however often it was
\* suspended or the mask recomputed, so that the unsigned subtraction of
\* restart_fsm_update never wraps.  It is about the relays that are offered to
\* the plug manager; what the plug manager and the gate make of the offer is
\* told in RestartRelays.
Paced ==
    /\ phase = "ENERGIZING" => next * StaggerTicks <= since
    /\ phase \in {"WAITING", "MONITORING"} => next \in {0, Count}

\* The plug manager is offered relays only by a sequence in SAFE_OFF that owns
\* the flag and has waited; every way out of the sequence takes them back.
OfferedOnlyWhileRearming ==
    restartMask # {} =>
        /\ sequenceMode = "SAFE_OFF"
        /\ inProgress
        /\ ran >= WaitTicks

\* SAFE_OFF is left for NORMAL only after the wait, every stagger interval and
\* the whole monitoring window: no request, reload or suspension shortens it.
NoShortcut ==
    [][sequenceMode = "SAFE_OFF" /\ sequenceMode' = "NORMAL"
         => ran >= WaitTicks + Count * StaggerTicks + MonitorTicks]_sequenceVars

\* A sequence that was started does not hang: it completes, is abandoned, or is
\* suspended by an EMERGENCY.
SequenceEnds == phase # "IDLE" ~> (phase = "IDLE" \/ sequenceMode = "EMERGENCY")

\* The progress flag that the operator sees, and that refuses further restart
\* commands, is eventually withdrawn.
RestartSettles == inProgress ~> (~inProgress \/ sequenceMode = "EMERGENCY")
=============================================================================
