------------------------------ MODULE HeartbeatGuard ------------------------------
(***************************************************************************)
(* The heartbeat guard (services/watchdog_guard.c) and what the safety     *)
(* task does with its answers (task_safety_core_fn): each task counts its  *)
(* beats, and every so often the safety task looks whether the counts      *)
(* moved.                                                                  *)
(*                                                                         *)
(* The counters have Width values and wrap.  A check reads a counter twice *)
(* without a lock: a beat that comes between the comparison and the        *)
(* assignment is not seen by this check nor by the next.                   *)
(* missed_beats is never reset: it counts the checks without a beat since  *)
(* the start.                                                              *)
(***************************************************************************)
EXTENDS Integers

CONSTANTS
    GuardTasks,    \* those that are checked
    CriticalTasks, \* severity
    Optional,      \* not checked before its first beat: DIAG
    Threshold,     \* missed_threshold
    Width,         \* values of a counter: 2^32
    MissedCap      \* missed_beats is not told apart above this one

ASSUME GuardAssumption ==
    /\ CriticalTasks \subseteq GuardTasks
    /\ Optional \subseteq GuardTasks
    /\ MissedCap \in Nat
    /\ Threshold \in [GuardTasks -> 1 .. MissedCap]
    /\ Width \in Nat \ {0}

VARIABLES
    heartbeat,  \* heartbeat_count
    lastSeen,   \* last_seen_count
    missed,     \* missed_beats
    alarmed,    \* alarmed
    guardMode,  \* g_gs.system_state is SAFE_OFF (SAFE_OFF), or not (OTHER)
    hangAlert,  \* ALM-043 is active
    reported,   \* history: the safety task acted on the hang
    silent      \* history: checks since the last beat

guardVars == <<heartbeat, lastSeen, missed, alarmed, guardMode, hangAlert,
               reported, silent>>

GuardTypeOK ==
    /\ heartbeat \in [GuardTasks -> 0 .. Width - 1]
    /\ lastSeen \in [GuardTasks -> 0 .. Width - 1]
    /\ missed \in [GuardTasks -> 0 .. MissedCap]
    /\ alarmed \in [GuardTasks -> BOOLEAN]
    /\ guardMode \in {"SAFE_OFF", "OTHER"}
    /\ hangAlert \in BOOLEAN
    /\ reported \in [GuardTasks -> BOOLEAN]
    /\ silent \in [GuardTasks -> 0 .. MissedCap]

GuardInit ==
    /\ heartbeat = [t \in GuardTasks |-> 0]
    /\ lastSeen = [t \in GuardTasks |-> 0]
    /\ missed = [t \in GuardTasks |-> 0]
    /\ alarmed = [t \in GuardTasks |-> FALSE]
    /\ guardMode = "OTHER"
    /\ hangAlert = FALSE
    /\ reported = [t \in GuardTasks |-> FALSE]
    /\ silent = [t \in GuardTasks |-> 0]

---------------------------------------------------------------------------------

Beaten(t) == [heartbeat EXCEPT ![t] = (@ + 1) % Width]

\* watchdog_guard_heartbeat, from the loop of each task.
Heartbeat(t) ==
    /\ heartbeat' = Beaten(t)
    /\ silent' = [silent EXCEPT ![t] = 0]
    /\ UNCHANGED <<lastSeen, missed, alarmed, guardMode, hangAlert, reported>>

OneMore(n) == IF n = MissedCap THEN n ELSE n + 1

Checked(t) == t \in Optional => heartbeat[t] # 0

\* The assignment, which may already see the next beat.
StoreCount(t) ==
    /\ heartbeat' \in {heartbeat, Beaten(t)}
    /\ lastSeen' = [lastSeen EXCEPT ![t] = heartbeat'[t]]

\* The count moved.  The alarm is cleared by its number, whosever it is.
CheckAlive(t) ==
    /\ Checked(t)
    /\ heartbeat[t] > lastSeen[t]
    /\ StoreCount(t)
    /\ alarmed' = [alarmed EXCEPT ![t] = FALSE]
    /\ reported' = [reported EXCEPT ![t] = FALSE]
    /\ hangAlert' = (hangAlert /\ ~(alarmed[t] /\ guardMode # "SAFE_OFF"))
    /\ silent' = [silent EXCEPT ![t] = 0]
    /\ UNCHANGED <<missed, guardMode>>

FindsHangOnce(t) == OneMore(missed[t]) = Threshold[t] /\ ~alarmed[t]

FindsHang(t) == OneMore(missed[t]) >= Threshold[t] /\ ~alarmed[t]

\* What the safety task does about it; it enters SAFE_OFF whatever the mode.
Report(t) ==
    /\ alarmed' = [alarmed EXCEPT ![t] = TRUE]
    /\ reported' = [reported EXCEPT ![t] = TRUE]
    /\ hangAlert' = TRUE
    /\ guardMode' = IF t \in CriticalTasks THEN "SAFE_OFF" ELSE guardMode

\* The count did not move, or wrapped.
CheckSilent(t) ==
    /\ Checked(t)
    /\ heartbeat[t] <= lastSeen[t]
    /\ StoreCount(t)
    /\ silent' = [silent EXCEPT ![t] = IF heartbeat' = heartbeat THEN OneMore(@) ELSE 0]
    /\ missed' = [missed EXCEPT ![t] = OneMore(@)]
    /\ IF FindsHang(t) THEN Report(t)
       ELSE UNCHANGED <<alarmed, reported, hangAlert, guardMode>>

\* SAFE_OFF is left, or entered for another reason.
GuardModeChange ==
    /\ guardMode' \in {"SAFE_OFF", "OTHER"} \ {guardMode}
    /\ UNCHANGED <<heartbeat, lastSeen, missed, alarmed, hangAlert, reported, silent>>

GuardNext ==
    \/ \E t \in GuardTasks : Heartbeat(t) \/ CheckAlive(t) \/ CheckSilent(t)
    \/ GuardModeChange

GuardSpec == GuardInit /\ [][GuardNext]_guardVars

---------------------------------------------------------------------------------
(***************************************************************************)
(* A task that has been silent for as many checks as its threshold has     *)
(* been found and acted on, in this hang: whatever was missed, found and   *)
(* recovered before, and however the counters wrap.                        *)
(***************************************************************************)
HangFound == \A t \in GuardTasks : silent[t] >= Threshold[t] => reported[t]
=================================================================================
