-------------------------------- MODULE AlertAck --------------------------------
(***************************************************************************)
(* Alarms and their acknowledgement: services/alert_manager.c, the manual  *)
(* acknowledgement of a protected state (services/safe_state_ack.c), and   *)
(* the tasks that use them: the safety task, which raises and withdraws    *)
(* alarms, and an operator at the web interface or at the local screen.    *)
(*                                                                         *)
(* Nothing locks the alarm table, and the web server runs on the other     *)
(* core.  A request is split where the handler calls out: it is validated, *)
(* then for each alarm looks it up, records the stage of a critical one,   *)
(* marks it, looks at the table again (the first half of                   *)
(* safe_state_ack_on_alert_ack) and stores its verdict (the second half).  *)
(* The safety task moves in between.  A withdrawal is one step, though the *)
(* code forgets the stage before it frees the slot: what a handler could   *)
(* write between the two it can as well write just before or after both.   *)
(*                                                                         *)
(* The table is a function of the instances <<alarm, plug>> (plug 0: none):*)
(* the lookups of raise_full let an instance have one slot.  What is left  *)
(* of the order of the slots is `head', the plug of an alarm's first slot. *)
(***************************************************************************)
EXTENDS FiniteSets, Integers

CONSTANTS
    Alarms,     \* the alarms that are told apart, of AllAlarms
    Plants,     \* sets of alarms; those of one of them may occur
    Plugs,      \* plugs that have alarms of their own
    TableSlots, \* ALERT_SLOTS_MAX
    AckStates,  \* ACK_STATE_SLOTS_MAX: double acknowledgements on record
    Bulk        \* whether the operator may acknowledge all at once

AllAlarms == {"ALM-015", "ALM-026", "ALM-028", "ALM-043", "ALM-046",
              "ALM-056", "ALM-060", "ALM-065"}

ASSUME AlarmsAssumption ==
    /\ Alarms \subseteq AllAlarms
    /\ Plants \subseteq (SUBSET Alarms) \ {{}}
    /\ Plugs \subseteq Nat \ {0}
    /\ IsFiniteSet(Plugs)

ASSUME SlotsAssumption ==
    /\ TableSlots \in Nat
    /\ AckStates \in Nat
    /\ Bulk \in BOOLEAN

VARIABLES
    plant,          \* the alarms that may occur
    alertMode,      \* g_gs.system_state, NORMAL and DEGRADED as RUN
    alertSource,    \* g_gs.safeoff_source_alm
    cause,          \* safeoff_reason_to_alm_id(g_gs.safeoff_reason)
    slots,          \* s_slots, by instance
    head,           \* plug of the first active slot of an alarm
    stage,          \* s_ack_states, by instance
    ackedSafeoff,   \* s_safeoff_ack
    ackedEmergency, \* s_emergency_ack
    lastThermal,    \* s_last_tout_alm
    request,        \* what the operator's handler is doing
    crossed         \* history: alarms withdrawn in the middle of a request on them,
                    \* and not withdrawn again since

alertState == <<alertMode, alertSource, cause>>
alarmTable == <<slots, head, stage>>
flags == <<ackedSafeoff, ackedEmergency>>
ackVars == <<plant, alertState, alarmTable, flags, lastThermal, request, crossed>>

None == "NONE"

NoPlug == 0

NoSlot == -1

PlugAlarms == {"ALM-056", "ALM-065"} \cap Alarms

Instances == (Alarms \X {NoPlug}) \cup (PlugAlarms \X Plugs)

Stages == {"NONE", "FIRST", "CONFIRMED"}

\* `acts' is not in the code: how many requests acknowledged this occurrence,
\* directly or as a first step, since it was raised (two are as good as more).
Occurrences == [severity : {"WARNING", "HIGH", "CRITICAL"},
                required : BOOLEAN,
                acked : BOOLEAN,
                acts : 0 .. 2]

Free == [severity |-> None, required |-> FALSE, acked |-> FALSE, acts |-> 0]

\* What the handler is doing (pc), whether at the local screen, the instances still
\* to do, the one it serves, and what it has found about the mode.
Serving(pc, local, todo, key, verdict) ==
    [pc |-> pc, local |-> local, todo |-> todo, key |-> key, verdict |-> verdict]

NoKey == <<None, NoPlug>>

Idle == Serving("idle", FALSE, {}, NoKey, None)

InRequest == {"staging", "marking"}

AckRequests ==
    [pc : {"idle", "validated", "acknowledged", "evaluated"} \cup InRequest,
     local : BOOLEAN,
     todo : SUBSET Instances,
     key : Instances \cup {NoKey},
     verdict : {None, "all", "source"}]

\* What each step of the handler finds in its request.
RequestOK ==
    /\ request \in AckRequests
    /\ request.pc = "idle" => request = Idle
    /\ request.pc = "validated"
         => request.todo # {} /\ request.key = NoKey /\ request.verdict = None
    /\ request.pc \in InRequest \cup {"acknowledged"} => request.key \in Instances
    /\ request.pc = "evaluated" => request.verdict # None

Active(i) == slots[i] # Free

IsActive(alm) == head[alm] # NoSlot

\* find_slot or find_slot_for_plug: the instance that an alarm and a plug name.
Named(alm, plug) ==
    IF plug = NoPlug /\ IsActive(alm) THEN <<alm, head[alm]>> ELSE <<alm, plug>>

AckTypeOK ==
    /\ plant \in Plants
    /\ alertMode \in {"RUN", "SAFE_OFF", "EMERGENCY"}
    /\ alertSource \in Alarms \cup {None}
    /\ cause \in Alarms \cup {None}
    /\ slots \in [Instances -> Occurrences \cup {Free}]
    /\ head \in [Alarms -> Plugs \cup {NoPlug, NoSlot}]
    /\ stage \in [Instances -> Stages]
    /\ ackedSafeoff \in BOOLEAN
    /\ ackedEmergency \in BOOLEAN
    /\ lastThermal \in Alarms \cup {None}
    /\ RequestOK
    /\ crossed \subseteq Alarms

AckInit ==
    /\ plant \in Plants
    /\ alertMode = "RUN"
    /\ alertSource = None
    /\ cause = None
    /\ slots = [i \in Instances |-> Free]
    /\ head = [alm \in Alarms |-> NoSlot]
    /\ stage = [i \in Instances |-> "NONE"]
    /\ ackedSafeoff = FALSE
    /\ ackedEmergency = FALSE
    /\ lastThermal = None
    /\ request = Idle
    /\ crossed = {}

-----------------------------------------------------------------------------
(* The table: raise, withdraw, acknowledge.                                *)

TableFull == Cardinality({i \in Instances : Active(i)}) >= TableSlots

\* alert_manager_raise_full: an alarm that is there is only refreshed, with its
\* acknowledgement; a new one takes the first free slot, before or after others.
Raise(alm, plug, severity, required) ==
    LET i == <<alm, plug>> IN
    IF (plug = NoPlug /\ IsActive(alm)) \/ Active(i) \/ TableFull
    THEN UNCHANGED alarmTable
    ELSE /\ slots' = [slots EXCEPT ![i] = [severity |-> severity, required |-> required,
                                           acked |-> FALSE, acts |-> 0]]
         /\ \E first \in {plug, head[alm]} \ {NoSlot} : head' = [head EXCEPT ![alm] = first]
         /\ UNCHANGED stage

\* A withdrawal in the middle of a request on the same alarm; the next one that is
\* not forgets its stage for good.
Crosses(alm) ==
    crossed' = IF request.pc \in InRequest /\ request.key[1] = alm
               THEN crossed \cup {alm} ELSE crossed \ {alm}

Rest(alm, i) == {p \in Plugs \cup {NoPlug} : <<alm, p>> \in Instances \ {i} /\ Active(<<alm, p>>)}

\* Variant: the stage of the acknowledgement outlives the alarm.
WithdrawKeepingStage(i) ==
    /\ slots' = [slots EXCEPT ![i] = Free]
    /\ \E first \in IF head[i[1]] # i[2] THEN {head[i[1]]}
                    ELSE IF Rest(i[1], i) = {} THEN {NoSlot} ELSE Rest(i[1], i) :
         head' = [head EXCEPT ![i[1]] = first]
    /\ Crosses(i[1])
    /\ UNCHANGED stage

\* alert_manager_clear, alert_manager_clear_for_plug
Withdraw(i) ==
    /\ slots' = [slots EXCEPT ![i] = Free]
    /\ stage' = [stage EXCEPT ![i] = "NONE"]
    /\ \E first \in IF head[i[1]] # i[2] THEN {head[i[1]]}
                    ELSE IF Rest(i[1], i) = {} THEN {NoSlot} ELSE Rest(i[1], i) :
         head' = [head EXCEPT ![i[1]] = first]
    /\ Crosses(i[1])

Acted(occurrence) == [occurrence EXCEPT !.acts = IF @ = 2 THEN 2 ELSE @ + 1]

Acked(occurrence) == [Acted(occurrence) EXCEPT !.acked = TRUE]

-----------------------------------------------------------------------------
(* The safety task.                                                        *)

\* global_state_enter_safeoff
EntersSafeoff(alm, reasonAlm) ==
    IF alertMode = "SAFE_OFF"
    THEN UNCHANGED <<alertState, flags>>
    ELSE /\ alertMode' = "SAFE_OFF"
         /\ alertSource' = alm
         /\ cause' = reasonAlm
         /\ ackedSafeoff' = FALSE
         /\ UNCHANGED ackedEmergency

\* safety_controller_evaluate: a critical temperature.
Overheat ==
    /\ alertMode = "RUN"
    /\ EntersSafeoff("ALM-026", "ALM-026")
    /\ UNCHANGED <<alarmTable, lastThermal, request, crossed>>

\* The end of update_safety_outputs, in every iteration in SAFE_OFF.
RaiseCause ==
    /\ alertMode = "SAFE_OFF"
    /\ Raise(cause, NoPlug, "CRITICAL", TRUE)
    /\ UNCHANGED <<alertState, flags, lastThermal, request, crossed>>

\* global_state_enter_emergency; the reason of an earlier SAFE_OFF stays.
Extreme ==
    /\ alertMode # "EMERGENCY"
    /\ alertMode' = "EMERGENCY"
    /\ alertSource' = "ALM-028"
    /\ ackedEmergency' = FALSE
    /\ UNCHANGED <<cause, ackedSafeoff, alarmTable, lastThermal, request, crossed>>

\* handle_emergency_exit, when cause, sensors and time allow it.
ExitEmergency ==
    /\ alertMode = "EMERGENCY"
    /\ ackedEmergency
    /\ EntersSafeoff("ALM-028", "ALM-028")
    /\ UNCHANGED <<alarmTable, lastThermal, request, crossed>>

\* The restart sequence that an acknowledged SAFE_OFF may begin, and its end.
ExitSafeoff ==
    /\ alertMode = "SAFE_OFF"
    /\ ackedSafeoff
    /\ alertMode' = "RUN"
    /\ alertSource' = None
    /\ cause' = None
    /\ UNCHANGED <<flags, alarmTable, lastThermal, request, crossed>>

\* The heartbeat check: a critical task hangs.
HangCritical ==
    /\ EntersSafeoff("ALM-043", "ALM-060")
    /\ Raise("ALM-043", NoPlug, "CRITICAL", TRUE)
    /\ UNCHANGED <<lastThermal, request, crossed>>

\* The heartbeat check: any other task hangs.
HangOther ==
    /\ Raise("ALM-043", NoPlug, "HIGH", FALSE)
    /\ UNCHANGED <<alertState, flags, lastThermal, request, crossed>>

\* The heartbeat check: the task is back.  Not while in SAFE_OFF.
HangOver ==
    /\ alertMode # "SAFE_OFF"
    /\ IsActive("ALM-043")
    /\ Withdraw(<<"ALM-043", head["ALM-043"]>>)
    /\ UNCHANGED <<alertState, flags, lastThermal, request>>

\* fsm_alm_sync, first half: the thermal machine reports another alarm or none.
\* Of its alarms only the warning is cleared, and not before it is acknowledged.
ThermalGone ==
    /\ lastThermal # None
    /\ lastThermal' = None
    /\ LET i == Named(lastThermal, NoPlug) IN
       IF lastThermal = "ALM-015" /\ Active(i) /\ ~(slots[i].required /\ ~slots[i].acked)
       THEN Withdraw(i)
       ELSE UNCHANGED <<alarmTable, crossed>>
    /\ UNCHANGED <<alertState, flags, request>>

\* fsm_alm_sync, second half: raised once, when it changes.
ThermalRaised(alm) ==
    /\ lastThermal = None
    /\ lastThermal' = alm
    /\ Raise(alm, NoPlug, IF alm = "ALM-015" THEN "WARNING" ELSE "CRITICAL", TRUE)
    /\ UNCHANGED <<alertState, flags, request, crossed>>

\* alert_manager_check_ack_timeout
Escalate ==
    /\ \E i \in Instances : /\ slots[i].severity \in {"HIGH", "CRITICAL"}
                            /\ slots[i].required
                            /\ ~slots[i].acked
    /\ Raise("ALM-046", NoPlug, "CRITICAL", TRUE)
    /\ UNCHANGED <<alertState, flags, lastThermal, request, crossed>>

\* plug_actuate, and the failed restart sequence: a load does not come back.
LoadFault(plug) ==
    /\ Raise("ALM-056", plug, "HIGH", TRUE)
    /\ UNCHANGED <<alertState, flags, lastThermal, request, crossed>>

\* plug_actuate: the plug is on.
LoadOn(plug) ==
    /\ Active(<<"ALM-056", plug>>)
    /\ Withdraw(<<"ALM-056", plug>>)
    /\ UNCHANGED <<alertState, flags, lastThermal, request>>

\* plug_manager_toggle_ex, plug_set_handler: a critical plug is switched off by hand,
\* by another task than the safety task.
CriticalPlugOff(plug) ==
    /\ alertMode = "RUN"
    /\ Raise("ALM-065", plug, "CRITICAL", TRUE)
    /\ UNCHANGED <<alertState, flags, lastThermal, request, crossed>>

-----------------------------------------------------------------------------
(* The operator's requests.                                                *)

\* alerts_ack_handler with an alarm, and perhaps a plug: allowed in any mode.
AckAlert(i) ==
    /\ request.pc = "idle"
    /\ Active(Named(i[1], i[2]))
    /\ request' = Serving("validated", FALSE, {i}, NoKey, None)
    /\ UNCHANGED <<alertState, alarmTable, flags, lastThermal, crossed>>

\* Everything at once: the instances there are (web or local screen), or every
\* number, which is looked up when its turn comes.  command_validator_can_ack_alert
\* refuses both in the protected modes, as they are when it is asked.
AckAll ==
    /\ Bulk
    /\ request.pc = "idle"
    /\ alertMode = "RUN"
    /\ \E i \in Instances : Active(i)
    /\ \/ \E local \in BOOLEAN :
            request' = Serving("validated", local, {i \in Instances : Active(i)}, NoKey, None)
       \/ request' = Serving("validated", FALSE, plant \X {NoPlug}, NoKey, None)
    /\ UNCHANGED <<alertState, alarmTable, flags, lastThermal, crossed>>

\* After an alarm, the next of the list, or the end of the handler.
Proceed(rest) ==
    request' = IF rest = {} THEN Idle ELSE Serving("validated", request.local, rest, NoKey, None)

\* The web handlers go on to the acknowledgement of the mode only when the alarm
\* took the request, the local screen always.
Answered(i, ok, rest) ==
    IF ok \/ request.local
    THEN request' = Serving("acknowledged", request.local, rest, i, None)
    ELSE Proceed(rest)

\* alert_manager_ack_with_policy and its variant by instance: is the alarm there,
\* and is it a critical one, which takes two requests under the same key?
LookUp(i) ==
    LET named == Named(i[1], i[2])
        rest == request.todo \ {i}
        pc == IF slots[named].severity = "CRITICAL" THEN "staging" ELSE "marking"
    IN /\ request.pc = "validated"
       /\ i \in request.todo
       /\ IF Active(named)
          THEN request' = Serving(pc, request.local, rest, i, None)
          ELSE Answered(i, FALSE, rest)
       /\ UNCHANGED <<alertState, alarmTable, flags, lastThermal, crossed>>

\* Variant: the first request acknowledges the alarm, the second only confirms.
RecordStageAtOnce ==
    /\ request.pc = "staging"
    /\ IF stage[request.key] = "CONFIRMED"
       THEN Answered(request.key, FALSE, request.todo) /\ UNCHANGED stage
       ELSE /\ stage' = [stage EXCEPT ![request.key] = IF @ = "NONE" THEN "FIRST" ELSE "CONFIRMED"]
            /\ request' = [request EXCEPT !.pc = "marking"]
    /\ UNCHANGED <<alertState, slots, head, flags, lastThermal, crossed>>

\* alert_manager_ext_ack_critical_instance, once it has found a critical alarm: the
\* stage is recorded, whether or not the alarm is there still.
RecordStage ==
    LET i == request.key
        named == Named(i[1], i[2])
        room == Cardinality({j \in Instances : stage[j] # "NONE"}) < AckStates
    IN /\ request.pc = "staging"
       /\ \/ /\ stage[i] = "NONE" /\ room
             /\ stage' = [stage EXCEPT ![i] = "FIRST"]
             /\ slots' = IF Active(named) THEN [slots EXCEPT ![named] = Acted(@)] ELSE slots
             /\ Answered(i, TRUE, request.todo)
          \/ /\ stage[i] = "FIRST"
             /\ stage' = [stage EXCEPT ![i] = "CONFIRMED"]
             /\ request' = [request EXCEPT !.pc = "marking"]
             /\ UNCHANGED slots
          \/ /\ stage[i] = "CONFIRMED" \/ (stage[i] = "NONE" /\ ~room)
             /\ Answered(i, FALSE, request.todo)
             /\ UNCHANGED <<slots, stage>>
       /\ UNCHANGED <<alertState, head, flags, lastThermal, crossed>>

\* alert_manager_ack, alert_manager_ack_instance: looked up once more, and marked.
Mark ==
    LET named == Named(request.key[1], request.key[2])
    IN /\ request.pc = "marking"
       /\ slots' = IF Active(named) THEN [slots EXCEPT ![named] = Acked(@)] ELSE slots
       /\ Answered(request.key, Active(named), request.todo)
       /\ UNCHANGED <<alertState, head, stage, flags, lastThermal, crossed>>

\* all_required_alerts_acked: only the first slot of an alarm is looked at, and
\* a critical one counts with the stage kept under the alarm without a plug.
AllRequiredAcked ==
    \A alm \in Alarms :
      LET first == slots[<<alm, head[alm]>>] IN
      IsActive(alm) /\ first.required /\ first.severity \in {"HIGH", "CRITICAL"}
        => /\ first.acked
           /\ first.severity = "CRITICAL" => stage[<<alm, NoPlug>>] = "CONFIRMED"

\* Variant: only the alarms as a whole count.
SourceAckedNever(alm) == FALSE

\* safe_state_ack_on_alert_ack: the alarm behind the current SAFE_OFF.
SourceAcked(alm) ==
    LET first == slots[<<alm, head[alm]>>] IN
    /\ alertMode = "SAFE_OFF"
    /\ alertSource = alm
    /\ IsActive(alm)
    /\ first.acked
    /\ first.severity = "CRITICAL" => stage[<<alm, NoPlug>>] = "CONFIRMED"

\* safe_state_ack_on_alert_ack, first half: read the table and the mode.
Judge ==
    /\ request.pc = "acknowledged"
    /\ IF AllRequiredAcked \/ SourceAcked(request.key[1])
       THEN request' = Serving("evaluated", request.local, request.todo, NoKey,
                               IF AllRequiredAcked THEN "all" ELSE "source")
       ELSE Proceed(request.todo)
    /\ UNCHANGED <<alertState, alarmTable, flags, lastThermal, crossed>>

\* Second half: store the acknowledgement, whatever happened since.
Store ==
    /\ request.pc = "evaluated"
    /\ ackedSafeoff' = TRUE
    /\ ackedEmergency' = (ackedEmergency \/ request.verdict = "all")
    /\ Proceed(request.todo)
    /\ UNCHANGED <<alertState, alarmTable, lastThermal, crossed>>

-----------------------------------------------------------------------------

AlarmTask ==
    \/ "ALM-026" \in plant /\ Overheat
    \/ RaiseCause
    \/ "ALM-028" \in plant /\ Extreme
    \/ ExitEmergency
    \/ ExitSafeoff
    \/ {"ALM-043", "ALM-060"} \subseteq plant /\ HangCritical
    \/ "ALM-043" \in plant /\ (HangOther \/ HangOver)
    \/ ThermalGone
    \/ \E alm \in plant \cap {"ALM-015", "ALM-026", "ALM-028"} : ThermalRaised(alm)
    \/ "ALM-046" \in plant /\ Escalate
    \/ "ALM-056" \in plant /\ \E plug \in Plugs : LoadFault(plug) \/ LoadOn(plug)

\* The web task or the local screen.
PlugSwitched == "ALM-065" \in plant /\ \E plug \in Plugs : CriticalPlugOff(plug)

Handler == (\E i \in Instances : LookUp(i)) \/ RecordStage \/ Mark \/ Judge \/ Store

AckNext ==
    /\ UNCHANGED plant
    /\ \/ AlarmTask
       \/ PlugSwitched
       \/ \E i \in Instances : AckAlert(i)
       \/ AckAll
       \/ Handler

AckSpec == AckInit /\ [][AckNext]_ackVars

\* The safety task keeps looping and a request is carried to its end.
Scheduling == WF_ackVars(UNCHANGED plant /\ RaiseCause) /\ WF_ackVars(UNCHANGED plant /\ Handler)

\* The operator keeps acknowledging, by its number, the alarm behind the mode.
AckSource == alertSource # None /\ AckAlert(<<alertSource, NoPlug>>)

FairAckSpec == AckSpec /\ Scheduling /\ SF_ackVars(UNCHANGED plant /\ AckSource)

\* The operator keeps acknowledging every alarm that is there.
DiligentSpec ==
    AckSpec /\ Scheduling
            /\ \A alm \in Alarms : SF_ackVars(UNCHANGED plant /\ AckAlert(<<alm, NoPlug>>))

-----------------------------------------------------------------------------
(* Properties                                                              *)

\* A critical alarm is acknowledged only by two requests that were recorded while it
\* stood, whatever is raised, withdrawn and raised again meanwhile.  Not so, as
\* nothing is locked, for an alarm that was withdrawn in the middle of a request on
\* it, until it is withdrawn once more; nor for ALM-065, where the requests by
\* number share one stage between the plugs.
DoubleAck ==
    \A i \in Instances \ ({"ALM-065"} \X (Plugs \cup {NoPlug})) :
      slots[i].severity = "CRITICAL" /\ slots[i].acked /\ i[1] \notin crossed
        => slots[i].acts = 2

\* The record of a double acknowledgement and the alarm, two tables written by
\* different functions, agree: with the same exception no stage outlives its alarm,
\* so that the next occurrence starts afresh, and a confirmed one stands beside an
\* acknowledged alarm, or one that is about to be marked.
StageFollowsAlarm ==
    \A i \in Instances :
      stage[i] # "NONE" /\ i[1] \notin crossed
        => \E j \in Instances :
             /\ j[1] = i[1]
             /\ i[2] # NoPlug => j = i
             /\ Active(j)
             /\ stage[i] = "CONFIRMED"
                  => slots[j].acked \/ (request.pc = "marking" /\ request.key = i)

\* An operator who keeps acknowledging gets through: when the alarm behind a
\* SAFE_OFF has not been acknowledged before, the acknowledgement of the mode
\* follows, although other alarms keep coming and the handler is interrupted.
Fresh ==
    /\ alertMode = "SAFE_OFF"
    /\ alertSource # None
    /\ IsActive(alertSource)
    /\ ~slots[<<alertSource, head[alertSource]>>].acked

FreshGetsAcknowledged == Fresh ~> (ackedSafeoff \/ alertMode # "SAFE_OFF")

\* Every SAFE_OFF can be acknowledged by an operator who keeps trying.
EveryGetsAcknowledged == alertMode = "SAFE_OFF" ~> (ackedSafeoff \/ alertMode # "SAFE_OFF")
=============================================================================
