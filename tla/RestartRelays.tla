---------------------------- MODULE RestartRelays ----------------------------
(***************************************************************************)
(* What becomes of the relays that the restart sequence offers: RestartFsm *)
(* beside plug_manager_tick (services/plug_manager.c) and the gate         *)
(* (drivers/relay_abstraction.c), for the plugs that the automatic mode    *)
(* wants on at all times.                                                  *)
(*                                                                         *)
(* The tick is run by the safety task once per iteration, and by the       *)
(* plug-control task at any time.                                          *)
(***************************************************************************)
EXTENDS RestartFsm, FiniteSets

CONSTANTS
    Group,      \* of each such plug, by bit: its group in the order of the SRS
    MinOff      \* min_off_time_s, in iterations

VARIABLES
    closed,     \* the plugs whose relay is energised
    rest        \* age of s_last_toggle_ms, up to MinOff

relays == <<closed, rest>>

Auto == DOMAIN Group

RelaysInit ==
    /\ SequenceInit
    /\ closed = IF sequenceMode = "NORMAL" THEN Auto ELSE {}
    /\ rest = [p \in Auto |-> MinOff]

\* The plugs that plug_manager_tick tries to switch on.
Tries ==
    {p \in Auto \ closed : /\ sequenceMode = "NORMAL" \/ p \in restartMask
                           /\ rest[p] >= MinOff}

\* An attempt counts as a toggle even if relay_abstraction_set refuses it, as it
\* does every ON in SAFE_OFF and EMERGENCY, where it opens all relays instead.
Actuate ==
    closed' = IF sequenceMode = "NORMAL" THEN closed \cup Tries ELSE {}

PlugControlTick ==
    /\ Actuate
    /\ rest' = [p \in Auto |-> IF p \in Tries THEN 0 ELSE rest[p]]
    /\ UNCHANGED sequenceVars

\* The end of an iteration of the safety task: its tick, then its delay.
TickAndDelay ==
    /\ NextIteration
    /\ Actuate
    /\ rest' = [p \in Auto |->
                   LET age == IF p \in Tries THEN 0 ELSE rest[p]
                   IN IF age < MinOff THEN age + 1 ELSE age]

\* plug_manager_apply_safe_off opens every relay and stamps none.
Protect ==
    /\ EnterProtected
    /\ closed' = {}
    /\ UNCHANGED rest

RelaysNext ==
    \/ TickAndDelay
    \/ PlugControlTick
    \/ Protect
    \/ /\ Begin \/ Finish \/ GiveUp \/ Advance \/ Skip \/ ApiSetsFlag \/ ReloadSequence
       /\ UNCHANGED relays

RelaysSpec == RelaysInit /\ [][RelaysNext]_<<sequenceVars, relays>>

-----------------------------------------------------------------------------
\* Relays of different groups are not energised in one and the same tick: the SRS
\* asks for an order and a delay between the groups (RF-PLUG-009).
GroupByGroup ==
    [][\A p, q \in closed' \ closed : Group[p] = Group[q]]_<<sequenceVars, relays>>
=============================================================================
