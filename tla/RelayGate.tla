------------------------------ MODULE RelayGate ------------------------------
(***************************************************************************)
(* The single route to the relays: drivers/relay_abstraction.c on top of   *)
(* drivers/driver_relay.c.  P01 (heater) and P02 (cooler) are GPIOs, the   *)
(* others sit behind an MCP23017 expander on I2C.  Three records describe  *)
(* a relay: the table of the abstraction (s_states), the state word of the *)
(* driver (s_relay_state) and the contact itself.                          *)
(*                                                                         *)
(* The safety and plug_control tasks (plug_manager_tick), the web and the  *)
(* UI task (plug_manager_toggle_ex) all take this route and no lock covers *)
(* it, so a call is a sequence of steps: those of other tasks' calls and   *)
(* changes of the global state may come between any two of them.           *)
(*                                                                         *)
(* BLOCKED is left out: nothing calls relay_abstraction_set_blocked.  The  *)
(* self-test has passed, monitor-only mode and the 500 ms lockout, which   *)
(* only refuse more, are off.                                              *)
(***************************************************************************)
EXTENDS Integers, FiniteSets

CONSTANTS
    Expanded,       \* relays behind the expander, of P03 .. P10
    Others,         \* the tasks other than safety_core that switch relays
    MaxFaults       \* bound on the failed I2C writes of a behaviour

Direct == {"P01", "P02"}

ASSUME RelaysAssumption == Expanded \cap Direct = {}

ASSUME TasksAssumption == "safety" \notin Others

ASSUME FaultsAssumption == MaxFaults \in Nat

Tasks == Others \union {"safety"}

Relays == Direct \union Expanded

VARIABLES
    relayMode,      \* g_gs.system_state: NORMAL, or SAFE_OFF for both protected states
    energised,      \* the contacts that are closed
    driver,         \* s_relay_state
    table,          \* the relays that s_states has as RELAY_STATE_ON
    place,          \* where each task is in its call
    switching,      \* what each task is switching
    mask,           \* the expander mask each task has computed
    sweeps,         \* relay_abstraction_all_off calls left for the safety task
    expander,       \* s_mcp23017_ok, decided at boot
    faults,         \* failed I2C writes so far
    overlap         \* history: whether two calls have overlapped

records == <<energised, driver, table>>
calls == <<place, switching, mask>>
relayVars == <<relayMode, records, calls, sweeps, expander, faults, overlap>>

RelayLocations ==
    {"idle", "load", "note", "drive", "conclude",
     "sweep", "sweepDirect", "sweepExpander", "sweepConclude"}

RelayTypeOK ==
    /\ relayMode \in {"NORMAL", "SAFE_OFF"}
    /\ energised \subseteq Relays
    /\ driver \subseteq Relays
    /\ table \subseteq Relays
    /\ place \in [Tasks -> RelayLocations]
    /\ switching \in [Tasks -> [relay : Relays, on : BOOLEAN]]
    /\ mask \in [Tasks -> SUBSET Expanded]
    /\ sweeps \in 0 .. 2
    /\ expander \in BOOLEAN
    /\ faults \in 0 .. MaxFaults
    /\ overlap \in {"no", "yes", "mending"}

NoRequest == [relay |-> "P01", on |-> FALSE]

\* relay_init_safe and relay_abstraction_init; the requests are placeholders.
RelayInit ==
    /\ relayMode = "NORMAL"
    /\ energised = {}
    /\ driver = {}
    /\ table = {}
    /\ place = [t \in Tasks |-> "idle"]
    /\ switching = [t \in Tasks |-> NoRequest]
    /\ mask = [t \in Tasks |-> {}]
    /\ sweeps = 0
    /\ expander \in BOOLEAN
    /\ faults = 0
    /\ overlap = "no"

-----------------------------------------------------------------------------
\* A task is inside a call: past the checks of a set, or in an all_off.
InCall(t) == place[t] \notin {"idle", "sweep"}

\* What overlapping calls leave behind lasts until an all_off has run by itself.
BeginsCall(t) == overlap' = IF \E u \in Tasks \ {t} : InCall(u) THEN "yes" ELSE overlap

BeginsSweep(t) ==
    overlap' = CASE \E u \in Tasks \ {t} : InCall(u) -> "yes"
                 [] overlap = "yes" /\ \A u \in Tasks \ {t} : ~InCall(u) -> "mending"
                 [] OTHER -> overlap

EndsSweep == overlap' = IF overlap = "mending" THEN "no" ELSE overlap

Goto(t, here, there) ==
    /\ place[t] = here
    /\ place' = [place EXCEPT ![t] = there]

\* relays with r switched on or off
WithRelay(relays, r, on) == IF on THEN relays \union {r} ELSE relays \ {r}

\* Variant that the checks must reject: only the heater looks at the cooler.
InterlockedOneWay(r) == r = "P01" /\ "P02" \in table

\* P01 and P02 exclude each other, by the table.
Interlocked(r) ==
    \/ r = "P01" /\ "P02" \in table
    \/ r = "P02" /\ "P01" \in table

\* The I2C write of the expander mask: it lands, or it fails.
ExpanderWritten(m) ==
    /\ energised' = (energised \cap Direct) \union m
    /\ UNCHANGED faults

ExpanderFault ==
    /\ faults < MaxFaults
    /\ faults' = faults + 1
    /\ UNCHANGED energised

-----------------------------------------------------------------------------
(* relay_abstraction_set, on behalf of task t                              *)

\* The checks pass, on the table and on a snapshot of the global state.
GrantSet(t, r, on) ==
    /\ BeginsCall(t)
    /\ relayMode = "NORMAL"
    /\ on => ~Interlocked(r)
    /\ r \in Expanded => expander
    /\ Goto(t, "idle", IF r \in Direct THEN "drive" ELSE "load")
    /\ switching' = [switching EXCEPT ![t] = [relay |-> r, on |-> on]]
    /\ UNCHANGED <<relayMode, records, mask, sweeps, expander, faults>>

\* In a protected state every request, on or off, becomes an all_off.
Deny(t) ==
    /\ relayMode = "SAFE_OFF"
    /\ Goto(t, "idle", "sweep")
    /\ UNCHANGED <<relayMode, records, switching, mask, sweeps, expander, faults, overlap>>

\* relay_set computes the expander mask from the driver's state ...
LoadMask(t) ==
    /\ Goto(t, "load", "note")
    /\ mask' = [mask EXCEPT ![t] =
                  WithRelay(driver \cap Expanded, switching[t].relay, switching[t].on)]
    /\ UNCHANGED <<relayMode, records, switching, sweeps, expander, faults, overlap>>

\* Variant: the new mask replaces the bits of P01 and P02, too.
StoreDriverOverwriting(t) ==
    LET r == switching[t].relay
    IN /\ Goto(t, "note", IF r \in Direct THEN "conclude" ELSE "drive")
       /\ driver' = IF r \in Direct THEN WithRelay(driver, r, switching[t].on) ELSE mask[t]
       /\ UNCHANGED <<relayMode, energised, table, switching, mask, sweeps, expander,
                      faults, overlap>>

\* ... relay_set_p03_p10_mask stores it there before the write,
\* relay_set_p01 and relay_set_p02 after it.
StoreDriver(t) ==
    LET r == switching[t].relay
    IN /\ Goto(t, "note", IF r \in Direct THEN "conclude" ELSE "drive")
       /\ driver' = IF r \in Direct
                    THEN WithRelay(driver, r, switching[t].on)
                    ELSE (driver \cap Direct) \union mask[t]
       /\ UNCHANGED <<relayMode, energised, table, switching, mask, sweeps, expander,
                      faults, overlap>>

DriveDirect(t) ==
    /\ switching[t].relay \in Direct
    /\ Goto(t, "drive", "note")
    /\ energised' = WithRelay(energised, switching[t].relay, switching[t].on)
    /\ UNCHANGED <<relayMode, driver, table, switching, mask, sweeps, expander, faults, overlap>>

\* The call returns, and its arguments and its mask with it.
Return(t) ==
    /\ switching' = [switching EXCEPT ![t] = NoRequest]
    /\ mask' = [mask EXCEPT ![t] = {}]

\* A failed write is returned to the caller; the driver's state keeps the wish.
DriveExpander(t) ==
    /\ switching[t].relay \in Expanded
    /\ \/ Goto(t, "drive", "conclude") /\ ExpanderWritten(mask[t]) /\ UNCHANGED <<switching, mask>>
       \/ Goto(t, "drive", "idle") /\ ExpanderFault /\ Return(t)
    /\ UNCHANGED <<relayMode, driver, table, sweeps, expander, overlap>>

Conclude(t) ==
    /\ Goto(t, "conclude", "idle")
    /\ table' = WithRelay(table, switching[t].relay, switching[t].on)
    /\ Return(t)
    /\ UNCHANGED <<relayMode, energised, driver, sweeps, expander, faults, overlap>>

-----------------------------------------------------------------------------
(* relay_abstraction_all_off                                               *)

SweepDriver(t) ==
    /\ BeginsSweep(t)
    /\ Goto(t, "sweep", "sweepDirect")
    /\ driver' = {}
    /\ UNCHANGED <<relayMode, energised, table, switching, mask, sweeps, expander, faults>>

\* Variant: the cooler is forgotten.
SweepDirectHeaterOnly(t) ==
    /\ Goto(t, "sweepDirect", "sweepExpander")
    /\ energised' = energised \ {"P01"}
    /\ UNCHANGED <<relayMode, driver, table, switching, mask, sweeps, expander, faults, overlap>>

SweepDirect(t) ==
    /\ Goto(t, "sweepDirect", "sweepExpander")
    /\ energised' = energised \ Direct
    /\ UNCHANGED <<relayMode, driver, table, switching, mask, sweeps, expander, faults, overlap>>

\* enter_safeoff calls all_off itself and again through plug_manager_apply_safe_off.
MoreSweeps(t) == t = "safety" /\ sweeps > 1

AfterSweep(t) == IF MoreSweeps(t) THEN "sweep" ELSE "idle"

CountSweep(t) == sweeps' = IF t = "safety" /\ sweeps > 0 THEN sweeps - 1 ELSE sweeps

\* Variant: the write is saved because the driver's state is already empty.
SweepExpanderAssumed(t) ==
    /\ Goto(t, "sweepExpander", "sweepConclude")
    /\ UNCHANGED <<relayMode, records, switching, mask, sweeps, expander, faults, overlap>>

\* Without an expander, or after a failed write, the table stays as it is.
SweepExpander(t) ==
    /\ \/ /\ expander
          /\ Goto(t, "sweepExpander", "sweepConclude")
          /\ ExpanderWritten({})
          /\ UNCHANGED sweeps
       \/ /\ expander
          /\ Goto(t, "sweepExpander", AfterSweep(t))
          /\ ExpanderFault
          /\ CountSweep(t)
       \/ /\ ~expander
          /\ Goto(t, "sweepExpander", AfterSweep(t))
          /\ CountSweep(t)
          /\ UNCHANGED <<energised, faults>>
    /\ EndsSweep
    /\ UNCHANGED <<relayMode, driver, table, switching, mask, expander>>

SweepConclude(t) ==
    /\ Goto(t, "sweepConclude", AfterSweep(t))
    /\ table' = {}
    /\ CountSweep(t)
    /\ UNCHANGED <<relayMode, energised, driver, switching, mask, expander, faults, overlap>>

-----------------------------------------------------------------------------
(* The safety task changes the global state, and plug_manager_tick turns   *)
(* off in SAFE_OFF what the driver's state says is on.                     *)

\* global_state_enter_safeoff, global_state_enter_emergency
EnterSafeOff ==
    /\ relayMode = "NORMAL"
    /\ relayMode' = "SAFE_OFF"
    /\ Goto("safety", "idle", "sweep")
    /\ sweeps' = 2
    /\ UNCHANGED <<records, switching, mask, expander, faults, overlap>>

\* global_state_enter_normal, at the end of a restart sequence
LeaveSafeOff ==
    /\ relayMode = "SAFE_OFF"
    /\ place["safety"] = "idle"
    /\ relayMode' = "NORMAL"
    /\ UNCHANGED <<records, calls, sweeps, expander, faults, overlap>>

TickOff ==
    /\ driver # {}
    /\ Deny("safety")

-----------------------------------------------------------------------------

Call(t) ==
    \/ LoadMask(t)
    \/ StoreDriver(t)
    \/ DriveDirect(t)
    \/ DriveExpander(t)
    \/ Conclude(t)
    \/ SweepDriver(t)
    \/ SweepDirect(t)
    \/ SweepExpander(t)
    \/ SweepConclude(t)

Request(t) ==
    \/ \E r \in Relays, on \in BOOLEAN : GrantSet(t, r, on)
    \/ Deny(t)

RelayNext ==
    \/ \E t \in Tasks : Request(t) \/ Call(t)
    \/ EnterSafeOff
    \/ LeaveSafeOff

RelaySpec == RelayInit /\ [][RelayNext]_relayVars

\* A call that has begun ends, and the periodic safety task makes its ticks.
FairRelaySpec ==
    /\ RelaySpec
    /\ \A t \in Tasks : WF_relayVars(Call(t))
    /\ WF_relayVars(TickOff)

-----------------------------------------------------------------------------
(* Properties                                                              *)

AllIdle == \A t \in Tasks : place[t] = "idle"

\* Heater and cooler are never energised together.  The check reads a table that
\* is written last, so two overlapping calls can pass it (RB-EST-003).
NeverBoth == ~ Direct \subseteq energised

\* Only overlapping calls can do that: a task by itself cannot, in the middle of a
\* call either, whatever failed before, and an all_off that runs by itself ends
\* what an overlap has left behind.
Interlock == overlap = "no" => NeverBoth

\* Between calls the table never takes an energised heater or cooler for off,
\* after any sequence of failed and denied calls: the interlock relies on it.
TableCoversDirect == AllIdle /\ overlap = "no" => energised \cap Direct \subseteq table

\* As long as every write succeeded, the driver's state is the truth between calls,
\* although it is updated before the write on one path and after it on the other;
\* one all_off without interference repairs a word that overlapping calls spoiled.
DriverHonest == AllIdle /\ overlap = "no" /\ faults = 0 => driver = energised

\* When the sweeps of a SAFE_OFF or an EMERGENCY are over and until it is left, heater
\* and cooler are off even if the expander failed in the middle, and every relay is
\* unless it did.  A call that crossed a sweep may have left one on; an all_off that
\* runs by itself afterwards mends that.
PowerIsCut ==
    relayMode = "SAFE_OFF" /\ AllIdle /\ overlap = "no"
        => energised \cap Direct = {} /\ (faults = 0 => energised = {})

\* SAFE_OFF and EMERGENCY de-energise every relay, as RB-EST-005 of
\* docs/STATE_RULES.md has it.
CutsPower == relayMode = "SAFE_OFF" ~> (energised = {} \/ relayMode # "SAFE_OFF")
=============================================================================
