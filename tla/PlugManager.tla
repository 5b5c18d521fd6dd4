------------------------------- MODULE PlugManager -------------------------------
(***************************************************************************)
(* The plug manager (services/plug_manager.c): what one plug wants, and    *)
(* the gate of minimum times between that and its relay.  The loop of      *)
(* plug_manager_tick treats each plug by itself, so one plug of any type   *)
(* is modelled.                                                            *)
(*                                                                         *)
(* Three callers work on the same tables, without a lock: the safety task  *)
(* ticks with the values of this instant, the plug_control task ticks with *)
(* values read before the call, and a hand (web, screen, or the end of a   *)
(* feeding, that uses the same function) switches the plug from the other  *)
(* core.  Each of them first decides, then switches the relay, then notes  *)
(* the time; another caller may come in between.  A hand goes by the exact *)
(* time, a tick by whole seconds: the `lag' of a caller is how much earlier *)
(* than now its time is.  Differences of times are unsigned.               *)
(*                                                                         *)
(* The relay abstraction may refuse to switch on, or fail to switch (see   *)
(* RelayGate); alarms, energy and bypass detection are left out.           *)
(***************************************************************************)
EXTENDS Integers, FiniteSets

CONSTANTS
    PlugTypes,  \* of {"PUMP", "THERMAL", "ALWAYS", "OTHER"}
    MinOn,      \* min_on_time_s
    MinOff,     \* min_off_time_s
    TickPeriod, \* longest time between two ticks of the safety task
    MaxLag,     \* how far a caller's time may be behind until it is done
    PlugAgeCap, \* ages are not told apart above this one
    MaxChanges, \* bound on what happens to the plug besides ticks and hands
    MaxBusy     \* bound on the callers at work at the same time

ASSUME PlugAssumption ==
    /\ PlugTypes \subseteq {"PUMP", "THERMAL", "ALWAYS", "OTHER"}
    /\ MinOn \in Nat /\ MinOff \in Nat /\ TickPeriod \in Nat /\ MaxLag \in Nat
    /\ PlugAgeCap \in Nat /\ MaxChanges \in Nat /\ MaxBusy \in Nat
    /\ PlugAgeCap > MinOn + MaxLag
    /\ PlugAgeCap > MinOff + MaxLag

VARIABLES
    plugType,
    plugMode,         \* mode: AUTO, or one that keeps the relay as it is
    plugProtected,    \* g_gs.system_state is SAFE_OFF or EMERGENCY
    monitorOnly,      \* g_gs.monitor_only_mode
    feedActive,       \* g_gs.feed_active
    request,          \* s_thermal_heater/cooler, s_ato_pump_request
    offered,          \* the plug's bit of s_restart_energized_mask
    inSafeOff,        \* s_in_safe_off
    monitorBlocked,   \* monitor_only_blocked
    safeStateBlocked, \* blocked_by_safe_state
    plugBlocked,      \* blocked
    overcurrent,      \* overcurrent_count
    hold,             \* s_feed_hold_active, s_feed_hold_state
    relay,            \* relay_get
    toggleAge,        \* now - s_last_toggle_ms
    called,           \* arguments the plug_control task is about to use
    caller,           \* where each caller is
    sinceTick,        \* time since the safety task decided
    changes,          \* bound: what has happened besides ticks and hands
    sinceSwitch,      \* history: time, while on, since a noted switch was tried
    unwanted          \* history: for how long it has been on with nobody wanting it

world == <<plugProtected, monitorOnly, feedActive, request, offered>>

marks == <<monitorBlocked, safeStateBlocked, plugBlocked, overcurrent>>

plugVars == <<plugType, plugMode, world, inSafeOff, marks, hold, relay, toggleAge,
              called, caller, sinceTick, changes, sinceSwitch, unwanted>>

PlugCallers == {"safety", "plug_control", "hand"}

Away == [step |-> "away", on |-> FALSE, lag |-> 0]

Places == [step : {"away", "decided", "switched"}, on : BOOLEAN, lag : 0 .. MaxLag]

NoArguments == [protected |-> FALSE, feed |-> FALSE, lag |-> -1]

Arguments == [protected : BOOLEAN, feed : BOOLEAN, lag : 0 .. MaxLag]

\* How long a tick with arguments of this instant may be in coming and acting.
Grace == TickPeriod + MaxLag + MaxLag

PlugTypeOK ==
    /\ plugType \in PlugTypes
    /\ plugMode \in {"AUTO", "MANUAL"}
    /\ {plugProtected, monitorOnly, feedActive, request, offered} \subseteq BOOLEAN
    /\ {inSafeOff, monitorBlocked, safeStateBlocked} \subseteq BOOLEAN
    /\ {plugBlocked, relay} \subseteq BOOLEAN
    /\ overcurrent \in 0 .. 3
    /\ hold \in [active : BOOLEAN, on : BOOLEAN]
    /\ toggleAge \in 0 .. PlugAgeCap
    /\ called \in Arguments \cup {NoArguments}
    /\ caller \in [PlugCallers -> Places]
    /\ sinceTick \in 0 .. TickPeriod
    /\ changes \in 0 .. MaxChanges
    /\ sinceSwitch \in 0 .. MinOn + Grace + 1
    /\ unwanted \in 0 .. Grace + 1

PlugInit ==
    /\ plugType \in PlugTypes
    /\ plugMode = "AUTO"
    /\ plugProtected = FALSE
    /\ monitorOnly \in BOOLEAN
    /\ feedActive = FALSE
    /\ request = FALSE
    /\ offered = FALSE
    /\ inSafeOff = FALSE
    /\ monitorBlocked = FALSE
    /\ safeStateBlocked = FALSE
    /\ plugBlocked = FALSE
    /\ overcurrent = 0
    /\ hold = [active |-> FALSE, on |-> FALSE]
    /\ relay = FALSE
    /\ toggleAge = 0
    /\ called = NoArguments
    /\ caller = [c \in PlugCallers |-> Away]
    /\ sinceTick = 0
    /\ changes = 0
    /\ sinceSwitch = 0
    /\ unwanted = 0

AtWork(c) == caller[c] # Away \/ (c = "plug_control" /\ called # NoArguments)

MayBegin(c) == ~AtWork(c) /\ Cardinality({b \in PlugCallers : AtWork(b)}) < MaxBusy

---------------------------------------------------------------------------------
(* One tick, for arguments that say whether the system is protected and    *)
(* feeding, and how old they are.                                           *)

\* now_ms - s_last_toggle_ms: a switch later than the caller's time makes the
\* difference wrap, and every minimum time seem long over.
Elapsed(lag) == IF lag > toggleAge THEN PlugAgeCap ELSE toggleAge - lag

\* On the edge into feeding the relay is remembered; only for the plugs that
\* will be kept as they are, the others make no use of it.
HoldAfter(args) ==
    LET kept == plugType \notin {"PUMP", "THERMAL"}
    IN  CASE kept /\ args.feed /\ ~hold.active /\ ~args.protected ->
                [active |-> TRUE, on |-> relay]
          [] kept /\ ~args.feed -> [hold EXCEPT !.active = FALSE]
          [] OTHER -> hold

\* RF-PLUG-003: two samples above the limit switch off, the third blocks.
CountAfter(current) ==
    CASE ~plugBlocked /\ relay /\ current = "ABOVE" -> overcurrent + 1
      [] ~plugBlocked /\ current = "BELOW" -> 0
      [] OTHER -> overcurrent

Overcurrent(current) == ~plugBlocked /\ relay /\ current = "ABOVE"

BlockedAfter(current) == plugBlocked \/ (Overcurrent(current) /\ overcurrent >= 2)

\* What the plug wants, `now' being its relay after the overcurrent check.
Automation(now) ==
    CASE plugMode # "AUTO" -> now
      [] plugMode = "AUTO" /\ plugType \in {"PUMP", "THERMAL"} -> request
      [] plugMode = "AUTO" /\ plugType = "ALWAYS" -> TRUE
      [] OTHER -> now

DuringFeed(kept) ==
    CASE plugType = "PUMP" -> FALSE
      [] plugType = "THERMAL" -> request
      [] OTHER -> kept

\* In a protected state a plug wants on when the restart sequence offers it.
Wanted(args, now) ==
    CASE monitorOnly -> FALSE
      [] ~monitorOnly /\ args.protected -> offered
      [] ~monitorOnly /\ ~args.protected /\ args.feed -> DuringFeed(HoldAfter(args).on)
      [] OTHER -> Automation(now)

TargetIgnoringBlock(args, now, isBlocked) == Wanted(args, now)

Target(args, now, isBlocked) == ~isBlocked /\ Wanted(args, now)

GateOpen(on, lag) == Elapsed(lag) >= (IF on THEN MinOff ELSE MinOn)

\* The relay abstraction refuses to switch on in monitor mode; in a protected state
\* it refuses everything and switches all relays off; and it may always fail.
Switched(now, on) ==
    CASE plugProtected -> {now, FALSE}
      [] ~plugProtected /\ on /\ monitorOnly -> {now}
      [] OTHER -> {now, on}

\* Up to the decision to switch: the overcurrent check, that switches off at once,
\* the marks, the target and the gate of minimum times.
Decide(c, args) ==
    /\ \E current \in {"BELOW", "NEAR", "ABOVE"} :
       \E now \in IF Overcurrent(current) THEN Switched(relay, FALSE) ELSE {relay} :
          LET isBlocked == BlockedAfter(current)
              target == Target(args, now, isBlocked)
              switches == target # now /\ GateOpen(target, args.lag)
          IN  /\ relay' = now
              /\ caller' = [caller EXCEPT ![c] =
                              IF switches
                              THEN [step |-> "decided", on |-> target, lag |-> args.lag]
                              ELSE Away]
              /\ plugBlocked' = isBlocked
              /\ overcurrent' = CountAfter(current)
    /\ inSafeOff' = args.protected
    /\ hold' = HoldAfter(args)
    /\ monitorBlocked' = monitorOnly
    /\ safeStateBlocked' = (~monitorOnly /\ args.protected /\ ~offered)
    /\ UNCHANGED <<plugType, plugMode, world, toggleAge>>

SafetyDecides ==
    /\ MayBegin("safety")
    /\ \E lag \in 0 .. MaxLag :
          Decide("safety", [protected |-> plugProtected, feed |-> feedActive, lag |-> lag])
    /\ sinceTick' = 0
    /\ UNCHANGED called

PlugTaskReads ==
    /\ MayBegin("plug_control")
    /\ \E lag \in 0 .. MaxLag :
          called' = [protected |-> plugProtected, feed |-> feedActive, lag |-> lag]
    /\ UNCHANGED <<plugType, plugMode, world, inSafeOff, marks, hold, relay, toggleAge,
                   caller, sinceTick>>

PlugTaskDecides ==
    /\ called # NoArguments
    /\ Decide("plug_control", called)
    /\ called' = NoArguments
    /\ UNCHANGED sinceTick

\* plug_actuate of a tick, whose time is noted whatever becomes of it.
TickSwitches(c) ==
    /\ c # "hand"
    /\ caller[c].step = "decided"
    /\ relay' \in Switched(relay, caller[c].on)
    /\ caller' = [caller EXCEPT ![c].step = "switched", ![c].on = FALSE]
    /\ UNCHANGED <<plugType, plugMode, world, inSafeOff, marks, hold, toggleAge, called,
                   sinceTick>>

\* The time of a switch goes into s_last_toggle_ms.
Note(c) ==
    /\ caller[c].step = "switched"
    /\ toggleAge' = caller[c].lag
    /\ caller' = [caller EXCEPT ![c] = Away]
    /\ UNCHANGED <<plugType, plugMode, world, inSafeOff, marks, hold, relay, called,
                   sinceTick>>

---------------------------------------------------------------------------------
(* The other callers.                                                       *)

\* plug_manager_toggle_ex, with the exact time: whether the plug is blocked plays
\* no part in it.
HandDecides(on) ==
    /\ MayBegin("hand")
    /\ ~monitorOnly
    /\ ~inSafeOff
    /\ ~monitorBlocked
    /\ GateOpen(on, 0)
    /\ caller' = [caller EXCEPT !["hand"] = [step |-> "decided", on |-> on, lag |-> 0]]
    /\ UNCHANGED <<plugType, plugMode, world, inSafeOff, marks, hold, relay, toggleAge,
                   called, sinceTick>>

HandSwitches ==
    /\ caller["hand"].step = "decided"
    /\ ~plugProtected
    /\ caller["hand"].on \in Switched(relay, caller["hand"].on)
    /\ relay' = caller["hand"].on
    /\ caller' = [caller EXCEPT !["hand"].step = "switched", !["hand"].on = FALSE]
    /\ UNCHANGED <<plugType, plugMode, world, inSafeOff, marks, hold, toggleAge, called,
                   sinceTick>>

\* The switch was refused or failed: the hand is told so, and notes no time.
HandFails ==
    /\ caller["hand"].step = "decided"
    /\ relay' \in IF plugProtected THEN {relay, FALSE} ELSE {relay}
    /\ caller' = [caller EXCEPT !["hand"] = Away]
    /\ UNCHANGED <<plugType, plugMode, world, inSafeOff, marks, hold, toggleAge, called,
                   sinceTick>>

\* A short circuit found by the electric machine (set_blocked, by the safety task).
BlockShorted ==
    /\ ~AtWork("safety")
    /\ plugBlocked' = TRUE
    /\ relay' \in Switched(relay, FALSE)
    /\ UNCHANGED <<plugType, plugMode, world, inSafeOff, monitorBlocked, safeStateBlocked,
                   overcurrent, hold, toggleAge, called, caller, sinceTick>>

\* plug_manager_unblock, in maintenance mode.
Unblock ==
    /\ plugBlocked
    /\ ~safeStateBlocked
    /\ plugBlocked' = FALSE
    /\ overcurrent' = 0
    /\ UNCHANGED <<plugType, plugMode, world, inSafeOff, monitorBlocked, safeStateBlocked,
                   hold, relay, toggleAge, called, caller, sinceTick>>

SetMode ==
    /\ plugMode' \in {"AUTO", "MANUAL"} \ {plugMode}
    /\ UNCHANGED <<plugType, world, inSafeOff, marks, hold, relay, toggleAge, called,
                   caller, sinceTick>>

\* enter_safeoff or enter_emergency, with plug_manager_apply_safe_off; a relay that
\* does not answer stays as it is.
ApplySafeOff ==
    /\ plugProtected' = TRUE
    /\ inSafeOff' = TRUE
    /\ offered' = FALSE
    /\ relay' \in {relay, FALSE}
    /\ safeStateBlocked' = TRUE
    /\ UNCHANGED <<plugType, plugMode, monitorOnly, feedActive, request, monitorBlocked,
                   plugBlocked, overcurrent, hold, toggleAge, called, caller, sinceTick>>

\* Whatever else g_gs, the machines and the restart sequence tell the manager.
WorldMoves ==
    /\ \/ plugProtected /\ plugProtected' = FALSE
             /\ UNCHANGED <<monitorOnly, feedActive, request, offered>>
       \/ monitorOnly' = ~monitorOnly
             /\ UNCHANGED <<plugProtected, feedActive, request, offered>>
       \/ feedActive' = ~feedActive
             /\ UNCHANGED <<plugProtected, monitorOnly, request, offered>>
       \/ plugType \in {"PUMP", "THERMAL"} /\ request' = ~request
             /\ UNCHANGED <<plugProtected, monitorOnly, feedActive, offered>>
       \/ (plugProtected \/ offered) /\ offered' = ~offered
             /\ UNCHANGED <<plugProtected, monitorOnly, feedActive, request>>
    /\ UNCHANGED <<plugType, plugMode, inSafeOff, marks, hold, relay, toggleAge, called,
                   caller, sinceTick>>

Later(age) == IF age = PlugAgeCap THEN age ELSE age + 1

PassTime ==
    /\ sinceTick < TickPeriod
    /\ called.lag < MaxLag
    /\ \A c \in PlugCallers : caller[c] # Away => caller[c].lag < MaxLag
    /\ sinceTick' = sinceTick + 1
    /\ toggleAge' = Later(toggleAge)
    /\ called' = IF called = NoArguments THEN called ELSE [called EXCEPT !.lag = @ + 1]
    /\ caller' = [c \in PlugCallers |->
                    IF caller[c] = Away THEN Away ELSE [caller[c] EXCEPT !.lag = @ + 1]]
    /\ UNCHANGED <<plugType, plugMode, world, inSafeOff, marks, hold, relay>>

\* Nobody wants the plug on: it is blocked, the unit only watches, it is a pump and
\* the fish are fed, or the system is protected and no restart offers the plug.
Unwanted ==
    \/ plugBlocked
    \/ monitorOnly
    \/ ~plugProtected /\ feedActive /\ plugType = "PUMP"
    \/ plugProtected /\ ~offered

\* A switch is tried whose time will be noted.
Tries == \E c \in PlugCallers : caller[c].step = "decided" /\ caller'[c].step = "switched"

\* The histories go with every step.
Watch(time) ==
    /\ unwanted' = CASE ~(relay' /\ Unwanted') -> 0
                     [] relay' /\ Unwanted' /\ unwanted <= Grace -> unwanted + time
                     [] OTHER -> unwanted
    /\ sinceSwitch' = CASE Tries \/ ~relay' -> 0
                        [] ~Tries /\ relay' /\ sinceSwitch <= MinOn + Grace ->
                             sinceSwitch + time
                        [] OTHER -> sinceSwitch

CallerStep ==
    \/ SafetyDecides
    \/ PlugTaskReads
    \/ PlugTaskDecides
    \/ \E c \in PlugCallers : TickSwitches(c) \/ Note(c)
    \/ \E on \in BOOLEAN : HandDecides(on)
    \/ HandSwitches
    \/ HandFails

Change ==
    /\ changes < MaxChanges
    /\ changes' = changes + 1
    /\ \/ BlockShorted
       \/ Unblock
       \/ SetMode
       \/ ApplySafeOff
       \/ WorldMoves

PlugNext ==
    \/ CallerStep /\ Watch(0) /\ UNCHANGED changes
    \/ Change /\ Watch(0)
    \/ PassTime /\ Watch(1) /\ UNCHANGED changes

PlugSpec == PlugInit /\ [][PlugNext]_plugVars

---------------------------------------------------------------------------------
(***************************************************************************)
(* A plug that is on though nobody has wanted that for a while -- blocked, *)
(* in a unit that only watches, a pump in a feeding, any in SAFE_OFF -- is *)
(* so only within the minimum ON time of the last attempt to switch it, by *)
(* hand or by a tick with old arguments: from then on every tick tries to  *)
(* switch it off (plug_manager_tick).  For a blocked plug that is a bound  *)
(* on a fault: BlockedStaysOff says what it should do.                     *)
(***************************************************************************)
UnwantedEnds ==
    relay => unwanted <= Grace \/ sinceSwitch <= MinOn + Grace

(***************************************************************************)
(* A blocked plug is not switched on until it is unblocked, "permanece     *)
(* desenergizado até reset manual, independente do modo"                   *)
(* (plug_manager.c, 285-286).  The hand does not ask                       *)
(* (plug_manager_toggle_ex).                                               *)
(***************************************************************************)
BlockedStaysOff == [][plugBlocked /\ plugBlocked' /\ relay' => relay]_plugVars
=================================================================================
