--------------------------------- MODULE AtoFsm ---------------------------------
(***************************************************************************)
(* The machine of the automatic top-off (fsm/ato_fsm.c): it asks for the   *)
(* refill pump while the water level is below LOW, and must never let the  *)
(* pump run on.  The safety task calls it once per iteration, whatever the *)
(* sensor says; a configuration change and the release of the latch in     *)
(* maintenance come from other tasks, between two calls.                   *)
(*                                                                         *)
(* refill_started_ms and low_since_ms are always set and cleared together: *)
(* `refillAge' is the age of both.  The alarm numbers are left out, and    *)
(* with them the count of refills in an hour, which decides nothing else.  *)
(***************************************************************************)
EXTENDS Integers

CONSTANTS
    Levels,      \* what the level sensor can read
    AtoConfigs,  \* configurations that may be set at run time
    Hysteresis,  \* HW_ATO_ADC_HYSTERESIS
    MinRise,     \* HW_ATO_EMPTY_MIN_RISE_ADC
    Debounce,    \* HW_ATO_DEBOUNCE_COUNT
    EmptyDetect, \* HW_ATO_EMPTY_DETECT_S
    LongestTimeout, \* of the configurations
    MaxPeriod,   \* longest time between two calls
    AgeCap       \* ages are not told apart above this one

\* `overflow' is high_level_adc + overflow_margin_adc.
ASSUME AtoConfigAssumption ==
    AtoConfigs \subseteq [enabled : BOOLEAN, low : Nat, overflow : Nat,
                          timeout : 0 .. LongestTimeout]

ASSUME AtoBoundsAssumption ==
    /\ Levels \subseteq Nat
    /\ Hysteresis \in Nat /\ MinRise \in Nat /\ Debounce \in Nat
    /\ EmptyDetect \in Nat \ {0} /\ LongestTimeout \in Nat
    /\ MaxPeriod \in Nat
    /\ AgeCap \in Nat
    /\ AgeCap > LongestTimeout + MaxPeriod
    /\ AgeCap > EmptyDetect + MaxPeriod

VARIABLES
    atoConfig,      \* cfg
    blockedLatched, \* blocked_latched
    stableLevel,    \* last_stable_level
    debounceCount,  \* debounce_count, up to debounce_required
    refillAge,      \* now - refill_started_ms
    startLevel,     \* refill_start_level
    atoState,       \* out.state
    pumpRequest,    \* out.pump_request_on
    pumped,         \* history: how long the pump ran in this refill
    risen           \* history: the level rose enough in this refill

atoVars == <<atoConfig, blockedLatched, stableLevel, debounceCount, refillAge,
             startLevel, atoState, pumpRequest, pumped, risen>>

NoRefill == -1

NoLevel == -1

AtoStates == {"DISABLED", "NORMAL", "REFILLING", "OVERFLOW", "BLOCKED", "ERROR"}

AtoTypeOK ==
    /\ atoConfig \in AtoConfigs
    /\ blockedLatched \in BOOLEAN
    /\ stableLevel \in Levels \cup {NoLevel}
    /\ debounceCount \in 0 .. Debounce
    /\ refillAge \in 0 .. AgeCap \cup {NoRefill}
    /\ startLevel \in Levels \cup {0}
    /\ atoState \in AtoStates
    /\ pumpRequest \in BOOLEAN
    /\ pumped \in Nat
    /\ risen \in BOOLEAN

AtoInit ==
    /\ atoConfig \in AtoConfigs
    /\ blockedLatched = FALSE
    /\ stableLevel = NoLevel
    /\ debounceCount = 0
    /\ refillAge = NoRefill
    /\ startLevel = 0
    /\ atoState = "NORMAL"
    /\ pumpRequest = FALSE
    /\ pumped = 0
    /\ risen = FALSE

---------------------------------------------------------------------------------
(* One call of ato_fsm_update, `period' after the last one.                *)

AtoEarlier(a, b) == IF a < b THEN a ELSE b

Aged(period) ==
    IF refillAge = NoRefill THEN NoRefill ELSE AtoEarlier(refillAge + period, AgeCap)

\* The pump has run since the last call if that call asked for it.
PumpedBy(period) == IF pumpRequest THEN pumped + period ELSE pumped

\* What a call that does not begin or end a refill does to its clocks.
RefillGoesOn(period) ==
    /\ refillAge' = Aged(period)
    /\ pumped' = PumpedBy(period)
    /\ UNCHANGED startLevel

Answer(s, pump) == atoState' = s /\ pumpRequest' = pump

RoseTo(level) == level - startLevel >= MinRise

Disabled(period) ==
    /\ ~atoConfig.enabled
    /\ Answer("DISABLED", FALSE)
    /\ RefillGoesOn(period)
    /\ UNCHANGED <<blockedLatched, stableLevel, debounceCount, risen>>

InvalidSampleEndsRefill(period) ==
    /\ atoConfig.enabled
    /\ Answer("ERROR", FALSE)
    /\ debounceCount' = 0
    /\ refillAge' = NoRefill
    /\ pumped' = PumpedBy(period)
    /\ UNCHANGED <<blockedLatched, stableLevel, startLevel, risen>>

InvalidSample(period) ==
    /\ atoConfig.enabled
    /\ Answer("ERROR", FALSE)
    /\ debounceCount' = 0
    /\ RefillGoesOn(period)
    /\ UNCHANGED <<blockedLatched, stableLevel, risen>>

Overflowing(level, period) ==
    /\ atoConfig.enabled
    /\ level > atoConfig.overflow
    /\ Answer("OVERFLOW", FALSE)
    /\ blockedLatched' = TRUE
    /\ debounceCount' = 0
    /\ stableLevel' = level
    /\ RefillGoesOn(period)
    /\ UNCHANGED risen

\* The first sample of all is stable by definition.
KeptStable(level) == IF stableLevel = NoLevel THEN level ELSE stableLevel

Blocked(level, period) ==
    /\ atoConfig.enabled
    /\ level <= atoConfig.overflow
    /\ blockedLatched
    /\ Answer("BLOCKED", FALSE)
    /\ debounceCount' = 0
    /\ stableLevel' = KeptStable(level)
    /\ RefillGoesOn(period)
    /\ UNCHANGED <<blockedLatched, risen>>

Near(level) ==
    /\ level - KeptStable(level) < Hysteresis
    /\ KeptStable(level) - level < Hysteresis

Confirming(level) ==
    /\ atoConfig.enabled
    /\ level <= atoConfig.overflow
    /\ ~blockedLatched

Unsettled(level, period) ==
    /\ Confirming(level)
    /\ ~(Near(level) /\ debounceCount + 1 >= Debounce)
    /\ Answer("NORMAL", FALSE)
    /\ debounceCount' = IF Near(level) THEN debounceCount + 1 ELSE 0
    /\ stableLevel' = IF Near(level) THEN KeptStable(level) ELSE level
    /\ RefillGoesOn(period)
    /\ UNCHANGED <<blockedLatched, risen>>

\* The level was confirmed; the rest of the call decides on it.
Settled(level) ==
    /\ Confirming(level)
    /\ Near(level)
    /\ debounceCount + 1 >= Debounce
    /\ stableLevel' = level

StartRefill(level, period) ==
    /\ Settled(level)
    /\ level < atoConfig.low
    /\ refillAge = NoRefill
    /\ Answer("REFILLING", TRUE)
    /\ refillAge' = 0
    /\ startLevel' = level
    /\ pumped' = PumpedBy(period)
    /\ debounceCount' = Debounce
    /\ UNCHANGED <<blockedLatched, risen>>

OutOfTime(period) == Aged(period) > atoConfig.timeout

Empty(level, period) == Aged(period) >= EmptyDetect /\ ~RoseTo(level)

ContinueRefill(level, period) ==
    /\ Settled(level)
    /\ level < atoConfig.low
    /\ refillAge # NoRefill
    /\ \/ /\ OutOfTime(period)
          /\ Answer("BLOCKED", FALSE)
          /\ blockedLatched' = TRUE
       \/ /\ ~OutOfTime(period)
          /\ Empty(level, period)
          /\ Answer("ERROR", FALSE)
          /\ UNCHANGED blockedLatched
       \/ /\ ~OutOfTime(period)
          /\ ~Empty(level, period)
          /\ Answer("REFILLING", TRUE)
          /\ UNCHANGED blockedLatched
    /\ debounceCount' = Debounce
    /\ RefillGoesOn(period)
    /\ risen' = (risen \/ RoseTo(level))

EndRefill(level) ==
    /\ Settled(level)
    /\ level >= atoConfig.low
    /\ Answer("NORMAL", FALSE)
    /\ refillAge' = NoRefill
    /\ pumped' = 0
    /\ risen' = FALSE
    /\ debounceCount' = 0
    /\ UNCHANGED <<blockedLatched, startLevel>>

AtoUpdate(period) ==
    /\ \/ Disabled(period)
       \/ InvalidSample(period)
       \/ \E level \in Levels :
             \/ Overflowing(level, period)
             \/ Blocked(level, period)
             \/ Unsettled(level, period)
             \/ StartRefill(level, period)
             \/ ContinueRefill(level, period)
             \/ EndRefill(level)
    /\ UNCHANGED atoConfig

ClearBlockedStartsOver ==
    /\ blockedLatched
    /\ blockedLatched' = FALSE
    /\ refillAge' = NoRefill
    /\ UNCHANGED <<atoConfig, stableLevel, debounceCount, startLevel,
                   atoState, pumpRequest, pumped, risen>>

\* app_ato_clear_blocked, in maintenance mode.  The refill goes on ageing.
ClearBlocked ==
    /\ blockedLatched
    /\ blockedLatched' = FALSE
    /\ UNCHANGED <<atoConfig, stableLevel, debounceCount, refillAge, startLevel,
                   atoState, pumpRequest, pumped, risen>>

SetAtoConfig(c) ==
    /\ c # atoConfig
    /\ atoConfig' = c
    /\ UNCHANGED <<blockedLatched, stableLevel, debounceCount, refillAge, startLevel,
                   atoState, pumpRequest, pumped, risen>>

AtoNext ==
    \/ \E period \in 1 .. MaxPeriod : AtoUpdate(period)
    \/ ClearBlocked
    \/ \E c \in AtoConfigs : SetAtoConfig(c)

AtoSpec == AtoInit /\ [][AtoNext]_atoVars

---------------------------------------------------------------------------------
(***************************************************************************)
(* However the sensor fails, chatters or comes back, and whatever is       *)
(* configured or released in between, the pump runs for no longer than the *)
(* refill timeout (and the call that notices) between two confirmed levels *)
(* at or above LOW.                                                        *)
(***************************************************************************)
PumpBounded == pumped <= LongestTimeout + MaxPeriod

(***************************************************************************)
(* A pump that does not raise the level is stopped by the detection of an  *)
(* empty reservoir, long before the timeout.                               *)
(***************************************************************************)
DryRunBounded == ~risen => pumped < EmptyDetect + MaxPeriod
=================================================================================
