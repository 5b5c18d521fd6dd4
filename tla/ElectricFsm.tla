------------------------------- MODULE ElectricFsm -------------------------------
(***************************************************************************)
(* The electric protections (services/electric_fsm.c), called once per     *)
(* iteration of the safety task with what the power meter and the current  *)
(* sensors say.  Some conditions act at once, the others after they have   *)
(* lasted; the checks are made in order and the first that acts returns,   *)
(* so that those after it do not see the sample, and their timers go on as *)
(* they were.  A sample that is not valid leaves all timers alone.         *)
(*                                                                         *)
(* A configuration change from another task initialises the machine again. *)
(* One plug stands for all; the power factor, which only has a timer and   *)
(* no effect, is left out, and so are the alarm numbers.                   *)
(***************************************************************************)
EXTENDS Integers

CONSTANTS
    Limit,          \* how long each condition may last
    MaxSampleGap,   \* longest time between two calls
    ElectricAgeCap  \* ages are not told apart above this one

Lasting == {"SHORT", "HIGH_VOLTAGE", "LOW_VOLTAGE", "TOTAL_CURRENT"}

ASSUME ElectricAssumption ==
    /\ MaxSampleGap \in Nat
    /\ ElectricAgeCap \in Nat
    /\ Limit \in [Lasting -> 0 .. ElectricAgeCap]

VARIABLES
    timer,         \* now - *_start_ms of each lasting condition, or Unset
    electricState, \* out.state
    forced,        \* out.force_safe_off
    seen,          \* history: how long every valid sample has had a condition
    quiet          \* history: how long no valid sample has been acted on

electricVars == <<timer, electricState, forced, seen, quiet>>

Unset == -1

ElectricAges == 0 .. ElectricAgeCap \cup {Unset}

ElectricTypeOK ==
    /\ timer \in [Lasting -> ElectricAges]
    /\ electricState \in {"NORMAL", "SENSOR_FAIL", "SHORT_CIRCUIT", "OVERLOAD",
                          "OVERVOLTAGE", "UNDERVOLTAGE", "HIGH_CONSUMPTION"}
    /\ forced \in BOOLEAN
    /\ seen \in [Lasting -> ElectricAges]
    /\ quiet \in ElectricAges

ElectricInit ==
    /\ timer = [c \in Lasting |-> Unset]
    /\ electricState = "NORMAL"
    /\ forced = FALSE
    /\ seen = [c \in Lasting |-> Unset]
    /\ quiet = Unset

---------------------------------------------------------------------------------
(* Samples: the current of the plug, the voltage, the total current, and    *)
(* the total power (HIGH: within the hysteresis below the limit).           *)

Samples == [plug : {"OK", "OVER", "SHORT"},
            voltage : {"LOW", "OK", "HIGH"},
            total : {"OK", "OVER"},
            power : {"OK", "HIGH", "OVER"}]

Has(sample) ==
    {c \in Lasting :
        \/ c = "SHORT" /\ sample.plug = "SHORT"
        \/ c = "HIGH_VOLTAGE" /\ sample.voltage = "HIGH"
        \/ c = "LOW_VOLTAGE" /\ sample.voltage = "LOW"
        \/ c = "TOTAL_CURRENT" /\ sample.total = "OVER"}

ElectricAged(age, gap) ==
    IF age = Unset THEN Unset
    ELSE IF age + gap > ElectricAgeCap THEN ElectricAgeCap ELSE age + gap

\* A timer that the sample reaches: it starts with the condition and is
\* cleared without it.
Timed(c, sample, gap) ==
    IF c \notin Has(sample) THEN Unset
    ELSE IF timer[c] = Unset THEN 0 ELSE ElectricAged(timer[c], gap)

Lasted(c, sample, gap) == c \in Has(sample) /\ Timed(c, sample, gap) >= Limit[c]

\* The checks in their order, each with what it acts on.
Acts(check, sample, gap) ==
    \/ check = 1 /\ Lasted("SHORT", sample, gap)
    \/ check = 2 /\ sample.plug # "OK"
    \/ check = 3 /\ Lasted("HIGH_VOLTAGE", sample, gap)
    \/ check = 4 /\ Lasted("LOW_VOLTAGE", sample, gap)
    \/ check = 5 /\ Lasted("TOTAL_CURRENT", sample, gap)
    \/ check = 6 /\ sample.power = "OVER"

Check(c) ==
    CASE c = "SHORT" -> 1
      [] c = "HIGH_VOLTAGE" -> 3
      [] c = "LOW_VOLTAGE" -> 4
      [] c = "TOTAL_CURRENT" -> 5

\* No earlier check has returned.
Reached(check, sample, gap) == \A k \in 1 .. check - 1 : ~Acts(k, sample, gap)

Verdict(check) ==
    CASE check = 1 -> "SHORT_CIRCUIT"
      [] check = 3 -> "OVERVOLTAGE"
      [] check = 4 -> "UNDERVOLTAGE"
      [] OTHER -> "OVERLOAD"

\* A voltage that has not lasted yet is overwritten by what comes after it.
Unforced(sample) == IF sample.power = "HIGH" THEN "HIGH_CONSUMPTION" ELSE "NORMAL"

TimersAfter(sample, gap) ==
    [c \in Lasting |-> IF Reached(Check(c), sample, gap) THEN Timed(c, sample, gap)
                       ELSE ElectricAged(timer[c], gap)]

ValidSample(sample, gap) ==
    /\ timer' = TimersAfter(sample, gap)
    /\ \/ \E check \in 1 .. 6 :
             /\ Reached(check, sample, gap)
             /\ Acts(check, sample, gap)
             /\ electricState' = Verdict(check)
             /\ forced' = TRUE
             /\ quiet' = Unset
       \/ /\ Reached(7, sample, gap)
          /\ electricState' = Unforced(sample)
          /\ forced' = FALSE
          /\ quiet' = IF quiet = Unset THEN 0 ELSE ElectricAged(quiet, gap)
    /\ seen' = [c \in Lasting |->
                   IF c \notin Has(sample) THEN Unset
                   ELSE IF seen[c] = Unset THEN 0 ELSE ElectricAged(seen[c], gap)]

NoSampleClearsTimers(gap) ==
    /\ electricState' = "SENSOR_FAIL"
    /\ forced' = FALSE
    /\ timer' = [c \in Lasting |-> Unset]
    /\ seen' = [c \in Lasting |-> ElectricAged(seen[c], gap)]
    /\ quiet' = ElectricAged(quiet, gap)

NoSample(gap) ==
    /\ electricState' = "SENSOR_FAIL"
    /\ forced' = FALSE
    /\ timer' = [c \in Lasting |-> ElectricAged(timer[c], gap)]
    /\ seen' = [c \in Lasting |-> ElectricAged(seen[c], gap)]
    /\ quiet' = ElectricAged(quiet, gap)

\* electric_fsm_init, from on_config_changed.
ReloadElectric ==
    /\ timer' = [c \in Lasting |-> Unset]
    /\ electricState' = "NORMAL"
    /\ forced' = FALSE
    /\ seen' = [c \in Lasting |-> Unset]
    /\ quiet' = Unset

ElectricNext ==
    \/ \E gap \in 1 .. MaxSampleGap :
          \/ NoSample(gap)
          \/ \E sample \in Samples : ValidSample(sample, gap)
    \/ ReloadElectric

ElectricSpec == ElectricInit /\ [][ElectricNext]_electricVars

---------------------------------------------------------------------------------
(***************************************************************************)
(* A condition that every valid sample has shown for as long as it may     *)
(* last is acted on, whatever samples were lost, and whatever other        *)
(* protection returned first -- unless one of them acted, or the           *)
(* configuration was loaded, within that time.                             *)
(***************************************************************************)
TripsInTime ==
    \A c \in Lasting :
        /\ electricState # "SENSOR_FAIL"
        /\ seen[c] # Unset /\ seen[c] >= Limit[c]
        /\ quiet # Unset /\ quiet >= Limit[c]
        => forced
=================================================================================
