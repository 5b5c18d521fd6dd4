---------------------------- MODULE CircuitBreaker ----------------------------
(***************************************************************************)
(* The circuit breaker of one bus, core/circuit_breaker.c, with the two    *)
(* tasks of main/app/app_main.c that share it.  The bus is the DS18B20's:  *)
(* the safety task and the sensors task both call read_temp once in every  *)
(* iteration, and the safety task runs circuit_breaker_update besides.  No *)
(* lock protects the breaker.  Both tasks run on core 1 and the safety     *)
(* task has the higher priority, so it can cut into a record of the        *)
(* sensors task at any point, and never the other way round: what the      *)
(* safety task records is one step, what the sensors task records is the   *)
(* sequence of its loads and stores.                                       *)
(*                                                                         *)
(* Time is counted in iterations of the safety task.  circuit_breaker_reset*)
(* has no caller in the firmware.                                          *)
(***************************************************************************)
EXTENDS Integers

CONSTANTS
    FailureThreshold,   \* failure_threshold
    SuccessThreshold,   \* success_threshold
    OpenTicks           \* half_open_timeout_ms

ASSUME ThresholdsAssumption ==
    /\ FailureThreshold \in Nat \ {0}
    /\ SuccessThreshold \in Nat \ {0}
    /\ OpenTicks \in Nat \ {0}

VARIABLES
    breakerState,   \* cb->state
    failures,       \* cb->failure_count, capped at FailureThreshold
    successes,      \* cb->success_count, capped at SuccessThreshold
    openedAge,      \* age of cb->opened_at_ms
    lastAge,        \* age of cb->last_failure_ms
    safety,         \* where the safety task is
    sensors,        \* where the sensors task is
    loaded,         \* the count that the sensors task has read, to add one
    busOk,          \* the bus answers every reading
    openFor,        \* history: age of the current OPEN state
    confirmed,      \* history: successes recorded since HALF_OPEN was entered
    streak,         \* history: failures recorded since the last success
    cutInto         \* history: the safety task has cut into a record of the
                    \* sensors task, and no success has set the counts right since

breaker == <<breakerState, failures, successes, openedAge, lastAge>>
tasks == <<safety, sensors, loaded>>
counted == <<openFor, confirmed, streak>>
history == <<counted, cutInto>>
breakerVars == <<breaker, tasks, busOk, history>>

BreakerStates == {"CLOSED", "OPEN", "HALF_OPEN"}

RecordingFailure == {"count", "decide", "open", "stamp"}

RecordingSuccess == {"tally", "clear", "judge", "close", "reset"}

Recording == RecordingFailure \union RecordingSuccess

\* Bound on the ages: past it the timeout has expired anyway.
BreakerAgeCap == OpenTicks + 1

Capped(n, cap) == IF n > cap THEN cap ELSE n

BreakerTypeOK ==
    /\ breakerState \in BreakerStates
    /\ failures \in 0 .. FailureThreshold
    /\ successes \in 0 .. SuccessThreshold
    /\ openedAge \in 0 .. BreakerAgeCap
    /\ lastAge \in 0 .. BreakerAgeCap
    /\ safety \in {"awake", "reading", "waiting"}
    /\ sensors \in {"idle", "reading"} \union Recording
    /\ loaded \in 0 .. FailureThreshold \union 0 .. SuccessThreshold
    /\ busOk \in BOOLEAN
    /\ openFor \in 0 .. BreakerAgeCap
    /\ confirmed \in 0 .. SuccessThreshold
    /\ streak \in 0 .. FailureThreshold
    /\ cutInto \in BOOLEAN

\* circuit_breaker_init: the two timestamps are 0, long ago by the time they count.
BreakerInit ==
    /\ breakerState = "CLOSED"
    /\ failures = 0
    /\ successes = 0
    /\ openedAge = BreakerAgeCap
    /\ lastAge = BreakerAgeCap
    /\ safety = "awake"
    /\ sensors = "idle"
    /\ loaded = 0
    /\ busOk = TRUE
    /\ openFor = 0
    /\ confirmed = 0
    /\ streak = 0
    /\ cutInto = FALSE

-----------------------------------------------------------------------------
(* core/circuit_breaker.c                                                  *)

\* Variant that the checks must reject: a half-open bus is not tried.
AvailableClosedOnly == breakerState = "CLOSED"

Available == breakerState \in {"CLOSED", "HALF_OPEN"}

\* A failure opens a half-open breaker at once, a closed one at the threshold.
Opens(count) ==
    \/ breakerState = "CLOSED" /\ count >= FailureThreshold
    \/ breakerState = "HALF_OPEN"

\* A half-open breaker closes when it has its successes.
Closes(count) == breakerState = "HALF_OPEN" /\ count >= SuccessThreshold

\* Variant: a success leaves the failures alone.
RecordSuccessNoReset ==
    LET count == Capped(successes + 1, SuccessThreshold)
        closes == Closes(count)
    IN /\ breakerState' = IF closes THEN "CLOSED" ELSE breakerState
       /\ successes' = IF closes THEN 0 ELSE count
       /\ streak' = 0
       /\ confirmed' = IF breakerState = "HALF_OPEN"
                       THEN Capped(confirmed + 1, SuccessThreshold) ELSE confirmed
       /\ UNCHANGED <<failures, openedAge, lastAge, openFor>>

\* record_success as the safety task runs it, with nobody to interrupt it.
RecordSuccess ==
    LET count == Capped(successes + 1, SuccessThreshold)
        closes == Closes(count)
    IN /\ breakerState' = IF closes THEN "CLOSED" ELSE breakerState
       /\ successes' = IF closes THEN 0 ELSE count
       /\ failures' = 0
       /\ streak' = 0
       /\ confirmed' = IF breakerState = "HALF_OPEN"
                       THEN Capped(confirmed + 1, SuccessThreshold) ELSE confirmed
       /\ UNCHANGED <<openedAge, lastAge, openFor>>

\* Variant: a half-open breaker reopens under its old time of opening.
RecordFailureStaleStamp ==
    LET count == Capped(failures + 1, FailureThreshold)
    IN /\ failures' = count
       /\ lastAge' = 0
       /\ IF Opens(count)
          THEN /\ breakerState' = "OPEN"
               /\ openedAge' = IF breakerState = "CLOSED" THEN 0 ELSE openedAge
               /\ openFor' = 0
          ELSE UNCHANGED <<breakerState, openedAge, openFor>>
       /\ streak' = Capped(streak + 1, FailureThreshold)
       /\ UNCHANGED <<successes, confirmed>>

\* record_failure as the safety task runs it, with nobody to interrupt it.
RecordFailure ==
    LET count == Capped(failures + 1, FailureThreshold)
    IN /\ failures' = count
       /\ lastAge' = 0
       /\ IF Opens(count)
          THEN breakerState' = "OPEN" /\ openedAge' = 0 /\ openFor' = 0
          ELSE UNCHANGED <<breakerState, openedAge, openFor>>
       /\ streak' = Capped(streak + 1, FailureThreshold)
       /\ UNCHANGED <<successes, confirmed>>

BreakerOlder(age) == Capped(age + 1, BreakerAgeCap)

\* Variant: the successes of the closed state before are not forgotten.
UpdateKeepingSuccesses ==
    LET expired == breakerState = "OPEN" /\ BreakerOlder(openedAge) >= OpenTicks
    IN /\ breakerState' = IF expired THEN "HALF_OPEN" ELSE breakerState
       /\ confirmed' = IF expired THEN 0 ELSE confirmed
       /\ openedAge' = BreakerOlder(openedAge)
       /\ lastAge' = BreakerOlder(lastAge)
       /\ openFor' = BreakerOlder(openFor)
       /\ UNCHANGED <<successes, failures, streak>>

\* circuit_breaker_update, one iteration after the previous one.
UpdateBreaker ==
    LET expired == breakerState = "OPEN" /\ BreakerOlder(openedAge) >= OpenTicks
    IN /\ breakerState' = IF expired THEN "HALF_OPEN" ELSE breakerState
       /\ successes' = IF expired THEN 0 ELSE successes
       /\ confirmed' = IF expired THEN 0 ELSE confirmed
       /\ openedAge' = BreakerOlder(openedAge)
       /\ lastAge' = BreakerOlder(lastAge)
       /\ openFor' = BreakerOlder(openFor)
       /\ UNCHANGED <<failures, streak>>

-----------------------------------------------------------------------------
(* The safety task                                                         *)

\* A store of the safety task, or the passing of an iteration, in the middle of a
\* record of the sensors task.
CutsIn == cutInto' = (cutInto \/ sensors \in Recording)

\* A success that cuts into nothing and finds the breaker closed sets it right: the
\* count of failures is cleared, the rest is stored anew when the breaker opens.
Mends == cutInto' = (sensors \in Recording \/ (cutInto /\ breakerState # "CLOSED"))

Wake ==
    /\ safety = "waiting"
    /\ safety' = "awake"
    /\ UpdateBreaker
    /\ CutsIn
    /\ UNCHANGED <<sensors, loaded, busOk>>

\* read_temp: no reading while the breaker is open.
SafetyBegin ==
    /\ safety = "awake"
    /\ safety' = IF Available THEN "reading" ELSE "waiting"
    /\ UNCHANGED <<breaker, sensors, loaded, busOk, history>>

SafetyEnd ==
    /\ safety = "reading"
    /\ safety' = "waiting"
    /\ \/ RecordSuccess /\ Mends
       \/ ~busOk /\ RecordFailure /\ CutsIn
    /\ UNCHANGED <<sensors, loaded, busOk>>

-----------------------------------------------------------------------------
(* The sensors task: read_temp, with its records in their steps            *)

SensorsBegin ==
    /\ sensors = "idle"
    /\ Available
    /\ sensors' = "reading"
    /\ UNCHANGED <<breaker, safety, loaded, busOk, history>>

\* A step of the record in progress.
RecordStep(from, to) ==
    /\ sensors = from
    /\ sensors' = to
    /\ UNCHANGED <<safety, busOk, cutInto>>

\* record_success: success_count++ is a load and a store,
SensorsSucceed ==
    /\ RecordStep("reading", "tally")
    /\ loaded' = successes
    /\ UNCHANGED <<breaker, counted>>

StoreTally ==
    /\ RecordStep("tally", "clear")
    /\ successes' = Capped(loaded + 1, SuccessThreshold)
    /\ loaded' = 0
    /\ confirmed' = IF breakerState = "HALF_OPEN"
                    THEN Capped(confirmed + 1, SuccessThreshold) ELSE confirmed
    /\ UNCHANGED <<breakerState, failures, openedAge, lastAge, openFor, streak>>

ClearFailures ==
    /\ RecordStep("clear", "judge")
    /\ failures' = 0
    /\ streak' = 0
    /\ UNCHANGED <<breakerState, successes, openedAge, lastAge, loaded, openFor, confirmed>>

\* and the test of state and count goes before the two stores it guards.
JudgeSuccess ==
    /\ RecordStep("judge", IF Closes(successes) THEN "close" ELSE "idle")
    /\ UNCHANGED <<breaker, loaded, counted>>

StoreClosed ==
    /\ RecordStep("close", "reset")
    /\ breakerState' = "CLOSED"
    /\ UNCHANGED <<failures, successes, openedAge, lastAge, loaded, counted>>

ResetSuccesses ==
    /\ RecordStep("reset", "idle")
    /\ successes' = 0
    /\ UNCHANGED <<breakerState, failures, openedAge, lastAge, loaded, counted>>

\* record_failure, likewise
SensorsFail ==
    /\ ~busOk
    /\ RecordStep("reading", "count")
    /\ loaded' = failures
    /\ UNCHANGED <<breaker, counted>>

\* Variant: every failure, also one of an open breaker, renews the time of opening.
CountFailureRestamp ==
    /\ RecordStep("count", "decide")
    /\ failures' = Capped(loaded + 1, FailureThreshold)
    /\ loaded' = 0
    /\ lastAge' = 0
    /\ openedAge' = 0
    /\ streak' = Capped(streak + 1, FailureThreshold)
    /\ UNCHANGED <<breakerState, successes, openFor, confirmed>>

CountFailure ==
    /\ RecordStep("count", "decide")
    /\ failures' = Capped(loaded + 1, FailureThreshold)
    /\ loaded' = 0
    /\ lastAge' = 0
    /\ streak' = Capped(streak + 1, FailureThreshold)
    /\ UNCHANGED <<breakerState, successes, openedAge, openFor, confirmed>>

DecideFailure ==
    /\ RecordStep("decide", IF Opens(failures) THEN "open" ELSE "idle")
    /\ UNCHANGED <<breaker, loaded, counted>>

StoreOpen ==
    /\ RecordStep("open", "stamp")
    /\ breakerState' = "OPEN"
    /\ openFor' = 0
    /\ UNCHANGED <<failures, successes, openedAge, lastAge, loaded, confirmed, streak>>

\* The time of opening is stored after the state.
StampOpened ==
    /\ RecordStep("stamp", "idle")
    /\ openedAge' = lastAge
    /\ UNCHANGED <<breakerState, failures, successes, lastAge, loaded, counted>>

-----------------------------------------------------------------------------

\* The bus fails and recovers by itself.
BusChanges ==
    /\ busOk' = ~busOk
    /\ UNCHANGED <<breaker, tasks, history>>

SafetyReads == Wake \/ SafetyBegin \/ SafetyEnd

SensorsTask ==
    \/ SensorsBegin
    \/ SensorsSucceed
    \/ StoreTally
    \/ ClearFailures
    \/ JudgeSuccess
    \/ StoreClosed
    \/ ResetSuccesses
    \/ SensorsFail
    \/ CountFailure
    \/ DecideFailure
    \/ StoreOpen
    \/ StampOpened

BreakerNext == SafetyReads \/ SensorsTask \/ BusChanges

BreakerSpec == BreakerInit /\ [][BreakerNext]_breakerVars

\* Both tasks are periodic; the safety task leaves the processor in every iteration.
FairBreakerSpec == BreakerSpec /\ WF_breakerVars(SafetyReads) /\ WF_breakerVars(SensorsTask)

-----------------------------------------------------------------------------
(* Properties                                                              *)

\* A bus that was given up rests for the whole timeout before it is tried again,
\* whichever task opened it and whatever the other one records meanwhile
\* (ARCHITECTURE.md:125: "OPEN -> 30s -> HALF_OPEN").
OpenHolds ==
    [][breakerState = "OPEN" /\ breakerState' = "HALF_OPEN" => openFor + 1 >= OpenTicks]_breakerVars

\* OpenHolds as far as the missing lock lets it hold: as long as the safety task
\* has not cut into a record of the sensors task, the readings of the two tasks may
\* overlap as they like.
WholePause ==
    [][breakerState = "OPEN" /\ breakerState' = "HALF_OPEN" /\ ~cutInto'
         => openFor + 1 >= OpenTicks]_breakerVars

\* And for no longer: a reading that began before the bus was given up and fails
\* afterwards does not prolong the pause.
OpenEnds == breakerState = "OPEN" /\ ~cutInto => openFor < OpenTicks

\* Only successes recorded since the breaker became half-open close it again; the
\* uncounted many of the closed state before it do not help.
ClosesOnlyConfirmed ==
    [][breakerState = "HALF_OPEN" /\ breakerState' = "CLOSED" /\ ~cutInto
         => confirmed' >= SuccessThreshold]_breakerVars

\* A closed breaker opens only after a full run of failures, of the two tasks
\* together, with no success of either in between; a success that falls into the
\* increment of the sensors task may lose its effect, until the next one.
TripsOnStreak ==
    [][breakerState = "CLOSED" /\ breakerState' = "OPEN" /\ ~cutInto
         => streak' >= FailureThreshold]_breakerVars

\* A bus that answers from some time on is in use again for good.
Recovers == <>[]busOk => <>[](breakerState = "CLOSED")
=============================================================================
