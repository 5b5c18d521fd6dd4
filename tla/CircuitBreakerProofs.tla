--------------------------- MODULE CircuitBreakerProofs ---------------------------
(***************************************************************************)
(* CircuitBreaker for all thresholds and timeouts and every interleaving   *)
(* of the two tasks: typing, and the four safety properties with the       *)
(* exception they state, a record that was cut into and not yet mended.    *)
(***************************************************************************)
EXTENDS CircuitBreaker, TLAPS

USE ThresholdsAssumption DEF breaker, tasks, counted, history, breakerVars

\* Saturated counting stays in range, below the count and above the cap.
LEMMA CappedRange ==
    ASSUME NEW cap \in Nat
    PROVE  \A n \in 0 .. cap : /\ Capped(n + 1, cap) \in 0 .. cap
                               /\ Capped(n + 1, cap) <= n + 1
                               /\ Capped(n + 1, cap) >= n
                               /\ \A m \in 0 .. cap :
                                     m <= n => Capped(m + 1, cap) <= Capped(n + 1, cap)
BY SMT DEF Capped

\* The counts and the ages are saturated.
LEMMA CountersInRange ==
    /\ 0 \in 0 .. FailureThreshold /\ 0 \in 0 .. SuccessThreshold
    /\ 0 \in 0 .. BreakerAgeCap /\ BreakerAgeCap \in 0 .. BreakerAgeCap
    /\ \A n \in Nat : Capped(n + 1, FailureThreshold) \in 0 .. FailureThreshold
    /\ \A n \in Nat : Capped(n + 1, SuccessThreshold) \in 0 .. SuccessThreshold
    /\ \A n \in 0 .. BreakerAgeCap : BreakerOlder(n) \in 0 .. BreakerAgeCap
<1>1. BreakerAgeCap \in Nat
  BY DEF BreakerAgeCap
<1>2. \A n \in Nat : Capped(n + 1, FailureThreshold) \in 0 .. FailureThreshold
  BY SMT DEF Capped
<1>3. \A n \in Nat : Capped(n + 1, SuccessThreshold) \in 0 .. SuccessThreshold
  BY SMT DEF Capped
<1>4. \A n \in 0 .. BreakerAgeCap : BreakerOlder(n) \in 0 .. BreakerAgeCap
  BY <1>1, SMT DEF BreakerOlder, Capped
<1>5. QED
  BY <1>1, <1>2, <1>3, <1>4

\* What the operations write to the breaker has its type.
BreakerTyped ==
    /\ breakerState' \in BreakerStates
    /\ failures' \in 0 .. FailureThreshold
    /\ successes' \in 0 .. SuccessThreshold
    /\ openedAge' \in 0 .. BreakerAgeCap
    /\ lastAge' \in 0 .. BreakerAgeCap
    /\ openFor' \in 0 .. BreakerAgeCap
    /\ confirmed' \in 0 .. SuccessThreshold
    /\ streak' \in 0 .. FailureThreshold

LEMMA OperationTypes ==
    ASSUME BreakerTypeOK
    PROVE  /\ RecordSuccess => BreakerTyped
           /\ RecordFailure => BreakerTyped
           /\ UpdateBreaker => BreakerTyped
<1> USE CountersInRange DEF BreakerTypeOK, BreakerTyped, BreakerStates
<1>1. RecordSuccess => BreakerTyped
  BY DEF RecordSuccess
<1>2. RecordFailure => BreakerTyped
  BY DEF RecordFailure
<1>3. UpdateBreaker => BreakerTyped
  BY DEF UpdateBreaker
<1>4. QED
  BY <1>1, <1>2, <1>3

\* Type correctness, with the safety task cutting in anywhere.
THEOREM BreakerTypeCorrect == BreakerSpec => []BreakerTypeOK
<1>1. BreakerInit => BreakerTypeOK
  BY CountersInRange, Zenon DEF BreakerInit, BreakerTypeOK, BreakerStates, Recording
<1>2. BreakerTypeOK /\ [BreakerNext]_breakerVars => BreakerTypeOK'
  <2> SUFFICES ASSUME BreakerTypeOK, [BreakerNext]_breakerVars PROVE BreakerTypeOK'
    OBVIOUS
  <2> USE CountersInRange, OperationTypes
          DEF BreakerTypeOK, BreakerTyped, Recording, RecordingFailure, RecordingSuccess
  <2>0. loaded \in Nat
    OBVIOUS
  <2>1. CASE Wake
    BY <2>1 DEF Wake, CutsIn
  <2>2. CASE SafetyBegin
    BY <2>2 DEF SafetyBegin
  <2>3. CASE SafetyEnd
    BY <2>3 DEF SafetyEnd, Mends, CutsIn
  <2>4. CASE SensorsBegin
    BY <2>4 DEF SensorsBegin
  <2>5. CASE SensorsSucceed \/ SensorsFail
    BY <2>5 DEF SensorsSucceed, SensorsFail, RecordStep
  <2>6. CASE StoreTally
    <3>1. successes' \in 0 .. SuccessThreshold /\ confirmed' \in 0 .. SuccessThreshold
      BY <2>0, <2>6 DEF StoreTally
    <3>2. QED
      BY <2>6, <3>1 DEF StoreTally, RecordStep
  <2>7. CASE ClearFailures \/ ResetSuccesses
    BY <2>7 DEF ClearFailures, ResetSuccesses, RecordStep
  <2>8. CASE JudgeSuccess \/ DecideFailure
    BY <2>8 DEF JudgeSuccess, DecideFailure, RecordStep
  <2>9. CASE CountFailure
    <3>1. failures' \in 0 .. FailureThreshold /\ streak' \in 0 .. FailureThreshold
      BY <2>0, <2>9 DEF CountFailure
    <3>2. QED
      BY <2>9, <3>1 DEF CountFailure, RecordStep
  <2>10. CASE StoreClosed \/ StoreOpen
    BY <2>10 DEF StoreClosed, StoreOpen, RecordStep, BreakerStates
  <2>11. CASE StampOpened
    BY <2>11 DEF StampOpened, RecordStep
  <2>12. CASE BusChanges
    BY <2>12 DEF BusChanges
  <2>13. CASE UNCHANGED breakerVars
    BY <2>13
  <2>14. QED
    BY <2>1, <2>2, <2>3, <2>4, <2>5, <2>6, <2>7, <2>8, <2>9, <2>10, <2>11, <2>12, <2>13
    DEF BreakerNext, SafetyReads, SensorsTask
<1>3. QED
  BY <1>1, <1>2, PTL DEF BreakerSpec

-----------------------------------------------------------------------------------
(* As long as nobody cuts into it, no time passes and nobody else records  *)
(* during a record of the sensors task.  So the stamp that is stored last  *)
(* agrees with the state stored before it, the count that was loaded is    *)
(* the count, and what was tested before a store still holds at it.        *)

BreakerInv ==
    /\ breakerState = "OPEN" /\ sensors # "stamp" => openFor = openedAge
    /\ breakerState = "OPEN" => openFor < OpenTicks
    /\ sensors = "stamp" => openFor = 0 /\ lastAge = 0
    /\ sensors \in {"decide", "open"} => lastAge = 0
    /\ sensors = "open" => Opens(failures)
    /\ sensors = "count" => loaded = failures
    /\ sensors = "tally" => loaded = successes
    /\ sensors = "close" => Closes(successes)
    /\ failures <= streak
    /\ breakerState = "HALF_OPEN" => successes <= confirmed

Uncut == ~cutInto => BreakerInv

\* What a step does that the properties speak of.
PauseStep == breakerState = "OPEN" /\ breakerState' = "HALF_OPEN" => openFor + 1 >= OpenTicks

CountStep ==
    /\ breakerState = "HALF_OPEN" /\ breakerState' = "CLOSED" => confirmed' >= SuccessThreshold
    /\ breakerState = "CLOSED" /\ breakerState' = "OPEN" => streak' >= FailureThreshold

GoodStep == PauseStep /\ CountStep

\* What the safety task records is sound in the step itself, even if it cuts in.
LEMMA RecordsCount ==
    ASSUME BreakerTypeOK, BreakerInv, RecordSuccess \/ RecordFailure
    PROVE  GoodStep
<1>1. /\ Capped(successes + 1, SuccessThreshold) \in 0 .. SuccessThreshold
      /\ Capped(confirmed + 1, SuccessThreshold) \in 0 .. SuccessThreshold
      /\ breakerState = "HALF_OPEN" =>
             Capped(successes + 1, SuccessThreshold) <= Capped(confirmed + 1, SuccessThreshold)
      /\ Capped(failures + 1, FailureThreshold) \in 0 .. FailureThreshold
      /\ Capped(streak + 1, FailureThreshold) \in 0 .. FailureThreshold
      /\ Capped(failures + 1, FailureThreshold) <= Capped(streak + 1, FailureThreshold)
  BY CappedRange DEF BreakerTypeOK, BreakerInv
<1>2. CASE RecordSuccess
  BY <1>1, <1>2 DEF BreakerTypeOK, GoodStep, PauseStep, CountStep, RecordSuccess, Closes
<1>3. CASE RecordFailure
  BY <1>1, <1>3 DEF BreakerTypeOK, GoodStep, PauseStep, CountStep, RecordFailure, Opens
<1>4. QED
  BY <1>2, <1>3

LEMMA SuccessKeeps ==
    ASSUME BreakerTypeOK, BreakerInv, RecordSuccess, UNCHANGED <<loaded, sensors>>,
           sensors \notin Recording
    PROVE  BreakerInv'
<1>1. /\ Capped(successes + 1, SuccessThreshold) \in 0 .. SuccessThreshold
      /\ Capped(confirmed + 1, SuccessThreshold) \in 0 .. SuccessThreshold
      /\ breakerState = "HALF_OPEN" =>
             Capped(successes + 1, SuccessThreshold) <= Capped(confirmed + 1, SuccessThreshold)
  BY CappedRange DEF BreakerTypeOK, BreakerInv
<1>2. sensors' \notin Recording
  OBVIOUS
<1>3. QED
  BY <1>1, <1>2 DEF BreakerTypeOK, BreakerInv, RecordSuccess, Closes,
                    Recording, RecordingFailure, RecordingSuccess

\* A success of the safety task that finds the breaker closed sets it right.
LEMMA SuccessMends ==
    ASSUME BreakerTypeOK, RecordSuccess, UNCHANGED sensors, breakerState = "CLOSED",
           sensors \notin Recording
    PROVE  BreakerInv'
<1>1. breakerState' = "CLOSED" /\ failures' = 0 /\ streak' = 0 /\ sensors' \notin Recording
  BY DEF RecordSuccess, Closes
<1>2. QED
  BY <1>1 DEF BreakerInv, Recording, RecordingFailure, RecordingSuccess

LEMMA FailureKeeps ==
    ASSUME BreakerTypeOK, BreakerInv, RecordFailure, UNCHANGED <<loaded, sensors>>,
           sensors \notin Recording
    PROVE  BreakerInv'
<1>1. /\ Capped(failures + 1, FailureThreshold) \in 0 .. FailureThreshold
      /\ Capped(streak + 1, FailureThreshold) \in 0 .. FailureThreshold
      /\ Capped(failures + 1, FailureThreshold) <= Capped(streak + 1, FailureThreshold)
  BY CappedRange DEF BreakerTypeOK, BreakerInv
<1>2. sensors' \notin Recording
  OBVIOUS
<1>3. QED
  BY <1>1, <1>2 DEF BreakerTypeOK, BreakerInv, RecordFailure, Opens,
                    Recording, RecordingFailure, RecordingSuccess

LEMMA UpdateKeeps ==
    ASSUME BreakerTypeOK, BreakerInv, UpdateBreaker, UNCHANGED <<loaded, sensors>>,
           sensors \notin Recording
    PROVE  BreakerInv' /\ GoodStep
<1>1. \A a \in 0 .. BreakerAgeCap : BreakerOlder(a) < OpenTicks \/ a + 1 >= OpenTicks
  BY DEF BreakerAgeCap, BreakerOlder, Capped
<1>2. BreakerOlder(openedAge) \in 0 .. BreakerAgeCap /\ BreakerAgeCap \in Nat
  BY CountersInRange DEF BreakerTypeOK, BreakerAgeCap
<1>3. /\ openedAge' = BreakerOlder(openedAge) /\ openFor' = BreakerOlder(openFor)
      /\ UNCHANGED <<failures, streak, sensors>>
      /\ sensors \notin {"stamp", "decide", "open", "count", "tally", "close"}
  BY DEF UpdateBreaker, Recording, RecordingFailure, RecordingSuccess
<1>4. CASE breakerState = "OPEN" /\ BreakerOlder(openedAge) >= OpenTicks
  <2>1. breakerState' = "HALF_OPEN" /\ successes' = 0 /\ confirmed' = 0
    BY <1>4 DEF UpdateBreaker
  <2>2. openFor = openedAge /\ openedAge + 1 >= OpenTicks
    BY <1>1, <1>2, <1>3, <1>4 DEF BreakerInv, BreakerTypeOK
  <2>3. QED
    BY <1>3, <1>4, <2>1, <2>2 DEF BreakerInv, GoodStep, PauseStep, CountStep
<1>5. CASE ~(breakerState = "OPEN" /\ BreakerOlder(openedAge) >= OpenTicks)
  <2>1. UNCHANGED <<breakerState, successes, confirmed>>
    BY <1>5 DEF UpdateBreaker
  <2>2. breakerState = "OPEN" => openFor = openedAge /\ BreakerOlder(openedAge) < OpenTicks
    BY <1>2, <1>3, <1>5 DEF BreakerInv
  <2>3. QED
    BY <1>3, <2>1, <2>2 DEF BreakerInv, GoodStep, PauseStep, CountStep
<1>6. QED
  BY <1>4, <1>5

\* The loads, tests and stores of the sensors task, when nobody cut in.
LEMMA RecordKeeps ==
    ASSUME BreakerTypeOK, BreakerInv, SensorsTask
    PROVE  BreakerInv' /\ GoodStep
<1> USE DEF RecordStep
<1>1. CASE SensorsBegin
  BY <1>1 DEF SensorsBegin, BreakerInv, GoodStep, PauseStep, CountStep
<1>2. CASE SensorsSucceed
  BY <1>2 DEF SensorsSucceed, BreakerInv, GoodStep, PauseStep, CountStep
<1>3. CASE StoreTally
  <2>1. breakerState = "HALF_OPEN" =>
          Capped(loaded + 1, SuccessThreshold) <= Capped(confirmed + 1, SuccessThreshold)
    BY <1>3, CappedRange DEF StoreTally, BreakerTypeOK, BreakerInv
  <2>2. QED
    BY <1>3, <2>1 DEF StoreTally, BreakerInv, GoodStep, PauseStep, CountStep
<1>4. CASE ClearFailures
  BY <1>4 DEF ClearFailures, BreakerInv, GoodStep, PauseStep, CountStep
<1>5. CASE JudgeSuccess
  BY <1>5 DEF JudgeSuccess, Closes, BreakerInv, GoodStep, PauseStep, CountStep
<1>6. CASE StoreClosed
  <2>1. successes >= SuccessThreshold /\ successes <= confirmed
    BY <1>6 DEF StoreClosed, Closes, BreakerInv
  <2>2. QED
    BY <1>6, <2>1 DEF StoreClosed, BreakerInv, GoodStep, PauseStep, CountStep, BreakerTypeOK
<1>7. CASE ResetSuccesses
  <2>1. 0 <= confirmed
    BY DEF BreakerTypeOK
  <2>2. QED
    BY <1>7, <2>1 DEF ResetSuccesses, BreakerInv, GoodStep, PauseStep, CountStep
<1>8. CASE SensorsFail
  BY <1>8 DEF SensorsFail, BreakerInv, GoodStep, PauseStep, CountStep
<1>9. CASE CountFailure
  <2>1. Capped(loaded + 1, FailureThreshold) <= Capped(streak + 1, FailureThreshold)
    BY <1>9, CappedRange DEF CountFailure, BreakerTypeOK, BreakerInv
  <2>2. QED
    BY <1>9, <2>1 DEF CountFailure, BreakerInv, GoodStep, PauseStep, CountStep
<1>10. CASE DecideFailure
  BY <1>10 DEF DecideFailure, Opens, BreakerInv, GoodStep, PauseStep, CountStep
<1>11. CASE StoreOpen
  <2>1. breakerState = "CLOSED" => failures >= FailureThreshold
    BY <1>11 DEF StoreOpen, Opens, BreakerInv
  <2>2. QED
    BY <1>11, <2>1 DEF StoreOpen, BreakerInv, GoodStep, PauseStep, CountStep, BreakerTypeOK
<1>12. CASE StampOpened
  BY <1>12 DEF StampOpened, BreakerInv, GoodStep, PauseStep, CountStep
<1>13. QED
  BY <1>1, <1>2, <1>3, <1>4, <1>5, <1>6, <1>7, <1>8, <1>9, <1>10, <1>11, <1>12
  DEF SensorsTask

\* Every step, whether it cuts in, mends, or neither.
LEMMA BreakerStep ==
    ASSUME BreakerTypeOK, Uncut, [BreakerNext]_breakerVars
    PROVE  /\ Uncut'
           /\ ~cutInto => CountStep
           /\ ~cutInto' => PauseStep
<1> USE DEF GoodStep
<1>1. CASE Wake
  <2>1. CountStep
    BY <1>1 DEF Wake, UpdateBreaker, CountStep
  <2>2. CASE sensors \notin Recording /\ ~cutInto
    BY <1>1, <2>1, <2>2, UpdateKeeps DEF Wake, CutsIn, Uncut
  <2>3. CASE sensors \in Recording \/ cutInto
    BY <1>1, <2>1, <2>3 DEF Wake, CutsIn, Uncut
  <2>4. QED
    BY <2>2, <2>3
<1>2. CASE SafetyBegin
  BY <1>2 DEF SafetyBegin, BreakerInv, PauseStep, CountStep, Uncut, Opens, Closes
<1>3. CASE SafetyEnd
  <2>1. ~cutInto => GoodStep
    BY <1>3, RecordsCount DEF SafetyEnd, Uncut
  <2>2. PauseStep
    BY <1>3 DEF SafetyEnd, RecordSuccess, RecordFailure, PauseStep
  <2>3. Uncut'
    BY <1>3, SuccessKeeps, SuccessMends, FailureKeeps DEF SafetyEnd, CutsIn, Mends, Uncut
  <2>4. QED
    BY <2>1, <2>2, <2>3
<1>4. CASE SensorsTask
  <2>1. UNCHANGED cutInto
    BY <1>4 DEF SensorsTask, SensorsBegin, SensorsSucceed, StoreTally, ClearFailures,
                JudgeSuccess, StoreClosed, ResetSuccesses, SensorsFail, CountFailure,
                DecideFailure, StoreOpen, StampOpened, RecordStep
  <2>2. QED
    BY <1>4, <2>1, RecordKeeps DEF Uncut
<1>5. CASE BusChanges
  BY <1>5 DEF BusChanges, BreakerInv, PauseStep, CountStep, Uncut, Opens, Closes
<1>6. CASE UNCHANGED breakerVars
  BY <1>6 DEF BreakerInv, PauseStep, CountStep, Uncut, Opens, Closes
<1>7. QED
  BY <1>1, <1>2, <1>3, <1>4, <1>5, <1>6 DEF BreakerNext, SafetyReads

LEMMA BreakerInvariant == BreakerSpec => []Uncut
<1>1. BreakerInit => Uncut
  BY DEF BreakerInit, Uncut, BreakerInv
<1>2. BreakerTypeOK /\ Uncut /\ [BreakerNext]_breakerVars => Uncut'
  BY BreakerStep
<1>3. QED
  BY <1>1, <1>2, BreakerTypeCorrect, PTL DEF BreakerSpec

\* A given-up bus is tried again in time: circuit_breaker_update finds the
\* timeout of every opening, whichever task recorded it.
THEOREM PauseEnds == BreakerSpec => []OpenEnds
<1>1. Uncut => OpenEnds
  BY DEF Uncut, BreakerInv, OpenEnds
<1>2. QED
  BY <1>1, BreakerInvariant, PTL

\* ... and not before it.
THEOREM PauseHolds == BreakerSpec => WholePause
<1>1. BreakerTypeOK /\ Uncut /\ [BreakerNext]_breakerVars =>
          [breakerState = "OPEN" /\ breakerState' = "HALF_OPEN" /\ ~cutInto'
             => openFor + 1 >= OpenTicks]_breakerVars
  BY BreakerStep DEF PauseStep
<1>2. QED
  BY <1>1, BreakerInvariant, BreakerTypeCorrect, PTL DEF BreakerSpec, WholePause

\* Only readings of the trial close the breaker (record_success).
THEOREM TrialCloses == BreakerSpec => ClosesOnlyConfirmed
<1>1. BreakerTypeOK /\ Uncut /\ [BreakerNext]_breakerVars =>
          [breakerState = "HALF_OPEN" /\ breakerState' = "CLOSED" /\ ~cutInto
             => confirmed' >= SuccessThreshold]_breakerVars
  BY BreakerStep DEF CountStep
<1>2. QED
  BY <1>1, BreakerInvariant, BreakerTypeCorrect, PTL DEF BreakerSpec, ClosesOnlyConfirmed

\* Only an unbroken run of failures, of both tasks, opens it (record_failure).
THEOREM StreakTrips == BreakerSpec => TripsOnStreak
<1>1. BreakerTypeOK /\ Uncut /\ [BreakerNext]_breakerVars =>
          [breakerState = "CLOSED" /\ breakerState' = "OPEN" /\ ~cutInto
             => streak' >= FailureThreshold]_breakerVars
  BY BreakerStep DEF CountStep
<1>2. QED
  BY <1>1, BreakerInvariant, BreakerTypeCorrect, PTL DEF BreakerSpec, TripsOnStreak
=================================================================================
