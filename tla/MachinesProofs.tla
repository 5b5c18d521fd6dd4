------------------------------ MODULE MachinesProofs ------------------------------
(***************************************************************************)
(* The electric machine for all limits and gaps between samples, the ATO   *)
(* machine for all levels, configurations, thresholds and periods, and the *)
(* plug manager for all types, minimum times and delays: typing, and the   *)
(* bounds on what may go on for too long.                                  *)
(***************************************************************************)
EXTENDS AtoFsm, ElectricFsm, PlugManager, TLAPS

-----------------------------------------------------------------------------------
(* The electric machine: no condition lasts for longer than it may.         *)

\* Ageing keeps an age an age, and the order of ages; it unsets nothing.
LEMMA ElectricAgedType ==
    ASSUME NEW gap \in 1 .. MaxSampleGap
    PROVE  /\ 0 \in ElectricAges /\ Unset \in ElectricAges
           /\ \A age \in ElectricAges :
                 /\ ElectricAged(age, gap) \in ElectricAges
                 /\ ElectricAged(age, gap) = Unset <=> age = Unset
           /\ \A a, b \in ElectricAges :
                 a # Unset /\ a >= b => ElectricAged(a, gap) >= ElectricAged(b, gap)
BY ElectricAssumption, SMT DEF ElectricAged, ElectricAges, Unset

\* A timer after a sample.
LEMMA TimedType ==
    ASSUME ElectricTypeOK, NEW gap \in 1 .. MaxSampleGap, NEW sample, NEW c \in Lasting
    PROVE  Timed(c, sample, gap) \in ElectricAges
<1>1. timer[c] \in ElectricAges
  BY DEF ElectricTypeOK
<1>2. QED
  BY <1>1, ElectricAgedType DEF Timed

\* Type correctness of the electric machine, whatever is sampled.
THEOREM ElectricTypeCorrect == ElectricSpec => []ElectricTypeOK
<1>1. ElectricInit => ElectricTypeOK
  BY DEF ElectricInit, ElectricTypeOK, ElectricAges
<1>2. ElectricTypeOK /\ [ElectricNext]_electricVars => ElectricTypeOK'
  <2> SUFFICES ASSUME ElectricTypeOK, [ElectricNext]_electricVars PROVE ElectricTypeOK'
    OBVIOUS
  <2>1. ASSUME NEW gap \in 1 .. MaxSampleGap, NoSample(gap) PROVE ElectricTypeOK'
    BY <2>1, ElectricAgedType DEF NoSample, ElectricTypeOK
  <2>2. ASSUME NEW gap \in 1 .. MaxSampleGap, NEW sample \in Samples, ValidSample(sample, gap)
        PROVE  ElectricTypeOK'
    <3>1. timer' \in [Lasting -> ElectricAges]
      <4>1. \A c \in Lasting : /\ Timed(c, sample, gap) \in ElectricAges
                               /\ ElectricAged(timer[c], gap) \in ElectricAges
        BY TimedType, ElectricAgedType DEF ElectricTypeOK
      <4>2. TimersAfter(sample, gap) \in [Lasting -> ElectricAges]
        BY <4>1 DEF TimersAfter
      <4>3. QED
        BY <2>2, <4>2 DEF ValidSample
    <3>2. seen' \in [Lasting -> ElectricAges]
      BY <2>2, ElectricAgedType DEF ValidSample, ElectricTypeOK
    <3>3. /\ quiet' \in ElectricAges
          /\ forced' \in BOOLEAN
          /\ electricState' \in {"NORMAL", "SHORT_CIRCUIT", "OVERLOAD", "OVERVOLTAGE",
                                 "UNDERVOLTAGE", "HIGH_CONSUMPTION"}
      <4>1. CASE Reached(7, sample, gap) /\ electricState' = Unforced(sample) /\ forced' = FALSE
                 /\ quiet' = IF quiet = Unset THEN 0 ELSE ElectricAged(quiet, gap)
        BY <4>1, ElectricAgedType DEF ElectricTypeOK, Unforced
      <4>2. ASSUME NEW check \in 1 .. 6, electricState' = Verdict(check), forced' = TRUE,
                   quiet' = Unset
            PROVE  /\ quiet' \in ElectricAges
                   /\ forced' \in BOOLEAN
                   /\ electricState' \in {"NORMAL", "SHORT_CIRCUIT", "OVERLOAD",
                                 "OVERVOLTAGE", "UNDERVOLTAGE", "HIGH_CONSUMPTION"}
        BY <4>2, ElectricAgedType DEF Verdict
      <4>3. QED
        BY <2>2, <4>1, <4>2 DEF ValidSample
    <3>4. QED
      BY <3>1, <3>2, <3>3 DEF ElectricTypeOK
  <2>3. CASE ReloadElectric
    BY <2>3 DEF ReloadElectric, ElectricTypeOK, ElectricAges
  <2>4. CASE UNCHANGED electricVars
    BY <2>4 DEF electricVars, ElectricTypeOK
  <2>5. QED
    BY <2>1, <2>2, <2>3, <2>4 DEF ElectricNext
<1>3. QED
  BY <1>1, <1>2, PTL DEF ElectricSpec

-----------------------------------------------------------------------------------
(* A timer may start late, behind a protection that returned before it, or *)
(* count time that nobody observed; it is never behind both histories.     *)

TimersKeepUp ==
    \A c \in Lasting :
        seen[c] # Unset /\ quiet # Unset =>
            timer[c] # Unset /\ (timer[c] >= seen[c] \/ timer[c] >= quiet)

\* A condition that has lasted acts, at its place in the order.
LEMMA LastedActs ==
    ASSUME NEW c \in Lasting, NEW sample, NEW gap, Lasted(c, sample, gap)
    PROVE  ~Reached(7, sample, gap)
<1>1. Acts(Check(c), sample, gap) /\ Check(c) \in 1 .. 6
  <2>1. CASE c = "SHORT"
    <3>1. Check(c) = 1
      BY <2>1 DEF Check
    <3>2. QED
      BY <2>1, <3>1 DEF Acts
  <2>2. CASE c = "HIGH_VOLTAGE"
    <3>1. Check(c) = 3
      BY <2>2 DEF Check
    <3>2. QED
      BY <2>2, <3>1 DEF Acts
  <2>3. CASE c = "LOW_VOLTAGE"
    <3>1. Check(c) = 4
      BY <2>3 DEF Check
    <3>2. QED
      BY <2>3, <3>1 DEF Acts
  <2>4. CASE c = "TOTAL_CURRENT"
    <3>1. Check(c) = 5
      BY <2>4 DEF Check
    <3>2. QED
      BY <2>4, <3>1 DEF Acts
  <2>5. QED
    BY <2>1, <2>2, <2>3, <2>4 DEF Lasting
<1>2. QED
  BY <1>1 DEF Reached

\* After a sample that nothing acted on.
LEMMA QuietSample ==
    ASSUME ElectricTypeOK, TimersKeepUp, NEW gap \in 1 .. MaxSampleGap, NEW sample \in Samples,
           ValidSample(sample, gap), Reached(7, sample, gap),
           quiet' = IF quiet = Unset THEN 0 ELSE ElectricAged(quiet, gap)
    PROVE  /\ TimersKeepUp'
           /\ \A c \in Lasting : seen'[c] # Unset /\ seen'[c] >= Limit[c] /\ quiet' >= Limit[c]
                  => Lasted(c, sample, gap)
<1> SUFFICES ASSUME NEW c \in Lasting, seen'[c] # Unset
             PROVE  /\ timer'[c] # Unset
                    /\ timer'[c] >= seen'[c] \/ timer'[c] >= quiet'
                    /\ seen'[c] >= Limit[c] /\ quiet' >= Limit[c] => Lasted(c, sample, gap)
  BY DEF TimersKeepUp
<1>1. c \in Has(sample)
  BY DEF ValidSample
<1>2. timer'[c] = IF timer[c] = Unset THEN 0 ELSE ElectricAged(timer[c], gap)
  <2>1. Check(c) \in 1 .. 6
    BY DEF Lasting, Check
  <2>2. Reached(Check(c), sample, gap)
    BY <2>1 DEF Reached
  <2>3. timer' = TimersAfter(sample, gap)
    BY DEF ValidSample
  <2>4. timer'[c] = Timed(c, sample, gap)
    BY <2>2, <2>3 DEF TimersAfter
  <2>5. QED
    BY <1>1, <2>4 DEF Timed
<1>3. seen'[c] = IF seen[c] = Unset THEN 0 ELSE ElectricAged(seen[c], gap)
  BY <1>1 DEF ValidSample
<1>4. /\ timer[c] \in ElectricAges /\ seen[c] \in ElectricAges /\ quiet \in ElectricAges
      /\ Limit[c] \in Nat
  BY ElectricAssumption DEF ElectricTypeOK
<1>5. seen[c] # Unset /\ quiet # Unset =>
          timer[c] # Unset /\ (timer[c] >= seen[c] \/ timer[c] >= quiet)
  BY DEF TimersKeepUp
<1>6. /\ timer'[c] \in ElectricAges /\ timer'[c] # Unset
      /\ seen'[c] \in ElectricAges /\ quiet' \in ElectricAges
  BY <1>2, <1>3, <1>4, ElectricAgedType DEF Unset
<1>7. timer'[c] >= seen'[c] \/ timer'[c] >= quiet'
  <2>1. timer'[c] >= 0
    BY <1>6 DEF ElectricAges, Unset
  <2>2. CASE seen[c] = Unset \/ quiet = Unset
    BY <1>3, <2>1, <2>2
  <2>3. CASE seen[c] # Unset /\ quiet # Unset
    <3>1. /\ timer'[c] = ElectricAged(timer[c], gap)
          /\ seen'[c] = ElectricAged(seen[c], gap)
          /\ quiet' = ElectricAged(quiet, gap)
      BY <1>2, <1>3, <1>5, <2>3
    <3>2. QED
      BY <1>4, <1>5, <2>3, <3>1, ElectricAgedType
  <2>4. QED
    BY <2>2, <2>3
<1>8. seen'[c] >= Limit[c] /\ quiet' >= Limit[c] => timer'[c] >= Limit[c]
  BY <1>4, <1>6, <1>7 DEF ElectricAges, Unset
<1>9. timer'[c] = Timed(c, sample, gap)
  BY <1>1, <1>2 DEF Timed
<1>10. QED
  BY <1>1, <1>6, <1>7, <1>8, <1>9 DEF Lasted

\* The protections trip in time, for every sequence of samples and gaps.
THEOREM ProtectionsTrip == ElectricSpec => []TripsInTime
<1> DEFINE TripInv == TimersKeepUp /\ TripsInTime
<1>1. ElectricInit => TripInv
  BY DEF ElectricInit, TimersKeepUp, TripsInTime
<1>2. ElectricTypeOK /\ TripInv /\ [ElectricNext]_electricVars => TripInv'
  <2> SUFFICES ASSUME ElectricTypeOK, TripInv, [ElectricNext]_electricVars PROVE TripInv'
    OBVIOUS
  <2>1. ASSUME NEW gap \in 1 .. MaxSampleGap, NoSample(gap) PROVE TripInv'
    <3>1. TripsInTime'
      BY <2>1 DEF NoSample, TripsInTime
    <3>2. TimersKeepUp'
      <4> SUFFICES ASSUME NEW c \in Lasting, seen'[c] # Unset, quiet' # Unset
                   PROVE  /\ timer'[c] # Unset
                          /\ timer'[c] >= seen'[c] \/ timer'[c] >= quiet'
        BY DEF TimersKeepUp
      <4>1. /\ timer'[c] = ElectricAged(timer[c], gap)
            /\ seen'[c] = ElectricAged(seen[c], gap)
            /\ quiet' = ElectricAged(quiet, gap)
        BY <2>1 DEF NoSample
      <4>2. timer[c] \in ElectricAges /\ seen[c] \in ElectricAges /\ quiet \in ElectricAges
        BY DEF ElectricTypeOK
      <4>3. seen[c] # Unset /\ quiet # Unset
        BY <4>1, <4>2, ElectricAgedType
      <4>4. QED
        BY <4>1, <4>2, <4>3, ElectricAgedType DEF TimersKeepUp
    <3>3. QED
      BY <3>1, <3>2
  <2>2. ASSUME NEW gap \in 1 .. MaxSampleGap, NEW sample \in Samples, ValidSample(sample, gap)
        PROVE  TripInv'
    <3>1. CASE forced' = TRUE /\ quiet' = Unset
      BY <3>1 DEF TimersKeepUp, TripsInTime
    <3>2. CASE /\ Reached(7, sample, gap)
               /\ quiet' = IF quiet = Unset THEN 0 ELSE ElectricAged(quiet, gap)
      <4>1. /\ TimersKeepUp'
            /\ \A c \in Lasting :
                  seen'[c] # Unset /\ seen'[c] >= Limit[c] /\ quiet' >= Limit[c]
                      => Lasted(c, sample, gap)
        BY <2>2, <3>2, QuietSample
      <4>2. \A c \in Lasting : ~Lasted(c, sample, gap)
        BY <3>2, LastedActs
      <4>3. QED
        BY <4>1, <4>2 DEF TripsInTime
    <3>3. QED
      BY <2>2, <3>1, <3>2 DEF ValidSample
  <2>3. CASE ReloadElectric
    BY <2>3 DEF ReloadElectric, TimersKeepUp, TripsInTime
  <2>4. CASE UNCHANGED electricVars
    BY <2>4 DEF electricVars, TimersKeepUp, TripsInTime
  <2>5. QED
    BY <2>1, <2>2, <2>3, <2>4 DEF ElectricNext
<1>3. QED
  BY <1>1, <1>2, ElectricTypeCorrect, PTL DEF ElectricSpec

-----------------------------------------------------------------------------------
(* The ATO machine: the two bounds on the time the pump runs.               *)

USE AtoBoundsAssumption

\* Where the counters begin and end.
LEMMA AtoZeros ==
    0 \in 0 .. AgeCap /\ 0 \in 0 .. Debounce /\ Debounce \in 0 .. Debounce /\ 0 \in Nat
BY SMT

\* Ageing keeps an age an age.
LEMMA AgedType ==
    ASSUME AtoTypeOK, NEW period \in 1 .. MaxPeriod
    PROVE  /\ Aged(period) \in 0 .. AgeCap \cup {NoRefill}
           /\ PumpedBy(period) \in Nat
<1>1. Aged(period) \in 0 .. AgeCap \cup {NoRefill}
  BY DEF AtoTypeOK, Aged, AtoEarlier, NoRefill
<1>2. PumpedBy(period) \in Nat
  BY DEF AtoTypeOK, PumpedBy
<1>3. QED
  BY <1>1, <1>2

\* Type correctness of ato_fsm.c's state, for every configuration.
THEOREM AtoTypeCorrect == AtoSpec => []AtoTypeOK
<1>1. AtoInit => AtoTypeOK
  BY AtoZeros, Zenon DEF AtoInit, AtoTypeOK, AtoStates
<1>2. AtoTypeOK /\ [AtoNext]_atoVars => AtoTypeOK'
  <2> SUFFICES ASSUME AtoTypeOK, [AtoNext]_atoVars PROVE AtoTypeOK'
    OBVIOUS
  <2> USE DEF AtoTypeOK
  <2>1. ASSUME NEW period \in 1 .. MaxPeriod, AtoUpdate(period) PROVE AtoTypeOK'
    <3> USE AgedType, AtoZeros DEF Answer, AtoStates
    <3>1. UNCHANGED atoConfig
      BY <2>1 DEF AtoUpdate
    <3>2. CASE Disabled(period)
      BY <3>1, <3>2, Zenon DEF Disabled, RefillGoesOn
    <3>3. CASE InvalidSample(period)
      BY <3>1, <3>3, Zenon DEF InvalidSample, RefillGoesOn
    <3>4. ASSUME NEW level \in Levels, Overflowing(level, period) PROVE AtoTypeOK'
      BY <3>1, <3>4, Zenon DEF Overflowing, RefillGoesOn
    <3>5. ASSUME NEW level \in Levels, Blocked(level, period) PROVE AtoTypeOK'
      BY <3>1, <3>5, Zenon DEF Blocked, RefillGoesOn, KeptStable
    <3>6. ASSUME NEW level \in Levels, Unsettled(level, period) PROVE AtoTypeOK'
      <4>1. debounceCount' \in 0 .. Debounce
        BY <3>6 DEF Unsettled
      <4>2. stableLevel' \in Levels \cup {NoLevel}
        BY <3>6 DEF Unsettled, KeptStable
      <4>3. QED
        BY <3>1, <3>6, <4>1, <4>2 DEF Unsettled, RefillGoesOn
    <3>7. ASSUME NEW level \in Levels, StartRefill(level, period) PROVE AtoTypeOK'
      BY <3>1, <3>7, Zenon DEF StartRefill, Settled
    <3>8. ASSUME NEW level \in Levels, ContinueRefill(level, period) PROVE AtoTypeOK'
      BY <3>1, <3>8, Zenon DEF ContinueRefill, Settled, RefillGoesOn, RoseTo
    <3>9. ASSUME NEW level \in Levels, EndRefill(level) PROVE AtoTypeOK'
      BY <3>1, <3>9, Zenon DEF EndRefill, Settled
    <3>10. QED
      BY <2>1, <3>2, <3>3, <3>4, <3>5, <3>6, <3>7, <3>8, <3>9 DEF AtoUpdate
  <2>2. CASE ClearBlocked
    BY <2>2 DEF ClearBlocked
  <2>3. ASSUME NEW c \in AtoConfigs, SetAtoConfig(c) PROVE AtoTypeOK'
    BY <2>3 DEF SetAtoConfig
  <2>4. CASE UNCHANGED atoVars
    BY <2>4 DEF atoVars
  <2>5. QED
    BY <2>1, <2>2, <2>3, <2>4 DEF AtoNext
<1>3. QED
  BY <1>1, <1>2, PTL DEF AtoSpec

-----------------------------------------------------------------------------------
(* The clock of the refill outlives everything but a confirmed level: that *)
(* is why it bounds the time the pump runs.                                *)

\* Outside a refill the pump rests; the pump only runs while the refill is
\* younger than the timeout, and, before the level rose, than the detection.
PumpInv ==
    /\ refillAge = NoRefill => pumped = 0 /\ ~pumpRequest
    /\ refillAge # NoRefill /\ refillAge <= LongestTimeout => pumped <= refillAge
    /\ pumpRequest => refillAge <= LongestTimeout
    /\ pumpRequest /\ ~risen => refillAge < EmptyDetect
    /\ PumpBounded
    /\ DryRunBounded

\* What becomes of the clocks in a call that goes on with the refill.
LEMMA GoingOn ==
    ASSUME AtoTypeOK, PumpInv, NEW period \in 1 .. MaxPeriod
    PROVE  /\ Aged(period) = NoRefill <=> refillAge = NoRefill
           /\ refillAge = NoRefill => PumpedBy(period) = 0
           /\ Aged(period) # NoRefill /\ Aged(period) <= LongestTimeout =>
                  PumpedBy(period) <= Aged(period)
           /\ PumpedBy(period) <= LongestTimeout + MaxPeriod
           /\ ~risen => PumpedBy(period) < EmptyDetect + MaxPeriod
<1> USE DEF AtoTypeOK, PumpInv, PumpBounded, DryRunBounded, Aged, AtoEarlier, PumpedBy, NoRefill
<1>1. Aged(period) = NoRefill <=> refillAge = NoRefill
  OBVIOUS
<1>2. refillAge = NoRefill => PumpedBy(period) = 0
  OBVIOUS
<1>3. CASE pumpRequest
  <2>1. /\ refillAge # NoRefill
        /\ refillAge <= LongestTimeout
        /\ pumped <= refillAge
    BY <1>3
  <2>2. Aged(period) = refillAge + period /\ PumpedBy(period) = pumped + period
    BY <1>3, <2>1
  <2>3. ~risen => PumpedBy(period) < EmptyDetect + MaxPeriod
    BY <1>3, <2>1, <2>2
  <2>4. QED
    BY <1>1, <1>2, <2>1, <2>2, <2>3
<1>4. CASE ~pumpRequest
  <2>1. PumpedBy(period) = pumped
    BY <1>4
  <2>2. Aged(period) # NoRefill /\ Aged(period) <= LongestTimeout =>
            refillAge # NoRefill /\ refillAge <= LongestTimeout /\ refillAge <= Aged(period)
    OBVIOUS
  <2>3. QED
    BY <1>1, <1>2, <2>1, <2>2
<1>5. QED
  BY <1>3, <1>4

\* A call that goes on with the refill and lets the pump rest.
LEMMA RestingKeeps ==
    ASSUME AtoTypeOK, PumpInv, NEW period \in 1 .. MaxPeriod,
           RefillGoesOn(period), pumpRequest' = FALSE, risen => risen'
    PROVE  PumpInv'
BY GoingOn DEF AtoTypeOK, PumpInv, PumpBounded, DryRunBounded, RefillGoesOn

\* Both bounds of the pump, for every sensor, configuration and release.
THEOREM PumpRunsBounded == AtoSpec => [](PumpBounded /\ DryRunBounded)
<1>1. AtoInit => PumpInv
  BY DEF AtoInit, PumpInv, PumpBounded, DryRunBounded, NoRefill
<1>2. AtoTypeOK /\ PumpInv /\ [AtoNext]_atoVars => PumpInv'
  <2> SUFFICES ASSUME AtoTypeOK, PumpInv, [AtoNext]_atoVars PROVE PumpInv'
    OBVIOUS
  <2>1. ASSUME NEW period \in 1 .. MaxPeriod, AtoUpdate(period) PROVE PumpInv'
    <3>1. CASE Disabled(period)
      BY <3>1, RestingKeeps DEF Disabled, Answer
    <3>2. CASE InvalidSample(period)
      BY <3>2, RestingKeeps DEF InvalidSample, Answer
    <3>3. ASSUME NEW level \in Levels, Overflowing(level, period) PROVE PumpInv'
      BY <3>3, RestingKeeps DEF Overflowing, Answer
    <3>4. ASSUME NEW level \in Levels, Blocked(level, period) PROVE PumpInv'
      BY <3>4, RestingKeeps DEF Blocked, Answer
    <3>5. ASSUME NEW level \in Levels, Unsettled(level, period) PROVE PumpInv'
      BY <3>5, RestingKeeps DEF Unsettled, Answer
    <3>6. ASSUME NEW level \in Levels, StartRefill(level, period) PROVE PumpInv'
      <4>1. pumped' = 0 /\ refillAge' = 0 /\ risen' = risen
        BY <3>6, GoingOn DEF StartRefill
      <4>2. QED
        BY <4>1 DEF PumpInv, PumpBounded, DryRunBounded, NoRefill
    <3>7. ASSUME NEW level \in Levels, ContinueRefill(level, period) PROVE PumpInv'
      <4>1. /\ refillAge # NoRefill
            /\ RefillGoesOn(period)
            /\ risen' = (risen \/ RoseTo(level))
        BY <3>7 DEF ContinueRefill
      <4>2. CASE ~pumpRequest'
        BY <4>1, <4>2, RestingKeeps, <3>7 DEF ContinueRefill, Answer
      <4>3. CASE pumpRequest'
        <5>1. ~OutOfTime(period) /\ ~Empty(level, period)
          BY <3>7, <4>3 DEF ContinueRefill, Answer
        <5>2. Aged(period) \in 0 .. AgeCap
          BY <4>1, AgedType, GoingOn
        <5>3. Aged(period) <= LongestTimeout
          <6>1. atoConfig.timeout \in 0 .. LongestTimeout
            BY AtoConfigAssumption DEF AtoTypeOK
          <6>2. QED
            BY <5>1, <5>2, <6>1 DEF OutOfTime
        <5>4. ~risen' => ~risen /\ Aged(period) < EmptyDetect
          <6>1. ~risen' => ~risen /\ ~RoseTo(level)
            BY <4>1, Zenon
          <6>2. ~RoseTo(level) => ~(Aged(period) >= EmptyDetect)
            BY <5>1, Zenon DEF Empty
          <6>3. ~(Aged(period) >= EmptyDetect) => Aged(period) < EmptyDetect
            BY <5>2
          <6>4. QED
            BY <6>1, <6>2, <6>3
        <5>5. refillAge' = Aged(period) /\ pumped' = PumpedBy(period)
          BY <4>1 DEF RefillGoesOn
        <5>6. QED
          BY <5>2, <5>3, <5>4, <5>5, GoingOn
          DEF PumpInv, PumpBounded, DryRunBounded, NoRefill
      <4>4. QED
        BY <4>2, <4>3
    <3>8. ASSUME NEW level \in Levels, EndRefill(level) PROVE PumpInv'
      BY <3>8 DEF EndRefill, Answer, PumpInv, PumpBounded, DryRunBounded, NoRefill
    <3>9. QED
      BY <2>1, <3>1, <3>2, <3>3, <3>4, <3>5, <3>6, <3>7, <3>8 DEF AtoUpdate
  <2>2. CASE ClearBlocked
    BY <2>2 DEF ClearBlocked, PumpInv, PumpBounded, DryRunBounded
  <2>3. ASSUME NEW c \in AtoConfigs, SetAtoConfig(c) PROVE PumpInv'
    BY <2>3 DEF SetAtoConfig, PumpInv, PumpBounded, DryRunBounded
  <2>4. CASE UNCHANGED atoVars
    BY <2>4 DEF atoVars, PumpInv, PumpBounded, DryRunBounded
  <2>5. QED
    BY <2>1, <2>2, <2>3, <2>4 DEF AtoNext
<1>3. PumpInv => PumpBounded /\ DryRunBounded
  BY DEF PumpInv
<1>4. QED
  BY <1>1, <1>2, <1>3, AtoTypeCorrect, PTL DEF AtoSpec

(* The second bound by itself: water that the pump does not move is noticed, a   *)
(* pump never runs dry for longer than the detection time and one period.        *)
THEOREM DryRunsBounded == AtoSpec => []DryRunBounded
<1>1. PumpBounded /\ DryRunBounded => DryRunBounded
  OBVIOUS
<1>2. QED
  BY <1>1, PumpRunsBounded, PTL

-----------------------------------------------------------------------------------
(* The plug manager: nothing stays on that nobody wants.                    *)

USE PlugAssumption

\* A plug that counts its overcurrents is blocked at the third; time runs only for
\* a plug that is on though nobody wants it.
PlugCounts ==
    /\ ~plugBlocked => overcurrent <= 2
    /\ unwanted > 0 => relay /\ Unwanted

\* The time that a caller is about to note, or that was noted last, is no later
\* than the last try.
Noted ==
    /\ relay /\ toggleAge < PlugAgeCap => sinceSwitch <= toggleAge
    /\ \A c \in PlugCallers : relay /\ caller[c].step = "switched" => sinceSwitch <= caller[c].lag

\* The safety task is about to switch.
OnItsWay == caller["safety"].step = "decided"

OnItsWayInTime == OnItsWay => sinceTick <= caller["safety"].lag

\* A relay that is on although the safety task, when it decided last, saw that nobody
\* wants it: either the minimum ON time was not over then, or the task is about to
\* switch it off, or its switch failed.
Lingering ==
    relay /\ unwanted > sinceTick =>
        \/ sinceSwitch <= MinOn + MaxLag + sinceTick
        \/ /\ OnItsWay
           /\ \/ unwanted <= TickPeriod + sinceTick
              \/ sinceSwitch <= MinOn + MaxLag + TickPeriod + sinceTick

PlugTimes == PlugCounts /\ Noted /\ OnItsWayInTime /\ Lingering

PlugInv == PlugTypeOK /\ PlugTimes

LEMMA BooleanTargets ==
    ASSUME PlugTypeOK, NEW args \in Arguments, NEW now \in BOOLEAN, NEW blocked \in BOOLEAN
    PROVE  /\ HoldAfter(args) \in [active : BOOLEAN, on : BOOLEAN]
           /\ Target(args, now, blocked) \in BOOLEAN
           /\ args.protected = plugProtected /\ args.feed = feedActive
                /\ (blocked \/ Unwanted) /\ (plugBlocked => blocked)
                => ~Target(args, now, blocked)
<1>1. HoldAfter(args) \in [active : BOOLEAN, on : BOOLEAN]
  BY DEF HoldAfter, PlugTypeOK, Arguments
<1>2. Target(args, now, blocked) \in BOOLEAN
  BY Zenon DEF Target
<1>3. ASSUME args.protected = plugProtected, args.feed = feedActive, Unwanted, ~plugBlocked
      PROVE  Wanted(args, now) = FALSE
  BY <1>3 DEF Wanted, DuringFeed, PlugTypeOK, Unwanted
<1>4. QED
  BY <1>1, <1>2, <1>3 DEF Target

\* Where the gate is shut, the last try to switch was not long ago.
LEMMA GateTimes ==
    ASSUME PlugTypeOK, Noted, relay, NEW lag \in 0 .. MaxLag, ~GateOpen(FALSE, lag)
    PROVE  sinceSwitch <= MinOn + MaxLag
BY DEF GateOpen, Elapsed, Noted, PlugTypeOK

\* The histories go on by at most the time that passes.
LEMMA WatchKeeps ==
    ASSUME PlugInv, NEW passed \in 0 .. 1, Watch(passed), relay' \in BOOLEAN
    PROVE  /\ unwanted' \in 0 .. Grace + 1
           /\ unwanted' <= unwanted + passed
           /\ unwanted' > 0 => relay' /\ Unwanted'
           /\ sinceSwitch' \in 0 .. MinOn + Grace + 1
           /\ sinceSwitch' <= sinceSwitch + passed
           /\ Tries => sinceSwitch' = 0
<1>1. Grace \in Nat /\ unwanted \in 0 .. Grace + 1 /\ sinceSwitch \in 0 .. MinOn + Grace + 1
  BY DEF PlugInv, PlugTypeOK, Grace
<1>2. /\ unwanted' \in 0 .. Grace + 1
      /\ unwanted' <= unwanted + passed
      /\ unwanted' > 0 => relay' /\ Unwanted'
  BY <1>1 DEF Watch
<1>3. /\ sinceSwitch' \in 0 .. MinOn + Grace + 1
      /\ sinceSwitch' <= sinceSwitch + passed
      /\ Tries => sinceSwitch' = 0
  BY <1>1 DEF Watch
<1>4. QED
  BY <1>2, <1>3

\* Most steps switch nothing on, and leave the caller that is about to note a time
\* where it is.
LEMMA QuietStep ==
    ASSUME PlugInv, Watch(0), PlugTypeOK', relay' => relay, toggleAge' = toggleAge,
           sinceTick' = sinceTick, ~plugBlocked' => overcurrent' <= 2,
           caller'["safety"] = caller["safety"],
           \A c \in PlugCallers : caller'[c].step = "switched" => caller'[c] = caller[c]
    PROVE  PlugTimes'
<1>1. /\ unwanted' <= unwanted /\ sinceSwitch' <= sinceSwitch
      /\ unwanted' > 0 => relay' /\ Unwanted'
  BY WatchKeeps DEF PlugInv, PlugTypeOK
<1>2. PlugCounts'
  BY <1>1 DEF PlugCounts
<1>3. Noted'
  <2>1. relay' /\ toggleAge' < PlugAgeCap => sinceSwitch' <= toggleAge'
    BY <1>1 DEF PlugInv, PlugTimes, PlugTypeOK, Noted
  <2>2. ASSUME NEW c \in PlugCallers, relay', caller'[c].step = "switched"
        PROVE  sinceSwitch' <= caller'[c].lag
    <3>1. caller'[c] = caller[c] /\ relay /\ sinceSwitch <= caller[c].lag
      BY <2>2 DEF PlugInv, PlugTimes, Noted
    <3>2. caller[c].lag \in 0 .. MaxLag
      BY DEF PlugInv, PlugTypeOK, Places
    <3>3. QED
      BY <1>1, <3>1, <3>2 DEF PlugInv, PlugTypeOK
  <2>3. QED
    BY <2>1, <2>2 DEF Noted
<1>4. OnItsWayInTime' /\ (OnItsWay' <=> OnItsWay)
  BY DEF OnItsWayInTime, OnItsWay, PlugInv, PlugTimes
<1>5. Lingering'
  BY <1>1, <1>4 DEF Lingering, PlugInv, PlugTimes, PlugTypeOK
<1>6. QED
  BY <1>2, <1>3, <1>4, <1>5 DEF PlugTimes

\* A caller switches: that is a try of this instant.
LEMMA SwitchStep ==
    ASSUME PlugInv, Watch(0), PlugTypeOK', toggleAge' = toggleAge, sinceTick' = sinceTick,
           UNCHANGED <<plugBlocked, overcurrent>>,
           NEW c \in PlugCallers, caller[c].step = "decided",
           caller' = [caller EXCEPT ![c].step = "switched", ![c].on = FALSE]
    PROVE  PlugTimes'
<1>1. Tries
  BY DEF Tries, PlugInv, PlugTypeOK, Places
<1>2. sinceSwitch' = 0 /\ (unwanted' > 0 => relay' /\ Unwanted')
  BY <1>1, WatchKeeps DEF PlugInv, PlugTypeOK
<1>3. PlugCounts'
  BY <1>2 DEF PlugCounts, PlugInv, PlugTimes
<1>4. \A b \in PlugCallers : caller'[b] \in Places /\ caller'[b].lag \in 0 .. MaxLag
  BY DEF PlugTypeOK, Places
<1>5. Noted'
  BY <1>2, <1>4 DEF Noted, PlugTypeOK
<1>6. OnItsWayInTime'
  BY DEF OnItsWayInTime, OnItsWay, PlugInv, PlugTimes, PlugTypeOK, Places, PlugCallers
<1>7. Lingering'
  BY <1>2 DEF Lingering, PlugTypeOK
<1>8. QED
  BY <1>3, <1>5, <1>6, <1>7 DEF PlugTimes

\* What a tick does up to its decision, however old its arguments: it decides to
\* switch, or leaves the relay on only where it is wanted or the gate is shut.
DecisionOf(c, args) ==
    /\ UNCHANGED <<plugType, plugMode, world, toggleAge>>
    /\ {inSafeOff', monitorBlocked', safeStateBlocked'} \subseteq BOOLEAN
    /\ {plugBlocked', relay'} \subseteq BOOLEAN
    /\ overcurrent' \in 0 .. 3
    /\ ~plugBlocked' => overcurrent' <= 2
    /\ hold' \in [active : BOOLEAN, on : BOOLEAN]
    /\ relay' => relay
    /\ caller' \in [PlugCallers -> Places]
    /\ \A b \in PlugCallers : caller'[b].step = "switched" => caller'[b] = caller[b]
    /\ \A b \in PlugCallers \ {c} : caller'[b] = caller[b]
    /\ caller'[c].step = "decided" => caller'[c].lag = args.lag
    /\ args.protected = plugProtected /\ args.feed = feedActive /\ relay' /\ Unwanted
         => caller'[c].step = "decided" \/ ~GateOpen(FALSE, args.lag)

LEMMA Decides ==
    ASSUME PlugInv, NEW c \in PlugCallers, NEW args \in Arguments, Decide(c, args)
    PROVE  DecisionOf(c, args)
<1>1. PICK current \in {"BELOW", "NEAR", "ABOVE"} :
        \E now \in IF Overcurrent(current) THEN Switched(relay, FALSE) ELSE {relay} :
            LET isBlocked == BlockedAfter(current)
                target == Target(args, now, isBlocked)
                switches == target # now /\ GateOpen(target, args.lag)
            IN  /\ relay' = now
                /\ caller' = [caller EXCEPT ![c] =
                                IF switches
                                THEN [step |-> "decided", on |-> target, lag |-> args.lag]
                                ELSE Away]
                /\ plugBlocked' = isBlocked
                /\ overcurrent' = CountAfter(current)
  BY Zenon DEF Decide
<1>2. PICK now \in IF Overcurrent(current) THEN Switched(relay, FALSE) ELSE {relay} :
            LET isBlocked == BlockedAfter(current)
                target == Target(args, now, isBlocked)
                switches == target # now /\ GateOpen(target, args.lag)
            IN  /\ relay' = now
                /\ caller' = [caller EXCEPT ![c] =
                                IF switches
                                THEN [step |-> "decided", on |-> target, lag |-> args.lag]
                                ELSE Away]
                /\ plugBlocked' = isBlocked
                /\ overcurrent' = CountAfter(current)
  BY <1>1, Zenon
<1> DEFINE target == Target(args, now, BlockedAfter(current))
           switches == target # now /\ GateOpen(target, args.lag)
           place == IF switches THEN [step |-> "decided", on |-> target, lag |-> args.lag]
                    ELSE Away
<1>3. now \in BOOLEAN /\ (now => relay)
  BY DEF Switched, PlugInv, PlugTypeOK
<1>4. BlockedAfter(current) \in BOOLEAN /\ (plugBlocked => BlockedAfter(current))
  BY Zenon DEF BlockedAfter, PlugInv, PlugTypeOK
<1>5. /\ target \in BOOLEAN
      /\ args.protected = plugProtected /\ args.feed = feedActive /\ Unwanted => ~target
      /\ HoldAfter(args) \in [active : BOOLEAN, on : BOOLEAN]
  BY <1>3, <1>4, BooleanTargets DEF PlugInv
<1>6. /\ CountAfter(current) \in 0 .. 3
      /\ ~BlockedAfter(current) => CountAfter(current) <= 2
  BY DEF CountAfter, BlockedAfter, Overcurrent, PlugInv, PlugTypeOK, PlugTimes, PlugCounts
<1>7. args.lag \in 0 .. MaxLag /\ args.protected \in BOOLEAN /\ args.feed \in BOOLEAN
  BY DEF Arguments
<1>8. /\ relay' = now
      /\ caller' = [caller EXCEPT ![c] = place]
      /\ plugBlocked' = BlockedAfter(current)
      /\ overcurrent' = CountAfter(current)
  BY <1>2, Zenon
<1>9. /\ inSafeOff' = args.protected
      /\ hold' = HoldAfter(args)
      /\ monitorBlocked' = monitorOnly
      /\ safeStateBlocked' = (~monitorOnly /\ args.protected /\ ~offered)
      /\ UNCHANGED <<plugType, plugMode, world, toggleAge>>
  BY DEF Decide
<1> HIDE DEF target
<1>10. /\ place \in Places /\ place.step # "switched"
       /\ place.step = "decided" => place.lag = args.lag
       /\ place.step = "decided" <=> switches
  BY <1>5, <1>7 DEF Places, Away
<1> HIDE DEF place
<1>11. /\ caller' \in [PlugCallers -> Places] /\ caller'[c] = place
       /\ \A b \in PlugCallers \ {c} : caller'[b] = caller[b]
  BY <1>8, <1>10 DEF PlugInv, PlugTypeOK
<1>12. \A b \in PlugCallers : caller'[b].step = "switched" => caller'[b] = caller[b]
  BY <1>10, <1>11
<1>13. {inSafeOff', monitorBlocked', safeStateBlocked'} \subseteq BOOLEAN
  BY <1>7, <1>9, Zenon DEF PlugInv, PlugTypeOK
<1>14. args.protected = plugProtected /\ args.feed = feedActive /\ relay' /\ Unwanted
         => caller'[c].step = "decided" \/ ~GateOpen(FALSE, args.lag)
  <2> SUFFICES ASSUME args.protected = plugProtected, args.feed = feedActive, relay', Unwanted,
                      GateOpen(FALSE, args.lag)
               PROVE  caller'[c].step = "decided"
    OBVIOUS
  <2>1. target = FALSE /\ now = TRUE
    BY <1>3, <1>5, <1>8
  <2>2. QED
    BY <1>10, <1>11, <2>1
<1>15. QED
  BY <1>3, <1>4, <1>5, <1>6, <1>8, <1>9, <1>10, <1>11, <1>12, <1>13, <1>14 DEF DecisionOf

\* Type correctness, step by step; the histories are WatchKeeps's.
LEMMA PlugTyped ==
    ASSUME PlugInv, [PlugNext]_plugVars
    PROVE  PlugTypeOK'
<1> USE DEF PlugInv
<1>0. PlugTypeOK
  OBVIOUS
<1>1. ASSUME NEW passed \in 0 .. 1, Watch(passed),
             unwanted' \in 0 .. Grace + 1 /\ sinceSwitch' \in 0 .. MinOn + Grace + 1
               => PlugTypeOK',
             relay' \in BOOLEAN
      PROVE  PlugTypeOK'
  BY <1>1, WatchKeeps
<1>2. ASSUME NEW c \in PlugCallers, NEW args \in Arguments, DecisionOf(c, args), Watch(0),
             UNCHANGED changes, sinceTick' \in {0, sinceTick},
             called' \in {NoArguments, called}
      PROVE  PlugTypeOK'
  BY <1>0, <1>1, <1>2 DEF DecisionOf, PlugTypeOK, world
<1>3. CASE SafetyDecides /\ Watch(0) /\ UNCHANGED changes
  <2>1. PICK lag \in 0 .. MaxLag :
          Decide("safety", [protected |-> plugProtected, feed |-> feedActive, lag |-> lag])
    BY <1>3 DEF SafetyDecides
  <2> DEFINE args == [protected |-> plugProtected, feed |-> feedActive, lag |-> lag]
  <2>2. args \in Arguments
    BY DEF Arguments, PlugTypeOK
  <2> HIDE DEF args
  <2>3. Decide("safety", args)
    BY <2>1 DEF args
  <2>4. "safety" \in PlugCallers /\ sinceTick' = 0 /\ called' = called
    BY <1>3 DEF SafetyDecides, PlugCallers
  <2>5. DecisionOf("safety", args)
    BY <2>2, <2>3, <2>4, Decides
  <2>6. QED
    BY <1>2, <1>3, <2>2, <2>4, <2>5
<1>4. CASE PlugTaskDecides /\ Watch(0) /\ UNCHANGED changes
  <2>1. called \in Arguments /\ "plug_control" \in PlugCallers
    BY <1>4 DEF PlugTaskDecides, PlugTypeOK, PlugCallers
  <2>2. DecisionOf("plug_control", called)
    BY <1>4, <2>1, Decides DEF PlugTaskDecides
  <2>3. QED
    BY <1>2, <1>4, <2>1, <2>2 DEF PlugTaskDecides
<1>5. CASE PlugTaskReads /\ Watch(0) /\ UNCHANGED changes
  <2>1. called' \in Arguments
    BY <1>5 DEF PlugTaskReads, Arguments, PlugTypeOK
  <2>2. QED
    BY <1>0, <1>1, <1>5, <2>1 DEF PlugTaskReads, PlugTypeOK, world, marks
<1>6. ASSUME NEW c \in PlugCallers, TickSwitches(c), Watch(0), UNCHANGED changes PROVE PlugTypeOK'
  <2>1. relay' \in BOOLEAN
    BY <1>6 DEF TickSwitches, Switched, PlugTypeOK, Places
  <2>2. caller' \in [PlugCallers -> Places]
    BY <1>6 DEF TickSwitches, PlugTypeOK, Places
  <2>3. QED
    BY <1>0, <1>1, <1>6, <2>1, <2>2 DEF TickSwitches, PlugTypeOK, world, marks
<1>7. ASSUME NEW c \in PlugCallers, Note(c), Watch(0), UNCHANGED changes PROVE PlugTypeOK'
  <2>1. caller' \in [PlugCallers -> Places] /\ caller[c].lag \in 0 .. MaxLag
    BY <1>7 DEF Note, PlugTypeOK, Places, Away
  <2>2. QED
    BY <1>0, <1>1, <1>7, <2>1 DEF Note, PlugTypeOK, world, marks
<1>8. ASSUME NEW on \in BOOLEAN, HandDecides(on), Watch(0), UNCHANGED changes PROVE PlugTypeOK'
  <2>1. caller' \in [PlugCallers -> Places]
    <3>1. [step |-> "decided", on |-> on, lag |-> 0] \in Places
      BY DEF Places
    <3>2. caller' = [caller EXCEPT !["hand"] = [step |-> "decided", on |-> on, lag |-> 0]]
      BY <1>8 DEF HandDecides
    <3>3. QED
      BY <1>0, <3>1, <3>2 DEF PlugTypeOK
  <2>2. QED
    BY <1>0, <1>1, <1>8, <2>1 DEF HandDecides, PlugTypeOK, world, marks
<1>9. CASE HandSwitches /\ Watch(0) /\ UNCHANGED changes
  <2>1. caller' \in [PlugCallers -> Places] /\ caller["hand"].on \in BOOLEAN
    BY <1>9 DEF HandSwitches, PlugTypeOK, Places, PlugCallers
  <2>2. QED
    BY <1>0, <1>1, <1>9, <2>1 DEF HandSwitches, PlugTypeOK, world, marks
<1>10. CASE HandFails /\ Watch(0) /\ UNCHANGED changes
  <2>1. caller' \in [PlugCallers -> Places] /\ relay' \in BOOLEAN
    <3>1. Away \in Places
      BY DEF Places, Away
    <3>2. caller' = [caller EXCEPT !["hand"] = Away] /\ relay' \in {relay, FALSE}
      BY <1>10 DEF HandFails
    <3>3. QED
      BY <1>0, <3>1, <3>2 DEF PlugTypeOK
  <2>2. QED
    BY <1>0, <1>1, <1>10, <2>1 DEF HandFails, PlugTypeOK, world, marks
<1>11. CASE Change /\ Watch(0)
  <2>1. changes' \in 0 .. MaxChanges
    BY <1>11 DEF Change, PlugTypeOK
  <2>2. CASE BlockShorted
    <3>1. relay' \in BOOLEAN
      BY <2>2 DEF BlockShorted, Switched, PlugTypeOK
    <3>2. QED
      BY <1>0, <1>1, <1>11, <2>1, <2>2, <3>1 DEF BlockShorted, PlugTypeOK, world, marks
  <2>3. CASE Unblock
    <3>1. /\ plugBlocked' = FALSE /\ overcurrent' = 0
          /\ UNCHANGED <<plugType, plugMode, world, inSafeOff, monitorBlocked>>
          /\ UNCHANGED <<safeStateBlocked, hold, relay, toggleAge, called, caller, sinceTick>>
      BY <2>3 DEF Unblock
    <3>2. /\ {plugProtected', monitorOnly', feedActive', request', offered'} \subseteq BOOLEAN
          /\ {inSafeOff', monitorBlocked', safeStateBlocked'} \subseteq BOOLEAN
          /\ {plugBlocked', relay'} \subseteq BOOLEAN /\ relay' \in BOOLEAN
      BY <1>0, <3>1, Zenon DEF PlugTypeOK, world
    <3>3. QED
      BY <1>0, <1>1, <1>11, <2>1, <3>1, <3>2 DEF PlugTypeOK
  <2>4. CASE SetMode
    BY <1>0, <1>1, <1>11, <2>1, <2>4 DEF SetMode, PlugTypeOK, world, marks
  <2>5. CASE ApplySafeOff
    <3>1. /\ plugProtected' = TRUE /\ inSafeOff' = TRUE /\ offered' = FALSE
          /\ safeStateBlocked' = TRUE /\ relay' \in {relay, FALSE}
          /\ UNCHANGED <<plugType, plugMode, monitorOnly, feedActive, request, monitorBlocked>>
          /\ UNCHANGED <<plugBlocked, overcurrent, hold, toggleAge, called, caller, sinceTick>>
      BY <2>5 DEF ApplySafeOff
    <3>2. /\ {plugProtected', monitorOnly', feedActive', request', offered'} \subseteq BOOLEAN
          /\ {inSafeOff', monitorBlocked', safeStateBlocked'} \subseteq BOOLEAN
          /\ {plugBlocked', relay'} \subseteq BOOLEAN /\ relay' \in BOOLEAN
      BY <1>0, <3>1, Zenon DEF PlugTypeOK
    <3>3. QED
      BY <1>0, <1>1, <1>11, <2>1, <3>1, <3>2 DEF PlugTypeOK
  <2>6. CASE WorldMoves
    <3>1. {plugProtected', monitorOnly', feedActive', request', offered'} \subseteq BOOLEAN
      BY <2>6, Zenon DEF WorldMoves, PlugTypeOK
    <3>2. QED
      BY <1>0, <1>1, <1>11, <2>1, <2>6, <3>1 DEF WorldMoves, PlugTypeOK, world, marks
  <2>7. QED
    BY <1>11, <2>2, <2>3, <2>4, <2>5, <2>6 DEF Change
<1>12. CASE PassTime /\ Watch(1) /\ UNCHANGED changes
  <2>1. /\ sinceTick' \in 0 .. TickPeriod /\ toggleAge' \in 0 .. PlugAgeCap
        /\ UNCHANGED <<plugType, plugMode, world, inSafeOff, marks, hold, relay>>
    BY <1>12 DEF PassTime, Later, PlugTypeOK
  <2>2. called' \in Arguments \cup {NoArguments}
    <3>1. CASE called = NoArguments
      BY <1>12, <3>1 DEF PassTime
    <3>2. CASE called \in Arguments /\ called # NoArguments
      <4>1. called.lag \in 0 .. MaxLag /\ called.lag < MaxLag
        BY <1>12, <3>2 DEF PassTime, Arguments
      <4>2. called' = [called EXCEPT !.lag = called.lag + 1] /\ called.lag + 1 \in 0 .. MaxLag
        BY <1>12, <3>2, <4>1 DEF PassTime
      <4>3. QED
        BY <3>2, <4>2 DEF Arguments
    <3>3. QED
      BY <3>1, <3>2 DEF PlugTypeOK
  <2>3. caller' \in [PlugCallers -> Places]
    <3>1. ASSUME NEW c \in PlugCallers
          PROVE  (IF caller[c] = Away THEN Away ELSE [caller[c] EXCEPT !.lag = caller[c].lag + 1])
                   \in Places
      <4>1. CASE caller[c] = Away
        BY <4>1 DEF Places, Away
      <4>2. CASE caller[c] # Away
        <5>1. caller[c].lag \in 0 .. MaxLag /\ caller[c].lag < MaxLag
          BY <1>12, <4>2 DEF PassTime, PlugTypeOK, Places
        <5>2. caller[c] \in Places /\ caller[c].lag + 1 \in 0 .. MaxLag
          BY <5>1 DEF PlugTypeOK
        <5>3. QED
          BY <4>2, <5>2 DEF Places
      <4>3. QED
        BY <4>1, <4>2
    <3>2. QED
      BY <1>12, <3>1 DEF PassTime
  <2>4. QED
    BY <1>0, <1>1, <1>12, <2>1, <2>2, <2>3 DEF PlugTypeOK, world, marks
<1>13. CASE UNCHANGED plugVars
  BY <1>0, <1>13 DEF plugVars, PlugTypeOK, world, marks
<1>14. QED
  BY <1>3, <1>4, <1>5, <1>6, <1>7, <1>8, <1>9, <1>10, <1>11, <1>12, <1>13
  DEF PlugNext, CallerStep

\* The end of what nobody wants, step by step.
LEMMA PlugTimed ==
    ASSUME PlugInv, [PlugNext]_plugVars, PlugTypeOK'
    PROVE  PlugTimes'
<1>0. PlugTypeOK /\ PlugCounts
  BY DEF PlugInv, PlugTimes
<1>1. CASE SafetyDecides /\ Watch(0) /\ UNCHANGED changes
  <2>1. PICK lag \in 0 .. MaxLag :
          Decide("safety", [protected |-> plugProtected, feed |-> feedActive, lag |-> lag])
    BY <1>1 DEF SafetyDecides
  <2> DEFINE args == [protected |-> plugProtected, feed |-> feedActive, lag |-> lag]
  <2>2. /\ args \in Arguments /\ args.protected = plugProtected /\ args.feed = feedActive
        /\ args.lag = lag
    BY <1>0 DEF Arguments, PlugTypeOK
  <2> HIDE DEF args
  <2>3. Decide("safety", args)
    BY <2>1 DEF args
  <2>4. /\ "safety" \in PlugCallers /\ sinceTick' = 0 /\ ~OnItsWay
        /\ caller["safety"] = Away
    BY <1>1 DEF SafetyDecides, PlugCallers, MayBegin, AtWork, OnItsWay, Away
  <2>5. DecisionOf("safety", args)
    BY <2>2, <2>3, <2>4, Decides
  <2>6. /\ relay' => relay
        /\ toggleAge' = toggleAge
        /\ ~plugBlocked' => overcurrent' <= 2
        /\ \A b \in PlugCallers : caller'[b].step = "switched" => caller'[b] = caller[b]
        /\ caller'["safety"].step = "decided" => caller'["safety"].lag = lag
        /\ relay' /\ Unwanted => caller'["safety"].step = "decided" \/ ~GateOpen(FALSE, lag)
    BY <2>2, <2>5 DEF DecisionOf
  <2>7. /\ unwanted' <= unwanted /\ sinceSwitch' <= sinceSwitch
        /\ unwanted' > 0 => relay' /\ Unwanted'
    BY <1>0, <1>1, WatchKeeps DEF PlugTypeOK, Grace
  <2>8. PlugCounts'
    BY <2>6, <2>7 DEF PlugCounts
  <2>9. Noted'
    <3>1. relay' /\ toggleAge' < PlugAgeCap => sinceSwitch' <= toggleAge'
      BY <1>0, <2>6, <2>7 DEF PlugInv, PlugTimes, PlugTypeOK, Noted
    <3>2. ASSUME NEW c \in PlugCallers, relay', caller'[c].step = "switched"
          PROVE  sinceSwitch' <= caller'[c].lag
      <4>1. caller'[c] = caller[c] /\ relay /\ sinceSwitch <= caller[c].lag
        BY <2>6, <3>2 DEF PlugInv, PlugTimes, Noted
      <4>2. caller[c].lag \in 0 .. MaxLag
        BY <1>0 DEF PlugTypeOK, Places
      <4>3. QED
        BY <1>0, <2>7, <4>1, <4>2 DEF PlugTypeOK
    <3>3. QED
      BY <3>1, <3>2 DEF Noted
  <2>10. OnItsWayInTime'
    BY <2>4, <2>6 DEF OnItsWayInTime, OnItsWay
  <2>11. Lingering'
    <3> SUFFICES ASSUME relay', unwanted' > sinceTick'
                 PROVE  \/ sinceSwitch' <= MinOn + MaxLag + sinceTick'
                        \/ /\ OnItsWay'
                           /\ \/ unwanted' <= TickPeriod + sinceTick'
                              \/ sinceSwitch' <= MinOn + MaxLag + TickPeriod + sinceTick'
      BY DEF Lingering
    <3>1. relay /\ Unwanted
      BY <1>0, <2>4, <2>6, <2>7 DEF PlugCounts, PlugTypeOK
    <3>2. CASE ~GateOpen(FALSE, lag)
      <4>1. sinceSwitch <= MinOn + MaxLag
        BY <1>0, <3>1, <3>2, GateTimes DEF PlugInv, PlugTimes
      <4>2. QED
        BY <1>0, <2>4, <2>7, <4>1 DEF PlugTypeOK
    <3>3. CASE OnItsWay'
      <4>1. unwanted <= sinceTick \/ sinceSwitch <= MinOn + MaxLag + sinceTick
        BY <1>0, <2>4, <3>1 DEF PlugInv, PlugTimes, Lingering, PlugTypeOK
      <4>2. QED
        BY <1>0, <2>4, <2>7, <3>3, <4>1 DEF PlugTypeOK
    <3>4. QED
      BY <2>6, <3>1, <3>2, <3>3 DEF OnItsWay
  <2>12. QED
    BY <2>8, <2>9, <2>10, <2>11 DEF PlugTimes
<1>2. CASE PlugTaskDecides /\ Watch(0) /\ UNCHANGED changes
  <2>1. /\ called \in Arguments /\ "plug_control" \in PlugCallers
        /\ "safety" \in PlugCallers \ {"plug_control"}
    BY <1>0, <1>2 DEF PlugTaskDecides, PlugTypeOK, PlugCallers
  <2>2. DecisionOf("plug_control", called)
    BY <1>2, <2>1, Decides DEF PlugTaskDecides
  <2>3. QED
    BY <1>2, <2>1, <2>2, QuietStep DEF DecisionOf, PlugTaskDecides
<1>3. CASE PlugTaskReads /\ Watch(0) /\ UNCHANGED changes
  BY <1>0, <1>3, QuietStep DEF PlugTaskReads, PlugCounts, marks
<1>4. ASSUME NEW c \in PlugCallers, TickSwitches(c), Watch(0) PROVE PlugTimes'
  BY <1>4, SwitchStep DEF TickSwitches, marks
<1>5. ASSUME NEW c \in PlugCallers, Note(c), Watch(0) PROVE PlugTimes'
  <2>1. /\ caller[c].step = "switched" /\ toggleAge' = caller[c].lag
        /\ caller' = [caller EXCEPT ![c] = Away]
        /\ UNCHANGED <<relay, sinceTick, plugBlocked, overcurrent>>
    BY <1>5 DEF Note, marks
  <2>2. /\ unwanted' <= unwanted /\ sinceSwitch' <= sinceSwitch
        /\ unwanted' > 0 => relay' /\ Unwanted'
    BY <1>0, <1>5, <2>1, WatchKeeps DEF PlugTypeOK
  <2>3. PlugCounts'
    BY <1>0, <2>1, <2>2 DEF PlugCounts
  <2>4. \A b \in PlugCallers :
          /\ caller[b].lag \in 0 .. MaxLag
          /\ caller'[b].step \in {"decided", "switched"} => caller'[b] = caller[b]
    BY <1>0, <2>1 DEF PlugTypeOK, Places, Away
  <2>5. Noted'
    BY <1>0, <2>1, <2>2, <2>4 DEF Noted, PlugInv, PlugTimes, PlugTypeOK
  <2>6. OnItsWay' <=> OnItsWay
    BY <1>0, <2>1 DEF OnItsWay, PlugTypeOK, Places, PlugCallers, Away
  <2>7. OnItsWayInTime'
    BY <2>1, <2>4, <2>6 DEF OnItsWayInTime, OnItsWay, PlugInv, PlugTimes, PlugCallers
  <2>8. Lingering'
    BY <1>0, <2>1, <2>2, <2>6 DEF Lingering, PlugInv, PlugTimes, PlugTypeOK
  <2>9. QED
    BY <2>3, <2>5, <2>7, <2>8 DEF PlugTimes
<1>6. ASSUME NEW on \in BOOLEAN, HandDecides(on), Watch(0) PROVE PlugTimes'
  <2>1. /\ UNCHANGED <<relay, toggleAge, sinceTick, plugBlocked, overcurrent>>
        /\ caller' = [caller EXCEPT !["hand"] = [step |-> "decided", on |-> on, lag |-> 0]]
    BY <1>6 DEF HandDecides, marks
  <2>2. /\ caller'["safety"] = caller["safety"]
        /\ \A c \in PlugCallers : caller'[c].step = "switched" => caller'[c] = caller[c]
    BY <1>0, <2>1 DEF PlugTypeOK, PlugCallers
  <2>3. QED
    BY <1>0, <1>6, <2>1, <2>2, QuietStep DEF PlugCounts
<1>7. CASE HandSwitches /\ Watch(0) /\ UNCHANGED changes
  <2>1. "hand" \in PlugCallers
    BY DEF PlugCallers
  <2>2. QED
    BY <1>7, <2>1, SwitchStep DEF HandSwitches, marks
<1>8. CASE HandFails /\ Watch(0) /\ UNCHANGED changes
  <2>1. /\ UNCHANGED <<toggleAge, sinceTick, plugBlocked, overcurrent>> /\ (relay' => relay)
        /\ caller' = [caller EXCEPT !["hand"] = Away]
    BY <1>0, <1>8 DEF HandFails, marks, PlugTypeOK
  <2>2. /\ caller'["safety"] = caller["safety"]
        /\ \A c \in PlugCallers : caller'[c].step = "switched" => caller'[c] = caller[c]
    BY <1>0, <2>1 DEF PlugTypeOK, PlugCallers, Away
  <2>3. QED
    BY <1>0, <1>8, <2>1, <2>2, QuietStep DEF PlugCounts
<1>9. CASE Change /\ Watch(0)
  <2>1. ASSUME relay' => relay, ~plugBlocked' => overcurrent' <= 2,
               UNCHANGED <<toggleAge, sinceTick, caller>>
        PROVE  PlugTimes'
    BY <1>9, <2>1, QuietStep
  <2>2. CASE BlockShorted
    <3>1. relay' => relay
      BY <1>0, <2>2 DEF BlockShorted, Switched, PlugTypeOK
    <3>2. QED
      BY <2>1, <2>2, <3>1 DEF BlockShorted
  <2>3. CASE Unblock
    BY <2>1, <2>3 DEF Unblock
  <2>4. CASE SetMode
    BY <1>0, <2>1, <2>4 DEF SetMode, marks, PlugCounts
  <2>5. CASE ApplySafeOff
    <3>1. relay' => relay
      BY <1>0, <2>5 DEF ApplySafeOff, PlugTypeOK
    <3>2. QED
      BY <1>0, <2>1, <2>5, <3>1 DEF ApplySafeOff, PlugCounts
  <2>6. CASE WorldMoves
    <3>1. UNCHANGED <<relay, plugBlocked, overcurrent, toggleAge, sinceTick, caller>>
      BY <2>6 DEF WorldMoves, marks
    <3>2. QED
      BY <1>0, <2>1, <3>1 DEF PlugCounts
  <2>7. QED
    BY <1>9, <2>2, <2>3, <2>4, <2>5, <2>6 DEF Change
<1>10. CASE PassTime /\ Watch(1) /\ UNCHANGED changes
  <2>1. /\ sinceTick' = sinceTick + 1 /\ toggleAge' = Later(toggleAge)
        /\ UNCHANGED <<relay, plugBlocked, overcurrent>>
        /\ \A c \in PlugCallers : caller'[c] = IF caller[c] = Away THEN Away
                                           ELSE [caller[c] EXCEPT !.lag = caller[c].lag + 1]
    BY <1>10 DEF PassTime, marks
  <2>2. /\ unwanted' <= unwanted + 1 /\ sinceSwitch' <= sinceSwitch + 1
        /\ unwanted' > 0 => relay' /\ Unwanted'
    BY <1>0, <1>10, <2>1, WatchKeeps DEF PlugTypeOK
  <2>3. PlugCounts'
    BY <1>0, <2>1, <2>2 DEF PlugCounts
  <2>4. \A c \in PlugCallers : /\ caller[c].lag \in 0 .. MaxLag /\ caller'[c].step = caller[c].step
                               /\ caller[c].step # "away" => caller'[c].lag = caller[c].lag + 1
    BY <1>0, <2>1 DEF PlugTypeOK, Places, Away
  <2>5. Noted'
    <3>1. relay' /\ toggleAge' < PlugAgeCap => sinceSwitch' <= toggleAge'
      BY <1>0, <2>1, <2>2 DEF PlugInv, PlugTimes, PlugTypeOK, Noted, Later
    <3>2. ASSUME NEW c \in PlugCallers, relay', caller'[c].step = "switched"
          PROVE  sinceSwitch' <= caller'[c].lag
      <4>1. /\ relay /\ caller[c].step = "switched" /\ caller'[c].lag = caller[c].lag + 1
            /\ sinceSwitch <= caller[c].lag /\ caller[c].lag \in 0 .. MaxLag
        BY <2>1, <2>4, <3>2 DEF PlugInv, PlugTimes, Noted
      <4>2. QED
        BY <1>0, <2>2, <4>1 DEF PlugTypeOK
    <3>3. QED
      BY <3>1, <3>2 DEF Noted
  <2>6. OnItsWay' <=> OnItsWay
    BY <2>4 DEF OnItsWay, PlugCallers
  <2>7. OnItsWayInTime'
    BY <1>0, <2>1, <2>4, <2>6
    DEF OnItsWayInTime, OnItsWay, PlugInv, PlugTimes, PlugTypeOK, PlugCallers
  <2>8. Lingering'
    BY <1>0, <2>1, <2>2, <2>6 DEF Lingering, PlugInv, PlugTimes, PlugTypeOK
  <2>9. QED
    BY <2>3, <2>5, <2>7, <2>8 DEF PlugTimes
<1>11. CASE UNCHANGED plugVars
  BY <1>11
  DEF plugVars, world, marks, PlugInv, PlugTimes, PlugCounts, Noted, OnItsWayInTime, OnItsWay,
      Lingering, Unwanted
<1>12. QED
  BY <1>1, <1>2, <1>3, <1>4, <1>5, <1>6, <1>7, <1>8, <1>9, <1>10, <1>11
  DEF PlugNext, CallerStep

LEMMA PlugInvariant == PlugSpec => []PlugInv
<1>1. PlugInit => PlugInv
  <2> SUFFICES ASSUME PlugInit PROVE PlugInv
    OBVIOUS
  <2>1. /\ {plugProtected, monitorOnly, feedActive, request, offered} \subseteq BOOLEAN
        /\ {inSafeOff, monitorBlocked, safeStateBlocked} \subseteq BOOLEAN
        /\ {plugBlocked, relay} \subseteq BOOLEAN
        /\ plugMode \in {"AUTO", "MANUAL"}
        /\ hold \in [active : BOOLEAN, on : BOOLEAN]
    BY DEF PlugInit
  <2>2. /\ overcurrent = 0 /\ toggleAge = 0 /\ sinceTick = 0 /\ unwanted = 0
        /\ sinceSwitch = 0 /\ changes = 0 /\ ~relay
        /\ called = NoArguments /\ plugType \in PlugTypes
        /\ caller = [c \in PlugCallers |-> Away]
    BY DEF PlugInit
  <2>3. /\ 0 \in 0 .. TickPeriod /\ 0 \in 0 .. Grace + 1 /\ 0 \in 0 .. PlugAgeCap
        /\ 0 \in 0 .. MinOn + Grace + 1 /\ 0 \in 0 .. MaxChanges /\ Away \in Places
    BY DEF Grace, Away, Places
  <2>4. PlugTypeOK
    BY <2>1, <2>2, <2>3 DEF PlugTypeOK
  <2>5. PlugTimes
    BY <2>2 DEF PlugTimes, PlugCounts, Noted, OnItsWayInTime, OnItsWay, Lingering, Away, PlugCallers
  <2>6. QED
    BY <2>4, <2>5 DEF PlugInv
<1>2. PlugInv /\ [PlugNext]_plugVars => PlugInv'
  BY PlugTyped, PlugTimed DEF PlugInv
<1>3. QED
  BY <1>1, <1>2, PTL DEF PlugSpec

\* Type correctness of plug_manager.c's state, for every type of plug.
THEOREM PlugTypeCorrect == PlugSpec => []PlugTypeOK
<1>1. PlugInv => PlugTypeOK
  BY DEF PlugInv
<1>2. QED
  BY <1>1, PlugInvariant, PTL

\* A plug that has been on for longer than a tick can take though nobody wants it is
\* within the minimum ON time of the last attempt to switch it, whatever the age of
\* the arguments of the second ticker and wherever the three callers of
\* plug_manager.c interrupt each other.
THEOREM UnwantedIsEnded == PlugSpec => []UnwantedEnds
<1>1. PlugInv => UnwantedEnds
  BY DEF PlugInv, PlugTimes, PlugTypeOK, Places, PlugCallers, Lingering, OnItsWayInTime, OnItsWay,
         UnwantedEnds, Grace
<1>2. QED
  BY <1>1, PlugInvariant, PTL
===================================================================================
