----------------------------- MODULE RestartFsmProofs -----------------------------
(***************************************************************************)
(* RestartFsm for every order of relays, all durations and any requests:   *)
(* typing, the pacing of the offered relays, when relays are offered to    *)
(* the plug manager, and that nothing shortens the sequence.               *)
(***************************************************************************)
EXTENDS RestartFsm, TLAPS

USE DEF fsm, sequenceVars

\* The arithmetic of the stagger intervals, once.
LEMMA Intervals ==
    /\ Count \in Nat \ {0}
    /\ \A n \in Nat : /\ n * StaggerTicks \in Nat
                      /\ (n + 1) * StaggerTicks = n * StaggerTicks + StaggerTicks
    /\ 0 * StaggerTicks = 0
    /\ FullTime \in Nat /\ SequenceAgeCap \in Nat
    /\ FullTime = WaitTicks + Count * StaggerTicks + MonitorTicks
    /\ SequenceAgeCap > FullTime /\ FullTime >= WaitTicks
    /\ 0 \in 0 .. Count /\ 0 \in 0 .. SequenceAgeCap
<1>1. Count \in Nat \ {0}
  BY OrderAssumption DEF Count
<1>2. \A n \in Nat : /\ n * StaggerTicks \in Nat
                     /\ (n + 1) * StaggerTicks = n * StaggerTicks + StaggerTicks
  BY DurationsAssumption
<1>3. 0 * StaggerTicks = 0
  BY DurationsAssumption
<1>4. Count * StaggerTicks \in Nat
  BY <1>1, <1>2
<1>5. QED
  BY <1>1, <1>2, <1>3, <1>4, DurationsAssumption DEF FullTime, SequenceAgeCap

\* Nothing is ever blocked when the sequence runs, so that a relay that is due
\* moves the sequence on by one.
LEMMA SkipsNone ==
    ASSUME blockedMask = {}, NEW k \in 0 .. Count - 1
    PROVE  SkipBlocked(k) = k + 1
<1>1. Pending(k) = k + 1 .. Count - 1
  BY DEF Pending
<1>2. CASE k + 1 = Count
  <2>1. Pending(k) = {}
    BY <1>1, <1>2
  <2>2. QED
    BY <1>2, <2>1 DEF SkipBlocked
<1>3. CASE k + 1 # Count
  <2>1. k + 1 \in Pending(k) /\ \A j \in Pending(k) : k + 1 <= j
    BY <1>1, <1>3, Intervals
  <2>2. \A i \in Pending(k) : (\A j \in Pending(k) : i <= j) => i = k + 1
    BY <1>1, <2>1
  <2>3. QED
    BY <2>1, <2>2 DEF SkipBlocked
<1>4. QED
  BY <1>2, <1>3

\* The relays that a sequence offers, and when.
LEMMA EnergizedBits ==
    ASSUME NEW s \in Phases, NEW k \in 0 .. Count
    PROVE  /\ Energized(s, k) \subseteq Bits
           /\ s \in {"IDLE", "WAITING"} => Energized(s, k) = {}
<1>1. Count \in Nat
  BY Intervals
<1>2. CASE s = "ENERGIZING"
  BY <1>1, <1>2 DEF Energized, Bits
<1>3. CASE s \in {"MONITORING", "COMPLETE"}
  BY <1>1, <1>3 DEF Energized, Bits
<1>4. CASE s \in {"IDLE", "WAITING"}
  <2>1. Energized(s, k) = {Order[i] : i \in 1 .. 0} \ blockedMask
    BY <1>4 DEF Energized
  <2>2. 1 .. 0 = {}
    OBVIOUS
  <2>3. QED
    BY <1>4, <2>1, <2>2
<1>5. QED
  BY <1>2, <1>3, <1>4 DEF Phases

-----------------------------------------------------------------------------------
(* The history of the sequence is never behind the phases it went through. *)

NoneBlocked == blockedMask = {}

RanEnough ==
    /\ phase = "WAITING" => since <= ran
    /\ phase = "ENERGIZING" => WaitTicks + since <= ran \/ ran = SequenceAgeCap
    /\ phase = "MONITORING" =>
         WaitTicks + Count * StaggerTicks + since <= ran \/ ran = SequenceAgeCap
    /\ phase = "COMPLETE" => FullTime <= ran

RearmInv == SequenceTypeOK /\ NoneBlocked /\ Paced /\ RanEnough /\ OfferedOnlyWhileRearming

\* A call of restart_fsm_update.
LEMMA UpdateKeeps ==
    ASSUME RearmInv, UpdateSequence, UNCHANGED ran
    PROVE  /\ phase' \in Phases /\ since' \in 0 .. SequenceAgeCap /\ next' \in 0 .. Count
           /\ NoneBlocked' /\ Paced' /\ RanEnough'
<1> USE DEF RearmInv, SequenceTypeOK, NoneBlocked, Paced, RanEnough, Phases
<1>1. NoneBlocked'
  BY DEF UpdateSequence
<1>2. CASE UpdateWaiting
  BY <1>1, <1>2, Intervals, DurationsAssumption DEF UpdateWaiting, Enter
<1>3. CASE UpdateEnergizing
  <2>1. CASE next >= Count
    <3>1. next = Count /\ Count * StaggerTicks <= since
      BY <1>3, <2>1, Intervals DEF UpdateEnergizing
    <3>2. phase' = "MONITORING" /\ since' = 0 /\ next' = next
      BY <1>3, <2>1 DEF UpdateEnergizing, Enter
    <3>3. WaitTicks + Count * StaggerTicks + 0 <= ran \/ ran = SequenceAgeCap
      BY <1>3, <3>1, Intervals, DurationsAssumption DEF UpdateEnergizing
    <3>4. QED
      BY <1>1, <3>1, <3>2, <3>3, Intervals
  <2>2. CASE next < Count /\ Due
    <3>1. next \in 0 .. Count - 1 /\ next \in Nat
      BY <2>2, Intervals
    <3>2. next' = next + 1 /\ UNCHANGED <<phase, since>>
      BY <1>3, <2>2, <3>1, Intervals, SkipsNone DEF UpdateEnergizing
    <3>3. next * StaggerTicks + StaggerTicks <= since
      BY <1>3, <2>2, <3>1, Intervals, DurationsAssumption DEF Due, UpdateEnergizing
    <3>4. next' * StaggerTicks <= since'
      BY <3>1, <3>2, <3>3, Intervals
    <3>5. QED
      BY <1>1, <1>3, <3>1, <3>2, <3>4, Intervals DEF UpdateEnergizing
  <2>3. CASE next < Count /\ ~Due
    BY <1>1, <1>3, <2>3, Intervals DEF UpdateEnergizing
  <2>4. QED
    BY <2>1, <2>2, <2>3, Intervals
<1>4. CASE UpdateMonitoring
  BY <1>1, <1>4, Intervals, DurationsAssumption DEF UpdateMonitoring
<1>5. CASE phase \notin ActivePhases /\ UNCHANGED <<phase, since, next>>
  BY <1>1, <1>5
<1>6. QED
  BY <1>2, <1>3, <1>4, <1>5 DEF UpdateSequence

LEMMA RearmStep == RearmInv /\ [SequenceNext]_sequenceVars => RearmInv'
<1> SUFFICES ASSUME RearmInv, [SequenceNext]_sequenceVars PROVE RearmInv'
  OBVIOUS
<1> USE Intervals
    DEF RearmInv, SequenceTypeOK, NoneBlocked, Paced, RanEnough, OfferedOnlyWhileRearming
<1>1. CASE Begin
  BY <1>1 DEF Begin, ExitTurn, Start, Phases
<1>2. CASE Finish
  <2>1. /\ phase' = "IDLE" /\ next' = 0 /\ UNCHANGED <<since, blockedMask, ran>>
        /\ restartMask' = {} /\ inProgress' = FALSE /\ turn' = "delay"
        /\ sequenceMode' \in {"NORMAL", "SAFE_OFF"}
    BY <1>2 DEF Finish, ExitTurn, Abort
  <2>2. NoneBlocked' /\ Paced' /\ RanEnough' /\ OfferedOnlyWhileRearming'
    BY <2>1
  <2>3. SequenceTypeOK'
    BY <2>1, Zenon DEF Phases
  <2>4. QED
    BY <2>2, <2>3
<1>3. CASE GiveUp
  <2>1. /\ phase' = "IDLE" /\ next' = 0 /\ UNCHANGED <<since, blockedMask, ran>>
        /\ restartMask' = {} /\ inProgress' = FALSE /\ turn' = "delay"
        /\ sequenceMode' \in {"NORMAL", "SAFE_OFF"}
    BY <1>3 DEF GiveUp, ExitTurn, Abort
  <2>2. NoneBlocked' /\ Paced' /\ RanEnough' /\ OfferedOnlyWhileRearming'
    BY <2>1
  <2>3. SequenceTypeOK'
    BY <2>1, Zenon DEF Phases
  <2>4. QED
    BY <2>2, <2>3
<1>4. CASE Advance
  <2>1. UpdateSequence /\ UNCHANGED ran
    BY <1>4 DEF Advance
  <2>2. /\ phase' \in Phases /\ since' \in 0 .. SequenceAgeCap /\ next' \in 0 .. Count
        /\ NoneBlocked' /\ Paced' /\ RanEnough'
    BY <2>1, UpdateKeeps
  <2>3. /\ restartMask' \subseteq Bits
        /\ phase' \in {"IDLE", "WAITING"} => restartMask' = {}
    BY <1>4, <2>2, EnergizedBits DEF Advance
  <2>4. phase' \notin {"IDLE", "WAITING"} => ran >= WaitTicks
    <3>1. WaitTicks + Count * StaggerTicks >= WaitTicks /\ Count * StaggerTicks \in Nat
      BY DurationsAssumption
    <3>2. \/ WaitTicks + since' <= ran
          \/ WaitTicks + Count * StaggerTicks + since' <= ran
          \/ ran = SequenceAgeCap
          \/ FullTime <= ran
          \/ phase' \in {"IDLE", "WAITING"}
      BY <2>1, <2>2, Zenon DEF Phases
    <3>3. since' \in Nat /\ ran \in Nat /\ WaitTicks \in Nat
      BY <2>2, DurationsAssumption
    <3>4. \A w, d, s, r \in Nat : w + s <= r \/ w + d + s <= r => r >= w
      OBVIOUS
    <3>5. WaitTicks + since' <= ran \/ WaitTicks + Count * StaggerTicks + since' <= ran
              => ran >= WaitTicks
      BY <3>1, <3>3, <3>4, Zenon
    <3>6. ran = SequenceAgeCap \/ FullTime <= ran => ran >= WaitTicks
      BY <3>3
    <3>7. QED
      BY <3>2, <3>5, <3>6, Zenon
  <2>5. QED
    BY <1>4, <2>2, <2>3, <2>4 DEF Advance, ExitTurn
<1>5. CASE Skip
  BY <1>5 DEF Skip, ExitTurn
<1>6. CASE NextIteration
  <2>1. \A a \in 0 .. SequenceAgeCap :
          /\ SequenceOlder(a) \in 0 .. SequenceAgeCap
          /\ SequenceOlder(a) >= a /\ SequenceOlder(a) <= a + 1
                                       /\ (a # SequenceAgeCap => SequenceOlder(a) = a + 1)
                                       /\ (a = SequenceAgeCap => SequenceOlder(a) = SequenceAgeCap)
    BY DEF SequenceOlder
  <2>2. since' = SequenceOlder(since) /\ ran' = SequenceOlder(ran)
    BY <1>6 DEF NextIteration
  <2>3. since' \in 0 .. SequenceAgeCap /\ ran' \in 0 .. SequenceAgeCap
    BY <2>1, <2>2
  <2>4. Paced'
    BY <1>6, <2>1, <2>2 DEF NextIteration
  <2>5. RanEnough'
    BY <1>6, <2>1, <2>2, DurationsAssumption DEF NextIteration
  <2>6. OfferedOnlyWhileRearming'
    BY <1>6, <2>1, <2>2, DurationsAssumption DEF NextIteration
  <2>7. QED
    BY <1>6, <2>3, <2>4, <2>5, <2>6 DEF NextIteration
<1>7. CASE EnterProtected
  BY <1>7 DEF EnterProtected
<1>8. CASE ApiSetsFlag
  BY <1>8 DEF ApiSetsFlag
<1>9. CASE ReloadSequence
  BY <1>9 DEF ReloadSequence, Phases
<1>10. CASE UNCHANGED sequenceVars
  BY <1>10
<1>11. QED
  BY <1>1, <1>2, <1>3, <1>4, <1>5, <1>6, <1>7, <1>8, <1>9, <1>10 DEF SequenceNext, SequenceTask

LEMMA RearmInvariant == SequenceSpec => []RearmInv
<1>1. SequenceInit => RearmInv
  <2> SUFFICES ASSUME SequenceInit PROVE RearmInv
    OBVIOUS
  <2>1. SequenceTypeOK
    BY Intervals, Zenon DEF SequenceInit, SequenceTypeOK, Phases
  <2>2. NoneBlocked /\ Paced /\ RanEnough /\ OfferedOnlyWhileRearming
    BY DEF SequenceInit, NoneBlocked, Paced, RanEnough, OfferedOnlyWhileRearming
  <2>3. QED
    BY <2>1, <2>2 DEF RearmInv
<1>2. QED
  BY <1>1, RearmStep, PTL DEF SequenceSpec

\* Type correctness, for every order and all durations.
THEOREM RestartTypeCorrect == SequenceSpec => []SequenceTypeOK
<1>1. RearmInv => SequenceTypeOK
  BY DEF RearmInv
<1>2. QED
  BY <1>1, RearmInvariant, PTL

\* The mask grows no faster than the stagger interval allows, and the unsigned
\* subtraction of restart_fsm_update never wraps (restart_fsm.c), whatever
\* suspends the sequence.  It speaks of the relays that are offered, not of those
\* that are energised (RestartRelays).
THEOREM OffersPaced == SequenceSpec => []Paced
<1>1. RearmInv => Paced
  BY DEF RearmInv
<1>2. QED
  BY <1>1, RearmInvariant, PTL

\* The plug manager is offered relays by a sequence under way only.
THEOREM OfferedByRearming == SequenceSpec => []OfferedOnlyWhileRearming
<1>1. RearmInv => OfferedOnlyWhileRearming
  BY DEF RearmInv
<1>2. QED
  BY <1>1, RearmInvariant, PTL

\* handle_safeoff_exit leaves SAFE_OFF for NORMAL after the full time only.
THEOREM FullLength == SequenceSpec => NoShortcut
<1>1. RearmInv /\ [SequenceNext]_sequenceVars =>
          [sequenceMode = "SAFE_OFF" /\ sequenceMode' = "NORMAL"
              => ran >= WaitTicks + Count * StaggerTicks + MonitorTicks]_sequenceVars
  <2> SUFFICES ASSUME RearmInv, SequenceNext, sequenceMode = "SAFE_OFF", sequenceMode' = "NORMAL"
               PROVE  ran >= FullTime
    BY DEF FullTime
  <2>1. Finish
    BY DEF SequenceNext, SequenceTask, Begin, GiveUp, Advance, Skip, NextIteration, EnterProtected,
           ApiSetsFlag, ReloadSequence
  <2>2. QED
    BY <2>1, Intervals DEF Finish, RearmInv, RanEnough, SequenceTypeOK
<1>2. QED
  BY <1>1, RearmInvariant, PTL DEF SequenceSpec, NoShortcut

-----------------------------------------------------------------------------------
(* Why a sequence ends.  `ToGo' counts the calls of restart_fsm_update and  *)
(* the delays that a sequence still needs: every call spends one unless the *)
(* sequence is waiting for time, and then every delay spends one.           *)

Step == StaggerTicks + 1

Needed ==
    CASE phase = "WAITING" -> WaitTicks
      [] phase = "ENERGIZING" /\ next < Count -> (next + 1) * StaggerTicks
      [] phase = "MONITORING" -> MonitorTicks
      [] OTHER -> 0

Missing == IF since < Needed THEN Needed - since ELSE 0

Beyond ==
    CASE phase = "WAITING" -> Count * Step + MonitorTicks + 3
      [] phase = "ENERGIZING" /\ next < Count -> (Count - (next + 1)) * Step + MonitorTicks + 3
      [] phase = "ENERGIZING" /\ next = Count -> MonitorTicks + 2
      [] phase = "MONITORING" -> 1
      [] OTHER -> 0

ToGo == Missing + Beyond

LongestWay == WaitTicks + Count * Step + MonitorTicks + 3

LEMMA Steps ==
    /\ Step \in Nat \ {0}
    /\ \A n \in Nat : n * Step \in Nat /\ (n + 1) * Step = n * Step + Step
    /\ \A n \in 0 .. Count : n * Step <= Count * Step
    /\ LongestWay \in Nat
<1>1. Step \in Nat \ {0}
  BY DurationsAssumption DEF Step
<1>2. \A n \in Nat : n * Step \in Nat /\ (n + 1) * Step = n * Step + Step
  BY <1>1
<1>3. ASSUME NEW n \in 0 .. Count PROVE n * Step <= Count * Step
  <2>1. n \in Nat /\ Count - n \in Nat
    BY Intervals
  <2>2. (Count - n) * Step \in Nat
    BY <1>2, <2>1
  <2>3. Count * Step = n * Step + (Count - n) * Step
    BY <1>1, <2>1, Intervals
  <2>4. QED
    BY <1>2, <2>1, <2>2, <2>3
<1>4. QED
  BY <1>1, <1>2, <1>3, Intervals, DurationsAssumption DEF LongestWay

\* The way is finite, and it is over when the sequence is.
OnTheWay ==
    /\ Needed \in Nat /\ Missing \in Nat /\ Beyond \in Nat
    /\ ToGo \in 0 .. LongestWay
    /\ ToGo > 0 <=> phase \in ActivePhases
    /\ Missing > 0 => since < Needed /\ since < SequenceAgeCap

LEMMA WayBounded == RearmInv => OnTheWay
<1> SUFFICES ASSUME RearmInv PROVE OnTheWay
  OBVIOUS
<1>1. /\ since \in 0 .. SequenceAgeCap /\ next \in 0 .. Count /\ phase \in Phases
      /\ phase = "ENERGIZING" => next * StaggerTicks <= since
  BY DEF RearmInv, SequenceTypeOK, Paced
<1>2. /\ Count * StaggerTicks \in Nat /\ Count * Step \in Nat
      /\ WaitTicks < SequenceAgeCap /\ MonitorTicks < SequenceAgeCap
      /\ Count * StaggerTicks < SequenceAgeCap
      /\ SequenceAgeCap \in Nat /\ Count \in Nat \ {0}
  <2>1. Count * StaggerTicks \in Nat /\ Count * Step \in Nat
    BY Intervals, Steps
  <2>2. QED
    BY <2>1, Intervals, DurationsAssumption
<1>3. ASSUME Needed \in Nat, Needed < SequenceAgeCap, Beyond \in Nat,
             Missing + Beyond <= LongestWay,
             Beyond > 0 <=> phase \in ActivePhases, phase \notin ActivePhases => Needed = 0
      PROVE  OnTheWay
  <2>1. Missing \in Nat /\ (Missing > 0 => since < Needed /\ since < SequenceAgeCap)
    BY <1>1, <1>2, <1>3 DEF Missing
  <2>2. phase \notin ActivePhases => Missing = 0
    BY <1>1, <1>2, <1>3 DEF Missing
  <2>3. QED
    BY <1>3, <2>1, <2>2, Steps DEF OnTheWay, ToGo
<1>4. CASE phase = "WAITING"
  <2>1. Needed = WaitTicks /\ Beyond = Count * Step + MonitorTicks + 3
    BY <1>4 DEF Needed, Beyond
  <2>2. Missing <= WaitTicks /\ Missing \in Nat
    BY <1>1, <1>2, <2>1, DurationsAssumption DEF Missing
  <2>3. QED
    BY <1>2, <1>3, <1>4, <2>1, <2>2, DurationsAssumption DEF LongestWay, ActivePhases
<1>5. CASE phase = "ENERGIZING" /\ next < Count
  <2>1. next + 1 \in 0 .. Count /\ Count - (next + 1) \in 0 .. Count /\ Count - next \in 0 .. Count
    BY <1>1, <1>2, <1>5
  <2>2. /\ Needed = (next + 1) * StaggerTicks
        /\ Beyond = (Count - (next + 1)) * Step + MonitorTicks + 3
    BY <1>1, <1>2, <1>5, DurationsAssumption, Steps DEF Needed, Beyond
  <2>3. Needed = next * StaggerTicks + StaggerTicks /\ next * StaggerTicks \in Nat
    BY <1>1, <2>2, Intervals
  <2>4. Needed \in Nat /\ Missing \in 0 .. StaggerTicks
    BY <1>1, <1>2, <1>5, <2>3, DurationsAssumption DEF Missing
  <2>5. (Count - (next + 1)) * Step + Step <= Count * Step
    <3>1. (Count - (next + 1)) * Step + Step = ((Count - (next + 1)) + 1) * Step
      BY <2>1, Steps
    <3>2. (Count - (next + 1)) + 1 = Count - next
      BY <1>1, <1>2
    <3>3. QED
      BY <2>1, <3>1, <3>2, Steps
  <2>6. Needed <= Count * StaggerTicks
    <3>1. (Count - (next + 1)) * StaggerTicks \in Nat
      BY <2>1, Intervals
    <3>2. Count * StaggerTicks = (next + 1) * StaggerTicks + (Count - (next + 1)) * StaggerTicks
      BY <1>1, <1>2, DurationsAssumption
    <3>3. QED
      BY <1>2, <2>2, <2>4, <3>1, <3>2
  <2>7. (Count - (next + 1)) * Step \in Nat
    BY <2>1, Steps
  <2>8. Beyond \in Nat /\ Beyond > 0 /\ Missing + Beyond <= LongestWay
    BY <1>2, <2>2, <2>4, <2>5, <2>7, DurationsAssumption DEF LongestWay, Step
  <2>9. QED
    BY <1>2, <1>3, <1>5, <2>4, <2>6, <2>8 DEF ActivePhases
<1>6. CASE phase = "ENERGIZING" /\ next = Count
  <2>1. Needed = 0 /\ Beyond = MonitorTicks + 2
    BY <1>2, <1>6 DEF Needed, Beyond
  <2>2. Missing = 0
    BY <1>1, <1>2, <2>1 DEF Missing
  <2>3. QED
    BY <1>2, <1>3, <1>6, <2>1, <2>2, DurationsAssumption DEF LongestWay, ActivePhases
<1>7. CASE phase = "MONITORING"
  <2>1. Needed = MonitorTicks /\ Beyond = 1
    BY <1>7 DEF Needed, Beyond
  <2>2. Missing <= MonitorTicks /\ Missing \in Nat
    BY <1>1, <1>2, <2>1, DurationsAssumption DEF Missing
  <2>3. QED
    BY <1>2, <1>3, <1>7, <2>1, <2>2, DurationsAssumption DEF LongestWay, ActivePhases
<1>8. CASE phase \in {"IDLE", "COMPLETE"}
  <2>1. Needed = 0 /\ Beyond = 0
    BY <1>8 DEF Needed, Beyond
  <2>2. Missing = 0
    BY <1>1, <1>2, <2>1 DEF Missing
  <2>3. QED
    BY <1>2, <1>3, <1>8, <2>1, <2>2, Steps DEF ActivePhases
<1>9. QED
  BY <1>1, <1>2, <1>4, <1>5, <1>6, <1>7, <1>8 DEF Phases

\* A call of restart_fsm_update spends one, unless it waits.
LEMMA UpdateSpends ==
    ASSUME RearmInv, phase \in ActivePhases, UpdateSequence, UNCHANGED ran
    PROVE  \/ ToGo' < ToGo
           \/ Missing > 0 /\ UNCHANGED fsm
<1> USE Intervals, Steps, DurationsAssumption DEF RearmInv, SequenceTypeOK, Paced, NoneBlocked
<1>1. CASE UpdateWaiting
  <2>1. CASE since < WaitTicks
    BY <1>1, <2>1 DEF UpdateWaiting, UpdateSequence, Needed, Missing
  <2>2. CASE since >= WaitTicks
    <3>1. phase = "WAITING" /\ phase' = "ENERGIZING" /\ since' = 0 /\ next' = 0
      BY <1>1, <2>2 DEF UpdateWaiting, Enter
    <3>2. ToGo = Count * Step + MonitorTicks + 3
      BY <2>2, <3>1 DEF ToGo, Missing, Needed, Beyond
    <3>3. Needed' = StaggerTicks /\ Missing' = StaggerTicks
      BY <3>1 DEF Needed, Missing
    <3>4. Beyond' = (Count - 1) * Step + MonitorTicks + 3
      BY <3>1 DEF Beyond
    <3>5. Count * Step = (Count - 1) * Step + Step /\ (Count - 1) * Step \in Nat
      <4>1. Count - 1 \in Nat /\ (Count - 1) + 1 = Count
        OBVIOUS
      <4>2. QED
        BY <4>1
    <3>6. QED
      BY <3>2, <3>3, <3>4, <3>5 DEF ToGo, Step
  <2>3. QED
    BY <2>1, <2>2
<1>2. CASE UpdateEnergizing
  <2>1. CASE next >= Count
    BY <1>2, <2>1 DEF UpdateEnergizing, Enter, ToGo, Missing, Needed, Beyond
  <2>2. CASE next < Count /\ Due
    <3>1. phase = "ENERGIZING" /\ next \in 0 .. Count - 1 /\ next \in Nat /\ next + 1 \in Nat
      BY <1>2, <2>2 DEF UpdateEnergizing
    <3>2. next' = next + 1 /\ UNCHANGED <<phase, since>>
      BY <1>2, <2>2, <3>1, SkipsNone DEF UpdateEnergizing
    <3>3. (next + 1) * StaggerTicks <= since
      BY <2>2, <3>1 DEF Due
    <3>4. (next + 1 + 1) * StaggerTicks = (next + 1) * StaggerTicks + StaggerTicks
      BY <3>1
    <3>5. ToGo = (Count - (next + 1)) * Step + MonitorTicks + 3
      BY <2>2, <3>1, <3>3 DEF ToGo, Missing, Needed, Beyond
    <3>6. CASE next + 1 = Count
      BY <3>1, <3>2, <3>5, <3>6 DEF ToGo, Missing, Needed, Beyond
    <3>7. CASE next + 1 < Count
      <4>1. Needed' = (next + 1) * StaggerTicks + StaggerTicks
        BY <3>1, <3>2, <3>4, <3>7 DEF Needed
      <4>2. Missing' \in 0 .. StaggerTicks
        BY <3>1, <3>2, <3>3, <4>1 DEF Missing
      <4>3. Beyond' = (Count - (next + 1 + 1)) * Step + MonitorTicks + 3
        BY <3>1, <3>2, <3>7 DEF Beyond
      <4>4. /\ (Count - (next + 1)) * Step = (Count - (next + 1 + 1)) * Step + Step
            /\ (Count - (next + 1 + 1)) * Step \in Nat
        <5>1. Count - (next + 1 + 1) \in Nat /\ (Count - (next + 1 + 1)) + 1 = Count - (next + 1)
          BY <3>1, <3>7
        <5>2. QED
          BY <5>1
      <4>5. QED
        BY <3>5, <4>2, <4>3, <4>4 DEF ToGo, Step
    <3>8. QED
      BY <3>1, <3>6, <3>7
  <2>3. CASE next < Count /\ ~Due
    <3>1. phase = "ENERGIZING" /\ next \in Nat
      BY <1>2, <2>3 DEF UpdateEnergizing
    <3>2. Needed = next * StaggerTicks + StaggerTicks /\ since < Needed
      BY <2>3, <3>1 DEF Needed, Due
    <3>3. QED
      BY <1>2, <2>3, <3>1, <3>2 DEF UpdateEnergizing, UpdateSequence, Missing
  <2>4. QED
    BY <2>1, <2>2, <2>3
<1>3. CASE UpdateMonitoring
  BY <1>3 DEF UpdateMonitoring, UpdateSequence, ToGo, Missing, Needed, Beyond
<1>4. QED
  BY <1>1, <1>2, <1>3 DEF UpdateSequence

\* Nothing but its start lengthens a sequence: in each iteration in SAFE_OFF
\* restart_fsm_update, or the delay it waits for, brings it nearer to its end, and
\* a delay does so even while an EMERGENCY suspends it.  So it never needs more
\* than `LongestWay' of them; fairness of the safety task does the rest.
THEOREM SequenceShrinks ==
    SequenceSpec => [][/\ ToGo \in 0 .. LongestWay
                       /\ phase \in ActivePhases => ToGo > 0
                       /\ phase \in ActivePhases /\ Advance => ToGo' < ToGo \/ Missing' > 0
                       /\ NextIteration => ToGo' <= ToGo /\ (Missing > 0 => ToGo' < ToGo)
                       /\ ToGo' > ToGo => Begin]_sequenceVars
<1> DEFINE Shrinks ==
      /\ ToGo \in 0 .. LongestWay
      /\ phase \in ActivePhases => ToGo > 0
      /\ phase \in ActivePhases /\ Advance => ToGo' < ToGo \/ Missing' > 0
      /\ NextIteration => ToGo' <= ToGo /\ (Missing > 0 => ToGo' < ToGo)
      /\ ToGo' > ToGo => Begin
<1>1. ASSUME RearmInv, SequenceNext PROVE Shrinks
  <2>1. OnTheWay
    BY <1>1, WayBounded
  <2>2. OnTheWay'
    <3>1. RearmInv'
      BY <1>1, RearmStep
    <3>2. QED
      BY <3>1, WayBounded, PTL
  <2>3. /\ ToGo \in Nat /\ Missing \in Nat /\ Missing' \in Nat /\ ToGo' \in Nat
        /\ ToGo \in 0 .. LongestWay /\ (phase \in ActivePhases => ToGo > 0)
    BY <2>1, <2>2 DEF OnTheWay
  <2>4. ASSUME UNCHANGED fsm PROVE Missing' = Missing /\ ToGo' = ToGo
    BY <2>4 DEF ToGo, Missing, Needed, Beyond
  <2>5. CASE Advance
    <3>1. ~NextIteration
      BY <2>5 DEF Advance, NextIteration, ExitTurn
    <3>2. CASE phase \in ActivePhases
      <4>1. ToGo' < ToGo \/ (Missing > 0 /\ UNCHANGED fsm)
        BY <1>1, <2>5, <3>2, UpdateSpends DEF Advance
      <4>2. (ToGo' < ToGo \/ Missing' > 0) /\ ToGo' <= ToGo
        BY <2>3, <2>4, <4>1
      <4>3. QED
        BY <2>3, <3>1, <4>2
    <3>3. CASE phase \notin ActivePhases
      <4>1. UNCHANGED fsm
        BY <2>5, <3>3
        DEF Advance, UpdateSequence, UpdateWaiting, UpdateEnergizing, UpdateMonitoring, ActivePhases
      <4>2. QED
        BY <2>3, <2>4, <3>1, <3>3, <4>1
    <3>4. QED
      BY <3>2, <3>3
  <2>6. CASE NextIteration
    <3>1. Beyond' = Beyond /\ Needed' = Needed /\ since' = SequenceOlder(since)
      BY <2>6 DEF NextIteration, Beyond, Needed
    <3>2. /\ Needed \in Nat /\ Beyond \in Nat
          /\ since \in 0 .. SequenceAgeCap /\ SequenceAgeCap \in Nat
      BY <1>1, <2>1, Intervals DEF OnTheWay, RearmInv, SequenceTypeOK
    <3>3. ToGo' <= ToGo /\ (Missing > 0 => ToGo' < ToGo)
      <4>1. Missing > 0 => Missing' < Missing
        BY <2>1, <3>1, <3>2 DEF OnTheWay, Missing, SequenceOlder
      <4>2. Missing = 0 => Missing' = 0
        BY <2>1, <3>1, <3>2 DEF OnTheWay, Missing, SequenceOlder
      <4>3. Missing \in Nat /\ Missing' \in Nat
        BY <2>3
      <4>4. Missing' <= Missing /\ (Missing > 0 => Missing' < Missing)
        BY <4>1, <4>2, <4>3
      <4>5. \A b, m, n \in Nat : (n <= m => n + b <= m + b) /\ (n < m => n + b < m + b)
        OBVIOUS
      <4>6. /\ Missing' + Beyond <= Missing + Beyond
            /\ Missing > 0 => Missing' + Beyond < Missing + Beyond
        BY <3>2, <4>3, <4>4, <4>5
      <4>7. Missing' + Beyond' = Missing' + Beyond
        BY <3>1
      <4>8. ToGo' = Missing' + Beyond' /\ ToGo = Missing + Beyond
        BY DEF ToGo
      <4>9. QED
        BY <4>6, <4>7, <4>8, Zenon
    <3>4. ~Advance
      BY <2>6 DEF Advance, NextIteration, ExitTurn
    <3>5. QED
      BY <2>3, <3>3, <3>4
  <2>7. CASE ~Advance /\ ~NextIteration /\ ~Begin
    <3>1. ASSUME phase' = "IDLE" PROVE ToGo' = 0
      BY <2>2, <2>3, <3>1 DEF OnTheWay, ActivePhases
    <3>2. UNCHANGED fsm \/ phase' = "IDLE"
      BY <1>1, <2>7 DEF SequenceNext, SequenceTask, Finish, GiveUp, Abort, Skip, EnterProtected,
                       ApiSetsFlag, ReloadSequence
    <3>3. ToGo' <= ToGo
      BY <2>3, <2>4, <3>1, <3>2
    <3>4. QED
      BY <2>3, <2>7, <3>3
  <2>8. CASE Begin
    BY <2>3, <2>8 DEF Begin, Advance, NextIteration, ExitTurn
  <2>9. QED
    BY <2>5, <2>6, <2>7, <2>8
<1>2. QED
  BY <1>1, RearmInvariant, PTL DEF SequenceSpec
=================================================================================
