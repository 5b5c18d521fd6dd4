----------------------------- MODULE ControllersProofs -----------------------------
(***************************************************************************)
(* Feed Mode for all durations, limits and iterations: its snapshot, its   *)
(* pumps and its count.  The brake on the moves between NORMAL and         *)
(* DEGRADED for all cooldowns, windows and limits: its patience and its    *)
(* limit.  The factory reset for all windows and countdowns: what it takes *)
(* to erase.  The heartbeat guard for all tasks and thresholds: that every *)
(* hang is found.  And of these, the relay route and the machines side by  *)
(* side: typing.                                                           *)
(***************************************************************************)
EXTENDS MCControllers, RelayGateProofs, MachinesProofs, ConfigStoreProofs, TLAPS

-----------------------------------------------------------------------------------
(* Feed Mode: the record.  The property is inductive as it stands.          *)

\* A feeding under way is on record unless the last save failed
\* (update_feed_snapshot, feed_snapshot_save), in every interleaving of requests,
\* reloads, aborts and losses of power.
THEOREM FeedAlwaysOnRecord == FeedSpec => []FeedOnRecord
<1>1. FeedInit => FeedOnRecord
  BY DEF FeedInit, FeedOnRecord
<1>2. FeedOnRecord /\ [FeedNext]_feedVars => FeedOnRecord'
  <2> SUFFICES ASSUME FeedOnRecord, [FeedNext]_feedVars, feedState' # "IDLE"
               PROVE  snapshot' \/ saveLost'
    BY DEF FeedOnRecord
  <2>1. ASSUME NEW gap \in 0 .. MaxIteration, UpdateFeed(gap) PROVE snapshot' \/ saveLost'
    BY <2>1 DEF UpdateFeed, StateAfter, StateOver, FeedOnRecord
  <2>2. ASSUME NEW stored \in BOOLEAN, UpdateSnapshot(stored) PROVE snapshot' \/ saveLost'
    <3>1. Starts \/ (~Exits /\ feedState # "IDLE")
      BY <2>2 DEF UpdateSnapshot, AfterRequest, AfterExit, Exits
    <3>2. CASE Starts
      BY <2>2, <3>2 DEF UpdateSnapshot, SnapshotAfter
    <3>3. CASE ~Starts /\ ~Exits /\ feedState # "IDLE"
      BY <2>2, <3>3 DEF UpdateSnapshot, SnapshotAfter, ClearDue, FeedOnRecord
    <3>4. QED
      BY <3>1, <3>2, <3>3
  <2>3. CASE AbortProtected \/ FeedPowerCut \/ (\E params \in FeedParams : ReloadFeed(params))
    BY <2>3 DEF AbortProtected, FeedPowerCut, ReloadFeed, FeedForgotten
  <2>4. CASE RequestFeed \/ RequestExit \/ FeedModeChange \/ UNCHANGED feedVars
    BY <2>4 DEF RequestFeed, RequestExit, FeedModeChange, feedVars, FeedOnRecord
  <2>5. QED
    BY <2>1, <2>2, <2>3, <2>4 DEF FeedNext
<1>3. QED
  BY <1>1, <1>2, PTL DEF FeedSpec

-----------------------------------------------------------------------------------
(* Feed Mode: the pumps.  As long as their masks may be used again, by the *)
(* feeding that goes on or by an edge that is still to be found, there is  *)
(* a feeding to account for it.                                            *)

CreditInv ==
    /\ credit \in Nat
    /\ preFeedOn /\ (feedState # "IDLE" \/ prevFeed # "IDLE") => credit >= 1

\* The pumps are given back once per feeding at most (update_feed_snapshot).
THEOREM PumpsRestoredOnce == FeedSpec => []RestoreOnce
<1>1. FeedInit => CreditInv
  BY DEF FeedInit, CreditInv
<1>2. CreditInv /\ [FeedNext]_feedVars => CreditInv'
  <2> SUFFICES ASSUME CreditInv, [FeedNext]_feedVars PROVE CreditInv'
    OBVIOUS
  <2>1. ASSUME NEW gap \in 0 .. MaxIteration, UpdateFeed(gap) PROVE CreditInv'
    <3>1. feedState' # "IDLE" => feedState # "IDLE"
      BY <2>1 DEF UpdateFeed, StateAfter, StateOver
    <3>2. UNCHANGED <<credit, preFeedOn, prevFeed>>
      BY <2>1 DEF UpdateFeed
    <3>3. QED
      BY <3>1, <3>2 DEF CreditInv
  <2>2. ASSUME NEW stored \in BOOLEAN, UpdateSnapshot(stored) PROVE CreditInv'
    <3>1. /\ feedState' = AfterRequest
          /\ prevFeed' = AfterRequest
      BY <2>2 DEF UpdateSnapshot, Remember
    <3>2. CASE Starts
      BY <2>2, <3>2 DEF UpdateSnapshot, CreditInv
    <3>3. CASE ~Starts
      <4>1. preFeedOn' = preFeedOn
        BY <2>2, <3>3 DEF UpdateSnapshot
      <4>2. AfterRequest # "IDLE" => feedState # "IDLE"
        BY <3>3 DEF AfterRequest, AfterExit
      <4>3. CASE RestoresPumps
        <5>1. credit' = credit - 1 /\ credit >= 1 /\ AfterRequest = "IDLE"
          BY <2>2, <3>3, <4>3 DEF UpdateSnapshot, RestoresPumps, CreditInv
        <5>2. QED
          BY <3>1, <5>1 DEF CreditInv
      <4>4. CASE ~RestoresPumps
        <5>1. credit' = credit
          BY <2>2, <3>3, <4>4 DEF UpdateSnapshot
        <5>2. QED
          BY <3>1, <4>1, <4>2, <5>1 DEF CreditInv
      <4>5. QED
        BY <4>3, <4>4
    <3>4. QED
      BY <3>2, <3>3
  <2>3. CASE AbortProtected
    BY <2>3 DEF AbortProtected, CreditInv
  <2>4. CASE FeedPowerCut \/ (\E params \in FeedParams : ReloadFeed(params))
    BY <2>4 DEF FeedPowerCut, ReloadFeed, FeedForgotten, CreditInv
  <2>5. CASE RequestFeed \/ RequestExit \/ FeedModeChange \/ UNCHANGED feedVars
    BY <2>5 DEF RequestFeed, RequestExit, FeedModeChange, feedVars, CreditInv
  <2>6. QED
    BY <2>1, <2>2, <2>3, <2>4, <2>5 DEF FeedNext
<1>3. CreditInv => RestoreOnce
  BY DEF CreditInv, RestoreOnce
<1>4. QED
  BY <1>1, <1>2, <1>3, PTL DEF FeedSpec

-----------------------------------------------------------------------------------
(* Feed Mode: typing.  feed_fsm_start would let a feeding through when the *)
(* window is over without counting from zero; feed_fsm_update, earlier in  *)
(* the same iteration, has always reset such a window.                     *)

FeedInv ==
    /\ FeedTypeOK
    /\ feedPc = "snapshot" => feedCount = 0 \/ windowAge < Hour

LEMMA FeedAges0 ==
    /\ 0 \in FeedAges /\ Never \notin FeedAges
    /\ \A gap \in 0 .. MaxIteration, age \in FeedAges : FeedAged(age, gap) \in FeedAges
    /\ \A gap \in 0 .. MaxIteration : FeedAged(Never, gap) = Never
BY FeedAssumption DEF FeedAges, FeedAged, Never

LEMMA FeedInvariant == FeedSpec => []FeedInv
<1> USE FeedAssumption
<1>1. FeedInit => FeedInv
  <2> SUFFICES ASSUME FeedInit PROVE FeedInv
    OBVIOUS
  <2>1. 0 \in 0 .. MaxFeedsPerHour /\ 0 \in Int
    OBVIOUS
  <2>2. FeedTypeOK
    BY <2>1, FeedAges0, Zenon DEF FeedInit, FeedTypeOK, FeedStates
  <2>3. QED
    BY <2>2 DEF FeedInit, FeedInv
<1>2. FeedInv /\ [FeedNext]_feedVars => FeedInv'
  <2> SUFFICES ASSUME FeedInv, [FeedNext]_feedVars PROVE FeedInv'
    OBVIOUS
  <2>1. ASSUME NEW gap \in 0 .. MaxIteration, UpdateFeed(gap) PROVE FeedInv'
    <3>1. feedState' \in FeedStates
      BY <2>1 DEF UpdateFeed, StateAfter, FeedStates, FeedInv, FeedTypeOK
    <3>2. stateAge' \in FeedAges /\ savedAge' \in FeedAges \cup {Never}
      BY <2>1, FeedAges0 DEF UpdateFeed, FeedInv, FeedTypeOK
    <3>3. /\ feedPc' = "snapshot"
          /\ UNCHANGED <<feedMode, feedParams, preFeedOn, prevFeed, feedRequest>>
          /\ UNCHANGED <<exitRequest, snapshot, saveLost, credit>>
      BY <2>1 DEF UpdateFeed
    <3>4. /\ feedCount' \in 0 .. MaxFeedsPerHour
          /\ windowAge' \in FeedAges
          /\ feedCount' = 0 \/ windowAge' < Hour
      <4> DEFINE window == FeedAged(windowAge, gap)
      <4>1. /\ window \in FeedAges /\ feedCount \in 0 .. MaxFeedsPerHour
            /\ 0 \in 0 .. MaxFeedsPerHour
        BY FeedAges0 DEF FeedInv, FeedTypeOK
      <4>2. CASE feedCount > 0 /\ window >= Hour
        BY <2>1, <4>1, <4>2, FeedAges0 DEF UpdateFeed
      <4>3. CASE ~(feedCount > 0 /\ window >= Hour)
        <5>1. /\ feedCount' = feedCount
              /\ windowAge' = IF feedCount = 0 THEN 0 ELSE window
          BY <2>1, <4>3 DEF UpdateFeed
        <5> HIDE DEF window
        <5>2. QED
          BY <4>1, <4>3, <5>1, FeedAges0 DEF FeedAges
      <4>4. QED
        BY <4>2, <4>3
    <3>5. QED
      BY <3>1, <3>2, <3>3, <3>4 DEF FeedInv, FeedTypeOK
  <2>2. ASSUME NEW stored \in BOOLEAN, UpdateSnapshot(stored) PROVE FeedInv'
    <3>1. feedState' \in FeedStates /\ prevFeed' \in FeedStates
      BY <2>2 DEF UpdateSnapshot, Remember, AfterRequest, AfterExit, FeedStates, FeedInv, FeedTypeOK
    <3>2. stateAge' \in FeedAges /\ savedAge' \in FeedAges \cup {Never}
      BY <2>2, FeedAges0 DEF UpdateSnapshot, SavedAgeAfter, FeedInv, FeedTypeOK
    <3>3. /\ preFeedOn' \in BOOLEAN /\ snapshot' \in BOOLEAN /\ exitRequest' \in BOOLEAN
          /\ feedRequest' \in BOOLEAN /\ saveLost' \in BOOLEAN
      BY <2>2, Zenon DEF UpdateSnapshot, SnapshotAfter, FeedInv, FeedTypeOK
    <3>4. credit' \in Int
      BY <2>2 DEF UpdateSnapshot, FeedInv, FeedTypeOK
    <3>5. feedPc' = "update" /\ UNCHANGED <<feedMode, feedParams>>
      BY <2>2 DEF UpdateSnapshot
    <3>6. feedCount' \in 0 .. MaxFeedsPerHour /\ windowAge' \in FeedAges
      <4>1. /\ feedCount \in 0 .. MaxFeedsPerHour /\ windowAge \in FeedAges
            /\ feedCount = 0 \/ windowAge < Hour
        BY <2>2 DEF UpdateSnapshot, FeedInv, FeedTypeOK
      <4>2. Starts => feedCount < MaxFeedsPerHour
        BY <4>1 DEF Starts, MayStart, FeedAges
      <4>3. QED
        BY <2>2, <4>1, <4>2, FeedAges0 DEF UpdateSnapshot
    <3>7. QED
      BY <3>1, <3>2, <3>3, <3>4, <3>5, <3>6 DEF FeedInv, FeedTypeOK
  <2>3. CASE AbortProtected
    <3>1. /\ UNCHANGED <<feedMode, feedParams, windowAge, preFeedOn, prevFeed, exitRequest>>
          /\ UNCHANGED <<saveLost, credit, feedCount>>
          /\ feedState' = "IDLE" /\ stateAge' = 0 /\ feedRequest' = FALSE /\ feedPc' = "update"
          /\ snapshot' \in {FALSE, snapshot} /\ savedAge' \in {Never, savedAge}
      BY <2>3 DEF AbortProtected
    <3>2. QED
      BY <3>1, FeedAges0 DEF FeedInv, FeedTypeOK, FeedStates
  <2>4. ASSUME NEW params \in FeedParams, FeedForgotten(params),
               /\ savedAge' \in {Never, savedAge} /\ prevFeed' \in {"IDLE", prevFeed}
               /\ feedMode' \in {"NORMAL", "DEGRADED", feedMode}
               /\ feedRequest' \in {FALSE, feedRequest} /\ exitRequest' \in {FALSE, exitRequest}
               /\ snapshot' \in {FALSE, snapshot} /\ saveLost' \in {FALSE, saveLost}
               /\ feedPc' \in {"update", feedPc}
               /\ credit' \in {0, credit}
        PROVE  FeedInv'
    <3>1. /\ feedParams' = params /\ feedState' = "IDLE" /\ stateAge' = 0 /\ feedCount' = 0
          /\ windowAge' = 0 /\ preFeedOn' = FALSE
      BY <2>4 DEF FeedForgotten
    <3>2. 0 \in 0 .. MaxFeedsPerHour /\ credit' \in Int
      BY <2>4 DEF FeedInv, FeedTypeOK
    <3>3. /\ feedRequest' \in BOOLEAN /\ exitRequest' \in BOOLEAN
          /\ snapshot' \in BOOLEAN /\ saveLost' \in BOOLEAN
      BY <2>4, Zenon DEF FeedInv, FeedTypeOK
    <3>4. /\ savedAge' \in FeedAges \cup {Never} /\ prevFeed' \in FeedStates
          /\ feedMode' \in {"NORMAL", "DEGRADED", "PROTECTED"} /\ feedPc' \in {"update", "snapshot"}
      BY <2>4 DEF FeedInv, FeedTypeOK, FeedStates
    <3>5. FeedTypeOK'
      BY <3>1, <3>2, <3>3, <3>4, FeedAges0, Zenon DEF FeedTypeOK, FeedStates
    <3>6. QED
      BY <3>1, <3>5 DEF FeedInv
  <2>5. ASSUME NEW params \in FeedParams, ReloadFeed(params) PROVE FeedInv'
    BY <2>4, <2>5 DEF ReloadFeed
  <2>6. CASE FeedPowerCut
    BY <2>4, <2>6 DEF FeedPowerCut, FeedInv, FeedTypeOK
  <2>7. CASE RequestFeed \/ RequestExit \/ FeedModeChange \/ UNCHANGED feedVars
    BY <2>7 DEF RequestFeed, RequestExit, FeedModeChange, feedVars, FeedInv, FeedTypeOK
  <2>8. QED
    BY <2>1, <2>2, <2>3, <2>5, <2>6, <2>7 DEF FeedNext
<1>3. QED
  BY <1>1, <1>2, PTL DEF FeedSpec

\* Type correctness of feed_fsm.c's state and of its snapshot.
THEOREM FeedTypeCorrect == FeedSpec => []FeedTypeOK
<1>1. FeedInv => FeedTypeOK
  BY DEF FeedInv
<1>2. QED
  BY <1>1, FeedInvariant, PTL

\* The count of the window never passes MAX_FEEDS_PER_HOUR (feed_fsm.c).
THEOREM FeedsCounted == FeedSpec => [](feedCount <= MaxFeedsPerHour)
<1>1. FeedInv => feedCount <= MaxFeedsPerHour
  BY FeedAssumption DEF FeedInv, FeedTypeOK
<1>2. QED
  BY <1>1, FeedInvariant, PTL

-----------------------------------------------------------------------------------
(* The brake: neither the last move nor the window is younger than the     *)
(* wait, since either of them begins with a move that ends the wait.       *)

OptionalAge == FlapAges \cup {NotYet}

PatienceInv ==
    /\ transitionAge \in OptionalAge /\ flapAge \in OptionalAge /\ waiting \in OptionalAge
    /\ waiting # NotYet /\ transitionAge # NotYet => waiting <= transitionAge
    /\ waiting # NotYet /\ flapAge # NotYet => waiting <= flapAge
    /\ Patience

LEMMA PausedOrder ==
    ASSUME NEW pause \in 0 .. MaxPause
    PROVE  /\ 0 \in OptionalAge /\ NotYet \in OptionalAge
           /\ \A age \in OptionalAge : /\ Paused(age, pause) \in OptionalAge
                                       /\ Paused(age, pause) = NotYet <=> age = NotYet
           /\ \A a, b \in OptionalAge :
                 a <= b => Paused(a, pause) <= Paused(b, pause) \/ b = NotYet \/ a = NotYet
BY AntiFlapAssumption DEF Paused, OptionalAge, FlapAges, NotYet

\* One evaluation that refuses.
LEMMA RefusalKeeps ==
    ASSUME PatienceInv, NEW pause \in 0 .. MaxPause, Refuse(pause),
           flapAge' = Paused(flapAge, pause),
           \/ CoolingDown(pause)
           \/ flapAge # NotYet /\ Paused(flapAge, pause) <= FlapWindow
    PROVE  PatienceInv'
<1> USE DEF PatienceInv, Patience
<1>1. /\ transitionAge' = Paused(transitionAge, pause)
      /\ waiting' = IF waiting = NotYet THEN 0 ELSE Paused(waiting, pause)
  BY DEF Refuse
<1>2. /\ transitionAge' \in OptionalAge /\ flapAge' \in OptionalAge /\ waiting' \in OptionalAge
      /\ (transitionAge' = NotYet <=> transitionAge = NotYet)
      /\ (flapAge' = NotYet <=> flapAge = NotYet)
  BY <1>1, PausedOrder
<1>3. \A age \in OptionalAge : age # NotYet => age >= 0
  BY DEF OptionalAge, FlapAges, NotYet
<1>4. transitionAge' # NotYet => waiting' <= transitionAge'
  BY <1>1, <1>2, <1>3, PausedOrder
<1>5. flapAge' # NotYet => waiting' <= flapAge'
  BY <1>1, <1>2, <1>3, PausedOrder
<1>6. Patience'
  <2>1. CASE CoolingDown(pause)
    <3>1. transitionAge' # NotYet /\ transitionAge' < FlapCooldown
      BY <1>1, <1>2, <2>1 DEF CoolingDown
    <3>2. transitionAge' \in Int /\ waiting' \in Int
      BY <1>2, AntiFlapAssumption DEF OptionalAge, FlapAges, NotYet
    <3>3. QED
      BY <1>4, <3>1, <3>2, AntiFlapAssumption
  <2>2. CASE flapAge # NotYet /\ Paused(flapAge, pause) <= FlapWindow
    <3>1. flapAge' \in Int /\ waiting' \in Int
      BY <1>2, AntiFlapAssumption DEF OptionalAge, FlapAges, NotYet
    <3>2. QED
      BY <1>2, <1>5, <2>2, <3>1, AntiFlapAssumption
  <2>3. QED
    BY <2>1, <2>2
<1>7. QED
  BY <1>2, <1>4, <1>5, <1>6

\* A wanted move waits for the cooldown or the window, whichever is longer,
\* at most (global_state_antiflap_allow), whatever the evaluations ask for.
THEOREM MovesWaitBounded == FlapSpec => []Patience
<1>1. FlapInit => PatienceInv
  BY AntiFlapAssumption DEF FlapInit, PatienceInv, Patience, OptionalAge, NotYet
<1>2. PatienceInv /\ [FlapNext]_flapVars => PatienceInv'
  <2> SUFFICES ASSUME PatienceInv, [FlapNext]_flapVars PROVE PatienceInv'
    OBVIOUS
  <2>1. ASSUME waiting' = NotYet, transitionAge' \in OptionalAge, flapAge' \in OptionalAge
        PROVE  PatienceInv'
    BY <2>1, AntiFlapAssumption DEF PatienceInv, Patience, OptionalAge, NotYet
  <2>2. ASSUME NEW pause \in 0 .. MaxPause, NEW wanted \in FlapModes, AttemptMove(wanted, pause)
        PROVE  PatienceInv'
    <3>1. CASE CoolingDown(pause) /\ Refuse(pause) /\ flapAge' = Paused(flapAge, pause)
      BY <3>1, RefusalKeeps
    <3>2. CASE Grant(wanted, pause)
      <4>1. flapAge' \in OptionalAge
        BY <3>2, PausedOrder DEF Grant, FlapAgeAfter, PatienceInv
      <4>2. QED
        BY <2>1, <3>2, <4>1, PausedOrder DEF Grant
    <3>3. CASE /\ Counted(pause) > MaxTransitions
               /\ Refuse(pause)
               /\ flapAge' = FlapAgeAfter(pause)
      <4>1. ~Opens(pause)
        BY <3>3, AntiFlapAssumption DEF Counted
      <4>2. flapAge # NotYet /\ flapAge' = Paused(flapAge, pause)
        BY <3>3, <4>1 DEF Opens, FlapAgeAfter
      <4>3. Paused(flapAge, pause) \in Int
        BY PausedOrder, AntiFlapAssumption DEF PatienceInv, OptionalAge, FlapAges, NotYet
      <4>4. Paused(flapAge, pause) <= FlapWindow
        BY <4>1, <4>3, AntiFlapAssumption DEF Opens
      <4>5. QED
        BY <3>3, <4>2, <4>4, RefusalKeeps
    <3>4. QED
      BY <2>2, <3>1, <3>2, <3>3 DEF AttemptMove
  <2>3. ASSUME NEW pause \in 0 .. MaxPause, NEW wanted \in FlapModes,
               EvaluateFreely(wanted, pause)
        PROVE  PatienceInv'
    <3>1. transitionAge' \in OptionalAge /\ flapAge' \in OptionalAge /\ waiting' = NotYet
      BY <2>3, PausedOrder DEF EvaluateFreely, PatienceInv
    <3>2. QED
      BY <2>1, <3>1
  <2>4. CASE OtherMove
    BY <2>1, <2>4 DEF OtherMove, PatienceInv
  <2>5. CASE UNCHANGED flapVars
    BY <2>5 DEF flapVars, PatienceInv, Patience
  <2>6. QED
    BY <2>2, <2>3, <2>4, <2>5 DEF FlapNext, Evaluate
<1>3. PatienceInv => Patience
  BY DEF PatienceInv
<1>4. QED
  BY <1>1, <1>2, <1>3, PTL DEF FlapSpec

-----------------------------------------------------------------------------------
(* The brake: its limit.  The n-th last move that was allowed opened the   *)
(* window, and of those before it the oldest opened a window of its own    *)
(* that was over by then: less than a full window is left of them.         *)

Ordered(moves) == \A i, j \in LastMoves : i <= j => moves[i] <= moves[j]

InWindow(age) == IF age < FlapWindow THEN age ELSE FlapWindow

OpenedBy(n, moves, age) ==
    /\ moves[n] = InWindow(age)
    /\ \A i \in LastMoves : i >= n + MaxTransitions => moves[i] = FlapWindow

Windowed(moves, age, count) ==
    IF age = NotYet THEN \A i \in LastMoves : moves[i] = FlapWindow
    ELSE \E n \in 1 .. MaxTransitions : n <= count /\ OpenedBy(n, moves, age)

FlapInv ==
    /\ FlapTypeOK
    /\ Ordered(granted)
    /\ Windowed(granted, flapAge, attempts)

LEMMA FlapSlots ==
    /\ 1 .. MaxTransitions \subseteq LastMoves
    /\ \A i \in LastMoves : i # 1 => i - 1 \in LastMoves
    /\ 1 \in 1 .. MaxTransitions /\ 2 * MaxTransitions \in LastMoves
BY AntiFlapAssumption DEF LastMoves

\* The history after a pause, as the window sees it.
LEMMA RememberedFacts ==
    ASSUME FlapInv, NEW pause \in 0 .. MaxPause
    PROVE  /\ Remembered(pause) \in [LastMoves -> 0 .. FlapWindow]
           /\ Ordered(Remembered(pause))
           /\ \A i \in LastMoves : granted[i] = FlapWindow => Remembered(pause)[i] = FlapWindow
           /\ \A n \in LastMoves : flapAge # NotYet /\ granted[n] = InWindow(flapAge) =>
                Remembered(pause)[n] = InWindow(Paused(flapAge, pause))
<1> USE AntiFlapAssumption
<1>1. granted \in [LastMoves -> 0 .. FlapWindow] /\ flapAge \in OptionalAge
  BY DEF FlapInv, FlapTypeOK, OptionalAge
<1>2. \A i \in LastMoves : Remembered(pause)[i] = InWindow(granted[i] + pause)
  BY DEF Remembered, InWindow
<1>3. Remembered(pause) \in [LastMoves -> 0 .. FlapWindow]
  BY <1>1 DEF Remembered
<1>4. Ordered(Remembered(pause))
  BY <1>1, <1>2 DEF FlapInv, Ordered, InWindow
<1>5. flapAge # NotYet => InWindow(Paused(flapAge, pause)) = InWindow(InWindow(flapAge) + pause)
  BY <1>1 DEF InWindow, Paused, OptionalAge, FlapAges, NotYet
<1>6. \A i \in LastMoves : granted[i] = FlapWindow => Remembered(pause)[i] = FlapWindow
  BY <1>2 DEF InWindow
<1>7. QED
  BY <1>2, <1>3, <1>4, <1>5, <1>6

\* Without a move only time passes.
LEMMA NoMoveKeeps ==
    ASSUME FlapInv, NEW pause \in 0 .. MaxPause,
           granted' = Remembered(pause), flapAge' = Paused(flapAge, pause),
           attempts' \in 0 .. MaxTransitions + 1, attempts <= attempts'
    PROVE  /\ granted' \in [LastMoves -> 0 .. FlapWindow]
           /\ Ordered(granted')
           /\ Windowed(granted', flapAge', attempts')
<1>1. flapAge \in OptionalAge /\ attempts \in 0 .. MaxTransitions + 1
  BY DEF FlapInv, FlapTypeOK, OptionalAge
<1>2. flapAge' = NotYet <=> flapAge = NotYet
  BY <1>1, PausedOrder
<1>3. CASE flapAge = NotYet
  BY <1>2, <1>3, RememberedFacts DEF FlapInv, Windowed
<1>4. CASE flapAge # NotYet
  <2>1. PICK n \in 1 .. MaxTransitions : n <= attempts /\ OpenedBy(n, granted, flapAge)
    BY <1>4 DEF FlapInv, Windowed
  <2>2. n \in LastMoves
    BY FlapSlots
  <2>3. OpenedBy(n, granted', flapAge')
    BY <1>4, <2>1, <2>2, RememberedFacts DEF OpenedBy
  <2>4. n <= attempts'
    BY <1>1, <2>1, AntiFlapAssumption
  <2>5. Windowed(granted', flapAge', attempts')
    BY <1>2, <1>4, <2>3, <2>4 DEF Windowed
  <2>6. QED
    BY <2>5, RememberedFacts
<1>5. QED
  BY <1>3, <1>4

\* A move that is allowed is the next of its window, or opens one.
LEMMA GrantKeeps ==
    ASSUME FlapInv, NEW pause \in 0 .. MaxPause, NEW wanted \in FlapModes, Grant(wanted, pause)
    PROVE  /\ granted' \in [LastMoves -> 0 .. FlapWindow]
           /\ Ordered(granted')
           /\ Windowed(granted', flapAge', attempts')
<1> DEFINE old == Remembered(pause)
<1> USE AntiFlapAssumption
<1>1. /\ flapAge \in OptionalAge /\ attempts \in 0 .. MaxTransitions + 1
      /\ Paused(flapAge, pause) \in OptionalAge
      /\ Paused(flapAge, pause) = NotYet <=> flapAge = NotYet
  BY PausedOrder DEF FlapInv, FlapTypeOK, OptionalAge
<1>2. /\ old \in [LastMoves -> 0 .. FlapWindow]
      /\ Ordered(old)
      /\ \A i \in LastMoves : granted[i] = FlapWindow => old[i] = FlapWindow
      /\ \A n \in LastMoves : flapAge # NotYet /\ granted[n] = InWindow(flapAge) =>
           old[n] = InWindow(Paused(flapAge, pause))
  BY RememberedFacts
<1>3. /\ granted' = [i \in LastMoves |-> IF i = 1 THEN 0 ELSE old[i - 1]]
      /\ Counted(pause) <= MaxTransitions
      /\ flapAge' = FlapAgeAfter(pause)
      /\ attempts' = Counted(pause)
  BY DEF Grant, WithThisMove
<1> HIDE DEF old
<1>4. /\ granted' \in [LastMoves -> 0 .. FlapWindow]
      /\ \A i \in LastMoves : granted'[i] = IF i = 1 THEN 0 ELSE old[i - 1]
  BY <1>2, <1>3, FlapSlots
<1>5. Ordered(granted')
  <2> SUFFICES ASSUME NEW i \in LastMoves, NEW j \in LastMoves, i <= j
               PROVE  granted'[i] <= granted'[j]
    BY DEF Ordered
  <2>1. CASE i = 1
    BY <1>4, <2>1
  <2>2. CASE i # 1
    <3>1. i - 1 \in LastMoves /\ j - 1 \in LastMoves /\ j # 1 /\ i - 1 <= j - 1
      BY <2>2 DEF LastMoves
    <3>2. old[i - 1] <= old[j - 1]
      BY <1>2, <3>1 DEF Ordered
    <3>3. QED
      BY <1>4, <2>2, <3>1, <3>2
  <2>3. QED
    BY <2>1, <2>2
<1>6. CASE Opens(pause)
  <2>1. flapAge' = 0 /\ attempts' = 1
    BY <1>3, <1>6 DEF FlapAgeAfter, Counted
  <2>2. granted'[1] = InWindow(0)
    BY <1>4, FlapSlots DEF InWindow
  <2>3. ASSUME NEW k \in LastMoves, k >= MaxTransitions PROVE old[k] = FlapWindow
    <3>1. CASE flapAge = NotYet
      BY <1>2, <3>1 DEF FlapInv, Windowed
    <3>2. CASE flapAge # NotYet
      <4>1. PICK n \in 1 .. MaxTransitions : n <= attempts /\ OpenedBy(n, granted, flapAge)
        BY <3>2 DEF FlapInv, Windowed
      <4>2. n \in LastMoves /\ n <= k
        BY <2>3, FlapSlots DEF LastMoves
      <4>3. Paused(flapAge, pause) > FlapWindow /\ Paused(flapAge, pause) \in Int
        BY <1>1, <1>6, <3>2 DEF Opens, OptionalAge, FlapAges, NotYet
      <4>4. old[n] = InWindow(Paused(flapAge, pause))
        BY <1>2, <3>2, <4>1, <4>2 DEF OpenedBy
      <4>5. old[n] = FlapWindow
        BY <4>3, <4>4 DEF InWindow
      <4>6. old[n] <= old[k]
        BY <1>2, <4>2 DEF Ordered
      <4>7. QED
        BY <1>2, <4>5, <4>6
    <3>3. QED
      BY <3>1, <3>2
  <2>4. ASSUME NEW i \in LastMoves, i >= 1 + MaxTransitions PROVE granted'[i] = FlapWindow
    <3>1. i # 1 /\ i - 1 \in LastMoves /\ i - 1 >= MaxTransitions
      BY <2>4 DEF LastMoves
    <3>2. QED
      BY <1>4, <2>3, <3>1
  <2>5. OpenedBy(1, granted', 0)
    BY <2>2, <2>4 DEF OpenedBy
  <2>6. QED
    BY <1>4, <1>5, <2>1, <2>5, FlapSlots DEF Windowed, NotYet
<1>7. CASE ~Opens(pause)
  <2>1. PICK n \in 1 .. MaxTransitions : n <= attempts /\ OpenedBy(n, granted, flapAge)
    BY <1>7 DEF Opens, FlapInv, Windowed
  <2>2. /\ flapAge # NotYet
        /\ flapAge' = Paused(flapAge, pause)
        /\ attempts' = attempts + 1
        /\ attempts' <= MaxTransitions
    BY <1>1, <1>3, <1>7 DEF Opens, FlapAgeAfter, Counted
  <2>3. /\ n + 1 \in 1 .. MaxTransitions /\ n + 1 <= attempts'
        /\ n \in LastMoves /\ n + 1 \in LastMoves
    BY <1>1, <2>1, <2>2, FlapSlots
  <2>4. granted'[n + 1] = InWindow(flapAge')
    BY <1>2, <1>4, <2>1, <2>2, <2>3 DEF OpenedBy
  <2>5. ASSUME NEW i \in LastMoves, i >= n + 1 + MaxTransitions PROVE granted'[i] = FlapWindow
    <3>1. i # 1 /\ i - 1 \in LastMoves /\ i - 1 >= n + MaxTransitions
      BY <2>5 DEF LastMoves
    <3>2. granted[i - 1] = FlapWindow
      BY <2>1, <3>1 DEF OpenedBy
    <3>3. QED
      BY <1>2, <1>4, <3>1, <3>2
  <2>6. OpenedBy(n + 1, granted', flapAge')
    BY <2>4, <2>5 DEF OpenedBy
  <2>7. flapAge' # NotYet
    BY <1>1, <2>2
  <2>8. QED
    BY <1>4, <1>5, <2>3, <2>6, <2>7 DEF Windowed
<1>8. QED
  BY <1>6, <1>7

LEMMA FlapInvariant == FlapSpec => []FlapInv
<1> USE AntiFlapAssumption
<1>1. FlapInit => FlapInv
  <2> SUFFICES ASSUME FlapInit PROVE FlapInv
    OBVIOUS
  <2>1. granted \in [LastMoves -> 0 .. FlapWindow] /\ \A i \in LastMoves : granted[i] = FlapWindow
    BY DEF FlapInit
  <2>2. Ordered(granted) /\ Windowed(granted, flapAge, attempts)
    BY <2>1 DEF FlapInit, Ordered, Windowed
  <2>3. 0 \in 0 .. MaxTransitions + 1
    OBVIOUS
  <2>4. QED
    BY <2>1, <2>2, <2>3 DEF FlapInit, FlapInv, FlapTypeOK
<1>2. FlapInv /\ [FlapNext]_flapVars => FlapInv'
  <2> SUFFICES ASSUME FlapInv, [FlapNext]_flapVars PROVE FlapInv'
    OBVIOUS
  <2>1. /\ flapAge \in OptionalAge /\ transitionAge \in OptionalAge /\ waiting \in OptionalAge
        /\ attempts \in 0 .. MaxTransitions + 1 /\ flapMode \in FlapModes
        /\ OptionalAge = FlapAges \cup {NotYet}
    BY DEF FlapInv, FlapTypeOK, OptionalAge
  <2>2. ASSUME NEW pause \in 0 .. MaxPause, NEW wanted \in FlapModes, AttemptMove(wanted, pause)
        PROVE  FlapInv'
    <3>1. Counted(pause) \in 0 .. MaxTransitions + 1
      BY <2>1 DEF Counted
    <3>2. CASE /\ CoolingDown(pause)
               /\ Refuse(pause)
               /\ flapAge' = Paused(flapAge, pause)
               /\ UNCHANGED attempts
      BY <2>1, <3>2, NoMoveKeeps, PausedOrder DEF Refuse, FlapInv, FlapTypeOK
    <3>3. CASE Grant(wanted, pause)
      <4>1. /\ flapMode' = wanted /\ waiting' = NotYet /\ transitionAge' = 0
            /\ flapAge' = FlapAgeAfter(pause) /\ attempts' = Counted(pause)
        BY <3>3 DEF Grant
      <4>2. FlapAgeAfter(pause) \in OptionalAge /\ 0 \in OptionalAge /\ NotYet \in OptionalAge
        BY <2>1, PausedOrder DEF FlapAgeAfter
      <4>3. QED
        BY <2>1, <3>1, <3>3, <4>1, <4>2, GrantKeeps DEF FlapInv, FlapTypeOK
    <3>4. CASE /\ Counted(pause) > MaxTransitions
               /\ Refuse(pause)
               /\ flapAge' = FlapAgeAfter(pause)
               /\ attempts' = Counted(pause)
      <4>1. ~Opens(pause)
        BY <3>4 DEF Counted
      <4>2. flapAge' = Paused(flapAge, pause) /\ attempts <= attempts'
        BY <2>1, <3>4, <4>1 DEF FlapAgeAfter, Counted
      <4>3. QED
        BY <2>1, <3>1, <3>4, <4>2, NoMoveKeeps, PausedOrder DEF Refuse, FlapInv, FlapTypeOK
    <3>5. QED
      BY <2>2, <3>2, <3>3, <3>4 DEF AttemptMove
  <2>3. ASSUME NEW pause \in 0 .. MaxPause, NEW wanted \in FlapModes,
               EvaluateFreely(wanted, pause)
        PROVE  FlapInv'
    <3>1. /\ flapAge' = Paused(flapAge, pause) /\ granted' = Remembered(pause)
          /\ waiting' = NotYet /\ attempts' = attempts
      BY <2>3 DEF EvaluateFreely
    <3>2. flapMode' \in FlapModes /\ transitionAge' \in OptionalAge
      BY <2>1, <2>3, PausedOrder DEF EvaluateFreely
    <3>3. QED
      BY <2>1, <3>1, <3>2, NoMoveKeeps, PausedOrder DEF FlapInv, FlapTypeOK
  <2>4. CASE OtherMove
    BY <2>4 DEF OtherMove, FlapInv, FlapTypeOK, Ordered, Windowed, OpenedBy
  <2>5. CASE UNCHANGED flapVars
    BY <2>5 DEF flapVars, FlapInv, FlapTypeOK, Ordered, Windowed, OpenedBy
  <2>6. QED
    BY <2>2, <2>3, <2>4, <2>5 DEF FlapNext, Evaluate
<1>3. QED
  BY <1>1, <1>2, PTL DEF FlapSpec

\* Type correctness of the state of global_state_antiflap_allow.
THEOREM FlapTypeCorrect == FlapSpec => []FlapTypeOK
<1>1. FlapInv => FlapTypeOK
  BY DEF FlapInv
<1>2. QED
  BY <1>1, FlapInvariant, PTL

\* Less than twice the limit of moves in any interval as long as the window,
\* wherever it lies, for every limit, cooldown and window.
THEOREM MovesLimited == FlapSpec => []FlapLimit
<1>1. FlapInv => FlapLimit
  BY FlapSlots, AntiFlapAssumption DEF FlapInv, FlapTypeOK, Windowed, OpenedBy, FlapLimit, LastMoves
<1>2. QED
  BY <1>1, FlapInvariant, PTL

-----------------------------------------------------------------------------------
(* The factory reset: types.                                                *)

\* The forms of a call.
LEMMA CallForms ==
  ASSUME ResetTypeOK, NEW c \in Callers
  PROVE  \/ resetCall[c] = NoCall
         \/ \E op \in {"start", "confirm", "abort"} : resetCall[c] = Entering(op)
         \/ \E state \in {"CONFIRM1", "COUNTDOWN"} : resetCall[c] = Ticking(state)
         \/ \E step \in {"state", "deadline"}, state \in ResetStates, due \in 0 .. Longest :
              resetCall[c] = Storing(step, state, due)
<1>1. resetCall[c] \in ResetCalls
  BY DEF ResetTypeOK
<1>2. QED
  BY <1>1 DEF ResetCalls

\* What is about to be stored has the type of its variable, also when it has
\* been stored half, or time has passed.
LEMMA CallsTyped ==
  ASSUME ResetTypeOK, NEW c \in Callers, resetCall[c].step \in {"state", "deadline"}
  PROVE  /\ resetCall[c].state \in ResetStates
         /\ resetCall[c].due \in 0 .. Longest
         /\ [resetCall[c] EXCEPT !.step = "deadline"] \in ResetCalls
         /\ [resetCall[c] EXCEPT !.due = Lessened(@)] \in ResetCalls
         /\ [resetCall[c] EXCEPT !.step = "deadline"].step = "deadline"
         /\ [resetCall[c] EXCEPT !.step = "deadline"].state = resetCall[c].state
         /\ [resetCall[c] EXCEPT !.step = "deadline"].due = resetCall[c].due
         /\ [resetCall[c] EXCEPT !.due = Lessened(@)].step = resetCall[c].step
         /\ [resetCall[c] EXCEPT !.due = Lessened(@)].state = resetCall[c].state
<1>1. PICK step \in {"state", "deadline"}, state \in ResetStates, due \in 0 .. Longest :
        resetCall[c] = Storing(step, state, due)
  BY CallForms DEF NoCall, Entering, Ticking
<1>2. Longest \in Nat /\ Lessened(due) \in 0 .. Longest
  BY ResetAssumption DEF Lessened, Longest
<1>3. [resetCall[c] EXCEPT !.step = "deadline"] = Storing("deadline", state, due)
  BY <1>1 DEF Storing
<1>4. [resetCall[c] EXCEPT !.due = Lessened(@)] = Storing(step, state, Lessened(due))
  BY <1>1 DEF Storing
<1>5. /\ Storing("deadline", state, due) \in ResetCalls
      /\ Storing(step, state, Lessened(due)) \in ResetCalls
  BY <1>2 DEF ResetCalls
<1>6. QED
  BY <1>1, <1>3, <1>4, <1>5 DEF Storing

\* The calls that the code makes are calls.
LEMMA CallsMade ==
  /\ NoCall \in ResetCalls
  /\ \A op \in {"start", "confirm", "abort"} : Entering(op) \in ResetCalls
  /\ \A state \in {"CONFIRM1", "COUNTDOWN"} : Ticking(state) \in ResetCalls
  /\ \A state \in ResetStates, due \in {0, Window, Countdown} :
       Storing("state", state, due) \in ResetCalls
<1>1. {0, Window, Countdown} \subseteq 0 .. Longest
  BY ResetAssumption DEF Longest
<1>2. QED
  BY <1>1 DEF ResetCalls

\* The factory reset keeps its types, for all windows, countdowns and times
\* that the key has to be held.
THEOREM ResetTypeCorrect == ResetSpec => []ResetTypeOK
<1>1. ResetInit => ResetTypeOK
  <2>1. 0 \in 0 .. Longest /\ 0 \in 0 .. Countdown /\ Hold \in 0 .. Hold
    BY ResetAssumption DEF Longest
  <2>2. QED
    BY <2>1, CallsMade DEF ResetInit, ResetTypeOK, ResetStates
<1>2. ResetTypeOK /\ [ResetNext]_resetVars => ResetTypeOK'
  <2> SUFFICES ASSUME ResetTypeOK, [ResetNext]_resetVars PROVE ResetTypeOK'
    OBVIOUS
  <2>0. 0 \in 0 .. Longest /\ 0 \in 0 .. Countdown /\ 0 \in 0 .. Hold /\ Hold \in 0 .. Hold
    BY ResetAssumption DEF Longest
  <2>1. ASSUME NEW c \in Callers, Enter(c) PROVE ResetTypeOK'
    <3>1. StartCall \in ResetCalls /\ ConfirmCall \in ResetCalls /\ AbortCall \in ResetCalls
      BY CallsMade DEF StartCall, ConfirmCall, AbortCall, ResetStates
    <3>2. PICK op \in {"start", "confirm", "abort"} : resetCall[c] = Entering(op)
      <4>1. resetCall[c] # NoCall
        BY <2>1 DEF Enter, NoCall
      <4>2. ASSUME NEW step \in {"state", "deadline"}, NEW state, NEW due
            PROVE  resetCall[c] # Storing(step, state, due)
        BY <2>1 DEF Enter, Storing
      <4>3. \A state : resetCall[c] # Ticking(state)
        BY <2>1 DEF Enter, Ticking
      <4>4. QED
        BY <4>1, <4>2, <4>3, CallForms, Zenon
    <3>3. resetCall'[c] \in ResetCalls
      BY <2>1, <3>1, <3>2 DEF Enter, Entering, ResetTypeOK
    <3>4. resetCall' \in [Callers -> ResetCalls]
      BY <2>1, <3>3 DEF Enter, ResetTypeOK
    <3>5. QED
      BY <2>1, <3>4 DEF Enter, ResetTypeOK
  <2>2. ASSUME NEW c \in Callers, StoreState(c) PROVE ResetTypeOK'
    <3>1. /\ resetCall[c].state \in ResetStates
          /\ [resetCall[c] EXCEPT !.step = "deadline"] \in ResetCalls
      BY <2>2, CallsTyped DEF StoreState
    <3>2. resetCall' \in [Callers -> ResetCalls]
      BY <2>2, <3>1, CallsMade DEF StoreState, ResetTypeOK
    <3>3. agreed' \in {"none", "started", "held", "confirmed"}
      BY <2>2 DEF StoreState, AgreedWith, ResetTypeOK
    <3>4. {torn', kept'} \subseteq BOOLEAN
      BY <2>2, Zenon DEF StoreState, ResetTypeOK
    <3>5. QED
      BY <2>0, <2>2, <3>1, <3>2, <3>3, <3>4 DEF StoreState, ResetTypeOK
  <2>3. ASSUME NEW c \in Callers, StoreDeadline(c) PROVE ResetTypeOK'
    <3>1. resetCall[c].due \in 0 .. Longest
      BY <2>3, CallsTyped DEF StoreDeadline
    <3>2. torn' \in BOOLEAN
      BY <2>3, Zenon DEF StoreDeadline
    <3>3. QED
      BY <2>3, <3>1, <3>2, CallsMade DEF StoreDeadline, ResetTypeOK
  <2>4. CASE WebRequest \/ ScreenRequest
    <3>1. PICK c \in Askers, op \in {"start", "confirm", "abort"} : Ask(c, op)
      BY <2>4 DEF WebRequest, ScreenRequest, Askers
    <3>2. QED
      BY <3>1, CallsMade DEF Ask, Callers, ResetTypeOK
  <2>5. CASE ResetTick
    <3>1. resetCall' \in [Callers -> ResetCalls]
      BY <2>5, CallsMade DEF ResetTick, ResetTypeOK, ResetStates
    <3>2. QED
      BY <2>5, <3>1 DEF ResetTick, ResetTypeOK
  <2>11. CASE ReadDeadline
    <3>1. PICK state \in {"CONFIRM1", "COUNTDOWN"} : resetCall["safety"] = Ticking(state)
      <4>1. \A op : resetCall["safety"] # NoCall /\ resetCall["safety"] # Entering(op)
        BY <2>11 DEF ReadDeadline, NoCall, Entering
      <4>2. ASSUME NEW step \in {"state", "deadline"}, NEW state, NEW due
            PROVE  resetCall["safety"] # Storing(step, state, due)
        BY <2>11 DEF ReadDeadline, Storing
      <4>3. "safety" \in Callers
        BY DEF Callers
      <4>4. QED
        BY <4>1, <4>2, <4>3, CallForms, Zenon
    <3>2. timeLeft \in Nat /\ resetCall["safety"].state = state
      BY <3>1, ResetAssumption DEF ResetTypeOK, Longest, Ticking
    <3>3. PICK call \in {NoCall, Storing("state", "IDLE", 0), Storing("state", "ERASING", 0)} :
            resetCall' = [resetCall EXCEPT !["safety"] = call]
      <4>1. CASE timeLeft # 0
        <5>1. resetCall' = [resetCall EXCEPT !["safety"] = NoCall]
          BY <2>11, <3>2, <4>1 DEF ReadDeadline
        <5>2. QED
          BY <5>1
      <4>2. CASE timeLeft = 0 /\ state = "CONFIRM1"
        <5>1. resetCall' = [resetCall EXCEPT !["safety"] = Storing("state", "IDLE", 0)]
          BY <2>11, <3>2, <4>2 DEF ReadDeadline
        <5>2. QED
          BY <5>1
      <4>3. CASE timeLeft = 0 /\ state = "COUNTDOWN"
        <5>1. resetCall' = [resetCall EXCEPT !["safety"] = Storing("state", "ERASING", 0)]
          BY <2>11, <3>2, <4>3 DEF ReadDeadline
        <5>2. QED
          BY <5>1
      <4>4. QED
        BY <3>2, <4>1, <4>2, <4>3
    <3>4. resetCall' \in [Callers -> ResetCalls]
      BY <3>3, CallsMade DEF ResetTypeOK, ResetStates
    <3>5. QED
      BY <2>11, <3>4 DEF ReadDeadline, ResetTypeOK
  <2>6. CASE Erase
    BY <2>0, <2>6, CallsMade DEF Erase, ResetTypeOK, ResetStates
  <2>7. CASE CheckKey
    <3>1. PICK upPressed \in BOOLEAN, call \in ResetCalls, held \in BOOLEAN, since \in 0 .. Hold :
            KeyHeld(call, held, since)
      BY <2>0, <2>7, CallsMade DEF CheckKey, ResetTypeOK
    <3>2. kept' \in BOOLEAN
      BY <2>7, Zenon DEF CheckKey, ResetTypeOK
    <3>3. QED
      BY <2>7, <3>1, <3>2 DEF CheckKey, KeyHeld, ResetTypeOK
  <2>8. CASE ResetTimePasses
    <3>1. ASSUME NEW c \in Callers PROVE resetCall'[c] \in ResetCalls
      BY <2>8, <3>1, CallsTyped DEF ResetTimePasses, ResetTypeOK
    <3>2. resetCall' \in [Callers -> ResetCalls]
      BY <2>8, <3>1 DEF ResetTimePasses
    <3>3. /\ timeLeft' \in 0 .. Longest
          /\ heldFor' \in 0 .. Hold
          /\ counted' \in 0 .. Countdown
      BY <2>8, ResetAssumption DEF ResetTimePasses, ResetTypeOK, Lessened, Increased, Longest
    <3>4. QED
      BY <2>8, <3>2, <3>3 DEF ResetTimePasses, ResetTypeOK
  <2>9. CASE UNCHANGED resetVars
    BY <2>9 DEF resetVars, ResetTypeOK
  <2>10. QED
    BY <2>1, <2>2, <2>3, <2>4, <2>5, <2>6, <2>7, <2>8, <2>9, <2>11 DEF ResetNext
<1>3. QED
  BY <1>1, <1>2, PTL DEF ResetSpec
-----------------------------------------------------------------------------------
(* The factory reset: what it takes to erase.  The property looks at one    *)
(* state only; the invariant says what is agreed in each state and behind   *)
(* each store under way, and that no store but the one of the tick can come *)
(* between the beginning and the end of an untorn countdown.                *)

AboutTo(c, state) == resetCall[c].step = "state" /\ resetCall[c].state = state

AgreedInv ==
    /\ resetState # "IDLE" => agreed # "none"
    /\ resetState \in {"CONFIRM2", "COUNTDOWN", "ERASING"} => agreed \in {"held", "confirmed"}
    /\ \A c \in Callers :
         /\ AboutTo(c, "CONFIRM2") => agreed # "none"
         /\ AboutTo(c, "COUNTDOWN") \/ AboutTo(c, "ERASING")
              => c = "safety" /\ agreed \in {"held", "confirmed"}
         /\ resetCall[c].step = "ticking" /\ resetCall[c].state = "COUNTDOWN"
              => c = "safety" /\ agreed \in {"held", "confirmed"}

CountdownInv ==
    /\ AboutTo("safety", "COUNTDOWN") => resetCall["safety"].due = Countdown
    /\ ~torn /\ resetState = "COUNTDOWN" =>
         /\ \A c \in Askers : /\ resetCall[c].step # "deadline"
                              /\ resetCall[c].step = "state" => resetCall[c].state = "IDLE"
         /\ IF resetCall["safety"].step = "deadline"
            THEN counted + resetCall["safety"].due >= Countdown
            ELSE counted + timeLeft >= Countdown
    /\ ~torn /\ resetCall["safety"].step = "ticking" /\ resetCall["safety"].state = "COUNTDOWN"
         => resetState = "COUNTDOWN"
    /\ ~torn /\ (resetState = "ERASING" \/ AboutTo("safety", "ERASING"))
         => counted >= Countdown

ResetInv == ResetTypeOK /\ AgreedInv /\ CountdownInv
\* A step that leaves the stores under way alone, but for the one that task c
\* decides upon, and the reset itself.
LEMMA NewCallKeeps ==
  ASSUME AgreedInv, CountdownInv, ResetTypeOK, NEW c \in Callers, NEW call,
         resetCall' = [resetCall EXCEPT ![c] = call],
         UNCHANGED <<resetState, timeLeft, agreed, counted, torn>>,
         resetCall[c].step # "deadline",
         call.step # "deadline",
         call.step = "ticking" => c = "safety" /\ resetState = call.state,
         call.step = "state" =>
           \/ /\ call.state \in {"IDLE", "CONFIRM1"}
              /\ resetState = "COUNTDOWN" => call.state = "IDLE"
           \/ call.state = "CONFIRM2" /\ resetState = "CONFIRM1"
           \/ /\ c = "safety" /\ call.state = "COUNTDOWN"
              /\ resetState = "CONFIRM2" /\ call.due = Countdown
           \/ /\ c = "safety" /\ call.state = "ERASING"
              /\ agreed \in {"held", "confirmed"} /\ (~torn => counted >= Countdown)
  PROVE  AgreedInv' /\ CountdownInv'
<1>1. resetCall'[c] = call /\ (\A d \in Callers \ {c} : resetCall'[d] = resetCall[d])
  BY DEF ResetTypeOK
<1>2. \A state : \A d \in Callers \ {c} : AboutTo(d, state)' <=> AboutTo(d, state)
  BY <1>1 DEF AboutTo
<1>3. AgreedInv'
  <2>1. AboutTo(c, "CONFIRM2")' => agreed' # "none"
    BY <1>1 DEF AboutTo, AgreedInv
  <2>2. AboutTo(c, "COUNTDOWN")' \/ AboutTo(c, "ERASING")'
          => c = "safety" /\ agreed' \in {"held", "confirmed"}
    BY <1>1 DEF AboutTo, AgreedInv
  <2>3. resetCall'[c].step = "ticking" /\ resetCall'[c].state = "COUNTDOWN"
          => c = "safety" /\ agreed' \in {"held", "confirmed"}
    BY <1>1 DEF AgreedInv
  <2>4. QED
    BY <1>1, <1>2, <2>1, <2>2, <2>3 DEF AgreedInv
<1>4. CountdownInv'
  <2>1. AboutTo("safety", "COUNTDOWN")' => resetCall'["safety"].due = Countdown
    BY <1>1 DEF AboutTo, CountdownInv, Callers
  <2>2. ASSUME ~torn, resetState = "COUNTDOWN"
        PROVE  /\ \A d \in Askers : /\ resetCall'[d].step # "deadline"
                                    /\ resetCall'[d].step = "state" => resetCall'[d].state = "IDLE"
               /\ IF resetCall'["safety"].step = "deadline"
                  THEN counted + resetCall'["safety"].due >= Countdown
                  ELSE counted + timeLeft >= Countdown
    <3>1. ASSUME NEW d \in Askers
          PROVE  /\ resetCall'[d].step # "deadline"
                 /\ resetCall'[d].step = "state" => resetCall'[d].state = "IDLE"
      BY <1>1, <2>2, <3>1 DEF CountdownInv, Askers, Callers
    <3>2. CASE c = "safety"
      BY <1>1, <2>2, <3>1, <3>2 DEF CountdownInv
    <3>3. CASE c # "safety"
      BY <1>1, <2>2, <3>1, <3>3 DEF CountdownInv, Callers
    <3>4. QED
      BY <3>1, <3>2, <3>3
  <2>3. ASSUME ~torn, AboutTo("safety", "ERASING")' PROVE counted >= Countdown
    <3>1. CASE AboutTo("safety", "ERASING")
      BY <2>3, <3>1 DEF CountdownInv
    <3>2. CASE ~AboutTo("safety", "ERASING")
      BY <1>1, <1>2, <2>3, <3>2 DEF AboutTo, Callers
    <3>3. QED
      BY <3>1, <3>2
  <2>4. ASSUME ~torn,
               resetCall'["safety"].step = "ticking", resetCall'["safety"].state = "COUNTDOWN"
        PROVE  resetState = "COUNTDOWN"
    BY <1>1, <2>4 DEF CountdownInv, Callers
  <2>5. QED
    BY <2>1, <2>2, <2>3, <2>4 DEF CountdownInv
<1>5. QED
  BY <1>3, <1>4

LEMMA StoreStateKeeps ==
  ASSUME ResetInv, NEW c \in Callers, StoreState(c)
  PROVE  AgreedInv' /\ CountdownInv'
<1> DEFINE state == resetCall[c].state
<1>1. /\ AboutTo(c, state)
      /\ state \in ResetStates
      /\ resetState' = state
      /\ agreed' = AgreedWith(c, state)
      /\ torn' = IF Alone(c) THEN torn /\ state # "CONFIRM1" ELSE TRUE
      /\ counted' = IF state = "COUNTDOWN" THEN 0 ELSE counted
      /\ timeLeft' = timeLeft
  BY CallsTyped DEF ResetInv, StoreState, AboutTo
<1>2. /\ \A d \in Callers \ {c} : resetCall'[d] = resetCall[d]
      /\ resetCall'[c].step \notin {"state", "ticking"}
      /\ resetCall'[c].step = "deadline" => resetCall'[c].due = resetCall[c].due
      /\ state = "COUNTDOWN" => resetCall'[c].step = "deadline"
  BY CallsTyped DEF ResetInv, StoreState, ResetTypeOK, NoCall
<1>3. /\ \A s : ~AboutTo(c, s)'
      /\ \A s : \A d \in Callers \ {c} : AboutTo(d, s)' <=> AboutTo(d, s)
  BY <1>2 DEF AboutTo
<1>4. \A s : \A d \in Callers \ {c} : AboutTo(d, s) => ~Alone(c)
  BY DEF AboutTo, Alone
<1>5. AgreedInv'
  <2>1. agreed \in {"none", "started", "held", "confirmed"}
    BY DEF ResetInv, ResetTypeOK
  <2>2. state # "IDLE" => agreed' # "none"
    BY <1>1, <2>1 DEF AgreedWith, AgreedInv, ResetInv, ResetStates
  <2>3. state \in {"CONFIRM2", "COUNTDOWN", "ERASING"} => agreed' \in {"held", "confirmed"}
    BY <1>1, <2>1 DEF AgreedWith, AgreedInv, ResetInv
  <2>4. ~Alone(c) /\ agreed # "none" => agreed' # "none"
    BY <1>1, <2>1 DEF AgreedWith
  <2>5. ~Alone(c) /\ agreed \in {"held", "confirmed"} => agreed' \in {"held", "confirmed"}
    BY <1>1, <2>1 DEF AgreedWith
  <2>6. ASSUME NEW d \in Callers
        PROVE  /\ AboutTo(d, "CONFIRM2")' => agreed' # "none"
               /\ AboutTo(d, "COUNTDOWN")' \/ AboutTo(d, "ERASING")'
                    => d = "safety" /\ agreed' \in {"held", "confirmed"}
               /\ resetCall'[d].step = "ticking" /\ resetCall'[d].state = "COUNTDOWN"
                    => d = "safety" /\ agreed' \in {"held", "confirmed"}
    <3>1. CASE d = c
      BY <1>2, <1>3, <3>1
    <3>2. CASE d # c
      <4>1. resetCall'[d] = resetCall[d]
        BY <1>2, <3>2
      <4>2. resetCall[d].step = "ticking" => ~Alone(c)
        BY <3>2 DEF Alone
      <4>3. QED
        BY <1>3, <1>4, <2>4, <2>5, <3>2, <4>1, <4>2 DEF AgreedInv, ResetInv
    <3>3. QED
      BY <3>1, <3>2
  <2>7. QED
    BY <1>1, <2>2, <2>3, <2>6 DEF AgreedInv
<1>6. CountdownInv'
  <2>1. AboutTo("safety", "COUNTDOWN")' => resetCall'["safety"].due = Countdown
    BY <1>2, <1>3 DEF CountdownInv, ResetInv, Callers
  <2>2. ASSUME ~torn', state = "COUNTDOWN"
        PROVE  /\ \A d \in Askers : /\ resetCall'[d].step # "deadline"
                                    /\ resetCall'[d].step = "state" => resetCall'[d].state = "IDLE"
               /\ resetCall'["safety"].step = "deadline"
               /\ counted' + resetCall'["safety"].due >= Countdown
    <3>1. c = "safety"
      BY <1>1, <2>2 DEF AgreedInv, ResetInv
    <3>2. Alone(c)
      BY <1>1, <2>2
    <3>3. \A d \in Askers : resetCall'[d].step \notin {"state", "deadline"}
      BY <1>2, <3>1, <3>2 DEF Alone, Callers, Askers
    <3>4. resetCall'["safety"].due = Countdown
      BY <1>1, <1>2, <2>2, <3>1 DEF CountdownInv, ResetInv
    <3>5. QED
      BY <1>1, <1>2, <2>2, <3>1, <3>3, <3>4, ResetAssumption
  <2>3. ASSUME ~torn', state = "ERASING" PROVE counted' >= Countdown
    BY <1>1, <2>3 DEF CountdownInv, AgreedInv, ResetInv
  <2>4. ASSUME ~torn', AboutTo("safety", "ERASING")' PROVE counted' >= Countdown
    BY <1>1, <1>3, <1>4, <2>4 DEF Callers
  <2>5. ASSUME ~torn', resetCall'["safety"].step = "ticking" PROVE FALSE
    <3>1. c # "safety" /\ resetCall["safety"].step = "ticking" /\ Alone(c)
      BY <1>1, <1>2, <2>5 DEF Callers
    <3>2. QED
      BY <3>1 DEF Alone, Callers
  <2>6. QED
    BY <1>1, <2>1, <2>2, <2>3, <2>4, <2>5 DEF CountdownInv
<1>7. QED
  BY <1>5, <1>6

LEMMA StoreDeadlineKeeps ==
  ASSUME ResetInv, NEW c \in Callers, StoreDeadline(c)
  PROVE  AgreedInv' /\ CountdownInv'
<1>1. /\ resetCall[c].step = "deadline"
      /\ timeLeft' = resetCall[c].due
      /\ ~torn' => ~torn /\ Alone(c)
      /\ UNCHANGED <<resetState, agreed, counted>>
  BY DEF StoreDeadline
<1>2. /\ \A d \in Callers \ {c} : resetCall'[d] = resetCall[d]
      /\ resetCall'[c].step = "none"
  BY DEF ResetInv, StoreDeadline, ResetTypeOK, NoCall
<1>3. \A s : \A d \in Callers : AboutTo(d, s)' => AboutTo(d, s) /\ d # c
  BY <1>2 DEF AboutTo
<1>4. AgreedInv'
  <2>1. ASSUME NEW d \in Callers, resetCall'[d].step = "ticking"
        PROVE  resetCall'[d] = resetCall[d]
    BY <1>2, <2>1
  <2>2. QED
    BY <1>1, <1>3, <2>1 DEF AgreedInv, ResetInv
<1>5. CountdownInv'
  <2>1. AboutTo("safety", "COUNTDOWN")' => resetCall'["safety"].due = Countdown
    BY <1>2, <1>3 DEF CountdownInv, ResetInv, Callers
  <2>2. ASSUME ~torn', resetState' = "COUNTDOWN"
        PROVE  /\ \A d \in Askers : /\ resetCall'[d].step # "deadline"
                                    /\ resetCall'[d].step = "state" => resetCall'[d].state = "IDLE"
               /\ resetCall'["safety"].step # "deadline"
               /\ counted' + timeLeft' >= Countdown
    <3>1. c = "safety"
      BY <1>1, <2>2 DEF CountdownInv, ResetInv, Callers
    <3>2. QED
      BY <1>1, <1>2, <2>2, <3>1 DEF CountdownInv, ResetInv, Callers, Askers
  <2>3. ASSUME ~torn', resetState' = "ERASING" \/ AboutTo("safety", "ERASING")'
        PROVE  counted' >= Countdown
    BY <1>1, <1>3, <2>3 DEF CountdownInv, ResetInv, Callers
  <2>4. ASSUME ~torn', resetCall'["safety"].step = "ticking" PROVE FALSE
    <3>1. c # "safety" /\ resetCall["safety"].step = "ticking" /\ Alone(c)
      BY <1>1, <1>2, <2>4 DEF Callers
    <3>2. QED
      BY <3>1 DEF Alone, Callers
  <2>5. QED
    BY <2>1, <2>2, <2>3, <2>4 DEF CountdownInv
<1>6. QED
  BY <1>4, <1>5
\* The factory reset erases only what the operator agreed to, with a second word
\* or with the press that began it read once more (app_main.c:489), and not before
\* the countdown is over (reset_handler_tick): for all windows and countdowns,
\* with the calls of three tasks between each other's stores.
THEOREM ErasureAgreed == ResetSpec => []ErasesOnlyAgreed
<1>1. ResetInit => AgreedInv /\ CountdownInv
  BY DEF ResetInit, AgreedInv, CountdownInv, AboutTo, NoCall, Callers
<1>2. ResetInv /\ [ResetNext]_resetVars => AgreedInv' /\ CountdownInv'
  <2> SUFFICES ASSUME ResetInv, [ResetNext]_resetVars PROVE AgreedInv' /\ CountdownInv'
    OBVIOUS
  <2> USE DEF ResetInv
  <2>1. ASSUME NEW c \in Callers, Enter(c) PROVE AgreedInv' /\ CountdownInv'
    <3> DEFINE call == CASE resetCall[c].op = "start" -> StartCall
                         [] resetCall[c].op = "confirm" -> ConfirmCall
                         [] resetCall[c].op = "abort" -> AbortCall
    <3>1. resetCall[c].op \in {"start", "confirm", "abort"}
      <4>1. resetCall[c] # NoCall
        BY <2>1 DEF Enter, NoCall
      <4>2. ASSUME NEW step \in {"state", "deadline"}, NEW state, NEW due
            PROVE  resetCall[c] # Storing(step, state, due)
        BY <2>1 DEF Enter, Storing
      <4>3. \A state : resetCall[c] # Ticking(state)
        BY <2>1 DEF Enter, Ticking
      <4>4. PICK op \in {"start", "confirm", "abort"} : resetCall[c] = Entering(op)
        BY <4>1, <4>2, <4>3, CallForms, Zenon
      <4>5. QED
        BY <4>4 DEF Entering
    <3>2. /\ call.step \notin {"deadline", "ticking"}
          /\ call.step = "state" =>
               \/ call.state = "IDLE"
               \/ call.state = "CONFIRM1" /\ resetState = "IDLE"
               \/ call.state = "CONFIRM2" /\ resetState = "CONFIRM1"
      BY <3>1 DEF StartCall, ConfirmCall, AbortCall, Storing, Entering, NoCall
    <3>3. resetCall' = [resetCall EXCEPT ![c] = call]
      BY <2>1 DEF Enter
    <3>4. /\ UNCHANGED <<resetState, timeLeft, agreed, counted, torn>>
          /\ resetCall[c].step # "deadline"
      BY <2>1 DEF Enter
    <3> HIDE DEF call
    <3>5. QED
      BY <3>2, <3>3, <3>4, NewCallKeeps
  <2>2. ASSUME NEW c \in Callers, StoreState(c) PROVE AgreedInv' /\ CountdownInv'
    BY <2>2, StoreStateKeeps
  <2>3. ASSUME NEW c \in Callers, StoreDeadline(c) PROVE AgreedInv' /\ CountdownInv'
    BY <2>3, StoreDeadlineKeeps
  <2>4. CASE WebRequest \/ ScreenRequest
    <3>1. PICK c \in Askers, op \in {"start", "confirm", "abort"} : Ask(c, op)
      BY <2>4 DEF WebRequest, ScreenRequest, Askers
    <3>2. Entering(op).step = "enter" /\ NoCall.step = "none" /\ c \in Callers
      BY DEF Entering, NoCall, Callers
    <3>3. QED
      BY <3>1, <3>2, NewCallKeeps DEF Ask
  <2>5. CASE ResetTick
    <3>1. PICK call : /\ resetCall' = [resetCall EXCEPT !["safety"] = call]
                      /\ \/ call = NoCall
                         \/ call = Ticking(resetState)
                         \/ /\ call = Storing("state", "COUNTDOWN", Countdown)
                            /\ resetState = "CONFIRM2"
      BY <2>5 DEF ResetTick
    <3>2. /\ call.step # "deadline"
          /\ call.step = "ticking" => resetState = call.state
          /\ call.step = "state" =>
               call.state = "COUNTDOWN" /\ resetState = "CONFIRM2" /\ call.due = Countdown
      BY <3>1 DEF Storing, Ticking, NoCall
    <3>3. /\ UNCHANGED <<resetState, timeLeft, agreed, counted, torn>>
          /\ resetCall["safety"].step # "deadline"
          /\ "safety" \in Callers
      BY <2>5 DEF ResetTick, NoCall, Callers
    <3>4. QED
      BY <3>1, <3>2, <3>3, NewCallKeeps
  <2>11. CASE ReadDeadline
    <3> DEFINE safety == resetCall["safety"]
    <3>1. /\ safety.step = "ticking"
          /\ UNCHANGED <<resetState, timeLeft, agreed, counted, torn>>
          /\ "safety" \in Callers
      BY <2>11 DEF ReadDeadline, Callers
    <3>2. timeLeft \in Nat /\ counted \in Nat
      BY ResetAssumption DEF ResetTypeOK, Longest
    <3>3. safety.state \in {"CONFIRM1", "COUNTDOWN"}
      <4>1. \A op : safety # NoCall /\ safety # Entering(op)
        BY <3>1 DEF NoCall, Entering
      <4>2. ASSUME NEW step \in {"state", "deadline"}, NEW state, NEW due
            PROVE  safety # Storing(step, state, due)
        BY <3>1 DEF Storing
      <4>3. PICK state \in {"CONFIRM1", "COUNTDOWN"} : safety = Ticking(state)
        BY <3>1, <4>1, <4>2, CallForms, Zenon
      <4>4. QED
        BY <4>3 DEF Ticking
    <3>4. PICK call : /\ resetCall' = [resetCall EXCEPT !["safety"] = call]
                      /\ \/ call = NoCall
                         \/ call = Storing("state", "IDLE", 0)
                         \/ /\ call = Storing("state", "ERASING", 0)
                            /\ safety.state = "COUNTDOWN" /\ timeLeft = 0
      <4>1. CASE timeLeft # 0
        <5>1. resetCall' = [resetCall EXCEPT !["safety"] = NoCall]
          BY <2>11, <3>2, <4>1 DEF ReadDeadline
        <5>2. QED
          BY <5>1
      <4>2. CASE timeLeft = 0 /\ safety.state = "CONFIRM1"
        <5>1. resetCall' = [resetCall EXCEPT !["safety"] = Storing("state", "IDLE", 0)]
          BY <2>11, <4>2 DEF ReadDeadline
        <5>2. QED
          BY <5>1
      <4>3. CASE timeLeft = 0 /\ safety.state = "COUNTDOWN"
        <5>1. resetCall' = [resetCall EXCEPT !["safety"] = Storing("state", "ERASING", 0)]
          BY <2>11, <4>3 DEF ReadDeadline
        <5>2. QED
          BY <4>3, <5>1
      <4>4. QED
        BY <3>2, <3>3, <4>1, <4>2, <4>3
    <3>5. safety.state = "COUNTDOWN" /\ timeLeft = 0
            => agreed \in {"held", "confirmed"} /\ (~torn => counted >= Countdown)
      BY <3>1, <3>2, ResetAssumption DEF AgreedInv, CountdownInv
    <3>6. /\ call.step \notin {"deadline", "ticking"}
          /\ call.step = "state" =>
               \/ call.state = "IDLE"
               \/ /\ call.state = "ERASING"
                  /\ agreed \in {"held", "confirmed"} /\ (~torn => counted >= Countdown)
      BY <3>4, <3>5 DEF Storing, NoCall
    <3>7. QED
      BY <3>1, <3>4, <3>6, NewCallKeeps
  <2>6. CASE Erase
    BY <2>6 DEF Erase, AgreedInv, CountdownInv, AboutTo, NoCall, Callers
  <2>7. CASE CheckKey
    <3>1. PICK call \in {NoCall, Entering("confirm"), Entering("start")} :
            resetCall' = [resetCall EXCEPT !["safety"] = call]
      BY <2>7 DEF CheckKey, KeyHeld
    <3>2. call.step \in {"none", "enter"}
      BY <3>1 DEF Entering, NoCall
    <3>3. /\ UNCHANGED <<resetState, timeLeft, agreed, counted, torn>>
          /\ resetCall["safety"].step # "deadline"
          /\ "safety" \in Callers
      BY <2>7 DEF CheckKey, NoCall, Callers
    <3>4. QED
      BY <3>1, <3>2, <3>3, NewCallKeeps
  <2>8. CASE ResetTimePasses
    <3>1. \A c \in Callers :
            /\ resetCall'[c].step = resetCall[c].step
            /\ resetCall[c].step \in {"state", "ticking"} =>
                 resetCall'[c].state = resetCall[c].state
      BY <2>8, CallsTyped DEF ResetTimePasses
    <3>2. \A s : \A c \in Callers : AboutTo(c, s)' <=> AboutTo(c, s)
      BY <3>1 DEF AboutTo
    <3>3. resetCall["safety"].step = "none" /\ resetCall'["safety"].step = "none"
      BY <2>8, <3>1 DEF ResetTimePasses, NoCall, Callers
    <3>4. UNCHANGED <<resetState, agreed, torn>>
      BY <2>8 DEF ResetTimePasses
    <3>5. /\ counted + timeLeft >= Countdown => counted' + timeLeft' >= Countdown
          /\ counted >= Countdown => counted' >= Countdown
      BY <2>8, ResetAssumption DEF ResetTimePasses, Lessened, Increased, ResetTypeOK, Longest
    <3>6. AgreedInv'
      BY <3>1, <3>2, <3>4 DEF AgreedInv
    <3>7. CountdownInv'
      BY <3>1, <3>2, <3>3, <3>4, <3>5 DEF CountdownInv, AboutTo, Callers, Askers
    <3>8. QED
      BY <3>6, <3>7
  <2>9. CASE UNCHANGED resetVars
    BY <2>9 DEF resetVars, AgreedInv, CountdownInv, AboutTo
  <2>10. QED
    BY <2>1, <2>2, <2>3, <2>4, <2>5, <2>6, <2>7, <2>8, <2>9, <2>11 DEF ResetNext
<1>3. ResetInv => ErasesOnlyAgreed
  BY DEF ResetInv, AgreedInv, CountdownInv, ErasesOnlyAgreed
<1>4. QED
  BY <1>1, <1>2, <1>3, ResetTypeCorrect, PTL DEF ResetSpec, ResetInv

-----------------------------------------------------------------------------------
(* The heartbeat guard, for any set of tasks, thresholds and width of the  *)
(* counters: typing, and that every hang is found.                         *)

USE GuardAssumption

\* A counter stays in its width, and a count of misses below its cap.
LEMMA CountersStay ==
    /\ 0 \in 0 .. Width - 1 /\ 0 \in 0 .. MissedCap
    /\ \A n \in 0 .. Width - 1 : (n + 1) % Width \in 0 .. Width - 1
    /\ \A n \in 0 .. MissedCap : OneMore(n) \in 0 .. MissedCap
<1>1. \A n \in 0 .. Width - 1 : (n + 1) % Width \in 0 .. Width - 1
  BY SMT
<1>2. \A n \in 0 .. MissedCap : OneMore(n) \in 0 .. MissedCap
  BY SMT DEF OneMore
<1>3. 0 \in 0 .. Width - 1 /\ 0 \in 0 .. MissedCap
  BY SMT
<1>4. QED
  BY <1>1, <1>2, <1>3

\* What a check writes to the counters of a task.
LEMMA StoreTypes ==
    ASSUME GuardTypeOK, NEW t \in GuardTasks
    PROVE  /\ Beaten(t) \in [GuardTasks -> 0 .. Width - 1]
           /\ StoreCount(t) => /\ heartbeat' \in [GuardTasks -> 0 .. Width - 1]
                               /\ lastSeen' \in [GuardTasks -> 0 .. Width - 1]
<1>1. Beaten(t) \in [GuardTasks -> 0 .. Width - 1]
  BY CountersStay DEF GuardTypeOK, Beaten
<1>2. QED
  BY <1>1 DEF GuardTypeOK, StoreCount

\* Type correctness, for every set of tasks and all thresholds.
THEOREM GuardTypeCorrect == GuardSpec => []GuardTypeOK
<1>1. GuardInit => GuardTypeOK
  BY CountersStay, Zenon DEF GuardInit, GuardTypeOK
<1>2. GuardTypeOK /\ [GuardNext]_guardVars => GuardTypeOK'
  <2> SUFFICES ASSUME GuardTypeOK, [GuardNext]_guardVars PROVE GuardTypeOK'
    OBVIOUS
  <2> USE CountersStay, StoreTypes DEF GuardTypeOK
  <2>1. ASSUME NEW t \in GuardTasks, Heartbeat(t) PROVE GuardTypeOK'
    BY <2>1 DEF Heartbeat
  <2>2. ASSUME NEW t \in GuardTasks, CheckAlive(t) PROVE GuardTypeOK'
    BY <2>2 DEF CheckAlive
  <2>3. ASSUME NEW t \in GuardTasks, CheckSilent(t) PROVE GuardTypeOK'
    <3>1. CASE FindsHang(t)
      BY <2>3, <3>1 DEF CheckSilent, Report
    <3>2. CASE ~FindsHang(t)
      BY <2>3, <3>2 DEF CheckSilent
    <3>3. QED
      BY <3>1, <3>2
  <2>4. CASE GuardModeChange
    BY <2>4 DEF GuardModeChange
  <2>5. CASE UNCHANGED guardVars
    BY <2>5 DEF guardVars
  <2>6. QED
    BY <2>1, <2>2, <2>3, <2>4, <2>5 DEF GuardNext
<1>3. QED
  BY <1>1, <1>2, PTL DEF GuardSpec

-----------------------------------------------------------------------------------
(* That missed_beats is never reset is what makes the guard sound: it      *)
(* counts at least the checks of the hang that goes on.                    *)

GuardInv ==
    /\ GuardTypeOK
    /\ \A t \in GuardTasks : /\ silent[t] <= missed[t]
                             /\ alarmed[t] => reported[t]
    /\ HangFound

\* A hung task is found at its threshold at the latest, whatever happened
\* before: safety task and guard of task_safety_core_fn, for every task.
THEOREM EveryHangFound == GuardSpec => []HangFound
<1>1. GuardInit => GuardInv
  <2>1. GuardInit => GuardTypeOK
    BY CountersStay, Zenon DEF GuardInit, GuardTypeOK
  <2>2. ASSUME GuardInit, NEW t \in GuardTasks
        PROVE  silent[t] = 0 /\ missed[t] = 0 /\ ~alarmed[t] /\ Threshold[t] > 0
    BY <2>2 DEF GuardInit
  <2>3. QED
    BY <2>1, <2>2 DEF GuardInv, HangFound
<1>2. GuardInv /\ GuardTypeOK' /\ [GuardNext]_guardVars => GuardInv'
  <2> SUFFICES ASSUME GuardInv, GuardTypeOK', [GuardNext]_guardVars,
                      NEW t \in GuardTasks
               PROVE  /\ silent'[t] <= missed'[t]
                      /\ alarmed'[t] => reported'[t]
                      /\ silent'[t] >= Threshold[t] => reported'[t]
    BY DEF GuardInv, HangFound
  <2> USE DEF GuardInv, GuardTypeOK, HangFound
  <2>1. ASSUME NEW u \in GuardTasks, Heartbeat(u)
        PROVE  /\ silent'[t] <= missed'[t]
               /\ alarmed'[t] => reported'[t]
               /\ silent'[t] >= Threshold[t] => reported'[t]
    BY <2>1 DEF Heartbeat
  <2>2. ASSUME NEW u \in GuardTasks, CheckAlive(u)
        PROVE  /\ silent'[t] <= missed'[t]
               /\ alarmed'[t] => reported'[t]
               /\ silent'[t] >= Threshold[t] => reported'[t]
    BY <2>2 DEF CheckAlive
  <2>3. ASSUME NEW u \in GuardTasks, CheckSilent(u)
        PROVE  /\ silent'[t] <= missed'[t]
               /\ alarmed'[t] => reported'[t]
               /\ silent'[t] >= Threshold[t] => reported'[t]
    <3>1. CASE u # t
      BY <2>3, <3>1 DEF CheckSilent, Report
    <3>2. CASE u = t
      <4>1. /\ missed'[t] = OneMore(missed[t])
            /\ silent'[t] = 0 \/ silent'[t] = OneMore(silent[t])
        BY <2>3, <3>2 DEF CheckSilent
      <4>2. silent'[t] <= missed'[t]
        BY <4>1 DEF OneMore
      <4>3. alarmed'[t] => reported'[t]
        BY <2>3, <3>2 DEF CheckSilent, Report
      <4>4. ASSUME silent'[t] >= Threshold[t] PROVE reported'[t]
        <5>1. OneMore(missed[t]) >= Threshold[t]
          BY <4>1, <4>2, <4>4
        <5>2. CASE alarmed[t]
          BY <2>3, <3>2, <5>2 DEF CheckSilent, FindsHang
        <5>3. CASE ~alarmed[t]
          BY <2>3, <3>2, <5>1, <5>3 DEF CheckSilent, FindsHang, Report
        <5>4. QED
          BY <5>2, <5>3
      <4>5. QED
        BY <4>2, <4>3, <4>4
    <3>3. QED
      BY <3>1, <3>2
  <2>4. CASE GuardModeChange
    BY <2>4 DEF GuardModeChange
  <2>5. CASE UNCHANGED guardVars
    BY <2>5 DEF guardVars
  <2>6. QED
    BY <2>1, <2>2, <2>3, <2>4, <2>5 DEF GuardNext
<1>3. GuardInv => HangFound
  BY DEF GuardInv
<1>4. QED
  BY <1>1, <1>2, <1>3, GuardTypeCorrect, PTL DEF GuardSpec

-----------------------------------------------------------------------------------
(* The controllers side by side: what each does alone it does in any of    *)
(* the behaviours of MCControllers, so what is proved of it holds there.   *)

LEMMA EachDoesItsOwn ==
    MCSpec => /\ RelaySpec /\ AtoSpec /\ ElectricSpec /\ FeedSpec
              /\ PlugSpec /\ ConfigSpec /\ FlapSpec /\ GuardSpec /\ ResetSpec
<1>1. MCInit => /\ RelayInit /\ AtoInit /\ ElectricInit /\ FeedInit
                /\ PlugInit /\ ConfigInit /\ FlapInit /\ GuardInit /\ ResetInit
  BY DEF MCInit
<1> DEFINE all == <<relayVars, atoVars, electricVars, feedVars, plugVars,
                    configVars, flapVars, guardVars, resetVars, focus>>
           EachStep == /\ [RelayNext]_relayVars
                       /\ [AtoNext]_atoVars /\ [ElectricNext]_electricVars
                       /\ [FeedNext]_feedVars /\ [PlugNext]_plugVars
                       /\ [ConfigNext]_configVars /\ [FlapNext]_flapVars
                       /\ [GuardNext]_guardVars /\ [ResetNext]_resetVars
<1>2. [MCNext]_all => EachStep
  <2> SUFFICES ASSUME [MCNext]_all PROVE EachStep
    OBVIOUS
  <2>1. CASE UNCHANGED all
    BY <2>1
  <2>2. CASE RelayMoves
    BY <2>2 DEF RelayMoves
  <2>3. CASE AtoMoves \/ ElectricMoves \/ FeedMoves \/ PlugMoves
    BY <2>3 DEF AtoMoves, ElectricMoves, FeedMoves, PlugMoves
  <2>4. CASE ConfigMoves \/ FlapMoves \/ GuardMoves \/ ResetMoves
    BY <2>4 DEF ConfigMoves, FlapMoves, GuardMoves, ResetMoves
  <2>5. QED
    BY <2>1, <2>2, <2>3, <2>4 DEF MCNext
<1>3. QED
  BY <1>1, <1>2, PTL
  DEF MCSpec, RelaySpec, AtoSpec, ElectricSpec, FeedSpec, PlugSpec, ConfigSpec, FlapSpec,
      GuardSpec, ResetSpec

\* Type correctness of the relay route and of all the controllers (drivers/, fsm/,
\* services/ and core/).
THEOREM ControllersTypeCorrect == MCSpec => []ControllersTypeOK
<1>1. (/\ RelayTypeOK /\ AtoTypeOK /\ ElectricTypeOK /\ FeedTypeOK
       /\ PlugTypeOK /\ ConfigTypeOK /\ FlapTypeOK /\ GuardTypeOK /\ ResetTypeOK)
          => ControllersTypeOK
  BY DEF ControllersTypeOK
<1>2. QED
  BY <1>1, EachDoesItsOwn, RelayTypeCorrect, AtoTypeCorrect, ElectricTypeCorrect,
     FeedTypeCorrect, PlugTypeCorrect, ConfigTypeCorrect, FlapTypeCorrect, GuardTypeCorrect,
     ResetTypeCorrect, PTL
===================================================================================
