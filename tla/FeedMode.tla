-------------------------------- MODULE FeedMode --------------------------------
(***************************************************************************)
(* Feed Mode: the machine fsm/feed_fsm.c, the function of the safety task  *)
(* that drives it and keeps its snapshot (update_feed_snapshot of          *)
(* app_main.c), and the snapshot itself (services/feed_snapshot.c).        *)
(*                                                                         *)
(* One iteration of the safety task is two steps: feed_fsm_update and      *)
(* update_feed_snapshot.  Requests, a configuration change and a change of *)
(* the mode come from other tasks, or from the rest of the iteration, and  *)
(* fall between them.  Power may be lost at any point.                     *)
(*                                                                         *)
(* A time unit is longer than HW_FEED_SNAPSHOT_INTERVAL_MS, so a snapshot  *)
(* is due when any unit has passed since the last one.  The masks are one  *)
(* bit: whether some pump was on when the feeding began.  `snapshot' tells *)
(* whether the record in flash is of the feeding under way: one that       *)
(* cannot be erased (nobody looks at the result) is not.                   *)
(***************************************************************************)
EXTENDS Integers

CONSTANTS
    FeedParams,      \* [duration, cooldown] that may be configured
    Hour,            \* MS_PER_HOUR
    MaxFeedsPerHour, \* MAX_FEEDS_PER_HOUR
    FeedAgeCap,      \* ages are not told apart above this one
    MaxIteration     \* longest time between two iterations of the task

ASSUME FeedAssumption ==
    /\ Hour \in Nat \ {0}
    /\ MaxFeedsPerHour \in Nat \ {0}
    /\ FeedAgeCap \in Nat
    /\ FeedAgeCap >= Hour
    /\ MaxIteration \in Nat
    /\ FeedParams \subseteq [duration : 1 .. FeedAgeCap, cooldown : 0 .. FeedAgeCap]

VARIABLES
    feedMode,    \* g_gs.system_state: NORMAL, DEGRADED, or above (PROTECTED)
    feedParams,  \* duration_s, cooldown_s
    feedState,   \* s_feed_fsm.state
    stateAge,    \* now - state_started_ms
    feedCount,   \* feed_count_1h
    windowAge,   \* now - window_start_1h_ms
    preFeedOn,   \* pre_feed_on_mask & pumps_off_mask, not empty
    savedAge,    \* now - s_last_feed_snap_ms, or Never for 0
    prevFeed,    \* s_prev_feed_state
    feedRequest, \* g_feed_request
    exitRequest, \* g_feed_exit_request
    snapshot,    \* NVS has a record of the feeding under way
    saveLost,    \* history: the last save failed, which nobody notices
    feedPc,      \* the call the safety task makes next
    credit       \* history: feedings begun less restorations of their pumps

feedVars == <<feedMode, feedParams, feedState, stateAge, feedCount, windowAge,
              preFeedOn, savedAge, prevFeed, feedRequest, exitRequest, snapshot,
              saveLost, feedPc, credit>>

Never == -1

FeedStates == {"IDLE", "ACTIVE", "COOLDOWN"}

FeedAges == 0 .. FeedAgeCap

FeedTypeOK ==
    /\ feedMode \in {"NORMAL", "DEGRADED", "PROTECTED"}
    /\ feedParams \in FeedParams
    /\ feedState \in FeedStates
    /\ stateAge \in FeedAges
    /\ feedCount \in 0 .. MaxFeedsPerHour
    /\ windowAge \in FeedAges
    /\ preFeedOn \in BOOLEAN
    /\ savedAge \in FeedAges \cup {Never}
    /\ prevFeed \in FeedStates
    /\ feedRequest \in BOOLEAN
    /\ exitRequest \in BOOLEAN
    /\ snapshot \in BOOLEAN
    /\ saveLost \in BOOLEAN
    /\ feedPc \in {"update", "snapshot"}
    /\ credit \in Int

FeedInit ==
    /\ feedMode \in {"NORMAL", "DEGRADED"}
    /\ feedParams \in FeedParams
    /\ feedState = "IDLE"
    /\ stateAge = 0
    /\ feedCount = 0
    /\ windowAge = 0
    /\ preFeedOn = FALSE
    /\ savedAge = Never
    /\ prevFeed = "IDLE"
    /\ feedRequest = FALSE
    /\ exitRequest = FALSE
    /\ snapshot = FALSE
    /\ saveLost = FALSE
    /\ feedPc = "update"
    /\ credit = 0

---------------------------------------------------------------------------------
(* feed_fsm_update, at the beginning of an iteration `gap' after the last.  *)

FeedAged(age, gap) ==
    CASE age = Never -> Never
      [] age # Never /\ age + gap <= FeedAgeCap -> age + gap
      [] age # Never /\ age + gap > FeedAgeCap -> FeedAgeCap

StateOver(age) ==
    \/ feedState = "ACTIVE" /\ age >= feedParams.duration
    \/ feedState = "COOLDOWN" /\ age >= feedParams.cooldown

StateAfter(age) ==
    CASE ~StateOver(age) -> feedState
      [] StateOver(age) /\ feedState = "ACTIVE" -> "COOLDOWN"
      [] StateOver(age) /\ feedState # "ACTIVE" -> "IDLE"

UpdateFeed(gap) ==
    LET age == FeedAged(stateAge, gap)
        window == FeedAged(windowAge, gap)
        over == feedCount > 0 /\ window >= Hour
    IN  /\ feedPc = "update"
        /\ feedPc' = "snapshot"
        /\ feedState' = StateAfter(age)
        /\ stateAge' = IF StateOver(age) \/ feedState = "IDLE" THEN 0 ELSE age
        /\ feedCount' = IF over THEN 0 ELSE feedCount
        /\ windowAge' = IF over \/ feedCount = 0 THEN 0 ELSE window
        /\ savedAge' = FeedAged(savedAge, gap)
        /\ UNCHANGED <<feedMode, feedParams, preFeedOn, prevFeed, feedRequest,
                       exitRequest, snapshot, saveLost, credit>>

---------------------------------------------------------------------------------
(* update_feed_snapshot.                                                    *)

\* SAFE_OFF and EMERGENCY end the feeding and forget the request; the state
\* of the last iteration is not brought up to date.
AbortProtected ==
    /\ feedPc = "snapshot"
    /\ feedMode = "PROTECTED"
    /\ IF feedState # "IDLE"
       THEN snapshot' = FALSE /\ savedAge' = Never
       ELSE UNCHANGED <<snapshot, savedAge>>
    /\ feedState' = "IDLE"
    /\ stateAge' = 0
    /\ feedRequest' = FALSE
    /\ feedPc' = "update"
    /\ UNCHANGED <<feedMode, feedParams, feedCount, windowAge, preFeedOn, prevFeed,
                   exitRequest, saveLost, credit>>

SaveDue == feedState # "IDLE" /\ (savedAge = Never \/ savedAge > 0)

ClearDue == feedState = "IDLE" /\ savedAge # Never

Exits == exitRequest /\ feedState # "IDLE"

AfterExit == IF Exits THEN "IDLE" ELSE feedState

MayStartOnceMore ==
    /\ AfterExit = "IDLE"
    /\ feedCount <= MaxFeedsPerHour \/ windowAge >= Hour

\* feed_fsm_can_start: a feeding that was aborted is not given back.
MayStart ==
    /\ AfterExit = "IDLE"
    /\ feedCount < MaxFeedsPerHour \/ windowAge >= Hour

Starts == feedRequest /\ feedMode = "NORMAL" /\ MayStart

AfterRequest == IF Starts THEN "ACTIVE" ELSE AfterExit

\* Variant: the record is first made with the periodic ones.
SnapshotSavedLate(stored) ==
    CASE Exits -> FALSE
      [] ~Exits /\ SaveDue -> stored \/ snapshot
      [] ~Exits /\ ClearDue -> FALSE
      [] OTHER -> snapshot

\* The save of the start, or the periodic one, which leaves an earlier record of the
\* same feeding when it fails.  What is saved before an exit is erased by it.
SnapshotAfter(stored) ==
    CASE Starts -> stored
      [] ~Starts /\ Exits -> FALSE
      [] ~Starts /\ ~Exits /\ SaveDue -> stored \/ snapshot
      [] ~Starts /\ ~Exits /\ ClearDue -> FALSE
      [] OTHER -> snapshot

\* The time of the last save is taken whether or not it failed.
SavedAgeAfter ==
    CASE Starts \/ SaveDue -> 0
      [] ~Starts /\ ClearDue -> Never
      [] OTHER -> savedAge

\* The edge that gives the pumps back: feeding in the last iteration, idle now.
RestoresPumps ==
    /\ prevFeed # "IDLE"
    /\ AfterRequest = "IDLE"
    /\ preFeedOn

RememberLast == prevFeed' = (IF prevFeed # "IDLE" THEN prevFeed ELSE AfterRequest)

Remember == prevFeed' = AfterRequest

\* pre_feed_on_mask is what is on at the start: any value.  Whether a save is stored
\* makes no other difference: feed_snapshot_save's result is dropped.
UpdateSnapshot(stored) ==
    /\ feedPc = "snapshot"
    /\ feedMode # "PROTECTED"
    /\ feedState' = AfterRequest
    /\ stateAge' = IF Starts \/ Exits THEN 0 ELSE stateAge
    /\ feedCount' = feedCount + (IF Starts THEN 1 ELSE 0)
    /\ windowAge' = IF Starts /\ feedCount = 0 THEN 0 ELSE windowAge
    /\ preFeedOn' \in IF Starts THEN BOOLEAN ELSE {preFeedOn}
    /\ snapshot' = SnapshotAfter(stored)
    /\ saveLost' = IF Starts \/ SaveDue THEN ~stored ELSE saveLost
    /\ savedAge' = SavedAgeAfter
    /\ exitRequest' = FALSE
    /\ feedRequest' = (feedRequest /\ feedMode # "NORMAL")
    /\ Remember
    /\ credit' = IF Starts THEN 1 ELSE IF RestoresPumps THEN credit - 1 ELSE credit
    /\ feedPc' = "update"
    /\ UNCHANGED <<feedMode, feedParams>>

---------------------------------------------------------------------------------
(* The other tasks.                                                         *)

\* command_dispatcher, api_rest, ui_events: the flag, and no more.
RequestFeed ==
    /\ ~feedRequest
    /\ feedRequest' = TRUE
    /\ UNCHANGED <<feedMode, feedParams, feedState, stateAge, feedCount, windowAge,
                   preFeedOn, savedAge, prevFeed, exitRequest, snapshot, saveLost,
                   feedPc, credit>>

RequestExit ==
    /\ ~exitRequest
    /\ exitRequest' = TRUE
    /\ UNCHANGED <<feedMode, feedParams, feedState, stateAge, feedCount, windowAge,
                   preFeedOn, savedAge, prevFeed, feedRequest, snapshot, saveLost,
                   feedPc, credit>>

FeedModeChange ==
    /\ feedMode' \in {"NORMAL", "DEGRADED", "PROTECTED"} \ {feedMode}
    /\ UNCHANGED <<feedParams, feedState, stateAge, feedCount, windowAge, preFeedOn,
                   savedAge, prevFeed, feedRequest, exitRequest, snapshot, saveLost,
                   feedPc, credit>>

\* feed_fsm_init: what the machine remembers is gone, and the masks with it.
FeedForgotten(params) ==
    /\ feedParams' = params
    /\ feedState' = "IDLE"
    /\ stateAge' = 0
    /\ feedCount' = 0
    /\ windowAge' = 0
    /\ preFeedOn' = FALSE

\* on_config_changed, after any setting was stored.
ReloadFeed(params) ==
    /\ FeedForgotten(params)
    /\ UNCHANGED <<feedMode, savedAge, prevFeed, feedRequest, exitRequest, snapshot,
                   saveLost, feedPc, credit>>

\* Power is lost.  feed_snapshot_restore gets 0 for the time: it discards
\* what it finds, as too old or for want of a clock.
FeedPowerCut ==
    /\ FeedForgotten(feedParams)
    /\ feedMode' \in {"NORMAL", "DEGRADED"}
    /\ savedAge' = Never
    /\ prevFeed' = "IDLE"
    /\ feedRequest' = FALSE
    /\ exitRequest' = FALSE
    /\ snapshot' = FALSE
    /\ saveLost' = FALSE
    /\ feedPc' = "update"
    /\ credit' = 0

FeedNext ==
    \/ \E gap \in 0 .. MaxIteration : UpdateFeed(gap)
    \/ AbortProtected
    \/ \E stored \in BOOLEAN : UpdateSnapshot(stored)
    \/ RequestFeed
    \/ RequestExit
    \/ FeedModeChange
    \/ \E params \in FeedParams : ReloadFeed(params)
    \/ FeedPowerCut

FeedSpec == FeedInit /\ [][FeedNext]_feedVars

---------------------------------------------------------------------------------
(***************************************************************************)
(* A feeding, or its cooldown, is on record in the first iteration already *)
(* and for as long as it lasts, in every interleaving of exits, reloads    *)
(* and aborts, unless the last attempt to save it failed (the first half   *)
(* of RF-PLUG-006; the other half, that power coming back restores it, the *)
(* code does not do, see FeedPowerCut).                                    *)
(***************************************************************************)
FeedOnRecord == feedState # "IDLE" => snapshot \/ saveLost

(***************************************************************************)
(* The pumps of a feeding are switched back on once at most, whatever ends *)
(* it -- also when a SAFE_OFF leaves the edge to be found after it.        *)
(***************************************************************************)
RestoreOnce == credit >= 0
=================================================================================
