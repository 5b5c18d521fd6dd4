# TLA+ verification of the DDIno aquarium monitor

DDIno is the firmware of an ESP32-S3 that watches an aquarium and switches its
ten mains plugs: heater, cooler, top-up pump (ATO), circulation, lights. What
must not go wrong is the protection around the relays: when a fault is found,
power has to be cut, stay cut until the cause is gone and an operator agreed,
and come back in an orderly sequence. This directory models that protection in
TLA+, checks it with TLC and proves parts of it with TLAPS.

All paths below are relative to `src/firmware/`.

## 1. The system

### Tasks

| task | priority, core | what it does |
|---|---|---|
| `safety_core` | 10, core 1 | every 50 ms: heartbeats, exits of the protected states, thermal/ATO/electric/feed machines, evaluation, plug tick, alarms |
| `sensors` | 9, core 1 | every 200 ms: reads every sensor |
| `plug_control` | 8, core 1 | every 100 ms: `plug_manager_tick` |
| `storage` | 6, core 1 | rings, SD card |
| `ui`, `web`, `diag` | 5, 4, 2, core 0 | screens, REST API, statistics |

The tasks share the global state `g_gs`, the sensor record, the circuit
breakers, the relay tables and the plug models, nearly always without a lock.
`safety_core` and `sensors` both read the sensors; `safety_core` and
`plug_control` both run the plug tick; web and UI switch plugs, acknowledge
alarms, change the configuration and start restarts from the other core. A
change of configuration is published on the event bus, and its subscriber
re-initialises the machines of the safety loop from the publisher's task.

### Components

| component | state | operations | what makes it correct | where |
|---|---|---|---|---|
| global state machine (`core/safety_controller.c`) | mode, cause, source alarm, power permission | enter NORMAL / DEGRADED / SAFE_OFF / EMERGENCY, evaluate, can-exit tests | severity is respected; mode, cause and power agree; only an acknowledged, resolved, stabilised SAFE_OFF is left | `SafetyCore`, `SafetyModes` |
| safety loop (`main/app/app_main.c`) | resolution timers, previous mode | watchdog reaction, exit handlers, order of the steps | the handlers compose whatever comes between them | `SafetyCore` |
| acknowledgement (`services/safe_state_ack.c`) | two flags | acknowledge, clear on entry | an acknowledgement counts for the protected state it was given in | `AlertAck`, `SafetyCore` |
| restart sequence (`fsm/restart_fsm.c`) | state, entry time, next relay, blocked mask | start, update, abort, mask | relays are offered one by one, never early; it ends; the plugs come back in its order | `RestartFsm`, `RestartRelays` |
| relay route (`drivers/relay_abstraction.c`, `driver_relay.c`, `driver_mcp23017.c`) | table, driver word, contacts | set, all_off | heater and cooler exclude each other; a protected state cuts power; the three records agree | `RelayGate` |
| circuit breakers (`core/circuit_breaker.c`) | state, counters, time of opening | record success / failure, update, is_available | opens after a streak, rests, closes after confirmation, comes back | `CircuitBreaker` |
| plug manager (`services/plug_manager.c`) | ten plug models, timers, restart mask | tick, toggle, block, feed hold, safe off | minimum times, precedence of block over manual over automatic | `PlugManager`, `RestartRelays` (several plugs and the mask), `RelayGate` (route) |
| alert manager, alarm monitor | 32 slots, ack stages | raise, clear, ack in two stages | a pending critical alarm is never lost nor acknowledged by half | `AlertAck` |
| SAFE_OFF records, audit log | records in NVS | record, close | nothing decides on them while running | not modelled |
| thermal, ATO, electric, feed machines | state, timers, latches | update with one sample | latches hold, timeouts count only what they should | `AtoFsm`, `ElectricFsm`, `FeedMode`; latch of thermal in `SafetyCore` |
| configuration (`services/config_*.c`) | RAM copies, root and blobs in NVS | set, import, save, boot load | RAM and the two stored copies agree after a crash | `ConfigStore` |
| storage, SD card, logs | rings, files | append, flush, replace | overwrite at the limit, nothing half written | not modelled |
| factory reset (`services/reset_handler.c`) | state, deadline | start, confirm, abort, tick, key | no erase without two confirmations and a countdown | `ResetHandler` |
| event bus, pending actions | subscriber table, ring | subscribe, publish, enqueue, retry | nothing lost silently | not modelled: one subscriber, and the pending list is never filled |
| heartbeat guard (`services/watchdog_guard.c`) | beat counters | beat, check | a hang is found, however often before | `HeartbeatGuard`; its verdict is an input of `SafetyCore` |
| anti-flap (`core/global_state.c`) | counter, two times | allow, commit | limits the moves, delays none for long | `AntiFlap`; its verdict is an input of `SafetyCore` |
| web API, authentication, rate limiter | sessions, buckets | commands, login | guards of the commands | restart, acknowledgement and reset commands in the modules they act on |
| sensor drivers, time, Wi-Fi, displays, UI | device state | read, draw | I/O | a reading is an input; otherwise not modelled |

### What is hard here

* *Interleaving without locks*: acknowledgements, restart commands and
  configuration changes arrive between any two steps of the safety loop; a
  relay request may have passed its check when SAFE_OFF is entered; two tasks
  record results in the same breaker.
* *Two clocks*: `now_s` is truncated from `now_ms` and both are mixed in
  unsigned subtractions.
* *Partial failure*: an I2C write fails after the driver's state word has
  already been changed.
* *Suspension*: EMERGENCY suspends a restart sequence without ending it.
* *Crash and restart*: configuration and the feed snapshot survive a restart,
  and power may go between any two writes.
* *Counters and clocks at their edge*: windows that stand still, counters that
  wrap or are never reset, timers that an early return leaves running.
* *Requests in stages*: a critical alarm takes two acknowledgements and a
  factory reset two confirmations, each a request of its own, and what they are
  about may change in between.

`PROJECT.json` lists these hazards one by one with their source lines and the
properties that cover them, or the reason why none does.

## 2. The modules

| module | models | state ↔ code |
|---|---|---|
| `SafetyModes` | what the mode machine promises, as an abstract specification | mode, "acknowledged", "rearming" |
| `SafetyCore` | `safety_controller.c`, the exit handlers, the watchdog reaction and the evaluation in `app_main.c`, `safe_state_ack.c`, the forced transitions of `alm_monitor.c` | one variable per global or static that these functions read and write; comments name each |
| `SafetyCoreProofs`, `RelayGateProofs` | theorems about `SafetyCore` and `RelayGate` | |
| `RestartFsm` | `restart_fsm.c` and how `handle_safeoff_exit` drives it | the fields of `g_restart_fsm`, the progress flag, the plug manager's restart mask |
| `RestartRelays` | `RestartFsm` beside `plug_manager_tick` and the gate, for several plugs | the relays, the age of `s_last_toggle_ms` |
| `CircuitBreaker` | one breaker (`circuit_breaker.c`) and the two tasks that read the DS18B20 | the fields of the breaker; where each task is |
| `RelayGate` | `relay_abstraction_set` / `_all_off` and the driver calls beneath | `s_states`, `s_relay_state`, the contacts; where each task is in its call |
| `AlertAck` | `alert_manager.c`, `safe_state_ack.c`, the acknowledgement handlers of `api_rest.c` and `ui_events.c`, the raises and withdrawals of the safety task | slots by instance (alarm, plug), ack stages, the two flags, where the handler is |
| `PlugManager` | one plug of `plug_manager.c`, the two tasks that tick it, the hand, the restart mask | fields of the plug and of its hold, the relay, where each caller is and what it has read or decided |
| `AtoFsm` | `fsm/ato_fsm.c` | the fields of its handle and of its last output |
| `ElectricFsm` | `services/electric_fsm.c` | one timer per condition, state, forced SAFE_OFF |
| `FeedMode` | `fsm/feed_fsm.c`, `update_feed_snapshot`, `feed_snapshot.c` | the handle, the two request flags, the masks, the snapshot in NVS |
| `ConfigStore` | setters, `save_all` and start of `config_manager.c`, `config_root.c`, import | RAM, root image, blobs, where each writer is |
| `AntiFlap` | the brake in `global_state.c` as the evaluation uses it | times of the last transition and of the window, count |
| `HeartbeatGuard` | `watchdog_guard.c` and the reaction to it | counters, last seen, misses, alarmed |
| `ResetHandler` | `reset_handler.c`, its callers on the web, the screen and the key | state, time left, where each task is in its call, the key |
| `RestartFsmProofs`, `CircuitBreakerProofs`, `AlertAckProofs`, `ConfigStoreProofs` | theorems about one module each | |
| `MachinesProofs` | theorems about `AtoFsm`, `ElectricFsm` and `PlugManager` | |
| `ControllersProofs` | theorems about `FeedMode`, `AntiFlap`, `HeartbeatGuard` and `ResetHandler`, and about the composition `MCControllers` | |
| `MCLoop`, `MCControllers` | the compositions that the passing runs check: four and nine modules side by side, with their constants | |
| `MCSafetyCore`, `MCRestartFsm`, `MCRestartRelays`, `MCAlertAck` | constants for the violated runs of one module | |

**SafetyCore.** One iteration of `task_safety_core_fn` is the cycle watchdog →
emergency exit → SAFE_OFF exit → evaluate → monitor → delay, one action per
branch; requests of other tasks may come between any two. Sensor readings, the
probes of ATO, electric and configuration, and the anti-flap gate are chosen
freely at each step, since another task writes them at any time; the thermal
latch and the forced emergency are state. Time is counted in iterations and
`tick` is the iteration within the second, which is all that the truncation in
`now_s` depends on. `StableFor` is the unsigned subtraction of the code.
A configuration reload re-initialises the restart machine; it keeps the thermal
latch (`thermal_fsm_set_config` replaces only the limits), and the electric and
feed machines it also re-initialises are inputs here.

`SafetyModes` is the abstract specification of `SafetyCore`, written from the
SRS (4.3, 4.5, 4.7): an EMERGENCY steps down to SAFE_OFF only acknowledged, a
SAFE_OFF is left only by a finished sequence, and a sequence begins only in an
acknowledged SAFE_OFF. `ImplementsModes` maps `safeoffAck` to "acknowledged" and
"the sequence is not IDLE" to "rearming". The code does not implement it: the
reaction to a hung task enters SAFE_OFF in any mode (`app_main.c:883`). That step is
`HangLowersEmergency`, `modes_hang` exhibits it, and `ModesKeptButForHangs` says
that it is the only one.

**RestartFsm** refines what `SafetyCore` abstracts to RUNNING: wait, one relay
per stagger interval with blocked ones skipped, monitoring. Two details of the
code are kept on purpose: `restart_fsm_start` clears the blocked mask that was
stored just before (restart_fsm.c:37), and the numbers of
`RELAY_ENERGIZE_ORDER`, which count from 1, are used as bit numbers, which count
from 0. `app_main.c:395` calls `restart_fsm_update` with four arguments and uses
a result, while `restart_fsm.c:40` takes two and returns nothing; the model
follows the caller, where the result reports an overcurrent.

**RestartRelays.** The mask of the sequence makes `plug_manager_tick` try to switch
relays on, and `relay_abstraction_set` refuses every ON in SAFE_OFF, where the whole
sequence runs. A refused attempt counts as a toggle all the same. What the sequence
paces are therefore offers, and `Paced` speaks of no more; what becomes of them
is `GroupByGroup`, which is violated.

**CircuitBreaker.** The safety task has the higher priority on the same core: it can
interrupt the sensors task anywhere, and is not interrupted by it. Its own records
are one step each; those of the sensors task are cut at every load and store, so that
an increment may be lost and an update may see OPEN with the old time of opening.
The history `cutInto` tells whether the safety task has stored anything in the middle
of such a record since the last uninterrupted success in CLOSED; three more (age of
the OPEN state, successes since HALF_OPEN, failures in a row) serve the properties.

**RelayGate.** Every access to a shared record is a step of its own, and calls of
different tasks overlap in every way, as neither `relay_abstraction.c` nor
`driver_relay.c` takes a lock. The history `overlap` tells whether two calls have
overlapped since the last `all_off` that ran by itself, which mends what they left. An
I2C write may fail (`MaxFaults` bounds how often) and the expander may be missing since
boot. Left out: BLOCKED (no caller of `set_blocked`), the 500 ms lockout,
self-test and monitor-only refusals, which only refuse more.

**AlertAck.** The lookups of the table let an instance, an alarm with its plug,
have one slot at most, so the table is a function of the instances; of the order
of the slots only `head` matters, the plug whose slot a lookup by number finds.
A request is split where its handler reads and writes: listed, looked up, stage
recorded, slot marked, judged, stored; the safety task, which runs on the other
core, may raise and withdraw in between any two. A request for all numbers looks
each up when its turn comes. The stage of a double acknowledgement is a second table
with a key of its own, written without looking whether the alarm is there still: the
history `crossed` holds the alarms that were withdrawn in the middle of a request on
them, until they are withdrawn once more and their stage goes for good. `acts`
counts, for the properties only, the requests about this occurrence.

**PlugManager.** `plug_manager_tick` treats each plug by itself, so one plug of
any type stands for all. Three callers work on it without a lock: the safety task,
the `plug_control` task, whose arguments are read before the call, and the hand (web,
screen, or the end of a feeding). Each first decides, then switches the relay, then
notes the time, and the others may come between. The check for overcurrent, with
the switch-off it makes at once, is within the decision. Ticks go by whole seconds and
hands by milliseconds, and `lag` is how far the time of a caller is behind. The
subtraction is unsigned: a toggle that seems to lie in the future is infinitely
old. A hand that is refused notes no time; a tick always does.

**AtoFsm, ElectricFsm.** One action per branch of the update, in the order of the
code, with the time since the last call as input. `refill_started_ms` and
`low_since_ms` are always set and cleared together, so `refillAge` is the age of
both. In `ElectricFsm` the first check that acts returns, and the timers after it
go on as they were. `pumped`, `risen`, `seen` and `quiet` are histories.

**FeedMode.** One iteration is two steps, `feed_fsm_update` and
`update_feed_snapshot`; requests, reloads and mode changes fall between them, and
power may be lost anywhere. Saving the snapshot may fail, which the code does not
look at (`app_main.c:625`, `:650`): the history `saveLost` tells whether the last save
did. The restoration at boot passes 0 for the time (`app_main.c:1330`), its
comparison wraps, and the snapshot found is always discarded: `FeedPowerCut` models
just that.

**ConfigStore.** A setting has three copies: RAM, blob, and the root image of all
settings that the start prefers. A setter changes RAM, copies all settings,
writes the root image, then the blob; either write may fail. An import sets every
setting, saves all once more and on an error sets everything back. Two writers
overlap, power may go between any two writes. `save_nvs_blob` ignores the result of
`nvs_commit` (`config_manager.c:213`), so a blob may be answered with OK and not be
stored: the history `lost` names the settings for which that happened. Only an
operation that no other overlapped promises anything (`promised`).

**AntiFlap, HeartbeatGuard.** `AntiFlap` counts refused attempts too, as the code
does, and `granted` holds the ages of the last moves allowed, twice as many as
the limit. `HeartbeatGuard` has
beats that wrap after `Width` values, a check that reads a counter twice without
a lock, and misses that are never reset.

**ResetHandler.** Every call decides on a state it read (the tick reads the deadline
after it), stores a state, then stores a deadline, and calls of three tasks come between each other's stores.
`agreed` is what the operator has said since the last abort or timeout that no
other call overlapped, `torn` whether calls have overlapped since the start.
After the key has been held long enough to start a reset, `s_was_up_held` is
cleared while the key is still down, so that the next iteration takes it for the
confirmation (`app_main.c:489`). The model does the same and keeps such a reset apart
as agreed by `held`; the history `kept` tells a kept press from a new one.

## 3. What is checked

Two runs hold what the code keeps, ten show one sentence of the repository each
that it does not keep.

| run | instance | result |
|---|---|---|
| `loop` | `SafetyCore`, `RestartFsm`, `CircuitBreaker`, `AlertAck`, some 400 000 states | all hold, see below |
| `controllers` | `RelayGate`, `AtoFsm`, `ElectricFsm`, `FeedMode`, `PlugManager`, `ConfigStore`, `AntiFlap`, `HeartbeatGuard`, `ResetHandler`, some 1 500 000 states | all hold, see below |
| `stabilised` | `SafetyCore`, 2 s stabilisation | **violated**: the sequence starts in the iteration in which the cause is seen gone |
| `exit_ack` | `SafetyCore`, 2 s stabilisation | **violated**: a sequence interrupted by an EMERGENCY ends the next, unacknowledged SAFE_OFF |
| `modes_hang` | `SafetyCore` against `SafetyModes` | **violated**: a hung task lowers an EMERGENCY that lasts |
| `restart_stuck` | `RestartFsm`, restart command only | **violated**: the progress flag set by the API is never withdrawn |
| `restart_together` | `RestartRelays`, a heater and a filter | **violated**: what the sequence offers in turn comes back in one tick |
| `circuit_breaker_race` | `CircuitBreaker`, thresholds of 2 | **violated**: OPEN is stored before the time of opening; the pause is skipped |
| `relay_overlap` | `RelayGate`, one expander relay, no fault | **violated**: a relay stays energised in SAFE_OFF |
| `relay_interlock` | `RelayGate`, P01 and P02, no fault | **violated**: heater and cooler are on together |
| `alert_ack_stuck` | `AlertAck`, the two thermal alarms | **violated**: an alarm confirmed to leave EMERGENCY cannot be acknowledged again, the SAFE_OFF after it never |
| `blocked_plug` | `PlugManager`, one plug of no automation | **violated**: a hand switches a blocked plug on |

What holds, by module:

| module | properties |
|---|---|
| `SafetyCore` | `CauseMatchesMode`, `RestartConfined`, `ExtremeIsEmergency`, `ModesKeptButForHangs` |
| `RestartFsm` | `Paced`, `OfferedOnlyWhileRearming`, `NoShortcut`, `SequenceEnds` (liveness) |
| `CircuitBreaker` | `WholePause`, `OpenEnds`, `ClosesOnlyConfirmed`, `TripsOnStreak`, all until the safety task cuts into a record; `Recovers` (liveness), always |
| `AlertAck` | `DoubleAck`, `StageFollowsAlarm`, but for alarms withdrawn in the middle of a request on them; `FreshGetsAcknowledged` (liveness) |
| `RelayGate` | `Interlock`, `TableCoversDirect`, `DriverHonest`, `PowerIsCut`, but after overlapping calls until an `all_off` has run by itself |
| `AtoFsm` | `PumpBounded`, `DryRunBounded` |
| `ElectricFsm` | `TripsInTime` |
| `FeedMode` | `FeedOnRecord` unless the last save failed, `RestoreOnce` |
| `PlugManager` | `UnwantedEnds` |
| `ConfigStore` | `StoredIsPromised` |
| `AntiFlap` | `FlapLimit`, `Patience` |
| `HeartbeatGuard` | `HangFound` |
| `ResetHandler` | `ErasesOnlyAgreed` |

In the two passing runs the variable `focus`, chosen at the start, says which of the
modules moves; the others stay at their initial states. The variables of the modules
are disjoint, and what one reads of another is an input chosen freely, so no
product of their states is needed. Each module has its own next-state action and its
own fairness (`MCFairness`), in the behaviours that are its own. The values of a
setting are symmetric, since they are only compared.

Each violated run checks one sentence of the requirements, the architecture
document, a comment or an API reply; `PROJECT.json` quotes it beside the finding.
Where the passing run has a property beside it that holds up to an exception
(`ModesKeptButForHangs`, `WholePause`, `Interlock`, `PowerIsCut`, `UnwantedEnds`), the
exception is exactly what the violated run exhibits, kept apart by a history
variable and not by an assumption on the scheduling: everything else goes on,
overlapping calls and preemptions included, and the property is asked again as soon
as the code has repaired what was left behind.

**Bounds.** Ages are capped just above the largest comparison the code makes, so
the cap hides nothing. Two iterations per second are the smallest number in
which the truncation of `now_s` shows; a stabilisation of one second is then
two iterations, and the violated runs about it use two seconds so that "at once" and
"early" differ. The restart sequence has all ten relays of the product, with unequal
waits so that a wrong one shows; the monitoring window is longer than the few
iterations that the changes of state take by themselves. Three failures and two
successes separate "the last", "the first" and "one in between". One task besides
the safety task is enough for every pair of overlapping calls, and its calls are
unlimited in number. One expander relay and one I2C fault, that can fall on any
write, are checked together; two relays, where one request may lose the bit of the
other, were run by themselves without a fault, with the same result. The groups of
alarms are those that one event raises together; two slots for them, two plugs and
three stages let both tables be full. The pump of `controllers` has every reason a
plug can have to be off; at most two things happen to it besides ticks and hands
(`MaxChanges`), and at most two of the three callers are at work at the same time
(`MaxBusy`), which is every pair. The beat counters wrap after three, a debounce of
two and a threshold of two have a first and a last, two settings let one fail after
the other was stored, and the window of a reset differs from its countdown, so that
a deadline stored late shows.

**Fairness.** The loop's modules state it, in `MCFairness` as in their own
specifications. `RestartFsm!FairSequenceSpec` requires only that the safety task keeps
iterating: it is periodic and has the highest priority on its core.
`CircuitBreaker!FairBreakerSpec` adds the sensors task, which is the second in
priority and runs because the safety task sleeps in every iteration.
`RelayGate!FairRelaySpec`, of the violated run, requires that a call that has begun
ends (no call waits on another) and that the periodic tick comes (`TickOff`); requests
of other tasks have no fairness. `AlertAck!FairAckSpec` requires that the safety task
keeps looking at its alarms (`RaiseCause`) and that a request once begun is carried to
its end (`Handler`), and assumes an operator who keeps acknowledging the alarm behind
the mode; `DiligentSpec`, of the violated run, even one who keeps acknowledging every
alarm. That operator is an assumption, not a fact of the code. The bus changes in
`CircuitBreaker` have none either: `Recovers` assumes a bus that is well from some
time on. All other properties are safety properties.

## 4. What is proved

`SafetyCoreProofs`, for every number of iterations per second, every
stabilisation time and every subset of the requests (`TimingAssumption`,
`RequestsAssumption`; the second is not even needed):

* `CoreTypeCorrect`: `CoreSpec => []CoreTypeOK`. `HandlerTypes` treats the four mode handlers
  once, so that the step proofs are about control only; `ClockTypes` shows that
  ages stay below their cap.
* `CauseAlwaysMatches` and `RestartAlwaysConfined`. `Inv`, the conjunction of
  the typing with the two properties, is inductive (`InvInductive`). The typing
  is needed in the evaluation, where "neither SAFE_OFF nor EMERGENCY" has to
  mean NORMAL or DEGRADED. `RestartConfined` holds because only SAFE_OFF, where
  the sequence lives, is ever left for NORMAL, and that exit lowers the flag.
* `CoreKeepsModes` and `ModesButForHangs`: every step of the loop is a step of
  `SafetyModes`, or the one step of the watchdog reaction, so that the loop implements
  `SafetyModes` in every behaviour in which that one does not happen. `RestartConfined`
  is what makes the start of a sequence a `BeginRearm` of `SafetyModes`: no
  sequence is active while its flag is down.

`RelayGateProofs`, for every set of relays behind the expander, every set of
tasks, every number of failed writes and every overlap of calls (`RelaysAssumption`,
`TasksAssumption`, `FaultsAssumption`):

* `RelayTypeCorrect`: a mask is only computed for relays behind the expander
  (`LoadsExpanded`), otherwise a heater's bit could get into it.
* `InterlockHolds` and `TableCovers`. Neither property is inductive: the check
  reads the table, the contacts change later, the table last. `CallInv` states
  what is true in the middle of a call: an energised heater or cooler is recorded or
  about to be (`Covered`), what was checked still holds until it is recorded
  (`Granted`), and the table forgets a relay only after it went off (`Released`,
  `Swept`). It holds while only one task is inside a call (`Exclusive`). After an
  overlap nothing of it need hold; `CrossInv` says how the next `all_off` that runs by
  itself brings it back, and `InterlockInv` is that with the typing.
* `DriverTellsTruth`. The driver's word is stored before the write for relays
  behind the expander and after it for P01 and P02; `HonestInv` states the
  difference at each point of a call (`HonestCalls`), and that without an expander
  nothing behind it is ever on (`ExpanderUsed`).
* `SafeOffIsDark`. `CutInv`: in SAFE_OFF, once the safety task has swept, no call
  that was granted before it is still switching (`NoneSwitching`), and until then
  its first sweep is still to end (`SweepsFirst`).

Also in `SafetyCoreProofs`, `ExtremeAnswered`: the property speaks of the step
between the evaluation and the monitor, and its invariant is itself.

`RestartFsmProofs`, for every order of the relays and all durations:
`RestartTypeCorrect`, `OffersPaced`, `OfferedByRearming`, `FullLength`. `RearmInv`
adds to the properties that the blocked mask stays empty, since
`restart_fsm_start` clears it (`NoneBlocked`), and what a sequence has run for at
least in each state (`RanEnough`), which is what `NoShortcut` needs at its end.

`CircuitBreakerProofs`, for all thresholds and pauses and every preemption:
`BreakerTypeCorrect`, `PauseEnds`, `PauseHolds`, `TrialCloses` and `StreakTrips`.
`BreakerInv` relates the counters of the code to the histories, also while the other
task is reading: an open breaker's time of opening is its age, and the code counts no
more successes than there were since the trial, no more failures than the streak has.
It holds until the safety task cuts into a record (`Uncut`), and again after a success
that cuts into nothing and finds the breaker closed (`SuccessMends`).

`SequenceShrinks` is what can be proved of `SequenceEnds`: `ToGo` counts the calls
of the update and the delays a sequence still needs, at most `LongestWay`; each
of them spends one, and nothing but a new start gives any back.

`AlertAckProofs`, for any alarms, plants and plugs and any size of the two
tables: `AckTypeCorrect`, `StagesFollow` and `CriticalTakesTwo`. `TableInv` joins the
invariants with four facts more: a lookup by number finds a slot if there is one
(`HeadIsActive`, about the abstraction of the order of the slots); a load's alarm is
HIGH and has no stage, which is why it may be withdrawn plug by plug while requests
name it by number (`LoadNeverCritical`); where a first stage stands, one or two
requests were made about this occurrence (`FirstCounted`); and the alarm of a request
between lookup and mark is there still, or it is among the crossed (`RequestStands`).
`AckInv` adds the types of the mode and of the handler's request, and that a
SAFE_OFF names one of three alarms (`CauseKnown`).

`ConfigStoreProofs`, for any writers, settings and values: `ConfigTypeCorrect` and
`PromisesStored`. The stored copies alone are not inductive, since the next
operation writes what is in RAM. A lost commit costs a setting its blob and no more
(`BlobsStored`). `ConfigInv` says that RAM holds what is promised
(`RamIsPromised`), that what a task has set or is about to set is not promised,
that the image it is about to write holds what is (`Kept`), and how far a task
has come that nobody overlaps (`Progress`, used where it ends and promises).
Where two tasks overlap neither works alone, so neither promises (`WorksAlone`).

`MachinesProofs`:

* ATO, for all levels, configurations and periods: `AtoTypeCorrect`,
  `PumpRunsBounded`, `DryRunsBounded`. `PumpInv` says that the pump asks only while
  a refill is counted and that the count covers all that was pumped.
* Electric machine, for all limits and gaps between samples:
  `ElectricTypeCorrect` and `ProtectionsTrip`, by `TimersKeepUp`: no timer is behind
  what was seen unless something acted within that time.
* Plug manager, for every type of plug and all minimum times, periods and delays, with
  all three callers at work: `PlugTypeCorrect` and `UnwantedIsEnded`. `Lingering`
  carries it between the ticks: for a relay still on after a tick that found it unwanted,
  either the minimum ON time was not over then, or the switch-off is under way
  (`OnItsWay`, `OnItsWayInTime`), or its switch failed; `Noted` ties what the code has noted of a switch to when it was.

`ControllersProofs`:

* `FeedMode`: `FeedTypeCorrect`, `FeedAlwaysOnRecord` (inductive as it stands),
  `PumpsRestoredOnce` (`CreditInv`: masks that may still be used have a feeding to
  account for them) and `FeedsCounted`, that the count of the standing window never
  passes the limit.
* `AntiFlap`: `FlapTypeCorrect`, `MovesWaitBounded` (`PatienceInv` orders the ages of
  the move, the transition and the window) and `MovesLimited`, with
  `Windowed`: the moves of the window are the last of the history, the first
  of them opened it, and of those before it less than a full window is left. Refused
  attempts count too.
* `HeartbeatGuard`, for all tasks, thresholds and widths: `GuardTypeCorrect` and
  `EveryHangFound`. `GuardInv`: a task is never silent for more checks than are
  counted as missed, since misses are never taken back.
* `ResetHandler`: `ResetTypeCorrect` and `ErasureAgreed`. The last looks at ERASING
  only; `AgreedInv` says what is agreed in each state *and behind each store under
  way*, `CountdownInv` that in an untorn countdown no other task has a deadline or
  a forward step left to store.
* The composition: `EachDoesItsOwn` shows that every behaviour of `MCControllers` is
  one of the relay route and of each of the eight controllers, so that all the theorems
  above about them hold in it; `ControllersTypeCorrect` is drawn from it.

Every invariant and action property of the passing runs is stated by a theorem, of the
module it belongs to. Only model-checked, for good, are the three liveness properties
(`SequenceEnds`, `Recovers`, `FreshGetsAcknowledged`), since the prover handles neither
fairness nor ENABLED, and the violated runs, whose counterexamples are behaviours.

## 5. What the models leave out

* In `SafetyCore` the gate of `AntiFlap`, the verdict of the guard, the probes of
  the machines and the judgement of the alarm table are free choices: every
  result of the modules that model them is among them.
* A SAFE_OFF left and re-entered in one iteration keeps its old resolution
  timestamp (`app_main.c:786`); `SafetyCore` has this behaviour, but `Stabilised`
  is measured on the timestamp and does not see it.
* `global_state_enter_degraded` called from another task is one step; the check
  and the write of the code are two.
* In `SafetyCore`, the branch of the safety loop for a pending factory reset or an
  unfinished wizard, which skips the rest of the iteration (`app_main.c:912-939`).
* `circuit_breaker_reset`, `relay_abstraction_set_blocked` and `_all_on`,
  `ui_events_ack_alert` and `log_manager_init` have no caller.
* `RestartRelays`: of the plugs, only some that automatic mode always wants on, with
  one minimum OFF time; no hands, no blocked plugs, no faults of the relay route. The
  counterexample needs none of these.
* `AlertAck`: silencing, history, the buzzer and most conditions of `alm_monitor.c`;
  the safety loop clearing ALM-013 whatever its acknowledgement (`app_main.c:529`);
  two tasks that raise different alarms into the same free slot at the same time.
* `PlugManager`: timer and delay modes, presets, energy, bypass detection, and the
  delay of P01 and P02 after the start.
* `ConfigStore`: export, profiles, the reset to defaults on a new schema; the
  staging area has no caller.
* ThermalFsm's requests to heater and cooler, beyond the latch.
* Storage rings and SD card, SAFE_OFF records, event bus, pending actions. The
  bus has one subscriber that never leaves, `event_bus_publish_isr` and
  `pending_actions_enqueue` have no caller, and the rings decide nothing.
* Pure I/O, drawing, number formatting, vendored code.

### Behaviour the models show and no property forbids

While the modules were written the following turned up. No sentence of the
repository settles most of these, or a property of another shape covers what
does hold; the models behave as the code does.

* *Heartbeat guard.* Misses are never reset: after as many in all, one missed
  check is a hang, against `app_main.c:1386-1388`. A task that still hangs when
  SAFE_OFF is left is not reported again. ALM-043 is cleared by its number while
  another task hangs; a recovery during SAFE_OFF clears nothing, later neither.
* *Anti-flap.* DEGRADED counts as a recovery, so a change for the worse is
  delayed too. An import accepts a limit of 0, after which nothing recovers. The
  window stands still: up to twice the limit less one fall into an interval.
* *Relays.* An expander write that fails in `relay_all_off` is never repeated, since
  `s_relay_state` is already 0; `PowerIsCut` therefore excuses the relays behind the
  expander after a fault.
* *Plug manager.* An overcurrent switches off beside the gate and counts anew after
  each sample without current, so an AUTO plug cycles. That a hand switches a blocked
  plug on is the run `blocked_plug`; `UnwantedEnds` bounds for how long.
* *Feed Mode.* The snapshot is always discarded at boot (`app_main.c:1330`), so the
  restoration that RF-PLUG-006.1 and the audit report promise never happens;
  `FeedOnRecord` is about saving only. A reload forgets a feeding and its masks. An
  exit and a request in one iteration remember pumps that are already off. An edge
  found after SAFE_OFF switches pumps on outside the restart sequence. The limit is
  two feedings an hour (`feed_fsm.c:8`), but the hour stands still, so three may start
  within one, and a reload or a power cut forgets the count: `FeedsCounted`
  is about the standing window only, and no property speaks of any hour.
* *Electric machine.* An over- or undervoltage that has not tripped is
  overwritten by NORMAL (176), so it never degrades the mode, against
  `app_main.c:742-746`. A timer that an early return leaves running counts time
  nobody looked at, so a trip may come early; a reload starts all of them anew.
* *Configuration.* A setter that answers an error leaves RAM changed, and the next
  one stores it. Overlapping writers lose an update. Power lost in an import
  leaves a mixture. A blob that fails after its root reports an error for a value
  that is stored. A value answered with OK whose commit failed is in the root image
  only; when the root image is unreadable too, or its own write failed, it is gone.
* *ATO.* `ato_fsm_clear_blocked` does not reset the refill, so a level that is
  still low latches again at once; time in which it was disabled counts.
* *Acknowledgement.* An alarm withdrawn between the lookup and the stage of a request
  leaves a first stage behind, and its next occurrence takes one request only; the
  properties keep such alarms apart by `crossed`. Requests for ALM-065 by number share
  one stage between the plugs. An EMERGENCY whose last pending alarm is withdrawn
  cannot be acknowledged. A request across the entry of SAFE_OFF stores its verdict
  into the new state (`safe_state_ack.c:53`). ALM-043 raised as HIGH is not upgraded.
* *Factory reset.* Holding UP through the start confirms as well, in the next
  iteration (`app_main.c:489`), though the display says "Solte UP e pressione
  novamente" (`:501`) and the SRS wants no reset with one confirmation (RF-RESET-004,
  TC-RESET-001). This is the one case in which `ErasesOnlyAgreed` accepts less than two
  acts of the operator, by its disjunct `held`. An abort
  answered with OK is overwritten when the tick has just decided
  (`reset_handler.c:112`, `:121`), and an abort between the tick's reading of
  COUNTDOWN and of the deadline ends the countdown at once, since it stores 0.

## 6. Plan

1. **Done**: `SafetyModes`, `SafetyCore`, `RestartFsm`, `RestartRelays`,
   `CircuitBreaker`, `RelayGate`, `AlertAck`, `PlugManager`, `AtoFsm`, `ElectricFsm`,
   `FeedMode`, `ConfigStore`, `AntiFlap`, `HeartbeatGuard`, `ResetHandler`; theorems
   about all of them but `RestartRelays`, covering every invariant and action
   property that the passing runs check.
2. **Proofs that remain** — a measure like `ToGo` for `Recovers`; `ConfigStore`
   against a configuration with one copy.
3. **Models that remain** — `ThermalFsm` with its requests; a ring with
   overwriting for the storage; the SAFE_OFF records with their query at boot.
