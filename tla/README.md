# CoreCat in TLA+

This directory holds TLA+ models of CoreCat (INGPS), a condition-monitoring
system: battery-powered sensor nodes advertise temperature and vibration over
BLE, a gateway publishes what it hears over MQTT, a server stores it, and an
Android app and a web page show it. The modules are translated from the source
of the repository (paths are relative to `src/`); TLC checks them on small
instances and TLAPS proves the theorems for every value of the constants.

    tlc -config CrashLoop.cfg MCCrashLoop     # one run; the table below lists them all
    tlapm WatchdogProofs.tla                  # one module of proofs

## The system

| component | code | state it keeps | operations | what makes it correct |
|---|---|---|---|---|
| Node: crash-loop escalation | `corecast_project/main/watchdog/wdt_guard.c` | RTC record (magic, count, pending), SAFE flag, stable timer | `wdt_guard_init`, `wdt_guard_boot_done`, stable callback, reboot | a crash loop ends in ever longer sleeps, not in a drained battery; a node that stays up is forgiven |
| Node: heartbeats | same file | one slot (last kick, limit) per watched subsystem, armed flag | heartbeat, set limit, monitor task | every stall is noticed, nothing slow is taken for dead |
| Node: advertising policy | `ble/adv_manager.c` | state, cycle, quiet time, frozen reference temperature, interval flag | init from NVS, update, interval hand-over | slow only when nothing happens, fast as soon as something does |
| Node: advertising task | `ble/ble_adv.c` | last temperatures, pause flag, controller | cycle, pause, resume | the controller advertises, with the interval of the policy |
| Node: flash commit | `nvs_safe.c` | - | commit with advertising paused | no advertising during a flash write, and advertising again after it |
| Node: accelerometer | `sensor/adxl345.c`, `i2c_bus.c` | presence, failure counter, back-off time | init, read, back-off | a dead sensor never stops the node, a living one is found again |
| Node: temperature driver | `sensor/as6221.c` | address, presence, failures and back-off of two channels | scan, assignment, read | each channel reads a part of its own, and its own part if that is there |
| Gateway: BLE ingest | `corecast_gateway/STM32_WPAN/App/app_ble.c`, `Core/Src/main.c` | ring of 16 messages, overflow count, debounce clock per device | advertising report, push, pop, drain | no message lost in the ring, each handed on once and in order |
| Gateway: LEDs | `Core/Src/main.c`, `apa102.c` | LED and last-seen tick per device | notify, timeout | the LED tells whether the device is heard |
| Gateway: uplink | `Core/Src/main.c`, `Drivers/Ethernet_W550/*` | `gw_state`, MQTT client, socket, independent watchdog | boot, health check, reconnect, publish | `gw_state` is true; a lost link comes back; the watchdog bites only on a hang |
| Server: ingest | `corecast_server/mqtt_subscriber.py` | tables `device`, `temperature_log`, `line_gateway`, `gateway_health_log` | decode, filter, classify, one transaction | a reading and the sign of life of its device together or not at all; what is stored was measured |
| Server: API | `app.py`, `auth.py` | stateless over the tables, signed sessions | queries, login | freshness rules, increments without gaps |
| App: polling | `CoreCast_App/.../viewmodel/*.java`, `fragment/*.java` | windows, cursors, timers | start, stop, responses | the window is in order and without gaps, and catches up |
| App: alerts | `.../util/TempAlertNotifier.java` | alert state per device and sensor | poll, dispatch, evaluate, stop, kill | each excess is told once, then every ten minutes, and never held back |
| ML validation | `ml_validation/` | - | offline scripts | - |

The parts interact by messages (BLE advertisements, MQTT publishes, SQL rows,
HTTP responses) and, inside one device, by shared state. On the node the
advertising task, the flash commit and the monitor task share the pause flag, the
interval of the policy, the BLE controller and the heartbeat slots. On the gateway
everything runs on one thread, so that a blocking call of the network delays the
radio, the LEDs and the refresh of the watchdog alike.

What is hard here: crashes and resets at every point (the node's watchdog is made
for them), two tasks that race for one controller, timeouts that race each other
(back-off against staleness limit, TCP retransmission against watchdog), bursts
after a blocked loop, a tick that wraps, and a flag that says CONNECTED when the
socket does not. `PROJECT.json` lists every such hazard at its line with the
properties that cover it.

## The modules

| module | models | built on |
|---|---|---|
| `CrashLoop` | the RTC record, reset reasons and escalation of `wdt_guard.c` | |
| `AdvManager` | the policy of `adv_manager.c` and the measurement that feeds it | |
| `AdvCycle` | the advertising task and a committing task, step by step | `AdvManager` |
| `HeartbeatWatch` | the monitor, the kicks and the accelerometer's back-off in time | |
| `BoundedFifo` | abstract: a FIFO that drops and counts the newest when full | |
| `BleQueue` | the ring of `app_ble.c`; implements `BoundedFifo` | `BoundedFifo` |
| `GatewayIngest` | report handler, ring, drain and LEDs in the order of the main loop | `BleQueue` |
| `GatewayLink` | boot, health check, reconnect and the blocking calls of the uplink | |
| `As6221` | scan, assignment, reads and back-off of the two temperature channels | |
| `Journal` | abstract: the tables as the server promises them to its readers | |
| `Ingest` | a reading from the sensors' 16 bits through advertisement and JSON into the tables; implements `Journal` | `Journal` |
| `RealtimeWindow` | the real-time screen, its calls in flight and the queries that answer them | `Journal` |
| `TempAlert` | poll, LiveData, activity and preferences around the alert rule | |
| `MCCrashLoop`, `MCAdvCycle`, `MCGatewayIngest`, `MCAs6221`, `MCIngest`, `MCTempAlert` | values and symmetry for TLC | |
| `WatchdogProofs` (on `CrashLoop` and `HeartbeatWatch`), `AdvCycleProofs`, `GatewayIngestProofs` (with `BleQueue`), `GatewayLinkProofs`, `As6221Proofs`, `IngestProofs`, `RealtimeWindowProofs`, `TempAlertProofs` | theorems | |

Operators whose comment begins with "Mutant" are single plausible errors (a
dropped guard, a missing reset); they are used by no specification. Put in the
place of the definition they vary, each makes one property fail.

### `CrashLoop`

The record in RTC memory (`magic`, `abnormalResets`, `backoffPending`) survives
every reset except a loss of power, after which it holds anything (`RtcGarbage`).
`GuardInit` is `wdt_guard_init` as a whole: it counts the reset, then starts the
firmware (`NormalBoot`, `SafeBoot`) or goes to sleep (`BackoffSleep`,
`SafeThrottle`). `Crash` and `EarlyCrash` come in every phase, before and after
`wdt_guard_init`; so do `PowerCut`, `Brownout` and `OtherReset` (a pin or USB
reset). `BootDone` arms the one-hour timer, or goes on without it as the code does when
the timer cannot be created; `StableClear` is its callback. History: `startsAwake`
counts the starts of the application since the node last slept or its count was
cleared, `sleepFor` remembers the last sleep of a streak, and `resets` counts the
crashes since an uptime was forgiven or somebody reset the node.

### `AdvManager` and `AdvCycle`

`AdvManager` holds the clamps of the NVS knobs and `adv_manager_update` as one
operator per state. A temperature channel that fails to read keeps its last value,
as `build_mfg_data` does. `AdvCycle` cuts `adv_cycle_task`, `ble_adv_pause`,
`ble_adv_resume` and `nvs_safe_commit` at every access to what the tasks share:
the check of `s_adv_paused`, the stop, the start, and the two reads of the interval
in `adv_start_current` are steps of their own. Every call into the controller may
fail, and a start fails when it already advertises. A failed start of the
advertising task ends in `Reboot`, as in `wdt_guard_reboot`; so does, at any moment
(`MonitorReboot`), a heartbeat that the task has not kicked. Commits come without limit;
their bound is that there is one committing task.

### `HeartbeatWatch`

Time goes in steps of a fixed length: seconds in the run, and for the theorems as well
the milliseconds of the code. A task that is due runs before time goes on; two that are
due in the same step run in either order. A turn of the advertising task is three steps
after its reads: the limit of the ADV slot, that of the ACCEL slot, the update with its
kick (`LimitAdv`, `LimitAccel`, `Update`). The monitor has the higher priority and may run
between any two of them. `missed` counts the updates lost in a row, and `shrunk` says that
the turn under way has lowered the limit. The BLE host synchronises at any time or
never. Sensor reads and updates fail at any cycle; after `ADXL345_FAIL_LIMIT`
failures the driver backs off for `ADXL345_RETRY_AFTER_US`. A cycle is any member of
`Cycles`, none longer than `CycleMax`, the clamp of the policy; the limits of the slots
follow it as in the code (`CadenceLimit`, three cycles and `Margin`, never below the
floors). It is assumed that no commit is under way when the interval changes: it would
hold back the restart and with it the new limits. Nothing in the repository calls
`nvs_safe_commit` yet.

### `BoundedFifo`, `BleQueue`, `GatewayIngest`

`BleQueue` keeps the array and the two indices; the refinement mapping reads the
held slots from tail to head. `GatewayIngest` adds the 900 ms debounce per
whitelisted device, the drain, the LEDs and time. The main loop is four phases,
`scan` (`MX_APPE_Process`), `net`, `drain` and `led`; time passes in each, up to
the watchdog. While `net` or `drain` blocks, the BLE stack keeps the reports, and
the next `scan` gets them in a burst. A message is only its device: no decision of
this code depends on the payload. The ring of `BleQueue` is `GatewayIngest`'s own, so the
run checks the refinement of the FIFO where the ring is used, resets included; there it
never fills, and what a full ring does is left to the theorem.

### `GatewayLink`

`at` is where the thread is: looking for the link at boot, in one of the four
waits (`disconnect`, `connect`, the CONNACK, a busy `send`), or at a step of the
main loop. A wait takes time and never refreshes the watchdog; the cable and the
broker change meanwhile. The broker is up, refuses (its host answers with a reset)
or is silent, and may end a session at any time. `isconnected`, the flag of the MQTT
client, and `sock`, the status register of the W5500, are separate variables
because the code never compares them. A loop goes through `rest` before its next turn:
the drain and `mqtt_yield` take their time (`RestMax`) after a wait as after none, and
only the turn refreshes the watchdog. `held` is history: the time spent in waits since
the last refresh. The look for a link may end with an error of the chip's version or
configuration (`LinkGivenUp`), and the CONNECT may fail to be sent (`ConnectNotSent`).

### `As6221`

`part` is what is soldered at each address, `onBus` which of the parts answer now: a
part may fall off the bus and return between any two steps, the probe of the scan and
the attach of an address included. `FirstPass` and `SecondPass` are the two loops of
`as6221_init`, one channel per step; `refused` remembers the attaches that failed in
the first. `SkipRead`, `ReadOk` and `ReadFails` are the three outcomes of
`as6221_read_x100`; `retry_at_us` is kept as the time that is left. A part that fell
off and came back keeps its configuration, as the driver assumes. `RawToX100` is the
integer arithmetic of the code with C's division. History: `tval` is what the last read
of a channel got from the bus, `NoRaw` if nothing.

### `Journal` and `Ingest`

`Journal` is what the readers of the tables may count on: `Store` adds a reading and
sets the `last_seen_at` of its device in one step, `Greet` sets only the latter, time
never goes back. `Ingest` follows a reading through the code of three devices:
`Advertised` is the byte layout of `ble_adv.c`, of the nodes of the old format too, which
have no core temperature; `Parsed` is that of `app_ble.c`, which then takes 0 for it;
`Decimal` the `"%d.%02d"` of the gateway read back as a number (conversions of two's
complement and truncating division, not identities), `ValidTemp` and `CastFloat` the
filters of the subscriber. A handler executes the statements of `Script` one after the
other, with a `NOW()` each; a statement, the connection or the process may fail at
each (`Fails`), and a commit may fail after it was applied (`CommitFails`). `J` maps
the rows to the readings of `Journal`. `gwSeen` and `reports` are the tables of the
gateway, which the other two kinds of message write. Each row carries, as history, the
message it is from.

### `RealtimeWindow`

The table is a `Journal` with one device. `calls` are the HTTP calls on their way; each
is answered from the table at some moment (`Answer`) and delivered later (`Deliver`) or
lost (`Lose`), in any order, also after `stopPolling`, which cancels none. `window` and
`lastTs` are the fields of the view model, `shown` is what the screen was given. The
order of the rows of one second is open, as in the query. `NewSeconds` is the loop of
`onDelta` without the loop: the one sequence of the rows it appends. `clean` is history:
no answer of an earlier start, and no first load over a window already filled, was
applied.

### `TempAlert`

`call` are the polls on their way. The server computes an answer at one moment
(`Answer`), it arrives at another (`Deliver`) or never (`Lose`), in any order, also after
`onStop` and after the `onStart` that follows. An answer that has arrived waits in the
LiveData until its observer is started (`Dispatch`), over a stop, and is delivered again
after a rotation (`Recreate`). `prefs` is the alert state in memory, `disk` what a killed
process comes back with; Android writes the preferences before an activity counts as
stopped, otherwise at some later time (`Flush`). Times are ages, cut off where the code no
longer tells them apart, and time never waits for an answer. `told` and `excused` are
history.

## Runs

| run | instance | what it checks |
|---|---|---|
| `crash_loop` | the code's thresholds 3 and 8, base 30 s, maximum 600 s; no crash beyond a count of 11 | `SleepIsResumable`, `StartsAreThrottled`, `SleepIsEarned`, `BackoffNeverShrinks` |
| `crash_loop_retry` | same | **violated**: `SleepIsRetried` |
| `adv` | one channel, three temperatures, knobs below, inside and above their clamps, both policies, SAFE on and off, any number of commits, a controller that may refuse any call | `StationaryTempBand`, `StationaryAfterQuiet`, `IntervalAgreement`, `IntervalIsApplied` |
| `adv_silence` | same | **violated**: `SilenceIsRecovered` |
| `heartbeat` | the code's times, cadences of 1, 3, 10 and 11 s | `StallIsNoticed`, `LostUpdateTolerated`, `BackoffNotMistakenWhenFast` |
| `gateway_ingest` | two devices, a ring with exactly two places, a tick that wraps at 7 | `QueueNeverOverflows`, `LedsTellWhoIsHeard`, `ImplementsFifo` |
| `gateway_link` | times in the code's order: health check < reconnect < watchdog < command timeout < TCP timeout; one unit for the loop and one for the drain and yield | `ConnectedWasAccepted`, `ResetsNeedAnOutage`, `CableLossNoticed`, `FirstSessionIsMade` |
| `gateway_link_loss` | same | **violated**: `SessionLossNoticed` |
| `as6221` | three addresses with every population, three wishes of NVS (one impossible, one twice the same), limit 2, back-off 4 s at cadences of 1 and 3 s; register values at the sentinel, just below zero and not on a hundredth | `OneChannelPerPart`, `OwnPartUnlessMissing`, `BackoffSparesTheBus`, `ReadingIsMeasured`, `ChannelRecovers` |
| `ingest` | two messages of a registered, an unregistered and an unnameable device, of both formats; temperatures that failed, lie just below zero, are usual, are out of range; four seconds | `LatestMeansConnected`, `OneRowPerMessage`, `StoredWasMeasured`, `ImplementsJournal` |
| `window` | a window of two rows, two calls on their way, four rows in three seconds | `WindowInOrder`, `NoSecondSkipped`, `CatchesUp` |
| `alert` | one sensor of one device, two temperatures and two thresholds such that a threshold can move below a lasting excess, a reminder after two steps, two calls on their way | `RemindersSpaced`, `NothingHeldBack`, `ExcessIsTold`, `SilenceEndsTheAlarm` |

The type invariant is model-checked in `adv`, `heartbeat` (`WatchTypeOK`), `ingest` and
`window`. It is a theorem of every module (`TypeCorrect`, `QueueTypeCorrect`,
`WatchTypeCorrect`, `WindowTypeCorrect`), which says more than a run would.

Why the bounds are enough. `CrashLoop` uses the code's own numbers; a count of 11
is beyond both thresholds and beyond the saturation of the sleep time
(30, 60, 120, 240, 480 s, then 600 s after SAFE mode). In `AdvCycle` nothing counts the
commits: a fresh one may begin as soon as the one before has ended. Two of the three
temperatures are more than the threshold apart, the third is in between, and a second
channel is no more than a second chance of the same promotion; `AdvCycleProofs` covers any
number of both. In `HeartbeatWatch` nothing is scaled: the seconds and limits are the
code's, the cadences are those of the three states with the default knobs and one beyond
the upper clamp of 10.24 s. In `GatewayIngest` the ring is as tight as its assumption allows (as many places as
devices; the code has 15 for 12), and the tick wraps several times. In
`GatewayLink` only the order of the times matters: each is the smallest that keeps
the order of the code. `As6221` needs three addresses so that a part is left over
after two channels were served, and a back-off of four seconds so that it is longer
than one cadence and not a multiple of the other. `Ingest` needs two messages and four seconds for a
row to age past both limits while another comes, and more than one device to tell whose
row it is. A window of two rows with four in the table is overrun by one answer, and two
calls on their way are what it takes to overtake. `TempAlert` needs one key: the keys
share no state but the answer, and the theorems hold for any set of them.

Symmetry is used once, over the two devices of `gateway_ingest`, which has no
liveness property.

Deadlock is checked everywhere: no part of the system ever stops.

### Fairness

* `CrashLoop` (only for `SleepIsRetried`): the boot code runs, the sleep timer and the
  one-hour timer fire if nothing resets the node first: weak fairness of each. No crash
  and no power event is fair.
* `AdvCycle`: both tasks are scheduled (FreeRTOS tasks of their own), and the reboot
  happens once it was called or a heartbeat is missed for good. The start of a commit is not
  fair. `IntervalIsApplied` itself asks that the task looks at the flag again and again
  while no commit is under way; commits without a gap would hold the interval back for ever.
* `GatewayLink`: the one thread runs. Strong fairness of `Turn(1)` says that the tick of
  HAL advances while the loop runs, of `PublishNothing` that the loop comes round even if
  messages keep coming, of an accepted CONNACK that a broker that is up and
  reachable accepts in the end. The peer's FIN and acknowledgements arrive (weak
  fairness); the cable and the broker have no fairness.
* `As6221`: the advertising task goes on (weak fairness of `Driver`). The parts have
  no fairness; `ChannelRecovers` asks only for a part that answers for good.
* `RealtimeWindow`: the timer of a started screen fires (weak fairness). Some call is
  answered, and some answer delivered, again and again (strong fairness): a server that
  never answers is outside the claim, any number of lost calls is inside.
* `TempAlert`: a started activity runs its observer (weak fairness); it polls, calls are
  answered and answers delivered again and again, and time goes on (strong fairness: all
  of them may be interrupted by a stop). Start, stop, rotation, kill and the settings have
  no fairness.
* `HeartbeatWatch`, `GatewayIngest` and `Ingest` have safety properties only;
  nothing retries a message the subscriber has lost.

## What is proved

TLAPS proves the following for every value of the constants that satisfies the
named assumptions, `THEOREM ... == Spec => ...` each. TLC evaluates the same
assumptions in the runs.

**`WatchdogProofs`, `CrashLoop`** (assumes `1 < BackoffN < SafeN` and `0 < BackoffBase =< BackoffMax`).
No property of the escalation is inductive alone, because it speaks of the count
while the node sleeps or runs, and the count is only as good as the record that
survived the reset. The invariant `IInv` has two halves. `CountInv`: the record is valid
whenever the node sleeps or runs (`RecordWritten`), and a valid count of `c` allows
`StartsAt(c)` starts since the last sleep and `SleepAt(c)` seconds of it. A reset keeps
the record, so both bounds carry over it; `SleepAt` grows with the count. From it follow
`TypeCorrect`, `SleepResumable`, `StartsThrottled` and `BackoffGrows`. `CrashInv` goes the
other way: the count, with the crash that this boot has yet to count, is covered by
crashes that happened, which gives `SleepEarned`. Garbage in RTC memory is no count,
since the boot that finds it starts from zero, and `StableClear` and a reset from outside
clear both sides at once.

**`WatchdogProofs`, `HeartbeatWatch`** (any cadences, and changes from any to any). The
invariant `WatchInv` adds four parts to the types (`WatchTypeCorrect`). `LimitFollows`:
once the task cycles the limits are those of its cadence, before that the floors.
`StallBounded`: a slot that has been stale for a while was not looked at for as long, so
`staleFor + monitorLeft` stays within one period, and a stale slot that the monitor
passed made it reboot; that gives `StallsNoticed`. `AdvFresh` bounds the age of the ADV
slot by the cycles it spans: the current one after a kick, and one more of any cadence
after a lost update. Two cycles fit in the limit of the *second*, which may be the
shorter one, only by `CadenceAssumption`, `3 * CycleMax =< 2 * AdvFloor + Margin`; with
the code's numbers that is 30720 ms against 35000 ms, for every cadence the clamps
allow. In the turn itself the age is covered by the limit *unless this turn has lowered
it*, between `LimitAdv` and `Update`. `OneLossTolerated` is just that: the slot reboots
the node for two updates lost in a row, or for one when the monitor runs in that gap.
`AccelBounded` adds up a read's age over the failures
that lead to the back-off, the back-off and the cycle until the retry: `(FailLimit + 1)
* FastMax + RetryAfter`. `BackoffAssumption` says it fits in the floor of the slot,
which with the code's 75 s, 60 s and three failures holds up to a cadence of 3.75 s;
`BackoffIsNoStall` is stated for the cadences up to there.

**`AdvCycleProofs`** (any set of stored knobs, temperatures and channels, any number
of commits). `IntervalsAgree`: agreement at the end of a cycle does not survive a
step, so `ItvlInv` states it for every step outside the boot and the restart
(`Applied`), and for the values that `ble_adv_resume` has read but not yet used
(`MinFresh`, `MaxFresh`): each is fresh, or the start it is used for is refused because
the radio already advertises, or the restart is owed anyway. It also says that no commit
resumes before the boot has started advertising (`ResumesLate`, `StartsLate`).
`StationaryIsEarned` rests on `QuietIsEarned`: in the two adaptive states the quiet
time counted never exceeds the time since motion (in FIXED and SAFE it may, which is
why the invariant names the states). `StationaryInBand` rests on `BandInv`, which
also says that no node boots in STATIONARY. `TypeCorrect` contains the clamps:
cycle and controller interval stay in range whatever NVS holds.

**`GatewayIngestProofs`, `BleQueue`** (a ring of at least two slots). The ring implements
`BoundedFifo`: a push appends or drops and counts, a pop takes the oldest, every
other step stutters. `QueueInv` says that every held slot holds a message; the two
lemmas `PushAppends` and `PopTakesOldest` do the arithmetic of the wrap. `QueueIsFifo` is
about the ring with any pushes and pops, a full one included; `IngestIsFifo` about the ring
as the handler, the drain and a reset use it.

**`GatewayIngestProofs`, `GatewayIngest`** (a whitelist smaller than the ring, `ScanMax < Debounce`).
`NeverOverflows` needs to know that each device is in the ring at most once
(`OncePerDevice`), that a device in the ring is still inside its debounce
(`StillDebounced`), and that the drain empties the ring (`EmptyAtEnd`). A report that
passes the debounce is then of a device that is not in the ring, so there is room.
The code relies on `ScanMax < Debounce` (one `MX_APPE_Process` takes less than
900 ms) and enforces it nowhere; the assumption is named for that reason.
`LedsTell` has to rule out that the tick wraps past a lit LED and makes it look
fresh. `LedInv` bounds the age of every lit LED in each phase (`InTime`): the timeout
when the loop starts, and from there the time of the phases since. The time
assumption keeps that bound below a full turn of the tick, and there `Since` counts
like the `silence` of the specification, which does not wrap (`SinceCounts`).
`TypeCorrect` joins the two invariants.

**`As6221Proofs`** (any addresses, wishes, limits, cadences). `ChannelsDiffer` and
`OwnPart` need the assignment to be under way in the order of the code: `DriverInvariant`
says what holds of a channel that the first pass has not come to, of one that it has,
and that `found` and `want` do not change after the scan. `BusIsSpared` rests on
a relation of two clocks: a channel that is not present has `left + untouched >=
RetryAfter`, so that a back-off that has run out leaves a whole `RetryAfter` without an
access. `Measured` ties what a read returned to the bytes it got: the value is within half a
hundredth of them, below zero too, for all 16 bits, and the sentinel exactly when there
were none.

**`IngestProofs`** (any devices, limits and times, any 16-bit temperatures). `IngestIsAJournal` is the
refinement: a commit is one `Store` or `Greet` of `Journal`, everything else a stutter.
Its invariant says what an open transaction holds at each point of its script: a
reading is never in it without its statement of the sign of life still to come or
already there, with a time not before the row's. `AtMostOneRow` needs that the message
in the handler has no row yet. `RowsWereMeasured` follows the values from the sensor to
the columns: `Int16` undoes the bytes (a lemma for all 16-bit numbers), `Decimal` is the
identity up to the sign below one degree, and each filter keeps what it passes. It says
what *is* in every column, not only what may be: `temp1` is measured and in range, NULL
stands for exactly the values that failed or are out of range, and 0.00 is the core
temperature of a node of the old format.

**`RealtimeWindowProofs`** (any `WINDOW_SIZE`, table and number of calls on their way).
The window is as good as the answers that made it, and these wait on their way while the
table grows and the window changes. `AnswerOk` says what an answer is worth as long as
it waits: it is in order, and between its ends (of a first load), or from the second
after the one it was asked from to its end (of an increment), no second is missing. A
new row does not break that: it comes at the young end of the table (`InsertFacts`), so
it is of a later second than the answer, or of its last, which the answer has
(`InsertKeeps`). `CallOk` adds, for the calls of this start, that they were asked from
no later than `lastTs`: the increment then meets the window without a gap, however old
it is and whatever overtook it. The lemmas follow the lists through the code: what the
two queries answer with their `LIMIT` (`RecentOk`, `IncrementOk`), what turning round
and trimming keep (`TurnedOk`, `TrimOk`), what the loop of `onDelta` appends (`NewOk`)
and what it makes of the window (`MergedOk`). `WindowAlwaysInOrder` holds in every
state, late answers of an earlier start included; `NoGapInWindow` while the window is
`clean`.

**`TempAlertProofs`** (any devices, temperatures, thresholds, times). `NotHeldBack` needs
that the reminder time in memory and on disk is never younger than the last
notification (`AlertInvariant`), which a state written without a notification, or a kill,
could break; `Spaced` needs the converse for every sensor that is not excused.

**`GatewayLinkProofs`** (times in any order but `LinkRetries + RestMax` and `LoopMax +
RestMax` below the watchdog). `ConnectedAccepted`: while the boot or a reconnect is under
way `gw_state` is not CONNECTED, so no path leaves a wait with the flag set and no CONNACK.
`OnlyOutagesReset` is an account (`WInv`): the time since the refresh is at most the time in
waits (`held`), the look for a link or one loop, and, from the end of the waits on, the
drain and the yield. So the watchdog needs waits that add up to nearly all of it; a loop of
the gateway's own phases alone is never too long. `TypeCorrect` separates numbers
(`TimesOK`) and flags (`StatesOK`).

## What is only model-checked

* Liveness: `IntervalIsApplied`, `CableLossNoticed`, `FirstSessionIsMade`,
  `ChannelRecovers`, `CatchesUp`, `ExcessIsTold` and
  `SilenceEndsTheAlarm`. Liveness under fairness and `ENABLED` are out of the reach of this
  version of TLAPS.
* That the operators which pick a sequence (`NewestFirst`, `OldestFirst`, `NewSeconds`)
  always have one to pick: the proofs say what holds of any they pick, and `CatchesUp`
  needs that there is one. Building it takes an induction over the rows.

Every safety property of the passing runs, invariant or about steps, is a theorem.

## What the runs found

Three runs are expected to fail. Each checks one sentence of the repository against
what its code does.

* `SleepIsRetried`, `wdt_guard.c:225`. The comments (lines 194-197, 217, 226) call the
  wake-up from a back-off sleep a retry, whose crash would go on counting. The code
  compares the preserved count with the thresholds in that boot too and sleeps again: a
  node that reached the back-off never starts its application until its supply is cut, or
  another cause of reset clears the count. From there the count grows only by crashes
  before `wdt_guard_init` puts the node to sleep, so the SAFE mode that
  `corecast_project/README.md:119,136` promises from eight resets on is reached only that
  way. The properties of `crash_loop` do not count on the retry, nor forbid it: they bound
  the starts between two sleeps and ask for crashes before a sleep.
* `SilenceIsRecovered`, `ble_adv.c:292`. `nvs_safe.h:25-26` and `nvs_safe.c:29-31` leave a
  failed resume to the heartbeat of the advertising task. That task goes on to call
  `set_data`, which succeeds without advertising, and kicks the heartbeat: the node stays
  silent until its interval changes or another commit resumes it.
* `SessionLossNoticed`, `MQTT_Example.c:207`. The health check is to see the MQTT
  session (`corecast_gateway/README.md:103`, `main.c:757`). `isconnected` is cleared
  only by the next `MQTTClientInit`; a session that the broker closed stays CONNECTED.

Contradictions that a passing run contains, where its property is stated for what the code
does (a run of its own would say no more):

* `wdt_guard.c:118-121` wants one lost update to be tolerated. `ble_adv.c:285` lowers the
  limit of the slot before the kick of line 296: at a promotion from 10 s to 3 s the age
  after one lost update is 20 s and the new limit 15 s, and a monitor that runs between
  the two reboots the node. It is the `shrunk` of `LostUpdateTolerated`.
* `corecast_gateway/README.md:35,104` has the boot go on and `main.c:790` the reconnect not
  block. A broker whose host is silent holds `connect` for about 32 s, more than the 15 s
  of the watchdog: the gateway resets, at boot before BLE starts, and again after the
  reset. `ResetsNeedAnOutage` says that nothing less than such an outage costs a reset.
  `CommandTimeout` and `TcpTimeout` both outlast the watchdog, so their expiries are in the
  model and never reached with the code's order of times.
* `mqtt_subscriber.py:18,228` and `ble_adv.c:59` have a filtered temperature stored as NULL,
  but `temp1` is NOT NULL (`temperature_db_init.sql:22`): the INSERT fails, the reading and
  the `last_seen_at` are lost with it, and a device whose first sensor is broken is shown
  as Disconnected. In `StoredWasMeasured` it is the `InRange` of `temp1`.
* `mqtt_subscriber.py:232-234` wants no core temperature stored that was not measured. For a
  node of the old format `app_ble.c:580` sets 0, `main.c` publishes 0.00, and the server
  stores it like a measured one.
* `publish_sensor_data` (`main.c:866`) prints -0.50 degrees as 0.50, and so it is stored.
* `app.py:167-173` and `CoreCast_App/_workspace/01_analyst_spec.md:132` call an alert from an
  hours-old temperature a false alarm. The limit is applied when the question is answered;
  an answer that arrives late, waits over a stop, or is handed to a new observer is judged
  later, at any age. No single false alarm can be excluded; `SilenceEndsTheAlarm` says that
  they come to an end.
* `ble_adv.c:32` and `corecast_project/README.md:98` have TH1 in bytes 2 and 3 of the
  payload. The node writes TH2 there and TH1 into bytes 4 and 5 (`ble_adv.c:120-123`); the
  gateway (`app_ble.c:574`) calls the first `temp1`. So the surface temperature that the
  app alerts on is the other channel's. `StoredWasMeasured` compares `temp1` with TH2.

Met while modelling (most are behaviours of the modules):

* `ble_adv.c:278`. Lines 198-199 say that the restart is held back during
  `s_adv_paused`. The flag is looked at once, before the stop and the start; a commit
  that begins in between meets advertising in the flash write, or the two starts
  collide and the node reboots.
* `wdt_guard.c:280`. When the stable timer cannot be created the boot goes on without a
  word, and its uptime is never forgiven.
* `ble_adv.c:268`. `wdt_guard.c:42-44` sizes the limit of the accelerometer so that its
  back-off is not mistaken for a stall. At the 10 s cadence the last sample is 30 s old
  when the back-off of 60 s begins, and the limit is 75 s.
  `BackoffNotMistakenWhenFast` shows that it holds at 1 s and 3 s.
* `as6221.c:217`. When the part of TH2 fails to attach in the first pass only, and that
  of TH1 is missing, TH1 takes it in the second pass and reports TH2's temperature.
  `OwnPartUnlessMissing` names the three cases in which a channel is moved.
* The whitelist of the gateway has places 10 and 11, which `esp_byte_to_device_id` does
  not map: their messages are ignored.
* `SensorDetailTestViewModel.java:72` speaks of one full reload after a start. An answer
  from before the stop may fill the window first, and a first load that was overtaken
  replaces a newer window; both can leave gaps, which is why `NoSecondSkipped` is
  promised for a `clean` window only. `onDelta`'s filter for an old server, which
  answers newest first, keeps only the newest row of its answer.
* `adv_manager.h:7` wants no motion and no change of temperature for STATIONARY;
  `adv_manager.c:164` restarts the quiet period on motion only. The model follows the code.
* `ble_adv.c:99-101`: a channel that was never read counts as 0, and `UpdateMoving`
  takes that as reference; its first valid value then promotes the node.
* `main.c:703` speaks of 3 s, `LED_TIMEOUT_MS` (`main.c:76`) is 5 s.
* Without a cable at boot the W5500 is not configured again until a reset.
* Messages are dropped while the gateway is not connected; the offline buffer is
  commented out. `corecast_gateway/README.md:27` has BLE reception in interrupt
  context; it runs on the main thread.

## What is not modelled, and why

* Most of the repository is not CoreCat's own code: some 280 000 of its lines are ST's
  HAL and CMSIS headers, the BLE stack and its generated wrappers, the W5500 driver and
  Paho. They are external here. The own code is about 13 500 lines in the four
  directories; the map covers its parts with control.
* The server's other queries (one statement each), accounts and web pages keep no state
  beyond the tables and a signed token. `POST /sensor`, a debugging aid, inserts a row
  without the sign of life and is not among the writers of `Journal`; the maintenance scripts and the ML validation run by hand, offline.
* Inside the modelled parts: the vibration bytes of the payload and the
  text of the JSON (a message that is not JSON or not UTF-8 included), the core
  temperature and vibration arithmetic and their classification, the TX power ladder, the storage mode that
  nothing calls, a second advertising task after a reset of the BLE host, and the
  torn read of a 64-bit heartbeat slot. In the app: the period charts
  (`SensorDetailViewModel`), whose answers may come in the other order, the dialog that
  polls beside its fragment, and jumps of the phone's clock. BLE stack, FreeRTOS, W5500 and Paho are
  external and modelled by what the code observes of them.

## Plan

What is left, in the order of what it would add:

1. The second advertising task after a reset of the BLE host (`app_main.c:110`): the task
   of `AdvCycle` as a set of processes over the same flags and buffer.
2. The torn heartbeat slot (`wdt_guard.c:164`): the two halves of `last_us` as variables.
3. The period charts of the app: two requests whose answers come in the other order.

The runs are kept to a dozen: a new question of a modelled component joins the run of
its module.
