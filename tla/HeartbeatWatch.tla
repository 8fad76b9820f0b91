--------------------------- MODULE HeartbeatWatch ---------------------------
(***************************************************************************)
(* The heartbeats of the sensor node in time: the monitor task of          *)
(* watchdog/wdt_guard.c, the kicks of the advertising task (ble/ble_adv.c) *)
(* and the failure back-off of the accelerometer driver                    *)
(* (sensor/adxl345.c).                                                     *)
(*                                                                         *)
(* Time advances in steps of a fixed length: seconds in the run, and as    *)
(* well the milliseconds of the code, for the proofs.  A task whose time   *)
(* has come runs before time goes on; tasks due at once run in any order.  *)
(* The monitor has the higher priority: it runs between any two accesses   *)
(* of the advertising task to the slots, each of which is a step.          *)
(***************************************************************************)
EXTENDS Integers

CONSTANTS
  Cycles,         \* the advertising cycles in use
  CycleMax,       \* ADVM_ITVL_MAX_MS, the upper clamp of a cycle
  AdvFloor,       \* WDT_HB_ADV_STALE_MS
  AccelFloor,     \* WDT_HB_ACCEL_STALE_MS
  Margin,         \* the 5000 ms of a limit above three cycles
  MonitorPeriod,  \* WDT_MONITOR_PERIOD_MS
  FailLimit,      \* ADXL345_FAIL_LIMIT
  RetryAfter,     \* ADXL345_RETRY_AFTER_US
  FastMax         \* bound of a property: the slowest cadence it speaks of

ASSUME TimesAssumption ==
  /\ CycleMax \in Nat /\ Cycles \subseteq 1 .. CycleMax
  /\ AdvFloor \in Nat /\ AccelFloor \in Nat /\ Margin \in Nat
  /\ MonitorPeriod \in Nat \ {0}
  /\ FailLimit \in Nat \ {0} /\ RetryAfter \in Nat
  /\ FastMax \in Nat

\* 3 * 10240 ms against 2 * 15000 ms + 5000 ms: see LostUpdateTolerated.
ASSUME CadenceAssumption ==
  3 * CycleMax <= 2 * AdvFloor + Margin /\ CycleMax <= AdvFloor

\* 4 * FastMax + 60000 ms against 75000 ms: see BackoffNotMistakenWhenFast.
ASSUME BackoffAssumption == (FailLimit + 1) * FastMax + RetryAfter <= AccelFloor

VARIABLES
  armed,        \* s_armed
  task,         \* where the advertising task is: "none" until on_sync
  cycle,        \* adv_manager_cycle_ms()
  waitLeft,     \* time until the task's next cycle
  monitorLeft,  \* time until the monitor's next check
  age,          \* now - last_us of each slot; Unarmed when last_us is 0
  limit,        \* stale_ms of each slot
  attached,     \* s_dev # NULL
  present,      \* s_present
  fails,        \* s_fails
  retryLeft,    \* s_retry_at_us - now, 0 when it has passed
  missed,       \* history: updates that failed since the last ADV kick
  shrunk,       \* history: this turn lowered the limit of the ADV slot
  retries,      \* history: reads that failed after the back-off ended, up to 1
  slow,         \* history: a cycle above FastMax since the last good read
  staleFor,     \* history: how long each slot has been stale
  down          \* the slot that made the monitor reboot, or "none"

accel == <<attached, present, fails, retryLeft, retries>>
watchVars == <<armed, task, cycle, waitLeft, monitorLeft, age, limit, accel, missed, shrunk, slow, staleFor, down>>

TaskSteps == {"none", "syncing", "cycling", "limitAdv", "limitAccel", "update"}
Slots == {"ADV", "ACCEL"}
Unarmed == -1
Floor == [s \in Slots |-> IF s = "ADV" THEN AdvFloor ELSE AccelFloor]
MaxMissed == 2     \* bound of the history variable

\* wdt_guard_set_hb_stale never goes below the floor.
StaleLimit(slot, stale) == IF stale < Floor[slot] THEN Floor[slot] ELSE stale

\* Mutant: the limits stay at their floors when the cadence slows down.
CadenceLimitFixed(c) == Floor
CadenceLimit(c) == [s \in Slots |-> StaleLimit(s, c * 3 + Margin)]

WatchTypeOK ==
  /\ armed \in BOOLEAN /\ task \in TaskSteps /\ shrunk \in BOOLEAN
  /\ cycle \in Cycles /\ waitLeft \in 0 .. cycle
  /\ monitorLeft \in 0 .. MonitorPeriod
  /\ age \in [Slots -> Nat \cup {Unarmed}]
  /\ limit \in [Slots -> Nat]
  /\ attached \in BOOLEAN /\ present \in BOOLEAN
  /\ fails \in 0 .. FailLimit /\ retryLeft \in 0 .. RetryAfter
  /\ missed \in 0 .. MaxMissed /\ retries \in 0 .. 1 /\ slow \in BOOLEAN
  /\ staleFor \in [Slots -> 0 .. MonitorPeriod + 1]
  /\ down \in Slots \cup {"none"}

\* Power-on, up to the start of the BLE host.  The accelerometer answers or
\* it is left out for the whole boot.
WatchInit ==
  /\ armed = FALSE /\ task = "none"
  /\ cycle \in Cycles /\ waitLeft = 0
  /\ monitorLeft = MonitorPeriod
  /\ age = [s \in Slots |-> Unarmed]
  /\ limit = Floor
  /\ attached \in BOOLEAN /\ present = attached
  /\ fails = 0 /\ retryLeft = 0 /\ retries = 0
  /\ missed = 0 /\ shrunk = FALSE /\ slow = FALSE
  /\ staleFor = [s \in Slots |-> 0]
  /\ down = "none"

\* wdt_guard_boot_done.
WatchBootDone ==
  /\ ~armed /\ down = "none"
  /\ armed' = TRUE
  /\ age' = [age EXCEPT !["ADV"] = 0]
  /\ missed' = 0
  /\ UNCHANGED <<task, cycle, waitLeft, monitorLeft, limit, accel, shrunk, slow, staleFor, down>>

(***************************************************************************)
(* adxl345_read_rms, followed by the kick of build_mfg_data.               *)
(***************************************************************************)
\* Mutant: a refused read starts the back-off again.
ReadRefusedExtends ==
  /\ ~attached \/ (~present /\ retryLeft > 0)
  /\ retryLeft' = (IF attached THEN RetryAfter ELSE retryLeft)
  /\ UNCHANGED <<attached, present, fails, retries>>

\* No device, or in the back-off: the bus is left alone.
ReadRefused ==
  /\ ~attached \/ (~present /\ retryLeft > 0)
  /\ UNCHANGED accel

\* At least one sample was read.
ReadSucceeds ==
  /\ attached /\ (present \/ retryLeft = 0)
  /\ present' = TRUE /\ fails' = 0 /\ retries' = 0
  /\ UNCHANGED <<attached, retryLeft>>

\* Mutant: the counter of failures is not saturated.
FailsAfterUnbounded == fails + 1
FailsAfter == IF fails < FailLimit THEN fails + 1 ELSE fails

\* A bus error, or an empty FIFO: the io_fail label.
ReadFails ==
  /\ attached /\ (present \/ retryLeft = 0)
  /\ fails' = FailsAfter
  /\ present' = (present /\ FailsAfter < FailLimit)
  /\ retryLeft' = (IF present' THEN retryLeft ELSE RetryAfter)
  /\ retries' = (IF present THEN retries ELSE 1)
  /\ UNCHANGED attached

(***************************************************************************)
(* adv_cycle_task.                                                         *)
(***************************************************************************)
Kicked(slot) == [age EXCEPT ![slot] = 0]

\* The read of build_mfg_data; a good one kicks the ACCEL slot.
ReadAndKick ==
  \/ (ReadRefused \/ ReadFails) /\ UNCHANGED age
  \/ ReadSucceeds /\ age' = Kicked("ACCEL")

\* The start of the task, when the BLE host has synchronised: the first
\* measurement ...
Sync ==
  /\ task = "none" /\ down = "none"
  /\ task' = "syncing"
  /\ ReadAndKick
  /\ slow' = (cycle > FastMax)
  /\ waitLeft' = cycle
  /\ UNCHANGED <<armed, cycle, monitorLeft, limit, missed, shrunk, staleFor, down>>

\* ... and the first advertisement, the kick and the limits, which only grow
\* here: between them the monitor finds nothing else.  An update that fails
\* here reboots at once and is not modelled.
FirstUpdate ==
  /\ task = "syncing" /\ down = "none"
  /\ task' = "cycling"
  /\ age' = Kicked("ADV") /\ missed' = 0
  /\ limit' = CadenceLimit(cycle)
  /\ UNCHANGED <<armed, cycle, waitLeft, monitorLeft, accel, shrunk, slow, staleFor, down>>

\* A turn of the loop: the read, and the policy, which takes any cycle in
\* use; the wait that follows the turn is the one of that cycle.
CycleStep ==
  /\ task = "cycling" /\ waitLeft = 0 /\ down = "none"
  /\ ReadAndKick
  /\ cycle' \in Cycles
  /\ task' = (IF cycle' # cycle THEN "limitAdv" ELSE "update")
  /\ slow' = (cycle' > FastMax \/ (slow /\ age'["ACCEL"] # 0))
  /\ waitLeft' = cycle'
  /\ UNCHANGED <<armed, monitorLeft, limit, missed, shrunk, staleFor, down>>

\* Advertising has been restarted with the new interval: the new limits, the
\* ADV slot first.
LimitAdv ==
  /\ task = "limitAdv" /\ down = "none"
  /\ task' = "limitAccel"
  /\ limit' = [limit EXCEPT !["ADV"] = CadenceLimit(cycle)["ADV"]]
  /\ shrunk' = (limit'["ADV"] < limit["ADV"])
  /\ UNCHANGED <<armed, cycle, waitLeft, monitorLeft, age, accel, missed, slow, staleFor, down>>

LimitAccel ==
  /\ task = "limitAccel" /\ down = "none"
  /\ task' = "update"
  /\ limit' = [limit EXCEPT !["ACCEL"] = CadenceLimit(cycle)["ACCEL"]]
  /\ UNCHANGED <<armed, cycle, waitLeft, monitorLeft, age, accel, missed, shrunk, slow, staleFor, down>>

\* Encoding and set_data: a good one kicks the ADV slot.
Update ==
  /\ task = "update" /\ down = "none"
  /\ task' = "cycling"
  /\ \/ age' = Kicked("ADV") /\ missed' = 0
     \/ /\ missed' = (IF missed < MaxMissed THEN missed + 1 ELSE missed)
        /\ UNCHANGED age
  /\ shrunk' = FALSE
  /\ UNCHANGED <<armed, cycle, waitLeft, monitorLeft, limit, accel, slow, staleFor, down>>

Stale(s) == age[s] # Unarmed /\ age[s] > limit[s]

\* Mutant: the monitor looks at the ACCEL slot only.
MonitorSkipsAdv ==
  /\ monitorLeft = 0 /\ down = "none"
  /\ monitorLeft' = MonitorPeriod
  /\ down' = (IF armed /\ Stale("ACCEL") THEN "ACCEL" ELSE "none")
  /\ UNCHANGED <<armed, task, cycle, waitLeft, age, limit, accel, missed, shrunk, slow, staleFor>>

\* wdt_monitor_task: the slots in their order; the first stale one reboots.
Monitor ==
  /\ monitorLeft = 0 /\ down = "none"
  /\ monitorLeft' = MonitorPeriod
  /\ down' = (IF armed /\ Stale("ADV") THEN "ADV"
              ELSE IF armed /\ Stale("ACCEL") THEN "ACCEL" ELSE "none")
  /\ UNCHANGED <<armed, task, cycle, waitLeft, age, limit, accel, missed, shrunk, slow, staleFor>>

\* wdt_guard_reboot ends in a boot with every static variable initialised.
Reboot ==
  /\ down # "none"
  /\ armed' = FALSE /\ task' = "none"
  /\ cycle' \in Cycles /\ waitLeft' = 0
  /\ monitorLeft' = MonitorPeriod
  /\ age' = [s \in Slots |-> Unarmed]
  /\ limit' = Floor
  /\ attached' \in BOOLEAN /\ present' = attached'
  /\ fails' = 0 /\ retryLeft' = 0 /\ retries' = 0
  /\ missed' = 0 /\ shrunk' = FALSE /\ slow' = FALSE
  /\ staleFor' = [s \in Slots |-> 0]
  /\ down' = "none"

Older(n) == IF n = Unarmed THEN n ELSE n + 1
Less(n) == IF n = 0 THEN 0 ELSE n - 1

\* Time passes once nothing is due; boot_done comes within one step, and a
\* turn of the advertising task takes no time.
Tick ==
  /\ down = "none" /\ armed
  /\ monitorLeft > 0
  /\ task = "none" \/ (task = "cycling" /\ waitLeft > 0)
  /\ monitorLeft' = monitorLeft - 1
  /\ waitLeft' = Less(waitLeft)
  /\ age' = [s \in Slots |-> Older(age[s])]
  /\ retryLeft' = Less(retryLeft)
  /\ staleFor' = [s \in Slots |-> IF ~Stale(s) THEN 0
                                  ELSE IF staleFor[s] > MonitorPeriod THEN staleFor[s]
                                  ELSE staleFor[s] + 1]
  /\ UNCHANGED <<armed, task, cycle, limit, attached, present, fails, retries,
                 missed, shrunk, slow, down>>

WatchNext ==
  \/ WatchBootDone \/ Sync \/ FirstUpdate
  \/ CycleStep \/ LimitAdv \/ LimitAccel \/ Update
  \/ Monitor \/ Reboot \/ Tick

WatchSpec == WatchInit /\ [][WatchNext]_watchVars

(***************************************************************************)
(* Properties.                                                             *)
(***************************************************************************)

\* No slot stays stale for longer than one period of the monitor: a stall is
\* noticed even when the BLE host never synchronises, and when the cadence
\* shrinks the limit below the age the slot already has (wdt_guard.c:145-173).
StallIsNoticed ==
  armed /\ down = "none" => \A s \in Slots : staleFor[s] <= MonitorPeriod

\* Once the advertising task is up the ADV slot makes the watchdog reboot
\* only for two updates lost in a row, at the slowest cadence and across its
\* changes.  A turn to a faster cadence is the exception: it lowers the limit
\* before its own update, and a monitor that runs between the two
\* (ble_adv.c:285,296) finds the age that one lost update has left above the
\* new limit.  Without a lost update there is no such moment either.
LostUpdateTolerated ==
  down = "ADV" /\ task \notin {"none", "syncing"} =>
    missed >= 2 \/ (missed = 1 /\ shrunk)

\* At the cadences of MOVING and STATIONARY the limit of the ACCEL slot covers
\* the driver's failures and its back-off: the node reboots only after a retry
\* has failed as well (wdt_guard.c:42-45, adxl345.c:171-241).
BackoffNotMistakenWhenFast == down = "ACCEL" /\ ~slow => retries > 0
=============================================================================
