---------------------------- MODULE GatewayIngest ----------------------------
(* The gateway between the radio and the uplink: the advertising-report      *)
(* handler with its whitelist and its 900 ms debounce (app_ble.c:526-598),   *)
(* the ring of BleQueue, the drain of the ring and the LEDs                  *)
(* (main.c:704-755), in the order of the main loop (main.c:212-229).         *)
(*                                                                           *)
(* All of it runs on one thread: MX_APPE_Process runs the pending BLE events, *)
(* then the rest of the loop runs.  The network part of the loop (GatewayLink)*)
(* and every publish may block, so time passes there too; while it does, the  *)
(* BLE stack keeps the reports and the next scan phase gets them in a burst.  *)
(*                                                                           *)
(* A message stands for its device_id: the payload decides nothing here.      *)
(* The ticks are those of HAL_GetTick, a counter that wraps at TickLimit.     *)
EXTENDS BleQueue, FiniteSets

CONSTANTS TickLimit,        \* 2^32 ms
          Debounce,         \* 900 ms
          LED_TIMEOUT_MS,   \* 5000 ms
          ScanMax,          \* the longest one MX_APPE_Process runs
          WatchdogMax       \* the longest a loop blocks before the IWDG resets

Device == Message

\* Every device of the whitelist has a place in the ring (12 devices, 15 places:
\* app_ble.c:181-196), and one run of the pending events is shorter than the
\* debounce interval, which the code relies on and does not enforce.
ASSUME WhitelistAssumption ==
         IsFiniteSet(Device) /\ Cardinality(Device) < BLE_QUEUE_SIZE
ASSUME TimeAssumption ==
  /\ Debounce \in Nat /\ LED_TIMEOUT_MS \in Nat
  /\ ScanMax \in Nat /\ ScanMax < Debounce
  /\ WatchdogMax \in Nat
  /\ TickLimit \in Nat /\ Debounce < TickLimit
  /\ LED_TIMEOUT_MS + ScanMax + 2 * WatchdogMax < TickLimit

VARIABLES pc,             \* "scan", "net", "drain" or "led": where the loop is
          spent,          \* how long this phase has taken so far
          tick,           \* HAL_GetTick()
          last_tick,      \* myDevices[d].last_tick
          now,            \* `now' of handle_ble_messages, 0 outside it
          led_active, led_last_seen,
          silence         \* history: time since the drain that saw d last began

ingestVars ==
  <<pc, spent, tick, last_tick, now, led_active, led_last_seen, silence>>
vars == <<queueVars, ingestVars>>

Tick == 0 .. TickLimit - 1
Long == LED_TIMEOUT_MS + 1    \* silence is counted up to here

TypeOK ==
  /\ QueueTypeOK
  /\ pc \in {"scan", "net", "drain", "led"}
  /\ spent \in 0 .. ScanMax + WatchdogMax
  /\ tick \in Tick /\ now \in Tick
  /\ last_tick \in [Device -> Tick] /\ led_last_seen \in [Device -> Tick]
  /\ led_active \in [Device -> BOOLEAN]
  /\ silence \in [Device -> 0 .. Long]

\* A boot: everything volatile starts at zero.
Boot ==
  /\ pc = "scan" /\ spent = 0
  /\ tick = 0 /\ now = 0
  /\ last_tick = [d \in Device |-> 0]
  /\ led_active = [d \in Device |-> FALSE]
  /\ led_last_seen = [d \in Device |-> 0]
  /\ silence = [d \in Device |-> Long]

Init == QueueInit /\ Boot

-----------------------------------------------------------------------------
\* Unsigned differences of ticks, and the tick after t.
Since(t, u) == IF t >= u THEN t - u ELSE t + TickLimit - u
NextTick(t) == IF t + 1 = TickLimit THEN 0 ELSE t + 1

Limit == [scan |-> ScanMax, net |-> WatchdogMax, drain |-> WatchdogMax, led |-> 0]

\* A tick passes while the loop is in a phase.
Elapse ==
  /\ spent < Limit[pc]
  /\ spent' = spent + 1
  /\ tick' = NextTick(tick)
  /\ silence' = [d \in Device |-> IF silence[d] = Long THEN Long ELSE silence[d] + 1]
  /\ UNCHANGED <<queueVars, pc, last_tick, now, led_active, led_last_seen>>

\* Mutant: no debounce.
AnyTime(d) == TRUE
Debounced(d) == Since(tick, last_tick[d]) >= Debounce

\* A report of a whitelisted device with CoreCast's manufacturer data.  Reports of
\* other devices, of other formats and within the debounce interval change nothing.
Report(d) ==
  /\ pc = "scan"
  /\ Debounced(d)
  /\ last_tick' = [last_tick EXCEPT ![d] = tick]
  /\ ble_queue_push(d)
  /\ UNCHANGED <<pc, spent, tick, now, led_active, led_last_seen, silence>>

Enter(phase) == pc' = phase /\ spent' = 0

\* MX_APPE_Process returns; the health check and the reconnect follow.
EndScan ==
  /\ pc = "scan"
  /\ Enter("net")
  /\ UNCHANGED <<queueVars, tick, last_tick, now, led_active, led_last_seen, silence>>

StartDrain ==
  /\ pc = "net"
  /\ Enter("drain")
  /\ now' = tick
  /\ UNCHANGED <<queueVars, tick, last_tick, led_active, led_last_seen, silence>>

\* Mutant: the LED's time is set only when the LED is switched on.
HandleAtLedOnly(d) ==
  /\ ble_queue_pop
  /\ led_active' = [led_active EXCEPT ![d] = TRUE]
  /\ led_last_seen' = IF led_active[d] THEN led_last_seen
                      ELSE [led_last_seen EXCEPT ![d] = now]
  /\ silence' = [silence EXCEPT ![d] = IF spent < Long THEN spent ELSE Long]

HandleOldest(d) ==
  /\ ble_queue_pop
  /\ led_active' = [led_active EXCEPT ![d] = TRUE]
  /\ led_last_seen' = [led_last_seen EXCEPT ![d] = now]
  /\ silence' = [silence EXCEPT ![d] = IF spent < Long THEN spent ELSE Long]

\* One turn of the while loop of handle_ble_messages.  The message's LED time is
\* the `now' taken before the loop, however long the publishes before it took.
\* Every device_id of the whitelist is below LED_COUNT (20).
Handle ==
  /\ pc = "drain"
  /\ ~QueueEmpty
  /\ HandleOldest(ble_queue[ble_q_tail])
  /\ UNCHANGED <<pc, spent, tick, last_tick, now>>

\* Mutant: the drain gives up after a publish that fails.
EndDrainOnFailedPublish ==
  /\ pc = "drain"
  /\ Enter("led")
  /\ now' = 0
  /\ UNCHANGED <<queueVars, tick, last_tick, led_active, led_last_seen, silence>>

\* handle_ble_messages returns, and its local `now' is gone.
EndDrain ==
  /\ pc = "drain"
  /\ QueueEmpty
  /\ Enter("led")
  /\ now' = 0
  /\ UNCHANGED <<queueVars, tick, last_tick, led_active, led_last_seen, silence>>

check_led_timeouts ==
  /\ pc = "led"
  /\ led_active' = [d \in Device |->
       led_active[d] /\ Since(tick, led_last_seen[d]) <= LED_TIMEOUT_MS]
  /\ Enter("scan")
  /\ UNCHANGED <<queueVars, tick, last_tick, now, led_last_seen, silence>>

\* The network part or a publish has blocked for too long: the IWDG resets.
WatchdogReset ==
  /\ pc \in {"net", "drain"}
  /\ spent = WatchdogMax
  /\ pc' = "scan" /\ spent' = 0
  /\ tick' = 0 /\ now' = 0
  /\ last_tick' = [d \in Device |-> 0]
  /\ led_active' = [d \in Device |-> FALSE]
  /\ led_last_seen' = [d \in Device |-> 0]
  /\ silence' = [d \in Device |-> Long]
  /\ QueueReset

Loop == EndScan \/ StartDrain \/ Handle \/ EndDrain \/ check_led_timeouts

Next == Elapse \/ (\E d \in Device : Report(d)) \/ Loop \/ WatchdogReset

Spec == Init /\ [][Next]_vars

-----------------------------------------------------------------------------
\* The ring never overflows (app_ble.c:196, 215-219): a device enters it once per
\* scan phase because the debounce outlasts the phase, and every drain empties
\* it (main.c:718-720), however long the loop was blocked before a burst.
QueueNeverOverflows == ble_queue_overflow_count = 0

\* At the end of each loop the LED of a device is on exactly when a drain begun in
\* the last LED_TIMEOUT_MS saw it, also when the tick wraps between the two and
\* when a publish delays the check (main.c:704-716, 735-741).
LedsTellWhoIsHeard ==
  pc = "scan" /\ spent = 0 =>
    \A d \in Device : led_active[d] <=> silence[d] <= LED_TIMEOUT_MS
=============================================================================
