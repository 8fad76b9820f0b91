------------------------------ MODULE BleQueue ------------------------------
(* The ring buffer of corecast_gateway/STM32_WPAN/App/app_ble.c between the  *)
(* advertising-report handler (ble_queue_push) and the main loop             *)
(* (ble_queue_pop).  One of its BLE_QUEUE_SIZE slots always stays empty: that *)
(* is how a full ring differs from an empty one.  A popped slot keeps its old *)
(* bytes.                                                                    *)
EXTENDS Naturals, Sequences

CONSTANTS Message,         \* the values of ble_msg_t the properties tell apart
          NoMessage,       \* a slot, or a caller's buffer, never written
          BLE_QUEUE_SIZE,
          CountLimit       \* 2^32 in the code: the counter wraps there

ASSUME SizeAssumption  == BLE_QUEUE_SIZE \in Nat /\ BLE_QUEUE_SIZE >= 2
ASSUME CountAssumption == CountLimit \in Nat \ {0}
ASSUME NoMessageAssumption == NoMessage \notin Message

VARIABLES ble_queue, ble_q_head, ble_q_tail, ble_queue_overflow_count,
          popped    \* what the last successful ble_queue_pop returned

ringVars == <<ble_queue, ble_q_head, ble_q_tail, ble_queue_overflow_count>>
queueVars == <<ringVars, popped>>

Slot == 0 .. BLE_QUEUE_SIZE - 1

QueueTypeOK ==
  /\ ble_queue \in [Slot -> Message \cup {NoMessage}]
  /\ ble_q_head \in Slot
  /\ ble_q_tail \in Slot
  /\ ble_queue_overflow_count \in 0 .. CountLimit - 1
  /\ popped \in Message \cup {NoMessage}

QueueInit ==
  /\ ble_queue = [i \in Slot |-> NoMessage]
  /\ ble_q_head = 0
  /\ ble_q_tail = 0
  /\ ble_queue_overflow_count = 0
  /\ popped = NoMessage

-----------------------------------------------------------------------------
\* (i + 1) % BLE_QUEUE_SIZE of an index in range.
After(i) == IF i + 1 = BLE_QUEUE_SIZE THEN 0 ELSE i + 1

QueueEmpty == ble_q_head = ble_q_tail

QueueFull == After(ble_q_head) = ble_q_tail

ble_queue_push(m) ==
  \/ /\ QueueFull
     /\ ble_queue_overflow_count' = (ble_queue_overflow_count + 1) % CountLimit
     /\ UNCHANGED <<ble_queue, ble_q_head, ble_q_tail, popped>>
  \/ /\ ~QueueFull
     /\ ble_queue' = [ble_queue EXCEPT ![ble_q_head] = m]
     /\ ble_q_head' = After(ble_q_head)
     /\ UNCHANGED <<ble_q_tail, ble_queue_overflow_count, popped>>

\* Mutant: the newest message is handed out first.
PopNewest ==
  /\ ~QueueEmpty
  /\ ble_q_head' = (IF ble_q_head = 0 THEN BLE_QUEUE_SIZE - 1 ELSE ble_q_head - 1)
  /\ popped' = ble_queue[ble_q_head']
  /\ UNCHANGED <<ble_queue, ble_q_tail, ble_queue_overflow_count>>

\* A pop of an empty ring returns 0 and changes nothing.
ble_queue_pop ==
  /\ ~QueueEmpty
  /\ popped' = ble_queue[ble_q_tail]
  /\ ble_q_tail' = After(ble_q_tail)
  /\ UNCHANGED <<ble_queue, ble_q_head, ble_queue_overflow_count>>

\* A reset of the gateway: the static variables are initialised again.
QueueReset ==
  /\ ble_queue' = [i \in Slot |-> NoMessage]
  /\ ble_q_head' = 0
  /\ ble_q_tail' = 0
  /\ ble_queue_overflow_count' = 0
  /\ popped' = NoMessage

QueueNext == (\E m \in Message : ble_queue_push(m)) \/ ble_queue_pop \/ QueueReset

QueueSpec == QueueInit /\ [][QueueNext]_queueVars

-----------------------------------------------------------------------------
(* The abstract view: the messages from tail to head, oldest first.          *)

Held == IF ble_q_head >= ble_q_tail
        THEN ble_q_head - ble_q_tail
        ELSE ble_q_head + BLE_QUEUE_SIZE - ble_q_tail

Place(k) == IF ble_q_tail + k < BLE_QUEUE_SIZE
            THEN ble_q_tail + k
            ELSE ble_q_tail + k - BLE_QUEUE_SIZE

Content == [i \in 1 .. Held |-> ble_queue[Place(i - 1)]]

Fifo == INSTANCE BoundedFifo WITH
          content  <- Content,
          dropped  <- ble_queue_overflow_count,
          handed   <- popped,
          Capacity <- BLE_QUEUE_SIZE - 1

\* The ring is a FIFO of BLE_QUEUE_SIZE - 1 messages: nothing is lost, doubled
\* or reordered, an old message is never overwritten, and a message is dropped
\* only when that many are held and then counted (app_ble.c:212-230).
ImplementsFifo == Fifo!FifoSpec
=============================================================================
