------------------------- MODULE GatewayIngestProofs -------------------------
(* Proofs about the ring and the ingest of the gateway: the ring implements  *)
(* the bounded FIFO for every size and every set of messages; for every      *)
(* whitelist with fewer devices than the ring has slots, every debounce      *)
(* longer than a scan phase and every tick width it never overflows, and the *)
(* LEDs tell who is heard.                                                   *)
EXTENDS GatewayIngest, SequenceTheorems, FiniteSetTheorems, TLAPS

-----------------------------------------------------------------------------
(* BleQueue: the indices stay in range, and the ring is the bounded FIFO.     *)

\* The slots from tail to head hold messages, never bytes that were not pushed.
QueueInv == QueueTypeOK /\ \A i \in 1 .. Held : Content[i] \in Message

-----------------------------------------------------------------------------
\* The distance between the two indices: below the size, 0 exactly when the ring
\* is empty and one slot short of the size exactly when it is full
\* (app_ble.c:214-215 and 226).
LEMMA HeldRange ==
  ASSUME QueueTypeOK
  PROVE  /\ Held \in 0 .. BLE_QUEUE_SIZE - 1
         /\ QueueEmpty <=> Held = 0
         /\ QueueFull <=> Held = BLE_QUEUE_SIZE - 1
BY SizeAssumption DEF QueueTypeOK, Slot, Held, QueueEmpty, QueueFull, After

\* What is held is a sequence of Held messages.
LEMMA ContentIsSeq ==
  ASSUME QueueInv
  PROVE  Content \in Seq(Message) /\ Len(Content) = Held
<1>1. Held \in Nat /\ QueueTypeOK
  BY HeldRange, SizeAssumption DEF QueueInv
<1>2. Content \in [1 .. Held -> Message]
  BY DEF QueueInv, Content
<1> QED BY <1>1, <1>2

\* A push into a ring with room appends the message and moves nothing else
\* (app_ble.c:220-221).
LEMMA PushAppends ==
  ASSUME QueueInv, NEW m \in Message, ~QueueFull, ble_queue_push(m)
  PROVE  QueueInv' /\ Content' = Append(Content, m) /\ Held' = Held + 1
<1>1. /\ ble_queue' = [ble_queue EXCEPT ![ble_q_head] = m]
      /\ ble_q_head' = After(ble_q_head)
      /\ UNCHANGED <<ble_q_tail, ble_queue_overflow_count, popped>>
  BY DEF ble_queue_push
<1>2. QueueTypeOK'
  BY <1>1, SizeAssumption DEF QueueInv, QueueTypeOK, Slot, After
<1>3. Held < BLE_QUEUE_SIZE - 1 /\ Held \in Nat
  BY HeldRange, SizeAssumption DEF QueueInv
<1>4. Held' = Held + 1
  BY <1>1, <1>3, SizeAssumption DEF QueueInv, QueueTypeOK, Slot, Held, After
<1>5. ASSUME NEW k \in 0 .. Held
      PROVE  /\ Place(k)' = Place(k)
             /\ Place(k) \in Slot
             /\ Place(k) = ble_q_head <=> k = Held
  BY <1>1, <1>3, SizeAssumption DEF QueueInv, QueueTypeOK, Slot, Held, Place
<1>6. ASSUME NEW i \in 1 .. Held + 1
      PROVE  Content'[i] = IF i = Held + 1 THEN m ELSE Content[i]
  <2>1. i - 1 \in 0 .. Held
    BY <1>3
  <2>2. Content'[i] = ble_queue'[Place(i - 1)]
    BY <1>4, <1>5, <2>1 DEF Content
  <2>3. CASE i = Held + 1
    BY <1>1, <1>3, <1>5, <2>1, <2>2, <2>3 DEF QueueInv, QueueTypeOK
  <2>4. CASE i # Held + 1
    <3>1. i \in 1 .. Held /\ i - 1 # Held
      BY <1>3, <2>4
    <3>2. Content[i] = ble_queue[Place(i - 1)]
      BY <3>1 DEF Content
    <3> QED BY <1>1, <1>5, <2>1, <2>2, <2>4, <3>1, <3>2 DEF QueueInv, QueueTypeOK
  <2> QED BY <2>3, <2>4
<1>7. QueueInv'
  BY <1>2, <1>3, <1>4, <1>6 DEF QueueInv
<1>8. Content' = Append(Content, m)
  <2>1. Content \in Seq(Message) /\ Len(Content) = Held
    BY ContentIsSeq
  <2>2. Content' \in Seq(Message) /\ Len(Content') = Held'
    <3>1. Content' \in [1 .. Held' -> Message]
      BY <1>7 DEF QueueInv, Content
    <3> QED BY <1>3, <1>4, <3>1
  <2> DEFINE t == Append(Content, m)
  <2>3. /\ t \in Seq(Message) /\ Len(t) = Held + 1
        /\ \A i \in 1 .. Held + 1 : t[i] = IF i = Held + 1 THEN m ELSE Content[i]
    BY <1>3, <2>1
  <2>4. Len(Content') = Len(t) /\ \A i \in 1 .. Len(Content') : Content'[i] = t[i]
    BY <1>4, <1>6, <2>2, <2>3
  <2> HIDE DEF t
  <2>5. Content' = t
    BY <2>2, <2>3, <2>4, SeqEqual
  <2> QED BY <2>5 DEF t
<1> QED BY <1>4, <1>7, <1>8

\* A push into a full ring only counts (app_ble.c:217-218).
LEMMA PushCounts ==
  ASSUME QueueInv, NEW m \in Message, QueueFull, ble_queue_push(m)
  PROVE  /\ QueueInv' /\ Content' = Content
         /\ ble_queue_overflow_count' = (ble_queue_overflow_count + 1) % CountLimit
         /\ popped' = popped
<1>1. /\ ble_queue_overflow_count' = (ble_queue_overflow_count + 1) % CountLimit
      /\ UNCHANGED <<ble_queue, ble_q_head, ble_q_tail, popped>>
  BY DEF ble_queue_push
<1>2. Content' = Content /\ Held' = Held
  BY <1>1 DEF Content, Held, Place
<1>3. ble_queue_overflow_count' \in 0 .. CountLimit - 1
  BY <1>1, CountAssumption DEF QueueInv, QueueTypeOK
<1> QED BY <1>1, <1>2, <1>3 DEF QueueInv, QueueTypeOK

\* A pop hands out the oldest message and keeps the others in their order
\* (app_ble.c:227-228).
LEMMA PopTakesOldest ==
  ASSUME QueueInv, ble_queue_pop
  PROVE  /\ QueueInv' /\ Content # <<>>
         /\ popped' = Head(Content) /\ Content' = Tail(Content)
         /\ Held' = Held - 1
<1>1. /\ ~QueueEmpty
      /\ popped' = ble_queue[ble_q_tail]
      /\ ble_q_tail' = After(ble_q_tail)
      /\ UNCHANGED <<ble_queue, ble_q_head, ble_queue_overflow_count>>
  BY DEF ble_queue_pop
<1>2. QueueTypeOK'
  BY <1>1, SizeAssumption DEF QueueInv, QueueTypeOK, Slot, After
<1>3. Held \in 1 .. BLE_QUEUE_SIZE - 1
  BY <1>1, HeldRange, SizeAssumption DEF QueueInv
<1>4. Held' = Held - 1
  BY <1>1, <1>3, SizeAssumption DEF QueueInv, QueueTypeOK, Slot, Held, After, QueueEmpty
<1>5. Content \in Seq(Message) /\ Len(Content) = Held
  BY ContentIsSeq
<1>6. Content # <<>> /\ Content[1] = ble_queue[ble_q_tail]
  <2>1. Place(0) = ble_q_tail
    BY SizeAssumption DEF QueueInv, QueueTypeOK, Slot, Place
  <2>2. Content[1] = ble_queue[Place(0)]
    BY <1>3 DEF Content
  <2> QED BY <1>3, <1>5, <2>1, <2>2
<1>7. ASSUME NEW i \in 1 .. Held - 1
      PROVE  Content'[i] = Content[i + 1]
  <2>1. Place(i - 1)' = Place(i)
    BY <1>1, <1>3, SizeAssumption DEF QueueInv, QueueTypeOK, Slot, Place, Held, After
  <2>2. Content'[i] = ble_queue'[Place(i - 1)']
    BY <1>4 DEF Content
  <2>3. Content[i + 1] = ble_queue[Place((i + 1) - 1)] /\ (i + 1) - 1 = i
    BY <1>3 DEF Content
  <2> QED BY <1>1, <2>1, <2>2, <2>3
<1>8. QueueInv'
  BY <1>2, <1>3, <1>4, <1>7 DEF QueueInv
<1>9. Content' = Tail(Content)
  <2>1. Content' \in Seq(Message) /\ Len(Content') = Held'
    <3>1. Content' \in [1 .. Held' -> Message]
      BY <1>8 DEF QueueInv, Content
    <3> QED BY <1>3, <1>4, <3>1
  <2>2. /\ Tail(Content) \in Seq(Message) /\ Len(Tail(Content)) = Held - 1
        /\ \A i \in 1 .. Held - 1 : Tail(Content)[i] = Content[i + 1]
    BY <1>5, <1>6, HeadTailProperties
  <2>3. Len(Content') = Len(Tail(Content))
        /\ \A i \in 1 .. Len(Content') : Content'[i] = Tail(Content)[i]
    BY <1>4, <1>7, <2>1, <2>2
  <2> QED BY <2>1, <2>2, <2>3, SeqEqual
<1>10. Head(Content) = Content[1]
  BY <1>5, <1>6
<1> QED BY <1>1, <1>4, <1>6, <1>8, <1>9, <1>10

-----------------------------------------------------------------------------
LEMMA InitHolds == ASSUME QueueInit PROVE QueueInv /\ Content = <<>>
<1>1. QueueTypeOK
  BY SizeAssumption, CountAssumption DEF QueueInit, QueueTypeOK, Slot
<1>2. Held = 0
  BY DEF QueueInit, Held
<1> QED BY <1>1, <1>2 DEF QueueInv, Content

LEMMA ResetHolds == ASSUME QueueReset PROVE QueueInv' /\ Content' = <<>>
<1>1. /\ ble_queue' = [i \in Slot |-> NoMessage]
      /\ ble_q_head' = 0 /\ ble_q_tail' = 0
      /\ ble_queue_overflow_count' = 0 /\ popped' = NoMessage
  BY DEF QueueReset
<1>2. QueueTypeOK'
  BY <1>1, SizeAssumption, CountAssumption DEF QueueTypeOK, Slot
<1>3. Held' = 0
  BY <1>1 DEF Held
<1>4. Content' = [i \in 1 .. Held' |-> ble_queue'[Place(i - 1)']]
  BY DEF Content
<1>5. 1 .. Held' = {}
  BY <1>3
<1> QED BY <1>2, <1>4, <1>5 DEF QueueInv

LEMMA StepHolds == ASSUME QueueInv, [QueueNext]_queueVars PROVE QueueInv'
<1>1. ASSUME NEW m \in Message, ble_queue_push(m) PROVE QueueInv'
  BY <1>1, PushAppends, PushCounts
<1>2. CASE ble_queue_pop
  BY <1>2, PopTakesOldest
<1>3. CASE UNCHANGED queueVars
  BY <1>3 DEF queueVars, ringVars, QueueInv, QueueTypeOK, Content, Held, Place
<1>4. CASE QueueReset
  BY <1>4, ResetHolds
<1> QED BY <1>1, <1>2, <1>3, <1>4 DEF QueueNext

\* The indices and the slots keep their type (app_ble.c:207-228).
THEOREM QueueTypeCorrect == QueueSpec => []QueueTypeOK
<1>1. QueueInit => QueueInv BY InitHolds
<1>2. QueueInv /\ [QueueNext]_queueVars => QueueInv' BY StepHolds
<1>3. QueueInv => QueueTypeOK BY DEF QueueInv
<1> QED BY <1>1, <1>2, <1>3, PTL DEF QueueSpec

LEMMA FifoStep ==
  ASSUME QueueInv, [QueueNext]_queueVars
  PROVE  [Fifo!FifoNext]_(Fifo!fifoVars)
<1>1. ASSUME NEW m \in Message, ble_queue_push(m), QueueFull
      PROVE  Fifo!Refuse
  <2>1. Content' = Content
        /\ ble_queue_overflow_count' = (ble_queue_overflow_count + 1) % CountLimit
        /\ popped' = popped
    BY <1>1, PushCounts
  <2>2. Len(Content) = BLE_QUEUE_SIZE - 1
    BY <1>1, ContentIsSeq, HeldRange DEF QueueInv
  <2> QED BY <2>1, <2>2 DEF Fifo!Refuse
<1>2. ASSUME NEW m \in Message, ble_queue_push(m), ~QueueFull
      PROVE  Fifo!Offer(m)
  <2>1. Content' = Append(Content, m)
    BY <1>2, PushAppends
  <2>2. Len(Content) < BLE_QUEUE_SIZE - 1
    BY <1>2, ContentIsSeq, HeldRange, SizeAssumption DEF QueueInv
  <2>3. UNCHANGED <<ble_queue_overflow_count, popped>>
    BY <1>2 DEF ble_queue_push
  <2> QED BY <2>1, <2>2, <2>3 DEF Fifo!Offer
<1>3. CASE ble_queue_pop
  <2>1. UNCHANGED ble_queue_overflow_count
    BY <1>3 DEF ble_queue_pop
  <2> QED BY <1>3, <2>1, PopTakesOldest DEF Fifo!FifoNext, Fifo!Take
<1>4. CASE UNCHANGED queueVars
  BY <1>4 DEF queueVars, ringVars, Fifo!fifoVars, Content, Held, Place
<1>5. CASE QueueReset
  BY <1>5, ResetHolds DEF QueueReset, Fifo!FifoNext, Fifo!Clear
<1> QED BY <1>1, <1>2, <1>3, <1>4, <1>5 DEF QueueNext, Fifo!FifoNext

\* The ring is a bounded FIFO: nothing held is lost, doubled, overwritten or
\* reordered, whatever the size and the interleaving of pushes, pops and resets.
THEOREM QueueIsFifo == QueueSpec => ImplementsFifo
<1>1. QueueInit => QueueInv BY InitHolds
<1>2. QueueInit => Fifo!FifoInit
  BY InitHolds DEF QueueInit, Fifo!FifoInit
<1>3. QueueInv /\ [QueueNext]_queueVars => QueueInv' BY StepHolds
<1>4. QueueInv /\ [QueueNext]_queueVars => [Fifo!FifoNext]_(Fifo!fifoVars)
  BY FifoStep
<1> QED BY <1>1, <1>2, <1>3, <1>4, PTL DEF QueueSpec, ImplementsFifo, Fifo!FifoSpec

\* So it is where the gateway uses it: the handler pushes, the drain pops, and
\* nothing else touches the ring but a reset.
THEOREM IngestIsFifo == Spec => ImplementsFifo
<1>1. Init => QueueInit
  BY DEF Init
<1>2. [Next]_vars => [QueueNext]_queueVars
  <2> SUFFICES ASSUME [Next]_vars PROVE [QueueNext]_queueVars
    OBVIOUS
  <2>1. ASSUME NEW d \in Device, Report(d) PROVE QueueNext
    BY <2>1 DEF Report, QueueNext, Device
  <2>2. CASE Handle
    BY <2>2 DEF Handle, HandleOldest, QueueNext
  <2>3. CASE WatchdogReset
    BY <2>3 DEF WatchdogReset, QueueNext
  <2>4. CASE UNCHANGED queueVars
    BY <2>4
  <2> QED BY <2>1, <2>2, <2>3, <2>4
        DEF Next, Loop, vars, Elapse, EndScan, StartDrain, EndDrain, check_led_timeouts
<1> QED BY <1>1, <1>2, QueueIsFifo, PTL DEF Spec, QueueSpec

-----------------------------------------------------------------------------
(* GatewayIngest.  The inductive invariant.  A device is in the ring at most *)
(* once; during the scan phase that put it there it is still inside its      *)
(* debounce interval; the next scan phase starts from an empty ring.         *)

OncePerDevice ==
  \A i, j \in 1 .. Held : Content[i] = Content[j] => i = j

StillDebounced ==
  pc = "scan" => /\ spent <= ScanMax
                 /\ \A i \in 1 .. Held : Since(tick, last_tick[Content[i]]) <= spent

ClockOK == tick \in Tick /\ last_tick \in [Device -> Tick] /\ spent \in Nat

EmptyAtEnd == pc = "led" => Held = 0

IInv ==
  /\ QueueInv /\ ClockOK
  /\ OncePerDevice /\ StillDebounced /\ EmptyAtEnd
  /\ QueueNeverOverflows

-----------------------------------------------------------------------------
\* The tick after t is one tick later for every reading not yet a full turn old.
LEMMA SinceAdvances ==
  ASSUME NEW t \in Tick, NEW u \in Tick, NEW n \in Nat,
         Since(t, u) <= n
  PROVE  /\ NextTick(t) \in Tick
         /\ Since(NextTick(t), u) <= n + 1
BY TimeAssumption DEF Tick, Since, NextTick

\* A device that is not in the ring finds a place there: the devices in it are
\* distinct, and all of the whitelist fits (app_ble.c:196).
LEMMA RoomForAbsent ==
  ASSUME QueueInv, OncePerDevice, NEW d \in Device,
         \A i \in 1 .. Held : Content[i] # d
  PROVE  ~QueueFull
<1> DEFINE f == [i \in 1 .. Held + 1 |-> IF i = Held + 1 THEN d ELSE Content[i]]
<1>1. Held \in Nat
  BY HeldRange, SizeAssumption DEF QueueInv
<1>2. \A i \in 1 .. Held : Content[i] \in Device
  BY DEF QueueInv, Device
<1>3. f \in [1 .. Held + 1 -> Device]
  <2>1. ASSUME NEW i \in 1 .. Held + 1
        PROVE  (IF i = Held + 1 THEN d ELSE Content[i]) \in Device
    <3>1. CASE i = Held + 1 BY <3>1
    <3>2. CASE i # Held + 1
      <4>1. i \in 1 .. Held BY <1>1, <3>2
      <4> QED BY <1>2, <3>2, <4>1
    <3> QED BY <3>1, <3>2
  <2> QED BY <2>1
<1>4. ASSUME NEW i \in 1 .. Held + 1, NEW j \in 1 .. Held + 1, f[i] = f[j]
      PROVE  i = j
  <2>1. i # Held + 1 => i \in 1 .. Held BY <1>1
  <2>2. j # Held + 1 => j \in 1 .. Held BY <1>1
  <2> QED BY <1>4, <2>1, <2>2 DEF OncePerDevice
<1>5. f \in Injection(1 .. Held + 1, Device)
  BY <1>3, <1>4 DEF Injection, IsInjective
<1> HIDE DEF f
<1>6. Cardinality(1 .. Held + 1) <= Cardinality(Device)
  BY <1>5, WhitelistAssumption, FS_Injection
<1>7. Cardinality(1 .. Held + 1) = Held + 1
  BY <1>1, FS_Interval
<1>8. Cardinality(Device) \in Nat
  BY WhitelistAssumption, FS_CardinalityType
<1> QED BY <1>1, <1>6, <1>7, <1>8, WhitelistAssumption, SizeAssumption,
           HeldRange DEF QueueInv

\* What the invariant says of the ring survives a step that leaves it alone.
LEMMA RingUntouched ==
  ASSUME IInv, UNCHANGED ringVars, popped' = popped
  PROVE  /\ QueueInv' /\ OncePerDevice' /\ QueueNeverOverflows'
         /\ Content' = Content /\ Held' = Held /\ QueueEmpty' = QueueEmpty
<1>1. Content' = Content /\ Held' = Held
  BY DEF ringVars, Content, Held, Place
<1> QED BY <1>1 DEF IInv, ringVars, QueueInv, QueueTypeOK, OncePerDevice,
                    QueueNeverOverflows, QueueEmpty

LEMMA EmptyRing ==
  ASSUME QueueInit PROVE QueueInv /\ Held = 0 /\ OncePerDevice /\ QueueNeverOverflows
<1>1. QueueInv BY InitHolds
<1>2. Held = 0 BY DEF QueueInit, Held
<1> QED BY <1>1, <1>2 DEF QueueInit, OncePerDevice, QueueNeverOverflows

-----------------------------------------------------------------------------
LEMMA InitInv == Init => IInv
<1> SUFFICES ASSUME Init PROVE IInv OBVIOUS
<1>1. QueueInv /\ Held = 0 /\ OncePerDevice /\ QueueNeverOverflows
  BY EmptyRing DEF Init
<1>2. ClockOK
  BY TimeAssumption DEF Init, Boot, ClockOK, Tick
<1>3. StillDebounced /\ EmptyAtEnd
  BY <1>1, TimeAssumption DEF Init, Boot, StillDebounced, EmptyAtEnd
<1> QED BY <1>1, <1>2, <1>3 DEF IInv

LEMMA ElapseInv == ASSUME IInv, Elapse PROVE IInv'
<1>1. UNCHANGED queueVars /\ UNCHANGED ringVars
      /\ pc' = pc /\ last_tick' = last_tick
      /\ spent' = spent + 1 /\ tick' = NextTick(tick) /\ spent < Limit[pc]
  BY DEF Elapse, queueVars
<1>2. /\ QueueInv' /\ OncePerDevice' /\ QueueNeverOverflows'
      /\ Content' = Content /\ Held' = Held
  BY <1>1, RingUntouched DEF queueVars
<1>3. Held \in Nat /\ ScanMax \in Nat
  BY HeldRange, SizeAssumption, TimeAssumption DEF IInv, QueueInv
<1>4. ClockOK'
  BY <1>1, TimeAssumption DEF IInv, ClockOK, Tick, NextTick
<1>5. StillDebounced'
  <2>1. SUFFICES ASSUME pc = "scan" PROVE
          /\ spent' <= ScanMax
          /\ \A i \in 1 .. Held : Since(tick', last_tick[Content[i]]) <= spent'
    BY <1>1, <1>2 DEF StillDebounced, Since
  <2>2. spent + 1 <= ScanMax
    BY <1>1, <1>3, <2>1 DEF Limit, IInv, ClockOK
  <2>3. ASSUME NEW i \in 1 .. Held
        PROVE  Since(tick', last_tick[Content[i]]) <= spent'
    <3>1. Content[i] \in Device BY DEF IInv, QueueInv, Device
    <3>2. last_tick[Content[i]] \in Tick /\ tick \in Tick /\ spent \in Nat
      BY <3>1 DEF IInv, ClockOK
    <3>3. Since(tick, last_tick[Content[i]]) <= spent
      BY <2>1 DEF IInv, StillDebounced
    <3> QED BY <1>1, <3>2, <3>3, SinceAdvances
  <2> QED BY <1>1, <2>2, <2>3
<1>6. EmptyAtEnd'
  BY <1>1, <1>2 DEF IInv, EmptyAtEnd
<1> QED BY <1>2, <1>4, <1>5, <1>6 DEF IInv

LEMMA ReportInv == ASSUME IInv, NEW d \in Device, Report(d) PROVE IInv'
<1>1. /\ pc = "scan" /\ Debounced(d) /\ ble_queue_push(d)
      /\ last_tick' = [last_tick EXCEPT ![d] = tick]
      /\ pc' = pc /\ spent' = spent /\ tick' = tick
  BY DEF Report
<1>2. Held \in Nat /\ ClockOK /\ QueueInv /\ OncePerDevice /\ d \in Message
  BY HeldRange, SizeAssumption DEF IInv, QueueInv, Device
<1>3. \A i \in 1 .. Held : Content[i] \in Device
  BY DEF IInv, QueueInv, Device
<1>4. spent <= ScanMax
      /\ \A i \in 1 .. Held : Since(tick, last_tick[Content[i]]) <= spent
  BY <1>1 DEF IInv, StillDebounced
<1>5. ASSUME NEW i \in 1 .. Held PROVE Content[i] # d
  <2>1. SUFFICES ASSUME Content[i] = d PROVE FALSE OBVIOUS
  <2>2. Since(tick, last_tick[d]) <= spent BY <1>4, <2>1
  <2>3. Since(tick, last_tick[d]) >= Debounce BY <1>1 DEF Debounced
  <2>4. Since(tick, last_tick[d]) \in Int /\ spent \in Nat
    BY <1>2, TimeAssumption DEF ClockOK, Tick, Since
  <2> QED BY <1>4, <2>2, <2>3, <2>4, TimeAssumption
<1>6. ~QueueFull
  BY <1>2, <1>5, RoomForAbsent
<1>7. QueueInv' /\ Content' = Append(Content, d)
  BY <1>1, <1>2, <1>6, PushAppends
<1>8. Content \in Seq(Message) /\ Len(Content) = Held
  BY <1>2, ContentIsSeq
<1>9. Held' = Held + 1
  BY <1>1, <1>2, <1>6, PushAppends
<1>10. \A i \in 1 .. Held + 1 :
         Content'[i] = IF i = Held + 1 THEN d ELSE Content[i]
  BY <1>2, <1>7, <1>8
<1>11. OncePerDevice'
  <2>1. ASSUME NEW i \in 1 .. Held + 1, NEW j \in 1 .. Held + 1,
               Content'[i] = Content'[j]
        PROVE  i = j
    <3>1. i # Held + 1 => i \in 1 .. Held BY <1>2
    <3>2. j # Held + 1 => j \in 1 .. Held BY <1>2
    <3> QED BY <1>2, <1>5, <1>10, <2>1, <3>1, <3>2 DEF OncePerDevice
  <2> QED BY <1>9, <2>1 DEF OncePerDevice
<1>12. ClockOK'
  BY <1>1, <1>2 DEF ClockOK, Device
<1>13. StillDebounced'
  <2>1. ASSUME NEW i \in 1 .. Held + 1
        PROVE  Since(tick, last_tick'[Content'[i]]) <= spent
    <3>1. CASE i = Held + 1
      <4>1. last_tick'[Content'[i]] = tick
        BY <1>1, <1>2, <1>10, <3>1 DEF ClockOK
      <4>2. tick \in Int /\ spent \in Nat
        BY <1>2, TimeAssumption DEF ClockOK, Tick
      <4> QED BY <4>1, <4>2 DEF Since
    <3>2. CASE i # Held + 1
      <4>1. i \in 1 .. Held BY <1>2, <3>2
      <4>2. Content'[i] = Content[i] /\ Content[i] # d
        BY <1>5, <1>10, <3>2, <4>1
      <4>3. last_tick'[Content'[i]] = last_tick[Content[i]]
        BY <1>1, <1>2, <1>3, <4>1, <4>2 DEF ClockOK
      <4> QED BY <1>4, <4>1, <4>3
    <3> QED BY <3>1, <3>2
  <2> QED BY <1>1, <1>4, <1>9, <2>1 DEF StillDebounced, Since
<1>14. EmptyAtEnd'
  BY <1>1 DEF EmptyAtEnd
<1>15. QueueNeverOverflows'
  BY <1>1, <1>6 DEF IInv, QueueNeverOverflows, ble_queue_push
<1> QED BY <1>7, <1>11, <1>12, <1>13, <1>14, <1>15 DEF IInv

LEMMA HandleInv == ASSUME IInv, Handle PROVE IInv'
<1>1. /\ pc = "drain" /\ ble_queue_pop /\ pc' = pc
      /\ spent' = spent /\ tick' = tick /\ last_tick' = last_tick
  BY DEF Handle, HandleOldest
<1>2. QueueInv /\ QueueInv' /\ Content # <<>> /\ Content' = Tail(Content)
  BY <1>1, PopTakesOldest DEF IInv
<1>3. Content \in Seq(Message) /\ Len(Content) = Held
  BY <1>2, ContentIsSeq
<1>4. Held' = Held - 1 /\ Held \in Nat /\ Held' \in Nat
  <2>1. Held' = Held - 1 BY <1>1, <1>2, PopTakesOldest
  <2>2. Held \in Nat /\ Held # 0 BY <1>2, <1>3
  <2> QED BY <2>1, <2>2
<1>5. \A i \in 1 .. Held' : Content'[i] = Content[i + 1]
  BY <1>2, <1>3, <1>4, HeadTailProperties
<1>6. OncePerDevice'
  <2>1. ASSUME NEW i \in 1 .. Held', NEW j \in 1 .. Held', Content'[i] = Content'[j]
        PROVE  i = j
    <3>1. i + 1 \in 1 .. Held /\ j + 1 \in 1 .. Held BY <1>4
    <3>2. i + 1 = j + 1 BY <1>5, <2>1, <3>1 DEF IInv, OncePerDevice
    <3> QED BY <3>2, <1>4
  <2> QED BY <2>1 DEF OncePerDevice
<1>7. QueueNeverOverflows'
  BY <1>1 DEF IInv, QueueNeverOverflows, ble_queue_pop
<1>8. ClockOK' /\ StillDebounced' /\ EmptyAtEnd'
  BY <1>1 DEF IInv, ClockOK, StillDebounced, EmptyAtEnd
<1> QED BY <1>2, <1>6, <1>7, <1>8 DEF IInv

\* The steps of the loop that leave the ring alone.
LEMMA PhaseInv ==
  ASSUME IInv, EndScan \/ StartDrain \/ EndDrain \/ check_led_timeouts
  PROVE  IInv'
<1>1. /\ UNCHANGED ringVars /\ popped' = popped
      /\ tick' = tick /\ last_tick' = last_tick /\ spent' = 0
  BY DEF EndScan, StartDrain, EndDrain, check_led_timeouts, Enter, queueVars
<1>2. /\ QueueInv' /\ OncePerDevice' /\ QueueNeverOverflows'
      /\ Content' = Content /\ Held' = Held
  BY <1>1, RingUntouched
<1>3. ClockOK'
  BY <1>1 DEF IInv, ClockOK
<1>4. StillDebounced'
  <2>1. pc' = "scan" => Held = 0
    BY DEF EndScan, StartDrain, EndDrain, check_led_timeouts, Enter, IInv, EmptyAtEnd
  <2> QED BY <1>1, <1>2, <2>1, TimeAssumption DEF StillDebounced
<1>5. EmptyAtEnd'
  <2>1. pc' = "led" => QueueEmpty
    BY DEF EndScan, StartDrain, EndDrain, check_led_timeouts, Enter
  <2>2. QueueEmpty => Held = 0
    BY HeldRange DEF IInv, QueueInv
  <2> QED BY <1>2, <2>1, <2>2 DEF EmptyAtEnd
<1> QED BY <1>2, <1>3, <1>4, <1>5 DEF IInv

LEMMA ResetInv == ASSUME WatchdogReset PROVE IInv'
<1>1. /\ ble_queue' = [i \in Slot |-> NoMessage]
      /\ ble_q_head' = 0 /\ ble_q_tail' = 0
      /\ ble_queue_overflow_count' = 0 /\ popped' = NoMessage
  BY DEF WatchdogReset, QueueReset
<1>2. /\ pc' = "scan" /\ spent' = 0 /\ tick' = 0
      /\ last_tick' = [d \in Device |-> 0]
  BY DEF WatchdogReset
<1>3. Held' = 0 BY <1>1 DEF Held
<1>4. QueueTypeOK'
  BY <1>1, SizeAssumption, CountAssumption DEF QueueTypeOK, Slot
<1>5. QueueInv' BY <1>3, <1>4 DEF QueueInv
<1>6. OncePerDevice' /\ QueueNeverOverflows'
  BY <1>1, <1>3 DEF OncePerDevice, QueueNeverOverflows
<1>7. ClockOK' BY <1>2, TimeAssumption DEF ClockOK, Tick
<1>8. StillDebounced' /\ EmptyAtEnd'
  BY <1>2, <1>3, TimeAssumption DEF StillDebounced, EmptyAtEnd
<1> QED BY <1>5, <1>6, <1>7, <1>8 DEF IInv

LEMMA StepInv == IInv /\ [Next]_vars => IInv'
<1> SUFFICES ASSUME IInv, [Next]_vars PROVE IInv' OBVIOUS
<1>1. CASE Elapse BY <1>1, ElapseInv
<1>2. ASSUME NEW d \in Device, Report(d) PROVE IInv' BY <1>2, ReportInv
<1>3. CASE Loop BY <1>3, HandleInv, PhaseInv DEF Loop
<1>4. CASE WatchdogReset BY <1>4, ResetInv
<1>5. CASE UNCHANGED vars
  <2>1. UNCHANGED ringVars /\ popped' = popped BY <1>5 DEF vars, queueVars
  <2>2. /\ QueueInv' /\ OncePerDevice' /\ QueueNeverOverflows'
        /\ Content' = Content /\ Held' = Held
    BY <2>1, RingUntouched
  <2> QED BY <1>5, <2>2 DEF vars, ingestVars, IInv, ClockOK, StillDebounced,
                            EmptyAtEnd, Since
<1> QED BY <1>1, <1>2, <1>3, <1>4, <1>5 DEF Next

\* The ring never overflows, for every whitelist that fits it, every debounce
\* longer than a scan phase, and every way the loop may block or be reset
\* (app_ble.c:196, 212-219, 568; main.c:727).
THEOREM NeverOverflows == Spec => []QueueNeverOverflows
<1>1. IInv => QueueNeverOverflows BY DEF IInv
<1> QED BY InitInv, StepInv, <1>1, PTL DEF Spec

-----------------------------------------------------------------------------
(* The LEDs.  An LED that is on was seen at a drain not longer ago than the   *)
(* timeout and the phases since the last check, so that the tick cannot have  *)
(* wrapped past it; silence is its age, and an LED that is off has none.      *)

PhaseOK ==
  /\ pc \in {"scan", "net", "drain", "led"} /\ spent \in Nat
  /\ pc = "scan" => spent <= ScanMax
  /\ pc \in {"net", "drain"} => spent <= WatchdogMax
  /\ pc = "led" => spent = 0

LedTypes ==
  /\ tick \in Tick /\ now \in Tick
  /\ led_last_seen \in [Device -> Tick]
  /\ led_active \in [Device -> BOOLEAN]
  /\ silence \in [Device -> 0 .. Long]

DrainClock == pc = "drain" => Since(tick, now) = spent

\* Of an age: what has passed since the check that left the LED on.
InTime(age) ==
  /\ pc = "scan" => age <= LED_TIMEOUT_MS + spent
  /\ pc = "net" => age <= LED_TIMEOUT_MS + ScanMax + spent
  /\ pc = "drain" => age <= LED_TIMEOUT_MS + ScanMax + WatchdogMax + spent
  /\ pc = "led" => age <= LED_TIMEOUT_MS + ScanMax + 2 * WatchdogMax

LedAge(d) == Since(tick, led_last_seen[d])
UpToLong(n) == IF n < Long THEN n ELSE Long

Shines(d) == InTime(LedAge(d)) /\ silence[d] = UpToLong(LedAge(d))
LedOK == \A d \in Device : IF led_active[d] THEN Shines(d) ELSE silence[d] = Long

LedInv == PhaseOK /\ LedTypes /\ DrainClock /\ LedOK

\* A difference of ticks counts one more, short of a full turn.
LEMMA SinceCounts ==
  ASSUME NEW t \in Tick, NEW u \in Tick
  PROVE  /\ Since(t, u) \in Nat /\ Since(t, t) = 0
         /\ Since(t, u) + 1 < TickLimit => Since(NextTick(t), u) = Since(t, u) + 1
BY TimeAssumption DEF Tick, Since, NextTick

LEMMA LedBoot ==
  ASSUME Boot PROVE LedInv
<1>1. PhaseOK /\ LedTypes /\ DrainClock
  BY TimeAssumption DEF Boot, PhaseOK, LedTypes, DrainClock, Tick, Long
<1>2. LedOK
  BY DEF Boot, LedOK
<1> QED BY <1>1, <1>2 DEF LedInv

LEMMA LedElapse == ASSUME LedInv, Elapse PROVE LedInv'
<1>1. /\ spent' = spent + 1 /\ pc' = pc /\ now' = now
      /\ led_active' = led_active /\ led_last_seen' = led_last_seen
      /\ tick' = NextTick(tick)
      /\ silence' = [d \in Device |-> IF silence[d] = Long THEN Long ELSE silence[d] + 1]
  BY DEF Elapse
<1>2. PhaseOK /\ LedTypes /\ DrainClock /\ LedOK
  BY DEF LedInv
<1>3. PhaseOK'
  BY <1>1, <1>2, TimeAssumption DEF Elapse, Limit, PhaseOK
<1>4. tick' \in Tick
  BY <1>1, <1>2, TimeAssumption DEF LedTypes, Tick, NextTick
<1>5. \A d \in Device : silence'[d] \in 0 .. Long
  BY <1>1, <1>2, TimeAssumption DEF LedTypes, Long
<1>6. LedTypes'
  BY <1>1, <1>2, <1>4, <1>5 DEF LedTypes
<1>7. DrainClock'
  <2>1. SUFFICES ASSUME pc = "drain" PROVE Since(tick', now) = spent + 1
    BY <1>1 DEF DrainClock, Since
  <2>2. Since(tick, now) = spent /\ spent + 1 <= WatchdogMax /\ spent \in Nat
    BY <1>1, <1>2, <1>3, <2>1 DEF DrainClock, PhaseOK
  <2>3. spent + 1 < TickLimit
    BY <2>2, TimeAssumption
  <2> QED BY <1>1, <1>2, <2>2, <2>3, SinceCounts DEF LedTypes
<1>8. ASSUME NEW d \in Device, led_active[d] PROVE Shines(d)'
  <2>1. /\ LedAge(d) \in Nat /\ InTime(LedAge(d)) /\ silence[d] = UpToLong(LedAge(d))
    BY <1>2, <1>8, SinceCounts DEF LedOK, LedTypes, Shines, LedAge
  <2>2. LedAge(d) + 1 < TickLimit
    BY <1>1, <1>2, <1>3, <2>1, TimeAssumption DEF PhaseOK, InTime
  <2>3. LedAge(d)' = LedAge(d) + 1
    BY <1>1, <1>2, <2>2, SinceCounts DEF LedAge, LedTypes, Since
  <2>4. InTime(LedAge(d))'
    BY <1>1, <1>2, <2>1, <2>3, TimeAssumption DEF InTime, PhaseOK, Elapse, Limit
  <2>5. (silence[d] = UpToLong(LedAge(d)))'
    BY <1>1, <1>2, <2>1, <2>3, TimeAssumption DEF UpToLong, Long
  <2> QED BY <2>4, <2>5 DEF Shines
<1>9. LedOK'
  BY <1>1, <1>2, <1>8 DEF LedOK
<1> QED BY <1>3, <1>6, <1>7, <1>9 DEF LedInv

LEMMA LedReport == ASSUME LedInv, NEW d \in Device, Report(d) PROVE LedInv'
BY DEF Report, LedInv, PhaseOK, LedTypes, DrainClock, LedOK, Shines, InTime, LedAge, UpToLong, Since

LEMMA LedHandle == ASSUME LedInv, Handle PROVE LedInv'
<1> DEFINE m == ble_queue[ble_q_tail]
           s == IF spent < Long THEN spent ELSE Long
<1>1. /\ pc = "drain" /\ pc' = pc /\ spent' = spent /\ tick' = tick /\ now' = now
      /\ led_active' = [led_active EXCEPT ![m] = TRUE]
      /\ led_last_seen' = [led_last_seen EXCEPT ![m] = now]
      /\ silence' = [silence EXCEPT ![m] = s]
  BY DEF Handle, HandleOldest
<1> HIDE DEF m
<1>2. PhaseOK /\ LedTypes /\ DrainClock /\ LedOK
  BY DEF LedInv
<1>3. s \in 0 .. Long
  BY <1>2, TimeAssumption DEF PhaseOK, Long
<1> HIDE DEF s
<1>4. PhaseOK' /\ DrainClock'
  BY <1>1, <1>2 DEF PhaseOK, DrainClock, Since
<1>5. LedTypes'
  BY <1>1, <1>2, <1>3 DEF LedTypes
<1>6. ASSUME NEW d \in Device, led_active'[d] PROVE Shines(d)'
  <2>1. CASE d = m
    <3>1. led_last_seen'[d] = now /\ silence'[d] = s
      BY <1>1, <1>2, <2>1 DEF LedTypes
    <3>2. LedAge(d)' = spent
      BY <1>1, <1>2, <3>1 DEF LedAge, DrainClock, Since
    <3>3. (silence[d] = UpToLong(LedAge(d)))'
      BY <3>1, <3>2 DEF s, UpToLong
    <3>4. InTime(LedAge(d))'
      BY <1>1, <1>2, <3>2, TimeAssumption DEF InTime, PhaseOK
    <3> QED BY <3>3, <3>4 DEF Shines
  <2>2. CASE d # m
    <3>1. led_last_seen'[d] = led_last_seen[d] /\ silence'[d] = silence[d] /\ led_active[d]
      BY <1>1, <1>2, <1>6, <2>2 DEF LedTypes
    <3>2. Shines(d)
      BY <1>2, <3>1 DEF LedOK
    <3> QED BY <1>1, <3>1, <3>2 DEF Shines, InTime, LedAge, Since
  <2> QED BY <2>1, <2>2
<1>7. ASSUME NEW d \in Device, ~led_active'[d] PROVE silence'[d] = Long
  <2>1. d # m
    BY <1>1, <1>2, <1>7 DEF LedTypes
  <2> QED BY <1>1, <1>2, <1>7, <2>1 DEF LedTypes, LedOK
<1>8. LedOK'
  BY <1>6, <1>7 DEF LedOK
<1> QED BY <1>4, <1>5, <1>8 DEF LedInv

\* The steps between the phases, but for the check.
LEMMA LedPhase ==
  ASSUME LedInv, EndScan \/ StartDrain \/ EndDrain PROVE LedInv'
<1>1. /\ tick' = tick /\ led_active' = led_active /\ led_last_seen' = led_last_seen
      /\ silence' = silence /\ spent' = 0
      /\ \/ pc = "scan" /\ pc' = "net" /\ now' = now
         \/ pc = "net" /\ pc' = "drain" /\ now' = tick
         \/ pc = "drain" /\ pc' = "led" /\ now' = 0
  BY DEF EndScan, StartDrain, EndDrain, Enter
<1>2. PhaseOK /\ LedTypes /\ LedOK
  BY DEF LedInv
<1>3. PhaseOK'
  BY <1>1, TimeAssumption DEF PhaseOK
<1>4. LedTypes'
  BY <1>1, <1>2, TimeAssumption DEF LedTypes, Tick
<1>5. DrainClock'
  BY <1>1, <1>2, SinceCounts DEF DrainClock, LedTypes, Since
<1>6. ASSUME NEW d \in Device, led_active[d] PROVE Shines(d)'
  <2>1. InTime(LedAge(d)) /\ silence[d] = UpToLong(LedAge(d)) /\ LedAge(d) \in Nat
    BY <1>2, <1>6, SinceCounts DEF LedOK, LedTypes, Shines, LedAge
  <2>2. LedAge(d)' = LedAge(d)
    BY <1>1 DEF LedAge, Since
  <2>3. InTime(LedAge(d))'
    BY <1>1, <1>2, <2>1, <2>2, TimeAssumption DEF InTime, PhaseOK
  <2> QED BY <1>1, <2>1, <2>2, <2>3 DEF Shines
<1>7. LedOK'
  BY <1>1, <1>2, <1>6 DEF LedOK
<1> QED BY <1>3, <1>4, <1>5, <1>7 DEF LedInv

LEMMA LedCheck == ASSUME LedInv, check_led_timeouts PROVE LedInv'
<1>1. /\ pc = "led" /\ pc' = "scan" /\ spent' = 0 /\ tick' = tick /\ now' = now
      /\ led_last_seen' = led_last_seen /\ silence' = silence
      /\ led_active' = [d \in Device |-> led_active[d] /\ LedAge(d) <= LED_TIMEOUT_MS]
  BY DEF check_led_timeouts, Enter, LedAge
<1>2. PhaseOK /\ LedTypes /\ LedOK
  BY DEF LedInv
<1>3. PhaseOK' /\ LedTypes' /\ DrainClock'
  BY <1>1, <1>2, TimeAssumption DEF PhaseOK, LedTypes, DrainClock
<1>4. ASSUME NEW d \in Device
      PROVE  /\ LedAge(d) \in Nat /\ LedAge(d)' = LedAge(d)
             /\ led_active[d] => silence[d] = UpToLong(LedAge(d))
             /\ ~led_active[d] => silence[d] = Long
  BY <1>1, <1>2, SinceCounts DEF LedOK, Shines, LedTypes, LedAge, Since
<1>5. ASSUME NEW d \in Device, led_active'[d] PROVE Shines(d)'
  <2>1. led_active[d] /\ LedAge(d) <= LED_TIMEOUT_MS
    BY <1>1, <1>5
  <2>2. InTime(LedAge(d))'
    BY <1>1, <1>4, <2>1, TimeAssumption DEF InTime
  <2> QED BY <1>1, <1>4, <2>1, <2>2 DEF Shines
<1>6. ASSUME NEW d \in Device, ~led_active'[d] PROVE silence'[d] = Long
  <2>1. ~led_active[d] \/ (led_active[d] /\ ~(LedAge(d) <= LED_TIMEOUT_MS))
    BY <1>1, <1>6
  <2> QED BY <1>1, <1>4, <2>1, TimeAssumption DEF UpToLong, Long
<1>7. LedOK'
  BY <1>5, <1>6 DEF LedOK
<1> QED BY <1>3, <1>7 DEF LedInv

LEMMA LedReset == ASSUME WatchdogReset PROVE LedInv'
<1>1. Boot'
  BY DEF WatchdogReset, Boot
<1>2. (PhaseOK /\ LedTypes /\ DrainClock)'
  BY <1>1, TimeAssumption DEF Boot, PhaseOK, LedTypes, DrainClock, Tick, Long
<1>3. LedOK'
  BY <1>1 DEF Boot, LedOK
<1> QED BY <1>2, <1>3 DEF LedInv

LEMMA LedStep == LedInv /\ [Next]_vars => LedInv'
<1> SUFFICES ASSUME LedInv, [Next]_vars PROVE LedInv' OBVIOUS
<1>1. CASE Elapse BY <1>1, LedElapse
<1>2. ASSUME NEW d \in Device, Report(d) PROVE LedInv' BY <1>2, LedReport
<1>3. CASE Loop BY <1>3, LedHandle, LedPhase, LedCheck DEF Loop
<1>4. CASE WatchdogReset BY <1>4, LedReset
<1>5. CASE UNCHANGED vars
  BY <1>5 DEF vars, ingestVars, LedInv, PhaseOK, LedTypes, DrainClock, LedOK, Shines,
              InTime, LedAge, UpToLong, Since
<1> QED BY <1>1, <1>2, <1>3, <1>4, <1>5 DEF Next

\* After every loop the LED of a device is on exactly when a drain begun in the
\* last LED_TIMEOUT_MS saw it, for every whitelist, timeout and tick width: the
\* tick may wrap, but not within one timeout and one turn of the loop
\* (main.c:704-716, 735-741).
THEOREM LedsTell == Spec => []LedsTellWhoIsHeard
<1>1. Init => LedInv BY LedBoot DEF Init
<1>2. LedInv => LedsTellWhoIsHeard
  <2> SUFFICES ASSUME LedInv, pc = "scan", spent = 0, NEW d \in Device
               PROVE  led_active[d] <=> silence[d] <= LED_TIMEOUT_MS
    BY DEF LedsTellWhoIsHeard
  <2>1. led_active[d] \in BOOLEAN /\ LedAge(d) \in Nat
    BY SinceCounts DEF LedInv, LedTypes, LedAge
  <2>2. led_active[d] => silence[d] <= LED_TIMEOUT_MS
    BY <2>1, TimeAssumption DEF LedInv, LedOK, Shines, InTime, UpToLong, Long
  <2>3. ~led_active[d] => ~(silence[d] <= LED_TIMEOUT_MS)
    BY TimeAssumption DEF LedInv, LedOK, Long
  <2> QED BY <2>1, <2>2, <2>3
<1> QED BY <1>1, LedStep, <1>2, PTL DEF Spec

\* Every variable keeps its type; the overflow count stays at 0, and every
\* phase within its limit (main.c:212-229).
THEOREM TypeCorrect == Spec => []TypeOK
<1>1. Init => LedInv BY LedBoot DEF Init
<1>2. IInv /\ LedInv => TypeOK
  <2> SUFFICES ASSUME IInv, LedInv PROVE TypeOK OBVIOUS
  <2>1. QueueTypeOK /\ last_tick \in [Device -> Tick]
    BY DEF IInv, QueueInv, ClockOK
  <2>2. spent \in 0 .. ScanMax + WatchdogMax
    BY TimeAssumption DEF LedInv, PhaseOK
  <2> QED BY <2>1, <2>2 DEF LedInv, LedTypes, PhaseOK, TypeOK
<1> QED BY InitInv, StepInv, <1>1, LedStep, <1>2, PTL DEF Spec
=============================================================================
