----------------------------- MODULE IngestProofs -----------------------------
(***************************************************************************)
(* Theorems about Ingest: for any devices, any temperatures of 16 bits and *)
(* any number of messages.                                                 *)
(***************************************************************************)
EXTENDS Ingest, SequenceTheorems, TLAPS

(***************************************************************************)
(* From the sensor to the row.                                             *)
(***************************************************************************)

\* A temperature survives the two bytes of the advertisement.
LEMMA BytesRoundTrip ==
  ASSUME NEW x \in Int, -32768 <= x, x <= 32767
  PROVE  Int16(LowByte(x), HighByte(x)) = x
<1> DEFINE u == x % 65536
<1>1. u \in Int /\ u = (IF x >= 0 THEN x ELSE x + 65536)
  OBVIOUS
<1>2. LowByte(x) + 256 * HighByte(x) = u
  BY <1>1 DEF LowByte, HighByte
<1>3. QED
  BY <1>1, <1>2 DEF Int16

\* The text of the gateway keeps the number but for the sign below one degree.
LEMMA DecimalClose ==
  ASSUME NEW x \in Int, -32768 <= x, x <= 32767
  PROVE  /\ Decimal(x) \in Int
         /\ Decimal(x) = WithoutSign(x)
<1>1. CASE x >= 0
  BY <1>1 DEF Decimal, Abs, WithoutSign
<1>2. CASE x < 0
  <2> DEFINE y == -x
             q == y \div 100
  <2>1. y \in Nat /\ q \in Nat /\ y = 100 * q + (y % 100) /\ y % 100 \in 0 .. 99
    BY <1>2
  <2>2. Decimal(x) = IF -q < 0 THEN 100 * (-q) - (y % 100) ELSE 100 * (-q) + (y % 100)
    BY <1>2 DEF Decimal, Abs
  <2>3. CASE q = 0
    BY <1>2, <2>1, <2>2, <2>3 DEF WithoutSign
  <2>4. CASE q # 0
    BY <1>2, <2>1, <2>2, <2>4 DEF WithoutSign
  <2>5. QED
    BY <2>3, <2>4
<1>3. QED
  BY <1>1, <1>2

\* The limits of the filters, as integers.
LEMMA LimitInts ==
  /\ INT16_MIN \in Int /\ INT16_MAX \in Int
  /\ VALID_TEMP_MIN_C \in Int /\ VALID_TEMP_MAX_C \in Int /\ CORE_MIN \in Int
  BY DEF INT16_MIN, INT16_MAX, VALID_TEMP_MIN_C, VALID_TEMP_MAX_C, CORE_MIN

LEMMA LimitValues ==
  /\ INT16_MIN = -32768 /\ INT16_MAX = 32767 /\ CORE_MIN = -20000
  /\ AS6221_TEMP_INVALID_X100 = -32768
  BY DEF INT16_MIN, INT16_MAX, CORE_MIN, AS6221_TEMP_INVALID_X100

LEMMA InMaybeTemp ==
  ASSUME NEW lo \in Int, NEW hi \in Int, NEW v, v = NULL \/ (v \in Int /\ lo <= v /\ v <= hi)
  PROVE  v \in MaybeTemp(lo, hi)
  BY DEF MaybeTemp

\* What holds of one number on its way from the node to its column.
LEMMA ColumnOk ==
  ASSUME NEW x \in Int, -32768 <= x, x <= 32767
  PROVE  /\ ValidTemp(Decimal(x)) \in MaybeTemp(VALID_TEMP_MIN_C, VALID_TEMP_MAX_C)
         /\ ValidTemp(Decimal(x)) = IF InRange(x) THEN WithoutSign(x) ELSE NULL
         /\ CastFloat(Decimal(x)) \in MaybeTemp(CORE_MIN, INT16_MAX)
         /\ CastFloat(Decimal(x)) = IF x < CORE_MIN THEN NULL ELSE WithoutSign(x)
<1> DEFINE v == Decimal(x)
<1>1. v \in Int /\ v = WithoutSign(x) /\ (v = x \/ (-99 <= x /\ x <= -1 /\ v = -x))
  BY DecimalClose DEF WithoutSign
<1> HIDE DEF v
<1>2. /\ InRange(x) => VALID_TEMP_MIN_C <= v /\ v <= VALID_TEMP_MAX_C
      /\ ~InRange(x) => v < VALID_TEMP_MIN_C \/ v > VALID_TEMP_MAX_C
  BY <1>1 DEF InRange, VALID_TEMP_MIN_C, VALID_TEMP_MAX_C
<1>3. ValidTemp(v) = IF InRange(x) THEN v ELSE NULL
  BY <1>1, <1>2, LimitInts DEF ValidTemp
<1>4. ValidTemp(v) \in MaybeTemp(VALID_TEMP_MIN_C, VALID_TEMP_MAX_C)
  BY <1>1, <1>2, <1>3, LimitInts, InMaybeTemp
<1>5. v <= INT16_MAX /\ (v < CORE_MIN <=> x < CORE_MIN)
  BY <1>1, LimitValues
<1>6. CastFloat(v) = IF x < CORE_MIN THEN NULL ELSE v
  BY <1>5 DEF CastFloat
<1>7. CastFloat(v) \in MaybeTemp(CORE_MIN, INT16_MAX)
  BY <1>1, <1>5, <1>6, LimitInts, InMaybeTemp
<1>8. QED
  BY <1>1, <1>3, <1>4, <1>6, <1>7 DEF v

LEMMA ReadingOk ==
  ASSUME NEW m \in Messages, m.kind = "sensor", Accepted(m),
         taken \in 1 .. MaxMessages, now \in 1 .. MaxNow, Reading(m).temp1 # NULL
  PROVE  /\ Reading(m) \in RowType /\ Faithful(Reading(m))
         /\ Reading(m).n = taken /\ Reading(m).at = now /\ Reading(m).dev = DeviceOf(m.byte)
<1>1. /\ m.th1 \in Temps /\ m.th2 \in Temps
      /\ m.format \in {"old", "new"} /\ (m.format = "new" => m.core \in Cores)
  BY DEF Messages
<1>2. DeviceOf(m.byte) \in Devices
  BY DEF Accepted, DeviceOf
<1> DEFINE c == IF m.format = "old" THEN 0 ELSE CoreOf(m)
<1>3. \A t \in {m.th1, m.th2, c} : t \in Int /\ -32768 <= t /\ t <= 32767
  <2>1. \A t \in Temps \cup Cores : t \in Int /\ -32768 <= t /\ t <= 32767
    BY TempAssumption, LimitValues
  <2>2. c = 0 \/ c = AS6221_TEMP_INVALID_X100 \/ c \in Cores
    BY <1>1 DEF CoreOf
  <2>3. QED
    BY <1>1, <2>1, <2>2, LimitValues
<1> HIDE DEF c
<1>4. Parsed(Advertised(m)) = [temp1 |-> m.th2, temp2 |-> m.th1, core |-> c]
  <2> DEFINE first == Int16(LowByte(m.th2), HighByte(m.th2))
             second == Int16(LowByte(m.th1), HighByte(m.th1))
             third == Int16(LowByte(CoreOf(m)), HighByte(CoreOf(m)))
  <2>1. first = m.th2 /\ second = m.th1
    BY <1>3, BytesRoundTrip
  <2>2. CASE m.format = "old"
    <3>1. Parsed(Advertised(m)) = [temp1 |-> first, temp2 |-> second, core |-> 0]
      BY <2>2 DEF Parsed, Advertised
    <3>2. QED
      BY <2>1, <2>2, <3>1 DEF c
  <2>3. CASE m.format # "old"
    <3>1. Parsed(Advertised(m)) = [temp1 |-> first, temp2 |-> second, core |-> third]
      BY <2>3 DEF Parsed, Advertised
    <3>2. c = CoreOf(m)
      BY <2>3 DEF c
    <3>3. third = c
      BY <1>3, <3>2, BytesRoundTrip
    <3>4. QED
      BY <2>1, <3>1, <3>3
  <2>4. QED
    BY <2>2, <2>3
<1>5. Reading(m) =
        [n |-> taken, dev |-> DeviceOf(m.byte), at |-> now,
         temp1 |-> ValidTemp(Decimal(m.th2)), temp2 |-> ValidTemp(Decimal(m.th1)),
         core |-> CastFloat(Decimal(c)), from |-> m]
  BY <1>4 DEF Reading, Published
<1>6. Reading(m) \in RowType
  BY <1>2, <1>3, <1>5, ColumnOk DEF RowType
<1>7. /\ InRange(m.th2) /\ Reading(m).temp1 = WithoutSign(m.th2)
      /\ Reading(m).temp2 = IF InRange(m.th1) THEN WithoutSign(m.th1) ELSE NULL
  BY <1>3, <1>5, ColumnOk
<1>8. CastFloat(Decimal(c)) = IF c < CORE_MIN THEN NULL ELSE WithoutSign(c)
  BY <1>3, ColumnOk
<1>9. m.format = "old" => CastFloat(Decimal(c)) = 0
  BY <1>8, LimitValues DEF c, WithoutSign
<1>10. m.format = "new" =>
         CastFloat(Decimal(c)) =
           IF Failed(m) \/ m.core < CORE_MIN THEN NULL ELSE WithoutSign(m.core)
  <2>1. CASE m.format = "new" /\ Failed(m)
    BY <1>8, <2>1, LimitValues DEF c, CoreOf, Failed
  <2>2. CASE m.format = "new" /\ ~Failed(m)
    BY <1>8, <2>2 DEF c, CoreOf, Failed
  <2>3. QED
    BY <2>1, <2>2
<1>11. Faithful(Reading(m))
  BY <1>5, <1>7, <1>9, <1>10 DEF Faithful
<1>12. QED
  BY <1>5, <1>6, <1>11

(***************************************************************************)
(* The inductive invariant.                                                *)
(***************************************************************************)
Transaction == [reading : Seq(RowType), seen : 0 .. MaxNow, gw : 0 .. MaxNow, report : {0, 1}]

\* What the scalars hold.
Scalars ==
  /\ now \in 1 .. MaxNow /\ taken \in 0 .. MaxMessages
  /\ seen \in [Registered -> 0 .. MaxNow] /\ gwSeen \in 0 .. MaxNow
  /\ reports \in Nat /\ busy \in BOOLEAN

\* The rows are dated in the order they came in, each from a message of its
\* own, and no device was last seen before one of its rows.
Stored ==
  /\ rows \in Seq(RowType)
  /\ \A i \in DOMAIN rows :
       /\ rows[i].at <= now /\ rows[i].n <= taken
       /\ busy => rows[i].n < taken
       /\ rows[i].dev \in Registered => rows[i].at <= seen[rows[i].dev]
       /\ Faithful(rows[i])
  /\ \A i, j \in DOMAIN rows : i < j => rows[i].at <= rows[j].at /\ rows[i].n < rows[j].n

\* The row in the open transaction is that of the message, and older than the
\* sign of life beside it; nothing that is stored is younger.
ThisReading(r) ==
  /\ r \in RowType /\ Faithful(r)
  /\ r.n = taken /\ r.dev = DeviceOf(msg.byte) /\ r.at <= now
  /\ txn.seen # 0 => r.at <= txn.seen
  /\ \A i \in DOMAIN rows : rows[i].at <= r.at

Pending ==
  /\ txn \in Transaction
  /\ txn.seen <= now /\ txn.gw <= now
  /\ \A d \in Registered : seen[d] <= now /\ (txn.seen # 0 => seen[d] <= txn.seen)
  /\ txn.reading # <<>> => \E r \in RowType : txn.reading = <<r>> /\ ThisReading(r)

\* How far the handler of each kind of message is.
Free == ~busy /\ msg = Idle /\ todo = <<>> /\ txn = Nothing
InHandler == busy /\ msg \in Messages /\ Accepted(msg) /\ taken >= 1
SensorHandler ==
  /\ InHandler /\ msg.kind = "sensor"
  /\ \/ todo = <<"insertReading", "seeDevice">> /\ txn.reading = <<>> /\ txn.seen = 0
     \/ todo = <<"seeDevice">> /\ txn.reading # <<>> /\ txn.seen = 0
     \/ todo = <<>> /\ txn.reading # <<>> /\ txn.seen # 0
HelloHandler ==
  /\ InHandler /\ msg.kind = "hello" /\ txn.reading = <<>>
  /\ \/ todo \in {<<"seeGateway", "seeDevice">>, <<"seeDevice">>} /\ txn.seen = 0
     \/ todo = <<>> /\ txn.seen # 0
HealthHandler ==
  /\ InHandler /\ msg.kind = "health" /\ txn.reading = <<>> /\ txn.seen = 0
  /\ todo \in {<<"insertReport">>, <<>>}

Control == Free \/ SensorHandler \/ HelloHandler \/ HealthHandler

IngestInv == Scalars /\ Stored /\ Pending /\ Control

LEMMA NothingTyped ==
  /\ Nothing \in Transaction
  /\ Nothing.reading = <<>> /\ Nothing.seen = 0 /\ Nothing.gw = 0
<1>1. 0 \in 0 .. MaxNow
  BY BoundAssumption
<1>2. QED
  BY <1>1, EmptySeq DEF Nothing, Transaction

LEMMA InitInv == Init => IngestInv
<1> SUFFICES ASSUME Init PROVE IngestInv
  OBVIOUS
<1>1. Scalars
  <2>1. 0 \in 0 .. MaxNow /\ 1 \in 1 .. MaxNow /\ 0 \in 0 .. MaxMessages
    BY BoundAssumption
  <2>2. seen \in [Registered -> 0 .. MaxNow]
    BY <2>1 DEF Init
  <2>3. QED
    BY <2>1, <2>2 DEF Init, Scalars
<1>2. Stored
  BY EmptySeq DEF Init, Stored
<1>3. Pending
  BY NothingTyped DEF Init, Pending
<1>4. Control
  BY DEF Init, Control, Free
<1>5. QED
  BY <1>1, <1>2, <1>3, <1>4 DEF IngestInv

LEMMA RowNumbers ==
  ASSUME IngestInv
  PROVE  \A i \in DOMAIN rows : rows[i] \in RowType /\ rows[i].at \in Nat /\ rows[i].n \in Nat
<1>1. \A r \in RowType : r.at \in Nat /\ r.n \in Nat
  BY BoundAssumption DEF RowType
<1>2. \A i \in DOMAIN rows : rows[i] \in RowType
  BY DEF IngestInv, Stored
<1>3. QED
  BY <1>1, <1>2

\* Out of the handler without a change of the tables.
LEMMA RollbackInv ==
  ASSUME IngestInv, Return, UNCHANGED tables
  PROVE  IngestInv'
<1>1. /\ UNCHANGED <<now, rows, seen, gwSeen, reports, taken>>
      /\ busy' = FALSE /\ msg' = Idle /\ todo' = <<>> /\ txn' = Nothing
  BY DEF Return, tables
<1>2. Scalars'
  BY <1>1 DEF IngestInv, Scalars
<1>3. Stored'
  BY <1>1 DEF IngestInv, Stored
<1>4. Pending'
  <2>1. now \in Nat
    BY BoundAssumption DEF IngestInv, Scalars
  <2>2. QED
    BY <1>1, <2>1, NothingTyped DEF IngestInv, Pending
<1>5. Control'
  BY <1>1 DEF Control, Free
<1>6. QED
  BY <1>2, <1>3, <1>4, <1>5 DEF IngestInv

\* What the transaction appends: nothing, or the row of the message.
LEMMA RowsAppended ==
  ASSUME IngestInv, Applied
  PROVE  \/ txn.reading = <<>> /\ rows' = rows
         \/ \E r \in RowType : /\ txn.reading = <<r>> /\ ThisReading(r)
                              /\ rows' = Append(rows, r)
<1>1. rows' = rows \o txn.reading /\ rows \in Seq(RowType)
  BY DEF Applied, IngestInv, Stored
<1>2. CASE txn.reading = <<>>
  BY <1>1, <1>2, ConcatEmptySeq
<1>3. CASE txn.reading # <<>>
  <2>1. PICK r \in RowType : txn.reading = <<r>> /\ ThisReading(r)
    BY <1>3 DEF IngestInv, Pending
  <2>2. rows \o <<r>> = Append(rows, r)
    BY <1>1
  <2>3. QED
    BY <1>1, <2>1, <2>2
<1>4. QED
  BY <1>2, <1>3

\* The sign of life of a device never goes back.
LEMMA SeenGrows ==
  ASSUME IngestInv, Applied
  PROVE  /\ seen' \in [Registered -> 0 .. MaxNow]
         /\ \A d \in Registered : seen[d] <= seen'[d] /\ seen'[d] <= now
         /\ txn.seen # 0 =>
              \A d \in Registered : seen'[d] = IF d = DeviceOf(msg.byte) THEN txn.seen ELSE seen[d]
         /\ txn.seen = 0 => seen' = seen
<1>1. txn.seen \in 0 .. MaxNow /\ now \in 1 .. MaxNow /\ seen \in [Registered -> 0 .. MaxNow]
  BY DEF IngestInv, Pending, Transaction, Scalars
<1>2. seen' = [d \in Registered |->
                 IF txn.seen # 0 /\ d = DeviceOf(msg.byte) THEN txn.seen ELSE seen[d]]
  BY DEF Applied
<1>3. \A d \in Registered :
        seen[d] <= now /\ (txn.seen # 0 => seen[d] <= txn.seen) /\ txn.seen <= now
  BY DEF IngestInv, Pending
<1>4. QED
  BY <1>1, <1>2, <1>3, BoundAssumption

LEMMA AppliedInv ==
  ASSUME IngestInv, busy, todo = <<>>, Applied, Return
  PROVE  IngestInv'
<1>1. /\ busy' = FALSE /\ msg' = Idle /\ todo' = <<>> /\ txn' = Nothing
      /\ UNCHANGED <<now, taken>>
  BY DEF Return, Applied
<1>2. Scalars'
  <2>1. txn.gw \in 0 .. MaxNow /\ txn.report \in {0, 1}
    BY DEF IngestInv, Pending, Transaction
  <2>2. gwSeen' \in 0 .. MaxNow
    BY <2>1 DEF IngestInv, Scalars, Applied
  <2>3. reports' \in Nat
    BY <2>1 DEF IngestInv, Scalars, Applied
  <2>4. QED
    BY <1>1, <2>2, <2>3, SeenGrows DEF IngestInv, Scalars
<1>3. Pending'
  <2>1. now \in Nat
    BY BoundAssumption DEF IngestInv, Scalars
  <2>2. QED
    BY <1>1, <2>1, NothingTyped, SeenGrows DEF Pending
<1>4. Control'
  BY <1>1 DEF Control, Free
<1>5. Stored'
  <2>0. /\ seen \in [Registered -> 0 .. MaxNow] /\ taken \in Nat /\ rows \in Seq(RowType)
        /\ \A r \in RowType : r.at \in Nat /\ r.n \in Nat
    BY BoundAssumption DEF IngestInv, Scalars, Stored, RowType
  <2>1. CASE rows' = rows
    <3>1. \A d \in Registered : \A t \in Nat : t <= seen[d] => t <= seen'[d]
      BY <2>0, SeenGrows, BoundAssumption
    <3>2. \A i \in DOMAIN rows : rows[i] \in RowType
      BY <2>0
    <3>3. \A i \in DOMAIN rows : rows[i].dev \in Registered => rows[i].at <= seen'[rows[i].dev]
      BY <2>0, <3>1, <3>2 DEF IngestInv, Stored
    <3>4. QED
      BY <1>1, <2>1, <3>3 DEF IngestInv, Stored
  <2>2. CASE \E r \in RowType : /\ txn.reading = <<r>> /\ ThisReading(r)
                               /\ rows' = Append(rows, r)
    <3>1. PICK r \in RowType : /\ txn.reading = <<r>> /\ ThisReading(r)
                              /\ rows' = Append(rows, r)
      BY <2>2
    <3>2. txn.seen # 0
      BY <3>1 DEF IngestInv, Control, Free, SensorHandler, HelloHandler, HealthHandler
    <3>3. /\ rows' \in Seq(RowType) /\ Len(rows) \in Nat /\ Len(rows') = Len(rows) + 1
          /\ DOMAIN rows = 1 .. Len(rows) /\ DOMAIN rows' = 1 .. Len(rows) + 1
          /\ \A i \in 1 .. Len(rows) : rows'[i] = rows[i] /\ rows[i] \in RowType
          /\ rows'[Len(rows) + 1] = r
      BY <2>0, <3>1
    <3>4. r.dev \in Registered => r.at <= seen'[r.dev]
      BY <3>1, <3>2, SeenGrows DEF ThisReading
    <3>5. ASSUME NEW i \in DOMAIN rows'
          PROVE  /\ rows'[i].at <= now /\ rows'[i].n <= taken
                 /\ rows'[i].dev \in Registered => rows'[i].at <= seen'[rows'[i].dev]
                 /\ Faithful(rows'[i])
      <4>1. CASE i = Len(rows) + 1
        BY <2>0, <3>1, <3>3, <3>4, <4>1 DEF ThisReading
      <4>2. CASE i \in DOMAIN rows
        <5>1. rows'[i] = rows[i] /\ rows[i] \in RowType
          BY <3>3, <4>2
        <5>2. rows[i].dev \in Registered => rows[i].at <= seen'[rows[i].dev]
          <6>1. ASSUME rows[i].dev \in Registered PROVE rows[i].at <= seen'[rows[i].dev]
            <7> DEFINE d == rows[i].dev
            <7>1. rows[i].at <= seen[d] /\ seen[d] <= seen'[d] /\ rows[i].at \in Nat
              BY <2>0, <4>2, <5>1, <6>1, SeenGrows DEF IngestInv, Stored
            <7>2. seen[d] \in Int /\ seen'[d] \in Int
              BY <2>0, <6>1, SeenGrows
            <7>3. QED
              BY <7>1, <7>2
          <6>2. QED
            BY <6>1
        <5>3. QED
          BY <4>2, <5>1, <5>2 DEF IngestInv, Stored
      <4>3. QED
        BY <3>3, <4>1, <4>2
    <3>6. ASSUME NEW i \in DOMAIN rows', NEW j \in DOMAIN rows', i < j
          PROVE  rows'[i].at <= rows'[j].at /\ rows'[i].n < rows'[j].n
      <4>1. i \in DOMAIN rows /\ (j \in DOMAIN rows \/ j = Len(rows) + 1)
        BY <3>3, <3>6
      <4>2. CASE j \in DOMAIN rows
        BY <3>3, <3>6, <4>1, <4>2 DEF IngestInv, Stored
      <4>3. CASE j = Len(rows) + 1
        BY <3>1, <3>3, <4>1, <4>3 DEF IngestInv, Stored, ThisReading
      <4>4. QED
        BY <4>1, <4>2, <4>3
    <3>7. QED
      BY <1>1, <3>3, <3>5, <3>6 DEF Stored
  <2>3. QED
    BY <2>1, <2>2, RowsAppended
<1>6. QED
  BY <1>2, <1>3, <1>4, <1>5 DEF IngestInv

LEMMA TakeInv == ASSUME IngestInv, NEW m \in Messages, Take(m) PROVE IngestInv'
<1>1. /\ ~busy /\ taken < MaxMessages /\ Accepted(m)
      /\ taken' = taken + 1 /\ msg' = m /\ todo' = Script(m.kind) /\ busy' = TRUE
      /\ UNCHANGED <<now, rows, seen, gwSeen, reports, txn>>
  BY DEF Take, tables
<1>2. txn = Nothing /\ taken \in Nat
  BY <1>1, BoundAssumption
     DEF IngestInv, Scalars, Control, Free, SensorHandler, HelloHandler, HealthHandler, InHandler
<1>3. Scalars'
  BY <1>1, BoundAssumption DEF IngestInv, Scalars
<1>4. Stored'
  <2>1. \A i \in DOMAIN rows : rows[i].n \in Nat
    BY RowNumbers
  <2>2. \A i \in DOMAIN rows : rows[i].n < taken + 1
    BY <1>2, <2>1 DEF IngestInv, Stored
  <2>3. \A i \in DOMAIN rows : rows[i].n <= taken + 1
    BY <1>2, <2>1, <2>2
  <2>4. QED
    BY <1>1, <2>2, <2>3 DEF IngestInv, Stored
<1>5. Pending'
  BY <1>1, <1>2, NothingTyped DEF IngestInv, Pending
<1>6. Control'
  <2>1. InHandler'
    BY <1>1, <1>2 DEF InHandler, Accepted
  <2>2. /\ Script("sensor") = <<"insertReading", "seeDevice">>
        /\ Script("hello") = <<"seeGateway", "seeDevice">>
        /\ Script("health") = <<"insertReport">>
    BY Zenon DEF Script
  <2>3. m.kind \in {"sensor", "hello", "health"}
    BY DEF Messages
  <2>4. QED
    BY <1>1, <1>2, <2>1, <2>2, <2>3, NothingTyped
       DEF Control, SensorHandler, HelloHandler, HealthHandler
<1>7. QED
  BY <1>3, <1>4, <1>5, <1>6 DEF IngestInv

\* What the statements do.
LEMMA Effects ==
  /\ Effect("insertReading") = [txn EXCEPT !.reading = <<Reading(msg)>>]
  /\ Effect("seeDevice") = [txn EXCEPT !.seen = now]
  /\ Effect("seeGateway") = [txn EXCEPT !.gw = now]
  /\ Effect("insertReport") = [txn EXCEPT !.report = 1]
  BY Zenon DEF Effect

LEMMA ExecuteInv == IngestInv /\ Execute => IngestInv'
<1> SUFFICES ASSUME IngestInv, Execute PROVE IngestInv'
  OBVIOUS
<1>1. /\ busy /\ todo # <<>> /\ Executable(Head(todo))
      /\ txn' = Effect(Head(todo)) /\ todo' = Tail(todo)
      /\ UNCHANGED <<now, rows, seen, gwSeen, reports, taken, msg, busy>>
  BY DEF Execute, tables
<1>2. Scalars' /\ Stored'
  BY <1>1 DEF IngestInv, Scalars, Stored
<1>3. now \in 1 .. MaxNow /\ now \in Nat /\ now # 0 /\ now \in 0 .. MaxNow
  BY BoundAssumption DEF IngestInv, Scalars
<1>4. txn \in Transaction /\ txn.seen <= now /\ txn.gw <= now /\ \A d \in Registered : seen[d] <= now
  BY DEF IngestInv, Pending
<1>5. InHandler'
  BY <1>1 DEF IngestInv, Control, Free, SensorHandler, HelloHandler, HealthHandler, InHandler, Accepted
<1>6. CASE SensorHandler /\ todo = <<"insertReading", "seeDevice">>
  <2>1. /\ Head(todo) = "insertReading" /\ todo' = <<"seeDevice">>
        /\ txn' = [txn EXCEPT !.reading = <<Reading(msg)>>]
    BY <1>1, <1>6, Effects
  <2>2. /\ Reading(msg) \in RowType /\ Faithful(Reading(msg))
        /\ Reading(msg).n = taken /\ Reading(msg).at = now
        /\ Reading(msg).dev = DeviceOf(msg.byte)
    <3>1. Reading(msg).temp1 # NULL
      BY <1>1, <2>1 DEF Executable
    <3>2. taken \in 1 .. MaxMessages
      BY <1>6, BoundAssumption DEF IngestInv, Scalars, SensorHandler, InHandler
    <3>3. QED
      BY <1>3, <1>6, <3>1, <3>2, ReadingOk DEF SensorHandler, InHandler
  <2>3. /\ txn' \in Transaction /\ txn'.reading = <<Reading(msg)>>
        /\ txn'.seen = 0 /\ txn'.gw = txn.gw
    <3>1. <<Reading(msg)>> \in Seq(RowType)
      BY <2>2
    <3>2. txn.seen = 0
      BY <1>6 DEF SensorHandler
    <3>3. QED
      BY <1>4, <2>1, <3>1, <3>2 DEF Transaction
  <2>4. Pending'
    <3>1. PICK r \in RowType : r = Reading(msg)
      BY <2>2
    <3>2. ThisReading(r)'
      BY <1>1, <1>3, <2>2, <2>3, <3>1 DEF IngestInv, Stored, ThisReading
    <3>3. txn'.reading = <<r>>
      BY <2>3, <3>1
    <3>4. QED
      BY <1>1, <1>3, <1>4, <2>3, <3>2, <3>3 DEF Pending
  <2>5. SensorHandler'
    <3>1. txn'.reading # <<>>
      BY <2>3
    <3>2. txn'.seen = 0 /\ msg'.kind = "sensor"
      BY <1>1, <1>6, <2>3 DEF SensorHandler
    <3>3. QED
      BY <1>5, <2>1, <3>1, <3>2 DEF SensorHandler
  <2>6. QED
    BY <1>2, <2>4, <2>5 DEF IngestInv, Control
<1>7. ASSUME txn' \in Transaction, txn'.reading = txn.reading, txn'.seen \in {txn.seen, now},
             txn'.gw <= now
      PROVE  Pending'
  <2>1. txn'.seen <= now /\ \A d \in Registered : txn'.seen # 0 => seen[d] <= txn'.seen
    BY <1>4, <1>7, <1>3 DEF IngestInv, Pending
  <2>2. ASSUME txn.reading # <<>>
        PROVE  \E r \in RowType : txn'.reading = <<r>> /\ ThisReading(r)'
    <3>1. PICK r \in RowType : txn.reading = <<r>> /\ ThisReading(r)
      BY <2>2 DEF IngestInv, Pending
    <3>2. ThisReading(r)'
      BY <1>1, <1>7, <3>1 DEF ThisReading
    <3>3. QED
      BY <1>7, <3>1, <3>2
  <2>3. QED
    BY <1>1, <1>4, <1>7, <2>1, <2>2 DEF Pending
<1>8. CASE (SensorHandler \/ HelloHandler) /\ todo = <<"seeDevice">>
  <2>1. /\ Head(todo) = "seeDevice" /\ todo' = <<>> /\ txn' = [txn EXCEPT !.seen = now]
    BY <1>1, <1>8, Effects
  <2>2. /\ txn' \in Transaction /\ txn'.reading = txn.reading /\ txn'.seen = now
        /\ txn'.gw = txn.gw
    BY <1>3, <1>4, <2>1 DEF Transaction
  <2>3. Pending'
    BY <1>4, <1>7, <2>2
  <2>4. SensorHandler' \/ HelloHandler'
    BY <1>1, <1>3, <1>5, <1>8, <2>1, <2>2 DEF SensorHandler, HelloHandler
  <2>5. QED
    BY <1>2, <2>3, <2>4 DEF IngestInv, Control
<1>9. CASE HelloHandler /\ todo = <<"seeGateway", "seeDevice">>
  <2>1. /\ Head(todo) = "seeGateway" /\ todo' = <<"seeDevice">>
        /\ txn' = [txn EXCEPT !.gw = now]
    BY <1>1, <1>9, Effects
  <2>2. /\ txn' \in Transaction /\ txn'.reading = txn.reading /\ txn'.seen = txn.seen
        /\ txn'.gw = now
    BY <1>3, <1>4, <2>1 DEF Transaction
  <2>3. Pending'
    BY <1>3, <1>7, <2>2
  <2>4. HelloHandler'
    BY <1>1, <1>5, <1>9, <2>1, <2>2 DEF HelloHandler
  <2>5. QED
    BY <1>2, <2>3, <2>4 DEF IngestInv, Control
<1>10. CASE HealthHandler /\ todo = <<"insertReport">>
  <2>1. /\ Head(todo) = "insertReport" /\ todo' = <<>> /\ txn' = [txn EXCEPT !.report = 1]
    BY <1>1, <1>10, Effects
  <2>2. /\ txn' \in Transaction /\ txn'.reading = txn.reading /\ txn'.seen = txn.seen
        /\ txn'.gw = txn.gw
    BY <1>4, <2>1 DEF Transaction
  <2>3. Pending'
    BY <1>4, <1>7, <2>2
  <2>4. HealthHandler'
    BY <1>1, <1>5, <1>10, <2>1, <2>2 DEF HealthHandler
  <2>5. QED
    BY <1>2, <2>3, <2>4 DEF IngestInv, Control
<1>11. QED
  BY <1>1, <1>6, <1>8, <1>9, <1>10
     DEF IngestInv, Control, Free, SensorHandler, HelloHandler, HealthHandler

LEMMA StepInv == IngestInv /\ [Next]_vars => IngestInv'
<1> SUFFICES ASSUME IngestInv, [Next]_vars PROVE IngestInv'
  OBVIOUS
<1>1. ASSUME UNCHANGED vars PROVE IngestInv'
  BY <1>1 DEF vars, tables, IngestInv, Scalars, Stored, Pending, ThisReading, Control, Free,
     SensorHandler, HelloHandler, HealthHandler, InHandler, Accepted
<1>2. ASSUME NEW m \in Messages, Take(m) PROVE IngestInv'
  BY <1>2, TakeInv
<1>3. ASSUME NEW m \in Messages, Ignore(m) PROVE IngestInv'
  BY <1>1, <1>3 DEF Ignore
<1>4. CASE Execute
  BY <1>4, ExecuteInv
<1>5. CASE Commit
  BY <1>5, AppliedInv DEF Commit
<1>6. CASE CommitFails
  BY <1>6, AppliedInv, RollbackInv DEF CommitFails
<1>7. CASE Fails
  BY <1>7, RollbackInv DEF Fails
<1>8. CASE Second
  <2>1. /\ now < MaxNow /\ now' = now + 1
        /\ UNCHANGED <<rows, seen, gwSeen, reports, taken, msg, todo, busy, txn>>
    BY <1>8 DEF Second
  <2>2. now \in Nat /\ seen \in [Registered -> 0 .. MaxNow] /\ txn \in Transaction
    BY BoundAssumption DEF IngestInv, Scalars, Pending
  <2>3. Scalars'
    BY <2>1, BoundAssumption DEF IngestInv, Scalars
  <2>4. Stored'
    <3>1. \A i \in DOMAIN rows : rows[i].at \in Nat
      BY RowNumbers
    <3>2. \A i \in DOMAIN rows : rows[i].at <= now + 1
      BY <2>2, <3>1 DEF IngestInv, Stored
    <3>3. QED
      BY <2>1, <3>2 DEF IngestInv, Stored
  <2>5. Pending'
    <3>1. txn.seen <= now + 1 /\ txn.gw <= now + 1
      BY <2>2, BoundAssumption DEF IngestInv, Pending, Transaction
    <3>2. \A d \in Registered : seen[d] <= now + 1
      BY <2>2, BoundAssumption DEF IngestInv, Pending
    <3>3. \A r \in RowType : ThisReading(r) => ThisReading(r)'
      BY <2>1, <2>2, BoundAssumption DEF ThisReading, RowType
    <3>4. QED
      BY <2>1, <3>1, <3>2, <3>3 DEF IngestInv, Pending
  <2>6. Control'
    BY <2>1 DEF IngestInv, Control, Free, SensorHandler, HelloHandler, HealthHandler, InHandler,
       Accepted
  <2>7. QED
    BY <2>3, <2>4, <2>5, <2>6 DEF IngestInv
<1>9. QED
  BY <1>1, <1>2, <1>3, <1>4, <1>5, <1>6, <1>7, <1>8 DEF Next

(***************************************************************************)
(* The refinement.                                                         *)
(***************************************************************************)

LEMMA FunctionIsSeq ==
  ASSUME NEW S, NEW n \in Nat, NEW f \in [1 .. n -> S]
  PROVE  f \in Seq(S) /\ Len(f) = n
  OBVIOUS

\* A row more is a dated row more.
LEMMA DatedAppend ==
  ASSUME NEW rs \in Seq(RowType), NEW r \in RowType
  PROVE  Dated(Append(rs, r)) = Append(Dated(rs), [dev |-> r.dev, at |-> r.at])
<1> DEFINE D == [dev : Devices, at : 1 .. MaxNow]
           e == [dev |-> r.dev, at |-> r.at]
           s == Dated(Append(rs, r))
           t == Append(Dated(rs), e)
<1>1. \A x \in RowType : [dev |-> x.dev, at |-> x.at] \in D
  BY DEF RowType
<1>2. /\ Len(rs) \in Nat /\ DOMAIN rs = 1 .. Len(rs) /\ \A i \in 1 .. Len(rs) : rs[i] \in RowType
      /\ Append(rs, r) \in Seq(RowType) /\ DOMAIN Append(rs, r) = 1 .. Len(rs) + 1
      /\ \A i \in 1 .. Len(rs) : Append(rs, r)[i] = rs[i]
      /\ Append(rs, r)[Len(rs) + 1] = r
  OBVIOUS
<1>3. Dated(rs) \in [1 .. Len(rs) -> D]
  BY <1>1, <1>2 DEF Dated
<1>4. Dated(rs) \in Seq(D) /\ Len(Dated(rs)) = Len(rs)
  BY <1>2, <1>3, FunctionIsSeq
<1>5. e \in D
  BY <1>1
<1>6. /\ t \in Seq(D) /\ Len(t) = Len(rs) + 1
      /\ \A i \in 1 .. Len(rs) + 1 : t[i] = IF i = Len(rs) + 1 THEN e ELSE Dated(rs)[i]
  BY <1>2, <1>4, <1>5
<1>7. \A i \in 1 .. Len(rs) + 1 : s[i] = IF i = Len(rs) + 1 THEN e ELSE Dated(rs)[i]
  BY <1>2 DEF Dated
<1>8. s \in [1 .. Len(rs) + 1 -> D]
  <2>1. \A i \in 1 .. Len(rs) + 1 : Append(rs, r)[i] \in RowType
    BY <1>2
  <2>2. QED
    BY <1>1, <1>2, <2>1 DEF Dated
<1> HIDE DEF s, t, D
<1>9. s \in Seq(D) /\ Len(s) = Len(rs) + 1
  <2>1. Len(rs) + 1 \in Nat
    BY <1>2
  <2>2. QED
    BY <1>8, <2>1, FunctionIsSeq
<1>10. s = t
  BY <1>6, <1>7, <1>9, SeqEqual
<1>11. QED
  BY <1>10 DEF s, t

LEMMA InitJournal == Init => J!Init
<1> SUFFICES ASSUME Init PROVE J!Init
  OBVIOUS
<1>1. Dated(rows) = <<>>
  BY DEF Init, Dated
<1>2. QED
  BY <1>1 DEF Init, J!Init

\* The newest of the dated rows is no younger than a bound on all the rows.
LEMMA NewestBound ==
  ASSUME IngestInv, NEW t \in Nat, \A i \in DOMAIN rows : rows[i].at <= t
  PROVE  J!Newest \in Nat /\ J!Newest <= t
<1>1. /\ Len(rows) \in Nat /\ DOMAIN rows = 1 .. Len(rows)
      /\ Dated(rows) = [i \in 1 .. Len(rows) |-> [dev |-> rows[i].dev, at |-> rows[i].at]]
  BY DEF IngestInv, Stored, Dated
<1>2. CASE Dated(rows) = <<>>
  BY <1>2 DEF J!Newest
<1>3. CASE Dated(rows) # <<>>
  <2>1. Len(Dated(rows)) = Len(rows)
    BY <1>1
  <2>2. Len(rows) # 0
    BY <1>1, <1>3
  <2>3. Dated(rows)[Len(rows)].at = rows[Len(rows)].at /\ Len(rows) \in DOMAIN rows
    BY <1>1, <2>2
  <2>4. QED
    BY <1>3, <2>1, <2>3, RowNumbers DEF J!Newest
<1>4. QED
  BY <1>2, <1>3

\* What a commit shows is one step of the journal, or nothing.
LEMMA AppliedJournal ==
  ASSUME IngestInv, busy, todo = <<>>, Applied
  PROVE  [J!Next]_(J!journal)
<1>1. now' = now /\ rows \in Seq(RowType) /\ now \in 1 .. MaxNow
  BY DEF Applied, IngestInv, Stored, Scalars
<1>2. ASSUME txn.seen # 0, NEW d, d = DeviceOf(msg.byte)
      PROVE  txn.seen \in 1 .. now /\ J!SeenAt(d, txn.seen)
  <2>1. txn.seen \in 1 .. now
    BY <1>1, <1>2, BoundAssumption DEF IngestInv, Pending, Transaction
  <2>2. CASE d \in Registered
    <3>1. txn.seen >= seen[d]
      BY <1>2, <2>2, BoundAssumption DEF IngestInv, Pending, Transaction, Scalars
    <3>2. seen' = [seen EXCEPT ![d] = txn.seen]
      BY <1>2, <2>2, SeenGrows DEF IngestInv, Scalars
    <3>3. QED
      BY <2>1, <2>2, <3>1, <3>2 DEF J!SeenAt
  <2>3. CASE d \notin Registered
    <3>1. seen' = seen
      BY <1>2, <2>3, SeenGrows DEF IngestInv, Scalars
    <3>2. QED
      BY <2>1, <2>3, <3>1 DEF J!SeenAt
  <2>4. QED
    BY <2>2, <2>3
<1>3. CASE SensorHandler
  <2>1. txn.seen # 0 /\ txn.reading # <<>> /\ Accepted(msg)
    BY <1>3 DEF SensorHandler, InHandler
  <2>2. PICK r \in RowType : ThisReading(r) /\ rows' = Append(rows, r)
    BY <2>1, RowsAppended
  <2>3. Dated(rows)' = Append(Dated(rows), [dev |-> r.dev, at |-> r.at])
    BY <1>1, <2>2, DatedAppend
  <2>4. r.dev = DeviceOf(msg.byte) /\ r.dev \in Devices /\ r.at \in 1 .. MaxNow
        /\ r.at <= now /\ r.at <= txn.seen /\ \A i \in DOMAIN rows : rows[i].at <= r.at
    BY <2>1, <2>2 DEF ThisReading, RowType
  <2>5. J!Newest \in Nat /\ J!Newest <= r.at
    BY <2>4, NewestBound, BoundAssumption
  <2>6. txn.seen \in 1 .. now /\ J!SeenAt(r.dev, txn.seen)
    BY <1>2, <2>1, <2>4
  <2>7. r.at \in J!Newest .. now /\ r.at > 0
    BY <1>1, <2>4, <2>5, BoundAssumption
  <2>8. J!Store(r.dev)
    BY <1>1, <2>3, <2>4, <2>6, <2>7 DEF J!Store
  <2>9. QED
    BY <2>4, <2>8 DEF J!Next
<1>4. CASE HelloHandler
  <2>1. txn.seen # 0 /\ txn.reading = <<>> /\ Accepted(msg) /\ msg \in Messages /\ msg.kind = "hello"
    BY <1>4 DEF HelloHandler, InHandler
  <2>2. rows' = rows
    BY <2>1, RowsAppended
  <2>3. DeviceOf(msg.byte) \in Devices
    BY <2>1 DEF Accepted, DeviceOf
  <2>4. txn.seen \in 1 .. now /\ J!SeenAt(DeviceOf(msg.byte), txn.seen)
    BY <1>2, <2>1
  <2>5. J!Greet(DeviceOf(msg.byte))
    BY <1>1, <2>2, <2>4 DEF J!Greet, Dated
  <2>6. QED
    BY <2>3, <2>5 DEF J!Next
<1>5. CASE HealthHandler
  <2>1. rows' = rows /\ seen' = seen
    BY <1>5, RowsAppended, SeenGrows DEF HealthHandler
  <2>2. QED
    BY <1>1, <2>1 DEF J!journal, Dated
<1>6. QED
  BY <1>3, <1>4, <1>5 DEF IngestInv, Control, Free

LEMMA StepJournal == IngestInv /\ [Next]_vars => [J!Next]_(J!journal)
<1> SUFFICES ASSUME IngestInv, [Next]_vars PROVE [J!Next]_(J!journal)
  OBVIOUS
<1>1. ASSUME UNCHANGED tables PROVE UNCHANGED J!journal
  BY <1>1 DEF tables, J!journal, Dated
<1>2. CASE UNCHANGED vars
  BY <1>1, <1>2 DEF vars
<1>3. ASSUME NEW m \in Messages, Take(m) \/ Ignore(m) PROVE UNCHANGED J!journal
  BY <1>1, <1>3 DEF Take, Ignore, vars
<1>4. CASE Execute
  BY <1>1, <1>4 DEF Execute
<1>5. CASE Commit \/ CommitFails
  BY <1>1, <1>5, AppliedJournal DEF Commit, CommitFails
<1>6. CASE Fails
  BY <1>1, <1>6 DEF Fails
<1>7. CASE Second
  <2>1. J!Second
    BY <1>7 DEF Second, J!Second, Dated
  <2>2. QED
    BY <2>1 DEF J!Next
<1>8. QED
  BY <1>2, <1>3, <1>4, <1>5, <1>6, <1>7 DEF Next

(***************************************************************************)
(* The theorems.                                                           *)
(***************************************************************************)

\* Every reachable state satisfies the invariant above.
THEOREM IngestInvariant == Spec => []IngestInv
<1>1. QED
  BY InitInv, StepInv, PTL DEF Spec

\* The handlers implement the journal: a reading and its sign of life appear
\* in one step or not at all, in order, whatever fails and wherever the
\* subscriber dies (mqtt_subscriber.py:196-277).
THEOREM IngestIsAJournal == Spec => ImplementsJournal
<1>1. QED
  BY InitJournal, StepJournal, IngestInvariant, PTL DEF Spec, ImplementsJournal, J!Spec

\* No message leaves two rows (mqtt_subscriber.py:263-275).
THEOREM AtMostOneRow == Spec => []OneRowPerMessage
<1>1. ASSUME IngestInv, NEW i \in DOMAIN rows, NEW j \in DOMAIN rows, rows[i].n = rows[j].n
      PROVE  i = j
  <2>1. DOMAIN rows = 1 .. Len(rows) /\ Len(rows) \in Nat
    BY <1>1 DEF IngestInv, Stored
  <2>2. rows[i].n \in Nat /\ rows[j].n \in Nat
    BY <1>1, RowNumbers
  <2>3. ~(i < j) /\ ~(j < i)
    BY <1>1, <2>2 DEF IngestInv, Stored
  <2>4. QED
    BY <2>1, <2>3
<1>2. IngestInv => OneRowPerMessage
  BY <1>1 DEF OneRowPerMessage
<1>3. QED
  BY <1>2, IngestInvariant, PTL

\* What is stored is what was measured, column by column, and NULL or 0.00 stands for
\* exactly what was not, for every temperature of 16 bits
\* (ble_adv.c:94-132 to mqtt_subscriber.py:225-255).
THEOREM RowsWereMeasured == Spec => []StoredWasMeasured
<1>1. IngestInv => StoredWasMeasured
  BY DEF IngestInv, Stored, StoredWasMeasured
<1>2. QED
  BY <1>1, IngestInvariant, PTL

\* A device with a recent reading is not called Disconnected (app.py:194-207).
THEOREM LatestIsConnected == Spec => []LatestMeansConnected
<1>1. ASSUME IngestInv, NEW d \in Registered, NEW i \in DOMAIN rows,
             IsLatest(d, i), rows[i].at > now - StatusAge
      PROVE  Status(d) = "Normal"
  <2>1. rows[i].dev = d
    BY <1>1 DEF IsLatest, Fresh
  <2>2. rows[i] \in RowType /\ rows[i].at \in Nat /\ rows[i].at \in 1 .. MaxNow
    BY <1>1, RowNumbers DEF RowType
  <2>3. rows[i].at <= seen[d] /\ seen[d] \in 0 .. MaxNow
    BY <1>1, <2>1 DEF IngestInv, Stored, Scalars
  <2>4. seen[d] # 0 /\ seen[d] > now - StatusAge
    BY <1>1, <2>2, <2>3, BoundAssumption DEF IngestInv, Scalars
  <2>5. QED
    BY <2>4 DEF Status
<1>2. IngestInv => LatestMeansConnected
  BY <1>1 DEF LatestMeansConnected
<1>3. QED
  BY <1>2, IngestInvariant, PTL

\* TypeOK of the run: what fails or dies in the middle leaves no row outside
\* the filters and no statement behind (mqtt_subscriber.py:17-54).
THEOREM TypeCorrect == Spec => []TypeOK
<1>1. ASSUME IngestInv PROVE TypeOK
  <2>1. msg \in Messages \cup {Idle}
    BY <1>1 DEF IngestInv, Control, Free, SensorHandler, HelloHandler, HealthHandler, InHandler
  <2>2. todo \in Seq(Statements)
    <3>1. {"insertReading", "seeDevice", "seeGateway", "insertReport"} \subseteq Statements
      BY DEF Statements
    <3>2. \/ todo = <<>> \/ todo = <<"insertReading", "seeDevice">> \/ todo = <<"seeDevice">>
          \/ todo = <<"seeGateway", "seeDevice">> \/ todo = <<"insertReport">>
      BY <1>1 DEF IngestInv, Control, Free, SensorHandler, HelloHandler, HealthHandler
    <3>3. /\ <<>> \in Seq(Statements)
          /\ \A a, b \in Statements : <<a>> \in Seq(Statements) /\ <<a, b>> \in Seq(Statements)
      OBVIOUS
    <3>4. QED
      BY <3>1, <3>2, <3>3
  <2>3. /\ txn.seen \in 0 .. MaxNow /\ txn.gw \in 0 .. MaxNow /\ txn.report \in {0, 1}
        /\ txn.reading \in Seq(RowType)
    BY <1>1 DEF IngestInv, Pending, Transaction
  <2>4. QED
    BY <1>1, <2>1, <2>2, <2>3 DEF IngestInv, Scalars, Stored, TypeOK
<1>2. IngestInv => TypeOK
  BY <1>1
<1>3. QED
  BY <1>2, IngestInvariant, PTL
=============================================================================
