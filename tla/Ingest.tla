-------------------------------- MODULE Ingest --------------------------------
(***************************************************************************)
(* A reading on its way into the database: the bytes of the advertisement  *)
(* (ble_adv.c), the JSON of the gateway (app_ble.c, main.c), and the       *)
(* handlers of mqtt_subscriber.py with their filters and transactions.     *)
(*                                                                         *)
(* The subscriber handles one message at a time.  Each of its statements,  *)
(* and the commit, may fail, and its process may die; nothing is retried.  *)
(* Temperatures are in hundredths of a degree.                             *)
(***************************************************************************)
EXTENDS Integers, Sequences

CONSTANTS
  Bytes,        \* the values of esp_byte_id: indices of the gateway's whitelist
  Registered,   \* the device ids with a row in the table device
  Temps,        \* what as6221_read_x100 returns, the sentinel included
  Cores,        \* what the model of the core temperature predicts
  NULL,         \* SQL's
  StatusAge,    \* GET /devices: 15 s until a device is Disconnected
  LatestAge,    \* GET /devices: LATEST_TEMP_MAX_AGE_MINUTES
  MaxMessages,  \* bound of the model: messages the subscriber takes
  MaxNow        \* bound of the model: seconds

AS6221_TEMP_INVALID_X100 == -32768
INT16_MIN == -32768
INT16_MAX == 32767
VALID_TEMP_MIN_C == -2000
VALID_TEMP_MAX_C == 8000
CORE_MIN == -20000
Devices == 0 .. 9

ASSUME IdAssumption == Bytes \subseteq Nat /\ Registered \subseteq Devices

ASSUME TempAssumption ==
  /\ \A t \in Temps : t \in Int /\ INT16_MIN <= t /\ t <= INT16_MAX
  /\ \A t \in Cores : t \in Int /\ INT16_MIN < t /\ t <= INT16_MAX
  /\ NULL \notin Int

ASSUME BoundAssumption ==
  /\ StatusAge \in Nat /\ LatestAge \in Nat
  /\ MaxMessages \in Nat /\ MaxNow \in Nat \ {0}

VARIABLES
  now,      \* the clock of the database
  rows,     \* temperature_log, with the message of each row as history
  seen,     \* device.last_seen_at
  gwSeen,   \* line_gateway.last_seen_at
  reports,  \* rows of gateway_health_log
  taken,    \* messages taken so far
  msg,      \* the message in the handler
  todo,     \* the statements it has still to execute, <<>> before the commit
  busy,     \* the subscriber is in a handler
  txn       \* what the open transaction would change

tables == <<now, rows, seen, gwSeen, reports>>
vars == <<tables, taken, msg, todo, busy, txn>>

(***************************************************************************)
(* From the sensors to the JSON.                                           *)
(***************************************************************************)
LowByte(x) == (x % 65536) % 256
HighByte(x) == (x % 65536) \div 256
Int16(low, high) ==
  LET u == low + 256 * high IN IF u < 32768 THEN u ELSE u - 65536

\* What the node advertises from mfg_data[2] on: temp2, temp1, and from
\* mfg_data[13] on the core temperature, which is invalid unless both are valid.
\* A node of the old format ends before it and has the same bytes up to there.
CoreOf(m) ==
  IF AS6221_TEMP_INVALID_X100 \in {m.th1, m.th2} THEN AS6221_TEMP_INVALID_X100 ELSE m.core
Advertised(m) ==
  LET temps == <<LowByte(m.th2), HighByte(m.th2), LowByte(m.th1), HighByte(m.th1)>>
  IN IF m.format = "old" THEN temps
     ELSE temps \o <<LowByte(CoreOf(m)), HighByte(CoreOf(m))>>

\* What the gateway takes from the same bytes: without a core temperature, 0.
Parsed(b) ==
  [temp1 |-> Int16(b[1], b[2]), temp2 |-> Int16(b[3], b[4]),
   core |-> IF Len(b) >= 6 THEN Int16(b[5], b[6]) ELSE 0]

\* "%d.%02d" of the quotient and the remainder, read back as a number: the
\* sign is that of the quotient.
Abs(x) == IF x >= 0 THEN x ELSE -x
Decimal(x) ==
  LET whole == IF x >= 0 THEN x \div 100 ELSE -((-x) \div 100)
      frac == Abs(x) % 100
  IN IF whole < 0 THEN 100 * whole - frac ELSE 100 * whole + frac

Published(p) == [temp1 |-> Decimal(p.temp1), temp2 |-> Decimal(p.temp2), core |-> Decimal(p.core)]

(***************************************************************************)
(* The filters of mqtt_subscriber.py.                                      *)
(***************************************************************************)
\* Mutant: only the lower limit.
ValidTempNoUpper(v) == IF v < VALID_TEMP_MIN_C THEN NULL ELSE v

\* _valid_temp
ValidTemp(v) == IF v < VALID_TEMP_MIN_C \/ v > VALID_TEMP_MAX_C THEN NULL ELSE v

\* Mutant: the core temperature is stored as it comes.
CastFloatUnchecked(v) == v

\* _cast_float: no upper limit, only the sentinel is excluded
CastFloat(v) == IF v < CORE_MIN THEN NULL ELSE v

\* esp_byte_to_device_id
DeviceOf(byte) == IF byte \in Devices THEN byte ELSE NULL

Messages ==
  [kind : {"sensor"}, format : {"new"}, byte : Bytes, th1 : Temps, th2 : Temps, core : Cores]
    \cup [kind : {"sensor"}, format : {"old"}, byte : Bytes, th1 : Temps, th2 : Temps]
    \cup [kind : {"hello"}, byte : Bytes] \cup [kind : {"health"}]

\* A handler returns at once when it cannot name the device.
Accepted(m) == m.kind # "health" => DeviceOf(m.byte) # NULL

Reading(m) ==
  LET json == Published(Parsed(Advertised(m)))
  IN [n |-> taken, dev |-> DeviceOf(m.byte), at |-> now,
      temp1 |-> ValidTemp(json.temp1), temp2 |-> ValidTemp(json.temp2),
      core |-> CastFloat(json.core), from |-> m]

(***************************************************************************)
(* The handlers.                                                           *)
(***************************************************************************)
Statements == {"insertReading", "seeDevice", "seeGateway", "insertReport"}

\* Mutant: the sign of life is written before the reading.
ScriptSeesFirst(kind) ==
  CASE kind = "sensor" -> <<"seeDevice", "insertReading">>
    [] kind = "hello"  -> <<"seeGateway", "seeDevice">>
    [] kind = "health" -> <<"insertReport">>

\* handle_sensor, handle_mfg_data and handle_gateway_health, by their statements
Script(kind) ==
  CASE kind = "sensor" -> <<"insertReading", "seeDevice">>
    [] kind = "hello"  -> <<"seeGateway", "seeDevice">>
    [] kind = "health" -> <<"insertReport">>

Nothing == [reading |-> <<>>, seen |-> 0, gw |-> 0, report |-> 0]
Idle == [kind |-> "none"]

Init ==
  /\ now = 1
  /\ rows = <<>> /\ seen = [d \in Registered |-> 0]
  /\ gwSeen = 0 /\ reports = 0
  /\ taken = 0 /\ msg = Idle /\ todo = <<>> /\ busy = FALSE /\ txn = Nothing

\* on_message
Take(m) ==
  /\ ~busy /\ taken < MaxMessages
  /\ Accepted(m)
  /\ taken' = taken + 1
  /\ msg' = m /\ todo' = Script(m.kind) /\ busy' = TRUE
  /\ UNCHANGED <<tables, txn>>

\* A handler that cannot name the device returns early.
Ignore(m) ==
  /\ ~busy
  /\ ~Accepted(m)
  /\ UNCHANGED vars

\* temp1 is NOT NULL (temperature_db_init.sql).
Executable(s) == s = "insertReading" => Reading(msg).temp1 # NULL

Effect(s) ==
  CASE s = "insertReading" -> [txn EXCEPT !.reading = <<Reading(msg)>>]
    [] s = "seeDevice"     -> [txn EXCEPT !.seen = now]
    [] s = "seeGateway"    -> [txn EXCEPT !.gw = now]
    [] s = "insertReport"  -> [txn EXCEPT !.report = 1]

Execute ==
  /\ busy /\ todo # <<>>
  /\ Executable(Head(todo))
  /\ txn' = Effect(Head(todo))
  /\ todo' = Tail(todo)
  /\ UNCHANGED <<tables, taken, msg, busy>>

\* Out of the handler: what is not committed is rolled back.
Return ==
  /\ busy' = FALSE /\ msg' = Idle /\ todo' = <<>> /\ txn' = Nothing
  /\ UNCHANGED taken

\* The transaction becomes visible.  An UPDATE of a device or a gateway that
\* is not registered changes no row.
Applied ==
  /\ rows' = rows \o txn.reading
  /\ seen' = [d \in Registered |->
                IF txn.seen # 0 /\ d = DeviceOf(msg.byte) THEN txn.seen ELSE seen[d]]
  /\ gwSeen' \in (IF txn.gw = 0 THEN {gwSeen} ELSE {gwSeen, txn.gw})
  /\ reports' = reports + txn.report
  /\ UNCHANGED now

Commit ==
  /\ busy /\ todo = <<>>
  /\ Applied
  /\ Return

\* Mutant: a commit that fails is tried again with a new transaction.
CommitFailsRetried ==
  /\ busy /\ todo = <<>>
  /\ Applied \/ UNCHANGED tables
  /\ todo' = Script(msg.kind) /\ txn' = Nothing
  /\ UNCHANGED <<taken, msg, busy>>

\* The answer to the commit is lost: it was applied or not.
CommitFails ==
  /\ busy /\ todo = <<>>
  /\ Applied \/ UNCHANGED tables
  /\ Return

\* Mutant: the session commits each statement.
FailsCommitted ==
  /\ busy /\ todo # <<>>
  /\ Applied
  /\ Return

\* A statement fails, the connection is lost or the process dies: rollback.
\* A reading whose temp1 was filtered can only end here.
Fails ==
  /\ busy /\ todo # <<>>
  /\ Return
  /\ UNCHANGED tables

Second ==
  /\ now < MaxNow
  /\ now' = now + 1
  /\ UNCHANGED <<rows, seen, gwSeen, reports, taken, msg, todo, busy, txn>>

Next ==
  \/ \E m \in Messages : Take(m) \/ Ignore(m)
  \/ Execute \/ Commit \/ CommitFails \/ Fails
  \/ Second

Spec == Init /\ [][Next]_vars

(***************************************************************************)
(* GET /devices.                                                           *)
(***************************************************************************)
Status(d) == IF seen[d] # 0 /\ seen[d] > now - StatusAge THEN "Normal" ELSE "Disconnected"

\* The rows of the device that are young enough, and the one it shows:
\* ORDER BY created_at DESC, id DESC LIMIT 1.
Fresh(d) == {i \in DOMAIN rows : rows[i].dev = d /\ rows[i].at >= now - LatestAge}
IsLatest(d, i) ==
  /\ i \in Fresh(d)
  /\ \A j \in Fresh(d) : rows[j].at < rows[i].at \/ (rows[j].at = rows[i].at /\ j <= i)

(***************************************************************************)
(* Properties.                                                             *)
(***************************************************************************)
MaybeTemp(lo, hi) == lo .. hi \cup {NULL}
RowType ==
  [n : 1 .. MaxMessages, dev : Devices, at : 1 .. MaxNow,
   temp1 : MaybeTemp(VALID_TEMP_MIN_C, VALID_TEMP_MAX_C),
   temp2 : MaybeTemp(VALID_TEMP_MIN_C, VALID_TEMP_MAX_C),
   core : MaybeTemp(CORE_MIN, INT16_MAX), from : Messages]

TypeOK ==
  /\ now \in 1 .. MaxNow /\ taken \in 0 .. MaxMessages
  /\ rows \in Seq(RowType)
  /\ seen \in [Registered -> 0 .. MaxNow] /\ gwSeen \in 0 .. MaxNow
  /\ reports \in Nat
  /\ busy \in BOOLEAN
  /\ msg \in Messages \cup {Idle}
  /\ todo \in Seq(Statements)
  /\ txn.seen \in 0 .. MaxNow /\ txn.gw \in 0 .. MaxNow /\ txn.report \in {0, 1}
  /\ txn.reading \in Seq(RowType)

\* What the server promises: a reading and its sign of life come together
\* or not at all, whatever fails, and never out of order.
Dated(rs) == [i \in DOMAIN rs |-> [dev |-> rs[i].dev, at |-> rs[i].at]]
J == INSTANCE Journal WITH readings <- Dated(rows)
ImplementsJournal == J!Spec

\* GET /devices never calls a device Disconnected while it shows a reading of
\* it that is younger than the limit of the status: INSERT and UPDATE take
\* NOW() one after the other (app.py:194-207, mqtt_subscriber.py:245-261).
LatestMeansConnected ==
  \A d \in Registered : \A i \in DOMAIN rows :
    IsLatest(d, i) /\ rows[i].at > now - StatusAge => Status(d) = "Normal"

\* No message leaves two rows, also when a commit was applied and reported as
\* failed (mqtt_subscriber.py:263-275: nothing is tried again).
OneRowPerMessage ==
  \A i, j \in DOMAIN rows : rows[i].n = rows[j].n => i = j

\* What is stored is what was measured, column by column, from the 16 bits of the
\* sensor to the row, and NULL stands for exactly what was not:
\*   - temp1 is the second channel, because the node puts it first, and never NULL:
\*     a reading whose second channel failed or is out of range leaves no row
\*     (mqtt_subscriber.py:18, 228 and ble_adv.c:59 say that it is stored as NULL);
\*   - temp2 is the first channel, NULL exactly when that is out of range;
\*   - the core temperature is the predicted one, NULL exactly when a channel
\*     failed or it is below -200; a node of the old format has none, and 0.00 is
\*     stored for it (app_ble.c:580-583; mqtt_subscriber.py:232-234 expects NULL);
\*   - a value between -1.00 and 0 has lost its sign (main.c:866-871).
WithoutSign(t) == IF t \in -99 .. -1 THEN -t ELSE t
InRange(t) == VALID_TEMP_MIN_C <= t /\ t <= VALID_TEMP_MAX_C
Failed(m) == AS6221_TEMP_INVALID_X100 \in {m.th1, m.th2}
Faithful(r) ==
  LET m == r.from IN
  /\ InRange(m.th2) /\ r.temp1 = WithoutSign(m.th2)
  /\ r.temp2 = IF InRange(m.th1) THEN WithoutSign(m.th1) ELSE NULL
  /\ m.format = "old" => r.core = 0
  /\ m.format = "new" =>
       r.core = IF Failed(m) \/ m.core < CORE_MIN THEN NULL ELSE WithoutSign(m.core)
StoredWasMeasured == \A i \in DOMAIN rows : Faithful(rows[i])
=============================================================================
