------------------------------- MODULE Journal -------------------------------
(***************************************************************************)
(* What the server's tables promise to their readers (the API and, through *)
(* it, the apps): a reading appears together with the sign of life of its  *)
(* device, in one step; the readings are in the order of their timestamps, *)
(* and no device was last seen before its newest reading.                  *)
(*                                                                         *)
(* Times are seconds, those of NOW(); 0 is NULL.                           *)
(***************************************************************************)
EXTENDS Integers, Sequences

CONSTANTS
  Devices,     \* the device ids that readings may carry
  Registered   \* those with a row in the table device

VARIABLES
  now,         \* the clock of the database
  readings,    \* temperature_log as [dev, at] per row, in the order of the ids
  seen         \* device.last_seen_at

journal == <<now, readings, seen>>

Newest == IF readings = <<>> THEN 0 ELSE readings[Len(readings)].at

Init ==
  /\ now = 1
  /\ readings = <<>>
  /\ seen = [d \in Registered |-> 0]

SeenAt(d, t) ==
  IF d \in Registered
  THEN t >= seen[d] /\ seen' = [seen EXCEPT ![d] = t]
  ELSE UNCHANGED seen

Store(d) ==
  \E at \in Newest .. now, t \in 1 .. now :
    /\ at > 0 /\ t >= at
    /\ readings' = Append(readings, [dev |-> d, at |-> at])
    /\ SeenAt(d, t)
    /\ UNCHANGED now

Greet(d) ==
  /\ \E t \in 1 .. now : SeenAt(d, t)
  /\ UNCHANGED <<now, readings>>

Second ==
  /\ now' = now + 1
  /\ UNCHANGED <<readings, seen>>

Next == Second \/ \E d \in Devices : Store(d) \/ Greet(d)

Spec == Init /\ [][Next]_journal

(***************************************************************************)
(* Properties.                                                             *)
(***************************************************************************)
TypeOK ==
  /\ now \in Nat \ {0}
  /\ readings \in Seq([dev : Devices, at : 1 .. now])
  /\ seen \in [Registered -> 0 .. now]

\* No device was last seen before one of its readings.
SeenSinceItsReadings ==
  \A i \in DOMAIN readings :
    readings[i].dev \in Registered => readings[i].at <= seen[readings[i].dev]

\* The order of the ids is the order of the timestamps, so that the two
\* orders the queries use (created_at, and id among equals) agree.
InOrder ==
  \A i, j \in DOMAIN readings : i < j => readings[i].at <= readings[j].at
=============================================================================
