------------------------------ MODULE TempAlert ------------------------------
(***************************************************************************)
(* The temperature alerts of the app: TempWatchViewModel polls GET /devices*)
(* while the activity is started, LiveData hands the answer to its observer*)
(* in MainActivity, and TempAlertNotifier decides what to notify.          *)
(*                                                                         *)
(* The server answers with the temperatures of that moment; the answer may *)
(* be overtaken by that of a later call, and come when the activity is     *)
(* stopped, since no call is ever cancelled.  Then it waits in LiveData for*)
(* the next start; an activity that is created again is given the last one *)
(* once more.  What was notified is kept in SharedPreferences, which reach *)
(* the disk later than the memory.                                         *)
(*                                                                         *)
(* Times are relative and in steps, of which Renotify make ten minutes.    *)
(***************************************************************************)
EXTENDS Integers

CONSTANTS
  Keys,        \* a device and one of its two sensors
  Temps,       \* temperatures
  NULL,
  Thresholds,  \* what the settings offer
  Hysteresis,  \* HYSTERESIS_C
  Renotify,    \* MIN_RENOTIFY_MS
  MaxAge,      \* LATEST_TEMP_MAX_AGE_MINUTES of the server
  MaxCalls     \* bound of the model: calls on their way at once

ASSUME AlertAssumption ==
  /\ Temps \subseteq Int /\ Thresholds \subseteq Int /\ NULL \notin Int
  /\ Hysteresis \in Nat \ {0}
  /\ Renotify \in Nat \ {0} /\ MaxAge \in Nat
  /\ MaxCalls \in Nat

VARIABLES
  latest,     \* server: the newest row of the device, its value and age
  threshold,  \* of the sensor of the key, in the preferences
  permitted,  \* POST_NOTIFICATIONS
  started,    \* the activity is started, and the polling with it
  call,       \* the calls, and what the server has answered to them
  data,       \* the LiveData: the last answer that came
  unseen,     \* it has not been handed to the observer
  prefs,      \* the alert state in memory; last is the age of the timestamp
  disk,       \* the alert state that a killed process comes back with
  told,       \* history: time since the last notification of the key
  excused     \* history: since then it fell back, or a write was lost

vars == <<latest, threshold, permitted, started, call, data, unseen, prefs, disk, told, excused>>
world == <<latest, threshold, permitted>>
memory == <<prefs, disk, told, excused>>

Values == Temps \cup {NULL}
Ages == 0 .. MaxAge + 1
State == [active : BOOLEAN, last : 0 .. Renotify]
Slots == 1 .. MaxCalls
Answers == [Keys -> Values]
NoAnswer == [k \in Keys |-> NULL]
Free == [state |-> "free", said |-> NoAnswer]
Asked == [state |-> "asked", said |-> NoAnswer]
Calls == [state : {"free", "asked", "answered"}, said : Answers]

TypeOK ==
  /\ latest \in [Keys -> [v : Values, age : Ages]]
  /\ call \in [Slots -> Calls] /\ data \in Answers
  /\ threshold \in [Keys -> Thresholds]
  /\ permitted \in BOOLEAN /\ started \in BOOLEAN /\ unseen \in BOOLEAN
  /\ prefs \in [Keys -> State] /\ disk \in [Keys -> State]
  /\ told \in [Keys -> 0 .. Renotify]
  /\ excused \in [Keys -> BOOLEAN]

\* getBoolean(.., false), getLong(.., 0L): 0 is long ago
Fresh == [k \in Keys |-> [active |-> FALSE, last |-> Renotify]]

Init ==
  /\ latest \in [Keys -> [v : Values, age : {0}]]
  /\ threshold \in [Keys -> Thresholds] /\ permitted \in BOOLEAN
  /\ started = FALSE /\ call = [i \in Slots |-> Free]
  /\ data = NoAnswer /\ unseen = FALSE
  /\ prefs = Fresh /\ disk = Fresh
  /\ told = [k \in Keys |-> Renotify] /\ excused = [k \in Keys |-> FALSE]

(***************************************************************************)
(* TempAlertNotifier.                                                      *)
(***************************************************************************)
Exceeds(k) == data[k] # NULL /\ data[k] >= threshold[k]
FellBack(k) == data[k] # NULL /\ data[k] <= threshold[k] - Hysteresis

\* Mutant: without the third branch, the reminder.
WantedOnce(k) == Exceeds(k) /\ ~prefs[k].active

\* The first and the third branch of evaluate ask for a notification, ...
Wanted(k) ==
  Exceeds(k) /\ (prefs[k].active => prefs[k].last >= Renotify)

\* ... which is posted only with the permission.
Posted(k) == permitted /\ Wanted(k)

\* Mutant: the state is written although nothing was posted.
EvaluateUnposted(k) ==
  IF Wanted(k) THEN [active |-> TRUE, last |-> 0]
  ELSE IF prefs[k].active /\ FellBack(k) THEN [prefs[k] EXCEPT !.active = FALSE]
  ELSE prefs[k]

\* Mutant: the reminder does not write its time.
EvaluateReminderForgotten(k) ==
  IF Posted(k) THEN [active |-> TRUE, last |-> IF prefs[k].active THEN prefs[k].last ELSE 0]
  ELSE IF prefs[k].active /\ FellBack(k) THEN [prefs[k] EXCEPT !.active = FALSE]
  ELSE prefs[k]

\* evaluate: the state is written only when the notification was posted.
Evaluate(k) ==
  IF Posted(k) THEN [active |-> TRUE, last |-> 0]
  ELSE IF prefs[k].active /\ FellBack(k) THEN [prefs[k] EXCEPT !.active = FALSE]
  ELSE prefs[k]

\* check, for every device and both sensors
Check ==
  /\ prefs' = [k \in Keys |-> Evaluate(k)]
  /\ told' = [k \in Keys |-> IF Posted(k) THEN 0 ELSE told[k]]
  /\ excused' = [k \in Keys |-> ~Posted(k) /\ (excused[k] \/ FellBack(k))]
  /\ UNCHANGED disk

(***************************************************************************)
(* TempWatchViewModel and MainActivity.                                    *)
(***************************************************************************)
Poll(i) ==
  /\ started
  /\ call[i] = Free
  /\ call' = [call EXCEPT ![i] = Asked]
  /\ UNCHANGED <<world, memory, started, data, unseen>>

\* Mutant: GET /devices gives the newest row however old it is.
LatestAnyAge == [k \in Keys |-> latest[k].v]

\* GET /devices: rows older than the limit give NULL.
Latest == [k \in Keys |-> IF latest[k].age > MaxAge THEN NULL ELSE latest[k].v]

\* The server answers.
Answer(i) ==
  /\ call[i] = Asked
  /\ call' = [call EXCEPT ![i] = [state |-> "answered", said |-> Latest]]
  /\ UNCHANGED <<world, memory, started, data, unseen>>

\* The answer comes, in any order and by postValue; the polling may have stopped
\* meanwhile, or started anew.
Deliver(i) ==
  /\ call[i].state = "answered"
  /\ call' = [call EXCEPT ![i] = Free]
  /\ data' = call[i].said /\ unseen' = TRUE
  /\ UNCHANGED <<world, memory, started>>

Lose(i) ==
  /\ call[i] # Free
  /\ call' = [call EXCEPT ![i] = Free]
  /\ UNCHANGED <<world, memory, started, data, unseen>>

\* The observer is active only while the activity is started.
Dispatch ==
  /\ started /\ unseen
  /\ unseen' = FALSE
  /\ Check
  /\ UNCHANGED <<world, started, call, data>>

Start ==
  /\ ~started
  /\ started' = TRUE
  /\ UNCHANGED <<world, memory, call, data, unseen>>

\* onStop: the calls go on.  Android writes the preferences before it
\* considers the activity stopped.
Stop ==
  /\ started
  /\ started' = FALSE
  /\ disk' = prefs
  /\ UNCHANGED <<world, call, data, unseen, prefs, told, excused>>

\* The activity is destroyed and created again (a rotation): the view model
\* stays, and the new observer is given the last answer.
Recreate ==
  /\ ~started
  /\ unseen' = (unseen \/ data # NoAnswer)
  /\ UNCHANGED <<world, memory, started, call, data>>

\* The preferences reach the disk.
Flush ==
  /\ disk # prefs
  /\ disk' = prefs
  /\ UNCHANGED <<world, started, call, data, unseen, prefs, told, excused>>

\* The process is killed; what had not reached the disk is lost.
Kill ==
  /\ started' = FALSE /\ call' = [i \in Slots |-> Free]
  /\ data' = NoAnswer /\ unseen' = FALSE
  /\ prefs' = disk
  /\ excused' = [k \in Keys |-> excused[k] \/ disk[k] # prefs[k]]
  /\ UNCHANGED <<world, disk, told>>

(***************************************************************************)
(* The rest of the world.                                                  *)
(***************************************************************************)
Measure ==
  /\ \E v \in [Keys -> Values] : latest' = [k \in Keys |-> [v |-> v[k], age |-> 0]]
  /\ UNCHANGED <<threshold, permitted, started, call, data, unseen, memory>>

Settings ==
  /\ threshold' \in [Keys -> Thresholds]
  /\ permitted' \in BOOLEAN
  /\ UNCHANGED <<latest, started, call, data, unseen, memory>>

Up(n, limit) == IF n < limit THEN n + 1 ELSE n
Older(rows) == [k \in Keys |-> [rows[k] EXCEPT !.age = Up(@, MaxAge + 1)]]
Aged(states) == [k \in Keys |-> [states[k] EXCEPT !.last = Up(@, Renotify)]]

Tick ==
  /\ latest' = Older(latest)
  /\ prefs' = Aged(prefs) /\ disk' = Aged(disk)
  /\ told' = [k \in Keys |-> Up(told[k], Renotify)]
  /\ UNCHANGED <<threshold, permitted, started, call, data, unseen, excused>>

PollAny    == \E i \in Slots : Poll(i)
AnswerAny  == \E i \in Slots : Answer(i)
DeliverAny == \E i \in Slots : Deliver(i)

Next ==
  \/ PollAny \/ AnswerAny \/ DeliverAny \/ Dispatch
  \/ \E i \in Slots : Lose(i)
  \/ Start \/ Stop \/ Recreate \/ Flush \/ Kill
  \/ Measure \/ Settings \/ Tick

Spec == Init /\ [][Next]_vars

\* An activity polls as soon as it is started, is answered now and then, and runs its
\* observer.
FairSpec ==
  Spec /\ SF_vars(PollAny) /\ SF_vars(AnswerAny) /\ SF_vars(DeliverAny)
       /\ WF_vars(Dispatch) /\ SF_vars(Tick)

(***************************************************************************)
(* Properties.                                                             *)
(***************************************************************************)

\* Two notifications of one key are at least Renotify apart, unless the
\* temperature fell back below the hysteresis in between, or the process
\* died before the first one was written (TempAlertNotifier.java:188-207).
RemindersSpaced ==
  [][\A k \in Keys : Dispatch /\ Posted(k) => told[k] >= Renotify \/ excused[k]]_vars

\* An excess that is seen with the permission is told at once if nothing was
\* told of it for Renotify: a notification that could not be posted never
\* holds the next one back (TempAlertNotifier.java:170-174, 189-195).
NothingHeldBack ==
  [][\A k \in Keys : Dispatch /\ permitted /\ Exceeds(k) /\ told[k] >= Renotify =>
       told'[k] = 0]_vars

\* An excess that lasts is told again and again while the app is open, also if its
\* height and the threshold keep changing, as long as the one stays above the other
\* (a t between them): through stops, kills, a missing permission and old answers
\* before (TempAlertNotifier.java:188-207).
Lasts(k, t) ==
  /\ started /\ permitted /\ threshold[k] <= t
  /\ latest[k].v # NULL /\ latest[k].v >= t /\ latest[k].age <= MaxAge
ExcessIsTold ==
  \A k \in Keys : \A t \in Thresholds : <>[]Lasts(k, t) => []<>(told[k] = 0)

\* The alarms about a device that sends nothing any more come to an end, however often
\* the activity is stopped, made again or killed.  No single one can be ruled out: an
\* answer has no time when it is judged, so one that waited over a stop, or is handed
\* to a new observer, still alarms hours later (TempWatchViewModel.java:50, 63-66),
\* once or once per reminder, until a new answer replaces it (app.py:167-173).
SilenceEndsTheAlarm ==
  \A k \in Keys : <>[](latest[k].age > MaxAge) => <>[](told[k] # 0)
=============================================================================
