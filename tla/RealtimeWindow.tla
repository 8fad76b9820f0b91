---------------------------- MODULE RealtimeWindow ----------------------------
(***************************************************************************)
(* The real-time screen of the app: SensorDetailTestViewModel, the calls   *)
(* of TemperatureRepository it makes, and the queries that answer them.    *)
(*                                                                         *)
(* Once a second a poll asks for the newest WINDOW_SIZE rows, or for those *)
(* after the last timestamp it has.  Several calls are on their way at a   *)
(* time; they are answered and delivered in any order, or lost, and        *)
(* stopping the polls cancels none of them.                                *)
(*                                                                         *)
(* The table is the Journal of one device.  A row is its id; the app sees  *)
(* its timestamp, a whole second.                                          *)
(***************************************************************************)
EXTENDS Integers, Sequences, FiniteSets

CONSTANTS
  WINDOW_SIZE,
  MaxCalls,    \* bound of the model: calls on their way
  MaxRows,     \* bound of the model: rows of the device
  MaxNow       \* bound of the model: seconds

ASSUME WindowAssumption ==
  /\ WINDOW_SIZE \in Nat \ {0}
  /\ MaxCalls \in Nat /\ MaxRows \in Nat /\ MaxNow \in Nat \ {0}

VARIABLES
  now, readings,   \* the clock and the table of the server
  polling, lastTs, \* of the view model; lastTs is 0 for null
  window,          \* the ids of the rows, oldest first
  shown,           \* what recentData holds, oldest first
  timer,           \* pollRunnable is posted
  calls,           \* the calls on their way; old is history: asked before startPolling
  clean            \* history: see OnInitial and OnDelta

server == <<now, readings>>
app == <<polling, lastTs, window, shown, timer, clean>>
vars == <<server, app, calls>>

\* One device, whose row in the table device is not looked at here.
J == INSTANCE Journal WITH Devices <- {1}, Registered <- {}, seen <- <<>>

At(i) == readings[i].at
Ids == 1 .. MaxRows
Rows == DOMAIN readings

Call == [kind : {"recent", "since"}, since : 0 .. MaxNow, old : BOOLEAN,
         answered : BOOLEAN, items : Seq(Ids)]

TypeOK ==
  /\ J!TypeOK /\ now \in 1 .. MaxNow /\ Len(readings) <= MaxRows
  /\ polling \in BOOLEAN /\ timer \in BOOLEAN /\ clean \in BOOLEAN
  /\ lastTs \in 0 .. now
  /\ window \in Seq(Rows) /\ Len(window) <= WINDOW_SIZE
  /\ shown \in Seq(Rows) /\ Len(shown) <= WINDOW_SIZE
  /\ calls \in Seq(Call) /\ Len(calls) <= MaxCalls

Init ==
  /\ J!Init
  /\ polling = FALSE /\ timer = FALSE
  /\ lastTs = 0 /\ window = <<>> /\ shown = <<>>
  /\ calls = <<>> /\ clean = TRUE

(***************************************************************************)
(* The server.                                                             *)
(***************************************************************************)
Insert ==
  /\ Len(readings) < MaxRows
  /\ J!Store(1)
  /\ UNCHANGED <<app, calls>>

Second ==
  /\ now < MaxNow
  /\ J!Second
  /\ UNCHANGED <<app, calls>>

\* The sequences of n different rows of S.
Lists(S, n) == {s \in [1 .. n -> S] : \A i, j \in 1 .. n : i # j => s[i] # s[j]}
AtMost(n, limit) == IF n < limit THEN n ELSE limit

\* ORDER BY created_at DESC LIMIT: the order among equal seconds is open.
NewestFirst(S, limit) ==
  {s \in Lists(S, AtMost(Cardinality(S), limit)) :
     \A i \in DOMAIN s :
       /\ \A j \in 1 .. i : At(s[j]) >= At(s[i])
       /\ \A r \in S : (\A j \in DOMAIN s : s[j] # r) => At(r) <= At(s[i])}

\* ORDER BY created_at ASC LIMIT
OldestFirst(S, limit) ==
  {s \in Lists(S, AtMost(Cardinality(S), limit)) :
     \A i \in DOMAIN s :
       /\ \A j \in 1 .. i : At(s[j]) <= At(s[i])
       /\ \A r \in S : (\A j \in DOMAIN s : s[j] # r) => At(r) >= At(s[i])}

\* Mutant: the increment is the newest rows, turned round.
IncrementNewest(since) ==
  {[i \in DOMAIN s |-> s[Len(s) + 1 - i]] :
     s \in NewestFirst({r \in Rows : At(r) > since}, WINDOW_SIZE)}

Increment(since) == OldestFirst({r \in Rows : At(r) > since}, WINDOW_SIZE)

\* GET /temperature
Answer(k) ==
  /\ k \in DOMAIN calls /\ ~calls[k].answered
  /\ \E items \in (IF calls[k].kind = "recent" THEN NewestFirst(Rows, WINDOW_SIZE)
                   ELSE Increment(calls[k].since)) :
       calls' = [calls EXCEPT ![k].answered = TRUE, ![k].items = items]
  /\ UNCHANGED <<server, app>>

(***************************************************************************)
(* The view model.                                                         *)
(***************************************************************************)
StartPolling ==
  /\ ~polling
  /\ polling' = TRUE /\ timer' = TRUE
  /\ lastTs' = 0 /\ window' = <<>>
  /\ clean' = TRUE
  /\ calls' = [k \in DOMAIN calls |-> [calls[k] EXCEPT !.old = TRUE]]
  /\ UNCHANGED <<server, shown>>

\* Mutant: only the callback is removed.
StopPollingKeepsFlag ==
  /\ polling
  /\ timer' = FALSE
  /\ UNCHANGED <<server, polling, lastTs, window, shown, clean, calls>>

\* onStop of the fragment: the callback is removed, the calls go on.
StopPolling ==
  /\ polling
  /\ polling' = FALSE /\ timer' = FALSE
  /\ UNCHANGED <<server, lastTs, window, shown, clean, calls>>

\* pollRunnable, which posts itself again
Poll ==
  /\ timer /\ polling
  /\ Len(calls) < MaxCalls
  /\ calls' = Append(calls,
       [kind |-> IF lastTs = 0 THEN "recent" ELSE "since", since |-> lastTs,
        old |-> FALSE, answered |-> FALSE, items |-> <<>>])
  /\ UNCHANGED <<server, app>>

Without(k) == SubSeq(calls, 1, k - 1) \o SubSeq(calls, k + 1, Len(calls))
Last(s) == s[Len(s)]

\* onInitial: the rows replace the window, turned round.
OnInitial(items) ==
  /\ window' = [i \in DOMAIN items |-> items[Len(items) + 1 - i]]
  /\ lastTs' = At(Last(window'))
  /\ shown' = window'

\* Mutant: nothing is filtered.
NewSecondsUnfiltered(items) == {items}

\* The rows that the loop of onDelta appends, in their order: each is younger
\* than lastTs and than every item before it.
NewSeconds(items) ==
  LET fresh == {i \in DOMAIN items :
                  At(items[i]) > lastTs /\ \A j \in 1 .. i - 1 : At(items[j]) < At(items[i])}
      rows == {items[i] : i \in fresh}
  IN {s \in UNION {[1 .. n -> rows] : n \in 0 .. Len(items)} :
        /\ \A r \in rows : \E i \in DOMAIN s : s[i] = r
        /\ \A i, j \in DOMAIN s : i < j => At(s[i]) < At(s[j])}

\* Mutant: the window grows.
TrimNothing(s) == s

Trim(s) == SubSeq(s, 1 + (IF Len(s) > WINDOW_SIZE THEN Len(s) - WINDOW_SIZE ELSE 0), Len(s))

OnDelta(items) ==
  \E new \in NewSeconds(items) :
    /\ window' = Trim(window \o new)
    /\ lastTs' = (IF new = <<>> THEN lastTs ELSE At(Last(new)))
    /\ shown' = (IF new = <<>> THEN shown ELSE window')

\* An answer reaches the view model.  Which start asked for it, and whether
\* the window was filled since, is not looked at; clean remembers it.
Deliver(k) ==
  /\ k \in DOMAIN calls /\ calls[k].answered
  /\ LET c == calls[k] IN
       IF c.items = <<>>
       THEN UNCHANGED <<window, lastTs, shown, clean>>
       ELSE /\ IF c.kind = "recent" THEN OnInitial(c.items) ELSE OnDelta(c.items)
            /\ clean' = (clean /\ ~c.old /\ (c.kind = "recent" => lastTs = 0))
  /\ calls' = Without(k)
  /\ UNCHANGED <<server, polling, timer>>

\* A timeout, a broken connection or an answer that is not a success.
Lose(k) ==
  /\ k \in DOMAIN calls
  /\ calls' = Without(k)
  /\ UNCHANGED <<server, app>>

Next ==
  \/ Insert \/ Second
  \/ StartPolling \/ StopPolling \/ Poll
  \/ \E k \in 1 .. MaxCalls : Answer(k) \/ Deliver(k) \/ Lose(k)

Spec == Init /\ [][Next]_vars

\* The timer fires; not every call is lost before its answer, and not every
\* answer on its way back.
FairSpec ==
  /\ Spec
  /\ WF_vars(Poll)
  /\ SF_vars(\E k \in 1 .. MaxCalls : Answer(k))
  /\ SF_vars(\E k \in 1 .. MaxCalls : Deliver(k))

(***************************************************************************)
(* Properties.                                                             *)
(***************************************************************************)

\* Whatever order the answers come in, the window is in the order of time
\* and has no row twice, and lastTs is its end
\* (SensorDetailTestViewModel.java:84-110).
WindowInOrder ==
  /\ \A i, j \in DOMAIN window : i < j => At(window[i]) <= At(window[j]) /\ window[i] # window[j]
  /\ lastTs = (IF window = <<>> THEN 0 ELSE At(Last(window)))

\* Between the ends of the window no second is missing that has a row: late,
\* lost and overtaken increments leave no gap.  It is promised only while no
\* answer of an earlier start, and no first load that was overtaken by
\* another, was applied; those do leave gaps.
NoSecondSkipped ==
  clean /\ window # <<>> =>
    \A r \in Rows :
      At(window[1]) <= At(r) /\ At(r) <= lastTs =>
        \E i \in DOMAIN window : At(window[i]) = At(r)

\* A screen that stays open shows the newest second in the end, whatever
\* was lost or overtaken before.
CatchesUp ==
  <>[]polling => <>[](readings # <<>> => lastTs = J!Newest /\ shown = window)
=============================================================================
