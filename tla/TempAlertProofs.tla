--------------------------- MODULE TempAlertProofs ---------------------------
(***************************************************************************)
(* Theorems about TempAlert: for any set of keys, any temperatures and     *)
(* thresholds, and any number of calls on their way.                       *)
(***************************************************************************)
EXTENDS TempAlert, TLAPS

USE DEF State, Ages, Values

(***************************************************************************)
(* What holds besides the types.                                           *)
(***************************************************************************)

\* What is stored never says that a notification is younger than it is.
StoredNotYounger ==
  \A k \in Keys : prefs[k].last >= told[k] /\ disk[k].last >= told[k]

\* A recent notification is remembered, unless there is an excuse.
RecentIsStored ==
  \A k \in Keys : ~excused[k] /\ told[k] < Renotify => prefs[k].active /\ prefs[k].last <= told[k]

AlertInv == TypeOK /\ StoredNotYounger /\ RecentIsStored

\* A slot without a call, or whose call has not been answered.
LEMMA EmptyAnswers == NoAnswer \in Answers /\ Free \in Calls /\ Asked \in Calls
<1>1. NoAnswer \in Answers
  BY DEF NoAnswer, Answers
<1>2. QED
  BY <1>1 DEF Free, Asked, Calls

LEMMA InitInv == Init => AlertInv
<1> SUFFICES ASSUME Init PROVE AlertInv
  OBVIOUS
<1>1. latest \in [Keys -> [v : Values, age : Ages]]
  BY AlertAssumption DEF Init
<1>2. Fresh \in [Keys -> State]
  BY AlertAssumption DEF Fresh
<1>3. TypeOK
  <2>1. prefs \in [Keys -> State] /\ disk \in [Keys -> State]
    BY <1>2 DEF Init
  <2>2. threshold \in [Keys -> Thresholds] /\ told \in [Keys -> 0 .. Renotify]
    BY AlertAssumption DEF Init
  <2>3. /\ permitted \in BOOLEAN /\ started \in BOOLEAN /\ unseen \in BOOLEAN
        /\ excused \in [Keys -> BOOLEAN]
    BY DEF Init
  <2>4. call \in [Slots -> Calls] /\ data \in Answers
    BY EmptyAnswers DEF Init
  <2>5. QED
    BY <1>1, <2>1, <2>2, <2>3, <2>4 DEF TypeOK
<1>4. StoredNotYounger /\ RecentIsStored
  BY AlertAssumption DEF Init, StoredNotYounger, RecentIsStored, Fresh
<1>5. QED
  BY <1>3, <1>4 DEF AlertInv

\* What the observer writes, key by key.
LEMMA CheckInv ==
  ASSUME TypeOK, StoredNotYounger, RecentIsStored, Check
  PROVE  /\ prefs' \in [Keys -> State] /\ told' \in [Keys -> 0 .. Renotify]
         /\ excused' \in [Keys -> BOOLEAN] /\ disk' = disk
         /\ StoredNotYounger' /\ RecentIsStored'
<1>1. \A k \in Keys : Evaluate(k) \in State
  <2>1. SUFFICES ASSUME NEW k \in Keys PROVE Evaluate(k) \in State
    OBVIOUS
  <2>2. prefs[k] \in State /\ [active |-> TRUE, last |-> 0] \in State
    BY <2>1, AlertAssumption DEF TypeOK
  <2>3. ASSUME NEW p \in State PROVE [p EXCEPT !.active = FALSE] \in State
    OBVIOUS
  <2>4. QED
    BY <2>2, <2>3, Zenon DEF Evaluate
<1>2. prefs' \in [Keys -> State] /\ disk' = disk
  BY <1>1 DEF Check
<1>3. told' \in [Keys -> 0 .. Renotify]
  BY AlertAssumption DEF Check, TypeOK
<1>4. excused' \in [Keys -> BOOLEAN]
  <2>1. \A k \in Keys : (~Posted(k) /\ (excused[k] \/ FellBack(k))) \in BOOLEAN
    OBVIOUS
  <2>2. QED
    BY <2>1 DEF Check
<1>5. ASSUME NEW k \in Keys, Posted(k)
      PROVE  /\ prefs'[k] = [active |-> TRUE, last |-> 0] /\ told'[k] = 0
             /\ disk'[k].last >= 0
  BY <1>5, AlertAssumption DEF Check, Evaluate, TypeOK
<1>6. ASSUME NEW k \in Keys, ~Posted(k)
      PROVE  /\ told'[k] = told[k] /\ prefs'[k].last = prefs[k].last
             /\ ~excused'[k] => ~excused[k] /\ prefs'[k] = prefs[k]
  <2>1. told'[k] = told[k] /\ prefs'[k] = Evaluate(k)
    BY <1>6 DEF Check
  <2>2. Evaluate(k).last = prefs[k].last
    BY <1>6 DEF Evaluate, TypeOK
  <2>3. ~FellBack(k) => Evaluate(k) = prefs[k]
    BY <1>6 DEF Evaluate
  <2>4. ~excused'[k] => ~excused[k] /\ ~FellBack(k)
    BY <1>6 DEF Check
  <2>5. QED
    BY <2>1, <2>2, <2>3, <2>4
<1>7. StoredNotYounger'
  BY <1>2, <1>5, <1>6 DEF StoredNotYounger, Check
<1>8. RecentIsStored'
  BY <1>5, <1>6 DEF RecentIsStored
<1>9. QED
  BY <1>2, <1>3, <1>4, <1>7, <1>8

\* Ages and timestamps stop at their limit.
LEMMA UpTyped ==
  ASSUME NEW limit \in Nat, NEW n \in 0 .. limit
  PROVE  Up(n, limit) \in 0 .. limit
  BY DEF Up

LEMMA OlderTyped ==
  ASSUME NEW rows \in [Keys -> [v : Values, age : Ages]]
  PROVE  Older(rows) \in [Keys -> [v : Values, age : Ages]]
<1>1. ASSUME NEW k \in Keys
      PROVE  [rows[k] EXCEPT !.age = Up(rows[k].age, MaxAge + 1)] \in [v : Values, age : Ages]
  <2>1. Up(rows[k].age, MaxAge + 1) \in Ages
    BY <1>1, UpTyped, AlertAssumption
  <2>2. QED
    BY <1>1, <2>1
<1>2. QED
  BY <1>1 DEF Older

LEMMA AgedTyped ==
  ASSUME NEW states \in [Keys -> State]
  PROVE  /\ Aged(states) \in [Keys -> State]
         /\ \A k \in Keys : /\ Aged(states)[k].active = states[k].active
                            /\ Aged(states)[k].last = Up(states[k].last, Renotify)
<1>1. ASSUME NEW k \in Keys
      PROVE  [states[k] EXCEPT !.last = Up(states[k].last, Renotify)] \in State
  <2>1. Up(states[k].last, Renotify) \in 0 .. Renotify
    BY <1>1, UpTyped, AlertAssumption
  <2>2. QED
    BY <1>1, <2>1
<1>2. QED
  BY <1>1 DEF Aged

LEMMA TickInv ==
  ASSUME AlertInv, Tick
  PROVE  AlertInv'
<1> USE AlertAssumption DEF AlertInv, TypeOK
<1>1. latest' \in [Keys -> [v : Values, age : Ages]]
  BY OlderTyped DEF Tick
<1>3. /\ prefs' \in [Keys -> State] /\ disk' \in [Keys -> State]
      /\ told' \in [Keys -> 0 .. Renotify]
  <2>1. prefs' \in [Keys -> State] /\ disk' \in [Keys -> State]
    BY AgedTyped DEF Tick
  <2>2. \A k \in Keys : Up(told[k], Renotify) \in 0 .. Renotify
    BY UpTyped
  <2>3. QED
    BY <2>1, <2>2 DEF Tick
<1>4. TypeOK'
  BY <1>1, <1>3 DEF Tick
<1>5. \A k \in Keys : /\ prefs'[k].active = prefs[k].active
                      /\ prefs'[k].last = Up(prefs[k].last, Renotify)
                      /\ disk'[k].last = Up(disk[k].last, Renotify)
                      /\ told'[k] = Up(told[k], Renotify)
  BY AgedTyped DEF Tick
<1>6. StoredNotYounger'
  <2>1. ASSUME NEW k \in Keys
        PROVE  /\ Up(prefs[k].last, Renotify) >= Up(told[k], Renotify)
               /\ Up(disk[k].last, Renotify) >= Up(told[k], Renotify)
    <3>1. prefs[k] \in State /\ disk[k] \in State
      BY <2>1
    <3>2. /\ prefs[k].last \in 0 .. Renotify /\ disk[k].last \in 0 .. Renotify
          /\ told[k] \in 0 .. Renotify
      BY <2>1, <3>1
    <3>3. prefs[k].last >= told[k] /\ disk[k].last >= told[k]
      BY <2>1 DEF StoredNotYounger
    <3>4. QED
      BY <3>2, <3>3 DEF Up
  <2>2. QED
    BY <1>5, <2>1 DEF StoredNotYounger
<1>7. RecentIsStored'
  <2>1. SUFFICES ASSUME NEW k \in Keys, ~excused[k], Up(told[k], Renotify) < Renotify
                 PROVE  prefs[k].active /\ Up(prefs[k].last, Renotify) <= Up(told[k], Renotify)
    BY <1>5 DEF RecentIsStored, Tick
  <2>2. told[k] < Renotify
    BY <2>1 DEF Up
  <2>3. prefs[k].active /\ prefs[k].last <= told[k]
    BY <2>1, <2>2 DEF RecentIsStored
  <2>4. QED
    BY <2>2, <2>3 DEF Up
<1>8. QED
  BY <1>4, <1>6, <1>7

LEMMA StepInv == AlertInv /\ [Next]_vars => AlertInv'
<1> SUFFICES ASSUME AlertInv, [Next]_vars PROVE AlertInv'
  OBVIOUS
<1> USE AlertAssumption DEF AlertInv
<1>1. ASSUME NEW i \in Slots, Poll(i)
      PROVE  AlertInv'
  <2>1. call' \in [Slots -> Calls]
    BY <1>1, EmptyAnswers DEF Poll, TypeOK
  <2>2. QED
    BY <1>1, <2>1 DEF Poll, TypeOK, StoredNotYounger, RecentIsStored, world, memory
<1>2. ASSUME NEW i \in Slots, Answer(i)
      PROVE  AlertInv'
  <2>1. Latest \in Answers
    BY DEF Latest, Answers, TypeOK
  <2>2. [state |-> "answered", said |-> Latest] \in Calls
    BY <2>1 DEF Calls
  <2>3. call' \in [Slots -> Calls]
    BY <1>2, <2>2 DEF Answer, TypeOK
  <2>4. QED
    BY <1>2, <2>3 DEF Answer, TypeOK, StoredNotYounger, RecentIsStored, world, memory
<1>3. ASSUME NEW i \in Slots, Deliver(i)
      PROVE  AlertInv'
  <2>1. call[i].said \in Answers
    BY DEF Calls, TypeOK
  <2>2. call' \in [Slots -> Calls] /\ data' \in Answers
    BY <1>3, <2>1, EmptyAnswers DEF Deliver, TypeOK
  <2>3. QED
    BY <1>3, <2>2 DEF Deliver, TypeOK, StoredNotYounger, RecentIsStored, world, memory
<1>4. ASSUME NEW i \in Slots, Lose(i)
      PROVE  AlertInv'
  <2>1. call' \in [Slots -> Calls]
    BY <1>4, EmptyAnswers DEF Lose, TypeOK
  <2>2. QED
    BY <1>4, <2>1 DEF Lose, TypeOK, StoredNotYounger, RecentIsStored, world, memory
<1>5. CASE Dispatch
  <2>1. Check
    BY <1>5 DEF Dispatch
  <2>2. /\ prefs' \in [Keys -> State] /\ told' \in [Keys -> 0 .. Renotify]
        /\ excused' \in [Keys -> BOOLEAN] /\ disk' = disk
        /\ StoredNotYounger' /\ RecentIsStored'
    BY <2>1, CheckInv
  <2>3. TypeOK'
    BY <1>5, <2>2 DEF Dispatch, TypeOK, world
  <2>4. QED
    BY <2>2, <2>3
<1>6. CASE Start
  BY <1>6 DEF Start, TypeOK, StoredNotYounger, RecentIsStored, world, memory
<1>7. CASE Stop
  BY <1>7 DEF Stop, TypeOK, StoredNotYounger, RecentIsStored, world
<1>8. CASE Recreate
  BY <1>8 DEF Recreate, TypeOK, StoredNotYounger, RecentIsStored, world, memory
<1>9. CASE Flush
  BY <1>9 DEF Flush, TypeOK, StoredNotYounger, RecentIsStored, world
<1>10. CASE Kill
  <2>1. TypeOK'
    <3>1. \A k \in Keys : (excused[k] \/ disk[k] # prefs[k]) \in BOOLEAN
      OBVIOUS
    <3>2. excused' \in [Keys -> BOOLEAN]
      BY <1>10, <3>1 DEF Kill
    <3>3. call' \in [Slots -> Calls] /\ data' \in Answers
      BY <1>10, EmptyAnswers DEF Kill
    <3>4. started' \in BOOLEAN /\ unseen' \in BOOLEAN
      BY <1>10 DEF Kill
    <3>5. prefs' = disk /\ disk \in [Keys -> State]
      BY <1>10 DEF Kill, TypeOK
    <3>6. UNCHANGED <<latest, threshold, permitted, disk, told>>
      BY <1>10 DEF Kill, world
    <3>7. QED
      BY <3>2, <3>3, <3>4, <3>5, <3>6 DEF TypeOK
  <2>2. StoredNotYounger'
    BY <1>10 DEF Kill, StoredNotYounger
  <2>3. RecentIsStored'
    <3>1. \A k \in Keys : ~excused'[k] => ~excused[k] /\ disk[k] = prefs[k]
      BY <1>10 DEF Kill
    <3>2. QED
      BY <1>10, <3>1 DEF Kill, RecentIsStored
  <2>4. QED
    BY <2>1, <2>2, <2>3
<1>11. CASE Measure
  BY <1>11 DEF Measure, TypeOK, StoredNotYounger, RecentIsStored, memory
<1>12. CASE Settings
  BY <1>12 DEF Settings, TypeOK, StoredNotYounger, RecentIsStored, memory
<1>13. CASE Tick
  BY <1>13, TickInv
<1>14. CASE UNCHANGED vars
  BY <1>14 DEF vars, TypeOK, StoredNotYounger, RecentIsStored
<1>15. QED
  BY <1>1, <1>2, <1>3, <1>4, <1>5, <1>6, <1>7, <1>8, <1>9, <1>10, <1>11, <1>12, <1>13, <1>14
     DEF Next, PollAny, AnswerAny, DeliverAny

(***************************************************************************)
(* The theorems.                                                           *)
(***************************************************************************)

\* Every reachable state is well typed and satisfies the invariant above.
THEOREM AlertInvariant == Spec => []AlertInv
<1>1. QED
  BY InitInv, StepInv, PTL DEF Spec

\* TypeOK of the run: neither a kill, a rotation nor an answer at any moment
\* leaves a state the code cannot be in (evaluate, TempAlertNotifier.java:176).
THEOREM TypeCorrect == Spec => []TypeOK
<1>1. AlertInv => TypeOK
  BY DEF AlertInv
<1>2. QED
  BY <1>1, AlertInvariant, PTL

\* Two notifications of one key are Renotify apart or have an excuse
\* (TempAlertNotifier.java:188-207).
THEOREM Spaced == Spec => RemindersSpaced
<1>1. ASSUME AlertInv, NEW k \in Keys, Posted(k)
      PROVE  told[k] >= Renotify \/ excused[k]
  BY <1>1, AlertAssumption DEF AlertInv, TypeOK, RecentIsStored, Posted, Wanted
<1>2. AlertInv => [\A k \in Keys : Dispatch /\ Posted(k) => told[k] >= Renotify \/ excused[k]]_vars
  BY <1>1
<1>3. QED
  BY <1>2, AlertInvariant, PTL DEF RemindersSpaced

\* A notification that could not be posted holds none back
\* (TempAlertNotifier.java:170-174).
THEOREM NotHeldBack == Spec => NothingHeldBack
<1>1. ASSUME AlertInv, NEW k \in Keys, Dispatch, permitted, Exceeds(k), told[k] >= Renotify
      PROVE  told'[k] = 0
  <2>1. prefs[k].last >= Renotify
    BY <1>1, AlertAssumption DEF AlertInv, TypeOK, StoredNotYounger
  <2>2. Posted(k)
    BY <1>1, <2>1 DEF Posted, Wanted
  <2>3. QED
    BY <1>1, <2>2 DEF Dispatch, Check
<1>2. AlertInv => [\A k \in Keys : Dispatch /\ permitted /\ Exceeds(k) /\ told[k] >= Renotify =>
                     told'[k] = 0]_vars
  BY <1>1
<1>3. QED
  BY <1>2, AlertInvariant, PTL DEF NothingHeldBack
=============================================================================
