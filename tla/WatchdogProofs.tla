--------------------------- MODULE WatchdogProofs ---------------------------
(***************************************************************************)
(* Proofs about the two halves of watchdog/wdt_guard.c: the escalation of  *)
(* CrashLoop, for all thresholds, sleep times and bounds, and the          *)
(* heartbeats of HeartbeatWatch, for all cadences and limits.              *)
(***************************************************************************)
EXTENDS CrashLoop, HeartbeatWatch, TLAPS

-----------------------------------------------------------------------------
(* CrashLoop.  The inductive invariant ties the two history variables to the *)
(* counter that the node keeps: while the record is valid, a count of c      *)
(* allows StartsAt(c) starts of the application without a sleep and          *)
(* SleepAt(c) seconds of sleep, and is covered by as many crashes.           *)

StartsAt(c) ==
  IF c < BackoffN THEN c + 1 ELSE IF c = SafeN THEN 1 ELSE 0

SleepAt(c) ==
  IF c < BackoffN THEN 0 ELSE IF c =< SafeN THEN BackoffSeconds(c) ELSE BackoffMax

\* Past wdt_guard_init the record is valid.
RecordWritten == phase \in {"starting", "running", "sleep"} => magic

CountCoversStarts == magic => startsAwake =< StartsAt(abnormalResets)
CountCoversSleep == magic => sleepFor =< SleepAt(abnormalResets)

CountInv ==
  /\ TypeOK
  /\ RecordWritten
  /\ SleepIsResumable
  /\ CountCoversStarts
  /\ CountCoversSleep
  /\ StartsAreThrottled

\* The count, with the crash that this boot has yet to count, is no more than
\* the crashes there were.
Uncounted == IF phase = "boot" /\ reason \in AbnormalReasons THEN 1 ELSE 0
CrashesCoverCount ==
  magic => resets = BackoffN \/ abnormalResets + Uncounted =< resets
CrashIsCounted == phase = "boot" /\ reason \in AbnormalReasons => resets >= 1

CrashInv == CrashesCoverCount /\ CrashIsCounted /\ SleepIsEarned

IInv == CountInv /\ CrashInv

\* The backoff is a natural number, no longer than the maximum, and grows
\* with the count.
LEMMA BackoffFacts ==
  ASSUME NEW c \in Nat, BackoffN =< c
  PROVE  /\ BackoffSeconds(c) \in Nat
         /\ BackoffSeconds(c) =< BackoffMax
         /\ BackoffSeconds(c) =< BackoffSeconds(c + 1)
<1> USE ThresholdsAssumption, SleepAssumption
<1>1. /\ PowerOfTwo[1] = 1 /\ PowerOfTwo[2] = 2 /\ PowerOfTwo[3] = 4
      /\ PowerOfTwo[4] = 8 /\ PowerOfTwo[5] = 16
  BY DEF PowerOfTwo
<1>2. CASE c - BackoffN = 0
  BY <1>1, <1>2 DEF BackoffSeconds
<1>3. CASE c - BackoffN = 1
  BY <1>1, <1>3 DEF BackoffSeconds
<1>4. CASE c - BackoffN = 2
  BY <1>1, <1>4 DEF BackoffSeconds
<1>5. CASE c - BackoffN = 3
  BY <1>1, <1>5 DEF BackoffSeconds
<1>6. CASE c - BackoffN >= 4
  BY <1>1, <1>6 DEF BackoffSeconds
<1> QED BY <1>2, <1>3, <1>4, <1>5, <1>6

LEMMA CountedIsNat == TypeOK => CountedResets \in Nat
BY DEF TypeOK, CountedResets

\* What wdt_guard_init finds: the count is kept on a retry boot, one more
\* on a crash with a valid record, at most one otherwise.
LEMMA CountedCases ==
  ASSUME CountInv, phase = "boot"
  PROVE  \/ /\ StreakGoesOn /\ reason = "DEEPSLEEP"
            /\ CountedResets = abnormalResets
            /\ BackoffN =< abnormalResets /\ abnormalResets # SafeN
         \/ /\ StreakGoesOn /\ magic /\ reason \in AbnormalReasons
            /\ CountedResets = abnormalResets + 1
         \/ /\ ~StreakGoesOn
            /\ \/ CountedResets = 0
               \/ CountedResets = 1 /\ reason \in AbnormalReasons
<1> USE DEF CountInv, TypeOK, Reasons, CountedResets, StreakGoesOn, RecordLost, RetryBoot
<1>1. CASE reason = "DEEPSLEEP"
  BY <1>1 DEF SleepIsResumable, AbnormalReasons
<1>2. CASE reason \in AbnormalReasons
  BY <1>2 DEF AbnormalReasons
<1>3. CASE reason \in {"POWERON", "BROWNOUT", "OTHER"}
  BY <1>3 DEF AbnormalReasons
<1> QED BY <1>1, <1>2, <1>3

\* The bounds are natural numbers, within the limits, and grow with the count.
LEMMA StartsAtFacts ==
  ASSUME NEW c \in Nat
  PROVE  /\ StartsAt(c) \in Nat /\ StartsAt(c) =< BackoffN
         /\ c < BackoffN \/ c = SafeN => 1 =< StartsAt(c)
         /\ c + 1 < BackoffN \/ c + 1 = SafeN => StartsAt(c + 1) = StartsAt(c) + 1
BY ThresholdsAssumption DEF StartsAt

LEMMA SleepAtFacts ==
  ASSUME NEW c \in Nat
  PROVE  /\ SleepAt(c) \in Nat /\ SleepAt(c) =< BackoffMax
         /\ SleepAt(c) =< SleepAt(c + 1)
         /\ BackoffN =< c /\ c < SafeN => SleepAt(c) = BackoffSeconds(c)
         /\ SafeN < c => SleepAt(c) = BackoffMax
<1> USE ThresholdsAssumption, SleepAssumption
<1>1. CASE c + 1 < BackoffN
  BY <1>1 DEF SleepAt
<1>2. CASE c + 1 = BackoffN
  BY <1>2, BackoffFacts DEF SleepAt
<1>3. CASE BackoffN =< c
  <2>1. BackoffN =< c + 1 /\ c + 1 \in Nat
    BY <1>3
  <2>2. /\ BackoffSeconds(c) \in Nat /\ BackoffSeconds(c + 1) \in Nat
        /\ BackoffSeconds(c) =< BackoffMax /\ BackoffSeconds(c + 1) =< BackoffMax
        /\ BackoffSeconds(c) =< BackoffSeconds(c + 1)
    BY <1>3, <2>1, BackoffFacts
  <2> QED BY <1>3, <2>2 DEF SleepAt
<1> QED BY <1>1, <1>2, <1>3

LEMMA InitCounts == Init => CountInv
<1> SUFFICES ASSUME Init PROVE CountInv
  OBVIOUS
<1>1. TypeOK
  <2>1. resets \in 0 .. BackoffN
    BY ThresholdsAssumption DEF Init
  <2> QED BY <2>1, BoundsAssumption DEF Init, TypeOK, Phases, Reasons
<1>2. RecordWritten /\ SleepIsResumable
  BY DEF Init, RecordWritten, SleepIsResumable
<1>3. CountCoversStarts /\ CountCoversSleep
  BY DEF Init, CountCoversStarts, CountCoversSleep
<1>4. StartsAreThrottled
  BY ThresholdsAssumption DEF Init, StartsAreThrottled
<1> QED BY <1>1, <1>2, <1>3, <1>4 DEF CountInv

\* A reset from outside, or a crash, at any moment: the history stays, and the
\* record survives whole or loses its magic.
LEMMA ResetStep ==
  ASSUME CountInv, PowerOn \/ PowerCut \/ Brownout \/ OtherReset \/ EarlyCrash \/ Crash
  PROVE  CountInv'
<1>1. /\ phase' \in {"off", "boot"}
      /\ reason' \in Reasons \ {"DEEPSLEEP"}
      /\ safe' = FALSE /\ stableTimer' = FALSE
      /\ UNCHANGED <<sleepFor, startsAwake>>
  BY DEF PowerOn, PowerCut, Brownout, OtherReset, EarlyCrash, Crash, Reset,
         Reasons, AbnormalReasons, history
<1>2. UNCHANGED rtc \/ RecordDecays
  BY DEF PowerOn, PowerCut, Brownout, OtherReset, EarlyCrash, Crash, RecordSurvives
<1>3. TypeOK'
  <2>1. resets' \in 0 .. BackoffN
    BY ThresholdsAssumption
    DEF CountInv, TypeOK, OneMoreReset, history, PowerOn, PowerCut, Brownout,
        OtherReset, EarlyCrash, Crash
  <2> QED BY <1>1, <1>2, <2>1, BoundsAssumption
      DEF CountInv, TypeOK, Phases, Reasons, RecordDecays, rtc
<1>4. RecordWritten' /\ SleepIsResumable'
  BY <1>1 DEF RecordWritten, SleepIsResumable
<1>5. CountCoversStarts'
  BY <1>1, <1>2 DEF CountInv, CountCoversStarts, RecordDecays, rtc, StartsAt
<1>6. CountCoversSleep'
  BY <1>1, <1>2
  DEF CountInv, CountCoversSleep, RecordDecays, rtc, SleepAt, BackoffSeconds
<1>7. StartsAreThrottled'
  BY <1>1 DEF CountInv, StartsAreThrottled
<1> QED BY <1>3, <1>4, <1>5, <1>6, <1>7 DEF CountInv

\* wdt_guard_init lets the application start: the count was short, or it
\* has just reached SafeN.
LEMMA StartStep ==
  ASSUME CountInv, NormalBoot \/ SafeBoot
  PROVE  CountInv'
<1> USE ThresholdsAssumption
<1> DEFINE c == CountedResets
<1>1. /\ phase = "boot" /\ phase' = "starting" /\ magic' = TRUE
      /\ abnormalResets' = c /\ UNCHANGED <<reason, stableTimer>>
      /\ backoffPending' = PendingAfter
      /\ sleepFor' = (IF StreakGoesOn THEN sleepFor ELSE 0)
      /\ startsAwake' = (IF StreakGoesOn THEN startsAwake ELSE 0) + 1
      /\ (c < BackoffN /\ safe' = FALSE) \/ (c = SafeN /\ safe' = TRUE)
      /\ resets' = (IF ResetFromOutside THEN 0 ELSE resets)
  BY DEF NormalBoot, SafeBoot, UpdateRecord, StartApp
<1>2. c \in Nat
  BY CountedIsNat DEF CountInv
<1>3. TypeOK'
  <2>1. sleepFor' \in Nat /\ startsAwake' \in Nat
    BY <1>1 DEF CountInv, TypeOK
  <2>2. safe' \in BOOLEAN
    BY <1>1, Zenon
  <2>3. backoffPending' \in BOOLEAN
    <3>1. PendingAfter \in BOOLEAN
      BY Zenon DEF PendingAfter
    <3> QED BY <1>1, <3>1
  <2> QED BY <1>1, <1>2, <2>1, <2>2, <2>3 DEF CountInv, TypeOK, Phases
<1>4. /\ startsAwake' =< StartsAt(c) /\ sleepFor' =< SleepAt(c)
  <2>1. CASE ~StreakGoesOn
    BY <1>1, <1>2, <2>1, StartsAtFacts, SleepAtFacts
  <2>2. CASE StreakGoesOn /\ magic /\ c = abnormalResets + 1
    <3>1. /\ abnormalResets \in Nat /\ startsAwake \in Nat /\ sleepFor \in Nat
          /\ startsAwake =< StartsAt(abnormalResets) /\ sleepFor =< SleepAt(abnormalResets)
      BY <2>2 DEF CountInv, TypeOK, CountCoversStarts, CountCoversSleep
    <3>2. /\ StartsAt(c) = StartsAt(abnormalResets) + 1
          /\ StartsAt(abnormalResets) \in Nat
      BY <1>1, <2>2, <3>1, StartsAtFacts
    <3>3. /\ SleepAt(abnormalResets) =< SleepAt(c)
          /\ SleepAt(abnormalResets) \in Nat /\ SleepAt(c) \in Nat
      BY <1>2, <2>2, <3>1, SleepAtFacts
    <3> QED BY <1>1, <2>2, <3>1, <3>2, <3>3
  <2> HIDE DEF c
  <2> QED
    <3>1. \/ c = abnormalResets /\ BackoffN =< abnormalResets /\ abnormalResets # SafeN
          \/ StreakGoesOn /\ magic /\ c = abnormalResets + 1
          \/ ~StreakGoesOn
      BY <1>1, CountedCases DEF c
    <3> QED BY <1>1, <1>2, <2>1, <2>2, <3>1
<1>5. StartsAreThrottled'
  <2>1. startsAwake' \in Nat /\ StartsAt(c) \in Nat /\ StartsAt(c) =< BackoffN
    BY <1>2, <1>3, StartsAtFacts DEF TypeOK
  <2> QED BY <1>4, <2>1 DEF StartsAreThrottled
<1>6. /\ RecordWritten' /\ SleepIsResumable'
      /\ CountCoversStarts' /\ CountCoversSleep'
  BY <1>1, <1>4
  DEF RecordWritten, SleepIsResumable, CountCoversStarts,
      CountCoversSleep, StartsAt, SleepAt, BackoffSeconds
<1> QED BY <1>3, <1>5, <1>6 DEF CountInv

\* wdt_guard_init goes back to sleep, with the count still in the record.
LEMMA SleepStep ==
  ASSUME CountInv, BackoffSleep \/ SafeThrottle
  PROVE  /\ CountInv'
         /\ sleepFor =< sleepFor' /\ sleepFor' =< BackoffMax
<1> USE ThresholdsAssumption, SleepAssumption
<1> DEFINE c == CountedResets
<1>1. /\ phase = "boot" /\ phase' = "sleep" /\ magic' = TRUE
      /\ abnormalResets' = c /\ UNCHANGED <<reason, stableTimer>>
      /\ backoffPending' = TRUE
      /\ startsAwake' = 0
      /\ resets' = (IF ResetFromOutside THEN 0 ELSE resets)
      /\ safe' \in BOOLEAN
      /\ \/ BackoffN =< c /\ c < SafeN /\ sleepFor' = BackoffSeconds(c)
         \/ SafeN < c /\ sleepFor' = BackoffMax
  BY DEF BackoffSleep, SafeThrottle, UpdateRecord, DeepSleep
<1>2. c \in Nat /\ BackoffN =< c /\ c # SafeN
  BY <1>1, CountedIsNat DEF CountInv
<1>3. sleepFor' = SleepAt(c)
  BY <1>1, <1>2, SleepAtFacts
<1>4. TypeOK'
  <2>1. sleepFor' \in Nat
    BY <1>2, <1>3, SleepAtFacts
  <2> QED BY <1>1, <1>2, <2>1 DEF CountInv, TypeOK, Phases
<1>5. /\ abnormalResets \in Nat /\ startsAwake \in Nat /\ sleepFor \in Nat
  BY DEF CountInv, TypeOK
<1>6. /\ StreakGoesOn /\ magic
      /\ c = abnormalResets \/ c = abnormalResets + 1
  BY <1>1, <1>2, CountedCases DEF StreakGoesOn
<1>7. sleepFor =< SleepAt(abnormalResets)
  BY <1>6 DEF CountInv, CountCoversSleep
<1> HIDE DEF c
<1>8. StartsAt(c) \in Nat
  BY <1>2, StartsAtFacts
<1>9. /\ SleepAt(c) \in Nat /\ SleepAt(abnormalResets) \in Nat
      /\ SleepAt(abnormalResets) =< SleepAt(c) /\ SleepAt(c) =< BackoffMax
  <2>1. CASE c = abnormalResets
    BY <1>5, <2>1, SleepAtFacts
  <2>2. CASE c = abnormalResets + 1
    BY <1>2, <1>5, <2>2, SleepAtFacts
  <2> QED BY <1>6, <2>1, <2>2
<1>10. startsAwake' = 0 /\ startsAwake' =< StartsAt(c)
  BY <1>1, <1>8
<1>11. sleepFor =< sleepFor' /\ sleepFor' =< BackoffMax
  BY <1>3, <1>5, <1>7, <1>9
<1>12. RecordWritten' /\ SleepIsResumable'
  BY <1>1, <1>2 DEF RecordWritten, SleepIsResumable
<1>13. CountCoversStarts' /\ CountCoversSleep'
  BY <1>1, <1>3, <1>9, <1>10
  DEF CountCoversStarts, CountCoversSleep, StartsAt, SleepAt, BackoffSeconds
<1>14. StartsAreThrottled'
  BY <1>10 DEF StartsAreThrottled
<1> QED BY <1>4, <1>11, <1>12, <1>13, <1>14 DEF CountInv

LEMMA WakeStep == ASSUME CountInv, Wake PROVE CountInv'
<1> USE DEF Wake, Reset, rtc, history, CountInv
<1>1. TypeOK'
  BY DEF TypeOK, Phases, Reasons
<1>2. RecordWritten' /\ SleepIsResumable'
  BY DEF RecordWritten, SleepIsResumable
<1>3. CountCoversStarts' /\ CountCoversSleep' /\ StartsAreThrottled'
  BY DEF CountCoversStarts, CountCoversSleep, StartsAreThrottled, StartsAt,
         SleepAt, BackoffSeconds
<1> QED BY <1>1, <1>2, <1>3

LEMMA BootDoneStep == ASSUME CountInv, BootDone PROVE CountInv'
<1> USE DEF BootDone, rtc, history, CountInv
<1>1. TypeOK'
  BY DEF TypeOK, Phases
<1>2. RecordWritten' /\ SleepIsResumable'
  BY DEF RecordWritten, SleepIsResumable
<1>3. CountCoversStarts' /\ CountCoversSleep' /\ StartsAreThrottled'
  BY DEF CountCoversStarts, CountCoversSleep, StartsAreThrottled, StartsAt,
         SleepAt, BackoffSeconds
<1> QED BY <1>1, <1>2, <1>3

LEMMA StableClearStep == ASSUME CountInv, StableClear PROVE CountInv'
<1> USE ThresholdsAssumption DEF StableClear, CountInv
<1>1. TypeOK'
  <2>1. 0 \in 0 .. BackoffN
    OBVIOUS
  <2> QED BY <2>1 DEF TypeOK
<1>2. RecordWritten' /\ SleepIsResumable'
  BY DEF RecordWritten, SleepIsResumable
<1>3. CountCoversStarts' /\ CountCoversSleep' /\ StartsAreThrottled'
  BY DEF CountCoversStarts, CountCoversSleep, StartsAreThrottled, StartsAt, SleepAt
<1> QED BY <1>1, <1>2, <1>3

LEMMA StutterStep == ASSUME CountInv, UNCHANGED vars PROVE CountInv'
BY DEF vars, CountInv, TypeOK, RecordWritten, SleepIsResumable, CountCoversStarts,
       CountCoversSleep, StartsAreThrottled, StartsAt,
       SleepAt, BackoffSeconds

LEMMA NextStep == ASSUME CountInv, [Next]_vars PROVE CountInv'
BY ResetStep, StartStep, SleepStep, WakeStep, BootDoneStep, StableClearStep, StutterStep
DEF Next, GuardInit

\* What wdt_guard_init counts is covered by the crashes there were.
LEMMA CountIsCovered ==
  ASSUME IInv, GuardInit
  PROVE  /\ resets' \in 0 .. BackoffN
         /\ resets' = BackoffN \/ CountedResets =< resets'
<1> USE ThresholdsAssumption DEF IInv
<1>1. /\ phase = "boot" /\ abnormalResets \in Nat /\ resets \in 0 .. BackoffN
      /\ resets' = (IF ResetFromOutside THEN 0 ELSE resets)
  BY DEF GuardInit, NormalBoot, BackoffSleep, SafeBoot, SafeThrottle, UpdateRecord,
         CountInv, TypeOK
<1>2. CASE reason = "DEEPSLEEP" /\ CountedResets = abnormalResets /\ BackoffN =< abnormalResets
  <2>1. magic
    BY <1>1, <1>2 DEF CountInv, SleepIsResumable
  <2>2. resets = BackoffN
    BY <1>1, <1>2, <2>1 DEF CrashInv, CrashesCoverCount, Uncounted, AbnormalReasons
  <2> QED BY <1>1, <1>2, <2>2 DEF ResetFromOutside
<1>3. CASE magic /\ reason \in AbnormalReasons /\ CountedResets = abnormalResets + 1
  <2>1. resets = BackoffN \/ abnormalResets + 1 =< resets
    BY <1>1, <1>3 DEF CrashInv, CrashesCoverCount, Uncounted
  <2>2. resets' = resets
    BY <1>1, <1>3 DEF ResetFromOutside
  <2> QED BY <1>1, <1>3, <2>1, <2>2
<1>4. CASE CountedResets = 1 /\ reason \in AbnormalReasons
  <2>1. resets >= 1
    BY <1>1, <1>4 DEF CrashInv, CrashIsCounted
  <2>2. resets' = resets
    BY <1>1, <1>4 DEF ResetFromOutside
  <2> QED BY <1>1, <1>4, <2>1, <2>2
<1>5. CASE CountedResets = 0
  BY <1>1, <1>5
<1> QED BY <1>1, <1>2, <1>3, <1>4, <1>5, CountedCases

\* Every step keeps the crashes above the count.
LEMMA CrashesKept == ASSUME IInv, [Next]_vars PROVE CrashInv'
<1> USE ThresholdsAssumption
<1>1. abnormalResets \in Nat /\ resets \in 0 .. BackoffN
  BY DEF IInv, CountInv, TypeOK
<1>2. CASE GuardInit
  <2>1. /\ abnormalResets' = CountedResets /\ phase' \in {"starting", "sleep"}
        /\ phase' = "sleep" => BackoffN =< CountedResets
    <3>1. CASE NormalBoot \/ SafeBoot
      BY <3>1 DEF NormalBoot, SafeBoot, UpdateRecord, StartApp
    <3>2. CASE BackoffSleep
      BY <3>2 DEF BackoffSleep, UpdateRecord, DeepSleep
    <3>3. CASE SafeThrottle
      <4>1. CountedResets \in Nat
        BY CountedIsNat DEF IInv, CountInv
      <4> QED BY <3>3, <4>1 DEF SafeThrottle, UpdateRecord, DeepSleep
    <3> QED BY <1>2, <3>1, <3>2, <3>3 DEF GuardInit
  <2>2. CountedResets \in Nat
    BY CountedIsNat DEF IInv, CountInv
  <2>3. resets' \in 0 .. BackoffN /\ (resets' = BackoffN \/ CountedResets =< resets')
    BY <1>2, CountIsCovered
  <2>4. SleepIsEarned'
    BY <2>1, <2>2, <2>3 DEF SleepIsEarned
  <2>5. CrashesCoverCount' /\ CrashIsCounted'
    BY <2>1, <2>2, <2>3 DEF CrashesCoverCount, CrashIsCounted, Uncounted
  <2> QED BY <2>4, <2>5 DEF CrashInv
<1>3. CASE EarlyCrash \/ Crash
  <2>1. /\ phase' = "boot" /\ UNCHANGED <<magic, abnormalResets>>
        /\ resets' = (IF resets < BackoffN THEN resets + 1 ELSE resets)
    BY <1>3 DEF EarlyCrash, Crash, Reset, OneMoreReset, rtc
  <2>2. resets' >= 1 /\ (resets' = BackoffN \/ resets' = resets + 1)
    BY <1>1, <2>1
  <2>3. magic => resets = BackoffN \/ abnormalResets =< resets
    <3>1. magic => resets = BackoffN \/ abnormalResets + Uncounted =< resets
      BY DEF IInv, CrashInv, CrashesCoverCount
    <3>2. Uncounted \in {0, 1}
      BY DEF Uncounted
    <3> QED BY <1>1, <3>1, <3>2
  <2>4. Uncounted' \in {0, 1}
    BY DEF Uncounted
  <2>5. CrashesCoverCount'
    <3>1. magic => resets' = BackoffN \/ abnormalResets + 1 =< resets'
      BY <1>1, <2>1, <2>2, <2>3
    <3>2. resets' = BackoffN \/ abnormalResets + 1 =< resets'
             => resets' = BackoffN \/ abnormalResets + Uncounted' =< resets'
      <4>1. resets' \in Nat
        BY <1>1, <2>1
      <4>2. CASE Uncounted' = 0
        BY <1>1, <4>1, <4>2
      <4>3. CASE Uncounted' = 1
        BY <1>1, <4>1, <4>3
      <4> QED BY <2>4, <4>2, <4>3
    <3> QED BY <2>1, <3>1, <3>2 DEF CrashesCoverCount
  <2> QED BY <2>1, <2>2, <2>5 DEF CrashInv, CrashIsCounted, SleepIsEarned
<1>4. CASE PowerOn \/ PowerCut \/ Brownout \/ OtherReset \/ Wake
  <2>1. /\ phase' \in {"off", "boot"} /\ reason' \notin AbnormalReasons
        /\ resets' = resets
        /\ magic' => magic /\ abnormalResets' = abnormalResets
    BY <1>4 DEF PowerOn, PowerCut, Brownout, OtherReset, Wake, Reset, RecordSurvives,
                RecordDecays, rtc, history, AbnormalReasons
  <2>2. magic => resets = BackoffN \/ abnormalResets + Uncounted =< resets
    BY DEF IInv, CrashInv, CrashesCoverCount
  <2>3. Uncounted \in {0, 1} /\ Uncounted' = 0
    BY <2>1 DEF Uncounted
  <2>4. CrashesCoverCount'
    BY <1>1, <2>1, <2>2, <2>3 DEF CrashesCoverCount
  <2> QED BY <2>1, <2>4 DEF CrashInv, CrashIsCounted, SleepIsEarned
<1>5. CASE BootDone
  BY <1>5 DEF BootDone, IInv, CrashInv, CrashesCoverCount, CrashIsCounted,
              SleepIsEarned, Uncounted, rtc, history
<1>6. CASE StableClear
  BY <1>6 DEF StableClear, CrashInv, CrashesCoverCount, CrashIsCounted,
              SleepIsEarned, Uncounted
<1>7. CASE UNCHANGED vars
  BY <1>7 DEF vars, IInv, CrashInv, CrashesCoverCount, CrashIsCounted,
              SleepIsEarned, Uncounted
<1> QED BY <1>2, <1>3, <1>4, <1>5, <1>6, <1>7 DEF Next

\* The inductive invariant holds in every behaviour.
THEOREM Inductive == Spec => []IInv
<1>1. Init => IInv
  <2>1. Init => CrashInv
    BY DEF Init, CrashInv, CrashesCoverCount, CrashIsCounted, SleepIsEarned
  <2> QED BY <2>1, InitCounts DEF IInv
<1>2. IInv /\ [Next]_vars => IInv'
  BY NextStep, CrashesKept DEF IInv
<1> QED BY <1>1, <1>2, PTL DEF Spec

\* Every variable keeps its type, for all thresholds and bounds.
THEOREM TypeCorrect == Spec => []TypeOK
BY Inductive, PTL DEF IInv, CountInv

\* A sleeping node keeps the count that put it to sleep (wdt_guard_init and
\* the RTC record).
THEOREM SleepResumable == Spec => []SleepIsResumable
BY Inductive, PTL DEF IInv, CountInv

\* A crash loop starts the application at most BackoffN times before the
\* escalation of wdt_guard_init makes it sleep.
THEOREM StartsThrottled == Spec => []StartsAreThrottled
BY Inductive, PTL DEF IInv, CountInv

\* The escalation of wdt_guard_init never makes a node sleep before it has
\* crashed BackoffN times without an uptime that forgives it.
THEOREM SleepEarned == Spec => []SleepIsEarned
BY Inductive, PTL DEF IInv, CrashInv

\* In one streak of crashes the sleeps never get shorter.
THEOREM BackoffGrows == Spec => BackoffNeverShrinks
<1>1. ASSUME IInv, [Next]_vars
      PROVE  [phase' = "sleep" => sleepFor =< sleepFor' /\ sleepFor' =< BackoffMax]_vars
  <2>1. CASE BackoffSleep \/ SafeThrottle
    BY <1>1, <2>1, SleepStep DEF IInv
  <2>2. CASE UNCHANGED vars
    BY <2>2
  <2>3. CASE Next /\ ~(BackoffSleep \/ SafeThrottle)
    BY <2>3
    DEF Next, PowerOn, PowerCut, Brownout, OtherReset, EarlyCrash, Crash, Reset,
        GuardInit, NormalBoot, SafeBoot, StartApp, Wake, BootDone, StableClear
  <2> QED BY <1>1, <2>1, <2>2, <2>3
<1> QED BY <1>1, Inductive, PTL DEF Spec, BackoffNeverShrinks

-----------------------------------------------------------------------------
(* HeartbeatWatch.  A slot is stale when its age passes its limit, so the      *)
(* invariant bounds the ages by what is left of the cycle under way, the lost  *)
(* updates, the failures and the back-off.                                     *)

\* A limit is never below its floor, and the one of the ADV slot is the one of
\* the cadence in force but for the moment in which a turn of the loop changes
\* it (ble_adv.c:265-268, 285-286).
LimitFollows ==
  /\ \A s \in Slots : limit[s] >= Floor[s]
  /\ task \in {"cycling", "limitAccel", "update"} => limit["ADV"] = CadenceLimit(cycle)["ADV"]

\* A slot that is stale will be seen by the next check of the monitor, early
\* enough.  What staleFor still shows after a kick or a new limit belongs to the
\* turn of the advertising task, and is gone when time goes on.
LeftOver(s) ==
  /\ waitLeft > 0
  /\ task \in {"cycling", "update"} \/ age[s] = 0 \/ (task = "limitAccel" /\ s = "ADV")

StallBounded ==
  \A s \in Slots :
    /\ armed /\ down = "none" => staleFor[s] <= MonitorPeriod
    /\ armed /\ down = "none" /\ Stale(s) => staleFor[s] + monitorLeft <= MonitorPeriod
    /\ staleFor[s] > 0 => Stale(s) \/ LeftOver(s)
    /\ ~armed => staleFor[s] = 0

\* The age of the ADV slot: the cycle under way, and one cycle of any cadence
\* for an update that was lost; within a turn it is covered by the limit unless
\* the turn has just lowered it.
Turn == {"limitAdv", "limitAccel", "update"}
AdvFresh ==
  /\ task = "cycling" /\ missed < MaxMissed =>
       age["ADV"] + waitLeft <= cycle + (IF missed = 0 THEN 0 ELSE CycleMax)
  /\ task \in Turn /\ missed = 0 => age["ADV"] <= CycleMax
  /\ task \in Turn /\ missed < MaxMissed /\ ~shrunk => age["ADV"] <= limit["ADV"]
  /\ task \in Turn \cup {"syncing"} => waitLeft > 0
  /\ shrunk => task \in {"limitAccel", "update"}

\* The age of the ACCEL slot at the fast cadences: a cycle for every failure,
\* then the back-off, then what is left of the cycle in which it ends.
FailTime(n) == n * FastMax
BackoffAge == FailTime(FailLimit) + RetryAfter

AccelBounded ==
  IF present THEN age["ACCEL"] + waitLeft <= FailTime(fails) + cycle
  ELSE /\ retryLeft > 0 => age["ACCEL"] + retryLeft <= BackoffAge
       /\ retryLeft = 0 => age["ACCEL"] + waitLeft <= BackoffAge + FastMax

AccelFresh ==
  /\ task = "none" \/ ~attached => age["ACCEL"] = Unarmed
  /\ task = "syncing" => age["ACCEL"] \in {Unarmed, 0}
  /\ present => attached /\ fails < FailLimit
  /\ task # "none" /\ ~slow => cycle <= FastMax
  /\ task # "none" /\ attached /\ ~slow /\ retries = 0 => AccelBounded

WatchInv ==
  /\ WatchTypeOK
  /\ LimitFollows /\ StallBounded /\ AdvFresh /\ AccelFresh
  /\ LostUpdateTolerated /\ BackoffNotMistakenWhenFast

-----------------------------------------------------------------------------
\* The time that failures take grows by one cycle each.
LEMMA FailTimes ==
  /\ FailTime(0) = 0
  /\ \A n \in Nat : FailTime(n) \in Nat /\ FailTime(n + 1) = FailTime(n) + FastMax
  /\ \A n \in Nat : n < FailLimit => FailTime(n) + FastMax <= FailTime(FailLimit)
  /\ FailTime(FailLimit) \in Nat
  /\ FailTime(FailLimit) + RetryAfter + FastMax <= AccelFloor
<1> USE TimesAssumption, BackoffAssumption DEF FailTime
<1>1. FailTime(0) = 0
  OBVIOUS
<1>2. ASSUME NEW n \in Nat PROVE FailTime(n) \in Nat /\ FailTime(n + 1) = FailTime(n) + FastMax
  OBVIOUS
<1>3. ASSUME NEW n \in Nat, n < FailLimit PROVE FailTime(n) + FastMax <= FailTime(FailLimit)
  <2> DEFINE k == FailLimit - (n + 1)
  <2>1. k \in Nat /\ FailLimit = (n + 1) + k
    BY <1>3
  <2>2. FailLimit * FastMax = (n + 1) * FastMax + k * FastMax /\ k * FastMax \in Nat
    BY <2>1
  <2> QED BY <2>2
<1>4. FailTime(FailLimit) \in Nat
  OBVIOUS
<1>5. FailTime(FailLimit) + RetryAfter + FastMax <= AccelFloor
  OBVIOUS
<1> QED BY <1>1, <1>2, <1>3, <1>4, <1>5

\* wdt_guard_set_hb_stale never goes below the floor, and leaves room for two
\* cycles of any cadence before the one in force (ble_adv.c:265).
LEMMA LimitFacts ==
  ASSUME NEW c \in Cycles
  PROVE  /\ CadenceLimit(c) \in [Slots -> Nat]
         /\ \A s \in Slots : CadenceLimit(c)[s] >= Floor[s]
         /\ c + CycleMax <= CadenceLimit(c)["ADV"]
<1> USE TimesAssumption, CadenceAssumption DEF CadenceLimit, StaleLimit, Slots, Floor
<1>1. c \in Nat /\ c <= CycleMax
  OBVIOUS
<1>2. CadenceLimit(c) \in [Slots -> Nat] /\ \A s \in Slots : CadenceLimit(c)[s] >= Floor[s]
  BY <1>1
<1>3. c + CycleMax <= CadenceLimit(c)["ADV"]
  BY <1>1
<1> QED BY <1>2, <1>3

\* Slots are two names, so a fact about both is two facts.
LEMMA TwoSlots == "ADV" \in Slots /\ "ACCEL" \in Slots /\ "ADV" # "ACCEL" /\ "none" \notin Slots
BY DEF Slots

-----------------------------------------------------------------------------
\* A boot: nothing is armed and nothing is stale.
LEMMA WatchBoot == WatchInit => WatchInv
<1> SUFFICES ASSUME WatchInit PROVE WatchInv
  OBVIOUS
<1> USE TimesAssumption DEF WatchInit
<1>1. WatchTypeOK
  <2>1. limit \in [Slots -> Nat]
    BY DEF Floor, Slots
  <2>2. waitLeft \in 0 .. cycle /\ age \in [Slots -> Nat \cup {Unarmed}]
    BY DEF Slots
  <2>3. staleFor \in [Slots -> 0 .. MonitorPeriod + 1]
    OBVIOUS
  <2>4. /\ armed \in BOOLEAN /\ attached \in BOOLEAN /\ present \in BOOLEAN
        /\ slow \in BOOLEAN /\ shrunk \in BOOLEAN
    OBVIOUS
  <2>5. /\ task \in TaskSteps /\ cycle \in Cycles /\ monitorLeft \in 0 .. MonitorPeriod
        /\ fails \in 0 .. FailLimit /\ retryLeft \in 0 .. RetryAfter
        /\ missed \in 0 .. MaxMissed /\ retries \in 0 .. 1 /\ down \in Slots \cup {"none"}
    BY DEF MaxMissed, TaskSteps
  <2> QED BY <2>1, <2>2, <2>3, <2>4, <2>5 DEF WatchTypeOK
<1>2. LimitFollows /\ StallBounded /\ AdvFresh
  <2>1. \A s \in Slots : Floor[s] \in Nat
    BY DEF Floor
  <2> QED BY <2>1 DEF LimitFollows, StallBounded, AdvFresh, Turn, Stale, Unarmed
<1>3. AccelFresh
  BY TwoSlots DEF AccelFresh, Unarmed
<1>4. LostUpdateTolerated /\ BackoffNotMistakenWhenFast
  BY DEF LostUpdateTolerated, BackoffNotMistakenWhenFast
<1> QED BY <1>1, <1>2, <1>3, <1>4 DEF WatchInv

LEMMA RebootKeeps == ASSUME WatchInv, Reboot PROVE WatchInv'
<1> USE TimesAssumption DEF Reboot
<1>1. WatchTypeOK'
  <2>1. limit' \in [Slots -> Nat]
    BY DEF Floor, Slots
  <2>2. waitLeft' \in 0 .. cycle' /\ age' \in [Slots -> Nat \cup {Unarmed}]
    BY DEF Slots
  <2>3. staleFor' \in [Slots -> 0 .. MonitorPeriod + 1]
    OBVIOUS
  <2>4. /\ armed' \in BOOLEAN /\ attached' \in BOOLEAN /\ present' \in BOOLEAN
        /\ slow' \in BOOLEAN /\ shrunk' \in BOOLEAN
    OBVIOUS
  <2>5. /\ task' \in TaskSteps /\ cycle' \in Cycles /\ monitorLeft' \in 0 .. MonitorPeriod
        /\ fails' \in 0 .. FailLimit /\ retryLeft' \in 0 .. RetryAfter
        /\ missed' \in 0 .. MaxMissed /\ retries' \in 0 .. 1 /\ down' \in Slots \cup {"none"}
    BY DEF MaxMissed, TaskSteps
  <2> QED BY <2>1, <2>2, <2>3, <2>4, <2>5 DEF WatchTypeOK
<1>2. LimitFollows' /\ StallBounded' /\ AdvFresh'
  <2>1. \A s \in Slots : Floor[s] \in Nat
    BY DEF Floor
  <2> QED BY <2>1 DEF LimitFollows, StallBounded, AdvFresh, Turn, Stale, Unarmed, Floor
<1>3. AccelFresh'
  BY TwoSlots DEF AccelFresh, Unarmed
<1>4. LostUpdateTolerated' /\ BackoffNotMistakenWhenFast'
  BY DEF LostUpdateTolerated, BackoffNotMistakenWhenFast
<1> QED BY <1>1, <1>2, <1>3, <1>4 DEF WatchInv

\* boot_done arms the monitor and gives the ADV slot its first kick.
LEMMA ArmKeeps == ASSUME WatchInv, WatchBootDone PROVE WatchInv'
<1> USE TimesAssumption, TwoSlots DEF WatchBootDone, accel, WatchInv
<1>1. WatchTypeOK'
  BY DEF WatchTypeOK, MaxMissed
<1>2. LimitFollows'
  BY DEF LimitFollows, CadenceLimit, StaleLimit, Floor
<1>3. StallBounded'
  <2> SUFFICES ASSUME NEW s \in Slots PROVE staleFor'[s] = 0 /\ monitorLeft' \in 0 .. MonitorPeriod
    BY DEF StallBounded
  <2> QED BY DEF StallBounded, WatchTypeOK
<1>4. AdvFresh'
  <2>1. age'["ADV"] = 0 /\ missed' = 0 /\ CycleMax \in Nat /\ limit["ADV"] \in Nat
    BY DEF WatchTypeOK
  <2>2. cycle \in Nat /\ waitLeft \in 0 .. cycle
    BY DEF WatchTypeOK
  <2> QED BY <2>1, <2>2 DEF AdvFresh
<1>5. AccelFresh'
  BY DEF AccelFresh, AccelBounded, WatchTypeOK
<1>6. LostUpdateTolerated' /\ BackoffNotMistakenWhenFast'
  BY DEF LostUpdateTolerated, BackoffNotMistakenWhenFast
<1> QED BY <1>1, <1>2, <1>3, <1>4, <1>5, <1>6

-----------------------------------------------------------------------------
(* The advertising task.                                                     *)

\* What a read of the accelerometer does to the driver.
Driver(accelOk) ==
  IF accelOk THEN ReadSucceeds ELSE ReadRefused \/ ReadFails

\* ReadAndKick kicks the ACCEL slot when the driver has a sample.
LEMMA KickFacts ==
  ASSUME WatchTypeOK, ReadAndKick
  PROVE  \E accelOk \in BOOLEAN :
           /\ Driver(accelOk)
           /\ age' \in [Slots -> Nat \cup {Unarmed}]
           /\ age'["ADV"] = age["ADV"]
           /\ age'["ACCEL"] = IF accelOk THEN 0 ELSE age["ACCEL"]
<1> USE TwoSlots DEF ReadAndKick, Driver, Kicked, WatchTypeOK
<1>1. CASE (ReadRefused \/ ReadFails) /\ UNCHANGED age
  <2> WITNESS FALSE \in BOOLEAN
  <2> QED BY <1>1
<1>2. CASE ReadSucceeds /\ age' = Kicked("ACCEL")
  <2> WITNESS TRUE \in BOOLEAN
  <2> QED BY <1>2
<1> QED BY <1>1, <1>2

\* The driver keeps its types, and is present only below its limit of failures.
LEMMA DriverTypes ==
  ASSUME WatchTypeOK, AccelFresh, NEW accelOk \in BOOLEAN, Driver(accelOk)
  PROVE  /\ attached' = attached /\ (accelOk => attached)
         /\ present' \in BOOLEAN /\ fails' \in 0 .. FailLimit
         /\ retryLeft' \in 0 .. RetryAfter /\ retries' \in 0 .. 1
         /\ present' => attached' /\ fails' < FailLimit
<1> USE TimesAssumption DEF Driver, WatchTypeOK, AccelFresh
<1>1. CASE ReadRefused
  BY <1>1 DEF ReadRefused, ReadSucceeds, accel
<1>2. CASE ReadSucceeds
  BY <1>2 DEF ReadSucceeds
<1>3. CASE ReadFails
  BY <1>3 DEF ReadFails, ReadSucceeds, FailsAfter
<1> QED BY <1>1, <1>2, <1>3

\* The age of the ACCEL slot over one turn of the loop at the fast cadences: a
\* good read resets it, a failure costs a cycle, the last failure a back-off.
LEMMA AccelOverACycle ==
  ASSUME WatchTypeOK, AccelFresh, NEW accelOk \in BOOLEAN, Driver(accelOk),
         age'["ACCEL"] = (IF accelOk THEN 0 ELSE age["ACCEL"]),
         \/ task = "none"
         \/ task = "cycling" /\ waitLeft = 0 /\ (~slow \/ age'["ACCEL"] = 0),
         attached, retries' = 0,
         cycle' \in Cycles, cycle' <= FastMax, waitLeft' = cycle'
  PROVE  AccelBounded'
<1> DEFINE a == age["ACCEL"]
           f == FailTime(fails)
           all == FailTime(FailLimit)
<1>1. /\ a \in Nat \cup {Unarmed} /\ cycle \in Nat /\ cycle' \in Nat
      /\ fails \in Nat /\ fails <= FailLimit /\ retryLeft \in 0 .. RetryAfter
      /\ present \in BOOLEAN /\ retries \in 0 .. 1
  BY TimesAssumption, TwoSlots DEF WatchTypeOK
<1>2. f \in Nat /\ all \in Nat /\ FailTime(0) = 0
  BY <1>1, FailTimes
<1>3. CASE accelOk
  <2>1. present' = TRUE /\ fails' = 0 /\ age'["ACCEL"] = 0
    BY <1>3 DEF Driver, ReadSucceeds
  <2>2. (age["ACCEL"] + waitLeft <= FailTime(fails) + cycle)'
    BY <1>1, <1>2, <2>1
  <2> QED BY <2>1, <2>2 DEF AccelBounded
<1>4. CASE ~accelOk /\ ReadRefused
  <2>1. ~present /\ retryLeft > 0 /\ present' = present /\ retryLeft' = retryLeft
        /\ retries = 0 /\ a' = a /\ RetryAfter \in Nat
    BY <1>4, TimesAssumption DEF ReadRefused, accel
  <2>2. task = "cycling" /\ ~slow => a + retryLeft <= BackoffAge
    BY <2>1 DEF AccelFresh, AccelBounded
  <2>3. a \in {Unarmed, 0} => a + retryLeft <= BackoffAge
    BY <1>1, <1>2, <2>1 DEF Unarmed, BackoffAge
  <2>4. a + retryLeft <= BackoffAge
    BY <1>4, <2>1, <2>2, <2>3 DEF AccelFresh
  <2>5. (age["ACCEL"] + retryLeft <= BackoffAge)'
    BY <2>1, <2>4 DEF BackoffAge, FailTime
  <2> QED BY <2>1, <2>5 DEF AccelBounded
<1>5. CASE ~accelOk /\ ReadFails
  <2>1. /\ a' = a /\ fails' = FailsAfter /\ retries = 0 /\ present
        /\ present' = (FailsAfter < FailLimit)
        /\ ~present' => retryLeft' = RetryAfter
    BY <1>1, <1>5 DEF ReadFails
  <2>2. /\ fails < FailLimit /\ fails' = fails + 1
        /\ FailTime(fails') = f + FastMax /\ f + FastMax <= all
    BY <1>1, <2>1, FailTimes DEF AccelFresh, FailsAfter
  <2>3. task = "cycling" /\ ~slow => a <= f + FastMax
    BY <1>1, <1>2, <2>1, TimesAssumption DEF AccelFresh, AccelBounded, Unarmed
  <2>4. a \in {Unarmed, 0} => a <= f + FastMax
    BY <1>1, <1>2, TimesAssumption DEF Unarmed
  <2>5. a <= f + FastMax
    BY <1>5, <2>1, <2>3, <2>4 DEF AccelFresh
  <2>6. CASE present'
    <3>1. (age["ACCEL"] + waitLeft <= FailTime(fails) + cycle)'
      BY <1>1, <1>2, <2>1, <2>2, <2>5, TimesAssumption DEF FailTime, Unarmed
    <3> QED BY <2>6, <3>1 DEF AccelBounded
  <2>7. CASE ~present'
    <3>1. (retryLeft > 0 => age["ACCEL"] + retryLeft <= BackoffAge)'
      BY <1>1, <1>2, <2>1, <2>2, <2>5, <2>7, TimesAssumption DEF BackoffAge, FailTime, Unarmed
    <3>2. (age["ACCEL"] + waitLeft <= BackoffAge + FastMax)'
      BY <1>1, <1>2, <2>1, <2>2, <2>5, TimesAssumption DEF BackoffAge, FailTime, Unarmed
    <3> QED BY <2>7, <3>1, <3>2 DEF AccelBounded
  <2> QED BY <2>6, <2>7
<1> QED BY <1>3, <1>4, <1>5 DEF Driver

\* The start of adv_cycle_task: the first measurement ...
LEMMA SyncKeeps == ASSUME WatchInv, Sync PROVE WatchInv'
<1>1. WatchTypeOK /\ LimitFollows /\ StallBounded /\ AdvFresh /\ AccelFresh
  BY DEF WatchInv
<1>2. PICK accelOk \in BOOLEAN :
        /\ Driver(accelOk)
        /\ age' \in [Slots -> Nat \cup {Unarmed}]
        /\ age'["ADV"] = age["ADV"]
        /\ age'["ACCEL"] = IF accelOk THEN 0 ELSE age["ACCEL"]
  BY <1>1, KickFacts DEF Sync
<1>3. /\ task = "none" /\ task' = "syncing" /\ down = "none" /\ down' = down
      /\ (cycle > FastMax => slow') /\ limit' = limit /\ missed' = missed /\ shrunk' = shrunk
      /\ waitLeft' = cycle /\ cycle' = cycle /\ armed' = armed
      /\ monitorLeft' = monitorLeft /\ staleFor' = staleFor
  BY DEF Sync
<1>4. cycle \in Cycles /\ cycle \in Nat /\ cycle >= 1 /\ cycle <= CycleMax
  BY <1>1, TimesAssumption DEF WatchTypeOK
<1>5. /\ attached' = attached /\ (accelOk => attached)
      /\ present' \in BOOLEAN /\ fails' \in 0 .. FailLimit
      /\ retryLeft' \in 0 .. RetryAfter /\ retries' \in 0 .. 1
      /\ present' => attached' /\ fails' < FailLimit
  BY <1>1, <1>2, DriverTypes
<1>6. WatchTypeOK'
  <2>1. slow' \in BOOLEAN
    BY DEF Sync
  <2>2. waitLeft' \in 0 .. cycle'
    BY <1>3, <1>4
  <2> QED BY <1>1, <1>2, <1>3, <1>5, <2>1, <2>2 DEF WatchTypeOK, TaskSteps
<1>7. LimitFollows'
  BY <1>1, <1>3 DEF LimitFollows, Floor
<1>8. StallBounded'
  <2>1. ASSUME NEW s \in Slots
        PROVE  /\ Stale(s)' => Stale(s)
               /\ staleFor[s] > 0 => Stale(s)' \/ LeftOver(s)'
    <3>1. waitLeft' > 0
      BY <1>3, <1>4
    <3>2. age'[s] = age[s] \/ age'[s] = 0
      BY <1>2 DEF Slots
    <3>3. limit'[s] = limit[s] /\ limit[s] \in Nat
      BY <1>1, <1>3 DEF WatchTypeOK
    <3>4. staleFor[s] > 0 => Stale(s) \/ age[s] = 0
      BY <1>1, <1>3 DEF StallBounded, LeftOver
    <3> QED BY <3>1, <3>2, <3>3, <3>4 DEF Stale, LeftOver
  <2> QED BY <1>1, <1>3, <2>1 DEF StallBounded
<1>9. AdvFresh'
  BY <1>1, <1>3, <1>4 DEF AdvFresh, Turn
<1>10. AccelFresh'
  <2>1. ~attached' => age'["ACCEL"] = Unarmed
    BY <1>1, <1>2, <1>5 DEF AccelFresh
  <2>2. ~slow' => cycle' <= FastMax
    BY <1>3, <1>4, TimesAssumption
  <2>3. attached /\ ~slow' /\ retries' = 0 => AccelBounded'
    BY <1>1, <1>2, <1>3, <1>4, <2>2, AccelOverACycle
  <2>4. age'["ACCEL"] \in {Unarmed, 0}
    BY <1>1, <1>2, <1>3 DEF AccelFresh
  <2> QED BY <1>3, <1>5, <2>1, <2>2, <2>3, <2>4 DEF AccelFresh
<1>11. LostUpdateTolerated' /\ BackoffNotMistakenWhenFast'
  BY <1>3 DEF LostUpdateTolerated, BackoffNotMistakenWhenFast
<1> QED BY <1>6, <1>7, <1>8, <1>9, <1>10, <1>11 DEF WatchInv

\* ... and the first advertisement.
LEMMA FirstUpdateKeeps == ASSUME WatchInv, FirstUpdate PROVE WatchInv'
<1>1. WatchTypeOK /\ LimitFollows /\ StallBounded /\ AdvFresh /\ AccelFresh
  BY DEF WatchInv
<1>2. /\ task = "syncing" /\ task' = "cycling" /\ down = "none" /\ down' = down
      /\ age' = [age EXCEPT !["ADV"] = 0] /\ missed' = 0 /\ limit' = CadenceLimit(cycle)
      /\ armed' = armed /\ cycle' = cycle /\ waitLeft' = waitLeft
      /\ monitorLeft' = monitorLeft /\ staleFor' = staleFor /\ slow' = slow /\ shrunk' = shrunk
      /\ attached' = attached /\ present' = present /\ fails' = fails
      /\ retryLeft' = retryLeft /\ retries' = retries
  BY DEF FirstUpdate, Kicked, accel
<1>3. /\ cycle \in Cycles /\ cycle \in Nat /\ waitLeft \in 0 .. cycle /\ waitLeft > 0
      /\ CycleMax \in Nat
  BY <1>1, <1>2, TimesAssumption DEF WatchTypeOK, AdvFresh
<1>4. /\ age' \in [Slots -> Nat \cup {Unarmed}] /\ age'["ADV"] = 0
      /\ age'["ACCEL"] = age["ACCEL"] /\ age["ACCEL"] \in {Unarmed, 0}
  BY <1>1, <1>2, TwoSlots DEF WatchTypeOK, AccelFresh
<1>5. limit' \in [Slots -> Nat] /\ \A s \in Slots : limit'[s] >= Floor[s]
  BY <1>2, <1>3, LimitFacts
<1>6. WatchTypeOK'
  BY <1>1, <1>2, <1>4, <1>5 DEF WatchTypeOK, TaskSteps, MaxMissed
<1>7. LimitFollows'
  BY <1>2, <1>5 DEF LimitFollows, CadenceLimit, StaleLimit, Floor
<1>8. StallBounded'
  <2>1. ASSUME NEW s \in Slots PROVE ~Stale(s)' /\ LeftOver(s)'
    <3>1. limit'[s] \in Nat /\ age'[s] \in {Unarmed, 0}
      BY <1>4, <1>5 DEF Slots
    <3> QED BY <1>2, <1>3, <3>1 DEF Stale, LeftOver, Unarmed
  <2> QED BY <1>1, <1>2, <2>1 DEF StallBounded
<1>9. AdvFresh'
  <2>1. ~shrunk'
    BY <1>1, <1>2 DEF AdvFresh
  <2> QED BY <1>2, <1>3, <1>4, <2>1 DEF AdvFresh, Turn
<1>10. AccelFresh'
  BY <1>1, <1>2, <1>4 DEF AccelFresh, AccelBounded
<1>11. LostUpdateTolerated' /\ BackoffNotMistakenWhenFast'
  BY <1>2 DEF LostUpdateTolerated, BackoffNotMistakenWhenFast
<1> QED BY <1>6, <1>7, <1>8, <1>9, <1>10, <1>11 DEF WatchInv

\* A turn of the loop begins: the read and the policy.
LEMMA CycleKeeps == ASSUME WatchInv, CycleStep PROVE WatchInv'
<1>1. WatchTypeOK /\ LimitFollows /\ StallBounded /\ AdvFresh /\ AccelFresh
  BY DEF WatchInv
<1>2. PICK accelOk \in BOOLEAN :
        /\ Driver(accelOk)
        /\ age' \in [Slots -> Nat \cup {Unarmed}]
        /\ age'["ADV"] = age["ADV"]
        /\ age'["ACCEL"] = IF accelOk THEN 0 ELSE age["ACCEL"]
  BY <1>1, KickFacts DEF CycleStep
<1>3. /\ task = "cycling" /\ waitLeft = 0 /\ down = "none" /\ down' = down
      /\ cycle' \in Cycles /\ waitLeft' = cycle'
      /\ task' = (IF cycle' # cycle THEN "limitAdv" ELSE "update")
      /\ cycle' > FastMax \/ (slow /\ age'["ACCEL"] # 0) => slow'
      /\ limit' = limit /\ missed' = missed /\ shrunk' = shrunk
      /\ armed' = armed /\ monitorLeft' = monitorLeft /\ staleFor' = staleFor
  BY DEF CycleStep
<1>4. /\ cycle \in Cycles /\ cycle \in Nat /\ cycle <= CycleMax /\ CycleMax \in Nat
      /\ cycle' \in Nat /\ cycle' >= 1 /\ cycle' <= CycleMax
  BY <1>1, <1>3, TimesAssumption DEF WatchTypeOK
<1>5. /\ attached' = attached /\ (accelOk => attached)
      /\ present' \in BOOLEAN /\ fails' \in 0 .. FailLimit
      /\ retryLeft' \in 0 .. RetryAfter /\ retries' \in 0 .. 1
      /\ present' => attached' /\ fails' < FailLimit
  BY <1>1, <1>2, DriverTypes
<1>6. WatchTypeOK'
  <2>1. slow' \in BOOLEAN
    BY DEF CycleStep
  <2>2. waitLeft' \in 0 .. cycle'
    BY <1>3, <1>4
  <2>3. task' \in TaskSteps
    BY <1>3 DEF TaskSteps
  <2> QED BY <1>1, <1>2, <1>3, <1>5, <2>1, <2>2, <2>3 DEF WatchTypeOK
<1>7. LimitFollows'
  BY <1>1, <1>3 DEF LimitFollows, Floor, CadenceLimit, StaleLimit
<1>8. StallBounded'
  <2>1. ASSUME NEW s \in Slots
        PROVE  /\ Stale(s)' => Stale(s)
               /\ staleFor[s] > 0 => Stale(s)' \/ LeftOver(s)'
    <3>1. waitLeft' > 0
      BY <1>3, <1>4
    <3>2. age'[s] = age[s] \/ age'[s] = 0
      BY <1>2 DEF Slots
    <3>3. limit'[s] = limit[s] /\ limit[s] \in Nat
      BY <1>1, <1>3 DEF WatchTypeOK
    <3>4. staleFor[s] > 0 => Stale(s)
      BY <1>1, <1>3 DEF StallBounded, LeftOver
    <3> QED BY <3>1, <3>2, <3>3, <3>4 DEF Stale, LeftOver
  <2> QED BY <1>1, <1>3, <2>1 DEF StallBounded
<1>9. AdvFresh'
  <2>1. age["ADV"] \in Nat \cup {Unarmed} /\ limit["ADV"] \in Nat
    BY <1>1, TwoSlots DEF WatchTypeOK
  <2>2. missed < MaxMissed => age["ADV"] <= cycle + (IF missed = 0 THEN 0 ELSE CycleMax)
    BY <1>1, <1>3, <1>4, <2>1 DEF AdvFresh, Unarmed
  <2>3. cycle + CycleMax <= limit["ADV"]
    BY <1>1, <1>3, <1>4, LimitFacts DEF LimitFollows
  <2>4. missed < MaxMissed => age["ADV"] <= limit["ADV"]
    BY <1>4, <2>1, <2>2, <2>3 DEF Unarmed
  <2>5. missed = 0 => age["ADV"] <= CycleMax
    BY <1>4, <2>1, <2>2 DEF Unarmed, MaxMissed
  <2>6. task' \in Turn /\ ~shrunk'
    BY <1>1, <1>3 DEF AdvFresh, Turn
  <2>7. waitLeft' > 0 /\ task' # "cycling"
    BY <1>3, <1>4
  <2> QED BY <1>2, <1>3, <2>4, <2>5, <2>6, <2>7 DEF AdvFresh
<1>10. AccelFresh'
  <2>1. ~attached' => age'["ACCEL"] = Unarmed
    BY <1>1, <1>2, <1>5 DEF AccelFresh
  <2>2. ~slow' => cycle' <= FastMax /\ (~slow \/ age'["ACCEL"] = 0)
    BY <1>3, <1>4, TimesAssumption
  <2>3. attached /\ ~slow' /\ retries' = 0 => AccelBounded'
    BY <1>1, <1>2, <1>3, <2>2, AccelOverACycle
  <2>4. task' # "none" /\ task' # "syncing"
    BY <1>3
  <2> QED BY <1>5, <2>1, <2>2, <2>3, <2>4 DEF AccelFresh
<1>11. LostUpdateTolerated' /\ BackoffNotMistakenWhenFast'
  BY <1>3 DEF LostUpdateTolerated, BackoffNotMistakenWhenFast
<1> QED BY <1>6, <1>7, <1>8, <1>9, <1>10, <1>11 DEF WatchInv

\* The new limit of the ADV slot: the slot may become stale in this moment.
LEMMA LimitAdvKeeps == ASSUME WatchInv, LimitAdv PROVE WatchInv'
<1>1. WatchTypeOK /\ LimitFollows /\ StallBounded /\ AdvFresh /\ AccelFresh
  BY DEF WatchInv
<1>2. /\ task = "limitAdv" /\ task' = "limitAccel" /\ down = "none" /\ down' = down
      /\ limit' = [limit EXCEPT !["ADV"] = CadenceLimit(cycle)["ADV"]]
      /\ shrunk' = (limit'["ADV"] < limit["ADV"])
      /\ armed' = armed /\ cycle' = cycle /\ waitLeft' = waitLeft
      /\ monitorLeft' = monitorLeft /\ age' = age /\ missed' = missed
      /\ slow' = slow /\ staleFor' = staleFor
      /\ attached' = attached /\ present' = present /\ fails' = fails
      /\ retryLeft' = retryLeft /\ retries' = retries
  BY DEF LimitAdv, accel
<1>3. cycle \in Cycles /\ waitLeft > 0
  BY <1>1, <1>2 DEF WatchTypeOK, AdvFresh, Turn
<1>4. /\ CadenceLimit(cycle)["ADV"] \in Nat /\ CadenceLimit(cycle)["ADV"] >= Floor["ADV"]
  BY <1>3, LimitFacts, TwoSlots
<1>5. /\ limit' \in [Slots -> Nat] /\ limit'["ADV"] = CadenceLimit(cycle)["ADV"]
      /\ limit'["ACCEL"] = limit["ACCEL"]
  BY <1>1, <1>2, <1>4, TwoSlots DEF WatchTypeOK
<1>6. WatchTypeOK'
  <2>1. shrunk' \in BOOLEAN
    BY DEF LimitAdv
  <2> QED BY <1>1, <1>2, <1>5, <2>1 DEF WatchTypeOK, TaskSteps
<1>7. LimitFollows'
  <2>1. \A s \in Slots : limit'[s] >= Floor[s]
    BY <1>1, <1>4, <1>5 DEF LimitFollows, Slots
  <2> QED BY <1>2, <1>5, <2>1 DEF LimitFollows, CadenceLimit, StaleLimit, Floor
<1>8. StallBounded'
  <2>1. ASSUME NEW s \in Slots
        PROVE  /\ Stale(s)' => Stale(s) \/ staleFor[s] = 0
               /\ staleFor[s] > 0 => Stale(s)' \/ LeftOver(s)'
    <3>1. staleFor[s] \in Nat /\ limit'[s] \in Nat
      BY <1>1, <1>5 DEF WatchTypeOK
    <3>2. staleFor[s] > 0 => Stale(s) \/ age[s] = 0
      BY <1>1, <1>2 DEF StallBounded, LeftOver
    <3>3. CASE s = "ADV"
      BY <1>2, <1>3, <3>1, <3>2, <3>3 DEF Stale, LeftOver
    <3>4. CASE s = "ACCEL"
      BY <1>2, <1>3, <1>5, <3>1, <3>2, <3>4 DEF Stale, LeftOver
    <3> QED BY <3>3, <3>4 DEF Slots
  <2>2. monitorLeft \in 0 .. MonitorPeriod
    BY <1>1 DEF WatchTypeOK
  <2> QED BY <1>1, <1>2, <2>1, <2>2, TimesAssumption DEF StallBounded
<1>9. AdvFresh'
  <2>1. age["ADV"] \in Nat \cup {Unarmed} /\ limit["ADV"] \in Nat
    BY <1>1, TwoSlots DEF WatchTypeOK
  <2>2. /\ missed = 0 => age["ADV"] <= CycleMax
        /\ missed < MaxMissed => age["ADV"] <= limit["ADV"]
    BY <1>1, <1>2 DEF AdvFresh, Turn
  <2>3. missed < MaxMissed /\ ~shrunk' => age["ADV"] <= limit'["ADV"]
    <3>1. ~shrunk' => limit["ADV"] <= limit'["ADV"]
      <4>1. limit'["ADV"] < limit["ADV"] => shrunk'
        BY Zenon DEF LimitAdv
      <4>2. limit'["ADV"] \in Nat
        BY <1>4, <1>5
      <4> QED BY <2>1, <4>1, <4>2
    <3> QED BY <1>4, <1>5, <2>1, <2>2, <3>1 DEF Unarmed
  <2> QED BY <1>2, <1>3, <2>2, <2>3 DEF AdvFresh, Turn
<1>10. AccelFresh'
  BY <1>1, <1>2 DEF AccelFresh, AccelBounded
<1>11. LostUpdateTolerated' /\ BackoffNotMistakenWhenFast'
  BY <1>2 DEF LostUpdateTolerated, BackoffNotMistakenWhenFast
<1> QED BY <1>6, <1>7, <1>8, <1>9, <1>10, <1>11 DEF WatchInv

\* The new limit of the ACCEL slot.
LEMMA LimitAccelKeeps == ASSUME WatchInv, LimitAccel PROVE WatchInv'
<1>1. WatchTypeOK /\ LimitFollows /\ StallBounded /\ AdvFresh /\ AccelFresh
  BY DEF WatchInv
<1>2. /\ task = "limitAccel" /\ task' = "update" /\ down = "none" /\ down' = down
      /\ limit' = [limit EXCEPT !["ACCEL"] = CadenceLimit(cycle)["ACCEL"]]
      /\ armed' = armed /\ cycle' = cycle /\ waitLeft' = waitLeft
      /\ monitorLeft' = monitorLeft /\ age' = age /\ missed' = missed /\ shrunk' = shrunk
      /\ slow' = slow /\ staleFor' = staleFor
      /\ attached' = attached /\ present' = present /\ fails' = fails
      /\ retryLeft' = retryLeft /\ retries' = retries
  BY DEF LimitAccel, accel
<1>3. cycle \in Cycles /\ waitLeft > 0
  BY <1>1, <1>2 DEF WatchTypeOK, AdvFresh, Turn
<1>4. /\ CadenceLimit(cycle)["ACCEL"] \in Nat /\ CadenceLimit(cycle)["ACCEL"] >= Floor["ACCEL"]
  BY <1>3, LimitFacts, TwoSlots
<1>5. /\ limit' \in [Slots -> Nat] /\ limit'["ACCEL"] = CadenceLimit(cycle)["ACCEL"]
      /\ limit'["ADV"] = limit["ADV"]
  BY <1>1, <1>2, <1>4, TwoSlots DEF WatchTypeOK
<1>6. WatchTypeOK'
  BY <1>1, <1>2, <1>5 DEF WatchTypeOK, TaskSteps
<1>7. LimitFollows'
  <2>1. \A s \in Slots : limit'[s] >= Floor[s]
    BY <1>1, <1>4, <1>5 DEF LimitFollows, Slots
  <2>2. limit'["ADV"] = CadenceLimit(cycle)["ADV"]
    BY <1>1, <1>2, <1>5 DEF LimitFollows
  <2> QED BY <1>2, <2>1, <2>2 DEF LimitFollows, CadenceLimit, StaleLimit, Floor
<1>8. StallBounded'
  <2>1. ASSUME NEW s \in Slots
        PROVE  /\ Stale(s)' => Stale(s) \/ staleFor[s] = 0
               /\ LeftOver(s)'
    <3>1. staleFor[s] \in Nat /\ limit'[s] \in Nat
      BY <1>1, <1>5 DEF WatchTypeOK
    <3>2. CASE s = "ADV"
      BY <1>2, <1>3, <1>5, <3>2 DEF Stale, LeftOver
    <3>3. CASE s = "ACCEL"
      <4>1. staleFor[s] > 0 => Stale(s) \/ age[s] = 0
        BY <1>1, <1>2, <3>3 DEF StallBounded, LeftOver, Slots
      <4> QED BY <1>2, <1>3, <3>1, <4>1 DEF Stale, LeftOver
    <3> QED BY <3>2, <3>3 DEF Slots
  <2>2. monitorLeft \in 0 .. MonitorPeriod
    BY <1>1 DEF WatchTypeOK
  <2> QED BY <1>1, <1>2, <2>1, <2>2, TimesAssumption DEF StallBounded
<1>9. AdvFresh'
  BY <1>1, <1>2, <1>3, <1>5 DEF AdvFresh, Turn
<1>10. AccelFresh'
  BY <1>1, <1>2 DEF AccelFresh, AccelBounded
<1>11. LostUpdateTolerated' /\ BackoffNotMistakenWhenFast'
  BY <1>2 DEF LostUpdateTolerated, BackoffNotMistakenWhenFast
<1> QED BY <1>6, <1>7, <1>8, <1>9, <1>10, <1>11 DEF WatchInv

\* The update of the advertising data ends the turn.
LEMMA UpdateKeeps == ASSUME WatchInv, Update PROVE WatchInv'
<1>1. WatchTypeOK /\ LimitFollows /\ StallBounded /\ AdvFresh /\ AccelFresh
  BY DEF WatchInv
<1>2. /\ task = "update" /\ task' = "cycling" /\ down = "none" /\ down' = down
      /\ shrunk' = FALSE /\ limit' = limit
      /\ armed' = armed /\ cycle' = cycle /\ waitLeft' = waitLeft
      /\ monitorLeft' = monitorLeft /\ slow' = slow /\ staleFor' = staleFor
      /\ attached' = attached /\ present' = present /\ fails' = fails
      /\ retryLeft' = retryLeft /\ retries' = retries
  BY DEF Update, accel
<1>3. /\ cycle \in Nat /\ waitLeft \in 0 .. cycle /\ waitLeft > 0 /\ CycleMax \in Nat
      /\ missed \in 0 .. MaxMissed /\ age["ADV"] \in Nat \cup {Unarmed}
  BY <1>1, <1>2, TimesAssumption, TwoSlots DEF WatchTypeOK, AdvFresh, Turn
<1>4. /\ age' \in [Slots -> Nat \cup {Unarmed}] /\ age'["ACCEL"] = age["ACCEL"]
      /\ missed' \in 0 .. MaxMissed
      /\ \/ age'["ADV"] = 0 /\ missed' = 0
         \/ /\ age'["ADV"] = age["ADV"]
            /\ missed' = (IF missed < MaxMissed THEN missed + 1 ELSE missed)
  BY <1>1, <1>3, TwoSlots DEF Update, Kicked, WatchTypeOK, MaxMissed
<1>5. WatchTypeOK'
  BY <1>1, <1>2, <1>4 DEF WatchTypeOK, TaskSteps
<1>6. LimitFollows'
  BY <1>1, <1>2 DEF LimitFollows, CadenceLimit, StaleLimit, Floor
<1>7. StallBounded'
  <2>1. ASSUME NEW s \in Slots PROVE (Stale(s)' => Stale(s)) /\ LeftOver(s)'
    <3>1. limit[s] \in Nat /\ (age'[s] = age[s] \/ age'[s] = 0)
      BY <1>1, <1>4 DEF WatchTypeOK, Slots
    <3> QED BY <1>2, <1>3, <3>1 DEF Stale, LeftOver
  <2> QED BY <1>1, <1>2, <2>1 DEF StallBounded
<1>8. AdvFresh'
  <2>1. missed = 0 => age["ADV"] <= CycleMax
    BY <1>1, <1>2 DEF AdvFresh, Turn
  <2>2. CASE age'["ADV"] = 0 /\ missed' = 0
    BY <1>2, <1>3, <2>2 DEF AdvFresh, Turn
  <2>3. CASE age'["ADV"] = age["ADV"] /\ missed' = (IF missed < MaxMissed THEN missed + 1 ELSE missed)
    <3>1. missed' < MaxMissed => missed = 0 /\ missed' = 1
      BY <1>3, <2>3 DEF MaxMissed
    <3>2. missed' < MaxMissed => age'["ADV"] + waitLeft' <= cycle' + CycleMax
      BY <1>2, <1>3, <2>1, <2>3, <3>1 DEF Unarmed
    <3> QED BY <1>2, <3>1, <3>2 DEF AdvFresh, Turn
  <2> QED BY <1>4, <2>2, <2>3
<1>9. AccelFresh'
  BY <1>1, <1>2, <1>4 DEF AccelFresh, AccelBounded
<1>10. LostUpdateTolerated' /\ BackoffNotMistakenWhenFast'
  BY <1>2 DEF LostUpdateTolerated, BackoffNotMistakenWhenFast
<1> QED BY <1>5, <1>6, <1>7, <1>8, <1>9, <1>10 DEF WatchInv

-----------------------------------------------------------------------------
\* Once its task is up the ADV slot is stale only after two lost updates, or after
\* one in a turn that has lowered the limit.
LEMMA AdvStale ==
  ASSUME WatchInv, Stale("ADV"), task \notin {"none", "syncing"}
  PROVE  missed >= 2 \/ (missed = 1 /\ shrunk)
<1>1. WatchTypeOK /\ LimitFollows /\ AdvFresh
  BY DEF WatchInv
<1>2. /\ cycle \in Cycles /\ cycle \in Nat /\ waitLeft \in Nat /\ CycleMax \in Nat
      /\ age["ADV"] \in Nat /\ missed \in 0 .. 2 /\ limit["ADV"] \in Nat
  BY <1>1, TimesAssumption, TwoSlots DEF WatchTypeOK, Stale, Unarmed, MaxMissed
<1>3. CASE task = "cycling"
  <2>1. cycle + CycleMax <= limit["ADV"]
    BY <1>1, <1>2, <1>3, LimitFacts DEF LimitFollows
  <2>2. missed < 2 => age["ADV"] <= cycle + CycleMax
    BY <1>1, <1>2, <1>3 DEF AdvFresh, MaxMissed
  <2> QED BY <1>2, <2>1, <2>2 DEF Stale
<1>4. CASE task \in Turn
  <2>1. limit["ADV"] >= AdvFloor /\ AdvFloor \in Nat /\ CycleMax <= AdvFloor
    BY <1>1, TwoSlots, TimesAssumption, CadenceAssumption DEF LimitFollows, Floor
  <2>2. missed = 0 => age["ADV"] <= CycleMax
    BY <1>1, <1>4 DEF AdvFresh
  <2>3. missed < 2 /\ ~shrunk => age["ADV"] <= limit["ADV"]
    BY <1>1, <1>4 DEF AdvFresh, MaxMissed
  <2> QED BY <1>2, <2>1, <2>2, <2>3 DEF Stale
<1> QED BY <1>1, <1>3, <1>4 DEF WatchTypeOK, TaskSteps, Turn

\* At the fast cadences the ACCEL slot is stale only after a retry has failed.
LEMMA AccelStale ==
  ASSUME WatchInv, Stale("ACCEL"), ~slow PROVE retries > 0
<1>1. WatchTypeOK /\ LimitFollows /\ AccelFresh
  BY DEF WatchInv
<1>2. /\ cycle \in Cycles /\ cycle \in Nat /\ waitLeft \in Nat /\ FastMax \in Nat
      /\ age["ACCEL"] \in Nat /\ age["ACCEL"] # Unarmed /\ retries \in 0 .. 1
      /\ fails \in Nat /\ retryLeft \in Nat /\ RetryAfter \in Nat /\ AccelFloor \in Nat
  BY <1>1, TimesAssumption, TwoSlots DEF WatchTypeOK, Stale, Unarmed
<1>3. task # "none" /\ attached /\ cycle <= FastMax
  BY <1>1, <1>2 DEF AccelFresh, WatchTypeOK
<1>4. limit["ACCEL"] >= AccelFloor /\ limit["ACCEL"] \in Nat
  BY <1>1, TwoSlots DEF LimitFollows, WatchTypeOK, Floor
<1>5. SUFFICES ASSUME retries = 0 PROVE age["ACCEL"] <= AccelFloor
  BY <1>2, <1>4 DEF Stale
<1>6. AccelBounded
  BY <1>1, <1>3, <1>5 DEF AccelFresh
<1>7. CASE present
  <2>1. FailTime(fails) \in Nat /\ FailTime(fails) + FastMax <= FailTime(FailLimit)
    BY <1>1, <1>2, <1>7, FailTimes DEF AccelFresh
  <2>2. FailTime(FailLimit) \in Nat /\ FailTime(FailLimit) + RetryAfter + FastMax <= AccelFloor
    BY FailTimes
  <2> QED BY <1>2, <1>3, <1>6, <1>7, <2>1, <2>2 DEF AccelBounded
<1>8. CASE ~present
  <2>1. FailTime(FailLimit) \in Nat /\ FailTime(FailLimit) + RetryAfter + FastMax <= AccelFloor
    BY FailTimes
  <2> QED BY <1>2, <1>6, <1>8, <2>1 DEF AccelBounded, BackoffAge
<1> QED BY <1>7, <1>8

\* wdt_monitor_task: when no slot is stale every stall has a whole period.
LEMMA MonitorKeeps == ASSUME WatchInv, Monitor PROVE WatchInv'
<1>1. /\ monitorLeft' = MonitorPeriod /\ down = "none"
      /\ armed' = armed /\ task' = task /\ cycle' = cycle /\ waitLeft' = waitLeft
      /\ age' = age /\ limit' = limit /\ attached' = attached /\ present' = present
      /\ fails' = fails /\ retryLeft' = retryLeft /\ retries' = retries
      /\ missed' = missed /\ shrunk' = shrunk /\ slow' = slow /\ staleFor' = staleFor
      /\ down' \in {"ADV", "ACCEL", "none"}
      /\ \A s \in {"ADV", "ACCEL"} : down' = s => Stale(s)
      /\ down' = "none" /\ armed => ~Stale("ADV") /\ ~Stale("ACCEL")
  BY DEF Monitor, accel
<1>2. WatchTypeOK'
  BY <1>1, TimesAssumption DEF WatchInv, WatchTypeOK, Slots
<1>3. LimitFollows' /\ AdvFresh' /\ AccelFresh'
  <2>1. LimitFollows'
    BY <1>1 DEF WatchInv, LimitFollows, Floor, CadenceLimit, StaleLimit
  <2>2. AdvFresh'
    BY <1>1 DEF WatchInv, AdvFresh
  <2>3. AccelFresh'
    BY <1>1 DEF WatchInv, AccelFresh, AccelBounded
  <2> QED BY <2>1, <2>2, <2>3
<1>4. StallBounded'
  <2> SUFFICES ASSUME NEW s \in Slots
               PROVE  /\ armed /\ down' = "none" => staleFor[s] <= MonitorPeriod
                      /\ armed /\ down' = "none" => ~Stale(s)
                      /\ staleFor[s] > 0 => Stale(s) \/ LeftOver(s)
                      /\ ~armed => staleFor[s] = 0
    BY <1>1 DEF StallBounded, Stale, LeftOver
  <2> QED BY <1>1 DEF WatchInv, StallBounded, Slots
<1>5. LostUpdateTolerated'
  BY <1>1, AdvStale DEF LostUpdateTolerated, WatchInv, WatchTypeOK
<1>6. BackoffNotMistakenWhenFast'
  BY <1>1, AccelStale DEF BackoffNotMistakenWhenFast
<1> QED BY <1>2, <1>3, <1>4, <1>5, <1>6 DEF WatchInv

\* Time passes: what is stale comes nearer to its check.
LEMMA TickKeeps == ASSUME WatchInv, Tick PROVE WatchInv'
<1>1. /\ down = "none" /\ down' = down /\ armed /\ armed' = armed
      /\ monitorLeft > 0 /\ monitorLeft' = monitorLeft - 1
      /\ task = "none" \/ (task = "cycling" /\ waitLeft > 0)
      /\ waitLeft' = Less(waitLeft) /\ retryLeft' = Less(retryLeft)
      /\ age' = [s \in Slots |-> Older(age[s])]
      /\ staleFor' = [s \in Slots |-> IF ~Stale(s) THEN 0
                                      ELSE IF staleFor[s] > MonitorPeriod THEN staleFor[s]
                                      ELSE staleFor[s] + 1]
      /\ task' = task /\ cycle' = cycle /\ limit' = limit /\ attached' = attached
      /\ present' = present /\ fails' = fails /\ retries' = retries
      /\ missed' = missed /\ shrunk' = shrunk /\ slow' = slow
  BY DEF Tick
<1>2. WatchTypeOK /\ LimitFollows /\ StallBounded /\ AdvFresh /\ AccelFresh
  BY DEF WatchInv
<1>3. /\ cycle \in Nat /\ waitLeft \in Nat /\ waitLeft <= cycle /\ monitorLeft \in Nat
      /\ monitorLeft <= MonitorPeriod /\ MonitorPeriod \in Nat /\ retryLeft \in 0 .. RetryAfter
      /\ RetryAfter \in Nat /\ fails \in Nat /\ CycleMax \in Nat /\ FastMax \in Nat
      /\ \A s \in Slots : /\ age[s] \in Nat \cup {Unarmed} /\ staleFor[s] \in 0 .. MonitorPeriod + 1
                          /\ limit[s] \in Nat
  BY <1>2, TimesAssumption DEF WatchTypeOK
<1>4. WatchTypeOK'
  <2>1. age' \in [Slots -> Nat \cup {Unarmed}]
    BY <1>1, <1>3 DEF Older, Unarmed
  <2>2. staleFor' \in [Slots -> 0 .. MonitorPeriod + 1]
    BY <1>1, <1>3
  <2>3. monitorLeft' \in 0 .. MonitorPeriod /\ waitLeft' \in 0 .. cycle /\ retryLeft' \in 0 .. RetryAfter
    BY <1>1, <1>3 DEF Less
  <2> QED BY <1>1, <1>2, <2>1, <2>2, <2>3 DEF WatchTypeOK
<1>5. LimitFollows' /\ LostUpdateTolerated' /\ BackoffNotMistakenWhenFast'
  BY <1>1, <1>2 DEF LimitFollows, CadenceLimit, StaleLimit, Floor, LostUpdateTolerated,
                    BackoffNotMistakenWhenFast
<1>6. StallBounded'
  <2> SUFFICES ASSUME NEW s \in Slots
               PROVE  /\ staleFor'[s] <= MonitorPeriod
                      /\ Stale(s)' => staleFor'[s] + monitorLeft' <= MonitorPeriod
                      /\ staleFor'[s] > 0 => Stale(s)'
    BY <1>1 DEF StallBounded
  <2>1. CASE ~Stale(s)
    BY <1>1, <1>3, <2>1
  <2>2. CASE Stale(s)
    <3>1. staleFor[s] + monitorLeft <= MonitorPeriod
      BY <1>1, <1>2, <2>2 DEF StallBounded
    <3>2. Stale(s)'
      BY <1>1, <1>3, <2>2 DEF Stale, Older, Unarmed
    <3> QED BY <1>1, <1>3, <2>2, <3>1, <3>2
  <2> QED BY <2>1, <2>2
<1>7. AdvFresh'
  <2>1. task' \notin Turn \cup {"syncing"} /\ ~shrunk'
    BY <1>1, <1>2 DEF AdvFresh, Turn
  <2>2. task' = "cycling" /\ missed' < MaxMissed =>
          age'["ADV"] + waitLeft' <= cycle' + (IF missed' = 0 THEN 0 ELSE CycleMax)
    BY <1>1, <1>2, <1>3, TwoSlots DEF AdvFresh, Older, Less, Unarmed
  <2> QED BY <2>1, <2>2 DEF AdvFresh
<1>8. AccelFresh'
  <2>1. age'["ACCEL"] = Older(age["ACCEL"]) /\ age["ACCEL"] \in Nat \cup {Unarmed}
    BY <1>1, <1>3, TwoSlots
  <2>2. ASSUME task = "cycling", attached, ~slow, retries = 0 PROVE AccelBounded'
    <3>1. AccelBounded /\ waitLeft > 0 /\ cycle <= FastMax
      BY <1>1, <1>2, <2>2 DEF AccelFresh
    <3>2. FailTime(fails) \in Nat /\ FailTime(FailLimit) \in Nat
      BY <1>3, FailTimes
    <3>3. CASE present
      <4>1. age'["ACCEL"] + waitLeft' <= FailTime(fails) + cycle
        BY <1>1, <1>3, <2>1, <3>1, <3>2, <3>3 DEF AccelBounded, Older, Less, Unarmed
      <4>2. (age["ACCEL"] + waitLeft <= FailTime(fails) + cycle)'
        BY <1>1, <4>1 DEF FailTime
      <4> QED BY <1>1, <3>3, <4>2 DEF AccelBounded
    <3>4. CASE ~present
      <4>1. /\ retryLeft' > 0 => age'["ACCEL"] + retryLeft' <= BackoffAge
            /\ retryLeft' = 0 => age'["ACCEL"] + waitLeft' <= BackoffAge + FastMax
        BY <1>1, <1>3, <2>1, <3>1, <3>2, <3>4 DEF AccelBounded, Older, Less, Unarmed, BackoffAge
      <4>2. (/\ retryLeft > 0 => age["ACCEL"] + retryLeft <= BackoffAge
             /\ retryLeft = 0 => age["ACCEL"] + waitLeft <= BackoffAge + FastMax)'
        BY <4>1 DEF BackoffAge, FailTime
      <4> QED BY <1>1, <3>4, <4>2 DEF AccelBounded
    <3> QED BY <3>3, <3>4
  <2> QED BY <1>1, <1>2, <2>1, <2>2 DEF AccelFresh, Older, Unarmed
<1> QED BY <1>4, <1>5, <1>6, <1>7, <1>8 DEF WatchInv

LEMMA WatchStep == WatchInv /\ [WatchNext]_watchVars => WatchInv'
<1> SUFFICES ASSUME WatchInv, [WatchNext]_watchVars PROVE WatchInv'
  OBVIOUS
<1>1. CASE UNCHANGED watchVars
  BY <1>1 DEF watchVars, accel, WatchInv, WatchTypeOK, LimitFollows, StallBounded, Stale, LeftOver, AdvFresh,
              AccelFresh, AccelBounded, LostUpdateTolerated, BackoffNotMistakenWhenFast,
              CadenceLimit, StaleLimit, Floor
<1> QED
  BY <1>1, ArmKeeps, SyncKeeps, FirstUpdateKeeps, CycleKeeps, LimitAdvKeeps, LimitAccelKeeps,
     UpdateKeeps, MonitorKeeps, RebootKeeps, TickKeeps DEF WatchNext

LEMMA WatchInvariant == WatchSpec => []WatchInv
BY WatchBoot, WatchStep, PTL DEF WatchSpec

-----------------------------------------------------------------------------
\* Every variable keeps its type, the limits and ages of the slots included
\* (wdt_guard.c:73-92).
THEOREM WatchTypeCorrect == WatchSpec => []WatchTypeOK
<1>1. WatchInv => WatchTypeOK BY DEF WatchInv
<1> QED BY <1>1, WatchInvariant, PTL

\* No slot stays stale for longer than one period of the monitor, for every set of
\* cadences and however they change (wdt_guard.c:145-173).
THEOREM StallsNoticed == WatchSpec => []StallIsNoticed
<1>1. WatchInv => StallIsNoticed BY DEF WatchInv, StallBounded, StallIsNoticed
<1> QED BY <1>1, WatchInvariant, PTL

\* Once the advertising task is up, one lost update makes the ADV slot reboot the
\* node only between the lower limit and the update of a turn to a faster cadence,
\* for every cadence that the clamps allow and every change (ble_adv.c:285,296).
THEOREM OneLossTolerated == WatchSpec => []LostUpdateTolerated
<1>1. WatchInv => LostUpdateTolerated BY DEF WatchInv
<1> QED BY <1>1, WatchInvariant, PTL

\* At the cadences up to FastMax the back-off of the driver, with the failures before
\* it, never makes the ACCEL slot stale (wdt_guard.c:42-45).
THEOREM BackoffIsNoStall == WatchSpec => []BackoffNotMistakenWhenFast
<1>1. WatchInv => BackoffNotMistakenWhenFast BY DEF WatchInv
<1> QED BY <1>1, WatchInvariant, PTL
=============================================================================
