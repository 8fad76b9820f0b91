----------------------------- MODULE CrashLoop -----------------------------
(***************************************************************************)
(* The crash-loop escalation of the sensor node: watchdog/wdt_guard.c.     *)
(*                                                                         *)
(* Every reset leaves a reset reason and, in RTC memory that only a power  *)
(* loss erases, a record (magic, abnormal_resets, backoff_pending).  The   *)
(* next boot reads both in wdt_guard_init and decides whether the firmware *)
(* starts, starts in SAFE mode, or goes back to deep sleep.  Crashes may   *)
(* come at any point of the life of the node, power and pin resets too.    *)
(***************************************************************************)
EXTENDS Integers

CONSTANTS
  BackoffN,      \* WDT_ESC_BACKOFF_N: resets in a row before deep sleep
  SafeN,         \* WDT_ESC_SAFE_N: resets in a row before SAFE mode
  BackoffBase,   \* WDT_ESC_BACKOFF_BASE_S
  BackoffMax,    \* WDT_ESC_BACKOFF_MAX_S
  MaxResets,     \* bound of the model: no crash is taken beyond this count
  RtcGarbage     \* what abnormal_resets may hold after a power loss

ASSUME ThresholdsAssumption ==
  /\ BackoffN \in Nat /\ SafeN \in Nat
  /\ 1 < BackoffN /\ BackoffN < SafeN
ASSUME SleepAssumption ==
  /\ BackoffBase \in Nat /\ BackoffMax \in Nat
  /\ 0 < BackoffBase /\ BackoffBase =< BackoffMax
ASSUME BoundsAssumption == MaxResets \in Nat /\ RtcGarbage \subseteq Nat

VARIABLES
  phase,           \* where the node is in its life
  reason,          \* what esp_reset_reason() will answer in this boot
  magic,           \* s_rtc.magic is WDT_RTC_MAGIC
  abnormalResets,  \* s_rtc.abnormal_resets
  backoffPending,  \* s_rtc.backoff_pending
  safe,            \* s_safe_mode
  stableTimer,     \* the one-shot timer of wdt_guard_boot_done is armed
  sleepFor,        \* history: seconds of the last deep sleep, 0 if none
                   \* since the counter was last cleared
  startsAwake,     \* history: starts of the application since the last deep
                   \* sleep, or since the counter was last cleared
  resets           \* history: crashes since an uptime was forgiven or the
                   \* node was reset from outside, up to BackoffN

vars == <<phase, reason, magic, abnormalResets, backoffPending, safe,
          stableTimer, sleepFor, startsAwake, resets>>
rtc == <<magic, abnormalResets, backoffPending>>
history == <<sleepFor, startsAwake, resets>>

Phases == {"off", "boot", "starting", "running", "sleep"}
AbnormalReasons == {"TASK_WDT", "INT_WDT", "WDT", "PANIC", "SW"}
Reasons == AbnormalReasons \cup {"POWERON", "BROWNOUT", "DEEPSLEEP", "OTHER"}

TypeOK ==
  /\ phase \in Phases
  /\ reason \in Reasons
  /\ magic \in BOOLEAN
  /\ abnormalResets \in Nat
  /\ backoffPending \in BOOLEAN
  /\ safe \in BOOLEAN
  /\ stableTimer \in BOOLEAN
  /\ sleepFor \in Nat
  /\ startsAwake \in Nat
  /\ resets \in 0 .. BackoffN

(***************************************************************************)
(* What wdt_guard_init computes before it acts.                            *)
(***************************************************************************)
\* The record is thrown away: it was never written, or the power was lost.
RecordLost == ~magic \/ reason \in {"POWERON", "BROWNOUT"}

\* This boot is the wake-up from a backoff sleep.
RetryBoot == reason = "DEEPSLEEP" /\ backoffPending /\ ~RecordLost

\* The counter after lines 181-203.
CountedResets ==
  IF RetryBoot THEN abnormalResets
  ELSE IF reason \in AbnormalReasons
       THEN (IF RecordLost THEN 0 ELSE abnormalResets) + 1
       ELSE 0

\* backoff_pending after the same lines.
PendingAfter == backoffPending /\ ~RecordLost /\ ~RetryBoot

\* History: a streak of crashes is over when the power was lost or a reset
\* came from outside; it goes on through crashes and sleep.
StreakGoesOn == magic /\ reason \in AbnormalReasons \cup {"DEEPSLEEP"}
ResetFromOutside == reason \notin AbnormalReasons \cup {"DEEPSLEEP"}
OneMoreReset == IF resets < BackoffN THEN resets + 1 ELSE resets

PowerOfTwo == <<1, 2, 4, 8, 16>>

\* Seconds of the backoff sleep at count c (base << min(c - BackoffN, 4)).
BackoffSeconds(c) ==
  LET k == c - BackoffN
      s == BackoffBase * PowerOfTwo[(IF k > 4 THEN 4 ELSE k) + 1]
  IN  IF s > BackoffMax THEN BackoffMax ELSE s

(***************************************************************************)
(* Initial state: no power, and no valid record in the RTC memory.         *)
(***************************************************************************)
Init ==
  /\ phase = "off"
  /\ reason = "POWERON"
  /\ magic = FALSE
  /\ abnormalResets \in RtcGarbage
  /\ backoffPending \in BOOLEAN
  /\ safe = FALSE
  /\ stableTimer = FALSE
  /\ sleepFor = 0
  /\ startsAwake = 0
  /\ resets = 0

\* Any reset but a loss of power: the static variables of the program are
\* initialised again, the RTC memory is not.
Reset(r) ==
  /\ phase' = "boot"
  /\ reason' = r
  /\ safe' = FALSE
  /\ stableTimer' = FALSE

PowerOn ==
  /\ phase = "off"
  /\ Reset("POWERON")
  /\ UNCHANGED <<rtc, history>>

\* A loss of power leaves the RTC memory as it was (a short dip) or decayed;
\* decayed memory is told by its magic.
RecordSurvives == UNCHANGED rtc
RecordDecays ==
  /\ magic' = FALSE
  /\ abnormalResets' \in RtcGarbage
  /\ backoffPending' \in BOOLEAN

PowerCut ==
  /\ phase # "off"
  /\ phase' = "off"
  /\ reason' = "POWERON"
  /\ RecordSurvives \/ RecordDecays
  /\ safe' = FALSE
  /\ stableTimer' = FALSE
  /\ UNCHANGED history

\* The brownout detector resets the chip, asleep or not.
Brownout ==
  /\ phase # "off"
  /\ Reset("BROWNOUT")
  /\ RecordSurvives \/ RecordDecays
  /\ UNCHANGED history

\* A reset that is none of the above (USB, JTAG, external pin); with a new
\* firmware image the record may have another layout.
OtherReset ==
  /\ phase # "off"
  /\ Reset("OTHER")
  /\ RecordSurvives \/ RecordDecays
  /\ UNCHANGED history

\* A panic or a watchdog before wdt_guard_init has run.
EarlyCrash ==
  /\ phase = "boot"
  /\ abnormalResets < MaxResets
  /\ \E r \in AbnormalReasons \ {"SW"} : Reset(r)
  /\ resets' = OneMoreReset
  /\ UNCHANGED <<rtc, sleepFor, startsAwake>>

\* A panic, a task or interrupt watchdog, or the reboot by the monitor.
Crash ==
  /\ phase \in {"starting", "running"}
  /\ abnormalResets < MaxResets
  /\ \E r \in AbnormalReasons \ {"WDT"} : Reset(r)
  /\ resets' = OneMoreReset
  /\ UNCHANGED <<rtc, sleepFor, startsAwake>>

(***************************************************************************)
(* wdt_guard_init, whole: the record is updated, then one of four things   *)
(* happens.                                                                *)
(***************************************************************************)
StartApp ==
  /\ phase' = "starting"
  /\ backoffPending' = PendingAfter
  /\ sleepFor' = (IF StreakGoesOn THEN sleepFor ELSE 0)
  /\ startsAwake' = (IF StreakGoesOn THEN startsAwake ELSE 0) + 1

\* Mutant: the pending mark is not set before deep sleep.
DeepSleepUnmarked(s) ==
  /\ phase' = "sleep"
  /\ backoffPending' = PendingAfter
  /\ sleepFor' = s
  /\ startsAwake' = 0

DeepSleep(s) ==
  /\ phase' = "sleep"
  /\ backoffPending' = TRUE
  /\ sleepFor' = s
  /\ startsAwake' = 0

UpdateRecord ==
  /\ phase = "boot"
  /\ magic' = TRUE
  /\ abnormalResets' = CountedResets
  /\ resets' = (IF ResetFromOutside THEN 0 ELSE resets)
  /\ UNCHANGED <<reason, stableTimer>>

NormalBoot ==
  /\ UpdateRecord
  /\ CountedResets < BackoffN
  /\ StartApp
  /\ safe' = FALSE

BackoffSleep ==
  /\ UpdateRecord
  /\ BackoffN =< CountedResets /\ CountedResets < SafeN
  /\ DeepSleep(BackoffSeconds(CountedResets))
  /\ safe' = FALSE

\* Mutant: SAFE mode without the throttle of a SAFE boot that crashes too.
SafeBootUnthrottled ==
  /\ UpdateRecord
  /\ CountedResets >= SafeN
  /\ StartApp
  /\ safe' = TRUE

SafeBoot ==
  /\ UpdateRecord
  /\ CountedResets = SafeN
  /\ StartApp
  /\ safe' = TRUE

\* Mutant: the throttle sleeps for the base time.
SafeThrottleShort ==
  /\ UpdateRecord
  /\ CountedResets > SafeN
  /\ DeepSleep(BackoffBase)
  /\ safe' = TRUE

SafeThrottle ==
  /\ UpdateRecord
  /\ CountedResets > SafeN
  /\ DeepSleep(BackoffMax)
  /\ safe' = TRUE

GuardInit == NormalBoot \/ BackoffSleep \/ SafeBoot \/ SafeThrottle

\* The deep-sleep timer expires: a boot with its own reset reason.
Wake ==
  /\ phase = "sleep"
  /\ Reset("DEEPSLEEP")
  /\ UNCHANGED <<rtc, history>>

\* wdt_guard_boot_done: when esp_timer_create fails the boot goes on without
\* the timer, and this uptime will never be forgiven.
BootDone ==
  /\ phase = "starting"
  /\ phase' = "running"
  /\ stableTimer' \in BOOLEAN
  /\ UNCHANGED <<reason, rtc, safe, history>>

\* Mutant: the callback leaves the counter as it is.
StableClearForgets ==
  /\ phase = "running"
  /\ stableTimer
  /\ stableTimer' = FALSE
  /\ sleepFor' = 0
  /\ startsAwake' = 1
  /\ resets' = 0
  /\ UNCHANGED <<phase, reason, rtc, safe>>

\* esc_stable_clear_cb, one hour after BootDone.
StableClear ==
  /\ phase = "running"
  /\ stableTimer
  /\ stableTimer' = FALSE
  /\ abnormalResets' = 0
  /\ sleepFor' = 0
  /\ startsAwake' = 1
  /\ resets' = 0
  /\ UNCHANGED <<phase, reason, magic, backoffPending, safe>>

Next ==
  \/ PowerOn \/ PowerCut \/ Brownout \/ OtherReset
  \/ EarlyCrash \/ Crash
  \/ GuardInit \/ Wake \/ BootDone \/ StableClear

Spec == Init /\ [][Next]_vars

\* The hardware and the program make progress: the sleep timer fires, the
\* boot code runs, the stable timer fires when nothing else happens first.
Fairness ==
  /\ WF_vars(Wake) /\ WF_vars(GuardInit)
  /\ WF_vars(BootDone) /\ WF_vars(StableClear)

FairSpec == Spec /\ Fairness

(***************************************************************************)
(* Properties.                                                             *)
(***************************************************************************)

\* A node that sleeps, or wakes from its sleep, still holds the count that
\* sent it to sleep, so the wake-up boot cannot take it for a clean start
\* and begin the streak again; and the count is never the one that starts
\* SAFE mode, so that a wake-up never starts it a second time.
SleepIsResumable ==
  phase = "sleep" \/ (phase = "boot" /\ reason = "DEEPSLEEP") =>
    /\ magic /\ backoffPending
    /\ abnormalResets >= BackoffN
    /\ abnormalResets # SafeN

\* A node that keeps crashing starts its application at most BackoffN times
\* before it has to sleep, at whatever point of its life it crashes and in
\* SAFE mode too: a crash loop cannot drain the battery by starting again
\* and again (wdt_guard.c:47-48,215-217).
StartsAreThrottled == startsAwake =< BackoffN

\* A node sleeps only after BackoffN crashes that neither an hour of uptime
\* nor a reset from outside separates: what RTC memory holds after a loss of
\* power, or kept from before the uptime, never sends it to sleep early
\* (wdt_guard.c:51,181-203,261-270).
SleepIsEarned == phase = "sleep" => resets = BackoffN

\* As long as the streak of crashes lasts a node that goes back to sleep
\* sleeps at least as long as the time before, and never longer than the
\* configured maximum.
BackoffNeverShrinks ==
  [][phase' = "sleep" => sleepFor =< sleepFor' /\ sleepFor' =< BackoffMax]_vars

\* What the comments call the wake-up from a backoff sleep: a retry boot
\* (wdt_guard.c:194-197), a retry every ten minutes (217), a retry after deep
\* sleep (226).  The node that sleeps starts its application again in the
\* end, unless it loses its power.
SleepIsRetried == phase = "sleep" ~> phase \in {"starting", "off"}
=============================================================================
