----------------------------- MODULE AdvManager -----------------------------
(***************************************************************************)
(* The adaptive advertising policy of the sensor node: ble/adv_manager.c,  *)
(* with the measurement that feeds it (build_mfg_data of ble/ble_adv.c).   *)
(*                                                                         *)
(* Once per advertising cycle the node measures motion and temperature and *)
(* decides whether it advertises often (MOVING) or rarely (STATIONARY).    *)
(* Times are in milliseconds, temperatures in hundredths of a degree.      *)
(***************************************************************************)
EXTENDS Integers, FiniteSets

CONSTANTS
  Channels,   \* the temperature channels, AS6221_CH_TH1 and AS6221_CH_TH2
  Temps,      \* the temperatures the environment takes
  RawMvMs,    \* what NVS may hold for mv_ms
  RawStMs,    \* what NVS may hold for st_ms
  Policies,   \* what NVS may hold for policy: subset of {"FIXED","ADAPTIVE"}
  SafeModes,  \* what wdt_guard_safe_mode() may answer
  QuietMs,    \* quiet_ms
  DtX100      \* dt_x100

CycleMin == 100      \* lower clamp of mv_ms
CycleMax == 10240    \* ADVM_ITVL_MAX_MS
SafeMs == 10000      \* ADVM_SAFE_MS
UnitsMax == 16384    \* ADVM_ITVL_MAX_UNITS

ASSUME KnobsAssumption ==
  /\ RawMvMs \subseteq Nat /\ RawStMs \subseteq Nat
  /\ Policies \subseteq {"FIXED", "ADAPTIVE"} /\ SafeModes \subseteq BOOLEAN
  /\ QuietMs \in Nat /\ DtX100 \in Nat
  /\ Temps \subseteq Int /\ IsFiniteSet(Channels)

VARIABLES
  cfg,          \* s_cfg: [mv, st]
  state,        \* s_state
  cycleMs,      \* s_cycle_ms
  itvlChanged,  \* s_itvl_changed
  quiet,        \* now - s_last_active_us, not counted beyond QuietMs
  ref,          \* s_ref_t1, s_ref_t2
  refValid,     \* s_ref_valid
  last,         \* s_last_t1, s_last_t2 of build_mfg_data
  temp          \* the real temperature at each sensor

policy == <<cfg, state, cycleMs, itvlChanged, quiet, ref, refValid>>

States == {"FIXED", "MOVING", "STATIONARY", "SAFE"}
AtMost(n, max) == IF n > max THEN max ELSE n
AtLeast(n, min) == IF n < min THEN min ELSE n
Dist(a, b) == IF a < b THEN b - a ELSE a - b

\* The clamps of adv_manager_init, in their order.
ClampMv(mv) == AtMost(AtLeast(mv, CycleMin), CycleMax)
\* Mutant: the upper limit of st_ms is forgotten.
ClampStUnbounded(st, mv) == AtLeast(st, mv)
ClampSt(st, mv) == AtMost(AtLeast(st, mv), CycleMax)

StateCycleMs(c, s) ==
  CASE s = "SAFE"       -> SafeMs
    [] s = "STATIONARY" -> c.st
    [] OTHER            -> c.mv

\* adv_manager_itvl_units: 0.625 ms units, integer division.
ItvlUnits(ms) == AtMost((ms * 8) \div 5, UnitsMax)

AdvManagerInit ==
  \E mv \in RawMvMs, st \in RawStMs, p \in Policies, sm \in SafeModes :
    /\ cfg = [mv |-> ClampMv(mv), st |-> ClampSt(st, ClampMv(mv))]
    /\ state = (IF sm THEN "SAFE" ELSE IF p = "FIXED" THEN "FIXED" ELSE "MOVING")
    /\ cycleMs = StateCycleMs(cfg, state)
    /\ itvlChanged = FALSE
    /\ quiet = 0
    /\ ref = [c \in Channels |-> 0]
    /\ refValid = FALSE
    /\ last = [c \in Channels |-> 0]
    /\ temp \in [Channels -> Temps]

EnterState(s) ==
  /\ state' = s
  /\ cycleMs' = StateCycleMs(cfg, s)
  /\ itvlChanged' = (itvlChanged \/ StateCycleMs(cfg, s) # cycleMs)

StayInState == UNCHANGED <<state, cycleMs, itvlChanged>>

\* vTaskDelay of one cycle; the temperature drifts meanwhile.
TimePasses(now) ==
  /\ quiet' = AtMost(quiet + cycleMs, QuietMs)
  /\ temp' = now

\* build_mfg_data: a channel that fails keeps its last valid value.
Measured(ok) == [c \in Channels |-> IF c \in ok THEN temp[c] ELSE last[c]]

TempEvent(t) == refValid /\ \E c \in Channels : Dist(t[c], ref[c]) >= DtX100

\* Mutant: motion does not restart the quiet period.
UpdateMovingForgetsMotion(motion, t) ==
  /\ state = "MOVING"
  /\ ref' = t
  /\ refValid' = TRUE
  /\ UNCHANGED quiet
  /\ IF ~motion /\ quiet >= QuietMs THEN EnterState("STATIONARY") ELSE StayInState

\* Mutant: the reference is set once and not followed.
UpdateMovingOldReference(motion, t) ==
  /\ state = "MOVING"
  /\ ref' = (IF refValid THEN ref ELSE t)
  /\ refValid' = TRUE
  /\ quiet' = (IF motion THEN 0 ELSE quiet)
  /\ IF ~motion /\ quiet >= QuietMs THEN EnterState("STATIONARY") ELSE StayInState

UpdateMoving(motion, t) ==
  /\ state = "MOVING"
  /\ ref' = t
  /\ refValid' = TRUE
  /\ quiet' = (IF motion THEN 0 ELSE quiet)
  /\ IF ~motion /\ quiet >= QuietMs THEN EnterState("STATIONARY") ELSE StayInState

UpdateStationary(motion, t) ==
  /\ state = "STATIONARY"
  /\ UNCHANGED <<ref, refValid>>
  /\ IF motion \/ TempEvent(t) THEN EnterState("MOVING") /\ quiet' = 0
     ELSE StayInState /\ UNCHANGED quiet

UpdateFixed ==
  /\ state \in {"SAFE", "FIXED"}
  /\ UNCHANGED <<state, cycleMs, itvlChanged, quiet, ref, refValid>>

\* One call of build_mfg_data and adv_manager_update.
MeasureAndUpdate(motion, ok) ==
  /\ last' = Measured(ok)
  /\ \/ UpdateMoving(motion, Measured(ok))
     \/ UpdateStationary(motion, Measured(ok))
     \/ UpdateFixed
  /\ UNCHANGED <<cfg, temp>>

PolicyTypeOK ==
  /\ cfg.mv \in CycleMin .. CycleMax /\ cfg.st \in cfg.mv .. CycleMax
  /\ state \in States
  /\ cycleMs \in CycleMin .. CycleMax
  /\ itvlChanged \in BOOLEAN
  /\ quiet \in 0 .. QuietMs
  /\ ref \in [Channels -> Int] /\ refValid \in BOOLEAN
  /\ last \in [Channels -> Int]
  /\ temp \in [Channels -> Temps]
=============================================================================
