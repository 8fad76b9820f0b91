--------------------------- MODULE AdvCycleProofs ---------------------------
(* For all knobs, temperatures and channels, however many flash commits there *)
(* are: the controller's interval agrees with the policy's, STATIONARY needs  *)
(* a quiet period, and the temperatures of a STATIONARY node stay in their    *)
(* band.                                                                      *)
EXTENDS AdvCycle, TLAPS

-----------------------------------------------------------------------------
(* The interval.  Everywhere but between the stop and the start of a restart  *)
(* the controller's interval is the policy's or the restart is owed; and so   *)
(* is what a resume has read of it, unless its start is going to be refused.  *)

Booting == {"bootData", "bootStart", "bootMark"}
Settled == {"bootMark", "wait", "measure", "check", "data"}

Applied == adv \in Settled /\ advOn => ctrlItvl = ItvlUnits(cycleMs) \/ itvlChanged

Owed == advOn \/ itvlChanged

MinFresh ==
  adv \in Settled /\ nvs \in {"readMax", "restart"} /\ ~Owed =>
    itvlRead.min = ItvlUnits(cycleMs)
MaxFresh ==
  adv \in Settled /\ nvs = "restart" /\ ~Owed => itvlRead.max = ItvlUnits(cycleMs)

ReadPair == itvlRead = [min |-> itvlRead.min, max |-> itvlRead.max]

\* Advertising is resumed only after the boot has started it.
ResumesLate == nvs \in {"readMin", "readMax", "restart"} => everStarted
StartsLate  == everStarted => adv \notin Booting

ItvlInv == Applied /\ MinFresh /\ MaxFresh /\ ReadPair /\ ResumesLate /\ StartsLate

\* A measurement that changes the cycle owes a restart.
LEMMA CycleChangeIsOwed ==
  ASSUME Measure
  PROVE  /\ cycleMs' = cycleMs \/ itvlChanged'
         /\ itvlChanged => itvlChanged'
         /\ UNCHANGED <<nvs, paused, everStarted, radio, itvlRead>>
         /\ adv = "measure" /\ adv' = "check"
<1>1. (\E s \in States : EnterState(s)) \/ StayInState
  BY DEF Measure, MeasureAndUpdate, UpdateMoving, UpdateStationary, UpdateFixed, StayInState, States
<1>2. /\ cycleMs' = cycleMs \/ itvlChanged'
      /\ itvlChanged => itvlChanged'
  <2>1. ASSUME NEW s, EnterState(s)
        PROVE  /\ cycleMs' = cycleMs \/ itvlChanged'
               /\ itvlChanged => itvlChanged'
    <3>1. CASE StateCycleMs(cfg, s) = cycleMs
      BY <2>1, <3>1, Zenon DEF EnterState
    <3>2. CASE StateCycleMs(cfg, s) # cycleMs
      BY <2>1, <3>2, Zenon DEF EnterState
    <3> QED  BY <3>1, <3>2
  <2> QED  BY <1>1, <2>1 DEF StayInState
<1>3. /\ UNCHANGED <<nvs, paused, everStarted, radio, itvlRead>>
      /\ adv = "measure" /\ adv' = "check"
  BY DEF Measure
<1> QED  BY <1>2, <1>3

\* A step of the advertising task preserves the invariant.
LEMMA AdvTaskItvl == ASSUME ItvlInv, AdvTask PROVE ItvlInv'
<1> USE DEF ItvlInv, Applied, Owed, MinFresh, MaxFresh, ReadPair, ResumesLate, StartsLate,
            Settled, Booting
<1>1. CASE BootData
  BY <1>1 DEF BootData, policy, radio
<1>2. CASE BootStart
  BY <1>2 DEF BootStart, StartAdv, policy, radio
<1>3. CASE BootMark
  BY <1>3 DEF BootMark, policy, radio
<1>4. CASE WaitCycle
  BY <1>4 DEF WaitCycle, radio
<1>5. CASE Measure
  <2>1. CASE cycleMs' = cycleMs
    BY <1>5, <2>1, CycleChangeIsOwed DEF radio
  <2>2. CASE itvlChanged'
    BY <1>5, <2>2, CycleChangeIsOwed DEF radio
  <2> QED  BY <1>5, <2>1, <2>2, CycleChangeIsOwed
<1>6. CASE Check
  BY <1>6 DEF Check, radio
<1>7. CASE StopForRestart
  BY <1>7 DEF StopForRestart, policy, radio
<1>8. CASE Restart
  BY <1>8 DEF Restart, StartAdv, policy, radio
<1>9. CASE SetData
  BY <1>9 DEF SetData, policy, radio
<1> QED  BY <1>1, <1>2, <1>3, <1>4, <1>5, <1>6, <1>7, <1>8, <1>9 DEF AdvTask

\* A step of the committing task preserves it.
LEMMA NvsTaskItvl == ASSUME ItvlInv, NvsTask \/ PauseFlag PROVE ItvlInv'
<1> USE DEF ItvlInv, Applied, Owed, MinFresh, MaxFresh, ReadPair, ResumesLate, StartsLate,
            Settled, Booting, NvsLocal, policy, radio
<1>1. CASE PauseFlag
  BY <1>1 DEF PauseFlag
<1>2. CASE PauseStop
  BY <1>2 DEF PauseStop
<1>3. CASE Commit
  BY <1>3 DEF Commit
<1>4. CASE ResumeFlag
  BY <1>4 DEF ResumeFlag
<1>5. CASE ReadMin
  BY <1>5 DEF ReadMin
<1>6. CASE ReadMax
  BY <1>6 DEF ReadMax
<1>7. CASE ResumeStart
  BY <1>7 DEF ResumeStart
<1> QED  BY <1>1, <1>2, <1>3, <1>4, <1>5, <1>6, <1>7 DEF NvsTask

\* Every step preserves it.
LEMMA ItvlKept == ItvlInv /\ [Next]_vars => ItvlInv'
<1> SUFFICES ASSUME ItvlInv, [Next]_vars PROVE ItvlInv'
  OBVIOUS
<1>1. CASE Reboot
  BY <1>1 DEF Reboot, ItvlInv, Applied, Owed, MinFresh, MaxFresh, ReadPair, ResumesLate, StartsLate, Settled, Booting
<1>2. CASE UNCHANGED vars
  BY <1>2 DEF vars, policy, radio, ItvlInv, Applied, Owed, MinFresh, MaxFresh, ReadPair, ResumesLate, StartsLate
<1>3. CASE MonitorReboot
  BY <1>3 DEF MonitorReboot, policy, radio, ItvlInv, Applied, MinFresh, MaxFresh, ReadPair, ResumesLate,
              StartsLate, Settled, Booting
<1> QED  BY <1>1, <1>2, <1>3, AdvTaskItvl, NvsTaskItvl DEF Next

\* The controller never keeps an interval other than the policy's unless the
\* restart is still owed, however often commits cut into the advertising task.
THEOREM IntervalsAgree == Spec => []IntervalAgreement
<1>1. Init => ItvlInv
  BY DEF Init, AdvManagerInit, TasksInit, ItvlInv, Applied, Owed, MinFresh, MaxFresh, ReadPair,
         ResumesLate, StartsLate, Settled, Booting
<1>2. ItvlInv => IntervalAgreement
  BY DEF ItvlInv, Applied, IntervalAgreement, Settled
<1> QED
  BY <1>1, <1>2, ItvlKept, PTL DEF Spec

-----------------------------------------------------------------------------
(* Types.                                                                     *)

\* Whatever NVS holds, the clamps order the two cycles and bound them.
LEMMA ClampsInRange ==
  ASSUME NEW mv \in Nat, NEW st \in Nat
  PROVE  /\ ClampMv(mv) \in CycleMin .. CycleMax
         /\ ClampSt(st, ClampMv(mv)) \in ClampMv(mv) .. CycleMax
BY DEF ClampMv, ClampSt, AtMost, AtLeast, CycleMin, CycleMax

CfgOK(c) == c.mv \in CycleMin .. CycleMax /\ c.st \in c.mv .. CycleMax

\* A range inside the limits of a cycle.
LEMMA RangeNarrows ==
  ASSUME NEW a \in CycleMin .. CycleMax, NEW b \in a .. CycleMax
  PROVE  b \in CycleMin .. CycleMax
<1>1. a \in Int /\ CycleMin =< a
  BY DEF CycleMin, CycleMax
<1>2. b \in Int /\ a =< b /\ b =< CycleMax
  BY <1>1 DEF CycleMax
<1>3. CycleMin \in Int /\ CycleMax \in Int
  BY DEF CycleMin, CycleMax
<1> QED  BY <1>1, <1>2, <1>3

\* The cycle of every state is bounded, ...
LEMMA CycleInRange ==
  ASSUME NEW c, CfgOK(c), NEW s
  PROVE  StateCycleMs(c, s) \in CycleMin .. CycleMax
<1>1. CASE s = "SAFE"
  <2>1. StateCycleMs(c, s) = SafeMs
    BY <1>1, Zenon DEF StateCycleMs
  <2> QED  BY <2>1 DEF SafeMs, CycleMin, CycleMax
<1>2. CASE s = "STATIONARY"
  <2>1. s # "SAFE"
    BY <1>2
  <2>2. StateCycleMs(c, s) = c.st
    BY <1>2, <2>1, Zenon DEF StateCycleMs
  <2>3. c.mv \in CycleMin .. CycleMax /\ c.st \in c.mv .. CycleMax
    BY DEF CfgOK
  <2>4. c.st \in CycleMin .. CycleMax
    BY <2>3, RangeNarrows
  <2> QED  BY <2>2, <2>4
<1>3. CASE s \notin {"SAFE", "STATIONARY"}
  <2>1. StateCycleMs(c, s) = c.mv
    BY <1>3, Zenon DEF StateCycleMs
  <2>2. c.mv \in CycleMin .. CycleMax
    BY DEF CfgOK
  <2> QED  BY <2>1, <2>2, Zenon
<1> QED  BY <1>1, <1>2, <1>3

\* ... and so are its controller units.
LEMMA UnitsInRange ==
  ASSUME NEW ms \in CycleMin .. CycleMax
  PROVE  ItvlUnits(ms) \in 0 .. UnitsMax
<1>1. ms \in Nat
  BY DEF CycleMin, CycleMax
<1>2. (ms * 8) \div 5 \in Nat
  BY <1>1
<1>3. ASSUME NEW n \in Nat PROVE AtMost(n, UnitsMax) \in 0 .. UnitsMax
  BY DEF AtMost, UnitsMax
<1> QED  BY <1>2, <1>3 DEF ItvlUnits

\* A counted time stays between zero and its bound.
LEMMA TimeInRange ==
  ASSUME NEW n \in 0 .. QuietMs, NEW d \in CycleMin .. CycleMax
  PROVE  AtMost(n + d, QuietMs) \in 0 .. QuietMs
BY KnobsAssumption DEF AtMost, CycleMin, CycleMax

Numbers ==
  /\ CfgOK(cfg)
  /\ cycleMs \in CycleMin .. CycleMax
  /\ quiet \in 0 .. QuietMs
  /\ sinceMotion \in 0 .. QuietMs
Radio ==
  /\ ctrlItvl \in 0 .. UnitsMax
  /\ itvlRead.min \in 0 .. UnitsMax /\ itvlRead.max \in 0 .. UnitsMax
  /\ ReadPair
Temperatures ==
  /\ ref \in [Channels -> Int]
  /\ last \in [Channels -> Int]
  /\ temp \in [Channels -> Temps]
Flags ==
  /\ itvlChanged \in BOOLEAN /\ refValid \in BOOLEAN
  /\ paused \in BOOLEAN /\ everStarted \in BOOLEAN
  /\ advOn \in BOOLEAN /\ kicked \in BOOLEAN
Places == state \in States /\ adv \in AdvSteps /\ nvs \in NvsSteps

TypeInv == Numbers /\ Radio /\ Temperatures /\ Flags /\ Places

LEMMA TypeInvIsTypeOK == TypeInv => TypeOK
BY DEF TypeInv, Numbers, Radio, Temperatures, Flags, Places, TypeOK, PolicyTypeOK, CfgOK

\* A measurement replaces valid temperatures by valid ones.
LEMMA MeasuredType ==
  ASSUME Temperatures, NEW ok
  PROVE  Measured(ok) \in [Channels -> Int]
BY KnobsAssumption DEF Temperatures, Measured

LEMMA TypeInit == Init => TypeInv
<1> SUFFICES ASSUME Init PROVE TypeInv
  OBVIOUS
<1> USE DEF Init, TasksInit
<1>1. PICK mv \in RawMvMs, st \in RawStMs, p \in Policies, sm \in SafeModes :
        /\ cfg = [mv |-> ClampMv(mv), st |-> ClampSt(st, ClampMv(mv))]
        /\ state = (IF sm THEN "SAFE" ELSE IF p = "FIXED" THEN "FIXED" ELSE "MOVING")
        /\ cycleMs = StateCycleMs(cfg, state)
        /\ itvlChanged = FALSE /\ quiet = 0 /\ refValid = FALSE
        /\ ref = [c \in Channels |-> 0]
        /\ last = [c \in Channels |-> 0]
        /\ temp \in [Channels -> Temps]
  BY DEF AdvManagerInit
<1>2. CfgOK(cfg)
  BY <1>1, ClampsInRange, KnobsAssumption DEF CfgOK
<1>3. Numbers
  BY <1>1, <1>2, CycleInRange, KnobsAssumption DEF Numbers
<1>4. Radio
  BY DEF Radio, ReadPair, UnitsMax
<1>5. Temperatures
  BY <1>1 DEF Temperatures
<1>6. Flags
  BY <1>1 DEF Flags
<1>7. Places
  BY <1>1 DEF Places, States, AdvSteps, NvsSteps
<1> QED  BY <1>3, <1>4, <1>5, <1>6, <1>7 DEF TypeInv

\* Every step preserves the types.
LEMMA TypeStep == TypeInv /\ [Next]_vars => TypeInv'
<1> SUFFICES ASSUME TypeInv, [Next]_vars PROVE TypeInv'
  OBVIOUS
<1> USE DEF TypeInv
<1> DEFINE CycleSteps == BootData \/ BootStart \/ BootMark \/ Check \/ StopForRestart
                           \/ Restart \/ SetData
<1>1. CASE CycleSteps
  <2> USE DEF BootData, BootStart, BootMark, Check, StopForRestart, Restart, SetData, StartAdv,
              policy, radio
  <2>1. Numbers'
    BY <1>1 DEF Numbers, CfgOK
  <2>2. Radio'
    BY <1>1, UnitsInRange DEF Radio, ReadPair, Numbers
  <2>3. Temperatures'
    BY <1>1, MeasuredType DEF Temperatures
  <2>4. Flags'
    BY <1>1 DEF Flags
  <2>5. Places'
    BY <1>1 DEF Places, AdvSteps
  <2> QED  BY <2>1, <2>2, <2>3, <2>4, <2>5
<1>2. CASE WaitCycle
  <2> USE DEF WaitCycle, TimePasses, radio
  <2>1. Numbers'
    BY <1>2, TimeInRange DEF Numbers, CfgOK
  <2>2. Radio' /\ Temperatures' /\ Flags' /\ Places'
    BY <1>2 DEF Radio, ReadPair, Temperatures, Flags, Places, AdvSteps
  <2> QED  BY <2>1, <2>2
<1>3. CASE Measure
  <2> USE DEF Measure, MeasureAndUpdate
  <2>1. Numbers'
    <3>1. cfg' = cfg /\ sinceMotion' \in 0 .. QuietMs
      BY <1>3, KnobsAssumption DEF Numbers
    <3>2. cycleMs' \in CycleMin .. CycleMax
      BY <1>3, CycleInRange DEF Numbers, UpdateMoving, UpdateStationary, UpdateFixed,
                                EnterState, StayInState
    <3>3. quiet' \in 0 .. QuietMs
      BY <1>3, KnobsAssumption DEF Numbers, UpdateMoving, UpdateStationary, UpdateFixed
    <3> QED  BY <3>1, <3>2, <3>3 DEF Numbers, CfgOK
  <2>2. Radio'
    BY <1>3 DEF Radio, ReadPair, radio
  <2>3. Temperatures'
    BY <1>3, MeasuredType DEF Temperatures, UpdateMoving, UpdateStationary, UpdateFixed
  <2>4. Flags'
    <3>1. itvlChanged' \in BOOLEAN
      BY <1>3, Zenon DEF Flags, UpdateMoving, UpdateStationary, UpdateFixed, EnterState, StayInState
    <3>2. refValid' \in BOOLEAN
      BY <1>3 DEF Flags, UpdateMoving, UpdateStationary, UpdateFixed
    <3> QED  BY <1>3, <3>1, <3>2 DEF Flags, radio
  <2>5. Places'
    BY <1>3 DEF Places, AdvSteps, States, UpdateMoving, UpdateStationary, UpdateFixed,
                EnterState, StayInState
  <2> QED  BY <2>1, <2>2, <2>3, <2>4, <2>5
<1>4. CASE Reboot
  <2>1. PICK mv \in RawMvMs, st \in RawStMs :
          cfg' = [mv |-> ClampMv(mv), st |-> ClampSt(st, ClampMv(mv))]
    BY <1>4 DEF Reboot
  <2>2. CfgOK(cfg')
    BY <2>1, ClampsInRange, KnobsAssumption DEF CfgOK
  <2>3. Numbers'
    BY <1>4, <2>2, CycleInRange, KnobsAssumption DEF Reboot, Numbers, CfgOK
  <2>4. Radio'
    <3>1. 0 \in 0 .. UnitsMax
      BY DEF UnitsMax
    <3>2. itvlRead' = [min |-> 0, max |-> 0] /\ ctrlItvl' = 0
      BY <1>4 DEF Reboot
    <3> QED  BY <3>1, <3>2 DEF Radio, ReadPair
  <2>5. Temperatures'
    BY <1>4 DEF Reboot, Temperatures
  <2>6. Flags'
    BY <1>4 DEF Reboot, Flags
  <2>7. Places'
    BY <1>4 DEF Reboot, Places, States, AdvSteps, NvsSteps
  <2> QED  BY <2>3, <2>4, <2>5, <2>6, <2>7
<1>5. CASE PauseFlag \/ NvsTask
  <2> USE DEF PauseFlag, NvsTask, PauseStop, Commit, ResumeFlag, ReadMin, ReadMax, ResumeStart,
              NvsLocal, policy, radio
  <2>1. Numbers'
    <3>1. UNCHANGED <<cfg, cycleMs, quiet, sinceMotion>>
      BY <1>5
    <3> QED  BY <3>1 DEF Numbers, CfgOK
  <2>2. Radio'
    <3>1. ItvlUnits(cycleMs) \in 0 .. UnitsMax
      BY UnitsInRange DEF Numbers
    <3>2. 0 \in 0 .. UnitsMax
      BY DEF UnitsMax
    <3>3. CASE PauseFlag \/ PauseStop \/ Commit \/ ResumeFlag
      BY <3>3 DEF Radio, ReadPair
    <3>4. CASE ReadMin
      BY <3>1, <3>4 DEF Radio, ReadPair
    <3>5. CASE ReadMax
      BY <3>1, <3>5 DEF Radio, ReadPair
    <3>6. CASE ResumeStart
      BY <3>2, <3>6 DEF Radio, ReadPair
    <3> QED  BY <1>5, <3>3, <3>4, <3>5, <3>6
  <2>3. Temperatures' /\ Places'
    BY <1>5 DEF Temperatures, Places, NvsSteps
  <2>4. Flags'
    BY <1>5 DEF Flags
  <2> QED  BY <2>1, <2>2, <2>3, <2>4
<1>6. CASE UNCHANGED vars
  BY <1>6 DEF vars, policy, radio, Numbers, CfgOK, Radio, ReadPair, Temperatures, Flags, Places
<1>7. CASE MonitorReboot
  BY <1>7 DEF MonitorReboot, policy, radio, Numbers, CfgOK, Radio, ReadPair, Temperatures, Flags, Places,
              AdvSteps
<1> QED  BY <1>1, <1>2, <1>3, <1>4, <1>5, <1>6, <1>7 DEF Next, AdvTask

\* Whatever NVS holds, cycle and interval stay inside their limits.
THEOREM TypeCorrect == Spec => []TypeOK
<1> QED  BY TypeInit, TypeStep, TypeInvIsTypeOK, PTL DEF Spec

-----------------------------------------------------------------------------
(* The quiet period.  An adaptive node counts no more quiet time than has     *)
(* passed since motion was last measured.                                     *)

QuietIsEarned == state \in {"MOVING", "STATIONARY"} => quiet =< sinceMotion

LEMMA QuietKept == TypeInv /\ QuietIsEarned /\ [Next]_vars => QuietIsEarned'
<1> SUFFICES ASSUME TypeInv, QuietIsEarned, [Next]_vars PROVE QuietIsEarned'
  OBVIOUS
<1> USE DEF QuietIsEarned
<1>1. CASE WaitCycle
  BY <1>1, KnobsAssumption DEF WaitCycle, TimePasses, AtMost, TypeInv, Numbers, CycleMin, CycleMax
<1>2. CASE Measure
  <2>1. PICK motion \in BOOLEAN, ok \in SUBSET Channels :
          /\ MeasureAndUpdate(motion, ok)
          /\ sinceMotion' = (IF motion THEN 0 ELSE sinceMotion)
    BY <1>2 DEF Measure
  <2>2. quiet \in Nat /\ sinceMotion \in Nat
    BY KnobsAssumption DEF TypeInv, Numbers
  <2>3. CASE UpdateMoving(motion, Measured(ok))
    BY <2>1, <2>2, <2>3 DEF UpdateMoving
  <2>4. CASE UpdateStationary(motion, Measured(ok))
    BY <2>1, <2>2, <2>4 DEF UpdateStationary
  <2>5. CASE UpdateFixed
    BY <2>5 DEF UpdateFixed
  <2> QED  BY <2>1, <2>3, <2>4, <2>5 DEF MeasureAndUpdate
<1>3. CASE Reboot
  BY <1>3 DEF Reboot
<1>4. CASE UNCHANGED <<state, quiet, sinceMotion>>
  BY <1>4
<1> QED
  BY <1>1, <1>2, <1>3, <1>4
  DEF Next, AdvTask, NvsTask, vars, policy, NvsLocal, BootData, BootStart, BootMark, Check,
      StopForRestart, Restart, SetData, MonitorReboot, PauseFlag, PauseStop, Commit, ResumeFlag, ReadMin,
      ReadMax, ResumeStart

\* The node becomes STATIONARY only after quiet_ms without motion, whatever the
\* knobs, the channels and the failures of their reads.
THEOREM StationaryIsEarned == Spec => StationaryAfterQuiet
<1> DEFINE Earned == state = "MOVING" /\ state' = "STATIONARY" => sinceMotion' >= QuietMs
<1>1. Init => QuietIsEarned
  BY DEF Init, AdvManagerInit, TasksInit, QuietIsEarned
<1>2. TypeInv /\ QuietIsEarned /\ [Next]_vars => [Earned]_vars
  <2> SUFFICES ASSUME TypeInv, QuietIsEarned, [Next]_vars, state = "MOVING", state' = "STATIONARY"
               PROVE  sinceMotion' >= QuietMs
    OBVIOUS
  <2>1. CASE Measure
    BY <2>1, KnobsAssumption
    DEF Measure, MeasureAndUpdate, UpdateMoving, UpdateStationary, UpdateFixed, EnterState,
        StayInState, QuietIsEarned, TypeInv, Numbers
  <2>2. CASE Reboot
    <3>1. state' # "STATIONARY"
      BY <2>2 DEF Reboot
    <3> QED  BY <3>1
  <2>3. CASE UNCHANGED state
    BY <2>3
  <2> QED
    BY <2>1, <2>2, <2>3
    DEF Next, AdvTask, NvsTask, vars, policy, NvsLocal, BootData, BootStart, BootMark, WaitCycle,
        Check, StopForRestart, Restart, SetData, MonitorReboot, PauseFlag, PauseStop, Commit, ResumeFlag,
        ReadMin, ReadMax, ResumeStart
<1> QED
  BY <1>1, <1>2, TypeInit, TypeStep, QuietKept, PTL DEF Spec, StationaryAfterQuiet

-----------------------------------------------------------------------------
(* The temperature band.  The reference of a STATIONARY node is frozen and     *)
(* every measurement that left the band would have ended the state.            *)

InBand == \A c \in Channels : DtX100 > 0 => Dist(last[c], ref[c]) < DtX100

BandInv == state = "STATIONARY" => adv \notin Booting /\ refValid /\ InBand

LEMMA BandKept == TypeInv /\ BandInv /\ [Next]_vars => BandInv'
<1> SUFFICES ASSUME TypeInv, BandInv, [Next]_vars, state' = "STATIONARY"
             PROVE  adv' \notin Booting /\ refValid' /\ InBand'
  BY DEF BandInv
<1>1. CASE Measure
  <2>1. PICK motion \in BOOLEAN, ok \in SUBSET Channels : MeasureAndUpdate(motion, ok)
    BY <1>1 DEF Measure
  <2> DEFINE t == Measured(ok)
  <2>2. last' = t /\ t \in [Channels -> Int] /\ ref \in [Channels -> Int]
    BY <2>1, MeasuredType DEF MeasureAndUpdate, TypeInv, Temperatures
  <2>3. adv' \notin Booting
    BY <1>1 DEF Measure, Booting
  <2> HIDE DEF t
  <2>4. CASE UpdateMoving(motion, t)
    <3>1. ref' = t /\ refValid'
      BY <2>4 DEF UpdateMoving
    <3> QED  BY <2>2, <2>3, <3>1 DEF InBand, Dist
  <2>5. CASE UpdateStationary(motion, t)
    <3>1. state = "STATIONARY" /\ ref' = ref /\ refValid' = refValid /\ ~TempEvent(t)
      BY <2>5 DEF UpdateStationary, EnterState
    <3>2. refValid
      BY <3>1 DEF BandInv
    <3>3. \A c \in Channels : ~(Dist(t[c], ref[c]) >= DtX100)
      BY <3>1, <3>2 DEF TempEvent
    <3>4. InBand'
      BY <2>2, <3>1, <3>3, KnobsAssumption DEF InBand, Dist
    <3> QED  BY <2>3, <3>1, <3>2, <3>4
  <2>6. CASE UpdateFixed
    BY <2>6 DEF UpdateFixed
  <2> QED  BY <2>1, <2>4, <2>5, <2>6 DEF MeasureAndUpdate, t
<1>2. CASE Reboot
  BY <1>2 DEF Reboot
<1>3. CASE BootData \/ BootStart \/ BootMark
  BY <1>3 DEF BandInv, BootData, BootStart, BootMark, policy, Booting
<1>4. CASE UNCHANGED <<state, ref, refValid, last>> /\ adv' \notin Booting
  BY <1>4 DEF BandInv, InBand
<1>5. CASE UNCHANGED <<state, ref, refValid, last, adv>>
  BY <1>5 DEF BandInv, InBand
<1> QED
  BY <1>1, <1>2, <1>3, <1>4, <1>5
  DEF Next, AdvTask, NvsTask, vars, policy, NvsLocal, WaitCycle, Check, StopForRestart, Restart,
      StartAdv, SetData, MonitorReboot, Booting, PauseFlag, PauseStop, Commit, ResumeFlag, ReadMin, ReadMax, ResumeStart

\* A STATIONARY node is always within dt_x100 of the reference it froze.
THEOREM StationaryInBand == Spec => []StationaryTempBand
<1>1. Init => BandInv
  BY DEF Init, AdvManagerInit, TasksInit, BandInv
<1>2. BandInv => StationaryTempBand
  BY DEF BandInv, InBand, StationaryTempBand
<1> QED
  BY <1>1, <1>2, TypeInit, TypeStep, BandKept, PTL DEF Spec
=============================================================================
