------------------------------ MODULE AdvCycle ------------------------------
(***************************************************************************)
(* The advertising cycle task (ble/ble_adv.c) and a task that commits to   *)
(* flash through nvs_safe.c, over the policy of AdvManager.                *)
(*                                                                         *)
(* The two tasks share s_adv_paused, s_adv_ever_started, the interval of   *)
(* the policy and the BLE controller.  Every access to shared state is a   *)
(* step of its own.  A call into the controller may fail.                  *)
(***************************************************************************)
EXTENDS AdvManager

VARIABLES
  adv,          \* where adv_cycle_task is
  nvs,          \* where nvs_safe_commit is
  paused,       \* s_adv_paused
  everStarted,  \* s_adv_ever_started
  advOn,        \* the controller advertises
  ctrlItvl,     \* with this interval
  itvlRead,     \* the two reads of the interval in ble_adv_resume
  kicked,       \* the last set_data succeeded: WDT_HB_ADV was kicked
  sinceMotion   \* history: time since motion was measured, up to QuietMs

radio == <<advOn, ctrlItvl>>
vars == <<policy, last, temp, adv, nvs, paused, everStarted, radio,
          itvlRead, kicked, sinceMotion>>

AdvSteps == {"bootData", "bootStart", "bootMark", "wait", "measure", "check",
             "stop", "start", "data", "reboot"}
NvsSteps == {"idle", "pauseStop", "commit", "unpause", "readMin", "readMax", "restart"}

TypeOK ==
  /\ PolicyTypeOK
  /\ adv \in AdvSteps /\ nvs \in NvsSteps
  /\ paused \in BOOLEAN /\ everStarted \in BOOLEAN /\ advOn \in BOOLEAN
  /\ ctrlItvl \in 0 .. UnitsMax
  /\ itvlRead.min \in 0 .. UnitsMax /\ itvlRead.max \in 0 .. UnitsMax
  /\ kicked \in BOOLEAN
  /\ sinceMotion \in 0 .. QuietMs

TasksInit ==
  /\ adv = "bootData" /\ nvs = "idle"
  /\ paused = FALSE /\ everStarted = FALSE
  /\ advOn = FALSE /\ ctrlItvl = 0
  /\ itvlRead = [min |-> 0, max |-> 0]
  /\ kicked = FALSE
  /\ sinceMotion = 0

Init == AdvManagerInit /\ TasksInit

(***************************************************************************)
(* adv_cycle_task.                                                         *)
(***************************************************************************)
\* The first measurement, which the policy does not see, and set_data.
BootData ==
  /\ adv = "bootData"
  /\ \E ok \in SUBSET Channels : last' = Measured(ok)
  /\ adv' \in {"bootStart", "reboot"}
  /\ UNCHANGED <<policy, temp, nvs, paused, everStarted, radio, itvlRead,
                 kicked, sinceMotion>>

\* adv_start_current of the advertising task: it fails when the controller
\* already advertises, and may fail otherwise.
StartAdv(next) ==
  \/ /\ ~advOn
     /\ advOn' = TRUE
     /\ ctrlItvl' = ItvlUnits(cycleMs)
     /\ adv' = next
  \/ /\ adv' = "reboot"
     /\ UNCHANGED radio

BootStart ==
  /\ adv = "bootStart"
  /\ StartAdv("bootMark")
  /\ UNCHANGED <<policy, last, temp, nvs, paused, everStarted, itvlRead,
                 kicked, sinceMotion>>

BootMark ==
  /\ adv = "bootMark"
  /\ everStarted' = TRUE
  /\ kicked' = TRUE
  /\ adv' = "wait"
  /\ UNCHANGED <<policy, last, temp, nvs, paused, radio, itvlRead, sinceMotion>>

\* wait_cycle: one cycle passes, the environment changes.
WaitCycle ==
  /\ adv = "wait"
  /\ adv' = "measure"
  /\ \E now \in [Channels -> Temps] : TimePasses(now)
  /\ sinceMotion' = AtMost(sinceMotion + cycleMs, QuietMs)
  /\ UNCHANGED <<cfg, state, cycleMs, itvlChanged, ref, refValid, last, nvs, paused,
                 everStarted, radio, itvlRead, kicked>>

Measure ==
  /\ adv = "measure"
  /\ adv' = "check"
  /\ \E motion \in BOOLEAN, ok \in SUBSET Channels :
       /\ MeasureAndUpdate(motion, ok)
       /\ sinceMotion' = (IF motion THEN 0 ELSE sinceMotion)
  /\ UNCHANGED <<nvs, paused, everStarted, radio, itvlRead, kicked>>

\* Mutant: the flag is taken before the pause is looked at.
CheckTakesFirst ==
  /\ adv = "check"
  /\ itvlChanged' = FALSE
  /\ adv' = (IF itvlChanged /\ ~paused THEN "stop" ELSE "data")
  /\ UNCHANGED <<cfg, state, cycleMs, quiet, ref, refValid, last, temp, nvs, paused,
                 everStarted, radio, itvlRead, kicked, sinceMotion>>

\* !s_adv_paused && adv_manager_take_itvl_changed(): only this task touches
\* the flag of the policy, so reading and clearing it is one step.
Check ==
  /\ adv = "check"
  /\ itvlChanged' = (itvlChanged /\ paused)
  /\ adv' = (IF itvlChanged /\ ~paused THEN "stop" ELSE "data")
  /\ UNCHANGED <<cfg, state, cycleMs, quiet, ref, refValid, last, temp, nvs, paused,
                 everStarted, radio, itvlRead, kicked, sinceMotion>>

\* ble_gap_adv_stop, whose result is not looked at.
StopForRestart ==
  /\ adv = "stop"
  /\ adv' = "start"
  /\ advOn' \in {FALSE, advOn}
  /\ UNCHANGED <<policy, last, temp, nvs, paused, everStarted, ctrlItvl, itvlRead,
                 kicked, sinceMotion>>

Restart ==
  /\ adv = "start"
  /\ StartAdv("data")
  /\ UNCHANGED <<policy, last, temp, nvs, paused, everStarted, itvlRead, kicked, sinceMotion>>

\* Encoding and set_data; the heartbeat is kicked when both succeed.
SetData ==
  /\ adv = "data"
  /\ kicked' \in BOOLEAN
  /\ adv' = "wait"
  /\ UNCHANGED <<policy, last, temp, nvs, paused, everStarted, radio, itvlRead, sinceMotion>>

\* esp_restart: every static variable is initialised again.
Reboot ==
  /\ adv = "reboot"
  /\ \E mv \in RawMvMs, st \in RawStMs : cfg' = [mv |-> ClampMv(mv), st |-> ClampSt(st, ClampMv(mv))]
  /\ \E p \in Policies, sm \in SafeModes :
       state' = (IF sm THEN "SAFE" ELSE IF p = "FIXED" THEN "FIXED" ELSE "MOVING")
  /\ cycleMs' = StateCycleMs(cfg', state')
  /\ itvlChanged' = FALSE /\ quiet' = 0 /\ refValid' = FALSE
  /\ ref' = [c \in Channels |-> 0] /\ last' = [c \in Channels |-> 0]
  /\ UNCHANGED temp
  /\ adv' = "bootData" /\ nvs' = "idle"
  /\ paused' = FALSE /\ everStarted' = FALSE
  /\ advOn' = FALSE /\ ctrlItvl' = 0
  /\ itvlRead' = [min |-> 0, max |-> 0]
  /\ kicked' = FALSE
  /\ sinceMotion' = 0

\* The heartbeat watchdog (HeartbeatWatch): updates that fail leave the ADV
\* slot without a kick until the monitor reboots the node.  How many it takes
\* is a matter of time, which is left out here.
MonitorReboot ==
  /\ ~kicked /\ adv # "reboot"
  /\ adv' = "reboot"
  /\ UNCHANGED <<policy, last, temp, nvs, paused, everStarted, radio, itvlRead,
                 kicked, sinceMotion>>

(***************************************************************************)
(* nvs_safe_commit, in another task.                                       *)
(***************************************************************************)
NvsLocal == UNCHANGED <<policy, last, temp, adv, everStarted, kicked, sinceMotion>>

\* ble_adv_pause: the flag ...
PauseFlag ==
  /\ nvs = "idle" /\ adv # "reboot"
  /\ paused' = TRUE
  /\ nvs' = "pauseStop"
  /\ NvsLocal /\ UNCHANGED <<radio, itvlRead>>

\* ... and the stop, which may fail: the commit goes on anyway.
PauseStop ==
  /\ nvs = "pauseStop" /\ adv # "reboot"
  /\ nvs' = "commit"
  /\ IF everStarted THEN advOn' \in {FALSE, advOn} ELSE UNCHANGED advOn
  /\ NvsLocal /\ UNCHANGED <<ctrlItvl, paused, itvlRead>>

Commit ==
  /\ nvs = "commit" /\ adv # "reboot"
  /\ nvs' = "unpause"
  /\ NvsLocal /\ UNCHANGED <<radio, paused, itvlRead>>

\* Mutant: ble_adv_resume leaves the flag set.
ResumeFlagKept ==
  /\ nvs = "unpause" /\ adv # "reboot"
  /\ nvs' = (IF everStarted THEN "readMin" ELSE "idle")
  /\ NvsLocal /\ UNCHANGED <<radio, paused, itvlRead>>

\* ble_adv_resume: the flag, ...
ResumeFlag ==
  /\ nvs = "unpause" /\ adv # "reboot"
  /\ paused' = FALSE
  /\ nvs' = (IF everStarted THEN "readMin" ELSE "idle")
  /\ NvsLocal /\ UNCHANGED <<radio, itvlRead>>

\* ... the two reads of the interval in adv_start_current, ...
ReadMin ==
  /\ nvs = "readMin" /\ adv # "reboot"
  /\ itvlRead' = [itvlRead EXCEPT !.min = ItvlUnits(cycleMs)]
  /\ nvs' = "readMax"
  /\ NvsLocal /\ UNCHANGED <<radio, paused>>

ReadMax ==
  /\ nvs = "readMax" /\ adv # "reboot"
  /\ itvlRead' = [itvlRead EXCEPT !.max = ItvlUnits(cycleMs)]
  /\ nvs' = "restart"
  /\ NvsLocal /\ UNCHANGED <<radio, paused>>

\* ... and the start.  The controller refuses a minimum above the maximum
\* and chooses within the range; a failure is only logged.
ResumeStart ==
  /\ nvs = "restart" /\ adv # "reboot"
  /\ nvs' = "idle"
  /\ \/ /\ ~advOn
        /\ itvlRead.min =< itvlRead.max
        /\ advOn' = TRUE
        /\ ctrlItvl' \in {itvlRead.min, itvlRead.max}
     \/ UNCHANGED radio
  /\ itvlRead' = [min |-> 0, max |-> 0]
  /\ NvsLocal /\ UNCHANGED <<paused>>

AdvTask ==
  \/ BootData \/ BootStart \/ BootMark
  \/ WaitCycle \/ Measure \/ Check \/ StopForRestart \/ Restart \/ SetData
NvsTask ==
  \/ PauseStop \/ Commit \/ ResumeFlag \/ ReadMin \/ ReadMax \/ ResumeStart

Next == AdvTask \/ MonitorReboot \/ Reboot \/ PauseFlag \/ NvsTask

Spec == Init /\ [][Next]_vars

\* Both tasks are scheduled; a commit that began goes on to its end; the
\* monitor reboots a node whose updates never succeed.  Nothing makes a
\* commit begin.
FairSpec ==
  /\ Spec
  /\ WF_vars(AdvTask) /\ WF_vars(NvsTask)
  /\ WF_vars(MonitorReboot) /\ WF_vars(Reboot)

(***************************************************************************)
(* Properties.                                                             *)
(***************************************************************************)

\* While the node is STATIONARY the last valid temperatures stay within
\* dt_x100 of the reference that was frozen on entry: a slow drift is not
\* lost, it adds up against the frozen reference until it wakes the policy.
StationaryTempBand ==
  state = "STATIONARY" /\ adv \in {"check", "stop", "start", "data", "wait"} =>
    refValid /\ \A c \in Channels : DtX100 > 0 => Dist(last[c], ref[c]) < DtX100

\* The node becomes STATIONARY only after quiet_ms without motion, whatever
\* it did meanwhile (boot, promotion by temperature, failing reads).
StationaryAfterQuiet ==
  [][state = "MOVING" /\ state' = "STATIONARY" => sinceMotion' >= QuietMs]_vars

\* The controller never keeps an interval other than the one the policy
\* asks for unless the restart is still owed: a commit that pauses
\* advertising in the middle of a change of state does not lose the change.
IntervalAgreement ==
  adv = "wait" /\ nvs = "idle" /\ advOn =>
    ctrlItvl = ItvlUnits(cycleMs) \/ itvlChanged

\* A change of interval reaches the controller in the end, unless the node
\* reboots, however many commits hold it back: it is enough that the task
\* looks at the flag, again and again, while no commit is under way
\* (ble_adv.c:198-200: the flag is left for the cycle after the resume).
IntervalIsApplied ==
  []<><<Check /\ nvs = "idle">>_vars =>
    (itvlChanged ~> (advOn /\ ctrlItvl = ItvlUnits(cycleMs)) \/ adv = "reboot")

\* What nvs_safe.h:25-26 and nvs_safe.c:29-31 say of a resume that fails: the
\* heartbeat watchdog recovers it.  A node that a commit left silent
\* advertises again or reboots.
SilenceIsRecovered ==
  (adv = "wait" /\ nvs = "idle" /\ ~advOn) ~> (advOn \/ adv = "reboot")
=============================================================================
