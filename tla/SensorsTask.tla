---------------------------- MODULE SensorsTask -----------------------------
(***************************************************************************)
(* The delivery path end to end: SensorsTask::executeTask() on the HP core *)
(* composed with the LP program (LpCore) and the publish task              *)
(* (PublishTask).                                                          *)
(*                                                                         *)
(* One pass of the task's loop is HpGate (which ends in get_state()), one  *)
(* of HpOtaBusy / HpStalled / HpPublish / HpQuiet, the wait for the publish*)
(* task, HpWrap (the two reboot supervisors) and the wait for a wake.      *)
(* Time is counted in LP poll intervals (`ticks`): the LP timer fires once *)
(* per interval, a heater run spans several, and the task's wait ends      *)
(* after a fixed number of them.  The HP core is a single core and the     *)
(* sensor task has the higher priority, so the publish task runs only      *)
(* while the sensor task is blocked.                                       *)
(***************************************************************************)
EXTENDS LpCore, PublishTask

CONSTANTS
  HeaterPolls, \* bound: poll intervals one heater run may last
  AwakePolls   \* bound: poll intervals one awake pass may last

ASSUME TimeAssumption == HeaterPolls \in Nat /\ AwakePolls \in Nat

VARIABLES
  hpPc,            \* where executeTask() is
  wakeReason,
  lastSeen,        \* m_lastSeenHeartbeat
  pass,            \* locals of the current pass
  lpStalledCycles, \* m_lpStalledCycles
  badCycles,       \* m_cyclesUnconfirmedAndFailing
  imgPending,      \* the running image is PENDING_VERIFY
  earlyWake,       \* BIT_EARLY_WAKE
  otaRetryWait,    \* the current wait is one poll, not the safeguard window
  ticks,           \* poll intervals since the current wait or pass began
  heaterTicks,     \* poll intervals the current heater run has lasted
  lpDead,          \* the LP timer or program has stopped
  handled,         \* history: results the task treated as flagged
  rebootCause,     \* history: why the chip is restarting
  disturbed        \* history: has a wakeup been lost or a measurement failed?

hpVarsAll == <<hpPc, wakeReason, lastSeen, pass, lpStalledCycles, badCycles,
               imgPending, earlyWake, otaRetryWait, ticks, heaterTicks, lpDead,
               handled, rebootCause>>
allVars == <<vars, pubVars, hpVarsAll, disturbed>>

(* Mutant: one stalled wake is enough.                                     *)
MutLpStallRebootThreshold == 1

(* LP_STALL_REBOOT_THRESHOLD, UNCONFIRMED_OTA_REBOOT_AFTER_CYCLES          *)
LpStallRebootThreshold == 2
UnconfirmedOtaRebootAfterCycles == 5

(* Mutant: a safeguard window without its margin.                          *)
MutSafeguardPolls == BootConfig["max_skip_cycles"]

(* safeguardWakeSec() in poll intervals: computed from the boot's          *)
(* settings, not from the configuration the LP core currently runs with.   *)
SafeguardPolls == BootConfig["max_skip_cycles"] + 3

NewPass == [attached |-> FALSE, otaOnly |-> FALSE, tried |-> FALSE,
            publishedOk |-> FALSE, quiet |-> FALSE, stalled |-> FALSE,
            progressed |-> FALSE]

(* The RAM state of a booting HP core; imgPending is in flash.             *)
HpInit ==
  /\ hpPc = "gate"
  /\ wakeReason = "LpWake"
  /\ lastSeen = 0
  /\ pass = NewPass
  /\ lpStalledCycles = 0
  /\ badCycles = 0
  /\ earlyWake = FALSE
  /\ otaRetryWait = FALSE
  /\ ticks = 0
  /\ heaterTicks = 0
  /\ lpDead = FALSE
  /\ handled = {}
  /\ rebootCause = "none"
  /\ disturbed = FALSE

TaskInit == LpInit /\ PubInit /\ HpInit /\ imgPending \in BOOLEAN

(* The task is blocked on an event group: light sleep is possible and the  *)
(* publish task can run.                                                   *)
Blocked == hpPc \in {"gate", "waitIdle", "wait"}

-----------------------------------------------------------------------------
(* The attach gate; an attached pass goes on to get_state().               *)
HpGate ==
  /\ hpPc = "gate"
  /\ \/ /\ pass' = [NewPass EXCEPT !.attached = TRUE]
        /\ hpPc' = "read"
        /\ GetState
        /\ rdPc' = "fell" => "fall" \in Env
     \/ /\ "attach" \in Env
        /\ pass' = NewPass
        /\ hpPc' = "wrap"
        /\ UNCHANGED vars
  /\ UNCHANGED <<pubVars, wakeReason, lastSeen, lpStalledCycles, badCycles,
                 imgPending, earlyWake, otaRetryWait, ticks, heaterTicks,
                 lpDead, handled, rebootCause>>

(* The snapshot is in; every branch below first records its heartbeat.     *)
SnapshotTaken == hpPc = "read"

(* Mutant: a result counts as progress only two polls later.               *)
MutProgressed == out["heartbeat_counter"] > lastSeen + 1

(* heartbeatDelta is an unsigned difference: positive iff they differ.     *)
Progressed == out["heartbeat_counter"] # lastSeen
(* Mutant: the flag is believed without progress.                          *)
MutShouldWake == out["should_wake_hp"] # 0

ShouldWake == Progressed /\ out["should_wake_hp"] # 0

(* What identifies a result in the history.                                *)
Seen(s) == [poll |-> s["heartbeat_counter"], r |-> CalReading(s)]

Serviced(p, pc) ==
  /\ SnapshotTaken
  /\ lastSeen' = out["heartbeat_counter"]
  /\ pass' = [p EXCEPT !.progressed = Progressed]
  /\ hpPc' = pc
  /\ UNCHANGED <<vars, wakeReason, lpStalledCycles, badCycles, imgPending,
                 earlyWake, otaRetryWait, ticks, heaterTicks, lpDead,
                 rebootCause>>

HpOtaBusy ==
  /\ otaActive
  /\ Serviced([pass EXCEPT !.quiet = TRUE], "wrap")
  /\ UNCHANGED <<pubVars, handled>>

StallSuspected == wakeReason = "Safeguard" /\ ~Progressed

HpStalled ==
  /\ ~otaActive
  /\ StallSuspected
  /\ Serviced([pass EXCEPT !.stalled = TRUE], "wrap")
  /\ UNCHANGED <<pubVars, handled>>

(* A flagged value, or a staged update without one: m_readyEvent starts a  *)
(* publish task, and the pass waits for it if one is running.              *)
HpPublish ==
  /\ ~otaActive
  /\ ~StallSuspected
  /\ ShouldWake \/ otaDue
  /\ SendSensorData([otaOnly |-> ~ShouldWake,
                     r |-> IF ShouldWake THEN CalReading(out) ELSE ZeroReading])
  /\ Serviced([pass EXCEPT !.otaOnly = ~ShouldWake, !.tried = ShouldWake],
              IF s_task_running' THEN "waitIdle" ELSE "wrap")
  /\ handled' = IF ShouldWake THEN handled \cup {Seen(out)} ELSE handled

HpQuiet ==
  /\ ~otaActive
  /\ ~StallSuspected
  /\ ~ShouldWake /\ ~otaDue
  /\ Serviced([pass EXCEPT !.quiet = TRUE], "wrap")
  /\ UNCHANGED <<pubVars, handled>>

-----------------------------------------------------------------------------
(* Mutant: the value is acknowledged and the image confirmed whenever the  *)
(* publish task ended, however it did.                                     *)
MutIdleTrusts ==
  /\ hpPc = "waitIdle"
  /\ idleBit
  /\ pass' = [pass EXCEPT !.publishedOk = TRUE]
  /\ imgPending' = FALSE
  /\ IF pass.otaOnly THEN hpPc' = "wrap" /\ UNCHANGED vars
     ELSE hpPc' = "ack" /\ AckTemp(out)
  /\ UNCHANGED <<pubVars, wakeReason, lastSeen, lpStalledCycles, badCycles,
                 earlyWake, otaRetryWait, ticks, heaterTicks, lpDead, handled,
                 rebootCause>>

(* Mutant: a failed publish is not logged.                                 *)
MutIdleForgets ==
  /\ hpPc = "waitIdle"
  /\ idleBit
  /\ pass' = [pass EXCEPT !.publishedOk = s_last_ok]
  /\ imgPending' = (imgPending /\ ~s_last_ok)
  /\ IF s_last_ok /\ ~pass.otaOnly THEN hpPc' = "ack" /\ AckTemp(out)
     ELSE hpPc' = "wrap" /\ UNCHANGED vars
  /\ UNCHANGED <<pubVars, wakeReason, lastSeen, lpStalledCycles, badCycles,
                 earlyWake, otaRetryWait, ticks, heaterTicks, lpDead, handled,
                 rebootCause>>

(* mqtt_wait_for_idle() returned true: the outcome of the last publish     *)
(* decides between acknowledging the value and logging it.                 *)
HpIdle ==
  /\ hpPc = "waitIdle"
  /\ idleBit
  /\ pass' = [pass EXCEPT !.publishedOk = s_last_ok]
  /\ imgPending' = (imgPending /\ ~s_last_ok)
  /\ \/ /\ s_last_ok /\ ~pass.otaOnly
        /\ AckTemp(out)
        /\ hpPc' = "ack"
        /\ UNCHANGED backlog
     \/ /\ s_last_ok /\ pass.otaOnly
        /\ hpPc' = "wrap"
        /\ UNCHANGED <<vars, backlog>>
     \/ /\ ~s_last_ok
        /\ backlog' = IF pass.otaOnly THEN backlog ELSE backlog \cup {CalReading(out)}
        /\ hpPc' = "wrap"
        /\ UNCHANGED vars
  /\ UNCHANGED <<handoff, pubPc, job, jobOk, delivered, otaDue, otaActive,
                 wakeReason, lastSeen, lpStalledCycles, badCycles, earlyWake,
                 otaRetryWait, ticks, heaterTicks, lpDead, handled, rebootCause>>

(* ... or timed out: nothing is acknowledged and nothing is logged.        *)
HpIdleTimeout ==
  /\ hpPc = "waitIdle"
  /\ ~idleBit
  /\ otaActive \/ "stall" \in Env
  /\ hpPc' = "wrap"
  /\ UNCHANGED <<vars, pubVars, wakeReason, lastSeen, pass, lpStalledCycles,
                 badCycles, imgPending, earlyWake, otaRetryWait, ticks,
                 heaterTicks, lpDead, handled, rebootCause>>

HpAckStep ==
  /\ hpPc = "ack"
  /\ \/ AckHum /\ hpPc' = "ack"
     \/ AckSeq /\ hpPc' = "wrap"
  /\ UNCHANGED <<pubVars, wakeReason, lastSeen, pass, lpStalledCycles,
                 badCycles, imgPending, earlyWake, otaRetryWait, ticks,
                 heaterTicks, lpDead, handled, rebootCause>>

-----------------------------------------------------------------------------
(* The end of a pass: the LP-stall supervisor, the unconfirmed-image       *)
(* safety net, and the choice of the next wait.                            *)
CycleOk == pass.publishedOk \/ (pass.attached /\ pass.quiet) \/ otaActive

(* Mutant: stalled passes do not add up.                                   *)
MutStalledCycles == IF pass.stalled THEN 1 ELSE 0

StalledCycles ==
  IF pass.stalled THEN lpStalledCycles + 1
  ELSE IF pass.progressed THEN 0 ELSE lpStalledCycles

BadCycles == IF imgPending /\ ~CycleOk THEN badCycles + 1 ELSE 0

StallReboot == pass.stalled /\ StalledCycles >= LpStallRebootThreshold
UnconfirmedReboot ==
  imgPending /\ ~CycleOk /\ BadCycles >= UnconfirmedOtaRebootAfterCycles

HpWrap ==
  /\ hpPc = "wrap"
  /\ lpStalledCycles' = StalledCycles
  /\ badCycles' = BadCycles
  /\ \/ /\ StallReboot
        /\ hpPc' = "reboot" /\ rebootCause' = "stall"
        /\ UNCHANGED <<otaRetryWait, ticks>>
     \/ /\ ~StallReboot /\ UnconfirmedReboot
        /\ hpPc' = "reboot" /\ rebootCause' = "unconfirmed"
        /\ UNCHANGED <<otaRetryWait, ticks>>
     \/ /\ ~StallReboot /\ ~UnconfirmedReboot
        /\ hpPc' = "wait"
        /\ otaRetryWait' = (otaDue /\ ~otaActive)
        /\ ticks' = 0
        /\ UNCHANGED rebootCause
  /\ UNCHANGED <<vars, pubVars, wakeReason, lastSeen, pass, imgPending,
                 earlyWake, heaterTicks, lpDead, handled>>

(* lp_sensor_core_wait_for_wake() returns on the wake bit, which it        *)
(* clears, or on its timeout.                                              *)
Wake(reason) ==
  /\ wakeReason' = reason
  /\ hpPc' = "gate"
  /\ ticks' = 0
  /\ UNCHANGED <<vars, pubVars, lastSeen, pass, lpStalledCycles, badCycles,
                 imgPending, otaRetryWait, heaterTicks, lpDead, handled,
                 rebootCause>>

WaitPolls == IF otaRetryWait THEN 1 ELSE SafeguardPolls

HpWake == hpPc = "wait" /\ earlyWake /\ earlyWake' = FALSE /\ Wake("LpWake")

(* Mutant: a timeout only starts the next wait.                            *)
MutTimeout ==
  /\ hpPc = "wait"
  /\ ~earlyWake
  /\ ticks = WaitPolls
  /\ ticks' = 0
  /\ wakeReason' = "Safeguard"
  /\ UNCHANGED <<vars, pubVars, hpPc, lastSeen, pass, lpStalledCycles, badCycles,
                 imgPending, earlyWake, otaRetryWait, heaterTicks, lpDead,
                 handled, rebootCause>>

HpTimeout ==
  /\ hpPc = "wait"
  /\ ~earlyWake
  /\ ticks = WaitPolls
  /\ UNCHANGED earlyWake
  /\ Wake(IF otaRetryWait THEN "OtaRetry" ELSE "Safeguard")

(* esp_restart() does not return.  RAM and RTC memory are initialised      *)
(* again, so the next boot is a behaviour of its own from TaskInit, which  *)
(* starts with a confirmed or with a freshly flashed image.                *)
Restart == hpPc = "reboot" /\ UNCHANGED allVars

-----------------------------------------------------------------------------
(* A light sleep ended by the ULP wake source (on_light_sleep_exit()).     *)
SleepExit ==
  /\ Blocked
  /\ ulpWake
  /\ ulpWake' = FALSE
  /\ \/ earlyWake' = TRUE
     \/ "lost" \in Env /\ UNCHANGED earlyWake
  /\ UNCHANGED <<result, baseline, heater, ackMem, lpVars, hpVars, history,
                 pubVars, hpPc, wakeReason, lastSeen, pass, lpStalledCycles,
                 badCycles, imgPending, otaRetryWait, ticks, heaterTicks,
                 lpDead, handled, rebootCause>>

(* A poll interval passes: the LP timer starts the LP program, a heater    *)
(* run goes on, or nothing happens because the LP core is dead.  An        *)
(* interval (20 s) is long against the wakeup of a sleeping task.          *)
Tick ==
  /\ Blocked
  /\ ticks < IF hpPc = "wait" THEN WaitPolls ELSE AwakePolls
  /\ hpPc = "wait" => ~ulpWake /\ ~earlyWake
  /\ ticks' = ticks + 1
  /\ \/ /\ ~lpDead
        /\ LpStart
        /\ heaterTicks' = 0
     \/ /\ ~lpDead
        /\ lpPc = "heater"
        /\ heaterTicks < HeaterPolls
        /\ heaterTicks' = heaterTicks + 1
        /\ UNCHANGED vars
     \/ /\ lpDead
        /\ UNCHANGED <<vars, heaterTicks>>
  /\ UNCHANGED <<pubVars, hpPc, wakeReason, lastSeen, pass, lpStalledCycles,
                 badCycles, imgPending, earlyWake, otaRetryWait, lpDead,
                 handled, rebootCause>>

LpStep ==
  /\ LpRun
  /\ UNCHANGED <<pubVars, hpVarsAll>>

(* The LP core stops between two runs.  It also does once it has used up   *)
(* the bound on runs per boot, so that a bounded boot ends in a reboot.    *)
LpStop ==
  /\ ~lpDead
  /\ lpPc = "sleep"
  /\ lpDead' = TRUE
  /\ UNCHANGED <<vars, pubVars, hpPc, wakeReason, lastSeen, pass,
                 lpStalledCycles, badCycles, imgPending, earlyWake,
                 otaRetryWait, ticks, heaterTicks, handled, rebootCause>>

LpDie == "dead" \in Env /\ LpStop
LpBoundReached == g["heartbeat_counter"] = MaxPolls /\ LpStop

(* The publish task; runtime_config_apply_pending() runs in its healthy    *)
(* tail.                                                                   *)
Publisher ==
  /\ Blocked
  /\ PubStep
  /\ UNCHANGED <<vars, hpVarsAll>>

Retune ==
  /\ Blocked
  /\ \/ pubPc = "tail" /\ configs < MaxConfigs /\ \E c \in Configs : CfgCall(c)
     \/ CfgStore
  /\ UNCHANGED <<pubVars, hpVarsAll>>

(* A complete image: the boot partition is switched and the chip restarts. *)
OtaReboot ==
  /\ Blocked
  /\ pubPc = "ota"
  /\ hpPc' = "reboot"
  /\ rebootCause' = "ota"
  /\ UNCHANGED <<vars, pubVars, wakeReason, lastSeen, pass, lpStalledCycles,
                 badCycles, imgPending, earlyWake, otaRetryWait, ticks,
                 heaterTicks, lpDead, handled>>

HpStep ==
  \/ HpGate
  \/ HpOtaBusy \/ HpStalled \/ HpPublish \/ HpQuiet
  \/ HpIdle \/ HpIdleTimeout \/ HpAckStep
  \/ HpWrap \/ HpWake \/ HpTimeout

TaskStep ==
  \/ HpStep \/ SleepExit \/ Tick \/ LpStep \/ LpDie \/ LpBoundReached
  \/ Publisher \/ Retune \/ OtaReboot \/ Restart

(* What a step adds to the history variables; LpCore's `stable` is not     *)
(* used here.                                                              *)
WakeLost == ulpWake /\ ~ulpWake' /\ ~earlyWake'
PollFailed == lpPc = "measure" /\ g'["sensor_ok"] = 0
Noted ==
  /\ disturbed' = (disturbed \/ WakeLost \/ PollFailed)
  /\ UNCHANGED stable

TaskNext == TaskStep /\ Noted

TaskSpec == TaskInit /\ [][TaskNext]_allVars

(* Liveness runs: FreeRTOS schedules both tasks, time passes, and the LP   *)
(* program, once started, ends.  Nothing obliges the environment to fail.  *)
TaskFairness ==
  /\ WF_allVars(HpStep /\ Noted)
  /\ WF_allVars(SleepExit /\ Noted)
  /\ WF_allVars(Tick /\ Noted)
  /\ WF_allVars(LpStep /\ Noted)
  /\ WF_allVars(LpBoundReached /\ Noted)
  /\ WF_allVars(Publisher /\ Noted)

FairTaskSpec == TaskSpec /\ TaskFairness

-----------------------------------------------------------------------------
(* Properties.                                                             *)

(* Every variable of the task holds a value of its C++ type.               *)
TaskTypeOK ==
  /\ LpTypeOK /\ PubTypeOK
  /\ hpPc \in {"gate", "read", "waitIdle", "ack", "wrap", "wait", "reboot"}
  /\ wakeReason \in {"LpWake", "OtaRetry", "Safeguard"}
  /\ lastSeen \in Nat /\ lpStalledCycles \in Nat /\ badCycles \in Nat
  /\ pass \in [DOMAIN NewPass -> BOOLEAN]
  /\ {imgPending, earlyWake, otaRetryWait, lpDead} \subseteq BOOLEAN
  /\ ticks \in Nat /\ heaterTicks \in Nat
  /\ handled \subseteq [poll : Int, r : Reading]
  /\ rebootCause \in {"none", "stall", "unconfirmed", "ota"}

(* lp_sensor_core_ack_delivered() is called "only after genuine            *)
(* confirmation": every acknowledged reading has reached the broker.       *)
AckedWasDelivered == acked \subseteq delivered \cup {ZeroReading}

(* A pass that set out to publish a reading ends with the reading at the   *)
(* broker or in the history log: a failed publish costs no reading.        *)
TriedIsKept ==
  hpPc = "wrap" /\ pass.tried => CalReading(out) \in delivered \cup backlog

(* A flag the task ignores because LP made no progress is the leftover of  *)
(* a result the task has already treated as flagged.                       *)
LeftoverIsHandled ==
  /\ SnapshotTaken
  /\ ~otaActive /\ ~StallSuspected /\ ~otaDue
  /\ out["should_wake_hp"] # 0
  /\ ~ShouldWake
  => Seen(out) \in handled

(* The heartbeat gate: no result is published twice, however often a       *)
(* latched wakeup makes the task look at it.                               *)
PublishedOnce ==
  SnapshotTaken /\ ~otaActive /\ ~StallSuspected /\ ShouldWake
    => Seen(out) \notin handled

(* The rollback of a new image is cancelled only after the broker has      *)
(* received a reading from this boot.                                      *)
ConfirmedAfterDelivery ==
  [][imgPending /\ ~imgPending' /\ hpPc # "reboot" => delivered # {}]_allVars

(* The LP-stall supervisor restarts the chip only for a dead LP core.      *)
StallRebootMeansDead == rebootCause = "stall" => lpDead

(* "The wait's timeout is purely a safeguard for the wake mechanism        *)
(* failing": it never fires unless the LP core is dead, a wakeup was lost  *)
(* or a measurement failed.                                                *)
SafeguardIsSilent == wakeReason = "Safeguard" => lpDead \/ disturbed

(* A dead LP core is recovered: unless an update is due, the stall         *)
(* supervisor restarts the chip.                                           *)
DeadIsRebooted == lpDead ~> hpPc = "reboot" \/ otaDue

(* A raised flag is seen by the task even if its wakeup is lost and the LP *)
(* core stops right after: the safeguard timeout picks it up before the    *)
(* stall supervisor can restart the chip.                                  *)
FlagIsSeen ==
  \A n \in 1..MaxPolls :
    (lpPc = "wake" /\ g["should_wake_hp"] = 1 /\ g["heartbeat_counter"] = n)
      ~> (lastSeen >= n \/ rebootCause \in {"unconfirmed", "ota"})
=============================================================================
