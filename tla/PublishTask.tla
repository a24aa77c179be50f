---------------------------- MODULE PublishTask -----------------------------
(***************************************************************************)
(* The asynchronous MQTT publish task (mqtt_sender.cpp) and the hand-off   *)
(* the sensor task uses to start it and to learn how it ended:             *)
(*                                                                         *)
(*   mqtt_send_sensor_data()        SendSensorData                         *)
(*   mqtt_is_busy()                 s_task_running                         *)
(*   mqtt_wait_for_idle()           idleBit                                *)
(*   mqtt_last_publish_succeeded()  s_last_ok                              *)
(*   mqtt_publish_task()            Pub*                                   *)
(*                                                                         *)
(* The broker is external: a state message that is sent either reaches it  *)
(* or not, and an acknowledgement either comes back within the 4 s wait or *)
(* not.  The backlog is the set of readings of history_log.cpp (its ring   *)
(* is HistoryLog.tla); the OTA session is its two observable ends.         *)
(***************************************************************************)
EXTENDS Integers, FiniteSets

CONSTANT
  Env  \* what the environment may do: a subset of EnvEvents

(* "attach"  the attach gate may time out                                  *)
(* "publish" a connect, a message or its acknowledgement may be lost       *)
(* "stall"   a publish cycle may outlast the sensor task's 15 s wait       *)
(* "task"    xTaskCreate() may fail                                        *)
(* "ota"     an update may be staged                                       *)
(* "lost"    a ULP wakeup may never arrive                                 *)
(* "dead"    the LP core may stop                                          *)
(* "fall"    lp_sensor_core_get_state() may use up its attempts            *)
EnvEvents ==
  {"attach", "publish", "stall", "task", "ota", "lost", "dead", "fall"}

ASSUME EnvAssumption == Env \subseteq EnvEvents

VARIABLES
  s_task_running,
  idleBit,     \* BIT_IDLE of s_idle_eg
  s_last_ok,
  pubPc,       \* where the running publish task is ("none": no task)
  job,         \* the values it was started with
  jobOk,       \* run_publish_cycle()'s ok
  finishing,   \* tasks that cleared s_task_running but not yet set BIT_IDLE
  backlog,     \* readings waiting in the history log
  delivered,   \* history: readings the broker has received
  otaDue,      \* ota_update_due()
  otaActive    \* ota_session_in_progress()

handoff == <<s_task_running, idleBit, s_last_ok, finishing>>
pubVars == <<handoff, pubPc, job, jobOk, backlog, delivered, otaDue, otaActive>>

NoJob == [otaOnly |-> TRUE, r |-> [t |-> 0, h |-> 0]]

PubInit ==
  /\ s_task_running = FALSE
  /\ idleBit = TRUE
  /\ s_last_ok = FALSE
  /\ pubPc = "none"
  /\ job = NoJob
  /\ jobOk = FALSE
  /\ finishing = 0
  /\ backlog = {}
  /\ delivered = {}
  /\ otaDue = FALSE
  /\ otaActive = FALSE

-----------------------------------------------------------------------------
(* mqtt_send_sensor_data(), called by the sensor task: skipped while a     *)
(* task is running, otherwise a task is created or creation fails.         *)
SendSensorData(j) ==
  /\ \/ /\ s_task_running
        /\ UNCHANGED <<handoff, pubPc, job, jobOk>>
     \/ /\ ~s_task_running
        /\ s_task_running' = TRUE
        /\ idleBit' = FALSE
        /\ pubPc' = "connect"
        /\ job' = j
        /\ jobOk' = FALSE
        /\ UNCHANGED <<s_last_ok, finishing>>
     \/ /\ ~s_task_running
        /\ "task" \in Env
        /\ idleBit' = TRUE
        /\ UNCHANGED <<s_task_running, s_last_ok, finishing, pubPc, job, jobOk>>
  /\ UNCHANGED <<backlog, delivered, otaDue, otaActive>>

-----------------------------------------------------------------------------
(* run_publish_cycle()                                                     *)

(* The broker is not reachable or the connect times out.                   *)
PubConnectFails ==
  /\ pubPc = "connect"
  /\ "publish" \in Env
  /\ pubPc' = "finish"
  /\ UNCHANGED <<handoff, job, jobOk, backlog, delivered, otaDue, otaActive>>

(* With an update due and nothing to publish the persistent connection is  *)
(* skipped.  A job without values is only started with an update due, and  *)
(* nothing clears that meanwhile.                                          *)
PubSkipConnect ==
  /\ pubPc = "connect"
  /\ otaDue /\ job.otaOnly
  /\ pubPc' = "otaCheck"
  /\ UNCHANGED <<handoff, job, jobOk, backlog, delivered, otaDue, otaActive>>

(* Connected: the state message is sent and may or may not reach the       *)
(* broker.                                                                 *)
PubSend ==
  /\ pubPc = "connect"
  /\ ~(otaDue /\ job.otaOnly)
  /\ \/ /\ delivered' = delivered \cup {job.r}
        /\ pubPc' = "await"
     \/ /\ "publish" \in Env
        /\ pubPc' = "lost"
        /\ UNCHANGED delivered
  /\ UNCHANGED <<handoff, job, jobOk, backlog, otaDue, otaActive>>

PubAcked ==
  /\ pubPc = "await"
  /\ jobOk' = TRUE
  /\ pubPc' = "tail"
  /\ UNCHANGED <<handoff, job, backlog, delivered, otaDue, otaActive>>

PubNotAcked ==
  /\ \/ pubPc = "lost"
     \/ pubPc = "await" /\ "publish" \in Env
  /\ pubPc' = "finish"
  /\ UNCHANGED <<handoff, job, jobOk, backlog, delivered, otaDue, otaActive>>

(* A healthy cycle replays the backlog, as far as the broker acknowledges  *)
(* it; a retained manifest or install request may have come in meanwhile.  *)
PubTail ==
  /\ pubPc = "tail"
  /\ \E done \in SUBSET backlog :
       /\ done = backlog \/ "publish" \in Env
       /\ backlog' = backlog \ done
       /\ delivered' = delivered \cup done
  /\ otaDue' \in IF "ota" \in Env THEN BOOLEAN ELSE {otaDue}
  /\ pubPc' = "otaCheck"
  /\ UNCHANGED <<handoff, job, jobOk, otaActive>>

(* run_ota_if_due(): no update, a session that never starts (no connection *)
(* or the battery gate), or one that takes the radio for minutes.          *)
PubOtaCheck ==
  /\ pubPc = "otaCheck"
  /\ \/ /\ pubPc' = "finish"
        /\ UNCHANGED <<otaDue, otaActive>>
     \/ /\ otaDue
        /\ otaActive' = TRUE
        /\ pubPc' = "ota"
        /\ UNCHANGED otaDue
  /\ UNCHANGED <<handoff, job, jobOk, backlog, delivered>>

(* A session that ends without a complete image; the attempt budget may be *)
(* spent.                                                                  *)
PubOtaEnds ==
  /\ pubPc = "ota"
  /\ otaActive' = FALSE
  /\ otaDue' \in BOOLEAN
  /\ pubPc' = "finish"
  /\ UNCHANGED <<handoff, job, jobOk, backlog, delivered>>

(* mqtt_publish_task() after run_publish_cycle(): the outcome, the running *)
(* flag, and only then the idle bit.  The sensor task has the higher       *)
(* priority and can run in between.                                        *)
MaxFinishing == 2  \* bound: tasks preempted between the two stores

PubFinish ==
  /\ pubPc = "finish"
  /\ finishing < MaxFinishing
  /\ s_last_ok' = jobOk
  /\ s_task_running' = FALSE
  /\ finishing' = finishing + 1
  /\ pubPc' = "none"
  /\ UNCHANGED <<idleBit, job, jobOk, backlog, delivered, otaDue, otaActive>>

PubSetIdle ==
  /\ finishing > 0
  /\ idleBit' = TRUE
  /\ finishing' = finishing - 1
  /\ UNCHANGED <<s_task_running, s_last_ok, pubPc, job, jobOk, backlog,
                 delivered, otaDue, otaActive>>

PubStep ==
  \/ PubConnectFails \/ PubSkipConnect \/ PubSend \/ PubAcked \/ PubNotAcked
  \/ PubTail \/ PubOtaCheck \/ PubOtaEnds \/ PubFinish \/ PubSetIdle

(* Every variable holds a value of its C++ type.                           *)
PubTypeOK ==
  /\ {s_task_running, idleBit, s_last_ok, jobOk, otaDue, otaActive} \subseteq BOOLEAN
  /\ pubPc \in {"none", "connect", "await", "lost", "tail", "otaCheck", "ota",
                "finish"}
  /\ job \in [otaOnly : BOOLEAN, r : [t : Int, h : Int]]
  /\ finishing \in Nat
  /\ backlog \subseteq [t : Int, h : Int]
  /\ delivered \subseteq [t : Int, h : Int]
=============================================================================
