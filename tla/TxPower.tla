------------------------------ MODULE TxPower -------------------------------
(***************************************************************************)
(* The radio transmit power setting of runtime_config.cpp: a value set     *)
(* from Home Assistant is put on trial before it is trusted.               *)
(*                                                                         *)
(* The sensor task reports the outcome of its passes                       *)
(* (runtime_config_tx_power_note_cycle_result), the publish task applies   *)
(* received values (runtime_config_apply_pending) at the end of a healthy  *)
(* cycle and pins the power for an OTA session, and NVS keeps the          *)
(* known-good and the pending value across restarts.                       *)
(*                                                                         *)
(* The trial state is plain globals that both tasks write.  The sensor     *)
(* task has the higher priority and the chip one core, so a note is not    *)
(* interrupted by the publish task, but the publish task may be by a note: *)
(* in an apply, and anywhere from the end of an OTA session to the call    *)
(* that restores the power it had pinned.                                  *)
(*                                                                         *)
(* External: the broker's retained copy of the value, the radio link,      *)
(* which works at the powers in Works and no other, and NVS, whose typed   *)
(* getters fail on an entry of another type and whose writes may fail.     *)
(***************************************************************************)
EXTENDS Integers

CONSTANTS
  Requests,    \* values Home Assistant may publish, in dBm
  Works,       \* powers at which the uplink works
  YamlDbm,     \* device_config.yaml's tx_power_dbm
  LinkMayFail, \* may a working link fail to attach or to publish?
  UpdateDue,   \* may a firmware update be staged?
  NvsMayFail,  \* may a write to NVS fail?
  MaxRequests, \* bound: values published by Home Assistant
  MaxBoots     \* bound: restarts

(* TX_POWER_DBM_MIN, TX_POWER_DBM_MAX, TX_POWER_TABLE_MAX_DBM,             *)
(* TX_POWER_REVERT_AFTER_CYCLES                                            *)
TxMin == -15
TxMax == 20
TableMax == 20
RevertAfterCycles == 3

Dbm == TxMin..TxMax

ASSUME TxConstants ==
  /\ Requests \subseteq Int /\ Works \subseteq Int
  /\ YamlDbm \in Dbm
  /\ {LinkMayFail, UpdateDue, NvsMayFail} \subseteq BOOLEAN
  /\ MaxRequests \in Nat /\ MaxBoots \in Nat

NoValue == 1000  \* "absent": no dBm value

VARIABLES
  known_good, pending, has_pending, unconfirmed, \* s_tx_power_*
  active,               \* s_tx_power_active_dbm
  first_attach_done,
  rejected, has_rejected,
  inbox,        \* s_pending.tx_power_dbm, NoValue when not set
  numbersSent,  \* DISC_NUMBERS of s_discovery_sent_mask
  radio,        \* the power the radio transmits with
  session,      \* s_session_active: an OTA session is running
  unpinTo,      \* the power the unpin after a session has loaded
  nvsKnownGood, \* NVS "txp_known_good": [type, v]
  nvsPending,   \* NVS "txp_pending"
  nvsFlag,      \* NVS "txp_pend_flag"
  broker,       \* the retained cfg/tx_power_dbm
  waiting,      \* the sensor task waits for the publish task
  pub,          \* where the publish task is
  outcome,      \* how its cycle went; the code only knows whether "acked"
  requests,     \* history: values published by Home Assistant
  boots,        \* history: restarts
  proven,       \* history: powers an acknowledged publish used
  promoted,     \* history: the value last promoted to known-good
  trialBoot,    \* history: the boot the current trial was begun in
  evidence,     \* history: link failures since the current trial began
  torn          \* history: the calls of the publish task that a revert came
                \* into the middle of, and that nothing has made good since

ram == <<known_good, pending, has_pending, unconfirmed, active,
         first_attach_done, rejected, has_rejected>>
mqtt == <<inbox, numbersSent>>
nvs == <<nvsKnownGood, nvsPending, nvsFlag>>
ota == <<session, unpinTo>>
task == <<waiting, pub, outcome>>
ghosts == <<requests, boots, proven, promoted, trialBoot, evidence, torn>>
txVars == <<ram, mqtt, radio, ota, nvs, broker, task, ghosts>>

Clamped(v) == IF v < TxMin THEN TxMin ELSE IF v > TxMax THEN TxMax ELSE v
NvsEntry == [type : {"none", "i8", "i32"}, v : Int]

(* NetworkLink::setTxPowerDbm(), which a link that is up does not refuse.  *)
SetTxPowerDbm(dbm) == radio' = dbm

(* What NVS may hold after a write: no result of a write is looked at, and *)
(* a namespace that does not open is passed over.                          *)
Written(old, new) == {new} \cup IF NvsMayFail THEN {old} ELSE {}

(* runtime_config_nvs_override(int32_t, ...): an nvs_get_i32() that fails  *)
(* leaves the yaml value.                                                  *)
NvsOverride(entry) == IF entry.type = "i32" THEN entry.v ELSE YamlDbm

TxInit ==
  /\ known_good = YamlDbm /\ pending = TableMax /\ has_pending = FALSE
  /\ unconfirmed = 0
  /\ active = TableMax /\ radio = TableMax
  /\ first_attach_done = FALSE
  /\ rejected = 0 /\ has_rejected = FALSE
  /\ inbox = NoValue /\ numbersSent = FALSE
  /\ session = FALSE /\ unpinTo = TableMax
  /\ nvsKnownGood = [type |-> "none", v |-> 0]
  /\ nvsPending = 0 /\ nvsFlag = 0
  /\ broker = NoValue
  /\ waiting = FALSE /\ pub = "none" /\ outcome = "none"
  /\ requests = 0 /\ boots = 0
  /\ proven = {} /\ promoted = YamlDbm /\ trialBoot = 0 /\ evidence = 0
  /\ torn = {}

-----------------------------------------------------------------------------
(* runtime_config_tx_power_note_cycle_result().  `failed`, which the code  *)
(* does not have, says whether the link really failed.                     *)
NoteOk ==
  /\ has_pending
  /\ known_good' = pending
  /\ has_pending' = FALSE
  /\ unconfirmed' = 0
  /\ nvsKnownGood' \in Written(nvsKnownGood, [type |-> "i8", v |-> pending])
  /\ nvsFlag' \in Written(nvsFlag, 0)
  /\ promoted' = pending
  /\ UNCHANGED <<pending, active, first_attach_done, rejected, has_rejected,
                 nvsPending, radio, evidence, torn>>

NoteFailed(failed) ==
  /\ has_pending
  /\ evidence' = IF failed THEN evidence + 1 ELSE evidence
  /\ \/ /\ unconfirmed + 1 < RevertAfterCycles
        /\ unconfirmed' = unconfirmed + 1
        /\ UNCHANGED <<has_pending, rejected, has_rejected, active, radio,
                       nvsFlag, torn>>
     \/ /\ unconfirmed + 1 >= RevertAfterCycles
        /\ rejected' = pending /\ has_rejected' = TRUE
        /\ has_pending' = FALSE
        /\ unconfirmed' = 0
        /\ SetTxPowerDbm(known_good) /\ active' = known_good
        /\ nvsFlag' \in Written(nvsFlag, 0)
        /\ torn' = {pub} \cap {"apply", "unpin"}
  /\ UNCHANGED <<known_good, pending, first_attach_done, nvsKnownGood,
                 nvsPending, promoted>>

NoTrial == ~has_pending /\ UNCHANGED <<ram, nvs, radio, promoted, evidence, torn>>

Note(result, failed) ==
  \/ NoTrial
  \/ result /\ NoteOk
  \/ ~result /\ NoteFailed(failed)

-----------------------------------------------------------------------------
(* The sensor task.                                                        *)

LinkUp == radio \in Works

(* Mutant: a failed attach is not reported to the trial.                   *)
MutGateFails ==
  /\ ~waiting /\ ~session
  /\ ~LinkUp \/ LinkMayFail
  /\ UNCHANGED txVars

(* The attach gate times out.  It cannot while an OTA session is running:  *)
(* a chunk at least every 20 s keeps the session alive, and one means the  *)
(* node was attached within the gate's 30 s.                               *)
GateFails ==
  /\ ~waiting /\ ~session
  /\ ~LinkUp \/ LinkMayFail
  /\ Note(FALSE, TRUE)
  /\ UNCHANGED <<mqtt, ota, broker, task, requests, boots, proven, trialBoot>>

(* Mutant: a trial a previous boot left goes on.                           *)
MutNoteFirstAttach ==
  \/ first_attach_done /\ UNCHANGED <<ram, nvs, radio>>
  \/ /\ ~first_attach_done
     /\ first_attach_done' = TRUE
     /\ SetTxPowerDbm(Clamped(IF has_pending THEN pending ELSE known_good))
     /\ active' = radio'
     /\ UNCHANGED <<known_good, pending, has_pending, unconfirmed, rejected,
                    has_rejected, nvs>>

(* It succeeds: runtime_config_tx_power_note_first_attach() discards a     *)
(* trial a previous boot left and sets the radio, once per boot.           *)
NoteFirstAttach ==
  \/ first_attach_done /\ UNCHANGED <<ram, nvs, radio>>
  \/ /\ ~first_attach_done
     /\ first_attach_done' = TRUE
     /\ has_pending' = FALSE
     /\ SetTxPowerDbm(known_good) /\ active' = known_good
     /\ IF has_pending
        THEN /\ rejected' = pending /\ has_rejected' = TRUE
             /\ unconfirmed' = 0
             /\ nvsFlag' \in Written(nvsFlag, 0)
        ELSE UNCHANGED <<rejected, has_rejected, unconfirmed, nvsFlag>>
     /\ UNCHANGED <<known_good, pending, nvsKnownGood, nvsPending>>

(* A quiet pass (an OTA session makes every pass quiet), or one that       *)
(* starts a publish task, with values or, when an update is due, without,  *)
(* or one that finds the previous publish task still running.              *)
GateOk ==
  /\ ~waiting /\ LinkUp
  /\ NoteFirstAttach
  /\ \/ UNCHANGED task
     \/ /\ pub = "none"
        /\ waiting' = TRUE
        /\ outcome' = "noValues"
        /\ pub' \in IF UpdateDue THEN {"connect", "otaCheck"} ELSE {"connect"}
     \/ /\ pub # "none" /\ ~session
        /\ waiting' = TRUE
        /\ UNCHANGED <<pub, outcome>>
  /\ UNCHANGED <<mqtt, ota, broker, ghosts>>

(* The publish task ended within the wait ...                              *)
PassEnds ==
  /\ waiting
  /\ pub = "done"
  /\ Note(outcome = "acked", outcome = "failed")
  /\ waiting' = FALSE /\ pub' = "none"
  /\ UNCHANGED <<mqtt, ota, broker, outcome, requests, boots, proven, trialBoot>>

(* The session is over, its power is not restored: the image is finished   *)
(* under the mutex, the poll period set under the OpenThread lock, ...     *)
SessionTail == pub \in {"otaEnd", "unpin"}

(* ... or the wait timed out: an OTA session is left alone, anything else  *)
(* counts as a failed cycle, with nothing wrong with the link when it is   *)
(* the end of a session.                                                   *)
PassTimesOut ==
  /\ waiting
  /\ pub # "done"
  /\ \/ session /\ UNCHANGED <<ram, nvs, radio, promoted, evidence, torn>>
     \/ ~session /\ LinkMayFail /\ Note(FALSE, TRUE)
     \/ ~session /\ SessionTail /\ Note(FALSE, FALSE)
  /\ waiting' = FALSE
  /\ UNCHANGED <<mqtt, ota, broker, pub, outcome, requests, boots, proven,
                 trialBoot>>

-----------------------------------------------------------------------------
(* The publish task.                                                       *)

(* The first acknowledged cycle of a boot publishes the value in effect on *)
(* the setting's topic, beside its discovery, and gets it back before its  *)
(* state message is acknowledged; a cycle that fails may have published.   *)
Accepted == IF has_pending THEN pending ELSE known_good

PubFails ==
  /\ pub = "connect"
  /\ ~LinkUp \/ LinkMayFail
  /\ broker' \in {broker} \cup IF LinkUp /\ ~numbersSent THEN {Accepted} ELSE {}
  /\ pub' = "done" /\ outcome' = "failed"
  /\ UNCHANGED <<ram, mqtt, radio, ota, nvs, waiting, ghosts>>

PubAcked ==
  /\ pub = "connect"
  /\ LinkUp
  /\ IF numbersSent THEN UNCHANGED <<broker, inbox>>
     ELSE broker' = Accepted /\ inbox' = Accepted
  /\ numbersSent' = TRUE
  /\ pub' = "tail" /\ outcome' = "acked"
  /\ proven' = proven \cup {radio}
  /\ UNCHANGED <<ram, radio, ota, nvs, waiting, requests, boots, promoted,
                 trialBoot, evidence, torn>>

(* runtime_config_on_mqtt_data(): the session is open and the broker hands *)
(* over its copy, because it is new to the session or the session was.     *)
Receive ==
  /\ pub = "tail" \/ (pub = "connect" /\ LinkUp)
  /\ broker # NoValue /\ inbox # broker
  /\ inbox' = broker
  /\ UNCHANGED <<ram, numbersSent, radio, ota, nvs, broker, task, ghosts>>

(* runtime_config_apply_pending()                                          *)

(* An echo is fire-and-forget: it may not arrive, and does not when the    *)
(* power just applied broke the link.                                      *)
Echo(v) == broker' = broker \/ (radio' \in Works /\ broker' = v)

ApplyNothing ==
  /\ inbox \in {NoValue, Accepted}
  /\ ~(has_rejected /\ inbox = rejected)
  /\ UNCHANGED <<ram, nvs, radio, broker, trialBoot, evidence>>

ApplyRejected ==
  /\ has_rejected /\ inbox = rejected
  /\ UNCHANGED <<ram, nvs, radio, trialBoot, evidence>>
  /\ IF Accepted # rejected THEN Echo(Accepted) ELSE UNCHANGED broker

ApplyClampedAway ==
  /\ inbox \notin {NoValue, Accepted}
  /\ ~(has_rejected /\ inbox = rejected)
  /\ Clamped(inbox) = Accepted
  /\ UNCHANGED <<ram, nvs, radio, trialBoot, evidence>>
  /\ Echo(Accepted)

AfterApply == IF UpdateDue THEN "otaCheck" ELSE "done"

ApplyTrial ==
  /\ inbox # NoValue
  /\ ~(has_rejected /\ inbox = rejected)
  /\ Clamped(inbox) # Accepted
  /\ pending' = Clamped(inbox) /\ has_pending' = TRUE
  /\ trialBoot' = boots /\ evidence' = 0
  /\ UNCHANGED <<known_good, unconfirmed, active, first_attach_done, rejected,
                 has_rejected, nvs, radio, broker>>

(* ... and then, the sensor task perhaps having come in between, the rest  *)
(* of it.                                                                  *)
ApplyTrialRest ==
  /\ pub = "apply"
  /\ unconfirmed' = 0
  /\ has_rejected' = FALSE
  /\ SetTxPowerDbm(pending) /\ active' = pending
  /\ nvsPending' \in Written(nvsPending, pending)
  /\ nvsFlag' \in Written(nvsFlag, 1)
  /\ torn' = IF has_pending THEN {} ELSE torn
  /\ Echo(pending)
  /\ pub' = AfterApply
  /\ UNCHANGED <<known_good, pending, has_pending, first_attach_done, rejected,
                 mqtt, ota, nvsKnownGood, waiting, outcome, requests, boots, proven,
                 promoted, trialBoot, evidence>>

ApplyPending ==
  /\ pub = "tail"
  /\ \/ /\ ApplyNothing \/ ApplyRejected \/ ApplyClampedAway
        /\ pub' = AfterApply
     \/ ApplyTrial /\ pub' = "apply"
  /\ inbox' = NoValue
  /\ UNCHANGED <<numbersSent, ota, waiting, outcome, requests, boots, proven,
                 promoted, torn>>

(* run_ota_if_due(): no session (nothing staged yet, no connection, the    *)
(* battery gate) ...                                                       *)
OtaSkipped ==
  /\ pub = "otaCheck"
  /\ pub' = "done"
  /\ UNCHANGED <<ram, mqtt, radio, ota, nvs, broker, waiting, outcome, ghosts>>

(* ... or one: the flag is set, then the power pinned to the table's       *)
(* maximum.                                                                *)
SessionBegins ==
  /\ pub = "otaCheck"
  /\ LinkUp
  /\ session' = TRUE
  /\ pub' = "otaPin"
  /\ UNCHANGED <<ram, mqtt, radio, unpinTo, nvs, broker, waiting, outcome, ghosts>>

PinMax ==
  /\ pub = "otaPin"
  /\ SetTxPowerDbm(TableMax)
  /\ pub' = "ota"
  /\ UNCHANGED <<ram, mqtt, ota, nvs, broker, waiting, outcome, ghosts>>

(* The download is over, complete or not: the flag is cleared and the      *)
(* image finished or kept for later.                                       *)
SessionEnds ==
  /\ pub = "ota"
  /\ session' = FALSE
  /\ pub' = "otaEnd"
  /\ UNCHANGED <<ram, mqtt, radio, unpinTo, nvs, broker, waiting, outcome, ghosts>>

(* The unpin loads the active power and then waits for the OpenThread lock *)
(* to set it.                                                              *)
UnpinLoads ==
  /\ pub = "otaEnd"
  /\ unpinTo' = active
  /\ torn' = torn \ {"unpin"}
  /\ pub' = "unpin"
  /\ UNCHANGED <<ram, mqtt, radio, session, nvs, broker, waiting, outcome, requests,
                 boots, proven, promoted, trialBoot, evidence>>

(* Mutant: the power stays pinned after the session.                       *)
MutUnpinSets ==
  /\ pub = "unpin"
  /\ pub' \in {"otaCheck", "done"}
  /\ UNCHANGED <<ram, mqtt, radio, ota, nvs, broker, waiting, outcome, ghosts>>

(* A session that lost its connection is resumed in the same cycle; one    *)
(* that succeeded ends in a Reboot.                                        *)
UnpinSets ==
  /\ pub = "unpin"
  /\ SetTxPowerDbm(unpinTo)
  /\ pub' \in {"otaCheck", "done"}
  /\ UNCHANGED <<ram, mqtt, ota, nvs, broker, waiting, outcome, ghosts>>

(* The publish task ends with nobody waiting.                              *)
PubGone ==
  /\ ~waiting /\ pub = "done"
  /\ pub' = "none"
  /\ UNCHANGED <<ram, mqtt, radio, ota, nvs, broker, waiting, outcome, ghosts>>

-----------------------------------------------------------------------------
(* Home Assistant publishes a value, retained.                             *)
Request(v) ==
  /\ requests < MaxRequests
  /\ requests' = requests + 1
  /\ broker' = v
  /\ UNCHANGED <<ram, mqtt, radio, ota, nvs, task, boots, proven, promoted,
                 trialBoot, evidence, torn>>

(* A restart, at any time: main.cpp resolves the known-good value and      *)
(* runtime_config_init() loads the pending one.                            *)
Reboot ==
  /\ boots < MaxBoots
  /\ boots' = boots + 1
  /\ known_good' = Clamped(NvsOverride(nvsKnownGood))
  /\ pending' = IF nvsFlag = 1 THEN nvsPending ELSE TableMax
  /\ has_pending' = (nvsFlag = 1)
  /\ unconfirmed' = 0
  /\ active' = TableMax /\ radio' = TableMax
  /\ first_attach_done' = FALSE
  /\ rejected' = 0 /\ has_rejected' = FALSE
  /\ inbox' = NoValue /\ numbersSent' = FALSE
  /\ session' = FALSE /\ unpinTo' = TableMax
  /\ waiting' = FALSE /\ pub' = "none" /\ outcome' = "none"
  /\ torn' = {}
  /\ UNCHANGED <<nvs, broker, requests, proven, promoted, trialBoot, evidence>>

TxNext ==
  \/ GateFails \/ GateOk \/ PassEnds \/ PassTimesOut
  \/ PubFails \/ PubAcked \/ Receive \/ ApplyPending \/ ApplyTrialRest
  \/ OtaSkipped \/ SessionBegins \/ PinMax \/ SessionEnds \/ UnpinLoads
  \/ UnpinSets \/ PubGone
  \/ (\E v \in Requests : Request(v)) \/ Reboot

TxSpec == TxInit /\ [][TxNext]_txVars

(* The sensor task's loop goes on waking, whatever the link does, and the  *)
(* publish task runs to its end.                                           *)
FairTxSpec ==
  /\ TxSpec
  /\ WF_txVars(GateFails \/ GateOk \/ PassEnds \/ PassTimesOut)
  /\ WF_txVars(PubFails \/ PubAcked \/ ApplyPending \/ ApplyTrialRest
               \/ OtaSkipped \/ PinMax \/ SessionEnds \/ UnpinLoads \/ UnpinSets
               \/ PubGone)

-----------------------------------------------------------------------------
(* Properties.                                                             *)

PubStates == {"none", "connect", "tail", "apply", "otaCheck", "otaPin", "ota",
              "otaEnd", "unpin", "done"}

(* Every variable holds a value of its C++ type, and the trial counter     *)
(* never reaches the revert threshold.                                     *)
TxTypeOK ==
  /\ known_good \in Dbm /\ pending \in Dbm /\ active \in Dbm /\ radio \in Dbm
  /\ unpinTo \in Dbm
  /\ has_pending \in BOOLEAN /\ first_attach_done \in BOOLEAN
  /\ has_rejected \in BOOLEAN /\ session \in BOOLEAN /\ waiting \in BOOLEAN
  /\ unconfirmed \in 0..(RevertAfterCycles - 1)
  /\ rejected \in Dbm /\ promoted \in Dbm /\ nvsPending \in Dbm
  /\ inbox \in Int /\ broker \in Int
  /\ nvsKnownGood \in NvsEntry /\ nvsKnownGood.v \in Dbm
  /\ nvsFlag \in {0, 1}
  /\ pub \in PubStates
  /\ outcome \in {"none", "noValues", "acked", "failed"}
  /\ requests \in Nat /\ boots \in Nat /\ trialBoot \in Nat /\ evidence \in Nat
  /\ proven \subseteq Dbm /\ torn \subseteq {"apply", "unpin"}

(* A download has the table's maximum, whatever trial is begun, confirmed  *)
(* or reverted meanwhile; otherwise the radio transmits with the power the *)
(* device reports as active, which is the known-good one unless a trial,   *)
(* that can be reverted, is on.  A revert at the end of a session, before  *)
(* the power is restored, changes nothing of that; only one in the middle  *)
(* of the unpin, or of the apply that begins a trial, does, and what it    *)
(* spoils is right again when the power is next set in one go.             *)
RadioPower ==
  /\ pub = "ota" => radio = TableMax
  /\ SessionTail => radio \in {TableMax, active}
  /\ pub # "ota" /\ ~SessionTail /\ "unpin" \notin torn => radio = active
  /\ first_attach_done /\ ~has_pending /\ "apply" \notin torn => active = known_good

(* mqtt_sender.cpp: the reported power is the one in effect right now.     *)
ReportedIsRadio == pub # "ota" /\ ~SessionTail => radio = active

(* runtime_config.cpp: has_pending means a trial is outstanding.  Without  *)
(* one the power is the known-good one.                                    *)
NoTrialIsKnownGood ==
  first_attach_done /\ ~has_pending /\ pub # "apply" => active = known_good

(* A trial is confirmed in the boot that began it or not at all: a boot    *)
(* is no evidence that the value was safe.                                 *)
PromotedInItsBoot ==
  [][known_good' # known_good /\ boots' = boots => trialBoot = boots]_txVars

(* A value that failed its trial is not tried again until another one is:  *)
(* the broker's retained copy does not make the revert an endless loop.    *)
RejectedNotRetried ==
  [][has_pending' /\ (~has_pending \/ pending' # pending) /\ boots' = boots
       => ~(has_rejected /\ pending' = rejected)]_txVars

(* A trial at a power that breaks the uplink does not strand the device:   *)
(* once the cycle that began it is over, failed attaches alone bring the   *)
(* radio back to a power that works.                                       *)
BrokenTrialReverts ==
  (has_pending /\ first_attach_done /\ pub = "none" /\ ~waiting /\ ~LinkUp) ~> LinkUp

(* "before a change is trusted": a known-good value other than the         *)
(* configured one has carried an acknowledged publish.                     *)
KnownGoodIsProven == known_good \in proven \cup {YamlDbm}

(* A promoted value is the known-good one after a restart too.             *)
PromotedSurvives == known_good = promoted

(* A trial is reverted for a failed attach or publish.                     *)
RevertHasEvidence ==
  [][has_pending /\ ~has_pending' /\ first_attach_done /\ boots' = boots
       /\ known_good' = known_good => evidence' > 0]_txVars
=============================================================================
