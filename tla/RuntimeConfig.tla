--------------------------- MODULE RuntimeConfig ----------------------------
(***************************************************************************)
(* The settings Home Assistant tunes over MQTT (runtime_config.cpp), for   *)
(* the settings that take effect at once; the transmit power and its trial *)
(* are TxPower.tla.                                                        *)
(*                                                                         *)
(* A setting has one retained topic that carries Home Assistant's commands *)
(* and the device's own publishes: the echo of a value it settled and,     *)
(* once per boot, the value in effect beside the discovery configuration.  *)
(* The device is subscribed to that topic, so it also receives what it     *)
(* publishes.  Two settings stand for the eleven: one that is converted to *)
(* skipped polls and one that is converted to heater cycles.               *)
(*                                                                         *)
(* The broker is external: it answers one ordered stream with another, and *)
(* passes a QoS 1 message on to the subscribed session before it           *)
(* acknowledges it.  What a connection had in flight towards the broker is *)
(* lost with it; what the broker holds for the session is not.  NVS is     *)
(* external too: any access to it may fail.                                *)
(***************************************************************************)
EXTENDS Integers, Sequences

CONSTANTS
  Requests,    \* the commands Home Assistant may publish: [s, v] records
  Yaml,        \* the values of device_config.yaml
  PollSec,     \* lp_poll_interval_sec
  MaxRequests, \* bound: commands
  MaxBoots,    \* bound: restarts
  MaxFaults    \* bound: lost connections and failed accesses to NVS

Settings == {"max_publish_gap_sec", "heater_period_minutes"}

(* MAX_PUBLISH_GAP_SEC_MAX, HEATER_PERIOD_MAX_MINUTES; the minima are 0.   *)
SettingMax ==
  [s \in Settings |-> IF s = "max_publish_gap_sec" THEN 21600 ELSE 10080]

ASSUME CfgAssumption ==
  /\ Requests \subseteq [s : Settings, v : Int]
  /\ Yaml \in [Settings -> Nat] /\ \A s \in Settings : Yaml[s] <= SettingMax[s]
  /\ PollSec \in Nat \ {0}
  /\ MaxRequests \in Nat /\ MaxBoots \in Nat /\ MaxFaults \in Nat

NoValue == -1000  \* "absent": no value of a setting

VARIABLES
  value,     \* s_max_publish_gap_sec, s_heater_period_minutes
  s_shadow,  \* their LP fields: max_skip_cycles, heater_period_cycles
  s_pending, \* received and not yet settled, NoValue when not set
  settled,   \* apply_pending()'s snapshot: what to persist, what to echo
  nvs,       \* the overrides in flash, NoValue when never stored
  s_session_subscribed,
  numbersSent,  \* DISC_NUMBERS of s_discovery_sent_mask
  pc,        \* where the publish cycle is
  up, down,  \* the two directions of the connection
  retained,  \* what the broker retains
  sessionSubscribed, \* the broker's session holds the subscription
  command,   \* history: the last command for each setting
  orderly,   \* history: was it given between two cycles of a boot that had
             \* published its discovery, and has that boot not ended since?
  nvsFailed, \* history: the settings whose last access to NVS failed
  echoLost,  \* history: the settings whose echo was lost, and of which the
             \* broker has got neither an echo nor a command since
  requests, boots, faults

ram == <<value, s_shadow, s_pending, settled, s_session_subscribed, numbersSent>>
brokerVars == <<retained, sessionSubscribed>>
asked == <<command, orderly>>
lost == <<nvsFailed, echoLost>>
cfgVars == <<ram, nvs, pc, up, down, brokerVars, asked, lost, requests, boots, faults>>

Unset == [s \in Settings |-> NoValue]
Nothing == [set |-> Unset, echo |-> Unset]

-----------------------------------------------------------------------------
(* Conversions to LP cycles, the same in main.cpp and runtime_config.cpp.  *)
(* Nothing overflows: a value in range is at most 10080 * 60.              *)

(* Mutant: the gap is rounded up.                                          *)
MutSkipCycles(gap) ==
  IF gap <= PollSec THEN 0 ELSE (gap + PollSec - 1) \div PollSec - 1

publish_gap_sec_to_skip_cycles(gap) ==
  IF gap <= PollSec THEN 0 ELSE gap \div PollSec - 1

minutes_to_lp_cycles(minutes) ==
  IF minutes = 0 THEN 0
  ELSE (minutes * 60 + PollSec - 1) \div PollSec

ToCycles(s, v) ==
  IF s = "max_publish_gap_sec" THEN publish_gap_sec_to_skip_cycles(v)
  ELSE minutes_to_lp_cycles(v)

Clamped(s, v) == IF v > SettingMax[s] THEN SettingMax[s] ELSE v

(* runtime_config_nvs_override(): what a boot starts with.                 *)
NvsOverride(s) == IF nvs[s] = NoValue THEN Yaml[s] ELSE nvs[s]

CfgInit ==
  /\ nvs = Unset
  /\ value = Yaml
  /\ s_shadow = [s \in Settings |-> ToCycles(s, Yaml[s])]
  /\ s_pending = Unset /\ settled = Nothing
  /\ s_session_subscribed = FALSE /\ numbersSent = FALSE
  /\ pc = "sleep" /\ up = <<>> /\ down = <<>>
  /\ retained = Unset /\ sessionSubscribed = FALSE
  /\ command = Unset /\ orderly = [s \in Settings |-> FALSE]
  /\ nvsFailed = {} /\ echoLost = {}
  /\ requests = 0 /\ boots = 0 /\ faults = 0

-----------------------------------------------------------------------------
(* run_publish_cycle()                                                     *)

Setting(s, v) == [k |-> "setting", s |-> s, v |-> v]

(* The settings of a function that are not NoValue, in a fixed order.      *)
Messages(f) ==
  SelectSeq(<<Setting("max_publish_gap_sec", f["max_publish_gap_sec"]),
              Setting("heater_period_minutes", f["heater_period_minutes"])>>,
            LAMBDA m : m.v # NoValue)

(* A connected cycle subscribes if it must, publishes the discovery of the *)
(* number entities with their current values unless this boot has, and     *)
(* then the state message.                                                 *)
CycleBegins ==
  /\ pc = "sleep"
  /\ up' = (IF s_session_subscribed THEN <<>> ELSE <<[k |-> "subscribe"]>>)
           \o (IF numbersSent THEN <<>> ELSE Messages(value))
           \o <<[k |-> "state"]>>
  /\ pc' = "await"
  /\ UNCHANGED <<ram, nvs, down, brokerVars, asked, lost, requests, boots, faults>>

(* The state message is acknowledged: the cycle is healthy.                *)
StateAcked ==
  /\ pc = "await"
  /\ down # <<>> /\ Head(down).k = "puback"
  /\ down' = Tail(down)
  /\ s_session_subscribed' = TRUE /\ numbersSent' = TRUE
  /\ pc' = "apply"
  /\ UNCHANGED <<value, s_shadow, s_pending, settled, nvs, up, brokerVars,
                 asked, lost, requests, boots, faults>>

(* Mutant: a value already pending is not replaced by a later one.         *)
MutOnMqttData ==
  /\ pc # "sleep"
  /\ down # <<>> /\ Head(down).k = "setting"
  /\ down' = Tail(down)
  /\ LET m == Head(down)
     IN  s_pending' = IF s_pending[m.s] = NoValue THEN [s_pending EXCEPT ![m.s] = m.v]
                      ELSE s_pending
  /\ UNCHANGED <<value, s_shadow, settled, s_session_subscribed, numbersSent,
                 nvs, pc, up, brokerVars, asked, lost, requests, boots, faults>>

(* runtime_config_on_mqtt_data(): a payload that is no number is ignored.  *)
OnMqttData ==
  /\ pc # "sleep"
  /\ down # <<>> /\ Head(down).k = "setting"
  /\ down' = Tail(down)
  /\ LET m == Head(down)
     IN  s_pending' = IF m.v \in Nat THEN [s_pending EXCEPT ![m.s] = m.v] ELSE s_pending
  /\ UNCHANGED <<value, s_shadow, settled, s_session_subscribed, numbersSent,
                 nvs, pc, up, brokerVars, asked, lost, requests, boots, faults>>

(* Mutant: only a value that is applied is echoed.                         *)
MutSettle(s) ==
  LET v == s_pending[s]
      c == Clamped(s, v)
      applied == IF v # NoValue /\ c # value[s] THEN c ELSE NoValue
  IN  [set |-> applied, echo |-> applied]

(* settle(): apply the clamped value if it differs from the one in effect, *)
(* echo it if the received one did.                                        *)
settle(s) ==
  LET v == s_pending[s]
      c == Clamped(s, v)
  IN  [set |-> IF v # NoValue /\ c # value[s] THEN c ELSE NoValue,
       echo |-> IF v # NoValue /\ v # value[s] THEN c ELSE NoValue]

(* runtime_config_apply_pending(): the pending values are taken, settled   *)
(* and applied; the LP core gets the whole shadow configuration ...        *)
ApplyPending ==
  /\ pc = "apply"
  /\ settled' = [set |-> [s \in Settings |-> settle(s).set],
                 echo |-> [s \in Settings |-> settle(s).echo]]
  /\ s_pending' = Unset
  /\ LET set == settled'.set
     IN  /\ value' = [s \in Settings |-> IF set[s] = NoValue THEN value[s] ELSE set[s]]
         /\ s_shadow' = [s \in Settings |-> IF set[s] = NoValue THEN s_shadow[s]
                                            ELSE ToCycles(s, set[s])]
  /\ pc' = "persist"
  /\ UNCHANGED <<s_session_subscribed, numbersSent, nvs, up, down, brokerVars,
                 asked, lost, requests, boots, faults>>

(* A fault of the environment, if there is one.                            *)
Fault(happens) ==
  /\ happens => faults < MaxFaults
  /\ faults' = IF happens THEN faults + 1 ELSE faults

Changed == {s \in Settings : settled.set[s] # NoValue}

(* Mutant: what is echoed is stored in the place of what was applied.      *)
MutPersist ==
  /\ pc = "persist"
  /\ \E unsaved \in SUBSET Changed :
       /\ Fault(unsaved # {})
       /\ nvs' = [s \in Settings |-> IF settled.echo[s] = NoValue \/ s \in unsaved
                                     THEN nvs[s] ELSE s_shadow[s]]
       /\ nvsFailed' = (nvsFailed \ Changed) \cup unsaved
  /\ up' = up \o Messages(settled.echo)
  /\ settled' = Nothing
  /\ pc' = "close"
  /\ UNCHANGED <<value, s_shadow, s_pending, s_session_subscribed, numbersSent,
                 down, brokerVars, asked, echoLost, requests, boots>>

(* ... and then persisted and echoed.  When nvs_open() fails nothing is    *)
(* stored; when nvs_commit() or, which nobody looks at, an nvs_set_u32()   *)
(* does, some of it may not be.  The echoes are sent all the same.         *)
Persist ==
  /\ pc = "persist"
  /\ \E unsaved \in SUBSET Changed :
       /\ Fault(unsaved # {})
       /\ nvs' = [s \in Settings |-> IF s \in Changed \ unsaved THEN settled.set[s]
                                     ELSE nvs[s]]
       /\ nvsFailed' = (nvsFailed \ Changed) \cup unsaved
  /\ up' = up \o Messages(settled.echo)
  /\ settled' = Nothing
  /\ pc' = "close"
  /\ UNCHANGED <<value, s_shadow, s_pending, s_session_subscribed, numbersSent,
                 down, brokerVars, asked, echoLost, requests, boots>>

(* close_session() of a healthy cycle waits until the outbox is empty.     *)
CloseSession ==
  /\ pc = "close"
  /\ up = <<>>
  /\ pc' = "sleep"
  /\ UNCHANGED <<ram, nvs, up, down, brokerVars, asked, lost, requests, boots, faults>>

(* What the broker holds for the session outlives the connection.          *)
Queued == SelectSeq(down, LAMBDA m : m.k = "setting")

(* The connection is lost before the state message is acknowledged, or     *)
(* before the outbox is empty (it may have been while the echoes were not  *)
(* queued yet: then the broker reads none of them); the drain cap of       *)
(* wait_outbox_empty() ends in the same way.  What is in the outbox is     *)
(* dropped when the client stops: after a failed cycle the next one sends  *)
(* it again, but an echo is sent once.                                     *)
ConnectionLost ==
  /\ pc \in {"await", "close"}
  /\ Fault(TRUE)
  /\ echoLost' = IF pc = "close" THEN echoLost \cup {up[i].s : i \in DOMAIN up}
                 ELSE echoLost
  /\ pc' = "sleep" /\ up' = <<>> /\ down' = Queued
  /\ UNCHANGED <<ram, nvs, brokerVars, asked, nvsFailed, requests, boots>>

(* A restart, at any time: main.cpp and runtime_config_init().  A setting  *)
(* that cannot be read from NVS has the configured value.                  *)
Reboot ==
  /\ boots < MaxBoots
  /\ boots' = boots + 1
  /\ \E unread \in SUBSET Settings :
       /\ Fault(unread # {})
       /\ value' = [s \in Settings |-> IF s \in unread THEN Yaml[s] ELSE NvsOverride(s)]
       /\ nvsFailed' = unread
  /\ s_shadow' = [s \in Settings |-> ToCycles(s, value'[s])]
  /\ s_pending' = Unset /\ settled' = Nothing
  /\ s_session_subscribed' = FALSE /\ numbersSent' = FALSE
  /\ pc' = "sleep" /\ up' = <<>> /\ down' = Queued
  /\ orderly' = [s \in Settings |-> FALSE]
  /\ UNCHANGED <<nvs, brokerVars, command, echoLost, requests>>

-----------------------------------------------------------------------------
(* The broker and Home Assistant                                           *)

(* A retained publish on a setting's topic.                                *)
Retain(m) ==
  /\ retained' = [retained EXCEPT ![m.s] = m.v]
  /\ down' = IF sessionSubscribed THEN Append(down, m) ELSE down
  /\ UNCHANGED sessionSubscribed

BrokerReads ==
  /\ up # <<>>
  /\ up' = Tail(up)
  /\ LET m == Head(up)
     IN  \/ /\ m.k = "subscribe"
            /\ sessionSubscribed' = TRUE
            /\ down' = down \o Messages(retained)
            /\ UNCHANGED <<retained, echoLost>>
         \/ m.k = "setting" /\ Retain(m) /\ echoLost' = echoLost \ {m.s}
         \/ /\ m.k = "state"
            /\ down' = Append(down, [k |-> "puback"])
            /\ UNCHANGED <<brokerVars, echoLost>>
  /\ UNCHANGED <<ram, nvs, pc, asked, nvsFailed, requests, boots, faults>>

Command(r) ==
  /\ requests < MaxRequests
  /\ requests' = requests + 1
  /\ command' = [command EXCEPT ![r.s] = r.v]
  /\ orderly' = [orderly EXCEPT ![r.s] = pc = "sleep" /\ numbersSent]
  /\ Retain(Setting(r.s, r.v))
  /\ echoLost' = echoLost \ {r.s}
  /\ UNCHANGED <<ram, nvs, pc, up, nvsFailed, boots, faults>>

CycleStep ==
  \/ CycleBegins \/ StateAcked \/ OnMqttData \/ ApplyPending \/ Persist
  \/ CloseSession

CfgNext ==
  \/ CycleStep \/ ConnectionLost \/ Reboot \/ BrokerReads
  \/ \E r \in Requests : Command(r)

CfgSpec == CfgInit /\ [][CfgNext]_cfgVars

(* Wakes keep coming, the publish task runs and the broker answers.        *)
CfgFairSpec == CfgSpec /\ WF_cfgVars(CycleStep) /\ WF_cfgVars(BrokerReads)

-----------------------------------------------------------------------------
(* Properties.                                                             *)

(* Every variable holds a value of its C++ type, and an accepted value is  *)
(* in its range.                                                           *)
CfgTypeOK ==
  /\ \A s \in Settings : value[s] \in 0..SettingMax[s]
  /\ \A s \in Settings : nvs[s] \in {NoValue} \cup 0..SettingMax[s]
  /\ \A s \in Settings : s_shadow[s] \in Nat
  /\ \A s \in Settings : s_pending[s] \in {NoValue} \cup Nat
  /\ {s_session_subscribed, numbersSent, sessionSubscribed} \subseteq BOOLEAN
  /\ nvsFailed \subseteq Settings /\ echoLost \subseteq Settings
  /\ pc \in {"sleep", "await", "apply", "persist", "close"}
  /\ \A i \in DOMAIN up : up[i].k \in {"subscribe", "setting", "state"}
  /\ \A i \in DOMAIN down : down[i].k \in {"setting", "puback"}

(* A restart changes no setting: outside apply_pending() the value in      *)
(* effect is the one the next boot would resolve from flash.  Only a       *)
(* setting whose own last access to NVS failed is not held to that; it is  *)
(* as soon as it is changed and stored again.                              *)
SavedIsCurrent ==
  pc # "persist" => \A s \in Settings \ nvsFailed : value[s] = NvsOverride(s)

(* runtime_config.cpp: what is echoed is already durably applied.          *)
AppliedIsDurable ==
  pc # "persist" => \A s \in Settings : value[s] = NvsOverride(s)

(* The LP core keeps what Home Assistant was promised, after a live change *)
(* and after a boot: the guaranteed publish gap is not exceeded and no     *)
(* poll is wasted, a heater run is not early and at most a poll late, and  *)
(* only a zero period disables it.                                         *)
CyclesMatchSettings ==
  LET gap == value["max_publish_gap_sec"]
      skip == s_shadow["max_publish_gap_sec"]
      period == value["heater_period_minutes"] * 60
      heater == s_shadow["heater_period_minutes"]
  IN  /\ skip > 0 => (skip + 1) * PollSec <= gap
      /\ gap < (skip + 2) * PollSec
      /\ period <= heater * PollSec
      /\ period > (heater - 1) * PollSec

(* The broker shows the value in effect, or a command that is no number.   *)
Shown(s) ==
  \/ retained[s] = value[s]
  \/ command[s] < 0 /\ retained[s] = command[s]

(* Once commands, restarts and faults end, the broker retains the value in *)
(* effect, also where that is not the value that was requested, and no     *)
(* echo answers an echo.  A command that is no number is left as it is;    *)
(* and where the echo was lost with its connection, what is retained is a  *)
(* request for the value in effect, before it was clamped.                 *)
Converges ==
  <>[](\A s \in Settings :
         Shown(s) \/ (s \in echoLost /\ value[s] = Clamped(s, retained[s])))

(* README: the display always matches reality, an echo that is lost only   *)
(* affects how promptly.                                                   *)
DisplayIsReality == <>[](\A s \in Settings : Shown(s))

(* A command that no publish of the device can overtake takes effect, and  *)
(* of several the last: it was given while the device slept and after the  *)
(* discovery of this boot.                                                 *)
OrderlyCommandIsApplied ==
  []<>(\A s \in Settings :
         orderly[s] /\ command[s] >= 0 => value[s] = Clamped(s, command[s]))

(* README: a retained command is one a sleepy device cannot miss.  The     *)
(* last command for a setting takes effect, whenever it was given.         *)
CommandIsApplied ==
  []<>(\A s \in Settings :
         command[s] >= 0 => value[s] = Clamped(s, command[s]))
=============================================================================
