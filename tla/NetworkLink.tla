---------------------------- MODULE NetworkLink -----------------------------
(***************************************************************************)
(* The network link as the sensor task and the publish task use it: one of *)
(* the two transports behind the hooks of net/network_link.h, the windows  *)
(* that run_publish_cycle(), close_session() and ota_run_session() open    *)
(* and close on it, and the refresh after a cycle that failed.             *)
(*                                                                         *)
(* Three tasks run concurrently: the sensor task, the publish task and the *)
(* network stack with its callbacks.  What a cycle publishes is abstracted *)
(* to "acknowledged or not"; MqttSession.tla and OtaUpdater.tla have the   *)
(* sessions themselves.  A connect to an address that is routed succeeds,  *)
(* and an established session goes on, but for a bounded number of faults. *)
(***************************************************************************)
EXTENDS ThreadLink, WifiLink

CONSTANTS
  Transports,  \* the transports of this instance
  MaxFaults,   \* bound: sessions lost on a link that works
  MaxOta       \* bound: OTA sessions

ASSUME LinkAssumption ==
  /\ Transports \subseteq {"thread", "wifi"}
  /\ MaxFaults \in Nat /\ MaxOta \in Nat

VARIABLES
  conf,      \* what app_main() took from secrets.yaml
  sensorPc,  \* executeTask(): before the attach gate, or waiting for the publish
  pubPc,     \* where the publish task is ("none": no task)
  job,       \* it has values ("data") or only an update ("ota")
  uri,       \* the address of the broker, two halves of a prefix
  ok,        \* run_publish_cycle()'s ok, then s_last_ok
  stats,     \* read_link_stats(): the locked part, then the result
  faults, otaSessions

pubVars == <<pubPc, job, uri, ok, stats, faults, otaSessions>>
linkVars == <<threadVars, wifiVars, moves, conf, sensorPc, pubVars>>

(* app_main() gives up on a Wi-Fi family that is not the broker's.         *)
Accepted(c) == c.transport = "wifi" => c.broker = c.family

Configs ==
  {c \in [transport : Transports, broker : {"ipv4", "ipv6"}, family : {"ipv4", "ipv6"}] :
     /\ Accepted(c)
     /\ c.transport = "thread" => c.family = "ipv4"}  \* not used: its default

Thread == conf.transport = "thread"

NoUri == Whole(None)

LinkInit ==
  /\ conf \in Configs
  /\ ThreadInit /\ WifiInit(conf.transport = "wifi")
  /\ sensorPc = "gate" /\ pubPc = "none" /\ job = "data"
  /\ uri = NoUri /\ ok = FALSE /\ stats = NoStats
  /\ moves = 0 /\ faults = 0 /\ otaSessions = 0

-----------------------------------------------------------------------------
(* makeNetworkLink(): the hooks of the chosen transport                    *)

Ready == IF Thread THEN attachedBit ELSE WifiReady(conf.family)

BrokerReachable == Thread => ThreadReachable(conf.broker)

Refresh ==
  IF Thread THEN RefreshNat64Prefix /\ UNCHANGED <<wifiVars, moves>>
  ELSE WifiRefresh /\ UNCHANGED <<threadVars, moves>>

(* Can packets reach the broker at the address the cycle uses?             *)
Routed == IF Thread THEN ThreadRoutes(conf.broker, uri) ELSE WifiRoutes(conf.family)

(* set_poll_period(); the Wi-Fi hooks do nothing.                          *)
SetPoll(p) == poll' = IF Thread THEN p ELSE poll

(* The link but for the poll period                                        *)
linkButPoll == <<otStack, threadBits, s_uplink_rssi_dbm, s_prev_valid,
                 wifiVars, moves, conf>>

onPublishWindowBegin == SetPoll("fast") /\ UNCHANGED linkButPoll
onPublishWindowEnd == SetPoll("slow") /\ UNCHANGED linkButPoll
onOtaWindowBegin == SetPoll("ota") /\ UNCHANGED linkButPoll
onOtaWindowEnd == SetPoll("fast") /\ UNCHANGED linkButPoll
onSessionClosing == SetPoll("close") /\ UNCHANGED linkButPoll
onSessionClosed == SetPoll("fast") /\ UNCHANGED linkButPoll

-----------------------------------------------------------------------------
(* The sensor task                                                         *)

(* The attach gate times out: the pass calls no other hook, refresh()      *)
(* included.  So does a pass that has nothing to publish.                  *)
SensorGateTimesOut ==
  /\ sensorPc = "gate"
  /\ ~Ready
  /\ UNCHANGED linkVars

(* The gate opens and mqtt_send_sensor_data() starts a publish task, or    *)
(* finds one running.                                                      *)
SensorPublishes ==
  /\ sensorPc = "gate"
  /\ Ready
  /\ sensorPc' = "await"
  /\ \/ /\ pubPc = "none"
        /\ pubPc' = "begin"
        /\ job' \in IF otaSessions < MaxOta THEN {"data", "ota"} ELSE {"data"}
        /\ ok' = FALSE
     \/ pubPc # "none" /\ UNCHANGED <<pubPc, job, ok>>
  /\ UNCHANGED <<threadVars, wifiVars, moves, conf, uri, stats, faults, otaSessions>>

(* The publish task has ended, or outlasts the wait; a cycle that is not   *)
(* healthy refreshes the link.  A running download counts as healthy.      *)
SensorResult ==
  /\ sensorPc = "await"
  /\ sensorPc' = "gate"
  /\ IF IF pubPc = "none" THEN ok ELSE pubPc = "chunks"
     THEN UNCHANGED <<threadVars, wifiVars, moves>>
     ELSE Refresh
  /\ UNCHANGED <<conf, pubVars>>

-----------------------------------------------------------------------------
(* run_publish_cycle()                                                     *)

PubBegin ==
  /\ pubPc = "begin"
  /\ onPublishWindowBegin
  /\ pubPc' = "reach"
  /\ UNCHANGED <<sensorPc, job, uri, ok, stats, faults, otaSessions>>

(* waitForBrokerReachable() times out.                                     *)
PubUnreachable ==
  /\ pubPc = "reach" /\ ~BrokerReachable
  /\ onPublishWindowEnd
  /\ pubPc' = "none" /\ job' = "data"
  /\ UNCHANGED <<sensorPc, uri, ok, stats, faults, otaSessions>>

PubReachable ==
  /\ pubPc = "reach" /\ BrokerReachable
  /\ pubPc' = "uri"
  /\ UNCHANGED <<threadVars, wifiVars, moves, conf, sensorPc, job, uri, ok,
                 stats, faults, otaSessions>>

(* brokerUri().  make_nat64_uri() copies the prefix without the lock: its  *)
(* second half may be of another prefix than its first.                    *)
NeedsPrefix == Thread /\ conf.broker = "ipv4"

BrokerUri(from, half, then) ==
  /\ pubPc = from
  /\ uri' = IF NeedsPrefix THEN [uri EXCEPT ![half] = s_nat64_prefix[half]] ELSE uri
  /\ pubPc' = then
  /\ UNCHANGED <<threadVars, wifiVars, moves, conf, sensorPc, job, ok, stats,
                 faults, otaSessions>>

PubUri ==
  \/ BrokerUri("uri", "hi", "uri lo")
  \/ BrokerUri("uri lo", "lo", IF job = "ota" THEN "ota connect" ELSE "connect")

(* A connect or a session fails on a link that works.                      *)
Fault == faults < MaxFaults /\ faults' = faults + 1

FailsOrFault == IF Routed THEN Fault ELSE UNCHANGED faults

PubConnected ==
  /\ pubPc = "connect" /\ Routed
  /\ pubPc' = "stats"
  /\ UNCHANGED <<threadVars, wifiVars, moves, conf, sensorPc, job, uri, ok,
                 stats, faults, otaSessions>>

(* The connect times out; the client is stopped and the cycle is over.     *)
PubNotConnected ==
  /\ pubPc = "connect"
  /\ FailsOrFault
  /\ pubPc' = "end"
  /\ UNCHANGED <<threadVars, wifiVars, moves, conf, sensorPc, job, uri, ok,
                 stats, otaSessions>>

(* readLinkStats(): on Thread the locked part first ...                    *)
PubReadStats ==
  /\ pubPc = "stats"
  /\ stats' = IF Thread THEN LockedStats ELSE ApLinkStats
  /\ s_prev_valid' = (Thread \/ s_prev_valid)
  /\ pubPc' = IF Thread THEN "uplink" ELSE "exchange"
  /\ UNCHANGED <<otStack, threadBits, s_uplink_rssi_dbm, poll, wifiVars, moves,
                 conf, sensorPc, job, uri, ok, faults, otaSessions>>

(* ... then the uplink reading, with the lock released.                    *)
PubReadUplink ==
  /\ pubPc = "uplink"
  /\ stats' = LinkStats(stats)
  /\ pubPc' = "exchange"
  /\ UNCHANGED <<threadVars, wifiVars, moves, conf, sensorPc, job, uri, ok,
                 faults, otaSessions>>

(* The state message is acknowledged: a healthy cycle, whose close runs in *)
(* a burst of fast polls.                                                  *)
PubAcked ==
  /\ pubPc = "exchange" /\ Routed
  /\ ok' = TRUE
  /\ stats' = NoStats
  /\ onSessionClosing
  /\ pubPc' = "closing"
  /\ UNCHANGED <<sensorPc, job, uri, faults, otaSessions>>

(* ... or it is not: the client is stopped, no burst.                      *)
PubNotAcked ==
  /\ pubPc = "exchange"
  /\ FailsOrFault
  /\ stats' = NoStats
  /\ pubPc' = "end"
  /\ UNCHANGED <<threadVars, wifiVars, moves, conf, sensorPc, job, uri, ok,
                 otaSessions>>

(* The rest of close_session(): drained or capped, stopped, closed.        *)
PubClosed ==
  /\ pubPc = "closing"
  /\ onSessionClosed
  /\ pubPc' \in IF otaSessions < MaxOta THEN {"ota connect", "end"} ELSE {"end"}
  /\ UNCHANGED <<sensorPc, job, uri, ok, stats, faults, otaSessions>>

-----------------------------------------------------------------------------
(* run_ota_if_due() and the link side of ota_run_session()                 *)

OtaNotConnected ==
  /\ pubPc = "ota connect"
  /\ FailsOrFault
  /\ pubPc' = "end"
  /\ UNCHANGED <<threadVars, wifiVars, moves, conf, sensorPc, job, uri, ok,
                 stats, otaSessions>>

(* The session may end before its window opens (battery, partition).       *)
OtaRefused ==
  /\ pubPc = "ota connect" /\ Routed
  /\ pubPc' = "end"
  /\ UNCHANGED <<threadVars, wifiVars, moves, conf, sensorPc, job, uri, ok,
                 stats, faults, otaSessions>>

OtaBegins ==
  /\ pubPc = "ota connect" /\ Routed
  /\ otaSessions < MaxOta
  /\ otaSessions' = otaSessions + 1
  /\ onOtaWindowBegin
  /\ pubPc' = "chunks"
  /\ UNCHANGED <<sensorPc, job, uri, ok, stats, faults>>

(* Mutant: only a download that is complete closes the window.             *)
MutOtaInterrupted ==
  /\ pubPc = "chunks"
  /\ FailsOrFault
  /\ UNCHANGED poll /\ UNCHANGED linkButPoll
  /\ pubPc' \in IF otaSessions < MaxOta THEN {"uri", "end"} ELSE {"end"}
  /\ job' = IF pubPc' = "uri" THEN "ota" ELSE job
  /\ UNCHANGED <<sensorPc, uri, ok, stats, otaSessions>>

(* The connection is lost and, while the update is still due, the loop     *)
(* reconnects at an address built anew; or a chunk times out.              *)
OtaInterrupted ==
  /\ pubPc = "chunks"
  /\ FailsOrFault
  /\ onOtaWindowEnd
  /\ pubPc' \in IF otaSessions < MaxOta THEN {"uri", "end"} ELSE {"end"}
  /\ job' = IF pubPc' = "uri" THEN "ota" ELSE job
  /\ UNCHANGED <<sensorPc, uri, ok, stats, otaSessions>>

(* The image is complete but bad.                                          *)
OtaDiscards ==
  /\ pubPc = "chunks"
  /\ onOtaWindowEnd
  /\ pubPc' = "end"
  /\ UNCHANGED <<sensorPc, job, uri, ok, stats, faults, otaSessions>>

(* The image is good: the window is closed and the device restarts.        *)
OtaInstalls ==
  /\ pubPc = "chunks"
  /\ ThreadRestarts /\ WifiRestarts(~Thread)
  /\ sensorPc' = "gate" /\ pubPc' = "none" /\ job' = "data"
  /\ uri' = NoUri /\ ok' = FALSE /\ stats' = NoStats
  /\ UNCHANGED <<moves, conf, faults, otaSessions>>

(* The window closes and the task ends, with its locals.                   *)
PubEnd ==
  /\ pubPc = "end"
  /\ onPublishWindowEnd
  /\ pubPc' = "none" /\ job' = "data" /\ uri' = NoUri
  /\ UNCHANGED <<sensorPc, ok, stats, faults, otaSessions>>

PubStep ==
  \/ PubBegin \/ PubUnreachable \/ PubReachable \/ PubUri
  \/ PubConnected \/ PubNotConnected \/ PubReadStats \/ PubReadUplink
  \/ PubAcked \/ PubNotAcked \/ PubClosed
  \/ OtaNotConnected \/ OtaRefused \/ OtaBegins \/ OtaInterrupted
  \/ OtaDiscards \/ OtaInstalls \/ PubEnd

SensorStep == SensorGateTimesOut \/ SensorPublishes \/ SensorResult

ThreadStep ==
  /\ Thread
  /\ ThreadStackStep \/ ProcessStateChange
  /\ UNCHANGED <<wifiVars, conf, sensorPc, pubVars>>

WifiStep ==
  /\ ~Thread
  /\ WifiStackStep \/ WifiEventHandler(conf.family)
  /\ UNCHANGED <<threadVars, moves, conf, sensorPc, pubVars>>

LinkNext == PubStep \/ SensorStep \/ ThreadStep \/ WifiStep

LinkSpec == LinkInit /\ [][LinkNext]_linkVars

(* The tasks run, an owed callback and a posted event are delivered, and   *)
(* an access point that can be joined answers and has an address to give.  *)
(* Values to publish keep coming, between cycles that only update: the LP  *)
(* core flags one at least every max_skip_cycles + 1 polls.                *)
LinkFairSpec ==
  /\ LinkSpec
  /\ WF_linkVars(PubStep) /\ WF_linkVars(SensorResult)
  /\ SF_linkVars(pubPc = "none" /\ SensorPublishes /\ job' = "data")
  /\ WF_linkVars(ProcessStateChange /\ UNCHANGED <<wifiVars, conf, sensorPc, pubVars>>)
  /\ WF_linkVars(WifiEventHandler(conf.family)
                   /\ UNCHANGED <<threadVars, moves, conf, sensorPc, pubVars>>)
  /\ WF_linkVars((ApAccepts \/ \E a \in {"ipv4", "global"} : GetsAddress(a))
                   /\ UNCHANGED <<threadVars, moves, conf, sensorPc, pubVars>>)

-----------------------------------------------------------------------------
(* Properties.                                                             *)

(* Every variable holds a value of its C++ type.                           *)
LinkTypeOK ==
  /\ ThreadTypeOK /\ WifiTypeOK
  /\ conf \in Configs
  /\ sensorPc \in {"gate", "await"}
  /\ pubPc \in {"none", "begin", "reach", "uri", "uri lo", "connect", "stats",
                "uplink", "exchange", "closing", "ota connect", "chunks", "end"}
  /\ job \in {"data", "ota"} /\ ok \in BOOLEAN
  /\ uri \in [{"hi", "lo"} -> Prefixes \cup {WellKnown, None}]

(* network_link.h: the windows nest, and onOtaWindowEnd "MUST run on every *)
(* abort path".  Whatever way a cycle ends, the radio polls at the period  *)
(* of the innermost window that is open, and slowly when none is.          *)
PollMatchesWindow ==
  poll = CASE ~Thread \/ pubPc \in {"none", "begin"} -> "slow"
           [] Thread /\ pubPc = "closing" -> "close"
           [] Thread /\ pubPc = "chunks" -> "ota"
           [] OTHER -> "fast"

(* What the link tells the tasks is what the network is, once the callback *)
(* or the events the stack owes are handled: the gate is open if and only  *)
(* if the device is a child, the prefix is one that is announced, a route  *)
(* that exists is known, and an uplink reading is of this parent; on Wi-Fi *)
(* the gate is open if and only if the station has an address.             *)
LinkStateIsCurrent ==
  /\ Thread /\ ~changed =>
       /\ attachedBit <=> role = "child"
       /\ role = "child" =>
            /\ netData.nat64 # None =>
                 prefixBit /\ s_nat64_prefix = Whole(netData.nat64)
            /\ AnyRoute(netData) => routeBit
            /\ s_uplink_rssi_dbm \in {None, parent}
  /\ ~Thread /\ events = <<>> =>
       (Ready <=> (sta = "up" /\ (IF conf.family = "ipv6" THEN "linklocal" ELSE "ipv4") \in addresses))

(* The broker is within reach of the network as it is now.                 *)
Usable ==
  Thread => role = "child" /\ (IF conf.broker = "ipv6" THEN AnyRoute(netData)
                               ELSE netData.nat64 # None)

(* sensorstask.cpp: no reboot is needed, "the retry loop already notices   *)
(* recovery on its own".  Once the network stays usable, cycles succeed    *)
(* again and again, whatever prefix, bit or torn address was left behind.  *)
LinkRecovers == <>[]Usable => []<>(pubPc = "closing" /\ ok)

(* network_link.h: the telemetry of a window is "read in a single pass so  *)
(* the whole set is mutually consistent".  The uplink reading is of the    *)
(* parent the rest of the set is about.                                    *)
StatsAreOfOneParent ==
  pubPc = "exchange" /\ stats # NoStats => stats.uplink \in {None, stats.parent}

(* network_link.h: readLinkStats() is "nullopt when the link is unusable   *)
(* altogether (detached/disconnected)".                                    *)
StatsMeanAttached == pubPc = "exchange" /\ stats # NoStats => stats.parent # None

(* The address of the broker is built from one prefix.                     *)
UriIsWhole == pubPc \in {"connect", "ota connect"} => uri.hi = uri.lo

(* wifi_link.cpp: "waitForReady() already guarantees the one family Wi-Fi  *)
(* brought up is ready": a cycle whose gate is open connects.              *)
WifiReadyIsRouted == ~Thread /\ events = <<>> /\ Ready => Routed
=============================================================================
