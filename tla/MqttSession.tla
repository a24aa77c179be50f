---------------------------- MODULE MqttSession -----------------------------
(***************************************************************************)
(* The persistent MQTT client of mqtt_sender.cpp: when it subscribes, how  *)
(* it counts acknowledgements, and what it concludes from them.            *)
(*                                                                         *)
(* The broker is external.  It keeps a session for the device's client id  *)
(* from the moment it reads a CONNECT, queues QoS 1 messages for a         *)
(* subscribed session until they are acknowledged, and answers on one      *)
(* ordered stream.  `up` and `down` are the two directions of the TCP      *)
(* connection; what is in flight when the connection ends is lost, except  *)
(* that the broker may still read what it had received.                    *)
(*                                                                         *)
(* The manifest, the install flag and the settings are one retained value, *)
(* a counter of its changes: the changes queued for a session are those    *)
(* from the oldest one it has not acknowledged.  The device acknowledges   *)
(* them in their order.  The discovery configurations are groups with      *)
(* a number of messages each (DISC_TEMP, DISC_BATT, ...).  A cycle without *)
(* values does not use this connection (PublishTask.tla), and stopping the *)
(* client empties its outbox.  The history log is its two counters; each   *)
(* record is a batch of its own.                                           *)
(***************************************************************************)
EXTENDS Integers, Sequences, SequencesExt

CONSTANTS
  Groups,       \* discovery groups
  GroupMsgs,    \* messages of each group
  Optional,     \* groups whose values a cycle may lack
  BackfillBatches, \* BACKFILL_MAX_BATCHES_PER_CYCLE (5 in the code)
  MaxChanges,   \* bound: changes of the retained value
  MaxFaults,    \* bound: faults of the environment
  MqttEnv       \* what the environment may do: a subset of MqttEvents

(* "loss"   a connection may drop, an answer may come too late             *)
(* "forget" the broker may lose the session                                *)
(* "acl"    the broker may refuse the subscription                         *)
(* "boot"   the device may restart                                         *)
MqttEvents == {"loss", "forget", "acl", "boot"}

ASSUME MqttAssumption ==
  /\ IsFiniteSet(Groups) /\ GroupMsgs \in [Groups -> Nat \ {0}]
  /\ Optional \subseteq Groups
  /\ BackfillBatches \in Nat \ {0}
  /\ MaxChanges \in Nat /\ MaxFaults \in Nat
  /\ MqttEnv \subseteq MqttEvents

VARIABLES
  \* the broker
  session,      \* its session for the client id
  retained,     \* the retained value (0: none)
  got,          \* the messages it has received
  \* the connection
  linked, up, down,
  \* mqtt_sender.cpp
  s_session_subscribed, s_discovery_sent_mask,
  ctx,          \* MqttCtx and the event bits of s_persistentEg
  pc, cyc,      \* where run_publish_cycle() is, and its locals
  log,          \* s_head and s_tail of the history log
  \* history
  seen,         \* the last retained value delivered since boot
  atConnect,    \* the retained value when the broker read this CONNECT
  faults

broker == <<session, retained, got>>
net == <<linked, up, down>>
memory == <<s_session_subscribed, s_discovery_sent_mask>>
history == <<seen, atConnect, faults>>
mqttVars == <<broker, net, memory, ctx, pc, cyc, log, history>>

NoSession == [present |-> FALSE, subscribed |-> FALSE, next |-> 1]
NewCtx == [connected |-> FALSE, session_present |-> FALSE, subscribed |-> FALSE,
           expected |-> 0, received |-> 0, allAcked |-> FALSE]
NewCycle == [subscribe |-> FALSE, want |-> {}, need |-> {}, ok |-> FALSE,
             batches |-> 0]
EmptyLog == [head |-> 0, tail |-> 0]

Msg(g, i) == [k |-> "PUBLISH", g |-> g, i |-> i]
StateMsg == Msg("state", 0)
BatchMsg(i) == Msg("batch", i)
EchoMsg == Msg("echo", 0)
Configs(gs) == UNION {{Msg(g, i) : i \in 1..GroupMsgs[g]} : g \in gs}

(* The messages of a set of groups, in some fixed order.                   *)
ConfigSeq(gs) == SetToSeq(Configs(gs))

MqttInit ==
  /\ session = NoSession /\ retained = 0 /\ got = {}
  /\ linked = FALSE /\ up = <<>> /\ down = <<>>
  /\ s_session_subscribed = FALSE /\ s_discovery_sent_mask = {}
  /\ ctx = NewCtx /\ pc = "sleep" /\ cyc = NewCycle
  /\ log = EmptyLog
  /\ seen = 0 /\ atConnect = 0 /\ faults = 0

Fault(e) == e \in MqttEnv /\ faults < MaxFaults /\ faults' = faults + 1

-----------------------------------------------------------------------------
(* run_publish_cycle()                                                     *)

(* start_persistent_client(), a poll interval or more after the last cycle *)
(* ended: what that one sent has arrived or is lost.  `got` keeps one      *)
(* cycle's own messages apart from the next one's.                         *)
StartClient ==
  /\ pc = "sleep"
  /\ IF up = <<>> THEN UNCHANGED faults ELSE Fault("loss")
  /\ \E lacks \in SUBSET Optional :
       cyc' = [NewCycle EXCEPT !.want = Groups \ lacks]
  /\ ctx' = [ctx EXCEPT !.connected = FALSE, !.session_present = FALSE,
                        !.subscribed = FALSE, !.allAcked = FALSE]
  /\ linked' = TRUE
  /\ up' = <<[k |-> "CONNECT"]>>
  /\ down' = <<>>
  /\ got' = got \ {StateMsg, EchoMsg}
  /\ pc' = "connecting"
  /\ UNCHANGED <<session, retained, memory, log, seen, atConnect>>

SendUp(q) == up' = IF linked THEN up \o q ELSE up

(* Mutant: a group counts as one message.                                  *)
MutCountGroups ==
  /\ pc = "connecting"
  /\ ctx.connected
  /\ LET held == ctx.session_present /\ s_session_subscribed
         need == cyc.want \ s_discovery_sent_mask
     IN  /\ s_session_subscribed' = held
         /\ cyc' = [cyc EXCEPT !.subscribe = ~held, !.need = need]
         /\ SendUp(IF held THEN <<>> ELSE <<[k |-> "SUBSCRIBE"]>>)
         /\ ctx' = [ctx EXCEPT !.expected = 1 + Cardinality(need),
                               !.received = 0, !.allAcked = FALSE]
  /\ pc' = "publish"
  /\ UNCHANGED <<broker, linked, down, s_discovery_sent_mask, log, history>>

(* Connected: a session the broker no longer holds is subscribed again,    *)
(* and the acknowledgements to expect are counted before anything is sent. *)
Connected ==
  /\ pc = "connecting"
  /\ ctx.connected
  /\ LET held == ctx.session_present /\ s_session_subscribed
         need == cyc.want \ s_discovery_sent_mask
     IN  /\ s_session_subscribed' = held
         /\ cyc' = [cyc EXCEPT !.subscribe = ~held, !.need = need]
         /\ SendUp(IF held THEN <<>> ELSE <<[k |-> "SUBSCRIBE"]>>)
         /\ ctx' = [ctx EXCEPT !.expected = 1 + Cardinality(Configs(need)),
                               !.received = 0, !.allAcked = FALSE]
  /\ pc' = "publish"
  /\ UNCHANGED <<broker, linked, down, s_discovery_sent_mask, log, history>>

PublishState ==
  /\ pc = "publish"
  /\ SendUp(Append(ConfigSeq(cyc.need), StateMsg))
  /\ pc' = "await"
  /\ UNCHANGED <<broker, linked, down, memory, ctx, cyc, log, history>>

(* Mutant: the SUBACK is not looked at.                                    *)
MutIgnoreSuback ==
  /\ pc = "await"
  /\ ctx.allAcked
  /\ cyc' = [cyc EXCEPT !.ok = TRUE]
  /\ s_discovery_sent_mask' = s_discovery_sent_mask \cup cyc.need
  /\ s_session_subscribed' = TRUE
  /\ pc' = "replay"
  /\ UNCHANGED <<broker, net, ctx, log, history>>

(* Every acknowledgement counted: the discovery groups are done, and a     *)
(* subscription whose SUBACK came is held from now on.                     *)
StateAcked ==
  /\ pc = "await"
  /\ ctx.allAcked
  /\ cyc' = [cyc EXCEPT !.ok = TRUE]
  /\ s_discovery_sent_mask' = s_discovery_sent_mask \cup cyc.need
  /\ s_session_subscribed' =
       (s_session_subscribed \/ (cyc.subscribe /\ ctx.subscribed))
  /\ pc' = "replay"
  /\ UNCHANGED <<broker, net, ctx, log, history>>

MorePending == log.head # log.tail /\ cyc.batches < BackfillBatches

(* Mutant: the bit of the state message's wait is not cleared.             *)
MutReplayStaleBit ==
  /\ pc = "replay"
  /\ MorePending
  /\ ctx' = [ctx EXCEPT !.expected = 1, !.received = 0]
  /\ SendUp(<<BatchMsg(log.tail)>>)
  /\ pc' = "awaitBatch"
  /\ UNCHANGED <<broker, linked, down, memory, cyc, log, history>>

(* replay_history_if_pending(): a fresh wait for one acknowledgement.      *)
ReplayBatch ==
  /\ pc = "replay"
  /\ MorePending
  /\ ctx' = [ctx EXCEPT !.expected = 1, !.received = 0, !.allAcked = FALSE]
  /\ SendUp(<<BatchMsg(log.tail)>>)
  /\ pc' = "awaitBatch"
  /\ UNCHANGED <<broker, linked, down, memory, cyc, log, history>>

BatchAcked ==
  /\ pc = "awaitBatch"
  /\ ctx.allAcked
  /\ log' = [log EXCEPT !.tail = @ + 1]
  /\ cyc' = [cyc EXCEPT !.batches = @ + 1]
  /\ pc' = "replay"
  /\ UNCHANGED <<broker, net, memory, ctx, history>>

(* runtime_config_apply_pending() may publish settings, which nothing      *)
(* counts.                                                                 *)
EchoSettings ==
  /\ pc = "echo" \/ (pc = "replay" /\ ~MorePending)
  /\ \/ SendUp(<<EchoMsg>>)
     \/ UNCHANGED up
  /\ pc' = "close"
  /\ UNCHANGED <<broker, linked, down, memory, ctx, cyc, log, history>>

(* Mutant: the discovery groups of an unacknowledged cycle count as sent.  *)
MutTimesOut ==
  /\ \/ pc = "connecting" /\ ~ctx.connected
     \/ pc \in {"await", "awaitBatch"} /\ ~ctx.allAcked
  /\ \/ ~linked /\ UNCHANGED faults
     \/ linked /\ Fault("loss")
  /\ s_discovery_sent_mask' = s_discovery_sent_mask \cup cyc.need
  /\ pc' = IF pc = "awaitBatch" THEN "echo" ELSE "close"
  /\ UNCHANGED <<broker, net, s_session_subscribed, ctx, cyc, log, seen,
                 atConnect>>

(* A wait ran out: 5 s for the connect, 4 s for acknowledgements.  With a  *)
(* dead connection it always does; otherwise the link was too slow.        *)
TimesOut ==
  /\ \/ pc = "connecting" /\ ~ctx.connected
     \/ pc \in {"await", "awaitBatch"} /\ ~ctx.allAcked
  /\ \/ ~linked /\ UNCHANGED faults
     \/ linked /\ Fault("loss")
  /\ pc' = IF pc = "awaitBatch" THEN "echo" ELSE "close"
  /\ UNCHANGED <<broker, net, memory, ctx, cyc, log, seen, atConnect>>

(* close_session(): a healthy cycle first waits, up to a cap, until every  *)
(* message it sent is acknowledged.  The reading of a failed cycle is      *)
(* appended to the history log by the sensor task.                         *)
OutboxEmpty ==
  /\ \A i \in DOMAIN up : up[i].k = "ACK"
  /\ \A i \in DOMAIN down : down[i].k = "DATA"

CloseSession ==
  /\ pc = "close"
  /\ IF cyc.ok /\ linked /\ ~OutboxEmpty THEN Fault("loss") ELSE UNCHANGED faults
  /\ log' = IF cyc.ok THEN log ELSE [log EXCEPT !.head = @ + 1]
  /\ linked' = FALSE
  /\ down' = <<>>
  /\ pc' = "sleep"
  /\ UNCHANGED <<broker, up, memory, ctx, cyc, seen, atConnect>>

-----------------------------------------------------------------------------
(* mqtt_event_handler(), in esp-mqtt's task                                *)
OnEvent ==
  /\ linked /\ down # <<>>
  /\ down' = Tail(down)
  /\ LET e == Head(down)
     IN  \/ /\ e.k = "CONNACK"
            /\ ctx' = [ctx EXCEPT !.connected = TRUE, !.session_present = e.present]
            /\ UNCHANGED <<up, seen>>
         \/ /\ e.k = "PUBACK"
            /\ ctx' = [ctx EXCEPT !.received = @ + 1,
                                  !.allAcked = @ \/ ctx.received + 1 >= ctx.expected]
            /\ UNCHANGED <<up, seen>>
         \/ /\ e.k = "SUBACK"
            /\ ctx' = [ctx EXCEPT !.subscribed = @ \/ e.ok]
            /\ UNCHANGED <<up, seen>>
         \/ /\ e.k = "DATA"
            /\ seen' = e.v
            /\ SendUp(<<[k |-> "ACK", v |-> e.v]>>)
            /\ UNCHANGED ctx
  /\ UNCHANGED <<broker, linked, memory, pc, cyc, log, atConnect, faults>>

-----------------------------------------------------------------------------
(* The broker, as far as mqtt_sender.cpp relies on it                      *)

(* The broker has read this connection's CONNECT.                          *)
Online == linked /\ (up = <<>> \/ Head(up).k # "CONNECT")

Answer(q) == down' = IF linked THEN down \o q ELSE down
DataMsg(v) == [k |-> "DATA", v |-> v]

(* The changes queued for the session, from the oldest.                    *)
Queue ==
  LET n == IF session.subscribed THEN retained + 1 - session.next ELSE 0
  IN  [i \in 1..n |-> DataMsg(session.next + i - 1)]

(* A CONNECT without clean session resumes the session or creates one.     *)
BrokerConnect ==
  /\ session' = [session EXCEPT !.present = TRUE]
  /\ Answer(<<[k |-> "CONNACK", present |-> session.present]>> \o Queue)
  /\ atConnect' = retained
  /\ UNCHANGED <<got, faults>>

BrokerSubscribe ==
  \/ /\ session' = [session EXCEPT !.subscribed = TRUE,
                       !.next = IF retained = 0 \/ Queue # <<>> THEN @ ELSE retained]
     /\ Answer(<<[k |-> "SUBACK", ok |-> TRUE]>>
                 \o (IF retained = 0 THEN <<>> ELSE <<DataMsg(retained)>>))
     /\ UNCHANGED <<got, atConnect, faults>>
  \/ /\ Fault("acl")
     /\ Answer(<<[k |-> "SUBACK", ok |-> FALSE]>>)
     /\ UNCHANGED <<session, got, atConnect>>

BrokerPublish(m) ==
  /\ got' = got \cup {m}
  /\ Answer(<<[k |-> "PUBACK"]>>)
  /\ UNCHANGED <<session, atConnect, faults>>

BrokerAck(v) ==
  /\ session' = [session EXCEPT !.next = IF v = @ THEN @ + 1 ELSE @]
  /\ UNCHANGED <<down, got, atConnect, faults>>

BrokerReads ==
  /\ up # <<>>
  /\ up' = Tail(up)
  /\ LET p == Head(up)
     IN  \/ p.k = "CONNECT" /\ BrokerConnect
         \/ p.k = "SUBSCRIBE" /\ BrokerSubscribe
         \/ p.k = "PUBLISH" /\ BrokerPublish(p)
         \/ p.k = "ACK" /\ BrokerAck(p.v)
  /\ UNCHANGED <<retained, linked, memory, ctx, pc, cyc, log, seen>>

(* Somebody changes the retained value, with QoS 1.                        *)
RetainedChanges ==
  /\ retained < MaxChanges
  /\ retained' = retained + 1
  /\ down' = IF session.subscribed /\ Online THEN Append(down, DataMsg(retained'))
             ELSE down
  /\ UNCHANGED <<session, got, linked, up, memory, ctx, pc, cyc, log, history>>

ConnectionDrops ==
  /\ Fault("loss")
  /\ linked
  /\ linked' = FALSE
  /\ down' = <<>>
  /\ up' \in {up, <<>>}
  /\ UNCHANGED <<broker, memory, ctx, pc, cyc, log, seen, atConnect>>

(* The broker restarts without its sessions, between two connections.      *)
SessionForgotten ==
  /\ Fault("forget")
  /\ ~linked /\ session.present
  /\ session' = NoSession
  /\ up' = <<>>
  /\ UNCHANGED <<retained, got, linked, down, memory, ctx, pc, cyc, log,
                 seen, atConnect>>

(* Mutant: the belief in the subscription outlives a restart.              *)
MutBootRemembers ==
  /\ Fault("boot")
  /\ UNCHANGED s_session_subscribed /\ s_discovery_sent_mask' = {}
  /\ ctx' = NewCtx /\ pc' = "sleep" /\ cyc' = NewCycle
  /\ linked' = FALSE /\ down' = <<>>
  /\ seen' = 0
  /\ log' = EmptyLog
  /\ got' = {m \in got : m.g # "batch"}
  /\ UNCHANGED <<session, retained, up, atConnect>>

(* The device restarts: what it keeps in RAM is lost, the history log too. *)
DeviceBoots ==
  /\ Fault("boot")
  /\ s_session_subscribed' = FALSE /\ s_discovery_sent_mask' = {}
  /\ ctx' = NewCtx /\ pc' = "sleep" /\ cyc' = NewCycle
  /\ linked' = FALSE /\ down' = <<>>
  /\ seen' = 0
  /\ log' = EmptyLog
  /\ got' = {m \in got : m.g # "batch"}
  /\ UNCHANGED <<session, retained, up, atConnect>>

CycleStep ==
  \/ StartClient \/ Connected \/ PublishState \/ StateAcked \/ ReplayBatch
  \/ BatchAcked \/ EchoSettings \/ (TimesOut /\ ~linked) \/ CloseSession

MqttNext ==
  \/ CycleStep \/ TimesOut \/ OnEvent \/ BrokerReads
  \/ RetainedChanges \/ ConnectionDrops \/ SessionForgotten \/ DeviceBoots

MqttSpec == MqttInit /\ [][MqttNext]_mqttVars

(* Wakes keep coming, and the broker and esp-mqtt's task keep running.     *)
MqttFairSpec ==
  MqttSpec /\ WF_mqttVars(CycleStep) /\ WF_mqttVars(OnEvent)
           /\ WF_mqttVars(BrokerReads)

-----------------------------------------------------------------------------
(* Every variable holds a value of its C++ type.                           *)
MqttTypeOK ==
  /\ {linked, s_session_subscribed} \subseteq BOOLEAN
  /\ s_discovery_sent_mask \subseteq Groups
  /\ ctx.received \in Nat /\ ctx.expected \in Nat
  /\ pc \in {"sleep", "connecting", "publish", "await", "replay", "awaitBatch",
             "echo", "close"}
  /\ log.tail \in 0..log.head

(* "Data actually reached the broker": when a cycle reports ok, the broker *)
(* has its state message and every discovery message it owed, although     *)
(* acknowledgements are only counted and never matched to a message.       *)
OkMeansReceived ==
  cyc.ok => StateMsg \in got /\ Configs(cyc.need) \subseteq got

(* A discovery group is never skipped before the broker has had all its    *)
(* messages, through lost acknowledgements, retries and restarts.          *)
SkippedWasReceived == Configs(s_discovery_sent_mask) \subseteq got

(* A reading leaves the history log only after the broker has received it: *)
(* no acknowledgement of another message is taken for the batch's.         *)
ReplayedWasReceived ==
  \A i \in 0..(log.tail - 1) : BatchMsg(i) \in got

(* The device believes in a subscription that the broker's session, made   *)
(* anew by a connect whose answer was lost, does not hold.                 *)
Orphaned == s_session_subscribed /\ session.present /\ ~session.subscribed

(* A cycle that ends ok has delivered every change made before it          *)
(* connected, if its SUBACK came or the subscription it relied on is still *)
(* there: the acknowledgement of the state message follows the retained    *)
(* set and the queued changes on the same stream.                          *)
OkMeansUpToDate ==
  pc # "sleep" /\ cyc.ok
  /\ (IF cyc.subscribe THEN ctx.subscribed ELSE session.subscribed)
    => seen >= atConnect

(* Whatever is lost, refused or restarted, the device at last knows the    *)
(* retained value, unless it is cut off by a wrong belief.                 *)
ChangeArrives == <>[](seen = retained \/ Orphaned)

(* "True while the broker's session for our client id holds our            *)
(* subscriptions": the device never skips a subscribe the session lacks.   *)
SkippedIsSubscribed ==
  pc \in {"publish", "await", "replay"} /\ linked /\ ~cyc.subscribe
    => session.subscribed
=============================================================================
