-------------------------- MODULE MqttSessionProofs -------------------------
(***************************************************************************)
(* Proofs about the persistent MQTT client, for any discovery groups, any  *)
(* number of changes and any sequence of faults: what a counted            *)
(* acknowledgement says about the messages, and what a cycle that ends ok  *)
(* says about the retained value.                                          *)
(***************************************************************************)
EXTENDS MqttSession, FiniteSetTheorems, TLAPS

-----------------------------------------------------------------------------
(* Counting packets of one kind on a stream                                *)

Places(s, k) == {i \in 1..Len(s) : s[i].k = k}
CountOf(s, k) == Cardinality(Places(s, k))

LEMMA CountType ==
  ASSUME NEW S, NEW s \in Seq(S), NEW k
  PROVE  IsFiniteSet(Places(s, k)) /\ CountOf(s, k) \in Nat /\ CountOf(s, k) <= Len(s)
<1>1. Len(s) \in Nat
  OBVIOUS
<1>2. IsFiniteSet(1..Len(s)) /\ Cardinality(1..Len(s)) = Len(s)
  BY <1>1, FS_Interval, SMTT(30)
<1>3. Places(s, k) \in SUBSET (1..Len(s))
  BY DEF Places
<1>4. IsFiniteSet(Places(s, k)) /\ Cardinality(Places(s, k)) <= Len(s)
  BY <1>2, <1>3, FS_Subset
<1> QED
  BY <1>4, FS_CardinalityType DEF CountOf

LEMMA CountConcat ==
  ASSUME NEW S, NEW s \in Seq(S), NEW t \in Seq(S), NEW k
  PROVE  CountOf(s \o t, k) = CountOf(s, k) + CountOf(t, k)
<1> DEFINE n == Len(s)
           P == Places(s, k)
           T == Places(t, k)
           Q == {i + n : i \in T}
<1>1. n \in Nat /\ Len(t) \in Nat /\ Len(s \o t) = n + Len(t)
  OBVIOUS
<1>2. IsFiniteSet(P) /\ IsFiniteSet(T)
  BY CountType
<1>3. Places(s \o t, k) = P \cup Q
  <2>1. ASSUME NEW i \in Places(s \o t, k) PROVE i \in P \cup Q
    <3>1. i \in 1..(n + Len(t)) /\ (s \o t)[i].k = k
      BY <1>1 DEF Places
    <3>2. CASE i <= n
      <4>1. i \in 1..n /\ (s \o t)[i] = s[i]
        BY <1>1, <3>1, <3>2
      <4> QED
        BY <3>1, <4>1 DEF Places
    <3>3. CASE i > n
      <4>1. i - n \in 1..Len(t) /\ (s \o t)[i] = t[i - n] /\ i = (i - n) + n
        BY <1>1, <3>1, <3>3
      <4>2. i - n \in T
        BY <3>1, <4>1 DEF Places
      <4> QED
        BY <4>1, <4>2
    <3> QED
      BY <1>1, <3>1, <3>2, <3>3
  <2>2. ASSUME NEW i \in P PROVE i \in Places(s \o t, k)
    <3>1. i \in 1..n /\ s[i].k = k
      BY DEF Places
    <3>2. i \in 1..(n + Len(t)) /\ (s \o t)[i] = s[i]
      BY <1>1, <3>1
    <3> QED
      BY <1>1, <3>1, <3>2 DEF Places
  <2>3. ASSUME NEW j \in T PROVE j + n \in Places(s \o t, k)
    <3>1. j \in 1..Len(t) /\ t[j].k = k
      BY DEF Places
    <3>2. j + n \in 1..(n + Len(t)) /\ (s \o t)[j + n] = t[j]
      BY <1>1, <3>1
    <3> QED
      BY <1>1, <3>1, <3>2 DEF Places
  <2> QED
    BY <2>1, <2>2, <2>3
<1>4. P \cap Q = {}
  <2>1. \A i \in P : i \in Int /\ i <= n
    BY <1>1 DEF Places
  <2>2. \A i \in T : i \in Int /\ i >= 1
    BY <1>1 DEF Places
  <2> QED
    BY <1>1, <2>1, <2>2
<1>5. ExistsBijection(T, Q)
  <2> DEFINE f == [i \in T |-> i + n]
  <2>1. \A i \in T : i \in Int
    BY <1>1 DEF Places
  <2>2. f \in [T -> Q]
    OBVIOUS
  <2>3. \A a, b \in T : f[a] = f[b] => a = b
    BY <1>1, <2>1
  <2>4. \A q \in Q : \E a \in T : f[a] = q
    OBVIOUS
  <2>5. f \in Injection(T, Q) /\ f \in Surjection(T, Q)
    BY <2>2, <2>3, <2>4 DEF Injection, Surjection, IsInjective
  <2> QED
    BY <2>5 DEF ExistsBijection, Bijection
<1>6. IsFiniteSet(Q) /\ Cardinality(Q) = Cardinality(T)
  BY <1>2, <1>5, FS_Bijection
<1>7. Cardinality(P \cup Q) = Cardinality(P) + Cardinality(Q) - Cardinality(P \cap Q)
  BY <1>2, <1>6, FS_Union
<1>8. Cardinality(P) \in Nat /\ Cardinality(T) \in Nat /\ Cardinality(P \cap Q) = 0
  BY <1>2, <1>4, FS_CardinalityType, FS_EmptySet
<1> HIDE DEF P, Q, T
<1> QED
  BY <1>3, <1>6, <1>7, <1>8 DEF CountOf, P, T

LEMMA CountOne ==
  ASSUME NEW p, NEW k
  PROVE  CountOf(<<p>>, k) = IF p.k = k THEN 1 ELSE 0
<1>1. CASE p.k = k
  <2>1. Places(<<p>>, k) = {1}
    BY <1>1 DEF Places
  <2> QED
    BY <1>1, <2>1, FS_Singleton DEF CountOf
<1>2. CASE p.k # k
  <2>1. Places(<<p>>, k) = {}
    BY <1>2 DEF Places
  <2> QED
    BY <1>2, <2>1, FS_EmptySet DEF CountOf
<1> QED
  BY <1>1, <1>2

LEMMA CountAppend ==
  ASSUME NEW S, NEW s \in Seq(S), NEW p \in S, NEW k
  PROVE  CountOf(s \o <<p>>, k) = CountOf(s, k) + IF p.k = k THEN 1 ELSE 0
<1> DEFINE t == <<p>>
<1>1. t \in Seq(S)
  OBVIOUS
<1>2. CountOf(t, k) = IF p.k = k THEN 1 ELSE 0
  BY CountOne
<1> HIDE DEF t
<1>3. CountOf(s \o t, k) = CountOf(s, k) + CountOf(t, k)
  BY <1>1, CountConcat
<1> QED
  BY <1>2, <1>3 DEF t

LEMMA CountEmpty == ASSUME NEW k PROVE CountOf(<<>>, k) = 0
<1>1. Places(<<>>, k) = {}
  BY DEF Places
<1> QED
  BY <1>1, FS_EmptySet DEF CountOf

LEMMA CountTail ==
  ASSUME NEW S, NEW s \in Seq(S), s # <<>>, NEW k
  PROVE  CountOf(s, k) = CountOf(Tail(s), k) + IF Head(s).k = k THEN 1 ELSE 0
<1>1. Head(s) \in S /\ Tail(s) \in Seq(S) /\ <<Head(s)>> \in Seq(S)
  OBVIOUS
<1>2. s = <<Head(s)>> \o Tail(s)
  <2> DEFINE t == <<Head(s)>> \o Tail(s)
  <2>1. t \in Seq(S) /\ Len(t) = Len(s)
    BY <1>1
  <2>2. \A i \in 1..Len(s) : t[i] = s[i]
    BY <1>1
  <2>3. s = [i \in 1..Len(s) |-> s[i]] /\ t = [i \in 1..Len(t) |-> t[i]]
    BY <2>1
  <2> HIDE DEF t
  <2>4. t = s
    BY <2>1, <2>2, <2>3
  <2> QED
    BY <2>4 DEF t
<1>3. CountOf(<<Head(s)>> \o Tail(s), k) = CountOf(<<Head(s)>>, k) + CountOf(Tail(s), k)
  BY <1>1, CountConcat
<1>4. CountOf(Tail(s), k) \in Nat
  BY <1>1, CountType
<1>5. CountOf(<<Head(s)>>, k) = IF Head(s).k = k THEN 1 ELSE 0
  BY CountOne
<1>6. CountOf(s, k) = CountOf(<<Head(s)>>, k) + CountOf(Tail(s), k)
  BY <1>2, <1>3, Zenon
<1> QED
  BY <1>4, <1>5, <1>6

(* A count of zero: there is none; and where there is none, it is zero.    *)
LEMMA CountZero ==
  ASSUME NEW S, NEW s \in Seq(S), NEW k
  PROVE  CountOf(s, k) = 0 <=> \A i \in 1..Len(s) : s[i].k # k
<1>1. IsFiniteSet(Places(s, k))
  BY CountType
<1>2. CountOf(s, k) = 0 <=> Places(s, k) = {}
  BY <1>1, FS_EmptySet DEF CountOf
<1> QED
  BY <1>2 DEF Places

-----------------------------------------------------------------------------
(* The discovery messages, as a set and as the sequence that is sent       *)

LEMMA ConfigsFinite ==
  ASSUME NEW gs \in SUBSET Groups
  PROVE  IsFiniteSet(Configs(gs))
<1> DEFINE Of(g) == {Msg(g, i) : i \in 1..GroupMsgs[g]}
           All == {Of(g) : g \in gs}
<1>1. IsFiniteSet(gs)
  BY MqttAssumption, FS_Subset
<1>2. ASSUME NEW g \in gs PROVE IsFiniteSet(Of(g))
  <2> DEFINE f == [i \in 1..GroupMsgs[g] |-> Msg(g, i)]
  <2>1. GroupMsgs[g] \in Int
    BY MqttAssumption
  <2>2. IsFiniteSet(1..GroupMsgs[g])
    BY <2>1, FS_Interval
  <2>3. f \in Surjection(1..GroupMsgs[g], Of(g))
    BY DEF Surjection
  <2> QED
    BY <2>2, <2>3, FS_Surjection
<1>3. IsFiniteSet(All)
  <2> DEFINE f == [g \in gs |-> Of(g)]
  <2> HIDE DEF Of
  <2>1. f \in Surjection(gs, All)
    BY DEF Surjection
  <2> QED
    BY <1>1, <2>1, FS_Surjection
<1>4. IsFiniteSet(UNION All)
  BY <1>2, <1>3, FS_UNION
<1> QED
  BY <1>4 DEF Configs

LEMMA ConfigSeqIs ==
  ASSUME NEW gs \in SUBSET Groups
  PROVE  /\ Cardinality(Configs(gs)) \in Nat
         /\ ConfigSeq(gs) \in [1..Cardinality(Configs(gs)) -> Configs(gs)]
         /\ \A m \in Configs(gs) :
              \E i \in 1..Cardinality(Configs(gs)) : ConfigSeq(gs)[i] = m
<1> DEFINE S == Configs(gs)
           n == Cardinality(S)
<1>1. IsFiniteSet(S) /\ n \in Nat /\ ExistsBijection(1..n, S)
  BY ConfigsFinite, FS_CardinalityType
<1>2. \E f \in [1..n -> S] : IsInjective(f)
  BY <1>1 DEF ExistsBijection, Bijection, Injection
<1>3. SetToSeq(S) \in [1..n -> S] /\ IsInjective(SetToSeq(S))
  BY <1>2 DEF SetToSeq
<1>4. SetToSeq(S) \in Injection(1..n, S)
  BY <1>3 DEF Injection
<1>5. Cardinality(1..n) = n
  BY <1>1, FS_Interval
<1>6. SetToSeq(S) \in Surjection(1..n, S)
  BY <1>1, <1>4, <1>5, FS_Injection
<1>7. \A m \in S : \E i \in 1..n : SetToSeq(S)[i] = m
  BY <1>6 DEF Surjection
<1> QED
  BY <1>1, <1>3, <1>7 DEF ConfigSeq

-----------------------------------------------------------------------------
(* Types, and the range of the values on the streams                       *)

UpPacket ==
  [k : {"CONNECT", "SUBSCRIBE"}]
  \cup [k : {"PUBLISH"}, g : Groups \cup {"state", "batch", "echo"}, i : Nat]
  \cup [k : {"ACK"}, v : Nat]
DownPacket ==
  [k : {"CONNACK"}, present : BOOLEAN] \cup [k : {"PUBACK"}]
  \cup [k : {"SUBACK"}, ok : BOOLEAN] \cup [k : {"DATA"}, v : Nat]

Connect == [k |-> "CONNECT"]
Subscribe == [k |-> "SUBSCRIBE"]
Ack(v) == [k |-> "ACK", v |-> v]
Puback == [k |-> "PUBACK"]
Suback(ok) == [k |-> "SUBACK", ok |-> ok]
Connack(present) == [k |-> "CONNACK", present |-> present]

LEMMA UpPackets ==
  /\ Connect \in UpPacket /\ Subscribe \in UpPacket
  /\ StateMsg \in UpPacket /\ EchoMsg \in UpPacket
  /\ \A i \in Nat : BatchMsg(i) \in UpPacket
  /\ \A v \in Nat : Ack(v) \in UpPacket
  BY DEF UpPacket, Connect, Subscribe, StateMsg, EchoMsg, BatchMsg, Msg, Ack

LEMMA DownPackets ==
  /\ Puback \in DownPacket
  /\ \A b \in BOOLEAN : Suback(b) \in DownPacket /\ Connack(b) \in DownPacket
  /\ \A v \in Nat : DataMsg(v) \in DownPacket
  BY DEF DownPacket, Puback, Suback, Connack, DataMsg

LEMMA ConfigPackets ==
  ASSUME NEW gs \in SUBSET Groups
  PROVE  /\ Configs(gs) \subseteq UpPacket
         /\ \A m \in Configs(gs) : m.k = "PUBLISH" /\ m.i # 0 /\ m.g \in gs
<1>1. \A g \in gs : GroupMsgs[g] \in Nat
  BY MqttAssumption
<1>2. ASSUME NEW m \in Configs(gs)
      PROVE  m \in UpPacket /\ m.k = "PUBLISH" /\ m.i # 0 /\ m.g \in gs
  <2>0. PICK g \in gs : \E i \in 1..GroupMsgs[g] : m = Msg(g, i)
    BY DEF Configs
  <2>1. PICK i \in 1..GroupMsgs[g] : m = Msg(g, i)
    BY <2>0
  <2>2. g \in Groups /\ i \in Nat /\ i # 0
    BY <1>1
  <2> QED
    BY <2>1, <2>2 DEF Msg, UpPacket
<1> QED
  BY <1>2

LEMMA StateSeq ==
  ASSUME NEW gs \in SUBSET Groups
  PROVE  LET q == Append(ConfigSeq(gs), StateMsg)
         IN  /\ q \in Seq(UpPacket)
             /\ Len(q) = 1 + Cardinality(Configs(gs))
             /\ \A i \in 1..Len(q) : q[i].k = "PUBLISH"
             /\ \A m \in Configs(gs) \cup {StateMsg} : \E i \in 1..Len(q) : q[i] = m
<1> DEFINE n == Cardinality(Configs(gs))
           c == ConfigSeq(gs)
           q == Append(c, StateMsg)
<1>1. n \in Nat /\ c \in [1..n -> Configs(gs)]
      /\ \A m \in Configs(gs) : \E i \in 1..n : c[i] = m
  BY ConfigSeqIs
<1>2. Configs(gs) \subseteq UpPacket /\ \A m \in Configs(gs) : m.k = "PUBLISH"
  BY ConfigPackets
<1>3. StateMsg \in UpPacket /\ StateMsg.k = "PUBLISH"
  BY UpPackets DEF StateMsg, Msg
<1> HIDE DEF n, c
<1>4. c \in Seq(UpPacket) /\ Len(c) = n
  BY <1>1, <1>2
<1>5. q \in Seq(UpPacket) /\ Len(q) = n + 1
      /\ (\A i \in 1..n : q[i] = c[i]) /\ q[n + 1] = StateMsg
  BY <1>1, <1>3, <1>4
<1> HIDE DEF q
<1>6. \A i \in 1..(n + 1) : i \in 1..n \/ i = n + 1
  BY <1>1
<1>7. \A i \in 1..Len(q) : q[i].k = "PUBLISH"
  BY <1>1, <1>2, <1>3, <1>5, <1>6
<1>8. \A m \in Configs(gs) \cup {StateMsg} : \E i \in 1..Len(q) : q[i] = m
  <2>1. \A m \in Configs(gs) : \E i \in 1..Len(q) : q[i] = m
    BY <1>1, <1>5
  <2>2. n + 1 \in 1..Len(q)
    BY <1>1, <1>5
  <2> QED
    BY <1>5, <2>1, <2>2
<1> QED
  BY <1>1, <1>5, <1>7, <1>8 DEF q, n, c

Session == [present : BOOLEAN, subscribed : BOOLEAN, next : Nat]
Context == [connected : BOOLEAN, session_present : BOOLEAN, subscribed : BOOLEAN,
            expected : Nat, received : Nat, allAcked : BOOLEAN]
Cycle == [subscribe : BOOLEAN, want : SUBSET Groups, need : SUBSET Groups,
          ok : BOOLEAN, batches : Nat]
Log == [head : Nat, tail : Nat]

Typed ==
  /\ up \in Seq(UpPacket) /\ down \in Seq(DownPacket)
  /\ session \in Session /\ ctx \in Context /\ cyc \in Cycle /\ log \in Log
  /\ {linked, s_session_subscribed} \subseteq BOOLEAN
  /\ s_discovery_sent_mask \subseteq Groups
  /\ pc \in {"sleep", "connecting", "publish", "await", "replay", "awaitBatch",
             "echo", "close"}
  /\ retained \in Nat /\ seen \in Nat /\ atConnect \in Nat

(* Every value under way is a change that was made.                        *)
DownTo(n) == {p \in DownPacket : p.k = "DATA" => p.v \in 1..n}
UpTo(n) == {p \in UpPacket : p.k = "ACK" => p.v \in 1..n}
Ranges ==
  /\ atConnect <= retained
  /\ session.next \in 1..(retained + 1)
  /\ down \in Seq(DownTo(retained)) /\ up \in Seq(UpTo(retained))

(* What one step of esp-mqtt's task does, by the kind of the packet.       *)
LEMMA EventStep ==
  ASSUME Typed, OnEvent
  PROVE  /\ linked /\ down # <<>> /\ down' = Tail(down)
         /\ UNCHANGED <<broker, linked, memory, pc, cyc, log, atConnect, faults>>
         /\ \/ /\ Head(down).k = "CONNACK" /\ UNCHANGED <<up, seen>>
               /\ \E b \in BOOLEAN :
                    ctx' = [ctx EXCEPT !.connected = TRUE, !.session_present = b]
            \/ /\ Head(down).k = "PUBACK" /\ UNCHANGED <<up, seen>>
               /\ ctx' = [ctx EXCEPT !.received = @ + 1,
                            !.allAcked = @ \/ ctx.received + 1 >= ctx.expected]
            \/ /\ Head(down).k = "SUBACK" /\ UNCHANGED <<up, seen>>
               /\ Head(down).ok \in BOOLEAN
               /\ ctx' = [ctx EXCEPT !.subscribed = @ \/ Head(down).ok]
            \/ /\ Head(down).k = "DATA" /\ UNCHANGED ctx
               /\ Head(down).v \in Nat
               /\ seen' = Head(down).v
               /\ up' = up \o <<Ack(Head(down).v)>>
<1>1. linked /\ down # <<>> /\ down' = Tail(down)
      /\ UNCHANGED <<broker, linked, memory, pc, cyc, log, atConnect, faults>>
  BY DEF OnEvent
<1>2. Head(down) \in DownPacket
  BY <1>1 DEF Typed
<1>3. CASE Head(down).k = "CONNACK"
  <2>1. Head(down).present \in BOOLEAN
    BY <1>2, <1>3 DEF DownPacket
  <2>2. /\ ctx' = [ctx EXCEPT !.connected = TRUE, !.session_present = Head(down).present]
        /\ UNCHANGED <<up, seen>>
    BY <1>3 DEF OnEvent
  <2> QED
    BY <1>1, <1>3, <2>1, <2>2
<1>4. CASE Head(down).k = "PUBACK"
  BY <1>1, <1>4 DEF OnEvent
<1>5. CASE Head(down).k = "SUBACK"
  <2>1. Head(down).ok \in BOOLEAN
    BY <1>2, <1>5 DEF DownPacket
  <2>2. /\ ctx' = [ctx EXCEPT !.subscribed = @ \/ Head(down).ok]
        /\ UNCHANGED <<up, seen>>
    BY <1>5 DEF OnEvent
  <2> QED
    BY <1>1, <1>5, <2>1, <2>2
<1>6. CASE Head(down).k = "DATA"
  <2>1. Head(down).v \in Nat
    BY <1>2, <1>6 DEF DownPacket
  <2>2. /\ seen' = Head(down).v /\ UNCHANGED ctx
        /\ up' = up \o <<Ack(Head(down).v)>>
    BY <1>1, <1>6 DEF OnEvent, SendUp, Ack
  <2> QED
    BY <1>1, <1>6, <2>1, <2>2
<1> QED
  BY <1>2, <1>3, <1>4, <1>5, <1>6 DEF DownPacket

(* What one step of the broker on this stream does, likewise.              *)
LEMMA ReadStep ==
  ASSUME Typed, BrokerReads
  PROVE  /\ up # <<>> /\ up' = Tail(up)
         /\ UNCHANGED <<retained, linked, memory, ctx, pc, cyc, log, seen>>
         /\ \/ Head(up).k = "CONNECT" /\ BrokerConnect
            \/ Head(up).k = "SUBSCRIBE" /\ BrokerSubscribe
            \/ Head(up).k = "PUBLISH" /\ BrokerPublish(Head(up))
            \/ Head(up).k = "ACK" /\ BrokerAck(Head(up).v)
  BY DEF BrokerReads

(* The queue of a subscribed session.                                      *)
LEMMA QueueIs ==
  ASSUME Typed, Ranges
  PROVE  LET n == IF session.subscribed THEN retained + 1 - session.next ELSE 0
         IN  /\ n \in Nat /\ Queue \in Seq(DownPacket) /\ Len(Queue) = n
             /\ \A i \in 1..n : Queue[i] = DataMsg(session.next + i - 1)
             /\ \A i \in 1..n : session.next + i - 1 \in 1..retained
<1> DEFINE n == IF session.subscribed THEN retained + 1 - session.next ELSE 0
<1>1. session.next \in 1..(retained + 1) /\ retained \in Nat
  BY DEF Typed, Ranges
<1>2. n \in Nat
  BY <1>1
<1>3. \A i \in 1..n : session.next + i - 1 \in 1..retained
  BY <1>1
<1>4. \A i \in 1..n : DataMsg(session.next + i - 1) \in DownPacket
  BY <1>1, <1>3, DownPackets
<1>5. Queue = [i \in 1..n |-> DataMsg(session.next + i - 1)]
  BY DEF Queue
<1> HIDE DEF n
<1>6. Queue \in Seq(DownPacket) /\ Len(Queue) = n
      /\ \A i \in 1..n : Queue[i] = DataMsg(session.next + i - 1)
  BY <1>2, <1>4, <1>5
<1> QED
  BY <1>2, <1>3, <1>6 DEF n

(* What the broker answers, as one sequence appended to `down`.            *)
LEMMA Answers ==
  ASSUME Typed, Ranges
  PROVE  /\ <<Connack(session.present)>> \o Queue \in Seq(DownPacket)
         /\ \A b \in BOOLEAN : <<Suback(b)>> \in Seq(DownPacket)
         /\ <<Suback(TRUE)>> \o (IF retained = 0 THEN <<>> ELSE <<DataMsg(retained)>>)
              \in Seq(DownPacket)
         /\ <<Puback>> \in Seq(DownPacket)
<1>1. Queue \in Seq(DownPacket)
  BY QueueIs
<1>2. session.present \in BOOLEAN /\ retained \in Nat
  BY DEF Typed, Session
<1>3. \A p \in DownPacket : <<p>> \in Seq(DownPacket)
  OBVIOUS
<1>4. Connack(session.present) \in DownPacket
  BY <1>2, DownPackets, Zenon
<1>5. (IF retained = 0 THEN <<>> ELSE <<DataMsg(retained)>>) \in Seq(DownPacket)
  <2>1. <<DataMsg(retained)>> \in Seq(DownPacket) /\ <<>> \in Seq(DownPacket)
    BY <1>2, <1>3, DownPackets
  <2> QED
    BY <2>1
<1>6. \A s, t \in Seq(DownPacket) : s \o t \in Seq(DownPacket)
  OBVIOUS
<1>7. /\ \A b \in BOOLEAN : <<Suback(b)>> \in Seq(DownPacket)
      /\ <<Puback>> \in Seq(DownPacket)
  BY <1>3, DownPackets, Zenon
<1>8. <<Connack(session.present)>> \in Seq(DownPacket)
  BY <1>3, <1>4, Zenon
<1> QED
  BY <1>1, <1>5, <1>6, <1>7, <1>8, Zenon

LEMMA TypedInit == MqttInit => Typed /\ Ranges
<1> SUFFICES ASSUME MqttInit PROVE Typed /\ Ranges
  OBVIOUS
<1>1. up = <<>> /\ down = <<>> /\ session = NoSession /\ ctx = NewCtx
      /\ cyc = NewCycle /\ log = EmptyLog /\ retained = 0 /\ seen = 0
      /\ atConnect = 0 /\ linked = FALSE /\ s_session_subscribed = FALSE
      /\ s_discovery_sent_mask = {} /\ pc = "sleep"
  BY DEF MqttInit
<1>2. NoSession \in Session /\ NewCtx \in Context /\ EmptyLog \in Log
  BY DEF NoSession, Session, NewCtx, Context, EmptyLog, Log
<1>3. NewCycle \in Cycle
  BY DEF NewCycle, Cycle
<1>e. <<>> \in Seq(UpPacket) /\ <<>> \in Seq(DownPacket)
  OBVIOUS
<1>4. Typed
  BY <1>1, <1>2, <1>3, <1>e, Zenon DEF Typed
<1>5. Ranges
  <2>1. <<>> \in Seq(DownTo(retained)) /\ <<>> \in Seq(UpTo(retained))
    OBVIOUS
  <2>2. session.next = 1
    BY <1>1 DEF NoSession
  <2> QED
    BY <1>1, <2>1, <2>2 DEF Ranges
<1> QED
  BY <1>4, <1>5

LEMMA TypedStep == Typed /\ Ranges /\ [MqttNext]_mqttVars => Typed'
<1> SUFFICES ASSUME Typed, Ranges, [MqttNext]_mqttVars PROVE Typed'
  OBVIOUS
<1>s. \A q \in Seq(UpPacket) : up \o q \in Seq(UpPacket)
  BY DEF Typed
<1>t. /\ up \in Seq(UpPacket) /\ down \in Seq(DownPacket)
      /\ session \in Session /\ ctx \in Context /\ cyc \in Cycle /\ log \in Log
  BY DEF Typed
<1>e. <<>> \in Seq(UpPacket) /\ <<>> \in Seq(DownPacket)
  OBVIOUS
<1>c. ctx \in Context
  BY <1>t
<1>y. cyc \in Cycle
  BY <1>t
<1>1. CASE StartClient
  <2>1. up' \in Seq(UpPacket) /\ down' \in Seq(DownPacket)
    BY <1>1, UpPackets DEF StartClient, Connect
  <2>2. PICK lacks \in SUBSET Optional : cyc' = [NewCycle EXCEPT !.want = Groups \ lacks]
    BY <1>1 DEF StartClient
  <2>3. cyc' \in Cycle
    BY <2>2 DEF NewCycle, Cycle
  <2>4. ctx' \in Context
    BY <1>1, <1>t DEF StartClient, Context
  <2> QED
    BY <1>1, <2>1, <2>3, <2>4 DEF StartClient, Typed, memory
<1>2. CASE Connected
  <2> DEFINE need == cyc.want \ s_discovery_sent_mask
             held == ctx.session_present /\ s_session_subscribed
  <2>1. need \in SUBSET Groups
    BY <1>t DEF Cycle
  <2>2. Cardinality(Configs(need)) \in Nat
    BY <2>1, ConfigSeqIs
  <2>3. held \in BOOLEAN
    OBVIOUS
  <2>4. up' \in Seq(UpPacket)
    <3>1. <<Subscribe>> \in Seq(UpPacket) /\ <<>> \in Seq(UpPacket)
      BY UpPackets
    <3>2. up' = up \/ up' = up \o <<Subscribe>> \/ up' = up \o <<>>
      BY <1>2 DEF Connected, SendUp, Subscribe
    <3> QED
      BY <1>s, <3>1, <3>2 DEF Typed
  <2>5. /\ s_session_subscribed' = held
        /\ cyc' = [cyc EXCEPT !.subscribe = ~held, !.need = need]
        /\ ctx' = [ctx EXCEPT !.expected = 1 + Cardinality(Configs(need)),
                              !.received = 0, !.allAcked = FALSE]
        /\ pc' = "publish"
        /\ UNCHANGED <<broker, linked, down, s_discovery_sent_mask, log, history>>
    BY <1>2 DEF Connected
  <2> HIDE DEF need, held
  <2>6. cyc' \in Cycle
    BY <1>t, <2>1, <2>3, <2>5 DEF Cycle
  <2>7. ctx' \in Context
    <3> DEFINE n == 1 + Cardinality(Configs(need))
    <3>1. n \in Nat
      BY <2>2
    <3>2. ctx' = [ctx EXCEPT !.expected = n, !.received = 0, !.allAcked = FALSE]
      BY <2>5
    <3> HIDE DEF n
    <3> QED
      BY <1>c, <3>1, <3>2 DEF Context
  <2> QED
    BY <2>3, <2>4, <2>5, <2>6, <2>7 DEF Typed, broker, history
<1>3. CASE PublishState
  <2>1. cyc.need \in SUBSET Groups
    BY <1>t DEF Cycle
  <2>2. up' \in Seq(UpPacket)
    BY <1>3, <1>s, <1>t, <2>1, StateSeq DEF PublishState, SendUp
  <2> QED
    BY <1>3, <2>2 DEF PublishState, Typed, broker, memory, history
<1>4. CASE StateAcked
  <2>1. s_session_subscribed' \in BOOLEAN /\ cyc.need \subseteq Groups
    BY <1>4, <1>t DEF StateAcked, Cycle
  <2>2. cyc' \in Cycle
    BY <1>4, <1>t DEF StateAcked, Cycle
  <2> QED
    BY <1>4, <2>1, <2>2 DEF StateAcked, Typed, broker, net, history
<1>5. CASE ReplayBatch
  <2>1. <<BatchMsg(log.tail)>> \in Seq(UpPacket)
    BY <1>t, UpPackets DEF Log
  <2>2. up' \in Seq(UpPacket)
    BY <1>5, <1>s, <1>t, <2>1 DEF ReplayBatch, SendUp
  <2>3. ctx' \in Context
    BY <1>5, <1>t DEF ReplayBatch, Context
  <2> QED
    BY <1>5, <2>2, <2>3 DEF ReplayBatch, Typed, broker, memory, history
<1>6. CASE BatchAcked
  <2>1. cyc' \in Cycle
    <3>1. cyc' = [cyc EXCEPT !.batches = cyc.batches + 1] /\ cyc.batches \in Nat
      BY <1>6, <1>y DEF BatchAcked, Cycle
    <3> QED
      BY <1>y, <3>1 DEF Cycle
  <2>2. log' \in Log
    BY <1>6, <1>t DEF BatchAcked, Log
  <2> QED
    BY <1>6, <2>1, <2>2 DEF BatchAcked, Typed, broker, net, memory, history
<1>7. CASE EchoSettings
  <2>1. <<EchoMsg>> \in Seq(UpPacket)
    BY UpPackets
  <2>2. up' \in Seq(UpPacket)
    BY <1>7, <1>s, <1>t, <2>1 DEF EchoSettings, SendUp
  <2> QED
    BY <1>7, <2>2 DEF EchoSettings, Typed, broker, memory, history
<1>8. CASE TimesOut
  BY <1>8 DEF TimesOut, Typed, broker, net, memory
<1>9. CASE CloseSession
  <2>1. log' \in Log
    BY <1>9, <1>t DEF CloseSession, Log
  <2> QED
    BY <1>9, <1>e, <2>1 DEF CloseSession, Typed, broker, memory
<1>10. CASE OnEvent
  <2>0. /\ down # <<>> /\ down' = Tail(down)
        /\ UNCHANGED <<broker, linked, memory, pc, cyc, log, atConnect>>
    BY <1>10, EventStep
  <2>1. down' \in Seq(DownPacket)
    BY <1>t, <2>0
  <2>2. up' \in Seq(UpPacket) /\ seen' \in Nat
    <3>1. \A v \in Nat : up \o <<Ack(v)>> \in Seq(UpPacket)
      <4>1. \A v \in Nat : <<Ack(v)>> \in Seq(UpPacket)
        BY UpPackets
      <4> QED
        BY <1>s, <4>1, Zenon
    <3>2. UNCHANGED <<up, seen>> \/ \E v \in Nat : seen' = v /\ up' = up \o <<Ack(v)>>
      BY <1>10, EventStep, Zenon
    <3> QED
      BY <1>t, <3>1, <3>2 DEF Typed
  <2>3. ctx' \in Context
    <3>1. \/ \E b \in BOOLEAN :
               ctx' = [ctx EXCEPT !.connected = TRUE, !.session_present = b]
          \/ ctx' = [ctx EXCEPT !.received = @ + 1,
                       !.allAcked = @ \/ ctx.received + 1 >= ctx.expected]
          \/ /\ Head(down).ok \in BOOLEAN
             /\ ctx' = [ctx EXCEPT !.subscribed = @ \/ Head(down).ok]
          \/ UNCHANGED ctx
      BY <1>10, EventStep, Zenon
    <3> QED
      <4>1. ASSUME NEW b \in BOOLEAN
            PROVE  /\ [ctx EXCEPT !.connected = TRUE, !.session_present = b] \in Context
                   /\ [ctx EXCEPT !.subscribed = b] \in Context
                   /\ \A n \in Nat :
                        [ctx EXCEPT !.received = n, !.allAcked = b] \in Context
        BY <1>c DEF Context
      <4>2. /\ ctx.received + 1 \in Nat
            /\ (ctx.allAcked \/ ctx.received + 1 >= ctx.expected) \in BOOLEAN
            /\ (ctx.subscribed \/ Head(down).ok) \in BOOLEAN
        BY <1>c DEF Context
      <4> QED
        BY <1>c, <3>1, <4>1, <4>2, Zenon
  <2> QED
    BY <2>0, <2>1, <2>2, <2>3 DEF Typed, broker, memory
<1>11. CASE BrokerReads
  <2>0. up # <<>> /\ up' = Tail(up)
        /\ UNCHANGED <<retained, linked, memory, ctx, pc, cyc, log, seen>>
    BY <1>11, ReadStep
  <2>1. up' \in Seq(UpPacket)
    BY <1>t, <2>0
  <2>2. \A q \in Seq(DownPacket) : down \o q \in Seq(DownPacket)
    BY <1>t
  <2>3. down' \in Seq(DownPacket) /\ session' \in Session /\ atConnect' \in {atConnect, retained}
    <3>2. CASE Head(up).k = "CONNECT" /\ BrokerConnect
      <4>1. down' \in Seq(DownPacket)
        BY <1>t, <2>2, <3>2, Answers DEF BrokerConnect, Answer, Connack
      <4> QED
        BY <1>t, <3>2, <4>1 DEF BrokerConnect, Session
    <3>3. CASE Head(up).k = "SUBSCRIBE" /\ BrokerSubscribe
      <4>1. \/ down' = down
            \/ down' = down \o <<Suback(FALSE)>>
            \/ down' = down \o (<<Suback(TRUE)>>
                                \o (IF retained = 0 THEN <<>> ELSE <<DataMsg(retained)>>))
        BY <3>3 DEF BrokerSubscribe, Answer, Suback
      <4>2. down' \in Seq(DownPacket)
        BY <1>t, <2>2, <4>1, Answers
      <4>3. session' \in Session /\ atConnect' = atConnect
        BY <1>t, <3>3 DEF BrokerSubscribe, Session, Typed
      <4> QED
        BY <4>2, <4>3
    <3>4. CASE Head(up).k = "PUBLISH" /\ BrokerPublish(Head(up))
      BY <1>t, <2>2, <3>4, Answers DEF BrokerPublish, Answer, Puback
    <3>5. CASE Head(up).k = "ACK" /\ BrokerAck(Head(up).v)
      BY <1>t, <3>5 DEF BrokerAck, Session
    <3> QED
      BY <1>11, <3>2, <3>3, <3>4, <3>5, ReadStep
  <2> QED
    BY <2>0, <2>1, <2>3 DEF Typed, memory
<1>12. CASE RetainedChanges
  <2>1. DataMsg(retained + 1) \in DownPacket
    BY DownPackets DEF Typed
  <2>2. down' \in Seq(DownPacket)
    BY <1>12, <2>1 DEF RetainedChanges, Typed
  <2> QED
    BY <1>12, <2>2 DEF RetainedChanges, Typed, memory, history
<1>13. CASE ConnectionDrops
  <2>1. up' \in Seq(UpPacket) /\ down' \in Seq(DownPacket)
    BY <1>13, <1>e, <1>t DEF ConnectionDrops
  <2> QED
    BY <1>13, <2>1 DEF ConnectionDrops, Typed, broker, memory
<1>14. CASE SessionForgotten
  <2>1. NoSession \in Session
    BY DEF NoSession, Session
  <2> QED
    BY <1>14, <2>1 DEF SessionForgotten, Typed, memory
<1>15. CASE DeviceBoots
  <2>1. NewCtx \in Context /\ EmptyLog \in Log
    BY DEF NewCtx, Context, EmptyLog, Log
  <2>2. NewCycle \in Cycle
    BY DEF NewCycle, Cycle
  <2> QED
    BY <1>15, <1>e, <2>1, <2>2 DEF DeviceBoots, Typed
<1>16. CASE UNCHANGED mqttVars
  BY <1>16 DEF mqttVars, broker, net, memory, history, Typed
<1> QED
  BY <1>1, <1>2, <1>3, <1>4, <1>5, <1>6, <1>7, <1>8, <1>9, <1>10, <1>11, <1>12,
     <1>13, <1>14, <1>15, <1>16 DEF MqttNext, CycleStep

(* What the steps do to the two streams and to the values they carry.      *)
Streams == <<session, retained, up, down, linked, seen, atConnect>>
StreamsSend ==
  /\ linked
  /\ \E q \in Seq(UpPacket) :
       /\ up' = up \o q
       /\ \A i \in 1..Len(q) : q[i].k \in {"SUBSCRIBE", "PUBLISH"}
  /\ UNCHANGED <<session, retained, down, linked, seen, atConnect>>
StreamsCut ==
  /\ linked' = FALSE /\ down' = <<>> /\ up' \in {up, <<>>}
  /\ UNCHANGED <<session, retained, atConnect>>

LEMMA SendsAre ==
  ASSUME Typed, Connected \/ PublishState \/ ReplayBatch \/ EchoSettings
  PROVE  UNCHANGED Streams \/ StreamsSend
<1>0. up \in Seq(UpPacket) /\ cyc \in Cycle /\ log \in Log
  BY DEF Typed
<1>1. UNCHANGED <<session, retained, down, linked, seen, atConnect>>
  BY DEF Connected, PublishState, ReplayBatch, EchoSettings, broker, history
<1>2. CASE ~linked
  <2>1. up' = up
    BY <1>2 DEF Connected, PublishState, ReplayBatch, EchoSettings, SendUp
  <2> QED
    BY <1>1, <2>1 DEF Streams
<1>3. CASE linked /\ up' = up
  BY <1>1, <1>3 DEF Streams
<1>4. CASE linked /\ up' # up
  <2>1. ASSUME Connected PROVE up' = up \o <<Subscribe>> \/ up' = up \o <<>>
    BY <1>4, <2>1 DEF Connected, SendUp, Subscribe
  <2>2. ASSUME PublishState PROVE up' = up \o Append(ConfigSeq(cyc.need), StateMsg)
    BY <1>4, <2>2 DEF PublishState, SendUp
  <2>3. ASSUME ReplayBatch PROVE up' = up \o <<BatchMsg(log.tail)>>
    BY <1>4, <2>3 DEF ReplayBatch, SendUp
  <2>4. ASSUME EchoSettings PROVE up' = up \o <<EchoMsg>>
    BY <1>4, <2>4 DEF EchoSettings, SendUp
  <2>5. ASSUME NEW p \in UpPacket, p.k \in {"SUBSCRIBE", "PUBLISH"}, up' = up \o <<p>>
        PROVE  \E q \in Seq(UpPacket) :
                 up' = up \o q /\ \A i \in 1..Len(q) : q[i].k \in {"SUBSCRIBE", "PUBLISH"}
    <3>1. <<p>> \in Seq(UpPacket)
      OBVIOUS
    <3>2. \A i \in 1..Len(<<p>>) : <<p>>[i].k \in {"SUBSCRIBE", "PUBLISH"}
      BY <2>5
    <3> QED
      BY <2>5, <3>1, <3>2, Zenon
  <2>6. Subscribe \in UpPacket /\ BatchMsg(log.tail) \in UpPacket /\ EchoMsg \in UpPacket
    BY <1>0, UpPackets DEF Log
  <2>7. Subscribe.k = "SUBSCRIBE" /\ BatchMsg(log.tail).k = "PUBLISH"
        /\ EchoMsg.k = "PUBLISH"
    BY DEF Subscribe, BatchMsg, EchoMsg, Msg
  <2>8. up \o <<>> = up
    BY <1>0
  <2>9. cyc.need \in SUBSET Groups
    BY <1>0 DEF Cycle
  <2>10. PICK q \in Seq(UpPacket) :
           up' = up \o q /\ \A i \in 1..Len(q) : q[i].k \in {"SUBSCRIBE", "PUBLISH"}
    <3>1. CASE Connected
      BY <1>4, <2>1, <2>5, <2>6, <2>7, <2>8, <3>1
    <3>2. CASE PublishState
      BY <2>2, <2>9, <3>2, StateSeq
    <3>3. CASE ReplayBatch
      BY <2>3, <2>5, <2>6, <2>7, <3>3
    <3>4. CASE EchoSettings
      BY <2>4, <2>5, <2>6, <2>7, <3>4
    <3> QED
      BY <3>1, <3>2, <3>3, <3>4
  <2> QED
    BY <1>1, <1>4, <2>10 DEF StreamsSend
<1> QED
  BY <1>2, <1>3, <1>4

LEMMA StreamSteps ==
  ASSUME Typed, [MqttNext]_mqttVars
  PROVE  \/ UNCHANGED Streams
         \/ StreamsSend
         \/ StreamsCut
         \/ StartClient \/ OnEvent \/ BrokerReads \/ RetainedChanges \/ SessionForgotten
<1>1. ASSUME StateAcked \/ BatchAcked \/ TimesOut \/ UNCHANGED mqttVars
      PROVE  UNCHANGED Streams
  BY <1>1 DEF StateAcked, BatchAcked, TimesOut, mqttVars, broker, net, history, Streams
<1>2. ASSUME CloseSession \/ ConnectionDrops \/ DeviceBoots
      PROVE  StreamsCut
  BY <1>2 DEF CloseSession, ConnectionDrops, DeviceBoots, broker, StreamsCut
<1> QED
  BY <1>1, <1>2, SendsAre DEF MqttNext, CycleStep

LEMMA SeqMonotone ==
  ASSUME NEW S, NEW T, S \subseteq T
  PROVE  Seq(S) \subseteq Seq(T)
  OBVIOUS

LEMMA AppendOf ==
  ASSUME NEW S, NEW s \in Seq(S), NEW p \in S
  PROVE  Append(s, p) \in Seq(S)
  OBVIOUS

LEMMA DataTo ==
  ASSUME NEW n \in Nat, NEW v \in 1..n
  PROVE  DataMsg(v) \in DownTo(n)
<1>1. v \in Nat
  OBVIOUS
<1>2. DataMsg(v) \in DownPacket
  BY <1>1, DownPackets
<1>3. DataMsg(v).v = v
  BY DEF DataMsg
<1> QED
  BY <1>2, <1>3 DEF DownTo

LEMMA RangesStep == Typed /\ Ranges /\ [MqttNext]_mqttVars => Ranges'
<1> SUFFICES ASSUME Typed, Ranges, [MqttNext]_mqttVars PROVE Ranges'
  OBVIOUS
<1>t. retained \in Nat /\ atConnect \in Nat /\ atConnect <= retained
      /\ session.next \in 1..(retained + 1)
  BY DEF Typed, Ranges
<1>u. up \in Seq(UpTo(retained)) /\ \A q \in Seq(UpTo(retained)) : up \o q \in Seq(UpTo(retained))
  BY DEF Ranges
<1>d. down \in Seq(DownTo(retained))
      /\ \A q \in Seq(DownTo(retained)) : down \o q \in Seq(DownTo(retained))
  BY DEF Ranges
<1>e. <<>> \in Seq(UpTo(retained)) /\ <<>> \in Seq(DownTo(retained))
  OBVIOUS
<1>1. CASE UNCHANGED Streams
  BY <1>1 DEF Streams, Ranges
<1>2. CASE StreamsSend
  <2>1. PICK q \in Seq(UpPacket) :
          up' = up \o q /\ \A i \in 1..Len(q) : q[i].k \in {"SUBSCRIBE", "PUBLISH"}
    BY <1>2 DEF StreamsSend
  <2>q. q \in Seq(UpPacket)
    OBVIOUS
  <2>2. ASSUME NEW i \in 1..Len(q) PROVE q[i] \in UpTo(retained)
    <3>1. q[i] \in UpPacket
      BY <2>q
    <3>2. q[i].k # "ACK"
      BY <2>1
    <3> QED
      BY <3>1, <3>2, Zenon DEF UpTo
  <2>3. q \in Seq(UpTo(retained))
    BY <2>2, <2>q
  <2> QED
    BY <1>2, <1>u, <2>1, <2>3 DEF StreamsSend, Ranges
<1>3. CASE StreamsCut
  <2>1. up' \in Seq(UpTo(retained)) /\ down' \in Seq(DownTo(retained))
    BY <1>3, <1>e, <1>u DEF StreamsCut
  <2> QED
    BY <1>3, <2>1 DEF StreamsCut, Ranges
<1>4. CASE StartClient
  <2>1. Connect \in UpTo(retained)
    BY UpPackets DEF UpTo, Connect
  <2>2. up' = <<Connect>> /\ down' = <<>>
        /\ UNCHANGED <<session, retained, atConnect>>
    BY <1>4 DEF StartClient, Connect
  <2>3. <<Connect>> \in Seq(UpTo(retained))
    BY <2>1
  <2> QED
    BY <1>e, <2>2, <2>3 DEF Ranges
<1>5. CASE OnEvent
  <2>1. down # <<>> /\ down' = Tail(down) /\ UNCHANGED <<session, retained, atConnect>>
    BY <1>5, EventStep DEF broker
  <2>2. down' \in Seq(DownTo(retained)) /\ Head(down) \in DownTo(retained)
    BY <1>d, <2>1
  <2>3. up' = up \/ (Head(down).k = "DATA" /\ up' = up \o <<Ack(Head(down).v)>>)
    BY <1>5, EventStep, Zenon
  <2>4. up' \in Seq(UpTo(retained))
    <3>1. CASE up' = up
      BY <1>u, <3>1
    <3>2. CASE Head(down).k = "DATA" /\ up' = up \o <<Ack(Head(down).v)>>
      <4>1. Head(down).v \in 1..retained
        BY <2>2, <3>2 DEF DownTo
      <4>2. Ack(Head(down).v) \in UpTo(retained)
        BY <1>t, <4>1, UpPackets DEF UpTo, Ack
      <4>3. <<Ack(Head(down).v)>> \in Seq(UpTo(retained))
        BY <4>2
      <4> QED
        BY <1>u, <3>2, <4>3, Zenon
    <3> QED
      BY <2>3, <3>1, <3>2
  <2> QED
    BY <1>t, <2>1, <2>2, <2>4 DEF Ranges
<1>6. CASE BrokerReads
  <2>0. up # <<>> /\ up' = Tail(up) /\ retained' = retained
    BY <1>6, ReadStep
  <2>1. up' \in Seq(UpTo(retained)) /\ Head(up) \in UpTo(retained)
    BY <1>u, <2>0
  <2>2. CASE Head(up).k = "CONNECT" /\ BrokerConnect
    <3>1. Connack(session.present) \in DownTo(retained)
      BY DownPackets DEF DownTo, Connack, Typed, Session
    <3>2. <<Connack(session.present)>> \in Seq(DownTo(retained))
      BY <3>1
    <3>3. Queue \in Seq(DownTo(retained))
      <4>1. \A v \in 1..retained : DataMsg(v) \in DownTo(retained)
        BY <1>t, DataTo
      <4>2. \A i \in 1..Len(Queue) : Queue[i] \in DownTo(retained)
        BY <4>1, QueueIs
      <4>3. Queue \in Seq(DownPacket)
        BY QueueIs
      <4> QED
        BY <4>2, <4>3
    <3>4. <<Connack(session.present)>> \o Queue \in Seq(DownTo(retained))
      BY <3>2, <3>3
    <3>5. down' \in Seq(DownTo(retained))
      BY <1>d, <2>2, <3>4 DEF BrokerConnect, Answer, Connack
    <3>6. atConnect' = retained /\ session'.next = session.next
      BY <2>2 DEF BrokerConnect, Typed, Session
    <3> QED
      BY <1>t, <2>0, <2>1, <3>5, <3>6 DEF Ranges
  <2>3. CASE Head(up).k = "SUBSCRIBE" /\ BrokerSubscribe
    <3>1. \/ down' = down
          \/ down' = down \o <<Suback(FALSE)>>
          \/ down' = down \o (<<Suback(TRUE)>>
                              \o (IF retained = 0 THEN <<>> ELSE <<DataMsg(retained)>>))
      BY <2>3 DEF BrokerSubscribe, Answer, Suback
    <3>2. \A b \in BOOLEAN : <<Suback(b)>> \in Seq(DownTo(retained))
      <4>1. \A b \in BOOLEAN : Suback(b) \in DownTo(retained)
        <5> TAKE b \in BOOLEAN
        <5>1. Suback(b) \in DownPacket
          BY DownPackets, Zenon
        <5>2. Suback(b).k # "DATA"
          BY DEF Suback
        <5> QED
          BY <5>1, <5>2 DEF DownTo
      <4>2. \A p \in DownTo(retained) : <<p>> \in Seq(DownTo(retained))
        OBVIOUS
      <4> QED
        BY <4>1, <4>2, Zenon
    <3>3. (IF retained = 0 THEN <<>> ELSE <<DataMsg(retained)>>) \in Seq(DownTo(retained))
      <4>1. CASE retained = 0
        BY <1>e, <4>1
      <4>2. CASE retained # 0
        <5>1. DataMsg(retained) \in DownTo(retained)
          BY <1>t, <4>2, DownPackets DEF DownTo, DataMsg
        <5>2. <<DataMsg(retained)>> \in Seq(DownTo(retained))
          BY <5>1
        <5> QED
          BY <4>2, <5>2
      <4> QED
        BY <4>1, <4>2
    <3>4. \A s, t \in Seq(DownTo(retained)) : s \o t \in Seq(DownTo(retained))
      OBVIOUS
    <3>5. down' \in Seq(DownTo(retained))
      BY <1>d, <3>1, <3>2, <3>3, <3>4, Zenon
    <3>6. session'.next \in {session.next, retained} /\ atConnect' = atConnect
          /\ (retained = 0 => session'.next = session.next)
      BY <2>3 DEF BrokerSubscribe, Typed, Session
    <3> QED
      BY <1>t, <2>0, <2>1, <3>5, <3>6 DEF Ranges
  <2>4. CASE Head(up).k = "PUBLISH" /\ BrokerPublish(Head(up))
    <3>1. Puback \in DownTo(retained)
      BY DownPackets DEF DownTo, Puback
    <3>2. <<Puback>> \in Seq(DownTo(retained))
      BY <3>1
    <3>3. down' \in Seq(DownTo(retained)) /\ UNCHANGED <<session, atConnect>>
      BY <1>d, <2>4, <3>2 DEF BrokerPublish, Answer, Puback
    <3> QED
      BY <1>t, <2>0, <2>1, <3>3 DEF Ranges
  <2>5. CASE Head(up).k = "ACK" /\ BrokerAck(Head(up).v)
    <3>1. Head(up).v \in 1..retained
      BY <2>1, <2>5 DEF UpTo
    <3>2. /\ session'.next = IF Head(up).v = session.next THEN session.next + 1
                             ELSE session.next
          /\ UNCHANGED <<down, atConnect>>
      BY <2>5 DEF BrokerAck, Typed, Session
    <3> QED
      BY <1>d, <1>t, <2>0, <2>1, <3>1, <3>2 DEF Ranges
  <2> QED
    BY <1>6, <2>2, <2>3, <2>4, <2>5, ReadStep
<1>7. CASE RetainedChanges
  <2>0. retained' = retained + 1 /\ UNCHANGED <<session, up, atConnect>>
        /\ (down' = down \/ down' = Append(down, DataMsg(retained + 1)))
    BY <1>7 DEF RetainedChanges, history
  <2>1. DownTo(retained) \subseteq DownTo(retained + 1)
        /\ UpTo(retained) \subseteq UpTo(retained + 1)
    BY <1>t DEF DownTo, UpTo
  <2>2. down \in Seq(DownTo(retained + 1)) /\ up \in Seq(UpTo(retained + 1))
    BY <1>d, <1>u, <2>1, SeqMonotone
  <2>3. DataMsg(retained + 1) \in DownTo(retained + 1)
    BY <1>t, DownPackets DEF DownTo, DataMsg
  <2>4. Append(down, DataMsg(retained + 1)) \in Seq(DownTo(retained + 1))
    BY <2>2, <2>3, AppendOf, Zenon
  <2>5. down' \in Seq(DownTo(retained')) /\ up' \in Seq(UpTo(retained'))
    BY <2>0, <2>2, <2>4, Zenon
  <2>6. atConnect' <= retained' /\ session'.next \in 1..(retained' + 1)
    BY <1>t, <2>0 DEF Ranges
  <2> QED
    BY <2>5, <2>6 DEF Ranges
<1>8. CASE SessionForgotten
  <2>1. session'.next = 1 /\ up' = <<>> /\ UNCHANGED <<retained, down, atConnect>>
    BY <1>8 DEF SessionForgotten, NoSession
  <2> QED
    BY <1>d, <1>e, <1>t, <2>1 DEF Ranges
<1> QED
  BY <1>1, <1>2, <1>3, <1>4, <1>5, <1>6, <1>7, <1>8, StreamSteps

-----------------------------------------------------------------------------
(* Acknowledgements are counted, never matched.  What makes the count mean *)
(* something: everything published on this connection that is not counted  *)
(* yet is either still on its way up or acknowledged on its way down, and  *)
(* the expected number is fixed before the first message is sent.          *)

Owed == CountOf(up, "PUBLISH") + CountOf(down, "PUBACK")
Sent(m) == m \in got \/ \E i \in 1..Len(up) : up[i] = m
StateMsgs == Configs(cyc.need) \cup {StateMsg}

CountInv ==
  /\ pc = "sleep" => ~linked
  /\ ~linked => down = <<>>
  /\ linked /\ pc \in {"connecting", "publish", "replay"} => Owed = 0
  /\ pc = "publish" => ctx.received = 0 /\ ~ctx.allAcked
  /\ pc \in {"publish", "await"} =>
       ctx.expected = 1 + Cardinality(Configs(cyc.need))
  /\ pc \in {"await", "awaitBatch"} =>
       /\ linked => ctx.received + Owed <= ctx.expected
       /\ ctx.allAcked => ctx.received >= ctx.expected
  /\ pc = "await" =>
       /\ linked => \A m \in StateMsgs : Sent(m)
       /\ ctx.allAcked => StateMsgs \subseteq got
  /\ pc = "awaitBatch" =>
       /\ ctx.expected = 1
       /\ linked => Sent(BatchMsg(log.tail))
       /\ ctx.allAcked => BatchMsg(log.tail) \in got

LEMMA OwedType ==
  ASSUME Typed
  PROVE  /\ CountOf(up, "PUBLISH") \in Nat /\ CountOf(down, "PUBACK") \in Nat
         /\ Owed \in Nat
<1>1. CountOf(up, "PUBLISH") \in Nat /\ CountOf(down, "PUBACK") \in Nat
  BY CountType DEF Typed
<1> QED
  BY <1>1 DEF Owed

LEMMA OwedReads ==
  ASSUME Typed, Ranges, BrokerReads, linked
  PROVE  Owed' = Owed
<1>0. up # <<>> /\ up' = Tail(up) /\ up \in Seq(UpPacket) /\ down \in Seq(DownPacket)
  BY ReadStep DEF Typed
<1>1. CountOf(up, "PUBLISH") = CountOf(Tail(up), "PUBLISH")
                               + IF Head(up).k = "PUBLISH" THEN 1 ELSE 0
  BY <1>0, CountTail
<1>2. CountOf(Tail(up), "PUBLISH") \in Nat /\ CountOf(down, "PUBACK") \in Nat
  <2>1. Tail(up) \in Seq(UpPacket)
    BY <1>0
  <2> QED
    BY <1>0, <2>1, CountType
<1>3. CASE Head(up).k = "CONNECT" /\ BrokerConnect
  <2> DEFINE a == <<Connack(session.present)>> \o Queue
  <2>1. down' = down \o a
    BY <1>3 DEF BrokerConnect, Answer, Connack
  <2>2. CountOf(Queue, "PUBACK") = 0
    <3>1. \A i \in 1..Len(Queue) : Queue[i].k # "PUBACK"
      <4>1. \A v : DataMsg(v).k # "PUBACK"
        BY DEF DataMsg
      <4> QED
        BY <4>1, QueueIs
    <3>2. Queue \in Seq(DownPacket)
      BY QueueIs
    <3> QED
      BY <3>1, <3>2, CountZero
  <2>3. CountOf(<<Connack(session.present)>>, "PUBACK") = 0
    BY CountOne DEF Connack
  <2>4. CountOf(a, "PUBACK") = CountOf(<<Connack(session.present)>>, "PUBACK")
                               + CountOf(Queue, "PUBACK")
    <3>1. Connack(session.present) \in DownPacket
      BY DownPackets, Zenon DEF Typed, Session
    <3>2. <<Connack(session.present)>> \in Seq(DownPacket) /\ Queue \in Seq(DownPacket)
      BY <3>1, QueueIs
    <3> QED
      BY <3>2, CountConcat
  <2>5. CountOf(a, "PUBACK") = 0
    BY <2>2, <2>3, <2>4
  <2>6. a \in Seq(DownPacket)
    BY Answers
  <2> HIDE DEF a
  <2>7. CountOf(down', "PUBACK") = CountOf(down, "PUBACK")
    BY <1>0, <1>2, <2>1, <2>5, <2>6, CountConcat
  <2> QED
    BY <1>0, <1>1, <1>2, <1>3, <2>7 DEF Owed
<1>4. CASE Head(up).k = "SUBSCRIBE" /\ BrokerSubscribe
  <2>1. PICK q \in Seq(DownPacket) : down' = down \o q /\ CountOf(q, "PUBACK") = 0
    <3>1. \/ down' = down \o <<Suback(FALSE)>>
          \/ down' = down \o (<<Suback(TRUE)>>
                              \o (IF retained = 0 THEN <<>> ELSE <<DataMsg(retained)>>))
      BY <1>4 DEF BrokerSubscribe, Answer, Suback
    <3>2. CountOf(<<Suback(FALSE)>>, "PUBACK") = 0 /\ <<Suback(FALSE)>> \in Seq(DownPacket)
      BY CountOne, Answers DEF Suback
    <3>3. CountOf(<<Suback(TRUE)>>, "PUBACK") = 0 /\ <<Suback(TRUE)>> \in Seq(DownPacket)
      BY CountOne, Answers DEF Suback
    <3> DEFINE r == IF retained = 0 THEN <<>> ELSE <<DataMsg(retained)>>
    <3>4. CountOf(r, "PUBACK") = 0
      BY CountOne, CountEmpty DEF DataMsg
    <3>5. r \in Seq(DownPacket)
      <4>1. DataMsg(retained) \in DownPacket
        BY DownPackets DEF Typed
      <4>2. <<DataMsg(retained)>> \in Seq(DownPacket) /\ <<>> \in Seq(DownPacket)
        BY <4>1
      <4> QED
        BY <4>2
    <3> HIDE DEF r
    <3> DEFINE t == <<Suback(TRUE)>>
    <3>6. CountOf(t, "PUBACK") = 0 /\ t \in Seq(DownPacket)
      BY <3>3
    <3> HIDE DEF t
    <3>7. CountOf(t \o r, "PUBACK") = 0 /\ t \o r \in Seq(DownPacket)
      BY <3>4, <3>5, <3>6, CountConcat
    <3> QED
      BY <3>1, <3>2, <3>7, Zenon DEF r, t
  <2>2. CountOf(down', "PUBACK") = CountOf(down, "PUBACK")
    BY <1>0, <1>2, <2>1, CountConcat
  <2> QED
    BY <1>0, <1>1, <1>2, <1>4, <2>2 DEF Owed
<1>5. CASE Head(up).k = "PUBLISH" /\ BrokerPublish(Head(up))
  <2>1. down' = down \o <<Puback>>
    BY <1>5 DEF BrokerPublish, Answer, Puback
  <2>2. Puback \in DownPacket /\ Puback.k = "PUBACK"
    BY DownPackets DEF Puback
  <2>3. CountOf(down', "PUBACK") = CountOf(down, "PUBACK") + 1
    BY <1>0, <2>1, <2>2, CountAppend
  <2> QED
    BY <1>0, <1>1, <1>2, <1>5, <2>3 DEF Owed
<1>6. CASE Head(up).k = "ACK" /\ BrokerAck(Head(up).v)
  <2>1. down' = down
    BY <1>6 DEF BrokerAck
  <2> QED
    BY <1>0, <1>1, <1>2, <1>6, <2>1 DEF Owed
<1> QED
  BY <1>3, <1>4, <1>5, <1>6, ReadStep

LEMMA OwedEvent ==
  ASSUME Typed, OnEvent
  PROVE  Owed' = Owed - IF Head(down).k = "PUBACK" THEN 1 ELSE 0
<1>0. down # <<>> /\ down' = Tail(down) /\ up \in Seq(UpPacket) /\ down \in Seq(DownPacket)
  BY EventStep DEF Typed
<1>1. CountOf(down, "PUBACK") = CountOf(Tail(down), "PUBACK")
                                + IF Head(down).k = "PUBACK" THEN 1 ELSE 0
  BY <1>0, CountTail
<1>2. CountOf(up, "PUBLISH") \in Nat /\ CountOf(Tail(down), "PUBACK") \in Nat
  <2>1. Tail(down) \in Seq(DownPacket)
    BY <1>0
  <2> QED
    BY <1>0, <2>1, CountType
<1>3. CountOf(up', "PUBLISH") = CountOf(up, "PUBLISH")
  <2>1. up' = up \/ \E v \in Nat : up' = up \o <<Ack(v)>>
    BY EventStep, Zenon
  <2>2. CASE up' = up
    BY <2>2
  <2>3. CASE \E v \in Nat : up' = up \o <<Ack(v)>>
    <3>1. PICK v \in Nat : up' = up \o <<Ack(v)>>
      BY <2>3
    <3>2. Ack(v) \in UpPacket /\ Ack(v).k # "PUBLISH"
      BY UpPackets DEF Ack
    <3> QED
      BY <1>0, <1>2, <3>1, <3>2, CountAppend
  <2> QED
    BY <2>1, <2>2, <2>3
<1> QED
  BY <1>0, <1>1, <1>2, <1>3 DEF Owed

(* A message that was sent stays in the broker's hands or on its way.      *)
LEMMA SentReads ==
  ASSUME Typed, BrokerReads, NEW m, m.k = "PUBLISH", Sent(m)
  PROVE  Sent(m)'
<1>0. up # <<>> /\ up' = Tail(up) /\ up \in Seq(UpPacket)
  BY ReadStep DEF Typed
<1>1. got \subseteq got' /\ (Head(up).k = "PUBLISH" => Head(up) \in got')
  BY ReadStep DEF BrokerConnect, BrokerSubscribe, BrokerPublish, BrokerAck
<1>2. CASE m \in got
  BY <1>1, <1>2 DEF Sent
<1>3. CASE \E i \in 1..Len(up) : up[i] = m
  <2>1. PICK i \in 1..Len(up) : up[i] = m
    BY <1>3
  <2>2. CASE i = 1
    <3>1. Head(up) = m
      BY <1>0, <2>1, <2>2
    <3> QED
      BY <1>1, <3>1 DEF Sent
  <2>3. CASE i # 1
    <3>1. i - 1 \in 1..Len(Tail(up)) /\ Tail(up)[i - 1] = m
      BY <1>0, <2>1, <2>3
    <3> QED
      BY <1>0, <3>1 DEF Sent
  <2> QED
    BY <2>2, <2>3
<1> QED
  BY <1>2, <1>3 DEF Sent

LEMMA SentEvent ==
  ASSUME Typed, OnEvent, NEW m, Sent(m)
  PROVE  Sent(m)'
<1>0. up \in Seq(UpPacket) /\ got' = got
  BY EventStep DEF Typed, broker
<1>1. up' = up \/ \E v \in Nat : up' = up \o <<Ack(v)>>
  BY EventStep, Zenon
<1>2. CASE up' = up
  BY <1>0, <1>2 DEF Sent
<1>3. CASE \E v \in Nat : up' = up \o <<Ack(v)>>
  <2>1. PICK v \in Nat : up' = up \o <<Ack(v)>>
    BY <1>3
  <2>2. <<Ack(v)>> \in Seq(UpPacket) /\ Len(<<Ack(v)>>) = 1
    BY UpPackets
  <2>3. \A i \in 1..Len(up) : i \in 1..Len(up') /\ up'[i] = up[i]
    BY <1>0, <2>1, <2>2
  <2> QED
    BY <1>0, <2>3 DEF Sent
<1> QED
  BY <1>1, <1>2, <1>3

(* A batch, the state message, the settings and the discovery messages are *)
(* told apart by their topics.                                             *)
LEMMA TopicsDiffer ==
  /\ \A i : BatchMsg(i) # StateMsg /\ BatchMsg(i) # EchoMsg
  /\ \A i : BatchMsg(i).k = "PUBLISH"
  /\ StateMsg.k = "PUBLISH" /\ EchoMsg.k = "PUBLISH" /\ StateMsg.i = 0 /\ EchoMsg.i = 0
  BY DEF BatchMsg, StateMsg, EchoMsg, Msg

LEMMA StateMsgsPublish == Typed => \A m \in StateMsgs : m.k = "PUBLISH"
<1> SUFFICES ASSUME Typed PROVE \A m \in StateMsgs : m.k = "PUBLISH"
  OBVIOUS
<1>1. cyc.need \in SUBSET Groups
  BY DEF Typed, Cycle
<1> QED
  BY <1>1, ConfigPackets, TopicsDiffer DEF StateMsgs

(* Nothing is owed: whatever was sent has been received.                   *)
LEMMA NothingOwed ==
  ASSUME Typed, Owed = 0, NEW m, m.k = "PUBLISH", Sent(m)
  PROVE  m \in got
<1>1. CountOf(up, "PUBLISH") = 0
  BY OwedType DEF Owed
<1>2. \A i \in 1..Len(up) : up[i].k # "PUBLISH"
  BY <1>1, CountZero DEF Typed
<1> QED
  BY <1>2 DEF Sent

LEMMA CountStep ==
  Typed /\ Ranges /\ CountInv /\ [MqttNext]_mqttVars => CountInv'
<1> SUFFICES ASSUME Typed, Ranges, CountInv, [MqttNext]_mqttVars PROVE CountInv'
  OBVIOUS
<1>t. Typed'
  BY TypedStep
<1>o. Owed \in Nat /\ Owed' \in Nat
  <2>1. Owed \in Nat
    BY OwedType
  <2>2. CountOf(up', "PUBLISH") \in Nat /\ CountOf(down', "PUBACK") \in Nat
    BY <1>t, CountType DEF Typed
  <2> QED
    BY <2>1, <2>2 DEF Owed
<1>c. ctx \in Context /\ log \in Log /\ up \in Seq(UpPacket) /\ down \in Seq(DownPacket)
      /\ linked \in BOOLEAN /\ cyc.need \in SUBSET Groups
  BY DEF Typed, Cycle
<1>1. CASE StartClient
  <2>1. up' = <<Connect>> /\ down' = <<>> /\ pc' = "connecting" /\ linked' = TRUE
    BY <1>1 DEF StartClient, Connect
  <2>2. CountOf(<<Connect>>, "PUBLISH") = 0 /\ CountOf(<<>>, "PUBACK") = 0
    BY CountOne, CountEmpty DEF Connect
  <2>3. Owed' = 0
    BY <2>1, <2>2 DEF Owed
  <2> QED
    BY <2>1, <2>3 DEF CountInv
<1>2. CASE Connected
  <2> DEFINE need == cyc.want \ s_discovery_sent_mask
  <2>1. /\ pc = "connecting" /\ pc' = "publish" /\ UNCHANGED <<linked, down>>
        /\ cyc'.need = need
        /\ ctx'.expected = 1 + Cardinality(Configs(need))
        /\ ctx'.received = 0 /\ ctx'.allAcked = FALSE
    BY <1>2, <1>c DEF Connected, Context, Typed, Cycle
  <2>2. ASSUME linked PROVE Owed' = 0
    <3>1. Owed = 0
      BY <2>1, <2>2 DEF CountInv
    <3>2. CountOf(up, "PUBLISH") = 0 /\ CountOf(down, "PUBACK") = 0
      BY <3>1, OwedType DEF Owed
    <3>3. up' = up \o <<Subscribe>> \/ up' = up \o <<>>
      BY <1>2, <2>2 DEF Connected, SendUp, Subscribe
    <3>4. CountOf(up', "PUBLISH") = 0
      <4>1. CASE up' = up \o <<>>
        <5>1. up' = up
          BY <1>c, <4>1
        <5> QED
          BY <3>2, <5>1
      <4>2. CASE up' = up \o <<Subscribe>>
        <5>1. Subscribe \in UpPacket /\ Subscribe.k # "PUBLISH"
          BY UpPackets DEF Subscribe
        <5> QED
          BY <1>c, <3>2, <4>2, <5>1, CountAppend
      <4> QED
        BY <3>3, <4>1, <4>2
    <3> QED
      BY <2>1, <3>2, <3>4 DEF Owed
  <2> HIDE DEF need
  <2> QED
    BY <2>1, <2>2 DEF CountInv
<1>3. CASE PublishState
  <2> DEFINE q == Append(ConfigSeq(cyc.need), StateMsg)
  <2>1. /\ pc = "publish" /\ pc' = "await"
        /\ UNCHANGED <<linked, down, ctx, cyc, got>>
    BY <1>3 DEF PublishState, broker
  <2>2. /\ q \in Seq(UpPacket) /\ Len(q) = 1 + Cardinality(Configs(cyc.need))
        /\ \A m \in StateMsgs : \E i \in 1..Len(q) : q[i] = m
    BY <1>c, StateSeq DEF StateMsgs
  <2>3. ctx.received = 0 /\ ~ctx.allAcked /\ ctx.expected = Len(q)
    BY <2>1, <2>2 DEF CountInv
  <2>4. ASSUME linked PROVE up' = up \o q
    BY <1>3, <2>4 DEF PublishState, SendUp
  <2> HIDE DEF q
  <2>5. ASSUME linked PROVE Owed' <= ctx.expected
    <3>1. Owed = 0
      BY <2>1, <2>5 DEF CountInv
    <3>2. CountOf(up, "PUBLISH") = 0 /\ CountOf(down, "PUBACK") = 0
      BY <3>1, OwedType DEF Owed
    <3>3. CountOf(up', "PUBLISH") = CountOf(up, "PUBLISH") + CountOf(q, "PUBLISH")
      <4>1. up \in Seq(UpPacket)
        BY <1>c
      <4>2. q \in Seq(UpPacket)
        BY <2>2
      <4>3. CountOf(up \o q, "PUBLISH") = CountOf(up, "PUBLISH") + CountOf(q, "PUBLISH")
        BY <4>1, <4>2, CountConcat, Zenon
      <4>4. up' = up \o q
        BY <2>4, <2>5
      <4> QED
        BY <4>3, <4>4, Zenon
    <3>4. CountOf(q, "PUBLISH") \in Nat /\ CountOf(q, "PUBLISH") <= Len(q)
      BY <2>2, CountType
    <3> QED
      BY <2>1, <2>3, <3>2, <3>3, <3>4 DEF Owed
  <2>6. ASSUME linked, NEW m \in StateMsgs PROVE Sent(m)'
    <3>1. PICK i \in 1..Len(q) : q[i] = m
      BY <2>2
    <3>2. Len(up) + i \in 1..Len(up \o q) /\ (up \o q)[Len(up) + i] = q[i]
      BY <1>c, <2>2
    <3> QED
      BY <2>4, <2>6, <3>1, <3>2 DEF Sent
  <2>7. StateMsgs' = StateMsgs
    BY <2>1 DEF StateMsgs
  <2> QED
    BY <1>c, <1>o, <2>1, <2>3, <2>5, <2>6, <2>7 DEF CountInv, Context
<1>4. CASE StateAcked
  <2>1. /\ pc = "await" /\ ctx.allAcked /\ pc' = "replay"
        /\ UNCHANGED <<linked, up, down>>
    BY <1>4 DEF StateAcked, net
  <2>2. Owed' = Owed
    BY <2>1 DEF Owed
  <2>3. linked => Owed = 0
    BY <1>c, <1>o, <2>1 DEF CountInv, Context
  <2> QED
    BY <2>1, <2>2, <2>3 DEF CountInv
<1>5. CASE ReplayBatch
  <2> DEFINE p == BatchMsg(log.tail)
  <2>1. /\ pc = "replay" /\ pc' = "awaitBatch" /\ UNCHANGED <<linked, down, got, log>>
        /\ ctx'.expected = 1 /\ ctx'.received = 0 /\ ctx'.allAcked = FALSE
    BY <1>5, <1>c DEF ReplayBatch, broker, Context
  <2>2. p \in UpPacket /\ p.k = "PUBLISH"
    BY <1>c, UpPackets, TopicsDiffer DEF Log
  <2>3. ASSUME linked PROVE up' = up \o <<p>>
    BY <1>5, <2>3 DEF ReplayBatch, SendUp
  <2> HIDE DEF p
  <2>4. ASSUME linked PROVE Owed' = 1
    <3>1. Owed = 0
      BY <2>1, <2>4 DEF CountInv
    <3>2. CountOf(up, "PUBLISH") = 0 /\ CountOf(down, "PUBACK") = 0
      BY <3>1, OwedType DEF Owed
    <3>3. CountOf(up \o <<p>>, "PUBLISH") = 1
      <4>1. up \in Seq(UpPacket)
        BY <1>c
      <4>2. CountOf(up \o <<p>>, "PUBLISH") = CountOf(up, "PUBLISH")
                                              + IF p.k = "PUBLISH" THEN 1 ELSE 0
        BY <2>2, <4>1, CountAppend, ZenonT(30)
      <4>3. (IF p.k = "PUBLISH" THEN 1 ELSE 0) = 1
        BY <2>2
      <4>4. CountOf(up \o <<p>>, "PUBLISH") = 0 + 1
        BY <3>2, <4>2, <4>3, Zenon
      <4> QED
        BY <4>4
    <3>4. CountOf(up', "PUBLISH") = 1
      BY <2>3, <2>4, <3>3, Zenon
    <3> QED
      BY <2>1, <3>2, <3>4 DEF Owed
  <2>5. ASSUME linked PROVE \E i \in 1..Len(up') : up'[i] = p
    <3>1. Len(up) + 1 \in 1..Len(up \o <<p>>) /\ (up \o <<p>>)[Len(up) + 1] = p
      BY <1>c, <2>2
    <3> QED
      BY <2>3, <2>5, <3>1
  <2>6. linked' => Sent(BatchMsg(log.tail))'
    <3>1. p' = p /\ linked' = linked
      BY <2>1 DEF p
    <3> QED
      BY <2>1, <2>5, <3>1 DEF p, Sent
  <2> QED
    BY <2>1, <2>4, <2>6 DEF CountInv
<1>6. CASE BatchAcked
  <2>1. /\ pc = "awaitBatch" /\ ctx.allAcked /\ pc' = "replay"
        /\ UNCHANGED <<linked, up, down>>
    BY <1>6 DEF BatchAcked, net
  <2>2. Owed' = Owed
    BY <2>1 DEF Owed
  <2>3. linked => Owed = 0
    BY <1>c, <1>o, <2>1 DEF CountInv, Context
  <2> QED
    BY <2>1, <2>2, <2>3 DEF CountInv
<1>7. CASE EchoSettings
  BY <1>7 DEF EchoSettings, CountInv
<1>8. CASE TimesOut
  <2>1. pc' \in {"echo", "close"} /\ UNCHANGED <<linked, down>>
    BY <1>8 DEF TimesOut, net
  <2> QED
    BY <2>1 DEF CountInv
<1>9. CASE CloseSession
  BY <1>9 DEF CloseSession, CountInv
<1>10. CASE OnEvent
  <2>0. linked /\ UNCHANGED <<got, linked, pc, cyc, log>>
    BY <1>10, EventStep DEF broker
  <2>1. Owed' = Owed - IF Head(down).k = "PUBACK" THEN 1 ELSE 0
    BY <1>10, OwedEvent
  <2>2. /\ StateMsgs' = StateMsgs /\ (\A m \in StateMsgs : Sent(m) => Sent(m)')
        /\ BatchMsg(log.tail)' = BatchMsg(log.tail)
        /\ (Sent(BatchMsg(log.tail)) => Sent(BatchMsg(log.tail))')
    <3>1. \A m : Sent(m) => Sent(m)'
      BY <1>10, SentEvent
    <3>2. StateMsgs' = StateMsgs /\ BatchMsg(log.tail)' = BatchMsg(log.tail)
      BY <2>0 DEF StateMsgs
    <3>3. Sent(BatchMsg(log.tail)) => Sent(BatchMsg(log.tail))'
      <4>1. got' = got /\ log' = log
        BY <2>0
      <4> QED
        BY <3>1, <4>1 DEF Sent
    <3> QED
      BY <3>1, <3>2, <3>3
  <2>3. CASE Head(down).k = "PUBACK"
    <3>1. ctx'.received = ctx.received + 1 /\ ctx'.expected = ctx.expected
          /\ (ctx'.allAcked <=> ctx.allAcked \/ ctx.received + 1 >= ctx.expected)
      BY <1>10, <1>c, <2>3, EventStep DEF Context
    <3>2. Owed' = Owed - 1
      BY <2>1, <2>3
    <3>3. pc \notin {"connecting", "publish", "replay"}
      <4>1. Owed # 0
        BY <1>o, <3>2
      <4> QED
        BY <2>0, <4>1 DEF CountInv
    <3>4. ASSUME pc \in {"await", "awaitBatch"}
          PROVE  /\ ctx'.received + Owed' <= ctx'.expected
                 /\ ctx'.allAcked => ctx'.received >= ctx'.expected
      BY <1>c, <1>o, <2>0, <3>1, <3>2, <3>4 DEF CountInv, Context
    <3>5. ASSUME ctx'.allAcked, pc \in {"await", "awaitBatch"}
          PROVE  Owed' = 0
      <4>1. ctx'.received \in Nat /\ ctx'.expected \in Nat
        BY <1>t DEF Typed, Context
      <4> QED
        BY <1>o, <3>4, <3>5, <4>1
    <3>6. ASSUME NEW m, m.k = "PUBLISH", Sent(m), Owed' = 0 PROVE m \in got
      <4>1. CountOf(up', "PUBLISH") = 0
        <5>1. CountOf(up', "PUBLISH") \in Nat /\ CountOf(down', "PUBACK") \in Nat
          BY <1>t, CountType DEF Typed
        <5> QED
          BY <3>6, <5>1 DEF Owed
      <4>2. up' = up
        BY <1>10, <2>3, EventStep
      <4>3. \A i \in 1..Len(up) : up[i].k # "PUBLISH"
        BY <1>c, <4>1, <4>2, CountZero
      <4> QED
        BY <3>6, <4>3 DEF Sent
    <3>7. ASSUME pc = "await" PROVE ctx'.allAcked => StateMsgs \subseteq got
      <4>1. \A m \in StateMsgs : Sent(m) /\ m.k = "PUBLISH"
        BY <2>0, <3>7, StateMsgsPublish DEF CountInv
      <4> QED
        BY <3>5, <3>6, <3>7, <4>1
    <3>8. ASSUME pc = "awaitBatch" PROVE ctx'.allAcked => BatchMsg(log.tail) \in got
      <4>1. Sent(BatchMsg(log.tail)) /\ BatchMsg(log.tail).k = "PUBLISH"
        BY <2>0, <3>8, TopicsDiffer DEF CountInv
      <4> QED
        BY <3>5, <3>6, <3>8, <4>1
    <3> QED
      BY <2>0, <2>2, <3>1, <3>3, <3>4, <3>7, <3>8 DEF CountInv
  <2>4. CASE Head(down).k # "PUBACK"
    <3>1. ctx'.received = ctx.received /\ ctx'.expected = ctx.expected
          /\ ctx'.allAcked = ctx.allAcked
      BY <1>10, <1>c, <2>4, EventStep DEF Context
    <3>2. Owed' = Owed
      <4>1. Owed' = Owed - 0
        BY <2>1, <2>4
      <4> QED
        BY <1>o, <4>1
    <3> QED
      BY <2>0, <2>2, <3>1, <3>2 DEF CountInv
  <2> QED
    BY <2>3, <2>4
<1>11. CASE BrokerReads
  <2>0. UNCHANGED <<linked, ctx, pc, cyc, log>>
    BY <1>11, ReadStep
  <2>1. linked => Owed' = Owed
    BY <1>11, OwedReads
  <2>2. got \subseteq got' /\ (~linked => down' = down)
    BY <1>11, ReadStep DEF BrokerConnect, BrokerSubscribe, BrokerPublish, BrokerAck, Answer
  <2>3. StateMsgs' = StateMsgs /\ \A m \in StateMsgs : Sent(m) => Sent(m)'
    <3>1. \A m \in StateMsgs : m.k = "PUBLISH"
      BY StateMsgsPublish
    <3>2. StateMsgs' = StateMsgs
      BY <2>0 DEF StateMsgs
    <3> QED
      BY <1>11, <3>1, <3>2, SentReads
  <2>4. Sent(BatchMsg(log.tail)) => Sent(BatchMsg(log.tail))'
    <3>1. ASSUME NEW m, m = BatchMsg(log.tail), Sent(m) PROVE Sent(m)'
      BY <1>11, <3>1, SentReads, TopicsDiffer
    <3>2. log' = log
      BY <2>0
    <3> QED
      BY <3>1, <3>2 DEF Sent
  <2>5. BatchMsg(log.tail)' = BatchMsg(log.tail)
    BY <2>0
  <2> QED
    BY <2>0, <2>1, <2>2, <2>3, <2>4, <2>5 DEF CountInv
<1>12. CASE RetainedChanges
  <2>0. UNCHANGED <<got, linked, up, ctx, pc, cyc, log>>
        /\ (down' = down \/ (linked /\ down' = Append(down, DataMsg(retained + 1))))
    BY <1>12 DEF RetainedChanges, Online
  <2>1. CountOf(down', "PUBACK") = CountOf(down, "PUBACK")
    <3>1. DataMsg(retained + 1) \in DownPacket /\ DataMsg(retained + 1).k # "PUBACK"
      BY DownPackets DEF DataMsg, Typed
    <3>2. Append(down, DataMsg(retained + 1)) = down \o <<DataMsg(retained + 1)>>
      BY <1>c, <3>1
    <3>3. CountOf(down, "PUBACK") \in Nat
      BY OwedType
    <3>4. CountOf(down \o <<DataMsg(retained + 1)>>, "PUBACK") = CountOf(down, "PUBACK")
      BY <1>c, <3>1, <3>3, CountAppend
    <3> QED
      BY <2>0, <3>2, <3>4, Zenon
  <2>2. Owed' = Owed
    BY <2>0, <2>1 DEF Owed
  <2>3. \A m : Sent(m) => Sent(m)'
    BY <2>0 DEF Sent
  <2>4. StateMsgs' = StateMsgs /\ BatchMsg(log.tail)' = BatchMsg(log.tail)
        /\ (Sent(BatchMsg(log.tail)) => Sent(BatchMsg(log.tail))')
    BY <2>0, <2>3 DEF StateMsgs, Sent
  <2> QED
    BY <2>0, <2>2, <2>3, <2>4 DEF CountInv
<1>13. CASE ConnectionDrops
  <2>0. linked' = FALSE /\ down' = <<>> /\ UNCHANGED <<got, ctx, pc, cyc, log>>
    BY <1>13 DEF ConnectionDrops, broker
  <2>1. StateMsgs' = StateMsgs /\ BatchMsg(log.tail)' = BatchMsg(log.tail)
    BY <2>0 DEF StateMsgs
  <2> QED
    BY <2>0, <2>1 DEF CountInv
<1>14. CASE SessionForgotten
  <2>0. ~linked /\ UNCHANGED <<linked, down, got, ctx, pc, cyc, log>>
    BY <1>14 DEF SessionForgotten
  <2>1. StateMsgs' = StateMsgs /\ BatchMsg(log.tail)' = BatchMsg(log.tail)
    BY <2>0 DEF StateMsgs
  <2> QED
    BY <2>0, <2>1 DEF CountInv
<1>15. CASE DeviceBoots
  BY <1>15 DEF DeviceBoots, CountInv
<1>16. CASE UNCHANGED mqttVars
  <2>0. UNCHANGED <<linked, up, down, got, ctx, pc, cyc, log>>
    BY <1>16 DEF mqttVars, broker, net
  <2>1. StateMsgs' = StateMsgs /\ Owed' = Owed /\ BatchMsg(log.tail)' = BatchMsg(log.tail)
        /\ (\A m : Sent(m)' <=> Sent(m))
        /\ (Sent(BatchMsg(log.tail))' <=> Sent(BatchMsg(log.tail)))
    BY <2>0 DEF StateMsgs, Owed, Sent
  <2> QED
    BY <2>0, <2>1 DEF CountInv
<1> QED
  BY <1>1, <1>2, <1>3, <1>4, <1>5, <1>6, <1>7, <1>8, <1>9, <1>10, <1>11, <1>12,
     <1>13, <1>14, <1>15, <1>16 DEF MqttNext, CycleStep

(* The results of a wait are used only where the wait was won.             *)
ReceivedInv ==
  /\ cyc.ok => pc \notin {"connecting", "publish", "await"}
  /\ log.tail <= log.head /\ (pc = "awaitBatch" => log.tail < log.head)
  /\ OkMeansReceived /\ SkippedWasReceived /\ ReplayedWasReceived

LEMMA ReceivedStep ==
  Typed /\ CountInv /\ ReceivedInv /\ [MqttNext]_mqttVars => ReceivedInv'
<1> SUFFICES ASSUME Typed, CountInv, ReceivedInv, [MqttNext]_mqttVars
             PROVE  ReceivedInv'
  OBVIOUS
<1>c. cyc \in Cycle /\ log \in Log /\ log.head \in Nat /\ log.tail \in Nat
      /\ s_discovery_sent_mask \subseteq Groups
  BY DEF Typed, Log
<1>1. CASE StartClient
  <2>1. /\ pc' = "connecting" /\ cyc'.ok = FALSE /\ got' = got \ {StateMsg, EchoMsg}
        /\ UNCHANGED <<s_discovery_sent_mask, log>>
    BY <1>1 DEF StartClient, NewCycle, memory
  <2>2. SkippedWasReceived'
    <3>1. \A m \in Configs(s_discovery_sent_mask) : m.i # 0
      BY <1>c, ConfigPackets
    <3>2. \A m \in Configs(s_discovery_sent_mask) : m # StateMsg /\ m # EchoMsg
      BY <3>1, TopicsDiffer
    <3> QED
      BY <2>1, <3>2 DEF ReceivedInv, SkippedWasReceived
  <2>3. ReplayedWasReceived'
    BY <2>1, TopicsDiffer DEF ReceivedInv, ReplayedWasReceived
  <2> QED
    BY <2>1, <2>2, <2>3 DEF ReceivedInv, OkMeansReceived
<1>2. CASE Connected
  <2>1. pc = "connecting" /\ pc' = "publish" /\ cyc'.ok = cyc.ok
        /\ UNCHANGED <<got, s_discovery_sent_mask, log>>
    BY <1>2, <1>c DEF Connected, broker, Cycle
  <2> QED
    BY <2>1 DEF ReceivedInv, OkMeansReceived, SkippedWasReceived, ReplayedWasReceived
<1>3. CASE PublishState \/ EchoSettings \/ TimesOut
  <2>1. /\ pc' \in {"await", "echo", "close"} /\ (pc' = "await" => pc = "publish")
        /\ UNCHANGED <<cyc, got, s_discovery_sent_mask, log>>
    BY <1>3 DEF PublishState, EchoSettings, TimesOut, broker, memory
  <2> QED
    BY <2>1 DEF ReceivedInv, OkMeansReceived, SkippedWasReceived, ReplayedWasReceived
<1>4. CASE StateAcked
  <2>1. /\ pc = "await" /\ ctx.allAcked /\ pc' = "replay" /\ cyc'.need = cyc.need
        /\ s_discovery_sent_mask' = s_discovery_sent_mask \cup cyc.need
        /\ UNCHANGED <<got, log>>
    BY <1>4, <1>c DEF StateAcked, broker, Cycle
  <2>2. Configs(cyc.need) \subseteq got /\ StateMsg \in got
    BY <2>1 DEF CountInv, StateMsgs
  <2>3. Configs(s_discovery_sent_mask \cup cyc.need)
          \subseteq Configs(s_discovery_sent_mask) \cup Configs(cyc.need)
    BY DEF Configs
  <2>4. OkMeansReceived'
    BY <2>1, <2>2 DEF OkMeansReceived
  <2>5. SkippedWasReceived'
    BY <2>1, <2>2, <2>3 DEF ReceivedInv, SkippedWasReceived
  <2> QED
    BY <2>1, <2>4, <2>5 DEF ReceivedInv, ReplayedWasReceived
<1>5. CASE ReplayBatch
  <2>1. /\ pc' = "awaitBatch" /\ log.head # log.tail
        /\ UNCHANGED <<cyc, got, s_discovery_sent_mask, log>>
    BY <1>5 DEF ReplayBatch, MorePending, broker, memory
  <2> QED
    BY <1>c, <2>1 DEF ReceivedInv, OkMeansReceived, SkippedWasReceived, ReplayedWasReceived
<1>6. CASE BatchAcked
  <2>1. /\ pc = "awaitBatch" /\ ctx.allAcked /\ pc' = "replay"
        /\ log'.tail = log.tail + 1 /\ log'.head = log.head
        /\ cyc'.ok = cyc.ok /\ cyc'.need = cyc.need
        /\ UNCHANGED <<got, s_discovery_sent_mask>>
    BY <1>6, <1>c DEF BatchAcked, broker, memory, Cycle, Log
  <2>2. BatchMsg(log.tail) \in got
    BY <2>1 DEF CountInv
  <2>3. ReplayedWasReceived'
    <3>1. \A i \in 0..((log.tail + 1) - 1) : i \in 0..(log.tail - 1) \/ i = log.tail
      BY <1>c
    <3> QED
      BY <2>1, <2>2, <3>1 DEF ReceivedInv, ReplayedWasReceived
  <2>4. log.tail + 1 <= log.head
    BY <1>c, <2>1 DEF ReceivedInv
  <2> QED
    BY <2>1, <2>3, <2>4 DEF ReceivedInv, OkMeansReceived, SkippedWasReceived
<1>7. CASE CloseSession
  <2>1. /\ pc' = "sleep" /\ log'.tail = log.tail /\ log'.head \in {log.head, log.head + 1}
        /\ UNCHANGED <<got, cyc, s_discovery_sent_mask>>
    BY <1>7, <1>c DEF CloseSession, broker, memory, Log
  <2> QED
    BY <1>c, <2>1 DEF ReceivedInv, OkMeansReceived, SkippedWasReceived, ReplayedWasReceived
<1>8. CASE OnEvent \/ BrokerReads \/ RetainedChanges \/ ConnectionDrops
           \/ SessionForgotten \/ UNCHANGED mqttVars
  <2>1. got \subseteq got' /\ UNCHANGED <<pc, cyc, s_discovery_sent_mask, log>>
    BY <1>8, EventStep, ReadStep DEF RetainedChanges, ConnectionDrops, SessionForgotten,
       mqttVars, broker, memory, BrokerConnect, BrokerSubscribe, BrokerPublish, BrokerAck
  <2> QED
    BY <2>1 DEF ReceivedInv, OkMeansReceived, SkippedWasReceived, ReplayedWasReceived
<1>9. CASE DeviceBoots
  <2>1. /\ pc' = "sleep" /\ cyc'.ok = FALSE /\ log'.head = 0 /\ log'.tail = 0
        /\ s_discovery_sent_mask' = {}
    BY <1>9 DEF DeviceBoots, NewCycle, EmptyLog
  <2>2. Configs({}) = {}
    BY DEF Configs
  <2> QED
    BY <2>1, <2>2 DEF ReceivedInv, OkMeansReceived, SkippedWasReceived, ReplayedWasReceived
<1> QED
  BY <1>1, <1>2, <1>3, <1>4, <1>5, <1>6, <1>7, <1>8, <1>9 DEF MqttNext, CycleStep

CountedInv == Typed /\ Ranges /\ CountInv /\ ReceivedInv

LEMMA CountedInvariant == MqttSpec => []CountedInv
<1>1. MqttInit => CountedInv
  <2> SUFFICES ASSUME MqttInit PROVE CountedInv
    OBVIOUS
  <2>1. CountInv
    BY DEF MqttInit, CountInv
  <2>2. ReceivedInv
    <3>1. cyc.ok = FALSE /\ log.head = 0 /\ log.tail = 0 /\ s_discovery_sent_mask = {}
          /\ pc = "sleep"
      BY DEF MqttInit, NewCycle, EmptyLog
    <3>2. Configs({}) = {}
      BY DEF Configs
    <3> QED
      BY <3>1, <3>2 DEF ReceivedInv, OkMeansReceived, SkippedWasReceived, ReplayedWasReceived
  <2> QED
    BY <2>1, <2>2, TypedInit DEF CountedInv
<1>2. CountedInv /\ [MqttNext]_mqttVars => CountedInv'
  BY TypedStep, RangesStep, CountStep, ReceivedStep DEF CountedInv
<1> QED
  BY <1>1, <1>2, PTL DEF MqttSpec

(* Every variable of the client keeps a value of its type, and the history *)
(* log's tail never passes its head.                                       *)
THEOREM SessionTypes == MqttSpec => []MqttTypeOK
<1>1. CountedInv => MqttTypeOK
  <2> SUFFICES ASSUME CountedInv PROVE MqttTypeOK
    OBVIOUS
  <2>1. ctx.received \in Nat /\ ctx.expected \in Nat /\ log.head \in Nat
        /\ log.tail \in Nat /\ log.tail <= log.head
    BY DEF CountedInv, Typed, Context, Log, ReceivedInv
  <2> QED
    BY <2>1 DEF CountedInv, Typed, MqttTypeOK
<1> QED
  BY <1>1, CountedInvariant, PTL

(* A cycle that reports ok: the broker has its state message and all the   *)
(* discovery messages it owed, whatever is lost, delayed or restarted.     *)
THEOREM OkIsReceived == MqttSpec => []OkMeansReceived
<1>1. CountedInv => OkMeansReceived
  BY DEF CountedInv, ReceivedInv
<1> QED
  BY <1>1, CountedInvariant, PTL

(* A discovery group is skipped only after the broker has had all of it.   *)
THEOREM SkippedIsReceived == MqttSpec => []SkippedWasReceived
<1>1. CountedInv => SkippedWasReceived
  BY DEF CountedInv, ReceivedInv
<1> QED
  BY <1>1, CountedInvariant, PTL

(* A reading leaves the history log only after the broker has received it. *)
THEOREM ReplayedIsReceived == MqttSpec => []ReplayedWasReceived
<1>1. CountedInv => ReplayedWasReceived
  BY DEF CountedInv, ReceivedInv
<1> QED
  BY <1>1, CountedInvariant, PTL

-----------------------------------------------------------------------------
(* A cycle that ends ok is up to date.  The acknowledgement of the state   *)
(* message comes after the queued changes and the retained value on the    *)
(* same stream, so the argument is about the order of the packets on both  *)
(* streams and about what the broker still holds for the session.          *)

LEMMA TailPoints ==
  ASSUME NEW S, NEW s \in Seq(S), s # <<>>
  PROVE  /\ Len(s) \in Nat \ {0} /\ Len(Tail(s)) = Len(s) - 1
         /\ s[1] = Head(s) /\ Head(s) \in S /\ Tail(s) \in Seq(S)
         /\ \A i \in 1..Len(Tail(s)) : i + 1 \in 1..Len(s) /\ Tail(s)[i] = s[i + 1]
  OBVIOUS

LEMMA ConcatPoints ==
  ASSUME NEW S, NEW s \in Seq(S), NEW t \in Seq(S)
  PROVE  /\ s \o t \in Seq(S) /\ Len(s \o t) = Len(s) + Len(t)
         /\ Len(s) \in Nat /\ Len(t) \in Nat
         /\ \A i \in 1..Len(s) : i \in 1..Len(s \o t) /\ (s \o t)[i] = s[i]
         /\ \A i \in 1..Len(s \o t) :
              \/ i \in 1..Len(s) /\ (s \o t)[i] = s[i]
              \/ /\ i - Len(s) \in 1..Len(t) /\ i > Len(s)
                 /\ (s \o t)[i] = t[i - Len(s)]
  OBVIOUS

LEMMA OnePoint ==
  ASSUME NEW S, NEW p \in S
  PROVE  /\ <<p>> \in Seq(S) /\ Len(<<p>>) = 1 /\ <<p>>[1] = p
         /\ \A i \in 1..Len(<<p>>) : i = 1
  OBVIOUS

LEMMA TwoPoints ==
  ASSUME NEW S, NEW s \in Seq(S), NEW t \in Seq(S), Len(s) = 1, Len(t) = 1
  PROVE  /\ s \o t \in Seq(S) /\ Len(s \o t) = 2
         /\ (s \o t)[1] = s[1] /\ (s \o t)[2] = t[1]
<1>1. s \o t \in Seq(S) /\ Len(s \o t) = 2
  <2>1. s \o t \in Seq(S) /\ Len(s \o t) = Len(s) + Len(t)
    BY SMTT(30)
  <2> QED
    BY <2>1
<1>2. (s \o t)[1] = s[1]
  <2>1. 1 \in 1..Len(s)
    OBVIOUS
  <2> QED
    BY <2>1, ConcatPoints
<1>3. (s \o t)[2] = t[1]
  <2>1. 2 \in 1..Len(s \o t) /\ ~(2 \in 1..Len(s)) /\ 2 - Len(s) = 1
    BY <1>1
  <2>2. (s \o t)[2] = t[2 - Len(s)]
    BY <2>1, ConcatPoints
  <2> QED
    BY <2>1, <2>2
<1> QED
  BY <1>1, <1>2, <1>3

LEMMA AppendPoints ==
  ASSUME NEW S, NEW s \in Seq(S), NEW p \in S
  PROVE  /\ s \o <<p>> \in Seq(S) /\ Len(s \o <<p>>) = Len(s) + 1 /\ Len(s) \in Nat
         /\ \A i \in 1..Len(s) : i \in 1..Len(s \o <<p>>) /\ (s \o <<p>>)[i] = s[i]
         /\ \A i \in 1..Len(s \o <<p>>) :
              \/ i \in 1..Len(s) /\ (s \o <<p>>)[i] = s[i]
              \/ i = Len(s) + 1 /\ (s \o <<p>>)[i] = p
  OBVIOUS

Has(s, k) == \E i \in 1..Len(s) : s[i].k = k

(* A CONNECT is alone on its connection until the broker has read it.      *)
ConnectInv ==
  /\ Has(up, "CONNECT") =>
       /\ up = <<Connect>> /\ down = <<>>
       /\ pc \in {"connecting", "close", "sleep"} /\ ~cyc.ok
       /\ ~ctx.subscribed /\ ~ctx.connected
  /\ pc = "connecting" =>
       /\ \A i \in 1..Len(up) : up[i].k \in {"CONNECT", "ACK"}
       /\ ~Has(down, "SUBACK") /\ ~ctx.subscribed

(* A SUBSCRIBE comes before the messages that are counted, and a cycle     *)
(* that does not subscribe believes in its subscription.                   *)
SubscribeInv ==
  /\ \A i \in 1..Len(up) : up[i].k = "SUBSCRIBE" =>
       /\ \A j \in 1..(i - 1) : up[j].k = "ACK"
       /\ ~Has(down, "PUBACK") /\ ~Has(down, "SUBACK")
       /\ ctx.received = 0 /\ ~ctx.subscribed /\ ~cyc.ok /\ ~s_session_subscribed
  /\ pc \in {"publish", "await"} \/ cyc.ok => cyc.subscribe \/ s_session_subscribed

(* Nothing new of a kind comes up unless it is sent, or down unless it is  *)
(* answered.                                                               *)
LEMMA HasTail ==
  ASSUME NEW S, NEW s \in Seq(S), s # <<>>, NEW k, Has(Tail(s), k)
  PROVE  Has(s, k)
  BY TailPoints DEF Has

LEMMA HasAppend ==
  ASSUME NEW S, NEW s \in Seq(S), NEW p \in S, NEW k
  PROVE  Has(s \o <<p>>, k) <=> Has(s, k) \/ p.k = k
<1>1. Len(s) + 1 \in 1..Len(s \o <<p>>) /\ (s \o <<p>>)[Len(s) + 1] = p
  OBVIOUS
<1> QED
  BY <1>1, AppendPoints DEF Has

LEMMA HasConcat ==
  ASSUME NEW S, NEW s \in Seq(S), NEW t \in Seq(S), NEW k, Has(s \o t, k)
  PROVE  Has(s, k) \/ Has(t, k)
  BY ConcatPoints DEF Has

LEMMA HasEmpty == ASSUME NEW k PROVE ~Has(<<>>, k)
  BY DEF Has

LEMMA ConnectStep ==
  Typed /\ Ranges /\ CountInv /\ ReceivedInv /\ ConnectInv /\ [MqttNext]_mqttVars
    => ConnectInv'
<1> SUFFICES ASSUME Typed, Ranges, CountInv, ReceivedInv, ConnectInv, [MqttNext]_mqttVars
             PROVE  ConnectInv'
  OBVIOUS
<1>c. up \in Seq(UpPacket) /\ down \in Seq(DownPacket) /\ ctx \in Context /\ cyc \in Cycle
  BY DEF Typed
<1>e. \A k : ~Has(<<>>, k)
  BY HasEmpty
<1>1. CASE StartClient
  <2>1. /\ up' = <<Connect>> /\ down' = <<>> /\ pc' = "connecting" /\ cyc'.ok = FALSE
        /\ ctx'.connected = FALSE /\ ctx'.subscribed = FALSE
    BY <1>1, <1>c DEF StartClient, Connect, NewCycle, Context
  <2>2. \A i \in 1..Len(<<Connect>>) : <<Connect>>[i].k = "CONNECT"
    BY DEF Connect
  <2> QED
    BY <1>e, <2>1, <2>2 DEF ConnectInv
<1>2. CASE Connected \/ PublishState \/ ReplayBatch \/ EchoSettings
  <2>1. ~Has(up, "CONNECT")
    BY <1>2 DEF ConnectInv, Connected, PublishState, ReplayBatch, EchoSettings
  <2>2. pc' # "connecting"
    BY <1>2 DEF Connected, PublishState, ReplayBatch, EchoSettings
  <2>3. ~Has(up', "CONNECT")
    <3>1. CASE UNCHANGED Streams
      BY <2>1, <3>1 DEF Streams
    <3>2. CASE StreamsSend
      <4>1. PICK q \in Seq(UpPacket) :
              up' = up \o q /\ \A i \in 1..Len(q) : q[i].k \in {"SUBSCRIBE", "PUBLISH"}
        BY <3>2 DEF StreamsSend
      <4>2. ~Has(q, "CONNECT")
        BY <4>1 DEF Has
      <4>3. ~Has(up \o q, "CONNECT")
        BY <1>c, <2>1, <4>2, HasConcat
      <4> QED
        BY <4>1, <4>3
    <3> QED
      BY <1>2, <3>1, <3>2, SendsAre
  <2> QED
    BY <2>2, <2>3 DEF ConnectInv
<1>3. CASE StateAcked \/ BatchAcked \/ TimesOut
  <2>1. pc \in {"await", "awaitBatch"} \/ (pc = "connecting" /\ pc' = "close" /\ cyc' = cyc)
    BY <1>3 DEF StateAcked, BatchAcked, TimesOut
  <2>2. UNCHANGED <<up, down, ctx>> /\ pc' # "connecting"
    BY <1>3 DEF StateAcked, BatchAcked, TimesOut, net
  <2> QED
    BY <2>1, <2>2 DEF ConnectInv
<1>4. CASE CloseSession
  <2>1. UNCHANGED <<up, ctx, cyc>> /\ down' = <<>> /\ pc' = "sleep"
    BY <1>4 DEF CloseSession
  <2> QED
    BY <2>1 DEF ConnectInv
<1>5. CASE OnEvent
  <2>0. down # <<>> /\ down' = Tail(down) /\ UNCHANGED <<pc, cyc>>
    BY <1>5, EventStep
  <2>1. ~Has(up, "CONNECT")
    BY <2>0 DEF ConnectInv
  <2>2. up' = up \/ \E v \in Nat : up' = up \o <<Ack(v)>>
    BY <1>5, EventStep, Zenon
  <2>3. \A v \in Nat : Ack(v) \in UpPacket /\ Ack(v).k = "ACK"
    BY UpPackets DEF Ack
  <2>4. ~Has(up', "CONNECT")
    <3>1. ASSUME NEW v \in Nat PROVE ~Has(up \o <<Ack(v)>>, "CONNECT")
      <4>1. up \in Seq(UpPacket) /\ Ack(v) \in UpPacket
        BY <1>c, <2>3
      <4>2. Has(up \o <<Ack(v)>>, "CONNECT") <=> Has(up, "CONNECT") \/ Ack(v).k = "CONNECT"
        BY <4>1, HasAppend, Zenon
      <4>3. Ack(v).k # "CONNECT"
        BY <2>3
      <4> QED
        BY <2>1, <4>2, <4>3, Zenon
    <3> QED
      BY <2>1, <2>2, <3>1, Zenon
  <2>5. ASSUME pc = "connecting"
        PROVE  /\ \A i \in 1..Len(up') : up'[i].k \in {"CONNECT", "ACK"}
               /\ ~Has(down', "SUBACK") /\ ctx'.subscribed = ctx.subscribed
    <3>1. ~Has(down', "SUBACK")
      BY <1>c, <2>0, <2>5, HasTail DEF ConnectInv
    <3>2. Head(down).k # "SUBACK"
      BY <1>c, <2>0, <2>5, TailPoints DEF ConnectInv, Has
    <3>3. ctx'.subscribed = ctx.subscribed
      BY <1>5, <1>c, <3>2, EventStep DEF Context
    <3>4. \A i \in 1..Len(up) : up[i].k \in {"CONNECT", "ACK"}
      BY <2>5 DEF ConnectInv
    <3>5. ASSUME NEW v \in Nat
          PROVE  \A i \in 1..Len(up \o <<Ack(v)>>) : (up \o <<Ack(v)>>)[i].k \in {"CONNECT", "ACK"}
      <4>1. Ack(v) \in UpPacket /\ Ack(v).k = "ACK"
        BY <2>3
      <4> QED
        BY <1>c, <3>4, <4>1, AppendPoints
    <3> QED
      BY <2>2, <3>1, <3>3, <3>4, <3>5
  <2> QED
    BY <2>0, <2>4, <2>5 DEF ConnectInv
<1>6. CASE BrokerReads
  <2>0. up # <<>> /\ up' = Tail(up) /\ UNCHANGED <<pc, ctx, cyc>>
    BY <1>6, ReadStep
  <2>1. ~Has(up', "CONNECT")
    <3>1. CASE Has(up, "CONNECT")
      <4>1. up = <<Connect>>
        BY <3>1 DEF ConnectInv
      <4>2. Tail(<<Connect>>) = <<>>
        OBVIOUS
      <4> QED
        BY <1>e, <2>0, <4>1, <4>2
    <3>2. CASE ~Has(up, "CONNECT")
      BY <1>c, <2>0, <3>2, HasTail
    <3> QED
      BY <3>1, <3>2
  <2>2. ASSUME pc = "connecting"
        PROVE  /\ \A i \in 1..Len(up') : up'[i].k \in {"CONNECT", "ACK"}
               /\ ~Has(down', "SUBACK")
    <3>1. \A i \in 1..Len(up') : up'[i].k \in {"CONNECT", "ACK"}
      BY <1>c, <2>0, <2>2, TailPoints DEF ConnectInv
    <3>2. Head(up).k \in {"CONNECT", "ACK"}
      BY <1>c, <2>0, <2>2, TailPoints DEF ConnectInv
    <3>3. ~Has(down, "SUBACK")
      BY <2>2 DEF ConnectInv
    <3>4. CASE Head(up).k = "CONNECT" /\ BrokerConnect
      <4>1. down' = down \/ down' = down \o (<<Connack(session.present)>> \o Queue)
        BY <3>4 DEF BrokerConnect, Answer, Connack
      <4>2. Queue \in Seq(DownPacket) /\ ~Has(Queue, "SUBACK")
        <5>1. \A v : DataMsg(v).k = "DATA"
          BY DEF DataMsg
        <5> QED
          BY <5>1, QueueIs DEF Has
      <4>3. Connack(session.present) \in DownPacket
        BY DownPackets, Zenon DEF Typed, Session
      <4> DEFINE t == <<Connack(session.present)>>
      <4>4. t \in Seq(DownPacket) /\ ~Has(t, "SUBACK")
        BY <4>3 DEF Has, Connack
      <4> HIDE DEF t
      <4>5. ~Has(t \o Queue, "SUBACK") /\ t \o Queue \in Seq(DownPacket)
        BY <4>2, <4>4, HasConcat
      <4>6. ~Has(down \o (t \o Queue), "SUBACK")
        BY <1>c, <3>3, <4>5, HasConcat
      <4> QED
        BY <3>1, <3>3, <4>1, <4>6 DEF t
    <3>5. CASE Head(up).k = "ACK" /\ BrokerAck(Head(up).v)
      BY <3>1, <3>3, <3>5 DEF BrokerAck
    <3> QED
      BY <1>6, <3>2, <3>4, <3>5, ReadStep
  <2> QED
    BY <2>0, <2>1, <2>2 DEF ConnectInv
<1>7. CASE RetainedChanges
  <2>0. UNCHANGED <<up, ctx, pc, cyc>>
        /\ (down' = down \/ (Online /\ down' = Append(down, DataMsg(retained + 1))))
    BY <1>7 DEF RetainedChanges
  <2>1. ASSUME Has(up, "CONNECT") PROVE down' = <<>>
    <3>1. up = <<Connect>> /\ down = <<>>
      BY <2>1 DEF ConnectInv
    <3>2. <<Connect>> # <<>> /\ Head(<<Connect>>).k = "CONNECT"
      BY DEF Connect
    <3>3. ~Online
      BY <3>1, <3>2 DEF Online
    <3> QED
      BY <2>0, <3>1, <3>3
  <2>2. Has(down', "SUBACK") => Has(down, "SUBACK")
    <3>1. DataMsg(retained + 1) \in DownPacket /\ DataMsg(retained + 1).k = "DATA"
      BY DownPackets DEF DataMsg, Typed
    <3>2. Append(down, DataMsg(retained + 1)) = down \o <<DataMsg(retained + 1)>>
      BY <1>c, <3>1
    <3>3. Has(down \o <<DataMsg(retained + 1)>>, "SUBACK") => Has(down, "SUBACK")
      BY <1>c, <3>1, HasAppend
    <3> QED
      BY <2>0, <3>2, <3>3, Zenon
  <2> QED
    BY <2>0, <2>1, <2>2 DEF ConnectInv
<1>8. CASE ConnectionDrops \/ SessionForgotten
  <2>1. up' \in {up, <<>>} /\ (down' = <<>> \/ down' = down) /\ UNCHANGED <<ctx, pc, cyc>>
    BY <1>8 DEF ConnectionDrops, SessionForgotten
  <2>2. \A i \in 1..Len(<<>>) : FALSE
    OBVIOUS
  <2> QED
    BY <1>e, <2>1, <2>2 DEF ConnectInv
<1>9. CASE DeviceBoots
  <2>1. /\ up' = up /\ down' = <<>> /\ pc' = "sleep" /\ cyc'.ok = FALSE
        /\ ctx'.subscribed = FALSE /\ ctx'.connected = FALSE
    BY <1>9 DEF DeviceBoots, NewCycle, NewCtx
  <2> QED
    BY <2>1 DEF ConnectInv
<1>10. CASE UNCHANGED mqttVars
  BY <1>10 DEF mqttVars, net, ConnectInv
<1> QED
  BY <1>1, <1>2, <1>3, <1>4, <1>5, <1>6, <1>7, <1>8, <1>9, <1>10 DEF MqttNext, CycleStep

(* After a wait for the state message was won, no SUBSCRIBE is left.       *)
LEMMA AckedAfterSubscribe ==
  ASSUME Typed, CountInv, SubscribeInv,
         (pc = "await" /\ ctx.allAcked) \/ cyc.ok
  PROVE  ~Has(up, "SUBSCRIBE")
<1>1. CASE cyc.ok
  BY <1>1 DEF SubscribeInv, Has
<1>2. CASE pc = "await" /\ ctx.allAcked
  <2>1. cyc.need \in SUBSET Groups /\ ctx.received \in Nat
    BY DEF Typed, Cycle, Context
  <2>2. ctx.received >= 1 + Cardinality(Configs(cyc.need))
    BY <1>2 DEF CountInv
  <2>3. ctx.received # 0
    BY <2>1, <2>2, ConfigSeqIs
  <2> QED
    BY <2>3 DEF SubscribeInv, Has
<1> QED
  BY <1>1, <1>2

LEMMA SubscribeStep ==
  Typed /\ Ranges /\ CountInv /\ ReceivedInv /\ ConnectInv /\ SubscribeInv
    /\ [MqttNext]_mqttVars => SubscribeInv'
<1> SUFFICES ASSUME Typed, Ranges, CountInv, ReceivedInv, ConnectInv, SubscribeInv,
                    [MqttNext]_mqttVars
             PROVE  SubscribeInv'
  OBVIOUS
<1>c. up \in Seq(UpPacket) /\ down \in Seq(DownPacket) /\ ctx \in Context /\ cyc \in Cycle
      /\ log \in Log
  BY DEF Typed
<1>e. \A k : ~Has(<<>>, k)
  BY HasEmpty
<1>p. ASSUME NEW q \in Seq(UpPacket), up' = up \o q,
             \A i \in 1..Len(q) : q[i].k # "SUBSCRIBE",
             NEW i \in 1..Len(up'), up'[i].k = "SUBSCRIBE"
      PROVE  /\ i \in 1..Len(up) /\ up[i].k = "SUBSCRIBE"
             /\ \A j \in 1..(i - 1) : up'[j] = up[j]
  <2>1. i \in 1..Len(up) /\ up'[i] = up[i]
    BY <1>c, <1>p, ConcatPoints
  <2>2. \A j \in 1..(i - 1) : j \in 1..Len(up)
    BY <1>c, <2>1
  <2> QED
    BY <1>c, <1>p, <2>1, <2>2, ConcatPoints
<1>1. CASE StartClient
  <2>1. /\ up' = <<Connect>> /\ pc' = "connecting" /\ cyc'.ok = FALSE
    BY <1>1 DEF StartClient, Connect, NewCycle
  <2>2. \A i \in 1..Len(<<Connect>>) : <<Connect>>[i].k # "SUBSCRIBE"
    BY DEF Connect
  <2> QED
    BY <2>1, <2>2 DEF SubscribeInv
<1>2. CASE Connected
  <2> DEFINE held == ctx.session_present /\ s_session_subscribed
  <2>1. /\ pc = "connecting" /\ pc' = "publish" /\ ctx.connected
        /\ s_session_subscribed' = held /\ cyc'.subscribe = ~held /\ cyc'.ok = cyc.ok
        /\ ctx'.received = 0 /\ ctx'.subscribed = ctx.subscribed
        /\ UNCHANGED <<linked, down>>
    BY <1>2, <1>c DEF Connected, Context, Cycle
  <2>2. \A i \in 1..Len(up) : up[i].k = "ACK"
    BY <2>1 DEF ConnectInv, Has
  <2>3. ~cyc.ok /\ ~Has(down, "SUBACK") /\ ~ctx.subscribed
    BY <2>1 DEF ConnectInv, ReceivedInv
  <2>4. ASSUME linked PROVE ~Has(down, "PUBACK")
    <3>1. Owed = 0
      BY <2>1, <2>4 DEF CountInv
    <3>2. CountOf(down, "PUBACK") = 0
      BY <3>1, OwedType DEF Owed
    <3> QED
      BY <1>c, <3>2, CountZero DEF Has
  <2>5. CASE up' = up
    BY <2>1, <2>2, <2>5 DEF SubscribeInv
  <2>6. CASE linked /\ up' = up \o <<Subscribe>> /\ ~held
    <3>1. Subscribe \in UpPacket
      BY UpPackets
    <3>2. \A i \in 1..Len(up') : \/ i \in 1..Len(up) /\ up'[i] = up[i]
                                 \/ i = Len(up) + 1
      BY <1>c, <2>6, <3>1, AppendPoints
    <3>3. \A j \in 1..Len(up) : up'[j] = up[j]
      BY <1>c, <2>6, <3>1, AppendPoints
    <3>4. ASSUME NEW i \in 1..Len(up'), up'[i].k = "SUBSCRIBE"
          PROVE  \A j \in 1..(i - 1) : up'[j].k = "ACK"
      <4>1. i = Len(up) + 1
        BY <2>2, <3>2, <3>4
      <4>2. \A j \in 1..(i - 1) : j \in 1..Len(up)
        BY <1>c, <4>1
      <4> QED
        BY <2>2, <3>3, <4>2
    <3> QED
      BY <2>1, <2>3, <2>4, <2>6, <3>4 DEF SubscribeInv
  <2>7. up' = up \/ (linked /\ up' = up \o <<>>)
        \/ (linked /\ up' = up \o <<Subscribe>> /\ ~held)
    BY <1>2 DEF Connected, SendUp, Subscribe
  <2>8. up \o <<>> = up
    BY <1>c
  <2> QED
    BY <2>5, <2>6, <2>7, <2>8
<1>3. CASE PublishState \/ ReplayBatch \/ EchoSettings
  <2>1. /\ UNCHANGED <<down, s_session_subscribed, cyc>>
        /\ ctx'.subscribed = ctx.subscribed /\ ctx'.received \in {ctx.received, 0}
        /\ pc' = "await" => pc = "publish"
        /\ pc' # "publish"
    BY <1>3, <1>c DEF PublishState, ReplayBatch, EchoSettings, memory, Context
  <2>2. up' = up \/ \E q \in Seq(UpPacket) : up' = up \o q
                      /\ \A i \in 1..Len(q) : q[i].k # "SUBSCRIBE"
    <3>1. ASSUME NEW p \in UpPacket, p.k = "PUBLISH", up' = up \o <<p>>
          PROVE  \E q \in Seq(UpPacket) : up' = up \o q
                      /\ \A i \in 1..Len(q) : q[i].k # "SUBSCRIBE"
      <4>1. <<p>> \in Seq(UpPacket)
        OBVIOUS
      <4>2. \A i \in 1..Len(<<p>>) : <<p>>[i].k # "SUBSCRIBE"
        BY <3>1
      <4> QED
        BY <3>1, <4>1, <4>2, Zenon
    <3>2. CASE PublishState
      <4> DEFINE q == Append(ConfigSeq(cyc.need), StateMsg)
      <4>1. up' = up \/ up' = up \o q
        BY <3>2 DEF PublishState, SendUp
      <4>2. cyc.need \in SUBSET Groups
        BY <1>c DEF Cycle
      <4>3. q \in Seq(UpPacket) /\ \A i \in 1..Len(q) : q[i].k = "PUBLISH"
        BY <4>2, StateSeq
      <4> HIDE DEF q
      <4> QED
        BY <4>1, <4>3
    <3>3. CASE ReplayBatch
      <4>1. up' = up \/ up' = up \o <<BatchMsg(log.tail)>>
        BY <3>3 DEF ReplayBatch, SendUp
      <4>2. BatchMsg(log.tail) \in UpPacket /\ BatchMsg(log.tail).k = "PUBLISH"
        BY <1>c, UpPackets, TopicsDiffer DEF Log
      <4> QED
        BY <3>1, <4>1, <4>2
    <3>4. CASE EchoSettings
      <4>1. up' = up \/ up' = up \o <<EchoMsg>>
        BY <3>4 DEF EchoSettings, SendUp
      <4>2. EchoMsg \in UpPacket /\ EchoMsg.k = "PUBLISH"
        BY UpPackets, TopicsDiffer
      <4> QED
        BY <3>1, <4>1, <4>2
    <3> QED
      BY <1>3, <3>2, <3>3, <3>4
  <2>3. CASE up' = up
    BY <2>1, <2>3 DEF SubscribeInv
  <2>4. CASE \E q \in Seq(UpPacket) : up' = up \o q
                /\ \A i \in 1..Len(q) : q[i].k # "SUBSCRIBE"
    BY <1>p, <2>1, <2>4 DEF SubscribeInv
  <2> QED
    BY <2>2, <2>3, <2>4
<1>4. CASE StateAcked
  <2>1. /\ pc = "await" /\ ctx.allAcked /\ pc' = "replay" /\ up' = up
        /\ cyc'.subscribe = cyc.subscribe
        /\ (s_session_subscribed => s_session_subscribed')
    BY <1>4, <1>c DEF StateAcked, net, Cycle
  <2>2. ~Has(up, "SUBSCRIBE")
    BY <2>1, AckedAfterSubscribe
  <2> QED
    BY <2>1, <2>2 DEF SubscribeInv, Has
<1>5. CASE BatchAcked \/ TimesOut \/ CloseSession
  <2>1. /\ pc' \notin {"publish", "await"} /\ UNCHANGED <<up, ctx, s_session_subscribed>>
        /\ cyc'.ok = cyc.ok /\ cyc'.subscribe = cyc.subscribe
        /\ (down' = down \/ down' = <<>>)
    BY <1>5, <1>c DEF BatchAcked, TimesOut, CloseSession, net, memory, Cycle
  <2> QED
    BY <1>e, <2>1 DEF SubscribeInv
<1>6. CASE OnEvent
  <2>0. /\ down # <<>> /\ down' = Tail(down)
        /\ UNCHANGED <<pc, cyc, s_session_subscribed>>
    BY <1>6, EventStep DEF memory
  <2>1. Head(down).k \in {"PUBACK", "SUBACK"} => ~Has(up, "SUBSCRIBE")
    <3>1. Head(down).k = "PUBACK" => Has(down, "PUBACK")
      BY <1>c, <2>0, TailPoints DEF Has
    <3>2. Head(down).k = "SUBACK" => Has(down, "SUBACK")
      BY <1>c, <2>0, TailPoints DEF Has
    <3> QED
      BY <3>1, <3>2 DEF SubscribeInv, Has
  <2>2. Has(up, "SUBSCRIBE") =>
          ctx'.received = ctx.received /\ ctx'.subscribed = ctx.subscribed
    BY <1>6, <1>c, <2>1, EventStep DEF Context
  <2>3. \A k : Has(down', k) => Has(down, k)
    BY <1>c, <2>0, HasTail
  <2>4. up' = up \/ \E q \in Seq(UpPacket) : up' = up \o q
                      /\ \A i \in 1..Len(q) : q[i].k # "SUBSCRIBE"
    <3>1. up' = up \/ \E v \in Nat : up' = up \o <<Ack(v)>>
      BY <1>6, EventStep, Zenon
    <3>2. ASSUME NEW v \in Nat
          PROVE  <<Ack(v)>> \in Seq(UpPacket)
                 /\ \A i \in 1..Len(<<Ack(v)>>) : <<Ack(v)>>[i].k # "SUBSCRIBE"
      <4>1. Ack(v) \in UpPacket /\ Ack(v).k = "ACK"
        BY UpPackets DEF Ack
      <4> QED
        BY <4>1
    <3> QED
      BY <3>1, <3>2, Zenon
  <2>5. CASE up' = up
    BY <2>0, <2>2, <2>3, <2>5 DEF SubscribeInv, Has
  <2>6. CASE \E q \in Seq(UpPacket) : up' = up \o q
                /\ \A i \in 1..Len(q) : q[i].k # "SUBSCRIBE"
    <3>1. ASSUME NEW i \in 1..Len(up'), up'[i].k = "SUBSCRIBE"
          PROVE  /\ i \in 1..Len(up) /\ up[i].k = "SUBSCRIBE"
                 /\ \A j \in 1..(i - 1) : up'[j] = up[j]
      BY <1>p, <2>6, <3>1
    <3>2. ASSUME NEW i \in 1..Len(up'), up'[i].k = "SUBSCRIBE"
          PROVE  Has(up, "SUBSCRIBE")
      BY <3>1, <3>2 DEF Has
    <3>3. ASSUME NEW i \in 1..Len(up'), up'[i].k = "SUBSCRIBE"
          PROVE  /\ \A j \in 1..(i - 1) : up'[j].k = "ACK"
                 /\ ~Has(down, "PUBACK") /\ ~Has(down, "SUBACK")
                 /\ ctx.received = 0 /\ ~ctx.subscribed /\ ~cyc.ok
                 /\ ~s_session_subscribed
      BY <3>1, <3>3 DEF SubscribeInv
    <3> QED
      BY <2>0, <2>2, <2>3, <3>2, <3>3 DEF SubscribeInv
  <2> QED
    BY <2>4, <2>5, <2>6
<1>7. CASE BrokerReads
  <2>0. /\ up # <<>> /\ up' = Tail(up)
        /\ UNCHANGED <<ctx, pc, cyc, s_session_subscribed>>
    BY <1>7, ReadStep DEF memory
  <2>1. ASSUME NEW i \in 1..Len(up'), up'[i].k = "SUBSCRIBE"
        PROVE  /\ i + 1 \in 1..Len(up) /\ up[i + 1].k = "SUBSCRIBE"
               /\ \A j \in 1..(i - 1) : up'[j].k = "ACK"
               /\ Head(up).k = "ACK"
    <3>1. i + 1 \in 1..Len(up) /\ up[i + 1].k = "SUBSCRIBE"
      BY <1>c, <2>0, <2>1, TailPoints
    <3>2. \A j \in 1..((i + 1) - 1) : up[j].k = "ACK"
      BY <3>1 DEF SubscribeInv
    <3>3. Len(up') \in Nat /\ i \in Nat /\ 1 \in 1..((i + 1) - 1)
      BY <1>c, <2>0
    <3>4. \A j \in 1..(i - 1) : j \in 1..Len(up') /\ j + 1 \in 1..((i + 1) - 1)
      BY <3>3
    <3>5. \A j \in 1..Len(up') : up'[j] = up[j + 1]
      BY <1>c, <2>0, TailPoints
    <3>6. up[1] = Head(up)
      BY <1>c, <2>0, TailPoints
    <3>7. Head(up).k = "ACK"
      BY <3>2, <3>3, <3>6
    <3>8. ASSUME NEW j \in 1..(i - 1) PROVE up'[j].k = "ACK"
      <4>1. j \in 1..Len(up') /\ j + 1 \in 1..((i + 1) - 1)
        BY <3>4
      <4> QED
        BY <3>2, <3>5, <4>1
    <3> QED
      BY <3>1, <3>7, <3>8
  <2>2. Head(up).k = "ACK" => down' = down
    BY <1>7, ReadStep DEF BrokerAck
  <2> QED
    BY <2>0, <2>1, <2>2 DEF SubscribeInv
<1>8. CASE RetainedChanges
  <2>0. UNCHANGED <<up, ctx, pc, cyc, s_session_subscribed>>
        /\ (down' = down \/ down' = Append(down, DataMsg(retained + 1)))
    BY <1>8 DEF RetainedChanges, memory
  <2>1. ASSUME NEW k, k # "DATA" PROVE Has(down', k) => Has(down, k)
    <3>1. DataMsg(retained + 1) \in DownPacket /\ DataMsg(retained + 1).k = "DATA"
      BY DownPackets DEF DataMsg, Typed
    <3>2. Append(down, DataMsg(retained + 1)) = down \o <<DataMsg(retained + 1)>>
      BY <1>c, <3>1
    <3>3. Has(down \o <<DataMsg(retained + 1)>>, k) => Has(down, k)
      BY <1>c, <2>1, <3>1, HasAppend
    <3> QED
      BY <2>0, <3>2, <3>3, Zenon
  <2>2. (Has(down', "PUBACK") => Has(down, "PUBACK"))
        /\ (Has(down', "SUBACK") => Has(down, "SUBACK"))
    BY <2>1
  <2> QED
    BY <2>0, <2>2 DEF SubscribeInv
<1>9. CASE ConnectionDrops \/ SessionForgotten
  <2>1. /\ up' \in {up, <<>>} /\ (down' = <<>> \/ down' = down)
        /\ UNCHANGED <<ctx, pc, cyc, s_session_subscribed>>
    BY <1>9 DEF ConnectionDrops, SessionForgotten, memory
  <2>2. \A i \in 1..Len(<<>>) : FALSE
    OBVIOUS
  <2> QED
    BY <1>e, <2>1, <2>2 DEF SubscribeInv
<1>10. CASE DeviceBoots
  <2>1. /\ up' = up /\ down' = <<>> /\ pc' = "sleep" /\ cyc'.ok = FALSE
        /\ ctx'.subscribed = FALSE /\ ctx'.received = 0 /\ s_session_subscribed' = FALSE
    BY <1>10 DEF DeviceBoots, NewCycle, NewCtx
  <2> QED
    BY <1>e, <2>1 DEF SubscribeInv
<1>11. CASE UNCHANGED mqttVars
  BY <1>11 DEF mqttVars, net, memory, SubscribeInv
<1> QED
  BY <1>1, <1>2, <1>3, <1>4, <1>5, <1>6, <1>7, <1>8, <1>9, <1>10, <1>11
     DEF MqttNext, CycleStep

(* The changes come down in their order, none older than the oldest one    *)
(* the broker still holds, and an acknowledgement on its way up is never   *)
(* for a later change than one on its way down.                            *)
Ordered(s) ==
  \A i, j \in 1..Len(s) :
    i <= j /\ s[i].k = "DATA" /\ s[j].k = "DATA" => s[i].v <= s[j].v
DownFrom(n) == {p \in DownPacket : p.k = "DATA" => p.v >= n}

OrderInv ==
  /\ Ordered(down)
  /\ \A j \in 1..Len(down) : down[j].k = "DATA" => up \in Seq(UpTo(down[j].v))
  /\ down \in Seq(DownFrom(session.next - 1))
  /\ Has(down, "DATA") => session.subscribed

LEMMA NothingOrdered ==
  /\ Ordered(<<>>) /\ \A n : <<>> \in Seq(DownFrom(n))
  /\ \A j \in 1..Len(<<>>) : FALSE
  BY DEF Ordered

LEMMA OrderedConcat ==
  ASSUME NEW S, NEW s \in Seq(S), NEW t \in Seq(S), Ordered(s), Ordered(t),
         \A i \in 1..Len(s), j \in 1..Len(t) :
           s[i].k = "DATA" /\ t[j].k = "DATA" => s[i].v <= t[j].v
  PROVE  Ordered(s \o t)
<1> DEFINE u == s \o t
<1> SUFFICES ASSUME NEW i \in 1..Len(u), NEW j \in 1..Len(u), i <= j,
                    u[i].k = "DATA", u[j].k = "DATA"
             PROVE  u[i].v <= u[j].v
  BY DEF Ordered
<1>1. Len(s) \in Nat /\ Len(t) \in Nat /\ Len(u) = Len(s) + Len(t)
  BY ConcatPoints
<1>2. \A n \in 1..Len(u) : \/ n \in 1..Len(s) /\ u[n] = s[n]
                           \/ n - Len(s) \in 1..Len(t) /\ n > Len(s) /\ u[n] = t[n - Len(s)]
  BY ConcatPoints
<1> HIDE DEF u
<1>3. CASE i \in 1..Len(s) /\ u[i] = s[i] /\ j \in 1..Len(s) /\ u[j] = s[j]
  BY <1>3 DEF Ordered
<1>4. CASE i \in 1..Len(s) /\ u[i] = s[i]
           /\ j - Len(s) \in 1..Len(t) /\ u[j] = t[j - Len(s)]
  BY <1>4
<1>5. CASE /\ i - Len(s) \in 1..Len(t) /\ u[i] = t[i - Len(s)]
           /\ j - Len(s) \in 1..Len(t) /\ u[j] = t[j - Len(s)]
  <2>1. i - Len(s) <= j - Len(s)
    BY <1>1
  <2> QED
    BY <1>5, <2>1 DEF Ordered
<1>6. ~(i > Len(s) /\ j \in 1..Len(s))
  BY <1>1
<1> QED
  BY <1>2, <1>3, <1>4, <1>5, <1>6

LEMMA OrderedTail ==
  ASSUME NEW S, NEW s \in Seq(S), s # <<>>, Ordered(s)
  PROVE  /\ Ordered(Tail(s))
         /\ Head(s).k = "DATA" =>
              \A j \in 1..Len(Tail(s)) : Tail(s)[j].k = "DATA" => Head(s).v <= Tail(s)[j].v
<1>1. /\ Len(s) \in Nat \ {0} /\ s[1] = Head(s) /\ Len(Tail(s)) = Len(s) - 1
      /\ \A i \in 1..Len(Tail(s)) : i + 1 \in 1..Len(s) /\ Tail(s)[i] = s[i + 1]
  BY TailPoints
<1>2. \A i, j \in 1..Len(Tail(s)) : i <= j => i + 1 <= j + 1
  BY <1>1
<1>3. 1 \in 1..Len(s) /\ \A j \in 1..Len(Tail(s)) : 1 <= j + 1
  BY <1>1
<1>4. Ordered(Tail(s))
  BY <1>1, <1>2 DEF Ordered
<1> QED
  BY <1>1, <1>3, <1>4 DEF Ordered

(* What the broker adds to `down`, in its order.                           *)
LEMMA QueueOrdered ==
  ASSUME Typed, Ranges
  PROVE  LET q == <<Connack(session.present)>> \o Queue
         IN  /\ q \in Seq(DownPacket) /\ Len(q) = Len(Queue) + 1
             /\ q[1].k = "CONNACK" /\ Ordered(q) /\ q \in Seq(DownFrom(session.next - 1))
             /\ \A i \in 1..Len(q) : i # 1 => q[i] = DataMsg(session.next + i - 2)
             /\ Has(q, "DATA") => session.subscribed
<1> DEFINE t == <<Connack(session.present)>>
           q == t \o Queue
           n == Len(Queue)
<1>1. /\ n \in Nat /\ Queue \in Seq(DownPacket) /\ (n > 0 => session.subscribed)
      /\ \A i \in 1..n : Queue[i] = DataMsg(session.next + i - 1)
      /\ session.next \in Nat
  BY QueueIs DEF Typed, Session
<1>2. Connack(session.present) \in DownPacket
  BY DownPackets, Zenon DEF Typed, Session
<1>3. t \in Seq(DownPacket) /\ Len(t) = 1 /\ t[1].k = "CONNACK"
  BY <1>2 DEF Connack
<1> HIDE DEF t, n
<1>4. q \in Seq(DownPacket) /\ Len(q) = n + 1 /\ q[1].k = "CONNACK"
      /\ \A i \in 1..Len(q) : i # 1 => i - 1 \in 1..n /\ q[i] = Queue[i - 1]
  <2>0. /\ q \in Seq(DownPacket) /\ Len(q) = Len(t) + Len(Queue)
        /\ \A i \in 1..Len(q) :
             \/ i \in 1..Len(t) /\ q[i] = t[i]
             \/ /\ i - Len(t) \in 1..Len(Queue) /\ i > Len(t)
                /\ q[i] = Queue[i - Len(t)]
    <3>1. t \in Seq(DownPacket) /\ Queue \in Seq(DownPacket)
      BY <1>1, <1>3
    <3> QED
      BY <3>1, ConcatPoints, Zenon
  <2>1. q \in Seq(DownPacket) /\ Len(q) = 1 + n
    BY <1>1, <1>3, <2>0 DEF n
  <2>2. 1 \in 1..Len(t)
    BY <1>3
  <2>3. q[1] = t[1]
    BY <1>1, <1>3, <2>2, ConcatPoints
  <2>4. \A i \in 1..Len(q) : i # 1 => i - 1 \in 1..n /\ q[i] = Queue[i - 1]
    <3> HIDE DEF q
    <3> QED
      BY <1>3, <2>0 DEF n
  <2> QED
    BY <1>1, <1>3, <2>1, <2>3, <2>4
<1> HIDE DEF q
<1>5. ASSUME NEW i \in 1..Len(q), i # 1
      PROVE  /\ q[i] = DataMsg(session.next + i - 2)
             /\ q[i].v = session.next + i - 2 /\ q[i].k = "DATA"
  <2>1. i - 1 \in 1..n /\ q[i] = Queue[i - 1] /\ i \in Int
    BY <1>1, <1>4, <1>5
  <2>2. session.next + (i - 1) - 1 = session.next + i - 2
    BY <1>1, <2>1
  <2>3. Queue[i - 1] = DataMsg(session.next + (i - 1) - 1)
    BY <1>1, <2>1
  <2>4. q[i] = DataMsg(session.next + i - 2)
    BY <2>1, <2>2, <2>3
  <2> QED
    BY <2>4 DEF DataMsg
<1>6. Ordered(q)
  <2> SUFFICES ASSUME NEW i \in 1..Len(q), NEW j \in 1..Len(q), i <= j,
                      q[i].k = "DATA", q[j].k = "DATA"
               PROVE  q[i].v <= q[j].v
    BY DEF Ordered
  <2>1. i # 1 /\ j # 1
    BY <1>4
  <2>2. q[i].v = session.next + i - 2 /\ q[j].v = session.next + j - 2
    BY <1>5, <2>1
  <2>3. i \in Int /\ j \in Int
    OBVIOUS
  <2> QED
    BY <1>1, <2>2, <2>3
<1>7. q \in Seq(DownFrom(session.next - 1))
  <2>1. \A i \in 1..Len(q) : q[i] \in DownPacket
    BY <1>4
  <2>2. ASSUME NEW i \in 1..Len(q), q[i].k = "DATA" PROVE q[i].v >= session.next - 1
    <3>1. i # 1
      BY <1>4, <2>2
    <3>2. q[i].v = session.next + i - 2 /\ i \in Int /\ i >= 1
      BY <1>5, <3>1
    <3> QED
      BY <1>1, <3>2
  <2>3. \A i \in 1..Len(q) : q[i] \in DownFrom(session.next - 1)
    BY <2>1, <2>2 DEF DownFrom
  <2> QED
    BY <1>4, <2>3
<1>8. Has(q, "DATA") => session.subscribed
  <2> SUFFICES ASSUME NEW i \in 1..Len(q), q[i].k = "DATA" PROVE session.subscribed
    BY DEF Has
  <2>1. i # 1
    BY <1>4
  <2>2. n > 0
    BY <1>1, <1>4, <2>1
  <2> QED
    BY <1>1, <2>2
<1> QED
  BY <1>4, <1>5, <1>6, <1>7, <1>8 DEF q, t, n

(* The answer to a SUBSCRIBE: the SUBACK, then the retained value.         *)
LEMMA SubscribeAnswer ==
  ASSUME Typed, Ranges
  PROVE  LET q == <<Suback(TRUE)>>
                  \o (IF retained = 0 THEN <<>> ELSE <<DataMsg(retained)>>)
         IN  /\ q \in Seq(DownPacket) /\ q[1] = Suback(TRUE)
             /\ Len(q) = IF retained = 0 THEN 1 ELSE 2
             /\ retained # 0 => q[2] = DataMsg(retained)
             /\ Ordered(q)
             /\ \A i \in 1..Len(q) : q[i].k = "DATA" => q[i].v = retained /\ i = 2
             /\ ~Has(q, "PUBACK")
<1>1. retained \in Nat
  BY DEF Typed
<1>2. Suback(TRUE) \in DownPacket /\ DataMsg(retained) \in DownPacket
  BY <1>1, DownPackets
<1>3. Suback(TRUE).k = "SUBACK" /\ DataMsg(retained).k = "DATA" /\ DataMsg(retained).v = retained
  BY DEF Suback, DataMsg
<1>4. CASE retained = 0
  <2>1. <<Suback(TRUE)>> \o <<>> = <<Suback(TRUE)>>
    BY <1>2
  <2>2. <<Suback(TRUE)>> \in Seq(DownPacket) /\ Len(<<Suback(TRUE)>>) = 1
        /\ <<Suback(TRUE)>>[1] = Suback(TRUE)
    BY <1>2, OnePoint
  <2> DEFINE q == <<Suback(TRUE)>>
  <2>3. q \in Seq(DownPacket) /\ Len(q) = 1 /\ q[1] = Suback(TRUE)
    BY <2>2
  <2> HIDE DEF q
  <2>4. \A i \in 1..Len(q) : q[i].k = "SUBACK"
    <3>1. \A i \in 1..Len(q) : i = 1
      <4>1. Len(q) = 1
        BY <2>3
      <4> QED
        BY <4>1
    <3>2. q[1].k = "SUBACK"
      BY <1>3, <2>3, Zenon
    <3> QED
      BY <3>1, <3>2
  <2>5. Ordered(q) /\ ~Has(q, "PUBACK")
    BY <2>4 DEF Ordered, Has
  <2> QED
    BY <1>4, <2>1, <2>3, <2>4, <2>5 DEF q
<1>5. CASE retained # 0
  <2> DEFINE s == <<Suback(TRUE)>>
             t == <<DataMsg(retained)>>
             q == s \o t
  <2>a. s \in Seq(DownPacket) /\ Len(s) = 1 /\ s[1] = Suback(TRUE)
    BY <1>2, OnePoint
  <2>b. t \in Seq(DownPacket) /\ Len(t) = 1 /\ t[1] = DataMsg(retained)
    BY <1>2, OnePoint
  <2> HIDE DEF s, t
  <2>c. q \in Seq(DownPacket) /\ Len(q) = 2 /\ q[1] = s[1] /\ q[2] = t[1]
    <3>1. s \in Seq(DownPacket) /\ Len(s) = 1
      BY <2>a
    <3>2. t \in Seq(DownPacket) /\ Len(t) = 1
      BY <2>b
    <3> QED
      BY <3>1, <3>2, TwoPoints
  <2> HIDE DEF q
  <2>1. q \in Seq(DownPacket) /\ Len(q) = 2 /\ q[1] = Suback(TRUE) /\ q[2] = DataMsg(retained)
    BY <2>a, <2>b, <2>c
  <2>2. \A i \in 1..Len(q) : i = 1 \/ i = 2
    BY <2>1
  <2>3. \A i \in 1..Len(q) : q[i].k = "DATA" => q[i].v = retained /\ i = 2
    BY <1>3, <2>1, <2>2
  <2>4. Ordered(q)
    BY <1>1, <2>3 DEF Ordered
  <2>5. ~Has(q, "PUBACK")
    BY <1>3, <2>1, <2>2 DEF Has
  <2> QED
    BY <1>5, <2>1, <2>3, <2>4, <2>5 DEF q, s, t
<1> QED
  BY <1>4, <1>5

(* A packet that is no change keeps the order.                             *)
LEMMA OrderedAppend ==
  ASSUME NEW s \in Seq(DownPacket), Ordered(s), NEW p \in DownPacket,
         p.k = "DATA" => \A i \in 1..Len(s) : s[i].k = "DATA" => s[i].v <= p.v,
         p.k = "DATA" => p.v \in Nat
  PROVE  Ordered(s \o <<p>>)
<1> DEFINE t == <<p>>
<1>1. t \in Seq(DownPacket) /\ Len(t) = 1 /\ t[1] = p /\ \A i \in 1..Len(t) : i = 1
  BY OnePoint
<1> HIDE DEF t
<1>2. \A i \in 1..Len(t) : t[i] = p
  BY <1>1
<1>3. Ordered(t)
  BY <1>2 DEF Ordered
<1>4. \A i \in 1..Len(s), j \in 1..Len(t) :
        s[i].k = "DATA" /\ t[j].k = "DATA" => s[i].v <= t[j].v
  BY <1>2
<1>5. Ordered(s \o t)
  BY <1>1, <1>3, <1>4, OrderedConcat
<1> QED
  BY <1>5 DEF t

LEMMA OrderStep ==
  Typed /\ Ranges /\ CountInv /\ ConnectInv /\ OrderInv /\ [MqttNext]_mqttVars => OrderInv'
<1> SUFFICES ASSUME Typed, Ranges, CountInv, ConnectInv, OrderInv, [MqttNext]_mqttVars
             PROVE  OrderInv'
  OBVIOUS
<1>c. up \in Seq(UpPacket) /\ down \in Seq(DownPacket) /\ retained \in Nat
      /\ session.next \in Nat /\ down \in Seq(DownTo(retained)) /\ up \in Seq(UpTo(retained))
      /\ session.next <= retained + 1 /\ session.next >= 1
  BY DEF Typed, Ranges, Session
<1>o. /\ Ordered(down)
      /\ \A j \in 1..Len(down) : down[j].k = "DATA" => up \in Seq(UpTo(down[j].v))
      /\ down \in Seq(DownFrom(session.next - 1))
      /\ Has(down, "DATA") => session.subscribed
  BY DEF OrderInv
<1>v. \A j \in 1..Len(down) :
        down[j].k = "DATA" => down[j].v \in 1..retained /\ down[j].v >= session.next - 1
  BY <1>c, <1>o DEF DownTo, DownFrom
<1>e. ASSUME down' = <<>> PROVE OrderInv'
  <2>1. Ordered(<<>>) /\ (\A n : <<>> \in Seq(DownFrom(n))) /\ \A j \in 1..Len(<<>>) : FALSE
    BY NothingOrdered
  <2>2. ~Has(<<>>, "DATA")
    BY HasEmpty
  <2> QED
    BY <1>e, <2>1, <2>2 DEF OrderInv
<1>s. \A m, n : UpTo(m) \subseteq UpPacket /\ DownFrom(m) \subseteq DownPacket
  BY DEF UpTo, DownFrom
<1>1. CASE UNCHANGED Streams
  BY <1>1 DEF Streams, OrderInv
<1>2. CASE StreamsSend
  <2>1. PICK q \in Seq(UpPacket) :
          up' = up \o q /\ \A i \in 1..Len(q) : q[i].k \in {"SUBSCRIBE", "PUBLISH"}
    BY <1>2 DEF StreamsSend
  <2>2. ASSUME NEW n, up \in Seq(UpTo(n)) PROVE up' \in Seq(UpTo(n))
    <3>1. \A i \in 1..Len(q) : q[i] \in UpTo(n)
      <4>1. ASSUME NEW i \in 1..Len(q) PROVE q[i] \in UpTo(n)
        <5>1. q[i] \in UpPacket
          OBVIOUS
        <5>2. q[i].k # "ACK"
          BY <2>1
        <5> QED
          BY <5>1, <5>2, Zenon DEF UpTo
      <4> QED
        BY <4>1
    <3>q. q \in Seq(UpPacket)
      OBVIOUS
    <3>2. q \in Seq(UpTo(n))
      BY <3>1, <3>q
    <3>3. up \o q \in Seq(UpTo(n))
      BY <2>2, <3>2
    <3> QED
      BY <2>1, <3>3
  <2>3. UNCHANGED <<session, down>>
    BY <1>2 DEF StreamsSend
  <2> QED
    BY <1>o, <2>2, <2>3 DEF OrderInv
<1>3. CASE StreamsCut \/ StartClient \/ SessionForgotten
  <2>1. down' = <<>>
    BY <1>3 DEF StreamsCut, StartClient, SessionForgotten, CountInv
  <2> QED
    BY <1>e, <2>1
<1>4. CASE OnEvent
  <2>0. down # <<>> /\ down' = Tail(down) /\ session' = session
    BY <1>4, EventStep DEF broker
  <2>1. Ordered(down')
    BY <1>c, <1>o, <2>0, OrderedTail
  <2>2. down' \in Seq(DownFrom(session.next - 1))
    BY <1>o, <2>0
  <2>3. Has(down', "DATA") => session.subscribed
    BY <1>c, <1>o, <2>0, HasTail
  <2>4. ASSUME NEW j \in 1..Len(down'), down'[j].k = "DATA"
        PROVE  up' \in Seq(UpTo(down'[j].v))
    <3>1. j + 1 \in 1..Len(down) /\ down'[j] = down[j + 1]
      BY <1>c, <2>0, TailPoints
    <3>2. up \in Seq(UpTo(down'[j].v)) /\ down'[j].v \in 1..retained
      BY <1>o, <1>v, <2>4, <3>1
    <3>3. CASE up' = up
      BY <3>2, <3>3
    <3>4. CASE Head(down).k = "DATA" /\ Head(down).v \in Nat
               /\ up' = up \o <<Ack(Head(down).v)>>
      <4>1. Head(down).v <= down'[j].v
        BY <1>c, <1>o, <2>0, <2>4, <3>4, OrderedTail
      <4>2. 1 \in 1..Len(down) /\ down[1] = Head(down)
        BY <1>c, <2>0, TailPoints
      <4>3. Head(down).v \in 1..retained
        BY <1>v, <3>4, <4>2
      <4>4. Ack(Head(down).v) \in UpPacket /\ Ack(Head(down).v).v = Head(down).v
        BY <3>4, UpPackets DEF Ack
      <4>5. Ack(Head(down).v) \in UpTo(down'[j].v)
        BY <3>2, <4>1, <4>3, <4>4 DEF UpTo
      <4>6. up \o <<Ack(Head(down).v)>> \in Seq(UpTo(down'[j].v))
        BY <3>2, <4>5, AppendPoints
      <4> QED
        BY <3>4, <4>6
    <3>5. \/ up' = up
          \/ Head(down).k = "DATA" /\ Head(down).v \in Nat /\ up' = up \o <<Ack(Head(down).v)>>
      BY <1>4, EventStep, Zenon
    <3> QED
      BY <3>3, <3>4, <3>5
  <2> QED
    BY <2>0, <2>1, <2>2, <2>3, <2>4 DEF OrderInv
<1>5. CASE BrokerReads
  <2>0. up # <<>> /\ up' = Tail(up) /\ UNCHANGED <<retained, linked>>
    BY <1>5, ReadStep
  <2>1. \A n : up \in Seq(UpTo(n)) => up' \in Seq(UpTo(n))
    BY <2>0
  <2>2. CASE Head(up).k = "CONNECT" /\ BrokerConnect
    <3>1. Has(up, "CONNECT")
      BY <1>c, <2>0, <2>2, TailPoints DEF Has
    <3>2. up = <<Connect>> /\ down = <<>>
      BY <3>1 DEF ConnectInv
    <3>3. Tail(<<Connect>>) = <<>>
      OBVIOUS
    <3>4. up' = <<>>
      BY <2>0, <3>2, <3>3
    <3> DEFINE q == <<Connack(session.present)>> \o Queue
    <3>5. down' = down \/ down' = down \o q
      BY <2>2 DEF BrokerConnect, Answer, Connack
    <3>6. q \in Seq(DownPacket) /\ Ordered(q) /\ q \in Seq(DownFrom(session.next - 1))
          /\ (Has(q, "DATA") => session.subscribed)
      BY QueueOrdered
    <3>7. session'.next = session.next /\ session'.subscribed = session.subscribed
      BY <2>2 DEF BrokerConnect, Typed, Session
    <3> HIDE DEF q
    <3>8. <<>> \o q = q
      BY <3>6
    <3>9. down' = <<>> \/ down' = q
      BY <3>2, <3>5, <3>8
    <3>10. CASE down' = q
      <4>1. \A n : <<>> \in Seq(UpTo(n))
        OBVIOUS
      <4> QED
        BY <3>4, <3>6, <3>7, <3>10, <4>1 DEF OrderInv
    <3> QED
      BY <1>e, <3>9, <3>10
  <2>3. CASE Head(up).k = "SUBSCRIBE" /\ BrokerSubscribe
    <3>1. CASE ~linked
      <4>1. down = <<>> /\ down' = down
        BY <2>3, <3>1 DEF BrokerSubscribe, Answer, CountInv
      <4> QED
        BY <1>e, <4>1
    <3>2. CASE linked /\ session' = session /\ down' = down \o <<Suback(FALSE)>>
      <4> DEFINE p == Suback(FALSE)
      <4>1. p \in DownPacket /\ p.k = "SUBACK"
        BY DownPackets DEF Suback
      <4>0. down' = down \o <<p>>
        BY <3>2
      <4> HIDE DEF p
      <4>2. p \in DownFrom(session.next - 1)
        BY <4>1 DEF DownFrom
      <4>3. Ordered(down')
        BY <1>c, <1>o, <4>0, <4>1, OrderedAppend
      <4>4. down' \in Seq(DownFrom(session.next - 1))
        BY <1>o, <4>0, <4>2, AppendPoints
      <4>5. Has(down', "DATA") => session.subscribed
        BY <1>c, <1>o, <4>0, <4>1, HasAppend
      <4>6. \A j \in 1..Len(down') : down'[j].k = "DATA" =>
              j \in 1..Len(down) /\ down'[j] = down[j]
        BY <1>c, <4>0, <4>1, AppendPoints
      <4> QED
        BY <1>o, <2>1, <3>2, <4>3, <4>4, <4>5, <4>6 DEF OrderInv
    <3>3. CASE /\ linked /\ session'.subscribed
               /\ session'.next = IF retained = 0 \/ Queue # <<>> THEN session.next
                                  ELSE retained
               /\ down' = down \o (<<Suback(TRUE)>>
                    \o (IF retained = 0 THEN <<>> ELSE <<DataMsg(retained)>>))
      <4> DEFINE q == <<Suback(TRUE)>>
                      \o (IF retained = 0 THEN <<>> ELSE <<DataMsg(retained)>>)
      <4>1. /\ q \in Seq(DownPacket) /\ Ordered(q)
            /\ \A i \in 1..Len(q) : q[i].k = "DATA" => q[i].v = retained /\ i = 2
        BY SubscribeAnswer
      <4>2. down' = down \o q
        BY <3>3
      <4> HIDE DEF q
      <4>3. Ordered(down')
        <5>1. \A i \in 1..Len(down), j \in 1..Len(q) :
                down[i].k = "DATA" /\ q[j].k = "DATA" => down[i].v <= q[j].v
          BY <1>c, <1>v, <4>1
        <5> QED
          BY <1>c, <1>o, <4>1, <4>2, <5>1, OrderedConcat
      <4>4. ASSUME NEW j \in 1..Len(down'), down'[j].k = "DATA"
            PROVE  \/ j \in 1..Len(down) /\ down'[j] = down[j]
                   \/ down'[j].v = retained
        BY <1>c, <4>1, <4>2, <4>4, ConcatPoints
      <4>5. session'.next - 1 <= retained
        BY <1>c, <3>3
      <4>6. ASSUME NEW j \in 1..Len(down), down[j].k = "DATA"
            PROVE  down[j].v >= session'.next - 1
        <5>1. session.subscribed
          BY <1>o, <4>6 DEF Has
        <5>2. session'.next <= session.next
          <6>1. CASE Queue = <<>> /\ retained # 0
            <7>1. Len(Queue) = 0
              BY <6>1
            <7>2. retained + 1 - session.next = 0
              BY <5>1, <7>1, QueueIs
            <7> QED
              BY <1>c, <3>3, <6>1, <7>2
          <6>2. CASE ~(Queue = <<>> /\ retained # 0)
            BY <1>c, <3>3, <6>2
          <6> QED
            BY <6>1, <6>2
        <5>3. session'.next \in Int
          BY <1>c, <3>3
        <5> QED
          BY <1>c, <1>v, <4>6, <5>2, <5>3
      <4>7. down' \in Seq(DownPacket)
        BY <1>c, <4>1, <4>2, ConcatPoints
      <4>8. down' \in Seq(DownFrom(session'.next - 1))
        <5>1. ASSUME NEW j \in 1..Len(down'), down'[j].k = "DATA"
              PROVE  down'[j].v >= session'.next - 1
          <6>1. session'.next \in Int
            BY <1>c, <3>3
          <6> QED
            BY <1>c, <4>4, <4>5, <4>6, <5>1, <6>1
        <5>2. \A j \in 1..Len(down') : down'[j] \in DownPacket
          BY <4>7
        <5>3. \A j \in 1..Len(down') : down'[j] \in DownFrom(session'.next - 1)
          BY <5>1, <5>2 DEF DownFrom
        <5> QED
          BY <4>7, <5>3
      <4>9. ASSUME NEW j \in 1..Len(down'), down'[j].k = "DATA"
            PROVE  up' \in Seq(UpTo(down'[j].v))
        BY <1>c, <1>o, <2>1, <4>4, <4>9
      <4> QED
        BY <3>3, <4>3, <4>8, <4>9 DEF OrderInv
    <3>4. \/ ~linked
          \/ linked /\ session' = session /\ down' = down \o <<Suback(FALSE)>>
          \/ /\ linked /\ session'.subscribed
             /\ session'.next = IF retained = 0 \/ Queue # <<>> THEN session.next
                                ELSE retained
             /\ down' = down \o (<<Suback(TRUE)>>
                    \o (IF retained = 0 THEN <<>> ELSE <<DataMsg(retained)>>))
      BY <2>3 DEF BrokerSubscribe, Answer, Suback, Typed, Session
    <3> QED
      BY <3>1, <3>2, <3>3, <3>4
  <2>4. CASE Head(up).k = "PUBLISH" /\ BrokerPublish(Head(up))
    <3>0. session' = session /\ (down' = down \/ down' = down \o <<Puback>>)
      BY <2>4 DEF BrokerPublish, Answer, Puback
    <3>1. Puback \in DownPacket /\ Puback.k = "PUBACK"
      BY DownPackets DEF Puback
    <3>2. Puback \in DownFrom(session.next - 1)
      BY <3>1 DEF DownFrom
    <3>3. Ordered(down')
      BY <1>c, <1>o, <3>0, <3>1, OrderedAppend
    <3>4. down' \in Seq(DownFrom(session.next - 1))
      BY <1>o, <3>0, <3>2, AppendPoints
    <3>5. Has(down', "DATA") => session.subscribed
      BY <1>c, <1>o, <3>0, <3>1, HasAppend
    <3>6. \A j \in 1..Len(down') : down'[j].k = "DATA" =>
            j \in 1..Len(down) /\ down'[j] = down[j]
      BY <1>c, <3>0, <3>1, AppendPoints
    <3> QED
      BY <1>o, <2>1, <3>0, <3>3, <3>4, <3>5, <3>6 DEF OrderInv
  <2>5. CASE Head(up).k = "ACK" /\ BrokerAck(Head(up).v)
    <3>0. /\ down' = down /\ session'.subscribed = session.subscribed
          /\ session'.next = IF Head(up).v = session.next THEN session.next + 1
                             ELSE session.next
      BY <2>5 DEF BrokerAck, Typed, Session
    <3>1. ASSUME NEW j \in 1..Len(down), down[j].k = "DATA"
          PROVE  down[j].v >= session'.next - 1
      <4>1. Head(up) \in UpTo(down[j].v)
        BY <1>o, <2>0, <3>1
      <4>2. Head(up).v \in 1..down[j].v
        BY <2>5, <4>1 DEF UpTo
      <4>3. down[j].v \in Nat
        BY <1>c, <1>v, <3>1
      <4> QED
        BY <1>c, <1>v, <3>0, <3>1, <4>2, <4>3
    <3>2. \A j \in 1..Len(down) : down[j] \in DownFrom(session'.next - 1)
      BY <1>c, <3>1 DEF DownFrom
    <3>3. down \in Seq(DownFrom(session'.next - 1))
      BY <1>c, <3>2
    <3> QED
      BY <1>o, <2>1, <3>0, <3>3 DEF OrderInv
  <2> QED
    BY <1>5, <2>2, <2>3, <2>4, <2>5, ReadStep
<1>6. CASE RetainedChanges
  <2>0. UNCHANGED <<session, up>>
        /\ (down' = down \/ (session.subscribed /\ down' = Append(down, DataMsg(retained + 1))))
    BY <1>6 DEF RetainedChanges
  <2>1. CASE down' = down
    BY <2>0, <2>1 DEF OrderInv
  <2>2. CASE session.subscribed /\ down' = Append(down, DataMsg(retained + 1))
    <3> DEFINE p == DataMsg(retained + 1)
    <3>1. p \in DownPacket /\ p.k = "DATA" /\ p.v = retained + 1
      BY <1>c, DownPackets DEF DataMsg
    <3> HIDE DEF p
    <3>2. Append(down, p) = down \o <<p>>
      BY <1>c, <3>1
    <3>3. down' = down \o <<p>>
      BY <2>2, <3>2 DEF p
    <3>4. p \in DownFrom(session.next - 1)
      BY <1>c, <3>1 DEF DownFrom
    <3>5. Ordered(down')
      <4>1. down \in Seq(DownPacket) /\ Ordered(down) /\ p \in DownPacket
        BY <1>c, <1>o, <3>1
      <4>2. \A i \in 1..Len(down) : down[i].k = "DATA" => down[i].v <= p.v
        BY <1>c, <1>v, <3>1
      <4>3. p.v \in Nat
        BY <1>c, <3>1
      <4>4. Ordered(down \o <<p>>)
        BY <4>1, <4>2, <4>3, OrderedAppend, Zenon
      <4> QED
        BY <3>3, <4>4, Zenon
    <3>6. down' \in Seq(DownFrom(session.next - 1))
      BY <1>o, <3>3, <3>4, AppendPoints
    <3>7. ASSUME NEW j \in 1..Len(down'), down'[j].k = "DATA"
          PROVE  up \in Seq(UpTo(down'[j].v))
      <4>1. \/ j \in 1..Len(down) /\ down'[j] = down[j]
            \/ down'[j] = p
        BY <1>c, <3>1, <3>3, AppendPoints
      <4>2. CASE j \in 1..Len(down) /\ down'[j] = down[j]
        BY <1>o, <3>7, <4>2
      <4>3. CASE down'[j] = p
        <5>1. UpTo(retained) \subseteq UpTo(retained + 1)
          BY <1>c DEF UpTo
        <5>2. up \in Seq(UpTo(retained + 1))
          BY <1>c, <5>1, SeqMonotone
        <5> QED
          BY <3>1, <4>3, <5>2
      <4> QED
        BY <4>1, <4>2, <4>3
    <3> QED
      BY <2>0, <2>2, <3>5, <3>6, <3>7 DEF OrderInv
  <2> QED
    BY <2>0, <2>1, <2>2
<1> QED
  BY <1>1, <1>2, <1>3, <1>4, <1>5, <1>6, StreamSteps

(* What the device can rely on.  It is sure of a value when the broker     *)
(* holds nothing it has not seen, not even after the acknowledgements on   *)
(* their way; it holds a subscription that the session has too, and it     *)
(* hopes for the queued changes of one it holds or was just granted.       *)
Sure == seen >= session.next - 1 /\ up \in Seq(UpTo(seen))
Held == s_session_subscribed /\ session.subscribed
Granted(s) == \E i \in 1..Len(s) : s[i].k = "SUBACK" /\ s[i].ok
Hopes == Held \/ ctx.subscribed \/ Granted(down)

(* The first n packets of a stream bring a change as new as `a`, or bring  *)
(* none that is older.                                                     *)
Brings(s, n, a) == \E i \in 1..n : s[i].k = "DATA" /\ s[i].v >= a
Fresh(s, n, a) == \A i \in 1..n : s[i].k = "DATA" => s[i].v >= a

(* Once the first n packets are handled the device is up to date.          *)
Reach(n) ==
  \/ Brings(down, n, atConnect)
  \/ seen >= atConnect /\ Sure /\ Fresh(down, n, atConnect)

(* It is when all are handled, and before every acknowledgement of one of  *)
(* its own messages.                                                       *)
AllReach ==
  \A n \in 0..Len(down) : n = Len(down) \/ down[n + 1].k = "PUBACK" => Reach(n)
ReachInv == linked /\ ~Has(up, "CONNECT") /\ Hopes => AllReach

BeliefInv == Held => Sure
AfterInv ==
  \A i, j \in 1..Len(down) :
    i < j /\ down[i].k = "PUBACK" /\ down[j].k = "DATA" => down[j].v >= atConnect
Acked == (pc = "await" /\ ctx.allAcked) \/ (pc # "sleep" /\ cyc.ok)
KnowInv ==
  Acked /\ Hopes =>
    /\ seen >= atConnect /\ (session.subscribed => Sure)
    /\ Fresh(down, Len(down), atConnect)

LEMMA GrantedTail ==
  ASSUME NEW S, NEW s \in Seq(S), s # <<>>
  PROVE  /\ Granted(Tail(s)) => Granted(s)
         /\ Head(s).k = "SUBACK" /\ Head(s).ok => Granted(s)
<1>1. Len(s) \in Nat \ {0} /\ s[1] = Head(s)
      /\ \A i \in 1..Len(Tail(s)) : i + 1 \in 1..Len(s) /\ Tail(s)[i] = s[i + 1]
  BY TailPoints
<1>2. 1 \in 1..Len(s)
  BY <1>1
<1> QED
  BY <1>1, <1>2 DEF Granted

LEMMA GrantedConcat ==
  ASSUME NEW S, NEW s \in Seq(S), NEW t \in Seq(S),
         \A i \in 1..Len(t) : t[i].k # "SUBACK" \/ t[i].ok = FALSE
  PROVE  Granted(s \o t) => Granted(s)
<1> DEFINE u == s \o t
<1>1. \A i \in 1..Len(u) : \/ i \in 1..Len(s) /\ u[i] = s[i]
                           \/ i - Len(s) \in 1..Len(t) /\ u[i] = t[i - Len(s)]
  BY ConcatPoints
<1> HIDE DEF u
<1>2. Granted(u) => Granted(s)
  BY <1>1 DEF Granted
<1> QED
  BY <1>2 DEF u

LEMMA GrantedEmpty == ~Granted(<<>>)
  BY DEF Granted

(* Nothing but the answer to a SUBSCRIBE gives the device new hopes.       *)
LEMMA HopesStep ==
  ASSUME Typed, Ranges, [MqttNext]_mqttVars, Hopes',
         ~(BrokerReads /\ Head(up).k = "SUBSCRIBE")
  PROVE  Hopes
<1>c. /\ down \in Seq(DownPacket) /\ ctx \in Context /\ session \in Session
      /\ retained \in Nat
  BY DEF Typed
<1>1. CASE StartClient \/ CloseSession \/ ConnectionDrops \/ SessionForgotten \/ DeviceBoots
  <2>1. /\ down' = <<>> \/ down' = down
        /\ (s_session_subscribed' => s_session_subscribed)
        /\ (session'.subscribed => session.subscribed)
        /\ (ctx'.subscribed => ctx.subscribed)
    <3>1. CASE StartClient
      BY <1>c, <3>1 DEF StartClient, memory, Context
    <3>2. CASE CloseSession \/ ConnectionDrops
      BY <3>2 DEF CloseSession, ConnectionDrops, memory, broker
    <3>3. CASE SessionForgotten
      BY <3>3 DEF SessionForgotten, NoSession, memory
    <3>4. CASE DeviceBoots
      BY <3>4 DEF DeviceBoots, NewCtx
    <3> QED
      BY <1>1, <3>1, <3>2, <3>3, <3>4
  <2> QED
    BY <2>1, GrantedEmpty DEF Hopes, Held
<1>2. CASE Connected
  <2>1. /\ down' = down /\ session' = session /\ ctx'.subscribed = ctx.subscribed
        /\ (s_session_subscribed' => s_session_subscribed)
    BY <1>2, <1>c DEF Connected, broker, Context
  <2> QED
    BY <2>1 DEF Hopes, Held
<1>3. CASE StateAcked
  <2>1. /\ down' = down /\ session' = session /\ ctx' = ctx
        /\ (s_session_subscribed' => s_session_subscribed \/ ctx.subscribed)
    BY <1>3 DEF StateAcked, broker, net
  <2> QED
    BY <2>1 DEF Hopes, Held
<1>4. CASE PublishState \/ ReplayBatch \/ BatchAcked \/ EchoSettings \/ TimesOut
           \/ UNCHANGED mqttVars
  <2>1. /\ down' = down /\ session' = session /\ ctx'.subscribed = ctx.subscribed
        /\ s_session_subscribed' = s_session_subscribed
    BY <1>4, <1>c DEF PublishState, ReplayBatch, BatchAcked, EchoSettings, TimesOut,
         mqttVars, broker, net, memory, Context
  <2> QED
    BY <2>1 DEF Hopes, Held
<1>5. CASE OnEvent
  <2>1. /\ down # <<>> /\ down' = Tail(down) /\ session' = session
        /\ s_session_subscribed' = s_session_subscribed
    BY <1>5, EventStep DEF broker, memory
  <2>2. ctx'.subscribed => ctx.subscribed \/ (Head(down).k = "SUBACK" /\ Head(down).ok)
    BY <1>5, <1>c, EventStep DEF Context
  <2> QED
    BY <1>c, <2>1, <2>2, GrantedTail DEF Hopes, Held
<1>6. CASE BrokerReads
  <2>0. UNCHANGED <<ctx, s_session_subscribed>>
    BY <1>6, ReadStep DEF memory
  <2>1. ASSUME NEW q \in Seq(DownPacket), down' = down \/ down' = down \o q,
               \A i \in 1..Len(q) : q[i].k # "SUBACK",
               session'.subscribed = session.subscribed
        PROVE  Hopes
    <3>1. Granted(down') => Granted(down)
      BY <1>c, <2>1, GrantedConcat
    <3> QED
      BY <2>0, <2>1, <3>1 DEF Hopes, Held
  <2>2. CASE Head(up).k = "CONNECT" /\ BrokerConnect
    <3> DEFINE q == <<Connack(session.present)>> \o Queue
    <3>1. down' = down \/ down' = down \o q
      BY <2>2 DEF BrokerConnect, Answer, Connack
    <3>2. q \in Seq(DownPacket) /\ q[1].k = "CONNACK"
          /\ \A i \in 1..Len(q) : i # 1 => q[i] = DataMsg(session.next + i - 2)
      BY QueueOrdered
    <3>3. session'.subscribed = session.subscribed
      BY <1>c, <2>2 DEF BrokerConnect, Session
    <3> HIDE DEF q
    <3>4. \A v : DataMsg(v).k = "DATA"
      BY DEF DataMsg
    <3>5. \A i \in 1..Len(q) : q[i].k # "SUBACK"
      BY <3>2, <3>4
    <3> QED
      BY <2>1, <3>1, <3>2, <3>3, <3>5
  <2>3. CASE Head(up).k = "PUBLISH" /\ BrokerPublish(Head(up))
    <3> DEFINE q == <<Puback>>
    <3>1. session' = session /\ (down' = down \/ down' = down \o q)
      BY <2>3 DEF BrokerPublish, Answer, Puback
    <3>2. Puback \in DownPacket /\ Puback.k = "PUBACK"
      BY DownPackets DEF Puback
    <3>3. q \in Seq(DownPacket) /\ q[1] = Puback /\ \A i \in 1..Len(q) : i = 1
      BY <3>2, OnePoint
    <3> HIDE DEF q
    <3>4. \A i \in 1..Len(q) : q[i].k # "SUBACK"
      BY <3>2, <3>3
    <3> QED
      BY <2>1, <3>1, <3>3, <3>4
  <2>4. CASE Head(up).k = "ACK" /\ BrokerAck(Head(up).v)
    <3>1. down' = down /\ session'.subscribed = session.subscribed
      BY <1>c, <2>4 DEF BrokerAck, Session
    <3> QED
      BY <2>0, <3>1 DEF Hopes, Held
  <2> QED
    BY <1>6, <2>2, <2>3, <2>4, ReadStep
<1>7. CASE RetainedChanges
  <2> DEFINE p == DataMsg(retained + 1)
             q == <<p>>
  <2>0. /\ UNCHANGED <<ctx, s_session_subscribed, session>>
        /\ (down' = down \/ down' = Append(down, p))
    BY <1>7 DEF RetainedChanges, memory
  <2>1. p \in DownPacket /\ p.k = "DATA"
    BY <1>c, DownPackets DEF DataMsg
  <2> HIDE DEF p
  <2>2. Append(down, p) = down \o q
    BY <1>c, <2>1
  <2>3. q \in Seq(DownPacket) /\ q[1] = p /\ \A i \in 1..Len(q) : i = 1
    BY <2>1, OnePoint
  <2> HIDE DEF q
  <2>4. \A i \in 1..Len(q) : q[i].k # "SUBACK"
    BY <2>1, <2>3
  <2>5. Granted(down') => Granted(down)
    BY <1>c, <2>0, <2>2, <2>3, <2>4, GrantedConcat
  <2> QED
    BY <2>0, <2>5 DEF Hopes, Held
<1> QED
  BY <1>1, <1>2, <1>3, <1>4, <1>5, <1>6, <1>7 DEF MqttNext, CycleStep

(* Only a change that arrives, and a restart, move `seen`.                 *)
LEMMA SeenStep ==
  ASSUME Typed, [MqttNext]_mqttVars, ~DeviceBoots, ~OnEvent
  PROVE  seen' = seen
<1>1. CASE StartClient \/ Connected \/ PublishState \/ StateAcked \/ ReplayBatch
           \/ BatchAcked \/ EchoSettings \/ TimesOut \/ CloseSession
  BY <1>1 DEF StartClient, Connected, PublishState, StateAcked, ReplayBatch, BatchAcked,
       EchoSettings, TimesOut, CloseSession, history
<1>2. CASE BrokerReads
  BY <1>2, ReadStep
<1>3. CASE RetainedChanges \/ ConnectionDrops \/ SessionForgotten \/ UNCHANGED mqttVars
  BY <1>3 DEF RetainedChanges, ConnectionDrops, SessionForgotten, mqttVars, history
<1> QED
  BY <1>1, <1>2, <1>3 DEF MqttNext, CycleStep

(* A change that arrives makes the device sure.                            *)
LEMMA SureArrives ==
  ASSUME Typed, Ranges, OrderInv, OnEvent, Head(down).k = "DATA"
  PROVE  Sure' /\ seen' = Head(down).v
<1>c. /\ up \in Seq(UpPacket) /\ down \in Seq(DownPacket)
      /\ session.next \in Nat /\ retained \in Nat
  BY DEF Typed, Session
<1>1. down # <<>> /\ session' = session
  BY EventStep DEF broker
<1>2. Head(down).v \in Nat /\ seen' = Head(down).v /\ up' = up \o <<Ack(Head(down).v)>>
  BY EventStep
<1>3. 1 \in 1..Len(down) /\ down[1] = Head(down)
  BY <1>c, <1>1, TailPoints
<1>4. up \in Seq(UpTo(Head(down).v)) /\ Head(down) \in DownFrom(session.next - 1)
      /\ Head(down) \in DownTo(retained)
  <2>1. down \in Seq(DownFrom(session.next - 1)) /\ down \in Seq(DownTo(retained))
    BY DEF OrderInv, Ranges
  <2>2. up \in Seq(UpTo(Head(down).v))
    BY <1>3 DEF OrderInv
  <2> QED
    BY <1>3, <2>1, <2>2
<1>5. Head(down).v >= session.next - 1 /\ Head(down).v \in 1..retained
  BY <1>4 DEF DownFrom, DownTo
<1> DEFINE v == Head(down).v
           p == Ack(v)
<1>6. p \in UpPacket /\ p.v = v
  BY <1>2, UpPackets DEF Ack
<1> HIDE DEF p
<1>7. v \in 1..v
  BY <1>c, <1>5
<1> HIDE DEF v
<1>8. p \in UpTo(v)
  BY <1>6, <1>7 DEF UpTo
<1>9. up \o <<p>> \in Seq(UpTo(v))
  BY <1>4, <1>8, AppendPoints DEF v
<1> QED
  BY <1>1, <1>2, <1>5, <1>9 DEF Sure, v, p

(* It stays sure until it restarts or a subscription is granted.           *)
LEMMA SureStep ==
  ASSUME Typed, Ranges, OrderInv, Sure, [MqttNext]_mqttVars, ~DeviceBoots,
         ~(BrokerReads /\ Head(up).k = "SUBSCRIBE")
  PROVE  Sure'
<1>c. /\ up \in Seq(UpPacket) /\ session \in Session
      /\ session.next \in Nat /\ seen \in Nat /\ session.next >= 1
  BY DEF Typed, Session, Ranges
<1>s. seen >= session.next - 1 /\ up \in Seq(UpTo(seen))
  BY DEF Sure
<1>e. \A n : <<>> \in Seq(UpTo(n))
  OBVIOUS
<1>1. CASE OnEvent
  <2>1. CASE Head(down).k = "DATA"
    BY <1>1, <2>1, SureArrives
  <2>2. CASE Head(down).k # "DATA"
    <3>1. UNCHANGED <<up, seen, session>>
      BY <1>1, <2>2, EventStep DEF broker
    <3> QED
      BY <3>1 DEF Sure
  <2> QED
    BY <2>1, <2>2
<1>2. CASE ~OnEvent
  <2>0. seen' = seen
    BY <1>2, SeenStep
  <2>1. CASE UNCHANGED Streams
    BY <2>1 DEF Streams, Sure
  <2>2. CASE StreamsSend
    <3>1. PICK q \in Seq(UpPacket) :
            up' = up \o q /\ \A i \in 1..Len(q) : q[i].k \in {"SUBSCRIBE", "PUBLISH"}
      BY <2>2 DEF StreamsSend
    <3>2. \A i \in 1..Len(q) : q[i] \in UpTo(seen)
      BY <3>1 DEF UpTo
    <3>3. q \in Seq(UpTo(seen))
      BY <3>2
    <3>4. up \o q \in Seq(UpTo(seen))
      BY <1>s, <3>3
    <3>5. session' = session
      BY <2>2 DEF StreamsSend
    <3> QED
      BY <1>s, <2>0, <3>1, <3>4, <3>5 DEF Sure
  <2>3. CASE StreamsCut \/ RetainedChanges
    <3>1. session' = session /\ (up' = up \/ up' = <<>>)
      BY <2>3 DEF StreamsCut, RetainedChanges
    <3> QED
      BY <1>e, <1>s, <2>0, <3>1 DEF Sure
  <2>4. CASE StartClient
    <3>1. session' = session /\ up' = <<Connect>>
      BY <2>4 DEF StartClient, Connect
    <3>2. Connect \in UpTo(seen)
      BY UpPackets DEF UpTo, Connect
    <3>3. <<Connect>> \in Seq(UpTo(seen))
      BY <3>2, OnePoint
    <3> QED
      BY <1>s, <2>0, <3>1, <3>3 DEF Sure
  <2>5. CASE SessionForgotten
    <3>1. session'.next = 1 /\ up' = <<>>
      BY <2>5 DEF SessionForgotten, NoSession
    <3> QED
      BY <1>c, <1>e, <2>0, <3>1 DEF Sure
  <2>6. CASE BrokerReads
    <3>0. up # <<>> /\ up' = Tail(up)
      BY <2>6, ReadStep
    <3>1. up' \in Seq(UpTo(seen)) /\ Head(up) \in UpTo(seen)
      BY <1>s, <3>0
    <3>2. CASE Head(up).k = "CONNECT" /\ BrokerConnect
      <4>1. session'.next = session.next
        BY <1>c, <3>2 DEF BrokerConnect, Session
      <4> QED
        BY <1>s, <2>0, <3>1, <4>1 DEF Sure
    <3>3. CASE Head(up).k = "PUBLISH" /\ BrokerPublish(Head(up))
      <4>1. session' = session
        BY <3>3 DEF BrokerPublish
      <4> QED
        BY <1>s, <2>0, <3>1, <4>1 DEF Sure
    <3>4. CASE Head(up).k = "ACK" /\ BrokerAck(Head(up).v)
      <4>1. session'.next = IF Head(up).v = session.next THEN session.next + 1
                            ELSE session.next
        BY <1>c, <3>4 DEF BrokerAck, Session
      <4>2. Head(up).v \in 1..seen
        BY <3>1, <3>4 DEF UpTo
      <4> QED
        BY <1>c, <1>s, <2>0, <3>1, <4>1, <4>2 DEF Sure
    <3> QED
      BY <2>6, <3>2, <3>3, <3>4, ReadStep
  <2> QED
    BY <1>2, <2>1, <2>2, <2>3, <2>4, <2>5, <2>6, StreamSteps
<1> QED
  BY <1>1, <1>2

(* The device comes to hold a subscription when its cycle ends well.       *)
LEMMA HeldStep ==
  ASSUME Typed, [MqttNext]_mqttVars, Held', ~Held,
         ~(BrokerReads /\ Head(up).k = "SUBSCRIBE")
  PROVE  StateAcked
<1>c. session \in Session
  BY DEF Typed
<1>1. CASE StartClient \/ PublishState \/ ReplayBatch \/ BatchAcked
           \/ EchoSettings \/ TimesOut \/ CloseSession
  BY <1>1 DEF StartClient, PublishState, ReplayBatch, BatchAcked, EchoSettings,
       TimesOut, CloseSession, broker, memory, Held
<1>5. CASE Connected
  <2>1. session' = session /\ (s_session_subscribed' => s_session_subscribed)
    BY <1>5 DEF Connected, broker
  <2> QED
    BY <2>1 DEF Held
<1>2. CASE OnEvent
  BY <1>2, EventStep DEF broker, memory, Held
<1>3. CASE BrokerReads
  <2>1. s_session_subscribed' = s_session_subscribed
    BY <1>3, ReadStep DEF memory
  <2>2. CASE BrokerConnect
    BY <1>c, <2>1, <2>2 DEF BrokerConnect, Session, Held
  <2>3. CASE BrokerPublish(Head(up))
    BY <2>1, <2>3 DEF BrokerPublish, Held
  <2>4. CASE BrokerAck(Head(up).v)
    BY <1>c, <2>1, <2>4 DEF BrokerAck, Session, Held
  <2> QED
    BY <1>3, <2>2, <2>3, <2>4, ReadStep
<1>4. CASE RetainedChanges \/ ConnectionDrops \/ UNCHANGED mqttVars
  BY <1>4 DEF RetainedChanges, ConnectionDrops, mqttVars, broker, memory, Held
<1>6. CASE SessionForgotten \/ DeviceBoots
  <2>1. session'.subscribed = FALSE \/ s_session_subscribed' = FALSE
    BY <1>6 DEF SessionForgotten, DeviceBoots, NoSession
  <2> QED
    BY <2>1 DEF Held
<1> QED
  BY <1>1, <1>2, <1>3, <1>4, <1>5, <1>6 DEF MqttNext, CycleStep

LEMMA BeliefStep ==
  Typed /\ Ranges /\ SubscribeInv /\ OrderInv /\ BeliefInv /\ KnowInv
    /\ [MqttNext]_mqttVars => BeliefInv'
<1> SUFFICES ASSUME Typed, Ranges, SubscribeInv, OrderInv, BeliefInv, KnowInv,
                    [MqttNext]_mqttVars, Held'
             PROVE  Sure'
  BY DEF BeliefInv
<1>1. ~DeviceBoots
  BY DEF DeviceBoots, Held
<1>2. ~(BrokerReads /\ Head(up).k = "SUBSCRIBE")
  <2> SUFFICES ASSUME BrokerReads, Head(up).k = "SUBSCRIBE" PROVE FALSE
    OBVIOUS
  <2>1. up # <<>> /\ s_session_subscribed' = s_session_subscribed
    BY ReadStep DEF memory
  <2>2. up \in Seq(UpPacket)
    BY DEF Typed
  <2>3. 1 \in 1..Len(up) /\ up[1] = Head(up)
    BY <2>1, <2>2, TailPoints
  <2> QED
    BY <2>1, <2>3 DEF SubscribeInv, Held
<1>3. CASE Held
  BY <1>1, <1>2, <1>3, SureStep DEF BeliefInv
<1>4. CASE ~Held
  <2>1. StateAcked
    BY <1>2, <1>4, HeldStep
  <2>2. UNCHANGED <<session, seen, up>> /\ session.subscribed /\ ctx.subscribed /\ Acked
    BY <1>4, <2>1 DEF StateAcked, Held, broker, net, history, Acked
  <2>3. Sure
    BY <2>2 DEF KnowInv, Hopes
  <2> QED
    BY <2>2, <2>3 DEF Sure
<1> QED
  BY <1>3, <1>4

LEMMA FreshConcat ==
  ASSUME NEW S, NEW s \in Seq(S), NEW t \in Seq(S), NEW a,
         Fresh(s, Len(s), a), Fresh(t, Len(t), a)
  PROVE  Fresh(s \o t, Len(s \o t), a)
<1> DEFINE u == s \o t
<1>1. \A i \in 1..Len(u) : \/ i \in 1..Len(s) /\ u[i] = s[i]
                           \/ i - Len(s) \in 1..Len(t) /\ u[i] = t[i - Len(s)]
  BY ConcatPoints
<1> HIDE DEF u
<1>2. Fresh(u, Len(u), a)
  BY <1>1 DEF Fresh
<1> QED
  BY <1>2 DEF u

LEMMA FreshOne ==
  ASSUME NEW p \in DownPacket, NEW a, p.k = "DATA" => p.v >= a
  PROVE  <<p>> \in Seq(DownPacket) /\ Fresh(<<p>>, Len(<<p>>), a)
<1> DEFINE q == <<p>>
<1>1. q \in Seq(DownPacket) /\ q[1] = p /\ \A i \in 1..Len(q) : i = 1
  BY OnePoint
<1> HIDE DEF q
<1>2. Fresh(q, Len(q), a)
  BY <1>1 DEF Fresh
<1> QED
  BY <1>1, <1>2 DEF q

LEMMA FreshEmpty == \A a : <<>> \in Seq(DownPacket) /\ Fresh(<<>>, Len(<<>>), a)
  BY DEF Fresh

(* After its CONNECT is read, a connection only ever brings changes that   *)
(* are as new as what the broker had then, but for the queued ones.        *)
LEMMA DownStep ==
  ASSUME Typed, Ranges, CountInv, [MqttNext]_mqttVars, ~OnEvent,
         ~(BrokerReads /\ Head(up).k = "CONNECT")
  PROVE  /\ atConnect' = atConnect
         /\ \/ down' = <<>> /\ (~linked' \/ StartClient)
            \/ \E q \in Seq(DownPacket) : down' = down \o q /\ Fresh(q, Len(q), atConnect)
<1>c. down \in Seq(DownPacket) /\ retained \in Nat /\ atConnect \in Nat /\ atConnect <= retained
  BY DEF Typed, Ranges
<1>u. down' = down => \E q \in Seq(DownPacket) : down' = down \o q /\ Fresh(q, Len(q), atConnect)
  <2>1. down = down \o <<>>
    BY <1>c
  <2> QED
    BY <2>1, FreshEmpty, Zenon
<1>o. ASSUME NEW p \in DownPacket, p.k = "DATA" => p.v >= atConnect, down' = down \o <<p>>
      PROVE  \E q \in Seq(DownPacket) : down' = down \o q /\ Fresh(q, Len(q), atConnect)
  <2>1. <<p>> \in Seq(DownPacket) /\ Fresh(<<p>>, Len(<<p>>), atConnect)
    BY <1>o, FreshOne
  <2> QED
    BY <1>o, <2>1, Zenon
<1>1. CASE UNCHANGED Streams \/ StreamsSend \/ StreamsCut \/ StartClient \/ SessionForgotten
  <2>1. atConnect' = atConnect
        /\ (down' = down \/ (down' = <<>> /\ (~linked' \/ StartClient)))
    BY <1>1 DEF Streams, StreamsSend, StreamsCut, StartClient, SessionForgotten, history
  <2> QED
    BY <1>u, <2>1
<1>2. CASE RetainedChanges
  <2> DEFINE p == DataMsg(retained + 1)
  <2>0. atConnect' = atConnect /\ (down' = down \/ down' = Append(down, p))
    BY <1>2 DEF RetainedChanges, history
  <2>1. p \in DownPacket /\ p.k = "DATA" /\ p.v = retained + 1
    BY <1>c, DownPackets DEF DataMsg
  <2> HIDE DEF p
  <2>2. Append(down, p) = down \o <<p>>
    BY <1>c, <2>1
  <2>3. p.v >= atConnect
    BY <1>c, <2>1
  <2> QED
    BY <1>o, <1>u, <2>0, <2>1, <2>2, <2>3
<1>3. CASE BrokerReads
  <2>1. CASE Head(up).k = "SUBSCRIBE" /\ BrokerSubscribe
    <3> DEFINE p == Suback(FALSE)
               q == <<Suback(TRUE)>>
                      \o (IF retained = 0 THEN <<>> ELSE <<DataMsg(retained)>>)
    <3>1. atConnect' = atConnect /\ (down' = down \/ down' = down \o <<p>> \/ down' = down \o q)
      BY <2>1 DEF BrokerSubscribe, Answer, Suback
    <3>2. /\ q \in Seq(DownPacket)
          /\ \A i \in 1..Len(q) : q[i].k = "DATA" => q[i].v = retained /\ i = 2
      BY SubscribeAnswer
    <3>3. p \in DownPacket /\ p.k = "SUBACK"
      BY DownPackets DEF Suback
    <3> HIDE DEF p, q
    <3>4. Fresh(q, Len(q), atConnect)
      BY <1>c, <3>2 DEF Fresh
    <3> QED
      BY <1>o, <1>u, <3>1, <3>2, <3>3, <3>4
  <2>2. CASE Head(up).k = "PUBLISH" /\ BrokerPublish(Head(up))
    <3>1. atConnect' = atConnect /\ (down' = down \/ down' = down \o <<Puback>>)
      BY <2>2 DEF BrokerPublish, Answer, Puback
    <3>2. Puback \in DownPacket /\ Puback.k = "PUBACK"
      BY DownPackets DEF Puback
    <3> QED
      BY <1>o, <1>u, <3>1, <3>2
  <2>3. CASE Head(up).k = "ACK" /\ BrokerAck(Head(up).v)
    BY <1>u, <2>3 DEF BrokerAck
  <2> QED
    BY <1>3, <2>1, <2>2, <2>3, ReadStep
<1> QED
  BY <1>1, <1>2, <1>3, StreamSteps

(* A CONNECT is read before anything else of its connection.               *)
LEMMA ConnectRead ==
  ASSUME Typed, Ranges, ConnectInv, BrokerReads, Head(up).k = "CONNECT"
  PROVE  /\ ~Acked /\ ~ctx.subscribed /\ down = <<>> /\ up' = <<>> /\ atConnect' = retained
         /\ (linked => down' = <<Connack(session.present)>> \o Queue)
         /\ (~linked => down' = <<>>)
         /\ session'.next = session.next /\ session'.subscribed = session.subscribed
<1>c. up \in Seq(UpPacket) /\ session \in Session
  BY DEF Typed
<1>1. up # <<>> /\ up' = Tail(up) /\ BrokerConnect
  BY ReadStep
<1>2. Has(up, "CONNECT")
  BY <1>c, <1>1, TailPoints DEF Has
<1>3. /\ up = <<Connect>> /\ down = <<>> /\ ~ctx.subscribed
      /\ pc \in {"connecting", "close", "sleep"} /\ ~cyc.ok
  BY <1>2 DEF ConnectInv
<1>4. up' = <<>>
  <2>1. Tail(<<Connect>>) = <<>>
    OBVIOUS
  <2> QED
    BY <1>1, <1>3, <2>1
<1>5. session'.next = session.next /\ session'.subscribed = session.subscribed
  BY <1>c, <1>1 DEF BrokerConnect, Session
<1> DEFINE q == <<Connack(session.present)>> \o Queue
<1>6. atConnect' = retained /\ down' = (IF linked THEN down \o q ELSE down)
  BY <1>1 DEF BrokerConnect, Answer, Connack
<1>7. q \in Seq(DownPacket)
  BY Answers
<1> HIDE DEF q
<1>8. <<>> \o q = q
  BY <1>7
<1>9. (linked => down' = q) /\ (~linked => down' = <<>>)
  BY <1>3, <1>6, <1>8
<1> QED
  BY <1>3, <1>4, <1>5, <1>6, <1>9 DEF Acked, q

LEMMA AfterStep ==
  Typed /\ Ranges /\ CountInv /\ ConnectInv /\ AfterInv /\ [MqttNext]_mqttVars => AfterInv'
<1> SUFFICES ASSUME Typed, Ranges, CountInv, ConnectInv, AfterInv, [MqttNext]_mqttVars
             PROVE  AfterInv'
  OBVIOUS
<1>c. down \in Seq(DownPacket)
  BY DEF Typed
<1>e. down' = <<>> => AfterInv'
  <2>1. \A i \in 1..Len(<<>>) : FALSE
    OBVIOUS
  <2> QED
    BY <2>1 DEF AfterInv
<1>1. CASE OnEvent
  <2>1. down # <<>> /\ down' = Tail(down) /\ atConnect' = atConnect
    BY <1>1, EventStep
  <2>2. Len(down') \in Nat
        /\ \A i \in 1..Len(down') : i + 1 \in 1..Len(down) /\ down'[i] = down[i + 1]
    BY <1>c, <2>1, TailPoints
  <2>3. \A i, j \in 1..Len(down') : i < j => i + 1 < j + 1
    BY <2>2
  <2> QED
    BY <2>1, <2>2, <2>3 DEF AfterInv
<1>2. CASE BrokerReads /\ Head(up).k = "CONNECT"
  <2>1. CASE linked
    <3> DEFINE q == <<Connack(session.present)>> \o Queue
    <3>1. q[1].k = "CONNACK" /\ \A i \in 1..Len(q) : i # 1 => q[i] = DataMsg(session.next + i - 2)
      BY QueueOrdered
    <3>2. down' = q
      BY <1>2, <2>1, ConnectRead
    <3> HIDE DEF q
    <3>3. \A v : DataMsg(v).k = "DATA"
      BY DEF DataMsg
    <3>4. \A i \in 1..Len(q) : q[i].k # "PUBACK"
      BY <3>1, <3>3
    <3> QED
      BY <3>2, <3>4 DEF AfterInv
  <2> QED
    BY <1>2, <1>e, <2>1, ConnectRead
<1>3. CASE ~OnEvent /\ ~(BrokerReads /\ Head(up).k = "CONNECT")
  <2>0. atConnect' = atConnect
    BY <1>3, DownStep
  <2>1. ASSUME NEW q \in Seq(DownPacket), down' = down \o q, Fresh(q, Len(q), atConnect)
        PROVE  AfterInv'
    <3> SUFFICES ASSUME NEW i \in 1..Len(down'), NEW j \in 1..Len(down'), i < j,
                        down'[i].k = "PUBACK", down'[j].k = "DATA"
                 PROVE  down'[j].v >= atConnect'
      BY DEF AfterInv
    <3>1. Len(down) \in Nat
          /\ \A n \in 1..Len(down') : \/ n \in 1..Len(down) /\ down'[n] = down[n]
                                      \/ n - Len(down) \in 1..Len(q) /\ n > Len(down)
                                         /\ down'[n] = q[n - Len(down)]
      BY <1>c, <2>1, ConcatPoints
    <3>2. CASE j \in 1..Len(down) /\ down'[j] = down[j]
      <4>1. i \in 1..Len(down)
        BY <3>1, <3>2
      <4>2. down'[i] = down[i]
        BY <3>1, <4>1
      <4> QED
        BY <2>0, <3>2, <4>1, <4>2 DEF AfterInv
    <3>3. CASE j - Len(down) \in 1..Len(q) /\ down'[j] = q[j - Len(down)]
      BY <2>0, <2>1, <3>3 DEF Fresh
    <3> QED
      BY <3>1, <3>2, <3>3
  <2> QED
    BY <1>3, <1>e, <2>1, DownStep
<1> QED
  BY <1>1, <1>2, <1>3

(* What follows on the stream keeps the device up to date.                 *)
LEMMA ReachGrow ==
  ASSUME Typed, AllReach, NEW q \in Seq(DownPacket), down' = down \o q,
         Fresh(q, Len(q), atConnect), UNCHANGED <<seen, atConnect>>, Sure => Sure'
  PROVE  AllReach'
<1> SUFFICES ASSUME NEW n \in 0..Len(down'),
                    n = Len(down') \/ down'[n + 1].k = "PUBACK"
             PROVE  Reach(n)'
  BY DEF AllReach
<1>c. down \in Seq(DownPacket)
  BY DEF Typed
<1>1. /\ Len(down) \in Nat /\ Len(q) \in Nat /\ Len(down') = Len(down) + Len(q)
      /\ \A i \in 1..Len(down) : i \in 1..Len(down') /\ down'[i] = down[i]
      /\ \A i \in 1..Len(down') : \/ i \in 1..Len(down) /\ down'[i] = down[i]
                                  \/ i - Len(down) \in 1..Len(q) /\ i > Len(down)
                                     /\ down'[i] = q[i - Len(down)]
  BY <1>c, ConcatPoints
<1>2. \A m \in 0..Len(down) : Brings(down, m, atConnect) /\ n >= m => Brings(down', n, atConnect)
  BY <1>1 DEF Brings
<1>3. CASE n < Len(down)
  <2>1. n \in 0..Len(down) /\ n + 1 \in 1..Len(down)
    BY <1>1, <1>3
  <2>2. down[n + 1].k = "PUBACK"
    BY <1>1, <1>3, <2>1
  <2>3. Reach(n)
    BY <2>1, <2>2 DEF AllReach
  <2>4. Fresh(down, n, atConnect) => Fresh(down', n, atConnect)
    BY <1>1, <2>1 DEF Fresh
  <2>5. n >= n
    BY <1>1
  <2> QED
    BY <1>2, <2>1, <2>3, <2>4, <2>5 DEF Reach
<1>4. CASE n >= Len(down)
  <2>1. Len(down) \in 0..Len(down)
    BY <1>1
  <2>2. Reach(Len(down))
    BY <2>1 DEF AllReach
  <2>3. Fresh(down, Len(down), atConnect) => Fresh(down', n, atConnect)
    <3>1. \A i \in 1..n : i \in 1..Len(down')
      BY <1>1
    <3> QED
      BY <1>1, <3>1 DEF Fresh
  <2> QED
    BY <1>2, <1>4, <2>1, <2>2, <2>3 DEF Reach
<1> QED
  BY <1>1, <1>3, <1>4

(* Handling one packet.                                                    *)
LEMMA ReachEvent ==
  ASSUME Typed, Ranges, OrderInv, AllReach, OnEvent, Sure => Sure'
  PROVE  AllReach'
<1> SUFFICES ASSUME NEW n \in 0..Len(down'),
                    n = Len(down') \/ down'[n + 1].k = "PUBACK"
             PROVE  Reach(n)'
  BY DEF AllReach
<1>c. down \in Seq(DownPacket) /\ atConnect \in Nat
  BY DEF Typed
<1>0. down # <<>> /\ down' = Tail(down) /\ atConnect' = atConnect
  BY EventStep
<1>1. /\ Len(down) \in Nat \ {0} /\ Len(down') = Len(down) - 1 /\ down[1] = Head(down)
      /\ \A i \in 1..Len(down') : i + 1 \in 1..Len(down) /\ down'[i] = down[i + 1]
  BY <1>c, <1>0, TailPoints
<1>2. Reach(n + 1)
  <2>1. n + 1 \in 0..Len(down)
    BY <1>1
  <2>2. n = Len(down') => n + 1 = Len(down)
    BY <1>1
  <2>3. n # Len(down') => n + 1 \in 1..Len(down')
    BY <1>1
  <2>4. n # Len(down') => down'[n + 1] = down[(n + 1) + 1]
    BY <1>1, <2>3
  <2> QED
    BY <2>1, <2>2, <2>4 DEF AllReach
<1>3. 1 \in 1..(n + 1) /\ \A i \in 1..n : i + 1 \in 1..(n + 1) /\ i \in 1..Len(down')
  BY <1>1
<1>4. CASE Head(down).k = "DATA"
  <2>1. Sure' /\ seen' = Head(down).v
    BY <1>4, SureArrives
  <2>2. CASE Head(down).v >= atConnect
    <3>0. Head(down).v \in Nat
      BY <1>4, EventStep
    <3>1. \A j \in 1..Len(down') : down'[j].k = "DATA" => Head(down).v <= down'[j].v
      BY <1>4, <1>0, <1>c, OrderedTail DEF OrderInv
    <3>2. ASSUME NEW j \in 1..Len(down'), down'[j].k = "DATA" PROVE down'[j].v \in Nat
      <4>1. down' \in Seq(DownPacket)
        BY <1>c, <1>0, TailPoints
      <4>2. down'[j] \in DownPacket
        BY <4>1
      <4> QED
        BY <3>2, <4>2 DEF DownPacket
    <3>3. Fresh(down', n, atConnect)
      BY <1>3, <1>c, <2>2, <3>0, <3>1, <3>2 DEF Fresh
    <3> QED
      BY <1>0, <2>1, <2>2, <3>3 DEF Reach
  <2>3. CASE ~(Head(down).v >= atConnect)
    <3>1. ~Fresh(down, n + 1, atConnect)
      BY <1>1, <1>3, <1>4, <2>3 DEF Fresh
    <3>2. PICK i \in 1..(n + 1) : down[i].k = "DATA" /\ down[i].v >= atConnect
      BY <1>2, <3>1 DEF Reach, Brings
    <3>3. i # 1
      BY <1>1, <2>3, <3>2
    <3>4. i - 1 \in 1..n /\ (i - 1) + 1 = i
      BY <1>1, <3>3
    <3>5. down'[i - 1] = down[i]
      BY <1>1, <1>3, <3>4
    <3>6. Brings(down', n, atConnect)
      BY <3>2, <3>4, <3>5 DEF Brings
    <3> QED
      BY <1>0, <3>6 DEF Reach
  <2> QED
    BY <2>2, <2>3
<1>5. CASE Head(down).k # "DATA"
  <2>0. seen' = seen
    BY <1>5, EventStep
  <2>1. Fresh(down, n + 1, atConnect) => Fresh(down', n, atConnect)
    BY <1>1, <1>3 DEF Fresh
  <2>2. ASSUME Brings(down, n + 1, atConnect) PROVE Brings(down', n, atConnect)
    <3>2. PICK i \in 1..(n + 1) : down[i].k = "DATA" /\ down[i].v >= atConnect
      BY <2>2 DEF Brings
    <3>3. i # 1
      BY <1>1, <1>5, <3>2
    <3>4. i - 1 \in 1..n /\ (i - 1) + 1 = i
      BY <1>1, <3>3
    <3>5. down'[i - 1] = down[i]
      BY <1>1, <1>3, <3>4
    <3> QED
      BY <3>2, <3>4, <3>5 DEF Brings
  <2> QED
    BY <1>0, <1>2, <2>0, <2>1, <2>2 DEF Reach
<1> QED
  BY <1>4, <1>5

(* A stream without an acknowledgement of one of the device's messages     *)
(* need only reach its end.                                                *)
LEMMA ReachEnd ==
  ASSUME Typed', ~Has(down', "PUBACK"), Reach(Len(down))'
  PROVE  AllReach'
<1> SUFFICES ASSUME NEW n \in 0..Len(down'), n # Len(down'), down'[n + 1].k = "PUBACK"
             PROVE  FALSE
  BY DEF AllReach
<1>1. Len(down') \in Nat
  BY DEF Typed
<1>2. n + 1 \in 1..Len(down')
  BY <1>1
<1> QED
  BY <1>2 DEF Has

(* A subscription's retained set is the newest value there is.             *)
LEMMA ReachSubscribe ==
  ASSUME Typed, Ranges, Typed', Ranges', SubscribeInv, linked,
         BrokerReads, Head(up).k = "SUBSCRIBE", Granted(down')
  PROVE  AllReach'
<1>c. /\ up \in Seq(UpPacket) /\ down \in Seq(DownPacket) /\ retained \in Nat
      /\ atConnect \in Nat /\ atConnect <= retained /\ seen \in Nat
  BY DEF Typed, Ranges
<1>0. up # <<>> /\ UNCHANGED <<retained, seen>> /\ BrokerSubscribe
  BY ReadStep
<1>1. 1 \in 1..Len(up) /\ up[1].k = "SUBSCRIBE"
  BY <1>0, <1>c, TailPoints
<1>2. ~Has(down, "PUBACK") /\ ~Has(down, "SUBACK")
  BY <1>1 DEF SubscribeInv
<1>3. ~Granted(down)
  BY <1>2 DEF Granted, Has
<1> DEFINE q == <<Suback(TRUE)>>
                \o (IF retained = 0 THEN <<>> ELSE <<DataMsg(retained)>>)
           p == Suback(FALSE)
<1>4. atConnect' = atConnect /\ (down' = down \o q \/ down' = down \o <<p>>)
  BY <1>0 DEF BrokerSubscribe, Answer, Suback
<1>5. p \in DownPacket /\ p.ok = FALSE /\ p.k = "SUBACK"
  BY DownPackets DEF Suback
<1>6. /\ q \in Seq(DownPacket) /\ Len(q) = IF retained = 0 THEN 1 ELSE 2
      /\ retained # 0 => q[2] = DataMsg(retained)
      /\ ~Has(q, "PUBACK")
  BY SubscribeAnswer
<1> HIDE DEF p, q
<1>7. down' = down \o q
  <2> DEFINE t == <<p>>
  <2>1. t \in Seq(DownPacket) /\ t[1] = p /\ \A i \in 1..Len(t) : i = 1
    BY <1>5, OnePoint
  <2> HIDE DEF t
  <2>2. \A i \in 1..Len(t) : t[i].k # "SUBACK" \/ t[i].ok = FALSE
    BY <1>5, <2>1
  <2>3. Granted(down \o t) => Granted(down)
    BY <1>c, <2>1, <2>2, GrantedConcat
  <2> QED
    BY <1>3, <1>4, <2>3 DEF t
<1>8. ~Has(down', "PUBACK")
  BY <1>2, <1>6, <1>7, <1>c, HasConcat
<1>9. Reach(Len(down))'
  <2>1. CASE retained = 0
    <3>1. \A i \in 1..Len(down') : down'[i].k # "DATA"
      <4>1. down' \in Seq(DownTo(0))
        BY <1>0, <2>1 DEF Ranges
      <4> QED
        BY <4>1 DEF DownTo
    <3>2. session'.next \in 1..1
      BY <1>0, <2>1 DEF Ranges
    <3>3. up' \in Seq(UpTo(0))
      BY <1>0, <2>1 DEF Ranges
    <3>4. UpTo(0) \subseteq UpTo(seen)
      BY <1>c DEF UpTo
    <3>5. up' \in Seq(UpTo(seen))
      BY <3>3, <3>4, SeqMonotone
    <3>6. Sure'
      BY <1>0, <1>c, <3>2, <3>5 DEF Sure
    <3>7. Fresh(down', Len(down'), atConnect')
      BY <3>1 DEF Fresh
    <3>8. seen' >= atConnect'
      BY <1>0, <1>4, <1>c, <2>1
    <3> QED
      BY <3>6, <3>7, <3>8 DEF Reach
  <2>2. CASE retained # 0
    <3>1. Len(q) = 2 /\ q[2] = DataMsg(retained)
      BY <1>6, <2>2
    <3>2. Len(down') = Len(down) + 2 /\ Len(down) \in Nat
      <4>1. q \in Seq(DownPacket)
        BY <1>6
      <4>2. Len(down') = Len(down) + Len(q) /\ Len(down) \in Nat
        BY <1>7, <1>c, <4>1, ConcatPoints
      <4>3. Len(q) = 2
        BY <3>1
      <4> QED
        BY <4>2, <4>3
    <3>3. Len(down') \in 1..Len(down') /\ Len(down') - Len(down) = 2
          /\ Len(down') \notin 1..Len(down)
      BY <3>2
    <3>4. down'[Len(down')] = q[2]
      BY <1>6, <1>7, <1>c, <3>3, ConcatPoints
    <3>5. down'[Len(down')].k = "DATA" /\ down'[Len(down')].v = retained
      BY <3>1, <3>4 DEF DataMsg
    <3>6. Brings(down', Len(down'), atConnect')
      BY <1>4, <1>c, <3>3, <3>5 DEF Brings
    <3> QED
      BY <3>6 DEF Reach
  <2> QED
    BY <2>1, <2>2
<1> QED
  BY <1>8, <1>9, ReachEnd

(* What is queued for a held subscription ends with the newest value; if   *)
(* nothing is, the device has seen it.                                     *)
LEMMA ReachConnect ==
  ASSUME Typed, Ranges, Typed', ConnectInv, BeliefInv, linked, Held,
         BrokerReads, Head(up).k = "CONNECT"
  PROVE  AllReach'
<1>c. /\ session.next \in Nat /\ retained \in Nat /\ seen \in Nat
      /\ session.next >= 1 /\ session.next <= retained + 1
  BY DEF Typed, Session, Ranges
<1> DEFINE q == <<Connack(session.present)>> \o Queue
<1>1. /\ down' = q /\ up' = <<>> /\ atConnect' = retained /\ session'.next = session.next
      /\ seen' = seen
  BY ConnectRead, ReadStep
<1>2. /\ q \in Seq(DownPacket) /\ Len(q) = Len(Queue) + 1 /\ q[1].k = "CONNACK"
      /\ \A i \in 1..Len(q) : i # 1 => q[i] = DataMsg(session.next + i - 2)
  BY QueueOrdered
<1>3. Len(Queue) = retained + 1 - session.next
  BY QueueIs DEF Held
<1> HIDE DEF q
<1>4. \A v : DataMsg(v).k = "DATA" /\ DataMsg(v).v = v
  BY DEF DataMsg
<1>5. ~Has(down', "PUBACK")
  BY <1>1, <1>2, <1>4 DEF Has
<1>6. Sure /\ Sure'
  <2>1. <<>> \in Seq(UpTo(seen))
    OBVIOUS
  <2> QED
    BY <1>1, <2>1 DEF BeliefInv, Sure
<1>7. Len(q) \in Nat /\ Len(q) = retained + 2 - session.next
  BY <1>2, <1>3, <1>c
<1>8. CASE Len(q) = 1
  <2>1. \A i \in 1..Len(q) : i = 1
    BY <1>8
  <2>2. Fresh(q, Len(q), atConnect')
    BY <1>2, <2>1 DEF Fresh
  <2>3. seen >= retained
    <3>1. seen >= session.next - 1
      BY <1>6 DEF Sure
    <3>2. session.next = retained + 1
      BY <1>7, <1>8, <1>c
    <3> QED
      BY <1>c, <3>1, <3>2
  <2>4. Reach(Len(down))'
    BY <1>1, <1>6, <2>2, <2>3 DEF Reach
  <2> QED
    BY <1>5, <2>4, ReachEnd
<1>9. CASE Len(q) # 1
  <2>1. Len(q) \in 1..Len(q) /\ session.next + Len(q) - 2 = retained
    BY <1>7, <1>9, <1>c
  <2>2. q[Len(q)] = DataMsg(retained)
    BY <1>2, <1>9, <2>1
  <2>3. Brings(q, Len(q), atConnect')
    BY <1>1, <1>4, <1>c, <2>1, <2>2 DEF Brings
  <2>4. Reach(Len(down))'
    BY <1>1, <2>3 DEF Reach
  <2> QED
    BY <1>5, <2>4, ReachEnd
<1> QED
  BY <1>8, <1>9

LEMMA ReachStep ==
  Typed /\ Ranges /\ Typed' /\ Ranges' /\ CountInv /\ ConnectInv /\ SubscribeInv
    /\ OrderInv /\ BeliefInv /\ ReachInv /\ [MqttNext]_mqttVars => ReachInv'
<1> SUFFICES ASSUME Typed, Ranges, Typed', Ranges', CountInv, ConnectInv, SubscribeInv,
                    OrderInv, BeliefInv, ReachInv, [MqttNext]_mqttVars,
                    linked', ~Has(up', "CONNECT"), Hopes'
             PROVE  AllReach'
  BY DEF ReachInv
<1>c. up \in Seq(UpPacket) /\ down \in Seq(DownPacket)
  BY DEF Typed
<1>b. ~DeviceBoots
  BY DEF DeviceBoots
<1>1. CASE BrokerReads /\ Head(up).k = "SUBSCRIBE"
  <2>0. up # <<>> /\ UNCHANGED <<linked, ctx, s_session_subscribed>>
    BY <1>1, ReadStep DEF memory
  <2>1. 1 \in 1..Len(up) /\ up[1].k = "SUBSCRIBE"
    BY <1>1, <1>c, <2>0, TailPoints
  <2>2. ~ctx.subscribed /\ ~s_session_subscribed
    BY <2>1 DEF SubscribeInv
  <2>3. linked /\ Granted(down')
    BY <2>0, <2>2 DEF Hopes, Held
  <2> QED
    BY <1>1, <2>3, ReachSubscribe
<1>2. CASE BrokerReads /\ Head(up).k = "CONNECT"
  <2>0. linked /\ Head(up).k # "SUBSCRIBE"
    BY <1>2, ReadStep
  <2>1. Hopes
    BY <2>0, HopesStep
  <2>2. Held
    BY <1>2, <2>1, ConnectRead, GrantedEmpty DEF Hopes
  <2> QED
    BY <1>2, <2>0, <2>2, ReachConnect
<1>3. CASE OnEvent
  <2>0. linked /\ ~(BrokerReads /\ Head(up).k = "SUBSCRIBE") /\ ~Has(up, "CONNECT")
    <3>1. linked
      BY <1>3, EventStep
    <3>2. up' = up \/ \E v \in Nat : up' = up \o <<Ack(v)>>
      BY <1>3, EventStep, Zenon
    <3>3. \A v \in Nat : Has(up, "CONNECT") => Has(up \o <<Ack(v)>>, "CONNECT")
      <4> TAKE v \in Nat
      <4> DEFINE p == Ack(v)
      <4>1. p \in UpPacket
        BY UpPackets
      <4> HIDE DEF p
      <4>2. Has(up, "CONNECT") => Has(up \o <<p>>, "CONNECT")
        BY <1>c, <4>1, HasAppend
      <4> QED
        BY <4>2 DEF p
    <3>4. ~BrokerReads
      <4> SUFFICES ASSUME BrokerReads PROVE FALSE
        OBVIOUS
      <4>1. up # <<>> /\ up' = Tail(up) /\ Len(up') = Len(up) - 1 /\ Len(up) \in Nat
        BY <1>c, ReadStep, TailPoints
      <4>2. Len(up') >= Len(up)
        <5>1. \A v \in Nat : Len(up \o <<Ack(v)>>) = Len(up) + 1
          <6> TAKE v \in Nat
          <6> DEFINE p == Ack(v)
          <6>1. p \in UpPacket
            BY UpPackets
          <6> HIDE DEF p
          <6>2. Len(up \o <<p>>) = Len(up) + 1
            BY <1>c, <6>1, AppendPoints
          <6> QED
            BY <6>2 DEF p
        <5>2. Len(up') = Len(up) \/ Len(up') = Len(up) + 1
          BY <3>2, <5>1, Zenon
        <5>3. Len(up) \in Nat
          BY <1>c
        <5> QED
          BY <5>2, <5>3
      <4> QED
        BY <4>1, <4>2
    <3> QED
      BY <3>1, <3>2, <3>3, <3>4
  <2>1. Hopes
    BY <2>0, HopesStep
  <2>2. AllReach
    BY <2>0, <2>1 DEF ReachInv
  <2>3. Sure => Sure'
    BY <1>b, <2>0, SureStep
  <2> QED
    BY <1>3, <2>2, <2>3, ReachEvent
<1>4. CASE ~OnEvent /\ ~(BrokerReads /\ Head(up).k \in {"CONNECT", "SUBSCRIBE"})
  <2>0. Hopes
    BY <1>4, HopesStep
  <2>1. ~StartClient
    <3>1. <<Connect>>[1].k = "CONNECT" /\ 1 \in 1..Len(<<Connect>>)
      BY DEF Connect
    <3>2. Has(<<Connect>>, "CONNECT")
      BY <3>1, Zenon DEF Has
    <3> QED
      BY <3>2 DEF StartClient, Connect
  <2>2. linked
    BY <1>4, <2>1, StreamSteps, ReadStep
       DEF Streams, StreamsSend, StreamsCut, RetainedChanges, SessionForgotten
  <2>3. ~Has(up, "CONNECT")
    <3> SUFFICES ASSUME Has(up, "CONNECT") PROVE FALSE
      OBVIOUS
    <3>1. up = <<Connect>>
      BY DEF ConnectInv
    <3>2. Head(<<Connect>>).k = "CONNECT"
      BY DEF Connect
    <3>3. ~BrokerReads
      <4>1. Head(up).k = "CONNECT"
        BY <3>1, <3>2
      <4> QED
        BY <1>4, <4>1
    <3>4. CASE up' = up
      BY <3>4
    <3>5. CASE StreamsSend
      <4>1. PICK q \in Seq(UpPacket) : up' = up \o q
        BY <3>5 DEF StreamsSend
      <4>2. \A i \in 1..Len(up) : i \in 1..Len(up') /\ up'[i] = up[i]
        BY <1>c, <4>1, ConcatPoints
      <4> QED
        BY <4>2 DEF Has
    <3>6. up' = up \/ StreamsSend
      BY <1>4, <2>1, <2>2, <3>3, StreamSteps
         DEF Streams, StreamsCut, RetainedChanges, SessionForgotten
    <3> QED
      BY <3>4, <3>5, <3>6
  <2>4. AllReach
    BY <2>0, <2>2, <2>3 DEF ReachInv
  <2>5. seen' = seen
    BY <1>4, <1>b, SeenStep
  <2>6. Sure => Sure'
    BY <1>4, <1>b, SureStep
  <2>7. atConnect' = atConnect
    BY <1>4, DownStep
  <2>8. PICK q \in Seq(DownPacket) : down' = down \o q /\ Fresh(q, Len(q), atConnect)
    BY <1>4, <2>1, DownStep
  <2> QED
    BY <2>4, <2>5, <2>6, <2>7, <2>8, ReachGrow
<1> QED
  BY <1>1, <1>2, <1>3, <1>4

(* A cycle is acknowledged by the last PUBACK of its state message.        *)
LEMMA AckedStep ==
  ASSUME Typed, CountInv, [MqttNext]_mqttVars, Acked', ~Acked
  PROVE  OnEvent /\ Head(down).k = "PUBACK" /\ pc = "await"
<1>c. ctx \in Context /\ cyc \in Cycle
  BY DEF Typed
<1>1. CASE StartClient
  BY <1>1 DEF StartClient, NewCycle, Acked
<1>2. CASE Connected
  <2>1. cyc'.ok = cyc.ok /\ pc = "connecting" /\ pc' = "publish"
    BY <1>2, <1>c DEF Connected, Cycle
  <2> QED
    BY <2>1 DEF Acked
<1>3. CASE PublishState
  <2>1. pc = "publish" /\ UNCHANGED <<ctx, cyc>>
    BY <1>3 DEF PublishState
  <2> QED
    BY <2>1 DEF Acked, CountInv
<1>4. CASE StateAcked
  BY <1>4 DEF StateAcked, Acked
<1>5. CASE ReplayBatch \/ BatchAcked \/ EchoSettings \/ TimesOut
  <2>1. cyc'.ok = cyc.ok /\ pc # "sleep" /\ pc' # "await"
    BY <1>5, <1>c DEF ReplayBatch, BatchAcked, EchoSettings, TimesOut, Cycle
  <2> QED
    BY <2>1 DEF Acked
<1>6. CASE CloseSession \/ DeviceBoots
  BY <1>6 DEF CloseSession, DeviceBoots, Acked
<1>7. CASE OnEvent
  <2>1. UNCHANGED <<pc, cyc>>
    BY <1>7, EventStep
  <2>2. pc = "await" /\ ctx'.allAcked /\ ~ctx.allAcked
    BY <2>1 DEF Acked
  <2>3. Head(down).k # "PUBACK" => ctx'.allAcked = ctx.allAcked
    BY <1>7, <1>c, EventStep DEF Context
  <2> QED
    BY <1>7, <2>2, <2>3
<1>8. CASE BrokerReads
  BY <1>8, ReadStep DEF Acked
<1>9. CASE RetainedChanges \/ ConnectionDrops \/ SessionForgotten \/ UNCHANGED mqttVars
  BY <1>9 DEF RetainedChanges, ConnectionDrops, SessionForgotten, mqttVars, Acked
<1> QED
  BY <1>1, <1>2, <1>3, <1>4, <1>5, <1>6, <1>7, <1>8, <1>9 DEF MqttNext, CycleStep

(* A session gains its subscription by a SUBSCRIBE alone.                  *)
LEMMA SubscribedStep ==
  ASSUME Typed, [MqttNext]_mqttVars, session'.subscribed,
         ~(BrokerReads /\ Head(up).k = "SUBSCRIBE")
  PROVE  session.subscribed
<1>c. session \in Session
  BY DEF Typed
<1>1. CASE BrokerReads
  <2>1. CASE BrokerConnect
    BY <1>c, <2>1 DEF BrokerConnect, Session
  <2>2. CASE BrokerPublish(Head(up))
    BY <2>2 DEF BrokerPublish
  <2>3. CASE BrokerAck(Head(up).v)
    BY <1>c, <2>3 DEF BrokerAck, Session
  <2> QED
    BY <1>1, <2>1, <2>2, <2>3, ReadStep
<1>2. CASE OnEvent
  BY <1>2, EventStep DEF broker
<1>3. CASE SessionForgotten
  BY <1>3 DEF SessionForgotten, NoSession
<1>4. CASE UNCHANGED Streams \/ StreamsSend \/ StreamsCut \/ StartClient \/ RetainedChanges
  BY <1>4 DEF Streams, StreamsSend, StreamsCut, StartClient, RetainedChanges
<1> QED
  BY <1>1, <1>2, <1>3, <1>4, StreamSteps

LEMMA KnowStep ==
  Typed /\ Ranges /\ CountInv /\ ConnectInv /\ SubscribeInv /\ OrderInv /\ ReachInv
    /\ AfterInv /\ KnowInv /\ [MqttNext]_mqttVars => KnowInv'
<1> SUFFICES ASSUME Typed, Ranges, CountInv, ConnectInv, SubscribeInv, OrderInv, ReachInv,
                    AfterInv, KnowInv, [MqttNext]_mqttVars, Acked', Hopes'
             PROVE  /\ seen' >= atConnect' /\ (session'.subscribed => Sure')
                    /\ Fresh(down', Len(down'), atConnect')
  BY DEF KnowInv
<1>c. down \in Seq(DownPacket) /\ up \in Seq(UpPacket)
  BY DEF Typed
<1>b. ~DeviceBoots
  BY DEF DeviceBoots, Acked
<1>1. ~(BrokerReads /\ Head(up).k = "SUBSCRIBE")
  <2> SUFFICES ASSUME BrokerReads, Head(up).k = "SUBSCRIBE" PROVE FALSE
    OBVIOUS
  <2>1. up # <<>> /\ UNCHANGED <<pc, ctx, cyc>>
    BY ReadStep
  <2>2. Has(up, "SUBSCRIBE")
    BY <1>c, <2>1, TailPoints DEF Has
  <2>3. (pc = "await" /\ ctx.allAcked) \/ cyc.ok
    BY <2>1 DEF Acked
  <2> QED
    BY <2>2, <2>3, AckedAfterSubscribe
<1>2. Hopes
  BY <1>1, HopesStep
<1>3. CASE OnEvent
  <2>0. /\ linked /\ down # <<>> /\ down' = Tail(down)
        /\ UNCHANGED <<atConnect, session, pc>>
    BY <1>3, EventStep DEF broker
  <2>1. /\ Len(down) \in Nat \ {0} /\ down[1] = Head(down)
        /\ \A i \in 1..Len(down') : i + 1 \in 1..Len(down) /\ down'[i] = down[i + 1]
    BY <1>c, <2>0, TailPoints
  <2>2. 1 \in 1..Len(down) /\ \A i \in 1..Len(down') : 1 < i + 1
    <3>1. Len(down') \in Nat
      BY <1>c, <2>0, TailPoints
    <3> QED
      BY <2>1, <3>1
  <2>3. CASE Acked
    <3>1. /\ seen >= atConnect /\ (session.subscribed => Sure)
          /\ Fresh(down, Len(down), atConnect)
      BY <1>2, <2>3 DEF KnowInv
    <3>2. Fresh(down', Len(down'), atConnect)
      BY <2>1, <3>1 DEF Fresh
    <3>3. CASE Head(down).k = "DATA"
      <4>1. Sure' /\ seen' = Head(down).v
        BY <1>3, <3>3, SureArrives
      <4>2. Head(down).v >= atConnect
        BY <2>1, <2>2, <3>1, <3>3 DEF Fresh
      <4> QED
        BY <2>0, <3>2, <4>1, <4>2
    <3>4. CASE Head(down).k # "DATA"
      <4>1. seen' = seen
        BY <1>3, <3>4, EventStep
      <4>2. session'.subscribed => Sure'
        BY <1>1, <1>b, <2>0, <3>1, SureStep
      <4> QED
        BY <2>0, <3>1, <3>2, <4>1, <4>2
    <3> QED
      BY <3>3, <3>4
  <2>4. CASE ~Acked
    <3>1. Head(down).k = "PUBACK" /\ pc = "await"
      BY <2>4, AckedStep
    <3>2. ~Has(up, "CONNECT")
      BY <3>1 DEF ConnectInv
    <3>3. AllReach
      BY <1>2, <2>0, <3>2 DEF ReachInv
    <3>4. Reach(0)
      <4>1. 0 \in 0..Len(down) /\ down[0 + 1].k = "PUBACK"
        BY <2>1, <3>1
      <4> QED
        BY <3>3, <4>1 DEF AllReach
    <3>5. seen >= atConnect /\ Sure
      BY <3>4 DEF Reach, Brings
    <3>6. Sure'
      BY <1>1, <1>b, <3>5, SureStep
    <3>7. seen' = seen
      BY <1>3, <3>1, EventStep
    <3>8. Fresh(down', Len(down'), atConnect)
      BY <2>1, <2>2, <3>1 DEF AfterInv, Fresh
    <3> QED
      BY <2>0, <3>5, <3>6, <3>7, <3>8
  <2> QED
    BY <2>3, <2>4
<1>4. CASE ~OnEvent
  <2>1. Acked
    BY <1>4, AckedStep
  <2>2. ~(BrokerReads /\ Head(up).k = "CONNECT")
    BY <2>1, ConnectRead
  <2>3. /\ seen >= atConnect /\ (session.subscribed => Sure)
        /\ Fresh(down, Len(down), atConnect)
    BY <1>2, <2>1 DEF KnowInv
  <2>4. seen' = seen /\ atConnect' = atConnect
    BY <1>4, <1>b, <2>2, SeenStep, DownStep
  <2>5. session'.subscribed => Sure'
    BY <1>1, <1>b, <2>3, SubscribedStep, SureStep
  <2>6. Fresh(down', Len(down'), atConnect)
    <3>1. CASE down' = <<>>
      BY <3>1, FreshEmpty
    <3>2. ASSUME NEW q \in Seq(DownPacket), down' = down \o q, Fresh(q, Len(q), atConnect)
          PROVE  Fresh(down', Len(down'), atConnect)
      BY <1>c, <2>3, <3>2, FreshConcat
    <3> QED
      BY <1>4, <2>2, <3>1, <3>2, DownStep
  <2> QED
    BY <2>3, <2>4, <2>5, <2>6
<1> QED
  BY <1>3, <1>4

KnownInv ==
  /\ CountedInv /\ ConnectInv /\ SubscribeInv /\ OrderInv
  /\ BeliefInv /\ ReachInv /\ AfterInv /\ KnowInv

LEMMA KnownInit == MqttInit => ConnectInv /\ SubscribeInv /\ OrderInv /\ BeliefInv
                               /\ ReachInv /\ AfterInv /\ KnowInv
<1> SUFFICES ASSUME MqttInit
             PROVE  ConnectInv /\ SubscribeInv /\ OrderInv /\ BeliefInv
                      /\ ReachInv /\ AfterInv /\ KnowInv
  OBVIOUS
<1>1. /\ up = <<>> /\ down = <<>> /\ pc = "sleep" /\ cyc.ok = FALSE /\ linked = FALSE
      /\ s_session_subscribed = FALSE
  BY DEF MqttInit, NewCycle
<1>2. \A k : ~Has(<<>>, k)
  BY HasEmpty
<1>3. \A i \in 1..Len(<<>>) : FALSE
  OBVIOUS
<1>4. ConnectInv /\ SubscribeInv
  BY <1>1, <1>2, <1>3 DEF ConnectInv, SubscribeInv
<1>5. OrderInv
  BY <1>1, <1>2, NothingOrdered DEF OrderInv
<1>6. BeliefInv /\ ReachInv /\ KnowInv
  BY <1>1 DEF BeliefInv, Held, ReachInv, KnowInv, Acked
<1>7. AfterInv
  BY <1>1, <1>3 DEF AfterInv
<1> QED
  BY <1>4, <1>5, <1>6, <1>7

LEMMA KnownInvariant == MqttSpec => []KnownInv
<1>1. MqttInit => ConnectInv /\ SubscribeInv /\ OrderInv /\ BeliefInv
                   /\ ReachInv /\ AfterInv /\ KnowInv
  BY KnownInit
<1>2. CountedInv /\ CountedInv' /\ KnownInv /\ [MqttNext]_mqttVars => KnownInv'
  BY ConnectStep, SubscribeStep, OrderStep, BeliefStep, ReachStep, AfterStep, KnowStep
     DEF KnownInv, CountedInv
<1>3. MqttInit /\ CountedInv => KnownInv
  BY <1>1 DEF KnownInv
<1> QED
  BY <1>2, <1>3, CountedInvariant, PTL DEF MqttSpec

(* When a cycle of the device ends ok, every change that was published     *)
(* before its CONNECT was read has been delivered to it, provided its      *)
(* subscription was granted or the one it relied on is still held: the     *)
(* broker answers on one ordered stream, so the acknowledgement of the     *)
(* state message follows the queued changes.  It holds for every number    *)
(* of changes and faults: lost connections, sessions forgotten,            *)
(* subscriptions refused and restarts of the device.                       *)
THEOREM OkIsUpToDate == MqttSpec => []OkMeansUpToDate
<1>1. KnownInv => OkMeansUpToDate
  <2> SUFFICES ASSUME KnownInv, pc # "sleep", cyc.ok,
                      IF cyc.subscribe THEN ctx.subscribed ELSE session.subscribed
               PROVE  seen >= atConnect
    BY DEF OkMeansUpToDate
  <2>1. cyc.subscribe \/ s_session_subscribed
    BY DEF KnownInv, SubscribeInv
  <2>2. Hopes
    BY <2>1 DEF Hopes, Held
  <2> QED
    BY <2>2 DEF KnownInv, KnowInv, Acked
<1> QED
  BY <1>1, KnownInvariant, PTL
=============================================================================
