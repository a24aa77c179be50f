------------------------- MODULE NetworkLinkProofs --------------------------
(***************************************************************************)
(* Proofs about the network link, for any set of transports, parents and   *)
(* prefixes and any number of network changes, faults and sessions.        *)
(***************************************************************************)
EXTENDS NetworkLink, TLAPS

(* The transport and the addresses are configured once.                    *)
LEMMA ConfStays == [LinkNext]_linkVars => conf' = conf
<1> SUFFICES ASSUME [LinkNext]_linkVars PROVE conf' = conf
  OBVIOUS
<1>1. CASE PubStep
  BY <1>1 DEF PubStep, PubBegin, PubUnreachable, PubReachable, PubUri, BrokerUri,
     PubConnected, PubNotConnected, PubReadStats, PubReadUplink, PubAcked, PubNotAcked,
     PubClosed, OtaNotConnected, OtaRefused, OtaBegins, OtaInterrupted, OtaDiscards,
     OtaInstalls, PubEnd, onPublishWindowBegin, onPublishWindowEnd, onOtaWindowBegin,
     onOtaWindowEnd, onSessionClosing, onSessionClosed, linkButPoll
<1>2. CASE SensorStep
  BY <1>2 DEF SensorStep, SensorGateTimesOut, SensorPublishes, SensorResult, linkVars
<1>3. CASE ThreadStep \/ WifiStep
  BY <1>3 DEF ThreadStep, WifiStep
<1>4. CASE UNCHANGED linkVars
  BY <1>4 DEF linkVars
<1> QED
  BY <1>1, <1>2, <1>3, <1>4 DEF LinkNext

-----------------------------------------------------------------------------
(* The poll period                                                         *)

(* A step of the publish task sets the period of the window it opens or    *)
(* returns to.                                                             *)
LEMMA PubKeepsPoll ==
  ASSUME PollMatchesWindow, PubStep, conf' = conf
  PROVE  PollMatchesWindow'
<1> USE DEF PollMatchesWindow, Thread, SetPoll
<1>1. CASE PubBegin
  BY <1>1 DEF PubBegin, onPublishWindowBegin
<1>2. CASE PubUnreachable \/ PubEnd
  BY <1>2 DEF PubUnreachable, PubEnd, onPublishWindowEnd
<1>3. CASE PubReachable \/ PubConnected \/ PubNotConnected
  BY <1>3 DEF PubReachable, PubConnected, PubNotConnected, threadVars
<1>4. CASE PubUri
  BY <1>4 DEF PubUri, BrokerUri, threadVars
<1>5. CASE PubReadStats \/ PubReadUplink \/ PubNotAcked
  BY <1>5 DEF PubReadStats, PubReadUplink, PubNotAcked, threadVars
<1>6. CASE PubAcked
  BY <1>6 DEF PubAcked, onSessionClosing
<1>7. CASE PubClosed
  BY <1>7 DEF PubClosed, onSessionClosed
<1>8. CASE OtaNotConnected \/ OtaRefused
  BY <1>8 DEF OtaNotConnected, OtaRefused, threadVars
<1>9. CASE OtaBegins
  BY <1>9 DEF OtaBegins, onOtaWindowBegin
<1>10. CASE OtaInterrupted \/ OtaDiscards
  BY <1>10 DEF OtaInterrupted, OtaDiscards, onOtaWindowEnd
<1>11. CASE OtaInstalls
  BY <1>11 DEF OtaInstalls, ThreadRestarts
<1> QED
  BY <1>1, <1>2, <1>3, <1>4, <1>5, <1>6, <1>7, <1>8, <1>9, <1>10, <1>11 DEF PubStep

(* Whichever way a publish cycle or a download ends, every window that was *)
(* opened is closed: the radio polls at the period of the innermost open   *)
(* window, and slowly when there is none.                                  *)
THEOREM PollIsOfWindow == LinkSpec => []PollMatchesWindow
<1>1. LinkInit => PollMatchesWindow
  BY DEF PollMatchesWindow, LinkInit, ThreadInit
<1>2. PollMatchesWindow /\ [LinkNext]_linkVars => PollMatchesWindow'
  <2> SUFFICES ASSUME PollMatchesWindow, [LinkNext]_linkVars
               PROVE  PollMatchesWindow'
    OBVIOUS
  <2>1. conf' = conf
    BY ConfStays
  <2>2. CASE PubStep
    BY <2>1, <2>2, PubKeepsPoll
  <2>3. CASE SensorStep
    <3>1. poll' = poll
      BY <2>3 DEF SensorStep, SensorGateTimesOut, SensorPublishes, SensorResult, Refresh,
         RefreshNat64Prefix, WifiRefresh, linkVars, threadVars
    <3>2. pubPc' = pubPc \/ (pubPc = "none" /\ pubPc' = "begin")
      BY <2>3 DEF SensorStep, SensorGateTimesOut, SensorPublishes, SensorResult,
         linkVars, pubVars
    <3> QED
      BY <2>1, <3>1, <3>2 DEF PollMatchesWindow, Thread
  <2>4. CASE ThreadStep \/ WifiStep
    <3>1. poll' = poll /\ pubPc' = pubPc
      BY <2>4 DEF ThreadStep, WifiStep, ThreadStackStep, Attach, SwitchParent, Detach,
         NetDataChanges, EnhAckReport, ProcessStateChange, threadVars, pubVars
    <3> QED
      BY <2>1, <3>1 DEF PollMatchesWindow, Thread
  <2>5. CASE UNCHANGED linkVars
    BY <2>5 DEF PollMatchesWindow, Thread, linkVars, threadVars, pubVars
  <2> QED
    BY <2>2, <2>3, <2>4, <2>5 DEF LinkNext
<1> QED
  BY <1>1, <1>2, PTL DEF LinkSpec

-----------------------------------------------------------------------------
(* The state of the Thread link                                            *)

ThreadCurrent ==
  Thread /\ ~changed =>
    /\ attachedBit <=> role = "child"
    /\ role = "child" =>
         /\ netData.nat64 # None =>
              prefixBit /\ s_nat64_prefix = Whole(netData.nat64)
         /\ AnyRoute(netData) => routeBit
         /\ s_uplink_rssi_dbm \in {None, parent}

(* A walk over the routes takes in what the network data announces now.    *)
LEMMA ScanIsCurrent ==
  ASSUME ScanRoutes
  PROVE  /\ netData.nat64 # None =>
              prefixBit' /\ s_nat64_prefix' = Whole(netData.nat64)
         /\ AnyRoute(netData) => routeBit'
BY DEF ScanRoutes

LEMMA NextThreadCurrent ==
  ASSUME ThreadCurrent, [LinkNext]_linkVars
  PROVE  ThreadCurrent'
<1> USE DEF ThreadCurrent, Thread
<1>0. conf' = conf
  BY ConfStays
<1>1. ASSUME UNCHANGED <<otStack, threadBits, s_uplink_rssi_dbm>> PROVE ThreadCurrent'
  BY <1>0, <1>1 DEF otStack, threadBits
<1>2. CASE PubStep
  <2>1. CASE OtaInstalls
    BY <1>0, <2>1 DEF OtaInstalls, ThreadRestarts
  <2>2. CASE ~OtaInstalls
    <3>1. UNCHANGED <<otStack, threadBits, s_uplink_rssi_dbm>>
      BY <1>2, <2>2 DEF PubStep, PubBegin, PubUnreachable, PubReachable, PubUri, BrokerUri,
         PubConnected, PubNotConnected, PubReadStats, PubReadUplink, PubAcked,
         PubNotAcked, PubClosed, OtaNotConnected, OtaRefused, OtaBegins, OtaInterrupted,
         OtaDiscards, PubEnd, onPublishWindowBegin, onPublishWindowEnd,
         onOtaWindowBegin, onOtaWindowEnd, onSessionClosing, onSessionClosed,
         linkButPoll, threadVars
    <3> QED
      BY <1>1, <3>1
  <2> QED
    BY <2>1, <2>2
<1>3. CASE SensorStep
  <2>1. CASE UNCHANGED <<otStack, threadBits, s_uplink_rssi_dbm>>
    BY <1>1, <2>1
  <2>2. CASE RefreshNat64Prefix
    BY <1>0, <2>2, ScanIsCurrent DEF RefreshNat64Prefix, otStack
  <2> QED
    BY <1>3, <2>1, <2>2 DEF SensorStep, SensorGateTimesOut, SensorPublishes,
       SensorResult, Refresh, linkVars, threadVars
<1>4. CASE ThreadStep
  <2>1. CASE ProcessStateChange
    BY <1>0, <2>1, ScanIsCurrent DEF ProcessStateChange, RegisterEnhAckProbing
  <2>2. CASE EnhAckReport
    BY <1>0, <2>2 DEF EnhAckReport, otStack, threadBits
  <2>3. CASE changed'
    BY <2>3
  <2> QED
    BY <1>4, <2>1, <2>2, <2>3 DEF ThreadStep, ThreadStackStep, Attach, SwitchParent,
       Detach, NetDataChanges, Move
<1>5. CASE WifiStep \/ UNCHANGED linkVars
  BY <1>1, <1>5 DEF WifiStep, linkVars, threadVars
<1> QED
  BY <1>2, <1>3, <1>4, <1>5 DEF LinkNext

-----------------------------------------------------------------------------
(* The state of the Wi-Fi link.  The handler is told of what happened by a *)
(* queue of events, so the invariant is about what the bit will be once    *)
(* the queue is empty.                                                     *)

Never(s, e) == \A i \in 1..Len(s) : s[i] # e

(* No f comes after the last e.                                            *)
LastWord(s, e, f) ==
  \E i \in 1..Len(s) : s[i] = e /\ \A j \in 1..Len(s) : j > i => s[j] # f

WifiEvent == {"STA_START", "STA_CONNECTED", "STA_DISCONNECTED", "STA_GOT_IP", "GOT_IP6"}

LEMMA Appended ==
  ASSUME NEW s \in Seq(WifiEvent), NEW e \in WifiEvent, NEW f \in WifiEvent, e # f,
         NEW x \in WifiEvent, x # f
  PROVE  /\ LastWord(Append(s, e), e, f)
         /\ LastWord(s, e, f) => LastWord(Append(s, x), e, f)
         /\ Never(s, f) => Never(Append(s, x), f)
<1>1. LastWord(Append(s, e), e, f)
  <2>1. Len(s) + 1 \in 1..Len(Append(s, e)) /\ Append(s, e)[Len(s) + 1] = e
    OBVIOUS
  <2>2. \A j \in 1..Len(Append(s, e)) : ~(j > Len(s) + 1)
    OBVIOUS
  <2> QED
    BY <2>1, <2>2 DEF LastWord
<1>2. ASSUME LastWord(s, e, f) PROVE LastWord(Append(s, x), e, f)
  <2>1. PICK i \in 1..Len(s) : s[i] = e /\ \A j \in 1..Len(s) : j > i => s[j] # f
    BY <1>2 DEF LastWord
  <2>2. i \in 1..Len(Append(s, x)) /\ Append(s, x)[i] = e
    BY <2>1
  <2>3. \A j \in 1..Len(Append(s, x)) : j > i => Append(s, x)[j] # f
    BY <2>1
  <2> QED
    BY <2>2, <2>3 DEF LastWord
<1>3. Never(s, f) => Never(Append(s, x), f)
  BY DEF Never
<1> QED
  BY <1>1, <1>2, <1>3

LEMMA Handled ==
  ASSUME NEW s \in Seq(WifiEvent), s # <<>>,
         NEW e \in WifiEvent, NEW f \in WifiEvent, e # f
  PROVE  /\ Never(s, f) => Never(Tail(s), f) /\ Head(s) # f
         /\ LastWord(s, e, f) => LastWord(Tail(s), e, f) \/ Never(Tail(s), f)
         /\ LastWord(s, e, f) /\ Head(s) # e => LastWord(Tail(s), e, f)
<1> DEFINE t == Tail(s)
<1>1. t \in Seq(WifiEvent) /\ Len(t) = Len(s) - 1 /\ Len(s) \in Nat /\ Len(s) > 0
  OBVIOUS
<1>2. \A i \in 1..Len(t) : t[i] = s[i + 1]
  OBVIOUS
<1> HIDE DEF t
<1>3. Never(s, f) => Never(t, f) /\ Head(s) # f
  BY <1>1, <1>2 DEF Never
<1>4. ASSUME LastWord(s, e, f)
      PROVE  /\ LastWord(t, e, f) \/ Never(t, f)
             /\ Head(s) # e => LastWord(t, e, f)
  <2>1. PICK i \in 1..Len(s) : s[i] = e /\ \A j \in 1..Len(s) : j > i => s[j] # f
    BY <1>4 DEF LastWord
  <2>2. CASE i = 1
    BY <1>1, <1>2, <2>1, <2>2 DEF Never
  <2>3. CASE i # 1
    <3>1. i - 1 \in 1..Len(t) /\ t[i - 1] = e
      BY <1>1, <1>2, <2>1, <2>3
    <3>2. \A j \in 1..Len(t) : j > i - 1 => t[j] # f
      BY <1>1, <1>2, <2>1
    <3> QED
      BY <3>1, <3>2 DEF LastWord
  <2> QED
    BY <2>2, <2>3
<1> QED
  BY <1>3, <1>4 DEF t

(* The event that announces an address of the configured family, whether   *)
(* there is one, and the bit that says so.                                 *)
GotEvent == IF conf.family = "ipv6" THEN "GOT_IP6" ELSE "STA_GOT_IP"
HasAddress ==
  sta = "up" /\ (IF conf.family = "ipv6" THEN "linklocal" ELSE "ipv4") \in addresses
GotBit == WifiReady(conf.family)

(* An address is announced by an event no disconnect follows, or by the    *)
(* bit; its absence by a disconnect no announcement follows, or the bit.   *)
Announced ==
  /\ HasAddress =>
       \/ LastWord(events, GotEvent, "STA_DISCONNECTED")
       \/ GotBit /\ Never(events, "STA_DISCONNECTED")
  /\ ~HasAddress =>
       \/ LastWord(events, "STA_DISCONNECTED", GotEvent)
       \/ ~GotBit /\ Never(events, GotEvent)

WifiInv ==
  /\ events \in Seq(WifiEvent)
  /\ sta # "up" => addresses = {}
  /\ Announced

(* A queue that starts anew announces nothing.                             *)
LEMMA FreshQueue ==
  ASSUME NEW s \in {<<"STA_START">>, <<>>}, NEW g \in {"GOT_IP6", "STA_GOT_IP"}
  PROVE  s \in Seq(WifiEvent) /\ Never(s, g)
<1>1. CASE s = <<>>
  BY <1>1 DEF Never
<1>2. CASE s = <<"STA_START">>
  <2>1. Len(s) = 1 /\ s[1] = "STA_START"
    BY <1>2
  <2>2. s \in Seq(WifiEvent)
    BY <1>2 DEF WifiEvent
  <2> QED
    BY <2>1, <2>2 DEF Never
<1> QED
  BY <1>1, <1>2

(* An event that neither announces an address nor a disconnect changes     *)
(* nothing.                                                                *)
LEMMA OtherEvent ==
  ASSUME WifiInv, NEW x \in WifiEvent, x \notin {GotEvent, "STA_DISCONNECTED"},
         events' = Append(events, x), conf' = conf,
         GotBit' = GotBit, HasAddress' = HasAddress
  PROVE  Announced'
<1>1. GotEvent \in WifiEvent /\ GotEvent # "STA_DISCONNECTED" /\ GotEvent' = GotEvent
  BY DEF GotEvent, WifiEvent
<1>2. "STA_DISCONNECTED" \in WifiEvent
  BY DEF WifiEvent
<1> QED
  BY <1>1, <1>2, Appended DEF WifiInv, Announced

(* The driver: a new association, a lost one, a new address.               *)
LEMMA StackKeepsWifi ==
  ASSUME WifiInv, WifiStackStep, conf' = conf
  PROVE  WifiInv'
<1>1. GotEvent \in WifiEvent /\ GotEvent # "STA_DISCONNECTED" /\ GotEvent' = GotEvent
  BY DEF GotEvent, WifiEvent
<1>2. "STA_DISCONNECTED" \in WifiEvent
  BY DEF WifiEvent
<1>3. GotBit' = GotBit
  BY DEF GotBit, WifiReady, WifiStackStep, ApAccepts, ApFails, GetsAddress
<1>4. events \in Seq(WifiEvent)
  BY DEF WifiInv
<1>5. CASE ApAccepts
  <2>1. HasAddress' = HasAddress
    BY <1>5 DEF ApAccepts, HasAddress, WifiInv
  <2>2. events' = Append(events, "STA_CONNECTED") /\ sta' = "up"
    BY <1>5 DEF ApAccepts
  <2>3. "STA_CONNECTED" \in WifiEvent /\ "STA_CONNECTED" \notin {GotEvent, "STA_DISCONNECTED"}
    BY DEF WifiEvent, GotEvent
  <2>4. Announced'
    BY <1>3, <2>1, <2>2, <2>3, OtherEvent
  <2> QED
    BY <1>4, <2>2, <2>3, <2>4 DEF WifiInv
<1>6. CASE ApFails
  <2>1. ~HasAddress' /\ addresses' = {} /\ events' = Append(events, "STA_DISCONNECTED")
    BY <1>6 DEF ApFails, HasAddress
  <2>2. LastWord(events', "STA_DISCONNECTED", GotEvent)
    BY <1>1, <1>2, <1>4, <2>1, Appended
  <2> QED
    BY <1>1, <1>2, <1>4, <2>1, <2>2 DEF WifiInv, Announced
<1>7. ASSUME NEW a \in {"ipv4", "global"}, GetsAddress(a) PROVE WifiInv'
  <2>1. /\ sta = "up" /\ sta' = "up" /\ addresses' = addresses \cup {a}
        /\ a = "global" => "linklocal" \in addresses
    BY <1>7 DEF GetsAddress
  <2>2. PICK x \in {"STA_GOT_IP", "GOT_IP6"} :
          events' = Append(events, x) /\ (a = "ipv4" <=> x = "STA_GOT_IP")
    BY <1>7 DEF GetsAddress
  <2>3. x \in WifiEvent
    BY DEF WifiEvent
  <2>4. CASE x = GotEvent
    <3>1. HasAddress'
      BY <1>7, <2>1, <2>2, <2>4 DEF HasAddress, GotEvent
    <3>2. LastWord(events', GotEvent, "STA_DISCONNECTED")
      BY <1>1, <1>2, <1>4, <2>2, <2>4, Appended
    <3> QED
      BY <1>1, <1>4, <2>1, <2>2, <2>3, <3>1, <3>2 DEF WifiInv, Announced
  <2>5. CASE x # GotEvent
    <3>1. HasAddress' = HasAddress
      BY <1>7, <2>1, <2>2, <2>5 DEF HasAddress, GotEvent
    <3>2. Announced'
      BY <1>3, <2>2, <2>3, <2>5, <3>1, OtherEvent
    <3> QED
      BY <1>4, <2>1, <2>2, <2>3, <3>2 DEF WifiInv
  <2> QED
    BY <2>4, <2>5
<1> QED
  BY <1>5, <1>6, <1>7 DEF WifiStackStep

(* esp_wifi_connect() gives the station no address.                        *)
LEMMA ConnectGivesNone ==
  ASSUME WifiInv, EspWifiConnect, conf' = conf, addresses' = addresses
  PROVE  HasAddress' = HasAddress /\ (sta' # "up" => addresses' = {})
BY DEF EspWifiConnect, HasAddress, WifiInv

(* The handler takes the oldest event and leaves the bit right for the     *)
(* rest of the queue.                                                      *)
LEMMA HandlerKeepsWifi ==
  ASSUME WifiInv, WifiEventHandler(conf.family), conf' = conf
  PROVE  WifiInv'
<1> DEFINE e == Head(events)  t == Tail(events)
<1>1. GotEvent \in WifiEvent /\ GotEvent # "STA_DISCONNECTED" /\ GotEvent' = GotEvent
  BY DEF GotEvent, WifiEvent
<1>2. "STA_DISCONNECTED" \in WifiEvent
  BY DEF WifiEvent
<1>3. events # <<>> /\ events \in Seq(WifiEvent)
  BY DEF WifiInv, WifiEventHandler
<1>4. e \in WifiEvent /\ t \in Seq(WifiEvent)
  BY <1>3
<1>5. /\ LastWord(events, GotEvent, "STA_DISCONNECTED") =>
           /\ LastWord(t, GotEvent, "STA_DISCONNECTED") \/ Never(t, "STA_DISCONNECTED")
           /\ e # GotEvent => LastWord(t, GotEvent, "STA_DISCONNECTED")
      /\ LastWord(events, "STA_DISCONNECTED", GotEvent) =>
           /\ LastWord(t, "STA_DISCONNECTED", GotEvent) \/ Never(t, GotEvent)
           /\ e # "STA_DISCONNECTED" => LastWord(t, "STA_DISCONNECTED", GotEvent)
      /\ Never(events, "STA_DISCONNECTED") =>
           Never(t, "STA_DISCONNECTED") /\ e # "STA_DISCONNECTED"
      /\ Never(events, GotEvent) => Never(t, GotEvent) /\ e # GotEvent
  BY <1>1, <1>2, <1>3, Handled
<1> HIDE DEF e, t
<1>6. ASSUME events' = t, HasAddress' = HasAddress, sta' # "up" => addresses' = {},
             \/ e = "STA_DISCONNECTED" /\ ~GotBit'
             \/ e = GotEvent /\ GotBit'
             \/ e \notin {"STA_DISCONNECTED", GotEvent} /\ GotBit' = GotBit
      PROVE  WifiInv'
  BY <1>1, <1>4, <1>5, <1>6 DEF WifiInv, Announced
<1>7. CASE e = "STA_START"
  <2>1. events' = t /\ EspWifiConnect /\ UNCHANGED <<addresses, gotIpv4, gotIpv6>>
    BY <1>7 DEF WifiEventHandler, e, t
  <2>2. GotBit' = GotBit /\ e \notin {"STA_DISCONNECTED", GotEvent}
    BY <1>7, <2>1 DEF GotBit, WifiReady, GotEvent
  <2> QED
    BY <1>6, <2>1, <2>2, ConnectGivesNone
<1>8. CASE e = "STA_CONNECTED"
  <2>1. UNCHANGED <<sta, gotIpv4, gotIpv6>>
    BY <1>8 DEF WifiEventHandler, e, t
  <2>2. GotBit' = GotBit /\ e \notin {"STA_DISCONNECTED", GotEvent}
    BY <1>8, <2>1 DEF GotBit, WifiReady, GotEvent
  <2>3. CASE conf.family = "ipv6" /\ sta = "up"
    <3>1. addresses' = addresses \cup {"linklocal"} /\ events' = Append(t, GotEvent)
      BY <1>8, <2>3 DEF WifiEventHandler, e, t, GotEvent
    <3>2. HasAddress'
      BY <2>1, <2>3, <3>1 DEF HasAddress
    <3>3. LastWord(events', GotEvent, "STA_DISCONNECTED")
      BY <1>1, <1>2, <1>4, <3>1, Appended
    <3>4. events' \in Seq(WifiEvent)
      BY <1>1, <1>4, <3>1
    <3> QED
      BY <1>1, <2>1, <2>3, <3>2, <3>3, <3>4 DEF WifiInv, Announced
  <2>4. CASE ~(conf.family = "ipv6" /\ sta = "up")
    <3>1. events' = t /\ addresses' = addresses
      BY <1>8, <2>4 DEF WifiEventHandler, e, t
    <3>2. HasAddress' = HasAddress /\ (sta' # "up" => addresses' = {})
      BY <2>1, <3>1 DEF HasAddress, WifiInv
    <3> QED
      BY <1>6, <2>2, <3>1, <3>2
  <2> QED
    BY <2>3, <2>4
<1>9. CASE e = "STA_DISCONNECTED"
  <2>1. /\ events' = t /\ EspWifiConnect /\ addresses' = addresses
        /\ ClearGotIp(conf.family)
    BY <1>9 DEF WifiEventHandler, e, t
  <2>2. ~GotBit'
    BY <2>1 DEF ClearGotIp, GotBit, WifiReady
  <2> QED
    BY <1>6, <1>9, <2>1, <2>2, ConnectGivesNone
<1>10. CASE e \in {"STA_GOT_IP", "GOT_IP6"}
  <2>1. events' = t /\ UNCHANGED <<sta, addresses>>
    BY <1>10 DEF WifiEventHandler, e, t
  <2>2. HasAddress' = HasAddress /\ (sta' # "up" => addresses' = {})
    BY <2>1 DEF HasAddress, WifiInv
  <2>3. CASE e = GotEvent
    <3>1. GotBit'
      BY <1>10, <2>3 DEF WifiEventHandler, e, GotEvent, GotBit, WifiReady
    <3> QED
      BY <1>6, <2>1, <2>2, <2>3, <3>1
  <2>4. CASE e # GotEvent
    <3>1. GotBit' = GotBit
      BY <1>10, <2>4 DEF WifiEventHandler, e, GotEvent, GotBit, WifiReady
    <3> QED
      BY <1>6, <1>10, <2>1, <2>2, <2>4, <3>1
  <2> QED
    BY <2>3, <2>4
<1> QED
  BY <1>4, <1>7, <1>8, <1>9, <1>10 DEF WifiEvent

(* Steps that leave the event queue, the addresses and the bits alone.     *)
LEMMA FrameKeepsWifi ==
  ASSUME WifiInv, UNCHANGED <<events, addresses, gotIpv4, gotIpv6>>, conf' = conf,
         sta' = sta \/ EspWifiConnect
  PROVE  WifiInv'
<1>1. HasAddress' = HasAddress /\ (sta' # "up" => addresses' = {})
  BY ConnectGivesNone DEF HasAddress, WifiInv
<1>2. GotBit' = GotBit /\ GotEvent' = GotEvent
  BY DEF GotBit, WifiReady, GotEvent
<1> QED
  BY <1>1, <1>2 DEF WifiInv, Announced

LEMMA NextWifi ==
  ASSUME WifiInv, [LinkNext]_linkVars
  PROVE  WifiInv'
<1>0. conf' = conf
  BY ConfStays
<1>1. ASSUME UNCHANGED wifiVars PROVE WifiInv'
  BY <1>0, <1>1, FrameKeepsWifi DEF wifiVars, wifiDriver
<1>2. CASE PubStep
  <2>1. CASE OtaInstalls
    <3>1. /\ events' \in {<<"STA_START">>, <<>>} /\ sta' = "down" /\ addresses' = {}
          /\ ~gotIpv4' /\ ~gotIpv6'
      BY <2>1 DEF OtaInstalls, WifiRestarts
    <3>2. ~HasAddress' /\ ~GotBit'
      BY <3>1 DEF HasAddress, GotBit, WifiReady
    <3>3. GotEvent' \in {"GOT_IP6", "STA_GOT_IP"}
      BY DEF GotEvent
    <3>4. events' \in Seq(WifiEvent) /\ Never(events', GotEvent')
      BY <3>1, <3>3, FreshQueue
    <3> QED
      BY <3>1, <3>2, <3>4 DEF WifiInv, Announced
  <2>2. CASE ~OtaInstalls
    <3>1. UNCHANGED wifiVars
      BY <1>2, <2>2 DEF PubStep, PubBegin, PubUnreachable, PubReachable, PubUri, BrokerUri,
         PubConnected, PubNotConnected, PubReadStats, PubReadUplink, PubAcked,
         PubNotAcked, PubClosed, OtaNotConnected, OtaRefused, OtaBegins, OtaInterrupted,
         OtaDiscards, PubEnd, onPublishWindowBegin, onPublishWindowEnd,
         onOtaWindowBegin, onOtaWindowEnd, onSessionClosing, onSessionClosed, linkButPoll
    <3> QED
      BY <1>1, <3>1
  <2> QED
    BY <2>1, <2>2
<1>3. CASE SensorStep
  <2>1. CASE UNCHANGED wifiVars
    BY <1>1, <2>1
  <2>2. CASE WifiRefresh
    BY <1>0, <2>2, FrameKeepsWifi DEF WifiRefresh
  <2> QED
    BY <1>3, <2>1, <2>2 DEF SensorStep, SensorGateTimesOut, SensorPublishes,
       SensorResult, Refresh, linkVars
<1>4. CASE WifiStep
  BY <1>0, <1>4, StackKeepsWifi, HandlerKeepsWifi DEF WifiStep
<1>5. CASE ThreadStep \/ UNCHANGED linkVars
  BY <1>1, <1>5 DEF ThreadStep, linkVars
<1> QED
  BY <1>2, <1>3, <1>4, <1>5 DEF LinkNext

(* Once the owed callback and the posted events are handled, the link      *)
(* tells the tasks what the network is, however its changes, the refresh   *)
(* of the sensor task and a restart came in between.                       *)
THEOREM LinkIsCurrent == LinkSpec => []LinkStateIsCurrent
<1>1. LinkInit => ThreadCurrent /\ WifiInv
  <2> SUFFICES ASSUME LinkInit PROVE ThreadCurrent /\ WifiInv
    OBVIOUS
  <2>1. ThreadCurrent
    BY DEF LinkInit, ThreadInit, ThreadCurrent
  <2>2. /\ events \in {<<"STA_START">>, <<>>} /\ sta = "down" /\ addresses = {}
        /\ ~gotIpv4 /\ ~gotIpv6
    BY DEF LinkInit, WifiInit
  <2>3. ~HasAddress /\ ~GotBit
    BY <2>2 DEF HasAddress, GotBit, WifiReady
  <2>4. GotEvent \in {"GOT_IP6", "STA_GOT_IP"}
    BY DEF GotEvent
  <2>5. events \in Seq(WifiEvent) /\ Never(events, GotEvent)
    BY <2>2, <2>4, FreshQueue
  <2> QED
    BY <2>1, <2>2, <2>3, <2>5 DEF WifiInv, Announced
<1>2. ThreadCurrent /\ WifiInv /\ [LinkNext]_linkVars => (ThreadCurrent /\ WifiInv)'
  BY NextThreadCurrent, NextWifi
<1>3. ThreadCurrent /\ WifiInv => LinkStateIsCurrent
  <2> SUFFICES ASSUME ThreadCurrent, WifiInv, ~Thread, events = <<>>
               PROVE  Ready <=> HasAddress
    BY DEF LinkStateIsCurrent, ThreadCurrent, HasAddress
  <2>1. \A a, b : ~LastWord(events, a, b)
    BY DEF LastWord
  <2> QED
    BY <2>1 DEF WifiInv, Announced, GotBit, Ready
<1> QED
  BY <1>1, <1>2, <1>3, PTL DEF LinkSpec
=============================================================================
