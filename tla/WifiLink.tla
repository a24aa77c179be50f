------------------------------ MODULE WifiLink ------------------------------
(***************************************************************************)
(* The Wi-Fi transport of the network link (net/wifi_link.cpp): one event  *)
(* handler that keeps the station connecting and tells, by one event bit,  *)
(* that the address family the device was configured for is up.            *)
(*                                                                         *)
(* The Wi-Fi driver and lwIP are external: they post events to the default *)
(* event loop, which hands them over one by one, in order.  A connection   *)
(* attempt that is under way ends in CONNECTED or in DISCONNECTED.         *)
(***************************************************************************)
EXTENDS Integers, Sequences

CONSTANTS
  MaxApFaults,      \* bound: refused attempts and lost associations
  MaxConnectErrors  \* bound: calls of esp_wifi_connect() that fail at once

ASSUME WifiAssumption == MaxApFaults \in Nat /\ MaxConnectErrors \in Nat

VARIABLES
  \* driver and lwIP
  sta,        \* the station
  addresses,  \* of the station's interface
  dhcp,       \* the DHCP client runs
  events,     \* posted and not yet handled
  apFaults, connectErrors,
  \* wifi_link.cpp
  gotIpv4, gotIpv6  \* BIT_GOT_IPV4, BIT_GOT_IPV6

wifiDriver == <<sta, addresses, dhcp, events, apFaults, connectErrors>>
wifiVars == <<wifiDriver, gotIpv4, gotIpv6>>

(* start(): esp_wifi_start() posts STA_START.                              *)
WifiInit(started) ==
  /\ sta = "down" /\ addresses = {} /\ dhcp = TRUE
  /\ events = IF started THEN <<"STA_START">> ELSE <<>>
  /\ apFaults = 0 /\ connectErrors = 0
  /\ gotIpv4 = FALSE /\ gotIpv6 = FALSE

WifiRestarts(started) ==
  /\ sta' = "down" /\ addresses' = {} /\ dhcp' = TRUE
  /\ events' = IF started THEN <<"STA_START">> ELSE <<>>
  /\ gotIpv4' = FALSE /\ gotIpv6' = FALSE
  /\ UNCHANGED <<apFaults, connectErrors>>

-----------------------------------------------------------------------------
(* The driver and lwIP                                                     *)

(* esp_wifi_connect(): starts an attempt unless one is under way or the    *)
(* station is associated.  It may fail, and no caller looks at the result. *)
EspWifiConnect ==
  \/ /\ sta' = IF sta = "down" THEN "joining" ELSE sta
     /\ UNCHANGED connectErrors
  \/ /\ connectErrors < MaxConnectErrors
     /\ connectErrors' = connectErrors + 1
     /\ UNCHANGED sta

ApAccepts ==
  /\ sta = "joining"
  /\ sta' = "up"
  /\ dhcp' = TRUE
  /\ events' = Append(events, "STA_CONNECTED")
  /\ UNCHANGED <<addresses, apFaults, connectErrors, gotIpv4, gotIpv6>>

(* The access point refuses the station, or drops it.                      *)
ApFails ==
  /\ sta \in {"joining", "up"}
  /\ apFaults < MaxApFaults
  /\ apFaults' = apFaults + 1
  /\ sta' = "down" /\ addresses' = {}
  /\ events' = Append(events, "STA_DISCONNECTED")
  /\ UNCHANGED <<dhcp, connectErrors, gotIpv4, gotIpv6>>

(* DHCP leases an address; a router advertisement completes SLAAC, which   *)
(* needs the link-local address.                                           *)
GetsAddress(a) ==
  /\ sta = "up"
  /\ \/ a = "ipv4" /\ dhcp
     \/ a = "global" /\ "linklocal" \in addresses
  /\ a \notin addresses
  /\ addresses' = addresses \cup {a}
  /\ events' = Append(events, IF a = "ipv4" THEN "STA_GOT_IP" ELSE "GOT_IP6")
  /\ UNCHANGED <<sta, dhcp, apFaults, connectErrors, gotIpv4, gotIpv6>>

-----------------------------------------------------------------------------
(* wifi_link.cpp                                                           *)

(* STA_DISCONNECTED clears the bit of the configured family.               *)
ClearGotIp(family) ==
  IF family = "ipv6" THEN gotIpv6' = FALSE /\ UNCHANGED gotIpv4
  ELSE gotIpv4' = FALSE /\ UNCHANGED gotIpv6

(* wifi_event_handler().  esp_netif_create_ip6_linklocal() makes lwIP post *)
(* GOT_IP6 for the link-local address, as for any other.                   *)
WifiEventHandler(family) ==
  /\ events # <<>>
  /\ LET e == Head(events)
     IN  \/ /\ e = "STA_START"
            /\ EspWifiConnect
            /\ events' = Tail(events)
            /\ UNCHANGED <<addresses, dhcp, gotIpv4, gotIpv6>>
         \/ /\ e = "STA_CONNECTED"
            /\ IF family = "ipv6" /\ sta = "up"
               THEN /\ dhcp' = FALSE
                    /\ addresses' = addresses \cup {"linklocal"}
                    /\ events' = Append(Tail(events), "GOT_IP6")
               ELSE events' = Tail(events) /\ UNCHANGED <<dhcp, addresses>>
            /\ UNCHANGED <<sta, connectErrors, gotIpv4, gotIpv6>>
         \/ /\ e = "STA_DISCONNECTED"
            /\ ClearGotIp(family)
            /\ EspWifiConnect
            /\ events' = Tail(events)
            /\ UNCHANGED <<addresses, dhcp>>
         \/ /\ e = "STA_GOT_IP"
            /\ gotIpv4' = TRUE
            /\ events' = Tail(events)
            /\ UNCHANGED <<sta, addresses, dhcp, connectErrors, gotIpv6>>
         \/ /\ e = "GOT_IP6"
            /\ gotIpv6' = TRUE
            /\ events' = Tail(events)
            /\ UNCHANGED <<sta, addresses, dhcp, connectErrors, gotIpv4>>
  /\ UNCHANGED apFaults

(* refresh(): a reconnect kick                                             *)
WifiRefresh ==
  /\ EspWifiConnect
  /\ UNCHANGED <<addresses, dhcp, events, apFaults, gotIpv4, gotIpv6>>

(* waitForWifiReady(), once it has waited                                  *)
WifiReady(family) == IF family = "ipv6" THEN gotIpv6 ELSE gotIpv4

(* An address that reaches beyond the link                                 *)
WifiRoutes(family) ==
  sta = "up" /\ (IF family = "ipv6" THEN "global" ELSE "ipv4") \in addresses

(* readApLinkStats(): the RSSI of the access point, if associated          *)
ApLinkStats ==
  [parent |-> IF sta = "up" THEN "ap" ELSE "none", uplink |-> "none", deltas |-> FALSE]

WifiStackStep == ApAccepts \/ ApFails \/ \E a \in {"ipv4", "global"} : GetsAddress(a)

(* Every variable holds a value of its C++ type.                           *)
WifiTypeOK ==
  /\ sta \in {"down", "joining", "up"}
  /\ addresses \subseteq {"ipv4", "linklocal", "global"}
  /\ {dhcp, gotIpv4, gotIpv6} \subseteq BOOLEAN
  /\ events \in Seq({"STA_START", "STA_CONNECTED", "STA_DISCONNECTED",
                     "STA_GOT_IP", "GOT_IP6"})
=============================================================================
