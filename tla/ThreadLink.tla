----------------------------- MODULE ThreadLink -----------------------------
(***************************************************************************)
(* The Thread transport of the network link (net/openthread_link.cpp): the *)
(* event bits other tasks wait on, the NAT64 prefix an IPv4 broker is      *)
(* reached through, the data-poll period, and the link telemetry.          *)
(*                                                                         *)
(* The OpenThread stack is external.  It changes the role, the parent and  *)
(* the network data and owes one state-changed callback for any number of  *)
(* changes; the callback runs later, in the OpenThread task and under its  *)
(* lock, and reads what holds by then.  The device joins as a minimal      *)
(* Thread device, so it is never a router or a leader.                     *)
(*                                                                         *)
(* A code section that holds the OpenThread lock is one step.  The prefix  *)
(* is twelve plain bytes: writers hold the lock, its reader does not, so   *)
(* it is kept as two halves that a reader takes one after the other.       *)
(***************************************************************************)
EXTENDS Integers, FiniteSets

CONSTANTS
  Parents,   \* routers the device may attach to
  Prefixes,  \* NAT64 /96 prefixes the border routers may announce
  MaxMoves   \* bound: changes of the Thread network or of the Wi-Fi one

ASSUME ThreadAssumption ==
  /\ IsFiniteSet(Parents) /\ IsFiniteSet(Prefixes)
  /\ MaxMoves \in Nat

NoParent == "no parent"
WellKnown == "64:ff9b::/96"  \* the compiled default, announced by no router
None == "none"               \* UPLINK_RSSI_NONE, an absent optional

Whole(p) == [hi |-> p, lo |-> p]

VARIABLES
  \* the OpenThread stack
  role, parent,
  netData,   \* external routes: the NAT64 /96 prefix, and is there any other?
  probed,    \* the parent that holds our enhanced-ACK registration
  changed,   \* a state-changed callback is owed
  \* openthread_link.cpp
  attachedBit,        \* BIT_ATTACHED
  prefixBit, routeBit, \* BIT_PREFIX_KNOWN, BIT_ROUTE_KNOWN
  s_nat64_prefix,
  s_uplink_rssi_dbm,  \* which parent's report it holds
  s_prev_valid,       \* s_prev_counters.valid
  poll,               \* the data-poll period: which POLL_*_MS
  moves

otStack == <<role, parent, netData, probed, changed>>
threadBits == <<attachedBit, prefixBit, routeBit, s_nat64_prefix>>
threadVars == <<otStack, threadBits, s_uplink_rssi_dbm, s_prev_valid, poll>>

(* Of several NAT64 /96 routes the last one of a walk is the one that      *)
(* counts, and the order of a walk is that of the network data.            *)
NetData == [nat64 : Prefixes \cup {None}, other : BOOLEAN]
NoRoutes == [nat64 |-> None, other |-> FALSE]
AnyRoute(d) == d.nat64 # None \/ d.other

(* start() and configure_ot_network(): the event groups exist before the   *)
(* callback is registered, the poll period is slow, Thread is coming up.   *)
ThreadInit ==
  /\ role = "disabled" /\ parent = NoParent
  /\ netData = NoRoutes /\ probed = NoParent /\ changed = FALSE
  /\ attachedBit = FALSE /\ prefixBit = FALSE /\ routeBit = FALSE
  /\ s_nat64_prefix = Whole(WellKnown)
  /\ s_uplink_rssi_dbm = None /\ s_prev_valid = FALSE
  /\ poll = "slow"

(* The same after a restart of the chip.                                   *)
ThreadRestarts ==
  /\ role' = "disabled" /\ parent' = NoParent
  /\ netData' = NoRoutes /\ probed' = NoParent /\ changed' = FALSE
  /\ attachedBit' = FALSE /\ prefixBit' = FALSE /\ routeBit' = FALSE
  /\ s_nat64_prefix' = Whole(WellKnown)
  /\ s_uplink_rssi_dbm' = None /\ s_prev_valid' = FALSE
  /\ poll' = "slow"

-----------------------------------------------------------------------------
(* The OpenThread stack                                                    *)

Move == moves < MaxMoves /\ moves' = moves + 1 /\ changed' = TRUE

Attach(p) ==
  /\ role \in {"disabled", "detached"}
  /\ Move
  /\ role' = "child" /\ parent' = p
  /\ netData' \in NetData
  /\ UNCHANGED <<probed, threadBits, s_uplink_rssi_dbm, s_prev_valid, poll>>

(* Communication with the parent is lost.                                  *)
Detach ==
  /\ role = "child"
  /\ Move
  /\ role' = "detached" /\ parent' = NoParent /\ probed' = NoParent
  /\ UNCHANGED <<netData, threadBits, s_uplink_rssi_dbm, s_prev_valid, poll>>

(* The device moves to another parent and stays a child: the role is the   *)
(* same, its addresses are not.                                            *)
SwitchParent(p) ==
  /\ role = "child" /\ p # parent
  /\ Move
  /\ parent' = p
  /\ UNCHANGED <<role, netData, probed, threadBits, s_uplink_rssi_dbm,
                 s_prev_valid, poll>>

(* A border router announces, renumbers or withdraws its routes.           *)
NetDataChanges ==
  /\ role = "child"
  /\ Move
  /\ netData' \in NetData \ {netData}
  /\ UNCHANGED <<role, parent, probed, threadBits, s_uplink_rssi_dbm,
                 s_prev_valid, poll>>

(* enh_ack_report_cb(): the parent that holds the registration measures    *)
(* one of our frames.                                                      *)
EnhAckReport ==
  /\ role = "child" /\ probed = parent
  /\ s_uplink_rssi_dbm' = parent
  /\ UNCHANGED <<otStack, threadBits, s_prev_valid, poll, moves>>

-----------------------------------------------------------------------------
(* openthread_link.cpp under the OpenThread lock                           *)

(* The walk over the external routes that log_thread_network_info() and    *)
(* refresh_nat64_prefix() share, with setNat64Prefix(); bits are only ever *)
(* set.                                                                    *)
ScanRoutes ==
  /\ s_nat64_prefix' = IF netData.nat64 # None THEN Whole(netData.nat64)
                       ELSE s_nat64_prefix
  /\ prefixBit' = (prefixBit \/ netData.nat64 # None)
  /\ routeBit' = (routeBit \/ AnyRoute(netData))

(* register_enh_ack_probing(): a parent that is no Thread 1.2 device, or a *)
(* request that fails, leaves the reading absent.                          *)
RegisterEnhAckProbing ==
  /\ s_uplink_rssi_dbm' = None
  /\ probed' \in {parent, NoParent}

(* Mutant: the routes are read when the role changes, not with the data.   *)
MutProcessStateChange ==
  /\ changed
  /\ changed' = FALSE
  /\ \/ /\ role \in {"disabled", "detached"}
        /\ attachedBit' = FALSE
        /\ UNCHANGED <<prefixBit, routeBit, s_nat64_prefix, s_uplink_rssi_dbm,
                       probed>>
     \/ /\ role = "child"
        /\ IF attachedBit THEN UNCHANGED <<prefixBit, routeBit, s_nat64_prefix>>
           ELSE ScanRoutes
        /\ RegisterEnhAckProbing
        /\ attachedBit' = TRUE
  /\ UNCHANGED <<role, parent, netData, s_prev_valid, poll, moves>>

(* process_state_change()                                                  *)
ProcessStateChange ==
  /\ changed
  /\ changed' = FALSE
  /\ \/ /\ role \in {"disabled", "detached"}
        /\ attachedBit' = FALSE
        /\ UNCHANGED <<prefixBit, routeBit, s_nat64_prefix, s_uplink_rssi_dbm,
                       probed>>
     \/ /\ role = "child"
        /\ ScanRoutes
        /\ RegisterEnhAckProbing
        /\ attachedBit' = TRUE
  /\ UNCHANGED <<role, parent, netData, s_prev_valid, poll, moves>>

(* refresh_nat64_prefix(), called by the sensor task                       *)
RefreshNat64Prefix ==
  /\ ScanRoutes
  /\ UNCHANGED <<otStack, attachedBit, s_uplink_rssi_dbm, s_prev_valid, poll>>

(* read_link_stats(), its locked part: what is read of the parent, and     *)
(* whether there are deltas; the first call only sets the baseline.        *)
LockedStats ==
  [parent |-> IF role = "child" THEN parent ELSE None, uplink |-> None,
   deltas |-> s_prev_valid]

(* std::nullopt, or a set none of whose fields is present                  *)
NoStats == [parent |-> None, uplink |-> None, deltas |-> FALSE]

(* ... and what it returns once the uplink reading has been added.         *)
LinkStats(locked) ==
  IF locked.parent = None /\ ~locked.deltas THEN NoStats
  ELSE [locked EXCEPT !.uplink = s_uplink_rssi_dbm]

(* Mutant: a NAT64 prefix is waited for whatever the broker's address.     *)
MutThreadReachable(family) == prefixBit

(* waitForBrokerReachable(), once it has waited                            *)
ThreadReachable(family) == IF family = "ipv6" THEN routeBit ELSE prefixBit

(* Does the mesh route a packet to this address, now?                      *)
ThreadRoutes(family, uri) ==
  /\ role = "child"
  /\ IF family = "ipv6" THEN AnyRoute(netData)
     ELSE netData.nat64 # None /\ uri = Whole(netData.nat64)

ThreadStackStep ==
  \/ \E p \in Parents : Attach(p) \/ SwitchParent(p)
  \/ Detach \/ NetDataChanges \/ EnhAckReport

(* Every variable holds a value of its C++ type.                           *)
ThreadTypeOK ==
  /\ role \in {"disabled", "detached", "child"}
  /\ parent \in Parents \cup {NoParent}
  /\ netData \in NetData /\ probed \in Parents \cup {NoParent}
  /\ {changed, attachedBit, prefixBit, routeBit, s_prev_valid} \subseteq BOOLEAN
  /\ s_nat64_prefix \in [{"hi", "lo"} -> Prefixes \cup {WellKnown}]
  /\ s_uplink_rssi_dbm \in Parents \cup {None}
  /\ poll \in {"slow", "fast", "ota", "close"}
=============================================================================
