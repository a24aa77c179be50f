--------------------------- MODULE MCMqttSession ----------------------------
(* Small instances of MqttSession for TLC.                                 *)
EXTENDS MqttSession

(* The battery group has two messages, the others one.                     *)
MCGroupMsgs == [g \in Groups |-> IF g = "batt" THEN 2 ELSE 1]
=============================================================================
