---------------------------- MODULE MCOtaUpdater ----------------------------
(* Small instances of OtaUpdater for TLC.                                  *)
EXTENDS OtaUpdater

(* Three chunks each with chunk size 2, the last of one being shorter.     *)
MCSize == [i \in Images |-> CASE i = "a" -> 5 [] i = "b" -> 6 [] OTHER -> 1]
=============================================================================
