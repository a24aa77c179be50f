----------------------------- MODULE MCTxPower ------------------------------
(***************************************************************************)
(* Instances of TxPower for TLC.  The uplink works from 0 dBm upwards;     *)
(* -15 dBm breaks it and -40 dBm is clamped to that.                       *)
(***************************************************************************)
EXTENDS TxPower

MCInRange == {-15, 0}
MCOutOfRange == {-40}
MCWorks == 0..TxMax
MCAll == TxMin..TxMax
=============================================================================
