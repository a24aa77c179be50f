--------------------------- MODULE MCSensorsTask ----------------------------
(***************************************************************************)
(* Instances of the delivery path for TLC.                                 *)
(***************************************************************************)
EXTENDS SensorsTask

MCConfig(skip, period) ==
  [f \in ConfigField |->
     CASE f = "sensor_samples"         -> 4
       [] f = "temp_offset_c"          -> 0
       [] f = "temp_min_change_c"      -> 1
       [] f = "rh_offset_pct"          -> 0
       [] f = "rh_min_change_pct"      -> 2
       [] f = "max_skip_cycles"        -> skip
       [] f = "heater_period_cycles"   -> period
       [] f = "high_rh_trigger_cycles" -> 0]

\* max_publish_gap_sec below one poll: every good poll is flagged.
MCEveryPoll == MCConfig(0, 0)
\* The same with a heater run at the second good poll.
MCEveryPollHeater == MCConfig(0, 2)
\* One skip, and a heater run at the second good poll.
MCSkipOneHeater == MCConfig(1, 2)
\* An unchanged value may be skipped once.
MCSkipOne == MCConfig(1, 0)
\* A live change to a much longer publish gap.
MCLongGap == {MCConfig(4, 0)}
MCNone == {}
=============================================================================
