------------------------------ MODULE MCLpCore ------------------------------
(***************************************************************************)
(* Instances of LpCore for TLC.  Two temperatures one change threshold     *)
(* apart, two humidities on either side of the high-RH threshold where the *)
(* heater matters.                                                         *)
(***************************************************************************)
EXTENDS LpCore

MCConfig(skip, offset, period, trigger) ==
  [f \in ConfigField |->
     CASE f = "sensor_samples"         -> 4
       [] f = "temp_offset_c"          -> 0
       [] f = "temp_min_change_c"      -> 1
       [] f = "rh_offset_pct"          -> offset
       [] f = "rh_min_change_pct"      -> 2
       [] f = "max_skip_cycles"        -> skip
       [] f = "heater_period_cycles"   -> period
       [] f = "high_rh_trigger_cycles" -> trigger]

\* No heater.
MCPlain == MCConfig(1, 0, 0, 0)
\* A heater run at every second good poll, and a change threshold above the
\* difference of the two temperatures.
MCCoarse == [MCConfig(1, 0, 2, 0) EXCEPT !["temp_min_change_c"] = 3]
\* No skip budget: every good poll is flagged.
MCTight == MCConfig(0, 0, 0, 0)
\* Creep mitigation after one poll above 90 %RH; a larger offset.
MCTuned == MCConfig(1, 5, 0, 1)
MCTunedSet == {MCTuned}
MCNone == {}
=============================================================================
