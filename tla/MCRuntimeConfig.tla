-------------------------- MODULE MCRuntimeConfig ---------------------------
(***************************************************************************)
(* Instances of RuntimeConfig for TLC.  The poll interval of 25 s divides  *)
(* neither a minute nor the gaps, so every conversion rounds.              *)
(***************************************************************************)
EXTENDS RuntimeConfig

MCYaml == [s \in Settings |-> IF s = "max_publish_gap_sec" THEN 40 ELSE 1]
MCGap(v) == [s |-> "max_publish_gap_sec", v |-> v]
MCHeater(v) == [s |-> "heater_period_minutes", v |-> v]

\* Zero, around two polls, above the maximum, and no number at all.
MCEdges == {MCGap(0), MCGap(49), MCGap(50), MCGap(30000), MCGap(-1),
            MCHeater(7), MCHeater(11000)}
=============================================================================
