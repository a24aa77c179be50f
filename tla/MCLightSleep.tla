---------------------------- MODULE MCLightSleep ----------------------------
(***************************************************************************)
(* Instances of LightSleep for TLC.                                        *)
(***************************************************************************)
EXTENDS LightSleep

\* Two values of one die temperature and one of another, beyond the limit.
MCPeriods == {1000, 1010, 1100}
MCBands == {{1000, 1010}, {1100}}

\* Off, one, some, and more than the ring holds.
MCRequests == {0, 1, 2, 7}
MCPeriodSecs == {0, 10}
=============================================================================
