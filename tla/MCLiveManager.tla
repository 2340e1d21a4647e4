---------------------------- MODULE MCLiveManager ----------------------------
(***************************************************************************)
(* Values for the constants of LiveManager.                                *)
(***************************************************************************)
EXTENDS LiveManager

CONSTANTS a, b, hourly, daily

NoExperiment == {None}

\* Both jobs, or none named.
BothOrNone == {{hourly, daily}, {}}

OneDefault == {hourly}
=============================================================================
