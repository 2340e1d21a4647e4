----------------------------- MODULE MCFeatures -----------------------------
(***************************************************************************)
(* Values for the constants of Research and Features: three bars about a   *)
(* price of 20: a wide one, one above, and one below without range or      *)
(* volume; short periods: averages are whole in fractions of 2^5 3^6.      *)
(***************************************************************************)
EXTENDS Research

Bar(h, l, c, v) == [high |-> h, low |-> l, close |-> c, volume |-> v]

MCBars == {Bar(26, 14, 20, 2), Bar(25, 23, 24, 1), Bar(16, 16, 16, 0)}

MCYaml == [rsi |-> 2, fast |-> 1, slow |-> 2, signal |-> 2, sma |-> 3, bands |-> 2, std |-> 2,
         adx |-> 2, trend |-> 2, multiplier |-> 1, flow |-> 2, pivot |-> 1,
         low |-> 15, high |-> 25, hash |-> "disk"]

MCConfigs == {MCYaml, [MCYaml EXCEPT !.adx = 1, !.hash = "edited"]}

\* As the preset managed_long_core adds an average over more bars than the disk looks
\* back on, and as a trial may ask for a slower one.
MCGiven == {[MCYaml EXCEPT !.sma = 7, !.hash = "preset"],
            [MCYaml EXCEPT !.slow = 8, !.hash = "trial"]}

\* Three windows of two, two and three bars, or two of three and four.
Study(members, agreeing, filter, thresholds, horizon, windows) ==
  [members |-> members, agreeing |-> agreeing, filter |-> filter, thresholds |-> thresholds,
   horizon |-> horizon, windows |-> windows]

MCStudies ==
  {Study(<<"ema">>, 1, "atr_pct", <<30, 45, 60>>, 1, 3),
   Study(<<"flow">>, 1, "bb_width", <<20, 60>>, 2, 3),
   Study(<<"ema", "flow", "bias">>, 2, "atr_rank", <<50, 25>>, 1, 2)}
=============================================================================
