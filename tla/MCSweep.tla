------------------------------ MODULE MCSweep ------------------------------
(***************************************************************************)
(* Days of four bars, two bars of lookback.                                *)
(***************************************************************************)
EXTENDS Sweep

Outcome(trades, ret, dd, pf, score, up) ==
  [trades |-> trades, ret |-> ret, dd |-> dd, pf |-> pf, score |-> score, up |-> up, months |-> 2]

MCOutcomes == {Outcome(4, 2, 2, 2, 4, 2), Outcome(4, -2, 4, 0, 2, 0),
               Outcome(2, 4, 0, 4, 4, 1)}

Request(bars, holdout, mode, folds, max, topK, refine, search, parallel, space) ==
  [bars |-> bars, holdout |-> holdout, mode |-> mode, folds |-> folds, ratio |-> 60,
   max |-> max, topK |-> topK, refine |-> refine, search |-> search,
   parallel |-> parallel, space |-> space]

Switches == [trend |-> {0, 1}, rev |-> {0, 1}, sl |-> 1]
Steps    == [trend |-> {1}, rev |-> {0}, sl |-> 3]

MCRequests ==
  {Request(40, 20, "fixed", 1, 3, 2, FALSE, "grid", 2, Switches),
   Request(40, 20, "fixed", 1, 2, 2, TRUE, "grid", 1, Steps),
   Request(80, 30, "anchored", 2, 2, 1, FALSE, "grid", 2, Switches),
   Request(80, 0, "fixed", 2, 2, 1, FALSE, "optuna", 1, Switches),
   Request(40, 20, "fixed", 1, 2, 1, FALSE, "optuna", 2, Steps),
   Request(6, 20, "fixed", 1, 2, 1, FALSE, "grid", 2, Switches),
   Request(7, 0, "fixed", 1, 2, 1, FALSE, "grid", 2, Switches),
   Request(19, 10, "fixed", 1, 2, 1, FALSE, "grid", 2, Switches)}
=============================================================================
