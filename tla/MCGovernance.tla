----------------------------- MODULE MCGovernance -----------------------------
(***************************************************************************)
(* Values for the constants of Governance.                                 *)
(***************************************************************************)
EXTENDS Governance, TLC

CONSTANTS c1, c2, e1, r1, s1, s2

Outcome(valid, trades, std, regimes) ==
  [valid |-> valid, trades |-> trades, foldStd |-> std, foldMean |-> -20,
   regimes |-> regimes]

Split(up, down) == [regime \in {"up", "down"} |-> IF regime = "up" THEN up ELSE down]

\* One that passes with nothing to spare, and one that was not walked forward.
Good    == Outcome(TRUE, 20, 10, Split(16, 4))
NoFolds == Outcome(TRUE, 20, None, Split(16, 4))

GoodAndNot == {Good, NoFolds}

AnyPromotion == {"challenger", "champion", "archived"}
Alike == Permutations({s1, s2}) \cup Permutations({c1, c2})
=============================================================================
