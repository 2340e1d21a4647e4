---------------------------- MODULE SweepWindows ----------------------------
(***************************************************************************)
(* The periods a parameter sweep measures its trials on                    *)
(* (validation/optimization_windows.py, validation/walk_forward.py) and    *)
(* the bars a backtest of such a period trades (validation/job_runner.py,  *)
(* validation/harness.py).  Time is counted in bars from the first one; a  *)
(* ratio is a percentage.  A moment between two bars is rounded down,      *)
(* which no backtest can tell: it starts and ends at midnight.             *)
(***************************************************************************)
EXTENDS Naturals

CONSTANTS Day,   \* bars of a day
          Skip   \* compute_min_lookback_bars: one bar more than the longest period

ASSUME WindowsAssumption == Day \in Nat \ {0} /\ Skip \in Nat \ {0}

Period(from, to) == [from |-> from, to |-> to]

Share(p, percent) == p.from + ((p.to - p.from) * percent) \div 100

\* split_holdout, then split_train_test of what comes before the holdout.
Searched(p, holdout) == Period(p.from, Share(p, 100 - holdout))
HeldOut(p, holdout)  == Period(Searched(p, holdout).to, p.to)

TrainTest(p, ratio) ==
  [train |-> Period(p.from, Share(p, ratio)), test |-> Period(Share(p, ratio), p.to)]

\* Where fold i of n begins, and where it goes over from training to test.
Edge(p, n, i)        == p.from + ((p.to - p.from) * i) \div n
Turn(p, n, i, ratio) == p.from + ((p.to - p.from) * (100 * i + ratio)) \div (100 * n)

FixedWindows(p, n, ratio) ==
  [i \in 1..n |-> [train |-> Period(Edge(p, n, i - 1), Turn(p, n, i - 1, ratio)),
                   test  |-> Period(Turn(p, n, i - 1, ratio), Edge(p, n, i))]]

AnchoredWindows(p, n, ratio) ==
  [i \in 1..n |-> [train |-> Period(p.from, Turn(p, n, i - 1, ratio)),
                   test  |-> Period(Turn(p, n, i - 1, ratio), Edge(p, n, i))]]

Windows(p, mode, n, ratio) ==
  CASE n = 1                       -> <<TrainTest(p, ratio)>>
    [] n # 1 /\ mode = "anchored" -> AnchoredWindows(p, n, ratio)
    [] OTHER                       -> FixedWindows(p, n, ratio)

\* _run_trial passes dates, without their time of day, and both ends belong
\* to the range.  The first Skip bars only warm the indicators up.  Variant
\* first: they are traded as well.
Midnight(t) == t - (t % Day)

TradedAll(p) == Midnight(p.from)..Midnight(p.to)

Traded(p) == (Midnight(p.from) + Skip)..Midnight(p.to)

Runs(p) == Traded(p) # {}
=============================================================================
