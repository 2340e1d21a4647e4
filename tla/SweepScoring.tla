---------------------------- MODULE SweepScoring ----------------------------
(***************************************************************************)
(* How a sweep scores its trials and chooses one                           *)
(* (validation/optimization_scoring.py).  An outcome of a backtest is its  *)
(* trades, its return and drawdown in percent, its score, its months and   *)
(* profitable months, and its profit factor; that one enters               *)
(* only the Pareto ranks, the other ratios nothing, and are left out.      *)
(* Composite scores are twentyfold, so that the weights are whole numbers. *)
(***************************************************************************)
EXTENDS Integers, Sequences, FiniteSets, Functions

CONSTANTS MinTrades, MinReturn, NoTrial, NoOutcome

\* The figures of a backtest, or of several put together.
Figures == [trades : Nat, months : Nat, up : Nat, ret : Int, dd : Int, pf : Int, score : Int]

ASSUME ScoringAssumption ==
  MinTrades \in Nat /\ MinReturn \in Int /\ NoOutcome \notin Figures

Rejected == -1000000  \* -inf

Total(outcomes, Field(_)) == SumFunction([i \in DOMAIN outcomes |-> Field(outcomes[i])])

Mean(outcomes, Field(_)) == Total(outcomes, Field) \div Len(outcomes)

\* _aggregate_fold_outcomes: trades are summed, months put together, the
\* rest is a mean over the folds.
Aggregate(outcomes) ==
  [trades |-> Total(outcomes, LAMBDA o : o.trades),
   months |-> Total(outcomes, LAMBDA o : o.months),
   up     |-> Total(outcomes, LAMBDA o : o.up),
   ret    |-> Mean(outcomes, LAMBDA o : o.ret),
   dd     |-> Mean(outcomes, LAMBDA o : o.dd),
   pf     |-> Mean(outcomes, LAMBDA o : o.pf),
   score  |-> Mean(outcomes, LAMBDA o : o.score)]

\* Ten times the standard deviation of the fold scores, twentyfold: with two
\* folds, as many as the bounds have, it is |a - b| / sqrt(2).
FoldPenalty(outcomes) ==
  IF Len(outcomes) < 2 THEN 0
  ELSE LET d == outcomes[1].score - outcomes[2].score
       IN  (IF d < 0 THEN -d ELSE d) * 141

Stability(o) == IF o.months = 0 THEN 0 ELSE (500 * o.up) \div o.months

Clamp(x, low, high) == IF x < low THEN low ELSE IF x > high THEN high ELSE x

Gated(o) == o.trades >= MinTrades /\ o.ret >= MinReturn

\* composite_score.  Variant first: the training return is not looked at.
CompositeOfTest(t) ==
  IF t.test = NoOutcome \/ ~Gated(t.test) THEN Rejected
  ELSE 12 * t.test.score + Stability(t.test) + 30 * Clamp(t.test.ret, -10, 10) - t.penalty

Composite(t) ==
  IF t.test = NoOutcome \/ ~Gated(t.test) \/ t.train.ret < MinReturn THEN Rejected
  ELSE 12 * t.test.score + Stability(t.test) + 30 * Clamp(t.test.ret, -10, 10) - t.penalty

\* assign_pareto_ranks: among all finalists, the rejected ones included.
Dominates(a, b) ==
  /\ a.test.ret >= b.test.ret
  /\ a.test.dd <= b.test.dd
  /\ a.test.pf >= b.test.pf
  /\ a.test.ret > b.test.ret \/ a.test.dd < b.test.dd \/ a.test.pf > b.test.pf

InFront(finalists, t) == \A i \in DOMAIN finalists : ~Dominates(finalists[i], t)

\* The first of those of the sequence at S with the largest key.
FirstMost(s, S, Key(_)) ==
  s[CHOOSE i \in S :
      \A j \in S : IF j < i THEN Key(s[j]) < Key(s[i]) ELSE Key(s[j]) <= Key(s[i])]

\* `composite_score or -inf`: a score of exactly zero counts as none.
Preference(t) == IF Composite(t) = 0 THEN Rejected ELSE Composite(t)

SelectBest(finalists) ==
  LET eligible == {i \in DOMAIN finalists : Composite(finalists[i]) > Rejected}
      front    == {i \in eligible : InFront(finalists, finalists[i])}
  IN  IF eligible = {} THEN NoTrial
      ELSE FirstMost(finalists, IF front = {} THEN eligible ELSE front, Preference)

TestTrades(t) == IF t.test = NoOutcome THEN 0 ELSE t.test.trades

Fallback(finalists) == FirstMost(finalists, DOMAIN finalists, TestTrades)

\* A set as a sequence: the k-th member has k - 1 before it.
InOrder(S, Before(_, _)) ==
  [k \in 1..Cardinality(S) |->
     CHOOSE x \in S : Cardinality({y \in S : Before(y, x)}) = k - 1]

\* sorted(..., key=train_score, reverse=True) keeps the order of equals.
Ranked(trials) ==
  LET order == InOrder(DOMAIN trials, LAMBDA i, j :
                 \/ trials[i].train.score > trials[j].train.score
                 \/ trials[i].train.score = trials[j].train.score /\ i < j)
  IN  [k \in DOMAIN order |-> trials[order[k]]]

FirstOf(s, n) == SubSeq(s, 1, IF n < Len(s) THEN n ELSE Len(s))
=============================================================================
