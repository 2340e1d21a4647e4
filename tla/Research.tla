------------------------------ MODULE Research ------------------------------
(***************************************************************************)
(* The signal research (backend/src/research/) over the bars of Features:  *)
(* the direction signals and the magnitude filters, bar by bar; what a     *)
(* gated signal wins over the ungated one; and the sweep of the gate's     *)
(* threshold over sub-windows, the last of which is held out.              *)
(*                                                                         *)
(* NaN is a bar outside a function's domain, and an undefined improvement  *)
(* an empty set.  Magnitudes are whole percents, returns are hundredths of *)
(* one, and win rates twelfths: those of up to six trades are whole.       *)
(***************************************************************************)
EXTENDS Features

CONSTANTS Studies,            \* [members, agreeing, filter, thresholds, horizon, windows]
          MinAdx, MinFlow, MinVolume,
          RankWindow,         \* ROLLING_PERCENTILE_WINDOW
          MinTrades,          \* MIN_TRADES_FOR_COMPARISON
          MinRegimeTrades     \* MIN_TRADES_FOR_REGIME_CHECK

-----------------------------------------------------------------------------
(* direction_phase.py: a side for every bar. *)

Sides(w, up) == Listed([i \in DOMAIN w |-> IF i \in up THEN "UP" ELSE "DOWN"])

\* A bar without an opinion keeps the one before it.
HeldOver(w, fresh, first) ==
  LET side[i \in DOMAIN w] ==
        IF i \in DOMAIN fresh THEN fresh[i] ELSE IF i = 1 THEN first ELSE side[i - 1]
  IN  Listed(side)

EmaCompare(c, w) ==
  LET spread == MacdLine(w, c.fast, c.slow) IN Sides(w, {i \in DOMAIN w : spread[i] > 0})

SupertrendDirection(c, w) ==
  LET side == Direction(SuperTrend(w, c.trend, c.multiplier))
  IN  Sides(w, {i \in DOMAIN side : side[i] > 0})

AdxDirectionalRaw(c, w) ==
  LET plus  == Directional(w, c.adx, PlusDM(w))
      minus == Directional(w, c.adx, MinusDM(w))
  IN  Sides(w, {i \in DOMAIN plus : plus[i] > minus[i]})

AdxDirectionalGated(c, w) ==
  LET raw    == AdxDirectionalRaw(c, w)
      adx    == Adx(w, c.adx)
      strong == {1} \cup {i \in DOMAIN adx : adx[i] >= MinAdx}
  IN  HeldOver(w, [i \in strong |-> raw[i]], "DOWN")

\* Variant of the next definition: a pivot is known as soon as it is there.
KnownAtOnce(pivots, p, t) == {i \in pivots : i <= t}

\* A pivot is known once it is confirmed.
Known(pivots, p, t) == {i \in pivots : i + p <= t}

\* The production verdict on the pivots known at a bar, where there is one.
BiasVerdicts(w, p, highs, lows) ==
  LET verdict == Listed([t \in DOMAIN w |->
                           StructureBias(w, Known(highs, p, t), Known(lows, p, t))])
  IN  [t \in {i \in DOMAIN w : verdict[i] # 0} |-> IF verdict[t] = 1 THEN "UP" ELSE "DOWN"]

MarketStructureBias(c, w) ==
  HeldOver(w, BiasVerdicts(w, c.pivot, Pivots(w, c.pivot, "high"), Pivots(w, c.pivot, "low")),
           "UP")

VolumeOrderFlowDirection(c, w) ==
  LET cmf    == Cmf(w, c.flow)
      volume == VolumeRatio(w, c.flow)
      strong == {i \in DOMAIN cmf : volume[i] >= MinVolume /\ Magnitude(cmf[i]) >= MinFlow}
  IN  HeldOver(w, [i \in strong |-> IF cmf[i] > 0 THEN "UP" ELSE "DOWN"], "UP")

Directions == {"ema", "supertrend", "adx_raw", "adx_gated", "bias", "flow"}

DirectionSignal(c, w, name) ==
  CASE name = "ema"        -> EmaCompare(c, w)
    [] name = "supertrend" -> SupertrendDirection(c, w)
    [] name = "adx_raw"    -> AdxDirectionalRaw(c, w)
    [] name = "adx_gated"  -> AdxDirectionalGated(c, w)
    [] name = "bias"       -> MarketStructureBias(c, w)
    [] name = "flow"       -> VolumeOrderFlowDirection(c, w)

\* InsufficientDataError below this.
SignalNeeds(c, name) ==
  CASE name = "supertrend" -> 2 * c.trend
    [] name \in {"adx_raw", "adx_gated"} -> 2 * c.adx
    [] name = "flow" -> c.flow
    [] name \in {"ema", "bias"} -> 1

\* ensemble_phase.py: the side of the majority, if it is large enough.
MajoritySide(up, down, minAgreeing) ==
  CASE up >= minAgreeing /\ up > down   -> "UP"
    [] down >= minAgreeing /\ down > up -> "DOWN"
    [] OTHER -> "HOLD"

\* The base signal of a study; a candidate of phase 1 is a majority of one.
Votes(c, w, members) == Listed([m \in DOMAIN members |-> DirectionSignal(c, w, members[m])])

For(votes, i, side) == Cardinality({m \in DOMAIN votes : votes[m][i] = side})

Majority(w, votes, minAgreeing) ==
  Listed([i \in DOMAIN w |-> MajoritySide(For(votes, i, "UP"), For(votes, i, "DOWN"), minAgreeing)])

BaseSignal(c, w, members, minAgreeing) == Majority(w, Votes(c, w, members), minAgreeing)

-----------------------------------------------------------------------------
(* magnitude_phase.py *)

AtrPct(c, w) ==
  LET atr == Atr(w, c.rsi) IN [i \in DOMAIN atr |-> (100 * atr[i]) \div (Unit * w[i].close)]

BbWidthPct(c, w) ==
  LET middle == Sma(w, c.bands)
  IN  [i \in DOMAIN middle |-> (200 * c.std * Unit * Deviation(w, i, c.bands)) \div middle[i]]

\* The share of the window's values that the last one exceeds.
PercentileRank(x) ==
  [i \in {j \in DOMAIN x : (j - RankWindow + 1)..j \subseteq DOMAIN x} |->
     (100 * Cardinality({j \in (i - RankWindow + 1)..i : x[j] < x[i]})) \div RankWindow]

Magnitudes == {"atr_pct", "atr_rank", "bb_width", "bb_rank", "adx_level"}

MagnitudeFilter(c, w, name) ==
  CASE name = "atr_pct"   -> AtrPct(c, w)
    [] name = "atr_rank"  -> PercentileRank(AtrPct(c, w))
    [] name = "bb_width"  -> BbWidthPct(c, w)
    [] name = "bb_rank"   -> PercentileRank(BbWidthPct(c, w))
    [] name = "adx_level" -> Adx(w, c.adx)

FilterNeeds(c, name) ==
  CASE name \in {"bb_width", "bb_rank"} -> c.bands
    [] name = "adx_level" -> 2 * c.adx
    [] name \in {"atr_pct", "atr_rank"} -> 1

-----------------------------------------------------------------------------
(* signal_evaluator.py, classification_phase.py *)

\* compute_forward_targets: the return over the next h bars, where there are as many.
FwdRet(w, h) ==
  Listed([t \in 1..(Len(w) - h) |->
            Ratio(10000 * (w[t + h].close - w[t].close), w[t].close)])

\* _trade_pnls: what each active bar of the window gains, gated by the mask.
TradePnls(fwd, signal, mask) ==
  [i \in {j \in DOMAIN signal \cap DOMAIN fwd \cap mask : signal[j] # "HOLD"} |->
     IF signal[i] = "UP" THEN fwd[i] ELSE -fwd[i]]

Winners(pnls) == {i \in DOMAIN pnls : pnls[i] > 0}

\* Of _trade_stats_from_pnls what the verdicts read; nothing of no trades.
WinRate(pnls) ==
  IF DOMAIN pnls = {} THEN {}
  ELSE {(1200 * Cardinality(Winners(pnls))) \div Cardinality(DOMAIN pnls)}

Improvement(filtered, baseline) ==
  {f - b : f \in WinRate(filtered), b \in WinRate(baseline)}

\* _directional_win_rate: the bars whose side the return agrees with.
DirectionalWinRate(fwd, signal, mask) ==
  LET active == {i \in DOMAIN signal \cap DOMAIN fwd \cap mask : signal[i] # "HOLD"}
      right  == {i \in active : \/ signal[i] = "UP" /\ fwd[i] > 0
                                \/ signal[i] = "DOWN" /\ fwd[i] < 0}
  IN  IF active = {} THEN {} ELSE {(1200 * Cardinality(right)) \div Cardinality(active)}

\* evaluate_magnitude_gate, over the whole frame.
PassesThreshold(fwd, signal, filter, threshold) ==
  LET gate == {i \in DOMAIN filter : filter[i] >= threshold}
  IN  /\ Cardinality(DOMAIN TradePnls(fwd, signal, gate)) >= MinTrades
      /\ \E rate \in DirectionalWinRate(fwd, signal, gate),
            base \in DirectionalWinRate(fwd, signal, DOMAIN signal) : rate - base >= 24

-----------------------------------------------------------------------------
(* stability_phase.py: a candidate on each of several windows of the frame. *)

\* regime_label: the first bars have no ATR and count as normal.
RegimeLabel(c, w) ==
  LET spread == MacdLine(w, c.fast, c.slow)
      atr    == AtrPct(c, w)
      vol(i) == CASE i \notin DOMAIN atr -> "NORMAL"
                  [] i \in DOMAIN atr /\ atr[i] < c.low  -> "LOW"
                  [] i \in DOMAIN atr /\ atr[i] > c.high -> "HIGH"
                  [] OTHER -> "NORMAL"
      trend(i) == CASE spread[i] > 0 -> "UP" [] spread[i] < 0 -> "DOWN" [] OTHER -> "SIDEWAYS"
  IN  Listed([i \in DOMAIN w |-> <<trend(i), vol(i)>>])

\* split_into_sub_windows: the bars before the end of the i-th window of k.  There are
\* more bars than windows, so that none is empty.
Edge(n, k, i) == (i * n) \div k

\* The part in the i-th window of a column that may end early.
Slice(s, n, k, i) ==
  SubSeq(s, Edge(n, k, i - 1) + 1, IF Edge(n, k, i) > Len(s) THEN Len(s) ELSE Edge(n, k, i))

\* More than four fifths of the trades in one regime.
Concentrated(labels, active) ==
  LET share(r) == Cardinality({i \in active : labels[i] = r})
  IN  /\ Cardinality(active) >= MinRegimeTrades
      /\ \E r \in Range(labels) : 5 * share(r) > 4 * Cardinality(active)

SubWindowResult(signal, filter, fwd, labels, threshold) ==
  LET gated == TradePnls(fwd, signal, {i \in DOMAIN filter : filter[i] >= threshold})
  IN  [ungated      |-> Cardinality(DOMAIN TradePnls(fwd, signal, DOMAIN signal)),
       trades       |-> Cardinality(DOMAIN gated),
       improvement  |-> Improvement(gated, TradePnls(fwd, signal, DOMAIN signal)),
       concentrated |-> Concentrated(labels, DOMAIN gated)]

\* What a study works out from the bars of a frame or a window alone.
Readings(c, w, study) ==
  [signal |-> BaseSignal(c, w, study.members, study.agreeing),
   filter |-> MagnitudeFilter(c, w, study.filter),
   labels |-> RegimeLabel(c, w)]

\* evaluate_candidate_stability for every threshold.
Evaluate(own, fwd, thresholds) ==
  Listed([n \in DOMAIN thresholds |->
            SubWindowResult(own.signal, own.filter, fwd, own.labels, thresholds[n])])

\* The results of a window, by the number of the threshold.  The targets were computed
\* over the whole frame and are cut with it.
Results(c, w, fwd, k, study) ==
  Listed([i \in 1..k |->
            Evaluate(Readings(c, Slice(w, Len(w), k, i), study), Slice(fwd, Len(w), k, i),
                     study.thresholds)])

\* summarize_stability: a point better in two windows of three, and no regime alone.
PassesRepeatability(results, n) ==
  LET met == {i \in DOMAIN results : \E pp \in results[i][n].improvement : pp >= 12}
  IN  /\ 3 * Cardinality(met) >= 2 * Cardinality(DOMAIN results)
      /\ \A i \in DOMAIN results : ~results[i][n].concentrated

-----------------------------------------------------------------------------
(* sweep_percentile_thresholds *)

\* Variant of the next definition: the last window is trained on too.
TrainOnAll(results, k) == DOMAIN results

Train(results, k) == {i \in DOMAIN results : i < k}

\* An improvement that is not defined is below any other.
Below == -1000000

Score(pps) == IF pps = {} THEN Below ELSE CHOOSE pp \in pps : TRUE

\* The mean improvement over the windows with enough trades.
TrainScore(results, train, n) ==
  LET valid == {i \in train : results[i][n].improvement # {} /\ results[i][n].trades >= MinTrades}
  IN  IF valid = {} THEN Below
      ELSE MapThenSumSet(LAMBDA i : Score(results[i][n].improvement), valid)
             \div Cardinality(valid)

\* max: the first of the best.
FirstBest(score) ==
  CHOOSE n \in DOMAIN score :
    /\ \A m \in DOMAIN score : score[m] <= score[n]
    /\ \A m \in DOMAIN score : m < n => score[m] < score[n]

RankUnstable(results, train, thresholds, best) ==
  \E i \in train :
    LET score == [n \in thresholds |-> Score(results[i][n].improvement)]
    IN  (\E n \in thresholds : score[n] # Below) /\ FirstBest(score) # best

\* What is said of the chosen threshold in the window held out.
HoldoutVerdict(held) ==
  CASE held.trades < MinTrades \/ held.improvement = {} -> "not_evaluated"
    [] held.trades >= MinTrades /\ Score(held.improvement) >= 12 -> "confirmed"
    [] OTHER -> "failed"

\* The threshold by its number, 0 for none.
Sweep(results, thresholds, k, train) ==
  LET score == [n \in thresholds |-> TrainScore(results, train, n)]
      best  == FirstBest(score)
  IN  IF \A n \in thresholds : score[n] = Below
      THEN [best |-> 0, unstable |-> TRUE, verdict |-> "not_evaluated"]
      ELSE [best |-> best, unstable |-> RankUnstable(results, train, thresholds, best),
            verdict |-> HoldoutVerdict(results[k][best])]

SweepThresholds(results, study) ==
  Sweep(results, DOMAIN study.thresholds, study.windows, Train(results, study.windows))

-----------------------------------------------------------------------------
\* A column at the bars it had before and at those it has now.
Kept(Column(_)) ==
  LET f == [w \in {bars, bars'} |-> Column(w)] IN Continues(f[bars], f[bars'])

\* Bars that come later change no signal, filter, label or target of the bars before
\* them ("no bar ever sees a pivot before it would", direction_phase.py:83), and
\* no indicator or pivot of the cycles (see Unrevised).  The research knows no
\* configuration but that of the disk.
NothingLooksAhead ==
  [][ used = Yaml /\ Len(bars) < Len(bars') =>
        /\ Len(bars') <= Limit => Unrevised(bars, bars')
        /\ \A name \in Directions :
             Len(bars) >= SignalNeeds(Yaml, name) =>
               Kept(LAMBDA w : DirectionSignal(Yaml, w, name))
        /\ \A name \in Magnitudes :
             Len(bars) >= FilterNeeds(Yaml, name) =>
               Kept(LAMBDA w : MagnitudeFilter(Yaml, w, name))
        /\ Kept(LAMBDA w : RegimeLabel(Yaml, w))
        /\ \A h \in {study.horizon : study \in Studies} : Kept(LAMBDA w : FwdRet(w, h)) ]_vars

\* While no bar has left the cycles' window, the research sees in the newest bar what
\* a cycle under the same configuration saw: the regime, the side of the SuperTrend, and the bias where there is
\* one (stability_phase.py:59, direction_phase.py:4).
ResearchSeesCycle(k) ==
  LET seen == log[k].indicators
      side == [UP |-> 1, DOWN |-> -1]
  IN  /\ RegimeLabel(Yaml, bars)[k] = <<log[k].context.trend, log[k].context.volatility>>
      /\ "supertrend_direction" \in DOMAIN seen =>
           side[SupertrendDirection(Yaml, bars)[k]] = seen["supertrend_direction"]
      /\ "ms_bias" \in DOMAIN seen /\ seen["ms_bias"] # 0 =>
           side[MarketStructureBias(Yaml, bars)[k]] = seen["ms_bias"]

\* What looks at a cycle again sees what the cycle saw: a validation, a rebuild
\* (see LookbackSuffices) and the research (regime_label, DEFAULT_CANDIDATES).
SeenAlike ==
  /\ LookbackSuffices
  /\ phase = "trading" /\ used = Yaml /\ Len(bars) \in 1..Limit =>
       (log[Len(bars)].built => ResearchSeesCycle(Len(bars)))

-----------------------------------------------------------------------------
\* The frame with its bars from the n-th on replaced by copies of one of them.
Forgotten(w, n) == [i \in DOMAIN w |-> IF i < n THEN w[i] ELSE w[1]]

HoldoutBegins(k) == Edge(MaxBars, k, k - 1) + 1

\* The choice of a threshold, and whether its rank is stable.
Choice(verdict) == <<verdict.best, verdict.unstable>>

Judged(w, study) ==
  SweepThresholds(Results(Yaml, w, FwdRet(w, study.horizon), study.windows, study), study)

\* It owes nothing to the bars of the holdout beyond the horizon of the last trade
\* of the windows before.
ChosenBlind(study, n) ==
  Cardinality({Choice(Judged(w, study)) : w \in {bars, Forgotten(bars, n)}}) = 1

\* A signal with a side on every bar trades on every bar with a target, in one
\* window or another.
EveryTradeOnce(results, study) ==
  MapThenSumSet(LAMBDA i : results[i][1].ungated, DOMAIN results) = MaxBars - study.horizon

\* What phase 3 passes over the whole frame is repeatable on it as one window, unless
\* one regime has it all, and what it does not pass has no trades or too small an
\* improvement there.
Agrees(own, fwd, whole, threshold) ==
  IF PassesThreshold(fwd, own.signal, own.filter, threshold)
  THEN PassesRepeatability(<<whole>>, 1) \/ whole[1].concentrated
  ELSE whole[1].trades < MinTrades \/ \A pp \in whole[1].improvement : pp < 24

PhasesAgree(own, fwd, thresholds) ==
  \A n \in DOMAIN thresholds :
    Agrees(own, fwd, Evaluate(own, fwd, <<thresholds[n]>>), thresholds[n])

\* A candidate is judged on what could be known, and on all it did
\* (sweep_percentile_thresholds, split_into_sub_windows, evaluate_magnitude_gate).
FairlyJudged ==
  phase = "trading" /\ used = Yaml /\ Len(bars) = MaxBars =>
    \A study \in Studies :
      /\ ChosenBlind(study, HoldoutBegins(study.windows) + study.horizon)
      /\ Len(study.members) = 1 =>
           EveryTradeOnce(Results(Yaml, bars, FwdRet(bars, study.horizon), study.windows, study),
                          study)
      /\ PhasesAgree(Readings(Yaml, bars, study), FwdRet(bars, study.horizon), study.thresholds)

\* "the last sub-window is a holdout, touched only after a threshold is already chosen
\* from the earlier ones" (stability_phase.py:261-263).  The code does not keep
\* this: the targets of the last trained bars are closes of the holdout.
HoldoutUntouched ==
  phase = "trading" /\ Len(bars) = MaxBars =>
    \A study \in Studies : ChosenBlind(study, HoldoutBegins(study.windows))

\* "a bar's label here matches what the live/backtest MarketContext ... would say for
\* that bar" (stability_phase.py:58-59).  The code does not keep this in the windows
\* after the first: each is labelled from its own bars, as if none came before.
WindowsLabelledAlike ==
  phase = "trading" /\ Len(bars) = MaxBars =>
    \A k \in {study.windows : study \in Studies} : \A i \in 1..k :
      RegimeLabel(Yaml, Slice(bars, MaxBars, k, i)) = Slice(RegimeLabel(Yaml, bars), MaxBars, k, i)
=============================================================================
