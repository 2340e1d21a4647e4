----------------------------- MODULE Indicators -----------------------------
(***************************************************************************)
(* The indicators of the feature store (backend/src/features/indicators/)  *)
(* over a window of bars, oldest first.  A series is a function of the     *)
(* bars it has a value at: NaN is a bar outside its domain, and dropna is  *)
(* the domain.                                                             *)
(*                                                                         *)
(* Prices are in fractions of 1/Unit, so that the moving averages are      *)
(* whole; oscillators and ratios are whole percents.                       *)
(***************************************************************************)
EXTENDS Integers, FiniteSets, Sequences, SequencesExt

CONSTANT Unit

\* The same sequence, worked out once.
Listed(s) == SubSeq(s, 1, Len(s))

Close(w) == Listed([i \in DOMAIN w |-> Unit * w[i].close])

Magnitude(x) == IF x < 0 THEN -x ELSE x
\* Division towards zero, so that a sign only carries through.
Ratio(a, b) == IF a < 0 THEN -((-a) \div b) ELSE a \div b

From(first, s) == [i \in {j \in DOMAIN s : j >= first} |-> s[i]]
Highest(S) == Max(S)

\* A value of the domain's end, however old it is.
LastValid(s) == s[Highest(DOMAIN s)]

\* ewm(adjust=False).mean() with alpha = num / den.
Ewm(x, num, den) ==
  LET y[i \in DOMAIN x] ==
        IF i = 1 THEN x[1] ELSE ((den - num) * y[i - 1] + num * x[i]) \div den
  IN  Listed(y)

Span(x, period)   == Ewm(x, 2, period + 1)
Wilder(x, period) == Ewm(x, 1, period)

\* rolling(period).sum()
Rolling(x, period) ==
  LET t[i \in DOMAIN x] == x[i] + (IF i = 1 THEN 0 ELSE t[i - 1])
      total == Listed(t)
  IN  [i \in period..Len(x) |-> total[i] - (IF i = period THEN 0 ELSE total[i - period])]

-----------------------------------------------------------------------------
TrueRange(w) ==
  LET range(h, l, c) == Highest({h - l, Magnitude(h - c), Magnitude(l - c)})
  IN  Listed([i \in DOMAIN w |->
                Unit * (IF i = 1 THEN w[1].high - w[1].low
                        ELSE range(w[i].high, w[i].low, w[i - 1].close))])

Atr(w, period) == From(period, Wilder(TrueRange(w), period))

\* The first bar has no delta; without any loss there is no RSI.
Rsi(w, period) ==
  LET delta  == Listed([i \in 1..(Len(w) - 1) |-> Unit * (w[i + 1].close - w[i].close)])
      gain   == Wilder([i \in DOMAIN delta |-> IF delta[i] > 0 THEN delta[i] ELSE 0], period)
      loss   == Wilder([i \in DOMAIN delta |-> IF delta[i] < 0 THEN -delta[i] ELSE 0], period)
      valid  == {i \in DOMAIN w : i > period /\ loss[i - 1] # 0}
  IN  [i \in valid |-> 100 - (100 * loss[i - 1]) \div (loss[i - 1] + gain[i - 1])]

Sma(w, period) ==
  LET sum == Rolling(Close(w), period) IN [i \in DOMAIN sum |-> sum[i] \div period]

MacdLine(w, fast, slow) ==
  LET above == Span(Close(w), fast)
      below == Span(Close(w), slow)
  IN  Listed([i \in DOMAIN w |-> above[i] - below[i]])

MacdHistogram(w, fast, slow, signal) ==
  LET line == MacdLine(w, fast, slow)
      avg  == Span(line, signal)
  IN  Listed([i \in DOMAIN w |-> line[i] - avg[i]])

\* The event of crossing, not the state of being above.
EmaCross(w, fast, slow) ==
  LET spread == MacdLine(w, fast, slow)
      now    == spread[Len(w)]
      before == spread[Len(w) - 1]
  IN  CASE before <= 0 /\ now > 0 -> 1
        [] before >= 0 /\ now < 0 -> -1
        [] OTHER                  -> 0

\* Whole part of the sample deviation of the last bars.
Deviation(w, i, period) ==
  LET x   == [j \in 1..period |-> w[i - period + j].close]
      sum == Rolling(x, period)[period]
      sq  == Rolling([j \in 1..period |-> x[j] * x[j]], period)[period]
      var == (period * sq - sum * sum) \div (period * (period - 1))
  IN  CHOOSE d \in 0..(var + 1) : d * d <= var /\ (d + 1) * (d + 1) > var

Bollinger(w, period, std, sign) ==
  LET middle == Sma(w, period)
  IN  [i \in DOMAIN middle |-> middle[i] + sign * std * Unit * Deviation(w, i, period)]

-----------------------------------------------------------------------------
(* adx.py *)

PlusDM(w) ==
  [i \in DOMAIN w |->
     LET up   == Unit * (w[i].high - w[i - 1].high)
         down == Unit * (w[i - 1].low - w[i].low)
     IN  IF i > 1 /\ up > down /\ up > 0 THEN up ELSE 0]

\* Variant of the next definition: a fall counts whatever the rise.
MinusDMAlone(w) ==
  [i \in DOMAIN w |->
     LET down == Unit * (w[i - 1].low - w[i].low)
     IN  IF i > 1 /\ down > 0 THEN down ELSE 0]

MinusDM(w) ==
  [i \in DOMAIN w |->
     LET up   == Unit * (w[i].high - w[i - 1].high)
         down == Unit * (w[i - 1].low - w[i].low)
     IN  IF i > 1 /\ down > up /\ down > 0 THEN down ELSE 0]

\* 100 times the smoothed movement over the ATR, where that is not zero.
Directional(w, period, dm) ==
  LET atr    == Atr(w, period)
      smooth == Wilder(dm, period)
      valid  == {i \in DOMAIN atr : atr[i] # 0}
  IN  [i \in valid |-> (100 * smooth[i]) \div atr[i]]

\* What has no DX counts as zero, the warm-up included.
Adx(w, period) ==
  LET plus  == Directional(w, period, PlusDM(w))
      minus == Directional(w, period, MinusDM(w))
      dx(i) == IF i \notin DOMAIN plus \/ plus[i] + minus[i] = 0 THEN 0
               ELSE (100 * Magnitude(plus[i] - minus[i])) \div (plus[i] + minus[i])
  IN  From(period, Wilder(Listed([i \in DOMAIN w |-> dx(i)]), period))

-----------------------------------------------------------------------------
(* supertrend.py: one pass over the bars that have an ATR. *)

SuperTrendStep(w, atr, multiplier, first, before, i) ==
  LET close == Unit * w[i].close
      prior == Unit * w[i - 1].close
      mid   == (Unit * (w[i].high + w[i].low)) \div 2
      bu    == mid + multiplier * atr[i]
      bl    == mid - multiplier * atr[i]
      ub    == IF ~first /\ bu >= before.ub /\ prior <= before.ub THEN before.ub ELSE bu
      lb    == IF ~first /\ bl <= before.lb /\ prior >= before.lb THEN before.lb ELSE bl
      up    == IF before.up THEN i = 1 \/ close >= lb ELSE close > ub
  IN  [ub |-> ub, lb |-> lb, up |-> up,
       outside |-> before.outside \/ close > ub \/ close < lb]

Unflipped == [up |-> TRUE, outside |-> FALSE, ub |-> 0, lb |-> 0]

\* Variant of the next definition: the bands follow the bar.
SuperTrendLoose(w, period, multiplier) ==
  LET atr == Atr(w, period)
      t[i \in DOMAIN atr] ==
        SuperTrendStep(w, atr, multiplier, TRUE, IF i = period THEN Unflipped ELSE t[i - 1], i)
  IN  t

\* The trend is up until a close says otherwise.
SuperTrend(w, period, multiplier) ==
  LET atr == Atr(w, period)
      t[i \in DOMAIN atr] ==
        IF i = period THEN SuperTrendStep(w, atr, multiplier, TRUE, Unflipped, i)
        ELSE SuperTrendStep(w, atr, multiplier, FALSE, t[i - 1], i)
  IN  t

Line(t)      == [i \in DOMAIN t |-> IF t[i].up THEN t[i].lb ELSE t[i].ub]
Direction(t) == [i \in DOMAIN t |-> IF t[i].up THEN 1 ELSE -1]

-----------------------------------------------------------------------------
(* volume_flow.py *)

\* A bar without a range flows nowhere.
FlowVolume(w) ==
  [i \in DOMAIN w |->
     LET range == w[i].high - w[i].low
     IN  IF range = 0 THEN 0
         ELSE Ratio(100 * w[i].volume * (2 * w[i].close - w[i].low - w[i].high), range)]

Volume(w) == [i \in DOMAIN w |-> w[i].volume]

Cmf(w, period) ==
  LET flow == Rolling(FlowVolume(w), period)
      sum  == Rolling(Volume(w), period)
      valid == {i \in DOMAIN sum : sum[i] # 0}
  IN  [i \in valid |-> Ratio(flow[i], sum[i])]

VolumeRatio(w, period) ==
  LET sum == Rolling(Volume(w), period)
      valid == {i \in DOMAIN sum : sum[i] # 0}
  IN  [i \in valid |-> (100 * period * w[i].volume) \div sum[i]]

-----------------------------------------------------------------------------
(* market_structure.py *)

AtLeastAs(name, a, b) == IF name = "high" THEN a.high >= b.high ELSE a.low <= b.low

\* _find_confirmed_pivots: the extreme of the p bars on either side.
Pivots(w, p, name) ==
  {i \in (p + 1)..(Len(w) - p) : \A j \in (i - p)..(i + p) : AtLeastAs(name, w[i], w[j])}

LastTwo(w, S, name) ==
  LET last == Highest(S) IN <<w[Highest(S \ {last})][name], w[last][name]>>

StructureBias(w, highs, lows) ==
  IF Cardinality(highs) < 2 \/ Cardinality(lows) < 2 THEN 0
  ELSE LET h == LastTwo(w, highs, "high")
           l == LastTwo(w, lows, "low")
       IN  CASE h[2] > h[1] /\ l[2] > l[1] -> 1
             [] h[2] < h[1] /\ l[2] < l[1] -> -1
             [] OTHER                      -> 0

\* The close is beyond the last pivot.
Broken(w, p, name) ==
  LET S == Pivots(w, p, name)
  IN  /\ S # {}
      /\ Last(w).close # w[Highest(S)][name]
      /\ (name = "high") <=> (Last(w).close > w[Highest(S)][name])

\* Above the last high is asked first.
StructureBos(w, p) ==
  CASE Broken(w, p, "high")                              -> 1
    [] ~Broken(w, p, "high") /\ Broken(w, p, "low")     -> -1
    [] OTHER                                           -> 0
=============================================================================
