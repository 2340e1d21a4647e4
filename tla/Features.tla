------------------------------ MODULE Features ------------------------------
(***************************************************************************)
(* The feature builder over a growing history of bars, and the check of a  *)
(* stored feature set against one rebuilt later                            *)
(* (backend/src/features/builder.py, replay/feature_rebuild.py).           *)
(*                                                                         *)
(* First each bar is followed by a cycle, which reads the last Limit bars, *)
(* builds the features and stores them with the hash of the configuration: *)
(* that of the disk, or one the run was given (job_runner.py:218).  Then   *)
(* they are looked at again, from the bars the file holds by then and      *)
(* under the configuration the disk holds by then.                         *)
(***************************************************************************)
EXTENDS Indicators

CONSTANTS Bars,            \* the bars the market may print
          Yaml, Configs,   \* features.yaml, and what it may be edited to
          Given,           \* what a preset or a trial may give a run instead
          Limit,           \* bars a cycle reads
          Margin,          \* bars a rebuild reads beyond the lookback
          DefaultPeriod,   \* the period of an indicator that names none
          MaxBars,         \* bound: bars of a run
          Mid,             \* the price the market is turned around
          Redone,          \* bound: the bars that may be downloaded anew
          Reviewed         \* bound: the cycles that are looked at again

VARIABLES bars,      \* the bars of the CSV
          config,    \* the configuration on disk
          used,      \* the configuration the cycles build with
          log,       \* FEATURE_SET_BUILT of each cycle, or that it raised
          phase,     \* "trading", "review"
          drift      \* the answer of the last rebuild

vars == <<bars, config, used, log, phase, drift>>

NoDrift == [detected |-> FALSE, of |-> 0]

Latest(s, n) == SubSeq(s, IF Len(s) > n THEN Len(s) - n + 1 ELSE 1, Len(s))

-----------------------------------------------------------------------------
(* The indicators by name: the bars each asks for, and its series. *)

MacdNames  == {"macd", "macd_signal", "macd_histogram", "macd_histogram_slope"}
AdxNames   == {"adx", "plus_di", "minus_di"}
BandNames  == {"bb_upper", "bb_lower", "bb_middle"}
TrendNames == {"supertrend", "supertrend_direction"}
FlowNames  == {"cmf", "volume_ratio"}
StructureNames == {"ms_bias", "ms_bos"}

Indicators == MacdNames \cup AdxNames \cup BandNames \cup TrendNames \cup FlowNames
                \cup StructureNames
                \cup {"rsi", "ema_fast", "ema_slow", "ema_cross", "atr", "sma", "close_delta"}

\* InsufficientDataError below this.
MinBars(c, name) ==
  CASE name \in MacdNames      -> c.slow + c.signal + (IF name = "macd_histogram_slope" THEN 1 ELSE 0)
    [] name \in AdxNames       -> 2 * c.adx
    [] name \in BandNames      -> c.bands
    [] name \in TrendNames     -> 2 * c.trend
    [] name \in FlowNames      -> c.flow
    [] name \in StructureNames -> 4 * c.pivot + 1
    [] name \in {"rsi", "atr"} -> c.rsi + 1
    [] name = "sma"            -> c.sma
    [] name = "ema_fast"       -> c.fast
    [] name = "ema_slow"       -> c.slow
    [] name = "ema_cross"      -> c.slow + 1
    [] name = "close_delta"    -> 2

Nth(n, w) == [i \in {n} |-> w]

\* What is read is the last value of it.
Series(c, name, w) ==
  LET n     == Len(w)
      hist  == MacdHistogram(w, c.fast, c.slow, c.signal)
      trend == SuperTrend(w, c.trend, c.multiplier)
  IN CASE name = "rsi"            -> Rsi(w, c.rsi)
       [] name = "atr"            -> Atr(w, c.rsi)
       [] name = "sma"            -> Sma(w, c.sma)
       [] name = "ema_fast"       -> Span(Close(w), c.fast)
       [] name = "ema_slow"       -> Span(Close(w), c.slow)
       [] name = "ema_cross"      -> Nth(n, EmaCross(w, c.fast, c.slow))
       [] name = "macd"           -> MacdLine(w, c.fast, c.slow)
       [] name = "macd_signal"    -> Span(MacdLine(w, c.fast, c.slow), c.signal)
       [] name = "macd_histogram" -> hist
       [] name = "macd_histogram_slope" -> Nth(n, hist[n] - hist[n - 1])
       [] name = "bb_upper"       -> Bollinger(w, c.bands, c.std, 1)
       [] name = "bb_middle"      -> Bollinger(w, c.bands, c.std, 0)
       [] name = "bb_lower"       -> Bollinger(w, c.bands, c.std, -1)
       [] name = "adx"            -> Adx(w, c.adx)
       [] name = "plus_di"        -> Directional(w, c.adx, PlusDM(w))
       [] name = "minus_di"       -> Directional(w, c.adx, MinusDM(w))
       [] name = "supertrend"     -> Line(trend)
       [] name = "supertrend_direction" -> Direction(trend)
       [] name = "cmf"            -> Cmf(w, c.flow)
       [] name = "volume_ratio"   -> VolumeRatio(w, c.flow)
       [] name = "close_delta"    -> Nth(n, Unit * (w[n].close - w[n - 1].close))
       [] name = "ms_bias"        -> Nth(n, StructureBias(w, Pivots(w, c.pivot, "high"), Pivots(w, c.pivot, "low")))
       [] name = "ms_bos"         -> Nth(n, StructureBos(w, c.pivot))

\* DefaultFeatureBuilder.build: what lacks bars, or has no valid value, is left out.
LastValues(series) ==
  [name \in {n \in DOMAIN series : DOMAIN series[n] # {}} |-> LastValid(series[name])]

Computed(c, w) ==
  LastValues([name \in {n \in Indicators : Len(w) >= MinBars(c, n)} |-> Series(c, name, w)])

Flags(ind) ==
  [ema_cross_bullish |-> ind["ema_cross"] > 0, ema_cross_bearish |-> ind["ema_cross"] < 0,
   macd_bullish |-> ind["macd"] > ind["macd_signal"],
   macd_bearish |-> ind["macd"] < ind["macd_signal"]]

\* ContextDeriver.derive, the session left out.
Context(c, ind, close) ==
  LET atrPct == IF close = 0 THEN 0 ELSE (100 * ind["atr"]) \div close
  IN  [trend |-> CASE ind["ema_fast"] > ind["ema_slow"] -> "UP"
                   [] ind["ema_fast"] < ind["ema_slow"] -> "DOWN"
                   [] OTHER -> "SIDEWAYS",
       atr |-> ind["atr"],
       volatility |-> CASE atrPct < c.low -> "LOW" [] atrPct > c.high -> "HIGH" [] OTHER -> "NORMAL"]

\* Flags and context ask for these by name, and a missing one is a KeyError.
Asked == {"ema_cross", "macd", "macd_signal", "ema_fast", "ema_slow", "atr"}

FeatureSet(c, ind, close) ==
  IF Asked \subseteq DOMAIN ind
  THEN [built |-> TRUE, indicators |-> ind, flags |-> Flags(ind),
        context |-> Context(c, ind, close), hash |-> c.hash]
  ELSE [built |-> FALSE, indicators |-> ind]

Build(c, w) == FeatureSet(c, Computed(c, w), Last(Close(w)))

-----------------------------------------------------------------------------
(* validation/lookback.py: the cycles a validation skips. *)

Needed(c, name) ==
  CASE name \in MacdNames      -> c.slow + c.signal + (IF name = "macd_histogram_slope" THEN 1 ELSE 0)
    [] name \in AdxNames       -> 2 * c.adx
    [] name \in BandNames      -> c.bands
    [] name \in TrendNames     -> 2 * c.trend
    [] name \in FlowNames      -> c.flow
    [] name \in StructureNames -> 4 * c.pivot + 1
    [] name = "close_delta"    -> 2
    [] name \in {"rsi", "atr"} -> c.rsi
    [] name = "sma"            -> c.sma
    [] name = "ema_fast"       -> c.fast
    [] name = "ema_slow"       -> c.slow
    [] name = "ema_cross"      -> DefaultPeriod

\* Variant of the next definition: the period is taken for the bars it needs.
LookbackOfPeriods(c) == Highest({c.slow, c.signal, c.adx, c.bands, c.trend, c.flow, c.pivot}) + 1

Lookback(c) == Highest({Needed(c, name) : name \in Indicators}) + 1

\* The limit of a rebuild is never below that of a cycle.
RebuildLimit(c) == Highest({Lookback(c) + Margin, Limit})

\* compare_features: the names whose values differ or are on one side only.
Differing(a, b) ==
  {k \in DOMAIN a \cup DOMAIN b : k \notin DOMAIN a \/ k \notin DOMAIN b \/ a[k] # b[k]}

\* _detect_feature_drift; a rebuild that fails finds nothing.
Drift(event, again) ==
  LET differ == IF ~again.built THEN {}
                ELSE Differing(event.indicators, again.indicators)
                       \cup Differing(event.flags, again.flags)
  IN  [differ |-> differ, detected |-> differ # {} \/ event.hash # config.hash]

-----------------------------------------------------------------------------
Init ==
  /\ bars = <<>> /\ log = <<>>
  /\ config = Yaml
  /\ used \in {Yaml} \cup Given
  /\ phase = "trading" /\ drift = NoDrift

\* A bar closes and the cycle builds its features.
Cycle ==
  /\ phase = "trading" /\ Len(bars) < MaxBars
  /\ \E bar \in Bars : bars' = Append(bars, bar)
  /\ log' = Append(log, Build(used, Latest(bars', Limit)))
  /\ UNCHANGED <<config, used, phase, drift>>

\* Between trading and review a bar may have been downloaded anew, or the
\* configuration edited, or neither.
Review ==
  /\ phase = "trading" /\ Len(bars) = MaxBars
  /\ phase' = "review"
  /\ \/ \E i \in Redone, bar \in Bars :
          bars' = [bars EXCEPT ![i] = bar] /\ UNCHANGED config
     \/ config' \in Configs /\ UNCHANGED bars
  /\ UNCHANGED <<used, log, drift>>

\* The cycle of the k-th bar, from the bars up to its event time.
Rebuild ==
  /\ phase = "review" /\ drift = NoDrift
  /\ \E k \in Reviewed :
       /\ log[k].built
       /\ drift' = Drift(log[k], Build(config, Latest(SubSeq(bars, 1, k), RebuildLimit(config))))
                     @@ [of |-> k]
  /\ UNCHANGED <<bars, config, used, log, phase>>

Next == Cycle \/ Review \/ Rebuild

Spec == Init /\ [][Next]_vars

-----------------------------------------------------------------------------
WithSeries == Indicators \ (StructureNames \cup {"ema_cross", "macd_histogram_slope", "close_delta"})

Continues(old, new) == \A i \in DOMAIN old : i \in DOMAIN new /\ new[i] = old[i]

\* What an indicator said of a bar it goes on saying when the next ones are there, and
\* a confirmed pivot stays one.
Unrevised(old, new) ==
  /\ \A name \in WithSeries :
       Len(old) >= MinBars(config, name) =>
         Continues(Series(config, name, old), Series(config, name, new))
  /\ \A name \in {"high", "low"} :
       Pivots(old, config.pivot, name) \subseteq Pivots(new, config.pivot, name)

\* Where a bar's close leaves the line on its side, and the direction lasts, the line of
\* the next bar does not give way.
Trails(w, line, side) ==
  LET Holds(i) == side[i] * (Unit * w[i].close - line[i]) >= 0
      Lasts(i) == i - 1 \in DOMAIN line /\ side[i - 1] = side[i]
  IN  /\ \A i \in DOMAIN line :
           Lasts(i) => Holds(i) /\ (Holds(i - 1) => side[i] * (line[i] - line[i - 1]) >= 0)
      /\ 2 * used.multiplier >= used.trend => \A i \in DOMAIN line : Holds(i)

\* The line of a SuperTrend is a trailing stop: while the direction lasts no close is
\* beyond it and it never gives way.  The bar that turns the direction may itself close
\* beyond the new line, and the line then gives way once: but only where one bar can leave
\* bands it has widened, which takes a period of more than twice the multiplier.
\* (supertrend.py)
StopTrails ==
  phase = "trading" /\ Len(bars) >= 2 * used.trend =>
    LET w == Latest(bars, Limit)
        OfTrend(trend) == Trails(w, Line(trend), Direction(trend))
    IN  OfTrend(SuperTrend(w, used.trend, used.multiplier))

\* Past the bars a validation skips, an indicator is left out only if it divides by
\* something that may be zero, or asks for more bars than are skipped; and no cycle
\* fails but for want of one of the latter.  With the configuration of the disk there
\* are none of them.
WarmUpSuffices ==
  LET short == {name \in Indicators : MinBars(used, name) > Lookback(config)}
      zero  == {"rsi"} \cup AdxNames \cup FlowNames
  IN  phase = "trading" =>
        /\ \A k \in DOMAIN log :
             k > Lookback(config) =>
               /\ log[k].built \/ short \cap Asked # {}
               /\ Indicators \ (short \cup zero) \subseteq DOMAIN log[k].indicators
        /\ used = config => short = {}

\* "Minimum prior bars required before the first validation cycle." (lookback.py:7).
\* The code does not keep this: the bars skipped are those of features.yaml, whatever
\* configuration the run was given.
SkippedForUsed == Lookback(config) >= Lookback(used)

\* A validation skips, and a replay reads, the bars the configuration on disk looks
\* back on (compute_min_lookback_bars).  They suffice: see WarmUpSuffices; and drift is
\* reported exactly when the configuration is another, or the bars the cycle read
\* would now give it something else (replay/feature_rebuild.py: "Feature Store:
\* replay without drift").
LookbackSuffices ==
  /\ WarmUpSuffices
  /\ drift.of # 0 =>
       LET event == log[drift.of]
           now   == Build(config, Latest(SubSeq(bars, 1, drift.of), Limit))
       IN  drift.detected <=> event.hash # config.hash \/ now # event

-----------------------------------------------------------------------------
(* The market upside down around Mid. *)

Flip(bar, mid) ==
  [bar EXCEPT !.high = 2 * mid - bar.low, !.low = 2 * mid - bar.high,
              !.close = 2 * mid - bar.close]

Turned == [bb_upper |-> "bb_lower", bb_lower |-> "bb_upper",
           plus_di |-> "minus_di", minus_di |-> "plus_di"]

Counterpart(name) == IF name \in DOMAIN Turned THEN Turned[name] ELSE name

MirrorValue(name, v, mid) ==
  CASE name \in {"ema_fast", "ema_slow", "sma", "supertrend"} \cup BandNames -> 2 * Unit * mid - v
    [] name \in {"atr", "volume_ratio"} \cup AdxNames -> v
    [] name = "rsi" -> 100 - v
    [] OTHER -> -v

\* Three places do take sides: without a loss there is no RSI, while without a gain
\* it is zero; a SuperTrend is up until a close has left its bands; and a close
\* above the last high that is also below the last low is a break upwards.
TakesSides(name, c, w) ==
  CASE name = "rsi" -> TRUE
    [] name \in TrendNames -> ~SuperTrend(w, c.trend, c.multiplier)[Len(w)].outside
    [] name = "ms_bos" -> Broken(w, c.pivot, "high") /\ Broken(w, c.pivot, "low")
    [] OTHER -> FALSE

Reflects(there, below, w) ==
  \A name \in DOMAIN there :
    TakesSides(name, used, w)
      \/ /\ Counterpart(name) \in DOMAIN below
         /\ below[Counterpart(name)] = MirrorValue(name, there[name], Mid)

\* Upside down the same bars give the same indicators upside down.  (indicators/*.py)
UpsideDown ==
  LET w == Latest(bars, Limit)
  IN  w # <<>> /\ phase = "trading" =>
        Reflects(Last(log).indicators,
                 Computed(used, [i \in DOMAIN w |-> Flip(w[i], Mid)]), w)
=============================================================================
