----------------------------- MODULE MCDecisions -----------------------------
(***************************************************************************)
(* Values for the constants of Replay: a price of 60000, which     *)
(* every percentage and average below divides, and one reading for each    *)
(* case a provider tells apart, the missing indicator among them.          *)
(* Bollinger reversion has the least confidence its solo tuning tries.     *)
(***************************************************************************)
EXTENDS Replay

Price == 60000

Base == [minConfidence |-> 60, sl |-> 3, tp |-> 8, weight |-> 100, requireTrend |-> FALSE,
         avoidHighVol |-> TRUE, requireAlign |-> TRUE, requireBos |-> TRUE,
         oversold |-> 30, overbought |-> 70, minSlope |-> 0, minAdx |-> 25, minSpread |-> 5,
         regimes |-> {}, maxAdx |-> 0, minCmf |-> 5, minRatio |-> 120, confidence |-> 90,
         offSide |-> "SELL", atrStops |-> FALSE]

MCParams ==
  [p \in ProviderIds |->
     CASE p = "ema_crossover"       -> [Base EXCEPT !.requireTrend = TRUE]
       [] p = "rsi_divergence"      -> [Base EXCEPT !.weight = 200]
       [] p = "macd_momentum"       -> [Base EXCEPT !.sl = 4, !.tp = 4]
       [] p = "adx_trend_strength"  ->
            [Base EXCEPT !.regimes = {<<"UP", "NORMAL">>, <<"DOWN", "NORMAL">>,
                                      <<"UP", "HIGH">>, <<"DOWN", "HIGH">>}]
       [] p = "bollinger_reversion" -> [Base EXCEPT !.minConfidence = 55, !.weight = 0, !.maxAdx = 30]
       [] p = "volume_order_flow"   -> [Base EXCEPT !.minConfidence = 70]
       [] OTHER                     -> Base]

Risk == [sessions |-> {"EUROPE"}, minAtrPct |-> 35, maxDrawdown |-> 5, maxSignals |-> 2,
         maxOpen |-> 1, maxExposure |-> 50, minConfidence |-> 60, maxLosses |-> 3,
         minRiskReward |-> 200, volTarget |-> 60, volCap |-> 150,
         method |-> "majority", minAgree |-> 1]

MCEngines == {[Risk EXCEPT !.method = choice[1], !.minAgree = choice[2]] :
                choice \in {<<"weighted_majority", 1>>, <<"majority", 2>>,
                            <<"unanimous", 1>>, <<"unanimous", 2>>}}

MCPanels == {<<"ema_crossover", "rsi_divergence", "macd_momentum">>,
             <<"adx_trend_strength", "bollinger_reversion", "core_long">>,
             <<"supertrend_trend", "volume_order_flow", "market_structure">>}

\* Low, barely low enough, normal and high volatility.
Context(trend, atr) ==
  [symbol |-> "btc", price |-> Price, trend |-> trend, session |-> "EUROPE", atr |-> atr,
   atrPct |-> (10000 * atr) \div Price,
   volatility |-> CASE (10000 * atr) \div Price < 30  -> "LOW"
                    [] (10000 * atr) \div Price > 100 -> "HIGH"
                    [] OTHER -> "NORMAL"]

MCContexts ==
  {Context(trend, 240) : trend \in {"UP", "DOWN", "SIDEWAYS"}}
    \cup {Context("DOWN", 720)} \cup {Context("UP", atr) : atr \in {120, 192}}
    \cup {[Context("UP", 240) EXCEPT !.session = "ASIA"]}

Found(ind) == [indicators |-> ind, flags |-> {}]
Unknown == Found(<<>>)

\* A reading and the same upside down.
Both(f) == {f, MirrorFeatures(f, Price)}

MCReadings ==
  [p \in ProviderIds |-> {Unknown} \cup
     CASE p = "ema_crossover" ->
            UNION {Both([indicators |-> [ema_12 |-> Price + d, ema_26 |-> Price],
                         flags |-> {"ema_cross_bullish"}]) : d \in {12, 240}}
       [] p = "rsi_divergence" -> UNION {Both(Found([rsi_14 |-> v])) : v \in {29, 30, 50}}
       [] p = "macd_momentum" ->
            UNION {Both(Found([macd |-> l, macd_signal |-> 10, macd_histogram |-> h,
                               macd_histogram_slope |-> 24])) :
                     l \in {5, 20}, h \in {0, 24}}
       [] p = "adx_trend_strength" ->
            UNION {Both(Found([adx_14 |-> a, plus_di_14 |-> 20 + d, minus_di_14 |-> 20])) :
                     a \in {20, 40}, d \in {2, 10}}
       [] p = "bollinger_reversion" ->
            UNION {Both(Found([bb_upper |-> Price + 2400 + d, bb_lower |-> Price + d,
                               adx_14 |-> a])) :
                     d \in {-1200, 0, 600}, a \in {20, 40}}
              \cup {Found([bb_upper |-> Price, bb_lower |-> Price])}
       [] p = "supertrend_trend" ->
            UNION {Both(Found([supertrend |-> Price - d, supertrend_direction |-> 1])) :
                     d \in {12, 480}}
       [] p = "volume_order_flow" ->
            UNION {Both(Found([cmf_20 |-> f, volume_ratio_20 |-> r, close_delta |-> s])) :
                     f \in {2, 10}, r \in {110, 150}, s \in {-3, 3}}
       [] p = "market_structure" ->
            UNION {Both(Found([ms_bias |-> 1, ms_bos |-> b])) : b \in {-1, 0, 1}}
       [] p = "core_long" -> {Found([sma_200 |-> Price + d]) : d \in {-600, 0}}]

Calmly == [drawdown |-> 0, signals |-> 0, losses |-> 0, exposure |-> 0, open |-> {}]
Held(symbol, side) == {[symbol |-> symbol, side |-> side]}

MCSnapshots ==
  {Calmly, [Calmly EXCEPT !.drawdown = 5], [Calmly EXCEPT !.signals = 2],
   [Calmly EXCEPT !.losses = 3, !.exposure = 51]}
    \cup {[Calmly EXCEPT !.open = Held(symbol, side), !.exposure = 60] :
            symbol \in {"btc", "eth"}, side \in {"LONG", "SHORT"}}
=============================================================================
