------------------------------ MODULE Providers ------------------------------
(***************************************************************************)
(* The signal providers (backend/src/providers/): each turns the features  *)
(* and the context of one bar into an opinion BUY, SELL or HOLD with a     *)
(* confidence and, when it takes a side, a stop and a target.              *)
(*                                                                         *)
(* Confidences and weights are whole percents, prices and indicator values *)
(* integers; distances in ATR are halves (3 for the code's 1.5).  An       *)
(* indicator that is not in the domain of features.indicators is one the   *)
(* builder left out; features.close is context.price.  Rationales, ids and *)
(* times are left out.                                                     *)
(***************************************************************************)
EXTENDS Integers

CONSTANT Params   \* provider id -> the record its configuration file holds

ProviderIds ==
  {"ema_crossover", "rsi_divergence", "macd_momentum", "adx_trend_strength",
   "bollinger_reversion", "supertrend_trend", "volume_order_flow", "market_structure",
   "core_long"}

ASSUME ProvidersAssumption ==
  \A p \in ProviderIds :
    /\ {Params[p].weight, Params[p].sl, Params[p].tp} \subseteq Nat
    /\ {Params[p].minConfidence, Params[p].confidence} \subseteq Nat
    /\ {Params[p].oversold, Params[p].overbought, Params[p].minCmf} \subseteq Int
    /\ Params[p].offSide \in {"SELL", "HOLD"}

Largest(a, b)  == IF a > b THEN a ELSE b
Smallest(a, b) == IF a < b THEN a ELSE b
Abs(n) == Largest(n, -n)

\* features.indicators.get(name, default)
Get(features, name, default) ==
  IF name \in DOMAIN features.indicators THEN features.indicators[name] ELSE default

Clamp(confidence) == Largest(55, Smallest(95, confidence))

\* The side a pair of conditions speaks for: neither or both is no opinion.
Between(bullish, bearish) ==
  IF bullish /\ ~bearish THEN "BUY" ELSE IF bearish /\ ~bullish THEN "SELL" ELSE "HOLD"

Toward(side) == IF side = "BUY" THEN 1 ELSE -1

-----------------------------------------------------------------------------
(* BaseSignalProvider *)

Signal(p, side, confidence, levels) ==
  [provider |-> p, side |-> side, confidence |-> confidence,
   weight |-> Params[p].weight, levels |-> levels]

\* _atr_stops: <<stop, target>>
AtrStops(p, ctx, side) ==
  << ctx.price - Toward(side) * ((Params[p].sl * ctx.atr) \div 2),
     ctx.price + Toward(side) * ((Params[p].tp * ctx.atr) \div 2) >>

\* The end most providers share: no side, or a side without the confidence for
\* it, is a HOLD.
Emit(p, ctx, side, confidence) ==
  IF side = "HOLD" THEN Signal(p, "HOLD", confidence, <<>>)
  ELSE IF confidence < Params[p].minConfidence
       THEN Signal(p, "HOLD", Params[p].minConfidence - 1, <<>>)
       ELSE Signal(p, side, confidence, AtrStops(p, ctx, side))

\* require_trend: no side is taken against the trend.
WithTrend(p, ctx, side) ==
  IF Params[p].requireTrend /\ <<side, ctx.trend>> \in {<<"BUY", "DOWN">>, <<"SELL", "UP">>}
  THEN "HOLD" ELSE side

\* avoid_high_vol
Calm(p, ctx, side) ==
  IF Params[p].avoidHighVol /\ ctx.volatility = "HIGH" THEN "HOLD" ELSE side

-----------------------------------------------------------------------------
EmaConfidence(features, ctx, bullish, bearish) ==
  LET spread == Get(features, "ema_12", ctx.price) - Get(features, "ema_26", ctx.price)
  IN  IF ~bullish /\ ~bearish THEN 50
      ELSE Clamp(55 + (50 * Abs(spread)) \div Largest(ctx.atr, 1))

\* A cross against the trend is a HOLD at 0.5, whatever its confidence was.
EmaCrossover(features, ctx) ==
  LET p       == "ema_crossover"
      bullish == "ema_cross_bullish" \in features.flags
      bearish == "ema_cross_bearish" \in features.flags
      crossed == Between(bullish, bearish)
      side    == WithTrend(p, ctx, crossed)
  IN  Emit(p, ctx, side, IF side # crossed THEN 50
                         ELSE EmaConfidence(features, ctx, bullish, bearish))

RsiConfidence(p, rsi, side) ==
  CASE side = "BUY"  -> Clamp(55 + (100 * (Params[p].oversold - rsi)) \div 40)
    [] side = "SELL" -> Clamp(55 + (100 * (rsi - Params[p].overbought)) \div 40)
    [] OTHER         -> 50

\* This one keeps its confidence when it holds for want of confidence.
RsiDivergence(features, ctx) ==
  LET p          == "rsi_divergence"
      rsi        == Get(features, "rsi_14", 50)
      raw        == Between(rsi < Params[p].oversold, rsi > Params[p].overbought)
      confidence == RsiConfidence(p, rsi, raw)
      side       == Calm(p, ctx, raw)
  IN  IF side = "HOLD" \/ confidence < Params[p].minConfidence
      THEN Signal(p, "HOLD", confidence, <<>>)
      ELSE Signal(p, side, confidence, AtrStops(p, ctx, side))

MacdConfidence(histogram, slope, atr) ==
  Clamp(55 + (35 * Abs(histogram) + 50 * Abs(slope)) \div Largest(atr, 1))

MacdMomentum(features, ctx) ==
  LET p         == "macd_momentum"
      line      == Get(features, "macd", 0)
      signal    == Get(features, "macd_signal", 0)
      histogram == Get(features, "macd_histogram", 0)
      slope     == Get(features, "macd_histogram_slope", 0)
      least     == Params[p].minSlope
      bullish   == /\ histogram > 0 /\ slope > least
                   /\ Params[p].requireAlign => line > signal
      bearish   == /\ histogram < 0 /\ slope < -least
                   /\ Params[p].requireAlign => line < signal
  IN  Emit(p, ctx, WithTrend(p, ctx, Between(bullish, bearish)),
           MacdConfidence(histogram, slope, ctx.atr))

AdxConfidence(adx, spread) ==
  Clamp(55 + (20 * Largest(0, adx - 20)) \div 40 + (15 * Smallest(spread, 20)) \div 20)

\* regime_filter: no list, no filter.
InRegime(p, ctx, side) ==
  IF Params[p].regimes # {} /\ <<ctx.trend, ctx.volatility>> \notin Params[p].regimes
  THEN "HOLD" ELSE side

AdxTrendStrength(features, ctx) ==
  LET p      == "adx_trend_strength"
      adx    == Get(features, "adx_14", 0)
      plus   == Get(features, "plus_di_14", 0)
      minus  == Get(features, "minus_di_14", 0)
      spread == Abs(plus - minus)
      strong == adx >= Params[p].minAdx /\ spread >= Params[p].minSpread
      raw    == Between(strong /\ plus > minus, strong /\ minus > plus)
  IN  Emit(p, ctx, InRegime(p, ctx, WithTrend(p, ctx, raw)), AdxConfidence(adx, spread))

BollingerConfidence(close, upper, lower, side) ==
  LET width == Largest(upper - lower, 1)
      past  == CASE side = "BUY"  -> Largest(0, lower - close)
                 [] side = "SELL" -> Largest(0, close - upper)
                 [] OTHER         -> 0
  IN  IF side = "HOLD" THEN 50 ELSE Clamp(55 + (120 * past) \div width)

\* The lower band is asked first: bands that meet in the price say BUY.
AtBand(close, upper, lower) ==
  IF close <= lower THEN "BUY" ELSE IF close >= upper THEN "SELL" ELSE "HOLD"

\* Bands that are missing count as the price itself.
BollingerReversion(features, ctx) ==
  LET p     == "bollinger_reversion"
      upper == Get(features, "bb_upper", ctx.price)
      lower == Get(features, "bb_lower", ctx.price)
      raw   == AtBand(ctx.price, upper, lower)
      quiet == Params[p].maxAdx > 0 => Get(features, "adx_14", 0) <= Params[p].maxAdx
  IN  Emit(p, ctx, IF quiet THEN Calm(p, ctx, raw) ELSE "HOLD",
           BollingerConfidence(ctx.price, upper, lower, raw))

SupertrendConfidence(close, line, atr) ==
  Clamp(55 + (12 * Abs(close - line)) \div Largest(atr, 1))

SupertrendTrend(features, ctx) ==
  LET p         == "supertrend_trend"
      direction == Get(features, "supertrend_direction", 0)
      line      == Get(features, "supertrend", ctx.price)
  IN  Emit(p, ctx, WithTrend(p, ctx, Between(direction > 0, direction < 0)),
           SupertrendConfidence(ctx.price, line, ctx.atr))

\* cmf in hundredths, volume ratio in percents.
FlowConfidence(p, cmf, ratio) ==
  Clamp(55 + Smallest((10 * Abs(cmf)) \div Largest(Params[p].minCmf, 1), 20)
           + (20 * Smallest(Largest(ratio - 100, 0), 100)) \div 100)

\* require_price_align: the flow and the last step of the price agree.
Aligned(p, delta, side) ==
  IF Params[p].requireAlign /\ ((side = "BUY" /\ delta <= 0) \/ (side = "SELL" /\ delta >= 0))
  THEN "HOLD" ELSE side

VolumeOrderFlow(features, ctx) ==
  LET p         == "volume_order_flow"
      cmf       == Get(features, "cmf_20", 0)
      ratio     == Get(features, "volume_ratio_20", 100)
      confirmed == ratio >= Params[p].minRatio
      raw       == Between(confirmed /\ cmf >= Params[p].minCmf,
                           confirmed /\ cmf <= -Params[p].minCmf)
  IN  Emit(p, ctx, Aligned(p, Get(features, "close_delta", 0), raw),
           FlowConfidence(p, cmf, ratio))

StructureConfidence(bias, bos, price, atr) ==
  LET broken == Smallest(Abs(bos), 1)
  IN  Clamp(55 + 15 * Smallest(Abs(bias), 1) + 20 * broken
               + (price * broken) \div (10 * Largest(atr, 1)))

MarketStructure(features, ctx) ==
  LET p       == "market_structure"
      bias    == Get(features, "ms_bias", 0)
      bos     == Get(features, "ms_bos", 0)
      bullish == bias > 0 /\ (Params[p].requireBos => bos > 0)
      bearish == bias < 0 /\ (Params[p].requireBos => bos < 0)
  IN  Emit(p, ctx, WithTrend(p, ctx, Between(bullish, bearish)),
           StructureConfidence(bias, bos, ctx.price, ctx.atr))

\* The regime gate of the long core: long above the average, otherwise what
\* regime_off_side says; without the average it holds.
CoreLong(features, ctx) ==
  LET p     == "core_long"
      known == "sma_200" \in DOMAIN features.indicators
      side  == IF ctx.price > features.indicators["sma_200"] THEN "BUY"
               ELSE Params[p].offSide
  IN  IF ~known \/ side = "HOLD" \/ Params[p].confidence < Params[p].minConfidence
      THEN Signal(p, "HOLD", 50, <<>>)
      ELSE Signal(p, side, Params[p].confidence,
                  IF Params[p].atrStops THEN AtrStops(p, ctx, side) ELSE <<>>)

-----------------------------------------------------------------------------
\* instantiate_provider: the class a provider id stands for.
Analyze(p, features, ctx) ==
  CASE p = "ema_crossover"       -> EmaCrossover(features, ctx)
    [] p = "rsi_divergence"      -> RsiDivergence(features, ctx)
    [] p = "macd_momentum"       -> MacdMomentum(features, ctx)
    [] p = "adx_trend_strength"  -> AdxTrendStrength(features, ctx)
    [] p = "bollinger_reversion" -> BollingerReversion(features, ctx)
    [] p = "supertrend_trend"    -> SupertrendTrend(features, ctx)
    [] p = "volume_order_flow"   -> VolumeOrderFlow(features, ctx)
    [] p = "market_structure"    -> MarketStructure(features, ctx)
    [] p = "core_long"           -> CoreLong(features, ctx)

=============================================================================
