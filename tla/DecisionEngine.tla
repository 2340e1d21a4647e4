--------------------------- MODULE DecisionEngine ---------------------------
(***************************************************************************)
(* From the features of a bar to a decision: the enabled providers are     *)
(* asked one after the other (platform_runtime._collect_provider_signals), *)
(* and DecisionEngine.process runs their signals through the market        *)
(* filter, the aggregator, the risk manager and the signal builder.        *)
(*                                                                         *)
(* Percentages are whole percents, atr_pct is in hundredths of a percent,  *)
(* risk_reward and size_multiplier in hundredths.  A bar is processed in   *)
(* one step: nothing in process waits.                                     *)
(***************************************************************************)
EXTENDS Providers, Sequences, SequencesExt

CONSTANTS Engines,     \* the engine configurations one is taken from
          Panels,      \* the sequences of enabled providers, one per runtime
          Contexts,    \* what the context deriver may say of a bar
          Readings,    \* provider id -> the features it may find
          Snapshots    \* what the state store may hold

ASSUME EngineAssumption ==
  /\ \A e \in Engines : e.minAgree \in Nat \ {0} /\ e.minRiskReward \in Nat
  /\ \A list \in Panels : /\ list \in Seq(ProviderIds) /\ list # <<>>
                          /\ \A i, j \in DOMAIN list : list[i] = list[j] => i = j
  /\ \A c \in Contexts : c.price \in Nat /\ c.atr \in Nat
  /\ \A p \in ProviderIds : \A f \in Readings[p] :
       \A name \in DOMAIN f.indicators : f.indicators[name] \in Int

VARIABLES engine,      \* EngineConfig
          panel,       \* self._providers
          stage,       \* "waiting", "analyze", "process", "done"; "published" is Replay's
          ctx, signals,
          snapshot, decision

engineVars == <<engine, panel, stage, ctx, signals, snapshot, decision>>

Nothing == [value |-> "none"]

-----------------------------------------------------------------------------
(* MarketFilter.check: the reason it rejects for, or "passed". *)
FilterCheck(e, c) ==
  CASE c.session \notin e.sessions -> "session_not_allowed"
    [] c.session \in e.sessions /\ c.volatility = "LOW" -> "low_volatility"
    [] c.session \in e.sessions /\ c.volatility # "LOW" /\ c.atrPct < e.minAtrPct
         -> "atr_below_minimum"
    [] OTHER -> "passed"

-----------------------------------------------------------------------------
(* Aggregator *)

\* Signals are picked by their places in the list.
Side(sigs, side) == {i \in DOMAIN sigs : sigs[i].side = side}
Active(sigs)     == {i \in DOMAIN sigs : sigs[i].side # "HOLD"}

Names(sigs, places) == {sigs[i].provider : i \in places}

\* Of a value and a weight per place, rounded down.
Mean(value) == SumFunction(value) \div Cardinality(DOMAIN value)

WeightedMean(value, weight) ==
  SumFunction([i \in DOMAIN value |-> value[i] * weight[i]]) \div SumFunction(weight)

Failure(reason) == [ok |-> FALSE, reason |-> reason]

\* Weights of zero make a confidence of zero.
Confidence(sigs, winners, weighted) ==
  LET confidence == [i \in winners |-> sigs[i].confidence]
      weight     == [i \in winners |-> sigs[i].weight]
  IN  CASE ~weighted -> Mean(confidence)
        [] weighted /\ SumFunction(weight) = 0 -> 0
        [] OTHER -> WeightedMean(confidence, weight)

Success(sigs, winners, losers, side, weighted) ==
  [ok |-> TRUE, side |-> side, confidence |-> Confidence(sigs, winners, weighted),
   weights |-> [p \in Names(sigs, winners) |->
                  IF weighted THEN Params[p].weight ELSE 100],
   dissent |-> Names(sigs, losers)]

CombineUnanimous(e, sigs) ==
  LET active == Active(sigs)
      sides  == {sigs[i].side : i \in active}
  IN  IF active = {} THEN Failure("no_active_signals")
      ELSE IF Cardinality(sides) # 1 THEN Failure("provider_conflict")
      ELSE IF Cardinality(active) < e.minAgree THEN Failure("insufficient_consensus")
      ELSE Success(sigs, active, {}, CHOOSE side \in sides : TRUE, TRUE)

\* Variant of the next definition: a tie goes to the buyers.
CombineTie(e, sigs, weighted) ==
  LET buys  == Side(sigs, "BUY")
      sells == Side(sigs, "SELL")
  IN  IF Active(sigs) = {} THEN Failure("no_active_signals")
      ELSE IF Cardinality(buys) >= e.minAgree /\ Cardinality(buys) >= Cardinality(sells)
           THEN Success(sigs, buys, sells, "BUY", weighted)
      ELSE IF Cardinality(sells) >= e.minAgree
           THEN Success(sigs, sells, buys, "SELL", weighted)
      ELSE Failure("insufficient_consensus")

\* Heads are counted, whatever they weigh.
CombineMajority(e, sigs, weighted) ==
  LET buys  == Side(sigs, "BUY")
      sells == Side(sigs, "SELL")
  IN  IF Active(sigs) = {} THEN Failure("no_active_signals")
      ELSE IF Cardinality(buys) >= e.minAgree /\ Cardinality(buys) > Cardinality(sells)
           THEN Success(sigs, buys, sells, "BUY", weighted)
      ELSE IF Cardinality(sells) >= e.minAgree /\ Cardinality(sells) > Cardinality(buys)
           THEN Success(sigs, sells, buys, "SELL", weighted)
      ELSE IF buys # {} /\ sells # {} THEN Failure("provider_conflict")
      ELSE Failure("insufficient_consensus")

Combine(e, sigs) ==
  IF e.method = "unanimous" THEN CombineUnanimous(e, sigs)
  ELSE CombineMajority(e, sigs, e.method = "weighted_majority")

-----------------------------------------------------------------------------
(* RiskManager *)

\* A side that opposes any open position, of whatever symbol.
OpposingExit(side, snap) ==
  \E q \in snap.open : <<q.side, side>> \in {<<"LONG", "SELL">>, <<"SHORT", "BUY">>}

\* evaluate: the checks in the order they are made.
RiskChecks(e, agg, snap) ==
  LET exit == OpposingExit(agg.side, snap)
  IN  << [name |-> "daily_drawdown", passed |-> snap.drawdown < e.maxDrawdown],
         [name |-> "max_signals_per_day", passed |-> snap.signals < e.maxSignals],
         [name |-> "max_open_positions",
          passed |-> exit \/ Cardinality(snap.open) < e.maxOpen],
         [name |-> "max_exposure", passed |-> exit \/ snap.exposure <= e.maxExposure],
         [name |-> "min_confidence", passed |-> agg.confidence >= e.minConfidence],
         [name |-> "max_consecutive_losses", passed |-> snap.losses < e.maxLosses] >>

\* Variant of the next definition: the reward is computed and not asked for.
RewardUnchecked(e, final) == [name |-> "min_risk_reward", passed |-> TRUE]

\* finalize_verdict
RewardCheck(e, final) ==
  [name |-> "min_risk_reward", passed |-> final.riskReward >= e.minRiskReward]

Failed(checks) == {k \in DOMAIN checks : ~checks[k].passed}

-----------------------------------------------------------------------------
(* FinalSignalBuilder *)

\* Weighted average of the winners' levels; the plain one when nothing weighs.
Merged(sigs, levelled, weights, k) ==
  LET level  == [i \in levelled |-> sigs[i].levels[k]]
      weight == [i \in levelled |-> weights[sigs[i].provider]]
  IN  IF SumFunction(weight) <= 0 THEN Mean(level) ELSE WeightedMean(level, weight)

Levelled(sigs, weights) ==
  {i \in DOMAIN sigs : sigs[i].provider \in DOMAIN weights /\ sigs[i].levels # <<>>}

\* Variant first: the defaults of a buy whatever the side.
MergeLevelsBuy(side, sigs, price, weights) ==
  LET levelled == Levelled(sigs, weights)
  IN  IF levelled # {}
      THEN <<Merged(sigs, levelled, weights, 1), Merged(sigs, levelled, weights, 2)>>
      ELSE <<price - price \div 100, price + (2 * price) \div 100>>

\* _merge_levels; with no level from any winner, 1 % against and 2 % for.
MergeLevels(side, sigs, price, weights) ==
  LET levelled == Levelled(sigs, weights)
  IN  IF levelled # {}
      THEN <<Merged(sigs, levelled, weights, 1), Merged(sigs, levelled, weights, 2)>>
      ELSE <<price - Toward(side) * (price \div 100),
             price + Toward(side) * ((2 * price) \div 100)>>

RiskReward(price, levels) ==
  LET risk == Abs(price - levels[1])
  IN  IF risk = 0 THEN 0 ELSE (100 * Abs(levels[2] - price)) \div risk

SizeMultiplier(e, c) ==
  IF e.volTarget > 0 /\ c.atrPct > 0
  THEN Smallest(e.volCap, (100 * e.volTarget) \div c.atrPct) ELSE 100

BuildSignal(e, agg, sigs, c) ==
  LET levels == MergeLevels(agg.side, sigs, c.price, agg.weights)
  IN  [side |-> agg.side, entry |-> c.price, stop |-> levels[1], target |-> levels[2],
       confidence |-> agg.confidence, riskReward |-> RiskReward(c.price, levels),
       size |-> SizeMultiplier(e, c), contributing |-> DOMAIN agg.weights]

-----------------------------------------------------------------------------
(* DecisionEngine.process *)

Rejected(at, reason) == [value |-> "rejected", stage |-> at, reason |-> reason]
Approved(final)      == [value |-> "approved", signal |-> final]

FirstOf(places) == CHOOSE k \in places : \A j \in places : k <= j

Process(e, sigs, c, snap) ==
  LET filter == FilterCheck(e, c)
      agg    == Combine(e, sigs)
      checks == RiskChecks(e, agg, snap)
      failed == Failed(checks)
      final  == BuildSignal(e, agg, sigs, c)
      reward == RewardCheck(e, final)
  IN  IF filter # "passed" THEN Rejected("market_filter", filter)
      ELSE IF ~agg.ok THEN Rejected("aggregator", agg.reason)
      ELSE IF failed # {} THEN Rejected("risk_manager", checks[FirstOf(failed)].name)
      ELSE IF ~reward.passed THEN Rejected("risk_manager", reward.name)
      ELSE Approved(final)

-----------------------------------------------------------------------------
EngineInit ==
  /\ engine \in Engines /\ panel \in Panels
  /\ stage = "waiting"
  /\ ctx = Nothing /\ signals = <<>>
  /\ snapshot = Nothing /\ decision = Nothing

NextBar ==
  /\ stage = "waiting"
  /\ ctx' \in Contexts
  /\ stage' = "analyze"
  /\ UNCHANGED <<engine, panel, signals, snapshot, decision>>

\* The next provider of the list gives its opinion of the bar.
AskProvider ==
  /\ stage = "analyze"
  /\ \E features \in Readings[panel[Len(signals) + 1]] :
       signals' = Append(signals, Analyze(panel[Len(signals) + 1], features, ctx))
  /\ stage' = IF Len(signals') = Len(panel) THEN "process" ELSE stage
  /\ UNCHANGED <<engine, panel, ctx, snapshot, decision>>

\* The store's snapshot is read once every provider has been asked.
Decide ==
  /\ stage = "process"
  /\ snapshot' \in Snapshots
  /\ decision' = Process(engine, signals, ctx, snapshot')
  /\ stage' = "done"
  /\ UNCHANGED <<engine, panel, ctx, signals>>

\* The cycle is over, and nothing of it is kept in memory.
EndBar ==
  /\ stage \in {"done", "published"}
  /\ stage' = "waiting"
  /\ ctx' = Nothing /\ signals' = <<>> /\ snapshot' = Nothing /\ decision' = Nothing
  /\ UNCHANGED <<engine, panel>>

EngineNext == NextBar \/ AskProvider \/ Decide \/ EndBar

EngineSpec == EngineInit /\ [][EngineNext]_engineVars

-----------------------------------------------------------------------------
(* The market turned upside down around the price of the bar. *)

Opposite(side) == CASE side = "BUY" -> "SELL" [] side = "SELL" -> "BUY" [] OTHER -> "HOLD"

MirrorTrend == [UP |-> "DOWN", DOWN |-> "UP", SIDEWAYS |-> "SIDEWAYS"]

MirrorContext(c) == [c EXCEPT !.trend = MirrorTrend[c.trend]]

Turned == [plus_di_14 |-> "minus_di_14", minus_di_14 |-> "plus_di_14",
           bb_upper |-> "bb_lower", bb_lower |-> "bb_upper"]

MirrorIndicators(ind, price) ==
  [name \in DOMAIN ind |->
     CASE name \in {"ema_12", "ema_26", "supertrend"}    -> 2 * price - ind[name]
       [] name \in {"bb_upper", "bb_lower"}              -> 2 * price - ind[Turned[name]]
       [] name \in {"plus_di_14", "minus_di_14"}         -> ind[Turned[name]]
       [] name = "rsi_14"                                -> 100 - ind[name]
       [] name \in {"adx_14", "volume_ratio_20"}         -> ind[name]
       [] OTHER                                          -> -ind[name]]

MirrorFlags == [ema_cross_bullish |-> "ema_cross_bearish",
                ema_cross_bearish |-> "ema_cross_bullish"]

MirrorFeatures(f, price) ==
  [indicators |-> MirrorIndicators(f.indicators, price),
   flags |-> {MirrorFlags[name] : name \in f.flags}]

MirrorSignal(s, price) ==
  [s EXCEPT !.side = Opposite(s.side),
            !.levels = [i \in DOMAIN s.levels |-> 2 * price - s.levels[i]]]

MirrorSnapshot(snap) ==
  [snap EXCEPT !.open = {[q EXCEPT !.side = IF q.side = "LONG" THEN "SHORT" ELSE "LONG"] :
                           q \in snap.open}]

MirrorDecision(d, price) ==
  IF d.value = "rejected" THEN d
  ELSE [d EXCEPT !.signal.side = Opposite(d.signal.side),
                 !.signal.stop = 2 * price - d.signal.stop,
                 !.signal.target = 2 * price - d.signal.target]

\* Bands that are missing or meet are an opinion to buy, and the long core has no
\* short side: these are no opinions that can be turned upside down.
TwoSided(p, f) ==
  /\ p # "core_long"
  /\ p = "bollinger_reversion" =>
       /\ {"bb_upper", "bb_lower"} \subseteq DOMAIN f.indicators
       /\ f.indicators["bb_lower"] < f.indicators["bb_upper"]

\* No stage favours a side, nor does a provider with the indicators it asks for:
\* upside down, the same bar gives the opposite signal, decision, stop and target,
\* and the same reason when it is rejected.  On indicators that are still left out
\* (builder.py:77, "consumers read indicators defensively") no provider takes a
\* side but Bollinger reversion, whose missing bands count as the price: it buys
\* whatever the market, where its least confidence is at most 0.55.
\* (providers/*.analyze, Aggregator.combine, RiskManager.evaluate,
\* FinalSignalBuilder._merge_levels)
SidesAlike ==
  /\ stage = "analyze" =>
       \A p \in Range(panel) :
         LET side == Analyze(p, [indicators |-> <<>>, flags |-> {}], ctx).side
         IN  IF p = "bollinger_reversion" THEN side # "SELL" ELSE side = "HOLD"
  /\ stage = "analyze" =>
       \A p \in Range(panel) : \A f \in Readings[p] :
         TwoSided(p, f) => Analyze(p, MirrorFeatures(f, ctx.price), MirrorContext(ctx))
                             = MirrorSignal(Analyze(p, f, ctx), ctx.price)
  /\ stage = "done" =>
       Process(engine, [i \in DOMAIN signals |-> MirrorSignal(signals[i], ctx.price)],
               MirrorContext(ctx), MirrorSnapshot(snapshot))
         = MirrorDecision(decision, ctx.price)

For(side) == {i \in DOMAIN signals : signals[i].side = side}

Carried(side) ==
  /\ Cardinality(For(side)) >= engine.minAgree
  /\ Cardinality(For(side)) > Cardinality(For(Opposite(side)))
  /\ engine.method = "unanimous" => For(Opposite(side)) = {}

\* A bar the filter lets through fails in the aggregator exactly when no side has
\* both enough providers and more than the other side; an approved one goes the
\* way of the side that has; and the order the providers are asked in changes
\* nothing.  (Aggregator._combine_unanimous, _combine_majority)
HeadsDecide ==
  stage = "done" =>
    /\ decision.value = "approved" => Carried(decision.signal.side)
    /\ FilterCheck(engine, ctx) = "passed" =>
         ((decision.value = "rejected" /\ decision.stage = "aggregator")
            <=> ~(Carried("BUY") \/ Carried("SELL")))
    /\ Process(engine, Reverse(signals), ctx, snapshot) = decision

\* An approved signal has its stop on one side of the price and its target on the
\* other, both apart from it if the configuration asks for any reward, the reward
\* it asks for, no more confidence than its surest winner, and no winner of the
\* other side.  (FinalSignalBuilder.build, RiskManager.finalize_verdict)
Bracketed ==
  decision.value = "approved" =>
    LET s == decision.signal
        w == {i \in DOMAIN signals : signals[i].provider \in s.contributing}
    IN  /\ Toward(s.side) * (s.entry - s.stop) >= 0
        /\ Toward(s.side) * (s.target - s.entry) >= 0
        /\ engine.minRiskReward > 0 => s.stop # s.entry /\ s.target # s.entry
        /\ 100 * Abs(s.target - s.entry) >= engine.minRiskReward * Abs(s.entry - s.stop)
        /\ s.confidence >= engine.minConfidence
        /\ \E i \in w : s.confidence <= signals[i].confidence
        /\ \A i \in w : signals[i].side = s.side

\* "The open-positions limit gates opening, not exiting" (risk_manager.py:44): at
\* the limit only a decision that exits a position of its own symbol is approved.
\* The code does not keep this: a position of any symbol will do.
OnlyExitsPassTheCap ==
  /\ decision.value = "approved"
  /\ Cardinality(snapshot.open) >= engine.maxOpen
  => \E q \in snapshot.open :
       /\ q.symbol = ctx.symbol
       /\ <<q.side, decision.signal.side>> \in {<<"LONG", "SELL">>, <<"SHORT", "BUY">>}
=============================================================================
