------------------------------- MODULE Metrics -------------------------------
(***************************************************************************)
(* What is computed from a backtest's event log after it has run           *)
(* (backend/src/validation/metrics.py, trades.py): the trade ledger, the   *)
(* equity curves, and the buckets by month, session, side, exit reason and *)
(* regime.  The state machine writes the logs a run can leave behind: one  *)
(* action per bar, in the order the runtime publishes, and the liquidation *)
(* at the end.  How an order is decided is TradingRuntime's matter; here   *)
(* any legal sequence of opens and closes may happen.                      *)
(*                                                                         *)
(* Money is whole units and a percentage a whole number.                   *)
(***************************************************************************)
EXTENDS Integers, FiniteSets, Sequences, SequencesExt

CONSTANTS Bars,           \* [open, touch, close, context]: exits of the bar fill at touch
          Orders,         \* [side, quantity, funded]: unfunded ones fail the gate
          Stages,         \* where a decision may be rejected
          InitialCapital,
          FeePct,
          MaxOpenPositions,
          FirstBar, LastBar,
          BarsPerDay, DaysPerMonth,
          MaxPoints       \* the default max_points of the timeline

ASSUME MetricsAssumption ==
  /\ InitialCapital \in Nat \ {0}
  /\ FeePct \in Nat
  /\ {FirstBar, LastBar} \subseteq Nat
  /\ {BarsPerDay, DaysPerMonth, MaxPoints} \subseteq Nat \ {0}

NoOrder == [side |-> "HOLD", quantity |-> 0, funded |-> FALSE]

VARIABLES run,       \* how the engine was built: fill model, events emitted or not
          bar,       \* [time, close] of the last bar, and the context of its cycle
          account,   \* [cash, equity, positions] of the state store
          waiting,   \* the order that fills at the next open
          events,    \* the event log
          stats,     \* EngineMetricsAccumulator
          entered,   \* history: for each position the context its order was decided in,
                     \* and that of the cycle which filled it
          ended
vars == <<run, bar, account, waiting, events, stats, entered, ended>>

-----------------------------------------------------------------------------
\* Producing the log.

Fee(amount) == (amount * FeePct) \div 100

Sign(side) == IF side = "LONG" THEN 1 ELSE -1

PositionSide(side) == IF side = "BUY" THEN "LONG" ELSE "SHORT"

Gain(p, price) == Sign(p.side) * p.quantity * (price - p.entry)

Plus(a, b) == a + b

Total(numbers) == FoldLeft(Plus, 0, numbers)

SumOver(S, F(_)) == Total([i \in 1..Cardinality(S) |-> F(SetToSeq(S)[i])])

Opening(a, id, order, price) ==
  [a EXCEPT !.cash = @ - price * order.quantity - Fee(price * order.quantity),
            !.positions = [i \in DOMAIN @ \cup {id} |->
                             IF i = id THEN [side |-> PositionSide(order.side),
                                             quantity |-> order.quantity,
                                             entry |-> price, held |-> 0]
                             ELSE @[i]]]

PnlAt(p, price) == Gain(p, price) - Fee(price * p.quantity)

Closing(a, ids, price) ==
  LET Pnl(i)  == PnlAt(a.positions[i], price)
      Back(i) == Pnl(i) + a.positions[i].entry * a.positions[i].quantity
  IN  [cash      |-> a.cash + SumOver(ids, Back),
       equity    |-> a.equity + SumOver(ids, Pnl),
       positions |-> [i \in DOMAIN a.positions \ ids |-> a.positions[i]]]

\* The value of an account at a price.
ValueAt(a, price) ==
  LET Worth(i) == a.positions[i].entry * a.positions[i].quantity + Gain(a.positions[i], price)
  IN  a.cash + SumOver(DOMAIN a.positions, Worth)

Marked(a, price) ==
  IF DOMAIN a.positions = {} THEN a ELSE [a EXCEPT !.equity = ValueAt(a, price)]

OpenEvent(id, p, t) ==
  [type |-> "opened", time |-> t, cycle |-> t, id |-> id, side |-> p.side,
   quantity |-> p.quantity, entry |-> p.entry]

CloseEvents(a, ids, price, reason, t, cycle) ==
  LET Row(i) == [type |-> "closed", time |-> t, cycle |-> cycle, id |-> i,
                 side |-> a.positions[i].side, quantity |-> a.positions[i].quantity,
                 entry |-> a.positions[i].entry, exit |-> price, reason |-> reason,
                 pnl |-> PnlAt(a.positions[i], price), held |-> a.positions[i].held]
      order  == SetToSortSeq(ids, <)
  IN  [n \in DOMAIN order |-> Row(order[n])]

\* What the log keeps of a cycle: everything, or the outcomes of execution.
Kept(cycleEvents) ==
  IF run.full THEN cycleEvents
  ELSE SelectSeq(cycleEvents, LAMBDA e : e.type \in {"opened", "closed", "rejected"})

NextId == Cardinality(DOMAIN entered) + 1

Init ==
  /\ run \in [fillAt : {"next_open", "close"}, full : BOOLEAN]
  /\ bar = [time |-> FirstBar - 1, close |-> 0,
            context |-> [trend |-> "UNKNOWN", volatility |-> "UNKNOWN"]]
  /\ account = [cash |-> InitialCapital, equity |-> InitialCapital,
                positions |-> [i \in {} |-> 0]]
  /\ waiting = NoOrder
  /\ events = <<>>
  /\ stats = [total |-> 0, approved |-> 0, rejected |-> [s \in Stages |-> 0]]
  /\ entered = [i \in {} |-> 0]
  /\ ended = FALSE

\* An order may be approved when it closes something or a place is free.
Approvable(a, order) ==
  \/ Cardinality(DOMAIN a.positions) < MaxOpenPositions
  \/ \E i \in DOMAIN a.positions : a.positions[i].side # PositionSide(order.side)

\* EngineMetricsAccumulator.observe
Observe(order, stage) ==
  stats' = IF order # NoOrder
           THEN [stats EXCEPT !.total = @ + 1, !.approved = @ + 1]
           ELSE [stats EXCEPT !.total = @ + 1, !.rejected[stage] = @ + 1]

\* run_cycle: the waiting order fills at the open, held positions may exit, the
\* rest are marked, then the decision closes what opposes it and is executed.
Cycle(b, order, stage, exits) ==
  LET t        == bar.time + 1
      aged     == [account EXCEPT !.positions =
                     [i \in DOMAIN @ |-> [@[i] EXCEPT !.held = @ + 1]]]
      filled   == IF waiting = NoOrder THEN aged ELSE Opening(aged, NextId, waiting, b.open)
      marked   == Marked(Closing(filled, exits, b.touch), b.close)
      against  == {i \in DOMAIN marked.positions :
                     order # NoOrder /\ marked.positions[i].side # PositionSide(order.side)}
      ready    == Closing(marked, against, b.close)
      opens    == order.funded /\ run.fillAt = "close"
      id       == Cardinality(DOMAIN entered) + (IF waiting = NoOrder THEN 1 ELSE 2)
      final    == IF opens THEN Opening(ready, id, order, b.close) ELSE ready
      new      == (DOMAIN final.positions \cup exits \cup against \cup
                     DOMAIN filled.positions) \ DOMAIN entered
      \* A waiting order was decided one cycle ago.
      Decided(i) == IF waiting # NoOrder /\ i = NextId THEN bar.context ELSE b.context
      market   == <<[type |-> "candle", time |-> t, cycle |-> t, close |-> b.close],
                    [type |-> "context", time |-> t, cycle |-> t, context |-> b.context],
                    [type |-> "made", time |-> t, cycle |-> t],
                    [type |-> IF order # NoOrder THEN "approved" ELSE "declined",
                     time |-> t, cycle |-> t]>>
      fills    == IF waiting = NoOrder THEN <<>>
                  ELSE <<OpenEvent(NextId, filled.positions[NextId], t)>>
      trades   == CloseEvents(filled, exits, b.touch, "stop_loss", t, t)
                    \o CloseEvents(marked, against, b.close, "signal", t, t)
      executed == IF opens THEN <<OpenEvent(id, final.positions[id], t)>>
                  ELSE IF order # NoOrder /\ ~order.funded
                  THEN <<[type |-> "rejected", time |-> t, cycle |-> t]>>
                  ELSE <<>>
  IN  /\ ~ended /\ t <= LastBar
      /\ order # NoOrder => Approvable(marked, order)
      /\ bar' = [time |-> t, close |-> b.close, context |-> b.context]
      /\ account' = final
      /\ waiting' = IF order.funded /\ ~opens THEN order ELSE NoOrder
      /\ events' = events \o Kept(market \o fills \o trades \o executed)
      /\ Observe(order, stage)
      /\ entered' = [i \in DOMAIN entered \cup new |->
                       IF i \in DOMAIN entered THEN entered[i]
                       ELSE [decided |-> Decided(i), filled |-> b.context]]
      /\ UNCHANGED <<run, ended>>

\* The harness closes what is open at the last close, under a cycle of its own.
Liquidate ==
  /\ ~ended /\ bar.time >= FirstBar
  /\ ended' = TRUE
  /\ account' = Closing(account, DOMAIN account.positions, bar.close)
  /\ events' = events \o CloseEvents(account, DOMAIN account.positions, bar.close,
                                     "end_of_run", bar.time, 0)
  /\ UNCHANGED <<run, bar, waiting, stats, entered>>

Next ==
  \/ \E b \in Bars, order \in Orders \cup {NoOrder}, stage \in Stages,
       exits \in SUBSET DOMAIN account.positions : Cycle(b, order, stage, exits)
  \/ Liquidate

Spec == Init /\ [][Next]_vars

-----------------------------------------------------------------------------
\* Reading the log.

Day(t) == t \div BarsPerDay

Month(t) == Day(t) \div DaysPerMonth

\* _derive_session_utc
Session(t) ==
  LET hour == (t % BarsPerDay) * (24 \div BarsPerDay)
  IN  CASE hour \in 12..15 -> "OVERLAP"
        [] hour \in 7..11  -> "EUROPE"
        [] hour \in 16..20 -> "US"
        [] OTHER           -> "ASIA"

Of(type, log) == SelectSeq(log, LAMBDA e : e.type = type)

Pnls(closed) == [i \in DOMAIN closed |-> closed[i].pnl]

\* sorted(..., key=event_time) is stable.
ByTime(log) ==
  LET At(t) == SelectSeq(log, LAMBDA e : e.time = t)
  IN  FoldLeft(LAMBDA done, t : done \o At(t), <<>>,
               SetToSortSeq({log[i].time : i \in DOMAIN log}, <))

\* A trade that breaks even is a loss.
BucketStats(pnls) ==
  LET wins   == SelectSeq(pnls, LAMBDA p : p > 0)
      losses == SelectSeq(pnls, LAMBDA p : p <= 0)
  IN  [trades |-> Len(pnls), wins |-> Len(wins), losses |-> Len(losses),
       pnl |-> Total(pnls), grossProfit |-> Total(wins), grossLoss |-> -Total(losses)]

Buckets(closed, Key(_)) ==
  [k \in {Key(closed[i]) : i \in DOMAIN closed} |->
     BucketStats(Pnls(SelectSeq(closed, LAMBDA e : Key(e) = k)))]

\* compute_diagnostics
Diagnostics(log) ==
  LET closed == Of("closed", log)
  IN  [reason  |-> Buckets(closed, LAMBDA e : e.reason),
       session |-> Buckets(closed, LAMBDA e : Session(e.time)),
       side    |-> Buckets(closed, LAMBDA e : e.side)]

LargestOf(S) == CHOOSE n \in S : \A k \in S : k <= n

DrawdownPct(curve) ==
  LET Peak(i) == LargestOf({curve[j] : j \in 1..i})
  IN  LargestOf({0} \cup {(100 * (Peak(i) - curve[i])) \div Peak(i) :
                            i \in {k \in DOMAIN curve : Peak(k) > 0}})

\* The equity after each of a sequence of gains.
Curve(start, pnls) == FoldLeft(LAMBDA c, p : Append(c, Last(c) + p), <<start>>, pnls)

MonthRow(rows, month, pnls) ==
  LET start == IF rows = <<>> THEN InitialCapital ELSE Last(rows).end
      curve == Curve(start, pnls)
  IN  [month |-> month, stats |-> BucketStats(pnls), start |-> start,
       end |-> Last(curve), drawdown |-> DrawdownPct(curve)]

\* compute_monthly_breakdown
MonthlyBreakdown(log) ==
  LET closed == ByTime(Of("closed", log))
      In(m)  == Pnls(SelectSeq(closed, LAMBDA e : Month(e.time) = m))
  IN  FoldLeft(LAMBDA rows, m : Append(rows, MonthRow(rows, m, In(m))), <<>>,
               SetToSortSeq({Month(closed[i].time) : i \in DOMAIN closed}, <))

\* compute_daily_equity_returns, a return as the change and what it is a share of.
DailyReturns(log) ==
  LET closed == ByTime(Of("closed", log))
      days   == SetToSortSeq({Day(closed[i].time) : i \in DOMAIN closed}, <)
      Pnl(d) == Total(Pnls(SelectSeq(closed, LAMBDA e : Day(e.time) = d)))
      curve  == Curve(InitialCapital, [n \in DOMAIN days |-> Pnl(days[n])])
  IN  [n \in DOMAIN days |-> [change |-> curve[n + 1] - curve[n], of |-> curve[n]]]

\* One event of the ledger walk.  Variant first: one position at a time.
WalkOne(w, e) ==
  CASE e.type = "candle" -> [w EXCEPT !.close = e.close]
    [] e.type = "opened" -> [w EXCEPT !.open = [i \in {e.id} |-> e]]
    [] e.type = "closed" -> [w EXCEPT !.realised = @ + e.pnl, !.open = [i \in {} |-> 0]]
    [] OTHER             -> w

Walk(w, e) ==
  CASE e.type = "candle" -> [w EXCEPT !.close = e.close]
    [] e.type = "opened" -> [w EXCEPT !.open = [i \in DOMAIN @ \cup {e.id} |->
                                                  IF i = e.id THEN e ELSE @[i]]]
    [] e.type = "closed" -> [w EXCEPT !.realised = @ + e.pnl,
                                      !.open = [i \in DOMAIN @ \ {e.id} |-> @[i]]]
    [] OTHER             -> w

\* ... and what it leaves as its day's equity and close.
WalkDay(w, e) ==
  LET after   == Walk(w, e)
      Open(i) == Gain(after.open[i], after.close)
      row     == [equity |-> InitialCapital + after.realised + SumOver(DOMAIN after.open, Open),
                  close  |-> after.close]
  IN  [after EXCEPT !.days = [d \in DOMAIN @ \cup {Day(e.time)} |->
                                IF d = Day(e.time) THEN row ELSE @[d]]]

Walked(relevant) ==
  FoldLeft(WalkDay, [realised |-> 0, open |-> [i \in {} |-> 0], close |-> 0,
                     days |-> [d \in {} |-> 0]], relevant).days

InOrder(days) ==
  LET order == SetToSortSeq(DOMAIN days, <)
  IN  [n \in DOMAIN order |-> [day |-> order[n]] @@ days[order[n]]]

\* The days of the walk in order; none without candles.
MarkedDays(log) ==
  IF Of("candle", log) = <<>> THEN <<>>
  ELSE InOrder(Walked(ByTime(SelectSeq(log, LAMBDA e : e.type \in {"candle", "opened", "closed"}))))

\* compute_mark_to_market_series, from the marked days.
MarkToMarket(days) ==
  IF days = <<>> THEN <<>>
  ELSE <<InitialCapital>> \o [n \in DOMAIN days |-> days[n].equity]

Point(day, first) ==
  [date |-> day.day, strategy |-> day.equity, benchmark |-> (InitialCapital * day.close) \div first]

EveryNth(full, stride) ==
  [n \in 1..((Len(full) - 1) \div stride + 1) |-> full[(n - 1) * stride + 1]]

WithLast(some, full) == IF Last(some) = Last(full) THEN some ELSE Append(some, Last(full))

Downsampled(full) ==
  IF Len(full) <= MaxPoints THEN full
  ELSE WithLast(EveryNth(full, Len(full) \div MaxPoints + 1), full)

\* compute_equity_timeline: every stride-th day, and the last.
Timeline(days) == Downsampled([n \in DOMAIN days |-> Point(days[n], days[1].close)])

\* The cycle a trade's regime is looked up under.  Variant first: its exit's.
CycleOfExit(log, e) == e.cycle

EntryCycle(log, e) ==
  LET opened == SelectSeq(log, LAMBDA o : o.type = "opened" /\ o.id = e.id)
  IN  IF opened = <<>> THEN 0 ELSE Last(opened).cycle

\* classify_regime
Regime(context) == <<context.trend, context.volatility>>

\* The confidence of a decision, if the event carries one.
ConfidenceBand(e) ==
  IF "confidence" \notin DOMAIN e THEN {}
  ELSE CASE e.confidence >= 80    -> {"0.80-1.00"}
         [] e.confidence \in 70..79 -> {"0.70-0.79"}
         [] e.confidence \in 60..69 -> {"0.60-0.69"}
         [] OTHER                 -> {"below_0.60"}

\* compute_regime_breakdown
RegimeBreakdown(log) ==
  LET closed     == Of("closed", log)
      Under(e)   == SelectSeq(log, LAMBDA c : c.type = "context" /\ c.cycle = EntryCycle(log, e))
      Made(e)    == SelectSeq(log, LAMBDA c : c.type = "made" /\ c.cycle = EntryCycle(log, e))
      placed     == SelectSeq(closed, LAMBDA e : Under(e) # <<>>)
      Bands(e)   == UNION {ConfidenceBand(Made(e)[i]) : i \in DOMAIN Made(e)}
      banded     == SelectSeq(placed, LAMBDA e : Bands(e) # {})
  IN  [regimes      |-> Buckets(placed, LAMBDA e : Regime(Last(Under(e)).context)),
       bands        |-> Buckets(banded, LAMBDA e : CHOOSE band \in Bands(e) : TRUE),
       unattributed |-> Len(closed) - Len(placed)]

\* summarize_failures
FailureSummary(breakdown) ==
  LET R         == breakdown.regimes
      losses    == SumOver(DOMAIN R, LAMBDA k : R[k].losses)
      wins      == SumOver(DOMAIN R, LAMBDA k : R[k].wins)
      lossTotal == SumOver(DOMAIN R, LAMBDA k : R[k].grossLoss)
      winTotal  == SumOver(DOMAIN R, LAMBDA k : R[k].grossProfit)
  IN  [losses  |-> losses,
       share   |-> [k \in {q \in DOMAIN R : R[q].losses > 0} |-> <<R[k].losses, losses>>],
       avgWin  |-> IF wins = 0 THEN 0 ELSE winTotal \div wins,
       avgLoss |-> IF losses = 0 THEN 0 ELSE -(lossTotal \div losses)]

\* compute_outcome_metrics: the ending equity is the account's.
Outcome(log, endingEquity) ==
  LET pnls  == Pnls(Of("closed", log))
      curve == Curve(InitialCapital, pnls)
  IN  BucketStats(pnls) @@
      [drawdown |-> DrawdownPct(curve), end |-> Last(curve), ending |-> endingEquity,
       opened |-> Len(Of("opened", log)), refused |-> Len(Of("rejected", log))]

\* build_trade_ledger
TradeLedger(log) ==
  LET closed == Of("closed", log)
      Entry(e) == EntryCycle(log, e)
  IN  [n \in DOMAIN closed |->
         [id |-> closed[n].id, side |-> closed[n].side, pnl |-> closed[n].pnl,
          notional |-> closed[n].entry * closed[n].quantity, held |-> closed[n].held,
          entry |-> Entry(closed[n]), exit |-> closed[n].time, win |-> closed[n].pnl > 0]]

-----------------------------------------------------------------------------
(***************************************************************************)
(* metrics.py against the account the run traded: with several positions   *)
(* open, longs and shorts, the marked-to-market curve is at every bar what *)
(* the account is worth, but for the entry fees, which no pnl carries; the *)
(* timeline ends where the curve does, and downsampling keeps that end.    *)
(***************************************************************************)
EntryFees ==
  LET opened == Of("opened", events)
  IN  Total([n \in DOMAIN opened |-> Fee(opened[n].entry * opened[n].quantity)])

EndsWithAccount(curve, timeline) ==
  /\ Last(curve) - EntryFees = ValueAt(account, bar.close)
  /\ Last(timeline).strategy = Last(curve)
  /\ Last(timeline).date = Day(bar.time)
  /\ Len(timeline) <= MaxPoints + 1

\* The curve ends at the account's value and the timeline with it, on every bar
\* (compute_mark_to_market_series, compute_equity_timeline).
CurveIsTheAccount ==
  run.full /\ bar.time >= FirstBar =>
    LET Agree(days) == EndsWithAccount(MarkToMarket(days), Timeline(days))
    IN  Agree(MarkedDays(events))

(***************************************************************************)
(* metrics.py: the same trades are cut by month, day, session, side,       *)
(* reason and regime, from the log sorted or as it is.  Each cut accounts  *)
(* for every trade once, the months continue one another from the initial  *)
(* capital to the realised equity, and the regime cut together with what   *)
(* it could not attribute accounts for the losses.                         *)
(***************************************************************************)
SameTrades(buckets, whole) ==
  /\ SumOver(DOMAIN buckets, LAMBDA k : buckets[k].pnl) = whole.pnl
  /\ SumOver(DOMAIN buckets, LAMBDA k : buckets[k].trades) = whole.trades
  /\ SumOver(DOMAIN buckets, LAMBDA k : buckets[k].losses) = whole.losses

MonthsAddUp(months, whole) ==
  /\ SameTrades([n \in DOMAIN months |-> months[n].stats], whole)
  /\ \A n \in DOMAIN months :
       /\ months[n].start = IF n = 1 THEN InitialCapital ELSE months[n - 1].end
       /\ months[n].end = months[n].start + months[n].stats.pnl
  /\ months # <<>> => Last(months).end = whole.end

RegimesAddUp(regime, whole) ==
  /\ SumOver(DOMAIN regime.regimes, LAMBDA k : regime.regimes[k].trades)
       + regime.unattributed = whole.trades
  /\ FailureSummary(regime).losses = IF run.full THEN whole.losses ELSE 0

AddUpTo(whole) ==
  /\ LET Cut(cuts) == \A cut \in DOMAIN cuts : SameTrades(cuts[cut], whole)
     IN  Cut(Diagnostics(events))
  /\ MonthsAddUp(MonthlyBreakdown(events), whole)
  /\ LET Sum(daily) == Total([n \in DOMAIN daily |-> daily[n].change])
     IN  Sum(DailyReturns(events)) = whole.pnl
  /\ RegimesAddUp(RegimeBreakdown(events), whole)
  /\ whole.opened = whole.trades + Cardinality(DOMAIN account.positions)

BreakdownsAddUp ==
  /\ AddUpTo(Outcome(events, account.equity))
  /\ stats.approved + SumOver(Stages, LAMBDA s : stats.rejected[s]) = stats.total

(***************************************************************************)
(* "A closed trade's own correlation_id belongs to the exit bar's cycle,   *)
(* not the entry decision's" (metrics.py:367): where the events were kept, *)
(* a trade counts under the context of the cycle that published its        *)
(* opening, and its ledger row holds that cycle and its exit, as far apart *)
(* as the engine counted its bars held; where they were not, it is         *)
(* unattributed.  With fills at the close that cycle is the one that       *)
(* decided the entry.  With fills at the next open it is the next one,     *)
(* whose context is derived from a close after the entry: see              *)
(* CountedAtDecision.                                                      *)
(***************************************************************************)
RowsAreTrue(ledger) ==
  \A n \in DOMAIN ledger :
    /\ ledger[n].entry >= FirstBar
    /\ ledger[n].exit - ledger[n].entry = ledger[n].held

CountedUnder(Context(_), closed, regime) ==
  LET In(r) == SelectSeq(closed, LAMBDA e : Regime(Context(e.id)) = r)
  IN  IF run.full
      THEN \A r \in {Regime(b.context) : b \in Bars} :
             IF r \in DOMAIN regime.regimes
             THEN regime.regimes[r] = BucketStats(Pnls(In(r)))
             ELSE In(r) = <<>>
      ELSE regime.unattributed = Len(closed)

OpeningContext(id) ==
  IF run.fillAt = "close" THEN entered[id].decided ELSE entered[id].filled

TradesAreTold ==
  /\ RowsAreTrue(TradeLedger(events))
  /\ CountedUnder(OpeningContext, Of("closed", events), RegimeBreakdown(events))

\* "Bucket closed-trade PnL by the regime and confidence band active at entry"
\* (metrics.py:395), "regime/confidence at entry must be looked up via the
\* POSITION_OPENED event" (metrics.py:368-370).  The code does not keep this with fills
\* at the next open: that event carries the cycle of the bar it fills on.
CountedAtDecision ==
  CountedUnder(LAMBDA id : entered[id].decided, Of("closed", events), RegimeBreakdown(events))

\* The breakdowns account for every trade once, and for each by the cycle that
\* published its opening (compute_outcome_metrics, _entry_correlation_by_position).
EveryTradeCounts == BreakdownsAddUp /\ TradesAreTold
=============================================================================
