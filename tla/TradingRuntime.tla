--------------------------- MODULE TradingRuntime ---------------------------
(***************************************************************************)
(* PlatformRuntime.run_cycle over the state store and the simulated        *)
(* execution engine: one bar of one symbol after the other, each through   *)
(* the same steps.  The validation harness drives it bar by bar and closes *)
(* what is open at the end (wall FALSE); the live manager drives it from    *)
(* scheduled jobs, one cycle at a time, over a wall clock (wall TRUE).     *)
(*                                                                         *)
(* A position keeps the id of the order it came from, so an id is first    *)
(* pending (next_open fills only), then open, then closed.  What           *)
(* evaluate_bar and execute return, the transitions still to be applied,   *)
(* is kept in "opening" and "closing".                                     *)
(***************************************************************************)
EXTENDS SimulatedExecution, FiniteSetsExt

CONSTANTS Bars,                 \* the bars a market can produce
          Markets,              \* the deployments: clock, symbols, bars and sizes
          FillModels,           \* the values fill_at may have
          StopDistance,         \* how far the signal's levels are from its entry
          TargetDistance,
          MaxDailyDrawdownPct,  \* RiskConfig
          MaxSignalsPerDay,
          MaxConsecutiveLosses, \* RiskLimits
          BarsPerDay,
          MaxCycles             \* bound: cycles a run may have

\* A validation run (wall FALSE) is one of a harness with its own clock, a live
\* one goes over the WallClock; both have their symbols and bars, and the percentages
\* its volatility target may scale an order by (100 alone where it is off).
Market == [wall : BOOLEAN, symbols : SUBSET Symbols, bars : SUBSET Bars, sizes : SUBSET Nat]

ASSUME RuntimeAssumption ==
  /\ Bars \subseteq Bar
  /\ Symbols # {}
  /\ Markets \subseteq Market
  /\ FillModels \subseteq {"close", "mid", "next_open"}
  /\ StopDistance \in Nat \ {0}
  /\ TargetDistance \in Nat \ {0}
  /\ MaxDailyDrawdownPct \in Nat
  /\ MaxSignalsPerDay \in Nat
  /\ MaxConsecutiveLosses \in Nat \ {0}
  /\ BarsPerDay \in Nat \ {0}
  /\ MaxCycles \in Nat

VARIABLES market,               \* what the run is of, never changed
          fillAt, longOnly,     \* and its configuration
          phase,                \* where run_cycle stands
          cycle,                \* cycles begun and ended so far
          clock,                \* the clock's event time, 0 while unset
          symbol,               \* the cycle's symbol
          feed,                 \* each symbol's latest bar and its time
          signalsDay,           \* _signals_day, -1 while unset
          decision,             \* the cycle's final signal, side "HOLD" if rejected
          toMark, marketValue,  \* the loop of mark_to_market
          nextId,               \* ids given out so far, plus one
          pending,              \* _pending_entries
          held,                 \* _position_bars (and the keys of _position_orders)
          opening, closing,     \* transitions returned and not yet applied
          events,               \* ctx.execution_events
          published,            \* execution events the bus has accepted
          lost,                 \* history: some cycle raised before publishing
          entryFees             \* history: entry fees paid so far

configVars == <<market, fillAt, longOnly>>
clockVars  == <<cycle, clock, symbol, feed>>
markVars   == <<toMark, marketValue>>
engineVars == <<nextId, pending, held, opening, closing>>
eventVars  == <<events, published, lost>>
vars == <<storeVars, configVars, phase, clockVars, signalsDay, decision, markVars,
          engineVars, eventVars, entryFees>>

-----------------------------------------------------------------------------
Empty == [i \in {} |-> 0]

Without(f, S) == [i \in DOMAIN f \ S |-> f[i]]

bar  == feed[symbol].bar
time == feed[symbol].time

Day(t) == t \div BarsPerDay

FinalSignal ==
  [side : {"BUY", "SELL", "HOLD"}, entry : Int, stopLoss : Int, takeProfit : Int, size : Nat]

NoDecision == [side |-> "HOLD", entry |-> 0, stopLoss |-> 0, takeProfit |-> 0, size |-> 0]

Order ==
  [symbol : Symbols, side : {"BUY", "SELL"}, quantity : Nat \ {0},
   stopLoss : Int, takeProfit : Int, decided : Nat]

\* Nothing evaluate_bar or execute returned is left to apply.
Settled == DOMAIN opening = {} /\ DOMAIN closing = {}

ZeroBar == [open |-> 0, high |-> 0, low |-> 0, close |-> 0]

Init ==
  /\ StoreInit
  /\ market \in Markets
  /\ fillAt \in FillModels
  /\ longOnly \in BOOLEAN
  /\ phase = "idle"
  /\ cycle = 0
  /\ clock = 0
  /\ symbol \in market.symbols
  /\ feed = [s \in Symbols |-> [time |-> 0, bar |-> ZeroBar]]
  /\ signalsDay = -1
  /\ decision = NoDecision
  /\ toMark = {}
  /\ marketValue = 0
  /\ nextId = 1
  /\ pending = Empty
  /\ held = Empty
  /\ opening = Empty
  /\ closing = Empty
  /\ events = {}
  /\ published = {}
  /\ lost = FALSE
  /\ entryFees = 0

-----------------------------------------------------------------------------
\* The end of the window a cycle asks the data provider for.  The harness sets
\* its clock to the bar before the cycle; a wall clock whose event time was set
\* once keeps answering that time.  By cycle n the bars 1 .. n have closed.
\* Variant first: the harness leaves its clock alone too.
FrozenEventTime == IF clock # 0 THEN clock ELSE cycle + 1

NowEventTime == IF market.wall /\ clock # 0 THEN clock ELSE cycle + 1

\* _prepare_bar: the latest closed bar up to the clock's event time; the clock
\* is set to that bar's time.  A bar once closed does not change.
PrepareBar(s, b) ==
  /\ phase = "idle"
  /\ cycle < MaxCycles
  /\ s \in market.symbols /\ b \in market.bars
  /\ feed[s].time = NowEventTime => b = feed[s].bar
  /\ symbol' = s
  /\ feed' = [feed EXCEPT ![s] = [time |-> NowEventTime, bar |-> b]]
  /\ clock' = NowEventTime
  /\ phase' = "evaluate"
  /\ UNCHANGED <<storeVars, configVars, cycle, signalsDay, decision, markVars,
                 engineVars, eventVars, entryFees>>

\* The position an order becomes at a fill price.
Filled(order, price) ==
  [symbol |-> order.symbol, side |-> PositionSide(order.side),
   quantity |-> order.quantity, entryPrice |-> price, stopLoss |-> order.stopLoss,
   takeProfit |-> order.takeProfit, unrealizedPnl |-> 0]

\* ctx.execution_events.extend(...), fills and closes.  Variant first: the events
\* of the cycle so far are replaced.
LastReport(fills, exits) ==
  {<<"opened", i>> : i \in fills} \cup {<<"closed", i>> : i \in exits}

Report(fills, exits) ==
  events \cup {<<"opened", i>> : i \in fills} \cup {<<"closed", i>> : i \in exits}

\* _pre_decision_evaluate: evaluate_bar with increment_bars.  Pending entries of
\* the symbol fill at the bar's open, unchecked; the exit rules look only at the
\* positions of the snapshot taken before those fills.
PreDecisionEvaluate ==
  /\ phase = "evaluate"
  /\ LET fills  == {i \in DOMAIN pending : pending[i].symbol = symbol}
         mine   == {i \in DOMAIN positions : positions[i].symbol = symbol}
         exits  == {i \in mine : Exits(positions[i], bar, held[i] + 1)}
     IN  /\ opening' = [i \in fills |->
               Filled(pending[i], FillPrice(bar, pending[i].side, "next_open"))]
         /\ closing' = [i \in exits |-> ExitPnl(positions[i], ExitPrice(positions[i], bar))]
         /\ pending' = Without(pending, fills)
         /\ held' = [i \in (DOMAIN held \cup fills) \ exits |->
                       IF i \in fills THEN 0 ELSE IF i \in mine THEN held[i] + 1 ELSE held[i]]
         /\ events' = Report(fills, exits)
  /\ phase' = "features"
  /\ UNCHANGED <<storeVars, configVars, clockVars, signalsDay, decision, markVars,
                 nextId, published, lost, entryFees>>

\* apply_transition, for one transition after the other: fills before exits, and
\* each in the order of the ids.
ApplyOpening(id) ==
  /\ id \in DOMAIN opening
  /\ \A j \in DOMAIN opening : id <= j
  /\ LET fee == Fee(Notional(opening[id]))
     IN  /\ ApplyPositionOpened(id, opening[id], Notional(opening[id]) + fee)
         /\ entryFees' = entryFees + fee
  /\ opening' = Without(opening, {id})
  /\ UNCHANGED <<configVars, phase, clockVars, signalsDay, decision, markVars,
                 nextId, pending, held, closing, eventVars>>

ApplyClosing(id) ==
  /\ DOMAIN opening = {}
  /\ id \in DOMAIN closing
  /\ \A j \in DOMAIN closing : id <= j
  /\ ApplyPositionClosed(id, closing[id])
  /\ closing' = Without(closing, {id})
  /\ UNCHANGED <<configVars, phase, clockVars, signalsDay, decision, markVars,
                 nextId, pending, held, opening, eventVars, entryFees>>

\* A cycle that raises: its execution events never reach the bus.  A validation
\* run ends with it; the live scheduler goes on with the next job.
Raise ==
  /\ phase' = IF market.wall THEN "idle" ELSE "failed"
  /\ events' = {}
  /\ lost' = TRUE
  /\ decision' = NoDecision
  /\ cycle' = cycle + 1

\* _build_features and the providers read the market only.
BuildFeatures ==
  /\ phase = "features"
  /\ Settled
  /\ phase' = "risk"
  /\ UNCHANGED <<storeVars, configVars, clockVars, signalsDay, decision, markVars,
                 engineVars, eventVars, entryFees>>

BuildFeaturesFails ==
  /\ phase = "features"
  /\ Settled
  /\ Raise
  /\ UNCHANGED <<storeVars, configVars, clock, symbol, feed, signalsDay, markVars,
                 engineVars, published, entryFees>>

\* What a new day overwrites; the run of losses is not among it.
\* Variant first: losses that are forgiven.
DayCountersForgive ==
  [signalsToday |-> 0, dailyPnl |-> 0, drawdown |-> 0, startEquity |-> equity, losses |-> 0]

DayCounters ==
  [signalsToday |-> 0, dailyPnl |-> 0, drawdown |-> 0, startEquity |-> equity]

\* _maybe_reset_daily_risk: after this bar's exits, before the revaluation.
MaybeResetDailyRisk ==
  /\ phase = "risk"
  /\ signalsDay' = Day(time)
  /\ IF \/ signalsDay \in {-1, Day(time)}
        \/ /\ risk.signalsToday = 0
           /\ risk.dailyPnl = 0
           /\ risk.drawdown = 0
           /\ risk.startEquity = equity
     THEN UNCHANGED storeVars
     ELSE ApplyRiskUpdated(DayCounters)
  /\ phase' = IF DOMAIN positions = {} THEN "decide" ELSE "mark"
  /\ toMark' = DOMAIN positions
  /\ marketValue' = 0
  /\ UNCHANGED <<configVars, clockVars, decision, engineVars, eventVars, entryFees>>

\* mark_to_market, position after position: only this cycle's symbol has a price.
MarkPosition(id) ==
  /\ phase = "mark"
  /\ id \in toMark
  /\ \A j \in toMark : id <= j
  /\ IF positions[id].symbol = symbol
     THEN Revalue(id, bar.close)
     ELSE UNCHANGED positions
  /\ marketValue' = marketValue + Notional(positions[id]) + positions'[id].unrealizedPnl
  /\ toMark' = toMark \ {id}
  /\ UNCHANGED <<cash, equity, realizedPnl, risk, configVars, phase, clockVars,
                 signalsDay, decision, engineVars, eventVars, entryFees>>

MarkToMarket ==
  /\ phase = "mark"
  /\ toMark = {}
  /\ ApplyMarkToMarket(marketValue)
  /\ marketValue' = 0
  /\ phase' = "decide"
  /\ UNCHANGED <<configVars, clockVars, signalsDay, decision, toMark, engineVars,
                 eventVars, entryFees>>

\* The signal of a side at this bar: entry at the close, levels around it.
Signal(side, size) ==
  LET up == IF side = "BUY" THEN 1 ELSE -1
  IN  [side |-> side, entry |-> bar.close,
       stopLoss |-> bar.close - up * StopDistance,
       takeProfit |-> bar.close + up * TargetDistance,
       size |-> size]

\* _decide: an approved decision counts as one of the day's signals at once.
Approve(side) ==
  /\ phase = "decide"
  /\ RiskPasses(side, MaxDailyDrawdownPct, MaxSignalsPerDay, MaxConsecutiveLosses)
  /\ \E size \in market.sizes : decision' = Signal(side, size)
  /\ ApplyRiskUpdated([signalsToday |-> risk.signalsToday + 1])
  /\ phase' = "signal_exit"
  /\ UNCHANGED <<configVars, clockVars, signalsDay, markVars, engineVars, eventVars,
                 entryFees>>

\* Rejected: by the risk manager, or before it (filter, aggregator, confidence,
\* reward), which any bar may bring about.
Reject ==
  /\ phase = "decide"
  /\ phase' = "publish"
  /\ UNCHANGED <<storeVars, configVars, clockVars, signalsDay, decision, markVars,
                 engineVars, eventVars, entryFees>>

\* The first half of _same_bar_exit_and_execute: evaluate_bar without bar
\* increment, which closes what opposes the approved side at the close.
\* Variant first: what it closes stays in the engine's own book.
SignalExitKept ==
  /\ phase = "signal_exit"
  /\ LET exits == {i \in DOMAIN positions : /\ positions[i].symbol = symbol
                                            /\ Opposes(positions[i].side, decision.side)}
     IN  /\ closing' = [i \in exits |-> ExitPnl(positions[i], bar.close)]
         /\ events' = Report({}, exits)
  /\ phase' = "execute"
  /\ UNCHANGED <<storeVars, configVars, clockVars, signalsDay, decision, markVars,
                 nextId, pending, held, opening, published, lost, entryFees>>

SignalExit ==
  /\ phase = "signal_exit"
  /\ LET exits == {i \in DOMAIN positions : /\ positions[i].symbol = symbol
                                            /\ Opposes(positions[i].side, decision.side)}
     IN  /\ closing' = [i \in exits |-> ExitPnl(positions[i], bar.close)]
         /\ held' = Without(held, exits)
         /\ events' = Report({}, exits)
  /\ phase' = "execute"
  /\ UNCHANGED <<storeVars, configVars, clockVars, signalsDay, decision, markVars,
                 nextId, pending, opening, published, lost, entryFees>>

OrderQuantity ==
  IF longOnly /\ decision.side = "SELL" THEN 0
  ELSE PositionSize(decision.entry, decision.stopLoss, decision.size)

NewOrder ==
  [symbol |-> symbol, side |-> decision.side, quantity |-> OrderQuantity,
   stopLoss |-> decision.stopLoss, takeProfit |-> decision.takeProfit, decided |-> time]

Submittable == OrderQuantity > 0 /\ GatePasses(OrderQuantity, decision.entry)

\* execute: nothing to do, sized to nothing, or rejected by the pre-trade gate.
ExecuteNothing ==
  /\ phase = "execute"
  /\ Settled
  /\ ~Submittable
  /\ phase' = "publish"
  /\ UNCHANGED <<storeVars, configVars, clockVars, signalsDay, decision, markVars,
                 engineVars, eventVars, entryFees>>

\* execute: the order waits for the next bar.
ExecuteQueued ==
  /\ phase = "execute"
  /\ Settled
  /\ Submittable
  /\ fillAt = "next_open"
  /\ pending' = [i \in DOMAIN pending \cup {nextId} |->
                   IF i = nextId THEN NewOrder ELSE pending[i]]
  /\ nextId' = nextId + 1
  /\ phase' = "publish"
  /\ UNCHANGED <<storeVars, configVars, clockVars, signalsDay, decision, markVars,
                 held, opening, closing, eventVars, entryFees>>

\* execute: the order fills on this bar.
ExecuteFilled ==
  /\ phase = "execute"
  /\ Settled
  /\ Submittable
  /\ fillAt # "next_open"
  /\ opening' = [i \in {nextId} |-> Filled(NewOrder, FillPrice(bar, decision.side, fillAt))]
  /\ held' = [i \in DOMAIN held \cup {nextId} |-> IF i = nextId THEN 0 ELSE held[i]]
  /\ events' = Report({nextId}, {})
  /\ nextId' = nextId + 1
  /\ phase' = "publish"
  /\ UNCHANGED <<storeVars, configVars, clockVars, signalsDay, decision, markVars,
                 pending, closing, published, lost, entryFees>>

\* publish_many at the end of the cycle.
Publish ==
  /\ phase = "publish"
  /\ Settled
  /\ published' = published \cup events
  /\ events' = {}
  /\ decision' = NoDecision
  /\ cycle' = cycle + 1
  /\ phase' = "idle"
  /\ UNCHANGED <<storeVars, configVars, clock, symbol, feed, signalsDay, markVars,
                 engineVars, lost, entryFees>>

\* A handler or the bus raises on some event: those before it were dispatched,
\* and the state has already changed.
PublishFails ==
  /\ phase = "publish"
  /\ Settled
  /\ events # {}
  /\ \E dispatched \in SUBSET events : published' = published \cup dispatched
  /\ Raise
  /\ UNCHANGED <<storeVars, configVars, clock, symbol, feed, signalsDay, markVars,
                 engineVars, entryFees>>

\* The harness after its last bar: _liquidate_open_positions at that bar's close.
\* Pending entries stay where they are.
Liquidate ==
  /\ ~market.wall
  /\ phase = "idle"
  /\ cycle > 0
  /\ LET open == {i \in DOMAIN positions : positions[i].symbol = symbol}
     IN  /\ closing' = [i \in open |-> ExitPnl(positions[i], bar.close)]
         /\ held' = Without(held, open)
         /\ events' = Report({}, open)
  /\ phase' = "liquidate"
  /\ UNCHANGED <<storeVars, configVars, clockVars, signalsDay, decision, markVars,
                 nextId, pending, opening, published, lost, entryFees>>

FinishRun ==
  /\ phase = "liquidate"
  /\ Settled
  /\ published' = published \cup events
  /\ events' = {}
  /\ phase' = "done"
  /\ UNCHANGED <<storeVars, configVars, clockVars, signalsDay, decision, markVars,
                 engineVars, lost, entryFees>>

\* A run that is over, or a live one at the bound MaxCycles, only idles.
Over ==
  /\ \/ phase \in {"done", "failed"}
     \/ phase = "idle" /\ cycle = MaxCycles
  /\ UNCHANGED vars

Next ==
  \/ \E s \in Symbols, b \in Bars : PrepareBar(s, b)
  \/ PreDecisionEvaluate
  \/ \E id \in DOMAIN opening : ApplyOpening(id)
  \/ \E id \in DOMAIN closing : ApplyClosing(id)
  \/ BuildFeatures
  \/ BuildFeaturesFails
  \/ MaybeResetDailyRisk
  \/ \E id \in toMark : MarkPosition(id)
  \/ MarkToMarket
  \/ \E side \in {"BUY", "SELL"} : Approve(side)
  \/ Reject
  \/ SignalExit
  \/ ExecuteNothing
  \/ ExecuteQueued
  \/ ExecuteFilled
  \/ Publish
  \/ PublishFails
  \/ Liquidate
  \/ FinishRun
  \/ Over

Spec == Init /\ [][Next]_vars

-----------------------------------------------------------------------------
(***************************************************************************)
(* Properties.                                                             *)
(***************************************************************************)
Ids == Nat \ {0}

Phases == {"idle", "evaluate", "features", "risk", "mark", "decide", "signal_exit",
           "execute", "publish", "liquidate", "done", "failed"}

StoreTypeOK ==
  /\ cash \in Int
  /\ equity \in Int
  /\ realizedPnl \in Int
  /\ risk \in RiskState
  /\ DOMAIN positions \subseteq Ids
  /\ positions \in [DOMAIN positions -> Position]

CycleTypeOK ==
  /\ market \in Markets
  /\ fillAt \in FillModels
  /\ longOnly \in BOOLEAN
  /\ phase \in Phases
  /\ cycle \in Nat
  /\ clock \in Nat
  /\ symbol \in Symbols
  /\ feed \in [Symbols -> [time : Nat, bar : Bar]]
  /\ signalsDay \in Int
  /\ decision \in FinalSignal
  /\ marketValue \in Int
  /\ toMark \subseteq DOMAIN positions

EngineTypeOK ==
  /\ nextId \in Ids
  /\ DOMAIN pending \subseteq Ids
  /\ pending \in [DOMAIN pending -> Order]
  /\ DOMAIN held \subseteq Ids
  /\ held \in [DOMAIN held -> Nat]
  /\ DOMAIN opening \subseteq Ids
  /\ opening \in [DOMAIN opening -> Position]
  /\ DOMAIN closing \subseteq Ids
  /\ closing \in [DOMAIN closing -> Int]
  /\ lost \in BOOLEAN
  /\ entryFees \in Int

\* The type invariant: every variable of the store, the cycle and the engine.
TypeOK == StoreTypeOK /\ CycleTypeOK /\ EngineTypeOK

\* What the engine's own books say is open, is what the store will hold once the
\* transitions it returned are applied; an id is in one place only, and was given
\* out.  (SimulatedExecutionEngine's _position_bars and _pending_entries live
\* outside the store, simulated.py; the runtime applies the transitions.)
BooksAgree ==
  /\ DOMAIN held = (DOMAIN positions \cup DOMAIN opening) \ DOMAIN closing
  /\ DOMAIN closing \subseteq DOMAIN positions
  /\ DOMAIN opening \cap DOMAIN positions = {}
  /\ DOMAIN pending \cap (DOMAIN positions \cup DOMAIN opening) = {}
  /\ \A i \in DOMAIN pending \cup DOMAIN positions \cup DOMAIN opening : i < nextId

\* Positions that are open, or will be when the opening transitions are applied.
Open(i) == IF i \in DOMAIN opening THEN opening[i] ELSE positions[i]

\* A symbol's open positions and waiting orders are all on one side: an approved
\* decision closes what opposes it before it opens or queues anything
\* (_same_bar_exit_and_execute), however long a next_open order then waits.
OneSided ==
  /\ \A i, j \in DOMAIN held :
       Open(i).symbol = Open(j).symbol => Open(i).side = Open(j).side
  /\ \A i \in DOMAIN held, k \in DOMAIN pending :
       Open(i).symbol = pending[k].symbol => Open(i).side = PositionSide(pending[k].side)
  /\ \A k, l \in DOMAIN pending :
       pending[k].symbol = pending[l].symbol => pending[k].side = pending[l].side

\* Double entry: cash plus what is locked in open positions is what came in, plus
\* what the closed positions made, minus the entry fees, which no pnl contains.
CashLedger ==
  cash + MapThenSumSet(LAMBDA i : Notional(positions[i]), DOMAIN positions)
    = InitialCash + realizedPnl - entryFees

\* No position survives the bar on which it has been held MaxBarsInTrade bars:
\* the timeout is checked on every bar of its symbol, the fill bar excepted.
NoOverstay == \A i \in DOMAIN held : held[i] < MaxBarsInTrade

\* The drawdown the risk manager reads is that of the equity beside it, against the
\* start of the day, whatever closed, was revalued or was reset since.
DrawdownIsCurrent ==
  risk.drawdown = Drawdown(risk.startEquity, equity)

\* Ids whose order was filled, and whose position was closed again.
Opened == (1 .. nextId - 1) \ DOMAIN pending
Closed == Opened \ DOMAIN held

Happened == {<<"opened", i>> : i \in Opened} \cup {<<"closed", i>> : i \in Closed}

\* Execution events, on the bus or about to go there, report what happened to the
\* books and nothing else, each fill and each close once known; they report all of
\* it unless some cycle raised before its publish_many was through.
AuditTrail ==
  /\ published \cup events \subseteq Happened
  /\ ~lost => Happened \subseteq published \cup events

\* Enough losses in a row, and nothing left that could still close with a gain.
LockedOut ==
  /\ risk.losses >= MaxConsecutiveLosses
  /\ DOMAIN pending = {}
  /\ DOMAIN held = {}
  /\ Settled
  /\ phase \notin {"signal_exit", "execute"}

\* The daily reset leaves the run of losses alone, and only a winning close clears
\* it: an account that is flat after MaxConsecutiveLosses losses never trades again.
LockoutIsPermanent == [][LockedOut => LockedOut']_vars

\* An order queued at a bar's decision fills on a later bar: what the decision saw
\* never includes the bar its order fills at (simulated_pending.py).  So it is in
\* validation; over the wall clock, whose event time stands still, it is not.
FillsNextBar ==
  [][~market.wall =>
       \A i \in DOMAIN pending \ DOMAIN pending' : pending[i].decided < time]_vars

\* The decision snapshot's equity is cash plus each position's current market
\* value: what the comment in _apply_mark_to_market says equity is.  The code does
\* not keep this: the first close after a gain that was marked breaks it.
EquityAtDecision ==
  phase = "decide" =>
    equity = cash + MapThenSumSet(
                      LAMBDA i : Notional(positions[i]) + Gain(positions[i], bar.close),
                      DOMAIN positions)
=============================================================================
