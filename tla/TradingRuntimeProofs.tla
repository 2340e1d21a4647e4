------------------------ MODULE TradingRuntimeProofs ------------------------
(***************************************************************************)
(* Proofs about TradingRuntime, for every market, fill model, cap and      *)
(* limit the assumptions of its modules allow.                             *)
(***************************************************************************)
EXTENDS TradingRuntime, FiniteSums

-----------------------------------------------------------------------------
(***************************************************************************)
(* What the arithmetic returns.                                            *)
(***************************************************************************)

\* A percentage is an integer, whatever its base.
LEMMA PercentInt ==
  ASSUME NEW a \in Int, NEW b \in Int
  PROVE  Percent(a, b) \in Int
<1>1. CASE b = 0
  BY <1>1 DEF Percent
<1>2. CASE b > 0
  BY <1>2 DEF Percent
<1>3. CASE b < 0
  <2>1. -b \in Int /\ -b > 0 /\ -100 * a \in Int
    BY <1>3
  <2>2. (-100 * a) \div (-b) \in Int
    BY <2>1
  <2> QED
    BY <1>3, <2>2 DEF Percent
<1> QED
  BY <1>1, <1>2, <1>3

\* A drawdown is a natural number, whatever the two equities.
LEMMA DrawdownNat ==
  ASSUME NEW start \in Int, NEW eq \in Int
  PROVE  Drawdown(start, eq) \in Nat
<1> DEFINE base == IF start = 0 THEN eq ELSE start
<1>1. base \in Int /\ base - eq \in Int
  OBVIOUS
<1>2. Percent(base - eq, base) \in Int
  BY <1>1, PercentInt
<1> QED
  BY <1>2 DEF Drawdown, AtLeastZero

\* What a close returns is an integer.
LEMMA ExitPnlInt ==
  ASSUME NEW p \in Position, NEW price \in Int
  PROVE  ExitPnl(p, price) \in Int
<1>1. p.entryPrice \in Int /\ p.quantity \in Int
  BY DEF Position
<1>2. Gain(p, price) \in Int
  BY <1>1 DEF Gain
<1>3. Fee(price * p.quantity) \in Int
  BY <1>1, ExecutionAssumption DEF Fee
<1> QED
  BY <1>2, <1>3 DEF ExitPnl

\* The exit rules pick a price of the position or of the bar.
LEMMA ExitPriceInt ==
  ASSUME NEW p \in Position, NEW b \in Bar
  PROVE  ExitPrice(p, b) \in Int
BY DEF ExitPrice, Position, Bar

\* A fill has a price under every fill model.
LEMMA FillPriceInt ==
  ASSUME NEW b \in Bar, NEW side, NEW model
  PROVE  FillPrice(b, side, model) \in Int
<1> DEFINE base == CASE model = "next_open" -> b.open
                     [] model = "mid"       -> (b.high + b.low) \div 2
                     [] OTHER               -> b.close
<1>1. base \in Int
  BY DEF Bar
<1>2. (base * SlippageBps) \div 10000 \in Int
  BY <1>1, ExecutionAssumption
<1> QED
  BY <1>1, <1>2 DEF FillPrice

\* An order keeps its size and side when it becomes a position.
LEMMA FilledType ==
  ASSUME NEW order \in Order, NEW price \in Int
  PROVE  Filled(order, price) \in Position
BY DEF Filled, Order, Position, PositionSide

-----------------------------------------------------------------------------
(***************************************************************************)
(* The inductive invariant: the types, the agreement of the two books, and *)
(* what holds at each step of a cycle.                                     *)
(***************************************************************************)
StepInv ==
  /\ phase \notin {"features", "execute", "publish", "liquidate"} => Settled
  /\ phase # "mark" => toMark = {}
  /\ phase \in {"signal_exit", "execute"} => decision.side \in {"BUY", "SELL"}

IInv == TypeOK /\ BooksAgree /\ StepInv

\* Every variable starts with its type, the two books empty.
LEMMA InitIInv == Init => IInv
<1> SUFFICES ASSUME Init PROVE IInv
  OBVIOUS
<1> USE DEF Init, StoreInit, Empty
<1>1. StoreTypeOK
  BY StoreAssumption DEF StoreTypeOK, RiskState, Position, Ids
<1>2. CycleTypeOK
  <2>1. ZeroBar \in Bar
    BY DEF ZeroBar, Bar
  <2>2. feed \in [Symbols -> [time : Nat, bar : Bar]]
    BY <2>1
  <2>3. decision \in FinalSignal
    BY DEF NoDecision, FinalSignal
  <2>4. signalsDay \in Int /\ toMark = {} /\ phase \in Phases
    BY DEF Phases
  <2>5. symbol \in Symbols
    BY RuntimeAssumption DEF Market
  <2> QED
    BY <2>2, <2>3, <2>4, <2>5 DEF CycleTypeOK
<1>3. EngineTypeOK
  <2>1. lost \in BOOLEAN
    OBVIOUS
  <2>2. nextId \in Ids /\ entryFees \in Int
    BY DEF Ids
  <2>3. ASSUME NEW T, NEW f, f = [i \in {} |-> 0]
        PROVE  DOMAIN f \subseteq Ids /\ f \in [DOMAIN f -> T]
    BY <2>3
  <2> QED
    BY <2>1, <2>2, <2>3 DEF EngineTypeOK
<1>4. BooksAgree
  BY DEF BooksAgree
<1>5. StepInv
  BY DEF StepInv, Settled
<1> QED
  BY <1>1, <1>2, <1>3, <1>4, <1>5 DEF IInv, TypeOK

-----------------------------------------------------------------------------
(***************************************************************************)
(* The store.  Only the transitions touch it.                              *)
(***************************************************************************)
\* The transitions are the only steps that write the store.
LEMMA StoreWrites ==
  Next => \/ UNCHANGED storeVars
          \/ \E id \in DOMAIN opening : ApplyOpening(id)
          \/ \E id \in DOMAIN closing : ApplyClosing(id)
          \/ MaybeResetDailyRisk
          \/ \E id \in toMark : MarkPosition(id)
          \/ MarkToMarket
          \/ \E side \in {"BUY", "SELL"} : Approve(side)
BY DEF Next, PrepareBar, PreDecisionEvaluate, BuildFeatures, BuildFeaturesFails, Reject,
       SignalExit, ExecuteNothing, ExecuteQueued, ExecuteFilled, Publish, PublishFails,
       Liquidate, FinishRun, Over, vars

\* Each transition leaves the store with its types.
LEMMA StoreTypeStep ==
  ASSUME IInv, Next
  PROVE  StoreTypeOK'
<1> USE DEF IInv, TypeOK
<1>1. CASE UNCHANGED storeVars
  BY <1>1 DEF StoreTypeOK, storeVars
<1>2. ASSUME NEW id \in DOMAIN opening, ApplyOpening(id)
      PROVE  StoreTypeOK'
  <2>1. opening[id] \in Position /\ id \in Ids
    BY DEF EngineTypeOK
  <2>2. Notional(opening[id]) \in Int
    BY <2>1 DEF Notional, Position
  <2>3. Fee(Notional(opening[id])) \in Int
    BY <2>2, ExecutionAssumption DEF Fee
  <2>4. Percent(Notional(opening[id]), equity) \in Int
    BY <2>2, PercentInt DEF StoreTypeOK
  <2>5. cash' \in Int /\ equity' \in Int /\ realizedPnl' \in Int
    BY <1>2, <2>2, <2>3 DEF ApplyOpening, ApplyPositionOpened, StoreTypeOK
  <2>6. risk' \in RiskState
    BY <1>2, <2>4 DEF ApplyOpening, ApplyPositionOpened, StoreTypeOK, RiskState
  <2>7. DOMAIN positions' \subseteq Ids /\ positions' \in [DOMAIN positions' -> Position]
    BY <1>2, <2>1 DEF ApplyOpening, ApplyPositionOpened, StoreTypeOK
  <2> QED
    BY <2>5, <2>6, <2>7 DEF StoreTypeOK
<1>3. ASSUME NEW id \in DOMAIN closing, ApplyClosing(id)
      PROVE  StoreTypeOK'
  <2>1. closing[id] \in Int /\ id \in DOMAIN positions
    BY DEF EngineTypeOK, BooksAgree
  <2>2. positions[id] \in Position
    BY <2>1 DEF StoreTypeOK
  <2>3. Notional(positions[id]) \in Int
    BY <2>2 DEF Notional, Position
  <2>4. Percent(Notional(positions[id]), equity) \in Int
    BY <2>3, PercentInt DEF StoreTypeOK
  <2>5. Drawdown(risk.startEquity, equity + closing[id]) \in Nat
    BY <2>1, DrawdownNat DEF StoreTypeOK, RiskState
  <2>6. cash' \in Int /\ equity' \in Int /\ realizedPnl' \in Int
    BY <1>3, <2>1, <2>3 DEF ApplyClosing, ApplyPositionClosed, Proceeds, StoreTypeOK
  <2>7. risk' \in RiskState
    <3> DEFINE exposed == AtLeastZero(risk.exposure - Percent(Notional(positions[id]), equity))
               run     == IF closing[id] >= 0 THEN 0 ELSE risk.losses + 1
    <3>1. exposed \in Int /\ run \in Nat
      BY <2>1, <2>4 DEF AtLeastZero, StoreTypeOK, RiskState
    <3> DEFINE r1 == [risk EXCEPT !.dailyPnl = @ + closing[id]]
               r2 == [r1 EXCEPT !.drawdown = Drawdown(risk.startEquity, equity + closing[id])]
               r3 == [r2 EXCEPT !.exposure = exposed]
               r4 == [r3 EXCEPT !.losses = run]
    <3>2. risk' = r4
      BY <1>3, <2>1 DEF ApplyClosing, ApplyPositionClosed
    <3> HIDE DEF exposed, run
    <3>3. r1 \in RiskState
      BY <2>1 DEF StoreTypeOK, RiskState
    <3> HIDE DEF r1
    <3>4. r2 \in RiskState
      BY <2>5, <3>3 DEF RiskState
    <3> HIDE DEF r2
    <3>5. r3 \in RiskState
      BY <3>1, <3>4 DEF RiskState
    <3> HIDE DEF r3
    <3> QED
      BY <3>1, <3>2, <3>5 DEF RiskState
  <2>8. DOMAIN positions' \subseteq Ids /\ positions' \in [DOMAIN positions' -> Position]
    BY <1>3 DEF ApplyClosing, ApplyPositionClosed, StoreTypeOK
  <2> QED
    BY <2>6, <2>7, <2>8 DEF StoreTypeOK
<1>4. CASE MaybeResetDailyRisk
  <2>1. CASE UNCHANGED storeVars
    BY <2>1, <1>1
  <2>2. CASE ApplyRiskUpdated(DayCounters)
    BY <2>2 DEF ApplyRiskUpdated, DayCounters, portfolioVars, StoreTypeOK, RiskState
  <2> QED
    BY <1>4, <2>1, <2>2 DEF MaybeResetDailyRisk
<1>5. ASSUME NEW id \in toMark, MarkPosition(id)
      PROVE  StoreTypeOK'
  <2>1. id \in DOMAIN positions /\ positions[id] \in Position
    BY DEF CycleTypeOK, StoreTypeOK
  <2>2. bar.close \in Int
    BY DEF CycleTypeOK, bar, Bar
  <2>3. Gain(positions[id], bar.close) \in Int
    BY <2>1, <2>2 DEF Gain, Position
  <2>4. CASE Revalue(id, bar.close)
    BY <1>5, <2>1, <2>3, <2>4 DEF Revalue, MarkPosition, StoreTypeOK, Position
  <2>5. CASE UNCHANGED positions
    BY <1>5, <2>5 DEF MarkPosition, StoreTypeOK
  <2> QED
    BY <1>5, <2>4, <2>5 DEF MarkPosition
<1>6. CASE MarkToMarket
  <2>1. Drawdown(risk.startEquity, cash + marketValue) \in Nat
    BY DrawdownNat DEF StoreTypeOK, CycleTypeOK, RiskState
  <2> QED
    BY <1>6, <2>1 DEF MarkToMarket, ApplyMarkToMarket, StoreTypeOK, CycleTypeOK, RiskState
<1>7. ASSUME NEW side \in {"BUY", "SELL"}, Approve(side)
      PROVE  StoreTypeOK'
  BY <1>7 DEF Approve, ApplyRiskUpdated, portfolioVars, StoreTypeOK, RiskState
<1> QED
  BY <1>1, <1>2, <1>3, <1>4, <1>5, <1>6, <1>7, StoreWrites

-----------------------------------------------------------------------------
(***************************************************************************)
(* The cycle.                                                              *)
(***************************************************************************)
\* What a step may do to the variables of the cycle.
LEMMA CycleWrites ==
  Next => /\ UNCHANGED configVars
          /\ phase' \in Phases \/ UNCHANGED phase
          /\ cycle' \in {cycle, cycle + 1}
          /\ \/ UNCHANGED <<clock, symbol, feed>>
             \/ \E s \in Symbols, b \in Bars : PrepareBar(s, b)
          /\ UNCHANGED signalsDay \/ MaybeResetDailyRisk
          /\ \/ UNCHANGED decision
             \/ decision' = NoDecision
             \/ \E side \in {"BUY", "SELL"} : Approve(side)
<1> SUFFICES ASSUME Next
             PROVE  /\ UNCHANGED configVars
                    /\ phase' \in Phases \/ UNCHANGED phase
                    /\ cycle' \in {cycle, cycle + 1}
                    /\ \/ UNCHANGED <<clock, symbol, feed>>
                       \/ \E s \in Symbols, b \in Bars : PrepareBar(s, b)
                    /\ UNCHANGED signalsDay \/ MaybeResetDailyRisk
                    /\ \/ UNCHANGED decision
                       \/ decision' = NoDecision
                       \/ \E side \in {"BUY", "SELL"} : Approve(side)
  OBVIOUS
<1> USE DEF configVars, clockVars, Phases, vars
<1>1. CASE \E s \in Symbols, b \in Bars : PrepareBar(s, b)
  BY <1>1 DEF PrepareBar
<1>2. CASE PreDecisionEvaluate \/ SignalExit \/ ExecuteNothing \/ ExecuteQueued
           \/ ExecuteFilled \/ Liquidate \/ BuildFeatures \/ Reject \/ FinishRun \/ Over
  BY <1>2 DEF PreDecisionEvaluate, SignalExit, ExecuteNothing, ExecuteQueued, ExecuteFilled,
              Liquidate, BuildFeatures, Reject, FinishRun, Over
<1>3. CASE \/ \E id \in DOMAIN opening : ApplyOpening(id)
           \/ \E id \in DOMAIN closing : ApplyClosing(id)
           \/ \E id \in toMark : MarkPosition(id)
           \/ MarkToMarket
  BY <1>3 DEF ApplyOpening, ApplyClosing, MarkPosition, MarkToMarket
<1>4. CASE BuildFeaturesFails \/ Publish \/ PublishFails
  BY <1>4 DEF BuildFeaturesFails, Publish, PublishFails, Raise
<1>5. CASE MaybeResetDailyRisk
  BY <1>5 DEF MaybeResetDailyRisk
<1>6. CASE \E side \in {"BUY", "SELL"} : Approve(side)
  BY <1>6 DEF Approve
<1> QED
  BY <1>1, <1>2, <1>3, <1>4, <1>5, <1>6 DEF Next

\* The loop of mark_to_market only ever runs over positions that are open.
LEMMA MarkWrites ==
  Next => \/ UNCHANGED <<toMark, marketValue>> /\ UNCHANGED DOMAIN positions
          \/ UNCHANGED <<toMark, marketValue>> /\ ~Settled
          \/ MaybeResetDailyRisk
          \/ \E id \in toMark : MarkPosition(id)
          \/ MarkToMarket
BY DEF Next, PrepareBar, PreDecisionEvaluate, ApplyOpening, ApplyClosing, BuildFeatures,
       BuildFeaturesFails, Approve, Reject, SignalExit, ExecuteNothing, ExecuteQueued,
       ExecuteFilled, Publish, PublishFails, Liquidate, FinishRun, Over, Raise, vars,
       Settled, markVars, storeVars, ApplyRiskUpdated, portfolioVars

\* Each step leaves the cycle with its types.
LEMMA CycleTypeStep ==
  ASSUME IInv, Next
  PROVE  CycleTypeOK'
<1> USE DEF IInv, TypeOK
<1>1. market' \in Markets /\ fillAt' \in FillModels /\ longOnly' \in BOOLEAN
  BY CycleWrites DEF CycleTypeOK, configVars
<1>2. phase' \in Phases /\ cycle' \in Nat
  BY CycleWrites DEF CycleTypeOK
<1>3. clock' \in Nat /\ symbol' \in Symbols /\ feed' \in [Symbols -> [time : Nat, bar : Bar]]
  <2>1. CASE UNCHANGED <<clock, symbol, feed>>
    BY <2>1 DEF CycleTypeOK
  <2>2. ASSUME NEW s \in Symbols, NEW b \in Bars, PrepareBar(s, b)
        PROVE  clock' \in Nat /\ symbol' \in Symbols
               /\ feed' \in [Symbols -> [time : Nat, bar : Bar]]
    <3>1. NowEventTime \in Nat /\ b \in Bar
      BY RuntimeAssumption DEF NowEventTime, CycleTypeOK
    <3> QED
      BY <2>2, <3>1 DEF PrepareBar, CycleTypeOK
  <2> QED
    BY <2>1, <2>2, CycleWrites
<1>4. signalsDay' \in Int
  <2>1. Day(time) \in Int
    BY RuntimeAssumption DEF Day, time, CycleTypeOK
  <2> QED
    BY <2>1, CycleWrites DEF MaybeResetDailyRisk, CycleTypeOK
<1>5. decision' \in FinalSignal
  <2>1. NoDecision \in FinalSignal
    BY DEF NoDecision, FinalSignal
  <2>2. market.sizes \subseteq Nat
    BY RuntimeAssumption DEF CycleTypeOK, Market
  <2>3. ASSUME NEW side \in {"BUY", "SELL"}, NEW size \in market.sizes
        PROVE  Signal(side, size) \in FinalSignal
    BY <2>2, RuntimeAssumption DEF Signal, FinalSignal, bar, Bar, CycleTypeOK
  <2> QED
    BY <2>1, <2>3, CycleWrites DEF Approve, CycleTypeOK
<1>6. marketValue' \in Int /\ toMark' \subseteq DOMAIN positions'
  <2>1. CASE UNCHANGED <<toMark, marketValue>> /\ UNCHANGED DOMAIN positions
    BY <2>1 DEF CycleTypeOK
  <2>2. CASE UNCHANGED <<toMark, marketValue>> /\ ~Settled
    BY <2>2 DEF CycleTypeOK, StepInv
  <2>3. CASE MaybeResetDailyRisk
    BY <2>3 DEF MaybeResetDailyRisk, ApplyRiskUpdated, storeVars, portfolioVars
  <2>4. ASSUME NEW id \in toMark, MarkPosition(id)
        PROVE  marketValue' \in Int /\ toMark' \subseteq DOMAIN positions'
    <3>1. id \in DOMAIN positions
      BY DEF CycleTypeOK
    <3>2. positions[id] \in Position /\ positions'[id] \in Position
      <4>1. DOMAIN positions' = DOMAIN positions
        BY <2>4 DEF MarkPosition, Revalue
      <4> QED
        BY <3>1, <4>1, StoreTypeStep DEF StoreTypeOK
    <3>3. Notional(positions[id]) \in Int /\ positions'[id].unrealizedPnl \in Int
      BY <3>2 DEF Notional, Position
    <3> QED
      BY <2>4, <3>3 DEF MarkPosition, Revalue, CycleTypeOK
  <2>5. CASE MarkToMarket
    BY <2>5 DEF MarkToMarket, ApplyMarkToMarket, CycleTypeOK
  <2> QED
    BY <2>1, <2>2, <2>3, <2>4, <2>5, MarkWrites
<1> QED
  BY <1>1, <1>2, <1>3, <1>4, <1>5, <1>6 DEF CycleTypeOK

-----------------------------------------------------------------------------
(***************************************************************************)
(* The engine and the agreement of the two books.                          *)
(***************************************************************************)
\* The steps that write the engine's books, or change which positions are open.
LEMMA EngineWrites ==
  Next => \/ UNCHANGED <<engineVars, entryFees>> /\ UNCHANGED DOMAIN positions
          \/ PreDecisionEvaluate
          \/ \E id \in DOMAIN opening : ApplyOpening(id)
          \/ \E id \in DOMAIN closing : ApplyClosing(id)
          \/ SignalExit
          \/ ExecuteQueued
          \/ ExecuteFilled
          \/ Liquidate
BY DEF Next, PrepareBar, BuildFeatures, BuildFeaturesFails, MaybeResetDailyRisk, MarkPosition,
       MarkToMarket, Approve, Reject, ExecuteNothing, Publish, PublishFails, FinishRun, Over,
       Raise, vars, storeVars, ApplyRiskUpdated, portfolioVars, ApplyMarkToMarket, Revalue

\* The cycle's bar is one of the market's.
LEMMA BarType == IInv => bar \in Bar /\ time \in Nat
BY DEF IInv, TypeOK, CycleTypeOK, bar, time

\* What the engine reports of a position it closes.
LEMMA ExitPnlTypes ==
  ASSUME IInv, NEW i \in DOMAIN positions
  PROVE  /\ ExitPnl(positions[i], bar.close) \in Int
         /\ ExitPnl(positions[i], ExitPrice(positions[i], bar)) \in Int
<1>1. positions[i] \in Position
  BY DEF IInv, TypeOK, StoreTypeOK
<1>2. bar.close \in Int
  BY BarType DEF Bar
<1>3. ExitPrice(positions[i], bar) \in Int
  BY <1>1, BarType, ExitPriceInt
<1> QED
  BY <1>1, <1>2, <1>3, ExitPnlInt

\* A size is a whole number of units, however it is capped.
LEMMA PositionSizeInt ==
  ASSUME StoreTypeOK, NEW entry \in Int, NEW stopLoss \in Int, NEW size \in Nat
  PROVE  PositionSize(entry, stopLoss, size) \in Int
<1> USE ExecutionAssumption DEF StoreTypeOK
<1>1. CASE entry <= 0 \/ (ExposurePctPerTrade = 0 /\ Distance(entry, stopLoss) = 0)
  BY <1>1 DEF PositionSize
<1>2. CASE ~(entry <= 0 \/ (ExposurePctPerTrade = 0 /\ Distance(entry, stopLoss) = 0))
  <2> DEFINE base     == IF ExposurePctPerTrade > 0
                         THEN ((equity * ExposurePctPerTrade) \div 100) \div entry
                         ELSE ((equity * RiskPctPerTrade) \div 100)
                                \div Distance(entry, stopLoss)
             byCash   == IF cash > 0 THEN cash \div entry ELSE 0
             headroom == AtLeastZero(MaxExposurePct - risk.exposure)
             byLimit  == ((headroom * equity) \div 100) \div entry
  <2>1. entry > 0
    BY <1>2
  <2>2. base \in Int
    <3>1. CASE ExposurePctPerTrade > 0
      <4>1. (equity * ExposurePctPerTrade) \div 100 \in Int
        OBVIOUS
      <4> QED
        BY <2>1, <3>1, <4>1
    <3>2. CASE ~(ExposurePctPerTrade > 0)
      <4>1. (equity * RiskPctPerTrade) \div 100 \in Int
        OBVIOUS
      <4>2. Distance(entry, stopLoss) \in Int /\ Distance(entry, stopLoss) > 0
        BY <1>2, <3>2 DEF Distance
      <4> QED
        BY <3>2, <4>1, <4>2
    <3> QED
      BY <3>1, <3>2
  <2>3. byCash \in Int
    BY <2>1
  <2>4. headroom \in Int
    BY DEF AtLeastZero, RiskState
  <2>5. byLimit \in Int
    <3>1. (headroom * equity) \div 100 \in Int
      BY <2>4
    <3> QED
      BY <2>1, <3>1
  <2>6. PositionSize(entry, stopLoss, size)
          = AtLeastZero(Least((base * size) \div 100, Least(byCash, byLimit)))
    BY <1>2 DEF PositionSize
  <2> HIDE DEF base, byCash, byLimit
  <2>7. (base * size) \div 100 \in Int
    BY <2>2
  <2> QED
    BY <2>3, <2>5, <2>6, <2>7 DEF AtLeastZero, Least
<1> QED
  BY <1>1, <1>2

\* An order that passes the gate has a size and a side.
LEMMA NewOrderType ==
  ASSUME IInv, phase = "execute", Submittable
  PROVE  NewOrder \in Order
<1>1. OrderQuantity \in Nat \ {0}
  <2>1. OrderQuantity \in Int
    <3>1. decision.entry \in Int /\ decision.stopLoss \in Int /\ decision.size \in Nat
      BY DEF IInv, TypeOK, CycleTypeOK, FinalSignal
    <3>2. PositionSize(decision.entry, decision.stopLoss, decision.size) \in Int
      BY <3>1, PositionSizeInt DEF IInv, TypeOK
    <3> QED
      BY <3>2 DEF OrderQuantity
  <2> QED
    BY <2>1 DEF Submittable
<1>2. /\ symbol \in Symbols
      /\ decision.side \in {"BUY", "SELL"}
      /\ decision.stopLoss \in Int
      /\ decision.takeProfit \in Int
  BY DEF IInv, TypeOK, CycleTypeOK, FinalSignal, StepInv
<1> QED
  BY <1>1, <1>2, BarType DEF NewOrder, Order

\* The history variable stays Boolean.
LEMMA LostType == IInv /\ Next => lost' \in BOOLEAN
BY DEF IInv, TypeOK, EngineTypeOK, Next, PrepareBar, PreDecisionEvaluate, ApplyOpening,
       ApplyClosing, BuildFeatures, BuildFeaturesFails, MaybeResetDailyRisk, MarkPosition,
       MarkToMarket, Approve, Reject, SignalExit, ExecuteNothing, ExecuteQueued, ExecuteFilled,
       Publish, PublishFails, Liquidate, FinishRun, Over, Raise, vars, eventVars

\* Each step leaves the engine's books with their types.
LEMMA EngineTypeStep ==
  ASSUME IInv, Next
  PROVE  EngineTypeOK'
<1> USE DEF IInv, TypeOK
<1>0. lost' \in BOOLEAN
  BY LostType
<1>1. CASE UNCHANGED <<engineVars, entryFees>>
  BY <1>0, <1>1 DEF EngineTypeOK, engineVars
<1>2. CASE PreDecisionEvaluate
  <2> DEFINE fills == {i \in DOMAIN pending : pending[i].symbol = symbol}
             mine  == {i \in DOMAIN positions : positions[i].symbol = symbol}
             exits == {i \in mine : Exits(positions[i], bar, held[i] + 1)}
  <2>1. Settled /\ DOMAIN held = DOMAIN positions
    BY <1>2 DEF PreDecisionEvaluate, StepInv, Settled, BooksAgree
  <2>2. opening' \in [fills -> Position]
    <3>1. ASSUME NEW i \in fills
          PROVE  Filled(pending[i], FillPrice(bar, pending[i].side, "next_open")) \in Position
      <4>1. pending[i] \in Order
        BY DEF EngineTypeOK
      <4> QED
        BY <4>1, BarType, FillPriceInt, FilledType
    <3> QED
      BY <1>2, <3>1 DEF PreDecisionEvaluate
  <2>3. closing' \in [exits -> Int]
    BY <1>2, ExitPnlTypes DEF PreDecisionEvaluate
  <2>4. pending' \in [DOMAIN pending \ fills -> Order]
    BY <1>2 DEF PreDecisionEvaluate, Without, EngineTypeOK
  <2>5. held' \in [(DOMAIN held \cup fills) \ exits -> Nat]
    BY <1>2, <2>1 DEF PreDecisionEvaluate, EngineTypeOK
  <2>6. fills \subseteq Ids /\ exits \subseteq Ids /\ DOMAIN held \subseteq Ids
        /\ DOMAIN pending \subseteq Ids
    BY DEF EngineTypeOK, StoreTypeOK
  <2> HIDE DEF fills, exits
  <2> QED
    BY <1>0, <1>2, <2>2, <2>3, <2>4, <2>5, <2>6 DEF PreDecisionEvaluate, EngineTypeOK
<1>3. ASSUME NEW id \in DOMAIN opening, ApplyOpening(id)
      PROVE  EngineTypeOK'
  <2>1. Notional(opening[id]) \in Int
    BY DEF EngineTypeOK, Notional, Position
  <2>2. Fee(Notional(opening[id])) \in Int
    BY <2>1, ExecutionAssumption DEF Fee
  <2> QED
    BY <1>0, <1>3, <2>2 DEF ApplyOpening, Without, EngineTypeOK
<1>4. ASSUME NEW id \in DOMAIN closing, ApplyClosing(id)
      PROVE  EngineTypeOK'
  BY <1>0, <1>4 DEF ApplyClosing, Without, EngineTypeOK
<1>5. CASE SignalExit \/ Liquidate
  <2>1. \E S \in SUBSET DOMAIN positions :
           /\ closing' = [i \in S |-> ExitPnl(positions[i], bar.close)]
           /\ held' = Without(held, S)
    BY <1>5 DEF SignalExit, Liquidate
  <2>2. UNCHANGED <<nextId, pending, opening, entryFees>>
    BY <1>5 DEF SignalExit, Liquidate
  <2>3. PICK S \in SUBSET DOMAIN positions :
           /\ closing' = [i \in S |-> ExitPnl(positions[i], bar.close)]
           /\ held' = Without(held, S)
    BY <2>1
  <2>4. closing' \in [S -> Int] /\ S \subseteq Ids
    BY <2>3, ExitPnlTypes DEF StoreTypeOK
  <2> QED
    BY <1>0, <2>2, <2>3, <2>4 DEF Without, EngineTypeOK
<1>6. CASE ExecuteQueued
  <2>1. NewOrder \in Order
    BY <1>6, NewOrderType DEF ExecuteQueued
  <2> QED
    BY <1>0, <1>6, <2>1 DEF ExecuteQueued, EngineTypeOK, Ids
<1>7. CASE ExecuteFilled
  <2>1. Filled(NewOrder, FillPrice(bar, decision.side, fillAt)) \in Position
    BY <1>7, NewOrderType, BarType, FillPriceInt, FilledType DEF ExecuteFilled
  <2> QED
    BY <1>0, <1>7, <2>1 DEF ExecuteFilled, EngineTypeOK, Ids
<1> QED
  BY <1>1, <1>2, <1>3, <1>4, <1>5, <1>6, <1>7, EngineWrites

\* Each step keeps the two books in agreement.
LEMMA BooksStep ==
  ASSUME IInv, Next
  PROVE  BooksAgree'
<1> USE DEF IInv, TypeOK, BooksAgree
<1>1. CASE UNCHANGED <<engineVars, entryFees>> /\ UNCHANGED DOMAIN positions
  BY <1>1 DEF engineVars
<1>2. CASE PreDecisionEvaluate
  <2> DEFINE fills == {i \in DOMAIN pending : pending[i].symbol = symbol}
             mine  == {i \in DOMAIN positions : positions[i].symbol = symbol}
             exits == {i \in mine : Exits(positions[i], bar, held[i] + 1)}
  <2>1. Settled /\ DOMAIN held = DOMAIN positions
    BY <1>2 DEF PreDecisionEvaluate, StepInv, Settled
  <2>2. /\ DOMAIN opening' = fills
        /\ DOMAIN closing' = exits
        /\ DOMAIN pending' = DOMAIN pending \ fills
        /\ DOMAIN held' = (DOMAIN held \cup fills) \ exits
        /\ UNCHANGED <<nextId, positions>>
    BY <1>2 DEF PreDecisionEvaluate, Without, storeVars
  <2>3. fills \subseteq DOMAIN pending /\ exits \subseteq DOMAIN positions
    OBVIOUS
  <2> HIDE DEF fills, exits
  <2> QED
    BY <2>1, <2>2, <2>3 DEF Settled
<1>3. ASSUME NEW id \in DOMAIN opening, ApplyOpening(id)
      PROVE  BooksAgree'
  <2>1. /\ DOMAIN opening' = DOMAIN opening \ {id}
        /\ DOMAIN positions' = DOMAIN positions \cup {id}
        /\ UNCHANGED <<nextId, pending, held, closing>>
    BY <1>3 DEF ApplyOpening, ApplyPositionOpened, Without
  <2> QED
    BY <2>1
<1>4. ASSUME NEW id \in DOMAIN closing, ApplyClosing(id)
      PROVE  BooksAgree'
  <2>1. /\ DOMAIN closing' = DOMAIN closing \ {id}
        /\ DOMAIN positions' = DOMAIN positions \ {id}
        /\ DOMAIN opening = {}
        /\ UNCHANGED <<nextId, pending, held, opening>>
    BY <1>4 DEF ApplyClosing, ApplyPositionClosed, Without
  <2> QED
    BY <2>1
<1>5. CASE SignalExit \/ Liquidate
  <2>1. Settled
    BY <1>5 DEF SignalExit, Liquidate, StepInv
  <2>2. \E S \in SUBSET DOMAIN positions :
           DOMAIN closing' = S /\ DOMAIN held' = DOMAIN held \ S
    BY <1>5 DEF SignalExit, Liquidate, Without
  <2>3. UNCHANGED <<nextId, pending, opening, positions>>
    BY <1>5 DEF SignalExit, Liquidate, storeVars
  <2> QED
    BY <2>1, <2>2, <2>3 DEF Settled
<1>6. CASE ExecuteQueued
  <2>1. nextId \in Nat /\ nextId' = nextId + 1 /\ DOMAIN pending' = DOMAIN pending \cup {nextId}
        /\ UNCHANGED <<held, opening, closing, positions>>
    BY <1>6 DEF ExecuteQueued, storeVars, EngineTypeOK, Ids
  <2>2. \A i \in DOMAIN pending \cup DOMAIN positions \cup DOMAIN opening : i \in Nat
    BY DEF EngineTypeOK, StoreTypeOK, Ids
  <2> QED
    BY <2>1, <2>2
<1>7. CASE ExecuteFilled
  <2>1. nextId \in Nat /\ nextId' = nextId + 1 /\ DOMAIN opening' = {nextId}
        /\ DOMAIN held' = DOMAIN held \cup {nextId} /\ Settled
        /\ UNCHANGED <<pending, closing, positions>>
    BY <1>7 DEF ExecuteFilled, storeVars, EngineTypeOK, Ids
  <2>2. \A i \in DOMAIN pending \cup DOMAIN positions : i \in Nat
    BY DEF EngineTypeOK, StoreTypeOK, Ids
  <2> QED
    BY <2>1, <2>2 DEF Settled
<1> QED
  BY <1>1, <1>2, <1>3, <1>4, <1>5, <1>6, <1>7, EngineWrites

-----------------------------------------------------------------------------
(***************************************************************************)
(* The steps of a cycle.                                                   *)
(***************************************************************************)
\* Each step of a cycle leaves the next one what it relies on.
LEMMA StepInvStep ==
  ASSUME IInv, Next
  PROVE  StepInv'
<1> USE DEF IInv, StepInv
<1>1. CASE \/ \E s \in Symbols, b \in Bars : PrepareBar(s, b)
           \/ BuildFeatures \/ BuildFeaturesFails \/ Reject \/ ExecuteNothing
           \/ Publish \/ PublishFails \/ FinishRun
  BY <1>1 DEF PrepareBar, BuildFeatures, BuildFeaturesFails, Reject, ExecuteNothing, Publish,
              PublishFails, FinishRun, Raise, Settled, engineVars, markVars
<1>2. CASE PreDecisionEvaluate \/ SignalExit \/ Liquidate \/ ExecuteQueued \/ ExecuteFilled
  BY <1>2 DEF PreDecisionEvaluate, SignalExit, Liquidate, ExecuteQueued, ExecuteFilled, markVars
<1>3. CASE \/ \E id \in DOMAIN opening : ApplyOpening(id)
           \/ \E id \in DOMAIN closing : ApplyClosing(id)
  BY <1>3 DEF ApplyOpening, ApplyClosing, Settled, markVars
<1>4. CASE MaybeResetDailyRisk
  BY <1>4 DEF MaybeResetDailyRisk, Settled, engineVars
<1>5. CASE (\E id \in toMark : MarkPosition(id)) \/ MarkToMarket
  BY <1>5 DEF MarkPosition, MarkToMarket, Settled, engineVars
<1>6. ASSUME NEW side \in {"BUY", "SELL"}, Approve(side)
      PROVE  StepInv'
  BY <1>6 DEF Approve, Signal, Settled, engineVars, markVars
<1>7. CASE Over
  BY <1>7 DEF Over, vars, Settled, markVars, engineVars
<1> QED
  BY <1>1, <1>2, <1>3, <1>4, <1>5, <1>6, <1>7 DEF Next

\* The three parts of the invariant hold in every state of every run.
THEOREM Invariance == Spec => []IInv
<1>1. Init => IInv
  BY InitIInv
<1>2. IInv /\ [Next]_vars => IInv'
  <2> SUFFICES ASSUME IInv, [Next]_vars PROVE IInv'
    OBVIOUS
  <2>1. CASE Next
    BY <2>1, StoreTypeStep, CycleTypeStep, EngineTypeStep, BooksStep, StepInvStep
    DEF IInv, TypeOK
  <2>2. CASE UNCHANGED vars
    <3> USE <2>2 DEF IInv, vars
    <3>1. StoreTypeOK'
      BY DEF TypeOK, StoreTypeOK, storeVars
    <3>2. CycleTypeOK'
      BY DEF TypeOK, CycleTypeOK, storeVars, configVars, clockVars, markVars
    <3>3. EngineTypeOK'
      BY DEF TypeOK, EngineTypeOK, engineVars, eventVars
    <3>4. BooksAgree'
      BY DEF BooksAgree, engineVars, storeVars
    <3>5. StepInv'
      BY DEF StepInv, Settled, engineVars, markVars
    <3> QED
      BY <3>1, <3>2, <3>3, <3>4, <3>5 DEF TypeOK
  <2> QED
    BY <2>1, <2>2
<1> QED
  BY <1>1, <1>2, PTL DEF Spec

\* Every variable keeps its type: quantities stay positive, drawdowns natural.
THEOREM TypeCorrect == Spec => []TypeOK
BY Invariance, PTL DEF IInv

\* The engine's books and the store's agree, up to the transitions still to be
\* applied, in every state of every run.
THEOREM BooksAlwaysAgree == Spec => []BooksAgree
BY Invariance, PTL DEF IInv

-----------------------------------------------------------------------------
(***************************************************************************)
(* Consequences, and properties with an invariant of their own.            *)
(***************************************************************************)

\* The bars a position has been held are counted on every bar of its symbol, so
\* none outlives the timeout.
THEOREM NeverOverstays == Spec => []NoOverstay
<1>1. Init => NoOverstay
  BY DEF Init, NoOverstay, Empty
<1>2. IInv /\ NoOverstay /\ [Next]_vars => NoOverstay'
  <2> SUFFICES ASSUME IInv, NoOverstay, [Next]_vars PROVE NoOverstay'
    OBVIOUS
  <2> USE ExecutionAssumption DEF NoOverstay
  <2>1. CASE UNCHANGED held
    BY <2>1
  <2>2. CASE PreDecisionEvaluate
    <3>1. DOMAIN held = DOMAIN positions
      BY <2>2 DEF PreDecisionEvaluate, IInv, StepInv, Settled, BooksAgree
    <3> QED
      BY <2>2, <3>1 DEF PreDecisionEvaluate, Exits, TimedOut, IInv, TypeOK, EngineTypeOK
  <2>3. CASE SignalExit \/ Liquidate
    BY <2>3 DEF SignalExit, Liquidate, Without
  <2>4. CASE ExecuteFilled
    BY <2>4 DEF ExecuteFilled
  <2> QED
    BY <2>1, <2>2, <2>3, <2>4, EngineWrites
    DEF ApplyOpening, ApplyClosing, ExecuteQueued, engineVars, vars
<1> QED
  BY <1>1, <1>2, Invariance, PTL DEF Spec

\* A day that starts at the present equity starts without drawdown.
LEMMA NoDrawdown ==
  ASSUME NEW eq \in Int
  PROVE  Drawdown(eq, eq) = 0
<1>1. Percent(0, eq) = 0
  BY DEF Percent
<1> QED
  BY <1>1 DEF Drawdown, AtLeastZero

\* The drawdown of the risk state is that of the portfolio beside it.
THEOREM DrawdownStaysCurrent == Spec => []DrawdownIsCurrent
<1>1. Init => DrawdownIsCurrent
  BY NoDrawdown, StoreAssumption DEF Init, StoreInit, DrawdownIsCurrent
<1>2. IInv /\ DrawdownIsCurrent /\ [Next]_vars => DrawdownIsCurrent'
  <2> SUFFICES ASSUME IInv, DrawdownIsCurrent, [Next]_vars PROVE DrawdownIsCurrent'
    OBVIOUS
  <2> USE DEF DrawdownIsCurrent, IInv, TypeOK, StoreTypeOK, RiskState
  <2>1. CASE UNCHANGED storeVars
    BY <2>1 DEF storeVars, Drawdown
  <2>2. ASSUME NEW id \in DOMAIN opening, ApplyOpening(id)
        PROVE  DrawdownIsCurrent'
    BY <2>2 DEF ApplyOpening, ApplyPositionOpened, Drawdown
  <2>3. ASSUME NEW id \in DOMAIN closing, ApplyClosing(id)
        PROVE  DrawdownIsCurrent'
    BY <2>3 DEF ApplyClosing, ApplyPositionClosed, Drawdown
  <2>4. CASE MaybeResetDailyRisk
    <3>1. CASE ApplyRiskUpdated(DayCounters)
      BY <3>1, NoDrawdown DEF ApplyRiskUpdated, DayCounters, portfolioVars
    <3> QED
      BY <2>1, <2>4, <3>1 DEF MaybeResetDailyRisk
  <2>5. ASSUME NEW id \in toMark, MarkPosition(id)
        PROVE  DrawdownIsCurrent'
    BY <2>5 DEF MarkPosition, Drawdown
  <2>6. CASE MarkToMarket
    BY <2>6 DEF MarkToMarket, ApplyMarkToMarket, Drawdown
  <2>7. ASSUME NEW side \in {"BUY", "SELL"}, Approve(side)
        PROVE  DrawdownIsCurrent'
    BY <2>7 DEF Approve, ApplyRiskUpdated, portfolioVars, Drawdown
  <2> QED
    BY <2>1, <2>2, <2>3, <2>4, <2>5, <2>6, <2>7, StoreWrites DEF vars
<1> QED
  BY <1>1, <1>2, Invariance, PTL DEF Spec


\* An account that is flat after MaxConsecutiveLosses losses in a row never opens a
\* position again: nothing but a winning close ends the run of losses.
THEOREM LockedOutForever == Spec => LockoutIsPermanent
<1>1. IInv /\ [Next]_vars => [LockedOut => LockedOut']_vars
  <2> SUFFICES ASSUME IInv, Next, LockedOut PROVE LockedOut'
    BY DEF LockedOut, Settled, vars, storeVars, engineVars
  <2> USE DEF LockedOut, IInv
  <2>1. DOMAIN positions = {} /\ toMark = {}
    BY DEF BooksAgree, Settled, TypeOK, CycleTypeOK
  <2>2. CASE \/ \E s \in Symbols, b \in Bars : PrepareBar(s, b)
             \/ BuildFeatures \/ BuildFeaturesFails \/ Reject \/ ExecuteNothing
             \/ Publish \/ PublishFails \/ FinishRun \/ Over
    BY <2>2 DEF PrepareBar, BuildFeatures, BuildFeaturesFails, Reject, ExecuteNothing, Publish,
                PublishFails, FinishRun, Over, vars, Raise, Settled, engineVars, storeVars
  <2>3. CASE PreDecisionEvaluate
    <3>1. DOMAIN opening' = {} /\ DOMAIN closing' = {} /\ DOMAIN pending' = {}
          /\ DOMAIN held' = {}
      BY <2>1, <2>3 DEF PreDecisionEvaluate, Without
    <3> QED
      BY <2>3, <3>1 DEF PreDecisionEvaluate, Settled, storeVars
  <2>4. CASE Liquidate
    <3>1. DOMAIN closing' = {} /\ DOMAIN held' = {}
      BY <2>1, <2>4 DEF Liquidate, Without
    <3> QED
      BY <2>4, <3>1 DEF Liquidate, Settled, storeVars
  <2>5. CASE MaybeResetDailyRisk
    <3>1. risk'.losses = risk.losses
      BY <2>5 DEF MaybeResetDailyRisk, ApplyRiskUpdated, DayCounters, storeVars, TypeOK,
                  StoreTypeOK, RiskState
    <3> QED
      BY <2>5, <3>1 DEF MaybeResetDailyRisk, Settled, engineVars
  <2>6. CASE MarkToMarket
    <3>1. risk'.losses = risk.losses
      BY <2>6 DEF MarkToMarket, ApplyMarkToMarket, TypeOK, StoreTypeOK, RiskState
    <3> QED
      BY <2>6, <3>1 DEF MarkToMarket, Settled, engineVars
  <2>7. ASSUME NEW side \in {"BUY", "SELL"}, Approve(side)
        PROVE  FALSE
    BY <2>7, RuntimeAssumption DEF Approve, RiskPasses, TypeOK, StoreTypeOK, RiskState
  <2> QED
    BY <2>1, <2>2, <2>3, <2>4, <2>5, <2>6, <2>7
    DEF Next, Settled, SignalExit, ExecuteQueued, ExecuteFilled
<1> QED
  BY <1>1, Invariance, PTL DEF Spec, LockoutIsPermanent

\* Over a clock that is set to each bar, time counts the cycles, and what waits was
\* decided in an earlier cycle until this cycle's own order joins it.
TimeInv ==
  ~market.wall =>
    /\ phase \in Phases \ {"idle", "failed", "liquidate", "done"} => time = cycle + 1
    /\ \A i \in DOMAIN pending :
         pending[i].decided <= IF phase = "publish" THEN cycle + 1 ELSE cycle

\* Each step of a validation run keeps time and the waiting orders in order.
LEMMA TimeStep ==
  ASSUME IInv, TimeInv, Next
  PROVE  TimeInv'
<1> SUFFICES ASSUME ~market.wall PROVE TimeInv'
  BY CycleWrites DEF configVars, TimeInv
<1> USE DEF TimeInv, IInv, TypeOK
<1>0. cycle \in Nat /\ \A i \in DOMAIN pending : pending[i].decided \in Nat
  BY DEF CycleTypeOK, EngineTypeOK, Order
<1>1. ASSUME NEW s \in Symbols, NEW b \in Bars, PrepareBar(s, b)
      PROVE  TimeInv'
  <2>1. time' = cycle + 1
    BY <1>1 DEF PrepareBar, NowEventTime, time, CycleTypeOK
  <2> QED
    BY <1>0, <1>1, <2>1 DEF PrepareBar, engineVars, Phases
<1>2. CASE PreDecisionEvaluate
  BY <1>0, <1>2 DEF PreDecisionEvaluate, clockVars, time, Phases, Without
<1>3. CASE SignalExit \/ Liquidate \/ ExecuteNothing \/ ExecuteFilled
  BY <1>0, <1>3 DEF SignalExit, Liquidate, ExecuteNothing, ExecuteFilled, clockVars, engineVars,
                    time, Phases
<1>4. CASE ExecuteQueued
  <2>1. time = cycle + 1 /\ phase # "publish"
    BY <1>4 DEF ExecuteQueued, Phases
  <2> QED
    BY <1>0, <1>4, <2>1 DEF ExecuteQueued, NewOrder, clockVars, time, Phases
<1>5. CASE BuildFeaturesFails \/ Publish \/ PublishFails
  BY <1>0, <1>5 DEF BuildFeaturesFails, Publish, PublishFails, Raise, engineVars, Phases
<1>6. CASE BuildFeatures \/ Reject \/ FinishRun
  BY <1>0, <1>6 DEF BuildFeatures, Reject, FinishRun, clockVars, engineVars, time, Phases
<1>7. CASE MaybeResetDailyRisk \/ MarkToMarket
  BY <1>0, <1>7 DEF MaybeResetDailyRisk, MarkToMarket, clockVars, engineVars, time, Phases
<1>8. CASE \/ \E id \in DOMAIN opening : ApplyOpening(id)
           \/ \E id \in DOMAIN closing : ApplyClosing(id)
           \/ \E id \in toMark : MarkPosition(id)
           \/ \E side \in {"BUY", "SELL"} : Approve(side)
  BY <1>0, <1>8 DEF ApplyOpening, ApplyClosing, MarkPosition, Approve, clockVars, engineVars,
                    time, Phases
<1>9. CASE Over
  BY <1>9 DEF Over, vars, clockVars, engineVars, time
<1> QED
  BY <1>1, <1>2, <1>3, <1>4, <1>5, <1>6, <1>7, <1>8, <1>9 DEF Next

\* In a validation run no order fills on the bar whose decision queued it.
THEOREM NoLookAhead == Spec => FillsNextBar
<1>1. Init => TimeInv
  BY DEF Init, TimeInv, Empty
<1>2. IInv /\ TimeInv /\ [Next]_vars => TimeInv'
  <2>1. ASSUME TimeInv, UNCHANGED vars PROVE TimeInv'
    BY <2>1 DEF TimeInv, vars, configVars, clockVars, engineVars, time
  <2> QED
    BY <2>1, TimeStep
<1>3. IInv /\ TimeInv /\ [Next]_vars
        => [~market.wall =>
              \A i \in DOMAIN pending \ DOMAIN pending' : pending[i].decided < time]_vars
  <2> SUFFICES ASSUME IInv, TimeInv, Next, ~market.wall, NEW i \in DOMAIN pending \ DOMAIN pending'
               PROVE  pending[i].decided < time
    OBVIOUS
  <2>1. PreDecisionEvaluate
    BY EngineWrites DEF ApplyOpening, ApplyClosing, SignalExit, ExecuteQueued, ExecuteFilled,
                        Liquidate, engineVars
  <2> QED
    BY <2>1 DEF PreDecisionEvaluate, TimeInv, Phases, IInv, TypeOK, CycleTypeOK, EngineTypeOK,
                Order
<1> QED
  BY <1>1, <1>2, <1>3, Invariance, PTL DEF Spec, FillsNextBar


\* What waits for the cycle's symbol has filled before the decision; and once the
\* same-bar exits are through, what is still held agrees with the decision.
SideInv ==
  /\ phase \in {"features", "risk", "mark", "decide", "signal_exit", "execute"} =>
       \A k \in DOMAIN pending : pending[k].symbol # symbol
  /\ phase = "execute" =>
       \A i \in DOMAIN held :
         Open(i).symbol = symbol => Open(i).side = PositionSide(decision.side)

\* Each step keeps every symbol on one side.
LEMMA SideStep ==
  ASSUME IInv, OneSided, SideInv, Next
  PROVE  OneSided' /\ SideInv'
<1> USE DEF OneSided, SideInv, IInv, BooksAgree
<1>1. CASE PreDecisionEvaluate
  <2> DEFINE fills == {i \in DOMAIN pending : pending[i].symbol = symbol}
  <2>1. Settled /\ DOMAIN held = DOMAIN positions /\ DOMAIN opening = {}
    BY <1>1 DEF PreDecisionEvaluate, StepInv, Settled
  <2>2. /\ DOMAIN held' \subseteq DOMAIN held \cup fills
        /\ DOMAIN opening' = fills
        /\ pending' = [i \in DOMAIN pending \ fills |-> pending[i]]
        /\ UNCHANGED <<positions, symbol>>
        /\ phase' = "features"
    BY <1>1 DEF PreDecisionEvaluate, storeVars, clockVars, Without
  <2>3. \A i \in fills : /\ Open(i)'.symbol = pending[i].symbol
                         /\ Open(i)'.side = PositionSide(pending[i].side)
    BY <1>1 DEF PreDecisionEvaluate, Open, Filled
  <2>4. \A i \in DOMAIN held : Open(i) = positions[i] /\ Open(i)' = positions[i]
    BY <2>1, <2>2 DEF Open
  <2> HIDE DEF fills
  <2>5. \A i, j \in DOMAIN held' :
          Open(i)'.symbol = Open(j)'.symbol => Open(i)'.side = Open(j)'.side
    <3> SUFFICES ASSUME NEW i \in DOMAIN held', NEW j \in DOMAIN held',
                        Open(i)'.symbol = Open(j)'.symbol
                 PROVE  Open(i)'.side = Open(j)'.side
      OBVIOUS
    <3>1. fills \subseteq DOMAIN pending
      BY DEF fills
    <3>2. CASE i \in fills /\ j \in fills
      BY <2>3, <3>1, <3>2
    <3>3. CASE i \in fills /\ j \in DOMAIN held
      BY <2>3, <2>4, <3>1, <3>3
    <3>4. CASE i \in DOMAIN held /\ j \in fills
      BY <2>3, <2>4, <3>1, <3>4
    <3>5. CASE i \in DOMAIN held /\ j \in DOMAIN held
      BY <2>4, <3>5
    <3> QED
      BY <2>2, <3>2, <3>3, <3>4, <3>5
  <2>6. \A i \in DOMAIN held', k \in DOMAIN pending' :
          Open(i)'.symbol = pending'[k].symbol => Open(i)'.side = PositionSide(pending'[k].side)
    <3> SUFFICES ASSUME NEW i \in DOMAIN held', NEW k \in DOMAIN pending',
                        Open(i)'.symbol = pending'[k].symbol
                 PROVE  Open(i)'.side = PositionSide(pending'[k].side)
      OBVIOUS
    <3>1. fills \subseteq DOMAIN pending /\ k \in DOMAIN pending /\ pending'[k] = pending[k]
      BY <2>2 DEF fills
    <3>2. CASE i \in fills
      BY <2>3, <3>1, <3>2
    <3>3. CASE i \in DOMAIN held
      BY <2>4, <3>1, <3>3
    <3> QED
      BY <2>2, <3>2, <3>3
  <2>7. \A k, l \in DOMAIN pending' :
          pending'[k].symbol = pending'[l].symbol => pending'[k].side = pending'[l].side
    BY <2>2
  <2>8. \A k \in DOMAIN pending' : pending'[k].symbol # symbol'
    BY <2>2 DEF fills
  <2> QED
    BY <2>2, <2>5, <2>6, <2>7, <2>8
<1>2. ASSUME NEW id \in DOMAIN opening, ApplyOpening(id)
      PROVE  OneSided' /\ SideInv'
  <2>1. \A i \in DOMAIN held : Open(i)' = Open(i)
    BY <1>2 DEF ApplyOpening, ApplyPositionOpened, Open, Without
  <2>2. UNCHANGED <<held, pending, phase, symbol, decision>>
    BY <1>2 DEF ApplyOpening, clockVars
  <2> QED
    BY <2>1, <2>2
<1>3. ASSUME NEW id \in DOMAIN closing, ApplyClosing(id)
      PROVE  OneSided' /\ SideInv'
  <2>1. \A i \in DOMAIN held : Open(i)' = Open(i)
    BY <1>3 DEF ApplyClosing, ApplyPositionClosed, Open
  <2>2. UNCHANGED <<held, pending, phase, symbol, decision>>
    BY <1>3 DEF ApplyClosing, clockVars
  <2> QED
    BY <2>1, <2>2
<1>4. ASSUME NEW id \in toMark, MarkPosition(id)
      PROVE  OneSided' /\ SideInv'
  <2>1. \A i \in DOMAIN held : Open(i)'.symbol = Open(i).symbol /\ Open(i)'.side = Open(i).side
    <3>1. DOMAIN opening = {} /\ opening' = opening /\ id \in DOMAIN positions
      BY <1>4 DEF MarkPosition, engineVars, StepInv, Settled, TypeOK, CycleTypeOK
    <3>2. \A i \in DOMAIN positions : /\ positions'[i].symbol = positions[i].symbol
                                      /\ positions'[i].side = positions[i].side
      <4>1. CASE UNCHANGED positions
        BY <4>1
      <4>2. CASE Revalue(id, bar.close)
        BY <4>2, <3>1 DEF Revalue, TypeOK, StoreTypeOK, Position
      <4> QED
        BY <1>4, <4>1, <4>2 DEF MarkPosition
    <3> QED
      BY <3>1, <3>2 DEF Open
  <2>2. UNCHANGED <<held, pending, symbol, phase, decision>> /\ phase = "mark"
    BY <1>4 DEF MarkPosition, engineVars, clockVars
  <2> QED
    BY <2>1, <2>2
<1>5. CASE SignalExit
  <2> DEFINE exits == {i \in DOMAIN positions : /\ positions[i].symbol = symbol
                                                /\ Opposes(positions[i].side, decision.side)}
  <2>1. DOMAIN opening = {} /\ DOMAIN held = DOMAIN positions /\ decision.side \in {"BUY", "SELL"}
    BY <1>5 DEF SignalExit, StepInv, Settled
  <2>2. /\ DOMAIN held' = DOMAIN held \ exits
        /\ UNCHANGED <<positions, opening, pending, symbol, decision>>
        /\ phase = "signal_exit" /\ phase' = "execute"
    BY <1>5 DEF SignalExit, Without, storeVars, clockVars
  <2>3. \A i \in DOMAIN held' : Open(i)' = Open(i) /\ Open(i) = positions[i]
    BY <2>1, <2>2 DEF Open
  <2>4. \A i \in DOMAIN held' :
          Open(i)'.symbol = symbol => Open(i)'.side = PositionSide(decision.side)
    <3>1. \A i \in DOMAIN positions : positions[i].side \in {"LONG", "SHORT"}
      BY DEF TypeOK, StoreTypeOK, Position
    <3> QED
      BY <2>1, <2>2, <2>3, <3>1 DEF Opposes, PositionSide
  <2> QED
    BY <2>2, <2>3, <2>4
<1>6. CASE Liquidate
  <2>1. DOMAIN held' \subseteq DOMAIN held /\ UNCHANGED <<positions, opening, pending>>
        /\ phase' = "liquidate"
    BY <1>6 DEF Liquidate, Without, storeVars
  <2>2. \A i \in DOMAIN held' : Open(i)' = Open(i)
    BY <2>1 DEF Open
  <2> QED
    BY <2>1, <2>2
<1>7. CASE ExecuteQueued
  <2>1. /\ UNCHANGED <<held, positions, opening>>
        /\ DOMAIN pending' = DOMAIN pending \cup {nextId}
        /\ pending'[nextId].symbol = symbol
        /\ pending'[nextId].side = decision.side
        /\ phase = "execute" /\ phase' = "publish"
        /\ nextId \notin DOMAIN pending
        /\ \A k \in DOMAIN pending : pending'[k] = pending[k]
    BY <1>7 DEF ExecuteQueued, NewOrder, storeVars, TypeOK, EngineTypeOK, Ids
  <2>2. \A i \in DOMAIN held : Open(i)' = Open(i)
    BY <2>1 DEF Open
  <2> QED
    BY <2>1, <2>2
<1>8. CASE ExecuteFilled
  <2>0. PICK n : n = nextId
    OBVIOUS
  <2>1. /\ UNCHANGED <<positions, pending, symbol>>
        /\ DOMAIN opening = {}
        /\ DOMAIN opening' = {n}
        /\ opening'[n].symbol = symbol
        /\ opening'[n].side = PositionSide(decision.side)
        /\ DOMAIN held' = DOMAIN held \cup {n}
        /\ DOMAIN closing = {}
        /\ n \notin DOMAIN held
        /\ phase = "execute" /\ phase' = "publish"
    BY <1>8, <2>0 DEF ExecuteFilled, NewOrder, Filled, storeVars, clockVars, Settled, TypeOK,
                EngineTypeOK, Ids
  <2>2. \A i \in DOMAIN held : Open(i)' = Open(i)
    BY <2>1 DEF Open
  <2>3. Open(n)' = opening'[n]
    BY <2>1 DEF Open
  <2> QED
    BY <2>1, <2>2, <2>3
<1>9. CASE UNCHANGED <<engineVars, positions>> /\ ~PreDecisionEvaluate /\ ~SignalExit
  <2>1. \A i \in DOMAIN held : Open(i)' = Open(i)
    BY <1>9 DEF Open, engineVars
  <2>2. OneSided'
    BY <1>9, <2>1 DEF engineVars
  <2>3. \/ phase' \notin {"features", "risk", "mark", "decide", "signal_exit", "execute"}
        \/ /\ phase \in {"features", "risk", "mark", "decide"}
           /\ phase' # "execute" /\ UNCHANGED symbol
        \/ UNCHANGED <<phase, symbol, decision>>
    BY <1>9 DEF Next, PrepareBar, ApplyOpening, ApplyClosing, BuildFeatures,
       BuildFeaturesFails, MaybeResetDailyRisk, MarkPosition, MarkToMarket, Approve, Reject,
       ExecuteNothing, ExecuteQueued, ExecuteFilled, Publish, PublishFails,
       Liquidate, FinishRun, Over, Raise, vars, clockVars
  <2>4. SideInv'
    BY <1>9, <2>1, <2>3 DEF engineVars
  <2> QED
    BY <2>2, <2>4
<1> QED
  BY <1>1, <1>2, <1>3, <1>4, <1>5, <1>6, <1>7, <1>8, <1>9
  DEF Next, PrepareBar, BuildFeatures, BuildFeaturesFails, MaybeResetDailyRisk, MarkToMarket,
      Approve, Reject, ExecuteNothing, Publish, PublishFails, FinishRun, Over, vars, storeVars,
      ApplyRiskUpdated, portfolioVars, ApplyMarkToMarket

\* A symbol is never long and short at once, waiting orders included.
THEOREM AlwaysOneSided == Spec => []OneSided
<1>1. Init => OneSided /\ SideInv
  BY DEF Init, OneSided, SideInv, Empty
<1>2. IInv /\ OneSided /\ SideInv /\ [Next]_vars => OneSided' /\ SideInv'
  <2>1. ASSUME OneSided, SideInv, UNCHANGED vars PROVE OneSided' /\ SideInv'
    BY <2>1 DEF OneSided, SideInv, Open, vars, engineVars, storeVars, clockVars
  <2> QED
    BY <2>1, SideStep
<1> QED
  BY <1>1, <1>2, Invariance, PTL DEF Spec

-----------------------------------------------------------------------------
(***************************************************************************)
(* The execution events.                                                   *)
(***************************************************************************)

\* Fills and closes that enter the report as they enter the books.
LEMMA Reported ==
  ASSUME AuditTrail, NEW fills, NEW exits, events' = Report(fills, exits),
         published' = published, lost' = lost,
         Opened' = Opened \cup fills, Closed' = Closed \cup exits
  PROVE  AuditTrail'
<1> DEFINE news == {<<"opened", i>> : i \in fills} \cup {<<"closed", i>> : i \in exits}
<1>1. Happened' = Happened \cup news
  BY DEF Happened
<1>2. events' = events \cup news
  BY DEF Report
<1> HIDE DEF news
<1> QED
  BY <1>1, <1>2 DEF AuditTrail

\* What has been opened and closed is told by the ids given out and the books.
LEMMA Unreported ==
  ASSUME AuditTrail, Opened' = Opened, Closed' = Closed,
         \/ UNCHANGED eventVars
         \/ published' \cup events' = published \cup events /\ lost' = lost
         \/ published' \cup events' \subseteq published \cup events /\ lost'
  PROVE  AuditTrail'
<1>1. Happened' = Happened
  BY DEF Happened
<1> QED
  BY <1>1 DEF AuditTrail, eventVars

\* Each step reports what it does to the books, or raises.
LEMMA AuditStep ==
  ASSUME IInv, AuditTrail, Next
  PROVE  AuditTrail'
<1>1. nextId \in Nat /\ nextId > 0 /\ DOMAIN pending \subseteq Ids /\ DOMAIN held \subseteq Ids
  BY DEF IInv, TypeOK, EngineTypeOK, Ids
<1>2. /\ DOMAIN held \subseteq DOMAIN positions \cup DOMAIN opening
      /\ DOMAIN pending \cap DOMAIN held = {}
      /\ DOMAIN pending \subseteq 1 .. nextId - 1
      /\ DOMAIN held \subseteq 1 .. nextId - 1
  BY <1>1 DEF IInv, BooksAgree, Ids
<1>3. CASE PreDecisionEvaluate
  <2> DEFINE fills == {i \in DOMAIN pending : pending[i].symbol = symbol}
             mine  == {i \in DOMAIN positions : positions[i].symbol = symbol}
             exits == {i \in mine : Exits(positions[i], bar, held[i] + 1)}
  <2>1. DOMAIN held = DOMAIN positions
    BY <1>3 DEF PreDecisionEvaluate, IInv, StepInv, Settled, BooksAgree
  <2>2. /\ DOMAIN pending' = DOMAIN pending \ fills
        /\ DOMAIN held' = (DOMAIN held \cup fills) \ exits
        /\ events' = Report(fills, exits)
        /\ UNCHANGED <<nextId, published, lost>>
    BY <1>3 DEF PreDecisionEvaluate, Without
  <2>3. fills \subseteq DOMAIN pending /\ exits \subseteq DOMAIN held
    BY <2>1
  <2> HIDE DEF fills, exits
  <2>4. Opened' = Opened \cup fills
    BY <1>2, <2>2, <2>3 DEF Opened
  <2>5. Closed' = Closed \cup exits
    BY <1>2, <2>2, <2>3, <2>4 DEF Opened, Closed
  <2> QED
    BY <2>2, <2>4, <2>5, Reported
<1>4. CASE SignalExit \/ Liquidate
  <2>1. DOMAIN held = DOMAIN positions
    BY <1>4 DEF SignalExit, Liquidate, IInv, StepInv, Settled, BooksAgree
  <2>2. PICK exits \in SUBSET DOMAIN positions :
          /\ DOMAIN held' = DOMAIN held \ exits
          /\ events' = Report({}, exits)
    BY <1>4 DEF SignalExit, Liquidate, Without
  <2>3. UNCHANGED <<nextId, pending, published, lost>>
    BY <1>4 DEF SignalExit, Liquidate
  <2>4. Opened' = Opened \cup {}
    BY <2>3 DEF Opened
  <2>5. Closed' = Closed \cup exits
    BY <1>2, <2>1, <2>2, <2>4 DEF Opened, Closed
  <2> QED
    BY <2>2, <2>3, <2>4, <2>5, Reported
<1>5. CASE ExecuteQueued
  <2>1. /\ nextId' = nextId + 1 /\ DOMAIN pending' = DOMAIN pending \cup {nextId}
        /\ held' = held /\ UNCHANGED eventVars
    BY <1>5 DEF ExecuteQueued
  <2>2. Opened' = Opened
    BY <1>1, <1>2, <2>1 DEF Opened
  <2>3. Closed' = Closed
    BY <2>1, <2>2 DEF Closed
  <2> QED
    BY <2>1, <2>2, <2>3, Unreported
<1>6. CASE ExecuteFilled
  <2>1. /\ nextId' = nextId + 1 /\ DOMAIN held' = DOMAIN held \cup {nextId}
        /\ pending' = pending /\ UNCHANGED <<published, lost>>
        /\ events' = Report({nextId}, {})
    BY <1>6 DEF ExecuteFilled
  <2>2. Opened' = Opened \cup {nextId}
    BY <1>1, <1>2, <2>1 DEF Opened
  <2>3. Closed' = Closed \cup {}
    <3>1. nextId \notin Opened
      BY <1>1 DEF Opened
    <3> QED
      BY <2>1, <2>2, <3>1 DEF Closed
  <2> QED
    BY <2>1, <2>2, <2>3, Reported
<1>7. CASE UNCHANGED <<nextId, pending, held>>
           /\ ~PreDecisionEvaluate /\ ~SignalExit /\ ~Liquidate /\ ~ExecuteFilled
  <2>1. Opened' = Opened /\ Closed' = Closed
    BY <1>7 DEF Opened, Closed
  <2>2. CASE Publish \/ FinishRun
    BY <2>1, <2>2, Unreported DEF Publish, FinishRun
  <2>3. CASE PublishFails \/ BuildFeaturesFails
    BY <2>1, <2>3, Unreported DEF PublishFails, BuildFeaturesFails, Raise
  <2>4. CASE UNCHANGED eventVars
    BY <2>1, <2>4, Unreported
  <2> QED
    BY <1>7, <2>2, <2>3, <2>4
    DEF Next, PrepareBar, ApplyOpening, ApplyClosing, BuildFeatures, MaybeResetDailyRisk,
        MarkPosition, MarkToMarket, Approve, Reject, ExecuteNothing, ExecuteQueued, Over, vars
<1> QED
  BY <1>3, <1>4, <1>5, <1>6, <1>7, EngineWrites
  DEF ApplyOpening, ApplyClosing, engineVars

\* What is published, or about to be, happened to the books; and all of it is
\* until a cycle raises before publish_many is through (run_cycle).
THEOREM AuditTrailHolds == Spec => []AuditTrail
<1>1. Init => AuditTrail
  <2> SUFFICES ASSUME Init PROVE AuditTrail
    OBVIOUS
  <2>1. Opened = {} /\ Closed = {}
    BY DEF Init, Opened, Closed, Empty
  <2> QED
    BY <2>1 DEF Init, AuditTrail, Happened
<1>2. IInv /\ AuditTrail /\ [Next]_vars => AuditTrail'
  <2>1. ASSUME AuditTrail, UNCHANGED vars PROVE AuditTrail'
    <3>1. Opened' = Opened /\ Closed' = Closed /\ UNCHANGED eventVars
      BY <2>1 DEF vars, engineVars, Opened, Closed
    <3> QED
      BY <2>1, <3>1, Unreported
  <2> QED
    BY <2>1, AuditStep
<1> QED
  BY <1>1, <1>2, Invariance, PTL DEF Spec

-----------------------------------------------------------------------------
(***************************************************************************)
(* The cash ledger.                                                        *)
(***************************************************************************)

\* What positions lock up: the sum of CashLedger.
Locked(p) == MapThenSumSet(LAMBDA i : Notional(p[i]), DOMAIN p)

\* It is the sum of their notionals, in any order.
LEMMA LockedIsSum ==
  ASSUME NEW p, IsFiniteSet(DOMAIN p)
  PROVE  \E g : /\ Sums([i \in DOMAIN p |-> Notional(p[i])], DOMAIN p, g)
                /\ Locked(p) = g[DOMAIN p]
<1> DEFINE D == DOMAIN p
           f == [i \in D |-> Notional(p[i])]
           Rec(g) == [S \in SUBSET D |->
                        IF S = {} THEN 0
                        ELSE LET x == CHOOSE x \in S : TRUE IN Notional(p[x]) + g[S \ {x}]]
           g == CHOOSE g : g = Rec(g)
<1>1. ASSUME NEW h, NEW S \in SUBSET D
      PROVE  Part(f, h, S) = IF S = {} THEN 0
                             ELSE LET x == CHOOSE x \in S : TRUE IN Notional(p[x]) + h[S \ {x}]
  BY DEF Part
<1>2. ASSUME NEW h PROVE [S \in SUBSET D |-> Part(f, h, S)] = Rec(h)
  BY <1>1
<1>3. PICK h : h = [S \in SUBSET D |-> Part(f, h, S)]
  BY SumsExist DEF Sums
<1>4. h = Rec(h)
  BY <1>2, <1>3
<1>5. \E k : k = Rec(k)
  <2> HIDE DEF Rec
  <2> QED
    BY <1>4
<1>6. g = Rec(g)
  <2> HIDE DEF Rec
  <2> QED
    BY <1>5
<1>7. Locked(p) = g[D]
  BY DEF Locked, MapThenSumSet, MapThenFoldSet
<1> HIDE DEF g
<1>8. Sums(f, D, g)
  BY <1>2, <1>6 DEF Sums
<1> QED
  BY <1>7, <1>8

\* Positions and what is left of them when one is taken away.
LEMMA LockedWithout ==
  ASSUME NEW p, IsFiniteSet(DOMAIN p), NEW q, NEW id \in DOMAIN p,
         \A i \in DOMAIN p : Notional(p[i]) \in Int,
         DOMAIN q = DOMAIN p \ {id}, \A i \in DOMAIN q : q[i] = p[i]
  PROVE  Locked(p) = Locked(q) + Notional(p[id]) /\ Locked(q) \in Int
<1> DEFINE D == DOMAIN p
           E == DOMAIN q
           f == [i \in D |-> Notional(p[i])]
           e == [i \in E |-> Notional(q[i])]
<1>1. PICK g : Sums(f, D, g) /\ Locked(p) = g[D]
  BY LockedIsSum
<1>2. IsFiniteSet(E)
  BY FS_Subset
<1>3. PICK h : Sums(e, E, h) /\ Locked(q) = h[E]
  BY <1>2, LockedIsSum
<1>4. f \in [D -> Int] /\ E \subseteq D /\ E = D \ {id} /\ \A i \in E : f[i] = e[i]
  OBVIOUS
<1>5. f[id] = Notional(p[id]) /\ id \in D /\ IsFiniteSet(D)
  OBVIOUS
<1> HIDE DEF D, E, f, e
<1>6. g[E] = h[E]
  BY <1>1, <1>2, <1>3, <1>4, SumsAgree
<1>7. g[D] = f[id] + g[E]
  BY <1>1, <1>4, <1>5, SumsAnyFirst DEF AnyFirst
<1>8. g[E] \in Int /\ f[id] \in Int
  BY <1>1, <1>4, <1>5, SumsInt
<1> QED
  BY <1>1, <1>3, <1>5, <1>6, <1>7, <1>8

\* A valuation moves nothing that is locked up.
LEMMA LockedAlike ==
  ASSUME NEW p, IsFiniteSet(DOMAIN p), NEW q, DOMAIN q = DOMAIN p,
         \A i \in DOMAIN p : Notional(q[i]) = Notional(p[i])
  PROVE  Locked(q) = Locked(p)
<1> DEFINE D == DOMAIN p
           f == [i \in D |-> Notional(p[i])]
<1>1. PICK g : Sums(f, D, g) /\ Locked(p) = g[D]
  BY LockedIsSum
<1>2. [i \in DOMAIN q |-> Notional(q[i])] = f
  OBVIOUS
<1>3. PICK h : Sums(f, D, h) /\ Locked(q) = h[D]
  BY <1>2, LockedIsSum
<1>4. g[D] = h[D]
  <2> HIDE DEF f
  <2> QED
    BY <1>1, <1>3, SumsAgree
<1> QED
  BY <1>1, <1>3, <1>4

\* There are as many positions as ids were given out, at most.
LEMMA PositionsFinite ==
  ASSUME NEW p, NEW n \in Ids, DOMAIN p \subseteq Ids, p \in [DOMAIN p -> Position],
         \A i \in DOMAIN p : i < n
  PROVE  IsFiniteSet(DOMAIN p) /\ \A i \in DOMAIN p : Notional(p[i]) \in Int
<1>1. DOMAIN p \subseteq 1 .. n
  BY DEF Ids
<1>2. IsFiniteSet(1 .. n)
  BY FS_Interval DEF Ids
<1>3. ASSUME NEW i \in DOMAIN p PROVE Notional(p[i]) \in Int
  <2>1. p[i] \in Position
    OBVIOUS
  <2> QED
    BY <2>1 DEF Position, Notional
<1> QED
  BY <1>1, <1>2, <1>3, FS_Subset

\* Each step moves between the accounts what it takes from one of them.
LEMMA CashStep ==
  ASSUME IInv, CashLedger, Next, IInv'
  PROVE  CashLedger'
<1>0. /\ cash \in Int /\ realizedPnl \in Int /\ entryFees \in Int /\ InitialCash \in Int
      /\ cash + Locked(positions) = InitialCash + realizedPnl - entryFees
  BY StoreAssumption DEF IInv, TypeOK, StoreTypeOK, EngineTypeOK, CashLedger, Locked
<1> SUFFICES cash' + Locked(positions)' = InitialCash + realizedPnl' - entryFees'
  BY DEF CashLedger, Locked
<1>1. PICK p : p = positions'
  OBVIOUS
<1> DEFINE Balanced == cash' + Locked(p) = InitialCash + realizedPnl' - entryFees'
<1>2. SUFFICES Balanced
  BY <1>1
<1>3. IsFiniteSet(DOMAIN positions) /\ \A i \in DOMAIN positions : Notional(positions[i]) \in Int
  <2>1. /\ nextId \in Ids /\ DOMAIN positions \subseteq Ids
        /\ positions \in [DOMAIN positions -> Position]
        /\ \A i \in DOMAIN positions : i < nextId
    BY DEF IInv, TypeOK, StoreTypeOK, EngineTypeOK, BooksAgree
  <2> QED
    BY <2>1, PositionsFinite
<1>4. IsFiniteSet(DOMAIN p) /\ \A i \in DOMAIN p : Notional(p[i]) \in Int
  <2>1. PICK n : n = nextId'
    OBVIOUS
  <2>2. /\ n \in Ids /\ DOMAIN p \subseteq Ids /\ p \in [DOMAIN p -> Position]
        /\ \A i \in DOMAIN p : i < n
    BY <1>1, <2>1 DEF IInv, TypeOK, StoreTypeOK, EngineTypeOK, BooksAgree
  <2> QED
    BY <2>2, PositionsFinite
<1>5. ASSUME NEW id \in DOMAIN opening, ApplyOpening(id)
      PROVE  Balanced
  <2>1. id \notin DOMAIN positions /\ opening[id] \in Position
    BY DEF IInv, TypeOK, EngineTypeOK, BooksAgree
  <2>2. /\ cash' = cash - (Notional(opening[id]) + Fee(Notional(opening[id])))
        /\ entryFees' = entryFees + Fee(Notional(opening[id]))
        /\ realizedPnl' = realizedPnl
        /\ p = [i \in DOMAIN positions \cup {id} |->
                  IF i = id THEN opening[id] ELSE positions[i]]
    BY <1>1, <1>5 DEF ApplyOpening, ApplyPositionOpened
  <2>3. id \in DOMAIN p /\ DOMAIN positions = DOMAIN p \ {id} /\ p[id] = opening[id]
        /\ \A i \in DOMAIN positions : positions[i] = p[i]
    BY <2>1, <2>2
  <2>4. Locked(p) = Locked(positions) + Notional(opening[id]) /\ Locked(positions) \in Int
    BY <1>4, <2>3, LockedWithout
  <2>5. Notional(opening[id]) \in Int /\ Fee(Notional(opening[id])) \in Int
    BY <2>1, ExecutionAssumption DEF Position, Notional, Fee
  <2> QED
    BY <1>0, <2>2, <2>4, <2>5
<1>6. ASSUME NEW id \in DOMAIN closing, ApplyClosing(id)
      PROVE  Balanced
  <2>1. id \in DOMAIN positions /\ closing[id] \in Int
    BY <1>6 DEF ApplyClosing, IInv, TypeOK, EngineTypeOK, BooksAgree
  <2>2. /\ cash' = cash + Proceeds(id, closing[id])
        /\ realizedPnl' = realizedPnl + closing[id]
        /\ entryFees' = entryFees
        /\ p = [i \in DOMAIN positions \ {id} |-> positions[i]]
    BY <1>1, <1>6 DEF ApplyClosing, ApplyPositionClosed
  <2>3. Proceeds(id, closing[id]) = closing[id] + Notional(positions[id])
    BY <2>1 DEF Proceeds
  <2>4. DOMAIN p = DOMAIN positions \ {id} /\ \A i \in DOMAIN p : p[i] = positions[i]
    BY <2>2
  <2>5. Locked(positions) = Locked(p) + Notional(positions[id]) /\ Locked(p) \in Int
    BY <1>3, <2>1, <2>4, LockedWithout
  <2> QED
    BY <1>0, <1>3, <2>1, <2>2, <2>3, <2>5
<1>7. ASSUME NEW id \in toMark, MarkPosition(id)
      PROVE  Balanced
  <2>1. UNCHANGED <<cash, realizedPnl, entryFees>>
    BY <1>7 DEF MarkPosition
  <2>2. CASE UNCHANGED positions
    BY <1>0, <1>1, <2>1, <2>2
  <2>3. CASE Revalue(id, bar.close)
    <3>1. p = [positions EXCEPT ![id].unrealizedPnl = Gain(positions[id], bar.close)]
      BY <1>1, <2>3 DEF Revalue
    <3>2. positions \in [DOMAIN positions -> Position]
      BY DEF IInv, TypeOK, StoreTypeOK
    <3>3. DOMAIN p = DOMAIN positions
          /\ \A i \in DOMAIN positions : /\ p[i].entryPrice = positions[i].entryPrice
                                         /\ p[i].quantity = positions[i].quantity
      BY <3>1, <3>2 DEF Position
    <3>4. Locked(p) = Locked(positions)
      BY <1>3, <3>3, LockedAlike DEF Notional
    <3> QED
      BY <1>0, <2>1, <3>4
  <2> QED
    BY <1>7, <2>2, <2>3 DEF MarkPosition
<1>8. CASE MaybeResetDailyRisk \/ MarkToMarket \/ \E side \in {"BUY", "SELL"} : Approve(side)
  <2>1. UNCHANGED <<cash, realizedPnl, positions, entryFees>>
    BY <1>8 DEF MaybeResetDailyRisk, MarkToMarket, Approve, ApplyRiskUpdated, ApplyMarkToMarket,
                portfolioVars, storeVars
  <2> QED
    BY <1>0, <1>1, <2>1
<1>9. CASE UNCHANGED storeVars /\ \A id \in DOMAIN opening : ~ApplyOpening(id)
  <2>1. UNCHANGED <<cash, realizedPnl, positions>>
    BY <1>9 DEF storeVars
  <2>2. UNCHANGED entryFees
    BY <1>9 DEF Next, PrepareBar, PreDecisionEvaluate, ApplyClosing, BuildFeatures,
         BuildFeaturesFails, MaybeResetDailyRisk, MarkPosition, MarkToMarket, Approve, Reject,
         SignalExit, ExecuteNothing, ExecuteQueued, ExecuteFilled, Publish, PublishFails,
         Liquidate, FinishRun, Over, vars
  <2> QED
    BY <1>0, <1>1, <2>1, <2>2
<1> QED
  BY <1>5, <1>6, <1>7, <1>8, <1>9, StoreWrites

\* Cash plus what open positions lock up is always what came in, plus what closed
\* positions made, minus the entry fees, whatever fills, closes, valuations and
\* new days came in between, and however many positions were open at once.
THEOREM CashIsAccounted == Spec => []CashLedger
<1>1. Init => CashLedger
  <2> SUFFICES ASSUME Init PROVE CashLedger
    OBVIOUS
  <2>1. cash = InitialCash /\ realizedPnl = 0 /\ entryFees = 0 /\ DOMAIN positions = {}
    BY DEF Init, StoreInit
  <2>2. PICK g : /\ Sums([i \in DOMAIN positions |-> Notional(positions[i])],
                         DOMAIN positions, g)
                 /\ Locked(positions) = g[DOMAIN positions]
    BY <2>1, FS_EmptySet, LockedIsSum
  <2>3. Locked(positions) = 0
    BY <2>1, <2>2 DEF Sums, Part
  <2> QED
    BY <2>1, <2>3, StoreAssumption DEF CashLedger, Locked
<1>2. IInv /\ IInv' /\ CashLedger /\ [Next]_vars => CashLedger'
  <2>1. IInv /\ IInv' /\ CashLedger /\ Next => CashLedger'
    BY CashStep
  <2>2. ASSUME UNCHANGED vars, CashLedger PROVE CashLedger'
    <3>1. UNCHANGED <<cash, realizedPnl, entryFees, positions>>
      BY <2>2 DEF vars, storeVars
    <3>2. PICK p : p = positions /\ p = positions'
      BY <3>1
    <3>3. cash + Locked(p) = InitialCash + realizedPnl - entryFees
      BY <2>2, <3>2 DEF CashLedger, Locked
    <3>4. cash' + Locked(p) = InitialCash + realizedPnl' - entryFees'
      BY <3>1, <3>3
    <3>5. cash' + Locked(positions)' = InitialCash + realizedPnl' - entryFees'
      BY <3>2, <3>4
    <3> QED
      BY <3>5 DEF CashLedger, Locked
  <2> QED
    BY <2>1, <2>2
<1> QED
  BY <1>1, <1>2, Invariance, PTL DEF Spec
=============================================================================
