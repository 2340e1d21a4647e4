------------------------- MODULE SimulatedExecution -------------------------
(***************************************************************************)
(* What the simulated execution engine (backend/src/execution/) computes   *)
(* from a bar and a state snapshot: fill prices and fees, position sizes,  *)
(* the pre-trade gate and the exit rules.  The operators are pure; the     *)
(* snapshot they read is the state store's current state, because the      *)
(* runtime takes a fresh one before each call.                             *)
(***************************************************************************)
EXTENDS StateStore, FiniteSets

CONSTANTS MaxOpenPositions,    \* RiskLimits, and the same limit of RiskConfig
          MaxExposurePct,
          MaxBarsInTrade,      \* ValidationExecutionConfig
          RiskPctPerTrade,
          ExposurePctPerTrade, \* 0 selects sizing by stop distance
          SlippageBps,         \* FillModel
          FeeBps

ASSUME ExecutionAssumption ==
  /\ MaxOpenPositions \in Nat
  /\ MaxExposurePct \in Nat
  /\ MaxBarsInTrade \in Nat \ {0}
  /\ RiskPctPerTrade \in Nat
  /\ ExposurePctPerTrade \in Nat
  /\ SlippageBps \in Nat
  /\ FeeBps \in Nat

Bar == [open : Int, high : Int, low : Int, close : Int]

\* Variant of the next definition: shorts are not considered.
OpposesLong(side, orderSide) == side = "LONG" /\ orderSide = "SELL"

Opposes(side, orderSide) ==
  \/ side = "LONG"  /\ orderSide = "SELL"
  \/ side = "SHORT" /\ orderSide = "BUY"

PositionSide(orderSide) == IF orderSide = "BUY" THEN "LONG" ELSE "SHORT"

Fee(amount) == (amount * FeeBps) \div 10000

\* The price an order fills at: the fill model's bar price, moved against it.
FillPrice(bar, side, fillAt) ==
  LET base == CASE fillAt = "next_open" -> bar.open
                [] fillAt = "mid"       -> (bar.high + bar.low) \div 2
                [] OTHER                -> bar.close
      slip == (base * SlippageBps) \div 10000
  IN  IF side = "BUY" THEN base + slip ELSE base - slip

Least(a, b) == IF a < b THEN a ELSE b

Distance(a, b) == IF a > b THEN a - b ELSE b - a

\* The size of an order: the risk (or exposure) target, scaled by the signal's size
\* multiplier (a percentage) and capped by the cash and by what the exposure limit
\* leaves; 0 when no position may be taken.
PositionSize(entry, stopLoss, size) ==
  IF entry <= 0 \/ (ExposurePctPerTrade = 0 /\ Distance(entry, stopLoss) = 0) THEN 0
  ELSE LET base     == IF ExposurePctPerTrade > 0
                       THEN ((equity * ExposurePctPerTrade) \div 100) \div entry
                       ELSE ((equity * RiskPctPerTrade) \div 100)
                              \div Distance(entry, stopLoss)
           byCash   == IF cash > 0 THEN cash \div entry ELSE 0
           headroom == AtLeastZero(MaxExposurePct - risk.exposure)
           byLimit  == ((headroom * equity) \div 100) \div entry
       IN  AtLeastZero(Least((base * size) \div 100, Least(byCash, byLimit)))

\* The limit both the risk manager and the gate apply: the positions that are
\* open, not the orders that wait.
AtPositionCap == Cardinality(DOMAIN positions) >= MaxOpenPositions

\* ExecutionRiskGate.check, on the notional at the signal's entry price.
GatePasses(quantity, entry) ==
  /\ ~AtPositionCap
  /\ risk.exposure * equity + 100 * quantity * entry <= MaxExposurePct * equity
  /\ quantity * entry <= cash

\* check_exit before the decision: the stop comes before the target, and both
\* before the timeout.
StopHit(p, bar) ==
  IF p.side = "LONG" THEN bar.low <= p.stopLoss ELSE bar.high >= p.stopLoss

TargetHit(p, bar) ==
  IF p.side = "LONG" THEN bar.high >= p.takeProfit ELSE bar.low <= p.takeProfit

\* Variant first: the bar of the limit is let through.
TimedOutLate(held) == held > MaxBarsInTrade

TimedOut(held) == held >= MaxBarsInTrade

Exits(p, bar, held) == StopHit(p, bar) \/ TargetHit(p, bar) \/ TimedOut(held)

ExitPrice(p, bar) ==
  CASE StopHit(p, bar)                        -> p.stopLoss
    [] TargetHit(p, bar) /\ ~StopHit(p, bar) -> p.takeProfit
    [] OTHER                                  -> bar.close

\* The pnl close_position reports: the exit fee is in it, the entry fee is not.
ExitPnl(p, price) == Gain(p, price) - Fee(price * p.quantity)

\* RiskManager.evaluate on the decision snapshot.  The confidence check and the
\* reward check do not read the account: failing them is a "HOLD" here.
RiskPasses(side, maxDrawdown, maxSignals, maxLosses) ==
  LET closing == \E i \in DOMAIN positions : Opposes(positions[i].side, side)
  IN  /\ risk.drawdown < maxDrawdown
      /\ risk.signalsToday < maxSignals
      /\ closing \/ ~AtPositionCap
      /\ closing \/ risk.exposure <= MaxExposurePct
      /\ risk.losses < maxLosses
=============================================================================
