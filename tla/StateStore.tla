----------------------------- MODULE StateStore -----------------------------
(***************************************************************************)
(* The in-memory state store (backend/src/state/store.py): the portfolio   *)
(* and the risk counters of one portfolio, and one action per transition   *)
(* type that InMemoryStateStore.apply_transition dispatches on.  The store *)
(* has no concurrency control of its own: whoever composes this module     *)
(* serialises the transitions.                                             *)
(*                                                                         *)
(* Money, prices and quantities are integers; percentages are whole        *)
(* percents, rounded down.  Positions are a function from position ids to  *)
(* records, ids growing in opening order, which is the order of the tuple  *)
(* the code keeps.  Version numbers and as-of times are left out.          *)
(***************************************************************************)
EXTENDS Integers

CONSTANTS Symbols,      \* the traded symbols
          InitialCash   \* starting capital, also the first day's equity

ASSUME StoreAssumption == InitialCash \in Nat \ {0}

VARIABLES cash, equity, realizedPnl,  \* PortfolioState
          positions,                  \* PortfolioState.open_positions
          risk                        \* RiskState

portfolioVars == <<cash, equity, realizedPnl, positions>>
storeVars     == <<cash, equity, realizedPnl, positions, risk>>

-----------------------------------------------------------------------------
Position ==
  [symbol : Symbols, side : {"LONG", "SHORT"}, quantity : Nat \ {0}, entryPrice : Int,
   stopLoss : Int, takeProfit : Int, unrealizedPnl : Int]

RiskState ==
  [startEquity : Int, signalsToday : Nat, dailyPnl : Int, drawdown : Nat,
   exposure : Int, losses : Nat]

\* 100 * a / b in whole percents; the code's "if b else 0.0" for b = 0.
Percent(a, b) ==
  IF b = 0 THEN 0 ELSE IF b > 0 THEN (100 * a) \div b ELSE (-100 * a) \div (-b)

AtLeastZero(n) == IF n > 0 THEN n ELSE 0

Notional(p) == p.entryPrice * p.quantity

\* What a position has gained at a price, before fees.
Gain(p, price) ==
  IF p.side = "LONG" THEN (price - p.entryPrice) * p.quantity
                     ELSE (p.entryPrice - price) * p.quantity

\* daily_drawdown_pct of an equity against the equity the day started with.
Drawdown(start, eq) ==
  LET base == IF start = 0 THEN eq ELSE start
  IN  AtLeastZero(Percent(base - eq, base))

-----------------------------------------------------------------------------
StoreInit ==
  /\ cash = InitialCash
  /\ equity = InitialCash
  /\ realizedPnl = 0
  /\ positions = [i \in {} |-> 0]
  /\ risk = [startEquity |-> InitialCash, signalsToday |-> 0, dailyPnl |-> 0,
             drawdown |-> 0, exposure |-> 0, losses |-> 0]

\* position_opened: the cost leaves the cash; equity does not move.
ApplyPositionOpened(id, position, cost) ==
  /\ cash' = cash - cost
  /\ positions' = [i \in DOMAIN positions \cup {id} |->
                     IF i = id THEN position ELSE positions[i]]
  /\ risk' = [risk EXCEPT !.exposure = @ + Percent(Notional(position), equity)]
  /\ UNCHANGED <<equity, realizedPnl>>

\* What a close returns to the cash: the pnl and the capital the entry locked.
\* Variant first: the locked capital is forgotten.
PnlOnly(id, pnl) == pnl

Proceeds(id, pnl) ==
  pnl + IF id \in DOMAIN positions THEN Notional(positions[id]) ELSE 0

\* position_closed.  An id that is not open still moves cash, equity and the
\* counters by the pnl it carries.
ApplyPositionClosed(id, pnl) ==
  LET freed == IF id \in DOMAIN positions
               THEN Percent(Notional(positions[id]), equity) ELSE 0
      after == equity + pnl
  IN  /\ cash' = cash + Proceeds(id, pnl)
      /\ equity' = after
      /\ realizedPnl' = realizedPnl + pnl
      /\ positions' = [i \in DOMAIN positions \ {id} |-> positions[i]]
      /\ risk' = [risk EXCEPT !.dailyPnl = @ + pnl,
                              !.drawdown = Drawdown(risk.startEquity, after),
                              !.exposure = AtLeastZero(@ - freed),
                              !.losses   = IF pnl >= 0 THEN 0 ELSE @ + 1]

\* The body of the loop of mark_to_market: one position revalued at a price.
Revalue(id, price) ==
  positions' = [positions EXCEPT ![id].unrealizedPnl = Gain(positions[id], price)]

\* The end of mark_to_market, once the market value of the positions is summed.
ApplyMarkToMarket(marketValue) ==
  LET after == cash + marketValue
  IN  /\ equity' = after
      /\ risk' = [risk EXCEPT !.drawdown = Drawdown(risk.startEquity, after)]
      /\ UNCHANGED <<cash, realizedPnl, positions>>

\* risk_updated: the payload overwrites the counters it names.
ApplyRiskUpdated(counters) ==
  /\ risk' = [f \in DOMAIN risk |->
                IF f \in DOMAIN counters THEN counters[f] ELSE risk[f]]
  /\ UNCHANGED portfolioVars
=============================================================================
