---------------------------- MODULE CarryPosition ----------------------------
(***************************************************************************)
(* CarryPositionManager: what to hold, what to trade and what a fill does, *)
(* as functions of a position (CarryPositionState), cash and a market      *)
(* snapshot.  Quantities are in a unit finer than any venue's lot, money   *)
(* in whole units, divisions round down.                                   *)
(***************************************************************************)
EXTENDS Integers

CONSTANTS CapitalMultiplierPct,  \* CarryManagerConfig, in percent
          MinTrailingFunding,    \* in basis points
          RebalanceBandPct,
          ResizeBandPct

ASSUME PositionAssumption ==
  /\ CapitalMultiplierPct \in Nat \ {0}
  /\ MinTrailingFunding \in Int
  /\ RebalanceBandPct \in Nat
  /\ ResizeBandPct \in Nat

Position == [spot : Int, perp : Int, spotEntry : Int, perpEntry : Int, accrued : Int]

Snapshot == [spotPx : Nat \ {0}, perpPx : Nat \ {0}, funding : Int, trailing : Int]

Report == [spot : Int, spotPx : Int, perp : Int, perpPx : Int, fee : Int]

Plan == [spot : Int, perp : Int,
         reason : {"open", "close", "resize", "rebalance", "noop"}]

NoPosition == [spot |-> 0, perp |-> 0, spotEntry |-> 0, perpEntry |-> 0, accrued |-> 0]

Abs(n) == IF n < 0 THEN -n ELSE n

AtLeastZero(n) == IF n < 0 THEN 0 ELSE n

Lesser(m, n) == IF m < n THEN m ELSE n

InMarket(p) == p.spot > 0 \/ p.perp > 0

NetDelta(spot, perp, snap) == spot * snap.spotPx - perp * snap.perpPx

Equity(p, money, spotPx, perpPx) ==
  money + p.spot * spotPx + p.perp * (p.perpEntry - perpPx) + p.accrued

-----------------------------------------------------------------------------
Hold(snap) == snap.trailing >= MinTrailingFunding

TargetNotional(equity) == (AtLeastZero(equity) * 100) \div CapitalMultiplierPct

NeedsHedge(p, snap) ==
  /\ p.spot > 0
  /\ Abs(NetDelta(p.spot, p.perp, snap)) * 100 > RebalanceBandPct * p.spot * snap.spotPx

NeedsResize(p, target, snap) ==
  /\ p.spot > 0
  /\ target > 0
  /\ Abs(p.spot * snap.spotPx - target) * 100 > ResizeBandPct * target

Noop == [spot |-> 0, perp |-> 0, reason |-> "noop"]

ClosePlan(p) == [spot |-> -p.spot, perp |-> -p.perp, reason |-> "close"]

OpenPlan(target, snap) ==
  LET qty == target \div snap.spotPx
  IN  IF qty > 0 THEN [spot |-> qty, perp |-> qty, reason |-> "open"] ELSE Noop

\* The perp leg alone is brought in line with the value of the spot leg.
RebalancePlan(p, snap) ==
  [spot |-> 0, perp |-> (p.spot * snap.spotPx) \div snap.perpPx - p.perp,
   reason |-> "rebalance"]

ResizePlan(p, target, snap) ==
  LET d == target \div snap.spotPx - p.spot
  IN  [spot |-> d, perp |-> d, reason |-> "resize"]

PlanFor(p, money, snap) ==
  LET target == TargetNotional(Equity(p, money, snap.spotPx, snap.perpPx))
  IN  IF ~Hold(snap) THEN IF InMarket(p) THEN ClosePlan(p) ELSE Noop
      ELSE IF ~InMarket(p) THEN OpenPlan(target, snap)
      ELSE IF NeedsHedge(p, snap) THEN RebalancePlan(p, snap)
      ELSE IF NeedsResize(p, target, snap) THEN ResizePlan(p, target, snap)
      ELSE Noop

-----------------------------------------------------------------------------
\* Variant: a short that is bought back brings no profit or loss.
CashFlowUnrealised(p, r) == -(r.spot * r.spotPx) - r.fee

\* What a fill adds to cash: the spot leg's price, the profit of the part of
\* the short that is bought back, and the fee.
CashFlow(p, r) ==
  LET closed == IF r.perp < 0 /\ p.perp > 0 THEN Lesser(-r.perp, p.perp) ELSE 0
  IN  closed * (p.perpEntry - r.perpPx) - r.spot * r.spotPx - r.fee

\* The average entry of a leg: weighted when it grows, kept when it shrinks,
\* forgotten when it is gone.
AverageEntry(qty, entry, filled, px) ==
  IF qty + filled <= 0 THEN 0
  ELSE IF filled <= 0 THEN entry
  ELSE (qty * entry + filled * px) \div (qty + filled)

ApplyFill(p, r) ==
  [spot      |-> AtLeastZero(p.spot + r.spot),
   perp      |-> AtLeastZero(p.perp + r.perp),
   spotEntry |-> AverageEntry(p.spot, p.spotEntry, r.spot, r.spotPx),
   perpEntry |-> AverageEntry(p.perp, p.perpEntry, r.perp, r.perpPx),
   accrued   |-> p.accrued]

AccrueFunding(p, snap) ==
  IF InMarket(p)
  THEN [p EXCEPT !.accrued = @ + (snap.funding * p.perp * snap.perpPx) \div 10000]
  ELSE p
=============================================================================
