-------------------------- MODULE CarryRunnerProofs --------------------------
(***************************************************************************)
(* Type correctness of CarryRunner, Reconciles, HedgeKept and FillNeutral, *)
(* for every market, every set of faults and every place a kill may hit;   *)
(* the lots are any, except that HedgeKept needs the perpetual's to be a   *)
(* multiple of the spot market's.                                          *)
(***************************************************************************)
EXTENDS CarryRunner, TLAPS

-----------------------------------------------------------------------------
(***************************************************************************)
(* The functions of CarryPosition.                                         *)
(***************************************************************************)
\* Cutting an amount to whole lots never makes it larger (amount_to_precision).
LEMMA TruncatedBounds ==
  ASSUME NEW q \in Nat, NEW lot \in Nat \ {0}
  PROVE  /\ Truncated(q, lot) \in Nat
         /\ Truncated(q, lot) <= q
<1>1. /\ q % lot \in Nat
      /\ q % lot <= q
  <2>1. q % lot \in 0 .. (lot - 1)
    OBVIOUS
  <2>2. q = lot * (q \div lot) + (q % lot)
    OBVIOUS
  <2>3. q \div lot \in Nat
    OBVIOUS
  <2>4. lot * (q \div lot) >= 0
    BY <2>3
  <2> QED
    BY <2>1, <2>2, <2>3, <2>4
<1> QED
  BY <1>1 DEF Truncated

\* The absolute value of an integer.
LEMMA AbsNat ==
  ASSUME NEW n \in Int
  PROVE  Abs(n) \in Nat /\ (n >= 0 => Abs(n) = n) /\ (n < 0 => Abs(n) = -n)
BY DEF Abs

\* round_qty keeps the sign of a quantity and never enlarges it.
LEMMA RoundQtyBounds ==
  ASSUME NEW q \in Int
  PROVE  /\ RoundQty(q) \in Int
         /\ q >= 0 => 0 <= RoundQty(q)
         /\ q < 0 => q <= RoundQty(q) /\ RoundQty(q) < 0
<1> DEFINE s == Truncated(Abs(q), SpotLot)
           p == Truncated(Abs(q), PerpLot)
<1>1. /\ s \in Nat /\ s <= Abs(q)
      /\ p \in Nat /\ p <= Abs(q)
  BY AbsNat, TruncatedBounds, RunnerAssumption
<1>2. Lesser(s, p) \in Nat /\ Lesser(s, p) <= Abs(q)
  BY <1>1 DEF Lesser
<1>3. s # 0 /\ p # 0 => Lesser(s, p) > 0
  BY <1>1 DEF Lesser
<1>4. RoundQty(q) = IF s = 0 \/ p = 0 THEN q ELSE Signed(q, Lesser(s, p))
  BY DEF RoundQty
<1> HIDE DEF s, p
<1> QED
  BY <1>1, <1>2, <1>3, <1>4, AbsNat DEF Signed

\* A plan is made of integers, and it never sells more than the spot leg.
LEMMA PlanBounds ==
  ASSUME NEW p \in Position, NEW money \in Int, NEW s \in Snapshot
  PROVE  /\ PlanFor(p, money, s) \in Plan
         /\ p.spot >= 0 => PlanFor(p, money, s).spot >= -p.spot
<1> DEFINE target == TargetNotional(Equity(p, money, s.spotPx, s.perpPx))
<1>1. /\ p.spot \in Int /\ p.perp \in Int /\ p.perpEntry \in Int /\ p.accrued \in Int
      /\ s.spotPx \in Nat \ {0} /\ s.perpPx \in Nat \ {0}
  BY DEF Position, Snapshot
<1>2. Equity(p, money, s.spotPx, s.perpPx) \in Int
  BY <1>1 DEF Equity
<1>3. target \in Nat
  <2>1. AtLeastZero(Equity(p, money, s.spotPx, s.perpPx)) \in Nat
    BY <1>2 DEF AtLeastZero
  <2> QED
    BY <2>1, PositionAssumption DEF TargetNotional
<1> HIDE DEF target
<1>4. target \div s.spotPx \in Nat
  BY <1>1, <1>3
<1>5. (p.spot * s.spotPx) \div s.perpPx \in Int
  <2>1. p.spot * s.spotPx \in Int
    BY <1>1
  <2> QED
    BY <1>1, <2>1
<1> DEFINE Bounded(x) == x \in Plan /\ (p.spot >= 0 => x.spot >= -p.spot)
<1>6. Bounded(Noop)
  BY <1>1 DEF Noop, Plan
<1>7. Bounded(ClosePlan(p))
  BY <1>1 DEF ClosePlan, Plan
<1>8. Bounded(OpenPlan(target, s))
  BY <1>1, <1>4, <1>6 DEF OpenPlan, Plan
<1>9. Bounded(RebalancePlan(p, s))
  BY <1>1, <1>5 DEF RebalancePlan, Plan
<1>10. Bounded(ResizePlan(p, target, s))
  BY <1>1, <1>4 DEF ResizePlan, Plan
<1>11. PlanFor(p, money, s) \in {Noop, ClosePlan(p), OpenPlan(target, s),
                                RebalancePlan(p, s), ResizePlan(p, target, s)}
  BY Zenon DEF PlanFor, target
<1> HIDE DEF Bounded
<1>12. Bounded(PlanFor(p, money, s))
  BY <1>6, <1>7, <1>8, <1>9, <1>10, <1>11, Zenon
<1> QED
  BY <1>12 DEF Bounded

\* What a fill and a funding payment make of a position.
LEMMA PositionTypes ==
  ASSUME NEW p \in Position, NEW r \in Report, NEW s \in Snapshot
  PROVE  /\ ApplyFill(p, r) \in Position
         /\ ApplyFill(p, r).spot = AtLeastZero(p.spot + r.spot)
         /\ ApplyFill(p, r).perp = AtLeastZero(p.perp + r.perp)
         /\ CashFlow(p, r) \in Int
         /\ AccrueFunding(p, s) \in Position
         /\ AccrueFunding(p, s).spot = p.spot
         /\ AccrueFunding(p, s).perp = p.perp
<1>1. /\ p.spot \in Int /\ p.perp \in Int /\ p.spotEntry \in Int /\ p.perpEntry \in Int
      /\ p.accrued \in Int
      /\ r.spot \in Int /\ r.spotPx \in Int /\ r.perp \in Int /\ r.perpPx \in Int
      /\ r.fee \in Int
      /\ s.funding \in Int /\ s.perpPx \in Int
  BY DEF Position, Report, Snapshot
<1>2. ASSUME NEW qty \in Int, NEW entry \in Int, NEW filled \in Int, NEW px \in Int
      PROVE  AverageEntry(qty, entry, filled, px) \in Int
  <2>1. CASE qty + filled <= 0
    BY <2>1 DEF AverageEntry
  <2>2. CASE qty + filled > 0
    <3>1. qty * entry + filled * px \in Int
      OBVIOUS
    <3>2. (qty * entry + filled * px) \div (qty + filled) \in Int
      BY <2>2, <3>1
    <3> QED
      BY <2>2, <3>2 DEF AverageEntry
  <2> QED
    BY <2>1, <2>2
<1>3. /\ AverageEntry(p.spot, p.spotEntry, r.spot, r.spotPx) \in Int
      /\ AverageEntry(p.perp, p.perpEntry, r.perp, r.perpPx) \in Int
  BY <1>1, <1>2
<1>4. AtLeastZero(p.spot + r.spot) \in Int /\ AtLeastZero(p.perp + r.perp) \in Int
  BY <1>1 DEF AtLeastZero
<1>5. ApplyFill(p, r) \in Position
  BY <1>1, <1>3, <1>4 DEF ApplyFill, Position
<1>6. CashFlow(p, r) \in Int
  <2> DEFINE closed == IF r.perp < 0 /\ p.perp > 0 THEN Lesser(-r.perp, p.perp) ELSE 0
  <2>1. closed \in Int
    BY <1>1 DEF Lesser
  <2>2. CashFlow(p, r) = closed * (p.perpEntry - r.perpPx) - r.spot * r.spotPx - r.fee
    BY DEF CashFlow
  <2> HIDE DEF closed
  <2> QED
    BY <1>1, <2>1, <2>2
<1>7. (s.funding * p.perp * s.perpPx) \div 10000 \in Int
  <2>1. s.funding * p.perp * s.perpPx \in Int
    BY <1>1
  <2> QED
    BY <2>1
<1>8. /\ AccrueFunding(p, s) \in Position
      /\ AccrueFunding(p, s).spot = p.spot
      /\ AccrueFunding(p, s).perp = p.perp
  BY <1>1, <1>7 DEF AccrueFunding, Position
<1> QED
  BY <1>5, <1>6, <1>8 DEF ApplyFill

-----------------------------------------------------------------------------
(***************************************************************************)
(* Orders.                                                                 *)
(***************************************************************************)
\* A venue fills no more than the order's amount, no more than the balance
\* of a sale, and no more than the short of a reduce-only order.
LEMMA TakesBounds ==
  ASSUME TypeOK, NEW order \in Int
  PROVE  /\ SpotTakes(order) \in Nat
         /\ SpotTakes(order) <= Abs(order)
         /\ order < 0 => account.spot - SpotTakes(order) + OwnCoins >= 0
         /\ PerpTakes(order) \in Nat
         /\ order < 0 => PerpTakes(order) <= account.perp
<1>1. /\ account.spot \in Int /\ account.perp \in Nat /\ account.spot + OwnCoins >= 0
      /\ OwnCoins \in Nat
  BY RunnerAssumption DEF TypeOK
<1>2. Abs(order) \in Nat
  BY AbsNat
<1>3. /\ Truncated(Abs(order), SpotLot) \in Nat
      /\ Truncated(Abs(order), SpotLot) <= Abs(order)
      /\ Truncated(Abs(order), PerpLot) \in Nat
  BY <1>2, TruncatedBounds, RunnerAssumption
<1>4. /\ SpotTakes(order) \in Nat
      /\ SpotTakes(order) <= Abs(order)
      /\ order < 0 => account.spot - SpotTakes(order) + OwnCoins >= 0
  BY <1>1, <1>2, <1>3 DEF SpotTakes
<1>5. /\ PerpTakes(order) \in Nat
      /\ order < 0 => PerpTakes(order) <= account.perp
  BY <1>1, <1>3 DEF PerpTakes, Lesser
<1> QED
  BY <1>4, <1>5

\* What is filled of an order is between one unit and what the venue takes.
LEMMA FillBounds ==
  ASSUME NEW leg, NEW takes \in Nat, NEW lot, NEW q \in FillsOf(leg, takes, lot)
  PROVE  q \in Nat /\ 1 <= q /\ q <= takes
BY DEF FillsOf

\* The orders of a cycle are integers.
LEMMA OrdersInt ==
  ASSUME TypeOK
  PROVE  SpotOrder \in Int /\ PerpOrder \in Int
<1>1. plan.spot \in Int /\ plan.perp \in Int
  BY DEF TypeOK, Plan
<1> QED
  BY <1>1, RoundQtyBounds DEF SpotOrder, PerpOrder

\* A fee is an integer.
LEMMA FeeInt ==
  ASSUME NEW q \in Int, NEW px \in Int
  PROVE  Fee(q, px) \in Int
<1>1. q * px * FeeBps \in Int
  BY RunnerAssumption
<1> QED
  BY <1>1 DEF Fee

\* The prices and fee of a paper fill are integers.
LEMMA PaperInt ==
  ASSUME NEW px \in Nat, NEW buys
  PROVE  WorsePx(px, buys) \in Int
<1> DEFINE cost == PaperTakerBps + PaperSlippageBps
<1>1. px * (10000 + cost) \in Int /\ px * (10000 - cost) \in Int
  BY RunnerAssumption
<1>2. (px * (10000 + cost)) \div 10000 \in Int /\ (px * (10000 - cost)) \div 10000 \in Int
  BY <1>1
<1> QED
  BY <1>2 DEF WorsePx

-----------------------------------------------------------------------------
(***************************************************************************)
(* Types.                                                                  *)
(***************************************************************************)
\* The values a cycle starts from and is left with.
LEMMA BlankTypes ==
  /\ NoPosition \in Position /\ NoSnapshot \in Snapshot /\ Noop \in Plan
  /\ NoReport \in Report /\ <<>> \in Baseline
  /\ FreshFile \in [position : Position, cash : Int, baseline : Baseline]
BY DEF NoPosition, Position, NoSnapshot, Snapshot, Noop, Plan, NoReport, Report, Baseline,
       FreshFile

\* The types hold when the runner is first started.
LEMMA InitTypes == Init => TypeOK
<1> SUFFICES ASSUME Init PROVE TypeOK
  OBVIOUS
<1>1. account \in [spot : Int, perp : Nat] /\ account.spot + OwnCoins >= 0
  BY RunnerAssumption DEF Init
<1>2. /\ pos \in Position /\ snap \in Snapshot /\ plan \in Plan /\ report \in Report
      /\ baseline \in Baseline
      /\ file \in [position : Position, cash : Int, baseline : Baseline]
  BY BlankTypes, Zenon DEF Init
<1>3. cycles \in 0..MaxCycles /\ crashes \in 0..MaxCrashes
  BY RunnerAssumption DEF Init
<1>4. pc = "idle" /\ dry = FALSE /\ cash = 0 /\ strayed = FALSE /\ outcome = "none"
  BY Zenon DEF Init
<1>5. /\ pc \in Steps /\ cash \in Int
      /\ outcome \in {"none", "done", "partial", "error", "killed"}
  BY <1>4 DEF Steps
<1>6. dry \in BOOLEAN /\ strayed \in BOOLEAN
  BY <1>4, Zenon
<1> QED
  BY <1>1, <1>2, <1>3, <1>5, <1>6, Zenon DEF TypeOK

\* The end of a cycle leaves nothing in memory that is not of its type.
LEMMA EndsTypes ==
  ASSUME TypeOK, NEW how \in {"done", "partial", "error", "killed"}, Ends(how),
         account' \in [spot : Int, perp : Nat],
         account'.spot + OwnCoins >= 0,
         file' \in [position : Position, cash : Int, baseline : Baseline],
         crashes' \in 0..MaxCrashes,
         strayed' \in BOOLEAN
  PROVE  TypeOK'
<1>1. /\ pos' \in Position /\ snap' \in Snapshot /\ plan' \in Plan /\ report' \in Report
      /\ baseline' \in Baseline
  BY BlankTypes, Zenon DEF Ends
<1>2. pc' = "idle" /\ dry' = FALSE /\ cash' = 0 /\ outcome' = how /\ cycles' = cycles
  BY Zenon DEF Ends
<1>3. /\ pc' \in Steps /\ cash' \in Int
      /\ outcome' \in {"none", "done", "partial", "error", "killed"}
  BY <1>2 DEF Steps
<1>4. dry' \in BOOLEAN
  BY <1>2, Zenon
<1>5. cycles' \in 0..MaxCycles
  BY <1>2, Zenon DEF TypeOK
<1> QED
  BY <1>1, <1>3, <1>4, <1>5, Zenon DEF TypeOK

\* A step of a cycle that places no order keeps the types.
LEMMA LocalTypes ==
  ASSUME TypeOK,
         \/ \E asDry \in DryRuns : Begin(asDry)
         \/ RecordBaseline \/ TakeSnapshot \/ ReadFails \/ PaperFills \/ BookFill
         \/ Accrue \/ Save \/ Write \/ Kill \/ Over
  PROVE  TypeOK'
<1> USE DEF TypeOK
<1>1. ASSUME NEW asDry \in DryRuns, Begin(asDry)
      PROVE  TypeOK'
  <2>1. asDry \in BOOLEAN /\ Capital \in Int /\ MaxCycles \in Nat
    BY RunnerAssumption
  <2> QED
    BY <1>1, <2>1 DEF Begin, Steps
<1>2. CASE RecordBaseline
  <2>1. account.spot + OwnCoins - pos.spot \in Int
    BY RunnerAssumption DEF Position
  <2>2. <<account.spot + OwnCoins - pos.spot>> \in Baseline
    BY <2>1 DEF Baseline
  <2> QED
    BY <1>2, <2>2 DEF RecordBaseline, Steps
<1>3. CASE TakeSnapshot
  <2>1. snap' \in Snapshot
    BY <1>3, RunnerAssumption DEF TakeSnapshot
  <2>2. plan' \in Plan
    BY <1>3, <2>1, PlanBounds DEF TakeSnapshot
  <2>3. report' \in Report
    <3>1. snap'.spotPx \in Int /\ snap'.perpPx \in Int
      BY <2>1 DEF Snapshot
    <3>2. report' = [spot |-> 0, spotPx |-> snap'.spotPx, perp |-> 0,
                     perpPx |-> snap'.perpPx, fee |-> 0]
      BY <1>3 DEF TakeSnapshot, NoReport
    <3> QED
      BY <3>1, <3>2 DEF Report
  <2> QED
    BY <1>3, <2>1, <2>2, <2>3 DEF TakeSnapshot, Steps
<1>4. CASE ReadFails
  BY <1>4, EndsTypes DEF ReadFails, Raises
<1>5. CASE PaperFills
  <2>1. /\ snap.spotPx \in Nat /\ snap.perpPx \in Nat
        /\ plan.spot \in Int /\ plan.perp \in Int
    BY DEF Snapshot, Plan
  <2>2. /\ WorsePx(snap.spotPx, plan.spot > 0) \in Int
        /\ WorsePx(snap.perpPx, plan.perp <= 0) \in Int
    BY <2>1, PaperInt, Zenon
  <2>3. ((Abs(plan.spot) * snap.spotPx + Abs(plan.perp) * snap.perpPx) * PaperTakerBps)
          \div 10000 \in Int
    <3>1. Abs(plan.spot) \in Nat /\ Abs(plan.perp) \in Nat
      BY <2>1, AbsNat
    <3>2. (Abs(plan.spot) * snap.spotPx + Abs(plan.perp) * snap.perpPx) * PaperTakerBps \in Int
      BY <2>1, <3>1, RunnerAssumption
    <3> QED
      BY <3>2
  <2>4. report' \in Report
    BY <1>5, <2>1, <2>2, <2>3 DEF PaperFills, Report
  <2> QED
    BY <1>5, <2>4 DEF PaperFills, Steps
<1>6. CASE BookFill
  <2>1. pos' \in Position /\ cash' \in Int
    BY <1>6, PositionTypes DEF BookFill
  <2> QED
    BY <1>6, <2>1 DEF BookFill, Steps
<1>7. CASE Accrue
  <2>1. pos' \in Position
    BY <1>7, PositionTypes DEF Accrue
  <2> QED
    BY <1>7, <2>1 DEF Accrue, Steps
<1>8. CASE Save
  BY <1>8, BlankTypes DEF Save, memory, Steps
<1>9. CASE Write
  <2>1. file' \in [position : Position, cash : Int, baseline : Baseline]
    BY <1>9 DEF Write
  <2> QED
    BY <1>9, <2>1, EndsTypes DEF Write
<1>10. CASE Kill
  <2>1. crashes' \in 0..MaxCrashes
    BY <1>10, RunnerAssumption DEF Kill
  <2>2. strayed' \in BOOLEAN
    BY <1>10 DEF Kill
  <2> QED
    BY <1>10, <2>1, <2>2, EndsTypes DEF Kill
<1>11. CASE Over
  BY <1>11 DEF Over, vars, memory
<1> QED
  BY <1>1, <1>2, <1>3, <1>4, <1>5, <1>6, <1>7, <1>8, <1>9, <1>10, <1>11

\* An order, whatever becomes of it, keeps the types.
LEMMA OrderTypes ==
  ASSUME TypeOK,
         \/ SpotFills \/ SkipSpot \/ SpotRejected \/ SpotAnswerLost
         \/ PerpFills \/ SkipPerp \/ PerpRejected \/ PerpAnswerLost
         \/ Unwound \/ UnwindRejected \/ UnwindAnswerLost
  PROVE  TypeOK'
<1>1. /\ account.spot \in Int /\ account.perp \in Nat
      /\ account = [spot |-> account.spot, perp |-> account.perp]
      /\ report.spot \in Int /\ report.fee \in Int
      /\ snap.spotPx \in Int /\ snap.perpPx \in Int
      /\ OwnCoins \in Nat
      /\ account.spot + OwnCoins >= 0
      /\ -report.spot \in Int
  BY RunnerAssumption DEF TypeOK, Report, Snapshot
<1>2. SpotOrder \in Int /\ PerpOrder \in Int
  BY OrdersInt
\* Every quantity an order may move leaves the account with its type.
<1>3. ASSUME NEW order \in Int, NEW q \in Nat, q <= SpotTakes(order)
      PROVE  LET a == [account EXCEPT !.spot = @ + Signed(order, q)]
             IN  a \in [spot : Int, perp : Nat] /\ a.spot + OwnCoins >= 0
  <2>1. /\ SpotTakes(order) \in Nat
        /\ order < 0 => account.spot - SpotTakes(order) + OwnCoins >= 0
    BY <1>3, TakesBounds
  <2>2. /\ account.spot + Signed(order, q) \in Int
        /\ account.spot + Signed(order, q) + OwnCoins >= 0
    BY <1>1, <1>3, <2>1 DEF Signed
  <2>3. [account EXCEPT !.spot = @ + Signed(order, q)]
          = [spot |-> account.spot + Signed(order, q), perp |-> account.perp]
    BY <1>1
  <2> QED
    BY <1>1, <2>2, <2>3
<1>4. ASSUME NEW order \in Int, NEW q \in Nat, q <= PerpTakes(order)
      PROVE  LET a == [account EXCEPT !.perp = @ + Signed(order, q)]
             IN  a \in [spot : Int, perp : Nat] /\ a.spot + OwnCoins >= 0
  <2>1. /\ PerpTakes(order) \in Nat
        /\ order < 0 => PerpTakes(order) <= account.perp
    BY <1>4, TakesBounds
  <2>2. account.perp + Signed(order, q) \in Nat
    BY <1>1, <1>4, <2>1 DEF Signed
  <2>3. [account EXCEPT !.perp = @ + Signed(order, q)]
          = [spot |-> account.spot, perp |-> account.perp + Signed(order, q)]
    BY <1>1
  <2> QED
    BY <1>1, <2>2, <2>3
<1>5. /\ SpotTakes(SpotOrder) \in Nat /\ PerpTakes(PerpOrder) \in Nat
      /\ SpotTakes(-report.spot) \in Nat
  BY <1>1, <1>2, TakesBounds
<1>6. /\ file \in [position : Position, cash : Int, baseline : Baseline]
      /\ crashes \in 0..MaxCrashes
      /\ strayed \in BOOLEAN
      /\ account \in [spot : Int, perp : Nat]
  BY DEF TypeOK
\* What the except clause leaves, once the account is known to be sound.
<1>7. ASSUME PerpRaises, account' \in [spot : Int, perp : Nat],
             account'.spot + OwnCoins >= 0, strayed' \in BOOLEAN
      PROVE  TypeOK'
  <2>1. CASE report.spot # 0
    BY <1>7, <2>1 DEF PerpRaises, TypeOK, Steps, memory
  <2>2. CASE report.spot = 0
    <3>1. Raises("partial")
      BY <1>7, <2>2 DEF PerpRaises
    <3> QED
      BY <1>6, <1>7, <3>1, EndsTypes DEF Raises
  <2> QED
    BY <2>1, <2>2
<1>8. CASE SpotFills
  <2>1. PICK q \in FillsOf("spot", SpotTakes(SpotOrder), SpotLot) :
          /\ account' = [account EXCEPT !.spot = @ + Signed(SpotOrder, q)]
          /\ report' = [report EXCEPT !.spot = Signed(SpotOrder, q),
                                      !.fee = @ + Fee(q, snap.spotPx)]
    BY <1>8 DEF SpotFills
  <2>2. q \in Nat /\ q <= SpotTakes(SpotOrder)
    BY <1>5, FillBounds
  <2>3. Signed(SpotOrder, q) \in Int /\ report.fee + Fee(q, snap.spotPx) \in Int
    BY <1>1, <1>2, <2>2, FeeInt DEF Signed
  <2>4. report' \in Report
    <3>1. report \in Report
      BY DEF TypeOK
    <3>2. report' = [report EXCEPT !.spot = Signed(SpotOrder, q),
                                   !.fee = report.fee + Fee(q, snap.spotPx)]
      BY <2>1
    <3> HIDE DEF TypeOK
    <3> QED
      BY <2>3, <3>1, <3>2 DEF Report
  <2>5. account' \in [spot : Int, perp : Nat] /\ account'.spot + OwnCoins >= 0
    BY <1>2, <1>3, <2>1, <2>2
  <2> QED
    BY <1>8, <2>4, <2>5 DEF SpotFills, TypeOK, Steps
<1>9. CASE SkipSpot
  BY <1>9 DEF SkipSpot, TypeOK, memory, Steps
<1>10. CASE SpotRejected
  BY <1>1, <1>6, <1>10, EndsTypes DEF SpotRejected, Raises
<1>11. CASE SpotAnswerLost
  <2>1. account' \in [spot : Int, perp : Nat] /\ account'.spot + OwnCoins >= 0
    BY <1>2, <1>3, <1>5, <1>11 DEF SpotAnswerLost
  <2> QED
    BY <1>6, <1>11, <2>1, EndsTypes DEF SpotAnswerLost, Raises
<1>12. CASE PerpFills
  <2>1. PICK q \in FillsOf("perp", PerpTakes(PerpOrder), PerpLot) :
          /\ account' = [account EXCEPT !.perp = @ + Signed(PerpOrder, q)]
          /\ report' = [report EXCEPT !.perp = Signed(PerpOrder, q),
                                      !.fee = @ + Fee(q, snap.perpPx)]
    BY <1>12 DEF PerpFills
  <2>2. q \in Nat /\ q <= PerpTakes(PerpOrder)
    BY <1>5, FillBounds
  <2>3. Signed(PerpOrder, q) \in Int /\ report.fee + Fee(q, snap.perpPx) \in Int
    BY <1>1, <1>2, <2>2, FeeInt DEF Signed
  <2>4. report' \in Report
    <3>1. report \in Report
      BY DEF TypeOK
    <3>2. report' = [report EXCEPT !.perp = Signed(PerpOrder, q),
                                   !.fee = report.fee + Fee(q, snap.perpPx)]
      BY <2>1
    <3> HIDE DEF TypeOK
    <3> QED
      BY <2>3, <3>1, <3>2 DEF Report
  <2>5. account' \in [spot : Int, perp : Nat] /\ account'.spot + OwnCoins >= 0
    BY <1>2, <1>4, <2>1, <2>2
  <2> QED
    BY <1>12, <2>4, <2>5 DEF PerpFills, TypeOK, Steps
<1>13. CASE SkipPerp
  BY <1>13 DEF SkipPerp, TypeOK, memory, Steps
<1>14. CASE PerpRejected
  BY <1>1, <1>6, <1>7, <1>14 DEF PerpRejected
<1>15. CASE PerpAnswerLost
  <2>1. account' \in [spot : Int, perp : Nat] /\ account'.spot + OwnCoins >= 0
    BY <1>2, <1>4, <1>5, <1>15 DEF PerpAnswerLost
  <2> QED
    BY <1>7, <1>15, <2>1 DEF PerpAnswerLost
<1>16. CASE Unwound
  <2>1. PICK q \in FillsOf("unwind", SpotTakes(-report.spot), SpotLot) :
          /\ account' = [account EXCEPT !.spot = @ + Signed(-report.spot, q)]
          /\ strayed' = (strayed \/ q # Abs(report.spot))
    BY <1>16 DEF Unwound
  <2>2. q \in Nat /\ q <= SpotTakes(-report.spot)
    BY <1>5, FillBounds
  <2>3. account' \in [spot : Int, perp : Nat] /\ account'.spot + OwnCoins >= 0
    BY <1>1, <1>3, <2>1, <2>2
  <2>4. strayed' \in BOOLEAN
    BY <2>1
  <2> QED
    BY <1>6, <1>16, <2>3, <2>4, EndsTypes DEF Unwound, Raises
<1>17. CASE UnwindRejected
  BY <1>1, <1>6, <1>17, EndsTypes DEF UnwindRejected, Raises
<1>18. CASE UnwindAnswerLost
  <2>1. account' \in [spot : Int, perp : Nat] /\ account'.spot + OwnCoins >= 0
    BY <1>1, <1>3, <1>5, <1>18 DEF UnwindAnswerLost
  <2>2. strayed' \in BOOLEAN
    BY <1>18 DEF UnwindAnswerLost
  <2> QED
    BY <1>6, <1>18, <2>1, <2>2, EndsTypes DEF UnwindAnswerLost, Raises
<1> QED
  BY <1>8, <1>9, <1>10, <1>11, <1>12, <1>13, <1>14, <1>15, <1>16, <1>17, <1>18

\* Every variable keeps its type: in particular the runner, whatever befalls
\* its orders, never sells more than the account has and never turns the short
\* into a long (market_perp's reduceOnly).
THEOREM CarryTypes == Spec => []TypeOK
<1>1. TypeOK /\ [Next]_vars => TypeOK'
  <2> SUFFICES ASSUME TypeOK, [Next]_vars PROVE TypeOK'
    OBVIOUS
  <2>1. CASE UNCHANGED vars
    BY <2>1 DEF vars, memory, TypeOK
  <2>2. CASE Next
    BY <2>2, LocalTypes, OrderTypes, Zenon DEF Next, Cycle
  <2> QED
    BY <2>1, <2>2
<1> QED
  BY <1>1, InitTypes, PTL DEF Spec
-----------------------------------------------------------------------------
(***************************************************************************)
(* The file and the exchange.  Reconciles is not inductive: while a cycle  *)
(* runs, what the file and the account differ by has to be in the report,  *)
(* and what memory holds has to be the one or the other.                   *)
(***************************************************************************)
\* Until its first live save the runner has no position; from then on it
\* knows how many coins are not its own.
FileSound ==
  pc # "write" =>
    /\ file.position.spot >= 0
    /\ \/ /\ file.baseline = <<>>
          /\ file.position.spot = 0
          /\ file.position.perp = 0
       \/ file.baseline = <<OwnCoins>>

BaselineSound == ~dry /\ pc \notin {"idle", "baseline"} => baseline = <<OwnCoins>>

Untraded == dry \/ pc \in {"idle", "baseline", "snapshot", "paper"}

AccountSound ==
  /\ account.spot >= 0
  /\ pc # "write" /\ Untraded =>
       account.spot = file.position.spot /\ account.perp = file.position.perp
  /\ pc # "write" /\ ~Untraded =>
       /\ account.spot = file.position.spot + report.spot
       /\ account.perp = file.position.perp + report.perp

MemorySound ==
  /\ ~dry /\ pc \in {"baseline", "snapshot", "spot", "perp", "unwind", "apply"} =>
       pos.spot = file.position.spot /\ pos.perp = file.position.perp
  /\ ~dry /\ pc \in {"accrue", "save", "write"} =>
       pos.spot = account.spot /\ pos.perp = account.perp

ReportSound ==
  /\ pc = "spot" => report.spot = 0 /\ plan.spot >= -pos.spot
  /\ pc \in {"spot", "perp", "unwind"} => report.perp = 0

InSync ==
  /\ dry => pc \in {"snapshot", "paper", "apply", "accrue", "save", "write"}
  /\ pc = "paper" => dry
  /\ ~strayed => /\ FileSound
                 /\ BaselineSound
                 /\ AccountSound
                 /\ MemorySound
                 /\ ReportSound

\* The types of what the invariant compares.
LEMMA Numbers ==
  ASSUME TypeOK
  PROVE  /\ account.spot \in Int /\ account.perp \in Nat
         /\ account = [spot |-> account.spot, perp |-> account.perp]
         /\ file.position \in Position /\ file.position.spot \in Int
         /\ file.position.perp \in Int
         /\ pos \in Position /\ pos.spot \in Int /\ pos.perp \in Int
         /\ report \in Report /\ report.spot \in Int /\ report.perp \in Int
         /\ plan.spot \in Int
         /\ dry \in BOOLEAN /\ strayed \in BOOLEAN
         /\ pc \in Steps
         /\ OwnCoins \in Nat
BY RunnerAssumption DEF TypeOK, Position, Report, Plan

\* The invariant holds when the runner is first started.
LEMMA InitSync == Init => InSync
BY DEF Init, InSync, FileSound, BaselineSound, AccountSound, MemorySound, ReportSound,
       Untraded, FreshFile, NoPosition

\* A cycle that ends without writing leaves the invariant, if the account is
\* where the file says it is.
LEMMA EndsSync ==
  ASSUME TypeOK, InSync, NEW how, Ends(how), pc # "write", file' = file,
         ~strayed' => /\ ~strayed
                      /\ account'.spot = file.position.spot
                      /\ account'.perp = file.position.perp
  PROVE  InSync'
<1>1. pc' = "idle" /\ dry' = FALSE
  BY Zenon DEF Ends
<1>2. CASE strayed'
  BY <1>1, <1>2 DEF InSync
<1>3. CASE ~strayed'
  <2>1. FileSound /\ ~strayed
    BY <1>3 DEF InSync
  <2>2. FileSound'
    BY <2>1 DEF FileSound
  <2>3. file.position.spot >= 0
    BY <2>1 DEF FileSound
  <2>4. BaselineSound' /\ MemorySound' /\ ReportSound'
    BY <1>1 DEF BaselineSound, MemorySound, ReportSound
  <2>5. AccountSound'
    BY <1>1, <1>3, <2>3 DEF AccountSound, Untraded
  <2> QED
    BY <1>1, <2>2, <2>4, <2>5 DEF InSync
<1> QED
  BY <1>2, <1>3

\* Before its orders, a cycle only copies what the file says.
LEMMA PrepareSync ==
  ASSUME TypeOK, InSync,
         (\E asDry \in DryRuns : Begin(asDry)) \/ RecordBaseline \/ TakeSnapshot \/ ReadFails
  PROVE  InSync'
<1> USE DEF FileSound, BaselineSound, AccountSound, MemorySound, ReportSound, Untraded
<1>1. ASSUME NEW asDry \in DryRuns, Begin(asDry)
      PROVE  InSync'
  <2>1. asDry \in BOOLEAN
    BY RunnerAssumption
  <2> QED
    BY <1>1, <2>1, Numbers DEF Begin, InSync
<1>2. CASE RecordBaseline
  <2>1. ~dry
    BY <1>2 DEF RecordBaseline, InSync
  <2>2. CASE strayed
    BY <1>2, <2>1, <2>2 DEF RecordBaseline, InSync
  <2>3. CASE ~strayed
    <3>1. account.spot + OwnCoins - pos.spot = OwnCoins
      BY <1>2, <2>1, <2>3, Numbers DEF RecordBaseline, InSync
    <3>2. baseline' = <<OwnCoins>>
      BY <1>2, <3>1 DEF RecordBaseline
    <3> QED
      BY <1>2, <2>1, <2>3, <3>2, Numbers DEF RecordBaseline, InSync
  <2> QED
    BY <2>2, <2>3
<1>3. CASE TakeSnapshot
  <2>1. pos.spot >= 0 => plan'.spot >= -pos.spot
    <3>1. snap' \in Snapshot
      BY <1>3, RunnerAssumption DEF TakeSnapshot
    <3>2. plan' = PlanFor(pos, cash, snap') /\ pos \in Position /\ cash \in Int
      BY <1>3 DEF TakeSnapshot, TypeOK
    <3> QED
      BY <3>1, <3>2, PlanBounds
  <2>2. report'.spot = 0 /\ report'.perp = 0
    BY <1>3 DEF TakeSnapshot, NoReport
  <2>3. /\ pc = "snapshot" /\ pc' \in {"accrue", "paper", "spot"}
        /\ dry => pc' # "spot"
        /\ ~dry => pc' # "paper"
        /\ pc' = "paper" => dry
        /\ UNCHANGED <<account, file, dry, pos, baseline, strayed>>
    BY <1>3 DEF TakeSnapshot
  <2>4. CASE strayed
    BY <2>3, <2>4, Numbers DEF InSync
  <2>5. CASE ~strayed
    <3>1. FileSound' /\ BaselineSound'
      BY <2>3, <2>5, Numbers DEF InSync
    <3>2. AccountSound' /\ MemorySound'
      BY <2>2, <2>3, <2>5, Numbers DEF InSync
    <3>3. ReportSound'
      <4>1. dry \/ pos.spot >= 0
        BY <2>3, <2>5, Numbers DEF InSync
      <4> QED
        BY <2>1, <2>2, <2>3, <4>1, Numbers
    <3> QED
      BY <2>3, <3>1, <3>2, <3>3, Numbers DEF InSync
  <2> QED
    BY <2>4, <2>5
<1>4. CASE ReadFails
  <2>1. /\ Ends("error") /\ pc \in {"baseline", "snapshot"}
        /\ UNCHANGED <<file, account, strayed>>
    BY <1>4 DEF ReadFails, Raises
  <2> QED
    BY <2>1, EndsSync DEF InSync
<1> QED
  BY <1>1, <1>2, <1>3, <1>4

\* What an order moves is reported, or taken back, or the two have strayed.
LEMMA SpotSync ==
  ASSUME TypeOK, InSync, SpotFills \/ SkipSpot \/ SpotRejected \/ SpotAnswerLost
  PROVE  InSync'
<1> USE DEF FileSound, BaselineSound, AccountSound, MemorySound, ReportSound, Untraded
<1>1. pc = "spot"
  BY DEF SpotFills, SkipSpot, SpotRejected, SpotAnswerLost
<1>2. ~dry
  BY <1>1 DEF InSync
<1>3. CASE SpotFills
  <2>1. PICK q \in FillsOf("spot", SpotTakes(SpotOrder), SpotLot) :
          /\ account' = [account EXCEPT !.spot = @ + Signed(SpotOrder, q)]
          /\ report' = [report EXCEPT !.spot = Signed(SpotOrder, q),
                                      !.fee = @ + Fee(q, snap.spotPx)]
    BY <1>3 DEF SpotFills
  <2>2. SpotOrder \in Int
    BY OrdersInt
  <2>3. q \in Nat /\ q <= Abs(SpotOrder)
    BY <2>2, TakesBounds, FillBounds, AbsNat
  <2>4. /\ account'.spot = account.spot + Signed(SpotOrder, q)
        /\ account'.perp = account.perp
    BY <2>1, Numbers
  <2>5. report'.spot = Signed(SpotOrder, q) /\ report'.perp = report.perp
    BY <2>1, Numbers DEF Report
  <2>6. SpotOrder < 0 => plan.spot <= SpotOrder
    BY Numbers, RoundQtyBounds DEF SpotOrder
  <2>7. ~strayed => account'.spot >= 0
    BY <1>1, <1>2, <2>2, <2>3, <2>4, <2>6, Numbers, AbsNat DEF InSync, Signed
  <2>8. pc' = "perp" /\ UNCHANGED <<file, dry, pos, baseline, strayed>>
    BY <1>3 DEF SpotFills
  <2>9. Signed(SpotOrder, q) \in Int
    BY <2>2, <2>3 DEF Signed
  <2>10. CASE strayed
    BY <1>2, <2>8, <2>10 DEF InSync
  <2>11. CASE ~strayed
    <3>1. FileSound' /\ BaselineSound' /\ MemorySound'
      BY <1>1, <1>2, <2>8, <2>11 DEF InSync
    <3>2. ReportSound'
      BY <1>1, <2>5, <2>8, <2>11 DEF InSync
    <3>3. AccountSound'
      BY <1>1, <1>2, <2>4, <2>5, <2>7, <2>8, <2>9, <2>11, Numbers DEF InSync
    <3> QED
      BY <1>2, <2>8, <3>1, <3>2, <3>3 DEF InSync
  <2> QED
    BY <2>10, <2>11
<1>4. CASE SkipSpot
  BY <1>1, <1>2, <1>4 DEF SkipSpot, memory, InSync
<1>5. CASE SpotRejected
  <2>1. Ends("error") /\ UNCHANGED <<file, account, strayed>>
    BY <1>5 DEF SpotRejected, Raises
  <2>2. ~strayed => account.spot = file.position.spot /\ account.perp = file.position.perp
    BY <1>1, <1>2, Numbers DEF InSync
  <2> QED
    BY <1>1, <2>1, <2>2, EndsSync
<1>6. CASE SpotAnswerLost
  <2>1. Ends("error") /\ file' = file /\ strayed'
    BY <1>6 DEF SpotAnswerLost, Raises
  <2> QED
    BY <1>1, <2>1, EndsSync
<1> QED
  BY <1>3, <1>4, <1>5, <1>6

\* The perp leg: a refusal without a spot leg changes nothing, one with a spot
\* leg leaves the difference to be unwound (execute's except clause).
LEMMA PerpSync ==
  ASSUME TypeOK, InSync, PerpFills \/ SkipPerp \/ PerpRejected \/ PerpAnswerLost
  PROVE  InSync'
<1> USE DEF FileSound, BaselineSound, AccountSound, MemorySound, ReportSound, Untraded
<1>1. pc = "perp"
  BY DEF PerpFills, SkipPerp, PerpRejected, PerpAnswerLost
<1>2. ~dry
  BY <1>1 DEF InSync
<1>3. CASE PerpFills
  <2>1. PICK q \in FillsOf("perp", PerpTakes(PerpOrder), PerpLot) :
          /\ account' = [account EXCEPT !.perp = @ + Signed(PerpOrder, q)]
          /\ report' = [report EXCEPT !.perp = Signed(PerpOrder, q),
                                      !.fee = @ + Fee(q, snap.perpPx)]
    BY <1>3 DEF PerpFills
  <2>2. PerpOrder \in Int /\ q \in Nat
    BY OrdersInt, TakesBounds, FillBounds
  <2>3. /\ account'.spot = account.spot
        /\ account'.perp = account.perp + Signed(PerpOrder, q)
    BY <2>1, Numbers
  <2>4. report'.perp = Signed(PerpOrder, q) /\ report'.spot = report.spot
    BY <2>1, Numbers DEF Report
  <2>5. Signed(PerpOrder, q) \in Int
    BY <2>2 DEF Signed
  <2>6. pc' = "apply" /\ UNCHANGED <<file, dry, pos, baseline, strayed>>
    BY <1>3 DEF PerpFills
  <2> QED
    BY <1>1, <1>2, <2>3, <2>4, <2>5, <2>6, Numbers DEF InSync
<1>4. CASE SkipPerp
  BY <1>1, <1>2, <1>4 DEF SkipPerp, memory, InSync
<1>5. CASE PerpRejected
  <2>1. PerpRaises /\ UNCHANGED <<account, strayed>>
    BY <1>5 DEF PerpRejected
  <2>2. CASE report.spot # 0
    BY <1>1, <1>2, <2>1, <2>2 DEF PerpRaises, memory, InSync
  <2>3. CASE report.spot = 0
    <3>1. Ends("partial") /\ file' = file
      BY <2>1, <2>3 DEF PerpRaises, Raises
    <3>2. ~strayed => account.spot = file.position.spot /\ account.perp = file.position.perp
      BY <1>1, <1>2, <2>3, Numbers DEF InSync
    <3> QED
      BY <1>1, <2>1, <3>1, <3>2, EndsSync
  <2> QED
    BY <2>2, <2>3
<1>6. CASE PerpAnswerLost
  <2>1. PerpRaises /\ strayed'
    BY <1>6 DEF PerpAnswerLost
  <2>2. CASE report.spot # 0
    BY <1>1, <1>2, <2>1, <2>2 DEF PerpRaises, memory, InSync
  <2>3. CASE report.spot = 0
    <3>1. Ends("partial") /\ file' = file
      BY <2>1, <2>3 DEF PerpRaises, Raises
    <3> QED
      BY <1>1, <2>1, <3>1, EndsSync
  <2> QED
    BY <2>2, <2>3
<1> QED
  BY <1>3, <1>4, <1>5, <1>6

\* An unwinding order that fills whole brings the spot leg back.
LEMMA UnwindSync ==
  ASSUME TypeOK, InSync, Unwound \/ UnwindRejected \/ UnwindAnswerLost
  PROVE  InSync'
<1>1. pc = "unwind"
  BY DEF Unwound, UnwindRejected, UnwindAnswerLost
<1>2. ~dry
  BY <1>1 DEF InSync
<1>3. ~strayed => /\ account.spot = file.position.spot + report.spot
                  /\ account.perp = file.position.perp
  BY <1>1, <1>2, Numbers DEF InSync, AccountSound, ReportSound, Untraded
<1>4. Signed(-report.spot, Abs(report.spot)) = -report.spot
  BY Numbers DEF Signed, Abs
<1>5. CASE Unwound
  <2>1. PICK q \in FillsOf("unwind", SpotTakes(-report.spot), SpotLot) :
          /\ account' = [account EXCEPT !.spot = @ + Signed(-report.spot, q)]
          /\ strayed' = (strayed \/ q # Abs(report.spot))
    BY <1>5 DEF Unwound
  <2>2. account'.spot = account.spot + Signed(-report.spot, q) /\ account'.perp = account.perp
    BY <2>1, Numbers
  <2>3. ~strayed' => /\ ~strayed
                     /\ account'.spot = file.position.spot
                     /\ account'.perp = file.position.perp
    <3>1. ~strayed' => ~strayed /\ q = Abs(report.spot)
      BY <2>1, Zenon
    <3> QED
      BY <1>3, <1>4, <2>2, <3>1, Numbers
  <2>4. Ends("partial") /\ file' = file
    BY <1>5 DEF Unwound, Raises
  <2> QED
    BY <1>1, <2>3, <2>4, EndsSync
<1>6. CASE UnwindRejected
  <2>1. Ends("error") /\ file' = file /\ strayed'
    BY <1>6 DEF UnwindRejected, Raises
  <2> QED
    BY <1>1, <2>1, EndsSync
<1>7. CASE UnwindAnswerLost
  <2> DEFINE q == SpotTakes(-report.spot)
  <2>1. /\ account' = [account EXCEPT !.spot = @ + Signed(-report.spot, q)]
        /\ strayed' = (strayed \/ q # Abs(report.spot))
        /\ Ends("error") /\ file' = file
    BY <1>7 DEF UnwindAnswerLost, Raises
  <2> HIDE DEF q
  <2>2. account'.spot = account.spot + Signed(-report.spot, q) /\ account'.perp = account.perp
    BY <2>1, Numbers
  <2>3. ~strayed' => /\ ~strayed
                     /\ account'.spot = file.position.spot
                     /\ account'.perp = file.position.perp
    <3>1. ~strayed' => ~strayed /\ q = Abs(report.spot)
      BY <2>1, Zenon
    <3> QED
      BY <1>3, <1>4, <2>2, <3>1, Numbers
  <2> QED
    BY <1>1, <2>1, <2>3, EndsSync
<1> QED
  BY <1>5, <1>6, <1>7

\* Booking what was reported makes memory the account; saving makes the file
\* what memory is.
LEMMA FinishSync ==
  ASSUME TypeOK, InSync, PaperFills \/ BookFill \/ Accrue \/ Save \/ Write \/ Kill \/ Over
  PROVE  InSync'
<1> USE DEF FileSound, BaselineSound, AccountSound, MemorySound, ReportSound, Untraded
<1>1. CASE PaperFills
  <2>1. pc = "paper" /\ pc' = "apply" /\ UNCHANGED <<account, file, dry, pos, baseline, strayed>>
    BY <1>1 DEF PaperFills
  <2>2. dry \/ ~dry
    OBVIOUS
  <2> QED
    BY <2>1, Numbers DEF InSync
<1>2. CASE BookFill
  <2>1. /\ pc = "apply" /\ pc' = "accrue"
        /\ pos'.spot = AtLeastZero(pos.spot + report.spot)
        /\ pos'.perp = AtLeastZero(pos.perp + report.perp)
        /\ UNCHANGED <<account, file, dry, baseline, report, strayed>>
    <3>1. snap \in Snapshot
      BY DEF TypeOK
    <3> QED
      BY <1>2, <3>1, Numbers, PositionTypes DEF BookFill
  <2> QED
    BY <2>1, Numbers DEF InSync, AtLeastZero
<1>3. CASE Accrue
  <2>1. /\ pc = "accrue" /\ pc' = "save"
        /\ pos'.spot = pos.spot /\ pos'.perp = pos.perp
        /\ UNCHANGED <<account, file, dry, baseline, report, strayed>>
    <3>1. snap \in Snapshot
      BY DEF TypeOK
    <3> QED
      BY <1>3, <3>1, Numbers, PositionTypes DEF Accrue
  <2> QED
    BY <2>1, Numbers DEF InSync
<1>4. CASE Save
  BY <1>4, Numbers DEF Save, memory, InSync
<1>5. CASE Write
  <2>1. /\ pc = "write" /\ pc' = "idle" /\ ~dry'
        /\ file'.position = pos /\ file'.baseline = baseline
        /\ strayed' = (strayed \/ dry)
        /\ account' = account
    BY <1>5 DEF Write, Ends
  <2> QED
    BY <2>1, Numbers DEF InSync
<1>6. CASE Kill
  <2>1. /\ Ends("killed") /\ UNCHANGED <<file, account>>
        /\ strayed' = (strayed \/ Undocumented)
    BY <1>6 DEF Kill
  <2>2. CASE pc = "write"
    <3>1. strayed'
      BY <2>1, <2>2 DEF Undocumented
    <3> QED
      BY <2>1, <3>1 DEF InSync, Ends
  <2>3. CASE pc # "write"
    <3>1. ~strayed' => /\ ~strayed
                       /\ account.spot = file.position.spot
                       /\ account.perp = file.position.perp
      <4>1. ~strayed' => ~strayed /\ ~Undocumented
        BY <2>1, Zenon
      <4>2. ~Undocumented => dry \/ (report.spot = 0 /\ report.perp = 0)
        BY DEF Undocumented
      <4> QED
        BY <2>3, <4>1, <4>2, Numbers DEF InSync
    <3> QED
      BY <2>1, <2>3, <3>1, EndsSync
  <2> QED
    BY <2>2, <2>3
<1>7. CASE Over
  BY <1>7 DEF Over, vars, memory, InSync
<1> QED
  BY <1>1, <1>2, <1>3, <1>4, <1>5, <1>6, <1>7

\* What memory, the report, the file and the account have to do with one
\* another, in every state of a runner.
THEOREM CarryInSync == Spec => []InSync
<1>1. TypeOK /\ InSync /\ [Next]_vars => InSync'
  <2> SUFFICES ASSUME TypeOK, InSync, [Next]_vars PROVE InSync'
    OBVIOUS
  <2>1. CASE UNCHANGED vars
    BY <2>1 DEF vars, memory, InSync, FileSound, BaselineSound, AccountSound, MemorySound,
                ReportSound, Untraded
  <2>2. CASE Next
    BY <2>2, PrepareSync, SpotSync, PerpSync, UnwindSync, FinishSync, Zenon DEF Next, Cycle
  <2> QED
    BY <2>1, <2>2
<1> QED
  BY <1>1, InitSync, CarryTypes, PTL DEF Spec

\* Whatever the exchange refuses, fills in part or has unwound, and wherever the
\* runner is killed, reconciling finds no mismatch between two cycles, unless
\* an answer was lost, an unwinding failed, or the kill came between an order
\* and the end of the save (_cycle, execute, save_live_state, _reconcile).
THEOREM AlwaysReconciles == Spec => []Reconciles
<1>1. TypeOK /\ InSync => Reconciles
  <2> SUFFICES ASSUME TypeOK, InSync, pc = "idle", ~strayed PROVE Agrees
    BY DEF Reconciles
  <2>1. /\ account.spot = file.position.spot /\ account.perp = file.position.perp
        /\ \/ /\ file.baseline = <<>>
              /\ file.position.spot = 0
              /\ file.position.perp = 0
           \/ file.baseline = <<OwnCoins>>
    BY DEF InSync, AccountSound, FileSound, Untraded
  <2>2. CASE file.baseline = <<>>
    <3>1. <<>> # <<OwnCoins>>
      OBVIOUS
    <3> QED
      BY <2>1, <2>2, <3>1 DEF Agrees
  <2>3. CASE file.baseline = <<OwnCoins>>
    <3>1. file.baseline # <<>> /\ file.baseline[1] = OwnCoins
      BY <2>3
    <3> QED
      BY <2>1, <3>1, Numbers DEF Agrees
  <2> QED
    BY <2>1, <2>2, <2>3
<1> QED
  BY <1>1, CarryTypes, CarryInSync, PTL

-----------------------------------------------------------------------------
(***************************************************************************)
(* The hedge.                                                              *)
(***************************************************************************)
\* Every amount the perpetual accepts is one the spot market accepts too: what
\* round_qty takes for granted when it calls the smaller of the two rounded
\* amounts one that both venues accept (its docstring: the perp's lot is the
\* coarser).  With lots of 2 and 3 an order for 5 would buy 2 and sell 3 short.
NestedLots == \E k \in Nat : PerpLot = k * SpotLot

\* An order that was sent has been filled in its direction.
Sent(order, filled) ==
  /\ order > 0 => filled > 0
  /\ order < 0 => filled < 0
  /\ order = 0 => filled = 0

\* What is cut off is less than a lot, and what is left is a multiple of it.
LEMMA Cut ==
  ASSUME NEW q \in Nat, NEW lot \in Nat \ {0}
  PROVE  /\ Truncated(q, lot) \in Nat /\ Truncated(q, lot) <= q
         /\ q - Truncated(q, lot) < lot
         /\ q \div lot \in Nat /\ Truncated(q, lot) = lot * (q \div lot)
<1>1. q % lot \in 0 .. (lot - 1) /\ q = lot * (q \div lot) + (q % lot) /\ q \div lot \in Nat
  OBVIOUS
<1>2. lot * (q \div lot) \in Nat
  BY <1>1
<1> QED
  BY <1>1, <1>2, TruncatedBounds DEF Truncated

\* Nothing is cut off a multiple of the lot.
LEMMA Uncut ==
  ASSUME NEW n \in Nat, NEW lot \in Nat \ {0}
  PROVE  Truncated(lot * n, lot) = lot * n
<1> DEFINE q == lot * n
           d == q \div lot
<1>1. q \in Nat
  OBVIOUS
<1>2. d \in Nat /\ Truncated(q, lot) = lot * d /\ lot * d <= q /\ q - lot * d < lot
  BY <1>1, Cut
<1>3. lot * (n - d) = lot * n - lot * d
  BY <1>2
<1> HIDE DEF d
<1>4. n - d <= 0
  <2> SUFFICES ASSUME n - d >= 1 PROVE FALSE
    BY <1>2
  <2>1. lot * (n - d) >= lot
    BY <1>2
  <2> QED
    BY <1>2, <1>3, <2>1
<1>5. n - d >= 0
  <2> SUFFICES ASSUME n - d <= -1 PROVE FALSE
    BY <1>2
  <2>1. lot * (n - d) <= -lot
    BY <1>2
  <2> QED
    BY <1>2, <1>3, <2>1
<1>6. d = n
  BY <1>2, <1>4, <1>5
<1> QED
  BY <1>2, <1>6

\* Cutting to the coarser lot leaves no more, and a whole number of both lots.
LEMMA CutBoth ==
  ASSUME NestedLots, NEW q \in Nat
  PROVE  /\ SpotLot <= PerpLot
         /\ Truncated(q, PerpLot) <= Truncated(q, SpotLot)
         /\ Truncated(Truncated(q, PerpLot), SpotLot) = Truncated(q, PerpLot)
         /\ Truncated(Truncated(q, PerpLot), PerpLot) = Truncated(q, PerpLot)
<1>1. SpotLot \in Nat \ {0} /\ PerpLot \in Nat \ {0}
  BY RunnerAssumption
<1>2. PICK k \in Nat : PerpLot = k * SpotLot
  BY DEF NestedLots
<1>3. k >= 1
  BY <1>1, <1>2
<1>4. SpotLot <= PerpLot
  <2>1. (k - 1) * SpotLot >= 0
    BY <1>1, <1>3
  <2>2. (k - 1) * SpotLot = k * SpotLot - SpotLot
    BY <1>1
  <2> QED
    BY <1>1, <1>2, <2>1, <2>2
<1> DEFINE m == q \div PerpLot
           d == q \div SpotLot
           p == Truncated(q, PerpLot)
           s == Truncated(q, SpotLot)
<1>5. m \in Nat /\ p = PerpLot * m /\ p <= q /\ p \in Nat
  BY <1>1, Cut
<1>6. d \in Nat /\ s = SpotLot * d /\ q - s < SpotLot /\ s \in Nat
  BY <1>1, Cut
<1> HIDE DEF m, d, p, s
<1>7. k * m \in Nat /\ p = SpotLot * (k * m)
  <2>1. k * SpotLot * m = SpotLot * (k * m)
    BY <1>1, <1>5
  <2> QED
    BY <1>2, <1>5, <2>1
<1>8. p <= s
  <2> DEFINE n == k * m
  <2>1. n \in Nat /\ p = SpotLot * n
    BY <1>7
  <2> HIDE DEF n
  <2>2. SpotLot * (n - d) = p - s
    BY <1>1, <1>6, <2>1
  <2>3. SpotLot * (n - d) < SpotLot
    BY <1>1, <1>5, <1>6, <2>2
  <2>4. n - d < 1
    <3> SUFFICES ASSUME n - d >= 1 PROVE FALSE
      BY <1>6, <2>1
    <3>1. SpotLot * (n - d) >= SpotLot
      BY <1>1, <1>6, <2>1
    <3> QED
      BY <1>1, <1>6, <2>1, <2>3, <3>1
  <2>5. SpotLot * (n - d) <= 0
    <3>1. n - d <= 0 /\ n - d \in Int
      BY <1>6, <2>1, <2>4
    <3> QED
      BY <1>1, <3>1
  <2> QED
    BY <1>5, <1>6, <2>2, <2>5
<1>9. Truncated(p, SpotLot) = p
  BY <1>1, <1>7, Uncut
<1>10. Truncated(p, PerpLot) = p
  BY <1>1, <1>5, Uncut
<1> QED
  BY <1>4, <1>8, <1>9, <1>10 DEF p, s

\* What has been filled of a quantity the runner planned to trade, when it was
\* filled as it was sent.
Traded(q, filled, lot) ==
  /\ Sent(RoundQty(q), filled)
  /\ Abs(filled) = Truncated(Abs(RoundQty(q)), lot)

\* round_qty: a perp leg that was filled at all was filled to the last whole lot,
\* and so was a spot leg of the same quantity; what neither of them trades is
\* less than the coarser lot.
LEMMA LegTraded ==
  ASSUME NestedLots, NEW q \in Int, NEW spot \in Int, NEW perp \in Int
  PROVE  /\ Traded(q, spot, SpotLot) =>
              /\ q >= 0 => 0 <= spot /\ spot <= q /\ q - spot < PerpLot
              /\ q < 0 => q <= spot /\ spot <= 0 /\ spot - q < PerpLot
         /\ Traded(q, perp, PerpLot) =>
              /\ q >= 0 => 0 <= perp /\ perp <= q /\ q - perp < PerpLot
              /\ q < 0 => q <= perp /\ perp <= 0 /\ perp - q < PerpLot
         /\ Traded(q, spot, SpotLot) /\ Traded(q, perp, PerpLot) => spot = perp
<1> DEFINE n == Abs(q)
           s == Truncated(n, SpotLot)
           p == Truncated(n, PerpLot)
           order == RoundQty(q)
           a == Truncated(Abs(order), SpotLot)
           b == Truncated(Abs(order), PerpLot)
<1>1. n \in Nat /\ (q >= 0 => n = q) /\ (q < 0 => n = -q)
  BY AbsNat
<1>2. SpotLot \in Nat \ {0} /\ PerpLot \in Nat \ {0}
  BY RunnerAssumption
<1>3. s \in Nat /\ s <= n /\ n - s < SpotLot
  BY <1>1, <1>2, Cut
<1>4. p \in Nat /\ p <= n /\ n - p < PerpLot
  BY <1>1, <1>2, Cut
<1>5. SpotLot <= PerpLot /\ p <= s /\ Truncated(p, SpotLot) = p /\ Truncated(p, PerpLot) = p
  BY <1>1, CutBoth
<1>6. order = IF s = 0 \/ p = 0 THEN q ELSE Signed(q, Lesser(s, p))
  BY DEF RoundQty
<1>7. /\ order \in Int
      /\ q > 0 => order > 0
      /\ q < 0 => order < 0
      /\ q = 0 => order = 0
  <2> HIDE DEF s, p, n, order
  <2>1. CASE s = 0 \/ p = 0
    BY <1>6, <2>1
  <2>2. CASE ~(s = 0 \/ p = 0)
    <3>1. order = Signed(q, p) /\ p > 0
      BY <1>3, <1>4, <1>5, <1>6, <2>2 DEF Lesser
    <3>2. q # 0
      BY <1>1, <1>4, <3>1
    <3> QED
      BY <1>4, <3>1, <3>2 DEF Signed
  <2> QED
    BY <2>1, <2>2
<1>8. CASE p = 0
  <2>1. order = q /\ Abs(order) = n
    BY <1>6, <1>8
  <2>2. a = s /\ b = 0
    BY <1>8, <2>1
  <2> HIDE DEF s, p, n, order, a, b
  <2>3. ASSUME Traded(q, spot, SpotLot)
        PROVE  /\ q >= 0 => spot = s
               /\ q < 0 => spot = -s
    <3>1. Abs(spot) = s /\ Sent(q, spot)
      BY <2>1, <2>2, <2>3 DEF Traded, order, a
    <3> QED
      BY <1>3, <3>1, AbsNat DEF Sent
  <2>4. ASSUME Traded(q, perp, PerpLot)
        PROVE  q = 0 /\ perp = 0
    <3>1. Abs(perp) = 0 /\ Sent(q, perp)
      BY <2>1, <2>2, <2>4 DEF Traded, order, b
    <3> QED
      BY <3>1, AbsNat DEF Sent
  <2> QED
    BY <1>1, <1>2, <1>3, <1>5, <2>3, <2>4
<1>9. CASE p > 0
  <2>1. order = Signed(q, p)
    <3> HIDE DEF s, p, n, order
    <3> QED
      BY <1>3, <1>4, <1>5, <1>6, <1>9 DEF Lesser
  <2>2. Abs(order) = p
    <3> HIDE DEF s, p, n, order
    <3> QED
      BY <1>4, <2>1 DEF Signed, Abs
  <2>3. a = p /\ b = p
    BY <1>5, <2>2
  <2> HIDE DEF s, p, n, order, a, b
  <2>4. ASSUME NEW filled \in Int, Abs(filled) = p, Sent(order, filled)
        PROVE  /\ q >= 0 => filled = p
               /\ q < 0 => filled = -p
    BY <1>1, <1>4, <1>7, <1>9, <2>4, AbsNat DEF Sent
  <2>5. ASSUME Traded(q, spot, SpotLot)
        PROVE  /\ q >= 0 => spot = p
               /\ q < 0 => spot = -p
    BY <2>3, <2>4, <2>5 DEF Traded, order, a
  <2>6. ASSUME Traded(q, perp, PerpLot)
        PROVE  /\ q >= 0 => perp = p
               /\ q < 0 => perp = -p
    BY <2>3, <2>4, <2>6 DEF Traded, order, b
  <2> QED
    BY <1>1, <1>4, <2>5, <2>6
<1> QED
  BY <1>4, <1>8, <1>9

\* DeltaAllowed for a plan made of p, which left the spot leg at p.spot + spot.
Allowed(held, spot, s, reason) ==
  LET larger == IF held + spot > held THEN held + spot ELSE held
      lot    == PerpLot * (IF s.spotPx > s.perpPx THEN s.spotPx ELSE s.perpPx)
  IN  (RebalanceBandPct * larger * s.spotPx) \div 100
      + Abs(s.spotPx - s.perpPx) * Abs(spot)
      + (IF reason \in {"close", "rebalance"} THEN lot ELSE 0)

\* The parts of the allowance are naturals, and the first covers the band around
\* either size of the spot leg.
LEMMA AllowedParts ==
  ASSUME NEW held \in Nat, NEW spot \in Int, held + spot >= 0, NEW s \in Snapshot, NEW reason
  PROVE  \E band \in Nat, basis \in Nat, lot \in Nat :
           /\ Allowed(held, spot, s, reason)
                = band + basis + (IF reason \in {"close", "rebalance"} THEN lot ELSE 0)
           /\ (RebalanceBandPct * held * s.spotPx) \div 100 <= band
           /\ basis = Abs(s.spotPx - s.perpPx) * Abs(spot)
           /\ PerpLot * s.spotPx <= lot /\ PerpLot * s.perpPx <= lot
<1> DEFINE larger == IF held + spot > held THEN held + spot ELSE held
           band == (RebalanceBandPct * larger * s.spotPx) \div 100
           basis == Abs(s.spotPx - s.perpPx) * Abs(spot)
           px == IF s.spotPx > s.perpPx THEN s.spotPx ELSE s.perpPx
           lot == PerpLot * px
<1>1. /\ s.spotPx \in Nat /\ s.perpPx \in Nat /\ PerpLot \in Nat /\ RebalanceBandPct \in Nat
      /\ s.spotPx - s.perpPx \in Int
  BY RunnerAssumption, PositionAssumption DEF Snapshot
<1>2. basis \in Nat
  <2>1. Abs(s.spotPx - s.perpPx) \in Nat /\ Abs(spot) \in Nat
    BY <1>1, AbsNat
  <2> QED
    BY <2>1
<1>3. lot \in Nat /\ PerpLot * s.spotPx <= lot /\ PerpLot * s.perpPx <= lot
  <2>1. px \in Nat /\ px >= s.spotPx /\ px >= s.perpPx
    BY <1>1
  <2> HIDE DEF px
  <2>2. PerpLot * (px - s.spotPx) >= 0 /\ PerpLot * (px - s.perpPx) >= 0
    BY <1>1, <2>1
  <2>3. /\ PerpLot * (px - s.spotPx) = PerpLot * px - PerpLot * s.spotPx
        /\ PerpLot * (px - s.perpPx) = PerpLot * px - PerpLot * s.perpPx
        /\ PerpLot * px \in Nat /\ PerpLot * s.spotPx \in Nat /\ PerpLot * s.perpPx \in Nat
    BY <1>1, <2>1
  <2> QED
    BY <2>2, <2>3
<1>4. band \in Nat /\ (RebalanceBandPct * held * s.spotPx) \div 100 <= band
  <2>1. larger \in Nat /\ larger >= held
    OBVIOUS
  <2> HIDE DEF larger
  <2> DEFINE x == RebalanceBandPct * held * s.spotPx
             y == RebalanceBandPct * larger * s.spotPx
  <2>2. RebalanceBandPct * s.spotPx \in Nat
    BY <1>1
  <2>3. (RebalanceBandPct * s.spotPx) * (larger - held) >= 0
    BY <2>1, <2>2
  <2>4. /\ (RebalanceBandPct * s.spotPx) * (larger - held) = y - x
        /\ x \in Nat /\ y \in Nat
    BY <1>1, <2>1
  <2>5. x <= y
    BY <2>3, <2>4
  <2> HIDE DEF x, y
  <2>6. y \div 100 \in Nat /\ x \div 100 <= y \div 100
    BY <2>4, <2>5
  <2> QED
    BY <2>6 DEF x, y
<1>5. Allowed(held, spot, s, reason)
        = band + basis + (IF reason \in {"close", "rebalance"} THEN lot ELSE 0)
  BY DEF Allowed
<1> HIDE DEF band, basis, lot
<1>6. basis = Abs(s.spotPx - s.perpPx) * Abs(spot)
  BY DEF basis
<1> QED
  BY <1>2, <1>3, <1>4, <1>5, <1>6

\* Trading the same quantity in both legs moves the net delta by the basis on it.
LEMMA EqualLegs ==
  ASSUME NEW held \in Int, NEW short \in Int, NEW q \in Int, NEW x \in Int, NEW y \in Int
  PROVE  Abs((held + q) * x - (short + q) * y) <= Abs(held * x - short * y) + Abs(x - y) * Abs(q)
<1>1. (held + q) * x - (short + q) * y = (held * x - short * y) + (x - y) * q
  <2>1. /\ (held + q) * x = held * x + q * x
        /\ (short + q) * y = short * y + q * y
        /\ (x - y) * q = q * x - q * y
    OBVIOUS
  <2> QED
    BY <2>1
<1>2. Abs((x - y) * q) = Abs(x - y) * Abs(q)
  <2> DEFINE d == x - y
  <2>1. d \in Int
    OBVIOUS
  <2> HIDE DEF d
  <2>2. /\ d >= 0 /\ q >= 0 => d * q >= 0
        /\ d >= 0 /\ q < 0 => d * (-q) >= 0
        /\ d < 0 /\ q >= 0 => (-d) * q >= 0
        /\ d < 0 /\ q < 0 => (-d) * (-q) >= 0
    BY <2>1
  <2>3. d * (-q) = -(d * q) /\ (-d) * q = -(d * q) /\ (-d) * (-q) = d * q /\ d * q \in Int
    BY <2>1
  <2>4. Abs(d * q) = Abs(d) * Abs(q)
    <3>1. CASE d >= 0 /\ q >= 0
      BY <2>1, <2>2, <2>3, <3>1 DEF Abs
    <3>2. CASE d >= 0 /\ q < 0
      BY <2>1, <2>2, <2>3, <3>2 DEF Abs
    <3>3. CASE d < 0 /\ q >= 0
      BY <2>1, <2>2, <2>3, <3>3 DEF Abs
    <3>4. CASE d < 0 /\ q < 0
      BY <2>1, <2>2, <2>3, <3>4 DEF Abs
    <3> QED
      BY <2>1, <3>1, <3>2, <3>3, <3>4
  <2> QED
    BY <2>4 DEF d
<1>3. ASSUME NEW m \in Int, NEW n \in Int PROVE Abs(m + n) <= Abs(m) + Abs(n)
  BY DEF Abs
<1>4. held * x - short * y \in Int /\ (x - y) * q \in Int
  OBVIOUS
<1> QED
  BY <1>1, <1>2, <1>3, <1>4

\* Less than a lot is worth no more than a lot.
LEMMA LotWorth ==
  ASSUME NEW n \in Int, NEW lot \in Nat \ {0}, -lot < n, n < lot, NEW px \in Nat
  PROVE  n * px <= lot * px - px /\ -(n * px) <= lot * px - px
<1>1. (lot - 1 - n) * px >= 0 /\ (lot - 1 + n) * px >= 0
  OBVIOUS
<1>2. /\ (lot - 1 - n) * px = lot * px - px - n * px
      /\ (lot - 1 + n) * px = lot * px - px + n * px
      /\ lot * px \in Int /\ n * px \in Int
  OBVIOUS
<1> QED
  BY <1>1, <1>2

\* A short that is less than a lot away from the value of the spot leg.
LEMMA Aligned ==
  ASSUME NEW held \in Nat, NEW short \in Int, NEW x \in Nat \ {0}, NEW y \in Nat \ {0},
         NEW perp \in Int, NEW lot \in Nat \ {0},
         NEW q, q = (held * x) \div y - short, q - perp < lot, perp - q < lot
  PROVE  Abs(held * x - (short + perp) * y) <= lot * y
<1> DEFINE v == held * x
           t == v \div y
           r == t - short - perp
<1>1. v \in Nat
  OBVIOUS
<1> HIDE DEF v
<1>2. t \in Nat /\ v = y * t + (v % y) /\ v % y \in 0 .. (y - 1)
  BY <1>1
<1> HIDE DEF t
<1>3. r \in Int /\ -lot < r /\ r < lot /\ short + perp = t - r
  <2>1. q = t - short
    BY DEF v, t
  <2> QED
    BY <1>2, <2>1
<1> HIDE DEF r
<1>4. (t - r) * y = y * t - r * y /\ r * y \in Int /\ y * t \in Int
  BY <1>2, <1>3
<1>5. r * y <= lot * y - y /\ -(r * y) <= lot * y - y
  BY <1>3, LotWorth
<1>6. v - (short + perp) * y = (v % y) + r * y
  <2> DEFINE w == (short + perp) * y
             u == y * t
             z == r * y
             e == v % y
  <2>1. w = u - z
    BY <1>3, <1>4
  <2>2. u \in Int /\ z \in Int /\ e \in Int /\ v = u + e
    BY <1>2, <1>4
  <2> HIDE DEF w, u, z, e
  <2>3. v - w = e + z
    BY <2>1, <2>2
  <2> QED
    BY <2>3 DEF w, z, e
<1>7. lot * y \in Int
  OBVIOUS
<1>8. Abs(v - (short + perp) * y) <= lot * y
  BY <1>2, <1>4, <1>5, <1>6, <1>7 DEF Abs
<1> QED
  BY <1>8 DEF v

\* What closing leaves of two legs, each less than a lot.
LEMMA Remainders ==
  ASSUME NEW m \in Nat, NEW n \in Nat, NEW lot \in Nat \ {0}, m < lot, n < lot,
         NEW x \in Nat, NEW y \in Nat, NEW worth \in Nat, lot * x <= worth, lot * y <= worth
  PROVE  Abs(m * x - n * y) <= worth
<1>1. m * x <= lot * x - x /\ n * y <= lot * y - y
  BY LotWorth
<1>2. m * x \in Nat /\ n * y \in Nat /\ lot * x \in Int /\ lot * y \in Int
  OBVIOUS
<1> QED
  BY <1>1, <1>2 DEF Abs

\* A plan that was filled as it was sent leaves the hedge within the allowance.
LEMMA PlanKeepsHedge ==
  ASSUME NestedLots,
         NEW p \in Position, p.spot >= 0, p.perp >= 0, p.spot > 0 \/ p.perp = 0,
         NEW money \in Int, NEW s \in Snapshot, NEW spot \in Int, NEW perp \in Int,
         Traded(PlanFor(p, money, s).spot, spot, SpotLot),
         Traded(PlanFor(p, money, s).perp, perp, PerpLot)
  PROVE  Abs(NetDelta(p.spot + spot, p.perp + perp, s))
           <= Allowed(p.spot, spot, s, PlanFor(p, money, s).reason)
<1> DEFINE held == p.spot
           short == p.perp
           x == s.spotPx
           y == s.perpPx
           target == TargetNotional(Equity(p, money, x, y))
           pl == PlanFor(p, money, s)
           Bounded == Abs((held + spot) * x - (short + perp) * y)
                        <= Allowed(held, spot, s, pl.reason)
<1> SUFFICES Bounded
  BY DEF NetDelta
<1>1. held \in Nat /\ short \in Nat /\ x \in Nat \ {0} /\ y \in Nat \ {0}
  BY DEF Position, Snapshot
<1>2. pl \in Plan /\ pl.spot >= -held /\ pl.spot \in Int /\ pl.perp \in Int
  BY PlanBounds DEF Plan
<1>3. Traded(pl.spot, spot, SpotLot) /\ Traded(pl.perp, perp, PerpLot)
  OBVIOUS
<1>4. ASSUME NEW q \in Int, Traded(q, spot, SpotLot)
       PROVE  /\ q >= 0 => 0 <= spot /\ spot <= q /\ q - spot < PerpLot
              /\ q < 0 => q <= spot /\ spot <= 0 /\ spot - q < PerpLot
  BY <1>4, LegTraded
<1>5. ASSUME NEW q \in Int, Traded(q, perp, PerpLot)
       PROVE  /\ q >= 0 => 0 <= perp /\ perp <= q /\ q - perp < PerpLot
              /\ q < 0 => q <= perp /\ perp <= 0 /\ perp - q < PerpLot
  BY <1>5, LegTraded
<1>6. held + spot >= 0
  <2> HIDE DEF pl, held
  <2>1. /\ pl.spot >= 0 => 0 <= spot
        /\ pl.spot < 0 => pl.spot <= spot
    BY <1>2, <1>3, <1>4
  <2> QED
    BY <1>1, <1>2, <2>1
<1>7. PICK band \in Nat, basis \in Nat, lot \in Nat :
        /\ Allowed(held, spot, s, pl.reason)
             = band + basis + (IF pl.reason \in {"close", "rebalance"} THEN lot ELSE 0)
        /\ (RebalanceBandPct * held * x) \div 100 <= band
        /\ basis = Abs(x - y) * Abs(spot)
        /\ PerpLot * x <= lot /\ PerpLot * y <= lot
  <2>1. held \in Nat /\ held + spot >= 0
    BY <1>1, <1>6
  <2> HIDE DEF held
  <2>2. ASSUME NEW r
        PROVE  \E band \in Nat, basis \in Nat, lot \in Nat :
                 /\ Allowed(held, spot, s, r)
                      = band + basis + (IF r \in {"close", "rebalance"} THEN lot ELSE 0)
                 /\ (RebalanceBandPct * held * s.spotPx) \div 100 <= band
                 /\ basis = Abs(s.spotPx - s.perpPx) * Abs(spot)
                 /\ PerpLot * s.spotPx <= lot /\ PerpLot * s.perpPx <= lot
    BY <2>1, AllowedParts
  <2> QED
    BY <2>2
<1>8. PerpLot \in Nat \ {0} /\ RebalanceBandPct \in Nat
  BY RunnerAssumption, PositionAssumption
<1>9. ~InMarket(p) <=> held = 0 /\ short = 0
  BY <1>1 DEF InMarket
<1>10. ASSUME InMarket(p), ~NeedsHedge(p, s)
      PROVE  Abs(held * x - short * y) <= band
  <2>1. held > 0
    BY <1>1, <1>9, <1>10
  <2> DEFINE d == Abs(held * x - short * y)
             w == RebalanceBandPct * held * x
  <2>2. d \in Nat /\ w \in Nat
    BY <1>1, <1>8, AbsNat
  <2>3. d * 100 <= w
    <3>1. ~(d * 100 > w)
      BY <1>10, <2>1 DEF NeedsHedge, NetDelta
    <3> HIDE DEF d, w
    <3> QED
      BY <2>2, <3>1
  <2> HIDE DEF d, w
  <2>4. d <= w \div 100
    BY <2>2, <2>3
  <2>5. w \div 100 <= band /\ w \div 100 \in Int
    BY <1>7, <2>2 DEF w
  <2>6. d <= band
    BY <2>2, <2>4, <2>5
  <2> QED
    BY <2>6 DEF d
<1>11. ASSUME spot = perp, Abs(held * x - short * y) <= band
      PROVE  Bounded
  <2>1. Abs((held + spot) * x - (short + perp) * y)
          <= Abs(held * x - short * y) + Abs(x - y) * Abs(spot)
    <3>1. Abs((held + spot) * x - (short + spot) * y)
            <= Abs(held * x - short * y) + Abs(x - y) * Abs(spot)
      <4>1. held \in Int /\ short \in Int /\ x \in Int /\ y \in Int
        BY <1>1
      <4> HIDE DEF held, short, x, y
      <4> QED
        BY <4>1, EqualLegs
    <3> QED
      BY <1>11, <3>1
  <2>2. Allowed(held, spot, s, pl.reason) >= band + basis
    BY <1>7
  <2>3. /\ Abs((held + spot) * x - (short + perp) * y) \in Int
        /\ Abs(held * x - short * y) \in Int
        /\ Allowed(held, spot, s, pl.reason) \in Int
    <3>1. (held + spot) * x - (short + perp) * y \in Int /\ held * x - short * y \in Int
      BY <1>1
    <3> QED
      BY <1>7, <3>1, AbsNat
  <2> QED
    BY <1>7, <1>11, <2>1, <2>2, <2>3
<1>12. CASE pl.spot = pl.perp /\ (~InMarket(p) \/ ~NeedsHedge(p, s))
  <2>1. spot = perp
    BY <1>2, <1>12, LegTraded
  <2>2. CASE InMarket(p)
    BY <1>10, <1>11, <1>12, <2>1, <2>2
  <2>3. CASE ~InMarket(p)
    <3>1. Abs(held * x - short * y) = 0
      <4>1. held * x = 0 /\ short * y = 0
        BY <1>1, <1>9, <2>3
      <4> QED
        BY <4>1 DEF Abs
    <3>2. Abs(held * x - short * y) <= band
      BY <1>7, <3>1
    <3> QED
      BY <1>11, <2>1, <3>2
  <2> QED
    BY <2>2, <2>3
<1>13. CASE pl = RebalancePlan(p, s)
  <2>1. /\ pl.spot = 0 /\ pl.perp = (held * x) \div y - short
        /\ pl.reason = "rebalance"
    BY <1>13 DEF RebalancePlan
  <2>2. spot = 0
    <3>1. Traded(0, spot, SpotLot)
      BY <1>3, <2>1
    <3> QED
      BY <3>1, <1>4
  <2>3. PICK q \in Int : q = (held * x) \div y - short /\ q = pl.perp
    BY <1>2, <2>1
  <2>4. Abs(held * x - (short + perp) * y) <= PerpLot * y
    <3>1. Traded(q, perp, PerpLot)
      BY <1>3, <2>3
    <3>2. (q >= 0 => perp <= q /\ q - perp < PerpLot) /\ (q < 0 => q <= perp /\ perp - q < PerpLot)
      BY <3>1, <1>5
    <3>3. q - perp < PerpLot /\ perp - q < PerpLot
      BY <1>8, <3>2
    <3>4. q = (held * x) \div y - short
      BY <2>3
    <3>5. /\ held \in Nat /\ short \in Int /\ x \in Nat \ {0} /\ y \in Nat \ {0}
          /\ PerpLot \in Nat \ {0}
      BY <1>1, <1>8
    <3> HIDE DEF held, short, x, y
    <3> QED
      BY <3>3, <3>4, <3>5, Aligned
  <2>5. Allowed(held, spot, s, pl.reason) = band + basis + lot
    BY <1>7, <2>1
  <2>6. Abs(held * x - (short + perp) * y) \in Int /\ PerpLot * y \in Int
    <3>1. held * x - (short + perp) * y \in Int /\ PerpLot * y \in Int
      BY <1>1, <1>8
    <3> QED
      BY <3>1, AbsNat
  <2>7. Abs(held * x - (short + perp) * y) <= band + basis + lot
    BY <1>7, <2>4, <2>6
  <2>8. (held + spot) * x = held * x
    BY <1>1, <2>2
  <2> QED
    BY <2>5, <2>7, <2>8
<1>14. CASE pl = ClosePlan(p)
  <2>1. pl.spot = -held /\ pl.perp = -short /\ pl.reason = "close"
    BY <1>14 DEF ClosePlan
  <2>2. 0 <= held + spot /\ held + spot < PerpLot
    <3>1. Traded(-held, spot, SpotLot) /\ -held \in Int
      BY <1>1, <1>3, <2>1
    <3>2. /\ -held >= 0 => 0 <= spot /\ spot <= -held
          /\ -held < 0 => -held <= spot /\ spot - (-held) < PerpLot
      BY <3>1, <1>4
    <3> HIDE DEF held
    <3> QED
      BY <1>1, <1>8, <3>2
  <2>3. 0 <= short + perp /\ short + perp < PerpLot
    <3>1. Traded(-short, perp, PerpLot) /\ -short \in Int
      BY <1>1, <1>3, <2>1
    <3>2. /\ -short >= 0 => 0 <= perp /\ perp <= -short
          /\ -short < 0 => -short <= perp /\ perp - (-short) < PerpLot
      BY <3>1, <1>5
    <3> HIDE DEF short
    <3> QED
      BY <1>1, <1>8, <3>2
  <2>4. Abs((held + spot) * x - (short + perp) * y) <= lot
    <3> DEFINE m == held + spot
               n == short + perp
    <3>1. m \in Nat /\ n \in Nat /\ m < PerpLot /\ n < PerpLot
      BY <1>1, <2>2, <2>3
    <3>2. x \in Nat /\ y \in Nat /\ PerpLot * x <= lot /\ PerpLot * y <= lot
      BY <1>1, <1>7
    <3> HIDE DEF m, n, x, y
    <3>3. Abs(m * x - n * y) <= lot
      BY <1>8, <3>1, <3>2, Remainders
    <3> QED
      BY <3>3 DEF m, n
  <2>5. Allowed(held, spot, s, pl.reason) = band + basis + lot
    BY <1>7, <2>1
  <2>6. Abs((held + spot) * x - (short + perp) * y) \in Int
    <3>1. (held + spot) * x - (short + perp) * y \in Int
      BY <1>1
    <3> QED
      BY <3>1, AbsNat
  <2> QED
    BY <1>7, <2>4, <2>5, <2>6
<1>15. \/ pl.spot = pl.perp /\ (~InMarket(p) \/ ~NeedsHedge(p, s))
       \/ pl = RebalancePlan(p, s)
       \/ pl = ClosePlan(p)
  <2>1. Noop.spot = Noop.perp
    BY DEF Noop
  <2>2. OpenPlan(target, s).spot = OpenPlan(target, s).perp
    BY <2>1 DEF OpenPlan
  <2>3. ResizePlan(p, target, s).spot = ResizePlan(p, target, s).perp
    BY DEF ResizePlan
  <2>4. \/ pl = Noop /\ (~InMarket(p) \/ ~NeedsHedge(p, s))
        \/ pl = ClosePlan(p)
        \/ pl = OpenPlan(target, s) /\ ~InMarket(p)
        \/ pl = RebalancePlan(p, s)
        \/ pl = ResizePlan(p, target, s) /\ ~NeedsHedge(p, s)
    BY Zenon DEF PlanFor, target, pl
  <2> HIDE DEF pl, target
  <2> QED
    BY <2>1, <2>2, <2>3, <2>4
<1> QED
  BY <1>12, <1>13, <1>14, <1>15

-----------------------------------------------------------------------------
\* The plan of a live cycle was made of what the account held before its orders.
FromPlan ==
  \E p \in Position, money \in Int :
    /\ p.spot >= 0 /\ p.perp >= 0
    /\ plan = PlanFor(p, money, snap)
    /\ account.spot = p.spot + report.spot
    /\ account.perp = p.perp + report.perp

\* And each leg that is behind it was filled in the direction it was sent.
HedgeInv ==
  ~dry /\ ~strayed =>
    /\ pc \in {"spot", "perp", "apply", "accrue", "save"} => FromPlan
    /\ pc \in {"spot", "perp"} => report.perp = 0
    /\ pc = "spot" => report.spot = 0
    /\ pc \in {"perp", "apply", "accrue", "save"} => Sent(SpotOrder, report.spot)
    /\ pc \in {"apply", "accrue", "save"} => Sent(PerpOrder, report.perp)

\* A fill is in the direction of its order.
LEMMA FillSent ==
  ASSUME NEW order \in Int, order # 0, NEW leg, NEW lot,
         NEW takes \in Nat, NEW q \in FillsOf(leg, takes, lot)
  PROVE  Signed(order, q) \in Int /\ Sent(order, Signed(order, q))
<1>1. q \in Nat /\ 1 <= q
  BY FillBounds
<1> QED
  BY <1>1 DEF Signed, Sent

\* An order for nothing is no order.
LEMMA NoOrder == RoundQty(0) = 0
<1>1. Abs(0) = 0
  BY DEF Abs
<1>2. Truncated(0, SpotLot) = 0
  BY TruncatedBounds, RunnerAssumption
<1> QED
  BY <1>1, <1>2 DEF RoundQty

\* The plan is made of the account, which is what memory says (TakeSnapshot).
LEMMA PlanningKeeps ==
  ASSUME TypeOK, InSync, TakeSnapshot
  PROVE  HedgeInv'
<1> SUFFICES ASSUME ~dry', ~strayed' PROVE HedgeInv'
  BY DEF HedgeInv
<1>1. /\ pc = "snapshot" /\ ~dry /\ ~strayed
      /\ snap' \in Snapshots /\ plan' = PlanFor(pos, cash, snap')
      /\ report' = [NoReport EXCEPT !.spotPx = snap'.spotPx, !.perpPx = snap'.perpPx]
      /\ pc' = IF plan'.reason = "noop" THEN "accrue" ELSE "spot"
      /\ account' = account
  BY DEF TakeSnapshot
<1>2. report'.spot = 0 /\ report'.perp = 0
  BY <1>1 DEF NoReport
<1>3. account.spot = pos.spot /\ account.perp = pos.perp /\ pos.spot >= 0 /\ pos.perp >= 0
  BY <1>1, Numbers DEF InSync, AccountSound, MemorySound, Untraded
<1>4. FromPlan'
  <2>1. pos \in Position /\ cash \in Int
    BY DEF TypeOK
  <2>2. account'.spot = pos.spot + report'.spot /\ account'.perp = pos.perp + report'.perp
    BY <1>1, <1>2, <1>3, <2>1 DEF Position
  <2>3. \E p \in Position, money \in Int :
          /\ p.spot >= 0 /\ p.perp >= 0
          /\ plan' = PlanFor(p, money, snap')
          /\ account'.spot = p.spot + report'.spot
          /\ account'.perp = p.perp + report'.perp
    BY <1>1, <1>3, <2>1, <2>2, Zenon
  <2> QED
    BY <2>3 DEF FromPlan, PlanFor, NeedsHedge, NeedsResize, Hold, NetDelta, OpenPlan,
                RebalancePlan, ResizePlan
<1>5. plan'.reason = "noop" => plan'.spot = 0 /\ plan'.perp = 0
  <2> DEFINE t == TargetNotional(Equity(pos, cash, snap'.spotPx, snap'.perpPx))
  <2>1. plan' \in {Noop, ClosePlan(pos), OpenPlan(t, snap'), RebalancePlan(pos, snap'),
                   ResizePlan(pos, t, snap')}
    BY <1>1, Zenon DEF PlanFor, t
  <2> HIDE DEF t
  <2> QED
    BY <2>1 DEF Noop, ClosePlan, OpenPlan, RebalancePlan, ResizePlan
<1>6. plan'.reason = "noop" => Sent(RoundQty(plan'.spot), 0) /\ Sent(RoundQty(plan'.perp), 0)
  BY <1>5, NoOrder DEF Sent
<1>7. pc' = "accrue" => Sent(SpotOrder, report.spot)' /\ Sent(PerpOrder, report.perp)'
  BY <1>1, <1>2, <1>6 DEF SpotOrder, PerpOrder, Sent
<1> QED
  BY <1>1, <1>2, <1>4, <1>7 DEF HedgeInv

\* What a fill adds to the account it adds to the report (SpotFills, PerpFills).
LEMMA TradingKeeps ==
  ASSUME TypeOK, InSync, HedgeInv, SpotFills \/ SkipSpot \/ PerpFills \/ SkipPerp
  PROVE  HedgeInv'
<1> SUFFICES ASSUME ~dry', ~strayed' PROVE HedgeInv'
  BY DEF HedgeInv
<1>1. UNCHANGED <<dry, snap, plan, strayed>> /\ ~dry /\ ~strayed
  <2>1. UNCHANGED <<dry, snap, plan, strayed>>
    BY DEF SpotFills, SkipSpot, PerpFills, SkipPerp, memory
  <2> QED
    BY <2>1, Zenon
<1>2. pc \in {"spot", "perp"} /\ FromPlan /\ report.perp = 0
  BY <1>1 DEF HedgeInv, SpotFills, SkipSpot, PerpFills, SkipPerp
<1>3. /\ account \in [spot : Int, perp : Nat] /\ report \in Report
      /\ SpotOrder \in Int /\ PerpOrder \in Int
      /\ UNCHANGED <<SpotOrder, PerpOrder>>
  BY <1>1, OrdersInt DEF TypeOK, SpotOrder, PerpOrder
<1>4. ASSUME NEW ds \in Int, NEW dp \in Int,
             account'.spot = account.spot + ds, account'.perp = account.perp + dp,
             report'.spot = report.spot + ds, report'.perp = report.perp + dp
      PROVE  FromPlan'
  <2>1. PICK p \in Position, money \in Int :
          /\ p.spot >= 0 /\ p.perp >= 0 /\ plan = PlanFor(p, money, snap)
          /\ account.spot = p.spot + report.spot /\ account.perp = p.perp + report.perp
    BY <1>2 DEF FromPlan
  <2>2. account'.spot = p.spot + report'.spot /\ account'.perp = p.perp + report'.perp
    BY <1>3, <1>4, <2>1 DEF Position, Report
  <2> QED
    BY <1>1, <2>1, <2>2 DEF FromPlan
<1>5. CASE SpotFills
  <2>1. PICK q \in FillsOf("spot", SpotTakes(SpotOrder), SpotLot) :
          /\ account' = [account EXCEPT !.spot = @ + Signed(SpotOrder, q)]
          /\ report' = [report EXCEPT !.spot = Signed(SpotOrder, q),
                                      !.fee = @ + Fee(q, snap.spotPx)]
    BY <1>5 DEF SpotFills
  <2>2. pc = "spot" /\ SpotOrder # 0 /\ pc' = "perp" /\ report.spot = 0
    BY <1>1, <1>5 DEF SpotFills, HedgeInv
  <2>3. Signed(SpotOrder, q) \in Int /\ Sent(SpotOrder, Signed(SpotOrder, q))
    BY <1>3, <2>2, TakesBounds, FillSent
  <2>4. /\ account'.spot = account.spot + Signed(SpotOrder, q)
        /\ account'.perp = account.perp + 0
        /\ report'.spot = report.spot + Signed(SpotOrder, q)
        /\ report'.perp = report.perp + 0
    BY <1>2, <1>3, <2>1, <2>2, <2>3 DEF Report
  <2>5. FromPlan'
    BY <1>4, <2>3, <2>4
  <2>6. report'.spot = Signed(SpotOrder, q) /\ report'.perp = 0
    BY <1>2, <1>3, <2>1 DEF Report
  <2> QED
    BY <1>3, <2>2, <2>3, <2>5, <2>6 DEF HedgeInv, Sent
<1>6. CASE SkipSpot
  <2>1. pc = "spot" /\ SpotOrder = 0 /\ pc' = "perp" /\ report.spot = 0 /\ UNCHANGED <<account, report>>
    BY <1>1, <1>6 DEF SkipSpot, HedgeInv, memory
  <2>2. FromPlan'
    BY <1>1, <1>2, <2>1 DEF FromPlan
  <2> QED
    BY <1>2, <1>3, <2>1, <2>2 DEF HedgeInv, Sent
<1>7. CASE PerpFills
  <2>1. PICK q \in FillsOf("perp", PerpTakes(PerpOrder), PerpLot) :
          /\ account' = [account EXCEPT !.perp = @ + Signed(PerpOrder, q)]
          /\ report' = [report EXCEPT !.perp = Signed(PerpOrder, q),
                                      !.fee = @ + Fee(q, snap.perpPx)]
    BY <1>7 DEF PerpFills
  <2>2. pc = "perp" /\ PerpOrder # 0 /\ pc' = "apply" /\ Sent(SpotOrder, report.spot)
    BY <1>1, <1>7 DEF PerpFills, HedgeInv
  <2>3. Signed(PerpOrder, q) \in Int /\ Sent(PerpOrder, Signed(PerpOrder, q))
    BY <1>3, <2>2, TakesBounds, FillSent
  <2>4. /\ account'.spot = account.spot + 0
        /\ account'.perp = account.perp + Signed(PerpOrder, q)
        /\ report'.spot = report.spot + 0
        /\ report'.perp = report.perp + Signed(PerpOrder, q)
    BY <1>2, <1>3, <2>1, <2>2, <2>3 DEF Report
  <2>5. FromPlan'
    BY <1>4, <2>3, <2>4
  <2>6. report'.perp = Signed(PerpOrder, q) /\ report'.spot = report.spot
    BY <1>3, <2>1 DEF Report
  <2> QED
    BY <1>3, <2>2, <2>3, <2>5, <2>6 DEF HedgeInv, Sent
<1>8. CASE SkipPerp
  <2>1. /\ pc = "perp" /\ PerpOrder = 0 /\ pc' = "apply" /\ UNCHANGED <<account, report>>
        /\ Sent(SpotOrder, report.spot)
    BY <1>1, <1>8 DEF SkipPerp, HedgeInv, memory
  <2>2. FromPlan'
    BY <1>1, <1>2, <2>1 DEF FromPlan
  <2> QED
    BY <1>2, <1>3, <2>1, <2>2 DEF HedgeInv, Sent
<1> QED
  BY <1>5, <1>6, <1>7, <1>8

\* The other steps leave the plan, the account and the report alone, or end the
\* cycle, or are those of a dry one.
LEMMA RestKeeps ==
  ASSUME InSync, HedgeInv, Next,
         ~TakeSnapshot, ~SpotFills, ~SkipSpot, ~PerpFills, ~SkipPerp
  PROVE  HedgeInv'
<1> SUFFICES ASSUME ~dry', ~strayed' PROVE HedgeInv'
  BY DEF HedgeInv
<1>1. CASE pc' \notin {"spot", "perp", "apply", "accrue", "save"}
  BY <1>1 DEF HedgeInv
<1>2. CASE PaperFills
  BY <1>2 DEF PaperFills, InSync
<1>3. CASE BookFill \/ Accrue
  <2>1. /\ UNCHANGED <<account, report, plan, snap, dry, strayed>>
        /\ pc \in {"apply", "accrue"} /\ pc' \in {"accrue", "save"}
    BY <1>3 DEF BookFill, Accrue
  <2>2. FromPlan /\ Sent(SpotOrder, report.spot) /\ Sent(PerpOrder, report.perp)
    BY <2>1 DEF HedgeInv
  <2>3. FromPlan' /\ Sent(SpotOrder, report.spot)' /\ Sent(PerpOrder, report.perp)'
    BY <2>1, <2>2 DEF FromPlan, Sent, SpotOrder, PerpOrder
  <2> QED
    BY <2>1, <2>3 DEF HedgeInv
<1>4. CASE pc' \in {"spot", "perp", "apply", "accrue", "save"} /\ ~PaperFills /\ ~BookFill /\ ~Accrue
  <2>1. CASE (\E asDry \in DryRuns : Begin(asDry)) \/ RecordBaseline \/ Save \/ Over
    BY <1>4, <2>1 DEF Begin, RecordBaseline, Save, Over, vars
  <2>2. CASE \/ ReadFails \/ SpotRejected \/ SpotAnswerLost \/ Unwound \/ UnwindRejected
             \/ UnwindAnswerLost \/ Write \/ Kill
    <3>1. pc' = "idle"
      BY <2>2, Zenon DEF ReadFails, SpotRejected, SpotAnswerLost, Unwound, UnwindRejected,
                         UnwindAnswerLost, Write, Kill, Raises, Ends
    <3> QED
      BY <1>4, <3>1
  <2>3. CASE PerpRejected \/ PerpAnswerLost
    <3>1. pc' \in {"idle", "unwind"}
      BY <2>3 DEF PerpRejected, PerpAnswerLost, PerpRaises, Raises, Ends
    <3> QED
      BY <1>4, <3>1
  <2> QED
    BY <1>4, <2>1, <2>2, <2>3, Zenon DEF Next, Cycle
<1> QED
  BY <1>1, <1>2, <1>3, <1>4

\* If every amount the perpetual accepts is one the spot market accepts, a live
\* cycle that traded what it planned leaves the account's hedge within the band,
\* whatever market it traded in, whatever was refused, filled in part or unwound in
\* the cycles before and wherever they were killed (plan, round_qty, execute).
THEOREM HedgeStays == NestedLots => (Spec => []HedgeKept)
<1> SUFFICES ASSUME NestedLots PROVE Spec => []HedgeKept
  OBVIOUS
<1>1. Init => HedgeInv
  BY DEF Init, HedgeInv
<1>2. TypeOK /\ InSync /\ HedgeInv /\ [Next]_vars => HedgeInv'
  <2> SUFFICES ASSUME TypeOK, InSync, HedgeInv, [Next]_vars PROVE HedgeInv'
    OBVIOUS
  <2>1. CASE UNCHANGED vars
    BY <2>1 DEF vars, memory, HedgeInv, FromPlan, Sent, SpotOrder, PerpOrder
  <2>2. CASE Next
    BY <2>2, PlanningKeeps, TradingKeeps, RestKeeps
  <2> QED
    BY <2>1, <2>2
<1>3. TypeOK /\ InSync /\ HedgeInv => HedgeKept
  <2> SUFFICES ASSUME TypeOK, HedgeInv, pc = "save", ~dry, ~strayed, Complete,
                      Before > 0 \/ account.perp - report.perp = 0
               PROVE  Abs(NetDelta(account.spot, account.perp, snap)) <= DeltaAllowed
    BY DEF HedgeKept
  <2>1. FromPlan /\ Sent(SpotOrder, report.spot) /\ Sent(PerpOrder, report.perp)
    BY DEF HedgeInv
  <2>2. PICK p \in Position, money \in Int :
          /\ p.spot >= 0 /\ p.perp >= 0 /\ plan = PlanFor(p, money, snap)
          /\ account.spot = p.spot + report.spot /\ account.perp = p.perp + report.perp
    BY <2>1 DEF FromPlan
  <2>3. report.spot \in Int /\ report.perp \in Int /\ snap \in Snapshot
    BY Numbers DEF TypeOK
  <2>4. Before = p.spot /\ account.perp - report.perp = p.perp
    BY <2>2, <2>3 DEF Before, Position
  <2>5. /\ Traded(PlanFor(p, money, snap).spot, report.spot, SpotLot)
        /\ Traded(PlanFor(p, money, snap).perp, report.perp, PerpLot)
    BY <2>1, <2>2 DEF Complete, Traded, SpotOrder, PerpOrder
  <2>6. Abs(NetDelta(p.spot + report.spot, p.perp + report.perp, snap))
          <= Allowed(p.spot, report.spot, snap, PlanFor(p, money, snap).reason)
    BY <2>2, <2>3, <2>4, <2>5, PlanKeepsHedge
  <2>7. DeltaAllowed = Allowed(p.spot, report.spot, snap, PlanFor(p, money, snap).reason)
    BY <2>2, <2>4 DEF DeltaAllowed, Allowed
  <2> QED
    BY <2>2, <2>6, <2>7
<1> QED
  BY <1>1, <1>2, <1>3, CarryTypes, CarryInSync, PTL DEF Spec

-----------------------------------------------------------------------------
(***************************************************************************)
(* What a fill does to equity.                                             *)
(***************************************************************************)
\* The spot leg: what it costs is what it is worth.
LEMMA SpotNeutral ==
  ASSUME NEW held \in Int, NEW filled \in Int, held + filled >= 0, NEW px \in Int
  PROVE  /\ held * px \in Int /\ filled * px \in Int
         /\ AtLeastZero(held + filled) * px = held * px + filled * px
<1>1. AtLeastZero(held + filled) = held + filled
  BY DEF AtLeastZero
<1>2. (held + filled) * px = held * px + filled * px
  OBVIOUS
<1> QED
  BY <1>1, <1>2

\* The perp leg: buying back realises what the closed part has gained, and
\* selling more loses the remainder of the average entry's division.
LEMMA PerpNeutral ==
  ASSUME NEW short \in Nat, NEW filled \in Int, NEW entry \in Int, NEW px \in Int,
         NEW closed, closed = IF filled < 0 /\ short > 0 THEN Lesser(-filled, short) ELSE 0,
         NEW left, left = AtLeastZero(short + filled),
         NEW after, after = AverageEntry(short, entry, filled, px)
  PROVE  /\ short * (entry - px) \in Int /\ closed * (entry - px) \in Int
         /\ left * (after - px) \in Int /\ left \in Nat
         /\ 0 <= short * (entry - px) - closed * (entry - px) - left * (after - px)
         /\ short * (entry - px) - closed * (entry - px) - left * (after - px) <= left
<1> DEFINE loss == short * (entry - px) - closed * (entry - px) - left * (after - px)
<1>1. CASE filled <= 0
  <2>1. closed \in Nat /\ left \in Nat /\ left = short - closed
    BY <1>1 DEF Lesser, AtLeastZero
  <2>2. left > 0 => after = entry
    BY <1>1 DEF AverageEntry, AtLeastZero
  <2>3. after \in Int
    BY <1>1 DEF AverageEntry
  <2>4. left * (after - px) = left * (entry - px)
    <3>1. CASE left = 0
      BY <2>3, <3>1
    <3>2. CASE left > 0
      BY <2>2, <3>2
    <3> QED
      BY <2>1, <3>1, <3>2
  <2> DEFINE gain == entry - px
  <2>5. gain \in Int
    OBVIOUS
  <2> HIDE DEF gain
  <2>6. (short - closed) * gain = short * gain - closed * gain
        /\ short * gain \in Int /\ closed * gain \in Int
    BY <2>1, <2>5
  <2>7. left * gain = short * gain - closed * gain
    BY <2>1, <2>6
  <2>8. left * (after - px) \in Int /\ left \in Nat /\ short * (entry - px) \in Int
        /\ closed * (entry - px) \in Int
    BY <2>1, <2>3, <2>6 DEF gain
  <2>9. loss = 0
    BY <2>4, <2>6, <2>7 DEF gain
  <2> QED
    BY <2>1, <2>8, <2>9
<1>2. CASE filled > 0
  <2> DEFINE v == short * entry + filled * px
             n == short + filled
             d == v \div n
  <2>1. /\ closed = 0 /\ left = n /\ after = d
        /\ n \in Nat \ {0} /\ v \in Int
    BY <1>2 DEF AtLeastZero, AverageEntry
  <2>2. v = short * entry + filled * px /\ n = short + filled
    OBVIOUS
  <2> HIDE DEF v, n
  <2>3. d \in Int /\ v = n * d + (v % n) /\ v % n \in 0 .. (n - 1)
    BY <2>1
  <2> HIDE DEF d
  <2>4. /\ short * (entry - px) = short * entry - short * px
        /\ n * (d - px) = n * d - n * px
        /\ n * px = short * px + filled * px
        /\ short * entry \in Int /\ short * px \in Int /\ filled * px \in Int
        /\ n * d \in Int /\ n * px \in Int
    BY <2>1, <2>2, <2>3
  <2>5. short * (entry - px) - n * (d - px) = v % n
    BY <2>2, <2>3, <2>4
  <2>6. closed * (entry - px) = 0
    BY <2>1
  <2>7. loss = v % n
    BY <2>1, <2>4, <2>5, <2>6
  <2>8. short * (entry - px) \in Int /\ left * (after - px) \in Int /\ left \in Nat
    BY <2>1, <2>4
  <2> QED
    BY <2>1, <2>3, <2>6, <2>7, <2>8
<1> QED
  BY <1>1, <1>2

\* Equity before and after a fill that sells no more than the spot leg.
LEMMA EquityMoves ==
  ASSUME NEW p \in Position, p.perp >= 0, NEW r \in Report, p.spot + r.spot >= 0,
         NEW money \in Int
  PROVE  LET q    == ApplyFill(p, r)
             loss == Equity(p, money, r.spotPx, r.perpPx) - r.fee
                       - Equity(q, money + CashFlow(p, r), r.spotPx, r.perpPx)
         IN  0 <= loss /\ loss <= q.perp
<1> DEFINE q == ApplyFill(p, r)
           loss == Equity(p, money, r.spotPx, r.perpPx) - r.fee
                     - Equity(q, money + CashFlow(p, r), r.spotPx, r.perpPx)
           closed == IF r.perp < 0 /\ p.perp > 0 THEN Lesser(-r.perp, p.perp) ELSE 0
           a == p.perp * (p.perpEntry - r.perpPx)
           b == closed * (p.perpEntry - r.perpPx)
           c == q.perp * (q.perpEntry - r.perpPx)
           x == p.spot * r.spotPx
           y == r.spot * r.spotPx
           z == q.spot * r.spotPx
<1>1. /\ p.spot \in Int /\ p.perp \in Nat /\ p.perpEntry \in Int /\ p.accrued \in Int
      /\ r.spot \in Int /\ r.spotPx \in Int /\ r.perp \in Int /\ r.perpPx \in Int /\ r.fee \in Int
  BY DEF Position, Report
<1>2. /\ q.spot = AtLeastZero(p.spot + r.spot) /\ q.perp = AtLeastZero(p.perp + r.perp)
      /\ q.perpEntry = AverageEntry(p.perp, p.perpEntry, r.perp, r.perpPx)
      /\ q.accrued = p.accrued
  BY DEF ApplyFill
<1>3. x \in Int /\ y \in Int /\ z = x + y
  BY <1>1, <1>2, SpotNeutral
<1>4. a \in Int /\ b \in Int /\ c \in Int /\ q.perp \in Nat /\ 0 <= a - b - c /\ a - b - c <= q.perp
  <2>1. PICK k, left, after, short, entry, px, filled :
          /\ k = closed /\ left = q.perp /\ after = q.perpEntry
          /\ short = p.perp /\ entry = p.perpEntry /\ px = r.perpPx /\ filled = r.perp
    OBVIOUS
  <2>2. /\ short \in Nat /\ filled \in Int /\ entry \in Int /\ px \in Int
        /\ k = IF filled < 0 /\ short > 0 THEN Lesser(-filled, short) ELSE 0
        /\ left = AtLeastZero(short + filled)
        /\ after = AverageEntry(short, entry, filled, px)
    BY <1>1, <1>2, <2>1
  <2>3. /\ short * (entry - px) \in Int /\ k * (entry - px) \in Int
        /\ left * (after - px) \in Int /\ left \in Nat
        /\ 0 <= short * (entry - px) - k * (entry - px) - left * (after - px)
        /\ short * (entry - px) - k * (entry - px) - left * (after - px) <= left
    BY <2>2, PerpNeutral
  <2> QED
    BY <2>1, <2>3
<1>5. Equity(p, money, r.spotPx, r.perpPx) = money + x + a + p.accrued
  BY DEF Equity
<1>6. CashFlow(p, r) = b - y - r.fee
  BY DEF CashFlow
<1>7. Equity(q, money + CashFlow(p, r), r.spotPx, r.perpPx)
        = money + CashFlow(p, r) + z + c + p.accrued
  BY <1>2 DEF Equity
<1> HIDE DEF a, b, c, x, y, z, q
<1>8. loss = a - b - c
  BY <1>1, <1>3, <1>4, <1>5, <1>6, <1>7
<1> QED
  BY <1>4, <1>8 DEF q

\* No leg of a position is ever below zero, in memory or in the file, and no
\* order, live or on paper, sells more than the spot leg: strayed or not.
NothingOversold ==
  /\ file.position.spot >= 0 /\ file.position.perp >= 0
  /\ pos.spot >= 0 /\ pos.perp >= 0
  /\ pc \in {"spot", "paper"} => plan.spot >= -pos.spot
  /\ pc = "spot" => report.spot = 0
  /\ pc \in {"perp", "apply"} => pos.spot + report.spot >= 0

\* The end of a cycle leaves no position in memory.
LEMMA EndsUnsold ==
  ASSUME NothingOversold, NEW how, Ends(how), file' = file \/ file'.position = pos
  PROVE  NothingOversold'
<1>1. pc' = "idle" /\ pos' = NoPosition
  BY Zenon DEF Ends
<1>2. pos'.spot = 0 /\ pos'.perp = 0
  BY <1>1 DEF NoPosition
<1>3. file'.position.spot >= 0 /\ file'.position.perp >= 0
  BY DEF NothingOversold
<1> QED
  BY <1>1, <1>2, <1>3 DEF NothingOversold

\* Each step keeps it so.
LEMMA UnsoldStep ==
  ASSUME TypeOK, NothingOversold, Next
  PROVE  NothingOversold'
<1> USE DEF NothingOversold
<1>1. ASSUME NEW asDry \in DryRuns, Begin(asDry)
      PROVE  NothingOversold'
  BY <1>1 DEF Begin
<1>2. CASE RecordBaseline
  BY <1>2 DEF RecordBaseline
<1>3. CASE TakeSnapshot
  <2>1. /\ snap' \in Snapshots /\ plan' = PlanFor(pos, cash, snap')
        /\ report' = [NoReport EXCEPT !.spotPx = snap'.spotPx, !.perpPx = snap'.perpPx]
        /\ pc' \in {"accrue", "paper", "spot"}
        /\ UNCHANGED <<file, pos>>
    BY <1>3 DEF TakeSnapshot
  <2>2. snap' \in Snapshot /\ pos \in Position /\ cash \in Int
    BY <2>1, RunnerAssumption DEF TypeOK
  <2>3. plan'.spot >= -pos.spot
    BY <2>1, <2>2, PlanBounds
  <2>4. report'.spot = 0
    BY <2>1 DEF NoReport
  <2> QED
    BY <2>1, <2>3, <2>4
<1>4. CASE SpotFills
  <2>1. PICK q \in FillsOf("spot", SpotTakes(SpotOrder), SpotLot) :
          report' = [report EXCEPT !.spot = Signed(SpotOrder, q),
                                   !.fee = @ + Fee(q, snap.spotPx)]
    BY <1>4 DEF SpotFills
  <2>2. pc = "spot" /\ pc' = "perp" /\ UNCHANGED <<file, pos>>
    BY <1>4 DEF SpotFills
  <2>3. SpotOrder \in Int /\ plan.spot \in Int
    BY OrdersInt, Numbers
  <2>4. q \in Nat /\ q <= Abs(SpotOrder)
    BY <2>3, TakesBounds, FillBounds, AbsNat
  <2>5. report'.spot = Signed(SpotOrder, q)
    BY <2>1, Numbers DEF Report
  <2>6. SpotOrder < 0 => plan.spot <= SpotOrder
    BY <2>3, RoundQtyBounds DEF SpotOrder
  <2>7. pos.spot + report'.spot >= 0
    BY <2>2, <2>3, <2>4, <2>5, <2>6, AbsNat, Numbers DEF Signed
  <2> QED
    BY <2>2, <2>7
<1>5. CASE SkipSpot
  <2>1. pc = "spot" /\ pc' = "perp" /\ UNCHANGED <<file, pos, report>>
    BY <1>5 DEF SkipSpot, memory
  <2> QED
    BY <2>1, Numbers
<1>6. CASE PerpFills
  <2>1. /\ pc = "perp" /\ pc' = "apply" /\ UNCHANGED <<file, pos>>
        /\ report'.spot = report.spot
    BY <1>6, Numbers DEF PerpFills, Report
  <2> QED
    BY <2>1
<1>7. CASE SkipPerp
  BY <1>7 DEF SkipPerp, memory
<1>8. CASE PaperFills
  <2>1. /\ pc = "paper" /\ pc' = "apply" /\ UNCHANGED <<file, pos>>
        /\ report'.spot = plan.spot
    BY <1>8 DEF PaperFills
  <2> QED
    BY <2>1, Numbers
<1>9. CASE BookFill \/ Accrue
  <2>1. /\ pc \in {"apply", "accrue"} /\ pc' \in {"accrue", "save"} /\ file' = file
        /\ pos' = ApplyFill(pos, report) \/ pos' = AccrueFunding(pos, snap)
    BY <1>9 DEF BookFill, Accrue
  <2>2. snap \in Snapshot /\ pos \in Position /\ report \in Report
    BY DEF TypeOK
  <2>3. /\ ApplyFill(pos, report).spot = AtLeastZero(pos.spot + report.spot)
        /\ ApplyFill(pos, report).perp = AtLeastZero(pos.perp + report.perp)
        /\ AccrueFunding(pos, snap).spot = pos.spot
        /\ AccrueFunding(pos, snap).perp = pos.perp
    BY <2>2, PositionTypes
  <2>4. AtLeastZero(pos.spot + report.spot) >= 0 /\ AtLeastZero(pos.perp + report.perp) >= 0
    BY Numbers DEF AtLeastZero
  <2>5. pos'.spot >= 0 /\ pos'.perp >= 0
    BY <2>1, <2>3, <2>4
  <2> QED
    BY <2>1, <2>5
<1>10. CASE Save
  <2>1. pc' = "write" /\ file' = FreshFile /\ pos' = pos
    BY <1>10 DEF Save, memory
  <2> QED
    BY <2>1 DEF FreshFile, NoPosition
<1>11. CASE \/ ReadFails \/ SpotRejected \/ SpotAnswerLost \/ Unwound \/ UnwindRejected
            \/ UnwindAnswerLost \/ Kill
  <2>1. \E how : Ends(how) /\ file' = file
    BY <1>11, Zenon DEF ReadFails, SpotRejected, SpotAnswerLost, Unwound, UnwindRejected,
                        UnwindAnswerLost, Kill, Raises
  <2> QED
    BY <2>1, EndsUnsold
<1>12. CASE PerpRejected \/ PerpAnswerLost
  <2>1. \/ Raises("partial")
        \/ pc' = "unwind" /\ UNCHANGED <<file, memory>>
    BY <1>12 DEF PerpRejected, PerpAnswerLost, PerpRaises
  <2>2. CASE Raises("partial")
    BY <2>2, EndsUnsold DEF Raises
  <2>3. CASE pc' = "unwind" /\ UNCHANGED <<file, memory>>
    BY <2>3 DEF memory
  <2> QED
    BY <2>1, <2>2, <2>3
<1>13. CASE Write
  <2>1. Ends("done") /\ file'.position = pos
    BY <1>13 DEF Write
  <2> QED
    BY <2>1, EndsUnsold
<1>14. CASE Over
  BY <1>14 DEF Over, vars, memory
<1> QED
  BY <1>1, <1>2, <1>3, <1>4, <1>5, <1>6, <1>7, <1>8, <1>9, <1>10, <1>11, <1>12, <1>13, <1>14
  DEF Next, Cycle

\* Booking a fill, live or on paper, makes no money and loses none but the fee
\* and the rounding of the average entry: in every cycle, strayed or not, at any
\* prices (apply_fill, equity).
THEOREM FillsAreNeutral == Spec => FillNeutral
<1>1. Init => NothingOversold
  BY DEF Init, NothingOversold, FreshFile, NoPosition
<1>2. TypeOK /\ NothingOversold /\ [Next]_vars => NothingOversold'
  <2>1. UNCHANGED vars /\ NothingOversold => NothingOversold'
    BY DEF vars, memory, NothingOversold
  <2> QED
    BY <2>1, UnsoldStep
<1> DEFINE Neutral ==
             pc = "apply" /\ pc' = "accrue" =>
               LET loss == Equity(pos, cash, report.spotPx, report.perpPx) - report.fee
                             - Equity(pos', cash', report.spotPx, report.perpPx)
               IN  0 <= loss /\ loss <= pos'.perp
<1>3. TypeOK /\ NothingOversold /\ [Next]_vars => [Neutral]_vars
  <2> SUFFICES ASSUME TypeOK, NothingOversold, Next, pc = "apply", pc' = "accrue"
               PROVE  Neutral
    OBVIOUS
  <2>1. BookFill
    <3>1. ~TakeSnapshot /\ ~SpotFills /\ ~SkipSpot /\ ~PerpFills /\ ~SkipPerp /\ ~PaperFills
          /\ ~Accrue /\ ~Save /\ ~RecordBaseline
      BY DEF TakeSnapshot, SpotFills, SkipSpot, PerpFills, SkipPerp, PaperFills, Accrue, Save,
             RecordBaseline
    <3>2. /\ \A asDry \in DryRuns : ~Begin(asDry)
          /\ ~ReadFails /\ ~SpotRejected /\ ~SpotAnswerLost /\ ~Unwound /\ ~UnwindRejected
          /\ ~UnwindAnswerLost /\ ~Write /\ ~Kill /\ ~Over
      BY DEF Begin, ReadFails, SpotRejected, SpotAnswerLost, Unwound, UnwindRejected,
             UnwindAnswerLost, Write, Kill, Over, Ends, vars
    <3>3. ~PerpRejected /\ ~PerpAnswerLost
      BY DEF PerpRejected, PerpAnswerLost
    <3> QED
      BY <3>1, <3>2, <3>3, Zenon DEF Next, Cycle
  <2>2. pos' = ApplyFill(pos, report) /\ cash' = cash + CashFlow(pos, report)
    BY <2>1 DEF BookFill
  <2>3. /\ pos \in Position /\ report \in Report /\ cash \in Int
        /\ pos.perp >= 0 /\ pos.spot + report.spot >= 0
    BY DEF TypeOK, NothingOversold
  <2> DEFINE q == ApplyFill(pos, report)
             loss == Equity(pos, cash, report.spotPx, report.perpPx) - report.fee
                       - Equity(q, cash + CashFlow(pos, report), report.spotPx, report.perpPx)
  <2>4. 0 <= loss /\ loss <= q.perp
    BY <2>3, EquityMoves
  <2> QED
    BY <2>2, <2>4 DEF Equity
<1> QED
  BY <1>1, <1>2, <1>3, CarryTypes, PTL DEF Spec, FillNeutral
=============================================================================
