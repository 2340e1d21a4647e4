----------------------------- MODULE CarryRunner -----------------------------
(***************************************************************************)
(* The live basis-carry runner: cycles of load, snapshot, plan, two market *)
(* orders (spot, then perp), fill, funding and save, against an account at *)
(* an exchange that can refuse an order, fill it in part, or fill it and   *)
(* lose the answer.  A cycle that raises, and a process that is killed,    *)
(* lose what they had in memory; the next cycle starts from the file.      *)
(***************************************************************************)
EXTENDS CarryPosition

CONSTANTS Snapshots,        \* what the market can look like
          Capital,          \* --capital
          OwnCoins,         \* coins in the spot account that are not the runner's
          SpotLot, PerpLot, \* amount steps of the two venues
          FeeBps,           \* the venues' fee
          PaperTakerBps,    \* PaperCarryExecutor
          PaperSlippageBps,
          Faults,           \* pairs of an order's leg and what may befall it
          DryRuns,          \* the values --dry-run may have
          CrashAt,          \* where the process may be killed
          MaxCrashes,       \* bound: kills
          MaxCycles         \* bound: cycles

Legs == {"spot", "perp", "unwind"}

\* An order may be refused, filled in part, or filled although its answer is lost.
FaultKinds == {"rejected", "partial", "lost"}

Steps == {"idle", "baseline", "snapshot", "spot", "perp", "unwind", "paper",
          "apply", "accrue", "save", "write"}

ASSUME RunnerAssumption ==
  /\ Snapshots \subseteq Snapshot
  /\ Capital \in Nat
  /\ OwnCoins \in Nat
  /\ SpotLot \in Nat \ {0}
  /\ PerpLot \in Nat \ {0}
  /\ FeeBps \in Nat
  /\ PaperTakerBps \in Nat
  /\ PaperSlippageBps \in Nat
  /\ Faults \subseteq Legs \X FaultKinds
  /\ DryRuns \subseteq BOOLEAN
  /\ CrashAt \subseteq Steps \ {"idle"}
  /\ MaxCrashes \in Nat
  /\ MaxCycles \in Nat

VARIABLES account,     \* what the runner's orders have left at the exchange
          file,        \* what load_position makes of the state file
          pc,          \* where the cycle stands
          dry,         \* the cycle is a --dry-run
          pos, cash,   \* runner.state, runner.cash
          baseline,    \* spot_baseline, <<>> while None
          snap,        \* the cycle's snapshot
          plan,        \* the cycle's plan
          report,      \* its ExecReport, filled in as the orders return
          outcome,     \* how the last cycle ended
          cycles,      \* cycles begun
          crashes,     \* kills so far
          strayed      \* history: the exchange and the file went separate ways

memory == <<dry, pos, cash, baseline, snap, plan, report>>
vars == <<account, file, pc, memory, outcome, cycles, crashes, strayed>>

\* None, or the coins found in the spot account.
Baseline == {<<>>} \cup [{1} -> Int]

\* load_position's answer when there is no file, or none that can be parsed.
FreshFile == [position |-> NoPosition, cash |-> 0, baseline |-> <<>>]

NoSnapshot == [spotPx |-> 1, perpPx |-> 1, funding |-> 0, trailing |-> 0]
NoReport   == [spot |-> 0, spotPx |-> 0, perp |-> 0, perpPx |-> 0, fee |-> 0]

Init ==
  /\ account = [spot |-> 0, perp |-> 0]
  /\ file = FreshFile
  /\ pc = "idle"
  /\ dry = FALSE
  /\ pos = NoPosition
  /\ cash = 0
  /\ baseline = <<>>
  /\ snap = NoSnapshot
  /\ plan = Noop
  /\ report = NoReport
  /\ outcome = "none"
  /\ cycles = 0
  /\ crashes = 0
  /\ strayed = FALSE

-----------------------------------------------------------------------------
(***************************************************************************)
(* Orders.                                                                 *)
(***************************************************************************)
May(leg, kind) == <<leg, kind>> \in Faults

Signed(order, q) == IF order < 0 THEN -q ELSE q

\* What ccxt makes of an amount before it sends it.
Truncated(q, lot) == q - (q % lot)

\* Variant: each leg is rounded to its own venue's lot.
RoundNothing(q) == q

\* The amount both venues accept.  ccxt refuses an amount below one lot, and
\* the raw quantity is used then.
RoundQty(q) ==
  LET s == Truncated(Abs(q), SpotLot)
      p == Truncated(Abs(q), PerpLot)
  IN  IF s = 0 \/ p = 0 THEN q ELSE Signed(q, Lesser(s, p))

SpotOrder == RoundQty(plan.spot)
PerpOrder == RoundQty(plan.perp)

\* What the venue can fill of an order: nothing of a sale that exceeds the
\* balance, and of a reduce-only order no more than the short.
SpotTakes(order) ==
  LET amount == Truncated(Abs(order), SpotLot)
  IN  IF order < 0 /\ amount > account.spot + OwnCoins THEN 0 ELSE amount

PerpTakes(order) ==
  LET amount == Truncated(Abs(order), PerpLot)
  IN  IF order < 0 THEN Lesser(amount, account.perp) ELSE amount

FillsOf(leg, takes, lot) ==
  {q \in 1..takes : q = takes \/ (May(leg, "partial") /\ q % lot = 0)}

\* The end of a cycle, however it ends, leaves the process with the file only.
Ends(how) ==
  /\ pc' = "idle"
  /\ outcome' = how
  /\ dry' = FALSE
  /\ pos' = NoPosition
  /\ cash' = 0
  /\ baseline' = <<>>
  /\ snap' = NoSnapshot
  /\ plan' = Noop
  /\ report' = NoReport
  /\ UNCHANGED cycles

Raises(why) == Ends(why) /\ UNCHANGED <<file, crashes>>

-----------------------------------------------------------------------------
(***************************************************************************)
(* _cycle.                                                                 *)
(***************************************************************************)
\* A runner that never traded starts with the capital it was given.
Begin(asDry) ==
  /\ pc = "idle"
  /\ cycles < MaxCycles
  /\ pc' = IF file.baseline = <<>> /\ ~asDry THEN "baseline" ELSE "snapshot"
  /\ dry' = asDry
  /\ pos' = file.position
  /\ cash' = IF ~InMarket(file.position) /\ file.cash = 0 THEN Capital ELSE file.cash
  /\ baseline' = file.baseline
  /\ outcome' = "none"
  /\ cycles' = cycles + 1
  /\ UNCHANGED <<account, file, snap, plan, report, crashes, strayed>>

RecordBaseline ==
  /\ pc = "baseline"
  /\ pc' = "snapshot"
  /\ baseline' = <<account.spot + OwnCoins - pos.spot>>
  /\ UNCHANGED <<account, file, dry, pos, cash, snap, plan, report, outcome, cycles,
                 crashes, strayed>>

TakeSnapshot ==
  /\ pc = "snapshot"
  /\ snap' \in Snapshots
  /\ plan' = PlanFor(pos, cash, snap')
  /\ report' = [NoReport EXCEPT !.spotPx = snap'.spotPx, !.perpPx = snap'.perpPx]
  /\ pc' = IF plan'.reason = "noop" THEN "accrue" ELSE IF dry THEN "paper" ELSE "spot"
  /\ UNCHANGED <<account, file, dry, pos, cash, baseline, outcome, cycles, crashes,
                 strayed>>

\* Reads are retried and then raise.
ReadFails ==
  /\ pc \in {"baseline", "snapshot"}
  /\ Raises("error")
  /\ UNCHANGED <<account, strayed>>

Fee(q, px) == (q * px * FeeBps) \div 10000

SpotFills ==
  /\ pc = "spot"
  /\ SpotOrder # 0
  /\ \E q \in FillsOf("spot", SpotTakes(SpotOrder), SpotLot) :
       /\ account' = [account EXCEPT !.spot = @ + Signed(SpotOrder, q)]
       /\ report' = [report EXCEPT !.spot = Signed(SpotOrder, q),
                                   !.fee = @ + Fee(q, snap.spotPx)]
  /\ pc' = "perp"
  /\ UNCHANGED <<file, dry, pos, cash, baseline, snap, plan, outcome, cycles, crashes,
                 strayed>>

SkipSpot ==
  /\ pc = "spot"
  /\ SpotOrder = 0
  /\ pc' = "perp"
  /\ UNCHANGED <<account, file, memory, outcome, cycles, crashes, strayed>>

SpotRejected ==
  /\ pc = "spot"
  /\ SpotOrder # 0
  /\ SpotTakes(SpotOrder) = 0 \/ May("spot", "rejected")
  /\ Raises("error")
  /\ UNCHANGED <<account, strayed>>

SpotAnswerLost ==
  /\ pc = "spot"
  /\ SpotOrder # 0
  /\ SpotTakes(SpotOrder) > 0
  /\ May("spot", "lost")
  /\ account' = [account EXCEPT !.spot = @ + Signed(SpotOrder, SpotTakes(SpotOrder))]
  /\ Raises("error")
  /\ strayed' = TRUE

PerpFills ==
  /\ pc = "perp"
  /\ PerpOrder # 0
  /\ \E q \in FillsOf("perp", PerpTakes(PerpOrder), PerpLot) :
       /\ account' = [account EXCEPT !.perp = @ + Signed(PerpOrder, q)]
       /\ report' = [report EXCEPT !.perp = Signed(PerpOrder, q),
                                   !.fee = @ + Fee(q, snap.perpPx)]
  /\ pc' = "apply"
  /\ UNCHANGED <<file, dry, pos, cash, baseline, snap, plan, outcome, cycles, crashes,
                 strayed>>

SkipPerp ==
  /\ pc = "perp"
  /\ PerpOrder = 0
  /\ pc' = "apply"
  /\ UNCHANGED <<account, file, memory, outcome, cycles, crashes, strayed>>

\* The except clause: a spot leg that was filled is to be unwound; without
\* one PartialCarryFill is raised all the same.
PerpRaises ==
  IF report.spot # 0
  THEN pc' = "unwind" /\ UNCHANGED <<file, memory, outcome, cycles, crashes>>
  ELSE Raises("partial")

\* Variant: the spot leg stays when the perp leg is refused.
PerpRejectedKept ==
  /\ pc = "perp"
  /\ PerpOrder # 0
  /\ PerpTakes(PerpOrder) = 0 \/ May("perp", "rejected")
  /\ Raises("partial")
  /\ UNCHANGED <<account, strayed>>

PerpRejected ==
  /\ pc = "perp"
  /\ PerpOrder # 0
  /\ PerpTakes(PerpOrder) = 0 \/ May("perp", "rejected")
  /\ PerpRaises
  /\ UNCHANGED <<account, strayed>>

PerpAnswerLost ==
  /\ pc = "perp"
  /\ PerpOrder # 0
  /\ PerpTakes(PerpOrder) > 0
  /\ May("perp", "lost")
  /\ account' = [account EXCEPT !.perp = @ + Signed(PerpOrder, PerpTakes(PerpOrder))]
  /\ PerpRaises
  /\ strayed' = TRUE

\* The unwinding order is for what the spot order reported as filled.  When
\* it raises too, that exception is what the caller sees.
Unwound ==
  /\ pc = "unwind"
  /\ \E q \in FillsOf("unwind", SpotTakes(-report.spot), SpotLot) :
       /\ account' = [account EXCEPT !.spot = @ + Signed(-report.spot, q)]
       /\ strayed' = (strayed \/ q # Abs(report.spot))
  /\ Raises("partial")

UnwindRejected ==
  /\ pc = "unwind"
  /\ SpotTakes(-report.spot) = 0 \/ May("unwind", "rejected")
  /\ Raises("error")
  /\ strayed' = TRUE
  /\ UNCHANGED account

UnwindAnswerLost ==
  /\ pc = "unwind"
  /\ SpotTakes(-report.spot) > 0
  /\ May("unwind", "lost")
  /\ account' = [account EXCEPT
                   !.spot = @ + Signed(-report.spot, SpotTakes(-report.spot))]
  /\ Raises("error")
  /\ strayed' = (strayed \/ SpotTakes(-report.spot) # Abs(report.spot))

\* PaperCarryExecutor: the plan is filled exactly, at a price that is worse
\* by spread and slippage.
WorsePx(px, buys) ==
  LET cost == PaperTakerBps + PaperSlippageBps
  IN  IF buys THEN (px * (10000 + cost)) \div 10000 ELSE (px * (10000 - cost)) \div 10000

PaperFills ==
  /\ pc = "paper"
  /\ report' =
       [spot   |-> plan.spot,
        spotPx |-> WorsePx(snap.spotPx, plan.spot > 0),
        perp   |-> plan.perp,
        perpPx |-> WorsePx(snap.perpPx, plan.perp <= 0),
        fee    |-> ((Abs(plan.spot) * snap.spotPx + Abs(plan.perp) * snap.perpPx)
                      * PaperTakerBps) \div 10000]
  /\ pc' = "apply"
  /\ UNCHANGED <<account, file, dry, pos, cash, baseline, snap, plan, outcome, cycles,
                 crashes, strayed>>

BookFill ==
  /\ pc = "apply"
  /\ pos' = ApplyFill(pos, report)
  /\ cash' = cash + CashFlow(pos, report)
  /\ pc' = "accrue"
  /\ UNCHANGED <<account, file, dry, baseline, snap, plan, report, outcome, cycles,
                 crashes, strayed>>

\* A live snapshot always counts as a funding time.
Accrue ==
  /\ pc = "accrue"
  /\ pos' = AccrueFunding(pos, snap)
  /\ pc' = "save"
  /\ UNCHANGED <<account, file, dry, cash, baseline, snap, plan, report, outcome, cycles,
                 crashes, strayed>>

\* write_text empties the file before it writes.
Save ==
  /\ pc = "save"
  /\ file' = FreshFile
  /\ pc' = "write"
  /\ UNCHANGED <<account, memory, outcome, cycles, crashes, strayed>>

Write ==
  /\ pc = "write"
  /\ file' = [position |-> pos, cash |-> cash, baseline |-> baseline]
  /\ strayed' = (strayed \/ dry)
  /\ Ends("done")
  /\ UNCHANGED <<account, crashes>>

\* What a kill loses that the exchange or the file had already been told.
Undocumented ==
  \/ pc = "write"
  \/ ~dry /\ (report.spot # 0 \/ report.perp # 0)

Kill ==
  /\ crashes < MaxCrashes
  /\ pc \in CrashAt
  /\ crashes' = crashes + 1
  /\ strayed' = (strayed \/ Undocumented)
  /\ Ends("killed")
  /\ UNCHANGED <<account, file>>

\* The bound on cycles is reached.
Over == pc = "idle" /\ cycles = MaxCycles /\ UNCHANGED vars

Cycle ==
  \/ \E asDry \in DryRuns : Begin(asDry)
  \/ RecordBaseline
  \/ TakeSnapshot
  \/ ReadFails
  \/ SpotFills
  \/ SkipSpot
  \/ SpotRejected
  \/ SpotAnswerLost
  \/ PerpFills
  \/ SkipPerp
  \/ PerpRejected
  \/ PerpAnswerLost
  \/ Unwound
  \/ UnwindRejected
  \/ UnwindAnswerLost
  \/ PaperFills
  \/ BookFill
  \/ Accrue
  \/ Save
  \/ Write

Next == Cycle \/ Kill \/ Over

Spec == Init /\ [][Next]_vars

-----------------------------------------------------------------------------
(***************************************************************************)
(* Properties.                                                             *)
(***************************************************************************)
\* Types.  In particular the account is never short of the coins it held
\* before the runner came, nor long on the perpetual (reduceOnly).
TypeOK ==
  /\ account \in [spot : Int, perp : Nat]
  /\ account.spot + OwnCoins >= 0
  /\ file \in [position : Position, cash : Int, baseline : Baseline]
  /\ pc \in Steps
  /\ dry \in BOOLEAN
  /\ pos \in Position
  /\ cash \in Int
  /\ baseline \in Baseline
  /\ snap \in Snapshot
  /\ plan \in Plan
  /\ report \in Report
  /\ outcome \in {"none", "done", "partial", "error", "killed"}
  /\ cycles \in 0..MaxCycles
  /\ crashes \in 0..MaxCrashes
  /\ strayed \in BOOLEAN

\* What _reconcile compares: the account net of the recorded baseline, and
\* the file; before the first save, the account has to be flat.
Agrees ==
  IF file.baseline = <<>>
  THEN account.spot = 0 /\ account.perp = 0
  ELSE /\ account.spot + OwnCoins - file.baseline[1] = file.position.spot
       /\ account.perp = file.position.perp

\* Between cycles the file tells what the runner's orders have left at the
\* exchange, and reconciling finds no mismatch: whatever was refused, filled in
\* part or unwound, and wherever the process was killed, unless an answer was
\* lost, an unwinding order failed, the kill fell between an order and the end
\* of the save, or a dry run wrote the file (LiveCarryExecutor.execute, _cycle,
\* save_live_state, load_position).
Reconciles == pc = "idle" /\ ~strayed => Agrees

\* Both legs were filled as they were sent.
Complete ==
  /\ Abs(report.spot) = Truncated(Abs(SpotOrder), SpotLot)
  /\ Abs(report.perp) = Truncated(Abs(PerpOrder), PerpLot)

Before == account.spot - report.spot

\* What a plan may leave of the net delta: the band, the basis on what it
\* traded in both legs, and one lot where it trades the legs apart.
DeltaAllowed ==
  LET larger == IF account.spot > Before THEN account.spot ELSE Before
      lot    == PerpLot * (IF snap.spotPx > snap.perpPx THEN snap.spotPx ELSE snap.perpPx)
  IN  (RebalanceBandPct * larger * snap.spotPx) \div 100
      + Abs(snap.spotPx - snap.perpPx) * Abs(report.spot)
      + (IF plan.reason \in {"close", "rebalance"} THEN lot ELSE 0)

\* A live cycle that traded what it planned leaves the account's hedge within
\* the band, whatever was filled in part before (plan, round_qty, execute).  A
\* short without a spot leg is the exception: plan looks at the hedge only when
\* there is a spot leg, and leaves such a short alone.
HedgeKept ==
  pc = "save" /\ ~dry /\ ~strayed /\ Complete
    /\ (Before > 0 \/ account.perp - report.perp = 0)
  => Abs(NetDelta(account.spot, account.perp, snap)) <= DeltaAllowed

\* Trading moves value between cash and the legs but makes none: at the prices
\* of the fill, equity falls by the fee and by less than one unit of money for
\* each unit of the short, which is the rounding of the average entry
\* (apply_fill, equity).
FillNeutral ==
  [][pc = "apply" /\ pc' = "accrue" =>
       LET loss == Equity(pos, cash, report.spotPx, report.perpPx) - report.fee
                     - Equity(pos', cash', report.spotPx, report.perpPx)
       IN  0 <= loss /\ loss <= pos'.perp]_vars

\* PartialCarryFill is what its docstring says: the leg that was filled has
\* been unwound, so the account is where the file still says it is.  The code does
\* not keep this when the answer to the perp order is lost.
PartialMeansUnwound == pc = "idle" /\ outcome = "partial" => Agrees
=============================================================================
