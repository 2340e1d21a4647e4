------------------------------- MODULE Sweep -------------------------------
(***************************************************************************)
(* A parameter sweep (validation/optimization_runner.py): it sets the last *)
(* part of its period aside, trains candidate parameters on windows of the *)
(* rest, several at a time, refines around the best, tests the finalists,  *)
(* chooses one and checks it on what was set aside.  Around it,            *)
(* execute_optimization_sweep keeps the record the API shows               *)
(* (validation/optimization_job_executor.py).                              *)
(*                                                                         *)
(* The trials are tasks of one event loop.  A backtest is one step, its    *)
(* outcome any of Outcomes, and the same for the same parameters and       *)
(* period.  Of the parameters, the switch of a trend provider, that of a   *)
(* reversion provider and one refined value are kept.  The record in Redis *)
(* and the races about it are JobQueue's; here a cancel request is a flag. *)
(***************************************************************************)
EXTENDS SweepWindows, SweepScoring, SequencesExt

CONSTANTS Requests,         \* the sweeps that may be asked for
          Outcomes,         \* what one backtest can show
          MinHoldoutTrades  \* max(1, min_trades // 2) unless given

\* What the API lets through (api/v1/optimization.py).
ASSUME SweepAssumption ==
  /\ \A r \in Requests :
       /\ r.bars \in Nat /\ r.holdout \in 0..99 /\ r.ratio \in 1..99
       /\ r.folds \in Nat \ {0} /\ r.max \in Nat \ {0} /\ r.topK \in Nat \ {0}
       /\ IsFiniteSet(r.space.trend) /\ IsFiniteSet(r.space.rev) /\ r.space.sl \in Nat
  /\ Outcomes \subseteq Figures

VARIABLES request,
          phase,      \* train, failing, cancelling, refine, test, holdout, ended
          trials,     \* the parameters to train, in order
          task,       \* per trial: waiting, running, done, cancelled
          results,    \* the trained trials
          refining,   \* the parameters to train around the best
          finalists,
          tested,     \* how many finalists have been tested
          verdict,    \* best, whether it may be applied, the fallback
          sweep,      \* the record: status, whether a cancel is requested, live trials
          measured    \* history: the backtests

vars == <<request, phase, trials, task, results, refining, finalists, tested,
          verdict, sweep, measured>>

-----------------------------------------------------------------------------
(* The space: generate_trials, refine_trials_around.                       *)

Params(space) == [trend : space.trend, rev : space.rev, sl : 1..space.sl]

\* Spaces that toggle two providers or more do not mix the families.
Mixes(p) == p.trend = 1 /\ p.rev = 1

Family(space) == Cardinality(space.trend) > 1 /\ Cardinality(space.rev) > 1

Valid(space, p) ==
  /\ p.trend = 1 \/ p.rev = 1
  /\ Family(space) => ~Mixes(p)

\* itertools.product, in the order of the keys.
Combos(space) ==
  InOrder({p \in Params(space) : Valid(space, p)},
          LAMBDA p, q : \/ p.sl < q.sl
                        \/ p.sl = q.sl /\ 2 * p.trend + p.rev < 2 * q.trend + q.rev)

\* More combinations than trials: every stride-th of them.
Grid(space, max) ==
  LET all == Combos(space)
      stride == Len(all) \div max
  IN  IF Len(all) <= max THEN all ELSE [k \in 1..max |-> all[1 + (k - 1) * stride]]

\* Optuna proposes distinct valid parameters until it has enough or has
\* been asked twenty times as often.
Sampled(space, max) ==
  {s \in UNION {[1..n -> {p \in Params(space) : Valid(space, p)}] : n \in 0..max} :
     \A i, j \in DOMAIN s : s[i] = s[j] => i = j}

\* Neighbours of the top trials in the refined value, those of one trial
\* after those of the other.  A trial is excluded only from its turn on.
Neighbours(space, p) ==
  SelectSeq(<<[p EXCEPT !.sl = @ - 1], [p EXCEPT !.sl = @ + 1]>>,
            LAMBDA q : q.sl \in 1..space.sl)

RefineAround(space, top, max) ==
  LET step(acc, p) ==
        LET seen  == acc.seen \cup {p}
            fresh == SelectSeq(Neighbours(space, p), LAMBDA q : q \notin seen)
        IN  [seen |-> seen \cup ToSet(fresh), picked |-> acc.picked \o fresh]
  IN  FirstOf(FoldLeft(step, [seen |-> {}, picked |-> <<>>], top).picked, max)

-----------------------------------------------------------------------------
Whole == Period(0, request.bars)

\* The windows lie in what split_holdout leaves.  Variant first: they take
\* the whole period.
FoldsOfWhole == Windows(Whole, request.mode, request.folds, request.ratio)

Folds ==
  Windows(Searched(Whole, request.holdout), request.mode, request.folds, request.ratio)

Holdout == HeldOut(Whole, request.holdout)

\* The backtests of p on one segment of every fold, or on the holdout.
Periods(segment) ==
  IF segment = "holdout" THEN <<Holdout>>
  ELSE [i \in DOMAIN Folds |-> Folds[i][segment]]

Feasible(segment) == \A i \in DOMAIN Periods(segment) : Runs(Periods(segment)[i])

Backtests(p, segment, outcomes) ==
  {[params |-> p, segment |-> segment, fold |-> i, period |-> Periods(segment)[i],
    outcome |-> outcomes[i]] : i \in DOMAIN outcomes}

Repeatable(new) ==
  \A a \in new, b \in measured \cup new :
    a.params = b.params /\ a.period = b.period => a.outcome = b.outcome

\* _score_trial_windows and _run_trial.
Measure(p, segment, outcomes) ==
  /\ outcomes \in [DOMAIN Periods(segment) -> Outcomes]
  /\ Repeatable(Backtests(p, segment, outcomes))
  /\ measured' = measured \cup Backtests(p, segment, outcomes)

Trial(p, outcomes) ==
  [params |-> p, train |-> Aggregate(outcomes), test |-> NoOutcome, penalty |-> 0]

NoVerdict == [best |-> NoTrial, valid |-> FALSE, fallback |-> NoTrial]

Adaptive == request.search = "optuna" /\ request.parallel = 1

Init ==
  /\ request \in Requests
  /\ trials \in IF Adaptive THEN {<<>>}
                ELSE IF request.search = "optuna" THEN Sampled(request.space, request.max)
                ELSE {Grid(request.space, request.max)}
  /\ phase = IF request.search = "grid" /\ trials = <<>> THEN "ended" ELSE "train"
  /\ task = [i \in DOMAIN trials |-> "waiting"]
  /\ results = [i \in DOMAIN trials |-> NoTrial]
  /\ refining = <<>>
  /\ finalists = <<>>
  /\ tested = 0
  /\ verdict = NoVerdict
  /\ sweep = [status |-> IF phase = "ended" THEN "failed" ELSE "running",
              cancel |-> FALSE, live |-> <<>>]
  /\ measured = {}

-----------------------------------------------------------------------------
(* Training.                                                               *)

Running == {i \in DOMAIN task : task[i] = "running"}

\* Optuna, one trial at a time: the next one is proposed when the last one
\* is scored.
Propose(p) ==
  /\ phase = "train"
  /\ Adaptive
  /\ Len(trials) < request.max
  /\ \A i \in DOMAIN task : task[i] = "done"
  /\ Valid(request.space, p)
  /\ p \notin ToSet(trials)
  /\ trials' = Append(trials, p)
  /\ task' = Append(task, "waiting")
  /\ results' = Append(results, NoTrial)
  /\ UNCHANGED <<request, phase, refining, finalists, tested, verdict, sweep, measured>>

\* The semaphore lets the tasks in in their order.
StartTrial(i) ==
  /\ task[i] = "waiting"
  /\ \A j \in 1..(i - 1) : task[j] # "waiting"
  /\ Cardinality(Running) < request.parallel
  /\ ~sweep.cancel
  /\ task' = [task EXCEPT ![i] = "running"]
  /\ UNCHANGED <<request, phase, trials, results, refining, finalists, tested, verdict,
                 sweep, measured>>

Live(t) == [sweep EXCEPT !.live = Append(@, t)]

\* A result goes to the place of its trial.
Place(i, t) == [results EXCEPT ![i] = t]

FinishTrial(i, outcomes) ==
  /\ task[i] = "running"
  /\ Feasible("train")
  /\ ~sweep.cancel
  /\ Measure(trials[i], "train", outcomes)
  /\ task' = [task EXCEPT ![i] = "done"]
  /\ LET t == Trial(trials[i], outcomes)
     IN  results' = Place(i, t) /\ sweep' = Live(t)
  /\ UNCHANGED <<request, phase, trials, refining, finalists, tested, verdict>>

\* A backtest without enough bars raises, and so does the progress callback,
\* or an await, once a cancel is requested.  The first exception ends gather
\* and decides how the sweep ends; until run_optimization goes on, other
\* trials may still start and finish.
RaiseIn(i) ==
  /\ phase \in {"train", "failing", "cancelling"}
  /\ task[i] \in {"waiting", "running"}
  /\ \/ /\ sweep.cancel
        /\ phase' = IF phase = "train" THEN "cancelling" ELSE phase
     \/ /\ task[i] = "running"
        /\ ~Feasible("train")
        /\ phase' = IF phase = "train" THEN "failing" ELSE phase
  /\ task' = [task EXCEPT ![i] = "cancelled"]
  /\ UNCHANGED <<request, trials, results, refining, finalists, tested, verdict, sweep, measured>>

EndAs(status) ==
  /\ phase' = "ended"
  /\ sweep' = [sweep EXCEPT !.status = status]

\* It cancels them and waits for them.  Variant first: it does not.
LeaveTasks ==
  /\ phase \in {"failing", "cancelling"}
  /\ EndAs(IF phase = "cancelling" THEN "cancelled" ELSE "failed")
  /\ UNCHANGED <<request, trials, task, results, refining, finalists, tested, verdict, measured>>

CancelTasks ==
  /\ phase \in {"failing", "cancelling"}
  /\ task' = [i \in DOMAIN task |-> IF task[i] = "done" THEN "done" ELSE "cancelled"]
  /\ EndAs(IF phase = "cancelling" THEN "cancelled" ELSE "failed")
  /\ UNCHANGED <<request, trials, results, refining, finalists, tested, verdict, measured>>

\* All trained, or Optuna has no more to propose: the best are kept and,
\* if asked for, refined.
Rank ==
  /\ phase = "train"
  /\ \A i \in DOMAIN task : task[i] = "done"
  /\ LET top == FirstOf(Ranked(results), request.topK)
     IN  /\ finalists' = top
         /\ refining' = IF ~request.refine THEN <<>>
                        ELSE RefineAround(request.space,
                               [k \in DOMAIN FirstOf(top, 3) |-> top[k].params],
                               IF request.max < 9 THEN request.max ELSE 9)
         /\ phase' = IF request.refine /\ top # <<>> THEN "refine" ELSE "test"
  /\ UNCHANGED <<request, trials, task, results, tested, verdict, sweep, measured>>

-----------------------------------------------------------------------------
(* Refining, testing, choosing: one backtest at a time.                    *)

RefineOne(outcomes) ==
  /\ phase = "refine"
  /\ refining # <<>>
  /\ ~sweep.cancel
  /\ Measure(Head(refining), "train", outcomes)
  /\ LET t == Trial(Head(refining), outcomes)
     IN  /\ results' = Append(results, t)
         /\ finalists' = Append(finalists, t)
         /\ sweep' = Live(t)
  /\ refining' = Tail(refining)
  /\ UNCHANGED <<request, phase, trials, task, tested, verdict>>

Refined ==
  /\ phase = "refine"
  /\ refining = <<>>
  /\ finalists' = FirstOf(Ranked(finalists), request.topK)
  /\ phase' = "test"
  /\ UNCHANGED <<request, trials, task, results, refining, tested, verdict, sweep, measured>>

TestOne(outcomes) ==
  /\ phase = "test"
  /\ tested < Len(finalists)
  /\ Feasible("test")
  /\ ~sweep.cancel
  /\ Measure(finalists[tested + 1].params, "test", outcomes)
  /\ tested' = tested + 1
  /\ finalists' = [finalists EXCEPT ![tested + 1].test = Aggregate(outcomes),
                                    ![tested + 1].penalty = FoldPenalty(outcomes)]
  /\ UNCHANGED <<request, phase, trials, task, results, refining, verdict, sweep>>

\* Outside gather an exception ends the sweep at once.  During the holdout
\* nothing reports progress: a worker does not notice a cancel there, a task
\* of the API is cancelled at its next await.
Working ==
  \/ phase = "refine" /\ refining # <<>>
  \/ phase = "test" /\ tested < Len(finalists)
  \/ phase = "holdout"

Raise ==
  /\ Working
  /\ \/ sweep.cancel /\ EndAs("cancelled")
     \/ phase # "refine" /\ ~Feasible(phase) /\ EndAs("failed")
  /\ UNCHANGED <<request, trials, task, results, refining, finalists, tested, verdict, measured>>

Choose ==
  /\ phase = "test"
  /\ tested = Len(finalists)
  /\ LET best == SelectBest(finalists)
     IN  /\ verdict' = [best |-> best, valid |-> best # NoTrial,
                        fallback |-> IF best = NoTrial /\ finalists # <<>>
                                     THEN Fallback(finalists) ELSE NoTrial]
         /\ IF best # NoTrial /\ request.holdout > 0
              THEN phase' = "holdout" /\ UNCHANGED sweep
              ELSE EndAs("completed")
  /\ UNCHANGED <<request, trials, task, results, refining, finalists, tested, measured>>

PassesHoldout(o) == o.trades >= MinHoldoutTrades /\ o.ret >= MinReturn

\* The winner on what was set aside: if it fails there it is kept to look
\* at, may not be applied, and a fallback is offered.
CheckHoldout(outcomes) ==
  /\ phase = "holdout"
  /\ Feasible("holdout")
  /\ Measure(verdict.best.params, "holdout", outcomes)
  /\ verdict' = IF PassesHoldout(outcomes[1]) THEN verdict
                ELSE [verdict EXCEPT !.valid = FALSE, !.fallback = Fallback(finalists)]
  /\ EndAs("completed")
  /\ UNCHANGED <<request, trials, task, results, refining, finalists, tested>>

\* POST cancel while the sweep is active.
Cancel ==
  /\ phase # "ended"
  /\ ~sweep.cancel
  /\ sweep' = [sweep EXCEPT !.cancel = TRUE]
  /\ UNCHANGED <<request, phase, trials, task, results, refining, finalists, tested,
                 verdict, measured>>

Next ==
  \/ \E p \in Params(request.space) : Propose(p)
  \/ \E i \in DOMAIN task : StartTrial(i) \/ RaiseIn(i)
  \/ \E i \in Running, outcomes \in [DOMAIN Folds -> Outcomes] : FinishTrial(i, outcomes)
  \/ CancelTasks
  \/ Rank
  \/ \E outcomes \in [DOMAIN Folds -> Outcomes] : RefineOne(outcomes) \/ TestOne(outcomes)
  \/ Refined
  \/ Raise
  \/ Choose
  \/ \E o \in Outcomes : CheckHoldout(<<o>>)
  \/ Cancel

Spec == Init /\ [][Next]_vars

-----------------------------------------------------------------------------
(* What is set aside is not seen before the choice is made: no bar traded  *)
(* on the holdout was traded in training or testing.  Within a fold, and   *)
(* with fixed windows across folds, nothing is tested on bars of the       *)
(* training (run_optimization, _run_trial).                                *)
Overlap(a, b) == Traded(a.period) \cap Traded(b.period) # {}

SegmentsApart ==
  \A a, b \in measured :
    Overlap(a, b) /\ a.segment # b.segment =>
      /\ "holdout" \notin {a.segment, b.segment}
      /\ request.mode = "anchored" /\ a.fold # b.fold

(* A completed sweep offers to apply only parameters whose own backtests   *)
(* earned it: enough trades over all test folds together, a mean return of *)
(* at least the minimum in training and testing, and the holdout passed.   *)
(* Whenever it offers none and tested any, it offers a fallback with most  *)
(* test trades (select_best, run_optimization's holdout check).            *)
Of(p, segment) == {b \in measured : b.params = p /\ b.segment = segment}

TradesOf(p, segment) == SumFunction([b \in Of(p, segment) |-> b.outcome.trades])
ReturnOf(p, segment) == SumFunction([b \in Of(p, segment) |-> b.outcome.ret])

ChoiceIsEarned ==
  sweep.status = "completed" =>
    /\ verdict.valid =>
         LET p == verdict.best.params
         IN  /\ TradesOf(p, "test") >= MinTrades
             /\ ReturnOf(p, "test") >= MinReturn * Cardinality(Of(p, "test"))
             /\ ReturnOf(p, "train") >= MinReturn * Cardinality(Of(p, "train"))
             /\ request.holdout > 0 =>
                  \E b \in Of(p, "holdout") : PassesHoldout(b.outcome)
    /\ ~verdict.valid /\ finalists # <<>> =>
         /\ verdict.fallback \in ToSet(finalists)
         /\ \A t \in ToSet(finalists) :
              TradesOf(t.params, "test") <= TradesOf(verdict.fallback.params, "test")

(* Once a sweep has ended, no trial of it runs or waits: a failed or       *)
(* cancelled one does not go on reporting trials into its record           *)
(* (run_optimization's except branch).                                     *)
EndedIsQuiet ==
  phase = "ended" => \A i \in DOMAIN task : task[i] \in {"done", "cancelled"}
=============================================================================
