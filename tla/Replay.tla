------------------------------- MODULE Replay -------------------------------
(***************************************************************************)
(* What is kept of a decision and what can be told from it later: the      *)
(* events of its cycle go through the bus to the database handler one by   *)
(* one, the decision monitor reads the record, and the replay engine       *)
(* executes the cycle again from the event log (backend/src/replay/).  The  *)
(* pages and the channel hear of it from the same bus.                     *)
(*                                                                         *)
(* The rows of a cycle share one event_time, by which the log is read, so  *)
(* they come back in any order.  Only the state snapshot of a validation   *)
(* that keeps its cycles is in the database.                               *)
(***************************************************************************)
EXTENDS DecisionEngine

CONSTANT Breaks        \* after how many of its events a batch may end

ASSUME BreaksAssumption == Breaks \subseteq Nat

VARIABLES logged,      \* how many of the cycle's events the database holds
          broke,       \* where the batch ended: "nowhere", or the step that raised
          kept,        \* the snapshot is in state_snapshots
          diff         \* the answer of the last re-execution

replayVars == <<logged, broke, kept, diff>>

NoDiff == [changed |-> "none"]

-----------------------------------------------------------------------------
(* PlatformRuntime: the events of one cycle, in the order they are published. *)

CycleEvents ==
  <<"candle", "features", "context">>
    \o [i \in DOMAIN signals |-> "opinion"]
    \o <<"made", "outcome">>
    \o (IF decision.value = "approved" THEN <<"published">> ELSE <<>>)

InLog(type) == \E i \in 1..logged : CycleEvents[i] = type

\* causation_id: the event of ctx.causation_id at the time, 0 for none.
Cause(type, i) ==
  CASE type = "candle"            -> 0
    [] type \in {"opinion", "made"} -> 3
    [] OTHER                      -> i - 1

\* The opinions of the log: a prefix of the signals.
LoggedSignals == SubSeq(signals, 1, Largest(0, Smallest(logged - 3, Len(signals))))

\* The decision log that DecisionMade carries, checks included.
DecisionLog ==
  LET agg    == Combine(engine, signals)
      checks == RiskChecks(engine, agg, snapshot)
      final  == BuildSignal(engine, agg, signals, ctx)
      filter == FilterCheck(engine, ctx)
  IN  [filter |-> filter,
       side   |-> IF filter = "passed" /\ agg.ok THEN agg.side ELSE "HOLD",
       checks |-> IF filter # "passed" \/ ~agg.ok THEN <<>>
                  ELSE IF Failed(checks) # {} THEN checks
                  ELSE Append(checks, RewardCheck(engine, final))]

-----------------------------------------------------------------------------
(* events/: the bus hands each event to Redis and then to its handlers in turn. *)

\* Variant of the next definition: the record comes last.
HandlersTellFirst == <<"websocket", "telegram", "database">>

\* build_handlers, with a database and in a mode that tells the channel.
Handlers == <<"websocket", "database", "telegram">>

Listens(h) ==
  CASE h = "websocket" -> {"outcome", "published"}
    [] h = "database"  -> Range(CycleEvents)
    [] h = "telegram"  -> {"published"}

\* publish: nobody is handed an event that Redis refused; when the database
\* handler raises, those before it have been handed the event and those after it
\* have not.  The others catch what they run into (broadcast, TelegramError).
Delivered(h) ==
  LET place(x) == CHOOSE k \in DOMAIN Handlers : Handlers[k] = x
  IN  IF broke = "database" /\ place(h) < place("database") THEN logged + 1 ELSE logged

\* What a handler has passed on; a message may still get lost after that.
Told(h) == {CycleEvents[i] : i \in 1..Delivered(h)} \cap Listens(h)

-----------------------------------------------------------------------------
(* replay/timeline.py, graph.py: the rows of the log for a page. *)

Families == <<{"candle", "features", "context"}, {"opinion"}, {"made", "outcome"}, {"published"}>>

\* The rows of the log with their causes, as numbers of events.
Rows(order) ==
  LET events == CycleEvents
  IN  [k \in DOMAIN order |->
         [id     |-> order[k],
          cause  |-> Cause(events[order[k]], order[k]),
          family |-> CHOOSE f \in DOMAIN Families : events[order[k]] \in Families[f]]]

\* The place of each row in the timeline, which is sorted by family; within one,
\* where the rows of a cycle share both their times, it keeps the log's order.
Timeline(rows) ==
  LET ahead(j, k) == \/ rows[j].family < rows[k].family
                     \/ rows[j].family = rows[k].family /\ j < k
  IN  [k \in DOMAIN rows |-> Cardinality({j \in DOMAIN rows : j = k \/ ahead(j, k)})]

Edges(rows) == {<<r.cause, r.id>> : r \in {x \in Range(rows) : x.cause # 0}}

Roots(rows) == {r.id : r \in Range(rows)} \ {e[2] : e \in Edges(rows)}

-----------------------------------------------------------------------------
(* db/repositories/decision.py: what the monitor tells of a rejection. *)

ExtractStage(log) ==
  CASE log.filter # "passed"                       -> "market_filter"
    [] log.filter = "passed" /\ log.side = "HOLD"   -> "aggregator"
    [] OTHER                                       -> "risk_manager"

\* The first check of the list, whether it failed or not.
ExtractReason(log) ==
  CASE log.filter # "passed"                       -> log.filter
    [] log.filter = "passed" /\ log.side = "HOLD"   -> "insufficient_consensus"
    [] OTHER                                       -> log.checks[1].name

\* _row_to_summary: from the outcome event if it is there, else from the log.
Summary ==
  IF InLog("outcome") THEN [stage |-> decision.stage, reason |-> decision.reason]
  ELSE [stage |-> ExtractStage(DecisionLog), reason |-> ExtractReason(DecisionLog)]

\* compute_engine_stats and compute_overview count by the extracted reason.
BreakdownKey == ExtractReason(DecisionLog)

-----------------------------------------------------------------------------
(* replay/reexecutor.py *)

\* An opinion's event has no levels.
FromEvent(s) == [provider |-> s.provider, side |-> s.side, confidence |-> s.confidence,
                 weight |-> s.weight, levels |-> <<>>]

Orders(sigs) ==
  {[i \in DOMAIN sigs |-> FromEvent(sigs[p[i]])] :
     p \in {q \in [DOMAIN sigs -> DOMAIN sigs] : Range(q) = DOMAIN sigs}}

NoneOrSide(d) == IF d.value = "approved" THEN d.signal.side ELSE "none"
NoneOrReason(d) == IF d.value = "rejected" THEN d.reason ELSE "none"

\* build_decision_diff.  The original is rebuilt from DecisionMade, which has its
\* value and neither its signal nor its reason.  same: history, whether the
\* configuration is the one of the cycle.
DecisionDiff(value, again, same) ==
  [value |-> value, again |-> again, same |-> same,
   changed |-> \/ value # again.value
               \/ NoneOrSide(again) # "none"
               \/ NoneOrReason(again) # "none"]

-----------------------------------------------------------------------------
ReplayInit == EngineInit /\ logged = 0 /\ broke = "nowhere" /\ kept = FALSE /\ diff = NoDiff

Cycle ==
  /\ NextBar \/ AskProvider \/ Decide
  /\ UNCHANGED replayVars

\* persist_validation_result: only a validation that is told to keeps its cycles.
KeepCycle == kept' \in BOOLEAN

\* publish_many: each event is stored in a transaction of its own, and what
\* raises, Redis or the database handler, ends the batch.
Publish ==
  /\ stage = "done" /\ stage' = "published"
  /\ \/ logged' = Len(CycleEvents) /\ broke' = "nowhere"
     \/ /\ logged' \in {n \in Breaks : n < Len(CycleEvents)}
        /\ broke' \in {"redis", "database"}
  /\ KeepCycle
  /\ UNCHANGED <<engine, panel, ctx, signals, snapshot, decision, diff>>

\* re_execute_cycle, under the configuration of a revision or of the disk.
ReExecute ==
  /\ stage = "published" /\ diff = NoDiff
  /\ InLog("made") /\ kept
  /\ diff' \in {DecisionDiff(decision.value, Process(e, order, ctx, snapshot), e = engine) :
                order \in Orders(LoggedSignals),
                e \in {x \in Engines : x.method = engine.method}}
  /\ UNCHANGED <<engineVars, logged, broke, kept>>

\* ReExecuteError: events or the snapshot are missing.
CannotReExecute ==
  /\ stage = "published" /\ diff = NoDiff
  /\ ~(InLog("made") /\ kept)
  /\ diff' = [changed |-> "error"]
  /\ UNCHANGED <<engineVars, logged, broke, kept>>

EndCycle ==
  /\ diff # NoDiff
  /\ EndBar
  /\ logged' = 0 /\ broke' = "nowhere" /\ kept' = FALSE /\ diff' = NoDiff

ReplayNext == Cycle \/ Publish \/ ReExecute \/ CannotReExecute \/ EndCycle

ReplaySpec == ReplayInit /\ [][ReplayNext]_<<engineVars, replayVars>>

-----------------------------------------------------------------------------
\* A cycle executed again under its own configuration comes to the decision it
\* came to, whatever order its opinions are read back in, except where the reward
\* decides: the levels it is computed from are not in the events.
DecidesAgain ==
  LET again == diff.again
      told  == {NoneOrReason(decision), NoneOrReason(again)}
  IN  "same" \in DOMAIN diff /\ diff.same /\ "min_risk_reward" \notin told =>
        /\ again.value = decision.value
        /\ NoneOrReason(again) = NoneOrReason(decision)
        /\ NoneOrSide(again) = NoneOrSide(decision)
        /\ (decision.value = "approved" =>
              again.signal.confidence = decision.signal.confidence)

\* A page that is shown a decision finds its record, and a signal that goes out
\* to the channel is in the log (WebSocketEventHandler, TelegramEventHandler).
ToldIsOnRecord ==
  /\ Told("websocket") # {} => InLog("made") /\ InLog("context")
  /\ Told("telegram") # {} => InLog("outcome") /\ InLog("published")

\* The graph of a cycle hangs together, and its timeline has no event of a family
\* before its cause of an earlier one, in whatever order the rows come.  (Within
\* a family the code promises nothing: an outcome may be listed before DecisionMade.)
CausesComeFirst ==
  stage = "published" /\ diff = NoDiff =>
    \A order \in {[i \in 1..logged |-> i], [i \in 1..logged |-> logged + 1 - i]} :
      LET rows == Rows(order)
          line == Timeline(rows)
      IN  /\ Range(line) = DOMAIN rows
          /\ logged > 0 => Roots(rows) = {1}
          /\ \A i \in DOMAIN rows : rows[i].cause # 0 => rows[i].cause \in Range(order)
          /\ \A i, k \in DOMAIN rows :
               rows[i].cause = rows[k].id /\ rows[i].family # rows[k].family
                 => line[k] < line[i]

\* What is told of a cycle is what happened in it, wherever its batch broke off and
\* in whatever order its rows are read: executed again it decides the same, a
\* rejection that has a record is shown with the stage it was rejected at, nothing
\* is announced that has no record, and causes come first (re_execute_cycle,
\* _extract_rejection_stage, build_handlers, build_timeline, build_causal_graph).
LogIsFaithful ==
  /\ DecidesAgain
  /\ InLog("made") /\ decision.value = "rejected" => Summary.stage = decision.stage
  /\ ToldIsOnRecord
  /\ CausesComeFirst

\* The breakdown of rejections is a "group by rejection_reason"
\* (docs/backend/backtesting.md:82).  The code does not keep this: it takes
\* the first of the risk manager's checks, failed or not.
BreakdownIsByReason ==
  decision.value = "rejected" => BreakdownKey = decision.reason
=============================================================================
