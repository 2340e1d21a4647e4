------------------------------ MODULE Governance ------------------------------
(***************************************************************************)
(* The governance workflow in the database: experiments and their runs,    *)
(* candidates with their evaluations and promotions, and the gate that     *)
(* lets a revision trade live.  A request is a session of its own under    *)
(* READ COMMITTED: each of its statements sees what was committed before   *)
(* it, and what it writes at the end it writes whatever has changed since. *)
(***************************************************************************)
EXTENDS Integers, FiniteSets

CONSTANTS Candidates, Experiments, Revisions, None,
          Sessions,        \* requests that may be open at the same time
          Results,         \* optimization results a candidate is evaluated on
          Promotions,      \* the states a promotion may ask for
          Serves,          \* the requests that are sent
          Production,      \* settings.environment = "production"
          RequireChampion  \* settings.require_champion_candidate

\* Experiments of a candidate, a live session or a run are named by their id,
\* and a regime has a number of trades.
ASSUME GovernanceAssumption ==
  /\ None \notin Experiments \cup Revisions \cup Results \cup Sessions
  /\ "live" \notin Candidates \cup Experiments
  /\ Candidates \cap Experiments = {}
  /\ Production \in BOOLEAN /\ RequireChampion \in BOOLEAN
  /\ \A result \in Results :
       /\ IsFiniteSet(DOMAIN result.regimes)
       /\ result.regimes \in [DOMAIN result.regimes -> Nat]

-----------------------------------------------------------------------------
(* evaluate_candidate: the checks on a result                              *)
(* [valid, trades, foldStd, foldMean, regimes], regimes a function from     *)
(* the regimes of the holdout period to the trades in each.                *)

MIN_TRADES_FOR_REGIME_CHECK == 20

OutOfSample(result) == result.valid

MinimumSample(result) == result.trades >= MIN_TRADES_FOR_REGIME_CHECK

Magnitude(x) == IF x < 0 THEN -x ELSE x

\* fold_std <= |mean| * 0.5 + 5.0
FoldStability(result) ==
  /\ result.foldStd # None
  /\ 2 * result.foldStd <= Magnitude(result.foldMean) + 10

Attributed(regimes) ==
  LET sum[S \in SUBSET DOMAIN regimes] ==
        IF S = {} THEN 0
        ELSE LET r == CHOOSE r \in S : TRUE IN regimes[r] + sum[S \ {r}]
  IN  sum[DOMAIN regimes]

\* No regime has more than four fifths of the attributed trades.
RegimeConcentration(result) ==
  LET total == Attributed(result.regimes) IN
  /\ total >= MIN_TRADES_FOR_REGIME_CHECK
  /\ \A r \in DOMAIN result.regimes : 5 * result.regimes[r] <= 4 * total

Accepted(result) ==
  /\ result # None
  /\ OutOfSample(result)
  /\ MinimumSample(result)
  /\ FoldStability(result)
  /\ RegimeConcentration(result)

-----------------------------------------------------------------------------
VARIABLES cand,         \* candidate rows: state and experiment
          latest,       \* the result of a candidate's most recent evaluation
          experiment,   \* experiment rows
          run,          \* the run rows of each experiment, one at most
          jobs,         \* validation jobs in progress: experiment and revision
          backtested,   \* revisions with a backtest of enough trades
          live,         \* the live manager's session
          req,          \* open requests
          passed,       \* history: revisions the gate let a session start on
          stale,        \* history: requests whose reads have been overwritten
          dirty         \* history: a request wrote on stale reads

rows == <<cand, latest>>
evidence == <<experiment, run, jobs, backtested>>
session == <<live, passed>>
history == <<stale, dirty>>
vars == <<rows, evidence, session, req, history>>

States == {"candidate", "challenger", "champion", "rejected", "archived"}

ValidTransitions(state) ==
  CASE state = "candidate"  -> {"challenger", "rejected", "archived"}
    [] state = "challenger" -> {"champion", "rejected", "archived"}
    [] state = "champion"   -> {"archived"}
    [] state = "rejected"   -> {"archived"}
    [] OTHER                -> {}

Absent == [state |-> "absent", experiment |-> None]
NoExperiment == [status |-> "absent", revision |-> None]
NoRun == [status |-> "none", revision |-> None]
Off == [running |-> FALSE, experiment |-> None, revision |-> None]
Closed == [pc |-> "closed", kind |-> "none", target |-> None, to |-> "absent",
           ids |-> {}, result |-> None, revision |-> None]

Init ==
  /\ cand = [c \in Candidates |-> Absent]
  /\ latest = [c \in Candidates |-> None]
  /\ experiment = [e \in Experiments |-> NoExperiment]
  /\ run = [e \in Experiments |-> NoRun]
  /\ jobs = {} /\ backtested = {}
  /\ live = Off /\ passed = {}
  /\ req = [s \in Sessions |-> Closed]
  /\ stale = {} /\ dirty = FALSE

-----------------------------------------------------------------------------
(* What a request that is open relies on, and when it has been overtaken.  *)

Champions == {c \in Candidates : cand[c].state = "champion"}

Reads(s) ==
  CASE req[s].kind = "promote" /\ req[s].to \in {"challenger", "champion"} ->
         IF req[s].to = "champion" /\ req[s].pc = "write" THEN Candidates ELSE {req[s].target}
    [] req[s].kind = "delete" -> {"live"}
    [] req[s].kind = "start" -> Candidates \cup Experiments
    [] OTHER -> {}

\* Committing a write to the rows W; s is the request that does, None if it
\* takes one step only.
Commit(s, W) ==
  /\ stale' = (stale \ {s}) \cup {t \in Sessions \ {s} : Reads(t) \cap W # {}}
  /\ dirty' = (dirty \/ s \in stale)

Open(s, request) ==
  /\ req[s].pc = "closed"
  /\ request.kind \in Serves
  /\ req' = [req EXCEPT ![s] = request]

Close(s) == req' = [req EXCEPT ![s] = Closed]

\* The request is refused: nothing is written.
Refuse(s) ==
  /\ Close(s)
  /\ stale' = stale \ {s}
  /\ UNCHANGED <<rows, evidence, session, dirty>>

Proceed(s, pc) ==
  /\ req' = [req EXCEPT ![s].pc = pc]
  /\ UNCHANGED <<rows, evidence, session, history>>

-----------------------------------------------------------------------------
(* Candidates. *)

\* The experiment a candidate names need not exist: there are no foreign keys.
CreateCandidate(c, e) ==
  /\ cand[c] = Absent
  /\ cand' = [cand EXCEPT ![c] = [state |-> "candidate", experiment |-> e]]
  /\ Commit(None, {c})
  /\ UNCHANGED <<latest, evidence, session, req>>

\* run_candidate_evaluation: the row is loaded with its state.
BeginEvaluate(s, c, result) ==
  /\ cand[c] # Absent
  /\ Open(s, [Closed EXCEPT !.pc = "write", !.kind = "evaluate", !.target = c,
                            !.result = result,
                            !.to = IF cand[c].state = "rejected" THEN "rejected" ELSE "absent"])
  /\ UNCHANGED <<rows, evidence, session, history>>

\* A failed evaluation rejects, from whatever state; the row is not written
\* when it was loaded as rejected.
FinishEvaluate(s) ==
  LET c == req[s].target
      rejects == ~Accepted(req[s].result) /\ req[s].to # "rejected"
  IN  /\ req[s].kind = "evaluate"
      /\ latest' = [latest EXCEPT ![c] = req[s].result]
      /\ cand' = IF rejects THEN [cand EXCEPT ![c].state = "rejected"] ELSE cand
      /\ Close(s)
      /\ Commit(s, {c})
      /\ UNCHANGED <<evidence, session>>

\* promote_candidate: the row is loaded and the table consulted.
BeginPromote(s, c, to) ==
  /\ to \in ValidTransitions(cand[c].state)
  /\ Open(s, [Closed EXCEPT !.kind = "promote", !.target = c, !.to = to,
               !.pc = IF to \in {"challenger", "champion"} THEN "verdict" ELSE "write"])
  /\ UNCHANGED <<rows, evidence, session, history>>

CheckVerdict(s) ==
  /\ req[s].pc = "verdict"
  /\ IF Accepted(latest[req[s].target])
     THEN Proceed(s, IF req[s].to = "champion" THEN "champions" ELSE "write")
     ELSE Refuse(s)

\* The other champions, to be archived with the promotion.
ReadChampions(s) ==
  /\ req[s].pc = "champions"
  /\ req' = [req EXCEPT ![s].pc = "write", ![s].ids = Champions \ {req[s].target}]
  /\ UNCHANGED <<rows, evidence, session, history>>

\* Variant: the champions found stay champions.
ArchiveNone(seen) == {}

Archive(seen) == seen

WritePromotion(s) ==
  LET c == req[s].target
      archived == Archive(req[s].ids)
  IN  /\ req[s].kind = "promote" /\ req[s].pc = "write"
      /\ cand' = [d \in Candidates |->
                    IF d = c THEN [cand[d] EXCEPT !.state = req[s].to]
                    ELSE IF d \in archived THEN [cand[d] EXCEPT !.state = "archived"]
                    ELSE cand[d]]
      /\ Close(s)
      /\ Commit(s, {c} \cup archived)
      /\ UNCHANGED <<latest, evidence, session>>

-----------------------------------------------------------------------------
(* Experiments. *)

CreateExperiment(e, r) ==
  /\ experiment[e].status = "absent"
  /\ experiment' = [experiment EXCEPT ![e] = [status |-> "running", revision |-> r]]
  /\ Commit(None, {e})
  /\ UNCHANGED <<rows, run, jobs, backtested, session, req>>

\* A validation job commits its run row before it begins. It does not look for
\* the experiment it is told to run for.
StartRun(e, r) ==
  /\ run[e] = NoRun /\ experiment[e].status # "absent"
  /\ run' = [run EXCEPT ![e] = [status |-> "running", revision |-> r]]
  /\ jobs' = jobs \cup {<<e, r>>}
  /\ Commit(None, {})
  /\ UNCHANGED <<rows, experiment, backtested, session, req>>

\* The job's result is stored and its run completed, if the row is still there.
CompleteRun(e, r, enough) ==
  /\ <<e, r>> \in jobs
  /\ jobs' = jobs \ {<<e, r>>}
  /\ backtested' = IF enough THEN backtested \cup {r} ELSE backtested
  /\ IF run[e].status = "running" /\ run[e].revision = r
     THEN /\ run' = [run EXCEPT ![e].status = IF enough THEN "completed" ELSE "short"]
          /\ experiment' = IF experiment[e].status = "running"
                           THEN [experiment EXCEPT ![e].status = "completed"]
                           ELSE experiment
     ELSE UNCHANGED <<run, experiment>>
  /\ Commit(None, {e})
  /\ UNCHANGED <<rows, session, req>>

\* A job that dies leaves its run running.
LoseJob(e, r) ==
  /\ <<e, r>> \in jobs
  /\ jobs' = jobs \ {<<e, r>>}
  /\ UNCHANGED <<rows, experiment, run, backtested, session, req, history>>

\* Variant: no experiment is protected.
NoneActive == {}

ActiveExperiment == IF live.running THEN {live.experiment} ELSE {}

\* delete_experiment_route and bulk_delete_experiments: the one experiment that
\* is active is skipped, as of now.
BeginDelete(s, ids) ==
  /\ ids \ ActiveExperiment # {}
  /\ Open(s, [Closed EXCEPT !.pc = "write", !.kind = "delete",
                            !.ids = ids \ ActiveExperiment])
  /\ UNCHANGED <<rows, evidence, session, history>>

\* Rows that are there go, with their runs.
FinishDelete(s) ==
  LET gone == {e \in req[s].ids : experiment[e].status # "absent"} IN
  /\ req[s].kind = "delete"
  /\ experiment' = [e \in Experiments |->
                      IF e \in gone THEN [experiment[e] EXCEPT !.status = "deleted"]
                      ELSE experiment[e]]
  /\ run' = [e \in Experiments |-> IF e \in gone THEN NoRun ELSE run[e]]
  /\ Close(s)
  /\ Commit(s, gone)
  /\ UNCHANGED <<rows, jobs, backtested, session>>

-----------------------------------------------------------------------------
(* The gate and the live session. *)

Exists(e) == e \in Experiments /\ experiment[e].status \in {"running", "completed"}

OfRevision(c, r) ==
  /\ cand[c] # Absent /\ Exists(cand[c].experiment)
  /\ experiment[cand[c].experiment].revision = r

HasSuccessfulValidation(r) ==
  r \in backtested \/ \E e \in Experiments : run[e] = [status |-> "completed", revision |-> r]

HasLineage(r) == \E c \in Candidates : OfRevision(c, r)

HasChampion(r) == \E c \in Champions : OfRevision(c, r)

BeginStart(s, e, r) ==
  /\ Production => r # None
  /\ Open(s, [Closed EXCEPT !.kind = "start", !.target = e, !.revision = r,
                            !.pc = IF Production THEN "validated" ELSE "go"])
  /\ UNCHANGED <<rows, evidence, session, history>>

\* A revision that was validated was saved before, so get_revision finds it.
CheckValidated(s) ==
  /\ req[s].pc = "validated"
  /\ IF ~HasSuccessfulValidation(req[s].revision) THEN Refuse(s)
     ELSE Proceed(s, IF RequireChampion THEN "lineage" ELSE "go")

\* Variant: the outcome of the check is turned round.
LineageTurned(s) ==
  /\ req[s].pc = "lineage"
  /\ Proceed(s, IF HasLineage(req[s].revision) THEN "go" ELSE "champion")

CheckLineage(s) ==
  /\ req[s].pc = "lineage"
  /\ Proceed(s, IF HasLineage(req[s].revision) THEN "champion" ELSE "go")

CheckChampion(s) ==
  /\ req[s].pc = "champion"
  /\ IF HasChampion(req[s].revision) THEN Proceed(s, "go") ELSE Refuse(s)

\* set_mode is between stopping the session and starting it again: it has the
\* manager's lock, and the session it ended is the one it will go on with.
Switching == \E s \in Sessions : req[s].kind = "mode"

\* What the gate asks of a revision in production (allow_start).
Governed(r) ==
  /\ r # None
  /\ HasSuccessfulValidation(r)
  /\ RequireChampion /\ HasLineage(r) => HasChampion(r)

\* A start of a manager that runs already changes nothing.
FinishStart(s) ==
  /\ req[s].pc = "go" /\ ~Switching
  /\ live' = IF live.running THEN live
             ELSE [running |-> TRUE, experiment |-> req[s].target,
                   revision |-> req[s].revision]
  /\ passed' = IF live.running \/ ~Governed(req[s].revision) THEN passed
               ELSE passed \cup {req[s].revision}
  /\ Close(s)
  /\ Commit(s, IF live.running THEN {} ELSE {"live"})
  /\ UNCHANGED <<rows, evidence>>

\* stop, and set_mode of a manager that has no jobs (SessionIsWhole's exception).
StopLive ==
  /\ live.running /\ ~Switching
  /\ live' = [live EXCEPT !.running = FALSE]
  /\ Commit(None, {"live"})
  /\ UNCHANGED <<rows, evidence, passed, req>>

\* set_mode of a running session stops it first.
BeginSwitch(s) ==
  /\ live.running /\ ~Switching
  /\ Open(s, [Closed EXCEPT !.pc = "restart", !.kind = "mode"])
  /\ live' = [live EXCEPT !.running = FALSE]
  /\ Commit(None, {"live"})
  /\ UNCHANGED <<rows, evidence, passed>>

\* It then starts, with what the old session had, and without the gate.
FinishSwitch(s) ==
  /\ req[s].pc = "restart"
  /\ live' = [live EXCEPT !.running = TRUE]
  /\ Close(s)
  /\ Commit(s, {"live"})
  /\ UNCHANGED <<rows, evidence, passed>>

\* The stack of the new mode cannot be built.
FailSwitch(s) == req[s].pc = "restart" /\ Refuse(s)

-----------------------------------------------------------------------------
Next ==
  \/ \E c \in Candidates, e \in Experiments : CreateCandidate(c, e)
  \/ \E s \in Sessions, c \in Candidates, result \in Results : BeginEvaluate(s, c, result)
  \/ \E s \in Sessions, c \in Candidates, to \in Promotions : BeginPromote(s, c, to)
  \/ \E s \in Sessions : FinishEvaluate(s) \/ CheckVerdict(s) \/ ReadChampions(s)
                         \/ WritePromotion(s)
  \/ \E e \in Experiments, r \in Revisions : CreateExperiment(e, r) \/ StartRun(e, r)
                                             \/ LoseJob(e, r)
  \/ \E e \in Experiments, r \in Revisions, enough \in BOOLEAN : CompleteRun(e, r, enough)
  \/ \E s \in Sessions, ids \in SUBSET Experiments : BeginDelete(s, ids)
  \/ \E s \in Sessions, e \in Experiments \cup {None}, r \in Revisions \cup {None} :
       BeginStart(s, e, r)
  \/ \E s \in Sessions : FinishDelete(s) \/ CheckValidated(s) \/ CheckLineage(s)
                         \/ CheckChampion(s) \/ FinishStart(s)
                         \/ BeginSwitch(s) \/ FinishSwitch(s) \/ FailSwitch(s)
  \/ StopLive

Spec == Init /\ [][Next]_vars

-----------------------------------------------------------------------------
(* Correctness. *)

Request == [pc : {"closed", "verdict", "champions", "write", "validated", "lineage",
                  "champion", "go", "restart"},
            kind : {"none", "evaluate", "promote", "delete", "start", "mode"},
            target : Candidates \cup Experiments \cup {None},
            to : States \cup {"absent"},
            ids : SUBSET (Candidates \cup Experiments),
            result : Results \cup {None},
            revision : Revisions \cup {None}]

\* Every row and every open request has its type, and a candidate's row is
\* whole (create_candidate writes state and experiment together).
TypeOK ==
  /\ cand \in [Candidates -> [state : States \cup {"absent"},
                              experiment : Experiments \cup {None}]]
  /\ \A c \in Candidates : cand[c].state = "absent" <=> cand[c].experiment = None
  /\ latest \in [Candidates -> Results \cup {None}]
  /\ experiment \in [Experiments -> [status : {"absent", "running", "completed", "deleted"},
                                     revision : Revisions \cup {None}]]
  /\ run \in [Experiments -> [status : {"none", "running", "completed", "short"},
                              revision : Revisions \cup {None}]]
  /\ jobs \subseteq Experiments \X Revisions
  /\ backtested \subseteq Revisions
  /\ live \in [running : BOOLEAN, experiment : Experiments \cup {None},
               revision : Revisions \cup {None}]
  /\ passed \subseteq Revisions
  /\ req \in [Sessions -> Request]
  /\ stale \subseteq Sessions /\ dirty \in BOOLEAN

\* Requests that do not write over what another has changed since they read it
\* leave at most one champion, whatever else interleaves
\* (test_promoting_new_champion_archives_previous_champion); and a challenger or
\* champion has, as its most recent evaluation, one on a valid holdout with
\* enough trades and with folds: what was not evaluated never passes
\* (candidate_evaluator.py, promote_candidate).
OneEarnedChampion ==
  ~dirty =>
    /\ Cardinality(Champions) <= 1
    /\ \A c \in Candidates : cand[c].state \in {"challenger", "champion"} =>
         /\ latest[c] # None
         /\ latest[c].valid /\ latest[c].trades >= 20 /\ latest[c].foldStd # None
         /\ \E r1, r2 \in DOMAIN latest[c].regimes :
              r1 # r2 /\ latest[c].regimes[r1] > 0 /\ latest[c].regimes[r2] > 0

\* In production no session starts on a revision that has candidates and no
\* champion, or on one that was never validated with enough trades, unless the
\* database changed while the gate looked (LiveGovernanceGate.allow_start).
\* set_mode asks no gate (live.py:72-77): it starts again on the revision of the
\* session it ended, which the gate let through when that session, or the one it
\* goes back to, was started by a request, and which may no longer pass.
StartsAreGoverned ==
  [][~live.running /\ live'.running /\ Production /\ ~dirty' =>
       \/ Governed(live'.revision)
       \/ Switching /\ live'.revision \in passed]_vars

\* What the gate is for, which set_mode does not keep: the champion may have been
\* archived, or the validated run deleted, since the session was started.
RestartsAreGoverned ==
  [][~live.running /\ live'.running /\ Production /\ ~dirty' =>
       Governed(live'.revision)]_vars

\* The experiment of the live session is not deleted, unless the session began
\* while the deletion was under way (the 409 of delete_experiment_route).  While
\* set_mode has stopped the session it is not live, and its experiment may go
\* (SwitchKeepsExperiment).
ActiveIsKept ==
  [][\A e \in Experiments :
       Exists(e) /\ ~Exists(e)' /\ ~dirty' => ~(live.running /\ live.experiment = e)]_vars

\* Not kept: a session that set_mode is about to start again finds its experiment.
SwitchKeepsExperiment ==
  [][\A e \in Experiments :
       Exists(e) /\ ~Exists(e)' /\ ~dirty' => ~(Switching /\ live.experiment = e)]_vars
=============================================================================
