-------------------------- MODULE GovernanceProofs --------------------------
(***************************************************************************)
(* OneEarnedChampion, StartsAreGoverned and ActiveIsKept, for any number of *)
(* candidates, experiments, revisions and requests, and for every set of   *)
(* evaluation results.                                                     *)
(***************************************************************************)
EXTENDS Governance, FiniteSums

\* Each step of a request is of one kind, and its target of one sort.
Formed(q) ==
  /\ q.kind \in {"evaluate", "promote"} => q.target \in Candidates
  /\ q.kind = "start" => q.target \in Experiments \cup {None}
  /\ q.kind = "delete" => q.ids \subseteq Experiments
  /\ q.kind = "promote" =>
       /\ q.to \in {"challenger", "champion", "rejected", "archived"}
       /\ q.ids \subseteq Candidates \ {q.target}
       /\ q.pc \in {"verdict", "champions", "write"}
  /\ q.pc \in {"verdict", "champions"} =>
       q.kind = "promote" /\ q.to \in {"challenger", "champion"}
  /\ q.pc = "champions" => q.to = "champion"
  /\ q.pc \in {"validated", "lineage", "champion", "go"} <=> q.kind = "start"
  /\ q.kind \in {"evaluate", "delete"} => q.pc = "write"
  /\ q.pc = "restart" <=> q.kind = "mode"
  /\ q.pc = "closed" <=> q.kind = "none"

KindInv == \A s \in Sessions : Formed(req[s])

\* The candidates a request has loaded are there to be written.
LoadedInv ==
  \A s \in Sessions :
    /\ req[s].kind \in {"evaluate", "promote"} => cand[req[s].target].state # "absent"
    /\ req[s].kind = "promote" => \A d \in req[s].ids : cand[d].state # "absent"

RowsInv == TypeOK /\ KindInv /\ LoadedInv

\* What was read still holds for a request that nobody has overtaken: a
\* candidate it is about to promote may still be promoted and has passed, the
\* champions it is about to archive are all there are ...
PromoteHolds(s) ==
  req[s].kind = "promote" /\ req[s].to \in {"challenger", "champion"} =>
    /\ cand[req[s].target].state \in {"candidate", "challenger"}
    /\ req[s].pc \in {"champions", "write"} => Accepted(latest[req[s].target])
    /\ req[s].to = "champion" /\ req[s].pc = "write" => Champions \subseteq req[s].ids

\* ... the revision it is about to start on is validated and, if it has to be,
\* that of a champion ...
StartHolds(s) ==
  Production /\ req[s].kind = "start" =>
    /\ req[s].revision # None
    /\ req[s].pc \in {"lineage", "champion", "go"} => HasSuccessfulValidation(req[s].revision)
    /\ req[s].pc = "go" /\ RequireChampion /\ HasLineage(req[s].revision)
         => HasChampion(req[s].revision)

\* ... and the experiments it is about to delete are not the live one.
DeleteHolds(s) ==
  req[s].kind = "delete" /\ live.running => live.experiment \notin req[s].ids

ReadsHold(s) == PromoteHolds(s) /\ StartHolds(s) /\ DeleteHolds(s)

\* A candidate loaded as rejected is rejected or archived for good.
RejectedInv ==
  \A s \in Sessions :
    req[s].kind = "evaluate" /\ req[s].to = "rejected" =>
      cand[req[s].target].state \in {"rejected", "archived"}

\* There is one champion, and whoever is promoted has passed.
EarnedInv ==
  /\ \A c, d \in Champions : c = d
  /\ \A c \in Candidates :
       cand[c].state \in {"challenger", "champion"} => Accepted(latest[c])

FreshInv == (\A s \in Sessions \ stale : ReadsHold(s)) /\ RejectedInv /\ EarnedInv

IInv == RowsInv /\ (~dirty => FreshInv)

-----------------------------------------------------------------------------
(* Every row has its type, and every request its form. *)

\* At first there is no row and no request.
LEMMA InitRows == Init => RowsInv
<1> SUFFICES ASSUME Init PROVE RowsInv
  OBVIOUS
<1>1. TypeOK
  BY DEF Init, TypeOK, Absent, NoExperiment, NoRun, Off, Closed, Request, States
<1>2. KindInv /\ LoadedInv
  BY DEF Init, Closed, KindInv, Formed, LoadedInv
<1> QED
  BY <1>1, <1>2 DEF RowsInv

\* A request whose record is replaced by another that is whole.
LEMMA RequestsKept ==
  ASSUME RowsInv, NEW s \in Sessions, NEW q \in Request, Formed(q),
         req' = [req EXCEPT ![s] = q]
  PROVE  /\ req' \in [Sessions -> Request]
         /\ KindInv'
         /\ req'[s] = q
         /\ \A t \in Sessions : t # s => req'[t] = req[t]
<1>1. req \in [Sessions -> Request] /\ \A t \in Sessions : Formed(req[t])
  BY DEF RowsInv, TypeOK, KindInv
<1>2. /\ req' \in [Sessions -> Request]
      /\ req'[s] = q
      /\ \A t \in Sessions : t # s => req'[t] = req[t]
  BY <1>1
<1>3. ASSUME NEW t \in Sessions PROVE Formed(req'[t])
  BY <1>1, <1>2
<1> QED
  BY <1>2, <1>3 DEF KindInv, Formed

\* A request that has ended is whole, and so is one that goes on with its
\* reads, as long as the step is one of its kind.
LEMMA ClosedFormed == Closed \in Request /\ Formed(Closed)
BY DEF Closed, Request, Formed

LEMMA ProceedFormed ==
  ASSUME NEW q \in Request, Formed(q),
         NEW pc \in {"verdict", "champions", "write", "lineage", "champion", "go"},
         \/ q.kind = "start" /\ pc \in {"lineage", "champion", "go"}
         \/ q.kind = "promote" /\ pc = "write"
         \/ q.kind = "promote" /\ pc = "champions" /\ q.to = "champion"
  PROVE  /\ [q EXCEPT !.pc = pc] \in Request
         /\ Formed([q EXCEPT !.pc = pc])
<1> DEFINE p == [q EXCEPT !.pc = pc]
<1>1. /\ p \in Request
      /\ p.pc = pc /\ p.kind = q.kind /\ p.target = q.target
      /\ p.to = q.to /\ p.ids = q.ids
  BY DEF Request
<1> HIDE DEF p
<1>2. Formed(p)
  BY <1>1 DEF Formed
<1> QED
  BY <1>1, <1>2 DEF p

\* The rows of which a step that reads only leaves everything as it is.
LEMMA ReadingRows ==
  ASSUME RowsInv, NEW s \in Sessions, NEW q \in Request, Formed(q),
         req' = [req EXCEPT ![s] = q],
         cand' = cand, latest' = latest, experiment' = experiment, run' = run,
         jobs' = jobs, backtested' = backtested, live' = live, passed' = passed,
         stale' \subseteq Sessions, dirty' \in BOOLEAN,
         q.kind \in {"evaluate", "promote"} => cand[q.target].state # "absent",
         q.kind = "promote" => \A d \in q.ids : cand[d].state # "absent"
  PROVE  RowsInv'
<1>1. TypeOK /\ LoadedInv
  BY DEF RowsInv
<1>2. /\ req' \in [Sessions -> Request]
      /\ KindInv'
      /\ req'[s] = q
      /\ \A t \in Sessions : t # s => req'[t] = req[t]
  BY RequestsKept
<1>3. TypeOK'
  BY <1>1, <1>2 DEF TypeOK
<1>4. LoadedInv'
  BY <1>1, <1>2 DEF LoadedInv
<1> QED
  BY <1>2, <1>3, <1>4 DEF RowsInv

\* Candidates that are there stay there, whatever is written of them.
LEMMA WritingRows ==
  ASSUME RowsInv, NEW q, q \in [Sessions -> Request], req' = q,
         \A t \in Sessions : req'[t] = req[t] \/ req'[t] = Closed,
         cand' \in [Candidates -> [state : States \cup {"absent"},
                                   experiment : Experiments \cup {None}]],
         \A d \in Candidates : cand'[d].state = "absent" <=> cand'[d].experiment = None,
         \A d \in Candidates : cand[d].state # "absent" => cand'[d].state # "absent",
         latest' \in [Candidates -> Results \cup {None}],
         experiment' \in [Experiments -> [status : {"absent", "running", "completed", "deleted"},
                                          revision : Revisions \cup {None}]],
         run' \in [Experiments -> [status : {"none", "running", "completed", "short"},
                                   revision : Revisions \cup {None}]],
         jobs' \subseteq Experiments \X Revisions, backtested' \subseteq Revisions,
         live' \in [running : BOOLEAN, experiment : Experiments \cup {None},
                    revision : Revisions \cup {None}],
         passed' \subseteq Revisions,
         stale' \subseteq Sessions, dirty' \in BOOLEAN
  PROVE  RowsInv'
<1>1. TypeOK /\ KindInv /\ LoadedInv
  BY DEF RowsInv
<1>2. TypeOK'
  BY DEF TypeOK
<1>3. ASSUME NEW t \in Sessions
      PROVE  /\ Formed(req'[t])
             /\ req'[t].kind \in {"evaluate", "promote"} => cand'[req'[t].target].state # "absent"
             /\ req'[t].kind = "promote" => \A d \in req'[t].ids : cand'[d].state # "absent"
  <2>1. CASE req'[t] = Closed
    BY <2>1, ClosedFormed DEF Closed
  <2>2. CASE req'[t] = req[t]
    <3>1. Formed(req[t])
      BY <1>1 DEF KindInv
    <3>2. /\ req[t].kind \in {"evaluate", "promote"} => req[t].target \in Candidates
          /\ req[t].kind = "promote" => req[t].ids \subseteq Candidates
      BY <3>1 DEF Formed
    <3>3. /\ req[t].kind \in {"evaluate", "promote"} => cand[req[t].target].state # "absent"
          /\ req[t].kind = "promote" => \A d \in req[t].ids : cand[d].state # "absent"
      BY <1>1 DEF LoadedInv
    <3> QED
      BY <2>2, <3>1, <3>2, <3>3
  <2> QED
    BY <2>1, <2>2
<1>4. KindInv' /\ LoadedInv'
  BY <1>3 DEF KindInv, LoadedInv, Formed
<1> QED
  BY <1>2, <1>4 DEF RowsInv

\* A commit keeps the two histories what they are.
LEMMA CommitTyped ==
  ASSUME RowsInv, NEW s, NEW W, Commit(s, W)
  PROVE  stale' \subseteq Sessions /\ dirty' \in BOOLEAN
BY DEF RowsInv, TypeOK, Commit

\* The requests that begin: nothing is written yet.
LEMMA BeginRows ==
  ASSUME RowsInv, NEW s \in Sessions,
         \/ \E c \in Candidates, result \in Results : BeginEvaluate(s, c, result)
         \/ \E c \in Candidates, to \in Promotions : BeginPromote(s, c, to)
         \/ \E ids \in SUBSET Experiments : BeginDelete(s, ids)
         \/ \E e \in Experiments \cup {None}, r \in Revisions \cup {None} : BeginStart(s, e, r)
  PROVE  RowsInv'
<1>1. TypeOK
  BY DEF RowsInv
<1>2. stale \subseteq Sessions /\ dirty \in BOOLEAN
  BY <1>1 DEF TypeOK
<1>3. ASSUME NEW c \in Candidates, NEW result \in Results, BeginEvaluate(s, c, result)
      PROVE  RowsInv'
  <2> DEFINE q == [Closed EXCEPT !.pc = "write", !.kind = "evaluate", !.target = c,
                                 !.result = result,
                                 !.to = IF cand[c].state = "rejected" THEN "rejected" ELSE "absent"]
  <2>1. q \in Request /\ Formed(q)
    BY DEF Closed, Request, Formed, States
  <2>2. cand[c].state # "absent"
    BY <1>1, <1>3 DEF BeginEvaluate, Absent, TypeOK
  <2>3. q.kind = "evaluate" /\ q.target = c
    BY DEF Closed
  <2> HIDE DEF q
  <2>4. /\ req' = [req EXCEPT ![s] = q]
        /\ UNCHANGED <<rows, evidence, session, history>>
    BY <1>3 DEF BeginEvaluate, Open, q
  <2> QED
    BY <1>2, <2>1, <2>2, <2>3, <2>4, ReadingRows DEF rows, evidence, history, session
<1>4. ASSUME NEW c \in Candidates, NEW to \in Promotions, BeginPromote(s, c, to)
      PROVE  RowsInv'
  <2> DEFINE q == [Closed EXCEPT !.kind = "promote", !.target = c, !.to = to,
                     !.pc = IF to \in {"challenger", "champion"} THEN "verdict" ELSE "write"]
  <2>1. /\ to \in {"challenger", "champion", "rejected", "archived"}
        /\ cand[c].state # "absent"
    BY <1>4 DEF BeginPromote, ValidTransitions
  <2>2. q \in Request /\ Formed(q)
    BY <2>1 DEF Closed, Request, Formed, States
  <2>3. q.kind = "promote" /\ q.target = c /\ q.ids = {}
    BY DEF Closed
  <2> HIDE DEF q
  <2>4. /\ req' = [req EXCEPT ![s] = q]
        /\ UNCHANGED <<rows, evidence, session, history>>
    BY <1>4 DEF BeginPromote, Open, q
  <2> QED
    BY <1>2, <2>1, <2>2, <2>3, <2>4, ReadingRows DEF rows, evidence, history, session
<1>5. ASSUME NEW ids \in SUBSET Experiments, BeginDelete(s, ids)
      PROVE  RowsInv'
  <2> DEFINE q == [Closed EXCEPT !.pc = "write", !.kind = "delete",
                                 !.ids = ids \ ActiveExperiment]
  <2>1. q \in Request /\ Formed(q)
    BY DEF Closed, Request, Formed
  <2>2. q.kind = "delete"
    BY DEF Closed
  <2> HIDE DEF q
  <2>3. /\ req' = [req EXCEPT ![s] = q]
        /\ UNCHANGED <<rows, evidence, session, history>>
    BY <1>5 DEF BeginDelete, Open, q
  <2> QED
    BY <1>2, <2>1, <2>2, <2>3, ReadingRows DEF rows, evidence, history, session
<1>6. ASSUME NEW e \in Experiments \cup {None}, NEW r \in Revisions \cup {None},
             BeginStart(s, e, r)
      PROVE  RowsInv'
  <2> DEFINE q == [Closed EXCEPT !.kind = "start", !.target = e, !.revision = r,
                                 !.pc = IF Production THEN "validated" ELSE "go"]
  <2>1. q \in Request /\ Formed(q)
    BY DEF Closed, Request, Formed
  <2>2. q.kind = "start"
    BY DEF Closed
  <2> HIDE DEF q
  <2>3. /\ req' = [req EXCEPT ![s] = q]
        /\ UNCHANGED <<rows, evidence, session, history>>
    BY <1>6 DEF BeginStart, Open, q
  <2> QED
    BY <1>2, <2>1, <2>2, <2>3, ReadingRows DEF rows, evidence, history, session
<1> QED
  BY <1>3, <1>4, <1>5, <1>6

\* A request that is open and looks, refused or not.
LEMMA RefuseRows ==
  ASSUME RowsInv, NEW s \in Sessions, Refuse(s)
  PROVE  RowsInv'
<1>1. Closed.kind = "none"
  BY DEF Closed
<1>2. stale \subseteq Sessions /\ dirty \in BOOLEAN
  BY DEF RowsInv, TypeOK
<1>3. /\ req' = [req EXCEPT ![s] = Closed]
      /\ UNCHANGED <<rows, evidence, session, dirty>>
      /\ stale' \subseteq Sessions
  BY <1>2 DEF Refuse, Close
<1> QED
  BY <1>1, <1>2, <1>3, ClosedFormed, ReadingRows DEF rows, evidence, session

LEMMA ProceedRows ==
  ASSUME RowsInv, NEW s \in Sessions,
         NEW pc \in {"verdict", "champions", "write", "lineage", "champion", "go"},
         \/ req[s].kind = "start" /\ pc \in {"lineage", "champion", "go"}
         \/ req[s].kind = "promote" /\ pc = "write"
         \/ req[s].kind = "promote" /\ pc = "champions" /\ req[s].to = "champion",
         Proceed(s, pc)
  PROVE  RowsInv'
<1> DEFINE q == [req[s] EXCEPT !.pc = pc]
<1>1. req \in [Sessions -> Request] /\ Formed(req[s])
  BY DEF RowsInv, TypeOK, KindInv
<1>2. q \in Request /\ Formed(q)
  BY <1>1, ProceedFormed
<1>3. q.kind = req[s].kind /\ q.target = req[s].target /\ q.ids = req[s].ids
  BY <1>1 DEF Request
<1>4. /\ q.kind \in {"evaluate", "promote"} => cand[q.target].state # "absent"
      /\ q.kind = "promote" => \A d \in q.ids : cand[d].state # "absent"
  BY <1>3 DEF RowsInv, LoadedInv
<1>5. /\ req' = [req EXCEPT ![s] = q]
      /\ UNCHANGED <<rows, evidence, session, history>>
  BY <1>1 DEF Proceed
<1>6. stale \subseteq Sessions /\ dirty \in BOOLEAN
  BY DEF RowsInv, TypeOK
<1> HIDE DEF q
<1> QED
  BY <1>2, <1>4, <1>5, <1>6, ReadingRows DEF rows, evidence, history, session

LEMMA LookRows ==
  ASSUME RowsInv, NEW s \in Sessions,
         \/ CheckVerdict(s) \/ ReadChampions(s)
         \/ CheckValidated(s) \/ CheckLineage(s) \/ CheckChampion(s)
  PROVE  RowsInv'
<1>1. req \in [Sessions -> Request] /\ Formed(req[s])
  BY DEF RowsInv, TypeOK, KindInv
<1>2. CASE Refuse(s)
  BY <1>2, RefuseRows
<1>3. CASE CheckVerdict(s) /\ ~Refuse(s)
  <2>1. req[s].kind = "promote"
    BY <1>1, <1>3 DEF CheckVerdict, Formed
  <2>2. Proceed(s, IF req[s].to = "champion" THEN "champions" ELSE "write")
    BY <1>3 DEF CheckVerdict
  <2>3. CASE req[s].to = "champion"
    BY <2>1, <2>2, <2>3, ProceedRows
  <2>4. CASE req[s].to # "champion"
    BY <2>1, <2>2, <2>4, ProceedRows
  <2> QED
    BY <2>3, <2>4
<1>4. CASE ReadChampions(s)
  <2> DEFINE q == [req[s] EXCEPT !.pc = "write", !.ids = Champions \ {req[s].target}]
  <2>1. /\ req[s].pc = "champions"
        /\ req' = [req EXCEPT ![s] = q]
        /\ UNCHANGED <<rows, evidence, session, history>>
    BY <1>1, <1>4 DEF ReadChampions
  <2>2. Champions \subseteq Candidates /\ \A d \in Champions : cand[d].state # "absent"
    BY DEF Champions
  <2>3. q \in Request
    BY <1>1, <2>2 DEF Request
  <2>4. /\ q.kind = req[s].kind /\ q.target = req[s].target /\ q.pc = "write"
        /\ q.to = req[s].to /\ q.ids = Champions \ {req[s].target}
    BY <1>1 DEF Request
  <2> HIDE DEF q
  <2>5. Formed(q)
    BY <1>1, <2>1, <2>2, <2>4 DEF Formed
  <2>6. /\ q.kind \in {"evaluate", "promote"} => cand[q.target].state # "absent"
        /\ q.kind = "promote" => \A d \in q.ids : cand[d].state # "absent"
    BY <2>2, <2>4 DEF RowsInv, LoadedInv
  <2>7. stale \subseteq Sessions /\ dirty \in BOOLEAN
    BY DEF RowsInv, TypeOK
  <2> QED
    BY <2>1, <2>3, <2>5, <2>6, <2>7, ReadingRows DEF rows, evidence, history, session
<1>5. CASE (CheckValidated(s) \/ CheckLineage(s) \/ CheckChampion(s)) /\ ~Refuse(s)
  <2>1. req[s].kind = "start"
    BY <1>1, <1>5 DEF CheckValidated, CheckLineage, CheckChampion, Formed
  <2>2. PICK pc \in {"lineage", "champion", "go"} : Proceed(s, pc)
    BY <1>5 DEF CheckValidated, CheckLineage, CheckChampion
  <2> QED
    BY <2>1, <2>2, ProceedRows
<1> QED
  BY <1>2, <1>3, <1>4, <1>5

\* The steps that write.
LEMMA CandidateRows ==
  ASSUME RowsInv,
         \/ \E c \in Candidates, e \in Experiments : CreateCandidate(c, e)
         \/ \E s \in Sessions : FinishEvaluate(s) \/ WritePromotion(s)
  PROVE  RowsInv'
<1>1. TypeOK /\ KindInv /\ LoadedInv
  BY DEF RowsInv
<1>2. ASSUME NEW c \in Candidates, NEW e \in Experiments, CreateCandidate(c, e)
      PROVE  RowsInv'
  <2>1. e # None
    BY GovernanceAssumption
  <2>2. /\ cand' \in [Candidates -> [state : States \cup {"absent"},
                                    experiment : Experiments \cup {None}]]
        /\ \A d \in Candidates : cand'[d].state = "absent" <=> cand'[d].experiment = None
        /\ \A d \in Candidates : cand[d].state # "absent" => cand'[d].state # "absent"
    BY <1>1, <1>2, <2>1 DEF TypeOK, CreateCandidate, States
  <2>3. stale' \subseteq Sessions /\ dirty' \in BOOLEAN
    BY <1>2, CommitTyped DEF CreateCandidate
  <2>4. UNCHANGED <<latest, evidence, session, req>>
    BY <1>2 DEF CreateCandidate
  <2> QED
    BY <1>1, <2>2, <2>3, <2>4, WritingRows DEF TypeOK, evidence, session
<1>3. ASSUME NEW s \in Sessions, FinishEvaluate(s) \/ WritePromotion(s)
      PROVE  /\ req' \in [Sessions -> Request]
             /\ \A t \in Sessions : req'[t] = req[t] \/ req'[t] = Closed
             /\ stale' \subseteq Sessions /\ dirty' \in BOOLEAN
  <2>1. Close(s)
    BY <1>3 DEF FinishEvaluate, WritePromotion
  <2>2. \E W : Commit(s, W)
    BY <1>3 DEF FinishEvaluate, WritePromotion
  <2> QED
    BY <1>1, <2>1, <2>2, CommitTyped, ClosedFormed DEF Close, TypeOK
<1>4. ASSUME NEW s \in Sessions, FinishEvaluate(s)
      PROVE  RowsInv'
  <2> DEFINE c == req[s].target
  <2>1. req[s].kind = "evaluate" /\ c \in Candidates /\ cand[c].state # "absent"
    BY <1>1, <1>4 DEF FinishEvaluate, KindInv, Formed, LoadedInv
  <2>2. cand' = [cand EXCEPT ![c].state = "rejected"] \/ cand' = cand
    BY <1>4 DEF FinishEvaluate
  <2>3. /\ cand' \in [Candidates -> [state : States \cup {"absent"},
                                    experiment : Experiments \cup {None}]]
        /\ \A d \in Candidates : cand'[d].state = "absent" <=> cand'[d].experiment = None
        /\ \A d \in Candidates : cand[d].state # "absent" => cand'[d].state # "absent"
    <3>1. /\ cand \in [Candidates -> [state : States \cup {"absent"},
                                      experiment : Experiments \cup {None}]]
          /\ \A d \in Candidates : cand[d].state = "absent" <=> cand[d].experiment = None
      BY <1>1 DEF TypeOK
    <3> HIDE DEF c
    <3>2. CASE cand' = cand
      BY <3>1, <3>2
    <3>3. CASE cand' = [cand EXCEPT ![c].state = "rejected"]
      BY <2>1, <3>1, <3>3 DEF States
    <3> QED
      BY <2>2, <3>2, <3>3
  <2>4. latest' \in [Candidates -> Results \cup {None}]
    <3>1. latest' = [latest EXCEPT ![c] = req[s].result]
      BY <1>4 DEF FinishEvaluate
    <3>2. req[s].result \in Results \cup {None}
      BY <1>1 DEF TypeOK, Request
    <3>3. latest \in [Candidates -> Results \cup {None}]
      BY <1>1 DEF TypeOK
    <3> QED
      BY <3>1, <3>2, <3>3
  <2>5. UNCHANGED <<evidence, session>>
    BY <1>4 DEF FinishEvaluate
  <2> QED
    BY <1>1, <1>3, <1>4, <2>3, <2>4, <2>5, WritingRows DEF TypeOK, evidence, session
<1>5. ASSUME NEW s \in Sessions, WritePromotion(s)
      PROVE  RowsInv'
  <2> DEFINE c == req[s].target
             to == req[s].to
             archived == Archive(req[s].ids)
  <2>1. /\ cand[c].state # "absent" /\ c \in Candidates
        /\ archived \subseteq Candidates
        /\ \A d \in archived : cand[d].state # "absent"
        /\ to \in {"challenger", "champion", "rejected", "archived"}
    <3>1. req[s].kind = "promote"
      BY <1>5 DEF WritePromotion
    <3>2. Formed(req[s])
      BY <1>1 DEF KindInv
    <3>3. /\ cand[req[s].target].state # "absent"
          /\ \A d \in req[s].ids : cand[d].state # "absent"
      BY <1>1, <3>1 DEF LoadedInv
    <3> QED
      BY <3>1, <3>2, <3>3 DEF Formed, Archive
  <2>2. cand' = [d \in Candidates |->
                    IF d = c THEN [cand[d] EXCEPT !.state = to]
                    ELSE IF d \in archived THEN [cand[d] EXCEPT !.state = "archived"]
                    ELSE cand[d]]
    BY <1>5 DEF WritePromotion
  <2>3. /\ cand \in [Candidates -> [state : States \cup {"absent"},
                                    experiment : Experiments \cup {None}]]
        /\ \A d \in Candidates : cand[d].state = "absent" <=> cand[d].experiment = None
    BY <1>1 DEF TypeOK
  <2> HIDE DEF c, to, archived
  <2>4. ASSUME NEW d \in Candidates
        PROVE  /\ cand'[d] \in [state : States \cup {"absent"}, experiment : Experiments \cup {None}]
               /\ cand'[d].experiment = cand[d].experiment
               /\ cand'[d].state = "absent" <=> cand[d].state = "absent"
    <3>1. CASE d = c
      BY <2>1, <2>2, <2>3, <3>1 DEF States
    <3>2. CASE d # c /\ d \in archived
      BY <2>1, <2>2, <2>3, <3>2 DEF States
    <3>3. CASE d # c /\ d \notin archived
      BY <2>2, <2>3, <3>3
    <3> QED
      BY <3>1, <3>2, <3>3
  <2>5. cand' \in [Candidates -> [state : States \cup {"absent"},
                                  experiment : Experiments \cup {None}]]
    BY <2>2, <2>4
  <2>6. UNCHANGED <<latest, evidence, session>>
    BY <1>5 DEF WritePromotion
  <2> QED
    BY <1>1, <1>3, <1>5, <2>3, <2>4, <2>5, <2>6, WritingRows DEF TypeOK, evidence, session
<1> QED
  BY <1>2, <1>4, <1>5

\* What is stored of experiments and runs, and the live session.
LEMMA EvidenceRows ==
  ASSUME RowsInv,
         \/ StopLive
         \/ \E e \in Experiments, r \in Revisions :
              CreateExperiment(e, r) \/ StartRun(e, r) \/ LoseJob(e, r)
         \/ \E e \in Experiments, r \in Revisions, enough \in BOOLEAN : CompleteRun(e, r, enough)
  PROVE  RowsInv'
<1>1. TypeOK
  BY DEF RowsInv
<1>2. ASSUME NEW W, Commit(None, W)
      PROVE  stale' \subseteq Sessions /\ dirty' \in BOOLEAN
  BY <1>2, CommitTyped
<1>3. CASE StopLive
  <2>1. /\ live' \in [running : BOOLEAN, experiment : Experiments \cup {None},
                      revision : Revisions \cup {None}]
        /\ UNCHANGED <<rows, evidence, passed, req>>
        /\ stale' \subseteq Sessions /\ dirty' \in BOOLEAN
    BY <1>1, <1>2, <1>3 DEF StopLive, TypeOK
  <2> QED
    BY <1>1, <2>1, WritingRows DEF TypeOK, rows, evidence, session
<1>4. ASSUME NEW e \in Experiments, NEW r \in Revisions, CreateExperiment(e, r)
      PROVE  RowsInv'
  <2>1. /\ experiment' \in [Experiments -> [status : {"absent", "running", "completed", "deleted"},
                                            revision : Revisions \cup {None}]]
        /\ UNCHANGED <<rows, run, jobs, backtested, session, req>>
        /\ stale' \subseteq Sessions /\ dirty' \in BOOLEAN
    BY <1>1, <1>2, <1>4 DEF CreateExperiment, TypeOK
  <2> QED
    BY <1>1, <2>1, WritingRows DEF TypeOK, rows, session
<1>5. ASSUME NEW e \in Experiments, NEW r \in Revisions, StartRun(e, r)
      PROVE  RowsInv'
  <2>1. /\ run' \in [Experiments -> [status : {"none", "running", "completed", "short"},
                                     revision : Revisions \cup {None}]]
        /\ jobs' \subseteq Experiments \X Revisions
        /\ UNCHANGED <<rows, experiment, backtested, session, req>>
        /\ stale' \subseteq Sessions /\ dirty' \in BOOLEAN
    BY <1>1, <1>2, <1>5 DEF StartRun, TypeOK
  <2> QED
    BY <1>1, <2>1, WritingRows DEF TypeOK, rows, session
<1>6. ASSUME NEW e \in Experiments, NEW r \in Revisions, LoseJob(e, r)
      PROVE  RowsInv'
  <2>1. /\ jobs' \subseteq Experiments \X Revisions
        /\ UNCHANGED <<rows, experiment, run, backtested, session, req, history>>
    BY <1>1, <1>6 DEF LoseJob, TypeOK
  <2> QED
    BY <1>1, <2>1, WritingRows DEF TypeOK, rows, history, session
<1>7. ASSUME NEW e \in Experiments, NEW r \in Revisions, NEW enough \in BOOLEAN,
             CompleteRun(e, r, enough)
      PROVE  RowsInv'
  <2>1. /\ jobs' \subseteq Experiments \X Revisions
        /\ backtested' \subseteq Revisions
        /\ UNCHANGED <<rows, session, req>>
        /\ stale' \subseteq Sessions /\ dirty' \in BOOLEAN
    BY <1>1, <1>2, <1>7 DEF CompleteRun, TypeOK
  <2>2. \/ UNCHANGED <<run, experiment>>
        \/ /\ run' = [run EXCEPT ![e].status = IF enough THEN "completed" ELSE "short"]
           /\ experiment' \in {experiment, [experiment EXCEPT ![e].status = "completed"]}
    BY <1>7 DEF CompleteRun
  <2>3. /\ run' \in [Experiments -> [status : {"none", "running", "completed", "short"},
                                     revision : Revisions \cup {None}]]
        /\ experiment' \in [Experiments -> [status : {"absent", "running", "completed", "deleted"},
                                            revision : Revisions \cup {None}]]
    <3>1. /\ run \in [Experiments -> [status : {"none", "running", "completed", "short"},
                                      revision : Revisions \cup {None}]]
          /\ experiment \in [Experiments -> [status : {"absent", "running", "completed", "deleted"},
                                             revision : Revisions \cup {None}]]
      BY <1>1 DEF TypeOK
    <3>2. run' \in [Experiments -> [status : {"none", "running", "completed", "short"},
                                    revision : Revisions \cup {None}]]
      <4>1. run' = run \/ run' = [run EXCEPT ![e].status = IF enough THEN "completed" ELSE "short"]
        BY <2>2
      <4> QED
        BY <3>1, <4>1
    <3>3. experiment' \in [Experiments -> [status : {"absent", "running", "completed", "deleted"},
                                           revision : Revisions \cup {None}]]
      <4>1. experiment' = experiment \/ experiment' = [experiment EXCEPT ![e].status = "completed"]
        BY <2>2
      <4>2. ASSUME NEW f, f = [experiment EXCEPT ![e].status = "completed"]
            PROVE  f \in [Experiments -> [status : {"absent", "running", "completed", "deleted"},
                                          revision : Revisions \cup {None}]]
        BY <3>1, <4>2
      <4> QED
        BY <3>1, <4>1, <4>2
    <3> QED
      BY <3>2, <3>3
  <2> QED
    BY <1>1, <2>1, <2>3, WritingRows DEF TypeOK, rows, session
<1> QED
  BY <1>3, <1>4, <1>5, <1>6, <1>7

LEMMA FinishRows ==
  ASSUME RowsInv, NEW s \in Sessions, FinishDelete(s) \/ FinishStart(s)
  PROVE  RowsInv'
<1>1. TypeOK /\ KindInv
  BY DEF RowsInv
<1>2. /\ req' \in [Sessions -> Request]
      /\ \A t \in Sessions : req'[t] = req[t] \/ req'[t] = Closed
      /\ stale' \subseteq Sessions /\ dirty' \in BOOLEAN
  <2>1. Close(s) /\ \E W : Commit(s, W)
    BY DEF FinishDelete, FinishStart
  <2> QED
    BY <1>1, <2>1, CommitTyped, ClosedFormed DEF Close, TypeOK
<1>3. CASE FinishDelete(s)
  <2>1. /\ experiment' \in [Experiments -> [status : {"absent", "running", "completed", "deleted"},
                                            revision : Revisions \cup {None}]]
        /\ run' \in [Experiments -> [status : {"none", "running", "completed", "short"},
                                     revision : Revisions \cup {None}]]
    <3> DEFINE gone == {e \in req[s].ids : experiment[e].status # "absent"}
    <3>1. /\ experiment' = [e \in Experiments |->
                              IF e \in gone THEN [experiment[e] EXCEPT !.status = "deleted"]
                              ELSE experiment[e]]
          /\ run' = [e \in Experiments |-> IF e \in gone THEN NoRun ELSE run[e]]
      BY <1>3 DEF FinishDelete
    <3> HIDE DEF gone
    <3>2. NoRun \in [status : {"none", "running", "completed", "short"},
                     revision : Revisions \cup {None}]
      BY DEF NoRun
    <3>3. /\ experiment \in [Experiments -> [status : {"absent", "running", "completed", "deleted"},
                                             revision : Revisions \cup {None}]]
          /\ run \in [Experiments -> [status : {"none", "running", "completed", "short"},
                                      revision : Revisions \cup {None}]]
      BY <1>1 DEF TypeOK
    <3>4. \A e \in Experiments :
            [experiment[e] EXCEPT !.status = "deleted"]
              \in [status : {"absent", "running", "completed", "deleted"},
                   revision : Revisions \cup {None}]
      BY <3>3
    <3> QED
      BY <3>1, <3>2, <3>3, <3>4
  <2>2. UNCHANGED <<rows, jobs, backtested, session>>
    BY <1>3 DEF FinishDelete
  <2> QED
    BY <1>1, <1>2, <2>1, <2>2, WritingRows DEF TypeOK, rows, session
<1>4. CASE FinishStart(s)
  <2>1. req[s].target \in Experiments \cup {None} /\ req[s].revision \in Revisions \cup {None}
    BY <1>1, <1>4 DEF FinishStart, KindInv, Formed, TypeOK, Request
  <2>2. live' \in [running : BOOLEAN, experiment : Experiments \cup {None},
                   revision : Revisions \cup {None}]
    BY <1>1, <1>4, <2>1 DEF FinishStart, TypeOK
  <2>3. UNCHANGED <<rows, evidence>> /\ passed' \subseteq Revisions
    BY <1>1, <1>4, <2>1 DEF FinishStart, Governed, TypeOK
  <2> QED
    BY <1>1, <1>2, <2>2, <2>3, WritingRows DEF TypeOK, rows, evidence, session
<1> QED
  BY <1>3, <1>4

\* A session that set_mode ends and one it starts again.
LEMMA SwitchRows ==
  ASSUME RowsInv, NEW s \in Sessions, BeginSwitch(s) \/ FinishSwitch(s) \/ FailSwitch(s)
  PROVE  RowsInv'
<1>1. TypeOK /\ LoadedInv
  BY DEF RowsInv
<1>2. CASE FailSwitch(s)
  BY <1>2, RefuseRows DEF FailSwitch
<1>3. ASSUME BeginSwitch(s) \/ FinishSwitch(s)
      PROVE  /\ live' \in [running : BOOLEAN, experiment : Experiments \cup {None},
                           revision : Revisions \cup {None}]
             /\ UNCHANGED <<rows, evidence, passed>>
             /\ stale' \subseteq Sessions /\ dirty' \in BOOLEAN
  BY <1>1, <1>3, CommitTyped DEF BeginSwitch, FinishSwitch, TypeOK
<1>4. ASSUME NEW q \in Request, Formed(q), q.kind \in {"none", "mode"},
             BeginSwitch(s) \/ FinishSwitch(s), req' = [req EXCEPT ![s] = q]
      PROVE  RowsInv'
  <2>1. /\ req' \in [Sessions -> Request]
        /\ KindInv'
        /\ req'[s] = q
        /\ \A t \in Sessions : t # s => req'[t] = req[t]
    BY <1>4, RequestsKept
  <2>2. TypeOK'
    BY <1>1, <1>3, <1>4, <2>1 DEF TypeOK, rows, evidence
  <2>3. LoadedInv'
    BY <1>1, <1>3, <1>4, <2>1 DEF LoadedInv, rows
  <2> QED
    BY <2>1, <2>2, <2>3 DEF RowsInv
<1>5. CASE BeginSwitch(s)
  <2> DEFINE q == [Closed EXCEPT !.pc = "restart", !.kind = "mode"]
  <2>1. q \in Request /\ Formed(q) /\ q.kind = "mode"
    BY DEF Closed, Request, Formed
  <2>2. req' = [req EXCEPT ![s] = q]
    BY <1>5 DEF BeginSwitch, Open
  <2> HIDE DEF q
  <2> QED
    BY <1>4, <1>5, <2>1, <2>2
<1>6. CASE FinishSwitch(s)
  <2>1. Closed \in Request /\ Formed(Closed) /\ Closed.kind = "none"
    BY ClosedFormed DEF Closed
  <2>2. req' = [req EXCEPT ![s] = Closed]
    BY <1>6 DEF FinishSwitch, Close
  <2> QED
    BY <1>4, <1>6, <2>1, <2>2
<1> QED
  BY <1>2, <1>5, <1>6

\* Every step keeps the rows and the requests what they are.
LEMMA NextRows == RowsInv /\ [Next]_vars => RowsInv'
<1> SUFFICES ASSUME RowsInv, [Next]_vars PROVE RowsInv'
  OBVIOUS
<1>1. CASE UNCHANGED vars
  <2>1. UNCHANGED <<cand, latest, experiment, run, jobs, backtested, live, passed, req, stale, dirty>>
    BY <1>1 DEF vars, rows, evidence, history, session
  <2> QED
    BY <2>1 DEF RowsInv, TypeOK, KindInv, LoadedInv
<1>2. CASE Next
  BY <1>2, BeginRows, LookRows, CandidateRows, EvidenceRows, FinishRows, SwitchRows DEF Next
<1> QED
  BY <1>1, <1>2

-----------------------------------------------------------------------------
(* What a request has read holds until somebody writes over it.            *)

\* What a step may do to the rows outside W.
Spares(W) ==
  /\ \A d \in Candidates \ W : cand'[d] = cand[d] /\ latest'[d] = latest[d]
  /\ \A e \in Experiments \ W :
       /\ experiment'[e] = experiment[e]
       /\ run[e].status = "completed" => run'[e] = run[e]
  /\ backtested \subseteq backtested'
  /\ "live" \notin W => live' = live

\* A request that reads none of the rows written relies on what it did.
LEMMA ReadsKept ==
  ASSUME RowsInv, NEW t \in Sessions, ReadsHold(t), req'[t] = req[t],
         NEW W, Reads(t) \cap W = {}, Spares(W)
  PROVE  ReadsHold(t)'
<1>1. Formed(req[t])
  BY DEF RowsInv, KindInv
<1>2. PromoteHolds(t)'
  <2> SUFFICES ASSUME req[t].kind = "promote", req[t].to \in {"challenger", "champion"}
               PROVE  /\ cand'[req[t].target].state \in {"candidate", "challenger"}
                      /\ req[t].pc \in {"champions", "write"} => Accepted(latest'[req[t].target])
                      /\ req[t].to = "champion" /\ req[t].pc = "write"
                           => Champions' \subseteq req[t].ids
    BY DEF PromoteHolds, Accepted, OutOfSample, MinimumSample, FoldStability, RegimeConcentration
  <2>1. req[t].target \in Candidates
    BY <1>1 DEF Formed
  <2>2. req[t].target \in Reads(t)
    BY <2>1 DEF Reads
  <2>3. cand'[req[t].target] = cand[req[t].target] /\ latest'[req[t].target] = latest[req[t].target]
    BY <2>1, <2>2 DEF Spares
  <2>4. /\ cand[req[t].target].state \in {"candidate", "challenger"}
        /\ req[t].pc \in {"champions", "write"} => Accepted(latest[req[t].target])
        /\ req[t].to = "champion" /\ req[t].pc = "write" => Champions \subseteq req[t].ids
    BY DEF ReadsHold, PromoteHolds
  <2>5. ASSUME req[t].to = "champion", req[t].pc = "write"
        PROVE  Champions' \subseteq req[t].ids
    <3>1. Reads(t) = Candidates
      BY <2>5 DEF Reads
    <3>2. \A d \in Candidates : cand'[d] = cand[d]
      BY <3>1 DEF Spares
    <3>3. Champions' = Champions
      BY <3>2 DEF Champions
    <3> QED
      BY <2>4, <2>5, <3>3
  <2> QED
    BY <2>3, <2>4, <2>5
<1>3. StartHolds(t)'
  <2> SUFFICES ASSUME Production, req[t].kind = "start"
               PROVE  /\ req[t].revision # None
                      /\ req[t].pc \in {"lineage", "champion", "go"}
                           => HasSuccessfulValidation(req[t].revision)'
                      /\ req[t].pc = "go" /\ RequireChampion /\ HasLineage(req[t].revision)'
                           => HasChampion(req[t].revision)'
    BY DEF StartHolds, HasSuccessfulValidation, HasLineage, HasChampion
  <2>1. Reads(t) = Candidates \cup Experiments
    BY DEF Reads
  <2>2. /\ \A d \in Candidates : cand'[d] = cand[d]
        /\ \A e \in Experiments : /\ experiment'[e] = experiment[e]
                                  /\ run[e].status = "completed" => run'[e] = run[e]
        /\ backtested \subseteq backtested'
    BY <2>1 DEF Spares
  <2> DEFINE r == req[t].revision
  <2>3. HasSuccessfulValidation(r) => HasSuccessfulValidation(req[t].revision)'
    BY <2>2 DEF HasSuccessfulValidation
  <2>4. \A d \in Candidates : OfRevision(d, req[t].revision)' <=> OfRevision(d, r)
    BY <2>2 DEF OfRevision, Exists
  <2>5. /\ HasLineage(req[t].revision)' <=> HasLineage(r)
        /\ HasChampion(req[t].revision)' <=> HasChampion(r)
    BY <2>2, <2>4 DEF HasLineage, HasChampion, Champions
  <2> QED
    BY <2>3, <2>5 DEF ReadsHold, StartHolds
<1>4. DeleteHolds(t)'
  <2>1. req[t].kind = "delete" => Reads(t) = {"live"}
    BY DEF Reads
  <2>2. req[t].kind = "delete" => live' = live
    BY <2>1 DEF Spares
  <2> QED
    BY <2>2 DEF ReadsHold, DeleteHolds
<1> QED
  BY <1>2, <1>3, <1>4 DEF ReadsHold

\* A request that is closed relies on nothing.
LEMMA ClosedHolds ==
  ASSUME NEW t, req'[t] = Closed
  PROVE  ReadsHold(t)'
<1>1. Closed.kind = "none"
  BY DEF Closed
<1> QED
  BY <1>1 DEF ReadsHold, PromoteHolds, StartHolds, DeleteHolds

\* So does everybody when a request commits.
LEMMA CommitReads ==
  ASSUME RowsInv, \A t \in Sessions \ stale : ReadsHold(t),
         NEW s \in Sessions \cup {None}, NEW W, Commit(s, W), Spares(W),
         \A t \in Sessions : t # s => req'[t] = req[t],
         s \in Sessions => req'[s] = Closed
  PROVE  \A t \in Sessions \ stale' : ReadsHold(t)'
<1> SUFFICES ASSUME NEW t \in Sessions, t \notin stale' PROVE ReadsHold(t)'
  OBVIOUS
<1>1. CASE t = s
  BY <1>1, ClosedHolds
<1>2. CASE t # s
  <2>1. t \notin stale /\ Reads(t) \cap W = {}
    BY <1>2 DEF Commit
  <2>2. req'[t] = req[t] /\ ReadsHold(t)
    BY <1>2, <2>1
  <2> QED
    BY <2>1, <2>2, ReadsKept
<1> QED
  BY <1>1, <1>2

\* A step that writes nothing leaves the others what they read.
LEMMA LookReads ==
  ASSUME RowsInv, \A t \in Sessions \ stale : ReadsHold(t), NEW s \in Sessions,
         UNCHANGED <<rows, evidence, session>>,
         \A t \in Sessions : t # s => req'[t] = req[t],
         stale' = stale \/ stale' = stale \ {s},
         s \notin stale' => ReadsHold(s)'
  PROVE  \A t \in Sessions \ stale' : ReadsHold(t)'
<1> SUFFICES ASSUME NEW t \in Sessions, t \notin stale', t # s PROVE ReadsHold(t)'
  OBVIOUS
<1>1. ReadsHold(t) /\ req'[t] = req[t]
  OBVIOUS
<1>2. Spares({})
  BY DEF Spares, rows, evidence, session
<1>3. Reads(t) \cap {} = {}
  OBVIOUS
<1> QED
  BY <1>1, <1>2, <1>3, ReadsKept

-----------------------------------------------------------------------------
(* Without stale writes, whoever is champion has earned it.                *)

\* The steps that write nothing of the candidates keep who has earned what.
LEMMA EarnedKept ==
  ASSUME RowsInv, RejectedInv, EarnedInv, UNCHANGED rows,
         \A t \in Sessions : req'[t] = req[t] \/ ~(req'[t].kind = "evaluate" /\ req'[t].to = "rejected")
  PROVE  RejectedInv' /\ EarnedInv'
<1>1. cand' = cand /\ latest' = latest
  BY DEF rows, session
<1>2. EarnedInv'
  BY <1>1 DEF EarnedInv, Champions, Accepted, OutOfSample, MinimumSample, FoldStability, RegimeConcentration
<1> QED
  BY <1>1, <1>2 DEF RejectedInv

\* A request that begins has read what it relies on.
LEMMA BeginFresh ==
  ASSUME RowsInv, FreshInv, NEW s \in Sessions,
         \/ \E c \in Candidates, result \in Results : BeginEvaluate(s, c, result)
         \/ \E c \in Candidates, to \in Promotions : BeginPromote(s, c, to)
         \/ \E ids \in SUBSET Experiments : BeginDelete(s, ids)
         \/ \E e \in Experiments \cup {None}, r \in Revisions \cup {None} : BeginStart(s, e, r)
  PROVE  FreshInv'
<1>1. req \in [Sessions -> Request] /\ live \in [running : BOOLEAN, experiment : Experiments \cup {None},
                                                 revision : Revisions \cup {None}]
  BY DEF RowsInv, TypeOK
<1>2. /\ \A t \in Sessions \ stale : ReadsHold(t)
      /\ RejectedInv /\ EarnedInv
  BY DEF FreshInv
<1>3. /\ UNCHANGED <<rows, evidence, session, history>>
      /\ \E q : req' = [req EXCEPT ![s] = q]
  BY DEF BeginEvaluate, BeginPromote, BeginDelete, BeginStart, Open
<1>4. \A t \in Sessions : t # s => req'[t] = req[t]
  BY <1>1, <1>3
<1>5. ReadsHold(s)' /\ (req'[s].kind = "evaluate" /\ req'[s].to = "rejected" =>
                          cand[req'[s].target].state = "rejected")
  <2>1. ASSUME NEW c \in Candidates, NEW result \in Results, BeginEvaluate(s, c, result)
        PROVE  /\ req'[s].kind = "evaluate" /\ req'[s].target = c
               /\ req'[s].to = "rejected" => cand[c].state = "rejected"
    BY <1>1, <2>1 DEF BeginEvaluate, Open, Closed
  <2>2. ASSUME NEW c \in Candidates, NEW to \in Promotions, BeginPromote(s, c, to)
        PROVE  req'[s].kind = "promote" /\ PromoteHolds(s)'
    <3>1. /\ req'[s].kind = "promote" /\ req'[s].target = c /\ req'[s].to = to
          /\ to \in {"challenger", "champion"} => req'[s].pc = "verdict"
      BY <1>1, <2>2 DEF BeginPromote, Open, Closed
    <3>2. to \in {"challenger", "champion"} => cand[c].state \in {"candidate", "challenger"}
      BY <2>2 DEF BeginPromote, ValidTransitions
    <3>3. cand' = cand
      BY <1>3 DEF rows, session
    <3> QED
      BY <3>1, <3>2, <3>3 DEF PromoteHolds
  <2>3. ASSUME NEW ids \in SUBSET Experiments, BeginDelete(s, ids)
        PROVE  req'[s].kind = "delete" /\ DeleteHolds(s)'
    <3>1. req'[s].kind = "delete" /\ req'[s].ids = ids \ ActiveExperiment
      BY <1>1, <2>3 DEF BeginDelete, Open, Closed
    <3> QED
      BY <1>3, <3>1 DEF DeleteHolds, ActiveExperiment, session
  <2>4. ASSUME NEW e \in Experiments \cup {None}, NEW r \in Revisions \cup {None},
               BeginStart(s, e, r)
        PROVE  req'[s].kind = "start" /\ StartHolds(s)'
    <3>1. /\ req'[s].kind = "start" /\ req'[s].revision = r
          /\ Production => req'[s].pc = "validated" /\ r # None
      BY <1>1, <2>4 DEF BeginStart, Open, Closed
    <3> QED
      BY <3>1 DEF StartHolds
  <2> QED
    BY <2>1, <2>2, <2>3, <2>4 DEF ReadsHold, PromoteHolds, StartHolds, DeleteHolds
<1>6. \A t \in Sessions \ stale' : ReadsHold(t)'
  BY <1>2, <1>3, <1>4, <1>5, LookReads DEF history, session
<1>7. EarnedInv'
  BY <1>2, <1>3 DEF EarnedInv, Champions, Accepted, OutOfSample, MinimumSample, FoldStability,
                    RegimeConcentration, rows, session
<1>8. RejectedInv'
  BY <1>2, <1>3, <1>4, <1>5 DEF RejectedInv, rows, session
<1> QED
  BY <1>6, <1>7, <1>8 DEF FreshInv

\* A request that is refused relies on nothing any more.
LEMMA RefuseFresh ==
  ASSUME RowsInv, FreshInv, NEW s \in Sessions, Refuse(s)
  PROVE  FreshInv'
<1>1. req \in [Sessions -> Request] /\ Closed.kind = "none"
  BY DEF RowsInv, TypeOK, Closed
<1>2. /\ \A t \in Sessions \ stale : ReadsHold(t)
      /\ RejectedInv /\ EarnedInv
  BY DEF FreshInv
<1>3. /\ req'[s] = Closed /\ \A t \in Sessions : t # s => req'[t] = req[t]
      /\ UNCHANGED <<rows, evidence, session, dirty>> /\ stale' = stale \ {s}
  BY <1>1 DEF Refuse, Close
<1>4. \A t \in Sessions \ stale' : ReadsHold(t)'
  BY <1>2, <1>3, LookReads, ClosedHolds
<1>5. \A t \in Sessions : req'[t] = req[t] \/ ~(req'[t].kind = "evaluate" /\ req'[t].to = "rejected")
  BY <1>1, <1>3
<1> QED
  BY <1>2, <1>3, <1>4, <1>5, EarnedKept DEF FreshInv

\* One that looks relies on what it finds.
LEMMA LookFresh ==
  ASSUME RowsInv, FreshInv, NEW s \in Sessions,
         \/ CheckVerdict(s) \/ ReadChampions(s)
         \/ CheckValidated(s) \/ CheckLineage(s) \/ CheckChampion(s)
  PROVE  FreshInv'
<1>1. req \in [Sessions -> Request] /\ Formed(req[s])
  BY DEF RowsInv, TypeOK, KindInv
<1>2. /\ \A t \in Sessions \ stale : ReadsHold(t)
      /\ RejectedInv /\ EarnedInv
  BY DEF FreshInv
<1>3. CASE Refuse(s)
  BY <1>3, RefuseFresh
<1>4. ASSUME ~Refuse(s)
      PROVE  /\ UNCHANGED <<rows, evidence, session, history>>
             /\ \A t \in Sessions : t # s => req'[t] = req[t]
             /\ req'[s].kind = req[s].kind /\ req'[s].target = req[s].target
             /\ req'[s].to = req[s].to /\ req'[s].revision = req[s].revision
             /\ req[s].kind \in {"promote", "start"}
  <2>1. CASE ReadChampions(s)
    BY <1>1, <2>1 DEF ReadChampions, Formed, Request
  <2>2. CASE ~ReadChampions(s)
    <3>1. PICK pc \in {"champions", "write", "lineage", "champion", "go"} : Proceed(s, pc)
      BY <1>4, <2>2 DEF CheckVerdict, CheckValidated, CheckLineage, CheckChampion
    <3>2. req[s].kind \in {"promote", "start"}
      BY <1>1, <2>2 DEF CheckVerdict, CheckValidated, CheckLineage, CheckChampion, Formed
    <3> QED
      BY <1>1, <3>1, <3>2 DEF Proceed, Request
  <2> QED
    BY <2>1, <2>2
<1>5. ASSUME ~Refuse(s), s \notin stale
      PROVE  ReadsHold(s)'
  <2>1. ReadsHold(s)
    BY <1>2, <1>5
  <2>2. cand' = cand /\ latest' = latest /\ experiment' = experiment /\ run' = run /\ backtested' = backtested
    BY <1>4, <1>5 DEF rows, evidence, session
  <2>3. CASE CheckVerdict(s)
    <3>1. /\ req[s].kind = "promote"
          /\ Accepted(latest[req[s].target])
          /\ Proceed(s, IF req[s].to = "champion" THEN "champions" ELSE "write")
      BY <1>1, <1>5, <2>3 DEF CheckVerdict, Formed
    <3>2. req'[s].pc = "write" => req[s].to # "champion"
      BY <1>1, <3>1 DEF Proceed, Request
    <3> QED
      BY <1>4, <1>5, <2>1, <2>2, <3>1, <3>2
      DEF ReadsHold, PromoteHolds, StartHolds, DeleteHolds, Accepted, OutOfSample, MinimumSample,
          FoldStability, RegimeConcentration
  <2>4. CASE ReadChampions(s)
    <3>1. /\ req[s].kind = "promote" /\ req[s].to = "champion" /\ req[s].pc = "champions"
          /\ req'[s].ids = Champions \ {req[s].target}
      BY <1>1, <2>4 DEF ReadChampions, Formed, Request
    <3>2. /\ cand[req[s].target].state \in {"candidate", "challenger"}
          /\ Accepted(latest[req[s].target])
      BY <2>1, <3>1 DEF ReadsHold, PromoteHolds
    <3>3. Champions \subseteq req'[s].ids
      BY <3>1, <3>2 DEF Champions
    <3>4. Champions' = Champions
      BY <2>2 DEF Champions
    <3> QED
      BY <1>4, <1>5, <2>2, <3>1, <3>2, <3>3, <3>4
      DEF ReadsHold, PromoteHolds, StartHolds, DeleteHolds, Accepted, OutOfSample, MinimumSample,
          FoldStability, RegimeConcentration
  <2>5. CASE CheckValidated(s) \/ CheckLineage(s) \/ CheckChampion(s)
    <3>1. req[s].kind = "start"
      BY <1>1, <2>5 DEF CheckValidated, CheckLineage, CheckChampion, Formed
    <3> DEFINE r == req[s].revision
    <3>2. Production =>
            /\ r # None
            /\ req[s].pc \in {"lineage", "champion", "go"} => HasSuccessfulValidation(r)
      BY <2>1, <3>1 DEF ReadsHold, StartHolds
    <3>3. Production => HasSuccessfulValidation(r)
      BY <1>5, <2>5, <3>2 DEF CheckValidated, CheckLineage, CheckChampion
    <3>4. req'[s].pc = "go" /\ RequireChampion /\ HasLineage(r) => HasChampion(r)
      <4>1. CASE CheckValidated(s)
        BY <1>1, <1>5, <4>1 DEF CheckValidated, Proceed, Request
      <4>2. CASE CheckLineage(s)
        BY <1>1, <1>5, <4>2 DEF CheckLineage, Proceed, Request
      <4>3. CASE CheckChampion(s)
        BY <1>1, <1>5, <4>3 DEF CheckChampion, Proceed, Request
      <4> QED
        BY <2>5, <4>1, <4>2, <4>3
    <3>5. /\ HasSuccessfulValidation(req[s].revision)' <=> HasSuccessfulValidation(r)
          /\ HasLineage(req[s].revision)' <=> HasLineage(req'[s].revision)
          /\ HasChampion(req[s].revision)' <=> HasChampion(req'[s].revision)
      BY <1>4, <1>5, <2>2 DEF HasSuccessfulValidation, HasLineage, HasChampion, OfRevision, Exists, Champions
    <3> QED
      BY <1>4, <1>5, <3>1, <3>2, <3>3, <3>4, <3>5 DEF ReadsHold, PromoteHolds, StartHolds, DeleteHolds
  <2> QED
    BY <2>3, <2>4, <2>5
<1>6. ASSUME ~Refuse(s) PROVE FreshInv'
  <2>1. \A t \in Sessions \ stale' : ReadsHold(t)'
    BY <1>2, <1>4, <1>5, <1>6, LookReads DEF history, session
  <2>2. \A t \in Sessions : req'[t] = req[t] \/ ~(req'[t].kind = "evaluate" /\ req'[t].to = "rejected")
    BY <1>4, <1>6
  <2> QED
    BY <1>2, <1>4, <1>6, <2>1, <2>2, EarnedKept DEF FreshInv
<1> QED
  BY <1>3, <1>6

\* A candidate that is made is no champion yet.
LEMMA CreateFresh ==
  ASSUME RowsInv, FreshInv, NEW c \in Candidates, NEW e \in Experiments, CreateCandidate(c, e)
  PROVE  FreshInv'
<1>1. /\ \A t \in Sessions \ stale : ReadsHold(t)
      /\ RejectedInv /\ EarnedInv
  BY DEF FreshInv
<1>2. /\ cand[c].state = "absent" /\ cand'[c].state = "candidate"
      /\ \A d \in Candidates \ {c} : cand'[d] = cand[d]
  BY DEF CreateCandidate, Absent, RowsInv, TypeOK
<1>3. UNCHANGED <<latest, evidence, session, req>> /\ Commit(None, {c})
  BY DEF CreateCandidate
<1>4. Spares({c})
  BY <1>2, <1>3, GovernanceAssumption DEF Spares, evidence, session
<1>5. \A t \in Sessions \ stale' : ReadsHold(t)'
  BY <1>1, <1>3, <1>4, CommitReads, GovernanceAssumption
<1>6. RejectedInv'
  <2>1. ASSUME NEW t \in Sessions, req[t].kind = "evaluate", req[t].to = "rejected"
        PROVE  cand'[req[t].target].state \in {"rejected", "archived"}
    <3>1. req[t].target \in Candidates
      BY <2>1 DEF RowsInv, KindInv, Formed
    <3>2. cand[req[t].target].state \in {"rejected", "archived"}
      BY <1>1, <2>1 DEF RejectedInv
    <3> QED
      BY <1>2, <3>1, <3>2
  <2> QED
    BY <1>3, <2>1 DEF RejectedInv
<1>7. EarnedInv'
  <2>1. Champions' = Champions
    BY <1>2 DEF Champions
  <2>2. \A d \in Candidates : cand'[d].state \in {"challenger", "champion"} =>
          cand[d].state \in {"challenger", "champion"}
    BY <1>2
  <2> QED
    BY <1>1, <1>3, <2>1, <2>2 DEF EarnedInv, Accepted, OutOfSample, MinimumSample, FoldStability, RegimeConcentration
<1> QED
  BY <1>5, <1>6, <1>7 DEF FreshInv

\* The session that commits is closed, and no other is touched.
LEMMA CloseApart ==
  ASSUME RowsInv, NEW s \in Sessions, Close(s)
  PROVE  /\ req'[s] = Closed
         /\ \A t \in Sessions : t # s => req'[t] = req[t]
BY DEF RowsInv, TypeOK, Close

\* An evaluation that fails takes away what it no longer supports, and one that
\* passes supports whatever there is.
LEMMA EvaluateFresh ==
  ASSUME RowsInv, FreshInv, NEW s \in Sessions, FinishEvaluate(s)
  PROVE  FreshInv'
<1> DEFINE c == req[s].target
           result == req[s].result
<1>1. /\ \A t \in Sessions \ stale : ReadsHold(t)
      /\ RejectedInv /\ EarnedInv
  BY DEF FreshInv
<1>2. /\ req[s].kind = "evaluate" /\ c \in Candidates
      /\ cand \in [Candidates -> [state : States \cup {"absent"}, experiment : Experiments \cup {None}]]
      /\ latest \in [Candidates -> Results \cup {None}]
  BY DEF FinishEvaluate, RowsInv, KindInv, Formed, TypeOK
<1>3. /\ UNCHANGED <<evidence, session>> /\ Commit(s, {c})
      /\ req'[s] = Closed /\ \A t \in Sessions : t # s => req'[t] = req[t]
  BY CloseApart DEF FinishEvaluate
<1>4. /\ \A d \in Candidates \ {c} : cand'[d] = cand[d] /\ latest'[d] = latest[d]
      /\ latest'[c] = result
      /\ cand'[c].state \in {cand[c].state, "rejected"}
      /\ ~Accepted(result) /\ req[s].to # "rejected" => cand'[c].state = "rejected"
  BY <1>2 DEF FinishEvaluate
<1> HIDE DEF c, result
<1>5. Spares({c})
  BY <1>2, <1>3, <1>4, GovernanceAssumption DEF Spares, evidence, session
<1>6. \A t \in Sessions \ stale' : ReadsHold(t)'
  BY <1>1, <1>3, <1>5, CommitReads
<1>7. RejectedInv'
  <2>1. ASSUME NEW t \in Sessions, req'[t].kind = "evaluate", req'[t].to = "rejected"
        PROVE  cand'[req'[t].target].state \in {"rejected", "archived"}
    <3>1. t # s
      BY <1>3, <2>1 DEF Closed
    <3>2. /\ req'[t] = req[t]
          /\ req[t].target \in Candidates
          /\ cand[req[t].target].state \in {"rejected", "archived"}
      BY <1>1, <1>3, <2>1, <3>1 DEF RowsInv, KindInv, Formed, RejectedInv
    <3> QED
      BY <1>4, <3>2
  <2> QED
    BY <2>1 DEF RejectedInv
<1>8. EarnedInv'
  <2>1. Champions' \subseteq Champions
    BY <1>2, <1>4 DEF Champions
  <2>2. ASSUME NEW d \in Candidates, cand'[d].state \in {"challenger", "champion"}
        PROVE  Accepted(latest'[d])
    <3>1. CASE d = c
      <4>1. cand[c].state \in {"challenger", "champion"}
        BY <1>4, <2>2, <3>1
      <4>2. req[s].to # "rejected"
        BY <1>1, <1>2, <4>1 DEF RejectedInv, c
      <4> QED
        BY <1>4, <2>2, <3>1, <4>2
    <3>2. CASE d # c
      BY <1>1, <1>4, <2>2, <3>2 DEF EarnedInv
    <3> QED
      BY <3>1, <3>2
  <2> QED
    BY <1>1, <2>1, <2>2 DEF EarnedInv, Accepted, OutOfSample, MinimumSample, FoldStability, RegimeConcentration
<1> QED
  BY <1>6, <1>7, <1>8 DEF FreshInv

\* A promotion that nobody has overtaken makes a champion that has earned it
\* of the one candidate, and archives all the others.
LEMMA PromotionFresh ==
  ASSUME RowsInv, FreshInv, NEW s \in Sessions, WritePromotion(s), s \notin stale
  PROVE  FreshInv'
<1> DEFINE c == req[s].target
           to == req[s].to
           archived == req[s].ids
<1>1. /\ \A t \in Sessions \ stale : ReadsHold(t)
      /\ RejectedInv /\ EarnedInv
  BY DEF FreshInv
<1>2. /\ req[s].kind = "promote" /\ req[s].pc = "write" /\ c \in Candidates
      /\ to \in {"challenger", "champion", "rejected", "archived"}
      /\ archived \subseteq Candidates \ {c}
  BY DEF WritePromotion, RowsInv, KindInv, Formed
<1>3. /\ UNCHANGED <<latest, evidence, session>> /\ Commit(s, {c} \cup archived)
      /\ req'[s] = Closed /\ \A t \in Sessions : t # s => req'[t] = req[t]
  BY CloseApart DEF WritePromotion, Archive
<1>4. to \in {"challenger", "champion"} =>
        /\ cand[c].state \in {"candidate", "challenger"}
        /\ Accepted(latest[c])
        /\ to = "champion" => Champions \subseteq archived
  BY <1>1, <1>2 DEF ReadsHold, PromoteHolds
<1>5. /\ cand \in [Candidates -> [state : States \cup {"absent"}, experiment : Experiments \cup {None}]]
      /\ cand' = [d \in Candidates |->
                    IF d = c THEN [cand[d] EXCEPT !.state = to]
                    ELSE IF d \in archived THEN [cand[d] EXCEPT !.state = "archived"]
                    ELSE cand[d]]
  BY DEF WritePromotion, Archive, RowsInv, TypeOK
<1> HIDE DEF c, to, archived
<1>6. /\ cand'[c].state = to
      /\ \A d \in archived : cand'[d].state = "archived"
      /\ \A d \in Candidates \ ({c} \cup archived) : cand'[d] = cand[d]
  BY <1>2, <1>5
<1>7. Spares({c} \cup archived)
  BY <1>2, <1>3, <1>6, GovernanceAssumption DEF Spares, evidence, session
<1>8. \A t \in Sessions \ stale' : ReadsHold(t)'
  BY <1>1, <1>3, <1>7, CommitReads
<1>9. RejectedInv'
  <2>1. ASSUME NEW t \in Sessions, req'[t].kind = "evaluate", req'[t].to = "rejected"
        PROVE  cand'[req'[t].target].state \in {"rejected", "archived"}
    <3>1. t # s
      BY <1>3, <2>1 DEF Closed
    <3>2. /\ req'[t] = req[t]
          /\ req[t].target \in Candidates
          /\ cand[req[t].target].state \in {"rejected", "archived"}
      BY <1>1, <1>3, <2>1, <3>1 DEF RowsInv, KindInv, Formed, RejectedInv
    <3> QED
      BY <1>2, <1>4, <1>6, <3>2
  <2> QED
    BY <2>1 DEF RejectedInv
<1>10. EarnedInv'
  <2>1. ASSUME NEW d \in Champions', NEW f \in Champions'
        PROVE  d = f
    <3>1. d \in Candidates /\ f \in Candidates /\ cand'[d].state = "champion" /\ cand'[f].state = "champion"
      BY DEF Champions
    <3>2. d \notin archived /\ f \notin archived
      BY <1>6, <3>1
    <3>3. CASE to = "champion"
      BY <1>2, <1>4, <1>6, <3>1, <3>2, <3>3 DEF Champions
    <3>4. CASE to # "champion"
      BY <1>1, <1>2, <1>6, <3>1, <3>2, <3>4 DEF EarnedInv, Champions
    <3> QED
      BY <3>3, <3>4
  <2>2. ASSUME NEW d \in Candidates, cand'[d].state \in {"challenger", "champion"}
        PROVE  Accepted(latest[d])
    BY <1>1, <1>2, <1>4, <1>6, <2>2 DEF EarnedInv
  <2> QED
    BY <1>3, <2>1, <2>2 DEF EarnedInv, Accepted, OutOfSample, MinimumSample, FoldStability, RegimeConcentration
<1> QED
  BY <1>8, <1>9, <1>10 DEF FreshInv

\* What experiments, runs and live sessions write leaves every candidate.
LEMMA EvidenceFresh ==
  ASSUME RowsInv, FreshInv,
         \/ StopLive
         \/ \E e \in Experiments, r \in Revisions :
              CreateExperiment(e, r) \/ StartRun(e, r) \/ LoseJob(e, r)
         \/ \E e \in Experiments, r \in Revisions, enough \in BOOLEAN : CompleteRun(e, r, enough)
  PROVE  FreshInv'
<1>1. /\ \A t \in Sessions \ stale : ReadsHold(t)
      /\ RejectedInv /\ EarnedInv
      /\ cand' = cand /\ latest' = latest /\ req' = req
  BY DEF FreshInv, StopLive, CreateExperiment, StartRun, LoseJob, CompleteRun, rows, session
<1>2. RejectedInv' /\ EarnedInv'
  BY <1>1, EarnedKept DEF rows, session
<1>3. ASSUME NEW W, Commit(None, W), Spares(W)
      PROVE  FreshInv'
  <2>1. None \notin Sessions
    BY GovernanceAssumption
  <2>2. \A t \in Sessions \ stale' : ReadsHold(t)'
    BY <1>1, <1>3, <2>1, CommitReads
  <2> QED
    BY <1>2, <2>2 DEF FreshInv
<1>4. CASE StopLive
  <2>1. Commit(None, {"live"}) /\ Spares({"live"})
    BY <1>4 DEF StopLive, Spares, rows, evidence, session
  <2> QED
    BY <1>3, <2>1
<1>5. ASSUME NEW e \in Experiments, NEW r \in Revisions, CreateExperiment(e, r)
      PROVE  FreshInv'
  <2>1. Commit(None, {e}) /\ Spares({e})
    BY <1>5, GovernanceAssumption DEF CreateExperiment, Spares, rows, session, RowsInv, TypeOK
  <2> QED
    BY <1>3, <2>1
<1>6. ASSUME NEW e \in Experiments, NEW r \in Revisions, StartRun(e, r)
      PROVE  FreshInv'
  <2>1. run[e].status # "completed"
    BY <1>6 DEF StartRun, NoRun
  <2>2. Commit(None, {}) /\ Spares({})
    BY <1>6, <2>1 DEF StartRun, Spares, rows, session, RowsInv, TypeOK
  <2> QED
    BY <1>3, <2>2
<1>7. ASSUME NEW e \in Experiments, NEW r \in Revisions, LoseJob(e, r)
      PROVE  FreshInv'
  <2>1. Spares({}) /\ stale' = stale
    BY <1>7 DEF LoseJob, Spares, rows, history, session
  <2>2. ASSUME NEW t \in Sessions, t \notin stale' PROVE ReadsHold(t)'
    <3>1. ReadsHold(t) /\ req'[t] = req[t] /\ Reads(t) \cap {} = {}
      BY <1>1, <2>1, <2>2
    <3> QED
      BY <2>1, <3>1, ReadsKept
  <2> QED
    BY <1>2, <2>2 DEF FreshInv
<1>8. ASSUME NEW e \in Experiments, NEW r \in Revisions, NEW enough \in BOOLEAN,
             CompleteRun(e, r, enough)
      PROVE  FreshInv'
  <2>1. /\ \A f \in Experiments \ {e} : experiment'[f] = experiment[f] /\ run'[f] = run[f]
        /\ backtested \subseteq backtested'
        /\ UNCHANGED <<rows, session>>
    BY <1>8 DEF CompleteRun, RowsInv, TypeOK
  <2>2. Commit(None, {e}) /\ Spares({e})
    BY <1>8, <2>1, GovernanceAssumption DEF CompleteRun, Spares, rows, session
  <2> QED
    BY <1>3, <2>2
<1> QED
  BY <1>4, <1>5, <1>6, <1>7, <1>8

LEMMA FinishFresh ==
  ASSUME RowsInv, FreshInv, NEW s \in Sessions, FinishDelete(s) \/ FinishStart(s)
  PROVE  FreshInv'
<1>1. /\ \A t \in Sessions \ stale : ReadsHold(t)
      /\ RejectedInv /\ EarnedInv
      /\ UNCHANGED rows
      /\ req'[s] = Closed /\ \A t \in Sessions : t # s => req'[t] = req[t]
  BY CloseApart DEF FreshInv, FinishDelete, FinishStart
<1>2. RejectedInv' /\ EarnedInv'
  BY <1>1, EarnedKept DEF Closed
<1>3. PICK W : Commit(s, W) /\ Spares(W)
  <2>1. CASE FinishDelete(s)
    <3> DEFINE gone == {e \in req[s].ids : experiment[e].status # "absent"}
    <3>1. Spares(gone)
      BY <2>1 DEF FinishDelete, Spares, rows, session, RowsInv, TypeOK
    <3> QED
      BY <2>1, <3>1 DEF FinishDelete
  <2>2. CASE FinishStart(s)
    <3> DEFINE W == IF live.running THEN {} ELSE {"live"}
    <3>1. Spares(W)
      BY <2>2 DEF FinishStart, Spares, rows, evidence, session
    <3> QED
      BY <2>2, <3>1 DEF FinishStart
  <2> QED
    BY <2>1, <2>2
<1>4. \A t \in Sessions \ stale' : ReadsHold(t)'
  BY <1>1, <1>3, CommitReads
<1> QED
  BY <1>2, <1>4 DEF FreshInv

LEMMA SwitchFresh ==
  ASSUME RowsInv, FreshInv, NEW s \in Sessions, BeginSwitch(s) \/ FinishSwitch(s) \/ FailSwitch(s)
  PROVE  FreshInv'
<1>1. /\ \A t \in Sessions \ stale : ReadsHold(t)
      /\ RejectedInv /\ EarnedInv
      /\ req \in [Sessions -> Request]
  BY DEF FreshInv, RowsInv, TypeOK
<1>2. CASE FailSwitch(s)
  BY <1>2, RefuseFresh DEF FailSwitch
<1>3. CASE FinishSwitch(s)
  <2>1. /\ UNCHANGED rows /\ Commit(s, {"live"}) /\ Spares({"live"})
        /\ req'[s] = Closed /\ \A t \in Sessions : t # s => req'[t] = req[t]
    BY <1>1, <1>3 DEF FinishSwitch, Close, Spares, rows, evidence
  <2>2. RejectedInv' /\ EarnedInv'
    BY <1>1, <2>1, EarnedKept DEF Closed
  <2>3. \A t \in Sessions \ stale' : ReadsHold(t)'
    BY <1>1, <2>1, CommitReads
  <2> QED
    BY <2>2, <2>3 DEF FreshInv
<1>4. CASE BeginSwitch(s)
  <2>1. /\ UNCHANGED rows /\ Commit(None, {"live"}) /\ Spares({"live"})
        /\ req'[s].kind = "mode" /\ \A t \in Sessions : t # s => req'[t] = req[t]
    BY <1>1, <1>4 DEF BeginSwitch, Open, Closed, Spares, rows, evidence
  <2>2. RejectedInv' /\ EarnedInv'
    BY <1>1, <2>1, EarnedKept
  <2>3. ASSUME NEW t \in Sessions, t \notin stale' PROVE ReadsHold(t)'
    <3>1. CASE t = s
      BY <2>1, <3>1 DEF ReadsHold, PromoteHolds, StartHolds, DeleteHolds
    <3>2. CASE t # s
      <4>1. t \notin stale /\ Reads(t) \cap {"live"} = {}
        BY <2>1, <2>3, GovernanceAssumption DEF Commit
      <4>2. ReadsHold(t) /\ req'[t] = req[t]
        BY <1>1, <2>1, <3>2, <4>1
      <4> QED
        BY <2>1, <4>1, <4>2, ReadsKept
    <3> QED
      BY <3>1, <3>2
  <2> QED
    BY <2>2, <2>3 DEF FreshInv
<1> QED
  BY <1>2, <1>3, <1>4

-----------------------------------------------------------------------------
\* There is nothing to earn or to rely on at first.
LEMMA InitInv == Init => IInv
<1> SUFFICES ASSUME Init PROVE IInv
  OBVIOUS
<1>1. RowsInv
  BY InitRows
<1>2. FreshInv
  BY DEF Init, FreshInv, ReadsHold, PromoteHolds, StartHolds, DeleteHolds, RejectedInv, EarnedInv,
         Champions, Closed, Absent
<1> QED
  BY <1>1, <1>2 DEF IInv

\* A step that leaves no stale write behind is not taken on stale reads.
LEMMA NextFresh ==
  ASSUME RowsInv, FreshInv, ~dirty, ~dirty', [Next]_vars
  PROVE  FreshInv'
<1>1. CASE UNCHANGED vars
  <2>1. UNCHANGED <<cand, latest, experiment, run, jobs, backtested, live, passed, req, stale, dirty>>
    BY <1>1 DEF vars, rows, evidence, history, session
  <2> QED
    BY <2>1 DEF FreshInv, ReadsHold, PromoteHolds, StartHolds, DeleteHolds, RejectedInv, EarnedInv,
                Champions, HasSuccessfulValidation, HasLineage, HasChampion, OfRevision, Exists,
                Accepted, OutOfSample, MinimumSample, FoldStability, RegimeConcentration
<1>2. CASE Next
  <2>1. ASSUME NEW s \in Sessions, WritePromotion(s)
        PROVE  s \notin stale
    BY <2>1 DEF WritePromotion, Commit, RowsInv, TypeOK
  <2> QED
    BY <1>2, <2>1, BeginFresh, LookFresh, CreateFresh, EvaluateFresh, PromotionFresh, EvidenceFresh,
       FinishFresh, SwitchFresh DEF Next
<1> QED
  BY <1>1, <1>2

\* The invariant is inductive.
LEMMA NextInv == IInv /\ [Next]_vars => IInv'
<1> SUFFICES ASSUME IInv, [Next]_vars PROVE IInv'
  OBVIOUS
<1>1. RowsInv'
  BY NextRows DEF IInv
<1>2. ASSUME ~dirty' PROVE ~dirty
  BY <1>2 DEF Next, CreateCandidate, BeginEvaluate, BeginPromote, FinishEvaluate, CheckVerdict,
              ReadChampions, WritePromotion, CreateExperiment, StartRun, LoseJob, CompleteRun,
              BeginDelete, BeginStart, FinishDelete, CheckValidated, CheckLineage, CheckChampion,
              FinishStart, StopLive, BeginSwitch, FinishSwitch, FailSwitch, Commit, Proceed, Refuse,
              history, session, vars
<1> QED
  BY <1>1, <1>2, NextFresh DEF IInv

LEMMA Invariance == Spec => []IInv
<1> QED
  BY InitInv, NextInv, PTL DEF Spec

-----------------------------------------------------------------------------
(* What the trades attributed to the regimes add up to.                    *)

\* The recursive function of Attributed gives the sum over every set.
LEMMA AttributedIsSum ==
  ASSUME NEW regimes, IsFiniteSet(DOMAIN regimes)
  PROVE  \E g : /\ Sums(regimes, DOMAIN regimes, g)
                /\ Attributed(regimes) = g[DOMAIN regimes]
<1> DEFINE g == CHOOSE g : g = [S \in SUBSET DOMAIN regimes |-> Part(regimes, g, S)]
<1>1. \E h : h = [S \in SUBSET DOMAIN regimes |-> Part(regimes, h, S)]
  BY SumsExist DEF Sums
<1>2. g = [S \in SUBSET DOMAIN regimes |-> Part(regimes, g, S)]
  BY <1>1
<1>3. Attributed(regimes) = g[DOMAIN regimes]
  BY DEF Attributed, Part
<1> HIDE DEF g
<1> QED
  BY <1>2, <1>3 DEF Sums

\* If every regime but one is without trades, that one has all of them.
LEMMA OneRegimeHasAll ==
  ASSUME NEW regimes, IsFiniteSet(DOMAIN regimes), regimes \in [DOMAIN regimes -> Nat],
         NEW only, \A r \in DOMAIN regimes : r # only => regimes[r] = 0
  PROVE  /\ Attributed(regimes) \in Nat
         /\ Attributed(regimes) <= IF only \in DOMAIN regimes THEN regimes[only] ELSE 0
<1> DEFINE D == DOMAIN regimes
           most(S) == IF only \in S THEN regimes[only] ELSE 0
<1>1. PICK g : Sums(regimes, D, g) /\ Attributed(regimes) = g[D]
  BY AttributedIsSum
<1> DEFINE P == {S \in SUBSET D : g[S] \in Nat /\ g[S] <= most(S)}
<1>2. {} \in P
  BY <1>1, SumsUnfold
<1>3. ASSUME NEW S \in SUBSET D, S # {}, \A r \in S : S \ {r} \in P
      PROVE  S \in P
  <2>1. PICK r \in S : g[S] = regimes[r] + g[S \ {r}]
    BY <1>1, <1>3, SumsUnfold
  <2>2. g[S \ {r}] \in Nat /\ g[S \ {r}] <= most(S \ {r})
    BY <1>3
  <2>3. regimes[r] \in Nat /\ (r # only => regimes[r] = 0)
    OBVIOUS
  <2>4. only \in S => regimes[only] \in Nat
    OBVIOUS
  <2>5. CASE r = only
    <3>1. most(S \ {r}) = 0 /\ most(S) = regimes[r]
      BY <2>5
    <3> QED
      BY <2>1, <2>2, <2>3, <3>1
  <2>6. CASE r # only
    <3>1. most(S \ {r}) = most(S)
      BY <2>6
    <3> QED
      BY <2>1, <2>2, <2>3, <2>6, <3>1
  <2> QED
    BY <2>5, <2>6
<1>4. SUBSET D \subseteq P
  <2>1. IsFiniteSet(D)
    OBVIOUS
  <2> HIDE DEF P, D
  <2> QED
    BY <1>2, <1>3, <2>1, SubsetInduction
<1> QED
  BY <1>1, <1>4

\* A result that is accepted has trades in two regimes.
LEMMA TwoRegimes ==
  ASSUME NEW result \in Results, RegimeConcentration(result)
  PROVE  \E r1, r2 \in DOMAIN result.regimes :
           r1 # r2 /\ result.regimes[r1] > 0 /\ result.regimes[r2] > 0
<1> DEFINE regimes == result.regimes
           total == Attributed(regimes)
<1>1. IsFiniteSet(DOMAIN regimes) /\ regimes \in [DOMAIN regimes -> Nat]
  BY GovernanceAssumption
<1>2. total >= 20 /\ \A r \in DOMAIN regimes : 5 * regimes[r] <= 4 * total
  BY DEF RegimeConcentration, MIN_TRADES_FOR_REGIME_CHECK
<1> HIDE DEF regimes
<1> SUFFICES ASSUME ~\E r1, r2 \in DOMAIN regimes : r1 # r2 /\ regimes[r1] > 0 /\ regimes[r2] > 0
             PROVE  FALSE
  BY DEF regimes
<1>3. PICK only : \A r \in DOMAIN regimes : r # only => regimes[r] = 0
  <2>1. CASE \E r \in DOMAIN regimes : regimes[r] > 0
    BY <1>1, <2>1
  <2>2. CASE ~\E r \in DOMAIN regimes : regimes[r] > 0
    BY <1>1, <2>2
  <2> QED
    BY <2>1, <2>2
<1>4. total \in Nat /\ total <= IF only \in DOMAIN regimes THEN regimes[only] ELSE 0
  BY <1>1, <1>3, OneRegimeHasAll
<1> HIDE DEF total
<1>5. CASE only \in DOMAIN regimes
  <2>1. regimes[only] \in Nat /\ 5 * regimes[only] <= 4 * total /\ total <= regimes[only]
    BY <1>1, <1>2, <1>4, <1>5
  <2> QED
    BY <1>2, <1>4, <2>1
<1>6. CASE only \notin DOMAIN regimes
  BY <1>2, <1>4, <1>6
<1> QED
  BY <1>5, <1>6

-----------------------------------------------------------------------------
\* Every row and every open request has its type, and a candidate's row is
\* whole, in every state (CandidateRecord, ExperimentRecord, RunRecord).
THEOREM RowsTyped == Spec => []TypeOK
<1>1. IInv => TypeOK
  BY DEF IInv, RowsInv
<1> QED
  BY <1>1, Invariance, PTL

\* Until a request writes on stale reads there is at most one champion, and
\* whoever was promoted was last evaluated on a valid holdout, with enough
\* trades, folds, and two regimes that have trades (promote_candidate).
THEOREM ChampionsAreEarned == Spec => []OneEarnedChampion
<1>1. ASSUME IInv, ~dirty
      PROVE  Cardinality(Champions) <= 1
  <2>1. \A c, d \in Champions : c = d
    BY <1>1 DEF IInv, FreshInv, EarnedInv
  <2>2. CASE Champions = {}
    BY <2>2, FS_EmptySet
  <2>3. CASE Champions # {}
    <3>1. PICK c \in Champions : Champions = {c}
      BY <2>1, <2>3
    <3>2. Cardinality({c}) = 1
      BY FS_Singleton
    <3> QED
      BY <3>1, <3>2
  <2> QED
    BY <2>2, <2>3
<1>2. ASSUME IInv, ~dirty, NEW c \in Candidates, cand[c].state \in {"challenger", "champion"}
      PROVE  /\ latest[c] # None
             /\ latest[c].valid /\ latest[c].trades >= 20 /\ latest[c].foldStd # None
             /\ \E r1, r2 \in DOMAIN latest[c].regimes :
                  r1 # r2 /\ latest[c].regimes[r1] > 0 /\ latest[c].regimes[r2] > 0
  <2>1. Accepted(latest[c])
    BY <1>2 DEF IInv, FreshInv, EarnedInv
  <2>2. latest[c] \in Results \cup {None}
    BY <1>2 DEF IInv, RowsInv, TypeOK
  <2>3. latest[c] # None /\ RegimeConcentration(latest[c])
    BY <2>1 DEF Accepted
  <2>4. \E r1, r2 \in DOMAIN latest[c].regimes :
          r1 # r2 /\ latest[c].regimes[r1] > 0 /\ latest[c].regimes[r2] > 0
    BY <2>2, <2>3, TwoRegimes
  <2> QED
    BY <2>1, <2>4 DEF Accepted, OutOfSample, MinimumSample, FoldStability, MIN_TRADES_FOR_REGIME_CHECK
<1>3. IInv => OneEarnedChampion
  BY <1>1, <1>2 DEF OneEarnedChampion
<1> QED
  BY <1>3, Invariance, PTL

\* A start in production that nobody overtook is on a revision that the gate lets
\* through.
LEMMA StartGoverned ==
  ASSUME IInv, NEW s \in Sessions, FinishStart(s), Production, ~dirty', ~live.running
  PROVE  Governed(req[s].revision) /\ live'.revision = req[s].revision
<1>1. /\ req[s].pc = "go" /\ live'.revision = req[s].revision
      /\ s \notin stale /\ ~dirty
  BY DEF FinishStart, Commit, IInv, RowsInv, TypeOK
<1>2. req[s].kind = "start"
  BY <1>1 DEF IInv, RowsInv, KindInv, Formed
<1>3. StartHolds(s)
  BY <1>1 DEF IInv, FreshInv, ReadsHold
<1>4. /\ req[s].revision # None /\ HasSuccessfulValidation(req[s].revision)
      /\ RequireChampion /\ HasLineage(req[s].revision) => HasChampion(req[s].revision)
  BY <1>1, <1>2, <1>3 DEF StartHolds
<1> QED
  BY <1>1, <1>4 DEF Governed

\* A session that runs, or that set_mode is about to start again, is on a revision
\* the gate let through.
PassedInv ==
  Production /\ ~dirty /\ (live.running \/ Switching) => live.revision \in passed

LEMMA PassedStep == IInv /\ PassedInv /\ [Next]_vars => PassedInv'
<1> SUFFICES ASSUME IInv, PassedInv, [Next]_vars, Production, ~dirty', live'.running \/ Switching'
             PROVE  live'.revision \in passed'
  BY DEF PassedInv
<1>1. ~dirty
  BY DEF Next, CreateCandidate, BeginEvaluate, BeginPromote, FinishEvaluate, CheckVerdict,
         ReadChampions, WritePromotion, CreateExperiment, StartRun, LoseJob, CompleteRun,
         BeginDelete, BeginStart, FinishDelete, CheckValidated, CheckLineage, CheckChampion,
         FinishStart, StopLive, BeginSwitch, FinishSwitch, FailSwitch, Commit, Proceed, Refuse,
         history, session, vars
<1>2. /\ req \in [Sessions -> Request] /\ \A t \in Sessions : Formed(req[t])
      /\ live \in [running : BOOLEAN, experiment : Experiments \cup {None},
                   revision : Revisions \cup {None}]
  BY DEF IInv, RowsInv, TypeOK, KindInv
<1>3. ASSUME UNCHANGED session, \A t \in Sessions : req'[t].kind = "mode" => req[t].kind = "mode"
      PROVE  live'.revision \in passed'
  <2>1. live.running \/ Switching
    BY <1>3 DEF Switching, session
  <2> QED
    BY <1>1, <1>3, <2>1 DEF PassedInv, session
<1>4. ASSUME NEW s \in Sessions, FinishStart(s)
      PROVE  live'.revision \in passed'
  <2>1. CASE live.running
    BY <1>1, <1>4, <2>1 DEF FinishStart, PassedInv
  <2>2. CASE ~live.running
    <3>1. Governed(req[s].revision) /\ live'.revision = req[s].revision
      BY <1>4, <2>2, StartGoverned
    <3> QED
      BY <1>4, <2>2, <3>1 DEF FinishStart
  <2> QED
    BY <2>1, <2>2
<1>5. ASSUME NEW s \in Sessions, BeginSwitch(s) \/ FinishSwitch(s)
      PROVE  live'.revision \in passed'
  <2>1. live.running \/ Switching
    BY <1>2, <1>5 DEF BeginSwitch, FinishSwitch, Switching, Formed
  <2>2. live'.revision = live.revision /\ passed' = passed
    BY <1>2, <1>5 DEF BeginSwitch, FinishSwitch
  <2> QED
    BY <1>1, <2>1, <2>2 DEF PassedInv
<1>6. ~StopLive
  <2>1. StopLive => ~live'.running /\ ~Switching'
    BY <1>2 DEF StopLive, Switching
  <2> QED
    BY <2>1
<1>7. ASSUME NEW s \in Sessions, Refuse(s)
      PROVE  live'.revision \in passed'
  BY <1>2, <1>3, <1>7 DEF Refuse, Close, Closed
<1>8. ASSUME NEW s \in Sessions, NEW pc, Proceed(s, pc)
      PROVE  live'.revision \in passed'
  BY <1>2, <1>3, <1>8 DEF Proceed, Request
<1>9. ASSUME NEW s \in Sessions,
             \/ CheckVerdict(s) \/ CheckValidated(s) \/ CheckLineage(s) \/ CheckChampion(s)
             \/ FailSwitch(s)
      PROVE  live'.revision \in passed'
  BY <1>7, <1>8, <1>9 DEF CheckVerdict, CheckValidated, CheckLineage, CheckChampion, FailSwitch
<1>10. ASSUME NEW s \in Sessions, NEW q, q.kind # "mode", req' = [req EXCEPT ![s] = q],
              UNCHANGED session
       PROVE  live'.revision \in passed'
  BY <1>2, <1>3, <1>10
<1>11. ASSUME NEW s \in Sessions,
              \/ \E c \in Candidates, result \in Results : BeginEvaluate(s, c, result)
              \/ \E c \in Candidates, to \in Promotions : BeginPromote(s, c, to)
              \/ \E ids \in SUBSET Experiments : BeginDelete(s, ids)
              \/ \E e \in Experiments \cup {None}, r \in Revisions \cup {None} : BeginStart(s, e, r)
       PROVE  live'.revision \in passed'
  <2>1. UNCHANGED session /\ \E q : q.kind # "mode" /\ req' = [req EXCEPT ![s] = q]
    BY <1>11 DEF BeginEvaluate, BeginPromote, BeginDelete, BeginStart, Open, Closed
  <2> QED
    BY <1>10, <2>1
<1>12. ASSUME NEW s \in Sessions,
              FinishEvaluate(s) \/ ReadChampions(s) \/ WritePromotion(s) \/ FinishDelete(s)
       PROVE  live'.revision \in passed'
  <2>1. UNCHANGED session
    BY <1>12 DEF FinishEvaluate, ReadChampions, WritePromotion, FinishDelete
  <2>2. \A t \in Sessions : req'[t].kind = "mode" => req[t].kind = "mode"
    BY <1>2, <1>12 DEF FinishEvaluate, ReadChampions, WritePromotion, FinishDelete, Close, Closed, Request
  <2> QED
    BY <1>3, <2>1, <2>2
<1>13. ASSUME UNCHANGED <<session, req>>
       PROVE  live'.revision \in passed'
  BY <1>3, <1>13
<1>14. ASSUME \/ \E c \in Candidates, e \in Experiments : CreateCandidate(c, e)
              \/ \E e \in Experiments, r \in Revisions :
                   CreateExperiment(e, r) \/ StartRun(e, r) \/ LoseJob(e, r)
              \/ \E e \in Experiments, r \in Revisions, enough \in BOOLEAN : CompleteRun(e, r, enough)
              \/ UNCHANGED vars
       PROVE  live'.revision \in passed'
  <2>1. UNCHANGED <<session, req>>
    BY <1>14 DEF CreateCandidate, CreateExperiment, StartRun, LoseJob, CompleteRun, vars
  <2> QED
    BY <1>13, <2>1
<1> QED
  BY <1>4, <1>5, <1>6, <1>9, <1>11, <1>12, <1>14 DEF Next

LEMMA PassedAlways == Spec => []PassedInv
<1>1. Init => PassedInv
  BY DEF Init, Off, Closed, Switching, PassedInv
<1> QED
  BY <1>1, PassedStep, Invariance, PTL DEF Spec

\* In production a session begins on a revision that was validated and, if a
\* champion is required and the revision has candidates, on a champion's,
\* unless the request looked at rows written since (LiveGovernanceGate); or
\* set_mode starts it again, on the revision of the session it ended, which such
\* a start had let through.
THEOREM GateHolds == Spec => StartsAreGoverned
<1>1. ASSUME IInv, PassedInv, Next, ~live.running, live'.running, Production, ~dirty'
      PROVE  Governed(live'.revision) \/ (Switching /\ live'.revision \in passed)
  <2>1. PICK s \in Sessions : FinishStart(s) \/ FinishSwitch(s)
    <3>1. live' # live
      BY <1>1
    <3>2. ~StopLive
      BY <1>1 DEF StopLive
    <3>3. \A s \in Sessions : ~BeginSwitch(s)
      BY <1>1 DEF BeginSwitch
    <3> QED
      BY <1>1, <3>1, <3>2, <3>3
      DEF Next, CreateCandidate, BeginEvaluate, BeginPromote, FinishEvaluate, CheckVerdict,
          ReadChampions, WritePromotion, CreateExperiment, StartRun, LoseJob, CompleteRun,
          BeginDelete, BeginStart, FinishDelete, CheckValidated, CheckLineage, CheckChampion,
          FailSwitch, Proceed, Refuse, session
  <2>2. CASE FinishStart(s)
    BY <1>1, <2>2, StartGoverned
  <2>3. CASE FinishSwitch(s)
    <3>1. Switching
      BY <1>1, <2>3 DEF FinishSwitch, Switching, IInv, RowsInv, KindInv, Formed
    <3>2. live'.revision = live.revision
      BY <1>1, <2>3 DEF FinishSwitch, IInv, RowsInv, TypeOK
    <3>3. ~dirty
      BY <1>1, <2>3 DEF FinishSwitch, Commit, IInv, RowsInv, TypeOK
    <3> QED
      BY <1>1, <3>1, <3>2, <3>3 DEF PassedInv
  <2> QED
    BY <2>1, <2>2, <2>3
<1>2. IInv /\ PassedInv /\ [Next]_vars =>
        [~live.running /\ live'.running /\ Production /\ ~dirty' =>
           \/ Governed(live'.revision)
           \/ Switching /\ live'.revision \in passed]_vars
  BY <1>1
<1> QED
  BY <1>2, Invariance, PassedAlways, PTL DEF Spec, StartsAreGoverned

\* What the live session runs for is not deleted under it, unless it began
\* after the deletion had looked (delete_experiment_route).
THEOREM LiveIsKept == Spec => ActiveIsKept
<1>1. ASSUME IInv, Next, ~dirty', NEW e \in Experiments, Exists(e), ~Exists(e)',
             live.running, live.experiment = e
      PROVE  FALSE
  <2>1. PICK s \in Sessions : FinishDelete(s)
    <3>1. experiment'[e] # experiment[e]
      BY <1>1 DEF Exists
    <3>2. ASSUME NEW f \in Experiments, NEW r \in Revisions, CreateExperiment(f, r)
          PROVE  FALSE
      BY <1>1, <3>1, <3>2 DEF CreateExperiment, Exists, IInv, RowsInv, TypeOK
    <3>3. ASSUME NEW f \in Experiments, NEW r \in Revisions, NEW enough \in BOOLEAN,
                 CompleteRun(f, r, enough)
          PROVE  FALSE
      BY <1>1, <3>1, <3>3 DEF CompleteRun, Exists, IInv, RowsInv, TypeOK
    <3>4. experiment' # experiment
      BY <3>1
    <3> QED
      BY <1>1, <3>2, <3>3, <3>4
      DEF Next, CreateCandidate, BeginEvaluate, BeginPromote, FinishEvaluate, CheckVerdict,
          ReadChampions, WritePromotion, StartRun, LoseJob, BeginDelete, BeginStart,
          CheckValidated, CheckLineage, CheckChampion, FinishStart, StopLive, BeginSwitch, FinishSwitch, FailSwitch, Proceed, Refuse, evidence, session
  <2>2. /\ req[s].kind = "delete" /\ s \notin stale /\ ~dirty
        /\ e \in req[s].ids
    BY <1>1, <2>1 DEF FinishDelete, Commit, Exists, IInv, RowsInv, TypeOK
  <2>3. DeleteHolds(s)
    BY <1>1, <2>2 DEF IInv, FreshInv, ReadsHold
  <2> QED
    BY <1>1, <2>2, <2>3 DEF DeleteHolds
<1>2. IInv /\ [Next]_vars =>
        [\A e \in Experiments :
           Exists(e) /\ ~Exists(e)' /\ ~dirty' => ~(live.running /\ live.experiment = e)]_vars
  BY <1>1
<1> QED
  BY <1>2, Invariance, PTL DEF Spec, ActiveIsKept

=============================================================================
