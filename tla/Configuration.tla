--------------------------- MODULE Configuration ---------------------------
(***************************************************************************)
(* The YAML configuration and the runs that are recorded under a revision  *)
(* of it: the API that edits the files (api/services/config_service.py,    *)
(* api/v1/engine.py, providers.py, optimization.py), the loaders that      *)
(* remember what they parsed for the life of their process, the revisions  *)
(* (governance/revision_store.py) and the part of validation/job_runner.py *)
(* that builds a stack and then names the revision it ran under.           *)
(*                                                                         *)
(* Jobs run in the API process or, with a queue, in a worker: a process of *)
(* its own that reads the same files and shares no memory.  A file is one  *)
(* value here; Broken is a content its loader refuses.                     *)
(***************************************************************************)
EXTENDS Naturals, Sequences, FiniteSets

CONSTANTS Values,    \* the configurations a file can hold
          Broken,    \* a content that does not load
          Unread,    \* nothing remembered
          Current,   \* a request that names no revision
          Core,      \* the configuration a strategy preset brings along
          MaxEdits,  \* bound: edits in a behaviour
          MaxJobs    \* bound: validation jobs in a behaviour

Cached == {"engine", "features", "settings"}
Files  == Cached \cup {"providers"}
Named  == {"engine", "features", "providers"}  \* what a revision is made of
Processes == {"api", "worker"}

ASSUME ConfigurationAssumption ==
  /\ Broken \notin Values /\ Unread \notin Values /\ Core \notin Values
  /\ MaxEdits \in Nat /\ MaxJobs \in Nat

VARIABLES files,      \* what is on disk
          cache,      \* per process: what its loaders remember
          revisions,  \* the revisions in the database
          applying,   \* the files the API has still to write, and the value
          runner,     \* the process that runs the jobs
          job,        \* the job in progress
          runs,       \* history: the finished runs, what each used and was filed under
          edits,
          jobs

ConfigVars == <<files, cache, revisions, applying, runner, job, runs, edits, jobs>>

NoJob == [pc |-> "none", asked |-> Current, preset |-> FALSE, used |-> Core]

Snapshot == [f \in Named |-> files[f]]

ConfigInit ==
  /\ files \in {[f \in Files |-> v] : v \in Values}
  /\ cache = [p \in Processes |-> [f \in Cached |-> Unread]]
  /\ revisions = {}
  /\ applying = <<>>
  /\ runner \in Processes
  /\ job = NoJob
  /\ runs = {}
  /\ edits = 0
  /\ jobs = 0

-----------------------------------------------------------------------------
\* lru_cache: the first parse is kept until this process clears it.  A load
\* that raises is not kept.
Seen(p, f) ==
  IF f \in Cached /\ cache[p][f] # Unread THEN cache[p][f] ELSE files[f]

Remember(p, used) ==
  [cache EXCEPT ![p] = [f \in Cached |->
     IF f \in used /\ Seen(p, f) # Broken THEN Seen(p, f) ELSE @[f]]]

\* config_service writes a file and forgets what the API remembers of it.
\* Variant first: the features are written and the old ones kept.
WrittenKept(f, v) ==
  /\ files' = [files EXCEPT ![f] = v]
  /\ cache' = IF f \in Cached \ {"features"} THEN [cache EXCEPT !["api"][f] = Unread] ELSE cache

Written(f, v) ==
  /\ files' = [files EXCEPT ![f] = v]
  /\ cache' = IF f \in Cached THEN [cache EXCEPT !["api"][f] = Unread] ELSE cache

Idle == applying = <<>>

\* PATCH /engine/config: nothing checks the values before they are written.
\* A content that does not load is refused after it was written, and no
\* revision is made of it.
PatchEngine(v) ==
  /\ Idle
  /\ edits < MaxEdits
  /\ edits' = edits + 1
  /\ Written("engine", v)
  /\ revisions' = IF v = Broken THEN revisions
                  ELSE revisions \cup {[Snapshot EXCEPT !["engine"] = v]}
  /\ UNCHANGED <<applying, runner, job, runs, jobs>>

\* PATCH and reset of providers write their files and make no revision.
PatchProviders(v) ==
  /\ Idle
  /\ edits < MaxEdits
  /\ edits' = edits + 1
  /\ Written("providers", v)
  /\ UNCHANGED <<revisions, applying, runner, job, runs, jobs>>

\* POST apply of a sweep: every file in turn, without an await between them,
\* so that only another process can look in between; then a revision.
ApplyOrder == <<"engine", "providers", "settings", "features">>

StartApply(v) ==
  /\ Idle
  /\ edits < MaxEdits
  /\ edits' = edits + 1
  /\ applying' = [i \in DOMAIN ApplyOrder |-> [file |-> ApplyOrder[i], value |-> v]]
  /\ UNCHANGED <<files, cache, revisions, runner, job, runs, jobs>>

ApplyNext ==
  /\ ~Idle
  /\ Written(Head(applying).file, Head(applying).value)
  /\ applying' = Tail(applying)
  /\ revisions' = IF Len(applying) > 1 THEN revisions
                  ELSE revisions \cup {[f \in Named |-> files'[f]]}
  /\ UNCHANGED <<runner, job, runs, edits, jobs>>

-----------------------------------------------------------------------------
\* A request may name a revision and a strategy preset.
Submit(asked, preset) ==
  /\ Idle
  /\ job.pc = "none"
  /\ jobs < MaxJobs
  /\ asked \in revisions \cup {Current}
  /\ job' = [NoJob EXCEPT !.pc = "queued", !.asked = asked, !.preset = preset]
  /\ jobs' = jobs + 1
  /\ UNCHANGED <<files, cache, revisions, applying, runner, runs, edits>>

\* In the API process a job takes its turn in the event loop.
MayStep == runner = "worker" \/ Idle

\* run_validation_job builds engine, features, providers and execution, each
\* from its loader unless the preset brings its own.  The lookback reads the
\* features in either case.
Build ==
  /\ MayStep
  /\ job.pc = "queued"
  /\ LET used   == [f \in Files |-> IF job.preset THEN Core ELSE Seen(runner, f)]
         loads  == IF job.preset THEN {"features"} ELSE Cached
         fails  == \E f \in Files : used[f] = Broken
     IN  /\ cache' = [cache EXCEPT ![runner] = Remember(runner, loads)[runner]]
         /\ job' = IF fails THEN NoJob ELSE [job EXCEPT !.pc = "built", !.used = used]
  /\ UNCHANGED <<files, revisions, applying, runner, runs, edits, jobs>>

\* Only then, after an await, it names its revision: the one asked for if
\* the database has it, else one computed from the files of this moment.
Label ==
  /\ MayStep
  /\ job.pc = "built"
  /\ LET named == IF job.asked # Current THEN job.asked ELSE Snapshot
     IN  /\ revisions' = revisions \cup {named}
         /\ runs' = runs \cup {[revision |-> named, used |-> job.used]}
  /\ job' = NoJob
  /\ UNCHANGED <<files, cache, applying, runner, edits, jobs>>

ConfigNext ==
  \/ \E v \in Values \cup {Broken} : PatchEngine(v)
  \/ \E v \in Values : PatchProviders(v) \/ StartApply(v)
  \/ ApplyNext
  \/ \E asked \in revisions \cup {Current}, preset \in BOOLEAN : Submit(asked, preset)
  \/ Build
  \/ Label

ConfigSpec == ConfigInit /\ [][ConfigNext]_ConfigVars

-----------------------------------------------------------------------------
Content == Values \cup {Broken, Unread, Core}

(* Every variable has its type; in particular no process remembers, and no  *)
(* write is queued for, a file that is not one of the four.                *)
TypeOK ==
  /\ files \in [Files -> Content]
  /\ cache \in [Processes -> [Cached -> Content]]
  /\ applying \in Seq([file : Files, value : Content])
  /\ runner \in Processes

(* What the API process remembers of a file is what the file holds, after  *)
(* any edits and any jobs: config_service clears every loader it writes    *)
(* under, so that a run in the API never starts from an older edit.        *)
ApiIsCurrent ==
  \A f \in Cached : cache["api"][f] \in {Unread, files[f]}

(* A recorded run used the configuration of the revision it is filed       *)
(* under.  docs/architecture/governance.md:18 asks that every run can be   *)
(* traced to a revision; run_validation_job only looks the asked revision  *)
(* up and runs what its process remembers, so the code does not keep this. *)
RunsMatchTheirRevision ==
  \A r \in runs : \A f \in Named : r.used[f] = r.revision[f]
=============================================================================
