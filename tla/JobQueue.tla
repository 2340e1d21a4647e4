------------------------------ MODULE JobQueue ------------------------------
(***************************************************************************)
(* The queued jobs of the validation service: the API process that submits *)
(* and cancels them (api/v1/validation_routes/jobs.py, api/services/       *)
(* validation_service.py), the worker processes that take them from the    *)
(* queue, run them and acknowledge them (scripts/run_validation_worker.py, *)
(* validation/job_executor.py), and the reaper each worker runs between    *)
(* two jobs.  They share Redis and nothing else, so one step here is what  *)
(* one of them does up to and including one command to Redis.  Handlers of *)
(* the API contain no await: there is one of them at a time.               *)
(*                                                                         *)
(* A worker keeps its own copy of the record it loaded last and saves that *)
(* copy, with its fields changed, over whatever Redis holds by then.       *)
(***************************************************************************)
EXTENDS JobPersistence, FiniteSets

CONSTANTS Workers,
          NoJob,
          Settings     \* the deployments and bounds a behaviour may have

WorkerSteps == {"loop", "reap", "reclaim", "push", "poll", "lease", "fetch", "drop",
                "begin", "start", "run", "report", "finish", "ack"}

\* The worker processes there are and the jobs that may be submitted, and the
\* bounds on cancel requests and on kills.
Setting == [workers : SUBSET Workers, jobs : SUBSET Jobs, cancels : Nat, crashes : Nat]

ASSUME QueueAssumption ==
  /\ NoJob \notin Jobs
  /\ IsFiniteSet(Workers)
  /\ Settings \subseteq Setting

VARIABLES worker,   \* per worker: its step, its job, its copy of the record, what it reaps
          api,      \* the handler in progress: its step, job, copy and members to check
          setting,  \* the deployment and the bounds of this behaviour
          cancels,  \* how many cancel requests there have been
          crashes,  \* how many workers have been killed
          cut,      \* history: the workers at a job that has left its lists meanwhile
          lost      \* history: the active jobs a kill has left in no list, see Loses

history == <<cut, lost>>
vars == <<redisVars, worker, api, setting, cancels, crashes, history>>

AtLoop == [pc |-> "loop", job |-> NoJob, copy |-> NoRecord, toReap |-> {}]
Idle   == [pc |-> "idle", job |-> NoJob, copy |-> NoRecord, members |-> {}]

Init ==
  /\ PersistenceInit
  /\ worker = [w \in Workers |-> AtLoop]
  /\ api = Idle
  /\ setting \in Settings
  /\ cancels = 0
  /\ crashes = 0
  /\ cut = {}
  /\ lost = {}

-----------------------------------------------------------------------------
At(w, step) == worker[w].pc = step

Goto(w, step) == worker' = [worker EXCEPT ![w].pc = step]

GotoWith(w, step, r) == worker' = [worker EXCEPT ![w].pc = step, ![w].copy = r]

InWorker == UNCHANGED <<api, setting, cancels, crashes, history>>

\* The reaper reads the processing list once ...
StartReap(w) ==
  /\ w \in setting.workers
  /\ At(w, "loop")
  /\ worker' = [worker EXCEPT ![w].pc = "reap",
                              ![w].toReap = {j \in Jobs : processing[j] > 0}]
  /\ UNCHANGED redisVars
  /\ InWorker

\* ... takes the lease of each job it read, reclaims the job if there was
\* none, and does nothing more about it if there was one ...
Reap(w, j) ==
  /\ At(w, "reap")
  /\ j \in worker[w].toReap
  /\ TakeLease(j)
  /\ worker' = [worker EXCEPT ![w].toReap = @ \ {j},
                              ![w].pc = IF j \in lease THEN "reap" ELSE "reclaim",
                              ![w].job = IF j \in lease THEN NoJob ELSE j]
  /\ InWorker

\* ... by removing it from the processing list, unless another reaper was
\* faster, and pushing it.  Variant first: whoever was faster.
ReclaimAlways(w) ==
  /\ At(w, "reclaim")
  /\ RemoveOne(worker[w].job)
  /\ Goto(w, "push")
  /\ InWorker

Reclaim(w) ==
  /\ At(w, "reclaim")
  /\ RemoveOne(worker[w].job)
  /\ LET removed == processing[worker[w].job] > 0
     IN  worker' = [worker EXCEPT ![w].pc = IF removed THEN "push" ELSE "reap",
                                  ![w].job = IF removed THEN @ ELSE NoJob]
  /\ InWorker

PushReclaimed(w) ==
  /\ At(w, "push")
  /\ Push(worker[w].job)
  /\ worker' = [worker EXCEPT ![w].pc = "reap", ![w].job = NoJob]
  /\ InWorker

DoneReaping(w) ==
  /\ At(w, "reap")
  /\ worker[w].toReap = {}
  /\ Goto(w, "poll")
  /\ UNCHANGED redisVars
  /\ InWorker

\* blocking_dequeue returns a job, or nothing when its wait is over.
Take(w) ==
  /\ w \in setting.workers
  /\ At(w, "loop") \/ At(w, "poll")
  /\ MoveHead
  /\ worker' = [worker EXCEPT ![w].pc = "lease", ![w].job = Head(queue)]
  /\ InWorker

PollTimesOut(w) ==
  /\ At(w, "poll")
  /\ queue = <<>>
  /\ Goto(w, "loop")
  /\ UNCHANGED redisVars
  /\ InWorker

Lease(w) ==
  /\ At(w, "lease")
  /\ SetLease(worker[w].job)
  /\ Goto(w, "fetch")
  /\ InWorker

\* The worker skips a job that is finished or unknown and drops one whose
\* cancellation was asked for.  Variant first: it skips only unknown ones.
FetchFinished(w) ==
  /\ At(w, "fetch")
  /\ LET r == record[worker[w].job]
     IN  GotoWith(w, CASE r = NoRecord -> "ack"
                       [] r # NoRecord /\ r.cancel -> "drop"
                       [] OTHER -> "begin", r)
  /\ UNCHANGED redisVars
  /\ InWorker

Fetch(w) ==
  /\ At(w, "fetch")
  /\ LET r == record[worker[w].job]
     IN  GotoWith(w, CASE r.status \notin ACTIVE_STATUSES -> "ack"
                       [] r.status \in ACTIVE_STATUSES /\ r.cancel -> "drop"
                       [] OTHER -> "begin", r)
  /\ UNCHANGED redisVars
  /\ InWorker

SaveCopy(w, r) == Save(worker[w].job, r)

Drop(w) ==
  LET r == [worker[w].copy EXCEPT !.status = "cancelled"]
  IN  /\ At(w, "drop")
      /\ SaveCopy(w, r)
      /\ GotoWith(w, "ack", r)
      /\ InWorker

\* execute_validation_job loads the record again and runs whatever it finds.
Begin(w) ==
  /\ At(w, "begin")
  /\ LET r == record[worker[w].job]
     IN  GotoWith(w, IF r = NoRecord THEN "ack" ELSE "start", r)
  /\ UNCHANGED redisVars
  /\ InWorker

Start(w) ==
  LET r == [worker[w].copy EXCEPT !.status = "running"]
  IN  /\ At(w, "start")
      /\ SaveCopy(w, r)
      /\ GotoWith(w, "run", r)
      /\ InWorker

\* on_progress looks for a cancel request in the record Redis holds now, and
\* saves the worker's copy if there is none.
Progress(w) ==
  /\ At(w, "run")
  /\ IF record[worker[w].job].cancel
     THEN GotoWith(w, "finish", [worker[w].copy EXCEPT !.status = "cancelled"])
     ELSE Goto(w, "report")
  /\ UNCHANGED redisVars
  /\ InWorker

ReportProgress(w) ==
  /\ At(w, "report")
  /\ SaveCopy(w, worker[w].copy)
  /\ Goto(w, "run")
  /\ InWorker

\* The job's own computation returns or raises.
EndRun(w) ==
  /\ At(w, "run")
  /\ \E outcome \in {"completed", "failed"} :
       GotoWith(w, "finish", [worker[w].copy EXCEPT !.status = outcome])
  /\ UNCHANGED redisVars
  /\ InWorker

Finish(w) ==
  /\ At(w, "finish")
  /\ SaveCopy(w, worker[w].copy)
  /\ Goto(w, "ack")
  /\ InWorker

\* The workers that have taken a job and not acknowledged it.
AtWork(j) == {w \in Workers : /\ worker[w].pc \notin {"loop", "reap", "reclaim", "push", "poll"}
                             /\ worker[w].job = j}

\* Whoever else is at the job loses its place in the processing list.
AckJob(w) ==
  /\ At(w, "ack")
  /\ Ack(worker[w].job)
  /\ worker' = [worker EXCEPT ![w] = AtLoop]
  /\ cut' = (cut \cup AtWork(worker[w].job)) \ {w}
  /\ UNCHANGED <<api, setting, cancels, crashes, lost>>

-----------------------------------------------------------------------------
\* A kill that nothing recovers from: between the two commands by which the reaper moves
\* a job, or at a job that another worker was at too, which has acknowledged it for both
\* or is about to.
Loses(w) ==
  /\ Active(worker[w].job)
  /\ \/ At(w, "push")
     \/ w \in cut
     \/ \E v \in AtWork(worker[w].job) \ {w} : w \in AtWork(worker[w].job) /\ At(v, "ack")

\* A worker is killed and started again: all it knew is gone.
Killed(w) ==
  /\ crashes < setting.crashes
  /\ crashes' = crashes + 1
  /\ lost' = lost \cup {j \in Jobs : worker[w].job = j /\ Loses(w)}
  /\ cut' = (cut \cup IF At(w, "push") THEN AtWork(worker[w].job) ELSE {}) \ {w}
  /\ worker' = [worker EXCEPT ![w] = AtLoop]
  /\ UNCHANGED <<redisVars, api, setting, cancels>>

LeaseExpires(j) ==
  /\ LeaseRunsOut(j)
  /\ UNCHANGED <<worker, api, setting, cancels, crashes, history>>

-----------------------------------------------------------------------------
InApi == UNCHANGED <<worker, setting, cancels, crashes, history>>

\* POST /run: has_active reads the set of active jobs, then each record ...
\* Variant first: no has_active.
RequestUnchecked ==
  /\ api.pc = "idle"
  /\ api' = [Idle EXCEPT !.pc = "check"]
  /\ UNCHANGED redisVars
  /\ InApi

Request ==
  /\ api.pc = "idle"
  /\ api' = [Idle EXCEPT !.pc = "check", !.members = active]
  /\ UNCHANGED redisVars
  /\ InApi

CheckMember(j) ==
  /\ api.pc = "check"
  /\ j \in api.members
  /\ api' = IF Active(j) THEN Idle  \* 429
                         ELSE [api EXCEPT !.pc = "forget", !.job = j]
  /\ UNCHANGED redisVars
  /\ InApi

Forget ==
  /\ api.pc = "forget"
  /\ DropActive(api.job)
  /\ api' = [api EXCEPT !.pc = "check", !.job = NoJob, !.members = @ \ {api.job}]
  /\ InApi

\* ... and if no job was active, a new one is saved and then queued.
Create(j) ==
  /\ api.pc = "check"
  /\ api.members = {}
  /\ j \in setting.jobs
  /\ record[j] = NoRecord
  /\ Save(j, [NoRecord EXCEPT !.status = "pending"])
  /\ api' = [api EXCEPT !.pc = "enqueue", !.job = j]
  /\ InApi

Enqueue ==
  /\ api.pc = "enqueue"
  /\ Push(api.job)
  /\ api' = Idle
  /\ InApi

\* POST /{job_id}/cancel: request_cancel loads the record, and saves what it
\* loaded with the flag set.
Cancel(j) ==
  /\ api.pc = "idle"
  /\ cancels < setting.cancels
  /\ Active(j)
  /\ cancels' = cancels + 1
  /\ api' = [Idle EXCEPT !.pc = "cancel", !.job = j,
                         !.copy = [record[j] EXCEPT !.cancel = TRUE]]
  /\ UNCHANGED <<redisVars, worker, setting, crashes, history>>

SaveCancel ==
  /\ api.pc = "cancel"
  /\ Save(api.job, api.copy)
  /\ api' = Idle
  /\ InApi

-----------------------------------------------------------------------------
\* What a worker does once it has something to do.
Proceed(w) ==
  \/ \E j \in Jobs : Reap(w, j)
  \/ Reclaim(w)
  \/ PushReclaimed(w)
  \/ DoneReaping(w)
  \/ PollTimesOut(w)
  \/ Lease(w)
  \/ Fetch(w)
  \/ Drop(w)
  \/ Begin(w)
  \/ Start(w)
  \/ Progress(w)
  \/ ReportProgress(w)
  \/ Finish(w)
  \/ AckJob(w)

Serve ==
  \/ \E j \in Jobs : CheckMember(j)
  \/ Forget
  \/ \E j \in Jobs : Create(j)
  \/ Enqueue
  \/ SaveCancel

Next ==
  \/ \E w \in Workers :
       \/ StartReap(w)
       \/ Take(w)
       \/ Proceed(w)
       \/ EndRun(w)
       \/ Killed(w)
  \/ \E j \in Jobs : LeaseExpires(j) \/ Cancel(j)
  \/ Request
  \/ Serve

\* A worker's loop goes on; every minute it reaps; a poll of a queue that is
\* not empty every so often succeeds; a computation ends however often it
\* reports progress in between; a lease runs out.  Nobody has to send requests.
Fairness ==
  /\ \A w \in Workers : /\ WF_vars(Proceed(w))
                        /\ SF_vars(StartReap(w))
                        /\ SF_vars(Take(w))
                        /\ SF_vars(EndRun(w))
  /\ \A j \in Jobs : WF_vars(LeaseExpires(j))
  /\ WF_vars(Serve)

Spec == Init /\ [][Next]_vars /\ Fairness

-----------------------------------------------------------------------------
(***************************************************************************)
(* Properties.                                                             *)
(***************************************************************************)
\* Every variable keeps its type; no count of the processing list goes below
\* zero, however the reapers and acknowledgements interleave.
TypeOK ==
  /\ record \in [Jobs -> Record]
  /\ active \subseteq Jobs
  /\ queue \in Seq(Jobs)
  /\ processing \in [Jobs -> Nat]
  /\ lease \subseteq Jobs
  /\ worker \in [Workers -> [pc : WorkerSteps, job : Jobs \cup {NoJob},
                             copy : Record, toReap : SUBSET Jobs]]
  /\ api \in [pc : {"idle", "check", "forget", "enqueue", "cancel"},
              job : Jobs \cup {NoJob}, copy : Record, members : SUBSET Jobs]
  /\ setting \in Settings
  /\ cancels \in 0..setting.cancels
  /\ crashes \in 0..setting.crashes
  /\ cut \subseteq Workers
  /\ lost \subseteq Jobs

\* A job is never in two places: it stands in the queue once or in the
\* processing list once, or one reaper is about to push it, or the API is;
\* so reapers that run together put back one copy of what they find
\* (requeue_stale: "safe to call from multiple workers concurrently").
InQueue(j)  == \E i \in DOMAIN queue : queue[i] = j
Pushers(j)  == {w \in Workers : At(w, "push") /\ worker[w].job = j}
ApiHolds(j) == api.pc = "enqueue" /\ api.job = j

OneTicket ==
  /\ \A i, k \in DOMAIN queue : queue[i] = queue[k] => i = k
  /\ \A w, v \in Workers :
       At(w, "push") /\ At(v, "push") /\ worker[w].job = worker[v].job => w = v
  /\ \A j \in Jobs :
       /\ processing[j] <= 1
       /\ InQueue(j) => processing[j] = 0 /\ Pushers(j) = {} /\ ~ApiHolds(j)
       /\ processing[j] > 0 => Pushers(j) = {} /\ ~ApiHolds(j)
       /\ Pushers(j) # {} => ~ApiHolds(j)

\* A job that is pending or running, and that nobody asked to cancel, is
\* waiting in the queue, listed as being processed, in the hands of a worker,
\* or about to be queued, unless a kill came where Loses says.  Finishes rests on it.
Executing(w) == worker[w].pc \notin {"loop", "reap", "reclaim", "poll"}

NeverLost ==
  \A j \in Jobs \ lost :
    Active(j) /\ ~record[j].cancel =>
      \/ InQueue(j)
      \/ processing[j] > 0
      \/ ApiHolds(j)
      \/ \E w \in Workers : Executing(w) /\ worker[w].job = j

\* With one worker process, which is what docker-compose starts, has_active
\* answers from the very jobs whose records are active, so there is one job at
\* a time: "A validation job is already running."  (A second worker that is
\* given a job the first still runs saves its progress over the outcome.)
OneWorker == Cardinality(setting.workers) <= 1

OneActiveJob ==
  OneWorker =>
    /\ active = {j \in Jobs : Active(j)}
    /\ \A i, j \in Jobs : Active(i) /\ Active(j) => i = j

\* "If the worker crashes before acking, the job is never lost" (job_persistence.py:162).
\* The code does not keep this where Loses says.
NoneLost == lost = {}

\* Every job that is pending or running ends, or somebody asks to cancel it, or a kill
\* has come where Loses says and left it with nobody (blocking_dequeue, requeue_stale).
Forsaken(j) ==
  j \in lost /\ processing[j] = 0 /\ AtWork(j) \cup Pushers(j) = {} /\ ~InQueue(j)

Finishes ==
  \A j \in Jobs :
    Active(j) /\ ~record[j].cancel ~> ~Active(j) \/ record[j].cancel \/ Forsaken(j)

\* A job goes from pending to running to one outcome, and then stays as it
\* ended, though its worker dies and another life of it starts the job over:
\* with one worker, until a cancel request may have saved a stale record, the
\* queue implements JobBoard.
Board == INSTANCE JobBoard WITH status <- [j \in Jobs |-> record[j].status]

BoardSpec ==
  /\ Board!Init
  /\ [][OneWorker /\ setting.cancels = 0 => Board!Next]_(Board!vars)
=============================================================================
