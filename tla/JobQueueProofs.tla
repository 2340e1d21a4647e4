--------------------------- MODULE JobQueueProofs ---------------------------
(***************************************************************************)
(* OneTicket and NeverLost for any number of workers and jobs, OneActiveJob *)
(* and the refinement of JobBoard for one worker and any number of jobs.   *)
(***************************************************************************)
EXTENDS JobQueue, SequenceTheorems, FiniteSetTheorems, TLAPS

\* Whoever is past its first step has a job in hand, and so has the API.
HandsInv ==
  /\ \A w \in Workers : worker[w].pc \notin {"loop", "reap", "poll"} => worker[w].job \in Jobs
  /\ api.pc \in {"forget", "enqueue", "cancel"} => api.job \in Jobs

\* What a copy of a record says when it is about to be saved.
CopiesInv ==
  /\ \A w \in Workers :
       /\ worker[w].pc \in {"run", "report"} => worker[w].copy.status = "running"
       /\ worker[w].pc = "finish" => worker[w].copy.status \in Finished
  /\ api.pc = "cancel" => api.copy.status \in ACTIVE_STATUSES /\ api.copy.cancel

\* A job without a record was never handed to anybody.
UnknownInv ==
  \A j \in Jobs : record[j].status = "none" =>
    ~InQueue(j) /\ processing[j] = 0 /\ Pushers(j) = {} /\ ~ApiHolds(j)

\* What a worker knows.
Hand == [pc : WorkerSteps, job : Jobs \cup {NoJob}, copy : Record, toReap : SUBSET Jobs]

\* Any step of a worker, and any other.
WorkerStep(w) == StartReap(w) \/ Take(w) \/ Proceed(w) \/ EndRun(w) \/ Killed(w)
ApiStep ==
  \/ Request \/ Forget \/ Enqueue \/ SaveCancel
  \/ \E j \in Jobs : CheckMember(j) \/ Create(j) \/ Cancel(j) \/ LeaseExpires(j)

HandInv   == TypeOK /\ HandsInv /\ CopiesInv
TicketInv == HandInv /\ UnknownInv /\ OneTicket

-----------------------------------------------------------------------------
(* With one worker process. *)

\* The steps from taking a job to acknowledging it, and those of them in
\* which the worker has found the job to be active.
Holding == {"lease", "fetch", "drop", "begin", "start", "run", "report", "finish", "ack"}
Running == {"drop", "begin", "start", "run", "report", "finish"}

\* The processes that were never started do nothing.
CrewInv == \A w \in Workers : w \notin setting.workers => worker[w].pc = "loop"

\* A worker runs what is active, and what has_active is still to check
\* includes every job that is; a job it forgets is not, and while a cancel
\* request is being saved no other job is.
RunsActiveInv ==
  \A w \in Workers : worker[w].pc \in Running => Active(worker[w].job)

CheckInv ==
  /\ api.pc \in {"check", "forget"} => \A j \in Jobs : Active(j) => j \in api.members
  /\ api.pc = "forget" => ~Active(api.job)
  /\ api.pc = "cancel" => \A j \in Jobs : Active(j) => j = api.job

AloneInv == CrewInv /\ (OneWorker => RunsActiveInv /\ CheckInv)

\* Unless somebody may cancel, a worker that has started a job finds its
\* record as it left it.
UncancelledInv ==
  OneWorker /\ setting.cancels = 0 =>
    /\ api.pc # "cancel"
    /\ \A w \in Workers : worker[w].pc \in {"run", "report", "finish"} =>
         record[worker[w].job].status = "running"

ActiveInv == TicketInv /\ AloneInv /\ OneActiveJob /\ UncancelledInv

-----------------------------------------------------------------------------
(* Every job in hand is a job, and every record a record. *)

\* Nothing is in anybody's hands at first.
LEMMA InitHand == Init => HandInv
<1> SUFFICES ASSUME Init PROVE HandInv
  OBVIOUS
<1>1. TypeOK
  BY QueueAssumption
  DEF Init, PersistenceInit, TypeOK, AtLoop, Idle, NoRecord, Record, WorkerSteps, ACTIVE_STATUSES, Setting
<1>2. HandsInv /\ CopiesInv
  BY DEF Init, AtLoop, Idle, HandsInv, CopiesInv
<1> QED
  BY <1>1, <1>2 DEF HandInv

\* A record of which the status is changed.
LEMMA RecordWith ==
  ASSUME NEW r \in Record, NEW st \in {"running", "completed", "failed", "cancelled"}
  PROVE  /\ [r EXCEPT !.status = st] \in Record
         /\ [r EXCEPT !.status = st].status = st
         /\ [r EXCEPT !.status = st].cancel = r.cancel
<1> QED
  BY DEF Record, ACTIVE_STATUSES, Finished

\* A worker's step is no other worker's, and leaves it with what a worker knows.
LEMMA WorkersApart ==
  ASSUME HandInv, NEW w \in Workers, WorkerStep(w)
  PROVE  /\ worker' \in [Workers -> Hand]
         /\ \A v \in Workers : v # w => worker'[v] = worker[v]
<1>1. worker \in [Workers -> Hand]
  BY DEF HandInv, TypeOK, Hand
<1>2. queue # <<>> => Head(queue) \in Jobs
  BY DEF HandInv, TypeOK
<1>3. \A j \in Jobs : record[j] \in Record
  BY DEF HandInv, TypeOK
<1>4. \A st \in {"running", "completed", "failed", "cancelled"} :
        [worker[w].copy EXCEPT !.status = st] \in Record
  BY <1>1, RecordWith DEF Hand
<1>5. worker[w].pc \notin {"loop", "reap", "poll"} => worker[w].job \in Jobs
  BY DEF HandInv, HandsInv
<1>6. AtLoop \in Hand
  BY DEF Hand, AtLoop, NoRecord, Record, WorkerSteps
<1>10. CASE StartReap(w)
  BY <1>1, <1>10 DEF StartReap, Hand, WorkerSteps
<1>11. CASE Take(w)
  BY <1>1, <1>2, <1>11 DEF Take, MoveHead, Hand, WorkerSteps
<1>12. ASSUME NEW j \in Jobs, Reap(w, j)
       PROVE  /\ worker' \in [Workers -> Hand]
              /\ \A v \in Workers : v # w => worker'[v] = worker[v]
  <2>1. PICK p \in {"reap", "reclaim"}, i \in Jobs \cup {NoJob}, t \in SUBSET Jobs :
          worker' = [worker EXCEPT ![w].toReap = t, ![w].pc = p, ![w].job = i]
    <3>1. worker[w].toReap \ {j} \in SUBSET Jobs
      BY <1>1 DEF Hand
    <3>2. CASE j \in lease
      BY <1>12, <3>1, <3>2 DEF Reap
    <3>3. CASE j \notin lease
      BY <1>12, <3>1, <3>3 DEF Reap
    <3> QED
      BY <3>2, <3>3
  <2> DEFINE f == [worker EXCEPT ![w].toReap = t, ![w].pc = p]
  <2>2. f \in [Workers -> Hand] /\ \A v \in Workers : v # w => f[v] = worker[v]
    BY <1>1 DEF Hand, WorkerSteps
  <2>3. worker' = [f EXCEPT ![w].job = i]
    BY <2>1
  <2> HIDE DEF f
  <2> QED
    BY <2>2, <2>3 DEF Hand
<1>13. CASE Reclaim(w)
  <2>1. PICK p \in {"push", "reap"}, i \in {worker[w].job, NoJob} :
          worker' = [worker EXCEPT ![w].pc = p, ![w].job = i]
    <3>1. CASE processing[worker[w].job] > 0
      BY <1>1, <1>13, <3>1 DEF Reclaim
    <3>2. CASE ~(processing[worker[w].job] > 0)
      BY <1>1, <1>13, <3>2 DEF Reclaim
    <3> QED
      BY <3>1, <3>2
  <2> QED
    BY <1>1, <2>1 DEF Hand, WorkerSteps
<1>14. CASE PushReclaimed(w)
  BY <1>1, <1>14 DEF PushReclaimed, Hand, WorkerSteps
<1>15. CASE DoneReaping(w) \/ PollTimesOut(w) \/ Lease(w) \/ ReportProgress(w) \/ Finish(w)
  BY <1>1, <1>15 DEF DoneReaping, PollTimesOut, Lease, ReportProgress, Finish, Goto, Hand, WorkerSteps
<1>16. CASE Fetch(w)
  <2>1. PICK p \in {"ack", "drop", "begin"} :
          worker' = [worker EXCEPT ![w].pc = p, ![w].copy = record[worker[w].job]]
    BY <1>16 DEF Fetch, GotoWith
  <2>2. record[worker[w].job] \in Record
    BY <1>3, <1>5, <1>16 DEF Fetch, At
  <2> QED
    BY <1>1, <2>1, <2>2 DEF Hand, WorkerSteps
<1>17. CASE Begin(w)
  <2>1. PICK p \in {"ack", "start"} :
          worker' = [worker EXCEPT ![w].pc = p, ![w].copy = record[worker[w].job]]
    BY <1>17 DEF Begin, GotoWith
  <2>2. record[worker[w].job] \in Record
    BY <1>3, <1>5, <1>17 DEF Begin, At
  <2> QED
    BY <1>1, <2>1, <2>2 DEF Hand, WorkerSteps
<1>18. CASE Drop(w)
  BY <1>1, <1>4, <1>18 DEF Drop, GotoWith, Hand, WorkerSteps
<1>22. CASE Start(w)
  BY <1>1, <1>4, <1>22 DEF Start, GotoWith, Hand, WorkerSteps
<1>19. CASE Progress(w)
  BY <1>1, <1>4, <1>19 DEF Progress, Goto, GotoWith, Hand, WorkerSteps
<1>20. CASE EndRun(w)
  <2>1. PICK outcome \in {"completed", "failed"} :
          GotoWith(w, "finish", [worker[w].copy EXCEPT !.status = outcome])
    BY <1>20 DEF EndRun
  <2> QED
    BY <1>1, <1>4, <2>1 DEF GotoWith, Hand, WorkerSteps
<1>21. CASE AckJob(w) \/ Killed(w)
  BY <1>1, <1>6, <1>21 DEF AckJob, Killed
<1> QED
  BY <1>10, <1>11, <1>12, <1>13, <1>14, <1>15, <1>16, <1>17, <1>18, <1>19, <1>20, <1>21, <1>22
  DEF WorkerStep, Proceed

\* Redis keeps its types, and what a worker leaves alone stays.
LEMMA RedisWorker ==
  ASSUME HandInv, NEW w \in Workers, WorkerStep(w)
  PROVE  /\ record' \in [Jobs -> Record]
         /\ active' \subseteq Jobs
         /\ queue' \in Seq(Jobs)
         /\ processing' \in [Jobs -> Nat]
         /\ lease' \subseteq Jobs
         /\ UNCHANGED <<api, setting, cancels>>
         /\ crashes' \in 0..setting.crashes
         /\ cut' \subseteq Workers /\ lost' \subseteq Jobs
<1>1. /\ record \in [Jobs -> Record]
      /\ active \subseteq Jobs
      /\ queue \in Seq(Jobs)
      /\ processing \in [Jobs -> Nat]
      /\ lease \subseteq Jobs
      /\ crashes \in 0..setting.crashes
      /\ cut \subseteq Workers /\ lost \subseteq Jobs
  BY DEF HandInv, TypeOK
<1>2. worker \in [Workers -> Hand]
  BY DEF HandInv, TypeOK, Hand
<1>3. worker[w].copy \in Record
  BY <1>2 DEF Hand
<1>4. worker[w].pc \notin {"loop", "reap", "poll"} => worker[w].job \in Jobs
  BY DEF HandInv, HandsInv
<1> USE DEF redisVars, InWorker, At, history
<1>10. CASE StartReap(w) \/ DoneReaping(w) \/ PollTimesOut(w) \/ Fetch(w) \/ Begin(w) \/ Progress(w) \/ EndRun(w)
  BY <1>1, <1>10 DEF StartReap, DoneReaping, PollTimesOut, Fetch, Begin, Progress, EndRun
<1>11. CASE Take(w)
  <2>1. Head(queue) \in Jobs /\ Tail(queue) \in Seq(Jobs)
    BY <1>1, <1>11 DEF Take, MoveHead
  <2> QED
    BY <1>1, <1>11, <2>1 DEF Take, MoveHead
<1>12. ASSUME NEW j \in Jobs, Reap(w, j)
       PROVE  /\ lease' \subseteq Jobs
              /\ UNCHANGED <<record, active, queue, processing, api, setting, cancels, crashes, cut, lost>>
  BY <1>1, <1>12 DEF Reap, TakeLease
<1>13. CASE Reclaim(w)
  <2> DEFINE n == processing[worker[w].job]
  <2>1. n \in Nat /\ (IF n = 0 THEN 0 ELSE n - 1) \in Nat
    BY <1>1, <1>4, <1>13 DEF Reclaim
  <2>2. processing' \in [Jobs -> Nat]
    BY <1>1, <1>13, <2>1 DEF Reclaim, RemoveOne
  <2> QED
    BY <1>1, <1>13, <2>2 DEF Reclaim, RemoveOne
<1>14. CASE PushReclaimed(w)
  BY <1>1, <1>4, <1>14 DEF PushReclaimed, Push
<1>15. CASE Lease(w)
  BY <1>1, <1>4, <1>15 DEF Lease, SetLease
<1>16. CASE Drop(w)
  <2>1. [worker[w].copy EXCEPT !.status = "cancelled"] \in Record
    BY <1>3, RecordWith
  <2> QED
    BY <1>1, <1>4, <1>16, <2>1 DEF Drop, SaveCopy, Save
<1>17. CASE Start(w)
  <2>1. [worker[w].copy EXCEPT !.status = "running"] \in Record
    BY <1>3, RecordWith
  <2> QED
    BY <1>1, <1>4, <1>17, <2>1 DEF Start, SaveCopy, Save
<1>18. CASE ReportProgress(w) \/ Finish(w)
  BY <1>1, <1>3, <1>4, <1>18 DEF ReportProgress, Finish, SaveCopy, Save
<1>19. CASE AckJob(w)
  BY <1>1, <1>19 DEF AckJob, Ack, AtWork
<1>20. CASE Killed(w)
  <2>1. setting \in Setting
    BY QueueAssumption DEF HandInv, TypeOK
  <2> QED
    BY <1>1, <1>20, <2>1 DEF Killed, Setting, AtWork
<1> QED
  BY <1>1, <1>10, <1>11, <1>12, <1>13, <1>14, <1>15, <1>16, <1>17, <1>18, <1>19, <1>20
  DEF WorkerStep, Proceed

\* Whatever a worker does, what it holds and saves keeps its type.
LEMMA HandWorker ==
  ASSUME HandInv, NEW w \in Workers, WorkerStep(w)
  PROVE  HandInv'
<1>1. worker' \in [Workers -> Hand] /\ \A v \in Workers : v # w => worker'[v] = worker[v]
  BY WorkersApart
<1>2. worker \in [Workers -> Hand]
  BY DEF HandInv, TypeOK, Hand
<1>3. TypeOK'
  BY <1>1, RedisWorker DEF HandInv, TypeOK, Hand
<1>4. UNCHANGED api
  BY RedisWorker
<1>5. worker[w].pc \notin {"loop", "reap", "poll"} => worker[w].job \in Jobs
  BY DEF HandInv, HandsInv
<1>6. queue # <<>> => Head(queue) \in Jobs
  BY DEF HandInv, TypeOK
<1>7. worker'[w].pc \notin {"loop", "reap", "poll"} => worker'[w].job \in Jobs
  <2> USE DEF Hand, At
  <2>1. CASE StartReap(w) \/ DoneReaping(w) \/ PollTimesOut(w) \/ Killed(w) \/ AckJob(w) \/ PushReclaimed(w)
    BY <1>2, <2>1 DEF StartReap, DoneReaping, PollTimesOut, Killed, AckJob, PushReclaimed, Goto, AtLoop
  <2>2. CASE Take(w)
    BY <1>2, <1>6, <2>2 DEF Take, MoveHead
  <2>3. ASSUME NEW j \in Jobs, Reap(w, j)
        PROVE  worker'[w].pc \notin {"loop", "reap", "poll"} => worker'[w].job \in Jobs
    BY <1>2, <2>3 DEF Reap
  <2>4. CASE Reclaim(w)
    BY <1>2, <1>5, <2>4 DEF Reclaim
  <2>5. CASE Lease(w) \/ ReportProgress(w) \/ Finish(w) \/ Progress(w)
    BY <1>2, <1>5, <2>5 DEF Lease, ReportProgress, Finish, Progress, Goto, GotoWith
  <2>6. CASE Fetch(w) \/ Drop(w) \/ Begin(w) \/ Start(w) \/ EndRun(w)
    BY <1>2, <1>5, <2>6 DEF Fetch, Drop, Begin, Start, EndRun, GotoWith
  <2> QED
    BY <2>1, <2>2, <2>3, <2>4, <2>5, <2>6 DEF WorkerStep, Proceed
<1>8. HandsInv'
  BY <1>1, <1>4, <1>7 DEF HandInv, HandsInv
<1>9. /\ worker'[w].pc \in {"run", "report"} => worker'[w].copy.status = "running"
      /\ worker'[w].pc = "finish" => worker'[w].copy.status \in Finished
  <2>1. worker[w].copy \in Record
    BY <1>2 DEF Hand
  <2>2. worker[w].pc \in {"run", "report"} => worker[w].copy.status = "running"
    BY DEF HandInv, CopiesInv
  <2> USE DEF Hand, At
  <2>3. CASE StartReap(w) \/ DoneReaping(w) \/ PollTimesOut(w) \/ Killed(w) \/ AckJob(w) \/ PushReclaimed(w)
    BY <1>2, <2>3 DEF StartReap, DoneReaping, PollTimesOut, Killed, AckJob, PushReclaimed, Goto, AtLoop
  <2>4. CASE Take(w) \/ Lease(w)
    BY <1>2, <2>4 DEF Take, MoveHead, Lease, Goto
  <2>5. ASSUME NEW j \in Jobs, Reap(w, j)
        PROVE  worker'[w].pc \in {"reap", "reclaim"}
    BY <1>2, <2>5 DEF Reap
  <2>6. CASE Reclaim(w)
    BY <1>2, <2>6 DEF Reclaim
  <2>7. CASE Fetch(w) \/ Drop(w) \/ Begin(w)
    BY <1>2, <2>7 DEF Fetch, Drop, Begin, GotoWith
  <2>8. CASE Start(w)
    BY <1>2, <2>1, <2>8, RecordWith DEF Start, GotoWith
  <2>9. CASE Progress(w)
    <3>1. [worker[w].copy EXCEPT !.status = "cancelled"].status = "cancelled"
      BY <2>1, RecordWith
    <3>2. CASE record[worker[w].job].cancel
      BY <1>2, <2>9, <3>1, <3>2 DEF Progress, GotoWith, Finished
    <3>3. CASE ~record[worker[w].job].cancel
      BY <1>2, <2>2, <2>9, <3>3 DEF Progress, Goto
    <3> QED
      BY <3>2, <3>3
  <2>10. CASE ReportProgress(w) \/ Finish(w)
    BY <1>2, <2>2, <2>10 DEF ReportProgress, Finish, Goto
  <2>11. CASE EndRun(w)
    BY <1>2, <2>1, <2>11, RecordWith DEF EndRun, GotoWith, Finished
  <2> QED
    BY <2>3, <2>4, <2>5, <2>6, <2>7, <2>8, <2>9, <2>10, <2>11 DEF WorkerStep, Proceed
<1>10. CopiesInv'
  BY <1>1, <1>4, <1>9 DEF HandInv, CopiesInv
<1> QED
  BY <1>3, <1>8, <1>10 DEF HandInv

\* What the API and the leases do keeps it too.
LEMMA HandApi ==
  ASSUME HandInv, ApiStep
  PROVE  HandInv'
<1> USE QueueAssumption DEF HandInv
<1>1. /\ record \in [Jobs -> Record]
      /\ active \subseteq Jobs
      /\ queue \in Seq(Jobs)
      /\ lease \subseteq Jobs
      /\ api.members \subseteq Jobs
      /\ api.copy \in Record
      /\ cancels \in 0..setting.cancels
      /\ setting \in Setting
      /\ cut \subseteq Workers /\ lost \subseteq Jobs
  BY DEF TypeOK
<1>2. NoRecord \in Record
  BY DEF NoRecord, Record
<1>3. api.pc \in {"forget", "enqueue", "cancel"} => api.job \in Jobs
  BY DEF HandsInv
<1>4. Idle.pc = "idle"
  BY DEF Idle
<1> USE DEF redisVars, InApi, history
<1>5. CASE Request
  BY <1>1, <1>2, <1>5 DEF Request, TypeOK, HandsInv, CopiesInv, Idle
<1>6. ASSUME NEW j \in Jobs, CheckMember(j) PROVE HandInv'
  BY <1>1, <1>2, <1>6 DEF CheckMember, TypeOK, HandsInv, CopiesInv, Idle
<1>7. CASE Forget
  BY <1>1, <1>2, <1>7 DEF Forget, DropActive, TypeOK, HandsInv, CopiesInv, Idle
<1>8. ASSUME NEW j \in Jobs, Create(j) PROVE HandInv'
  BY <1>1, <1>2, <1>8 DEF Create, Save, TypeOK, HandsInv, CopiesInv, Record, NoRecord, ACTIVE_STATUSES
<1>9. CASE Enqueue
  BY <1>1, <1>2, <1>3, <1>9 DEF Enqueue, Push, TypeOK, HandsInv, CopiesInv, Idle
<1>10. ASSUME NEW j \in Jobs, Cancel(j) PROVE HandInv'
  <2> DEFINE r == [record[j] EXCEPT !.cancel = TRUE]
  <2>1. r \in Record /\ r.status \in ACTIVE_STATUSES /\ r.cancel
    BY <1>1, <1>10 DEF Cancel, Active, Record
  <2>2. cancels' \in 0..setting.cancels
    <3>1. setting.cancels \in Nat
      BY <1>1 DEF Setting
    <3>2. cancels \in 0..setting.cancels /\ cancels < setting.cancels /\ cancels' = cancels + 1
      BY <1>1, <1>10 DEF Cancel
    <3> QED
      BY <3>1, <3>2
  <2>3. api' = [pc |-> "cancel", job |-> j, copy |-> r, members |-> {}]
    BY <1>10 DEF Cancel, Idle
  <2>4. UNCHANGED <<redisVars, worker, setting, crashes, history>>
    BY <1>10 DEF Cancel
  <2> HIDE DEF r
  <2>5. TypeOK'
    BY <2>1, <2>2, <2>3, <2>4 DEF TypeOK
  <2>6. HandsInv' /\ CopiesInv'
    BY <2>1, <2>3, <2>4 DEF HandsInv, CopiesInv
  <2> QED
    BY <2>5, <2>6
<1>11. CASE SaveCancel
  BY <1>1, <1>2, <1>3, <1>11 DEF SaveCancel, Save, TypeOK, HandsInv, CopiesInv, Idle
<1>12. ASSUME NEW j \in Jobs, LeaseExpires(j) PROVE HandInv'
  BY <1>1, <1>12 DEF LeaseExpires, LeaseRunsOut, TypeOK, HandsInv, CopiesInv
<1> QED
  BY <1>5, <1>6, <1>7, <1>8, <1>9, <1>10, <1>11, <1>12 DEF ApiStep

-----------------------------------------------------------------------------
(* No job in two places. *)

\* No element stands in a list twice.
Once(q)      == \A i, k \in DOMAIN q : q[i] = q[k] => i = k
Stands(q, j) == \E i \in DOMAIN q : q[i] = j

\* Queueing what is not queued.
LEMMA AppendOnce ==
  ASSUME NEW S, NEW q \in Seq(S), NEW e \in S
  PROVE  /\ \A x : Stands(Append(q, e), x) <=> Stands(q, x) \/ x = e
         /\ Once(q) /\ ~Stands(q, e) => Once(Append(q, e))
<1>1. /\ DOMAIN q = 1..Len(q) /\ Len(q) \in Nat
      /\ DOMAIN Append(q, e) = 1..(Len(q) + 1)
      /\ \A i \in 1..Len(q) : Append(q, e)[i] = q[i]
      /\ Append(q, e)[Len(q) + 1] = e
  BY AppendProperties
<1> DEFINE a == Append(q, e)
<1> HIDE DEF a
<1>2. /\ DOMAIN a = 1..(Len(q) + 1)
      /\ \A i \in 1..Len(q) : a[i] = q[i]
      /\ a[Len(q) + 1] = e
  BY <1>1 DEF a
<1>3. \A x : Stands(a, x) <=> Stands(q, x) \/ x = e
  BY <1>1, <1>2 DEF Stands
<1>4. ASSUME Once(q), ~Stands(q, e) PROVE Once(a)
  BY <1>1, <1>2, <1>4 DEF Once, Stands
<1> QED
  BY <1>3, <1>4 DEF a

\* Taking the head of a list.
LEMMA TailOnce ==
  ASSUME NEW S, NEW q \in Seq(S), q # <<>>, Once(q)
  PROVE  /\ Once(Tail(q))
         /\ \A x : Stands(Tail(q), x) <=> Stands(q, x) /\ x # Head(q)
<1>1. /\ DOMAIN q = 1..Len(q) /\ Len(q) \in Nat \ {0}
      /\ DOMAIN Tail(q) = 1..(Len(q) - 1)
      /\ \A i \in 1..(Len(q) - 1) : Tail(q)[i] = q[i + 1]
      /\ Head(q) = q[1]
  BY HeadTailProperties, EmptySeq
<1> DEFINE t == Tail(q)
<1> HIDE DEF t
<1>2. /\ DOMAIN t = 1..(Len(q) - 1)
      /\ \A i \in 1..(Len(q) - 1) : t[i] = q[i + 1]
  BY <1>1 DEF t
<1>3. Once(t)
  <2> SUFFICES ASSUME NEW i \in DOMAIN t, NEW k \in DOMAIN t, t[i] = t[k] PROVE i = k
    BY DEF Once
  <2>1. i + 1 \in DOMAIN q /\ k + 1 \in DOMAIN q /\ q[i + 1] = q[k + 1]
    BY <1>1, <1>2
  <2> QED
    BY <1>1, <1>2, <2>1 DEF Once
<1>4. ASSUME NEW x, Stands(t, x) PROVE Stands(q, x) /\ x # Head(q)
  <2>1. PICK i \in DOMAIN t : t[i] = x
    BY <1>4 DEF Stands
  <2>2. i + 1 \in DOMAIN q /\ q[i + 1] = x /\ 1 \in DOMAIN q /\ i + 1 # 1
    BY <1>1, <1>2, <2>1
  <2> QED
    BY <1>1, <2>2 DEF Stands, Once
<1>5. ASSUME NEW x, Stands(q, x), x # Head(q) PROVE Stands(t, x)
  <2>1. PICK i \in DOMAIN q : q[i] = x
    BY <1>5 DEF Stands
  <2>2. i - 1 \in DOMAIN t /\ t[i - 1] = x
    BY <1>1, <1>2, <1>5, <2>1
  <2> QED
    BY <2>2 DEF Stands
<1> QED
  BY <1>3, <1>4, <1>5 DEF t

\* Whatever is saved, a job that has a record keeps one.
LEMMA RecordsStay ==
  ASSUME HandInv, NEW w \in Workers, WorkerStep(w), NEW j \in Jobs, record'[j].status = "none"
  PROVE  record[j].status = "none"
<1>1. record \in [Jobs -> Record] /\ worker \in [Workers -> Hand]
  BY DEF HandInv, TypeOK, Hand
<1>2. /\ worker[w].pc \in {"run", "report"} => worker[w].copy.status = "running"
      /\ worker[w].pc = "finish" => worker[w].copy.status \in Finished
  BY DEF HandInv, CopiesInv
<1>3. worker[w].copy \in Record
  BY <1>1 DEF Hand
<1> USE DEF At, redisVars
<1>4. CASE StartReap(w) \/ DoneReaping(w) \/ PollTimesOut(w) \/ Fetch(w) \/ Begin(w) \/ Progress(w) \/ EndRun(w) \/ Killed(w)
  BY <1>4 DEF StartReap, DoneReaping, PollTimesOut, Fetch, Begin, Progress, EndRun, Killed
<1>5. CASE Take(w) \/ Reclaim(w) \/ PushReclaimed(w) \/ Lease(w) \/ AckJob(w)
  BY <1>5 DEF Take, MoveHead, Reclaim, RemoveOne, PushReclaimed, Push, Lease, SetLease, AckJob, Ack
<1>6. ASSUME NEW i \in Jobs, Reap(w, i) PROVE UNCHANGED record
  BY <1>6 DEF Reap, TakeLease
<1>7. CASE Drop(w)
  BY <1>1, <1>3, <1>7, RecordWith DEF Drop, SaveCopy, Save
<1>8. CASE Start(w)
  BY <1>1, <1>3, <1>8, RecordWith DEF Start, SaveCopy, Save
<1>9. CASE ReportProgress(w) \/ Finish(w)
  BY <1>1, <1>2, <1>9 DEF ReportProgress, Finish, SaveCopy, Save, Finished
<1> QED
  BY <1>4, <1>5, <1>6, <1>7, <1>8, <1>9 DEF WorkerStep, Proceed

\* A worker's step leaves every job in one place, and unknown jobs nowhere.
LEMMA TicketWorker ==
  ASSUME TicketInv, NEW w \in Workers, WorkerStep(w)
  PROVE  UnknownInv' /\ OneTicket'
<1> USE DEF TicketInv
<1>1. worker' \in [Workers -> Hand] /\ \A v \in Workers : v # w => worker'[v] = worker[v]
  BY WorkersApart
<1>2. worker \in [Workers -> Hand] /\ queue \in Seq(Jobs) /\ processing \in [Jobs -> Nat]
  BY DEF HandInv, TypeOK, Hand
<1>3. api' = api
  BY RedisWorker
<1>4. \A j \in Jobs : record'[j].status = "none" => record[j].status = "none"
  BY RecordsStay
<1>5. worker[w].pc \notin {"loop", "reap", "poll"} => worker[w].job \in Jobs
  BY DEF HandInv, HandsInv
<1> USE DEF At
<1>6. ASSUME UNCHANGED queue, worker'[w].pc # "push",
             \A j \in Jobs : processing'[j] = processing[j] \/ processing'[j] = 0
      PROVE  UnknownInv' /\ OneTicket'
  <2>1. \A j \in Jobs : Pushers(j)' \subseteq Pushers(j)
    BY <1>1, <1>6 DEF Pushers
  <2> QED
    BY <1>1, <1>2, <1>3, <1>4, <1>6, <2>1 DEF UnknownInv, OneTicket, InQueue, ApiHolds
<1>7. CASE StartReap(w) \/ DoneReaping(w) \/ PollTimesOut(w) \/ Progress(w) \/ Killed(w)
  BY <1>2, <1>6, <1>7
  DEF StartReap, DoneReaping, PollTimesOut, Progress, Killed, Goto, GotoWith, AtLoop, Hand, redisVars
<1>8. CASE Fetch(w) \/ Begin(w) \/ EndRun(w)
  BY <1>2, <1>6, <1>8 DEF Fetch, Begin, EndRun, GotoWith, Hand, redisVars
<1>9. CASE Lease(w) \/ Drop(w) \/ Start(w) \/ ReportProgress(w) \/ Finish(w)
  BY <1>2, <1>6, <1>9
  DEF Lease, SetLease, Drop, Start, ReportProgress, Finish, SaveCopy, Save, Goto, GotoWith, Hand
<1>10. CASE AckJob(w)
  BY <1>2, <1>6, <1>10 DEF AckJob, Ack, AtLoop, Hand
<1>11. ASSUME NEW i \in Jobs, Reap(w, i) PROVE UnknownInv' /\ OneTicket'
  BY <1>2, <1>6, <1>11 DEF Reap, TakeLease, Hand
<1>12. CASE Take(w)
  <2> DEFINE h == Head(queue)
  <2>1. /\ queue # <<>> /\ queue' = Tail(queue)
        /\ processing' = [processing EXCEPT ![h] = @ + 1]
        /\ worker'[w].pc = "lease"
    BY <1>2, <1>12 DEF Take, MoveHead, Hand
  <2>2. Once(queue)
    BY DEF OneTicket, Once
  <2>3. Once(queue') /\ \A x : Stands(queue', x) <=> Stands(queue, x) /\ x # h
    BY <1>2, <2>1, <2>2, TailOnce
  <2>4. h \in Jobs /\ Stands(queue, h)
    <3>1. 1 \in DOMAIN queue /\ h = queue[1]
      BY <1>2, <2>1, HeadTailProperties, EmptySeq
    <3> QED
      BY <1>2, <3>1 DEF Stands
  <2>5. \A j \in Jobs : InQueue(j) <=> Stands(queue, j)
    BY DEF InQueue, Stands
  <2>6. \A j \in Jobs : InQueue(j)' <=> Stands(queue', j)
    BY DEF InQueue, Stands
  <2>7. \A j \in Jobs : Pushers(j)' \subseteq Pushers(j)
    BY <1>1, <2>1 DEF Pushers
  <2>8. processing[h] = 0 /\ processing'[h] = 1 /\ \A j \in Jobs : j # h => processing'[j] = processing[j]
    BY <1>2, <2>1, <2>4, <2>5 DEF OneTicket
  <2> HIDE DEF h
  <2>9. UnknownInv'
    BY <1>3, <1>4, <2>3, <2>4, <2>5, <2>6, <2>7, <2>8 DEF UnknownInv, ApiHolds
  <2>10. \A i, k \in DOMAIN queue' : queue'[i] = queue'[k] => i = k
    BY <2>3 DEF Once
  <2>11. \A v, u \in Workers :
           At(v, "push")' /\ At(u, "push")' /\ worker'[v].job = worker'[u].job => v = u
    BY <1>1, <2>1 DEF OneTicket
  <2>12. \A j \in Jobs :
           /\ processing'[j] <= 1
           /\ InQueue(j)' => processing'[j] = 0 /\ Pushers(j)' = {} /\ ~ApiHolds(j)'
           /\ processing'[j] > 0 => Pushers(j)' = {} /\ ~ApiHolds(j)'
           /\ Pushers(j)' # {} => ~ApiHolds(j)'
    BY <1>3, <2>3, <2>4, <2>5, <2>6, <2>7, <2>8 DEF OneTicket, ApiHolds
  <2> QED
    BY <2>9, <2>10, <2>11, <2>12 DEF OneTicket
<1>13. CASE Reclaim(w)
  <2> DEFINE h == worker[w].job
  <2>1. h \in Jobs /\ worker[w].pc = "reclaim"
    BY <1>5, <1>13 DEF Reclaim
  <2>2. UNCHANGED queue /\ processing' = [processing EXCEPT ![h] = IF @ = 0 THEN 0 ELSE @ - 1]
    BY <1>13 DEF Reclaim, RemoveOne
  <2>3. processing[h] <= 1 /\ processing[h] \in Nat
    BY <1>2, <2>1 DEF OneTicket
  <2>4. CASE processing[h] > 0
    <3>1. /\ processing'[h] = 0 /\ \A j \in Jobs : j # h => processing'[j] = processing[j]
          /\ processing[h] = 1
      BY <1>2, <2>1, <2>2, <2>3, <2>4
    <3>2. worker'[w].pc = "push" /\ worker'[w].job = h
      BY <1>2, <1>13, <2>4 DEF Reclaim, Hand
    <3> HIDE DEF h
    <3>3. \A j \in Jobs : Pushers(j)' = IF j = h THEN Pushers(j) \cup {w} ELSE Pushers(j)
      BY <1>1, <2>1, <3>2 DEF Pushers
    <3>4. ~InQueue(h) /\ Pushers(h) = {} /\ ~ApiHolds(h) /\ record[h].status # "none"
      BY <2>1, <3>1 DEF OneTicket, UnknownInv
    <3>5. \A j \in Jobs : InQueue(j)' <=> InQueue(j)
      BY <2>2 DEF InQueue
    <3>6. UnknownInv'
      BY <1>3, <1>4, <2>1, <3>1, <3>3, <3>4, <3>5 DEF UnknownInv, ApiHolds
    <3>7. \A v, u \in Workers :
            At(v, "push")' /\ At(u, "push")' /\ worker'[v].job = worker'[u].job => v = u
      BY <1>1, <3>2, <3>4 DEF OneTicket, Pushers
    <3>8. \A j \in Jobs :
            /\ processing'[j] <= 1
            /\ InQueue(j)' => processing'[j] = 0 /\ Pushers(j)' = {} /\ ~ApiHolds(j)'
            /\ processing'[j] > 0 => Pushers(j)' = {} /\ ~ApiHolds(j)'
            /\ Pushers(j)' # {} => ~ApiHolds(j)'
      BY <1>3, <3>1, <3>3, <3>4, <3>5 DEF OneTicket, ApiHolds
    <3>9. \A i, k \in DOMAIN queue' : queue'[i] = queue'[k] => i = k
      BY <2>2 DEF OneTicket
    <3> QED
      BY <3>6, <3>7, <3>8, <3>9 DEF OneTicket
  <2>5. CASE ~(processing[h] > 0)
    <3>1. \A j \in Jobs : processing'[j] = processing[j]
      BY <1>2, <2>1, <2>2, <2>3, <2>5
    <3>2. worker'[w].pc = "reap"
      BY <1>2, <1>13, <2>5 DEF Reclaim, Hand
    <3> QED
      BY <1>6, <2>2, <3>1, <3>2
  <2> QED
    BY <2>4, <2>5
<1>14. CASE PushReclaimed(w)
  <2>1. PICK h \in Jobs : h = worker[w].job /\ worker[w].pc = "push"
    BY <1>5, <1>14 DEF PushReclaimed
  <2>2. queue' = Append(queue, h) /\ UNCHANGED processing /\ worker'[w].pc = "reap"
    BY <1>2, <1>14, <2>1 DEF PushReclaimed, Push, Hand
  <2>3. w \in Pushers(h)
    BY <2>1 DEF Pushers
  <2>4. ~InQueue(h) /\ processing[h] = 0 /\ ~ApiHolds(h) /\ record[h].status # "none"
    BY <1>2, <2>1, <2>3 DEF OneTicket, UnknownInv
  <2>5. \A j \in Jobs : InQueue(j) <=> Stands(queue, j)
    BY DEF InQueue, Stands
  <2>6. \A j \in Jobs : InQueue(j)' <=> Stands(queue', j)
    BY DEF InQueue, Stands
  <2>7. Once(queue)
    BY DEF OneTicket, Once
  <2>8. Once(queue') /\ \A x : Stands(queue', x) <=> Stands(queue, x) \/ x = h
    BY <1>2, <2>1, <2>2, <2>4, <2>5, <2>7, AppendOnce
  <2>9. \A j \in Jobs : Pushers(j)' \subseteq Pushers(j)
    BY <1>1, <2>2 DEF Pushers
  <2>10. Pushers(h)' = {}
    BY <1>1, <2>2, <2>3 DEF OneTicket, Pushers
  <2>11. UnknownInv'
    BY <1>3, <1>4, <2>1, <2>2, <2>4, <2>5, <2>6, <2>8, <2>9 DEF UnknownInv, ApiHolds
  <2>12. \A i, k \in DOMAIN queue' : queue'[i] = queue'[k] => i = k
    BY <2>8 DEF Once
  <2>13. \A v, u \in Workers :
           At(v, "push")' /\ At(u, "push")' /\ worker'[v].job = worker'[u].job => v = u
    BY <1>1, <2>2 DEF OneTicket
  <2>14. \A j \in Jobs :
           /\ processing'[j] <= 1
           /\ InQueue(j)' => processing'[j] = 0 /\ Pushers(j)' = {} /\ ~ApiHolds(j)'
           /\ processing'[j] > 0 => Pushers(j)' = {} /\ ~ApiHolds(j)'
           /\ Pushers(j)' # {} => ~ApiHolds(j)'
    BY <1>3, <2>2, <2>4, <2>5, <2>6, <2>8, <2>9, <2>10 DEF OneTicket, ApiHolds
  <2> QED
    BY <2>11, <2>12, <2>13, <2>14 DEF OneTicket
<1> QED
  BY <1>7, <1>8, <1>9, <1>10, <1>11, <1>12, <1>13, <1>14 DEF WorkerStep, Proceed

\* The API gives out a job that was nowhere, and queues it once.
LEMMA TicketApi ==
  ASSUME TicketInv, ApiStep
  PROVE  UnknownInv' /\ OneTicket'
<1> USE DEF TicketInv
<1>1. queue \in Seq(Jobs) /\ record \in [Jobs -> Record]
  BY DEF HandInv, TypeOK
<1>2. UNCHANGED <<worker, processing>>
  BY DEF ApiStep, Request, Forget, DropActive, Enqueue, Push, SaveCancel, Save, CheckMember, Create, Cancel,
         LeaseExpires, LeaseRunsOut, InApi, redisVars
<1>3. \A j \in Jobs : Pushers(j)' = Pushers(j)
  BY <1>2 DEF Pushers, At
<1>4. \A v, u \in Workers :
        At(v, "push")' /\ At(u, "push")' /\ worker'[v].job = worker'[u].job => v = u
  BY <1>2 DEF OneTicket, At
<1>5. ASSUME UNCHANGED queue, \A j \in Jobs : ApiHolds(j)' => ApiHolds(j),
             \A j \in Jobs : record'[j].status = "none" => record[j].status = "none"
      PROVE  UnknownInv' /\ OneTicket'
  BY <1>2, <1>3, <1>4, <1>5 DEF UnknownInv, OneTicket, InQueue
<1>6. CASE Request
  BY <1>5, <1>6 DEF Request, Idle, redisVars, ApiHolds
<1>7. ASSUME NEW j \in Jobs, CheckMember(j) PROVE UnknownInv' /\ OneTicket'
  <2>1. api'.pc \in {"idle", "forget"}
    BY <1>7 DEF CheckMember, Idle, HandInv, TypeOK
  <2> QED
    BY <1>5, <1>7, <2>1 DEF CheckMember, redisVars, ApiHolds
<1>8. CASE Forget
  <2>1. api'.pc = "check"
    BY <1>8 DEF Forget, HandInv, TypeOK
  <2> QED
    BY <1>5, <1>8, <2>1 DEF Forget, DropActive, ApiHolds
<1>9. ASSUME NEW i \in Jobs, Create(i) PROVE UnknownInv' /\ OneTicket'
  <2>1. api'.pc = "enqueue" /\ api'.job = i /\ UNCHANGED queue
    BY <1>9 DEF Create, Save, HandInv, TypeOK
  <2>2. record[i].status = "none"
    BY <1>9 DEF Create, NoRecord
  <2>3. record'[i].status = "pending" /\ \A j \in Jobs : j # i => record'[j] = record[j]
    BY <1>1, <1>9 DEF Create, Save, NoRecord
  <2>4. \A j \in Jobs : ApiHolds(j)' <=> j = i
    BY <2>1 DEF ApiHolds
  <2>5. ~InQueue(i) /\ processing[i] = 0 /\ Pushers(i) = {}
    BY <2>2 DEF UnknownInv
  <2>6. \A j \in Jobs : InQueue(j)' <=> InQueue(j)
    BY <2>1 DEF InQueue
  <2>7. UnknownInv'
    BY <1>2, <1>3, <2>3, <2>4, <2>6 DEF UnknownInv
  <2>8. \A k, l \in DOMAIN queue' : queue'[k] = queue'[l] => k = l
    BY <2>1 DEF OneTicket
  <2>9. \A j \in Jobs :
          /\ processing'[j] <= 1
          /\ InQueue(j)' => processing'[j] = 0 /\ Pushers(j)' = {} /\ ~ApiHolds(j)'
          /\ processing'[j] > 0 => Pushers(j)' = {} /\ ~ApiHolds(j)'
          /\ Pushers(j)' # {} => ~ApiHolds(j)'
    BY <1>2, <1>3, <2>4, <2>5, <2>6 DEF OneTicket
  <2> QED
    BY <1>4, <2>7, <2>8, <2>9 DEF OneTicket
<1>10. CASE Enqueue
  <2>1. PICK h \in Jobs : h = api.job /\ api.pc = "enqueue"
    BY <1>10 DEF Enqueue, HandInv, HandsInv
  <2>2. queue' = Append(queue, h) /\ UNCHANGED record /\ api'.pc = "idle"
    BY <1>10, <2>1 DEF Enqueue, Push, Idle
  <2>3. ApiHolds(h)
    BY <2>1 DEF ApiHolds
  <2>4. ~InQueue(h) /\ processing[h] <= 1 /\ ~(processing[h] > 0) /\ Pushers(h) = {} /\ record[h].status # "none"
    BY <2>3 DEF OneTicket, UnknownInv
  <2>5. \A j \in Jobs : (InQueue(j) <=> Stands(queue, j)) /\ (InQueue(j)' <=> Stands(queue', j))
    BY DEF InQueue, Stands
  <2>6. Once(queue)
    BY DEF OneTicket, Once
  <2>7. Once(queue') /\ \A x : Stands(queue', x) <=> Stands(queue, x) \/ x = h
    BY <1>1, <2>2, <2>4, <2>5, <2>6, AppendOnce
  <2>8. \A j \in Jobs : ~ApiHolds(j)'
    BY <2>2 DEF ApiHolds
  <2>9. processing[h] = 0
    BY <2>4 DEF HandInv, TypeOK
  <2>10. UnknownInv'
    BY <1>2, <1>3, <2>2, <2>4, <2>5, <2>7, <2>8 DEF UnknownInv
  <2>11. \A k, l \in DOMAIN queue' : queue'[k] = queue'[l] => k = l
    BY <2>7 DEF Once
  <2>12. \A j \in Jobs :
           /\ processing'[j] <= 1
           /\ InQueue(j)' => processing'[j] = 0 /\ Pushers(j)' = {} /\ ~ApiHolds(j)'
           /\ processing'[j] > 0 => Pushers(j)' = {} /\ ~ApiHolds(j)'
           /\ Pushers(j)' # {} => ~ApiHolds(j)'
    BY <1>2, <1>3, <2>4, <2>5, <2>7, <2>8, <2>9 DEF OneTicket
  <2> QED
    BY <1>4, <2>10, <2>11, <2>12 DEF OneTicket
<1>11. ASSUME NEW j \in Jobs, Cancel(j) PROVE UnknownInv' /\ OneTicket'
  BY <1>5, <1>11 DEF Cancel, Idle, redisVars, ApiHolds
<1>12. CASE SaveCancel
  <2>1. api.copy.status # "none"
    BY <1>12 DEF SaveCancel, HandInv, CopiesInv, ACTIVE_STATUSES
  <2> QED
    BY <1>1, <1>5, <1>12, <2>1 DEF SaveCancel, Save, Idle, ApiHolds
<1>13. ASSUME NEW j \in Jobs, LeaseExpires(j) PROVE UnknownInv' /\ OneTicket'
  BY <1>5, <1>13 DEF LeaseExpires, LeaseRunsOut, ApiHolds
<1> QED
  BY <1>6, <1>7, <1>8, <1>9, <1>10, <1>11, <1>12, <1>13 DEF ApiStep

\* At first no job is anywhere.
LEMMA InitTicket == Init => TicketInv
<1> SUFFICES ASSUME Init PROVE TicketInv
  OBVIOUS
<1>1. HandInv
  BY InitHand
<1>2. UnknownInv
  BY DEF Init, PersistenceInit, AtLoop, Idle, UnknownInv, InQueue, Pushers, At, ApiHolds
<1>3. OneTicket
  BY DEF Init, PersistenceInit, AtLoop, Idle, OneTicket, InQueue, Pushers, At, ApiHolds
<1> QED
  BY <1>1, <1>2, <1>3 DEF TicketInv

\* A step is a worker's, or the API's or a lease's.
LEMMA StepSplits ==
  ASSUME Next
  PROVE  ApiStep \/ \E w \in Workers : WorkerStep(w)
<1> QED
  BY DEF Next, Serve, ApiStep, WorkerStep

\* So every step keeps all of it.
LEMMA TicketStep ==
  ASSUME TicketInv, [Next]_vars
  PROVE  TicketInv'
<1>1. CASE ApiStep
  BY <1>1, HandApi, TicketApi DEF TicketInv
<1>2. CASE \E w \in Workers : WorkerStep(w)
  BY <1>2, HandWorker, TicketWorker DEF TicketInv
<1>3. CASE UNCHANGED vars
  BY <1>3 DEF vars, redisVars, history, TicketInv, HandInv, TypeOK, HandsInv, CopiesInv, UnknownInv, OneTicket,
              InQueue, Pushers, At, ApiHolds
<1> QED
  BY <1>1, <1>2, <1>3, StepSplits

\* No count of the processing list goes below zero, and whoever has a job in
\* hand has a job, in any deployment.
THEOREM QueueTyped == Spec => []TypeOK
<1>1. TicketInv /\ [Next]_vars => TicketInv'
  BY TicketStep
<1>2. TicketInv => TypeOK
  BY DEF TicketInv, HandInv
<1> QED
  BY InitTicket, <1>1, <1>2, PTL DEF Spec

\* However many workers take, reap and acknowledge at once, and wherever they
\* are killed, a job is in one place at most: requeue_stale puts back one copy.
THEOREM NeverTwice == Spec => []OneTicket
<1>1. TicketInv /\ [Next]_vars => TicketInv'
  BY TicketStep
<1>2. TicketInv => OneTicket
  BY DEF TicketInv
<1> QED
  BY InitTicket, <1>1, <1>2, PTL DEF Spec

-----------------------------------------------------------------------------
(* One worker, one active job. *)

\* Of one worker process there is one.
LEMMA OnlyWorker ==
  ASSUME TicketInv, CrewInv, OneWorker, NEW w \in Workers, NEW v \in Workers,
         w \in setting.workers, worker[v].pc # "loop"
  PROVE  v = w
<1>1. setting.workers \subseteq Workers /\ IsFiniteSet(setting.workers)
  BY QueueAssumption, FS_Subset DEF TicketInv, HandInv, TypeOK, Setting
<1>2. v \in setting.workers
  BY DEF CrewInv
<1>3. Cardinality(setting.workers) \in Nat /\ Cardinality(setting.workers) # 0
  BY <1>1, <1>2, FS_CardinalityType, FS_EmptySet
<1>4. Cardinality(setting.workers) = 1
  BY <1>3 DEF OneWorker
<1>5. PICK u : setting.workers = {u}
  BY <1>1, <1>4, FS_Singleton
<1> QED
  BY <1>2, <1>5

\* Whoever takes a step was started, or is killed before it did anything.
LEMMA WhoSteps ==
  ASSUME TicketInv, CrewInv, NEW w \in Workers, WorkerStep(w)
  PROVE  \/ w \in setting.workers
         \/ Killed(w) /\ worker[w].pc = "loop"
<1>1. CASE worker[w].pc # "loop"
  BY <1>1 DEF CrewInv
<1>2. CASE worker[w].pc = "loop"
  <2>1. ~Proceed(w) \/ w \in setting.workers
    BY <1>2 DEF Proceed, Reap, Reclaim, PushReclaimed, DoneReaping, PollTimesOut, Lease, Fetch, Drop, Begin, Start,
                Progress, ReportProgress, Finish, AckJob, At
  <2>2. ~EndRun(w)
    BY <1>2 DEF EndRun, At
  <2> QED
    BY <1>2, <2>1, <2>2 DEF WorkerStep, StartReap, Take
<1> QED
  BY <1>1, <1>2

\* The deployment never changes.
LEMMA SettingStays ==
  ASSUME TicketInv, [Next]_vars
  PROVE  setting' = setting
<1>1. CASE ApiStep
  BY <1>1 DEF ApiStep, Request, Forget, Enqueue, SaveCancel, CheckMember, Create, Cancel, LeaseExpires, InApi
<1>2. ASSUME NEW w \in Workers, WorkerStep(w) PROVE setting' = setting
  BY <1>2, RedisWorker DEF TicketInv
<1>3. CASE UNCHANGED vars
  BY <1>3 DEF vars
<1> QED
  BY <1>1, <1>2, <1>3, StepSplits

\* A worker that was not started stays where it is.
LEMMA CrewStep ==
  ASSUME TicketInv, CrewInv, [Next]_vars
  PROVE  CrewInv'
<1> USE DEF CrewInv
<1>1. ASSUME NEW w \in Workers, WorkerStep(w) PROVE CrewInv'
  <2>1. /\ worker' \in [Workers -> Hand]
        /\ \A v \in Workers : v # w => worker'[v] = worker[v]
    BY <1>1, WorkersApart DEF TicketInv
  <2>2. setting' = setting
    BY <1>1, RedisWorker DEF TicketInv
  <2>3. w \in setting.workers \/ worker'[w].pc = "loop"
    BY <1>1, WhoSteps DEF Killed, AtLoop, TicketInv, HandInv, TypeOK
  <2> QED
    BY <2>1, <2>2, <2>3
<1>2. CASE ApiStep
  BY <1>2 DEF ApiStep, Request, Forget, Enqueue, SaveCancel, CheckMember, Create, Cancel, LeaseExpires, InApi
<1>3. CASE UNCHANGED vars
  BY <1>3 DEF vars
<1> QED
  BY <1>1, <1>2, <1>3, StepSplits

\* What one worker's step does to the records: the one of its own job moves
\* from active to active or to an outcome, and the set of active jobs with it.
LEMMA WorkerSaves ==
  ASSUME TicketInv, RunsActiveInv, NEW w \in Workers, WorkerStep(w),
         active = {j \in Jobs : Active(j)}
  PROVE  /\ active' = {j \in Jobs : Active(j)'}
         /\ \A j \in Jobs : Active(j)' => Active(j)
         /\ \A j \in Jobs :
              (j = worker[w].job /\ worker[w].pc \in Running) \/ record'[j] = record[j]
<1>1. record \in [Jobs -> Record] /\ worker \in [Workers -> Hand]
  BY DEF TicketInv, HandInv, TypeOK, Hand
<1>2. worker[w].pc \notin {"loop", "reap", "poll"} => worker[w].job \in Jobs
  BY DEF TicketInv, HandInv, HandsInv
<1>3. /\ worker[w].copy \in Record
      /\ worker[w].pc \in {"run", "report"} => worker[w].copy.status = "running"
      /\ worker[w].pc = "finish" => worker[w].copy.status \in Finished
  BY <1>1 DEF Hand, TicketInv, HandInv, CopiesInv
<1> USE DEF At, redisVars, Running
<1>4. ASSUME UNCHANGED <<record, active>>
      PROVE  /\ active' = {j \in Jobs : Active(j)'}
             /\ \A j \in Jobs : Active(j)' => Active(j)
             /\ \A j \in Jobs : record'[j] = record[j]
  BY <1>4 DEF Active
<1>5. CASE StartReap(w) \/ DoneReaping(w) \/ PollTimesOut(w) \/ Fetch(w) \/ Begin(w) \/ Progress(w) \/ EndRun(w) \/ Killed(w)
  BY <1>4, <1>5 DEF StartReap, DoneReaping, PollTimesOut, Fetch, Begin, Progress, EndRun, Killed
<1>6. CASE Take(w) \/ Reclaim(w) \/ PushReclaimed(w) \/ Lease(w) \/ AckJob(w)
  BY <1>4, <1>6 DEF Take, MoveHead, Reclaim, RemoveOne, PushReclaimed, Push, Lease, SetLease, AckJob, Ack
<1>7. CASE \E j \in Jobs : Reap(w, j)
  BY <1>4, <1>7 DEF Reap, TakeLease
<1>8. ASSUME worker[w].pc \in Running, NEW r \in Record, Save(worker[w].job, r)
      PROVE  /\ active' = {j \in Jobs : Active(j)'}
             /\ \A j \in Jobs : Active(j)' => Active(j)
             /\ \A j \in Jobs : j = worker[w].job \/ record'[j] = record[j]
  <2>1. worker[w].job \in Jobs /\ Active(worker[w].job)
    BY <1>2, <1>8 DEF RunsActiveInv
  <2>2. /\ record'[worker[w].job] = r
        /\ \A j \in Jobs : j # worker[w].job => record'[j] = record[j]
        /\ active' = IF r.status \in ACTIVE_STATUSES THEN active \cup {worker[w].job}
                                                     ELSE active \ {worker[w].job}
    BY <1>1, <1>8, <2>1 DEF Save
  <2> QED
    BY <2>1, <2>2 DEF Active
<1>9. CASE Drop(w) \/ Start(w) \/ ReportProgress(w) \/ Finish(w)
  <2>1. PICK r \in Record : Save(worker[w].job, r)
    BY <1>3, <1>9, RecordWith DEF Drop, Start, ReportProgress, Finish, SaveCopy
  <2>2. worker[w].pc \in Running
    BY <1>9 DEF Drop, Start, ReportProgress, Finish
  <2> QED
    BY <1>8, <2>1, <2>2
<1> QED
  BY <1>5, <1>6, <1>7, <1>9 DEF WorkerStep, Proceed

\* What the one worker runs is active, and still the only job that is.
LEMMA ActiveWorker ==
  ASSUME ActiveInv, NEW w \in Workers, WorkerStep(w), OneWorker
  PROVE  /\ active' = {j \in Jobs : Active(j)'}
         /\ \A i, j \in Jobs : Active(i)' /\ Active(j)' => i = j
         /\ RunsActiveInv' /\ CheckInv'
         /\ setting.cancels = 0 =>
              \A v \in Workers : worker'[v].pc \in {"run", "report", "finish"} =>
                record'[worker'[v].job].status = "running"
<1>1. /\ worker' \in [Workers -> Hand]
      /\ \A v \in Workers : v # w => worker'[v] = worker[v]
      /\ UNCHANGED api
  BY WorkersApart, RedisWorker DEF ActiveInv, TicketInv
<1>2. /\ record \in [Jobs -> Record] /\ worker \in [Workers -> Hand]
      /\ worker[w].pc \notin {"loop", "reap", "poll"} => worker[w].job \in Jobs
      /\ worker[w].copy \in Record
      /\ worker[w].pc \in {"run", "report"} => worker[w].copy.status = "running"
  BY DEF ActiveInv, TicketInv, HandInv, TypeOK, HandsInv, CopiesInv, Hand
<1>3. RunsActiveInv /\ CheckInv /\ active = {j \in Jobs : Active(j)}
  BY DEF ActiveInv, AloneInv, OneActiveJob
<1>4. /\ active' = {j \in Jobs : Active(j)'}
      /\ \A j \in Jobs : Active(j)' => Active(j)
      /\ \A j \in Jobs :
              (j = worker[w].job /\ worker[w].pc \in Running) \/ record'[j] = record[j]
  BY <1>3, WorkerSaves DEF ActiveInv
<1>5. \A i, j \in Jobs : Active(i)' /\ Active(j)' => i = j
  BY <1>4 DEF ActiveInv, OneActiveJob
<1>6. CheckInv'
  BY <1>1, <1>2, <1>3, <1>4 DEF CheckInv, ActiveInv, TicketInv, HandInv, HandsInv
<1>7. ASSUME NEW v \in Workers, v # w, worker[v].pc # "loop"
      PROVE  UNCHANGED record /\ worker'[v] = worker[v]
  <2>1. Killed(w)
    BY <1>7, WhoSteps, OnlyWorker DEF ActiveInv, AloneInv
  <2> QED
    BY <1>1, <1>7, <2>1 DEF Killed, redisVars
<1> USE DEF At, Hand, redisVars
<1>8. /\ worker'[w].pc \in Running => Active(worker[w].job)'
      /\ setting.cancels = 0 /\ worker'[w].pc \in {"run", "report", "finish"} =>
           record'[worker'[w].job].status = "running"
  <2>1. /\ worker[w].pc \in Running => Active(worker[w].job)
        /\ setting.cancels = 0 /\ worker[w].pc \in {"run", "report", "finish"} =>
             record[worker[w].job].status = "running"
    BY <1>3 DEF RunsActiveInv, ActiveInv, UncancelledInv
  <2>2. CASE StartReap(w) \/ DoneReaping(w) \/ PollTimesOut(w) \/ Killed(w) \/ AckJob(w) \/ PushReclaimed(w)
    <3>1. worker'[w].pc \in {"reap", "poll", "loop"}
      BY <1>2, <2>2 DEF StartReap, DoneReaping, PollTimesOut, Killed, AckJob, PushReclaimed, Goto, AtLoop
    <3> QED
      BY <3>1 DEF Running
  <2>3. CASE Take(w) \/ Lease(w) \/ Drop(w) \/ Finish(w)
    <3>1. worker'[w].pc \in {"lease", "fetch", "ack"}
      BY <1>2, <2>3 DEF Take, MoveHead, Lease, Drop, Finish, Goto, GotoWith
    <3> QED
      BY <3>1 DEF Running
  <2>4. ASSUME NEW j \in Jobs, Reap(w, j)
        PROVE  worker'[w].pc \in {"reap", "reclaim"}
    BY <1>2, <2>4 DEF Reap
  <2>5. CASE Reclaim(w)
    <3>1. worker'[w].pc \in {"push", "reap"}
      BY <1>2, <2>5 DEF Reclaim
    <3> QED
      BY <3>1 DEF Running
  <2>6. CASE Fetch(w)
    <3>1. worker'[w].pc \in {"ack", "drop", "begin"} /\ worker'[w].job = worker[w].job /\ UNCHANGED record
      BY <1>2, <2>6 DEF Fetch, GotoWith
    <3>2. worker'[w].pc # "ack" => Active(worker[w].job)
      BY <1>2, <2>6 DEF Fetch, GotoWith, Active
    <3> QED
      BY <3>1, <3>2 DEF Running, Active
  <2>7. CASE Begin(w)
    <3>1. worker'[w].pc \in {"ack", "start"} /\ worker'[w].job = worker[w].job /\ UNCHANGED record
      BY <1>2, <2>7 DEF Begin, GotoWith
    <3> QED
      BY <2>1, <2>7, <3>1 DEF Begin, Running, Active
  <2>8. CASE Start(w) \/ ReportProgress(w)
    <3>1. PICK r \in Record : Save(worker[w].job, r) /\ r.status = "running"
      BY <1>2, <2>8, RecordWith DEF Start, ReportProgress, SaveCopy
    <3>2. worker'[w].pc = "run" /\ worker'[w].job = worker[w].job /\ worker[w].job \in Jobs
      BY <1>2, <2>8 DEF Start, ReportProgress, Goto, GotoWith
    <3>3. record'[worker[w].job].status = "running"
      BY <1>2, <3>1, <3>2 DEF Save
    <3> QED
      BY <3>2, <3>3 DEF Active, ACTIVE_STATUSES
  <2>9. CASE Progress(w) \/ EndRun(w)
    <3>1. worker'[w].pc \in {"report", "finish"} /\ worker'[w].job = worker[w].job /\ UNCHANGED record
      BY <1>2, <2>9 DEF Progress, EndRun, Goto, GotoWith
    <3> QED
      BY <2>1, <2>9, <3>1 DEF Progress, EndRun, Running, Active
  <2> QED
    BY <2>2, <2>3, <2>4, <2>5, <2>6, <2>7, <2>8, <2>9 DEF WorkerStep, Proceed, Running
<1>9. RunsActiveInv'
  <2>1. ASSUME NEW v \in Workers, worker'[v].pc \in Running PROVE Active(worker[v].job)'
    <3>1. CASE v = w
      BY <1>8, <2>1, <3>1
    <3>2. CASE v # w
      BY <1>1, <1>3, <1>7, <2>1, <3>2 DEF RunsActiveInv, Running, Active
    <3> QED
      BY <3>1, <3>2
  <2> QED
    BY <2>1 DEF RunsActiveInv
<1>10. ASSUME setting.cancels = 0, NEW v \in Workers, worker'[v].pc \in {"run", "report", "finish"}
       PROVE  record'[worker'[v].job].status = "running"
  <2>1. CASE v = w
    BY <1>8, <1>10, <2>1
  <2>2. CASE v # w
    BY <1>1, <1>7, <1>10, <2>2 DEF ActiveInv, UncancelledInv
  <2> QED
    BY <2>1, <2>2
<1> QED
  BY <1>4, <1>5, <1>6, <1>9, <1>10

\* The API creates a job when no other is active, and saves a cancel request
\* of the one that is.
LEMMA ActiveApi ==
  ASSUME ActiveInv, ApiStep, OneWorker
  PROVE  /\ active' = {j \in Jobs : Active(j)'}
         /\ \A i, j \in Jobs : Active(i)' /\ Active(j)' => i = j
         /\ RunsActiveInv' /\ CheckInv'
         /\ setting.cancels = 0 =>
              /\ api'.pc # "cancel"
              /\ \A v \in Workers : worker'[v].pc \in {"run", "report", "finish"} =>
                   record'[worker'[v].job].status = "running"
<1>1. /\ record \in [Jobs -> Record]
      /\ api.pc \in {"forget", "enqueue", "cancel"} => api.job \in Jobs
      /\ cancels \in Nat
  <2>1. setting \in Setting
    BY QueueAssumption DEF ActiveInv, TicketInv, HandInv, TypeOK
  <2> QED
    BY <2>1 DEF ActiveInv, TicketInv, HandInv, TypeOK, HandsInv, Setting
<1>2. /\ active = {j \in Jobs : Active(j)}
      /\ \A i, j \in Jobs : Active(i) /\ Active(j) => i = j
      /\ RunsActiveInv /\ CheckInv
  BY DEF ActiveInv, AloneInv, OneActiveJob
<1>3. UNCHANGED <<worker, setting>>
  BY DEF ApiStep, Request, Forget, Enqueue, SaveCancel, CheckMember, Create, Cancel, LeaseExpires, InApi
<1>4. setting.cancels = 0 =>
        /\ api.pc # "cancel"
        /\ \A v \in Workers : worker[v].pc \in {"run", "report", "finish"} =>
             record[worker[v].job].status = "running"
  BY DEF ActiveInv, UncancelledInv
<1>5. \A w \in Workers : worker[w].pc \in Running \cup {"run", "report", "finish"} => worker[w].job \in Jobs
  BY DEF ActiveInv, TicketInv, HandInv, HandsInv, Running
<1> DEFINE Kept == /\ active' = {j \in Jobs : Active(j)'}
                   /\ \A i, j \in Jobs : Active(i)' /\ Active(j)' => i = j
                   /\ RunsActiveInv'
                   /\ setting.cancels = 0 =>
                        \A v \in Workers : worker'[v].pc \in {"run", "report", "finish"} =>
                          record'[worker'[v].job].status = "running"
<1>6. ASSUME record' = record, active' = active
      PROVE  Kept /\ \A j \in Jobs : Active(j)' <=> Active(j)
  <2>1. \A j \in Jobs : Active(j)' <=> Active(j)
    BY <1>6 DEF Active
  <2>2. active' = {j \in Jobs : Active(j)'}
    BY <1>2, <1>6, <2>1
  <2>3. RunsActiveInv'
    BY <1>2, <1>3, <1>6 DEF RunsActiveInv, Active
  <2> QED
    BY <1>2, <1>3, <1>4, <1>6, <2>1, <2>2, <2>3
<1> USE DEF redisVars
<1>7. CASE Request
  <2>1. api'.pc = "check" /\ api'.members = active /\ record' = record /\ active' = active
    BY <1>7 DEF Request, Idle
  <2> HIDE DEF Kept
  <2>2. CheckInv'
    BY <1>2, <1>6, <2>1 DEF CheckInv
  <2> QED
    BY <1>6, <2>1, <2>2 DEF Kept
<1>8. ASSUME NEW j \in Jobs, CheckMember(j) PROVE Kept /\ CheckInv' /\ api'.pc # "cancel"
  <2>1. record' = record /\ active' = active
    BY <1>8 DEF CheckMember
  <2> HIDE DEF Kept
  <2>2. CASE Active(j)
    <3>1. api'.pc = "idle"
      BY <1>8, <2>2 DEF CheckMember, Idle
    <3> QED
      BY <1>6, <2>1, <3>1 DEF CheckInv
  <2>3. CASE ~Active(j)
    <3>1. api.pc = "check" /\ api'.pc = "forget" /\ api'.job = j /\ api'.members = api.members
      BY <1>8, <2>3 DEF CheckMember, ActiveInv, TicketInv, HandInv, TypeOK
    <3>2. ~Active(j)'
      BY <2>1, <2>3 DEF Active
    <3>3. ~Active(api.job)'
      BY <3>1, <3>2 DEF Active
    <3> QED
      BY <1>2, <1>6, <2>1, <3>1, <3>3 DEF CheckInv
  <2> QED
    BY <2>2, <2>3
<1>9. CASE Forget
  <2>1. /\ api.pc = "forget" /\ api'.pc = "check" /\ api'.members = api.members \ {api.job}
        /\ record' = record /\ active' = active \ {api.job}
    BY <1>9 DEF Forget, DropActive, ActiveInv, TicketInv, HandInv, TypeOK
  <2>2. active' = active
    BY <1>1, <1>2, <2>1 DEF CheckInv
  <2> HIDE DEF Kept
  <2>3. CheckInv'
    BY <1>2, <1>6, <2>1, <2>2 DEF CheckInv
  <2> QED
    BY <1>6, <2>1, <2>2, <2>3 DEF Kept
<1>10. ASSUME NEW j \in Jobs, Create(j) PROVE Kept /\ CheckInv' /\ api'.pc # "cancel"
  <2>1. api.pc = "check" /\ api.members = {} /\ api'.pc = "enqueue"
    BY <1>10 DEF Create, ActiveInv, TicketInv, HandInv, TypeOK
  <2>2. \A i \in Jobs : ~Active(i)
    BY <1>2, <2>1 DEF CheckInv
  <2>3. /\ record'[j].status = "pending" /\ \A i \in Jobs : i # j => record'[i] = record[i]
        /\ active' = active \cup {j}
    BY <1>1, <1>10 DEF Create, Save, NoRecord, ACTIVE_STATUSES
  <2>4. \A i \in Jobs : Active(i)' <=> i = j
    BY <2>2, <2>3 DEF Active, ACTIVE_STATUSES
  <2>5. active' = {i \in Jobs : Active(i)'}
    BY <1>2, <2>2, <2>3, <2>4
  <2>6. \A w \in Workers : worker[w].pc \notin Running
    BY <1>2, <1>5, <2>2 DEF RunsActiveInv
  <2>7. RunsActiveInv'
    BY <1>3, <2>6 DEF RunsActiveInv
  <2> QED
    BY <1>3, <2>1, <2>4, <2>5, <2>6, <2>7 DEF CheckInv, Running
<1>11. CASE Enqueue
  <2>1. api'.pc = "idle" /\ record' = record /\ active' = active
    BY <1>11 DEF Enqueue, Push, Idle
  <2> HIDE DEF Kept
  <2> QED
    BY <1>6, <2>1 DEF CheckInv, Kept
<1>12. ASSUME NEW j \in Jobs, Cancel(j) PROVE Kept /\ CheckInv' /\ (setting.cancels = 0 => api'.pc # "cancel")
  <2>1. /\ Active(j) /\ cancels < setting.cancels
        /\ api'.pc = "cancel" /\ api'.job = j /\ record' = record /\ active' = active
    BY <1>12 DEF Cancel, Idle
  <2> HIDE DEF Kept
  <2>2. CheckInv'
    BY <1>2, <1>6, <2>1 DEF CheckInv
  <2>3. setting.cancels # 0
    BY <1>1, <2>1
  <2> QED
    BY <1>6, <2>1, <2>2, <2>3
<1>13. CASE SaveCancel
  <2>1. PICK h \in Jobs : h = api.job /\ api.pc = "cancel" /\ api.copy.status \in ACTIVE_STATUSES
    BY <1>1, <1>13 DEF SaveCancel, ActiveInv, TicketInv, HandInv, CopiesInv
  <2>2. /\ record'[h].status \in ACTIVE_STATUSES /\ \A i \in Jobs : i # h => record'[i] = record[i]
        /\ active' = active \cup {h} /\ api'.pc = "idle"
    BY <1>1, <1>13, <2>1 DEF SaveCancel, Save, Idle
  <2>3. \A i \in Jobs : Active(i) => i = h
    BY <1>2, <2>1 DEF CheckInv
  <2>4. \A i \in Jobs : Active(i)' <=> i = h
    BY <2>2, <2>3 DEF Active
  <2>5. active' = {i \in Jobs : Active(i)'}
    BY <1>2, <2>2, <2>3, <2>4
  <2>6. RunsActiveInv'
    <3>1. ASSUME NEW w \in Workers, worker[w].pc \in Running PROVE Active(worker[w].job)'
      <4>1. worker[w].job = h
        BY <1>2, <1>5, <2>3, <3>1 DEF RunsActiveInv
      <4> QED
        BY <1>3, <2>2, <4>1 DEF Active
    <3> QED
      BY <1>3, <3>1 DEF RunsActiveInv
  <2> QED
    BY <1>3, <1>4, <2>1, <2>2, <2>4, <2>5, <2>6 DEF CheckInv
<1>14. ASSUME NEW j \in Jobs, LeaseExpires(j) PROVE Kept /\ CheckInv' /\ api' = api
  <2>1. record' = record /\ active' = active /\ api' = api
    BY <1>14 DEF LeaseExpires, LeaseRunsOut
  <2> HIDE DEF Kept
  <2>2. CheckInv'
    <3>1. UNCHANGED Active(api.job)
      BY <2>1 DEF Active
    <3> QED
      BY <1>2, <1>6, <2>1, <3>1 DEF CheckInv
  <2> QED
    BY <1>6, <2>1, <2>2
<1>15. CASE \E j \in Jobs : CheckMember(j) \/ Create(j) \/ Cancel(j) \/ LeaseExpires(j)
  <2> HIDE DEF Kept
  <2>1. Kept /\ CheckInv' /\ (setting.cancels = 0 => api'.pc # "cancel")
    BY <1>4, <1>8, <1>10, <1>12, <1>14, <1>15
  <2> QED
    BY <2>1 DEF Kept
<1> QED
  BY <1>7, <1>9, <1>11, <1>13, <1>15 DEF ApiStep

\* So the invariant of one worker is kept by every step.
LEMMA ActiveStep ==
  ASSUME ActiveInv, [Next]_vars
  PROVE  ActiveInv'
<1>1. TicketInv'
  BY TicketStep DEF ActiveInv
<1>2. CrewInv'
  BY CrewStep DEF ActiveInv, AloneInv
<1>3. setting' = setting
  BY SettingStays DEF ActiveInv
<1>4. CASE UNCHANGED vars
  BY <1>1, <1>4 DEF vars, redisVars, ActiveInv, AloneInv, CrewInv, RunsActiveInv, CheckInv, OneActiveJob,
                    UncancelledInv, OneWorker, Active
<1>5. CASE ~OneWorker
  <2>1. ~OneWorker'
    BY <1>3, <1>5 DEF OneWorker
  <2> QED
    BY <1>1, <1>2, <2>1 DEF ActiveInv, AloneInv, OneActiveJob, UncancelledInv
<1>6. CASE OneWorker /\ ApiStep
  <2>1. UNCHANGED OneWorker
    BY <1>3 DEF OneWorker
  <2> QED
    BY <1>1, <1>2, <1>3, <1>6, <2>1, ActiveApi DEF ActiveInv, AloneInv, OneActiveJob, UncancelledInv
<1>7. ASSUME OneWorker, NEW w \in Workers, WorkerStep(w)
      PROVE  ActiveInv'
  <2>1. UNCHANGED OneWorker
    BY <1>3 DEF OneWorker
  <2>2. api' = api
    BY <1>7, RedisWorker DEF ActiveInv, TicketInv
  <2> QED
    BY <1>1, <1>2, <1>3, <1>7, <2>1, <2>2, ActiveWorker DEF ActiveInv, AloneInv, OneActiveJob, UncancelledInv
<1> QED
  BY <1>4, <1>5, <1>6, <1>7, StepSplits

\* At first nothing is active.
LEMMA InitActive == Init => ActiveInv
<1> SUFFICES ASSUME Init PROVE ActiveInv
  OBVIOUS
<1>1. TicketInv
  BY InitTicket
<1>2. AloneInv /\ UncancelledInv
  BY DEF Init, AtLoop, Idle, AloneInv, CrewInv, RunsActiveInv, CheckInv, UncancelledInv, Running
<1>3. OneActiveJob
  BY DEF Init, PersistenceInit, NoRecord, ACTIVE_STATUSES, OneActiveJob, Active
<1> QED
  BY <1>1, <1>2, <1>3 DEF ActiveInv

\* With one worker process has_active answers from the very jobs that are
\* active, however many jobs are submitted and cancelled and however often the
\* worker is killed, so there is one at a time.
THEOREM OneAtATime == Spec => []OneActiveJob
<1>1. ActiveInv /\ [Next]_vars => ActiveInv'
  BY ActiveStep
<1>2. ActiveInv => OneActiveJob
  BY DEF ActiveInv
<1> QED
  BY InitActive, <1>1, <1>2, PTL DEF Spec

-----------------------------------------------------------------------------
(* The refinement of JobBoard. *)

\* What the board shows.
Shown == [j \in Jobs |-> record[j].status]

\* One job's status moves as the board allows it, or nothing is seen.
Moves(j, s) ==
  \/ Shown[j] = "none" /\ s = "pending"
  \/ Shown[j] = "pending" /\ s \in {"running", "cancelled"}
  \/ Shown[j] = "running" /\ s \in Finished
  \/ Shown[j] = s

\* A save that moves one status as the board allows is a step of the board.
LEMMA MovesOnBoard ==
  ASSUME record \in [Jobs -> Record], NEW j \in Jobs, NEW r \in Record,
         record' = [record EXCEPT ![j] = r], Moves(j, r.status)
  PROVE  Board!Next \/ Shown' = Shown
<1>1. Shown' = [Shown EXCEPT ![j] = r.status]
  BY DEF Shown
<1>2. CASE Shown[j] = "none" /\ r.status = "pending"
  BY <1>1, <1>2 DEF Board!Next, Board!Submit, Shown
<1>3. CASE Shown[j] = "pending" /\ r.status = "running"
  BY <1>1, <1>3 DEF Board!Next, Board!Begin, Shown
<1>4. CASE \/ Shown[j] = "pending" /\ r.status = "cancelled"
           \/ Shown[j] = "running" /\ r.status \in Finished
  BY <1>1, <1>4 DEF Board!Next, Board!End, Shown, Finished
<1>5. CASE Shown[j] = r.status
  BY <1>1, <1>5 DEF Shown
<1> QED
  BY <1>2, <1>3, <1>4, <1>5 DEF Moves

\* The one worker's saves are such: it saves over the record it finds running.
LEMMA BoardWorker ==
  ASSUME ActiveInv, OneWorker, setting.cancels = 0, NEW w \in Workers, WorkerStep(w)
  PROVE  Board!Next \/ Shown' = Shown
<1>1. /\ record \in [Jobs -> Record] /\ worker \in [Workers -> Hand]
      /\ worker[w].pc \notin {"loop", "reap", "poll"} => worker[w].job \in Jobs
      /\ worker[w].copy \in Record
      /\ worker[w].pc \in {"run", "report"} => worker[w].copy.status = "running"
      /\ worker[w].pc = "finish" => worker[w].copy.status \in Finished
  BY DEF ActiveInv, TicketInv, HandInv, TypeOK, HandsInv, CopiesInv, Hand
<1>2. /\ worker[w].pc \in Running => Active(worker[w].job)
      /\ worker[w].pc \in {"run", "report", "finish"} => record[worker[w].job].status = "running"
  BY DEF ActiveInv, AloneInv, RunsActiveInv, UncancelledInv
<1> USE DEF At, redisVars
<1>3. CASE StartReap(w) \/ DoneReaping(w) \/ PollTimesOut(w) \/ Fetch(w) \/ Begin(w) \/ Progress(w) \/ EndRun(w) \/ Killed(w)
  BY <1>3 DEF StartReap, DoneReaping, PollTimesOut, Fetch, Begin, Progress, EndRun, Killed, Shown
<1>4. CASE Take(w) \/ Reclaim(w) \/ PushReclaimed(w) \/ Lease(w) \/ AckJob(w)
  BY <1>4 DEF Take, MoveHead, Reclaim, RemoveOne, PushReclaimed, Push, Lease, SetLease, AckJob, Ack, Shown
<1>5. CASE \E j \in Jobs : Reap(w, j)
  BY <1>5 DEF Reap, TakeLease, Shown
<1>6. ASSUME NEW r \in Record, Save(worker[w].job, r), worker[w].job \in Jobs, Moves(worker[w].job, r.status)
      PROVE  Board!Next \/ Shown' = Shown
  BY <1>1, <1>6, MovesOnBoard DEF Save
<1>7. CASE Drop(w)
  <2>1. PICK r \in Record : Save(worker[w].job, r) /\ r.status = "cancelled"
    BY <1>1, <1>7, RecordWith DEF Drop, SaveCopy
  <2>2. worker[w].job \in Jobs /\ Moves(worker[w].job, "cancelled")
    BY <1>1, <1>2, <1>7 DEF Drop, Running, Moves, Shown, Active, ACTIVE_STATUSES, Finished
  <2> QED
    BY <1>6, <2>1, <2>2
<1>8. CASE Start(w)
  <2>1. PICK r \in Record : Save(worker[w].job, r) /\ r.status = "running"
    BY <1>1, <1>8, RecordWith DEF Start, SaveCopy
  <2>2. worker[w].job \in Jobs /\ Moves(worker[w].job, "running")
    BY <1>1, <1>2, <1>8 DEF Start, Running, Moves, Shown, Active, ACTIVE_STATUSES
  <2> QED
    BY <1>6, <2>1, <2>2
<1>9. CASE ReportProgress(w) \/ Finish(w)
  <2>1. /\ Save(worker[w].job, worker[w].copy) /\ worker[w].job \in Jobs
        /\ record[worker[w].job].status = "running"
        /\ worker[w].copy.status \in Finished \cup {"running"}
    BY <1>1, <1>2, <1>9 DEF ReportProgress, Finish, SaveCopy
  <2>2. Moves(worker[w].job, worker[w].copy.status)
    BY <2>1 DEF Moves, Shown
  <2> QED
    BY <1>1, <1>6, <2>1, <2>2
<1> QED
  BY <1>3, <1>4, <1>5, <1>7, <1>8, <1>9 DEF WorkerStep, Proceed

\* Without cancel requests the API's only save is that of a new job.
LEMMA BoardApi ==
  ASSUME ActiveInv, OneWorker, setting.cancels = 0, ApiStep
  PROVE  Board!Next \/ Shown' = Shown
<1>1. record \in [Jobs -> Record]
  BY DEF ActiveInv, TicketInv, HandInv, TypeOK
<1>2. CASE Request \/ Forget \/ Enqueue \/ \E j \in Jobs : CheckMember(j) \/ Cancel(j) \/ LeaseExpires(j)
  BY <1>2 DEF Request, Forget, DropActive, Enqueue, Push, CheckMember, Cancel, LeaseExpires, LeaseRunsOut,
              redisVars, Shown
<1>3. ~SaveCancel
  BY DEF SaveCancel, ActiveInv, UncancelledInv
<1>4. ASSUME NEW j \in Jobs, Create(j) PROVE Board!Next \/ Shown' = Shown
  <2>1. PICK r \in Record : Save(j, r) /\ r.status = "pending"
    <3>1. /\ [NoRecord EXCEPT !.status = "pending"] \in Record
          /\ [NoRecord EXCEPT !.status = "pending"].status = "pending"
      BY DEF NoRecord, Record, ACTIVE_STATUSES
    <3> QED
      BY <1>4, <3>1 DEF Create
  <2>2. Moves(j, "pending")
    BY <1>1, <1>4 DEF Create, NoRecord, Moves, Shown
  <2> QED
    BY <1>1, <2>1, <2>2, MovesOnBoard DEF Save
<1> QED
  BY <1>2, <1>3, <1>4 DEF ApiStep

\* With one worker and nobody cancelling, a job goes from pending to running
\* to one outcome and then stays as it ended, though its worker is killed at
\* any step and another life of it starts the job over.
THEOREM OutcomesStay == Spec => BoardSpec
<1>1. Init => Board!Init
  BY DEF Init, PersistenceInit, NoRecord, Board!Init
<1>2. ActiveInv /\ [Next]_vars => [OneWorker /\ setting.cancels = 0 => Board!Next]_(Board!vars)
  <2> SUFFICES ASSUME ActiveInv, [Next]_vars, OneWorker, setting.cancels = 0
               PROVE  Board!Next \/ Shown' = Shown
    BY DEF Board!vars, Shown
  <2>1. CASE UNCHANGED vars
    BY <2>1 DEF vars, redisVars, Shown
  <2> QED
    BY <2>1, BoardWorker, BoardApi, StepSplits
<1>3. ActiveInv /\ [Next]_vars => ActiveInv'
  BY ActiveStep
<1> QED
  BY InitActive, <1>1, <1>2, <1>3, PTL DEF Spec, BoardSpec

-----------------------------------------------------------------------------
(* No job lost, but where Loses says. *)

\* What is still to be done and wanted.
Undone(j) == Active(j) /\ ~record[j].cancel

\* A job somebody has taken has a record.
KnownInv ==
  \A w \in Workers : worker[w].pc \in Holding => record[worker[w].job].status # "none"

\* A restart finds a job in one of these places; it finds every job that a
\* worker has taken and has not been cut off from.
Somewhere(j) == InQueue(j) \/ processing[j] > 0 \/ ApiHolds(j) \/ Pushers(j) # {}

PlacedInv ==
  \A w \in Workers \ cut : worker[w].pc \in Holding => Somewhere(worker[w].job)

\* Who is to acknowledge a job has seen it end; if it is to be done again, then
\* because another worker has saved its own progress over that, and will end it.
InRun(w, j) == worker[w].pc \in {"run", "report", "finish"} /\ worker[w].job = j

AckedInv ==
  \A j \in Jobs \ lost : \A w \in Workers :
    Undone(j) /\ worker[w].pc = "ack" /\ worker[w].job = j => \E v \in Workers : InRun(v, j)

\* So what is to be done is in one of those places or with a worker.
WaitsInv == \A j \in Jobs \ lost : Undone(j) => Somewhere(j) \/ AtWork(j) # {}

LostInv == TicketInv /\ KnownInv /\ PlacedInv /\ AckedInv /\ WaitsInv

\* Who is at a job holds it.
LEMMA AtWorkHolds ==
  ASSUME worker \in [Workers -> Hand], NEW w \in Workers, NEW j
  PROVE  w \in AtWork(j) <=> worker[w].pc \in Holding /\ worker[w].job = j
<1> QED
  BY DEF Hand, AtWork, Holding, WorkerSteps

\* A job stays in its places, but for the two steps that take it out of them.
LEMMA PlacesStay ==
  ASSUME TicketInv, NEW w \in Workers, WorkerStep(w), NEW j \in Jobs, Somewhere(j),
         AckJob(w) \/ (Killed(w) /\ worker[w].pc = "push") => j # worker[w].job
  PROVE  Somewhere(j)'
<1>1. /\ worker' \in [Workers -> Hand]
      /\ \A v \in Workers : v # w => worker'[v] = worker[v]
      /\ UNCHANGED api
  BY WorkersApart, RedisWorker DEF TicketInv
<1>2. /\ queue \in Seq(Jobs) /\ processing \in [Jobs -> Nat] /\ worker \in [Workers -> Hand]
      /\ worker[w].pc \notin {"loop", "reap", "poll"} => worker[w].job \in Jobs
  BY DEF TicketInv, HandInv, TypeOK, HandsInv, Hand
<1> USE DEF At, redisVars, Hand
<1>6. ASSUME queue' = queue, processing'[j] = processing[j], w \notin Pushers(j)
      PROVE  Somewhere(j)'
  BY <1>1, <1>6 DEF Somewhere, InQueue, ApiHolds, Pushers
<1>7. CASE StartReap(w) \/ DoneReaping(w) \/ PollTimesOut(w) \/ Fetch(w) \/ Begin(w) \/ Progress(w) \/ EndRun(w)
  BY <1>6, <1>7 DEF StartReap, DoneReaping, PollTimesOut, Fetch, Begin, Progress, EndRun, Pushers
<1>8. CASE Lease(w) \/ Drop(w) \/ Start(w) \/ ReportProgress(w) \/ Finish(w)
  BY <1>6, <1>8 DEF Lease, SetLease, Drop, Start, ReportProgress, Finish, SaveCopy, Save, Pushers
<1>9. ASSUME NEW i \in Jobs, Reap(w, i) PROVE Somewhere(j)'
  BY <1>6, <1>9 DEF Reap, TakeLease, Pushers
<1>10. CASE Killed(w)
  BY <1>6, <1>10 DEF Killed, Pushers
<1>11. CASE AckJob(w)
  <2>1. worker[w].pc = "ack" /\ queue' = queue /\ processing' = [processing EXCEPT ![worker[w].job] = 0]
    BY <1>11 DEF AckJob, Ack
  <2> QED
    BY <1>2, <1>6, <1>11, <2>1 DEF Pushers
<1>12. CASE Take(w)
  <2>1. /\ queue # <<>> /\ queue' = Tail(queue) /\ Head(queue) \in Jobs
        /\ processing' = [processing EXCEPT ![Head(queue)] = @ + 1] /\ worker[w].pc \in {"loop", "poll"}
    BY <1>2, <1>12 DEF Take, MoveHead
  <2>2. CASE j = Head(queue)
    BY <1>2, <2>1, <2>2 DEF Somewhere
  <2>3. CASE j # Head(queue)
    <3>1. Once(queue)
      BY DEF TicketInv, OneTicket, Once
    <3>2. Stands(queue', j) <=> Stands(queue, j)
      BY <1>2, <2>1, <2>3, <3>1, TailOnce
    <3>3. InQueue(j)' <=> InQueue(j)
      BY <3>2 DEF InQueue, Stands
    <3> QED
      BY <1>1, <1>2, <2>1, <2>3, <3>3 DEF Somewhere, ApiHolds, Pushers
  <2> QED
    BY <2>2, <2>3
<1>13. CASE Reclaim(w)
  <2>1. /\ worker[w].pc = "reclaim" /\ worker[w].job \in Jobs /\ queue' = queue
        /\ processing' = [processing EXCEPT ![worker[w].job] = IF @ = 0 THEN 0 ELSE @ - 1]
    BY <1>2, <1>13 DEF Reclaim, RemoveOne
  <2>2. CASE j # worker[w].job \/ processing[j] = 0
    <3>1. processing'[j] = processing[j]
      BY <1>2, <2>1, <2>2
    <3> QED
      BY <1>6, <2>1, <3>1 DEF Pushers
  <2>3. CASE j = worker[w].job /\ processing[j] # 0
    <3>1. worker'[w].pc = "push" /\ worker'[w].job = j
      BY <1>2, <1>13, <2>3 DEF Reclaim
    <3> QED
      BY <3>1 DEF Somewhere, Pushers
  <2> QED
    BY <2>2, <2>3
<1>14. CASE PushReclaimed(w)
  <2>1. worker[w].job \in Jobs /\ queue' = Append(queue, worker[w].job) /\ processing' = processing
    BY <1>2, <1>14 DEF PushReclaimed, Push
  <2>2. Stands(queue', j) <=> Stands(queue, j) \/ j = worker[w].job
    BY <1>2, <2>1, AppendOnce
  <2>3. InQueue(j)' <=> InQueue(j) \/ j = worker[w].job
    BY <2>2 DEF InQueue, Stands
  <2> QED
    BY <1>1, <2>1, <2>3 DEF Somewhere, ApiHolds, Pushers
<1> QED
  BY <1>7, <1>8, <1>9, <1>10, <1>11, <1>12, <1>13, <1>14 DEF WorkerStep, Proceed

\* What a step leaves a worker with.
Took(w) ==
  /\ worker'[w].job \in Jobs /\ InQueue(worker'[w].job)
  /\ processing'[worker'[w].job] > 0 /\ worker'[w].pc = "lease"

Keeps(w) == worker'[w].pc \in Holding /\ worker'[w].job = worker[w].job

Leaves(w) == AckJob(w) \/ Killed(w)

\* Only a step that takes a job puts one in a worker's hands.
LEMMA HandMoves ==
  ASSUME TicketInv, NEW w \in Workers, WorkerStep(w)
  PROVE  /\ Leaves(w) => worker'[w].pc \notin Holding
         /\ ~Leaves(w) /\ worker[w].pc \in Holding => Keeps(w)
         /\ ~Leaves(w) /\ worker[w].pc \notin Holding => worker'[w].pc \notin Holding \/ Took(w)
<1>1. /\ worker \in [Workers -> Hand] /\ processing \in [Jobs -> Nat] /\ queue \in Seq(Jobs)
  BY DEF TicketInv, HandInv, TypeOK, Hand
<1> USE DEF At, Hand, Holding
<1>2. CASE Leaves(w)
  BY <1>1, <1>2 DEF Leaves, AckJob, Killed, AtLoop
<1>3. CASE ~Leaves(w)
  <2>1. CASE StartReap(w) \/ DoneReaping(w) \/ PollTimesOut(w) \/ PushReclaimed(w)
    BY <1>1, <1>3, <2>1 DEF StartReap, DoneReaping, PollTimesOut, PushReclaimed, Goto
  <2>2. CASE Take(w)
    <3>1. /\ queue # <<>> /\ Head(queue) \in Jobs /\ queue[1] = Head(queue) /\ 1 \in DOMAIN queue
          /\ worker'[w].pc = "lease" /\ worker'[w].job = Head(queue) /\ worker[w].pc \in {"loop", "poll"}
      BY <1>1, <2>2 DEF Take, MoveHead
    <3>2. processing'[Head(queue)] = processing[Head(queue)] + 1
      BY <1>1, <2>2, <3>1 DEF Take, MoveHead
    <3>3. Took(w)
      BY <1>1, <3>1, <3>2 DEF Took, InQueue
    <3> QED
      BY <1>3, <3>1, <3>3
  <2>3. ASSUME NEW j \in Jobs, Reap(w, j)
        PROVE  worker[w].pc \notin Holding /\ worker'[w].pc \notin Holding
    BY <1>1, <2>3 DEF Reap
  <2>4. CASE Reclaim(w)
    BY <1>1, <1>3, <2>4 DEF Reclaim
  <2>5. CASE Lease(w) \/ Begin(w) \/ Fetch(w) \/ Drop(w) \/ Start(w) \/ Progress(w) \/ ReportProgress(w) \/ EndRun(w) \/ Finish(w)
    <3>1. worker'[w].job = worker[w].job
      BY <1>1, <2>5 DEF Lease, Begin, Fetch, Drop, Start, Progress, ReportProgress, EndRun, Finish, Goto, GotoWith
    <3>2. worker[w].pc \in Holding /\ worker'[w].pc \in Holding
      BY <1>1, <2>5 DEF Lease, Begin, Fetch, Drop, Start, Progress, ReportProgress, EndRun, Finish, Goto, GotoWith
    <3> QED
      BY <1>3, <3>1, <3>2 DEF Keeps
  <2> QED
    BY <1>3, <2>1, <2>2, <2>3, <2>4, <2>5 DEF WorkerStep, Proceed, Leaves
<1> QED
  BY <1>2, <1>3

\* What it saves: its own progress, or an outcome before it acknowledges.
LEMMA SavesOwn ==
  ASSUME TicketInv, NEW w \in Workers, WorkerStep(w)
  PROVE  /\ \A j \in Jobs : Undone(j)' => InRun(w, j)' \/ record'[j] = record[j]
         /\ worker'[w].pc = "ack" => ~Undone(worker[w].job)' /\ worker'[w].job = worker[w].job
         /\ \A j \in Jobs : InRun(w, j) => Killed(w) \/ InRun(w, j)' \/ ~Undone(j)'
<1>1. /\ record \in [Jobs -> Record] /\ worker \in [Workers -> Hand] /\ queue \in Seq(Jobs)
      /\ worker[w].pc \notin {"loop", "reap", "poll"} => worker[w].job \in Jobs
      /\ worker[w].copy \in Record
      /\ worker[w].pc = "finish" => worker[w].copy.status \in Finished
  BY DEF TicketInv, HandInv, TypeOK, HandsInv, CopiesInv, Hand
<1> USE DEF At, redisVars, Hand
<1>2. ASSUME record' = record, worker'[w].pc # "ack", ~(worker[w].pc \in {"run", "report", "finish"})
      PROVE  /\ \A j \in Jobs : Undone(j)' => InRun(w, j)' \/ record'[j] = record[j]
             /\ worker'[w].pc = "ack" => ~Undone(worker[w].job)' /\ worker'[w].job = worker[w].job
             /\ \A j \in Jobs : InRun(w, j) => Killed(w) \/ InRun(w, j)' \/ ~Undone(j)'
  BY <1>2 DEF InRun
<1>3. CASE StartReap(w) \/ DoneReaping(w) \/ PollTimesOut(w) \/ AckJob(w) \/ PushReclaimed(w) \/ Take(w) \/ Lease(w)
  <2>1. record' = record /\ worker'[w].pc # "ack"
    BY <1>1, <1>3 DEF StartReap, DoneReaping, PollTimesOut, AckJob, Ack, PushReclaimed, Push, Take, MoveHead,
                      Lease, SetLease, Goto, AtLoop
  <2>2. ~(worker[w].pc \in {"run", "report", "finish"})
    BY <1>3 DEF StartReap, DoneReaping, PollTimesOut, AckJob, PushReclaimed, Take, Lease
  <2> QED
    BY <1>2, <2>1, <2>2
<1>4. ASSUME NEW j \in Jobs, Reap(w, j)
      PROVE  record' = record /\ worker'[w].pc # "ack" /\ ~(worker[w].pc \in {"run", "report", "finish"})
  BY <1>1, <1>4 DEF Reap, TakeLease
<1>5. CASE Reclaim(w)
  <2>1. record' = record /\ worker'[w].pc # "ack" /\ ~(worker[w].pc \in {"run", "report", "finish"})
    BY <1>1, <1>5 DEF Reclaim, RemoveOne
  <2> QED
    BY <1>2, <2>1
<1>6. CASE Fetch(w) \/ Begin(w)
  <2>1. record' = record /\ worker'[w].job = worker[w].job /\ ~(worker[w].pc \in {"run", "report", "finish"})
    BY <1>1, <1>6 DEF Fetch, Begin, GotoWith
  <2>2. worker'[w].pc = "ack" => ~Active(worker[w].job)
    BY <1>1, <1>6 DEF Fetch, Begin, GotoWith, NoRecord, Active, ACTIVE_STATUSES
  <2>3. worker'[w].pc = "ack" => ~Undone(worker[w].job)'
    BY <2>1, <2>2 DEF Undone, Active
  <2> QED
    BY <2>1, <2>3 DEF InRun
<1>7. CASE Progress(w) \/ EndRun(w)
  <2>1. /\ record' = record /\ worker'[w].job = worker[w].job
        /\ worker'[w].pc \in {"report", "finish"}
    BY <1>1, <1>7 DEF Progress, EndRun, Goto, GotoWith
  <2> QED
    BY <2>1 DEF InRun
<1>8. CASE Start(w) \/ ReportProgress(w)
  <2>1. /\ worker'[w].job = worker[w].job /\ worker'[w].pc = "run" /\ worker[w].job \in Jobs
        /\ \A j \in Jobs : j # worker[w].job => record'[j] = record[j]
    BY <1>1, <1>8 DEF Start, ReportProgress, SaveCopy, Save, Goto, GotoWith
  <2> QED
    BY <2>1 DEF InRun
<1>9. CASE Drop(w) \/ Finish(w)
  <2>1. PICK r \in Record : Save(worker[w].job, r) /\ r.status \in Finished
    BY <1>1, <1>9, RecordWith DEF Drop, Finish, SaveCopy, Finished
  <2>2. /\ worker'[w].job = worker[w].job /\ worker'[w].pc = "ack" /\ worker[w].job \in Jobs
    BY <1>1, <1>9 DEF Drop, Finish, Goto, GotoWith
  <2>3. /\ record'[worker[w].job].status \in Finished
        /\ \A j \in Jobs : j # worker[w].job => record'[j] = record[j]
    BY <1>1, <2>1, <2>2 DEF Save
  <2>4. ~Undone(worker[w].job)'
    BY <2>2, <2>3 DEF Undone, Active, ACTIVE_STATUSES, Finished
  <2> QED
    BY <2>2, <2>3, <2>4 DEF InRun
<1>10. CASE Killed(w)
  <2>1. record' = record /\ worker'[w].pc # "ack"
    BY <1>1, <1>10 DEF Killed, AtLoop
  <2> QED
    BY <1>10, <2>1
<1> QED
  BY <1>2, <1>3, <1>4, <1>5, <1>6, <1>7, <1>8, <1>9, <1>10 DEF WorkerStep, Proceed

\* What a step leaves of the history: whom it cuts off, and what is lost by it.
Recorded(w) ==
  /\ ~Leaves(w) => cut' = cut /\ lost' = lost
  /\ cut \ {w} \subseteq cut' /\ lost \subseteq lost'
  /\ AckJob(w) \/ (Killed(w) /\ worker[w].pc = "push") => AtWork(worker[w].job) \ {w} \subseteq cut'
  /\ Killed(w) /\ Loses(w) /\ worker[w].job \in Jobs => worker[w].job \in lost'

\* The history of a step says so.
LEMMA RecordsHistory ==
  ASSUME NEW w \in Workers, WorkerStep(w)
  PROVE  Recorded(w)
<1>1. CASE AckJob(w) /\ ~Killed(w)
  BY <1>1 DEF Recorded, Leaves, AckJob
<1>2. CASE Killed(w) /\ ~AckJob(w)
  BY <1>2 DEF Recorded, Leaves, Killed, At
<1>3. ~(AckJob(w) /\ Killed(w)) \/ Recorded(w)
  BY DEF Recorded, Leaves, AckJob, Killed, At
<1>4. ASSUME ~Leaves(w) PROVE UNCHANGED history
  BY <1>4 DEF WorkerStep, Proceed, Leaves, InWorker, StartReap, DoneReaping, PollTimesOut, Fetch, Begin, Progress,
              EndRun, Take, Reap, Reclaim, PushReclaimed, Lease, Drop, Start, ReportProgress, Finish
<1>5. CASE ~Leaves(w)
  BY <1>4, <1>5 DEF Recorded, history, Leaves
<1> QED
  BY <1>1, <1>2, <1>3, <1>5 DEF Leaves

\* Whoever else has the job keeps it.
LEMMA OthersKeep ==
  ASSUME TicketInv, NEW w \in Workers, WorkerStep(w), NEW v \in Workers, v # w, NEW j
  PROVE  /\ worker'[v] = worker[v]
         /\ v \in AtWork(j)' <=> v \in AtWork(j)
         /\ InRun(v, j)' <=> InRun(v, j)
         /\ InRun(v, j) => v \in AtWork(j)
<1>1. worker'[v] = worker[v]
  BY WorkersApart DEF TicketInv
<1> QED
  BY <1>1 DEF AtWork, InRun

\* A worker's step, one part of the invariant after the other.
LEMMA KnownWorker ==
  ASSUME LostInv, NEW w \in Workers, WorkerStep(w)
  PROVE  KnownInv'
<1> USE DEF LostInv
<1>1. \A j \in Jobs : record[j].status # "none" => record'[j].status # "none"
  BY RecordsStay DEF TicketInv
<1>2. \A v \in Workers : worker[v].pc \in Holding => worker[v].job \in Jobs
  BY DEF TicketInv, HandInv, HandsInv, Holding
<1>3. ASSUME NEW v \in Workers, v # w, worker'[v].pc \in Holding
      PROVE  record'[worker'[v].job].status # "none"
  BY <1>1, <1>2, <1>3, OthersKeep DEF KnownInv
<1>4. ASSUME worker'[w].pc \in Holding
      PROVE  record'[worker'[w].job].status # "none"
  <2>1. CASE worker[w].pc \in Holding
    BY <1>1, <1>2, <1>4, <2>1, HandMoves DEF KnownInv, Keeps
  <2>2. CASE worker[w].pc \notin Holding
    <3>1. Took(w)
      BY <1>4, <2>2, HandMoves
    <3> QED
      BY <1>1, <3>1 DEF Took, TicketInv, UnknownInv
  <2> QED
    BY <2>1, <2>2
<1> QED
  BY <1>3, <1>4 DEF KnownInv

\* Whom no step cut off has its job where a restart finds it.
LEMMA PlacedWorker ==
  ASSUME LostInv, NEW w \in Workers, WorkerStep(w), NEW v \in Workers, v \notin cut',
         NEW j \in Jobs, worker'[v].pc \in Holding, worker'[v].job = j
  PROVE  Somewhere(j)'
<1> USE DEF LostInv
<1>1. Recorded(w)
  BY RecordsHistory
<1>2. worker \in [Workers -> Hand]
  BY DEF TicketInv, HandInv, TypeOK, Hand
<1>3. CASE v # w
  <2>1. worker[v].pc \in Holding /\ worker[v].job = j /\ v \notin cut
    BY <1>1, <1>3, OthersKeep DEF Recorded
  <2>2. Somewhere(j) /\ v \in AtWork(j)
    BY <1>2, <2>1, AtWorkHolds DEF PlacedInv
  <2>3. AckJob(w) \/ (Killed(w) /\ worker[w].pc = "push") => j # worker[w].job
    BY <1>1, <1>3, <2>2 DEF Recorded
  <2> QED
    BY <2>2, <2>3, PlacesStay
<1>4. CASE v = w
  <2>1. ~Leaves(w)
    BY <1>4, HandMoves
  <2>2. CASE worker[w].pc \in Holding
    <3>1. worker[w].job = j /\ w \notin cut
      BY <1>1, <1>4, <2>1, <2>2, HandMoves DEF Recorded, Keeps
    <3>2. Somewhere(j)
      BY <2>2, <3>1 DEF PlacedInv
    <3> QED
      BY <2>1, <3>2, PlacesStay DEF Leaves
  <2>3. CASE worker[w].pc \notin Holding
    <3>1. Took(w)
      BY <1>4, <2>1, <2>3, HandMoves
    <3> QED
      BY <1>4, <3>1 DEF Took, Somewhere
  <2> QED
    BY <2>2, <2>3
<1> QED
  BY <1>3, <1>4

\* A job that is to be done after the step was before it, or its runner saved.
LEMMA UndoneBefore ==
  ASSUME TicketInv, NEW w \in Workers, WorkerStep(w), NEW j \in Jobs, Undone(j)'
  PROVE  InRun(w, j)' \/ Undone(j)
<1>1. InRun(w, j)' \/ record'[j] = record[j]
  BY SavesOwn
<1> QED
  BY <1>1 DEF Undone, Active

\* A worker that is killed in the run of a job another is to acknowledge loses it.
LEMMA AckedWorker ==
  ASSUME LostInv, NEW w \in Workers, WorkerStep(w), NEW j \in Jobs, j \notin lost',
         NEW u \in Workers, Undone(j)', worker'[u].pc = "ack", worker'[u].job = j
  PROVE  \E v \in Workers : InRun(v, j)'
<1> USE DEF LostInv
<1>1. Recorded(w)
  BY RecordsHistory
<1>2. u # w
  BY SavesOwn DEF Undone, Active
<1>3. worker[u].pc = "ack" /\ worker[u].job = j /\ j \notin lost
  BY <1>1, <1>2, OthersKeep DEF Recorded
<1>4. CASE InRun(w, j)'
  BY <1>4
<1>5. CASE Undone(j)
  <2>1. PICK v \in Workers : InRun(v, j)
    BY <1>3, <1>5 DEF AckedInv
  <2>2. CASE v # w
    BY <2>1, <2>2, OthersKeep
  <2>3. CASE v = w /\ ~Killed(w)
    BY <2>1, <2>3, SavesOwn
  <2>4. CASE v = w /\ Killed(w)
    <3>1. worker \in [Workers -> Hand]
      BY DEF TicketInv, HandInv, TypeOK, Hand
    <3>2. w \in AtWork(j) /\ worker[w].job = j
      BY <2>1, <2>4, <3>1, AtWorkHolds DEF InRun, Holding
    <3>3. u \in AtWork(j)
      BY <1>3, <3>1, AtWorkHolds DEF Holding
    <3>4. Loses(w)
      BY <1>2, <1>3, <1>5, <3>2, <3>3 DEF Loses, Undone, At
    <3> QED
      BY <1>1, <2>4, <3>2, <3>4 DEF Recorded
  <2> QED
    BY <2>2, <2>3, <2>4
<1> QED
  BY <1>4, <1>5, UndoneBefore

\* What is to be done stays in its place or with a worker, or the step loses it.
LEMMA WaitsWorker ==
  ASSUME LostInv, NEW w \in Workers, WorkerStep(w), NEW j \in Jobs, j \notin lost', Undone(j)'
  PROVE  Somewhere(j)' \/ AtWork(j)' # {}
<1> USE DEF LostInv
<1>1. Recorded(w)
  BY RecordsHistory
<1>2. j \notin lost
  BY <1>1 DEF Recorded
<1>3. worker \in [Workers -> Hand] /\ worker' \in [Workers -> Hand]
  BY WorkersApart DEF TicketInv, HandInv, TypeOK, Hand
<1>4. CASE InRun(w, j)'
  BY <1>4 DEF InRun, AtWork
<1>5. CASE Undone(j) /\ AckJob(w) /\ worker[w].job = j
  <2>1. PICK v \in Workers : InRun(v, j)
    BY <1>2, <1>5 DEF AckedInv, AckJob, At
  <2>2. v # w
    BY <1>5, <2>1 DEF InRun, AckJob, At
  <2> QED
    BY <2>1, <2>2, OthersKeep
<1>6. CASE Undone(j) /\ Killed(w) /\ worker[w].pc = "push" /\ worker[w].job = j
  BY <1>1, <1>6 DEF Recorded, Loses, Undone, At
<1>7. CASE /\ Undone(j) /\ ~InRun(w, j)'
           /\ ~(AckJob(w) /\ worker[w].job = j)
           /\ ~(Killed(w) /\ worker[w].pc = "push" /\ worker[w].job = j)
  <2>1. CASE Somewhere(j)
    BY <1>7, <2>1, PlacesStay
  <2>2. CASE ~Somewhere(j)
    <3>1. PICK v \in Workers : v \in AtWork(j)
      BY <1>2, <1>7, <2>2 DEF WaitsInv, AtWork
    <3>2. CASE v # w
      BY <3>1, <3>2, OthersKeep
    <3>3. CASE v = w
      <4>1. worker[w].pc \in Holding /\ worker[w].job = j
        BY <1>3, <3>1, <3>3, AtWorkHolds
      <4>2. CASE ~Leaves(w)
        <5>1. worker'[w].pc \in Holding /\ worker'[w].job = j
          BY <4>1, <4>2, HandMoves DEF Keeps
        <5> QED
          BY <1>3, <5>1 DEF Holding, AtWork
      <4>3. CASE Killed(w)
        <5>1. w \in cut
          BY <2>2, <4>1 DEF PlacedInv
        <5>2. Loses(w)
          BY <1>7, <4>1, <5>1 DEF Loses, Undone
        <5> QED
          BY <1>1, <4>1, <4>3, <5>2 DEF Recorded
      <4> QED
        BY <1>7, <4>1, <4>2, <4>3 DEF Leaves
    <3> QED
      BY <3>2, <3>3
  <2> QED
    BY <2>1, <2>2
<1> QED
  BY <1>4, <1>5, <1>6, <1>7, UndoneBefore

\* What the API creates it holds until it has queued it; what it asks to
\* cancel stays where it is, and is no longer wanted.
LEMMA PlacesApi ==
  ASSUME TicketInv, ApiStep
  PROVE  /\ UNCHANGED <<worker, processing, cut, lost>>
         /\ \A j \in Jobs : Somewhere(j) => Somewhere(j)'
         /\ \A j \in Jobs : record[j].status # "none" => record'[j].status # "none"
         /\ \A j \in Jobs : Undone(j)' => Undone(j) \/ (record[j].status = "none" /\ Somewhere(j)')
<1> DEFINE Kept(j) == /\ Somewhere(j) => Somewhere(j)'
                      /\ record[j].status # "none" => record'[j].status # "none"
                      /\ Undone(j)' => Undone(j) \/ (record[j].status = "none" /\ Somewhere(j)')
<1>1. /\ record \in [Jobs -> Record] /\ queue \in Seq(Jobs)
      /\ api.pc \in {"enqueue", "cancel"} => api.job \in Jobs
      /\ api.pc = "cancel" => api.copy.cancel /\ api.copy.status # "none"
  BY DEF TicketInv, HandInv, TypeOK, HandsInv, CopiesInv, ACTIVE_STATUSES
<1>2. UNCHANGED <<worker, processing, cut, lost>>
  BY DEF ApiStep, Request, Forget, DropActive, Enqueue, Push, SaveCancel, Save, CheckMember, Create, Cancel,
         LeaseExpires, LeaseRunsOut, InApi, redisVars, history
<1>3. ASSUME record' = record, \A j \in Jobs : Somewhere(j) => Somewhere(j)'
      PROVE  \A j \in Jobs : Kept(j)
  BY <1>3 DEF Undone, Active
<1> USE DEF redisVars
<1>7. CASE Request \/ Forget \/ \E j \in Jobs : CheckMember(j) \/ Cancel(j) \/ LeaseExpires(j)
  <2>1. record' = record /\ queue' = queue /\ (api' = api \/ api.pc # "enqueue")
    BY <1>7 DEF Request, Forget, DropActive, CheckMember, Cancel, LeaseExpires, LeaseRunsOut
  <2> QED
    BY <1>2, <1>3, <2>1 DEF Somewhere, InQueue, ApiHolds, Pushers, At
<1>8. CASE Enqueue
  <2>1. PICK h \in Jobs : h = api.job /\ queue' = Append(queue, h) /\ record' = record
    BY <1>1, <1>8 DEF Enqueue, Push
  <2>2. \A j \in Jobs : Stands(queue', j) <=> Stands(queue, j) \/ j = h
    BY <1>1, <2>1, AppendOnce
  <2>3. \A j \in Jobs : InQueue(j)' <=> InQueue(j) \/ j = h
    BY <2>2 DEF InQueue, Stands
  <2> QED
    BY <1>2, <1>3, <2>1, <2>3 DEF Somewhere, ApiHolds, Pushers, At
<1>9. ASSUME NEW i \in Jobs, Create(i) PROVE \A j \in Jobs : Kept(j)
  <2>1. /\ api'.pc = "enqueue" /\ api'.job = i /\ queue' = queue /\ api.pc = "check"
        /\ \A j \in Jobs : j # i => record'[j] = record[j]
        /\ record[i].status = "none"
    BY <1>1, <1>9 DEF Create, Save, NoRecord, TicketInv, HandInv, TypeOK
  <2>2. \A j \in Jobs : j # i /\ Somewhere(j) => Somewhere(j)'
    BY <1>2, <2>1 DEF Somewhere, InQueue, ApiHolds, Pushers, At
  <2>3. Somewhere(i)'
    BY <2>1 DEF Somewhere, ApiHolds
  <2> QED
    BY <2>1, <2>2, <2>3 DEF Undone, Active
<1>10. CASE SaveCancel
  <2>1. PICK h \in Jobs : h = api.job /\ api.pc = "cancel"
    BY <1>1, <1>10 DEF SaveCancel
  <2>2. /\ record'[h].cancel /\ record'[h].status # "none"
        /\ queue' = queue /\ \A j \in Jobs : j # h => record'[j] = record[j]
    BY <1>1, <1>10, <2>1 DEF SaveCancel, Save
  <2>3. \A j \in Jobs : Somewhere(j) => Somewhere(j)'
    BY <1>2, <2>1, <2>2 DEF Somewhere, InQueue, ApiHolds, Pushers, At
  <2> QED
    BY <1>2, <2>2, <2>3 DEF Undone, Active
<1> QED
  BY <1>2, <1>7, <1>8, <1>9, <1>10 DEF ApiStep

\* So the API breaks no part of the invariant.
LEMMA LostApi ==
  ASSUME LostInv, ApiStep
  PROVE  KnownInv' /\ PlacedInv' /\ AckedInv' /\ WaitsInv'
<1> USE DEF LostInv
<1>1. UNCHANGED <<worker, processing, cut, lost>>
  BY PlacesApi
<1>2. \A w \in Workers : worker[w].pc \in Holding => worker[w].job \in Jobs /\ record[worker[w].job].status # "none"
  BY DEF TicketInv, HandInv, HandsInv, Holding, KnownInv
<1>3. KnownInv'
  BY <1>1, <1>2, PlacesApi DEF KnownInv
<1>4. PlacedInv'
  <2>1. ASSUME NEW w \in Workers, w \notin cut, worker[w].pc \in Holding
        PROVE  Somewhere(worker[w].job)'
    <3>1. PICK j \in Jobs : j = worker[w].job
      BY <1>2, <2>1
    <3>2. Somewhere(j)
      BY <2>1, <3>1 DEF PlacedInv
    <3>3. Somewhere(j)'
      BY <3>2, PlacesApi
    <3> QED
      BY <1>1, <3>1, <3>3 DEF Somewhere, InQueue, ApiHolds, Pushers
  <2> QED
    BY <1>1, <2>1 DEF PlacedInv, Somewhere, InQueue, ApiHolds, Pushers
<1>5. AckedInv'
  <2>1. ASSUME NEW j \in Jobs, j \notin lost, NEW w \in Workers, Undone(j)', worker[w].pc = "ack", worker[w].job = j
        PROVE  \E v \in Workers : InRun(v, j)
    <3>1. record[j].status # "none"
      BY <1>2, <2>1 DEF Holding
    <3>2. Undone(j)
      BY <2>1, <3>1, PlacesApi
    <3> QED
      BY <2>1, <3>2 DEF AckedInv
  <2> QED
    BY <1>1, <2>1 DEF AckedInv, InRun
<1>6. WaitsInv'
  <2>1. ASSUME NEW j \in Jobs, j \notin lost, Undone(j)'
        PROVE  Somewhere(j)' \/ AtWork(j)' # {}
    <3>1. AtWork(j)' = AtWork(j)
      BY <1>1 DEF AtWork
    <3> QED
      BY <2>1, <3>1, PlacesApi DEF WaitsInv
  <2> QED
    BY <1>1, <2>1 DEF WaitsInv
<1> QED
  BY <1>3, <1>4, <1>5, <1>6

\* So every step keeps what is to be done where somebody finds it.
LEMMA LostStep ==
  ASSUME LostInv, [Next]_vars
  PROVE  LostInv'
<1>1. TicketInv'
  BY TicketStep DEF LostInv
<1>2. CASE UNCHANGED vars
  BY <1>1, <1>2 DEF vars, redisVars, history, LostInv, KnownInv, PlacedInv, AckedInv, WaitsInv, Undone, InRun,
                    AtWork, Somewhere, InQueue, ApiHolds, Pushers, At, Active
<1>3. CASE ApiStep
  BY <1>1, <1>3, LostApi DEF LostInv
<1>4. ASSUME NEW w \in Workers, WorkerStep(w) PROVE LostInv'
  <2>1. KnownInv'
    BY <1>4, KnownWorker
  <2>2. PlacedInv'
    <3>1. ASSUME NEW v \in Workers, v \notin cut', worker'[v].pc \in Holding
          PROVE  worker'[v].job \in Jobs
      BY <1>1, <3>1 DEF TicketInv, HandInv, HandsInv, Holding
    <3>2. ASSUME NEW v \in Workers, v \notin cut', worker'[v].pc \in Holding,
                 NEW j \in Jobs, worker'[v].job = j
          PROVE  Somewhere(j)'
      BY <1>4, <3>2, PlacedWorker
    <3> QED
      BY <3>1, <3>2 DEF PlacedInv, Somewhere, InQueue, ApiHolds, Pushers
  <2>3. AckedInv'
    BY <1>4, AckedWorker DEF AckedInv, InRun, Undone
  <2>4. WaitsInv'
    BY <1>4, WaitsWorker DEF WaitsInv
  <2> QED
    BY <1>1, <2>1, <2>2, <2>3, <2>4 DEF LostInv
<1> QED
  BY <1>2, <1>3, <1>4, StepSplits

\* blocking_dequeue's "never lost", with any number of workers and wherever they are
\* killed: a job that is pending or running and that nobody asked to cancel is queued,
\* listed as being processed, with a worker or about to be queued, unless a kill came
\* between the two commands by which a reaper moves it, or at a job that another worker
\* acknowledged or was to acknowledge.
THEOREM NeverLostByKills == Spec => []NeverLost
<1>1. Init => LostInv
  <2> SUFFICES ASSUME Init PROVE LostInv
    OBVIOUS
  <2>1. KnownInv /\ PlacedInv /\ AckedInv /\ WaitsInv
    BY DEF Init, PersistenceInit, AtLoop, NoRecord, KnownInv, PlacedInv, AckedInv, WaitsInv, Holding, Undone,
           Active, ACTIVE_STATUSES
  <2> QED
    BY <2>1, InitTicket DEF LostInv
<1>2. LostInv /\ [Next]_vars => LostInv'
  BY LostStep
<1>3. LostInv => NeverLost
  <2> SUFFICES ASSUME LostInv, NEW j \in Jobs, j \notin lost, Active(j), ~record[j].cancel,
                      ~InQueue(j), ~(processing[j] > 0), ~ApiHolds(j)
               PROVE  \E w \in Workers : Executing(w) /\ worker[w].job = j
    BY DEF NeverLost
  <2>1. Pushers(j) # {} \/ AtWork(j) # {}
    BY DEF LostInv, WaitsInv, Undone, Somewhere
  <2> QED
    BY <2>1 DEF Pushers, At, AtWork, Executing
<1> QED
  BY <1>1, <1>2, <1>3, PTL DEF Spec
=============================================================================
