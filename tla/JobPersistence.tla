--------------------------- MODULE JobPersistence ---------------------------
(***************************************************************************)
(* RedisJobPersistence (backend/src/api/services/job_persistence.py): what *)
(* one namespace keeps in Redis, and one operator per command or pipeline  *)
(* it sends.  Each is atomic in Redis; the methods are not, so whoever     *)
(* composes this module sends them one after the other.                    *)
(*                                                                         *)
(* The queue's head is the end BLMOVE takes from.  A list a job is removed *)
(* from wherever it stands is a count per job.  Leases run out at any      *)
(* time.  Records of finished jobs are kept: their seven days are longer   *)
(* than any behaviour of interest.                                         *)
(***************************************************************************)
EXTENDS Naturals, Sequences

CONSTANTS Jobs

VARIABLES record,      \* the job records
          active,      \* the set of active jobs
          queue,       \* the list of waiting jobs
          processing,  \* how often each job is in the processing list
          lease        \* the jobs whose lease key exists

redisVars == <<record, active, queue, processing, lease>>

-----------------------------------------------------------------------------
ACTIVE_STATUSES == {"pending", "running"}
Finished        == {"completed", "failed", "cancelled"}

\* What the model keeps of a job's record; "none" when there is no record.
Record   == [status : ACTIVE_STATUSES \cup Finished \cup {"none"}, cancel : BOOLEAN]
NoRecord == [status |-> "none", cancel |-> FALSE]

Active(j) == record[j].status \in ACTIVE_STATUSES

PersistenceInit ==
  /\ record = [j \in Jobs |-> NoRecord]
  /\ active = {}
  /\ queue = <<>>
  /\ processing = [j \in Jobs |-> 0]
  /\ lease = {}

\* save: the record and the active set in one pipeline.
Save(j, r) ==
  /\ record' = [record EXCEPT ![j] = r]
  /\ active' = IF r.status \in ACTIVE_STATUSES THEN active \cup {j} ELSE active \ {j}
  /\ UNCHANGED <<queue, processing, lease>>

\* has_active drops a member whose record it found inactive.
DropActive(j) ==
  /\ active' = active \ {j}
  /\ UNCHANGED <<record, queue, processing, lease>>

\* enqueue, and the last command of requeue_stale.
Push(j) ==
  /\ queue' = Append(queue, j)
  /\ UNCHANGED <<record, active, processing, lease>>

\* blocking_dequeue, its BLMOVE ...  Variant first: a plain pop.
PopHead ==
  /\ queue # <<>>
  /\ queue' = Tail(queue)
  /\ UNCHANGED <<record, active, processing, lease>>

MoveHead ==
  /\ queue # <<>>
  /\ queue' = Tail(queue)
  /\ processing' = [processing EXCEPT ![Head(queue)] = @ + 1]
  /\ UNCHANGED <<record, active, lease>>

\* ... and its SET of the lease, under a new token each time.
SetLease(j) ==
  /\ lease' = lease \cup {j}
  /\ UNCHANGED <<record, active, queue, processing>>

\* PROCESSING_LEASE_SECONDS have passed.
LeaseRunsOut(j) ==
  /\ j \in lease
  /\ lease' = lease \ {j}
  /\ UNCHANGED <<record, active, queue, processing>>

\* ack: every occurrence and the lease, in one pipeline.
Ack(j) ==
  /\ processing' = [processing EXCEPT ![j] = 0]
  /\ lease' = lease \ {j}
  /\ UNCHANGED <<record, active, queue>>

\* requeue_stale's GETDEL: the key is gone afterwards, whoever set it.
TakeLease(j) ==
  /\ lease' = lease \ {j}
  /\ UNCHANGED <<record, active, queue, processing>>

\* requeue_stale's LREM of one occurrence, if there is one.
RemoveOne(j) ==
  /\ processing' = [processing EXCEPT ![j] = IF @ = 0 THEN 0 ELSE @ - 1]
  /\ UNCHANGED <<record, active, queue, lease>>
=============================================================================
