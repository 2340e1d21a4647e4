----------------------------- MODULE MCJobQueue -----------------------------
(***************************************************************************)
(* Two deployments of JobQueue.                                            *)
(***************************************************************************)
EXTENDS JobQueue

CONSTANTS j1, j2, w1, w2

MCJobs    == {j1, j2}
MCWorkers == {w1, w2}

\* Two workers that may both reap, one of which is killed, anywhere, and one job, which
\* may be cancelled.
TwoReapers ==
  [workers |-> {w1, w2}, jobs |-> {j1}, cancels |-> 1, crashes |-> 1]

\* One worker that is killed twice, anywhere, and two jobs, with and without a cancel
\* request.
OneWorkerKilled(requests) ==
  [workers |-> {w1}, jobs |-> {j1, j2}, cancels |-> requests, crashes |-> 2]

MCSettings == {TwoReapers, OneWorkerKilled(0), OneWorkerKilled(1)}
=============================================================================
