----------------------------- MODULE JobProgress -----------------------------
(***************************************************************************)
(* How a page learns what became of a validation job.  The runner of the   *)
(* job (validation/job_executor.py) saves its record and publishes it;     *)
(* the hub of the API process (api/services/job_progress.py) hands the     *)
(* newest payload to every open event stream; the page                     *)
(* (frontend/hooks/useJobEventSource.ts, contexts/ValidationJobContext.tsx)*)
(* reads its stream, reconnects when it breaks and polls when it has none. *)
(*                                                                         *)
(* Without Redis the job is a task of the API process and publishes into   *)
(* the hub itself.  With Redis it runs in a worker, and what the worker    *)
(* publishes reaches the hub through a Redis channel and a bridge task     *)
(* (job_progress_bridge.py).  One job and one page; what the queue does    *)
(* with many jobs and dying workers is module JobQueue.                    *)
(***************************************************************************)
EXTENDS Integers, Sequences

CONSTANTS MaxReports,   \* bound: progress reports of the job
          MaxCancels,   \* bound: cancel requests
          MaxFaults,    \* bound: API stops, bridge failures and broken streams
          MaxAttempts   \* reconnects before the page falls back to polling

ASSUME ProgressAssumption == {MaxReports, MaxCancels, MaxFaults, MaxAttempts} \subseteq Nat

VARIABLES queued,     \* is Redis there: a worker runs the job, or the API process does
          record,     \* the job's record, or NoRecord
          runner,     \* the runner: its step and, in a worker, its copy of the record
          canceller,  \* the cancel handler: its step and its copy
          channel,    \* the Redis channel: payloads published and not yet bridged
          bridge,     \* is the bridge forwarding
          api,        \* is the API process up
          stream,     \* the page's event stream in the API process
          page,       \* the page: the job it shows and the state of its hook
          cancels,    \* how many cancel requests there have been
          faults      \* how many faults there have been

vars == <<queued, record, runner, canceller, channel, bridge, api, stream, page, cancels, faults>>

TERMINAL_STATUSES == {"completed", "failed", "cancelled"}

NoRecord == [status |-> "none", progress |-> 0, cancel |-> FALSE]

Created == [NoRecord EXCEPT !.status = "pending"]

Ended(r) == r.status \in TERMINAL_STATUSES

NoStream == [pc |-> "none", queue |-> <<>>, initial |-> NoRecord]

Init ==
  /\ queued \in BOOLEAN
  /\ record = Created
  /\ runner = [pc |-> "waiting", copy |-> NoRecord]
  /\ canceller = [pc |-> "idle", copy |-> NoRecord]
  /\ channel = <<>>
  /\ bridge = queued
  /\ api = TRUE
  /\ stream = NoStream
  /\ page = [data |-> NoRecord, streaming |-> FALSE, failed |-> FALSE,
             attempts |-> 0, refetch |-> FALSE]
  /\ cancels = 0
  /\ faults = 0

-----------------------------------------------------------------------------
\* The hub empties the queue of a subscriber before it puts the payload in:
\* a slow stream skips to the newest.  Variant first: a full queue is kept.
FirstKept(s, r) ==
  IF s.pc = "live" /\ s.queue = <<>> THEN [s EXCEPT !.queue = <<r>>] ELSE s

Published(s, r) ==
  IF s.pc = "live" THEN [s EXCEPT !.queue = <<r>>] ELSE s

\* The runner's record: the one object of the API process, or its own copy.
Mine == IF queued THEN runner.copy ELSE record

\* update(): save, then publish.  In the API process that is one step; a
\* worker, whose own hub has no subscribers, publishes to Redis afterwards.
Update(r) ==
  /\ record' = r
  /\ IF queued
     THEN /\ runner' = [pc |-> "publishing", copy |-> r]
          /\ UNCHANGED stream
     ELSE /\ runner' = [runner EXCEPT !.pc = IF Ended(r) THEN "done" ELSE "running"]
          /\ stream' = Published(stream, r)
  /\ UNCHANGED <<queued, canceller, channel, bridge, api, page, cancels, faults>>

\* The worker skips a job that has ended and drops one to be cancelled; a
\* task of the API process just starts.
Begin ==
  /\ runner.pc = "waiting"
  /\ ~Ended(record)
  /\ Update([record EXCEPT !.status = IF queued /\ record.cancel THEN "cancelled" ELSE "running"])

PublishToRedis ==
  /\ runner.pc = "publishing"
  /\ channel' = IF bridge THEN Append(channel, runner.copy) ELSE channel
  /\ runner' = [runner EXCEPT !.pc = IF Ended(runner.copy) THEN "done" ELSE "running"]
  /\ UNCHANGED <<queued, record, canceller, bridge, api, stream, page, cancels, faults>>

\* on_progress reads the record for a cancel request and saves its own copy.
Report ==
  /\ runner.pc = "running"
  /\ ~record.cancel
  /\ Mine.progress < MaxReports
  /\ Update([Mine EXCEPT !.progress = @ + 1])

\* A cancelled task ends at its next await, a worker at its next report.
StopOnCancel ==
  /\ runner.pc = "running"
  /\ record.cancel
  /\ Update([Mine EXCEPT !.status = "cancelled"])

\* The run ends, well or not; a worker does not look for a request any more.
End(status) ==
  /\ runner.pc = "running"
  /\ queued \/ ~record.cancel
  /\ Update([Mine EXCEPT !.status = status])

-----------------------------------------------------------------------------
Asked(r) == [r EXCEPT !.cancel = TRUE]

\* request_cancel, with the job in this process: one step.  The task started
\* before the answer to its submission left, so it is running by now.
CancelHere ==
  /\ ~queued
  /\ api
  /\ cancels < MaxCancels
  /\ record.status = "running"
  /\ record' = Asked(record)
  /\ stream' = Published(stream, Asked(record))
  /\ cancels' = cancels + 1
  /\ UNCHANGED <<queued, runner, canceller, channel, bridge, api, page, faults>>

\* request_cancel, with the job in a worker: load, save, publish.
CancelRead ==
  /\ queued
  /\ api
  /\ canceller.pc = "idle"
  /\ cancels < MaxCancels
  /\ record.status \in {"pending", "running"}
  /\ canceller' = [pc |-> "save", copy |-> Asked(record)]
  /\ cancels' = cancels + 1
  /\ UNCHANGED <<queued, record, runner, channel, bridge, api, stream, page, faults>>

CancelSave ==
  /\ canceller.pc = "save"
  /\ record' = canceller.copy
  /\ canceller' = [canceller EXCEPT !.pc = "publish"]
  /\ UNCHANGED <<queued, runner, channel, bridge, api, stream, page, cancels, faults>>

CancelPublish ==
  /\ canceller.pc = "publish"
  /\ stream' = Published(stream, canceller.copy)
  /\ channel' = IF bridge THEN Append(channel, canceller.copy) ELSE channel
  /\ canceller' = [pc |-> "idle", copy |-> NoRecord]
  /\ UNCHANGED <<queued, record, runner, bridge, api, page, cancels, faults>>

-----------------------------------------------------------------------------
Forward ==
  /\ bridge
  /\ channel # <<>>
  /\ stream' = Published(stream, Head(channel))
  /\ channel' = Tail(channel)
  /\ UNCHANGED <<queued, record, runner, canceller, bridge, api, page, cancels, faults>>

\* An exception of the Redis connection ends the bridge until the API restarts.
BridgeStops ==
  /\ bridge
  /\ faults < MaxFaults
  /\ bridge' = FALSE
  /\ channel' = <<>>
  /\ faults' = faults + 1
  /\ UNCHANGED <<queued, record, runner, canceller, api, stream, page, cancels>>

\* The page's stream closed without a terminal event: try again, or poll.
Broken(p) ==
  [p EXCEPT !.streaming = FALSE,
            !.attempts = @ + 1,
            !.failed = p.attempts + 1 > MaxAttempts]

StreamBreaks ==
  /\ stream.pc # "none"
  /\ faults < MaxFaults
  /\ stream' = NoStream
  /\ page' = Broken(page)
  /\ faults' = faults + 1
  /\ UNCHANGED <<queued, record, runner, canceller, channel, bridge, api, cancels>>

\* The API process ends, and with it the bridge, the streams, a handler in
\* progress and, without Redis, the job and its record.
ApiStops ==
  /\ api
  /\ faults < MaxFaults
  /\ api' = FALSE
  /\ bridge' = FALSE
  /\ channel' = <<>>
  /\ canceller' = [pc |-> "idle", copy |-> NoRecord]
  /\ stream' = NoStream
  /\ page' = IF stream.pc = "none" THEN page ELSE Broken(page)
  /\ record' = IF queued THEN record ELSE NoRecord
  /\ runner' = IF queued THEN runner ELSE [runner EXCEPT !.pc = "done"]
  /\ faults' = faults + 1
  /\ UNCHANGED <<queued, cancels>>

ApiStarts ==
  /\ ~api
  /\ api' = TRUE
  /\ bridge' = queued
  /\ UNCHANGED <<queued, record, runner, canceller, channel, stream, page, cancels, faults>>

-----------------------------------------------------------------------------
\* The page shows a payload; one of an ended job closes its stream.
Show(r) ==
  IF Ended(r)
  THEN /\ page' = [page EXCEPT !.data = r, !.streaming = FALSE,
                               !.refetch = stream.pc = "live"]
       /\ stream' = NoStream
  ELSE /\ page' = [page EXCEPT !.data = r, !.refetch = FALSE]
       /\ UNCHANGED stream

InBrowser == UNCHANGED <<queued, record, runner, canceller, channel, bridge, api, cancels, faults>>

\* The hook opens a stream; the route reads the record for the snapshot.
Connect ==
  /\ api
  /\ record # NoRecord
  /\ ~Ended(page.data)
  /\ stream.pc = "none"
  /\ ~page.failed
  /\ stream' = [NoStream EXCEPT !.pc = "opened", !.initial = record]
  /\ page' = [page EXCEPT !.streaming = TRUE, !.attempts = 0]
  /\ InBrowser

\* 404: no reconnect.  No API at all: another attempt, or none any more.
ConnectFails ==
  /\ ~api \/ record = NoRecord
  /\ ~Ended(page.data)
  /\ stream.pc = "none"
  /\ ~page.failed
  /\ page' = IF api THEN [page EXCEPT !.failed = TRUE] ELSE Broken(page)
  /\ UNCHANGED stream
  /\ InBrowser

\* The stream's generator starts: it subscribes and sends the snapshot, and
\* the terminal event with it when the snapshot says so.
Subscribe ==
  /\ stream.pc = "opened"
  /\ IF Ended(stream.initial)
     THEN /\ page' = [page EXCEPT !.data = stream.initial, !.streaming = FALSE, !.refetch = TRUE]
          /\ stream' = NoStream
     ELSE /\ page' = [page EXCEPT !.data = stream.initial]
          /\ stream' = [stream EXCEPT !.pc = "live"]
  /\ InBrowser

\* The stream sends the payload in its queue.
Send ==
  /\ stream.pc = "live"
  /\ stream.queue # <<>>
  /\ LET r == Head(stream.queue)
     IN  IF Ended(r)
         THEN Show(r)
         ELSE /\ page' = [page EXCEPT !.data = r]
              /\ stream' = [stream EXCEPT !.queue = <<>>]
  /\ InBrowser

\* A terminal event makes the page read the job once more.
Refetch ==
  /\ page.refetch
  /\ IF api /\ record # NoRecord
     THEN page' = [page EXCEPT !.data = record, !.refetch = FALSE]
     ELSE page' = [page EXCEPT !.refetch = FALSE]
  /\ UNCHANGED stream
  /\ InBrowser

\* The query polls while the job has not ended and no stream is trusted.
\* Variant first: a page that gave up on streams does not poll.
PollUnlessFailed ==
  /\ api
  /\ record # NoRecord
  /\ ~Ended(page.data)
  /\ ~page.streaming /\ ~page.failed
  /\ Show(record)
  /\ InBrowser

Poll ==
  /\ api
  /\ record # NoRecord
  /\ ~Ended(page.data)
  /\ ~page.streaming \/ page.failed
  /\ Show(record)
  /\ InBrowser

Next ==
  \/ Begin \/ PublishToRedis \/ Report \/ StopOnCancel
  \/ \E status \in {"completed", "failed"} : End(status)
  \/ CancelHere \/ CancelRead \/ CancelSave \/ CancelPublish
  \/ Forward \/ BridgeStops \/ StreamBreaks \/ ApiStops \/ ApiStarts
  \/ Connect \/ ConnectFails \/ Subscribe \/ Send \/ Refetch \/ Poll

Runs ==
  \/ Begin \/ PublishToRedis \/ Report \/ StopOnCancel
  \/ \E status \in {"completed", "failed"} : End(status)

\* The runner, the bridge and the event loops go on, the process manager
\* restarts the API (docker-compose: restart unless-stopped), and the page's
\* timers fire.
Fairness ==
  /\ WF_vars(Runs)
  /\ WF_vars(CancelSave \/ CancelPublish)
  /\ WF_vars(Forward)
  /\ WF_vars(ApiStarts)
  /\ WF_vars(Connect \/ ConnectFails)
  /\ WF_vars(Subscribe)
  /\ WF_vars(Send)
  /\ WF_vars(Refetch)
  /\ WF_vars(Poll)

Spec == Init /\ [][Next]_vars /\ Fairness

-----------------------------------------------------------------------------
\* A page whose stream is subscribed before the job ends is shown the end, as
\* long as the stream lasts and, with Redis, the bridge does and nobody
\* cancels: a hub that coalesces must keep the newest payload, which is the
\* outcome, not the first.
SubscribedIsTold ==
  (stream.pc = "live" /\ ~Ended(record) /\ record # NoRecord /\ (queued => bridge))
    ~> \/ Ended(page.data)
       \/ stream.pc # "live"
       \/ queued /\ (~bridge \/ cancels > 0)

\* A page without a stream learns of an outcome that is on record, however
\* many attempts at a stream it has lost: giving up on streams is what starts
\* the polling, and the record outlives the API where a worker wrote it.
BlindPagesPoll ==
  (Ended(record) /\ stream.pc = "none" /\ ~page.streaming)
    ~> (Ended(page.data) \/ ~Ended(record))

=============================================================================
