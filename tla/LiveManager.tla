----------------------------- MODULE LiveManager -----------------------------
(***************************************************************************)
(* LiveRuntimeManager: start, stop and set_mode requests and the scheduled *)
(* cycles, all on one event loop.  A step is what one task does between    *)
(* two awaits.  The manager's lock guards its attributes, the cycle lock   *)
(* the body of a cycle; asyncio hands either to its waiters in turn, so a  *)
(* lock is the sequence of the tasks that hold (first) or await it.        *)
(***************************************************************************)
EXTENDS Naturals, Sequences, FiniteSets, SequencesExt

CONSTANTS Callers,      \* requests that may be open at the same time
          Jobs,         \* symbols and timeframes
          JobLists,     \* the jobs a start may be for, or {}: it names none
          DefaultJobs,  \* default_live_jobs()
          Experiments,  \* what a start may name, None among them
          None,
          MaxSessions,  \* bound: stacks built
          MayFail       \* whether building a stack or reading the default jobs may raise

Modes == {"paper", "live"}

\* Stacks and schedulers are numbered as they are made; 0 is Python's None.
Ids == 0..MaxSessions

Cycles == (1..MaxSessions) \X Jobs   \* a scheduler runs one instance of a job

ASSUME ManagerAssumption ==
  /\ None \in Experiments
  /\ JobLists \subseteq SUBSET Jobs
  /\ DefaultJobs \subseteq Jobs /\ DefaultJobs # {}
  /\ MaxSessions \in Nat
  /\ MayFail \in BOOLEAN
  /\ Callers \cap Cycles = {}

VARIABLES status, mode, experiment, listed,  \* LiveRuntimeState
          scheduler, stack,                  \* _scheduler, _stack
          lock, cycleLock,
          built,     \* the modes of the stacks built so far
          firing,    \* schedulers that fire jobs
          asked,     \* schedulers whose shutdown was called
          call,      \* what each open request is doing
          cycle,     \* what each job's instance is doing
          stray,     \* history: schedulers nobody shuts down
          half       \* history: the session's start broke off when it was running

session == <<status, mode, experiment, listed, scheduler, stack, half>>
locks   == <<lock, cycleLock>>
made    == <<built, firing, asked, stray>>
vars    == <<session, locks, made, call, cycle>>

Idle    == [pc |-> "idle", op |-> "none", mode |-> "paper", experiment |-> None,
            jobs |-> {}, old |-> 0]
Resting == [pc |-> "idle", stack |-> 0]

Init ==
  /\ status = "stopped" /\ mode = "paper" /\ experiment = None /\ listed = {}
  /\ scheduler = 0 /\ stack = 0 /\ half = FALSE
  /\ lock = <<>> /\ cycleLock = <<>>
  /\ built = <<>> /\ firing = {} /\ asked = {} /\ stray = {}
  /\ call = [c \in Callers |-> Idle]
  /\ cycle = [t \in Cycles |-> Resting]

Holds(queue, task) == queue # <<>> /\ Head(queue) = task

\* A queue one of whose tasks gives up, whether it holds the lock or waits.
Without(queue, task) ==
  IF \E i \in 1..Len(queue) : queue[i] = task
  THEN RemoveAt(queue, CHOOSE i \in 1..Len(queue) : queue[i] = task)
  ELSE queue

-----------------------------------------------------------------------------
(* Requests. *)

\* A request arrives and asks for the lock.
Request(c, op, m, e, jobs) ==
  /\ call[c].pc = "idle"
  /\ call' = [call EXCEPT ![c] = [pc |-> "locking", op |-> op, mode |-> m,
                                   experiment |-> e, jobs |-> jobs, old |-> 0]]
  /\ lock' = Append(lock, c)
  /\ UNCHANGED <<session, cycleLock, made, cycle>>

\* The with block is left, in the same step the old scheduler is told to shut
\* down, and the request is answered.
Answer(c, old) ==
  /\ lock' = Tail(lock)
  /\ asked' = asked \cup ({old} \ {0})
  /\ call' = [call EXCEPT ![c] = Idle]

\* An exception leaves the with block too, but not by way of the shutdown.
Raise(c) ==
  /\ lock' = Tail(lock)
  /\ stray' = stray \cup ({call[c].old} \ {0})
  /\ call' = [call EXCEPT ![c] = Idle]
  /\ UNCHANGED asked

\* Variant: stopping forgets the stack and keeps the status.
StopStatusKept ==
  /\ scheduler' = 0
  /\ stack' = 0
  /\ listed' = {}
  /\ half' = FALSE
  /\ UNCHANGED status

\* _stop_unlocked
StopUnlocked ==
  /\ status' = "stopped"
  /\ scheduler' = 0
  /\ stack' = 0
  /\ listed' = {}
  /\ half' = FALSE

Stop(c) ==
  /\ Holds(lock, c) /\ call[c].pc = "locking" /\ call[c].op = "stop"
  /\ StopUnlocked
  /\ Answer(c, scheduler)
  /\ UNCHANGED <<mode, experiment, cycleLock, built, firing, stray, cycle>>

\* The early return of _start_unlocked.
AlreadyRunning == scheduler # 0 /\ status = "running"

StartAgain(c) ==
  /\ Holds(lock, c) /\ call[c].pc = "locking" /\ call[c].op = "start"
  /\ AlreadyRunning
  /\ Answer(c, 0)
  /\ UNCHANGED <<session, cycleLock, built, firing, stray, cycle>>

Start(c) ==
  /\ Holds(lock, c) /\ call[c].pc = "locking" /\ call[c].op = "start"
  /\ ~AlreadyRunning
  /\ call' = [call EXCEPT ![c].pc = "building"]
  /\ UNCHANGED <<session, locks, made, cycle>>

\* set_mode of a running session keeps its jobs and its experiment.
SetMode(c) ==
  /\ Holds(lock, c) /\ call[c].pc = "locking" /\ call[c].op = "set_mode"
  /\ StopUnlocked
  /\ UNCHANGED experiment
  /\ IF status = "running" /\ listed # {}
     THEN /\ call' = [call EXCEPT ![c].pc = "building", ![c].old = scheduler,
                                  ![c].jobs = listed, ![c].experiment = experiment]
          /\ UNCHANGED <<mode, lock, asked>>
     ELSE /\ mode' = call[c].mode
          /\ Answer(c, scheduler)
  /\ UNCHANGED <<cycleLock, built, firing, stray, cycle>>

\* _rebuild_stack: the stack is kept as soon as it is built, before the
\* connections are tried.
Build(c) ==
  /\ Holds(lock, c) /\ call[c].pc = "building" /\ Len(built) < MaxSessions
  /\ built' = Append(built, call[c].mode)
  /\ stack' = Len(built')
  /\ call' = [call EXCEPT ![c].pc = "connecting"]
  /\ UNCHANGED <<status, mode, experiment, listed, scheduler, half, locks,
                 firing, asked, stray, cycle>>

RebuildFails(c) ==
  /\ MayFail
  /\ Holds(lock, c) /\ call[c].pc \in {"building", "connecting"}
  /\ Raise(c)
  /\ UNCHANGED <<session, cycleLock, built, firing, cycle>>

\* jobs or default_live_jobs()
JobsOf(c) == IF call[c].jobs = {} THEN DefaultJobs ELSE call[c].jobs

\* The rest of _start_unlocked, which awaits nothing.
Launch(c) ==
  /\ Holds(lock, c) /\ call[c].pc = "connecting"
  /\ mode' = call[c].mode
  /\ experiment' = call[c].experiment
  /\ status' = "running"
  /\ scheduler' = stack
  /\ firing' = firing \cup {stack}
  /\ listed' = JobsOf(c)
  /\ half' = FALSE
  /\ Answer(c, call[c].old)
  /\ UNCHANGED <<stack, cycleLock, built, stray, cycle>>

\* The default jobs are read from the settings, which may be missing, or name no
\* symbol or timeframe, when the manager is running already and has no scheduler.
LaunchFails(c) ==
  /\ MayFail
  /\ Holds(lock, c) /\ call[c].pc = "connecting" /\ call[c].jobs = {}
  /\ mode' = call[c].mode
  /\ experiment' = call[c].experiment
  /\ status' = "running"
  /\ listed' = {}
  /\ half' = TRUE
  /\ Raise(c)
  /\ UNCHANGED <<scheduler, stack, cycleLock, built, firing, cycle>>

-----------------------------------------------------------------------------
(* The scheduler, a library: it fires its jobs, one instance of each at a   *)
(* time, until its shutdown takes effect, which is after the call returned. *)
(* It may then cancel the instances in flight, at whatever they await.      *)

ShutDown(s) ==
  /\ s \in firing \cap asked
  /\ firing' = firing \ {s}
  /\ UNCHANGED <<session, locks, built, asked, stray, call, cycle>>

Fire(t) ==
  /\ t[1] \in firing /\ cycle[t].pc = "idle"
  /\ t[1] = scheduler => t[2] \in listed
  /\ cycle' = [cycle EXCEPT ![t].pc = "queued"]
  /\ cycleLock' = Append(cycleLock, t)
  /\ UNCHANGED <<session, lock, made, call>>

\* Leaving the async with blocks on the way out.
Leave(t) ==
  /\ cycleLock' = Without(cycleLock, t)
  /\ cycle' = [cycle EXCEPT ![t] = Resting]

Cancel(t) ==
  /\ t[1] \in asked \ firing /\ cycle[t].pc # "idle"
  /\ Leave(t)
  /\ lock' = Without(lock, t)
  /\ UNCHANGED <<session, made, call>>

-----------------------------------------------------------------------------
(* run_cycle *)

\* Variant: a cycle takes no notice of the cycle lock.
EnterAtOnce(t) ==
  /\ cycle[t].pc = "queued"
  /\ cycle' = [cycle EXCEPT ![t].pc = "locking"]
  /\ lock' = Append(lock, t)
  /\ UNCHANGED <<session, cycleLock, made, call>>

\* async with _cycle_lock, then _lock.
Enter(t) ==
  /\ Holds(cycleLock, t) /\ cycle[t].pc = "queued"
  /\ cycle' = [cycle EXCEPT ![t].pc = "locking"]
  /\ lock' = Append(lock, t)
  /\ UNCHANGED <<session, cycleLock, made, call>>

Skip(t) ==
  /\ Holds(lock, t) /\ cycle[t].pc = "locking" /\ status # "running"
  /\ Leave(t)
  /\ lock' = Tail(lock)
  /\ UNCHANGED <<session, made, call>>

\* Variant: the body runs inside the lock.
CaptureAndKeep(t) ==
  /\ Holds(lock, t) /\ cycle[t].pc = "locking" /\ status = "running"
  /\ cycle' = [cycle EXCEPT ![t].pc = "body", ![t].stack = stack]
  /\ UNCHANGED <<session, locks, made, call>>

\* A running manager has a stack (SessionIsWhole), half started or not: none is
\* built here.
Capture(t) ==
  /\ Holds(lock, t) /\ cycle[t].pc = "locking" /\ status = "running"
  /\ cycle' = [cycle EXCEPT ![t].pc = "body", ![t].stack = stack]
  /\ lock' = Tail(lock)
  /\ UNCHANGED <<session, cycleLock, made, call>>

\* stack.runtime.run_cycle returned or raised; noting that in last_run_at or
\* last_error, which nothing but the status report reads, needs the lock.
EndBody(t) ==
  /\ cycle[t].pc = "body"
  /\ cycle' = [cycle EXCEPT ![t].pc = "recording"]
  /\ lock' = Append(lock, t)
  /\ UNCHANGED <<session, cycleLock, made, call>>

Record(t) ==
  /\ Holds(lock, t) /\ cycle[t].pc = "recording"
  /\ Leave(t)
  /\ lock' = Tail(lock)
  /\ UNCHANGED <<session, made, call>>

-----------------------------------------------------------------------------
CallStep(c) == Stop(c) \/ StartAgain(c) \/ Start(c) \/ SetMode(c) \/ Build(c)
               \/ RebuildFails(c) \/ Launch(c) \/ LaunchFails(c)

\* What a cycle does when it is given a lock; its body may take for ever.
CycleStep(t) == Enter(t) \/ Skip(t) \/ Capture(t) \/ Record(t)

\* There are stacks left for the open requests and for one more.
StacksLeft ==
  Len(built) + Cardinality({c \in Callers : call[c].op \in {"start", "set_mode"}})
    < MaxSessions

Arrive(c) ==
  \/ Request(c, "stop", "paper", None, {})
  \/ /\ StacksLeft
     /\ \/ \E m \in Modes : Request(c, "set_mode", m, None, {})
        \/ \E m \in Modes, e \in Experiments, j \in JobLists :
             Request(c, "start", m, e, j)

Next ==
  \/ \E c \in Callers : Arrive(c) \/ CallStep(c)
  \/ \E s \in 1..MaxSessions : ShutDown(s)
  \/ \E t \in Cycles : Fire(t) \/ Cancel(t) \/ CycleStep(t) \/ EndBody(t)

\* Tasks that can go on are scheduled; the end of a cycle's body is not owed.
Fairness ==
  /\ \A c \in Callers : WF_vars(CallStep(c))
  /\ \A t \in Cycles : WF_vars(CycleStep(t))

Spec == Init /\ [][Next]_vars /\ Fairness

-----------------------------------------------------------------------------
(* Correctness. *)

Tasks == Callers \cup Cycles

Entry == [pc : {"idle", "locking", "building", "connecting"},
          op : {"none", "start", "stop", "set_mode"}, mode : Modes,
          experiment : Experiments, jobs : SUBSET Jobs, old : Ids]

Instance == [pc : {"idle", "queued", "locking", "body", "recording"},
             stack : Ids]

\* The attributes have their types.
TypeOK ==
  /\ status \in {"stopped", "running"} /\ mode \in Modes
  /\ experiment \in Experiments /\ listed \subseteq Jobs
  /\ scheduler \in Ids /\ stack \in Ids /\ half \in BOOLEAN
  /\ lock \in Seq(Tasks)
  /\ cycleLock \in Seq(Cycles)
  /\ built \in Seq(Modes) /\ Len(built) <= MaxSessions
  /\ firing \subseteq Ids /\ asked \subseteq Ids /\ stray \subseteq Ids
  /\ call \in [Callers -> Entry]
  /\ cycle \in [Cycles -> Instance]

InBody(t) == cycle[t].pc = "body"

\* Two cycles are never in the runtime at the same time, also not two of
\* different sessions: their read-modify-write of the state store would race
\* (live_manager.py, the comment on _cycle_lock).
CyclesApart == \A t, u \in Cycles : InBody(t) /\ InBody(u) => t = u

\* A scheduler that goes on firing is the manager's own, or will be shut down
\* by the request that replaces it, or was lost when that request failed.
SchedulersAccounted ==
  firing \subseteq asked \cup stray \cup {scheduler} \cup {call[c].old : c \in Callers}

\* Whoever gets the lock and finds the manager running finds a session that is
\* whole: jobs, a scheduler that fires them, and the stack built for the mode,
\* although building may fail half way; and no scheduler fires that nobody
\* knows of.  The one exception is a start whose default jobs cannot be read
\* (live_manager.py:135-137): until the next start, stop or set_mode, the manager
\* reports a running session that has a stack, but no job and no scheduler.
\* (run_cycle, _rebuild_stack, _start_unlocked, stop)
SessionIsWhole ==
  /\ status = "running" /\ ~half =>
       /\ listed # {}
       /\ scheduler \in firing \ asked
       /\ stack = scheduler
       /\ built[stack] = mode
  /\ half => /\ status = "running"
             /\ listed = {} /\ scheduler = 0 /\ stack # 0
  /\ SchedulersAccounted

\* Every request is answered although a cycle's body may never end: "so an
\* in-flight cycle never blocks stop()/set_mode()" (run_cycle's comment).
CallsReturn == \A c \in Callers : call[c].pc # "idle" ~> call[c].pc = "idle"
=============================================================================
