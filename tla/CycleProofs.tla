----------------------------- MODULE CycleProofs -----------------------------
(***************************************************************************)
(* A cycle from three sides.  The manager under which it runs: CyclesApart *)
(* and SessionIsWhole, for any number of requests, jobs and sessions,      *)
(* whether or not building and starting may fail.  The engine that decides *)
(* in it: HeadsDecide and Bracketed, for every configuration of the engine *)
(* and its providers, whatever they read in the market.  What is kept of   *)
(* it: LogIsFaithful, wherever its batch breaks off.                       *)
(***************************************************************************)
EXTENDS LiveManager, Replay, FiniteSums, SequenceTheorems, TLAPS

-----------------------------------------------------------------------------
(* The manager.                                                            *)

\* A cycle past the cycle lock is the one that holds it.
HolderInv ==
  \A t \in Cycles : cycle[t].pc \in {"locking", "body", "recording"} =>
    cycleLock # <<>> /\ cycleLock[1] = t

\* A request that rebuilds the stack holds the manager's lock, of a manager that
\* is stopped or half started; the stack it connects is the newest and its own.
RebuildInv ==
  \A c \in Callers : call[c].pc \in {"building", "connecting"} =>
    /\ lock # <<>> /\ lock[1] = c
    /\ status = "stopped" \/ half
    /\ call[c].pc = "connecting" =>
         /\ stack = Len(built) /\ stack \in 1..MaxSessions
         /\ built[stack] = call[c].mode
         /\ stack \notin asked /\ stack # call[c].old

RequestInv ==
  \A c \in Callers :
    call[c].pc \in {"idle", "locking"} => call[c].old = 0

\* Every number in use is that of a stack that was built.
NumbersInv ==
  /\ firing \subseteq 1..Len(built)
  /\ asked \subseteq 1..Len(built)
  /\ scheduler \in 0..Len(built)
  /\ \A c \in Callers : call[c].old \in 0..Len(built)
  /\ status = "stopped" => scheduler = 0

ManagerInv == TypeOK /\ HolderInv /\ RebuildInv /\ RequestInv /\ NumbersInv /\ SessionIsWhole

-----------------------------------------------------------------------------
(* Queues. *)

\* Whoever asks for a lock that is held does not become its holder.
LEMMA AppendKeepsHead ==
  ASSUME NEW S, NEW s \in Seq(S), NEW e \in S, s # <<>>
  PROVE  /\ Append(s, e) \in Seq(S) /\ Append(s, e) # <<>>
         /\ Append(s, e)[1] = s[1]
<1> QED
  BY AppendProperties

\* A task that gives up takes nobody with it.
LEMMA WithoutType ==
  ASSUME NEW S, NEW s \in Seq(S), NEW e
  PROVE  Without(s, e) \in Seq(S)
<1>1. ASSUME NEW i \in 1..Len(s) PROVE RemoveAt(s, i) \in Seq(S)
  <2>1. SubSeq(s, 1, i - 1) \in Seq(S) /\ SubSeq(s, i + 1, Len(s)) \in Seq(S)
    OBVIOUS
  <2> QED
    BY <2>1, ConcatProperties DEF RemoveAt
<1>2. CASE \E i \in 1..Len(s) : s[i] = e
  <2>1. (CHOOSE i \in 1..Len(s) : s[i] = e) \in 1..Len(s)
    BY <1>2
  <2> QED
    BY <1>1, <1>2, <2>1 DEF Without
<1>3. CASE ~\E i \in 1..Len(s) : s[i] = e
  BY <1>3 DEF Without
<1> QED
  BY <1>2, <1>3

\* The holder keeps the lock when another task gives up.
LEMMA WithoutKeepsHead ==
  ASSUME NEW S, NEW s \in Seq(S), NEW e, s # <<>>, s[1] # e
  PROVE  Without(s, e) # <<>> /\ Without(s, e)[1] = s[1]
<1>1. CASE \E i \in 1..Len(s) : s[i] = e
  <2> DEFINE k == CHOOSE i \in 1..Len(s) : s[i] = e
  <2>1. k \in 1..Len(s) /\ s[k] = e
    BY <1>1
  <2>2. k \in 2..Len(s)
    BY <2>1
  <2> HIDE DEF k
  <2>3. /\ SubSeq(s, 1, k - 1) \in Seq(S) /\ SubSeq(s, k + 1, Len(s)) \in Seq(S)
        /\ Len(SubSeq(s, 1, k - 1)) = k - 1
        /\ SubSeq(s, 1, k - 1)[1] = s[1]
    BY <2>2
  <2>4. RemoveAt(s, k) # <<>> /\ RemoveAt(s, k)[1] = s[1]
    BY <2>2, <2>3 DEF RemoveAt
  <2> QED
    BY <1>1, <2>4 DEF Without, k
<1>2. CASE ~\E i \in 1..Len(s) : s[i] = e
  BY <1>2 DEF Without
<1> QED
  BY <1>1, <1>2
-----------------------------------------------------------------------------
(* Every step keeps the invariant. *)

\* A manager that was just made holds nothing and knows no scheduler.
LEMMA ManagerInitInv == Init => ManagerInv
<1> SUFFICES ASSUME Init PROVE ManagerInv
  OBVIOUS
<1>1. TypeOK
  <2>1. half \in BOOLEAN
    BY DEF Init
  <2>2. call \in [Callers -> Entry] /\ cycle \in [Cycles -> Instance]
    BY ManagerAssumption DEF Init, Idle, Resting, Entry, Instance, Modes, Ids
  <2> QED
    BY <2>1, <2>2, ManagerAssumption DEF Init, TypeOK, Modes, Ids, Tasks
<1>2. HolderInv /\ RebuildInv /\ RequestInv
  BY DEF Init, Idle, Resting, HolderInv, RebuildInv, RequestInv
<1>3. NumbersInv /\ SessionIsWhole
  BY DEF Init, Idle, NumbersInv, SessionIsWhole, SchedulersAccounted
<1> QED
  BY <1>1, <1>2, <1>3 DEF ManagerInv

\* A request that arrives waits behind the holder.
LEMMA RequestInvStep ==
  ASSUME ManagerInv, NEW c \in Callers, NEW op \in {"start", "stop", "set_mode"}, NEW m \in Modes, NEW e \in Experiments,
         NEW jobs \in SUBSET Jobs, Request(c, op, m, e, jobs)
  PROVE  ManagerInv'
<1> USE DEF ManagerInv
<1>1. TypeOK'
  BY ManagerAssumption DEF session, locks, made, Request, TypeOK, Entry, Instance, Modes, Ids, Tasks
<1>2. HolderInv'
  BY DEF session, locks, made, Request, HolderInv
<1>3. RebuildInv'
  <2>1. lock # <<>> => lock' # <<>> /\ lock'[1] = lock[1]
    BY AppendKeepsHead DEF Request, TypeOK, Tasks
  <2>2. \A d \in Callers : d # c => call'[d] = call[d]
    BY DEF Request, TypeOK
  <2>3. call'[c].pc = "locking"
    BY DEF Request, TypeOK
  <2>4. UNCHANGED <<session, built, asked>>
    BY DEF Request, made
  <2> QED
    BY <2>1, <2>2, <2>3, <2>4 DEF session, RebuildInv
<1>4. RequestInv'
  BY DEF session, locks, made, Request, RequestInv
<1>5. NumbersInv'
  BY DEF session, locks, made, Request, NumbersInv, TypeOK
<1>6. SessionIsWhole'
  BY DEF session, locks, made, Request, SessionIsWhole, SchedulersAccounted, NumbersInv, RequestInv, TypeOK
<1> QED
  BY <1>1, <1>2, <1>3, <1>4, <1>5, <1>6

\* Stopping forgets the session and tells its scheduler.
LEMMA StopStep ==
  ASSUME ManagerInv, NEW c \in Callers, Stop(c)
  PROVE  ManagerInv'
<1> USE DEF ManagerInv
<1>1. TypeOK'
  <2>1. half' \in BOOLEAN
    BY DEF Stop, StopUnlocked
  <2>2. call' \in [Callers -> Entry]
    BY ManagerAssumption DEF Stop, Answer, Idle, TypeOK, Entry, Modes, Ids
  <2>3. lock' \in Seq(Tasks) /\ asked' \subseteq Ids
    BY DEF Stop, Answer, Holds, TypeOK
  <2> QED
    BY <2>1, <2>2, <2>3, ManagerAssumption DEF Stop, StopUnlocked, Answer, TypeOK, Ids
<1>2. HolderInv'
  BY DEF session, locks, made, Stop, StopUnlocked, Answer, Idle, Holds, HolderInv
<1>3. RebuildInv'
  BY DEF session, locks, made, Stop, StopUnlocked, Answer, Idle, Holds, RebuildInv, TypeOK
<1>4. RequestInv'
  BY DEF session, locks, made, Stop, StopUnlocked, Answer, Idle, Holds, RequestInv
<1>5. NumbersInv'
  BY DEF session, locks, made, Stop, StopUnlocked, Answer, Idle, Holds, NumbersInv, TypeOK
<1>6. SessionIsWhole'
  BY DEF session, locks, made, Stop, StopUnlocked, Answer, Idle, Holds, SessionIsWhole, SchedulersAccounted, NumbersInv, RequestInv, TypeOK
<1> QED
  BY <1>1, <1>2, <1>3, <1>4, <1>5, <1>6

\* A second start changes nothing.
LEMMA StartAgainStep ==
  ASSUME ManagerInv, NEW c \in Callers, StartAgain(c)
  PROVE  ManagerInv'
<1> USE DEF ManagerInv
<1>1. TypeOK'
  BY ManagerAssumption DEF session, locks, made, StartAgain, Answer, Idle, Holds, TypeOK, Entry, Instance, Modes, Ids, Tasks
<1>2. HolderInv'
  BY DEF session, locks, made, StartAgain, Answer, Idle, Holds, HolderInv
<1>3. RebuildInv'
  BY DEF session, locks, made, StartAgain, Answer, Idle, Holds, RebuildInv, TypeOK
<1>4. RequestInv'
  BY DEF session, locks, made, StartAgain, Answer, Idle, Holds, RequestInv
<1>5. NumbersInv'
  BY DEF session, locks, made, StartAgain, Answer, Idle, Holds, NumbersInv, TypeOK
<1>6. SessionIsWhole'
  BY DEF session, locks, made, StartAgain, Answer, Idle, Holds, SessionIsWhole, SchedulersAccounted, NumbersInv, RequestInv, TypeOK
<1> QED
  BY <1>1, <1>2, <1>3, <1>4, <1>5, <1>6

\* A start that goes on finds the manager stopped or half started.
LEMMA StartStep ==
  ASSUME ManagerInv, NEW c \in Callers, Start(c)
  PROVE  ManagerInv'
<1> USE DEF ManagerInv
<1>1. TypeOK'
  <2>1. call[c] \in Entry /\ call' = [call EXCEPT ![c].pc = "building"]
    BY DEF Start, TypeOK
  <2>2. call' \in [Callers -> Entry]
    BY <2>1 DEF TypeOK, Entry
  <2> QED
    BY <2>2 DEF Start, session, locks, made, TypeOK
<1>2. HolderInv'
  BY DEF session, locks, made, Start, AlreadyRunning, Holds, HolderInv
<1>3. RebuildInv'
  <2>1. lock # <<>> /\ lock[1] = c /\ call[c].op = "start" /\ ~AlreadyRunning
    BY DEF Start, Holds, TypeOK
  <2>2. status = "stopped" \/ half
    BY <2>1 DEF AlreadyRunning, SessionIsWhole, NumbersInv, TypeOK
  <2>3. call'[c].pc = "building"
    BY DEF Start, TypeOK, Entry
  <2>4. \A d \in Callers : d # c => call'[d] = call[d]
    BY DEF Start, TypeOK
  <2>5. UNCHANGED <<session, locks, made>>
    BY DEF Start
  <2> QED
    BY <2>1, <2>2, <2>3, <2>4, <2>5 DEF session, locks, made, RebuildInv, RequestInv
<1>4. RequestInv'
  BY DEF session, locks, made, Start, AlreadyRunning, Holds, RequestInv
<1>5. NumbersInv'
  BY DEF session, locks, made, Start, AlreadyRunning, Holds, NumbersInv, TypeOK
<1>6. SessionIsWhole'
  BY DEF session, locks, made, Start, AlreadyRunning, Holds, SessionIsWhole, SchedulersAccounted, NumbersInv, RequestInv, TypeOK
<1> QED
  BY <1>1, <1>2, <1>3, <1>4, <1>5, <1>6

\* set_mode drops the session, and keeps its scheduler in mind.
LEMMA SetModeStep ==
  ASSUME ManagerInv, NEW c \in Callers, SetMode(c)
  PROVE  ManagerInv'
<1> USE DEF ManagerInv
<1>1. TypeOK'
  <2> DEFINE Restarts == status = "running" /\ listed # {}
  <2>1. /\ status' = "stopped" /\ scheduler' = 0 /\ listed' = {} /\ stack' = 0 /\ half' = FALSE
        /\ UNCHANGED <<experiment, cycleLock, cycle, built, firing, stray>>
    BY DEF SetMode, StopUnlocked
  <2>2. call[c].pc = "locking" /\ call[c].op = "set_mode" /\ lock # <<>> /\ lock[1] = c
    BY DEF SetMode, Holds, TypeOK
  <2>3. \A d \in Callers : d # c => call'[d] = call[d]
    BY DEF SetMode, Answer, TypeOK
  <2>4. CASE Restarts
    <3>1. /\ call'[c].pc = "building" /\ call'[c].old = scheduler /\ call'[c].jobs = listed
          /\ call'[c].op = "set_mode" /\ call'[c].mode = call[c].mode /\ call'[c].experiment = experiment
          /\ UNCHANGED <<mode, lock, asked>>
      BY <2>2, <2>4 DEF SetMode, TypeOK, Entry
    <3>2. call' = [call EXCEPT ![c] = call'[c]]
      BY <2>3, <2>4 DEF SetMode, TypeOK
    <3>3. call'[c] \in Entry
      <4>1. call[c] \in Entry /\ listed \in SUBSET Jobs /\ experiment \in Experiments /\ scheduler \in Ids
        BY DEF TypeOK
      <4>2. call'[c] = [call[c] EXCEPT !.pc = "building", !.old = scheduler, !.jobs = listed,
                                       !.experiment = experiment]
        BY <2>4 DEF SetMode, TypeOK
      <4> QED
        BY <4>1, <4>2 DEF Entry
    <3>4. call' \in [Callers -> Entry]
      BY <3>2, <3>3 DEF TypeOK
    <3>5. half' \in BOOLEAN
      BY <2>1
    <3> QED
      BY <2>1, <3>1, <3>4, <3>5, ManagerAssumption DEF TypeOK, Ids
  <2>5. CASE ~Restarts
    <3>1. call'[c] = Idle /\ asked' = asked \cup ({scheduler} \ {0}) /\ lock' = Tail(lock) /\ mode' = call[c].mode
      BY <2>5 DEF SetMode, Answer, TypeOK
    <3>2. call' \in [Callers -> Entry]
      <4>1. call' = [call EXCEPT ![c] = Idle]
        BY <2>5 DEF SetMode, Answer
      <4>2. Idle \in Entry
        BY ManagerAssumption DEF Idle, Entry, Modes, Ids
      <4> QED
        BY <4>1, <4>2 DEF TypeOK
    <3>3. lock' \in Seq(Tasks) /\ mode' \in Modes
      BY <3>1, <2>2 DEF TypeOK, Entry
    <3>4. half' \in BOOLEAN
      BY <2>1
    <3> QED
      BY <2>1, <3>1, <3>2, <3>3, <3>4, ManagerAssumption DEF TypeOK, Ids
  <2> QED
    BY <2>4, <2>5
<1>2. HolderInv'
  BY DEF session, locks, made, SetMode, StopUnlocked, Answer, Idle, Holds, HolderInv
<1>3. RebuildInv'
  <2> DEFINE Restarts == status = "running" /\ listed # {}
  <2>1. /\ status' = "stopped" /\ scheduler' = 0 /\ listed' = {} /\ stack' = 0 /\ half' = FALSE
        /\ UNCHANGED <<experiment, cycleLock, cycle, built, firing, stray>>
    BY DEF SetMode, StopUnlocked
  <2>2. call[c].pc = "locking" /\ call[c].op = "set_mode" /\ lock # <<>> /\ lock[1] = c
    BY DEF SetMode, Holds, TypeOK
  <2>3. \A d \in Callers : d # c => call'[d] = call[d]
    BY DEF SetMode, Answer, TypeOK
  <2>4. CASE Restarts
    <3>1. /\ call'[c].pc = "building" /\ call'[c].old = scheduler /\ call'[c].jobs = listed
          /\ call'[c].op = "set_mode" /\ call'[c].mode = call[c].mode /\ call'[c].experiment = experiment
          /\ UNCHANGED <<mode, lock, asked>>
      BY <2>2, <2>4 DEF SetMode, TypeOK, Entry
    <3> QED
      BY <2>1, <2>2, <2>3, <2>4, <3>1 DEF RebuildInv
  <2>5. CASE ~Restarts
    <3>1. call'[c] = Idle /\ asked' = asked \cup ({scheduler} \ {0}) /\ lock' = Tail(lock) /\ mode' = call[c].mode
      BY <2>5 DEF SetMode, Answer, TypeOK
    <3>2. \A d \in Callers : call'[d].pc \notin {"building", "connecting"}
      BY <2>2, <2>3, <3>1 DEF RebuildInv, Idle
    <3> QED
      BY <3>2 DEF RebuildInv
  <2> QED
    BY <2>4, <2>5
<1>4. RequestInv'
  <2> DEFINE Restarts == status = "running" /\ listed # {}
  <2>1. /\ status' = "stopped" /\ scheduler' = 0 /\ listed' = {} /\ stack' = 0 /\ half' = FALSE
        /\ UNCHANGED <<experiment, cycleLock, cycle, built, firing, stray>>
    BY DEF SetMode, StopUnlocked
  <2>2. call[c].pc = "locking" /\ call[c].op = "set_mode" /\ lock # <<>> /\ lock[1] = c
    BY DEF SetMode, Holds, TypeOK
  <2>3. \A d \in Callers : d # c => call'[d] = call[d]
    BY DEF SetMode, Answer, TypeOK
  <2>4. CASE Restarts
    <3>1. /\ call'[c].pc = "building" /\ call'[c].old = scheduler /\ call'[c].jobs = listed
          /\ call'[c].op = "set_mode" /\ call'[c].mode = call[c].mode /\ call'[c].experiment = experiment
          /\ UNCHANGED <<mode, lock, asked>>
      BY <2>2, <2>4 DEF SetMode, TypeOK, Entry
    <3> QED
      BY <2>3, <3>1 DEF RequestInv
  <2>5. CASE ~Restarts
    <3>1. call'[c] = Idle /\ asked' = asked \cup ({scheduler} \ {0}) /\ lock' = Tail(lock) /\ mode' = call[c].mode
      BY <2>5 DEF SetMode, Answer, TypeOK
    <3> QED
      BY <2>3, <3>1 DEF RequestInv, Idle
  <2> QED
    BY <2>4, <2>5
<1>5. NumbersInv'
  <2> DEFINE Restarts == status = "running" /\ listed # {}
  <2>1. /\ status' = "stopped" /\ scheduler' = 0 /\ listed' = {} /\ stack' = 0 /\ half' = FALSE
        /\ UNCHANGED <<experiment, cycleLock, cycle, built, firing, stray>>
    BY DEF SetMode, StopUnlocked
  <2>2. call[c].pc = "locking" /\ call[c].op = "set_mode" /\ lock # <<>> /\ lock[1] = c
    BY DEF SetMode, Holds, TypeOK
  <2>3. \A d \in Callers : d # c => call'[d] = call[d]
    BY DEF SetMode, Answer, TypeOK
  <2>4. CASE Restarts
    <3>1. /\ call'[c].pc = "building" /\ call'[c].old = scheduler /\ call'[c].jobs = listed
          /\ call'[c].op = "set_mode" /\ call'[c].mode = call[c].mode /\ call'[c].experiment = experiment
          /\ UNCHANGED <<mode, lock, asked>>
      BY <2>2, <2>4 DEF SetMode, TypeOK, Entry
    <3> QED
      BY <2>1, <2>3, <3>1 DEF NumbersInv
  <2>5. CASE ~Restarts
    <3>1. call'[c] = Idle /\ asked' = asked \cup ({scheduler} \ {0}) /\ lock' = Tail(lock) /\ mode' = call[c].mode
      BY <2>5 DEF SetMode, Answer, TypeOK
    <3>2. Len(built) \in Nat /\ {scheduler} \ {0} \subseteq 1..Len(built)
      BY DEF NumbersInv, TypeOK
    <3>3. asked' \subseteq 1..Len(built)
      BY <3>1, <3>2 DEF NumbersInv
    <3>4. call'[c].old = 0
      BY <3>1 DEF Idle
    <3> QED
      BY <2>1, <2>3, <3>2, <3>3, <3>4 DEF NumbersInv
  <2> QED
    BY <2>4, <2>5
<1>6. SessionIsWhole'
  <2> DEFINE Restarts == status = "running" /\ listed # {}
  <2>1. /\ status' = "stopped" /\ scheduler' = 0 /\ listed' = {} /\ stack' = 0 /\ half' = FALSE
        /\ UNCHANGED <<experiment, cycleLock, cycle, built, firing, stray>>
    BY DEF SetMode, StopUnlocked
  <2>2. call[c].pc = "locking" /\ call[c].op = "set_mode" /\ lock # <<>> /\ lock[1] = c
    BY DEF SetMode, Holds, TypeOK
  <2>3. \A d \in Callers : d # c => call'[d] = call[d]
    BY DEF SetMode, Answer, TypeOK
  <2>4. CASE Restarts
    <3>1. /\ call'[c].pc = "building" /\ call'[c].old = scheduler /\ call'[c].jobs = listed
          /\ call'[c].op = "set_mode" /\ call'[c].mode = call[c].mode /\ call'[c].experiment = experiment
          /\ UNCHANGED <<mode, lock, asked>>
      BY <2>2, <2>4 DEF SetMode, TypeOK, Entry
    <3>2. ASSUME NEW s \in firing
          PROVE  s \in (asked \cup stray \cup {scheduler} \cup {call[d].old : d \in Callers})'
      <4>1. call[c].old = 0 /\ s # 0
        BY <2>2 DEF RequestInv, NumbersInv, TypeOK
      <4>2. \/ s \in asked \cup stray \/ s = scheduler
            \/ \E d \in Callers : d # c /\ s = call[d].old
        BY <4>1 DEF SessionIsWhole, SchedulersAccounted
      <4> QED
        BY <2>1, <2>3, <3>1, <4>2
    <3>3. firing' = firing /\ status' # "running" /\ ~half'
      BY <2>1
    <3>4. SchedulersAccounted'
      BY <3>2, <3>3 DEF SchedulersAccounted
    <3> QED
      BY <3>3, <3>4 DEF SessionIsWhole
  <2>5. CASE ~Restarts
    <3>1. call'[c] = Idle /\ asked' = asked \cup ({scheduler} \ {0}) /\ lock' = Tail(lock) /\ mode' = call[c].mode
      BY <2>5 DEF SetMode, Answer, TypeOK
    <3>2. ASSUME NEW s \in firing
          PROVE  s \in (asked \cup stray \cup {scheduler} \cup {call[d].old : d \in Callers})'
      <4>1. call[c].old = 0 /\ s # 0
        BY <2>2 DEF RequestInv, NumbersInv, TypeOK
      <4>2. \/ s \in asked \cup stray \/ s = scheduler
            \/ \E d \in Callers : d # c /\ s = call[d].old
        BY <4>1 DEF SessionIsWhole, SchedulersAccounted
      <4> QED
        BY <2>1, <2>3, <3>1, <4>1, <4>2
    <3>3. firing' = firing /\ status' # "running" /\ ~half'
      BY <2>1
    <3>4. SchedulersAccounted'
      BY <3>2, <3>3 DEF SchedulersAccounted
    <3> QED
      BY <3>3, <3>4 DEF SessionIsWhole
  <2> QED
    BY <2>4, <2>5
<1> QED
  BY <1>1, <1>2, <1>3, <1>4, <1>5, <1>6

\* The stack that is built is new.
LEMMA BuildStep ==
  ASSUME ManagerInv, NEW c \in Callers, Build(c)
  PROVE  ManagerInv'
<1> USE DEF ManagerInv
<1>1. TypeOK'
  <2>1. built' \in Seq(Modes) /\ Len(built') = Len(built) + 1
    <3>1. call[c].mode \in Modes
      BY DEF TypeOK, Entry
    <3> QED
      BY <3>1 DEF Build, TypeOK
  <2>2. call' \in [Callers -> Entry]
    <3>1. call[c] \in Entry
      BY DEF TypeOK
    <3> QED
      BY <3>1 DEF Build, TypeOK, Entry
  <2> QED
    BY <2>1, <2>2, ManagerAssumption DEF Build, locks, Ids, TypeOK
<1>2. HolderInv'
  BY DEF session, locks, made, Build, Holds, HolderInv
<1>3. RebuildInv'
  <2>1. call[c].mode \in Modes /\ call[c].old \in 0..Len(built) /\ built \in Seq(Modes)
    BY DEF TypeOK, Entry, NumbersInv
  <2>2. /\ stack' = Len(built) + 1 /\ Len(built') = Len(built) + 1
        /\ built'[stack'] = call[c].mode /\ stack' \in 1..MaxSessions
    BY <2>1, ManagerAssumption DEF Build
  <2>3. stack' \notin asked' /\ stack' # call[c].old
    BY <2>1, <2>2 DEF Build, NumbersInv
  <2>4. /\ call'[c].pc = "connecting"
        /\ call'[c].mode = call[c].mode /\ call'[c].old = call[c].old
    BY DEF Build, TypeOK, Entry
  <2>5. \A d \in Callers : d # c => call'[d] = call[d]
    BY DEF Build, TypeOK
  <2>6. lock # <<>> /\ lock[1] = c /\ call[c].pc = "building" /\ UNCHANGED <<lock, status, half>>
    BY DEF Build, Holds, TypeOK, locks
  <2> QED
    BY <2>2, <2>3, <2>4, <2>5, <2>6 DEF RebuildInv
<1>4. RequestInv'
  BY DEF session, locks, made, Build, Holds, RequestInv
<1>5. NumbersInv'
  BY DEF session, locks, made, Build, Holds, NumbersInv, TypeOK
<1>6. SessionIsWhole'
  <2>1. status' = "stopped" \/ half'
    BY DEF Build, RebuildInv
  <2>2. \A d \in Callers : call'[d].old = call[d].old
    BY DEF Build, TypeOK, Entry
  <2>3. SchedulersAccounted'
    BY <2>2 DEF Build, SessionIsWhole, SchedulersAccounted
  <2>4. stack' # 0 /\ UNCHANGED <<status, listed, scheduler, half>>
    BY DEF Build, TypeOK
  <2> QED
    BY <2>1, <2>3, <2>4 DEF SessionIsWhole, TypeOK
<1> QED
  BY <1>1, <1>2, <1>3, <1>4, <1>5, <1>6

\* A failure leaves the manager stopped.
LEMMA FailStep ==
  ASSUME ManagerInv, NEW c \in Callers, RebuildFails(c)
  PROVE  ManagerInv'
<1> USE DEF ManagerInv
<1>1. TypeOK'
  <2>1. lock' \in Seq(Tasks)
    BY DEF RebuildFails, Raise, Holds, TypeOK
  <2>2. call[c].old \in Ids
    BY DEF TypeOK, Entry
  <2>3. call' \in [Callers -> Entry]
    BY ManagerAssumption DEF RebuildFails, Raise, Idle, TypeOK, Entry, Modes, Ids
  <2> QED
    BY <2>1, <2>2, <2>3 DEF RebuildFails, Raise, session, TypeOK
<1>2. HolderInv'
  BY DEF session, locks, made, RebuildFails, Raise, Idle, Holds, HolderInv
<1>3. RebuildInv'
  BY DEF session, locks, made, RebuildFails, Raise, Idle, Holds, RebuildInv, TypeOK
<1>4. RequestInv'
  BY DEF session, locks, made, RebuildFails, Raise, Idle, Holds, RequestInv
<1>5. NumbersInv'
  BY DEF session, locks, made, RebuildFails, Raise, Idle, Holds, NumbersInv, TypeOK
<1>6. SessionIsWhole'
  BY DEF session, locks, made, RebuildFails, Raise, Idle, Holds, SessionIsWhole, SchedulersAccounted, NumbersInv, RequestInv, TypeOK
<1> QED
  BY <1>1, <1>2, <1>3, <1>4, <1>5, <1>6

\* What is launched is whole.
LEMMA LaunchStep ==
  ASSUME ManagerInv, NEW c \in Callers, Launch(c)
  PROVE  ManagerInv'
<1> USE DEF ManagerInv
<1>1. TypeOK'
  <2>1. lock' \in Seq(Tasks)
    BY DEF Launch, Answer, Holds, TypeOK
  <2>2. call[c] \in Entry /\ JobsOf(c) \subseteq Jobs
    BY ManagerAssumption DEF TypeOK, Entry, JobsOf
  <2>3. call' \in [Callers -> Entry]
    BY ManagerAssumption DEF Launch, Answer, Idle, TypeOK, Entry, Modes, Ids
  <2> QED
    BY <2>1, <2>2, <2>3 DEF Launch, Answer, TypeOK, Entry
<1>2. HolderInv'
  BY DEF session, locks, made, Launch, Answer, Idle, Holds, HolderInv
<1>3. RebuildInv'
  BY DEF session, locks, made, Launch, Answer, Idle, Holds, RebuildInv, TypeOK
<1>4. RequestInv'
  BY DEF session, locks, made, Launch, Answer, Idle, Holds, RequestInv
<1>5. NumbersInv'
  <2>1. /\ call[c].pc = "connecting" /\ (status = "stopped" \/ half)
        /\ stack = Len(built) /\ stack \in 1..MaxSessions /\ built[stack] = call[c].mode
        /\ stack \notin asked /\ stack # call[c].old /\ JobsOf(c) # {}
    BY ManagerAssumption DEF Launch, RebuildInv, JobsOf
  <2>2. /\ status' = "running" /\ scheduler' = stack /\ stack' = stack /\ built' = built
        /\ firing' = firing \cup {stack} /\ asked' = asked \cup ({call[c].old} \ {0})
        /\ listed' = JobsOf(c) /\ mode' = call[c].mode /\ stray' = stray /\ half' = FALSE
    BY DEF Launch, Answer
  <2>3. /\ \A d \in Callers : d # c => call'[d] = call[d]
        /\ call'[c].old = 0
    BY DEF Launch, Answer, Idle, TypeOK
  <2>4. Len(built) \in Nat /\ firing \subseteq 1..Len(built) /\ asked \subseteq 1..Len(built)
    BY DEF NumbersInv, TypeOK
  <2>5. \A d \in Callers : call[d].old \in 0..Len(built)
    BY DEF NumbersInv
  <2>6. firing' \subseteq 1..Len(built') /\ asked' \subseteq 1..Len(built')
    <3>1. stack \in 1..Len(built) /\ {call[c].old} \ {0} \subseteq 1..Len(built)
      BY <2>1, <2>4, <2>5
    <3> QED
      BY <2>2, <2>4, <3>1
  <2>7. scheduler' \in 0..Len(built') /\ \A d \in Callers : call'[d].old \in 0..Len(built')
    BY <2>1, <2>2, <2>3, <2>4, <2>5
  <2> QED
    BY <2>2, <2>6, <2>7 DEF NumbersInv
<1>6. SessionIsWhole'
  <2>1. /\ call[c].pc = "connecting" /\ (status = "stopped" \/ half)
        /\ stack = Len(built) /\ stack \in 1..MaxSessions /\ built[stack] = call[c].mode
        /\ stack \notin asked /\ stack # call[c].old /\ JobsOf(c) # {}
    BY ManagerAssumption DEF Launch, RebuildInv, JobsOf
  <2>2. /\ status' = "running" /\ scheduler' = stack /\ stack' = stack /\ built' = built
        /\ firing' = firing \cup {stack} /\ asked' = asked \cup ({call[c].old} \ {0})
        /\ listed' = JobsOf(c) /\ mode' = call[c].mode /\ stray' = stray /\ half' = FALSE
    BY DEF Launch, Answer
  <2>3. /\ \A d \in Callers : d # c => call'[d] = call[d]
        /\ call'[c].old = 0
    BY DEF Launch, Answer, Idle, TypeOK
  <2>4. scheduler = 0
    BY <2>1 DEF NumbersInv, SessionIsWhole
  <2>5. SchedulersAccounted'
    <3> SUFFICES ASSUME NEW s \in firing' PROVE s \in (asked \cup stray \cup {scheduler} \cup {call[d].old : d \in Callers})'
      BY DEF SchedulersAccounted
    <3>1. s = stack \/ s \in asked \cup stray \/ \E d \in Callers : s = call[d].old
      <4>1. firing \subseteq asked \cup stray \cup {scheduler} \cup {call[d].old : d \in Callers}
        BY DEF SessionIsWhole, SchedulersAccounted
      <4>2. s = stack \/ s \in firing
        BY <2>2
      <4>3. Len(built) \in Nat /\ firing \subseteq 1..Len(built)
        BY DEF NumbersInv, TypeOK
      <4>4. ASSUME s \in firing PROVE s # 0
        BY <4>3, <4>4
      <4> QED
        BY ONLY <2>4, <4>1, <4>2, <4>4
    <3>2. s # 0
      BY <2>1, <2>2 DEF NumbersInv, TypeOK
    <3> QED
      BY <3>1, <3>2, <2>2, <2>3
  <2>6. stack \in firing' \ asked'
    BY <2>1, <2>2
  <2> QED
    BY <2>1, <2>2, <2>5, <2>6 DEF SessionIsWhole, SchedulersAccounted
<1> QED
  BY <1>1, <1>2, <1>3, <1>4, <1>5, <1>6

\* A start whose default jobs cannot be read leaves a manager that is half started.
LEMMA LaunchFailsStep ==
  ASSUME ManagerInv, NEW c \in Callers, LaunchFails(c)
  PROVE  ManagerInv'
<1> USE DEF ManagerInv
<1>1. /\ status' = "running" /\ listed' = {} /\ half' = TRUE
      /\ UNCHANGED <<scheduler, stack, cycleLock, built, firing, cycle, asked>>
      /\ lock' = Tail(lock) /\ stray' = stray \cup ({call[c].old} \ {0})
  BY DEF LaunchFails, Raise
<1>2. call' = [call EXCEPT ![c] = Idle]
  BY DEF LaunchFails, Raise
<1>3. TypeOK'
  <2>1. lock' \in Seq(Tasks)
    BY DEF LaunchFails, Raise, Holds, TypeOK
  <2>2. call[c] \in Entry
    BY DEF TypeOK
  <2>3. call' \in [Callers -> Entry]
    BY <1>2, ManagerAssumption DEF Idle, TypeOK, Entry, Modes, Ids
  <2> QED
    BY <2>1, <2>2, <2>3, <1>1 DEF LaunchFails, TypeOK, Entry
<1>4. HolderInv'
  BY <1>1 DEF HolderInv
<1>5. RebuildInv'
  BY <1>1, <1>2 DEF LaunchFails, Holds, Idle, RebuildInv, TypeOK
<1>6. RequestInv'
  BY <1>2 DEF Idle, RequestInv, TypeOK
<1>7. NumbersInv'
  BY <1>1, <1>2 DEF Idle, NumbersInv, TypeOK
<1>8. SessionIsWhole'
  <2>1. (status = "stopped" \/ half) /\ stack \in 1..MaxSessions
    BY DEF LaunchFails, RebuildInv
  <2>2. scheduler = 0
    BY <2>1 DEF NumbersInv, SessionIsWhole
  <2>3. SchedulersAccounted'
    BY <1>1, <1>2 DEF SessionIsWhole, SchedulersAccounted, NumbersInv, TypeOK
  <2> QED
    BY <1>1, <2>1, <2>2, <2>3 DEF SessionIsWhole
<1> QED
  BY <1>3, <1>4, <1>5, <1>6, <1>7, <1>8

\* A shutdown concerns schedulers that were told.
LEMMA ShutDownStep ==
  ASSUME ManagerInv, NEW s \in 1..MaxSessions, ShutDown(s)
  PROVE  ManagerInv'
<1> USE DEF ManagerInv
<1>1. TypeOK'
  BY DEF session, locks, made, ShutDown, TypeOK, Entry, Instance, Modes, Ids, Tasks
<1>2. HolderInv'
  BY DEF session, locks, made, ShutDown, HolderInv
<1>3. RebuildInv'
  BY DEF session, locks, made, ShutDown, RebuildInv, TypeOK
<1>4. RequestInv'
  BY DEF session, locks, made, ShutDown, RequestInv
<1>5. NumbersInv'
  BY DEF session, locks, made, ShutDown, NumbersInv, TypeOK
<1>6. SessionIsWhole'
  BY DEF session, locks, made, ShutDown, SessionIsWhole, SchedulersAccounted, NumbersInv, RequestInv, TypeOK
<1> QED
  BY <1>1, <1>2, <1>3, <1>4, <1>5, <1>6

\* A job that fires waits for the cycle lock.
LEMMA FireStep ==
  ASSUME ManagerInv, NEW t \in Cycles, Fire(t)
  PROVE  ManagerInv'
<1> USE DEF ManagerInv
<1>1. TypeOK'
  <2>1. cycle' \in [Cycles -> Instance]
    <3>1. cycle[t] \in Instance
      BY DEF TypeOK
    <3> QED
      BY <3>1 DEF Fire, TypeOK, Instance
  <2>2. cycleLock' \in Seq(Cycles) /\ UNCHANGED lock
    BY DEF Fire, TypeOK, Tasks, Holds, locks
  <2> QED
    BY <2>1, <2>2 DEF Fire, session, made, TypeOK
<1>2. HolderInv'
  BY DEF session, locks, made, Fire, HolderInv
<1>3. RebuildInv'
  BY DEF session, locks, made, Fire, RebuildInv, TypeOK
<1>4. RequestInv'
  BY DEF session, locks, made, Fire, RequestInv
<1>5. NumbersInv'
  BY DEF session, locks, made, Fire, NumbersInv, TypeOK
<1>6. SessionIsWhole'
  BY DEF session, locks, made, Fire, SessionIsWhole, SchedulersAccounted, NumbersInv, RequestInv, TypeOK
<1> QED
  BY <1>1, <1>2, <1>3, <1>4, <1>5, <1>6

\* A cancelled instance gives up both locks.
LEMMA CancelStep ==
  ASSUME ManagerInv, NEW t \in Cycles, Cancel(t)
  PROVE  ManagerInv'
<1> USE DEF ManagerInv
<1>1. TypeOK'
  BY ManagerAssumption, WithoutType DEF session, locks, made, Cancel, Leave, Resting, TypeOK, Entry, Instance, Modes, Ids, Tasks
<1>2. HolderInv'
  <2>1. \A u \in Cycles : u # t => cycle'[u] = cycle[u]
    BY DEF Cancel, Leave, TypeOK
  <2>2. cycle'[t].pc = "idle"
    BY DEF Cancel, Leave, Resting, TypeOK
  <2>3. ASSUME NEW u \in Cycles, u # t, cycleLock # <<>>, cycleLock[1] = u
        PROVE  cycleLock' # <<>> /\ cycleLock'[1] = u
    BY <2>3, WithoutKeepsHead DEF Cancel, Leave, TypeOK
  <2> QED
    BY <2>1, <2>2, <2>3 DEF HolderInv
<1>3. RebuildInv'
  BY ManagerAssumption, WithoutKeepsHead DEF session, locks, made, Cancel, Leave, Resting, RebuildInv, TypeOK
<1>4. RequestInv'
  BY DEF session, locks, made, Cancel, Leave, Resting, RequestInv
<1>5. NumbersInv'
  BY DEF session, locks, made, Cancel, Leave, Resting, NumbersInv, TypeOK
<1>6. SessionIsWhole'
  BY DEF session, locks, made, Cancel, Leave, Resting, SessionIsWhole, SchedulersAccounted, NumbersInv, RequestInv, TypeOK
<1> QED
  BY <1>1, <1>2, <1>3, <1>4, <1>5, <1>6

\* The holder of the cycle lock asks for the manager's.
LEMMA EnterStep ==
  ASSUME ManagerInv, NEW t \in Cycles, Enter(t)
  PROVE  ManagerInv'
<1> USE DEF ManagerInv
<1>1. TypeOK'
  <2>1. cycle' \in [Cycles -> Instance]
    <3>1. cycle[t] \in Instance
      BY DEF TypeOK
    <3> QED
      BY <3>1 DEF Enter, TypeOK, Instance
  <2>2. lock' \in Seq(Tasks) /\ UNCHANGED cycleLock
    BY DEF Enter, TypeOK, Tasks, Holds, locks
  <2> QED
    BY <2>1, <2>2 DEF Enter, session, made, TypeOK
<1>2. HolderInv'
  BY DEF session, locks, made, Enter, Holds, HolderInv
<1>3. RebuildInv'
  <2>1. lock # <<>> => lock' # <<>> /\ lock'[1] = lock[1]
    BY AppendKeepsHead DEF Enter, TypeOK, Tasks
  <2>2. UNCHANGED call
    BY DEF Enter
  <2>3. t \in Tasks
    BY DEF Tasks
  <2>4. UNCHANGED <<session, built, asked>>
    BY DEF Enter, made
  <2> QED
    BY <2>1, <2>2, <2>3, <2>4 DEF session, RebuildInv
<1>4. RequestInv'
  BY DEF session, locks, made, Enter, Holds, RequestInv
<1>5. NumbersInv'
  BY DEF session, locks, made, Enter, Holds, NumbersInv, TypeOK
<1>6. SessionIsWhole'
  BY DEF session, locks, made, Enter, Holds, SessionIsWhole, SchedulersAccounted, NumbersInv, RequestInv, TypeOK
<1> QED
  BY <1>1, <1>2, <1>3, <1>4, <1>5, <1>6

\* A cycle of a stopped manager leaves.
LEMMA SkipStep ==
  ASSUME ManagerInv, NEW t \in Cycles, Skip(t)
  PROVE  ManagerInv'
<1> USE DEF ManagerInv
<1>1. TypeOK'
  BY ManagerAssumption, WithoutType DEF session, locks, made, Skip, Leave, Holds, Resting, TypeOK, Entry, Instance, Modes, Ids, Tasks
<1>2. HolderInv'
  <2>1. \A u \in Cycles : u # t => cycle'[u] = cycle[u]
    BY DEF Skip, Leave, TypeOK
  <2>2. cycle'[t].pc = "idle"
    BY DEF Skip, Leave, Resting, TypeOK
  <2>3. ASSUME NEW u \in Cycles, u # t, cycleLock # <<>>, cycleLock[1] = u
        PROVE  cycleLock' # <<>> /\ cycleLock'[1] = u
    BY <2>3, WithoutKeepsHead DEF Skip, Leave, TypeOK
  <2> QED
    BY <2>1, <2>2, <2>3 DEF HolderInv
<1>3. RebuildInv'
  BY ManagerAssumption DEF session, locks, made, Skip, Leave, Holds, Resting, RebuildInv, TypeOK
<1>4. RequestInv'
  BY DEF session, locks, made, Skip, Leave, Holds, Resting, RequestInv
<1>5. NumbersInv'
  BY DEF session, locks, made, Skip, Leave, Holds, Resting, NumbersInv, TypeOK
<1>6. SessionIsWhole'
  BY DEF session, locks, made, Skip, Leave, Holds, Resting, SessionIsWhole, SchedulersAccounted, NumbersInv, RequestInv, TypeOK
<1> QED
  BY <1>1, <1>2, <1>3, <1>4, <1>5, <1>6

\* A cycle gives the manager's lock back before its body.
LEMMA CaptureStep ==
  ASSUME ManagerInv, NEW t \in Cycles, Capture(t)
  PROVE  ManagerInv'
<1> USE DEF ManagerInv
<1>1. TypeOK'
  <2>1. cycle' \in [Cycles -> Instance]
    <3>1. cycle[t] \in Instance
      BY DEF TypeOK
    <3> QED
      BY <3>1 DEF Capture, TypeOK, Instance
  <2>2. lock' \in Seq(Tasks) /\ UNCHANGED cycleLock
    BY DEF Capture, TypeOK, Tasks, Holds, locks
  <2> QED
    BY <2>1, <2>2 DEF Capture, session, made, TypeOK
<1>2. HolderInv'
  <2>1. \A u \in Cycles : u # t => cycle'[u] = cycle[u]
    BY DEF Capture, TypeOK
  <2>2. cycle[t].pc = "locking" /\ UNCHANGED cycleLock
    BY DEF Capture
  <2> QED
    BY <2>1, <2>2 DEF HolderInv
<1>3. RebuildInv'
  <2>1. lock # <<>> /\ lock[1] = t /\ t \notin Callers /\ UNCHANGED call
    BY ManagerAssumption DEF Capture, Holds, TypeOK
  <2>2. \A c \in Callers : call[c].pc \notin {"building", "connecting"}
    BY <2>1 DEF RebuildInv
  <2> QED
    BY <2>1, <2>2 DEF RebuildInv
<1>4. RequestInv'
  BY DEF session, locks, made, Capture, Holds, RequestInv
<1>5. NumbersInv'
  BY DEF session, locks, made, Capture, Holds, NumbersInv, TypeOK
<1>6. SessionIsWhole'
  BY DEF session, locks, made, Capture, Holds, SessionIsWhole, SchedulersAccounted, NumbersInv, RequestInv, TypeOK
<1> QED
  BY <1>1, <1>2, <1>3, <1>4, <1>5, <1>6

\* A body that ended asks for the manager's lock.
LEMMA EndBodyStep ==
  ASSUME ManagerInv, NEW t \in Cycles, EndBody(t)
  PROVE  ManagerInv'
<1> USE DEF ManagerInv
<1>1. TypeOK'
  <2>1. cycle' \in [Cycles -> Instance]
    <3>1. cycle[t] \in Instance
      BY DEF TypeOK
    <3> QED
      BY <3>1 DEF EndBody, TypeOK, Instance
  <2>2. lock' \in Seq(Tasks) /\ UNCHANGED cycleLock
    BY DEF EndBody, TypeOK, Tasks, Holds, locks
  <2> QED
    BY <2>1, <2>2 DEF EndBody, session, made, TypeOK
<1>2. HolderInv'
  BY DEF session, locks, made, EndBody, HolderInv
<1>3. RebuildInv'
  <2>1. lock # <<>> => lock' # <<>> /\ lock'[1] = lock[1]
    BY AppendKeepsHead DEF EndBody, TypeOK, Tasks
  <2>2. UNCHANGED call
    BY DEF EndBody
  <2>3. t \in Tasks
    BY DEF Tasks
  <2>4. UNCHANGED <<session, built, asked>>
    BY DEF EndBody, made
  <2> QED
    BY <2>1, <2>2, <2>3, <2>4 DEF session, RebuildInv
<1>4. RequestInv'
  BY DEF session, locks, made, EndBody, RequestInv
<1>5. NumbersInv'
  BY DEF session, locks, made, EndBody, NumbersInv, TypeOK
<1>6. SessionIsWhole'
  BY DEF session, locks, made, EndBody, SessionIsWhole, SchedulersAccounted, NumbersInv, RequestInv, TypeOK
<1> QED
  BY <1>1, <1>2, <1>3, <1>4, <1>5, <1>6

\* A cycle that recorded its outcome leaves.
LEMMA RecordStep ==
  ASSUME ManagerInv, NEW t \in Cycles, Record(t)
  PROVE  ManagerInv'
<1> USE DEF ManagerInv
<1>1. TypeOK'
  BY ManagerAssumption, WithoutType DEF session, locks, made, Record, Leave, Holds, Resting, TypeOK, Entry, Instance, Modes, Ids, Tasks
<1>2. HolderInv'
  <2>1. \A u \in Cycles : u # t => cycle'[u] = cycle[u]
    BY DEF Record, Leave, TypeOK
  <2>2. cycle'[t].pc = "idle"
    BY DEF Record, Leave, Resting, TypeOK
  <2>3. ASSUME NEW u \in Cycles, u # t, cycleLock # <<>>, cycleLock[1] = u
        PROVE  cycleLock' # <<>> /\ cycleLock'[1] = u
    BY <2>3, WithoutKeepsHead DEF Record, Leave, TypeOK
  <2> QED
    BY <2>1, <2>2, <2>3 DEF HolderInv
<1>3. RebuildInv'
  BY ManagerAssumption DEF session, locks, made, Record, Leave, Holds, Resting, RebuildInv, TypeOK
<1>4. RequestInv'
  BY DEF session, locks, made, Record, Leave, Holds, Resting, RequestInv
<1>5. NumbersInv'
  BY DEF session, locks, made, Record, Leave, Holds, Resting, NumbersInv, TypeOK
<1>6. SessionIsWhole'
  BY DEF session, locks, made, Record, Leave, Holds, Resting, SessionIsWhole, SchedulersAccounted, NumbersInv, RequestInv, TypeOK
<1> QED
  BY <1>1, <1>2, <1>3, <1>4, <1>5, <1>6

\* Every step of the manager, of its schedulers and of their cycles.
LEMMA ManagerStepInv == ManagerInv /\ [Next]_vars => ManagerInv'
<1> SUFFICES ASSUME ManagerInv, [Next]_vars PROVE ManagerInv'
  OBVIOUS
<1>1. ASSUME NEW c \in Callers, Arrive(c) PROVE ManagerInv'
  <2>1. ASSUME Request(c, "stop", "paper", None, {}) PROVE ManagerInv'
    BY <2>1, RequestInvStep, ManagerAssumption DEF Modes
  <2>2. ASSUME NEW m \in Modes, Request(c, "set_mode", m, None, {}) PROVE ManagerInv'
    BY <2>2, RequestInvStep, ManagerAssumption
  <2>3. ASSUME NEW m \in Modes, NEW e \in Experiments, NEW j \in JobLists,
               Request(c, "start", m, e, j)
        PROVE  ManagerInv'
    <3>1. j \in SUBSET Jobs
      BY ManagerAssumption
    <3> QED
      BY <2>3, <3>1, RequestInvStep
  <2> QED
    BY <1>1, <2>1, <2>2, <2>3 DEF Arrive
<1>2. ASSUME NEW c \in Callers, CallStep(c) PROVE ManagerInv'
  BY <1>2, StopStep, StartAgainStep, StartStep, SetModeStep, BuildStep, FailStep, LaunchStep, LaunchFailsStep
     DEF CallStep
<1>3. ASSUME NEW s \in 1..MaxSessions, ShutDown(s) PROVE ManagerInv'
  BY <1>3, ShutDownStep
<1>4. ASSUME NEW t \in Cycles, Fire(t) \/ Cancel(t) \/ CycleStep(t) \/ EndBody(t) PROVE ManagerInv'
  BY <1>4, FireStep, CancelStep, EnterStep, SkipStep, CaptureStep, EndBodyStep, RecordStep
     DEF CycleStep
<1>5. CASE UNCHANGED vars
  <2>1. UNCHANGED <<session, locks, made, call, cycle>>
    BY <1>5 DEF vars
  <2>2. TypeOK' /\ HolderInv'
    BY <2>1 DEF session, locks, made, ManagerInv, TypeOK, HolderInv
  <2>3. RebuildInv' /\ RequestInv'
    BY <2>1 DEF session, locks, made, ManagerInv, RebuildInv, RequestInv
  <2>4. NumbersInv' /\ SessionIsWhole'
    BY <2>1 DEF session, made, ManagerInv, NumbersInv, SessionIsWhole, SchedulersAccounted
  <2> QED
    BY <2>2, <2>3, <2>4 DEF ManagerInv
<1> QED
  BY <1>1, <1>2, <1>3, <1>4, <1>5 DEF Next

-----------------------------------------------------------------------------
(* The theorems. *)

\* Types, who holds which lock, and what a rebuilding request may rely on
\* (start, set_mode, run_cycle).
THEOREM ManagerInvariance == Spec => []ManagerInv
<1> QED
  BY ManagerInitInv, ManagerStepInv, PTL DEF Spec

\* Cycles of whatever sessions never run at the same time (_cycle_lock).
THEOREM CyclesNeverMeet == Spec => []CyclesApart
<1>1. ManagerInv => CyclesApart
  BY DEF ManagerInv, HolderInv, CyclesApart, InBody
<1> QED
  BY ManagerInvariance, <1>1, PTL

\* A running manager is whole, however often building a stack fails, or was left half
\* started by default jobs that could not be read and then has no scheduler and no
\* jobs; and every scheduler is known (_start_unlocked, set_mode, _rebuild_stack).
THEOREM RunningMeansWhole == Spec => []SessionIsWhole
<1>1. ManagerInv => SessionIsWhole
  BY DEF ManagerInv
<1> QED
  BY ManagerInvariance, <1>1, PTL

-----------------------------------------------------------------------------
(* What a provider may say of a bar.                                       *)

\* What a signal may say.
Sides == {"BUY", "SELL", "HOLD"}

\* A stop and a target on either side of the price.
Around(side, price, levels) ==
  /\ levels[1] \in Int /\ levels[2] \in Int
  /\ Toward(side) * (price - levels[1]) >= 0
  /\ Toward(side) * (levels[2] - price) >= 0

\* What an aggregator may rely on in a signal of p about a bar.
Opinion(s, p, c) ==
  /\ s.provider = p /\ s.side \in Sides /\ s.weight = Params[p].weight
  /\ s.confidence \in Int
  /\ s.side # "HOLD" => s.confidence \in Nat
  /\ s.levels # <<>> => s.side # "HOLD" /\ Around(s.side, c.price, s.levels)

\* Features whose indicators are numbers.
Readable(f) == \A name \in DOMAIN f.indicators : f.indicators[name] \in Int

\* A context with a price and a range.
Usable(c) == c.price \in Nat /\ c.atr \in Nat

\* (BaseSignalProvider._atr_stops)
LEMMA AtrStopsAround ==
  ASSUME NEW p \in ProviderIds, NEW c, Usable(c), NEW side \in {"BUY", "SELL"}
  PROVE  Around(side, c.price, AtrStops(p, c, side))
<1> DEFINE a == Params[p].sl * c.atr
           b == Params[p].tp * c.atr
<1>1. Params[p].sl \in Nat /\ Params[p].tp \in Nat /\ c.atr \in Nat /\ c.price \in Nat
  BY ProvidersAssumption DEF Usable
<1>2. \A x, y \in Nat : x * y \in Nat
  OBVIOUS
<1>3. a \in Nat /\ b \in Nat
  BY <1>1, <1>2
<1>4. AtrStops(p, c, side) = << c.price - Toward(side) * (a \div 2),
                                c.price + Toward(side) * (b \div 2) >>
  BY DEF AtrStops
<1> HIDE DEF a, b
<1>5. PICK x, y \in Nat : x = a \div 2 /\ y = b \div 2
  BY <1>3
<1>6. PICK l : l = AtrStops(p, c, side)
  OBVIOUS
<1>7. l[1] = c.price - Toward(side) * x /\ l[2] = c.price + Toward(side) * y
  BY <1>4, <1>5, <1>6
<1>8. Toward(side) \in {1, -1}
  BY DEF Toward
<1>9. CASE Toward(side) = 1
  BY <1>1, <1>6, <1>7, <1>9 DEF Around
<1>10. CASE Toward(side) = -1
  BY <1>1, <1>6, <1>7, <1>10 DEF Around
<1> QED
  BY <1>8, <1>9, <1>10

\* A signal that holds may have any confidence and has no levels.
LEMMA HoldIsOpinion ==
  ASSUME NEW p \in ProviderIds, NEW c, NEW confidence \in Int
  PROVE  Opinion(Signal(p, "HOLD", confidence, <<>>), p, c)
BY DEF Opinion, Signal, Sides

\* A side is taken only with the confidence its provider asks for.
LEMMA TakenIsOpinion ==
  ASSUME NEW p \in ProviderIds, NEW c, Usable(c), NEW side \in {"BUY", "SELL"},
         NEW confidence \in Int, confidence >= Params[p].minConfidence
  PROVE  Opinion(Signal(p, side, confidence, AtrStops(p, c, side)), p, c)
<1>1. Around(side, c.price, AtrStops(p, c, side))
  BY AtrStopsAround
<1>2. confidence \in Nat
  BY ProvidersAssumption
<1> QED
  BY <1>1, <1>2 DEF Opinion, Signal, Sides

\* Below that confidence the provider holds.
LEMMA EmitIsOpinion ==
  ASSUME NEW p \in ProviderIds, NEW c, Usable(c), NEW side \in Sides, NEW confidence \in Int
  PROVE  Opinion(Emit(p, c, side, confidence), p, c)
<1>1. Params[p].minConfidence \in Nat
  BY ProvidersAssumption
<1>2. CASE side = "HOLD"
  BY <1>2, HoldIsOpinion DEF Emit
<1>3. CASE side # "HOLD" /\ confidence < Params[p].minConfidence
  <2>1. Params[p].minConfidence - 1 \in Int
    BY <1>1
  <2> QED
    BY <1>3, <2>1, HoldIsOpinion DEF Emit
<1>4. CASE side # "HOLD" /\ ~(confidence < Params[p].minConfidence)
  <2>1. side \in {"BUY", "SELL"} /\ confidence >= Params[p].minConfidence
    BY <1>1, <1>4 DEF Sides
  <2> QED
    BY <1>4, <2>1, TakenIsOpinion DEF Emit
<1> QED
  BY <1>2, <1>3, <1>4

-----------------------------------------------------------------------------
(* What its confidence and its filters are made of.                        *)

\* The arithmetic of confidences keeps to the integers, and divides by no zero.
LEMMA LargestStays ==
  ASSUME NEW a \in Int, NEW b \in Int
  PROVE  Largest(a, b) \in Int /\ Smallest(a, b) \in Int /\ Largest(a, 1) \in Nat \ {0}
BY DEF Largest, Smallest

\* So does the absolute value,
LEMMA AbsStays ==
  ASSUME NEW a \in Int
  PROVE  Abs(a) \in Nat
BY DEF Largest, Abs

\* the clamp to a percentage,
LEMMA ClampStays ==
  ASSUME NEW a \in Int
  PROVE  Clamp(a) \in Int
BY DEF Largest, Smallest, Clamp

\* and the quotient by a positive number.
LEMMA QuotientStays ==
  ASSUME NEW a \in Int, NEW n \in Nat \ {0}
  PROVE  a \div n \in Int
OBVIOUS

\* An indicator that is left out reads as its default.
LEMMA ReadingIsInt ==
  ASSUME NEW f, Readable(f), NEW name, NEW default \in Int
  PROVE  Get(f, name, default) \in Int
BY DEF Get, Readable

\* What is neither bullish nor bearish holds.
LEMMA BetweenIsSide ==
  ASSUME NEW x, NEW y
  PROVE  Between(x, y) \in Sides
BY DEF Between, Sides

\* A filter lets a side pass or holds.
LEMMA FiltersKeepSides ==
  ASSUME NEW p, NEW c, NEW d, NEW side \in Sides
  PROVE  /\ WithTrend(p, c, side) \in Sides /\ Calm(p, c, side) \in Sides
         /\ InRegime(p, c, side) \in Sides /\ Aligned(p, d, side) \in Sides
BY DEF WithTrend, Calm, InRegime, Aligned, Sides

\* (EmaCrossoverProvider.analyze)
LEMMA EmaOpinion ==
  ASSUME NEW f, Readable(f), NEW c, Usable(c)
  PROVE  Opinion(EmaCrossover(f, c), "ema_crossover", c)
<1> DEFINE bull == "ema_cross_bullish" \in f.flags
           bear == "ema_cross_bearish" \in f.flags
           crossed == Between(bull, bear)
           side == WithTrend("ema_crossover", c, crossed)
           spread == Get(f, "ema_12", c.price) - Get(f, "ema_26", c.price)
           n == Largest(c.atr, 1)
           conf == EmaConfidence(f, c, bull, bear)
<1>1. crossed \in Sides /\ side \in Sides
  <2>1. crossed \in Sides
    BY BetweenIsSide
  <2> HIDE DEF crossed
  <2> QED
    BY <2>1, FiltersKeepSides
<1>2. Get(f, "ema_12", c.price) \in Int /\ Get(f, "ema_26", c.price) \in Int
  BY ReadingIsInt DEF Usable
<1>3. spread \in Int /\ n \in Nat \ {0}
  <2>1. c.atr \in Int
    BY DEF Usable
  <2>2. n \in Nat \ {0}
    BY <2>1, LargestStays
  <2> QED
    BY <1>2, <2>2
<1>4. conf \in Int
  <2>1. conf = IF ~bull /\ ~bear THEN 50 ELSE Clamp(55 + (50 * Abs(spread)) \div n)
    BY DEF EmaConfidence
  <2> HIDE DEF spread, n, conf, bull, bear
  <2>2. Abs(spread) \in Int
    BY <1>3, AbsStays
  <2>3. (50 * Abs(spread)) \div n \in Int
    BY <1>3, <2>2, QuotientStays
  <2>4. Clamp(55 + (50 * Abs(spread)) \div n) \in Int
    BY <2>3, ClampStays
  <2> QED
    BY <2>1, <2>4
<1>5. EmaCrossover(f, c) = Emit("ema_crossover", c, side, IF side # crossed THEN 50 ELSE conf)
  BY DEF EmaCrossover
<1> HIDE DEF bull, bear, crossed, side, spread, n, conf
<1>6. (IF side # crossed THEN 50 ELSE conf) \in Int /\ "ema_crossover" \in ProviderIds
  BY <1>4 DEF ProviderIds
<1> QED
  BY <1>1, <1>5, <1>6, EmitIsOpinion

\* (RsiDivergenceProvider.analyze)
LEMMA RsiOpinion ==
  ASSUME NEW f, Readable(f), NEW c, Usable(c)
  PROVE  Opinion(RsiDivergence(f, c), "rsi_divergence", c)
<1> DEFINE p == "rsi_divergence"
           rsi == Get(f, "rsi_14", 50)
           raw == Between(rsi < Params[p].oversold, rsi > Params[p].overbought)
           conf == RsiConfidence(p, rsi, raw)
           side == Calm(p, c, raw)
<1>1. p \in ProviderIds
  BY DEF ProviderIds
<1>2. rsi \in Int
  BY ReadingIsInt
<1>3. raw \in Sides /\ side \in Sides
  <2>1. raw \in Sides
    BY BetweenIsSide
  <2> HIDE DEF raw
  <2> QED
    BY <2>1, FiltersKeepSides
<1>4. Params[p].oversold \in Int /\ Params[p].overbought \in Int /\ Params[p].minConfidence \in Nat
  BY <1>1, ProvidersAssumption
<1>5. RsiDivergence(f, c) =
        IF side = "HOLD" \/ conf < Params[p].minConfidence
        THEN Signal(p, "HOLD", conf, <<>>)
        ELSE Signal(p, side, conf, AtrStops(p, c, side))
  BY DEF RsiDivergence
<1> HIDE DEF p, rsi, raw, side
<1>6. conf \in Int
  <2>1. (100 * (Params[p].oversold - rsi)) \div 40 \in Int
        /\ (100 * (rsi - Params[p].overbought)) \div 40 \in Int
    BY <1>2, <1>4
  <2>2. /\ Clamp(55 + (100 * (Params[p].oversold - rsi)) \div 40) \in Int
        /\ Clamp(55 + (100 * (rsi - Params[p].overbought)) \div 40) \in Int
    BY <2>1, ClampStays
  <2> QED
    BY <2>2 DEF RsiConfidence
<1> HIDE DEF conf
<1>7. CASE side = "HOLD" \/ conf < Params[p].minConfidence
  <2>1. Opinion(Signal(p, "HOLD", conf, <<>>), p, c)
    BY <1>1, <1>6, HoldIsOpinion
  <2> QED
    BY <1>5, <1>7, <2>1 DEF p
<1>8. CASE ~(side = "HOLD" \/ conf < Params[p].minConfidence)
  <2>1. side \in {"BUY", "SELL"} /\ conf >= Params[p].minConfidence
    BY <1>3, <1>4, <1>6, <1>8 DEF Sides
  <2>2. Opinion(Signal(p, side, conf, AtrStops(p, c, side)), p, c)
    BY <1>1, <1>6, <2>1, TakenIsOpinion
  <2> QED
    BY <1>5, <1>8, <2>2 DEF p
<1> QED
  BY <1>7, <1>8

\* (MacdMomentumProvider.analyze)
LEMMA MacdOpinion ==
  ASSUME NEW f, Readable(f), NEW c, Usable(c)
  PROVE  Opinion(MacdMomentum(f, c), "macd_momentum", c)
<1> DEFINE p == "macd_momentum"
           h == Get(f, "macd_histogram", 0)
           s == Get(f, "macd_histogram_slope", 0)
           n == Largest(c.atr, 1)
<1>1. h \in Int /\ s \in Int
  BY ReadingIsInt
<1>2. n \in Nat \ {0}
  <2>1. c.atr \in Int
    BY DEF Usable
  <2> QED
    BY <2>1, LargestStays
<1>3. PICK x \in BOOLEAN, y \in BOOLEAN :
        MacdMomentum(f, c) = Emit(p, c, WithTrend(p, c, Between(x, y)), MacdConfidence(h, s, c.atr))
  BY DEF MacdMomentum
<1>4. MacdConfidence(h, s, c.atr) = Clamp(55 + (35 * Abs(h) + 50 * Abs(s)) \div n)
  BY DEF MacdConfidence
<1> HIDE DEF h, s, n
<1>5. MacdConfidence(h, s, c.atr) \in Int
  <2>1. 35 * Abs(h) + 50 * Abs(s) \in Int
    <3>1. Abs(h) \in Nat /\ Abs(s) \in Nat
      BY <1>1, AbsStays
    <3> QED
      BY <3>1
  <2>2. (35 * Abs(h) + 50 * Abs(s)) \div n \in Int
    BY <1>2, <2>1, QuotientStays
  <2> QED
    BY <1>4, <2>2, ClampStays
<1>6. WithTrend(p, c, Between(x, y)) \in Sides
  <2>1. Between(x, y) \in Sides
    BY BetweenIsSide
  <2> QED
    BY <2>1, FiltersKeepSides
<1>7. p \in ProviderIds
  BY DEF ProviderIds
<1> QED
  BY <1>3, <1>5, <1>6, <1>7, EmitIsOpinion

\* (AdxTrendStrengthProvider.analyze)
LEMMA AdxOpinion ==
  ASSUME NEW f, Readable(f), NEW c, Usable(c)
  PROVE  Opinion(AdxTrendStrength(f, c), "adx_trend_strength", c)
<1> DEFINE p == "adx_trend_strength"
           adx == Get(f, "adx_14", 0)
           plus == Get(f, "plus_di_14", 0)
           minus == Get(f, "minus_di_14", 0)
           spread == Abs(plus - minus)
           strong == adx >= Params[p].minAdx /\ spread >= Params[p].minSpread
           raw == Between(strong /\ plus > minus, strong /\ minus > plus)
           side == InRegime(p, c, WithTrend(p, c, raw))
<1>1. AdxTrendStrength(f, c) = Emit(p, c, side, AdxConfidence(adx, spread))
  BY DEF AdxTrendStrength
<1>2. adx \in Int /\ plus \in Int /\ minus \in Int
  BY ReadingIsInt
<1>3. spread \in Int
  <2>1. plus - minus \in Int
    BY <1>2
  <2> QED
    BY <2>1, AbsStays
<1>4. side \in Sides
  <2>1. raw \in Sides
    BY BetweenIsSide
  <2> HIDE DEF raw
  <2>2. WithTrend(p, c, raw) \in Sides
    BY <2>1, FiltersKeepSides
  <2> QED
    BY <2>2, FiltersKeepSides
<1>5. p \in ProviderIds
  BY DEF ProviderIds
<1> HIDE DEF adx, spread, side
<1>6. AdxConfidence(adx, spread) \in Int
  <2>1. adx - 20 \in Int
    BY <1>2
  <2>2. Largest(0, adx - 20) \in Int /\ Smallest(spread, 20) \in Int
    BY <1>3, <2>1, LargestStays
  <2>3. (20 * Largest(0, adx - 20)) \div 40 \in Int /\ (15 * Smallest(spread, 20)) \div 20 \in Int
    BY <2>2
  <2>4. 55 + (20 * Largest(0, adx - 20)) \div 40 + (15 * Smallest(spread, 20)) \div 20 \in Int
    BY <2>3
  <2> QED
    BY <2>4, ClampStays DEF AdxConfidence
<1>7. Opinion(Emit(p, c, side, AdxConfidence(adx, spread)), p, c)
  BY <1>4, <1>5, <1>6, EmitIsOpinion
<1> QED
  BY <1>1, <1>7

\* (BollingerReversionProvider.analyze)
LEMMA BollingerOpinion ==
  ASSUME NEW f, Readable(f), NEW c, Usable(c)
  PROVE  Opinion(BollingerReversion(f, c), "bollinger_reversion", c)
<1> DEFINE p == "bollinger_reversion"
           upper == Get(f, "bb_upper", c.price)
           lower == Get(f, "bb_lower", c.price)
           raw == AtBand(c.price, upper, lower)
           quiet == Params[p].maxAdx > 0 => Get(f, "adx_14", 0) <= Params[p].maxAdx
           side == IF quiet THEN Calm(p, c, raw) ELSE "HOLD"
           conf == BollingerConfidence(c.price, upper, lower, raw)
<1>1. BollingerReversion(f, c) = Emit(p, c, side, conf)
  BY DEF BollingerReversion
<1>2. c.price \in Int
  BY DEF Usable
<1>3. upper \in Int /\ lower \in Int
  BY <1>2, ReadingIsInt
<1>4. raw \in Sides
  BY DEF AtBand, Sides
<1>5. side \in Sides
  <2> HIDE DEF raw
  <2>1. Calm(p, c, raw) \in Sides
    BY <1>4, FiltersKeepSides
  <2> QED
    BY <2>1 DEF Sides
<1>6. p \in ProviderIds
  BY DEF ProviderIds
<1> HIDE DEF upper, lower, raw, side
<1>7. conf \in Int
  <2> DEFINE width == Largest(upper - lower, 1)
             past == CASE raw = "BUY"  -> Largest(0, lower - c.price)
                       [] raw = "SELL" -> Largest(0, c.price - upper)
                       [] OTHER        -> 0
  <2>1. conf = IF raw = "HOLD" THEN 50 ELSE Clamp(55 + (120 * past) \div width)
    BY DEF BollingerConfidence
  <2>2. upper - lower \in Int /\ lower - c.price \in Int /\ c.price - upper \in Int
    BY <1>2, <1>3
  <2>3. width \in Nat \ {0}
    BY <2>2, LargestStays
  <2>4. Largest(0, lower - c.price) \in Int /\ Largest(0, c.price - upper) \in Int
    BY <2>2 DEF Largest
  <2>5. past \in Int
    BY <2>4
  <2> HIDE DEF width, past
  <2>6. 120 * past \in Int
    BY <2>5
  <2>7. (120 * past) \div width \in Int
    BY <2>3, <2>6, QuotientStays
  <2>8. Clamp(55 + (120 * past) \div width) \in Int
    BY <2>7, ClampStays
  <2> QED
    BY <2>1, <2>8
<1> HIDE DEF conf
<1>8. Opinion(Emit(p, c, side, conf), p, c)
  BY <1>5, <1>6, <1>7, EmitIsOpinion
<1> QED
  BY <1>1, <1>8

\* (SuperTrendTrendProvider.analyze)
LEMMA SupertrendOpinion ==
  ASSUME NEW f, Readable(f), NEW c, Usable(c)
  PROVE  Opinion(SupertrendTrend(f, c), "supertrend_trend", c)
<1> DEFINE p == "supertrend_trend"
           line == Get(f, "supertrend", c.price)
           n == Largest(c.atr, 1)
<1>1. PICK x \in BOOLEAN, y \in BOOLEAN :
        SupertrendTrend(f, c) =
          Emit(p, c, WithTrend(p, c, Between(x, y)), SupertrendConfidence(c.price, line, c.atr))
  <2> DEFINE d == Get(f, "supertrend_direction", 0)
  <2>1. (d > 0) \in BOOLEAN /\ (d < 0) \in BOOLEAN
    OBVIOUS
  <2>2. SupertrendTrend(f, c) =
          Emit(p, c, WithTrend(p, c, Between(d > 0, d < 0)), SupertrendConfidence(c.price, line, c.atr))
    BY DEF SupertrendTrend
  <2> HIDE DEF d, line
  <2> QED
    BY <2>1, <2>2
<1>2. c.price \in Int /\ c.atr \in Int
  BY DEF Usable
<1>3. line \in Int
  BY <1>2, ReadingIsInt
<1>4. n \in Nat \ {0}
  BY <1>2, LargestStays
<1>5. SupertrendConfidence(c.price, line, c.atr) = Clamp(55 + (12 * Abs(c.price - line)) \div n)
  BY DEF SupertrendConfidence
<1> HIDE DEF line, n
<1>6. SupertrendConfidence(c.price, line, c.atr) \in Int
  <2>1. c.price - line \in Int
    BY <1>2, <1>3
  <2>2. Abs(c.price - line) \in Nat
    BY <2>1, AbsStays
  <2>3. 12 * Abs(c.price - line) \in Int
    BY <2>2
  <2>4. (12 * Abs(c.price - line)) \div n \in Int
    BY <1>4, <2>3, QuotientStays
  <2> QED
    BY <1>5, <2>4, ClampStays
<1>7. WithTrend(p, c, Between(x, y)) \in Sides
  <2>1. Between(x, y) \in Sides
    BY BetweenIsSide
  <2> QED
    BY <2>1, FiltersKeepSides
<1>8. p \in ProviderIds
  BY DEF ProviderIds
<1> QED
  BY <1>1, <1>6, <1>7, <1>8, EmitIsOpinion

\* (VolumeOrderFlowProvider.analyze)
LEMMA FlowOpinion ==
  ASSUME NEW f, Readable(f), NEW c, Usable(c)
  PROVE  Opinion(VolumeOrderFlow(f, c), "volume_order_flow", c)
<1> DEFINE p == "volume_order_flow"
           cmf == Get(f, "cmf_20", 0)
           ratio == Get(f, "volume_ratio_20", 100)
           n == Largest(Params[p].minCmf, 1)
           conf == FlowConfidence(p, cmf, ratio)
<1>1. PICK x \in BOOLEAN, y \in BOOLEAN :
        VolumeOrderFlow(f, c) =
          Emit(p, c, Aligned(p, Get(f, "close_delta", 0), Between(x, y)), conf)
  <2>1. /\ (ratio >= Params[p].minRatio /\ cmf >= Params[p].minCmf) \in BOOLEAN
        /\ (ratio >= Params[p].minRatio /\ cmf <= -Params[p].minCmf) \in BOOLEAN
    OBVIOUS
  <2>2. VolumeOrderFlow(f, c) =
          Emit(p, c, Aligned(p, Get(f, "close_delta", 0),
                             Between(ratio >= Params[p].minRatio /\ cmf >= Params[p].minCmf,
                                     ratio >= Params[p].minRatio /\ cmf <= -Params[p].minCmf)), conf)
    BY DEF VolumeOrderFlow
  <2> HIDE DEF ratio, cmf, conf
  <2> QED
    BY <2>1, <2>2
<1>2. p \in ProviderIds
  BY DEF ProviderIds
<1>3. cmf \in Int /\ ratio \in Int
  BY ReadingIsInt
<1>4. n \in Nat \ {0}
  <2>1. Params[p].minCmf \in Int
    BY <1>2, ProvidersAssumption
  <2> QED
    BY <2>1, LargestStays
<1>5. conf = Clamp(55 + Smallest((10 * Abs(cmf)) \div n, 20)
                      + (20 * Smallest(Largest(ratio - 100, 0), 100)) \div 100)
  BY DEF FlowConfidence
<1> HIDE DEF cmf, ratio, n, conf
<1>6. conf \in Int
  <2>1. ratio - 100 \in Int
    BY <1>3
  <2>2. Largest(ratio - 100, 0) \in Int
    BY <2>1, LargestStays
  <2>3. Smallest(Largest(ratio - 100, 0), 100) \in Int
    BY <2>2, LargestStays
  <2>4. (20 * Smallest(Largest(ratio - 100, 0), 100)) \div 100 \in Int
    BY <2>3
  <2>5. Abs(cmf) \in Nat
    BY <1>3, AbsStays
  <2>6. 10 * Abs(cmf) \in Int
    BY <2>5
  <2>7. (10 * Abs(cmf)) \div n \in Int
    BY <1>4, <2>6, QuotientStays
  <2>8. Smallest((10 * Abs(cmf)) \div n, 20) \in Int
    BY <2>7, LargestStays
  <2>9. 55 + Smallest((10 * Abs(cmf)) \div n, 20)
           + (20 * Smallest(Largest(ratio - 100, 0), 100)) \div 100 \in Int
    BY <2>4, <2>8
  <2> QED
    BY <1>5, <2>9, ClampStays
<1>7. Aligned(p, Get(f, "close_delta", 0), Between(x, y)) \in Sides
  <2>1. Between(x, y) \in Sides
    BY BetweenIsSide
  <2> QED
    BY <2>1, FiltersKeepSides
<1>8. Opinion(Emit(p, c, Aligned(p, Get(f, "close_delta", 0), Between(x, y)), conf), p, c)
  BY <1>2, <1>6, <1>7, EmitIsOpinion
<1> QED
  BY <1>1, <1>8

\* (MarketStructureProvider.analyze)
LEMMA StructureOpinion ==
  ASSUME NEW f, Readable(f), NEW c, Usable(c)
  PROVE  Opinion(MarketStructure(f, c), "market_structure", c)
<1> DEFINE p == "market_structure"
           bias == Get(f, "ms_bias", 0)
           bos == Get(f, "ms_bos", 0)
           conf == StructureConfidence(bias, bos, c.price, c.atr)
           n == Largest(c.atr, 1)
           broken == Smallest(Abs(bos), 1)
<1>1. PICK x \in BOOLEAN, y \in BOOLEAN :
        MarketStructure(f, c) = Emit(p, c, WithTrend(p, c, Between(x, y)), conf)
  <2>1. /\ (bias > 0 /\ (Params[p].requireBos => bos > 0)) \in BOOLEAN
        /\ (bias < 0 /\ (Params[p].requireBos => bos < 0)) \in BOOLEAN
    OBVIOUS
  <2>2. MarketStructure(f, c) =
          Emit(p, c, WithTrend(p, c, Between(bias > 0 /\ (Params[p].requireBos => bos > 0),
                                             bias < 0 /\ (Params[p].requireBos => bos < 0))), conf)
    BY DEF MarketStructure
  <2> HIDE DEF bias, bos, conf
  <2> QED
    BY <2>1, <2>2
<1>2. bias \in Int /\ bos \in Int
  BY ReadingIsInt
<1>3. c.price \in Nat /\ c.atr \in Int
  BY DEF Usable
<1>4. n \in Nat \ {0}
  BY <1>3, LargestStays
<1>5. conf = Clamp(55 + 15 * Smallest(Abs(bias), 1) + 20 * broken + (c.price * broken) \div (10 * n))
  BY DEF StructureConfidence
<1>6. Abs(bias) \in Nat /\ Abs(bos) \in Nat
  BY <1>2, AbsStays
<1>7. Smallest(Abs(bias), 1) \in Int /\ broken \in Int
  BY <1>6, LargestStays
<1> HIDE DEF bias, bos, conf, n, broken
<1>8. conf \in Int
  <2>1. \A a, b \in Int : a * b \in Int
    OBVIOUS
  <2>2. c.price * broken \in Int
    BY <1>3, <1>7, <2>1
  <2>3. 10 * n \in Nat \ {0}
    BY <1>4
  <2>4. (c.price * broken) \div (10 * n) \in Int
    BY <2>2, <2>3, QuotientStays
  <2>5. 55 + 15 * Smallest(Abs(bias), 1) + 20 * broken + (c.price * broken) \div (10 * n) \in Int
    BY <1>7, <2>4
  <2> QED
    BY <1>5, <2>5, ClampStays
<1>9. WithTrend(p, c, Between(x, y)) \in Sides
  <2>1. Between(x, y) \in Sides
    BY BetweenIsSide
  <2> QED
    BY <2>1, FiltersKeepSides
<1>10. p \in ProviderIds
  BY DEF ProviderIds
<1> QED
  BY <1>1, <1>8, <1>9, <1>10, EmitIsOpinion

\* (CoreLongProvider.analyze)
LEMMA CoreLongOpinion ==
  ASSUME NEW f, Readable(f), NEW c, Usable(c)
  PROVE  Opinion(CoreLong(f, c), "core_long", c)
<1> DEFINE p == "core_long"
           side == IF c.price > f.indicators["sma_200"] THEN "BUY" ELSE Params[p].offSide
           conf == Params[p].confidence
           levels == IF Params[p].atrStops THEN AtrStops(p, c, side) ELSE <<>>
           holds == ~("sma_200" \in DOMAIN f.indicators) \/ side = "HOLD"
                      \/ conf < Params[p].minConfidence
<1>1. CoreLong(f, c) = IF holds THEN Signal(p, "HOLD", 50, <<>>) ELSE Signal(p, side, conf, levels)
  BY DEF CoreLong
<1>2. p \in ProviderIds
  BY DEF ProviderIds
<1>3. side \in Sides /\ conf \in Nat
  BY <1>2, ProvidersAssumption DEF Sides
<1>4. CASE holds
  <2>1. Opinion(Signal(p, "HOLD", 50, <<>>), p, c)
    BY <1>2, HoldIsOpinion
  <2> QED
    BY <1>1, <1>4, <2>1
<1>5. CASE ~holds
  <2>1. side \in {"BUY", "SELL"}
    BY <1>3, <1>5 DEF Sides
  <2>2. CoreLong(f, c) = Signal(p, side, conf, levels)
    BY <1>1, <1>5
  <2> HIDE DEF p, side, conf, holds
  <2>3. Around(side, c.price, AtrStops(p, c, side))
    BY <1>2, <2>1, AtrStopsAround
  <2>4. levels # <<>> => Around(side, c.price, levels)
    BY <2>3
  <2> HIDE DEF levels
  <2>5. Opinion(Signal(p, side, conf, levels), p, c)
    BY <1>3, <2>1, <2>4 DEF Opinion, Signal
  <2> QED
    BY <2>2, <2>5 DEF p
<1> QED
  BY <1>4, <1>5

\* Whatever is read, a provider's opinion is one (providers/*.analyze).
LEMMA AnalyzeIsOpinion ==
  ASSUME NEW p \in ProviderIds, NEW f, Readable(f), NEW c, Usable(c)
  PROVE  Opinion(Analyze(p, f, c), p, c)
<1>1. CASE p = "ema_crossover"
  BY <1>1, EmaOpinion DEF Analyze
<1>2. CASE p = "rsi_divergence"
  BY <1>2, RsiOpinion DEF Analyze
<1>3. CASE p = "macd_momentum"
  BY <1>3, MacdOpinion DEF Analyze
<1>4. CASE p = "adx_trend_strength"
  BY <1>4, AdxOpinion DEF Analyze
<1>5. CASE p = "bollinger_reversion"
  BY <1>5, BollingerOpinion DEF Analyze
<1>6. CASE p = "supertrend_trend"
  BY <1>6, SupertrendOpinion DEF Analyze
<1>7. CASE p = "volume_order_flow"
  BY <1>7, FlowOpinion DEF Analyze
<1>8. CASE p = "market_structure"
  BY <1>8, StructureOpinion DEF Analyze
<1>9. CASE p = "core_long"
  BY <1>9, CoreLongOpinion DEF Analyze
<1> QED
  BY <1>1, <1>2, <1>3, <1>4, <1>5, <1>6, <1>7, <1>8, <1>9 DEF ProviderIds

-----------------------------------------------------------------------------
(* A mean lies between the bounds of what it is taken of.                  *)

\* A quotient rounded down still respects an integer bound.
LEMMA QuotientBounded ==
  ASSUME NEW a \in Int, NEW n \in Nat \ {0}, NEW c \in Int
  PROVE  /\ a \div n \in Int
         /\ a <= n * c => a \div n <= c
         /\ a >= n * c => a \div n >= c
<1> DEFINE q == a \div n
<1>1. q \in Int /\ n * q <= a /\ a < n * q + n
  OBVIOUS
<1> HIDE DEF q
<1>2. ASSUME a <= n * c, q >= c + 1 PROVE FALSE
  <2>1. n * q >= n * (c + 1) /\ n * (c + 1) = n * c + n
    BY <1>1, <1>2
  <2>2. n * q \in Int /\ n * c \in Int
    BY <1>1
  <2> QED
    BY <1>1, <1>2, <2>1, <2>2
<1>3. ASSUME a >= n * c, q <= c - 1 PROVE FALSE
  <2>1. n * q <= n * (c - 1) /\ n * (c - 1) = n * c - n
    BY <1>1, <1>3
  <2>2. n * q \in Int /\ n * c \in Int
    BY <1>1
  <2> QED
    BY <1>1, <1>3, <2>1, <2>2
<1>4. /\ a <= n * c => q <= c
      /\ a >= n * c => q >= c
  BY <1>1, <1>2, <1>3
<1> QED
  BY <1>1, <1>4 DEF q

\* m is at most c if all values are, and at least c if all values are.
Within(m, value, D, c) ==
  /\ (\A x \in D : value[x] <= c) => m <= c
  /\ (\A x \in D : value[x] >= c) => m >= c

\* By comparing the sum with that of as many bounds.
LEMMA MeanWithin ==
  ASSUME NEW D, IsFiniteSet(D), D # {}, NEW value \in [D -> Int], NEW c \in Int
  PROVE  Mean(value) \in Int /\ Within(Mean(value), value, D, c)
<1> DEFINE ones == [x \in D |-> 1]
           cs   == [x \in D |-> c]
           n    == Cardinality(D)
           s    == SumFunction(value)
<1>1. ones \in [D -> Int] /\ cs \in [D -> Int] /\ (\A x \in D : ones[x] = 1)
      /\ (\A x \in D : cs[x] = c * ones[x]) /\ \A x \in D : cs[x] = c
  OBVIOUS
<1>2. n \in Nat \ {0}
  BY FS_CardinalityType, FS_EmptySet
<1>3. Mean(value) = s \div n
  BY DEF Mean
<1>4. s \in Int
  BY SumIsInt
<1> HIDE DEF ones, cs, n, s
<1>5. SumFunction(ones) = n
  BY <1>1, SumOfOnes DEF n
<1>6. SumFunction(cs) = c * SumFunction(ones)
  BY <1>1, SumScaled
<1>7. SumFunction(cs) = n * c
  BY <1>2, <1>5, <1>6
<1>8. ASSUME \A x \in D : value[x] <= c PROVE s <= n * c
  <2>1. \A x \in D : value[x] <= cs[x]
    BY <1>1, <1>8
  <2>2. SumFunction(value) <= SumFunction(cs)
    BY <1>1, <2>1, SumMonotone
  <2> QED
    BY <1>7, <2>2 DEF s
<1>9. ASSUME \A x \in D : value[x] >= c PROVE s >= n * c
  <2>1. \A x \in D : cs[x] <= value[x]
    BY <1>1, <1>9
  <2>2. SumFunction(cs) <= SumFunction(value)
    BY <1>1, <2>1, SumMonotone
  <2>3. SumFunction(cs) \in Int
    BY <1>2, <1>7
  <2> QED
    BY <1>4, <1>7, <2>2, <2>3 DEF s
<1>10. s \div n \in Int /\ (s <= n * c => s \div n <= c) /\ (s >= n * c => s \div n >= c)
  BY <1>2, <1>4, QuotientBounded
<1> QED
  BY <1>3, <1>8, <1>9, <1>10 DEF Within

\* By comparing the weighted sum with that of the weighted bounds.
LEMMA WeightedMeanWithin ==
  ASSUME NEW D, IsFiniteSet(D), NEW value \in [D -> Int], NEW weight \in [D -> Nat],
         SumFunction(weight) # 0, NEW c \in Int
  PROVE  WeightedMean(value, weight) \in Int /\ Within(WeightedMean(value, weight), value, D, c)
<1> DEFINE prod == [x \in D |-> value[x] * weight[x]]
           cs   == [x \in D |-> c * weight[x]]
           n    == SumFunction(weight)
           s    == SumFunction(prod)
<1>1. \A a \in Int, b \in Nat : a * b \in Int
  OBVIOUS
<1>2. prod \in [D -> Int] /\ cs \in [D -> Int] /\ weight \in [D -> Int]
  BY <1>1
<1>3. /\ \A x \in D : prod[x] = value[x] * weight[x]
      /\ \A x \in D : cs[x] = c * weight[x]
      /\ DOMAIN value = D
  OBVIOUS
<1>4. n \in Nat \ {0}
  BY SumIsNat
<1>5. WeightedMean(value, weight) = s \div n
  BY <1>3 DEF WeightedMean
<1> HIDE DEF prod, cs, n, s
<1>6. s \in Int
  BY <1>2, SumIsInt DEF s
<1>7. SumFunction(cs) = c * SumFunction(weight)
  BY <1>2, <1>3, SumScaled
<1>8. SumFunction(cs) = n * c
  BY <1>4, <1>7 DEF n
<1>9. \A a \in Int, b \in Nat : (a <= c => a * b <= c * b) /\ (a >= c => c * b <= a * b)
  OBVIOUS
<1>10. ASSUME \A x \in D : value[x] <= c PROVE s <= n * c
  <2>1. \A x \in D : prod[x] <= cs[x]
    BY <1>3, <1>9, <1>10
  <2>2. SumFunction(prod) <= SumFunction(cs)
    BY <1>2, <2>1, SumMonotone
  <2> QED
    BY <1>8, <2>2 DEF s
<1>11. ASSUME \A x \in D : value[x] >= c PROVE s >= n * c
  <2>1. \A x \in D : cs[x] <= prod[x]
    BY <1>3, <1>9, <1>11
  <2>2. SumFunction(cs) <= SumFunction(prod)
    BY <1>2, <2>1, SumMonotone
  <2>3. SumFunction(cs) \in Int
    BY <1>4, <1>8
  <2> QED
    BY <1>6, <1>8, <2>2, <2>3 DEF s
<1>12. s \div n \in Int /\ (s <= n * c => s \div n <= c) /\ (s >= n * c => s \div n >= c)
  BY <1>4, <1>6, QuotientBounded
<1> QED
  BY <1>5, <1>10, <1>11, <1>12 DEF Within

-----------------------------------------------------------------------------
(* The signals of distinct providers, in some order.                       *)

\* A list of opinions about a bar, none of them of the same provider.
Heard(sigs, c) ==
  /\ Len(sigs) \in Nat /\ sigs = [i \in 1..Len(sigs) |-> sigs[i]]
  /\ \A i \in 1..Len(sigs) : /\ sigs[i].provider \in ProviderIds
                             /\ Opinion(sigs[i], sigs[i].provider, c)
  /\ \A i, j \in 1..Len(sigs) : sigs[i].provider = sigs[j].provider => i = j

\* Some signals of one side.
Won(sigs, W, side) ==
  /\ side \in {"BUY", "SELL"}
  /\ W \in SUBSET DOMAIN sigs /\ W # {} /\ \A i \in W : sigs[i].side = side

\* Any choice of places is finite, and what is read there has its type.
LEMMA HeardPlaces ==
  ASSUME NEW sigs, NEW c, Heard(sigs, c)
  PROVE  /\ DOMAIN sigs = 1..Len(sigs) /\ Len(sigs) \in Nat
         /\ \A W \in SUBSET DOMAIN sigs : IsFiniteSet(W) /\ Cardinality(W) \in Nat
         /\ \A i \in DOMAIN sigs : /\ sigs[i].confidence \in Int /\ sigs[i].weight \in Nat
                                   /\ sigs[i].side \in Sides /\ sigs[i].provider \in ProviderIds
                                   /\ sigs[i].weight = Params[sigs[i].provider].weight
<1>1. PICK n \in Nat : n = Len(sigs)
  BY DEF Heard
<1>2. sigs = [i \in 1..n |-> sigs[i]]
  BY <1>1 DEF Heard
<1>3. DOMAIN sigs = 1..n
  BY <1>2
<1>4. IsFiniteSet(1..n)
  BY FS_Interval
<1>5. \A W \in SUBSET (1..n) : IsFiniteSet(W) /\ Cardinality(W) \in Nat
  BY <1>4, FS_Subset, FS_CardinalityType
<1>6. ASSUME NEW i \in 1..n
      PROVE  /\ sigs[i].confidence \in Int /\ sigs[i].weight \in Nat
             /\ sigs[i].side \in Sides /\ sigs[i].provider \in ProviderIds
             /\ sigs[i].weight = Params[sigs[i].provider].weight
  <2>1. sigs[i].provider \in ProviderIds /\ Opinion(sigs[i], sigs[i].provider, c)
    BY <1>1 DEF Heard
  <2>2. Params[sigs[i].provider].weight \in Nat
    BY <2>1, ProvidersAssumption
  <2> QED
    BY <2>1, <2>2 DEF Opinion
<1> QED
  BY <1>1, <1>3, <1>5, <1>6

\* A winner there is that is as sure as all together (Aggregator._success).
LEMMA ConfidenceEarned ==
  ASSUME NEW sigs, NEW c, Heard(sigs, c), NEW W, NEW side, Won(sigs, W, side),
         NEW weighted \in BOOLEAN
  PROVE  /\ Confidence(sigs, W, weighted) \in Int
         /\ \E i \in W : Confidence(sigs, W, weighted) <= sigs[i].confidence
<1> DEFINE conf == [i \in W |-> sigs[i].confidence]
           weight == [i \in W |-> sigs[i].weight]
           m == Confidence(sigs, W, weighted)
<1>1. W \in SUBSET DOMAIN sigs /\ W # {} /\ IsFiniteSet(W)
  BY HeardPlaces DEF Won
<1>2. \A i \in W : sigs[i].confidence \in Nat
  <2> SUFFICES ASSUME NEW i \in W PROVE sigs[i].confidence \in Nat
    OBVIOUS
  <2>1. i \in 1..Len(sigs) /\ sigs[i].side # "HOLD"
    BY HeardPlaces DEF Won
  <2>2. Opinion(sigs[i], sigs[i].provider, c)
    BY <2>1 DEF Heard
  <2> QED
    BY <2>1, <2>2 DEF Opinion
<1>3. \A i \in W : sigs[i].weight \in Nat
  BY <1>1, HeardPlaces
<1>4. conf \in [W -> Int] /\ weight \in [W -> Nat]
  BY <1>2, <1>3
<1>5. \A i \in W : conf[i] = sigs[i].confidence
  OBVIOUS
<1>6. m = CASE ~weighted -> Mean(conf)
            [] weighted /\ SumFunction(weight) = 0 -> 0
            [] OTHER -> WeightedMean(conf, weight)
  BY DEF Confidence
<1> HIDE DEF conf, weight, m
<1>7. ASSUME m \in Int, \A b \in Int : Within(m, conf, W, b)
      PROVE  \E i \in W : m <= sigs[i].confidence
  <2> SUFFICES ASSUME \A i \in W : ~(m <= conf[i]) PROVE FALSE
    BY <1>5
  <2>1. \A i \in W : conf[i] <= m - 1
    BY <1>4, <1>7
  <2>2. Within(m, conf, W, m - 1)
    BY <1>7
  <2>3. m <= m - 1
    BY <2>1, <2>2 DEF Within
  <2> QED
    BY <1>7, <2>3
<1>8. CASE ~weighted
  <2>1. m = Mean(conf)
    BY <1>6, <1>8
  <2>2. \A b \in Int : Mean(conf) \in Int /\ Within(Mean(conf), conf, W, b)
    BY <1>1, <1>4, MeanWithin
  <2>3. m \in Int /\ \A b \in Int : Within(m, conf, W, b)
    BY <2>1, <2>2
  <2> QED
    BY <1>7, <2>3 DEF m
<1>9. CASE weighted /\ SumFunction(weight) = 0
  <2>1. m = 0
    BY <1>6, <1>9
  <2>2. PICK i \in W : TRUE
    BY <1>1
  <2>3. 0 <= sigs[i].confidence
    BY <1>2
  <2> QED
    BY <2>1, <2>3 DEF m
<1>10. CASE weighted /\ SumFunction(weight) # 0
  <2>1. m = WeightedMean(conf, weight)
    BY <1>6, <1>10
  <2>2. \A b \in Int : /\ WeightedMean(conf, weight) \in Int
                       /\ Within(WeightedMean(conf, weight), conf, W, b)
    BY <1>1, <1>4, <1>10, WeightedMeanWithin
  <2>3. m \in Int /\ \A b \in Int : Within(m, conf, W, b)
    BY <2>1, <2>2
  <2> QED
    BY <1>7, <2>3 DEF m
<1> QED
  BY <1>8, <1>9, <1>10

-----------------------------------------------------------------------------
(* Levels merged from both sides of a price stay there.                    *)

\* The weights of the winners.
Weighs(weights, sigs, W) ==
  /\ DOMAIN weights = Names(sigs, W)
  /\ \A p \in DOMAIN weights : weights[p] \in Nat

\* The winners' names give back the winners: no provider is heard twice.
LEMMA LevelledWon ==
  ASSUME NEW sigs, NEW c, Heard(sigs, c), NEW W, NEW side, Won(sigs, W, side),
         NEW weights, Weighs(weights, sigs, W)
  PROVE  /\ \A i \in DOMAIN sigs : sigs[i].provider \in DOMAIN weights <=> i \in W
         /\ Levelled(sigs, weights) \in SUBSET W
         /\ IsFiniteSet(Levelled(sigs, weights))
         /\ \A i \in Levelled(sigs, weights) :
              /\ Around(side, c.price, sigs[i].levels)
              /\ weights[sigs[i].provider] \in Nat
<1>1. W \in SUBSET DOMAIN sigs /\ DOMAIN sigs = 1..Len(sigs)
  BY HeardPlaces DEF Won
<1>2. \A i, j \in DOMAIN sigs : sigs[i].provider = sigs[j].provider => i = j
  BY <1>1 DEF Heard
<1>3. \A i \in DOMAIN sigs : sigs[i].provider \in DOMAIN weights <=> i \in W
  BY <1>1, <1>2 DEF Weighs, Names
<1>4. Levelled(sigs, weights) \in SUBSET W
  BY <1>3 DEF Levelled
<1>5. IsFiniteSet(W)
  BY <1>1, HeardPlaces
<1>6. IsFiniteSet(Levelled(sigs, weights))
  BY <1>4, <1>5, FS_Subset
<1>7. ASSUME NEW i \in Levelled(sigs, weights)
      PROVE  Around(side, c.price, sigs[i].levels) /\ weights[sigs[i].provider] \in Nat
  <2>1. i \in 1..Len(sigs) /\ i \in W /\ sigs[i].levels # <<>>
    BY <1>1, <1>4, <1>7 DEF Levelled
  <2>2. Opinion(sigs[i], sigs[i].provider, c) /\ sigs[i].side = side
    BY <2>1 DEF Heard, Won
  <2>3. sigs[i].provider \in DOMAIN weights
    BY <1>1, <1>3, <2>1
  <2> QED
    BY <2>1, <2>2, <2>3 DEF Opinion, Weighs
<1> QED
  BY <1>3, <1>4, <1>6, <1>7

\* A mean of levels is no further from the price than they are.
LEMMA MergedWithin ==
  ASSUME NEW sigs, NEW L, IsFiniteSet(L), L # {}, NEW k, NEW weights, NEW price \in Int,
         \A i \in L : sigs[i].levels[k] \in Int /\ weights[sigs[i].provider] \in Nat
  PROVE  /\ Merged(sigs, L, weights, k) \in Int
         /\ (\A i \in L : sigs[i].levels[k] <= price) => Merged(sigs, L, weights, k) <= price
         /\ (\A i \in L : sigs[i].levels[k] >= price) => Merged(sigs, L, weights, k) >= price
<1> DEFINE level == [i \in L |-> sigs[i].levels[k]]
           weight == [i \in L |-> weights[sigs[i].provider]]
           m == Merged(sigs, L, weights, k)
<1>1. level \in [L -> Int] /\ weight \in [L -> Nat] /\ \A i \in L : level[i] = sigs[i].levels[k]
  OBVIOUS
<1>2. m = IF SumFunction(weight) <= 0 THEN Mean(level) ELSE WeightedMean(level, weight)
  BY DEF Merged
<1> HIDE DEF level, weight, m
<1>3. m \in Int /\ Within(m, level, L, price)
  <2>1. CASE SumFunction(weight) <= 0
    BY <1>1, <1>2, <2>1, MeanWithin
  <2>2. CASE ~(SumFunction(weight) <= 0)
    <3>1. SumFunction(weight) # 0
      BY <2>2
    <3>2. WeightedMean(level, weight) \in Int /\ Within(WeightedMean(level, weight), level, L, price)
      BY <1>1, <3>1, WeightedMeanWithin
    <3> QED
      BY <1>2, <2>2, <3>2
  <2> QED
    BY <2>1, <2>2
<1>4. /\ (\A i \in L : sigs[i].levels[k] <= price) => m <= price
      /\ (\A i \in L : sigs[i].levels[k] >= price) => m >= price
  BY <1>1, <1>3 DEF Within
<1> QED
  BY <1>3, <1>4 DEF m

\* (FinalSignalBuilder._merge_levels)
LEMMA MergeLevelsAround ==
  ASSUME NEW sigs, NEW c, Usable(c), Heard(sigs, c), NEW W, NEW side, Won(sigs, W, side),
         NEW weights, Weighs(weights, sigs, W)
  PROVE  Around(side, c.price, MergeLevels(side, sigs, c.price, weights))
<1> DEFINE L == Levelled(sigs, weights)
           price == c.price
           one == Merged(sigs, L, weights, 1)
           two == Merged(sigs, L, weights, 2)
           levels == MergeLevels(side, sigs, c.price, weights)
<1>1. price \in Nat /\ side \in {"BUY", "SELL"}
  BY DEF Usable, Won
<1>2. IsFiniteSet(L) /\ \A i \in L : /\ Around(side, price, sigs[i].levels)
                                     /\ weights[sigs[i].provider] \in Nat
  BY LevelledWon
<1>3. levels = IF L # {} THEN <<one, two>>
               ELSE <<price - Toward(side) * (price \div 100),
                      price + Toward(side) * ((2 * price) \div 100)>>
  BY DEF MergeLevels
<1> HIDE DEF L, price, one, two, levels
<1>4. CASE L # {}
  <2>1. \A i \in L : /\ sigs[i].levels[1] \in Int /\ sigs[i].levels[2] \in Int
                     /\ Toward(side) * (price - sigs[i].levels[1]) >= 0
                     /\ Toward(side) * (sigs[i].levels[2] - price) >= 0
    BY <1>2 DEF Around
  <2>2. /\ one \in Int
        /\ (\A i \in L : sigs[i].levels[1] <= price) => one <= price
        /\ (\A i \in L : sigs[i].levels[1] >= price) => one >= price
    BY <1>1, <1>2, <1>4, <2>1, MergedWithin DEF one
  <2>3. /\ two \in Int
        /\ (\A i \in L : sigs[i].levels[2] <= price) => two <= price
        /\ (\A i \in L : sigs[i].levels[2] >= price) => two >= price
    BY <1>1, <1>2, <1>4, <2>1, MergedWithin DEF two
  <2>4. levels[1] = one /\ levels[2] = two
    BY <1>3, <1>4
  <2>5. ASSUME side = "BUY" PROVE Around(side, price, levels)
    <3>1. Toward(side) = 1
      BY <2>5 DEF Toward
    <3>2. \A i \in L : sigs[i].levels[1] <= price
      BY <1>1, <2>1, <3>1
    <3>3. \A i \in L : sigs[i].levels[2] >= price
      BY <1>1, <2>1, <3>1
    <3> QED
      BY <1>1, <2>2, <2>3, <2>4, <3>1, <3>2, <3>3 DEF Around
  <2>6. ASSUME side = "SELL" PROVE Around(side, price, levels)
    <3>1. Toward(side) = -1
      BY <2>6 DEF Toward
    <3>2. \A i \in L : sigs[i].levels[1] >= price
      BY <1>1, <2>1, <3>1
    <3>3. \A i \in L : sigs[i].levels[2] <= price
      BY <1>1, <2>1, <3>1
    <3> QED
      BY <1>1, <2>2, <2>3, <2>4, <3>1, <3>2, <3>3 DEF Around
  <2>7. Around(side, price, levels)
    BY <1>1, <2>5, <2>6
  <2> QED
    BY <2>7 DEF price, levels
<1>5. CASE L = {}
  <2>1. PICK a, b \in Nat : a = price \div 100 /\ b = (2 * price) \div 100
    BY <1>1
  <2>2. levels[1] = price - Toward(side) * a /\ levels[2] = price + Toward(side) * b
    BY <1>3, <1>5, <2>1
  <2>3. Toward(side) \in {1, -1}
    BY DEF Toward
  <2>4. Around(side, price, levels)
    <3>1. CASE Toward(side) = 1
      BY <1>1, <2>2, <3>1 DEF Around
    <3>2. CASE Toward(side) = -1
      BY <1>1, <2>2, <3>2 DEF Around
    <3> QED
      BY <2>3, <3>1, <3>2
  <2> QED
    BY <2>4 DEF price, levels
<1> QED
  BY <1>4, <1>5

-----------------------------------------------------------------------------
(* What the aggregator makes of the signals.                               *)

\* Carried, of the signals at hand.
Carries(e, sigs, side) ==
  /\ Cardinality(Side(sigs, side)) >= e.minAgree
  /\ Cardinality(Side(sigs, side)) > Cardinality(Side(sigs, Opposite(side)))
  /\ e.method = "unanimous" => Side(sigs, Opposite(side)) = {}

\* A success is that of the side that carries.
Wins(e, sigs, agg) ==
  /\ agg.side \in {"BUY", "SELL"} /\ Carries(e, sigs, agg.side)
  /\ \E weighted \in BOOLEAN, losers \in SUBSET DOMAIN sigs :
       agg = Success(sigs, Side(sigs, agg.side), losers, agg.side, weighted)

\* Active signals are those of one side and those of the other.
LEMMA SidesCounted ==
  ASSUME NEW sigs, NEW c, Heard(sigs, c)
  PROVE  /\ \A side : /\ Side(sigs, side) \in SUBSET DOMAIN sigs
                      /\ IsFiniteSet(Side(sigs, side))
                      /\ Cardinality(Side(sigs, side)) \in Nat
                      /\ Side(sigs, side) = {} <=> Cardinality(Side(sigs, side)) = 0
         /\ Active(sigs) = Side(sigs, "BUY") \cup Side(sigs, "SELL")
         /\ IsFiniteSet(Active(sigs))
<1>1. \A side : Side(sigs, side) \in SUBSET DOMAIN sigs
  BY DEF Side
<1>2. \A side : IsFiniteSet(Side(sigs, side)) /\ Cardinality(Side(sigs, side)) \in Nat
  BY <1>1, HeardPlaces
<1>3. \A side : Side(sigs, side) = {} <=> Cardinality(Side(sigs, side)) = 0
  BY <1>2, FS_EmptySet
<1>4. Active(sigs) = Side(sigs, "BUY") \cup Side(sigs, "SELL")
  BY HeardPlaces DEF Active, Side, Sides
<1>5. Active(sigs) \in SUBSET DOMAIN sigs
  BY DEF Active
<1> QED
  BY <1>1, <1>2, <1>3, <1>4, <1>5, HeardPlaces

\* A success for a side that carries is a win.
LEMMA SuccessWins ==
  ASSUME NEW sigs, NEW e, NEW side \in {"BUY", "SELL"}, Carries(e, sigs, side),
         NEW W, W = Side(sigs, side), NEW losers \in SUBSET DOMAIN sigs, NEW weighted \in BOOLEAN
  PROVE  /\ Success(sigs, W, losers, side, weighted).ok
         /\ Wins(e, sigs, Success(sigs, W, losers, side, weighted))
<1> DEFINE agg == Success(sigs, W, losers, side, weighted)
<1>1. agg.ok /\ agg.side = side
  BY DEF Success
<1> HIDE DEF agg
<1>2. agg = Success(sigs, Side(sigs, agg.side), losers, agg.side, weighted)
  BY <1>1 DEF agg
<1> QED
  BY <1>1, <1>2 DEF Wins, agg

\* Decided(e, sigs, agg): agg succeeds for the side that carries, or none does.
Decided(e, sigs, agg) ==
  IF agg.ok THEN Wins(e, sigs, agg)
  ELSE ~Carries(e, sigs, "BUY") /\ ~Carries(e, sigs, "SELL")

\* A failure is right when no side carries,
LEMMA FailureDecided ==
  ASSUME NEW e, NEW sigs, NEW reason, ~Carries(e, sigs, "BUY"), ~Carries(e, sigs, "SELL")
  PROVE  Decided(e, sigs, Failure(reason))
<1>1. ~Failure(reason).ok
  BY DEF Failure
<1> QED
  BY <1>1 DEF Decided

\* and a success when it is that of a side that does.
LEMMA SuccessDecided ==
  ASSUME NEW sigs, NEW e, NEW side \in {"BUY", "SELL"}, Carries(e, sigs, side),
         NEW W, W = Side(sigs, side), NEW losers \in SUBSET DOMAIN sigs, NEW weighted \in BOOLEAN
  PROVE  Decided(e, sigs, Success(sigs, W, losers, side, weighted))
BY SuccessWins DEF Decided

\* (Aggregator._combine_unanimous)
LEMMA UnanimousDecided ==
  ASSUME NEW sigs, NEW c, Heard(sigs, c), NEW e, e.minAgree \in Nat \ {0}, e.method = "unanimous"
  PROVE  Decided(e, sigs, CombineUnanimous(e, sigs))
<1> DEFINE active == Active(sigs)
           sides  == {sigs[i].side : i \in active}
           buys   == Side(sigs, "BUY")
           sells  == Side(sigs, "SELL")
           agg    == CombineUnanimous(e, sigs)
<1>1. agg = IF active = {} THEN Failure("no_active_signals")
            ELSE IF Cardinality(sides) # 1 THEN Failure("provider_conflict")
            ELSE IF Cardinality(active) < e.minAgree THEN Failure("insufficient_consensus")
            ELSE Success(sigs, active, {}, CHOOSE side \in sides : TRUE, TRUE)
  BY DEF CombineUnanimous
<1>2. /\ active = buys \cup sells /\ IsFiniteSet(active)
      /\ Cardinality(buys) \in Nat /\ Cardinality(sells) \in Nat
      /\ buys = {} <=> Cardinality(buys) = 0
      /\ sells = {} <=> Cardinality(sells) = 0
  BY SidesCounted
<1>3. sides = (IF buys # {} THEN {"BUY"} ELSE {}) \cup (IF sells # {} THEN {"SELL"} ELSE {})
  BY <1>2 DEF Side
<1>4. /\ Carries(e, sigs, "BUY") <=> Cardinality(buys) >= e.minAgree /\ sells = {}
      /\ Carries(e, sigs, "SELL") <=> Cardinality(sells) >= e.minAgree /\ buys = {}
  BY <1>2 DEF Carries, Opposite
<1> HIDE DEF active, sides, buys, sells, agg
<1>5. CASE active = {}
  <2>1. Cardinality(buys) = 0 /\ Cardinality(sells) = 0
    BY <1>2, <1>5
  <2>2. ~Carries(e, sigs, "BUY") /\ ~Carries(e, sigs, "SELL")
    BY <1>4, <2>1
  <2> QED
    BY <1>1, <1>5, <2>2, FailureDecided DEF agg
<1>6. CASE active # {} /\ Cardinality(sides) # 1
  <2>1. \A x : Cardinality({x}) = 1
    BY FS_Singleton
  <2>2. buys # {} /\ sells # {}
    BY <1>2, <1>3, <1>6, <2>1
  <2>3. ~Carries(e, sigs, "BUY") /\ ~Carries(e, sigs, "SELL")
    BY <1>4, <2>2
  <2> QED
    BY <1>1, <1>6, <2>3, FailureDecided DEF agg
<1>7. CASE active # {} /\ Cardinality(sides) = 1
  <2>1. buys = {} \/ sells = {}
    <3> SUFFICES ASSUME buys # {}, sells # {} PROVE FALSE
      OBVIOUS
    <3>1. sides = {"BUY", "SELL"}
      BY <1>3
    <3>2. sides = {"BUY"} \cup {"SELL"}
      BY <3>1
    <3>3. IsFiniteSet({"BUY"})
      BY FS_Singleton
    <3>4. IsFiniteSet({"BUY"} \cup {"SELL"})
      BY <3>3, FS_AddElement
    <3>5. PICK x : sides = {x}
      BY <1>7, <3>2, <3>4, FS_Singleton
    <3>6. "BUY" = x /\ "SELL" = x
      BY <3>1, <3>5
    <3> QED
      BY <3>6
  <2>2. CASE Cardinality(active) < e.minAgree
    <3>1. active = buys \/ active = sells
      BY <1>2, <2>1
    <3>2. ~Carries(e, sigs, "BUY") /\ ~Carries(e, sigs, "SELL")
      BY <1>2, <1>4, <2>1, <2>2, <3>1
    <3> QED
      BY <1>1, <1>7, <2>2, <3>2, FailureDecided DEF agg
  <2>3. ASSUME Cardinality(active) >= e.minAgree, NEW side \in {"BUY", "SELL"},
               active = Side(sigs, side), sides = {side}
        PROVE  Decided(e, sigs, agg)
    <3>1. (CHOOSE s \in sides : TRUE) = side
      BY <2>3
    <3>2. ~(Cardinality(active) < e.minAgree)
      BY <1>2, <2>3, FS_CardinalityType
    <3>3. agg = Success(sigs, active, {}, side, TRUE)
      BY <1>1, <1>7, <3>1, <3>2
    <3>4. Carries(e, sigs, side)
      <4>1. CASE side = "BUY"
        BY <1>2, <1>3, <1>4, <2>3, <4>1 DEF buys, sells
      <4>2. CASE side = "SELL"
        BY <1>2, <1>3, <1>4, <2>3, <4>2 DEF buys, sells
      <4> QED
        BY <4>1, <4>2
    <3>5. Decided(e, sigs, Success(sigs, active, {}, side, TRUE))
      BY <2>3, <3>4, SuccessDecided
    <3> QED
      BY <3>3, <3>5
  <2>4. CASE ~(Cardinality(active) < e.minAgree)
    <3>1. Cardinality(active) >= e.minAgree
      BY <1>2, <2>4, FS_CardinalityType
    <3>2. CASE sells = {}
      <4>1. active = buys /\ sides = {"BUY"}
        BY <1>2, <1>3, <1>7, <3>2
      <4> QED
        BY <2>3, <3>1, <4>1 DEF agg, buys
    <3>3. CASE buys = {}
      <4>1. active = sells /\ sides = {"SELL"}
        BY <1>2, <1>3, <1>7, <3>3
      <4> QED
        BY <2>3, <3>1, <4>1 DEF agg, sells
    <3> QED
      BY <2>1, <3>2, <3>3
  <2> QED
    BY <2>2, <2>4
<1> QED
  BY <1>5, <1>6, <1>7

\* (Aggregator._combine_majority)
LEMMA MajorityDecided ==
  ASSUME NEW sigs, NEW c, Heard(sigs, c), NEW e, e.minAgree \in Nat \ {0}, e.method # "unanimous",
         NEW weighted \in BOOLEAN
  PROVE  Decided(e, sigs, CombineMajority(e, sigs, weighted))
<1> DEFINE buys   == Side(sigs, "BUY")
           sells  == Side(sigs, "SELL")
           agg    == CombineMajority(e, sigs, weighted)
<1>1. agg = IF Active(sigs) = {} THEN Failure("no_active_signals")
            ELSE IF Cardinality(buys) >= e.minAgree /\ Cardinality(buys) > Cardinality(sells)
                 THEN Success(sigs, buys, sells, "BUY", weighted)
            ELSE IF Cardinality(sells) >= e.minAgree /\ Cardinality(sells) > Cardinality(buys)
                 THEN Success(sigs, sells, buys, "SELL", weighted)
            ELSE IF buys # {} /\ sells # {} THEN Failure("provider_conflict")
            ELSE Failure("insufficient_consensus")
  BY DEF CombineMajority
<1>2. /\ Active(sigs) = buys \cup sells
      /\ Cardinality(buys) \in Nat /\ Cardinality(sells) \in Nat
      /\ buys = {} <=> Cardinality(buys) = 0
      /\ sells = {} <=> Cardinality(sells) = 0
      /\ buys \in SUBSET DOMAIN sigs /\ sells \in SUBSET DOMAIN sigs
  BY SidesCounted
<1>3. /\ Carries(e, sigs, "BUY") <=> /\ Cardinality(buys) >= e.minAgree
                                     /\ Cardinality(buys) > Cardinality(sells)
      /\ Carries(e, sigs, "SELL") <=> /\ Cardinality(sells) >= e.minAgree
                                      /\ Cardinality(sells) > Cardinality(buys)
  BY DEF Carries, Opposite
<1>4. CASE Carries(e, sigs, "BUY")
  <2>1. Decided(e, sigs, Success(sigs, buys, sells, "BUY", weighted))
    BY <1>2, <1>4, SuccessDecided
  <2>2. Active(sigs) # {}
    BY <1>2, <1>3, <1>4
  <2> HIDE DEF buys, sells, agg
  <2>3. agg = Success(sigs, buys, sells, "BUY", weighted)
    BY <1>1, <1>3, <1>4, <2>2
  <2> QED
    BY <2>1, <2>3 DEF agg
<1>5. CASE ~Carries(e, sigs, "BUY") /\ Carries(e, sigs, "SELL")
  <2>1. Decided(e, sigs, Success(sigs, sells, buys, "SELL", weighted))
    BY <1>2, <1>5, SuccessDecided
  <2>2. Active(sigs) # {}
    BY <1>2, <1>3, <1>5
  <2> HIDE DEF buys, sells, agg
  <2>3. agg = Success(sigs, sells, buys, "SELL", weighted)
    BY <1>1, <1>3, <1>5, <2>2
  <2> QED
    BY <2>1, <2>3 DEF agg
<1>6. CASE ~Carries(e, sigs, "BUY") /\ ~Carries(e, sigs, "SELL")
  <2> HIDE DEF buys, sells, agg
  <2>1. \E reason : agg = Failure(reason)
    BY <1>1, <1>3, <1>6
  <2> QED
    BY <1>6, <2>1, FailureDecided DEF agg
<1> QED
  BY <1>4, <1>5, <1>6

\* (Aggregator.combine)
LEMMA CombineDecided ==
  ASSUME NEW sigs, NEW c, Heard(sigs, c), NEW e, e.minAgree \in Nat \ {0}
  PROVE  Decided(e, sigs, Combine(e, sigs))
<1>1. CASE e.method = "unanimous"
  BY <1>1, UnanimousDecided DEF Combine
<1>2. CASE e.method # "unanimous"
  <2>1. (e.method = "weighted_majority") \in BOOLEAN
    OBVIOUS
  <2> QED
    BY <1>2, <2>1, MajorityDecided DEF Combine
<1> QED
  BY <1>1, <1>2

\* What a win gives the builder and the risk manager.
LEMMA WinnersWeigh ==
  ASSUME NEW sigs, NEW c, Heard(sigs, c), NEW e, e.minAgree \in Nat \ {0},
         NEW agg, Wins(e, sigs, agg)
  PROVE  \E W : /\ W = Side(sigs, agg.side) /\ Won(sigs, W, agg.side)
                /\ Weighs(agg.weights, sigs, W)
                /\ agg.confidence \in Int
                /\ \E i \in W : agg.confidence <= sigs[i].confidence
<1>1. PICK weighted \in BOOLEAN, losers \in SUBSET DOMAIN sigs :
        agg = Success(sigs, Side(sigs, agg.side), losers, agg.side, weighted)
  BY DEF Wins
<1>2. PICK W : W = Side(sigs, agg.side)
  OBVIOUS
<1>3. agg.side \in {"BUY", "SELL"} /\ Carries(e, sigs, agg.side)
  BY DEF Wins
<1>4. W \in SUBSET DOMAIN sigs /\ Cardinality(W) \in Nat /\ (W = {} <=> Cardinality(W) = 0)
  BY <1>2, SidesCounted
<1>5. W # {}
  BY <1>2, <1>3, <1>4 DEF Carries
<1>6. Won(sigs, W, agg.side)
  BY <1>2, <1>3, <1>4, <1>5 DEF Won, Side
<1>7. agg.weights = [p \in Names(sigs, W) |-> IF weighted THEN Params[p].weight ELSE 100]
      /\ agg.confidence = Confidence(sigs, W, weighted)
  BY <1>1, <1>2 DEF Success
<1>8. Names(sigs, W) \subseteq ProviderIds
  BY <1>4, HeardPlaces DEF Names
<1>9. Weighs(agg.weights, sigs, W)
  <2>1. \A p \in Names(sigs, W) : Params[p].weight \in Nat
    BY <1>8, ProvidersAssumption
  <2> QED
    BY <1>7, <2>1 DEF Weighs
<1>10. /\ Confidence(sigs, W, weighted) \in Int
       /\ \E i \in W : Confidence(sigs, W, weighted) <= sigs[i].confidence
  BY <1>6, ConfidenceEarned
<1>11. agg.confidence \in Int /\ \E i \in W : agg.confidence <= sigs[i].confidence
  BY <1>7, <1>10
<1> QED
  BY <1>2, <1>6, <1>9, <1>11

-----------------------------------------------------------------------------
(* What process says of a bar.                                             *)

\* The conditions under which process approves, and the only decision it does not
\* call an aggregator's failure though the aggregator failed: the filter's.
LEMMA ProcessApproves ==
  ASSUME NEW e, NEW sigs, NEW c, NEW snap, Process(e, sigs, c, snap).value = "approved"
  PROVE  /\ Combine(e, sigs).ok
         /\ Failed(RiskChecks(e, Combine(e, sigs), snap)) = {}
         /\ RewardCheck(e, BuildSignal(e, Combine(e, sigs), sigs, c)).passed
         /\ Process(e, sigs, c, snap).signal = BuildSignal(e, Combine(e, sigs), sigs, c)
<1> DEFINE agg    == Combine(e, sigs)
           checks == RiskChecks(e, agg, snap)
           failed == Failed(checks)
           final  == BuildSignal(e, agg, sigs, c)
           reward == RewardCheck(e, final)
           filter == FilterCheck(e, c)
           d      == Process(e, sigs, c, snap)
<1>1. d = IF filter # "passed" THEN Rejected("market_filter", filter)
          ELSE IF ~agg.ok THEN Rejected("aggregator", agg.reason)
          ELSE IF failed # {} THEN Rejected("risk_manager", checks[FirstOf(failed)].name)
          ELSE IF ~reward.passed THEN Rejected("risk_manager", reward.name)
          ELSE Approved(final)
  BY DEF Process
<1>2. \A at, reason : Rejected(at, reason).value = "rejected"
  BY DEF Rejected
<1>3. Approved(final).signal = final
  BY DEF Approved
<1> HIDE DEF agg, checks, failed, final, reward, filter, d
<1>4. d.value = "approved"
  BY DEF d
<1>5. "approved" # "rejected"
  OBVIOUS
<1>6. filter = "passed" /\ agg.ok /\ failed = {} /\ reward.passed
  BY <1>1, <1>2, <1>4, <1>5
<1>7. d.signal = final
  BY <1>1, <1>3, <1>6
<1> QED
  BY <1>6, <1>7 DEF agg, checks, failed, final, reward, d

\* Past the filter, process blames the aggregator exactly when it failed.
LEMMA AggregatorRejects ==
  ASSUME NEW e, NEW sigs, NEW c, NEW snap, FilterCheck(e, c) = "passed"
  PROVE  /\ Process(e, sigs, c, snap).value = "rejected"
         /\ Process(e, sigs, c, snap).stage = "aggregator"
         <=> ~Combine(e, sigs).ok
<1> DEFINE agg    == Combine(e, sigs)
           checks == RiskChecks(e, agg, snap)
           failed == Failed(checks)
           final  == BuildSignal(e, agg, sigs, c)
           reward == RewardCheck(e, final)
           d      == Process(e, sigs, c, snap)
<1>1. d = IF ~agg.ok THEN Rejected("aggregator", agg.reason)
          ELSE IF failed # {} THEN Rejected("risk_manager", checks[FirstOf(failed)].name)
          ELSE IF ~reward.passed THEN Rejected("risk_manager", reward.name)
          ELSE Approved(final)
  BY DEF Process
<1>2. \A at, reason : /\ Rejected(at, reason).value = "rejected"
                      /\ Rejected(at, reason).stage = at
  BY DEF Rejected
<1>3. Approved(final).value = "approved"
  BY DEF Approved
<1> HIDE DEF agg, checks, failed, final, reward, d
<1>4. "approved" # "rejected" /\ "risk_manager" # "aggregator"
  OBVIOUS
<1>5. CASE ~agg.ok
  BY <1>1, <1>2, <1>5 DEF d, agg
<1>6. CASE agg.ok /\ failed # {}
  BY <1>1, <1>2, <1>4, <1>6 DEF d, agg
<1>7. CASE agg.ok /\ failed = {} /\ ~reward.passed
  BY <1>1, <1>2, <1>4, <1>7 DEF d, agg
<1>8. CASE agg.ok /\ failed = {} /\ reward.passed
  BY <1>1, <1>3, <1>4, <1>8 DEF d, agg
<1> QED
  BY <1>5, <1>6, <1>7, <1>8

\* (RiskManager.evaluate)
LEMMA SureEnough ==
  ASSUME NEW e, NEW agg, NEW snap, Failed(RiskChecks(e, agg, snap)) = {}
  PROVE  agg.confidence >= e.minConfidence
<1> DEFINE checks == RiskChecks(e, agg, snap)
<1>1. 5 \in DOMAIN checks /\ checks[5].passed = (agg.confidence >= e.minConfidence)
  BY DEF RiskChecks
<1> HIDE DEF checks
<1>2. checks[5].passed
  BY <1>1 DEF Failed, checks
<1> QED
  BY <1>1, <1>2

\* The ratio is rounded down and still reaches what is asked for.
LEMMA RewardReached ==
  ASSUME NEW price \in Int, NEW levels, levels[1] \in Int, levels[2] \in Int,
         NEW least \in Nat, RiskReward(price, levels) >= least
  PROVE  /\ 100 * Abs(levels[2] - price) >= least * Abs(price - levels[1])
         /\ least > 0 => levels[1] # price /\ levels[2] # price
<1>1. PICK risk : risk = Abs(price - levels[1])
  OBVIOUS
<1>2. PICK gain : gain = Abs(levels[2] - price)
  OBVIOUS
<1>3. risk \in Nat /\ gain \in Nat
  BY <1>1, <1>2 DEF Abs, Largest
<1>4. /\ levels[1] = price => risk = 0
      /\ levels[2] = price => gain = 0
  BY <1>1, <1>2 DEF Abs, Largest
<1>5. CASE risk = 0
  <2>1. RiskReward(price, levels) = 0
    BY <1>1, <1>5 DEF RiskReward
  <2>2. least = 0
    BY <2>1
  <2> QED
    BY <1>1, <1>2, <1>3, <1>5, <2>2
<1>6. CASE risk # 0
  <2>1. PICK q : q = (100 * gain) \div risk
    OBVIOUS
  <2>2. q >= least
    BY <1>1, <1>2, <1>6, <2>1 DEF RiskReward
  <2>3. q \in Int /\ risk * q <= 100 * gain
    BY <1>3, <1>6, <2>1
  <2>4. risk * q >= risk * least /\ risk * least = least * risk
    BY <1>3, <2>2, <2>3
  <2>5. 100 * gain >= least * risk
    BY <1>3, <2>3, <2>4
  <2>6. ASSUME least > 0 PROVE gain # 0
    <3>1. risk * least >= 1
      BY <1>3, <1>6, <2>6
    <3> QED
      BY <1>3, <2>5, <2>4, <3>1
  <2> QED
    BY <1>1, <1>2, <1>4, <1>6, <2>5, <2>6
<1> QED
  BY <1>5, <1>6

\* Bracketed, of an approved signal and the signals it was built from.
Brackets(e, sigs, s) ==
  LET w == {i \in DOMAIN sigs : sigs[i].provider \in s.contributing}
  IN  /\ Toward(s.side) * (s.entry - s.stop) >= 0
      /\ Toward(s.side) * (s.target - s.entry) >= 0
      /\ e.minRiskReward > 0 => s.stop # s.entry /\ s.target # s.entry
      /\ 100 * Abs(s.target - s.entry) >= e.minRiskReward * Abs(s.entry - s.stop)
      /\ s.confidence >= e.minConfidence
      /\ \E i \in w : s.confidence <= sigs[i].confidence
      /\ \A i \in w : sigs[i].side = s.side

\* (FinalSignalBuilder.build, RiskManager.finalize_verdict)
LEMMA ApprovedBrackets ==
  ASSUME NEW e, e.minAgree \in Nat \ {0}, e.minRiskReward \in Nat,
         NEW c, Usable(c), NEW sigs, Heard(sigs, c), NEW snap,
         Process(e, sigs, c, snap).value = "approved"
  PROVE  /\ Process(e, sigs, c, snap).signal.side \in {"BUY", "SELL"}
         /\ Carries(e, sigs, Process(e, sigs, c, snap).signal.side)
         /\ Brackets(e, sigs, Process(e, sigs, c, snap).signal)
<1>1. PICK agg : agg = Combine(e, sigs)
  OBVIOUS
<1>2. PICK s : s = BuildSignal(e, agg, sigs, c)
  OBVIOUS
<1>3. /\ agg.ok /\ Failed(RiskChecks(e, agg, snap)) = {}
      /\ RewardCheck(e, s).passed /\ Process(e, sigs, c, snap).signal = s
  BY <1>1, <1>2, ProcessApproves
<1>4. Decided(e, sigs, agg)
  BY <1>1, CombineDecided
<1>5. Wins(e, sigs, agg)
  BY <1>3, <1>4 DEF Decided
<1>6. agg.side \in {"BUY", "SELL"} /\ Carries(e, sigs, agg.side)
  BY <1>5 DEF Wins
<1>7. PICK W : /\ W = Side(sigs, agg.side) /\ Won(sigs, W, agg.side)
               /\ Weighs(agg.weights, sigs, W)
               /\ agg.confidence \in Int
               /\ \E i \in W : agg.confidence <= sigs[i].confidence
  BY <1>5, WinnersWeigh
<1>8. \A i \in DOMAIN sigs : sigs[i].provider \in DOMAIN agg.weights <=> i \in W
  BY <1>7, LevelledWon
<1>9. PICK levels : levels = MergeLevels(agg.side, sigs, c.price, agg.weights)
  OBVIOUS
<1>10. Around(agg.side, c.price, levels)
  BY <1>7, <1>9, MergeLevelsAround
<1>11. /\ s.side = agg.side /\ s.entry = c.price /\ s.stop = levels[1] /\ s.target = levels[2]
       /\ s.confidence = agg.confidence /\ s.riskReward = RiskReward(c.price, levels)
       /\ s.contributing = DOMAIN agg.weights
  BY <1>2, <1>9 DEF BuildSignal
<1>12. s.confidence >= e.minConfidence
  BY <1>3, <1>11, SureEnough
<1>13. RiskReward(c.price, levels) >= e.minRiskReward
  BY <1>3, <1>11 DEF RewardCheck
<1>14. /\ 100 * Abs(s.target - s.entry) >= e.minRiskReward * Abs(s.entry - s.stop)
       /\ e.minRiskReward > 0 => s.stop # s.entry /\ s.target # s.entry
  BY <1>10, <1>11, <1>13, RewardReached DEF Around, Usable
<1>15. PICK w : w = {i \in DOMAIN sigs : sigs[i].provider \in s.contributing}
  OBVIOUS
<1>16. w = W
  BY <1>7, <1>8, <1>11, <1>15 DEF Won
<1>17. \E i \in w : s.confidence <= sigs[i].confidence
  BY <1>7, <1>11, <1>16
<1>18. \A i \in w : sigs[i].side = s.side
  BY <1>7, <1>11, <1>16 DEF Won
<1>19. /\ Toward(s.side) * (s.entry - s.stop) >= 0
       /\ Toward(s.side) * (s.target - s.entry) >= 0
  BY <1>10, <1>11 DEF Around
<1>20. Brackets(e, sigs, s)
  BY <1>12, <1>14, <1>15, <1>17, <1>18, <1>19 DEF Brackets
<1> QED
  BY <1>3, <1>6, <1>11, <1>20

\* The aggregator rejects a bar exactly when no side carries.
LEMMA NoSideCarries ==
  ASSUME NEW e, e.minAgree \in Nat \ {0}, NEW c, FilterCheck(e, c) = "passed",
         NEW sigs, Heard(sigs, c), NEW snap
  PROVE  /\ Process(e, sigs, c, snap).value = "rejected"
         /\ Process(e, sigs, c, snap).stage = "aggregator"
         <=> ~(Carries(e, sigs, "BUY") \/ Carries(e, sigs, "SELL"))
<1>1. PICK agg : agg = Combine(e, sigs)
  OBVIOUS
<1>2. Decided(e, sigs, agg)
  BY <1>1, CombineDecided
<1>3. ~agg.ok <=> ~(Carries(e, sigs, "BUY") \/ Carries(e, sigs, "SELL"))
  BY <1>2 DEF Decided, Wins
<1> QED
  BY <1>1, <1>3, AggregatorRejects

-----------------------------------------------------------------------------
(* The order of the signals.                                               *)

\* other is sigs in another order: its place x holds what place h[x] of sigs does.
Shuffled(sigs, other, h) ==
  /\ Len(other) = Len(sigs) /\ DOMAIN other = 1..Len(other)
  /\ h \in Bijection(DOMAIN other, DOMAIN sigs)
  /\ \A x \in DOMAIN other : other[x] = sigs[h[x]]

\* The places V of other hold the signals of the places W of sigs.
Moves(sigs, other, h, V, W) ==
  /\ V \in SUBSET DOMAIN other /\ W \in SUBSET DOMAIN sigs
  /\ IsFiniteSet(V) /\ IsFiniteSet(W)
  /\ [x \in V |-> h[x]] \in Bijection(V, W)
  /\ \A x \in V : h[x] \in W /\ other[x] = sigs[h[x]]
  /\ \A i \in W : \E x \in V : h[x] = i

\* Whatever places are chosen, the order only moves them.
LEMMA PlacesMove ==
  ASSUME NEW sigs, NEW c, Heard(sigs, c), NEW other, NEW h, Shuffled(sigs, other, h),
         NEW W \in SUBSET DOMAIN sigs, NEW V, V = {x \in DOMAIN other : h[x] \in W}
  PROVE  Moves(sigs, other, h, V, W)
<1>1. /\ h \in [DOMAIN other -> DOMAIN sigs]
      /\ \A x, y \in DOMAIN other : h[x] = h[y] => x = y
      /\ \A i \in DOMAIN sigs : \E x \in DOMAIN other : h[x] = i
      /\ \A x \in DOMAIN other : other[x] = sigs[h[x]]
  BY DEF Shuffled, Bijection, Injection, Surjection, IsInjective
<1>2. V \in SUBSET DOMAIN other
  OBVIOUS
<1>3. DOMAIN other = 1..Len(sigs) /\ Len(sigs) \in Nat /\ DOMAIN sigs = 1..Len(sigs)
  BY HeardPlaces DEF Shuffled
<1>4. IsFiniteSet(V) /\ IsFiniteSet(W)
  <2>1. IsFiniteSet(1..Len(sigs))
    BY <1>3, FS_Interval
  <2> QED
    BY <1>2, <1>3, <2>1, FS_Subset
<1>5. \A x \in V : h[x] \in W /\ other[x] = sigs[h[x]]
  BY <1>1, <1>2
<1>6. \A i \in W : \E x \in V : h[x] = i
  BY <1>1
<1>7. [x \in V |-> h[x]] \in Bijection(V, W)
  <2> DEFINE k == [x \in V |-> h[x]]
  <2>1. k \in [V -> W]
    BY <1>5
  <2>2. \A x, y \in V : k[x] = k[y] => x = y
    BY <1>1, <1>2
  <2>3. \A i \in W : \E x \in V : k[x] = i
    BY <1>6
  <2> HIDE DEF k
  <2>4. DOMAIN k = V
    BY <2>1
  <2>5. k \in Bijection(V, W)
    BY <2>1, <2>2, <2>3, <2>4 DEF Bijection, Injection, Surjection, IsInjective
  <2> QED
    BY <2>5 DEF k
<1> QED
  BY <1>2, <1>4, <1>5, <1>6, <1>7 DEF Moves

\* As many, and of the same providers.
LEMMA MovedCount ==
  ASSUME NEW sigs, NEW other, NEW h, NEW V, NEW W, Moves(sigs, other, h, V, W)
  PROVE  /\ Cardinality(V) = Cardinality(W)
         /\ V = {} <=> W = {}
         /\ Names(other, V) = Names(sigs, W)
<1>1. IsFiniteSet(V) /\ ExistsBijection(V, W)
  BY DEF Moves, ExistsBijection
<1>2. Cardinality(V) = Cardinality(W)
  BY <1>1, FS_Bijection
<1>3. V = {} <=> W = {}
  BY DEF Moves
<1>4. Names(other, V) = Names(sigs, W)
  BY DEF Names, Moves
<1> QED
  BY <1>2, <1>3, <1>4

\* What is added up over them is the same,
LEMMA MovedSum ==
  ASSUME NEW sigs, NEW other, NEW h, NEW V, NEW W, Moves(sigs, other, h, V, W),
         NEW f \in [W -> Int], NEW e \in [V -> Int], \A x \in V : e[x] = f[h[x]]
  PROVE  SumFunction(e) = SumFunction(f)
<1> DEFINE k == [x \in V |-> h[x]]
<1>1. \A x \in V : e[x] = f[k[x]]
  OBVIOUS
<1>2. k \in Bijection(V, W) /\ IsFiniteSet(V) /\ IsFiniteSet(W)
  BY DEF Moves
<1> HIDE DEF k
<1> QED
  BY <1>1, <1>2, SumReindexed

\* so is the mean,
LEMMA MovedMean ==
  ASSUME NEW sigs, NEW other, NEW h, NEW V, NEW W, Moves(sigs, other, h, V, W),
         NEW f \in [W -> Int], NEW e \in [V -> Int], \A x \in V : e[x] = f[h[x]]
  PROVE  Mean(e) = Mean(f)
<1>1. SumFunction(e) = SumFunction(f)
  BY MovedSum
<1>2. Cardinality(V) = Cardinality(W)
  BY MovedCount
<1>3. DOMAIN e = V /\ DOMAIN f = W
  OBVIOUS
<1> QED
  BY <1>1, <1>2, <1>3 DEF Mean

\* so is the weighted mean,
LEMMA MovedWeightedMean ==
  ASSUME NEW sigs, NEW other, NEW h, NEW V, NEW W, Moves(sigs, other, h, V, W),
         NEW f \in [W -> Int], NEW e \in [V -> Int], \A x \in V : e[x] = f[h[x]],
         NEW a \in [W -> Int], NEW b \in [V -> Int], \A x \in V : b[x] = a[h[x]]
  PROVE  WeightedMean(e, b) = WeightedMean(f, a)
<1>1. SumFunction(b) = SumFunction(a)
  BY MovedSum
<1>2. DOMAIN e = V /\ DOMAIN f = W
  OBVIOUS
<1> DEFINE p == [x \in V |-> e[x] * b[x]]
           q == [i \in W |-> f[i] * a[i]]
<1>3. \A m, n \in Int : m * n \in Int
  OBVIOUS
<1>4. p \in [V -> Int] /\ q \in [W -> Int]
  BY <1>3
<1>5. \A x \in V : h[x] \in W
  BY DEF Moves
<1>6. \A x \in V : p[x] = q[h[x]]
  BY <1>5
<1>7. SumFunction(p) = SumFunction(q)
  <2> HIDE DEF p, q
  <2> QED
    BY <1>4, <1>6, MovedSum
<1> QED
  BY <1>1, <1>2, <1>7 DEF WeightedMean

\* so is the confidence,
LEMMA MovedConfidence ==
  ASSUME NEW sigs, NEW c, Heard(sigs, c), NEW other, NEW h, NEW V, NEW W,
         Moves(sigs, other, h, V, W), NEW weighted \in BOOLEAN
  PROVE  Confidence(other, V, weighted) = Confidence(sigs, W, weighted)
<1> DEFINE f == [i \in W |-> sigs[i].confidence]
           a == [i \in W |-> sigs[i].weight]
           e == [x \in V |-> other[x].confidence]
           b == [x \in V |-> other[x].weight]
<1>1. \A x \in V : h[x] \in W /\ other[x] = sigs[h[x]]
  BY DEF Moves
<1>2. \A i \in W : sigs[i].confidence \in Int /\ sigs[i].weight \in Int
  BY HeardPlaces DEF Moves
<1>3. f \in [W -> Int] /\ a \in [W -> Int] /\ e \in [V -> Int] /\ b \in [V -> Int]
  BY <1>1, <1>2
<1>4. (\A x \in V : e[x] = f[h[x]]) /\ (\A x \in V : b[x] = a[h[x]])
  BY <1>1
<1>5. Confidence(sigs, W, weighted) =
        CASE ~weighted -> Mean(f)
          [] weighted /\ SumFunction(a) = 0 -> 0
          [] OTHER -> WeightedMean(f, a)
  BY DEF Confidence
<1>6. Confidence(other, V, weighted) =
        CASE ~weighted -> Mean(e)
          [] weighted /\ SumFunction(b) = 0 -> 0
          [] OTHER -> WeightedMean(e, b)
  BY DEF Confidence
<1> HIDE DEF f, a, e, b
<1>7. Mean(e) = Mean(f)
  BY <1>3, <1>4, MovedMean
<1>8. SumFunction(b) = SumFunction(a)
  BY <1>3, <1>4, MovedSum
<1>9. WeightedMean(e, b) = WeightedMean(f, a)
  BY <1>3, <1>4, MovedWeightedMean
<1> QED
  BY <1>5, <1>6, <1>7, <1>8, <1>9

\* and all of what the aggregator answers.
LEMMA MovedSuccess ==
  ASSUME NEW sigs, NEW c, Heard(sigs, c), NEW other, NEW h, NEW V, NEW W,
         Moves(sigs, other, h, V, W), NEW X, NEW L, Names(other, X) = Names(sigs, L),
         NEW side, NEW weighted \in BOOLEAN
  PROVE  Success(other, V, X, side, weighted) = Success(sigs, W, L, side, weighted)
<1>1. Confidence(other, V, weighted) = Confidence(sigs, W, weighted)
  BY MovedConfidence
<1>2. Names(other, V) = Names(sigs, W)
  BY MovedCount
<1> QED
  BY <1>1, <1>2 DEF Success

\* The signals of a side are the same ones elsewhere.
LEMMA SidesMove ==
  ASSUME NEW sigs, NEW c, Heard(sigs, c), NEW other, NEW h, Shuffled(sigs, other, h)
  PROVE  /\ \A side : Moves(sigs, other, h, Side(other, side), Side(sigs, side))
         /\ Moves(sigs, other, h, Active(other), Active(sigs))
<1>1. \A x \in DOMAIN other : h[x] \in DOMAIN sigs /\ other[x] = sigs[h[x]]
  BY DEF Shuffled, Bijection, Injection
<1>2. ASSUME NEW side
      PROVE  Moves(sigs, other, h, Side(other, side), Side(sigs, side))
  <2>1. Side(other, side) = {x \in DOMAIN other : h[x] \in Side(sigs, side)}
    BY <1>1 DEF Side
  <2>2. Side(sigs, side) \in SUBSET DOMAIN sigs
    BY DEF Side
  <2> QED
    BY <2>1, <2>2, PlacesMove
<1>3. Moves(sigs, other, h, Active(other), Active(sigs))
  <2>1. Active(other) = {x \in DOMAIN other : h[x] \in Active(sigs)}
    BY <1>1 DEF Active
  <2>2. Active(sigs) \in SUBSET DOMAIN sigs
    BY DEF Active
  <2> QED
    BY <2>1, <2>2, PlacesMove
<1> QED
  BY <1>2, <1>3

\* (Aggregator._combine_unanimous)
LEMMA UnanimousShuffled ==
  ASSUME NEW sigs, NEW c, Heard(sigs, c), NEW other, NEW h, Shuffled(sigs, other, h), NEW e
  PROVE  CombineUnanimous(e, other) = CombineUnanimous(e, sigs)
<1>1. Moves(sigs, other, h, Active(other), Active(sigs))
  BY SidesMove
<1>2. /\ Cardinality(Active(other)) = Cardinality(Active(sigs))
      /\ Active(other) = {} <=> Active(sigs) = {}
  BY <1>1, MovedCount
<1>3. {other[x].side : x \in Active(other)} = {sigs[i].side : i \in Active(sigs)}
  BY <1>1 DEF Moves
<1>4. Names(other, {}) = Names(sigs, {})
  BY DEF Names
<1>5. \A side : Success(other, Active(other), {}, side, TRUE)
                  = Success(sigs, Active(sigs), {}, side, TRUE)
  <2>1. PICK weighted \in BOOLEAN : weighted = TRUE
    OBVIOUS
  <2>2. \A side : Success(other, Active(other), {}, side, weighted)
                    = Success(sigs, Active(sigs), {}, side, weighted)
    BY <1>1, <1>4, MovedSuccess
  <2> QED
    BY <2>1, <2>2
<1> QED
  BY <1>2, <1>3, <1>5 DEF CombineUnanimous

\* (Aggregator._combine_majority)
LEMMA MajorityShuffled ==
  ASSUME NEW sigs, NEW c, Heard(sigs, c), NEW other, NEW h, Shuffled(sigs, other, h), NEW e,
         NEW weighted \in BOOLEAN
  PROVE  CombineMajority(e, other, weighted) = CombineMajority(e, sigs, weighted)
<1>1. Active(other) = {} <=> Active(sigs) = {}
  BY SidesMove, MovedCount
<1>2. \A side : Moves(sigs, other, h, Side(other, side), Side(sigs, side))
  BY SidesMove
<1>3. \A side : /\ Cardinality(Side(other, side)) = Cardinality(Side(sigs, side))
                /\ Side(other, side) = {} <=> Side(sigs, side) = {}
                /\ Names(other, Side(other, side)) = Names(sigs, Side(sigs, side))
  BY <1>2, MovedCount
<1>4. \A side, against :
        Success(other, Side(other, side), Side(other, against), side, weighted)
          = Success(sigs, Side(sigs, side), Side(sigs, against), side, weighted)
  BY <1>2, <1>3, MovedSuccess
<1> QED
  BY <1>1, <1>3, <1>4 DEF CombineMajority

\* (Aggregator.combine)
LEMMA CombineShuffled ==
  ASSUME NEW sigs, NEW c, Heard(sigs, c), NEW other, NEW h, Shuffled(sigs, other, h), NEW e
  PROVE  Combine(e, other) = Combine(e, sigs)
<1>1. CASE e.method = "unanimous"
  BY <1>1, UnanimousShuffled DEF Combine
<1>2. CASE e.method # "unanimous"
  <2>1. \A weighted \in BOOLEAN : CombineMajority(e, other, weighted) = CombineMajority(e, sigs, weighted)
    BY MajorityShuffled
  <2>2. (e.method = "weighted_majority") \in BOOLEAN
    OBVIOUS
  <2>3. CombineMajority(e, other, e.method = "weighted_majority")
          = CombineMajority(e, sigs, e.method = "weighted_majority")
    BY <2>1, <2>2
  <2> QED
    BY <1>2, <2>3 DEF Combine
<1> QED
  BY <1>1, <1>2

\* A level is averaged over the same signals.
LEMMA MergedShuffled ==
  ASSUME NEW sigs, NEW other, NEW h, NEW V, NEW W, Moves(sigs, other, h, V, W),
         NEW k, NEW weights,
         \A i \in W : sigs[i].levels[k] \in Int /\ weights[sigs[i].provider] \in Nat
  PROVE  Merged(other, V, weights, k) = Merged(sigs, W, weights, k)
<1> DEFINE f == [i \in W |-> sigs[i].levels[k]]
           a == [i \in W |-> weights[sigs[i].provider]]
           e == [x \in V |-> other[x].levels[k]]
           b == [x \in V |-> weights[other[x].provider]]
<1>1. \A x \in V : h[x] \in W /\ other[x] = sigs[h[x]]
  BY DEF Moves
<1>2. f \in [W -> Int] /\ a \in [W -> Int] /\ e \in [V -> Int] /\ b \in [V -> Int]
  BY <1>1
<1>3. (\A x \in V : e[x] = f[h[x]]) /\ (\A x \in V : b[x] = a[h[x]])
  BY <1>1
<1>4. /\ Merged(sigs, W, weights, k)
           = IF SumFunction(a) <= 0 THEN Mean(f) ELSE WeightedMean(f, a)
      /\ Merged(other, V, weights, k)
           = IF SumFunction(b) <= 0 THEN Mean(e) ELSE WeightedMean(e, b)
  BY DEF Merged
<1> HIDE DEF f, a, e, b
<1>5. Mean(e) = Mean(f)
  BY <1>2, <1>3, MovedMean
<1>6. SumFunction(b) = SumFunction(a)
  BY <1>2, <1>3, MovedSum
<1>7. WeightedMean(e, b) = WeightedMean(f, a)
  BY <1>2, <1>3, MovedWeightedMean
<1> QED
  BY <1>4, <1>5, <1>6, <1>7

\* (FinalSignalBuilder._merge_levels)
LEMMA MergeLevelsShuffled ==
  ASSUME NEW sigs, NEW c, Heard(sigs, c), NEW other, NEW h, Shuffled(sigs, other, h),
         NEW W, NEW side, Won(sigs, W, side), NEW weights, Weighs(weights, sigs, W), NEW price
  PROVE  MergeLevels(side, other, price, weights) = MergeLevels(side, sigs, price, weights)
<1>1. PICK L : L = Levelled(sigs, weights)
  OBVIOUS
<1>2. PICK M : M = Levelled(other, weights)
  OBVIOUS
<1>3. \A x \in DOMAIN other : h[x] \in DOMAIN sigs /\ other[x] = sigs[h[x]]
  BY DEF Shuffled, Bijection, Injection
<1>4. L \in SUBSET DOMAIN sigs /\ M = {x \in DOMAIN other : h[x] \in L}
  BY <1>1, <1>2, <1>3 DEF Levelled
<1>5. Moves(sigs, other, h, M, L)
  BY <1>4, PlacesMove
<1>6. M = {} <=> L = {}
  BY <1>5, MovedCount
<1>7. \A i \in L : /\ Around(side, c.price, sigs[i].levels)
                   /\ weights[sigs[i].provider] \in Nat
  BY <1>1, LevelledWon
<1>8. Merged(other, M, weights, 1) = Merged(sigs, L, weights, 1)
  <2>1. \A i \in L : sigs[i].levels[1] \in Int /\ weights[sigs[i].provider] \in Nat
    BY <1>7 DEF Around
  <2> QED
    BY <1>5, <2>1, MergedShuffled
<1>9. Merged(other, M, weights, 2) = Merged(sigs, L, weights, 2)
  <2>1. \A i \in L : sigs[i].levels[2] \in Int /\ weights[sigs[i].provider] \in Nat
    BY <1>7 DEF Around
  <2> QED
    BY <1>5, <2>1, MergedShuffled
<1> QED
  BY <1>1, <1>2, <1>6, <1>8, <1>9 DEF MergeLevels

\* Nothing of a decision depends on the order of the signals.
LEMMA ProcessShuffled ==
  ASSUME NEW e, e.minAgree \in Nat \ {0}, NEW c, NEW sigs, Heard(sigs, c),
         NEW other, NEW h, Shuffled(sigs, other, h), NEW snap
  PROVE  Process(e, other, c, snap) = Process(e, sigs, c, snap)
<1>1. PICK agg : agg = Combine(e, sigs)
  OBVIOUS
<1>2. Combine(e, other) = agg
  BY <1>1, CombineShuffled
<1>3. CASE ~agg.ok
  BY <1>1, <1>2, <1>3 DEF Process
<1>4. CASE agg.ok
  <2>1. Wins(e, sigs, agg)
    BY <1>1, <1>4, CombineDecided DEF Decided
  <2>2. PICK W : Won(sigs, W, agg.side) /\ Weighs(agg.weights, sigs, W)
    BY <2>1, WinnersWeigh
  <2>3. MergeLevels(agg.side, other, c.price, agg.weights)
          = MergeLevels(agg.side, sigs, c.price, agg.weights)
    BY <2>2, MergeLevelsShuffled
  <2>4. BuildSignal(e, agg, other, c) = BuildSignal(e, agg, sigs, c)
    BY <2>3 DEF BuildSignal
  <2> QED
    BY <1>1, <1>2, <2>4 DEF Process
<1> QED
  BY <1>3, <1>4

\* The reverse is an order.
LEMMA ReverseShuffles ==
  ASSUME NEW sigs, NEW c, Heard(sigs, c)
  PROVE  \E h : Shuffled(sigs, Reverse(sigs), h)
<1>1. PICK n : n = Len(sigs)
  OBVIOUS
<1>2. n \in Nat /\ DOMAIN sigs = 1..n
  BY <1>1, HeardPlaces
<1>3. PICK other : other = Reverse(sigs)
  OBVIOUS
<1>4. other = [x \in 1..n |-> sigs[(n - x) + 1]]
  BY <1>1, <1>3 DEF Reverse
<1>5. DOMAIN other = 1..n /\ Len(other) = n
  BY <1>2, <1>4
<1> DEFINE h == [x \in 1..n |-> (n - x) + 1]
<1>6. h \in [1..n -> 1..n]
  BY <1>2
<1>7. \A x, y \in 1..n : h[x] = h[y] => x = y
  BY <1>2
<1>8. \A i \in 1..n : \E x \in 1..n : h[x] = i
  <2>1. \A i \in 1..n : (n - i) + 1 \in 1..n /\ h[(n - i) + 1] = i
    BY <1>2
  <2> QED
    BY <2>1
<1>9. \A x \in 1..n : other[x] = sigs[h[x]]
  BY <1>4
<1>10. DOMAIN h = 1..n
  OBVIOUS
<1> HIDE DEF h
<1>11. h \in Bijection(1..n, 1..n)
  BY <1>6, <1>7, <1>8, <1>10 DEF Bijection, Injection, Surjection, IsInjective
<1>12. Shuffled(sigs, other, h)
  BY <1>1, <1>2, <1>5, <1>9, <1>11 DEF Shuffled
<1> QED
  BY <1>3, <1>12

-----------------------------------------------------------------------------
(* What holds of a cycle at every moment of it.                            *)

\* The providers asked so far have given their opinions, in the order of the panel.
OpinionsInOrder ==
  /\ Len(signals) \in Nat /\ signals = [i \in 1..Len(signals) |-> signals[i]]
  /\ Len(signals) <= Len(panel)
  /\ stage = "analyze" => Len(signals) < Len(panel)
  /\ \A i \in 1..Len(signals) : Opinion(signals[i], panel[i], ctx)

DecisionIsProcessed ==
  decision = IF stage \in {"done", "published"} THEN Process(engine, signals, ctx, snapshot)
             ELSE Nothing

DecisionInv ==
  /\ engine \in Engines /\ panel \in Panels
  /\ stage \in {"waiting", "analyze", "process", "done", "published"}
  /\ stage = "waiting" => signals = <<>>
  /\ stage # "waiting" => ctx \in Contexts
  /\ OpinionsInOrder /\ DecisionIsProcessed

\* A panel names at least one provider, and none of them twice.
LEMMA PanelsListed ==
  ASSUME NEW list \in Panels
  PROVE  /\ Len(list) \in Nat /\ Len(list) > 0 /\ DOMAIN list = 1..Len(list)
         /\ \A i \in 1..Len(list) : list[i] \in ProviderIds
         /\ \A i, j \in 1..Len(list) : list[i] = list[j] => i = j
<1>1. list \in Seq(ProviderIds) /\ list # <<>>
  BY EngineAssumption
<1>2. \A i, j \in DOMAIN list : list[i] = list[j] => i = j
  BY EngineAssumption
<1>3. Len(list) \in Nat /\ DOMAIN list = 1..Len(list)
  BY <1>1
<1>4. \A i \in 1..Len(list) : list[i] \in ProviderIds
  BY <1>1, ElementOfSeq
<1>5. Len(list) > 0
  BY <1>1, <1>3, EmptySeq
<1> QED
  BY <1>2, <1>3, <1>4, <1>5

\* What the aggregator relies on.
LEMMA OpinionsHeard ==
  ASSUME DecisionInv
  PROVE  Heard(signals, ctx)
<1>1. panel \in Panels /\ OpinionsInOrder
  BY DEF DecisionInv
<1>2. /\ Len(panel) \in Nat
      /\ \A i \in 1..Len(panel) : panel[i] \in ProviderIds
      /\ \A i, j \in 1..Len(panel) : panel[i] = panel[j] => i = j
  BY <1>1, PanelsListed
<1>3. /\ Len(signals) \in Nat /\ signals = [i \in 1..Len(signals) |-> signals[i]]
      /\ \A i \in 1..Len(signals) : i \in 1..Len(panel) /\ Opinion(signals[i], panel[i], ctx)
  BY <1>1, <1>2 DEF OpinionsInOrder
<1>4. \A i \in 1..Len(signals) : signals[i].provider = panel[i]
  BY <1>3 DEF Opinion
<1>5. \A i \in 1..Len(signals) : /\ signals[i].provider \in ProviderIds
                                 /\ Opinion(signals[i], signals[i].provider, ctx)
  BY <1>2, <1>3, <1>4
<1>6. \A i, j \in 1..Len(signals) : signals[i].provider = signals[j].provider => i = j
  BY <1>2, <1>3, <1>4
<1> QED
  BY <1>3, <1>5, <1>6 DEF Heard

\* What is assumed of every configuration holds of the engine's.
LEMMA EngineIsBounded ==
  ASSUME DecisionInv
  PROVE  engine.minAgree \in Nat \ {0} /\ engine.minRiskReward \in Nat
BY EngineAssumption DEF DecisionInv

\* What is assumed of every context.
LEMMA ContextIsUsable ==
  ASSUME NEW c \in Contexts
  PROVE  Usable(c)
BY EngineAssumption DEF Usable

\* A list and one more.
LEMMA OneMore ==
  ASSUME NEW list, Len(list) \in Nat, list = [i \in 1..Len(list) |-> list[i]], NEW x,
         NEW more, more = Append(list, x)
  PROVE  /\ Len(more) = Len(list) + 1 /\ more = [i \in 1..Len(more) |-> more[i]]
         /\ \A i \in 1..Len(list) : more[i] = list[i]
         /\ more[Len(list) + 1] = x
<1> DEFINE S == {list[i] : i \in 1..Len(list)} \cup {x}
<1>1. list \in [1..Len(list) -> S]
  OBVIOUS
<1>2. x \in S
  OBVIOUS
<1> HIDE DEF S
<1>3. list \in Seq(S)
  BY <1>1
<1>4. /\ more \in Seq(S) /\ Len(more) = Len(list) + 1
      /\ \A i \in 1..Len(list) : more[i] = list[i]
      /\ more[Len(list) + 1] = x
  BY <1>2, <1>3, AppendProperties
<1>5. more \in [1..Len(more) -> S]
  BY <1>4, LenProperties
<1>6. more = [i \in 1..Len(more) |-> more[i]]
  BY <1>5
<1> QED
  BY <1>4, <1>6

-----------------------------------------------------------------------------
(* It holds at first and is kept by every step.                            *)

\* Nothing has been asked and nothing decided.
LEMMA DecisionInvInit ==
  ReplayInit => DecisionInv
<1> SUFFICES ASSUME ReplayInit PROVE DecisionInv
  OBVIOUS
<1>1. /\ engine \in Engines /\ panel \in Panels /\ stage = "waiting" /\ signals = <<>>
      /\ decision = Nothing
  BY DEF ReplayInit, EngineInit
<1>2. Len(panel) \in Nat
  BY <1>1, PanelsListed
<1>3. OpinionsInOrder
  BY <1>1, <1>2 DEF OpinionsInOrder
<1>4. DecisionIsProcessed
  BY <1>1 DEF DecisionIsProcessed
<1> QED
  BY <1>1, <1>3, <1>4 DEF DecisionInv

\* A bar comes: there is a provider to ask.
LEMMA NextBarKeeps ==
  ASSUME DecisionInv, NextBar
  PROVE  DecisionInv'
<1>1. /\ stage = "waiting" /\ stage' = "analyze" /\ ctx' \in Contexts
      /\ engine' = engine /\ panel' = panel /\ signals' = signals /\ decision' = decision
  BY DEF NextBar
<1>2. engine \in Engines /\ panel \in Panels /\ signals = <<>> /\ DecisionIsProcessed
  BY <1>1 DEF DecisionInv
<1>3. Len(panel) \in Nat /\ Len(panel) > 0
  BY <1>2, PanelsListed
<1>4. OpinionsInOrder'
  BY <1>1, <1>2, <1>3 DEF OpinionsInOrder
<1>5. DecisionIsProcessed'
  BY <1>1, <1>2 DEF DecisionIsProcessed
<1> QED
  BY <1>1, <1>2, <1>4, <1>5 DEF DecisionInv

\* (PlatformRuntime._collect_provider_signals)
LEMMA AskProviderKeeps ==
  ASSUME DecisionInv, AskProvider
  PROVE  DecisionInv'
<1>1. /\ stage = "analyze"
      /\ stage' = IF Len(signals') = Len(panel) THEN "process" ELSE stage
      /\ engine' = engine /\ panel' = panel /\ ctx' = ctx /\ decision' = decision
  BY DEF AskProvider
<1>2. PICK n : n = Len(signals)
  OBVIOUS
<1>3. /\ engine \in Engines /\ panel \in Panels /\ ctx \in Contexts
      /\ OpinionsInOrder /\ DecisionIsProcessed
  BY <1>1 DEF DecisionInv
<1>4. /\ n \in Nat /\ signals = [i \in 1..n |-> signals[i]] /\ n < Len(panel)
      /\ \A i \in 1..n : Opinion(signals[i], panel[i], ctx)
  BY <1>1, <1>2, <1>3 DEF OpinionsInOrder
<1>5. Len(panel) \in Nat /\ panel[n + 1] \in ProviderIds
  BY <1>3, <1>4, PanelsListed
<1>6. PICK p : p = panel[n + 1]
  OBVIOUS
<1>7. PICK features \in Readings[p] : signals' = Append(signals, Analyze(p, features, ctx))
  BY <1>2, <1>6 DEF AskProvider
<1>8. Readable(features)
  BY <1>5, <1>6, EngineAssumption DEF Readable
<1>9. PICK s : s = Analyze(p, features, ctx)
  OBVIOUS
<1>10. Opinion(s, p, ctx)
  BY <1>3, <1>5, <1>6, <1>8, <1>9, ContextIsUsable, AnalyzeIsOpinion
<1>11. PICK more : more = Append(signals, s)
  OBVIOUS
<1>12. /\ Len(more) = n + 1 /\ more = [i \in 1..Len(more) |-> more[i]]
       /\ \A i \in 1..n : more[i] = signals[i]
       /\ more[n + 1] = s
  BY <1>2, <1>4, <1>11, OneMore
<1>13. signals' = more
  BY <1>7, <1>9, <1>11
<1>14. \A i \in 1..(n + 1) : Opinion(more[i], panel[i], ctx)
  <2> SUFFICES ASSUME NEW i \in 1..(n + 1) PROVE Opinion(more[i], panel[i], ctx)
    OBVIOUS
  <2>1. CASE i = n + 1
    BY <1>6, <1>10, <1>12, <2>1
  <2>2. CASE i # n + 1
    <3>1. i \in 1..n
      BY <1>4, <2>2
    <3> QED
      BY <1>4, <1>12, <3>1
  <2> QED
    BY <2>1, <2>2
<1>15. stage' \in {"process", "analyze"} /\ (stage' = "analyze" => n + 1 # Len(panel))
  BY <1>1, <1>12, <1>13
<1>16. OpinionsInOrder'
  <2>1. /\ Len(signals') \in Nat /\ signals' = [i \in 1..Len(signals') |-> signals'[i]]
        /\ Len(signals') <= Len(panel')
        /\ stage' = "analyze" => Len(signals') < Len(panel')
    BY <1>1, <1>4, <1>5, <1>12, <1>13, <1>15
  <2>2. \A i \in 1..Len(signals') : Opinion(signals'[i], panel'[i], ctx')
    BY <1>1, <1>12, <1>13, <1>14
  <2>3. \A i \in 1..Len(signals') : Opinion(signals[i], panel[i], ctx)'
    BY <2>2 DEF Opinion, Around
  <2> QED
    BY <2>1, <2>3 DEF OpinionsInOrder
<1>17. DecisionIsProcessed'
  BY <1>1, <1>3, <1>15 DEF DecisionIsProcessed
<1> QED
  BY <1>1, <1>3, <1>15, <1>16, <1>17 DEF DecisionInv

\* (DecisionEngine.process)
LEMMA DecideKeeps ==
  ASSUME DecisionInv, Decide
  PROVE  DecisionInv'
<1>1. /\ stage = "process" /\ stage' = "done"
      /\ decision' = Process(engine, signals, ctx, snapshot')
      /\ engine' = engine /\ panel' = panel /\ ctx' = ctx /\ signals' = signals
  BY DEF Decide
<1>2. engine \in Engines /\ panel \in Panels /\ ctx \in Contexts /\ OpinionsInOrder
  BY <1>1 DEF DecisionInv
<1>3. OpinionsInOrder'
  BY <1>1, <1>2 DEF OpinionsInOrder
<1>4. DecisionIsProcessed'
  BY <1>1 DEF DecisionIsProcessed
<1> QED
  BY <1>1, <1>2, <1>3, <1>4 DEF DecisionInv

\* What leaves the cycle alone, or only says that its events are out.
LEMMA CycleStays ==
  ASSUME DecisionInv,
         engine' = engine, panel' = panel, ctx' = ctx, signals' = signals,
         snapshot' = snapshot, decision' = decision,
         stage' = stage \/ (stage = "done" /\ stage' = "published")
  PROVE  DecisionInv'
<1>1. /\ engine \in Engines /\ panel \in Panels
      /\ stage \in {"waiting", "analyze", "process", "done", "published"}
      /\ stage = "waiting" => signals = <<>>
      /\ stage # "waiting" => ctx \in Contexts
      /\ OpinionsInOrder /\ DecisionIsProcessed
  BY DEF DecisionInv
<1>2. OpinionsInOrder'
  BY <1>1 DEF OpinionsInOrder
<1>3. DecisionIsProcessed'
  BY <1>1 DEF DecisionIsProcessed
<1> QED
  BY <1>1, <1>2, <1>3 DEF DecisionInv

\* The cycle is over and nothing of it is left.
LEMMA EndBarKeeps ==
  ASSUME DecisionInv, EndBar
  PROVE  DecisionInv'
<1>1. /\ stage' = "waiting" /\ signals' = <<>> /\ decision' = Nothing
      /\ engine' = engine /\ panel' = panel
  BY DEF EndBar
<1>2. engine \in Engines /\ panel \in Panels
  BY DEF DecisionInv
<1>3. Len(panel) \in Nat
  BY <1>2, PanelsListed
<1>4. OpinionsInOrder'
  BY <1>1, <1>3 DEF OpinionsInOrder
<1>5. DecisionIsProcessed'
  BY <1>1 DEF DecisionIsProcessed
<1> QED
  BY <1>1, <1>2, <1>4, <1>5 DEF DecisionInv

\* The invariant holds in every state of a cycle, its record and its replay.
THEOREM DecisionInvariance ==
  ReplaySpec => []DecisionInv
<1>1. ReplayInit => DecisionInv
  BY DecisionInvInit
<1>2. DecisionInv /\ [ReplayNext]_<<engineVars, replayVars>> => DecisionInv'
  <2> SUFFICES ASSUME DecisionInv, [ReplayNext]_<<engineVars, replayVars>>
               PROVE  DecisionInv'
    OBVIOUS
  <2>1. CASE Cycle
    <3>1. NextBar \/ AskProvider \/ Decide
      BY <2>1 DEF Cycle
    <3> QED
      BY <3>1, NextBarKeeps, AskProviderKeeps, DecideKeeps
  <2>2. CASE Publish
    BY <2>2, CycleStays DEF Publish
  <2>3. CASE ReExecute
    BY <2>3, CycleStays DEF ReExecute, engineVars
  <2>4. CASE CannotReExecute
    BY <2>4, CycleStays DEF CannotReExecute, engineVars
  <2>5. CASE EndCycle
    BY <2>5, EndBarKeeps DEF EndCycle
  <2>6. CASE UNCHANGED <<engineVars, replayVars>>
    BY <2>6, CycleStays DEF engineVars
  <2> QED
    BY <2>1, <2>2, <2>3, <2>4, <2>5, <2>6 DEF ReplayNext
<1> QED
  BY <1>1, <1>2, PTL DEF ReplaySpec

-----------------------------------------------------------------------------
(* The theorems about decisions.                                           *)

\* Carried is Carries of the signals at hand.
LEMMA CarriedIsCarries ==
  \A side : Carried(side) <=> Carries(engine, signals, side)
BY DEF Carried, Carries, For, Side

\* The parts of HeadsDecide: who carries, who fails, and the order.
LEMMA DecidedByHeads ==
  DecisionInv => HeadsDecide
<1> SUFFICES ASSUME DecisionInv, stage = "done" PROVE HeadsDecide
  BY DEF HeadsDecide
<1>1. decision = Process(engine, signals, ctx, snapshot)
  BY DEF DecisionInv, DecisionIsProcessed
<1>2. ctx \in Contexts /\ Usable(ctx)
  BY ContextIsUsable DEF DecisionInv
<1>3. Heard(signals, ctx) /\ engine.minAgree \in Nat \ {0} /\ engine.minRiskReward \in Nat
  BY OpinionsHeard, EngineIsBounded
<1>4. ASSUME decision.value = "approved" PROVE Carried(decision.signal.side)
  <2>1. Carries(engine, signals, decision.signal.side)
    BY <1>1, <1>2, <1>3, <1>4, ApprovedBrackets
  <2> QED
    BY <2>1, CarriedIsCarries
<1>5. ASSUME FilterCheck(engine, ctx) = "passed"
      PROVE  (decision.value = "rejected" /\ decision.stage = "aggregator")
               <=> ~(Carried("BUY") \/ Carried("SELL"))
  BY <1>1, <1>3, <1>5, NoSideCarries, CarriedIsCarries
<1>6. Process(engine, Reverse(signals), ctx, snapshot) = decision
  <2>1. PICK h : Shuffled(signals, Reverse(signals), h)
    BY <1>3, ReverseShuffles
  <2> QED
    BY <1>1, <1>3, <2>1, ProcessShuffled
<1> QED
  BY <1>4, <1>5, <1>6 DEF HeadsDecide

\* What was approved was built by process from the signals at hand.
LEMMA ApprovedIsBracketed ==
  DecisionInv => Bracketed
<1> SUFFICES ASSUME DecisionInv, decision.value = "approved" PROVE Bracketed
  BY DEF Bracketed
<1>1. stage \in {"done", "published"}
  BY DEF DecisionInv, DecisionIsProcessed, Nothing
<1>2. decision = Process(engine, signals, ctx, snapshot)
  BY <1>1 DEF DecisionInv, DecisionIsProcessed
<1>3. ctx \in Contexts /\ Usable(ctx)
  BY <1>1, ContextIsUsable DEF DecisionInv
<1>4. Heard(signals, ctx) /\ engine.minAgree \in Nat \ {0} /\ engine.minRiskReward \in Nat
  BY OpinionsHeard, EngineIsBounded
<1>5. Brackets(engine, signals, decision.signal)
  BY <1>2, <1>3, <1>4, ApprovedBrackets
<1> QED
  BY <1>5 DEF Brackets, Bracketed

\* Heads decide, whatever the engine's configuration, the panel of providers and
\* what they read in the market, and in whatever order they are asked.
\* (Aggregator._combine_unanimous, _combine_majority, DecisionEngine.process)
THEOREM HeadsAlwaysDecide ==
  ReplaySpec => []HeadsDecide
BY DecisionInvariance, DecidedByHeads, PTL

\* No approved signal is without a stop against it and a target for it, the reward
\* and the confidence that the configuration asks for, and winners of its side.
\* (FinalSignalBuilder.build, RiskManager.evaluate, finalize_verdict)
THEOREM AlwaysBracketed ==
  ReplaySpec => []Bracketed
BY DecisionInvariance, ApprovedIsBracketed, PTL

-----------------------------------------------------------------------------
(* The events of a cycle, one after the other.                             *)

EventTypes == {"candle", "features", "context", "opinion", "made", "outcome", "published"}

\* Which event is where: three of the bar, n opinions, and what was decided.
EventsOf(events, n, approved) ==
  /\ Len(events) = n + 5 + (IF approved THEN 1 ELSE 0)
  /\ events[1] = "candle" /\ events[2] = "features" /\ events[3] = "context"
  /\ \A i \in 4..(n + 3) : events[i] = "opinion"
  /\ events[n + 4] = "made" /\ events[n + 5] = "outcome"
  /\ approved => events[n + 6] = "published"

\* One list and after it another.
Joined(s, a, t, b, both) ==
  /\ both \in Seq(EventTypes) /\ Len(both) = a + b
  /\ \A i \in 1..a : both[i] = s[i]
  /\ \A i \in 1..b : both[a + i] = t[i]

\* Parts put together, place by place.
LEMMA PartsTogether ==
  ASSUME NEW s \in Seq(EventTypes), NEW t \in Seq(EventTypes),
         NEW a \in Nat, Len(s) = a, NEW b \in Nat, Len(t) = b
  PROVE  Joined(s, a, t, b, s \o t)
<1>1. /\ s \o t \in Seq(EventTypes) /\ Len(s \o t) = a + b
      /\ \A i \in 1..(a + b) : (s \o t)[i] = IF i <= a THEN s[i] ELSE t[i - a]
  BY ConcatProperties
<1>2. ASSUME NEW i \in 1..a
      PROVE  (s \o t)[i] = s[i]
  <2>1. i \in 1..(a + b) /\ i <= a
    OBVIOUS
  <2> QED
    BY <1>1, <2>1
<1>3. ASSUME NEW i \in 1..b
      PROVE  (s \o t)[a + i] = t[i]
  <2>1. a + i \in 1..(a + b) /\ ~(a + i <= a) /\ (a + i) - a = i
    OBVIOUS
  <2> QED
    BY <1>1, <2>1
<1> QED
  BY <1>1, <1>2, <1>3 DEF Joined

\* (PlatformRuntime._decide)
LEMMA EventsPlaced ==
  ASSUME NEW n \in Nat, DOMAIN signals = 1..n
  PROVE  EventsOf(CycleEvents, n, decision.value = "approved")
<1>1. PICK bar, opinions, last, out :
        /\ bar = <<"candle", "features", "context">>
        /\ opinions = [i \in DOMAIN signals |-> "opinion"]
        /\ last = <<"made", "outcome">>
        /\ out = IF decision.value = "approved" THEN <<"published">> ELSE <<>>
  OBVIOUS
<1>2. PICK approved \in BOOLEAN : approved <=> decision.value = "approved"
  OBVIOUS
<1>3. PICK k \in Nat : k = IF approved THEN 1 ELSE 0
  OBVIOUS
<1>4. bar \in Seq(EventTypes) /\ Len(bar) = 3
  BY <1>1 DEF EventTypes
<1>5. opinions \in Seq(EventTypes) /\ Len(opinions) = n /\ \A i \in 1..n : opinions[i] = "opinion"
  <2>1. opinions \in [1..n -> EventTypes]
    BY <1>1 DEF EventTypes
  <2> QED
    BY <1>1, <2>1
<1>6. last \in Seq(EventTypes) /\ Len(last) = 2
  BY <1>1 DEF EventTypes
<1>7. out \in Seq(EventTypes) /\ Len(out) = k /\ (approved => out[1] = "published")
  <2>1. CASE approved
    BY <1>1, <1>2, <1>3, <2>1 DEF EventTypes
  <2>2. CASE ~approved
    BY <1>1, <1>2, <1>3, <2>2, EmptySeq
  <2> QED
    BY <2>1, <2>2
<1>8. PICK first : first = bar \o opinions
  OBVIOUS
<1>9. /\ first \in Seq(EventTypes) /\ Len(first) = 3 + n
      /\ \A i \in 1..3 : first[i] = bar[i]
      /\ \A i \in 1..n : first[3 + i] = opinions[i]
  <2>1. Joined(bar, 3, opinions, n, bar \o opinions)
    BY <1>4, <1>5, PartsTogether
  <2> QED
    BY <1>8, <2>1 DEF Joined
<1>10. PICK decided : decided = first \o last
  OBVIOUS
<1>11. /\ decided \in Seq(EventTypes) /\ Len(decided) = (3 + n) + 2
       /\ \A i \in 1..(3 + n) : decided[i] = first[i]
       /\ \A i \in 1..2 : decided[(3 + n) + i] = last[i]
  <2>1. 3 + n \in Nat
    OBVIOUS
  <2>2. Joined(first, 3 + n, last, 2, first \o last)
    BY <1>6, <1>9, <2>1, PartsTogether
  <2> QED
    BY <1>10, <2>2 DEF Joined
<1>12. PICK events : events = decided \o out
  OBVIOUS
<1>13. /\ Len(events) = ((3 + n) + 2) + k
       /\ \A i \in 1..((3 + n) + 2) : events[i] = decided[i]
       /\ \A i \in 1..k : events[((3 + n) + 2) + i] = out[i]
  <2>1. (3 + n) + 2 \in Nat
    OBVIOUS
  <2>2. Joined(decided, (3 + n) + 2, out, k, decided \o out)
    BY <1>7, <1>11, <2>1, PartsTogether
  <2> QED
    BY <1>12, <2>2 DEF Joined
<1>14. CycleEvents = events
  BY <1>1, <1>8, <1>10, <1>12 DEF CycleEvents
<1>15. Len(events) = n + 5 + (IF approved THEN 1 ELSE 0)
  BY <1>3, <1>13
<1>16. events[1] = "candle" /\ events[2] = "features" /\ events[3] = "context"
  <2>1. \A i \in 1..3 : events[i] = bar[i]
    <3> SUFFICES ASSUME NEW i \in 1..3 PROVE events[i] = bar[i]
      OBVIOUS
    <3>1. i \in 1..((3 + n) + 2) /\ i \in 1..(3 + n)
      OBVIOUS
    <3> QED
      BY <1>9, <1>11, <1>13, <3>1
  <2>2. bar[1] = "candle" /\ bar[2] = "features" /\ bar[3] = "context"
    BY <1>1
  <2> QED
    BY <2>1, <2>2
<1>17. \A i \in 4..(n + 3) : events[i] = "opinion"
  <2> SUFFICES ASSUME NEW i \in 4..(n + 3) PROVE events[i] = "opinion"
    OBVIOUS
  <2>1. PICK j \in 1..n : i = 3 + j
    <3>1. i - 3 \in 1..n /\ i = 3 + (i - 3)
      OBVIOUS
    <3> QED
      BY <3>1
  <2>2. i \in 1..((3 + n) + 2) /\ i \in 1..(3 + n)
    OBVIOUS
  <2>3. events[i] = first[i]
    BY <1>11, <1>13, <2>2
  <2>4. first[3 + j] = opinions[j] /\ opinions[j] = "opinion"
    BY <1>5, <1>9, <2>1
  <2> QED
    BY <2>1, <2>3, <2>4
<1>18. events[n + 4] = "made" /\ events[n + 5] = "outcome"
  <2>1. n + 4 = (3 + n) + 1 /\ n + 5 = (3 + n) + 2
        /\ n + 4 \in 1..((3 + n) + 2) /\ n + 5 \in 1..((3 + n) + 2)
    OBVIOUS
  <2>2. last[1] = "made" /\ last[2] = "outcome"
    BY <1>1
  <2> QED
    BY <1>11, <1>13, <2>1, <2>2
<1>19. approved => events[n + 6] = "published"
  <2> SUFFICES ASSUME approved PROVE events[n + 6] = "published"
    OBVIOUS
  <2>1. k = 1 /\ 1 \in 1..k /\ n + 6 = ((3 + n) + 2) + 1
    BY <1>3
  <2> QED
    BY <1>7, <1>13, <2>1
<1>20. EventsOf(events, n, approved)
  BY <1>15, <1>16, <1>17, <1>18, <1>19 DEF EventsOf
<1>21. (decision.value = "approved") = approved
  BY <1>2
<1> QED
  BY <1>14, <1>20, <1>21 DEF EventsOf

-----------------------------------------------------------------------------
(* What holds of a record at every moment.                                 *)

\* An answer of the replay engine is that of the cycle's own opinions, in some order.
AnsweredFromLog ==
  /\ InLog("made")
  /\ \E order \in Orders(LoggedSignals), e \in Engines :
       diff = DecisionDiff(decision.value, Process(e, order, ctx, snapshot), e = engine)

\* Nothing is recorded and nobody told before the cycle is published.
RecordInv ==
  IF stage = "published"
  THEN /\ logged \in Nat /\ logged <= Len(CycleEvents)
       /\ broke = "database" => logged < Len(CycleEvents)
       /\ diff = NoDiff \/ diff = [changed |-> "error"] \/ AnsweredFromLog
  ELSE logged = 0 /\ broke = "nowhere" /\ diff = NoDiff

\* While the cycle is under way, and when it is over.
LEMMA NothingRecorded ==
  ASSUME stage' # "published", logged' = 0, broke' = "nowhere", diff' = NoDiff
  PROVE  RecordInv'
BY DEF RecordInv

\* The events of the cycle stay what they are.
LEMMA EventsStay ==
  ASSUME signals' = signals, decision' = decision
  PROVE  CycleEvents' = CycleEvents
BY DEF CycleEvents

\* (InMemoryEventBus.publish_many)
LEMMA PublishKeepsRecord ==
  ASSUME DecisionInv, RecordInv, Publish
  PROVE  RecordInv'
<1>1. /\ stage = "done" /\ stage' = "published"
      /\ signals' = signals /\ decision' = decision /\ diff' = diff
      /\ \/ logged' = Len(CycleEvents) /\ broke' = "nowhere"
         \/ /\ logged' \in {n \in Breaks : n < Len(CycleEvents)}
            /\ broke' \in {"redis", "database"}
  BY DEF Publish
<1>2. diff = NoDiff
  BY <1>1 DEF RecordInv
<1>3. PICK n \in Nat : DOMAIN signals = 1..n
  <2>1. Len(signals) \in Nat /\ DOMAIN signals = 1..Len(signals)
    BY OpinionsHeard, HeardPlaces
  <2> QED
    BY <2>1
<1>4. Len(CycleEvents) \in Nat
  BY <1>3, EventsPlaced DEF EventsOf
<1>5. CycleEvents' = CycleEvents
  BY <1>1, EventsStay
<1>6. PICK total \in Nat : total = Len(CycleEvents)
  BY <1>4
<1>7. logged' \in Nat /\ logged' <= total /\ (broke' = "database" => logged' < total)
  <2>1. CASE logged' = Len(CycleEvents) /\ broke' = "nowhere"
    BY <1>6, <2>1
  <2>2. CASE logged' \in {m \in Breaks : m < Len(CycleEvents)}
    <3>1. logged' \in Nat /\ logged' < total
      BY <1>6, <2>2, BreaksAssumption
    <3> QED
      BY <1>6, <3>1
  <2> QED
    BY <1>1, <2>1, <2>2
<1> QED
  BY <1>1, <1>2, <1>5, <1>6, <1>7 DEF RecordInv

\* What leaves the record alone and only answers.
LEMMA AnswerKeepsRecord ==
  ASSUME RecordInv, stage = "published", UNCHANGED <<engineVars, logged, broke>>,
         \/ diff' = diff
         \/ diff' = [changed |-> "error"]
         \/ /\ InLog("made")
            /\ \E order \in Orders(LoggedSignals), e \in Engines :
                 diff' = DecisionDiff(decision.value, Process(e, order, ctx, snapshot), e = engine)
  PROVE  RecordInv'
<1>1. /\ stage' = "published" /\ signals' = signals /\ decision' = decision /\ ctx' = ctx
      /\ snapshot' = snapshot /\ engine' = engine /\ logged' = logged /\ broke' = broke
  BY DEF engineVars
<1>2. /\ logged \in Nat /\ logged <= Len(CycleEvents)
      /\ broke = "database" => logged < Len(CycleEvents)
      /\ diff = NoDiff \/ diff = [changed |-> "error"] \/ AnsweredFromLog
  BY DEF RecordInv
<1>3. CycleEvents' = CycleEvents
  BY <1>1, EventsStay
<1>4. InLog("made")' = InLog("made") /\ LoggedSignals' = LoggedSignals
  BY <1>1, <1>3 DEF InLog, LoggedSignals
<1>5. NoDiff' = NoDiff
  BY DEF NoDiff
<1>6. diff' = NoDiff \/ diff' = [changed |-> "error"] \/ AnsweredFromLog'
  <2>1. CASE diff' = diff
    <3>1. CASE AnsweredFromLog
      BY <1>1, <1>4, <2>1, <3>1 DEF AnsweredFromLog
    <3> QED
      BY <1>2, <2>1, <3>1
  <2>2. CASE /\ InLog("made")
             /\ \E order \in Orders(LoggedSignals), e \in Engines :
                  diff' = DecisionDiff(decision.value, Process(e, order, ctx, snapshot), e = engine)
    BY <1>1, <1>4, <2>2 DEF AnsweredFromLog
  <2> QED
    BY <2>1, <2>2
<1> QED
  BY <1>1, <1>2, <1>3, <1>5, <1>6 DEF RecordInv

\* (re_execute_cycle)
LEMMA ReExecuteKeepsRecord ==
  ASSUME RecordInv, ReExecute
  PROVE  RecordInv'
<1>1. /\ stage = "published" /\ InLog("made") /\ UNCHANGED <<engineVars, logged, broke>>
      /\ diff' \in {DecisionDiff(decision.value, Process(e, order, ctx, snapshot), e = engine) :
                      order \in Orders(LoggedSignals),
                      e \in {x \in Engines : x.method = engine.method}}
  BY DEF ReExecute
<1>2. \E order \in Orders(LoggedSignals), e \in Engines :
        diff' = DecisionDiff(decision.value, Process(e, order, ctx, snapshot), e = engine)
  BY <1>1
<1> QED
  BY <1>1, <1>2, AnswerKeepsRecord

\* Until its end the cycle is not published.
LEMMA CycleKeepsRecord ==
  ASSUME RecordInv, Cycle
  PROVE  RecordInv'
<1>1. stage # "published" /\ stage' # "published"
  BY DEF Cycle, NextBar, AskProvider, Decide
<1>2. logged' = logged /\ broke' = broke /\ diff' = diff
  BY DEF Cycle, replayVars
<1>3. logged = 0 /\ broke = "nowhere" /\ diff = NoDiff
  BY <1>1 DEF RecordInv
<1> QED
  BY <1>1, <1>2, <1>3, NothingRecorded

\* The record of a cycle is of that cycle, up to where its batch broke off.
THEOREM RecordInvariance ==
  ReplaySpec => []RecordInv
<1>1. ReplayInit => RecordInv
  BY DEF ReplayInit, EngineInit, RecordInv
<1>2. DecisionInv /\ RecordInv /\ [ReplayNext]_<<engineVars, replayVars>> => RecordInv'
  <2> SUFFICES ASSUME DecisionInv, RecordInv, [ReplayNext]_<<engineVars, replayVars>>
               PROVE  RecordInv'
    OBVIOUS
  <2>1. CASE Cycle
    BY <2>1, CycleKeepsRecord
  <2>2. CASE Publish
    BY <2>2, PublishKeepsRecord
  <2>3. CASE ReExecute
    BY <2>3, ReExecuteKeepsRecord
  <2>4. CASE CannotReExecute
    <3>1. /\ stage = "published" /\ UNCHANGED <<engineVars, logged, broke>>
          /\ diff' = [changed |-> "error"]
      BY <2>4 DEF CannotReExecute
    <3> QED
      BY <3>1, AnswerKeepsRecord
  <2>5. CASE EndCycle
    <3>1. stage' = "waiting" /\ logged' = 0 /\ broke' = "nowhere" /\ diff' = NoDiff
      BY <2>5 DEF EndCycle, EndBar
    <3> QED
      BY <3>1, NothingRecorded
  <2>6. CASE UNCHANGED <<engineVars, replayVars>>
    <3>1. UNCHANGED <<engineVars, logged, broke>> /\ diff' = diff /\ stage' = stage
      BY <2>6 DEF engineVars, replayVars
    <3>2. CASE stage = "published"
      BY <3>1, <3>2, AnswerKeepsRecord
    <3>3. CASE stage # "published"
      <4>1. logged = 0 /\ broke = "nowhere" /\ diff = NoDiff
        BY <3>3 DEF RecordInv
      <4> QED
        BY <3>1, <3>3, <4>1, NothingRecorded
    <3> QED
      BY <3>2, <3>3
  <2> QED
    BY <2>1, <2>2, <2>3, <2>4, <2>5, <2>6 DEF ReplayNext
<1> QED
  BY <1>1, <1>2, DecisionInvariance, PTL DEF ReplaySpec

-----------------------------------------------------------------------------
(* A cycle executed again.                                                 *)

\* What the log keeps of a list of opinions, in the order they were given.
Bare(sigs) == [i \in DOMAIN sigs |-> FromEvent(sigs[i])]

\* Two lists whose opinions differ in nothing but their levels.
AllButLevels(sigs, bare) ==
  /\ DOMAIN bare = DOMAIN sigs
  /\ \A i \in DOMAIN sigs : /\ bare[i].side = sigs[i].side
                            /\ bare[i].confidence = sigs[i].confidence
                            /\ bare[i].weight = sigs[i].weight
                            /\ bare[i].provider = sigs[i].provider

\* The levels are missing, and nothing else is.
LEMMA BareTells ==
  ASSUME NEW sigs, NEW c, Heard(sigs, c), NEW bare, bare = Bare(sigs)
  PROVE  AllButLevels(sigs, bare) /\ Len(bare) = Len(sigs) /\ Heard(bare, c)
<1>1. PICK n \in Nat : n = Len(sigs)
  BY HeardPlaces
<1>2. DOMAIN sigs = 1..n
  BY <1>1, HeardPlaces
<1>3. bare = [i \in 1..n |-> FromEvent(sigs[i])]
  BY <1>2 DEF Bare
<1>4. DOMAIN bare = 1..n /\ Len(bare) = n /\ bare = [i \in 1..n |-> bare[i]]
  BY <1>3
<1>5. \A i \in 1..n : /\ bare[i].side = sigs[i].side
                      /\ bare[i].confidence = sigs[i].confidence
                      /\ bare[i].weight = sigs[i].weight
                      /\ bare[i].provider = sigs[i].provider
                      /\ bare[i].levels = <<>>
  BY <1>3 DEF FromEvent
<1>6. /\ \A i \in 1..n : /\ sigs[i].provider \in ProviderIds
                         /\ Opinion(sigs[i], sigs[i].provider, c)
      /\ \A i, j \in 1..n : sigs[i].provider = sigs[j].provider => i = j
  BY <1>1 DEF Heard
<1>7. ASSUME NEW i \in 1..n
      PROVE  bare[i].provider \in ProviderIds /\ Opinion(bare[i], bare[i].provider, c)
  BY <1>5, <1>6 DEF Opinion
<1>8. \A i, j \in 1..n : bare[i].provider = bare[j].provider => i = j
  BY <1>5, <1>6
<1>9. Heard(bare, c)
  BY <1>4, <1>7, <1>8 DEF Heard
<1>10. AllButLevels(sigs, bare)
  BY <1>2, <1>4, <1>5 DEF AllButLevels
<1> QED
  BY <1>1, <1>4, <1>9, <1>10

\* A success does not depend on levels,
LEMMA BareSuccess ==
  ASSUME NEW sigs, NEW c, Heard(sigs, c), NEW bare, bare = Bare(sigs),
         NEW W \in SUBSET DOMAIN sigs, NEW L \in SUBSET DOMAIN sigs, NEW side, NEW weighted
  PROVE  Success(bare, W, L, side, weighted) = Success(sigs, W, L, side, weighted)
<1>1. \A i \in DOMAIN sigs : /\ bare[i].confidence = sigs[i].confidence
                             /\ bare[i].weight = sigs[i].weight
                             /\ bare[i].provider = sigs[i].provider
  <2>1. AllButLevels(sigs, bare)
    BY BareTells
  <2> QED
    BY <2>1 DEF AllButLevels
<1>2. Names(bare, W) = Names(sigs, W) /\ Names(bare, L) = Names(sigs, L)
  BY <1>1 DEF Names
<1>3. /\ [i \in W |-> bare[i].confidence] = [i \in W |-> sigs[i].confidence]
      /\ [i \in W |-> bare[i].weight] = [i \in W |-> sigs[i].weight]
  BY <1>1
<1>4. Confidence(bare, W, weighted) = Confidence(sigs, W, weighted)
  BY <1>3 DEF Confidence
<1> QED
  BY <1>2, <1>4 DEF Success

\* and so nothing does that the aggregator says (Aggregator.combine).
LEMMA BareCombine ==
  ASSUME NEW sigs, NEW c, Heard(sigs, c), NEW bare, bare = Bare(sigs), NEW e
  PROVE  Combine(e, bare) = Combine(e, sigs)
<1>1. DOMAIN bare = DOMAIN sigs /\ \A i \in DOMAIN sigs : bare[i].side = sigs[i].side
  BY BareTells DEF AllButLevels
<1>2. \A side : Side(bare, side) = Side(sigs, side) /\ Side(sigs, side) \in SUBSET DOMAIN sigs
  BY <1>1 DEF Side
<1>3. Active(bare) = Active(sigs) /\ Active(sigs) \in SUBSET DOMAIN sigs
  BY <1>1 DEF Active
<1>4. {bare[i].side : i \in Active(sigs)} = {sigs[i].side : i \in Active(sigs)}
  BY <1>1, <1>3
<1>5. \A weighted : \A side, against :
        Success(bare, Side(sigs, side), Side(sigs, against), side, weighted)
          = Success(sigs, Side(sigs, side), Side(sigs, against), side, weighted)
  BY <1>2, BareSuccess
<1>6. \A side : Success(bare, Active(sigs), {}, side, TRUE)
                  = Success(sigs, Active(sigs), {}, side, TRUE)
  <2>1. PICK none, weighted : none = {} /\ weighted = TRUE
    OBVIOUS
  <2>2. none \in SUBSET DOMAIN sigs
    BY <2>1
  <2>3. \A side : Success(bare, Active(sigs), none, side, weighted)
                    = Success(sigs, Active(sigs), none, side, weighted)
    BY <1>3, <2>2, BareSuccess
  <2> QED
    BY <2>1, <2>3
<1>7. CombineUnanimous(e, bare) = CombineUnanimous(e, sigs)
  BY <1>3, <1>4, <1>6 DEF CombineUnanimous
<1>8. \A weighted : CombineMajority(e, bare, weighted) = CombineMajority(e, sigs, weighted)
  BY <1>2, <1>3, <1>5 DEF CombineMajority
<1> QED
  BY <1>7, <1>8 DEF Combine

\* In whatever order the opinions come back, they are the cycle's (fetch_events_by_correlation).
LEMMA OrdersShuffle ==
  ASSUME NEW sigs, NEW c, Heard(sigs, c), NEW order \in Orders(sigs)
  PROVE  \E p : Shuffled(Bare(sigs), order, p)
<1>1. PICK n \in Nat : n = Len(sigs)
  BY HeardPlaces
<1>2. DOMAIN sigs = 1..n
  BY <1>1, HeardPlaces
<1>3. PICK p \in [1..n -> 1..n] :
        /\ Range(p) = 1..n
        /\ order = [i \in 1..n |-> FromEvent(sigs[p[i]])]
  BY <1>2 DEF Orders
<1>4. PICK bare : bare = Bare(sigs)
  OBVIOUS
<1>5. DOMAIN bare = 1..n /\ Len(bare) = n
  BY <1>1, <1>2, <1>4, BareTells DEF AllButLevels
<1>6. bare = [i \in 1..n |-> FromEvent(sigs[i])]
  BY <1>2, <1>4 DEF Bare
<1>7. DOMAIN order = 1..n /\ Len(order) = n
  BY <1>3
<1>8. \A x \in 1..n : order[x] = bare[p[x]]
  BY <1>3, <1>6
<1>9. p \in Surjection(1..n, 1..n)
  BY <1>3 DEF Surjection, Range
<1>10. IsFiniteSet(1..n)
  BY FS_Interval
<1>11. p \in Injection(1..n, 1..n)
  BY <1>9, <1>10, FS_SurjSameCardinalityImpliesInj
<1>12. p \in Bijection(1..n, 1..n)
  BY <1>9, <1>11 DEF Bijection
<1> QED
  BY <1>4, <1>5, <1>7, <1>8, <1>12 DEF Shuffled

\* The aggregator hears the same in them.
LEMMA OrdersCombine ==
  ASSUME NEW sigs, NEW c, Heard(sigs, c), NEW order \in Orders(sigs), NEW e
  PROVE  Combine(e, order) = Combine(e, sigs)
<1>1. PICK bare : bare = Bare(sigs)
  OBVIOUS
<1>2. Heard(bare, c)
  BY <1>1, BareTells
<1>3. PICK p : Shuffled(bare, order, p)
  BY <1>1, OrdersShuffle
<1>4. Combine(e, order) = Combine(e, bare)
  BY <1>2, <1>3, CombineShuffled
<1> QED
  BY <1>1, <1>4, BareCombine

\* Two decisions that differ in what they make of the reward and of the levels.
AgreeButForReward(d, again) ==
  "min_risk_reward" \notin {NoneOrReason(d), NoneOrReason(again)} =>
    /\ again.value = d.value
    /\ NoneOrReason(again) = NoneOrReason(d)
    /\ NoneOrSide(again) = NoneOrSide(d)
    /\ d.value = "approved" => again.signal.confidence = d.signal.confidence

\* What process decides of opinions on which the aggregator agrees.
LEMMA SameConsensus ==
  ASSUME NEW e, NEW sigs, NEW other, Combine(e, other) = Combine(e, sigs), NEW c, NEW snap
  PROVE  AgreeButForReward(Process(e, sigs, c, snap), Process(e, other, c, snap))
<1> DEFINE agg    == Combine(e, sigs)
           checks == RiskChecks(e, agg, snap)
           failed == Failed(checks)
           filter == FilterCheck(e, c)
           Final(s)  == BuildSignal(e, agg, s, c)
           Reward(s) == RewardCheck(e, Final(s))
           Choice(s) == IF filter # "passed" THEN Rejected("market_filter", filter)
                       ELSE IF ~agg.ok THEN Rejected("aggregator", agg.reason)
                       ELSE IF failed # {} THEN Rejected("risk_manager", checks[FirstOf(failed)].name)
                       ELSE IF ~Reward(s).passed THEN Rejected("risk_manager", Reward(s).name)
                       ELSE Approved(Final(s))
<1>1. Process(e, sigs, c, snap) = Choice(sigs) /\ Process(e, other, c, snap) = Choice(other)
  BY DEF Process
<1>2. PICK d : d = Choice(sigs)
  OBVIOUS
<1>3. PICK again : again = Choice(other)
  OBVIOUS
<1>4. CASE filter # "passed" \/ ~agg.ok \/ failed # {}
  <2>1. Choice(other) = Choice(sigs)
    BY <1>4
  <2>2. again = d
    BY <1>2, <1>3, <2>1
  <2>3. AgreeButForReward(d, again)
    BY <2>2 DEF AgreeButForReward
  <2> QED
    BY <1>1, <1>2, <1>3, <2>3
<1>5. CASE filter = "passed" /\ agg.ok /\ failed = {}
  <2>1. \A s : Choice(s) = IF ~Reward(s).passed THEN Rejected("risk_manager", Reward(s).name)
                           ELSE Approved(Final(s))
    BY <1>5
  <2>2. \A s : /\ Reward(s).name = "min_risk_reward"
               /\ Final(s).side = agg.side /\ Final(s).confidence = agg.confidence
    BY DEF RewardCheck, BuildSignal
  <2>3. \A s : \/ NoneOrReason(Choice(s)) = "min_risk_reward"
               \/ /\ Choice(s).value = "approved" /\ Choice(s).signal.side = agg.side
                  /\ Choice(s).signal.confidence = agg.confidence
    <3> SUFFICES ASSUME NEW s
                 PROVE  \/ NoneOrReason(Choice(s)) = "min_risk_reward"
                        \/ /\ Choice(s).value = "approved" /\ Choice(s).signal.side = agg.side
                           /\ Choice(s).signal.confidence = agg.confidence
      OBVIOUS
    <3>1. PICK x : x = Choice(s)
      OBVIOUS
    <3>2. CASE ~Reward(s).passed
      <4>1. x = Rejected("risk_manager", "min_risk_reward")
        BY <2>1, <2>2, <3>1, <3>2
      <4>2. NoneOrReason(x) = "min_risk_reward"
        BY <4>1 DEF Rejected, NoneOrReason
      <4> QED
        BY <3>1, <4>2
    <3>3. CASE Reward(s).passed
      <4>1. x = Approved(Final(s))
        BY <2>1, <3>1, <3>3
      <4>2. x.value = "approved" /\ x.signal.side = agg.side /\ x.signal.confidence = agg.confidence
        BY <2>2, <4>1 DEF Approved
      <4> QED
        BY <3>1, <4>2
    <3> QED
      BY <3>2, <3>3
  <2>4. \A x \in {d, again} :
          \/ NoneOrReason(x) = "min_risk_reward"
          \/ x.value = "approved" /\ x.signal.side = agg.side /\ x.signal.confidence = agg.confidence
    BY <1>2, <1>3, <2>3
  <2> HIDE DEF agg
  <2>5. AgreeButForReward(d, again)
    BY <2>4 DEF AgreeButForReward, NoneOrReason, NoneOrSide
  <2> QED
    BY <1>1, <1>2, <1>3, <2>5
<1> QED
  BY <1>4, <1>5

\* A log that has DecisionMade has every opinion (_signals_from_events).
LEMMA AllLogged ==
  ASSUME DecisionInv, InLog("made"), logged \in Nat, NEW n \in Nat, n = Len(signals),
         logged >= n + 4
  PROVE  LoggedSignals = signals
<1>1. signals = [i \in 1..n |-> signals[i]]
  BY DEF DecisionInv, OpinionsInOrder
<1>2. PICK S : S = {signals[i] : i \in 1..n}
  OBVIOUS
<1>3. signals \in Seq(S)
  <2>1. signals \in [1..n -> S]
    BY <1>1, <1>2
  <2> QED
    BY <2>1
<1>4. Largest(0, Smallest(logged - 3, n)) = n
  BY DEF Largest, Smallest
<1>5. SubSeq(signals, 1, Len(signals)) = signals
  BY <1>3, SubSeqFull
<1> QED
  BY <1>4, <1>5 DEF LoggedSignals

-----------------------------------------------------------------------------
(* What the record holds, and who has been told.                           *)

\* The record of a published cycle with n opinions.
Recorded(n, events, total) ==
  /\ n \in Nat /\ total \in Nat /\ total = Len(events) /\ n = Len(signals)
  /\ DOMAIN signals = 1..n /\ events = CycleEvents
  /\ EventsOf(events, n, decision.value = "approved")
  /\ logged \in Nat /\ logged <= total
  /\ broke = "database" => logged < total

\* It is one: of nothing if the cycle has not been published yet.
LEMMA RecordIsOne ==
  ASSUME DecisionInv, RecordInv
  PROVE  \E n, events, total : Recorded(n, events, total)
<1>1. PICK n \in Nat : n = Len(signals) /\ DOMAIN signals = 1..n
  <2>1. Len(signals) \in Nat /\ DOMAIN signals = 1..Len(signals)
    BY OpinionsHeard, HeardPlaces
  <2> QED
    BY <2>1
<1>2. PICK events : events = CycleEvents
  OBVIOUS
<1>3. EventsOf(events, n, decision.value = "approved")
  BY <1>1, <1>2, EventsPlaced
<1>4. PICK total \in Nat : total = Len(events)
  BY <1>3 DEF EventsOf
<1>5. logged \in Nat /\ logged <= total /\ (broke = "database" => logged < total)
  <2>1. CASE stage = "published"
    BY <1>2, <1>4, <2>1 DEF RecordInv
  <2>2. CASE stage # "published"
    <3>1. logged = 0 /\ broke = "nowhere"
      BY <2>2 DEF RecordInv
    <3> QED
      BY <1>4, <3>1
  <2> QED
    BY <2>1, <2>2
<1> QED
  BY <1>1, <1>2, <1>3, <1>4, <1>5 DEF Recorded

\* Where each of the last events is, if it is there at all.
LEMMA LastPlaces ==
  ASSUME NEW events, NEW n \in Nat, NEW approved \in BOOLEAN, EventsOf(events, n, approved),
         NEW i \in Nat, i >= 1, i <= Len(events)
  PROVE  /\ events[i] = "context" <=> i = 3
         /\ events[i] = "made" <=> i = n + 4
         /\ events[i] = "outcome" <=> i = n + 5
         /\ events[i] = "published" <=> approved /\ i = n + 6
<1>1. Len(events) = n + 5 + (IF approved THEN 1 ELSE 0)
  BY DEF EventsOf
<1>2. CASE i <= 3
  <2>1. i = 1 \/ i = 2 \/ i = 3
    BY <1>2
  <2>2. events[1] = "candle" /\ events[2] = "features" /\ events[3] = "context"
    BY DEF EventsOf
  <2> QED
    BY <2>1, <2>2
<1>3. CASE i > 3 /\ i <= n + 3
  <2>1. events[i] = "opinion"
    BY <1>3 DEF EventsOf
  <2> QED
    BY <1>3, <2>1
<1>4. CASE i = n + 4
  BY <1>4 DEF EventsOf
<1>5. CASE i = n + 5
  BY <1>5 DEF EventsOf
<1>6. CASE approved /\ i = n + 6
  BY <1>6 DEF EventsOf
<1> QED
  BY <1>1, <1>2, <1>3, <1>4, <1>5, <1>6

\* What the log holds of a cycle is said by its length.
LEMMA LogReaches ==
  ASSUME NEW n, NEW events, NEW total, Recorded(n, events, total)
  PROVE  /\ InLog("context") <=> logged >= 3
         /\ InLog("made") <=> logged >= n + 4
         /\ InLog("outcome") <=> logged >= n + 5
         /\ InLog("published") <=> decision.value = "approved" /\ logged >= n + 6
<1>1. /\ n \in Nat /\ total \in Nat /\ total = Len(events) /\ logged \in Nat /\ logged <= total
      /\ events = CycleEvents
  BY DEF Recorded
<1>2. PICK approved \in BOOLEAN : approved <=> decision.value = "approved"
  OBVIOUS
<1>3. approved = (decision.value = "approved")
  BY <1>2
<1>4. EventsOf(events, n, approved)
  BY <1>3 DEF Recorded
<1>5. \A i \in Nat : i >= 1 /\ i <= total =>
        /\ events[i] = "context" <=> i = 3
        /\ events[i] = "made" <=> i = n + 4
        /\ events[i] = "outcome" <=> i = n + 5
        /\ events[i] = "published" <=> approved /\ i = n + 6
  BY <1>1, <1>4, LastPlaces
<1>6. \A type : InLog(type) <=> \E i \in 1..logged : events[i] = type
  BY <1>1 DEF InLog
<1>7. InLog("context") <=> logged >= 3
  BY <1>1, <1>5, <1>6
<1>8. InLog("made") <=> logged >= n + 4
  BY <1>1, <1>5, <1>6
<1>9. InLog("outcome") <=> logged >= n + 5
  BY <1>1, <1>5, <1>6
<1>10. InLog("published") <=> approved /\ logged >= n + 6
  <2>1. ASSUME NEW i \in 1..logged, events[i] = "published"
        PROVE  approved /\ logged >= n + 6
    <3>1. i \in Nat /\ i >= 1 /\ i <= total
      BY <1>1
    <3>2. approved /\ i = n + 6
      BY <1>5, <2>1, <3>1
    <3> QED
      BY <1>1, <3>2
  <2>2. ASSUME approved, logged >= n + 6
        PROVE  \E i \in 1..logged : events[i] = "published"
    <3>1. n + 6 \in 1..logged /\ n + 6 \in Nat /\ n + 6 >= 1 /\ n + 6 <= total
      BY <1>1, <2>2
    <3>2. events[n + 6] = "published"
      BY <1>5, <2>2, <3>1
    <3> QED
      BY <3>1, <3>2
  <2> QED
    BY <1>6, <2>1, <2>2
<1> QED
  BY <1>2, <1>7, <1>8, <1>9, <1>10

\* Whoever is handed an event before the database is handed one more at most.
LEMMA HandedOut ==
  /\ Delivered("websocket") = IF broke = "database" THEN logged + 1 ELSE logged
  /\ Delivered("telegram") = logged
<1> DEFINE place(x) == CHOOSE k \in DOMAIN Handlers : Handlers[k] = x
<1>1. DOMAIN Handlers = 1..3 /\ Handlers[1] = "websocket" /\ Handlers[2] = "database"
      /\ Handlers[3] = "telegram"
  BY DEF Handlers
<1>2. \A k \in DOMAIN Handlers : k = 1 \/ k = 2 \/ k = 3
  BY <1>1
<1>3. 1 \in DOMAIN Handlers /\ 2 \in DOMAIN Handlers /\ 3 \in DOMAIN Handlers
  BY <1>1
<1>4. place("websocket") = 1 /\ place("database") = 2 /\ place("telegram") = 3
  BY <1>1, <1>2, <1>3
<1>5. \A h : Delivered(h) = IF broke = "database" /\ place(h) < place("database")
                            THEN logged + 1 ELSE logged
  BY DEF Delivered
<1> HIDE DEF place
<1> QED
  BY <1>4, <1>5

\* (WebSocketEventHandler, TelegramEventHandler)
LEMMA TellsOnRecord ==
  ASSUME NEW n, NEW events, NEW total, Recorded(n, events, total)
  PROVE  ToldIsOnRecord
<1>1. /\ n \in Nat /\ total \in Nat /\ total = Len(events) /\ logged \in Nat /\ logged <= total
      /\ events = CycleEvents /\ (broke = "database" => logged < total)
  BY DEF Recorded
<1>2. PICK approved \in BOOLEAN : approved <=> decision.value = "approved"
  OBVIOUS
<1>3. approved = (decision.value = "approved")
  BY <1>2
<1>4. EventsOf(events, n, approved)
  BY <1>3 DEF Recorded
<1>5. \A i \in Nat : i >= 1 /\ i <= total =>
        /\ events[i] = "outcome" <=> i = n + 5
        /\ events[i] = "published" <=> approved /\ i = n + 6
  BY <1>1, <1>4, LastPlaces
<1>6. ASSUME Told("websocket") # {}
      PROVE  InLog("made") /\ InLog("context")
  <2>1. PICK i \in 1..Delivered("websocket") : events[i] \in {"outcome", "published"}
    BY <1>1, <1>6 DEF Told, Listens
  <2>2. Delivered("websocket") \in Nat /\ Delivered("websocket") <= logged + 1
        /\ Delivered("websocket") <= total
    BY <1>1, HandedOut
  <2>3. i \in Nat /\ i >= 1 /\ i <= total /\ i <= logged + 1
    BY <1>1, <2>2
  <2>4. i = n + 5 \/ i = n + 6
    BY <1>5, <2>1, <2>3
  <2>5. logged >= n + 4 /\ logged >= 3
    BY <1>1, <2>3, <2>4
  <2> QED
    BY <2>5, LogReaches
<1>7. ASSUME Told("telegram") # {}
      PROVE  InLog("outcome") /\ InLog("published")
  <2>1. PICK i \in 1..logged : events[i] = "published"
    BY <1>1, <1>7, HandedOut DEF Told, Listens
  <2>2. approved /\ i = n + 6
    BY <1>1, <1>5, <2>1
  <2>3. logged >= n + 6 /\ logged >= n + 5
    BY <1>1, <2>2
  <2> QED
    BY <1>2, <2>2, <2>3, LogReaches
<1> QED
  BY <1>6, <1>7 DEF ToldIsOnRecord

-----------------------------------------------------------------------------
(* The decision of a record, and its stage.                                *)

\* (re_execute_cycle, build_decision_diff)
LEMMA DecidesTheSame ==
  ASSUME DecisionInv, RecordInv
  PROVE  DecidesAgain
<1>1. SUFFICES ASSUME "same" \in DOMAIN diff, diff.same
               PROVE  AgreeButForReward(decision, diff.again)
  BY DEF DecidesAgain, AgreeButForReward
<1>2. diff # NoDiff /\ diff # [changed |-> "error"]
  BY <1>1 DEF NoDiff
<1>3. stage = "published" /\ AnsweredFromLog
  BY <1>2 DEF RecordInv
<1>4. PICK order \in Orders(LoggedSignals), e \in Engines :
        diff = DecisionDiff(decision.value, Process(e, order, ctx, snapshot), e = engine)
  BY <1>3 DEF AnsweredFromLog
<1>5. diff.again = Process(e, order, ctx, snapshot) /\ diff.same = (e = engine)
  BY <1>4 DEF DecisionDiff
<1>6. e = engine
  BY <1>1, <1>5
<1>7. decision = Process(engine, signals, ctx, snapshot)
  BY <1>3 DEF DecisionInv, DecisionIsProcessed
<1>8. PICK n, events, total : Recorded(n, events, total)
  BY RecordIsOne
<1>9. LoggedSignals = signals
  <2>1. InLog("made") /\ n \in Nat /\ n = Len(signals) /\ logged \in Nat
    BY <1>3, <1>8 DEF AnsweredFromLog, Recorded
  <2>2. logged >= n + 4
    BY <1>8, <2>1, LogReaches
  <2> QED
    BY <2>1, <2>2, AllLogged
<1>10. Combine(engine, order) = Combine(engine, signals)
  BY <1>4, <1>9, OpinionsHeard, OrdersCombine
<1> QED
  BY <1>5, <1>6, <1>7, <1>10, SameConsensus

\* The stage that is read from a decision log is that of the decision
\* (_extract_rejection_stage).
LEMMA StageIsTold ==
  ASSUME DecisionInv, stage \in {"done", "published"}, decision.value = "rejected"
  PROVE  Summary.stage = decision.stage
<1>1. decision = Process(engine, signals, ctx, snapshot)
  BY DEF DecisionInv, DecisionIsProcessed
<1>2. PICK agg : agg = Combine(engine, signals)
  OBVIOUS
<1>3. PICK filter : filter = FilterCheck(engine, ctx)
  OBVIOUS
<1>4. PICK log : log = DecisionLog
  OBVIOUS
<1>5. log.filter = filter /\ log.side = IF filter = "passed" /\ agg.ok THEN agg.side ELSE "HOLD"
  BY <1>2, <1>3, <1>4 DEF DecisionLog
<1>6. PICK checks : checks = RiskChecks(engine, agg, snapshot)
  OBVIOUS
<1>7. PICK final : final = BuildSignal(engine, agg, signals, ctx)
  OBVIOUS
<1>8. decision = IF filter # "passed" THEN Rejected("market_filter", filter)
                 ELSE IF ~agg.ok THEN Rejected("aggregator", agg.reason)
                 ELSE IF Failed(checks) # {} THEN Rejected("risk_manager", checks[FirstOf(Failed(checks))].name)
                 ELSE IF ~RewardCheck(engine, final).passed
                      THEN Rejected("risk_manager", RewardCheck(engine, final).name)
                 ELSE Approved(final)
  BY <1>1, <1>2, <1>3, <1>6, <1>7 DEF Process
<1>9. \A at, reason : Rejected(at, reason).stage = at
  BY DEF Rejected
<1>10. Approved(final).value = "approved"
  BY DEF Approved
<1>11. ExtractStage(log) = decision.stage
  <2>1. CASE filter # "passed"
    BY <1>5, <1>8, <1>9, <2>1 DEF ExtractStage
  <2>2. CASE filter = "passed" /\ ~agg.ok
    BY <1>5, <1>8, <1>9, <2>2 DEF ExtractStage
  <2>3. CASE filter = "passed" /\ agg.ok
    <3>1. Wins(engine, signals, agg)
      BY <1>2, <2>3, OpinionsHeard, EngineIsBounded, CombineDecided DEF Decided
    <3>2. agg.side # "HOLD"
      BY <3>1 DEF Wins
    <3>3. decision.stage = "risk_manager"
      BY <1>8, <1>9, <1>10, <2>3
    <3> QED
      BY <1>5, <2>3, <3>2, <3>3 DEF ExtractStage
  <2> QED
    BY <2>1, <2>2, <2>3
<1> QED
  BY <1>4, <1>11 DEF Summary

-----------------------------------------------------------------------------
(* The rows of a record, sorted and joined.                                *)

\* What the sort compares by: the family, then the place in the log.
Ahead(rows, j, k) ==
  \/ rows[j].family < rows[k].family
  \/ rows[j].family = rows[k].family /\ j < k

\* A list of rows with a family each.
Sortable(rows, m) ==
  m \in Nat /\ DOMAIN rows = 1..m /\ \A k \in 1..m : rows[k].family \in Nat

\* A row that is ahead of another is listed before it,
LEMMA AheadIsBefore ==
  ASSUME NEW rows, NEW m, Sortable(rows, m), NEW j \in 1..m, NEW k \in 1..m, Ahead(rows, j, k)
  PROVE  Timeline(rows)[j] \in Nat /\ Timeline(rows)[k] \in Nat
         /\ Timeline(rows)[j] < Timeline(rows)[k] /\ Timeline(rows)[k] <= m
<1> DEFINE S(x) == {y \in 1..m : y = x \/ Ahead(rows, y, x)}
<1>1. m \in Nat /\ DOMAIN rows = 1..m /\ \A x \in 1..m : rows[x].family \in Nat
  BY DEF Sortable
<1>2. \A x \in 1..m : Timeline(rows)[x] = Cardinality(S(x))
  BY <1>1 DEF Timeline, Ahead
<1>3. PICK A, B : A = S(j) /\ B = S(k)
  OBVIOUS
<1>4. A \in SUBSET (1..m) /\ B \in SUBSET (1..m)
  BY <1>3
<1>5. A \subseteq B
  <2> SUFFICES ASSUME NEW y \in 1..m, y = j \/ Ahead(rows, y, j) PROVE Ahead(rows, y, k)
    BY <1>3
  <2> QED
    BY <1>1 DEF Ahead
<1>6. k \notin A /\ k \in B
  <2>1. ~Ahead(rows, k, j) /\ k # j
    BY <1>1 DEF Ahead
  <2> QED
    BY <1>3, <2>1
<1>7. IsFiniteSet(1..m) /\ Cardinality(1..m) = m
  BY <1>1, FS_Interval
<1>8. IsFiniteSet(B) /\ Cardinality(B) \in Nat /\ Cardinality(B) <= m
  BY <1>4, <1>7, FS_Subset, FS_CardinalityType
<1>9. IsFiniteSet(A) /\ Cardinality(A) \in Nat
  BY <1>4, <1>7, FS_Subset, FS_CardinalityType
<1>10. Cardinality(A) <= Cardinality(B) /\ Cardinality(A) # Cardinality(B)
  <2>1. A \in SUBSET B /\ A # B
    BY <1>5, <1>6
  <2> QED
    BY <1>8, <2>1, FS_Subset
<1>11. Timeline(rows)[j] = Cardinality(A) /\ Timeline(rows)[k] = Cardinality(B)
  BY <1>2, <1>3
<1> QED
  BY <1>8, <1>9, <1>10, <1>11

\* and every place is taken (build_timeline).
LEMMA EveryPlaceTaken ==
  ASSUME NEW rows, NEW m, Sortable(rows, m)
  PROVE  Range(Timeline(rows)) = 1..m
<1>1. m \in Nat /\ DOMAIN rows = 1..m /\ \A x \in 1..m : rows[x].family \in Nat
  BY DEF Sortable
<1>2. PICK line : line = Timeline(rows)
  OBVIOUS
<1>3. DOMAIN line = 1..m
  BY <1>1, <1>2 DEF Timeline
<1>4. IsFiniteSet(1..m) /\ Cardinality(1..m) = m
  BY <1>1, FS_Interval
<1>5. ASSUME NEW x \in 1..m
      PROVE  line[x] \in 1..m
  <2>1. PICK A : A = {y \in 1..m : y = x \/ Ahead(rows, y, x)}
    OBVIOUS
  <2>2. line[x] = Cardinality(A)
    BY <1>1, <1>2, <2>1 DEF Timeline, Ahead
  <2>3. A \in SUBSET (1..m) /\ A # {}
    BY <2>1
  <2>4. IsFiniteSet(A) /\ Cardinality(A) \in Nat /\ Cardinality(A) <= m
    BY <1>4, <2>3, FS_Subset, FS_CardinalityType
  <2>5. Cardinality(A) # 0
    BY <2>3, <2>4, FS_EmptySet
  <2> QED
    BY <1>1, <2>2, <2>4, <2>5
<1>6. ASSUME NEW x \in 1..m, NEW y \in 1..m, x # y
      PROVE  line[x] # line[y]
  <2>1. Ahead(rows, x, y) \/ Ahead(rows, y, x)
    BY <1>1, <1>6 DEF Ahead
  <2>2. CASE Ahead(rows, x, y)
    <3>1. line[x] \in Nat /\ line[y] \in Nat /\ line[x] < line[y]
      BY <1>2, <2>2, AheadIsBefore
    <3> QED
      BY <3>1
  <2>3. CASE Ahead(rows, y, x)
    <3>1. line[x] \in Nat /\ line[y] \in Nat /\ line[y] < line[x]
      BY <1>2, <2>3, AheadIsBefore
    <3> QED
      BY <3>1
  <2> QED
    BY <2>1, <2>2, <2>3
<1>7. line = [x \in 1..m |-> line[x]]
  BY <1>1, <1>2 DEF Timeline
<1>8. line \in [1..m -> 1..m]
  BY <1>5, <1>7
<1>9. line \in Injection(1..m, 1..m)
  BY <1>3, <1>6, <1>8 DEF Injection, IsInjective
<1>10. line \in Surjection(1..m, 1..m)
  BY <1>4, <1>9, FS_Injection
<1>11. Range(line) = 1..m
  BY <1>3, <1>10 DEF Surjection, Range
<1> QED
  BY <1>2, <1>11

-----------------------------------------------------------------------------
(* The causes of the events, and their families.                           *)

\* The page that lists events of a type.
FamilyOf(type) == CHOOSE f \in DOMAIN Families : type \in Families[f]

\* Every type is of one family.
LEMMA FamiliesApart ==
  /\ FamilyOf("candle") = 1 /\ FamilyOf("features") = 1 /\ FamilyOf("context") = 1
  /\ FamilyOf("opinion") = 2 /\ FamilyOf("made") = 3 /\ FamilyOf("outcome") = 3
  /\ FamilyOf("published") = 4
<1>1. /\ DOMAIN Families = 1..4
      /\ Families[1] = {"candle", "features", "context"} /\ Families[2] = {"opinion"}
      /\ Families[3] = {"made", "outcome"} /\ Families[4] = {"published"}
  BY DEF Families
<1>2. \A f \in DOMAIN Families : f = 1 \/ f = 2 \/ f = 3 \/ f = 4
  BY <1>1
<1>3. ASSUME NEW f \in 1..4, NEW type, type \in Families[f],
             \A g \in 1..4 : type \in Families[g] => g = f
      PROVE  FamilyOf(type) = f
  BY <1>1, <1>3 DEF FamilyOf
<1>4. FamilyOf("candle") = 1
  BY <1>1, <1>2, <1>3
<1>5. FamilyOf("features") = 1
  BY <1>1, <1>2, <1>3
<1>6. FamilyOf("context") = 1
  BY <1>1, <1>2, <1>3
<1>7. FamilyOf("opinion") = 2
  BY <1>1, <1>2, <1>3
<1>8. FamilyOf("made") = 3
  BY <1>1, <1>2, <1>3
<1>9. FamilyOf("outcome") = 3
  BY <1>1, <1>2, <1>3
<1>10. FamilyOf("published") = 4
  BY <1>1, <1>2, <1>3
<1> QED
  BY <1>4, <1>5, <1>6, <1>7, <1>8, <1>9, <1>10

\* The event of a cycle has a cause before it, the first excepted, and the families
\* come in their order.
Standing(i, n) == IF i <= 3 THEN 1 ELSE IF i <= n + 3 THEN 2 ELSE IF i <= n + 5 THEN 3 ELSE 4

\* (PlatformRuntime._decide)
LEMMA EventStands ==
  ASSUME NEW events, NEW n \in Nat, NEW approved \in BOOLEAN, EventsOf(events, n, approved),
         NEW i \in Nat, i >= 1, i <= Len(events)
  PROVE  /\ FamilyOf(events[i]) = Standing(i, n)
         /\ Cause(events[i], i) \in Nat /\ Cause(events[i], i) < i
         /\ Cause(events[i], i) = 0 <=> i = 1
<1>1. Len(events) = n + 5 + (IF approved THEN 1 ELSE 0)
  BY DEF EventsOf
<1>2. CASE i = 1
  <2>1. events[i] = "candle"
    BY <1>2 DEF EventsOf
  <2> QED
    BY <1>2, <2>1, FamiliesApart DEF Standing, Cause
<1>3. CASE i = 2
  <2>1. events[i] = "features"
    BY <1>3 DEF EventsOf
  <2> QED
    BY <1>3, <2>1, FamiliesApart DEF Standing, Cause
<1>4. CASE i = 3
  <2>1. events[i] = "context"
    BY <1>4 DEF EventsOf
  <2> QED
    BY <1>4, <2>1, FamiliesApart DEF Standing, Cause
<1>5. CASE i > 3 /\ i <= n + 3
  <2>1. events[i] = "opinion"
    BY <1>5 DEF EventsOf
  <2> QED
    BY <1>5, <2>1, FamiliesApart DEF Standing, Cause
<1>6. CASE i = n + 4
  <2>1. events[i] = "made"
    BY <1>6 DEF EventsOf
  <2> QED
    BY <1>6, <2>1, FamiliesApart DEF Standing, Cause
<1>7. CASE i = n + 5
  <2>1. events[i] = "outcome"
    BY <1>7 DEF EventsOf
  <2> QED
    BY <1>7, <2>1, FamiliesApart DEF Standing, Cause
<1>8. CASE approved /\ i = n + 6
  <2>1. events[i] = "published"
    BY <1>8 DEF EventsOf
  <2> QED
    BY <1>8, <2>1, FamiliesApart DEF Standing, Cause
<1> QED
  BY <1>1, <1>2, <1>3, <1>4, <1>5, <1>6, <1>7, <1>8

\* The rows of the first m events of a cycle, in some order.
RowsOf(rows, order, m) ==
  /\ m \in Nat /\ DOMAIN order = 1..m /\ Range(order) = 1..m /\ DOMAIN rows = 1..m
  /\ \A k \in 1..m :
       /\ order[k] \in 1..m /\ rows[k].id = order[k] /\ rows[k].family \in Nat
       /\ rows[k].cause \in Nat /\ rows[k].cause < order[k] /\ (rows[k].cause = 0 <=> order[k] = 1)
  /\ \A j, k \in 1..m : rows[j].id < rows[k].id => rows[j].family <= rows[k].family

\* Whatever the order, they are joined to their causes and go with their families.
LEMMA RowsAreOf ==
  ASSUME NEW n, NEW events, NEW total, Recorded(n, events, total),
         NEW order, DOMAIN order = 1..logged, Range(order) = 1..logged
  PROVE  RowsOf(Rows(order), order, logged)
<1>1. /\ n \in Nat /\ total \in Nat /\ total = Len(events) /\ logged \in Nat /\ logged <= total
      /\ events = CycleEvents
  BY DEF Recorded
<1>2. PICK approved \in BOOLEAN : approved = (decision.value = "approved")
  OBVIOUS
<1>3. EventsOf(events, n, approved)
  BY <1>2 DEF Recorded
<1>4. PICK rows : rows = Rows(order)
  OBVIOUS
<1>5. rows = [k \in 1..logged |-> [id |-> order[k], cause |-> Cause(events[order[k]], order[k]),
                                   family |-> FamilyOf(events[order[k]])]]
  BY <1>1, <1>4 DEF Rows, FamilyOf
<1>6. \A k \in 1..logged : /\ rows[k].id = order[k]
                           /\ rows[k].cause = Cause(events[order[k]], order[k])
                           /\ rows[k].family = FamilyOf(events[order[k]])
  BY <1>5
<1>7. ASSUME NEW k \in 1..logged
      PROVE  /\ order[k] \in 1..logged /\ rows[k].id = order[k]
             /\ rows[k].family = Standing(order[k], n)
             /\ rows[k].cause \in Nat /\ rows[k].cause < order[k]
             /\ rows[k].cause = 0 <=> order[k] = 1
  <2>1. order[k] \in 1..logged
    BY DEF Range
  <2>2. PICK i \in Nat : i = order[k] /\ i >= 1 /\ i <= total
    BY <1>1, <2>1
  <2>3. /\ FamilyOf(events[i]) = Standing(i, n)
        /\ Cause(events[i], i) \in Nat /\ Cause(events[i], i) < i
        /\ Cause(events[i], i) = 0 <=> i = 1
    BY <1>1, <1>3, <2>2, EventStands
  <2> QED
    BY <1>6, <2>1, <2>2, <2>3
<1>8. \A k \in 1..logged : rows[k].family \in Nat
  BY <1>7 DEF Standing
<1>9. ASSUME NEW j \in 1..logged, NEW k \in 1..logged, rows[j].id < rows[k].id
      PROVE  rows[j].family <= rows[k].family
  <2>1. PICK a \in Nat : a = order[j]
    BY <1>7
  <2>2. PICK b \in Nat : b = order[k]
    BY <1>7
  <2>3. a < b
    BY <1>6, <1>9, <2>1, <2>2
  <2>4. Standing(a, n) <= Standing(b, n)
    BY <1>1, <2>3 DEF Standing
  <2> QED
    BY <1>7, <2>1, <2>2, <2>4
<1>10. DOMAIN rows = 1..logged
  BY <1>5
<1> QED
  BY <1>1, <1>4, <1>7, <1>8, <1>9, <1>10 DEF RowsOf

\* The parts of CausesComeFirst for one order.
OnThePage(rows, order) ==
  LET line == Timeline(rows)
  IN  /\ Range(line) = DOMAIN rows
      /\ logged > 0 => Roots(rows) = {1}
      /\ \A i \in DOMAIN rows : rows[i].cause # 0 => rows[i].cause \in Range(order)
      /\ \A i, k \in DOMAIN rows :
           rows[i].cause = rows[k].id /\ rows[i].family # rows[k].family
             => line[k] < line[i]

\* One event has no cause in the log, the first (build_causal_graph).
LEMMA OneRoot ==
  ASSUME NEW rows, NEW order, NEW m, RowsOf(rows, order, m), m > 0
  PROVE  Roots(rows) = {1}
<1>1. /\ m \in Nat /\ DOMAIN order = 1..m /\ Range(order) = 1..m /\ DOMAIN rows = 1..m
      /\ \A k \in 1..m : /\ order[k] \in 1..m /\ rows[k].id = order[k]
                         /\ rows[k].cause = 0 <=> order[k] = 1
  BY DEF RowsOf
<1>2. \A i \in 1..m : \E k \in 1..m : rows[k].id = i
  BY <1>1 DEF Range
<1>3. {r.id : r \in Range(rows)} = 1..m
  <2>1. \A r \in Range(rows) : r.id \in 1..m
    BY <1>1 DEF Range
  <2>2. \A k \in 1..m : rows[k] \in Range(rows)
    BY <1>1 DEF Range
  <2> QED
    BY <1>2, <2>1, <2>2
<1>4. {e[2] : e \in Edges(rows)} = {k \in 1..m : k # 1}
  <2>1. ASSUME NEW e \in Edges(rows)
        PROVE  e[2] \in {k \in 1..m : k # 1}
    <3>1. PICK r \in Range(rows) : r.cause # 0 /\ e = <<r.cause, r.id>>
      BY DEF Edges
    <3>2. PICK k \in 1..m : r = rows[k]
      BY <1>1 DEF Range
    <3> QED
      BY <1>1, <3>1, <3>2
  <2>2. ASSUME NEW k \in 1..m, k # 1
        PROVE  \E e \in Edges(rows) : e[2] = k
    <3>1. PICK j \in 1..m : rows[j].id = k
      BY <1>2
    <3>2. rows[j] \in Range(rows) /\ rows[j].cause # 0
      BY <1>1, <2>2, <3>1 DEF Range
    <3>3. PICK e : e = <<rows[j].cause, rows[j].id>>
      OBVIOUS
    <3>4. e \in Edges(rows) /\ e[2] = k
      BY <3>1, <3>2, <3>3 DEF Edges
    <3> QED
      BY <3>4
  <2> QED
    BY <2>1, <2>2
<1>5. 1 \in 1..m
  BY <1>1
<1> QED
  BY <1>3, <1>4, <1>5 DEF Roots

\* (build_timeline, build_causal_graph)
LEMMA RowsAreJoined ==
  ASSUME NEW rows, NEW order, RowsOf(rows, order, logged)
  PROVE  OnThePage(rows, order)
<1>1. PICK m : m = logged
  OBVIOUS
<1>2. RowsOf(rows, order, m)
  BY <1>1
<1>3. /\ m \in Nat /\ DOMAIN order = 1..m /\ Range(order) = 1..m /\ DOMAIN rows = 1..m
      /\ \A k \in 1..m :
           /\ order[k] \in 1..m /\ rows[k].id = order[k] /\ rows[k].family \in Nat
           /\ rows[k].cause \in Nat /\ rows[k].cause < order[k]
      /\ \A j, k \in 1..m : rows[j].id < rows[k].id => rows[j].family <= rows[k].family
  BY <1>2 DEF RowsOf
<1>4. Sortable(rows, m)
  BY <1>3 DEF Sortable
<1>5. PICK line : line = Timeline(rows)
  OBVIOUS
<1>6. Range(line) = DOMAIN rows
  BY <1>3, <1>4, <1>5, EveryPlaceTaken
<1>7. m > 0 => Roots(rows) = {1}
  BY <1>2, OneRoot
<1>8. ASSUME NEW i \in 1..m, rows[i].cause # 0
      PROVE  rows[i].cause \in Range(order)
  <2>1. PICK x \in 1..m : x = order[i]
    BY <1>3
  <2>2. PICK y \in Nat : y = rows[i].cause
    BY <1>3
  <2>3. y # 0 /\ y < x
    BY <1>3, <1>8, <2>1, <2>2
  <2>4. y \in 1..m
    BY <1>3, <2>3
  <2> QED
    BY <1>3, <2>2, <2>4
<1>9. ASSUME NEW i \in 1..m, NEW k \in 1..m, rows[i].cause = rows[k].id,
             rows[i].family # rows[k].family
      PROVE  line[k] < line[i]
  <2>1. rows[k].id < rows[i].id
    BY <1>3, <1>9
  <2>2. rows[k].family < rows[i].family
    <3>1. rows[k].family <= rows[i].family
      BY <1>3, <2>1
    <3>2. PICK x, y \in Nat : x = rows[k].family /\ y = rows[i].family
      BY <1>3
    <3> QED
      BY <1>9, <3>1, <3>2
  <2>3. Ahead(rows, k, i)
    BY <2>2 DEF Ahead
  <2> QED
    BY <1>4, <1>5, <2>3, AheadIsBefore
<1> QED
  BY <1>1, <1>3, <1>5, <1>6, <1>7, <1>8, <1>9 DEF OnThePage

\* The two orders in which the rows are tried are orders of all of them.
LEMMA OrdersOfAll ==
  ASSUME NEW m \in Nat,
         NEW order \in {[i \in 1..m |-> i], [i \in 1..m |-> m + 1 - i]}
  PROVE  DOMAIN order = 1..m /\ Range(order) = 1..m
<1>1. DOMAIN order = 1..m
  OBVIOUS
<1>2. CASE order = [i \in 1..m |-> i]
  BY <1>1, <1>2 DEF Range
<1>3. CASE order = [i \in 1..m |-> m + 1 - i]
  <2>1. \A i \in 1..m : order[i] \in 1..m
    BY <1>3
  <2>2. \A i \in 1..m : m + 1 - i \in 1..m /\ order[m + 1 - i] = i
    BY <1>3
  <2> QED
    BY <1>1, <2>1, <2>2 DEF Range
<1> QED
  BY <1>1, <1>2, <1>3

\* The parts of LogIsFaithful.
LEMMA RecordIsFaithful ==
  ASSUME DecisionInv, RecordInv
  PROVE  LogIsFaithful
<1>1. PICK n, events, total : Recorded(n, events, total)
  BY RecordIsOne
<1>2. DecidesAgain
  BY DecidesTheSame
<1>3. InLog("made") /\ decision.value = "rejected" => Summary.stage = decision.stage
  <2> SUFFICES ASSUME InLog("made"), decision.value = "rejected"
               PROVE  Summary.stage = decision.stage
    OBVIOUS
  <2>1. logged >= n + 4 /\ n \in Nat /\ logged \in Nat
    BY <1>1, LogReaches DEF Recorded
  <2>2. logged # 0
    BY <2>1
  <2>3. stage = "published"
    BY <2>2 DEF RecordInv
  <2> QED
    BY <2>3, StageIsTold
<1>4. ToldIsOnRecord
  BY <1>1, TellsOnRecord
<1>5. CausesComeFirst
  <2>1. logged \in Nat
    BY <1>1 DEF Recorded
  <2>2. ASSUME NEW order \in {[i \in 1..logged |-> i], [i \in 1..logged |-> logged + 1 - i]}
        PROVE  OnThePage(Rows(order), order)
    <3>1. DOMAIN order = 1..logged /\ Range(order) = 1..logged
      BY <2>1, OrdersOfAll
    <3>2. RowsOf(Rows(order), order, logged)
      BY <1>1, <3>1, RowsAreOf
    <3> QED
      BY <3>2, RowsAreJoined
  <2> QED
    BY <2>2 DEF CausesComeFirst, OnThePage
<1> QED
  BY <1>2, <1>3, <1>4, <1>5 DEF LogIsFaithful

\* The record of a cycle is faithful, wherever its batch breaks off and whatever the
\* engine, the panel and the market are.
\* (re_execute_cycle, _extract_rejection_stage, build_handlers, build_timeline)
THEOREM RecordAlwaysFaithful ==
  ReplaySpec => []LogIsFaithful
BY DecisionInvariance, RecordInvariance, RecordIsFaithful, PTL
=============================================================================
