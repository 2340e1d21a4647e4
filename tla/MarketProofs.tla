---------------------------- MODULE MarketProofs ----------------------------
(***************************************************************************)
(* What holds of the shared CSV and of the live cycles, for every number   *)
(* of clients, bars, requests and rows of an answer.                       *)
(***************************************************************************)
EXTENDS Market, WellFoundedInduction, TLAPS

-----------------------------------------------------------------------------
(* Bars. *)

\* Bars that were read by the time n.
Bars(n) == UNION {[S -> BOOLEAN] : S \in SUBSET (Listed..n)}

\* A set of times without a gap.
Unbroken(D) == \A t, u \in D : t..u \subseteq D

\* Only the newest bar may be unfinished.
Good(b) == \A t \in DOMAIN b : b[t] \/ \A u \in DOMAIN b : u <= t

\* part is the bars of b from one time to another.
IsPart(part, b, from, to) ==
  /\ DOMAIN part = {t \in DOMAIN b : from <= t /\ t <= to}
  /\ \A t \in DOMAIN part : part[t] = b[t]

\* m has the bars of b and those of e, and e's where both have one.
IsMerged(m, b, e) ==
  /\ DOMAIN m = DOMAIN b \cup DOMAIN e
  /\ \A t \in DOMAIN e : m[t] = e[t]
  /\ \A t \in DOMAIN b \ DOMAIN e : m[t] = b[t]

\* Bars are a function on some of the times there were.
LEMMA BarsAre ==
  ASSUME NEW n \in Nat, NEW b
  PROVE  b \in Bars(n) <=> DOMAIN b \subseteq Listed..n /\ b \in [DOMAIN b -> BOOLEAN]
<1>1. ASSUME b \in Bars(n)
      PROVE  DOMAIN b \subseteq Listed..n /\ b \in [DOMAIN b -> BOOLEAN]
  <2>1. PICK S \in SUBSET (Listed..n) : b \in [S -> BOOLEAN]
    BY <1>1 DEF Bars
  <2> QED
    BY <2>1
<1>2. ASSUME DOMAIN b \subseteq Listed..n, b \in [DOMAIN b -> BOOLEAN]
      PROVE  b \in Bars(n)
  BY <1>2 DEF Bars
<1> QED
  BY <1>1, <1>2

\* Time goes on.
LEMMA BarsGrow ==
  ASSUME NEW n \in Nat, NEW m \in Nat, n <= m
  PROVE  Bars(n) \subseteq Bars(m)
<1>1. Listed..n \subseteq Listed..m
  BY MarketAssumption
<1> QED
  BY <1>1 DEF Bars

\* No bars are the empty function, and the only bars without a time.
LEMMA NoBars ==
  ASSUME NEW n \in Nat
  PROVE  /\ Nothing \in Bars(n) /\ DOMAIN Nothing = {}
         /\ \A b \in Bars(n) : b = Nothing <=> DOMAIN b = {}
<1>1. DOMAIN Nothing = {} /\ Nothing \in [{} -> BOOLEAN]
  BY DEF Nothing
<1>2. Nothing \in Bars(n)
  BY <1>1, BarsAre
<1>3. ASSUME NEW b \in Bars(n), DOMAIN b = {}
      PROVE  b = Nothing
  <2>1. b \in [{} -> BOOLEAN]
    BY <1>3, BarsAre
  <2> QED
    BY <2>1, <1>1
<1> QED
  BY <1>1, <1>2, <1>3

\* Times of which there are some have a first one.
LEMMA LeastTime ==
  ASSUME NEW S, S \subseteq Nat, S # {}
  PROVE  \E t \in S : \A u \in S : t <= u
<1>1. PICK t \in S : \A u \in S : ~(<<u, t>> \in OpToRel(<, Nat))
  BY NatLessThanWellFounded, WFMin
<1>2. \A u \in S : ~(u < t)
  BY <1>1 DEF OpToRel
<1> QED
  BY <1>2

\* Bars have a first and a newest one.
LEMMA Ends ==
  ASSUME NEW n \in Nat, NEW b \in Bars(n), b # Nothing
  PROVE  /\ First(b) \in DOMAIN b /\ Newest(b) \in DOMAIN b
         /\ First(b) \in Listed..n /\ Newest(b) \in Listed..n
         /\ \A t \in DOMAIN b : First(b) <= t /\ t <= Newest(b)
<1>1. DOMAIN b \subseteq Listed..n /\ DOMAIN b # {} /\ DOMAIN b \subseteq Nat
  BY BarsAre, NoBars, MarketAssumption
<1>2. \E t \in DOMAIN b : \A u \in DOMAIN b : t <= u
  BY <1>1, LeastTime
<1>3. First(b) \in DOMAIN b /\ \A u \in DOMAIN b : First(b) <= u
  BY <1>2 DEF First
<1> DEFINE S == {k \in Nat : \E t \in DOMAIN b : k = n - t}
<1>4. S # {} /\ S \subseteq Nat
  BY <1>1, MarketAssumption
<1>5. PICK k \in S : \A j \in S : k <= j
  BY <1>4, LeastTime
<1>6. PICK t \in DOMAIN b : k = n - t
  BY <1>5
<1>7. ASSUME NEW u \in DOMAIN b PROVE u <= t
  <2>1. u \in Nat /\ t \in Nat /\ u <= n /\ n - u \in S
    BY <1>1, MarketAssumption
  <2> QED
    BY <2>1, <1>5, <1>6
<1>8. Newest(b) \in DOMAIN b /\ \A u \in DOMAIN b : Newest(b) >= u
  <2>1. \A u \in DOMAIN b : t >= u
    BY <1>7, <1>1
  <2> QED
    BY <2>1, <1>6 DEF Newest
<1> QED
  BY <1>1, <1>3, <1>8

\* The ends of bars whose times are a range.
LEMMA EndsOfRange ==
  ASSUME NEW n \in Nat, NEW b \in Bars(n), NEW x \in Int, NEW y \in Int, x <= y,
         DOMAIN b = x..y
  PROVE  b # Nothing /\ First(b) = x /\ Newest(b) = y
<1>1. x \in DOMAIN b /\ y \in DOMAIN b
  OBVIOUS
<1>2. b # Nothing
  BY <1>1, NoBars
<1>3. First(b) \in x..y /\ First(b) <= x
  BY <1>1, <1>2, Ends
<1>4. Newest(b) \in x..y /\ y <= Newest(b)
  BY <1>1, <1>2, Ends
<1> QED
  BY <1>2, <1>3, <1>4

\* A part of bars.
LEMMA WithinIs ==
  ASSUME NEW n \in Nat, NEW b \in Bars(n), NEW from, NEW to
  PROVE  Within(b, from, to) \in Bars(n) /\ IsPart(Within(b, from, to), b, from, to)
<1> DEFINE D == {t \in DOMAIN b : from <= t /\ t <= to}
           w == [t \in D |-> b[t]]
<1>1. DOMAIN b \subseteq Listed..n /\ b \in [DOMAIN b -> BOOLEAN]
  BY BarsAre
<1>2. D \subseteq DOMAIN b /\ DOMAIN w = D /\ \A t \in D : w[t] = b[t]
  OBVIOUS
<1>3. w \in [D -> BOOLEAN] /\ D \subseteq Listed..n
  BY <1>1, <1>2
<1>4. Within(b, from, to) = w
  BY DEF Within
<1>5. w \in Bars(n)
  <2>1. DOMAIN w \subseteq Listed..n /\ w \in [DOMAIN w -> BOOLEAN]
    BY <1>2, <1>3
  <2> HIDE DEF w, D
  <2> QED
    BY <2>1, BarsAre
<1>6. IsPart(w, b, from, to)
  BY <1>2 DEF IsPart
<1> QED
  BY <1>4, <1>5, <1>6

\* Merged bars: the new ones win.
LEMMA MergeIs ==
  ASSUME NEW n \in Nat, NEW b \in Bars(n), NEW e \in Bars(n)
  PROVE  Merge(b, e) \in Bars(n) /\ IsMerged(Merge(b, e), b, e)
<1> DEFINE D == DOMAIN b \cup DOMAIN e
           w == [t \in D |-> IF t \in DOMAIN e THEN e[t] ELSE b[t]]
<1>1. /\ DOMAIN b \subseteq Listed..n /\ b \in [DOMAIN b -> BOOLEAN]
      /\ DOMAIN e \subseteq Listed..n /\ e \in [DOMAIN e -> BOOLEAN]
  BY BarsAre
<1>2. DOMAIN w = D /\ D \subseteq Listed..n
  BY <1>1
<1>3. \A t \in DOMAIN e : w[t] = e[t]
  OBVIOUS
<1>4. \A t \in DOMAIN b \ DOMAIN e : w[t] = b[t]
  OBVIOUS
<1>5. \A t \in D : w[t] \in BOOLEAN
  BY <1>1, <1>3, <1>4
<1>6. w \in [D -> BOOLEAN]
  BY <1>5
<1>7. Merge(b, e) = w
  BY DEF Merge
<1>8. w \in Bars(n)
  <2>1. DOMAIN w \subseteq Listed..n /\ w \in [DOMAIN w -> BOOLEAN]
    BY <1>2, <1>6
  <2> HIDE DEF w, D
  <2> QED
    BY <2>1, BarsAre
<1>9. IsMerged(w, b, e)
  BY <1>2, <1>3, <1>4 DEF IsMerged
<1> QED
  BY <1>7, <1>8, <1>9

\* The later of two times.
LEMMA LargerIs ==
  ASSUME NEW x \in Int, NEW y \in Int
  PROVE  Larger(x, y) \in Int /\ Larger(x, y) >= x /\ Larger(x, y) >= y
         /\ (Larger(x, y) = x \/ Larger(x, y) = y)
BY DEF Larger
-----------------------------------------------------------------------------
(* The exchange's answers. *)

\* A page asked for from a bar there is on: without a gap, as far as it goes.
LEMMA PageIs ==
  ASSUME NEW n \in Nat, n = now, NEW s \in Nat, Listed <= n, s <= n
  PROVE  \E m \in Larger(s, Listed)..n :
           /\ DOMAIN RowsFrom(s) = Larger(s, Listed)..m
           /\ RowsFrom(s) \in Bars(n)
           /\ \A t \in DOMAIN RowsFrom(s) : RowsFrom(s)[t] = (t < n)
<1> DEFINE first == Larger(s, Listed)
<1>0. Listed \in Nat /\ Page \in Nat /\ Page >= 1 /\ s \in Int /\ Listed \in Int
  BY MarketAssumption
<1>1. first \in Nat /\ Listed <= first /\ first <= n
  BY <1>0 DEF Larger
<1> HIDE DEF first
<1> DEFINE D == {u \in first..(first + Page - 1) : u <= n}
<1>2. \E k \in first..n : D = first..k
  <2>1. CASE first + Page - 1 <= n
    <3>1. D = first..(first + Page - 1)
      BY <1>0, <1>1, <2>1
    <3> QED
      BY <1>0, <1>1, <2>1, <3>1
  <2>2. CASE ~(first + Page - 1 <= n)
    <3>1. D = first..n
      BY <1>0, <1>1, <2>2
    <3> QED
      BY <1>0, <1>1, <3>1
  <2> QED
    BY <2>1, <2>2
<1>3. PICK k \in first..n : D = first..k
  BY <1>2
<1> DEFINE p == [t \in D |-> t < n]
<1>4. RowsFrom(s) = p
  BY DEF RowsFrom, first
<1> HIDE DEF D
<1>5. DOMAIN p = first..k /\ \A t \in DOMAIN p : p[t] = (t < n)
  BY <1>3
<1>6. p \in Bars(n)
  <2>1. first..k \subseteq Listed..n
    BY <1>0, <1>1
  <2>2. p \in [DOMAIN p -> BOOLEAN]
    OBVIOUS
  <2> HIDE DEF p
  <2> QED
    BY <2>1, <2>2, <1>5, BarsAre
<1> HIDE DEF p
<1>7. DOMAIN p = Larger(s, Listed)..k /\ k \in Larger(s, Listed)..n
  BY <1>5 DEF first
<1> QED
  BY <1>4, <1>5, <1>6, <1>7

\* What a live cycle is answered.
LEMMA LatestIs ==
  ASSUME NEW n \in Nat, n = now, Listed <= n
  PROVE  /\ DOMAIN RowsLatest(Limit) = Larger(Listed, n - Limit)..n
         /\ RowsLatest(Limit) \in Bars(n)
         /\ \A t \in DOMAIN RowsLatest(Limit) : RowsLatest(Limit)[t] = (t < n)
<1> DEFINE D == Larger(Listed, n - Limit)..n
           p == [t \in D |-> t < n]
<1>1. D \subseteq Listed..n
  BY LargerIs, MarketAssumption
<1>2. RowsLatest(Limit) = p
  BY DEF RowsLatest
<1>3. DOMAIN p = D /\ p \in [DOMAIN p -> BOOLEAN] /\ \A t \in D : p[t] = (t < n)
  OBVIOUS
<1>4. p \in Bars(n)
  <2> HIDE DEF p, D
  <2> QED
    BY <1>1, <1>3, BarsAre
<1> QED
  BY <1>2, <1>3, <1>4

-----------------------------------------------------------------------------
(* Requests. *)

\* A download_csv by the time n.
Download(n) ==
  [pc : {"idle", "read", "fetch", "write", "replace", "answered"}, start : Nat, end : Nat,
   force : BOOLEAN, known : Bars(n), todo : SUBSET (Nat \X Nat), since : Nat, upto : Nat,
   rows : Bars(n), got : Bars(n), base : Bars(n), loaded : Bars(n)]

\* A get_latest by the time n.
Cycle(n) ==
  [pc : {"asked", "replied", "done"}, end : Listed..n, bars : Bars(n), checked : 0..n]

\* The bars asked for, if the exchange has them.
Asked(q) == Larger(q.start, Listed)..q.end

\* What the ranges before and after the known bars bring, the known ends included.
Older(q) == IF q.start < First(q.known) THEN Larger(q.start, Listed)..First(q.known) ELSE {}
Newer(q) == IF q.end > Newest(q.known) THEN Newest(q.known)..q.end ELSE {}

\* What is fetched is one range.
Whole(q) == q.force \/ q.known = Nothing

\* The pages so far leave no gap, are finished bars, and have not reached the end.
Paged(q) ==
  q.rows # Nothing =>
    \E m \in Larger(q.since, Listed)..(q.upto - 1) :
      DOMAIN q.rows = Larger(q.since, Listed)..m /\ \A t \in DOMAIN q.rows : q.rows[t]

\* An unfinished bar that was fetched is the newest of those to be written.
Fresh(q) ==
  \A t \in DOMAIN q.got : q.got[t] \/ \A u \in DOMAIN q.base \cup DOMAIN q.got : u <= t

\* The range being fetched is the older one, and the newer one waits.
OlderFirst(q) ==
  /\ q.start < First(q.known) /\ q.since = q.start /\ q.upto = First(q.known)
  /\ q.got = Nothing
  /\ q.todo = IF q.end > Newest(q.known) THEN {<<Newest(q.known), q.end>>} ELSE {}

\* The range being fetched is the newer one; if there was an older one, it has
\* been fetched.
ThenNewer(q) ==
  /\ Newest(q.known) < q.end /\ q.since = Newest(q.known) /\ q.upto = q.end /\ q.todo = {}
  /\ DOMAIN q.got = Older(q) /\ \A t \in DOMAIN q.got : q.got[t]

\* Where a download is.
Reading(q) ==
  /\ q.known # Nothing
  /\ IF q.force THEN DOMAIN q.got = Asked(q) /\ q.got # Nothing
     ELSE q.got = Nothing /\ (q.start < First(q.known) \/ q.end > Newest(q.known))
OneRange(q) ==
  q.since = q.start /\ q.upto = q.end /\ q.todo = {} /\ q.got = Nothing /\ q.base = Nothing
Fetching(q, n) ==
  /\ q.since <= q.upto /\ q.upto <= n /\ Paged(q)
  /\ IF Whole(q) THEN OneRange(q) ELSE OlderFirst(q) \/ ThenNewer(q)
Writing(q) ==
  /\ DOMAIN q.got = IF Whole(q) THEN Asked(q) ELSE Older(q) \cup Newer(q)
  /\ q.got # Nothing
  /\ q.known = Nothing => q.base = Nothing
  /\ ~q.force => Fresh(q)

Phase(q, n) ==
  /\ q.pc \in {"read", "fetch", "write"} => 1 <= q.start /\ q.start <= q.end /\ q.end <= n
  /\ q.pc = "read" => Reading(q)
  /\ q.pc = "fetch" => Fetching(q, n)
  /\ q.pc = "write" => Writing(q)

\* Where a live cycle is: it was answered at some time m since it asked.
Answer(q, n) ==
  \E m \in q.end..n :
    DOMAIN q.bars = Larger(Listed, m - Limit)..m /\ \A t \in DOMAIN q.bars : q.bars[t] = (t < m)
NewestClosed(q) ==
  /\ DOMAIN q.bars = Larger(Listed, q.end - Limit)..(q.end - 1)
  /\ \A t \in DOMAIN q.bars : q.bars[t]

\* What always holds of a request.
Sound(q, n) ==
  \/ q \in Download(n) /\ Phase(q, n)
  \/ /\ q \in Cycle(n)
     /\ q.pc = "replied" => Answer(q, n)
     /\ q.pc = "done" /\ q.checked = q.end => NewestClosed(q)

Inv ==
  /\ now \in Nat /\ Listed <= now /\ file \in Bars(now) /\ tmp \in Bars(now)
  /\ req = [c \in Clients |-> req[c]]
  /\ \A c \in Clients : Sound(req[c], now)

\* What a step leaves of a download until it ends.
Kept(p, q) ==
  /\ p.start = q.start /\ p.end = q.end /\ p.force = q.force
  /\ p.known = q.known /\ p.base = q.base

\* A request that does nothing.
LEMMA IdleIsSound ==
  ASSUME NEW n \in Nat
  PROVE  Sound(Idle, n) /\ Idle \in Download(n) /\ Idle.pc = "idle" /\ Idle.force = FALSE
         /\ Idle.end = 0
<1>1. Nothing \in Bars(n)
  BY NoBars
<1>2. Idle \in Download(n) /\ Idle.pc = "idle" /\ Idle.force = FALSE /\ Idle.end = 0
  BY <1>1 DEF Idle, Download
<1>3. Phase(Idle, n)
  BY <1>2 DEF Phase
<1> QED
  BY <1>2, <1>3 DEF Sound

\* Time passes over the requests.
LEMMA SoundLater ==
  ASSUME NEW n \in Nat, NEW m \in Nat, n <= m, NEW q, Sound(q, n)
  PROVE  Sound(q, m)
<1>1. Bars(n) \subseteq Bars(m)
  BY BarsGrow
<1>2. CASE q \in Download(n) /\ Phase(q, n)
  <2>1. q \in Download(m)
    BY <1>1, <1>2 DEF Download
  <2>2. q.end \in Nat /\ q.upto \in Nat
    BY <2>1 DEF Download
  <2>3. Phase(q, m)
    BY <1>2, <2>2 DEF Phase, Fetching
  <2> QED
    BY <2>1, <2>3 DEF Sound
<1>3. CASE q \in Cycle(n) /\ (q.pc = "replied" => Answer(q, n))
           /\ (q.pc = "done" /\ q.checked = q.end => NewestClosed(q))
  <2>1. Listed..n \subseteq Listed..m /\ 0..n \subseteq 0..m /\ Listed \in Nat
    BY MarketAssumption
  <2>2. q \in Cycle(m)
    BY <1>1, <1>3, <2>1 DEF Cycle
  <2>3. q.end \in Nat
    BY <1>3, <2>1 DEF Cycle
  <2>4. q.end..n \subseteq q.end..m
    BY <2>3
  <2>5. q.pc = "replied" => Answer(q, m)
    BY <1>3, <2>4 DEF Answer
  <2> QED
    BY <1>3, <2>2, <2>5 DEF Sound
<1> QED
  BY <1>2, <1>3 DEF Sound

\* The bars that are kept of a download, where they are.
LEMMA DownloadIs ==
  ASSUME NEW n, NEW q \in Download(n)
  PROVE  /\ q.pc \in {"idle", "read", "fetch", "write", "replace", "answered"}
         /\ q.start \in Nat /\ q.end \in Nat /\ q.since \in Nat /\ q.upto \in Nat
         /\ q.force \in BOOLEAN /\ q.todo \subseteq Nat \X Nat
         /\ q.known \in Bars(n) /\ q.rows \in Bars(n) /\ q.got \in Bars(n)
         /\ q.base \in Bars(n) /\ q.loaded \in Bars(n)
BY DEF Download

\* Only the state of a download changes.
LEMMA MovedOn ==
  ASSUME NEW n, NEW q \in Download(n),
         NEW s \in {"idle", "read", "fetch", "write", "replace", "answered"},
         NEW p, p = [q EXCEPT !.pc = s]
  PROVE  /\ p \in Download(n) /\ p.pc = s /\ Kept(p, q)
         /\ p.todo = q.todo /\ p.since = q.since /\ p.upto = q.upto
         /\ p.rows = q.rows /\ p.got = q.got /\ p.loaded = q.loaded
BY DEF Download, Kept

\* The range that starts before all others is taken.
LEMMA TakeOldest ==
  ASSUME NEW n \in Nat, NEW q \in Download(n), NEW r \in q.todo,
         \A s \in q.todo : s # r => r[1] < s[1]
  PROVE  LET p == Take(q)
         IN  /\ p \in Download(n) /\ p.pc = "fetch" /\ Kept(p, q) /\ p.got = q.got
             /\ p.todo = q.todo \ {r} /\ p.since = r[1] /\ p.upto = r[2] /\ p.rows = Nothing
<1>1. q.todo # {} /\ q.todo \subseteq Nat \X Nat /\ r[1] \in Nat /\ r[2] \in Nat
  BY DownloadIs
<1>2. \A s \in q.todo : s[1] \in Nat
  BY <1>1
<1> DEFINE e == CHOOSE x \in q.todo : \A y \in q.todo : x[1] <= y[1]
<1>3. \A y \in q.todo : r[1] <= y[1]
  BY <1>1, <1>2
<1>4. e \in q.todo /\ \A y \in q.todo : e[1] <= y[1]
  BY <1>3
<1>5. e = r
  <2> HIDE DEF e
  <2> QED
    BY <1>1, <1>2, <1>4
<1>6. Take(q) = [q EXCEPT !.pc = "fetch", !.todo = q.todo \ {r}, !.since = r[1],
                          !.upto = r[2], !.rows = Nothing]
  BY <1>1, <1>5 DEF Take
<1>7. Nothing \in Bars(n) /\ q.todo \ {r} \in SUBSET (Nat \X Nat)
  BY <1>1, NoBars
<1> QED
  BY <1>1, <1>6, <1>7 DEF Download, Kept

-----------------------------------------------------------------------------
(* A range is fetched page by page. *)

\* The next page is never empty, and adds to the pages before it without a gap;
\* what it brings unfinished is the bar that is forming.
LEMMA NextPage ==
  ASSUME NEW n \in Nat, n = now, Listed <= n,
         NEW q \in Download(n), q.since <= q.upto, q.upto <= n, Paged(q),
         NEW page, page = RowsFrom(IF q.rows = Nothing THEN q.since ELSE Newest(q.rows) + 1),
         NEW rows, rows = Merge(q.rows, page)
  PROVE  /\ page # Nothing /\ rows \in Bars(n)
         /\ Newest(page) \in Larger(q.since, Listed)..n
         /\ DOMAIN rows = Larger(q.since, Listed)..Newest(page)
         /\ \A t \in DOMAIN rows : rows[t] \/ t = n
<1> DEFINE x == Larger(q.since, Listed)
<1>1. /\ q.since \in Nat /\ q.upto \in Nat /\ Listed \in Nat /\ Listed \in Int /\ q.rows \in Bars(n)
      /\ Nothing \in Bars(n) /\ DOMAIN Nothing = {}
  BY DownloadIs, NoBars, MarketAssumption
<1>2. x \in Nat /\ x >= q.since /\ x >= Listed /\ x <= n
  BY <1>1 DEF Larger
<1>3. CASE q.rows = Nothing
  <2>1. PICK m \in x..n : /\ DOMAIN page = x..m /\ page \in Bars(n)
                          /\ \A t \in DOMAIN page : page[t] = (t < n)
    <3>1. page = RowsFrom(q.since) /\ q.since <= n
      BY <1>1, <1>3
    <3> QED
      BY <1>1, <3>1, PageIs
  <2> HIDE DEF x
  <2>2. m \in Int /\ x <= m /\ m <= n /\ x \in Int
    BY <1>2, <2>1
  <2>3. page \in Bars(n) /\ DOMAIN page = x..m
    BY <2>1
  <2>4. page # Nothing /\ Newest(page) = m
    BY <2>2, <2>3, EndsOfRange
  <2>5. /\ rows \in Bars(n) /\ DOMAIN rows = DOMAIN Nothing \cup DOMAIN page
        /\ \A t \in DOMAIN page : rows[t] = page[t]
    <3>1. rows \in Bars(n) /\ IsMerged(rows, q.rows, page)
      BY <1>1, <2>3, MergeIs
    <3> QED
      BY <1>3, <3>1 DEF IsMerged
  <2>6. DOMAIN rows = x..m
    BY <1>1, <2>3, <2>5
  <2>7. ASSUME NEW t \in DOMAIN rows PROVE rows[t] \/ t = n
    <3>1. t \in DOMAIN page /\ t \in x..m
      BY <2>3, <2>6, <2>7
    <3>2. rows[t] = (t < n)
      BY <2>1, <2>5, <3>1
    <3>3. t < n \/ t = n
      BY <2>2, <3>1
    <3> QED
      BY <3>2, <3>3
  <2> QED
    BY <2>1, <2>4, <2>5, <2>6, <2>7 DEF x
<1>4. CASE q.rows # Nothing
  <2>1. PICK k \in x..(q.upto - 1) : DOMAIN q.rows = x..k /\ \A t \in DOMAIN q.rows : q.rows[t]
    BY <1>4 DEF Paged
  <2> HIDE DEF x
  <2>2. k \in Nat /\ k < n /\ x <= k /\ k + 1 \in Nat /\ k + 1 <= n /\ x \in Int /\ k \in Int
    BY <1>1, <1>2, <2>1
  <2>3. Newest(q.rows) = k
    <3>1. DOMAIN q.rows = x..k /\ q.rows \in Bars(n)
      BY <1>1, <2>1
    <3> QED
      BY <2>2, <3>1, EndsOfRange
  <2>4. Larger(k + 1, Listed) = k + 1
    BY <1>1, <1>2, <2>2 DEF Larger
  <2>5. PICK m \in (k + 1)..n : /\ DOMAIN page = (k + 1)..m /\ page \in Bars(n)
                                /\ \A t \in DOMAIN page : page[t] = (t < n)
    <3>1. page = RowsFrom(k + 1)
      BY <1>4, <2>3
    <3>2. \E m \in Larger(k + 1, Listed)..n :
            /\ DOMAIN RowsFrom(k + 1) = Larger(k + 1, Listed)..m
            /\ RowsFrom(k + 1) \in Bars(n)
            /\ \A t \in DOMAIN RowsFrom(k + 1) : RowsFrom(k + 1)[t] = (t < n)
      BY <2>2, PageIs
    <3> QED
      BY <2>4, <3>1, <3>2
  <2>6. m \in Int /\ k + 1 <= m /\ m <= n /\ m \in x..n
    BY <2>2, <2>5
  <2>7. page \in Bars(n) /\ DOMAIN page = (k + 1)..m
    BY <2>5
  <2>8. page # Nothing /\ Newest(page) = m
    BY <2>2, <2>6, <2>7, EndsOfRange
  <2>9. /\ rows \in Bars(n) /\ DOMAIN rows = DOMAIN q.rows \cup DOMAIN page
        /\ \A t \in DOMAIN page : rows[t] = page[t]
        /\ \A t \in DOMAIN q.rows \ DOMAIN page : rows[t] = q.rows[t]
    <3>1. rows \in Bars(n) /\ IsMerged(rows, q.rows, page)
      BY <1>1, <2>7, MergeIs
    <3> QED
      BY <3>1 DEF IsMerged
  <2>10. DOMAIN rows = x..m
    <3>1. DOMAIN rows = (x..k) \cup ((k + 1)..m)
      BY <2>1, <2>7, <2>9
    <3>2. (x..k) \cup ((k + 1)..m) = x..m
      BY <2>2, <2>6
    <3> QED
      BY <3>1, <3>2
  <2>11. ASSUME NEW t \in DOMAIN rows PROVE rows[t] \/ t = n
    <3>1. CASE t \in DOMAIN page
      <4>1. rows[t] = (t < n)
        BY <2>5, <2>9, <3>1
      <4>2. t < n \/ t = n
        BY <2>2, <2>6, <2>7, <3>1
      <4> QED
        BY <4>1, <4>2
    <3>2. CASE t \notin DOMAIN page
      <4>1. t \in DOMAIN q.rows /\ rows[t] = q.rows[t]
        BY <2>9, <2>11, <3>2
      <4> QED
        BY <2>1, <4>1
    <3> QED
      BY <3>1, <3>2
  <2> QED
    BY <2>6, <2>8, <2>9, <2>10, <2>11 DEF x
<1> QED
  BY <1>3, <1>4

\* b is the bars there are from one time to another; only one at n may be unfinished.
Full(b, from, to, n) ==
  /\ b \in Bars(n) /\ DOMAIN b = Larger(from, Listed)..to
  /\ \A t \in DOMAIN b : b[t] \/ t = n

\* What has been fetched of a range when its end is reached: all of it.
LEMMA RangeIs ==
  ASSUME NEW n \in Nat, NEW rows, NEW since \in Nat, NEW upto \in Nat, NEW m \in Nat,
         Full(rows, since, m, n), m >= upto, upto <= n
  PROVE  Full(Within(rows, since, upto), since, upto, n)
<1> DEFINE bars == Within(rows, since, upto)
<1>0. rows \in Bars(n) /\ DOMAIN rows = Larger(since, Listed)..m /\ \A t \in DOMAIN rows : rows[t] \/ t = n
  BY DEF Full
<1>1. Listed \in Nat /\ Larger(since, Listed) \in Nat /\ Larger(since, Listed) >= since
  BY MarketAssumption DEF Larger
<1>2. /\ bars \in Bars(n) /\ DOMAIN bars = {t \in DOMAIN rows : since <= t /\ t <= upto}
      /\ \A t \in DOMAIN bars : bars[t] = rows[t]
  <2>1. bars \in Bars(n) /\ IsPart(bars, rows, since, upto)
    BY <1>0, WithinIs
  <2> HIDE DEF bars
  <2> QED
    BY <2>1 DEF IsPart
<1> HIDE DEF bars
<1>3. DOMAIN bars = Larger(since, Listed)..upto
  BY <1>0, <1>1, <1>2
<1>4. Full(bars, since, upto, n)
  BY <1>0, <1>2, <1>3 DEF Full
<1> QED
  BY <1>4 DEF bars

\* What the end of a range, with these bars fetched, makes of the request.
EndedTo(p, q, bars, n) ==
  \/ Whole(q) /\ bars = Nothing /\ p = Idle
  \/ /\ ~(Whole(q) /\ bars = Nothing)
     /\ p \in Download(n) /\ Kept(p, q) /\ p.got = Merge(q.got, bars)
     /\ \/ Whole(q) /\ p.pc = IF q.known = Nothing THEN "write" ELSE "read"
        \/ ~Whole(q) /\ q.todo = {} /\ p.pc = "write"
        \/ \E r \in q.todo : /\ ~Whole(q) /\ q.todo = {r} /\ p.pc = "fetch" /\ p.todo = {}
                             /\ p.since = r[1] /\ p.upto = r[2] /\ p.rows = Nothing

\* The end of a range: the request fails, writes, reads or takes the other range.
LEMMA EndOfRangeIs ==
  ASSUME NEW n \in Nat, NEW q \in Download(n), NEW bars \in Bars(n), NEW rows \in Bars(n),
         NEW more, more = [q EXCEPT !.rows = rows], bars = Within(rows, q.since, q.upto),
         q.pc = "fetch", q.todo = {} \/ \E r : q.todo = {r},
         ~Whole(q) => Merge(q.got, bars) # Nothing
  PROVE  EndedTo(EndOfRange(more), q, bars, n)
<1>1. q.got \in Bars(n) /\ Nothing \in Bars(n) /\ Merge(q.got, bars) \in Bars(n)
  BY DownloadIs, NoBars, MergeIs
<1>2. /\ more.got = q.got /\ more.rows = rows /\ more.since = q.since /\ more.upto = q.upto
      /\ more.force = q.force /\ more.known = q.known /\ more \in Download(n)
  BY DEF Download
<1> DEFINE next == [more EXCEPT !.got = Merge(more.got, bars), !.rows = Nothing]
<1>3. /\ next \in Download(n) /\ Kept(next, q) /\ next.got = Merge(q.got, bars)
      /\ next.todo = q.todo /\ next.pc = "fetch" /\ next.rows = Nothing
  BY <1>1, <1>2 DEF Download, Kept
<1>4. EndOfRange(more)
      = IF Whole(q) THEN IF bars = Nothing THEN Idle
                         ELSE [next EXCEPT !.pc = IF q.known = Nothing THEN "write" ELSE "read"]
        ELSE Take(next)
  BY <1>2 DEF EndOfRange, Whole
<1> HIDE DEF next
<1>5. PICK p : p = EndOfRange(more)
  OBVIOUS
<1>6. CASE Whole(q) /\ bars = Nothing
  BY <1>4, <1>5, <1>6 DEF EndedTo
<1>7. CASE Whole(q) /\ bars # Nothing
  <2>1. PICK s \in {"read", "write"} : s = IF q.known = Nothing THEN "write" ELSE "read"
    OBVIOUS
  <2>2. p = [next EXCEPT !.pc = s]
    BY <1>4, <1>5, <1>7, <2>1
  <2>3. p \in Download(n) /\ p.pc = s /\ Kept(p, next) /\ p.got = next.got
    BY <1>3, <2>2, MovedOn
  <2>4. Kept(p, q)
    BY <1>3, <2>3 DEF Kept
  <2> QED
    BY <1>3, <1>5, <1>7, <2>1, <2>3, <2>4 DEF EndedTo
<1>8. CASE ~Whole(q) /\ q.todo = {}
  <2>1. p = [next EXCEPT !.pc = "write"]
    BY <1>3, <1>4, <1>5, <1>8 DEF Take
  <2>2. p \in Download(n) /\ p.pc = "write" /\ Kept(p, next) /\ p.got = next.got
    BY <1>3, <2>1, MovedOn
  <2>3. Kept(p, q)
    BY <1>3, <2>2 DEF Kept
  <2> QED
    BY <1>3, <1>5, <1>8, <2>2, <2>3 DEF EndedTo
<1>9. CASE ~Whole(q) /\ q.todo # {}
  <2>1. PICK r : q.todo = {r}
    BY <1>9
  <2>2. /\ p \in Download(n) /\ p.pc = "fetch" /\ Kept(p, next) /\ p.got = next.got
        /\ p.todo = {} /\ p.since = r[1] /\ p.upto = r[2] /\ p.rows = Nothing
    <3>1. r \in next.todo /\ (\A s \in next.todo : s # r => r[1] < s[1]) /\ next.todo \ {r} = {}
      BY <1>3, <2>1
    <3>2. p = Take(next)
      BY <1>4, <1>5, <1>9
    <3> QED
      BY <1>3, <3>1, <3>2, TakeOldest
  <2>3. Kept(p, q)
    BY <1>3, <2>2 DEF Kept
  <2> QED
    BY <1>3, <1>5, <1>9, <2>1, <2>2, <2>3 DEF EndedTo
<1> QED
  BY <1>6, <1>7, <1>8, <1>9

\* What a page makes of a request: it fails, or fetches, reads or writes.
FetchedTo(p, q, n) ==
  \/ p = Idle
  \/ /\ p \in Download(n) /\ Kept(p, q) /\ p.pc \in {"fetch", "read", "write"}
     /\ p.pc = "read" => p.force
     /\ p.pc = "write" => ~p.force \/ p.known = Nothing

\* Bars of which only one at time n may be unfinished are fresh.
LEMMA FreshBars ==
  ASSUME NEW n \in Nat, NEW p \in Download(n), \A t \in DOMAIN p.got : p.got[t] \/ t = n
  PROVE  Fresh(p)
<1>1. p.got \in Bars(n) /\ p.base \in Bars(n) /\ Listed \in Nat
  BY DownloadIs, MarketAssumption
<1>2. DOMAIN p.got \subseteq Listed..n /\ DOMAIN p.base \subseteq Listed..n
  BY <1>1, BarsAre
<1>3. \A u \in DOMAIN p.base \cup DOMAIN p.got : u <= n
  BY <1>1, <1>2
<1> QED
  BY <1>3 DEF Fresh

\* The range of a first download, or of a forced one, has been fetched.
LEMMA WholeEnds ==
  ASSUME NEW n \in Nat, NEW q \in Download(n), Phase(q, n), q.pc = "fetch", Whole(q),
         NEW bars, Full(bars, q.since, q.upto, n), bars # Nothing,
         NEW p \in Download(n), Kept(p, q), p.got = Merge(q.got, bars),
         p.pc = IF q.known = Nothing THEN "write" ELSE "read"
  PROVE  Sound(p, n)
<1> USE DEF Full
<1>1. OneRange(q) /\ 1 <= q.start /\ q.start <= q.end /\ q.end <= n
  BY DEF Phase, Fetching
<1>2. Nothing \in Bars(n) /\ DOMAIN Nothing = {}
  BY NoBars
<1>3. p.got \in Bars(n) /\ IsMerged(p.got, Nothing, bars)
  BY <1>1, <1>2, MergeIs DEF OneRange
<1>4. DOMAIN p.got = DOMAIN bars /\ \A t \in DOMAIN p.got : p.got[t] \/ t = n
  BY <1>2, <1>3 DEF IsMerged
<1>5. Asked(p) = Asked(q) /\ DOMAIN bars = Asked(q)
  BY <1>1 DEF Asked, Kept, OneRange
<1>6. p.got # Nothing
  BY <1>2, <1>4, NoBars
<1>7. Fresh(p)
  BY <1>4, FreshBars
<1>8. Whole(p) /\ p.known = q.known /\ (p.known = Nothing => p.base = Nothing)
  BY <1>1 DEF Whole, Kept, OneRange
<1>9. p.pc = "write" => Writing(p)
  BY <1>4, <1>5, <1>6, <1>7, <1>8 DEF Writing
<1>10. p.pc = "read" => Reading(p)
  BY <1>4, <1>5, <1>6, <1>8 DEF Reading, Whole
<1>11. 1 <= p.start /\ p.start <= p.end /\ p.end <= n
  BY <1>1 DEF Kept
<1>12. p.pc = "write" \/ p.pc = "read"
  OBVIOUS
<1>13. Phase(p, n)
  BY <1>9, <1>10, <1>11, <1>12 DEF Phase
<1> QED
  BY <1>13 DEF Sound

\* What is kept of a request is all that its ranges depend on.
LEMMA SameRanges ==
  ASSUME NEW p, NEW q, Kept(p, q)
  PROVE  /\ Asked(p) = Asked(q) /\ Older(p) = Older(q) /\ Newer(p) = Newer(q)
         /\ Whole(p) = Whole(q)
BY DEF Kept, Asked, Older, Newer, Whole

\* The older range has been fetched, and there is no newer one.
LEMMA OlderEnds ==
  ASSUME NEW n \in Nat, NEW q \in Download(n), Phase(q, n), q.pc = "fetch", ~Whole(q),
         OlderFirst(q), q.todo = {},
         NEW bars, Full(bars, q.since, q.upto, n),
         NEW p \in Download(n), Kept(p, q), p.got = Merge(q.got, bars), p.got # Nothing,
         p.pc = "write"
  PROVE  Sound(p, n)
<1> USE DEF Full
<1>1. 1 <= q.start /\ q.start <= q.end /\ q.end <= n
  BY DEF Phase
<1>2. Nothing \in Bars(n) /\ DOMAIN Nothing = {}
  BY NoBars
<1>3. p.got \in Bars(n) /\ IsMerged(p.got, Nothing, bars)
  BY <1>2, MergeIs DEF OlderFirst
<1>4. DOMAIN p.got = DOMAIN bars /\ \A t \in DOMAIN p.got : p.got[t] \/ t = n
  BY <1>2, <1>3 DEF IsMerged
<1>5. Fresh(p)
  BY <1>4, FreshBars
<1>6. DOMAIN bars = Older(q) /\ Newer(q) = {}
  BY DEF OlderFirst, Older, Newer
<1>7. Older(p) = Older(q) /\ Newer(p) = Newer(q) /\ ~Whole(p)
  BY SameRanges
<1>8. Writing(p)
  BY <1>4, <1>5, <1>6, <1>7 DEF Writing, Whole
<1>9. 1 <= p.start /\ p.start <= p.end /\ p.end <= n
  BY <1>1 DEF Kept
<1>10. Phase(p, n)
  BY <1>8, <1>9 DEF Phase
<1> QED
  BY <1>10 DEF Sound

\* The older range has been fetched, and the newer one is next.
LEMMA NewerNext ==
  ASSUME NEW n \in Nat, NEW q \in Download(n), Phase(q, n), q.pc = "fetch", ~Whole(q),
         OlderFirst(q), NEW r \in q.todo,
         NEW bars, Full(bars, q.since, q.upto, n),
         NEW p \in Download(n), Kept(p, q), p.got = Merge(q.got, bars),
         p.pc = "fetch", p.todo = {}, p.since = r[1], p.upto = r[2], p.rows = Nothing
  PROVE  Sound(p, n)
<1> USE DEF Full
<1>1. 1 <= q.start /\ q.start <= q.end /\ q.end <= n
  BY DEF Phase
<1>2. Nothing \in Bars(n) /\ DOMAIN Nothing = {} /\ q.known \in Bars(n) /\ q.known # Nothing
      /\ q.end \in Nat /\ Listed \in Nat
  BY NoBars, DownloadIs, MarketAssumption DEF Whole
<1>3. p.got \in Bars(n) /\ IsMerged(p.got, Nothing, bars)
  BY <1>2, MergeIs DEF OlderFirst
<1>4. DOMAIN p.got = DOMAIN bars /\ \A t \in DOMAIN p.got : p.got[t] \/ t = n
  BY <1>2, <1>3 DEF IsMerged
<1>5. DOMAIN bars = Older(q)
  BY DEF OlderFirst, Older
<1>6. q.end > Newest(q.known) /\ r = <<Newest(q.known), q.end>>
  BY DEF OlderFirst
<1>7. First(q.known) \in Listed..n /\ Newest(q.known) \in Listed..n
      /\ First(q.known) <= Newest(q.known)
  BY <1>2, Ends
<1>8. \A t \in DOMAIN p.got : p.got[t]
  <2> SUFFICES ASSUME NEW t \in DOMAIN p.got PROVE p.got[t]
    OBVIOUS
  <2>1. t \in Larger(q.since, Listed)..First(q.known)
    BY <1>4 DEF OlderFirst
  <2>2. t # n
    BY <1>1, <1>2, <1>6, <1>7, <2>1
  <2> QED
    BY <1>4, <2>2
<1>9. p.since = Newest(p.known) /\ p.upto = p.end /\ Newest(p.known) < p.end
  BY <1>2, <1>6, <1>7 DEF Kept
<1>10. ThenNewer(p)
  BY <1>4, <1>5, <1>8, <1>9, SameRanges DEF ThenNewer
<1>11. ~Whole(p) /\ Paged(p)
  BY SameRanges DEF Paged
<1>12. p.since <= p.upto /\ p.upto <= n
  BY <1>1, <1>2, <1>6, <1>7
<1>13. Fetching(p, n)
  BY <1>10, <1>11, <1>12 DEF Fetching
<1>14. 1 <= p.start /\ p.start <= p.end /\ p.end <= n
  BY <1>1 DEF Kept
<1>15. Phase(p, n)
  BY <1>13, <1>14 DEF Phase
<1> QED
  BY <1>15 DEF Sound

\* The newer range has been fetched.
LEMMA NewerEnds ==
  ASSUME NEW n \in Nat, NEW q \in Download(n), Phase(q, n), q.pc = "fetch", ~Whole(q),
         ThenNewer(q),
         NEW bars, Full(bars, q.since, q.upto, n),
         NEW p \in Download(n), Kept(p, q), p.got = Merge(q.got, bars), p.got # Nothing,
         p.pc = "write"
  PROVE  Sound(p, n)
<1> USE DEF Full
<1>1. 1 <= q.start /\ q.start <= q.end /\ q.end <= n
  BY DEF Phase
<1>2. q.got \in Bars(n) /\ q.known \in Bars(n) /\ q.known # Nothing
      /\ q.end \in Nat /\ Listed \in Nat
  BY DownloadIs, MarketAssumption DEF Whole
<1>3. p.got \in Bars(n) /\ IsMerged(p.got, q.got, bars)
  BY <1>2, MergeIs
<1>4. DOMAIN p.got = Older(q) \cup DOMAIN bars
  BY <1>3 DEF IsMerged, ThenNewer
<1>5. ASSUME NEW t \in DOMAIN p.got PROVE p.got[t] \/ t = n
  <2>1. CASE t \in DOMAIN bars
    BY <1>3, <2>1 DEF IsMerged
  <2>2. CASE t \in DOMAIN q.got \ DOMAIN bars
    <3>1. p.got[t] = q.got[t] /\ q.got[t]
      BY <1>3, <2>2 DEF IsMerged, ThenNewer
    <3> QED
      BY <3>1
  <2> QED
    BY <1>3, <1>5, <2>1, <2>2 DEF IsMerged
<1>6. Fresh(p)
  BY <1>5, FreshBars
<1>7. Newest(q.known) \in Listed..n
  BY <1>2, Ends
<1>8. Larger(q.since, Listed) = Newest(q.known)
  BY <1>2, <1>7 DEF Larger, ThenNewer
<1>9. DOMAIN bars = Newer(q)
  BY <1>2, <1>7, <1>8 DEF ThenNewer, Newer
<1>10. Older(p) = Older(q) /\ Newer(p) = Newer(q) /\ ~Whole(p)
  BY SameRanges
<1>11. Writing(p)
  BY <1>4, <1>6, <1>9, <1>10 DEF Writing, Whole
<1>12. 1 <= p.start /\ p.start <= p.end /\ p.end <= n
  BY <1>1 DEF Kept
<1>13. Phase(p, n)
  BY <1>11, <1>12 DEF Phase
<1> QED
  BY <1>13 DEF Sound

\* The pages go on.
LEMMA MorePages ==
  ASSUME NEW n \in Nat, NEW q \in Download(n), Phase(q, n), q.pc = "fetch",
         NEW rows \in Bars(n), NEW m \in Larger(q.since, Listed)..n, m < q.upto,
         DOMAIN rows = Larger(q.since, Listed)..m, \A t \in DOMAIN rows : rows[t] \/ t = n,
         NEW p, p = [q EXCEPT !.rows = rows]
  PROVE  Sound(p, n) /\ FetchedTo(p, q, n)
<1>1. /\ p \in Download(n) /\ Kept(p, q) /\ p.pc = "fetch" /\ p.todo = q.todo /\ p.got = q.got
      /\ p.since = q.since /\ p.upto = q.upto /\ p.rows = rows
  BY DEF Download, Kept
<1>2. Fetching(q, n) /\ 1 <= q.start /\ q.start <= q.end /\ q.end <= n
  BY DEF Phase
<1>3. Larger(q.since, Listed) \in Nat /\ q.upto \in Nat /\ q.upto <= n
  BY <1>2, DownloadIs, MarketAssumption DEF Larger, Fetching
<1>4. \A t \in DOMAIN rows : rows[t]
  BY <1>3
<1>5. m \in Larger(q.since, Listed)..(q.upto - 1)
  BY <1>3
<1>6. Paged(p)
  BY <1>1, <1>4, <1>5 DEF Paged
<1>7. IF Whole(p) THEN OneRange(p) ELSE OlderFirst(p) \/ ThenNewer(p)
  <2>1. Whole(p) = Whole(q) /\ Older(p) = Older(q)
    BY <1>1, SameRanges
  <2>2. OneRange(q) => OneRange(p)
    BY <1>1 DEF OneRange, Kept
  <2>3. OlderFirst(q) => OlderFirst(p)
    BY <1>1 DEF OlderFirst, Kept
  <2>4. ThenNewer(q) => ThenNewer(p)
    BY <1>1, <2>1 DEF ThenNewer, Kept
  <2> QED
    BY <1>2, <2>1, <2>2, <2>3, <2>4 DEF Fetching
<1>8. Fetching(p, n)
  BY <1>1, <1>2, <1>6, <1>7 DEF Fetching
<1>9. 1 <= p.start /\ p.start <= p.end /\ p.end <= n
  BY <1>1, <1>2 DEF Kept
<1>10. Phase(p, n)
  BY <1>1, <1>8, <1>9 DEF Phase
<1> QED
  BY <1>1, <1>10 DEF Sound, FetchedTo

\* The range has ended.
LEMMA RangeEnds ==
  ASSUME NEW n \in Nat, NEW q \in Download(n), Phase(q, n), q.pc = "fetch",
         NEW rows, NEW m \in Larger(q.since, Listed)..n, m >= q.upto, Full(rows, q.since, m, n),
         NEW more, more = [q EXCEPT !.rows = rows],
         NEW p, p = EndOfRange(more)
  PROVE  Sound(p, n) /\ FetchedTo(p, q, n)
<1>1. Fetching(q, n) /\ 1 <= q.start /\ q.start <= q.end /\ q.end <= n
  BY DEF Phase
<1>2. /\ q.since \in Nat /\ q.upto \in Nat /\ q.end \in Nat /\ q.upto <= n /\ Listed \in Nat
      /\ q.known \in Bars(n) /\ q.got \in Bars(n)
      /\ Nothing \in Bars(n) /\ DOMAIN Nothing = {} /\ m \in Nat
  BY <1>1, DownloadIs, NoBars, MarketAssumption DEF Fetching, Larger
<1>3. PICK bars : bars = Within(rows, q.since, q.upto)
  OBVIOUS
<1>4. Full(bars, q.since, q.upto, n)
  BY <1>2, <1>3, RangeIs
<1>5. PICK got : got = Merge(q.got, bars)
  OBVIOUS
<1>6. rows \in Bars(n) /\ bars \in Bars(n) /\ DOMAIN bars = Larger(q.since, Listed)..q.upto
  BY <1>4 DEF Full
<1>7. got \in Bars(n) /\ IsMerged(got, q.got, bars)
  BY <1>2, <1>5, <1>6, MergeIs
<1>8. ~Whole(q) => /\ OlderFirst(q) \/ ThenNewer(q)
                   /\ DOMAIN bars # {}
  <2> SUFFICES ASSUME ~Whole(q) PROVE (OlderFirst(q) \/ ThenNewer(q)) /\ DOMAIN bars # {}
    OBVIOUS
  <2>1. OlderFirst(q) \/ ThenNewer(q)
    BY <1>1 DEF Fetching
  <2>2. First(q.known) \in Listed..n /\ Newest(q.known) \in Listed..n
    BY <1>2, Ends DEF Whole
  <2>3. q.since <= q.upto /\ Listed <= q.upto
    BY <1>1, <1>2, <2>1, <2>2 DEF Fetching, OlderFirst, ThenNewer
  <2>4. Larger(q.since, Listed) <= q.upto
    BY <1>2, <2>3 DEF Larger
  <2>5. Larger(q.since, Listed) \in Int
    BY <1>2 DEF Larger
  <2>6. q.upto \in DOMAIN bars
    BY <1>2, <1>6, <2>4, <2>5
  <2> QED
    BY <2>1, <2>6
<1>9. ~Whole(q) => got # Nothing
  BY <1>2, <1>7, <1>8 DEF IsMerged
<1>10. q.todo = {} \/ \E r : q.todo = {r}
  BY <1>1 DEF Fetching, OneRange, OlderFirst, ThenNewer
<1>11. EndedTo(p, q, bars, n)
  BY <1>3, <1>5, <1>6, <1>9, <1>10, EndOfRangeIs
<1>12. CASE p = Idle
  BY <1>12, IdleIsSound DEF FetchedTo
<1>13. CASE ~(Whole(q) /\ bars = Nothing)
  <2>1. p \in Download(n) /\ Kept(p, q) /\ p.got = Merge(q.got, bars)
    BY <1>13, <1>11 DEF EndedTo
  <2>2. CASE Whole(q) /\ p.pc = IF q.known = Nothing THEN "write" ELSE "read"
    <3>1. Sound(p, n)
      BY <1>4, <1>13, <2>1, <2>2, WholeEnds
    <3>2. (p.pc = "read" => p.force) /\ (p.pc = "write" => p.known = Nothing)
      BY <2>1, <2>2 DEF Whole, Kept
    <3> QED
      BY <2>1, <2>2, <3>1, <3>2 DEF FetchedTo
  <2>3. CASE ~Whole(q) /\ q.todo = {} /\ p.pc = "write"
    <3>1. p.got # Nothing
      BY <1>5, <1>9, <2>1, <2>3
    <3>2. ASSUME OlderFirst(q) PROVE Sound(p, n)
      BY <1>4, <2>1, <2>3, <3>1, <3>2, OlderEnds
    <3>3. ASSUME ThenNewer(q) PROVE Sound(p, n)
      BY <1>4, <2>1, <2>3, <3>1, <3>3, NewerEnds
    <3> QED
      BY <1>8, <2>1, <2>3, <3>2, <3>3 DEF FetchedTo, Whole, Kept
  <2>4. CASE \E r \in q.todo : /\ ~Whole(q) /\ q.todo = {r} /\ p.pc = "fetch" /\ p.todo = {}
                               /\ p.since = r[1] /\ p.upto = r[2] /\ p.rows = Nothing
    <3>1. PICK r \in q.todo : /\ ~Whole(q) /\ q.todo = {r} /\ p.pc = "fetch" /\ p.todo = {}
                              /\ p.since = r[1] /\ p.upto = r[2] /\ p.rows = Nothing
      BY <2>4
    <3>2. OlderFirst(q)
      BY <1>8, <3>1 DEF ThenNewer
    <3>3. Sound(p, n)
      BY <1>4, <2>1, <3>1, <3>2, NewerNext
    <3> QED
      BY <2>1, <3>1, <3>3 DEF FetchedTo
  <2> QED
    BY <1>11, <1>13, <2>2, <2>3, <2>4 DEF EndedTo
<1> QED
  BY <1>11, <1>12, <1>13 DEF EndedTo

-----------------------------------------------------------------------------
(* The steps. *)

\* The request of c becomes p.
Becomes(c, p) == req' = [req EXCEPT ![c] = p]

\* A request is a download or a live cycle, as its state says.
LEMMA WhichIs ==
  ASSUME NEW n \in Nat, NEW q, Sound(q, n)
  PROVE  /\ q.pc \in {"idle", "read", "fetch", "write", "replace", "answered"}
              => q \in Download(n) /\ Phase(q, n)
         /\ q.pc \in {"asked", "replied", "done"}
              => /\ q \in Cycle(n) /\ (q.pc = "replied" => Answer(q, n))
                 /\ (q.pc = "done" /\ q.checked = q.end => NewestClosed(q))
<1>1. q \in Download(n) => q.pc \in {"idle", "read", "fetch", "write", "replace", "answered"}
  BY DEF Download
<1>2. q \in Cycle(n) => q.pc \in {"asked", "replied", "done"}
  BY DEF Cycle
<1> QED
  BY <1>1, <1>2 DEF Sound

\* FetchPage, in one go.
LEMMA FetchPageStep ==
  ASSUME Inv, NEW c \in Clients, FetchPage(c)
  PROVE  /\ req[c].pc = "fetch" /\ UNCHANGED <<now, file, tmp, made, rough>>
         /\ \E p : Becomes(c, p) /\ Sound(p, now) /\ FetchedTo(p, req[c], now)
<1>1. PICK n : n = now
  OBVIOUS
<1>2. PICK q : q = req[c]
  OBVIOUS
<1>3. n \in Nat /\ Listed <= n /\ Sound(q, n) /\ q.pc = "fetch"
  BY <1>1, <1>2 DEF Inv, FetchPage
<1>4. q \in Download(n) /\ Phase(q, n)
  BY <1>3, WhichIs
<1>5. PICK page : page = RowsFrom(IF q.rows = Nothing THEN q.since ELSE Newest(q.rows) + 1)
  OBVIOUS
<1>6. PICK rows : rows = Merge(q.rows, page)
  OBVIOUS
<1>7. PICK more : more = [q EXCEPT !.rows = rows]
  OBVIOUS
<1>8. PICK p : p = IF page = Nothing \/ Newest(page) >= q.upto THEN EndOfRange(more) ELSE more
  OBVIOUS
<1>9. Becomes(c, p) /\ UNCHANGED <<now, file, tmp, made, rough>>
  BY <1>2, <1>5, <1>6, <1>7, <1>8 DEF FetchPage, Becomes
<1>10. q.since <= q.upto /\ q.upto <= n /\ Paged(q)
  BY <1>3, <1>4 DEF Phase, Fetching
<1>11. /\ page # Nothing /\ rows \in Bars(n)
       /\ Newest(page) \in Larger(q.since, Listed)..n
       /\ DOMAIN rows = Larger(q.since, Listed)..Newest(page)
       /\ \A t \in DOMAIN rows : rows[t] \/ t = n
  BY <1>1, <1>3, <1>4, <1>5, <1>6, <1>10, NextPage
<1>12. Sound(p, n) /\ FetchedTo(p, q, n)
  <2>0. Full(rows, q.since, Newest(page), n)
    BY <1>11 DEF Full
  <2>1. CASE Newest(page) >= q.upto
    <3>1. p = EndOfRange(more)
      BY <1>8, <2>1
    <3> QED
      BY <1>3, <1>4, <1>7, <1>11, <2>0, <2>1, <3>1, RangeEnds
  <2>2. CASE ~(Newest(page) >= q.upto)
    <3>1. p = more
      BY <1>8, <1>11, <2>2
    <3>2. Newest(page) < q.upto
      <4>1. q.upto \in Int /\ Larger(q.since, Listed) \in Int
        BY <1>4, DownloadIs, MarketAssumption DEF Larger
      <4> QED
        BY <1>3, <1>11, <2>2, <4>1
    <3> QED
      BY <1>3, <1>4, <1>7, <1>11, <3>1, <3>2, MorePages
  <2> QED
    BY <2>1, <2>2
<1> QED
  BY <1>1, <1>2, <1>3, <1>9, <1>12

\* What a request starts as.
RequestedTo(p, f) ==
  /\ p \in Download(now) /\ p.known = f /\ p.pc \in {"answered", "read", "fetch"}
  /\ p.pc = "answered" => Covers(f, p.start, p.end)
  /\ p.pc = "read" => ~p.force
  /\ p.pc = "fetch" => p.base = Nothing /\ (~p.force => f = Nothing)

\* A forced download fits to what is known.
Adjoins(q) ==
  q.known # Nothing => q.end + 1 >= First(q.known) /\ q.start <= Newest(q.known) + 1

\* A new request of one range takes it.
LEMMA FirstTake ==
  ASSUME NEW n \in Nat, NEW a \in Download(n), 1 <= a.start, a.start <= a.end, a.end <= n,
         Whole(a), a.todo = {<<a.start, a.end>>}, a.got = Nothing, a.base = Nothing,
         NEW p, p = Take(a)
  PROVE  Sound(p, n) /\ p \in Download(n) /\ p.pc = "fetch" /\ Kept(p, a)
<1>1. PICK r : r = <<a.start, a.end>>
  OBVIOUS
<1>2. r \in a.todo /\ (\A s \in a.todo : s # r => r[1] < s[1]) /\ a.todo \ {r} = {}
      /\ r[1] = a.start /\ r[2] = a.end
  BY <1>1
<1>3. /\ p \in Download(n) /\ p.pc = "fetch" /\ Kept(p, a) /\ p.got = a.got
      /\ p.todo = a.todo \ {r} /\ p.since = r[1] /\ p.upto = r[2] /\ p.rows = Nothing
  BY <1>2, TakeOldest
<1>4. /\ p.start = a.start /\ p.end = a.end /\ p.force = a.force /\ p.known = a.known
      /\ p.base = Nothing /\ p.got = Nothing /\ p.todo = {}
      /\ p.since = a.start /\ p.upto = a.end
  BY <1>2, <1>3 DEF Kept
<1>5. Whole(p) /\ OneRange(p) /\ Paged(p)
  BY <1>3, <1>4 DEF Whole, OneRange, Paged
<1>6. Fetching(p, n)
  BY <1>4, <1>5 DEF Fetching
<1>7. Phase(p, n)
  BY <1>3, <1>4, <1>6 DEF Phase
<1> QED
  BY <1>3, <1>7 DEF Sound

\* A request of these bars.
Starts(c, start, end, force) ==
  LET q == [Idle EXCEPT !.start = start, !.end = end, !.force = force, !.known = file]
  IN  /\ req' = [req EXCEPT ![c] =
            IF ~force /\ Covers(file, start, end) THEN [q EXCEPT !.pc = "answered"]
            ELSE IF force \/ file = Nothing
                 THEN Take([q EXCEPT !.todo = {<<start, end>>}])
            ELSE [q EXCEPT !.pc = "read"]]
      /\ rough' = rough
           \cup (IF \E d \in Clients : Busy(d) THEN {"overlap"} ELSE {})
           \cup (IF force THEN {"force"} ELSE {})
           \cup (IF force /\ file # Nothing
                     /\ (end + 1 < First(file) \/ start > Newest(file) + 1)
                 THEN {"island"} ELSE {})

\* Request, in one go; what is rough about it is marked.
LEMMA RequestStep ==
  ASSUME Inv, NEW c \in Clients, Request(c)
  PROVE  /\ ~Busy(c) /\ UNCHANGED <<now, file, tmp>> /\ rough \subseteq rough'
         /\ (\E d \in Clients : Busy(d)) => "overlap" \in rough'
         /\ \E p : /\ Becomes(c, p) /\ Sound(p, now) /\ RequestedTo(p, file)
                   /\ p.force => "force" \in rough'
                   /\ p.force /\ ~Adjoins(p) => "island" \in rough'
<1>1. PICK n : n = now
  OBVIOUS
<1>2. n \in Nat /\ file \in Bars(n) /\ Nothing \in Bars(n)
  BY <1>1, NoBars DEF Inv
<1>3. PICK start \in 1..now, force \in BOOLEAN : \E end \in start..now :
              Starts(c, start, end, force)
  BY DEF Request, Starts
<1>4. PICK end \in start..now : Starts(c, start, end, force)
  BY <1>3
<1>5. PICK q : q = [Idle EXCEPT !.start = start, !.end = end, !.force = force, !.known = file]
  OBVIOUS
<1>6. PICK p : p = IF ~force /\ Covers(file, start, end) THEN [q EXCEPT !.pc = "answered"]
                   ELSE IF force \/ file = Nothing
                        THEN Take([q EXCEPT !.todo = {<<start, end>>}])
                   ELSE [q EXCEPT !.pc = "read"]
  OBVIOUS
<1>7. Becomes(c, p)
  BY <1>4, <1>5, <1>6 DEF Becomes, Starts
<1>8. /\ rough \subseteq rough' /\ ((\E d \in Clients : Busy(d)) => "overlap" \in rough')
      /\ force => "force" \in rough'
      /\ force /\ file # Nothing /\ (end + 1 < First(file) \/ start > Newest(file) + 1)
           => "island" \in rough'
  BY <1>4 DEF Starts
<1>9. start \in Nat /\ end \in Nat /\ 1 <= start /\ start <= end /\ end <= n
  BY <1>1, <1>2
<1>10. /\ q \in Download(n) /\ q.start = start /\ q.end = end /\ q.force = force
       /\ q.known = file /\ q.base = Nothing /\ q.got = Nothing
  BY <1>2, <1>5, <1>9 DEF Idle, Download
<1>11. /\ Sound(p, n) /\ p \in Download(n) /\ p.known = file /\ p.force = force
       /\ p.start = start /\ p.end = end
       /\ p.pc \in {"answered", "read", "fetch"}
       /\ p.pc = "answered" => Covers(file, start, end)
       /\ p.pc = "read" => ~force
       /\ p.pc = "fetch" => p.base = Nothing /\ (~force => file = Nothing)
  <2>1. CASE ~force /\ Covers(file, start, end)
    <3>1. p = [q EXCEPT !.pc = "answered"]
      BY <1>6, <2>1
    <3>2. p \in Download(n) /\ p.pc = "answered" /\ Kept(p, q)
      BY <1>10, <3>1, MovedOn
    <3>3. Phase(p, n)
      BY <3>2 DEF Phase
    <3> QED
      BY <1>10, <2>1, <3>2, <3>3 DEF Sound, Kept
  <2>2. CASE ~(~force /\ Covers(file, start, end)) /\ (force \/ file = Nothing)
    <3>1. PICK a : a = [q EXCEPT !.todo = {<<start, end>>}]
      OBVIOUS
    <3>2. p = Take(a)
      BY <1>6, <2>2, <3>1
    <3>3. a \in Download(n) /\ a.todo = {<<a.start, a.end>>} /\ Kept(a, q) /\ a.got = q.got
      BY <1>9, <1>10, <3>1 DEF Download, Kept
    <3>4. /\ a.start = start /\ a.end = end /\ a.force = force /\ a.known = file
          /\ a.base = Nothing /\ a.got = Nothing
      BY <1>10, <3>3 DEF Kept
    <3>5. Sound(p, n) /\ p \in Download(n) /\ p.pc = "fetch" /\ Kept(p, a)
      BY <1>2, <1>9, <2>2, <3>2, <3>3, <3>4, FirstTake DEF Whole
    <3> QED
      BY <2>2, <3>4, <3>5 DEF Kept
  <2>3. CASE ~(~force /\ Covers(file, start, end)) /\ ~(force \/ file = Nothing)
    <3>1. p = [q EXCEPT !.pc = "read"]
      BY <1>6, <2>3
    <3>2. p \in Download(n) /\ p.pc = "read" /\ Kept(p, q) /\ p.got = q.got
      BY <1>10, <3>1, MovedOn
    <3>3. First(file) \in Listed..n /\ Newest(file) \in Listed..n /\ Listed \in Nat
      BY <1>2, <2>3, Ends, MarketAssumption
    <3>4. start < First(file) \/ end > Newest(file)
      BY <1>9, <2>3, <3>3 DEF Covers
    <3>5. Reading(p)
      BY <1>10, <2>3, <3>2, <3>4 DEF Reading, Kept
    <3>6. Phase(p, n)
      BY <1>9, <1>10, <3>2, <3>5 DEF Phase, Kept
    <3> QED
      BY <1>10, <2>3, <3>2, <3>6 DEF Sound, Kept
  <2> QED
    BY <2>1, <2>2, <2>3
<1>12. RequestedTo(p, file)
  BY <1>1, <1>11 DEF RequestedTo
<1>13. p.force /\ ~Adjoins(p) => "island" \in rough'
  <2>1. SUFFICES ASSUME p.force, ~Adjoins(p) PROVE "island" \in rough'
    OBVIOUS
  <2>2. file # Nothing /\ ~(end + 1 >= First(file) /\ start <= Newest(file) + 1)
    BY <1>11, <2>1 DEF Adjoins
  <2>3. First(file) \in Listed..n /\ Newest(file) \in Listed..n /\ Listed \in Nat
    BY <1>2, <2>2, Ends, MarketAssumption
  <2>4. end + 1 < First(file) \/ start > Newest(file) + 1
    BY <1>9, <2>2, <2>3
  <2> QED
    BY <1>8, <1>11, <2>1, <2>2, <2>4
<1>14. ~Busy(c) /\ UNCHANGED <<now, file, tmp>>
  BY DEF Request
<1>15. p.force => "force" \in rough'
  BY <1>8, <1>11
<1>16. Sound(p, now)
  BY <1>1, <1>11
<1> QED
  BY <1>7, <1>8, <1>12, <1>13, <1>14, <1>15, <1>16

\* What a request becomes once it has read the file f.
ReadTo(p, q, f, n) ==
  /\ p \in Download(n) /\ p.start = q.start /\ p.end = q.end /\ p.force = q.force
  /\ p.known = q.known /\ p.base = f /\ p.pc = IF q.force THEN "write" ELSE "fetch"

\* The older range is taken first.
LEMMA OlderTaken ==
  ASSUME NEW n \in Nat, NEW a \in Download(n), 1 <= a.start, a.start <= a.end, a.end <= n,
         ~Whole(a), a.got = Nothing, a.start < First(a.known),
         a.todo = Gaps(a.known, a.start, a.end),
         NEW p, p = Take(a)
  PROVE  Sound(p, n) /\ p \in Download(n) /\ p.pc = "fetch" /\ Kept(p, a)
<1>1. /\ a.known \in Bars(n) /\ a.known # Nothing /\ a.start \in Nat /\ a.end \in Nat
      /\ Listed \in Nat
  BY DownloadIs, MarketAssumption DEF Whole
<1>2. First(a.known) \in Listed..n /\ Newest(a.known) \in Listed..n
      /\ First(a.known) <= Newest(a.known)
  BY <1>1, Ends
<1>3. PICK r : r = <<a.start, First(a.known)>>
  OBVIOUS
<1>4. a.todo = {r} \cup {s \in {<<Newest(a.known), a.end>>} : a.end > Newest(a.known)}
  BY <1>3 DEF Gaps
<1>5. r[1] = a.start /\ r[2] = First(a.known) /\ r \in a.todo
  BY <1>3, <1>4
<1>6. \A s \in a.todo : s # r => r[1] < s[1]
  <2> SUFFICES ASSUME NEW s \in a.todo, s # r PROVE r[1] < s[1]
    OBVIOUS
  <2>1. s[1] = Newest(a.known)
    BY <1>4
  <2> QED
    BY <1>1, <1>2, <1>5, <2>1
<1>7. a.todo \ {r} = IF a.end > Newest(a.known) THEN {<<Newest(a.known), a.end>>} ELSE {}
  <2>1. Newest(a.known) # a.start
    BY <1>1, <1>2
  <2>2. <<Newest(a.known), a.end>> # r
    BY <1>3, <2>1
  <2> QED
    BY <1>4, <2>2
<1>8. /\ p \in Download(n) /\ p.pc = "fetch" /\ Kept(p, a) /\ p.got = a.got
      /\ p.todo = a.todo \ {r} /\ p.since = r[1] /\ p.upto = r[2] /\ p.rows = Nothing
  BY <1>5, <1>6, TakeOldest
<1>9. OlderFirst(p)
  BY <1>5, <1>7, <1>8 DEF OlderFirst, Kept
<1>10. ~Whole(p) /\ Paged(p)
  BY <1>8 DEF Whole, Kept, Paged
<1>11. p.since <= p.upto /\ p.upto <= n
  BY <1>1, <1>2, <1>5, <1>8
<1>12. Fetching(p, n)
  BY <1>9, <1>10, <1>11 DEF Fetching
<1>13. Phase(p, n)
  BY <1>8, <1>12 DEF Phase, Kept
<1> QED
  BY <1>8, <1>13 DEF Sound

\* There is only a newer range.
LEMMA NewerTaken ==
  ASSUME NEW n \in Nat, NEW a \in Download(n), 1 <= a.start, a.start <= a.end, a.end <= n,
         ~Whole(a), a.got = Nothing, ~(a.start < First(a.known)), a.end > Newest(a.known),
         a.todo = Gaps(a.known, a.start, a.end),
         NEW p, p = Take(a)
  PROVE  Sound(p, n) /\ p \in Download(n) /\ p.pc = "fetch" /\ Kept(p, a)
<1>1. /\ a.known \in Bars(n) /\ a.known # Nothing /\ a.start \in Nat /\ a.end \in Nat
      /\ Listed \in Nat /\ DOMAIN Nothing = {}
  BY DownloadIs, NoBars, MarketAssumption DEF Whole
<1>2. Newest(a.known) \in Listed..n
  BY <1>1, Ends
<1>3. PICK r : r = <<Newest(a.known), a.end>>
  OBVIOUS
<1>4. a.todo = {r}
  BY <1>3 DEF Gaps
<1>5. r[1] = Newest(a.known) /\ r[2] = a.end
  BY <1>3
<1>6. r \in a.todo /\ (\A s \in a.todo : s # r => r[1] < s[1]) /\ a.todo \ {r} = {}
  BY <1>4
<1>7. /\ p \in Download(n) /\ p.pc = "fetch" /\ Kept(p, a) /\ p.got = a.got
      /\ p.todo = a.todo \ {r} /\ p.since = r[1] /\ p.upto = r[2] /\ p.rows = Nothing
  BY <1>6, TakeOldest
<1>8. Older(p) = {} /\ DOMAIN p.got = {}
  BY <1>1, <1>7 DEF Older, Kept
<1>9. Newest(p.known) < p.end
  BY <1>1, <1>2, <1>7 DEF Kept
<1>10. ThenNewer(p)
  BY <1>5, <1>6, <1>7, <1>8, <1>9 DEF ThenNewer, Kept
<1>11. ~Whole(p) /\ Paged(p)
  BY <1>7 DEF Whole, Kept, Paged
<1>12. p.since <= p.upto /\ p.upto <= n
  BY <1>1, <1>2, <1>5, <1>7
<1>13. Fetching(p, n)
  BY <1>10, <1>11, <1>12 DEF Fetching
<1>14. Phase(p, n)
  BY <1>7, <1>13 DEF Phase, Kept
<1> QED
  BY <1>7, <1>14 DEF Sound

\* ReadExisting, in one go.
LEMMA ReadStep ==
  ASSUME Inv, NEW c \in Clients, ReadExisting(c)
  PROVE  /\ req[c].pc = "read" /\ UNCHANGED <<now, file, tmp, made, rough>>
         /\ \E p : Becomes(c, p) /\ Sound(p, now) /\ ReadTo(p, req[c], file, now)
<1>1. PICK n : n = now
  OBVIOUS
<1>2. PICK q : q = req[c]
  OBVIOUS
<1>3. n \in Nat /\ file \in Bars(n) /\ Sound(q, n) /\ q.pc = "read"
  BY <1>1, <1>2 DEF Inv, ReadExisting
<1>4. q \in Download(n) /\ Reading(q) /\ 1 <= q.start /\ q.start <= q.end /\ q.end <= n
  BY <1>3, WhichIs DEF Phase
<1>5. PICK b : b = [q EXCEPT !.base = file]
  OBVIOUS
<1>6. /\ b \in Download(n) /\ b.pc = "read" /\ b.start = q.start /\ b.end = q.end
      /\ b.force = q.force /\ b.known = q.known /\ b.base = file /\ b.got = q.got
  BY <1>3, <1>4, <1>5 DEF Download
<1>7. PICK a : a = [b EXCEPT !.todo = Gaps(b.known, b.start, b.end)]
  OBVIOUS
<1>8. PICK p : p = IF b.force THEN [b EXCEPT !.pc = "write"] ELSE Take(a)
  OBVIOUS
<1>9. Becomes(c, p) /\ UNCHANGED <<now, file, tmp, made, rough>>
  BY <1>2, <1>5, <1>7, <1>8 DEF ReadExisting, Becomes
<1>10. Sound(p, n) /\ ReadTo(p, q, file, n)
  <2>1. CASE q.force
    <3>1. p = [b EXCEPT !.pc = "write"]
      BY <1>6, <1>8, <2>1
    <3>2. p \in Download(n) /\ p.pc = "write" /\ Kept(p, b) /\ p.got = b.got
      BY <1>6, <3>1, MovedOn
    <3>3. DOMAIN p.got = Asked(p) /\ p.known # Nothing /\ p.force
      BY <1>4, <1>6, <2>1, <3>2 DEF Reading, Asked, Kept
    <3>4. p.got # Nothing
      BY <1>4, <1>6, <2>1, <3>2 DEF Reading
    <3>5. Writing(p)
      BY <3>3, <3>4 DEF Writing, Whole
    <3>6. Phase(p, n)
      BY <1>4, <1>6, <3>2, <3>5 DEF Phase, Kept
    <3>7. ReadTo(p, q, file, n)
      BY <1>6, <2>1, <3>2 DEF ReadTo, Kept
    <3> QED
      BY <3>2, <3>6, <3>7 DEF Sound
  <2>2. CASE ~q.force
    <3>1. p = Take(a)
      BY <1>6, <1>8, <2>2
    <3>2. /\ b.known \in Bars(n) /\ b.known # Nothing /\ b.start \in Nat /\ b.end \in Nat
          /\ Listed \in Nat
      BY <1>4, <1>6, DownloadIs, MarketAssumption DEF Reading
    <3>3. First(b.known) \in Listed..n /\ Newest(b.known) \in Listed..n
      BY <1>3, <3>2, Ends
    <3>4. Gaps(b.known, b.start, b.end) \in SUBSET (Nat \X Nat)
      BY <3>2, <3>3 DEF Gaps
    <3>5. a \in Download(n) /\ a.todo = Gaps(b.known, b.start, b.end) /\ Kept(a, b) /\ a.got = b.got
      BY <1>6, <1>7, <3>4 DEF Download, Kept
    <3>6. /\ a.start = q.start /\ a.end = q.end /\ a.force = q.force /\ a.known = q.known
          /\ a.base = file /\ a.got = Nothing /\ a.todo = Gaps(a.known, a.start, a.end)
          /\ ~Whole(a) /\ (a.start < First(a.known) \/ a.end > Newest(a.known))
      BY <1>4, <1>6, <2>2, <3>5 DEF Reading, Whole, Kept
    <3>7. Sound(p, n) /\ p \in Download(n) /\ p.pc = "fetch" /\ Kept(p, a)
      <4>1. CASE a.start < First(a.known)
        BY <1>3, <1>4, <3>1, <3>5, <3>6, <4>1, OlderTaken
      <4>2. CASE ~(a.start < First(a.known))
        BY <1>3, <1>4, <3>1, <3>5, <3>6, <4>2, NewerTaken
      <4> QED
        BY <4>1, <4>2
    <3> QED
      BY <2>2, <3>6, <3>7 DEF ReadTo, Kept
  <2> QED
    BY <1>4, <2>1, <2>2, DownloadIs
<1> QED
  BY <1>1, <1>2, <1>3, <1>9, <1>10

\* FetchFails: the request is given up.
LEMMA FetchFailsStep ==
  ASSUME Inv, NEW c \in Clients, FetchFails(c)
  PROVE  /\ req[c].pc = "fetch" /\ UNCHANGED <<now, file, tmp, made, rough>>
         /\ Becomes(c, Idle) /\ Sound(Idle, now)
<1>1. Sound(Idle, now)
  BY IdleIsSound DEF Inv
<1> QED
  BY <1>1 DEF FetchFails, Becomes

\* WriteTmp, in one go.
LEMMA WriteStep ==
  ASSUME Inv, NEW c \in Clients, WriteTmp(c)
  PROVE  /\ req[c].pc = "write" /\ req[c] \in Download(now) /\ Phase(req[c], now)
         /\ UNCHANGED <<now, file, made, rough>>
         /\ tmp' = Merge(req[c].base, req[c].got) /\ tmp' \in Bars(now)
         /\ \E p : /\ Becomes(c, p) /\ Sound(p, now) /\ p \in Download(now)
                   /\ p.pc = "replace" /\ Kept(p, req[c])
<1>1. now \in Nat /\ Sound(req[c], now) /\ req[c].pc = "write"
  BY DEF Inv, WriteTmp
<1>2. req[c] \in Download(now) /\ Phase(req[c], now)
  BY <1>1, WhichIs
<1>3. req[c].base \in Bars(now) /\ req[c].got \in Bars(now)
  BY <1>2, DownloadIs
<1>4. Merge(req[c].base, req[c].got) \in Bars(now)
  BY <1>1, <1>3, MergeIs
<1>5. PICK p : p = [req[c] EXCEPT !.pc = "replace"]
  OBVIOUS
<1>6. p \in Download(now) /\ p.pc = "replace" /\ Kept(p, req[c])
  BY <1>2, <1>5, MovedOn
<1>7. Sound(p, now)
  BY <1>6 DEF Sound, Phase
<1>8. Becomes(c, p)
  BY <1>5 DEF WriteTmp, Becomes
<1> QED
  BY <1>1, <1>2, <1>4, <1>6, <1>7, <1>8 DEF WriteTmp

\* Replace, in one go; that bars are lost by it is marked.
LEMMA ReplaceStep ==
  ASSUME Inv, NEW c \in Clients, Replace(c)
  PROVE  /\ req[c].pc = "replace" /\ req[c] \in Download(now) /\ UNCHANGED <<now, made>>
         /\ tmp' = Nothing /\ rough \subseteq rough'
         /\ \/ file' = file /\ Becomes(c, Idle) /\ Sound(Idle, now)
            \/ /\ file' = tmp /\ (DOMAIN file \subseteq DOMAIN tmp \/ "dropped" \in rough')
               /\ \E p : /\ Becomes(c, p) /\ Sound(p, now) /\ p \in Download(now)
                         /\ p.pc = "answered" /\ Kept(p, req[c])
<1>1. now \in Nat /\ Sound(req[c], now) /\ req[c].pc = "replace"
  BY DEF Inv, Replace
<1>2. req[c] \in Download(now)
  BY <1>1, WhichIs
<1>3. tmp' = Nothing /\ UNCHANGED <<now, made>>
  BY DEF Replace
<1>4. CASE tmp = Nothing
  <2>1. req' = [req EXCEPT ![c] = Idle] /\ UNCHANGED <<file, rough>>
    BY <1>4 DEF Replace
  <2>2. Sound(Idle, now)
    BY <1>1, IdleIsSound
  <2> QED
    BY <1>1, <1>2, <1>3, <2>1, <2>2 DEF Becomes
<1>5. CASE tmp # Nothing
  <2>1. /\ file' = tmp /\ req' = [req EXCEPT ![c].pc = "answered"]
        /\ rough' = rough \cup (IF DOMAIN file \subseteq DOMAIN tmp THEN {} ELSE {"dropped"})
    BY <1>5 DEF Replace
  <2>2. PICK p : p = [req[c] EXCEPT !.pc = "answered"]
    OBVIOUS
  <2>3. p \in Download(now) /\ p.pc = "answered" /\ Kept(p, req[c])
    BY <1>2, <2>2, MovedOn
  <2>4. Sound(p, now)
    BY <2>3 DEF Sound, Phase
  <2>5. Becomes(c, p)
    BY <2>1, <2>2 DEF Becomes
  <2>6. rough \subseteq rough' /\ (DOMAIN file \subseteq DOMAIN tmp \/ "dropped" \in rough')
    BY <2>1
  <2> QED
    BY <1>1, <1>2, <1>3, <2>1, <2>3, <2>4, <2>5, <2>6
<1> QED
  BY <1>4, <1>5

\* Load, in one go.
LEMMA LoadStep ==
  ASSUME Inv, NEW c \in Clients, Load(c)
  PROVE  /\ req[c].pc = "answered" /\ req[c] \in Download(now)
         /\ UNCHANGED <<now, file, tmp, made, rough>>
         /\ \E p : /\ Becomes(c, p) /\ Sound(p, now) /\ p \in Download(now)
                   /\ p.pc = "idle" /\ p.start = req[c].start /\ p.end = req[c].end
                   /\ p.loaded = Within(file, p.start, p.end)
<1>1. now \in Nat /\ Sound(req[c], now) /\ req[c].pc = "answered" /\ file \in Bars(now)
  BY DEF Inv, Load
<1>2. req[c] \in Download(now)
  BY <1>1, WhichIs
<1>3. req[c].start \in Nat /\ req[c].end \in Nat /\ Nothing \in Bars(now)
  BY <1>1, <1>2, DownloadIs, NoBars
<1>4. PICK b : b = Within(file, req[c].start, req[c].end)
  OBVIOUS
<1>5. b \in Bars(now)
  BY <1>1, <1>4, WithinIs
<1>6. PICK p : p = [Idle EXCEPT !.start = req[c].start, !.end = req[c].end, !.loaded = b]
  OBVIOUS
<1>7. /\ p \in Download(now) /\ p.pc = "idle" /\ p.start = req[c].start /\ p.end = req[c].end
      /\ p.loaded = b
  BY <1>3, <1>5, <1>6 DEF Idle, Download
<1>8. Sound(p, now)
  BY <1>7 DEF Sound, Phase
<1>9. Becomes(c, p)
  BY <1>4, <1>6 DEF Load, Becomes
<1> QED
  BY <1>1, <1>2, <1>4, <1>7, <1>8, <1>9 DEF Load

\* Ask, in one go.
LEMMA AskStep ==
  ASSUME Inv, NEW c \in Clients, Ask(c)
  PROVE  /\ ~Busy(c) /\ UNCHANGED <<now, file, tmp, rough>>
         /\ \E p : Becomes(c, p) /\ Sound(p, now) /\ p \in Cycle(now)
<1>1. now \in Nat /\ Listed <= now /\ Listed \in Nat /\ Nothing \in Bars(now)
  BY NoBars, MarketAssumption DEF Inv
<1>2. PICK p : p = [pc |-> "asked", end |-> now, bars |-> Nothing, checked |-> 0]
  OBVIOUS
<1>3. p \in Cycle(now) /\ p.pc = "asked"
  BY <1>1, <1>2 DEF Cycle
<1>4. Sound(p, now)
  BY <1>3 DEF Sound
<1>5. Becomes(c, p)
  BY <1>2 DEF Ask, Becomes
<1> QED
  BY <1>3, <1>4, <1>5 DEF Ask

\* Reply, in one go: what the exchange has now.
LEMMA ReplyStep ==
  ASSUME Inv, NEW c \in Clients, Reply(c)
  PROVE  /\ req[c].pc = "asked" /\ UNCHANGED <<now, file, tmp, made, rough>>
         /\ \E p : Becomes(c, p) /\ Sound(p, now) /\ p \in Cycle(now)
<1>1. PICK n : n = now
  OBVIOUS
<1>2. n \in Nat /\ Listed <= n /\ Listed \in Nat /\ Sound(req[c], n) /\ req[c].pc = "asked"
  BY <1>1, MarketAssumption DEF Inv, Reply
<1>3. req[c] \in Cycle(n)
  BY <1>2, WhichIs
<1>4. PICK b : b = RowsLatest(Limit)
  OBVIOUS
<1>5. /\ b \in Bars(n) /\ DOMAIN b = Larger(Listed, n - Limit)..n
      /\ \A t \in DOMAIN b : b[t] = (t < n)
  BY <1>1, <1>2, <1>4, LatestIs
<1>6. PICK p : p = [req[c] EXCEPT !.pc = "replied", !.bars = b]
  OBVIOUS
<1>7. p \in Cycle(n) /\ p.pc = "replied" /\ p.bars = b /\ p.end = req[c].end
  BY <1>3, <1>5, <1>6 DEF Cycle
<1>8. n \in p.end..n
  BY <1>2, <1>3, <1>7 DEF Cycle
<1>9. Answer(p, n)
  BY <1>5, <1>7, <1>8 DEF Answer
<1>10. Sound(p, n)
  BY <1>7, <1>9 DEF Sound
<1>11. Becomes(c, p)
  BY <1>4, <1>6 DEF Reply, Becomes
<1> QED
  BY <1>1, <1>2, <1>7, <1>10, <1>11 DEF Reply

\* The bars a cycle decides on, of those it was answered at n.
Decided(rows, end, n) ==
  LET done  == IF Newest(rows) + 1 > n THEN Within(rows, 1, Newest(rows) - 1) ELSE rows
      known == Within(done, 1, end)
  IN  IF known = Nothing THEN known
      ELSE Within(known, Newest(known) - Limit + 1, Newest(known))

\* They are some of them.
LEMMA DecidedAreBars ==
  ASSUME NEW n \in Nat, NEW rows \in Bars(n), NEW end
  PROVE  Decided(rows, end, n) \in Bars(n)
<1>1. PICK done : done = IF Newest(rows) + 1 > n THEN Within(rows, 1, Newest(rows) - 1) ELSE rows
  OBVIOUS
<1>2. done \in Bars(n)
  <2>1. Within(rows, 1, Newest(rows) - 1) \in Bars(n)
    BY WithinIs
  <2> QED
    BY <1>1, <2>1
<1>3. PICK known : known = Within(done, 1, end)
  OBVIOUS
<1>4. known \in Bars(n)
  BY <1>2, <1>3, WithinIs
<1>5. Within(known, Newest(known) - Limit + 1, Newest(known)) \in Bars(n)
  BY <1>4, WithinIs
<1> QED
  BY <1>1, <1>3, <1>4, <1>5 DEF Decided

\* Answered while the bar it asked at is forming, they are the newest closed ones.
LEMMA DecidedAreClosed ==
  ASSUME NEW n \in Nat, Listed <= n, NEW rows \in Bars(n),
         DOMAIN rows = Larger(Listed, n - Limit)..n, \A t \in DOMAIN rows : rows[t] = (t < n),
         NEW bars, bars = Decided(rows, n, n)
  PROVE  /\ DOMAIN bars = Larger(Listed, n - Limit)..(n - 1)
         /\ \A t \in DOMAIN bars : bars[t]
<1>1. PICK x : x = Larger(Listed, n - Limit)
  OBVIOUS
<1>2. x \in Nat /\ 1 <= x /\ x <= n /\ n - Limit <= x /\ (x = Listed \/ x = n - Limit)
      /\ Limit \in Nat /\ Listed \in Nat
  BY <1>1, MarketAssumption DEF Larger
<1>3. Newest(rows) = n
  BY <1>1, <1>2, EndsOfRange
<1>4. PICK done : done = Within(rows, 1, n - 1)
  OBVIOUS
<1>5. done \in Bars(n) /\ IsPart(done, rows, 1, n - 1)
  BY <1>4, WithinIs
<1>6. DOMAIN done = x..(n - 1)
  BY <1>1, <1>2, <1>5 DEF IsPart
<1>7. \A t \in DOMAIN done : done[t]
  <2> SUFFICES ASSUME NEW t \in DOMAIN done PROVE done[t]
    OBVIOUS
  <2>1. done[t] = rows[t] /\ t \in DOMAIN rows
    BY <1>5 DEF IsPart
  <2>2. t < n
    BY <1>2, <1>6
  <2> QED
    BY <2>1, <2>2
<1>8. PICK known : known = Within(done, 1, n)
  OBVIOUS
<1>9. known \in Bars(n) /\ IsPart(known, done, 1, n)
  BY <1>5, <1>8, WithinIs
<1>10. DOMAIN known = x..(n - 1)
  BY <1>2, <1>6, <1>9 DEF IsPart
<1>11. \A t \in DOMAIN known : known[t]
  BY <1>6, <1>7, <1>9, <1>10 DEF IsPart
<1>12. bars = IF known = Nothing THEN known
              ELSE Within(known, Newest(known) - Limit + 1, Newest(known))
  BY <1>2, <1>3, <1>4, <1>8 DEF Decided
<1>13. CASE known = Nothing
  BY <1>1, <1>10, <1>11, <1>12, <1>13
<1>14. CASE known # Nothing
  <2>1. x <= n - 1 /\ x \in Int /\ n - 1 \in Int
    <3>1. DOMAIN known # {}
      BY <1>9, <1>14, NoBars
    <3> QED
      BY <1>2, <1>10, <3>1
  <2>2. Newest(known) = n - 1
    BY <1>9, <1>10, <2>1, EndsOfRange
  <2>3. PICK from : from = (n - 1) - Limit + 1
    OBVIOUS
  <2>4. bars = Within(known, from, n - 1)
    BY <1>12, <1>14, <2>2, <2>3
  <2>5. IsPart(bars, known, from, n - 1)
    BY <1>9, <2>4, WithinIs
  <2>6. from <= x /\ from \in Int
    BY <1>2, <2>3
  <2>7. DOMAIN bars = x..(n - 1)
    BY <1>2, <1>10, <2>5, <2>6 DEF IsPart
  <2>8. \A t \in DOMAIN bars : bars[t]
    BY <1>10, <1>11, <2>5, <2>7 DEF IsPart
  <2> QED
    BY <1>1, <2>7, <2>8
<1> QED
  BY <1>13, <1>14

\* Check, in one go.
LEMMA CheckStep ==
  ASSUME Inv, NEW c \in Clients, Check(c)
  PROVE  /\ req[c].pc = "replied" /\ UNCHANGED <<now, file, tmp, made, rough>>
         /\ \E p : Becomes(c, p) /\ Sound(p, now) /\ p \in Cycle(now)
<1>1. PICK n : n = now
  OBVIOUS
<1>2. PICK q : q = req[c]
  OBVIOUS
<1>3. n \in Nat /\ Listed <= n /\ Listed \in Nat /\ Sound(q, n) /\ q.pc = "replied"
  BY <1>1, <1>2, MarketAssumption DEF Inv, Check
<1>4. q \in Cycle(n) /\ Answer(q, n)
  BY <1>3, WhichIs
<1>5. q.bars \in Bars(n) /\ q.end \in Listed..n
  BY <1>4 DEF Cycle
<1>6. PICK b : b = Decided(q.bars, q.end, n)
  OBVIOUS
<1>7. b \in Bars(n)
  BY <1>3, <1>5, <1>6, DecidedAreBars
<1>8. PICK p : p = [q EXCEPT !.pc = "done", !.checked = n, !.bars = b]
  OBVIOUS
<1>9. p \in Cycle(n) /\ p.pc = "done" /\ p.bars = b /\ p.end = q.end /\ p.checked = n
  <2>1. n \in 0..n
    BY <1>3
  <2> QED
    BY <1>4, <1>7, <1>8, <2>1 DEF Cycle
<1>10. ASSUME p.checked = p.end PROVE NewestClosed(p)
  <2>1. q.end = n
    BY <1>9, <1>10
  <2>2. /\ DOMAIN q.bars = Larger(Listed, n - Limit)..n
        /\ \A t \in DOMAIN q.bars : q.bars[t] = (t < n)
    <3>1. PICK m \in q.end..n :
            /\ DOMAIN q.bars = Larger(Listed, m - Limit)..m
            /\ \A t \in DOMAIN q.bars : q.bars[t] = (t < m)
      BY <1>4 DEF Answer
    <3>2. m = n
      BY <1>3, <2>1, <3>1
    <3> QED
      BY <3>1, <3>2
  <2>3. b = Decided(q.bars, n, n)
    BY <1>6, <2>1
  <2>4. DOMAIN b = Larger(Listed, n - Limit)..(n - 1) /\ \A t \in DOMAIN b : b[t]
    BY <1>3, <1>5, <2>2, <2>3, DecidedAreClosed
  <2> QED
    BY <1>9, <2>1, <2>4 DEF NewestClosed
<1>11. Sound(p, n)
  BY <1>9, <1>10 DEF Sound
<1>12. Becomes(c, p)
  BY <1>1, <1>2, <1>6, <1>8 DEF Check, Decided, Becomes
<1> QED
  BY <1>1, <1>2, <1>3, <1>9, <1>11, <1>12 DEF Check

-----------------------------------------------------------------------------
(* The invariant of all requests. *)

\* The other requests are as they were.
LEMMA Others ==
  ASSUME NEW c \in Clients, NEW p, req = [d \in Clients |-> req[d]], Becomes(c, p)
  PROVE  /\ req' = [d \in Clients |-> req'[d]] /\ req'[c] = p
         /\ \A d \in Clients : d # c => req'[d] = req[d]
BY DEF Becomes

\* A step of one request that stays sound keeps the invariant.
LEMMA OneStep ==
  ASSUME Inv, NEW c \in Clients, NEW p, Becomes(c, p), Sound(p, now),
         now' = now, file' \in Bars(now), tmp' \in Bars(now)
  PROVE  Inv'
<1>1. /\ req' = [d \in Clients |-> req'[d]] /\ req'[c] = p
      /\ \A d \in Clients : d # c => req'[d] = req[d]
  BY Others DEF Inv
<1>2. \A d \in Clients : Sound(req'[d], now)
  BY <1>1 DEF Inv
<1>3. \A d \in Clients : Sound(req'[d], now')
  BY <1>2
<1>4. now' \in Nat /\ Listed <= now' /\ file' \in Bars(now') /\ tmp' \in Bars(now')
  BY DEF Inv
<1> QED
  BY <1>1, <1>3, <1>4 DEF Inv

\* At first nothing has happened.
LEMMA InvInit == Init => Inv
<1> SUFFICES ASSUME Init PROVE Inv
  OBVIOUS
<1>1. now \in Nat /\ Listed <= now
  BY MarketAssumption DEF Init
<1>2. file \in Bars(now) /\ tmp \in Bars(now)
  BY <1>1, NoBars DEF Init
<1>3. req = [c \in Clients |-> req[c]] /\ \A c \in Clients : req[c] = Idle
  BY DEF Init
<1>4. \A c \in Clients : Sound(req[c], now)
  BY <1>1, <1>3, IdleIsSound
<1> QED
  BY <1>1, <1>2, <1>3, <1>4 DEF Inv

\* Every step keeps it.
LEMMA InvNext == Inv /\ [Next]_vars => Inv'
<1> SUFFICES ASSUME Inv, [Next]_vars PROVE Inv'
  OBVIOUS
<1>0. now \in Nat /\ file \in Bars(now) /\ tmp \in Bars(now) /\ Nothing \in Bars(now)
  BY NoBars DEF Inv
<1>1. ASSUME NEW c \in Clients, Request(c) PROVE Inv'
  <2>1. PICK p : Becomes(c, p) /\ Sound(p, now)
    BY <1>1, RequestStep
  <2>2. UNCHANGED <<now, file, tmp>>
    BY <1>1, RequestStep
  <2> QED
    BY <1>0, <2>1, <2>2, OneStep
<1>2. ASSUME NEW c \in Clients, ReadExisting(c) PROVE Inv'
  <2>1. PICK p : Becomes(c, p) /\ Sound(p, now)
    BY <1>2, ReadStep
  <2>2. UNCHANGED <<now, file, tmp>>
    BY <1>2, ReadStep
  <2> QED
    BY <1>0, <2>1, <2>2, OneStep
<1>3. ASSUME NEW c \in Clients, FetchPage(c) PROVE Inv'
  <2>1. PICK p : Becomes(c, p) /\ Sound(p, now)
    BY <1>3, FetchPageStep
  <2>2. UNCHANGED <<now, file, tmp>>
    BY <1>3, FetchPageStep
  <2> QED
    BY <1>0, <2>1, <2>2, OneStep
<1>4. ASSUME NEW c \in Clients, FetchFails(c) PROVE Inv'
  <2>1. Becomes(c, Idle) /\ Sound(Idle, now) /\ UNCHANGED <<now, file, tmp>>
    BY <1>4, FetchFailsStep
  <2> QED
    BY <1>0, <2>1, OneStep
<1>5. ASSUME NEW c \in Clients, WriteTmp(c) PROVE Inv'
  <2>1. PICK p : Becomes(c, p) /\ Sound(p, now)
    BY <1>5, WriteStep
  <2>2. UNCHANGED <<now, file>> /\ tmp' \in Bars(now)
    BY <1>5, WriteStep
  <2> QED
    BY <1>0, <2>1, <2>2, OneStep
<1>6. ASSUME NEW c \in Clients, Replace(c) PROVE Inv'
  <2>1. now' = now /\ tmp' \in Bars(now) /\ file' \in Bars(now)
    BY <1>0, <1>6, ReplaceStep
  <2>2. \E p : Becomes(c, p) /\ Sound(p, now)
    BY <1>6, ReplaceStep
  <2> QED
    BY <2>1, <2>2, OneStep
<1>7. ASSUME NEW c \in Clients, Load(c) PROVE Inv'
  <2>1. PICK p : Becomes(c, p) /\ Sound(p, now)
    BY <1>7, LoadStep
  <2>2. UNCHANGED <<now, file, tmp>>
    BY <1>7, LoadStep
  <2> QED
    BY <1>0, <2>1, <2>2, OneStep
<1>8. ASSUME NEW c \in Clients, Ask(c) PROVE Inv'
  <2>1. PICK p : Becomes(c, p) /\ Sound(p, now)
    BY <1>8, AskStep
  <2>2. UNCHANGED <<now, file, tmp>>
    BY <1>8, AskStep
  <2> QED
    BY <1>0, <2>1, <2>2, OneStep
<1>9. ASSUME NEW c \in Clients, Reply(c) PROVE Inv'
  <2>1. PICK p : Becomes(c, p) /\ Sound(p, now)
    BY <1>9, ReplyStep
  <2>2. UNCHANGED <<now, file, tmp>>
    BY <1>9, ReplyStep
  <2> QED
    BY <1>0, <2>1, <2>2, OneStep
<1>10. ASSUME NEW c \in Clients, Check(c) PROVE Inv'
  <2>1. PICK p : Becomes(c, p) /\ Sound(p, now)
    BY <1>10, CheckStep
  <2>2. UNCHANGED <<now, file, tmp>>
    BY <1>10, CheckStep
  <2> QED
    BY <1>0, <2>1, <2>2, OneStep
<1>11. CASE Tick
  <2>1. now' = now + 1 /\ UNCHANGED <<file, tmp, req>>
    BY <1>11 DEF Tick
  <2>2. now' \in Nat /\ now <= now' /\ Listed <= now'
    BY <1>0, <2>1, MarketAssumption DEF Inv
  <2>3. file' \in Bars(now') /\ tmp' \in Bars(now')
    BY <1>0, <2>1, <2>2, BarsGrow
  <2>4. \A c \in Clients : Sound(req[c], now')
    BY <1>0, <2>2, SoundLater DEF Inv
  <2> QED
    BY <2>1, <2>2, <2>3, <2>4 DEF Inv
<1>12. CASE UNCHANGED vars
  BY <1>12 DEF vars, Inv
<1> QED
  BY <1>1, <1>2, <1>3, <1>4, <1>5, <1>6, <1>7, <1>8, <1>9, <1>10, <1>11, <1>12 DEF Next

\* What holds of the requests holds always.
LEMMA AlwaysInv == Spec => []Inv
<1> QED
  BY InvInit, InvNext, PTL DEF Spec

\* LiveSeesTheNewestClosed: a live cycle answered before the next bar opens
\* decides on the newest closed bars (live_provider.py get_latest and
\* _drop_forming_candle).
THEOREM LiveIsClosed == Spec => []LiveSeesTheNewestClosed
<1>1. Inv => LiveSeesTheNewestClosed
  <2> SUFFICES ASSUME Inv, NEW c \in Clients, req[c].pc = "done", req[c].checked = req[c].end
               PROVE  NewestClosed(req[c])
    BY DEF LiveSeesTheNewestClosed, NewestClosed
  <2>1. now \in Nat /\ Sound(req[c], now)
    BY DEF Inv
  <2> QED
    BY <2>1, WhichIs
<1> QED
  BY <1>1, AlwaysInv, PTL

-----------------------------------------------------------------------------
(* Only the newest bar is unfinished. *)

\* Nothing has been forced, and no writer has replaced bars it had not seen.
Calm == rough \cap {"force", "dropped"} = {}

\* What a download knows of the file f, and of what it read of it.
CalmReq(q, f) ==
  /\ q.pc \in {"read", "fetch", "write"} => ~q.force
  /\ q.pc = "read" => DOMAIN q.known \subseteq DOMAIN f
  /\ q.pc \in {"fetch", "write"} => DOMAIN q.known \subseteq DOMAIN q.base /\ Good(q.base)

CalmInv ==
  Calm => Good(file) /\ Good(tmp) /\ \A c \in Clients : CalmReq(req[c], file)

\* What is written over good bars is good.
LEMMA GoodMerge ==
  ASSUME NEW n \in Nat, NEW q \in Download(n), Writing(q), ~q.force,
         DOMAIN q.known \subseteq DOMAIN q.base, Good(q.base)
  PROVE  Good(Merge(q.base, q.got))
<1>1. /\ q.base \in Bars(n) /\ q.got \in Bars(n) /\ q.known \in Bars(n) /\ q.end \in Nat
      /\ q.start \in Nat /\ DOMAIN Nothing = {} /\ Listed \in Nat
  BY DownloadIs, NoBars, MarketAssumption
<1>2. PICK m : m = Merge(q.base, q.got)
  OBVIOUS
<1>3. IsMerged(m, q.base, q.got)
  BY <1>1, <1>2, MergeIs
<1>4. /\ DOMAIN m = DOMAIN q.base \cup DOMAIN q.got
      /\ \A t \in DOMAIN q.got : m[t] = q.got[t]
      /\ \A t \in DOMAIN q.base \ DOMAIN q.got : m[t] = q.base[t]
  BY <1>3 DEF IsMerged
<1>5. DOMAIN q.base \subseteq Nat /\ DOMAIN q.got \subseteq Nat
  BY <1>1, BarsAre
<1>6. ASSUME NEW t \in DOMAIN m, ~m[t], NEW u \in DOMAIN m PROVE u <= t
  <2>1. CASE t \in DOMAIN q.got
    <3>1. ~q.got[t]
      BY <1>4, <1>6, <2>1
    <3> QED
      BY <1>4, <1>6, <2>1, <3>1 DEF Writing, Fresh
  <2>2. CASE t \notin DOMAIN q.got
    <3>1. t \in DOMAIN q.base /\ ~q.base[t]
      BY <1>4, <1>6, <2>2
    <3>2. \A v \in DOMAIN q.base : v <= t
      BY <3>1 DEF Good
    <3>3. q.known # Nothing
      BY <1>1, <3>1 DEF Writing
    <3>4. First(q.known) \in DOMAIN q.known /\ Newest(q.known) \in DOMAIN q.known
          /\ First(q.known) \in Nat /\ Newest(q.known) \in Nat
      BY <1>1, <3>3, Ends
    <3>5. First(q.known) <= t /\ Newest(q.known) <= t /\ t \in Nat
      BY <1>5, <3>1, <3>2, <3>4
    <3>6. DOMAIN q.got = Older(q) \cup Newer(q)
      BY <3>3 DEF Writing, Whole
    <3>7. CASE u \in DOMAIN q.base
      BY <3>2, <3>7
    <3>8. CASE u \in Older(q)
      <4>1. u <= First(q.known) /\ u \in Int
        BY <1>1, <3>4, <3>8 DEF Older, Larger
      <4> QED
        BY <3>4, <3>5, <4>1
    <3>9. CASE u \in Newer(q)
      <4>1. q.end > Newest(q.known) /\ u \in Newest(q.known)..q.end
        BY <3>9 DEF Newer
      <4>2. t \notin Newest(q.known)..q.end
        BY <2>2, <3>6, <4>1 DEF Newer
      <4> QED
        BY <1>1, <3>4, <3>5, <4>1, <4>2
    <3> QED
      BY <1>4, <1>6, <3>6, <3>7, <3>8, <3>9
  <2> QED
    BY <2>1, <2>2
<1>7. Good(m)
  BY <1>6 DEF Good
<1> QED
  BY <1>2, <1>7

\* Steps that leave the files alone keep it if the one request does.
LEMMA CalmStep ==
  ASSUME Inv, CalmInv, rough \subseteq rough', NEW c \in Clients, NEW p, Becomes(c, p),
         Calm' => CalmReq(p, file'),
         Calm' => Good(file') /\ Good(tmp') /\ DOMAIN file \subseteq DOMAIN file'
  PROVE  CalmInv'
<1> SUFFICES ASSUME Calm' PROVE Good(file') /\ Good(tmp') /\ \A d \in Clients : CalmReq(req'[d], file')
  BY DEF CalmInv
<1>1. Calm
  BY DEF Calm
<1>2. /\ req'[c] = p /\ \A d \in Clients : d # c => req'[d] = req[d]
  BY Others DEF Inv
<1>3. ASSUME NEW d \in Clients PROVE CalmReq(req'[d], file')
  <2>1. CASE d = c
    BY <1>2, <2>1
  <2>2. CASE d # c
    <3>1. req'[d] = req[d] /\ CalmReq(req[d], file) /\ DOMAIN file \subseteq DOMAIN file'
      BY <1>1, <1>2, <2>2 DEF CalmInv
    <3>2. CalmReq(req[d], file')
      BY <3>1 DEF CalmReq
    <3> QED
      BY <3>1, <3>2
  <2> QED
    BY <2>1, <2>2
<1> QED
  BY <1>3

\* Requests that are not fetching know nothing.
LEMMA OtherwiseCalm ==
  ASSUME NEW p, p.pc \notin {"read", "fetch", "write"}, NEW f
  PROVE  CalmReq(p, f)
BY DEF CalmReq

\* At first there is no file.
LEMMA CalmInit == Init => CalmInv
<1> SUFFICES ASSUME Init PROVE CalmInv
  OBVIOUS
<1>1. DOMAIN Nothing = {} /\ Idle.pc = "idle"
  BY DEF Nothing, Idle
<1>2. Good(Nothing)
  BY <1>1 DEF Good
<1>3. \A c \in Clients : req[c].pc = "idle"
  BY <1>1 DEF Init
<1>4. \A c \in Clients : CalmReq(req[c], file)
  BY <1>3, OtherwiseCalm
<1> QED
  BY <1>2, <1>4 DEF CalmInv, Init

\* Every step keeps it.
LEMMA CalmNext == Inv /\ CalmInv /\ [Next]_vars => CalmInv'
<1> SUFFICES ASSUME Inv, CalmInv, [Next]_vars PROVE CalmInv'
  OBVIOUS
<1>0. now \in Nat /\ file \in Bars(now) /\ DOMAIN Nothing = {} /\ Good(Nothing) /\ Idle.pc = "idle"
  <2>1. DOMAIN Nothing = {} /\ Idle.pc = "idle"
    BY DEF Nothing, Idle
  <2> QED
    BY <2>1 DEF Inv, Good
<1>q. ASSUME Calm
      PROVE  Good(file) /\ Good(tmp) /\ \A c \in Clients : CalmReq(req[c], file)
  BY <1>q DEF CalmInv
<1>r. ASSUME rough \subseteq rough', Calm' PROVE Calm
  BY <1>r DEF Calm
<1>s. ASSUME rough \subseteq rough', UNCHANGED <<file, tmp>>, Calm'
      PROVE  Good(file') /\ Good(tmp') /\ DOMAIN file \subseteq DOMAIN file'
  BY <1>q, <1>r, <1>s
<1>1. ASSUME NEW c \in Clients, Request(c) PROVE CalmInv'
  <2>1. UNCHANGED <<now, file, tmp>> /\ rough \subseteq rough'
    BY <1>1, RequestStep
  <2>2. PICK p : Becomes(c, p) /\ RequestedTo(p, file) /\ (p.force => "force" \in rough')
    BY <1>1, RequestStep
  <2>3. ASSUME Calm' PROVE CalmReq(p, file')
    <3>1. ~p.force
      BY <2>2, <2>3 DEF Calm
    <3>2. p.pc = "fetch" => p.known = Nothing /\ p.base = Nothing
      BY <2>2, <3>1 DEF RequestedTo
    <3>3. p.known = file /\ p.pc \in {"answered", "read", "fetch"}
      BY <2>2 DEF RequestedTo
    <3> QED
      BY <1>0, <2>1, <3>1, <3>2, <3>3 DEF CalmReq
  <2> QED
    BY <1>s, <2>1, <2>2, <2>3, CalmStep
<1>2. ASSUME NEW c \in Clients, ReadExisting(c) PROVE CalmInv'
  <2>1. UNCHANGED <<now, file, tmp, rough>> /\ req[c].pc = "read"
    BY <1>2, ReadStep
  <2>2. PICK p : Becomes(c, p) /\ ReadTo(p, req[c], file, now)
    BY <1>2, ReadStep
  <2>3. ASSUME Calm' PROVE CalmReq(p, file')
    <3>1. CalmReq(req[c], file) /\ Good(file)
      BY <1>q, <1>r, <2>1, <2>3
    <3>2. ~p.force /\ DOMAIN p.known \subseteq DOMAIN file /\ p.base = file /\ p.pc \in {"write", "fetch"}
      BY <2>1, <2>2, <3>1 DEF ReadTo, CalmReq
    <3> QED
      BY <3>1, <3>2 DEF CalmReq
  <2> QED
    BY <1>s, <2>1, <2>2, <2>3, CalmStep
<1>3. ASSUME NEW c \in Clients, FetchPage(c) PROVE CalmInv'
  <2>1. UNCHANGED <<now, file, tmp, rough>> /\ req[c].pc = "fetch"
    BY <1>3, FetchPageStep
  <2>2. PICK p : Becomes(c, p) /\ FetchedTo(p, req[c], now)
    BY <1>3, FetchPageStep
  <2>3. ASSUME Calm' PROVE CalmReq(p, file')
    <3>1. CASE p = Idle
      BY <1>0, <3>1, OtherwiseCalm
    <3>2. CASE p # Idle
      <4>1. CalmReq(req[c], file)
        BY <1>q, <1>r, <2>1, <2>3
      <4>2. /\ p.force = req[c].force /\ p.known = req[c].known /\ p.base = req[c].base
            /\ p.pc = "read" => p.force
        BY <2>2, <3>2 DEF FetchedTo, Kept
      <4> QED
        BY <2>1, <4>1, <4>2 DEF CalmReq
    <3> QED
      BY <3>1, <3>2
  <2> QED
    BY <1>s, <2>1, <2>2, <2>3, CalmStep
<1>4. ASSUME NEW c \in Clients, FetchFails(c) PROVE CalmInv'
  <2>1. Becomes(c, Idle) /\ UNCHANGED <<now, file, tmp, rough>>
    BY <1>4, FetchFailsStep
  <2>2. CalmReq(Idle, file')
    BY <1>0, OtherwiseCalm
  <2> QED
    BY <1>s, <2>1, <2>2, CalmStep
<1>5. ASSUME NEW c \in Clients, WriteTmp(c) PROVE CalmInv'
  <2>1. /\ UNCHANGED <<now, file, rough>> /\ req[c].pc = "write" /\ req[c] \in Download(now)
        /\ Phase(req[c], now) /\ tmp' = Merge(req[c].base, req[c].got)
    BY <1>5, WriteStep
  <2>2. PICK p : Becomes(c, p) /\ p.pc = "replace"
    BY <1>5, WriteStep
  <2>3. CalmReq(p, file')
    BY <2>2, OtherwiseCalm
  <2>4. ASSUME Calm' PROVE Good(tmp') /\ Good(file')
    <3>1. CalmReq(req[c], file) /\ Good(file)
      BY <1>q, <1>r, <2>1, <2>4
    <3>2. Writing(req[c]) /\ ~req[c].force /\ Good(req[c].base)
          /\ DOMAIN req[c].known \subseteq DOMAIN req[c].base
      BY <2>1, <3>1 DEF Phase, CalmReq
    <3>3. Good(Merge(req[c].base, req[c].got))
      BY <1>0, <2>1, <3>2, GoodMerge
    <3> QED
      BY <2>1, <3>1, <3>3
  <2> QED
    BY <2>1, <2>2, <2>3, <2>4, CalmStep
<1>6. ASSUME NEW c \in Clients, Replace(c) PROVE CalmInv'
  <2>1. tmp' = Nothing /\ rough \subseteq rough'
    BY <1>6, ReplaceStep
  <2>2. CASE file' = file /\ Becomes(c, Idle)
    <3>1. CalmReq(Idle, file')
      BY <1>0, OtherwiseCalm
    <3>2. Calm' => Good(file') /\ Good(tmp') /\ DOMAIN file \subseteq DOMAIN file'
      BY <1>0, <1>q, <1>r, <2>1, <2>2
    <3> QED
      BY <2>1, <2>2, <3>1, <3>2, CalmStep
  <2>3. CASE /\ file' = tmp /\ (DOMAIN file \subseteq DOMAIN tmp \/ "dropped" \in rough')
             /\ \E p : Becomes(c, p) /\ p.pc = "answered"
    <3>1. PICK p : Becomes(c, p) /\ p.pc = "answered"
      BY <2>3
    <3>2. CalmReq(p, file')
      BY <3>1, OtherwiseCalm
    <3>3. Calm' => DOMAIN file \subseteq DOMAIN tmp
      BY <2>3 DEF Calm
    <3>4. Calm' => Good(file') /\ Good(tmp') /\ DOMAIN file \subseteq DOMAIN file'
      BY <1>0, <1>q, <1>r, <2>1, <2>3, <3>3
    <3> QED
      BY <2>1, <3>1, <3>2, <3>4, CalmStep
  <2> QED
    BY <1>6, <2>2, <2>3, ReplaceStep
<1>7. ASSUME NEW c \in Clients, Load(c) PROVE CalmInv'
  <2>1. UNCHANGED <<now, file, tmp, rough>>
    BY <1>7, LoadStep
  <2>2. PICK p : Becomes(c, p) /\ p.pc = "idle"
    BY <1>7, LoadStep
  <2>3. CalmReq(p, file')
    BY <2>2, OtherwiseCalm
  <2> QED
    BY <1>s, <2>1, <2>2, <2>3, CalmStep
<1>8. ASSUME NEW c \in Clients, Ask(c) \/ Reply(c) \/ Check(c) PROVE CalmInv'
  <2>1. UNCHANGED <<now, file, tmp, rough>>
    BY <1>8, AskStep, ReplyStep, CheckStep
  <2>2. PICK p : Becomes(c, p) /\ p \in Cycle(now)
    BY <1>8, AskStep, ReplyStep, CheckStep
  <2>3. p.pc \notin {"read", "fetch", "write"}
    BY <2>2 DEF Cycle
  <2>4. CalmReq(p, file')
    BY <2>3, OtherwiseCalm
  <2> QED
    BY <1>s, <2>1, <2>2, <2>4, CalmStep
<1>9. CASE UNCHANGED <<file, tmp, req, rough>>
  BY <1>9 DEF CalmInv, Calm
<1>10. Tick => UNCHANGED <<file, tmp, req, rough>>
  BY DEF Tick
<1>11. UNCHANGED vars => UNCHANGED <<file, tmp, req, rough>>
  BY DEF vars
<1> QED
  BY <1>1, <1>2, <1>3, <1>4, <1>5, <1>6, <1>7, <1>8, <1>9, <1>10, <1>11 DEF Next

\* OnlyTheNewestIsUnfinished: what was fetched while it was forming is fetched
\* again before a bar follows it (market_cache.py).
THEOREM UnfinishedIsNewest == Spec => []OnlyTheNewestIsUnfinished
<1>1. Inv /\ CalmInv => OnlyTheNewestIsUnfinished
  <2> SUFFICES ASSUME Inv, CalmInv, Calm, file # Nothing, NEW t \in DOMAIN file, t # Newest(file)
               PROVE  file[t]
    BY DEF OnlyTheNewestIsUnfinished, Calm
  <2>1. now \in Nat /\ file \in Bars(now) /\ Good(file)
    BY DEF Inv, CalmInv
  <2>2. Newest(file) \in DOMAIN file /\ t <= Newest(file) /\ Newest(file) \in Int
    BY <2>1, Ends
  <2>3. t \in Int
    BY <2>1, BarsAre, MarketAssumption
  <2>4. ~(Newest(file) <= t)
    BY <2>2, <2>3
  <2> QED
    BY <2>1, <2>2, <2>4 DEF Good
<1>2. Spec => []CalmInv
  BY AlwaysInv, CalmInit, CalmNext, PTL DEF Spec
<1> QED
  BY <1>1, <1>2, AlwaysInv, PTL

-----------------------------------------------------------------------------
(* A backtest has its bars. *)

\* Requests have not overlapped, and no forced one has left an island.
Smooth == rough \cap {"overlap", "island"} = {}

\* A download that has not been answered yet, or has not loaded its answer.
Works(q) == q.pc \in {"read", "fetch", "write", "replace", "answered"}

\* What a download, alone, knows of the file f and the ".tmp" t.
SmoothReq(q, f, t) ==
  /\ q.pc \in {"read", "fetch", "write"} => q.known = f /\ (q.force => Adjoins(q))
  /\ q.pc = "fetch" /\ ~q.force => q.base = f
  /\ q.pc = "write" => q.base = f
  /\ q.pc = "replace" => Unbroken(DOMAIN t) /\ Asked(q) \subseteq DOMAIN t
  /\ q.pc = "answered" => Asked(q) \subseteq DOMAIN f
  /\ q.pc = "idle" /\ q.end # 0 => DOMAIN q.loaded = Asked(q)

Alone == \A c, d \in Clients : Works(req[c]) /\ Works(req[d]) => c = d

SmoothInv ==
  Smooth => /\ Unbroken(DOMAIN file) /\ Alone
            /\ \A c \in Clients : SmoothReq(req[c], file, tmp)

\* Bars without a gap are all from the first to the newest.
LEMMA AllBetween ==
  ASSUME NEW n \in Nat, NEW b \in Bars(n), b # Nothing, Unbroken(DOMAIN b)
  PROVE  DOMAIN b = First(b)..Newest(b)
<1>1. /\ First(b) \in DOMAIN b /\ Newest(b) \in DOMAIN b
      /\ First(b) \in Listed..n /\ Newest(b) \in Listed..n
      /\ \A t \in DOMAIN b : First(b) <= t /\ t <= Newest(b)
  BY Ends
<1>2. First(b)..Newest(b) \subseteq DOMAIN b
  BY <1>1 DEF Unbroken
<1>3. DOMAIN b \subseteq Int
  BY BarsAre, MarketAssumption
<1>4. DOMAIN b \subseteq First(b)..Newest(b)
  BY <1>1, <1>3
<1> QED
  BY <1>2, <1>4

\* A range is without a gap.
LEMMA RangeUnbroken ==
  ASSUME NEW x \in Int, NEW y \in Int
  PROVE  Unbroken(x..y)
BY DEF Unbroken

\* So are two that meet.
LEMMA RangesMeet ==
  ASSUME NEW x \in Int, NEW y \in Int, NEW a \in Int, NEW z \in Int,
         x <= z + 1, a <= y + 1, a <= z, x <= y
  PROVE  Unbroken((a..z) \cup (x..y))
<1>1. PICK l : l = IF a <= x THEN a ELSE x
  OBVIOUS
<1>2. PICK h : h = IF z >= y THEN z ELSE y
  OBVIOUS
<1>3. l \in Int /\ h \in Int
  BY <1>1, <1>2
<1>4. (a..z) \cup (x..y) = l..h
  BY <1>1, <1>2
<1> QED
  BY <1>3, <1>4, RangeUnbroken

\* What is written over bars without a gap leaves none, and has what was asked for.
LEMMA Covered ==
  ASSUME NEW n \in Nat, NEW q \in Download(n), Writing(q),
         1 <= q.start, q.start <= q.end, q.end <= n,
         q.base = q.known, Unbroken(DOMAIN q.known), q.force => Adjoins(q),
         NEW D, D = DOMAIN q.base \cup DOMAIN q.got
  PROVE  Unbroken(D) /\ Asked(q) \subseteq D
<1>1. /\ q.base \in Bars(n) /\ q.got \in Bars(n) /\ q.known \in Bars(n) /\ q.end \in Nat
      /\ q.start \in Nat /\ DOMAIN Nothing = {} /\ Listed \in Nat
  BY DownloadIs, NoBars, MarketAssumption
<1>2. PICK x : x = Larger(q.start, Listed)
  OBVIOUS
<1>3. x \in Nat /\ x >= Listed /\ x >= q.start /\ (x = q.start \/ x = Listed)
  BY <1>1, <1>2 DEF Larger
<1>4. Asked(q) = x..q.end
  BY <1>2 DEF Asked
<1>5. CASE q.known = Nothing
  <2>1. D = x..q.end
    BY <1>1, <1>4, <1>5 DEF Writing, Whole
  <2>2. x \in Int /\ q.end \in Int
    BY <1>1, <1>3
  <2>3. Unbroken(x..q.end)
    BY <2>2, RangeUnbroken
  <2> QED
    BY <1>4, <2>1, <2>3
<1>6. CASE q.known # Nothing
  <2>1. PICK a : a = First(q.known)
    OBVIOUS
  <2>2. PICK z : z = Newest(q.known)
    OBVIOUS
  <2>3. DOMAIN q.base = a..z
    BY <1>1, <1>6, <2>1, <2>2, AllBetween
  <2>4. a \in Nat /\ z \in Nat /\ Listed <= a /\ a <= z
    BY <1>1, <1>6, <2>1, <2>2, Ends
  <2>5. CASE q.force
    <3>1. DOMAIN q.got = x..q.end /\ D = (a..z) \cup (x..q.end)
      BY <1>4, <2>3, <2>5 DEF Writing, Whole
    <3>2. q.end + 1 >= a /\ q.start <= z + 1
      BY <1>6, <2>1, <2>2, <2>5 DEF Adjoins
    <3>3. x <= z + 1
      BY <1>1, <1>3, <2>4, <3>2
    <3>4. x <= q.end
      <4>1. DOMAIN q.got # {}
        BY <1>1, NoBars DEF Writing
      <4> QED
        BY <1>1, <1>3, <3>1, <4>1
    <3>5. x \in Int /\ q.end \in Int /\ a \in Int /\ z \in Int /\ a <= q.end + 1
      BY <1>1, <1>3, <2>4, <3>2
    <3>6. Unbroken((a..z) \cup (x..q.end))
      BY <2>4, <3>3, <3>4, <3>5, RangesMeet
    <3> QED
      BY <1>4, <3>1, <3>6
  <2>6. CASE ~q.force
    <3>1. D = (a..z) \cup Older(q) \cup Newer(q)
      BY <1>6, <2>3, <2>6 DEF Writing, Whole
    <3>2. PICK l : l = IF q.start < a THEN x ELSE a
      OBVIOUS
    <3>3. PICK h : h = IF q.end > z THEN q.end ELSE z
      OBVIOUS
    <3>4. (a..z) \cup Older(q) = l..z
      BY <1>1, <1>2, <1>3, <2>1, <2>4, <3>2 DEF Older
    <3>5. (l..z) \cup Newer(q) = l..h /\ l \in Int /\ h \in Int
      BY <1>1, <1>3, <2>2, <2>4, <3>2, <3>3 DEF Newer
    <3>6. D = l..h
      BY <3>1, <3>4, <3>5
    <3>7. l <= x /\ q.end <= h
      BY <1>1, <1>3, <2>4, <3>2, <3>3
    <3>8. x..q.end \subseteq l..h
      BY <1>1, <1>3, <3>5, <3>7
    <3> QED
      BY <1>4, <3>5, <3>6, <3>8, RangeUnbroken
  <2> QED
    BY <2>5, <2>6
<1> QED
  BY <1>5, <1>6

\* A request that does not work has loaded what it asked for, if anything.
LEMMA AtRest ==
  ASSUME NEW p, ~Works(p), p.pc = "idle" /\ p.end # 0 => DOMAIN p.loaded = Asked(p), NEW f, NEW t
  PROVE  SmoothReq(p, f, t)
BY DEF SmoothReq, Works

\* What is loaded of bars without a gap that has what was asked for.
LEMMA LoadedIsAsked ==
  ASSUME NEW n \in Nat, NEW f \in Bars(n), NEW q, q.start \in Nat, q.end \in Nat,
         Asked(q) \subseteq DOMAIN f
  PROVE  DOMAIN Within(f, q.start, q.end) = Asked(q)
<1>1. PICK w : w = Within(f, q.start, q.end)
  OBVIOUS
<1>2. IsPart(w, f, q.start, q.end)
  BY <1>1, WithinIs
<1>3. DOMAIN w = {t \in DOMAIN f : q.start <= t /\ t <= q.end}
  BY <1>2 DEF IsPart
<1>4. DOMAIN f \subseteq Listed..n /\ Listed \in Nat
  BY BarsAre, MarketAssumption
<1>5. DOMAIN w \subseteq Asked(q)
  <2> SUFFICES ASSUME NEW t \in DOMAIN w PROVE t \in Asked(q)
    OBVIOUS
  <2>1. t \in Int /\ Listed <= t /\ q.start <= t /\ t <= q.end
    BY <1>3, <1>4
  <2> QED
    BY <2>1 DEF Asked, Larger
<1>6. Asked(q) \subseteq DOMAIN w
  <2> SUFFICES ASSUME NEW t \in Asked(q) PROVE t \in DOMAIN w
    OBVIOUS
  <2>1. t \in DOMAIN f
    OBVIOUS
  <2>2. q.start <= t /\ t <= q.end
    BY <1>4 DEF Asked, Larger
  <2> QED
    BY <1>3, <2>1, <2>2
<1> QED
  BY <1>1, <1>5, <1>6

\* A step of the one that works, or of one that does not start to.
LEMMA SmoothStep ==
  ASSUME Inv, SmoothInv, rough \subseteq rough', NEW c \in Clients, NEW p, Becomes(c, p),
         Smooth' => SmoothReq(p, file', tmp') /\ Unbroken(DOMAIN file'),
         Works(req[c]) \/ UNCHANGED <<file, tmp>>,
         Smooth' => (Works(p) => Works(req[c]) \/ \A d \in Clients : ~Works(req[d]))
  PROVE  SmoothInv'
<1> SUFFICES ASSUME Smooth'
             PROVE  /\ Unbroken(DOMAIN file')
                    /\ \A d, e \in Clients : Works(req'[d]) /\ Works(req'[e]) => d = e
                    /\ \A d \in Clients : SmoothReq(req'[d], file', tmp')
  BY DEF SmoothInv, Alone
<1>1. Smooth
  BY DEF Smooth
<1>2. req'[c] = p /\ \A d \in Clients : d # c => req'[d] = req[d]
  BY Others DEF Inv
<1>3. Alone /\ \A d \in Clients : SmoothReq(req[d], file, tmp)
  BY <1>1 DEF SmoothInv
<1>4. ASSUME NEW d \in Clients, NEW e \in Clients, Works(req'[d]), Works(req'[e])
      PROVE  d = e
  <2>1. CASE d # c /\ e # c
    BY <1>2, <1>3, <1>4, <2>1 DEF Alone
  <2>2. CASE d = c
    BY <1>2, <1>3, <1>4, <2>2 DEF Alone
  <2>3. CASE e = c
    BY <1>2, <1>3, <1>4, <2>3 DEF Alone
  <2> QED
    BY <2>1, <2>2, <2>3
<1>5. ASSUME NEW d \in Clients PROVE SmoothReq(req'[d], file', tmp')
  <2>1. CASE d = c
    BY <1>2, <2>1
  <2>2. CASE d # c
    <3>1. req'[d] = req[d] /\ SmoothReq(req[d], file, tmp)
      BY <1>2, <1>3, <2>2
    <3>2. CASE UNCHANGED <<file, tmp>>
      BY <3>1, <3>2
    <3>3. CASE Works(req[c])
      <4>1. ~Works(req[d])
        BY <1>3, <2>2, <3>3 DEF Alone
      <4>2. req[d].pc = "idle" /\ req[d].end # 0 => DOMAIN req[d].loaded = Asked(req[d])
        BY <3>1 DEF SmoothReq
      <4>3. SmoothReq(req[d], file', tmp')
        BY <4>1, <4>2, AtRest
      <4> QED
        BY <3>1, <4>3
    <3> QED
      BY <3>2, <3>3
  <2> QED
    BY <2>1, <2>2
<1> QED
  BY <1>4, <1>5

\* A file that covers a range has its bars.
LEMMA CoversAll ==
  ASSUME NEW n \in Nat, NEW f \in Bars(n), Unbroken(DOMAIN f), NEW q \in Download(n),
         Covers(f, q.start, q.end)
  PROVE  Asked(q) \subseteq DOMAIN f
<1>1. f # Nothing /\ First(f) <= q.start /\ Newest(f) >= q.end
  BY DEF Covers
<1>2. DOMAIN f = First(f)..Newest(f) /\ First(f) \in Listed..n /\ Newest(f) \in Listed..n
  BY <1>1, AllBetween, Ends
<1>3. q.start \in Nat /\ q.end \in Nat /\ Listed \in Nat
  BY DownloadIs, MarketAssumption
<1>4. First(f) <= Larger(q.start, Listed) /\ Larger(q.start, Listed) \in Int /\ First(f) \in Int
      /\ Newest(f) \in Int
  BY <1>1, <1>2, <1>3 DEF Larger
<1>5. Larger(q.start, Listed)..q.end \subseteq First(f)..Newest(f)
  BY <1>1, <1>3, <1>4
<1> QED
  BY <1>2, <1>5 DEF Asked

\* At first no request works.
LEMMA SmoothInit == Init => SmoothInv
<1> SUFFICES ASSUME Init PROVE SmoothInv
  OBVIOUS
<1>1. DOMAIN Nothing = {} /\ Idle.pc = "idle" /\ Idle.end = 0
  BY DEF Nothing, Idle
<1>2. Unbroken(DOMAIN Nothing)
  BY <1>1 DEF Unbroken
<1>3. \A c \in Clients : ~Works(req[c]) /\ req[c].end = 0
  BY <1>1 DEF Init, Works
<1>4. \A c \in Clients : SmoothReq(req[c], file, tmp)
  BY <1>3, AtRest
<1>5. Alone
  BY <1>3 DEF Alone
<1> QED
  BY <1>2, <1>4, <1>5 DEF SmoothInv, Init

\* Every step keeps it.
LEMMA SmoothNext == Inv /\ SmoothInv /\ [Next]_vars => SmoothInv'
<1> SUFFICES ASSUME Inv, SmoothInv, [Next]_vars PROVE SmoothInv'
  OBVIOUS
<1>0. /\ now \in Nat /\ file \in Bars(now) /\ DOMAIN Nothing = {}
      /\ Idle.pc = "idle" /\ Idle.end = 0
  BY DEF Nothing, Idle, Inv
<1>q. ASSUME Smooth
      PROVE  Unbroken(DOMAIN file) /\ Alone /\ \A c \in Clients : SmoothReq(req[c], file, tmp)
  BY <1>q DEF SmoothInv
<1>r. ASSUME rough \subseteq rough', Smooth' PROVE Smooth
  BY <1>r DEF Smooth
<1>i. ASSUME NEW f, NEW t PROVE SmoothReq(Idle, f, t) /\ ~Works(Idle)
  <2>1. ~Works(Idle)
    BY <1>0 DEF Works
  <2> QED
    BY <1>0, <2>1, AtRest
<1>1. ASSUME NEW c \in Clients, Request(c) PROVE SmoothInv'
  <2>1. /\ UNCHANGED <<now, file, tmp>> /\ rough \subseteq rough'
        /\ (\E d \in Clients : Busy(d)) => "overlap" \in rough'
    BY <1>1, RequestStep
  <2>2. PICK p : /\ Becomes(c, p) /\ RequestedTo(p, file)
                 /\ p.force /\ ~Adjoins(p) => "island" \in rough'
    BY <1>1, RequestStep
  <2>3. ASSUME Smooth' PROVE SmoothReq(p, file', tmp') /\ Unbroken(DOMAIN file')
    <3>1. Unbroken(DOMAIN file)
      BY <1>q, <1>r, <2>1, <2>3
    <3>2. p.force => Adjoins(p)
      BY <2>2, <2>3 DEF Smooth
    <3>3. p \in Download(now) /\ p.known = file /\ p.pc \in {"answered", "read", "fetch"}
      BY <2>2 DEF RequestedTo
    <3>4. p.pc = "answered" => Asked(p) \subseteq DOMAIN file
      BY <1>0, <2>2, <3>1, <3>3, CoversAll DEF RequestedTo
    <3>5. p.pc = "fetch" /\ ~p.force => p.base = file
      BY <2>2 DEF RequestedTo
    <3>6. SmoothReq(p, file, tmp)
      BY <3>2, <3>3, <3>4, <3>5 DEF SmoothReq
    <3> QED
      BY <2>1, <3>1, <3>6
  <2>4. ASSUME Smooth' PROVE \A d \in Clients : ~Works(req[d])
    <3>1. \A d \in Clients : ~Busy(d)
      BY <2>1, <2>4 DEF Smooth
    <3> QED
      BY <3>1 DEF Busy, Works
  <2> QED
    BY <2>1, <2>2, <2>3, <2>4, SmoothStep
<1>2. ASSUME NEW c \in Clients, ReadExisting(c) PROVE SmoothInv'
  <2>1. UNCHANGED <<now, file, tmp, rough>> /\ req[c].pc = "read"
    BY <1>2, ReadStep
  <2>2. PICK p : Becomes(c, p) /\ ReadTo(p, req[c], file, now)
    BY <1>2, ReadStep
  <2>3. ASSUME Smooth' PROVE SmoothReq(p, file', tmp') /\ Unbroken(DOMAIN file')
    <3>1. SmoothReq(req[c], file, tmp) /\ Unbroken(DOMAIN file)
      BY <1>q, <1>r, <2>1, <2>3
    <3>2. /\ p.force = req[c].force /\ p.known = req[c].known /\ p.start = req[c].start
          /\ p.end = req[c].end /\ p.base = file /\ p.pc \in {"write", "fetch"}
      BY <2>2 DEF ReadTo
    <3>3. p.known = file /\ (p.force => Adjoins(p))
      BY <2>1, <3>1, <3>2 DEF SmoothReq, Adjoins
    <3>4. SmoothReq(p, file, tmp)
      BY <3>2, <3>3 DEF SmoothReq
    <3> QED
      BY <2>1, <3>1, <3>4
  <2>4. Works(req[c])
    BY <2>1 DEF Works
  <2> QED
    BY <2>1, <2>2, <2>3, <2>4, SmoothStep
<1>3. ASSUME NEW c \in Clients, FetchPage(c) PROVE SmoothInv'
  <2>1. UNCHANGED <<now, file, tmp, rough>> /\ req[c].pc = "fetch"
    BY <1>3, FetchPageStep
  <2>2. PICK p : Becomes(c, p) /\ Sound(p, now) /\ FetchedTo(p, req[c], now)
    BY <1>3, FetchPageStep
  <2>3. ASSUME Smooth' PROVE SmoothReq(p, file', tmp') /\ Unbroken(DOMAIN file')
    <3>1. SmoothReq(req[c], file, tmp) /\ Unbroken(DOMAIN file)
      BY <1>q, <1>r, <2>1, <2>3
    <3>2. CASE p = Idle
      BY <1>i, <2>1, <3>1, <3>2
    <3>3. CASE p # Idle
      <4>1. /\ p \in Download(now) /\ Kept(p, req[c]) /\ p.pc \in {"fetch", "read", "write"}
            /\ p.pc = "write" => ~p.force \/ p.known = Nothing
        BY <2>2, <3>3 DEF FetchedTo
      <4>2. p.known = file /\ (p.force => Adjoins(p)) /\ (~p.force => p.base = file)
        BY <2>1, <3>1, <4>1 DEF SmoothReq, Adjoins, Kept
      <4>3. p.pc = "write" => p.base = file
        <5>1. p.pc = "write" => Writing(p)
          BY <1>0, <2>2, <4>1, WhichIs DEF Phase
        <5> QED
          BY <4>1, <4>2, <5>1 DEF Writing
      <4>4. SmoothReq(p, file, tmp)
        BY <4>1, <4>2, <4>3 DEF SmoothReq
      <4> QED
        BY <2>1, <3>1, <4>4
    <3> QED
      BY <3>2, <3>3
  <2>4. Works(req[c])
    BY <2>1 DEF Works
  <2> QED
    BY <2>1, <2>2, <2>3, <2>4, SmoothStep
<1>4. ASSUME NEW c \in Clients, FetchFails(c) PROVE SmoothInv'
  <2>1. Becomes(c, Idle) /\ UNCHANGED <<now, file, tmp, rough>> /\ req[c].pc = "fetch"
    BY <1>4, FetchFailsStep
  <2>2. Smooth' => SmoothReq(Idle, file', tmp') /\ Unbroken(DOMAIN file')
    BY <1>i, <1>q, <1>r, <2>1
  <2>3. Works(req[c])
    BY <2>1 DEF Works
  <2> QED
    BY <2>1, <2>2, <2>3, SmoothStep
<1>5. ASSUME NEW c \in Clients, WriteTmp(c) PROVE SmoothInv'
  <2>1. /\ UNCHANGED <<now, file, rough>> /\ req[c].pc = "write" /\ req[c] \in Download(now)
        /\ Phase(req[c], now) /\ tmp' = Merge(req[c].base, req[c].got)
    BY <1>5, WriteStep
  <2>2. PICK p : Becomes(c, p) /\ p.pc = "replace" /\ Kept(p, req[c])
    BY <1>5, WriteStep
  <2>3. ASSUME Smooth' PROVE SmoothReq(p, file', tmp') /\ Unbroken(DOMAIN file')
    <3>1. SmoothReq(req[c], file, tmp) /\ Unbroken(DOMAIN file)
      BY <1>q, <1>r, <2>1, <2>3
    <3>2. PICK q : q = req[c]
      OBVIOUS
    <3>3. /\ q \in Download(now) /\ Writing(q) /\ 1 <= q.start /\ q.start <= q.end /\ q.end <= now
          /\ q.base = q.known /\ Unbroken(DOMAIN q.known) /\ (q.force => Adjoins(q))
      BY <2>1, <3>1, <3>2 DEF Phase, SmoothReq
    <3>4. PICK D : D = DOMAIN q.base \cup DOMAIN q.got
      OBVIOUS
    <3>5. Unbroken(D) /\ Asked(q) \subseteq D
      BY <1>0, <3>3, <3>4, Covered
    <3>6. DOMAIN tmp' = D
      <4>1. q.base \in Bars(now) /\ q.got \in Bars(now)
        BY <3>3, DownloadIs
      <4>2. IsMerged(Merge(q.base, q.got), q.base, q.got)
        BY <1>0, <4>1, MergeIs
      <4>3. DOMAIN Merge(q.base, q.got) = D
        BY <3>4, <4>2 DEF IsMerged
      <4> QED
        BY <2>1, <3>2, <4>3
    <3>7. Asked(p) = Asked(q)
      BY <2>2, <3>2, SameRanges
    <3>8. SmoothReq(p, file', tmp')
      BY <2>2, <3>5, <3>6, <3>7 DEF SmoothReq
    <3> QED
      BY <2>1, <3>1, <3>8
  <2>4. Works(req[c])
    BY <2>1 DEF Works
  <2> QED
    BY <2>1, <2>2, <2>3, <2>4, SmoothStep
<1>6. ASSUME NEW c \in Clients, Replace(c) PROVE SmoothInv'
  <2>1. req[c].pc = "replace" /\ rough \subseteq rough'
    BY <1>6, ReplaceStep
  <2>2. Works(req[c])
    BY <2>1 DEF Works
  <2>3. CASE file' = file /\ Becomes(c, Idle)
    <3>1. Smooth' => SmoothReq(Idle, file', tmp') /\ Unbroken(DOMAIN file')
      BY <1>i, <1>q, <1>r, <2>1, <2>3
    <3> QED
      BY <2>1, <2>2, <2>3, <3>1, SmoothStep
  <2>4. CASE file' = tmp /\ \E p : Becomes(c, p) /\ p.pc = "answered" /\ Kept(p, req[c])
    <3>1. PICK p : Becomes(c, p) /\ p.pc = "answered" /\ Kept(p, req[c])
      BY <2>4
    <3>2. ASSUME Smooth' PROVE SmoothReq(p, file', tmp') /\ Unbroken(DOMAIN file')
      <4>1. SmoothReq(req[c], file, tmp)
        BY <1>q, <1>r, <2>1, <3>2
      <4>2. Unbroken(DOMAIN tmp) /\ Asked(req[c]) \subseteq DOMAIN tmp
        BY <2>1, <4>1 DEF SmoothReq
      <4>3. Asked(p) = Asked(req[c])
        BY <3>1, SameRanges
      <4>4. SmoothReq(p, file', tmp')
        BY <2>4, <3>1, <4>2, <4>3 DEF SmoothReq
      <4> QED
        BY <2>4, <4>2, <4>4
    <3> QED
      BY <2>1, <2>2, <3>1, <3>2, SmoothStep
  <2> QED
    BY <1>6, <2>3, <2>4, ReplaceStep
<1>7. ASSUME NEW c \in Clients, Load(c) PROVE SmoothInv'
  <2>1. /\ UNCHANGED <<now, file, tmp, rough>> /\ req[c].pc = "answered"
        /\ req[c] \in Download(now)
    BY <1>7, LoadStep
  <2>2. PICK p : /\ Becomes(c, p) /\ p.pc = "idle" /\ p \in Download(now)
                 /\ p.start = req[c].start /\ p.end = req[c].end
                 /\ p.loaded = Within(file, p.start, p.end)
    BY <1>7, LoadStep
  <2>3. ~Works(p) /\ Works(req[c])
    BY <2>1, <2>2 DEF Works
  <2>4. ASSUME Smooth' PROVE SmoothReq(p, file', tmp') /\ Unbroken(DOMAIN file')
    <3>1. SmoothReq(req[c], file, tmp) /\ Unbroken(DOMAIN file)
      BY <1>q, <1>r, <2>1, <2>4
    <3>2. Asked(p) \subseteq DOMAIN file
      BY <2>1, <2>2, <3>1 DEF SmoothReq, Asked
    <3>3. p.start \in Nat /\ p.end \in Nat
      BY <2>2, DownloadIs
    <3>4. DOMAIN p.loaded = Asked(p)
      BY <1>0, <2>2, <3>2, <3>3, LoadedIsAsked
    <3>5. SmoothReq(p, file', tmp')
      BY <2>3, <3>4, AtRest
    <3> QED
      BY <2>1, <3>1, <3>5
  <2> QED
    BY <2>1, <2>2, <2>3, <2>4, SmoothStep
<1>8. ASSUME NEW c \in Clients, Ask(c) \/ Reply(c) \/ Check(c) PROVE SmoothInv'
  <2>1. UNCHANGED <<now, file, tmp, rough>>
    BY <1>8, AskStep, ReplyStep, CheckStep
  <2>2. PICK p : Becomes(c, p) /\ p \in Cycle(now)
    BY <1>8, AskStep, ReplyStep, CheckStep
  <2>3. ~Works(p) /\ p.pc # "idle"
    BY <2>2 DEF Cycle, Works
  <2>4. SmoothReq(p, file', tmp')
    BY <2>3, AtRest
  <2>5. Smooth' => SmoothReq(p, file', tmp') /\ Unbroken(DOMAIN file')
    BY <1>q, <1>r, <2>1, <2>4
  <2> QED
    BY <2>1, <2>2, <2>3, <2>5, SmoothStep
<1>9. CASE UNCHANGED <<file, tmp, req, rough>>
  BY <1>9 DEF SmoothInv, Smooth, Alone
<1>10. Tick => UNCHANGED <<file, tmp, req, rough>>
  BY DEF Tick
<1>11. UNCHANGED vars => UNCHANGED <<file, tmp, req, rough>>
  BY DEF vars
<1> QED
  BY <1>1, <1>2, <1>3, <1>4, <1>5, <1>6, <1>7, <1>8, <1>9, <1>10, <1>11 DEF Next

\* BacktestHasItsBars: while requests do not overlap, and no forced one has left an
\* island, a backtest has every bar of its range (market_cache.py download_csv).
THEOREM BacktestIsComplete == Spec => []BacktestHasItsBars
<1>1. SmoothInv => BacktestHasItsBars
  <2> SUFFICES ASSUME SmoothInv, NEW c \in Clients, Loaded(c), Smooth
               PROVE  DOMAIN req[c].loaded = Asked(req[c])
    BY DEF BacktestHasItsBars, Smooth, Asked
  <2> QED
    BY DEF SmoothInv, SmoothReq, Loaded
<1>2. Spec => []SmoothInv
  BY AlwaysInv, SmoothInit, SmoothNext, PTL DEF Spec
<1> QED
  BY <1>1, <1>2, PTL
=============================================================================
