------------------------ MODULE OptimizationProofs ------------------------
(***************************************************************************)
(* Two parts of one story.  A sweep, for every request the API accepts and *)
(* all outcomes its backtests can have: it ends quiet, what it sets aside  *)
(* stays unseen, and what it offers to apply was earned.  The              *)
(* configuration its result is applied to, for every set of values and any *)
(* number of edits and jobs: its types, and ApiIsCurrent.                  *)
(***************************************************************************)
EXTENDS Sweep, Configuration, FiniteSums, SequenceTheorems, TLAPS

-----------------------------------------------------------------------------
(* The inductive invariant of a sweep.                                     *)

Segments == {"train", "test", "holdout"}

\* The backtests of p on a segment are there, with these outcomes and no other.
Shown(p, segment, o) ==
  /\ segment \in Segments
  /\ o \in [DOMAIN Periods(segment) -> Outcomes]
  /\ Of(p, segment) = Backtests(p, segment, o)

\* Whatever was measured is shown: one outcome per period, every period there.
MeasuredInv ==
  \A b \in measured :
    \E o \in [DOMAIN Periods(b.segment) -> Outcomes] : Shown(b.params, b.segment, o)

IsSequence(s) == Len(s) \in Nat /\ s = [i \in 1..Len(s) |-> s[i]]

\* A trained trial, and a finalist that was tested as well: their figures are
\* those of the backtests that are there.
Trained(t) ==
  \E o \in [DOMAIN Periods("train") -> Outcomes] :
    Shown(t.params, "train", o) /\ t = Trial(t.params, o)

TestedAs(t) ==
  \E o \in [DOMAIN Periods("train") -> Outcomes], x \in [DOMAIN Periods("test") -> Outcomes] :
    /\ Shown(t.params, "train", o) /\ Shown(t.params, "test", x)
    /\ t = [params |-> t.params, train |-> Aggregate(o), test |-> Aggregate(x),
            penalty |-> FoldPenalty(x)]

\* No task is left behind, and none is lost before the last one is trained.
TasksInv ==
  /\ IsSequence(task)
  /\ \A i \in DOMAIN task : task[i] \in {"waiting", "running", "done", "cancelled"}
  /\ phase \in {"train", "failing", "cancelling", "refine", "test", "holdout", "ended"}
  /\ phase = "train" => \A i \in DOMAIN task : task[i] # "cancelled"
  /\ phase \in {"refine", "test", "holdout"} => \A i \in DOMAIN task : task[i] = "done"
  /\ phase = "ended" => \A i \in DOMAIN task : task[i] \in {"done", "cancelled"}

\* What training has found.
ResultsInv ==
  phase = "train" =>
    /\ IsSequence(results) /\ DOMAIN results = DOMAIN task
    /\ \A i \in DOMAIN task : task[i] = "done" => Trained(results[i])

\* The finalists, the tested ones first.
FinalistsInv ==
  /\ IsSequence(finalists)
  /\ tested \in 0..Len(finalists)
  /\ phase \in {"train", "failing", "cancelling", "refine"} => tested = 0
  /\ \A i \in DOMAIN finalists : IF i <= tested THEN TestedAs(finalists[i]) ELSE Trained(finalists[i])

\* The verdict of Choose.
Chosen ==
  [best |-> SelectBest(finalists), valid |-> SelectBest(finalists) # NoTrial,
   fallback |-> IF SelectBest(finalists) = NoTrial /\ finalists # <<>>
                THEN Fallback(finalists) ELSE NoTrial]

\* What a completed sweep stands by.
Settled ==
  /\ tested = Len(finalists)
  /\ \/ /\ verdict = Chosen
        /\ verdict.valid /\ request.holdout > 0 =>
             \E o \in [DOMAIN Periods("holdout") -> Outcomes] :
               Shown(verdict.best.params, "holdout", o) /\ PassesHoldout(o[1])
     \/ /\ ~verdict.valid /\ verdict.fallback = Fallback(finalists) /\ finalists # <<>>

VerdictInv ==
  /\ sweep = [status |-> sweep.status, cancel |-> sweep.cancel, live |-> sweep.live]
  /\ phase = "holdout" =>
       verdict = Chosen /\ verdict.best # NoTrial /\ tested = Len(finalists)
  /\ sweep.status = "completed" => phase = "ended" /\ Settled

SweepInv ==
  /\ request \in Requests
  /\ MeasuredInv /\ TasksInv /\ ResultsInv /\ FinalistsInv /\ VerdictInv

-----------------------------------------------------------------------------
(* Sequences.                                                              *)

\* A function over 1..n is a sequence of length n.
LEMMA FunctionIsSequence ==
  ASSUME NEW n \in Nat, NEW s, s = [i \in 1..n |-> s[i]]
  PROVE  /\ IsSequence(s) /\ Len(s) = n /\ DOMAIN s = 1..n
         /\ s \in Seq({s[i] : i \in 1..n})
<1> DEFINE S == {s[i] : i \in 1..n}
<1>1. s \in [1..n -> S]
  OBVIOUS
<1>2. s \in Seq(S)
  BY <1>1, SeqDef
<1>3. Len(s) = n
  <2>1. DOMAIN s = 1..Len(s) /\ Len(s) \in Nat
    BY <1>2, LenProperties
  <2>2. DOMAIN s = 1..n
    BY <1>1
  <2> QED
    BY <2>1, <2>2
<1> QED
  BY <1>1, <1>2, <1>3 DEF IsSequence

\* Its domain, and what Append makes of it.
LEMMA SequenceFacts ==
  ASSUME NEW s, IsSequence(s)
  PROVE  /\ Len(s) \in Nat /\ DOMAIN s = 1..Len(s)
         /\ \A e : /\ IsSequence(Append(s, e)) /\ Len(Append(s, e)) = Len(s) + 1
                   /\ \A i \in 1..(Len(s) + 1) :
                        Append(s, e)[i] = IF i <= Len(s) THEN s[i] ELSE e
<1>1. Len(s) \in Nat /\ s = [i \in 1..Len(s) |-> s[i]]
  BY DEF IsSequence
<1>2. DOMAIN s = 1..Len(s)
  BY <1>1
<1>3. ASSUME NEW e
      PROVE  /\ IsSequence(Append(s, e)) /\ Len(Append(s, e)) = Len(s) + 1
             /\ \A i \in 1..(Len(s) + 1) :
                  Append(s, e)[i] = IF i <= Len(s) THEN s[i] ELSE e
  <2> DEFINE S == {s[i] : i \in 1..Len(s)} \cup {e}
  <2>1. s \in [1..Len(s) -> S]
    BY <1>1
  <2>2. s \in Seq(S) /\ e \in S
    BY <1>1, <2>1, SeqDef
  <2> HIDE DEF S
  <2>3. /\ Append(s, e) \in Seq(S) /\ Len(Append(s, e)) = Len(s) + 1
        /\ \A i \in 1..(Len(s) + 1) :
             Append(s, e)[i] = IF i <= Len(s) THEN s[i] ELSE e
    BY <2>2
  <2>4. Append(s, e) \in [1..(Len(s) + 1) -> S]
    BY <2>3, LenProperties
  <2>5. Append(s, e) = [i \in 1..(Len(s) + 1) |-> Append(s, e)[i]]
    BY <2>4
  <2>6. Len(s) + 1 \in Nat
    BY <1>1
  <2> QED
    BY <2>3, <2>5, <2>6 DEF IsSequence
<1> QED
  BY <1>1, <1>2, <1>3

\* The first of a sequence are a sequence.
LEMMA FirstOfIs ==
  ASSUME NEW s, IsSequence(s), NEW n \in Nat
  PROVE  /\ IsSequence(FirstOf(s, n)) /\ Len(FirstOf(s, n)) <= Len(s)
         /\ \A i \in DOMAIN FirstOf(s, n) : i \in DOMAIN s /\ FirstOf(s, n)[i] = s[i]
<1> DEFINE m == IF n < Len(s) THEN n ELSE Len(s)
           S == {s[i] : i \in DOMAIN s}
           f == FirstOf(s, n)
<1>1. Len(s) \in Nat /\ DOMAIN s = 1..Len(s)
  BY SequenceFacts
<1>2. m \in Nat /\ m <= Len(s)
  BY <1>1
<1>3. f = SubSeq(s, 1, m)
  BY DEF FirstOf
<1>4. \A i \in 1..m : s[i] \in S
  BY <1>1, <1>2
<1> HIDE DEF m, S, f
<1>5. /\ f \in Seq(S) /\ Len(f) = (IF 1 <= m THEN m - 1 + 1 ELSE 0)
      /\ \A i \in 1..(m - 1 + 1) : f[i] = s[1 + i - 1]
  BY <1>2, <1>3, <1>4, SubSeqProperties
<1>6. Len(f) = m
  BY <1>2, <1>5
<1>7. f \in [1..m -> S]
  BY <1>5, <1>6, LenProperties
<1>8. f = [i \in 1..m |-> f[i]]
  BY <1>7
<1>9. IsSequence(f) /\ DOMAIN f = 1..m
  BY <1>2, <1>6, <1>7, <1>8 DEF IsSequence
<1>10. \A i \in 1..m : i \in DOMAIN s /\ f[i] = s[i]
  BY <1>1, <1>2, <1>5
<1> QED
  BY <1>2, <1>6, <1>9, <1>10 DEF f

\* For every k there is a member that k - 1 others precede.
RanksTaken(D, R) ==
  \A k \in 1..Cardinality(D) : \E x \in D : Cardinality({y \in D : <<y, x>> \in R}) = k - 1

\* In a strict order of a finite set every rank is taken.
LEMMA RanksAreTaken ==
  ASSUME NEW D, IsFiniteSet(D), NEW R,
         \A x \in D : <<x, x>> \notin R,
         \A x, y \in D : x # y => <<x, y>> \in R \/ <<y, x>> \in R,
         \A x, y, z \in D : <<x, y>> \in R /\ <<y, z>> \in R => <<x, z>> \in R
  PROVE  RanksTaken(D, R)
<1> DEFINE Down(x) == {y \in D : <<y, x>> \in R}
           n == Cardinality(D)
           rank == [x \in D |-> Cardinality(Down(x)) + 1]
<1>1. n \in Nat
  BY FS_CardinalityType
<1>2. ASSUME NEW x \in D
      PROVE  IsFiniteSet(Down(x)) /\ Cardinality(Down(x)) \in Nat /\ Cardinality(Down(x)) < n
  <2>1. Down(x) \in SUBSET D /\ Down(x) # D
    OBVIOUS
  <2>2. IsFiniteSet(Down(x)) /\ Cardinality(Down(x)) <= n /\ Cardinality(Down(x)) # n
    BY <2>1, FS_Subset
  <2> QED
    BY <1>1, <2>2, FS_CardinalityType
<1>3. rank \in [D -> 1..n]
  <2> HIDE DEF Down, n
  <2>1. ASSUME NEW x \in D PROVE Cardinality(Down(x)) + 1 \in 1..n
    BY <1>1, <1>2
  <2> QED
    BY <2>1
<1>4. ASSUME NEW x \in D, NEW y \in D, <<x, y>> \in R
      PROVE  rank[x] # rank[y]
  <2>1. Down(x) \in SUBSET Down(y) /\ x \in Down(y) /\ x \notin Down(x)
    BY <1>4
  <2>2. IsFiniteSet(Down(y)) /\ Down(x) # Down(y)
    BY <1>2, <2>1
  <2>3. Cardinality(Down(x)) # Cardinality(Down(y))
    BY <2>1, <2>2, FS_Subset
  <2>4. Cardinality(Down(x)) \in Nat /\ Cardinality(Down(y)) \in Nat
    BY <1>2
  <2> QED
    BY <2>3, <2>4
<1>5. rank \in Injection(D, 1..n)
  <2>1. \A x, y \in D : rank[x] = rank[y] => x = y
    BY <1>4
  <2> QED
    BY <1>3, <2>1 DEF Injection, IsInjective
<1>6. IsFiniteSet(1..n) /\ Cardinality(1..n) = n
  BY <1>1, FS_Interval
<1>7. rank \in Surjection(D, 1..n)
  <2> HIDE DEF rank
  <2> QED
    BY <1>5, <1>6, FS_Injection
<1>8. ASSUME NEW k \in 1..n PROVE \E x \in D : Cardinality(Down(x)) = k - 1
  <2>1. PICK x \in D : rank[x] = k
    BY <1>7 DEF Surjection
  <2>2. Cardinality(Down(x)) + 1 = k /\ Cardinality(Down(x)) \in Nat
    BY <1>2, <2>1
  <2> HIDE DEF Down
  <2>3. Cardinality(Down(x)) = k - 1
    BY <2>2
  <2> QED
    BY <2>3
<1> QED
  BY <1>8 DEF RanksTaken

\* Ranking puts trials in another order and adds none.
LEMMA RankedIs ==
  ASSUME NEW s, IsSequence(s), \A i \in DOMAIN s : s[i].train.score \in Int
  PROVE  /\ IsSequence(Ranked(s)) /\ Len(Ranked(s)) = Len(s)
         /\ \A k \in DOMAIN Ranked(s) : \E i \in DOMAIN s : Ranked(s)[k] = s[i]
<1> DEFINE D == DOMAIN s
           Before(i, j) == \/ s[i].train.score > s[j].train.score
                           \/ s[i].train.score = s[j].train.score /\ i < j
           R == {e \in D \X D : Before(e[1], e[2])}
           order == InOrder(D, Before)
<1>1. Len(s) \in Nat /\ D = 1..Len(s) /\ IsFiniteSet(D) /\ Cardinality(D) = Len(s)
  <2>1. Len(s) \in Nat /\ D = 1..Len(s)
    BY SequenceFacts
  <2>2. IsFiniteSet(1..Len(s)) /\ Cardinality(1..Len(s)) = Len(s)
    BY <2>1, FS_Interval
  <2> QED
    BY <2>1, <2>2
<1>2. \A x \in D : \A y \in D : <<y, x>> \in R <=> Before(y, x)
  OBVIOUS
<1>3. RanksTaken(D, R)
  <2>1. \A x \in D : ~Before(x, x)
    BY <1>1
  <2>2. \A x, y \in D : x # y => Before(x, y) \/ Before(y, x)
    BY <1>1
  <2>3. \A x, y, z \in D : Before(x, y) /\ Before(y, z) => Before(x, z)
    BY <1>1
  <2>4. /\ \A x \in D : <<x, x>> \notin R
        /\ \A x, y \in D : x # y => <<x, y>> \in R \/ <<y, x>> \in R
        /\ \A x, y, z \in D : <<x, y>> \in R /\ <<y, z>> \in R => <<x, z>> \in R
    <3> HIDE DEF Before, R
    <3> QED
      BY <1>2, <2>1, <2>2, <2>3
  <2> HIDE DEF D, R
  <2> QED
    BY <1>1, <2>4, RanksAreTaken
<1>4. \A k \in 1..Cardinality(D) : \E x \in D : Cardinality({y \in D : Before(y, x)}) = k - 1
  <2>1. \A x \in D : {y \in D : <<y, x>> \in R} = {y \in D : Before(y, x)}
    <3> HIDE DEF Before, R
    <3> QED
      BY <1>2
  <2> HIDE DEF Before, R, D
  <2> SUFFICES ASSUME NEW k \in 1..Cardinality(D)
               PROVE  \E x \in D : Cardinality({y \in D : Before(y, x)}) = k - 1
    OBVIOUS
  <2>2. PICK x \in D : Cardinality({y \in D : <<y, x>> \in R}) = k - 1
    BY <1>3 DEF RanksTaken
  <2> QED
    BY <2>1, <2>2
<1>5. order = [k \in 1..Cardinality(D) |->
                 CHOOSE x \in D : Cardinality({y \in D : Before(y, x)}) = k - 1]
  BY DEF InOrder
<1>6. DOMAIN order = 1..Len(s) /\ \A k \in 1..Len(s) : order[k] \in D
  <2> HIDE DEF Before, D
  <2> QED
    BY <1>1, <1>4, <1>5
<1>7. Ranked(s) = [k \in DOMAIN order |-> s[order[k]]]
  BY DEF Ranked
<1> HIDE DEF order, D
<1>8. Ranked(s) = [k \in 1..Len(s) |-> Ranked(s)[k]]
  BY <1>6, <1>7
<1>9. IsSequence(Ranked(s)) /\ Len(Ranked(s)) = Len(s) /\ DOMAIN Ranked(s) = 1..Len(s)
  BY <1>1, <1>8, FunctionIsSequence
<1>10. \A k \in 1..Len(s) : Ranked(s)[k] = s[order[k]]
  BY <1>6, <1>7
<1> QED
  BY <1>6, <1>9, <1>10 DEF D

\* t is s with e in place i.
Replaced(s, i, e, t) ==
  /\ IsSequence(t) /\ Len(t) = Len(s) /\ DOMAIN t = DOMAIN s /\ t[i] = e
  /\ \A j \in DOMAIN s : j # i => t[j] = s[j]

\* A sequence with one element replaced.
LEMMA ReplacedIs ==
  ASSUME NEW s, IsSequence(s), NEW i \in DOMAIN s, NEW e, NEW t, t = [s EXCEPT ![i] = e]
  PROVE  Replaced(s, i, e, t)
<1>1. Len(s) \in Nat /\ DOMAIN s = 1..Len(s)
  BY SequenceFacts
<1>2. t = [j \in DOMAIN s |-> IF j = i THEN e ELSE s[j]]
  BY DEF IsSequence
<1>3. t = [j \in 1..Len(s) |-> t[j]]
  BY <1>1, <1>2
<1>4. IsSequence(t) /\ Len(t) = Len(s) /\ DOMAIN t = 1..Len(s)
  BY <1>1, <1>3, FunctionIsSequence
<1> QED
  BY <1>1, <1>2, <1>4 DEF Replaced

\* Sequences over the same places are of the same length.
LEMMA SameLength ==
  ASSUME NEW s, IsSequence(s), NEW t, IsSequence(t), DOMAIN s = DOMAIN t
  PROVE  Len(s) = Len(t)
<1>1. /\ Len(s) \in Nat /\ DOMAIN s = 1..Len(s)
      /\ Len(t) \in Nat /\ DOMAIN t = 1..Len(t)
  BY SequenceFacts
<1>2. ASSUME NEW a \in Nat, NEW b \in Nat, 1..a = 1..b PROVE a = b
  <2>1. (a = 0 \/ a \in 1..b) /\ (b = 0 \/ b \in 1..a)
    BY <1>2
  <2> QED
    BY <2>1
<1> QED
  BY <1>1, <1>2

-----------------------------------------------------------------------------
(* Windows.                                                                *)

\* Of two quotients the one of the larger fraction is not the smaller.
LEMMA Quotients ==
  ASSUME NEW a \in Nat, NEW b \in Nat \ {0}, NEW c \in Nat, NEW d \in Nat \ {0},
         a * d <= c * b
  PROVE  /\ a \div b \in Nat /\ c \div d \in Nat
         /\ a \div b <= c \div d
<1> DEFINE q == a \div b
           r == c \div d
<1>1. q \in Nat /\ b * q <= a
  OBVIOUS
<1>2. r \in Nat /\ c < d * (r + 1)
  OBVIOUS
<1> HIDE DEF q, r
<1>3. ASSUME q > r PROVE FALSE
  <2>1. d * (r + 1) <= d * q
    BY <1>1, <1>2, <1>3
  <2>2. c < d * q
    BY <1>1, <1>2, <2>1
  <2>3. c * b < (d * q) * b
    BY <1>1, <2>2
  <2>4. (b * q) * d <= a * d
    BY <1>1
  <2>5. (d * q) * b = (b * q) * d
    BY <1>1
  <2> QED
    BY <1>1, <2>3, <2>4, <2>5
<1> QED
  BY <1>1, <1>2, <1>3 DEF q, r

\* A part of a span is no longer than the span.
LEMMA PartOfSpan ==
  ASSUME NEW w \in Nat, NEW a \in Nat, NEW b \in Nat \ {0}, a <= b
  PROVE  (w * a) \div b \in Nat /\ (w * a) \div b <= w
<1> DEFINE c == w * a
<1>1. c \in Nat /\ c * 1 <= w * b /\ 1 \in Nat \ {0}
  OBVIOUS
<1> HIDE DEF c
<1>2. c \div b <= w \div 1 /\ c \div b \in Nat
  BY <1>1, Quotients
<1>3. w \div 1 = w
  OBVIOUS
<1> QED
  BY <1>2, <1>3 DEF c

\* Midnight keeps the order of two moments.
LEMMA MidnightKeepsOrder ==
  ASSUME NEW s \in Nat, NEW t \in Nat, s <= t
  PROVE  /\ Midnight(s) \in Int /\ Midnight(t) \in Int
         /\ Midnight(s) <= Midnight(t)
<1>1. Day \in Nat \ {0}
  BY WindowsAssumption
<1>2. s * Day <= t * Day
  BY <1>1
<1>3. s \div Day <= t \div Day /\ s \div Day \in Nat /\ t \div Day \in Nat
  BY <1>1, <1>2, Quotients
<1>4. Midnight(s) = Day * (s \div Day) /\ Midnight(t) = Day * (t \div Day)
  BY <1>1 DEF Midnight
<1>5. Day * (s \div Day) <= Day * (t \div Day)
  BY <1>1, <1>3
<1> QED
  BY <1>1, <1>3, <1>4, <1>5

\* What ends before another starts trades none of its bars: the lookback is
\* at least one bar (compute_min_lookback_bars).
LEMMA TradedApart ==
  ASSUME NEW a, NEW b, a.to \in Nat, b.from \in Nat, a.to <= b.from
  PROVE  Traded(a) \cap Traded(b) = {}
<1>1. /\ Midnight(a.to) \in Int /\ Midnight(b.from) \in Int
      /\ Midnight(a.to) <= Midnight(b.from)
  BY MidnightKeepsOrder
<1>2. Skip \in Nat \ {0}
  BY WindowsAssumption
<1>3. ASSUME NEW x \in Traded(a), x \in Traded(b) PROVE FALSE
  <2>1. x <= Midnight(a.to) /\ x \in Int
    BY <1>3 DEF Traded
  <2>2. x >= Midnight(b.from) + Skip
    BY <1>3 DEF Traded
  <2> QED
    BY <1>1, <1>2, <2>1, <2>2
<1> QED
  BY <1>3

\* A division of a period p into n parts, of a ratio of training each.
Split(p, n, ratio) ==
  /\ p.from \in Nat /\ p.to \in Nat /\ p.from <= p.to
  /\ n \in Nat \ {0} /\ ratio \in 1..99

\* Every part goes over to its test after its beginning, and ends where the
\* next begins.
LEMMA EdgesInOrder ==
  ASSUME NEW p, NEW n, NEW ratio, Split(p, n, ratio), NEW i \in 0..(n - 1)
  PROVE  /\ Edge(p, n, i) \in Nat /\ Turn(p, n, i, ratio) \in Nat /\ Edge(p, n, i + 1) \in Nat
         /\ p.from <= Edge(p, n, i) /\ Edge(p, n, i) <= Turn(p, n, i, ratio)
         /\ Turn(p, n, i, ratio) <= Edge(p, n, i + 1)
<1> DEFINE w == p.to - p.from
           a == w * i
           b == w * (100 * i + ratio)
           c == w * (i + 1)
           d == 100 * n
<1>1. w \in Nat /\ n \in Nat \ {0} /\ ratio \in 1..99 /\ p.from \in Nat
  BY DEF Split
<1>2. a \in Nat /\ b \in Nat /\ c \in Nat /\ d \in Nat \ {0}
  BY <1>1
<1>3. a * d <= b * n
  <2>1. b * n - a * d = (w * n) * ratio
    BY <1>1
  <2>2. (w * n) * ratio \in Nat
    BY <1>1
  <2>3. b * n \in Int /\ a * d \in Int
    BY <1>1, <1>2
  <2> HIDE DEF a, b, d
  <2> QED
    BY <2>1, <2>2, <2>3
<1>4. b * n <= c * d
  <2>1. c * d - b * n = (w * n) * (100 - ratio)
    BY <1>1
  <2>2. (w * n) * (100 - ratio) \in Nat
    BY <1>1
  <2>3. b * n \in Int /\ c * d \in Int
    BY <1>1, <1>2
  <2> HIDE DEF c, b, d
  <2> QED
    BY <2>1, <2>2, <2>3
<1>5. /\ Edge(p, n, i) = p.from + a \div n
      /\ Turn(p, n, i, ratio) = p.from + b \div d
      /\ Edge(p, n, i + 1) = p.from + c \div n
  BY DEF Edge, Turn
<1> HIDE DEF a, b, c, d, w
<1>6. a \div n \in Nat /\ b \div d \in Nat /\ a \div n <= b \div d
  BY <1>1, <1>2, <1>3, Quotients
<1>7. c \div n \in Nat /\ b \div d <= c \div n
  BY <1>1, <1>2, <1>4, Quotients
<1> QED
  BY <1>1, <1>5, <1>6, <1>7

\* The parts follow one another and end with the period.
LEMMA EdgesRise ==
  ASSUME NEW p, NEW n, NEW ratio, Split(p, n, ratio), NEW i \in 0..n, NEW j \in i..n
  PROVE  /\ Edge(p, n, i) \in Nat /\ Edge(p, n, j) \in Nat
         /\ Edge(p, n, i) <= Edge(p, n, j) /\ Edge(p, n, j) <= p.to
<1> DEFINE w == p.to - p.from
           a == w * i
           b == w * j
<1>1. w \in Nat /\ n \in Nat \ {0} /\ p.from \in Nat /\ p.to \in Nat /\ w = p.to - p.from
  BY DEF Split
<1>2. a \in Nat /\ b \in Nat /\ i <= j
  BY <1>1
<1>3. a * n <= b * n
  BY <1>1
<1>4. /\ Edge(p, n, i) = p.from + a \div n
      /\ Edge(p, n, j) = p.from + b \div n
  BY DEF Edge
<1>5. b \div n <= w
  <2>1. j \in Nat /\ j <= n
    OBVIOUS
  <2> HIDE DEF w
  <2> QED
    BY <1>1, <2>1, PartOfSpan
<1> HIDE DEF a, b, w
<1>6. a \div n \in Nat /\ b \div n \in Nat /\ a \div n <= b \div n
  BY <1>1, <1>2, <1>3, Quotients
<1> QED
  BY <1>1, <1>4, <1>5, <1>6

\* The windows of p fit: in each the test follows the training and is in p,
\* and unless they are anchored no window starts before the last one ended.
WindowsFit(p, mode, n, W) ==
  /\ DOMAIN W = 1..n
  /\ \A i \in 1..n :
       /\ W[i].train.from \in Nat /\ W[i].train.to \in Nat /\ W[i].test.to \in Nat
       /\ W[i].test.from = W[i].train.to /\ W[i].train.from <= W[i].train.to
       /\ W[i].train.to <= W[i].test.to /\ W[i].test.to <= p.to
  /\ mode # "anchored" =>
       \A i, j \in 1..n : i < j => W[i].test.to <= W[j].train.from

\* What the windows are cut at (split_train_test, build_walk_forward_windows).
LEMMA WindowsAreFit ==
  ASSUME NEW p, NEW mode, NEW n, NEW ratio, Split(p, n, ratio)
  PROVE  WindowsFit(p, mode, n, Windows(p, mode, n, ratio))
<1> DEFINE W == Windows(p, mode, n, ratio)
<1>0. n \in Nat \ {0} /\ ratio \in 1..99 /\ p.from \in Nat /\ p.to \in Nat /\ p.from <= p.to
  BY DEF Split
<1>1. ASSUME n = 1 PROVE WindowsFit(p, mode, n, W)
  <2>1. W = <<TrainTest(p, ratio)>>
    BY <1>1 DEF Windows
  <2>2. DOMAIN W = 1..1 /\ W[1] = TrainTest(p, ratio)
    BY <2>1
  <2>3. Share(p, ratio) \in Nat /\ p.from <= Share(p, ratio) /\ Share(p, ratio) <= p.to
    <3> DEFINE w == p.to - p.from
               q == (w * ratio) \div 100
    <3>1. w \in Nat /\ ratio \in Nat /\ ratio <= 100 /\ 100 \in Nat \ {0}
      BY <1>0
    <3> HIDE DEF w
    <3>2. q \in Nat /\ q <= w
      BY <3>1, PartOfSpan
    <3>3. Share(p, ratio) = p.from + q
      BY DEF Share, w
    <3> HIDE DEF q
    <3> QED
      BY <1>0, <3>2, <3>3 DEF w
  <2>4. /\ W[1].train.from = p.from /\ W[1].train.to = Share(p, ratio)
        /\ W[1].test.from = Share(p, ratio) /\ W[1].test.to = p.to
    BY <2>2 DEF TrainTest, Period
  <2>5. DOMAIN W = 1..n /\ \A i \in 1..n : i = 1
    BY <1>1, <2>2
  <2> HIDE DEF W
  <2> QED
    BY <1>0, <2>3, <2>4, <2>5 DEF WindowsFit
<1>2. ASSUME n # 1, mode = "anchored" PROVE WindowsFit(p, mode, n, W)
  <2>1. W = AnchoredWindows(p, n, ratio)
    BY <1>2 DEF Windows
  <2>2. DOMAIN W = 1..n
    BY <2>1 DEF AnchoredWindows
  <2>3. ASSUME NEW i \in 1..n
        PROVE  /\ W[i].train.from \in Nat /\ W[i].train.to \in Nat /\ W[i].test.to \in Nat
               /\ W[i].test.from = W[i].train.to /\ W[i].train.from <= W[i].train.to
               /\ W[i].train.to <= W[i].test.to /\ W[i].test.to <= p.to
    <3> DEFINE k == i - 1
    <3>1. k \in 0..(n - 1) /\ i = k + 1 /\ i \in 0..n /\ i \in i..n
      BY <1>0
    <3>2. /\ W[i].train.from = p.from /\ W[i].train.to = Turn(p, n, k, ratio)
          /\ W[i].test.from = Turn(p, n, k, ratio) /\ W[i].test.to = Edge(p, n, i)
      BY <2>1 DEF AnchoredWindows, Period
    <3> HIDE DEF k, W
    <3>3. /\ Turn(p, n, k, ratio) \in Nat /\ Turn(p, n, k, ratio) <= Edge(p, n, i)
          /\ Edge(p, n, k) \in Nat /\ p.from <= Edge(p, n, k)
          /\ Edge(p, n, k) <= Turn(p, n, k, ratio)
      BY <3>1, EdgesInOrder
    <3>4. Edge(p, n, i) \in Nat /\ Edge(p, n, i) <= p.to
      BY <3>1, EdgesRise
    <3> QED
      BY <1>0, <3>2, <3>3, <3>4
  <2> HIDE DEF W
  <2> QED
    BY <1>2, <2>2, <2>3 DEF WindowsFit
<1>3. ASSUME n # 1, mode # "anchored" PROVE WindowsFit(p, mode, n, W)
  <2>1. W = FixedWindows(p, n, ratio)
    BY <1>3 DEF Windows
  <2>2. DOMAIN W = 1..n
    BY <2>1 DEF FixedWindows
  <2>3. ASSUME NEW i \in 1..n
        PROVE  /\ W[i].train.from = Edge(p, n, i - 1)
               /\ W[i].train.from \in Nat /\ W[i].train.to \in Nat
               /\ W[i].test.to = Edge(p, n, i) /\ W[i].test.to \in Nat
               /\ W[i].test.from = W[i].train.to /\ W[i].train.from <= W[i].train.to
               /\ W[i].train.to <= W[i].test.to /\ W[i].test.to <= p.to
    <3> DEFINE k == i - 1
    <3>1. k \in 0..(n - 1) /\ i = k + 1 /\ i \in 0..n /\ i \in i..n
      BY <1>0
    <3>2. /\ W[i].train.from = Edge(p, n, k) /\ W[i].train.to = Turn(p, n, k, ratio)
          /\ W[i].test.from = Turn(p, n, k, ratio) /\ W[i].test.to = Edge(p, n, i)
      BY <2>1 DEF FixedWindows, Period
    <3>15. W[i].train.from = Edge(p, n, i - 1)
      BY <3>2
    <3> HIDE DEF k, W
    <3>3. /\ Turn(p, n, k, ratio) \in Nat /\ Turn(p, n, k, ratio) <= Edge(p, n, i)
          /\ Edge(p, n, k) \in Nat /\ Edge(p, n, k) <= Turn(p, n, k, ratio)
      BY <3>1, EdgesInOrder
    <3>4. Edge(p, n, i) \in Nat /\ Edge(p, n, i) <= p.to
      BY <3>1, EdgesRise
    <3> QED
      BY <1>0, <3>2, <3>3, <3>4, <3>15
  <2>4. ASSUME NEW i \in 1..n, NEW j \in 1..n, i < j
        PROVE  W[i].test.to <= W[j].train.from
    <3> DEFINE k == j - 1
    <3>1. i \in 0..n /\ k \in i..n
      BY <1>0, <2>4
    <3> HIDE DEF k
    <3>2. Edge(p, n, i) <= Edge(p, n, k)
      BY <3>1, EdgesRise
    <3> HIDE DEF W
    <3> QED
      BY <2>3, <3>2 DEF k
  <2> HIDE DEF W
  <2> QED
    BY <2>2, <2>3, <2>4 DEF WindowsFit
<1> QED
  BY <1>1, <1>2, <1>3

\* The folds of a sweep fit into what comes before its holdout.
LEMMA FoldsFit ==
  ASSUME request \in Requests
  PROVE  /\ Holdout.from \in Nat
         /\ WindowsFit(Searched(Whole, request.holdout), request.mode, request.folds, Folds)
         /\ Holdout.from = Searched(Whole, request.holdout).to
<1> DEFINE p == Searched(Whole, request.holdout)
           h == 100 - request.holdout
<1>1. /\ request.bars \in Nat /\ request.holdout \in 0..99 /\ request.ratio \in 1..99
      /\ request.folds \in Nat \ {0}
  BY SweepAssumption
<1>2. h \in Nat /\ h <= 100 /\ 100 \in Nat \ {0}
  BY <1>1
<1>3. (request.bars * h) \div 100 \in Nat
  <2> HIDE DEF h
  <2> QED
    BY <1>1, <1>2, PartOfSpan
<1>4. p.from = 0 /\ p.to = 0 + ((request.bars - 0) * h) \div 100
  BY DEF Searched, Whole, Period, Share
<1>5. p.to = (request.bars * h) \div 100
  <2>1. request.bars - 0 = request.bars
    BY <1>1
  <2> HIDE DEF h
  <2> QED
    BY <1>3, <1>4, <2>1
<1>6. Split(p, request.folds, request.ratio)
  <2> HIDE DEF p, h
  <2> QED
    BY <1>1, <1>3, <1>4, <1>5 DEF Split
<1>7. Folds = Windows(p, request.mode, request.folds, request.ratio)
  BY DEF Folds
<1>8. Holdout.from = p.to
  BY DEF Holdout, HeldOut, Period
<1> HIDE DEF p, h
<1>9. WindowsFit(p, request.mode, request.folds, Folds)
  BY <1>6, <1>7, WindowsAreFit
<1> QED
  BY <1>3, <1>5, <1>8, <1>9 DEF p

-----------------------------------------------------------------------------
(* What was measured.                                                      *)

\* There is a fold, and the holdout is one period.
LEMMA PeriodsOf ==
  ASSUME request \in Requests
  PROVE  /\ request.folds \in Nat \ {0}
         /\ DOMAIN Periods("train") = 1..request.folds
         /\ DOMAIN Periods("test") = 1..request.folds
         /\ DOMAIN Periods("holdout") = 1..1
         /\ \A i \in 1..request.folds :
              Periods("train")[i] = Folds[i].train /\ Periods("test")[i] = Folds[i].test
         /\ Periods("holdout")[1] = Holdout
<1>1. DOMAIN Folds = 1..request.folds
  BY FoldsFit DEF WindowsFit
<1>2. request.folds \in Nat \ {0}
  BY SweepAssumption
<1>3. Periods("holdout") = <<Holdout>>
  BY DEF Periods
<1>4. Periods("train") = [i \in DOMAIN Folds |-> Folds[i]["train"]]
  BY DEF Periods
<1>5. Periods("test") = [i \in DOMAIN Folds |-> Folds[i]["test"]]
  BY DEF Periods
<1> QED
  BY <1>1, <1>2, <1>3, <1>4, <1>5

\* A backtest names its period by its fold.
LEMMA PeriodOfFold ==
  ASSUME NEW p, NEW segment, NEW o, Shown(p, segment, o), NEW b \in Of(p, segment)
  PROVE  /\ b \in measured /\ b.params = p /\ b.segment = segment
         /\ b.fold \in DOMAIN Periods(segment)
         /\ b.period = Periods(segment)[b.fold] /\ b.outcome = o[b.fold]
<1>1. DOMAIN o = DOMAIN Periods(segment)
  BY DEF Shown
<1> QED
  BY <1>1 DEF Shown, Backtests, Of

\* A further measurement shows the backtests it makes, and changes none that
\* is there: the same parameters and period give the same outcome.
LEMMA MeasureShows ==
  ASSUME MeasuredInv, request \in Requests, UNCHANGED request,
         NEW p, NEW segment \in Segments, NEW outcomes, Measure(p, segment, outcomes)
  PROVE  /\ MeasuredInv'
         /\ Shown(p, segment, outcomes)'
         /\ \A q, s, o : Shown(q, s, o) => Shown(q, s, o)'
<1> DEFINE new == Backtests(p, segment, outcomes)
<1>1. /\ outcomes \in [DOMAIN Periods(segment) -> Outcomes]
      /\ Repeatable(new)
      /\ measured' = measured \cup new
  BY DEF Measure
<1>2. DOMAIN outcomes = DOMAIN Periods(segment)
  BY <1>1
<1>3. \A s : Periods(s)' = Periods(s)
  BY DEF Periods, Folds, Holdout, Whole
<1>4. \A q, s, o : Backtests(q, s, o)' = Backtests(q, s, o)
  BY <1>3 DEF Backtests
<1>5. ASSUME NEW q, NEW s, <<q, s>> # <<p, segment>>
      PROVE  Of(q, s)' = Of(q, s)
  BY <1>1, <1>5 DEF Of, Backtests
<1>6. Of(p, segment)' = Of(p, segment) \cup new
  BY <1>1 DEF Of, Backtests
<1>7. ASSUME NEW o, Shown(p, segment, o), Of(p, segment) # {}
      PROVE  o = outcomes
  <2>1. o \in [DOMAIN Periods(segment) -> Outcomes]
    BY <1>7 DEF Shown
  <2>2. ASSUME NEW i \in DOMAIN Periods(segment) PROVE o[i] = outcomes[i]
    <3> DEFINE a == [params |-> p, segment |-> segment, fold |-> i,
                     period |-> Periods(segment)[i], outcome |-> outcomes[i]]
               b == [params |-> p, segment |-> segment, fold |-> i,
                     period |-> Periods(segment)[i], outcome |-> o[i]]
    <3>1. a \in new
      BY <1>2 DEF Backtests
    <3>2. b \in Backtests(p, segment, o)
      BY <2>1 DEF Backtests
    <3>3. b \in measured
      BY <3>2, <1>7 DEF Shown, Of
    <3>4. a.params = b.params /\ a.period = b.period
      OBVIOUS
    <3>5. a.outcome = outcomes[i] /\ b.outcome = o[i]
      OBVIOUS
    <3> HIDE DEF a, b, new
    <3> QED
      BY <1>1, <3>1, <3>3, <3>4, <3>5 DEF Repeatable
  <2> QED
    BY <1>1, <2>1, <2>2
<1>8. Of(p, segment)' = new
  <2>1. CASE Of(p, segment) = {}
    BY <1>6, <2>1
  <2>2. CASE Of(p, segment) # {}
    <3>1. PICK b \in measured : b.params = p /\ b.segment = segment
      BY <2>2 DEF Of
    <3>2. PICK o : Shown(p, segment, o)
      BY <3>1 DEF MeasuredInv
    <3>3. o = outcomes
      BY <1>7, <2>2, <3>2
    <3>4. Of(p, segment) = new
      BY <3>2, <3>3 DEF Shown
    <3> QED
      BY <1>6, <3>4
  <2> QED
    BY <2>1, <2>2
<1>9. Shown(p, segment, outcomes)'
  BY <1>1, <1>3, <1>4, <1>8 DEF Shown
<1>10. ASSUME NEW q, NEW s, NEW o, Shown(q, s, o) PROVE Shown(q, s, o)'
  <2>1. s \in Segments /\ o \in [DOMAIN Periods(s)' -> Outcomes]
    BY <1>10, <1>3 DEF Shown
  <2>2. Of(q, s) = Backtests(q, s, o)'
    BY <1>10, <1>4 DEF Shown
  <2>3. CASE <<q, s>> # <<p, segment>>
    BY <1>5, <2>1, <2>2, <2>3 DEF Shown
  <2>4. CASE q = p /\ s = segment
    <3>1. Of(p, segment) # {}
      <4>1. PICK i \in DOMAIN o : TRUE
        <5>1. 1 \in DOMAIN Periods(s)
          BY PeriodsOf, <1>10 DEF Shown, Segments
        <5> QED
          BY <5>1, <2>1, <1>3
      <4>2. [params |-> q, segment |-> s, fold |-> i, period |-> Periods(s)[i],
             outcome |-> o[i]] \in Backtests(q, s, o)
        BY <4>1 DEF Backtests
      <4>3. Of(q, s) = Backtests(q, s, o)
        BY <1>10 DEF Shown
      <4> QED
        BY <4>2, <4>3, <2>4
    <3>2. o = outcomes
      BY <1>7, <1>10, <2>4, <3>1
    <3> QED
      BY <1>9, <2>4, <3>2
  <2> QED
    BY <2>3, <2>4
<1>11. MeasuredInv'
  <2>1. ASSUME NEW b \in measured'
        PROVE  \E o \in [DOMAIN Periods(b.segment)' -> Outcomes] : Shown(b.params, b.segment, o)'
    <3>1. CASE b \in measured
      <4>1. PICK o : Shown(b.params, b.segment, o)
        BY <3>1 DEF MeasuredInv
      <4> QED
        BY <1>10, <4>1 DEF Shown
    <3>2. CASE b \in new
      <4>1. b.params = p /\ b.segment = segment
        BY <3>2 DEF Backtests
      <4> QED
        BY <1>9, <4>1 DEF Shown
    <3> QED
      BY <1>1, <2>1, <3>1, <3>2
  <2> QED
    BY <2>1 DEF MeasuredInv
<1> QED
  BY <1>9, <1>10, <1>11

\* What overlaps was not set aside, and is training and test of two windows
\* that start together.
LEMMA MeasuredApart ==
  ASSUME request \in Requests, MeasuredInv
  PROVE  SegmentsApart
<1> SUFFICES ASSUME NEW a \in measured, NEW b \in measured, Overlap(a, b), a.segment # b.segment
             PROVE  /\ "holdout" \notin {a.segment, b.segment}
                    /\ request.mode = "anchored" /\ a.fold # b.fold
  BY DEF SegmentsApart
<1> DEFINE Fit(x) == /\ x.segment \in Segments
                     /\ x.fold \in DOMAIN Periods(x.segment)
                     /\ x.period = Periods(x.segment)[x.fold]
<1>1. ASSUME NEW x \in measured PROVE Fit(x)
  <2>1. PICK o : Shown(x.params, x.segment, o)
    BY DEF MeasuredInv
  <2>2. x \in Of(x.params, x.segment)
    BY DEF Of
  <2> QED
    BY <2>1, <2>2, PeriodOfFold DEF Shown
<1>2. Fit(a) /\ Fit(b)
  BY <1>1
<1> DEFINE p == Searched(Whole, request.holdout)
           n == request.folds
<1>3. /\ Holdout.from \in Nat /\ Holdout.from = p.to
      /\ n \in Nat
      /\ \A i \in 1..n :
           /\ Folds[i].train.from \in Nat /\ Folds[i].train.to \in Nat /\ Folds[i].test.to \in Nat
           /\ Folds[i].test.from = Folds[i].train.to
           /\ Folds[i].train.from <= Folds[i].train.to
           /\ Folds[i].train.to <= Folds[i].test.to /\ Folds[i].test.to <= p.to
      /\ request.mode # "anchored" =>
           \A i, j \in 1..n : i < j => Folds[i].test.to <= Folds[j].train.from
  BY FoldsFit, PeriodsOf DEF WindowsFit
<1> HIDE DEF p
<1>4. ASSUME NEW x \in {a, b}, NEW y \in {a, b}, y.segment = "holdout", x.segment # "holdout"
      PROVE  Traded(x.period) \cap Traded(y.period) = {}
  <2>1. y.period = Holdout
    BY <1>2, <1>4, PeriodsOf
  <2>2. x.period.to \in Nat /\ x.period.to <= Holdout.from
    <3>1. CASE x.segment = "train"
      <4>1. x.fold \in 1..n /\ x.period = Folds[x.fold].train
        BY <1>2, <3>1, PeriodsOf
      <4> QED
        BY <1>3, <4>1
    <3>2. CASE x.segment = "test"
      <4>1. x.fold \in 1..n /\ x.period = Folds[x.fold].test
        BY <1>2, <3>2, PeriodsOf
      <4> QED
        BY <1>3, <4>1
    <3> QED
      BY <1>2, <1>4, <3>1, <3>2 DEF Segments
  <2> QED
    BY <1>3, <2>1, <2>2, TradedApart
<1>5. Traded(a.period) \cap Traded(b.period) # {}
  BY DEF Overlap
<1>6. a.segment # "holdout" /\ b.segment # "holdout"
  BY <1>4, <1>5
<1>7. ASSUME NEW x \in {a, b}, NEW y \in {a, b}, x.segment = "train", y.segment = "test",
             Traded(x.period) \cap Traded(y.period) # {}
      PROVE  request.mode = "anchored" /\ x.fold # y.fold
  <2> DEFINE i == x.fold
             j == y.fold
  <2>1. i \in 1..n /\ x.period = Folds[i].train
    BY <1>2, <1>7, PeriodsOf
  <2>2. j \in 1..n /\ y.period = Folds[j].test
    BY <1>2, <1>7, PeriodsOf
  <2> HIDE DEF i, j
  <2>3. /\ x.period.from \in Nat /\ x.period.to \in Nat
        /\ y.period.from \in Nat /\ y.period.to \in Nat
    BY <1>3, <2>1, <2>2
  <2>4. ~(x.period.to <= y.period.from) /\ ~(y.period.to <= x.period.from)
    BY <1>7, <2>3, TradedApart
  <2>5. i # j
    <3> SUFFICES ASSUME i = j PROVE FALSE
      OBVIOUS
    <3>1. y.period.from = x.period.to
      BY <1>3, <2>1, <2>2
    <3> QED
      BY <2>3, <2>4, <3>1
  <2>6. ASSUME request.mode # "anchored" PROVE FALSE
    <3>1. CASE i < j
      <4>1. Folds[i].test.to <= Folds[j].train.from
        BY <1>3, <2>1, <2>2, <2>6, <3>1
      <4>2. Folds[i].train.to <= Folds[i].test.to
        BY <1>3, <2>1
      <4>3. Folds[j].train.from <= Folds[j].train.to
        BY <1>3, <2>2
      <4> QED
        BY <1>3, <2>1, <2>2, <2>4, <4>1, <4>2, <4>3
    <3>2. CASE j < i
      <4>1. Folds[j].test.to <= Folds[i].train.from
        BY <1>3, <2>1, <2>2, <2>6, <3>2
      <4> QED
        BY <2>1, <2>2, <2>4, <4>1
    <3> QED
      BY <1>3, <2>1, <2>2, <2>5, <3>1, <3>2
  <2> QED
    BY <2>5, <2>6 DEF i, j
<1> QED
  BY <1>2, <1>5, <1>6, <1>7 DEF Segments

-----------------------------------------------------------------------------
(* Scores are sums over the backtests that are there.                      *)

\* A mean that reaches a minimum has a sum that reaches it for each.
LEMMA MeanReaches ==
  ASSUME NEW a \in Int, NEW n \in Nat \ {0}, NEW m \in Int, a \div n >= m
  PROVE  a >= m * n
<1> DEFINE q == a \div n
<1>1. q \in Int /\ n * q <= a
  OBVIOUS
<1>2. q >= m
  OBVIOUS
<1> HIDE DEF q
<1>3. n * q >= n * m /\ n * q \in Int /\ n * m \in Int /\ n * m = m * n
  BY <1>1, <1>2
<1> QED
  BY <1>1, <1>3

\* What is put together are figures again (_aggregate_fold_outcomes).
LEMMA AggregateIs ==
  ASSUME NEW n \in Nat \ {0}, NEW o \in [1..n -> Outcomes]
  PROVE  /\ Len(o) = n /\ DOMAIN o = 1..n /\ IsFiniteSet(1..n)
         /\ Aggregate(o) \in Figures
         /\ [i \in 1..n |-> o[i].trades] \in [1..n -> Int]
         /\ [i \in 1..n |-> o[i].ret] \in [1..n -> Int]
         /\ Aggregate(o).trades = SumFunction([i \in 1..n |-> o[i].trades])
         /\ Aggregate(o).ret = SumFunction([i \in 1..n |-> o[i].ret]) \div n
<1>1. o = [i \in 1..n |-> o[i]] /\ n \in Nat
  OBVIOUS
<1>2. Len(o) = n /\ DOMAIN o = 1..n
  BY <1>1, FunctionIsSequence
<1>3. ASSUME NEW i \in 1..n
      PROVE  /\ o[i].trades \in Nat /\ o[i].months \in Nat /\ o[i].up \in Nat
             /\ o[i].ret \in Int /\ o[i].dd \in Int /\ o[i].pf \in Int /\ o[i].score \in Int
  <2>1. o[i] \in Figures
    BY SweepAssumption
  <2> QED
    BY <2>1 DEF Figures
<1>4. /\ [i \in 1..n |-> o[i].trades] \in [1..n -> Nat]
      /\ [i \in 1..n |-> o[i].months] \in [1..n -> Nat]
      /\ [i \in 1..n |-> o[i].up] \in [1..n -> Nat]
      /\ [i \in 1..n |-> o[i].ret] \in [1..n -> Int]
      /\ [i \in 1..n |-> o[i].dd] \in [1..n -> Int]
      /\ [i \in 1..n |-> o[i].pf] \in [1..n -> Int]
      /\ [i \in 1..n |-> o[i].score] \in [1..n -> Int]
  BY <1>3
<1>5. IsFiniteSet(1..n)
  BY FS_Interval
<1>6. /\ SumFunction([i \in 1..n |-> o[i].trades]) \in Nat
      /\ SumFunction([i \in 1..n |-> o[i].months]) \in Nat
      /\ SumFunction([i \in 1..n |-> o[i].up]) \in Nat
  BY <1>4, <1>5, SumIsNat
<1>7. /\ SumFunction([i \in 1..n |-> o[i].ret]) \in Int
      /\ SumFunction([i \in 1..n |-> o[i].dd]) \in Int
      /\ SumFunction([i \in 1..n |-> o[i].pf]) \in Int
      /\ SumFunction([i \in 1..n |-> o[i].score]) \in Int
  BY <1>4, <1>5, SumIsInt
<1>8. Aggregate(o) = [trades |-> SumFunction([i \in 1..n |-> o[i].trades]),
                      months |-> SumFunction([i \in 1..n |-> o[i].months]),
                      up |-> SumFunction([i \in 1..n |-> o[i].up]),
                      ret |-> SumFunction([i \in 1..n |-> o[i].ret]) \div n,
                      dd |-> SumFunction([i \in 1..n |-> o[i].dd]) \div n,
                      pf |-> SumFunction([i \in 1..n |-> o[i].pf]) \div n,
                      score |-> SumFunction([i \in 1..n |-> o[i].score]) \div n]
  BY <1>2 DEF Aggregate, Mean, Total
<1>9. \A a \in Int : a \div n \in Int
  OBVIOUS
<1>10. Aggregate(o) \in Figures
  <2>1. \A t, m, u \in Nat : \A r, d, f, s \in Int :
          [trades |-> t, months |-> m, up |-> u, ret |-> r, dd |-> d, pf |-> f, score |-> s]
          \in Figures
    BY DEF Figures
  <2> DEFINE t == SumFunction([i \in 1..n |-> o[i].trades])
             m == SumFunction([i \in 1..n |-> o[i].months])
             u == SumFunction([i \in 1..n |-> o[i].up])
             r == SumFunction([i \in 1..n |-> o[i].ret]) \div n
             d == SumFunction([i \in 1..n |-> o[i].dd]) \div n
             f == SumFunction([i \in 1..n |-> o[i].pf]) \div n
             s == SumFunction([i \in 1..n |-> o[i].score]) \div n
  <2>2. r \in Int /\ d \in Int /\ f \in Int /\ s \in Int
    BY <1>7, <1>9
  <2>3. t \in Nat /\ m \in Nat /\ u \in Nat
    BY <1>6
  <2>4. Aggregate(o) = [trades |-> t, months |-> m, up |-> u,
                        ret |-> r, dd |-> d, pf |-> f, score |-> s]
    BY <1>8
  <2> HIDE DEF t, m, u, r, d, f, s
  <2> QED
    BY <2>2, <2>3, <2>4 DEF Figures
<1>11. [i \in 1..n |-> o[i].trades] \in [1..n -> Int]
  BY <1>3
<1> QED
  BY <1>2, <1>4, <1>5, <1>8, <1>10, <1>11

\* The members of D are numbered from 1 to n, the i-th with the outcome o[i].
Numbered(D, n, o) ==
  /\ \E h \in Bijection(1..n, D) : \A i \in 1..n : h[i].outcome = o[i]
  /\ IsFiniteSet(D) /\ Cardinality(D) = n

\* Every backtest of a segment has a number of its own.
LEMMA BacktestsNumbered ==
  ASSUME NEW p, NEW segment, NEW n \in Nat, NEW o, DOMAIN o = 1..n,
         NEW D, D = Backtests(p, segment, o)
  PROVE  Numbered(D, n, o)
<1> DEFINE Test(i) == [params |-> p, segment |-> segment, fold |-> i,
                       period |-> Periods(segment)[i], outcome |-> o[i]]
           h == [i \in 1..n |-> Test(i)]
<1>1. D = {Test(i) : i \in 1..n}
  BY DEF Backtests
<1>2. \A i \in 1..n : h[i] = Test(i) /\ h[i].fold = i /\ h[i].outcome = o[i]
  OBVIOUS
<1>3. h \in [1..n -> D]
  BY <1>1
<1>4. \A d \in D : \E i \in 1..n : h[i] = d
  BY <1>1
<1> HIDE DEF h
<1>5. h \in Bijection(1..n, D)
  BY <1>2, <1>3, <1>4 DEF Bijection, Injection, Surjection, IsInjective
<1>6. IsFiniteSet(1..n) /\ Cardinality(1..n) = n
  BY FS_Interval
<1>7. IsFiniteSet(D) /\ Cardinality(D) = n
  BY <1>5, <1>6, FS_Surjection DEF Bijection
<1> QED
  BY <1>2, <1>5, <1>7 DEF Numbered

\* The backtests of a segment, added up: what is aggregated.
LEMMA ShownAddsUp ==
  ASSUME request \in Requests, NEW p, NEW segment \in {"train", "test"},
         NEW o, Shown(p, segment, o)
  PROVE  /\ Aggregate(o) \in Figures
         /\ TradesOf(p, segment) = Aggregate(o).trades
         /\ \A m \in Int : Aggregate(o).ret >= m =>
              ReturnOf(p, segment) >= m * Cardinality(Of(p, segment))
<1> DEFINE n == request.folds
           D == Of(p, segment)
<1>1. n \in Nat \ {0} /\ o \in [1..n -> Outcomes] /\ D = Backtests(p, segment, o)
  BY PeriodsOf DEF Shown
<1> HIDE DEF n, D
<1>2. /\ Len(o) = n /\ DOMAIN o = 1..n /\ IsFiniteSet(1..n)
      /\ Aggregate(o) \in Figures
      /\ [i \in 1..n |-> o[i].trades] \in [1..n -> Int]
      /\ [i \in 1..n |-> o[i].ret] \in [1..n -> Int]
      /\ Aggregate(o).trades = SumFunction([i \in 1..n |-> o[i].trades])
      /\ Aggregate(o).ret = SumFunction([i \in 1..n |-> o[i].ret]) \div n
  BY <1>1, AggregateIs
<1>3. Numbered(D, n, o)
  <2>1. n \in Nat /\ DOMAIN o = 1..n
    BY <1>1, <1>2
  <2> QED
    BY <1>1, <2>1, BacktestsNumbered
<1>15. IsFiniteSet(D) /\ Cardinality(D) = n
  BY <1>3 DEF Numbered
<1>4. PICK h \in Bijection(1..n, D) : \A i \in 1..n : h[i].outcome = o[i]
  BY <1>3 DEF Numbered
<1>5. h \in [1..n -> D] /\ \A d \in D : \E i \in 1..n : h[i] = d
  BY DEF Bijection, Injection, Surjection
<1> DEFINE trades == [b \in D |-> b.outcome.trades]
           ret == [b \in D |-> b.outcome.ret]
           e1 == [i \in 1..n |-> o[i].trades]
           e2 == [i \in 1..n |-> o[i].ret]
<1>6. \A i \in 1..n : e1[i] = trades[h[i]] /\ e2[i] = ret[h[i]]
  BY <1>4, <1>5
<1>7. trades \in [D -> Int] /\ ret \in [D -> Int]
  <2>1. ASSUME NEW d \in D PROVE trades[d] \in Int /\ ret[d] \in Int
    <3>1. PICK i \in 1..n : h[i] = d
      BY <1>5
    <3>2. o[i].trades \in Int /\ o[i].ret \in Int
      BY <1>2
    <3> QED
      BY <1>6, <3>1, <3>2
  <2> QED
    BY <2>1
<1>8. e1 \in [1..n -> Int] /\ e2 \in [1..n -> Int]
  BY <1>2
<1> HIDE DEF trades, ret, e1, e2
<1>9. SumFunction(e1) = SumFunction(trades) /\ SumFunction(e2) = SumFunction(ret)
  <2> DEFINE E == 1..n
  <2>1. IsFiniteSet(E) /\ h \in Bijection(E, D)
    BY <1>2
  <2>2. e1 \in [E -> Int] /\ trades \in [D -> Int] /\ \A i \in E : e1[i] = trades[h[i]]
    BY <1>6, <1>7, <1>8
  <2>3. e2 \in [E -> Int] /\ ret \in [D -> Int] /\ \A i \in E : e2[i] = ret[h[i]]
    BY <1>6, <1>7, <1>8
  <2> HIDE DEF E
  <2>4. SumFunction(e1) = SumFunction(trades)
    BY <1>15, <2>1, <2>2, SumReindexed
  <2>5. SumFunction(e2) = SumFunction(ret)
    BY <1>15, <2>1, <2>3, SumReindexed
  <2> QED
    BY <2>4, <2>5
<1>10. TradesOf(p, segment) = SumFunction(trades) /\ ReturnOf(p, segment) = SumFunction(ret)
  BY DEF TradesOf, ReturnOf, trades, ret, D
<1>11. TradesOf(p, segment) = Aggregate(o).trades
  BY <1>2, <1>9, <1>10 DEF e1
<1>12. ASSUME NEW m \in Int, Aggregate(o).ret >= m
       PROVE  ReturnOf(p, segment) >= m * Cardinality(D)
  <2>1. SumFunction(e2) \in Int
    BY <1>2, <1>8, SumIsInt
  <2>2. SumFunction(e2) \div n >= m
    BY <1>2, <1>12 DEF e2
  <2>3. SumFunction(e2) >= m * n
    BY <1>1, <2>1, <2>2, MeanReaches
  <2> QED
    BY <1>15, <1>9, <1>10, <2>3
<1> QED
  BY <1>2, <1>11, <1>12 DEF D

-----------------------------------------------------------------------------
(* The choice.                                                             *)

\* Of finitely many numbers the first that is the largest.
LEMMA FirstLargest ==
  ASSUME NEW S, IsFiniteSet(S), S \in SUBSET Nat, S # {}, NEW f \in [S -> Int]
  PROVE  \E i \in S : \A j \in S : IF j < i THEN f[j] < f[i] ELSE f[j] <= f[i]
<1> DEFINE First(T, i) == \A j \in T : IF j < i THEN f[j] < f[i] ELSE f[j] <= f[i]
           P == {T \in SUBSET S : T = {} \/ \E i \in T : First(T, i)}
<1>1. {} \in P
  OBVIOUS
<1>2. ASSUME NEW T \in SUBSET S, T # {}, \A x \in T : T \ {x} \in P
      PROVE  T \in P
  <2>1. PICK x \in T : TRUE
    BY <1>2
  <2>2. CASE T \ {x} = {}
    <3>1. \A j \in T : j = x
      BY <2>2
    <3>2. First(T, x)
      BY <3>1
    <3> HIDE DEF First
    <3> QED
      BY <3>2
  <2>3. CASE T \ {x} # {}
    <3>1. PICK i \in T \ {x} : First(T \ {x}, i)
      <4> HIDE DEF First
      <4> QED
        BY <1>2, <2>3
    <3>2. \A j \in T : j \in Nat /\ f[j] \in Int
      OBVIOUS
    <3>3. CASE f[x] < f[i] \/ (f[x] = f[i] /\ i < x)
      <4>1. First(T, i)
        BY <3>1, <3>2, <3>3
      <4> HIDE DEF First
      <4> QED
        BY <4>1
    <3>4. CASE f[x] > f[i] \/ (f[x] = f[i] /\ x < i)
      <4>1. First(T, x)
        <5> SUFFICES ASSUME NEW j \in T PROVE IF j < x THEN f[j] < f[x] ELSE f[j] <= f[x]
          OBVIOUS
        <5>1. CASE j = x
          BY <3>2, <5>1
        <5>2. CASE j # x
          <6>1. IF j < i THEN f[j] < f[i] ELSE f[j] <= f[i]
            BY <3>1, <5>2
          <6> QED
            BY <3>2, <3>4, <6>1
        <5> QED
          BY <5>1, <5>2
      <4> HIDE DEF First
      <4> QED
        BY <4>1
    <3> QED
      BY <3>2, <3>3, <3>4
  <2> QED
    BY <2>2, <2>3
<1>3. SUBSET S \subseteq P
  <2> HIDE DEF P
  <2> QED
    BY <1>1, <1>2, SubsetInduction
<1>4. PICK i \in S : First(S, i)
  <2> HIDE DEF First
  <2> QED
    BY <1>3
<1> QED
  BY <1>4

\* A tested finalist has figures, and numbers to compare it by.
LEMMA TestedFigures ==
  ASSUME request \in Requests, NEW t, TestedAs(t)
  PROVE  /\ t.test \in Figures /\ t.train \in Figures /\ t.penalty \in Int
         /\ t.test # NoOutcome /\ TestTrades(t) = t.test.trades /\ TestTrades(t) \in Int
         /\ Composite(t) \in Int /\ Preference(t) \in Int
<1> DEFINE n == request.folds
<1>1. /\ n \in Nat \ {0}
      /\ DOMAIN Periods("train") = 1..n /\ DOMAIN Periods("test") = 1..n
  BY PeriodsOf
<1>2. PICK o \in [1..n -> Outcomes], x \in [1..n -> Outcomes] :
        t = [params |-> t.params, train |-> Aggregate(o), test |-> Aggregate(x),
             penalty |-> FoldPenalty(x)]
  BY <1>1 DEF TestedAs
<1>3. t.train = Aggregate(o) /\ t.test = Aggregate(x) /\ t.penalty = FoldPenalty(x)
  BY <1>2
<1>4. t.test \in Figures /\ t.train \in Figures
  BY <1>1, <1>3, AggregateIs
<1>5. t.penalty \in Int
  <2>1. Len(x) = n
    BY <1>1, AggregateIs
  <2>2. ASSUME n >= 2 PROVE x[1].score \in Int /\ x[2].score \in Int
    <3>1. x[1] \in Figures /\ x[2] \in Figures
      BY <1>1, <2>2, SweepAssumption
    <3> QED
      BY <3>1 DEF Figures
  <2> QED
    BY <1>1, <1>3, <2>1, <2>2 DEF FoldPenalty
<1>6. /\ t.test # NoOutcome
      /\ t.test.score \in Int /\ t.test.ret \in Int /\ t.test.trades \in Nat
      /\ t.test.up \in Nat /\ t.test.months \in Nat
  BY <1>4, ScoringAssumption DEF Figures
<1>7. Stability(t.test) \in Int
  <2>1. \A a \in Nat, b \in Nat \ {0} : (500 * a) \div b \in Int
    OBVIOUS
  <2> QED
    BY <1>6, <2>1 DEF Stability
<1>8. Clamp(t.test.ret, -10, 10) \in Int
  BY <1>6 DEF Clamp
<1>9. Composite(t) \in Int
  <2> DEFINE e == 12 * t.test.score + Stability(t.test) + 30 * Clamp(t.test.ret, -10, 10)
                  - t.penalty
  <2>1. e \in Int
    <3>1. \A a, b, c, d \in Int : 12 * a + b + 30 * c - d \in Int
      OBVIOUS
    <3>2. t.test.score \in Int
      BY <1>6
    <3> QED
      BY <1>5, <1>7, <1>8, <3>1, <3>2
  <2>2. Rejected \in Int
    BY DEF Rejected
  <2>3. Composite(t) = e \/ Composite(t) = Rejected
    BY DEF Composite
  <2> HIDE DEF e
  <2> QED
    BY <2>1, <2>2, <2>3
<1>10. Preference(t) \in Int
  BY <1>9 DEF Preference, Rejected
<1> QED
  BY <1>4, <1>5, <1>6, <1>9, <1>10 DEF TestTrades

\* What is chosen is a finalist whose test and training pass the gates.
LEMMA BestIsEligible ==
  ASSUME request \in Requests, IsSequence(finalists),
         \A i \in DOMAIN finalists : TestedAs(finalists[i]),
         SelectBest(finalists) # NoTrial
  PROVE  \E i \in DOMAIN finalists : /\ SelectBest(finalists) = finalists[i]
                                     /\ Composite(finalists[i]) > Rejected
<1> DEFINE eligible == {i \in DOMAIN finalists : Composite(finalists[i]) > Rejected}
           front == {i \in eligible : InFront(finalists, finalists[i])}
           S == IF front = {} THEN eligible ELSE front
           key == [i \in S |-> Preference(finalists[i])]
           Best(i) == \A j \in S : IF j < i THEN Preference(finalists[j]) < Preference(finalists[i])
                                   ELSE Preference(finalists[j]) <= Preference(finalists[i])
<1>1. eligible # {} /\ SelectBest(finalists) = FirstMost(finalists, S, Preference)
  BY DEF SelectBest
<1>2. SelectBest(finalists) = finalists[CHOOSE i \in S : Best(i)]
  BY <1>1 DEF FirstMost
<1>3. S # {} /\ S \subseteq eligible
  BY <1>1
<1>4. IsFiniteSet(DOMAIN finalists) /\ DOMAIN finalists \subseteq Nat
  <2>1. Len(finalists) \in Nat /\ DOMAIN finalists = 1..Len(finalists)
    BY SequenceFacts
  <2>2. IsFiniteSet(1..Len(finalists)) /\ 1..Len(finalists) \subseteq Nat
    BY <2>1, FS_Interval
  <2> QED
    BY <2>1, <2>2
<1>5. IsFiniteSet(S) /\ S \in SUBSET Nat
  <2>1. S \in SUBSET DOMAIN finalists
    OBVIOUS
  <2> HIDE DEF S
  <2> QED
    BY <1>4, <2>1, FS_Subset
<1>6. key \in [S -> Int]
  <2>1. \A i \in S : Preference(finalists[i]) \in Int
    BY TestedFigures
  <2> HIDE DEF S
  <2> QED
    BY <2>1
<1> HIDE DEF S
<1>7. PICK i \in S : \A j \in S : IF j < i THEN key[j] < key[i] ELSE key[j] <= key[i]
  <2> HIDE DEF key
  <2> QED
    BY <1>3, <1>5, <1>6, FirstLargest
<1>8. Best(i)
  BY <1>7
<1> HIDE DEF Best
<1>9. (CHOOSE k \in S : Best(k)) \in S
  BY <1>8
<1> QED
  BY <1>2, <1>3, <1>9

\* The fallback is a finalist, and none has more test trades.
LEMMA FallbackIs ==
  ASSUME request \in Requests, IsSequence(finalists), finalists # <<>>,
         \A i \in DOMAIN finalists : TestedAs(finalists[i])
  PROVE  \E i \in DOMAIN finalists :
           /\ Fallback(finalists) = finalists[i]
           /\ \A j \in DOMAIN finalists : TestTrades(finalists[j]) <= TestTrades(finalists[i])
<1> DEFINE S == DOMAIN finalists
           key == [i \in S |-> TestTrades(finalists[i])]
           Best(i) == \A j \in S : IF j < i THEN TestTrades(finalists[j]) < TestTrades(finalists[i])
                                   ELSE TestTrades(finalists[j]) <= TestTrades(finalists[i])
<1>1. Fallback(finalists) = finalists[CHOOSE i \in S : Best(i)]
  BY DEF Fallback, FirstMost
<1>2. /\ Len(finalists) \in Nat /\ S = 1..Len(finalists)
      /\ finalists = [i \in 1..Len(finalists) |-> finalists[i]]
  BY SequenceFacts DEF IsSequence
<1>3. S # {}
  <2> SUFFICES ASSUME S = {} PROVE FALSE
    OBVIOUS
  <2>1. Len(finalists) = 0
    BY <1>2
  <2> QED
    BY <1>2, <2>1
<1>4. IsFiniteSet(S) /\ S \in SUBSET Nat
  <2> DEFINE n == Len(finalists)
  <2>15. n \in Nat
    BY <1>2
  <2> HIDE DEF n
  <2>16. IsFiniteSet(1..n) /\ 1..n \subseteq Nat
    BY <2>15, FS_Interval
  <2>1. IsFiniteSet(1..Len(finalists)) /\ 1..Len(finalists) \subseteq Nat
    BY <2>16 DEF n
  <2> QED
    BY <1>2, <2>1
<1>5. \A i \in S : TestTrades(finalists[i]) \in Int
  BY TestedFigures
<1>6. key \in [S -> Int]
  BY <1>5
<1> HIDE DEF S
<1>7. PICK i \in S : \A j \in S : IF j < i THEN key[j] < key[i] ELSE key[j] <= key[i]
  <2> HIDE DEF key
  <2> QED
    BY <1>3, <1>4, <1>6, FirstLargest
<1>8. Best(i)
  BY <1>7
<1>9. (CHOOSE k \in S : Best(k)) \in S /\ Best(CHOOSE k \in S : Best(k))
  <2> HIDE DEF Best
  <2> QED
    BY <1>8
<1> DEFINE c == CHOOSE k \in S : Best(k)
<1>10. c \in S /\ Fallback(finalists) = finalists[c]
  BY <1>1, <1>9
<1>11. Best(c)
  BY <1>9
<1> HIDE DEF c
<1>12. \A j \in S : TestTrades(finalists[j]) <= TestTrades(finalists[c])
  <2> SUFFICES ASSUME NEW j \in S PROVE TestTrades(finalists[j]) <= TestTrades(finalists[c])
    OBVIOUS
  <2>1. IF j < c THEN TestTrades(finalists[j]) < TestTrades(finalists[c])
        ELSE TestTrades(finalists[j]) <= TestTrades(finalists[c])
    BY <1>11
  <2>2. TestTrades(finalists[j]) \in Int /\ TestTrades(finalists[c]) \in Int
    BY <1>5, <1>10
  <2> QED
    BY <2>1, <2>2
<1> QED
  BY <1>10, <1>12 DEF S

\* A finalist's test trades are those of the backtests that are there.
LEMMA TestTradesAreThere ==
  ASSUME request \in Requests, NEW t, TestedAs(t)
  PROVE  TestTrades(t) = TradesOf(t.params, "test")
<1>1. PICK o, x : /\ Shown(t.params, "train", o) /\ Shown(t.params, "test", x)
                  /\ t = [params |-> t.params, train |-> Aggregate(o), test |-> Aggregate(x),
                          penalty |-> FoldPenalty(x)]
  BY DEF TestedAs
<1>2. t.test = Aggregate(x)
  BY <1>1
<1>3. TradesOf(t.params, "test") = Aggregate(x).trades
  BY <1>1, ShownAddsUp
<1>4. TestTrades(t) = t.test.trades
  BY TestedFigures
<1> QED
  BY <1>2, <1>3, <1>4

\* What passes the gates has earned it in its own backtests (composite_score).
LEMMA EligibleHasEarned ==
  ASSUME request \in Requests, NEW t, TestedAs(t), Composite(t) > Rejected
  PROVE  /\ TradesOf(t.params, "test") >= MinTrades
         /\ ReturnOf(t.params, "test") >= MinReturn * Cardinality(Of(t.params, "test"))
         /\ ReturnOf(t.params, "train") >= MinReturn * Cardinality(Of(t.params, "train"))
<1>1. PICK o, x : /\ Shown(t.params, "train", o) /\ Shown(t.params, "test", x)
                  /\ t = [params |-> t.params, train |-> Aggregate(o), test |-> Aggregate(x),
                          penalty |-> FoldPenalty(x)]
  BY DEF TestedAs
<1>2. t.test = Aggregate(x) /\ t.train = Aggregate(o)
  BY <1>1
<1>3. Gated(t.test) /\ ~(t.train.ret < MinReturn)
  <2>1. ~(Rejected > Rejected)
    BY DEF Rejected
  <2>2. ~(t.test = NoOutcome \/ ~Gated(t.test) \/ t.train.ret < MinReturn)
    BY <2>1 DEF Composite
  <2> QED
    BY <2>2
<1>4. MinReturn \in Int /\ t.train.ret \in Int
  BY TestedFigures, ScoringAssumption DEF Figures
<1>5. t.test.trades >= MinTrades /\ t.test.ret >= MinReturn /\ t.train.ret >= MinReturn
  BY <1>3, <1>4 DEF Gated
<1>6. /\ TradesOf(t.params, "test") = Aggregate(x).trades
      /\ Aggregate(x).ret >= MinReturn =>
           ReturnOf(t.params, "test") >= MinReturn * Cardinality(Of(t.params, "test"))
  BY <1>1, <1>4, ShownAddsUp
<1>7. Aggregate(o).ret >= MinReturn =>
        ReturnOf(t.params, "train") >= MinReturn * Cardinality(Of(t.params, "train"))
  BY <1>1, <1>4, ShownAddsUp
<1> QED
  BY <1>2, <1>5, <1>6, <1>7

\* A completed sweep stands by what its own backtests earned.
LEMMA SettledIsEarned ==
  ASSUME SweepInv
  PROVE  ChoiceIsEarned
<1> SUFFICES ASSUME sweep.status = "completed"
             PROVE  /\ verdict.valid =>
                         LET p == verdict.best.params
                         IN  /\ TradesOf(p, "test") >= MinTrades
                             /\ ReturnOf(p, "test") >= MinReturn * Cardinality(Of(p, "test"))
                             /\ ReturnOf(p, "train") >= MinReturn * Cardinality(Of(p, "train"))
                             /\ request.holdout > 0 =>
                                  \E b \in Of(p, "holdout") : PassesHoldout(b.outcome)
                    /\ ~verdict.valid /\ finalists # <<>> =>
                         /\ verdict.fallback \in ToSet(finalists)
                         /\ \A t \in ToSet(finalists) :
                              TradesOf(t.params, "test") <= TradesOf(verdict.fallback.params, "test")
  BY DEF ChoiceIsEarned
<1>1. Settled /\ request \in Requests /\ IsSequence(finalists)
  BY DEF SweepInv, VerdictInv, FinalistsInv
<1>2. \A i \in DOMAIN finalists : TestedAs(finalists[i])
  <2>1. DOMAIN finalists = 1..Len(finalists) /\ tested = Len(finalists) /\ Len(finalists) \in Nat
    BY <1>1, SequenceFacts DEF Settled
  <2> QED
    BY <2>1 DEF SweepInv, FinalistsInv
<1>3. ASSUME verdict.valid
      PROVE  LET p == verdict.best.params
             IN  /\ TradesOf(p, "test") >= MinTrades
                 /\ ReturnOf(p, "test") >= MinReturn * Cardinality(Of(p, "test"))
                 /\ ReturnOf(p, "train") >= MinReturn * Cardinality(Of(p, "train"))
                 /\ request.holdout > 0 =>
                      \E b \in Of(p, "holdout") : PassesHoldout(b.outcome)
  <2>1. /\ verdict = Chosen
        /\ request.holdout > 0 =>
             \E o \in [DOMAIN Periods("holdout") -> Outcomes] :
               Shown(verdict.best.params, "holdout", o) /\ PassesHoldout(o[1])
    BY <1>1, <1>3 DEF Settled
  <2>2. SelectBest(finalists) # NoTrial /\ verdict.best = SelectBest(finalists)
    BY <1>3, <2>1 DEF Chosen
  <2>3. PICK i \in DOMAIN finalists : /\ verdict.best = finalists[i]
                                      /\ Composite(finalists[i]) > Rejected
    BY <1>1, <1>2, <2>2, BestIsEligible
  <2> DEFINE t == finalists[i]
             p == verdict.best.params
  <2>4. TestedAs(t) /\ Composite(t) > Rejected /\ t.params = p
    BY <1>2, <2>3
  <2> HIDE DEF t
  <2>5. /\ TradesOf(p, "test") >= MinTrades
        /\ ReturnOf(p, "test") >= MinReturn * Cardinality(Of(p, "test"))
        /\ ReturnOf(p, "train") >= MinReturn * Cardinality(Of(p, "train"))
    BY <1>1, <2>4, EligibleHasEarned
  <2>6. ASSUME request.holdout > 0
        PROVE  \E b \in Of(p, "holdout") : PassesHoldout(b.outcome)
    <3>1. PICK o \in [DOMAIN Periods("holdout") -> Outcomes] :
            Shown(p, "holdout", o) /\ PassesHoldout(o[1])
      BY <2>1, <2>6
    <3>2. DOMAIN o = 1..1
      BY <1>1, PeriodsOf
    <3> DEFINE b == [params |-> p, segment |-> "holdout", fold |-> 1,
                     period |-> Periods("holdout")[1], outcome |-> o[1]]
    <3>3. b \in Of(p, "holdout")
      BY <3>1, <3>2 DEF Shown, Backtests
    <3>4. b.outcome = o[1]
      OBVIOUS
    <3> HIDE DEF b
    <3> QED
      BY <3>1, <3>3, <3>4
  <2> QED
    BY <2>5, <2>6
<1>4. ASSUME ~verdict.valid, finalists # <<>>
      PROVE  /\ verdict.fallback \in ToSet(finalists)
             /\ \A t \in ToSet(finalists) :
                  TradesOf(t.params, "test") <= TradesOf(verdict.fallback.params, "test")
  <2>1. verdict.fallback = Fallback(finalists)
    <3>1. CASE verdict = Chosen
      BY <1>4, <3>1 DEF Chosen
    <3>2. CASE verdict # Chosen
      BY <1>1, <3>2 DEF Settled
    <3> QED
      BY <3>1, <3>2
  <2>2. PICK i \in DOMAIN finalists :
          /\ verdict.fallback = finalists[i]
          /\ \A j \in DOMAIN finalists : TestTrades(finalists[j]) <= TestTrades(finalists[i])
    BY <1>1, <1>2, <1>4, <2>1, FallbackIs
  <2>3. ASSUME NEW t \in ToSet(finalists)
        PROVE  TradesOf(t.params, "test") <= TradesOf(verdict.fallback.params, "test")
    <3>1. PICK j \in DOMAIN finalists : t = finalists[j]
      BY DEF ToSet
    <3>2. TestTrades(finalists[j]) = TradesOf(t.params, "test")
      BY <1>1, <1>2, <3>1, TestTradesAreThere
    <3>3. TestTrades(finalists[i]) = TradesOf(verdict.fallback.params, "test")
      BY <1>1, <1>2, <2>2, TestTradesAreThere
    <3> QED
      BY <2>2, <3>2, <3>3
  <2>4. verdict.fallback \in ToSet(finalists)
    BY <2>2 DEF ToSet
  <2> QED
    BY <2>3, <2>4
<1> QED
  BY <1>3, <1>4

-----------------------------------------------------------------------------
(* What a step leaves as it was.                                           *)

\* What was trained and tested stays so.
Carried ==
  /\ request' = request /\ MeasuredInv'
  /\ \A q, s, o : Shown(q, s, o) => Shown(q, s, o)'
  /\ \A t : Trained(t) => Trained(t)'
  /\ \A t : TestedAs(t) => TestedAs(t)'

\* Trials keep their figures as long as no backtest is lost.
LEMMA FiguresStay ==
  ASSUME UNCHANGED request, MeasuredInv', \A q, s, o : Shown(q, s, o) => Shown(q, s, o)'
  PROVE  Carried
<1>1. \A s : Periods(s)' = Periods(s)
  BY DEF Periods, Folds, Holdout, Whole
<1>2. ASSUME NEW t, Trained(t) PROVE Trained(t)'
  <2>1. PICK o \in [DOMAIN Periods("train") -> Outcomes] :
          Shown(t.params, "train", o) /\ t = Trial(t.params, o)
    BY <1>2 DEF Trained
  <2>2. Shown(t.params, "train", o)'
    BY <2>1
  <2>3. o \in [DOMAIN Periods("train")' -> Outcomes]
    BY <1>1
  <2> QED
    BY <2>1, <2>2, <2>3 DEF Trained
<1>3. ASSUME NEW t, TestedAs(t) PROVE TestedAs(t)'
  <2>1. PICK o \in [DOMAIN Periods("train") -> Outcomes], x \in [DOMAIN Periods("test") -> Outcomes] :
          /\ Shown(t.params, "train", o) /\ Shown(t.params, "test", x)
          /\ t = [params |-> t.params, train |-> Aggregate(o), test |-> Aggregate(x),
                  penalty |-> FoldPenalty(x)]
    BY <1>3 DEF TestedAs
  <2>2. Shown(t.params, "train", o)' /\ Shown(t.params, "test", x)'
    BY <2>1
  <2>3. /\ o \in [DOMAIN Periods("train")' -> Outcomes]
        /\ x \in [DOMAIN Periods("test")' -> Outcomes]
    BY <1>1
  <2> QED
    BY <2>1, <2>2, <2>3 DEF TestedAs
<1> QED
  BY <1>2, <1>3 DEF Carried

\* A step that measures nothing loses nothing.
LEMMA Unmeasured ==
  ASSUME MeasuredInv, UNCHANGED <<request, measured>>
  PROVE  Carried
<1>1. \A s : Periods(s)' = Periods(s)
  BY DEF Periods, Folds, Holdout, Whole
<1>2. \A q, s, o : Shown(q, s, o) => Shown(q, s, o)'
  BY <1>1 DEF Shown, Of, Backtests
<1>3. MeasuredInv'
  BY <1>1, <1>2 DEF MeasuredInv
<1> QED
  BY <1>2, <1>3, FiguresStay

\* One that measures loses nothing either, and shows what it measured.
LEMMA Measured ==
  ASSUME MeasuredInv, request \in Requests, UNCHANGED request,
         NEW p, NEW segment \in Segments, NEW outcomes, Measure(p, segment, outcomes)
  PROVE  /\ Carried /\ Shown(p, segment, outcomes)'
         /\ outcomes \in [DOMAIN Periods(segment)' -> Outcomes]
<1>1. /\ MeasuredInv' /\ Shown(p, segment, outcomes)'
      /\ \A q, s, o : Shown(q, s, o) => Shown(q, s, o)'
  BY MeasureShows
<1>2. Periods(segment)' = Periods(segment)
  BY DEF Periods, Folds, Holdout, Whole
<1> QED
  BY <1>1, <1>2, FiguresStay DEF Measure

\* The finalists stay as they are.
LEMMA FinalistsStay ==
  ASSUME FinalistsInv, Carried, UNCHANGED <<finalists, tested>>,
         phase' \in {"train", "failing", "cancelling", "refine"} =>
           phase \in {"train", "failing", "cancelling", "refine"}
  PROVE  FinalistsInv'
<1>1. IsSequence(finalists') /\ tested' \in 0..Len(finalists')
  BY DEF FinalistsInv
<1>2. ASSUME NEW i \in DOMAIN finalists'
      PROVE  IF i <= tested' THEN TestedAs(finalists[i])' ELSE Trained(finalists[i])'
  <2>1. IF i <= tested THEN TestedAs(finalists[i]) ELSE Trained(finalists[i])
    BY DEF FinalistsInv
  <2> QED
    BY <2>1 DEF Carried
<1> QED
  BY <1>1, <1>2 DEF FinalistsInv

\* So does what a completed sweep stands by.
LEMMA SettledStays ==
  ASSUME Settled, Carried, UNCHANGED <<finalists, tested, verdict>>
  PROVE  Settled'
<1>1. Chosen' = Chosen
  BY DEF Chosen
<1>2. Periods("holdout")' = Periods("holdout")
  BY DEF Carried, Periods, Folds, Holdout, Whole
<1>3. ASSUME NEW p, NEW o \in [DOMAIN Periods("holdout") -> Outcomes], Shown(p, "holdout", o)
      PROVE  o \in [DOMAIN Periods("holdout")' -> Outcomes] /\ Shown(p, "holdout", o)'
  BY <1>2, <1>3 DEF Carried
<1> QED
  BY <1>1, <1>3 DEF Settled, Carried

Shape == sweep = [status |-> sweep.status, cancel |-> sweep.cancel, live |-> sweep.live]

\* A trial reported changes the record's live trials only, an end its status.
LEMMA RecordIs ==
  ASSUME Shape
  PROVE  /\ \A t : sweep' = Live(t) => Shape' /\ sweep'.status = sweep.status
         /\ \A st : EndAs(st) => Shape' /\ sweep'.status = st /\ phase' = "ended"
         /\ sweep' = [sweep EXCEPT !.cancel = TRUE] => Shape' /\ sweep'.status = sweep.status
         /\ UNCHANGED sweep => Shape' /\ sweep'.status = sweep.status
<1>1. ASSUME NEW t, sweep' = Live(t) PROVE Shape' /\ sweep'.status = sweep.status
  <2>1. sweep' = [status |-> sweep.status, cancel |-> sweep.cancel, live |-> Append(sweep.live, t)]
    BY <1>1 DEF Shape, Live
  <2> QED
    BY <2>1 DEF Shape
<1>2. ASSUME NEW st, EndAs(st) PROVE Shape' /\ sweep'.status = st /\ phase' = "ended"
  <2>1. sweep' = [status |-> st, cancel |-> sweep.cancel, live |-> sweep.live]
    BY <1>2 DEF Shape, EndAs
  <2> QED
    BY <1>2, <2>1 DEF Shape, EndAs
<1>3. ASSUME sweep' = [sweep EXCEPT !.cancel = TRUE] PROVE Shape' /\ sweep'.status = sweep.status
  <2>1. sweep' = [status |-> sweep.status, cancel |-> TRUE, live |-> sweep.live]
    BY <1>3 DEF Shape
  <2> QED
    BY <2>1 DEF Shape
<1> QED
  BY <1>1, <1>2, <1>3 DEF Shape

\* The verdict stays as it is, and no sweep completes.
LEMMA VerdictStays ==
  ASSUME VerdictInv, Carried, UNCHANGED <<finalists, tested, verdict>>,
         Shape', sweep'.status = "completed" => sweep.status = "completed",
         phase = "ended" => phase' = "ended", phase' = "holdout" => phase = "holdout"
  PROVE  VerdictInv'
<1>1. phase' = "holdout" =>
        (verdict = Chosen /\ verdict.best # NoTrial /\ tested = Len(finalists))'
  <2>1. Chosen' = Chosen
    BY DEF Chosen
  <2> QED
    BY <2>1 DEF VerdictInv
<1>2. sweep'.status = "completed" => phase' = "ended" /\ Settled'
  BY SettledStays DEF VerdictInv
<1> QED
  BY <1>1, <1>2 DEF VerdictInv, Shape

-----------------------------------------------------------------------------
(* Training.                                                               *)

\* A proposed trial waits, the others are done (run_optuna_trials).
LEMMA ProposeInv ==
  ASSUME SweepInv, NEW p, Propose(p)
  PROVE  SweepInv'
<1>1. /\ phase = "train" /\ phase' = "train" /\ UNCHANGED <<request, measured>>
      /\ UNCHANGED <<finalists, tested, verdict, sweep>>
      /\ task' = Append(task, "waiting") /\ results' = Append(results, NoTrial)
  BY DEF Propose
<1>2. Carried
  BY <1>1, Unmeasured DEF SweepInv
<1>3. TasksInv' /\ DOMAIN task' = 1..(Len(task) + 1)
  <2>1. IsSequence(task) /\ Len(task) \in Nat /\ DOMAIN task = 1..Len(task)
    BY SequenceFacts DEF SweepInv, TasksInv
  <2>2. /\ IsSequence(task') /\ Len(task') = Len(task) + 1
        /\ \A i \in 1..(Len(task) + 1) :
             task'[i] = IF i <= Len(task) THEN task[i] ELSE "waiting"
    BY <1>1, <2>1, SequenceFacts
  <2>3. DOMAIN task' = 1..(Len(task) + 1)
    BY <2>2, SequenceFacts
  <2>4. \A i \in DOMAIN task' : task'[i] \in {"waiting", "running", "done"}
    <3>1. \A i \in DOMAIN task : task[i] \in {"waiting", "running", "done"}
      BY <1>1 DEF SweepInv, TasksInv
    <3> QED
      BY <2>1, <2>2, <2>3, <3>1
  <2> QED
    BY <1>1, <2>2, <2>3, <2>4 DEF TasksInv
<1>4. ResultsInv'
  <2>1. /\ IsSequence(results) /\ DOMAIN results = DOMAIN task /\ Len(results) \in Nat
        /\ DOMAIN results = 1..Len(results) /\ Len(task) \in Nat /\ DOMAIN task = 1..Len(task)
    BY <1>1, SequenceFacts DEF SweepInv, ResultsInv, TasksInv
  <2>2. Len(results) = Len(task)
    BY <2>1, SameLength DEF SweepInv, TasksInv
  <2>3. /\ IsSequence(results') /\ Len(results') = Len(results) + 1
        /\ \A i \in 1..(Len(results) + 1) :
             results'[i] = IF i <= Len(results) THEN results[i] ELSE NoTrial
    BY <1>1, <2>1, SequenceFacts
  <2>4. DOMAIN results' = 1..(Len(results) + 1)
    BY <2>3, SequenceFacts
  <2>5. \A i \in 1..(Len(task) + 1) : task'[i] = IF i <= Len(task) THEN task[i] ELSE "waiting"
    BY <1>1, SequenceFacts DEF SweepInv, TasksInv
  <2>6. ASSUME NEW i \in DOMAIN task', task'[i] = "done" PROVE Trained(results[i])'
    <3>1. i \in DOMAIN task /\ task[i] = "done" /\ results'[i] = results[i]
      BY <1>3, <2>1, <2>2, <2>3, <2>5, <2>6
    <3>2. Trained(results[i])
      BY <1>1, <3>1 DEF SweepInv, ResultsInv
    <3>3. \A t : t = results[i] => Trained(t)'
      BY <1>2, <3>2 DEF Carried
    <3> QED
      BY <3>1, <3>3
  <2> QED
    BY <1>3, <2>2, <2>3, <2>4, <2>6 DEF ResultsInv
<1>5. FinalistsInv'
  BY <1>1, <1>2, FinalistsStay DEF SweepInv
<1>6. VerdictInv'
  <2>1. Shape' /\ sweep'.status = sweep.status
    BY <1>1, RecordIs DEF SweepInv, VerdictInv, Shape
  <2> QED
    BY <1>1, <1>2, <2>1, VerdictStays DEF SweepInv
<1> QED
  BY <1>1, <1>2, <1>3, <1>4, <1>5, <1>6 DEF SweepInv, Carried

\* A trial the semaphore lets in.
LEMMA StartTrialInv ==
  ASSUME SweepInv, NEW i \in DOMAIN task, StartTrial(i)
  PROVE  SweepInv'
<1>1. /\ task[i] = "waiting" /\ task' = [task EXCEPT ![i] = "running"]
      /\ UNCHANGED <<request, measured, phase, results, finalists, tested, verdict, sweep>>
  BY DEF StartTrial
<1>2. Carried
  BY <1>1, Unmeasured DEF SweepInv
<1>3. phase \in {"train", "failing", "cancelling"}
  BY <1>1 DEF SweepInv, TasksInv
<1>4. /\ IsSequence(task') /\ DOMAIN task' = DOMAIN task /\ task'[i] = "running"
      /\ \A j \in DOMAIN task : j # i => task'[j] = task[j]
  <2>1. IsSequence(task)
    BY DEF SweepInv, TasksInv
  <2> QED
    BY <1>1, <2>1, ReplacedIs DEF Replaced
<1>5. TasksInv'
  BY <1>1, <1>3, <1>4 DEF SweepInv, TasksInv
<1>6. ResultsInv'
  <2>1. ASSUME phase = "train", NEW j \in DOMAIN task', task'[j] = "done"
        PROVE  Trained(results[j])'
    <3>1. j \in DOMAIN task /\ task[j] = "done"
      BY <1>4, <2>1
    <3>2. \A t : t = results[j] => Trained(t)'
      BY <1>2, <2>1, <3>1 DEF Carried, SweepInv, ResultsInv
    <3> QED
      BY <1>1, <3>2
  <2> QED
    BY <1>1, <1>4, <2>1 DEF SweepInv, ResultsInv
<1>7. FinalistsInv'
  BY <1>1, <1>2, FinalistsStay DEF SweepInv
<1>8. VerdictInv'
  <2>1. Shape' /\ sweep'.status = sweep.status
    BY <1>1, RecordIs DEF SweepInv, VerdictInv, Shape
  <2> QED
    BY <1>1, <1>2, <2>1, VerdictStays DEF SweepInv
<1> QED
  BY <1>1, <1>2, <1>5, <1>6, <1>7, <1>8 DEF SweepInv, Carried

\* A trained trial has its result in its place.
LEMMA FinishTrialInv ==
  ASSUME SweepInv, NEW i \in DOMAIN task, NEW outcomes, FinishTrial(i, outcomes)
  PROVE  SweepInv'
<1> DEFINE p == trials[i]
           u == Trial(p, outcomes)
<1>1. /\ task[i] = "running" /\ task' = [task EXCEPT ![i] = "done"]
      /\ results' = [results EXCEPT ![i] = u] /\ sweep' = Live(u)
      /\ Measure(p, "train", outcomes)
      /\ UNCHANGED <<request, phase, finalists, tested, verdict>>
  BY DEF FinishTrial, Place
<1>2. PICK q : q = p
  OBVIOUS
<1>3. /\ Carried /\ Shown(q, "train", outcomes)'
      /\ outcomes \in [DOMAIN Periods("train")' -> Outcomes]
  <2>1. Measure(q, "train", outcomes) /\ "train" \in Segments
    BY <1>1, <1>2 DEF Segments
  <2>2. MeasuredInv /\ request \in Requests /\ UNCHANGED request
    BY <1>1 DEF SweepInv
  <2> QED
    BY <2>1, <2>2, Measured
<1>4. phase \in {"train", "failing", "cancelling"}
  BY <1>1 DEF SweepInv, TasksInv
<1>5. /\ IsSequence(task') /\ DOMAIN task' = DOMAIN task /\ task'[i] = "done"
      /\ \A j \in DOMAIN task : j # i => task'[j] = task[j]
  <2>1. IsSequence(task)
    BY DEF SweepInv, TasksInv
  <2> QED
    BY <1>1, <2>1, ReplacedIs DEF Replaced
<1>6. TasksInv'
  BY <1>1, <1>4, <1>5 DEF SweepInv, TasksInv
<1>7. ASSUME NEW t, t = Trial(q, outcomes) PROVE Trained(t)'
  <2>1. t.params = q
    BY <1>7 DEF Trial
  <2> QED
    BY <1>3, <1>7, <2>1 DEF Trained
<1>8. ResultsInv'
  <2> SUFFICES ASSUME phase = "train"
               PROVE  /\ IsSequence(results') /\ DOMAIN results' = DOMAIN task'
                      /\ \A j \in DOMAIN task' : task'[j] = "done" => Trained(results[j])'
    BY <1>1 DEF ResultsInv
  <2>1. IsSequence(results) /\ DOMAIN results = DOMAIN task
    BY DEF SweepInv, ResultsInv
  <2>2. /\ IsSequence(results') /\ DOMAIN results' = DOMAIN results /\ results'[i] = u
        /\ \A j \in DOMAIN results : j # i => results'[j] = results[j]
    <3> HIDE DEF u
    <3> QED
      BY <1>1, <2>1, ReplacedIs DEF Replaced
  <2>3. ASSUME NEW j \in DOMAIN task', task'[j] = "done" PROVE Trained(results[j])'
    <3>1. CASE j = i
      <4>1. results'[j] = Trial(q, outcomes)
        BY <1>2, <2>2, <3>1
      <4> QED
        BY <1>7, <4>1
    <3>2. CASE j # i
      <4>1. j \in DOMAIN task /\ task[j] = "done" /\ results'[j] = results[j]
        BY <1>5, <2>1, <2>2, <2>3, <3>2
      <4>2. \A t : t = results[j] => Trained(t)'
        BY <1>3, <4>1 DEF Carried, SweepInv, ResultsInv
      <4> QED
        BY <4>1, <4>2
    <3> QED
      BY <3>1, <3>2
  <2> QED
    BY <1>5, <2>1, <2>2, <2>3
<1>9. FinalistsInv'
  BY <1>1, <1>3, FinalistsStay DEF SweepInv
<1>10. VerdictInv'
  <2>1. Shape' /\ sweep'.status = sweep.status
    <3>1. Shape
      BY DEF SweepInv, VerdictInv, Shape
    <3> HIDE DEF u
    <3> QED
      BY <1>1, <3>1, RecordIs
  <2> QED
    BY <1>1, <1>3, <2>1, VerdictStays DEF SweepInv
<1> QED
  BY <1>1, <1>3, <1>6, <1>8, <1>9, <1>10 DEF SweepInv, Carried

\* A trial that raises, and what then ends the sweep.
LEMMA RaiseInInv ==
  ASSUME SweepInv, NEW i \in DOMAIN task, RaiseIn(i)
  PROVE  SweepInv'
<1>1. /\ phase \in {"train", "failing", "cancelling"} /\ phase' \in {"failing", "cancelling"}
      /\ task' = [task EXCEPT ![i] = "cancelled"]
      /\ UNCHANGED <<request, measured, finalists, tested, verdict, sweep>>
  BY DEF RaiseIn
<1>2. Carried
  BY <1>1, Unmeasured DEF SweepInv
<1>3. TasksInv'
  <2>1. IsSequence(task)
    BY DEF SweepInv, TasksInv
  <2>2. /\ IsSequence(task') /\ DOMAIN task' = DOMAIN task /\ task'[i] = "cancelled"
        /\ \A j \in DOMAIN task : j # i => task'[j] = task[j]
    BY <1>1, <2>1, ReplacedIs DEF Replaced
  <2> QED
    BY <1>1, <2>2 DEF SweepInv, TasksInv
<1>4. FinalistsInv'
  BY <1>1, <1>2, FinalistsStay DEF SweepInv
<1>5. VerdictInv'
  <2>1. Shape' /\ sweep'.status = sweep.status
    BY <1>1, RecordIs DEF SweepInv, VerdictInv, Shape
  <2> QED
    BY <1>1, <1>2, <2>1, VerdictStays DEF SweepInv
<1>6. ResultsInv'
  BY <1>1 DEF ResultsInv
<1> QED
  BY <1>1, <1>2, <1>3, <1>4, <1>5, <1>6 DEF SweepInv, Carried

\* The tasks are cancelled and awaited before the sweep ends.
LEMMA CancelTasksInv ==
  ASSUME SweepInv, CancelTasks
  PROVE  SweepInv'
<1>1. /\ phase \in {"failing", "cancelling"} /\ phase' = "ended"
      /\ task' = [i \in DOMAIN task |-> IF task[i] = "done" THEN "done" ELSE "cancelled"]
      /\ UNCHANGED <<request, measured, finalists, tested, verdict>>
      /\ EndAs("cancelled") \/ EndAs("failed")
  BY DEF CancelTasks, EndAs
<1>2. Carried
  BY <1>1, Unmeasured DEF SweepInv
<1>3. TasksInv'
  <2>1. Len(task) \in Nat /\ DOMAIN task = 1..Len(task)
    BY SequenceFacts DEF SweepInv, TasksInv
  <2>2. task' = [i \in 1..Len(task) |-> task'[i]]
    BY <1>1, <2>1
  <2>3. IsSequence(task')
    BY <2>1, <2>2, FunctionIsSequence
  <2> QED
    BY <1>1, <2>3 DEF TasksInv
<1>4. FinalistsInv'
  BY <1>1, <1>2, FinalistsStay DEF SweepInv
<1>5. VerdictInv'
  <2>1. Shape
    BY DEF SweepInv, VerdictInv, Shape
  <2>2. Shape' /\ sweep'.status # "completed"
    BY <1>1, <2>1, RecordIs
  <2> QED
    BY <1>1, <1>2, <2>2, VerdictStays DEF SweepInv
<1>6. ResultsInv'
  BY <1>1 DEF ResultsInv
<1> QED
  BY <1>1, <1>2, <1>3, <1>4, <1>5, <1>6 DEF SweepInv, Carried

\* A trained trial has a score.
LEMMA TrainedFigures ==
  ASSUME request \in Requests, NEW t, Trained(t)
  PROVE  t.train.score \in Int
<1> DEFINE n == request.folds
<1>1. n \in Nat \ {0} /\ DOMAIN Periods("train") = 1..n
  BY PeriodsOf
<1>2. PICK o \in [1..n -> Outcomes] : t = Trial(t.params, o)
  BY <1>1 DEF Trained
<1> HIDE DEF n
<1>3. Aggregate(o) \in Figures
  BY <1>1, AggregateIs
<1>4. t.train = Aggregate(o)
  BY <1>2 DEF Trial
<1> QED
  BY <1>3, <1>4 DEF Figures

\* The best of trained trials are trained trials.
LEMMA BestAreTrained ==
  ASSUME request \in Requests, NEW s, IsSequence(s), \A i \in DOMAIN s : Trained(s[i]),
         NEW n \in Nat, NEW f, f = FirstOf(Ranked(s), n)
  PROVE  IsSequence(f) /\ \A i \in DOMAIN f : Trained(f[i])
<1>1. \A i \in DOMAIN s : s[i].train.score \in Int
  BY TrainedFigures
<1>2. PICK r : r = Ranked(s)
  OBVIOUS
<1>3. IsSequence(r) /\ \A k \in DOMAIN r : \E i \in DOMAIN s : r[k] = s[i]
  BY <1>1, <1>2, RankedIs
<1>4. IsSequence(f) /\ \A i \in DOMAIN f : i \in DOMAIN r /\ f[i] = r[i]
  BY <1>2, <1>3, FirstOfIs
<1> QED
  BY <1>3, <1>4

\* Finalists of which none is tested yet.
LEMMA FinalistsTrained ==
  ASSUME Carried, tested' = 0, IsSequence(finalists'),
         \A i \in DOMAIN finalists' : Trained(finalists'[i])
  PROVE  FinalistsInv'
<1>1. Len(finalists') \in Nat /\ DOMAIN finalists' = 1..Len(finalists')
  BY SequenceFacts
<1>2. ASSUME NEW i \in DOMAIN finalists'
      PROVE  IF i <= tested' THEN TestedAs(finalists[i])' ELSE Trained(finalists[i])'
  <2>1. ~(i <= tested')
    BY <1>1
  <2>2. \A t : t = finalists'[i] => Trained(t)'
    BY DEF Carried
  <2> QED
    BY <2>1, <2>2
<1> QED
  BY <1>1, <1>2 DEF FinalistsInv

\* The best trials become the finalists once all are trained.
LEMMA RankInv ==
  ASSUME SweepInv, Rank
  PROVE  SweepInv'
<1>1. /\ phase = "train" /\ phase' \in {"refine", "test"}
      /\ \A i \in DOMAIN task : task[i] = "done"
      /\ finalists' = FirstOf(Ranked(results), request.topK)
      /\ UNCHANGED <<request, task, measured, tested, verdict, sweep>>
  BY DEF Rank
<1>2. Carried
  BY <1>1, Unmeasured DEF SweepInv
<1>3. TasksInv'
  BY <1>1 DEF SweepInv, TasksInv
<1>4. ResultsInv'
  BY <1>1 DEF ResultsInv
<1>5. FinalistsInv'
  <2>1. /\ request \in Requests /\ IsSequence(results) /\ request.topK \in Nat
        /\ \A i \in DOMAIN results : Trained(results[i])
    BY <1>1, SweepAssumption DEF SweepInv, ResultsInv
  <2>2. IsSequence(finalists') /\ \A i \in DOMAIN finalists' : Trained(finalists'[i])
    BY <1>1, <2>1, BestAreTrained
  <2>3. tested' = 0
    BY <1>1 DEF SweepInv, FinalistsInv
  <2> QED
    BY <1>2, <2>2, <2>3, FinalistsTrained
<1>6. VerdictInv'
  <2>1. Shape' /\ sweep'.status # "completed" /\ phase' # "holdout"
    BY <1>1, RecordIs DEF SweepInv, VerdictInv, Shape
  <2> QED
    BY <2>1 DEF VerdictInv, Shape
<1> QED
  BY <1>1, <1>2, <1>3, <1>4, <1>5, <1>6 DEF SweepInv, Carried

-----------------------------------------------------------------------------
(* Refining, testing, choosing.                                            *)

\* Refining adds trained trials to the finalists.
LEMMA RefineOneInv ==
  ASSUME SweepInv, NEW outcomes, RefineOne(outcomes)
  PROVE  SweepInv'
<1> DEFINE u == Trial(Head(refining), outcomes)
<1>1. /\ phase = "refine" /\ Measure(Head(refining), "train", outcomes)
      /\ finalists' = Append(finalists, u) /\ sweep' = Live(u)
      /\ UNCHANGED <<request, phase, task, tested, verdict>>
  BY DEF RefineOne
<1>2. PICK q : q = Head(refining)
  OBVIOUS
<1>3. /\ Carried /\ Shown(q, "train", outcomes)'
      /\ outcomes \in [DOMAIN Periods("train")' -> Outcomes]
  <2>1. Measure(q, "train", outcomes) /\ "train" \in Segments
    BY <1>1, <1>2 DEF Segments
  <2>2. MeasuredInv /\ request \in Requests /\ UNCHANGED request
    BY <1>1 DEF SweepInv
  <2> QED
    BY <2>1, <2>2, Measured
<1>4. TasksInv'
  BY <1>1 DEF SweepInv, TasksInv
<1>5. ResultsInv'
  BY <1>1 DEF ResultsInv
<1>6. ASSUME NEW t, t = Trial(q, outcomes) PROVE Trained(t)'
  <2>1. t.params = q
    BY <1>6 DEF Trial
  <2> QED
    BY <1>3, <1>6, <2>1 DEF Trained
<1>7. FinalistsInv'
  <2>1. IsSequence(finalists) /\ tested = 0
    BY <1>1 DEF SweepInv, FinalistsInv
  <2> HIDE DEF u
  <2>2. /\ IsSequence(finalists') /\ Len(finalists') = Len(finalists) + 1
        /\ Len(finalists) \in Nat /\ DOMAIN finalists = 1..Len(finalists)
        /\ \A i \in 1..(Len(finalists) + 1) :
             finalists'[i] = IF i <= Len(finalists) THEN finalists[i] ELSE u
    BY <1>1, <2>1, SequenceFacts
  <2>3. DOMAIN finalists' = 1..(Len(finalists) + 1)
    BY <2>2, SequenceFacts
  <2>4. ASSUME NEW i \in DOMAIN finalists' PROVE Trained(finalists[i])'
    <3>1. CASE i <= Len(finalists)
      <4>1. i \in DOMAIN finalists /\ ~(i <= tested) /\ finalists'[i] = finalists[i]
        BY <2>1, <2>2, <2>3, <3>1
      <4>2. \A t : t = finalists[i] => Trained(t)'
        BY <1>3, <4>1 DEF Carried, SweepInv, FinalistsInv
      <4> QED
        BY <4>1, <4>2
    <3>2. CASE ~(i <= Len(finalists))
      <4>1. finalists'[i] = Trial(q, outcomes)
        BY <1>2, <2>2, <2>3, <3>2 DEF u
      <4> QED
        BY <1>6, <4>1
    <3> QED
      BY <3>1, <3>2
  <2>5. tested' = 0 /\ \A i \in DOMAIN finalists' : ~(i <= tested')
    BY <1>1, <2>1, <2>2, <2>3
  <2>6. tested' \in 0..Len(finalists')
    BY <2>2, <2>5
  <2> QED
    BY <2>2, <2>4, <2>5, <2>6 DEF FinalistsInv
<1>8. VerdictInv'
  <2>1. Shape' /\ sweep'.status = sweep.status
    <3>1. Shape
      BY DEF SweepInv, VerdictInv, Shape
    <3> HIDE DEF u
    <3> QED
      BY <1>1, <3>1, RecordIs
  <2>2. sweep'.status # "completed" /\ phase' # "holdout"
    BY <1>1, <2>1 DEF SweepInv, VerdictInv
  <2> QED
    BY <2>1, <2>2 DEF VerdictInv, Shape
<1> QED
  BY <1>1, <1>3, <1>4, <1>5, <1>7, <1>8 DEF SweepInv, Carried

\* The best of the finalists, the refined ones among them, are kept.
LEMMA RefinedInv ==
  ASSUME SweepInv, Refined
  PROVE  SweepInv'
<1>1. /\ phase = "refine" /\ phase' = "test"
      /\ finalists' = FirstOf(Ranked(finalists), request.topK)
      /\ UNCHANGED <<request, task, measured, tested, verdict, sweep>>
  BY DEF Refined
<1>2. Carried
  BY <1>1, Unmeasured DEF SweepInv
<1>3. TasksInv'
  BY <1>1 DEF SweepInv, TasksInv
<1>4. ResultsInv'
  BY <1>1 DEF ResultsInv
<1>5. FinalistsInv'
  <2>1. IsSequence(finalists) /\ tested = 0
    BY <1>1 DEF SweepInv, FinalistsInv
  <2>2. Len(finalists) \in Nat /\ DOMAIN finalists = 1..Len(finalists)
    BY <2>1, SequenceFacts
  <2>3. ASSUME NEW i \in DOMAIN finalists PROVE Trained(finalists[i])
    <3>1. ~(i <= tested)
      BY <2>1, <2>2
    <3> QED
      BY <3>1 DEF SweepInv, FinalistsInv
  <2>4. request \in Requests /\ request.topK \in Nat
    BY SweepAssumption DEF SweepInv
  <2>5. IsSequence(finalists') /\ \A i \in DOMAIN finalists' : Trained(finalists'[i])
    BY <1>1, <2>1, <2>3, <2>4, BestAreTrained
  <2>6. tested' = 0
    BY <1>1, <2>1
  <2> QED
    BY <1>2, <2>5, <2>6, FinalistsTrained
<1>6. VerdictInv'
  <2>1. Shape' /\ sweep'.status # "completed" /\ phase' # "holdout"
    BY <1>1, RecordIs DEF SweepInv, VerdictInv, Shape
  <2> QED
    BY <2>1 DEF VerdictInv, Shape
<1> QED
  BY <1>1, <1>2, <1>3, <1>4, <1>5, <1>6 DEF SweepInv, Carried

\* Testing replaces two figures of a trial.
LEMMA TestedRecord ==
  ASSUME NEW p, NEW a, NEW b, NEW c, NEW d, NEW e, NEW t,
         t = [params |-> p, train |-> a, test |-> b, penalty |-> c]
  PROVE  /\ [t EXCEPT !.test = d, !.penalty = e]
              = [params |-> p, train |-> a, test |-> d, penalty |-> e]
         /\ t.params = p
<1> DEFINE r == [t EXCEPT !.test = d]
<1>1. r = [params |-> p, train |-> a, test |-> d, penalty |-> c]
  OBVIOUS
<1>2. [t EXCEPT !.test = d, !.penalty = e] = [r EXCEPT !.penalty = e]
  OBVIOUS
<1> HIDE DEF r
<1>3. [r EXCEPT !.penalty = e] = [params |-> p, train |-> a, test |-> d, penalty |-> e]
  BY <1>1
<1> QED
  BY <1>2, <1>3

\* The next finalist is tested.
LEMMA TestOneInv ==
  ASSUME SweepInv, NEW outcomes, TestOne(outcomes)
  PROVE  SweepInv'
<1>0. PICK n : n = tested + 1
  OBVIOUS
<1>1. /\ phase = "test" /\ tested < Len(finalists) /\ tested' = n
      /\ Measure(finalists[n].params, "test", outcomes)
      /\ UNCHANGED <<request, phase, task, verdict, sweep>>
  BY <1>0 DEF TestOne
<1>2. PICK t : t = finalists[n]
  OBVIOUS
<1>3. PICK q : q = t.params
  OBVIOUS
<1>4. PICK u : u = [t EXCEPT !.test = Aggregate(outcomes), !.penalty = FoldPenalty(outcomes)]
  OBVIOUS
<1>5. finalists' = [finalists EXCEPT ![n] = u]
  BY <1>0, <1>2, <1>4 DEF TestOne
<1>6. /\ Carried /\ Shown(q, "test", outcomes)'
      /\ outcomes \in [DOMAIN Periods("test")' -> Outcomes]
  <2>1. Measure(q, "test", outcomes) /\ "test" \in Segments
    BY <1>1, <1>2, <1>3 DEF Segments
  <2>2. MeasuredInv /\ request \in Requests /\ UNCHANGED request
    BY <1>1 DEF SweepInv
  <2> QED
    BY <2>1, <2>2, Measured
<1>7. /\ IsSequence(finalists) /\ tested \in Nat /\ Len(finalists) \in Nat
      /\ DOMAIN finalists = 1..Len(finalists) /\ n \in DOMAIN finalists
  <2>1. IsSequence(finalists) /\ tested \in 0..Len(finalists)
    BY DEF SweepInv, FinalistsInv
  <2>2. Len(finalists) \in Nat /\ DOMAIN finalists = 1..Len(finalists)
    BY <2>1, SequenceFacts
  <2> QED
    BY <1>0, <1>1, <2>1, <2>2
<1>8. /\ IsSequence(finalists') /\ Len(finalists') = Len(finalists)
      /\ DOMAIN finalists' = DOMAIN finalists /\ finalists'[n] = u
      /\ \A j \in DOMAIN finalists : j # n => finalists'[j] = finalists[j]
  <2>1. PICK f, g : f = finalists' /\ g = finalists
    OBVIOUS
  <2>2. IsSequence(g) /\ n \in DOMAIN g /\ f = [g EXCEPT ![n] = u]
    BY <1>5, <1>7, <2>1
  <2>3. /\ IsSequence(f) /\ Len(f) = Len(g) /\ DOMAIN f = DOMAIN g /\ f[n] = u
        /\ \A j \in DOMAIN g : j # n => f[j] = g[j]
    <3>1. Replaced(g, n, u, f)
      BY <2>2, ReplacedIs
    <3> QED
      BY <3>1 DEF Replaced
  <2> QED
    BY <2>1, <2>3
<1>9. Trained(t)
  <2>1. ~(n <= tested)
    BY <1>0, <1>7
  <2> QED
    BY <1>2, <1>7, <2>1 DEF SweepInv, FinalistsInv
<1>10. \A w : w = u => TestedAs(w)'
  <2>1. Trained(t)'
    BY <1>6, <1>9 DEF Carried
  <2>2. Shown(t.params, "test", outcomes)'
    BY <1>3, <1>6
  <2>3. ASSUME NEW w, w = u PROVE TestedAs(w)'
    <3>1. PICK o \in [DOMAIN Periods("train")' -> Outcomes] :
            Shown(t.params, "train", o)' /\ t = Trial(t.params, o)
      BY <2>1 DEF Trained
    <3>2. t = [params |-> t.params, train |-> Aggregate(o), test |-> NoOutcome, penalty |-> 0]
      BY <3>1 DEF Trial
    <3>3. w = [params |-> t.params, train |-> Aggregate(o), test |-> Aggregate(outcomes),
               penalty |-> FoldPenalty(outcomes)]
      <4>1. PICK p, a, d, e :
              /\ p = t.params /\ a = Aggregate(o) /\ d = Aggregate(outcomes)
              /\ e = FoldPenalty(outcomes)
        OBVIOUS
      <4>2. t = [params |-> p, train |-> a, test |-> NoOutcome, penalty |-> 0]
        BY <3>2, <4>1
      <4>3. w = [t EXCEPT !.test = d, !.penalty = e]
        BY <1>4, <2>3, <4>1
      <4>4. w = [params |-> p, train |-> a, test |-> d, penalty |-> e]
        BY <4>2, <4>3, TestedRecord
      <4> QED
        BY <4>1, <4>4
    <3>4. w.params = t.params
      BY <3>3
    <3> QED
      BY <1>6, <2>2, <3>1, <3>3, <3>4 DEF TestedAs
  <2> QED
    BY <2>3
<1>11. FinalistsInv'
  <2>1. ASSUME NEW i \in DOMAIN finalists'
        PROVE  IF i <= tested' THEN TestedAs(finalists[i])' ELSE Trained(finalists[i])'
    <3>1. i \in DOMAIN finalists /\ i \in Nat
      BY <1>7, <1>8
    <3>2. CASE i = n
      <4>1. i <= tested'
        BY <1>0, <1>1, <1>7, <3>2
      <4>2. finalists'[i] = u
        BY <1>8, <3>2
      <4> QED
        BY <1>10, <4>1, <4>2
    <3>3. CASE i # n
      <4>1. finalists'[i] = finalists[i] /\ (i <= tested' <=> i <= tested)
        BY <1>0, <1>1, <1>7, <1>8, <3>1, <3>3
      <4>2. IF i <= tested THEN TestedAs(finalists[i]) ELSE Trained(finalists[i])
        BY <3>1 DEF SweepInv, FinalistsInv
      <4>3. \A w : w = finalists[i] => IF i <= tested THEN TestedAs(w)' ELSE Trained(w)'
        BY <1>6, <4>2 DEF Carried
      <4> QED
        BY <4>1, <4>3
    <3> QED
      BY <3>2, <3>3
  <2>2. tested' \in 0..Len(finalists')
    BY <1>1, <1>7, <1>8
  <2>3. phase' = "test"
    BY <1>1
  <2> QED
    BY <1>8, <2>1, <2>2, <2>3 DEF FinalistsInv
<1>12. TasksInv'
  BY <1>1 DEF SweepInv, TasksInv
<1>13. ResultsInv'
  BY <1>1 DEF ResultsInv
<1>14. VerdictInv'
  <2>1. Shape' /\ sweep'.status # "completed" /\ phase' # "holdout"
    BY <1>1, RecordIs DEF SweepInv, VerdictInv, Shape
  <2> QED
    BY <2>1 DEF VerdictInv, Shape
<1> QED
  BY <1>1, <1>6, <1>11, <1>12, <1>13, <1>14 DEF SweepInv, Carried

\* An exception after the training ends the sweep.
LEMMA RaiseInv ==
  ASSUME SweepInv, Raise
  PROVE  SweepInv'
<1>1. /\ phase \in {"refine", "test", "holdout"} /\ phase' = "ended"
      /\ EndAs("cancelled") \/ EndAs("failed")
      /\ UNCHANGED <<request, task, measured, finalists, tested, verdict>>
  BY DEF Raise, Working, EndAs
<1>2. Carried
  BY <1>1, Unmeasured DEF SweepInv
<1>3. TasksInv'
  BY <1>1 DEF SweepInv, TasksInv
<1>4. ResultsInv'
  BY <1>1 DEF ResultsInv
<1>5. FinalistsInv'
  BY <1>1, <1>2, FinalistsStay DEF SweepInv
<1>6. VerdictInv'
  <2>1. Shape
    BY DEF SweepInv, VerdictInv, Shape
  <2>2. Shape' /\ sweep'.status # "completed"
    BY <1>1, <2>1, RecordIs
  <2> QED
    BY <1>1, <2>2 DEF VerdictInv, Shape
<1> QED
  BY <1>1, <1>2, <1>3, <1>4, <1>5, <1>6 DEF SweepInv, Carried

\* The choice is made when every finalist is tested, and ends the sweep
\* unless there is something to check it on.
LEMMA ChooseInv ==
  ASSUME SweepInv, Choose
  PROVE  SweepInv'
<1>1. /\ phase = "test" /\ tested = Len(finalists) /\ verdict' = Chosen
      /\ UNCHANGED <<request, task, measured, finalists, tested>>
  BY DEF Choose, Chosen
<1>2. \/ /\ SelectBest(finalists) # NoTrial /\ phase' = "holdout" /\ UNCHANGED sweep
      \/ /\ ~(SelectBest(finalists) # NoTrial /\ request.holdout > 0) /\ EndAs("completed")
  BY DEF Choose
<1>3. phase' \in {"holdout", "ended"}
  BY <1>2 DEF EndAs
<1>4. Carried
  BY <1>1, Unmeasured DEF SweepInv
<1>5. TasksInv'
  BY <1>1, <1>3 DEF SweepInv, TasksInv
<1>6. ResultsInv'
  BY <1>3 DEF ResultsInv
<1>7. FinalistsInv'
  BY <1>1, <1>3, <1>4, FinalistsStay DEF SweepInv
<1>8. /\ Chosen' = Chosen /\ Chosen.best = SelectBest(finalists)
      /\ (Chosen.valid <=> SelectBest(finalists) # NoTrial)
  BY <1>1 DEF Chosen
<1>9. Shape
  BY DEF SweepInv, VerdictInv, Shape
<1>10. VerdictInv'
  <2>1. ASSUME SelectBest(finalists) # NoTrial, phase' = "holdout", UNCHANGED sweep
        PROVE  VerdictInv'
    <3>1. Shape' /\ sweep'.status # "completed"
      BY <1>1, <1>9, <2>1, RecordIs DEF SweepInv, VerdictInv
    <3> QED
      BY <1>1, <1>8, <2>1, <3>1 DEF VerdictInv, Shape
  <2>2. ASSUME ~(SelectBest(finalists) # NoTrial /\ request.holdout > 0), EndAs("completed")
        PROVE  VerdictInv'
    <3>1. Shape' /\ phase' = "ended"
      BY <1>9, <2>2, RecordIs
    <3>2. verdict' = Chosen' /\ ~(verdict'.valid /\ request'.holdout > 0)
      BY <1>1, <1>8, <2>2
    <3>3. Settled'
      BY <1>1, <3>2 DEF Settled
    <3> QED
      BY <3>1, <3>3 DEF VerdictInv, Shape
  <2> QED
    BY <1>2, <2>1, <2>2
<1> QED
  BY <1>1, <1>4, <1>5, <1>6, <1>7, <1>10 DEF SweepInv, Carried

\* A verdict that is withdrawn.
LEMMA WithdrawnVerdict ==
  ASSUME NEW a, NEW b, NEW c, NEW d, NEW v, v = [best |-> a, valid |-> b, fallback |-> c],
         NEW w, w = [v EXCEPT !.valid = FALSE, !.fallback = d]
  PROVE  ~w.valid /\ w.fallback = d
<1>1. PICK f : f = FALSE
  OBVIOUS
<1> DEFINE r == [v EXCEPT !.valid = f]
<1>2. r = [best |-> a, valid |-> f, fallback |-> c]
  OBVIOUS
<1>3. w = [r EXCEPT !.fallback = d]
  BY <1>1
<1> HIDE DEF r
<1>4. w = [best |-> a, valid |-> f, fallback |-> d]
  BY <1>2, <1>3
<1> QED
  BY <1>1, <1>4

\* The winner is checked on what was set aside, and the sweep completes.
LEMMA CheckHoldoutInv ==
  ASSUME SweepInv, NEW o \in Outcomes, CheckHoldout(<<o>>)
  PROVE  SweepInv'
<1>1. /\ phase = "holdout" /\ Measure(verdict.best.params, "holdout", <<o>>)
      /\ EndAs("completed") /\ UNCHANGED <<request, task, finalists, tested>>
  BY DEF CheckHoldout
<1>2. verdict' = IF PassesHoldout(o) THEN verdict
                 ELSE [verdict EXCEPT !.valid = FALSE, !.fallback = Fallback(finalists)]
  <2>1. <<o>>[1] = o
    OBVIOUS
  <2> QED
    BY <2>1 DEF CheckHoldout
<1>3. PICK q, s : q = verdict.best.params /\ s = <<o>>
  OBVIOUS
<1>4. /\ Carried /\ Shown(q, "holdout", s)'
      /\ s \in [DOMAIN Periods("holdout")' -> Outcomes]
  <2>1. Measure(q, "holdout", s) /\ "holdout" \in Segments
    BY <1>1, <1>3 DEF Segments
  <2>2. MeasuredInv /\ request \in Requests /\ UNCHANGED request
    BY <1>1 DEF SweepInv
  <2> QED
    BY <2>1, <2>2, Measured
<1>5. Shape' /\ phase' = "ended" /\ tested' = Len(finalists')
  <2>1. Shape /\ tested = Len(finalists)
    BY <1>1 DEF SweepInv, VerdictInv, Shape
  <2> QED
    BY <1>1, <2>1, RecordIs
<1>6. verdict = Chosen /\ verdict.best # NoTrial
  BY <1>1 DEF SweepInv, VerdictInv
<1>7. Settled'
  <2>1. CASE PassesHoldout(o)
    <3>1. verdict' = verdict /\ Chosen' = Chosen
      BY <1>1, <1>2, <2>1 DEF Chosen
    <3>2. s[1] = o
      BY <1>3
    <3>3. Shown(verdict.best.params, "holdout", s)' /\ PassesHoldout(s[1])
      BY <1>3, <1>4, <2>1, <3>1, <3>2
    <3> QED
      BY <1>4, <1>5, <1>6, <3>1, <3>3 DEF Settled
  <2>2. CASE ~PassesHoldout(o)
    <3>1. PICK v, w, d : v = verdict /\ w = verdict' /\ d = Fallback(finalists)
      OBVIOUS
    <3>2. w = [v EXCEPT !.valid = FALSE, !.fallback = d]
      BY <1>2, <2>2, <3>1
    <3>3. \E a, b, c : v = [best |-> a, valid |-> b, fallback |-> c]
      BY <1>6, <3>1 DEF Chosen
    <3>4. ~w.valid /\ w.fallback = d
      BY <3>2, <3>3, WithdrawnVerdict
    <3>5. finalists # <<>>
      <4>1. SelectBest(finalists) # NoTrial
        BY <1>6 DEF Chosen
      <4>2. ASSUME finalists = <<>> PROVE FALSE
        <5>1. DOMAIN finalists = {}
          BY <4>2
        <5> QED
          BY <4>1, <5>1 DEF SelectBest
      <4> QED
        BY <4>2
    <3>6. Fallback(finalists)' = Fallback(finalists)
      BY <1>1 DEF Fallback, FirstMost, TestTrades
    <3> QED
      BY <1>1, <1>5, <3>1, <3>4, <3>5, <3>6 DEF Settled
  <2> QED
    BY <2>1, <2>2
<1>8. VerdictInv'
  BY <1>5, <1>7 DEF VerdictInv, Shape
<1>9. TasksInv'
  BY <1>1, <1>5 DEF SweepInv, TasksInv
<1>10. ResultsInv'
  BY <1>5 DEF ResultsInv
<1>11. FinalistsInv'
  BY <1>1, <1>4, <1>5, FinalistsStay DEF SweepInv
<1> QED
  BY <1>1, <1>4, <1>8, <1>9, <1>10, <1>11 DEF SweepInv, Carried

\* A cancel request marks the record only; so a step that does nothing.
LEMMA CancelInv ==
  ASSUME SweepInv, Cancel \/ UNCHANGED vars
  PROVE  SweepInv'
<1>1. /\ UNCHANGED <<request, measured, phase, task, results, finalists, tested, verdict>>
      /\ sweep' = [sweep EXCEPT !.cancel = TRUE] \/ UNCHANGED sweep
  BY DEF Cancel, vars
<1>2. Carried
  BY <1>1, Unmeasured DEF SweepInv
<1>3. TasksInv'
  BY <1>1 DEF SweepInv, TasksInv
<1>4. ResultsInv'
  <2>1. ASSUME phase = "train", NEW j \in DOMAIN task', task'[j] = "done"
        PROVE  Trained(results[j])'
    <3>1. j \in DOMAIN task /\ task[j] = "done"
      BY <1>1, <2>1
    <3>2. \A t : t = results[j] => Trained(t)'
      BY <1>2, <2>1, <3>1 DEF Carried, SweepInv, ResultsInv
    <3> QED
      BY <1>1, <3>2
  <2> QED
    BY <1>1, <2>1 DEF SweepInv, ResultsInv
<1>5. FinalistsInv'
  BY <1>1, <1>2, FinalistsStay DEF SweepInv
<1>6. VerdictInv'
  <2>1. Shape
    BY DEF SweepInv, VerdictInv, Shape
  <2>2. Shape' /\ sweep'.status = sweep.status
    BY <1>1, <2>1, RecordIs
  <2> QED
    BY <1>1, <1>2, <2>2, VerdictStays DEF SweepInv
<1> QED
  BY <1>1, <1>2, <1>3, <1>4, <1>5, <1>6 DEF SweepInv, Carried

-----------------------------------------------------------------------------
(* The start, the steps and the theorems about a sweep.                    *)

\* Finite choices have finitely many combinations.
LEMMA ParamsAreFinite ==
  ASSUME NEW space, IsFiniteSet(space.trend), IsFiniteSet(space.rev), space.sl \in Nat
  PROVE  IsFiniteSet(Params(space))
<1>1. PICK T, R, n : T = space.trend /\ R = space.rev /\ n = space.sl
  OBVIOUS
<1>2. IsFiniteSet(T) /\ IsFiniteSet(R) /\ n \in Nat
  BY <1>1
<1>3. IsFiniteSet(1..n)
  BY <1>2, FS_Interval
<1>4. IsFiniteSet(T \X R)
  BY <1>2, FS_Product
<1>5. IsFiniteSet((T \X R) \X (1..n))
  BY <1>3, <1>4, FS_Product
<1> DEFINE D == (T \X R) \X (1..n)
           P == [trend : T, rev : R, sl : 1..n]
           h == [d \in D |-> [trend |-> d[1][1], rev |-> d[1][2], sl |-> d[2]]]
<1>6. h \in [D -> P]
  OBVIOUS
<1>7. ASSUME NEW x \in P PROVE \E d \in D : h[d] = x
  <2>1. x = [trend |-> x.trend, rev |-> x.rev, sl |-> x.sl]
    OBVIOUS
  <2>2. <<<<x.trend, x.rev>>, x.sl>> \in D
    OBVIOUS
  <2>3. h[<<<<x.trend, x.rev>>, x.sl>>] = x
    BY <2>1, <2>2
  <2> QED
    BY <2>2, <2>3
<1>8. h \in Surjection(D, P)
  <2> HIDE DEF h, D, P
  <2> QED
    BY <1>6, <1>7 DEF Surjection
<1>9. IsFiniteSet(P)
  <2>1. IsFiniteSet(D)
    BY <1>5
  <2> HIDE DEF h, D, P
  <2> QED
    BY <1>8, <2>1, FS_Surjection
<1> QED
  BY <1>1, <1>9 DEF Params

\* The trials are numbered, whatever the search.
LEMMA TrialsNumbered ==
  ASSUME Init
  PROVE  \E n \in Nat : DOMAIN trials = 1..n
<1>1. /\ request \in Requests /\ request.max \in Nat /\ request.space.sl \in Nat
      /\ IsFiniteSet(request.space.trend) /\ IsFiniteSet(request.space.rev)
  BY SweepAssumption DEF Init
<1>2. \/ trials = <<>> \/ trials \in Sampled(request.space, request.max)
      \/ trials = Grid(request.space, request.max)
  BY DEF Init
<1>3. CASE trials = <<>>
  <2>1. DOMAIN trials = 1..0
    BY <1>3
  <2> QED
    BY <2>1
<1>4. CASE trials \in Sampled(request.space, request.max)
  <2>1. PICK n \in 0..request.max :
          trials \in [1..n -> {p \in Params(request.space) : Valid(request.space, p)}]
    BY <1>4 DEF Sampled
  <2> QED
    BY <1>1, <2>1
<1>5. CASE trials = Grid(request.space, request.max)
  <2> DEFINE all == Combos(request.space)
             S == {p \in Params(request.space) : Valid(request.space, p)}
             m == Cardinality(S)
  <2>1. IsFiniteSet(S)
    <3>1. S \in SUBSET Params(request.space)
      OBVIOUS
    <3> HIDE DEF S
    <3> QED
      BY <1>1, <3>1, ParamsAreFinite, FS_Subset
  <2>2. m \in Nat
    BY <2>1, FS_CardinalityType
  <2>3. DOMAIN all = 1..m
    BY DEF Combos, InOrder
  <2>4. trials = IF Len(all) <= request.max THEN all
                 ELSE [k \in 1..request.max |-> all[1 + (k - 1) * (Len(all) \div request.max)]]
    BY <1>5 DEF Grid
  <2> HIDE DEF all, m
  <2>5. DOMAIN trials \in {1..m, 1..request.max}
    BY <2>3, <2>4
  <2> QED
    BY <1>1, <2>2, <2>5
<1> QED
  BY <1>2, <1>3, <1>4, <1>5

\* A sweep starts with nothing measured and every trial waiting.
LEMMA SweepInitInv ==
  ASSUME Init
  PROVE  SweepInv
<1>1. PICK n \in Nat : DOMAIN trials = 1..n
  BY TrialsNumbered
<1>2. /\ request \in Requests /\ measured = {} /\ finalists = <<>> /\ tested = 0
      /\ task = [i \in 1..n |-> "waiting"] /\ results = [i \in 1..n |-> NoTrial]
      /\ phase \in {"train", "ended"} /\ (phase = "ended" => trials = <<>>)
      /\ sweep = [status |-> IF phase = "ended" THEN "failed" ELSE "running",
                  cancel |-> FALSE, live |-> <<>>]
  BY <1>1 DEF Init
<1>3. /\ task = [i \in 1..n |-> task[i]] /\ DOMAIN task = 1..n
      /\ \A i \in DOMAIN task : task[i] = "waiting"
  BY <1>2
<1>4. results = [i \in 1..n |-> results[i]] /\ DOMAIN results = 1..n
  BY <1>2
<1>5. IsSequence(task) /\ IsSequence(results)
  <2>1. IsSequence(task)
    BY <1>3, FunctionIsSequence
  <2>2. IsSequence(results)
    BY <1>4, FunctionIsSequence
  <2> QED
    BY <2>1, <2>2
<1>6. MeasuredInv
  BY <1>2 DEF MeasuredInv
<1>7. TasksInv
  <2>1. phase = "ended" => DOMAIN task = {}
    BY <1>1, <1>2, <1>3
  <2> QED
    BY <1>2, <1>3, <1>5, <2>1 DEF TasksInv
<1>8. ResultsInv
  BY <1>3, <1>4, <1>5 DEF ResultsInv
<1>9. FinalistsInv
  <2>1. Len(finalists) = 0 /\ DOMAIN finalists = {}
    BY <1>2
  <2>2. finalists = [i \in 1..Len(finalists) |-> finalists[i]]
    BY <1>2
  <2> QED
    BY <1>2, <2>1, <2>2 DEF FinalistsInv, IsSequence
<1>10. VerdictInv
  BY <1>2 DEF VerdictInv
<1> QED
  BY <1>2, <1>6, <1>7, <1>8, <1>9, <1>10 DEF SweepInv

\* Every step of a sweep keeps its invariant.
LEMMA SweepStepInv ==
  ASSUME SweepInv, [Next]_vars
  PROVE  SweepInv'
<1>1. \/ \E p : Propose(p)
      \/ \E i \in DOMAIN task : StartTrial(i) \/ RaiseIn(i)
      \/ \E i \in DOMAIN task : \E outcomes : FinishTrial(i, outcomes)
      \/ CancelTasks \/ Rank
      \/ \E outcomes : RefineOne(outcomes) \/ TestOne(outcomes)
      \/ Refined \/ Raise \/ Choose
      \/ \E o \in Outcomes : CheckHoldout(<<o>>)
      \/ Cancel \/ UNCHANGED vars
  BY DEF Next, Running
<1> QED
  BY <1>1, ProposeInv, StartTrialInv, RaiseInInv, FinishTrialInv, CancelTasksInv, RankInv,
     RefineOneInv, TestOneInv, RefinedInv, RaiseInv, ChooseInv, CheckHoldoutInv, CancelInv

\* The inductive invariant of a sweep holds throughout.
THEOREM SweepInvariance == Spec => []SweepInv
<1>1. Init => SweepInv
  BY SweepInitInv
<1>2. SweepInv /\ [Next]_vars => SweepInv'
  BY SweepStepInv
<1> QED
  BY <1>1, <1>2, PTL DEF Spec

\* However a sweep ends, none of its trials runs or waits any more, so that
\* none goes on reporting into its record (run_optimization's except branch).
THEOREM SweepEndsQuiet == Spec => []EndedIsQuiet
<1>1. SweepInv => EndedIsQuiet
  BY DEF SweepInv, TasksInv, EndedIsQuiet
<1> QED
  BY <1>1, SweepInvariance, PTL

\* No bar set aside is traded in training or testing, and none of a fold is
\* tested that it was trained on, for any period, holdout, ratio, mode and
\* number of folds (run_optimization, optimization_windows).
THEOREM SegmentsStayApart == Spec => []SegmentsApart
<1>1. SweepInv => SegmentsApart
  BY MeasuredApart DEF SweepInv
<1> QED
  BY <1>1, SweepInvariance, PTL

\* What a completed sweep offers to apply has earned it in its own backtests,
\* and where it offers nothing there is a fallback, for any space, search,
\* number of parallel trials and outcomes (select_best, run_optimization).
THEOREM ChoiceAlwaysEarned == Spec => []ChoiceIsEarned
<1>1. SweepInv => ChoiceIsEarned
  BY SettledIsEarned
<1> QED
  BY <1>1, SweepInvariance, PTL

-----------------------------------------------------------------------------
(* The configuration.                                                      *)

ConfigInv == TypeOK /\ ApiIsCurrent

\* At the start every file holds a value and nothing is remembered.
LEMMA ConfigInitInv == ConfigInit => ConfigInv
<1> SUFFICES ASSUME ConfigInit PROVE ConfigInv
  OBVIOUS
<1>1. PICK v \in Values : files = [f \in Files |-> v]
  BY DEF ConfigInit
<1>2. TypeOK
  BY <1>1 DEF ConfigInit, TypeOK, Content
<1> QED
  BY <1>2 DEF ConfigInv, ApiIsCurrent, ConfigInit, Processes

\* Writing a file keeps the types and what the API remembers: it forgets the
\* file it wrote, and no other file changes (config_service).
LEMMA WrittenInv ==
  ASSUME ConfigInv, NEW f \in Files, NEW v \in Content, Written(f, v)
  PROVE  /\ files' \in [Files -> Content]
         /\ cache' \in [Processes -> [Cached -> Content]]
         /\ ApiIsCurrent'
<1>1. files' \in [Files -> Content]
  BY DEF ConfigInv, TypeOK, Written
<1>2. cache' \in [Processes -> [Cached -> Content]]
  <2>1. CASE f \in Cached
    BY <2>1 DEF ConfigInv, TypeOK, Written, Processes, Content
  <2>2. CASE f \notin Cached
    BY <2>2 DEF ConfigInv, TypeOK, Written
  <2> QED
    BY <2>1, <2>2
<1>3. ASSUME NEW g \in Cached
      PROVE  cache'["api"][g] \in {Unread, files'[g]}
  <2>1. "api" \in Processes /\ g \in Files
    BY <1>3 DEF Processes, Files
  <2>2. CASE f = g
    <3>1. cache'["api"][g] = Unread
      BY <2>1, <2>2, <1>3 DEF ConfigInv, TypeOK, Written
    <3> QED
      BY <3>1
  <2>3. CASE f # g
    <3>1. files'[g] = files[g]
      BY <2>1, <2>3 DEF ConfigInv, TypeOK, Written
    <3>2. cache'["api"][g] = cache["api"][g]
      BY <2>1, <2>3, <1>3 DEF ConfigInv, TypeOK, Written
    <3> QED
      BY <3>1, <3>2, <1>3 DEF ConfigInv, ApiIsCurrent
  <2> QED
    BY <2>2, <2>3
<1> QED
  BY <1>1, <1>2, <1>3 DEF ApiIsCurrent

\* What a process sees of a file is a content.
LEMMA SeenContent ==
  ASSUME TypeOK, NEW p \in Processes, NEW f \in Files
  PROVE  Seen(p, f) \in Content
BY DEF TypeOK, Seen

\* Building a job makes its process remember more, and the API only what is
\* on disk (run_validation_job's loaders).
LEMMA BuildInv ==
  ASSUME ConfigInv, Build
  PROVE  /\ cache' \in [Processes -> [Cached -> Content]]
         /\ ApiIsCurrent'
<1> DEFINE loads == IF job.preset THEN {"features"} ELSE Cached
           kept  == Remember(runner, loads)[runner]
<1>1. /\ cache' = [cache EXCEPT ![runner] = kept]
      /\ files' = files
  BY DEF Build
<1>2. runner \in Processes /\ "api" \in Processes
  BY DEF ConfigInv, TypeOK, Processes
<1>3. kept = [f \in Cached |->
                IF f \in loads /\ Seen(runner, f) # Broken THEN Seen(runner, f)
                ELSE cache[runner][f]]
  BY <1>2 DEF ConfigInv, TypeOK, Remember
<1>4. kept \in [Cached -> Content]
  <2>1. \A f \in Cached : Seen(runner, f) \in Content
    BY <1>2, SeenContent DEF ConfigInv, Files
  <2> QED
    BY <1>2, <1>3, <2>1 DEF ConfigInv, TypeOK
<1>5. cache' \in [Processes -> [Cached -> Content]]
  BY <1>1, <1>4 DEF ConfigInv, TypeOK
<1>6. ASSUME NEW g \in Cached
      PROVE  cache'["api"][g] \in {Unread, files'[g]}
  <2>1. cache["api"][g] \in {Unread, files[g]}
    BY <1>6 DEF ConfigInv, ApiIsCurrent
  <2>2. CASE runner # "api"
    BY <1>1, <1>2, <2>1, <2>2 DEF ConfigInv, TypeOK
  <2>3. CASE runner = "api"
    <3>1. cache'["api"][g] = kept[g]
      BY <1>1, <1>2, <2>3 DEF ConfigInv, TypeOK
    <3>2. Seen("api", g) = files[g]
      BY <2>1, <1>6 DEF Seen
    <3> QED
      BY <3>1, <3>2, <1>1, <1>3, <1>6, <2>1, <2>3
  <2> QED
    BY <2>2, <2>3
<1> QED
  BY <1>5, <1>6 DEF ApiIsCurrent

\* Every step keeps the invariant.
LEMMA ConfigStepInv == ConfigInv /\ [ConfigNext]_ConfigVars => ConfigInv'
<1> SUFFICES ASSUME ConfigInv, [ConfigNext]_ConfigVars PROVE ConfigInv'
  OBVIOUS
<1>1. ASSUME NEW v \in Values \cup {Broken}, PatchEngine(v) PROVE ConfigInv'
  <2>1. Written("engine", v) /\ "engine" \in Files /\ v \in Content
    BY <1>1 DEF PatchEngine, Files, Cached, Content
  <2>2. UNCHANGED <<applying, runner>>
    BY <1>1 DEF PatchEngine
  <2> QED
    BY <2>1, <2>2, WrittenInv DEF ConfigInv, TypeOK
<1>2. ASSUME NEW v \in Values, PatchProviders(v) PROVE ConfigInv'
  <2>1. Written("providers", v) /\ "providers" \in Files /\ v \in Content
    BY <1>2 DEF PatchProviders, Files, Content
  <2>2. UNCHANGED <<applying, runner>>
    BY <1>2 DEF PatchProviders
  <2> QED
    BY <2>1, <2>2, WrittenInv DEF ConfigInv, TypeOK
<1>3. ASSUME NEW v \in Values, StartApply(v) PROVE ConfigInv'
  <2>1. applying' \in Seq([file : Files, value : Content])
    <3> DEFINE Write(i) == [file |-> ApplyOrder[i], value |-> v]
    <3>1. \A i \in 1..4 : Write(i) \in [file : Files, value : Content]
      BY DEF ApplyOrder, Files, Cached, Content
    <3>2. DOMAIN ApplyOrder = 1..4
      BY DEF ApplyOrder
    <3>3. applying' = [i \in 1..4 |-> Write(i)]
      BY <1>3, <3>2 DEF StartApply
    <3> HIDE DEF Write
    <3>4. [i \in 1..4 |-> Write(i)] \in [1..4 -> [file : Files, value : Content]]
      BY <3>1
    <3> QED
      BY <3>3, <3>4
  <2>2. UNCHANGED <<files, cache, runner>>
    BY <1>3 DEF StartApply
  <2> QED
    BY <2>1, <2>2 DEF ConfigInv, TypeOK, ApiIsCurrent
<1>4. CASE ApplyNext
  <2>1. applying # <<>> /\ applying \in Seq([file : Files, value : Content])
    BY <1>4 DEF ApplyNext, Idle, ConfigInv, TypeOK
  <2>2. Head(applying) \in [file : Files, value : Content]
    BY <2>1, HeadTailProperties
  <2>3. applying' \in Seq([file : Files, value : Content])
    BY <1>4, <2>1 DEF ApplyNext
  <2>4. Written(Head(applying).file, Head(applying).value) /\ runner' = runner
    BY <1>4 DEF ApplyNext
  <2> QED
    BY <2>2, <2>3, <2>4, WrittenInv DEF ConfigInv, TypeOK
<1>5. CASE \E asked \in revisions \cup {Current}, preset \in BOOLEAN : Submit(asked, preset)
  BY <1>5 DEF Submit, ConfigInv, TypeOK, ApiIsCurrent
<1>6. CASE Build
  <2>1. UNCHANGED <<files, applying, runner>>
    BY <1>6 DEF Build
  <2> QED
    BY <1>6, <2>1, BuildInv DEF ConfigInv, TypeOK
<1>7. CASE Label
  BY <1>7 DEF Label, ConfigInv, TypeOK, ApiIsCurrent
<1>8. CASE UNCHANGED ConfigVars
  BY <1>8 DEF ConfigVars, ConfigInv, TypeOK, ApiIsCurrent
<1> QED
  BY <1>1, <1>2, <1>3, <1>4, <1>5, <1>6, <1>7, <1>8 DEF ConfigNext

\* Types, and what the API remembers, hold in every reachable state.
THEOREM ConfigInvariance == ConfigSpec => []ConfigInv
<1> QED
  BY ConfigInitInv, ConfigStepInv, PTL DEF ConfigSpec

\* Whatever is edited, applied and run in whatever order, a job of the API
\* process never starts from an older edit (config_service's cache_clear).
THEOREM ApiAlwaysCurrent == ConfigSpec => []ApiIsCurrent
<1>1. ConfigInv => ApiIsCurrent
  BY DEF ConfigInv
<1> QED
  BY ConfigInvariance, <1>1, PTL
=============================================================================
