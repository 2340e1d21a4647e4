----------------------------- MODULE FiniteSums -----------------------------
(***************************************************************************)
(* The sum of a function over a finite set, as MapThenSumSet, SumFunction  *)
(* and the recursive functions of the specifications compute it: one element, the  *)
(* one CHOOSE picks, after the other.  The order does not matter.          *)
(***************************************************************************)
EXTENDS Integers, FiniteSets, Functions, FiniteSetTheorems, WellFoundedInduction, TLAPS

\* The sum over S, given the sums g over the smaller sets.
Part(f, g, S) ==
  IF S = {} THEN 0 ELSE LET x == CHOOSE x \in S : TRUE IN f[x] + g[S \ {x}]

\* g gives the sum over every subset of D.
Sums(f, D, g) == g = [S \in SUBSET D |-> Part(f, g, S)]

\* The sets of at most n members of D.
UpTo(D, n) == {S \in SUBSET D : Cardinality(S) <= n}

-----------------------------------------------------------------------------
\* A set with 0 and every successor holds all naturals: there is no least one
\* outside it.
LEMMA NaturalInduction ==
  ASSUME NEW P, 0 \in P, \A n \in P : n \in Nat => n + 1 \in P
  PROVE  Nat \subseteq P
<1> DEFINE T == Nat \ P
<1> SUFFICES ASSUME T # {} PROVE FALSE
  OBVIOUS
<1>1. PICK n \in T : \A m \in T : ~(<<m, n>> \in OpToRel(<, Nat))
  BY NatLessThanWellFounded, WFMin
<1>2. \A m \in T : ~(m < n)
  BY <1>1 DEF OpToRel
<1>3. n \in Nat /\ n # 0 /\ n - 1 \in Nat /\ n - 1 < n
  OBVIOUS
<1>4. n - 1 \in P
  BY <1>2, <1>3
<1>5. (n - 1) + 1 \in P
  BY <1>3, <1>4
<1> QED
  BY <1>3, <1>5

\* A member less, and the size is one less.
LEMMA SmallerSet ==
  ASSUME NEW D, IsFiniteSet(D), NEW n \in Nat, NEW S \in UpTo(D, n + 1), NEW x \in S
  PROVE  S \ {x} \in UpTo(D, n)
<1>1. S \in SUBSET D /\ Cardinality(S) <= n + 1 /\ IsFiniteSet(S)
  BY FS_Subset DEF UpTo
<1>2. Cardinality(S) \in Nat /\ Cardinality(S \ {x}) = Cardinality(S) - 1
  BY <1>1, FS_CardinalityType, FS_RemoveElement
<1> QED
  BY <1>1, <1>2 DEF UpTo

\* Only the empty set has no member, and every subset has as many as D at most.
LEMMA SizesFit ==
  ASSUME NEW D, IsFiniteSet(D)
  PROVE  /\ UpTo(D, 0) = {{}}
         /\ Cardinality(D) \in Nat /\ UpTo(D, Cardinality(D)) = SUBSET D
<1>1. ASSUME NEW S \in UpTo(D, 0) PROVE S = {}
  <2>1. IsFiniteSet(S) /\ Cardinality(S) <= 0
    BY FS_Subset DEF UpTo
  <2> QED
    BY <2>1, FS_CardinalityType, FS_EmptySet
<1>2. {} \in UpTo(D, 0)
  BY FS_EmptySet DEF UpTo
<1>3. Cardinality(D) \in Nat
  BY FS_CardinalityType
<1>4. ASSUME NEW S \in SUBSET D PROVE Cardinality(S) <= Cardinality(D)
  BY FS_Subset
<1> QED
  BY <1>1, <1>2, <1>3, <1>4 DEF UpTo

\* What holds of the empty set, and of a set if it holds of those with a member
\* less, holds of every finite set: P is the subsets of D it holds of.
LEMMA SubsetInduction ==
  ASSUME NEW D, IsFiniteSet(D), NEW P, {} \in P,
         \A S \in SUBSET D : S # {} /\ (\A x \in S : S \ {x} \in P) => S \in P
  PROVE  SUBSET D \subseteq P
<1> DEFINE Q == {n \in Nat : UpTo(D, n) \subseteq P}
<1>1. 0 \in Q
  BY SizesFit
<1>2. ASSUME NEW n \in Nat, n \in Q
      PROVE  n + 1 \in Q
  <2>1. ASSUME NEW S \in UpTo(D, n + 1) PROVE S \in P
    <3>1. S \in SUBSET D
      BY DEF UpTo
    <3>2. \A x \in S : S \ {x} \in P
      BY <1>2, SmallerSet
    <3>3. CASE S = {}
      BY <3>3
    <3>4. CASE S # {}
      BY <3>1, <3>2, <3>4
    <3> QED
      BY <3>3, <3>4
  <2> QED
    BY <2>1
<1>3. Nat \subseteq Q
  <2> HIDE DEF Q
  <2> QED
    BY <1>1, <1>2, NaturalInduction
<1> QED
  BY <1>3, SizesFit

\* The recursion that defines the sums has a solution: there is one over the
\* sets of at most n members, for every n.
LEMMA SumsExist ==
  ASSUME NEW f, NEW D, IsFiniteSet(D)
  PROVE  \E g : Sums(f, D, g)
<1> DEFINE P == {n \in Nat : \E g : g = [S \in UpTo(D, n) |-> Part(f, g, S)]}
<1>1. 0 \in P
  <2> DEFINE g == [S \in {{}} |-> 0]
  <2>1. \A S \in {{}} : Part(f, g, S) = 0
    BY DEF Part
  <2>2. g = [S \in {{}} |-> Part(f, g, S)]
    BY <2>1
  <2> QED
    BY <2>2, SizesFit
<1>2. ASSUME NEW n \in Nat, n \in P
      PROVE  n + 1 \in P
  <2>1. PICK g : g = [S \in UpTo(D, n) |-> Part(f, g, S)]
    BY <1>2
  <2> DEFINE h == [S \in UpTo(D, n + 1) |-> Part(f, g, S)]
  <2>2. ASSUME NEW S \in UpTo(D, n + 1)
        PROVE  Part(f, g, S) = Part(f, h, S)
    <3>1. CASE S = {}
      BY <3>1 DEF Part
    <3>2. CASE S # {}
      <4> DEFINE x == CHOOSE x \in S : TRUE
      <4>1. x \in S
        BY <3>2
      <4>2. S \ {x} \in UpTo(D, n)
        BY <4>1, SmallerSet
      <4>3. IsFiniteSet(S \ {x})
        BY <4>2, FS_Subset DEF UpTo
      <4>4. S \ {x} \in UpTo(D, n + 1)
        BY <4>2, <4>3, FS_CardinalityType DEF UpTo
      <4>5. h[S \ {x}] = Part(f, g, S \ {x})
        BY <4>4
      <4>6. g[S \ {x}] = Part(f, g, S \ {x})
        BY <2>1, <4>2
      <4>7. h[S \ {x}] = g[S \ {x}]
        BY <4>5, <4>6
      <4> HIDE DEF h
      <4> QED
        BY <3>2, <4>7 DEF Part
    <3> QED
      BY <3>1, <3>2
  <2>3. h = [S \in UpTo(D, n + 1) |-> Part(f, h, S)]
    BY <2>2
  <2> HIDE DEF h
  <2>4. \E k : k = [S \in UpTo(D, n + 1) |-> Part(f, k, S)]
    BY <2>3
  <2> QED
    BY <2>4
<1>3. Nat \subseteq P
  <2> HIDE DEF P
  <2> QED
    BY <1>1, <1>2, NaturalInduction
<1>4. PICK g : g = [S \in UpTo(D, Cardinality(D)) |-> Part(f, g, S)]
  BY <1>3, SizesFit
<1>5. g = [S \in SUBSET D |-> Part(f, g, S)]
  BY <1>4, SizesFit
<1> QED
  BY <1>5 DEF Sums

-----------------------------------------------------------------------------
\* The sum over no element is zero, and one over some takes the chosen one first.
LEMMA SumsUnfold ==
  ASSUME NEW f, NEW D, NEW g, Sums(f, D, g), NEW S \in SUBSET D
  PROVE  /\ S = {} => g[S] = 0
         /\ S # {} => \E x \in S : /\ x = CHOOSE y \in S : TRUE
                                   /\ g[S] = f[x] + g[S \ {x}]
<1>1. g[S] = Part(f, g, S)
  BY DEF Sums
<1> QED
  BY <1>1 DEF Part

\* Integers add up to an integer.
LEMMA SumsInt ==
  ASSUME NEW D, IsFiniteSet(D), NEW f \in [D -> Int], NEW g, Sums(f, D, g)
  PROVE  \A S \in SUBSET D : g[S] \in Int
<1> DEFINE P == {S \in SUBSET D : g[S] \in Int}
<1>1. {} \in P
  BY SumsUnfold
<1>2. ASSUME NEW S \in SUBSET D, S # {}, \A x \in S : S \ {x} \in P
      PROVE  S \in P
  <2>1. PICK x \in S : g[S] = f[x] + g[S \ {x}]
    BY <1>2, SumsUnfold
  <2>2. f[x] \in Int /\ g[S \ {x}] \in Int
    BY <1>2
  <2> QED
    BY <2>1, <2>2
<1>3. SUBSET D \subseteq P
  <2> HIDE DEF P
  <2> QED
    BY <1>1, <1>2, SubsetInduction
<1> QED
  BY <1>3

\* Functions that agree on a set add up to the same over it.
LEMMA SumsAgree ==
  ASSUME NEW D, IsFiniteSet(D),
         NEW f1, NEW D1, NEW g1, Sums(f1, D1, g1), D \subseteq D1,
         NEW f2, NEW D2, NEW g2, Sums(f2, D2, g2), D \subseteq D2,
         \A x \in D : f1[x] = f2[x]
  PROVE  \A S \in SUBSET D : g1[S] = g2[S]
<1> DEFINE P == {S \in SUBSET D : g1[S] = g2[S]}
<1>1. {} \in P
  BY SumsUnfold
<1>2. ASSUME NEW S \in SUBSET D, S # {}, \A x \in S : S \ {x} \in P
      PROVE  S \in P
  <2>1. PICK x \in S : x = (CHOOSE y \in S : TRUE) /\ g1[S] = f1[x] + g1[S \ {x}]
    BY <1>2, SumsUnfold
  <2>2. PICK z \in S : z = (CHOOSE y \in S : TRUE) /\ g2[S] = f2[z] + g2[S \ {z}]
    BY <1>2, SumsUnfold
  <2> QED
    BY <1>2, <2>1, <2>2
<1>3. SUBSET D \subseteq P
  <2> HIDE DEF P
  <2> QED
    BY <1>1, <1>2, SubsetInduction
<1> QED
  BY <1>3

\* Any element may be taken first.
AnyFirst(f, D, g) == \A S \in SUBSET D : \A x \in S : g[S] = f[x] + g[S \ {x}]

LEMMA SumsAnyFirst ==
  ASSUME NEW D, IsFiniteSet(D), NEW f \in [D -> Int], NEW g, Sums(f, D, g)
  PROVE  AnyFirst(f, D, g)
<1> DEFINE P == {S \in SUBSET D : \A x \in S : g[S] = f[x] + g[S \ {x}]}
<1>1. {} \in P
  OBVIOUS
<1>2. ASSUME NEW S \in SUBSET D, S # {}, \A x \in S : S \ {x} \in P
      PROVE  S \in P
  <2>1. PICK y \in S : g[S] = f[y] + g[S \ {y}]
    BY <1>2, SumsUnfold
  <2>2. ASSUME NEW x \in S, x # y
        PROVE  g[S] = f[x] + g[S \ {x}]
    <3>1. g[S \ {y}] = f[x] + g[(S \ {y}) \ {x}]
      BY <1>2, <2>2
    <3>2. g[S \ {x}] = f[y] + g[(S \ {x}) \ {y}]
      BY <1>2, <2>2
    <3>3. (S \ {y}) \ {x} = (S \ {x}) \ {y}
      OBVIOUS
    <3>4. g[(S \ {y}) \ {x}] \in Int /\ f[x] \in Int /\ f[y] \in Int
      BY SumsInt
    <3>5. g[S] = f[y] + (f[x] + g[(S \ {y}) \ {x}]) /\ g[S \ {x}] = f[y] + g[(S \ {y}) \ {x}]
      BY <2>1, <3>1, <3>2, <3>3
    <3> QED
      BY <3>4, <3>5
  <2> QED
    BY <2>1, <2>2
<1>3. SUBSET D \subseteq P
  <2> HIDE DEF P
  <2> QED
    BY <1>1, <1>2, SubsetInduction
<1> QED
  BY <1>3 DEF AnyFirst
-----------------------------------------------------------------------------
(* SumFunction, over all of a function's domain.                           *)

\* SumFunction adds up what Sums does.
LEMMA SumFunctionIsSum ==
  ASSUME NEW f, IsFiniteSet(DOMAIN f)
  PROVE  \E g : Sums(f, DOMAIN f, g) /\ SumFunction(f) = g[DOMAIN f]
<1> DEFINE D == DOMAIN f
           Rec(g) == [S \in SUBSET D |->
                        IF S = {} THEN 0
                        ELSE LET x == CHOOSE x \in S : TRUE IN f[x] + g[S \ {x}]]
           g == CHOOSE g : g = Rec(g)
<1>1. ASSUME NEW h PROVE [S \in SUBSET D |-> Part(f, h, S)] = Rec(h)
  BY DEF Part
<1>2. PICK h : h = [S \in SUBSET D |-> Part(f, h, S)]
  BY SumsExist DEF Sums
<1>3. h = Rec(h)
  BY <1>1, <1>2
<1>4. \E k : k = Rec(k)
  <2> HIDE DEF Rec
  <2> QED
    BY <1>3
<1>5. g = Rec(g)
  <2> HIDE DEF Rec
  <2> QED
    BY <1>4
<1>6. SumFunction(f) = g[D]
  BY DEF SumFunction, SumFunctionOnSet, FoldFunctionOnSet, MapThenFoldSet
<1> HIDE DEF g
<1>7. Sums(f, D, g)
  BY <1>1, <1>5 DEF Sums
<1> QED
  BY <1>6, <1>7

\* It is an integer if every summand is.
LEMMA SumIsInt ==
  ASSUME NEW D, IsFiniteSet(D), NEW f \in [D -> Int]
  PROVE  SumFunction(f) \in Int
<1>1. DOMAIN f = D
  OBVIOUS
<1>2. PICK g : Sums(f, D, g) /\ SumFunction(f) = g[D]
  BY <1>1, SumFunctionIsSum
<1> QED
  BY <1>2, SumsInt

\* Only what is added up matters, not what it is indexed by.
LEMMA SumReindexed ==
  ASSUME NEW D, IsFiniteSet(D), NEW f \in [D -> Int],
         NEW E, IsFiniteSet(E), NEW e \in [E -> Int],
         NEW h \in Bijection(E, D), \A x \in E : e[x] = f[h[x]]
  PROVE  SumFunction(e) = SumFunction(f)
<1>1. DOMAIN f = D /\ DOMAIN e = E
  OBVIOUS
<1>2. PICK g : Sums(f, D, g) /\ SumFunction(f) = g[D]
  BY <1>1, SumFunctionIsSum
<1>3. PICK k : Sums(e, E, k) /\ SumFunction(e) = k[E]
  BY <1>1, SumFunctionIsSum
<1>4. /\ h \in [E -> D] /\ \A x, y \in E : h[x] = h[y] => x = y
      /\ \A d \in D : \E x \in E : h[x] = d
  BY DEF Bijection, Injection, Surjection, IsInjective
<1> DEFINE Img(S) == {h[x] : x \in S}
           P == {S \in SUBSET E : k[S] = g[Img(S)]}
<1>5. {} \in P
  <2>1. Img({}) = {} /\ {} \in SUBSET E /\ {} \in SUBSET D
    OBVIOUS
  <2>2. k[{}] = 0 /\ g[{}] = 0
    BY <1>2, <1>3, <2>1, SumsUnfold
  <2> QED
    BY <2>1, <2>2
<1>6. ASSUME NEW S \in SUBSET E, S # {}, \A x \in S : S \ {x} \in P
      PROVE  S \in P
  <2>1. PICK x \in S : TRUE
    BY <1>6
  <2>2. k[S] = e[x] + k[S \ {x}]
    BY <1>3, SumsAnyFirst DEF AnyFirst
  <2>3. Img(S) \in SUBSET D /\ h[x] \in Img(S)
    BY <1>4
  <2>4. Img(S) \ {h[x]} = Img(S \ {x})
    BY <1>4
  <2>5. g[Img(S)] = f[h[x]] + g[Img(S) \ {h[x]}]
    <3> HIDE DEF Img
    <3> QED
      BY <1>2, <2>3, SumsAnyFirst DEF AnyFirst
  <2>6. k[S \ {x}] = g[Img(S \ {x})]
    BY <1>6
  <2> HIDE DEF Img
  <2>7. k[S] = g[Img(S)]
    BY <2>2, <2>4, <2>5, <2>6
  <2> QED
    BY <2>7
<1>7. SUBSET E \subseteq P
  <2> HIDE DEF P
  <2> QED
    BY <1>5, <1>6, SubsetInduction
<1>8. Img(E) = D
  BY <1>4
<1>9. k[E] = g[Img(E)]
  <2> HIDE DEF Img
  <2> QED
    BY <1>7
<1> HIDE DEF Img
<1> QED
  BY <1>2, <1>3, <1>8, <1>9

\* It is a natural number if every summand is.
LEMMA SumIsNat ==
  ASSUME NEW D, IsFiniteSet(D), NEW f \in [D -> Nat]
  PROVE  SumFunction(f) \in Nat
<1>1. DOMAIN f = D
  OBVIOUS
<1>2. PICK g : Sums(f, D, g) /\ SumFunction(f) = g[D]
  BY <1>1, SumFunctionIsSum
<1> DEFINE P == {S \in SUBSET D : g[S] \in Nat}
<1>3. {} \in P
  BY <1>2, SumsUnfold
<1>4. ASSUME NEW S \in SUBSET D, S # {}, \A x \in S : S \ {x} \in P
      PROVE  S \in P
  <2>1. PICK x \in S : g[S] = f[x] + g[S \ {x}]
    BY <1>2, <1>4, SumsUnfold
  <2>2. f[x] \in Nat /\ g[S \ {x}] \in Nat
    BY <1>4
  <2> QED
    BY <2>1, <2>2
<1>5. SUBSET D \subseteq P
  <2> HIDE DEF P
  <2> QED
    BY <1>3, <1>4, SubsetInduction
<1> QED
  BY <1>2, <1>5

\* The sums over the subsets, whatever element is taken first.
Adds(f, D, g) ==
  /\ SumFunction(f) = g[D] /\ g[{}] = 0
  /\ \A S \in SUBSET D : g[S] \in Int /\ \A x \in S : g[S] = f[x] + g[S \ {x}]

LEMMA SumAdds ==
  ASSUME NEW D, IsFiniteSet(D), NEW f \in [D -> Int]
  PROVE  \E g : Adds(f, D, g)
<1>1. DOMAIN f = D
  OBVIOUS
<1>2. PICK g : Sums(f, D, g) /\ SumFunction(f) = g[D]
  BY <1>1, SumFunctionIsSum
<1>3. g[{}] = 0
  BY <1>2, SumsUnfold
<1>4. \A S \in SUBSET D : g[S] \in Int
  BY <1>2, SumsInt
<1>5. AnyFirst(f, D, g)
  BY <1>2, SumsAnyFirst
<1> QED
  BY <1>2, <1>3, <1>4, <1>5 DEF Adds, AnyFirst

\* Larger summands have a larger sum.
LEMMA SumMonotone ==
  ASSUME NEW D, IsFiniteSet(D), NEW e \in [D -> Int], NEW f \in [D -> Int],
         \A x \in D : e[x] <= f[x]
  PROVE  SumFunction(e) <= SumFunction(f)
<1>1. PICK k : Adds(e, D, k)
  BY SumAdds
<1>2. PICK g : Adds(f, D, g)
  BY SumAdds
<1> DEFINE P == {S \in SUBSET D : k[S] <= g[S]}
<1>3. {} \in P
  <2>1. k[{}] = 0 /\ g[{}] = 0
    BY <1>1, <1>2 DEF Adds
  <2> QED
    BY <2>1
<1>4. ASSUME NEW S \in SUBSET D, S # {}, \A x \in S : S \ {x} \in P
      PROVE  S \in P
  <2>1. PICK x \in S : TRUE
    BY <1>4
  <2>2. k[S] = e[x] + k[S \ {x}]
    BY <1>1 DEF Adds
  <2>3. g[S] = f[x] + g[S \ {x}]
    BY <1>2 DEF Adds
  <2>4. k[S \ {x}] <= g[S \ {x}] /\ e[x] <= f[x]
    BY <1>4
  <2>5. k[S \ {x}] \in Int /\ g[S \ {x}] \in Int /\ e[x] \in Int /\ f[x] \in Int
    BY <1>1, <1>2 DEF Adds
  <2>6. k[S] <= g[S]
    BY <2>2, <2>3, <2>4, <2>5
  <2> QED
    BY <2>6
<1>5. SUBSET D \subseteq P
  <2> HIDE DEF P
  <2> QED
    BY <1>3, <1>4, SubsetInduction
<1> QED
  BY <1>1, <1>2, <1>5 DEF Adds

\* A factor of every summand is one of the sum.
LEMMA SumScaled ==
  ASSUME NEW D, IsFiniteSet(D), NEW f \in [D -> Int], NEW c \in Int,
         NEW e \in [D -> Int], \A x \in D : e[x] = c * f[x]
  PROVE  SumFunction(e) = c * SumFunction(f)
<1>1. PICK k : Adds(e, D, k)
  BY SumAdds
<1>2. PICK g : Adds(f, D, g)
  BY SumAdds
<1> DEFINE P == {S \in SUBSET D : k[S] = c * g[S]}
<1>3. {} \in P
  <2>1. k[{}] = 0 /\ g[{}] = 0
    BY <1>1, <1>2 DEF Adds
  <2> QED
    BY <2>1
<1>4. ASSUME NEW S \in SUBSET D, S # {}, \A x \in S : S \ {x} \in P
      PROVE  S \in P
  <2>1. PICK x \in S : TRUE
    BY <1>4
  <2>2. k[S] = e[x] + k[S \ {x}]
    BY <1>1 DEF Adds
  <2>3. g[S] = f[x] + g[S \ {x}]
    BY <1>2 DEF Adds
  <2>4. k[S \ {x}] = c * g[S \ {x}] /\ e[x] = c * f[x]
    BY <1>4
  <2>5. g[S \ {x}] \in Int /\ f[x] \in Int
    BY <1>1, <1>2 DEF Adds
  <2>6. \A a, b \in Int : c * a + c * b = c * (a + b)
    OBVIOUS
  <2>7. k[S] = c * g[S]
    BY <2>2, <2>3, <2>4, <2>5, <2>6
  <2> QED
    BY <2>7
<1>5. SUBSET D \subseteq P
  <2> HIDE DEF P
  <2> QED
    BY <1>3, <1>4, SubsetInduction
<1> QED
  BY <1>1, <1>2, <1>5 DEF Adds

\* Ones add up to their number.
LEMMA SumOfOnes ==
  ASSUME NEW D, IsFiniteSet(D), NEW f \in [D -> Int], \A x \in D : f[x] = 1
  PROVE  SumFunction(f) = Cardinality(D)
<1>1. DOMAIN f = D
  OBVIOUS
<1>2. PICK g : Sums(f, D, g) /\ SumFunction(f) = g[D]
  BY <1>1, SumFunctionIsSum
<1> DEFINE P == {S \in SUBSET D : g[S] = Cardinality(S)}
<1>3. {} \in P
  BY <1>2, SumsUnfold, FS_EmptySet
<1>4. ASSUME NEW S \in SUBSET D, S # {}, \A x \in S : S \ {x} \in P
      PROVE  S \in P
  <2>1. PICK x \in S : g[S] = f[x] + g[S \ {x}]
    BY <1>2, <1>4, SumsUnfold
  <2>2. IsFiniteSet(S)
    BY FS_Subset
  <2>3. Cardinality(S \ {x}) = Cardinality(S) - 1 /\ Cardinality(S) \in Nat
    BY <2>2, FS_RemoveElement, FS_CardinalityType
  <2>4. g[S \ {x}] = Cardinality(S \ {x}) /\ f[x] = 1
    BY <1>4
  <2>5. g[S] = Cardinality(S)
    BY <2>1, <2>3, <2>4
  <2> QED
    BY <2>5
<1>5. SUBSET D \subseteq P
  <2> HIDE DEF P
  <2> QED
    BY <1>3, <1>4, SubsetInduction
<1> QED
  BY <1>2, <1>5
=============================================================================
