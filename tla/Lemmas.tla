------------------------------- MODULE Lemmas -------------------------------
(***************************************************************************)
(* Facts about naturals, maxima and folds that the proofs of several       *)
(* components need.  The library's induction theorems take an operator as  *)
(* a parameter; the least element of a set of naturals takes their place:  *)
(* an induction on n is an argument about the least counterexample, and    *)
(* one on a finite set about the least subset that is one.                 *)
(***************************************************************************)
EXTENDS Integers, Sequences, FiniteSets, FiniteSetTheorems, WellFoundedInduction,
        FiniteSetsExt, SequencesExt, TLAPS

\* Every nonempty set of naturals has a least element.
LEMMA LeastElement ==
    ASSUME NEW T \in SUBSET Nat, T # {}
    PROVE  \E x \in T : \A y \in T : x <= y
<1> DEFINE Below == {0..x : x \in T}
<1>1. /\ Below \subseteq FiniteSubsetsOf(Nat)
      /\ Below # {}
  <2>1. ASSUME NEW x \in T PROVE 0..x \in FiniteSubsetsOf(Nat)
    <3>1. x \in Int /\ 0 \in Int /\ 0..x \in SUBSET Nat
      OBVIOUS
    <3>2. IsFiniteSet(0..x)
      BY <3>1, FS_Interval
    <3> QED BY <3>1, <3>2 DEF FiniteSubsetsOf
  <2> QED BY <2>1
<1>2. PICK b \in Below : \A c \in Below : <<c, b>> \notin StrictSubsetOrdering(Nat)
  BY <1>1, FS_StrictSubsetOrderingWellFounded, WFMin
<1>3. PICK x \in T : b = 0..x
  BY DEF Below
<1>4. ASSUME NEW y \in T, ~(x <= y)
      PROVE  FALSE
  <2>1. 0..y \in Below /\ 0..y \subseteq 0..x /\ 0..y # 0..x
    BY <1>4
  <2>2. <<0..y, 0..x>> \in StrictSubsetOrdering(Nat)
    BY <2>1 DEF StrictSubsetOrdering
  <2> QED BY <1>2, <1>3, <2>1, <2>2
<1> QED BY <1>4

\* A bounded, nonempty set of integers has a greatest element, and Max returns it.
LEMMA MaxOfIntegers ==
    ASSUME NEW S \in SUBSET Int, S # {}, NEW n \in Int, \A x \in S : x <= n
    PROVE  Max(S) \in S /\ \A x \in S : x <= Max(S)
<1> DEFINE T == {n - x : x \in S}
<1>1. T \in SUBSET Nat /\ T # {}
  <2>1. ASSUME NEW x \in S PROVE n - x \in Nat
    OBVIOUS
  <2> QED BY <2>1
<1>2. PICK d \in T : \A y \in T : d <= y
  BY <1>1, LeastElement
<1>3. PICK m \in S : d = n - m
  OBVIOUS
<1>4. \A x \in S : m >= x
  <2> SUFFICES ASSUME NEW x \in S PROVE m >= x
    OBVIOUS
  <2>1. n - m <= n - x
    BY <1>2, <1>3
  <2> QED BY <2>1
<1> QED BY <1>4 DEF Max

LEMMA MaxOfBounded ==
    ASSUME NEW S \in SUBSET Nat, S # {}, NEW n \in Nat, \A x \in S : x <= n
    PROVE  Max(S) \in S /\ \A x \in S : x <= Max(S)
<1>1. S \in SUBSET Int /\ n \in Int
  OBVIOUS
<1> QED BY <1>1, MaxOfIntegers

\* A minimum over more is no larger, a maximum no smaller.
LEMMA MinFalls ==
    ASSUME NEW few \in SUBSET Nat, NEW more \in SUBSET Nat, few \subseteq more, few # {}
    PROVE  Min(more) <= Min(few)
<1>1. PICK a \in few : \A x \in few : a <= x
  BY LeastElement
<1>2. PICK b \in more : \A x \in more : b <= x
  BY LeastElement
<1>3. Min(few) \in few /\ \A x \in few : Min(few) <= x
  BY <1>1 DEF Min
<1>4. Min(more) \in more /\ \A x \in more : Min(more) <= x
  BY <1>2 DEF Min
<1> QED BY <1>3, <1>4

LEMMA MaxRises ==
    ASSUME NEW few \in SUBSET Int, NEW more \in SUBSET Int, few \subseteq more, few # {},
           NEW bound \in Int, \A x \in more : x <= bound
    PROVE  Max(few) <= Max(more)
<1>1. Max(few) \in few
  BY MaxOfIntegers
<1>2. Max(more) \in more /\ \A x \in more : x <= Max(more)
  BY MaxOfIntegers
<1> QED BY <1>1, <1>2

\* A finite set of naturals is bounded.
LEMMA FiniteIsBounded ==
    ASSUME NEW S \in SUBSET Nat, IsFiniteSet(S)
    PROVE  \E n \in Nat : \A x \in S : x <= n
<1> DEFINE Bounded(U) == \E n \in Nat : \A x \in U : x <= n
           T == {U \in FiniteSubsetsOf(Nat) : ~Bounded(U)}
<1>1. SUFFICES ASSUME T # {} PROVE FALSE
  BY DEF FiniteSubsetsOf
<1>2. PICK U \in T : \A W \in T : <<W, U>> \notin StrictSubsetOrdering(Nat)
  <2>1. T \subseteq FiniteSubsetsOf(Nat)
    OBVIOUS
  <2> HIDE DEF T
  <2> QED BY <1>1, <2>1, FS_StrictSubsetOrderingWellFounded, WFMin
<1>3. U \in SUBSET Nat /\ IsFiniteSet(U) /\ ~Bounded(U)
  BY DEF FiniteSubsetsOf
<1>4. PICK x \in U : TRUE
  <2>1. U # {}
    BY <1>3
  <2> QED BY <2>1
<1> DEFINE W == U \ {x}
<1>5. W \in FiniteSubsetsOf(Nat) /\ <<W, U>> \in StrictSubsetOrdering(Nat)
  BY <1>3, <1>4, FS_RemoveElement DEF FiniteSubsetsOf, StrictSubsetOrdering
<1>6. Bounded(W)
  BY <1>2, <1>5
<1>7. PICK n \in Nat : \A y \in W : y <= n
  BY <1>6
<1> DEFINE m == IF x <= n THEN n ELSE x
<1>8. m \in Nat /\ \A y \in U : y <= m
  BY <1>3, <1>7
<1> QED BY <1>3, <1>8

\* The values of a function on a finite set are finitely many.
LEMMA FiniteRange ==
    ASSUME NEW S, IsFiniteSet(S), NEW f, DOMAIN f = S
    PROVE  IsFiniteSet({f[x] : x \in S})
<1> DEFINE T == {f[x] : x \in S}
           g == [x \in S |-> f[x]]
<1>1. g \in Surjection(S, T)
  BY DEF Surjection
<1> HIDE DEF g, T
<1>2. IsFiniteSet(T)
  BY <1>1, FS_Surjection
<1> QED BY <1>2 DEF T

\* A finite, nonempty set of naturals has a greatest element, and Max returns it.
LEMMA MaxOfFinite ==
    ASSUME NEW S \in SUBSET Nat, IsFiniteSet(S), S # {}
    PROVE  Max(S) \in S /\ \A x \in S : x <= Max(S)
BY FiniteIsBounded, MaxOfBounded

\* The greatest number up to n is n.
LEMMA MaxOfInterval == \A n \in Nat \ {0} : Max(1..n) = n /\ (1..n) \ {n} = 1..(n - 1)
<1> SUFFICES ASSUME NEW n \in Nat \ {0} PROVE Max(1..n) = n /\ (1..n) \ {n} = 1..(n - 1)
  OBVIOUS
<1>1. Max(1..n) \in 1..n /\ n <= Max(1..n)
  <2>1. 1..n \in SUBSET Nat /\ n \in 1..n /\ \A x \in 1..n : x <= n
    OBVIOUS
  <2> QED BY <2>1, MaxOfBounded
<1> QED BY <1>1

\* g is the recursive function of a fold over the positions 1..k: it takes the greatest
\* position off a set of them, and F[i] is the step at position i.
FoldsTo(g, k, V, base, F) ==
    /\ g \in [SUBSET (1..k) -> V]
    /\ \A s \in SUBSET (1..k) : g[s] = IF s = {} THEN base ELSE F[Max(s)][g[s \ {Max(s)}]]

\* Each position's step maps V to itself.
Steps(F, n, V) == \A k \in 1..n : F[k] \in [V -> V]

\* One more position.
LEMMA FoldExtends ==
    ASSUME NEW V, NEW base \in V, NEW k \in Nat \ {0}, NEW F, F[k] \in [V -> V],
           NEW g, FoldsTo(g, k - 1, V, base, F)
    PROVE  \E h : FoldsTo(h, k, V, base, F)
<1> DEFINE h == [s \in SUBSET (1..k) |-> IF k \in s THEN F[k][g[s \ {k}]] ELSE g[s]]
<1>1. \A s \in SUBSET (1..k) : s \ {k} \in SUBSET (1..(k - 1))
  OBVIOUS
<1>2. h \in [SUBSET (1..k) -> V]
  BY <1>1 DEF FoldsTo
<1>3. ASSUME NEW s \in SUBSET (1..k)
      PROVE  h[s] = IF s = {} THEN base ELSE F[Max(s)][h[s \ {Max(s)}]]
  <2>1. s \in SUBSET Nat /\ \A x \in s : x \in Nat /\ x <= k
    OBVIOUS
  <2>2. CASE k \in s
    <3>1. Max(s) \in s /\ k <= Max(s)
      BY <2>1, <2>2, MaxOfBounded
    <3>2. Max(s) = k
      BY <2>1, <3>1
    <3>3. s \ {k} \in SUBSET (1..k) /\ k \notin s \ {k}
      OBVIOUS
    <3> QED BY <2>2, <3>2, <3>3
  <2>3. CASE k \notin s
    <3>1. s \in SUBSET (1..(k - 1)) /\ h[s] = g[s]
      BY <1>1, <2>3
    <3>2. CASE s # {}
      <4>1. Max(s) \in s
        BY <2>1, <3>2, MaxOfBounded
      <4>2. s \ {Max(s)} \in SUBSET (1..k) /\ h[s \ {Max(s)}] = g[s \ {Max(s)}]
        BY <2>3
      <4> QED BY <3>1, <3>2, <4>2 DEF FoldsTo
    <3> QED BY <3>1, <3>2 DEF FoldsTo
  <2> QED BY <2>2, <2>3
<1>4. FoldsTo(h, k, V, base, F)
  BY <1>2, <1>3 DEF FoldsTo
<1> HIDE DEF h
<1> QED BY <1>4

\* The recursive function of a fold exists.
LEMMA FoldExists ==
    ASSUME NEW V, NEW base \in V, NEW n \in Nat, NEW F, Steps(F, n, V)
    PROVE  \E g : FoldsTo(g, n, V, base, F)
<1> DEFINE Missing == {k \in 0..n : ~\E g : FoldsTo(g, k, V, base, F)}
<1>1. SUFFICES ASSUME Missing # {} PROVE FALSE
  OBVIOUS
<1>2. PICK k \in Missing : \A m \in Missing : k <= m
  <2>1. Missing \in SUBSET Nat
    OBVIOUS
  <2> HIDE DEF Missing
  <2> QED BY <1>1, <2>1, LeastElement
<1>3. CASE k = 0
  <2> DEFINE g == [s \in SUBSET (1..0) |-> base]
  <2>1. FoldsTo(g, 0, V, base, F)
    BY DEF FoldsTo
  <2> HIDE DEF g
  <2> QED BY <1>2, <1>3, <2>1
<1>4. CASE k # 0
  <2>1. k \in 1..n /\ k - 1 \in 0..n /\ k - 1 < k /\ ~\E h : FoldsTo(h, k, V, base, F)
    BY <1>4
  <2>2. k - 1 \notin Missing
    <3>1. ~(k <= k - 1)
      BY <2>1
    <3> QED BY ONLY <3>1, <1>2
  <2>3. PICK g : FoldsTo(g, k - 1, V, base, F)
    BY <2>1, <2>2
  <2>4. F[k] \in [V -> V]
    BY <2>1 DEF Steps
  <2> QED BY <2>1, <2>3, <2>4, FoldExtends
<1> QED BY <1>3, <1>4

\* T[k] is what a fold holds after k of n positions.
Totals(T, n, V, base, F) ==
    /\ T \in [0..n -> V]
    /\ T[0] = base
    /\ \A k \in 1..n : T[k] = F[k][T[k - 1]]

\* h is a recursive function a fold is defined by, whatever it is outside of V.
FoldsThrough(h, n, V, base, F) ==
    /\ h[{}] = base
    /\ \A t \in SUBSET (1..n) :
          t # {} /\ h[t \ {Max(t)}] \in V => h[t] = F[Max(t)][h[t \ {Max(t)}]]

\* The recursive function a fold is defined by, whatever it is outside of V, runs
\* through its totals.
LEMMA FoldTotals ==
    ASSUME NEW V, NEW base \in V, NEW n \in Nat, NEW F, Steps(F, n, V),
           NEW h, FoldsThrough(h, n, V, base, F)
    PROVE  \E T : Totals(T, n, V, base, F) /\ T[n] = h[1..n]
<1> DEFINE T == [k \in 0..n |-> h[1..k]]
           Wrong == {k \in 0..n : T[k] \notin V}
<1>1. ASSUME NEW k \in 1..n, T[k - 1] \in V PROVE T[k] = F[k][T[k - 1]]
  <2>1. k \in Nat \ {0} /\ 1..k \in SUBSET (1..n) /\ 1..k # {} /\ k - 1 \in 0..n
    OBVIOUS
  <2>2. Max(1..k) = k /\ (1..k) \ {k} = 1..(k - 1)
    BY <2>1, MaxOfInterval
  <2>3. T[k - 1] = h[(1..k) \ {k}]
    BY <2>1, <2>2
  <2>4. T[k] = h[1..k]
    OBVIOUS
  <2> HIDE DEF T
  <2> QED BY <1>1, <2>1, <2>2, <2>3, <2>4 DEF FoldsThrough
<1>2. T[0] = base
  <2>1. 1..0 = {}
    OBVIOUS
  <2> QED BY <2>1 DEF FoldsThrough
<1>3. Wrong = {}
  <2>1. SUFFICES ASSUME Wrong # {} PROVE FALSE
    OBVIOUS
  <2>2. Wrong \in SUBSET Nat
    OBVIOUS
  <2>3. PICK k \in Wrong : \A m \in Wrong : k <= m
    <3> HIDE DEF Wrong
    <3> QED BY <2>1, <2>2, LeastElement
  <2>4. k # 0 /\ k \in 0..n /\ T[k] \notin V
    BY <1>2
  <2>5. k \in 1..n /\ k - 1 \in 0..n /\ ~(k <= k - 1)
    BY <2>4
  <2>6. k - 1 \notin Wrong
    BY ONLY <2>3, <2>5
  <2>7. T[k - 1] \in V
    BY <2>5, <2>6
  <2> HIDE DEF T
  <2>8. F[k][T[k - 1]] \in V
    BY <2>5, <2>7 DEF Steps
  <2> QED BY <1>1, <2>4, <2>5, <2>7, <2>8
<1>4. \A k \in 0..n : T[k] \in V
  BY <1>3
<1>5. T \in [0..n -> V]
  BY <1>4
<1>6. \A k \in 1..n : k - 1 \in 0..n
  OBVIOUS
<1>7. Totals(T, n, V, base, F)
  <2> HIDE DEF T
  <2> QED BY <1>1, <1>2, <1>4, <1>5, <1>6 DEF Totals
<1>8. T[n] = h[1..n]
  OBVIOUS
<1> HIDE DEF T
<1> QED BY <1>7, <1>8

\* h is a recursive function a sum is defined by, with weight w[k] at position k,
\* whatever it is where it is not an integer.
SumsThrough(h, n, w, base) ==
    /\ h[{}] = base
    /\ \A t \in SUBSET (1..n) :
          t # {} /\ h[t \ {Max(t)}] \in Int => h[t] = h[t \ {Max(t)}] + w[Max(t)]

LEMMA SumExists ==
    ASSUME NEW n \in Nat, NEW w \in [1..n -> Int], NEW base \in Int
    PROVE  \E g \in [SUBSET (1..n) -> Int] : SumsThrough(g, n, w, base)
<1> DEFINE F == [k \in 1..n |-> [v \in Int |-> v + w[k]]]
<1>1. Steps(F, n, Int)
  BY DEF Steps
<1>2. PICK g : FoldsTo(g, n, Int, base, F)
  <2> HIDE DEF F
  <2> QED BY <1>1, FoldExists
<1>3. \A t \in SUBSET (1..n) : t # {} => Max(t) \in 1..n
  <2> SUFFICES ASSUME NEW t \in SUBSET (1..n), t # {} PROVE Max(t) \in 1..n
    OBVIOUS
  <2>1. t \in SUBSET Nat /\ \A x \in t : x <= n
    OBVIOUS
  <2> QED BY <2>1, MaxOfBounded
<1>4. ASSUME NEW t \in SUBSET (1..n), t # {}, g[t \ {Max(t)}] \in Int
      PROVE  g[t] = g[t \ {Max(t)}] + w[Max(t)]
  <2>1. Max(t) \in 1..n
    BY <1>3, <1>4
  <2>2. F[Max(t)][g[t \ {Max(t)}]] = g[t \ {Max(t)}] + w[Max(t)]
    BY <1>4, <2>1
  <2> HIDE DEF F
  <2>3. g[t] = F[Max(t)][g[t \ {Max(t)}]]
    BY <1>2, <1>4 DEF FoldsTo
  <2> QED BY <2>2, <2>3
<1> HIDE DEF F
<1>5. g \in [SUBSET (1..n) -> Int] /\ g[{}] = base
  BY <1>2 DEF FoldsTo
<1> QED BY <1>4, <1>5 DEF SumsThrough

\* T[k] is the sum up to position k.
Running(T, n, w, base) ==
    T \in [0..n -> Int] /\ T[0] = base /\ \A k \in 1..n : T[k] = T[k - 1] + w[k]

\* A sum has running totals.
LEMMA SumTotals ==
    ASSUME NEW n \in Nat, NEW w \in [1..n -> Int], NEW base \in Int, NEW h, SumsThrough(h, n, w, base)
    PROVE  \E T : Running(T, n, w, base) /\ T[n] = h[1..n]
<1> DEFINE F == [k \in 1..n |-> [v \in Int |-> v + w[k]]]
<1>1. Steps(F, n, Int)
  BY DEF Steps
<1>2. FoldsThrough(h, n, Int, base, F)
  <2>1. h[{}] = base
    BY DEF SumsThrough
  <2>2. ASSUME NEW t \in SUBSET (1..n), t # {}, h[t \ {Max(t)}] \in Int
        PROVE  h[t] = F[Max(t)][h[t \ {Max(t)}]]
    <3>1. t \in SUBSET Nat /\ \A x \in t : x <= n
      OBVIOUS
    <3>2. Max(t) \in 1..n
      BY <2>2, <3>1, MaxOfBounded
    <3>3. F[Max(t)][h[t \ {Max(t)}]] = h[t \ {Max(t)}] + w[Max(t)]
      BY <2>2, <3>2
    <3>4. h[t] = h[t \ {Max(t)}] + w[Max(t)]
      BY <2>2 DEF SumsThrough
    <3> QED BY <3>3, <3>4
  <2> HIDE DEF F
  <2> QED BY <2>1, <2>2 DEF FoldsThrough
<1>3. PICK T : Totals(T, n, Int, base, F) /\ T[n] = h[1..n]
  <2> DEFINE V == Int
  <2>1. base \in V /\ Steps(F, n, V)
    BY <1>1
  <2>2. FoldsThrough(h, n, V, base, F)
    BY <1>2
  <2> HIDE DEF F
  <2>3. \E T : Totals(T, n, V, base, F) /\ T[n] = h[1..n]
    <3> HIDE DEF V
    <3> QED BY <2>1, <2>2, FoldTotals
  <2> QED BY <2>3
<1>4. T \in [0..n -> Int] /\ T[0] = base
  BY <1>3 DEF Totals
<1>5. ASSUME NEW k \in 1..n PROVE T[k] = T[k - 1] + w[k]
  <2>1. k - 1 \in 0..n
    OBVIOUS
  <2>2. T[k - 1] \in Int
    BY <1>4, <2>1
  <2>3. F[k][T[k - 1]] = T[k - 1] + w[k]
    BY <2>2
  <2> HIDE DEF F
  <2> QED BY <1>3, <2>3 DEF Totals
<1> HIDE DEF F
<1> QED BY <1>3, <1>4, <1>5 DEF Running

\* Two running totals with the same steps move alike.
LEMMA TotalsAgree ==
    ASSUME NEW n \in Nat, NEW T, NEW U,
           \A k \in 0..n : T[k] \in Int /\ U[k] \in Int,
           \A k \in 1..n : T[k] - T[k - 1] = U[k] - U[k - 1]
    PROVE  T[n] - T[0] = U[n] - U[0]
<1> DEFINE Off == {k \in 0..n : T[k] - T[0] # U[k] - U[0]}
<1>1. SUFFICES ASSUME Off # {} PROVE FALSE
  <2>1. n \in 0..n
    OBVIOUS
  <2> QED BY <2>1
<1>2. PICK k \in Off : \A j \in Off : k <= j
  <2>1. Off \in SUBSET Nat
    OBVIOUS
  <2> HIDE DEF Off
  <2> QED BY <1>1, <2>1, LeastElement
<1>3. k \in 0..n /\ T[k] - T[0] # U[k] - U[0]
  OBVIOUS
<1>4. T[0] \in Int /\ U[0] \in Int
  OBVIOUS
<1>5. k # 0
  BY <1>3, <1>4
<1>6. k - 1 \in 0..n /\ k \in 1..n /\ ~(k <= k - 1)
  BY <1>3, <1>5
<1>7. T[k - 1] - T[0] = U[k - 1] - U[0]
  BY <1>2, <1>6
<1>8. T[k] \in Int /\ T[k - 1] \in Int /\ U[k] \in Int /\ U[k - 1] \in Int
  BY <1>6
<1>9. T[k] - T[k - 1] = U[k] - U[k - 1]
  BY <1>6
<1> HIDE DEF Off
<1> QED BY <1>3, <1>4, <1>7, <1>8, <1>9
-----------------------------------------------------------------------------
(* Sums over a finite set.                                                 *)

\* A nonempty set of subsets of a finite set has a least one.
LEMMA LeastSubset ==
    ASSUME NEW S, IsFiniteSet(S), NEW T \in SUBSET (SUBSET S), T # {}
    PROVE  \E U \in T : \A W \in T : W \subseteq U => W = U
<1>1. T \subseteq FiniteSubsetsOf(S)
  BY FS_FiniteSubsetsOfFinite
<1>2. PICK U \in T : \A W \in T : <<W, U>> \notin StrictSubsetOrdering(S)
  BY <1>1, FS_StrictSubsetOrderingWellFounded, WFMin
<1>3. ASSUME NEW W \in T, W \subseteq U, W # U PROVE FALSE
  <2>1. <<W, U>> \in StrictSubsetOrdering(S)
    BY <1>3 DEF StrictSubsetOrdering
  <2> QED BY <1>2, <2>1
<1> QED BY <1>3

\* The element a fold over a set takes off first.
PickOf(t) == CHOOSE x \in t : TRUE

\* h is the recursive function a sum over a set is defined by, with weight w[x] at x.
SetSums(h, S, w) ==
    h = [t \in SUBSET S |-> IF t = {} THEN 0 ELSE w[PickOf(t)] + h[t \ {PickOf(t)}]]

LEMMA PickFact == \A t : t # {} => PickOf(t) \in t
BY DEF PickOf

\* Its steps.
LEMMA SetSumsBase == \A S, w, h : SetSums(h, S, w) => h[{}] = 0
BY DEF SetSums

LEMMA SetSumsStep ==
    \A S, w, h, t : SetSums(h, S, w) /\ t \in SUBSET S /\ t # {} =>
        /\ PickOf(t) \in S /\ t \ {PickOf(t)} \in SUBSET S /\ t \ {PickOf(t)} # t
        /\ h[t] = w[PickOf(t)] + h[t \ {PickOf(t)}]
<1> SUFFICES ASSUME NEW S, NEW w, NEW h, NEW t, SetSums(h, S, w), t \in SUBSET S, t # {}
             PROVE  /\ PickOf(t) \in S /\ t \ {PickOf(t)} \in SUBSET S /\ t \ {PickOf(t)} # t
                    /\ h[t] = w[PickOf(t)] + h[t \ {PickOf(t)}]
  OBVIOUS
<1>1. PickOf(t) \in t
  BY PickFact
<1>2. h[t] = w[PickOf(t)] + h[t \ {PickOf(t)}]
  BY DEF SetSums
<1> QED BY <1>1, <1>2

\* Its values are integers, ...
LEMMA SetSumsType ==
    ASSUME NEW S, IsFiniteSet(S), NEW w \in [S -> Int], NEW h, SetSums(h, S, w)
    PROVE  h \in [SUBSET S -> Int]
<1> DEFINE T == {t \in SUBSET S : h[t] \notin Int}
<1>1. ASSUME T # {} PROVE FALSE
  <2>1. PICK t \in T : \A u \in T : u \subseteq t => u = t
    <3>1. T \in SUBSET (SUBSET S)
      OBVIOUS
    <3> HIDE DEF T
    <3> QED BY <1>1, <3>1, LeastSubset
  <2>2. t \in SUBSET S /\ h[t] \notin Int
    OBVIOUS
  <2>0. h[{}] = 0
    BY SetSumsBase
  <2>3. t # {}
    BY <2>0, <2>2
  <2>4. /\ PickOf(t) \in S /\ t \ {PickOf(t)} \in SUBSET S /\ t \ {PickOf(t)} # t
        /\ h[t] = w[PickOf(t)] + h[t \ {PickOf(t)}]
    BY <2>2, <2>3, SetSumsStep
  <2>5. t \ {PickOf(t)} \notin T
    BY <2>1, <2>4
  <2>6. h[t \ {PickOf(t)}] \in Int
    BY <2>4, <2>5
  <2> QED BY <2>2, <2>4, <2>6
<1>2. \A t \in SUBSET S : h[t] \in Int
  BY <1>1
<1>3. h = [t \in SUBSET S |-> h[t]]
  BY DEF SetSums
<1> QED BY <1>2, <1>3

\* ... a weight that changes at one element changes it by as much, ...
LEMMA SetSumsMove ==
    ASSUME NEW S, IsFiniteSet(S), NEW w \in [S -> Int], NEW v \in [S -> Int],
           NEW g, NEW h, SetSums(h, S, w), SetSums(g, S, v),
           NEW y, \A x \in S : x # y => v[x] = w[x]
    PROVE  \A t \in SUBSET S : g[t] = IF y \in t THEN h[t] + (v[y] - w[y]) ELSE h[t]
<1> DEFINE Fits(t) == g[t] = IF y \in t THEN h[t] + (v[y] - w[y]) ELSE h[t]
           T == {t \in SUBSET S : ~Fits(t)}
<1>1. ASSUME T # {} PROVE FALSE
  <2>1. PICK t \in T : \A u \in T : u \subseteq t => u = t
    <3>1. T \in SUBSET (SUBSET S)
      OBVIOUS
    <3> HIDE DEF T
    <3> QED BY <1>1, <3>1, LeastSubset
  <2>2. t \in SUBSET S /\ ~Fits(t)
    OBVIOUS
  <2>0. h[{}] = 0 /\ g[{}] = 0 /\ h[{}] \in Int
    <3> HIDE DEF T, Fits
    <3>1. SetSums(h, S, w) /\ SetSums(g, S, v)
      OBVIOUS
    <3>2. h[{}] = 0
      BY ONLY <3>1, SetSumsBase, Zenon
    <3>3. g[{}] = 0
      BY ONLY <3>1, SetSumsBase, Zenon
    <3> QED BY <3>2, <3>3
  <2>3. t # {}
    BY <2>0, <2>2
  <2> DEFINE p == PickOf(t)
             u == t \ {PickOf(t)}
  <2>4. p \in S /\ u \in SUBSET S /\ u # t /\ h[t] = w[p] + h[u] /\ g[t] = v[p] + g[u]
    <3> HIDE DEF T, Fits
    <3>1. SetSums(h, S, w) /\ SetSums(g, S, v) /\ t \in SUBSET S /\ t # {}
      BY <2>2, <2>3
    <3>2. p \in S /\ u \in SUBSET S /\ u # t /\ h[t] = w[p] + h[u]
      BY ONLY <3>1, SetSumsStep
    <3>3. g[t] = v[p] + g[u]
      BY ONLY <3>1, SetSumsStep, Zenon
    <3> QED BY <3>2, <3>3
  <2>5. p \in t
    BY <2>3, PickFact
  <2>6. Fits(u)
    <3>1. u \notin T
      BY <2>1, <2>4
    <3> QED BY <2>4, <3>1
  <2>7. h[u] \in Int /\ g[u] \in Int /\ w[p] \in Int /\ v[p] \in Int
    <3>1. h \in [SUBSET S -> Int]
      BY SetSumsType
    <3>2. g \in [SUBSET S -> Int]
      BY SetSumsType
    <3> HIDE DEF p, u
    <3> QED BY <2>4, <3>1, <3>2
  <2>8. y \in t => w[y] \in Int /\ v[y] \in Int
    BY <2>2
  <2>9. CASE p = y
    <3>1. y \notin u /\ y \in t
      BY <2>5, <2>9
    <3> HIDE DEF p, u
    <3>2. g[u] = h[u]
      BY <2>6, <3>1
    <3>3. g[t] = h[t] + (v[y] - w[y])
      BY <2>4, <2>7, <2>9, <3>2
    <3> QED BY <2>2, <3>1, <3>3
  <2>10. CASE p # y
    <3>1. (y \in u) = (y \in t) /\ v[p] = w[p]
      BY <2>4, <2>10
    <3> HIDE DEF p, u
    <3> QED BY <2>2, <2>4, <2>6, <2>7, <2>8, <3>1
  <2> QED BY <2>9, <2>10
<1> QED BY <1>1

\* ... without a weight it is zero, ...
LEMMA SetSumsZero ==
    ASSUME NEW S, IsFiniteSet(S), NEW w, \A x \in S : w[x] = 0, NEW h, SetSums(h, S, w)
    PROVE  h[S] = 0
<1> DEFINE T == {t \in SUBSET S : h[t] # 0}
<1>1. ASSUME T # {} PROVE FALSE
  <2>1. PICK t \in T : \A u \in T : u \subseteq t => u = t
    <3>1. T \in SUBSET (SUBSET S)
      OBVIOUS
    <3> HIDE DEF T
    <3> QED BY <1>1, <3>1, LeastSubset
  <2>2. t \in SUBSET S /\ h[t] # 0
    OBVIOUS
  <2>0. h[{}] = 0
    BY SetSumsBase
  <2>3. t # {}
    BY <2>0, <2>2
  <2>4. /\ PickOf(t) \in S /\ t \ {PickOf(t)} \in SUBSET S /\ t \ {PickOf(t)} # t
        /\ h[t] = w[PickOf(t)] + h[t \ {PickOf(t)}]
    BY <2>2, <2>3, SetSumsStep
  <2>5. h[t \ {PickOf(t)}] = 0
    BY <2>1, <2>4
  <2> QED BY <2>2, <2>4, <2>5
<1> QED BY <1>1

\* ... over part of the set it is the same function, ...
LEMMA SetSumsAgree ==
    ASSUME NEW S, NEW w, NEW h, SetSums(h, S, w), NEW U \in SUBSET S, IsFiniteSet(U), NEW g, SetSums(g, U, w)
    PROVE  g[U] = h[U]
<1> DEFINE T == {t \in SUBSET U : g[t] # h[t]}
<1>1. ASSUME T # {} PROVE FALSE
  <2>1. PICK t \in T : \A u \in T : u \subseteq t => u = t
    <3>1. T \in SUBSET (SUBSET U)
      OBVIOUS
    <3> HIDE DEF T
    <3> QED BY <1>1, <3>1, LeastSubset
  <2>2. t \in SUBSET U /\ t \in SUBSET S /\ g[t] # h[t]
    OBVIOUS
  <2>3. g[{}] = 0 /\ h[{}] = 0
    BY SetSumsBase
  <2>4. t # {}
    BY <2>2, <2>3
  <2>5. /\ t \ {PickOf(t)} \in SUBSET U /\ t \ {PickOf(t)} # t
        /\ g[t] = w[PickOf(t)] + g[t \ {PickOf(t)}]
    <3> HIDE DEF T
    <3> QED BY <2>2, <2>4, SetSumsStep, Zenon
  <2>6. h[t] = w[PickOf(t)] + h[t \ {PickOf(t)}]
    <3> HIDE DEF T
    <3> QED BY <2>2, <2>4, SetSumsStep, Zenon
  <2>7. g[t \ {PickOf(t)}] = h[t \ {PickOf(t)}]
    BY <2>1, <2>5
  <2> QED BY <2>2, <2>5, <2>6, <2>7
<1> QED BY <1>1

\* ... and it exists.
LEMMA SetSumsExist ==
    ASSUME NEW S, IsFiniteSet(S), NEW w \in [S -> Int]
    PROVE  \E h : SetSums(h, S, w)
<1> DEFINE T == {t \in SUBSET S : ~\E h : SetSums(h, t, w)}
<1>1. SUFFICES ASSUME T # {} PROVE FALSE
  OBVIOUS
<1>2. PICK U \in T : \A u \in T : u \subseteq U => u = U
  <2>1. T \in SUBSET (SUBSET S)
    OBVIOUS
  <2> HIDE DEF T
  <2> QED BY <1>1, <2>1, LeastSubset
<1>3. U \in SUBSET S /\ ~\E h : SetSums(h, U, w)
  OBVIOUS
<1> DEFINE Sol(t) == CHOOSE h : SetSums(h, t, w)
<1>4. ASSUME NEW t \in SUBSET U, t # U PROVE SetSums(Sol(t), t, w)
  <2>1. t \in SUBSET S /\ t \notin T
    BY <1>2, <1>3, <1>4
  <2>2. \E h : SetSums(h, t, w)
    BY <2>1
  <2> QED BY <2>2
<1> DEFINE k == [t \in SUBSET U |-> IF t = {} THEN 0 ELSE w[PickOf(t)] + Sol(t \ {PickOf(t)})[t \ {PickOf(t)}]]
<1>5. ASSUME NEW t \in SUBSET U, t # U PROVE k[t] = Sol(t)[t]
  <2>1. SetSums(Sol(t), t, w)
    BY <1>4, <1>5
  <2>2. CASE t = {}
    <3>1. Sol(t)[{}] = 0
      <4> HIDE DEF Sol
      <4> QED BY <2>1, SetSumsBase
    <3> QED BY <2>2, <3>1
  <2>3. CASE t # {}
    <3> DEFINE u == t \ {PickOf(t)}
    <3>1. PickOf(t) \in t /\ u \in SUBSET U /\ u # U /\ u \in SUBSET t
      BY <2>3, PickFact
    <3>2. SetSums(Sol(u), u, w)
      BY <1>4, <3>1
    <3>3. Sol(t)[t] = w[PickOf(t)] + Sol(t)[u]
      <4>1. PICK r, V : r = Sol(t) /\ V = t
        OBVIOUS
      <4>2. SetSums(r, V, w) /\ t \in SUBSET V
        BY <2>1, <4>1
      <4>3. r[t] = w[PickOf(t)] + r[t \ {PickOf(t)}]
        BY ONLY <2>3, <4>2, SetSumsStep, Zenon
      <4> QED BY <4>1, <4>3
    <3>4. Sol(u)[u] = Sol(t)[u]
      <4> HIDE DEF Sol, u
      <4>1. IsFiniteSet(u)
        BY <1>3, <3>1, FS_Subset
      <4> QED BY <2>1, <3>1, <3>2, <4>1, SetSumsAgree
    <3> QED BY <2>3, <3>3, <3>4
  <2> QED BY <2>2, <2>3
<1>6. ASSUME NEW t \in SUBSET U, t # {} PROVE k[t] = w[PickOf(t)] + k[t \ {PickOf(t)}]
  <2>1. t \ {PickOf(t)} \in SUBSET U /\ t \ {PickOf(t)} # U
    BY <1>6, PickFact
  <2>2. k[t \ {PickOf(t)}] = Sol(t \ {PickOf(t)})[t \ {PickOf(t)}]
    BY <1>5, <2>1
  <2> HIDE DEF Sol
  <2> QED BY <1>6, <2>2
<1>7. k[{}] = 0 /\ k = [t \in SUBSET U |-> k[t]]
  OBVIOUS
<1>8. SetSums(k, U, w)
  <2> HIDE DEF k
  <2> QED BY <1>6, <1>7 DEF SetSums
<1> QED BY <1>3, <1>8
=============================================================================
