-------------------------- MODULE PaperBooks_proofs --------------------------
(***************************************************************************)
(* Proofs about the books of the paper broker: the FIFO lots against the   *)
(* position, and cash against realised profit, for any sequence of fills.  *)
(* A fold over the lots is reasoned about through its running totals       *)
(* (Lemmas), as no induction theorem can be applied here.                  *)
(***************************************************************************)
EXTENDS PaperBroker_proofs

Lot == [side : Sides, remaining : Nat \ {0}, ref : Int, cost : Nat]

Units(s) == FoldLeft(LAMBDA n, lot : n + Direction(lot.side) * lot.remaining, 0, s)

Paid(base, s) ==
    FoldLeft(LAMBDA n, lot : n - Direction(lot.side) * lot.ref * lot.remaining - lot.cost, base, s)

Held(lot) == Direction(lot.side) * lot.remaining

Owed(lot) == 0 - Direction(lot.side) * lot.ref * lot.remaining - lot.cost

LEMMA LotFacts ==
    \A lot \in Lot : /\ Direction(lot.side) \in {1, -1}
                     /\ lot.remaining \in Nat \ {0} /\ lot.ref \in Int /\ lot.cost \in Nat
                     /\ Held(lot) \in Int /\ Owed(lot) \in Int
<1> SUFFICES ASSUME NEW lot \in Lot
             PROVE  /\ Direction(lot.side) \in {1, -1}
                    /\ lot.remaining \in Nat \ {0} /\ lot.ref \in Int /\ lot.cost \in Nat
                    /\ Held(lot) \in Int /\ Owed(lot) \in Int
  OBVIOUS
<1>1. Direction(lot.side) \in {1, -1} /\ lot.remaining \in Nat \ {0} /\ lot.ref \in Int /\ lot.cost \in Nat
  BY DEF Direction, Lot
<1>2. Direction(lot.side) * lot.ref * lot.remaining \in Int /\ Direction(lot.side) * lot.remaining \in Int
  BY <1>1
<1> QED BY <1>1, <1>2 DEF Held, Owed

LEMMA ProductFacts ==
    \A lot \in Lot : /\ Direction(lot.side) * lot.remaining \in Int
                     /\ Direction(lot.side) * lot.ref * lot.remaining \in Int /\ lot.cost \in Int
BY LotFacts

\* The running totals of the units in the lots.
LEMMA UnitsTotals ==
    ASSUME NEW s \in Seq(Lot)
    PROVE  \E T \in [0..Len(s) -> Int] :
              /\ T[0] = 0 /\ T[Len(s)] = Units(s)
              /\ \A k \in 1..Len(s) : T[k] = T[k - 1] + Held(s[k])
<1> DEFINE n == Len(s)
           w == [k \in 1..n |-> Held(s[k])]
           Rec(h) == h = [t \in SUBSET DOMAIN s |->
              IF t = {} THEN 0
              ELSE h[t \ {Max(t)}] + Direction(s[Max(t)].side) * s[Max(t)].remaining]
<1>1. Units(s) = (CHOOSE h : Rec(h))[DOMAIN s]
  BY DEF Units, FoldLeft, MapThenFoldSet
<1>2. DOMAIN s = 1..n /\ n \in Nat /\ \A k \in 1..n : s[k] \in Lot
  OBVIOUS
<1>3. w \in [1..n -> Int] /\ 0 \in Int
  BY <1>2, LotFacts
<1>4. ASSUME NEW t \in SUBSET (1..n), t # {}, NEW h, h[t \ {Max(t)}] \in Int
      PROVE  h[t \ {Max(t)}] + Direction(s[Max(t)].side) * s[Max(t)].remaining = h[t \ {Max(t)}] + w[Max(t)]
  <2>1. t \in SUBSET Nat /\ \A x \in t : x <= n
    BY <1>2
  <2>2. Max(t) \in 1..n
    BY <1>2, <1>4, <2>1, MaxOfBounded
  <2>3. s[Max(t)] \in Lot /\ w[Max(t)] = Held(s[Max(t)])
    BY <1>2, <2>2
  <2> HIDE DEF w
  <2> QED BY <1>4, <2>3, ProductFacts DEF Held
<1>5. PICK g \in [SUBSET (1..n) -> Int] : SumsThrough(g, n, w, 0)
  <2> HIDE DEF w, n
  <2> QED BY <1>2, <1>3, SumExists
<1>6. \A t \in SUBSET (1..n) : t # {} => g[t \ {Max(t)}] \in Int
  OBVIOUS
<1>7. Rec(g)
  <2>1. ASSUME NEW t \in SUBSET (1..n), t # {} PROVE g[t] = g[t \ {Max(t)}] + Direction(s[Max(t)].side) * s[Max(t)].remaining
    <3>1. g[t \ {Max(t)}] \in Int
      BY <1>6, <2>1
    <3>2. g[t] = g[t \ {Max(t)}] + w[Max(t)]
      BY <1>5, <2>1, <3>1 DEF SumsThrough
    <3>3. g[t \ {Max(t)}] + Direction(s[Max(t)].side) * s[Max(t)].remaining = g[t \ {Max(t)}] + w[Max(t)]
      BY <1>4, <2>1, <3>1
    <3> QED BY <3>2, <3>3
  <2>2. g[{}] = 0
    BY <1>5 DEF SumsThrough
  <2>3. g = [t \in SUBSET (1..n) |-> g[t]]
    OBVIOUS
  <2> HIDE DEF w, n
  <2> QED BY <1>2, <2>1, <2>2, <2>3
<1> DEFINE h == CHOOSE h : Rec(h)
<1>8. Rec(h)
  <2> HIDE DEF Rec
  <2> QED BY <1>7
<1> HIDE DEF h
<1>9. SumsThrough(h, n, w, 0)
  <2>1. h[{}] = 0
    BY <1>2, <1>8
  <2>2. ASSUME NEW t \in SUBSET (1..n), t # {}, h[t \ {Max(t)}] \in Int
        PROVE  h[t] = h[t \ {Max(t)}] + w[Max(t)]
    <3>1. h[t] = h[t \ {Max(t)}] + Direction(s[Max(t)].side) * s[Max(t)].remaining
      BY <1>2, <1>8, <2>2
    <3>2. h[t \ {Max(t)}] + Direction(s[Max(t)].side) * s[Max(t)].remaining = h[t \ {Max(t)}] + w[Max(t)]
      BY <1>4, <2>2
    <3> HIDE DEF Rec, w
    <3> QED BY <3>1, <3>2
  <2> HIDE DEF Rec, w, n
  <2> QED BY <2>1, <2>2 DEF SumsThrough
<1>10. PICK T : Running(T, n, w, 0) /\ T[n] = h[1..n]
  <2> HIDE DEF w, n, Rec
  <2>1. n \in Nat /\ w \in [1..n -> Int] /\ 0 \in Int
    BY <1>2, <1>3
  <2>2. \E T : Running(T, n, w, 0) /\ T[n] = h[1..n]
    BY <1>9, <2>1, SumTotals
  <2> QED BY <2>2
<1>11. Units(s) = T[n]
  BY <1>1, <1>2, <1>10 DEF h
<1> HIDE DEF Rec
<1> QED BY <1>2, <1>10, <1>11 DEF Running

\* The running totals of what the lots cost.
LEMMA PaidTotals ==
    ASSUME NEW s \in Seq(Lot), NEW base \in Int
    PROVE  \E T \in [0..Len(s) -> Int] :
              /\ T[0] = base /\ T[Len(s)] = Paid(base, s)
              /\ \A k \in 1..Len(s) : T[k] = T[k - 1] + Owed(s[k])
<1> DEFINE n == Len(s)
           w == [k \in 1..n |-> Owed(s[k])]
           Rec(h) == h = [t \in SUBSET DOMAIN s |->
              IF t = {} THEN base
              ELSE h[t \ {Max(t)}] - Direction(s[Max(t)].side) * s[Max(t)].ref * s[Max(t)].remaining - s[Max(t)].cost]
<1>1. Paid(base, s) = (CHOOSE h : Rec(h))[DOMAIN s]
  BY DEF Paid, FoldLeft, MapThenFoldSet
<1>2. DOMAIN s = 1..n /\ n \in Nat /\ \A k \in 1..n : s[k] \in Lot
  OBVIOUS
<1>3. w \in [1..n -> Int] /\ base \in Int
  BY <1>2, LotFacts
<1>4. ASSUME NEW t \in SUBSET (1..n), t # {}, NEW h, h[t \ {Max(t)}] \in Int
      PROVE  h[t \ {Max(t)}] - Direction(s[Max(t)].side) * s[Max(t)].ref * s[Max(t)].remaining - s[Max(t)].cost = h[t \ {Max(t)}] + w[Max(t)]
  <2>1. t \in SUBSET Nat /\ \A x \in t : x <= n
    BY <1>2
  <2>2. Max(t) \in 1..n
    BY <1>2, <1>4, <2>1, MaxOfBounded
  <2>3. s[Max(t)] \in Lot /\ w[Max(t)] = Owed(s[Max(t)])
    BY <1>2, <2>2
  <2> HIDE DEF w
  <2> QED BY <1>4, <2>3, ProductFacts DEF Owed
<1>5. PICK g \in [SUBSET (1..n) -> Int] : SumsThrough(g, n, w, base)
  <2> HIDE DEF w, n
  <2> QED BY <1>2, <1>3, SumExists
<1>6. \A t \in SUBSET (1..n) : t # {} => g[t \ {Max(t)}] \in Int
  OBVIOUS
<1>7. Rec(g)
  <2>1. ASSUME NEW t \in SUBSET (1..n), t # {} PROVE g[t] = g[t \ {Max(t)}] - Direction(s[Max(t)].side) * s[Max(t)].ref * s[Max(t)].remaining - s[Max(t)].cost
    <3>1. g[t \ {Max(t)}] \in Int
      BY <1>6, <2>1
    <3>2. g[t] = g[t \ {Max(t)}] + w[Max(t)]
      BY <1>5, <2>1, <3>1 DEF SumsThrough
    <3>3. g[t \ {Max(t)}] - Direction(s[Max(t)].side) * s[Max(t)].ref * s[Max(t)].remaining - s[Max(t)].cost = g[t \ {Max(t)}] + w[Max(t)]
      BY <1>4, <2>1, <3>1
    <3> QED BY <3>2, <3>3
  <2>2. g[{}] = base
    BY <1>5 DEF SumsThrough
  <2>3. g = [t \in SUBSET (1..n) |-> g[t]]
    OBVIOUS
  <2> HIDE DEF w, n
  <2> QED BY <1>2, <2>1, <2>2, <2>3
<1> DEFINE h == CHOOSE h : Rec(h)
<1>8. Rec(h)
  <2> HIDE DEF Rec
  <2> QED BY <1>7
<1> HIDE DEF h
<1>9. SumsThrough(h, n, w, base)
  <2>1. h[{}] = base
    BY <1>2, <1>8
  <2>2. ASSUME NEW t \in SUBSET (1..n), t # {}, h[t \ {Max(t)}] \in Int
        PROVE  h[t] = h[t \ {Max(t)}] + w[Max(t)]
    <3>1. h[t] = h[t \ {Max(t)}] - Direction(s[Max(t)].side) * s[Max(t)].ref * s[Max(t)].remaining - s[Max(t)].cost
      BY <1>2, <1>8, <2>2
    <3>2. h[t \ {Max(t)}] - Direction(s[Max(t)].side) * s[Max(t)].ref * s[Max(t)].remaining - s[Max(t)].cost = h[t \ {Max(t)}] + w[Max(t)]
      BY <1>4, <2>2
    <3> HIDE DEF Rec, w
    <3> QED BY <3>1, <3>2
  <2> HIDE DEF Rec, w, n
  <2> QED BY <2>1, <2>2 DEF SumsThrough
<1>10. PICK T : Running(T, n, w, base) /\ T[n] = h[1..n]
  <2> HIDE DEF w, n, Rec
  <2>1. n \in Nat /\ w \in [1..n -> Int] /\ base \in Int
    BY <1>2, <1>3
  <2>2. \E T : Running(T, n, w, base) /\ T[n] = h[1..n]
    BY <1>9, <2>1, SumTotals
  <2> QED BY <2>2
<1>11. Paid(base, s) = T[n]
  BY <1>1, <1>2, <1>10 DEF h
<1> HIDE DEF Rec
<1> QED BY <1>2, <1>10, <1>11 DEF Running

LEMMA EmptySums == \A base \in Int : Units(<<>>) = 0 /\ Paid(base, <<>>) = base
<1> SUFFICES ASSUME NEW base \in Int PROVE Units(<<>>) = 0 /\ Paid(base, <<>>) = base
  OBVIOUS
<1>1. <<>> \in Seq(Lot) /\ Len(<<>>) = 0
  OBVIOUS
<1>2. Units(<<>>) = 0
  BY <1>1, UnitsTotals
<1>3. Paid(base, <<>>) = base
  BY <1>1, PaidTotals
<1> QED BY <1>2, <1>3

LEMMA SequenceFacts ==
    ASSUME NEW s \in Seq(Lot), NEW lot \in Lot
    PROVE  /\ Append(s, lot) \in Seq(Lot) /\ Len(s) \in Nat /\ Len(Append(s, lot)) = Len(s) + 1
           /\ DOMAIN s = 1..Len(s) /\ \A k \in 1..Len(s) : Append(s, lot)[k] = s[k] /\ s[k] \in Lot
           /\ Append(s, lot)[Len(s) + 1] = lot
OBVIOUS

\* One lot more at the end.
LEMMA UnitsAppend ==
    ASSUME NEW s \in Seq(Lot), NEW lot \in Lot
    PROVE  Units(s) \in Int /\ Units(Append(s, lot)) = Units(s) + Held(lot)
<1> DEFINE n == Len(s)
           more == Append(s, lot)
<1>1. /\ more \in Seq(Lot) /\ n \in Nat /\ Len(more) = n + 1 /\ more[n + 1] = lot
      /\ \A k \in 1..n : more[k] = s[k] /\ s[k] \in Lot
  BY SequenceFacts
<1>2. PICK T \in [0..n -> Int] :
         T[0] = 0 /\ T[n] = Units(s) /\ \A k \in 1..n : T[k] = T[k - 1] + Held(s[k])
  BY UnitsTotals
<1> HIDE DEF n, more
<1>3. PICK U \in [0..(n + 1) -> Int] :
         U[0] = 0 /\ U[n + 1] = Units(more) /\ \A k \in 1..(n + 1) : U[k] = U[k - 1] + Held(more[k])
  <2>1. \E U \in [0..Len(more) -> Int] :
           U[0] = 0 /\ U[Len(more)] = Units(more) /\ \A k \in 1..Len(more) : U[k] = U[k - 1] + Held(more[k])
    BY <1>1, UnitsTotals
  <2> QED BY <1>1, <2>1
<1>4. \A k \in 0..n : T[k] \in Int /\ U[k] \in Int
  BY <1>1
<1>5. \A k \in 1..n : T[k] - T[k - 1] = U[k] - U[k - 1]
  <2>1. ASSUME NEW k \in 1..n PROVE T[k] - T[k - 1] = U[k] - U[k - 1]
    <3>1. k - 1 \in 0..n /\ k \in 1..(n + 1) /\ Held(s[k]) \in Int /\ more[k] = s[k]
      BY <1>1, LotFacts
    <3>2. T[k - 1] \in Int /\ U[k - 1] \in Int
      BY <1>4, <3>1
    <3>3. T[k] = T[k - 1] + Held(s[k]) /\ U[k] = U[k - 1] + Held(s[k])
      BY <1>2, <1>3, <3>1
    <3> QED BY <3>1, <3>2, <3>3
  <2> QED BY <2>1
<1>6. T[n] - T[0] = U[n] - U[0]
  BY <1>1, <1>4, <1>5, TotalsAgree
<1>7. T[n] \in Int /\ U[n] \in Int /\ U[n + 1] = U[n] + Held(lot)
  BY <1>1, <1>3, <1>4
<1> QED BY <1>2, <1>3, <1>6, <1>7 DEF more

LEMMA PaidAppend ==
    ASSUME NEW s \in Seq(Lot), NEW lot \in Lot, NEW base \in Int
    PROVE  Paid(base, s) \in Int /\ Paid(base, Append(s, lot)) = Paid(base, s) + Owed(lot)
<1> DEFINE n == Len(s)
           more == Append(s, lot)
<1>1. /\ more \in Seq(Lot) /\ n \in Nat /\ Len(more) = n + 1 /\ more[n + 1] = lot
      /\ \A k \in 1..n : more[k] = s[k] /\ s[k] \in Lot
  BY SequenceFacts
<1>2. PICK T \in [0..n -> Int] :
         T[0] = base /\ T[n] = Paid(base, s) /\ \A k \in 1..n : T[k] = T[k - 1] + Owed(s[k])
  BY PaidTotals
<1> HIDE DEF n, more
<1>3. PICK U \in [0..(n + 1) -> Int] :
         U[0] = base /\ U[n + 1] = Paid(base, more) /\ \A k \in 1..(n + 1) : U[k] = U[k - 1] + Owed(more[k])
  <2>1. \E U \in [0..Len(more) -> Int] :
           U[0] = base /\ U[Len(more)] = Paid(base, more) /\ \A k \in 1..Len(more) : U[k] = U[k - 1] + Owed(more[k])
    BY <1>1, PaidTotals
  <2> QED BY <1>1, <2>1
<1>4. \A k \in 0..n : T[k] \in Int /\ U[k] \in Int
  BY <1>1
<1>5. \A k \in 1..n : T[k] - T[k - 1] = U[k] - U[k - 1]
  <2>1. ASSUME NEW k \in 1..n PROVE T[k] - T[k - 1] = U[k] - U[k - 1]
    <3>1. k - 1 \in 0..n /\ k \in 1..(n + 1) /\ Owed(s[k]) \in Int /\ more[k] = s[k]
      BY <1>1, LotFacts
    <3>2. T[k - 1] \in Int /\ U[k - 1] \in Int
      BY <1>4, <3>1
    <3>3. T[k] = T[k - 1] + Owed(s[k]) /\ U[k] = U[k - 1] + Owed(s[k])
      BY <1>2, <1>3, <3>1
    <3> QED BY <3>1, <3>2, <3>3
  <2> QED BY <2>1
<1>6. T[n] - T[0] = U[n] - U[0]
  BY <1>1, <1>4, <1>5, TotalsAgree
<1>7. T[n] \in Int /\ U[n] \in Int /\ U[n + 1] = U[n] + Owed(lot)
  <2>1. n \in 0..n /\ n + 1 \in 1..(n + 1) /\ (n + 1) - 1 = n
    BY <1>1
  <2>2. U[n + 1] = U[n] + Owed(more[n + 1])
    BY <1>3, <2>1
  <2> QED BY <1>1, <1>4, <2>1, <2>2
<1> QED BY <1>2, <1>3, <1>6, <1>7 DEF more

\* What the lots cost does not depend on the profit they are counted from.
LEMMA PaidShift ==
    ASSUME NEW s \in Seq(Lot), NEW base \in Int
    PROVE  Paid(0, s) \in Int /\ Paid(base, s) = base + Paid(0, s)
<1> DEFINE n == Len(s)
<1>1. n \in Nat /\ 0 \in Int /\ \A k \in 1..n : s[k] \in Lot
  OBVIOUS
<1>2. PICK T \in [0..n -> Int] :
         T[0] = base /\ T[n] = Paid(base, s) /\ \A k \in 1..n : T[k] = T[k - 1] + Owed(s[k])
  BY PaidTotals
<1>3. PICK U \in [0..n -> Int] :
         U[0] = 0 /\ U[n] = Paid(0, s) /\ \A k \in 1..n : U[k] = U[k - 1] + Owed(s[k])
  BY <1>1, PaidTotals
<1> HIDE DEF n
<1>4. \A k \in 0..n : T[k] \in Int /\ U[k] \in Int
  BY <1>1
<1>5. \A k \in 1..n : T[k] - T[k - 1] = U[k] - U[k - 1]
  <2>1. ASSUME NEW k \in 1..n PROVE T[k] - T[k - 1] = U[k] - U[k - 1]
    <3>1. k - 1 \in 0..n /\ Owed(s[k]) \in Int
      BY <1>1, LotFacts
    <3>2. T[k - 1] \in Int /\ U[k - 1] \in Int
      BY <1>4, <3>1
    <3> QED BY <1>2, <1>3, <3>1, <3>2
  <2> QED BY <2>1
<1>6. T[n] - T[0] = U[n] - U[0]
  BY <1>1, <1>4, <1>5, TotalsAgree
<1>7. T[n] \in Int /\ U[n] \in Int
  BY <1>1, <1>4
<1> QED BY <1>2, <1>3, <1>6, <1>7

OneSided(s, side) == \A k \in DOMAIN s : s[k].side = side

\* Lots on one side add up to units of that side's sign.
LEMMA UnitsSign ==
    ASSUME NEW s \in Seq(Lot), NEW side \in Sides, OneSided(s, side)
    PROVE  Units(s) \in Int /\ Direction(side) * Units(s) >= Len(s)
<1> DEFINE n == Len(s)
           d == Direction(side)
<1>1. n \in Nat /\ \A k \in 1..n : s[k] \in Lot /\ s[k].side = side
  BY DEF OneSided
<1>2. PICK T \in [0..n -> Int] :
         T[0] = 0 /\ T[n] = Units(s) /\ \A k \in 1..n : T[k] = T[k - 1] + Held(s[k])
  BY UnitsTotals
<1>3. d \in {1, -1}
  BY DEF Direction
<1> DEFINE Low == {k \in 0..n : ~(d * T[k] >= k)}
<1> HIDE DEF n
<1>4. Low = {}
  <2>1. SUFFICES ASSUME Low # {} PROVE FALSE
    OBVIOUS
  <2>2. PICK k \in Low : \A j \in Low : k <= j
    <3>1. Low \in SUBSET Nat
      BY <1>1
    <3> HIDE DEF Low
    <3> QED BY <2>1, <3>1, LeastElement
  <2>3. k \in 0..n /\ ~(d * T[k] >= k)
    OBVIOUS
  <2>4. k # 0
    BY <1>2, <1>3, <2>3
  <2>5. k - 1 \in 0..n /\ k \in 1..n /\ ~(k <= k - 1)
    BY <1>1, <2>3, <2>4
  <2> HIDE DEF d
  <2>6. d * T[k - 1] >= k - 1
    BY <2>2, <2>5
  <2>7. T[k - 1] \in Int /\ T[k] = T[k - 1] + d * s[k].remaining /\ s[k].remaining \in Nat \ {0}
    <3>1. T[k] = T[k - 1] + Held(s[k]) /\ s[k] \in Lot /\ s[k].side = side
      BY <1>1, <1>2, <2>5
    <3> QED BY <2>5, <3>1, LotFacts DEF Held, d
  <2>8. CASE d = 1
    BY <2>3, <2>5, <2>6, <2>7, <2>8
  <2>9. CASE d = -1
    BY <2>3, <2>5, <2>6, <2>7, <2>9
  <2> QED BY <1>3, <2>8, <2>9
<1>5. d * T[n] >= n /\ T[n] \in Int
  <2>1. n \in 0..n
    BY <1>1
  <2> HIDE DEF d
  <2> QED BY <1>4, <2>1
<1> QED BY <1>2, <1>5 DEF n


-----------------------------------------------------------------------------
(* Closing lots.                                                           *)

Acc == [left : Nat, realised : Int, lots : Seq(Lot)]

\* The part of the entry cost that goes with a part of a lot.
LEMMA ShareFacts ==
    ASSUME NEW c \in Nat, NEW d \in Nat \ {0}, NEW k \in 0..d
    PROVE  (c * k) \div d \in 0..c /\ (k = d => (c * k) \div d = c)
<1> DEFINE q == (c * k) \div d
<1>1. c * k \in Nat /\ q \in Int /\ d * q <= c * k /\ c * k < d * (q + 1)
  OBVIOUS
<1>2. c * k <= c * d
  OBVIOUS
<1> HIDE DEF q
<1>3. q >= 0
  <2>1. SUFFICES ASSUME q + 1 <= 0 PROVE FALSE
    BY <1>1
  <2>2. d * (q + 1) <= 0
    BY <1>1, <2>1
  <2> QED BY <1>1, <2>2
<1>4. q <= c
  <2>1. SUFFICES ASSUME c + 1 <= q PROVE FALSE
    BY <1>1
  <2>2. d * (c + 1) <= d * q
    BY <1>1, <2>1
  <2> QED BY <1>1, <1>2, <2>2
<1>5. ASSUME k = d PROVE q = c
  <2>1. SUFFICES ASSUME q + 1 <= c PROVE FALSE
    BY <1>1, <1>4
  <2>2. d * (q + 1) <= d * c
    BY <1>1, <2>1
  <2> QED BY <1>1, <1>5, <2>2
<1> QED BY <1>1, <1>3, <1>4, <1>5 DEF q

\* What one turn of the FIFO loop does to the units, to what the remaining lots cost
\* and to the realised profit.
LEMMA CloseLotFacts ==
    ASSUME NEW acc \in Acc, NEW lot \in Lot, NEW ref \in Int
    PROVE  LET next == CloseLot(acc, lot, ref)
           IN  /\ next \in Acc /\ next.left <= acc.left
               /\ Units(next.lots) = Units(acc.lots) + Held(lot) - Direction(lot.side) * (acc.left - next.left)
               /\ next.realised + Paid(0, next.lots) =
                     acc.realised + Paid(0, acc.lots) + Owed(lot)
                       + (Direction(lot.side) * ref - UnitCost) * (acc.left - next.left)
               /\ next.left > 0 => next.lots = acc.lots
               /\ OneSided(acc.lots, lot.side) => OneSided(next.lots, lot.side)
<1> DEFINE d == Direction(lot.side)
           close == IF acc.left < lot.remaining THEN acc.left ELSE lot.remaining
           share == (lot.cost * close) \div lot.remaining
           rest == [lot EXCEPT !.remaining = @ - close, !.cost = @ - share]
           next == CloseLot(acc, lot, ref)
<1>1. /\ d \in {1, -1} /\ lot.remaining \in Nat \ {0} /\ lot.ref \in Int /\ lot.cost \in Nat /\ lot.side \in Sides
      /\ Held(lot) \in Int /\ Owed(lot) \in Int
  BY LotFacts DEF Lot
<1>2. acc.left \in Nat /\ acc.realised \in Int /\ acc.lots \in Seq(Lot)
  BY DEF Acc
<1>3. UnitCost \in Nat
  BY PaperBrokerConstants
<1>4. close \in 0..lot.remaining /\ close <= acc.left /\ (close < lot.remaining => close = acc.left)
  BY <1>1, <1>2
<1>5. /\ next.left = acc.left - close
      /\ next.realised = acc.realised + (d * (ref - lot.ref) * close - share - UnitCost * close)
      /\ next.lots = RemainingLots(acc.lots, rest)
      /\ next = [left |-> next.left, realised |-> next.realised, lots |-> next.lots]
  BY DEF CloseLot, CloseProfit
<1> HIDE DEF close
<1>6. share \in 0..lot.cost /\ (close = lot.remaining => share = lot.cost)
  BY <1>1, <1>4, ShareFacts
<1> HIDE DEF share, d, next
<1>7. next.left \in Nat /\ next.left <= acc.left /\ acc.left - next.left = close
  BY <1>2, <1>4, <1>5
<1>8. d * (ref - lot.ref) * close \in Int /\ UnitCost * close \in Int /\ share \in Int
  BY <1>1, <1>3, <1>4, <1>6
<1>9. next.realised \in Int
  BY <1>2, <1>5, <1>8
<1>10. CASE close = lot.remaining
  <2>1. rest.remaining = 0
    BY <1>1, <1>10 DEF Lot
  <2>2. next.lots = acc.lots
    BY <1>5, <2>1 DEF RemainingLots
  <2>3. next \in Acc
    BY <1>2, <1>5, <1>7, <1>9, <2>2 DEF Acc
  <2>4. Units(acc.lots) \in Int /\ Paid(0, acc.lots) \in Int
    BY <1>1, <1>2, UnitsAppend, PaidShift
  <2>5. Held(lot) = d * close
    BY <1>10 DEF Held, d
  <2>6. Units(next.lots) = Units(acc.lots) + Held(lot) - d * (acc.left - next.left)
    BY <1>1, <1>7, <2>2, <2>4, <2>5
  <2>7. Owed(lot) = 0 - d * lot.ref * close - share
    BY <1>6, <1>10 DEF Owed, d
  <2>8. d * (ref - lot.ref) * close = d * ref * close - d * lot.ref * close
    BY <1>1, <1>4
  <2>9. (d * ref - UnitCost) * close = d * ref * close - UnitCost * close
    BY <1>1, <1>3, <1>4
  <2>10. d * ref * close \in Int /\ d * lot.ref * close \in Int
    BY <1>1, <1>4
  <2>11. next.realised + Paid(0, next.lots) =
            acc.realised + Paid(0, acc.lots) + Owed(lot) + (d * ref - UnitCost) * (acc.left - next.left)
    <3> DEFINE a == d * ref * close
               b == d * lot.ref * close
               u == UnitCost * close
    <3>1. next.realised = acc.realised + (a - b - share - u)
      BY <1>5, <2>8
    <3>2. (d * ref - UnitCost) * (acc.left - next.left) = a - u
      BY <1>7, <2>9
    <3>3. Owed(lot) = 0 - b - share
      BY <2>7
    <3>4. a \in Int /\ b \in Int /\ u \in Int /\ share \in Int
      BY <1>8, <2>10
    <3> HIDE DEF a, b, u
    <3> QED BY <1>2, <2>2, <2>4, <3>1, <3>2, <3>3, <3>4
  <2> QED BY <1>7, <2>2, <2>3, <2>6, <2>11 DEF next, d
<1>11. CASE close < lot.remaining
  <2>1. /\ rest.remaining = lot.remaining - close /\ rest.cost = lot.cost - share
        /\ rest.side = lot.side /\ rest.ref = lot.ref
        /\ rest.remaining \in Nat \ {0} /\ rest.cost \in Nat
        /\ rest \in Lot
    <3> DEFINE r == lot.remaining - close
               c == lot.cost - share
    <3>1. r \in Nat \ {0} /\ c \in Nat
      BY <1>1, <1>4, <1>6, <1>11
    <3>2. rest = [lot EXCEPT !.remaining = r, !.cost = c]
      OBVIOUS
    <3> HIDE DEF r, c, rest
    <3>3. rest.remaining = r /\ rest.cost = c /\ rest.side = lot.side /\ rest.ref = lot.ref /\ rest \in Lot
      BY <3>1, <3>2 DEF Lot
    <3> QED BY <3>1, <3>3 DEF r, c
  <2> HIDE DEF rest
  <2>2. next.lots = Append(acc.lots, rest)
    BY <1>5, <2>1 DEF RemainingLots
  <2>3. next \in Acc
    <3>1. next.lots \in Seq(Lot)
      BY <1>2, <2>1, <2>2
    <3> QED BY <1>5, <1>7, <1>9, <3>1 DEF Acc
  <2>4. Units(acc.lots) \in Int /\ Units(next.lots) = Units(acc.lots) + Held(rest)
    BY <1>2, <2>1, <2>2, UnitsAppend
  <2>5. Paid(0, acc.lots) \in Int /\ Paid(0, next.lots) = Paid(0, acc.lots) + Owed(rest)
    <3>1. 0 \in Int
      OBVIOUS
    <3> QED BY <1>2, <2>1, <2>2, <3>1, PaidAppend
  <2>6. Held(rest) = d * (lot.remaining - close) /\ Held(lot) = d * lot.remaining
    BY <2>1 DEF Held, d
  <2>7. Units(next.lots) = Units(acc.lots) + Held(lot) - d * (acc.left - next.left)
    <3>1. d * (lot.remaining - close) = d * lot.remaining - d * close /\ d * close \in Int /\ d * lot.remaining \in Int
      BY <1>1, <1>4
    <3> QED BY <1>7, <2>4, <2>6, <3>1
  <2>8. /\ Owed(rest) = 0 - d * lot.ref * (lot.remaining - close) - (lot.cost - share)
        /\ Owed(lot) = 0 - d * lot.ref * lot.remaining - lot.cost
    BY <2>1 DEF Owed, d
  <2>9. d * lot.ref * (lot.remaining - close) = d * lot.ref * lot.remaining - d * lot.ref * close
    BY <1>1, <1>4
  <2>10. d * (ref - lot.ref) * close = d * ref * close - d * lot.ref * close
    BY <1>1, <1>4
  <2>11. (d * ref - UnitCost) * close = d * ref * close - UnitCost * close
    BY <1>1, <1>3, <1>4
  <2>12. d * ref * close \in Int /\ d * lot.ref * close \in Int /\ d * lot.ref * lot.remaining \in Int
    BY <1>1, <1>4
  <2>13. next.realised + Paid(0, next.lots) =
            acc.realised + Paid(0, acc.lots) + Owed(lot) + (d * ref - UnitCost) * (acc.left - next.left)
    <3> DEFINE a == d * ref * close
               b == d * lot.ref * close
               c == d * lot.ref * lot.remaining
               u == UnitCost * close
    <3>1. next.realised = acc.realised + (a - b - share - u)
      BY <1>5, <2>10
    <3>2. (d * ref - UnitCost) * (acc.left - next.left) = a - u
      BY <1>7, <2>11
    <3>3. Owed(lot) = 0 - c - lot.cost /\ Owed(rest) = 0 - (c - b) - (lot.cost - share)
      BY <2>8, <2>9
    <3>4. a \in Int /\ b \in Int /\ c \in Int /\ u \in Int /\ share \in Int /\ lot.cost \in Int
      BY <1>1, <1>8, <2>12
    <3> HIDE DEF a, b, c, u
    <3>5. Paid(0, next.lots) = Paid(0, acc.lots) - c + b - lot.cost + share
      BY <2>5, <3>3, <3>4
    <3>6. next.realised + Paid(0, next.lots) = acc.realised + Paid(0, acc.lots) + a - u - c - lot.cost
      BY <1>2, <2>5, <3>1, <3>4, <3>5
    <3>7. Paid(0, acc.lots) \in Int /\ acc.realised \in Int
      BY <1>2, <2>5 DEF Acc
    <3>8. Owed(lot) = 0 - c - lot.cost /\ (d * ref - UnitCost) * (acc.left - next.left) = a - u
      BY <3>2, <3>3
    <3> DEFINE sum == acc.realised + Paid(0, acc.lots)
    <3>9. sum \in Int /\ next.realised + Paid(0, next.lots) = sum + a - u - c - lot.cost
      BY <3>6, <3>7
    <3> HIDE DEF sum
    <3>10. sum + a - u - c - lot.cost = sum + (0 - c - lot.cost) + (a - u)
      BY <3>4, <3>9
    <3> QED BY <3>8, <3>9, <3>10 DEF sum
  <2>14. ~(next.left > 0)
    BY <1>2, <1>4, <1>5, <1>11
  <2>15. OneSided(acc.lots, lot.side) => OneSided(next.lots, lot.side)
    <3>1. /\ DOMAIN next.lots = 1..(Len(acc.lots) + 1) /\ Len(acc.lots) \in Nat /\ DOMAIN acc.lots = 1..Len(acc.lots)
          /\ \A k \in 1..Len(acc.lots) : next.lots[k] = acc.lots[k]
          /\ next.lots[Len(acc.lots) + 1] = rest
      BY <1>2, <2>1, <2>2
    <3> QED BY <2>1, <3>1 DEF OneSided
  <2> QED BY <1>7, <2>3, <2>7, <2>13, <2>14, <2>15 DEF next, d
<1> QED BY <1>1, <1>4, <1>10, <1>11

\* The FIFO loop of _apply_position over the lots s.
Closing(start, s, ref) == FoldLeft(LAMBDA acc, lot : CloseLot(acc, lot, ref), start, s)

\* A[k] is what the loop holds after k lots.
Turns(A, s, start, ref) ==
    /\ A \in [0..Len(s) -> Acc] /\ A[0] = start
    /\ \A k \in 1..Len(s) : A[k] = CloseLot(A[k - 1], s[k], ref)

LEMMA ClosingTurns ==
    ASSUME NEW s \in Seq(Lot), NEW start \in Acc, NEW ref \in Int
    PROVE  \E A : Turns(A, s, start, ref) /\ A[Len(s)] = Closing(start, s, ref)
<1> DEFINE n == Len(s)
           F == [k \in 1..n |-> [v \in Acc |-> CloseLot(v, s[k], ref)]]
           Rec(h) == h = [t \in SUBSET DOMAIN s |->
              IF t = {} THEN start ELSE CloseLot(h[t \ {Max(t)}], s[Max(t)], ref)]
<1>1. Closing(start, s, ref) = (CHOOSE h : Rec(h))[DOMAIN s]
  BY DEF Closing, FoldLeft, MapThenFoldSet
<1>2. DOMAIN s = 1..n /\ n \in Nat /\ \A k \in 1..n : s[k] \in Lot
  OBVIOUS
<1>3. Steps(F, n, Acc)
  BY <1>2, CloseLotFacts DEF Steps
<1>4. ASSUME NEW t \in SUBSET (1..n), t # {} PROVE Max(t) \in 1..n /\ t \ {Max(t)} \in SUBSET (1..n)
  <2>1. t \in SUBSET Nat /\ \A x \in t : x <= n
    BY <1>2
  <2> QED BY <1>2, <1>4, <2>1, MaxOfBounded
<1>5. ASSUME NEW t \in SUBSET (1..n), t # {}, NEW h, h[t \ {Max(t)}] \in Acc
      PROVE  F[Max(t)][h[t \ {Max(t)}]] = CloseLot(h[t \ {Max(t)}], s[Max(t)], ref)
  BY <1>4, <1>5
<1>6. PICK g : FoldsTo(g, n, Acc, start, F)
  <2> HIDE DEF F, n
  <2> QED BY <1>2, <1>3, FoldExists
<1>7. Rec(g)
  <2>1. ASSUME NEW t \in SUBSET (1..n), t # {}
        PROVE  g[t] = CloseLot(g[t \ {Max(t)}], s[Max(t)], ref)
    <3>1. g[t \ {Max(t)}] \in Acc
      BY <1>4, <1>6, <2>1 DEF FoldsTo
    <3>2. g[t] = F[Max(t)][g[t \ {Max(t)}]]
      <4> HIDE DEF F
      <4> QED BY <1>6, <2>1 DEF FoldsTo
    <3> QED BY <1>5, <2>1, <3>1, <3>2
  <2>2. g[{}] = start /\ g = [t \in SUBSET (1..n) |-> g[t]]
    <3> HIDE DEF F
    <3> QED BY <1>6 DEF FoldsTo
  <2> HIDE DEF F, n
  <2> QED BY <1>2, <2>1, <2>2
<1> DEFINE h == CHOOSE h : Rec(h)
<1>8. Rec(h)
  <2> HIDE DEF Rec
  <2> QED BY <1>7
<1> HIDE DEF h
<1>9. FoldsThrough(h, n, Acc, start, F)
  <2>1. h[{}] = start
    BY <1>2, <1>8
  <2>2. ASSUME NEW t \in SUBSET (1..n), t # {}, h[t \ {Max(t)}] \in Acc
        PROVE  h[t] = F[Max(t)][h[t \ {Max(t)}]]
    <3>1. h[t] = CloseLot(h[t \ {Max(t)}], s[Max(t)], ref)
      BY <1>2, <1>8, <2>2
    <3>2. F[Max(t)][h[t \ {Max(t)}]] = CloseLot(h[t \ {Max(t)}], s[Max(t)], ref)
      BY <1>5, <2>2
    <3> HIDE DEF Rec, F
    <3> QED BY <3>1, <3>2
  <2> HIDE DEF Rec, F, n
  <2> QED BY <2>1, <2>2 DEF FoldsThrough
<1>10. PICK A : Totals(A, n, Acc, start, F) /\ A[n] = h[1..n]
  <2> HIDE DEF Rec, F, n
  <2> QED BY <1>2, <1>3, <1>9, FoldTotals
<1>11. A[n] = Closing(start, s, ref)
  BY <1>1, <1>2, <1>10 DEF h
<1>12. A \in [0..n -> Acc] /\ A[0] = start
  BY <1>10 DEF Totals
<1>13. ASSUME NEW k \in 1..n PROVE A[k] = CloseLot(A[k - 1], s[k], ref)
  <2>1. A[k - 1] \in Acc
    BY <1>12
  <2>2. F[k][A[k - 1]] = CloseLot(A[k - 1], s[k], ref)
    BY <2>1
  <2> HIDE DEF F
  <2> QED BY <1>10, <2>2 DEF Totals
<1> HIDE DEF F, Rec
<1> QED BY <1>11, <1>12, <1>13 DEF Turns

\* A product with a distance, over a point between.
Apart(x, p, q, r) ==
    x * (p - q) \in Int /\ x * (q - r) \in Int /\ x * (p - r) = x * (p - q) + x * (q - r)

LEMMA Distances == \A x, p, q, r \in Int : Apart(x, p, q, r)
BY DEF Apart

\* What is left once the loop has closed lots that are all on one side.
LEMMA ClosingFacts ==
    ASSUME NEW s \in Seq(Lot), NEW side \in Sides, OneSided(s, side),
           NEW qty \in Nat, NEW profit \in Int, NEW ref \in Int
    PROVE  LET end == Closing([left |-> qty, realised |-> profit, lots |-> <<>>], s, ref)
           IN  /\ end \in Acc /\ end.left <= qty /\ OneSided(end.lots, side)
               /\ end.left > 0 => end.lots = <<>>
               /\ Units(end.lots) = Units(s) - Direction(side) * (qty - end.left)
               /\ end.realised + Paid(0, end.lots) =
                     profit + Paid(0, s) + (Direction(side) * ref - UnitCost) * (qty - end.left)
<1> DEFINE n == Len(s)
           d == Direction(side)
           e == d * ref - UnitCost
           start == [left |-> qty, realised |-> profit, lots |-> <<>>]
<1>1. n \in Nat /\ DOMAIN s = 1..n /\ \A k \in 1..n : s[k] \in Lot /\ s[k].side = side
  BY DEF OneSided
<1>2. start \in Acc /\ start.left = qty /\ start.realised = profit /\ start.lots = <<>>
  BY DEF Acc
<1>3. d \in {1, -1} /\ e \in Int
  <2>1. d \in {1, -1} /\ UnitCost \in Int
    BY PaperBrokerConstants DEF Direction
  <2> HIDE DEF d
  <2> QED BY <2>1
<1> HIDE DEF start
<1>4. PICK A : Turns(A, s, start, ref) /\ A[n] = Closing(start, s, ref)
  BY <1>2, ClosingTurns
<1>5. PICK T \in [0..n -> Int] :
         T[0] = 0 /\ T[n] = Units(s) /\ \A k \in 1..n : T[k] = T[k - 1] + Held(s[k])
  BY UnitsTotals
<1>6. PICK P \in [0..n -> Int] :
         P[0] = 0 /\ P[n] = Paid(0, s) /\ \A k \in 1..n : P[k] = P[k - 1] + Owed(s[k])
  <2>1. 0 \in Int
    OBVIOUS
  <2> QED BY <2>1, PaidTotals
<1>7. /\ \A k \in 0..n : A[k] \in Acc
      /\ A[0] = start
      /\ \A k \in 1..n : A[k] = CloseLot(A[k - 1], s[k], ref)
  BY <1>4 DEF Turns
<1> HIDE DEF n, d, e
<1> DEFINE Good(k) ==
              /\ A[k].left <= qty /\ OneSided(A[k].lots, side)
              /\ A[k].left > 0 => A[k].lots = <<>>
              /\ Units(A[k].lots) = T[k] - d * (qty - A[k].left)
              /\ A[k].realised + Paid(0, A[k].lots) = profit + P[k] + e * (qty - A[k].left)
<1>8. Good(0)
  <2>1. A[0].left = qty /\ A[0].realised = profit /\ A[0].lots = <<>>
    BY <1>2, <1>7
  <2>2. Units(<<>>) = 0 /\ Paid(0, <<>>) = 0
    BY EmptySums
  <2>3. d * (qty - qty) = 0 /\ e * (qty - qty) = 0
    BY <1>3
  <2>4. OneSided(A[0].lots, side)
    BY <2>1 DEF OneSided
  <2> QED BY <1>5, <1>6, <2>1, <2>2, <2>3, <2>4
<1>9. ASSUME NEW k \in 1..n, Good(k - 1) PROVE Good(k)
  <2> DEFINE a == A[k - 1]
             b == A[k]
             lot == s[k]
  <2>1. k - 1 \in 0..n /\ k \in 0..n
    BY <1>1
  <2>2. a \in Acc /\ b \in Acc /\ lot \in Lot /\ b = CloseLot(a, lot, ref) /\ Direction(lot.side) = d /\ lot.side = side
    BY <1>1, <1>7, <2>1 DEF d
  <2>3. /\ a.left \in Nat /\ a.realised \in Int /\ a.lots \in Seq(Lot)
        /\ b.left \in Nat /\ b.realised \in Int /\ b.lots \in Seq(Lot)
    BY <2>2 DEF Acc
  <2>4. /\ a.left <= qty /\ OneSided(a.lots, side)
        /\ a.left > 0 => a.lots = <<>>
        /\ Units(a.lots) = T[k - 1] - d * (qty - a.left)
        /\ a.realised + Paid(0, a.lots) = profit + P[k - 1] + e * (qty - a.left)
    BY <1>9
  <2>5. T[k] = T[k - 1] + Held(lot) /\ T[k - 1] \in Int /\ P[k] = P[k - 1] + Owed(lot) /\ P[k - 1] \in Int
    BY <1>5, <1>6, <2>1
  <2> HIDE DEF a, b, lot, Good
  <2>6. /\ b.left <= a.left
        /\ Units(b.lots) = Units(a.lots) + Held(lot) - d * (a.left - b.left)
        /\ b.realised + Paid(0, b.lots) = a.realised + Paid(0, a.lots) + Owed(lot) + e * (a.left - b.left)
        /\ b.left > 0 => b.lots = a.lots
        /\ OneSided(b.lots, side)
    BY <2>2, <2>4, CloseLotFacts DEF e
  <2>7. Held(lot) \in Int /\ Owed(lot) \in Int
    BY <2>2, LotFacts
  <2>8. /\ d \in Int /\ e \in Int /\ qty \in Int /\ a.left \in Int /\ b.left \in Int /\ profit \in Int
        /\ Units(a.lots) \in Int /\ Paid(0, a.lots) \in Int /\ Paid(0, b.lots) \in Int
    <3>1. Units(a.lots) \in Int
      BY <2>2, <2>3, UnitsAppend
    <3>2. Paid(0, a.lots) \in Int /\ Paid(0, b.lots) \in Int
      <4>1. 0 \in Int
        OBVIOUS
      <4> QED BY <2>3, <4>1, PaidShift
    <3> QED BY <1>3, <2>3, <3>1, <3>2
  <2> DEFINE l == a.left
             m == b.left
  <2>9. Units(b.lots) = T[k] - d * (qty - b.left)
    <3> DEFINE x == d * (qty - l)
               y == d * (l - m)
    <3>1. l \in Int /\ m \in Int /\ Units(a.lots) = T[k - 1] - x /\ Units(b.lots) = Units(a.lots) + Held(lot) - y
      BY <2>4, <2>6, <2>8
    <3> HIDE DEF l, m
    <3>2. x \in Int /\ y \in Int /\ d * (qty - m) = x + y
      <4>1. Apart(d, qty, l, m)
        BY <2>8, <3>1, Distances
      <4> QED BY <4>1 DEF Apart
    <3> HIDE DEF x, y
    <3>3. Units(b.lots) = T[k] - d * (qty - m)
      <4>1. Units(b.lots) = (T[k - 1] - x) + Held(lot) - y
        BY <3>1
      <4> QED BY <2>5, <2>7, <3>2, <4>1
    <3> QED BY <3>3 DEF m
  <2>10. b.realised + Paid(0, b.lots) = profit + P[k] + e * (qty - b.left)
    <3> DEFINE x == e * (qty - l)
               y == e * (l - m)
    <3>1. /\ l \in Int /\ m \in Int
          /\ a.realised + Paid(0, a.lots) = profit + P[k - 1] + x
          /\ b.realised + Paid(0, b.lots) = a.realised + Paid(0, a.lots) + Owed(lot) + y
      BY <2>4, <2>6, <2>8
    <3> HIDE DEF l, m
    <3>2. x \in Int /\ y \in Int /\ e * (qty - m) = x + y
      <4>1. Apart(e, qty, l, m)
        BY <2>8, <3>1, Distances
      <4> QED BY <4>1 DEF Apart
    <3> HIDE DEF x, y
    <3>3. b.realised + Paid(0, b.lots) = (profit + P[k - 1] + x) + Owed(lot) + y
      BY <3>1
    <3>4. b.realised + Paid(0, b.lots) = profit + P[k] + e * (qty - m)
      <4>1. profit \in Int /\ x \in Int /\ y \in Int /\ P[k - 1] \in Int /\ Owed(lot) \in Int
        BY <2>5, <2>7, <3>2
      <4>2. (profit + P[k - 1] + x) + Owed(lot) + y = profit + (P[k - 1] + Owed(lot)) + (x + y)
        BY <4>1
      <4> QED BY <2>5, <3>2, <3>3, <4>2
    <3> QED BY <3>4 DEF m
  <2>11. b.left <= qty /\ (b.left > 0 => b.lots = <<>>)
    BY <2>3, <2>4, <2>6
  <2> QED BY <2>6, <2>9, <2>10, <2>11 DEF Good, b
<1> DEFINE Bad == {k \in 0..n : ~Good(k)}
<1>10. Bad = {}
  <2>1. SUFFICES ASSUME Bad # {} PROVE FALSE
    OBVIOUS
  <2> HIDE DEF Good
  <2>2. PICK k \in Bad : \A j \in Bad : k <= j
    <3>1. Bad \in SUBSET Nat
      BY <1>1
    <3> HIDE DEF Bad
    <3> QED BY <2>1, <3>1, LeastElement
  <2>3. k \in 0..n /\ ~Good(k) /\ k # 0
    BY <1>8
  <2>4. k - 1 \in 0..n /\ k \in 1..n /\ ~(k <= k - 1)
    BY <1>1, <2>3
  <2>5. Good(k - 1)
    BY <2>2, <2>4
  <2> QED BY <1>9, <2>3, <2>4, <2>5
<1>11. Good(n) /\ A[n] \in Acc
  <2>1. n \in 0..n
    BY <1>1
  <2> HIDE DEF Good
  <2> QED BY <1>7, <1>10, <2>1
<1> QED BY <1>4, <1>5, <1>6, <1>11 DEF d, e, start

-----------------------------------------------------------------------------
(* The books.                                                              *)

\* The position, the lots and the cash agree.
BooksFit ==
    /\ lots \in Seq(Lot) /\ {position, cash, realised} \subseteq Int
    /\ \E side \in Sides : OneSided(lots, side)
    /\ position = Units(lots)
    /\ cash = Paid(realised, lots)

\* A lot opened behind others.
LEMMA OpenFacts ==
    ASSUME NEW s \in Seq(Lot), NEW side \in Sides, NEW qty \in Nat \ {0}, NEW ref \in Int, NEW base \in Int
    PROVE  /\ OpenLot(s, side, qty, ref) \in Seq(Lot)
           /\ Units(OpenLot(s, side, qty, ref)) = Units(s) + Direction(side) * qty
           /\ Paid(base, OpenLot(s, side, qty, ref)) =
                 Paid(base, s) - Direction(side) * ref * qty - UnitCost * qty
           /\ OneSided(s, side) => OneSided(OpenLot(s, side, qty, ref), side)
<1> DEFINE lot == [side |-> side, remaining |-> qty, ref |-> ref, cost |-> UnitCost * qty]
<1>1. UnitCost * qty \in Nat
  BY PaperBrokerConstants
<1>2. lot \in Lot /\ lot.side = side /\ lot.remaining = qty /\ lot.ref = ref /\ lot.cost = UnitCost * qty
  BY <1>1 DEF Lot
<1>3. OpenLot(s, side, qty, ref) = Append(s, lot)
  BY DEF OpenLot
<1> HIDE DEF lot
<1>4. Append(s, lot) \in Seq(Lot)
  BY <1>2
<1>5. Units(Append(s, lot)) = Units(s) + Direction(side) * qty
  BY <1>2, UnitsAppend DEF Held
<1>6. Paid(base, Append(s, lot)) = Paid(base, s) - Direction(side) * ref * qty - UnitCost * qty
  <2> DEFINE x == Direction(side) * ref * qty
             y == UnitCost * qty
  <2>1. Paid(base, s) \in Int /\ Paid(base, Append(s, lot)) = Paid(base, s) + Owed(lot)
    BY <1>2, PaidAppend
  <2>2. x \in Int /\ y \in Int
    <3>1. Direction(side) \in Int
      BY DEF Direction
    <3> QED BY <1>1, <3>1
  <2>3. Owed(lot) = 0 - x - y
    BY <1>2 DEF Owed
  <2> HIDE DEF x, y
  <2>4. Paid(base, Append(s, lot)) = Paid(base, s) - x - y
    BY <2>1, <2>2, <2>3
  <2> QED BY <2>4 DEF x, y
<1>7. ASSUME OneSided(s, side) PROVE OneSided(Append(s, lot), side)
  <2>1. /\ Len(s) \in Nat /\ DOMAIN Append(s, lot) = 1..(Len(s) + 1) /\ DOMAIN s = 1..Len(s)
        /\ \A k \in 1..Len(s) : Append(s, lot)[k] = s[k]
        /\ Append(s, lot)[Len(s) + 1] = lot
    BY <1>2
  <2> QED BY <1>2, <1>7, <2>1 DEF OneSided
<1>8. OneSided(s, side) => OneSided(Append(s, lot), side)
  BY <1>7
<1> DEFINE opened == OpenLot(s, side, qty, ref)
<1>9. opened = Append(s, lot)
  BY <1>3
<1> HIDE DEF opened
<1>10. /\ opened \in Seq(Lot)
       /\ Units(opened) = Units(s) + Direction(side) * qty
       /\ Paid(base, opened) = Paid(base, s) - Direction(side) * ref * qty - UnitCost * qty
       /\ OneSided(s, side) => OneSided(opened, side)
  BY <1>4, <1>5, <1>6, <1>8, <1>9, Zenon
<1> QED BY <1>10, Zenon DEF opened

LEMMA DirectionFacts ==
    \A side \in Sides : /\ Direction(side) \in {1, -1}
                        /\ \A other \in Sides : other # side => Direction(other) = 0 - Direction(side)
<1> TAKE side \in Sides
<1>1. CASE side = "buy"
  BY <1>1 DEF Sides, Direction
<1>2. CASE side = "sell"
  BY <1>2 DEF Sides, Direction
<1> QED BY <1>1, <1>2 DEF Sides

\* Two ways of booking the same amounts.
LEMMA SameAmount ==
    \A a, b, v, u, y, z, end \in Int :
        /\ b = a - (y + v) - (z + u) /\ end = a - y - z => b = end - v - u
        /\ a - (y + v) - (z + u) \in Int /\ a - y - z \in Int
OBVIOUS

\* A fill on the side of the position opens a lot.
LEMMA OpeningFill ==
    ASSUME BooksFit, NEW side \in Sides, NEW qty \in Nat \ {0}, NEW ref \in Int, Books(side, qty, ref),
           position * (Direction(side) * qty) >= 0
    PROVE  BooksFit'
<1>1. PICK held \in Sides : OneSided(lots, held)
  BY DEF BooksFit
<1>2. lots \in Seq(Lot) /\ position \in Int /\ cash \in Int /\ realised \in Int
      /\ position = Units(lots) /\ cash = Paid(realised, lots)
  BY DEF BooksFit
<1>3. /\ position' = position + Direction(side) * qty
      /\ lots' = OpenLot(lots, side, qty, ref) /\ realised' = realised
      /\ cash' = cash - Direction(side) * ref * qty - UnitCost * qty
  BY DEF Books, ApplyPosition
<1>4. Direction(side) \in {1, -1} /\ Direction(held) \in {1, -1} /\ (held # side => Direction(held) = 0 - Direction(side))
  BY DirectionFacts
<1>5. OneSided(lots, side)
  <2>1. CASE held = side
    BY <1>1, <2>1
  <2>2. CASE held # side
    <3>1. Direction(held) * position >= Len(lots) /\ Len(lots) \in Nat
      BY <1>1, <1>2, UnitsSign
    <3>2. Len(lots) = 0
      <4>1. Direction(side) * position <= 0
        BY <1>2, <1>4, <2>2, <3>1
      <4>2. CASE Direction(side) = 1
        <5>1. position * qty >= 0 /\ position <= 0
          BY <1>2, <4>1, <4>2
        <5>2. position = 0
          BY <1>2, <5>1
        <5> QED BY <1>4, <3>1, <5>2
      <4>3. CASE Direction(side) = -1
        <5>1. position * (0 - qty) >= 0 /\ position >= 0
          BY <1>2, <4>1, <4>3
        <5>2. position = 0
          BY <1>2, <5>1
        <5> QED BY <1>4, <3>1, <5>2
      <4> QED BY <1>4, <4>2, <4>3
    <3>3. DOMAIN lots = {}
      BY <1>2, <3>2
    <3> QED BY <3>3 DEF OneSided
  <2> QED BY <2>1, <2>2
<1>6. /\ lots' \in Seq(Lot) /\ OneSided(lots', side)
      /\ Units(lots') = Units(lots) + Direction(side) * qty
      /\ Paid(realised, lots') = Paid(realised, lots) - Direction(side) * ref * qty - UnitCost * qty
  BY <1>2, <1>3, <1>5, OpenFacts
<1>7. Units(lots') \in Int /\ Paid(realised, lots') \in Int
  <2>1. Paid(realised, lots') = realised + Paid(0, lots') /\ Paid(0, lots') \in Int
    BY <1>2, <1>6, PaidShift
  <2>2. Units(lots') \in Int
    BY <1>6, UnitsSign
  <2> QED BY <1>2, <2>1, <2>2
<1>8. position' = Units(lots') /\ cash' = Paid(realised', lots')
  BY <1>2, <1>3, <1>6
<1> QED BY <1>2, <1>3, <1>6, <1>7, <1>8 DEF BooksFit

\* A fill against the position closes lots, oldest first, and opens the excess.
LEMMA ClosingFill ==
    ASSUME BooksFit, NEW side \in Sides, NEW qty \in Nat \ {0}, NEW ref \in Int, Books(side, qty, ref),
           ~(position * (Direction(side) * qty) >= 0)
    PROVE  BooksFit'
<1> DEFINE end == Closing([left |-> qty, realised |-> realised, lots |-> <<>>], lots, ref)
           d == Direction(side)
<1>1. PICK held \in Sides : OneSided(lots, held)
  BY DEF BooksFit
<1>2. lots \in Seq(Lot) /\ position \in Int /\ cash \in Int /\ realised \in Int
      /\ position = Units(lots) /\ cash = Paid(realised, lots)
  BY DEF BooksFit
<1>3. /\ position' = position + d * qty
      /\ lots' = OpenExcess(end.lots, side, end.left, ref) /\ realised' = end.realised
      /\ cash' = cash - d * ref * qty - UnitCost * qty
  BY DEF Books, ApplyPosition, Closing
<1>4. d \in {1, -1} /\ Direction(held) \in {1, -1} /\ (held # side => Direction(held) = 0 - d)
  BY DirectionFacts
<1>5. held # side
  <2>1. SUFFICES ASSUME held = side PROVE FALSE
    OBVIOUS
  <2>2. d * position >= Len(lots) /\ Len(lots) \in Nat
    BY <1>1, <1>2, <2>1, UnitsSign
  <2>3. CASE d = 1
    <3>1. position >= 0 /\ ~(position * qty >= 0)
      BY <1>2, <2>2, <2>3
    <3> QED BY <1>2, <3>1
  <2>4. CASE d = -1
    <3>1. 0 - position >= 0 /\ ~(position * (0 - qty) >= 0)
      BY <1>2, <2>2, <2>4
    <3>2. position * (0 - qty) = (0 - position) * qty
      BY <1>2
    <3> QED BY <1>2, <3>1, <3>2
  <2> QED BY <1>4, <2>3, <2>4
<1> HIDE DEF end
<1>6. /\ end \in Acc /\ end.left <= qty /\ OneSided(end.lots, held)
      /\ end.left > 0 => end.lots = <<>>
      /\ Units(end.lots) = Units(lots) - Direction(held) * (qty - end.left)
      /\ end.realised + Paid(0, end.lots) =
            realised + Paid(0, lots) + (Direction(held) * ref - UnitCost) * (qty - end.left)
  BY <1>1, <1>2, ClosingFacts DEF end
<1>7. end.left \in Nat /\ end.realised \in Int /\ end.lots \in Seq(Lot)
  BY <1>6 DEF Acc
<1>8. UnitCost \in Int
  BY PaperBrokerConstants
<1>9. /\ Paid(realised, lots) = realised + Paid(0, lots) /\ Paid(0, lots) \in Int
      /\ Paid(end.realised, end.lots) = end.realised + Paid(0, end.lots) /\ Paid(0, end.lots) \in Int
  BY <1>2, <1>7, PaidShift
<1> DEFINE closed == qty - end.left
           x == d * closed
           y == d * ref * closed
           z == UnitCost * closed
<1>10. closed \in Nat /\ x \in Int /\ y \in Int /\ z \in Int
  <2>1. closed \in Nat
    BY <1>6, <1>7
  <2> HIDE DEF closed, d
  <2> QED BY <1>4, <1>8, <2>1
<1>11. Units(end.lots) = position + x
  <2>1. Direction(held) * closed = 0 - x
    <3> HIDE DEF closed, d
    <3> QED BY <1>4, <1>5, <1>10
  <2> HIDE DEF x
  <2> QED BY <1>2, <1>6, <1>10, <2>1
<1>12. Paid(end.realised, end.lots) = cash - y - z
  <2>1. (Direction(held) * ref - UnitCost) * closed = 0 - y - z
    <3> HIDE DEF closed, d
    <3> QED BY <1>4, <1>5, <1>8, <1>10
  <2> HIDE DEF y, z
  <2> QED BY <1>2, <1>6, <1>7, <1>9, <1>10, <2>1
<1>13. CASE end.left = 0
  <2>1. lots' = end.lots
    BY <1>3, <1>13 DEF OpenExcess
  <2>2. closed = qty
    BY <1>13
  <2>3. position' = position + x /\ cash' = cash - y - z
    BY <1>3, <2>2
  <2> HIDE DEF x, y, z, d
  <2>4. position' = Units(lots') /\ cash' = Paid(realised', lots')
    BY <1>3, <1>11, <1>12, <2>1, <2>3
  <2>5. position' \in Int /\ cash' \in Int /\ realised' \in Int
    <3>1. position \in Int /\ cash \in Int /\ x \in Int /\ y \in Int /\ z \in Int
      BY <1>2, <1>10
    <3>2. position + x \in Int
      BY <3>1
    <3>3. cash - y - z \in Int
      BY <3>1, SameAmount
    <3> QED BY <1>3, <1>7, <2>3, <3>2, <3>3
  <2> QED BY <1>6, <1>7, <2>1, <2>4, <2>5 DEF BooksFit
<1>14. CASE end.left # 0
  <2> DEFINE left == end.left
             v == d * ref * left
             u == UnitCost * left
  <2>1. left \in Nat \ {0} /\ end.lots = <<>>
    BY <1>6, <1>7, <1>14
  <2>2. lots' = OpenLot(<<>>, side, left, ref)
    BY <1>3, <2>1 DEF OpenExcess
  <2>3. <<>> \in Seq(Lot) /\ OneSided(<<>>, side)
    BY DEF OneSided
  <2>4. /\ lots' \in Seq(Lot) /\ OneSided(lots', side)
        /\ Units(lots') = Units(<<>>) + d * left
        /\ Paid(end.realised, lots') = Paid(end.realised, <<>>) - v - u
    <3> DEFINE base == end.realised
               none == <<>>
    <3>1. base \in Int /\ none \in Seq(Lot) /\ OneSided(none, side) /\ lots' = OpenLot(none, side, left, ref)
      BY <1>7, <2>2, <2>3
    <3> HIDE DEF left, base, none
    <3>2. /\ OpenLot(none, side, left, ref) \in Seq(Lot)
          /\ Units(OpenLot(none, side, left, ref)) = Units(none) + Direction(side) * left
          /\ Paid(base, OpenLot(none, side, left, ref)) =
                 Paid(base, none) - Direction(side) * ref * left - UnitCost * left
          /\ OneSided(none, side) => OneSided(OpenLot(none, side, left, ref), side)
      BY <2>1, <3>1, OpenFacts
    <3>3. /\ lots' \in Seq(Lot) /\ OneSided(lots', side)
          /\ Units(lots') = Units(none) + Direction(side) * left
          /\ Paid(base, lots') = Paid(base, none) - Direction(side) * ref * left - UnitCost * left
      BY <3>1, <3>2, Zenon
    <3> QED BY <3>3, Zenon DEF base, none
  <2>5. Units(<<>>) = 0 /\ Paid(end.realised, <<>>) = end.realised
    BY <1>7, EmptySums
  <2>6. /\ d * qty = x + d * left /\ d * left \in Int
        /\ d * ref * qty = y + v /\ v \in Int
        /\ UnitCost * qty = z + u /\ u \in Int
    <3>1. qty = closed + left
      BY <1>6, <1>7
    <3> HIDE DEF d, closed, left
    <3> QED BY <1>4, <1>8, <1>10, <2>1, <3>1
  <2>7. position + x = 0
    BY <1>11, <2>1, <2>5
  <2>8. end.realised = cash - y - z
    BY <1>12, <2>1, <2>5
  <2> DEFINE w == d * left
             out == Paid(end.realised, lots')
             base == end.realised
  <2>12. /\ position' = position + x + w /\ cash' = cash - (y + v) - (z + u) /\ realised' = base
         /\ Units(lots') = w /\ out = base - v - u /\ base \in Int /\ w \in Int
    <3>1. position' = position + (x + w) /\ w \in Int
      BY <1>3, <2>6
    <3>2. cash' = cash - (y + v) - (z + u)
      BY <1>3, <2>6
    <3>3. Units(lots') = w
      BY <2>4, <2>5, <2>6
    <3>4. out = base - v - u /\ realised' = base /\ base \in Int
      BY <1>3, <1>7, <2>4, <2>5
    <3> HIDE DEF left, x, y, z, u, v, d, closed, w, out, base
    <3> QED BY <1>2, <1>10, <3>1, <3>2, <3>3, <3>4
  <2>13. u \in Int /\ v \in Int /\ base = cash - y - z
    BY <2>6, <2>8
  <2> HIDE DEF left, x, y, z, u, v, d, closed, w, out, base
  <2>9. position' = Units(lots')
    BY <1>2, <1>10, <2>7, <2>12
  <2>15. cash \in Int /\ y \in Int /\ z \in Int /\ u \in Int /\ v \in Int /\ base \in Int
    BY <1>2, <1>10, <2>12, <2>13
  <2>16. cash' \in Int
    <3>1. cash - (y + v) - (z + u) \in Int
      BY <2>15, SameAmount
    <3> QED BY <2>12, <3>1
  <2>14. cash' = out
    <3>1. cash' = base - v - u
      BY <2>12, <2>13, <2>15, <2>16, SameAmount
    <3> QED BY <2>12, <3>1
  <2>10. cash' = Paid(realised', lots')
    BY <2>12, <2>14 DEF out, base
  <2>11. position' \in Int /\ cash' \in Int /\ realised' \in Int
    <3>1. position' = position + x + w /\ position \in Int /\ x \in Int /\ w \in Int
      BY <1>2, <1>10, <2>12
    <3>2. position' \in Int
      BY <3>1
    <3> QED BY <2>12, <2>16, <3>2
  <2> QED BY <2>4, <2>9, <2>10, <2>11 DEF BooksFit
<1> QED BY <1>13, <1>14

BooksInv == BrokerInv /\ BooksFit

LEMMA BooksAlways == AdapterSpec => []BooksInv
<1>1. Init => BooksInv
  <2>1. Init => BrokerInv
    BY FamilyInit DEF Init, BrokerInv
  <2>2. Init => BooksFit
    <3> SUFFICES ASSUME Init PROVE BooksFit
      OBVIOUS
    <3>1. lots = <<>> /\ position = 0 /\ cash = 0 /\ realised = 0
      BY DEF Init
    <3>2. <<>> \in Seq(Lot) /\ OneSided(<<>>, "buy") /\ "buy" \in Sides
      BY DEF OneSided, Sides
    <3>3. Units(<<>>) = 0 /\ Paid(0, <<>>) = 0
      BY EmptySums
    <3> QED BY <3>1, <3>2, <3>3 DEF BooksFit
  <2> QED BY <2>1, <2>2 DEF BooksInv
<1>2. BooksInv /\ [AdapterNext]_vars => BooksInv'
  <2> SUFFICES ASSUME BooksInv, [AdapterNext]_vars PROVE BooksInv'
    OBVIOUS
  <2>1. BrokerInv'
    BY FamilyNext, PositionStep DEF BooksInv, BrokerInv
  <2>2. CASE UNCHANGED books
    BY <2>1, <2>2 DEF books, BooksInv, BooksFit
  <2>3. ASSUME NEW side \in Sides, NEW qty \in Nat \ {0}, NEW ref \in Int, Books(side, qty, ref)
        PROVE  BooksInv'
    BY <2>1, <2>3, OpeningFill, ClosingFill DEF BooksInv
  <2> QED BY <2>2, <2>3, BookStep DEF BooksInv, BrokerInv
<1> QED BY <1>1, <1>2, PTL DEF AdapterSpec

\* The signed position is always the sum of the open lots, all on one side.
THEOREM LotsAlwaysMatchPosition == AdapterSpec => []LotsMatchPosition
<1>1. BooksInv => LotsMatchPosition
  BY DEF BooksInv, BooksFit, LotsMatchPosition, Units, OneSided
<1> QED BY <1>1, BooksAlways, PTL

\* Cash, realised profit and what the open lots cost always balance, to the last unit
\* of fee, through partial closes and flips.
THEOREM BooksAlwaysBalance == AdapterSpec => []BooksBalance
<1>1. BooksInv => BooksBalance
  BY DEF BooksInv, BooksFit, BooksBalance, Paid
<1> QED BY <1>1, BooksAlways, PTL

\* Only the clock moves the clock.
LEMMA ClockMoves ==
    ASSUME Types, [AdapterNext]_vars
    PROVE  now' = now \/ Tick
<1>1. ASSUME Transmit \/ ProtectiveSubmit PROVE now' = now
  BY <1>1 DEF Transmit, ProtectiveSubmit
<1>2. ASSUME LookAt \/ PlaceOrder \/ PlaceOco \/ PlaceBracket \/ MarkPrice PROVE now' = now
  BY <1>2, BeginFacts DEF LookAt
<1>3. ASSUME Refuse \/ FollowEntry \/ UNCHANGED vars PROVE now' = now
  BY <1>3 DEF Refuse, FollowEntry, vars
<1>4. ASSUME \/ EngageKillSwitch
             \/ \E id \in KnownIds : CancelOrder(id) \/ \E a \in Amendments : ReplaceOrder(id, a)
      PROVE  now' = now
  BY <1>4 DEF EngageKillSwitch, CancelOrder, ReplaceOrder
<1> QED BY <1>1, <1>2, <1>3, <1>4 DEF AdapterNext, Next

\* The ledger never holds an order in a state the broker has no use for, filled beyond its
\* quantity or stamped ahead of the clock; a lot is never empty; a child waits under an id
\* that is in the ledger.
THEOREM BrokerTypeCorrect == AdapterSpec => []TypeOK
<1>1. Init => now <= MaxTime
  BY MaxTimeAssumption DEF Init
<1>2. Types /\ now <= MaxTime /\ [AdapterNext]_vars => (now <= MaxTime)'
  <2> SUFFICES ASSUME Types, now <= MaxTime, [AdapterNext]_vars PROVE now' <= MaxTime
    OBVIOUS
  <2>1. now' = now \/ Tick
    BY ClockMoves
  <2>2. now \in Nat /\ MaxTime \in Nat
    BY MaxTimeAssumption DEF Types
  <2>3. CASE Tick
    BY <2>2, <2>3 DEF Tick
  <2> QED BY <2>1, <2>3
<1>3. BooksInv /\ LifeInv /\ RateInv /\ now <= MaxTime => TypeOK
  <2> SUFFICES ASSUME BooksInv, LifeInv, RateInv, now <= MaxTime PROVE TypeOK
    OBVIOUS
  <2>1. Types
    BY DEF BooksInv, BrokerInv, FamilyInv
  <2>2. ASSUME NEW i \in DOMAIN orders
        PROVE  /\ orders[i].type \in OrderKinds /\ orders[i].side \in {"buy", "sell"}
               /\ orders[i].state \in OrderStates \ {"PENDING_NEW", "EXPIRED"}
               /\ orders[i].filled \in 0..orders[i].qty
               /\ orders[i].at \in -1..now /\ orders[i].beside \in Nat
    <3>1. orders[i] \in Order /\ now \in Nat
      BY <2>1 DEF Types
    <3>2. Proper(orders[i]) /\ orders[i].at <= now
      BY DEF LifeInv, AllProper, RateInv, RateFits
    <3> QED BY <3>1, <3>2 DEF Order, Sides, Proper, Resting, OrderStates
  <2>3. \A k \in DOMAIN lots : lots[k].remaining \in Nat \ {0} /\ lots[k].cost \in Nat
    <3>1. lots \in Seq(Lot)
      BY DEF BooksInv, BooksFit
    <3>2. \A k \in DOMAIN lots : lots[k] \in Lot
      BY <3>1
    <3> QED BY <3>2 DEF Lot
  <2>4. {position, cash, realised} \subseteq Int
    BY DEF BooksInv, BooksFit
  <2>5. DOMAIN pending \subseteq {orders[i].id : i \in DOMAIN orders}
    BY <2>1 DEF Types, KnownIds
  <2>6. mark \in Prices /\ now \in 0..MaxTime
    BY <2>1, MaxTimeAssumption DEF Types
  <2> QED BY <2>2, <2>3, <2>4, <2>5, <2>6 DEF TypeOK
<1>4. BooksInv => Types
  BY DEF BooksInv, BrokerInv, FamilyInv
<1> QED BY <1>1, <1>2, <1>3, <1>4, BooksAlways, LifeAlways, RateAlways, PTL DEF AdapterSpec
=============================================================================
