---------------------------- MODULE L2BookProofs ---------------------------
(***************************************************************************)
(* Proofs about the price ladder of src/core/book.cpp, for every number of *)
(* levels, every price range and both sides: the binary search of Apply    *)
(* finds the lower bound, the array stays a sorted, exact part of the      *)
(* exchange's side, and its top stays complete up to one level per         *)
(* deletion since the last rebuild.                                        *)
(*                                                                         *)
(* The two loops (the search, and ApplyEvent over the updates) are         *)
(* recursive functions of the model.  What they compute is found from the  *)
(* equation they satisfy, by the least argument at which it would fail.    *)
(***************************************************************************)
EXTENDS L2Book, FiniteSetTheorems, SequenceTheorems, WellFoundedInduction, TLAPS

\* The rows an array holds.
Rows == [px : Prices, qty : Quantities]

\* Index order runs from the worst price to the best.
Sorted(a) == \A i, j \in 1 .. Len(a) : i < j => IsWorse(a[i].px, a[j].px)

\* No level of the array has the price.
Absent(a, p) == \A i \in 1 .. Len(a) : a[i].px # p

\* Every price of the exchange that the array lacks is worse than its k best.
Complete(a, ex, k) ==
  \A p \in Prices : ex[p] > 0 /\ Absent(a, p) /\ k > 0
    => k <= Len(a) /\ IsWorse(p, a[Len(a) - k + 1].px)

\* The array is a sorted part of the exchange's side ex with its k best levels.
Good(a, ex, k) ==
  /\ a \in Seq(Rows)
  /\ Len(a) <= MaxLevels
  /\ Sorted(a)
  /\ \A i \in 1 .. Len(a) : a[i].qty = ex[a[i].px]
  /\ Complete(a, ex, k)

\* The inductive invariant: deletions is what the array's top may lack.
BookOK ==
  /\ side \in Sides
  /\ exchange \in [Prices -> Quantities \cup {0}]
  /\ deletions \in 0 .. MaxLevels
  /\ Good(arr, exchange, MaxLevels - deletions)
-----------------------------------------------------------------------------
(* Numbers *)

\* A non-empty set of naturals has a least member.
LEMMA LeastNat ==
  ASSUME NEW T \in SUBSET Nat, T # {}
  PROVE  \E x \in T : \A y \in T : x <= y
<1> DEFINE R == OpToRel(<, Nat)
<1>1. IsWellFoundedOn(R, Nat)
  BY NatLessThanWellFounded, Zenon
<1>2. \A x, y \in Nat : y < x => <<y, x>> \in R
  BY DEF OpToRel
<1> HIDE DEF R
<1>3. PICK x \in T : \A y \in T : ~ (<<y, x>> \in R)
  BY <1>1, WFMin, Zenon
<1>4. \A y \in T : ~ (y < x)
  <2> TAKE y \in T
  <2>1. y \in Nat /\ x \in Nat
    OBVIOUS
  <2>2. y < x => <<y, x>> \in R
    BY <1>2, <2>1, Zenon
  <2> QED
    BY <1>3, <2>2, Zenon
<1>5. \A y \in T : x <= y
  BY <1>4
<1> QED
  BY <1>5

\* What the code's max and min of two integers are.
LEMMA MaxMin ==
  ASSUME NEW x \in Int, NEW y \in Int
  PROVE  /\ Max({x, y}) = IF x >= y THEN x ELSE y
         /\ Min({x, y}) = IF x <= y THEN x ELSE y
BY DEF Max, Min

\* Prices and quantities are numbers, and a row's quantity is not zero.
LEMMA RowFacts ==
  /\ \A p \in Prices : p \in Int
  /\ \A q \in Quantities : q \in Int /\ q > 0
  /\ \A x \in Rows : /\ x.px \in Prices /\ x.px \in Int
                     /\ x.qty \in Quantities /\ x.qty \in Int /\ x.qty > 0
<1>1. \A p \in Prices : p \in Int
  BY PricesAssumption
<1>2. \A q \in Quantities : q \in Int /\ q > 0
  BY QuantitiesAssumption
<1>3. \A x \in Rows : x.px \in Prices /\ x.qty \in Quantities
  BY DEF Rows
<1> QED
  BY <1>1, <1>2, <1>3

\* Of two different prices exactly one is worse, on either side.
LEMMA WorseIsTotal ==
  ASSUME NEW p \in Int, NEW q \in Int, NEW r \in Int
  PROVE  /\ ~IsWorse(p, p)
         /\ p # q => IsWorse(p, q) \/ IsWorse(q, p)
         /\ IsWorse(p, q) => ~IsWorse(q, p)
         /\ IsWorse(p, q) /\ IsWorse(q, r) => IsWorse(p, r)
BY DEF IsWorse
-----------------------------------------------------------------------------
(* The binary search *)

\* The equation the search satisfies.
SearchBody(a, px, f) ==
  [r \in (0 .. Len(a)) \X (0 .. Len(a)) |->
     IF r[1] >= r[2] THEN r[1]
     ELSE IF IsWorse(a[r[1] + (r[2] - r[1]) \div 2 + 1].px, px)
          THEN f[<<r[1] + (r[2] - r[1]) \div 2 + 1, r[2]>>]
          ELSE f[<<r[1], r[1] + (r[2] - r[1]) \div 2>>]]

LEMMA SearchUnfold ==
  ASSUME NEW a, NEW px
  PROVE  LowerBound(a, px) = (CHOOSE f : f = SearchBody(a, px, f))[<<0, Len(a)>>]
BY Zenon DEF LowerBound, SearchBody

\* The middle of a non-empty range lies inside it.
LEMMA MidInside ==
  ASSUME NEW lo \in Nat, NEW hi \in Nat, lo < hi
  PROVE  /\ lo + (hi - lo) \div 2 \in Nat
         /\ lo <= lo + (hi - lo) \div 2
         /\ lo + (hi - lo) \div 2 < hi
OBVIOUS

\* In a sorted array the worse levels are the first k, for some k.
LEMMA WorsePrefix ==
  ASSUME NEW a \in Seq(Rows), Sorted(a), NEW px \in Prices
  PROVE  \E k \in 0 .. Len(a) :
           \A i \in 1 .. Len(a) : IsWorse(a[i].px, px) <=> i <= k
<1> DEFINE n == Len(a)
           T == {m \in 0 .. n : m = n \/ ~IsWorse(a[m + 1].px, px)}
<1>1. n \in Nat /\ px \in Int /\ \A i \in 1 .. n : a[i].px \in Int
  <2>1. \A i \in 1 .. n : a[i] \in Rows
    OBVIOUS
  <2> QED
    BY <2>1, RowFacts
<1>2. \E k \in T : \A y \in T : k <= y
  <2>1. n \in T
    BY <1>1
  <2>2. T \in SUBSET Nat
    BY <1>1
  <2> HIDE DEF T
  <2> QED
    BY <2>1, <2>2, LeastNat
<1>3. PICK k \in T : \A y \in T : k <= y
  BY <1>2
<1>4. k \in 0 .. n
  OBVIOUS
<1>5. ASSUME NEW i \in 1 .. n, i <= k
      PROVE  IsWorse(a[i].px, px)
  <2>1. i - 1 \in 0 .. n /\ i - 1 < k /\ i - 1 # n /\ i - 1 + 1 = i
    BY <1>1, <1>4, <1>5
  <2>2. i - 1 \notin T
    <3> HIDE DEF T
    <3> QED
      BY <1>1, <1>3, <1>4, <2>1
  <2> QED
    BY <2>1, <2>2
<1>6. ASSUME NEW i \in 1 .. n, IsWorse(a[i].px, px), k < i
      PROVE  FALSE
  <2>1. k + 1 \in 1 .. n /\ k # n
    BY <1>1, <1>4, <1>6
  <2>2. ~IsWorse(a[k + 1].px, px)
    BY <1>3, <2>1
  <2>3. k + 1 = i \/ IsWorse(a[k + 1].px, a[i].px)
    BY <1>1, <1>4, <1>6, <2>1 DEF Sorted
  <2> QED
    BY <1>1, <1>6, <2>1, <2>2, <2>3, WorseIsTotal
<1>7. \A i \in 1 .. n : IsWorse(a[i].px, px) <=> i <= k
  BY <1>1, <1>4, <1>5, <1>6
<1> HIDE DEF T
<1> QED
  BY <1>4, <1>7

\* The search of Apply returns an index that separates the worse levels from
\* the others.
LEMMA LowerBoundFacts ==
  ASSUME NEW a \in Seq(Rows), Sorted(a), NEW px \in Prices
  PROVE  /\ LowerBound(a, px) \in 0 .. Len(a)
         /\ \A i \in 1 .. Len(a) : IsWorse(a[i].px, px) <=> i <= LowerBound(a, px)
<1> DEFINE n == Len(a)
           D == (0 .. n) \X (0 .. n)
           mid(r) == r[1] + (r[2] - r[1]) \div 2
<1>1. PICK k \in 0 .. n : \A i \in 1 .. n : IsWorse(a[i].px, px) <=> i <= k
  BY WorsePrefix
<1> DEFINE val(lo, hi) == IF lo >= hi \/ k <= lo THEN lo ELSE IF k >= hi THEN hi ELSE k
           g == [r \in D |-> val(r[1], r[2])]
<1>2. n \in Nat /\ k \in Nat
  OBVIOUS
<1>3. ASSUME NEW lo \in 0 .. n, NEW hi \in 0 .. n, lo < hi,
             NEW m \in Nat, lo <= m, m < hi
      PROVE  /\ m + 1 \in 1 .. n
             /\ m + 1 <= k => val(lo, hi) = val(m + 1, hi)
             /\ k < m + 1 => val(lo, hi) = val(lo, m)
  BY <1>2, <1>3
<1>4. ASSUME NEW f, NEW r \in D, \A q \in D : q[2] - q[1] < r[2] - r[1] => f[q] = g[q]
      PROVE  SearchBody(a, px, f)[r] = g[r]
  <2>1. r[1] \in 0 .. n /\ r[2] \in 0 .. n /\ g[r] = val(r[1], r[2])
    OBVIOUS
  <2>2. CASE r[1] >= r[2]
    BY <2>1, <2>2 DEF SearchBody
  <2>3. CASE ~(r[1] >= r[2])
    <3> DEFINE m == mid(r)
               x == <<m + 1, r[2]>>
               y == <<r[1], m>>
    <3>1. m \in Nat /\ r[1] <= m /\ m < r[2] /\ r[1] < r[2]
      BY <1>2, <2>1, <2>3, MidInside
    <3>2. SearchBody(a, px, f)[r] = IF IsWorse(a[m + 1].px, px) THEN f[x] ELSE f[y]
      BY <2>1, <2>3 DEF SearchBody
    <3> HIDE DEF m
    <3>3. x \in D /\ y \in D /\ x[1] = m + 1 /\ x[2] = r[2] /\ y[1] = r[1] /\ y[2] = m
      BY <1>2, <2>1, <3>1
    <3>4. f[x] = g[x] /\ f[y] = g[y]
      BY <1>2, <1>4, <2>1, <3>1, <3>3
    <3>5. g[x] = val(m + 1, r[2]) /\ g[y] = val(r[1], m)
      BY <3>3
    <3>6. m + 1 \in 1 .. n /\ (m + 1 <= k => val(r[1], r[2]) = val(m + 1, r[2]))
                           /\ (k < m + 1 => val(r[1], r[2]) = val(r[1], m))
      BY <1>3, <2>1, <3>1
    <3>7. IsWorse(a[m + 1].px, px) <=> m + 1 <= k
      BY <1>1, <3>6
    <3> HIDE DEF val, g, x, y
    <3> QED
      BY <1>2, <2>1, <3>1, <3>2, <3>4, <3>5, <3>6, <3>7
  <2> QED
    BY <2>2, <2>3
<1>5. g = SearchBody(a, px, g)
  <2> DEFINE b == SearchBody(a, px, g)
  <2>1. b = [r \in D |-> b[r]] /\ g = [r \in D |-> g[r]]
    BY DEF SearchBody
  <2>2. \A r \in D : b[r] = g[r]
    BY <1>4
  <2>3. [r \in D |-> b[r]] = [r \in D |-> g[r]]
    <3> HIDE DEF b, g, D
    <3> QED
      BY <2>2, Zenon
  <2>4. b = g
    <3> HIDE DEF b, g, D
    <3> QED
      BY <2>1, <2>3, Zenon
  <2> QED
    BY <2>4, Zenon
<1>6. ASSUME NEW f, f = SearchBody(a, px, f)
      PROVE  \A r \in D : f[r] = g[r]
  <2> DEFINE gap(r) == IF r[2] >= r[1] THEN r[2] - r[1] ELSE 0
             T == {d \in 0 .. n : \E r \in D : gap(r) = d /\ f[r] # g[r]}
  <2>1. SUFFICES ASSUME T # {} PROVE FALSE
    <3>1. \A r \in D : gap(r) \in 0 .. n
      BY <1>2
    <3> HIDE DEF gap, g, D
    <3> QED
      BY <3>1
  <2>2. \E d \in T : \A e \in T : d <= e
    <3>1. T \in SUBSET Nat
      BY <1>2
    <3> HIDE DEF T
    <3> QED
      BY <2>1, <3>1, LeastNat
  <2>3. PICK d \in T : \A e \in T : d <= e
    BY <2>2
  <2>4. PICK r \in D : gap(r) = d /\ f[r] # g[r]
    OBVIOUS
  <2>5. ASSUME NEW q \in D, q[2] - q[1] < r[2] - r[1], r[1] < r[2]
        PROVE  f[q] = g[q]
    <3>1. gap(q) \in 0 .. n /\ gap(q) < gap(r)
      BY <1>2, <2>5
    <3>2. gap(q) \notin T
      <4> HIDE DEF T
      <4> QED
        BY <1>2, <2>3, <2>4, <3>1
    <3> HIDE DEF gap, g, D
    <3> QED
      BY <3>1, <3>2
  <2>6. CASE r[1] >= r[2]
    <3>1. f[r] = r[1]
      BY <1>6, <2>6 DEF SearchBody
    <3> QED
      BY <2>4, <2>6, <3>1
  <2>7. CASE ~(r[1] >= r[2])
    <3>1. r[1] < r[2]
      BY <1>2, <2>7
    <3>2. SearchBody(a, px, f)[r] = g[r]
      <4> HIDE DEF g, D
      <4> QED
        BY <1>4, <2>5, <3>1
    <3> QED
      BY <1>6, <2>4, <3>2
  <2> QED
    BY <2>6, <2>7
<1>7. LowerBound(a, px) = k
  <2>1. <<0, n>> \in D /\ g[<<0, n>>] = k
    BY <1>1, <1>2
  <2>2. \E f : f = SearchBody(a, px, f)
    BY <1>5
  <2> DEFINE h == CHOOSE f : f = SearchBody(a, px, f)
  <2>3. h = SearchBody(a, px, h)
    <3> HIDE DEF g, D
    <3> QED
      BY <2>2, Zenon
  <2>4. LowerBound(a, px) = h[<<0, n>>]
    BY SearchUnfold
  <2> HIDE DEF h, g, D
  <2> QED
    BY <1>6, <2>1, <2>3, <2>4
<1> QED
  BY <1>1, <1>7
-----------------------------------------------------------------------------
(* The array operations *)

\* EraseAt shifts the tail down.
LEMMA RemoveFacts ==
  ASSUME NEW a \in Seq(Rows), NEW i \in 1 .. Len(a), NEW b, b = RemoveAt(a, i)
  PROVE  /\ b \in Seq(Rows)
         /\ Len(b) = Len(a) - 1
         /\ \A j \in 1 .. Len(b) : b[j] = IF j < i THEN a[j] ELSE a[j + 1]
<1> DEFINE h == SubSeq(a, 1, i - 1)
           t == SubSeq(a, i + 1, Len(a))
<1>1. h \in Seq(Rows) /\ Len(h) = i - 1 /\ \A j \in 1 .. i - 1 : h[j] = a[j]
  OBVIOUS
<1>2. t \in Seq(Rows) /\ Len(t) = Len(a) - i /\ \A j \in 1 .. Len(a) - i : t[j] = a[i + j]
  OBVIOUS
<1>3. b = h \o t
  BY DEF RemoveAt
<1> HIDE DEF h, t
<1>4. b \in Seq(Rows) /\ Len(b) = Len(a) - 1
  BY <1>1, <1>2, <1>3
<1>5. ASSUME NEW j \in 1 .. Len(b)
      PROVE  b[j] = IF j < i THEN a[j] ELSE a[j + 1]
  <2>1. CASE j < i
    BY <1>1, <1>2, <1>3, <1>4, <2>1
  <2>2. CASE ~(j < i)
    <3>1. b[j] = t[j - (i - 1)]
      BY <1>1, <1>2, <1>3, <1>4, <2>2
    <3>2. j - (i - 1) \in 1 .. Len(a) - i /\ i + (j - (i - 1)) = j + 1
      BY <1>4, <2>2
    <3> QED
      BY <1>2, <2>2, <3>1, <3>2
  <2> QED
    BY <2>1, <2>2
<1> QED
  BY <1>4, <1>5

\* InsertAt shifts the tail up.
Inserted(a, i, x, b) ==
  /\ b \in Seq(Rows)
  /\ Len(b) = Len(a) + 1
  /\ \A j \in 1 .. Len(b) :
       b[j] = IF j < i THEN a[j] ELSE IF j = i THEN x ELSE a[j - 1]

LEMMA InsertFacts ==
  ASSUME NEW a \in Seq(Rows), NEW i \in 1 .. Len(a) + 1, NEW x \in Rows,
         NEW b, b = InsertAt(a, i, x)
  PROVE  Inserted(a, i, x, b)
<1> DEFINE h == SubSeq(a, 1, i - 1)
           t == SubSeq(a, i, Len(a))
           hx == h \o <<x>>
<1>1. h \in Seq(Rows) /\ Len(h) = i - 1 /\ \A j \in 1 .. i - 1 : h[j] = a[j]
  OBVIOUS
<1>2. t \in Seq(Rows) /\ Len(t) = Len(a) - i + 1
      /\ \A j \in 1 .. Len(a) - i + 1 : t[j] = a[i + j - 1]
  OBVIOUS
<1>3. b = hx \o t
  BY DEF InsertAt
<1> HIDE DEF h, t
<1>4. hx \in Seq(Rows) /\ Len(hx) = i /\ hx[i] = x /\ \A j \in 1 .. i - 1 : hx[j] = a[j]
  BY <1>1
<1> HIDE DEF hx
<1>5. b \in Seq(Rows) /\ Len(b) = Len(a) + 1
  <2>1. hx \o t \in Seq(Rows) /\ Len(hx \o t) = Len(hx) + Len(t)
    BY <1>2, <1>4, ConcatProperties, Zenon
  <2> QED
    BY <1>2, <1>3, <1>4, <2>1
<1>6. ASSUME NEW j \in 1 .. Len(b)
      PROVE  b[j] = IF j < i THEN a[j] ELSE IF j = i THEN x ELSE a[j - 1]
  <2>1. CASE j <= i
    <3>1. b[j] = hx[j]
      BY <1>2, <1>3, <1>4, <1>5, <2>1
    <3> QED
      BY <1>4, <2>1, <3>1
  <2>2. CASE ~(j <= i)
    <3>1. b[j] = t[j - i]
      BY <1>2, <1>3, <1>4, <1>5, <2>2
    <3>2. j - i \in 1 .. Len(a) - i + 1 /\ i + (j - i) - 1 = j - 1
      BY <1>5, <2>2
    <3> QED
      BY <1>2, <2>2, <3>1, <3>2
  <2> QED
    BY <2>1, <2>2
<1> QED
  BY <1>5, <1>6 DEF Inserted

\* EraseAt(0) and then InsertAt.
Replaced(a, i, x, b) ==
  /\ b \in Seq(Rows)
  /\ Len(b) = Len(a)
  /\ \A j \in 1 .. Len(a) :
       b[j] = IF j < i THEN a[j + 1] ELSE IF j = i THEN x ELSE a[j]

LEMMA ReplaceFacts ==
  ASSUME NEW a \in Seq(Rows), NEW i \in 1 .. Len(a), NEW x \in Rows,
         NEW c, c = RemoveAt(a, 1), NEW b, b = InsertAt(c, i, x)
  PROVE  Replaced(a, i, x, b)
<1> DEFINE n == Len(a)
<1>1. n \in Nat /\ 1 \in 1 .. n
  OBVIOUS
<1>2. c \in Seq(Rows) /\ Len(c) = n - 1 /\ \A j \in 1 .. n - 1 : c[j] = a[j + 1]
  <2>1. /\ c \in Seq(Rows)
        /\ Len(c) = n - 1
        /\ \A j \in 1 .. Len(c) : c[j] = IF j < 1 THEN a[j] ELSE a[j + 1]
    BY <1>1, RemoveFacts
  <2> QED
    BY <1>1, <2>1
<1>3. i \in 1 .. Len(c) + 1
  BY <1>1, <1>2
<1>4. /\ b \in Seq(Rows)
      /\ Len(b) = Len(c) + 1
      /\ \A j \in 1 .. Len(b) :
           b[j] = IF j < i THEN c[j] ELSE IF j = i THEN x ELSE c[j - 1]
  <2>1. Inserted(c, i, x, b)
    BY <1>2, <1>3, InsertFacts, Zenon
  <2> QED
    BY <2>1 DEF Inserted
<1>5. Len(b) = n
  BY <1>1, <1>2, <1>4
<1>6. ASSUME NEW j \in 1 .. n
      PROVE  b[j] = IF j < i THEN a[j + 1] ELSE IF j = i THEN x ELSE a[j]
  <2>1. CASE j < i
    <3>1. j \in 1 .. n - 1 /\ b[j] = c[j]
      BY <1>1, <1>4, <1>5, <2>1
    <3> QED
      BY <1>2, <2>1, <3>1
  <2>2. CASE j = i
    BY <1>4, <1>5, <2>2
  <2>3. CASE j > i
    <3>1. j - 1 \in 1 .. n - 1 /\ b[j] = c[j - 1] /\ j - 1 + 1 = j
      BY <1>1, <1>4, <1>5, <2>3
    <3> QED
      BY <1>2, <2>3, <3>1
  <2> QED
    BY <2>1, <2>2, <2>3
<1> QED
  BY <1>4, <1>5, <1>6 DEF Replaced

\* The new quantity replaces the old one and nothing else.
LEMMA SetFacts ==
  ASSUME NEW a \in Seq(Rows), NEW i \in 1 .. Len(a), NEW q \in Quantities,
         NEW b, b = SetQty(a, i, q)
  PROVE  /\ b \in Seq(Rows)
         /\ Len(b) = Len(a)
         /\ \A j \in 1 .. Len(b) : /\ b[j].px = a[j].px
                                   /\ b[j].qty = IF j = i THEN q ELSE a[j].qty
<1> DEFINE y == [a[i] EXCEPT !.qty = q]
<1>1. a[i] \in Rows
  OBVIOUS
<1>2. y \in Rows /\ y.px = a[i].px /\ y.qty = q
  BY <1>1 DEF Rows
<1>3. b = [a EXCEPT ![i] = y]
  BY DEF SetQty
<1> HIDE DEF y
<1> QED
  BY <1>2, <1>3
-----------------------------------------------------------------------------
(* What each outcome of Apply does to a good array.  ex is the exchange's    *)
(* side before the update, exq after it.                                     *)

Books == [Prices -> Quantities \cup {0}]

\* The exchange's side with one level set.
LEMMA BookSet ==
  ASSUME NEW ex \in Books, NEW px \in Prices, NEW q \in Quantities \cup {0},
         NEW exq, exq = [ex EXCEPT ![px] = q]
  PROVE  /\ exq \in Books
         /\ exq[px] = q
         /\ \A p \in Prices : p # px => exq[p] = ex[p]
         /\ \A p \in Prices : ex[p] \in Nat /\ exq[p] \in Nat
<1>1. \A x \in Quantities \cup {0} : x \in Nat
  BY QuantitiesAssumption
<1> QED
  BY <1>1 DEF Books

\* A level leaves the array, and one level of its top with it.
LEMMA RemoveKeeps ==
  ASSUME NEW ex \in Books, NEW k \in Nat, NEW a, Good(a, ex, k),
         NEW i \in 1 .. Len(a), NEW px \in Prices, px = a[i].px,
         NEW q, q = 0, NEW exq, exq = [ex EXCEPT ![px] = q],
         NEW kk \in Nat, kk = 0 \/ kk = k - 1,
         NEW b, b = RemoveAt(a, i)
  PROVE  Good(b, exq, kk)
<1> DEFINE n == Len(a)
<1>1. a \in Seq(Rows) /\ n \in Nat /\ n <= MaxLevels /\ Sorted(a) /\ Complete(a, ex, k)
      /\ \A j \in 1 .. n : a[j].qty = ex[a[j].px]
  BY DEF Good
<1>2. \A j \in 1 .. n : a[j] \in Rows /\ a[j].px \in Prices /\ a[j].px \in Int
  BY <1>1, RowFacts
<1>3. /\ b \in Seq(Rows)
      /\ Len(b) = n - 1
      /\ \A j \in 1 .. Len(b) : b[j] = IF j < i THEN a[j] ELSE a[j + 1]
  BY <1>1, RemoveFacts, Zenon
<1>4. exq[px] = 0 /\ \A p \in Prices : p # px => exq[p] = ex[p]
  BY DEF Books
<1>5. Len(b) <= MaxLevels
  BY <1>1, <1>3, MaxLevelsAssumption
<1>6. Sorted(b)
  <2> SUFFICES ASSUME NEW u \in 1 .. Len(b), NEW v \in 1 .. Len(b), u < v
               PROVE  IsWorse(b[u].px, b[v].px)
    BY DEF Sorted
  <2> DEFINE at(j) == IF j < i THEN j ELSE j + 1
  <2>1. at(u) \in 1 .. n /\ at(v) \in 1 .. n /\ at(u) < at(v)
    BY <1>1, <1>3
  <2>2. b[u] = a[at(u)] /\ b[v] = a[at(v)]
    BY <1>3
  <2> HIDE DEF at
  <2> QED
    BY <1>1, <2>1, <2>2 DEF Sorted
<1>7. ASSUME NEW j \in 1 .. Len(b)
      PROVE  b[j].qty = exq[b[j].px]
  <2>1. PICK m \in 1 .. n : m # i /\ b[j] = a[m]
    BY <1>1, <1>3
  <2>2. a[m].px # px
    <3>1. IsWorse(a[m].px, a[i].px) \/ IsWorse(a[i].px, a[m].px)
      BY <1>1, <2>1 DEF Sorted
    <3> QED
      BY <1>2, <3>1, WorseIsTotal
  <2> QED
    BY <1>1, <1>2, <1>4, <2>1, <2>2
<1>8. Complete(b, exq, kk)
  <2> SUFFICES ASSUME NEW p \in Prices, exq[p] > 0, Absent(b, p), kk > 0
               PROVE  kk <= Len(b) /\ IsWorse(p, b[Len(b) - kk + 1].px)
    BY DEF Complete
  <2>1. p # px /\ ex[p] > 0
    BY <1>4
  <2>2. Absent(a, p)
    <3> SUFFICES ASSUME NEW m \in 1 .. n, a[m].px = p PROVE FALSE
      BY DEF Absent
    <3>1. m # i
      BY <2>1
    <3>2. \E j \in 1 .. Len(b) : b[j] = a[m]
      <4>1. CASE m < i
        BY <1>1, <1>3, <4>1
      <4>2. CASE m > i
        <5>1. m - 1 \in 1 .. Len(b) /\ b[m - 1] = a[m]
          BY <1>1, <1>3, <4>2
        <5> QED
          BY <5>1
      <4> QED
        BY <1>1, <3>1, <4>1, <4>2
    <3> QED
      BY <3>2 DEF Absent
  <2>3. kk = k - 1 /\ k > 0
    OBVIOUS
  <2>4. k <= n /\ IsWorse(p, a[n - k + 1].px)
    BY <1>1, <2>1, <2>2, <2>3 DEF Complete
  <2> DEFINE m == n - k + 1
  <2>5. Len(b) - kk + 1 = m /\ m \in 1 .. Len(b) /\ kk <= Len(b) /\ m \in 1 .. n /\ m + 1 \in 1 .. n
    BY <1>1, <1>3, <2>3, <2>4
  <2>6. b[m] = a[m] \/ b[m] = a[m + 1]
    BY <1>3, <2>5, Zenon
  <2>7. IsWorse(a[m].px, a[m + 1].px)
    BY <1>1, <2>5 DEF Sorted
  <2>8. p \in Int /\ a[m].px \in Int /\ a[m + 1].px \in Int
    BY <1>2, <2>5, RowFacts
  <2>9. IsWorse(p, a[m].px)
    BY <2>4
  <2> HIDE DEF m
  <2>10. IsWorse(p, b[m].px)
    BY <2>6, <2>7, <2>8, <2>9, WorseIsTotal
  <2> QED
    BY <2>5, <2>10
<1> QED
  BY <1>3, <1>5, <1>6, <1>7, <1>8 DEF Good

\* A level that is there changes its quantity.
LEMMA SetKeeps ==
  ASSUME NEW ex \in Books, NEW k \in Nat, NEW a, Good(a, ex, k),
         NEW i \in 1 .. Len(a), NEW px \in Prices, px = a[i].px,
         NEW q \in Quantities, NEW exq, exq = [ex EXCEPT ![px] = q],
         NEW b, b = SetQty(a, i, q)
  PROVE  Good(b, exq, k)
<1> DEFINE n == Len(a)
<1>1. a \in Seq(Rows) /\ n \in Nat /\ n <= MaxLevels /\ Sorted(a) /\ Complete(a, ex, k)
      /\ \A j \in 1 .. n : a[j].qty = ex[a[j].px]
  BY DEF Good
<1>2. \A j \in 1 .. n : a[j] \in Rows /\ a[j].px \in Prices /\ a[j].px \in Int
  BY <1>1, RowFacts
<1>3. /\ b \in Seq(Rows)
      /\ Len(b) = n
      /\ \A j \in 1 .. n : b[j].px = a[j].px /\ b[j].qty = IF j = i THEN q ELSE a[j].qty
  BY <1>1, SetFacts
<1>4. exq[px] = q /\ \A p \in Prices : p # px => exq[p] = ex[p]
  BY DEF Books
<1>5. Sorted(b)
  BY <1>1, <1>3 DEF Sorted
<1>6. ASSUME NEW j \in 1 .. n
      PROVE  b[j].qty = exq[b[j].px]
  <2>1. CASE j = i
    BY <1>3, <1>4, <2>1
  <2>2. CASE j # i
    <3>1. IsWorse(a[j].px, a[i].px) \/ IsWorse(a[i].px, a[j].px)
      BY <1>1, <2>2 DEF Sorted
    <3>2. a[j].px # px
      BY <1>2, <3>1, WorseIsTotal
    <3> QED
      BY <1>1, <1>2, <1>3, <1>4, <2>2, <3>2
  <2> QED
    BY <2>1, <2>2
<1>7. Complete(b, exq, k)
  <2> SUFFICES ASSUME NEW p \in Prices, exq[p] > 0, Absent(b, p), k > 0
               PROVE  k <= Len(b) /\ IsWorse(p, b[Len(b) - k + 1].px)
    BY DEF Complete
  <2>1. Absent(a, p) /\ p # px
    BY <1>3 DEF Absent
  <2>2. k <= n /\ IsWorse(p, a[n - k + 1].px)
    BY <1>1, <1>4, <2>1 DEF Complete
  <2> QED
    BY <1>1, <1>3, <2>2
<1> QED
  BY <1>1, <1>3, <1>5, <1>6, <1>7 DEF Good

\* The array stays as it is: a deletion of a level it lacks, or a level that
\* is worse than all of a full array.
LEMMA DropKeeps ==
  ASSUME NEW ex \in Books, NEW k \in 0 .. MaxLevels, NEW a, Good(a, ex, k),
         NEW px \in Prices, Absent(a, px), NEW q \in Quantities \cup {0},
         q = 0 \/ (Len(a) = MaxLevels /\ IsWorse(px, a[1].px)),
         NEW exq, exq = [ex EXCEPT ![px] = q],
         NEW kk \in 0 .. k
  PROVE  Good(a, exq, kk)
<1> DEFINE n == Len(a)
<1>1. a \in Seq(Rows) /\ n \in Nat /\ n <= MaxLevels /\ Sorted(a) /\ Complete(a, ex, k)
      /\ \A j \in 1 .. n : a[j].qty = ex[a[j].px]
  BY DEF Good
<1>2. \A j \in 1 .. n : a[j] \in Rows /\ a[j].px \in Prices /\ a[j].px \in Int
  BY <1>1, RowFacts
<1>3. k \in Nat /\ kk \in Nat /\ kk <= k /\ k <= MaxLevels
  BY MaxLevelsAssumption
<1>4. exq[px] = q /\ \A p \in Prices : p # px => exq[p] = ex[p]
  BY DEF Books
<1>5. \A j \in 1 .. n : a[j].qty = exq[a[j].px]
  BY <1>1, <1>2, <1>4 DEF Absent
<1>6. Complete(a, exq, kk)
  <2> SUFFICES ASSUME NEW p \in Prices, exq[p] > 0, Absent(a, p), kk > 0
               PROVE  kk <= n /\ IsWorse(p, a[n - kk + 1].px)
    BY DEF Complete
  <2>1. PICK m \in 1 .. n : m <= n - kk + 1 /\ kk <= n /\ IsWorse(p, a[m].px)
    <3>1. CASE p # px
      <4>1. k <= n /\ IsWorse(p, a[n - k + 1].px)
        BY <1>1, <1>3, <1>4, <3>1 DEF Complete
      <4>2. n - k + 1 \in 1 .. n /\ n - k + 1 <= n - kk + 1 /\ kk <= n
        BY <1>1, <1>3, <4>1
      <4> QED
        BY <4>1, <4>2
    <3>2. CASE p = px
      <4>1. n = MaxLevels /\ IsWorse(px, a[1].px)
        BY <1>4, <3>2
      <4>2. 1 \in 1 .. n /\ 1 <= n - kk + 1 /\ kk <= n
        BY <1>1, <1>3, <4>1
      <4> QED
        BY <3>2, <4>1, <4>2
    <3> QED
      BY <3>1, <3>2
  <2> DEFINE t == n - kk + 1
  <2>2. t \in 1 .. n /\ m <= t
    BY <1>1, <1>3, <2>1
  <2>3. p \in Int /\ a[m].px \in Int /\ a[t].px \in Int
    BY <1>2, <2>1, <2>2, RowFacts
  <2>4. m = t \/ IsWorse(a[m].px, a[t].px)
    BY <1>1, <2>1, <2>2 DEF Sorted
  <2>5. IsWorse(p, a[t].px)
    <3> HIDE DEF t
    <3> QED
      BY <2>1, <2>3, <2>4, WorseIsTotal
  <2> QED
    BY <2>1, <2>5
<1> QED
  BY <1>1, <1>5, <1>6 DEF Good

\* A new level enters an array with room, at the index the search found.
LEMMA InsertKeeps ==
  ASSUME NEW ex \in Books, NEW k \in Nat, NEW a, Good(a, ex, k), Len(a) < MaxLevels,
         NEW px \in Prices, Absent(a, px), NEW i \in 1 .. Len(a) + 1,
         \A j \in 1 .. Len(a) : IsWorse(a[j].px, px) <=> j < i,
         NEW q \in Quantities, NEW exq, exq = [ex EXCEPT ![px] = q],
         NEW b, b = InsertAt(a, i, [px |-> px, qty |-> q])
  PROVE  Good(b, exq, k)
<1> DEFINE n == Len(a)
           x == [px |-> px, qty |-> q]
<1>1. a \in Seq(Rows) /\ n \in Nat /\ Sorted(a) /\ Complete(a, ex, k)
      /\ \A j \in 1 .. n : a[j].qty = ex[a[j].px]
  BY DEF Good
<1>2. \A j \in 1 .. n : a[j] \in Rows /\ a[j].px \in Prices /\ a[j].px \in Int
  BY <1>1, RowFacts
<1>3. x \in Rows /\ x.px = px /\ x.qty = q /\ px \in Int
  BY RowFacts DEF Rows
<1>4. /\ b \in Seq(Rows)
      /\ Len(b) = n + 1
      /\ \A j \in 1 .. Len(b) :
           b[j] = IF j < i THEN a[j] ELSE IF j = i THEN x ELSE a[j - 1]
  <2>1. b = InsertAt(a, i, x)
    OBVIOUS
  <2> HIDE DEF x
  <2>2. x \in Rows /\ i \in 1 .. Len(a) + 1 /\ a \in Seq(Rows)
    BY <1>1, <1>3
  <2>3. Inserted(a, i, x, b)
    BY <2>1, <2>2, InsertFacts, Zenon
  <2> QED
    BY <2>3 DEF Inserted
<1> HIDE DEF x
<1>5. exq[px] = q /\ \A p \in Prices : p # px => exq[p] = ex[p]
  BY DEF Books
<1>6. Len(b) <= MaxLevels
  BY <1>1, <1>4, MaxLevelsAssumption
<1>7. \A j \in 1 .. n : IF j < i THEN IsWorse(a[j].px, px) ELSE IsWorse(px, a[j].px)
  BY <1>2, <1>3, WorseIsTotal DEF Absent
<1>8. Sorted(b)
  <2> SUFFICES ASSUME NEW u \in 1 .. Len(b), NEW v \in 1 .. Len(b), u < v
               PROVE  IsWorse(b[u].px, b[v].px)
    BY DEF Sorted
  <2>1. CASE u = i
    <3>1. b[u] = x /\ b[v] = a[v - 1] /\ v - 1 \in 1 .. n /\ ~(v - 1 < i)
      BY <1>1, <1>4, <2>1
    <3> QED
      BY <1>3, <1>7, <3>1
  <2>2. CASE v = i
    <3>1. b[v] = x /\ b[u] = a[u] /\ u \in 1 .. n /\ u < i
      BY <1>1, <1>4, <2>2
    <3> QED
      BY <1>3, <1>7, <3>1
  <2>3. CASE u # i /\ v # i
    <3> DEFINE at(j) == IF j < i THEN j ELSE j - 1
    <3>1. at(u) \in 1 .. n /\ at(v) \in 1 .. n /\ at(u) < at(v)
      BY <1>1, <1>4, <2>3
    <3>2. b[u] = a[at(u)] /\ b[v] = a[at(v)]
      BY <1>4, <2>3
    <3> HIDE DEF at
    <3> QED
      BY <1>1, <3>1, <3>2 DEF Sorted
  <2> QED
    BY <2>1, <2>2, <2>3
<1>9. ASSUME NEW j \in 1 .. Len(b)
      PROVE  b[j].qty = exq[b[j].px]
  <2>1. CASE j = i
    BY <1>3, <1>4, <1>5, <2>1
  <2>2. CASE j # i
    <3>1. PICK m \in 1 .. n : b[j] = a[m]
      <4> DEFINE m == IF j < i THEN j ELSE j - 1
      <4>1. m \in 1 .. n /\ b[j] = a[m]
        BY <1>1, <1>4, <2>2
      <4> QED
        BY <4>1
    <3>2. a[m].px # px
      BY DEF Absent
    <3> QED
      BY <1>1, <1>2, <1>5, <3>1, <3>2
  <2> QED
    BY <2>1, <2>2
<1>10. Complete(b, exq, k)
  <2> SUFFICES ASSUME NEW p \in Prices, exq[p] > 0, Absent(b, p), k > 0
               PROVE  k <= Len(b) /\ IsWorse(p, b[Len(b) - k + 1].px)
    BY DEF Complete
  <2>1. p # px
    <3>1. i \in 1 .. Len(b) /\ b[i] = x
      BY <1>1, <1>4
    <3> QED
      BY <1>3, <3>1 DEF Absent
  <2>2. Absent(a, p)
    <3> SUFFICES ASSUME NEW m \in 1 .. n, a[m].px = p PROVE FALSE
      BY DEF Absent
    <3>1. CASE m < i
      <4>1. m \in 1 .. Len(b) /\ b[m] = a[m]
        BY <1>1, <1>4, <3>1
      <4> QED
        BY <4>1 DEF Absent
    <3>2. CASE ~(m < i)
      <4>1. m + 1 \in 1 .. Len(b) /\ m + 1 # i /\ ~(m + 1 < i) /\ m + 1 - 1 = m
        BY <1>1, <1>4, <3>2
      <4>2. b[m + 1] = a[m]
        BY <1>4, <4>1
      <4> QED
        BY <4>1, <4>2 DEF Absent
    <3> QED
      BY <3>1, <3>2
  <2>3. k <= n /\ IsWorse(p, a[n - k + 1].px)
    BY <1>1, <1>5, <2>1, <2>2 DEF Complete
  <2> DEFINE m == n - k + 1
  <2>4. Len(b) - k + 1 = m + 1 /\ m + 1 \in 1 .. Len(b) /\ k <= Len(b) /\ m \in 1 .. n
        /\ (m + 1 < i => m + 1 \in 1 .. n)
    <3>1. n \in Nat /\ Len(b) = n + 1 /\ k <= n /\ k > 0 /\ i \in 1 .. n + 1
      BY <1>1, <1>4, <2>3
    <3> HIDE DEF n
    <3> QED
      BY ONLY <3>1, k \in Nat
  <2>5. p \in Int /\ a[m].px \in Int /\ IsWorse(p, a[m].px) /\ \A j \in 1 .. n : a[j].px \in Int
    BY <1>2, <2>3, <2>4, RowFacts, Zenon
  <2> HIDE DEF m
  <2>6. CASE m + 1 < i
    <3>1. b[m + 1] = a[m + 1] /\ IsWorse(a[m].px, a[m + 1].px)
      BY <1>1, <1>4, <2>4, <2>6 DEF Sorted
    <3>2. IsWorse(p, b[m + 1].px)
      BY <2>4, <2>5, <2>6, <3>1, WorseIsTotal
    <3> QED
      BY <2>4, <3>2
  <2>7. CASE m + 1 = i
    <3>1. b[m + 1] = x /\ IsWorse(a[m].px, px)
      BY <1>4, <1>7, <2>4, <2>7
    <3>2. IsWorse(p, b[m + 1].px)
      BY <1>3, <2>5, <3>1, WorseIsTotal
    <3> QED
      BY <2>4, <3>2
  <2>8. CASE m + 1 > i
    <3>1. b[m + 1] = a[m]
      BY <1>4, <2>4, <2>8
    <3> QED
      BY <2>4, <2>5, <3>1
  <2> QED
    BY <2>4, <2>6, <2>7, <2>8
<1> QED
  BY <1>4, <1>6, <1>8, <1>9, <1>10 DEF Good

\* A new level enters a full array in the place of the worst one.
LEMMA EvictKeeps ==
  ASSUME NEW ex \in Books, NEW k \in 0 .. MaxLevels, NEW a, Good(a, ex, k),
         Len(a) = MaxLevels, NEW px \in Prices, Absent(a, px), NEW i \in 1 .. Len(a),
         \A j \in 1 .. Len(a) : IsWorse(a[j].px, px) <=> j <= i,
         NEW q \in Quantities, NEW exq, exq = [ex EXCEPT ![px] = q],
         NEW b, b = InsertAt(RemoveAt(a, 1), i, [px |-> px, qty |-> q])
  PROVE  Good(b, exq, k)
<1> DEFINE n == Len(a)
           x == [px |-> px, qty |-> q]
           c == RemoveAt(a, 1)
<1>1. a \in Seq(Rows) /\ n \in Nat /\ n > 0 /\ Sorted(a) /\ Complete(a, ex, k)
      /\ \A j \in 1 .. n : a[j].qty = ex[a[j].px]
  BY MaxLevelsAssumption DEF Good
<1>2. \A j \in 1 .. n : a[j] \in Rows /\ a[j].px \in Prices /\ a[j].px \in Int
  BY <1>1, RowFacts
<1>3. x \in Rows /\ x.px = px /\ x.qty = q /\ px \in Int
  BY RowFacts DEF Rows
<1>4. b = InsertAt(c, i, x) /\ c = RemoveAt(a, 1)
  OBVIOUS
<1> HIDE DEF x, c
<1>5. /\ b \in Seq(Rows)
      /\ Len(b) = n
      /\ \A j \in 1 .. n :
           b[j] = IF j < i THEN a[j + 1] ELSE IF j = i THEN x ELSE a[j]
  <2>1. Replaced(a, i, x, b)
    BY <1>1, <1>3, <1>4, ReplaceFacts, Zenon
  <2> QED
    BY <2>1 DEF Replaced
<1>6. exq[px] = q /\ \A p \in Prices : p # px => exq[p] = ex[p]
  BY DEF Books
<1>7. \A j \in 1 .. n : IF j <= i THEN IsWorse(a[j].px, px) ELSE IsWorse(px, a[j].px)
  BY <1>2, <1>3, WorseIsTotal DEF Absent
<1>8. Sorted(b)
  <2> SUFFICES ASSUME NEW u \in 1 .. n, NEW v \in 1 .. n, u < v
               PROVE  IsWorse(b[u].px, b[v].px)
    BY <1>5 DEF Sorted
  <2>1. CASE u = i
    <3>1. b[u] = x /\ b[v] = a[v] /\ ~(v <= i)
      BY <1>1, <1>5, <2>1
    <3> QED
      BY <1>3, <1>7, <3>1
  <2>2. CASE v = i
    <3>1. b[v] = x /\ b[u] = a[u + 1] /\ u + 1 \in 1 .. n /\ u + 1 <= i
      BY <1>1, <1>5, <2>2
    <3> QED
      BY <1>3, <1>7, <3>1
  <2>3. CASE u # i /\ v # i
    <3> DEFINE at(j) == IF j < i THEN j + 1 ELSE j
    <3>1. at(u) \in 1 .. n /\ at(v) \in 1 .. n /\ at(u) < at(v)
      BY <1>1, <2>3
    <3>2. b[u] = a[at(u)] /\ b[v] = a[at(v)]
      BY <1>5, <2>3
    <3> HIDE DEF at
    <3> QED
      BY <1>1, <3>1, <3>2 DEF Sorted
  <2> QED
    BY <2>1, <2>2, <2>3
<1>9. ASSUME NEW j \in 1 .. n
       PROVE  b[j].qty = exq[b[j].px]
  <2>1. CASE j = i
    BY <1>3, <1>5, <1>6, <2>1
  <2>2. CASE j # i
    <3>1. PICK m \in 1 .. n : b[j] = a[m]
      <4> DEFINE m == IF j < i THEN j + 1 ELSE j
      <4>1. m \in 1 .. n /\ b[j] = a[m]
        BY <1>1, <1>5, <2>2
      <4> QED
        BY <4>1
    <3>2. a[m].px # px
      BY DEF Absent
    <3> QED
      BY <1>1, <1>2, <1>6, <3>1, <3>2
  <2> QED
    BY <2>1, <2>2
<1>10. Complete(b, exq, k)
  <2> SUFFICES ASSUME NEW p \in Prices, exq[p] > 0, Absent(b, p), k > 0
               PROVE  k <= n /\ IsWorse(p, b[n - k + 1].px)
    BY <1>5 DEF Complete
  <2> DEFINE m == n - k + 1
  <2>1. k <= n /\ m \in 1 .. n
    BY <1>1
  <2>2. p # px
    <3>1. b[i] = x
      BY <1>1, <1>5
    <3> QED
      BY <1>3, <1>5, <3>1 DEF Absent
  <2>3. p \in Int /\ a[m].px \in Int /\ a[1].px \in Int /\ b[m].px \in Int /\ 1 \in 1 .. n
    <3>1. b[m] \in Rows
      BY <1>5, <2>1
    <3> QED
      BY <1>1, <1>2, <2>1, <3>1, RowFacts
  <2>4. \A j \in 2 .. n : a[j].px # p
    <3> SUFFICES ASSUME NEW j \in 2 .. n, a[j].px = p PROVE FALSE
      OBVIOUS
    <3>1. CASE j <= i
      <4>1. j - 1 \in 1 .. n /\ j - 1 < i /\ j - 1 + 1 = j
        BY <1>1, <3>1
      <4>2. b[j - 1] = a[j]
        BY <1>5, <4>1
      <4> QED
        BY <1>5, <4>1, <4>2 DEF Absent
    <3>2. CASE ~(j <= i)
      <4>1. b[j] = a[j] /\ j \in 1 .. n
        BY <1>1, <1>5, <3>2
      <4> QED
        BY <1>5, <4>1 DEF Absent
    <3> QED
      BY <3>1, <3>2
  <2>5. a[m].px = b[m].px \/ IsWorse(a[m].px, b[m].px)
    <3> HIDE DEF m
    <3>1. CASE m < i
      <4>1. b[m] = a[m + 1] /\ m + 1 \in 1 .. n /\ m < m + 1
        BY <1>1, <1>5, <2>1, <3>1
      <4> QED
        BY <1>1, <2>1, <4>1 DEF Sorted
    <3>2. CASE m = i
      <4>1. b[m] = x
        BY <1>5, <2>1, <3>2
      <4> QED
        BY <1>3, <1>7, <2>1, <3>2, <4>1
    <3>3. CASE m > i
      BY <1>5, <2>1, <3>3
    <3> QED
      BY <2>1, <3>1, <3>2, <3>3
  <2>6. CASE p # a[1].px
    <3>1. Absent(a, p)
      BY <1>1, <2>4, <2>6 DEF Absent
    <3>2. IsWorse(p, a[m].px)
      BY <1>1, <1>6, <2>2, <3>1 DEF Complete
    <3> HIDE DEF m
    <3>3. IsWorse(p, b[m].px)
      BY <2>3, <2>5, <3>2, WorseIsTotal
    <3> QED
      BY <2>1, <3>3 DEF m
  <2>7. CASE p = a[1].px
    <3>1. m = 1 \/ IsWorse(a[1].px, a[m].px)
      BY <1>1, <2>1 DEF Sorted
    <3>2. b[1].px # p /\ (m = 1 => b[m].px # p)
      BY <1>5, <2>3 DEF Absent
    <3> HIDE DEF m
    <3>3. IsWorse(p, b[m].px)
      BY <2>3, <2>5, <2>7, <3>1, <3>2, WorseIsTotal
    <3> QED
      BY <2>1, <3>3 DEF m
  <2> QED
    BY <2>6, <2>7
<1> QED
  BY <1>1, <1>5, <1>8, <1>9, <1>10, MaxLevelsAssumption DEF Good
-----------------------------------------------------------------------------
(* Apply and ApplyEvent *)

\* The levels of the trusted top that an update may cost: one, where the
\* exchange loses a level.
Costs(ex, px, q, k, kk) ==
  IF q = 0 /\ ex[px] > 0 THEN kk = 0 \/ kk = k - 1 ELSE kk = k

\* Apply keeps a good array good for the exchange's side after the update.
LEMMA ApplyKeeps ==
  ASSUME NEW ex \in Books, NEW k \in 0 .. MaxLevels, NEW a, Good(a, ex, k),
         NEW px \in Prices, NEW q \in Quantities \cup {0},
         NEW exq, exq = [ex EXCEPT ![px] = q],
         NEW kk \in 0 .. k, Costs(ex, px, q, k, kk)
  PROVE  Good(Apply(a, px, q), exq, kk)
<1> DEFINE n == Len(a)
           m == LowerBound(a, px)
           found == m < n /\ a[m + 1].px = px
           b == Apply(a, px, q)
<1>1. a \in Seq(Rows) /\ n \in Nat /\ n <= MaxLevels /\ Sorted(a)
      /\ \A j \in 1 .. n : a[j].qty = ex[a[j].px]
  BY DEF Good
<1>2. \A j \in 1 .. n : /\ a[j] \in Rows /\ a[j].px \in Prices /\ a[j].px \in Int
                        /\ a[j].qty \in Int /\ a[j].qty > 0
  BY <1>1, RowFacts
<1>3. m \in 0 .. n /\ \A i \in 1 .. n : IsWorse(a[i].px, px) <=> i <= m
  BY <1>1, LowerBoundFacts
<1>4. k \in Nat /\ kk \in Nat /\ kk <= k /\ k <= MaxLevels /\ MaxLevels \in Nat /\ px \in Int
  BY MaxLevelsAssumption, RowFacts
<1>5. b = IF found
          THEN IF q = 0 THEN RemoveAt(a, m + 1) ELSE SetQty(a, m + 1, q)
          ELSE IF q = 0 THEN a
          ELSE IF HasRoom(a) THEN InsertAt(a, m + 1, [px |-> px, qty |-> q])
          ELSE IF IsWorse(px, a[1].px) THEN a
          ELSE InsertFull(a, m, [px |-> px, qty |-> q])
  BY DEF Apply
<1> HIDE DEF m, b
<1>6. ~found => Absent(a, px)
  <2> SUFFICES ASSUME ~found, NEW j \in 1 .. n, a[j].px = px PROVE FALSE
    BY DEF Absent
  <2>1. ~(j <= m)
    BY <1>2, <1>3, WorseIsTotal
  <2>2. m + 1 \in 1 .. n /\ m < n /\ m + 1 <= j
    BY <1>1, <1>3, <2>1
  <2>3. a[m + 1].px # px /\ ~IsWorse(a[m + 1].px, px)
    BY <1>1, <1>3, <2>2
  <2>4. IsWorse(a[m + 1].px, a[j].px)
    BY <1>1, <1>3, <2>2, <2>3 DEF Sorted
  <2> QED
    BY <2>3, <2>4
<1>7. CASE found
  <2>1. m + 1 \in 1 .. Len(a) /\ a[m + 1].px = px /\ ex[px] > 0
    BY <1>1, <1>2, <1>3, <1>7
  <2>2. CASE q = 0
    <3>1. b = RemoveAt(a, m + 1) /\ (kk = 0 \/ kk = k - 1)
      BY <1>5, <1>7, <2>1, <2>2 DEF Costs
    <3> DEFINE i == m + 1
    <3>2. i \in 1 .. Len(a) /\ px = a[i].px /\ b = RemoveAt(a, i)
      BY <2>1, <3>1
    <3> HIDE DEF found, i
    <3>3. Good(b, exq, kk)
      BY <1>4, <2>2, <3>1, <3>2, RemoveKeeps, Zenon
    <3> QED
      BY <3>3 DEF b
  <2>3. CASE q # 0
    <3>1. b = SetQty(a, m + 1, q) /\ kk = k /\ q \in Quantities
      BY <1>5, <1>7, <2>3 DEF Costs
    <3> HIDE DEF found
    <3> QED
      BY <1>4, <2>1, <3>1, SetKeeps, Zenon DEF b
  <2> QED
    BY <2>2, <2>3
<1>8. CASE ~found
  <2>1. Absent(a, px)
    BY <1>6, <1>8
  <2>2. CASE q = 0
    <3>1. b = a
      BY <1>5, <1>8, <2>2
    <3> QED
      BY <2>1, <2>2, <3>1, DropKeeps, Zenon DEF b
  <2>3. CASE q # 0 /\ HasRoom(a)
    <3> DEFINE i == m + 1
    <3>1. b = InsertAt(a, i, [px |-> px, qty |-> q]) /\ kk = k /\ q \in Quantities
      BY <1>5, <1>8, <2>3 DEF Costs
    <3>2. i \in 1 .. Len(a) + 1 /\ \A j \in 1 .. Len(a) : IsWorse(a[j].px, px) <=> j < i
      BY <1>1, <1>3
    <3>3. Len(a) < MaxLevels
      BY <2>3 DEF HasRoom
    <3> HIDE DEF i, found
    <3> QED
      BY <1>4, <2>1, <3>1, <3>2, <3>3, InsertKeeps, Zenon DEF b
  <2>4. CASE q # 0 /\ ~HasRoom(a)
    <3>1. Len(a) = MaxLevels /\ 1 \in 1 .. n
      BY <1>1, <2>4, MaxLevelsAssumption DEF HasRoom
    <3>2. kk = k /\ q \in Quantities
      BY <2>4 DEF Costs
    <3>3. CASE IsWorse(px, a[1].px)
      <4>1. b = a
        BY <1>5, <1>8, <2>4, <3>3
      <4> QED
        BY <2>1, <3>1, <3>3, <4>1, DropKeeps, Zenon DEF b
    <3>4. CASE ~IsWorse(px, a[1].px)
      <4>1. IsWorse(a[1].px, px)
        BY <1>2, <1>4, <2>1, <3>1, <3>4, WorseIsTotal DEF Absent
      <4>2. m \in 1 .. Len(a)
        BY <1>1, <1>3, <3>1, <4>1
      <4>3. Max({m, 1}) = m
        BY <4>2, MaxMin
      <4>4. b = InsertAt(RemoveAt(a, 1), m, [px |-> px, qty |-> q])
        BY <1>5, <1>8, <2>4, <3>4, <4>3 DEF InsertFull
      <4> HIDE DEF found
      <4> QED
        BY <1>3, <2>1, <3>1, <3>2, <4>2, <4>4, EvictKeeps, Zenon DEF b
    <3> QED
      BY <3>3, <3>4
  <2> QED
    BY <2>2, <2>3, <2>4
<1> QED
  BY <1>7, <1>8

\* The equation ApplyEvent's loop satisfies, up to n updates.
AllBody(a, u, n, f) ==
  [i \in 0 .. n |-> IF i = 0 THEN a ELSE Apply(f[i - 1], u[i].px, u[i].qty)]

LEMMA AllUnfold ==
  ASSUME NEW a, NEW u
  PROVE  ApplyAll(a, u) = (CHOOSE f : f = AllBody(a, u, Len(u), f))[Len(u)]
BY Zenon DEF ApplyAll, AllBody

\* The loop terminates: the equation has a solution for every n.
LEMMA AllExists ==
  ASSUME NEW a, NEW u, NEW n \in Nat
  PROVE  \E f : f = AllBody(a, u, n, f)
<1> DEFINE Q(m) == \E f : f = AllBody(a, u, m, f)
           T == {m \in Nat : ~Q(m)}
<1>1. SUFFICES ASSUME T # {} PROVE FALSE
  <2>1. T = {} => Q(n)
    <3> HIDE DEF Q
    <3> QED
      OBVIOUS
  <2> HIDE DEF T
  <2> QED
    BY <2>1
<1>2. \E m \in T : \A y \in T : m <= y
  <2>1. T \in SUBSET Nat
    OBVIOUS
  <2> HIDE DEF T
  <2> QED
    BY <1>1, <2>1, LeastNat
<1>3. PICK m \in T : \A y \in T : m <= y
  BY <1>2
<1>4. m \in Nat /\ ~Q(m)
  <2> HIDE DEF Q
  <2> QED
    OBVIOUS
<1>5. CASE m = 0
  <2> DEFINE h == [i \in 0 .. 0 |-> a]
  <2>1. h = AllBody(a, u, 0, h)
    BY DEF AllBody
  <2> QED
    BY <1>4, <1>5, <2>1
<1>6. CASE m # 0
  <2>1. m - 1 \in Nat /\ m - 1 < m
    BY <1>4, <1>6
  <2>2. Q(m - 1)
    <3>1. m - 1 \notin T
      <4> HIDE DEF T
      <4> QED
        BY <1>3, <1>4, <2>1
    <3> HIDE DEF Q
    <3> QED
      BY <2>1, <3>1
  <2>3. PICK f : f = AllBody(a, u, m - 1, f)
    BY <2>2
  <2>4. \A i \in 0 .. m - 1 : f[i] = IF i = 0 THEN a ELSE Apply(f[i - 1], u[i].px, u[i].qty)
    BY <2>3 DEF AllBody
  <2> DEFINE h == [i \in 0 .. m |-> IF i = m THEN Apply(f[m - 1], u[m].px, u[m].qty) ELSE f[i]]
             w == AllBody(a, u, m, h)
  <2>5. \A i \in 0 .. m - 1 : h[i] = f[i]
    BY <1>4
  <2>6. ASSUME NEW i \in 0 .. m
        PROVE  h[i] = w[i]
    <3>1. w[i] = IF i = 0 THEN a ELSE Apply(h[i - 1], u[i].px, u[i].qty)
      BY DEF AllBody
    <3>2. CASE i = 0
      BY <1>4, <1>6, <2>4, <2>5, <3>1, <3>2
    <3>3. CASE i # 0
      <4>1. i - 1 \in 0 .. m - 1
        BY <1>4, <3>3
      <4>2. w[i] = Apply(f[i - 1], u[i].px, u[i].qty)
        BY <2>5, <3>1, <3>3, <4>1
      <4>3. h[i] = Apply(f[i - 1], u[i].px, u[i].qty)
        BY <1>4, <2>4, <3>3
      <4> QED
        BY <4>2, <4>3
    <3> QED
      BY <3>2, <3>3
  <2>7. h = [i \in 0 .. m |-> h[i]] /\ w = [i \in 0 .. m |-> w[i]]
    BY DEF AllBody
  <2>8. [i \in 0 .. m |-> h[i]] = [i \in 0 .. m |-> w[i]]
    <3> HIDE DEF h, w
    <3> QED
      BY <2>6, Zenon
  <2>9. h = w
    <3> HIDE DEF h, w
    <3> QED
      BY <2>7, <2>8, Zenon
  <2> QED
    BY <1>4, <2>9, Zenon
<1> QED
  BY <1>5, <1>6

\* ApplyEvent runs through the updates in order.
Runs(a, u, f) ==
  /\ f[0] = a
  /\ \A i \in 1 .. Len(u) : f[i] = Apply(f[i - 1], u[i].px, u[i].qty)
  /\ ApplyAll(a, u) = f[Len(u)]

LEMMA AllFacts ==
  ASSUME NEW a, NEW u, Len(u) \in Nat
  PROVE  \E f : Runs(a, u, f)
<1> DEFINE f == CHOOSE f : f = AllBody(a, u, Len(u), f)
<1>1. f = AllBody(a, u, Len(u), f)
  BY AllExists, Zenon
<1>2. ApplyAll(a, u) = f[Len(u)]
  BY AllUnfold
<1> HIDE DEF f
<1>3. \A i \in 0 .. Len(u) : f[i] = IF i = 0 THEN a ELSE Apply(f[i - 1], u[i].px, u[i].qty)
  BY <1>1 DEF AllBody
<1>4. f[0] = a /\ \A i \in 1 .. Len(u) : f[i] = Apply(f[i - 1], u[i].px, u[i].qty)
  BY <1>3
<1> QED
  BY <1>2, <1>4, Zenon DEF Runs
-----------------------------------------------------------------------------
(* The exchange's side, best price first *)

\* The levels at least as good as p, and the place of p among them all.
AtLeast(p) == {q \in Levels : ~IsWorse(q, p)}
Rank(p) == Cardinality(AtLeast(p))

LEMMA LevelsFacts ==
  /\ IsFiniteSet(Levels) /\ Cardinality(Levels) \in Nat
  /\ \A p \in Levels : p \in Prices /\ p \in Int /\ exchange[p] > 0
<1>1. Levels \in SUBSET Prices
  BY DEF Levels
<1>2. IsFiniteSet(Levels)
  BY <1>1, PricesAssumption, FS_Subset, Zenon
<1>3. Cardinality(Levels) \in Nat
  BY <1>2, FS_CardinalityType
<1>4. \A p \in Levels : p \in Prices /\ p \in Int /\ exchange[p] > 0
  BY RowFacts DEF Levels
<1> QED
  BY <1>2, <1>3, <1>4

\* A worse price comes later.
LEMMA RankFacts ==
  /\ \A p \in Levels : Rank(p) \in 1 .. Cardinality(Levels)
  /\ \A p, q \in Levels : IsWorse(p, q) => Rank(q) < Rank(p)
<1>1. ASSUME NEW p \in Levels
      PROVE  IsFiniteSet(AtLeast(p)) /\ p \in AtLeast(p)
             /\ Rank(p) \in Nat /\ Rank(p) <= Cardinality(Levels) /\ Rank(p) # 0
  <2>1. AtLeast(p) \in SUBSET Levels /\ p \in AtLeast(p)
    BY LevelsFacts, WorseIsTotal DEF AtLeast
  <2>2. IsFiniteSet(AtLeast(p)) /\ Cardinality(AtLeast(p)) <= Cardinality(Levels)
    BY <2>1, LevelsFacts, FS_Subset
  <2>3. Cardinality(AtLeast(p)) \in Nat
    BY <2>2, FS_CardinalityType
  <2>4. Cardinality(AtLeast(p)) # 0
    BY <2>1, <2>2, FS_EmptySet
  <2> QED
    BY <2>1, <2>2, <2>3, <2>4 DEF Rank
<1>2. ASSUME NEW p \in Levels, NEW q \in Levels, IsWorse(p, q)
      PROVE  Rank(q) < Rank(p)
  <2>1. p \notin AtLeast(q)
    BY <1>2 DEF AtLeast
  <2>2. AtLeast(q) \in SUBSET AtLeast(p)
    <3> SUFFICES ASSUME NEW r \in Levels, ~IsWorse(r, q) PROVE ~IsWorse(r, p)
      BY DEF AtLeast
    <3>1. p \in Int /\ q \in Int /\ r \in Int
      BY LevelsFacts
    <3> QED
      BY <1>2, <3>1, WorseIsTotal
  <2>3. AtLeast(q) # AtLeast(p)
    BY <1>1, <2>1
  <2>4. Rank(q) <= Rank(p) /\ Rank(q) # Rank(p)
    BY <1>1, <2>2, <2>3, FS_Subset DEF Rank
  <2> QED
    BY <1>1, <2>4
<1>3. \A p \in Levels : Rank(p) \in 1 .. Cardinality(Levels)
  BY <1>1, LevelsFacts
<1> QED
  BY <1>2, <1>3

\* Every place is taken, by one level.
LEMMA RankBijective ==
  /\ \A p, q \in Levels : Rank(p) = Rank(q) => p = q
  /\ \A n \in 1 .. Cardinality(Levels) : \E p \in Levels : Rank(p) = n
<1> DEFINE N == Cardinality(Levels)
           f == [p \in Levels |-> Rank(p)]
<1>1. ASSUME NEW p \in Levels, NEW q \in Levels, Rank(p) = Rank(q)
      PROVE  p = q
  <2>1. p \in Int /\ q \in Int /\ Rank(p) \in Int
    BY LevelsFacts, RankFacts
  <2>2. ~IsWorse(p, q) /\ ~IsWorse(q, p)
    BY <1>1, <2>1, RankFacts
  <2> QED
    BY <2>1, <2>2, WorseIsTotal
<1>2. f \in Injection(Levels, 1 .. N)
  <2>1. f \in [Levels -> 1 .. N]
    BY RankFacts
  <2>2. \A p, q \in Levels : f[p] = f[q] => p = q
    BY <1>1
  <2> HIDE DEF f
  <2> QED
    BY <2>1, <2>2 DEF Injection, IsInjective
<1>3. IsFiniteSet(1 .. N) /\ Cardinality(1 .. N) = N
  BY LevelsFacts, FS_Interval
<1>4. f \in Surjection(Levels, 1 .. N)
  <2> HIDE DEF f
  <2> QED
    BY <1>2, <1>3, FS_Injection
<1>5. \A n \in 1 .. N : \E p \in Levels : f[p] = n
  <2> HIDE DEF f
  <2> QED
    BY <1>4 DEF Surjection
<1> QED
  BY <1>1, <1>5

\* BestFirst lists every level once, in the order of the places.
LEMMA BestFirstFacts ==
  ASSUME exchange \in Books
  PROVE  /\ BestFirst \in Seq(Rows)
         /\ Len(BestFirst) = Cardinality(Levels)
         /\ \A n \in 1 .. Cardinality(Levels) :
              /\ BestFirst[n].px \in Levels
              /\ BestFirst[n].qty = exchange[BestFirst[n].px]
              /\ Rank(BestFirst[n].px) = n
<1> DEFINE N == Cardinality(Levels)
           nth(n) == CHOOSE p \in Levels : Rank(p) = n
<1>1. \A n \in 1 .. N : nth(n) \in Levels /\ Rank(nth(n)) = n
  BY RankBijective
<1>2. BestFirst = [n \in 1 .. N |-> [px |-> nth(n), qty |-> exchange[nth(n)]]]
  BY Zenon DEF BestFirst, Rank, AtLeast
<1> HIDE DEF nth
<1>3. \A n \in 1 .. N : [px |-> nth(n), qty |-> exchange[nth(n)]] \in Rows
  <2> TAKE n \in 1 .. N
  <2>1. nth(n) \in Prices /\ exchange[nth(n)] > 0
    BY <1>1, LevelsFacts
  <2>2. exchange[nth(n)] \in Quantities
    BY <2>1 DEF Books
  <2> QED
    BY <2>1, <2>2 DEF Rows
<1>4. BestFirst \in Seq(Rows) /\ Len(BestFirst) = N
  BY <1>2, <1>3, LevelsFacts
<1>5. \A n \in 1 .. N : BestFirst[n].px = nth(n) /\ BestFirst[n].qty = exchange[nth(n)]
  BY <1>2
<1> QED
  BY <1>1, <1>4, <1>5
-----------------------------------------------------------------------------
(* The array and the exchange's side *)

\* The prices of a sorted array from index lo on are as many as the indices.
LEMMA PricesCount ==
  ASSUME NEW a \in Seq(Rows), Sorted(a), NEW lo \in 1 .. Len(a) + 1,
         NEW S, S = {a[j].px : j \in lo .. Len(a)}
  PROVE  IsFiniteSet(S) /\ Cardinality(S) = Len(a) - lo + 1
<1> DEFINE n == Len(a)
           D == lo .. n
           f == [j \in D |-> a[j].px]
<1>1. n \in Nat /\ D \subseteq 1 .. n /\ \A j \in 1 .. n : a[j].px \in Int
  <2>1. \A j \in 1 .. n : a[j] \in Rows
    OBVIOUS
  <2> QED
    BY <2>1, RowFacts
<1>2. IsFiniteSet(D) /\ Cardinality(D) = n - lo + 1
  <2>1. lo \in Int /\ n \in Int /\ (lo > n => n - lo + 1 = 0)
    BY <1>1
  <2> HIDE DEF n
  <2> QED
    BY <2>1, FS_Interval, Zenon
<1>3. \A i, j \in D : f[i] = f[j] => i = j
  <2> SUFFICES ASSUME NEW i \in D, NEW j \in D, a[i].px = a[j].px, i # j PROVE FALSE
    OBVIOUS
  <2>1. IsWorse(a[i].px, a[j].px) \/ IsWorse(a[j].px, a[i].px)
    BY <1>1 DEF Sorted
  <2> QED
    BY <1>1, <2>1, WorseIsTotal
<1>4. f \in [D -> S] /\ \A s \in S : \E j \in D : f[j] = s
  OBVIOUS
<1> HIDE DEF f, D
<1>5. f \in Surjection(D, S) /\ f \in Injection(D, S)
  BY <1>3, <1>4, Zenon DEF Surjection, Injection, IsInjective
<1>6. IsFiniteSet(S) /\ Cardinality(S) = Cardinality(D)
  BY <1>2, <1>5, FS_Surjection
<1> QED
  BY <1>2, <1>6

\* The k best levels of a good array are the k best of the exchange.
LEMMA TopFacts ==
  ASSUME exchange \in Books, NEW k \in Nat, NEW a, Good(a, exchange, k),
         NEW n \in 0 .. k - 1
  PROVE  DepthAt(a, n) = IF n < Len(BestFirst) THEN <<BestFirst[n + 1]>> ELSE << >>
<1> DEFINE z == Len(a)
           N == Cardinality(Levels)
<1>1. a \in Seq(Rows) /\ z \in Nat /\ Sorted(a) /\ Complete(a, exchange, k)
      /\ \A j \in 1 .. z : a[j].qty = exchange[a[j].px]
  BY DEF Good
<1>2. \A j \in 1 .. z : a[j] \in Rows /\ a[j].px \in Levels /\ a[j].px \in Int
  BY <1>1, RowFacts DEF Levels
<1>3. n \in Nat /\ n < k /\ N \in Nat /\ Len(BestFirst) = N
  BY LevelsFacts, BestFirstFacts
<1>4. \A q \in Levels : Absent(a, q) => k <= z /\ IsWorse(q, a[z - k + 1].px)
  BY <1>1, <1>3, LevelsFacts DEF Complete
<1>5. CASE n >= z
  <2> DEFINE S == {a[j].px : j \in 1 .. Len(a)}
  <2>1. \A q \in Levels : ~Absent(a, q)
    BY <1>1, <1>3, <1>4, <1>5
  <2>2. S = Levels
    BY <1>2, <2>1 DEF Absent
  <2>3. 1 \in 1 .. Len(a) + 1 /\ Len(a) - 1 + 1 = z
    BY <1>1
  <2>4. Cardinality(S) = Len(a) - 1 + 1
    <3>1. S = {a[j].px : j \in 1 .. Len(a)}
      OBVIOUS
    <3> HIDE DEF S
    <3> QED
      BY <1>1, <2>3, <3>1, PricesCount, Zenon
  <2>5. N = z
    BY <2>2, <2>3, <2>4, Zenon
  <2> QED
    BY <1>3, <1>5, <2>5 DEF DepthAt
<1>6. CASE n < z
  <2> DEFINE lo == z - n
             p == a[lo].px
             S == {a[j].px : j \in lo .. Len(a)}
  <2>1. lo \in 1 .. z /\ Len(a) - lo + 1 = n + 1
    BY <1>1, <1>3, <1>6
  <2>2. p \in Levels /\ p \in Int
    BY <1>2, <2>1
  <2> HIDE DEF lo
  <2>3. ASSUME NEW q \in AtLeast(p) PROVE q \in S
    <3>1. q \in Levels /\ ~IsWorse(q, p) /\ q \in Int
      BY LevelsFacts DEF AtLeast
    <3>2. ~Absent(a, q)
      <4> SUFFICES ASSUME Absent(a, q) PROVE FALSE
        OBVIOUS
      <4> DEFINE m == z - k + 1
      <4>1. k <= z /\ IsWorse(q, a[m].px)
        BY <1>4, <3>1
      <4>2. m \in 1 .. z /\ m <= lo
        BY <1>1, <1>3, <4>1 DEF lo
      <4> HIDE DEF m
      <4>3. m = lo \/ IsWorse(a[m].px, p)
        BY <1>1, <2>1, <4>2 DEF Sorted
      <4> QED
        BY <1>2, <2>2, <3>1, <4>1, <4>2, <4>3, WorseIsTotal
    <3>3. PICK j \in 1 .. z : a[j].px = q
      BY <3>2 DEF Absent
    <3>4. ~(j < lo)
      BY <1>1, <2>1, <3>1, <3>3 DEF Sorted
    <3>5. j \in lo .. Len(a)
      BY <1>1, <2>1, <3>4
    <3> QED
      BY <3>3, <3>5
  <2>4. ASSUME NEW q \in S PROVE q \in AtLeast(p)
    <3>1. PICK j \in lo .. z : q = a[j].px
      OBVIOUS
    <3>2. j \in 1 .. z /\ (j = lo \/ lo < j)
      BY <1>1, <2>1, <3>1
    <3>3. j = lo \/ IsWorse(p, a[j].px)
      BY <1>1, <2>1, <3>2 DEF Sorted
    <3>4. ~IsWorse(q, p)
      BY <1>2, <2>2, <3>1, <3>2, <3>3, WorseIsTotal
    <3> QED
      BY <1>2, <3>1, <3>2, <3>4 DEF AtLeast
  <2>5. Rank(p) = n + 1
    <3>1. S = {a[j].px : j \in lo .. Len(a)} /\ lo \in 1 .. Len(a) + 1
      BY <1>1, <2>1
    <3>2. S = AtLeast(p)
      <4> HIDE DEF S
      <4> QED
        BY <2>3, <2>4
    <3> HIDE DEF S
    <3>3. Cardinality(S) = Len(a) - lo + 1
      BY <1>1, <3>1, PricesCount
    <3> QED
      BY <2>1, <3>2, <3>3 DEF Rank
  <2>6. n + 1 \in 1 .. N /\ n < N
    BY <1>3, <2>2, <2>5, RankFacts
  <2> DEFINE w == BestFirst[n + 1]
  <2>7. w \in Rows /\ w.px = p /\ w.qty = exchange[p]
    <3>1. w \in Rows
      BY <1>3, <2>6, BestFirstFacts
    <3>2. w.px \in Levels /\ Rank(w.px) = n + 1 /\ w.qty = exchange[w.px]
      BY <2>6, BestFirstFacts
    <3> QED
      BY <2>2, <2>5, <3>1, <3>2, RankBijective
  <2>8. a[lo] \in Rows /\ a[lo].qty = exchange[p]
    BY <1>1, <1>2, <2>1
  <2>9. a[lo] = w
    <3> HIDE DEF w
    <3> QED
      BY <2>7, <2>8 DEF Rows
  <2>10. DepthAt(a, n) = <<a[lo]>>
    BY <1>1, <1>3, <1>6 DEF DepthAt, lo
  <2> QED
    BY <1>3, <2>6, <2>9, <2>10
<1> QED
  BY <1>1, <1>3, <1>5, <1>6
-----------------------------------------------------------------------------
(* The rebuild *)

\* The exchange's side up to its n best levels.
Part(n) == [p \in Prices |-> IF p \in Levels /\ Rank(p) <= n THEN exchange[p] ELSE 0]

\* One more level of BestFirst is one level set.
LEMMA PartFacts ==
  ASSUME exchange \in Books
  PROVE  /\ \A n \in Nat : Part(n) \in Books
         /\ \A p \in Prices : Part(0)[p] = 0
         /\ \A n \in 1 .. Cardinality(Levels) :
              Part(n) = [Part(n - 1) EXCEPT ![BestFirst[n].px] = BestFirst[n].qty]
<1> DEFINE N == Cardinality(Levels)
<1>1. N \in Nat /\ \A p \in Levels : p \in Prices /\ Rank(p) \in 1 .. N
  BY LevelsFacts, RankFacts
<1>2. ASSUME NEW n \in Nat PROVE Part(n) \in Books
  BY DEF Part, Books
<1>3. \A p \in Prices : Part(0)[p] = 0
  BY <1>1 DEF Part
<1>4. ASSUME NEW n \in 1 .. N
      PROVE  Part(n) = [Part(n - 1) EXCEPT ![BestFirst[n].px] = BestFirst[n].qty]
  <2> DEFINE w == BestFirst[n]
             b == [Part(n - 1) EXCEPT ![w.px] = w.qty]
  <2>1. w.px \in Levels /\ Rank(w.px) = n /\ w.qty = exchange[w.px] /\ w.px \in Prices
    BY <1>1, BestFirstFacts
  <2> HIDE DEF w
  <2>2. ASSUME NEW p \in Prices PROVE Part(n)[p] = b[p]
    <3>1. CASE p = w.px
      BY <2>1, <3>1 DEF Part
    <3>2. CASE p # w.px
      <4>1. p \in Levels => Rank(p) # n /\ Rank(p) \in 1 .. N
        BY <1>1, <2>1, <3>2, RankBijective
      <4>2. p \in Levels => (Rank(p) <= n <=> Rank(p) <= n - 1)
        BY <1>1, <4>1
      <4>3. b[p] = Part(n - 1)[p]
        BY <3>2 DEF Part
      <4> QED
        BY <4>2, <4>3 DEF Part
    <3> QED
      BY <3>1, <3>2
  <2>3. Part(n) = [p \in Prices |-> Part(n)[p]] /\ b = [p \in Prices |-> b[p]]
    BY Zenon DEF Part
  <2>4. Part(n) = b
    <3>1. [p \in Prices |-> Part(n)[p]] = [p \in Prices |-> b[p]]
      <4> HIDE DEF b
      <4> QED
        BY <2>2, Zenon
    <3> HIDE DEF b
    <3> QED
      BY <2>3, <3>1, Zenon
  <2> QED
    BY <2>4 DEF w
<1> QED
  BY <1>2, <1>3, <1>4

\* A side that is good for the best m levels is good for all of them, if m is
\* all of them or fills the array.
LEMMA PartSuffices ==
  ASSUME exchange \in Books, NEW N, N = Cardinality(Levels),
         NEW m \in 0 .. N, m = N \/ m >= MaxLevels,
         NEW a, Good(a, Part(m), MaxLevels)
  PROVE  Good(a, exchange, MaxLevels)
<1> DEFINE z == Len(a)
<1>1. N \in Nat /\ Len(BestFirst) = N /\ BestFirst \in Seq(Rows) /\ MaxLevels \in Nat
  BY LevelsFacts, BestFirstFacts, MaxLevelsAssumption
<1>2. m \in 0 .. N /\ (m = N \/ m >= MaxLevels)
  OBVIOUS
<1>3. a \in Seq(Rows) /\ z \in Nat /\ z <= MaxLevels /\ Sorted(a) /\ Complete(a, Part(m), MaxLevels)
      /\ \A j \in 1 .. z : a[j].qty = Part(m)[a[j].px]
  BY DEF Good
<1>4. \A j \in 1 .. z : a[j] \in Rows /\ a[j].px \in Prices /\ a[j].px \in Int /\ a[j].qty \in Int /\ a[j].qty > 0
  BY <1>3, RowFacts
<1>5. ASSUME NEW j \in 1 .. z
       PROVE  a[j].px \in Levels /\ Rank(a[j].px) <= m /\ a[j].qty = exchange[a[j].px]
  <2> DEFINE p == a[j].px
  <2>1. p \in Prices /\ Part(m)[p] # 0 /\ a[j].qty = Part(m)[p]
    BY <1>3, <1>4
  <2> HIDE DEF p
  <2>2. p \in Levels /\ Rank(p) <= m /\ Part(m)[p] = exchange[p]
    BY <2>1 DEF Part
  <2> QED
    BY <2>1, <2>2 DEF p
<1>6. Complete(a, exchange, MaxLevels)
  <2> SUFFICES ASSUME NEW p \in Prices, exchange[p] > 0, Absent(a, p), MaxLevels > 0
               PROVE  MaxLevels <= z /\ IsWorse(p, a[z - MaxLevels + 1].px)
    BY DEF Complete
  <2>1. p \in Levels /\ p \in Int /\ Rank(p) \in 1 .. N
    BY RowFacts, RankFacts DEF Levels
  <2>2. CASE Rank(p) <= m
    <3>1. Part(m)[p] > 0
      BY <2>1, <2>2 DEF Part
    <3> QED
      BY <1>3, <3>1 DEF Complete
  <2>3. CASE ~(Rank(p) <= m)
    <3>1. m >= MaxLevels
      BY <1>1, <1>2, <2>1, <2>3
    <3>2. ASSUME NEW j \in 1 .. z PROVE IsWorse(p, a[j].px)
      <4> DEFINE r == a[j].px
      <4>1. r \in Levels /\ r \in Int /\ Rank(r) <= m /\ Rank(r) \in 1 .. N
        BY <1>4, <1>5, RankFacts
      <4> HIDE DEF r
      <4>2. Rank(r) < Rank(p)
        BY <1>1, <1>2, <2>1, <2>3, <4>1
      <4>3. ~IsWorse(r, p) /\ r # p
        BY <1>1, <2>1, <4>1, <4>2, RankFacts
      <4> QED
        BY <2>1, <4>1, <4>3, WorseIsTotal DEF r
    <3>3. MaxLevels <= z
      <4>1. CASE \E t \in Levels : Rank(t) <= m /\ Absent(a, t)
        <5>1. PICK t \in Levels : Rank(t) <= m /\ Absent(a, t)
          BY <4>1
        <5>2. t \in Prices /\ Part(m)[t] > 0
          BY <5>1, LevelsFacts DEF Part
        <5> QED
          BY <1>3, <5>1, <5>2 DEF Complete
      <4>2. CASE \A t \in Levels : Rank(t) <= m => ~Absent(a, t)
        <5> DEFINE S == {a[j].px : j \in 1 .. Len(a)}
                   g == [i \in 1 .. m |-> BestFirst[i].px]
        <5>1. IsFiniteSet(S) /\ Cardinality(S) = z
          <6>1. 1 \in 1 .. Len(a) + 1 /\ Len(a) - 1 + 1 = z
            BY <1>3
          <6>2. S = {a[j].px : j \in 1 .. Len(a)}
            OBVIOUS
          <6> HIDE DEF S
          <6>3. IsFiniteSet(S) /\ Cardinality(S) = Len(a) - 1 + 1
            BY <1>3, <6>1, <6>2, PricesCount
          <6> QED
            BY <6>1, <6>3
        <5>2. \A i \in 1 .. m : g[i] \in Levels /\ Rank(g[i]) = i
          BY <1>1, <1>2, BestFirstFacts
        <5>3. \A i \in 1 .. m : g[i] \in S
          <6> TAKE i \in 1 .. m
          <6>1. ~Absent(a, g[i])
            <7> HIDE DEF g
            <7>1. i <= m
              BY <1>1, <1>2
            <7>2. g[i] \in Levels /\ Rank(g[i]) <= m
              BY <5>2, <7>1
            <7> QED
              BY <4>2, <7>2
          <6> QED
            BY <6>1 DEF Absent
        <5>4. g \in [1 .. m -> S] /\ \A i, j \in 1 .. m : g[i] = g[j] => i = j
          <6>1. g = [i \in 1 .. m |-> g[i]]
            OBVIOUS
          <6> HIDE DEF g, S
          <6> QED
            BY <5>2, <5>3, <6>1
        <5> HIDE DEF g, S
        <5>5. g \in Injection(1 .. m, S)
          BY <5>4 DEF Injection, IsInjective
        <5>6. Cardinality(1 .. m) <= Cardinality(S)
          BY <5>1, <5>5, FS_Injection
        <5>7. Cardinality(1 .. m) = m
          BY <1>2, FS_Interval
        <5> QED
          BY <1>1, <1>2, <1>3, <3>1, <5>1, <5>6, <5>7
      <4> QED
        BY <4>1, <4>2
    <3>4. z - MaxLevels + 1 \in 1 .. z
      BY <1>1, <1>3, <3>3
    <3> QED
      BY <3>2, <3>3, <3>4
  <2> QED
    BY <2>2, <2>3
<1> QED
  BY <1>3, <1>5, <1>6 DEF Good

\* Applying the first m levels of BestFirst to an empty side makes it good for
\* those levels.
LEMMA FillsUp ==
  ASSUME exchange \in Books, NEW s \in Seq(Rows), s = BestFirst, NEW N \in Nat,
         N = Cardinality(Levels), Len(s) = N, NEW m \in 0 .. N,
         NEW u, u = SubSeq(s, 1, m)
  PROVE  Good(ApplyAll(<< >>, u), Part(m), MaxLevels)
<1>1. m \in Nat /\ MaxLevels \in Nat
  BY MaxLevelsAssumption
<1>2. Len(u) = m /\ \A i \in 1 .. m : u[i] = s[i] /\ u[i] \in Rows
  OBVIOUS
<1>3. PICK e : e = << >>
  OBVIOUS
<1>4. PICK f : Runs(e, u, f)
  <2>1. Len(u) \in Nat
    BY <1>1, <1>2
  <2> QED
    BY <2>1, AllFacts, Zenon
<1>5. /\ f[0] = e
      /\ \A i \in 1 .. m : f[i] = Apply(f[i - 1], u[i].px, u[i].qty)
      /\ ApplyAll(e, u) = f[m]
  BY <1>2, <1>4 DEF Runs
<1> DEFINE Q(i) == Good(f[i], Part(i), MaxLevels)
<1>6. Q(0)
  <2>1. e \in Seq(Rows) /\ Len(e) = 0
    BY <1>3
  <2>2. Good(e, Part(0), MaxLevels)
    BY <1>1, <2>1, PartFacts DEF Good, Sorted, Complete
  <2> QED
    BY <1>5, <2>2
<1>7. ASSUME NEW i \in 1 .. m, Q(i - 1)
      PROVE  Q(i)
  <2>1. PICK x \in Rows : x = u[i] /\ x = BestFirst[i]
    BY <1>2
  <2>2. PICK px \in Prices, q \in Quantities : px = x.px /\ q = x.qty
    BY RowFacts
  <2>3. PICK a : a = f[i - 1]
    OBVIOUS
  <2>4. PICK ex : ex = Part(i - 1)
    OBVIOUS
  <2>5. i \in 1 .. N /\ i - 1 \in Nat
    OBVIOUS
  <2>6. ex \in Books /\ Part(i) = [ex EXCEPT ![px] = q]
    BY <2>1, <2>2, <2>4, <2>5, PartFacts
  <2>7. f[i] = Apply(a, px, q)
    BY <1>5, <2>1, <2>2, <2>3
  <2>8. Good(a, ex, MaxLevels)
    BY <1>7, <2>3, <2>4
  <2>9. Costs(ex, px, q, MaxLevels, MaxLevels)
    BY <1>1, RowFacts DEF Costs
  <2>10. MaxLevels \in 0 .. MaxLevels
    BY <1>1
  <2>11. Good(Apply(a, px, q), Part(i), MaxLevels)
    BY <2>6, <2>8, <2>9, <2>10, ApplyKeeps, Zenon
  <2> QED
    BY <2>7, <2>11
<1>8. Q(m)
  <2> HIDE DEF Q
  <2> DEFINE T == {i \in 0 .. m : ~Q(i)}
  <2>1. SUFFICES ASSUME T # {} PROVE FALSE
    <3>1. m \in 0 .. m
      BY <1>1
    <3> QED
      BY <3>1
  <2>2. \E i \in T : \A y \in T : i <= y
    <3>1. T \in SUBSET Nat
      BY <1>1
    <3> HIDE DEF T
    <3> QED
      BY <2>1, <3>1, LeastNat
  <2>3. PICK i \in T : \A y \in T : i <= y
    BY <2>2
  <2>4. i \in 0 .. m /\ ~Q(i) /\ i # 0
    BY <1>6
  <2>5. i \in 1 .. m /\ i - 1 \in 0 .. m /\ i - 1 < i
    BY <1>1, <2>4
  <2>6. i - 1 \notin T
    <3> HIDE DEF T
    <3> QED
      BY <2>3, <2>5
  <2> QED
    BY <1>7, <2>4, <2>5, <2>6
<1>9. ApplyAll(<< >>, u) = f[m]
  BY <1>3, <1>5
<1> QED
  BY <1>8, <1>9

\* Applying the snapshot to an empty side gives the best levels, all of them.
LEMMA RebuildGood ==
  ASSUME exchange \in Books,
         NEW m, m = Min({SnapshotDepth, Len(BestFirst)}),
         NEW u, u = SubSeq(BestFirst, 1, m)
  PROVE  Good(ApplyAll(<< >>, u), exchange, MaxLevels)
<1>1. PICK s, N : s = BestFirst /\ N = Cardinality(Levels)
  OBVIOUS
<1>2. N \in Nat /\ Len(s) = N /\ s \in Seq(Rows) /\ MaxLevels \in Nat
      /\ SnapshotDepth \in Nat /\ SnapshotDepth >= MaxLevels
  BY <1>1, LevelsFacts, BestFirstFacts, MaxLevelsAssumption, SnapshotDepthAssumption
<1>3. m = Min({SnapshotDepth, N})
  BY <1>1, <1>2
<1>4. m = IF SnapshotDepth <= N THEN SnapshotDepth ELSE N
  <2>1. SnapshotDepth \in Int /\ N \in Int
    BY <1>2
  <2>2. Min({SnapshotDepth, N}) = IF SnapshotDepth <= N THEN SnapshotDepth ELSE N
    BY ONLY <2>1, MaxMin
  <2> QED
    BY <1>3, <2>2
<1>5. m \in 0 .. N /\ (m = N \/ m >= MaxLevels)
  BY <1>2, <1>4
<1>6. PICK a : a = ApplyAll(<< >>, u)
  OBVIOUS
<1>7. Good(a, Part(m), MaxLevels)
  BY <1>1, <1>2, <1>5, <1>6, FillsUp, Zenon
<1>8. Good(a, exchange, MaxLevels)
  BY <1>1, <1>5, <1>7, PartSuffices
<1> QED
  BY <1>6, <1>8
-----------------------------------------------------------------------------
(* The specification *)

\* Every diff and every rebuild preserves the invariant.
LEMMA BookStep ==
  BookOK /\ [BookNext]_bookVars => BookOK'
<1> SUFFICES ASSUME BookOK, [BookNext]_bookVars
             PROVE  BookOK'
  OBVIOUS
<1>1. /\ side \in Sides /\ exchange \in Books /\ deletions \in 0 .. MaxLevels
      /\ Good(arr, exchange, MaxLevels - deletions) /\ MaxLevels \in Nat
  BY MaxLevelsAssumption DEF BookOK, Books
<1>2. SUFFICES /\ side' = side /\ exchange' \in Books /\ deletions' \in 0 .. MaxLevels
               /\ Good(arr', exchange', MaxLevels - deletions')
  BY <1>1, Zenon DEF BookOK, Books, Good, Sorted, Complete, Absent, IsWorse
<1>3. CASE UNCHANGED bookVars
  BY <1>1, <1>3 DEF bookVars
<1>4. ASSUME NEW px \in Prices, NEW q \in Quantities \cup {0}, Diff(px, q)
      PROVE  /\ side' = side /\ exchange' \in Books /\ deletions' \in 0 .. MaxLevels
             /\ Good(arr', exchange', MaxLevels - deletions')
  <2>1. PICK u : u = <<[px |-> px, qty |-> q]>>
    BY Zenon
  <2>2. PICK gone \in 0 .. 1 : gone = IF q = 0 /\ exchange[px] > 0 THEN 1 ELSE 0
    OBVIOUS
  <2>3. /\ side' = side /\ exchange' = [exchange EXCEPT ![px] = q]
        /\ arr' = ApplyAll(arr, u) /\ deletions' = Min({deletions + gone, MaxLevels})
    BY <1>4, <2>1, <2>2 DEF Diff
  <2>4. exchange' \in Books
    BY <1>1, <2>3, BookSet, Zenon
  <2>5. deletions' = IF deletions + gone <= MaxLevels THEN deletions + gone ELSE MaxLevels
    <3>1. deletions + gone \in Int /\ MaxLevels \in Int
      BY <1>1
    <3> QED
      BY <2>3, <3>1, MaxMin
  <2>6. arr' = Apply(arr, px, q)
    <3>1. Len(u) = 1 /\ u[1].px = px /\ u[1].qty = q
      BY <2>1
    <3>2. PICK f : Runs(arr, u, f)
      <4>1. Len(u) \in Nat
        BY <3>1
      <4> QED
        BY <4>1, AllFacts, Zenon
    <3> QED
      BY <2>3, <3>1, <3>2 DEF Runs
  <2>7. PICK k, kk : k = MaxLevels - deletions /\ kk = MaxLevels - deletions'
    OBVIOUS
  <2>8. k \in 0 .. MaxLevels /\ kk \in 0 .. k /\ deletions' \in 0 .. MaxLevels
    BY <1>1, <2>5, <2>7
  <2>9. Costs(exchange, px, q, k, kk)
    BY <1>1, <2>2, <2>5, <2>7, <2>8 DEF Costs
  <2>10. Good(Apply(arr, px, q), exchange', kk)
    BY <1>1, <2>3, <2>7, <2>8, <2>9, ApplyKeeps, Zenon
  <2> QED
    BY <2>3, <2>4, <2>6, <2>7, <2>8, <2>10
<1>5. CASE Rebuild
  <2>1. PICK m : m = Min({SnapshotDepth, Len(BestFirst)})
    OBVIOUS
  <2>2. PICK u : u = SubSeq(BestFirst, 1, m)
    BY Zenon
  <2>3. arr' = ApplyAll(<< >>, u) /\ deletions' = 0 /\ side' = side /\ exchange' = exchange
    BY <1>5, <2>1, <2>2 DEF Rebuild
  <2>4. Good(ApplyAll(<< >>, u), exchange, MaxLevels)
    BY <1>1, <2>1, <2>2, RebuildGood, Zenon
  <2>5. MaxLevels - deletions' = MaxLevels /\ deletions' \in 0 .. MaxLevels
    BY <1>1, <2>3
  <2> QED
    BY <1>1, <2>3, <2>4, <2>5
<1> QED
  BY <1>3, <1>4, <1>5 DEF BookNext

LEMMA BookInvariance ==
  BookSpec => []BookOK
<1>1. BookInit => BookOK
  <2> SUFFICES ASSUME BookInit PROVE BookOK
    OBVIOUS
  <2>1. << >> \in Seq(Rows) /\ Len(<< >>) = 0 /\ MaxLevels \in Nat
    BY MaxLevelsAssumption
  <2>2. arr = << >> /\ exchange = [p \in Prices |-> 0] /\ deletions = 0 /\ side \in Sides
    BY DEF BookInit
  <2>3. Good(arr, exchange, MaxLevels - deletions)
    BY <2>1, <2>2 DEF Good, Sorted, Complete
  <2> QED
    BY <2>1, <2>2, <2>3 DEF BookOK
<1> QED
  BY <1>1, BookStep, PTL DEF BookSpec

\* The array that Apply maintains always fits its slots, runs strictly from the
\* worst price to the best, and holds only levels of the exchange with their
\* quantities, for every book depth, price range and order of updates.
THEOREM SideSound == BookSpec => []SideIsSound
<1>1. BookOK => SideIsSound
  BY DEF BookOK, Good, Sorted, SideIsSound
<1> QED
  BY <1>1, BookInvariance, PTL

\* On every reachable side Apply's binary search returns the number of worse
\* levels, for every price.
THEOREM SearchCorrect == BookSpec => []SearchFindsLowerBound
<1>1. BookOK => SearchFindsLowerBound
  <2> SUFFICES ASSUME BookOK, NEW p \in Prices
               PROVE  LowerBound(arr, p) = Cardinality({i \in 1 .. Len(arr) : IsWorse(arr[i].px, p)})
    BY DEF SearchFindsLowerBound
  <2>1. arr \in Seq(Rows) /\ Sorted(arr)
    BY DEF BookOK, Good
  <2>2. PICK k : k = LowerBound(arr, p)
    OBVIOUS
  <2>3. k \in 0 .. Len(arr) /\ \A i \in 1 .. Len(arr) : IsWorse(arr[i].px, p) <=> i <= k
    BY <2>1, <2>2, LowerBoundFacts
  <2>4. {i \in 1 .. Len(arr) : IsWorse(arr[i].px, p)} = 1 .. k
    BY <2>1, <2>3
  <2>5. Cardinality(1 .. k) = k
    BY <2>1, <2>3, FS_Interval
  <2> QED
    BY <2>2, <2>4, <2>5, Zenon
<1> QED
  BY <1>1, BookInvariance, PTL

\* Whatever was inserted, evicted and deleted, DepthAt reports the exchange's
\* best MaxLevels - d levels when d levels were deleted since the rebuild.
THEOREM TopExact == BookSpec => []TopIsExact
<1>1. BookOK => TopIsExact
  <2> SUFFICES ASSUME BookOK, NEW n \in 0 .. MaxLevels - deletions - 1
               PROVE  DepthAt(arr, n) = IF n < Len(BestFirst) THEN <<BestFirst[n + 1]>> ELSE << >>
    BY DEF TopIsExact
  <2>1. PICK k : k = MaxLevels - deletions
    OBVIOUS
  <2>2. k \in Nat /\ n \in 0 .. k - 1 /\ exchange \in Books /\ Good(arr, exchange, k)
    BY <2>1, MaxLevelsAssumption DEF BookOK, Books
  <2> QED
    BY <2>2, TopFacts
<1> QED
  BY <1>1, BookInvariance, PTL
=============================================================================
