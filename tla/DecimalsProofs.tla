--------------------------- MODULE DecimalsProofs ---------------------------
(***************************************************************************)
(* Proofs about the conversions, for every alphabet of digits, every       *)
(* INT64_MAX of at least 9 and every bound on length and scale.            *)
(*                                                                         *)
(* The loops of the code and the sum of the reference are recursive        *)
(* functions; each is first shown to be a run, of which every value comes  *)
(* from the one before (ReadRuns, PaddedRuns, SizeRuns, FromCharsRuns).    *)
(* ParsesExactly then walks the loop of DecimalToScaled beside the sum: as *)
(* long as the loop goes on, the value it holds is the sum so far in the   *)
(* unit of the last digit taken (Fits), and where it stops the number is   *)
(* too fine or too large whatever follows (Unreadable).  ConversionsUndo   *)
(* computes the sum of a written text digit by digit (WrittenSize) and the *)
(* finest unit of a text from its last digit that is not 0 (Finest).       *)
(***************************************************************************)
EXTENDS Decimals, SequenceTheorems, FiniteSetTheorems, WellFoundedInduction, TLAPS

-----------------------------------------------------------------------------
(* The loops are recursive functions, of which every value is reached from *)
(* the one before.                                                         *)

\* A non-empty set of naturals has a least member.
LEMMA LeastNat ==
  ASSUME NEW T \in SUBSET Nat, T # {}
  PROVE  \E x \in T : \A y \in T : x <= y
<1> DEFINE R == OpToRel(<, Nat)
<1>1. IsWellFoundedOn(R, Nat)
  BY NatLessThanWellFounded, Zenon
<1>2. \A x, y \in Nat : y < x => <<y, x>> \in R
  BY DEF OpToRel
<1> HIDE DEF R
<1>3. PICK x \in T : \A y \in T : ~ (<<y, x>> \in R)
  BY <1>1, WFMin, Zenon
<1>4. \A y \in T : ~ (y < x)
  <2> TAKE y \in T
  <2>1. y \in Nat /\ x \in Nat
    OBVIOUS
  <2>2. y < x => <<y, x>> \in R
    BY <1>2, <2>1, Zenon
  <2> QED
    BY <1>3, <2>2, Zenon
<1>5. \A y \in T : x <= y
  BY <1>4
<1> QED
  BY <1>5

\* Induction up to N.
LEMMA UpTo ==
  ASSUME NEW N \in Nat, NEW T, 0 \in T, \A n \in 0 .. N - 1 : n \in T => n + 1 \in T
  PROVE  \A n \in 0 .. N : n \in T
<1> DEFINE C == {n \in 0 .. N : n \notin T}
<1> SUFFICES ASSUME C # {} PROVE FALSE
  OBVIOUS
<1>1. C \in SUBSET Nat
  OBVIOUS
<1>2. PICK n \in C : \A y \in C : n <= y
  BY <1>1, LeastNat, Zenon
<1>3. n \in 0 .. N /\ n \notin T /\ n # 0
  BY <1>2
<1>4. n - 1 \in 0 .. N - 1 /\ n - 1 \in 0 .. N /\ ~(n <= n - 1) /\ (n - 1) + 1 = n
  BY <1>3
<1>5. n - 1 \in T
  BY <1>2, <1>4
<1> QED
  BY <1>3, <1>4, <1>5

\* N rounds of a loop.
IsRun(f, S, a, N, G) ==
  f \in [0 .. N -> S] /\ f[0] = a /\ \A m \in 1 .. N : f[m] = G[m][f[m - 1]]

\* They can be run.
LEMMA Iterate ==
  ASSUME NEW S, NEW a \in S, NEW N \in Nat, NEW G \in [1 .. N -> [S -> S]]
  PROVE  \E f : IsRun(f, S, a, N, G)
<1> DEFINE Runs(n) == \E f \in [0 .. n -> S] : f[0] = a /\ \A m \in 1 .. n : f[m] = G[m][f[m - 1]]
           T == {n \in 0 .. N : Runs(n)}
<1>1. 0 \in T
  <2> DEFINE f == [m \in 0 .. 0 |-> a]
  <2>1. f \in [0 .. 0 -> S] /\ f[0] = a /\ \A m \in 1 .. 0 : f[m] = G[m][f[m - 1]]
    OBVIOUS
  <2>2. Runs(0)
    BY <2>1, Zenon
  <2> QED
    BY <2>2
<1>2. ASSUME NEW n \in 0 .. N - 1, n \in T PROVE n + 1 \in T
  <2>1. PICK f \in [0 .. n -> S] : f[0] = a /\ \A m \in 1 .. n : f[m] = G[m][f[m - 1]]
    BY <1>2
  <2>2. n + 1 \in 1 .. N /\ n \in 0 .. n /\ n + 1 \in 0 .. N /\ n \in Nat
    OBVIOUS
  <2>3. PICK x \in S : x = G[n + 1][f[n]]
    <3>1. f[n] \in S /\ G[n + 1] \in [S -> S]
      BY <2>2
    <3> QED
      BY <3>1
  <2> DEFINE g == [m \in 0 .. n + 1 |-> IF m = n + 1 THEN x ELSE f[m]]
  <2>4. \A m \in 0 .. n + 1 : m = n + 1 \/ m \in 0 .. n
    BY <2>2
  <2>5. g \in [0 .. n + 1 -> S]
    BY <2>4
  <2>6. g[0] = a
    BY <2>1, <2>2
  <2>7. ASSUME NEW m \in 1 .. n + 1 PROVE g[m] = G[m][g[m - 1]]
    <3>1. m \in 0 .. n + 1 /\ m - 1 \in 0 .. n /\ m - 1 \in 0 .. n + 1 /\ m - 1 # n + 1
      BY <2>2
    <3>2. g[m - 1] = f[m - 1]
      BY <3>1
    <3>3. CASE m = n + 1
      <4>1. m - 1 = n
        BY <2>2, <3>3
      <4> QED
        BY <2>3, <3>1, <3>2, <3>3, <4>1
    <3>4. CASE m # n + 1
      <4>1. m \in 1 .. n
        BY <2>2, <3>4
      <4> QED
        BY <2>1, <3>1, <3>2, <3>4, <4>1
    <3> QED
      BY <3>3, <3>4
  <2> HIDE DEF g
  <2>8. Runs(n + 1)
    BY <2>5, <2>6, <2>7
  <2> QED
    BY <2>2, <2>8, Zenon
<1> HIDE DEF T
<1>3. \A n \in 0 .. N : n \in T
  BY <1>1, <1>2, UpTo, Zenon
<1>4. N \in T
  BY <1>3
<1> QED
  BY <1>4, Zenon DEF T, IsRun

\* The first n powers of ten.
IsTable(f, n) ==
  f \in [0 .. n -> Nat \ {0}] /\ f[0] = 1 /\ \A m \in 1 .. n : f[m] = 10 * f[m - 1]

LEMMA Tables ==
  ASSUME NEW N \in Nat
  PROVE  \E f : IsTable(f, N)
<1> DEFINE S == Nat \ {0}
           G == [m \in 1 .. N |-> [x \in S |-> 10 * x]]
<1>1. 1 \in S /\ G \in [1 .. N -> [S -> S]]
  <2>1. \A x \in S : 10 * x \in S
    OBVIOUS
  <2> QED
    BY <2>1
<1>2. PICK f : IsRun(f, S, 1, N, G)
  <2> HIDE DEF S, G
  <2> QED
    BY <1>1, Iterate, Zenon
<1>3. f \in [0 .. N -> S] /\ f[0] = 1 /\ \A m \in 1 .. N : f[m] = G[m][f[m - 1]]
  BY <1>2, Zenon DEF IsRun
<1>4. ASSUME NEW m \in 1 .. N PROVE f[m] = 10 * f[m - 1]
  <2>1. f[m - 1] \in S
    <3>1. m - 1 \in 0 .. N
      OBVIOUS
    <3> QED
      BY <1>3, <3>1
  <2>2. G[m][f[m - 1]] = 10 * f[m - 1]
    BY <2>1, Zenon
  <2> QED
    BY <1>3, <2>2, Zenon
<1> QED
  BY <1>3, <1>4, Zenon DEF IsTable

LEMMA TablesAgree ==
  ASSUME NEW N \in Nat, NEW f, IsTable(f, N + 1), NEW g, IsTable(g, N)
  PROVE  f[N] = g[N]
<1> DEFINE T == {n \in 0 .. N : f[n] = g[n]}
<1>1. 0 \in T
  BY DEF IsTable
<1>2. ASSUME NEW n \in 0 .. N - 1, n \in T PROVE n + 1 \in T
  <2>1. n + 1 \in 1 .. N + 1 /\ n + 1 \in 1 .. N /\ (n + 1) - 1 = n /\ n + 1 \in 0 .. N
    OBVIOUS
  <2>2. f[n + 1] = 10 * f[n] /\ g[n + 1] = 10 * g[n]
    BY <2>1, SMTT(40) DEF IsTable
  <2> QED
    BY <1>2, <2>1, <2>2
<1>3. \A n \in 0 .. N : n \in T
  <2> HIDE DEF T
  <2> QED
    BY <1>1, <1>2, UpTo
<1>4. N \in 0 .. N
  OBVIOUS
<1> QED
  BY <1>3, <1>4, Zenon

\* The powers of ten.
LEMMA Powers ==
  /\ Pow10[0] = 1
  /\ \A k \in Nat : Pow10[k] \in Nat \ {0}
  /\ \A k \in Nat : Pow10[k + 1] = 10 * Pow10[k]
<1> DEFINE Table(n) == CHOOSE f : IsTable(f, n)
           f == [n \in Nat |-> Table(n)[n]]
           Eqn(h) == [n \in Nat |-> IF n = 0 THEN 1 ELSE 10 * h[n - 1]]
<1>1. \A n \in Nat : IsTable(Table(n), n)
  BY Tables, Zenon
<1> HIDE DEF Table
<1>2. ASSUME NEW m \in Nat PROVE f[m] = IF m = 0 THEN 1 ELSE 10 * f[m - 1]
  <2>1. CASE m = 0
    BY <1>1, <2>1 DEF IsTable
  <2>2. CASE m # 0
    <3>1. PICK n \in Nat : n = m - 1 /\ m = n + 1
      BY <2>2
    <3>2. IsTable(Table(n), n) /\ IsTable(Table(n + 1), n + 1)
      BY <1>1, <3>1
    <3>3. Table(n + 1)[n] = Table(n)[n]
      BY <3>2, TablesAgree, Zenon
    <3>4. n + 1 \in 1 .. n + 1 /\ (n + 1) - 1 = n
      OBVIOUS
    <3>5. Table(n + 1)[n + 1] = 10 * Table(n + 1)[n]
      BY <3>2, <3>4 DEF IsTable
    <3>6. f[m] = 10 * f[n]
      BY <3>1, <3>3, <3>5
    <3> QED
      BY <2>2, <3>1, <3>6, Zenon
  <2> QED
    BY <2>1, <2>2
<1>3. f = Eqn(f)
  BY <1>2, Zenon
<1> HIDE DEF f
<1>4. Pow10 = Eqn(Pow10)
  <2> DEFINE c == CHOOSE g : g = Eqn(g)
  <2>1. Pow10 = c
    BY Zenon DEF Pow10
  <2>2. c = Eqn(c)
    BY <1>3, Zenon
  <2> QED
    BY <2>1, <2>2, Zenon
<1>5. PICK p : p = Pow10
  BY Zenon
<1>6. \A m \in Nat : p[m] = IF m = 0 THEN 1 ELSE 10 * p[m - 1]
  BY <1>4, <1>5, Zenon
<1>7. p[0] = 1
  BY <1>6
<1>8. \A k \in Nat : p[k + 1] = 10 * p[k]
  <2>1. \A k \in Nat : k + 1 \in Nat /\ k + 1 # 0 /\ (k + 1) - 1 = k
    OBVIOUS
  <2> QED
    BY <1>6, <2>1
<1>9. ASSUME NEW k \in Nat PROVE p[k] \in Nat \ {0}
  <2> DEFINE T == {n \in 0 .. k : p[n] \in Nat \ {0}}
  <2>1. 0 \in T
    BY <1>7
  <2>2. \A n \in 0 .. k - 1 : n \in T => n + 1 \in T
    BY <1>8
  <2>3. \A n \in 0 .. k : n \in T
    <3> HIDE DEF T
    <3> QED
      BY <2>1, <2>2, UpTo
  <2>4. k \in 0 .. k
    OBVIOUS
  <2> QED
    BY <2>3, <2>4, Zenon
<1> QED
  BY <1>5, <1>7, <1>8, <1>9, Zenon

LEMMA PowersGrow ==
  ASSUME NEW j \in Nat, NEW k \in Nat, j <= k
  PROVE  Pow10[j] <= Pow10[k]
<1>1. PICK p : p = Pow10
  BY Zenon
<1>2. /\ \A i \in Nat : p[i] \in Nat \ {0}
      /\ \A i \in Nat : p[i + 1] = 10 * p[i]
  BY <1>1, Powers, Zenon
<1> DEFINE T == {n \in 0 .. k : n >= j => p[j] <= p[n]}
<1>3. p[j] \in Nat
  BY <1>2
<1>4. 0 \in T
  BY <1>3
<1>5. ASSUME NEW n \in 0 .. k - 1, n \in T PROVE n + 1 \in T
  <2>1. n + 1 \in 0 .. k /\ n \in Nat
    OBVIOUS
  <2>2. p[n] \in Nat /\ p[n + 1] = 10 * p[n]
    BY <1>2, <2>1
  <2>3. CASE n + 1 = j
    BY <1>3, <2>1, <2>3
  <2>4. CASE n >= j
    BY <1>3, <1>5, <2>1, <2>2, <2>4
  <2> QED
    BY <2>1, <2>3, <2>4
<1>6. \A n \in 0 .. k : n \in T
  <2> HIDE DEF T
  <2> QED
    BY <1>4, <1>5, UpTo
<1>7. k \in 0 .. k /\ k >= j
  OBVIOUS
<1> QED
  BY <1>1, <1>6, <1>7, Zenon

LEMMA PowerStep ==
  ASSUME NEW e \in Nat \ {0}
  PROVE  \E q \in Nat \ {0} : q = Pow10[e - 1] /\ Pow10[e] = 10 * q
<1>1. e - 1 \in Nat /\ (e - 1) + 1 = e
  OBVIOUS
<1>2. Pow10[e - 1] \in Nat \ {0} /\ Pow10[(e - 1) + 1] = 10 * Pow10[e - 1]
  BY <1>1, Powers, Zenon
<1> QED
  BY <1>1, <1>2

\* A number has fewer digits than it counts.
LEMMA PowersPass ==
  ASSUME NEW k \in Nat
  PROVE  k < Pow10[k]
<1>1. PICK p : p = Pow10
  BY Zenon
<1>2. /\ p[0] = 1 /\ \A i \in Nat : p[i] \in Nat \ {0}
      /\ \A i \in Nat : p[i + 1] = 10 * p[i]
  BY <1>1, Powers, Zenon
<1> DEFINE T == {n \in 0 .. k : n < p[n]}
<1>3. 0 \in T
  BY <1>2
<1>4. ASSUME NEW n \in 0 .. k - 1, n \in T PROVE n + 1 \in T
  <2>1. n + 1 \in 0 .. k /\ n \in Nat
    OBVIOUS
  <2>2. p[n] \in Nat /\ p[n + 1] = 10 * p[n]
    BY <1>2, <2>1
  <2> QED
    BY <1>4, <2>1, <2>2
<1>5. \A n \in 0 .. k : n \in T
  <2> HIDE DEF T
  <2> QED
    BY <1>3, <1>4, UpTo
<1>6. k \in 0 .. k
  OBVIOUS
<1> QED
  BY <1>1, <1>5, <1>6, Zenon

\* A character of a text.
Chars == -3 .. 9

\* The locals of DecimalToScaled: the value never overflows.
Locals(scale) ==
  [ok: BOOLEAN, any: BOOLEAN, dot: BOOLEAN, frac: 0 .. scale, value: 0 .. MaxInt]

\* A digit that is taken leaves room.
LEMMA NoOverflow ==
  ASSUME NEW v \in 0 .. MaxInt
  PROVE  /\ ~(v > (MaxInt - 9) \div 10) => 10 * v <= MaxInt - 9
         /\ v > (MaxInt - 9) \div 10 => 10 * v > MaxInt - 9
         /\ ~(v > MaxInt \div 10) => 10 * v <= MaxInt
         /\ v > MaxInt \div 10 => 10 * v > MaxInt
BY MaxIntAssumption

\* What one character does to the locals, case by case.
Taken(a, c, t, scale) ==
  /\ c = Dot =>
       /\ t.ok = (a.ok /\ ~a.dot) /\ t.any = a.any /\ t.dot = TRUE
       /\ t.frac = a.frac /\ t.value = a.value
  /\ c < 0 /\ c # Dot => t.ok = FALSE
  /\ c >= 0 /\ a.dot /\ a.frac >= scale =>
       /\ t.ok = (a.ok /\ c = 0) /\ t.any = TRUE /\ t.dot = a.dot
       /\ t.frac = a.frac /\ t.value = a.value
  /\ c >= 0 /\ ~(a.dot /\ a.frac >= scale) /\ a.value > (MaxInt - 9) \div 10 =>
       t.ok = FALSE /\ t.dot = a.dot
  /\ c >= 0 /\ ~(a.dot /\ a.frac >= scale) /\ ~(a.value > (MaxInt - 9) \div 10) =>
       /\ t.ok = a.ok /\ t.any = TRUE /\ t.dot = a.dot
       /\ t.frac = (IF a.dot THEN a.frac + 1 ELSE a.frac) /\ t.value = 10 * a.value + c

LEMMA TakeCases ==
  ASSUME NEW scale \in Nat, NEW a \in Locals(scale), NEW c \in Chars,
         NEW t, t = Take(a, c, scale)
  PROVE  t \in Locals(scale) /\ Taken(a, c, t, scale)
<1> USE DEF Taken
<1>1. /\ a.ok \in BOOLEAN /\ a.any \in BOOLEAN /\ a.dot \in BOOLEAN
      /\ a.frac \in 0 .. scale /\ a.value \in 0 .. MaxInt
  BY DEF Locals
<1>2. Dot = -1 /\ c \in Int
  BY DEF Dot, Chars
<1>3. CASE c = Dot
  <2>1. t = [a EXCEPT !.ok = a.ok /\ ~a.dot, !.dot = TRUE]
    BY <1>3, Zenon DEF Take
  <2>2. /\ t.ok = (a.ok /\ ~a.dot) /\ t.any = a.any /\ t.dot = TRUE
        /\ t.frac = a.frac /\ t.value = a.value
    BY <2>1 DEF Locals
  <2>3. (a.ok /\ ~a.dot) \in BOOLEAN
    BY Zenon
  <2>4. t \in Locals(scale)
    BY <2>1, <2>3, Zenon DEF Locals
  <2> QED
    BY <1>2, <1>3, <2>2, <2>4
<1>4. CASE c < 0 /\ c # Dot
  <2>1. t = [a EXCEPT !.ok = FALSE]
    BY <1>4, Zenon DEF Take
  <2>2. t \in Locals(scale) /\ t.ok = FALSE
    BY <2>1, Zenon DEF Locals
  <2> QED
    BY <1>2, <1>4, <2>2
<1>5. CASE c >= 0 /\ a.dot /\ a.frac >= scale
  <2>0. c # Dot /\ ~(c < 0)
    BY <1>2, <1>5
  <2>1. t = [a EXCEPT !.any = TRUE, !.ok = a.ok /\ c = 0]
    BY <1>5, <2>0, Zenon DEF Take
  <2>2. /\ t.ok = (a.ok /\ c = 0) /\ t.any = TRUE /\ t.dot = a.dot
        /\ t.frac = a.frac /\ t.value = a.value
    BY <2>1 DEF Locals
  <2>3. (a.ok /\ c = 0) \in BOOLEAN
    BY Zenon
  <2>4. t \in Locals(scale)
    BY <2>1, <2>3, Zenon DEF Locals
  <2> QED
    BY <1>5, <2>0, <2>2, <2>4
<1>6. CASE c >= 0 /\ ~(a.dot /\ a.frac >= scale) /\ a.value > (MaxInt - 9) \div 10
  <2>0. c # Dot /\ ~(c < 0)
    BY <1>2, <1>6
  <2>1. t = [a EXCEPT !.ok = FALSE]
    BY <1>6, <2>0, Zenon DEF Take
  <2>2. t \in Locals(scale) /\ t.ok = FALSE /\ t.dot = a.dot
    BY <2>1, Zenon DEF Locals
  <2> QED
    BY <1>6, <2>0, <2>2
<1>7. CASE c >= 0 /\ ~(a.dot /\ a.frac >= scale) /\ ~(a.value > (MaxInt - 9) \div 10)
  <2>0. c # Dot /\ ~(c < 0)
    BY <1>2, <1>7
  <2>1. t = [a EXCEPT !.any = TRUE, !.value = 10 * a.value + c,
                      !.frac = IF a.dot THEN a.frac + 1 ELSE a.frac]
    BY <1>7, <2>0, Zenon DEF Take
  <2>2. (IF a.dot THEN a.frac + 1 ELSE a.frac) \in 0 .. scale
    BY <1>1, <1>7
  <2>3. 10 * a.value + c \in 0 .. MaxInt
    BY <1>1, <1>2, <1>7, NoOverflow, MaxIntAssumption DEF Chars
  <2>4. /\ t.ok = a.ok /\ t.any = TRUE /\ t.dot = a.dot
        /\ t.frac = (IF a.dot THEN a.frac + 1 ELSE a.frac) /\ t.value = 10 * a.value + c
    BY <2>1 DEF Locals
  <2>5. t \in Locals(scale)
    BY <2>1, <2>2, <2>3, Zenon DEF Locals
  <2> QED
    BY <1>7, <2>0, <2>4, <2>5
<1>8. c < 0 \/ c >= 0
  BY <1>2
<1> QED
  BY <1>3, <1>4, <1>5, <1>6, <1>7, <1>8, Zenon

Reads(f, b, scale) ==
  /\ f \in [0 .. Len(b) -> Locals(scale)] /\ f[0] = Unread
  /\ \A m \in 1 .. Len(b) : f[m] = Take(f[m - 1], b[m], scale)

\* The first loop.
LEMMA ReadRuns ==
  ASSUME NEW scale \in Nat, NEW b \in Seq(Chars)
  PROVE  \E f : Reads(f, b, scale) /\ Read(b, scale) = f[Len(b)]
<1>1. PICK N \in Nat : N = Len(b)
  OBVIOUS
<1>2. PICK S : S = Locals(scale)
  BY Zenon
<1> DEFINE G == [m \in 1 .. N |-> [x \in S |-> Take(x, b[m], scale)]]
           Eqn(f) == [n \in 0 .. N |-> IF n = 0 THEN Unread ELSE Take(f[n - 1], b[n], scale)]
<1>3. Unread \in S
  BY <1>2, MaxIntAssumption DEF Unread, Locals
<1>4. G \in [1 .. N -> [S -> S]]
  <2>1. ASSUME NEW m \in 1 .. N, NEW x \in S PROVE Take(x, b[m], scale) \in S
    <3>1. b[m] \in Chars
      BY <1>1
    <3> QED
      BY <1>2, <3>1, TakeCases
  <2> QED
    BY <2>1, Zenon
<1>5. PICK f \in [0 .. N -> S] : f[0] = Unread /\ \A m \in 1 .. N : f[m] = G[m][f[m - 1]]
  <2> HIDE DEF G
  <2>1. \E f : IsRun(f, S, Unread, N, G)
    BY <1>3, <1>4, Iterate, Zenon
  <2> QED
    BY <2>1, Zenon DEF IsRun
<1>6. \A m \in 1 .. N : f[m] = Take(f[m - 1], b[m], scale)
  <2> SUFFICES ASSUME NEW m \in 1 .. N PROVE f[m] = Take(f[m - 1], b[m], scale)
    OBVIOUS
  <2>1. f[m - 1] \in S
    OBVIOUS
  <2>2. G[m][f[m - 1]] = Take(f[m - 1], b[m], scale)
    BY <2>1, Zenon
  <2> QED
    BY <1>5, <2>2, Zenon
<1>7. f = Eqn(f)
  <2>1. \A m \in 0 .. N : f[m] = IF m = 0 THEN Unread ELSE Take(f[m - 1], b[m], scale)
    <3>1. \A m \in 0 .. N : m = 0 \/ m \in 1 .. N
      OBVIOUS
    <3> QED
      BY <1>5, <1>6, <3>1, Zenon
  <2> QED
    BY <2>1, Zenon
<1> DEFINE c == CHOOSE g : g = Eqn(g)
<1>8. Read(b, scale) = c[N]
  BY <1>1, Zenon DEF Read
<1>9. c = Eqn(c)
  BY <1>7, Zenon
<1>10. PICK r : r = c
  BY Zenon
<1>11. /\ r[0] = Unread /\ \A m \in 1 .. N : r[m] = Take(r[m - 1], b[m], scale)
       /\ r = [m \in 0 .. N |-> r[m]]
  <2>1. r = Eqn(r)
    BY <1>9, <1>10, Zenon
  <2>2. \A m \in 0 .. N : r[m] = IF m = 0 THEN Unread ELSE Take(r[m - 1], b[m], scale)
    BY <2>1, Zenon
  <2>3. 0 \in 0 .. N /\ \A m \in 1 .. N : m \in 0 .. N /\ m # 0
    OBVIOUS
  <2>4. DOMAIN r = 0 .. N /\ r = [m \in DOMAIN r |-> r[m]]
    BY <2>1, Zenon
  <2> QED
    BY <2>2, <2>3, <2>4, Zenon
<1> DEFINE T == {n \in 0 .. N : r[n] \in S}
<1>12. 0 \in T
  BY <1>3, <1>11
<1>13. ASSUME NEW n \in 0 .. N - 1, n \in T PROVE n + 1 \in T
  <2>1. n + 1 \in 1 .. N /\ n + 1 \in 0 .. N /\ (n + 1) - 1 = n /\ b[n + 1] \in Chars
    BY <1>1
  <2>2. r[n + 1] = Take(r[n], b[n + 1], scale)
    BY <1>11, <2>1
  <2>3. PICK x \in Locals(scale) : x = r[n]
    BY <1>2, <1>13
  <2>4. PICK ch \in Chars : ch = b[n + 1]
    BY <2>1
  <2>5. Take(x, ch, scale) \in Locals(scale)
    BY TakeCases
  <2> QED
    BY <1>2, <2>1, <2>2, <2>3, <2>4, <2>5
<1>14. \A n \in 0 .. N : n \in T
  <2> HIDE DEF T
  <2> QED
    BY <1>12, <1>13, UpTo
<1>15. r \in [0 .. N -> S]
  BY <1>11, <1>14
<1> QED
  BY <1>1, <1>2, <1>8, <1>10, <1>11, <1>15, Zenon DEF Reads

\* Arithmetic of powers.
LEMMA Scaling ==
  ASSUME NEW v \in Nat, NEW q \in Nat, NEW c \in Nat
  PROVE  /\ v * (10 * q) = (10 * v) * q
         /\ v * (10 * q) + c * q = (10 * v + c) * q
         /\ v * q \in Nat
BY Z3

LEMMA Products ==
  ASSUME NEW v \in Nat, NEW w \in Nat, v <= w, NEW q \in Nat, NEW r \in Nat, q <= r
  PROVE  v * q <= w * r
<1>1. v * q <= w * q
  OBVIOUS
<1>2. w * q <= w * r
  OBVIOUS
<1> QED
  BY <1>1, <1>2

\* A number strictly between two multiples is no multiple.
LEMMA Between ==
  ASSUME NEW u \in Nat \ {0}, NEW v \in Nat, NEW s \in Nat, v * u < s, s < (v + 1) * u
  PROVE  s % u # 0
<1>1. s = u * (s \div u) + (s % u) /\ s \div u \in Int
  OBVIOUS
<1>2. PICK k \in Int : k = s \div u
  BY <1>1
<1> SUFFICES ASSUME s = u * k PROVE FALSE
  BY <1>1, <1>2
<1>3. v * u < k * u /\ k * u < (v + 1) * u
  OBVIOUS
<1>4. CASE k <= v
  <2>1. k * u <= v * u
    BY <1>4
  <2> QED
    BY <1>3, <2>1
<1>5. CASE k >= v + 1
  <2>1. k * u >= (v + 1) * u
    BY <1>5
  <2> QED
    BY <1>3, <2>1
<1> QED
  BY <1>4, <1>5

\* A number as large as a multiple.
LEMMA Beyond ==
  ASSUME NEW u \in Nat \ {0}, NEW w \in Nat, NEW s \in Nat, w * u <= s
  PROVE  s \div u >= w
<1>1. s = u * (s \div u) + (s % u) /\ s \div u \in Int /\ s % u < u
  OBVIOUS
<1>2. PICK k \in Int : k = s \div u
  BY <1>1
<1> SUFFICES ASSUME k < w PROVE FALSE
  BY <1>2
<1>3. (k + 1) * u <= w * u
  OBVIOUS
<1>4. (k + 1) * u = u * k + u
  OBVIOUS
<1> QED
  BY <1>1, <1>2, <1>3, <1>4

\* What one missing decimal does to the locals, case by case.
PaddedBy(a, t) ==
  /\ t.any = a.any /\ t.frac = a.frac
  /\ a.value > MaxInt \div 10 => t.ok = FALSE
  /\ ~(a.value > MaxInt \div 10) => t.ok = a.ok /\ t.value = 10 * a.value

LEMMA PadCases ==
  ASSUME NEW scale \in Nat, NEW a \in Locals(scale), NEW t, t = Pad(a)
  PROVE  t \in Locals(scale) /\ PaddedBy(a, t)
<1> USE DEF PaddedBy
<1>1. a.value \in 0 .. MaxInt
  BY DEF Locals
<1>2. CASE a.value > MaxInt \div 10
  <2>1. t = [a EXCEPT !.ok = FALSE]
    BY <1>2, Zenon DEF Pad
  <2> QED
    BY <1>2, <2>1, Zenon DEF Locals
<1>3. CASE ~(a.value > MaxInt \div 10)
  <2>1. t = [a EXCEPT !.value = 10 * a.value]
    BY <1>3, Zenon DEF Pad
  <2>2. 10 * a.value \in 0 .. MaxInt
    BY <1>1, <1>3, NoOverflow, MaxIntAssumption
  <2>3. t \in Locals(scale)
    BY <2>1, <2>2 DEF Locals
  <2>4. t.ok = a.ok /\ t.any = a.any /\ t.frac = a.frac /\ t.value = 10 * a.value
    BY <2>1 DEF Locals
  <2> QED
    BY <1>3, <2>3, <2>4
<1> QED
  BY <1>2, <1>3, Zenon

Pads(f, r, N, scale) ==
  /\ f \in [0 .. N -> Locals(scale)] /\ f[0] = r
  /\ \A m \in 1 .. N : f[m] = Pad(f[m - 1])

\* The second loop.
LEMMA PaddedRuns ==
  ASSUME NEW scale \in Nat, NEW r \in Locals(scale), NEW N \in Nat
  PROVE  \E f : Pads(f, r, N, scale) /\ Padded(r, N) = f[N]
<1>2. PICK S : S = Locals(scale)
  BY Zenon
<1> DEFINE G == [m \in 1 .. N |-> [x \in S |-> Pad(x)]]
           Eqn(f) == [n \in 0 .. N |-> IF n = 0 THEN r ELSE Pad(f[n - 1])]
<1>4. G \in [1 .. N -> [S -> S]]
  <2>1. ASSUME NEW m \in 1 .. N, NEW x \in S PROVE Pad(x) \in S
    BY <1>2, PadCases
  <2> QED
    BY <2>1, Zenon
<1>5. PICK f \in [0 .. N -> S] : f[0] = r /\ \A m \in 1 .. N : f[m] = G[m][f[m - 1]]
  <2> HIDE DEF G
  <2>1. \E f : IsRun(f, S, r, N, G)
    BY <1>2, <1>4, Iterate, Zenon
  <2> QED
    BY <2>1, Zenon DEF IsRun
<1>6. \A m \in 1 .. N : f[m] = Pad(f[m - 1])
  <2> SUFFICES ASSUME NEW m \in 1 .. N PROVE f[m] = Pad(f[m - 1])
    OBVIOUS
  <2>1. f[m - 1] \in S
    OBVIOUS
  <2>2. G[m][f[m - 1]] = Pad(f[m - 1])
    BY <2>1, Zenon
  <2> QED
    BY <1>5, <2>2, Zenon
<1>7. f = Eqn(f)
  <2>1. \A m \in 0 .. N : f[m] = IF m = 0 THEN r ELSE Pad(f[m - 1])
    <3>1. \A m \in 0 .. N : m = 0 \/ m \in 1 .. N
      OBVIOUS
    <3> QED
      BY <1>5, <1>6, <3>1, Zenon
  <2> QED
    BY <2>1, Zenon
<1> DEFINE c == CHOOSE g : g = Eqn(g)
<1>8. Padded(r, N) = c[N]
  BY Zenon DEF Padded
<1>9. c = Eqn(c)
  BY <1>7, Zenon
<1>10. PICK p : p = c
  BY Zenon
<1>11. /\ p[0] = r /\ \A m \in 1 .. N : p[m] = Pad(p[m - 1])
       /\ p = [m \in 0 .. N |-> p[m]]
  <2>1. p = Eqn(p)
    BY <1>9, <1>10, Zenon
  <2>2. \A m \in 0 .. N : p[m] = IF m = 0 THEN r ELSE Pad(p[m - 1])
    BY <2>1, Zenon
  <2>3. 0 \in 0 .. N /\ \A m \in 1 .. N : m \in 0 .. N /\ m # 0
    OBVIOUS
  <2>4. DOMAIN p = 0 .. N /\ p = [m \in DOMAIN p |-> p[m]]
    BY <2>1, Zenon
  <2> QED
    BY <2>2, <2>3, <2>4, Zenon
<1> DEFINE T == {n \in 0 .. N : p[n] \in S}
<1>12. 0 \in T
  BY <1>2, <1>11
<1>13. ASSUME NEW n \in 0 .. N - 1, n \in T PROVE n + 1 \in T
  <2>1. n + 1 \in 1 .. N /\ n + 1 \in 0 .. N /\ (n + 1) - 1 = n
    OBVIOUS
  <2>2. p[n + 1] = Pad(p[n])
    BY <1>11, <2>1, Zenon
  <2>3. PICK x \in Locals(scale) : x = p[n]
    BY <1>2, <1>13
  <2>5. Pad(x) \in Locals(scale)
    BY PadCases
  <2> QED
    BY <1>2, <2>1, <2>2, <2>3, <2>5
<1>14. \A n \in 0 .. N : n \in T
  <2> HIDE DEF T
  <2> QED
    BY <1>12, <1>13, UpTo
<1>15. p \in [0 .. N -> S]
  BY <1>11, <1>14
<1> QED
  BY <1>2, <1>8, <1>10, <1>11, <1>15, Zenon DEF Pads

\* What a character adds to the number.
Share(b, i) == IF b[i] >= 0 THEN b[i] * Weight(b, i) ELSE 0

\* Sums can be formed.
LEMMA Sums ==
  ASSUME NEW N \in Nat, NEW h \in [1 .. N -> Nat]
  PROVE  \E f \in [0 .. N -> Nat] : f[0] = 0 /\ \A m \in 1 .. N : f[m] = f[m - 1] + h[m]
<1>1. PICK S : S = Nat
  BY Zenon
<1> DEFINE G == [m \in 1 .. N |-> [x \in S |-> x + h[m]]]
<1>2. 0 \in S /\ G \in [1 .. N -> [S -> S]]
  BY <1>1
<1>3. PICK f \in [0 .. N -> S] : f[0] = 0 /\ \A m \in 1 .. N : f[m] = G[m][f[m - 1]]
  <2> HIDE DEF G
  <2>1. \E f : IsRun(f, S, 0, N, G)
    BY <1>2, Iterate, Zenon
  <2> QED
    BY <2>1, Zenon DEF IsRun
<1>4. ASSUME NEW m \in 1 .. N PROVE f[m] = f[m - 1] + h[m]
  <2>1. f[m - 1] \in S
    OBVIOUS
  <2>2. G[m][f[m - 1]] = f[m - 1] + h[m]
    BY <2>1, Zenon
  <2> QED
    BY <1>3, <2>2, Zenon
<1> QED
  BY <1>1, <1>3, <1>4, Zenon

Adds(s, b) ==
  /\ s \in [0 .. Len(b) -> Nat] /\ s[0] = 0
  /\ \A m \in 1 .. Len(b) : s[m] = s[m - 1] + Share(b, m)

\* The sum of the reference.
LEMMA SizeRuns ==
  ASSUME NEW b \in Seq(Chars), \A i \in 1 .. Len(b) : Share(b, i) \in Nat
  PROVE  \E f : Adds(f, b) /\ Size(b) = f[Len(b)]
<1>1. PICK N \in Nat : N = Len(b)
  OBVIOUS
<1> DEFINE Eqn(f) == [n \in 0 .. N |-> IF n = 0 THEN 0 ELSE f[n - 1] + Share(b, n)]
           h == [m \in 1 .. N |-> Share(b, m)]
<1>2. h \in [1 .. N -> Nat]
  BY <1>1
<1>5. PICK f \in [0 .. N -> Nat] : f[0] = 0 /\ \A m \in 1 .. N : f[m] = f[m - 1] + h[m]
  <2> HIDE DEF h
  <2> QED
    BY <1>2, Sums, Zenon
<1>6. \A m \in 1 .. N : f[m] = f[m - 1] + Share(b, m)
  BY <1>5, Zenon
<1>7. f = Eqn(f)
  <2>1. \A m \in 0 .. N : f[m] = IF m = 0 THEN 0 ELSE f[m - 1] + Share(b, m)
    <3>1. \A m \in 0 .. N : m = 0 \/ m \in 1 .. N
      OBVIOUS
    <3> QED
      BY <1>5, <1>6, <3>1, Zenon
  <2> QED
    BY <2>1, Zenon
<1> DEFINE c == CHOOSE g : g = Eqn(g)
<1>8. Size(b) = c[N]
  BY <1>1, Zenon DEF Size, Share
<1>9. c = Eqn(c)
  BY <1>7, Zenon
<1>10. PICK p : p = c
  BY Zenon
<1>11. /\ p[0] = 0 /\ \A m \in 1 .. N : p[m] = p[m - 1] + Share(b, m)
       /\ p = [m \in 0 .. N |-> p[m]]
  <2>1. p = Eqn(p)
    BY <1>9, <1>10, Zenon
  <2>2. \A m \in 0 .. N : p[m] = IF m = 0 THEN 0 ELSE p[m - 1] + Share(b, m)
    BY <2>1, Zenon
  <2>3. 0 \in 0 .. N /\ \A m \in 1 .. N : m \in 0 .. N /\ m # 0
    OBVIOUS
  <2>4. DOMAIN p = 0 .. N /\ p = [m \in DOMAIN p |-> p[m]]
    BY <2>1, Zenon
  <2> QED
    BY <2>2, <2>3, <2>4, Zenon
<1> DEFINE T == {n \in 0 .. N : p[n] \in Nat}
<1>12. 0 \in T
  BY <1>11
<1>13. ASSUME NEW n \in 0 .. N - 1, n \in T PROVE n + 1 \in T
  <2>1. n + 1 \in 1 .. N /\ n + 1 \in 0 .. N /\ (n + 1) - 1 = n
    OBVIOUS
  <2>2. p[n + 1] = p[n] + Share(b, n + 1)
    BY <1>11, <2>1, Zenon
  <2>3. Share(b, n + 1) \in Nat
    BY <1>1, <2>1
  <2> QED
    BY <1>13, <2>1, <2>2, <2>3
<1>14. \A n \in 0 .. N : n \in T
  <2> HIDE DEF T
  <2> QED
    BY <1>12, <1>13, UpTo, Zenon
<1>15. p \in [0 .. N -> Nat]
  BY <1>11, <1>14
<1> QED
  BY <1>1, <1>8, <1>10, <1>11, <1>15, Zenon DEF Adds
-----------------------------------------------------------------------------
(* What the first n characters must be for the loop to go on.              *)

HasDot(b, n) == \E i \in 1 .. n : b[i] = Dot
HasDigit(b, n) == \E i \in 1 .. n : b[i] >= 0
Legal(b, n) ==
  /\ \A i \in 1 .. n : b[i] >= 0 \/ b[i] = Dot
  /\ \A i, j \in 1 .. n : b[i] = Dot /\ b[j] = Dot => i = j

\* One round of the loop, with the cases of Take.
LEMMA ReadStep ==
  ASSUME NEW scale \in Nat, NEW b \in Seq(Chars), NEW f, Reads(f, b, scale),
         NEW n \in 0 .. Len(b) - 1
  PROVE  \E a \in Locals(scale), c \in Chars, t \in Locals(scale) :
           a = f[n] /\ c = b[n + 1] /\ t = f[n + 1] /\ t = Take(a, c, scale)
<1>1. n + 1 \in 1 .. Len(b) /\ n + 1 \in 0 .. Len(b) /\ n \in 0 .. Len(b) /\ (n + 1) - 1 = n
  OBVIOUS
<1>2. f[n] \in Locals(scale) /\ f[n + 1] \in Locals(scale) /\ b[n + 1] \in Chars
  BY <1>1 DEF Reads
<1>3. f[n + 1] = Take(f[n], b[n + 1], scale)
  <2>1. f[n + 1] = Take(f[(n + 1) - 1], b[n + 1], scale)
    BY <1>1, Zenon DEF Reads
  <2> QED
    BY <1>1, <2>1
<1> QED
  BY <1>2, <1>3, Zenon

LEMMA ReadChecks ==
  ASSUME NEW scale \in Nat, NEW b \in Seq(Chars), NEW f, Reads(f, b, scale)
  PROVE  \A n \in 0 .. Len(b) :
           f[n].ok => /\ Legal(b, n) /\ (f[n].dot <=> HasDot(b, n))
                      /\ (f[n].any <=> HasDigit(b, n))
<1> DEFINE Good(n) == f[n].ok => /\ Legal(b, n) /\ (f[n].dot <=> HasDot(b, n))
                                 /\ (f[n].any <=> HasDigit(b, n))
           T == {n \in 0 .. Len(b) : Good(n)}
<1>1. PICK N \in Nat : N = Len(b)
  OBVIOUS
<1>2. 0 \in T
  BY <1>1 DEF Reads, Unread, Legal, HasDot, HasDigit
<1>3. ASSUME NEW n \in 0 .. N - 1, n \in T PROVE n + 1 \in T
  <2>1. PICK a \in Locals(scale), c \in Chars, t \in Locals(scale) :
          a = f[n] /\ c = b[n + 1] /\ t = f[n + 1] /\ t = Take(a, c, scale)
    BY <1>1, ReadStep
  <2> SUFFICES ASSUME t.ok
               PROVE  /\ Legal(b, n + 1) /\ (t.dot <=> HasDot(b, n + 1))
                      /\ (t.any <=> HasDigit(b, n + 1))
    <3>1. n + 1 \in 0 .. Len(b)
      BY <1>1
    <3> QED
      BY <2>1, <3>1, Zenon
  <2>0. Taken(a, c, t, scale)
    BY <2>1, TakeCases, Zenon
  <2>2. /\ a.ok \in BOOLEAN /\ a.any \in BOOLEAN /\ a.dot \in BOOLEAN /\ c \in Int /\ Dot = -1
        /\ a.frac \in Int /\ a.value \in Int
    BY DEF Locals, Chars, Dot
  <2>3. \A i \in 1 .. n + 1 : i = n + 1 \/ i \in 1 .. n
    OBVIOUS
  <2>4. n + 1 \in 1 .. n + 1 /\ \A i \in 1 .. n : i \in 1 .. n + 1 /\ i # n + 1
    OBVIOUS
  <2>5. a.ok => Legal(b, n) /\ (a.dot <=> HasDot(b, n)) /\ (a.any <=> HasDigit(b, n))
    BY <1>3, <2>1
  <2>6. CASE c = Dot
    <3>1. a.ok /\ ~a.dot /\ t.any = a.any /\ t.dot
      BY <2>0, <2>6, Zenon DEF Taken
    <3>2. ~(c >= 0)
      BY <2>2, <2>6
    <3>3. Legal(b, n) /\ ~HasDot(b, n) /\ (a.any <=> HasDigit(b, n))
      BY <2>5, <3>1, Zenon
    <3>4. Legal(b, n + 1)
      BY <2>1, <2>3, <2>6, <3>3, Zenon DEF Legal, HasDot
    <3>5. HasDot(b, n + 1)
      BY <2>1, <2>4, <2>6, Zenon DEF HasDot
    <3>6. HasDigit(b, n + 1) <=> HasDigit(b, n)
      BY <2>1, <2>3, <2>4, <3>2, Zenon DEF HasDigit
    <3> QED
      BY <3>1, <3>3, <3>4, <3>5, <3>6, Zenon
  <2>7. CASE c >= 0
    <3>1. a.ok /\ t.any /\ t.dot = a.dot
      BY <2>0, <2>7, Zenon DEF Taken
    <3>2. c # Dot
      BY <2>2, <2>7
    <3>3. Legal(b, n) /\ (a.dot <=> HasDot(b, n))
      BY <2>5, <3>1, Zenon
    <3>4. Legal(b, n + 1)
      BY <2>1, <2>3, <2>7, <3>2, <3>3, Zenon DEF Legal
    <3>5. HasDot(b, n + 1) <=> HasDot(b, n)
      BY <2>1, <2>3, <2>4, <3>2, Zenon DEF HasDot
    <3>6. HasDigit(b, n + 1)
      BY <2>1, <2>4, <2>7, Zenon DEF HasDigit
    <3> QED
      BY <3>1, <3>3, <3>4, <3>5, <3>6, Zenon
  <2>8. CASE c < 0 /\ c # Dot
    BY <2>0, <2>8, Zenon DEF Taken
  <2> QED
    BY <2>2, <2>6, <2>7, <2>8
<1> HIDE DEF T
<1>4. \A n \in 0 .. N : n \in T
  BY <1>2, <1>3, UpTo
<1> QED
  BY <1>1, <1>4 DEF T
-----------------------------------------------------------------------------
(* The point, and what the digits around it count.                         *)

IsPoint(b, D) ==
  /\ D \in 1 .. Len(b) + 1
  /\ \A i \in 1 .. Len(b) : (b[i] = Dot <=> i = D) /\ (i # D => b[i] \in 0 .. 9)

\* The loop goes on exactly over the texts the reference calls decimals.
LEMMA LegalIs ==
  ASSUME NEW b \in Seq(Chars)
  PROVE  /\ Legal(b, Len(b)) <=> /\ Cardinality(Dots(b)) <= 1
                                 /\ \A i \in DOMAIN b \ Dots(b) : b[i] >= 0
         /\ Legal(b, Len(b)) => (HasDigit(b, Len(b)) <=> DOMAIN b # Dots(b))
<1>1. PICK N \in Nat : N = Len(b) /\ DOMAIN b = 1 .. N
  OBVIOUS
<1>2. PICK E : E = Dots(b)
  BY Zenon
<1>3. E = {i \in 1 .. N : b[i] = Dot}
  BY <1>1, <1>2 DEF Dots
<1>4. IsFiniteSet(E) /\ Cardinality(E) \in Nat
  <2>1. IsFiniteSet(1 .. N)
    BY <1>1, FS_Interval
  <2>2. E \subseteq 1 .. N
    BY <1>3
  <2> QED
    BY <2>1, <2>2, FS_Subset, FS_CardinalityType, Zenon
<1>5. ASSUME Cardinality(E) <= 1, NEW i \in E, NEW j \in E PROVE i = j
  <2> SUFFICES ASSUME i # j PROVE FALSE
    OBVIOUS
  <2>1. IsFiniteSet({i}) /\ Cardinality({i}) = 1
    BY FS_Singleton, Zenon
  <2>2. Cardinality({i} \cup {j}) = 2
    <3>1. j \notin {i}
      OBVIOUS
    <3>2. Cardinality({i} \cup {j}) = Cardinality({i}) + 1
      BY <2>1, <3>1, FS_AddElement, Zenon
    <3> QED
      BY <2>1, <3>2
  <2>3. ({i} \cup {j}) \subseteq E
    OBVIOUS
  <2>4. Cardinality({i} \cup {j}) <= Cardinality(E)
    BY <1>4, <2>3, FS_Subset
  <2> QED
    <3>1. PICK c \in Nat : c = Cardinality(E)
      BY <1>4
    <3>2. 2 <= c /\ c <= 1
      BY <1>5, <2>2, <2>4, <3>1, Zenon
    <3> QED
      BY <3>2
<1>6. ASSUME \A i, j \in E : i = j PROVE Cardinality(E) <= 1
  <2>1. CASE E = {}
    BY <2>1, FS_EmptySet
  <2>2. CASE E # {}
    <3>1. PICK i : E = {i}
      <4>1. PICK i \in E : TRUE
        BY <2>2
      <4>2. E = {i}
        BY <1>6
      <4> QED
        BY <4>2, Zenon
    <3>2. Cardinality({i}) = 1
      BY FS_Singleton, Zenon
    <3> QED
      BY <3>1, <3>2
  <2> QED
    BY <2>1, <2>2
<1>7. Legal(b, N) <=> /\ \A i, j \in E : i = j
                      /\ \A i \in (1 .. N) \ E : b[i] >= 0
  BY <1>3, Zenon DEF Legal
<1>8. (\A i, j \in E : i = j) <=> Cardinality(E) <= 1
  BY <1>5, <1>6, Zenon
<1>9. ASSUME Legal(b, N) PROVE HasDigit(b, N) <=> 1 .. N # E
  <2>1. \A i \in 1 .. N : i \in E <=> ~(b[i] >= 0)
    <3>1. \A i \in 1 .. N : b[i] = Dot => ~(b[i] >= 0)
      BY DEF Dot
    <3> QED
      BY <1>3, <1>9, <3>1, Zenon DEF Legal
  <2>2. E \subseteq 1 .. N
    BY <1>3
  <2> QED
    BY <2>1, <2>2, Zenon DEF HasDigit
<1> QED
  BY <1>1, <1>2, <1>7, <1>8, <1>9, Zenon

LEMMA PointIs ==
  ASSUME NEW b \in Seq(Chars), Legal(b, Len(b))
  PROVE  IsPoint(b, Point(b))
<1>1. PICK N \in Nat : N = Len(b) /\ DOMAIN b = 1 .. N
  OBVIOUS
<1>2. \A i \in 1 .. N : b[i] \in -3 .. 9
  BY <1>1 DEF Chars
<1>3. PICK D : D = Point(b)
  BY Zenon
<1>4. Dots(b) = {i \in 1 .. N : b[i] = Dot}
  BY <1>1 DEF Dots
<1>5. CASE Dots(b) = {}
  <2>1. D = N + 1
    BY <1>1, <1>3, <1>5 DEF Point
  <2>2. \A i \in 1 .. N : b[i] # Dot /\ i # D
    BY <1>4, <1>5, <2>1
  <2>3. \A i \in 1 .. N : b[i] >= 0
    BY <1>1, <2>2 DEF Legal
  <2> QED
    BY <1>1, <1>2, <1>3, <2>1, <2>2, <2>3 DEF IsPoint
<1>6. CASE Dots(b) # {}
  <2>1. D \in Dots(b)
    BY <1>3, <1>6, Zenon DEF Point
  <2>2. D \in 1 .. N /\ b[D] = Dot
    BY <1>4, <2>1
  <2>3. \A i \in 1 .. N : b[i] = Dot <=> i = D
    BY <1>1, <2>2, Zenon DEF Legal
  <2>4. \A i \in 1 .. N : i # D => b[i] >= 0
    BY <1>1, <2>3, Zenon DEF Legal
  <2> QED
    BY <1>1, <1>2, <1>3, <2>2, <2>3, <2>4 DEF IsPoint
<1> QED
  BY <1>5, <1>6

\* What a character counts.
LEMMA Shares ==
  ASSUME NEW b \in Seq(Chars), NEW D, D = Point(b), IsPoint(b, D), Len(b) - D <= Places,
         NEW i \in 1 .. Len(b)
  PROVE  /\ Share(b, i) \in Nat
         /\ i = D => Share(b, i) = 0
         /\ i < D => /\ Places + D - 1 - i \in Nat
                     /\ Share(b, i) = b[i] * Pow10[Places + D - 1 - i]
         /\ i > D => /\ Places - (i - D) \in Nat
                     /\ Share(b, i) = b[i] * Pow10[Places - (i - D)]
<1>1. PICK N \in Nat : N = Len(b) /\ N - D <= Places
  OBVIOUS
<1>2. D \in 1 .. N + 1 /\ i \in 1 .. N
  BY <1>1 DEF IsPoint
<1>3. PICK P \in Nat : P = Places
  BY ScaleAssumption DEF Places
<1>4. CASE i = D
  <2>1. b[i] = -1
    BY <1>4 DEF IsPoint, Dot
  <2>2. Share(b, i) = 0
    BY <2>1 DEF Share
  <2> QED
    BY <1>2, <1>4, <2>2
<1>5. CASE i < D
  <2>1. b[i] \in 0 .. 9
    BY <1>2, <1>5 DEF IsPoint
  <2>2. P + D - 1 - i \in Nat /\ P + D - i - 1 = P + D - 1 - i
    BY <1>1, <1>2, <1>3, <1>5
  <2>3. Weight(b, i) = Pow10[P + D - 1 - i]
    BY <1>3, <1>5, <2>2 DEF Weight
  <2>4. Share(b, i) = b[i] * Weight(b, i)
    BY <2>1 DEF Share
  <2>5. PICK w \in Nat : w = Pow10[P + D - 1 - i]
    BY <2>2, Powers, Zenon
  <2>6. b[i] * w \in Nat
    BY <2>1
  <2>7. ~(i = D) /\ ~(i > D)
    BY <1>2, <1>5
  <2> QED
    BY <1>3, <2>2, <2>3, <2>4, <2>5, <2>6, <2>7, Zenon
<1>6. CASE i > D
  <2>1. b[i] \in 0 .. 9
    BY <1>2, <1>6 DEF IsPoint
  <2>2. P - (i - D) \in Nat /\ P + D - i - 0 = P - (i - D)
    BY <1>1, <1>2, <1>3, <1>6
  <2>3. Weight(b, i) = Pow10[P - (i - D)]
    BY <1>2, <1>3, <1>6, <2>2 DEF Weight
  <2>4. Share(b, i) = b[i] * Weight(b, i)
    BY <2>1 DEF Share
  <2>5. PICK w \in Nat : w = Pow10[P - (i - D)]
    BY <2>2, Powers, Zenon
  <2>6. b[i] * w \in Nat
    BY <2>1
  <2>7. ~(i = D) /\ ~(i < D)
    BY <1>2, <1>6
  <2> QED
    BY <1>3, <2>2, <2>3, <2>4, <2>5, <2>6, <2>7, Zenon
<1> QED
  BY <1>2, <1>4, <1>5, <1>6
-----------------------------------------------------------------------------
(* The sum of the reference, beside the value of the loop.                 *)

\* A number DecimalToScaled may reject: finer than the unit, or too large.
Unreadable(size, unit) ==
  \/ \E v \in Nat : v * unit < size /\ size < (v + 1) * unit
  \/ (MaxInt - 8) * unit <= size

\* A value with no room for another digit is too large, whatever follows.
LEMMA NoRoom ==
  ASSUME NEW v \in 0 .. MaxInt, 10 * v > MaxInt - 9, NEW e \in Nat \ {0},
         NEW k \in 0 .. e - 1, NEW size \in Nat, v * Pow10[e] <= size
  PROVE  Unreadable(size, Pow10[k])
<1>1. e - 1 \in Nat /\ (e - 1) + 1 = e /\ e - 1 \in Nat
      /\ k \in Nat /\ k <= e - 1
  BY ScaleAssumption
<1>2. PICK q \in Nat : q = Pow10[e - 1] /\ Pow10[e] = 10 * q
  BY <1>1, Powers
<1>3. PICK u \in Nat : u = Pow10[k]
  BY <1>1, Powers
<1>4. u <= q
  BY <1>1, <1>2, <1>3, PowersGrow
<1>5. v * (10 * q) = (10 * v) * q /\ v \in Nat /\ 10 * v \in Nat
  BY MaxIntAssumption, Scaling
<1>6. MaxInt - 8 \in Nat /\ MaxInt - 8 <= 10 * v
  BY MaxIntAssumption
<1>7. (MaxInt - 8) * u <= (10 * v) * q
  <2>1. PICK w \in Nat : w = MaxInt - 8
    BY <1>6
  <2>2. PICK x \in Nat : x = 10 * v
    BY <1>5
  <2>3. w * u <= x * q
    BY <1>4, <1>6, <2>1, <2>2, Products
  <2> QED
    BY <2>1, <2>2, <2>3
<1>8. (MaxInt - 8) * u <= size
  <2>1. PICK x \in Nat : x = (10 * v) * q
    <3>1. \A y \in Nat : y * q \in Nat
      OBVIOUS
    <3> QED
      BY <1>5, <3>1
  <2>2. PICK w \in Nat : w = (MaxInt - 8) * u
    <3>1. \A y \in Nat : y * u \in Nat
      OBVIOUS
    <3> QED
      BY <1>6, <3>1
  <2>3. x <= size /\ w <= x
    BY <1>2, <1>5, <1>7, <2>1, <2>2
  <2> QED
    BY <2>2, <2>3
<1> QED
  BY <1>3, <1>8 DEF Unreadable

\* The sum only grows.
LEMMA SumGrows ==
  ASSUME NEW b \in Seq(Chars), NEW s, Adds(s, b), \A i \in 1 .. Len(b) : Share(b, i) \in Nat,
         NEW j \in 0 .. Len(b)
  PROVE  \A n \in 0 .. Len(b) : n >= j => s[j] <= s[n]
<1>1. PICK N \in Nat : N = Len(b)
  OBVIOUS
<1> DEFINE T == {n \in 0 .. N : n >= j => s[j] <= s[n]}
<1>2. \A n \in 0 .. N : s[n] \in Nat
  BY <1>1, SMTT(40) DEF Adds
<1>3. 0 \in T
  BY <1>1, <1>2
<1>4. ASSUME NEW n \in 0 .. N - 1, n \in T PROVE n + 1 \in T
  <2>1. n + 1 \in 1 .. N /\ n + 1 \in 0 .. N /\ (n + 1) - 1 = n /\ n \in 0 .. N /\ j \in 0 .. N
    BY <1>1
  <2>2. s[n + 1] = s[n] + Share(b, n + 1) /\ Share(b, n + 1) \in Nat
    BY <1>1, <2>1 DEF Adds
  <2>3. s[n] \in Nat /\ s[j] \in Nat /\ s[n + 1] \in Nat
    BY <1>2, <2>1
  <2>4. CASE n >= j
    BY <1>4, <2>1, <2>2, <2>3, <2>4
  <2>5. CASE n + 1 = j
    BY <2>1, <2>3, <2>5
  <2> QED
    BY <2>1, <2>4, <2>5
<1>5. \A n \in 0 .. N : n \in T
  <2> HIDE DEF T
  <2> QED
    BY <1>3, <1>4, UpTo, Zenon
<1> QED
  BY <1>1, <1>5

\* The digits behind a position are worth less than one in it.
LEMMA TailIsSmall ==
  ASSUME NEW b \in Seq(Chars), NEW D, D = Point(b), IsPoint(b, D), Len(b) - D <= Places,
         NEW s, Adds(s, b), NEW j \in D .. Len(b)
  PROVE  \A n \in 0 .. Len(b) : n >= j =>
           s[n] + Pow10[Places - (n - D)] <= s[j] + Pow10[Places - (j - D)]
<1>1. PICK N \in Nat : N = Len(b) /\ N - D <= Places
  OBVIOUS
<1>2. PICK P \in Nat : P = Places
  BY ScaleAssumption DEF Places
<1>3. D \in 1 .. N + 1 /\ j \in 0 .. N
  BY <1>1 DEF IsPoint
<1> DEFINE T == {n \in 0 .. N : n >= j => s[n] + Pow10[P - (n - D)] <= s[j] + Pow10[P - (j - D)]}
<1>4. \A n \in 0 .. N : s[n] \in Nat
  BY <1>1 DEF Adds
<1>5. \A n \in 0 .. N : n >= j => P - (n - D) \in Nat
  BY <1>1, <1>2, <1>3
<1>6. \A n \in 0 .. N : n >= j => Pow10[P - (n - D)] \in Nat
  BY <1>5, Powers, Zenon
<1>7. j \in T
  <2>1. s[j] + Pow10[P - (j - D)] \in Nat
    BY <1>3, <1>4, <1>6, SMTT(40)
  <2> QED
    BY <1>3, <2>1
<1>8. 0 \in T
  <2>1. CASE j = 0
    BY <1>7, <2>1
  <2>2. CASE j # 0
    BY <1>3, <2>2
  <2> QED
    BY <2>1, <2>2
<1>9. ASSUME NEW n \in 0 .. N - 1, n \in T PROVE n + 1 \in T
  <2>1. n + 1 \in 1 .. N /\ n + 1 \in 0 .. N /\ (n + 1) - 1 = n /\ n \in 0 .. N
    OBVIOUS
  <2>2. CASE n + 1 <= j
    <3>1. n + 1 = j \/ ~(n + 1 >= j)
      BY <1>3, <2>2
    <3> QED
      BY <1>7, <2>1, <3>1
  <2>3. CASE n + 1 > j
    <3>1. n >= j /\ n + 1 > D /\ P - (n - D) \in Nat \ {0}
          /\ P - ((n + 1) - D) \in Nat
          /\ (P - ((n + 1) - D)) + 1 = P - (n - D)
      BY <1>1, <1>2, <1>3, <2>3, SMTT(40)
    <3>2. PICK q \in Nat : q = Pow10[P - ((n + 1) - D)] /\ Pow10[P - (n - D)] = 10 * q
      <4>1. P - ((n + 1) - D) \in Nat
        BY <1>2, <3>1
      <4> QED
        BY <3>1, <4>1, Powers, Zenon
    <3>3. s[n + 1] = s[n] + b[n + 1] * q
      <4>1. s[n + 1] = s[n] + Share(b, n + 1)
        BY <1>1, <2>1 DEF Adds
      <4>2. Share(b, n + 1) = b[n + 1] * Pow10[P - ((n + 1) - D)]
        BY <1>1, <1>2, <2>1, <3>1, Shares
      <4> QED
        BY <3>2, <4>1, <4>2
    <3>4. PICK c \in 0 .. 9 : c = b[n + 1]
      BY <1>1, <1>3, <2>1, <3>1, SMTT(40) DEF IsPoint
    <3>5. c * q <= 9 * q /\ c * q \in Nat
      OBVIOUS
    <3>6. PICK x \in Nat : x = s[n]
      BY <1>4, <2>1
    <3>7. PICK y \in Nat : y = s[j] + Pow10[P - (j - D)]
      BY <1>3, <1>4, <1>6, SMTT(40)
    <3>8. x + 10 * q <= y
      BY <1>9, <3>1, <3>2, <3>6, <3>7
    <3>9. (x + c * q) + q <= y
      BY <3>5, <3>8
    <3> QED
      BY <2>1, <3>2, <3>3, <3>4, <3>6, <3>7, <3>9
  <2> QED
    BY <1>3, <2>1, <2>2, <2>3
<1>10. \A n \in 0 .. N : n \in T
  <2> HIDE DEF T
  <2> QED
    BY <1>8, <1>9, UpTo
<1> QED
  BY <1>1, <1>2, <1>10

\* What the loop has read of a number after n characters: all of it so far, a
\* digit behind the point more only while the scale has a place for it.
Fits(a, x, n, D, scale) ==
  IF n < D
    THEN a.frac = 0 /\ x = a.value * Pow10[Places + D - 1 - n]
    ELSE /\ a.frac <= n - D /\ (a.frac < scale => a.frac = n - D)
         /\ x = a.value * Pow10[Places - a.frac]

\* A digit before the point, or the point itself.
LEMMA WholePart ==
  ASSUME NEW b \in Seq(Chars), NEW D, D = Point(b), IsPoint(b, D), Len(b) - D <= Places,
         NEW s, Adds(s, b), NEW n \in 0 .. Len(b) - 1, n < D, NEW scale \in 0 .. Places,
         NEW a \in Locals(scale), NEW t \in Locals(scale),
         Taken(a, b[n + 1], t, scale), a.ok, ~a.dot, Fits(a, s[n], n, D, scale)
  PROVE  IF t.ok THEN Fits(t, s[n + 1], n + 1, D, scale)
         ELSE Unreadable(s[Len(b)], Pow10[Places - scale])
<1>1. PICK N \in Nat : N = Len(b) /\ N - D <= Places
  OBVIOUS
<1>2. PICK P \in Nat : P = Places
  BY ScaleAssumption DEF Places
<1>3. D \in 1 .. N + 1 /\ n \in 0 .. N - 1 /\ n + 1 \in 1 .. N /\ n + 1 \in 0 .. N
      /\ (n + 1) - 1 = n /\ n \in 0 .. N
  BY <1>1 DEF IsPoint
<1>4. PICK c : c = b[n + 1]
  BY Zenon
<1>5. Taken(a, c, t, scale)
  BY <1>4, Zenon
<1>6. PICK v \in 0 .. MaxInt : v = a.value
  BY DEF Locals
<1>7. a.frac = 0 /\ s[n] = v * Pow10[P + D - 1 - n]
  BY <1>2, <1>6, Zenon DEF Fits
<1>8. s[n + 1] = s[n] + Share(b, n + 1)
  BY <1>1, <1>3 DEF Adds
<1>9. CASE n + 1 = D
  <2>1. c = Dot /\ Share(b, n + 1) = 0
    BY <1>1, <1>3, <1>4, <1>9, Shares, SMTT(40) DEF IsPoint
  <2>2. t.ok /\ t.frac = a.frac /\ t.value = a.value
    BY <1>5, <2>1, Zenon DEF Taken
  <2>3. P + D - 1 - n = P - 0 /\ ~(n + 1 < D) /\ (n + 1) - D = 0
    BY <1>2, <1>3, <1>9
  <2>4. s[n] \in Nat
    BY <1>1, <1>3, Zenon DEF Adds
  <2>5. s[n + 1] = v * Pow10[P - 0]
    BY <1>7, <1>8, <2>1, <2>3, <2>4
  <2>6. Fits(t, s[n + 1], n + 1, D, scale)
    BY <1>2, <1>6, <1>7, <2>2, <2>3, <2>5 DEF Fits
  <2> QED
    BY <2>2, <2>6, Zenon
<1>10. CASE n + 1 # D
  <2>1. n + 1 < D
    BY <1>3, <1>10
  <2>2. c \in 0 .. 9 /\ c >= 0
    BY <1>1, <1>3, <1>4, <1>10, SMTT(40) DEF IsPoint
  <2>3. /\ P + D - 1 - (n + 1) \in Nat
        /\ (P + D - 1 - (n + 1)) + 1 = P + D - 1 - n
        /\ P + D - 1 - n \in Nat \ {0}
        /\ P + D - 1 - (n + 1) \in Nat
        /\ P - scale \in 0 .. (P + D - 1 - n) - 1
    <3>1. scale \in 0 .. P
      BY <1>2
    <3>2. P + D - 1 - n \in Nat \ {0} /\ P - scale \in 0 .. (P + D - 1 - n) - 1
      BY <1>1, <1>2, <1>3, <2>1, <3>1, SMTT(40)
    <3>3. PICK e \in Nat : e = P + D - 1 - n
      BY <3>2
    <3>4. P + D - 1 - (n + 1) = e - 1
      BY <1>2, <1>3, <3>3, SMTT(40)
    <3> QED
      BY <1>2, <3>2, <3>3, <3>4
  <2>4. PICK q \in Nat : q = Pow10[P + D - 1 - (n + 1)] /\ Pow10[P + D - 1 - n] = 10 * q
    BY <2>3, Powers, Zenon
  <2>5. CASE v > (MaxInt - 9) \div 10
    <3>1. ~t.ok
      BY <1>5, <1>6, <2>2, <2>5, Zenon DEF Taken
    <3>2. 10 * v > MaxInt - 9
      BY <2>5, NoOverflow
    <3>3. PICK size \in Nat : size = s[N] /\ s[n] <= size
      <4>1. \A i \in 1 .. Len(b) : Share(b, i) \in Nat
        BY Shares
      <4>2. s[n] <= s[N]
        BY <1>1, <1>3, <4>1, SumGrows, SMTT(40)
      <4>3. s[N] \in Nat
        BY <1>1 DEF Adds
      <4> QED
        BY <4>2, <4>3
    <3>4. PICK e \in Nat \ {0} : e = P + D - 1 - n
      BY <2>3
    <3>5. v * Pow10[e] <= size
      BY <1>7, <3>3, <3>4
    <3>6. PICK k \in 0 .. e - 1 : k = P - scale
      BY <2>3, <3>4
    <3>7. Unreadable(size, Pow10[k])
      BY <3>2, <3>5, NoRoom
    <3> QED
      BY <1>1, <1>2, <3>1, <3>3, <3>6, <3>7
  <2>6. CASE ~(v > (MaxInt - 9) \div 10)
    <3>1. t.ok /\ t.frac = a.frac /\ t.value = 10 * v + c
      BY <1>5, <1>6, <2>2, <2>6, Zenon DEF Taken
    <3>2. Share(b, n + 1) = c * q
      BY <1>1, <1>2, <1>3, <1>4, <2>1, <2>4, Shares, Zenon
    <3>3. s[n + 1] = (10 * v + c) * q
      <4>1. v \in Nat /\ c \in Nat
        BY <2>2
      <4>2. v * (10 * q) + c * q = (10 * v + c) * q
        BY <4>1, Scaling
      <4> QED
        BY <1>7, <1>8, <2>4, <3>2, <4>2
    <3>4. Fits(t, s[n + 1], n + 1, D, scale)
      BY <1>2, <1>7, <2>1, <2>4, <3>1, <3>3 DEF Fits
    <3> QED
      BY <3>1, <3>4, Zenon
  <2> QED
    BY <2>5, <2>6
<1> QED
  BY <1>9, <1>10

\* A digit behind the point.
LEMMA FractionPart ==
  ASSUME NEW b \in Seq(Chars), NEW D, D = Point(b), IsPoint(b, D), Len(b) - D <= Places,
         NEW s, Adds(s, b), NEW n \in 0 .. Len(b) - 1, ~(n < D), NEW scale \in 0 .. Places,
         NEW a \in Locals(scale), NEW t \in Locals(scale),
         Taken(a, b[n + 1], t, scale), a.ok, a.dot, Fits(a, s[n], n, D, scale)
  PROVE  IF t.ok THEN Fits(t, s[n + 1], n + 1, D, scale)
         ELSE Unreadable(s[Len(b)], Pow10[Places - scale])
<1>1. PICK N \in Nat : N = Len(b) /\ N - D <= Places
  OBVIOUS
<1>2. PICK P \in Nat : P = Places /\ scale \in 0 .. P
  BY ScaleAssumption DEF Places
<1>3. D \in 1 .. N + 1 /\ n \in 0 .. N - 1 /\ n + 1 \in 1 .. N /\ n + 1 \in 0 .. N
      /\ (n + 1) - 1 = n /\ n \in 0 .. N /\ n >= D /\ n + 1 > D /\ n + 1 # D
      /\ ~(n + 1 < D)
  BY <1>1 DEF IsPoint
<1>4. PICK c \in 0 .. 9 : c = b[n + 1]
  BY <1>1, <1>3 DEF IsPoint
<1>5. Taken(a, c, t, scale) /\ c >= 0
  BY <1>4
<1>6. PICK v \in 0 .. MaxInt : v = a.value
  BY DEF Locals
<1>7. PICK k \in 0 .. scale : k = a.frac
  BY DEF Locals
<1>8. k <= n - D /\ (k < scale => k = n - D) /\ s[n] = v * Pow10[P - k]
  BY <1>2, <1>6, <1>7, Zenon DEF Fits
<1>9. /\ P - ((n + 1) - D) \in Nat
      /\ s[n + 1] = s[n] + c * Pow10[P - ((n + 1) - D)]
  <2>1. s[n + 1] = s[n] + Share(b, n + 1)
    BY <1>1, <1>3 DEF Adds
  <2>2. /\ P - ((n + 1) - D) \in Nat
        /\ Share(b, n + 1) = c * Pow10[P - ((n + 1) - D)]
    BY <1>1, <1>2, <1>3, <1>4, Shares, Zenon
  <2> QED
    BY <2>1, <2>2
<1>10. PICK size \in Nat : size = s[N] /\ s[n] <= size /\ s[n + 1] <= size
  <2>1. \A i \in 1 .. Len(b) : Share(b, i) \in Nat
    BY Shares
  <2>0. /\ n \in 0 .. Len(b) /\ n + 1 \in 0 .. Len(b) /\ Len(b) \in 0 .. Len(b)
        /\ Len(b) >= n /\ Len(b) >= n + 1
    BY <1>1, <1>3
  <2>2. s[n] <= s[N]
    BY <1>1, <2>0, <2>1, SumGrows, Zenon
  <2>3. s[n + 1] <= s[N]
    BY <1>1, <2>0, <2>1, SumGrows, Zenon
  <2>4. s[N] \in Nat
    BY <1>1 DEF Adds
  <2> QED
    BY <2>2, <2>3, <2>4
<1>11. PICK u \in Nat : u = Pow10[P - scale]
  <2>1. P - scale \in Nat
    BY <1>2
  <2> QED
    BY <2>1, Powers, Zenon
<1>12. s[n] \in Nat /\ v \in Nat
  BY <1>1, <1>3 DEF Adds
<1>13. CASE k >= scale /\ c = 0
  <2>1. t.ok /\ t.frac = k /\ t.value = v
    BY <1>5, <1>6, <1>7, <1>13, Zenon DEF Taken
  <2>2. s[n + 1] = s[n]
    <3>1. PICK q \in Nat : q = Pow10[P - ((n + 1) - D)]
      BY <1>9, Powers, Zenon
    <3>2. c * q = 0
      BY <1>13
    <3> QED
      BY <1>9, <1>12, <3>1, <3>2
  <2>3. k <= (n + 1) - D /\ ~(k < scale)
    BY <1>3, <1>7, <1>8, <1>13, SMTT(40)
  <2>4. Fits(t, s[n + 1], n + 1, D, scale)
    BY <1>2, <1>3, <1>8, <2>1, <2>2, <2>3, Zenon DEF Fits
  <2> QED
    BY <2>1, <2>4, Zenon
<1>14. CASE k >= scale /\ c # 0
  <2>1. ~t.ok
    BY <1>5, <1>7, <1>14, Zenon DEF Taken
  <2>2. k = scale /\ s[n] = v * u
    BY <1>7, <1>8, <1>11, <1>14, SMTT(40)
  <2>3. v * u < size
    <3>1. PICK q \in Nat \ {0} : q = Pow10[P - ((n + 1) - D)]
      BY <1>9, Powers, Zenon
    <3>2. c * q > 0 /\ c * q \in Nat
      BY <1>14
    <3>3. PICK x \in Nat : x = s[n]
      BY <1>12
    <3>4. x < size
      <4>1. PICK y \in Nat : y = c * q /\ y > 0
        BY <3>2
      <4>2. x + y <= size
        BY <1>9, <1>10, <3>1, <3>3, <4>1
      <4> QED
        BY <4>1, <4>2
    <3> QED
      BY <2>2, <3>3, <3>4
  <2>4. size < (v + 1) * u
    <3>1. size + Pow10[P - (N - D)] <= s[n] + Pow10[P - (n - D)]
      <4>1. n \in D .. Len(b) /\ N \in 0 .. Len(b) /\ N >= n
        BY <1>1, <1>3
      <4> QED
        BY <1>2, <1>10, <4>1, TailIsSmall
    <3>2. /\ P - (N - D) \in Nat /\ P - (n - D) \in Nat
          /\ P - scale \in Nat /\ P - (n - D) <= P - scale
      <4>1. N - D \in 0 .. P /\ n - D \in 0 .. P /\ scale <= n - D
        BY <1>1, <1>2, <1>3, <1>8, <2>2, SMTT(40)
      <4>3. PICK m \in 0 .. P : m = n - D
        BY <4>1
      <4> QED
        BY <1>2, <4>1, <4>3
    <3>3. PICK w \in Nat \ {0} : w = Pow10[P - (N - D)]
      BY <3>2, Powers, Zenon
    <3>4. PICK q \in Nat : q = Pow10[P - (n - D)]
      BY <3>2, Powers, Zenon
    <3>5. q <= u
      BY <1>11, <3>2, <3>4, PowersGrow
    <3>6. PICK x \in Nat : x = v * u
      BY <1>12, <2>2
    <3>7. size < x + u
      <4>1. size + w <= x + q
        BY <2>2, <3>1, <3>3, <3>4, <3>6
      <4> QED
        BY <3>5, <4>1
    <3>8. (v + 1) * u = v * u + u
      BY <1>12
    <3> QED
      BY <3>6, <3>7, <3>8
  <2>5. Unreadable(size, u)
    BY <1>12, <2>3, <2>4, Zenon DEF Unreadable
  <2> QED
    BY <1>1, <1>2, <1>10, <1>11, <2>1, <2>5, Zenon
<1>15. CASE k < scale
  <2>1. k = n - D /\ ~(k >= scale)
    BY <1>8, <1>15
  <2>2. /\ P - k \in Nat \ {0} /\ (P - k) - 1 = P - (k + 1)
        /\ P - scale \in 0 .. (P - k) - 1 /\ (n + 1) - D = k + 1
    <3>1. k \in 0 .. P - 1 /\ scale \in k + 1 .. P
      BY <1>2, <1>15
    <3>2. (n + 1) - D = k + 1
      BY <1>3, <2>1
    <3> QED
      BY <1>2, <3>1, <3>2
  <2>3. PICK q \in Nat : q = Pow10[P - (k + 1)] /\ Pow10[P - k] = 10 * q
    <3>1. \E q \in Nat \ {0} : q = Pow10[(P - k) - 1] /\ Pow10[P - k] = 10 * q
      BY <2>2, PowerStep, Zenon
    <3> QED
      BY <2>2, <3>1
  <2>4. CASE v > (MaxInt - 9) \div 10
    <3>1. ~t.ok
      BY <1>5, <1>6, <1>7, <2>1, <2>4, Zenon DEF Taken
    <3>2. 10 * v > MaxInt - 9
      BY <2>4, NoOverflow
    <3>3. PICK e \in Nat \ {0} : e = P - k
      BY <2>2
    <3>4. v * Pow10[e] <= size
      BY <1>8, <1>10, <3>3
    <3>5. PICK l \in 0 .. e - 1 : l = P - scale
      BY <2>2, <3>3
    <3>6. Unreadable(size, Pow10[l])
      BY <3>2, <3>4, NoRoom
    <3> QED
      BY <1>1, <1>2, <1>10, <3>1, <3>5, <3>6
  <2>5. CASE ~(v > (MaxInt - 9) \div 10)
    <3>1. t.ok /\ t.frac = k + 1 /\ t.value = 10 * v + c
      BY <1>5, <1>6, <1>7, <2>1, <2>5, Zenon DEF Taken
    <3>2. s[n + 1] = (10 * v + c) * q
      <4>1. c \in Nat
        OBVIOUS
      <4>2. v * (10 * q) + c * q = (10 * v + c) * q
        BY <1>12, <4>1, Scaling
      <4> QED
        BY <1>8, <1>9, <2>2, <2>3, <4>2
    <3>3. k + 1 <= (n + 1) - D /\ k + 1 = (n + 1) - D
      BY <1>3, <2>2
    <3>4. Fits(t, s[n + 1], n + 1, D, scale)
      BY <1>2, <1>3, <2>3, <3>1, <3>2, <3>3, Zenon DEF Fits
    <3> QED
      BY <3>1, <3>4, Zenon
  <2> QED
    BY <2>4, <2>5
<1> QED
  BY <1>2, <1>7, <1>13, <1>14, <1>15

\* The loop over the characters reads the number, or may reject it.
LEMMA ReadIsExact ==
  ASSUME NEW b \in Seq(Chars), NEW D, D = Point(b), IsPoint(b, D), Len(b) - D <= Places,
         NEW s, Adds(s, b), NEW scale \in 0 .. Places, NEW f, Reads(f, b, scale)
  PROVE  \A n \in 0 .. Len(b) :
           IF f[n].ok THEN Fits(f[n], s[n], n, D, scale)
           ELSE Unreadable(s[Len(b)], Pow10[Places - scale])
<1> DEFINE Good(n) == IF f[n].ok THEN Fits(f[n], s[n], n, D, scale)
                      ELSE Unreadable(s[Len(b)], Pow10[Places - scale])
           T == {n \in 0 .. Len(b) : Good(n)}
<1>1. PICK N \in Nat : N = Len(b)
  OBVIOUS
<1>2. D \in 1 .. N + 1 /\ scale \in Nat /\ Places \in Nat
  BY <1>1, ScaleAssumption DEF IsPoint, Places
<1>3. 0 \in T
  <2>1. f[0].ok /\ f[0].frac = 0 /\ f[0].value = 0 /\ s[0] = 0
    BY DEF Reads, Unread, Adds
  <2>2. Places + D - 1 - 0 \in Nat
    BY <1>1, <1>2, ScaleAssumption DEF Places
  <2>3. PICK q \in Nat : q = Pow10[Places + D - 1 - 0]
    BY <2>2, Powers, Zenon
  <2>4. 0 * q = 0 /\ 0 < D
    BY <1>2
  <2>5. Fits(f[0], s[0], 0, D, scale)
    BY <2>1, <2>3, <2>4 DEF Fits
  <2> QED
    BY <1>1, <2>1, <2>5
<1>4. ASSUME NEW n \in 0 .. N - 1, n \in T PROVE n + 1 \in T
  <2>1. PICK a \in Locals(scale), c \in Chars, t \in Locals(scale) :
          a = f[n] /\ c = b[n + 1] /\ t = f[n + 1] /\ t = Take(a, c, scale)
    <3>1. n \in 0 .. Len(b) - 1
      BY <1>1
    <3>2. \E a \in Locals(scale), c \in Chars, t \in Locals(scale) :
            a = f[n] /\ c = b[n + 1] /\ t = f[n + 1] /\ t = Take(a, c, scale)
      <4> HIDE DEF T
      <4> QED
        BY <1>2, <3>1, ReadStep
    <3> QED
      BY <3>2, Zenon
  <2>2. Taken(a, c, t, scale)
    BY <1>2, <2>1, TakeCases, Zenon
  <2>3. n + 1 \in 0 .. Len(b) /\ n \in 0 .. Len(b) - 1 /\ n \in 0 .. Len(b) /\ n + 1 \in 1 .. Len(b)
    BY <1>1
  <2>4. /\ a.ok \in BOOLEAN /\ a.dot \in BOOLEAN /\ c \in Int /\ Dot = -1
    BY DEF Locals, Chars, Dot
  <2>5. IF a.ok THEN Fits(a, s[n], n, D, scale) ELSE Unreadable(s[Len(b)], Pow10[Places - scale])
    BY <1>4, <2>1, Zenon
  <2> SUFFICES IF t.ok THEN Fits(t, s[n + 1], n + 1, D, scale)
               ELSE Unreadable(s[Len(b)], Pow10[Places - scale])
    BY <2>1, <2>3, Zenon
  <2>6. CASE ~a.ok
    <3>1. ~t.ok
      <4>1. c = Dot \/ (c < 0 /\ c # Dot) \/ c >= 0
        BY <2>4
      <4> QED
        BY <2>2, <2>6, <4>1, Zenon DEF Taken
    <3> QED
      BY <2>5, <2>6, <3>1, Zenon
  <2>7. CASE a.ok
    <3>1. a.dot <=> HasDot(b, n)
      BY <1>2, <2>1, <2>3, <2>7, ReadChecks
    <3>2. HasDot(b, n) <=> ~(n < D)
      <4>1. \A i \in 1 .. n : i \in 1 .. Len(b)
        BY <2>3
      <4>2. HasDot(b, n) <=> \E i \in 1 .. n : i = D
        BY <4>1, Zenon DEF HasDot, IsPoint
      <4>3. (\E i \in 1 .. n : i = D) <=> D \in 1 .. n
        BY Zenon
      <4>4. D \in 1 .. n <=> ~(n < D)
        BY <1>2
      <4> QED
        BY <4>2, <4>3, <4>4, Zenon
    <3>3. Fits(a, s[n], n, D, scale) /\ Taken(a, b[n + 1], t, scale)
      BY <2>1, <2>2, <2>5, <2>7, Zenon
    <3>4. CASE n < D
      <4>1. ~a.dot
        BY <3>1, <3>2, <3>4, Zenon
      <4> QED
        BY <2>3, <2>7, <3>3, <3>4, <4>1, WholePart, Zenon
    <3>5. CASE ~(n < D)
      <4>1. a.dot
        BY <3>1, <3>2, <3>5, Zenon
      <4> QED
        BY <2>3, <2>7, <3>3, <3>5, <4>1, FractionPart, Zenon
    <3> QED
      BY <3>4, <3>5, Zenon
  <2> QED
    BY <2>6, <2>7, Zenon
<1>5. \A n \in 0 .. N : n \in T
  <2> HIDE DEF T
  <2> QED
    BY <1>3, <1>4, UpTo
<1> QED
  BY <1>1, <1>5, Zenon

\* Supplying the decimals changes no number, or shows it to be too large.
PaddedExactly(a, t, size, scale) ==
  /\ t \in Locals(scale) /\ t.any = a.any
  /\ IF t.ok THEN size = t.value * Pow10[Places - scale]
     ELSE Unreadable(size, Pow10[Places - scale])

\* The loop up to the scale supplies the missing decimals, or may reject the number.
LEMMA PadIsExact ==
  ASSUME NEW scale \in 0 .. Places, NEW a \in Locals(scale), a.ok, NEW size \in Nat,
         size = a.value * Pow10[Places - a.frac],
         NEW t, t = Padded(a, scale - a.frac)
  PROVE  PaddedExactly(a, t, size, scale)
<1> SUFFICES /\ t \in Locals(scale) /\ t.any = a.any
             /\ IF t.ok THEN size = t.value * Pow10[Places - scale]
                ELSE Unreadable(size, Pow10[Places - scale])
  BY Zenon DEF PaddedExactly
<1>1. PICK P \in Nat : P = Places /\ scale \in 0 .. P
  BY ScaleAssumption DEF Places
<1>2. PICK k \in 0 .. scale : k = a.frac
  BY DEF Locals
<1>3. PICK N \in Nat : N = scale - k
  BY <1>1, <1>2
<1>4. PICK g \in [0 .. N -> Locals(scale)] :
        g[0] = a /\ (\A m \in 1 .. N : g[m] = Pad(g[m - 1])) /\ Padded(a, N) = g[N]
  <2>1. scale \in Nat
    BY <1>1
  <2>2. \E f : Pads(f, a, N, scale) /\ Padded(a, N) = f[N]
    BY <2>1, PaddedRuns, Zenon
  <2> QED
    BY <2>2, Zenon DEF Pads
<1>11. \A n \in 0 .. N - 1 : /\ P - (k + n) \in Nat \ {0}
                             /\ P - scale \in 0 .. (P - (k + n)) - 1
                             /\ P - (k + (n + 1)) = (P - (k + n)) - 1
  <2> SUFFICES ASSUME NEW n \in 0 .. N - 1
               PROVE  /\ P - (k + n) \in Nat \ {0}
                      /\ P - scale \in 0 .. (P - (k + n)) - 1
                      /\ P - (k + (n + 1)) = (P - (k + n)) - 1
    BY ZenonT(60)
  <2>1. PICK m \in Nat : m = k + n /\ m + 1 = k + (n + 1)
    OBVIOUS
  <2>2. m + 1 <= scale /\ scale <= P
    <3>1. \A x, y, z \in Int : y <= (z - x) - 1 => (x + y) + 1 <= z
      OBVIOUS
    <3>2. k \in Int /\ n \in Int /\ scale \in Int /\ n <= N - 1 /\ scale <= P
      BY <1>1
    <3> QED
      BY <1>3, <2>1, <3>1, <3>2
  <2>4. P - m \in Nat \ {0} /\ P - scale \in 0 .. (P - m) - 1 /\ P - (m + 1) = (P - m) - 1
    BY <1>1, <2>2
  <2> QED
    BY <2>1, <2>4
<1> DEFINE Good(n) == /\ g[n].any = a.any
                      /\ IF g[n].ok THEN size = g[n].value * Pow10[P - (k + n)]
                         ELSE Unreadable(size, Pow10[P - scale])
           T == {n \in 0 .. N : Good(n)}
<1>5. 0 \in T
  <2>1. P - (k + 0) = P - k
    BY <1>1, <1>2
  <2>2. size = g[0].value * Pow10[P - (k + 0)]
    BY <1>1, <1>2, <1>4, <2>1
  <2>3. Good(0)
    BY <1>4, <2>2, Zenon
  <2> QED
    BY <2>3
<1>6. ASSUME NEW n \in 0 .. N - 1, n \in T PROVE n + 1 \in T
  <2>1. n + 1 \in 1 .. N /\ n + 1 \in 0 .. N /\ (n + 1) - 1 = n /\ n \in 0 .. N /\ scale \in Nat
    BY <1>1
  <2>2. PICK x \in Locals(scale) : x = g[n]
    BY <2>1
  <2>3. PICK y : y = Pad(x) /\ y = g[n + 1]
    BY <1>4, <2>1, <2>2
  <2>4. /\ y \in Locals(scale) /\ y.any = x.any
        /\ x.value > MaxInt \div 10 => y.ok = FALSE
        /\ ~(x.value > MaxInt \div 10) => y.ok = x.ok /\ y.value = 10 * x.value
    <3>1. y \in Locals(scale) /\ PaddedBy(x, y)
      BY <2>1, <2>3, PadCases, Zenon
    <3> QED
      BY <3>1, Zenon DEF PaddedBy
  <2>5. PICK v \in 0 .. MaxInt : v = x.value
    BY DEF Locals
  <2>6. x.any = a.any /\ (IF x.ok THEN size = v * Pow10[P - (k + n)]
                          ELSE Unreadable(size, Pow10[P - scale]))
    BY <1>6, <2>2, <2>5, Zenon
  <2> SUFFICES IF y.ok THEN size = y.value * Pow10[P - (k + (n + 1))]
               ELSE Unreadable(size, Pow10[P - scale])
    BY <2>1, <2>3, <2>4, <2>6, Zenon
  <2>7. PICK e \in Nat \ {0} : e = P - (k + n) /\ P - (k + (n + 1)) = e - 1
                                         /\ P - scale \in 0 .. e - 1
    BY <1>11
  <2>8. CASE ~x.ok
    <3>1. ~y.ok
      BY <2>4, <2>8, Zenon
    <3> QED
      BY <2>6, <2>8, <3>1, Zenon
  <2>9. CASE x.ok /\ v > MaxInt \div 10
    <3>1. ~y.ok
      BY <2>4, <2>5, <2>9, Zenon
    <3>2. 10 * v > MaxInt - 9
      BY <2>9, NoOverflow, MaxIntAssumption
    <3>3. size = v * Pow10[e]
      BY <2>6, <2>7, <2>9, Zenon
    <3>4. v * Pow10[e] <= size
      BY <3>3
    <3>5. PICK l \in 0 .. e - 1 : l = P - scale
      BY <2>7
    <3>6. Unreadable(size, Pow10[l])
      BY <3>2, <3>4, NoRoom
    <3> QED
      BY <3>1, <3>5, <3>6
  <2>10. CASE x.ok /\ ~(v > MaxInt \div 10)
    <3>1. y.ok /\ y.value = 10 * v
      BY <2>4, <2>5, <2>10, Zenon
    <3>2. size = v * Pow10[e]
      BY <2>6, <2>7, <2>10, Zenon
    <3>3. PICK q \in Nat : q = Pow10[e - 1] /\ Pow10[e] = 10 * q
      <4>1. \E q \in Nat \ {0} : q = Pow10[e - 1] /\ Pow10[e] = 10 * q
        BY PowerStep, Zenon
      <4> QED
        BY <4>1
    <3>4. v * (10 * q) = (10 * v) * q
      BY Scaling, MaxIntAssumption
    <3> QED
      BY <2>7, <3>1, <3>2, <3>3, <3>4
  <2> QED
    BY <2>8, <2>9, <2>10, Zenon
<1>7. \A n \in 0 .. N : n \in T
  <2> HIDE DEF T
  <2> QED
    BY <1>5, <1>6, UpTo
<1>8. N \in 0 .. N /\ k + N = scale
  BY <1>1, <1>2, <1>3
<1>9. Good(N)
  BY <1>7, <1>8, Zenon
<1>10. t = g[N]
  BY <1>2, <1>3, <1>4
<1> QED
  BY <1>1, <1>4, <1>8, <1>9, <1>10, Zenon
-----------------------------------------------------------------------------
(* DecimalToScaled is exact.                                               *)

\* A text without its sign.
LEMMA UnsignedText ==
  ASSUME NEW x \in Seq(Chars)
  PROVE  Unsigned(x) \in Seq(Chars) /\ Len(Unsigned(x)) <= Len(x)
<1>1. CASE IsNegative(x)
  <2>1. x # <<>> /\ Unsigned(x) = Tail(x)
    BY <1>1 DEF IsNegative, Unsigned
  <2>2. Tail(x) \in Seq(Chars) /\ Len(Tail(x)) = Len(x) - 1
    BY <2>1
  <2> QED
    BY <2>1, <2>2
<1>2. CASE ~IsNegative(x)
  BY <1>2 DEF Unsigned
<1> QED
  BY <1>1, <1>2

\* A text with no more decimals than the reference counts.
InPlaces(b) == Legal(b, Len(b)) => Len(b) - Point(b) <= Places

\* The two loops together: the number, or a reason to reject it.
ReadExactly(b, t, scale, unit) ==
  /\ t \in Locals(scale)
  /\ t.ok /\ t.any => /\ Legal(b, Len(b)) /\ HasDigit(b, Len(b))
                      /\ Size(b) \in Nat /\ t.value * unit = Size(b)
  /\ ~(t.ok /\ t.any) /\ Legal(b, Len(b)) /\ HasDigit(b, Len(b)) =>
       Size(b) \in Nat /\ Unreadable(Size(b), unit)

\* What ParseIsExact says of the text behind the sign.
LEMMA LoopsAreExact ==
  ASSUME NEW b \in Seq(Chars), InPlaces(b), NEW scale \in 0 .. Places,
         NEW a, a = Read(b, scale), NEW t, t = Padded(a, scale - a.frac),
         NEW unit, unit = Pow10[Places - scale]
  PROVE  ReadExactly(b, t, scale, unit)
<1> SUFFICES /\ t \in Locals(scale)
             /\ t.ok /\ t.any => /\ Legal(b, Len(b)) /\ HasDigit(b, Len(b))
                                 /\ Size(b) \in Nat /\ t.value * unit = Size(b)
             /\ ~(t.ok /\ t.any) /\ Legal(b, Len(b)) /\ HasDigit(b, Len(b)) =>
                  Size(b) \in Nat /\ Unreadable(Size(b), unit)
  BY Zenon DEF ReadExactly
<1>1. scale \in Nat /\ Places \in Nat
  BY ScaleAssumption DEF Places
<1>2. PICK f : Reads(f, b, scale) /\ a = f[Len(b)]
  BY <1>1, ReadRuns, Zenon
<1>3. Len(b) \in 0 .. Len(b) /\ Len(b) \in Nat
  OBVIOUS
<1>4. a \in Locals(scale)
  BY <1>2, <1>3 DEF Reads
<1>5. /\ a.ok \in BOOLEAN /\ a.any \in BOOLEAN /\ a.frac \in 0 .. scale /\ a.value \in 0 .. MaxInt
  BY <1>4 DEF Locals
<1>6. PICK N \in Nat : N = scale - a.frac
  BY <1>1, <1>5
<1>7. PICK g : Pads(g, a, N, scale) /\ Padded(a, N) = g[N]
  BY <1>1, <1>4, PaddedRuns, Zenon
<1>8. t \in Locals(scale) /\ t = g[N]
  BY <1>6, <1>7 DEF Pads
<1>9. a.ok => /\ Legal(b, Len(b)) /\ (a.any <=> HasDigit(b, Len(b)))
  <2>1. \A n \in 0 .. Len(b) :
          f[n].ok => /\ Legal(b, n) /\ (f[n].dot <=> HasDot(b, n))
                     /\ (f[n].any <=> HasDigit(b, n))
    BY <1>1, <1>2, ReadChecks
  <2> QED
    BY <1>2, <1>3, <2>1, Zenon
<1>10. ASSUME Legal(b, Len(b))
       PROVE  /\ Size(b) \in Nat
              /\ a.ok => Size(b) = a.value * Pow10[Places - a.frac]
              /\ ~a.ok => Unreadable(Size(b), unit)
  <2>1. PICK D : D = Point(b)
    BY Zenon
  <2>2. IsPoint(b, D) /\ Len(b) - D <= Places
    BY <1>10, <2>1, PointIs DEF InPlaces
  <2>3. \A i \in 1 .. Len(b) : Share(b, i) \in Nat
    BY <2>1, <2>2, Shares
  <2>4. PICK s : Adds(s, b) /\ Size(b) = s[Len(b)]
    BY <2>3, SizeRuns, Zenon
  <2>5. Size(b) \in Nat
    BY <1>3, <2>4 DEF Adds
  <2>6. IF a.ok THEN Fits(a, s[Len(b)], Len(b), D, scale)
        ELSE Unreadable(s[Len(b)], Pow10[Places - scale])
    BY <1>2, <1>3, <2>1, <2>2, <2>4, ReadIsExact, Zenon
  <2>7. ASSUME a.ok PROVE Size(b) = a.value * Pow10[Places - a.frac]
    <3>1. Fits(a, s[Len(b)], Len(b), D, scale)
      BY <2>6, <2>7, Zenon
    <3>2. CASE Len(b) < D
      <4>1. D = Len(b) + 1
        BY <1>3, <2>2, <3>2 DEF IsPoint
      <4>2. Places + D - 1 - Len(b) = Places - 0
        BY <1>1, <1>3, <4>1
      <4>3. a.frac = 0 /\ s[Len(b)] = a.value * Pow10[Places + D - 1 - Len(b)]
        BY <3>1, <3>2, Zenon DEF Fits
      <4> QED
        BY <2>4, <4>2, <4>3
    <3>3. CASE ~(Len(b) < D)
      BY <2>4, <3>1, <3>3, Zenon DEF Fits
    <3> QED
      BY <3>2, <3>3, Zenon
  <2> QED
    BY <2>4, <2>5, <2>6, <2>7, Zenon
<1>11. ASSUME a.ok
       PROVE  /\ t.any = a.any
              /\ IF t.ok THEN Size(b) = t.value * unit ELSE Unreadable(Size(b), unit)
  <2>1. Size(b) \in Nat /\ Size(b) = a.value * Pow10[Places - a.frac]
    BY <1>9, <1>10, <1>11, Zenon
  <2>2. PICK size \in Nat : size = Size(b)
    BY <2>1
  <2> QED
    <3>1. /\ t \in Locals(scale) /\ t.any = a.any
          /\ IF t.ok THEN size = t.value * Pow10[Places - scale]
             ELSE Unreadable(size, Pow10[Places - scale])
      <4>1. PaddedExactly(a, t, size, scale)
        BY <1>4, <1>11, <2>1, <2>2, PadIsExact, Zenon
      <4> QED
        BY <4>1, Zenon DEF PaddedExactly
    <3> QED
      BY <2>2, <3>1, Zenon
<1>12. ASSUME ~a.ok PROVE ~t.ok
  <2> DEFINE T == {n \in 0 .. N : ~g[n].ok}
  <2>1. 0 \in T
    BY <1>7, <1>12 DEF Pads
  <2>2. ASSUME NEW n \in 0 .. N - 1, n \in T PROVE n + 1 \in T
    <3>1. n + 1 \in 1 .. N /\ n + 1 \in 0 .. N /\ (n + 1) - 1 = n /\ n \in 0 .. N
      OBVIOUS
    <3>2. g[n] \in Locals(scale) /\ g[n + 1] = Pad(g[n])
      BY <1>7, <3>1 DEF Pads
    <3>3. PaddedBy(g[n], g[n + 1])
      BY <1>1, <3>2, PadCases, Zenon
    <3>4. ~g[n + 1].ok
      BY <2>2, <3>3, Zenon DEF PaddedBy
    <3> QED
      BY <3>1, <3>4
  <2>3. \A n \in 0 .. N : n \in T
    <3> HIDE DEF T
    <3> QED
      BY <2>1, <2>2, UpTo
  <2>4. N \in 0 .. N
    OBVIOUS
  <2> QED
    BY <1>8, <2>3, <2>4, Zenon
<1>13. ASSUME t.ok /\ t.any
       PROVE  /\ Legal(b, Len(b)) /\ HasDigit(b, Len(b))
              /\ Size(b) \in Nat /\ t.value * unit = Size(b)
  <2>1. a.ok
    BY <1>12, <1>13, Zenon
  <2>2. Legal(b, Len(b)) /\ HasDigit(b, Len(b))
    BY <1>9, <1>11, <1>13, <2>1, Zenon
  <2> QED
    BY <1>10, <1>11, <1>13, <2>1, <2>2, Zenon
<1>14. ASSUME ~(t.ok /\ t.any), Legal(b, Len(b)), HasDigit(b, Len(b))
       PROVE  Size(b) \in Nat /\ Unreadable(Size(b), unit)
  <2>1. Size(b) \in Nat
    BY <1>10, <1>14, Zenon
  <2>2. CASE ~a.ok
    BY <1>10, <1>14, <2>1, <2>2, Zenon
  <2>3. CASE a.ok
    <3>1. t.any
      BY <1>9, <1>11, <1>14, <2>3, Zenon
    <3> QED
      BY <1>11, <1>14, <2>1, <2>3, <3>1, Zenon
  <2> QED
    BY <2>2, <2>3, Zenon
<1> QED
  BY <1>8, <1>13, <1>14, Zenon

\* DecimalToScaled of one text at one scale.
LEMMA ParseOne ==
  ASSUME NEW x \in Seq(Chars), InPlaces(Unsigned(x)), NEW scale \in 0 .. Places,
         NEW r, r = DecimalToScaled(x, scale), NEW unit, unit = Pow10[Places - scale]
  PROVE  IF r.ok
           THEN /\ IsDecimal(x)
                /\ r.value * unit = Number(x)
                /\ Magnitude(r.value) <= MaxInt
           ELSE IsDecimal(x) =>
                  \/ Magnitude(Number(x)) % unit # 0
                  \/ Magnitude(Number(x)) \div unit > MaxInt - 9
<1>1. PICK b \in Seq(Chars) : b = Unsigned(x) /\ InPlaces(b)
  BY UnsignedText
<1>2. PICK a : a = Read(b, scale)
  BY Zenon
<1>3. PICK t : t = Padded(a, scale - a.frac)
  BY Zenon
<1>4. /\ t \in Locals(scale)
      /\ t.ok /\ t.any => /\ Legal(b, Len(b)) /\ HasDigit(b, Len(b))
                          /\ Size(b) \in Nat /\ t.value * unit = Size(b)
      /\ ~(t.ok /\ t.any) /\ Legal(b, Len(b)) /\ HasDigit(b, Len(b)) =>
           Size(b) \in Nat /\ Unreadable(Size(b), unit)
  <2>1. ReadExactly(b, t, scale, unit)
    BY <1>1, <1>2, <1>3, LoopsAreExact, Zenon
  <2> QED
    BY <2>1, Zenon DEF ReadExactly
<1>5. unit \in Nat \ {0}
  <2>1. Places - scale \in Nat
    BY ScaleAssumption DEF Places
  <2> QED
    BY <2>1, Powers, Zenon
<1>6. IsDecimal(x) <=> Legal(b, Len(b)) /\ HasDigit(b, Len(b))
  <2>1. IsDecimal(x) <=> /\ Cardinality(Dots(b)) <= 1
                         /\ \A i \in DOMAIN b \ Dots(b) : b[i] >= 0
                         /\ DOMAIN b # Dots(b)
    BY <1>1, Zenon DEF IsDecimal
  <2>2. /\ Legal(b, Len(b)) <=> /\ Cardinality(Dots(b)) <= 1
                                /\ \A i \in DOMAIN b \ Dots(b) : b[i] >= 0
        /\ Legal(b, Len(b)) => (HasDigit(b, Len(b)) <=> DOMAIN b # Dots(b))
    BY LegalIs, Zenon
  <2> QED
    BY <2>1, <2>2, Zenon
<1>7. r = IF ~t.ok \/ ~t.any THEN Rejected
          ELSE [ok |-> TRUE, value |-> IF IsNegative(x) THEN -t.value ELSE t.value]
  BY <1>1, <1>2, <1>3, Zenon DEF DecimalToScaled
<1>8. Number(x) = IF IsNegative(x) THEN -Size(b) ELSE Size(b)
  BY <1>1, Zenon DEF Number
<1>9. CASE t.ok /\ t.any
  <2>1. PICK v \in 0 .. MaxInt : v = t.value
    BY <1>4 DEF Locals
  <2>2. v * unit = Size(b) /\ IsDecimal(x) /\ Size(b) \in Nat
    BY <1>4, <1>6, <1>9, <2>1, Zenon
  <2>3. r = [ok |-> TRUE, value |-> IF IsNegative(x) THEN -v ELSE v]
    BY <1>7, <1>9, <2>1, Zenon
  <2>4. r.ok /\ r.value = IF IsNegative(x) THEN -v ELSE v
    BY <2>3
  <2>5. CASE IsNegative(x)
    <3>1. r.value = -v /\ Number(x) = -Size(b)
      BY <1>8, <2>4, <2>5, Zenon
    <3>2. \A y, u \in Int : (-y) * u = -(y * u)
      OBVIOUS
    <3>3. (-v) * unit = -(v * unit) /\ v \in Int
      BY <1>5, <3>2
    <3>4. Magnitude(-v) <= MaxInt
      BY MaxIntAssumption DEF Magnitude
    <3> QED
      BY <2>2, <2>4, <3>1, <3>3, <3>4, Zenon
  <2>6. CASE ~IsNegative(x)
    <3>1. r.value = v /\ Number(x) = Size(b)
      BY <1>8, <2>4, <2>6, Zenon
    <3>2. Magnitude(v) <= MaxInt
      BY MaxIntAssumption DEF Magnitude
    <3> QED
      BY <2>2, <2>4, <3>1, <3>2, Zenon
  <2> QED
    BY <2>5, <2>6, Zenon
<1>10. CASE ~(t.ok /\ t.any)
  <2>1. ~r.ok
    BY <1>7, <1>10 DEF Rejected
  <2> SUFFICES ASSUME IsDecimal(x)
               PROVE  \/ Magnitude(Number(x)) % unit # 0
                      \/ Magnitude(Number(x)) \div unit > MaxInt - 9
    BY <2>1, Zenon
  <2>2. PICK size \in Nat : size = Size(b) /\ Unreadable(size, unit)
    BY <1>4, <1>6, <1>10, Zenon
  <2>3. Magnitude(Number(x)) = size
    BY <1>8, <2>2 DEF Magnitude
  <2>4. ASSUME NEW v \in Nat, v * unit < size, size < (v + 1) * unit PROVE size % unit # 0
    BY <1>5, <2>4, Between, Zenon
  <2>5. ASSUME (MaxInt - 8) * unit <= size PROVE size \div unit > MaxInt - 9
    <3>1. PICK w \in Nat : w = MaxInt - 8
      BY MaxIntAssumption
    <3>2. size \div unit >= w
      BY <1>5, <2>5, <3>1, Beyond
    <3>3. PICK d \in Int : d = size \div unit
      BY <1>5
    <3> QED
      BY <3>1, <3>2, <3>3, MaxIntAssumption
  <2>6. size % unit # 0 \/ size \div unit > MaxInt - 9
    BY <2>2, <2>4, <2>5, Zenon DEF Unreadable
  <2> QED
    BY <2>3, <2>6, Zenon
<1> QED
  BY <1>9, <1>10, Zenon

LEMMA ShortText ==
  ASSUME NEW x \in Seq(Chars), Len(x) <= MaxLength
  PROVE  InPlaces(Unsigned(x))
<1>1. PICK b \in Seq(Chars) : b = Unsigned(x) /\ Len(b) <= Len(x)
  BY UnsignedText
<1>2. ASSUME Legal(b, Len(b)) PROVE Len(b) - Point(b) <= Places
  <2>1. Point(b) \in 1 .. Len(b) + 1
    BY <1>2, PointIs DEF IsPoint
  <2> QED
    BY <1>1, <2>1, ScaleAssumption DEF Places
<1> QED
  BY <1>1, <1>2, Zenon DEF InPlaces

\* The text that is typed: what the theorem rests on.
TextOK == text \in Seq(Digits \cup {Dot, Minus, Letter}) /\ Len(text) <= MaxLength

LEMMA TextStays == DecSpec => []TextOK
<1>1. DecInit => TextOK
  BY ScaleAssumption DEF DecInit, TextOK
<1>2. TextOK /\ [DecNext]_text => TextOK'
  <2> SUFFICES ASSUME TextOK, [DecNext]_text PROVE TextOK'
    OBVIOUS
  <2>1. CASE DecNext
    <3>1. PICK c \in Digits \cup {Dot, Minus, Letter} : text' = Append(text, c)
      BY <2>1 DEF DecNext
    <3>2. Len(text) < MaxLength
      BY <2>1 DEF DecNext
    <3> QED
      BY <3>1, <3>2, ScaleAssumption DEF TextOK
  <2>2. CASE UNCHANGED text
    BY <2>2 DEF TextOK
  <2> QED
    BY <2>1, <2>2
<1> QED
  BY <1>1, <1>2, PTL DEF DecSpec

LEMMA TextFits ==
  ASSUME TextOK
  PROVE  text \in Seq(Chars) /\ InPlaces(Unsigned(text))
<1>1. Digits \cup {Dot, Minus, Letter} \subseteq Chars
  BY DigitsAssumption DEF Dot, Minus, Letter, Chars
<1>2. text \in Seq(Chars) /\ Len(text) <= MaxLength
  BY <1>1 DEF TextOK
<1> QED
  BY <1>2, ShortText, Zenon

\* For every alphabet of digits, every INT64_MAX and every bound on length and
\* scale: DecimalToScaled returns the number the text stands for and nothing else,
\* and what it rejects is no decimal, or finer than the scale, or out of range.
THEOREM ParsesExactly == DecSpec => []ParseIsExact
<1>1. TextOK => ParseIsExact
  <2> SUFFICES ASSUME TextOK, NEW scale \in 0 .. MaxScale,
                      NEW r, r = DecimalToScaled(text, scale),
                      NEW unit, unit = Pow10[Places - scale]
               PROVE  IF r.ok
                        THEN /\ IsDecimal(text)
                             /\ r.value * unit = Number(text)
                             /\ Magnitude(r.value) <= MaxInt
                        ELSE IsDecimal(text) =>
                               \/ Magnitude(Number(text)) % unit # 0
                               \/ Magnitude(Number(text)) \div unit > MaxInt - 9
    BY Zenon DEF ParseIsExact
  <2>1. scale \in 0 .. Places
    BY ScaleAssumption DEF Places
  <2> QED
    BY <2>1, TextFits, ParseOne, Zenon
<1> QED
  BY <1>1, TextStays, PTL
-----------------------------------------------------------------------------
(* The digits of a number.                                                 *)

LEMMA PowersAdd ==
  ASSUME NEW j \in Nat, NEW k \in Nat
  PROVE  Pow10[j + k] = Pow10[j] * Pow10[k]
<1>1. PICK p : p = Pow10
  BY Zenon
<1>2. /\ p[0] = 1 /\ \A i \in Nat : p[i] \in Nat \ {0}
      /\ \A i \in Nat : p[i + 1] = 10 * p[i]
  BY <1>1, Powers, Zenon
<1> DEFINE T == {n \in 0 .. k : p[j + n] = p[j] * p[n]}
<1>3. 0 \in T
  <2>1. PICK x \in Nat : x = p[j]
    BY <1>2
  <2>2. x = x * 1 /\ j + 0 = j
    OBVIOUS
  <2> QED
    BY <1>2, <2>1, <2>2
<1>4. ASSUME NEW n \in 0 .. k - 1, n \in T PROVE n + 1 \in T
  <2>1. n + 1 \in 0 .. k /\ n \in Nat /\ j + n \in Nat /\ j + (n + 1) = (j + n) + 1
    OBVIOUS
  <2>2. PICK x \in Nat : x = p[j]
    BY <1>2
  <2>3. PICK y \in Nat : y = p[n] /\ p[n + 1] = 10 * y
    BY <1>2, <2>1
  <2>4. p[j + (n + 1)] = 10 * p[j + n]
    BY <1>2, <2>1
  <2>5. 10 * (x * y) = x * (10 * y)
    OBVIOUS
  <2> QED
    BY <1>4, <2>1, <2>2, <2>3, <2>4, <2>5
<1>5. \A n \in 0 .. k : n \in T
  <2> HIDE DEF T
  <2> QED
    BY <1>3, <1>4, UpTo
<1>6. k \in 0 .. k
  OBVIOUS
<1> QED
  BY <1>1, <1>5, <1>6, Zenon

\* Quotient and remainder are what they are.
LEMMA Quotient ==
  ASSUME NEW n \in Nat, NEW p \in Nat \ {0}
  PROVE  n \div p \in Nat /\ n % p \in 0 .. p - 1 /\ n = p * (n \div p) + (n % p)
<1>1. n \div p \in Int /\ n % p \in 0 .. p - 1 /\ n = p * (n \div p) + (n % p)
  OBVIOUS
<1>2. PICK k \in Int : k = n \div p
  BY <1>1
<1>3. ASSUME k < 0 PROVE FALSE
  <2>1. p * k <= -p
    BY <1>3
  <2> QED
    BY <1>1, <1>2, <2>1
<1> QED
  BY <1>1, <1>2, <1>3

LEMMA QuotientIs ==
  ASSUME NEW n \in Nat, NEW p \in Nat \ {0}, NEW k \in Nat, NEW r \in 0 .. p - 1, n = p * k + r
  PROVE  n \div p = k /\ n % p = r
<1>1. PICK q \in Nat : q = n \div p
  BY Quotient
<1>2. PICK m \in 0 .. p - 1 : m = n % p
  BY Quotient
<1>3. n = p * q + m
  BY <1>1, <1>2, Quotient
<1>4. ASSUME q < k PROVE FALSE
  <2>1. p * (q + 1) <= p * k
    BY <1>4
  <2>2. p * (q + 1) = p * q + p
    OBVIOUS
  <2>3. \A x, y \in Int : n = x + m /\ n = y + r => x + p > y
    OBVIOUS
  <2>4. p * q \in Int /\ p * k \in Int
    OBVIOUS
  <2> QED
    BY <1>3, <2>1, <2>2, <2>3, <2>4
<1>5. ASSUME q > k PROVE FALSE
  <2>1. p * (k + 1) <= p * q
    BY <1>5
  <2>2. p * (k + 1) = p * k + p
    OBVIOUS
  <2>3. \A x, y \in Int : n = x + m /\ n = y + r => y + p > x
    OBVIOUS
  <2>4. p * q \in Int /\ p * k \in Int
    OBVIOUS
  <2> QED
    BY <1>3, <2>1, <2>2, <2>3, <2>4
<1>6. q = k
  BY <1>4, <1>5
<1>7. m = r
  <2>1. PICK x \in Int : x = p * k
    OBVIOUS
  <2> QED
    BY <1>3, <1>6, <2>1
<1> QED
  BY <1>1, <1>2, <1>6, <1>7

\* One digit more.
LEMMA DigitStep ==
  ASSUME NEW n \in Nat, NEW p \in Nat \ {0}
  PROVE  n \div p = 10 * (n \div (10 * p)) + ((n \div p) % 10)
<1>1. PICK k \in Nat : k = n \div p
  BY Quotient
<1>2. PICK r \in 0 .. p - 1 : r = n % p /\ n = p * k + r
  BY <1>1, Quotient, Zenon
<1>3. PICK h \in Nat, d \in 0 .. 9 : d = k % 10 /\ k = 10 * h + d
  OBVIOUS
<1>4. n = (10 * p) * h + (p * d + r)
  <2>1. p * (10 * h + d) = (10 * p) * h + p * d
    OBVIOUS
  <2>2. PICK x \in Int : x = (10 * p) * h
    OBVIOUS
  <2>3. PICK y \in Int : y = p * d
    OBVIOUS
  <2> QED
    BY <1>2, <1>3, <2>1, <2>2, <2>3
<1>5. p * d + r \in 0 .. (10 * p) - 1
  <2>1. p * d <= p * 9 /\ p * d \in Nat
    OBVIOUS
  <2> QED
    BY <2>1
<1>6. 10 * p \in Nat \ {0}
  OBVIOUS
<1>7. PICK q : q = 10 * p
  OBVIOUS
<1>8. PICK x : x = p * d + r
  OBVIOUS
<1>9. n \div q = h
  <2>1. q \in Nat \ {0} /\ x \in 0 .. q - 1 /\ n = q * h + x
    BY <1>4, <1>5, <1>6, <1>7, <1>8, SMTT(40)
  <2> QED
    BY <2>1, QuotientIs
<1> QED
  BY <1>1, <1>3, <1>7, <1>9, Zenon

\* The digit of a number that counts 10^e.
DigitAt(n, e) == (n \div Pow10[e]) % 10

LEMMA DigitFacts ==
  ASSUME NEW n \in Nat, NEW e \in Nat
  PROVE  /\ n \div Pow10[e] \in Nat /\ DigitAt(n, e) \in 0 .. 9
         /\ n \div Pow10[e] = 10 * (n \div Pow10[e + 1]) + DigitAt(n, e)
         /\ n < Pow10[e] => n \div Pow10[e] = 0
         /\ n \div Pow10[0] = n
<1>1. PICK p \in Nat \ {0} : p = Pow10[e] /\ Pow10[e + 1] = 10 * p
  BY Powers
<1>2. PICK k \in Nat : k = n \div p
  BY Quotient
<1>3. k % 10 \in 0 .. 9
  OBVIOUS
<1>4. n \div p = 10 * (n \div (10 * p)) + ((n \div p) % 10)
  BY DigitStep, Zenon
<1>5. ASSUME n < p PROVE n \div p = 0
  <2>1. n \in 0 .. p - 1 /\ n = p * 0 + n
    BY <1>5
  <2> QED
    BY <2>1, QuotientIs
<1>6. n \div 1 = n
  OBVIOUS
<1>7. Pow10[0] = 1
  BY Powers
<1> QED
  BY <1>1, <1>2, <1>3, <1>4, <1>5, <1>6, <1>7, SMTT(40) DEF DigitAt

LEMMA DigitType ==
  ASSUME NEW n \in Nat, NEW e \in Nat
  PROVE  DigitAt(n, e) \in 0 .. 9
BY DigitFacts

\* What std::to_string returns.
LEMMA DigitsAre ==
  ASSUME NEW n \in Nat
  PROVE  \E len \in Nat \ {0} :
           /\ DigitsOf(n) = [i \in 1 .. len |-> DigitAt(n, len - i)]
           /\ n < Pow10[len] /\ (len = 1 \/ n >= Pow10[len - 1])
<1>1. PICK p : p = Pow10
  BY Zenon
<1>2. \A k \in Nat : p[k] \in Nat \ {0}
  BY <1>1, Powers, Zenon
<1> DEFINE K == {k \in 1 .. n + 1 : n < p[k]}
           Fit(k) == n < Pow10[k] /\ (k = 1 \/ n >= Pow10[k - 1])
<1>3. n + 1 \in K
  <2>1. n + 1 < p[n + 1]
    BY <1>1, PowersPass
  <2>2. p[n + 1] \in Nat
    BY <1>2
  <2> QED
    BY <2>1, <2>2
<1>4. PICK k \in K : \A j \in K : k <= j
  <2>1. K \in SUBSET Nat /\ K # {}
    BY <1>3
  <2> HIDE DEF K
  <2> QED
    BY <2>1, LeastNat, Zenon
<1>5. k \in 1 .. n + 1 /\ Fit(k)
  <2>1. ASSUME k # 1 PROVE n >= p[k - 1]
    <3>1. k - 1 \in 1 .. n + 1 /\ ~(k <= k - 1) /\ p[k - 1] \in Nat
      BY <1>2, <1>4, <2>1
    <3>2. k - 1 \notin K
      BY <1>4, <3>1
    <3> QED
      BY <3>1, <3>2
  <2> QED
    BY <1>1, <1>4, <2>1
<1> DEFINE C == CHOOSE j \in 1 .. n + 1 : Fit(j)
<1>6. PICK len : len = C /\ DigitsOf(n) = [i \in 1 .. len |-> DigitAt(n, len - i)]
  <2>1. DigitsOf(n) = [i \in 1 .. C |-> DigitAt(n, C - i)]
    BY Zenon DEF DigitsOf, DigitAt
  <2> HIDE DEF C
  <2> QED
    BY <2>1, Zenon
<1>7. len \in 1 .. n + 1 /\ Fit(len)
  <2> HIDE DEF Fit
  <2> QED
    BY <1>5, <1>6, Zenon
<1>9. len \in Nat \ {0}
  BY <1>7
<1> QED
  BY <1>6, <1>7, <1>9, Zenon

\* The digits before the point, and behind it.
SpellsWhole(b, D, w) ==
  w < Pow10[D - 1] /\ \A i \in 1 .. D - 1 : b[i] = DigitAt(w, D - 1 - i)
SpellsFraction(b, D, F, x) ==
  x < Pow10[F] /\ \A j \in 1 .. F : b[D + j] = DigitAt(x, F - j)

\* The sum of the reference over digits before the point.
LEMMA WholeSum ==
  ASSUME NEW b \in Seq(Chars), NEW D, D = Point(b), IsPoint(b, D), Len(b) - D <= Places,
         NEW s, Adds(s, b), NEW w \in Nat, SpellsWhole(b, D, w)
  PROVE  s[D - 1] = w * Pow10[Places]
<1> USE DEF SpellsWhole
<1>1. PICK P \in Nat : P = Places
  BY ScaleAssumption DEF Places
<1>2. PICK L \in Nat : L = D - 1 /\ L <= Len(b) /\ D = L + 1
  BY DEF IsPoint
<1> DEFINE T == {m \in 0 .. L : s[m] = (w \div Pow10[L - m]) * Pow10[P + (L - m)]}
<1>3. 0 \in T
  <2>1. s[0] = 0 /\ L - 0 = L
    BY <1>2 DEF Adds
  <2>2. w \div Pow10[L] = 0
    BY <1>2, DigitFacts, Zenon
  <2>3. PICK q \in Nat : q = Pow10[P + L]
    <3>1. P + L \in Nat
      OBVIOUS
    <3> QED
      BY <3>1, Powers, Zenon
  <2>4. 0 * q = 0
    OBVIOUS
  <2> QED
    BY <2>1, <2>2, <2>3, <2>4
<1>4. ASSUME NEW m \in 0 .. L - 1, m \in T PROVE m + 1 \in T
  <2>1. PICK e \in Nat : e = L - (m + 1) /\ e + 1 = L - m
    OBVIOUS
  <2>2. m + 1 \in 0 .. L /\ m + 1 \in 1 .. Len(b) /\ m + 1 \in 1 .. D - 1 /\ m + 1 < D
        /\ (m + 1) - 1 = m /\ P + D - 1 - (m + 1) = P + e /\ D - 1 - (m + 1) = e
    <3>1. m + 1 \in 0 .. L /\ m + 1 \in 1 .. L /\ m + 1 < L + 1 /\ (m + 1) - 1 = m
      OBVIOUS
    <3>2. \A x \in Int : x \in 1 .. L => x \in 1 .. Len(b)
      BY <1>2
    <3>3. D - 1 - (m + 1) = e /\ P + D - 1 - (m + 1) = P + e
      BY <1>2, <2>1, Zenon
    <3> QED
      BY <1>2, <3>1, <3>2, <3>3
  <2>3. PICK q \in Nat : q = Pow10[P + e] /\ Pow10[P + (e + 1)] = 10 * q
    <3>1. P + e \in Nat /\ P + (e + 1) = (P + e) + 1
      OBVIOUS
    <3> QED
      BY <3>1, Powers, Zenon
  <2>4. PICK c \in 0 .. 9 : c = DigitAt(w, e)
    BY DigitFacts
  <2>5. PICK v \in Nat : v = w \div Pow10[e + 1] /\ w \div Pow10[e] = 10 * v + c
    <3>1. e + 1 \in Nat
      OBVIOUS
    <3>2. w \div Pow10[e + 1] \in Nat
      BY <3>1, DigitFacts, Zenon
    <3> QED
      BY <2>4, <3>2, DigitFacts
  <2>6. s[m + 1] = s[m] + c * q
    <3>1. s[m + 1] = s[m] + Share(b, m + 1)
      BY <2>2 DEF Adds
    <3>2. Share(b, m + 1) = b[m + 1] * Pow10[P + D - 1 - (m + 1)]
      BY <1>1, <2>2, Shares
    <3>3. b[m + 1] = c
      BY <2>2, <2>4
    <3> QED
      BY <2>2, <2>3, <3>1, <3>2, <3>3, SMTT(40)
  <2>7. s[m] = v * (10 * q)
    BY <1>4, <2>1, <2>3, <2>5
  <2>8. v * (10 * q) + c * q = (10 * v + c) * q
    BY Scaling
  <2> QED
    BY <2>1, <2>2, <2>3, <2>5, <2>6, <2>7, <2>8, SMTT(40)
<1>5. \A m \in 0 .. L : m \in T
  <2> HIDE DEF T
  <2> QED
    BY <1>3, <1>4, UpTo
<1>6. L \in 0 .. L /\ L - L = 0 /\ P + 0 = P
  OBVIOUS
<1>7. w \div Pow10[0] = w
  BY DigitFacts
<1> QED
  BY <1>1, <1>2, <1>5, <1>6, <1>7, ZenonT(60)

\* And over digits behind it.
LEMMA FractionSum ==
  ASSUME NEW b \in Seq(Chars), NEW D, D = Point(b), IsPoint(b, D), Len(b) - D <= Places,
         NEW s, Adds(s, b), NEW F \in Nat, Len(b) = D + F, NEW x \in Nat,
         SpellsFraction(b, D, F, x)
  PROVE  s[Len(b)] = s[D] + x * Pow10[Places - F]
<1> USE DEF SpellsFraction
<1>1. PICK P \in Nat : P = Places /\ F <= P
  BY ScaleAssumption DEF Places, IsPoint
<1>2. D \in Nat \ {0} /\ s[D] \in Nat
  <2>1. D \in Nat \ {0}
    BY SMTT(40) DEF IsPoint
  <2>2. D \in 0 .. Len(b)
    BY <2>1
  <2> QED
    BY <2>1, <2>2 DEF Adds
<1>3. PICK z \in Nat : z = s[D]
  BY <1>2
<1> DEFINE T == {m \in 0 .. F : s[D + m] = z + (x \div Pow10[F - m]) * Pow10[P - m]}
<1>4. 0 \in T
  <2>1. D + 0 = D /\ F - 0 = F /\ P - 0 = P
    BY <1>2
  <2>2. x \div Pow10[F] = 0
    BY DigitFacts, Zenon
  <2>3. PICK q \in Nat : q = Pow10[P]
    BY Powers, Zenon
  <2>4. z + 0 * q = z
    OBVIOUS
  <2> QED
    BY <1>3, <2>1, <2>2, <2>3, <2>4, SMTT(40)
<1>5. ASSUME NEW m \in 0 .. F - 1, m \in T PROVE m + 1 \in T
  <2>1. PICK e \in Nat : e = F - (m + 1) /\ e + 1 = F - m
    OBVIOUS
  <2>2. /\ m + 1 \in 0 .. F /\ m + 1 \in 1 .. F /\ D + (m + 1) \in 1 .. Len(b) /\ D + (m + 1) > D
        /\ (D + (m + 1)) - 1 = D + m /\ (D + (m + 1)) - D = m + 1
    <3>1. m + 1 \in 0 .. F /\ m + 1 \in 1 .. F
      OBVIOUS
    <3>2. (D + (m + 1)) - 1 = D + m /\ (D + (m + 1)) - D = m + 1 /\ D + (m + 1) > D
      <4>1. \A d, y \in Nat : (d + (y + 1)) - 1 = d + y /\ (d + (y + 1)) - d = y + 1 /\ d + (y + 1) > d
        OBVIOUS
      <4>2. D \in Nat /\ m \in Nat
        BY <1>2
      <4> QED
        BY <4>1, <4>2, Zenon
    <3>3. D + (m + 1) \in 1 .. D + F
      <4>1. \A d \in Nat, y \in 1 .. F : d + y \in 1 .. d + F
        OBVIOUS
      <4> QED
        BY <1>2, <3>1, <4>1, ZenonT(60)
    <3> QED
      BY <3>1, <3>2, <3>3
  <2>3. PICK g \in Nat \ {0} : g = P - m /\ g - 1 = P - (m + 1)
    BY <1>1
  <2>4. PICK q \in Nat : q = Pow10[P - (m + 1)] /\ Pow10[P - m] = 10 * q
    <3>1. \E y \in Nat \ {0} : y = Pow10[g - 1] /\ Pow10[g] = 10 * y
      BY PowerStep, Zenon
    <3> QED
      BY <2>3, <3>1
  <2>5. PICK c \in 0 .. 9 : c = DigitAt(x, e)
    BY DigitFacts
  <2>6. PICK v \in Nat : v = x \div Pow10[e + 1] /\ x \div Pow10[e] = 10 * v + c
    <3>1. e + 1 \in Nat
      OBVIOUS
    <3>2. x \div Pow10[e + 1] \in Nat
      BY <3>1, DigitFacts, Zenon
    <3> QED
      BY <2>5, <3>2, DigitFacts
  <2>7. s[D + (m + 1)] = s[D + m] + c * q
    <3>1. s[D + (m + 1)] = s[D + m] + Share(b, D + (m + 1))
      BY <2>2 DEF Adds
    <3>2. PICK i \in 1 .. Len(b) : i = D + (m + 1) /\ i > D /\ i - D = m + 1
      BY <2>2
    <3>3. Share(b, i) = b[i] * Pow10[P - (i - D)]
      BY <1>1, <3>2, Shares, SMTT(40)
    <3>4. b[D + (m + 1)] = c
      BY <2>1, <2>2, <2>5
    <3> QED
      BY <2>4, <3>1, <3>2, <3>3, <3>4, SMTT(40)
  <2>8. s[D + m] = z + v * (10 * q)
    BY <1>5, <2>1, <2>4, <2>6, SMTT(40)
  <2>9. v * (10 * q) + c * q = (10 * v + c) * q
    BY Scaling
  <2>10. (z + v * (10 * q)) + c * q = z + (10 * v + c) * q
    <3>1. PICK y \in Nat : y = v * (10 * q)
      OBVIOUS
    <3>2. PICK y2 \in Nat : y2 = c * q
      OBVIOUS
    <3>3. (z + y) + y2 = z + (y + y2)
      OBVIOUS
    <3> QED
      BY <2>9, <3>1, <3>2, <3>3, SMTT(40)
  <2> QED
    BY <2>1, <2>2, <2>6, <2>4, <2>7, <2>8, <2>10, SMTT(40)
<1>6. \A m \in 0 .. F : m \in T
  <2> HIDE DEF T
  <2> QED
    BY <1>4, <1>5, UpTo, Zenon
<1>7. F \in 0 .. F /\ F - F = 0
  OBVIOUS
<1>8. x \div Pow10[0] = x
  BY DigitFacts
<1> QED
  BY <1>1, <1>3, <1>6, <1>7, <1>8

\* The text of a number: its whole part, the point and its decimals.
IsWritten(b, n, scale) ==
  \E L \in Nat \ {0} :
    /\ n \div Pow10[scale] < Pow10[L]
    /\ Len(b) = (IF scale = 0 THEN L ELSE L + 1 + scale) /\ b \in Seq(Chars)
    /\ \A i \in 1 .. L : b[i] = DigitAt(n \div Pow10[scale], L - i)
    /\ scale # 0 => /\ b[L + 1] = Dot
                    /\ \A j \in 1 .. scale : b[(L + 1) + j] = DigitAt(n % Pow10[scale], scale - j)

\* A written number reads as that number.
LEMMA WrittenSize ==
  ASSUME NEW scale \in 0 .. Places, NEW n \in Nat, NEW b, IsWritten(b, n, scale)
  PROVE  /\ b \in Seq(Chars) /\ Len(b) > 0 /\ b[1] # Minus
         /\ Legal(b, Len(b)) /\ HasDigit(b, Len(b)) /\ InPlaces(b)
         /\ Size(b) = n * Pow10[Places - scale]
<1>1. PICK P \in Nat : P = Places /\ scale \in 0 .. P /\ scale \in Nat /\ P - scale \in Nat
  BY ScaleAssumption DEF Places
<1>2. PICK u \in Nat \ {0} : u = Pow10[scale]
  BY <1>1, Powers
<1>3. PICK w \in Nat : w = n \div u
  BY Quotient, Zenon
<1>4. PICK x \in 0 .. u - 1 : x = n % u /\ n = u * w + x
  BY <1>3, Quotient, Zenon
<1>5. PICK L \in Nat \ {0} :
        /\ w < Pow10[L]
        /\ Len(b) = (IF scale = 0 THEN L ELSE L + 1 + scale) /\ b \in Seq(Chars)
        /\ \A i \in 1 .. L : b[i] = DigitAt(w, L - i)
        /\ scale # 0 => /\ b[L + 1] = Dot
                        /\ \A j \in 1 .. scale : b[(L + 1) + j] = DigitAt(x, scale - j)
  BY <1>2, <1>3, <1>4, Zenon DEF IsWritten
<1>6. PICK N \in Nat : N = Len(b) /\ L <= N /\ (scale = 0 => N = L) /\ (scale # 0 => N = (L + 1) + scale)
  BY <1>1, <1>5
<1>7. \A i \in 1 .. L : b[i] \in 0 .. 9
  <2>1. \A i \in 1 .. L : L - i \in Nat
    OBVIOUS
  <2> QED
    BY <1>5, <2>1, DigitType, ZenonT(60)
<1>8. ASSUME NEW i \in 1 .. N, i # L + 1 PROVE b[i] \in 0 .. 9
  <2>1. CASE i <= L
    BY <1>7, <2>1
  <2>2. CASE i > L
    <3>1. PICK j \in 1 .. scale : i = (L + 1) + j /\ scale # 0
      <4>1. scale # 0 /\ i - (L + 1) \in 1 .. scale
        BY <1>1, <1>6, <1>8, <2>2
      <4>2. i = (L + 1) + (i - (L + 1))
        OBVIOUS
      <4> QED
        BY <4>1, <4>2
    <3>2. scale - j \in Nat
      BY <1>1
    <3>3. x \in Nat
      OBVIOUS
    <3> QED
      BY <1>5, <3>1, <3>2, <3>3, DigitType, Zenon
  <2> QED
    BY <2>1, <2>2
<1>9. ASSUME NEW i \in 1 .. N PROVE b[i] = Dot <=> i = L + 1
  <2>1. CASE i = L + 1
    BY <1>5, <1>6, <2>1
  <2>2. CASE i # L + 1
    BY <1>8, <2>2 DEF Dot
  <2> QED
    BY <2>1, <2>2
<1>10. Legal(b, N)
  <2>1. \A i \in 1 .. N : b[i] >= 0 \/ b[i] = Dot
    BY <1>8, <1>9
  <2>2. \A i, j \in 1 .. N : b[i] = Dot /\ b[j] = Dot => i = j
    BY <1>9, Zenon
  <2> QED
    BY <2>1, <2>2, Zenon DEF Legal
<1>11. HasDigit(b, N) /\ b[1] # Minus /\ N > 0
  <2>1. b[1] \in 0 .. 9 /\ 1 \in 1 .. N /\ N > 0
    BY <1>6, <1>7
  <2> QED
    BY <2>1 DEF HasDigit, Minus
<1>12. PICK D : D = Point(b) /\ IsPoint(b, D)
  <2>1. IsPoint(b, Point(b))
    BY <1>5, <1>6, <1>10, PointIs, Zenon
  <2> QED
    BY <2>1, Zenon
<1>13. D = L + 1
  <2>1. D \in 1 .. N + 1 /\ \A i \in 1 .. N : b[i] = Dot <=> i = D
    BY <1>6, <1>12 DEF IsPoint
  <2>2. CASE scale = 0
    <3>1. D \notin 1 .. N
      BY <1>6, <1>9, <2>1, <2>2
    <3> QED
      BY <1>6, <2>1, <2>2, <3>1
  <2>3. CASE scale # 0
    <3>1. L + 1 \in 1 .. N
      BY <1>1, <1>6, <2>3
    <3> QED
      BY <1>9, <2>1, <3>1
  <2> QED
    BY <2>2, <2>3
<1>14. Len(b) - D <= Places
  BY <1>1, <1>6, <1>13
<1>15. InPlaces(b)
  BY <1>12, <1>14, Zenon DEF InPlaces
<1>16. PICK s : Adds(s, b) /\ Size(b) = s[Len(b)]
  <2>1. \A i \in 1 .. Len(b) : Share(b, i) \in Nat
    BY <1>5, <1>12, <1>14, Shares, Zenon
  <2> QED
    BY <1>5, <2>1, SizeRuns, Zenon
<1>17. s[L] = w * Pow10[P] /\ s[L] \in Nat
  <2>1. D - 1 = L
    BY <1>13
  <2>2. SpellsWhole(b, D, w) /\ b \in Seq(Chars)
    BY <1>5, <2>1 DEF SpellsWhole
  <2>3. s[D - 1] = w * Pow10[Places]
    BY <1>12, <1>14, <1>16, <2>2, WholeSum, Zenon
  <2>4. s[L] \in Nat
    BY <1>6, <1>16 DEF Adds
  <2> QED
    BY <1>1, <2>1, <2>3, <2>4
<1>18. Size(b) = n * Pow10[P - scale]
  <2>1. CASE scale = 0
    <3>1. u = 1 /\ w = n /\ P - scale = P
      BY <1>1, <1>2, <1>3, <2>1, Powers
    <3> QED
      BY <1>6, <1>16, <1>17, <2>1, <3>1, SMTT(40)
  <2>2. CASE scale # 0
    <3>1. D \in 1 .. N /\ Len(b) = D + scale /\ D - 1 = L
      BY <1>1, <1>6, <1>13, <2>2
    <3>2. s[D] = s[L]
      <4>1. s[D] = s[D - 1] + Share(b, D)
        BY <1>6, <1>16, <3>1 DEF Adds
      <4>2. Share(b, D) = 0
        BY <1>5, <1>6, <1>12, <1>14, <3>1, Shares, Zenon
      <4> QED
        BY <1>17, <3>1, <4>1, <4>2, SMTT(40)
    <3>3. x \in Nat /\ x < Pow10[scale] /\ b \in Seq(Chars)
      BY <1>2, <1>5
    <3>4. SpellsFraction(b, D, scale, x)
      BY <1>5, <1>13, <2>2, <3>3, SMTT(40) DEF SpellsFraction
    <3>5. s[Len(b)] = s[D] + x * Pow10[Places - scale]
      <4>1. Len(b) = D + scale /\ scale \in Nat /\ x \in Nat /\ b \in Seq(Chars)
        BY <1>1, <3>1, <3>3
      <4> QED
        BY <1>12, <1>14, <1>16, <3>4, <4>1, FractionSum, SMTT(40)
    <3>6. PICK q \in Nat : q = Pow10[P - scale]
      BY <1>1, Powers
    <3>7. Pow10[P] = u * q
      <4>1. Pow10[scale + (P - scale)] = Pow10[scale] * Pow10[P - scale]
        BY <1>1, PowersAdd
      <4>2. scale + (P - scale) = P
        BY <1>1
      <4> QED
        BY <1>2, <3>6, <4>1, <4>2, SMTT(40)
    <3>8. w * (u * q) + x * q = (u * w + x) * q
      OBVIOUS
    <3> QED
      BY <1>1, <1>4, <1>16, <1>17, <3>2, <3>5, <3>6, <3>7, <3>8, Zenon
  <2> QED
    BY <2>1, <2>2
<1> QED
  BY <1>1, <1>5, <1>6, <1>10, <1>11, <1>15, <1>18, SMTT(40)

\* The sequence of std::to_string.
LEMMA DigitsSeq ==
  ASSUME NEW n \in Nat
  PROVE  \E len \in Nat \ {0} :
           /\ DigitsOf(n) \in Seq(Chars) /\ Len(DigitsOf(n)) = len
           /\ \A i \in 1 .. len : DigitsOf(n)[i] = DigitAt(n, len - i)
           /\ n < Pow10[len] /\ (len = 1 \/ n >= Pow10[len - 1])
<1>1. PICK len \in Nat \ {0} :
           /\ DigitsOf(n) = [i \in 1 .. len |-> DigitAt(n, len - i)]
           /\ n < Pow10[len] /\ (len = 1 \/ n >= Pow10[len - 1])
  BY DigitsAre, Zenon
<1>2. PICK d : d = DigitsOf(n)
  BY Zenon
<1>3. \A i \in 1 .. len : DigitAt(n, len - i) \in Chars
  <2> TAKE i \in 1 .. len
  <2>1. len - i \in Nat
    OBVIOUS
  <2>2. DigitAt(n, len - i) \in 0 .. 9
    BY <2>1, DigitType, Zenon
  <2> QED
    BY <2>2 DEF Chars
<1>4. d \in Seq(Chars) /\ Len(d) = len /\ \A i \in 1 .. len : d[i] = DigitAt(n, len - i)
  BY <1>1, <1>2, <1>3
<1> QED
  BY <1>1, <1>2, <1>4, Zenon

\* The digits f of x, behind zeros, are the decimals of x.
HasDecimals(f, x, scale) ==
  /\ f \in Seq(Chars) /\ Len(f) \in 1 .. scale
  /\ \A j \in 1 .. scale :
       DigitAt(x, scale - j) = IF j <= scale - Len(f) THEN 0 ELSE f[j - (scale - Len(f))]

\* The decimals, filled up with zeros.
LEMMA DecimalsAre ==
  ASSUME NEW scale \in Nat \ {0}, NEW x \in Nat, x < Pow10[scale], NEW f, f = DigitsOf(x)
  PROVE  HasDecimals(f, x, scale)
<1> SUFFICES /\ f \in Seq(Chars) /\ Len(f) \in 1 .. scale
             /\ \A j \in 1 .. scale :
                  DigitAt(x, scale - j) = IF j <= scale - Len(f) THEN 0 ELSE f[j - (scale - Len(f))]
  BY Zenon DEF HasDecimals
<1>1. PICK len \in Nat \ {0} :
        /\ f \in Seq(Chars) /\ Len(f) = len
        /\ \A i \in 1 .. len : f[i] = DigitAt(x, len - i)
        /\ x < Pow10[len] /\ (len = 1 \/ x >= Pow10[len - 1])
  BY DigitsSeq, Zenon
<1>2. len <= scale
  <2> SUFFICES ASSUME len > scale PROVE FALSE
    OBVIOUS
  <2>1. len # 1 /\ len - 1 \in Nat /\ scale <= len - 1
    OBVIOUS
  <2>2. PICK y \in Nat : y = Pow10[scale]
    BY Powers
  <2>3. PICK z \in Nat : z = Pow10[len - 1]
    BY <2>1, Powers
  <2>4. y <= z
    BY <2>1, <2>2, <2>3, PowersGrow, SMTT(40)
  <2> QED
    BY <1>1, <2>1, <2>2, <2>3, <2>4, SMTT(40)
<1>3. ASSUME NEW j \in 1 .. scale, j <= scale - len PROVE DigitAt(x, scale - j) = 0
  <2>1. PICK e \in Nat : e = scale - j /\ len <= e
    BY <1>3
  <2>2. PICK y \in Nat : y = Pow10[len]
    BY Powers
  <2>3. PICK z \in Nat : z = Pow10[e]
    BY Powers
  <2>4. y <= z
    BY <2>1, <2>2, <2>3, PowersGrow
  <2>5. x < Pow10[e]
    BY <1>1, <2>2, <2>3, <2>4
  <2>6. x \div Pow10[e] = 0
    BY <2>5, DigitFacts, Zenon
  <2> QED
    BY <2>1, <2>6 DEF DigitAt
<1>4. ASSUME NEW j \in 1 .. scale, ~(j <= scale - len)
      PROVE  DigitAt(x, scale - j) = f[j - (scale - len)]
  <2>1. PICK i \in 1 .. len : i = j - (scale - len) /\ len - i = scale - j
    BY <1>2, <1>4
  <2> QED
    BY <1>1, <2>1
<1> QED
  BY <1>1, <1>2, <1>3, <1>4

\* One text behind another.
IsJoin(t, s1, n, s2, m) ==
  /\ t \in Seq(Chars) /\ Len(t) = n + m
  /\ \A i \in 1 .. n : t[i] = s1[i]
  /\ \A j \in 1 .. m : t[n + j] = s2[j]

LEMMA Joined ==
  ASSUME NEW s1 \in Seq(Chars), NEW s2 \in Seq(Chars), NEW n \in Nat, n = Len(s1),
         NEW m \in Nat, m = Len(s2), NEW t, t = s1 \o s2
  PROVE  IsJoin(t, s1, n, s2, m)
<1>1. /\ t \in Seq(Chars) /\ Len(t) = n + m
      /\ \A i \in 1 .. n + m : t[i] = IF i <= n THEN s1[i] ELSE s2[i - n]
  BY ConcatProperties
<1>2. ASSUME NEW j \in 1 .. m PROVE t[n + j] = s2[j]
  <2>1. n + j \in 1 .. n + m /\ ~(n + j <= n) /\ (n + j) - n = j
    OBVIOUS
  <2> QED
    BY <1>1, <2>1
<1> QED
  BY <1>1, <1>2 DEF IsJoin

\* What ScaledToDecimal returns.
LEMMA WrittenIs ==
  ASSUME NEW v \in Int, NEW scale \in Nat
  PROVE  \E b : /\ IsWritten(b, Magnitude(v), scale)
                /\ ScaledToDecimal(v, scale) = IF v < 0 THEN <<Minus>> \o b ELSE b
<1>1. PICK n \in Nat : n = Magnitude(v) /\ n = IF v < 0 THEN -v ELSE v
  BY DEF Magnitude
<1>2. PICK u \in Nat \ {0} : u = Pow10[scale]
  BY Powers
<1>3. PICK w \in Nat : w = n \div u
  BY Quotient
<1>4. PICK x \in 0 .. u - 1 : x = n % u
  BY Quotient
<1>5. PICK whole : whole = DigitsOf(w)
  BY Zenon
<1>6. PICK frac : frac = DigitsOf(x)
  BY Zenon
<1> DEFINE b == IF scale = 0 THEN DigitsOf(n)
                ELSE whole \o <<Dot>> \o Zeros(scale - Len(frac)) \o frac
<1>7. ScaledToDecimal(v, scale) = IF v < 0 THEN <<Minus>> \o b ELSE b
  BY <1>1, <1>2, <1>3, <1>4, <1>5, <1>6, Zenon DEF ScaledToDecimal
<1>8. IsWritten(b, n, scale)
  <2>1. CASE scale = 0
    <3>1. u = 1 /\ w = n /\ b = DigitsOf(n)
      BY <1>2, <1>3, <2>1, Powers
    <3>2. PICK len \in Nat \ {0} :
           /\ DigitsOf(n) \in Seq(Chars) /\ Len(DigitsOf(n)) = len
           /\ \A i \in 1 .. len : DigitsOf(n)[i] = DigitAt(n, len - i)
           /\ n < Pow10[len] /\ (len = 1 \/ n >= Pow10[len - 1])
      BY DigitsSeq, Zenon
    <3>3. n \div Pow10[scale] = n
      BY <1>2, <1>3, <3>1
    <3> HIDE DEF b
    <3> QED
      BY <2>1, <3>1, <3>2, <3>3, Zenon DEF IsWritten
  <2>2. CASE scale # 0
    <3>1. PICK L \in Nat \ {0} :
           /\ whole \in Seq(Chars) /\ Len(whole) = L
           /\ \A i \in 1 .. L : whole[i] = DigitAt(w, L - i)
           /\ w < Pow10[L] /\ (L = 1 \/ w >= Pow10[L - 1])
      BY <1>5, DigitsSeq, Zenon
    <3>2. /\ frac \in Seq(Chars) /\ Len(frac) \in 1 .. scale
          /\ \A j \in 1 .. scale :
               DigitAt(x, scale - j) =
                 IF j <= scale - Len(frac) THEN 0 ELSE frac[j - (scale - Len(frac))]
      <4>1. scale \in Nat \ {0} /\ x \in Nat /\ x < Pow10[scale]
        BY <1>2, <2>2
      <4> QED
        <5>1. HasDecimals(frac, x, scale)
          BY <1>6, <4>1, DecimalsAre, Zenon
        <5> QED
          BY <5>1, Zenon DEF HasDecimals
    <3>3. PICK Z \in Nat : Z = scale - Len(frac) /\ Len(frac) = scale - Z
      BY <3>2, SMTT(40)
    <3>4. PICK z : z = Zeros(Z) /\ z \in Seq(Chars) /\ Len(z) = Z /\ \A i \in 1 .. Z : z[i] = 0
      <4>1. 0 \in Chars
        BY DEF Chars
      <4>2. PICK z : z = [i \in 1 .. Z |-> 0]
        BY Zenon
      <4>3. z = Zeros(Z)
        BY <4>2, Zenon DEF Zeros
      <4>4. z \in Seq(Chars) /\ Len(z) = Z /\ \A i \in 1 .. Z : z[i] = 0
        BY <4>1, <4>2
      <4> QED
        BY <4>3, <4>4, Zenon
    <3>5. <<Dot>> \in Seq(Chars) /\ Len(<<Dot>>) = 1 /\ <<Dot>>[1] = Dot
      BY DEF Dot, Chars
    <3>6. PICK b1 : b1 = whole \o <<Dot>>
      BY Zenon
    <3>7. /\ b1 \in Seq(Chars) /\ Len(b1) = L + 1
          /\ \A i \in 1 .. L : b1[i] = whole[i]
          /\ b1[L + 1] = Dot
      BY <3>1, <3>5, <3>6
    <3>8. PICK b2 : b2 = b1 \o z
      BY Zenon
    <3>9. /\ b2 \in Seq(Chars) /\ Len(b2) = (L + 1) + Z
          /\ \A i \in 1 .. L + 1 : b2[i] = b1[i]
          /\ \A j \in 1 .. Z : b2[(L + 1) + j] = z[j]
      <4>1. L + 1 \in Nat /\ Z \in Nat
        OBVIOUS
      <4>2. /\ b1 \in Seq(Chars) /\ L + 1 = Len(b1)
            /\ z \in Seq(Chars) /\ Z = Len(z) /\ b2 = b1 \o z
        BY <3>4, <3>7, <3>8, Zenon
      <4>3. IsJoin(b2, b1, L + 1, z, Z)
        BY <4>1, <4>2, Joined, Zenon
      <4> QED
        BY <4>3, Zenon DEF IsJoin
    <3>10. PICK b3 : b3 = b2 \o frac
      BY Zenon
    <3>11. /\ b3 \in Seq(Chars) /\ Len(b3) = ((L + 1) + Z) + Len(frac)
           /\ \A i \in 1 .. (L + 1) + Z : b3[i] = b2[i]
           /\ \A k \in 1 .. Len(frac) : b3[((L + 1) + Z) + k] = frac[k]
      <4>1. (L + 1) + Z \in Nat /\ Len(frac) \in Nat
        BY <3>2
      <4>2. /\ b2 \in Seq(Chars) /\ (L + 1) + Z = Len(b2)
            /\ frac \in Seq(Chars) /\ b3 = b2 \o frac
        BY <3>2, <3>9, <3>10, Zenon
      <4>3. IsJoin(b3, b2, (L + 1) + Z, frac, Len(frac))
        BY <4>1, <4>2, Joined, Zenon
      <4> QED
        BY <4>3, Zenon DEF IsJoin
    <3>12. b = b3
      BY <2>2, <3>3, <3>4, <3>6, <3>8, <3>10, Zenon
    <3>13. Len(b3) = L + 1 + scale
      BY <3>3, <3>11
    <3>14. ASSUME NEW i \in 1 .. L PROVE b3[i] = DigitAt(w, L - i)
      <4>1. i \in 1 .. L + 1 /\ i \in 1 .. (L + 1) + Z
        OBVIOUS
      <4> QED
        BY <3>1, <3>7, <3>9, <3>11, <4>1, Zenon
    <3>15. b3[L + 1] = Dot
      <4>1. L + 1 \in 1 .. L + 1 /\ L + 1 \in 1 .. (L + 1) + Z
        OBVIOUS
      <4> QED
        BY <3>7, <3>9, <3>11, <4>1, Zenon
    <3>16. ASSUME NEW j \in 1 .. scale PROVE b3[(L + 1) + j] = DigitAt(x, scale - j)
      <4>1. CASE j <= Z
        <5>1. j \in 1 .. Z /\ (L + 1) + j \in 1 .. (L + 1) + Z
          BY <4>1
        <5>2. b3[(L + 1) + j] = 0
          BY <3>4, <3>9, <3>11, <5>1, Zenon
        <5> QED
          BY <3>2, <3>3, <4>1, <5>2
      <4>2. CASE ~(j <= Z)
        <5>1. PICK k \in 1 .. Len(frac) : k = j - Z /\ (L + 1) + j = ((L + 1) + Z) + k
          <6>1. PICK M \in Nat : M = Len(frac) /\ Z = scale - M
            <7>1. Len(frac) \in Nat
              BY <3>2
            <7> QED
              BY <3>3, <7>1, Zenon
          <6>2. PICK k \in 1 .. M : k = j - Z
            BY <4>2, <6>1
          <6>3. (L + 1) + j = ((L + 1) + Z) + k
            BY <6>2
          <6> QED
            BY <6>1, <6>2, <6>3, Zenon
        <5>2. b3[(L + 1) + j] = frac[k]
          BY <3>11, <5>1
        <5> QED
          BY <3>2, <3>3, <4>2, <5>1, <5>2
      <4> QED
        BY <4>1, <4>2
    <3> HIDE DEF b
    <3> QED
      BY <1>2, <1>3, <1>4, <2>2, <3>1, <3>11, <3>12, <3>13, <3>14, <3>15, <3>16, Zenon DEF IsWritten
  <2> QED
    BY <2>1, <2>2
<1> HIDE DEF b
<1> QED
  BY <1>1, <1>7, <1>8, Zenon
-----------------------------------------------------------------------------
(* ScaledToDecimal and back.                                               *)

\* What it means for the text that it is accepted.
IsRead(x, r, scale) ==
  /\ IsDecimal(x) /\ Legal(Unsigned(x), Len(Unsigned(x)))
  /\ Magnitude(r.value) \in Nat
  /\ Size(Unsigned(x)) = Magnitude(r.value) * Pow10[Places - scale]
  /\ Magnitude(Number(x)) = Size(Unsigned(x))

LEMMA Accepted ==
  ASSUME NEW x \in Seq(Chars), InPlaces(Unsigned(x)), NEW scale \in 0 .. Places,
         NEW r, r = DecimalToScaled(x, scale), r.ok
  PROVE  (\E k \in Int : r = [ok |-> TRUE, value |-> k]) /\ IsRead(x, r, scale)
<1>1. PICK b \in Seq(Chars) : b = Unsigned(x) /\ InPlaces(b)
  BY UnsignedText
<1>2. PICK a : a = Read(b, scale)
  BY Zenon
<1>3. PICK t : t = Padded(a, scale - a.frac)
  BY Zenon
<1>4. PICK unit \in Nat \ {0} : unit = Pow10[Places - scale]
  <2>1. Places - scale \in Nat
    BY ScaleAssumption DEF Places
  <2> QED
    BY <2>1, Powers, Zenon
<1>5. /\ t \in Locals(scale)
      /\ t.ok /\ t.any => /\ Legal(b, Len(b)) /\ HasDigit(b, Len(b))
                          /\ Size(b) \in Nat /\ t.value * unit = Size(b)
  <2>1. ReadExactly(b, t, scale, unit)
    BY <1>1, <1>2, <1>3, <1>4, LoopsAreExact, Zenon
  <2> QED
    BY <2>1, Zenon DEF ReadExactly
<1>6. r = IF ~t.ok \/ ~t.any THEN Rejected
          ELSE [ok |-> TRUE, value |-> IF IsNegative(x) THEN -t.value ELSE t.value]
  BY <1>1, <1>2, <1>3, Zenon DEF DecimalToScaled
<1>7. t.ok /\ t.any
  BY <1>6 DEF Rejected
<1>8. PICK v \in 0 .. MaxInt : v = t.value
  BY <1>5 DEF Locals
<1>9. v \in Nat /\ Size(b) = v * unit /\ Legal(b, Len(b)) /\ Size(b) \in Nat
  BY <1>5, <1>7, <1>8, MaxIntAssumption
<1>10. PICK k \in Int : k = (IF IsNegative(x) THEN -v ELSE v) /\ Magnitude(k) = v
  BY <1>9 DEF Magnitude
<1>11. r = [ok |-> TRUE, value |-> k]
  BY <1>6, <1>7, <1>8, <1>10, Zenon
<1>12. r.value = k
  BY <1>11
<1>13. IsDecimal(x)
  BY <1>4, ParseOne, Zenon
<1>14. Magnitude(Number(x)) = Size(b)
  <2>1. Number(x) = IF IsNegative(x) THEN -Size(b) ELSE Size(b)
    BY <1>1, Zenon DEF Number
  <2> QED
    BY <1>9, <2>1 DEF Magnitude
<1>15. IsRead(x, r, scale)
  BY <1>1, <1>4, <1>9, <1>10, <1>12, <1>13, <1>14, Zenon DEF IsRead
<1> QED
  BY <1>11, <1>15, Zenon

\* DecimalToScaled reads back what ScaledToDecimal wrote.
LEMMA ReadBack ==
  ASSUME NEW v \in Int, Magnitude(v) <= MaxInt - 9, NEW scale \in 0 .. Places
  PROVE  DecimalToScaled(ScaledToDecimal(v, scale), scale) = [ok |-> TRUE, value |-> v]
<1>1. scale \in Nat /\ Places - scale \in Nat
  BY ScaleAssumption DEF Places
<1>2. PICK n \in Nat : n = Magnitude(v) /\ n = IF v < 0 THEN -v ELSE v
  BY DEF Magnitude
<1>3. PICK b : IsWritten(b, n, scale) /\ ScaledToDecimal(v, scale) = IF v < 0 THEN <<Minus>> \o b ELSE b
  BY <1>1, <1>2, WrittenIs, Zenon
<1>4. PICK unit \in Nat \ {0} : unit = Pow10[Places - scale]
  BY <1>1, Powers
<1>5. /\ b \in Seq(Chars) /\ Len(b) > 0 /\ b[1] # Minus
      /\ Legal(b, Len(b)) /\ HasDigit(b, Len(b)) /\ InPlaces(b)
      /\ Size(b) = n * unit
  BY <1>3, <1>4, WrittenSize
<1>6. PICK x : x = ScaledToDecimal(v, scale)
  BY Zenon
<1>7. x \in Seq(Chars) /\ (IsNegative(x) <=> v < 0) /\ Unsigned(x) = b
  <2>1. CASE v < 0
    <3>1. x = <<Minus>> \o b
      BY <1>3, <1>6, <2>1, Zenon
    <3>2. <<Minus>> \in Seq(Chars) /\ Len(<<Minus>>) = 1 /\ <<Minus>>[1] = Minus
      BY DEF Minus, Chars
    <3>3. x \in Seq(Chars) /\ Len(x) = 1 + Len(b) /\ x[1] = Minus
          /\ \A j \in 1 .. Len(b) : x[1 + j] = b[j]
      <4>1. IsJoin(x, <<Minus>>, 1, b, Len(b))
        <5>1. Len(b) \in Nat /\ 1 \in Nat
          BY <1>5
        <5> QED
          BY <1>5, <3>1, <3>2, <5>1, Joined, Zenon
      <4> QED
        BY <3>2, <4>1 DEF IsJoin
    <3>4. x # <<>> /\ Head(x) = Minus
      BY <1>5, <3>3
    <3>5. Tail(x) = b
      <4>1. Tail(x) \in Seq(Chars) /\ Len(Tail(x)) = Len(b)
        BY <1>5, <3>3, <3>4
      <4>2. \A j \in 1 .. Len(b) : Tail(x)[j] = x[1 + j]
        BY <1>5, <3>3, <3>4
      <4> QED
        BY <1>5, <3>3, <4>1, <4>2, SeqEqual, SMTT(40)
    <3>6. IsNegative(x)
      BY <3>4, Zenon DEF IsNegative
    <3> QED
      BY <2>1, <3>3, <3>5, <3>6, Zenon DEF Unsigned
  <2>2. CASE ~(v < 0)
    <3>1. x = b
      BY <1>3, <1>6, <2>2, Zenon
    <3>2. Head(x) # Minus
      BY <1>5, <3>1
    <3>3. ~IsNegative(x)
      BY <3>2, Zenon DEF IsNegative
    <3> QED
      BY <1>5, <2>2, <3>1, <3>3, Zenon DEF Unsigned
  <2> QED
    BY <2>1, <2>2, Zenon
<1>8. Number(x) = v * unit
  <2>1. CASE v < 0
    <3>1. Number(x) = -Size(b)
      BY <1>7, <2>1, Zenon DEF Number
    <3>2. -((-v) * unit) = v * unit
      OBVIOUS
    <3> QED
      BY <1>2, <1>5, <2>1, <3>1, <3>2, SMTT(40)
  <2>2. CASE ~(v < 0)
    BY <1>2, <1>5, <1>7, <2>2 DEF Number
  <2> QED
    BY <2>1, <2>2
<1>9. PICK r : r = DecimalToScaled(x, scale)
  BY Zenon
<1>10. IF r.ok
         THEN IsDecimal(x) /\ r.value * unit = Number(x) /\ Magnitude(r.value) <= MaxInt
         ELSE IsDecimal(x) => \/ Magnitude(Number(x)) % unit # 0
                              \/ Magnitude(Number(x)) \div unit > MaxInt - 9
  BY <1>4, <1>5, <1>7, <1>9, ParseOne, Zenon
<1>11. IsDecimal(x)
  <2>1. /\ Legal(b, Len(b)) <=> /\ Cardinality(Dots(b)) <= 1
                                /\ \A i \in DOMAIN b \ Dots(b) : b[i] >= 0
        /\ Legal(b, Len(b)) => (HasDigit(b, Len(b)) <=> DOMAIN b # Dots(b))
    BY <1>5, LegalIs, Zenon
  <2> QED
    BY <1>5, <1>7, <2>1, Zenon DEF IsDecimal
<1>12. Magnitude(Number(x)) = n * unit /\ n * unit \in Nat
  <2>1. n * unit \in Nat
    OBVIOUS
  <2>2. CASE v < 0
    <3>1. Number(x) = -(n * unit)
      BY <1>5, <1>7, <2>2 DEF Number
    <3> QED
      BY <2>1, <3>1 DEF Magnitude
  <2>3. CASE ~(v < 0)
    <3>1. Number(x) = n * unit
      BY <1>5, <1>7, <2>3 DEF Number
    <3> QED
      BY <2>1, <3>1 DEF Magnitude
  <2> QED
    BY <2>2, <2>3
<1>13. (n * unit) % unit = 0 /\ (n * unit) \div unit = n
  <2>1. PICK m \in Nat : m = n * unit /\ m = unit * n + 0
    OBVIOUS
  <2>2. 0 \in 0 .. unit - 1
    OBVIOUS
  <2> QED
    BY <2>1, <2>2, QuotientIs
<1>14. r.ok
  <2>1. n <= MaxInt - 9
    BY <1>2
  <2> QED
    BY <1>10, <1>11, <1>12, <1>13, <2>1, MaxIntAssumption, SMTT(40)
<1>15. PICK k \in Int : r = [ok |-> TRUE, value |-> k]
  BY <1>5, <1>7, <1>9, <1>14, Accepted, Zenon
<1>16. k * unit = v * unit
  <2>1. r.value = k
    BY <1>15
  <2>2. r.value * unit = Number(x)
    BY <1>10, <1>14, Zenon
  <2> QED
    BY <1>8, <2>1, <2>2
<1>17. k = v
  <2>1. CASE k < v
    BY <1>16, <2>1
  <2>2. CASE k > v
    BY <1>16, <2>2
  <2> QED
    BY <2>1, <2>2
<1> QED
  BY <1>6, <1>9, <1>15, <1>17, Zenon
-----------------------------------------------------------------------------
(* Client order ids.                                                       *)

\* from_chars of digits.
LEMMA FromCharsRuns ==
  ASSUME NEW d \in Seq(0 .. 9)
  PROVE  \E f : /\ f \in [0 .. Len(d) -> Nat] /\ f[0] = 0
                /\ \A m \in 1 .. Len(d) : f[m] = 10 * f[m - 1] + d[m]
                /\ FromChars(d) = f[Len(d)]
<1>1. PICK N \in Nat : N = Len(d)
  OBVIOUS
<1> DEFINE S == Nat
           G == [m \in 1 .. N |-> [x \in S |-> 10 * x + d[m]]]
           Eqn(f) == [n \in 0 .. N |-> IF n = 0 THEN 0 ELSE 10 * f[n - 1] + d[n]]
<1>2. \A m \in 1 .. N : d[m] \in Nat
  BY <1>1
<1>3. 0 \in S /\ G \in [1 .. N -> [S -> S]]
  BY <1>2
<1>4. PICK f \in [0 .. N -> S] : f[0] = 0 /\ \A m \in 1 .. N : f[m] = G[m][f[m - 1]]
  <2> HIDE DEF G, S
  <2>1. \E f : IsRun(f, S, 0, N, G)
    BY <1>3, Iterate, Zenon
  <2> QED
    BY <2>1, Zenon DEF IsRun
<1>5. \A m \in 1 .. N : f[m] = 10 * f[m - 1] + d[m]
  <2> SUFFICES ASSUME NEW m \in 1 .. N PROVE f[m] = 10 * f[m - 1] + d[m]
    OBVIOUS
  <2>1. f[m - 1] \in S
    OBVIOUS
  <2>2. G[m][f[m - 1]] = 10 * f[m - 1] + d[m]
    BY <2>1, Zenon
  <2> QED
    BY <1>4, <2>2, Zenon
<1>6. f = Eqn(f)
  <2>1. \A m \in 0 .. N : f[m] = IF m = 0 THEN 0 ELSE 10 * f[m - 1] + d[m]
    <3>1. \A m \in 0 .. N : m = 0 \/ m \in 1 .. N
      OBVIOUS
    <3> QED
      BY <1>4, <1>5, <3>1, Zenon
  <2> QED
    BY <2>1, Zenon
<1> DEFINE c == CHOOSE g : g = Eqn(g)
<1>7. FromChars(d) = c[N]
  BY <1>1, Zenon DEF FromChars
<1>8. c = Eqn(c)
  BY <1>6, Zenon
<1>9. PICK p : p = c
  BY Zenon
<1>10. /\ p[0] = 0 /\ \A m \in 1 .. N : p[m] = 10 * p[m - 1] + d[m]
       /\ p = [m \in 0 .. N |-> p[m]]
  <2>1. p = Eqn(p)
    BY <1>8, <1>9, Zenon
  <2>2. \A m \in 0 .. N : p[m] = IF m = 0 THEN 0 ELSE 10 * p[m - 1] + d[m]
    BY <2>1, Zenon
  <2>3. 0 \in 0 .. N /\ \A m \in 1 .. N : m \in 0 .. N /\ m # 0
    OBVIOUS
  <2>4. DOMAIN p = 0 .. N /\ p = [m \in DOMAIN p |-> p[m]]
    BY <2>1, Zenon
  <2> QED
    BY <2>2, <2>3, <2>4, Zenon
<1> DEFINE T == {n \in 0 .. N : p[n] \in Nat}
<1>11. 0 \in T
  BY <1>10
<1>12. ASSUME NEW n \in 0 .. N - 1, n \in T PROVE n + 1 \in T
  <2>1. n + 1 \in 1 .. N /\ n + 1 \in 0 .. N /\ (n + 1) - 1 = n
    OBVIOUS
  <2>2. p[n + 1] = 10 * p[n] + d[n + 1] /\ d[n + 1] \in Nat
    BY <1>2, <1>10, <2>1, Zenon
  <2> QED
    BY <1>12, <2>1, <2>2, SMTT(40)
<1>13. \A n \in 0 .. N : n \in T
  <2> HIDE DEF T
  <2> QED
    BY <1>11, <1>12, UpTo, Zenon
<1>14. p \in [0 .. N -> Nat]
  BY <1>10, <1>13
<1> QED
  BY <1>1, <1>7, <1>9, <1>10, <1>14, Zenon

\* from_chars reads what to_string wrote.
LEMMA CharsBack ==
  ASSUME NEW n \in Nat, NEW d, d = DigitsOf(n)
  PROVE  d \in Seq(0 .. 9) /\ FromChars(d) = n /\ Len(d) > 0
<1>1. PICK len \in Nat \ {0} :
           /\ d \in Seq(Chars) /\ Len(d) = len
           /\ \A i \in 1 .. len : d[i] = DigitAt(n, len - i)
           /\ n < Pow10[len] /\ (len = 1 \/ n >= Pow10[len - 1])
  BY DigitsSeq, Zenon
<1>2. d \in Seq(0 .. 9)
  <2>1. \A i \in 1 .. len : d[i] \in 0 .. 9
    <3>1. \A i \in 1 .. len : len - i \in Nat
      OBVIOUS
    <3> QED
      BY <1>1, <3>1, DigitType, Zenon
  <2>2. d \in Seq(Chars) /\ Len(d) = len
    BY <1>1
  <2> QED
    BY <2>1, <2>2, IsASeq
<1>3. PICK f : /\ f \in [0 .. len -> Nat] /\ f[0] = 0
               /\ \A m \in 1 .. len : f[m] = 10 * f[m - 1] + d[m]
               /\ FromChars(d) = f[len]
  BY <1>1, <1>2, FromCharsRuns, Zenon
<1> DEFINE T == {m \in 0 .. len : f[m] = n \div Pow10[len - m]}
<1>4. 0 \in T
  <2>1. len \in Nat /\ len - 0 = len /\ 0 \in 0 .. len
    OBVIOUS
  <2>2. n \div Pow10[len] = 0
    BY <1>1, <2>1, DigitFacts, Zenon
  <2>3. n \div Pow10[len - 0] = 0
    BY <2>1, <2>2, Zenon
  <2> QED
    BY <1>3, <2>1, <2>3, Zenon
<1>5. ASSUME NEW m \in 0 .. len - 1, m \in T PROVE m + 1 \in T
  <2>1. m + 1 \in 1 .. len /\ m + 1 \in 0 .. len /\ (m + 1) - 1 = m
    OBVIOUS
  <2>2. PICK e \in Nat : e = len - (m + 1) /\ e + 1 = len - m
    OBVIOUS
  <2>3. n \div Pow10[e] = 10 * (n \div Pow10[e + 1]) + DigitAt(n, e)
    BY DigitFacts
  <2>4. f[m + 1] = 10 * f[m] + DigitAt(n, e)
    BY <1>1, <1>3, <2>1, <2>2, SMTT(40)
  <2> QED
    BY <1>5, <2>1, <2>2, <2>3, <2>4
<1>6. \A m \in 0 .. len : m \in T
  <2> HIDE DEF T
  <2> QED
    BY <1>4, <1>5, UpTo
<1>7. len \in 0 .. len /\ len - len = 0 /\ n \div Pow10[0] = n
  BY DigitFacts
<1> QED
  BY <1>1, <1>2, <1>3, <1>6, <1>7, SMTT(40)

\* DecodeClientId reads back what EncodeClientId wrote, whatever the prefix.
LEMMA IdBack ==
  ASSUME NEW prefix \in Seq(Chars), NEW n \in 0 .. MaxInt
  PROVE  DecodeClientId(prefix, EncodeClientId(prefix, n)) = [ok |-> TRUE, value |-> n]
<1>1. PICK d : d = DigitsOf(n)
  BY Zenon
<1>2. d \in Seq(0 .. 9) /\ FromChars(d) = n /\ Len(d) > 0 /\ n \in Nat
  BY <1>1, CharsBack, MaxIntAssumption
<1>3. PICK M \in Nat : M = Len(d) /\ M > 0
  BY <1>2
<1>4. PICK N \in Nat : N = Len(prefix)
  OBVIOUS
<1>5. d \in Seq(Chars) /\ \A i \in 1 .. M : d[i] \in 0 .. 9
  BY <1>2, <1>3 DEF Chars
<1>6. <<Minus>> \in Seq(Chars) /\ Len(<<Minus>>) = 1 /\ <<Minus>>[1] = Minus
  BY DEF Minus, Chars
<1>7. PICK x1 : x1 = prefix \o <<Minus>>
  BY Zenon
<1>8. IsJoin(x1, prefix, N, <<Minus>>, 1)
  BY <1>4, <1>6, <1>7, Joined, Zenon
<1>9. /\ x1 \in Seq(Chars) /\ Len(x1) = N + 1 /\ x1[N + 1] = Minus
      /\ \A i \in 1 .. N : x1[i] = prefix[i]
  BY <1>6, <1>8 DEF IsJoin
<1>10. PICK x : x = x1 \o d
  BY Zenon
<1>11. IsJoin(x, x1, N + 1, d, M)
  <2>1. N + 1 \in Nat
    OBVIOUS
  <2> QED
    BY <1>3, <1>5, <1>9, <1>10, <2>1, Joined, Zenon
<1>12. /\ x \in Seq(Chars) /\ Len(x) = (N + 1) + M
       /\ \A i \in 1 .. N + 1 : x[i] = x1[i]
       /\ \A j \in 1 .. M : x[(N + 1) + j] = d[j]
  BY <1>11, Zenon DEF IsJoin
<1>13. x = EncodeClientId(prefix, n)
  BY <1>1, <1>7, <1>10, Zenon DEF EncodeClientId
<1>14. SubSeq(x, 1, N) = prefix
  <2>1. /\ SubSeq(x, 1, N) \in Seq(Chars) /\ Len(SubSeq(x, 1, N)) = N
        /\ \A i \in 1 .. N : SubSeq(x, 1, N)[i] = x[i]
    BY <1>12
  <2>2. \A i \in 1 .. N : x[i] = prefix[i]
    BY <1>9, <1>12
  <2> QED
    BY <1>4, <2>1, <2>2, SeqEqual
<1>15. SubSeq(x, (N + 1) + 1, Len(x)) = d
  <2>1. PICK K \in Nat : K = N + 1
    OBVIOUS
  <2>2. /\ SubSeq(x, K + 1, Len(x)) \in Seq(Chars) /\ Len(SubSeq(x, K + 1, Len(x))) = M
        /\ \A j \in 1 .. M : SubSeq(x, K + 1, Len(x))[j] = x[K + j]
    <3>1. x \in Seq(Chars) /\ Len(x) = K + M
      BY <1>12, <2>1, Zenon
    <3>2. \A j \in 1 .. M : K + 1 + j - 1 = K + j
      OBVIOUS
    <3>3. PICK y : y = SubSeq(x, K + 1, K + M)
      BY Zenon
    <3>4. y \in Seq(Chars) /\ Len(y) = M /\ \A j \in 1 .. M : y[j] = x[K + 1 + j - 1]
      <4>1. PICK m1 \in Nat, n1 \in Nat : m1 = K + 1 /\ n1 = K + M /\ n1 = m1 + M - 1
        OBVIOUS
      <4>2. y = SubSeq(x, m1, n1) /\ Len(x) = n1 /\ x \in Seq(Chars)
        BY <3>1, <3>3, <4>1, Zenon
      <4>3. m1 >= 1 /\ m1 <= n1 /\ n1 - m1 + 1 = M
        BY <1>3, <4>1
      <4>4. \A i \in m1 .. n1 : x[i] \in Chars
        BY <4>2, <4>3
      <4>5. /\ y \in Seq(Chars) /\ Len(y) = M
            /\ \A i \in 1 .. M : y[i] = x[m1 + i - 1]
        BY <4>2, <4>3, <4>4, SubSeqProperties
      <4> QED
        BY <4>1, <4>5, Zenon
    <3>5. y = SubSeq(x, K + 1, Len(x))
      BY <3>1, <3>3, Zenon
    <3>6. \A j \in 1 .. M : y[j] = x[K + j]
      BY <3>2, <3>4
    <3> QED
      BY <3>4, <3>5, <3>6, Zenon
  <2>3. \A j \in 1 .. M : x[K + j] = d[j]
    BY <1>12, <2>1, Zenon
  <2> QED
    BY <1>3, <1>5, <2>1, <2>2, <2>3, SeqEqual, Zenon
<1>16. /\ ~(Len(x) <= N + 1) /\ x[N + 1] = Minus
       /\ ~(\E i \in DOMAIN d : d[i] < 0) /\ ~(n > MaxInt)
  <2>1. ~(Len(x) <= N + 1)
    BY <1>3, <1>12
  <2>2. x[N + 1] = Minus
    BY <1>9, <1>12
  <2>3. DOMAIN d = 1 .. M
    BY <1>3, <1>5
  <2> QED
    BY <1>5, <2>1, <2>2, <2>3, MaxIntAssumption, SMTT(40)
<1>17. DecodeClientId(prefix, x) = [ok |-> TRUE, value |-> n]
  BY <1>2, <1>4, <1>14, <1>15, <1>16, Zenon DEF DecodeClientId
<1> QED
  BY <1>13, <1>17, Zenon
-----------------------------------------------------------------------------
(* FractionalScale: the least scale that reads a text.                     *)

\* A bounded set has a last member.
LEMMA LastOne ==
  ASSUME NEW N \in Nat, NEW E \in SUBSET (1 .. N), E # {}
  PROVE  \E i \in E : \A j \in E : i >= j
<1> DEFINE T == {n \in Nat : N - n \in E}
<1>1. T \in SUBSET Nat
  OBVIOUS
<1>2. T # {}
  <2>1. PICK i \in E : i \in 1 .. N
    BY Zenon
  <2>2. N - i \in Nat /\ N - (N - i) = i
    OBVIOUS
  <2> QED
    BY <2>1, <2>2, Zenon
<1>3. PICK n \in T : \A y \in T : n <= y
  <2> HIDE DEF T
  <2> QED
    BY <1>1, <1>2, LeastNat
<1>4. ASSUME NEW j \in E PROVE N - n >= j
  <2>1. N - j \in Nat /\ N - (N - j) = j /\ j \in 1 .. N
    OBVIOUS
  <2>2. N - j \in T
    BY <2>1
  <2>3. n <= N - j /\ n \in Nat
    BY <1>3, <2>2, Zenon
  <2> QED
    BY <2>1, <2>3
<1>5. N - n \in E
  BY <1>3
<1> QED
  BY <1>4, <1>5

\* The last digit of b behind its point that is not 0 is at distance e.
EndsAt(b, D, e) ==
  /\ e \in Nat
  /\ e > 0 => D + e \in 1 .. Len(b) /\ b[D + e] # 0
  /\ \A i \in 1 .. Len(b) : i > D + e => b[i] = 0

\* FractionalScale reads the text with its sign, the loop without it.
LEMMA ScaleIs ==
  ASSUME NEW x \in Seq(Chars), NEW b, b = Unsigned(x), NEW D, IsPoint(b, D)
  PROVE  EndsAt(b, D, FractionalScale(x))
<1>1. PICK o \in 0 .. 1, N \in Nat :
        /\ b \in Seq(Chars) /\ Len(b) = N /\ Len(x) = N + o
        /\ \A i \in 1 .. N : x[i + o] = b[i]
        /\ o = 1 => x[1] = Minus
  <2>1. CASE IsNegative(x)
    <3>1. b = Tail(x) /\ x # <<>> /\ x[1] = Minus
      BY <2>1 DEF IsNegative, Unsigned
    <3>2. b \in Seq(Chars) /\ Len(x) = Len(b) + 1 /\ Len(b) \in Nat
          /\ \A i \in 1 .. Len(b) : x[i + 1] = b[i]
      BY <3>1
    <3>3. 1 \in 0 .. 1
      OBVIOUS
    <3> QED
      BY <3>1, <3>2, <3>3, Zenon
  <2>2. CASE ~IsNegative(x)
    <3>1. b = x
      BY <2>2, Zenon DEF Unsigned
    <3>2. b \in Seq(Chars) /\ Len(x) = Len(b) + 0 /\ Len(b) \in Nat
          /\ \A i \in 1 .. Len(b) : x[i + 0] = b[i]
      BY <3>1
    <3>3. 0 \in 0 .. 1 /\ 0 # 1
      OBVIOUS
    <3> QED
      BY <3>2, <3>3, Zenon
  <2> QED
    BY <2>1, <2>2
<1>2. /\ D \in 1 .. N + 1
      /\ \A i \in 1 .. N : (b[i] = Dot <=> i = D) /\ (i # D => b[i] \in 0 .. 9)
  BY <1>1 DEF IsPoint
<1>3. DOMAIN x = 1 .. N + o
  BY <1>1
<1>4. \A i \in 1 .. N + o : (o = 1 /\ i = 1) \/ (i - o \in 1 .. N /\ (i - o) + o = i)
  OBVIOUS
<1>5. \A i \in 1 .. N + o : (o = 1 /\ i = 1 /\ x[i] = Minus) \/ (i - o \in 1 .. N /\ x[i] = b[i - o])
  BY <1>1, <1>4
<1>6. \A i \in 1 .. N + o : x[i] = Dot <=> i = D + o
  <2>1. Minus # Dot
    BY DEF Minus, Dot
  <2>2. \A i \in 1 .. N + o : i - o = D <=> i = D + o
    BY <1>2
  <2>3. ~(1 = D + 1)
    BY <1>2
  <2> QED
    BY <1>2, <1>5, <2>1, <2>2, <2>3
<1> DEFINE dots == {i \in DOMAIN x : x[i] = Dot}
           dot  == CHOOSE i \in dots : \A j \in dots : i <= j
           ends == {i \in DOMAIN x : i > dot /\ x[i] # 0}
           last == CHOOSE i \in ends : \A j \in ends : i >= j
           e    == IF dots = {} \/ ends = {} THEN 0 ELSE last - dot
<1>7. dots = {i \in DOMAIN x : x[i] = Dot}
  BY Zenon
<1>8. dot = CHOOSE i \in dots : \A j \in dots : i <= j
  BY Zenon
<1>9. ends = {i \in DOMAIN x : i > dot /\ x[i] # 0}
  BY Zenon
<1>10. last = CHOOSE i \in ends : \A j \in ends : i >= j
  BY Zenon
<1>11. e = FractionalScale(x)
  BY Zenon DEF FractionalScale
<1>12. e = IF dots = {} \/ ends = {} THEN 0 ELSE last - dot
  BY Zenon
<1> HIDE DEF dots, dot, ends, last, e
<1>13. CASE D = N + 1
  <2>1. dots = {}
    BY <1>3, <1>6, <1>7, <1>13
  <2>2. e = 0
    BY <1>12, <2>1, Zenon
  <2>3. \A i \in 1 .. N : ~(i > D + 0)
    BY <1>13
  <2>4. EndsAt(b, D, e)
    BY <1>1, <2>2, <2>3 DEF EndsAt
  <2> QED
    BY <1>11, <2>4, Zenon
<1>14. CASE D \in 1 .. N
  <2>1. D + o \in dots /\ dots = {D + o}
    BY <1>3, <1>6, <1>7, <1>14
  <2>2. dot = D + o
    <3>1. \A j \in dots : D + o <= j
      BY <2>1
    <3>2. \E i \in dots : \A j \in dots : i <= j
      BY <2>1, <3>1
    <3>3. dot \in dots
      BY <1>8, <3>2, Zenon
    <3> QED
      BY <2>1, <3>3
  <2>3. \A i \in 1 .. N + o : i \in ends <=> i > D + o /\ b[i - o] # 0
    <3>1. \A i \in 1 .. N + o : i > D + o => ~(o = 1 /\ i = 1)
      BY <1>2
    <3> QED
      BY <1>3, <1>5, <1>9, <2>2, <3>1, Zenon
  <2>4. ends \in SUBSET (1 .. N + o)
    BY <1>3, <1>9
  <2>5. CASE ends = {}
    <3>1. e = 0
      BY <1>12, <2>5, Zenon
    <3>2. ASSUME NEW i \in 1 .. N, i > D + 0 PROVE b[i] = 0
      <4>1. i + o \in 1 .. N + o /\ i + o > D + o /\ (i + o) - o = i
        BY <3>2, <1>14
      <4> QED
        BY <2>3, <2>5, <4>1, Zenon
    <3>3. EndsAt(b, D, e)
      BY <1>1, <3>1, <3>2, SMTT(40) DEF EndsAt
    <3> QED
      BY <1>11, <3>3, Zenon
  <2>6. CASE ends # {}
    <3>1. last \in ends /\ \A j \in ends : last >= j
      <4>1. N + o \in Nat
        OBVIOUS
      <4>2. \E i \in ends : \A j \in ends : i >= j
        BY <2>4, <2>6, <4>1, LastOne, Zenon
      <4> QED
        BY <1>10, <4>2, Zenon
    <3>2. last \in 1 .. N + o /\ last > D + o /\ b[last - o] # 0
      BY <2>3, <2>4, <3>1
    <3>3. e = last - (D + o)
      BY <1>12, <2>1, <2>2, <2>6
    <3>4. e \in Nat /\ D + e = last - o /\ D + e \in 1 .. N
      BY <1>14, <3>2, <3>3
    <3>5. ASSUME NEW i \in 1 .. N, i > D + e PROVE b[i] = 0
      <4>1. i + o \in 1 .. N + o /\ i + o > D + o /\ (i + o) - o = i /\ ~(last >= i + o)
        BY <3>2, <3>4, <3>5, <1>14, SMTT(40)
      <4> QED
        BY <2>3, <3>1, <4>1, Zenon
    <3>6. EndsAt(b, D, e)
      BY <1>1, <3>2, <3>4, <3>5 DEF EndsAt
    <3> QED
      BY <1>11, <3>6, Zenon
  <2> QED
    BY <2>5, <2>6
<1> QED
  BY <1>2, <1>13, <1>14, SMTT(40)

\* Zeros add nothing.
LEMMA ZerosAdd ==
  ASSUME NEW b \in Seq(Chars), NEW D, D = Point(b), IsPoint(b, D), Len(b) - D <= Places,
         NEW s, Adds(s, b), NEW m \in 0 .. Len(b),
         \A i \in 1 .. Len(b) : i > m => b[i] = 0
  PROVE  s[Len(b)] = s[m]
<1>1. PICK N \in Nat : N = Len(b) /\ m \in 0 .. N
  OBVIOUS
<1>2. s \in [0 .. N -> Nat] /\ \A i \in 1 .. N : s[i] = s[i - 1] + Share(b, i)
  BY <1>1 DEF Adds
<1>3. ASSUME NEW i \in 1 .. N, i > m PROVE Share(b, i) = 0
  <2>1. b[i] = 0
    BY <1>1, <1>3
  <2>2. PICK w : w = Weight(b, i)
    BY Zenon
  <2>3. Share(b, i) \in Nat
    BY <1>1, Shares
  <2>4. Share(b, i) = 0 * w
    BY <2>1, <2>2 DEF Share
  <2>5. CASE i > D
    <3>1. /\ Places - (i - D) \in Nat
          /\ Share(b, i) = b[i] * Pow10[Places - (i - D)]
      BY <1>1, <2>5, Shares, Zenon
    <3>2. PICK p \in Nat : p = Pow10[Places - (i - D)]
      BY <3>1, Powers, Zenon
    <3> QED
      BY <2>1, <3>1, <3>2
  <2>6. CASE i < D
    <3>1. /\ Places + D - 1 - i \in Nat
          /\ Share(b, i) = b[i] * Pow10[Places + D - 1 - i]
      BY <1>1, <2>6, Shares, Zenon
    <3>2. PICK p \in Nat : p = Pow10[Places + D - 1 - i]
      BY <3>1, Powers, Zenon
    <3> QED
      BY <2>1, <3>1, <3>2
  <2>7. CASE i = D
    BY <1>1, <2>7, Shares, Zenon
  <2>8. D \in Int /\ i \in Int
    BY <1>1 DEF IsPoint
  <2> QED
    BY <2>5, <2>6, <2>7, <2>8
<1> DEFINE T == {n \in 0 .. N : n <= m \/ s[n] = s[m]}
<1>4. 0 \in T
  BY <1>1
<1>5. ASSUME NEW n \in 0 .. N - 1, n \in T PROVE n + 1 \in T
  <2>1. n + 1 \in 1 .. N /\ n + 1 \in 0 .. N /\ (n + 1) - 1 = n /\ m \in 0 .. N
    BY <1>1
  <2>2. CASE n + 1 <= m
    BY <2>1, <2>2
  <2>3. CASE n + 1 > m
    <3>1. s[n + 1] = s[n] + 0 /\ s[n] \in Nat
      BY <1>2, <1>3, <2>1, <2>3
    <3>2. s[n] = s[m]
      BY <1>5, <2>1, <2>3
    <3> QED
      BY <2>1, <3>1, <3>2
  <2> QED
    BY <2>1, <2>2, <2>3
<1>6. \A n \in 0 .. N : n \in T
  <2> HIDE DEF T
  <2> QED
    BY <1>4, <1>5, UpTo
<1>7. N \in T
  BY <1>6
<1> QED
  BY <1>1, <1>7

IsMultiple(n, unit) == \E k \in Nat : n = k * unit

\* What the digits up to e places behind the point add is a multiple of their unit.
LEMMA Multiples ==
  ASSUME NEW b \in Seq(Chars), NEW D, D = Point(b), IsPoint(b, D), Len(b) - D <= Places,
         NEW s, Adds(s, b), NEW e \in 0 .. Places, NEW m \in 0 .. Len(b), m <= D + e
  PROVE  IsMultiple(s[m], Pow10[Places - e])
<1>1. PICK N \in Nat : N = Len(b) /\ m \in 0 .. N
  OBVIOUS
<1>2. s \in [0 .. N -> Nat] /\ s[0] = 0 /\ \A i \in 1 .. N : s[i] = s[i - 1] + Share(b, i)
  BY <1>1 DEF Adds
<1>3. PICK P \in Nat : P = Places
  BY ScaleAssumption DEF Places
<1>4. PICK r \in Nat : r = P - e
  BY <1>3
<1>5. PICK u \in Nat : u = Pow10[r]
  BY Powers, Zenon
<1>6. D \in Nat /\ D >= 1 /\ \A i \in 1 .. N : i # D => b[i] \in 0 .. 9
  BY <1>1, SMTT(40) DEF IsPoint
<1>7. \A c \in Nat, j \in Nat : \E k \in Nat : c * Pow10[r + j] = k * u
  <2> TAKE c \in Nat, j \in Nat
  <2>1. PICK q \in Nat : q = Pow10[j]
    BY Powers, Zenon
  <2>2. Pow10[r + j] = u * q
    BY <1>5, <2>1, PowersAdd, Zenon
  <2>3. c * (u * q) = (c * q) * u /\ c * q \in Nat
    BY Scaling
  <2> QED
    BY <2>2, <2>3
<1>8. ASSUME NEW i \in 1 .. N, i <= m PROVE \E k \in Nat : Share(b, i) = k * u
  <2>1. CASE i > D
    <3>1. Share(b, i) = b[i] * Pow10[Places - (i - D)]
      BY <1>1, <2>1, Shares, Zenon
    <3>2. PICK j \in Nat : j = e - (i - D) /\ r + j = P - (i - D)
      BY <1>1, <1>4, <1>6, <1>8, <2>1, SMTT(40)
    <3>3. b[i] \in Nat
      <4>1. i # D
        BY <1>6, <2>1
      <4>2. b[i] \in 0 .. 9
        BY <1>6, <4>1, Zenon
      <4> QED
        BY <4>2
    <3>4. Share(b, i) = b[i] * Pow10[r + j]
      BY <1>3, <3>1, <3>2, Zenon
    <3>5. PICK k \in Nat : b[i] * Pow10[r + j] = k * u
      BY <1>7, <3>3, Zenon
    <3>6. Share(b, i) = k * u
      BY <3>4, <3>5, Zenon
    <3> QED
      BY <3>6
  <2>2. CASE i < D
    <3>1. Share(b, i) = b[i] * Pow10[Places + D - 1 - i]
      BY <1>1, <2>2, Shares, Zenon
    <3>2. PICK j \in Nat : j = e + D - 1 - i /\ r + j = P + D - 1 - i
      <4>1. e \in Nat /\ i \in Nat /\ i < D /\ D \in Nat /\ r = P - e
        BY <1>3, <1>4, <1>6, <2>2
      <4>2. e + D - 1 - i \in Nat /\ r + (e + D - 1 - i) = P + D - 1 - i
        BY <4>1, SMTT(40)
      <4> QED
        BY <4>2
    <3>3. b[i] \in Nat
      <4>1. i # D
        BY <1>6, <2>2
      <4>2. b[i] \in 0 .. 9
        BY <1>6, <4>1, Zenon
      <4> QED
        BY <4>2
    <3>4. Share(b, i) = b[i] * Pow10[r + j]
      BY <1>3, <3>1, <3>2, Zenon
    <3>5. PICK k \in Nat : b[i] * Pow10[r + j] = k * u
      BY <1>7, <3>3, Zenon
    <3>6. Share(b, i) = k * u
      BY <3>4, <3>5, Zenon
    <3> QED
      BY <3>6
  <2>3. CASE i = D
    <3>1. Share(b, i) = 0
      BY <1>1, <2>3, Shares, Zenon
    <3>2. 0 = 0 * u
      OBVIOUS
    <3> QED
      BY <3>1, <3>2
  <2> QED
    BY <1>6, <2>1, <2>2, <2>3, SMTT(40)
<1> DEFINE T == {n \in 0 .. N : n <= m => \E k \in Nat : s[n] = k * u}
<1>9. 0 \in T
  <2>1. s[0] = 0 * u
    BY <1>2
  <2> QED
    BY <2>1
<1>10. ASSUME NEW n \in 0 .. N - 1, n \in T PROVE n + 1 \in T
  <2> SUFFICES ASSUME n + 1 <= m PROVE \E k \in Nat : s[n + 1] = k * u
    OBVIOUS
  <2>1. n + 1 \in 1 .. N /\ (n + 1) - 1 = n /\ n <= m
    BY <1>1
  <2>2. PICK k \in Nat : s[n] = k * u
    BY <1>10, <2>1
  <2>3. PICK l \in Nat : Share(b, n + 1) = l * u
    BY <1>8, <2>1, Zenon
  <2>4. s[n + 1] = k * u + l * u
    BY <1>2, <2>1, <2>2, <2>3
  <2>5. k * u + l * u = (k + l) * u /\ k + l \in Nat
    OBVIOUS
  <2> QED
    BY <2>4, <2>5, Zenon
<1>11. \A n \in 0 .. N : n \in T
  <2> HIDE DEF T
  <2> QED
    BY <1>9, <1>10, UpTo
<1>12. PICK k \in Nat : s[m] = k * u
  <2>1. m \in T
    BY <1>1, <1>11, Zenon
  <2>2. m <= m
    OBVIOUS
  <2> QED
    BY <2>1, <2>2, Zenon
<1> QED
  BY <1>3, <1>4, <1>5, <1>12, Zenon DEF IsMultiple

\* A number whose last decimal that is not 0 is the one of 10^-e.
Finest(size, e) ==
  \E k \in Nat : size = k * Pow10[Places - e] /\ (e > 0 => k % 10 # 0)

LEMMA SizeEnds ==
  ASSUME NEW b \in Seq(Chars), Legal(b, Len(b)), InPlaces(b), NEW D, D = Point(b),
         NEW e, EndsAt(b, D, e)
  PROVE  e \in 0 .. Places /\ Finest(Size(b), e)
<1>1. IsPoint(b, D) /\ Len(b) - D <= Places
  BY PointIs, Zenon DEF InPlaces
<1>2. PICK N \in Nat : N = Len(b) /\ D \in 1 .. N + 1 /\ N - D <= Places
  BY <1>1 DEF IsPoint
<1>3. PICK P \in Nat : P = Places
  BY ScaleAssumption DEF Places
<1>4. /\ e \in Nat
      /\ e > 0 => D + e \in 1 .. N /\ b[D + e] # 0
      /\ \A i \in 1 .. N : i > D + e => b[i] = 0
  BY <1>2 DEF EndsAt
<1>5. e \in 0 .. P
  BY <1>2, <1>3, <1>4
<1>6. PICK s : Adds(s, b) /\ Size(b) = s[N]
  <2>1. \A i \in 1 .. Len(b) : Share(b, i) \in Nat
    BY <1>1, Shares, Zenon
  <2> QED
    BY <1>2, <2>1, SizeRuns, Zenon
<1>7. CASE e = 0
  <2>1. PICK m \in 0 .. N : m <= D + 0 /\ (m = D \/ m = N) /\ (m = D \/ N < D)
    <3>1. CASE D <= N
      BY <1>2, <3>1
    <3>2. CASE D > N
      BY <1>2, <3>2
    <3> QED
      BY <1>2, <3>1, <3>2
  <2>2. \A i \in 1 .. N : i > m => b[i] = 0
    BY <1>2, <1>4, <1>7, <2>1
  <2>3. s[N] = s[m]
    BY <1>1, <1>2, <1>6, <2>2, ZerosAdd, Zenon
  <2>4. PICK k \in Nat : s[m] = k * Pow10[Places - 0]
    <3>1. 0 \in 0 .. Places
      BY <1>3
    <3>2. IsMultiple(s[m], Pow10[Places - 0])
      BY <1>1, <1>2, <1>6, <2>1, <3>1, Multiples, Zenon
    <3> QED
      BY <3>2, Zenon DEF IsMultiple
  <2>5. ~(0 > 0)
    OBVIOUS
  <2>6. Finest(Size(b), e)
    BY <1>6, <1>7, <2>3, <2>4, <2>5, Zenon DEF Finest
  <2> QED
    BY <1>3, <1>5, <2>6, Zenon
<1>8. CASE e > 0
  <2>1. PICK m \in 0 .. N : m + 1 = D + e /\ m + 1 \in 1 .. N /\ m <= D + (e - 1) /\ m + 1 > D
    <3>1. D + e \in 1 .. N /\ e \in Nat /\ D \in Nat
      BY <1>2, <1>4, <1>8
    <3>2. PICK m \in 0 .. N : m = D + e - 1
      BY <3>1
    <3> QED
      BY <1>8, <3>1, <3>2
  <2>2. PICK d \in 0 .. 9 : d = b[m + 1] /\ d # 0
    <3>1. b[m + 1] \in 0 .. 9
      BY <1>1, <1>2, <2>1 DEF IsPoint
    <3> QED
      BY <1>4, <1>8, <2>1, <3>1, SMTT(40)
  <2>3. \A i \in 1 .. N : i > m + 1 => b[i] = 0
    BY <1>4, <2>1, Zenon
  <2>4. s[N] = s[m + 1]
    <3>1. m + 1 \in 0 .. N
      BY <2>1
    <3> QED
      BY <1>1, <1>2, <1>6, <2>3, <3>1, ZerosAdd, Zenon
  <2>5. PICK j \in Nat : j = P - e /\ j + 1 = P - (e - 1)
    BY <1>4, <1>5
  <2>6. PICK p \in Nat : p = Pow10[j] /\ Pow10[j + 1] = 10 * p
    BY Powers, Zenon
  <2>7. PICK k \in Nat : s[m] = k * (10 * p)
    <3>1. e - 1 \in 0 .. Places
      BY <1>3, <1>5, <1>8
    <3>2. m \in 0 .. Len(b) /\ m <= D + (e - 1)
      BY <1>2, <2>1
    <3>3. PICK k \in Nat : s[m] = k * Pow10[Places - (e - 1)]
      <4>1. IsMultiple(s[m], Pow10[Places - (e - 1)])
        BY <1>1, <1>6, <3>1, <3>2, Multiples, Zenon
      <4> QED
        BY <4>1, Zenon DEF IsMultiple
    <3>4. Pow10[Places - (e - 1)] = 10 * p
      BY <1>3, <2>5, <2>6, Zenon
    <3> QED
      BY <3>3, <3>4
  <2>8. Share(b, m + 1) = d * p
    <3>1. m + 1 \in 1 .. Len(b) /\ m + 1 > D
      BY <1>2, <2>1
    <3>2. Share(b, m + 1) = b[m + 1] * Pow10[Places - ((m + 1) - D)]
      BY <1>1, <3>1, Shares, Zenon
    <3>3. P - ((m + 1) - D) = j
      BY <1>2, <1>4, <2>1, <2>5, SMTT(40)
    <3>4. Pow10[Places - ((m + 1) - D)] = p
      BY <1>3, <2>6, <3>3, Zenon
    <3> QED
      BY <2>2, <3>2, <3>4, Zenon
  <2>9. s[m + 1] = s[m] + Share(b, m + 1)
    <3>1. m + 1 \in 1 .. Len(b) /\ (m + 1) - 1 = m
      BY <1>2, <2>1
    <3>2. s[m + 1] = s[(m + 1) - 1] + Share(b, m + 1)
      BY <1>6, <3>1, Zenon DEF Adds
    <3> QED
      BY <3>1, <3>2, Zenon
  <2>10. s[N] = k * (10 * p) + d * p
    BY <2>4, <2>7, <2>8, <2>9, Zenon
  <2>11. PICK l \in Nat : l = 10 * k + d /\ l % 10 # 0
    <3>1. PICK l \in Nat : l = 10 * k + d
      OBVIOUS
    <3>2. l % 10 = d
      BY <3>1, QuotientIs
    <3> QED
      BY <2>2, <3>1, <3>2
  <2>12. k * (10 * p) + d * p = l * p
    BY <2>11, Scaling
  <2>13. Finest(Size(b), e)
    <3>1. Pow10[Places - e] = p
      BY <1>3, <2>5, <2>6, Zenon
    <3>2. Size(b) = l * Pow10[Places - e]
      BY <1>6, <2>10, <2>12, <3>1, Zenon
    <3> QED
      BY <2>11, <3>2, Zenon DEF Finest
  <2> QED
    BY <1>3, <1>5, <2>13, Zenon
<1> QED
  BY <1>5, <1>7, <1>8

\* No coarser scale than the one of its last decimal reads a text.
LEMMA NoneCoarser ==
  ASSUME NEW scale \in 0 .. Places, NEW e \in 0 .. Places, NEW v \in Nat, NEW size,
         size = v * Pow10[Places - scale], Finest(size, e)
  PROVE  e <= scale
<1> SUFFICES ASSUME e > scale PROVE FALSE
  BY ScaleAssumption DEF Places
<1>1. PICK P \in Nat : P = Places
  BY ScaleAssumption DEF Places
<1>2. PICK i \in Nat, j \in Nat : i = P - e /\ j = e - scale - 1 /\ P - scale = i + (j + 1)
  BY <1>1
<1>3. PICK k \in Nat : size = k * Pow10[Places - e] /\ k % 10 # 0
  <2>1. e > 0
    BY <1>1
  <2> QED
    BY <2>1, Zenon DEF Finest
<1>4. PICK p \in Nat \ {0} : p = Pow10[i]
  BY Powers
<1>5. PICK q \in Nat : q = Pow10[j] /\ Pow10[j + 1] = 10 * q
  BY Powers
<1>6. Pow10[Places - scale] = p * (10 * q)
  <2>1. j + 1 \in Nat
    OBVIOUS
  <2>2. Pow10[i + (j + 1)] = Pow10[i] * Pow10[j + 1]
    BY <2>1, PowersAdd, Zenon
  <2> QED
    BY <1>1, <1>2, <1>4, <1>5, <2>2, Zenon
<1>7. k * p = v * (p * (10 * q))
  BY <1>1, <1>2, <1>3, <1>4, <1>6, Zenon
<1>8. PICK m \in Nat : m = v * q
  OBVIOUS
<1>9. v * (p * (10 * q)) = (10 * m) * p
  BY <1>8
<1>10. k = 10 * m
  <2>1. PICK n \in Nat : n = 10 * m
    OBVIOUS
  <2>2. k * p = n * p
    BY <1>7, <1>9, <2>1
  <2>3. CASE k < n
    BY <2>2, <2>3
  <2>4. CASE k > n
    BY <2>2, <2>4
  <2> QED
    BY <2>1, <2>3, <2>4
<1>11. k % 10 = 0
  BY <1>10
<1> QED
  BY <1>3, <1>11

\* A number that ends before the scale has a whole number of the next coarser units.
LEMMA OneCoarser ==
  ASSUME NEW scale \in 1 .. Places, NEW e \in 0 .. scale - 1, NEW v \in Nat, NEW size,
         size = v * Pow10[Places - scale], Finest(size, e),
         NEW unit, unit = Pow10[Places - (scale - 1)]
  PROVE  size % unit = 0 /\ size \div unit <= v
<1>1. PICK P \in Nat : P = Places
  BY ScaleAssumption DEF Places
<1>2. PICK i \in Nat, j \in Nat : i = P - scale /\ P - (scale - 1) = i + 1 /\ j = scale - 1 - e
                                  /\ P - e = (i + 1) + j
  BY <1>1
<1>3. PICK k \in Nat : size = k * Pow10[Places - e]
  BY Zenon DEF Finest
<1>4. PICK p \in Nat \ {0} : p = Pow10[i] /\ Pow10[i + 1] = 10 * p
  BY Powers
<1>5. PICK q \in Nat : q = Pow10[j]
  BY Powers
<1>6. PICK u \in Nat \ {0} : u = 10 * p
  OBVIOUS
<1>7. unit = u
  BY <1>1, <1>2, <1>4, <1>6, Zenon
<1>8. Pow10[Places - e] = u * q
  <2>1. i + 1 \in Nat
    OBVIOUS
  <2>2. Pow10[(i + 1) + j] = Pow10[i + 1] * Pow10[j]
    BY <2>1, PowersAdd, Zenon
  <2> QED
    BY <1>1, <1>2, <1>4, <1>5, <1>6, <2>2, Zenon
<1>9. PICK m \in Nat : m = k * q
  OBVIOUS
<1>10. size = u * m
  <2>1. k * (u * q) = u * (k * q)
    OBVIOUS
  <2> QED
    BY <1>3, <1>8, <1>9, <2>1, Zenon
<1>11. size \in Nat /\ size = u * m + 0 /\ 0 \in 0 .. u - 1
  BY <1>10
<1>12. size \div u = m /\ size % u = 0
  BY <1>11, QuotientIs
<1>13. size = v * p
  BY <1>1, <1>2, <1>4, Zenon
<1>14. m <= v
  <2> SUFFICES ASSUME m > v PROVE FALSE
    OBVIOUS
  <2>1. m * p > v * p
    OBVIOUS
  <2>2. u * m = 10 * (m * p) /\ m * p \in Nat
    BY <1>6
  <2> QED
    BY <1>10, <1>13, <2>1, <2>2, SMTT(40)
<1> QED
  BY <1>7, <1>12, <1>14

\* ConversionsAgree of one text and one scale.
LEMMA AgreeOne ==
  ASSUME NEW x \in Seq(Chars), InPlaces(Unsigned(x)), NEW scale \in 0 .. Places,
         NEW r, r = DecimalToScaled(x, scale), r.ok, Magnitude(r.value) <= MaxInt - 9
  PROVE  /\ DecimalToScaled(ScaledToDecimal(r.value, scale), scale) = r
         /\ r.value >= 0 =>
              DecodeClientId(<<Letter>>, EncodeClientId(<<Letter>>, r.value)) = r
         /\ FractionalScale(x) <= scale
         /\ scale > 0 => (FractionalScale(x) = scale <=>
                            ~DecimalToScaled(x, scale - 1).ok)
<1>1. PICK k \in Int : r = [ok |-> TRUE, value |-> k]
  BY Accepted, Zenon
<1>2. r.value = k
  BY <1>1
<1>3. DecimalToScaled(ScaledToDecimal(r.value, scale), scale) = r
  <2>1. DecimalToScaled(ScaledToDecimal(k, scale), scale) = [ok |-> TRUE, value |-> k]
    BY <1>2, ReadBack, Zenon
  <2> QED
    BY <1>1, <1>2, <2>1, Zenon
<1>4. ASSUME r.value >= 0
      PROVE  DecodeClientId(<<Letter>>, EncodeClientId(<<Letter>>, r.value)) = r
  <2>1. k \in 0 .. MaxInt
    BY <1>2, <1>4, MaxIntAssumption DEF Magnitude
  <2>2. <<Letter>> \in Seq(Chars)
    BY DEF Letter, Chars
  <2>3. DecodeClientId(<<Letter>>, EncodeClientId(<<Letter>>, k)) = [ok |-> TRUE, value |-> k]
    BY <2>1, <2>2, IdBack, Zenon
  <2> QED
    BY <1>1, <1>2, <2>3, Zenon
<1>5. PICK b \in Seq(Chars) : b = Unsigned(x) /\ InPlaces(b)
  BY UnsignedText
<1>6. PICK e : e = FractionalScale(x)
  BY Zenon
<1>7. PICK v \in Nat : v = Magnitude(r.value) /\ v <= MaxInt - 9
  BY Accepted, Zenon DEF IsRead
<1>8. PICK size : size = Size(b)
  BY Zenon
<1>9. /\ IsDecimal(x) /\ Legal(b, Len(b)) /\ size = v * Pow10[Places - scale]
      /\ Magnitude(Number(x)) = size
  <2>1. IsRead(x, r, scale)
    BY Accepted, Zenon
  <2> QED
    BY <1>5, <1>7, <1>8, <2>1, Zenon DEF IsRead
<1>10. e \in 0 .. Places /\ Finest(size, e)
  <2>1. PICK D : D = Point(b) /\ IsPoint(b, D)
    BY <1>9, PointIs, Zenon
  <2>2. EndsAt(b, D, e)
    BY <1>5, <1>6, <2>1, ScaleIs, Zenon
  <2> QED
    BY <1>5, <1>8, <1>9, <2>1, <2>2, SizeEnds, Zenon
<1>11. e <= scale
  BY <1>9, <1>10, NoneCoarser, Zenon
<1>12. ASSUME scale > 0 PROVE e = scale <=> ~DecimalToScaled(x, scale - 1).ok
  <2>1. PICK c \in 0 .. Places : c = scale - 1 /\ scale \in 1 .. Places
    BY <1>12, ScaleAssumption DEF Places
  <2>2. PICK t : t = DecimalToScaled(x, c)
    BY Zenon
  <2>3. ASSUME t.ok PROVE e <= c
    <3>1. IsRead(x, t, c)
      BY <2>2, <2>3, Accepted, Zenon
    <3>2. Magnitude(t.value) \in Nat /\ size = Magnitude(t.value) * Pow10[Places - c]
      BY <1>5, <1>8, <3>1, Zenon DEF IsRead
    <3> QED
      BY <1>10, <3>2, NoneCoarser, Zenon
  <2>4. ASSUME ~t.ok, e # scale PROVE FALSE
    <3>1. PICK unit : unit = Pow10[Places - c]
      BY Zenon
    <3>2. \/ Magnitude(Number(x)) % unit # 0
          \/ Magnitude(Number(x)) \div unit > MaxInt - 9
      BY <1>9, <2>2, <2>4, <3>1, ParseOne, Zenon
    <3>3. e \in 0 .. scale - 1
      BY <1>10, <1>11, <2>4, ScaleAssumption, SMTT(40) DEF Places
    <3>4. unit = Pow10[Places - (scale - 1)]
      BY <2>1, <3>1, Zenon
    <3>5. size % unit = 0 /\ size \div unit <= v
      BY <1>9, <1>10, <2>1, <3>3, <3>4, OneCoarser, Zenon
    <3>6. size \div unit > MaxInt - 9
      BY <1>9, <3>2, <3>5, Zenon
    <3>7. PICK p \in Nat \ {0} : p = unit
      <4>1. Places - c \in Nat
        BY ScaleAssumption DEF Places
      <4> QED
        BY <3>1, <4>1, Powers, Zenon
    <3>8. PICK n \in Nat : n = size
      <4>1. PICK w \in Nat : w = Pow10[Places - scale]
        <5>1. Places - scale \in Nat
          BY ScaleAssumption DEF Places
        <5> QED
          BY <5>1, Powers, Zenon
      <4>2. v * w \in Nat
        OBVIOUS
      <4> QED
        BY <1>9, <4>1, <4>2, Zenon
    <3>9. PICK d \in Int : d = size \div unit
      <4>1. n \div p \in Int
        OBVIOUS
      <4>2. n \div p = size \div unit
        BY <3>7, <3>8, Zenon
      <4> QED
        BY <4>1, <4>2, Zenon
    <3> QED
      BY <1>7, <3>5, <3>6, <3>9, MaxIntAssumption, SMTT(40)
  <2>5. ~(scale <= c)
    BY <2>1, SMTT(40)
  <2> QED
    BY <2>1, <2>2, <2>3, <2>4, <2>5, Zenon
<1> QED
  BY <1>3, <1>4, <1>6, <1>11, <1>12, Zenon

\* The conversions undo one another: what ScaledToDecimal writes into an order
\* DecimalToScaled reads back, what EncodeClientId writes DecodeClientId reads back,
\* and FractionalScale of a tick size is the least scale that reads it.  The code's
\* divisor is a u64, which holds the powers of ten of scales up to 19.
THEOREM ConversionsUndo == DecSpec => []ConversionsAgree
<1>1. TextOK => ConversionsAgree
  <2> SUFFICES ASSUME TextOK, NEW scale \in 0 .. MaxScale,
                      NEW r, r = DecimalToScaled(text, scale), r.ok,
                      Magnitude(r.value) <= MaxInt - 9
               PROVE  /\ DecimalToScaled(ScaledToDecimal(r.value, scale), scale) = r
                      /\ r.value >= 0 =>
                           DecodeClientId(<<Letter>>, EncodeClientId(<<Letter>>, r.value)) = r
                      /\ FractionalScale(text) <= scale
                      /\ scale > 0 => (FractionalScale(text) = scale <=>
                                         ~DecimalToScaled(text, scale - 1).ok)
    BY Zenon DEF ConversionsAgree
  <2>1. scale \in 0 .. Places
    BY ScaleAssumption DEF Places
  <2> QED
    BY <2>1, TextFits, AgreeOne, Zenon
<1> QED
  BY <1>1, TextStays, PTL
=============================================================================
