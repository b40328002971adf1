-------------------------- MODULE CrossCheckProofs --------------------------
(***************************************************************************)
(* Proofs about the cross-check of the live book against REST snapshots    *)
(* (src/engine/crosscheck.cpp), for every number of levels, event size,    *)
(* ring size, depth and lag.                                               *)
(*                                                                         *)
(* The scratch book is never compared with the exchange's: the invariant   *)
(* says what the events in the ring make of the undamaged live book.  A    *)
(* level that is replayed has in both books what the last event with it    *)
(* carries.  One that is not was last changed before the snapshot, if the  *)
(* message at the bracket is whole (RingOK), so the live book has what the *)
(* snapshot was taken of.  What the snapshot was too short to have is then *)
(* worse than as many levels as are compared, since each better one that   *)
(* is gone was deleted since (TopsAgree).                                  *)
(***************************************************************************)
EXTENDS CrossCheck, SequenceTheorems, FiniteSetTheorems, WellFoundedInduction, TLAPS

(* The inductive invariant *)

\* The exchange's history: a version is the number of the update that made it,
\* an update changes one level, and only updates of the past have deleted levels.
HistoryOK ==
  /\ \A n \in 0 .. LastId : \A l \in Levels : ExchangeBook(n)[l] \in 0 .. n
  /\ \A n \in 0 .. LastId : \A m \in 0 .. n : \A l \in Levels :
       ExchangeBook(n)[l] = ExchangeBook(m)[l] \/ ExchangeBook(n)[l] > m
  /\ \A n \in 1 .. LastId : \A l, k \in Levels :
       ExchangeBook(n)[l] = n /\ ExchangeBook(n)[k] = n => l = k
  /\ deleted \subseteq 1 .. LastId /\ LastId <= MaxUpdates

\* Event e carries the exchange's contents of its update id.
EventOK(e) ==
  /\ e.u <= LastId
  /\ \A l \in DOMAIN e.levels : e.levels[l] = ExchangeBook(e.u)[l]

\* Level l is in none of the events of s after the i-th.
LastWith(s, i, l) == \A j \in i + 1 .. Len(s) : l \notin DOMAIN s[j].levels

\* What the events r of the ring say of the book c: the last event with a level
\* gives its content, and a level that a diff left alone and no later event has
\* is as it was at the diff.
RingOK(r, c) ==
  /\ \A i \in 1 .. Len(r) : EventOK(r[i])
  /\ \A i \in 1 .. Len(r) : \A j \in i .. Len(r) : r[i].u <= r[j].u
  /\ \A i \in 1 .. Len(r) : \A l \in DOMAIN r[i].levels :
       LastWith(r, i, l) => c[l] = r[i].levels[l]
  /\ \A i \in 1 .. Len(r) : r[i].kind = "DepthDiff" =>
       \A l \in Levels \ ChangedLevels(r[i].U, r[i].u) :
         LastWith(r, i, l) => c[l] = ExchangeBook(r[i].u)[l]

\* The levels of the message that event e is of.
MessageLevels(e) ==
  IF e.kind = "Snapshot" THEN PresentLevels(e.u) ELSE ChangedLevels(e.U, e.u)

\* Events of one message, up to its last.
IncomingOK(s) ==
  \A i \in 1 .. Len(s) :
    /\ EventOK(s[i])
    /\ s[i].kind = s[1].kind /\ s[i].U = s[1].U /\ s[i].u = s[1].u
    /\ s[i].cont = (i < Len(s))
    /\ s[i].start => i = 1 /\ s[i].kind = "Snapshot"

\* Level l is in one of the events s.
Brings(s, l) == \E i \in 1 .. Len(s) : l \in DOMAIN s[i].levels

\* Between messages: the book is the exchange's, and what comes is the whole of
\* the next message.
NextMessageOK(r, s, c) ==
  /\ r # << >> => \A l \in Levels : c[l] = ExchangeBook(r[Len(r)].u)[l]
  /\ s # << >> =>
       /\ \A l \in MessageLevels(s[1]) : Brings(s, l)
       /\ s[1].kind = "Snapshot" => s[1].start
       /\ s[1].kind = "DepthDiff" =>
            r # << >> /\ s[1].U <= r[Len(r)].u + 1 /\ r[Len(r)].u <= s[1].u

\* Within a message: the rest of it comes, with what the book still lacks.
SameMessageOK(r, s, c) ==
  /\ s # << >> /\ ~s[1].start
  /\ s[1].kind = r[Len(r)].kind /\ s[1].U = r[Len(r)].U /\ s[1].u = r[Len(r)].u
  /\ \A l \in Levels : c[l] = ExchangeBook(r[Len(r)].u)[l] \/ Brings(s, l)

StreamOK(r, s, c) ==
  IF r # << >> /\ r[Len(r)].cont THEN SameMessageOK(r, s, c) ELSE NextMessageOK(r, s, c)

\* The reconstructor is where the newest event is.
ReconOK(rc, r, s) ==
  rc.state # "Idle" =>
    LET id == IF rc.state = "Live" THEN rc.prev_u ELSE rc.snapshot_last_id
    IN  IF s # << >> THEN s[1].u = id ELSE r # << >> /\ r[Len(r)].u = id

\* A snapshot on its way has the top of the exchange's book.
QueueOK ==
  \A i \in 1 .. Len(cc_queue) :
    /\ cc_queue[i].last_update_id <= LastId
    /\ cc_queue[i].levels = Top(ExchangeBook(cc_queue[i].last_update_id), SnapshotDepth)

IInv ==
  /\ TypeOK /\ HistoryOK
  /\ RingOK(ring, clean) /\ IncomingOK(incoming)
  /\ StreamOK(ring, incoming, clean) /\ ReconOK(recon, ring, incoming)
  /\ QueueOK
-----------------------------------------------------------------------------
(* The replay *)

\* A non-empty set of naturals has a least member.
LEMMA LeastNat ==
  ASSUME NEW T \in SUBSET Nat, T # {}
  PROVE  \E x \in T : \A y \in T : x <= y
<1> DEFINE R == OpToRel(<, Nat)
<1>1. IsWellFoundedOn(R, Nat)
  BY NatLessThanWellFounded, Zenon
<1>2. \A x, y \in Nat : y < x => <<y, x>> \in R
  BY DEF OpToRel
<1> HIDE DEF R
<1>3. PICK x \in T : \A y \in T : ~ (<<y, x>> \in R)
  BY <1>1, WFMin, Zenon
<1>4. \A y \in T : ~ (y < x)
  <2> TAKE y \in T
  <2>1. y \in Nat /\ x \in Nat
    OBVIOUS
  <2>2. y < x => <<y, x>> \in R
    BY <1>2, <2>1, Zenon
  <2> QED
    BY <1>3, <2>2, Zenon
<1>5. \A y \in T : x <= y
  BY <1>4
<1> QED
  BY <1>5

\* The equation of the replay's states: f[m] is the book after m events.
Body(b, evs, n, f) ==
  [m \in 0 .. n |-> IF m = 0 THEN b ELSE ApplyEvent(f[m - 1], evs[m])]

\* The equation has a solution.
LEMMA BodyRuns ==
  ASSUME NEW b, NEW evs, NEW N \in Nat
  PROVE  \E f : f = Body(b, evs, N, f)
<1> DEFINE T == {n \in Nat : ~ \E f : f = Body(b, evs, n, f)}
<1> SUFFICES ASSUME T # {} PROVE FALSE
  OBVIOUS
<1>1. PICK n \in T : \A y \in T : n <= y
  BY LeastNat, Zenon
<1>2. n \in Nat /\ ~ \E f : f = Body(b, evs, n, f)
  OBVIOUS
<1>3. CASE n = 0
  <2> DEFINE g == [m \in 0 .. n |-> b]
  <2>1. g = Body(b, evs, n, g)
    BY <1>3 DEF Body
  <2> QED
    BY <2>1, <1>2
<1>4. CASE n # 0
  <2>1. n - 1 \in Nat /\ ~ (n <= n - 1)
    BY <1>2, <1>4
  <2>2. n - 1 \notin T
    BY <1>1, <2>1
  <2>3. PICK f : f = Body(b, evs, n - 1, f)
    BY <2>1, <2>2
  <2>4. \A m \in 0 .. n - 1 : f[m] = IF m = 0 THEN b ELSE ApplyEvent(f[m - 1], evs[m])
    BY <2>3 DEF Body
  <2> DEFINE g == [m \in 0 .. n |-> IF m = n THEN ApplyEvent(f[n - 1], evs[n]) ELSE f[m]]
             h == [m \in 0 .. n |-> IF m = 0 THEN b ELSE ApplyEvent(g[m - 1], evs[m])]
  <2>5. ASSUME NEW m \in 0 .. n PROVE g[m] = h[m]
    <3>1. CASE m = 0
      BY <3>1, <2>4, <1>2, <1>4
    <3>2. CASE m # 0
      <4>1. m - 1 \in 0 .. n - 1 /\ m - 1 \in 0 .. n /\ m - 1 # n
        BY <3>2, <1>2
      <4>2. g[m - 1] = f[m - 1]
        BY <4>1
      <4>3. h[m] = ApplyEvent(f[m - 1], evs[m])
        BY <4>2, <3>2
      <4>4. m # n => m \in 0 .. n - 1
        BY <1>2
      <4> QED
        BY <4>3, <4>4, <3>2, <2>4
    <3> QED
      BY <3>1, <3>2
  <2>6. g = h
    BY <2>5, Zenon
  <2>7. h = Body(b, evs, n, g)
    BY DEF Body
  <2> QED
    BY <2>6, <2>7, <1>2
<1> QED
  BY <1>3, <1>4

\* A replayed level has what the last event with it carries, another one what it
\* had before.
LEMMA ReplayFacts ==
  ASSUME NEW b, NEW evs, Len(evs) \in Nat, NEW l \in Levels
  PROVE  /\ ~Brings(evs, l) => Replayed(b, evs)[l] = b[l]
         /\ \A i \in 1 .. Len(evs) : l \in DOMAIN evs[i].levels /\ LastWith(evs, i, l) =>
              Replayed(b, evs)[l] = evs[i].levels[l]
<1>1. PICK N \in Nat : N = Len(evs)
  OBVIOUS
<1>2. PICK f : f = Body(b, evs, N, f) /\ Replayed(b, evs) = f[N]
  <2>1. Replayed(b, evs) = (CHOOSE f : f = Body(b, evs, N, f))[N]
    BY <1>1, Zenon DEF Replayed, Body
  <2>2. \E f : f = Body(b, evs, N, f)
    BY BodyRuns
  <2> DEFINE c == CHOOSE f : f = Body(b, evs, N, f)
  <2>3. c = Body(b, evs, N, c)
    BY <2>2, Zenon
  <2> QED
    BY <2>1, <2>3, Zenon
<1>3. f[0] = b /\ \A m \in 1 .. N : f[m] = ApplyEvent(f[m - 1], evs[m])
  BY <1>2 DEF Body
<1>4. \A m \in 1 .. N :
        f[m][l] = IF l \in DOMAIN evs[m].levels THEN evs[m].levels[l] ELSE f[m - 1][l]
  BY <1>3, ZenonT(60) DEF ApplyEvent
<1> HIDE DEF Body
\* As long as no event has the level, it stays as it is.
<1>5. ASSUME NEW i \in 0 .. N, LastWith(evs, i, l)
      PROVE  f[N][l] = f[i][l]
  <2> DEFINE T == {m \in i .. N : f[m][l] # f[i][l]}
  <2> SUFFICES ASSUME T # {} PROVE FALSE
    <3>1. N \in i .. N
      OBVIOUS
    <3> QED
      BY <3>1
  <2>1. PICK m \in T : \A y \in T : m <= y
    <3>1. T \in SUBSET Nat
      OBVIOUS
    <3> QED
      BY <3>1, LeastNat, Zenon
  <2>2. m \in i .. N /\ f[m][l] # f[i][l]
    OBVIOUS
  <2>3. m # i
    BY <2>2
  <2>4. m - 1 \in i .. N /\ ~ (m <= m - 1) /\ m \in i + 1 .. N /\ m \in 1 .. N
    BY <2>2, <2>3
  <2>5. f[m - 1][l] = f[i][l]
    BY <2>1, <2>4
  <2>6. l \notin DOMAIN evs[m].levels
    BY <1>1, <1>5, <2>4 DEF LastWith
  <2> QED
    BY <1>4, <2>2, <2>4, <2>5, <2>6
<1>6. ASSUME ~Brings(evs, l) PROVE f[N][l] = b[l]
  <2>1. LastWith(evs, 0, l) /\ 0 \in 0 .. N
    BY <1>1, <1>6 DEF Brings, LastWith
  <2> QED
    BY <1>3, <1>5, <2>1
<1>7. ASSUME NEW i \in 1 .. N, l \in DOMAIN evs[i].levels, LastWith(evs, i, l)
      PROVE  f[N][l] = evs[i].levels[l]
  <2>1. i \in 0 .. N
    OBVIOUS
  <2> QED
    BY <1>4, <1>5, <1>7, <2>1
<1> QED
  BY <1>1, <1>2, <1>6, <1>7
-----------------------------------------------------------------------------
(* Tops of books *)

Present(b) == {l \in Levels : b[l] > 0 /\ b[l] \notin deleted}

\* The levels of P that are better than l.
Better(P, l) == {k \in P : k < l}

LEMMA TopIs ==
  ASSUME NEW b, NEW n
  PROVE  /\ DOMAIN Top(b, n) = {l \in Present(b) : Cardinality(Better(Present(b), l)) < n}
         /\ \A l \in DOMAIN Top(b, n) : Top(b, n)[l] = b[l]
         /\ Top(b, n) = [l \in DOMAIN Top(b, n) |-> b[l]]
BY Zenon DEF Top, Present, Better

\* Counting levels.
LEMMA BetterCount ==
  ASSUME NEW P, NEW Q \in SUBSET Levels, P \subseteq Q, NEW l \in Levels, NEW k \in Levels, k <= l
  PROVE  /\ IsFiniteSet(Better(P, k)) /\ IsFiniteSet(Better(Q, l))
         /\ Cardinality(Better(P, k)) \in Nat /\ Cardinality(Better(Q, l)) \in Nat
         /\ Cardinality(Better(P, k)) <= Cardinality(Better(Q, l))
<1>1. IsFiniteSet(Levels)
  BY NumLevelsAssumption, FS_Interval DEF Levels
<1>2. Better(Q, l) \in SUBSET Levels /\ Better(P, k) \in SUBSET Better(Q, l)
  <2>1. \A x \in Levels : x < k => x < l
    BY NumLevelsAssumption DEF Levels
  <2>2. \A x \in P : x \in Q /\ x \in Levels
    OBVIOUS
  <2> QED
    BY <2>1, <2>2 DEF Better
<1>3. IsFiniteSet(Better(Q, l))
  BY <1>1, <1>2, FS_Subset, Zenon
<1>4. /\ IsFiniteSet(Better(P, k))
      /\ Cardinality(Better(P, k)) <= Cardinality(Better(Q, l))
  BY <1>2, <1>3, FS_Subset, Zenon
<1> QED
  BY <1>3, <1>4, FS_CardinalityType, Zenon

\* Two books of which one has holes only below its best n levels agree at the top.
LEMMA TopsAgree ==
  ASSUME NEW s, NEW c, NEW n \in Nat,
         \A l \in Present(s) : l \in Present(c) /\ s[l] = c[l],
         \A l \in Present(c) \ Present(s) : Cardinality(Better(Present(s), l)) >= n
  PROVE  Top(s, n) = Top(c, n)
<1>1. PICK P : P = Present(s)
  OBVIOUS
<1>2. PICK Q : Q = Present(c)
  OBVIOUS
<1>3. P \subseteq Q /\ P \in SUBSET Levels /\ Q \in SUBSET Levels
  BY <1>1, <1>2 DEF Present
<1>4. ASSUME NEW l \in Q, Cardinality(Better(Q, l)) < n
      PROVE  l \in P /\ Cardinality(Better(P, l)) < n
  <2>1. /\ Cardinality(Better(P, l)) \in Nat /\ Cardinality(Better(Q, l)) \in Nat
        /\ Cardinality(Better(P, l)) <= Cardinality(Better(Q, l))
    <3>1. l \in Levels /\ l <= l
      BY <1>3, NumLevelsAssumption DEF Levels
    <3> QED
      BY <1>3, <3>1, BetterCount
  <2>2. Cardinality(Better(P, l)) < n
    BY <1>4, <2>1
  <2>3. l \in P
    BY <1>1, <1>2, <2>1, <2>2
  <2> QED
    BY <2>2, <2>3
<1>5. ASSUME NEW l \in P, Cardinality(Better(P, l)) < n
      PROVE  l \in Q /\ Cardinality(Better(Q, l)) < n
  <2>0. l \in Levels /\ l <= l /\ l \in Q
    BY <1>3, NumLevelsAssumption DEF Levels
  <2>1. CASE \E k \in Q \ P : k < l
    <3>1. PICK k \in Q \ P : k < l
      BY <2>1
    <3>2. k \in Levels /\ k <= l
      BY <1>3, <2>0, <3>1, NumLevelsAssumption DEF Levels
    <3>3. Cardinality(Better(P, k)) >= n
      BY <1>1, <1>2
    <3>4. /\ Cardinality(Better(P, k)) \in Nat /\ Cardinality(Better(P, l)) \in Nat
          /\ Cardinality(Better(P, k)) <= Cardinality(Better(P, l))
      BY <1>3, <2>0, <3>2, BetterCount
    <3> QED
      BY <1>5, <3>3, <3>4
  <2>2. CASE \A k \in Q \ P : ~(k < l)
    <3>1. Better(Q, l) = Better(P, l)
      BY <1>3, <2>2 DEF Better
    <3> QED
      BY <1>5, <2>0, <3>1
  <2> QED
    BY <2>1, <2>2
<1>6. DOMAIN Top(s, n) = {l \in P : Cardinality(Better(P, l)) < n}
  <2>1. DOMAIN Top(s, n) = {l \in Present(s) : Cardinality(Better(Present(s), l)) < n}
    BY TopIs, Zenon
  <2> QED
    BY <1>1, <2>1
<1>7. DOMAIN Top(c, n) = {l \in Q : Cardinality(Better(Q, l)) < n}
  <2>1. DOMAIN Top(c, n) = {l \in Present(c) : Cardinality(Better(Present(c), l)) < n}
    BY TopIs, Zenon
  <2> QED
    BY <1>2, <2>1
<1>8. DOMAIN Top(s, n) = DOMAIN Top(c, n)
  BY <1>4, <1>5, <1>6, <1>7, Zenon
<1>9. PICK D : D = DOMAIN Top(s, n)
  OBVIOUS
<1>10. \A l \in D : s[l] = c[l]
  BY <1>1, <1>6, <1>9
<1>11. Top(s, n) = [l \in D |-> s[l]] /\ Top(c, n) = [l \in D |-> c[l]]
  <2>1. /\ Top(s, n) = [l \in DOMAIN Top(s, n) |-> s[l]]
        /\ Top(c, n) = [l \in DOMAIN Top(c, n) |-> c[l]]
    BY TopIs, Zenon
  <2> QED
    BY <1>8, <1>9, <2>1
<1>12. [l \in D |-> s[l]] = [l \in D |-> c[l]]
  BY <1>10, Zenon
<1> QED
  BY <1>11, <1>12, Zenon

\* What a snapshot of SnapshotDepth levels was too short to have lies below the
\* levels that are compared: of those that were better at the snapshot, only the
\* ones deleted since are gone.
LEMMA HolesAreDeep ==
  ASSUME NEW s, NEW c, NEW e, NEW L \in Nat,
         Present(s) \subseteq Present(c),
         \A l \in Present(c) \ Present(s) :
           l \in Present(e) /\ ~(Cardinality(Better(Present(e), l)) < SnapshotDepth),
         \A l \in Present(e) : l \in Present(c) \/ (c[l] \in deleted /\ c[l] > L),
         \A l, k \in Levels : c[l] = c[k] /\ c[l] > L => l = k,
         IsFiniteSet(deleted), Cardinality({n \in deleted : n > L}) <= SnapshotDepth - CheckLevels
  PROVE  \A l \in Present(c) \ Present(s) : Cardinality(Better(Present(s), l)) >= CheckLevels
<1>1. PICK P : P = Present(s)
  OBVIOUS
<1>2. PICK Q : Q = Present(c)
  OBVIOUS
<1>3. PICK R : R = Present(e)
  OBVIOUS
<1>4. P \subseteq Q /\ P \in SUBSET Levels /\ Q \in SUBSET Levels /\ R \in SUBSET Levels
  BY <1>1, <1>2, <1>3 DEF Present
<1> SUFFICES ASSUME NEW h \in Q \ P PROVE Cardinality(Better(P, h)) >= CheckLevels
  BY <1>1, <1>2
\* The best hole.
<1>5. PICK l \in Q \ P : \A k \in Q \ P : l <= k
  <2>1. Q \ P \in SUBSET Nat /\ Q \ P # {}
    BY <1>4, NumLevelsAssumption DEF Levels
  <2> QED
    BY <2>1, LeastNat, Zenon
<1>6. /\ l \in Levels /\ h \in Levels /\ l <= h /\ l \in R
      /\ ~(Cardinality(Better(R, l)) < SnapshotDepth)
  BY <1>1, <1>2, <1>3, <1>4, <1>5
<1>7. Better(Q, l) = Better(P, l)
  <2>1. \A k \in Q : k < l => k \in P
    BY <1>4, <1>5, <1>6, NumLevelsAssumption DEF Levels
  <2> QED
    BY <1>4, <2>1, Zenon DEF Better
<1>8. PICK A : A = Better(R, l)
  OBVIOUS
<1>9. PICK D : D = {n \in deleted : n > L}
  OBVIOUS
<1>10. IsFiniteSet(A) /\ Cardinality(A) \in Nat /\ A \in SUBSET Levels /\ A \subseteq R
       /\ \A k \in A : k < l
  <2>1. l <= l
    BY <1>6, NumLevelsAssumption DEF Levels
  <2>2. IsFiniteSet(A) /\ Cardinality(A) \in Nat
    BY <1>4, <1>6, <1>8, <2>1, BetterCount
  <2> QED
    BY <1>4, <1>8, <2>2 DEF Better
<1>11. IsFiniteSet(D) /\ Cardinality(D) \in Nat
  <2>1. D \in SUBSET deleted
    BY <1>9
  <2> QED
    BY <2>1, FS_Subset, FS_CardinalityType
\* Those that are gone are different deletions.
<1>12. IsFiniteSet(A \ Q) /\ Cardinality(A \ Q) \in Nat /\ Cardinality(A \ Q) <= Cardinality(D)
  <2> DEFINE f == [k \in A \ Q |-> c[k]]
  <2>1. \A k \in A \ Q : c[k] \in D /\ c[k] > L /\ k \in Levels
    BY <1>2, <1>3, <1>9, <1>10
  <2>2. f \in [A \ Q -> D]
    BY <2>1
  <2>3. \A x, y \in A \ Q : f[x] = f[y] => x = y
    BY <2>1
  <2>4. f \in Injection(A \ Q, D)
    <3>1. DOMAIN f = A \ Q
      OBVIOUS
    <3> HIDE DEF f
    <3> QED
      BY <2>2, <2>3, <3>1, Zenon DEF Injection, IsInjective
  <2> HIDE DEF f
  <2> QED
    BY <1>11, <2>4, FS_Injection, FS_CardinalityType, Zenon
<1>13. Cardinality(A \cap Q) \in Nat /\ Cardinality(A \ Q) = Cardinality(A) - Cardinality(A \cap Q)
  BY <1>10, FS_Difference, FS_Intersection, FS_CardinalityType, Zenon
<1>14. /\ Cardinality(Better(P, l)) \in Nat /\ Cardinality(A \cap Q) <= Cardinality(Better(P, l))
  <2>1. l <= l
    BY <1>6, NumLevelsAssumption DEF Levels
  <2>2. IsFiniteSet(Better(Q, l)) /\ Cardinality(Better(Q, l)) \in Nat
    BY <1>4, <1>6, <2>1, BetterCount
  <2>3. A \cap Q \in SUBSET Better(Q, l)
    BY <1>10 DEF Better
  <2>4. Cardinality(A \cap Q) <= Cardinality(Better(Q, l))
    BY <2>2, <2>3, FS_Subset, Zenon
  <2> QED
    BY <1>7, <2>2, <2>4
<1>15. /\ Cardinality(Better(P, h)) \in Nat
       /\ Cardinality(Better(P, l)) <= Cardinality(Better(P, h))
  BY <1>4, <1>6, BetterCount
<1>16. ~(Cardinality(A) < SnapshotDepth) /\ Cardinality(D) <= SnapshotDepth - CheckLevels
  BY <1>6, <1>8, <1>9
<1> QED
  BY <1>10, <1>11, <1>12, <1>13, <1>14, <1>15, <1>16, DepthAssumption
-----------------------------------------------------------------------------
(* The comparison *)

\* A level that some event has is in a last one.
LEMMA LastCarrier ==
  ASSUME NEW s, Len(s) \in Nat, NEW l, Brings(s, l)
  PROVE  \E i \in 1 .. Len(s) : l \in DOMAIN s[i].levels /\ LastWith(s, i, l)
<1>1. PICK N \in Nat : N = Len(s)
  OBVIOUS
<1> DEFINE T == {m \in 0 .. N : \E i \in 1 .. N : m = N - i /\ l \in DOMAIN s[i].levels}
<1>2. PICK i0 \in 1 .. N : l \in DOMAIN s[i0].levels
  BY <1>1 DEF Brings
<1>3. N - i0 \in T
  <2>1. N - i0 \in 0 .. N
    BY <1>1
  <2> QED
    BY <1>2, <2>1
<1>4. T \in SUBSET Nat /\ T # {}
  <2>1. \A x \in 0 .. N : x \in Nat
    OBVIOUS
  <2>2. \A x \in T : x \in 0 .. N
    OBVIOUS
  <2> HIDE DEF T
  <2> QED
    BY <1>3, <2>1, <2>2, Zenon
<1>5. PICK m \in T : \A y \in T : m <= y
  BY <1>4, LeastNat, Zenon
<1>6. PICK i \in 1 .. N : m = N - i /\ l \in DOMAIN s[i].levels
  BY <1>5
<1>7. ASSUME NEW j \in i + 1 .. N PROVE l \notin DOMAIN s[j].levels
  <2>1. j \in 1 .. N /\ N - j \in 0 .. N /\ ~(N - i <= N - j)
    BY <1>6
  <2> QED
    BY <1>5, <1>6, <2>1, Zenon
<1> QED
  BY <1>1, <1>6, <1>7 DEF LastWith

\* The replay makes of the snapshot the undamaged book, as far down as the tops
\* are compared.
LEMMA ScratchIsLive ==
  ASSUME IInv, NEW msg, NEW L \in Nat, L = msg.last_update_id, L <= LastId,
         msg.levels = Top(ExchangeBook(L), SnapshotDepth), Comparable(msg),
         NEW b \in 1 .. Len(ring), IsFirstPast(ring, b, L), Reaches(ring[b], L)
  PROVE  Top(Replayed(Seeded(msg), SubSeq(ring, b, Len(ring))), CheckLevels)
           = Top(clean, CheckLevels)
<1>1. PICK t : t = SubSeq(ring, b, Len(ring))
  BY Zenon
<1>2. PICK s : s = Replayed(Seeded(msg), t)
  BY Zenon
<1>3. PICK e : e = ExchangeBook(L)
  BY Zenon
<1>4. PICK N : N = Len(ring)
  BY Zenon
<1>5. /\ N \in Nat /\ b \in 1 .. N /\ \A i \in 1 .. N : ring[i] \in Event
      /\ \A i \in 1 .. N : ring[i].u \in Nat /\ ring[i].U \in Nat
  <2>1. ring \in Seq(Event) /\ N \in Nat
    BY <1>4 DEF IInv, TypeOK
  <2>2. \A i \in 1 .. N : ring[i] \in Event
    BY <1>4, <2>1
  <2>3. \A ev \in Event : ev.u \in Nat /\ ev.U \in Nat
    BY MaxUpdatesAssumption, StartAssumption DEF Event, Ids
  <2> QED
    BY <1>4, <2>1, <2>2, <2>3
<1>6. /\ Len(t) = N - b + 1 /\ Len(t) \in Nat
      /\ \A i \in 1 .. Len(t) : t[i] = ring[b + i - 1]
  <2>1. ring \in Seq(Event) /\ N + 1 - b >= 0 /\ b \in Int /\ N \in Int
    BY <1>5 DEF IInv, TypeOK
  <2> QED
    BY <1>1, <1>4, <1>5, <2>1
<1>7. LastId \in Nat
  BY DEF IInv, TypeOK, LastId
<1>8. /\ ring[b].u \in L .. LastId /\ ring[b].u > L /\ ring[b].U <= L + 1
      /\ ring[b].kind = "DepthDiff"
  <2>1. ring[b].u > L /\ ring[b].U <= L + 1 /\ ring[b].kind = "DepthDiff"
    BY DEF IsFirstPast, Past, Reaches
  <2>2. ring[b].u <= LastId
    BY <1>4, <1>5 DEF IInv, RingOK, EventOK
  <2> QED
    BY <1>5, <1>7, <2>1, <2>2
\* History at L and later.
<1>9. /\ \A m \in L .. LastId : \A l \in Levels :
           ExchangeBook(m)[l] = e[l] \/ ExchangeBook(m)[l] > L
      /\ \A m \in 0 .. LastId : \A l \in Levels : ExchangeBook(m)[l] \in 0 .. m
  <2>1. \A m \in L .. LastId : m \in 0 .. LastId /\ L \in 0 .. m
    BY <1>7
  <2> QED
    BY <1>3, <2>1, Zenon DEF IInv, HistoryOK
\* Either a level is replayed, ...
<1>10. ASSUME NEW l \in Levels, Brings(t, l)
       PROVE  s[l] = clean[l] /\ \E m \in L .. LastId : clean[l] = ExchangeBook(m)[l]
  <2>1. PICK i \in 1 .. Len(t) : l \in DOMAIN t[i].levels /\ LastWith(t, i, l)
    BY <1>6, <1>10, LastCarrier
  <2>2. s[l] = t[i].levels[l]
    BY <1>2, <1>6, <2>1, ReplayFacts
  <2>3. PICK j : j = b + i - 1
    BY Zenon
  <2>4. j \in 1 .. N /\ j \in b .. N /\ t[i] = ring[j] /\ i \in Nat
    <3>1. t[i] = ring[j] /\ i \in 1 .. N - b + 1
      BY <1>6, <2>1, <2>3
    <3>2. j \in 1 .. N /\ j \in b .. N /\ i \in Nat
      BY <1>5, <2>3, <3>1
    <3> QED
      BY <3>1, <3>2
  <2>5. LastWith(ring, j, l)
    <3> SUFFICES ASSUME NEW k \in j + 1 .. N PROVE l \notin DOMAIN ring[k].levels
      BY <1>4 DEF LastWith
    <3>1. PICK q : q = k - b + 1
      BY Zenon
    <3>2. q \in i + 1 .. Len(t) /\ q \in 1 .. Len(t) /\ b + q - 1 = k
      BY <1>5, <1>6, <2>3, <2>4, <3>1
    <3> QED
      BY <1>6, <2>1, <3>2, Zenon DEF LastWith
  <2>6. clean[l] = ring[j].levels[l] /\ ring[j].levels[l] = ExchangeBook(ring[j].u)[l]
        /\ ring[j].u <= LastId /\ ring[b].u <= ring[j].u
    BY <1>4, <1>5, <2>1, <2>4, <2>5 DEF IInv, RingOK, EventOK
  <2>7. ring[j].u \in L .. LastId
    BY <1>5, <1>7, <1>8, <2>4, <2>6, SMTT(40)
  <2> QED
    BY <2>2, <2>4, <2>6, <2>7
\* ... or it is as it was at the snapshot.
<1>11. ASSUME NEW l \in Levels, ~Brings(t, l)
       PROVE  /\ clean[l] = e[l]
              /\ s[l] = IF l \in DOMAIN Top(e, SnapshotDepth) THEN e[l] ELSE 0
  <2>1. \A j \in b .. N : l \notin DOMAIN ring[j].levels
    <3> SUFFICES ASSUME NEW j \in b .. N PROVE l \notin DOMAIN ring[j].levels
      OBVIOUS
    <3>1. PICK q : q = j - b + 1
      BY Zenon
    <3>2. q \in 1 .. Len(t) /\ b + q - 1 = j
      BY <1>5, <1>6, <3>1
    <3> QED
      BY <1>6, <1>11, <3>2, ZenonT(60) DEF Brings
  <2>2. l \notin ChangedLevels(ring[b].U, ring[b].u)
    <3>1. b \in DOMAIN ring
      BY <1>4, <1>5 DEF IInv, TypeOK
    <3>2. \A k \in ChangedLevels(ring[b].U, ring[b].u) :
            \E j \in b .. N : ring[j].u = ring[b].u /\ k \in DOMAIN ring[j].levels
      BY <1>4, <3>1, Zenon DEF Comparable, BracketIsWhole
    <3> QED
      BY <2>1, <3>2, Zenon
  <2>3. LastWith(ring, b, l)
    <3>1. \A j \in b + 1 .. N : j \in b .. N
      BY <1>5
    <3> QED
      BY <1>4, <2>1, <3>1 DEF LastWith
  <2>4. clean[l] = ExchangeBook(ring[b].u)[l]
    BY <1>4, <1>5, <1>8, <2>2, <2>3 DEF IInv, RingOK
  <2>5. ~(ExchangeBook(ring[b].u)[l] >= ring[b].U)
    BY <2>2 DEF ChangedLevels
  <2>6. ExchangeBook(ring[b].u)[l] \in Nat
    <3>1. ring[b].u \in 0 .. LastId
      BY <1>8
    <3>2. ExchangeBook(ring[b].u)[l] \in 0 .. ring[b].u
      BY <1>9, <3>1, Zenon
    <3> QED
      BY <3>2
  <2>7. ~(ExchangeBook(ring[b].u)[l] > L)
    BY <1>5, <1>8, <2>5, <2>6
  <2>8. clean[l] = e[l]
    BY <1>8, <1>9, <2>4, <2>7, Zenon
  <2>9. s[l] = Seeded(msg)[l]
    BY <1>2, <1>6, <1>11, ReplayFacts
  <2>10. Seeded(msg)[l] = IF l \in DOMAIN Top(e, SnapshotDepth) THEN Top(e, SnapshotDepth)[l] ELSE 0
    BY <1>3 DEF Seeded, ApplyEvent, EmptyBook
  <2>11. l \in DOMAIN Top(e, SnapshotDepth) => Top(e, SnapshotDepth)[l] = e[l]
    BY Zenon DEF Top
  <2> QED
    BY <2>8, <2>9, <2>10, <2>11
<1>12. ASSUME NEW l \in Levels
       PROVE  /\ \E m \in L .. LastId : clean[l] = ExchangeBook(m)[l]
              /\ \/ s[l] = clean[l]
                 \/ s[l] = 0 /\ clean[l] = e[l] /\ l \notin DOMAIN Top(e, SnapshotDepth)
  <2>1. L \in L .. LastId
    BY <1>7
  <2> QED
    BY <1>3, <1>10, <1>11, <2>1
<1>13. \A l \in Present(s) : l \in Present(clean) /\ s[l] = clean[l]
  BY <1>12 DEF Present
<1>14. \A l \in Present(clean) \ Present(s) :
         l \in Present(e) /\ ~(Cardinality(Better(Present(e), l)) < SnapshotDepth)
  <2> SUFFICES ASSUME NEW l \in Present(clean) \ Present(s)
               PROVE  l \in Present(e) /\ ~(Cardinality(Better(Present(e), l)) < SnapshotDepth)
    OBVIOUS
  <2>1. l \in Levels /\ clean[l] = e[l] /\ l \notin DOMAIN Top(e, SnapshotDepth)
    BY <1>12 DEF Present
  <2>2. l \in Present(e)
    BY <2>1 DEF Present
  <2>3. DOMAIN Top(e, SnapshotDepth)
          = {k \in Present(e) : Cardinality(Better(Present(e), k)) < SnapshotDepth}
    BY TopIs, Zenon
  <2> QED
    BY <2>1, <2>2, <2>3, Zenon
<1>15. \A l \in Present(e) : l \in Present(clean) \/ (clean[l] \in deleted /\ clean[l] > L)
  <2> SUFFICES ASSUME NEW l \in Present(e)
               PROVE  l \in Present(clean) \/ (clean[l] \in deleted /\ clean[l] > L)
    OBVIOUS
  <2>1. l \in Levels /\ e[l] > 0 /\ e[l] \notin deleted
    BY DEF Present
  <2>2. PICK m \in L .. LastId : clean[l] = ExchangeBook(m)[l]
    BY <1>12, <2>1
  <2>3. CASE clean[l] = e[l]
    BY <2>1, <2>3 DEF Present
  <2>4. CASE clean[l] > L
    <3>1. m \in 0 .. LastId /\ m \in Nat
      BY <1>7
    <3>2. clean[l] \in Nat
      BY <1>9, <2>1, <2>2, <3>1
    <3>3. clean[l] > 0
      BY <2>4, <3>2
    <3> QED
      BY <2>1, <2>4, <3>3 DEF Present
  <2> QED
    BY <1>9, <2>1, <2>2, <2>3, <2>4
<1>16. \A l, k \in Levels : clean[l] = clean[k] /\ clean[l] > L => l = k
  <2>1. ASSUME NEW l \in Levels, NEW v, v = clean[l], v > L
        PROVE  v \in 1 .. LastId /\ ExchangeBook(v)[l] = v
    <3>1. PICK m \in L .. LastId : clean[l] = ExchangeBook(m)[l]
      BY <1>12
    <3>2. m \in 0 .. LastId /\ v \in 0 .. m
      BY <1>7, <1>9, <2>1, <3>1
    <3>3. v \in 1 .. LastId /\ ~(v > v)
      BY <1>7, <2>1, <3>2
    <3>4. ExchangeBook(m)[l] = ExchangeBook(v)[l] \/ ExchangeBook(m)[l] > v
      BY <3>2, Zenon DEF IInv, HistoryOK
    <3> QED
      BY <2>1, <3>1, <3>3, <3>4
  <2>2. \A n \in 1 .. LastId : \A l, k \in Levels :
          ExchangeBook(n)[l] = n /\ ExchangeBook(n)[k] = n => l = k
    BY DEF IInv, HistoryOK
  <2> QED
    BY <2>1, <2>2, Zenon
<1>17. IsFiniteSet(deleted)
  <2>1. deleted \in SUBSET (1 .. LastId) /\ IsFiniteSet(1 .. LastId)
    BY <1>7, FS_Interval DEF IInv, HistoryOK
  <2> QED
    BY <2>1, FS_Subset, Zenon
<1>18. Cardinality({n \in deleted : n > L}) <= SnapshotDepth - CheckLevels
  BY DEF Comparable, Covers
<1>19. Present(s) \subseteq Present(clean)
  BY <1>13, Zenon
<1>20. \A l \in Present(clean) \ Present(s) : Cardinality(Better(Present(s), l)) >= CheckLevels
  BY <1>14, <1>15, <1>16, <1>17, <1>18, <1>19, HolesAreDeep
<1>21. CheckLevels \in Nat
  BY DepthAssumption
<1>22. Top(s, CheckLevels) = Top(clean, CheckLevels)
  BY <1>13, <1>20, <1>21, TopsAgree
<1> QED
  BY <1>1, <1>2, <1>22, Zenon
-----------------------------------------------------------------------------
(* Facts about the events made of a message. *)

\* A message makes at least one event.
LEMMA NumFragmentsType ==
  ASSUME NEW S \in SUBSET Levels
  PROVE  NumFragments(S) \in Nat \ {0}
<1>1. CASE S = {}
  BY <1>1 DEF NumFragments
<1>2. CASE S # {}
  <2> DEFINE m == Cardinality(S) + MaxLevelsPerEvent - 1
             q == m \div MaxLevelsPerEvent
  <2>1. IsFiniteSet(Levels)
    BY NumLevelsAssumption, FS_Interval DEF Levels
  <2>2. IsFiniteSet(S)
    BY <2>1, FS_Subset
  <2>3. Cardinality(S) \in Nat /\ Cardinality(S) # 0
    BY <1>2, <2>2, FS_CardinalityType, FS_EmptySet
  <2>4. m \in Nat /\ m >= MaxLevelsPerEvent
    BY <2>3, PerEventAssumption
  <2>5. q \in Nat /\ m % MaxLevelsPerEvent \in 0 .. MaxLevelsPerEvent - 1
        /\ m = q * MaxLevelsPerEvent + (m % MaxLevelsPerEvent)
    <3> HIDE DEF m
    <3> QED
      BY <2>4, PerEventAssumption, SMT
  <2>6. q # 0
    <3> SUFFICES ASSUME q = 0 PROVE FALSE
      OBVIOUS
    <3> HIDE DEF m, q
    <3>1. q * MaxLevelsPerEvent = 0
      BY PerEventAssumption
    <3> QED
      BY <2>4, <2>5, <3>1, PerEventAssumption
  <2>7. NumFragments(S) = q
    BY <1>2 DEF NumFragments
  <2> QED
    BY <2>5, <2>6, <2>7
<1> QED
  BY <1>1, <1>2

\* The exchange's book at an update it has made.
LEMMA BookType ==
  ASSUME TypeOK, NEW n \in 0 .. LastId
  PROVE  ExchangeBook(n) \in [Levels -> Ids]
<1>1. CASE n = 0
  BY <1>1, MaxUpdatesAssumption DEF ExchangeBook, EmptyBook, Ids
<1>2. CASE n # 0
  <2>1. n \in 1 .. Len(books)
    BY <1>2 DEF LastId, TypeOK
  <2> QED
    BY <1>2, <2>1 DEF ExchangeBook, TypeOK
<1> QED
  BY <1>1, <1>2

\* Every level of a message is in one of its events.
LEMMA FragmentsCover ==
  ASSUME NEW S \in SUBSET Levels, NEW l \in S
  PROVE  \E i \in 1 .. NumFragments(S) : l \in FragmentLevels(S, i)
<1> DEFINE M == MaxLevelsPerEvent
           c == Cardinality(S)
           r == Cardinality({k \in S : k < l})
<1>0. IsFiniteSet(Levels)
  BY NumLevelsAssumption, FS_Interval DEF Levels
<1>1. IsFiniteSet(S)
  BY <1>0, FS_Subset
<1>2. r \in Nat /\ c \in Nat /\ r < c
  <2>1. /\ {k \in S : k < l} \subseteq S /\ l \notin {k \in S : k < l}
    BY DEF Levels
  <2> QED
    BY <1>1, <2>1, FS_Subset, FS_CardinalityType, FS_Subset
<1>3. M \in Nat /\ M > 0
  BY PerEventAssumption
<1> HIDE DEF r, c, M
<1>4. r \div M \in Nat /\ r \div M + 1 <= (c + M - 1) \div M
  <2> DEFINE x == c + M - 1
             qx == x \div M
             qr == r \div M
  <2>1. x \in Nat /\ x >= r + M
    BY <1>2, <1>3
  <2>2. qr \in Nat /\ qx \in Nat
    <3> HIDE DEF x
    <3> QED
      BY <1>2, <1>3, <2>1
  <2>3. /\ r % M \in 0 .. M - 1 /\ r = M * qr + (r % M)
        /\ x % M \in 0 .. M - 1 /\ x = M * qx + (x % M)
    <3> HIDE DEF x
    <3> QED
      BY <1>2, <1>3, <2>1
  <2> HIDE DEF x, qx, qr
  <2>4. SUFFICES ASSUME qx <= qr PROVE FALSE
    BY <2>2 DEF qr, qx, x
  <2>5. M * qx <= M * qr
    BY <1>3, <2>2, <2>4
  <2>6. M * qx \in Int /\ M * qr \in Int
    BY <1>3, <2>2
  <2>7. \A y, z \in Int : y <= z /\ r = z + (r % M) /\ x = y + (x % M) => x < r + M
    BY <1>2, <1>3, <2>1, <2>3
  <2> QED
    BY <1>2, <1>3, <2>1, <2>3, <2>5, <2>6, <2>7
<1>5. NumFragments(S) = (c + M - 1) \div M
  BY DEF NumFragments, c, M
<1>6. r \div M + 1 \in 1 .. NumFragments(S)
  BY <1>4, <1>5, NumFragmentsType
<1>7. l \in FragmentLevels(S, r \div M + 1)
  <2>1. r \div M = (r \div M + 1) - 1
    BY <1>4
  <2> QED
    BY <2>1 DEF FragmentLevels, r, M
<1> QED
  BY <1>6, <1>7

\* The events of one message that brings the levels S.
IsGroup(g, kind, U, u, S) ==
  /\ g \in Seq(Event) /\ Len(g) \in Nat \ {0} /\ g # << >>
  /\ IncomingOK(g)
  /\ g[1].kind = kind /\ g[1].U = U /\ g[1].u = u /\ g[1].start = (kind = "Snapshot")
  /\ \A l \in S : Brings(g, l)

\* A message about updates the exchange has made becomes a sequence of events that
\* carries all of it.
LEMMA GroupFacts ==
  ASSUME TypeOK, HistoryOK, NEW kind \in {"Snapshot", "DepthDiff"}, NEW U \in Ids,
         NEW u \in 0 .. LastId, NEW S \in SUBSET Levels,
         NEW g, g = EventGroup(kind, U, u, S)
  PROVE  IsGroup(g, kind, U, u, S)
<1> SUFFICES /\ g \in Seq(Event) /\ Len(g) \in Nat \ {0} /\ g # << >>
             /\ IncomingOK(g)
             /\ g[1].kind = kind /\ g[1].U = U /\ g[1].u = u /\ g[1].start = (kind = "Snapshot")
             /\ \A l \in S : Brings(g, l)
  BY Zenon DEF IsGroup
<1> DEFINE n == NumFragments(S)
           lv(i) == [l \in FragmentLevels(S, i) |-> ExchangeBook(u)[l]]
           e(i) == [kind |-> kind, U |-> U, u |-> u, start |-> kind = "Snapshot" /\ i = 1,
                    cont |-> i < n, levels |-> lv(i)]
<1>1. n \in Nat \ {0}
  BY NumFragmentsType
<1>2. u \in Ids
  BY MaxUpdatesAssumption DEF TypeOK, HistoryOK, LastId, Ids
<1>3. ASSUME NEW i \in 1 .. n PROVE e(i) \in Event
  <2>1. FragmentLevels(S, i) \in SUBSET Levels
    BY DEF FragmentLevels
  <2>2. lv(i) \in [FragmentLevels(S, i) -> Ids]
    BY <2>1, BookType
  <2>3. lv(i) \in Contents
    BY <2>1, <2>2 DEF Contents
  <2> HIDE DEF lv, n
  <2> QED
    BY <1>2, <2>3 DEF Event
<1>4. g = [i \in 1 .. n |-> e(i)]
  BY DEF EventGroup
<1>5. \A i \in 1 .. n : g[i] = e(i)
  BY <1>4
<1> HIDE DEF e, n
<1>6. g \in Seq(Event) /\ Len(g) = n
  BY <1>1, <1>3, <1>4
<1>7. g # << >>
  BY <1>1, <1>6, EmptySeq
<1>8. ASSUME NEW i \in 1 .. n
      PROVE  /\ g[i].kind = kind /\ g[i].U = U /\ g[i].u = u
             /\ g[i].start = (kind = "Snapshot" /\ i = 1) /\ g[i].cont = (i < n)
             /\ g[i].levels = lv(i)
  <2>1. g[i] = e(i)
    BY <1>5
  <2> HIDE DEF lv
  <2>2. e(i).kind = kind /\ e(i).U = U /\ e(i).u = u /\ e(i).levels = lv(i)
    BY DEF e
  <2>3. e(i).start = (kind = "Snapshot" /\ i = 1) /\ e(i).cont = (i < n)
    BY Zenon DEF e
  <2> QED
    BY <2>1, <2>2, <2>3, Zenon
<1>9. 1 \in 1 .. n
  BY <1>1
<1>10. IncomingOK(g)
  <2>1. u <= LastId
    OBVIOUS
  <2>2. ASSUME NEW i \in 1 .. n
        PROVE  \A l \in DOMAIN g[i].levels : g[i].levels[l] = ExchangeBook(g[i].u)[l]
    <3>1. g[i].levels = lv(i) /\ g[i].u = u
      BY <1>8
    <3>2. \A l \in DOMAIN lv(i) : lv(i)[l] = ExchangeBook(u)[l]
      OBVIOUS
    <3> HIDE DEF lv
    <3> QED
      BY <3>1, <3>2, Zenon
  <2>3. \A i \in 1 .. n : EventOK(g[i])
    BY <1>8, <2>1, <2>2, Zenon DEF EventOK
  <2>4. ASSUME NEW i \in 1 .. n
        PROVE  /\ g[i].kind = g[1].kind /\ g[i].U = g[1].U /\ g[i].u = g[1].u
               /\ g[i].cont = (i < n)
               /\ g[i].start => i = 1 /\ g[i].kind = "Snapshot"
    BY <1>8, <1>9, Zenon
  <2> QED
    BY <1>6, <2>3, <2>4, Zenon DEF IncomingOK
<1>11. ASSUME NEW l \in S PROVE Brings(g, l)
  <2>1. PICK i \in 1 .. n : l \in FragmentLevels(S, i)
    BY FragmentsCover DEF n
  <2>2. l \in DOMAIN g[i].levels
    BY <1>8, <2>1, Zenon
  <2> QED
    BY <1>6, <2>2 DEF Brings
<1>12. g[1].start = (kind = "Snapshot")
  BY <1>8, <1>9, Zenon
<1> QED
  BY <1>1, <1>6, <1>7, <1>8, <1>9, <1>10, <1>11, <1>12, Zenon
-----------------------------------------------------------------------------
(* The exchange's history *)

\* The exchange adds updates and changes none.
HistoryGrows ==
  /\ LastId \in Nat /\ LastId' \in Nat /\ LastId <= LastId'
  /\ \A n \in 0 .. LastId : ExchangeBook(n)' = ExchangeBook(n)

\* What an event carries stays what the exchange had.
LEMMA EventStays ==
  ASSUME HistoryGrows, NEW e \in Event, EventOK(e)
  PROVE  EventOK(e)' /\ ExchangeBook(e.u)' = ExchangeBook(e.u)
<1>1. e.u \in 0 .. LastId
  BY MaxUpdatesAssumption DEF HistoryGrows, EventOK, Event, Ids
<1>2. ExchangeBook(e.u)' = ExchangeBook(e.u)
  BY <1>1 DEF HistoryGrows
<1>3. e.u <= LastId'
  BY <1>1 DEF HistoryGrows
<1> QED
  BY <1>2, <1>3 DEF EventOK

\* What is known of the ring and of the events that come stays true.
LEMMA RingStays ==
  ASSUME HistoryGrows, NEW r \in Seq(Event), NEW c, RingOK(r, c), ring' = r, clean' = c
  PROVE  RingOK(ring, clean)'
<1>1. Len(r) \in Nat /\ \A i \in 1 .. Len(r) : r[i] \in Event
  OBVIOUS
<1>2. ASSUME NEW i \in 1 .. Len(r)
      PROVE  EventOK(r[i])' /\ ExchangeBook(r[i].u)' = ExchangeBook(r[i].u)
  <2>1. PICK e \in Event : e = r[i]
    BY <1>1
  <2>2. EventOK(e)
    BY <2>1 DEF RingOK
  <2>3. EventOK(e)' /\ ExchangeBook(e.u)' = ExchangeBook(e.u)
    BY <2>2, EventStays
  <2> QED
    BY <2>1, <2>3
<1>3. \A i \in 1 .. Len(r) : EventOK(r[i])'
  BY <1>2
<1>4. \A i \in 1 .. Len(r) : r[i].kind = "DepthDiff" =>
        \A l \in Levels \ ChangedLevels(r[i].U, r[i].u)' :
          LastWith(r, i, l) => c[l] = ExchangeBook(r[i].u)'[l]
  BY <1>2, ZenonT(30) DEF RingOK, ChangedLevels
<1>5. RingOK(r, c)'
  BY <1>3, <1>4 DEF RingOK, LastWith
<1> QED
  BY <1>5 DEF RingOK, LastWith, EventOK, ChangedLevels, ExchangeBook, LastId

LEMMA IncomingStays ==
  ASSUME HistoryGrows, NEW s \in Seq(Event), IncomingOK(s), incoming' = s
  PROVE  IncomingOK(incoming)'
<1>1. Len(s) \in Nat /\ \A i \in 1 .. Len(s) : s[i] \in Event
  OBVIOUS
<1>2. ASSUME NEW i \in 1 .. Len(s) PROVE EventOK(s[i])'
  <2>1. PICK e \in Event : e = s[i]
    BY <1>1
  <2>2. EventOK(e)
    BY <2>1 DEF IncomingOK
  <2>3. EventOK(e)'
    BY <2>2, EventStays
  <2> QED
    BY <2>1, <2>3
<1>3. IncomingOK(s)'
  BY <1>2, Zenon DEF IncomingOK
<1> QED
  BY <1>3, Zenon DEF IncomingOK, EventOK

LEMMA StreamStays ==
  ASSUME HistoryGrows, NEW r \in Seq(Event), NEW s \in Seq(Event), NEW c,
         RingOK(r, c), IncomingOK(s), StreamOK(r, s, c), ring' = r, incoming' = s, clean' = c
  PROVE  StreamOK(ring, incoming, clean)'
<1>1. ASSUME r # << >>
      PROVE  ExchangeBook(r[Len(r)].u)' = ExchangeBook(r[Len(r)].u)
  <2>1. Len(r) \in 1 .. Len(r) /\ r[Len(r)] \in Event
    BY <1>1, EmptySeq
  <2>2. PICK e \in Event : e = r[Len(r)]
    BY <2>1, ZenonT(30)
  <2>3. EventOK(e)
    BY <2>1, <2>2 DEF RingOK
  <2>4. ExchangeBook(e.u)' = ExchangeBook(e.u)
    BY <2>3, EventStays
  <2> QED
    BY <2>2, <2>4
<1>2. ASSUME s # << >>
      PROVE  MessageLevels(s[1])' = MessageLevels(s[1])
  <2>1. 1 \in 1 .. Len(s) /\ s[1] \in Event
    BY <1>2, EmptySeq
  <2>2. PICK e \in Event : e = s[1]
    BY <2>1
  <2>3. EventOK(e)
    BY <2>1, <2>2 DEF IncomingOK
  <2>4. ExchangeBook(e.u)' = ExchangeBook(e.u)
    BY <2>3, EventStays
  <2>5. MessageLevels(e)' = MessageLevels(e)
    BY <2>4 DEF MessageLevels, PresentLevels, ChangedLevels
  <2> QED
    BY <2>2, <2>5
<1>3. CASE r # << >> /\ r[Len(r)].cont
  <2>1. SameMessageOK(r, s, c)
    BY <1>3, Zenon DEF StreamOK
  <2>2. SameMessageOK(r, s, c)'
    BY <1>1, <1>3, <2>1, ZenonT(30) DEF SameMessageOK, Brings
  <2>3. SameMessageOK(ring, incoming, clean)'
    BY <2>2 DEF SameMessageOK, Brings, ExchangeBook
  <2> QED
    BY <1>3, <2>3 DEF StreamOK
<1>4. CASE ~(r # << >> /\ r[Len(r)].cont)
  <2>1. NextMessageOK(r, s, c)
    BY <1>4, Zenon DEF StreamOK
  <2>2. NextMessageOK(r, s, c)'
    BY <1>1, <1>2, <2>1, ZenonT(30) DEF NextMessageOK, Brings
  <2>3. NextMessageOK(ring, incoming, clean)'
    BY <2>2 DEF NextMessageOK, Brings, MessageLevels, PresentLevels, ChangedLevels, ExchangeBook
  <2> QED
    BY <1>4, <2>3 DEF StreamOK
<1> QED
  BY <1>3, <1>4

\* A new update changes one level to a version newer than all others.
LEMMA HistoryNext ==
  ASSUME TypeOK, HistoryOK, NEW x \in Levels, Update(x), LastId < MaxUpdates,
         deleted' \subseteq deleted \cup {LastId + 1}
  PROVE  HistoryOK' /\ HistoryGrows /\ LastId' = LastId + 1 /\ books' \in Seq([Levels -> Ids])
<1> DEFINE top == ExchangeBook(LastId)
           b == [top EXCEPT ![x] = LastId + 1]
<1>1. LastId \in Nat /\ LastId \in 0 .. LastId /\ books \in Seq([Levels -> Ids])
  BY DEF TypeOK, LastId
<1>2. top \in [Levels -> Ids] /\ LastId + 1 \in Ids
  BY <1>1, BookType, MaxUpdatesAssumption DEF Ids
<1>2a. \A l \in Levels : top[l] \in 0 .. LastId
  BY <1>1 DEF HistoryOK
<1> HIDE DEF top
<1>3. /\ b \in [Levels -> Ids] /\ b[x] = LastId + 1
      /\ \A l \in Levels : l # x => b[l] = top[l]
  BY <1>1, <1>2
<1>4. /\ LastId' = LastId + 1 /\ books'[LastId + 1] = b
      /\ \A n \in 1 .. LastId : books'[n] = books[n]
      /\ books' \in Seq([Levels -> Ids])
  BY <1>1, <1>3 DEF Update, LastId, top
<1> HIDE DEF b
<1> DEFINE New(n) == IF n = 0 THEN EmptyBook ELSE books'[n]
<1>5. ASSUME NEW n \in 0 .. LastId PROVE New(n) = ExchangeBook(n)
  BY <1>4 DEF ExchangeBook
<1>6. New(LastId + 1) = b
  BY <1>1, <1>4
<1>7. \A n \in 0 .. LastId + 1 : n \in 0 .. LastId \/ n = LastId + 1
  BY <1>1
<1>8. \A n : ExchangeBook(n)' = New(n)
  BY DEF ExchangeBook
<1> HIDE DEF New
<1>9. HistoryGrows
  BY <1>1, <1>4, <1>5, <1>8 DEF HistoryGrows
<1>10. ASSUME NEW n \in 0 .. LastId + 1, NEW l \in Levels PROVE New(n)[l] \in 0 .. n
  <2>1. CASE n \in 0 .. LastId
    BY <1>5, <2>1 DEF HistoryOK
  <2>2. CASE n = LastId + 1
    BY <1>1, <1>2a, <1>3, <1>6, <2>2
  <2> QED
    BY <1>7, <2>1, <2>2
<1>11. ASSUME NEW n \in 0 .. LastId + 1, NEW m \in 0 .. n, NEW l \in Levels
      PROVE  New(n)[l] = New(m)[l] \/ New(n)[l] > m
  <2>1. CASE n \in 0 .. LastId
    <3>1. m \in 0 .. LastId
      BY <1>1, <2>1
    <3> QED
      BY <1>5, <2>1, <3>1 DEF HistoryOK
  <2>2. CASE m = n
    BY <2>2
  <2>3. CASE n = LastId + 1 /\ m \in 0 .. LastId
    <3>1. New(m) = ExchangeBook(m)
      BY <1>5, <2>3
    <3>2. top[l] = ExchangeBook(m)[l] \/ top[l] > m
      BY <1>1, <2>3 DEF HistoryOK, top
    <3>3. LastId + 1 > m
      BY <1>1, <2>3
    <3> QED
      BY <1>3, <1>6, <2>3, <3>1, <3>2, <3>3
  <2>4. m \in 0 .. LastId \/ m = n
    BY <1>1, <1>7
  <2> QED
    BY <1>7, <2>1, <2>2, <2>3, <2>4
<1>12. ASSUME NEW n \in 1 .. LastId + 1, NEW l \in Levels, NEW k \in Levels,
              New(n)[l] = n, New(n)[k] = n
       PROVE  l = k
  <2>1. CASE n \in 1 .. LastId
    <3>1. n \in 0 .. LastId
      BY <2>1
    <3> QED
      BY <1>5, <1>12, <2>1, <3>1 DEF HistoryOK
  <2>2. CASE n = LastId + 1
    <3>1. \A y \in 0 .. LastId : y # LastId + 1
      BY <1>1
    <3> QED
      BY <1>2a, <1>3, <1>6, <1>12, <2>2, <3>1
  <2> QED
    BY <1>1, <2>1, <2>2
<1>13. deleted' \subseteq 1 .. LastId + 1 /\ LastId + 1 <= MaxUpdates
  <2>1. \A y \in 1 .. LastId : y \in 1 .. LastId + 1
    BY <1>1
  <2>2. LastId + 1 \in 1 .. LastId + 1 /\ LastId + 1 <= MaxUpdates
    BY <1>1, MaxUpdatesAssumption
  <2> QED
    BY <2>1, <2>2 DEF HistoryOK
<1>14. HistoryOK'
  <2>1. /\ \A n \in 0 .. LastId' : \A l \in Levels : New(n)[l] \in 0 .. n
        /\ \A n \in 0 .. LastId' : \A m \in 0 .. n : \A l \in Levels :
             New(n)[l] = New(m)[l] \/ New(n)[l] > m
        /\ \A n \in 1 .. LastId' : \A l, k \in Levels :
             New(n)[l] = n /\ New(n)[k] = n => l = k
        /\ deleted' \subseteq 1 .. LastId' /\ LastId' <= MaxUpdates
    BY <1>4, <1>10, <1>11, <1>12, <1>13
  <2> QED
    BY <2>1, <1>8, Zenon DEF HistoryOK
<1> QED
  BY <1>4, <1>9, <1>14

\* A deletion that is still to come changes no top of an older book.
LEMMA TopStays ==
  ASSUME HistoryGrows, HistoryOK, NEW L \in 0 .. LastId,
         deleted' = deleted \/ deleted' = deleted \cup {LastId + 1}
  PROVE  Top(ExchangeBook(L), SnapshotDepth)' = Top(ExchangeBook(L), SnapshotDepth)
<1>1. PICK e : e = ExchangeBook(L)
  BY Zenon
<1>2. ExchangeBook(L)' = e
  BY <1>1 DEF HistoryGrows
<1>3. \A l \in Levels : e[l] # LastId + 1
  <2>1. \A l \in Levels : e[l] \in 0 .. L
    BY <1>1 DEF HistoryOK
  <2>2. \A y \in 0 .. L : y # LastId + 1
    BY DEF HistoryGrows
  <2> QED
    BY <2>1, <2>2
<1>4. {l \in Levels : e[l] > 0 /\ e[l] \notin deleted'}
        = {l \in Levels : e[l] > 0 /\ e[l] \notin deleted}
  BY <1>3
<1>5. Top(ExchangeBook(L), SnapshotDepth)'
        = LET present == {l \in Levels : e[l] > 0 /\ e[l] \notin deleted'}
          IN  [l \in {l \in present : Cardinality({k \in present : k < l}) < SnapshotDepth} |-> e[l]]
  BY <1>2, Zenon DEF Top
<1>6. Top(ExchangeBook(L), SnapshotDepth)
        = LET present == {l \in Levels : e[l] > 0 /\ e[l] \notin deleted}
          IN  [l \in {l \in present : Cardinality({k \in present : k < l}) < SnapshotDepth} |-> e[l]]
  BY <1>1, Zenon DEF Top
<1> QED
  BY <1>4, <1>5, <1>6, Zenon

\* A snapshot on its way.
Message == [last_update_id: Ids, levels: Contents]

LEMMA TopType ==
  ASSUME TypeOK, NEW L \in 0 .. LastId
  PROVE  Top(ExchangeBook(L), SnapshotDepth) \in Contents
<1>1. PICK e \in [Levels -> Ids] : e = ExchangeBook(L)
  BY BookType
<1>2. PICK t : t = Top(e, SnapshotDepth)
  BY Zenon
<1>3. PICK D : D = DOMAIN Top(e, SnapshotDepth)
  BY Zenon
<1>4. D \in SUBSET Levels
  <2>1. D = {l \in Present(e) : Cardinality(Better(Present(e), l)) < SnapshotDepth}
    BY <1>3, TopIs, Zenon
  <2> QED
    BY <2>1, Zenon DEF Present
<1>5. t = [l \in D |-> e[l]]
  BY <1>2, <1>3, TopIs, Zenon
<1>6. t \in [D -> Ids]
  BY <1>4, <1>5
<1>7. t \in Contents
  BY <1>4, <1>6 DEF Contents
<1> QED
  BY <1>1, <1>2, <1>7

LEMMA QueueStays ==
  ASSUME TypeOK, HistoryGrows, HistoryOK, QueueOK, cc_queue' = cc_queue,
         deleted' = deleted \/ deleted' = deleted \cup {LastId + 1}
  PROVE  QueueOK'
<1>1. ASSUME NEW i \in 1 .. Len(cc_queue), NEW m, m = cc_queue[i]
      PROVE  /\ m.last_update_id <= LastId'
             /\ m.levels = Top(ExchangeBook(m.last_update_id), SnapshotDepth)'
  <2>1. m \in Message
    <3>1. cc_queue \in Seq(Message)
      BY Zenon DEF TypeOK, Message
    <3> QED
      BY <1>1, <3>1
  <2>2. PICK L \in 0 .. LastId : L = m.last_update_id
    BY <1>1, <2>1, MaxUpdatesAssumption DEF Message, Ids, QueueOK, HistoryGrows
  <2>3. m.levels = Top(ExchangeBook(L), SnapshotDepth)
    BY <1>1, <2>2 DEF QueueOK
  <2>4. Top(ExchangeBook(L), SnapshotDepth)' = Top(ExchangeBook(L), SnapshotDepth)
    BY TopStays
  <2>5. L <= LastId'
    BY DEF HistoryGrows
  <2> QED
    BY <2>2, <2>3, <2>4, <2>5
<1>2. \A i \in 1 .. Len(cc_queue) :
        /\ cc_queue[i].last_update_id <= LastId'
        /\ cc_queue'[i].levels = Top(ExchangeBook(cc_queue[i].last_update_id), SnapshotDepth)'
  BY <1>1
<1> QED
  BY <1>2, Zenon DEF QueueOK

-----------------------------------------------------------------------------
(* Drain *)

\* The ring q is r with ev added and its first p events dropped.
Recorded(r, ev, q, p) ==
  /\ p \in 0 .. Len(r) /\ Len(q) = Len(r) + 1 - p
  /\ q[Len(q)] = ev /\ \A i \in 1 .. Len(q) - 1 : q[i] = r[i + p]

\* RecordRing keeps the newest events, in order.
LEMMA RecordFacts ==
  ASSUME NEW r \in Seq(Event), Len(r) <= RingCap, NEW ev \in Event,
         NEW q, q = RecordRing(r, ev)
  PROVE  /\ q \in Seq(Event) /\ Len(q) \in 1 .. RingCap /\ q # << >>
         /\ \E p : Recorded(r, ev, q, p)
<1>1. PICK n \in Nat : n = Len(r)
  OBVIOUS
<1>2. PICK a : a = Append(r, ev)
  BY Zenon
<1>3. /\ a \in Seq(Event) /\ Len(a) = n + 1 /\ a[n + 1] = ev
      /\ \A i \in 1 .. n : a[i] = r[i]
  BY <1>1, <1>2
<1>4. PICK p \in 0 .. n : /\ q = SubSeq(a, p + 1, n + 1)
                          /\ n + 1 - p \in 1 .. RingCap
  <2>1. CASE n < RingCap
    <3>1. q = a
      BY <1>1, <1>2, <2>1 DEF RecordRing
    <3>2. SubSeq(a, 1, n + 1) = a
      BY <1>3
    <3>3. 0 \in 0 .. n /\ n + 1 - 0 \in 1 .. RingCap /\ 0 + 1 = 1
      BY <2>1, RingAssumption
    <3> QED
      BY <3>1, <3>2, <3>3
  <2>2. CASE ~(n < RingCap)
    <3>1. q = SubSeq(a, n + 2 - RingKeep, n + 1)
      BY <1>1, <1>2, <2>2, Zenon DEF RecordRing
    <3>2. PICK p \in 0 .. n : p = n + 1 - RingKeep
      BY <2>2, RingAssumption
    <3>3. p + 1 = n + 2 - RingKeep /\ n + 1 - p \in 1 .. RingCap
      BY <3>2, RingAssumption
    <3> QED
      BY <3>1, <3>3, ZenonT(30)
  <2> QED
    BY <2>1, <2>2
<1>5. /\ q \in Seq(Event) /\ Len(q) = n + 1 - p
      /\ \A i \in 1 .. n + 1 - p : q[i] = a[i + p]
  <2>1. \A i \in 1 .. n + 1 - p : p + 1 + i - 1 = i + p /\ i + p \in 1 .. n + 1
    OBVIOUS
  <2>2. /\ q \in Seq(Event) /\ Len(q) = n + 1 - p
        /\ \A i \in 1 .. n + 1 - p : q[i] = a[p + 1 + i - 1]
    BY <1>3, <1>4
  <2> QED
    BY <2>1, <2>2
<1>6. /\ n + 1 - p \in 1 .. n + 1 - p /\ (n + 1 - p) + p = n + 1
      /\ \A i \in 1 .. (n + 1 - p) - 1 : i \in 1 .. n + 1 - p /\ i + p \in 1 .. n
  OBVIOUS
<1>7. q[Len(q)] = ev
  BY <1>3, <1>5, <1>6
<1>8. \A i \in 1 .. Len(q) - 1 : q[i] = r[i + p]
  BY <1>3, <1>5, <1>6
<1>9. q # << >>
  <2>1. Len(q) # 0
    BY <1>4, <1>5
  <2> QED
    BY <2>1, EmptySeq
<1>10. Recorded(r, ev, q, p)
  BY <1>1, <1>5, <1>7, <1>8 DEF Recorded
<1> QED
  BY <1>4, <1>5, <1>9, <1>10

LEMMA EventFields ==
  \A e \in Event :
    /\ e.u \in Nat /\ e.U \in Nat /\ e.kind \in {"Snapshot", "DepthDiff"}
    /\ \A l \in DOMAIN e.levels : l \in Levels
<1> SUFFICES ASSUME NEW e \in Event
             PROVE  /\ e.u \in Nat /\ e.U \in Nat /\ e.kind \in {"Snapshot", "DepthDiff"}
                    /\ \A l \in DOMAIN e.levels : l \in Levels
  OBVIOUS
<1>1. /\ e.u \in Nat /\ e.U \in Nat /\ e.kind \in {"Snapshot", "DepthDiff"}
      /\ e.levels \in Contents
  BY MaxUpdatesAssumption DEF Event, Ids
<1>2. \A l \in DOMAIN e.levels : l \in Levels
  BY <1>1 DEF Contents
<1> QED
  BY <1>1, <1>2

\* Level l is at update u as it was at n.
SameAt(l, n, u) == ExchangeBook(u)[l] = ExchangeBook(n)[l]

\* A level that the updates U .. u left alone is as it was at any update from the
\* one before U on.
LEMMA LeftAlone ==
  ASSUME HistoryOK, LastId \in Nat, NEW U \in Nat, NEW u \in Nat, NEW n \in Nat,
         U <= n + 1, n <= u, u <= LastId, NEW l \in Levels, l \notin ChangedLevels(U, u)
  PROVE  SameAt(l, n, u)
<1>1. u \in 0 .. LastId /\ n \in 0 .. u
  OBVIOUS
<1>2. ~(ExchangeBook(u)[l] >= U)
  BY DEF ChangedLevels
<1>3. PICK v \in 0 .. u : v = ExchangeBook(u)[l]
  BY <1>1 DEF HistoryOK
<1>4. ~(v > n)
  BY <1>2, <1>3
<1> QED
  BY <1>1, <1>3, <1>4 DEF SameAt, HistoryOK

\* The next event starts a snapshot, is the first of a diff that continues the
\* book, or continues the message of the newest one.
StartsSnapshot(s) ==
  s[1].start /\ s[1].kind = "Snapshot" /\ \A l \in MessageLevels(s[1]) : Brings(s, l)

StartsDiff(r, s, c) ==
  /\ ~s[1].start /\ s[1].kind = "DepthDiff" /\ \A l \in MessageLevels(s[1]) : Brings(s, l)
  /\ r # << >> /\ s[1].U <= r[Len(r)].u + 1 /\ r[Len(r)].u <= s[1].u
  /\ \A l \in Levels : c[l] = ExchangeBook(r[Len(r)].u)[l]

LEMMA NextEvent ==
  ASSUME NEW r, NEW s \in Seq(Event), NEW c, s # << >>, IncomingOK(s), StreamOK(r, s, c)
  PROVE  \/ StartsSnapshot(s)
         \/ StartsDiff(r, s, c)
         \/ r # << >> /\ SameMessageOK(r, s, c)
<1>1. 1 \in 1 .. Len(s) /\ s[1] \in Event
  BY EmptySeq
<1>2. s[1].kind \in {"Snapshot", "DepthDiff"} /\ (s[1].start => s[1].kind = "Snapshot")
  BY <1>1 DEF Event, IncomingOK
<1>3. CASE r # << >> /\ r[Len(r)].cont
  BY <1>3, Zenon DEF StreamOK
<1>4. CASE ~(r # << >> /\ r[Len(r)].cont)
  <2>1. NextMessageOK(r, s, c)
    BY <1>4, Zenon DEF StreamOK
  <2>2. CASE s[1].kind = "Snapshot"
    BY <2>1, <2>2, Zenon DEF NextMessageOK, StartsSnapshot
  <2>3. CASE s[1].kind = "DepthDiff"
    <3>1. ~s[1].start
      BY <1>2, <2>3
    <3> QED
      BY <2>1, <2>3, <3>1, Zenon DEF NextMessageOK, StartsDiff
  <2> QED
    BY <1>2, <2>2, <2>3
<1> QED
  BY <1>3, <1>4

\* The rest of a message is as the message was.
LEMMA RestOK ==
  ASSUME NEW s \in Seq(Event), s # << >>, IncomingOK(s), NEW t, t = Tail(s)
  PROVE  /\ t \in Seq(Event) /\ IncomingOK(t) /\ (t # << >> <=> s[1].cont)
         /\ t # << >> => /\ t[1].kind = s[1].kind /\ t[1].U = s[1].U /\ t[1].u = s[1].u
                         /\ ~t[1].start
         /\ \A l : Brings(s, l) => l \in DOMAIN s[1].levels \/ Brings(t, l)
<1>1. PICK n \in Nat : n = Len(s) /\ n # 0
  BY EmptySeq
<1>2. t \in Seq(Event) /\ Len(t) = n - 1 /\ \A i \in 1 .. n - 1 : t[i] = s[i + 1]
  BY <1>1
<1>3. /\ 1 \in 1 .. n /\ 1 + 1 = 2
      /\ \A i \in 1 .. n - 1 : i + 1 \in 1 .. n /\ i + 1 # 1 /\ (i + 1 < n <=> i < n - 1)
      /\ \A i \in 1 .. n : i = 1 \/ (i - 1 \in 1 .. n - 1 /\ (i - 1) + 1 = i)
  BY <1>1
<1>4. ASSUME NEW i \in 1 .. n
      PROVE  /\ EventOK(s[i])
             /\ s[i].kind = s[1].kind /\ s[i].U = s[1].U /\ s[i].u = s[1].u
             /\ s[i].cont = (i < n)
             /\ s[i].start => i = 1 /\ s[i].kind = "Snapshot"
  BY <1>1, Zenon DEF IncomingOK
<1>5. ASSUME NEW i \in 1 .. n - 1
      PROVE  /\ EventOK(t[i])
             /\ t[i].kind = s[1].kind /\ t[i].U = s[1].U /\ t[i].u = s[1].u
             /\ t[i].cont = (i < n - 1) /\ ~t[i].start
  <2>1. i + 1 \in 1 .. n /\ i + 1 # 1 /\ (i + 1 < n <=> i < n - 1) /\ t[i] = s[i + 1]
    BY <1>2, <1>3
  <2>2. s[i + 1].cont = (i + 1 < n) /\ ~s[i + 1].start
    BY <1>4, <2>1, Zenon
  <2>3. (i + 1 < n) = (i < n - 1)
    BY <2>1
  <2>4. t[i].cont = (i < n - 1) /\ ~t[i].start
    BY <2>1, <2>2, <2>3, Zenon
  <2> QED
    BY <1>4, <2>1, <2>4, Zenon
<1>6. IncomingOK(t)
  <2>1. \A i \in 1 .. n - 1 : 1 \in 1 .. n - 1
    OBVIOUS
  <2> QED
    BY <1>2, <1>5, <2>1, Zenon DEF IncomingOK
<1>7. (t # << >> <=> s[1].cont) /\ (t # << >> => 1 \in 1 .. n - 1)
  <2>1. s[1].cont = (1 < n)
    BY <1>3, <1>4, Zenon
  <2>2. t # << >> <=> n - 1 # 0
    BY <1>2, EmptySeq, ZenonT(30)
  <2>3. \A m \in Nat : m # 0 => (m - 1 # 0 <=> 1 < m) /\ (m - 1 # 0 => 1 \in 1 .. m - 1)
    OBVIOUS
  <2> QED
    BY <1>1, <2>1, <2>2, <2>3, Zenon
<1>8. ASSUME NEW l, Brings(s, l), l \notin DOMAIN s[1].levels PROVE Brings(t, l)
  <2>1. PICK i \in 1 .. n : l \in DOMAIN s[i].levels
    BY <1>1, <1>8 DEF Brings
  <2>2. i - 1 \in 1 .. n - 1 /\ (i - 1) + 1 = i
    BY <1>3, <1>8, <2>1
  <2>3. t[i - 1] = s[i]
    BY <1>2, <2>2
  <2> QED
    BY <1>2, <2>1, <2>2, <2>3, Zenon DEF Brings
<1> QED
  BY <1>2, <1>5, <1>6, <1>7, <1>8, ZenonT(30)

\* Positions in a ring of which the first p events are dropped.
LEMMA Positions ==
  ASSUME NEW n \in Nat, NEW k \in Nat, NEW p \in 0 .. n, k = n + 1 - p
  PROVE  /\ k \in 1 .. k /\ \A i \in 1 .. k : i = k \/ i \in 1 .. k - 1
         /\ \A i \in 1 .. k : \A j \in i .. k : j = k \/ j \in 1 .. k - 1
         /\ \A i \in 1 .. k - 1 : i + p \in 1 .. n /\ k \in i + 1 .. k
OBVIOUS

\* Drain keeps what is known of the ring and of what comes.
LEMMA DrainRing ==
  ASSUME TypeOK, HistoryOK,
         NEW r \in Seq(Event), NEW s \in Seq(Event), NEW c \in [Levels -> Ids],
         s # << >>, RingOK(r, c), IncomingOK(s), StreamOK(r, s, c),
         NEW ev, ev = s[1],
         NEW c2, c2 = ApplyEvent(IF ev.start THEN EmptyBook ELSE c, ev),
         NEW r0, r0 = IF ev.start THEN << >> ELSE r, NEW n \in Nat, n = Len(r0),
         NEW q \in Seq(Event), NEW k \in Nat, k = Len(q), NEW p \in 0 .. n,
         Recorded(r0, ev, q, p), NEW t, t = Tail(s)
  PROVE  RingOK(q, c2) /\ StreamOK(q, t, c2)
<1>0. k = n + 1 - p /\ q[k] = ev /\ \A i \in 1 .. k - 1 : q[i] = r0[i + p]
  BY Zenon DEF Recorded
<1> USE <1>0
<1>1. 1 \in 1 .. Len(s) /\ ev \in Event /\ EventOK(ev)
  BY EmptySeq DEF IncomingOK
<1>2. /\ LastId \in Nat /\ ev.u \in Nat /\ ev.U \in Nat /\ ev.u <= LastId
      /\ ev.kind \in {"Snapshot", "DepthDiff"}
  <2>1. LastId \in Nat
    BY DEF TypeOK, LastId
  <2>2. ev.u <= LastId
    BY <1>1, Zenon DEF EventOK
  <2> QED
    BY <1>1, <2>1, <2>2, EventFields, Zenon
<1>3. \A l \in Levels :
        c2[l] = IF l \in DOMAIN ev.levels THEN ev.levels[l]
                ELSE IF ev.start THEN 0 ELSE c[l]
  BY DEF ApplyEvent, EmptyBook
<1>4. \A l \in DOMAIN ev.levels : l \in Levels /\ ev.levels[l] = ExchangeBook(ev.u)[l]
  BY <1>1, EventFields, Zenon DEF EventOK
<1>5. /\ k \in 1 .. k /\ \A i \in 1 .. k : i = k \/ i \in 1 .. k - 1
      /\ \A i \in 1 .. k : \A j \in i .. k : j = k \/ j \in 1 .. k - 1
      /\ \A i \in 1 .. k - 1 : i + p \in 1 .. n /\ k \in i + 1 .. k
      /\ \A i \in 1 .. k : q[i] \in Event
  <2>1. \A i \in 1 .. Len(q) : q[i] \in Event
    BY ElementOfSeq, Zenon
  <2> QED
    BY <2>1, Positions, Zenon
\* The newest event so far, when there is no new snapshot.
<1>6. ASSUME r # << >>
      PROVE  /\ Len(r) \in 1 .. Len(r) /\ r[Len(r)] \in Event
             /\ r[Len(r)].u \in Nat /\ r[Len(r)].u <= LastId
  <2>1. Len(r) \in 1 .. Len(r) /\ r[Len(r)] \in Event
    BY <1>6, EmptySeq
  <2>2. EventOK(r[Len(r)])
    BY <2>1 DEF RingOK
  <2> QED
    BY <2>1, <2>2, EventFields, Zenon DEF EventOK
<1>7. \/ StartsSnapshot(s)
      \/ StartsDiff(r, s, c)
      \/ r # << >> /\ SameMessageOK(r, s, c)
  BY NextEvent, ZenonT(30)
<1>8. ASSUME StartsDiff(r, s, c), NEW l \in Levels \ ChangedLevels(ev.U, ev.u)
      PROVE  c[l] = ExchangeBook(ev.u)[l]
  <2>1. /\ r # << >> /\ ev.U <= r[Len(r)].u + 1 /\ r[Len(r)].u <= ev.u
        /\ c[l] = ExchangeBook(r[Len(r)].u)[l]
    BY <1>8, ZenonT(30) DEF StartsDiff
  <2>2. PICK m \in Nat : m = r[Len(r)].u
    BY <1>6, <2>1, ZenonT(30)
  <2>3. PICK U \in Nat : U = ev.U
    BY <1>2, ZenonT(30)
  <2>4. PICK u \in Nat : u = ev.u
    BY <1>2, ZenonT(30)
  <2>5. U <= m + 1 /\ m <= u /\ u <= LastId /\ l \in Levels /\ l \notin ChangedLevels(U, u)
    BY <1>2, <2>1, <2>2, <2>3, <2>4, ZenonT(30)
  <2>6. ExchangeBook(u)[l] = ExchangeBook(m)[l]
    <3>1. SameAt(l, m, u)
      BY <1>2, <2>5, LeftAlone, Zenon
    <3> QED
      BY <3>1, Zenon DEF SameAt
  <2> QED
    BY <2>1, <2>2, <2>4, <2>6, ZenonT(30)
\* Older events stay where the ring has no new snapshot.
<1>9. ASSUME NEW i \in 1 .. k - 1
      PROVE  /\ ~ev.start /\ r # << >> /\ r0 = r /\ i + p \in 1 .. Len(r) /\ q[i] = r[i + p]
             /\ r[i + p].u <= ev.u
             /\ \A l \in Levels : LastWith(q, i, l) =>
                  LastWith(r, i + p, l) /\ l \notin DOMAIN ev.levels /\ c2[l] = c[l]
  <2>1. i + p \in 1 .. n
    BY <1>5
  <2>2. ~ev.start
    <3>1. n # 0
      BY <2>1
    <3> QED
      BY <3>1, EmptySeq
  <2>3. r0 = r /\ n = Len(r)
    BY <2>2
  <2>4. r # << >> /\ i + p \in 1 .. Len(r) /\ q[i] = r[i + p]
    BY <2>1, <2>3, EmptySeq
  <2>5. r[Len(r)].u <= ev.u
    <3>1. CASE StartsSnapshot(s)
      BY <2>2, <3>1, ZenonT(30) DEF StartsSnapshot
    <3>2. CASE StartsDiff(r, s, c)
      BY <3>2 DEF StartsDiff
    <3>3. CASE SameMessageOK(r, s, c)
      <4>1. r[Len(r)].u = ev.u
        BY <3>3, Zenon DEF SameMessageOK
      <4>2. PICK u \in Nat : u = ev.u /\ u <= u
        BY <1>2
      <4> QED
        BY <4>1, <4>2, Zenon
    <3> QED
      BY <1>7, <3>1, <3>2, <3>3, ZenonT(30)
  <2>6. r[i + p].u <= r[Len(r)].u /\ r[i + p].u \in Nat
    <3>1. Len(r) \in i + p .. Len(r) /\ r[i + p] \in Event
      BY <2>4
    <3>2. r[i + p].u \in Nat
      BY <3>1, EventFields
    <3> QED
      BY <2>4, <3>1, <3>2 DEF RingOK
  <2>7. r[i + p].u <= ev.u
    <3>1. r[Len(r)].u \in Nat
      BY <1>6, <2>4, ZenonT(30)
    <3>2. \A x, y, z \in Nat : x <= y /\ y <= z => x <= z
      OBVIOUS
    <3> QED
      BY <1>2, <2>5, <2>6, <3>1, <3>2, ZenonT(60)
  <2>8. ASSUME NEW l \in Levels, LastWith(q, i, l)
        PROVE  LastWith(r, i + p, l) /\ l \notin DOMAIN ev.levels /\ c2[l] = c[l]
    <3>1. \A j \in i + 1 .. k : l \notin DOMAIN q[j].levels
      BY <2>8 DEF LastWith
    <3>2. l \notin DOMAIN ev.levels
      BY <1>5, <3>1
    <3>3. ASSUME NEW j \in i + p + 1 .. Len(r) PROVE l \notin DOMAIN r[j].levels
      <4>1. PICK x : x = j - p
        BY Zenon
      <4>2. x \in i + 1 .. k /\ x \in 1 .. k - 1 /\ x + p = j
        BY <2>3, <4>1
      <4> QED
        BY <2>3, <3>1, <4>2, Zenon
    <3> QED
      BY <1>3, <2>2, <3>2, <3>3 DEF LastWith
  <2> QED
    BY <2>2, <2>3, <2>4, <2>7, <2>8, ZenonT(30)
<1>10. \A i \in 1 .. k : EventOK(q[i])
  <2> SUFFICES ASSUME NEW i \in 1 .. k PROVE EventOK(q[i])
    OBVIOUS
  <2>1. CASE i = k
    BY <1>1, <2>1, ZenonT(30)
  <2>2. CASE i \in 1 .. k - 1
    BY <1>9, <2>2, ZenonT(60) DEF RingOK
  <2> QED
    BY <1>5, <2>1, <2>2, ZenonT(30)
<1>11. \A i \in 1 .. k : \A j \in i .. k : q[i].u <= q[j].u
  <2> SUFFICES ASSUME NEW i \in 1 .. k, NEW j \in i .. k PROVE q[i].u <= q[j].u
    BY ZenonT(30)
  <2>1. CASE i = k
    <3>1. j = k
      BY <2>1
    <3> QED
      BY <1>2, <2>1, <3>1
  <2>2. CASE i \in 1 .. k - 1 /\ j = k
    BY <1>9, <2>2, ZenonT(60)
  <2>3. CASE i \in 1 .. k - 1 /\ j \in 1 .. k - 1
    <3>1. j + p \in i + p .. Len(r)
      <4>1. j + p \in 1 .. Len(r)
        BY <1>9, <2>3, ZenonT(60)
      <4> QED
        BY <4>1
    <3>2. i + p \in 1 .. Len(r) /\ q[i] = r[i + p] /\ q[j] = r[j + p]
      BY <1>9, <2>3, ZenonT(60)
    <3> QED
      BY <3>1, <3>2 DEF RingOK
  <2>4. j = k \/ j \in 1 .. k - 1
    BY <1>5, Zenon
  <2> QED
    BY <1>5, <2>1, <2>2, <2>3, <2>4, ZenonT(60)
<1>12. ASSUME NEW i \in 1 .. k, NEW l \in DOMAIN q[i].levels, LastWith(q, i, l)
       PROVE  c2[l] = q[i].levels[l]
  <2>1. CASE i = k
    BY <1>3, <1>4, <2>1, ZenonT(60)
  <2>2. CASE i \in 1 .. k - 1
    <3>2. l \in Levels
      BY <1>5, EventFields, Zenon
    <3> QED
      <4>1. /\ i + p \in 1 .. Len(r) /\ q[i] = r[i + p] /\ LastWith(r, i + p, l)
            /\ c2[l] = c[l]
        BY <1>9, <1>12, <2>2, <3>2, ZenonT(60)
      <4>2. l \in DOMAIN r[i + p].levels
        BY <1>12, <4>1, Zenon
      <4>3. c[l] = r[i + p].levels[l]
        BY <4>1, <4>2, Zenon DEF RingOK
      <4> QED
        BY <4>1, <4>3, Zenon
  <2> QED
    BY <1>5, <2>1, <2>2, ZenonT(60)
<1>13. ASSUME NEW i \in 1 .. k, q[i].kind = "DepthDiff",
              NEW l \in Levels \ ChangedLevels(q[i].U, q[i].u), LastWith(q, i, l)
       PROVE  c2[l] = ExchangeBook(q[i].u)[l]
  <2>1. CASE i \in 1 .. k - 1
    <3>1. /\ i + p \in 1 .. Len(r) /\ q[i] = r[i + p] /\ LastWith(r, i + p, l)
          /\ c2[l] = c[l]
      BY <1>9, <1>13, <2>1, ZenonT(60)
    <3>2. /\ r[i + p].kind = "DepthDiff"
          /\ l \in Levels \ ChangedLevels(r[i + p].U, r[i + p].u)
      BY <1>13, <3>1
    <3>3. c[l] = ExchangeBook(r[i + p].u)[l]
      BY <3>1, <3>2, ZenonT(60) DEF RingOK
    <3> QED
      BY <3>1, <3>3, ZenonT(60)
  <2>2. CASE i = k
    <3>1. ev.kind = "DepthDiff" /\ l \in Levels \ ChangedLevels(ev.U, ev.u) /\ q[i] = ev
      BY <1>13, <2>2, ZenonT(60)
    <3>2. CASE l \in DOMAIN ev.levels
      BY <1>3, <1>4, <3>1, <3>2, ZenonT(60)
    <3>3. CASE l \notin DOMAIN ev.levels
      <4>1. CASE StartsSnapshot(s)
        BY <3>1, <4>1, ZenonT(60) DEF StartsSnapshot
      <4>2. CASE StartsDiff(r, s, c)
        <5>1. ~ev.start
          BY <4>2, ZenonT(60) DEF StartsDiff
        <5> QED
          BY <1>3, <1>8, <3>1, <3>3, <4>2, <5>1, ZenonT(60)
      <4>3. CASE r # << >> /\ SameMessageOK(r, s, c)
        <5>1. /\ ~ev.start /\ r[Len(r)].kind = "DepthDiff"
              /\ r[Len(r)].U = ev.U /\ r[Len(r)].u = ev.u
          BY <3>1, <4>3, ZenonT(60) DEF SameMessageOK
        <5>2. LastWith(r, Len(r), l)
          <6>1. PICK N \in Nat : N = Len(r)
            BY LenProperties, Zenon
          <6>2. N + 1 .. N = {}
            OBVIOUS
          <6> QED
            BY <6>1, <6>2, Zenon DEF LastWith
        <5>3. c[l] = ExchangeBook(ev.u)[l]
          <6>1. l \in Levels \ ChangedLevels(r[Len(r)].U, r[Len(r)].u)
            BY <3>1, <5>1, Zenon
          <6>2. Len(r) \in 1 .. Len(r)
            BY <1>6, <4>3, Zenon
          <6>3. c[l] = ExchangeBook(r[Len(r)].u)[l]
            BY <5>1, <5>2, <6>1, <6>2, ZenonT(60) DEF RingOK
          <6> QED
            BY <5>1, <6>3, Zenon
        <5> QED
          BY <1>3, <3>1, <3>3, <5>1, <5>3, ZenonT(60)
      <4> QED
        BY <1>7, <4>1, <4>2, <4>3, ZenonT(60)
    <3> QED
      BY <3>2, <3>3, ZenonT(60)
  <2> QED
    BY <1>5, <2>1, <2>2, ZenonT(60)
<1>14. RingOK(q, c2)
  BY <1>10, <1>11, <1>12, <1>13, ZenonT(60) DEF RingOK
\* What the message does not bring is already right.
<1>15. ASSUME NEW l \in Levels, ~Brings(t, l)
       PROVE  c2[l] = ExchangeBook(ev.u)[l]
  <2>1. CASE l \in DOMAIN ev.levels
    BY <1>3, <1>4, <2>1, ZenonT(30)
  <2>2. CASE l \notin DOMAIN ev.levels
    <3>1. ~Brings(s, l)
      BY <1>15, <2>2, RestOK, Zenon
    <3>2. CASE StartsSnapshot(s)
      <4>1. l \notin PresentLevels(ev.u) /\ ev.start
        BY <3>1, <3>2, Zenon DEF StartsSnapshot, MessageLevels
      <4>2. ~(ExchangeBook(ev.u)[l] > 0)
        BY <4>1 DEF PresentLevels
      <4>3. ExchangeBook(ev.u)[l] \in Nat
        <5>1. ev.u \in 0 .. LastId
          BY <1>2
        <5> QED
          <6>1. ExchangeBook(ev.u)[l] \in 0 .. ev.u
            BY <5>1, Zenon DEF HistoryOK
          <6> QED
            BY <6>1
      <4>4. ExchangeBook(ev.u)[l] = 0
        BY <4>2, <4>3
      <4> QED
        BY <1>3, <2>2, <4>1, <4>4
    <3>3. CASE StartsDiff(r, s, c)
      <4>1. l \notin ChangedLevels(ev.U, ev.u) /\ ~ev.start
        BY <3>1, <3>3, ZenonT(60) DEF StartsDiff, MessageLevels
      <4> QED
        BY <1>3, <1>8, <2>2, <3>3, <4>1, ZenonT(60)
    <3>4. CASE r # << >> /\ SameMessageOK(r, s, c)
      <4>1. ~ev.start /\ r[Len(r)].u = ev.u /\ c[l] = ExchangeBook(r[Len(r)].u)[l]
        BY <3>1, <3>4 DEF SameMessageOK
      <4> QED
        BY <1>3, <2>2, <4>1, ZenonT(60)
    <3> QED
      BY <1>7, <3>2, <3>3, <3>4
  <2> QED
    BY <2>1, <2>2, ZenonT(60)
<1>16. q # << >> /\ q[Len(q)] = ev
  <2>1. Len(q) # 0
    BY <1>5
  <2> QED
    BY <2>1, EmptySeq, Zenon
<1>17. /\ t # << >> <=> ev.cont
       /\ t # << >> => /\ t[1].kind = ev.kind /\ t[1].U = ev.U /\ t[1].u = ev.u
                       /\ ~t[1].start
  <2>1. /\ t # << >> <=> s[1].cont
        /\ t # << >> => /\ t[1].kind = s[1].kind /\ t[1].U = s[1].U /\ t[1].u = s[1].u
                        /\ ~t[1].start
    BY RestOK, Zenon
  <2> QED
    BY <2>1, Zenon
<1>18. CASE ev.cont
  <2>1. SameMessageOK(q, t, c2)
    BY <1>15, <1>16, <1>17, <1>18, Zenon DEF SameMessageOK
  <2> QED
    BY <1>14, <1>16, <1>18, <2>1, Zenon DEF StreamOK
<1>19. CASE ~ev.cont
  <2>1. t = << >>
    BY <1>17, <1>19, ZenonT(60)
  <2>2. \A l : ~Brings(t, l)
    <3>1. Len(t) = 0
      BY <2>1, RestOK, EmptySeq, Zenon
    <3>2. \A i \in 1 .. Len(t) : FALSE
      BY <3>1
    <3> QED
      BY <3>2, Zenon DEF Brings
  <2>3. NextMessageOK(q, t, c2)
    BY <1>15, <1>16, <2>1, <2>2, Zenon DEF NextMessageOK
  <2> QED
    BY <1>14, <1>16, <1>19, <2>3, Zenon DEF StreamOK
<1> QED
  BY <1>18, <1>19
-----------------------------------------------------------------------------
(* The invariant is inductive *)

LEMMA InvInit == Init => IInv
<1> SUFFICES ASSUME Init PROVE IInv
  OBVIOUS
<1> DEFINE B(n) == [l \in Levels |-> IF l <= n THEN l ELSE 0]
<1>1. \A l \in Levels : l \in Nat /\ l > 0 /\ l <= NumLevels
  BY NumLevelsAssumption DEF Levels
<1>2. /\ StartLevels \in Nat /\ StartLevels <= MaxUpdates /\ MaxUpdates \in Nat
      /\ 0 \in Ids /\ \A n \in 0 .. StartLevels : \A l \in 0 .. n : l \in Ids
  BY StartAssumption, MaxUpdatesAssumption, NumLevelsAssumption DEF Ids
<1>3. \A n \in 0 .. StartLevels : B(n) \in [Levels -> Ids]
  <2> SUFFICES ASSUME NEW n \in 0 .. StartLevels, NEW l \in Levels
               PROVE  (IF l <= n THEN l ELSE 0) \in Ids
    OBVIOUS
  <2>1. l <= n => l \in 0 .. n
    BY <1>1
  <2> QED
    BY <1>2, <2>1
<1>4. EmptyBook = B(0) /\ EmptyBook \in [Levels -> Ids]
  <2>1. \A l \in Levels : ~(l <= 0)
    BY <1>1
  <2>2. EmptyBook = B(0)
    BY <2>1, Zenon DEF EmptyBook
  <2> QED
    BY <1>2, <2>2 DEF EmptyBook
<1>5. books = [n \in 1 .. StartLevels |-> B(n)]
  BY DEF Init
<1> HIDE DEF B
<1>6. books \in Seq([Levels -> Ids]) /\ LastId = StartLevels
  <2>1. \A n \in 1 .. StartLevels : B(n) \in [Levels -> Ids]
    BY <1>3
  <2> QED
    BY <1>2, <1>5, <2>1 DEF LastId
<1>7. \A n \in 0 .. LastId : ExchangeBook(n) = B(n)
  <2> SUFFICES ASSUME NEW n \in 0 .. LastId PROVE ExchangeBook(n) = B(n)
    OBVIOUS
  <2>1. n # 0 => n \in 1 .. StartLevels
    BY <1>2, <1>6
  <2> QED
    BY <1>4, <1>5, <2>1, Zenon DEF ExchangeBook
<1>8. \A n \in 0 .. LastId : \A l \in Levels : B(n)[l] = IF l <= n THEN l ELSE 0
  BY DEF B
<1>9. TypeOK
  <2>1. /\ recon \in [state: ReconStates, snapshot_last_id: Ids, prev_u: Ids]
        /\ result \in {"None", "Match", "Mismatch", "Skipped"} /\ deleted \subseteq Ids
        /\ book \in [Levels -> Ids] /\ clean \in [Levels -> Ids]
    BY <1>2, <1>4 DEF Init, ReconReset, ReconStates
  <2>2. /\ incoming \in Seq(Event) /\ ring \in Seq(Event) /\ Len(ring) <= RingCap
    BY RingAssumption DEF Init
  <2>3. cc_queue \in Seq([last_update_id: Ids, levels: Contents]) /\ Len(cc_queue) <= CcCapacity
    BY CcCapacityAssumption DEF Init
  <2> QED
    BY <1>6, <2>1, <2>2, <2>3, ZenonT(30) DEF TypeOK
<1>10. HistoryOK
  <2>1. \A n \in 0 .. LastId : \A l \in Levels : B(n)[l] \in 0 .. n
    BY <1>1, <1>2, <1>6, <1>8
  <2>2. \A n \in 0 .. LastId : \A m \in 0 .. n : \A l \in Levels :
          B(n)[l] = B(m)[l] \/ B(n)[l] > m
    <3> SUFFICES ASSUME NEW n \in 0 .. LastId, NEW m \in 0 .. n, NEW l \in Levels
                 PROVE  B(n)[l] = B(m)[l] \/ B(n)[l] > m
      OBVIOUS
    <3>1. m \in 0 .. LastId /\ (l <= m => l <= n) /\ (l <= m \/ l > m)
      BY <1>1, <1>2, <1>6
    <3> QED
      BY <1>8, <3>1
  <2>3. \A n \in 1 .. LastId : \A l, k \in Levels : B(n)[l] = n /\ B(n)[k] = n => l = k
    <3>1. \A n \in 1 .. LastId : n \in 0 .. LastId /\ n # 0
      OBVIOUS
    <3> QED
      BY <1>8, <3>1
  <2>4. \A n \in 1 .. LastId : n \in 0 .. LastId
    OBVIOUS
  <2>5. \A n \in 0 .. LastId : \A m \in 0 .. n : m \in 0 .. LastId
    BY <1>2, <1>6
  <2>6. deleted \subseteq 1 .. LastId /\ LastId <= MaxUpdates
    BY <1>2, <1>6 DEF Init
  <2> QED
    BY <1>7, <2>1, <2>2, <2>3, <2>4, <2>5, <2>6, Zenon DEF HistoryOK
<1>11. ring = << >> /\ incoming = << >> /\ cc_queue = << >> /\ recon.state = "Idle"
  BY DEF Init, ReconReset
<1>12. /\ \A i \in 1 .. Len(ring) : FALSE
       /\ \A i \in 1 .. Len(incoming) : FALSE
       /\ \A i \in 1 .. Len(cc_queue) : FALSE
  BY <1>11
<1>13. RingOK(ring, clean) /\ IncomingOK(incoming) /\ QueueOK
  BY <1>12, Zenon DEF RingOK, IncomingOK, QueueOK
<1>14. StreamOK(ring, incoming, clean) /\ ReconOK(recon, ring, incoming)
  BY <1>11, Zenon DEF StreamOK, NextMessageOK, ReconOK
<1> QED
  BY <1>9, <1>10, <1>13, <1>14, Zenon DEF IInv

\* Most steps leave the exchange alone.
LEMMA SameHistory ==
  ASSUME TypeOK, HistoryOK, books' = books, deleted' = deleted
  PROVE  HistoryGrows /\ HistoryOK'
<1>1. LastId \in Nat /\ LastId' = LastId /\ \A n : ExchangeBook(n)' = ExchangeBook(n)
  BY DEF TypeOK, LastId, ExchangeBook
<1>2. LastId <= LastId' /\ LastId' \in Nat
  BY <1>1
<1> QED
  BY <1>1, <1>2, Zenon DEF HistoryGrows, HistoryOK

\* A step that touches neither the ring nor the events that come.
LEMMA StreamUntouched ==
  ASSUME IInv, HistoryGrows, ring' = ring, incoming' = incoming, clean' = clean, recon' = recon
  PROVE  /\ RingOK(ring, clean)' /\ IncomingOK(incoming)'
         /\ StreamOK(ring, incoming, clean)' /\ ReconOK(recon, ring, incoming)'
<1>1. PICK r \in Seq(Event) : r = ring
  BY DEF IInv, TypeOK
<1>2. PICK s \in Seq(Event) : s = incoming
  BY DEF IInv, TypeOK
<1>3. PICK c : c = clean
  BY Zenon
<1>4. PICK rc : rc = recon
  BY Zenon
<1>5. RingOK(r, c) /\ IncomingOK(s) /\ StreamOK(r, s, c)
  BY <1>1, <1>2, <1>3 DEF IInv
<1>6. ring' = r /\ incoming' = s /\ clean' = c
  BY <1>1, <1>2, <1>3
<1>7. RingOK(ring, clean)'
  BY <1>5, <1>6, RingStays
<1>8. IncomingOK(incoming)'
  BY <1>5, <1>6, IncomingStays
<1>9. StreamOK(ring, incoming, clean)'
  BY <1>5, <1>6, StreamStays
<1>10. ReconOK(recon, ring, incoming)'
  BY DEF IInv, ReconOK
<1> QED
  BY <1>7, <1>8, <1>9, <1>10

LEMMA ExchangeStep ==
  ASSUME IInv, NEW x \in Levels, ExchangeUpdate(x) \/ ExchangeDelete(x)
  PROVE  IInv'
<1>1. /\ Update(x) /\ LastId < MaxUpdates
      /\ deleted' = deleted \/ deleted' = deleted \cup {LastId + 1}
      /\ recon' = recon /\ incoming' = incoming /\ book' = book /\ ring' = ring
      /\ cc_queue' = cc_queue /\ result' = result /\ clean' = clean
  BY DEF ExchangeUpdate, ExchangeDelete
<1>2. deleted' \subseteq deleted \cup {LastId + 1}
  BY <1>1, Zenon
<1>3. HistoryOK' /\ HistoryGrows /\ LastId' = LastId + 1 /\ books' \in Seq([Levels -> Ids])
  BY <1>1, <1>2, HistoryNext, ZenonT(30) DEF IInv
<1>4. TypeOK'
  <2>1. LastId + 1 \in Ids
    BY <1>1, MaxUpdatesAssumption DEF IInv, TypeOK, LastId, Ids
  <2>2. deleted' \subseteq Ids
    BY <1>2, <2>1 DEF IInv, TypeOK
  <2> QED
    BY <1>1, <1>3, <2>2 DEF IInv, TypeOK
<1>5. QueueOK'
  BY <1>1, <1>3, QueueStays DEF IInv
<1>6. /\ RingOK(ring, clean)' /\ IncomingOK(incoming)'
      /\ StreamOK(ring, incoming, clean)' /\ ReconOK(recon, ring, incoming)'
  BY <1>1, <1>3, StreamUntouched
<1> QED
  BY <1>3, <1>4, <1>5, <1>6, Zenon DEF IInv

\* A message is emitted when the last one has arrived, and continues it.
LEMMA EmitStep ==
  ASSUME IInv, incoming = << >>, UNCHANGED <<books, deleted, book, ring, cc_queue, result, clean>>,
         NEW kind \in {"Snapshot", "DepthDiff"}, NEW U \in Ids, NEW u \in 0 .. LastId,
         NEW S, S = IF kind = "Snapshot" THEN PresentLevels(u) ELSE ChangedLevels(U, u),
         incoming' = EventGroup(kind, U, u, S),
         kind = "DepthDiff" => ring # << >> /\ U <= ring[Len(ring)].u + 1 /\ ring[Len(ring)].u <= u,
         recon' \in [state: ReconStates, snapshot_last_id: Ids, prev_u: Ids],
         u = IF recon'.state = "Live" THEN recon'.prev_u ELSE recon'.snapshot_last_id
  PROVE  IInv'
<1>1. PICK r \in Seq(Event) : r = ring
  BY DEF IInv, TypeOK
<1>2. PICK c : c = clean
  BY Zenon
<1>3. PICK g : g = EventGroup(kind, U, u, S)
  BY Zenon
<1>4. S \in SUBSET Levels
  BY DEF PresentLevels, ChangedLevels
<1>5. /\ g \in Seq(Event) /\ g # << >> /\ IncomingOK(g)
      /\ g[1].kind = kind /\ g[1].U = U /\ g[1].u = u /\ g[1].start = (kind = "Snapshot")
      /\ \A l \in S : Brings(g, l)
  <2>1. TypeOK /\ HistoryOK
    BY Zenon DEF IInv
  <2>2. IsGroup(g, kind, U, u, S)
    BY <1>3, <1>4, <2>1, GroupFacts, Zenon
  <2> QED
    BY <2>2, Zenon DEF IsGroup
<1>6. ring' = r /\ clean' = c /\ incoming' = g
  BY <1>1, <1>2, <1>3, ZenonT(30)
<1>7. HistoryGrows /\ HistoryOK'
  BY SameHistory, ZenonT(30) DEF IInv
<1>8. RingOK(r, c)
  BY <1>1, <1>2, ZenonT(60) DEF IInv
<1>9. StreamOK(r, g, c)
  <2>1. StreamOK(r, << >>, c)
    BY <1>1, <1>2 DEF IInv
  <2>2. ~(r # << >> /\ r[Len(r)].cont) /\ NextMessageOK(r, << >>, c)
    BY <2>1, Zenon DEF StreamOK, SameMessageOK
  <2>3. MessageLevels(g[1]) = S
    BY <1>5, Zenon DEF MessageLevels
  <2>4. kind = "DepthDiff" => r # << >> /\ U <= r[Len(r)].u + 1 /\ r[Len(r)].u <= u
    BY <1>1
  <2>5. NextMessageOK(r, g, c)
    BY <1>5, <2>2, <2>3, <2>4, Zenon DEF NextMessageOK
  <2> QED
    BY <2>2, <2>5, Zenon DEF StreamOK
<1>10. RingOK(ring, clean)'
  BY <1>6, <1>7, <1>8, RingStays, ZenonT(30)
<1>11. IncomingOK(incoming)'
  BY <1>5, <1>6, <1>7, IncomingStays, ZenonT(30)
<1>12. StreamOK(ring, incoming, clean)'
  BY <1>5, <1>6, <1>7, <1>8, <1>9, StreamStays, ZenonT(30)
<1>13. ReconOK(recon, ring, incoming)'
  BY <1>5, <1>6, Zenon DEF ReconOK
<1>14. QueueOK'
  BY <1>7, QueueStays, ZenonT(30) DEF IInv
<1>15. TypeOK'
  BY <1>5, <1>6, ZenonT(60) DEF IInv, TypeOK
<1> QED
  BY <1>7, <1>10, <1>11, <1>12, <1>13, <1>14, <1>15, ZenonT(60) DEF IInv

LEMMA ResyncStep ==
  ASSUME IInv, NEW L \in 0 .. LastId, Resync(L)
  PROVE  IInv'
<1>1. L \in Ids
  BY MaxUpdatesAssumption DEF IInv, TypeOK, HistoryOK, LastId, Ids
<1>2. /\ incoming = << >> /\ UNCHANGED <<books, deleted, book, ring, cc_queue, result, clean>>
      /\ incoming' = EventGroup("Snapshot", L, L, PresentLevels(L))
  BY DEF Resync, SnapshotGroup
<1>3. /\ recon' \in [state: ReconStates, snapshot_last_id: Ids, prev_u: Ids]
      /\ L = IF recon'.state = "Live" THEN recon'.prev_u ELSE recon'.snapshot_last_id
  BY <1>1, MaxUpdatesAssumption DEF Resync, ReconOnSnapshot, ReconStates, Ids
<1>4. PICK S : S = PresentLevels(L)
  BY Zenon
<1>5. PICK kind \in {"Snapshot", "DepthDiff"} : kind = "Snapshot"
  OBVIOUS
<1>6. S = IF kind = "Snapshot" THEN PresentLevels(L) ELSE ChangedLevels(L, L)
  BY <1>4, <1>5
<1>7. kind # "DepthDiff" /\ incoming' = EventGroup(kind, L, L, S)
  BY <1>2, <1>4, <1>5, ZenonT(30)
<1> QED
  BY <1>1, <1>2, <1>3, <1>6, <1>7, EmitStep, ZenonT(30)

LEMMA EmitDiffStep ==
  ASSUME IInv, NEW U \in 1 .. LastId, NEW u \in 1 .. LastId, U <= u, EmitDiff(U, u)
  PROVE  IInv'
<1>1. U \in Ids /\ u \in Ids /\ u \in 0 .. LastId /\ U \in Nat /\ u \in Nat
  BY MaxUpdatesAssumption DEF IInv, TypeOK, HistoryOK, LastId, Ids
<1>2. /\ incoming = << >> /\ UNCHANGED <<books, deleted, book, ring, cc_queue, result, clean>>
      /\ incoming' = EventGroup("DepthDiff", U, u, ChangedLevels(U, u))
      /\ ReconAction(recon, U, u) \in {"EmitAndGoLive", "Emit"}
      /\ recon' = ReconOnDiffGroup(recon, U, u)
  BY DEF EmitDiff, DiffGroup
<1>3. /\ recon \in [state: ReconStates, snapshot_last_id: Ids, prev_u: Ids]
      /\ ReconOK(recon, ring, << >>)
  BY <1>2 DEF IInv, TypeOK
<1>4. /\ recon' \in [state: ReconStates, snapshot_last_id: Ids, prev_u: Ids]
      /\ u = IF recon'.state = "Live" THEN recon'.prev_u ELSE recon'.snapshot_last_id
      /\ ring # << >> /\ U <= ring[Len(ring)].u + 1 /\ ring[Len(ring)].u <= u
  <2>1. recon.snapshot_last_id \in Nat /\ recon.prev_u \in Nat /\ recon.state \in ReconStates
    BY <1>3, MaxUpdatesAssumption DEF Ids
  <2>2. CASE recon.state = "AwaitFirstEvent"
    <3>1. ~(u <= recon.snapshot_last_id) /\ Bracket(recon, U) /\ ReconAction(recon, U, u) = "EmitAndGoLive"
      BY <1>2, <2>2 DEF ReconAction
    <3>2. recon' = [recon EXCEPT !.prev_u = u, !.state = "Live"]
      BY <1>2, <3>1 DEF ReconOnDiffGroup
    <3>3. ring # << >> /\ ring[Len(ring)].u = recon.snapshot_last_id
      BY <1>3, <2>2 DEF ReconOK
    <3>4. U <= ring[Len(ring)].u + 1 /\ ring[Len(ring)].u <= u
      BY <1>1, <2>1, <3>1, <3>3 DEF Bracket
    <3>5. recon'.state = "Live" /\ recon'.prev_u = u
          /\ recon' \in [state: ReconStates, snapshot_last_id: Ids, prev_u: Ids]
      BY <1>1, <1>3, <3>2, Zenon DEF ReconStates
    <3> QED
      BY <3>3, <3>4, <3>5
  <2>3. CASE recon.state = "Live"
    <3>1. Continues(recon, U) /\ ReconAction(recon, U, u) = "Emit"
      BY <1>2, <2>3 DEF ReconAction
    <3>2. recon' = [recon EXCEPT !.prev_u = u]
      BY <1>2, <3>1 DEF ReconOnDiffGroup
    <3>3. ring # << >> /\ ring[Len(ring)].u = recon.prev_u
      BY <1>3, <2>3 DEF ReconOK
    <3> QED
      BY <1>1, <1>3, <2>1, <2>3, <3>1, <3>2, <3>3 DEF Continues, ReconStates
  <2>4. CASE recon.state = "Idle"
    BY <1>2, <2>4 DEF ReconAction
  <2> QED
    BY <2>1, <2>2, <2>3, <2>4, ZenonT(30) DEF ReconStates
<1>5. PICK S : S = ChangedLevels(U, u)
  BY Zenon
<1>6. PICK kind \in {"Snapshot", "DepthDiff"} : kind = "DepthDiff"
  OBVIOUS
<1>7. S = IF kind = "Snapshot" THEN PresentLevels(u) ELSE ChangedLevels(U, u)
  BY <1>5, <1>6
<1>8. incoming' = EventGroup(kind, U, u, S)
  BY <1>2, <1>5, <1>6
<1> QED
  BY <1>1, <1>2, <1>4, <1>7, <1>8, EmitStep, ZenonT(60)

LEMMA DrainStep ==
  ASSUME IInv, Drain
  PROVE  IInv'
<1>1. PICK r \in Seq(Event) : r = ring
  BY DEF IInv, TypeOK
<1>2. PICK s \in Seq(Event) : s = incoming
  BY DEF IInv, TypeOK
<1>3. PICK c \in [Levels -> Ids] : c = clean
  BY DEF IInv, TypeOK
<1>4. s # << >> /\ UNCHANGED <<books, deleted, recon, cc_queue, result>>
  BY <1>2 DEF Drain
<1>5. PICK ev : ev = s[1]
  BY Zenon
<1>6. PICK r0 : r0 = IF ev.start THEN << >> ELSE r
  BY Zenon
<1>7. PICK q : q = RecordRing(r0, ev)
  BY Zenon
<1>8. PICK c2 : c2 = ApplyEvent(IF ev.start THEN EmptyBook ELSE c, ev)
  BY Zenon
<1>9. PICK t : t = Tail(s)
  BY Zenon
<1>10. Head(s) = ev /\ ev \in Event
  BY <1>4, <1>5
<1>11. /\ ring' = q /\ clean' = c2 /\ incoming' = t
       /\ book' = ApplyEvent(IF ev.start THEN EmptyBook ELSE book, ev)
  BY <1>1, <1>2, <1>3, <1>6, <1>7, <1>8, <1>9, <1>10, ZenonT(30) DEF Drain
<1>12. RingOK(r, c) /\ IncomingOK(s) /\ StreamOK(r, s, c) /\ ReconOK(recon, r, s)
  BY <1>1, <1>2, <1>3 DEF IInv
<1>13. r0 \in Seq(Event) /\ Len(r0) <= RingCap
  <2>1. Len(r) <= RingCap
    BY <1>1 DEF IInv, TypeOK
  <2> QED
    BY <1>6, <2>1, RingAssumption
<1>14. /\ q \in Seq(Event) /\ Len(q) \in 1 .. RingCap /\ q # << >>
       /\ \E p : Recorded(r0, ev, q, p)
  BY <1>7, <1>10, <1>13, RecordFacts, Zenon
<1>15. PICK n \in Nat : n = Len(r0)
  BY <1>13
<1>16. PICK k \in Nat : k = Len(q)
  BY <1>14, LenProperties, Zenon
<1>17. PICK p : Recorded(r0, ev, q, p)
  BY <1>14, Zenon
<1>17a. q[Len(q)] = ev /\ p \in 0 .. n
  BY <1>15, <1>17, Zenon DEF Recorded
<1>18. RingOK(q, c2) /\ StreamOK(q, t, c2)
  <2>1. TypeOK /\ HistoryOK
    BY DEF IInv
  <2> QED
    BY <1>4, <1>5, <1>6, <1>8, <1>9, <1>12, <1>14, <1>15, <1>16, <1>17, <1>17a, <2>1, DrainRing, Zenon
<1>19. /\ t \in Seq(Event) /\ IncomingOK(t) /\ (t # << >> => t[1].u = ev.u)
  BY <1>4, <1>5, <1>9, <1>12, RestOK, Zenon
<1>20. HistoryGrows /\ HistoryOK'
  BY <1>4, SameHistory DEF IInv
<1>21. RingOK(ring, clean)'
  BY <1>11, <1>14, <1>18, <1>20, RingStays, ZenonT(30)
<1>22. IncomingOK(incoming)'
  BY <1>11, <1>19, <1>20, IncomingStays, ZenonT(30)
<1>23. StreamOK(ring, incoming, clean)'
  BY <1>11, <1>14, <1>18, <1>19, <1>20, StreamStays
<1>24. ReconOK(recon, ring, incoming)'
  <2>1. recon' = recon
    BY <1>4
  <2>2. ReconOK(recon, q, t)
    BY <1>4, <1>5, <1>12, <1>14, <1>17a, <1>19, Zenon DEF ReconOK
  <2> QED
    BY <1>11, <2>1, <2>2, Zenon DEF ReconOK
<1>25. QueueOK'
  BY <1>4, <1>20, QueueStays, ZenonT(30) DEF IInv
<1>26. TypeOK'
  <2>1. ev.levels \in Contents /\ 0 \in Ids
    BY <1>10, MaxUpdatesAssumption DEF Event, Ids
  <2>2. PICK D \in SUBSET Levels : ev.levels \in [D -> Ids]
    BY <2>1, Zenon DEF Contents
  <2>3. \A b \in [Levels -> Ids] :
          ApplyEvent(IF ev.start THEN EmptyBook ELSE b, ev) \in [Levels -> Ids]
    BY <2>1, <2>2 DEF ApplyEvent, EmptyBook
  <2>4. c2 \in [Levels -> Ids] /\ book' \in [Levels -> Ids]
    BY <1>8, <1>11, <2>3, Zenon DEF IInv, TypeOK
  <2>5. Len(q) <= RingCap
    BY <1>14
  <2> QED
    BY <1>4, <1>11, <1>14, <1>19, <2>4, <2>5, ZenonT(30) DEF IInv, TypeOK
<1> QED
  BY <1>20, <1>21, <1>22, <1>23, <1>24, <1>25, <1>26, Zenon DEF IInv

LEMMA FetchStep ==
  ASSUME IInv, NEW L \in 0 .. LastId, CrossCheckFetch(L)
  PROVE  IInv'
<1>1. PICK m : m = [last_update_id |-> L, levels |-> Top(ExchangeBook(L), SnapshotDepth)]
  BY Zenon
<1>2. PICK q \in Seq(Message) : q = cc_queue
  BY DEF IInv, TypeOK, Message
<1>3. /\ cc_queue' = IF Len(q) < CcCapacity THEN Append(q, m) ELSE q
      /\ UNCHANGED <<books, deleted, recon, incoming, book, ring, result, clean>>
  BY <1>1, <1>2, Zenon DEF CrossCheckFetch
<1>4. L \in Ids /\ L <= LastId
  BY MaxUpdatesAssumption DEF IInv, TypeOK, HistoryOK, LastId, Ids
<1>5. m \in Message
  <2>1. Top(ExchangeBook(L), SnapshotDepth) \in Contents
    BY TopType DEF IInv
  <2> QED
    BY <1>1, <1>4, <2>1 DEF Message
<1>6. m.last_update_id = L /\ m.levels = Top(ExchangeBook(L), SnapshotDepth)
  BY <1>1, Zenon
<1>7. HistoryGrows /\ HistoryOK' /\ \A n : ExchangeBook(n)' = ExchangeBook(n) /\ LastId' = LastId
  <2>1. HistoryGrows /\ HistoryOK'
    BY <1>3, SameHistory DEF IInv
  <2> QED
    BY <1>3, <2>1 DEF ExchangeBook, LastId
<1>8. /\ RingOK(ring, clean)' /\ IncomingOK(incoming)'
      /\ StreamOK(ring, incoming, clean)' /\ ReconOK(recon, ring, incoming)'
  BY <1>3, <1>7, StreamUntouched, ZenonT(30)
<1>9. /\ cc_queue' \in Seq(Message) /\ Len(cc_queue') <= CcCapacity
      /\ \A i \in 1 .. Len(cc_queue') : cc_queue'[i] = m \/ \E j \in 1 .. Len(q) : cc_queue'[i] = q[j]
  <2>1. Len(q) <= CcCapacity
    BY <1>2 DEF IInv, TypeOK
  <2>2. CASE Len(q) < CcCapacity
    <3>1. cc_queue' = Append(q, m)
      BY <1>3, <2>2
    <3>2. /\ cc_queue' \in Seq(Message) /\ Len(cc_queue') = Len(q) + 1
          /\ cc_queue'[Len(q) + 1] = m /\ \A i \in 1 .. Len(q) : cc_queue'[i] = q[i]
      BY <1>5, <3>1
    <3>3. \A i \in 1 .. Len(q) + 1 : i = Len(q) + 1 \/ i \in 1 .. Len(q)
      OBVIOUS
    <3>4. Len(q) + 1 <= CcCapacity
      BY <2>2, CcCapacityAssumption
    <3> QED
      BY <3>2, <3>3, <3>4
  <2>3. CASE ~(Len(q) < CcCapacity)
    BY <1>3, <2>1, <2>3
  <2> QED
    BY <2>2, <2>3
<1>10. QueueOK'
  <2> DEFINE Good(x) == /\ x.last_update_id <= LastId
                        /\ x.levels = Top(ExchangeBook(x.last_update_id), SnapshotDepth)
  <2>1. \A j \in 1 .. Len(q) : Good(q[j])
    BY <1>2, Zenon DEF IInv, QueueOK
  <2>2. Good(m)
    BY <1>4, <1>6, Zenon
  <2> HIDE DEF Good
  <2>3. \A i \in 1 .. Len(cc_queue') : Good(cc_queue'[i])
    BY <1>9, <2>1, <2>2, Zenon
  <2>4. deleted' = deleted
    BY <1>3
  <2>5. \A x : Top(ExchangeBook(x), SnapshotDepth)' = Top(ExchangeBook(x), SnapshotDepth)
    BY <1>3, ZenonT(60) DEF Top, ExchangeBook
  <2> QED
    BY <1>7, <2>3, <2>5, Zenon DEF QueueOK, Good
<1>11. TypeOK'
  <2>1. cc_queue' \in Seq([last_update_id: Ids, levels: Contents])
    BY <1>9, Zenon DEF Message
  <2> QED
    BY <1>3, <1>9, <2>1 DEF IInv, TypeOK
<1> QED
  BY <1>7, <1>8, <1>10, <1>11, Zenon DEF IInv

\* What CrossCheck returns is one of its results.
LEMMA ResultType ==
  \A b, m, r : CheckResult(b, m, r) \in {"Match", "Mismatch", "Skipped"}
BY Zenon DEF CheckResult

LEMMA CheckStep ==
  ASSUME IInv, HandleCrossCheck
  PROVE  IInv'
<1>1. PICK q \in Seq(Message) : q = cc_queue /\ q # << >>
  BY DEF IInv, TypeOK, Message, HandleCrossCheck
<1>2. /\ cc_queue' = Tail(q) /\ result' = CheckResult(book, Head(cc_queue), ring)
      /\ UNCHANGED <<books, deleted, recon, incoming, book, ring, clean>>
  BY <1>1 DEF HandleCrossCheck
<1>3. HistoryGrows /\ HistoryOK' /\ \A n : ExchangeBook(n)' = ExchangeBook(n) /\ LastId' = LastId
  <2>1. HistoryGrows /\ HistoryOK'
    BY <1>2, SameHistory DEF IInv
  <2> QED
    BY <1>2, <2>1 DEF ExchangeBook, LastId
<1>4. /\ RingOK(ring, clean)' /\ IncomingOK(incoming)'
      /\ StreamOK(ring, incoming, clean)' /\ ReconOK(recon, ring, incoming)'
  BY <1>2, <1>3, StreamUntouched
<1>5. /\ cc_queue' \in Seq(Message) /\ Len(cc_queue') = Len(q) - 1
      /\ \A i \in 1 .. Len(q) - 1 : cc_queue'[i] = q[i + 1] /\ i + 1 \in 1 .. Len(q)
  BY <1>1, <1>2
<1>6. QueueOK'
  <2> DEFINE Good(x) == /\ x.last_update_id <= LastId
                        /\ x.levels = Top(ExchangeBook(x.last_update_id), SnapshotDepth)
  <2>1. \A j \in 1 .. Len(q) : Good(q[j])
    BY <1>1, Zenon DEF IInv, QueueOK
  <2> HIDE DEF Good
  <2>3. \A i \in 1 .. Len(cc_queue') : Good(cc_queue'[i])
    BY <1>5, <2>1, Zenon
  <2>5. \A x : Top(ExchangeBook(x), SnapshotDepth)' = Top(ExchangeBook(x), SnapshotDepth)
    BY <1>2, ZenonT(60) DEF Top, ExchangeBook
  <2> QED
    BY <1>3, <2>3, <2>5, Zenon DEF QueueOK, Good
<1>7. TypeOK'
  <2>1. cc_queue' \in Seq([last_update_id: Ids, levels: Contents])
    BY <1>5, Zenon DEF Message
  <2>2. Len(q) - 1 <= CcCapacity
    BY <1>1, CcCapacityAssumption DEF IInv, TypeOK
  <2>3. result' \in {"None", "Match", "Mismatch", "Skipped"}
    BY <1>2, ResultType
  <2> QED
    BY <1>2, <1>5, <2>1, <2>2, <2>3, ZenonT(60) DEF IInv, TypeOK
<1> QED
  BY <1>3, <1>4, <1>6, <1>7, Zenon DEF IInv

LEMMA DamageStep ==
  ASSUME IInv, NEW x \in Levels, NEW n \in 0 .. LastId, Damage(x, n)
  PROVE  IInv'
<1>1. /\ book' = [book EXCEPT ![x] = ExchangeBook(n)[x]]
      /\ UNCHANGED <<books, deleted, recon, incoming, ring, cc_queue, result, clean>>
  BY DEF Damage
<1>2. HistoryGrows /\ HistoryOK'
  BY <1>1, SameHistory DEF IInv
<1>3. /\ RingOK(ring, clean)' /\ IncomingOK(incoming)'
      /\ StreamOK(ring, incoming, clean)' /\ ReconOK(recon, ring, incoming)'
  BY <1>1, <1>2, StreamUntouched
<1>4. QueueOK'
  BY <1>1, <1>2, QueueStays, ZenonT(30) DEF IInv
<1>5. TypeOK'
  <2>1. PICK e \in [Levels -> Ids] : e = ExchangeBook(n)
    BY BookType DEF IInv
  <2>2. book' \in [Levels -> Ids]
    BY <1>1, <2>1 DEF IInv, TypeOK
  <2> QED
    BY <1>1, <2>2 DEF IInv, TypeOK
<1> QED
  BY <1>2, <1>3, <1>4, <1>5, Zenon DEF IInv

LEMMA InvNext == IInv /\ [Next]_vars => IInv'
<1> SUFFICES ASSUME IInv, [Next]_vars PROVE IInv'
  OBVIOUS
<1>1. ASSUME NEW l \in Levels, ExchangeUpdate(l) \/ ExchangeDelete(l) PROVE IInv'
  BY <1>1, ExchangeStep
<1>2. ASSUME NEW L \in Recent, Resync(L) \/ CrossCheckFetch(L) PROVE IInv'
  <2>1. L \in 0 .. LastId
    BY DEF Recent
  <2> QED
    BY <1>2, <2>1, ResyncStep, FetchStep
<1>3. ASSUME NEW U \in 1 .. LastId, NEW u \in 1 .. LastId, U <= u, EmitDiff(U, u) PROVE IInv'
  BY <1>3, EmitDiffStep
<1>4. CASE Drain
  BY <1>4, DrainStep
<1>5. CASE HandleCrossCheck
  BY <1>5, CheckStep
<1>6. ASSUME NEW l \in Levels, NEW n \in 0 .. LastId, Damage(l, n) PROVE IInv'
  BY <1>6, DamageStep
<1>7. CASE UNCHANGED vars
  <2>1. HistoryGrows /\ HistoryOK'
    BY <1>7, SameHistory DEF IInv, vars
  <2>2. /\ RingOK(ring, clean)' /\ IncomingOK(incoming)'
        /\ StreamOK(ring, incoming, clean)' /\ ReconOK(recon, ring, incoming)'
    BY <1>7, <2>1, StreamUntouched DEF vars
  <2>3. QueueOK'
    BY <1>7, <2>1, QueueStays DEF IInv, vars
  <2>4. TypeOK'
    BY <1>7 DEF IInv, TypeOK, vars
  <2> QED
    BY <2>1, <2>2, <2>3, <2>4, Zenon DEF IInv
<1> QED
  BY <1>1, <1>2, <1>3, <1>4, <1>5, <1>6, <1>7, ZenonT(30) DEF Next

\* The events that RecordRing keeps tell the undamaged book level by level, what is
\* still to come completes the message Drain is in, and a snapshot on its way is the
\* top of the exchange's book at its id.
THEOREM Invariant == Spec => []IInv
<1> QED
  BY InvInit, InvNext, PTL DEF Spec
-----------------------------------------------------------------------------
(* The results *)

\* A check that is not skipped compares the undamaged book with the live one.
LEMMA CheckCompares ==
  ASSUME IInv, HandleCrossCheck, Comparable(Head(cc_queue)), result' # "Skipped"
  PROVE  result' = IF Top(clean, CheckLevels) = Top(book, CheckLevels)
                   THEN "Match" ELSE "Mismatch"
<1>1. PICK msg : msg = Head(cc_queue)
  BY Zenon
<1>2. /\ msg \in Message /\ msg.last_update_id <= LastId
      /\ msg.levels = Top(ExchangeBook(msg.last_update_id), SnapshotDepth)
  <2>1. cc_queue \in Seq(Message) /\ cc_queue # << >>
    BY DEF IInv, TypeOK, Message, HandleCrossCheck
  <2>2. 1 \in 1 .. Len(cc_queue) /\ msg = cc_queue[1] /\ msg \in Message
    BY <1>1, <2>1, EmptySeq
  <2> QED
    BY <2>2, Zenon DEF IInv, QueueOK
<1>3. PICK L \in Nat : L = msg.last_update_id
  BY <1>2, MaxUpdatesAssumption DEF Message, Ids
<1>4. PICK start : start = {i \in DOMAIN ring : IsFirstPast(ring, i, L)}
  BY Zenon
<1>5. PICK b : b = CHOOSE i \in start : TRUE
  BY Zenon
<1>6. PICK tail : tail = SubSeq(ring, b, Len(ring))
  BY Zenon
<1>7. PICK scratch : scratch = Replayed(Seeded(msg), tail)
  BY Zenon
<1>8. result' =
        IF \/ start = {}
           \/ ~Reaches(Head(tail), L)
           \/ \E i \in DOMAIN tail : tail[i].kind = "Snapshot"
           \/ Cardinality(DOMAIN Top(scratch, CheckLevels)) < CheckLevels
        THEN "Skipped"
        ELSE IF SameTop(scratch, book) THEN "Match" ELSE "Mismatch"
  BY <1>1, <1>3, <1>4, <1>5, <1>6, <1>7, Zenon DEF HandleCrossCheck, CheckResult
<1>9. /\ start # {} /\ Reaches(Head(tail), L)
      /\ result' = IF SameTop(scratch, book) THEN "Match" ELSE "Mismatch"
  BY <1>8, Zenon
<1>10. b \in start
  BY <1>5, <1>9, Zenon
<1>11. b \in DOMAIN ring /\ IsFirstPast(ring, b, L)
  BY <1>4, <1>10, Zenon
<1>12. b \in 1 .. Len(ring) /\ ring \in Seq(Event) /\ Len(ring) \in Nat
  BY <1>11 DEF IInv, TypeOK
<1>13. Head(tail) = ring[b]
  <2>1. Len(ring) + 1 - b >= 1 /\ 1 \in 1 .. Len(ring) + 1 - b /\ b + 1 - 1 = b
    BY <1>12
  <2>2. tail \in Seq(Event) /\ Len(tail) = Len(ring) + 1 - b /\ tail[1] = ring[b + 1 - 1]
    BY <1>6, <1>12, <2>1
  <2> QED
    BY <2>1, <2>2
<1>14. Top(scratch, CheckLevels) = Top(clean, CheckLevels)
  <2>1. L <= LastId /\ msg.levels = Top(ExchangeBook(L), SnapshotDepth) /\ Comparable(msg)
    BY <1>1, <1>2, <1>3
  <2>2. Reaches(ring[b], L)
    BY <1>9, <1>13
  <2>3. Top(Replayed(Seeded(msg), SubSeq(ring, b, Len(ring))), CheckLevels)
          = Top(clean, CheckLevels)
    BY <1>3, <1>11, <1>12, <2>1, <2>2, ScratchIsLive, ZenonT(60)
  <2> QED
    BY <1>6, <1>7, <2>3, Zenon
<1> QED
  BY <1>9, <1>14, Zenon DEF SameTop

\* Only a check takes a message from the queue.
LEMMA OnlyChecks ==
  ASSUME IInv, [Next]_vars, Checked
  PROVE  HandleCrossCheck
<1>1. PICK q \in Seq(Message) : q = cc_queue /\ q # << >>
  BY DEF IInv, TypeOK, Message, Checked
<1>2. cc_queue' = Tail(q) /\ Len(Tail(q)) = Len(q) - 1 /\ Len(q) \in Nat
  BY <1>1 DEF Checked
<1>3. cc_queue' # cc_queue
  <2>1. Len(q) - 1 # Len(q)
    BY <1>2
  <2>2. Tail(q) # q
    BY <1>2, <2>1, Zenon
  <2> QED
    BY <1>1, <1>2, <2>2, Zenon
<1>4. ASSUME NEW L, CrossCheckFetch(L) PROVE FALSE
  <2>1. PICK m : m = [last_update_id |-> L, levels |-> Top(ExchangeBook(L), SnapshotDepth)]
    BY Zenon
  <2>2. cc_queue' = Append(q, m) \/ cc_queue' = cc_queue
    BY <1>1, <1>4, <2>1, Zenon DEF CrossCheckFetch
  <2>3. Len(Append(q, m)) = Len(q) + 1
    OBVIOUS
  <2>4. Tail(q) # Append(q, m)
    BY <1>2, <2>3
  <2> QED
    BY <1>2, <1>3, <2>2, <2>4
<1> QED
  BY <1>3, <1>4, ZenonT(60)
  DEF Next, vars, ExchangeUpdate, ExchangeDelete, Resync, EmitDiff, Drain, Damage

\* The ring never holds more than kRingCap events nor the queue more than its
\* slots, and every book and event has contents of updates the exchange has made.
THEOREM TypeCorrect == Spec => []TypeOK
<1>1. IInv => TypeOK
  BY DEF IInv
<1> QED
  BY <1>1, Invariant, PTL

\* CrossCheck never reports a mismatch for an undamaged book, for every ring size,
\* depth and staleness of the snapshot, and between any two events of the stream,
\* as long as the bracketing message is whole and the snapshot deep enough.
THEOREM NoFalseAlarms == Spec => NoFalseAlarm
<1>1. IInv /\ [Next]_vars =>
        [Checked /\ Comparable(Head(cc_queue)) /\ result' = "Mismatch" => book # clean]_vars
  <2> SUFFICES ASSUME IInv, [Next]_vars,
                      Checked, Comparable(Head(cc_queue)), result' = "Mismatch", book = clean
               PROVE  FALSE
    BY Zenon
  <2>1. HandleCrossCheck
    BY OnlyChecks
  <2>2. result' # "Skipped"
    OBVIOUS
  <2>3. result' = IF Top(clean, CheckLevels) = Top(book, CheckLevels)
                  THEN "Match" ELSE "Mismatch"
    BY <2>1, <2>2, CheckCompares
  <2>4. Top(clean, CheckLevels) = Top(book, CheckLevels)
    OBVIOUS
  <2>5. result' = "Match"
    BY <2>3, <2>4, Zenon
  <2> QED
    BY <2>5
<1> QED
  BY <1>1, Invariant, PTL DEF Spec, NoFalseAlarm

\* A match that CrossCheck reports means that the best crosscheck_levels levels of
\* the live book are undamaged.
THEOREM MatchesExact == Spec => MatchIsExact
<1>1. IInv /\ [Next]_vars =>
        [Checked /\ Comparable(Head(cc_queue)) /\ result' = "Match" =>
           Top(book, CheckLevels) = Top(clean, CheckLevels)]_vars
  <2> SUFFICES ASSUME IInv, [Next]_vars,
                      Checked, Comparable(Head(cc_queue)), result' = "Match"
               PROVE  Top(book, CheckLevels) = Top(clean, CheckLevels)
    BY Zenon
  <2>1. HandleCrossCheck
    BY OnlyChecks
  <2>2. result' # "Skipped" /\ result' # "Mismatch"
    OBVIOUS
  <2>3. result' = IF Top(clean, CheckLevels) = Top(book, CheckLevels)
                  THEN "Match" ELSE "Mismatch"
    BY <2>1, <2>2, CheckCompares
  <2> QED
    BY <2>2, <2>3, Zenon
<1> QED
  BY <1>1, Invariant, PTL DEF Spec, MatchIsExact
=============================================================================
