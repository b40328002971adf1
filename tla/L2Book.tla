------------------------------- MODULE L2Book ------------------------------
(***************************************************************************)
(* The bounded price ladder of src/core/book.cpp, fed with every change of *)
(* the exchange's book.  Each side is an array, worst price first, of at   *)
(* most MaxLevels levels; a level that does not fit is evicted or dropped. *)
(* No operation on one side reads or writes the other, so the module has   *)
(* one side, which may be either.                                          *)
(*                                                                         *)
(* Array indices are those of the code plus one.                           *)
(***************************************************************************)
EXTENDS Integers, FiniteSets, SequencesExt

CONSTANTS Prices,         \* px_ticks that occur
          Quantities,     \* non-zero qty_lots that occur
          MaxLevels,      \* kMaxLevels
          SnapshotDepth   \* levels per side of a REST snapshot (at least MaxLevels)

ASSUME PricesAssumption == Prices \subseteq Nat /\ IsFiniteSet(Prices)
ASSUME QuantitiesAssumption == Quantities \subseteq Nat \ {0}
ASSUME MaxLevelsAssumption == MaxLevels \in Nat \ {0}
ASSUME SnapshotDepthAssumption == SnapshotDepth \in Nat /\ SnapshotDepth >= MaxLevels

Sides == {"Bid", "Ask"}

VARIABLES side,      \* the side modelled
          arr,       \* bids_ up to num_bids_, or asks_ up to num_asks_
          exchange,  \* the exchange's full side: the quantity at each price, or 0
          deletions  \* history: levels the exchange deleted since the last rebuild

bookVars == <<side, arr, exchange, deletions>>
-----------------------------------------------------------------------------
(* Apply *)

\* is_worse
IsWorse(a, b) == IF side = "Bid" THEN a < b ELSE a > b

\* The binary search for [lo, hi): the number of levels it finds worse than px.
\* LowerBoundMutant is the loop with hi = mid - 1.
LowerBoundMutant(a, px) ==
  LET n == Len(a)
      search[r \in (0 .. n) \X (-1 .. n)] ==
        LET lo  == r[1]
            hi  == r[2]
            mid == lo + (hi - lo) \div 2
        IN  IF lo >= hi THEN lo
            ELSE IF IsWorse(a[mid + 1].px, px) THEN search[<<mid + 1, hi>>]
            ELSE search[<<lo, mid - 1>>]
  IN  search[<<0, n>>]

LowerBound(a, px) ==
  LET n == Len(a)
      search[r \in (0 .. n) \X (0 .. n)] ==
        LET lo  == r[1]
            hi  == r[2]
            mid == lo + (hi - lo) \div 2
        IN  IF lo >= hi THEN lo
            ELSE IF IsWorse(a[mid + 1].px, px) THEN search[<<mid + 1, hi>>]
            ELSE search[<<lo, mid>>]
  IN  search[<<0, n>>]

\* A full side makes room for a better level by evicting its worst one.
\* InsertFullMutant inserts at the index computed before the eviction;
\* InsertFullMutant2 evicts the best level.
InsertFullMutant(a, idx, level) == InsertAt(RemoveAt(a, 1), Min({idx + 1, Len(a)}), level)
InsertFullMutant2(a, idx, level) ==
  InsertAt(RemoveAt(a, Len(a)), Min({idx + 1, Len(a)}), level)
InsertFull(a, idx, level) == InsertAt(RemoveAt(a, 1), Max({idx, 1}), level)

\* A side has room for another level.
HasRoom(a) == Len(a) < MaxLevels

\* A level that is there takes the new quantity.
SetQty(a, i, qty) == [a EXCEPT ![i].qty = qty]

\* Apply: one side of the book after a level update.
Apply(a, px, qty) ==
  LET idx   == LowerBound(a, px)
      found == idx < Len(a) /\ a[idx + 1].px = px
      level == [px |-> px, qty |-> qty]
  IN  IF found
      THEN IF qty = 0 THEN RemoveAt(a, idx + 1) ELSE SetQty(a, idx + 1, qty)
      ELSE IF qty = 0 THEN a
      ELSE IF HasRoom(a) THEN InsertAt(a, idx + 1, level)
      ELSE IF IsWorse(px, a[1].px) THEN a
      ELSE InsertFull(a, idx, level)

\* ApplyEvent on one side: the updates in order.
ApplyAll(a, updates) ==
  LET after[n \in 0 .. Len(updates)] ==
        IF n = 0 THEN a ELSE Apply(after[n - 1], updates[n].px, updates[n].qty)
  IN  after[Len(updates)]

\* DepthAt: the n-th level from the top, n = 0 the best; null if there is none.
DepthAt(a, n) == IF n >= Len(a) THEN << >> ELSE <<a[Len(a) - n]>>
-----------------------------------------------------------------------------
(* The exchange (external). *)

\* The prices of the exchange's side.
Levels == {p \in Prices : exchange[p] > 0}

\* The exchange's side as a sequence of levels, best price first.
BestFirst ==
  LET nth(n) == CHOOSE p \in Levels : Cardinality({q \in Levels : ~IsWorse(q, p)}) = n
  IN  [n \in 1 .. Cardinality(Levels) |-> [px |-> nth(n), qty |-> exchange[nth(n)]]]

-----------------------------------------------------------------------------
BookInit ==
  /\ side \in Sides
  /\ arr = << >>
  /\ exchange = [p \in Prices |-> 0]
  /\ deletions = 0

\* The exchange sets a level to qty (0 deletes it) and the diff is applied.
Diff(px, qty) ==
  LET gone == IF qty = 0 /\ exchange[px] > 0 THEN 1 ELSE 0
  IN  /\ exchange' = [exchange EXCEPT ![px] = qty]
      /\ arr' = ApplyAll(arr, <<[px |-> px, qty |-> qty]>>)
      /\ deletions' = Min({deletions + gone, MaxLevels})
      /\ UNCHANGED side

\* Resync: Clear, then the snapshot's levels in its order, best first.
Rebuild ==
  LET shown == SubSeq(BestFirst, 1, Min({SnapshotDepth, Len(BestFirst)}))
  IN  /\ arr' = ApplyAll(<< >>, shown)
      /\ deletions' = 0
      /\ UNCHANGED <<side, exchange>>

BookNext ==
  \/ \E p \in Prices, q \in Quantities \cup {0} : Diff(p, q)
  \/ Rebuild

BookSpec == BookInit /\ [][BookNext]_bookVars
-----------------------------------------------------------------------------
(* Properties *)

\* The array Apply maintains is a sound part of the exchange's side, whatever was
\* inserted, evicted, changed and deleted: it fits in kMaxLevels slots, prices run
\* strictly from worst to best, and every level is one of the exchange with its
\* quantity, so no deleted level lingers and no quantity is old.
SideIsSound ==
  /\ Len(arr) <= MaxLevels
  /\ \A i, j \in 1 .. Len(arr) : i < j => IsWorse(arr[i].px, arr[j].px)
  /\ \A i \in 1 .. Len(arr) : arr[i].qty = exchange[arr[i].px]

\* On every reachable side the binary search of Apply returns the number of
\* worse levels, for prices that are in the book and for prices that are not.
SearchFindsLowerBound ==
  \A p \in Prices :
    LowerBound(arr, p) = Cardinality({i \in 1 .. Len(arr) : IsWorse(arr[i].px, p)})

\* The bound costs one level of trustworthy depth per deletion: if d levels
\* were deleted since the rebuild, the best MaxLevels - d levels that DepthAt
\* reports are the exchange's.
TopIsExact ==
  \A n \in 0 .. MaxLevels - deletions - 1 :
    DepthAt(arr, n) = IF n < Len(BestFirst) THEN <<BestFirst[n + 1]>> ELSE << >>

\* core/book.hpp: "we keep the best kMaxLevels per side".
KeepsBestLevels ==
  Reverse(arr) = SubSeq(BestFirst, 1, Min({MaxLevels, Len(BestFirst)}))
=============================================================================
