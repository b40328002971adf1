----------------------------- MODULE DepthFeed -----------------------------
(***************************************************************************)
(* The exchange as the market-data code sees it, and the fixed-size events *)
(* the code makes of its messages.                                         *)
(*                                                                         *)
(* The exchange numbers its book updates 1, 2, 3, ...  A level's content  *)
(* is abstracted to its VERSION, the number of the last update that        *)
(* changed it (0: the level has never existed), so two books are equal     *)
(* exactly when they reflect the same updates of every level.  Messages    *)
(* carry absolute contents, never increments.                              *)
(***************************************************************************)
EXTENDS Naturals, Sequences, FiniteSets

CONSTANTS NumLevels,          \* number of price levels
          MaxLevelsPerEvent   \* kMaxLevelsPerEvent: levels one event can carry

ASSUME NumLevelsAssumption == NumLevels \in Nat
ASSUME PerEventAssumption == MaxLevelsPerEvent \in Nat \ {0}

VARIABLE books   \* the exchange's history: books[k] is its book after update k

Levels == 1 .. NumLevels

EmptyBook == [l \in Levels |-> 0]

\* The exchange's newest update id.
LastId == Len(books)

\* The exchange's book as of update n.
ExchangeBook(n) == IF n = 0 THEN EmptyBook ELSE books[n]

\* The exchange changes level l.
Update(l) == books' = Append(books, [ExchangeBook(LastId) EXCEPT ![l] = LastId + 1])

\* Levels present in the book at n, and levels changed by updates U .. u.
PresentLevels(n) == {l \in Levels : ExchangeBook(n)[l] > 0}
ChangedLevels(U, u) == {l \in Levels : ExchangeBook(u)[l] >= U}
-----------------------------------------------------------------------------
(* Fragmentation: a message with more levels than an event can carry       *)
(* becomes a group of events, all but the last flagged Continuation.  A    *)
(* message without levels still makes one event.                           *)

\* How many events a message with the levels S makes.
NumFragments(S) ==
  IF S = {} THEN 1
  ELSE (Cardinality(S) + MaxLevelsPerEvent - 1) \div MaxLevelsPerEvent

\* The levels of the i-th event.
FragmentLevels(S, i) ==
  {l \in S : Cardinality({k \in S : k < l}) \div MaxLevelsPerEvent = i - 1}

\* The group of MarketEvents for a message about updates U .. u with levels S.
EventGroup(kind, U, u, S) ==
  [i \in 1 .. NumFragments(S) |->
     [kind   |-> kind,
      U      |-> U,
      u      |-> u,
      start  |-> kind = "Snapshot" /\ i = 1,
      cont   |-> i < NumFragments(S),
      levels |-> [l \in FragmentLevels(S, i) |-> ExchangeBook(u)[l]]]]

\* A diff frame covering U .. u, as ParseDepthDiff delivers it.
DiffGroup(U, u) == EventGroup("DepthDiff", U, u, ChangedLevels(U, u))

\* The REST book at L, as Reconstructor::OnSnapshot emits it.
SnapshotGroup(L) == EventGroup("Snapshot", L, L, PresentLevels(L))
=============================================================================
