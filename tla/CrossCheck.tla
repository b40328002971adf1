----------------------------- MODULE CrossCheck -----------------------------
(***************************************************************************)
(* The cross-check of the live book against REST snapshots: the thread in  *)
(* src/engine/main.cpp that fetches them, CrossCheck of                    *)
(* src/engine/crosscheck.cpp, and the ring of recent events the engine     *)
(* keeps for it (engine.cpp).                                              *)
(*                                                                         *)
(* The event stream is the one MarketData establishes, delivered an event  *)
(* at a time: a message the reconstructor emits arrives whole, but the     *)
(* engine may run a check between its events, because Drain ends whenever  *)
(* the queue looks empty.  The two sides of the book are checked alike, so *)
(* there is one side here; level 1 is the best price.                      *)
(*                                                                         *)
(* A deletion is an update whose version means that the level is absent:   *)
(* deleted has their numbers.                                              *)
(*                                                                         *)
(* A fault is what the check exists to find: the live book losing an       *)
(* update of a level.  clean is the book without the faults.               *)
(***************************************************************************)
EXTENDS DepthFeed, Reconstructor

CONSTANTS StartLevels,     \* levels the exchange's book has at the start
          MaxUpdates,      \* bound on the exchange's updates
          SnapshotLag,     \* how far a REST server may be behind
          SnapshotDepth,   \* crosscheck_depth_limit
          CheckLevels,     \* crosscheck_levels
          RingCap,         \* kRingCap
          RingKeep,        \* kRingKeep
          CcCapacity,      \* slots of the CrossCheckQueue
          Faults           \* can the live book be damaged?

ASSUME StartAssumption == StartLevels \in 0 .. NumLevels
ASSUME MaxUpdatesAssumption == MaxUpdates \in Nat /\ MaxUpdates >= StartLevels
ASSUME SnapshotLagAssumption == SnapshotLag \in Nat
ASSUME DepthAssumption == CheckLevels \in Nat \ {0} /\ SnapshotDepth \in Nat /\ SnapshotDepth >= CheckLevels
ASSUME RingAssumption == RingCap \in Nat /\ RingKeep \in 1 .. RingCap
ASSUME CcCapacityAssumption == CcCapacity \in Nat \ {0}
ASSUME FaultsAssumption == Faults \in BOOLEAN

VARIABLES deleted,    \* the updates that removed their level
          recon,      \* recon_ of the market-data thread
          incoming,   \* events of the current message the engine has not popped
          book,       \* the levels of book_
          ring,       \* ring_
          cc_queue,   \* the CrossCheckQueue
          result,     \* the last CrossCheckResult
          clean       \* history: the book had there been no fault

vars == <<books, deleted, recon, incoming, book, ring, cc_queue, result, clean>>

Ids == 0 .. MaxUpdates
Contents == UNION {[S -> Ids] : S \in SUBSET Levels}
Event == [kind: {"Snapshot", "DepthDiff"}, U: Ids, u: Ids, start: BOOLEAN, cont: BOOLEAN,
          levels: Contents]

\* The types of the variables; the ring and the queue keep their bounds.
TypeOK ==
  /\ books \in Seq([Levels -> Ids]) /\ deleted \subseteq Ids
  /\ recon \in [state: ReconStates, snapshot_last_id: Ids, prev_u: Ids]
  /\ incoming \in Seq(Event)
  /\ book \in [Levels -> Ids] /\ clean \in [Levels -> Ids]
  /\ ring \in Seq(Event) /\ Len(ring) <= RingCap
  /\ cc_queue \in Seq([last_update_id: Ids, levels: Contents]) /\ Len(cc_queue) <= CcCapacity
  /\ result \in {"None", "Match", "Mismatch", "Skipped"}

Init ==
  /\ books = [n \in 1 .. StartLevels |-> [l \in Levels |-> IF l <= n THEN l ELSE 0]]
  /\ deleted = {}
  /\ recon = ReconReset
  /\ incoming = << >>
  /\ book = EmptyBook /\ clean = EmptyBook
  /\ ring = << >>
  /\ cc_queue = << >>
  /\ result = "None"
-----------------------------------------------------------------------------
(* Books and tops of books *)

\* ApplyEvent: the levels of an event replace those of the book.
ApplyEvent(b, ev) ==
  [l \in Levels |-> IF l \in DOMAIN ev.levels THEN ev.levels[l] ELSE b[l]]

\* The best n levels of a book, with their contents.
Top(b, n) ==
  LET present == {l \in Levels : b[l] > 0 /\ b[l] \notin deleted}
  IN  [l \in {l \in present : Cardinality({k \in present : k < l}) < n} |-> b[l]]
-----------------------------------------------------------------------------
(* CrossCheck *)

\* The scratch book seeded from the snapshot.
Seeded(msg) == ApplyEvent(EmptyBook, msg)

\* Where the replay may start: the first diff that runs past L.  An earlier one
\* is at or before the snapshot.
Past(ev, L) == ev.kind = "DepthDiff" /\ ev.u > L

\* That diff brackets the snapshot.  ReachesMutant accepts a ring that is one
\* update short.
ReachesMutant(ev, L) == ev.U <= L + 2
Reaches(ev, L) == ev.U <= L + 1

\* The level by level comparison.  SameTopMutant stops one level early.
SameTopMutant(a, b) == Top(a, CheckLevels - 1) = Top(b, CheckLevels - 1)
SameTop(a, b) == Top(a, CheckLevels) = Top(b, CheckLevels)

\* The event is the one the replay starts at.
IsFirstPast(recent, i, L) == Past(recent[i], L) /\ \A j \in 1 .. i - 1 : ~Past(recent[j], L)

\* The replay of some events on a book.
Replayed(b, evs) ==
  LET state[n \in 0 .. Len(evs)] ==
        IF n = 0 THEN b ELSE ApplyEvent(state[n - 1], evs[n])
  IN  state[Len(evs)]

\* CrossCheck: what is left of the ring from the bracket event on is replayed on
\* the snapshot, and the tops are compared.
CheckResult(live, msg, recent) ==
  LET L     == msg.last_update_id
      start == {i \in DOMAIN recent : IsFirstPast(recent, i, L)}
      tail  == SubSeq(recent, CHOOSE i \in start : TRUE, Len(recent))
      scratch == Replayed(Seeded(msg), tail)
  IN  IF \/ start = {}
         \/ ~Reaches(Head(tail), L)
         \/ \E i \in DOMAIN tail : tail[i].kind = "Snapshot"
         \/ Cardinality(DOMAIN Top(scratch, CheckLevels)) < CheckLevels
      THEN "Skipped"
      ELSE IF SameTop(scratch, live) THEN "Match" ELSE "Mismatch"
-----------------------------------------------------------------------------
(* The exchange (external) and the market-data thread as MarketData has it. *)

ExchangeUpdate(l) ==
  /\ LastId < MaxUpdates
  /\ Update(l)
  /\ UNCHANGED <<deleted, recon, incoming, book, ring, cc_queue, result, clean>>

ExchangeDelete(l) ==
  /\ LastId < MaxUpdates
  /\ l \in DOMAIN Top(ExchangeBook(LastId), NumLevels)
  /\ Update(l)
  /\ deleted' = deleted \cup {LastId + 1}
  /\ UNCHANGED <<recon, incoming, book, ring, cc_queue, result, clean>>

\* A (re)synchronisation: a snapshot of the whole book.
Resync(L) ==
  /\ incoming = << >>
  /\ recon' = ReconOnSnapshot(L)
  /\ incoming' = SnapshotGroup(L)
  /\ UNCHANGED <<books, deleted, book, ring, cc_queue, result, clean>>

\* A frame about U .. u that the reconstructor lets through.
EmitDiff(U, u) ==
  /\ incoming = << >>
  /\ ReconAction(recon, U, u) \in {"EmitAndGoLive", "Emit"}
  /\ recon' = ReconOnDiffGroup(recon, U, u)
  /\ incoming' = DiffGroup(U, u)
  /\ UNCHANGED <<books, deleted, book, ring, cc_queue, result, clean>>
-----------------------------------------------------------------------------
(* The engine and the cross-check thread. *)

\* RecordRing.  RecordRingMutant lets the ring grow.
RecordRingMutant(r, ev) == Append(r, ev)
RecordRing(r, ev) ==
  IF Len(r) < RingCap THEN Append(r, ev)
  ELSE SubSeq(Append(r, ev), Len(r) + 2 - RingKeep, Len(r) + 1)

\* Drain, for one event: Clear the book and the ring for a snapshot-start,
\* apply and record the event.
Drain ==
  /\ incoming # << >>
  /\ LET ev == Head(incoming)
     IN  /\ book' = ApplyEvent(IF ev.start THEN EmptyBook ELSE book, ev)
         /\ clean' = ApplyEvent(IF ev.start THEN EmptyBook ELSE clean, ev)
         /\ ring' = RecordRing(IF ev.start THEN << >> ELSE ring, ev)
  /\ incoming' = Tail(incoming)
  /\ UNCHANGED <<books, deleted, recon, cc_queue, result>>

\* The cross-check thread fetches the top of the exchange's book; a full queue
\* drops it.
CrossCheckFetch(L) ==
  LET msg == [last_update_id |-> L, levels |-> Top(ExchangeBook(L), SnapshotDepth)]
  IN  /\ cc_queue' = IF Len(cc_queue) < CcCapacity THEN Append(cc_queue, msg) ELSE cc_queue
      /\ UNCHANGED <<books, deleted, recon, incoming, book, ring, result, clean>>

\* HandleCrossChecks, for one message.  Its loop takes all that are there; one
\* that is left behind is one that was pushed a little later.
HandleCrossCheck ==
  /\ cc_queue # << >>
  /\ result' = CheckResult(book, Head(cc_queue), ring)
  /\ cc_queue' = Tail(cc_queue)
  /\ UNCHANGED <<books, deleted, recon, incoming, book, ring, clean>>

\* The fault: the live book has lost the updates of level l since the n-th.
Damage(l, n) ==
  /\ Faults /\ book = clean
  /\ ExchangeBook(n)[l] < book[l]
  /\ book' = [book EXCEPT ![l] = ExchangeBook(n)[l]]
  /\ UNCHANGED <<books, deleted, recon, incoming, ring, cc_queue, result, clean>>

Recent == {n \in 0 .. LastId : n + SnapshotLag >= LastId}

Next ==
  \/ \E l \in Levels : ExchangeUpdate(l) \/ ExchangeDelete(l)
  \/ \E L \in Recent : Resync(L) \/ CrossCheckFetch(L)
  \/ \E U, u \in 1 .. LastId : U <= u /\ EmitDiff(U, u)
  \/ Drain
  \/ HandleCrossCheck
  \/ \E l \in Levels, n \in 0 .. LastId : Damage(l, n)

Spec == Init /\ [][Next]_vars
-----------------------------------------------------------------------------
(* Properties *)

Checked == cc_queue # << >> /\ cc_queue' = Tail(cc_queue)

\* A depth-limited snapshot says nothing of the levels below it.  What is left of
\* it after the deletions since must reach as deep as the comparison.
Covers(msg) ==
  Cardinality({n \in deleted : n > msg.last_update_id}) <= SnapshotDepth - CheckLevels

\* The ring has every level of the message the replay starts with: its first
\* events have not been trimmed and its last ones have arrived.
BracketIsWhole(msg) ==
  \A i \in DOMAIN ring : IsFirstPast(ring, i, msg.last_update_id) =>
    \A l \in ChangedLevels(ring[i].U, ring[i].u) :
      \E j \in i .. Len(ring) : ring[j].u = ring[i].u /\ l \in DOMAIN ring[j].levels

Comparable(msg) == Covers(msg) /\ BracketIsWhole(msg)

\* What the comment at the comparison says: replaying makes the scratch book the
\* live one, so that a mismatch means damage, as long as the snapshot is deep
\* enough.
MismatchMeansDamage ==
  [][Checked /\ Covers(Head(cc_queue)) /\ result' = "Mismatch" => book # clean]_vars

\* A mismatch is never a false alarm: HandleCrossChecks reports one only for a
\* book that was damaged, wherever the ring starts, however old the snapshot is
\* and whatever part of the newest message has arrived (a mismatch makes the whole
\* run fail in main.cpp), as long as the message that brackets the snapshot is
\* whole and no more levels were deleted since than crosscheck_depth_limit has to
\* spare.
NoFalseAlarm ==
  [][Checked /\ Comparable(Head(cc_queue)) /\ result' = "Mismatch" => book # clean]_vars

\* A match is a proof, under the same condition: the levels that were compared are
\* undamaged.
MatchIsExact ==
  [][Checked /\ Comparable(Head(cc_queue)) /\ result' = "Match" =>
       Top(book, CheckLevels) = Top(clean, CheckLevels)]_vars
=============================================================================
