----------------------------- MODULE MarketData ----------------------------
(***************************************************************************)
(* The market-data pipeline: the exchange's WebSocket feed and REST        *)
(* snapshots, the market-data thread (engine/market_data_thread.cpp) with  *)
(* its Reconstructor, queue A, and the engine thread (engine/engine.cpp)   *)
(* with its GapVerifier, its book and the moments at which it runs the     *)
(* strategy.  The threads share only queue A and the stop flag.            *)
(*                                                                         *)
(* Queue A is the bounded FIFO that SpscQueue implements.  A try_push or   *)
(* try_pop may fail on a stale view of the other side, so neither failure  *)
(* is guarded by the queue being really full or empty.                     *)
(***************************************************************************)
EXTENDS DepthFeed, Reconstructor, GapVerifier

CONSTANTS MaxUpdates,          \* bound: updates the exchange makes in all
          SnapshotLag,         \* bound: how far a REST snapshot may lag behind
          QueueCapacity,       \* capacity of queue A (kMarketQueueCapacity)
          MaxSnapshotRefetch   \* max_snapshot_refetch

ASSUME MaxUpdatesAssumption == MaxUpdates \in Nat
ASSUME SnapshotLagAssumption == SnapshotLag \in Nat
ASSUME QueueCapacityAssumption == QueueCapacity \in Nat \ {0}
ASSUME MaxRefetchAssumption == MaxSnapshotRefetch \in Nat \ {0}

VARIABLES framed,    \* exchange: the last update id already put into a diff frame
          wire,      \* frames sent on the open connection and not yet read
          stop,      \* g_stop
          md_pc,     \* where the market-data thread is
          resume,    \* where PushGroup returns to
          recon,     \* recon_
          attempt,   \* Bootstrap's loop counter
          group,     \* events PushGroup has still to push
          queue,     \* queue A
          eng_pc,    \* where the engine thread is
          verifier,  \* verifier_
          book,      \* book_: a version per level
          book_id,   \* book_.LastUpdateId()
          book_live, \* book_live_
          quoting    \* does the strategy have a resting quote?

feedVars == <<books, framed>>
mdVars == <<md_pc, resume, recon, attempt, group>>
engVars == <<eng_pc, verifier, book, book_id, book_live, quoting>>
vars == <<feedVars, wire, stop, mdVars, queue, engVars>>

Ids == 0 .. MaxUpdates

Event ==
  [kind: {"Snapshot", "DepthDiff"}, U: Ids, u: Ids, start: BOOLEAN, cont: BOOLEAN,
   levels: UNION {[S -> Ids] : S \in SUBSET Levels}]

\* The types of the variables; ids never pass the exchange's updates.
TypeOK ==
  /\ books \in Seq([Levels -> Ids]) /\ LastId <= MaxUpdates
  /\ framed \in Ids
  /\ wire \in Seq([U: Ids, u: Ids])
  /\ stop \in BOOLEAN
  /\ md_pc \in {"Connect", "Sleep", "Fetch", "Push", "Await", "Live", "Done"}
  /\ resume \in {"Await", "Live"}
  /\ recon \in [state: ReconStates, snapshot_last_id: Ids, prev_u: Ids]
  /\ attempt \in 0 .. MaxSnapshotRefetch - 1
  /\ group \in Seq(Event)
  /\ queue \in Seq(Event) /\ Len(queue) <= QueueCapacity
  /\ eng_pc \in {"Drain", "FinalDrain", "Done"}
  /\ verifier \in [have_snapshot: BOOLEAN, live: BOOLEAN, snapshot_last_id: Ids,
                   prev_u: Ids, prev_continuation: BOOLEAN, undetected_gaps: Nat]
  /\ book \in [Levels -> Ids]
  /\ book_id \in Ids
  /\ book_live \in BOOLEAN /\ quoting \in BOOLEAN

Init ==
  /\ books = << >> /\ framed = 0 /\ wire = << >>
  /\ stop = FALSE
  /\ md_pc = "Connect" /\ resume = "Await" /\ recon = ReconReset
  /\ attempt = 0 /\ group = << >>
  /\ queue = << >>
  /\ eng_pc = "Drain" /\ verifier = VerifierInit
  /\ book = EmptyBook /\ book_id = 0
  /\ book_live = FALSE /\ quoting = FALSE
-----------------------------------------------------------------------------
(* The exchange (external). *)

Connected == md_pc \in {"Fetch", "Push", "Await", "Live"}

\* The exchange's book changes at level l.
ExchangeUpdate(l) ==
  /\ LastId < MaxUpdates
  /\ Update(l)
  /\ UNCHANGED <<framed, wire, stop, mdVars, queue, engVars>>

\* Every 100 ms the updates since the last frame are broadcast; who is not
\* connected misses them.
SendFrame ==
  /\ framed < LastId
  /\ framed' = LastId
  /\ wire' = IF Connected THEN Append(wire, [U |-> framed + 1, u |-> LastId]) ELSE wire
  /\ UNCHANGED <<books, stop, mdVars, queue, engVars>>

\* A frame that never reaches an open connection.
LoseFrame ==
  /\ framed < LastId /\ Connected
  /\ framed' = LastId
  /\ UNCHANGED <<books, wire, stop, mdVars, queue, engVars>>
-----------------------------------------------------------------------------
(* The market-data thread.  Each blocking call (Connect, Get, Read, sleep) *)
(* is a place to wait; the stop flag is tested on the way to it.           *)

\* The while (!stop) tests: go on to next, or leave Run, closing the socket.
Continue(next) ==
  /\ md_pc' = IF stop THEN "Done" ELSE next
  /\ wire' = IF stop THEN << >> ELSE wire

\* Close the connection and wait for the backoff delay.
CloseAndSleep ==
  /\ md_pc' = IF stop THEN "Done" ELSE "Sleep"
  /\ wire' = << >>

ConnectOk ==
  /\ md_pc = "Connect"
  /\ Continue("Fetch")
  /\ attempt' = 0
  /\ UNCHANGED <<feedVars, stop, resume, recon, group, queue, engVars>>

ConnectFail ==
  /\ md_pc = "Connect"
  /\ md_pc' = "Sleep"
  /\ UNCHANGED <<feedVars, wire, stop, resume, recon, attempt, group, queue, engVars>>

\* SleepMs is over, or was cut short by stop.
Wake ==
  /\ md_pc = "Sleep"
  /\ Continue("Connect")
  /\ UNCHANGED <<feedVars, stop, resume, recon, attempt, group, queue, engVars>>

\* Bootstrap: the REST server answers with its book at L.
FetchOk(L) ==
  /\ md_pc = "Fetch"
  /\ recon' = ReconOnSnapshot(L)
  /\ group' = SnapshotGroup(L)
  /\ md_pc' = "Push" /\ resume' = "Await"
  /\ UNCHANGED <<feedVars, wire, stop, attempt, queue, engVars>>

\* Bootstrap: the request or the parser failed (BootResult::kError).
FetchFail ==
  /\ md_pc = "Fetch"
  /\ CloseAndSleep
  /\ UNCHANGED <<feedVars, stop, resume, recon, attempt, group, queue, engVars>>

\* PushGroup: one successful try_push.  PushOneMutant drops the event when the
\* queue is full, as a push whose result nobody looks at would.
\* PushOneMutant2 keeps a slot free that a queue of Capacity slots has.
PushOneMutant2 ==
  /\ md_pc = "Push"
  /\ Len(queue) + 1 < QueueCapacity
  /\ queue' = Append(queue, Head(group))
  /\ group' = Tail(group)
  /\ IF Len(group) > 1 THEN UNCHANGED <<md_pc, wire>> ELSE Continue(resume)
  /\ UNCHANGED <<feedVars, stop, resume, recon, attempt, engVars>>

PushOneMutant ==
  /\ md_pc = "Push"
  /\ queue' = IF Len(queue) < QueueCapacity THEN Append(queue, Head(group)) ELSE queue
  /\ group' = Tail(group)
  /\ IF Len(group) > 1 THEN UNCHANGED <<md_pc, wire>> ELSE Continue(resume)
  /\ UNCHANGED <<feedVars, stop, resume, recon, attempt, engVars>>

PushOne ==
  /\ md_pc = "Push"
  /\ Len(queue) < QueueCapacity
  /\ queue' = Append(queue, Head(group))
  /\ group' = Tail(group)
  /\ IF Len(group) > 1 THEN UNCHANGED <<md_pc, wire>> ELSE Continue(resume)
  /\ UNCHANGED <<feedVars, stop, resume, recon, attempt, engVars>>

\* PushGroup: a failed try_push sees the stop flag; the rest of the group is
\* abandoned and Run ends.  try_push may load an old head_ (PushReload in
\* SpscQueue) and the engine may pop before the flag is read, so the queue need
\* not be full here.  PushAbortMutant is a spin that never looks at the flag.
PushAbortMutant ==
  /\ md_pc = "Push" /\ stop
  /\ UNCHANGED vars

PushAbort ==
  /\ md_pc = "Push" /\ stop
  /\ md_pc' = "Done" /\ wire' = << >>
  /\ UNCHANGED <<feedVars, stop, resume, recon, attempt, group, queue, engVars>>

\* Read: the connection timed out, was closed or failed.  RunLive's caller
\* resets the reconstructor, Bootstrap's does not.
ReadFail ==
  /\ md_pc \in {"Await", "Live"}
  /\ recon' = IF md_pc = "Live" /\ ~stop THEN ReconReset ELSE recon
  /\ CloseAndSleep
  /\ UNCHANGED <<feedVars, stop, resume, attempt, group, queue, engVars>>

\* Read: a frame that does not parse as a depth diff is skipped.
ReadUnparsable ==
  /\ md_pc \in {"Await", "Live"} /\ wire # << >>
  /\ md_pc' = IF stop THEN "Done" ELSE md_pc
  /\ wire' = IF stop THEN << >> ELSE Tail(wire)
  /\ UNCHANGED <<feedVars, stop, resume, recon, attempt, group, queue, engVars>>

\* A parsed frame for which OnDiffGroup returns the given action.
ReadDiff(action) ==
  /\ md_pc \in {"Await", "Live"} /\ wire # << >>
  /\ ReconAction(recon, Head(wire).U, Head(wire).u) = action
  /\ UNCHANGED <<feedVars, stop, queue, engVars>>

\* Await: the frame predates the snapshot.
BootDrop ==
  /\ md_pc = "Await" /\ ReadDiff("Drop")
  /\ md_pc' = IF stop THEN "Done" ELSE "Await"
  /\ wire' = IF stop THEN << >> ELSE Tail(wire)
  /\ UNCHANGED <<resume, recon, attempt, group>>

\* Await: the frame brackets the snapshot, or Live: it continues the book.
ReadEmit ==
  /\ \/ md_pc = "Await" /\ ReadDiff("EmitAndGoLive")
     \/ md_pc = "Live" /\ ReadDiff("Emit")
  /\ recon' = ReconOnDiffGroup(recon, Head(wire).U, Head(wire).u)
  /\ group' = DiffGroup(Head(wire).U, Head(wire).u)
  /\ wire' = Tail(wire)
  /\ md_pc' = "Push" /\ resume' = "Live"
  /\ UNCHANGED attempt

\* Bootstrap's for condition.
Refetch(n) == n < MaxSnapshotRefetch

\* Await: the frame starts after L + 1.  It is consumed; a newer snapshot is
\* fetched unless the attempts are used up.
BootTooOld ==
  /\ md_pc = "Await" /\ ReadDiff("SnapshotTooOld")
  /\ IF Refetch(attempt + 1)
     THEN /\ md_pc' = IF stop THEN "Done" ELSE "Fetch"
          /\ wire' = IF stop THEN << >> ELSE Tail(wire)
          /\ attempt' = attempt + 1
     ELSE CloseAndSleep /\ UNCHANGED attempt
  /\ UNCHANGED <<resume, recon, group>>

\* Live: a frame is missing.  Bootstrap again on the same connection.
LiveGap ==
  /\ md_pc = "Live" /\ ReadDiff("Gap")
  /\ recon' = IF stop THEN ReconOnDiffGroup(recon, Head(wire).U, Head(wire).u)
              ELSE ReconReset
  /\ md_pc' = IF stop THEN "Done" ELSE "Fetch"
  /\ wire' = IF stop THEN << >> ELSE Tail(wire)
  /\ attempt' = 0
  /\ UNCHANGED <<resume, group>>

MarketDataThread ==
  \/ ConnectOk
  \/ ConnectFail
  \/ Wake
  \/ \E L \in {n \in 0 .. LastId : n + SnapshotLag >= LastId} : FetchOk(L)
  \/ FetchFail
  \/ PushOne
  \/ PushAbort
  \/ ReadFail
  \/ ReadUnparsable
  \/ BootDrop
  \/ ReadEmit
  \/ BootTooOld
  \/ LiveGap
-----------------------------------------------------------------------------
(* The engine thread. *)

\* Does Drain run the strategy after ev?  TicksMutant ignores fragments.
TicksMutant(live, ev) == live
Ticks(live, ev) == live /\ ~ev.cont

\* Is the book live after ev?  A snapshot-start ends it, a diff begins it.
LiveAfter(live, ev) == ev.kind = "DepthDiff" \/ (live /\ ~ev.start)

\* ApplyEvent, after Clear for a snapshot-start.
BookAfter(b, ev) ==
  [l \in Levels |-> IF l \in DOMAIN ev.levels THEN ev.levels[l]
                    ELSE IF ev.start THEN 0 ELSE b[l]]

\* OnResync pulls the quotes; a tick leaves the strategy quoting or not, as
\* its guards decide (Strategy's own business).
QuotingMutant(ev, tick) == IF tick THEN BOOLEAN ELSE {quoting}
QuotingAfter(ev, tick) ==
  IF tick THEN BOOLEAN ELSE IF ev.start THEN {FALSE} ELSE {quoting}

\* Drain: one popped event, from Check to the strategy tick.
EnginePop ==
  /\ eng_pc \in {"Drain", "FinalDrain"} /\ queue # << >>
  /\ LET ev == Head(queue)
     IN  /\ verifier' = VerifierCheck(verifier, ev)
         /\ book' = BookAfter(book, ev)
         /\ book_id' = ev.u
         /\ book_live' = LiveAfter(book_live, ev)
         /\ quoting' \in QuotingAfter(ev, Ticks(LiveAfter(book_live, ev), ev))
  /\ queue' = Tail(queue)
  /\ UNCHANGED <<feedVars, wire, stop, mdVars, eng_pc>>

\* Run's loop ends after a Drain; the rest of its body does not touch the
\* pipeline.  Drain returns when the queue looks empty, which with an old tail_
\* (PopReload in SpscQueue) may be when it is not.
EngineStops ==
  /\ eng_pc = "Drain" /\ stop
  /\ eng_pc' = "FinalDrain"
  /\ UNCHANGED <<feedVars, wire, stop, mdVars, queue, verifier, book, book_id,
                 book_live, quoting>>

\* The final Drain found nothing more, or loaded an old tail_.
EngineExit ==
  /\ eng_pc = "FinalDrain"
  /\ eng_pc' = "Done"
  /\ UNCHANGED <<feedVars, wire, stop, mdVars, queue, verifier, book, book_id,
                 book_live, quoting>>

Engine == EnginePop \/ EngineStops \/ EngineExit
-----------------------------------------------------------------------------
\* The signal handler, or main at its deadline.
Stop ==
  /\ ~stop
  /\ stop' = TRUE
  /\ UNCHANGED <<feedVars, wire, mdVars, queue, engVars>>

\* main has joined both threads.
Joined ==
  /\ md_pc = "Done" /\ eng_pc = "Done"
  /\ UNCHANGED vars

Next ==
  \/ \E l \in Levels : ExchangeUpdate(l)
  \/ SendFrame
  \/ LoseFrame
  \/ MarketDataThread
  \/ Engine
  \/ Stop
  \/ Joined

Spec == Init /\ [][Next]_vars

\* Every blocking call returns (the sockets have timeouts, the sleeps end) and
\* the scheduler runs both threads; the engine keeps popping what it is sent.
Fairness ==
  /\ WF_vars(MarketDataThread)
  /\ WF_vars(EnginePop)
  /\ WF_vars(EngineStops)
  /\ WF_vars(EngineExit)

FairSpec == Spec /\ Fairness
-----------------------------------------------------------------------------
(* Properties *)

\* The engine's redundant verifier never fires: whatever frames are lost,
\* unparsable or cut off by a reconnect, the market-data thread never lets a
\* discontinuity through without a snapshot-start in between.
NoUndetectedGap == verifier.undetected_gaps = 0

\* Outside a group, a live book is the exchange's book at its update id: no
\* update is missed, applied twice to effect, or left over from before a resync.
LiveBookIsExchangeBook ==
  book_live /\ ~verifier.prev_continuation => book = ExchangeBook(book_id)

\* Whenever Drain runs the strategy, the book the strategy sees is the
\* exchange's book at the event's id, never one with half a message applied.
StrategySeesExchangeBook ==
  [][EnginePop /\ Ticks(book_live', Head(queue)) => book' = ExchangeBook(book_id')]_vars

\* Two events belong to the same group.
SameGroup(e, f) == e.kind = f.kind /\ e.U = f.U /\ e.u = f.u /\ ~f.start

\* After an event flagged Continuation the next one is of the same message.
\* The verifier does not check inside a group, so nothing else would notice.
GroupsArriveWhole ==
  /\ \A i \in 1 .. Len(queue) - 1 : queue[i].cont => SameGroup(queue[i], queue[i + 1])
  /\ verifier.prev_continuation /\ queue # << >> =>
       /\ queue[1].u = book_id /\ ~queue[1].start
       /\ (queue[1].kind = "DepthDiff") = book_live

\* The strategy has no quote resting while the book is being rebuilt.
NoQuotesWithoutLiveBook == quoting => book_live

\* After stop both threads end, even when one of them waits for a full queue
\* that the other will never drain again.
ShutdownTerminates == stop ~> (md_pc = "Done" /\ eng_pc = "Done")

\* PushGroup's spin on a full queue always comes to an end.
PushCompletes == md_pc = "Push" ~> md_pc # "Push"
=============================================================================
