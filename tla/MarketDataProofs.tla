-------------------------- MODULE MarketDataProofs -------------------------
(***************************************************************************)
(* For every number of levels, queue capacity, event size, lag and history *)
(* length: the pipeline keeps its types, its groups whole and its engine   *)
(* verifier silent, and the engine's live book is the exchange's.          *)
(*                                                                         *)
(* The argument follows the stream of events from the engine back to the   *)
(* market-data thread.  What the engine last applied is one end of it, the *)
(* reconstructor's state the other; every event in between follows the one *)
(* before it (StreamOK).  BookOK adds what the stream carries: each event  *)
(* the exchange's values at its id, each whole message every level it is   *)
(* about; and the engine's book differs from the exchange's only where the *)
(* rest of the message at hand repairs it.                                 *)
(***************************************************************************)
EXTENDS MarketData, SequenceTheorems, FiniteSetTheorems, TLAPS

\* Event f may come after an event of the given kind, id and flag.
Follows(kind, u, cont, f) ==
  \/ cont /\ f.kind = kind /\ f.u = u /\ ~f.start
  \/ ~cont /\ f.kind = "Snapshot" /\ f.start
  \/ /\ ~cont /\ f.kind = "DepthDiff" /\ ~f.start
     /\ \/ kind = "Snapshot" /\ f.U <= u + 1 /\ u + 1 <= f.u
        \/ kind = "DepthDiff" /\ f.U = u + 1

\* The kind of the event the engine applied last, as its verifier knows it.
EngKind ==
  IF ~verifier.have_snapshot THEN "None"
  ELSE IF verifier.live THEN "DepthDiff" ELSE "Snapshot"

\* The last event pushed: the end of the queue, or what the engine applied.
EndKind == IF queue = << >> THEN EngKind ELSE queue[Len(queue)].kind
EndId == IF queue = << >> THEN book_id ELSE queue[Len(queue)].u
EndCont ==
  IF queue = << >> THEN verifier.prev_continuation ELSE queue[Len(queue)].cont

\* Frames are about updates the exchange has made.
FeedOK ==
  /\ framed <= LastId
  /\ \A i \in 1 .. Len(wire) : wire[i].u <= LastId

\* The verifier and the book agree on what was applied last.
EngineOK ==
  /\ verifier.live => verifier.have_snapshot
  /\ verifier.prev_continuation => verifier.have_snapshot
  /\ book_live = verifier.live
  /\ verifier.have_snapshot /\ ~verifier.live => verifier.snapshot_last_id = book_id
  /\ verifier.live /\ ~verifier.prev_continuation => verifier.prev_u = book_id
  /\ verifier.undetected_gaps = 0

\* Each event in the queue follows its predecessor.
QueueOK ==
  /\ queue # << >> => Follows(EngKind, book_id, verifier.prev_continuation, queue[1])
  /\ \A i \in 1 .. Len(queue) - 1 :
       /\ Follows(queue[i].kind, queue[i].u, queue[i].cont, queue[i + 1])
       /\ queue[i].cont => queue[i].U = queue[i + 1].U

\* What is left of one message: all but its last event are continued.
Remainder(kind, u) ==
  /\ group # << >>
  /\ \A i \in 1 .. Len(group) :
       /\ group[i].kind = kind /\ group[i].u = u /\ group[i].U = group[1].U
       /\ group[i].cont = (i < Len(group))
       /\ i > 1 => ~group[i].start
  /\ Follows(EndKind, EndId, EndCont, group[1])
  /\ queue # << >> /\ EndCont => queue[Len(queue)].U = group[1].U

\* Where the reconstructor stands relative to the last event pushed.
ThreadOK ==
  /\ md_pc \in {"Connect", "Sleep", "Fetch"} => ~EndCont
  /\ md_pc = "Await" =>
       /\ recon.state = "AwaitFirstEvent"
       /\ EndKind = "Snapshot" /\ EndId = recon.snapshot_last_id /\ ~EndCont
  /\ md_pc = "Live" =>
       /\ recon.state = "Live"
       /\ EndKind = "DepthDiff" /\ EndId = recon.prev_u /\ ~EndCont
  /\ md_pc = "Push" /\ resume = "Await" =>
       recon.state = "AwaitFirstEvent" /\ Remainder("Snapshot", recon.snapshot_last_id)
  /\ md_pc = "Push" /\ resume = "Live" =>
       recon.state = "Live" /\ Remainder("DepthDiff", recon.prev_u)

\* The part of the inductive invariant about the stream; TypeInv below is the
\* other part.
StreamOK == EngineOK /\ QueueOK /\ ThreadOK
-----------------------------------------------------------------------------
(* Facts about the events made of a message. *)

\* A message makes at least one event.
LEMMA NumFragmentsType ==
  ASSUME NEW S \in SUBSET Levels
  PROVE  NumFragments(S) \in Nat \ {0}
<1>1. CASE S = {}
  BY <1>1 DEF NumFragments
<1>2. CASE S # {}
  <2> DEFINE m == Cardinality(S) + MaxLevelsPerEvent - 1
             q == m \div MaxLevelsPerEvent
  <2>1. IsFiniteSet(Levels)
    BY NumLevelsAssumption, FS_Interval DEF Levels
  <2>2. IsFiniteSet(S)
    BY <2>1, FS_Subset
  <2>3. Cardinality(S) \in Nat /\ Cardinality(S) # 0
    BY <1>2, <2>2, FS_CardinalityType, FS_EmptySet
  <2>4. m \in Nat /\ m >= MaxLevelsPerEvent
    BY <2>3, PerEventAssumption
  <2>5. q \in Nat /\ m % MaxLevelsPerEvent \in 0 .. MaxLevelsPerEvent - 1
        /\ m = q * MaxLevelsPerEvent + (m % MaxLevelsPerEvent)
    <3> HIDE DEF m
    <3> QED
      BY <2>4, PerEventAssumption, SMT
  <2>6. q # 0
    <3> SUFFICES ASSUME q = 0 PROVE FALSE
      OBVIOUS
    <3> HIDE DEF m, q
    <3>1. q * MaxLevelsPerEvent = 0
      BY PerEventAssumption
    <3> QED
      BY <2>4, <2>5, <3>1, PerEventAssumption
  <2>7. NumFragments(S) = q
    BY <1>2 DEF NumFragments
  <2> QED
    BY <2>5, <2>6, <2>7
<1> QED
  BY <1>1, <1>2

\* The exchange's book at an update it has made.
LEMMA BookType ==
  ASSUME TypeOK, NEW n \in 0 .. LastId
  PROVE  ExchangeBook(n) \in [Levels -> Ids]
<1>1. CASE n = 0
  BY <1>1, MaxUpdatesAssumption DEF ExchangeBook, EmptyBook, Ids
<1>2. CASE n # 0
  <2>1. n \in 1 .. Len(books)
    BY <1>2 DEF LastId, TypeOK
  <2> QED
    BY <1>2, <2>1 DEF ExchangeBook, TypeOK
<1> QED
  BY <1>1, <1>2

\* A message about updates the exchange has made becomes a sequence of events.
LEMMA GroupType ==
  ASSUME TypeOK, NEW kind \in {"Snapshot", "DepthDiff"}, NEW U \in Ids,
         NEW u \in 0 .. LastId, NEW S \in SUBSET Levels
  PROVE  /\ EventGroup(kind, U, u, S) \in Seq(Event)
         /\ Len(EventGroup(kind, U, u, S)) = NumFragments(S)
         /\ EventGroup(kind, U, u, S) # << >>
<1> DEFINE n == NumFragments(S)
           lv(i) == [l \in FragmentLevels(S, i) |-> ExchangeBook(u)[l]]
           e(i) == [kind |-> kind, U |-> U, u |-> u, start |-> kind = "Snapshot" /\ i = 1,
                    cont |-> i < n, levels |-> lv(i)]
<1>1. n \in Nat \ {0}
  BY NumFragmentsType
<1>2. u \in Ids
  BY MaxUpdatesAssumption DEF TypeOK, LastId, Ids
<1>3. ASSUME NEW i \in 1 .. n PROVE e(i) \in Event
  <2>1. FragmentLevels(S, i) \in SUBSET Levels
    BY DEF FragmentLevels
  <2>2. lv(i) \in [FragmentLevels(S, i) -> Ids]
    BY <2>1, BookType
  <2>3. lv(i) \in UNION {[T -> Ids] : T \in SUBSET Levels}
    BY <2>1, <2>2
  <2> HIDE DEF lv, n
  <2> QED
    BY <1>2, <2>3 DEF Event
<1>4. EventGroup(kind, U, u, S) = [i \in 1 .. n |-> e(i)]
  BY DEF EventGroup
<1> HIDE DEF e, n
<1>5. [i \in 1 .. n |-> e(i)] \in Seq(Event) /\ Len([i \in 1 .. n |-> e(i)]) = n
  BY <1>1, <1>3
<1> QED
  BY <1>1, <1>4, <1>5, EmptySeq DEF n
-----------------------------------------------------------------------------
(* Type correctness. *)

\* PushGroup is never entered with nothing to push.
TypeInv == TypeOK /\ FeedOK /\ (md_pc = "Push" => group # << >>)

\* The initial state is typed.
LEMMA TypeInit == Init => TypeInv
<1> SUFFICES ASSUME Init PROVE TypeInv
  OBVIOUS
<1> USE MaxUpdatesAssumption, MaxRefetchAssumption, QueueCapacityAssumption
<1>1. LastId = 0 /\ framed = 0 /\ 0 \in Ids /\ Len(wire) = 0 /\ Len(queue) = 0
  BY DEF Init, LastId, Ids
<1>2. recon \in [state: ReconStates, snapshot_last_id: Ids, prev_u: Ids]
  BY <1>1 DEF Init, ReconReset, ReconStates
<1>3. verifier \in [have_snapshot: BOOLEAN, live: BOOLEAN, snapshot_last_id: Ids,
                    prev_u: Ids, prev_continuation: BOOLEAN, undetected_gaps: Nat]
  BY <1>1 DEF Init, VerifierInit
<1>4. book \in [Levels -> Ids]
  BY <1>1 DEF Init, EmptyBook
<1>5. /\ books \in Seq([Levels -> Ids]) /\ wire \in Seq([U: Ids, u: Ids])
      /\ group \in Seq(Event) /\ queue \in Seq(Event)
  BY DEF Init
<1>7. /\ LastId <= MaxUpdates /\ Len(queue) <= QueueCapacity
      /\ attempt \in 0 .. MaxSnapshotRefetch - 1
  BY <1>1 DEF Init
<1>8. /\ framed \in Ids /\ stop \in BOOLEAN /\ md_pc = "Connect" /\ resume = "Await"
      /\ eng_pc = "Drain" /\ book_id \in Ids
      /\ book_live \in BOOLEAN /\ quoting \in BOOLEAN
  BY <1>1, Zenon DEF Init
<1>6. TypeOK
  BY <1>2, <1>3, <1>4, <1>5, <1>7, <1>8 DEF TypeOK
<1> QED
  BY <1>1, <1>6 DEF Init, TypeInv, FeedOK

\* Every step preserves the types.
LEMMA TypeNext == TypeInv /\ [Next]_vars => TypeInv'
<1> SUFFICES ASSUME TypeInv, [Next]_vars PROVE TypeInv'
  OBVIOUS
<1> USE MaxUpdatesAssumption, MaxRefetchAssumption, QueueCapacityAssumption
    DEF TypeInv, feedVars, mdVars, engVars
<1>0. /\ LastId \in Nat /\ framed \in Nat
      /\ \A i \in 1 .. Len(wire) : wire[i] \in [U: Ids, u: Ids] /\ wire[i].u \in Nat
  <2>1. ASSUME NEW i \in 1 .. Len(wire) PROVE wire[i] \in [U: Ids, u: Ids]
    BY ElementOfSeq, Zenon DEF TypeOK
  <2>2. LastId \in Nat /\ framed \in Nat
    BY DEF TypeOK, LastId, Ids
  <2> QED
    BY <2>1, <2>2 DEF Ids
<1>1. ASSUME NEW l \in Levels, ExchangeUpdate(l) PROVE TypeInv'
  <2> DEFINE b == [ExchangeBook(LastId) EXCEPT ![l] = LastId + 1]
  <2>1. LastId \in Nat /\ LastId + 1 \in Ids
    BY <1>1, SMTT(30) DEF ExchangeUpdate, LastId, TypeOK, Ids
  <2>2. b \in [Levels -> Ids]
    BY <2>1, BookType
  <2> HIDE DEF b
  <2>3. /\ books' \in Seq([Levels -> Ids]) /\ Len(books') = Len(books) + 1
    BY <1>1, <2>2, AppendProperties DEF ExchangeUpdate, Update, TypeOK, b
  <2>4. FeedOK'
    BY <1>0, <1>1, <2>3 DEF ExchangeUpdate, FeedOK, LastId
  <2> QED
    BY <1>1, <2>1, <2>3, <2>4 DEF ExchangeUpdate, TypeOK, LastId, Ids
<1>2. CASE SendFrame
  <2> DEFINE f == [U |-> framed + 1, u |-> LastId]
  <2>1. LastId \in Ids /\ framed + 1 \in Ids /\ f \in [U: Ids, u: Ids] /\ f.u = LastId
    BY <1>2, SMTT(30) DEF SendFrame, LastId, TypeOK, Ids
  <2> HIDE DEF f
  <2>2. CASE Connected
    <3>1. /\ wire' \in Seq([U: Ids, u: Ids]) /\ Len(wire') = Len(wire) + 1
          /\ \A i \in 1 .. Len(wire) : wire'[i] = wire[i]
          /\ wire'[Len(wire) + 1] = f
      BY <1>2, <2>1, <2>2, AppendProperties DEF SendFrame, TypeOK, f
    <3>2. \A i \in 1 .. Len(wire') : wire'[i].u <= LastId'
      BY <1>0, <1>2, <2>1, <3>1, SMTT(30) DEF SendFrame, FeedOK, LastId
    <3> QED
      BY <1>2, <2>1, <3>1, <3>2, SMTT(30) DEF SendFrame, TypeOK, FeedOK, LastId
  <2>3. CASE ~Connected
    BY <1>2, <2>1, <2>3 DEF SendFrame, TypeOK, FeedOK, LastId, Ids
  <2> QED
    BY <2>2, <2>3
<1>3. CASE LoseFrame
  BY <1>3, SMTT(30) DEF LoseFrame, TypeOK, FeedOK, LastId, Ids
<1>4. CASE ConnectOk
  BY <1>4 DEF ConnectOk, Continue, TypeOK, FeedOK, LastId
<1>5. CASE ConnectFail
  BY <1>5 DEF ConnectFail, TypeOK, FeedOK, LastId
<1>6. CASE Wake
  BY <1>6 DEF Wake, Continue, TypeOK, FeedOK, LastId
<1>7. ASSUME NEW L \in 0 .. LastId, FetchOk(L) PROVE TypeInv'
  <2>1. L \in Ids
    BY DEF TypeOK, LastId, Ids
  <2>2. group' \in Seq(Event) /\ group' # << >>
    BY <1>7, <2>1, GroupType DEF FetchOk, SnapshotGroup, PresentLevels
  <2>3. recon' \in [state: ReconStates, snapshot_last_id: Ids, prev_u: Ids]
    BY <1>7, <2>1 DEF FetchOk, ReconOnSnapshot, ReconStates, Ids
  <2> QED
    BY <1>7, <2>2, <2>3 DEF FetchOk, TypeOK, FeedOK, LastId
<1>8. CASE FetchFail
  BY <1>8 DEF FetchFail, CloseAndSleep, TypeOK, FeedOK, LastId
<1>9. CASE PushOne
  <2>1. /\ Head(group) \in Event /\ Tail(group) \in Seq(Event)
        /\ Len(group) > 1 => Tail(group) # << >>
    <3>1. group \in Seq(Event) /\ group # << >> /\ Len(group) \in Nat
      BY <1>9 DEF PushOne, TypeOK
    <3>2. /\ Head(group) \in Event /\ Tail(group) \in Seq(Event)
          /\ Len(Tail(group)) = Len(group) - 1
      BY <3>1, HeadTailProperties
    <3>3. Len(group) > 1 => Len(Tail(group)) # Len(<< >>)
      BY <3>1, <3>2
    <3> QED
      BY <3>2, <3>3, Zenon
  <2>2. queue' \in Seq(Event) /\ Len(queue') <= QueueCapacity
    BY <1>9, <2>1, AppendProperties DEF PushOne, TypeOK
  <2>3. group' \in Seq(Event) /\ (md_pc' = "Push" => group' # << >>)
    BY <1>9, <2>1 DEF PushOne, Continue, TypeOK
  <2>4. /\ md_pc' \in {"Push", "Done", "Await", "Live"}
        /\ wire' \in Seq([U: Ids, u: Ids])
        /\ \A i \in 1 .. Len(wire') : wire'[i].u <= LastId'
    BY <1>9, SMTT(30) DEF PushOne, Continue, TypeOK, FeedOK, LastId
  <2> QED
    BY <1>9, <2>2, <2>3, <2>4, SMTT(30) DEF PushOne, TypeOK, FeedOK, LastId
<1>10. CASE PushAbort
  BY <1>10 DEF PushAbort, TypeOK, FeedOK, LastId
<1>11. CASE ReadFail
  BY <1>11 DEF ReadFail, CloseAndSleep, TypeOK, FeedOK, LastId, ReconReset, ReconStates, Ids
<1> DEFINE Shorter ==
      /\ wire' \in Seq([U: Ids, u: Ids])
      /\ \A i \in 1 .. Len(wire') : wire'[i].u <= LastId
<1>12. ASSUME wire # << >>, wire' \in {<< >>, Tail(wire)} PROVE Shorter
  <2>1. CASE wire' = << >>
    BY <2>1
  <2>2. CASE wire' = Tail(wire)
    <3>1. /\ Tail(wire) \in Seq([U: Ids, u: Ids]) /\ Len(Tail(wire)) = Len(wire) - 1
          /\ \A i \in 1 .. Len(wire) - 1 : Tail(wire)[i] = wire[i + 1]
          /\ Len(wire) \in Nat
      BY <1>12, HeadTailProperties DEF TypeOK
    <3> QED
      BY <2>2, <3>1 DEF FeedOK
  <2> QED
    BY <1>12, <2>1, <2>2
<1> HIDE DEF Shorter
<1>13. CASE ReadUnparsable
  <2>1. Shorter
    BY <1>12, <1>13 DEF ReadUnparsable
  <2> QED
    BY <1>13, <2>1 DEF ReadUnparsable, TypeOK, FeedOK, LastId, Shorter
<1>14. CASE BootDrop
  <2>1. Shorter
    BY <1>12, <1>14 DEF BootDrop, ReadDiff
  <2> QED
    BY <1>14, <2>1 DEF BootDrop, ReadDiff, TypeOK, FeedOK, LastId, Shorter
<1>15. CASE ReadEmit
  <2> DEFINE U == Head(wire).U
             u == Head(wire).u
  <2>1. Shorter /\ wire # << >>
    BY <1>12, <1>15 DEF ReadEmit, ReadDiff
  <2>2. U \in Ids /\ u \in Ids /\ u \in 0 .. LastId
    <3>1. Len(wire) \in Nat /\ Len(wire) >= 1 /\ Head(wire) = wire[1]
      BY <2>1 DEF TypeOK
    <3>2. Head(wire) \in [U: Ids, u: Ids] /\ Head(wire).u <= LastId
      BY <1>0, <3>1 DEF FeedOK
    <3> QED
      BY <1>0, <3>2 DEF Ids
  <2> HIDE DEF U, u
  <2>3. group' \in Seq(Event) /\ group' # << >>
    BY <1>15, <2>2, GroupType DEF ReadEmit, DiffGroup, ChangedLevels, U, u
  <2>4. recon' \in [state: ReconStates, snapshot_last_id: Ids, prev_u: Ids]
    <3>1. recon' = ReconOnDiffGroup(recon, U, u)
      BY <1>15 DEF ReadEmit, U, u
    <3> QED
      BY <2>2, <3>1, Zenon DEF ReconOnDiffGroup, TypeOK, ReconStates
  <2> QED
    BY <1>15, <2>1, <2>3, <2>4, SMTT(30) DEF ReadEmit, ReadDiff, TypeOK, FeedOK, LastId, Shorter
<1>16. CASE BootTooOld
  <2>1. Shorter
    BY <1>12, <1>16 DEF BootTooOld, ReadDiff, CloseAndSleep
  <2>2. attempt' \in 0 .. MaxSnapshotRefetch - 1
    BY <1>16 DEF BootTooOld, Refetch, TypeOK
  <2>3. md_pc' \in {"Done", "Fetch", "Sleep"}
    BY <1>16 DEF BootTooOld, CloseAndSleep
  <2> QED
    BY <1>16, <2>1, <2>2, <2>3, SMTT(30)
    DEF BootTooOld, ReadDiff, TypeOK, FeedOK, LastId, Shorter
<1>17. CASE LiveGap
  <2>1. Shorter
    BY <1>12, <1>17 DEF LiveGap, ReadDiff
  <2>2. recon' \in [state: ReconStates, snapshot_last_id: Ids, prev_u: Ids]
    <3>1. CASE stop
      <4>1. ReconAction(recon, Head(wire).U, Head(wire).u) = "Gap"
        BY <1>17 DEF LiveGap, ReadDiff
      <4>2. recon' = [recon EXCEPT !.state = "Idle"]
        BY <1>17, <3>1, <4>1 DEF LiveGap, ReconOnDiffGroup
      <4> QED
        BY <4>2, Zenon DEF TypeOK, ReconStates
    <3>2. CASE ~stop
      BY <1>17, <3>2 DEF LiveGap, ReconReset, ReconStates, Ids
    <3> QED
      BY <3>1, <3>2
  <2> QED
    BY <1>17, <2>1, <2>2 DEF LiveGap, ReadDiff, TypeOK, FeedOK, LastId, Shorter
<1>18. CASE EnginePop
  <2> DEFINE ev == Head(queue)
  <2>1. /\ ev \in Event /\ queue' \in Seq(Event) /\ Len(queue') <= QueueCapacity
    BY <1>18 DEF EnginePop, TypeOK
  <2>2. ev.u \in Ids /\ ev.cont \in BOOLEAN /\ ev.start \in BOOLEAN
        /\ \A l \in DOMAIN ev.levels : ev.levels[l] \in Ids
    BY <2>1 DEF Event
  <2> HIDE DEF ev
  <2>3. book' \in [Levels -> Ids]
    BY <1>18, <2>2, SMTT(30) DEF EnginePop, BookAfter, TypeOK, ev, Ids
  <2>4. verifier' = VerifierCheck(verifier, ev)
    BY <1>18 DEF EnginePop, ev
  <2>5. verifier' \in [have_snapshot: BOOLEAN, live: BOOLEAN, snapshot_last_id: Ids,
                       prev_u: Ids, prev_continuation: BOOLEAN, undetected_gaps: Nat]
    <3> DEFINE ok == VerifierOk(verifier, ev)
               goes == VerifierGoesLive(verifier, ev)
    <3>1. goes \in BOOLEAN
      BY DEF VerifierGoesLive
    <3> HIDE DEF ok, goes
    <3> QED
      BY <2>2, <2>4, <3>1 DEF VerifierCheck, TypeOK, ok, goes
  <2>6. book_id' \in Ids /\ book_live' \in BOOLEAN /\ quoting' \in BOOLEAN
    BY <1>18, <2>2, Zenon DEF EnginePop, LiveAfter, QuotingAfter, TypeOK, ev
  <2> QED
    BY <1>18, <2>1, <2>3, <2>5, <2>6 DEF EnginePop, TypeOK, FeedOK, LastId
<1>19. CASE EngineStops
  BY <1>19 DEF EngineStops, TypeOK, FeedOK, LastId
<1>20. CASE EngineExit
  BY <1>20 DEF EngineExit, TypeOK, FeedOK, LastId
<1>21. CASE Stop
  BY <1>21 DEF Stop, TypeOK, FeedOK, LastId
<1>22. CASE UNCHANGED vars
  BY <1>22 DEF vars, TypeOK, FeedOK, LastId
<1> QED
  BY <1>1, <1>2, <1>3, <1>4, <1>5, <1>6, <1>7, <1>8, <1>9, <1>10, <1>11, <1>13,
     <1>14, <1>15, <1>16, <1>17, <1>18, <1>19, <1>20, <1>21, <1>22
  DEF Next, MarketDataThread, Engine, Joined

\* Every variable of the pipeline keeps its type; in particular no id passes
\* the exchange's and the refetch counter stays below its limit.
THEOREM TypeCorrect == Spec => []TypeOK
<1>1. TypeInv => TypeOK
  BY DEF TypeInv
<1> QED
  BY <1>1, TypeInit, TypeNext, PTL DEF Spec
-----------------------------------------------------------------------------
(* The stream of events. *)

\* Initially nothing has been emitted.
LEMMA StreamInit == Init => StreamOK
<1> SUFFICES ASSUME Init PROVE StreamOK
  OBVIOUS
<1>1. EngineOK
  BY Zenon DEF Init, EngineOK, VerifierInit
<1>2. QueueOK
  BY DEF Init, QueueOK
<1>3. ThreadOK
  BY DEF Init, ThreadOK, EndCont, VerifierInit
<1> QED
  BY <1>1, <1>2, <1>3 DEF StreamOK

\* A step that neither pushes nor pops leaves the stream as it is.
LEMMA StreamUnchanged ==
  ASSUME EngineOK, QueueOK, UNCHANGED <<queue, verifier, book_id, book_live>>
  PROVE  /\ EngineOK' /\ QueueOK'
         /\ EndKind' = EndKind /\ EndId' = EndId /\ EndCont' = EndCont
<1>1. EngineOK'
  BY DEF EngineOK
<1>2. EngKind' = EngKind
  BY DEF EngKind
<1>3. QueueOK'
  BY <1>2 DEF QueueOK, Follows
<1> QED
  BY <1>1, <1>2, <1>3 DEF EndKind, EndId, EndCont

\* A message that may follow the end of the stream is a Remainder of itself.
LEMMA WholeMessage ==
  ASSUME TypeOK, NEW kind \in {"Snapshot", "DepthDiff"}, NEW U \in Ids,
         NEW u \in 0 .. LastId, NEW S \in SUBSET Levels,
         group' = EventGroup(kind, U, u, S), queue' = queue,
         EndKind' = EndKind, EndId' = EndId, EndCont' = EndCont, ~EndCont,
         \/ kind = "Snapshot"
         \/ kind = "DepthDiff" /\ EndKind = "Snapshot" /\ U <= EndId + 1 /\ EndId + 1 <= u
         \/ kind = "DepthDiff" /\ EndKind = "DepthDiff" /\ U = EndId + 1
  PROVE  Remainder(kind, u)'
<1> DEFINE n == NumFragments(S)
<1>1. n \in Nat \ {0} /\ group' # << >> /\ Len(group') = n
  BY NumFragmentsType, GroupType
<1>2. ASSUME NEW i \in 1 .. n
      PROVE  /\ group'[i].kind = kind /\ group'[i].u = u /\ group'[i].U = U
             /\ group'[i].cont = (i < n)
             /\ group'[i].start <=> (kind = "Snapshot" /\ i = 1)
  BY Zenon DEF EventGroup
<1>3. 1 \in 1 .. n
  BY <1>1
<1> HIDE DEF n
<1>4. Follows(EndKind, EndId, EndCont, group'[1])
  BY <1>2, <1>3 DEF Follows
<1>5. ASSUME NEW i \in 1 .. n, i > 1 PROVE ~group'[i].start
  <2>1. i # 1
    BY <1>1, <1>5 DEF n
  <2> QED
    BY <1>2, <2>1
<1> QED
  BY <1>1, <1>2, <1>3, <1>4, <1>5, SMTT(30) DEF Remainder

\* PushOne appends the next event of the message to the stream.
LEMMA PushStream ==
  ASSUME TypeInv, StreamOK, PushOne
  PROVE  StreamOK'
<1> USE DEF TypeInv, StreamOK
<1> DEFINE e == group[1]
           m == Len(queue)
<1>1. /\ group \in Seq(Event) /\ group # << >> /\ Len(group) \in Nat /\ Len(group) >= 1
      /\ Head(group) = e /\ group' = Tail(group)
      /\ Len(group') = Len(group) - 1 /\ group' \in Seq(Event)
      /\ \A i \in 1 .. Len(group) - 1 : group'[i] = group[i + 1]
  <2>1. group \in Seq(Event) /\ group # << >> /\ group' = Tail(group)
    BY DEF PushOne, TypeOK
  <2> QED
    BY <2>1, HeadTailProperties
<1>2. /\ queue' = Append(queue, e) /\ queue \in Seq(Event) /\ m \in Nat /\ e \in Event
      /\ Len(queue') = m + 1 /\ queue'[m + 1] = e
      /\ \A i \in 1 .. m : queue'[i] = queue[i]
      /\ queue' # << >>
  <2>1. queue' = Append(queue, e) /\ queue \in Seq(Event) /\ e \in Event
    BY <1>1, ElementOfSeq DEF PushOne, TypeOK
  <2> QED
    BY <2>1, AppendProperties
<1>3. UNCHANGED <<verifier, book_id, book_live, recon, resume>>
  BY DEF PushOne, engVars
<1>4. \E kind \in {"Snapshot", "DepthDiff"}, u \in Ids :
         /\ Remainder(kind, u)
         /\ resume = "Await" => kind = "Snapshot" /\ u = recon.snapshot_last_id
         /\ resume = "Live" => kind = "DepthDiff" /\ u = recon.prev_u
         /\ resume = "Await" => recon.state = "AwaitFirstEvent"
         /\ resume = "Live" => recon.state = "Live"
  BY DEF PushOne, ThreadOK, TypeOK
<1>5. PICK kind \in {"Snapshot", "DepthDiff"}, u \in Ids : <1>4!(kind, u)
  BY <1>4
<1>6. /\ e.kind = kind /\ e.u = u /\ e.cont = (1 < Len(group))
      /\ Follows(EndKind, EndId, EndCont, e)
      /\ queue # << >> /\ EndCont => queue[Len(queue)].U = e.U
  BY <1>1, <1>5, SMTT(30) DEF Remainder
<1>7. EndKind' = kind /\ EndId' = u /\ EndCont' = (1 < Len(group))
  BY <1>2, <1>6 DEF EndKind, EndId, EndCont
<1>8. EngineOK' /\ EngKind' = EngKind
  BY <1>3 DEF EngineOK, EngKind
<1>9. QueueOK'
  <2>1. Follows(EngKind, book_id, verifier.prev_continuation, queue'[1])
    <3>1. CASE queue = << >>
      BY <1>2, <1>6, <3>1 DEF EndKind, EndId, EndCont
    <3>2. CASE queue # << >>
      BY <1>2, <3>2 DEF QueueOK
    <3> QED
      BY <3>1, <3>2
  <2>2. ASSUME NEW i \in 1 .. m
        PROVE  /\ Follows(queue'[i].kind, queue'[i].u, queue'[i].cont, queue'[i + 1])
               /\ queue'[i].cont => queue'[i].U = queue'[i + 1].U
    <3>1. CASE i = m
      BY <1>2, <1>6, <3>1 DEF EndKind, EndId, EndCont
    <3>2. CASE i < m
      <4>1. i \in 1 .. Len(queue) - 1 /\ i + 1 \in 1 .. m
        BY <1>2, <3>2
      <4> QED
        BY <1>2, <4>1, SMTT(30) DEF QueueOK
    <3> QED
      BY <1>2, <3>1, <3>2
  <2> QED
    BY <1>2, <1>3, <1>8, <2>1, <2>2 DEF QueueOK
<1>10. ThreadOK'
  <2>1. CASE Len(group) > 1
    <3>1. md_pc' = "Push"
      BY <2>1 DEF PushOne
    <3>2. Remainder(kind, u)'
      <4>1. ASSUME NEW i \in 1 .. Len(group')
            PROVE  /\ group'[i].kind = kind /\ group'[i].u = u
                   /\ group'[i].U = group'[1].U
                   /\ group'[i].cont = (i < Len(group'))
                   /\ ~group'[i].start
        <5>1. i + 1 \in 1 .. Len(group) /\ 2 \in 1 .. Len(group)
              /\ group'[i] = group[i + 1] /\ group'[1] = group[2]
          BY <1>1, <2>1
        <5>2. (i + 1 < Len(group)) = (i < Len(group'))
          BY <1>1
        <5> QED
          BY <1>5, <5>1, <5>2, SMTT(30) DEF Remainder
      <4>2. 1 \in 1 .. Len(group') /\ group' # << >>
        <5>1. Len(group') \in Nat /\ Len(group') # Len(<< >>)
          BY <1>1, <2>1
        <5> QED
          BY <5>1
      <4>3. Follows(kind, u, TRUE, group'[1])
        BY <4>1, <4>2 DEF Follows
      <4>4. group'[1].U = e.U /\ queue'[Len(queue')] = e
        BY <1>1, <1>2, <1>5, <2>1 DEF Remainder
      <4> QED
        BY <1>7, <2>1, <4>1, <4>2, <4>3, <4>4, Zenon DEF Remainder
    <3> QED
      BY <1>3, <1>5, <3>1, <3>2 DEF ThreadOK, TypeOK
  <2>2. CASE ~(Len(group) > 1)
    <3>1. md_pc' \in {"Done", resume}
      BY <2>2 DEF PushOne, Continue
    <3>2. ~EndCont'
      BY <1>7, <2>2, Zenon
    <3> QED
      BY <1>3, <1>5, <1>7, <3>1, <3>2 DEF ThreadOK, TypeOK
  <2> QED
    BY <2>1, <2>2
<1> QED
  BY <1>8, <1>9, <1>10

\* Drain accepts the next event of the stream and moves the engine onto it.
LEMMA PopStream ==
  ASSUME TypeInv, StreamOK, EnginePop
  PROVE  StreamOK'
<1> DEFINE ev == queue[1]
           m == Len(queue)
<1>a. EngineOK /\ QueueOK /\ ThreadOK
  BY DEF StreamOK
<1>b. /\ queue \in Seq(Event) /\ book_live \in BOOLEAN
      /\ verifier.have_snapshot \in BOOLEAN /\ verifier.live \in BOOLEAN
      /\ verifier.prev_continuation \in BOOLEAN
  BY DEF TypeInv, TypeOK
<1>1. /\ queue \in Seq(Event) /\ queue # << >> /\ m \in Nat /\ m >= 1
      /\ Head(queue) = ev /\ ev \in Event /\ queue' = Tail(queue)
      /\ Len(queue') = m - 1
      /\ \A i \in 1 .. m - 1 : queue'[i] = queue[i + 1]
  <2>1. queue \in Seq(Event) /\ queue # << >> /\ queue' = Tail(queue)
    BY <1>b DEF EnginePop
  <2> QED
    BY <2>1, HeadTailProperties
<1>2. /\ ev.kind \in {"Snapshot", "DepthDiff"} /\ ev.U \in Ids /\ ev.u \in Ids
      /\ ev.start \in BOOLEAN /\ ev.cont \in BOOLEAN
  BY <1>1 DEF Event
<1>3. /\ verifier' = VerifierCheck(verifier, ev) /\ book_id' = ev.u
      /\ book_live' = LiveAfter(book_live, ev)
      /\ UNCHANGED <<md_pc, resume, recon, group>>
  BY <1>1 DEF EnginePop, mdVars
<1>4. Follows(EngKind, book_id, verifier.prev_continuation, ev)
  BY <1>a, <1>1, Zenon DEF QueueOK
<1> HIDE DEF ev
<1>5. VerifierOk(verifier, ev)
  BY <1>a, <1>2, <1>4 DEF VerifierOk, Follows, EngineOK, EngKind
<1>6. /\ verifier'.have_snapshot = (verifier.have_snapshot \/ ev.start)
      /\ verifier'.live = ((verifier.live /\ ~ev.start) \/ VerifierGoesLive(verifier, ev))
      /\ verifier'.snapshot_last_id = IF ev.start THEN ev.u ELSE verifier.snapshot_last_id
      /\ verifier'.prev_u = IF ev.cont THEN verifier.prev_u ELSE ev.u
      /\ verifier'.prev_continuation = ev.cont
      /\ verifier'.undetected_gaps = 0
  BY <1>a, <1>3, <1>5, Zenon DEF VerifierCheck, EngineOK
<1>7. /\ verifier'.have_snapshot /\ verifier'.live = (ev.kind = "DepthDiff")
      /\ verifier'.snapshot_last_id = (IF ev.start THEN ev.u ELSE verifier.snapshot_last_id)
      /\ ev.kind = "Snapshot" => verifier'.snapshot_last_id = ev.u
      /\ book_live' = (ev.kind = "DepthDiff")
  <2>1. CASE verifier.prev_continuation
    BY <1>a, <1>b, <1>2, <1>3, <1>4, <1>6, <2>1, SMTT(30)
    DEF Follows, EngineOK, EngKind, VerifierGoesLive, LiveAfter
  <2>2. CASE ~verifier.prev_continuation /\ ev.kind = "Snapshot"
    BY <1>b, <1>2, <1>3, <1>4, <1>6, <2>2
    DEF Follows, VerifierGoesLive, LiveAfter
  <2>3. CASE ~verifier.prev_continuation /\ ev.kind = "DepthDiff"
    BY <1>b, <1>2, <1>3, <1>4, <1>5, <1>6, <2>3, SMTT(30)
    DEF Follows, EngKind, VerifierGoesLive, LiveAfter
  <2> QED
    BY <1>2, <2>1, <2>2, <2>3, SMTT(30)
<1>8. EngineOK'
  BY <1>a, <1>2, <1>3, <1>6, <1>7, SMTT(30) DEF EngineOK
<1>9. EngKind' = ev.kind
  BY <1>2, <1>7, Zenon DEF EngKind
<1>10. EndKind' = EndKind /\ EndId' = EndId /\ EndCont' = EndCont
       /\ (queue' # << >> => queue'[Len(queue')] = queue[m])
  <2>1. CASE m = 1
    <3>1. queue' = << >>
      BY <1>1, <2>1
    <3> QED
      BY <1>1, <1>3, <1>6, <1>9, <2>1, <3>1, SMTT(30) DEF EndKind, EndId, EndCont, ev
  <2>2. CASE m > 1
    <3>1. Len(queue') # Len(<< >>) /\ m - 1 \in 1 .. m - 1 /\ (m - 1) + 1 = m
      BY <1>1, <2>2
    <3>2. queue' # << >> /\ queue'[Len(queue')] = queue[m]
      BY <1>1, <3>1, SMTT(30)
    <3> QED
      BY <1>1, <3>2, SMTT(30) DEF EndKind, EndId, EndCont
  <2> QED
    BY <1>1, <2>1, <2>2
<1>11. QueueOK'
  <2>1. ASSUME queue' # << >>
        PROVE  Follows(ev.kind, ev.u, ev.cont, queue'[1])
    <3>1. m > 1
      BY <1>1, <2>1
    <3> QED
      BY <1>a, <1>1, <3>1 DEF QueueOK, ev
  <2>2. ASSUME NEW i \in 1 .. Len(queue') - 1
        PROVE  /\ Follows(queue'[i].kind, queue'[i].u, queue'[i].cont, queue'[i + 1])
               /\ queue'[i].cont => queue'[i].U = queue'[i + 1].U
    <3>1. /\ i + 1 \in 1 .. m - 1 /\ i \in 1 .. m - 1
          /\ queue'[i] = queue[i + 1] /\ queue'[i + 1] = queue[(i + 1) + 1]
      BY <1>1
    <3> QED
      BY <1>a, <3>1 DEF QueueOK
  <2> QED
    BY <1>3, <1>6, <1>9, <2>1, <2>2, SMTT(30) DEF QueueOK
<1>12. ASSUME NEW kind, NEW u, Remainder(kind, u) PROVE Remainder(kind, u)'
  BY <1>1, <1>3, <1>10, <1>12 DEF Remainder
<1>13. ThreadOK'
  BY <1>a, <1>3, <1>10, <1>12, SMTT(30) DEF ThreadOK
<1> QED
  BY <1>8, <1>11, <1>13 DEF StreamOK

\* Every step keeps the stream well formed.
LEMMA StreamNext == TypeInv /\ StreamOK /\ [Next]_vars => StreamOK'
<1> SUFFICES ASSUME TypeInv, StreamOK, [Next]_vars PROVE StreamOK'
  OBVIOUS
<1> DEFINE Quiet == UNCHANGED <<queue, verifier, book_id, book_live>>
<1>a. EngineOK /\ QueueOK /\ ThreadOK
  BY DEF StreamOK
<1>b. /\ LastId \in Nat /\ LastId <= MaxUpdates /\ wire \in Seq([U: Ids, u: Ids])
      /\ recon \in [state: ReconStates, snapshot_last_id: Ids, prev_u: Ids]
      /\ \A i \in 1 .. Len(wire) : wire[i].u <= LastId
  BY DEF TypeInv, TypeOK, FeedOK, LastId
<1>c. Ids \subseteq Nat /\ 0 .. LastId \subseteq Ids
  BY <1>b, MaxUpdatesAssumption DEF Ids
<1>d. TypeOK
  BY DEF TypeInv
<1>1. ASSUME Quiet
      PROVE  /\ EngineOK' /\ QueueOK'
             /\ EndKind' = EndKind /\ EndId' = EndId /\ EndCont' = EndCont
  BY <1>a, <1>1, StreamUnchanged, Zenon
<1>2. ASSUME Quiet, UNCHANGED <<md_pc, resume, recon, group>> PROVE StreamOK'
  <2>1. ASSUME NEW kind, NEW u, Remainder(kind, u) PROVE Remainder(kind, u)'
    BY <1>1, <1>2, <2>1 DEF Remainder
  <2>2. /\ md_pc' = md_pc /\ resume' = resume /\ recon' = recon
        /\ EndKind' = EndKind /\ EndId' = EndId /\ EndCont' = EndCont
    BY <1>1, <1>2
  <2>3. ThreadOK'
    BY <1>a, <2>1, <2>2, Zenon DEF ThreadOK
  <2> QED
    BY <1>1, <1>2, <2>3 DEF StreamOK
<1>3. ASSUME Quiet, UNCHANGED recon, md_pc' = "Done" PROVE StreamOK'
  <2>1. ThreadOK'
    BY <1>3, Zenon DEF ThreadOK
  <2> QED
    BY <1>1, <1>3, <2>1 DEF StreamOK
<1>4. ASSUME Quiet, md_pc' \in {"Done", "Connect", "Sleep", "Fetch"}, ~EndCont PROVE StreamOK'
  <2>1. ~EndCont'
    BY <1>1, <1>4
  <2>2. ThreadOK'
    BY <1>4, <2>1, Zenon DEF ThreadOK
  <2> QED
    BY <1>1, <1>4, <2>2 DEF StreamOK
<1>5. CASE PushOne
  BY <1>5, PushStream
<1>6. CASE EnginePop
  BY <1>6, PopStream
<1>7. CASE \/ \E l \in Levels : ExchangeUpdate(l)
           \/ SendFrame \/ LoseFrame \/ EngineStops \/ EngineExit \/ Stop
           \/ UNCHANGED vars
  BY <1>2, <1>7, SMTT(30)
  DEF ExchangeUpdate, SendFrame, LoseFrame, EngineStops, EngineExit, Stop, vars,
      feedVars, mdVars, engVars
<1>8. CASE ConnectOk \/ ConnectFail \/ Wake \/ FetchFail
  <2>1. Quiet /\ md_pc' \in {"Done", "Connect", "Sleep", "Fetch"}
    BY <1>8 DEF ConnectOk, ConnectFail, Wake, FetchFail, Continue, CloseAndSleep, engVars
  <2>2. md_pc \in {"Connect", "Sleep", "Fetch"}
    BY <1>8 DEF ConnectOk, ConnectFail, Wake, FetchFail
  <2> QED
    BY <1>a, <1>4, <2>1, <2>2 DEF ThreadOK
<1>9. CASE PushAbort
  BY <1>3, <1>9 DEF PushAbort, engVars
<1>10. CASE ReadFail \/ LiveGap \/ BootTooOld
  <2>1. Quiet /\ md_pc' \in {"Done", "Connect", "Sleep", "Fetch"}
    BY <1>10 DEF ReadFail, LiveGap, BootTooOld, CloseAndSleep, ReadDiff, engVars
  <2>2. md_pc \in {"Await", "Live"}
    BY <1>10 DEF ReadFail, LiveGap, BootTooOld, ReadDiff
  <2> QED
    BY <1>a, <1>4, <2>1, <2>2 DEF ThreadOK
<1>11. CASE ReadUnparsable \/ BootDrop
  <2>1. Quiet /\ UNCHANGED <<resume, recon, group>> /\ md_pc' \in {"Done", md_pc}
    BY <1>11 DEF ReadUnparsable, BootDrop, ReadDiff, engVars
  <2> QED
    BY <1>2, <1>3, <2>1
<1>12. ASSUME NEW L \in 0 .. LastId, FetchOk(L) PROVE StreamOK'
  <2>1. /\ Quiet /\ ~EndCont /\ group' = SnapshotGroup(L) /\ md_pc' = "Push" /\ resume' = "Await"
        /\ recon'.state = "AwaitFirstEvent" /\ recon'.snapshot_last_id = L
    BY <1>a, <1>12, SMTT(30) DEF FetchOk, ThreadOK, ReconOnSnapshot, engVars
  <2>2. L \in Ids
    BY <1>c
  <2>3. Remainder("Snapshot", L)'
    BY <1>1, <2>1, <2>2, <1>d, WholeMessage DEF SnapshotGroup, PresentLevels
  <2> QED
    BY <1>1, <2>1, <2>3 DEF StreamOK, ThreadOK
<1>13. CASE ReadEmit
  <2>1. /\ Quiet /\ wire # << >> /\ ~EndCont
        /\ md_pc' = "Push" /\ resume' = "Live"
    BY <1>a, <1>13, SMTT(30) DEF ReadEmit, ReadDiff, ThreadOK, engVars
  <2>2. PICK U \in Ids, u \in 0 .. LastId : Head(wire).U = U /\ Head(wire).u = u
    <3>1. 1 \in 1 .. Len(wire) /\ Head(wire) = wire[1]
      <4>1. wire \in Seq([U: Ids, u: Ids]) /\ wire # << >>
        BY <1>b, <2>1
      <4> QED
        BY <4>1, HeadTailProperties
    <3>2. wire[1] \in [U: Ids, u: Ids]
      BY <1>b, <3>1, ElementOfSeq, Zenon
    <3>3. wire[1].U \in Ids /\ wire[1].u \in Ids /\ wire[1].u <= LastId
      BY <1>b, <3>1, <3>2
    <3>4. wire[1].u \in 0 .. LastId
      <4>1. wire[1].u \in Nat
        BY <1>c, <3>3, Zenon
      <4>2. LastId \in Nat /\ wire[1].u <= LastId
        BY <1>b, <3>3, Zenon
      <4> QED
        BY <4>1, <4>2
    <3> QED
      BY <3>1, <3>3, <3>4, Zenon
  <2>7. group' = DiffGroup(U, u) /\ recon' = ReconOnDiffGroup(recon, U, u)
    BY <1>13, <2>2 DEF ReadEmit
  <2>3. \/ /\ md_pc = "Await" /\ ReconAction(recon, U, u) = "EmitAndGoLive"
        \/ /\ md_pc = "Live" /\ ReconAction(recon, U, u) = "Emit"
    BY <1>13, <2>2, SMTT(30) DEF ReadEmit, ReadDiff
  <2>4. /\ recon \in [state: ReconStates, snapshot_last_id: Ids, prev_u: Ids]
        /\ Ids \subseteq Nat /\ u \in Ids
    BY <1>b, <1>c
  <2>5. CASE md_pc = "Await"
    <3>1. recon.state = "AwaitFirstEvent" /\ EndKind = "Snapshot"
          /\ EndId = recon.snapshot_last_id
      BY <1>a, <2>5 DEF ThreadOK
    <3>2. U <= EndId + 1 /\ EndId + 1 <= u
      BY <2>2, <2>3, <2>4, <2>5, <3>1 DEF ReconAction, Bracket
    <3>3. recon' = [recon EXCEPT !.prev_u = u, !.state = "Live"]
      BY <2>3, <2>5, <2>7 DEF ReconOnDiffGroup
    <3>4. recon'.state = "Live" /\ recon'.prev_u = u
      BY <2>4, <3>3
    <3>5. Remainder("DepthDiff", u)'
      BY <1>1, <2>1, <2>7, <3>1, <3>2, <1>d, WholeMessage DEF DiffGroup, ChangedLevels
    <3> QED
      BY <1>1, <2>1, <3>4, <3>5 DEF StreamOK, ThreadOK
  <2>6. CASE md_pc = "Live"
    <3>1. recon.state = "Live" /\ EndKind = "DepthDiff" /\ EndId = recon.prev_u
      BY <1>a, <2>6 DEF ThreadOK
    <3>2. U = EndId + 1
      BY <2>3, <2>4, <2>6, <3>1 DEF ReconAction, Continues
    <3>3. recon' = [recon EXCEPT !.prev_u = u]
      BY <2>3, <2>6, <2>7 DEF ReconOnDiffGroup
    <3>4. recon'.state = "Live" /\ recon'.prev_u = u
      BY <2>4, <3>1, <3>3
    <3>5. Remainder("DepthDiff", u)'
      BY <1>1, <2>1, <2>7, <3>1, <3>2, <1>d, WholeMessage DEF DiffGroup, ChangedLevels
    <3> QED
      BY <1>1, <2>1, <3>4, <3>5 DEF StreamOK, ThreadOK
  <2> QED
    BY <2>3, <2>5, <2>6
<1> QED
  BY <1>5, <1>6, <1>7, <1>8, <1>9, <1>10, <1>11, <1>12, <1>13
  DEF Next, MarketDataThread, Engine, Joined

\* Types and stream together are invariant.
LEMMA Invariance == Spec => [](TypeInv /\ StreamOK)
<1>1. Init => TypeInv /\ StreamOK
  BY TypeInit, StreamInit
<1>2. (TypeInv /\ StreamOK) /\ [Next]_vars => (TypeInv /\ StreamOK)'
  BY TypeNext, StreamNext
<1> QED
  BY <1>1, <1>2, PTL DEF Spec

\* The verifier in the engine never finds a gap the market-data thread let
\* through, whatever is lost, unparsable, reconnected or resynchronised.
THEOREM NoGapPasses == Spec => []NoUndetectedGap
<1>1. StreamOK => NoUndetectedGap
  BY DEF StreamOK, EngineOK, NoUndetectedGap
<1> QED
  BY <1>1, Invariance, PTL

\* The fragments of one message reach the engine together and in order.
THEOREM GroupsWhole == Spec => []GroupsArriveWhole
<1>1. TypeInv /\ StreamOK => GroupsArriveWhole
  <2> SUFFICES ASSUME TypeInv, StreamOK PROVE GroupsArriveWhole
    OBVIOUS
  <2> USE DEF TypeInv, StreamOK
  <2>1. ASSUME NEW i \in 1 .. Len(queue) - 1, queue[i].cont
        PROVE  SameGroup(queue[i], queue[i + 1])
    BY <2>1, SMTT(30) DEF QueueOK, Follows, SameGroup
  <2>2. ASSUME verifier.prev_continuation, queue # << >>
        PROVE  /\ queue[1].u = book_id /\ ~queue[1].start
               /\ queue[1].kind = EngKind
    BY <2>2, SMTT(30) DEF QueueOK, Follows
  <2>3. verifier.prev_continuation => (EngKind = "DepthDiff") = book_live
    BY DEF EngineOK, EngKind, TypeOK
  <2> QED
    BY <2>1, <2>2, <2>3, SMTT(30) DEF GroupsArriveWhole
<1> QED
  BY <1>1, Invariance, PTL
-----------------------------------------------------------------------------
(* The contents of the book.  The invariant follows the stream of events   *)
(* that are still to be applied, in the queue and in the market-data       *)
(* thread's hands.                                                         *)

\* The events that will reach the engine unless the thread is stopped.
Stream == queue \o (IF md_pc = "Push" THEN group ELSE << >>)

\* A level either has the version it had at m, or was changed after m.
HistoryOK ==
  \A m, n \in 0 .. LastId : m <= n =>
    \A l \in Levels : \/ ExchangeBook(n)[l] = ExchangeBook(m)[l]
                      \/ ExchangeBook(n)[l] > m

\* A frame covers at least one update.
FramesOK == \A i \in 1 .. Len(wire) : wire[i].U <= wire[i].u

\* The levels of the message that starts with event e.
MessageLevels(e) ==
  IF e.kind = "Snapshot" THEN PresentLevels(e.u) ELSE ChangedLevels(e.U, e.u)

\* What an event of the stream carries is the exchange's book at its id.
ContentOK(s) ==
  \A i \in 1 .. Len(s) :
    /\ s[i].U <= s[i].u /\ s[i].u <= LastId
    /\ \A l \in DOMAIN s[i].levels : s[i].levels[l] = ExchangeBook(s[i].u)[l]

\* The first event after a that is not continued is k.
Ends(s, a, k) == a <= k /\ (\A j \in a .. k - 1 : s[j].cont) /\ ~s[k].cont

\* Some event from a to k carries level l.
Carries(s, a, k, l) == \E j \in a .. k : l \in DOMAIN s[j].levels

\* Each message that is wholly in the stream carries all its levels; first says
\* whether the stream starts with a message's first event.
WholeOK(s, first) ==
  \A a, k \in 1 .. Len(s) :
    (IF a = 1 THEN first ELSE ~s[a - 1].cont) /\ Ends(s, a, k) =>
      \A l \in MessageLevels(s[a]) : Carries(s, a, k, l)

\* Between messages the book is the exchange's at its id; within one, it is but
\* for levels the rest of the message carries.
EngineBookOK(s, within) ==
  /\ ~within => book = ExchangeBook(book_id)
  /\ within => \A k \in 1 .. Len(s) : Ends(s, 1, k) =>
       \A l \in Levels : book[l] = ExchangeBook(book_id)[l] \/ Carries(s, 1, k, l)

\* The part of the inductive invariant about contents.
BookOK ==
  /\ HistoryOK /\ FramesOK
  /\ ContentOK(Stream)
  /\ WholeOK(Stream, ~verifier.prev_continuation)
  /\ EngineBookOK(Stream, verifier.prev_continuation)
  /\ book_id <= LastId
  /\ NoQuotesWithoutLiveBook

\* Every level of a message is in one of its events.
LEMMA FragmentsCover ==
  ASSUME NEW S \in SUBSET Levels, NEW l \in S
  PROVE  \E i \in 1 .. NumFragments(S) : l \in FragmentLevels(S, i)
<1> DEFINE M == MaxLevelsPerEvent
           c == Cardinality(S)
           r == Cardinality({k \in S : k < l})
<1>0. IsFiniteSet(Levels)
  BY NumLevelsAssumption, FS_Interval DEF Levels
<1>1. IsFiniteSet(S)
  BY <1>0, FS_Subset
<1>2. r \in Nat /\ c \in Nat /\ r < c
  <2>1. /\ {k \in S : k < l} \subseteq S /\ l \notin {k \in S : k < l}
    BY DEF Levels
  <2> QED
    BY <1>1, <2>1, FS_Subset, FS_CardinalityType, FS_Subset
<1>3. M \in Nat /\ M > 0
  BY PerEventAssumption
<1> HIDE DEF r, c, M
<1>4. r \div M \in Nat /\ r \div M + 1 <= (c + M - 1) \div M
  <2> DEFINE x == c + M - 1
             qx == x \div M
             qr == r \div M
  <2>1. x \in Nat /\ x >= r + M
    BY <1>2, <1>3
  <2>2. qr \in Nat /\ qx \in Nat
    <3> HIDE DEF x
    <3> QED
      BY <1>2, <1>3, <2>1
  <2>3. /\ r % M \in 0 .. M - 1 /\ r = M * qr + (r % M)
        /\ x % M \in 0 .. M - 1 /\ x = M * qx + (x % M)
    <3> HIDE DEF x
    <3> QED
      BY <1>2, <1>3, <2>1
  <2> HIDE DEF x, qx, qr
  <2>4. SUFFICES ASSUME qx <= qr PROVE FALSE
    BY <2>2 DEF qr, qx, x
  <2>5. M * qx <= M * qr
    BY <1>3, <2>2, <2>4
  <2>6. M * qx \in Int /\ M * qr \in Int
    BY <1>3, <2>2
  <2>7. \A y, z \in Int : y <= z /\ r = z + (r % M) /\ x = y + (x % M) => x < r + M
    BY <1>2, <1>3, <2>1, <2>3
  <2> QED
    BY <1>2, <1>3, <2>1, <2>3, <2>5, <2>6, <2>7
<1>5. NumFragments(S) = (c + M - 1) \div M
  BY DEF NumFragments, c, M
<1>6. r \div M + 1 \in 1 .. NumFragments(S)
  BY <1>4, <1>5, NumFragmentsType
<1>7. l \in FragmentLevels(S, r \div M + 1)
  <2>1. r \div M = (r \div M + 1) - 1
    BY <1>4
  <2> QED
    BY <2>1 DEF FragmentLevels, r, M
<1> QED
  BY <1>6, <1>7

\* The stream is a sequence of events.
LEMMA StreamType ==
  ASSUME TypeOK
  PROVE  /\ Stream \in Seq(Event) /\ Len(Stream) \in Nat
         /\ \A i \in 1 .. Len(Stream) :
              /\ Stream[i] \in Event /\ Stream[i].u \in Nat /\ Stream[i].U \in Nat
              /\ Stream[i].cont \in BOOLEAN /\ Stream[i].start \in BOOLEAN
              /\ Stream[i].kind \in {"Snapshot", "DepthDiff"}
<1>1. Stream \in Seq(Event)
  BY DEF TypeOK, Stream
<1>2. ASSUME NEW e \in Event
      PROVE  /\ e.u \in Nat /\ e.U \in Nat /\ e.cont \in BOOLEAN /\ e.start \in BOOLEAN
             /\ e.kind \in {"Snapshot", "DepthDiff"}
  BY MaxUpdatesAssumption DEF Event, Ids
<1>3. \A i \in 1 .. Len(Stream) : Stream[i] \in Event
  BY <1>1, ElementOfSeq
<1> QED
  BY <1>1, <1>2, <1>3

\* A step that leaves the engine alone, rewrites no history, and at most cuts
\* off the end of the stream keeps what is said of the contents.
LEMMA KeepContents ==
  ASSUME TypeOK, BookOK, LastId' \in Nat, LastId <= LastId', Len(Stream') \in Nat,
         \A n \in 1 .. LastId : books'[n] = books[n],
         Len(Stream') <= Len(Stream), \A i \in 1 .. Len(Stream') : Stream'[i] = Stream[i],
         UNCHANGED <<verifier, book, book_id, book_live, quoting>>
  PROVE  /\ ContentOK(Stream)'
         /\ WholeOK(Stream, ~verifier.prev_continuation)'
         /\ EngineBookOK(Stream, verifier.prev_continuation)'
         /\ (book_id <= LastId)' /\ NoQuotesWithoutLiveBook'
<1> DEFINE s == Stream
           t == Stream'
<1>1. /\ LastId \in Nat /\ LastId' \in Nat /\ book_id \in Nat
      /\ Len(s) \in Nat /\ Len(t) \in Nat
      /\ \A i \in 1 .. Len(s) : s[i].u \in Nat
  BY StreamType, MaxUpdatesAssumption DEF TypeOK, LastId, Ids
<1>2. /\ ContentOK(s) /\ WholeOK(s, ~verifier.prev_continuation)
      /\ EngineBookOK(s, verifier.prev_continuation) /\ book_id <= LastId
  BY DEF BookOK
<1>3. Len(t) <= Len(s) /\ \A i \in 1 .. Len(t) : t[i] = s[i]
  OBVIOUS
<1> HIDE DEF s, t
<1>4. ContentOK(Stream)'
  BY <1>1, <1>2, <1>3, SMTT(30) DEF ContentOK, ExchangeBook, t
<1>5. WholeOK(Stream, ~verifier.prev_continuation)'
  <2> SUFFICES ASSUME NEW a \in 1 .. Len(t), NEW k \in 1 .. Len(t),
                      IF a = 1 THEN ~verifier.prev_continuation ELSE ~t[a - 1].cont,
                      Ends(t, a, k), NEW l \in MessageLevels(Stream[a])'
               PROVE  Carries(t, a, k, l)
    BY Zenon DEF WholeOK, Ends, Carries, t
  <2>1. l \in MessageLevels(s[a])
    BY <1>1, <1>2, <1>3
    DEF ContentOK, MessageLevels, PresentLevels, ChangedLevels, ExchangeBook, t
  <2>a. /\ \A j \in a .. k : t[j] = s[j]
        /\ \A j \in a .. k - 1 : t[j] = s[j]
        /\ a # 1 => t[a - 1] = s[a - 1]
        /\ t[k] = s[k]
    <3>1. Len(t) \in Nat
      BY <1>1
    <3>2. /\ \A j \in a .. k : j \in 1 .. Len(t)
          /\ \A j \in a .. k - 1 : j \in 1 .. Len(t)
          /\ a # 1 => a - 1 \in 1 .. Len(t)
      BY <3>1
    <3> QED
      BY <1>3, <3>2, Zenon
  <2>2. Ends(s, a, k) /\ (IF a = 1 THEN ~verifier.prev_continuation ELSE ~s[a - 1].cont)
    BY <2>a, Zenon DEF Ends
  <2>3. Carries(s, a, k, l)
    BY <1>1, <1>2, <1>3, <2>1, <2>2 DEF WholeOK
  <2> QED
    BY <2>a, <2>3, Zenon DEF Carries
<1>6. EngineBookOK(Stream, verifier.prev_continuation)'
  <2>1. (IF book_id = 0 THEN EmptyBook ELSE books'[book_id]) = ExchangeBook(book_id)
    BY <1>1, <1>2 DEF ExchangeBook
  <2>2. ASSUME verifier.prev_continuation, NEW k \in 1 .. Len(t), Ends(t, 1, k),
               NEW l \in Levels
        PROVE  book[l] = ExchangeBook(book_id)[l] \/ Carries(t, 1, k, l)
    <3>a. /\ \A j \in 1 .. k : t[j] = s[j]
          /\ \A j \in 1 .. k - 1 : t[j] = s[j]
          /\ t[k] = s[k]
      BY <1>1, <1>3
    <3>1. Ends(s, 1, k)
      BY <2>2, <3>a, Zenon DEF Ends
    <3>2. book[l] = ExchangeBook(book_id)[l] \/ Carries(s, 1, k, l)
      BY <1>1, <1>2, <1>3, <2>2, <3>1 DEF EngineBookOK
    <3> QED
      BY <3>a, <3>2, Zenon DEF Carries
  <2> DEFINE b == ExchangeBook(book_id)
  <2>3. /\ ~verifier.prev_continuation => book = b
        /\ verifier.prev_continuation => \A k \in 1 .. Len(t) : Ends(t, 1, k) =>
             \A l \in Levels : book[l] = b[l] \/ Carries(t, 1, k, l)
    BY <1>2, <2>2, Zenon DEF EngineBookOK
  <2>4. ExchangeBook(book_id)' = b
    BY <2>1 DEF ExchangeBook
  <2> HIDE DEF b
  <2> QED
    BY <2>3, <2>4, Zenon DEF EngineBookOK, Ends, Carries, t
<1> QED
  BY <1>1, <1>2, <1>4, <1>5, <1>6 DEF BookOK, NoQuotesWithoutLiveBook

\* A message of the exchange, cut into events after the end of the stream,
\* carries all its levels.
LEMMA AppendMessage ==
  ASSUME TypeOK, BookOK, NEW kind \in {"Snapshot", "DepthDiff"},
         NEW U \in Nat, NEW u \in 0 .. LastId, NEW S \in SUBSET Levels, U <= u,
         S = IF kind = "Snapshot" THEN PresentLevels(u) ELSE ChangedLevels(U, u),
         group' = EventGroup(kind, U, u, S), Len(group') = NumFragments(S),
         group' \in Seq(Event), md_pc # "Push", md_pc' = "Push", ~EndCont,
         UNCHANGED <<books, queue, verifier, book, book_id, book_live, quoting>>
  PROVE  /\ ContentOK(Stream)'
         /\ WholeOK(Stream, ~verifier.prev_continuation)'
         /\ EngineBookOK(Stream, verifier.prev_continuation)'
<1> DEFINE q == Len(queue)
           n == NumFragments(S)
           s == Stream
           t == Stream'
           within == verifier.prev_continuation
<1>0. verifier' = verifier /\ book' = book /\ book_id' = book_id /\ books' = books
  OBVIOUS
<1>1. /\ n \in Nat \ {0} /\ q \in Nat /\ LastId \in Nat /\ within \in BOOLEAN
      /\ s = queue /\ t = queue \o group' /\ queue \in Seq(Event)
  BY NumFragmentsType DEF TypeOK, LastId, Stream
<1>a. n \in Nat \ {0} /\ q \in Nat /\ LastId \in Nat
  BY <1>1
<1>2. /\ Len(t) = q + n /\ Len(s) = q
      /\ \A i \in 1 .. q : t[i] = s[i]
      /\ \A i \in 1 .. n : t[q + i] = group'[i]
      /\ \A i \in q + 1 .. q + n : i - q \in 1 .. n /\ t[i] = group'[i - q]
  <2> DEFINE g == group'
  <2>1. g \in Seq(Event) /\ Len(g) = n
    OBVIOUS
  <2> HIDE DEF n, g
  <2>2. /\ Len(queue \o g) = q + n
        /\ \A i \in 1 .. q + n :
             (queue \o g)[i] = IF i <= q THEN queue[i] ELSE g[i - q]
    BY <1>1, <2>1, ConcatProperties, Zenon
  <2>3. Len(t) = q + n /\ \A i \in 1 .. q : t[i] = s[i]
    BY <1>1, <2>2 DEF g
  <2>4. ASSUME NEW i \in q + 1 .. q + n PROVE i - q \in 1 .. n /\ t[i] = g[i - q]
    BY <1>1, <2>2 DEF g
  <2>5. ASSUME NEW i \in 1 .. n PROVE t[q + i] = g[i]
    <3>1. q + i \in q + 1 .. q + n /\ (q + i) - q = i
      BY <1>1
    <3> QED
      BY <2>4, <3>1
  <2> QED
    BY <1>1, <2>3, <2>4, <2>5 DEF g
<1>3. /\ ContentOK(s) /\ WholeOK(s, ~within) /\ EngineBookOK(s, within) /\ book_id <= LastId
  BY DEF BookOK
<1>4. ASSUME NEW i \in 1 .. n
      PROVE  /\ group'[i].kind = kind /\ group'[i].u = u /\ group'[i].U = U
             /\ group'[i].cont = (i < n)
             /\ group'[i].levels = [l \in FragmentLevels(S, i) |-> ExchangeBook(u)[l]]
  BY Zenon DEF EventGroup
<1>5. /\ q = 0 => ~within
      /\ q > 0 => ~s[q].cont
  BY <1>1 DEF EndCont
<1> HIDE DEF s, t, n, q, within
<1>6. \A i \in 1 .. q + n : i \in 1 .. q \/ i \in q + 1 .. q + n
  BY <1>1
<1>7. ContentOK(Stream)'
  <2> SUFFICES ASSUME NEW i \in 1 .. q + n
               PROVE  /\ t[i].U <= t[i].u /\ t[i].u <= LastId
                      /\ \A l \in DOMAIN t[i].levels : t[i].levels[l] = ExchangeBook(t[i].u)[l]
    BY <1>2, Zenon DEF ContentOK, ExchangeBook, LastId, t
  <2>1. CASE i \in 1 .. q
    BY <1>2, <1>3, <2>1 DEF ContentOK
  <2>2. CASE i \in q + 1 .. q + n
    <3>1. i - q \in 1 .. n /\ t[i] = group'[i - q]
      BY <1>2, <2>2
    <3>2. /\ t[i].U = U /\ t[i].u = u
          /\ t[i].levels = [l \in FragmentLevels(S, i - q) |-> ExchangeBook(u)[l]]
      BY <1>4, <3>1, Zenon
    <3>3. U <= u /\ u <= LastId
      BY <1>a
    <3> QED
      BY <3>2, <3>3, Zenon
  <2> QED
    BY <1>6, <2>1, <2>2
\* A message cannot reach over the end of the old stream.
<1>8. ASSUME NEW a \in 1 .. q + n, NEW k \in 1 .. q + n, Ends(t, a, k),
             IF a = 1 THEN TRUE ELSE ~t[a - 1].cont
      PROVE  k <= q \/ (a = q + 1 /\ k = q + n)
  <2>1. ASSUME a <= q, q < k PROVE FALSE
    <3>1. q \in a .. k - 1 /\ q \in 1 .. q
      BY <1>1, <2>1
    <3> QED
      BY <1>1, <1>2, <1>5, <1>8, <3>1, SMTT(30) DEF Ends
  <2>2. ASSUME q + 1 < a PROVE FALSE
    <3>1. a - 1 \in q + 1 .. q + n /\ a # 1 /\ (a - 1) - q < n /\ (a - 1) - q \in 1 .. n
      BY <1>1, <2>2
    <3> QED
      BY <1>2, <1>4, <1>8, <3>1, Zenon
  <2>3. ASSUME q < k, k < q + n PROVE FALSE
    <3>1. k \in q + 1 .. q + n /\ k - q < n /\ k - q \in 1 .. n
      BY <1>1, <2>3
    <3> QED
      BY <1>2, <1>4, <1>8, <3>1, Zenon DEF Ends
  <2>4. a <= k
    BY <1>8 DEF Ends
  <2> QED
    BY <1>1, <2>1, <2>2, <2>3, <2>4
<1>9. WholeOK(Stream, ~verifier.prev_continuation)'
  <2> SUFFICES ASSUME NEW a \in 1 .. Len(t), NEW k \in 1 .. Len(t),
                      IF a = 1 THEN ~within ELSE ~t[a - 1].cont,
                      Ends(t, a, k), NEW l \in MessageLevels(Stream[a])'
               PROVE  Carries(t, a, k, l)
    BY Zenon DEF WholeOK, Ends, Carries, t, within
  <2>a. a \in 1 .. q + n /\ k \in 1 .. q + n
    BY <1>2
  <2>0. l \in MessageLevels(t[a])
    BY <1>0 DEF MessageLevels, PresentLevels, ChangedLevels, ExchangeBook, t
  <2>1. CASE k <= q
    <3>1. a <= k
      BY DEF Ends
    <3>2. /\ \A j \in a .. k : t[j] = s[j]
          /\ \A j \in a .. k - 1 : t[j] = s[j]
          /\ a # 1 => t[a - 1] = s[a - 1]
          /\ t[k] = s[k] /\ t[a] = s[a]
      BY <1>1, <1>2, <2>1, <3>1
    <3>3. Ends(s, a, k) /\ (IF a = 1 THEN ~within ELSE ~s[a - 1].cont)
      BY <3>2, Zenon DEF Ends
    <3>4. a \in 1 .. Len(s) /\ k \in 1 .. Len(s)
      BY <1>1, <1>2, <2>1, <3>1
    <3>5. Carries(s, a, k, l)
      BY <1>3, <2>0, <3>2, <3>3, <3>4, Zenon DEF WholeOK
    <3> QED
      BY <3>2, <3>5, Zenon DEF Carries
  <2>2. CASE a = q + 1 /\ k = q + n
    <3>1. 1 \in 1 .. n /\ t[a] = group'[1]
      <4>1. 1 \in 1 .. n
        BY <1>a
      <4> QED
        BY <1>2, <2>2, <4>1, Zenon
    <3>2. l \in S
      BY <1>4, <2>0, <3>1, Zenon DEF MessageLevels
    <3>3. PICK i \in 1 .. n : l \in FragmentLevels(S, i)
      BY <3>2, FragmentsCover DEF n
    <3>4. q + i \in a .. k /\ t[q + i] = group'[i]
      <4>1. q + i \in a .. k
        BY <1>a, <2>2
      <4> QED
        BY <1>2, <4>1, Zenon
    <3>5. DOMAIN t[q + i].levels = FragmentLevels(S, i)
      BY <1>4, <3>4, Zenon
    <3> QED
      BY <3>3, <3>4, <3>5 DEF Carries
  <2> QED
    BY <1>8, <2>a, <2>1, <2>2
<1>10. EngineBookOK(Stream, verifier.prev_continuation)'
  <2>1. ASSUME within, NEW k \in 1 .. q + n, Ends(t, 1, k), NEW l \in Levels
        PROVE  book[l] = ExchangeBook(book_id)[l] \/ Carries(t, 1, k, l)
    <3>0. q > 0 /\ 1 \in 1 .. q + n
      BY <1>1, <1>5, <2>1
    <3>1. k <= q
      BY <1>1, <1>8, <2>1, <3>0
    <3>2. /\ \A j \in 1 .. k : t[j] = s[j]
          /\ \A j \in 1 .. k - 1 : t[j] = s[j]
          /\ t[k] = s[k] /\ k \in 1 .. Len(s)
      BY <1>1, <1>2, <3>1
    <3>3. Ends(s, 1, k)
      BY <2>1, <3>2, Zenon DEF Ends
    <3>4. book[l] = ExchangeBook(book_id)[l] \/ Carries(s, 1, k, l)
      BY <1>3, <2>1, <3>2, <3>3, Zenon DEF EngineBookOK
    <3> QED
      BY <3>2, <3>4, Zenon DEF Carries
  <2>2. ExchangeBook(book_id)' = ExchangeBook(book_id)
    BY DEF ExchangeBook
  <2> DEFINE b == ExchangeBook(book_id)
  <2>3. /\ ~within => book = b
        /\ within => \A k \in 1 .. Len(t) : Ends(t, 1, k) =>
             \A l \in Levels : book[l] = b[l] \/ Carries(t, 1, k, l)
    BY <1>2, <1>3, <2>1, Zenon DEF EngineBookOK
  <2>4. ExchangeBook(book_id)' = b
    BY <2>2
  <2> HIDE DEF b
  <2> QED
    BY <2>3, <2>4, Zenon DEF EngineBookOK, Ends, Carries, t, within
<1> QED
  BY <1>7, <1>9, <1>10

\* Drain applies the next event: a message's first event leaves only levels
\* wrong that its later events carry.
LEMMA PopBook ==
  ASSUME TypeInv, StreamOK, BookOK, EnginePop
  PROVE  /\ ContentOK(Stream)'
         /\ WholeOK(Stream, ~verifier.prev_continuation)'
         /\ EngineBookOK(Stream, verifier.prev_continuation)'
         /\ (book_id <= LastId)' /\ NoQuotesWithoutLiveBook'
<1> DEFINE s == Stream
           t == Stream'
           r == IF md_pc = "Push" THEN group ELSE << >>
           ev == s[1]
           within == verifier.prev_continuation
<1>1. /\ queue \in Seq(Event) /\ queue # << >> /\ r \in Seq(Event)
      /\ queue' = Tail(queue) /\ s = queue \o r /\ t = queue' \o r
      /\ books' = books /\ wire' = wire
  BY DEF EnginePop, TypeInv, TypeOK, Stream, feedVars, mdVars
<1>2. /\ Len(s) \in Nat /\ Len(s) >= 1 /\ Len(t) = Len(s) - 1 /\ s[1] = queue[1]
      /\ Head(queue) = queue[1]
      /\ \A i \in 1 .. Len(t) : t[i] = s[i + 1]
  <2> HIDE DEF r
  <2> DEFINE q == Len(queue)
             w == Tail(queue)
  <2>1. /\ q \in Nat /\ q >= 1 /\ Len(r) \in Nat /\ w \in Seq(Event) /\ Len(w) = q - 1
        /\ \A i \in 1 .. q - 1 : w[i] = queue[i + 1]
        /\ Head(queue) = queue[1]
    BY <1>1, HeadTailProperties
  <2> HIDE DEF w
  <2>2. /\ Len(queue \o r) = q + Len(r)
        /\ \A i \in 1 .. q + Len(r) :
             (queue \o r)[i] = IF i <= q THEN queue[i] ELSE r[i - q]
    BY <1>1, ConcatProperties
  <2>3. /\ Len(w \o r) = (q - 1) + Len(r)
        /\ \A i \in 1 .. (q - 1) + Len(r) :
             (w \o r)[i] = IF i <= q - 1 THEN w[i] ELSE r[i - (q - 1)]
    <3>1. /\ Len(w \o r) = Len(w) + Len(r)
          /\ \A i \in 1 .. Len(w) + Len(r) :
               (w \o r)[i] = IF i <= Len(w) THEN w[i] ELSE r[i - Len(w)]
      BY <1>1, <2>1, ConcatProperties, Zenon
    <3>2. Len(w) = q - 1
      BY <2>1
    <3> QED
      BY <3>1, <3>2, Zenon
  <2>4. s = queue \o r /\ t = w \o r
    BY <1>1 DEF w
  <2> HIDE DEF s, t, q
  <2>5. ASSUME NEW i \in 1 .. Len(t) PROVE t[i] = s[i + 1]
    <3>1. i \in 1 .. (q - 1) + Len(r) /\ i + 1 \in 1 .. q + Len(r)
      BY <2>1, <2>3, <2>4
    <3>2. CASE i <= q - 1
      BY <2>1, <2>2, <2>3, <2>4, <3>1, <3>2
    <3>3. CASE ~(i <= q - 1)
      <4>1. ~(i + 1 <= q) /\ i - (q - 1) = (i + 1) - q
        BY <2>1, <3>1, <3>3
      <4> QED
        BY <2>2, <2>3, <2>4, <3>1, <3>3, <4>1
    <3> QED
      BY <3>2, <3>3
  <2>6. 1 \in 1 .. q + Len(r) /\ 1 <= q
    BY <2>1
  <2> QED
    BY <2>1, <2>2, <2>3, <2>4, <2>5, <2>6
<1>3. /\ ContentOK(s) /\ WholeOK(s, ~within) /\ EngineBookOK(s, within)
      /\ book_id <= LastId /\ HistoryOK /\ NoQuotesWithoutLiveBook
  BY DEF BookOK
<1>4. /\ verifier'.prev_continuation = ev.cont /\ book_id' = ev.u
      /\ book' = BookAfter(book, ev) /\ book_live' = LiveAfter(book_live, ev)
      /\ quoting' \in QuotingAfter(ev, Ticks(LiveAfter(book_live, ev), ev))
  BY <1>2, Zenon DEF EnginePop, VerifierCheck
<1>5. Follows(EngKind, book_id, within, ev)
  BY <1>1, <1>2 DEF StreamOK, QueueOK
<1>6. /\ ev.u \in 0 .. LastId /\ ev.U \in Nat /\ ev.U <= ev.u /\ LastId \in Nat
      /\ \A l \in DOMAIN ev.levels : ev.levels[l] = ExchangeBook(ev.u)[l]
      /\ ev.cont \in BOOLEAN /\ ev.start \in BOOLEAN /\ ev.kind \in {"Snapshot", "DepthDiff"}
      /\ book_id \in 0 .. LastId /\ within \in BOOLEAN /\ book_live \in BOOLEAN
  <2>1. TypeOK /\ LastId \in Nat /\ book_id \in Nat
        /\ within \in BOOLEAN /\ book_live \in BOOLEAN
    BY MaxUpdatesAssumption DEF TypeInv, TypeOK, LastId, Ids
  <2>2. 1 \in 1 .. Len(s)
    BY <1>2
  <2>3. /\ ev.u \in Nat /\ ev.U \in Nat /\ ev.cont \in BOOLEAN /\ ev.start \in BOOLEAN
        /\ ev.kind \in {"Snapshot", "DepthDiff"}
    BY <2>1, <2>2, StreamType, Zenon
  <2>4. /\ ev.U <= ev.u /\ ev.u <= LastId
        /\ \A l \in DOMAIN ev.levels : ev.levels[l] = ExchangeBook(ev.u)[l]
    BY <1>3, <2>2, Zenon DEF ContentOK
  <2> QED
    BY <1>3, <2>1, <2>3, <2>4
<1>7. /\ ExchangeBook(ev.u) \in [Levels -> Nat] /\ ExchangeBook(book_id) \in [Levels -> Nat]
  BY <1>6, BookType, MaxUpdatesAssumption DEF TypeInv, Ids
<1> DEFINE old == ExchangeBook(book_id)
           new == ExchangeBook(ev.u)
           b == BookAfter(book, ev)
<1> HIDE DEF s, t, r, ev, within
<1>8. ASSUME NEW l \in Levels
      PROVE  \/ b[l] = new[l]
             \/ \A k \in 1 .. Len(s) : Ends(s, 1, k) => Carries(s, 2, k, l)
  <2>0. ASSUME NEW k \in 1 .. Len(s), Carries(s, 1, k, l), l \notin DOMAIN ev.levels
        PROVE  Carries(s, 2, k, l)
    <3>1. PICK j \in 1 .. k : l \in DOMAIN s[j].levels
      BY <2>0 DEF Carries
    <3>2. j # 1
      BY <2>0, <3>1 DEF ev
    <3>3. j \in 2 .. k
      BY <1>2, <3>1, <3>2
    <3> QED
      BY <3>1, <3>3 DEF Carries
  <2>1. CASE l \in DOMAIN ev.levels
    BY <1>6, <2>1 DEF BookAfter
  <2>2. CASE l \notin DOMAIN ev.levels /\ within
    <3>1. ev.u = book_id /\ ~ev.start
      BY <1>5, <2>2 DEF Follows
    <3>2. b[l] = book[l]
      BY <2>2, <3>1 DEF BookAfter
    <3>3. \/ book[l] = old[l]
          \/ \A k \in 1 .. Len(s) : Ends(s, 1, k) => Carries(s, 1, k, l)
      BY <1>3, <2>2, Zenon DEF EngineBookOK
    <3> QED
      BY <2>0, <2>2, <3>1, <3>2, <3>3, Zenon
  <2>3. CASE l \notin DOMAIN ev.levels /\ ~within
    <3>1. ASSUME l \in MessageLevels(ev), NEW k \in 1 .. Len(s), Ends(s, 1, k)
          PROVE  Carries(s, 2, k, l)
      <4>1. Carries(s, 1, k, l)
        <5>1. 1 \in 1 .. Len(s)
          BY <1>2
        <5> QED
          BY <1>3, <2>3, <3>1, <5>1, Zenon DEF WholeOK, ev
      <4> QED
        BY <2>0, <2>3, <4>1
    <3>2. ASSUME l \notin MessageLevels(ev) PROVE b[l] = new[l]
      <4>1. CASE ev.kind = "Snapshot"
        <5>1. ev.start
          BY <1>5, <2>3, <4>1 DEF Follows
        <5>2. b[l] = 0
          BY <2>3, <5>1 DEF BookAfter
        <5>3. ~(new[l] > 0) /\ new[l] \in Nat
          BY <1>7, <3>2, <4>1 DEF MessageLevels, PresentLevels
        <5> QED
          BY <5>2, <5>3
      <4>2. CASE ev.kind = "DepthDiff"
        <5>1. ~ev.start /\ ev.U <= book_id + 1 /\ book_id + 1 <= ev.u
          BY <1>5, <1>6, <2>3, <4>2 DEF Follows
        <5>2. b[l] = old[l]
          BY <1>3, <2>3, <5>1 DEF BookAfter, EngineBookOK
        <5>3. ~(new[l] >= ev.U) /\ new[l] \in Nat
          BY <1>7, <3>2, <4>2 DEF MessageLevels, ChangedLevels
        <5>4. book_id <= ev.u /\ ~(new[l] > book_id)
          BY <1>6, <5>1, <5>3
        <5>5. new[l] = old[l]
          BY <1>3, <1>6, <5>4, Zenon DEF HistoryOK
        <5> QED
          BY <5>2, <5>5
      <4> QED
        BY <1>6, <4>1, <4>2
    <3> QED
      BY <3>1, <3>2
  <2> QED
    BY <2>1, <2>2, <2>3
<1> HIDE DEF b, old, new
<1>9. ContentOK(Stream)'
  <2>1. \A i \in 1 .. Len(t) : i + 1 \in 1 .. Len(s) /\ t[i] = s[i + 1]
    BY <1>2
  <2>2. \A i \in 1 .. Len(t) :
          /\ t[i].U <= t[i].u /\ t[i].u <= LastId
          /\ \A l \in DOMAIN t[i].levels : t[i].levels[l] = ExchangeBook(t[i].u)[l]
    <3>1. \A j \in 1 .. Len(s) :
            /\ s[j].U <= s[j].u /\ s[j].u <= LastId
            /\ \A l \in DOMAIN s[j].levels : s[j].levels[l] = ExchangeBook(s[j].u)[l]
      BY <1>3, Zenon DEF ContentOK
    <3> SUFFICES ASSUME NEW i \in 1 .. Len(t)
                 PROVE  /\ t[i].U <= t[i].u /\ t[i].u <= LastId
                        /\ \A l \in DOMAIN t[i].levels :
                             t[i].levels[l] = ExchangeBook(t[i].u)[l]
      OBVIOUS
    <3> QED
      BY <2>1, <3>1
  <2>3. LastId' = LastId /\ \A n : ExchangeBook(n)' = ExchangeBook(n)
    BY <1>1 DEF LastId, ExchangeBook
  <2> QED
    BY <2>2, <2>3, Zenon DEF ContentOK, t
\* Positions in what is left are one less.
<1>10. ASSUME NEW a \in 1 .. Len(t), NEW k \in 1 .. Len(t)
       PROVE  /\ a + 1 \in 2 .. Len(s) /\ k + 1 \in 1 .. Len(s) /\ t[a] = s[a + 1]
              /\ Ends(t, a, k) => Ends(s, a + 1, k + 1)
              /\ \A l : Carries(s, a + 1, k + 1, l) => Carries(t, a, k, l)
  <2>1. /\ a + 1 \in 2 .. Len(s) /\ k + 1 \in 1 .. Len(s) /\ t[a] = s[a + 1]
        /\ t[k] = s[k + 1]
    BY <1>2
  <2>2. ASSUME Ends(t, a, k) PROVE Ends(s, a + 1, k + 1)
    <3>1. ASSUME NEW j \in a + 1 .. (k + 1) - 1 PROVE s[j].cont
      <4>1. j - 1 \in a .. k - 1 /\ j - 1 \in 1 .. Len(t) /\ (j - 1) + 1 = j
        BY <1>2
      <4>2. t[j - 1] = s[j]
        BY <1>2, <4>1, Zenon
      <4> QED
        BY <2>2, <4>1, <4>2, Zenon DEF Ends
    <3>2. a + 1 <= k + 1
      BY <1>2, <2>2 DEF Ends
    <3> QED
      BY <2>1, <2>2, <3>1, <3>2, Zenon DEF Ends
  <2>3. ASSUME NEW l, Carries(s, a + 1, k + 1, l) PROVE Carries(t, a, k, l)
    <3>1. PICK j \in a + 1 .. k + 1 : l \in DOMAIN s[j].levels
      BY <2>3 DEF Carries
    <3>2. j - 1 \in a .. k /\ j - 1 \in 1 .. Len(t) /\ (j - 1) + 1 = j
      BY <1>2
    <3>3. t[j - 1] = s[j]
      BY <1>2, <3>2
    <3> QED
      BY <3>1, <3>2, <3>3, Zenon DEF Carries
  <2> QED
    BY <2>1, <2>2, <2>3, Zenon
<1>11. WholeOK(Stream, ~verifier.prev_continuation)'
  <2> SUFFICES ASSUME NEW a \in 1 .. Len(t), NEW k \in 1 .. Len(t),
                      IF a = 1 THEN ~verifier'.prev_continuation ELSE ~t[a - 1].cont,
                      Ends(t, a, k), NEW l \in MessageLevels(Stream[a])'
               PROVE  Carries(t, a, k, l)
    BY Zenon DEF WholeOK, Ends, Carries, t
  <2>1. l \in MessageLevels(t[a])
    BY <1>1 DEF MessageLevels, PresentLevels, ChangedLevels, ExchangeBook, t
  <2>2. a + 1 \in 1 .. Len(s) /\ a + 1 # 1 /\ (a + 1) - 1 = a
    BY <1>2
  <2>3. ~s[a].cont
    <3>1. CASE a = 1
      BY <1>4, <3>1 DEF ev
    <3>2. CASE a # 1
      <4>1. a - 1 \in 1 .. Len(t) /\ (a - 1) + 1 = a
        BY <1>2, <3>2
      <4> QED
        BY <1>2, <3>2, <4>1
    <3> QED
      BY <3>1, <3>2
  <2>4. Carries(s, a + 1, k + 1, l)
    BY <1>3, <1>10, <2>1, <2>2, <2>3, Zenon DEF WholeOK
  <2> QED
    BY <1>10, <2>4, Zenon
<1>12. EngineBookOK(Stream, verifier.prev_continuation)'
  <2>1. ExchangeBook(book_id)' = new
    BY <1>1, <1>4 DEF ExchangeBook, new
  <2>2. ASSUME ~ev.cont PROVE b = new
    <3>1. 1 \in 1 .. Len(s) /\ Ends(s, 1, 1)
      BY <1>2, <2>2 DEF Ends, ev
    <3>2. ~Carries(s, 2, 1, 0) /\ \A l \in Levels : ~Carries(s, 2, 1, l)
      BY DEF Carries
    <3>3. \A l \in Levels : b[l] = new[l]
      BY <1>8, <3>1, <3>2, Zenon
    <3>4. b = [l \in Levels |-> b[l]]
      BY DEF b, BookAfter
    <3>5. new = [l \in Levels |-> new[l]]
      BY <1>7 DEF new
    <3> QED
      BY <3>3, <3>4, <3>5
  <2>3. ASSUME NEW k \in 1 .. Len(t), Ends(t, 1, k), ev.cont, NEW l \in Levels
        PROVE  b[l] = new[l] \/ Carries(t, 1, k, l)
    <3>0. 1 \in 1 .. Len(t) /\ 1 + 1 = 2 /\ k + 1 \in 1 .. Len(s)
      BY <1>2
    <3>1. Ends(s, 2, k + 1)
      BY <1>10, <2>3, <3>0
    <3>2. Ends(s, 1, k + 1)
      <4>1. ASSUME NEW j \in 1 .. (k + 1) - 1 PROVE s[j].cont
        <5>1. j = 1 \/ j \in 2 .. (k + 1) - 1
          BY <3>0
        <5> QED
          BY <2>3, <3>1, <5>1, Zenon DEF Ends, ev
      <4>2. 1 <= k + 1
        BY <3>0
      <4> QED
        BY <3>1, <4>1, <4>2, Zenon DEF Ends
    <3>3. b[l] = new[l] \/ Carries(s, 2, k + 1, l)
      BY <1>8, <3>0, <3>2, Zenon
    <3> QED
      BY <1>10, <3>0, <3>3
  <2>4. book' = b
    BY <1>4 DEF b
  <2> QED
    BY <1>4, <2>1, <2>2, <2>3, <2>4, Zenon DEF EngineBookOK, Ends, Carries, t
<1>13. (book_id <= LastId)' /\ NoQuotesWithoutLiveBook'
  <2>1. quoting' => book_live'
    BY <1>3, <1>4, <1>6, Zenon DEF QuotingAfter, Ticks, LiveAfter, NoQuotesWithoutLiveBook
  <2> QED
    BY <1>1, <1>4, <1>6, <2>1 DEF LastId, NoQuotesWithoutLiveBook
<1> QED
  BY <1>9, <1>11, <1>12, <1>13

\* Initially there is no book anywhere.
LEMMA BookInit == Init => BookOK
<1> SUFFICES ASSUME Init PROVE BookOK
  OBVIOUS
<1>1. /\ LastId = 0 /\ Len(wire) = 0 /\ book = EmptyBook /\ book_id = 0 /\ ~quoting
      /\ verifier.prev_continuation = FALSE /\ Stream = << >>
  BY DEF Init, LastId, VerifierInit, Stream
<1>2. HistoryOK /\ FramesOK
  BY <1>1 DEF HistoryOK, FramesOK
<1>3. /\ ContentOK(Stream) /\ WholeOK(Stream, ~verifier.prev_continuation)
  BY <1>1 DEF ContentOK, WholeOK
<1>4. EngineBookOK(Stream, verifier.prev_continuation)
  BY <1>1 DEF EngineBookOK, ExchangeBook
<1> QED
  BY <1>1, <1>2, <1>3, <1>4 DEF BookOK, NoQuotesWithoutLiveBook

\* A new update changes one level to a version newer than all others.
LEMMA HistoryNext ==
  ASSUME TypeOK, HistoryOK, NEW x \in Levels, Update(x)
  PROVE  /\ HistoryOK' /\ LastId' = LastId + 1 /\ LastId \in Nat
         /\ \A n \in 1 .. LastId : books'[n] = books[n]
<1> DEFINE top == ExchangeBook(LastId)
           b == [top EXCEPT ![x] = LastId + 1]
<1>1. LastId \in Nat /\ LastId \in 0 .. LastId /\ books \in Seq([Levels -> Ids])
  BY DEF TypeOK, LastId
<1>2. top \in [Levels -> Nat]
  BY <1>1, BookType, MaxUpdatesAssumption DEF Ids
<1> HIDE DEF top
<1>3. /\ b \in [Levels -> Nat] /\ b[x] = LastId + 1
      /\ \A l \in Levels : l # x => b[l] = top[l]
  BY <1>1, <1>2
<1>4. /\ LastId' = LastId + 1 /\ books'[LastId + 1] = b
      /\ \A n \in 1 .. LastId : books'[n] = books[n]
  BY <1>1 DEF Update, LastId, top
<1> HIDE DEF b
<1>5. ASSUME NEW n \in 0 .. LastId
      PROVE  (IF n = 0 THEN EmptyBook ELSE books'[n]) = ExchangeBook(n)
  BY <1>4 DEF ExchangeBook
<1> DEFINE New(n) == IF n = 0 THEN EmptyBook ELSE books'[n]
<1>6. ASSUME NEW m \in 0 .. LastId + 1, NEW n \in 0 .. LastId + 1, m <= n, NEW l \in Levels
      PROVE  New(n)[l] = New(m)[l] \/ New(n)[l] > m
  <2>1. CASE n <= LastId
    <3>1. m \in 0 .. LastId /\ n \in 0 .. LastId
      BY <1>1, <1>6, <2>1
    <3>2. New(m) = ExchangeBook(m) /\ New(n) = ExchangeBook(n)
      BY <1>5, <3>1
    <3> HIDE DEF New
    <3> QED
      BY <1>6, <3>1, <3>2 DEF HistoryOK
  <2>2. CASE m = n
    BY <2>2
  <2>3. CASE n = LastId + 1 /\ m <= LastId
    <3>1. m \in 0 .. LastId /\ New(n) = b
      BY <1>1, <1>4, <2>3
    <3>2. New(m) = ExchangeBook(m)
      BY <1>5, <3>1
    <3>3. top[l] = ExchangeBook(m)[l] \/ top[l] > m
      BY <1>1, <2>3, <3>1 DEF HistoryOK, top
    <3> HIDE DEF New
    <3>4. CASE l = x
      BY <1>1, <1>3, <3>1, <3>4
    <3>5. CASE l # x
      BY <1>3, <3>1, <3>2, <3>3, <3>5
    <3> QED
      BY <3>4, <3>5
  <2> QED
    BY <1>1, <1>6, <2>1, <2>2, <2>3
<1>7. HistoryOK'
  <2>1. \A m, n \in 0 .. LastId' : m <= n =>
          \A l \in Levels : New(n)[l] = New(m)[l] \/ New(n)[l] > m
    BY <1>4, <1>6
  <2> QED
    BY <2>1, Zenon DEF HistoryOK, ExchangeBook
<1> QED
  BY <1>1, <1>4, <1>7

\* A frame is sent about at least one update and read from the front.
LEMMA FramesNext == TypeInv /\ FramesOK /\ [Next]_vars => FramesOK'
<1> SUFFICES ASSUME TypeInv, FramesOK, [Next]_vars PROVE FramesOK'
  OBVIOUS
<1>1. /\ wire \in Seq([U: Ids, u: Ids]) /\ Len(wire) \in Nat
      /\ LastId \in Nat /\ framed \in Nat
  BY DEF TypeInv, TypeOK, LastId, Ids
<1>2. CASE wire' = wire \/ wire' = << >>
  BY <1>2 DEF FramesOK
<1>3. CASE wire # << >> /\ wire' = Tail(wire)
  <2>1. /\ Len(wire') = Len(wire) - 1
        /\ \A i \in 1 .. Len(wire) - 1 : wire'[i] = wire[i + 1]
    BY <1>1, <1>3, HeadTailProperties
  <2> QED
    BY <1>1, <2>1 DEF FramesOK
<1>4. CASE SendFrame
  <2>1. CASE Connected
    <3> DEFINE f == [U |-> framed + 1, u |-> LastId]
    <3>1. f \in [U: Ids, u: Ids] /\ f.U <= f.u
      <4>1. framed < LastId /\ LastId <= MaxUpdates
        BY <1>4 DEF SendFrame, TypeInv, TypeOK
      <4>2. LastId \in Ids /\ framed + 1 \in Ids /\ framed + 1 <= LastId
        BY <1>1, <4>1, MaxUpdatesAssumption DEF Ids
      <4> QED
        BY <4>2
    <3> HIDE DEF f
    <3>2. /\ Len(wire') = Len(wire) + 1 /\ wire'[Len(wire) + 1] = f
          /\ \A i \in 1 .. Len(wire) : wire'[i] = wire[i]
      BY <1>1, <1>4, <2>1, <3>1, AppendProperties DEF SendFrame, f
    <3> QED
      BY <1>1, <3>1, <3>2 DEF FramesOK
  <2>2. CASE ~Connected
    BY <1>2, <1>4, <2>2 DEF SendFrame
  <2> QED
    BY <2>1, <2>2
<1>5. CASE \/ \E l \in Levels : ExchangeUpdate(l)
           \/ LoseFrame \/ EnginePop \/ EngineStops \/ EngineExit \/ Stop \/ UNCHANGED vars
           \/ ConnectFail \/ \E L \in 0 .. LastId : FetchOk(L)
  BY <1>2, <1>5
  DEF ExchangeUpdate, LoseFrame, EnginePop, EngineStops, EngineExit, Stop, vars,
      ConnectFail, FetchOk
<1>6. CASE ConnectOk \/ Wake \/ FetchFail \/ PushOne \/ PushAbort \/ ReadFail
  BY <1>2, <1>6
  DEF ConnectOk, Wake, FetchFail, PushOne, PushAbort, ReadFail, Continue, CloseAndSleep
<1>7. CASE ReadUnparsable \/ BootDrop \/ ReadEmit \/ BootTooOld \/ LiveGap
  <2>1. wire # << >> /\ (wire' = << >> \/ wire' = Tail(wire))
    BY <1>7 DEF ReadUnparsable, BootDrop, ReadEmit, BootTooOld, LiveGap, ReadDiff, CloseAndSleep
  <2> QED
    BY <1>2, <1>3, <2>1
<1> QED
  BY <1>4, <1>5, <1>6, <1>7 DEF Next, MarketDataThread, Engine, Joined

\* PushGroup moves an event from one part of the stream to the other.
LEMMA PushKeepsStream ==
  ASSUME TypeInv, PushOne
  PROVE  Len(Stream') = Len(Stream) /\ \A i \in 1 .. Len(Stream) : Stream'[i] = Stream[i]
<1> DEFINE q == Len(queue)
           g == Len(group)
           w == Tail(group)
           v == Append(queue, Head(group))
           r == IF md_pc' = "Push" THEN w ELSE << >>
<1>1. /\ queue \in Seq(Event) /\ group \in Seq(Event) /\ group # << >>
      /\ queue' = v /\ group' = w /\ md_pc = "Push"
  BY DEF PushOne, TypeInv, TypeOK
<1>2. /\ q \in Nat /\ g \in Nat /\ g >= 1 /\ Head(group) \in Event
      /\ Head(group) = group[1]
      /\ w \in Seq(Event) /\ Len(w) = g - 1
      /\ \A i \in 1 .. g - 1 : w[i] = group[i + 1]
  BY <1>1, HeadTailProperties
<1>3. /\ v \in Seq(Event) /\ Len(v) = q + 1 /\ v[q + 1] = group[1]
      /\ \A i \in 1 .. q : v[i] = queue[i]
  BY <1>1, <1>2, AppendProperties
<1>4. r = w
  <2>1. CASE g > 1
    BY <2>1 DEF PushOne
  <2>2. CASE ~(g > 1)
    BY <1>2, <2>2, EmptySeq
  <2> QED
    BY <2>1, <2>2
<1>5. Stream = queue \o group /\ Stream' = v \o w
  BY <1>1, <1>4, Zenon DEF Stream
<1> HIDE DEF v, w, r, q, g
<1>6. /\ Len(queue \o group) = q + g
      /\ \A i \in 1 .. q + g :
           (queue \o group)[i] = IF i <= q THEN queue[i] ELSE group[i - q]
  BY <1>1, ConcatProperties DEF q, g
<1>7. /\ Len(v \o w) = Len(v) + Len(w)
      /\ \A i \in 1 .. Len(v) + Len(w) :
           (v \o w)[i] = IF i <= Len(v) THEN v[i] ELSE w[i - Len(v)]
  BY <1>2, <1>3, ConcatProperties, Zenon
<1>8. Len(v) + Len(w) = q + g
  BY <1>2, <1>3
<1>9. ASSUME NEW i \in 1 .. q + g PROVE (v \o w)[i] = (queue \o group)[i]
  <2>1. CASE i <= q
    BY <1>2, <1>3, <1>6, <1>7, <1>8, <2>1
  <2>2. CASE i = q + 1
    <3>1. i - q = 1 /\ ~(i <= q) /\ i <= Len(v)
      BY <1>2, <1>3, <2>2
    <3> QED
      BY <1>3, <1>6, <1>7, <1>8, <2>2, <3>1
  <2>3. CASE i > q + 1
    <3>1. /\ ~(i <= q) /\ ~(i <= Len(v)) /\ i - Len(v) \in 1 .. g - 1
          /\ (i - Len(v)) + 1 = i - q
      BY <1>2, <1>3, <2>3
    <3> QED
      BY <1>2, <1>6, <1>7, <1>8, <3>1, Zenon
  <2>4. q \in Nat /\ g \in Nat
    BY <1>2
  <2>5. i <= q \/ i = q + 1 \/ i > q + 1
    BY <2>4
  <2> QED
    BY <2>1, <2>2, <2>3, <2>5, Zenon
<1> QED
  BY <1>5, <1>6, <1>7, <1>8, <1>9

\* Every step keeps the contents right.
LEMMA BookNext == TypeInv /\ TypeInv' /\ StreamOK /\ BookOK /\ [Next]_vars => BookOK'
<1> SUFFICES ASSUME TypeInv, TypeInv', StreamOK, BookOK, [Next]_vars PROVE BookOK'
  OBVIOUS
<1> DEFINE engine == <<verifier, book, book_id, book_live, quoting>>
<1>0. TypeOK /\ TypeOK' /\ LastId \in Nat /\ LastId' \in Nat /\ Ids \subseteq Nat
      /\ LastId <= MaxUpdates
  <2>1. TypeOK /\ TypeOK' /\ Ids \subseteq Nat
    BY DEF TypeInv, Ids
  <2>2. LastId \in Nat /\ LastId <= MaxUpdates
    BY <2>1 DEF TypeOK, LastId
  <2>3. LastId' \in Nat
    BY <2>1 DEF TypeOK, LastId
  <2> QED
    BY <2>1, <2>2, <2>3
<1>a. FramesOK'
  BY FramesNext DEF BookOK
<1>b. Len(Stream) \in Nat /\ Len(Stream') \in Nat
  BY <1>0 DEF TypeOK, Stream
<1>c. ASSUME UNCHANGED books PROVE HistoryOK' /\ LastId' = LastId
  BY <1>c, Zenon DEF BookOK, HistoryOK, LastId, ExchangeBook
<1>d. ASSUME UNCHANGED books, UNCHANGED engine, Len(Stream') <= Len(Stream),
             \A i \in 1 .. Len(Stream') : Stream'[i] = Stream[i]
      PROVE  BookOK'
  <2>1. LastId <= LastId' /\ \A n \in 1 .. LastId : books'[n] = books[n]
    BY <1>0, <1>c, <1>d
  <2> QED
    BY <1>0, <1>a, <1>b, <1>c, <1>d, <2>1, KeepContents DEF BookOK
<1>e. ASSUME UNCHANGED books, UNCHANGED <<engine, queue>>, md_pc' # "Push" PROVE BookOK'
  <2> DEFINE r == IF md_pc = "Push" THEN group ELSE << >>
  <2>1. Stream = queue \o r /\ Stream' = queue /\ queue \in Seq(Event) /\ r \in Seq(Event)
    BY <1>0, <1>e DEF Stream, TypeOK
  <2> HIDE DEF r
  <2>2. Len(queue) <= Len(Stream) /\ \A i \in 1 .. Len(queue) : queue[i] = Stream[i]
    BY <2>1
  <2> QED
    BY <1>d, <1>e, <2>1, <2>2
<1>f. ASSUME UNCHANGED books, UNCHANGED <<engine, queue, md_pc, group>> PROVE BookOK'
  <2>1. Stream' = Stream
    BY <1>f DEF Stream
  <2> QED
    BY <1>b, <1>d, <1>f, <2>1
<1>1. ASSUME NEW l \in Levels, ExchangeUpdate(l) PROVE BookOK'
  <2>1. Update(l) /\ UNCHANGED engine /\ Stream' = Stream
    BY <1>1 DEF ExchangeUpdate, engVars, mdVars, Stream
  <2>2. /\ HistoryOK' /\ LastId' = LastId + 1
        /\ \A n \in 1 .. LastId : books'[n] = books[n]
    BY <1>0, <2>1, HistoryNext DEF BookOK
  <2>3. /\ LastId <= LastId' /\ Len(Stream') <= Len(Stream)
        /\ \A i \in 1 .. Len(Stream') : Stream'[i] = Stream[i]
    BY <1>0, <1>b, <2>1, <2>2
  <2> QED
    BY <1>0, <1>a, <1>b, <2>1, <2>2, <2>3, KeepContents, Zenon DEF BookOK
<1>2. CASE \/ SendFrame \/ LoseFrame \/ EngineStops \/ EngineExit \/ Stop
           \/ UNCHANGED vars
  BY <1>2, <1>f, SMTT(30)
  DEF SendFrame, LoseFrame, EngineStops, EngineExit, Stop, vars, feedVars, mdVars, engVars
<1>3. CASE ConnectOk \/ ConnectFail \/ Wake \/ FetchFail \/ PushAbort \/ ReadFail
  BY <1>3, <1>e, SMTT(30)
  DEF ConnectOk, ConnectFail, Wake, FetchFail, PushAbort, ReadFail, Continue,
      CloseAndSleep, feedVars, engVars
<1>4. CASE ReadUnparsable \/ BootDrop \/ BootTooOld \/ LiveGap
  <2>1. /\ UNCHANGED books /\ UNCHANGED <<engine, queue>>
        /\ md_pc' \in {"Done", "Await", "Live", "Fetch", "Sleep"}
    BY <1>4, SMTT(30)
    DEF ReadUnparsable, BootDrop, BootTooOld, LiveGap, ReadDiff, CloseAndSleep,
        feedVars, engVars
  <2> QED
    BY <1>e, <2>1
<1>5. CASE PushOne
  <2>1. UNCHANGED books /\ UNCHANGED engine
    BY <1>5 DEF PushOne, feedVars, engVars
  <2> QED
    BY <1>b, <1>d, <1>5, <2>1, PushKeepsStream
<1>6. ASSUME NEW kind \in {"Snapshot", "DepthDiff"}, NEW U \in Nat, NEW u \in 0 .. LastId,
             NEW S \in SUBSET Levels, U <= u,
             S = IF kind = "Snapshot" THEN PresentLevels(u) ELSE ChangedLevels(U, u),
             group' = EventGroup(kind, U, u, S), md_pc # "Push", md_pc' = "Push", ~EndCont,
             UNCHANGED books, UNCHANGED <<engine, queue>>
      PROVE  BookOK'
  <2>1. U \in Ids
    BY <1>0, <1>6, MaxUpdatesAssumption DEF Ids
  <2>2. group' \in Seq(Event) /\ Len(group') = NumFragments(S)
    BY <1>0, <1>6, <2>1, GroupType
  <2>3. UNCHANGED <<books, queue, verifier, book, book_id, book_live, quoting>>
    BY <1>6
  <2>4. BookOK
    OBVIOUS
  <2>5. /\ ContentOK(Stream)'
        /\ WholeOK(Stream, ~verifier.prev_continuation)'
        /\ EngineBookOK(Stream, verifier.prev_continuation)'
    BY <1>0, <1>6, <2>2, <2>3, <2>4, AppendMessage
  <2>6. (book_id <= LastId)' /\ NoQuotesWithoutLiveBook'
    BY <1>c, <1>6 DEF BookOK, NoQuotesWithoutLiveBook
  <2> QED
    BY <1>a, <1>c, <1>6, <2>5, <2>6 DEF BookOK
<1>7. ASSUME NEW L \in 0 .. LastId, FetchOk(L) PROVE BookOK'
  <2>1. /\ group' = EventGroup("Snapshot", L, L, PresentLevels(L))
        /\ md_pc # "Push" /\ md_pc' = "Push" /\ ~EndCont
        /\ UNCHANGED books /\ UNCHANGED <<engine, queue>>
    BY <1>7 DEF FetchOk, SnapshotGroup, StreamOK, ThreadOK, feedVars, engVars
  <2>2. L \in Nat /\ L <= L /\ PresentLevels(L) \in SUBSET Levels
    BY <1>0 DEF PresentLevels
  <2> QED
    BY <1>6, <2>1, <2>2
<1>8. CASE ReadEmit
  <2> DEFINE U == Head(wire).U
             u == Head(wire).u
  <2>1. /\ wire # << >> /\ group' = EventGroup("DepthDiff", U, u, ChangedLevels(U, u))
        /\ md_pc # "Push" /\ md_pc' = "Push" /\ ~EndCont
        /\ UNCHANGED books /\ UNCHANGED <<engine, queue>>
    <3>1. /\ md_pc \in {"Await", "Live"} /\ wire # << >>
          /\ group' = DiffGroup(U, u) /\ md_pc' = "Push"
          /\ UNCHANGED <<feedVars, stop, queue, engVars>>
      BY <1>8, Zenon DEF ReadEmit, ReadDiff
    <3>2. ~EndCont /\ md_pc # "Push"
      BY <3>1 DEF StreamOK, ThreadOK
    <3>3. UNCHANGED books /\ UNCHANGED <<engine, queue>>
      BY <3>1 DEF feedVars, engVars
    <3> QED
      BY <3>1, <3>2, <3>3, Zenon DEF DiffGroup
  <2>2. U \in Nat /\ u \in 0 .. LastId /\ U <= u
    <3>1. wire \in Seq([U: Ids, u: Ids])
      BY <1>0 DEF TypeOK
    <3>2. Head(wire) = wire[1] /\ 1 \in 1 .. Len(wire) /\ Head(wire) \in [U: Ids, u: Ids]
      <4>1. Head(wire) \in [U: Ids, u: Ids]
        BY <2>1, <3>1, HeadTailProperties, Zenon
      <4>2. Head(wire) = wire[1] /\ 1 \in 1 .. Len(wire)
        BY <2>1, <3>1
      <4> QED
        BY <4>1, <4>2
    <3>3. u <= LastId /\ U <= u
      BY <3>2 DEF BookOK, FramesOK, TypeInv, FeedOK
    <3>4. U \in Ids /\ u \in Ids
      BY <3>2
    <3> HIDE DEF U, u
    <3> QED
      BY <1>0, <3>3, <3>4
  <2>3. ChangedLevels(U, u) \in SUBSET Levels
    BY DEF ChangedLevels
  <2> HIDE DEF U, u
  <2> QED
    BY <1>6, <2>1, <2>2, <2>3
<1>9. CASE EnginePop
  <2>1. UNCHANGED books
    BY <1>9 DEF EnginePop, feedVars
  <2> QED
    BY <1>9, <1>a, <1>c, <2>1, PopBook DEF BookOK
<1> QED
  BY <1>1, <1>2, <1>3, <1>4, <1>5, <1>7, <1>8, <1>9 DEF Next, MarketDataThread, Engine, Joined

\* Types, stream and contents together are invariant.
LEMMA BookInvariance == Spec => [](TypeInv /\ StreamOK /\ BookOK)
<1>1. Init => TypeInv /\ StreamOK /\ BookOK
  BY TypeInit, StreamInit, BookInit
<1>2. (TypeInv /\ StreamOK /\ BookOK) /\ [Next]_vars => (TypeInv /\ StreamOK /\ BookOK)'
  BY TypeNext, StreamNext, BookNext
<1> QED
  BY <1>1, <1>2, PTL DEF Spec

\* Outside a group the engine's live book is exactly the exchange's book at the
\* engine's id, for every number of levels, fragment size and queue capacity.
THEOREM LiveBookCorrect == Spec => []LiveBookIsExchangeBook
<1>1. BookOK => LiveBookIsExchangeBook
  BY DEF BookOK, EngineBookOK, LiveBookIsExchangeBook
<1> QED
  BY <1>1, BookInvariance, PTL

\* No quote rests while the book is being rebuilt.
THEOREM QuotesNeedLiveBook == Spec => []NoQuotesWithoutLiveBook
<1>1. BookOK => NoQuotesWithoutLiveBook
  BY DEF BookOK
<1> QED
  BY <1>1, BookInvariance, PTL

\* Whenever Drain runs the strategy it sees the exchange's book at the event's
\* id, never one with half a message applied.
THEOREM StrategySeesWholeBook == Spec => StrategySeesExchangeBook
<1> DEFINE Tick == EnginePop /\ Ticks(book_live', Head(queue))
<1>1. TypeInv /\ StreamOK /\ BookOK /\ (TypeInv /\ StreamOK /\ BookOK)' /\ [Next]_vars
      => [Tick => book' = ExchangeBook(book_id')]_vars
  <2> SUFFICES ASSUME BookOK', EnginePop, Ticks(book_live', Head(queue))
               PROVE  book' = ExchangeBook(book_id')
    OBVIOUS
  <2>1. ~verifier'.prev_continuation /\ books' = books
    BY DEF EnginePop, Ticks, VerifierCheck, feedVars
  <2> QED
    BY <2>1 DEF BookOK, EngineBookOK, ExchangeBook
<1> QED
  BY <1>1, BookInvariance, PTL DEF Spec, StrategySeesExchangeBook
=============================================================================
