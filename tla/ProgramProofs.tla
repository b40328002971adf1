--------------------------- MODULE ProgramProofs ----------------------------
(***************************************************************************)
(* Proofs about the program around the pipeline, for every capacity,       *)
(* delay, period, host list and clock: the ring between two threads, whose *)
(* slots they never touch at the same time and which implements            *)
(* BoundedFifo (SpscQueue); how long a record can wait to be flushed and   *)
(* what holds when RunLive returns (LiveRun); which streams are read and   *)
(* how long the thread rests between connections (Connection); which       *)
(* requests leave the program and what a green smoke run has shown         *)
(* (Session).                                                              *)
(***************************************************************************)
EXTENDS SpscQueue, Connection, Session, LiveRun, SequenceTheorems, TLAPS

-----------------------------------------------------------------------------
(* SpscQueue.  Each thread tests against a cached copy of the other's      *)
(* counter; what makes the test safe is that a copy is never ahead.        *)

\* The counters in order.  A cached copy is never ahead of the counter it
\* copies, so a test against it errs on the safe side.
Ordered ==
  /\ cached_head <= head
  /\ head <= cached_tail
  /\ cached_tail <= tail
  /\ tail <= cached_head + Capacity

\* What each thread has established by the time it touches a slot.
AtPc ==
  /\ ppc \in {"write", "publish"} =>
       /\ tail < MaxPush
       /\ tail < cached_head + Capacity
       /\ value \in Values
  /\ ppc = "reload" => tail < MaxPush /\ value \in Values
  /\ ppc = "publish" => buf[Slot(tail)] = value
  /\ ppc = "size" => size_tail["prod"] = tail
  /\ cpc \in {"read", "release"} => head < cached_tail
  /\ cpc = "release" => out = buf[Slot(head)]
  /\ cpc = "size" => size_tail["cons"] \in cached_tail .. tail

\* The inductive invariant.
IInv == TypeOK /\ Ordered /\ AtPc /\ SizeApproxInRange
-----------------------------------------------------------------------------
\* A number is a multiple of the divisor plus its remainder.
LEMMA DivMod ==
  ASSUME NEW m \in Nat, NEW d \in Nat, d > 0
  PROVE  /\ m \div d \in Nat
         /\ m % d \in 0 .. d - 1
         /\ m = (m \div d) * d + (m % d)
BY SMT

\* Two sequence numbers less than a ring apart never share a slot.
LEMMA SlotsApart ==
  ASSUME NEW m \in Nat, NEW n \in Nat, m < n, n < m + Capacity
  PROVE  Slot(m) # Slot(n)
PROOF
  <1> DEFINE q == m \div Capacity
             p == n \div Capacity
  <1>1. Capacity \in Nat /\ Capacity > 0
    BY CapacityAssumption
  <1>2. SUFFICES ASSUME m % Capacity = n % Capacity  PROVE FALSE
    BY DEF Slot
  <1>3. /\ q \in Nat /\ p \in Nat
        /\ m % Capacity \in 0 .. Capacity - 1
        /\ m = q * Capacity + (m % Capacity)
        /\ n = p * Capacity + (m % Capacity)
    BY <1>1, <1>2, DivMod
  <1> HIDE DEF q, p
  <1>4. CASE p <= q
    <2>1. p * Capacity <= q * Capacity
      BY <1>1, <1>3, <1>4, SMT
    <2> QED
      BY <1>1, <1>3, <2>1, SMT
  <1>5. CASE p >= q + 1
    <2>1. p * Capacity >= (q + 1) * Capacity
      BY <1>1, <1>3, <1>5, SMT
    <2>2. (q + 1) * Capacity = q * Capacity + Capacity
      BY <1>1, <1>3, SMT
    <2> QED
      BY <1>1, <1>3, <2>1, <2>2, SMT
  <1> QED
    BY <1>3, <1>4, <1>5

\* The slot of a sequence number is a slot of the ring.
LEMMA SlotType ==
  ASSUME NEW n \in Nat
  PROVE  Slot(n) \in Slots
BY CapacityAssumption, SMT DEF Slot, Slots

\* Initially every counter is zero.
LEMMA InitIInv == Init => IInv
<1> SUFFICES ASSUME Init PROVE IInv
  OBVIOUS
<1> USE CapacityAssumption, MaxPushAssumption
<1>1. TypeOK
  BY DEF Init, TypeOK, Slots
<1>2. Ordered
  BY DEF Init, Ordered
<1>3. AtPc
  BY DEF Init, AtPc
<1>4. SizeApproxInRange
  BY DEF Init, SizeApproxInRange
<1> QED
  BY <1>1, <1>2, <1>3, <1>4 DEF IInv

\* Every step of either thread preserves the invariant.
LEMMA NextIInv == IInv /\ [Next]_vars => IInv'
<1> SUFFICES ASSUME IInv, [Next]_vars PROVE IInv'
  OBVIOUS
<1> USE CapacityAssumption, MaxPushAssumption DEF IInv, prodVars, consVars, sizeVars
<1>0. /\ Slot(tail) \in Slots /\ Slot(head) \in Slots
      /\ head < tail /\ tail < head + Capacity => Slot(head) # Slot(tail)
  BY SlotType, SlotsApart DEF TypeOK
<1>1. ASSUME NEW v \in Values, PushCall(v) PROVE IInv'
  BY <1>1 DEF PushCall, LooksFull, TypeOK, Ordered, AtPc, SizeApproxInRange
<1>2. ASSUME NEW h \in cached_head .. head, PushReload(h) PROVE IInv'
  BY <1>2 DEF PushReload, LooksFull, TypeOK, Ordered, AtPc, SizeApproxInRange
<1>3. CASE PushWrite
  <2>1. TypeOK'
    BY <1>0, <1>3 DEF PushWrite, TypeOK, AtPc
  <2>2. Ordered' /\ SizeApproxInRange'
    BY <1>3 DEF PushWrite, Ordered, SizeApproxInRange
  <2>3. AtPc'
    BY <1>0, <1>3 DEF PushWrite, TypeOK, Ordered, AtPc
  <2> QED
    BY <2>1, <2>2, <2>3
<1>4. CASE PushPublish
  BY <1>4 DEF PushPublish, TypeOK, Ordered, AtPc, SizeApproxInRange
<1>5. CASE ProducerSizeTail
  BY <1>5 DEF ProducerSizeTail, TypeOK, Ordered, AtPc, SizeApproxInRange
<1>6. ASSUME NEW h \in cached_head .. head, ProducerSizeHead(h) PROVE IInv'
  BY <1>6 DEF ProducerSizeHead, TypeOK, Ordered, AtPc, SizeApproxInRange
<1>7. CASE PopCall
  BY <1>7 DEF PopCall, LooksEmpty, TypeOK, Ordered, AtPc, SizeApproxInRange
<1>8. ASSUME NEW t \in cached_tail .. tail, PopReload(t) PROVE IInv'
  BY <1>8 DEF PopReload, LooksEmpty, TypeOK, Ordered, AtPc, SizeApproxInRange
<1>9. CASE PopRead
  BY <1>0, <1>9 DEF PopRead, TypeOK, Ordered, AtPc, SizeApproxInRange
<1>10. CASE PopRelease
  BY <1>10 DEF PopRelease, TypeOK, Ordered, AtPc, SizeApproxInRange
<1>11. ASSUME NEW t \in cached_tail .. tail, ConsumerSizeTail(t) PROVE IInv'
  BY <1>11 DEF ConsumerSizeTail, TypeOK, Ordered, AtPc, SizeApproxInRange
<1>12. CASE ConsumerSizeHead
  BY <1>12 DEF ConsumerSizeHead, TypeOK, Ordered, AtPc, SizeApproxInRange
<1>13. CASE UNCHANGED vars
  BY <1>13 DEF vars, TypeOK, Ordered, AtPc, SizeApproxInRange
<1> QED
  BY <1>1, <1>2, <1>3, <1>4, <1>5, <1>6, <1>7, <1>8, <1>9, <1>10, <1>11,
     <1>12, <1>13 DEF Next, Producer, Consumer

\* The inductive invariant holds in every reachable state.
LEMMA Invariance == Spec => []IInv
<1> QED
  BY InitIInv, NextIInv, PTL DEF Spec

\* The fields of the queue keep their types, and no counter passes the number
\* of pushes.
THEOREM TypeCorrect == Spec => []TypeOK
<1>1. IInv => TypeOK
  BY DEF IInv
<1> QED
  BY <1>1, Invariance, PTL

\* try_push never writes the slot try_pop is reading: both are inside the
\* window of less than Capacity numbers that the stale tests guarantee.
THEOREM RaceFree == Spec => []NoDataRace
<1>1. IInv => NoDataRace
  <2> SUFFICES ASSUME IInv, ppc = "write", cpc = "read" PROVE Slot(tail) # Slot(head)
    BY DEF NoDataRace
  <2>1. /\ head \in Nat /\ tail \in Nat
        /\ head < tail /\ tail < head + Capacity
    BY CapacityAssumption, MaxPushAssumption DEF IInv, TypeOK, Ordered, AtPc
  <2> QED
    BY <2>1, SlotsApart
<1> QED
  BY <1>1, Invariance, PTL

\* size_approx answers within 0 .. Capacity in both threads.
THEOREM SizeApproxCorrect == Spec => []SizeApproxInRange
<1>1. IInv => SizeApproxInRange
  BY DEF IInv
<1> QED
  BY <1>1, Invariance, PTL
-----------------------------------------------------------------------------
(* The ring implements the bounded FIFO queue. *)

\* The content of the ring is a sequence, one element per sequence number.
ElementsOK ==
  /\ Elements \in Seq(Values \cup {Nothing})
  /\ Len(Elements) = tail - head
  /\ tail - head \in 0 .. Capacity

\* It is one in every state that satisfies the invariant.
LEMMA ElementsType == IInv => ElementsOK
<1> SUFFICES ASSUME IInv PROVE ElementsOK
  OBVIOUS
<1>1. tail - head \in 0 .. Capacity /\ head \in Nat
  BY CapacityAssumption, MaxPushAssumption DEF IInv, TypeOK, Ordered
<1>2. ASSUME NEW i \in 1 .. tail - head
      PROVE  buf[Slot(head + i - 1)] \in Values \cup {Nothing}
  <2>1. head + i - 1 \in Nat
    BY <1>1
  <2> QED
    BY <2>1, SlotType DEF IInv, TypeOK
<1>3. tail - head \in Nat
  BY <1>1, CapacityAssumption
<1> QED
  BY <1>1, <1>2, <1>3 DEF Elements, ElementsOK

\* The same, of the state after a step.
LEMMA ElementsTypePrime == IInv' => ElementsOK'
BY ElementsType, PTL

\* A step that moves no counter and no element between them is invisible.
LEMMA SameElements ==
  ASSUME head' = head, tail' = tail, popped' = popped,
         \A i \in 1 .. tail - head : buf'[Slot(head + i - 1)] = buf[Slot(head + i - 1)]
  PROVE  UNCHANGED Fifo!fifoVars
BY DEF Fifo!fifoVars, Elements, Slot

\* Initially the ring is an empty queue.
LEMMA InitFifo == Init => Fifo!FifoInit
<1> SUFFICES ASSUME Init PROVE Elements = << >> /\ popped = Nothing
  BY DEF Fifo!FifoInit
<1> QED
  BY DEF Init, Elements

\* The store to tail_ is the abstract Push.
LEMMA PublishPushes ==
  ASSUME IInv, IInv', PushPublish
  PROVE  Fifo!Push(value)
<1> USE CapacityAssumption, MaxPushAssumption
<1>1. /\ tail' = tail + 1 /\ head' = head /\ buf' = buf /\ popped' = popped
      /\ tail < head + Capacity /\ head \in Nat /\ tail \in Nat /\ head <= tail
      /\ buf[Slot(tail)] = value
  BY DEF IInv, TypeOK, Ordered, AtPc, PushPublish, consVars
<1>2. /\ Elements \in Seq(Values \cup {Nothing}) /\ Len(Elements) = tail - head
      /\ Elements' \in Seq(Values \cup {Nothing}) /\ Len(Elements') = tail' - head'
      /\ value \in Values \cup {Nothing}
  <2>1. Elements \in Seq(Values \cup {Nothing}) /\ Len(Elements) = tail - head
    BY ElementsType DEF ElementsOK
  <2>2. Elements' \in Seq(Values \cup {Nothing}) /\ Len(Elements') = tail' - head'
    BY ElementsTypePrime DEF ElementsOK
  <2> QED
    BY <2>1, <2>2 DEF IInv, TypeOK
<1>3. Elements' = Append(Elements, value)
  <2>1. Elements' = [i \in 1 .. tail + 1 - head |-> buf[Slot(head + i - 1)]]
    BY <1>1 DEF Elements, Slot
  <2>2. ASSUME NEW i \in 1 .. tail + 1 - head
        PROVE  Elements'[i] = Append(Elements, value)[i]
    <3>1. CASE i = tail + 1 - head
      <4>1. head + i - 1 = tail
        BY <3>1, <1>1
      <4>2. Append(Elements, value)[i] = value
        BY <1>1, <1>2, <3>1, AppendProperties
      <4> QED
        BY <2>1, <4>1, <4>2, <1>1, SMTT(30)
    <3>2. CASE i # tail + 1 - head
      <4>1. i \in 1 .. tail - head
        BY <3>2, <1>1
      <4>2. Append(Elements, value)[i] = Elements[i]
        BY <1>1, <1>2, <4>1, AppendProperties
      <4> QED
        BY <2>1, <4>1, <4>2, Zenon DEF Elements
    <3> QED
      BY <3>1, <3>2, Zenon
  <2>3. /\ Append(Elements, value) \in Seq(Values \cup {Nothing})
        /\ Len(Append(Elements, value)) = tail + 1 - head
    BY <1>1, <1>2, AppendProperties
  <2>4. /\ Len(Elements') = Len(Append(Elements, value))
        /\ \A i \in 1 .. Len(Elements') : Elements'[i] = Append(Elements, value)[i]
    <3>1. Len(Elements') = tail + 1 - head
      BY <1>1, <1>2
    <3> QED
      BY <2>2, <2>3, <3>1, Zenon
  <2>5. Elements' \in Seq(Values \cup {Nothing})
    BY <1>2
  <2>6. Append(Elements, value) \in Seq(Values \cup {Nothing})
    BY <2>3
  <2> HIDE CapacityAssumption, MaxPushAssumption
  <2> QED
    BY <2>4, <2>5, <2>6, SeqEqual, Zenon
<1> QED
  BY <1>1, <1>2, <1>3 DEF Fifo!Push

\* The store to head_ is the abstract Pop.
LEMMA ReleasePops ==
  ASSUME IInv, IInv', PopRelease
  PROVE  Fifo!Pop
<1> USE CapacityAssumption, MaxPushAssumption
<1>1. /\ head' = head + 1 /\ tail' = tail /\ buf' = buf /\ popped' = out
      /\ head < tail /\ head \in Nat /\ tail \in Nat
      /\ out = buf[Slot(head)]
  BY DEF IInv, TypeOK, Ordered, AtPc, PopRelease, prodVars
<1>2. /\ Elements \in Seq(Values \cup {Nothing}) /\ Len(Elements) = tail - head
      /\ Elements' \in Seq(Values \cup {Nothing}) /\ Len(Elements') = tail' - head'
  <2>1. Elements' \in Seq(Values \cup {Nothing}) /\ Len(Elements') = tail' - head'
    BY ElementsTypePrime DEF ElementsOK
  <2> QED
    BY <2>1, ElementsType DEF ElementsOK
<1>3. Elements # << >> /\ Head(Elements) = out
  <2>1. Elements[1] = buf[Slot(head)]
    BY <1>1 DEF Elements
  <2> QED
    BY <1>1, <1>2, <2>1
<1>4. Elements' = Tail(Elements)
  <2>1. Elements' = [i \in 1 .. tail - (head + 1) |-> buf[Slot(head + 1 + i - 1)]]
    BY <1>1 DEF Elements, Slot
  <2>2. /\ Tail(Elements) \in Seq(Values \cup {Nothing})
        /\ Len(Tail(Elements)) = tail - (head + 1)
        /\ \A i \in 1 .. tail - (head + 1) : Tail(Elements)[i] = Elements[i + 1]
    BY <1>1, <1>2, <1>3, HeadTailProperties
  <2>3. ASSUME NEW i \in 1 .. tail - (head + 1)
        PROVE  Elements'[i] = Tail(Elements)[i]
    <3>1. i + 1 \in 1 .. tail - head /\ head + (i + 1) - 1 = head + 1 + i - 1
      BY <1>1
    <3>2. Elements[i + 1] = buf[Slot(head + (i + 1) - 1)]
      BY <3>1 DEF Elements
    <3> QED
      BY <2>1, <2>2, <3>1, <3>2
  <2>4. /\ Len(Elements') = Len(Tail(Elements))
        /\ \A i \in 1 .. Len(Elements') : Elements'[i] = Tail(Elements)[i]
    BY <1>1, <1>2, <2>2, <2>3
  <2>5. Elements' \in Seq(Values \cup {Nothing})
    BY <1>2
  <2>6. Tail(Elements) \in Seq(Values \cup {Nothing})
    BY <2>2
  <2> HIDE CapacityAssumption, MaxPushAssumption
  <2> QED
    BY <2>4, <2>5, <2>6, SeqEqual, Zenon
<1> QED
  BY <1>1, <1>3, <1>4 DEF Fifo!Pop

\* Every step of the ring is a step of the FIFO queue or leaves it unchanged.
LEMMA NextFifo == IInv /\ IInv' /\ [Next]_vars => [Fifo!FifoNext]_Fifo!fifoVars
<1> SUFFICES ASSUME IInv, IInv', [Next]_vars PROVE [Fifo!FifoNext]_Fifo!fifoVars
  OBVIOUS
<1>1. CASE PushPublish
  <2>1. value \in Values
    BY <1>1 DEF IInv, AtPc, PushPublish
  <2> QED
    BY <1>1, <2>1, PublishPushes DEF Fifo!FifoNext
<1>2. CASE PopRelease
  BY <1>2, ReleasePops DEF Fifo!FifoNext
<1>3. CASE PushWrite
  <2>1. ASSUME NEW i \in 1 .. tail - head
        PROVE  buf'[Slot(head + i - 1)] = buf[Slot(head + i - 1)]
    <3>1. /\ head + i - 1 \in Nat /\ tail \in Nat
          /\ head + i - 1 < tail /\ tail < (head + i - 1) + Capacity
      BY <1>3, CapacityAssumption, MaxPushAssumption
      DEF IInv, TypeOK, Ordered, AtPc, PushWrite
    <3>2. Slot(head + i - 1) # Slot(tail)
      BY <3>1, SlotsApart
    <3> QED
      BY <1>3, <3>1, <3>2, SlotType DEF PushWrite, IInv, TypeOK
  <2> QED
    BY <1>3, <2>1, SameElements DEF PushWrite, consVars
<1>4. CASE UNCHANGED <<head, tail, buf, popped>>
  BY <1>4, SameElements
<1> QED
  BY <1>1, <1>2, <1>3, <1>4
  DEF Next, Producer, Consumer, vars, prodVars, consVars, sizeVars, PushCall,
      PushReload, ProducerSizeTail, ProducerSizeHead, PopCall, PopReload,
      PopRead, ConsumerSizeTail, ConsumerSizeHead

\* The lock-free ring is a bounded first-in first-out queue: nothing is lost,
\* repeated, reordered or overwritten, and it never holds more than Capacity.
THEOREM RingImplementsFifo == Spec => ImplementsFifo
<1> QED
  BY InitFifo, NextFifo, Invariance, PTL DEF Spec, ImplementsFifo, Fifo!FifoSpec
-----------------------------------------------------------------------------
USE FlushPeriodAssumption, MaxIterationAssumption, MaxSkewAssumption, MaxLegAssumption
-----------------------------------------------------------------------------
(* LiveRun.  LossIsBounded is not inductive: what bounds a record's age is *)
(* that it is younger than the last flush, that the pass that let it wait  *)
(* saw that flush less than a period ago, and how long the pass has taken. *)

\* The clock, and what the engine remembers of it.
ClockOK ==
  /\ now \in Nat \ {0} /\ spent \in 0 .. MaxIteration
  /\ last_flush \in 0 .. now /\ oldest \in 0 .. now
  /\ oldest # 0 => last_flush <= oldest /\ now - spent - oldest <= FlushPeriod
  /\ eng = "done" => oldest = 0

\* A thread that was joined has ended, and the exit code was read after that.
JoinedOK ==
  /\ main \in {"status", "joined", "closed", "exited"}
  /\ main # "status" => md = "done" /\ eng = "done" /\ cc = "done"
  /\ main = "exited" => code = IF faults THEN 1 ELSE 0

\* No step of any thread breaks either.
LEMMA LiveStep == ClockOK /\ JoinedOK /\ [LiveNext]_liveVars => ClockOK' /\ JoinedOK'
<1> SUFFICES ASSUME ClockOK, JoinedOK, [LiveNext]_liveVars PROVE ClockOK' /\ JoinedOK'
  OBVIOUS
<1> USE DEF ClockOK, JoinedOK, engineVars
<1>1. CASE Tick
  BY <1>1 DEF Tick
<1>2. CASE OnSignal \/ Status
  BY <1>2 DEF OnSignal, Status
<1>3. CASE MdEnd \/ \E snapshot \in BOOLEAN : MdPush(snapshot)
  BY <1>3, Zenon DEF MdEnd, MdPush
<1>4. CASE CcStep
  BY <1>4 DEF CcStep, CcSleep, CcFetch
<1>5. CASE EngineTop \/ Drained \/ Judged \/ CheckAge
  BY <1>5 DEF EngineTop, Drained, Judged, CheckAge
<1>6. ASSUME NEW gap \in BOOLEAN, NEW quote \in BOOLEAN, NEW spill \in BOOLEAN,
             Pop(gap, quote, spill)
      PROVE  ClockOK' /\ JoinedOK'
  <2>1. /\ eng \in {"drain", "final"} /\ UNCHANGED <<now, main, md, cc, eng, spent, last_flush>>
        /\ oldest' = 0 \/ oldest' = now \/ oldest' = oldest
    BY <1>6 DEF Pop
  <2>2. ClockOK'
    <3>1. CASE oldest' = 0
      BY <2>1, <3>1
    <3>2. CASE oldest' = now
      BY <2>1, <3>2
    <3>3. CASE oldest' = oldest
      BY <2>1, <3>3
    <3> QED
      BY <2>1, <3>1, <3>2, <3>3
  <2>3. main = "status"
    BY <2>1
  <2> QED
    BY <2>1, <2>2, <2>3, Zenon
<1>7. CASE \E mismatch \in BOOLEAN : Judge(mismatch)
  BY <1>7 DEF Judge
<1>8. CASE PeriodicFlush
  BY <1>8 DEF PeriodicFlush
<1>9. CASE FinalFlush
  BY <1>9 DEF FinalFlush
<1>10. CASE Join \/ CloseLog \/ Return
  BY <1>10 DEF Join, CloseLog, Return
<1>11. CASE UNCHANGED liveVars
  BY <1>11 DEF liveVars
<1> QED
  BY <1>1, <1>2, <1>3, <1>4, <1>5, <1>6, <1>7, <1>8, <1>9, <1>10, <1>11
  DEF LiveNext, EngineStep, MainStep

\* Both hold throughout.
LEMMA LiveInvariance == LiveInit /\ [][LiveNext]_liveVars => [](ClockOK /\ JoinedOK)
<1>1. LiveInit => ClockOK /\ JoinedOK
  BY DEF LiveInit, ClockOK, JoinedOK
<1> QED
  BY <1>1, LiveStep, PTL

\* A record waits in buf_ for at most a flush period and one pass of Engine::Run,
\* whatever the period and however long a pass takes.
THEOREM FlushedInTime == LiveInit /\ [][LiveNext]_liveVars => []LossIsBounded
<1>1. ClockOK => LossIsBounded
  BY DEF ClockOK, LossIsBounded
<1> QED
  BY <1>1, LiveInvariance, PTL

\* RunLive closes the log and reads the counters after every thread has ended.
THEOREM OrderlyExit == LiveInit /\ [][LiveNext]_liveVars => []ExitIsOrderly
<1>1. ClockOK /\ JoinedOK => ExitIsOrderly
  BY DEF ClockOK, JoinedOK, ExitIsOrderly
<1> QED
  BY <1>1, LiveInvariance, PTL
-----------------------------------------------------------------------------
(* Connection *)

\* Which stream the thread has, wherever it is.
StreamsOK ==
  /\ thread \in {"top", "boot", "fetched", "live", "ended", "hangup", "sleep", "done"}
  /\ connected \in BOOLEAN /\ stopping \in BOOLEAN
  /\ thread = "top" => (connected <=> ws = "open")
  /\ thread \in {"boot", "fetched", "live"} => ws = "open" /\ connected
  /\ thread \in {"ended", "hangup"} => connected
  /\ thread = "sleep" => ws \in {"null", "failed"} /\ ~connected
  /\ thread = "done" => ws = "null"

\* No step breaks it.
LEMMA StreamsStep == StreamsOK /\ [ConnNext]_connVars => StreamsOK'
<1> SUFFICES ASSUME StreamsOK, [ConnNext]_connVars PROVE StreamsOK'
  OBVIOUS
<1> USE DEF StreamsOK
<1>1. CASE Connect
  <2>1. CASE ws' = "open" /\ connected' = TRUE /\ thread' = "boot"
    BY <1>1, <2>1 DEF Connect
  <2>2. CASE ws' = "failed" /\ NextDelay /\ UNCHANGED connected
    BY <1>1, <2>2 DEF Connect, NextDelay
  <2> QED
    BY <1>1, <2>1, <2>2, Zenon DEF Connect
<1>2. CASE Again \/ Fetch
  BY <1>2 DEF Again, Fetch
<1>3. CASE BootRead \/ LiveRead
  BY <1>3 DEF BootRead, LiveRead, ReadFails
<1>4. CASE HangUp
  BY <1>4, Zenon DEF HangUp, NextDelay, CloseWs
<1>5. CASE SleepStep
  BY <1>5 DEF SleepStep
<1>6. CASE Finish
  BY <1>6 DEF Finish, CloseWs
<1>8. CASE StopConnection
  BY <1>8, Zenon DEF StopConnection
<1>7. CASE UNCHANGED connVars
  BY <1>7 DEF connVars
<1> QED
  BY <1>1, <1>2, <1>3, <1>4, <1>5, <1>6, <1>7, <1>8 DEF ConnNext

\* Read is called on open streams only, Connect never loses one, and Run leaves
\* none behind.
THEOREM StreamsUsable == ConnSpec => []StreamsAreUsable
<1>1. ConnInit => StreamsOK
  BY Zenon DEF ConnInit, StreamsOK
<1>2. StreamsOK => StreamsAreUsable
  BY DEF StreamsOK, StreamsAreUsable
<1> QED
  BY <1>1, <1>2, StreamsStep, PTL DEF ConnSpec

\* The attempt NextDelayMs saw when the present pause was begun: the one before
\* attempt_, or attempt_ itself at the bound.
Paused(k) == k \in 0 .. MaxAttempt /\ (k + 1 = attempt \/ (k = attempt /\ k = MaxAttempt))

\* What attempt_, the failures and the time rested have to do with each other.
\* A failure is counted before its pause; a pause that was not cut short lasts what
\* NextDelayMs said.
BackoffOK ==
  /\ attempt \in 0 .. MaxAttempt /\ failures \in 0 .. MaxAttempt
  /\ rested \in Nat /\ left \in Nat
  /\ thread \in {"top", "boot", "fetched", "live", "sleep"} => failures = attempt
  /\ thread = "live" => attempt = 0
  /\ thread \in {"ended", "hangup"} =>
       failures = IF attempt = MaxAttempt THEN attempt ELSE attempt + 1
  /\ thread \in {"boot", "fetched", "live", "ended", "hangup"} => rested = 0
  /\ thread = "top" /\ connected => rested = 0
  /\ thread = "sleep" /\ ~stopping => \E k \in 0 .. MaxAttempt :
       Paused(k) /\ rested + left \in Delays(k)
  /\ thread = "top" /\ ~connected /\ ~stopping /\ failures > 0 =>
       \E k \in 0 .. MaxAttempt : Paused(k) /\ rested \in Delays(k)

\* The delays are whole numbers of steps, up to the cap.
LEMMA DelayType ==
  ASSUME NEW k \in 0 .. MaxAttempt
  PROVE  /\ Base(k) \in Nat /\ Base(k) <= MaxDelay
         /\ Delays(k) \subseteq Nat
<1>1. Base(k) \in Nat /\ Base(k) <= MaxDelay
  BY DelayAssumption, MaxDelayAssumption DEF Base
<1>2. (4 * Base(k)) \div 5 \in Nat /\ (6 * Base(k) + 4) \div 5 \in Nat
  BY <1>1
<1> QED
  BY <1>1, <1>2 DEF Delays

\* A pause begins: attempt_ goes up by one, unless it is at the bound.
LEMMA PauseBegins ==
  ASSUME attempt \in 0 .. MaxAttempt, NextDelay, rested' = 0
  PROVE  /\ attempt' \in 0 .. MaxAttempt /\ left' \in Nat
         /\ attempt' = IF attempt = MaxAttempt THEN attempt ELSE attempt + 1
         /\ \E k \in 0 .. MaxAttempt :
              /\ k + 1 = attempt' \/ (k = attempt' /\ k = MaxAttempt)
              /\ rested' + left' \in Delays(k)
<1>1. MaxAttempt \in Nat
  BY MaxAttemptAssumption
<1>2. left' \in Delays(attempt) /\ left' \in Nat
  BY DelayType DEF NextDelay
<1>3. rested' + left' = left'
  <2>1. \A n \in Nat : 0 + n = n
    OBVIOUS
  <2> QED
    BY <1>2, <2>1, Zenon
<1>4. /\ attempt + 1 = attempt' \/ (attempt = attempt' /\ attempt = MaxAttempt)
      /\ attempt' \in 0 .. MaxAttempt
      /\ attempt' = IF attempt = MaxAttempt THEN attempt ELSE attempt + 1
  BY <1>1 DEF NextDelay
<1> QED
  BY <1>2, <1>3, <1>4

\* No step breaks the relation.
LEMMA BackoffStep == StreamsOK /\ BackoffOK /\ [ConnNext]_connVars => BackoffOK'
<1> SUFFICES ASSUME StreamsOK, BackoffOK, [ConnNext]_connVars PROVE BackoffOK'
  OBVIOUS
<1>0. MaxAttempt \in Nat
  BY MaxAttemptAssumption
<1> USE <1>0 DEF BackoffOK
<1>1. CASE Connect
  <2>1. CASE ws' = "open"
    BY <1>1, <2>1, SMTT(30) DEF Connect, Paused
  <2>2. CASE ws' # "open"
    <3>1. /\ Fails /\ NextDelay /\ rested' = 0 /\ connected' = connected
          /\ thread = "top" /\ thread' = "sleep" /\ stopping' = stopping
      BY <1>1, <2>2 DEF Connect, NextDelay
    <3>2. /\ attempt' \in 0 .. MaxAttempt /\ left' \in Nat
          /\ attempt' = IF attempt = MaxAttempt THEN attempt ELSE attempt + 1
          /\ \E k \in 0 .. MaxAttempt :
               /\ k + 1 = attempt' \/ (k = attempt' /\ k = MaxAttempt)
               /\ rested' + left' \in Delays(k)
      BY <3>1, PauseBegins
    <3>3. failures' = attempt'
      BY <3>1, <3>2 DEF Fails
    <3> QED
      BY <3>1, <3>2, <3>3, SMTT(30) DEF Paused
  <2> QED
    BY <2>1, <2>2
<1>2. CASE Again
  <2>1. /\ thread = "top" /\ thread' = "boot" /\ failures = attempt
        /\ attempt' = attempt /\ left' = left /\ rested' = rested /\ failures' = failures
    BY <1>2 DEF Again
  <2>2. rested = 0
    BY <1>2 DEF Again
  <2> QED
    BY <2>1, <2>2
<1>3. CASE Fetch
  BY <1>3, SMTT(30) DEF Fetch, Fails, Paused, StreamsOK
<1>4. CASE BootRead
  BY <1>4, SMTT(30) DEF BootRead, ReadFails, Fails, Paused, StreamsOK
<1>5. CASE LiveRead
  BY <1>5, SMTT(30) DEF LiveRead, ReadFails, Fails, Paused, StreamsOK
<1>6. CASE HangUp
  <2>1. /\ NextDelay /\ rested' = 0 /\ thread' = "sleep" /\ UNCHANGED <<stopping, failures>>
        /\ thread \in {"ended", "hangup"}
    BY <1>6 DEF HangUp, NextDelay
  <2>2. /\ attempt' \in 0 .. MaxAttempt /\ left' \in Nat
        /\ attempt' = IF attempt = MaxAttempt THEN attempt ELSE attempt + 1
        /\ \E k \in 0 .. MaxAttempt :
             /\ k + 1 = attempt' \/ (k = attempt' /\ k = MaxAttempt)
             /\ rested' + left' \in Delays(k)
    BY <2>1, PauseBegins
  <2>3. failures' = attempt'
    BY <2>1, <2>2
  <2> QED
    BY <2>1, <2>2, <2>3, SMTT(30) DEF Paused
<1>7. CASE SleepStep
  <2>1. CASE left > 0 /\ ~stopping
    <3>1. /\ left' = left - 1 /\ rested' = rested + 1
          /\ UNCHANGED <<thread, connected, attempt, stopping, failures>> /\ thread = "sleep"
      BY <1>7, <2>1 DEF SleepStep
    <3>2. rested' + left' = rested + left /\ rested' \in Nat /\ left' \in Nat
      BY <2>1, <3>1
    <3> QED
      BY <3>1, <3>2, SMTT(30) DEF Paused
  <2>2. CASE ~(left > 0 /\ ~stopping)
    <3>1. /\ left' = 0 /\ thread' = "top"
          /\ UNCHANGED <<rested, connected, attempt, stopping, failures>> /\ thread = "sleep"
      BY <1>7, <2>2 DEF SleepStep
    <3>2. ~stopping => left = 0 /\ rested + left = rested
      BY <2>2
    <3> QED
      BY <3>1, <3>2, SMTT(30) DEF Paused, StreamsOK
  <2> QED
    BY <2>1, <2>2
<1>8. CASE Finish \/ StopConnection
  BY <1>8, SMTT(30) DEF Finish, StopConnection
<1>9. CASE UNCHANGED connVars
  BY <1>9, SMTT(30) DEF connVars, Paused
<1> QED
  BY <1>1, <1>2, <1>3, <1>4, <1>5, <1>6, <1>7, <1>8, <1>9 DEF ConnNext

\* The pause before a Connect is what the backoff prescribes for the failures since
\* a stream was last live, whichever calls they came from.
THEOREM RetriesPaced == ConnSpec => []RetriesBackOff
<1>1. ConnInit => StreamsOK /\ BackoffOK
  <2> SUFFICES ASSUME ConnInit PROVE StreamsOK /\ BackoffOK
    OBVIOUS
  <2>1. StreamsOK
    BY Zenon DEF ConnInit, StreamsOK
  <2>2. 0 \in 0 .. MaxAttempt /\ 0 \in Nat
    BY MaxAttemptAssumption
  <2>3. BackoffOK
    BY <2>2 DEF ConnInit, BackoffOK
  <2> QED
    BY <2>1, <2>3
<1>2. BackoffOK => RetriesBackOff
  <2> SUFFICES ASSUME BackoffOK, thread = "top", ~connected, ~stopping, failures > 0
               PROVE  /\ rested >= (4 * Base(failures - 1)) \div 5
                      /\ rested <= (6 * MaxDelay + 4) \div 5
    BY DEF RetriesBackOff
  <2>1. PICK k \in 0 .. MaxAttempt : Paused(k) /\ rested \in Delays(k)
    BY DEF BackoffOK
  <2> DEFINE b == Base(k)
             f == Base(failures - 1)
  <2>2. failures = attempt /\ failures - 1 \in 0 .. MaxAttempt /\ rested \in Nat
    BY MaxAttemptAssumption DEF BackoffOK
  <2>3. b \in Nat /\ b <= MaxDelay /\ f \in Nat /\ f <= MaxDelay /\ MaxDelay \in Nat
    BY <2>2, DelayType, MaxDelayAssumption
  <2>4. f <= b
    <3>1. CASE k + 1 = attempt
      <4>1. k = failures - 1
        BY <2>2, <3>1, MaxAttemptAssumption
      <4> QED
        BY <2>3, <4>1
    <3>2. CASE k = MaxAttempt
      BY <2>3, <3>2, MaxAttemptAssumption
    <3> QED
      BY <2>1, <3>1, <3>2 DEF Paused
  <2>5. rested >= (4 * b) \div 5 /\ rested <= (6 * b + 4) \div 5
    BY <2>1, <2>2, <2>3 DEF Delays
  <2> HIDE DEF b, f
  <2>6. (4 * f) \div 5 <= (4 * b) \div 5 /\ (6 * b + 4) \div 5 <= (6 * MaxDelay + 4) \div 5
    BY <2>3, <2>4
  <2>7. (4 * f) \div 5 \in Int /\ (4 * b) \div 5 \in Int
        /\ (6 * b + 4) \div 5 \in Int /\ (6 * MaxDelay + 4) \div 5 \in Int
    BY <2>3
  <2>8. rested >= (4 * f) \div 5 /\ rested <= (6 * MaxDelay + 4) \div 5
    BY <2>2, <2>5, <2>6, <2>7
  <2> QED
    BY <2>8 DEF f
<1> QED
  BY <1>1, <1>2, StreamsStep, BackoffStep, PTL DEF ConnSpec
-----------------------------------------------------------------------------
(* Session *)

\* The phases of RunSmoke after its checks of the keys and of the host.
Requesting == {"time", "info", "order", "listen", "delete"}

\* What the exchange has said by the time a phase is entered.
Heard ==
  /\ phase \in {"info", "order", "listen", "delete"} => "time" \in proved
  /\ phase \in {"order", "listen", "delete"} => "info" \in proved
  /\ phase \in {"listen", "delete"} => "order" \in proved
  /\ phase = "delete" => "listen" \in proved

\* The whole of what a phase rests on.  The offset is the way there of GET /time
\* plus the skew, so that it makes up for the skew but for that.
SessionOK ==
  /\ phase \in Requesting \cup {"main", "config", "dotenv", "smoke", "exit"}
  /\ local \in Int /\ skew \in Int /\ offset \in Int
  /\ phase \in {"main", "config", "dotenv", "smoke"} => sent = NoRequest
  /\ phase = "smoke" => mode = "smoke"
  /\ phase \in Requesting =>
       mode = "smoke" /\ keyed /\ IsTestnetOrderHost(MainHostOf(cfg.rest))
  /\ phase \in Requesting \ {"time"} => offset - skew \in Legs
  /\ phase \in {"order", "listen", "delete"} => ScaleFound(tick) = cfg.px
  /\ phase # "exit" => result = -1
  /\ Heard
  /\ RequestsAreSound
  /\ GreenIsProved

\* What a request leaves behind.
Answered(name, status) ==
  /\ RequestsAreSound'
  /\ local' \in Int
  /\ proved \subseteq proved'
  /\ status = 200 => name \in proved'

\* A request made once the host is known to be the testnet's: the history grows by
\* what the exchange said, the clock goes on, and what left was sound.
LEMMA RequestSound ==
  ASSUME NEW name, NEW signed \in BOOLEAN, NEW up \in Legs, NEW down \in Legs, NEW status,
         Request(name, signed, up, down, status),
         IsTestnetOrderHost(MainHostOf(cfg.rest)), mode = "smoke", keyed,
         local \in Int, skew \in Int, offset \in Int,
         signed => offset - skew \in Legs,
         mode' = mode, keyed' = keyed
  PROVE  Answered(name, status)
<1> DEFINE h    == MainHostOf(cfg.rest)
           lead == IF signed THEN Timestamp - (local + up + skew) ELSE 0
<1>1. /\ local' = local + up + down
      /\ sent' = [host |-> h.host, signed |-> signed, lead |-> lead]
      /\ proved' = IF status = 200 THEN proved \cup {name} ELSE proved
  BY DEF Request
<1>2. h.host \in TestnetHosts
  BY DEF IsTestnetOrderHost
<1>3. lead \in -MaxLeg .. MaxLeg
  <2>1. MaxLeg \in Nat /\ up \in 0 .. MaxLeg
    BY MaxLegAssumption DEF Legs
  <2>2. CASE signed
    <3>1. lead = (local + offset) - (local + up + skew)
      BY <2>2 DEF Timestamp
    <3>2. lead = (offset - skew) - up
      BY <2>1, <3>1
    <3>3. offset - skew \in 0 .. MaxLeg
      BY <2>2 DEF Legs
    <3> QED
      BY <2>1, <3>2, <3>3
  <2>3. CASE ~signed
    BY <2>1, <2>3
  <2> QED
    BY <2>2, <2>3
<1>4. local' \in Int
  BY <1>1, MaxLegAssumption DEF Legs
<1> HIDE DEF h, lead
<1>5. sent'.host = h.host /\ sent'.lead = lead
  BY <1>1
<1> QED
  BY <1>1, <1>2, <1>3, <1>4, <1>5 DEF Answered, RequestsAreSound

\* A failed request ends the program, and nothing rests on what it was doing.
LEMMA FailedExit ==
  ASSUME Exit(1), RequestsAreSound', local' \in Int, skew' \in Int, offset' \in Int
  PROVE  SessionOK'
<1>1. phase' = "exit" /\ result' = 1
  BY DEF Exit
<1>2. Heard'
  BY <1>1 DEF Heard
<1>3. GreenIsProved'
  BY <1>1 DEF GreenIsProved
<1> QED
  BY <1>1, <1>2, <1>3 DEF SessionOK, Requesting

\* No step breaks it.
LEMMA SessionStep == SessionOK /\ [SessNext]_sessVars => SessionOK'
<1> SUFFICES ASSUME SessionOK, [SessNext]_sessVars PROVE SessionOK'
  OBVIOUS
<1> USE DEF SessionOK, Requesting
<1>1. CASE Main
  <2>1. /\ UNCHANGED <<cfg, keyed, local, skew, offset, tick, proved, sent>>
        /\ sent = NoRequest /\ phase' \in {"config", "exit"}
        /\ phase' = "config" => result' = -1
        /\ ~(mode' = "smoke" /\ result' = 0)
    BY <1>1 DEF Main, Exit, GoTo
  <2> QED
    BY <2>1 DEF RequestsAreSound, GreenIsProved, Heard
<1>2. CASE LoadConfig
  <2>1. /\ UNCHANGED <<mode, keyed, local, skew, offset, tick, proved, sent>>
        /\ sent = NoRequest /\ phase' \in {"dotenv", "exit"}
        /\ phase' = "dotenv" => result' = -1
        /\ result' # 0
    BY <1>2 DEF LoadConfig, Exit, GoTo
  <2> QED
    BY <2>1 DEF RequestsAreSound, GreenIsProved, Heard
<1>3. CASE LoadDotenv
  <2>1. /\ UNCHANGED <<mode, cfg, local, skew, offset, tick, proved, sent>>
        /\ sent = NoRequest /\ phase' \in {"smoke", "exit"}
        /\ phase' = "smoke" => mode = "smoke" /\ result' = -1
        /\ ~(mode = "smoke" /\ result' = 0)
    <3>1. phase = "dotenv" /\ UNCHANGED <<mode, cfg, local, skew, offset, tick, proved, sent>>
      BY <1>3, Zenon DEF LoadDotenv
    <3>2. CASE Exit(1)
      BY <3>1, <3>2 DEF Exit
    <3>3. CASE IF mode = "smoke" THEN GoTo("smoke") ELSE Exit(0)
      BY <3>1, <3>3 DEF Exit, GoTo
    <3> QED
      BY <1>3, <3>2, <3>3, Zenon DEF LoadDotenv
  <2> QED
    BY <2>1 DEF RequestsAreSound, GreenIsProved, Heard
<1>4. CASE SmokeStart
  <2>1. /\ UNCHANGED <<mode, cfg, keyed, local, skew, offset, tick, proved, sent>>
        /\ sent = NoRequest /\ phase' \in {"time", "exit"}
        /\ phase' = "time" => /\ mode = "smoke" /\ keyed /\ result' = -1
                              /\ IsTestnetOrderHost(MainHostOf(cfg.rest))
        /\ result' # 0
    BY <1>4 DEF SmokeStart, Exit, GoTo
  <2> QED
    BY <2>1 DEF RequestsAreSound, GreenIsProved, Heard, MainHostOf, IsTestnetOrderHost, HostOf
<1>5. CASE GetTime
  <2>1. PICK up \in Legs, down \in Legs, status \in Statuses, parsed \in BOOLEAN :
          /\ Request("time", FALSE, up, down, status)
          /\ IF /\ status = 200 /\ parsed
                /\ (local + up + skew) - local \in -(cfg.window \div 2) .. cfg.window \div 2
               THEN offset' = (local + up + skew) - local /\ GoTo("info")
               ELSE Exit(1) /\ UNCHANGED offset
    BY <1>5, Zenon DEF GetTime
  <2>2. phase = "time" /\ UNCHANGED <<mode, cfg, keyed, skew, tick>>
    BY <1>5 DEF GetTime
  <2>3. /\ RequestsAreSound' /\ local' \in Int /\ proved \subseteq proved'
        /\ status = 200 => "time" \in proved'
    <3>1. Answered("time", status)
      BY <2>1, <2>2, RequestSound, ZenonT(60)
    <3> QED
      BY <3>1, Zenon DEF Answered
  <2>4. CASE status = 200 /\ offset' = (local + up + skew) - local /\ GoTo("info")
    <3>1. offset' \in Int /\ (offset - skew)' \in Legs
      BY <2>2, <2>4, MaxLegAssumption DEF Legs
    <3> QED
      BY <2>2, <2>3, <2>4, <3>1
      DEF GoTo, GreenIsProved, Heard, MainHostOf, IsTestnetOrderHost, HostOf
  <2>5. CASE Exit(1) /\ UNCHANGED offset
    <3>1. skew' \in Int /\ offset' \in Int
      BY <2>2, <2>5, Zenon
    <3> QED
      BY <2>3, <2>5, <3>1, FailedExit, ZenonT(60)
  <2> QED
    BY <2>1, <2>4, <2>5
<1>6. CASE GetExchangeInfo
  <2>1. PICK up \in Legs, down \in Legs, status \in Statuses, t \in Scales \cup {-1} :
          /\ Request("info", FALSE, up, down, status)
          /\ tick' = t
          /\ IF status = 200 /\ ScaleFound(t) = cfg.px THEN GoTo("order") ELSE Exit(1)
    BY <1>6, Zenon DEF GetExchangeInfo
  <2>2. phase = "info" /\ UNCHANGED <<mode, cfg, keyed, skew, offset>>
    BY <1>6 DEF GetExchangeInfo
  <2>3. /\ RequestsAreSound' /\ local' \in Int /\ proved \subseteq proved'
        /\ status = 200 => "info" \in proved'
    <3>1. Answered("info", status)
      BY <2>1, <2>2, RequestSound, ZenonT(60)
    <3> QED
      BY <3>1, Zenon DEF Answered
  <2>4. CASE status = 200 /\ ScaleFound(tick') = cfg.px /\ GoTo("order")
    BY <2>2, <2>3, <2>4
    DEF GoTo, GreenIsProved, Heard, MainHostOf, IsTestnetOrderHost, HostOf, ScaleFound
  <2>5. CASE Exit(1)
    <3>1. skew' \in Int /\ offset' \in Int
      BY <2>2, <2>5, Zenon
    <3> QED
      BY <2>3, <2>5, <3>1, FailedExit, ZenonT(60)
  <2> QED
    BY <2>1, <2>4, <2>5
<1>7. CASE OrderTest
  <2>1. PICK up \in Legs, down \in Legs, status \in Statuses :
          /\ Request("order", TRUE, up, down, status)
          /\ IF status = 200 THEN GoTo("listen") ELSE Exit(1)
    BY <1>7, Zenon DEF OrderTest
  <2>2. phase = "order" /\ UNCHANGED <<mode, cfg, keyed, skew, offset, tick>>
    BY <1>7 DEF OrderTest
  <2>3. /\ RequestsAreSound' /\ local' \in Int /\ proved \subseteq proved'
        /\ status = 200 => "order" \in proved'
    <3>1. Answered("order", status)
      BY <2>1, <2>2, RequestSound, ZenonT(60)
    <3> QED
      BY <3>1, Zenon DEF Answered
  <2>4. CASE status = 200 /\ GoTo("listen")
    BY <2>2, <2>3, <2>4
    DEF GoTo, GreenIsProved, Heard, MainHostOf, IsTestnetOrderHost, HostOf, ScaleFound
  <2>5. CASE Exit(1)
    <3>1. skew' \in Int /\ offset' \in Int
      BY <2>2, <2>5, Zenon
    <3> QED
      BY <2>3, <2>5, <3>1, FailedExit, ZenonT(60)
  <2> QED
    BY <2>1, <2>4, <2>5
<1>8. CASE CreateListenKey
  <2>1. PICK up \in Legs, down \in Legs, status \in Statuses, empty \in BOOLEAN :
          /\ Request("listen", FALSE, up, down, status)
          /\ IF status = 200 /\ ~empty THEN GoTo("delete") ELSE Exit(1)
    BY <1>8, Zenon DEF CreateListenKey
  <2>2. phase = "listen" /\ UNCHANGED <<mode, cfg, keyed, skew, offset, tick>>
    BY <1>8 DEF CreateListenKey
  <2>3. /\ RequestsAreSound' /\ local' \in Int /\ proved \subseteq proved'
        /\ status = 200 => "listen" \in proved'
    <3>1. Answered("listen", status)
      BY <2>1, <2>2, RequestSound, ZenonT(60)
    <3> QED
      BY <3>1, Zenon DEF Answered
  <2>4. CASE status = 200 /\ GoTo("delete")
    BY <2>2, <2>3, <2>4
    DEF GoTo, GreenIsProved, Heard, MainHostOf, IsTestnetOrderHost, HostOf, ScaleFound
  <2>5. CASE Exit(1)
    <3>1. skew' \in Int /\ offset' \in Int
      BY <2>2, <2>5, Zenon
    <3> QED
      BY <2>3, <2>5, <3>1, FailedExit, ZenonT(60)
  <2> QED
    BY <2>1, <2>4, <2>5
<1>9. CASE DeleteListenKey
  <2>1. PICK up \in Legs, down \in Legs, status \in Statuses :
          Request("delete", FALSE, up, down, status)
    BY <1>9, Zenon DEF DeleteListenKey
  <2>2. phase = "delete" /\ Exit(0) /\ UNCHANGED <<mode, cfg, keyed, skew, offset, tick>>
    BY <1>9 DEF DeleteListenKey
  <2>3. RequestsAreSound' /\ local' \in Int /\ proved \subseteq proved'
    <3>1. Answered("delete", status)
      BY <2>1, <2>2, RequestSound, ZenonT(60)
    <3> QED
      BY <3>1, Zenon DEF Answered
  <2>4. GreenIsProved'
    BY <2>2, <2>3 DEF GreenIsProved, Heard, ScaleFound
  <2> QED
    BY <2>2, <2>3, <2>4 DEF Exit, Heard
<1>10. CASE UNCHANGED sessVars
  BY <1>10 DEF sessVars, RequestsAreSound, GreenIsProved, Heard, MainHostOf, IsTestnetOrderHost,
     HostOf, ScaleFound
<1> QED
  BY <1>1, <1>2, <1>3, <1>4, <1>5, <1>6, <1>7, <1>8, <1>9, <1>10 DEF SessNext

\* It holds throughout.
LEMMA SessionInvariance == SessSpec => []SessionOK
<1>1. SessInit => SessionOK
  BY MaxSkewAssumption DEF SessInit, SessionOK, Requesting, Heard, RequestsAreSound, GreenIsProved
<1> QED
  BY <1>1, SessionStep, PTL DEF SessSpec

\* Whatever leaves the program goes to the testnet, with the keys, in --smoke only,
\* and a signed timestamp is within one leg of the server's clock.
THEOREM RequestsSound == SessSpec => []RequestsAreSound
<1>1. SessionOK => RequestsAreSound
  BY DEF SessionOK
<1> QED
  BY <1>1, SessionInvariance, PTL

\* A smoke run that ends in 0 has had every answer it is meant to check.
THEOREM GreenProved == SessSpec => []GreenIsProved
<1>1. SessionOK => GreenIsProved
  BY DEF SessionOK
<1> QED
  BY <1>1, SessionInvariance, PTL
=============================================================================
