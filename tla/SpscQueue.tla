----------------------------- MODULE SpscQueue -----------------------------
(***************************************************************************)
(* The single-producer single-consumer ring of src/core/spsc_queue.hpp.    *)
(* Every access to a shared location (head_, tail_, a slot of buf_) is a   *)
(* step of its own, so the two threads interleave inside try_push and      *)
(* try_pop.                                                                *)
(*                                                                         *)
(* Memory model.  A thread always sees its own stores.  An acquire load of *)
(* the OTHER thread's counter may return any value the counter has had     *)
(* since the newest one this thread already acquired (its cached copy):    *)
(* stores become visible in order but arbitrarily late.  A slot needs no   *)
(* such treatment as long as NoDataRace holds: the release store that      *)
(* publishes it orders it before the acquire load that reveals it.         *)
(***************************************************************************)
EXTENDS Integers, Sequences

CONSTANTS Capacity,  \* number of slots
          Values,    \* what may be pushed
          Nothing,   \* content of a register or slot that holds no value yet
          MaxPush    \* bound: how many elements the producer pushes in all

ASSUME CapacityAssumption == Capacity \in Nat \ {0}
ASSUME ValuesAssumption == Nothing \notin Values
ASSUME MaxPushAssumption == MaxPush \in Nat

VARIABLES head,         \* head_: next sequence number to pop (consumer-owned)
          tail,         \* tail_: next sequence number to push (producer-owned)
          cached_head,  \* the producer's copy of head_
          cached_tail,  \* the consumer's copy of tail_
          buf,          \* buf_
          ppc,          \* where the producer is
          cpc,          \* where the consumer is
          value,        \* the argument of the try_push in progress
          out,          \* what the try_pop in progress has read
          popped,       \* what the last successful try_pop returned
          size_tail,    \* size_approx: the thread's first load (of tail_)
          size          \* size_approx: the last result either thread got

prodVars == <<tail, cached_head, ppc, value>>
consVars == <<head, cached_tail, cpc, out, popped>>
sizeVars == <<size_tail, size>>
vars == <<head, tail, cached_head, cached_tail, buf, ppc, cpc, value, out,
          popped, size_tail, size>>

Slots == 0 .. Capacity - 1

\* kMask: Capacity is a power of two, so masking is the remainder.
Slot(n) == n % Capacity

\* The types of the fields: counters never pass the number of pushes.
TypeOK ==
  /\ head \in 0 .. MaxPush /\ tail \in 0 .. MaxPush
  /\ cached_head \in 0 .. MaxPush /\ cached_tail \in 0 .. MaxPush
  /\ buf \in [Slots -> Values \cup {Nothing}]
  /\ ppc \in {"idle", "reload", "write", "publish", "size"}
  /\ cpc \in {"idle", "reload", "read", "release", "size"}
  /\ value \in Values \cup {Nothing}
  /\ out \in Values \cup {Nothing}
  /\ popped \in Values \cup {Nothing}
  /\ size_tail \in [{"prod", "cons"} -> 0 .. MaxPush]
  /\ size \in Int

Init ==
  /\ head = 0 /\ tail = 0
  /\ cached_head = 0 /\ cached_tail = 0
  /\ buf = [s \in Slots |-> Nothing]
  /\ ppc = "idle" /\ cpc = "idle"
  /\ value = Nothing /\ out = Nothing /\ popped = Nothing
  /\ size_tail = [t \in {"prod", "cons"} |-> 0]
  /\ size = 0
-----------------------------------------------------------------------------
(* The producer: try_push. *)

\* The fullness test, made first against the cached head and again after a
\* reload.  LooksFullMutant forgets that a ring of Capacity slots is full.
LooksFullMutant(t, h) == t - h > Capacity
LooksFull(t, h) == t - h >= Capacity

PushCall(v) ==
  /\ ppc = "idle"
  /\ tail < MaxPush
  /\ value' = v
  /\ ppc' = IF LooksFull(tail, cached_head) THEN "reload" ELSE "write"
  /\ UNCHANGED <<tail, cached_head, buf, consVars, sizeVars>>

\* The acquire load of head_ returned h; a full queue makes try_push fail.
PushReload(h) ==
  /\ ppc = "reload"
  /\ cached_head' = h
  /\ ppc' = IF LooksFull(tail, h) THEN "idle" ELSE "write"
  /\ UNCHANGED <<tail, value, buf, consVars, sizeVars>>

PushWrite ==
  /\ ppc = "write"
  /\ buf' = [buf EXCEPT ![Slot(tail)] = value]
  /\ ppc' = "publish"
  /\ UNCHANGED <<tail, cached_head, value, consVars, sizeVars>>

PushPublish ==
  /\ ppc = "publish"
  /\ tail' = tail + 1
  /\ ppc' = "idle"
  /\ UNCHANGED <<cached_head, value, buf, consVars, sizeVars>>
-----------------------------------------------------------------------------
(* The consumer: try_pop. *)

\* LooksEmptyMutant pops one element more than was seen.
LooksEmptyMutant(h, t) == h > t
LooksEmpty(h, t) == h >= t

PopCall ==
  /\ cpc = "idle"
  /\ cpc' = IF LooksEmpty(head, cached_tail) THEN "reload" ELSE "read"
  /\ UNCHANGED <<head, cached_tail, out, popped, buf, prodVars, sizeVars>>

\* The acquire load of tail_ returned t; an empty queue makes try_pop fail.
\* PopReloadMutant tests the stale copy again instead of the loaded value.
PopReloadMutant(t) ==
  /\ cpc = "reload"
  /\ cpc' = IF LooksEmpty(head, cached_tail) THEN "idle" ELSE "read"
  /\ UNCHANGED <<head, cached_tail, out, popped, buf, prodVars, sizeVars>>

PopReload(t) ==
  /\ cpc = "reload"
  /\ cached_tail' = t
  /\ cpc' = IF LooksEmpty(head, t) THEN "idle" ELSE "read"
  /\ UNCHANGED <<head, out, popped, buf, prodVars, sizeVars>>

PopRead ==
  /\ cpc = "read"
  /\ out' = buf[Slot(head)]
  /\ cpc' = "release"
  /\ UNCHANGED <<head, cached_tail, popped, buf, prodVars, sizeVars>>

\* PopReleaseMutant frees the slot without handing its element to the caller.
PopReleaseMutant ==
  /\ cpc = "release"
  /\ head' = head + 1
  /\ cpc' = "idle"
  /\ UNCHANGED <<cached_tail, out, popped, buf, prodVars, sizeVars>>

PopRelease ==
  /\ cpc = "release"
  /\ head' = head + 1
  /\ popped' = out
  /\ cpc' = "idle"
  /\ UNCHANGED <<cached_tail, out, buf, prodVars, sizeVars>>
-----------------------------------------------------------------------------
(* size_approx, called by the producer or by the consumer between their    *)
(* other calls: a load of tail_, then a load of head_.  The thread's own   *)
(* counter is exact, the other one is a possibly stale acquire load.       *)

ProducerSizeTail ==
  /\ ppc = "idle"
  /\ size_tail' = [size_tail EXCEPT !["prod"] = tail]
  /\ ppc' = "size"
  /\ UNCHANGED <<tail, cached_head, value, size, buf, consVars>>

ProducerSizeHead(h) ==
  /\ ppc = "size"
  /\ size' = size_tail["prod"] - h
  /\ ppc' = "idle"
  /\ UNCHANGED <<tail, cached_head, value, size_tail, buf, consVars>>

ConsumerSizeTail(t) ==
  /\ cpc = "idle"
  /\ size_tail' = [size_tail EXCEPT !["cons"] = t]
  /\ cpc' = "size"
  /\ UNCHANGED <<head, cached_tail, out, popped, size, buf, prodVars>>

ConsumerSizeHead ==
  /\ cpc = "size"
  /\ size' = size_tail["cons"] - head
  /\ cpc' = "idle"
  /\ UNCHANGED <<head, cached_tail, out, popped, size_tail, buf, prodVars>>
-----------------------------------------------------------------------------
Producer ==
  \/ \E v \in Values : PushCall(v)
  \/ \E h \in cached_head .. head : PushReload(h)
  \/ PushWrite
  \/ PushPublish
  \/ ProducerSizeTail
  \/ \E h \in cached_head .. head : ProducerSizeHead(h)

Consumer ==
  \/ PopCall
  \/ \E t \in cached_tail .. tail : PopReload(t)
  \/ PopRead
  \/ PopRelease
  \/ \E t \in cached_tail .. tail : ConsumerSizeTail(t)
  \/ ConsumerSizeHead

Next == Producer \/ Consumer

Spec == Init /\ [][Next]_vars

\* Both threads keep calling (PushGroup's spin, the engine's loop), interrupt
\* those calls for size_approx only finitely long, and a store eventually
\* becomes visible to an acquire load.
Fairness ==
  /\ \A v \in Values : SF_vars(PushCall(v))
  /\ SF_vars(PushReload(head))
  /\ WF_vars(PushWrite) /\ WF_vars(PushPublish)
  /\ WF_vars(ProducerSizeHead(head))
  /\ SF_vars(PopCall)
  /\ SF_vars(PopReload(tail))
  /\ WF_vars(PopRead) /\ WF_vars(PopRelease)
  /\ WF_vars(ConsumerSizeHead)

FairSpec == Spec /\ Fairness
-----------------------------------------------------------------------------
(* Properties *)

\* The producer never writes the slot the consumer is reading: try_push tests
\* for space against a head_ the consumer has really released, however stale.
NoDataRace ==
  ~ (ppc = "write" /\ cpc = "read" /\ Slot(tail) = Slot(head))

\* size_approx, "safe to call from either thread": although its two loads
\* are not atomic, neither thread ever sees a negative (wrapped) size or one
\* above Capacity.
SizeApproxInRange == size \in 0 .. Capacity

\* The elements between the two counters, oldest first.
Elements == [i \in 1 .. tail - head |-> buf[Slot(head + i - 1)]]

Fifo == INSTANCE BoundedFifo WITH queue <- Elements

\* The ring implements a bounded FIFO queue: try_push appends at the store to
\* tail_, try_pop removes the oldest element and returns it at the store to
\* head_, and no other step of either thread changes the content.
ImplementsFifo == Fifo!FifoSpec

\* Every element the producer wants to hand over gets through although both
\* threads work from stale copies of the other's counter and the ring is
\* smaller than the stream.
AllElementsGetThrough == <>(head = MaxPush)
=============================================================================
