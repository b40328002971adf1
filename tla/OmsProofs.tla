------------------------------ MODULE OmsProofs -----------------------------
(***************************************************************************)
(* Proofs about Oms, for every number of slots from two on, every set of   *)
(* quotes and every bound.                                                 *)
(*                                                                         *)
(* OneRestingOrderPerSide is about the exchange, which knows nothing of    *)
(* slots.  What carries it is that every open order, and every place on    *)
(* its way, is in a slot with its side, and that no two slots have the     *)
(* same side; and a slot is freed too early unless a report that ends an   *)
(* order finds it done.  OmsOK says this of a state given by its parts, so *)
(* that the lemmas about the operations need no primes.                    *)
(*                                                                         *)
(* With late snapshots (DelayedReports) none of this holds, which the run  *)
(* Oms_latereport shows; only TypeOK does.                                 *)
(*                                                                         *)
(* At the end is the rate limiter for orders, TokenBucket.                 *)
(***************************************************************************)
EXTENDS Oms, TokenBucket, FiniteSetTheorems, SequenceTheorems, WellFoundedInduction, TLAPS

Slot == WorkingOrder \cup {NoOrder}
Terminal == {"Filled", "Canceled", "Rejected", "Expired"}
OpenIn(os) == {c \in Ids : os[c].status \in {"open", "partial"}}

\* An active slot has this id, side and quote.
Holds(sl, id, side, quote) ==
  \E i \in Slots : sl[i].active /\ sl[i].id = id /\ sl[i].side = side /\ sl[i].quote = quote

\* No two active slots have the same order or the same side; their ids are used up.
SlotsOK(sl, nx) ==
  /\ \A i, j \in Slots :
       sl[i].active /\ sl[j].active /\ (sl[i].id = sl[j].id \/ sl[i].side = sl[j].side) => i = j
  /\ \A i \in Slots : sl[i].active => sl[i].id < nx

\* A place on its way has a slot and an id of its own, and the exchange has not
\* seen it.
PlacesOK(sl, nx, cm, os) ==
  /\ \A n \in DOMAIN cm : cm[n].kind = "Place" =>
       /\ cm[n].id < nx /\ os[cm[n].id].status = "unknown"
       /\ Holds(sl, cm[n].id, cm[n].side, cm[n].quote)
  /\ \A m, n \in DOMAIN cm :
       cm[m].kind = "Place" /\ cm[n].kind = "Place" /\ cm[m].id = cm[n].id => m = n

\* The exchange only has orders that were sent, and the open ones have a slot.
OrdersOK(sl, nx, os) ==
  /\ \A c \in Ids : os[c].status # "unknown" => c < nx
  /\ \A c \in OpenIn(os) : Holds(sl, c, os[c].side, os[c].quote)

\* A report on its way is of an order the exchange has seen, and is done with if the
\* report says so.
ExecsOK(ex, os) ==
  \A n \in DOMAIN ex :
    /\ os[ex[n].id].status # "unknown"
    /\ ex[n].kind \in Terminal => os[ex[n].id].status = "done"

\* What an active slot waits for is there.
Alive(id, cm, os, ex) ==
  \/ id \in OpenIn(os)
  \/ \E n \in DOMAIN cm : cm[n].kind = "Place" /\ cm[n].id = id
  \/ \E n \in DOMAIN ex : ex[n].id = id /\ ex[n].kind \in Terminal
Awaited(sl, cm, os, ex) ==
  \A i \in Slots : sl[i].active => Alive(sl[i].id, cm, os, ex)

OmsOK(sl, nx, cm, os, ex, up) ==
  /\ SlotsOK(sl, nx) /\ PlacesOK(sl, nx, cm, os)
  /\ OrdersOK(sl, nx, os) /\ ExecsOK(ex, os)
  /\ up => Awaited(sl, cm, os, ex)

Tracked == OmsOK(slots, next_client_id, commands, orders, execs, connected)
-----------------------------------------------------------------------------
(* The slots *)

\* A slot is NoOrder or holds an order.
LEMMA SlotCases ==
  ASSUME NEW x \in Slot
  PROVE  /\ x.active \in BOOLEAN
         /\ x.active => x \in WorkingOrder
         /\ ~x.active => x = NoOrder
<1>1. CASE x = NoOrder
  <2>1. x.active = FALSE
    BY <1>1 DEF NoOrder
  <2> QED
    BY <1>1, <2>1, Zenon
<1>2. CASE x \in WorkingOrder
  <2>1. x.active = TRUE
    BY <1>2, Zenon DEF WorkingOrder
  <2> QED
    BY <1>2, <2>1, Zenon
<1> QED
  BY <1>1, <1>2 DEF Slot

\* First finds the least slot of a set, if there is one.
LEMMA FirstExists ==
  ASSUME NEW S \in SUBSET Slots, S # {}
  PROVE  First(S) # {}
<1>1. S \in SUBSET Nat
  BY NumSlotsAssumption DEF Slots
<1> DEFINE R == OpToRel(<, Nat)
<1>2. IsWellFoundedOn(R, Nat)
  BY NatLessThanWellFounded, Zenon
<1>3. PICK x \in S : \A y \in S : <<y, x>> \notin R
  <2> HIDE DEF R
  <2> QED
    BY <1>1, <1>2, WFMin, Zenon
<1>4. \A a, b \in Nat : a < b => <<a, b>> \in R
  BY DEF OpToRel
<1> HIDE DEF R
<1>5. \A y \in S : ~(y < x)
  BY <1>1, <1>3, <1>4, Zenon
<1>6. \A y \in S : x <= y
  BY <1>1, <1>5
<1> QED
  BY <1>6 DEF First

\* First is a subset, of at most one slot.
LEMMA FirstUnique ==
  ASSUME NEW S \in SUBSET Slots
  PROVE  First(S) \subseteq S /\ \A i, j \in First(S) : i = j
<1>1. S \in SUBSET Nat
  BY NumSlotsAssumption DEF Slots
<1> QED
  BY <1>1 DEF First

\* SetState leaves alone what the order is.
SameOrder(x, y) == x.active = y.active /\ (y.active => x.id = y.id /\ x.side = y.side /\ x.quote = y.quote)

LEMMA SetStateFacts ==
  ASSUME NEW sl \in [Slots -> Slot], NEW S \in SUBSET Slots,
         \A i \in S : sl[i].active,
         NEW state \in {"PendingNew", "Working", "PartiallyFilled", "PendingCancel"}
  PROVE  /\ SetState(sl, S, state) \in [Slots -> Slot]
         /\ \A i \in Slots : SameOrder(SetState(sl, S, state)[i], sl[i])
<1> DEFINE t == SetState(sl, S, state)
<1>1. ASSUME NEW i \in Slots PROVE t[i] \in Slot /\ SameOrder(t[i], sl[i])
  <2>1. CASE i \in S
    <3>1. sl[i] \in WorkingOrder
      BY <2>1, SlotCases
    <3>2. t[i] = [sl[i] EXCEPT !.state = state]
      BY <2>1 DEF SetState
    <3>3. t[i] \in WorkingOrder /\ SameOrder(t[i], sl[i])
      BY <3>1, <3>2, Zenon DEF WorkingOrder, SameOrder
    <3> QED
      BY <3>3 DEF Slot
  <2>2. CASE i \notin S
    BY <2>2 DEF SetState, SameOrder
  <2> QED
    BY <2>1, <2>2
<1>2. t = [i \in Slots |-> t[i]]
  BY DEF SetState
<1> HIDE DEF t
<1>3. t \in [Slots -> Slot]
  BY <1>1, <1>2
<1> QED
  BY <1>1, <1>3 DEF t

\* The slots after a place.
Placed(sl, f, id, side, quote) ==
  [sl EXCEPT ![f] = [active |-> TRUE, id |-> id, side |-> side,
                     quote |-> quote, state |-> "PendingNew"]]
PlaceCommand(id, side, quote) ==
  [kind |-> "Place", id |-> id, side |-> side, quote |-> quote]

\* The state a Reconcile works on.
Batch == [slots : [Slots -> Slot], next : Nat \ {0}, out : Seq(OrderCommand)]

\* What WantSide comes down to: nothing, a place into a free slot on a side without
\* an order, or the cancel of an order.
LEMMA WantSideCases ==
  ASSUME NEW o \in Batch, NEW side \in Sides, NEW want \in Quotes \cup {NoQuote}
  PROVE  LET p == WantSide(o, side, want)
         IN  \/ p = o
             \/ \E f \in Slots :
                  /\ ~o.slots[f].active /\ want \in Quotes
                  /\ \A i \in Slots : o.slots[i].active => o.slots[i].side # side
                  /\ p = [slots |-> Placed(o.slots, f, o.next, side, want),
                          next  |-> o.next + 1,
                          out   |-> Append(o.out, PlaceCommand(o.next, side, want))]
             \/ \E i \in Slots :
                  /\ o.slots[i].active
                  /\ p = [slots |-> SetState(o.slots, {i}, "PendingCancel"),
                          next  |-> o.next,
                          out   |-> Append(o.out, [kind |-> "Cancel", id |-> o.slots[i].id])]
<1> DEFINE sl  == o.slots
           S   == {i \in Slots : sl[i].active /\ sl[i].side = side}
           cur == SideSlot(sl, side)
           p   == WantSide(o, side, want)
<1>1. sl \in [Slots -> Slot]
  BY DEF Batch
<1>2. cur = First(S) /\ S \in SUBSET Slots
  BY DEF SideSlot
<1>3. CASE cur = {}
  <2>1. S = {}
    BY <1>2, <1>3, FirstExists
  <2>2. \A i \in Slots : sl[i].active => sl[i].side # side
    BY <2>1
  <2>3. CASE want = NoQuote \/ FreeSlot(sl) = {}
    BY <1>3, <2>3 DEF WantSide, EmitPlace
  <2>4. CASE want # NoQuote /\ FreeSlot(sl) # {}
    <3>1. want \in Quotes
      BY <2>4
    <3>2. PICK f : f \in FreeSlot(sl)
      BY <2>4
    <3>3. f \in Slots /\ ~sl[f].active /\ \A i \in FreeSlot(sl) : i = f
      <4> DEFINE F == {i \in Slots : ~sl[i].active}
      <4>1. F \in SUBSET Slots /\ FreeSlot(sl) = First(F)
        BY DEF FreeSlot
      <4> QED
        BY <3>2, <4>1, FirstUnique, Zenon
    <3>4. p = [slots |-> [i \in Slots |->
                            IF i \in FreeSlot(sl)
                            THEN [active |-> TRUE, id |-> o.next, side |-> side,
                                  quote |-> want, state |-> "PendingNew"]
                            ELSE sl[i]],
               next  |-> o.next + 1,
               out   |-> Append(o.out, PlaceCommand(o.next, side, want))]
      BY <1>3, <2>4, Zenon DEF WantSide, EmitPlace, PlaceCommand
    <3>5. [i \in Slots |-> IF i \in FreeSlot(sl)
                           THEN [active |-> TRUE, id |-> o.next, side |-> side,
                                 quote |-> want, state |-> "PendingNew"]
                           ELSE sl[i]] = Placed(sl, f, o.next, side, want)
      <4> DEFINE w == [active |-> TRUE, id |-> o.next, side |-> side,
                       quote |-> want, state |-> "PendingNew"]
      <4> HIDE DEF w
      <4>1. [i \in Slots |-> IF i \in FreeSlot(sl) THEN w ELSE sl[i]] = [sl EXCEPT ![f] = w]
        BY <1>1, <3>2, <3>3
      <4> QED
        BY <4>1 DEF w, Placed
    <3> QED
      BY <2>2, <3>1, <3>3, <3>4, <3>5, Zenon
  <2> QED
    BY <2>3, <2>4, Zenon
<1>4. CASE cur # {}
  <2> DEFINE i == CHOOSE i \in cur : TRUE
  <2>1. i \in cur
    BY <1>4
  <2>2. i \in Slots /\ sl[i].active
    BY <1>2, <2>1, FirstUnique, Zenon
  <2>3. p = o \/ p = EmitCancel(o, i)
    BY <1>4, Zenon DEF WantSide
  <2> QED
    BY <2>2, <2>3, Zenon DEF EmitCancel
<1> QED
  BY <1>3, <1>4, Zenon
-----------------------------------------------------------------------------
(* The commands *)

\* A place into a free slot: what comes out has its type.
LEMMA PlacedFacts ==
  ASSUME NEW sl \in [Slots -> Slot], NEW f \in Slots, NEW id \in Ids,
         NEW side \in Sides, NEW quote \in Quotes
  PROVE  /\ Placed(sl, f, id, side, quote) \in [Slots -> Slot]
         /\ Placed(sl, f, id, side, quote)[f].active = TRUE
         /\ Placed(sl, f, id, side, quote)[f].id = id
         /\ Placed(sl, f, id, side, quote)[f].side = side
         /\ Placed(sl, f, id, side, quote)[f].quote = quote
         /\ \A i \in Slots : i # f => Placed(sl, f, id, side, quote)[i] = sl[i]
         /\ PlaceCommand(id, side, quote) \in OrderCommand
<1> DEFINE w == [active |-> TRUE, id |-> id, side |-> side,
                 quote |-> quote, state |-> "PendingNew"]
<1>1. w \in WorkingOrder
  BY DEF WorkingOrder
<1>2. w.active = TRUE /\ w.id = id /\ w.side = side /\ w.quote = quote
  OBVIOUS
<1>3. PlaceCommand(id, side, quote) \in OrderCommand
  BY DEF PlaceCommand, OrderCommand
<1> HIDE DEF w
<1>4. /\ [sl EXCEPT ![f] = w] \in [Slots -> Slot]
      /\ [sl EXCEPT ![f] = w][f] = w
      /\ \A i \in Slots : i # f => [sl EXCEPT ![f] = w][i] = sl[i]
  BY <1>1 DEF Slot
<1>5. Placed(sl, f, id, side, quote) = [sl EXCEPT ![f] = w]
  BY DEF Placed, w
<1> QED
  BY <1>2, <1>3, <1>4, <1>5

\* What a batch must be for the code's next steps.
BatchOK(o, os, ex, up) == OmsOK(o.slots, o.next, o.out, os, ex, up)

\* One side of Reconcile keeps the types, as long as the client ids last.
LEMMA WantSideType ==
  ASSUME NEW o \in Batch, NEW side \in Sides, NEW want \in Quotes \cup {NoQuote}
  PROVE  LET p == WantSide(o, side, want)
         IN  /\ p.next \in Nat /\ o.next <= p.next
             /\ p.next <= MaxOrders + 1 => p \in Batch
<1> DEFINE p == WantSide(o, side, want)
           sl == o.slots
<1>1. sl \in [Slots -> Slot] /\ o.next \in Nat \ {0} /\ o.out \in Seq(OrderCommand)
  BY DEF Batch
<1>2. CASE p = o
  BY <1>1, <1>2
<1>3. ASSUME NEW f \in Slots, want \in Quotes,
             p = [slots |-> Placed(sl, f, o.next, side, want), next  |-> o.next + 1,
                  out   |-> Append(o.out, PlaceCommand(o.next, side, want))]
      PROVE  /\ p.next \in Nat /\ o.next <= p.next
             /\ p.next <= MaxOrders + 1 => p \in Batch
  <2>1. p.next = o.next + 1
    BY <1>3
  <2>2. ASSUME p.next <= MaxOrders + 1 PROVE p \in Batch
    <3>1. o.next \in Ids
      BY <1>1, <2>1, <2>2, MaxOrdersAssumption DEF Ids
    <3>2. Placed(sl, f, o.next, side, want) \in [Slots -> Slot]
      BY <1>1, <1>3, <3>1, PlacedFacts, Zenon
    <3>3. PlaceCommand(o.next, side, want) \in OrderCommand
      BY <1>1, <1>3, <3>1, PlacedFacts, ZenonT(60)
    <3>4. Append(o.out, PlaceCommand(o.next, side, want)) \in Seq(OrderCommand)
      BY <1>1, <3>3, AppendProperties
    <3>5. o.next + 1 \in Nat \ {0}
      BY <1>1
    <3> QED
      BY <1>3, <3>2, <3>4, <3>5 DEF Batch
  <2> QED
    BY <1>1, <2>1, <2>2
<1>4. ASSUME NEW i \in Slots, sl[i].active,
             p = [slots |-> SetState(sl, {i}, "PendingCancel"), next  |-> o.next,
                  out   |-> Append(o.out, [kind |-> "Cancel", id |-> sl[i].id])]
      PROVE  /\ p.next \in Nat /\ o.next <= p.next
             /\ p.next <= MaxOrders + 1 => p \in Batch
  <2>1. SetState(sl, {i}, "PendingCancel") \in [Slots -> Slot]
    <3>1. {i} \in SUBSET Slots /\ \A j \in {i} : sl[j].active
      BY <1>4
    <3> QED
      BY <1>1, <3>1, SetStateFacts
  <2>2. [kind |-> "Cancel", id |-> sl[i].id] \in OrderCommand
    <3>1. sl[i].id \in Ids
      BY <1>1, <1>4, SlotCases, Zenon DEF WorkingOrder
    <3> QED
      BY <3>1 DEF OrderCommand
  <2>3. Append(o.out, [kind |-> "Cancel", id |-> sl[i].id]) \in Seq(OrderCommand)
    BY <1>1, <2>2, AppendProperties
  <2> QED
    <3> DEFINE t == SetState(sl, {i}, "PendingCancel")
               q == Append(o.out, [kind |-> "Cancel", id |-> sl[i].id])
    <3>1. p = [slots |-> t, next |-> o.next, out |-> q] /\ t \in [Slots -> Slot]
          /\ q \in Seq(OrderCommand)
      BY <1>4, <2>1, <2>3, Zenon
    <3> HIDE DEF t, q, p
    <3> QED
      BY <1>1, <3>1 DEF Batch
<1> QED
  <2> HIDE DEF p
  <2>1. \/ p = o
        \/ \E f \in Slots :
             /\ want \in Quotes
             /\ p = [slots |-> Placed(sl, f, o.next, side, want), next  |-> o.next + 1,
                     out   |-> Append(o.out, PlaceCommand(o.next, side, want))]
        \/ \E i \in Slots :
             /\ sl[i].active
             /\ p = [slots |-> SetState(sl, {i}, "PendingCancel"), next  |-> o.next,
                     out   |-> Append(o.out, [kind |-> "Cancel", id |-> sl[i].id])]
    BY WantSideCases, Zenon DEF p
  <2> QED
    BY <1>2, <1>3, <1>4, <2>1, Zenon DEF p
-----------------------------------------------------------------------------
(* What the operations do to OmsOK *)

\* A slot that still holds what it held still counts.
LEMMA HoldsKept ==
  ASSUME NEW sl, NEW t, NEW id, NEW side, NEW quote, Holds(sl, id, side, quote),
         \A i \in Slots : sl[i].active => SameOrder(t[i], sl[i])
  PROVE  Holds(t, id, side, quote)
BY DEF Holds, SameOrder

\* The state of an order in its slot is of no account here.
LEMMA StateOnly ==
  ASSUME NEW sl, NEW t, NEW nx, NEW cm, NEW os, NEW ex, NEW up \in BOOLEAN,
         \A i \in Slots : SameOrder(t[i], sl[i]),
         OmsOK(sl, nx, cm, os, ex, up)
  PROVE  OmsOK(t, nx, cm, os, ex, up)
<1>1. \A id, side, quote : Holds(sl, id, side, quote) => Holds(t, id, side, quote)
  BY HoldsKept
<1>2. SlotsOK(t, nx)
  BY Zenon DEF OmsOK, SlotsOK, SameOrder
<1>3. PlacesOK(t, nx, cm, os)
  BY <1>1, Zenon DEF OmsOK, PlacesOK
<1>4. OrdersOK(t, nx, os)
  BY <1>1, Zenon DEF OmsOK, OrdersOK
<1>5. up => Awaited(t, cm, os, ex)
  BY Zenon DEF OmsOK, Awaited, SameOrder
<1> QED
  BY <1>2, <1>3, <1>4, <1>5, Zenon DEF OmsOK

\* A command that is not a place makes no difference, neither when it is given
\* nor when it is taken.
LEMMA AddCommand ==
  ASSUME NEW sl, NEW nx, NEW cm \in Seq(OrderCommand), NEW os, NEW ex, NEW up \in BOOLEAN,
         NEW c, c.kind # "Place",
         OmsOK(sl, nx, cm, os, ex, up)
  PROVE  OmsOK(sl, nx, Append(cm, c), os, ex, up)
<1> DEFINE d == Append(cm, c)
<1>1. /\ DOMAIN cm = 1 .. Len(cm) /\ Len(cm) \in Nat
      /\ DOMAIN d = 1 .. Len(cm) + 1
      /\ \A n \in 1 .. Len(cm) : d[n] = cm[n]
      /\ d[Len(cm) + 1] = c
  OBVIOUS
<1> HIDE DEF d
<1>2. \A n \in DOMAIN d : d[n].kind = "Place" => n \in DOMAIN cm /\ d[n] = cm[n]
  BY <1>1
<1>3. \A n \in DOMAIN cm : n \in DOMAIN d /\ d[n] = cm[n]
  BY <1>1
<1>4. PlacesOK(sl, nx, d, os)
  BY <1>2, <1>3, Zenon DEF OmsOK, PlacesOK
<1>5. up => Awaited(sl, d, os, ex)
  <2>1. \A id : Alive(id, cm, os, ex) => Alive(id, d, os, ex)
    BY <1>3, Zenon DEF Alive
  <2> QED
    BY <2>1, Zenon DEF OmsOK, Awaited
<1>6. OmsOK(sl, nx, d, os, ex, up)
  BY <1>4, <1>5, Zenon DEF OmsOK
<1> QED
  BY <1>6 DEF d

LEMMA DropCommand ==
  ASSUME NEW sl, NEW nx, NEW cm \in Seq(OrderCommand), NEW os, NEW ex, NEW up \in BOOLEAN,
         cm # << >>, Head(cm).kind # "Place",
         OmsOK(sl, nx, cm, os, ex, up)
  PROVE  OmsOK(sl, nx, Tail(cm), os, ex, up)
<1> DEFINE d == Tail(cm)
<1>1. /\ DOMAIN cm = 1 .. Len(cm) /\ Len(cm) \in Nat /\ Len(cm) > 0
      /\ DOMAIN d = 1 .. Len(cm) - 1
      /\ \A n \in 1 .. Len(cm) - 1 : d[n] = cm[n + 1]
      /\ cm[1].kind # "Place"
  OBVIOUS
<1> HIDE DEF d
<1>2. \A n \in DOMAIN d : n + 1 \in DOMAIN cm /\ d[n] = cm[n + 1]
  BY <1>1
<1>3. \A n \in DOMAIN cm : cm[n].kind = "Place" => \E m \in DOMAIN d : d[m] = cm[n]
  <2> SUFFICES ASSUME NEW n \in DOMAIN cm, cm[n].kind = "Place"
               PROVE  \E m \in DOMAIN d : d[m] = cm[n]
    OBVIOUS
  <2>1. n # 1
    BY <1>1
  <2>2. n - 1 \in 1 .. Len(cm) - 1 /\ (n - 1) + 1 = n
    BY <1>1, <2>1
  <2>3. n - 1 \in DOMAIN d /\ d[n - 1] = cm[n]
    BY <1>1, <2>2
  <2> QED
    BY <2>3
<1>4. PlacesOK(sl, nx, d, os)
  <2>1. ASSUME NEW n \in DOMAIN d, d[n].kind = "Place"
        PROVE  /\ d[n].id < nx /\ os[d[n].id].status = "unknown"
               /\ Holds(sl, d[n].id, d[n].side, d[n].quote)
    BY <1>2, <2>1, Zenon DEF OmsOK, PlacesOK
  <2>2. ASSUME NEW m \in DOMAIN d, NEW n \in DOMAIN d,
               d[m].kind = "Place", d[n].kind = "Place", d[m].id = d[n].id
        PROVE  m = n
    <3>1. m + 1 = n + 1
      BY <1>2, <2>2, Zenon DEF OmsOK, PlacesOK
    <3>2. m \in Int /\ n \in Int
      BY <1>1
    <3> QED
      BY <3>1, <3>2
  <2> QED
    BY <2>1, <2>2, Zenon DEF PlacesOK
<1>5. up => Awaited(sl, d, os, ex)
  <2>1. \A id : Alive(id, cm, os, ex) => Alive(id, d, os, ex)
    BY <1>3, Zenon DEF Alive
  <2> QED
    BY <2>1, Zenon DEF OmsOK, Awaited
<1>6. OmsOK(sl, nx, d, os, ex, up)
  BY <1>4, <1>5, Zenon DEF OmsOK
<1> QED
  BY <1>6 DEF d

\* A place on a side without an order.
LEMMA PlaceKeeps ==
  ASSUME NEW sl \in [Slots -> Slot], NEW nx \in Ids, NEW cm \in Seq(OrderCommand),
         NEW os \in [Ids -> ExchangeOrder], NEW ex, NEW up \in BOOLEAN,
         NEW f \in Slots, NEW side \in Sides, NEW quote \in Quotes,
         ~sl[f].active, \A i \in Slots : sl[i].active => sl[i].side # side,
         OmsOK(sl, nx, cm, os, ex, up)
  PROVE  OmsOK(Placed(sl, f, nx, side, quote), nx + 1,
               Append(cm, PlaceCommand(nx, side, quote)), os, ex, up)
<1> DEFINE t == Placed(sl, f, nx, side, quote)
           c == PlaceCommand(nx, side, quote)
           d == Append(cm, c)
           L == Len(cm) + 1
<1>1. /\ t[f].active = TRUE /\ t[f].id = nx /\ t[f].side = side /\ t[f].quote = quote
      /\ \A i \in Slots : i # f => t[i] = sl[i]
  <2>1. \A i \in Slots : i # f => t[i] = sl[i]
    BY DEF Placed
  <2>2. t[f] = [active |-> TRUE, id |-> nx, side |-> side, quote |-> quote,
                state |-> "PendingNew"]
    BY DEF Placed
  <2> HIDE DEF t
  <2> QED
    BY <2>1, <2>2
<1>2. c.kind = "Place" /\ c.id = nx /\ c.side = side /\ c.quote = quote
  BY DEF PlaceCommand
<1> HIDE DEF t, c
<1>3. /\ DOMAIN cm = 1 .. Len(cm) /\ Len(cm) \in Nat
      /\ DOMAIN d = 1 .. L
      /\ \A n \in 1 .. Len(cm) : d[n] = cm[n]
      /\ d[L] = c
  OBVIOUS
<1> HIDE DEF d
<1>4. /\ \A n \in DOMAIN d : n = L \/ (n \in DOMAIN cm /\ d[n] = cm[n])
      /\ \A n \in DOMAIN cm : n \in DOMAIN d /\ d[n] = cm[n]
      /\ L \in DOMAIN d /\ d[L] = c
  BY <1>3
<1> HIDE DEF L
<1>5. nx \in Int /\ \A k \in Ids : k < nx => k < nx + 1 /\ k # nx
  BY MaxOrdersAssumption DEF Ids
<1>6. nx < nx + 1
  BY <1>5
<1>7. \A i \in Slots : sl[i].active => sl[i].id \in Ids
  BY SlotCases, Zenon DEF WorkingOrder
<1>8. \A n \in DOMAIN cm : cm[n].kind = "Place" => cm[n].id \in Ids
  <2>1. \A n \in DOMAIN cm : cm[n] \in OrderCommand
    BY <1>3
  <2> QED
    BY <2>1 DEF OrderCommand
<1>9. \A i \in Slots : sl[i].active => SameOrder(t[i], sl[i])
  BY <1>1, Zenon DEF SameOrder
<1>10. \A id, s, q : Holds(sl, id, s, q) => Holds(t, id, s, q)
  BY <1>9, HoldsKept
<1>11. SlotsOK(t, nx + 1)
  <2>1. \A i \in Slots : sl[i].active => sl[i].id < nx + 1 /\ sl[i].id # nx
    BY <1>5, <1>7, Zenon DEF OmsOK, SlotsOK
  <2>2. ASSUME NEW i \in Slots, NEW j \in Slots, t[i].active, t[j].active,
               t[i].id = t[j].id \/ t[i].side = t[j].side
        PROVE  i = j
    <3>1. CASE i # f /\ j # f
      BY <1>1, <2>2, <3>1, Zenon DEF OmsOK, SlotsOK
    <3>2. CASE i = f /\ j # f
      BY <1>1, <2>1, <2>2, <3>2, Zenon
    <3>3. CASE i # f /\ j = f
      BY <1>1, <2>1, <2>2, <3>3, Zenon
    <3> QED
      BY <3>1, <3>2, <3>3
  <2>3. ASSUME NEW i \in Slots, t[i].active PROVE t[i].id < nx + 1
    BY <1>1, <1>6, <2>1, <2>3, Zenon
  <2> QED
    BY <2>2, <2>3, Zenon DEF SlotsOK
<1>12. os[nx].status = "unknown"
  <2>1. ~(nx < nx)
    BY <1>5
  <2> QED
    BY <2>1, Zenon DEF OmsOK, OrdersOK
<1>13. Holds(t, nx, side, quote)
  BY <1>1, Zenon DEF Holds
<1>14. PlacesOK(t, nx + 1, d, os)
  <2>1. \A n \in DOMAIN cm : cm[n].kind = "Place" => cm[n].id < nx + 1 /\ cm[n].id # nx
    BY <1>5, <1>8, Zenon DEF OmsOK, PlacesOK
  <2>2. ASSUME NEW n \in DOMAIN d, d[n].kind = "Place"
        PROVE  /\ d[n].id < nx + 1 /\ os[d[n].id].status = "unknown"
               /\ Holds(t, d[n].id, d[n].side, d[n].quote)
    <3>1. CASE n = L
      BY <1>2, <1>4, <1>6, <1>12, <1>13, <3>1, Zenon
    <3>2. CASE n \in DOMAIN cm /\ d[n] = cm[n]
      BY <1>10, <2>1, <2>2, <3>2, Zenon DEF OmsOK, PlacesOK
    <3> QED
      BY <1>4, <3>1, <3>2
  <2>3. ASSUME NEW m \in DOMAIN d, NEW n \in DOMAIN d,
               d[m].kind = "Place", d[n].kind = "Place", d[m].id = d[n].id
        PROVE  m = n
    <3>1. CASE m # L /\ n # L
      BY <1>4, <2>3, <3>1, Zenon DEF OmsOK, PlacesOK
    <3>2. CASE m = L /\ n # L
      BY <1>2, <1>4, <2>1, <2>3, <3>2, Zenon
    <3>3. CASE m # L /\ n = L
      BY <1>2, <1>4, <2>1, <2>3, <3>3, Zenon
    <3> QED
      BY <3>1, <3>2, <3>3
  <2> QED
    BY <2>2, <2>3, Zenon DEF PlacesOK
<1>15. OrdersOK(t, nx + 1, os)
  BY <1>5, <1>10, Zenon DEF OmsOK, OrdersOK
<1>16. up => Awaited(t, d, os, ex)
  <2>1. \A id : Alive(id, cm, os, ex) => Alive(id, d, os, ex)
    BY <1>4, Zenon DEF Alive
  <2>2. Alive(nx, d, os, ex)
    BY <1>2, <1>4, Zenon DEF Alive
  <2>3. ASSUME up, NEW i \in Slots, t[i].active PROVE Alive(t[i].id, d, os, ex)
    <3>1. CASE i = f
      BY <1>1, <2>2, <3>1, Zenon
    <3>2. CASE i # f
      BY <1>1, <2>1, <2>3, <3>2, Zenon DEF OmsOK, Awaited
    <3> QED
      BY <3>1, <3>2
  <2> QED
    BY <2>3, Zenon DEF Awaited
<1>17. OmsOK(t, nx + 1, d, os, ex, up)
  BY <1>11, <1>14, <1>15, <1>16, Zenon DEF OmsOK
<1> QED
  BY <1>17, Zenon DEF t, c, d

\* One side of Reconcile.
LEMMA WantSideKeeps ==
  ASSUME NEW o \in Batch, NEW side \in Sides, NEW want \in Quotes \cup {NoQuote},
         NEW os \in [Ids -> ExchangeOrder], NEW ex, NEW up \in BOOLEAN,
         WantSide(o, side, want).next <= MaxOrders + 1,
         BatchOK(o, os, ex, up)
  PROVE  BatchOK(WantSide(o, side, want), os, ex, up)
<1> DEFINE p == WantSide(o, side, want)
           sl == o.slots
<1>1. sl \in [Slots -> Slot] /\ o.next \in Nat \ {0} /\ o.out \in Seq(OrderCommand)
  BY DEF Batch
<1>2. OmsOK(sl, o.next, o.out, os, ex, up)
  BY DEF BatchOK
<1>3. ASSUME NEW f \in Slots, want \in Quotes, ~sl[f].active,
             \A i \in Slots : sl[i].active => sl[i].side # side,
             p = [slots |-> Placed(sl, f, o.next, side, want), next  |-> o.next + 1,
                  out   |-> Append(o.out, PlaceCommand(o.next, side, want))]
      PROVE  BatchOK(p, os, ex, up)
  <2>1. /\ p.next = o.next + 1 /\ p.slots = Placed(sl, f, o.next, side, want)
        /\ p.out = Append(o.out, PlaceCommand(o.next, side, want))
    BY <1>3
  <2>2. o.next \in Ids
    BY <1>1, <2>1, MaxOrdersAssumption DEF Ids
  <2>3. OmsOK(Placed(sl, f, o.next, side, want), o.next + 1,
              Append(o.out, PlaceCommand(o.next, side, want)), os, ex, up)
    BY <1>1, <1>2, <1>3, <2>2, PlaceKeeps, Zenon
  <2> QED
    BY <2>1, <2>3, Zenon DEF BatchOK
<1>4. ASSUME NEW i \in Slots, sl[i].active,
             p = [slots |-> SetState(sl, {i}, "PendingCancel"), next  |-> o.next,
                  out   |-> Append(o.out, [kind |-> "Cancel", id |-> sl[i].id])]
      PROVE  BatchOK(p, os, ex, up)
  <2> DEFINE t == SetState(sl, {i}, "PendingCancel")
             c == [kind |-> "Cancel", id |-> sl[i].id]
  <2>1. p.next = o.next /\ p.slots = t /\ p.out = Append(o.out, c)
    BY <1>4
  <2>2. c.kind # "Place"
    OBVIOUS
  <2>3. \A j \in Slots : SameOrder(t[j], sl[j])
    <3>1. {i} \in SUBSET Slots /\ \A j \in {i} : sl[j].active
      BY <1>4
    <3> QED
      BY <1>1, <3>1, SetStateFacts
  <2> HIDE DEF t, c, p
  <2>4. OmsOK(t, o.next, o.out, os, ex, up)
    BY <1>2, <2>3, StateOnly
  <2>5. OmsOK(t, o.next, Append(o.out, c), os, ex, up)
    BY <1>1, <2>2, <2>4, AddCommand
  <2> QED
    BY <2>1, <2>5, Zenon DEF BatchOK
<1> QED
  <2> HIDE DEF p
  <2>1. \/ p = o
        \/ \E f \in Slots :
             /\ ~sl[f].active /\ want \in Quotes
             /\ \A i \in Slots : sl[i].active => sl[i].side # side
             /\ p = [slots |-> Placed(sl, f, o.next, side, want), next  |-> o.next + 1,
                     out   |-> Append(o.out, PlaceCommand(o.next, side, want))]
        \/ \E i \in Slots :
             /\ sl[i].active
             /\ p = [slots |-> SetState(sl, {i}, "PendingCancel"), next  |-> o.next,
                     out   |-> Append(o.out, [kind |-> "Cancel", id |-> sl[i].id])]
    BY WantSideCases, Zenon DEF p
  <2>2. BatchOK(p, os, ex, up)
    BY <1>3, <1>4, <2>1, Zenon
  <2> QED
    BY <2>2 DEF p
-----------------------------------------------------------------------------
(* OnExec *)

\* The types after a report.
LEMMA AfterExecType ==
  ASSUME NEW sl \in [Slots -> Slot], NEW e
  PROVE  /\ AfterExec(sl, e) \in [Slots -> Slot]
         /\ e.kind \in {"Ack", "Partial"} =>
              \A i \in Slots : SameOrder(AfterExec(sl, e)[i], sl[i])
         /\ e.kind \notin {"Ack", "Partial"} =>
              AfterExec(sl, e) = [i \in Slots |-> IF i \in FindByClient(sl, e.id)
                                                  THEN NoOrder ELSE sl[i]]
<1> DEFINE S == FindByClient(sl, e.id)
           F == {i \in Slots : sl[i].active /\ sl[i].id = e.id}
<1>1. S = First(F) /\ F \in SUBSET Slots
  BY DEF FindByClient
<1>2. S \in SUBSET Slots /\ \A i \in S : sl[i].active
  BY <1>1, FirstUnique
<1>3. \A state \in {"PendingNew", "Working", "PartiallyFilled", "PendingCancel"} :
        /\ SetState(sl, S, state) \in [Slots -> Slot]
        /\ \A i \in Slots : SameOrder(SetState(sl, S, state)[i], sl[i])
  BY <1>2, SetStateFacts
<1> HIDE DEF S, F
<1>4. /\ e.kind = "Ack" => AfterExec(sl, e) = SetState(sl, S, "Working")
      /\ e.kind = "Partial" => AfterExec(sl, e) = SetState(sl, S, "PartiallyFilled")
      /\ e.kind \notin {"Ack", "Partial"} =>
           AfterExec(sl, e) = [i \in Slots |-> IF i \in S THEN NoOrder ELSE sl[i]]
  BY DEF AfterExec, S
<1>5. [i \in Slots |-> IF i \in S THEN NoOrder ELSE sl[i]] \in [Slots -> Slot]
  BY DEF Slot
<1>6. e.kind \in {"Ack", "Partial"} =>
        /\ AfterExec(sl, e) \in [Slots -> Slot]
        /\ \A i \in Slots : SameOrder(AfterExec(sl, e)[i], sl[i])
  BY <1>3, <1>4
<1>7. e.kind \notin {"Ack", "Partial"} => AfterExec(sl, e) \in [Slots -> Slot]
  BY <1>4, <1>5
<1> QED
  BY <1>4, <1>6, <1>7 DEF S

\* A report is taken: if it ends an order, that order is done, so that neither an
\* open order nor a place on its way loses its slot.
LEMMA OnExecKeeps ==
  ASSUME NEW sl \in [Slots -> Slot], NEW nx, NEW cm \in Seq(OrderCommand),
         NEW os \in [Ids -> ExchangeOrder], NEW ex \in Seq(ExecEvent), NEW up \in BOOLEAN,
         ex # << >>,
         OmsOK(sl, nx, cm, os, ex, up)
  PROVE  OmsOK(AfterExec(sl, Head(ex)), nx, cm, os, Tail(ex), up)
<1> DEFINE e == Head(ex)
           d == Tail(ex)
           t == AfterExec(sl, e)
<1>1. /\ DOMAIN ex = 1 .. Len(ex) /\ Len(ex) \in Nat /\ Len(ex) > 0
      /\ DOMAIN d = 1 .. Len(ex) - 1
      /\ \A n \in 1 .. Len(ex) - 1 : d[n] = ex[n + 1]
      /\ ex[1] = e /\ e \in ExecEvent
  OBVIOUS
<1>2. /\ e.kind \in {"Ack", "Partial"} => \A i \in Slots : SameOrder(t[i], sl[i])
      /\ e.kind \notin {"Ack", "Partial"} =>
           t = [i \in Slots |-> IF i \in FindByClient(sl, e.id) THEN NoOrder ELSE sl[i]]
  BY AfterExecType, Zenon
<1> HIDE DEF e, d, t
<1>3. \A n \in DOMAIN d : n + 1 \in DOMAIN ex /\ d[n] = ex[n + 1]
  BY <1>1
<1>4. \A n \in DOMAIN ex : n = 1 \/ \E m \in DOMAIN d : d[m] = ex[n]
  <2> SUFFICES ASSUME NEW n \in DOMAIN ex, n # 1 PROVE \E m \in DOMAIN d : d[m] = ex[n]
    OBVIOUS
  <2>1. n - 1 \in 1 .. Len(ex) - 1 /\ (n - 1) + 1 = n
    BY <1>1
  <2>2. n - 1 \in DOMAIN d /\ d[n - 1] = ex[n]
    BY <1>1, <2>1
  <2> QED
    BY <2>2
<1>5. ExecsOK(d, os)
  BY <1>3, Zenon DEF OmsOK, ExecsOK
<1>6. 1 \in DOMAIN ex /\ ex[1] = e
  BY <1>1
<1>7. \A id : Alive(id, cm, os, ex) => Alive(id, cm, os, d) \/ (e.id = id /\ e.kind \in Terminal)
  <2> SUFFICES ASSUME NEW id, Alive(id, cm, os, ex), ~Alive(id, cm, os, d)
               PROVE  e.id = id /\ e.kind \in Terminal
    OBVIOUS
  <2>1. PICK n \in DOMAIN ex : ex[n].id = id /\ ex[n].kind \in Terminal
    BY Zenon DEF Alive
  <2>2. n = 1
    BY <1>4, <2>1, Zenon DEF Alive
  <2> QED
    BY <1>6, <2>1, <2>2
<1>8. CASE e.kind \in {"Ack", "Partial"}
  <2>1. up => Awaited(sl, cm, os, d)
    <3>1. e.kind \notin Terminal
      BY <1>8 DEF Terminal
    <3> QED
      BY <1>7, <3>1, Zenon DEF OmsOK, Awaited
  <2>2. OmsOK(sl, nx, cm, os, d, up)
    BY <1>5, <2>1, Zenon DEF OmsOK
  <2>3. OmsOK(t, nx, cm, os, d, up)
    BY <1>2, <1>8, <2>2, StateOnly
  <2> QED
    BY <2>3 DEF t, d, e
<1>9. CASE e.kind \notin {"Ack", "Partial"}
  <2>1. e.kind \in Terminal
    BY <1>1, <1>9 DEF ExecEvent, Terminal
  <2>2. os[e.id].status = "done"
    BY <1>6, <2>1, Zenon DEF OmsOK, ExecsOK
  <2>3. \A i \in Slots : t[i] = IF i \in FindByClient(sl, e.id) THEN NoOrder ELSE sl[i]
    BY <1>2, <1>9
  <2> DEFINE F == {i \in Slots : sl[i].active /\ sl[i].id = e.id}
  <2>4. \A i, j \in F : i = j
    BY Zenon DEF OmsOK, SlotsOK
  <2>5. FindByClient(sl, e.id) = F
    <3>1. \A i \in F : i <= i
      BY NumSlotsAssumption DEF Slots
    <3>2. First(F) = F
      BY <2>4, <3>1 DEF First
    <3> QED
      BY <3>2 DEF FindByClient
  <2>6. \A i \in Slots : t[i].active => sl[i].active /\ t[i] = sl[i] /\ sl[i].id # e.id
    <3>1. ~NoOrder.active
      BY DEF NoOrder
    <3> QED
      BY <2>3, <2>5, <3>1
  <2>7. \A i \in Slots : sl[i].active /\ sl[i].id # e.id => t[i] = sl[i]
    BY <2>3, <2>5
  <2>8. \A id, s, q : id # e.id /\ Holds(sl, id, s, q) => Holds(t, id, s, q)
    BY <2>7, Zenon DEF Holds
  <2>9. SlotsOK(t, nx)
    <3>1. ASSUME NEW i \in Slots, NEW j \in Slots, t[i].active, t[j].active,
                 t[i].id = t[j].id \/ t[i].side = t[j].side
          PROVE  i = j
      BY <2>6, <3>1, Zenon DEF OmsOK, SlotsOK
    <3>2. \A i \in Slots : t[i].active => t[i].id < nx
      BY <2>6, Zenon DEF OmsOK, SlotsOK
    <3> QED
      BY <3>1, <3>2, Zenon DEF SlotsOK
  <2>10. PlacesOK(t, nx, cm, os)
    <3>1. \A n \in DOMAIN cm : cm[n].kind = "Place" => cm[n].id # e.id
      <4>1. "unknown" # "done"
        OBVIOUS
      <4> QED
        BY <2>2, <4>1, Zenon DEF OmsOK, PlacesOK
    <3> QED
      BY <2>8, <3>1, Zenon DEF OmsOK, PlacesOK
  <2>11. OrdersOK(t, nx, os)
    <3>1. e.id \notin OpenIn(os)
      BY <2>2 DEF OpenIn
    <3> QED
      BY <2>8, <3>1, Zenon DEF OmsOK, OrdersOK
  <2>12. up => Awaited(t, cm, os, d)
    <3>1. ASSUME up, NEW i \in Slots, t[i].active PROVE Alive(t[i].id, cm, os, d)
      BY <1>7, <2>6, <3>1, Zenon DEF OmsOK, Awaited
    <3> QED
      BY <3>1, Zenon DEF Awaited
  <2>13. OmsOK(t, nx, cm, os, d, up)
    BY <1>5, <2>9, <2>10, <2>11, <2>12, Zenon DEF OmsOK
  <2> QED
    BY <2>13 DEF t, d, e
<1> QED
  BY <1>8, <1>9
-----------------------------------------------------------------------------
(* The exchange *)

\* Sent and Finish, of a state given by its parts.
SentTo(up, ex, events) == IF up THEN ex \o events ELSE ex
Done(os, S) == [c \in Ids |-> IF c \in S THEN [os[c] EXCEPT !.status = "done"] ELSE os[c]]

\* What is on its way is of orders with an id.
LEMMA InFlightIds ==
  ASSUME NEW cm \in Seq(OrderCommand), NEW ex \in Seq(ExecEvent)
  PROVE  /\ \A n \in DOMAIN cm : cm[n].kind = "Place" =>
              cm[n].id \in Ids /\ cm[n].side \in Sides /\ cm[n].quote \in Quotes
         /\ \A n \in DOMAIN ex : ex[n].id \in Ids
<1>1. \A n \in DOMAIN cm : cm[n] \in OrderCommand
  OBVIOUS
<1>2. \A n \in DOMAIN ex : ex[n] \in ExecEvent
  OBVIOUS
<1> QED
  BY <1>1, <1>2 DEF OrderCommand, ExecEvent

\* What is in the stream afterwards.
LEMMA SentFacts ==
  ASSUME NEW up \in BOOLEAN, NEW ex \in Seq(ExecEvent), NEW events \in Seq(ExecEvent)
  PROVE  /\ SentTo(up, ex, events) \in Seq(ExecEvent)
         /\ \A n \in DOMAIN ex : n \in DOMAIN SentTo(up, ex, events)
                                 /\ SentTo(up, ex, events)[n] = ex[n]
         /\ \A n \in DOMAIN SentTo(up, ex, events) :
              \/ n \in DOMAIN ex /\ SentTo(up, ex, events)[n] = ex[n]
              \/ \E m \in DOMAIN events : SentTo(up, ex, events)[n] = events[m]
         /\ up => \A m \in DOMAIN events :
                    \E n \in DOMAIN SentTo(up, ex, events) : SentTo(up, ex, events)[n] = events[m]
<1> DEFINE s == ex \o events
<1>1. /\ s \in Seq(ExecEvent) /\ Len(s) = Len(ex) + Len(events)
      /\ \A n \in 1 .. Len(s) : s[n] = IF n <= Len(ex) THEN ex[n] ELSE events[n - Len(ex)]
  BY ConcatProperties
<1>2. Len(ex) \in Nat /\ Len(events) \in Nat /\ DOMAIN ex = 1 .. Len(ex)
      /\ DOMAIN events = 1 .. Len(events)
  OBVIOUS
<1>3. DOMAIN s = 1 .. Len(s)
  BY <1>1
<1> HIDE DEF s
<1>4. \A n \in DOMAIN ex : n \in DOMAIN s /\ s[n] = ex[n]
  BY <1>1, <1>2, <1>3
<1>5. \A n \in DOMAIN s : \/ n \in DOMAIN ex /\ s[n] = ex[n]
                          \/ \E m \in DOMAIN events : s[n] = events[m]
  <2> SUFFICES ASSUME NEW n \in DOMAIN s, n \notin DOMAIN ex
               PROVE  \E m \in DOMAIN events : s[n] = events[m]
    BY <1>4
  <2>1. n - Len(ex) \in 1 .. Len(events) /\ ~(n <= Len(ex))
    BY <1>1, <1>2, <1>3
  <2>2. s[n] = events[n - Len(ex)]
    BY <1>1, <1>3, <2>1
  <2> QED
    BY <1>2, <2>1, <2>2
<1>6. \A m \in DOMAIN events : \E n \in DOMAIN s : s[n] = events[m]
  <2> SUFFICES ASSUME NEW m \in DOMAIN events PROVE \E n \in DOMAIN s : s[n] = events[m]
    OBVIOUS
  <2>1. /\ m + Len(ex) \in 1 .. Len(s) /\ ~(m + Len(ex) <= Len(ex))
        /\ (m + Len(ex)) - Len(ex) = m
    BY <1>1, <1>2
  <2>2. s[m + Len(ex)] = events[m]
    BY <1>1, <2>1
  <2> QED
    BY <1>3, <2>1, <2>2
<1>7. CASE up
  <2>1. SentTo(up, ex, events) = s
    BY <1>7 DEF SentTo, s
  <2> QED
    BY <1>1, <1>4, <1>5, <1>6, <2>1, Zenon
<1>8. CASE ~up
  <2>1. SentTo(up, ex, events) = ex
    BY <1>8 DEF SentTo
  <2> QED
    BY <1>8, <2>1, Zenon
<1> QED
  BY <1>7, <1>8

\* The orders in S are done.
LEMMA DoneFacts ==
  ASSUME NEW os \in [Ids -> ExchangeOrder], NEW S \in SUBSET OpenIn(os)
  PROVE  /\ Done(os, S) \in [Ids -> ExchangeOrder]
         /\ \A c \in S : Done(os, S)[c].status = "done"
         /\ \A c \in Ids : c \notin S => Done(os, S)[c] = os[c]
         /\ OpenIn(Done(os, S)) = OpenIn(os) \ S
<1> DEFINE d == Done(os, S)
<1>1. ASSUME NEW c \in S PROVE d[c] \in ExchangeOrder /\ d[c].status = "done"
  <2>1. c \in Ids /\ os[c] \in ExchangeOrder /\ os[c].status \in {"open", "partial"}
    BY DEF OpenIn
  <2>2. os[c] \in [side: Sides, quote: Quotes, status: {"open", "partial", "done"}]
    BY <2>1 DEF ExchangeOrder
  <2>3. d[c] = [os[c] EXCEPT !.status = "done"]
    BY <2>1 DEF Done
  <2> QED
    BY <2>2, <2>3 DEF ExchangeOrder
<1>2. \A c \in Ids : c \notin S => d[c] = os[c]
  BY DEF Done
<1>3. d = [c \in Ids |-> d[c]]
  BY DEF Done
<1> HIDE DEF d
<1>4. d \in [Ids -> ExchangeOrder]
  BY <1>1, <1>2, <1>3
<1>5. OpenIn(d) = OpenIn(os) \ S
  BY <1>1, <1>2 DEF OpenIn
<1> QED
  BY <1>1, <1>2, <1>4, <1>5 DEF d

\* Open orders end, and the stream, if it is up, says so of each of them.
LEMMA FinishKeeps ==
  ASSUME NEW sl, NEW nx, NEW cm \in Seq(OrderCommand),
         NEW os \in [Ids -> ExchangeOrder], NEW ex \in Seq(ExecEvent),
         NEW up \in BOOLEAN, NEW S \in SUBSET OpenIn(os), NEW events \in Seq(ExecEvent),
         \A n \in DOMAIN events : events[n].id \in S /\ events[n].kind \in Terminal,
         \A c \in S : \E n \in DOMAIN events : events[n].id = c,
         OmsOK(sl, nx, cm, os, ex, up)
  PROVE  OmsOK(sl, nx, cm, Done(os, S), SentTo(up, ex, events), up)
<1> DEFINE d == Done(os, S)
           s == SentTo(up, ex, events)
<1>1. /\ \A c \in S : d[c].status = "done" /\ c \in OpenIn(os)
      /\ \A c \in Ids : c \notin S => d[c] = os[c]
      /\ OpenIn(d) = OpenIn(os) \ S
  BY DoneFacts
<1>2. /\ \A n \in DOMAIN ex : n \in DOMAIN s /\ s[n] = ex[n]
      /\ \A n \in DOMAIN s : \/ n \in DOMAIN ex /\ s[n] = ex[n]
                             \/ \E m \in DOMAIN events : s[n] = events[m]
      /\ up => \A m \in DOMAIN events : \E n \in DOMAIN s : s[n] = events[m]
  BY SentFacts, ZenonT(60)
<1> HIDE DEF d, s
<1>3. \A c \in S : c \in Ids /\ os[c].status # "unknown" /\ os[c].status # "done"
  BY DEF OpenIn
<1>4. PlacesOK(sl, nx, cm, d)
  <2>1. ASSUME NEW n \in DOMAIN cm, cm[n].kind = "Place" PROVE d[cm[n].id].status = "unknown"
    <3>1. os[cm[n].id].status = "unknown"
      BY <2>1, Zenon DEF OmsOK, PlacesOK
    <3>2. cm[n].id \notin S
      BY <1>3, <3>1
    <3>3. cm[n].id \in Ids
      BY <2>1, InFlightIds
    <3> QED
      BY <1>1, <3>1, <3>2, <3>3
  <2> QED
    BY <2>1, Zenon DEF OmsOK, PlacesOK
<1>5. OrdersOK(sl, nx, d)
  <2>1. \A c \in Ids : d[c].status # "unknown" => os[c].status # "unknown"
    BY <1>1, <1>3
  <2>2. \A c \in OpenIn(d) : c \in OpenIn(os) /\ d[c] = os[c]
    BY <1>1 DEF OpenIn
  <2> QED
    BY <2>1, <2>2, Zenon DEF OmsOK, OrdersOK
<1>6. ExecsOK(s, d)
  <2>1. ASSUME NEW n \in DOMAIN ex
        PROVE  /\ d[ex[n].id].status # "unknown"
               /\ ex[n].kind \in Terminal => d[ex[n].id].status = "done"
    <3>1. /\ os[ex[n].id].status # "unknown"
          /\ ex[n].kind \in Terminal => os[ex[n].id].status = "done"
      BY Zenon DEF OmsOK, ExecsOK
    <3>2. ex[n].id \in Ids
      BY InFlightIds
    <3>3. CASE ex[n].id \in S
      BY <1>1, <3>3
    <3>4. CASE ex[n].id \notin S
      BY <1>1, <3>1, <3>2, <3>4
    <3> QED
      BY <3>3, <3>4
  <2>2. ASSUME NEW m \in DOMAIN events PROVE d[events[m].id].status = "done"
    BY <1>1
  <2>3. "done" # "unknown"
    OBVIOUS
  <2>4. ASSUME NEW n \in DOMAIN s
        PROVE  /\ d[s[n].id].status # "unknown"
               /\ s[n].kind \in Terminal => d[s[n].id].status = "done"
    <3>1. CASE n \in DOMAIN ex /\ s[n] = ex[n]
      BY <2>1, <3>1, Zenon
    <3>2. CASE \E m \in DOMAIN events : s[n] = events[m]
      BY <2>2, <2>3, <3>2, Zenon
    <3> QED
      BY <1>2, <3>1, <3>2, Zenon
  <2> QED
    BY <2>4, Zenon DEF ExecsOK
<1>7. up => Awaited(sl, cm, d, s)
  <2> SUFFICES ASSUME up, NEW id, Alive(id, cm, os, ex) PROVE Alive(id, cm, d, s)
    BY Zenon DEF OmsOK, Awaited
  <2>1. CASE id \in OpenIn(os) /\ id \notin S
    BY <1>1, <2>1 DEF Alive
  <2>2. CASE id \in S
    <3>1. PICK m \in DOMAIN events : events[m].id = id
      BY <2>2, Zenon
    <3>2. PICK n \in DOMAIN s : s[n] = events[m]
      BY <1>2, Zenon
    <3>3. s[n].id = id /\ s[n].kind \in Terminal
      BY <3>1, <3>2, Zenon
    <3> QED
      BY <3>3, Zenon DEF Alive
  <2>3. CASE id \notin OpenIn(os)
    BY <1>2, <2>3, Zenon DEF Alive
  <2> QED
    BY <2>1, <2>2, <2>3
<1>8. OmsOK(sl, nx, cm, d, s, up)
  BY <1>4, <1>5, <1>6, <1>7, Zenon DEF OmsOK
<1> QED
  BY <1>8 DEF d, s

\* An open order is filled in part.
LEMMA PartialKeeps ==
  ASSUME NEW sl, NEW nx, NEW cm \in Seq(OrderCommand),
         NEW os \in [Ids -> ExchangeOrder], NEW ex \in Seq(ExecEvent),
         NEW up \in BOOLEAN, NEW c \in Ids, os[c].status = "open",
         NEW d, d = [os EXCEPT ![c].status = "partial"],
         NEW s, s = SentTo(up, ex, <<[id |-> c, kind |-> "Partial"]>>),
         OmsOK(sl, nx, cm, os, ex, up)
  PROVE  OmsOK(sl, nx, cm, d, s, up)
<1> DEFINE x == [os[c] EXCEPT !.status = "partial"]
           ev == [id |-> c, kind |-> "Partial"]
           events == <<ev>>
<1>0. s = SentTo(up, ex, events)
  OBVIOUS
<1>1. os[c] \in [side: Sides, quote: Quotes, status: {"open", "partial", "done"}]
  BY DEF ExchangeOrder
<1>2. /\ x \in ExchangeOrder /\ x.status = "partial"
      /\ x.side = os[c].side /\ x.quote = os[c].quote
  BY <1>1, Zenon DEF ExchangeOrder
<1>3. ev \in ExecEvent /\ ev.id = c /\ ev.kind = "Partial"
  BY DEF ExecEvent
<1>4. d = [os EXCEPT ![c] = x]
  OBVIOUS
<1> HIDE DEF x, ev
<1>5. events \in Seq(ExecEvent) /\ \A m \in DOMAIN events : events[m] = ev
  BY <1>3
<1>6. d \in [Ids -> ExchangeOrder] /\ d[c] = x /\ \A b \in Ids : b # c => d[b] = os[b]
  BY <1>2, <1>4
<1> HIDE DEF events
<1>7. /\ \A n \in DOMAIN ex : n \in DOMAIN s /\ s[n] = ex[n]
      /\ \A n \in DOMAIN s : \/ n \in DOMAIN ex /\ s[n] = ex[n]
                             \/ \E m \in DOMAIN events : s[n] = events[m]
  <2> DEFINE r == SentTo(up, ex, events)
  <2>1. /\ \A n \in DOMAIN ex : n \in DOMAIN r /\ r[n] = ex[n]
        /\ \A n \in DOMAIN r : \/ n \in DOMAIN ex /\ r[n] = ex[n]
                               \/ \E m \in DOMAIN events : r[n] = events[m]
    BY <1>5, SentFacts, Zenon
  <2>2. s = r
    BY <1>0
  <2> HIDE DEF r
  <2> QED
    BY <2>1, <2>2, Zenon
<1>8. OpenIn(d) = OpenIn(os)
  BY <1>2, <1>6 DEF OpenIn
<1>9. \A b \in Ids : /\ (d[b].status = "unknown" <=> os[b].status = "unknown")
                     /\ (d[b].status = "done" <=> os[b].status = "done")
                     /\ b \in OpenIn(os) => d[b].side = os[b].side /\ d[b].quote = os[b].quote
  BY <1>2, <1>6
<1>10. PlacesOK(sl, nx, cm, d)
  <2>1. ASSUME NEW n \in DOMAIN cm, cm[n].kind = "Place" PROVE d[cm[n].id].status = "unknown"
    <3>1. os[cm[n].id].status = "unknown"
      BY <2>1, Zenon DEF OmsOK, PlacesOK
    <3>2. cm[n].id \in Ids
      BY <2>1, InFlightIds
    <3> QED
      BY <1>9, <3>1, <3>2, Zenon
  <2> QED
    BY <2>1, Zenon DEF OmsOK, PlacesOK
<1>11. OrdersOK(sl, nx, d)
  <2>1. \A b \in OpenIn(os) : b \in Ids
    BY DEF OpenIn
  <2> QED
    BY <1>8, <1>9, <2>1, Zenon DEF OmsOK, OrdersOK
<1>12. ExecsOK(s, d)
  <2>1. \A n \in DOMAIN ex : ex[n].id \in Ids
    BY InFlightIds
  <2>2. \A n \in DOMAIN ex :
          /\ d[ex[n].id].status # "unknown"
          /\ ex[n].kind \in Terminal => d[ex[n].id].status = "done"
    BY <1>9, <2>1, Zenon DEF OmsOK, ExecsOK
  <2>3. d[ev.id].status # "unknown" /\ ev.kind \notin Terminal
    BY <1>2, <1>3, <1>6 DEF Terminal
  <2> QED
    BY <1>5, <1>7, <2>2, <2>3, Zenon DEF ExecsOK
<1>13. up => Awaited(sl, cm, d, s)
  <2>1. \A id : Alive(id, cm, os, ex) => Alive(id, cm, d, s)
    BY <1>7, <1>8, Zenon DEF Alive
  <2> QED
    BY <2>1, Zenon DEF OmsOK, Awaited
<1>14. OmsOK(sl, nx, cm, d, s, up)
  BY <1>10, <1>11, <1>12, <1>13, Zenon DEF OmsOK
<1> QED
  BY <1>14

\* A place arrives, and is accepted or rejected.
LEMMA PlaceArrives ==
  ASSUME NEW sl, NEW nx, NEW cm \in Seq(OrderCommand),
         NEW os \in [Ids -> ExchangeOrder], NEW ex \in Seq(ExecEvent),
         NEW up \in BOOLEAN, NEW status \in {"open", "done"}, NEW kind,
         kind = IF status = "open" THEN "Ack" ELSE "Rejected",
         cm # << >>, Head(cm).kind = "Place",
         NEW d, d = [os EXCEPT ![Head(cm).id] = [side |-> Head(cm).side, quote |-> Head(cm).quote,
                                                 status |-> status]],
         NEW s, s = SentTo(up, ex, <<[id |-> Head(cm).id, kind |-> kind]>>),
         OmsOK(sl, nx, cm, os, ex, up)
  PROVE  OmsOK(sl, nx, Tail(cm), d, s, up)
<1> DEFINE c  == Head(cm)
           x  == [side |-> c.side, quote |-> c.quote, status |-> status]
           ev == [id |-> c.id, kind |-> kind]
           events == <<ev>>
           q  == Tail(cm)
<1>0. d = [os EXCEPT ![c.id] = x] /\ s = SentTo(up, ex, events)
  OBVIOUS
<1>1. /\ DOMAIN cm = 1 .. Len(cm) /\ Len(cm) \in Nat /\ Len(cm) > 0
      /\ DOMAIN q = 1 .. Len(cm) - 1
      /\ \A n \in 1 .. Len(cm) - 1 : q[n] = cm[n + 1]
      /\ cm[1] = c /\ c.kind = "Place"
  OBVIOUS
<1>2. 1 \in DOMAIN cm /\ c.id \in Ids /\ c.side \in Sides /\ c.quote \in Quotes
  BY <1>1, InFlightIds
<1> HIDE DEF c, q
<1>3. x \in ExchangeOrder /\ x.status = status /\ x.side = c.side /\ x.quote = c.quote
  BY <1>2 DEF ExchangeOrder
<1>4. ev \in ExecEvent /\ ev.id = c.id /\ ev.kind = kind
  BY <1>2 DEF ExecEvent
<1> HIDE DEF x, ev
<1>5. d \in [Ids -> ExchangeOrder] /\ d[c.id] = x /\ \A b \in Ids : b # c.id => d[b] = os[b]
  BY <1>0, <1>2, <1>3, Zenon
<1>6. /\ events \in Seq(ExecEvent) /\ 1 \in DOMAIN events
      /\ \A m \in DOMAIN events : events[m] = ev
  BY <1>4
<1> HIDE DEF events
<1>7. /\ \A n \in DOMAIN ex : n \in DOMAIN s /\ s[n] = ex[n]
      /\ \A n \in DOMAIN s : \/ n \in DOMAIN ex /\ s[n] = ex[n]
                             \/ \E m \in DOMAIN events : s[n] = events[m]
      /\ up => \A m \in DOMAIN events : \E n \in DOMAIN s : s[n] = events[m]
  <2> DEFINE r == SentTo(up, ex, events)
  <2>1. /\ \A n \in DOMAIN ex : n \in DOMAIN r /\ r[n] = ex[n]
        /\ \A n \in DOMAIN r : \/ n \in DOMAIN ex /\ r[n] = ex[n]
                               \/ \E m \in DOMAIN events : r[n] = events[m]
        /\ up => \A m \in DOMAIN events : \E n \in DOMAIN r : r[n] = events[m]
    BY <1>6, SentFacts, Zenon
  <2>2. s = r
    BY <1>0
  <2> HIDE DEF r
  <2> QED
    BY <2>1, <2>2, Zenon
<1>8. \A n \in DOMAIN q : n + 1 \in DOMAIN cm /\ n + 1 # 1 /\ q[n] = cm[n + 1]
  BY <1>1
<1>9. \A n \in DOMAIN cm : n = 1 \/ \E m \in DOMAIN q : q[m] = cm[n]
  <2> SUFFICES ASSUME NEW n \in DOMAIN cm, n # 1 PROVE \E m \in DOMAIN q : q[m] = cm[n]
    OBVIOUS
  <2>1. n - 1 \in 1 .. Len(cm) - 1 /\ (n - 1) + 1 = n
    BY <1>1
  <2>2. n - 1 \in DOMAIN q /\ q[n - 1] = cm[n]
    BY <1>1, <2>1
  <2> QED
    BY <2>2
<1>10. /\ os[c.id].status = "unknown" /\ c.id < nx
       /\ Holds(sl, c.id, c.side, c.quote)
  BY <1>1, <1>2, Zenon DEF OmsOK, PlacesOK
<1>11. PlacesOK(sl, nx, q, d)
  <2>1. ASSUME NEW n \in DOMAIN q, q[n].kind = "Place"
        PROVE  /\ q[n].id < nx /\ d[q[n].id].status = "unknown"
               /\ Holds(sl, q[n].id, q[n].side, q[n].quote)
    <3> DEFINE p == cm[n + 1]
    <3>1. n + 1 \in DOMAIN cm /\ n + 1 # 1 /\ q[n] = p /\ p.kind = "Place"
      BY <1>8, <2>1, Zenon
    <3>2. p.id \in Ids
      BY <3>1, InFlightIds
    <3>3. p.id < nx /\ os[p.id].status = "unknown" /\ Holds(sl, p.id, p.side, p.quote)
      BY <3>1, Zenon DEF OmsOK, PlacesOK
    <3>4. p.id # c.id
      BY <1>1, <1>2, <3>1, Zenon DEF OmsOK, PlacesOK
    <3>5. d[p.id] = os[p.id]
      BY <1>5, <3>2, <3>4
    <3> QED
      BY <3>1, <3>3, <3>5, Zenon
  <2>2. ASSUME NEW m \in DOMAIN q, NEW n \in DOMAIN q,
               q[m].kind = "Place", q[n].kind = "Place", q[m].id = q[n].id
        PROVE  m = n
    <3>1. m + 1 = n + 1
      BY <1>8, <2>2, Zenon DEF OmsOK, PlacesOK
    <3>2. m \in Int /\ n \in Int
      BY <1>1
    <3> QED
      BY <3>1, <3>2
  <2> QED
    BY <2>1, <2>2, Zenon DEF PlacesOK
<1>12. OrdersOK(sl, nx, d)
  <2>1. ASSUME NEW b \in Ids, d[b].status # "unknown" PROVE b < nx
    <3>1. CASE b = c.id
      BY <1>10, <3>1
    <3>2. CASE b # c.id
      BY <1>5, <2>1, <3>2, Zenon DEF OmsOK, OrdersOK
    <3> QED
      BY <3>1, <3>2
  <2>2. ASSUME NEW b \in OpenIn(d) PROVE Holds(sl, b, d[b].side, d[b].quote)
    <3>1. CASE b = c.id
      BY <1>3, <1>5, <1>10, <3>1, Zenon
    <3>2. CASE b # c.id
      <4>1. b \in OpenIn(os) /\ d[b] = os[b]
        BY <1>5, <3>2 DEF OpenIn
      <4> QED
        BY <4>1, Zenon DEF OmsOK, OrdersOK
    <3> QED
      BY <3>1, <3>2
  <2> QED
    BY <2>1, <2>2, Zenon DEF OrdersOK
<1>13. ExecsOK(s, d)
  <2>1. ASSUME NEW n \in DOMAIN ex
        PROVE  /\ d[ex[n].id].status # "unknown"
               /\ ex[n].kind \in Terminal => d[ex[n].id].status = "done"
    <3>1. /\ os[ex[n].id].status # "unknown"
          /\ ex[n].kind \in Terminal => os[ex[n].id].status = "done"
      BY Zenon DEF OmsOK, ExecsOK
    <3>2. ex[n].id \in Ids /\ ex[n].id # c.id
      BY <1>10, <3>1, InFlightIds
    <3> QED
      BY <1>5, <3>1, <3>2
  <2>2. /\ d[ev.id].status # "unknown"
        /\ ev.kind \in Terminal => d[ev.id].status = "done"
    BY <1>3, <1>4, <1>5 DEF Terminal
  <2>4. ASSUME NEW n \in DOMAIN s
        PROVE  /\ d[s[n].id].status # "unknown"
               /\ s[n].kind \in Terminal => d[s[n].id].status = "done"
    <3>1. CASE n \in DOMAIN ex /\ s[n] = ex[n]
      BY <2>1, <3>1, Zenon
    <3>2. CASE \E m \in DOMAIN events : s[n] = events[m]
      BY <1>6, <2>2, <3>2, Zenon
    <3> QED
      BY <1>7, <3>1, <3>2, Zenon
  <2> QED
    BY <2>4, Zenon DEF ExecsOK
<1>14. up => Awaited(sl, q, d, s)
  <2> SUFFICES ASSUME up, NEW id, Alive(id, cm, os, ex) PROVE Alive(id, q, d, s)
    BY Zenon DEF OmsOK, Awaited
  <2>1. CASE id \in OpenIn(os)
    <3>1. id \in OpenIn(d)
      BY <1>5, <1>10, <2>1 DEF OpenIn
    <3> QED
      BY <3>1, Zenon DEF Alive
  <2>2. CASE id = c.id
    <3>1. CASE status = "open"
      <4>1. id \in OpenIn(d)
        BY <1>2, <1>3, <1>5, <2>2, <3>1 DEF OpenIn
      <4> QED
        BY <4>1, Zenon DEF Alive
    <3>2. CASE status = "done"
      <4>1. PICK n \in DOMAIN s : s[n] = ev
        <5>1. \E n \in DOMAIN s : s[n] = events[1]
          BY <1>6, <1>7, Zenon
        <5> QED
          BY <1>6, <5>1, Zenon
      <4>2. s[n].id = id /\ s[n].kind \in Terminal
        BY <1>4, <2>2, <3>2, <4>1, Zenon DEF Terminal
      <4> QED
        BY <4>2, Zenon DEF Alive
    <3> QED
      BY <3>1, <3>2, Zenon
  <2>3. CASE \E n \in DOMAIN cm : cm[n].kind = "Place" /\ cm[n].id = id /\ n # 1
    <3>1. \E m \in DOMAIN q : q[m].kind = "Place" /\ q[m].id = id
      BY <1>9, <2>3, Zenon
    <3> QED
      BY <3>1, Zenon DEF Alive
  <2>4. CASE \E n \in DOMAIN ex : ex[n].id = id /\ ex[n].kind \in Terminal
    <3>1. \E n \in DOMAIN s : s[n].id = id /\ s[n].kind \in Terminal
      BY <1>7, <2>4, ZenonT(60)
    <3> QED
      BY <3>1, Zenon DEF Alive
  <2> QED
    BY <1>1, <2>1, <2>2, <2>3, <2>4, Zenon DEF Alive
<1>15. OmsOK(sl, nx, q, d, s, up)
  BY <1>11, <1>12, <1>13, <1>14, Zenon DEF OmsOK
<1> QED
  BY <1>15 DEF q
-----------------------------------------------------------------------------
(* Snapshots *)

\* How many of the orders in S were sent up to c.
Rank(S, c) == Cardinality({d \in S : d <= c})

\* The ranks number the orders from 1 on, each once.
LEMMA RankFacts ==
  ASSUME NEW S \in SUBSET Ids
  PROVE  /\ IsFiniteSet(S) /\ Cardinality(S) \in Nat
         /\ \A c \in S : Rank(S, c) \in 1 .. Cardinality(S)
         /\ \A b, c \in S : Rank(S, b) = Rank(S, c) => b = c
         /\ \A n \in 1 .. Cardinality(S) : \E c \in S : Rank(S, c) = n
<1> DEFINE N == Cardinality(S)
           U(c) == {d \in S : d <= c}
<1>1. IsFiniteSet(S) /\ N \in Nat /\ S \in SUBSET Int
  <2>1. IsFiniteSet(Ids)
    BY FS_Interval, MaxOrdersAssumption DEF Ids
  <2>2. IsFiniteSet(S)
    BY <2>1, FS_Subset
  <2>3. N \in Nat
    BY <2>2, FS_CardinalityType
  <2>4. S \in SUBSET Int
    BY DEF Ids
  <2> QED
    BY <2>2, <2>3, <2>4
<1>2. ASSUME NEW c \in S
      PROVE  Rank(S, c) \in 1 .. N /\ IsFiniteSet(U(c)) /\ c \in U(c)
  <2>1. c \in U(c)
    BY <1>1
  <2>2. U(c) \in SUBSET S
    OBVIOUS
  <2>3. IsFiniteSet(U(c)) /\ Cardinality(U(c)) <= N
    BY <1>1, <2>2, FS_Subset
  <2>4. Cardinality(U(c)) \in Nat /\ Cardinality(U(c)) # 0
    BY <2>1, <2>3, FS_CardinalityType, FS_EmptySet
  <2>5. Cardinality(U(c)) \in 1 .. N
    BY <1>1, <2>3, <2>4
  <2> QED
    BY <2>1, <2>3, <2>5 DEF Rank
<1>3. ASSUME NEW b \in S, NEW c \in S, b < c PROVE Rank(S, b) # Rank(S, c)
  <2>0. b \in Int /\ c \in Int /\ ~(c <= b) /\ \A d \in S : d \in Int /\ (d <= b => d <= c)
    BY <1>1, <1>3
  <2>1. U(b) \in SUBSET U(c) /\ c \notin U(b) /\ c \in U(c)
    BY <1>2, <2>0, Zenon
  <2>2. Cardinality(U(c)) # Cardinality(U(b))
    BY <1>2, <2>1, FS_Subset
  <2> QED
    BY <2>2 DEF Rank
<1>4. \A b, c \in S : Rank(S, b) = Rank(S, c) => b = c
  BY <1>1, <1>3
<1> DEFINE f == [c \in S |-> Rank(S, c)]
<1>5. f \in Injection(S, 1 .. N)
  BY <1>2, <1>4, Zenon DEF Injection, IsInjective
<1>6. IsFiniteSet(1 .. N) /\ Cardinality(1 .. N) = N
  BY <1>1, FS_Interval
<1>7. f \in Surjection(S, 1 .. N)
  <2> HIDE DEF f
  <2> QED
    BY <1>5, <1>6, FS_Injection
<1>8. \A n \in 1 .. N : \E c \in S : Rank(S, c) = n
  BY <1>7, Zenon DEF Surjection
<1> QED
  BY <1>1, <1>2, <1>4, <1>8, Zenon

\* A snapshot lists the open orders, each once.
LEMMA OpenRowsFacts ==
  ASSUME orders \in [Ids -> ExchangeOrder]
  PROVE  /\ OpenRows \in Seq(OpenOrderRow) /\ Len(OpenRows) = Cardinality(Open)
         /\ IsFiniteSet(Open) /\ Cardinality(Open) \in Nat
         /\ \A n \in 1 .. Cardinality(Open) :
              /\ OpenRows[n].id \in Open
              /\ OpenRows[n].side = orders[OpenRows[n].id].side
              /\ OpenRows[n].quote = orders[OpenRows[n].id].quote
         /\ \A m, n \in 1 .. Cardinality(Open) : OpenRows[m].id = OpenRows[n].id => m = n
         /\ \A c \in Open : \E n \in 1 .. Cardinality(Open) : OpenRows[n].id = c
<1> DEFINE N == Cardinality(Open)
           nth(n) == CHOOSE c \in Open : Rank(Open, c) = n
           row(n) == [id |-> nth(n), side |-> orders[nth(n)].side,
                      quote |-> orders[nth(n)].quote,
                      partial |-> orders[nth(n)].status = "partial"]
<1>1. Open \in SUBSET Ids
  BY DEF Open
<1>2. /\ IsFiniteSet(Open) /\ N \in Nat
      /\ \A c \in Open : Rank(Open, c) \in 1 .. N
      /\ \A b, c \in Open : Rank(Open, b) = Rank(Open, c) => b = c
      /\ \A n \in 1 .. N : \E c \in Open : Rank(Open, c) = n
  BY <1>1, RankFacts
<1>3. \A n \in 1 .. N : nth(n) \in Open /\ Rank(Open, nth(n)) = n
  BY <1>2
<1>4. OpenRows = [n \in 1 .. N |-> row(n)]
  BY Zenon DEF OpenRows, Rank
<1> HIDE DEF nth
<1>5. ASSUME NEW n \in 1 .. N
      PROVE  row(n) \in OpenOrderRow /\ row(n).id = nth(n)
             /\ row(n).side = orders[nth(n)].side /\ row(n).quote = orders[nth(n)].quote
  <2> DEFINE c == nth(n)
  <2>1. c \in Ids /\ orders[c] \in ExchangeOrder /\ orders[c].status \in {"open", "partial"}
    BY <1>3 DEF Open
  <2>2. orders[c].side \in Sides /\ orders[c].quote \in Quotes
    BY <2>1 DEF ExchangeOrder
  <2>3. (orders[c].status = "partial") \in BOOLEAN
    OBVIOUS
  <2> HIDE DEF c
  <2>4. [id |-> c, side |-> orders[c].side, quote |-> orders[c].quote,
         partial |-> orders[c].status = "partial"] \in OpenOrderRow
    BY <2>1, <2>2, <2>3 DEF OpenOrderRow
  <2> QED
    BY <2>4 DEF c
<1> HIDE DEF row
<1>6. OpenRows \in Seq(OpenOrderRow) /\ Len(OpenRows) = N
      /\ \A n \in 1 .. N : OpenRows[n] = row(n)
  BY <1>2, <1>4, <1>5
<1>7. \A n \in 1 .. N : OpenRows[n].id = nth(n)
  BY <1>5, <1>6
<1>8. \A m, n \in 1 .. N : nth(m) = nth(n) => m = n
  BY <1>3
<1>9. \A c \in Open : \E n \in 1 .. N : nth(n) = c
  BY <1>2, <1>3, Zenon
<1> QED
  BY <1>2, <1>3, <1>5, <1>6, <1>7, <1>8, <1>9

\* There are no more than two sides.
LEMMA OnePerSideIsTwo ==
  ASSUME orders \in [Ids -> ExchangeOrder], OneRestingOrderPerSide
  PROVE  Cardinality(Open) <= 2
<1> DEFINE f == [c \in Open |-> orders[c].side]
<1>1. \A c \in Open : orders[c].side \in Sides
  BY DEF Open, ExchangeOrder
<1>2. f \in Injection(Open, Sides)
  BY <1>1 DEF Injection, IsInjective, OneRestingOrderPerSide
<1>3. IsFiniteSet(Sides) /\ Cardinality(Sides) <= 2
  <2>1. IsFiniteSet({"Bid"}) /\ Cardinality({"Bid"}) = 1
    BY FS_Singleton, Zenon
  <2>2. IsFiniteSet({"Bid"} \cup {"Ask"}) /\ Cardinality({"Bid"} \cup {"Ask"}) <= 2
    BY <2>1, FS_AddElement
  <2>3. Sides = {"Bid"} \cup {"Ask"}
    BY DEF Sides
  <2> QED
    BY <2>2, <2>3
<1>4. IsFiniteSet(Open) /\ Cardinality(Open) <= Cardinality(Sides)
  <2> HIDE DEF f
  <2> QED
    BY <1>2, <1>3, FS_Injection
<1>5. Cardinality(Open) \in Nat /\ Cardinality(Sides) \in Nat
  BY <1>3, <1>4, FS_CardinalityType
<1> QED
  BY <1>3, <1>4, <1>5

\* The slots rebuilt from rows have their type.
LEMMA RebuiltFacts ==
  ASSUME NEW rows \in Seq(OpenOrderRow)
  PROVE  /\ Rebuilt(rows) \in [Slots -> Slot]
         /\ \A i \in Slots : Rebuilt(rows)[i].active =>
              /\ i \in 1 .. Len(rows) /\ Rebuilt(rows)[i].id = rows[i].id
              /\ Rebuilt(rows)[i].side = rows[i].side /\ Rebuilt(rows)[i].quote = rows[i].quote
         /\ \A i \in Slots : i <= Len(rows) => Rebuilt(rows)[i].active
<1> DEFINE t == Rebuilt(rows)
           w(i) == [active |-> TRUE, id |-> rows[i].id, side |-> rows[i].side,
                    quote |-> rows[i].quote,
                    state |-> IF rows[i].partial THEN "PartiallyFilled" ELSE "Working"]
<1>1. t = [i \in Slots |-> IF i > Len(rows) THEN NoOrder ELSE w(i)]
  BY Zenon DEF Rebuilt
<1>2. ASSUME NEW i \in 1 .. Len(rows)
      PROVE  /\ w(i) \in WorkingOrder /\ w(i).active = TRUE /\ w(i).id = rows[i].id
             /\ w(i).side = rows[i].side /\ w(i).quote = rows[i].quote
  <2>1. rows[i] \in OpenOrderRow
    OBVIOUS
  <2> QED
    BY <2>1 DEF OpenOrderRow, WorkingOrder
<1> HIDE DEF w, t
<1>3. ~NoOrder.active
  BY DEF NoOrder
<1>4. ASSUME NEW i \in Slots, i > Len(rows) PROVE t[i] = NoOrder
  BY <1>1, <1>4
<1>5. ASSUME NEW i \in Slots, ~(i > Len(rows)) PROVE t[i] = w(i) /\ i \in 1 .. Len(rows)
  BY <1>1, <1>5, NumSlotsAssumption DEF Slots
<1>6. \A i \in Slots : t[i] \in Slot
  BY <1>2, <1>4, <1>5, Zenon DEF Slot
<1>7. t \in [Slots -> Slot]
  BY <1>1, <1>6
<1>8. \A i \in Slots : t[i].active =>
        /\ i \in 1 .. Len(rows) /\ t[i].id = rows[i].id
        /\ t[i].side = rows[i].side /\ t[i].quote = rows[i].quote
  BY <1>2, <1>3, <1>4, <1>5, Zenon
<1>9. ASSUME NEW i \in Slots, i <= Len(rows) PROVE t[i].active
  <2>1. ~(i > Len(rows))
    BY <1>9, NumSlotsAssumption DEF Slots
  <2> QED
    BY <1>2, <1>5, <2>1, Zenon
<1> QED
  BY <1>7, <1>8, <1>9 DEF t

\* The invariants follow from Tracked.
LEMMA TrackedSuffices ==
  ASSUME Tracked
  PROVE  OneRestingOrderPerSide /\ OpenOrdersTracked /\ NoStuckSlot
<1>1. Open = OpenIn(orders)
  BY DEF Open, OpenIn
<1>2. OpenOrdersTracked
  BY <1>1, Zenon DEF Tracked, OmsOK, OrdersOK, Holds, OpenOrdersTracked
<1>3. OneRestingOrderPerSide
  <2> SUFFICES ASSUME NEW c \in Open, NEW d \in Open, orders[c].side = orders[d].side
               PROVE  c = d
    BY DEF OneRestingOrderPerSide
  <2>1. PICK i \in Slots : slots[i].active /\ slots[i].id = c /\ slots[i].side = orders[c].side
    BY <1>2, Zenon DEF OpenOrdersTracked
  <2>2. PICK j \in Slots : slots[j].active /\ slots[j].id = d /\ slots[j].side = orders[d].side
    BY <1>2, Zenon DEF OpenOrdersTracked
  <2>3. slots[i].side = slots[j].side
    BY <2>1, <2>2
  <2>4. i = j
    BY <2>1, <2>2, <2>3, Zenon DEF Tracked, OmsOK, SlotsOK
  <2> QED
    BY <2>1, <2>2, <2>4
<1>4. NoStuckSlot
  BY <1>1, Zenon DEF Tracked, OmsOK, Awaited, Alive, Terminal, NoStuckSlot
<1> QED
  BY <1>2, <1>3, <1>4

\* The slots are rebuilt from a snapshot that misses nothing.
LEMMA ReconcileKeeps ==
  ASSUME orders \in [Ids -> ExchangeOrder], next_client_id \in Int, Tracked,
         commands = << >>, execs = << >>
  PROVE  OmsOK(Rebuilt(OpenRows), next_client_id, commands, orders, execs, TRUE)
<1> DEFINE t == Rebuilt(OpenRows)
           N == Cardinality(Open)
<1>1. OpenIn(orders) = Open /\ Open \in SUBSET Ids
  BY DEF Open, OpenIn
<1>2. /\ OpenRows \in Seq(OpenOrderRow) /\ Len(OpenRows) = N /\ N \in Nat
      /\ \A n \in 1 .. N :
           /\ OpenRows[n].id \in Open
           /\ OpenRows[n].side = orders[OpenRows[n].id].side
           /\ OpenRows[n].quote = orders[OpenRows[n].id].quote
      /\ \A m, n \in 1 .. N : OpenRows[m].id = OpenRows[n].id => m = n
      /\ \A c \in Open : \E n \in 1 .. N : OpenRows[n].id = c
  BY OpenRowsFacts
<1>3. OneRestingOrderPerSide /\ N <= 2
  BY TrackedSuffices, OnePerSideIsTwo
<1>4. /\ \A i \in Slots : t[i].active =>
           /\ i \in 1 .. N /\ t[i].id = OpenRows[i].id
           /\ t[i].side = OpenRows[i].side /\ t[i].quote = OpenRows[i].quote
      /\ \A i \in Slots : i <= N => t[i].active
  <2> HIDE DEF N
  <2>1. /\ \A i \in Slots : t[i].active =>
             /\ i \in 1 .. Len(OpenRows) /\ t[i].id = OpenRows[i].id
             /\ t[i].side = OpenRows[i].side /\ t[i].quote = OpenRows[i].quote
        /\ \A i \in Slots : i <= Len(OpenRows) => t[i].active
    BY <1>2, RebuiltFacts
  <2> QED
    BY <1>2, <2>1
<1>5. \A n \in 1 .. N : n \in Slots /\ n <= N
  BY <1>2, <1>3, NumSlotsAssumption DEF Slots
<1> HIDE DEF t, N
<1>6. \A i \in Slots : t[i].active => t[i].id \in Open /\ t[i].side = orders[t[i].id].side
  BY <1>2, <1>4
<1>7. \A c \in Open : c < next_client_id
  <2>1. \A c \in Open : c \in Ids /\ orders[c].status # "unknown"
    BY DEF Open
  <2> QED
    BY <2>1, Zenon DEF Tracked, OmsOK, OrdersOK
<1>8. SlotsOK(t, next_client_id)
  <2>1. ASSUME NEW i \in Slots, NEW j \in Slots, t[i].active, t[j].active,
               t[i].id = t[j].id \/ t[i].side = t[j].side
        PROVE  i = j
    <3>1. t[i].id = t[j].id
      <4>1. t[i].id \in Open /\ t[j].id \in Open
        BY <1>6, <2>1
      <4>2. t[i].side = t[j].side => orders[t[i].id].side = orders[t[j].id].side
        BY <1>6, <2>1
      <4> QED
        BY <1>3, <2>1, <4>1, <4>2 DEF OneRestingOrderPerSide
    <3> QED
      BY <1>2, <1>4, <2>1, <3>1, ZenonT(60)
  <2>2. \A i \in Slots : t[i].active => t[i].id < next_client_id
    BY <1>6, <1>7, Zenon
  <2> QED
    BY <2>1, <2>2, Zenon DEF SlotsOK
<1>9. DOMAIN commands = {} /\ DOMAIN execs = {}
  OBVIOUS
<1>10. PlacesOK(t, next_client_id, commands, orders) /\ ExecsOK(execs, orders)
  BY <1>9, Zenon DEF PlacesOK, ExecsOK
<1>11. OrdersOK(t, next_client_id, orders)
  <2>1. ASSUME NEW c \in Open PROVE Holds(t, c, orders[c].side, orders[c].quote)
    <3>1. PICK n \in 1 .. N : OpenRows[n].id = c
      BY <1>2, Zenon
    <3>2. n \in Slots /\ t[n].active
      BY <1>4, <1>5, Zenon
    <3>3. t[n].id = c /\ t[n].side = orders[c].side /\ t[n].quote = orders[c].quote
      BY <1>2, <1>4, <3>1, <3>2, Zenon
    <3> QED
      BY <3>2, <3>3, Zenon DEF Holds
  <2> QED
    BY <1>1, <2>1, Zenon DEF Tracked, OmsOK, OrdersOK
<1>12. Awaited(t, commands, orders, execs)
  BY <1>1, <1>6, Zenon DEF Awaited, Alive
<1>13. OmsOK(t, next_client_id, commands, orders, execs, TRUE)
  BY <1>8, <1>10, <1>11, <1>12, Zenon DEF OmsOK
<1> QED
  BY <1>13, Zenon DEF t
-----------------------------------------------------------------------------
(* Every step *)

\* A side uses up one client id at most.
LEMMA WantSideNext ==
  ASSUME NEW o, NEW side, NEW want
  PROVE  WantSide(o, side, want).next \in {o.next, o.next + 1}
<1>1. \A q : EmitPlace(o, side, q).next \in {o.next, o.next + 1}
  BY DEF EmitPlace
<1>2. \A i : EmitCancel(o, i).next = o.next
  BY DEF EmitCancel
<1>3. \/ WantSide(o, side, want) = o
      \/ WantSide(o, side, want) = EmitPlace(o, side, want)
      \/ \E i : WantSide(o, side, want) = EmitCancel(o, i)
  BY Zenon DEF WantSide
<1> QED
  BY <1>1, <1>2, <1>3

\* Reconcile is two batches, one after the other.
LEMMA ReconcileBatches ==
  ASSUME TypeOK, NEW bid \in Quotes \cup {NoQuote}, NEW ask \in Quotes \cup {NoQuote},
         Reconcile(bid, ask)
  PROVE  \E o, p \in Batch :
           /\ o = WantSide([slots |-> slots, next |-> next_client_id, out |-> commands], "Bid", bid)
           /\ p = WantSide(o, "Ask", ask)
           /\ [slots |-> slots, next |-> next_client_id, out |-> commands] \in Batch
           /\ o.next <= MaxOrders + 1 /\ p.next <= MaxOrders + 1
           /\ slots' = p.slots /\ next_client_id' = p.next /\ commands' = p.out
           /\ UNCHANGED exchangeVars
<1> DEFINE now == [slots |-> slots, next |-> next_client_id, out |-> commands]
           o == WantSide(now, "Bid", bid)
           p == WantSide(o, "Ask", ask)
<1>1. /\ p.next <= MaxOrders + 1
      /\ slots' = p.slots /\ next_client_id' = p.next /\ commands' = p.out
      /\ UNCHANGED exchangeVars
  BY Zenon DEF Reconcile
<1>2. now \in Batch
  <2>1. /\ slots \in [Slots -> Slot] /\ commands \in Seq(OrderCommand)
        /\ next_client_id \in Nat \ {0}
    BY MaxOrdersAssumption DEF TypeOK, Slot
  <2> QED
    BY <2>1 DEF Batch
<1>3. "Bid" \in Sides /\ "Ask" \in Sides
  BY DEF Sides
<1> HIDE DEF now
<1>4. o.next \in Nat /\ (o.next <= MaxOrders + 1 => o \in Batch)
  BY <1>2, <1>3, WantSideType, Zenon
<1> HIDE DEF o
<1>5. p.next \in {o.next, o.next + 1}
  BY WantSideNext
<1>6. o.next <= MaxOrders + 1
  BY <1>1, <1>4, <1>5, MaxOrdersAssumption
<1>7. o \in Batch
  BY <1>4, <1>6
<1>8. p \in Batch
  BY <1>1, <1>3, <1>7, WantSideType, Zenon
<1> QED
  BY <1>1, <1>2, <1>6, <1>7, <1>8, Zenon DEF now, o

\* The events of an ExchangeCancelAll.
AllCanceled == [n \in DOMAIN OpenRows |-> [id |-> OpenRows[n].id, kind |-> "Canceled"]]

LEMMA AllCanceledFacts ==
  ASSUME orders \in [Ids -> ExchangeOrder]
  PROVE  /\ AllCanceled \in Seq(ExecEvent)
         /\ \A n \in DOMAIN AllCanceled :
              AllCanceled[n].id \in Open /\ AllCanceled[n].kind \in Terminal
         /\ \A c \in Open : \E n \in DOMAIN AllCanceled : AllCanceled[n].id = c
<1> DEFINE N == Cardinality(Open)
           ev(n) == [id |-> OpenRows[n].id, kind |-> "Canceled"]
<1>1. /\ OpenRows \in Seq(OpenOrderRow) /\ Len(OpenRows) = N /\ N \in Nat
      /\ \A n \in 1 .. N : OpenRows[n].id \in Open
      /\ \A c \in Open : \E n \in 1 .. N : OpenRows[n].id = c
      /\ Open \in SUBSET Ids
  BY OpenRowsFacts DEF Open
<1>2. DOMAIN OpenRows = 1 .. N
  BY <1>1
<1>3. AllCanceled = [n \in 1 .. N |-> ev(n)]
  BY <1>2 DEF AllCanceled
<1>4. \A n \in 1 .. N : ev(n) \in ExecEvent /\ ev(n).id = OpenRows[n].id /\ ev(n).kind \in Terminal
  BY <1>1 DEF ExecEvent, Terminal
<1> HIDE DEF ev, N
<1>5. /\ AllCanceled \in Seq(ExecEvent) /\ DOMAIN AllCanceled = 1 .. N
      /\ \A n \in 1 .. N : AllCanceled[n] = ev(n)
  BY <1>1, <1>3, <1>4
<1> QED
  BY <1>1, <1>4, <1>5

\* Every step keeps the types, late snapshots or not.
LEMMA TypeStep == TypeOK /\ [Next]_vars => TypeOK'
<1> SUFFICES ASSUME TypeOK, [Next]_vars PROVE TypeOK'
  OBVIOUS
<1>0. /\ slots \in [Slots -> Slot] /\ commands \in Seq(OrderCommand) /\ execs \in Seq(ExecEvent)
      /\ orders \in [Ids -> ExchangeOrder] /\ connected \in BOOLEAN
      /\ next_client_id \in 1 .. MaxOrders + 1
      /\ report \in [taken: {TRUE}, rows: Seq(OpenOrderRow)] \cup {NoReport}
  BY Zenon DEF TypeOK, Slot
<1>a. ASSUME NEW events \in Seq(ExecEvent) PROVE Sent(events) \in Seq(ExecEvent)
  BY <1>0, <1>a, ConcatProperties DEF Sent
<1>e. \A e \in ExecEvent : Sent(<<e>>) \in Seq(ExecEvent)
  <2>1. \A e \in ExecEvent : <<e>> \in Seq(ExecEvent)
    OBVIOUS
  <2> QED
    BY <1>a, <2>1, Zenon
<1>b. commands # << >> => Head(commands) \in OrderCommand /\ Tail(commands) \in Seq(OrderCommand)
  BY <1>0
<1>c. Open = OpenIn(orders) /\ \A S : Finish(S) = Done(orders, S)
  BY DEF Open, OpenIn, Finish, Done
<1>d. \A S \in SUBSET Open : Finish(S) \in [Ids -> ExchangeOrder]
  BY <1>0, <1>c, DoneFacts
<1>1. ASSUME NEW bid \in BidQuotes \cup {NoQuote}, NEW ask \in AskQuotes \cup {NoQuote},
             Reconcile(bid, ask)
      PROVE  TypeOK'
  <2>1. bid \in Quotes \cup {NoQuote} /\ ask \in Quotes \cup {NoQuote}
    BY <1>1 DEF Quotes
  <2>2. PICK p \in Batch :
          /\ p.next <= MaxOrders + 1
          /\ slots' = p.slots /\ next_client_id' = p.next /\ commands' = p.out
          /\ UNCHANGED exchangeVars
    BY <1>1, <2>1, ReconcileBatches, Zenon
  <2>3. /\ slots' \in [Slots -> Slot] /\ next_client_id' \in 1 .. MaxOrders + 1
        /\ commands' \in Seq(OrderCommand)
    BY <2>2, MaxOrdersAssumption DEF Batch
  <2> QED
    BY <1>0, <2>2, <2>3, Zenon DEF TypeOK, Slot, exchangeVars
<1>2. CASE CancelAll
  <2> DEFINE S == {i \in Slots : slots[i].active}
             c == [kind |-> "CancelAll"]
  <2>1. SetState(slots, S, "PendingCancel") \in [Slots -> Slot]
    BY <1>0, SetStateFacts
  <2>2. c \in OrderCommand
    BY DEF OrderCommand
  <2>3. Append(commands, c) \in Seq(OrderCommand)
    BY <1>0, <2>2, AppendProperties
  <2> QED
    BY <1>0, <1>2, <2>1, <2>3, Zenon DEF CancelAll, TypeOK, Slot, exchangeVars
<1>3. CASE OnExec
  <2>1. slots' \in [Slots -> Slot]
    BY <1>0, <1>3, AfterExecType DEF OnExec
  <2>2. execs' \in Seq(ExecEvent)
    BY <1>0, <1>3 DEF OnExec
  <2> QED
    BY <1>0, <1>3, <2>1, <2>2, Zenon DEF OnExec, TypeOK, Slot
<1>4. CASE OnReconcile
  <2>1. PICK r \in Deliverable :
          /\ slots' = Rebuilt(r.rows) /\ report' = NoReport /\ connected' = TRUE
          /\ UNCHANGED <<next_client_id, commands, orders, execs>>
    BY <1>4, Zenon DEF OnReconcile
  <2>2. r.rows \in Seq(OpenOrderRow)
    <3>1. CASE r = report /\ r # NoReport
      BY <1>0, <3>1, Zenon
    <3>2. CASE r = [taken |-> TRUE, rows |-> OpenRows]
      BY <1>0, <3>2, OpenRowsFacts
    <3> QED
      BY <2>1, <3>1, <3>2 DEF Deliverable
  <2>3. slots' \in [Slots -> Slot]
    BY <2>1, <2>2, RebuiltFacts
  <2> QED
    BY <1>0, <2>1, <2>3 DEF TypeOK, Slot
<1>5. CASE ExchangePlace
  <2> DEFINE c == Head(commands)
  <2>1. c \in OrderCommand /\ c.kind = "Place"
    BY <1>b, <1>5 DEF ExchangePlace
  <2>2. c.id \in Ids /\ c.side \in Sides /\ c.quote \in Quotes
    BY <2>1 DEF OrderCommand
  <2>3. PICK ok \in BOOLEAN :
          /\ orders' = [orders EXCEPT ![c.id] =
                          [side |-> c.side, quote |-> c.quote,
                           status |-> IF ok THEN "open" ELSE "done"]]
          /\ execs' = Sent(<<[id |-> c.id, kind |-> IF ok THEN "Ack" ELSE "Rejected"]>>)
    BY <1>5, Zenon DEF ExchangePlace
  <2>4. [side |-> c.side, quote |-> c.quote, status |-> IF ok THEN "open" ELSE "done"]
           \in ExchangeOrder
    BY <2>2 DEF ExchangeOrder
  <2>5. orders' \in [Ids -> ExchangeOrder]
    BY <1>0, <2>2, <2>3, <2>4
  <2>6. [id |-> c.id, kind |-> IF ok THEN "Ack" ELSE "Rejected"] \in ExecEvent
    BY <2>2 DEF ExecEvent
  <2>7. execs' \in Seq(ExecEvent)
    BY <1>e, <2>3, <2>6, Zenon
  <2> QED
    BY <1>0, <1>b, <1>5, <2>5, <2>7, Zenon DEF ExchangePlace, TypeOK, Slot
<1>6. CASE ExchangeCancel
  <2> DEFINE c == Head(commands)
             S == {c.id} \cap Open
  <2>1. c \in OrderCommand /\ c.kind = "Cancel" /\ S \in SUBSET Open
    BY <1>b, <1>6 DEF ExchangeCancel
  <2>2. c.id \in Ids
    BY <2>1 DEF OrderCommand
  <2>3. [id |-> c.id, kind |-> "Canceled"] \in ExecEvent
    BY <2>2 DEF ExecEvent
  <2>4. Sent(<<[id |-> c.id, kind |-> "Canceled"]>>) \in Seq(ExecEvent)
    BY <1>e, <2>3, Zenon
  <2>5. orders' = Finish(S)
        /\ (execs' = execs \/ execs' = Sent(<<[id |-> c.id, kind |-> "Canceled"]>>))
    BY <1>6, Zenon DEF ExchangeCancel
  <2>6. orders' \in [Ids -> ExchangeOrder]
    BY <1>d, <2>1, <2>5
  <2>7. execs' \in Seq(ExecEvent)
    BY <1>0, <2>4, <2>5
  <2> QED
    BY <1>0, <1>b, <1>6, <2>6, <2>7, Zenon DEF ExchangeCancel, TypeOK, Slot
<1>7. CASE ExchangeCancelAll
  <2>1. orders' = Finish(Open) /\ execs' = Sent(AllCanceled)
    BY <1>7, Zenon DEF ExchangeCancelAll, AllCanceled
  <2>2. orders' \in [Ids -> ExchangeOrder]
    BY <1>d, <2>1
  <2>3. execs' \in Seq(ExecEvent)
    BY <1>0, <1>a, <2>1, AllCanceledFacts
  <2> QED
    BY <1>0, <1>b, <1>7, <2>2, <2>3, Zenon DEF ExchangeCancelAll, TypeOK, Slot
<1>8. ASSUME NEW c \in Ids, PartialFill(c) PROVE TypeOK'
  <2>1. orders[c] \in [side: Sides, quote: Quotes, status: {"open", "partial", "done"}]
    BY <1>0, <1>8 DEF PartialFill, ExchangeOrder
  <2>2. [orders[c] EXCEPT !.status = "partial"] \in ExchangeOrder
    BY <2>1 DEF ExchangeOrder
  <2>3. orders' = [orders EXCEPT ![c] = [orders[c] EXCEPT !.status = "partial"]]
    BY <1>8 DEF PartialFill
  <2>4. orders' \in [Ids -> ExchangeOrder]
    BY <1>0, <2>2, <2>3
  <2>5. [id |-> c, kind |-> "Partial"] \in ExecEvent
    BY DEF ExecEvent
  <2>6. execs' \in Seq(ExecEvent)
    BY <1>e, <1>8, <2>5, Zenon DEF PartialFill
  <2> QED
    BY <1>0, <1>8, <2>4, <2>6, Zenon DEF PartialFill, TypeOK, Slot
<1>9. ASSUME NEW c \in Ids, NEW kind \in {"Filled", "Expired"}, Terminate(c, kind) PROVE TypeOK'
  <2>1. orders' \in [Ids -> ExchangeOrder]
    BY <1>d, <1>9 DEF Terminate
  <2>2. [id |-> c, kind |-> kind] \in ExecEvent
    BY DEF ExecEvent
  <2>3. execs' \in Seq(ExecEvent)
    BY <1>e, <1>9, <2>2, Zenon DEF Terminate
  <2> QED
    BY <1>0, <1>9, <2>1, <2>3, Zenon DEF Terminate, TypeOK, Slot
<1>10. CASE Disconnect
  <2>1. execs' = << >> /\ connected' = FALSE
    BY <1>10 DEF Disconnect
  <2>2. << >> \in Seq(ExecEvent) /\ FALSE \in BOOLEAN
    OBVIOUS
  <2> QED
    BY <1>0, <1>10, <2>1, <2>2, Zenon DEF Disconnect, TypeOK, Slot
<1>11. CASE TakeReport
  BY <1>0, <1>11, OpenRowsFacts DEF TakeReport, TypeOK
<1>12. CASE UNCHANGED vars
  BY <1>12, Zenon DEF vars, TypeOK
<1> QED
  BY <1>1, <1>2, <1>3, <1>4, <1>5, <1>6, <1>7, <1>8, <1>9, <1>10, <1>11, <1>12 DEF Next, Gateway

\* The empty slots are well formed.
LEMMA TypeInit == Init => TypeOK
BY MaxOrdersAssumption DEF Init, TypeOK, ExchangeOrder

\* The slots hold orders with known ids, and everything in flight is well formed.
THEOREM TypeCorrect == Spec => []TypeOK
BY TypeInit, TypeStep, PTL DEF Spec

\* Without late snapshots, every step keeps track of the orders.
LEMMA TrackedStep ==
  ASSUME ~DelayedReports
  PROVE  TypeOK /\ Tracked /\ [Next]_vars => Tracked'
<1> SUFFICES ASSUME TypeOK, Tracked, [Next]_vars PROVE Tracked'
  OBVIOUS
<1>0. /\ slots \in [Slots -> Slot] /\ commands \in Seq(OrderCommand) /\ execs \in Seq(ExecEvent)
      /\ orders \in [Ids -> ExchangeOrder] /\ connected \in BOOLEAN
      /\ next_client_id \in 1 .. MaxOrders + 1 /\ next_client_id \in Int
  BY MaxOrdersAssumption DEF TypeOK, Slot
<1>a. OmsOK(slots, next_client_id, commands, orders, execs, connected)
  BY DEF Tracked
<1>b. \A events : Sent(events) = SentTo(connected, execs, events)
  BY DEF Sent, SentTo
<1>c. Open = OpenIn(orders) /\ \A S : Finish(S) = Done(orders, S)
  BY DEF Open, OpenIn, Finish, Done
<1> SUFFICES OmsOK(slots', next_client_id', commands', orders', execs', connected')
  BY DEF Tracked
<1>1. ASSUME NEW bid \in BidQuotes \cup {NoQuote}, NEW ask \in AskQuotes \cup {NoQuote},
             Reconcile(bid, ask)
      PROVE  OmsOK(slots', next_client_id', commands', orders', execs', connected')
  <2> DEFINE now == [slots |-> slots, next |-> next_client_id, out |-> commands]
  <2>1. bid \in Quotes \cup {NoQuote} /\ ask \in Quotes \cup {NoQuote}
    BY <1>1 DEF Quotes
  <2>2. PICK o \in Batch, p \in Batch :
          /\ o = WantSide(now, "Bid", bid) /\ p = WantSide(o, "Ask", ask) /\ now \in Batch
          /\ o.next <= MaxOrders + 1 /\ p.next <= MaxOrders + 1
          /\ slots' = p.slots /\ next_client_id' = p.next /\ commands' = p.out
          /\ UNCHANGED exchangeVars
    BY <1>1, <2>1, ReconcileBatches, Zenon
  <2>3. BatchOK(now, orders, execs, connected)
    <3>1. now.slots = slots /\ now.next = next_client_id /\ now.out = commands
      OBVIOUS
    <3> QED
      BY <1>a, <3>1 DEF BatchOK
  <2>4. "Bid" \in Sides /\ "Ask" \in Sides
    BY DEF Sides
  <2> HIDE DEF now
  <2>5. BatchOK(o, orders, execs, connected)
    BY <1>0, <2>1, <2>2, <2>3, <2>4, WantSideKeeps
  <2>6. BatchOK(p, orders, execs, connected)
    BY <1>0, <2>1, <2>2, <2>4, <2>5, WantSideKeeps
  <2> QED
    BY <2>2, <2>6, Zenon DEF BatchOK, exchangeVars
<1>2. CASE CancelAll
  <2> DEFINE S == {i \in Slots : slots[i].active}
             c == [kind |-> "CancelAll"]
             t == SetState(slots, S, "PendingCancel")
  <2>1. \A i \in Slots : SameOrder(t[i], slots[i])
    BY <1>0, SetStateFacts
  <2>2. c.kind # "Place"
    OBVIOUS
  <2>3. /\ slots' = t /\ commands' = Append(commands, c)
        /\ UNCHANGED <<next_client_id, orders, execs, connected>>
    BY <1>2, Zenon DEF CancelAll, exchangeVars
  <2> HIDE DEF t, c
  <2>4. OmsOK(t, next_client_id, commands, orders, execs, connected)
    BY <1>0, <1>a, <2>1, StateOnly
  <2>5. OmsOK(t, next_client_id, Append(commands, c), orders, execs, connected)
    BY <1>0, <2>2, <2>4, AddCommand
  <2> QED
    BY <2>3, <2>5, Zenon
<1>3. CASE OnExec
  <2>1. OmsOK(AfterExec(slots, Head(execs)), next_client_id, commands, orders, Tail(execs), connected)
    BY <1>0, <1>a, <1>3, OnExecKeeps DEF OnExec
  <2> QED
    BY <1>3, <2>1, Zenon DEF OnExec
<1>4. CASE OnReconcile
  <2>1. PICK r \in Deliverable :
          /\ slots' = Rebuilt(r.rows) /\ connected' = TRUE
          /\ UNCHANGED <<next_client_id, commands, orders, execs>>
    BY <1>4, Zenon DEF OnReconcile
  <2>2. commands = << >> /\ execs = << >> /\ r = [taken |-> TRUE, rows |-> OpenRows]
    BY <2>1 DEF Deliverable
  <2>3. r.rows = OpenRows
    BY <2>2
  <2>4. OmsOK(Rebuilt(OpenRows), next_client_id, commands, orders, execs, TRUE)
    BY <1>0, <2>2, ReconcileKeeps, Zenon
  <2> QED
    BY <2>1, <2>3, <2>4, Zenon
<1>5. CASE ExchangePlace
  <2> DEFINE c == Head(commands)
  <2>1. PICK ok \in BOOLEAN :
          /\ orders' = [orders EXCEPT ![c.id] =
                          [side |-> c.side, quote |-> c.quote,
                           status |-> IF ok THEN "open" ELSE "done"]]
          /\ execs' = Sent(<<[id |-> c.id, kind |-> IF ok THEN "Ack" ELSE "Rejected"]>>)
    BY <1>5, Zenon DEF ExchangePlace
  <2> DEFINE status == IF ok THEN "open" ELSE "done"
             kind   == IF ok THEN "Ack" ELSE "Rejected"
  <2>2. status \in {"open", "done"} /\ kind = IF status = "open" THEN "Ack" ELSE "Rejected"
    OBVIOUS
  <2>3. /\ orders' = [orders EXCEPT ![c.id] =
                        [side |-> c.side, quote |-> c.quote, status |-> status]]
        /\ execs' = SentTo(connected, execs, <<[id |-> c.id, kind |-> kind]>>)
    BY <1>b, <2>1
  <2>4. /\ commands # << >> /\ c.kind = "Place"
        /\ commands' = Tail(commands) /\ UNCHANGED <<slots, next_client_id, connected>>
    BY <1>5 DEF ExchangePlace
  <2> HIDE DEF status, kind
  <2>5. OmsOK(slots, next_client_id, Tail(commands), orders', execs', connected)
    BY <1>0, <1>a, <2>2, <2>3, <2>4, PlaceArrives, Zenon
  <2> QED
    BY <2>4, <2>5, Zenon
<1>6. CASE ExchangeCancel
  <2> DEFINE c == Head(commands)
             S == {c.id} \cap Open
             ev == [id |-> c.id, kind |-> "Canceled"]
             events == IF S = {} THEN << >> ELSE <<ev>>
  <2>1. /\ commands # << >> /\ c.kind = "Cancel" /\ commands' = Tail(commands)
        /\ UNCHANGED <<slots, next_client_id, connected>>
        /\ orders' = Finish(S) /\ execs' = IF S = {} THEN execs ELSE Sent(<<ev>>)
    BY <1>6, Zenon DEF ExchangeCancel
  <2>2. S \in SUBSET OpenIn(orders) /\ OpenIn(orders) \in SUBSET Ids
    BY <1>c DEF Open
  <2>3. ev.id = c.id /\ ev.kind \in Terminal /\ (c.id \in Ids => ev \in ExecEvent)
    BY DEF Terminal, ExecEvent
  <2> HIDE DEF ev
  <2>4. CASE S = {}
    <3>1. execs' = execs /\ Done(orders, S) = orders
      BY <1>0, <2>1, <2>4 DEF Done
    <3>2. OmsOK(slots, next_client_id, Tail(commands), orders, execs, connected)
      BY <1>0, <1>a, <2>1, DropCommand
    <3> QED
      BY <1>c, <2>1, <3>1, <3>2, Zenon
  <2>5. CASE S # {}
    <3>1. c.id \in S /\ \A b \in S : b = c.id
      BY <2>5
    <3>2. ev \in ExecEvent
      BY <2>2, <2>3, <3>1
    <3>3. /\ <<ev>> \in Seq(ExecEvent) /\ DOMAIN <<ev>> = {1} /\ <<ev>>[1] = ev
      BY <3>2
    <3>4. \A n \in DOMAIN <<ev>> : <<ev>>[n].id \in S /\ <<ev>>[n].kind \in Terminal
      BY <2>3, <3>1, <3>3
    <3>5. \A b \in S : \E n \in DOMAIN <<ev>> : <<ev>>[n].id = b
      BY <2>3, <3>1, <3>3
    <3> DEFINE es == <<ev>>
    <3> HIDE DEF es, S
    <3>6. OmsOK(slots, next_client_id, commands, Done(orders, S),
                SentTo(connected, execs, es), connected)
      BY <1>0, <1>a, <2>2, <3>3, <3>4, <3>5, FinishKeeps, Zenon DEF es
    <3>7. OmsOK(slots, next_client_id, Tail(commands), Done(orders, S),
                SentTo(connected, execs, es), connected)
      BY <1>0, <2>1, <3>6, DropCommand
    <3>8. orders' = Done(orders, S) /\ execs' = SentTo(connected, execs, es)
      BY <1>b, <1>c, <2>1, <2>5 DEF es
    <3> QED
      BY <2>1, <3>7, <3>8, Zenon
  <2> QED
    BY <2>4, <2>5
<1>7. CASE ExchangeCancelAll
  <2>1. /\ commands # << >> /\ Head(commands).kind = "CancelAll" /\ commands' = Tail(commands)
        /\ UNCHANGED <<slots, next_client_id, connected>>
        /\ orders' = Finish(Open) /\ execs' = Sent(AllCanceled)
    BY <1>7, Zenon DEF ExchangeCancelAll, AllCanceled
  <2>2. orders' = Done(orders, Open) /\ execs' = SentTo(connected, execs, AllCanceled)
    BY <1>b, <1>c, <2>1
  <2>3. OmsOK(slots, next_client_id, Tail(commands), orders, execs, connected)
    BY <1>0, <1>a, <2>1, DropCommand
  <2>4. Tail(commands) \in Seq(OrderCommand)
    BY <1>0, <2>1
  <2>5. OmsOK(slots, next_client_id, Tail(commands), Done(orders, Open),
              SentTo(connected, execs, AllCanceled), connected)
    BY <1>0, <1>c, <2>3, <2>4, AllCanceledFacts, FinishKeeps, Zenon
  <2> QED
    BY <2>1, <2>2, <2>5, Zenon
<1>8. ASSUME NEW c \in Ids, PartialFill(c)
      PROVE  OmsOK(slots', next_client_id', commands', orders', execs', connected')
  <2>1. /\ orders[c].status = "open" /\ orders' = [orders EXCEPT ![c].status = "partial"]
        /\ execs' = SentTo(connected, execs, <<[id |-> c, kind |-> "Partial"]>>)
        /\ UNCHANGED <<slots, next_client_id, commands, connected>>
    BY <1>b, <1>8, Zenon DEF PartialFill
  <2>2. OmsOK(slots, next_client_id, commands, orders', execs', connected)
    BY <1>0, <1>a, <2>1, PartialKeeps, Zenon
  <2> QED
    BY <2>1, <2>2, Zenon
<1>9. ASSUME NEW c \in Ids, NEW kind \in {"Filled", "Expired"}, Terminate(c, kind)
      PROVE  OmsOK(slots', next_client_id', commands', orders', execs', connected')
  <2> DEFINE ev == [id |-> c, kind |-> kind]
             es == <<ev>>
  <2>1. /\ c \in OpenIn(orders) /\ orders' = Done(orders, {c})
        /\ execs' = SentTo(connected, execs, es)
        /\ UNCHANGED <<slots, next_client_id, commands, connected>>
    BY <1>b, <1>c, <1>9, Zenon DEF Terminate
  <2>2. ev \in ExecEvent /\ ev.id = c /\ ev.kind \in Terminal
    BY DEF ExecEvent, Terminal
  <2> HIDE DEF ev
  <2>3. /\ es \in Seq(ExecEvent)
        /\ \A n \in DOMAIN es : es[n].id \in {c} /\ es[n].kind \in Terminal
        /\ \A b \in {c} : \E n \in DOMAIN es : es[n].id = b
    <3>1. es \in Seq(ExecEvent) /\ DOMAIN es = {1} /\ es[1] = ev
      BY <2>2
    <3> HIDE DEF es
    <3> QED
      BY <2>2, <3>1
  <2> HIDE DEF es
  <2>4. {c} \in SUBSET OpenIn(orders)
    BY <2>1
  <2>5. OmsOK(slots, next_client_id, commands, Done(orders, {c}),
              SentTo(connected, execs, es), connected)
    BY <1>0, <1>a, <2>3, <2>4, FinishKeeps
  <2> QED
    BY <2>1, <2>5, Zenon
<1>10. CASE Disconnect
  <2>1. /\ execs' = << >> /\ connected' = FALSE
        /\ UNCHANGED <<slots, next_client_id, commands, orders>>
    BY <1>10 DEF Disconnect
  <2>2. ExecsOK(execs', orders)
    <3>1. DOMAIN execs' = {}
      BY <2>1
    <3> QED
      BY <3>1, Zenon DEF ExecsOK
  <2> QED
    BY <1>a, <2>1, <2>2, Zenon DEF OmsOK
<1>11. CASE TakeReport
  BY <1>11 DEF TakeReport
<1>12. CASE UNCHANGED vars
  BY <1>a, <1>12, Zenon DEF vars
<1> QED
  BY <1>1, <1>2, <1>3, <1>4, <1>5, <1>6, <1>7, <1>8, <1>9, <1>10, <1>11, <1>12 DEF Next, Gateway

\* It holds throughout, from the empty slots on.
LEMMA TrackedInvariance ==
  ASSUME ~DelayedReports
  PROVE  Spec => []Tracked
<1>1. Init => TypeOK /\ Tracked
  <2> SUFFICES ASSUME Init PROVE TypeOK /\ Tracked
    OBVIOUS
  <2>1. TypeOK
    BY TypeInit, Zenon
  <2>2. /\ \A i \in Slots : ~slots[i].active
        /\ DOMAIN commands = {} /\ DOMAIN execs = {}
        /\ \A c \in Ids : orders[c].status = "unknown"
    BY DEF Init, NoOrder
  <2>3. OpenIn(orders) = {}
    BY <2>2 DEF OpenIn
  <2> QED
    BY <2>1, <2>2, <2>3, Zenon DEF Tracked, OmsOK, SlotsOK, PlacesOK, OrdersOK, ExecsOK, Awaited
<1>2. TypeOK /\ Tracked /\ [Next]_vars => TypeOK' /\ Tracked'
  BY TypeStep, TrackedStep
<1> QED
  BY <1>1, <1>2, PTL DEF Spec

\* The exchange never holds two orders of ours on one side, whatever is in flight
\* and whatever reports were lost, if snapshots are not late.
THEOREM AtMostOneResting ==
  ASSUME ~DelayedReports
  PROVE  Spec => []OneRestingOrderPerSide
<1>1. Tracked => OneRestingOrderPerSide
  BY TrackedSuffices
<1> QED
  BY <1>1, TrackedInvariance, PTL

\* Nor does it hold one that no slot knows of, ...
THEOREM OpenAreTracked ==
  ASSUME ~DelayedReports
  PROVE  Spec => []OpenOrdersTracked
<1>1. Tracked => OpenOrdersTracked
  BY TrackedSuffices
<1> QED
  BY <1>1, TrackedInvariance, PTL

\* ... and no slot waits for an order that cannot come up any more.
THEOREM SlotsGetFreed ==
  ASSUME ~DelayedReports
  PROVE  Spec => []NoStuckSlot
<1>1. Tracked => NoStuckSlot
  BY TrackedSuffices
<1> QED
  BY <1>1, TrackedInvariance, PTL
-----------------------------------------------------------------------------
(* TokenBucket: RefillIsExact, for every capacity, every rate and every    *)
(* sequence of calls.                                                      *)

\* What flows in from m, the value of last_ns_, to t.
Inflow(m, t) == IF m = 0 THEN 0 ELSE (t - m) * Refill

BucketTypeOK ==
  /\ tokens \in 0 .. Capacity /\ level \in 0 .. Capacity
  /\ last_ns \in Nat /\ clock \in Nat \ {0}
  /\ granted \in Nat /\ budget \in Nat

\* The inductive invariant.  A call that does nothing but look moves last_ns_ on,
\* so the level must be right at every instant between two calls; and a bucket that
\* was never used is full, which is why it may ignore the time that has passed.
BucketInv ==
  /\ BucketTypeOK
  /\ last_ns <= clock
  /\ last_ns = 0 => tokens = Capacity
  /\ level = Least(Capacity, tokens + Inflow(last_ns, clock))
  /\ granted + level <= budget

\* What flows in is a natural number, and Refill more one instant later.
LEMMA InflowGrows ==
  ASSUME NEW m \in Nat, NEW t \in Nat, m <= t
  PROVE  /\ (t - m) * Refill \in Nat
         /\ (t + 1 - m) * Refill = (t - m) * Refill + Refill
<1> DEFINE d == t - m
<1>1. d \in Nat /\ t + 1 - m = d + 1
  OBVIOUS
<1> HIDE DEF d
<1>2. d * Refill \in Nat
  BY <1>1, RefillAssumption
<1>3. (d + 1) * Refill = d * Refill + Refill
  BY <1>1, RefillAssumption
<1> QED
  BY <1>1, <1>2, <1>3 DEF d

\* The level the code computes is the one the invariant speaks of.
LEMMA AvailableIsInflow ==
  Available(clock) = Least(Capacity, tokens + Inflow(last_ns, clock))
<1>1. CASE last_ns = 0
  BY <1>1, RefillAssumption DEF Available, Inflow
<1>2. CASE last_ns # 0
  BY <1>2 DEF Available, Inflow
<1> QED
  BY <1>1, <1>2

\* Nothing flows in at the instant of a call.
LEMMA NoInflowAtCall ==
  ASSUME NEW t \in Nat
  PROVE  (t - t) * Refill = 0
<1>1. t - t = 0
  OBVIOUS
<1> QED
  BY <1>1, RefillAssumption

\* A level within the capacity is not cut.
LEMMA LeastKeeps ==
  ASSUME NEW x \in 0 .. Capacity, NEW y, y = 0
  PROVE  Least(Capacity, x + y) = x
BY CapacityAssumption DEF Least

\* A new bucket satisfies the invariant.
LEMMA InitEstablishes == BucketInit => BucketInv
BY CapacityAssumption, StartTimeAssumption
   DEF BucketInit, BucketInv, BucketTypeOK, Inflow, Least

\* A call of TryTake, granted or refused, preserves it.
LEMMA TryTakePreserves ==
  ASSUME BucketInv, NEW n \in 1 .. Capacity + 1, TryTake(n)
  PROVE  BucketInv'
<1> DEFINE av == Available(clock)
<1>1. av = level
  BY AvailableIsInflow DEF BucketInv
<1>2. /\ tokens' = IF av >= n THEN av - n ELSE av
      /\ last_ns' = clock /\ clock' = clock /\ budget' = budget
      /\ level' = IF level < n THEN level ELSE level - n
      /\ granted' = IF av >= n THEN granted + n ELSE granted
  BY DEF TryTake
<1> HIDE DEF av
<1>3. BucketTypeOK' /\ tokens' = level' /\ (granted + level <= budget)'
  BY <1>1, <1>2, CapacityAssumption DEF BucketInv, BucketTypeOK
<1>4. Inflow(last_ns', clock') = 0
  <2>1. last_ns' # 0 /\ clock' \in Nat /\ clock' = last_ns'
    BY <1>2 DEF BucketInv, BucketTypeOK
  <2> QED
    BY <2>1, NoInflowAtCall DEF Inflow
<1>5. level' = Least(Capacity, tokens' + Inflow(last_ns', clock'))
  <2>1. tokens' \in 0 .. Capacity
    BY <1>3 DEF BucketTypeOK
  <2>2. Least(Capacity, tokens' + Inflow(last_ns', clock')) = tokens'
    BY <2>1, <1>4, LeastKeeps
  <2> QED
    BY <2>2, <1>3
<1> QED
  BY <1>2, <1>3, <1>5 DEF BucketInv, BucketTypeOK

\* The exchange's correction preserves it.
LEMMA SetUsedPreserves ==
  ASSUME BucketInv, NEW used \in 0 .. Capacity + 1, SetUsed(used)
  PROVE  BucketInv'
<1>1. /\ tokens' \in 0 .. Capacity /\ level' = tokens' /\ budget' = tokens'
      /\ last_ns' = clock /\ clock' = clock /\ granted' = 0
  BY CapacityAssumption DEF SetUsed
<1>2. BucketTypeOK'
  BY <1>1, CapacityAssumption DEF BucketInv, BucketTypeOK
<1>3. Inflow(last_ns', clock') = 0
  <2>1. last_ns' # 0 /\ clock' \in Nat /\ clock' = last_ns'
    BY <1>1 DEF BucketInv, BucketTypeOK
  <2> QED
    BY <2>1, NoInflowAtCall DEF Inflow
<1>4. level' = Least(Capacity, tokens' + Inflow(last_ns', clock'))
  <2>1. Least(Capacity, tokens' + Inflow(last_ns', clock')) = tokens'
    BY <1>1, <1>3, LeastKeeps
  <2> QED
    BY <2>1, <1>1
<1> QED
  BY <1>1, <1>2, <1>4 DEF BucketInv, BucketTypeOK

\* The passing of time preserves it: capping at every instant is capping once.
LEMMA ElapsePreserves ==
  ASSUME BucketInv, Elapse
  PROVE  BucketInv'
<1>1. /\ clock' = clock + 1 /\ budget' = budget + Refill
      /\ level' = Least(Capacity, level + Refill)
      /\ tokens' = tokens /\ last_ns' = last_ns /\ granted' = granted
  BY DEF Elapse
<1>2. BucketTypeOK'
  BY <1>1, CapacityAssumption, RefillAssumption DEF BucketInv, BucketTypeOK, Least
<1>3. level' = Least(Capacity, tokens' + Inflow(last_ns', clock'))
  <2>1. CASE last_ns = 0
    BY <1>1, <2>1, CapacityAssumption, RefillAssumption
       DEF BucketInv, BucketTypeOK, Inflow, Least
  <2>2. CASE last_ns # 0
    <3> DEFINE f == (clock - last_ns) * Refill
    <3>1. f \in Nat /\ (clock + 1 - last_ns) * Refill = f + Refill
      BY InflowGrows DEF BucketInv, BucketTypeOK
    <3>2. Inflow(last_ns, clock) = f
      BY <2>2 DEF Inflow
    <3>3. Inflow(last_ns', clock') = f + Refill
      <4>1. Inflow(last_ns', clock') = (clock' - last_ns') * Refill
        BY <1>1, <2>2 DEF Inflow
      <4>2. clock' - last_ns' = clock + 1 - last_ns
        BY <1>1 DEF BucketInv, BucketTypeOK
      <4> QED
        BY <4>1, <4>2, <3>1
    <3> HIDE DEF f
    <3> QED
      BY <1>1, <3>1, <3>2, <3>3, CapacityAssumption, RefillAssumption
         DEF BucketInv, BucketTypeOK, Least
  <2> QED
    BY <2>1, <2>2
<1> QED
  BY <1>1, <1>2, <1>3, CapacityAssumption, RefillAssumption
     DEF BucketInv, BucketTypeOK, Least

\* Lazy refilling is exact and the bucket never grants more than its budget, for
\* every capacity and rate of the TokenBucket.
THEOREM LazyRefillExact == BucketSpec => []RefillIsExact
<1>1. BucketInv /\ [BucketNext]_bucketVars => BucketInv'
  <2> SUFFICES ASSUME BucketInv, [BucketNext]_bucketVars
               PROVE  BucketInv'
    OBVIOUS
  <2>1. CASE \E n \in 1 .. Capacity + 1 : TryTake(n)
    BY <2>1, TryTakePreserves
  <2>2. CASE \E used \in 0 .. Capacity + 1 : SetUsed(used)
    BY <2>2, SetUsedPreserves
  <2>3. CASE Elapse
    BY <2>3, ElapsePreserves
  <2>4. CASE UNCHANGED bucketVars
    BY <2>4 DEF bucketVars, BucketInv, BucketTypeOK, Inflow
  <2> QED
    BY <2>1, <2>2, <2>3, <2>4 DEF BucketNext
<1>2. BucketInv => RefillIsExact
  BY AvailableIsInflow DEF BucketInv, RefillIsExact
<1> QED
  BY InitEstablishes, <1>1, <1>2, PTL DEF BucketSpec
=============================================================================
