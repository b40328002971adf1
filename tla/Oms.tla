--------------------------------- MODULE Oms --------------------------------
(***************************************************************************)
(* The order state machine of src/engine/oms.cpp, between the strategy     *)
(* that gives it desired quotes and an exchange that executes its orders.  *)
(*                                                                         *)
(* The exchange side is external, modelled from the messages the OMS       *)
(* handles: commands reach it in order (queue C), execution reports come   *)
(* back in order on the user-data stream, which can break and lose them,   *)
(* and a snapshot of the open orders (a ReconcileReport) comes back on     *)
(* (re)connect and periodically.  DelayedReports says whether anything can *)
(* happen between the taking of a snapshot and its delivery.               *)
(*                                                                         *)
(* A quote stands for a price and a size, which the OMS only compares      *)
(* together.  An inactive slot is NoOrder: its other fields are never read.*)
(***************************************************************************)
EXTENDS Integers, Sequences, FiniteSets

CONSTANTS BidQuotes,       \* the (px, qty) pairs the strategy wants
          AskQuotes,
          NumSlots,        \* kSlots
          MaxOrders,       \* bound on client ids
          MaxCommands,     \* bound on commands in flight
          DelayedReports

NoQuote == "none"          \* px = 0: no quote wanted on a side
Quotes == BidQuotes \cup AskQuotes

ASSUME QuotesAssumption == NoQuote \notin Quotes
ASSUME NumSlotsAssumption == NumSlots \in Nat \ {0, 1}
ASSUME MaxOrdersAssumption == MaxOrders \in Nat
ASSUME MaxCommandsAssumption == MaxCommands \in Nat
ASSUME DelayedReportsAssumption == DelayedReports \in BOOLEAN

Sides == {"Bid", "Ask"}
Ids == 1 .. MaxOrders
Slots == 1 .. NumSlots

VARIABLES slots,           \* slots_
          next_client_id,
          commands,        \* queue C
          orders,          \* exchange: every order by client id
          execs,           \* the user-data stream
          connected,       \* is the stream up?
          report           \* a ReconcileReport in flight, or NoReport

vars == <<slots, next_client_id, commands, orders, execs, connected, report>>
exchangeVars == <<orders, execs, connected, report>>

NoOrder == [active |-> FALSE]
WorkingOrder ==
  [active: {TRUE}, id: Ids, side: Sides, quote: Quotes,
   state: {"PendingNew", "Working", "PartiallyFilled", "PendingCancel"}]
OrderCommand ==
  [kind: {"Place"}, id: Ids, side: Sides, quote: Quotes]
    \cup [kind: {"Cancel"}, id: Ids] \cup [kind: {"CancelAll"}]
ExchangeOrder ==
  [side: Sides, quote: Quotes, status: {"open", "partial", "done"}]
    \cup [status: {"unknown"}]
ExecEvent ==
  [id: Ids, kind: {"Ack", "Partial", "Filled", "Canceled", "Rejected", "Expired"}]
OpenOrderRow == [id: Ids, side: Sides, quote: Quotes, partial: BOOLEAN]
NoReport == [taken |-> FALSE]

\* The slots hold orders with known ids; everything in flight is well formed.
TypeOK ==
  /\ slots \in [Slots -> WorkingOrder \cup {NoOrder}]
  /\ next_client_id \in 1 .. MaxOrders + 1
  /\ commands \in Seq(OrderCommand)
  /\ orders \in [Ids -> ExchangeOrder]
  /\ execs \in Seq(ExecEvent)
  /\ connected \in BOOLEAN
  /\ report \in [taken: {TRUE}, rows: Seq(OpenOrderRow)] \cup {NoReport}

Init ==
  /\ slots = [i \in Slots |-> NoOrder]
  /\ next_client_id = 1
  /\ commands = << >>
  /\ orders = [c \in Ids |-> [status |-> "unknown"]]
  /\ execs = << >>
  /\ connected = TRUE
  /\ report = NoReport
-----------------------------------------------------------------------------
(* The slots *)

\* The first slot in S, as a set of at most one.
First(S) == {i \in S : \A j \in S : i <= j}

\* SideSlot, FindByClient and FreeSlot.
SideSlot(sl, side) == First({i \in Slots : sl[i].active /\ sl[i].side = side})
FindByClient(sl, id) == First({i \in Slots : sl[i].active /\ sl[i].id = id})
FreeSlot(sl) == First({i \in Slots : ~sl[i].active})

\* The slots after the state of those in S is set.
SetState(sl, S, state) ==
  [i \in Slots |-> IF i \in S THEN [sl[i] EXCEPT !.state = state] ELSE sl[i]]
-----------------------------------------------------------------------------
(* Reconcile *)

\* A place or a cancel of a side: the slots, the next client id and the
\* commands after it.  EmitPlaceMutant increments the client id first.
EmitPlaceMutant(o, side, quote) ==
  IF FreeSlot(o.slots) = {} THEN o
  ELSE [slots |-> [i \in Slots |->
                     IF i \in FreeSlot(o.slots)
                     THEN [active |-> TRUE, id |-> o.next + 1, side |-> side,
                           quote |-> quote, state |-> "PendingNew"]
                     ELSE o.slots[i]],
        next  |-> o.next + 1,
        out   |-> Append(o.out, [kind |-> "Place", id |-> o.next + 1,
                                 side |-> side, quote |-> quote])]

EmitPlace(o, side, quote) ==
  IF FreeSlot(o.slots) = {} THEN o
  ELSE [slots |-> [i \in Slots |->
                     IF i \in FreeSlot(o.slots)
                     THEN [active |-> TRUE, id |-> o.next, side |-> side,
                           quote |-> quote, state |-> "PendingNew"]
                     ELSE o.slots[i]],
        next  |-> o.next + 1,
        out   |-> Append(o.out, [kind |-> "Place", id |-> o.next,
                                 side |-> side, quote |-> quote])]

EmitCancel(o, i) ==
  [slots |-> SetState(o.slots, {i}, "PendingCancel"),
   next  |-> o.next,
   out   |-> Append(o.out, [kind |-> "Cancel", id |-> o.slots[i].id])]

\* One side of Reconcile.  A side with an order never places another one.
\* WantSideMutant places the new order before it cancels the old one.
WantSideMutant(o, side, want) ==
  LET cur == SideSlot(o.slots, side)
  IN  IF cur = {}
      THEN IF want = NoQuote THEN o ELSE EmitPlace(o, side, want)
      ELSE LET i == CHOOSE i \in cur : TRUE
           IN  IF o.slots[i].state = "PendingCancel" \/ o.slots[i].quote = want THEN o
               ELSE IF want = NoQuote THEN EmitCancel(o, i)
               ELSE EmitCancel(EmitPlace(o, side, want), i)

WantSide(o, side, want) ==
  LET cur == SideSlot(o.slots, side)
  IN  IF cur = {}
      THEN IF want = NoQuote THEN o ELSE EmitPlace(o, side, want)
      ELSE LET i == CHOOSE i \in cur : TRUE
           IN  IF o.slots[i].state = "PendingCancel" \/ o.slots[i].quote = want THEN o
               ELSE EmitCancel(o, i)

Reconcile(bid, ask) ==
  LET now == [slots |-> slots, next |-> next_client_id, out |-> commands]
      o   == WantSide(WantSide(now, "Bid", bid), "Ask", ask)
  IN  /\ o.next <= MaxOrders + 1 /\ Len(o.out) <= MaxCommands
      /\ slots' = o.slots /\ next_client_id' = o.next /\ commands' = o.out
      /\ UNCHANGED <<exchangeVars>>

CancelAll ==
  /\ Len(commands) < MaxCommands
  /\ commands' = Append(commands, [kind |-> "CancelAll"])
  /\ slots' = SetState(slots, {i \in Slots : slots[i].active}, "PendingCancel")
  /\ UNCHANGED <<next_client_id, exchangeVars>>

-----------------------------------------------------------------------------
(* OnExec and OnReconcile *)

\* The slots after an execution report.  AfterExecMutant frees the slot on a
\* partial fill; AfterExecMutant2 keeps it when the order expires.
AfterExecMutant(sl, e) ==
  LET S == FindByClient(sl, e.id)
  IN  IF e.kind = "Ack" THEN SetState(sl, S, "Working")
      ELSE [i \in Slots |-> IF i \in S THEN NoOrder ELSE sl[i]]

AfterExecMutant2(sl, e) ==
  LET S == FindByClient(sl, e.id)
  IN  CASE e.kind = "Ack"     -> SetState(sl, S, "Working")
        [] e.kind = "Partial" -> SetState(sl, S, "PartiallyFilled")
        [] e.kind = "Expired" -> sl
        [] OTHER -> [i \in Slots |-> IF i \in S THEN NoOrder ELSE sl[i]]

AfterExec(sl, e) ==
  LET S == FindByClient(sl, e.id)
  IN  CASE e.kind = "Ack"     -> SetState(sl, S, "Working")
        [] e.kind = "Partial" -> SetState(sl, S, "PartiallyFilled")
        [] OTHER -> [i \in Slots |-> IF i \in S THEN NoOrder ELSE sl[i]]

OnExec ==
  /\ execs # << >>
  /\ slots' = AfterExec(slots, Head(execs))
  /\ execs' = Tail(execs)
  /\ UNCHANGED <<next_client_id, commands, orders, connected, report>>

\* The slots rebuilt from a report, one per row until they run out.
\* RebuiltMutant skips the first row.
RebuiltMutant(rows) ==
  [i \in Slots |->
     IF i >= Len(rows) THEN NoOrder
     ELSE [active |-> TRUE, id |-> rows[i + 1].id, side |-> rows[i + 1].side,
           quote |-> rows[i + 1].quote,
           state |-> IF rows[i + 1].partial THEN "PartiallyFilled" ELSE "Working"]]

Rebuilt(rows) ==
  [i \in Slots |->
     IF i > Len(rows) THEN NoOrder
     ELSE [active |-> TRUE, id |-> rows[i].id, side |-> rows[i].side,
           quote |-> rows[i].quote,
           state |-> IF rows[i].partial THEN "PartiallyFilled" ELSE "Working"]]
-----------------------------------------------------------------------------
(* The exchange, the gateway and the user-data stream (external). *)

Open == {c \in Ids : orders[c].status \in {"open", "partial"}}

\* A list of the open orders, oldest first.
OpenRows ==
  LET nth(n) == CHOOSE c \in Open : Cardinality({d \in Open : d <= c}) = n
  IN  [n \in 1 .. Cardinality(Open) |->
         [id |-> nth(n), side |-> orders[nth(n)].side, quote |-> orders[nth(n)].quote,
          partial |-> orders[nth(n)].status = "partial"]]

\* The stream with more reports, which are lost while it is down.
Sent(events) == IF connected THEN execs \o events ELSE execs

Finish(S) == [c \in Ids |-> IF c \in S THEN [orders[c] EXCEPT !.status = "done"] ELSE orders[c]]

\* The exchange accepts or rejects the next place.
ExchangePlace ==
  /\ commands # << >> /\ Head(commands).kind = "Place"
  /\ commands' = Tail(commands)
  /\ LET c == Head(commands)
     IN  \E ok \in BOOLEAN :
           /\ orders' = [orders EXCEPT ![c.id] =
                           [side |-> c.side, quote |-> c.quote,
                            status |-> IF ok THEN "open" ELSE "done"]]
           /\ execs' = Sent(<<[id |-> c.id, kind |-> IF ok THEN "Ack" ELSE "Rejected"]>>)
  /\ UNCHANGED <<slots, next_client_id, connected, report>>

\* A cancel of an open order is confirmed; any other is refused without a report.
ExchangeCancel ==
  /\ commands # << >> /\ Head(commands).kind = "Cancel"
  /\ commands' = Tail(commands)
  /\ LET S == {Head(commands).id} \cap Open
     IN  /\ orders' = Finish(S)
         /\ execs' = IF S = {} THEN execs
                     ELSE Sent(<<[id |-> Head(commands).id, kind |-> "Canceled"]>>)
  /\ UNCHANGED <<slots, next_client_id, connected, report>>

ExchangeCancelAll ==
  /\ commands # << >> /\ Head(commands).kind = "CancelAll"
  /\ commands' = Tail(commands)
  /\ orders' = Finish(Open)
  /\ execs' = Sent([n \in DOMAIN OpenRows |-> [id |-> OpenRows[n].id, kind |-> "Canceled"]])
  /\ UNCHANGED <<slots, next_client_id, connected, report>>

PartialFill(c) ==
  /\ orders[c].status = "open"
  /\ orders' = [orders EXCEPT ![c].status = "partial"]
  /\ execs' = Sent(<<[id |-> c, kind |-> "Partial"]>>)
  /\ UNCHANGED <<slots, next_client_id, commands, connected, report>>

Terminate(c, kind) ==
  /\ c \in Open
  /\ orders' = Finish({c})
  /\ execs' = Sent(<<[id |-> c, kind |-> kind]>>)
  /\ UNCHANGED <<slots, next_client_id, commands, connected, report>>

\* The user-data stream breaks; reports that were not delivered are lost.
Disconnect ==
  /\ connected
  /\ connected' = FALSE /\ execs' = << >>
  /\ UNCHANGED <<slots, next_client_id, commands, orders, report>>

\* The gateway takes a snapshot of the open orders.  It comes back later.
TakeReport ==
  /\ DelayedReports /\ report = NoReport
  /\ report' = [taken |-> TRUE, rows |-> OpenRows]
  /\ UNCHANGED <<slots, next_client_id, commands, orders, execs, connected>>

\* The snapshots that can be delivered now: the one in flight or, if nothing
\* intervenes between taking and delivery, one taken when all else has arrived.
Deliverable ==
  IF DelayedReports THEN {report} \ {NoReport}
  ELSE IF commands = << >> /\ execs = << >> THEN {[taken |-> TRUE, rows |-> OpenRows]}
  ELSE {}

\* OnReconcile; the stream is up again.
OnReconcile ==
  \E r \in Deliverable :
    /\ slots' = Rebuilt(r.rows)
    /\ report' = NoReport /\ connected' = TRUE
    /\ UNCHANGED <<next_client_id, commands, orders, execs>>
-----------------------------------------------------------------------------
Gateway == ExchangePlace \/ ExchangeCancel \/ ExchangeCancelAll
Next ==
  \/ \E bid \in BidQuotes \cup {NoQuote}, ask \in AskQuotes \cup {NoQuote} : Reconcile(bid, ask)
  \/ CancelAll
  \/ OnExec \/ OnReconcile
  \/ Gateway
  \/ \E c \in Ids : PartialFill(c)
  \/ \E c \in Ids, kind \in {"Filled", "Expired"} : Terminate(c, kind)
  \/ Disconnect \/ TakeReport

Spec == Init /\ [][Next]_vars

\* The gateway drains queue C, the engine drains the stream, reports are taken
\* and delivered again and again, and the strategy keeps coming back to wanting
\* no quotes (the case the liveness property is about).
Fairness ==
  /\ WF_vars(Gateway) /\ WF_vars(OnExec)
  /\ WF_vars(TakeReport) /\ WF_vars(OnReconcile)
  /\ SF_vars(Reconcile(NoQuote, NoQuote))

FairSpec == Spec /\ Fairness
-----------------------------------------------------------------------------
(* Properties *)

\* At most one resting order per side: the exchange never holds two, whatever
\* is in flight and whatever reports were lost (oms.hpp: "at most one resting
\* order per side").
OneRestingOrderPerSide ==
  \A c, d \in Open : orders[c].side = orders[d].side => c = d

\* Every order open at the exchange is in a slot with its side and quote, so
\* the next Reconcile can cancel it.
OpenOrdersTracked ==
  \A c \in Open : \E i \in Slots :
    slots[i].active /\ slots[i].id = c
      /\ slots[i].side = orders[c].side /\ slots[i].quote = orders[c].quote

\* An order that a slot waits for exists: it is on its way to the exchange, it
\* is open there, or the report that will free the slot is on its way.
NoStuckSlot ==
  connected =>
    \A i \in Slots : slots[i].active =>
      \/ slots[i].id \in Open
      \/ \E n \in DOMAIN commands :
           commands[n].kind = "Place" /\ commands[n].id = slots[i].id
      \/ \E n \in DOMAIN execs :
           execs[n].id = slots[i].id
             /\ execs[n].kind \in {"Filled", "Canceled", "Rejected", "Expired"}

\* Under a strategy that keeps wanting no quotes, the exchange is again and
\* again without open orders of ours: no order rests forever, in spite of lost
\* execution reports and late snapshots.
AgainAndAgainFlat == []<>(Open = {})
=============================================================================
