------------------------------ MODULE PaperBook -----------------------------
(***************************************************************************)
(* Simulated fills: the resting paper quotes, the inventory and the cash   *)
(* of src/strategy/paper_fills.cpp, as operators on a record               *)
(*   [bid, ask: [px, qty, active], q: q_lots_, cash: cash_units_].         *)
(* A market is the top of the book: [bb, bbq, ba, baq], the best bid and   *)
(* the best ask with their sizes.                                          *)
(***************************************************************************)
EXTENDS Integers

CONSTANT FeeBps   \* maker_fee_bps

ASSUME FeeBpsAssumption == FeeBps \in Nat

NoPaperQuote == [px |-> 0, qty |-> 0, active |-> FALSE]

PaperInit == [bid |-> NoPaperQuote, ask |-> NoPaperQuote, q |-> 0, cash |-> 0]

\* FeeUnits, rounded up.  FeeMutant is a rebate.
FeeMutant(px, qty) == -(((px * qty) * FeeBps + 9999) \div 10000)
FeeUnits(px, qty) == ((px * qty) * FeeBps + 9999) \div 10000

PullQuotes(p) == [p EXCEPT !.bid.active = FALSE, !.ask.active = FALSE]

SetQuotes(p, b, a) == [p EXCEPT !.bid = b, !.ask = a]

\* std::min
MinOf(a, b) == IF a <= b THEN a ELSE b

\* A quote after fill lots of it were executed.
Reduced(quote, fill) ==
  [px |-> quote.px, qty |-> quote.qty - fill, active |-> quote.qty # fill]

\* Our bid is hit when the best ask reaches it.
BidHit(p, m) == p.bid.active /\ p.bid.qty > 0 /\ m.ba <= p.bid.px

\* Our ask is hit when the best bid reaches it.
AskHit(p, m) == p.ask.active /\ p.ask.qty > 0 /\ m.bb >= p.ask.px

FillBid(p, m) ==
  LET fill == MinOf(p.bid.qty, m.baq)
  IN  IF ~BidHit(p, m) THEN p
      ELSE [bid  |-> Reduced(p.bid, fill),
            ask  |-> p.ask,
            q    |-> p.q + fill,
            cash |-> p.cash - p.bid.px * fill - FeeUnits(p.bid.px, fill)]

FillAsk(p, m) ==
  LET fill == MinOf(p.ask.qty, m.bbq)
  IN  IF ~AskHit(p, m) THEN p
      ELSE [bid  |-> p.bid,
            ask  |-> Reduced(p.ask, fill),
            q    |-> p.q - fill,
            cash |-> p.cash + p.ask.px * fill - FeeUnits(p.ask.px, fill)]

\* SimulateFills: the bid first, then the ask.
SimulateFills(p, m) == FillAsk(FillBid(p, m), m)
=============================================================================
