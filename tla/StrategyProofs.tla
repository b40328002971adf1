--------------------------- MODULE StrategyProofs ---------------------------
(***************************************************************************)
(* Proofs about the paper strategy, for every quote size, inventory limit, *)
(* hysteresis and market.                                                  *)
(*                                                                         *)
(* InventoryBounded is not inductive: that the inventory is below a bound  *)
(* does not say how much a resting quote can still add.  HeldBack does: a  *)
(* bid rests only while the inventory is under the limit, because every    *)
(* tick replaces or pulls the quotes after the fills have been booked.     *)
(*                                                                         *)
(* The two action properties are about one step each and follow from the   *)
(* same invariant: no volatility sample is taken across a resync, and no   *)
(* simulated fill books a profit at the moment it happens.                 *)
(***************************************************************************)
EXTENDS Strategy, TLAPS

\* A resting quote was decided on with the present inventory.
HeldBack ==
  /\ paper.bid.active => paper.q < QMax
  /\ paper.ask.active => paper.q > -QMax

IInv == TypeOK /\ InventoryBounded /\ HeldBack /\ RestingQuotesPostOnly

Papers == [bid: PaperQuotes, ask: PaperQuotes, q: Int, cash: Int]

USE FeeBpsAssumption, MaxPriceAssumption, SizesAssumption, MaxTimeAssumption,
    MaxFillsAssumption, QMaxAssumption, QuoteSizeAssumption, HysteresisAssumption,
    MinSamplesAssumption, MinNotionalAssumption

\* A fee is a whole number of cash units.
LEMMA FeeType == ASSUME NEW px \in Int, NEW qty \in Int PROVE FeeUnits(px, qty) \in Int
<1>1. (px * qty) * FeeBps + 9999 \in Int
  OBVIOUS
<1> QED BY <1>1 DEF FeeUnits

\* A fill of the bid takes no more than the quote and leaves the ask alone.
LEMMA FillBidFacts ==
  ASSUME NEW p \in Papers, NEW m \in Markets
  PROVE  /\ FillBid(p, m) \in Papers
         /\ FillBid(p, m).ask = p.ask
         /\ FillBid(p, m).q >= p.q
         /\ p.bid.active => FillBid(p, m).q <= p.q + QuoteSize
         /\ ~p.bid.active => FillBid(p, m).q = p.q
<1> DEFINE fill == MinOf(p.bid.qty, m.baq)
<1>1. /\ p.bid \in PaperQuotes /\ p.ask \in PaperQuotes /\ p.q \in Int /\ p.cash \in Int
      /\ p.bid.px \in Int /\ p.bid.qty \in 0 .. QuoteSize
      /\ m.baq \in Nat \ {0} /\ m.ba \in Int
  <2>1. p.bid \in PaperQuotes /\ p.ask \in PaperQuotes /\ p.q \in Int /\ p.cash \in Int
    BY DEF Papers
  <2>2. p.bid.px \in Int /\ p.bid.qty \in 0 .. QuoteSize
    BY <2>1 DEF PaperQuotes
  <2>3. m.baq \in Sizes /\ m.ba \in 1 .. MaxPrice
    BY DEF Markets, Prices
  <2>4. m.baq \in Nat \ {0}
    BY <2>3, Zenon
  <2>5. m.ba \in Int
    BY <2>3
  <2> QED BY <2>1, <2>2, <2>4, <2>5
<1>2. CASE ~BidHit(p, m)
  <2>1. FillBid(p, m) = p
    BY <1>2 DEF FillBid
  <2> QED BY <2>1, <1>1
<1>3. CASE BidHit(p, m)
  <2>1. fill \in 0 .. QuoteSize /\ fill <= p.bid.qty
    BY <1>1 DEF MinOf
  <2>2. Reduced(p.bid, fill) \in PaperQuotes
    <3>1. p.bid.qty - fill \in 0 .. QuoteSize
      BY <1>1, <2>1
    <3>2. (p.bid.qty # fill) \in BOOLEAN
      OBVIOUS
    <3> HIDE DEF fill
    <3> QED BY <1>1, <3>1, <3>2 DEF Reduced, PaperQuotes
  <2>3. p.cash - p.bid.px * fill - FeeUnits(p.bid.px, fill) \in Int
    <3>0. fill \in Int
      BY <2>1
    <3> HIDE DEF fill
    <3>1. FeeUnits(p.bid.px, fill) \in Int
      BY <1>1, <3>0, FeeType, Zenon
    <3>2. p.bid.px * fill \in Int
      BY <1>1, <3>0
    <3> QED BY <1>1, <3>1, <3>2
  <2>4. FillBid(p, m) = [bid |-> Reduced(p.bid, fill), ask |-> p.ask, q |-> p.q + fill,
                         cash |-> p.cash - p.bid.px * fill - FeeUnits(p.bid.px, fill)]
    BY <1>3 DEF FillBid
  <2>5. p.bid.active
    BY <1>3 DEF BidHit
  <2> HIDE DEF fill
  <2>6. FillBid(p, m) \in Papers
    BY <1>1, <2>1, <2>2, <2>3, <2>4 DEF Papers
  <2> QED BY <1>1, <2>1, <2>4, <2>5, <2>6
<1> QED BY <1>2, <1>3

\* The same for the ask.
LEMMA FillAskFacts ==
  ASSUME NEW p \in Papers, NEW m \in Markets
  PROVE  /\ FillAsk(p, m) \in Papers
         /\ FillAsk(p, m).q <= p.q
         /\ p.ask.active => FillAsk(p, m).q >= p.q - QuoteSize
         /\ ~p.ask.active => FillAsk(p, m).q = p.q
<1> DEFINE fill == MinOf(p.ask.qty, m.bbq)
<1>1. /\ p.bid \in PaperQuotes /\ p.ask \in PaperQuotes /\ p.q \in Int /\ p.cash \in Int
      /\ p.ask.px \in Int /\ p.ask.qty \in 0 .. QuoteSize
      /\ m.bbq \in Nat \ {0} /\ m.bb \in Int
  <2>1. p.bid \in PaperQuotes /\ p.ask \in PaperQuotes /\ p.q \in Int /\ p.cash \in Int
    BY DEF Papers
  <2>2. p.ask.px \in Int /\ p.ask.qty \in 0 .. QuoteSize
    BY <2>1 DEF PaperQuotes
  <2>3. m.bbq \in Sizes /\ m.bb \in 1 .. MaxPrice
    BY DEF Markets, Prices
  <2>4. m.bbq \in Nat \ {0}
    BY <2>3, Zenon
  <2>5. m.bb \in Int
    BY <2>3
  <2> QED BY <2>1, <2>2, <2>4, <2>5
<1>2. CASE ~AskHit(p, m)
  <2>1. FillAsk(p, m) = p
    BY <1>2 DEF FillAsk
  <2> QED BY <2>1, <1>1
<1>3. CASE AskHit(p, m)
  <2>1. fill \in 0 .. QuoteSize /\ fill <= p.ask.qty
    BY <1>1 DEF MinOf
  <2>2. Reduced(p.ask, fill) \in PaperQuotes
    <3>1. p.ask.qty - fill \in 0 .. QuoteSize
      BY <1>1, <2>1
    <3>2. (p.ask.qty # fill) \in BOOLEAN
      OBVIOUS
    <3> HIDE DEF fill
    <3> QED BY <1>1, <3>1, <3>2 DEF Reduced, PaperQuotes
  <2>3. p.cash + p.ask.px * fill - FeeUnits(p.ask.px, fill) \in Int
    <3>0. fill \in Int
      BY <2>1
    <3> HIDE DEF fill
    <3>1. FeeUnits(p.ask.px, fill) \in Int
      BY <1>1, <3>0, FeeType, Zenon
    <3>2. p.ask.px * fill \in Int
      BY <1>1, <3>0
    <3> QED BY <1>1, <3>1, <3>2
  <2>4. FillAsk(p, m) = [bid |-> p.bid, ask |-> Reduced(p.ask, fill), q |-> p.q - fill,
                         cash |-> p.cash + p.ask.px * fill - FeeUnits(p.ask.px, fill)]
    BY <1>3 DEF FillAsk
  <2>5. p.ask.active
    BY <1>3 DEF AskHit
  <2> HIDE DEF fill
  <2>6. FillAsk(p, m) \in Papers
    BY <1>1, <2>1, <2>2, <2>3, <2>4 DEF Papers
  <2> QED BY <1>1, <2>1, <2>4, <2>5, <2>6
<1> QED BY <1>2, <1>3

\* Pulling the quotes leaves the inventory alone and nothing active.
LEMMA PullFacts ==
  ASSUME NEW p \in Papers
  PROVE  /\ PullQuotes(p) \in Papers
         /\ PullQuotes(p).q = p.q
         /\ ~PullQuotes(p).bid.active /\ ~PullQuotes(p).ask.active
BY Zenon DEF PullQuotes, Papers, PaperQuotes

\* The clamp leaves prices that do not touch the other side of the book or
\* each other.
LEMMA ClampFacts ==
  ASSUME NEW bid \in Int, NEW ask \in Int, NEW m \in Markets
  PROVE  /\ Clamp(bid, ask, m) \in [bid: Int, ask: Int]
         /\ Clamp(bid, ask, m).bid < m.ba
         /\ Clamp(bid, ask, m).ask > m.bb
         /\ Clamp(bid, ask, m).bid < Clamp(bid, ask, m).ask
<1>1. m.ba \in Int /\ m.bb \in Int
  BY DEF Markets, Prices
<1> QED BY <1>1 DEF Clamp, Uncross

\* The prices a tick decides on are post-only.
LEMMA DecideFacts ==
  ASSUME TypeOK, NEW lo \in Int, NEW hi \in Int, NEW m \in Markets
  PROVE  /\ Decide(lo, hi, m) \in [bid: Int, ask: Int]
         /\ Decide(lo, hi, m).bid < m.ba
         /\ Decide(lo, hi, m).ask > m.bb
         /\ Decide(lo, hi, m).bid < Decide(lo, hi, m).ask
<1>1. PICK qt \in [bid: Int, ask: Int] : qt = ComputeQuote(lo, hi, m)
  <2>1. (IF lo >= hi THEN lo + 1 ELSE hi) \in Int
    OBVIOUS
  <2> QED BY <2>1, ClampFacts DEF ComputeQuote
<1>2. working.bid \in Int /\ working.ask \in Int
  BY DEF TypeOK
<1>3. Hold(qt.bid, working.bid) \in Int /\ Hold(qt.ask, working.ask) \in Int
  BY <1>2 DEF Hold
<1>4. Decide(lo, hi, m) = Clamp(Hold(qt.bid, working.bid), Hold(qt.ask, working.ask), m)
  BY <1>1 DEF Decide
<1>5. PICK b \in Int, a \in Int : b = Hold(qt.bid, working.bid) /\ a = Hold(qt.ask, working.ask)
  BY <1>3
<1>6. Decide(lo, hi, m) = Clamp(b, a, m)
  BY <1>4, <1>5, Zenon
<1>7. /\ Clamp(b, a, m) \in [bid: Int, ask: Int]
      /\ Clamp(b, a, m).bid < m.ba /\ Clamp(b, a, m).ask > m.bb
      /\ Clamp(b, a, m).bid < Clamp(b, a, m).ask
  BY ClampFacts, Zenon
<1> QED BY <1>6, <1>7, Zenon
-----------------------------------------------------------------------------
\* The fills of one tick keep the inventory within its bound.
LEMMA FillsBounded ==
  ASSUME IInv, NEW m \in Markets
  PROVE  /\ SimulateFills(paper, m) \in Papers
         /\ SimulateFills(paper, m).q <= QMax - 1 + QuoteSize
         /\ SimulateFills(paper, m).q >= -(QMax - 1 + QuoteSize)
<1>1. paper \in Papers /\ paper.q \in Int
  BY DEF IInv, TypeOK, Papers
<1>2. PICK p1 : p1 = FillBid(paper, m)
  OBVIOUS
<1>3. /\ p1 \in Papers /\ p1.ask = paper.ask /\ p1.q >= paper.q
      /\ paper.bid.active => p1.q <= paper.q + QuoteSize
      /\ ~paper.bid.active => p1.q = paper.q
  BY <1>1, <1>2, FillBidFacts
<1>4. PICK p2 : p2 = FillAsk(p1, m)
  OBVIOUS
<1>5. /\ p2 \in Papers /\ p2.q <= p1.q
      /\ p1.ask.active => p2.q >= p1.q - QuoteSize
      /\ ~p1.ask.active => p2.q = p1.q
  BY <1>3, <1>4, FillAskFacts
<1>6. p1.q \in Int /\ p2.q \in Int
  BY <1>3, <1>5 DEF Papers
<1>7. p1.q <= QMax - 1 + QuoteSize
  BY <1>1, <1>3, <1>6 DEF IInv, HeldBack, InventoryBounded
<1>8. p2.q >= -(QMax - 1 + QuoteSize)
  BY <1>1, <1>3, <1>5, <1>6 DEF IInv, HeldBack, InventoryBounded
<1>9. SimulateFills(paper, m) = p2
  BY <1>2, <1>4 DEF SimulateFills
<1> QED BY <1>5, <1>6, <1>7, <1>8, <1>9

\* Steps that only pull the quotes keep the invariant on the paper account.
LEMMA PulledOK ==
  ASSUME NEW p \in Papers, paper' = PullQuotes(p),
         p.q <= QMax - 1 + QuoteSize, p.q >= -(QMax - 1 + QuoteSize)
  PROVE  /\ paper' \in Papers
         /\ InventoryBounded' /\ HeldBack' /\ RestingQuotesPostOnly'
<1>1. paper' \in Papers /\ paper'.q = p.q /\ ~paper'.bid.active /\ ~paper'.ask.active
  BY PullFacts
<1> QED BY <1>1 DEF InventoryBounded, HeldBack, RestingQuotesPostOnly

\* The invariant holds initially.
LEMMA InitIInv == Init => IInv
<1> SUFFICES ASSUME Init PROVE IInv
  OBVIOUS
<1>1. NoPaperQuote \in PaperQuotes
  BY DEF NoPaperQuote, PaperQuotes
<1>2. paper \in Papers /\ paper.q = 0 /\ ~paper.bid.active /\ ~paper.ask.active
  BY <1>1 DEF Init, PaperInit, Papers, NoPaperQuote
<1>3. TypeOK
  <2>1. working \in [bid: Int, ask: Int, have: BOOLEAN]
    BY DEF Init
  <2>2. sigma \in [last_bucket: -1 .. MaxTime, have_last: BOOLEAN, samples: Nat]
    BY DEF Init
  <2>3. fill_count \in 0 .. MaxFills /\ now \in 0 .. MaxTime
    BY DEF Init
  <2>4. market \in Markets /\ epoch \in BOOLEAN /\ base_epoch \in BOOLEAN
    BY Zenon DEF Init
  <2> QED BY <1>2, <2>1, <2>2, <2>3, <2>4 DEF TypeOK, Papers
<1>4. InventoryBounded
  BY <1>2 DEF InventoryBounded
<1> QED BY <1>2, <1>3, <1>4 DEF IInv, HeldBack, RestingQuotesPostOnly
-----------------------------------------------------------------------------
\* What the estimator holds after an observation has its type.
LEMMA ObserveType ==
  ASSUME TypeOK, NEW t \in 0 .. MaxTime
  PROVE  Observe(sigma, t) \in [last_bucket: -1 .. MaxTime, have_last: BOOLEAN, samples: Nat]
<1>1. sigma \in [last_bucket: -1 .. MaxTime, have_last: BOOLEAN, samples: Nat]
  BY DEF TypeOK
<1>2. sigma.samples \in Nat /\ t \in -1 .. MaxTime
  BY <1>1
<1> QED BY <1>1, <1>2 DEF Observe

\* An event for a two-sided book keeps the invariant.
LEMMA OnEventIInv ==
  ASSUME IInv, NEW m \in Markets, m.bb < m.ba, NEW t \in 0 .. MaxTime,
         NEW spike \in BOOLEAN, NEW lo \in Int, NEW hi \in Int, OnEvent(m, t, spike, lo, hi)
  PROVE  IInv'
<1>1. PICK p : p = SimulateFills(paper, m)
  OBVIOUS
<1>2. p \in Papers /\ p.q <= QMax - 1 + QuoteSize /\ p.q >= -(QMax - 1 + QuoteSize)
  BY <1>1, FillsBounded
<1>3. PICK d : d = Decide(lo, hi, m)
  OBVIOUS
<1>4. /\ d \in [bid: Int, ask: Int]
      /\ d.bid < m.ba /\ d.ask > m.bb /\ d.bid < d.ask
  BY <1>3, DecideFacts DEF IInv
<1>5. TypeOK
  BY DEF IInv
<1>6. /\ sigma' \in [last_bucket: -1 .. MaxTime, have_last: BOOLEAN, samples: Nat]
      /\ fill_count' \in 0 .. MaxFills /\ now' \in 0 .. MaxTime
      /\ market' = m /\ market' \in Markets
      /\ epoch' \in BOOLEAN /\ base_epoch' \in BOOLEAN
  <2>1. sigma' \in [last_bucket: -1 .. MaxTime, have_last: BOOLEAN, samples: Nat]
    BY <1>5, ObserveType DEF OnEvent
  <2>2. NumFills(paper, m) \in Nat
    BY DEF NumFills
  <2>3. fill_count' \in 0 .. MaxFills
    BY <1>5, <2>2 DEF TypeOK, OnEvent
  <2>4. /\ now' \in 0 .. MaxTime /\ market' = m
        /\ epoch' \in BOOLEAN /\ base_epoch' \in BOOLEAN
    BY <1>5 DEF TypeOK, OnEvent
  <2> QED BY <2>1, <2>3, <2>4
<1>7. CASE ~Ready(Observe(sigma, t)) \/ spike
  <2>1. paper' = PullQuotes(p) /\ working' = NotWorking
    BY <1>1, <1>7 DEF OnEvent
  <2>2. working' \in [bid: Int, ask: Int, have: BOOLEAN]
    BY <1>5, <2>1, Zenon DEF TypeOK, NotWorking
  <2>3. paper' \in Papers /\ InventoryBounded' /\ HeldBack' /\ RestingQuotesPostOnly'
    BY <1>2, <2>1, PulledOK
  <2>4. TypeOK'
    BY <1>6, <2>2, <2>3 DEF TypeOK, Papers
  <2> QED BY <2>3, <2>4 DEF IInv
<1>8. CASE Ready(Observe(sigma, t)) /\ ~spike
  <2>1. /\ paper' = SetQuotes(p, QuoteBid(d, p.q), QuoteAsk(d, p.q))
        /\ working' = [bid |-> d.bid, ask |-> d.ask, have |-> TRUE]
    BY <1>1, <1>3, <1>8 DEF OnEvent
  <2>2. working' \in [bid: Int, ask: Int, have: BOOLEAN]
    BY <1>4, <2>1
  <2>3. /\ p.q \in Int /\ p.cash \in Int
        /\ p = [bid |-> p.bid, ask |-> p.ask, q |-> p.q, cash |-> p.cash]
    BY <1>2 DEF Papers
  <2>4. /\ QuoteBid(d, p.q) \in PaperQuotes /\ QuoteBid(d, p.q).px = d.bid
        /\ QuoteBid(d, p.q).active => p.q < QMax
    <3>1. (MayBuy(p.q) /\ MinNotionalOk(d.bid)) \in BOOLEAN
      BY DEF MayBuy, MinNotionalOk
    <3>2. QuoteSize \in 0 .. QuoteSize /\ d.bid \in Int
      BY <1>4
    <3> QED BY <3>1, <3>2, Zenon DEF QuoteBid, PaperQuotes, MayBuy
  <2>5. /\ QuoteAsk(d, p.q) \in PaperQuotes /\ QuoteAsk(d, p.q).px = d.ask
        /\ QuoteAsk(d, p.q).active => p.q > -QMax
    <3>1. (MaySell(p.q) /\ MinNotionalOk(d.ask)) \in BOOLEAN
      BY DEF MaySell, MinNotionalOk
    <3>2. QuoteSize \in 0 .. QuoteSize /\ d.ask \in Int
      BY <1>4
    <3> QED BY <3>1, <3>2, Zenon DEF QuoteAsk, PaperQuotes, MaySell
  <2>6. paper' = [bid |-> QuoteBid(d, p.q), ask |-> QuoteAsk(d, p.q), q |-> p.q, cash |-> p.cash]
    BY <2>1, <2>3, Zenon DEF SetQuotes
  <2>7. paper' \in Papers
    BY <2>3, <2>4, <2>5, <2>6 DEF Papers
  <2>8. TypeOK'
    BY <1>6, <2>2, <2>7 DEF TypeOK, Papers
  <2>9. InventoryBounded' /\ HeldBack'
    BY <1>2, <2>4, <2>5, <2>6 DEF InventoryBounded, HeldBack
  <2>10. RestingQuotesPostOnly'
    BY <1>4, <1>6, <2>4, <2>5, <2>6 DEF RestingQuotesPostOnly
  <2> QED BY <2>8, <2>9, <2>10 DEF IInv
<1> QED BY <1>7, <1>8

\* Every step keeps the invariant.
LEMMA NextIInv == IInv /\ [Next]_vars => IInv'
<1> SUFFICES ASSUME IInv, [Next]_vars PROVE IInv'
  OBVIOUS
<1>1. paper \in Papers /\ TypeOK /\ InventoryBounded
  BY DEF IInv, TypeOK, Papers
<1>2. CASE Tick
  <2>1. PICK m \in Markets, t \in {now, now + 1}, spike \in BOOLEAN,
             lo \in 0 .. MaxPrice, hi \in 1 .. MaxPrice + 1 :
          m.bb < m.ba /\ t <= MaxTime /\ OnEvent(m, t, spike, lo, hi)
    BY <1>2 DEF Tick
  <2>2. t \in 0 .. MaxTime /\ lo \in Int /\ hi \in Int
    BY <1>1, <2>1 DEF TypeOK
  <2> QED BY <2>1, <2>2, OnEventIInv
<1>3. CASE OnEventOneSided
  <2>1. paper' \in Papers /\ InventoryBounded' /\ HeldBack' /\ RestingQuotesPostOnly'
    BY <1>1, <1>3, PulledOK DEF OnEventOneSided, InventoryBounded
  <2>2. working' \in [bid: Int, ask: Int, have: BOOLEAN]
    BY <1>1, <1>3, Zenon DEF OnEventOneSided, TypeOK, NotWorking
  <2>3. TypeOK'
    BY <1>1, <1>3, <2>1, <2>2 DEF OnEventOneSided, TypeOK, Papers
  <2> QED BY <2>1, <2>3 DEF IInv
<1>4. CASE OnResync
  <2>1. paper' \in Papers /\ InventoryBounded' /\ HeldBack' /\ RestingQuotesPostOnly'
    BY <1>1, <1>4, PulledOK DEF OnResync, InventoryBounded
  <2>2. working' \in [bid: Int, ask: Int, have: BOOLEAN]
    BY <1>1, <1>4, Zenon DEF OnResync, TypeOK, NotWorking
  <2>3. sigma' \in [last_bucket: -1 .. MaxTime, have_last: BOOLEAN, samples: Nat]
    <3>1. sigma \in [last_bucket: -1 .. MaxTime, have_last: BOOLEAN, samples: Nat]
      BY <1>1 DEF TypeOK
    <3>2. -1 \in -1 .. MaxTime
      OBVIOUS
    <3> QED BY <1>4, <3>1, <3>2, Zenon DEF OnResync, ResetContinuity
  <2>4. TypeOK'
    BY <1>1, <1>4, <2>1, <2>2, <2>3 DEF OnResync, TypeOK, Papers
  <2> QED BY <2>1, <2>4 DEF IInv
<1>5. CASE UNCHANGED vars
  BY <1>5 DEF vars, IInv, TypeOK, InventoryBounded, HeldBack, RestingQuotesPostOnly
<1> QED BY <1>2, <1>3, <1>4, <1>5 DEF Next

\* The inductive invariant holds in every reachable state.
LEMMA Invariant == Spec => []IInv
BY InitIInv, NextIInv, PTL DEF Spec

\* The variables keep their types: a simulated fill (paper_fills.cpp) never takes
\* more than the quote holds.
THEOREM TypeCorrect == Spec => []TypeOK
<1>1. IInv => TypeOK
  BY DEF IInv
<1> QED BY <1>1, Invariant, PTL

\* OnEvent's inventory limits bound the inventory by q_max_lots - 1 plus one quote,
\* in both directions.
THEOREM InventoryLimited == Spec => []InventoryBounded
<1>1. IInv => InventoryBounded
  BY DEF IInv
<1> QED BY <1>1, Invariant, PTL

\* The quotes OnEvent leaves at rest are post-only for the book it saw, whatever
\* the model computed and the hysteresis held.
THEOREM PostOnly == Spec => []RestingQuotesPostOnly
<1>1. IInv => RestingQuotesPostOnly
  BY DEF IInv
<1> QED BY <1>1, Invariant, PTL
-----------------------------------------------------------------------------
(* The action properties. *)

\* A baseline to sample against is from the present epoch: OnResync drops it.
BaselineFresh == sigma.have_last => base_epoch = epoch

\* No handler breaks it.
LEMMA BaselineNext == TypeOK /\ BaselineFresh /\ [Next]_vars => BaselineFresh'
<1> SUFFICES ASSUME TypeOK, BaselineFresh, [Next]_vars PROVE BaselineFresh'
  OBVIOUS
<1>0. now \in Int /\ now + 1 \in Int /\ sigma.last_bucket \in Int
  BY DEF TypeOK
<1>1. ASSUME NEW m, NEW t \in {now, now + 1}, NEW spike, NEW lo, NEW hi,
             OnEvent(m, t, spike, lo, hi)
      PROVE  BaselineFresh'
  <2>1. /\ sigma' = Observe(sigma, t) /\ epoch' = epoch
        /\ base_epoch' = IF t > sigma.last_bucket THEN epoch ELSE base_epoch
    BY <1>1 DEF OnEvent
  <2>2. CASE t <= sigma.last_bucket
    BY <2>1, <2>2 DEF Observe, BaselineFresh
  <2>3. CASE ~(t <= sigma.last_bucket)
    <3>1. t > sigma.last_bucket
      BY <1>0, <2>3
    <3> QED BY <2>1, <2>3, <3>1 DEF Observe, BaselineFresh
  <2> QED BY <2>2, <2>3
<1>2. CASE OnEventOneSided
  BY <1>2 DEF OnEventOneSided, BaselineFresh
<1>3. CASE OnResync
  BY <1>3 DEF OnResync, BaselineFresh, ResetContinuity
<1>4. CASE UNCHANGED vars
  BY <1>4 DEF vars, BaselineFresh
<1> QED BY <1>1, <1>2, <1>3, <1>4 DEF Next, Tick

\* SigmaEwma takes a sample only against a mid observed since the last resync.
THEOREM SamplesFresh == Spec => SamplesWithinEpoch
<1>1. Init => BaselineFresh
  BY DEF Init, BaselineFresh
<1>2. TypeOK /\ BaselineFresh /\ [Next]_vars
      => [(sigma'.samples > sigma.samples) => base_epoch = epoch]_vars
  <2> SUFFICES ASSUME TypeOK, BaselineFresh, Next, sigma'.samples > sigma.samples
               PROVE  base_epoch = epoch
    OBVIOUS
  <2>1. sigma.samples \in Nat /\ ~(sigma.samples > sigma.samples)
    BY DEF TypeOK
  <2>2. CASE OnEventOneSided
    BY <2>1, <2>2 DEF OnEventOneSided
  <2>3. CASE OnResync
    BY <2>1, <2>3 DEF OnResync, ResetContinuity, TypeOK
  <2>4. CASE Tick
    <3>1. PICK t : sigma' = Observe(sigma, t)
      BY <2>4 DEF Tick, OnEvent
    <3>2. sigma.have_last
      BY <2>1, <3>1 DEF Observe
    <3> QED BY <3>2 DEF BaselineFresh
  <2> QED BY <2>2, <2>3, <2>4 DEF Next
<1> QED BY <1>1, <1>2, BaselineNext, TypeCorrect, PTL DEF Spec, SamplesWithinEpoch

\* The fee of a purchase or sale at a price that is not negative is not a rebate.
LEMMA FeeNonNegative ==
  ASSUME NEW px \in Nat, NEW qty \in Nat
  PROVE  FeeUnits(px, qty) >= 0 /\ FeeUnits(px, qty) \in Int
<1>1. px * qty \in Nat
  OBVIOUS
<1>2. ASSUME NEW x \in Nat PROVE x * FeeBps + 9999 \in Nat
  OBVIOUS
<1>3. ASSUME NEW x \in Nat PROVE x \div 10000 >= 0 /\ x \div 10000 \in Int
  OBVIOUS
<1> QED BY <1>1, <1>2, <1>3 DEF FeeUnits

\* Buying at px what can be had at ba <= px gains nothing, marked at ba.
LEMMA BuyMarked ==
  ASSUME NEW cash \in Int, NEW q \in Int, NEW fill \in Nat, NEW px \in Int, NEW ba \in Int,
         NEW fee \in Int, fee >= 0, ba <= px
  PROVE  cash - px * fill - fee + (q + fill) * ba <= cash + q * ba
<1>1. fill * ba <= fill * px
  OBVIOUS
<1>2. (q + fill) * ba = q * ba + fill * ba /\ px * fill = fill * px
  OBVIOUS
<1>3. fill * ba \in Int /\ fill * px \in Int /\ q * ba \in Int
  OBVIOUS
<1>4. \A x, y, z \in Int : x <= y => cash - y - fee + (z + x) <= cash + z
  OBVIOUS
<1> QED BY <1>1, <1>2, <1>3, <1>4

\* Selling at px what fetches bb >= px gains nothing, marked at bb.
LEMMA SellMarked ==
  ASSUME NEW cash \in Int, NEW q \in Int, NEW fill \in Nat, NEW px \in Int, NEW bb \in Int,
         NEW fee \in Int, fee >= 0, bb >= px
  PROVE  cash + px * fill - fee + (q - fill) * bb <= cash + q * bb
<1>1. fill * px <= fill * bb
  OBVIOUS
<1>2. (q - fill) * bb = q * bb - fill * bb /\ px * fill = fill * px
  OBVIOUS
<1>3. fill * bb \in Int /\ fill * px \in Int /\ q * bb \in Int
  OBVIOUS
<1>4. \A x, y, z \in Int : x <= y => cash + x - fee + (z - y) <= cash + z
  OBVIOUS
<1> QED BY <1>1, <1>2, <1>3, <1>4

\* A market that is not crossed cannot hit quotes that are not crossed on both
\* sides, and the one side it hits is filled at no better price than its own.
LEMMA FillsMarked ==
  ASSUME IInv, NEW m \in Markets, m.bb < m.ba, NEW p, p = SimulateFills(paper, m)
  PROVE  /\ p.q > paper.q => p.cash + p.q * m.ba <= paper.cash + paper.q * m.ba
         /\ p.q < paper.q => p.cash + p.q * m.bb <= paper.cash + paper.q * m.bb
<1>1. /\ paper \in Papers /\ paper.bid \in PaperQuotes /\ paper.ask \in PaperQuotes
      /\ paper.q \in Int /\ paper.cash \in Int
  BY DEF IInv, TypeOK, Papers
<1>2. /\ paper.bid.px \in Int /\ paper.bid.qty \in Nat
      /\ paper.ask.px \in Int /\ paper.ask.qty \in Nat
  BY <1>1 DEF PaperQuotes
<1>3. m.ba \in Nat /\ m.bb \in Nat /\ m.baq \in Nat /\ m.bbq \in Nat /\ market.bb \in Nat
  <2>1. m.ba \in Prices /\ m.bb \in Prices /\ m.baq \in Sizes /\ m.bbq \in Sizes
        /\ market.bb \in Prices
    BY DEF Markets, IInv, TypeOK
  <2>2. m.baq \in Nat /\ m.bbq \in Nat
    BY <2>1, Zenon
  <2> QED BY <2>1, <2>2 DEF Prices
<1>4. ~(BidHit(paper, m) /\ AskHit(paper, m))
  BY <1>2, <1>3 DEF BidHit, AskHit, IInv, RestingQuotesPostOnly
<1>5. CASE ~BidHit(paper, m) /\ ~AskHit(paper, m)
  <2>1. p = paper
    BY <1>5 DEF SimulateFills, FillBid, FillAsk
  <2> QED BY <1>1, <2>1
<1>6. CASE BidHit(paper, m)
  <2> DEFINE fill == MinOf(paper.bid.qty, m.baq)
             px == paper.bid.px
             fee == FeeUnits(px, fill)
             p1 == FillBid(paper, m)
  <2>1. fill \in Nat /\ px \in Nat /\ m.ba <= px
    BY <1>2, <1>3, <1>6 DEF MinOf, BidHit
  <2>2. /\ p1.ask = paper.ask /\ p1.q = paper.q + fill
        /\ p1.cash = paper.cash - px * fill - fee
    BY <1>6 DEF FillBid
  <2>3. p = p1
    BY <1>4, <1>6, <2>2 DEF SimulateFills, FillAsk, AskHit
  <2> HIDE DEF fill, px, p1
  <2>4. fee \in Int /\ fee >= 0
    BY <2>1, FeeNonNegative, Zenon
  <2> HIDE DEF fee
  <2>5. p1.cash + p1.q * m.ba <= paper.cash + paper.q * m.ba
    <3>1. paper.cash - px * fill - fee + (paper.q + fill) * m.ba <= paper.cash + paper.q * m.ba
      BY <1>1, <1>3, <2>1, <2>4, BuyMarked
    <3> QED BY <2>2, <3>1, Zenon
  <2>6. ~(p1.q < paper.q)
    BY <1>1, <2>1, <2>2
  <2> QED BY <2>3, <2>5, <2>6, Zenon
<1>7. CASE AskHit(paper, m)
  <2> DEFINE fill == MinOf(paper.ask.qty, m.bbq)
             px == paper.ask.px
             fee == FeeUnits(px, fill)
             p2 == FillAsk(paper, m)
  <2>1. fill \in Nat /\ px \in Nat /\ m.bb >= px
    <3>1. px > market.bb
      BY <1>7 DEF AskHit, IInv, RestingQuotesPostOnly
    <3> QED BY <1>2, <1>3, <1>7, <3>1 DEF MinOf, AskHit
  <2>2. p2.q = paper.q - fill /\ p2.cash = paper.cash + px * fill - fee
    BY <1>7 DEF FillAsk
  <2>3. p = p2
    <3>1. FillBid(paper, m) = paper
      BY <1>4, <1>7 DEF FillBid
    <3> QED BY <3>1 DEF SimulateFills
  <2> HIDE DEF fill, px, p2
  <2>4. fee \in Int /\ fee >= 0
    BY <2>1, FeeNonNegative, Zenon
  <2> HIDE DEF fee
  <2>5. p2.cash + p2.q * m.bb <= paper.cash + paper.q * m.bb
    <3>1. paper.cash + px * fill - fee + (paper.q - fill) * m.bb <= paper.cash + paper.q * m.bb
      BY <1>1, <1>3, <2>1, <2>4, SellMarked
    <3> QED BY <2>2, <3>1, Zenon
  <2>6. ~(p2.q > paper.q)
    BY <1>1, <2>1, <2>2
  <2> QED BY <2>3, <2>5, <2>6, Zenon
<1> QED BY <1>5, <1>6, <1>7

\* SimulateFills never books a profit at the moment of the fill: marked at the
\* price that hit it, the paper account is worth no more after it.
THEOREM FillsConservative == Spec => FillsAreConservative
<1> DEFINE A == /\ paper'.q > paper.q =>
                     paper'.cash + paper'.q * market'.ba <= paper.cash + paper.q * market'.ba
                /\ paper'.q < paper.q =>
                     paper'.cash + paper'.q * market'.bb <= paper.cash + paper.q * market'.bb
<1>1. IInv /\ [Next]_vars => [A]_vars
  <2> SUFFICES ASSUME IInv, Next PROVE A
    OBVIOUS
  <2>0. paper \in Papers /\ paper.q \in Int
    BY DEF IInv, TypeOK, Papers
  <2>1. ASSUME paper'.q = paper.q PROVE A
    BY <2>0, <2>1
  <2>2. CASE OnEventOneSided \/ OnResync
    BY <2>0, <2>1, <2>2, PullFacts DEF OnEventOneSided, OnResync
  <2>3. CASE Tick
    <3>1. PICK m \in Markets, t \in {now, now + 1}, spike \in BOOLEAN,
               lo \in 0 .. MaxPrice, hi \in 1 .. MaxPrice + 1 :
            m.bb < m.ba /\ OnEvent(m, t, spike, lo, hi)
      BY <2>3 DEF Tick
    <3>2. PICK p : p = SimulateFills(paper, m)
      OBVIOUS
    <3>3. p \in Papers
      BY <3>2, FillsBounded
    <3>4. market' = m /\ paper'.q = p.q /\ paper'.cash = p.cash
      <4>1. PullQuotes(p).q = p.q /\ PullQuotes(p).cash = p.cash
        BY <3>3, Zenon DEF PullQuotes, Papers
      <4>2. ASSUME NEW b, NEW a
            PROVE  SetQuotes(p, b, a).q = p.q /\ SetQuotes(p, b, a).cash = p.cash
        BY <3>3, Zenon DEF SetQuotes, Papers
      <4>3. market' = m /\ (paper' = PullQuotes(p) \/ \E b, a : paper' = SetQuotes(p, b, a))
        BY <3>1, <3>2, Zenon DEF OnEvent
      <4> QED BY <4>1, <4>2, <4>3, Zenon
    <3>5. /\ p.q > paper.q => p.cash + p.q * m.ba <= paper.cash + paper.q * m.ba
          /\ p.q < paper.q => p.cash + p.q * m.bb <= paper.cash + paper.q * m.bb
      BY <3>1, <3>2, FillsMarked
    <3> QED BY <3>4, <3>5, Zenon
  <2> QED BY <2>2, <2>3 DEF Next
<1> QED BY <1>1, Invariant, PTL DEF Spec, FillsAreConservative
=============================================================================
