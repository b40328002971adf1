------------------------------ MODULE Strategy ------------------------------
(***************************************************************************)
(* The paper-trading strategy of src/strategy/strategy.cpp with its        *)
(* volatility estimator (sigma_ewma.cpp) and the clamps of its quoter      *)
(* (as_quoter.cpp).                                                        *)
(*                                                                         *)
(* What the floating-point model computes is an input: the unclamped quote *)
(* (lo, hi) and whether the volatility is above the spike threshold.  The  *)
(* market is an input too; a live book is not crossed, and it may lack a   *)
(* side.  Time is the exchange's, in whole seconds, and does not run back. *)
(***************************************************************************)
EXTENDS PaperBook

CONSTANTS MaxPrice,      \* bound: prices are 1 .. MaxPrice
          Sizes,         \* sizes shown in the book
          MaxTime,       \* bound: seconds
          MaxFills,      \* bound: simulated fills
          QMax,          \* q_max_lots
          QuoteSize,     \* quote_size_lots
          Hysteresis,    \* hysteresis_ticks
          MinSamples,    \* sigma_min_samples
          MinNotional    \* min_notional_usdt, in cash units

ASSUME MaxPriceAssumption == MaxPrice \in Nat
ASSUME SizesAssumption == Sizes \subseteq Nat \ {0}
ASSUME MaxTimeAssumption == MaxTime \in Nat
ASSUME MaxFillsAssumption == MaxFills \in Nat
ASSUME QMaxAssumption == QMax \in Nat \ {0}
ASSUME QuoteSizeAssumption == QuoteSize \in Nat \ {0}
ASSUME HysteresisAssumption == Hysteresis \in Nat
ASSUME MinSamplesAssumption == MinSamples \in Nat
ASSUME MinNotionalAssumption == MinNotional \in Nat

VARIABLES paper,       \* paper_
          working,     \* working_bid_, working_ask_, have_working_
          sigma,       \* last_bucket_, have_last_, samples_
          fill_count,  \* fill_count_
          market,      \* the top of the book at the last tick
          now,         \* ts_exchange_ms of the last event, in seconds
          epoch,       \* history: parity of the resyncs so far
          base_epoch   \* history: the epoch last_mid_ was observed in

vars == <<paper, working, sigma, fill_count, market, now, epoch, base_epoch>>

Prices == 1 .. MaxPrice
Markets == [bb: Prices, bbq: Sizes, ba: Prices, baq: Sizes]

PaperQuotes == [px: Int, qty: 0 .. QuoteSize, active: BOOLEAN]

\* The types of the variables; a quote never grows beyond its size.
TypeOK ==
  /\ paper \in [bid: PaperQuotes, ask: PaperQuotes, q: Int, cash: Int]
  /\ working \in [bid: Int, ask: Int, have: BOOLEAN]
  /\ sigma \in [last_bucket: -1 .. MaxTime, have_last: BOOLEAN, samples: Nat]
  /\ fill_count \in 0 .. MaxFills
  /\ market \in Markets
  /\ now \in 0 .. MaxTime
  /\ epoch \in BOOLEAN /\ base_epoch \in BOOLEAN

Init ==
  /\ paper = PaperInit
  /\ working = [bid |-> 0, ask |-> 0, have |-> FALSE]
  /\ sigma = [last_bucket |-> -1, have_last |-> FALSE, samples |-> 0]
  /\ fill_count = 0
  /\ market \in Markets /\ market.bb < market.ba
  /\ now = 0
  /\ epoch = FALSE /\ base_epoch = FALSE
-----------------------------------------------------------------------------
(* SigmaEwma *)

\* Observe: the estimator after a mid at second t.
Observe(s, t) ==
  IF t <= s.last_bucket THEN s
  ELSE [last_bucket |-> t, have_last |-> TRUE,
        samples |-> IF s.have_last THEN s.samples + 1 ELSE s.samples]

\* ResetContinuity.  ResetContinuityMutant forgets have_last_.
ResetContinuityMutant(s) == [s EXCEPT !.last_bucket = -1]
ResetContinuity(s) == [s EXCEPT !.last_bucket = -1, !.have_last = FALSE]

\* ready
Ready(s) == s.samples >= MinSamples
-----------------------------------------------------------------------------
(* The quote *)

\* The last step of both clamps: the bid stays below the ask.
Uncross(bid, ask) == [bid |-> IF bid >= ask THEN ask - 1 ELSE bid, ask |-> ask]

\* The post-only clamp to the book, in ComputeQuote and again in OnEvent.
Clamp(bid, ask, m) ==
  Uncross(IF bid >= m.ba THEN m.ba - 1 ELSE bid, IF ask <= m.bb THEN m.bb + 1 ELSE ask)

\* ComputeQuote after the rounding of r - delta/2 and r + delta/2 to lo and hi.
ComputeQuote(lo, hi, m) == Clamp(lo, IF lo >= hi THEN lo + 1 ELSE hi, m)

\* A working price is held while the new one is within the hysteresis.
Hold(new, old) ==
  IF working.have /\ new - old < Hysteresis /\ old - new < Hysteresis THEN old ELSE new

\* The prices OnEvent decides on.  The clamp comes after the hysteresis: a held
\* price may cross a book that moved.  DecideMutant forgets it.
DecideMutant(lo, hi, m) ==
  LET qt == ComputeQuote(lo, hi, m)
  IN  [bid |-> Hold(qt.bid, working.bid), ask |-> Hold(qt.ask, working.ask)]

Decide(lo, hi, m) ==
  LET qt == ComputeQuote(lo, hi, m)
  IN  Clamp(Hold(qt.bid, working.bid), Hold(qt.ask, working.ask), m)

MinNotionalOk(px) == px * QuoteSize >= MinNotional

\* The inventory limits: which sides may be quoted.  MayBuyMutant is off by one.
MayBuyMutant(q) == q <= QMax
MayBuy(q) == q < QMax
MaySell(q) == q > -QMax

\* The paper quotes for the prices d, given the inventory q.
QuoteBid(d, q) == [px |-> d.bid, qty |-> QuoteSize, active |-> MayBuy(q) /\ MinNotionalOk(d.bid)]
QuoteAsk(d, q) == [px |-> d.ask, qty |-> QuoteSize, active |-> MaySell(q) /\ MinNotionalOk(d.ask)]
-----------------------------------------------------------------------------
(* The handlers *)

NotWorking == [working EXCEPT !.have = FALSE]

\* OnEvent for a book that lacks a side.
OnEventOneSided ==
  /\ paper' = PullQuotes(paper) /\ working' = NotWorking
  /\ UNCHANGED <<sigma, fill_count, market, now, epoch, base_epoch>>

\* How many sides SimulateFills fills.
NumFills(p, m) == (IF BidHit(p, m) THEN 1 ELSE 0) + (IF AskHit(p, m) THEN 1 ELSE 0)

\* OnEvent at second t for the market m: the estimator, the fills of the quotes
\* of the last tick, then new quotes unless a guard pulls them.
OnEvent(m, t, spike, lo, hi) ==
  LET s == Observe(sigma, t)
      p == SimulateFills(paper, m)
      d == Decide(lo, hi, m)
  IN  /\ fill_count + NumFills(paper, m) <= MaxFills
      /\ fill_count' = fill_count + NumFills(paper, m)
      /\ sigma' = s /\ now' = t /\ market' = m
      /\ base_epoch' = IF t > sigma.last_bucket THEN epoch ELSE base_epoch
      /\ IF ~Ready(s) \/ spike
         THEN paper' = PullQuotes(p) /\ working' = NotWorking
         ELSE /\ paper' = SetQuotes(p, QuoteBid(d, p.q), QuoteAsk(d, p.q))
              /\ working' = [bid |-> d.bid, ask |-> d.ask, have |-> TRUE]
      /\ UNCHANGED epoch

\* OnResync, which the engine calls for every snapshot start.
OnResync ==
  /\ paper' = PullQuotes(paper) /\ working' = NotWorking
  /\ sigma' = ResetContinuity(sigma)
  /\ epoch' = ~epoch
  /\ UNCHANGED <<fill_count, market, now, base_epoch>>

Tick ==
  \E m \in Markets, t \in {now, now + 1}, spike \in BOOLEAN,
     lo \in 0 .. MaxPrice, hi \in 1 .. MaxPrice + 1 :
    /\ m.bb < m.ba /\ t <= MaxTime /\ lo <= hi
    /\ OnEvent(m, t, spike, lo, hi)

Next == Tick \/ OnEventOneSided \/ OnResync

Spec == Init /\ [][Next]_vars
-----------------------------------------------------------------------------
(* Properties *)

\* The inventory never passes the soft limit by more than the quote that was
\* resting when it was reached, in spite of partial fills and fresh quotes.
InventoryBounded ==
  paper.q <= QMax - 1 + QuoteSize /\ paper.q >= -(QMax - 1 + QuoteSize)

\* Quotes at rest are post-only: neither touches the other side of the book they
\* were decided on, nor each other, also when hysteresis held an old price.
RestingQuotesPostOnly ==
  /\ paper.bid.active => paper.bid.px < market.ba
  /\ paper.ask.active => paper.ask.px > market.bb
  /\ paper.bid.active /\ paper.ask.active => paper.bid.px < paper.ask.px

\* A volatility sample never spans a resync: its baseline is as young.
SamplesWithinEpoch ==
  [][(sigma'.samples > sigma.samples) => base_epoch = epoch]_vars

\* A simulated fill never makes a profit at the price it is hit by: marked at
\* the opposite best, the account is worth no more after it.
FillsAreConservative ==
  [][/\ paper'.q > paper.q =>
          paper'.cash + paper'.q * market'.ba <= paper.cash + paper.q * market'.ba
     /\ paper'.q < paper.q =>
          paper'.cash + paper'.q * market'.bb <= paper.cash + paper.q * market'.bb]_vars
=============================================================================
