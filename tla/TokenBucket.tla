----------------------------- MODULE TokenBucket ----------------------------
(***************************************************************************)
(* The lazily refilled rate limiter of src/engine/token_bucket.cpp.  The   *)
(* caller passes the time; between two calls nothing happens, and the next *)
(* call adds what should have been added meanwhile.                        *)
(*                                                                         *)
(* A unit of time is one in which a whole number of tokens, Refill, flows  *)
(* in, so levels are whole numbers; the 1e-9 that TryTake allows for       *)
(* rounding is then nothing.  The clock is NowNs, a steady clock: it does  *)
(* not run back, and it is past 0 when the program starts.                 *)
(***************************************************************************)
EXTENDS Integers

CONSTANTS Capacity,     \* capacity_
          Refill,       \* refill_per_s_, in tokens per unit of time
          StartTime,    \* the clock when the bucket is made
          MaxClock      \* bound: the clock

ASSUME CapacityAssumption == Capacity \in Nat
ASSUME RefillAssumption == Refill \in Nat
ASSUME StartTimeAssumption == StartTime \in Nat \ {0}
ASSUME MaxClockAssumption == MaxClock \in Nat

VARIABLES tokens,    \* tokens_
          last_ns,   \* last_ns_: 0 before the first call
          clock,     \* what the next caller will pass as now_ns
          level,     \* history: a bucket that is refilled at every instant
          granted,   \* history: tokens taken since the last SetUsed
          budget     \* history: what the bucket held then, and all inflow since

bucketVars == <<tokens, last_ns, clock, level, granted, budget>>

BucketInit ==
  /\ tokens = Capacity /\ last_ns = 0
  /\ clock = StartTime
  /\ level = Capacity
  /\ granted = 0 /\ budget = Capacity

Least(a, b) == IF a <= b THEN a ELSE b
-----------------------------------------------------------------------------
\* available: the projected level.
Available(now) ==
  LET elapsed == IF last_ns = 0 THEN 0 ELSE now - last_ns
  IN  Least(Capacity, tokens + elapsed * Refill)

\* TryTake of n tokens.  The level is brought up to date even if it fails.
\* TryTakeMutant moves last_ns_ on without adding what flowed in.
TryTakeMutant(n) ==
  /\ tokens' = IF tokens < n THEN tokens ELSE tokens - n
  /\ last_ns' = clock
  /\ level' = IF level < n THEN level ELSE level - n
  /\ granted' = IF level < n THEN granted ELSE granted + n
  /\ UNCHANGED <<clock, budget>>

TryTake(n) ==
  LET now == Available(clock)
      ok  == now >= n
  IN  /\ tokens' = IF ok THEN now - n ELSE now
      /\ last_ns' = clock
      /\ level' = IF level < n THEN level ELSE level - n
      /\ granted' = IF ok THEN granted + n ELSE granted
      /\ UNCHANGED <<clock, budget>>

\* SetUsed: the exchange says how much of the capacity is used.
SetUsed(used) ==
  LET left == IF used >= Capacity THEN 0 ELSE Capacity - used
  IN  /\ tokens' = left /\ last_ns' = clock
      /\ level' = left
      /\ granted' = 0 /\ budget' = left
      /\ UNCHANGED clock

\* Time passes.
Elapse ==
  /\ clock < MaxClock
  /\ clock' = clock + 1
  /\ level' = Least(Capacity, level + Refill)
  /\ budget' = budget + Refill
  /\ UNCHANGED <<tokens, last_ns, granted>>

BucketNext ==
  \/ \E n \in 1 .. Capacity + 1 : TryTake(n)
  \/ \E used \in 0 .. Capacity + 1 : SetUsed(used)
  \/ Elapse

BucketSpec == BucketInit /\ [][BucketNext]_bucketVars
-----------------------------------------------------------------------------
(* Properties *)

\* Refilling lazily is refilling all the time: however the calls of TryTake,
\* granted or refused, are spread over time, the bucket offers exactly what one
\* that is topped up at every instant would hold, and so never grants more than
\* it held plus what flowed in since the exchange last corrected it.
RefillIsExact == Available(clock) = level /\ granted + level <= budget
=============================================================================
