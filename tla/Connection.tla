----------------------------- MODULE Connection -----------------------------
(***************************************************************************)
(* How the market-data thread keeps its WebSocket: BeastWsClient of        *)
(* src/exchange/ws_client.cpp, Backoff of src/engine/backoff.cpp, and the  *)
(* loop of MarketDataThread::Run with SleepMs.  What travels on the        *)
(* stream is the subject of MarketData: here Bootstrap and RunLive are the *)
(* reads and requests they make and the ways they can end.                 *)
(*                                                                         *)
(* Time is counted in steps of SleepMs.  A jittered delay is any whole     *)
(* number of steps between 80% and 120% of its base, rounded up as the     *)
(* last, shorter, step of SleepMs does.                                    *)
(***************************************************************************)
EXTENDS Integers

CONSTANTS InitialDelay,  \* backoff_initial_ms
          MaxDelay,      \* backoff_max_ms
          Multiplier,    \* backoff_multiplier
          MaxAttempt     \* bound: attempt_, past which every delay is MaxDelay

VARIABLES ws,         \* ws_: "null", "failed" (made by a Connect that failed),
                      \* "open", or "broken" (a read of it has failed)
          connected,  \* connected of Run
          thread,     \* "top", "boot" and "fetched" (in Bootstrap), "live", "ended"
                      \* (out of RunLive), "hangup", "sleep", "done"
          attempt,    \* attempt_ of the Backoff
          left,       \* what is left of the SleepMs
          stopping,   \* g_stop
          rested,     \* history: steps slept since the last Connect
          failures    \* history: what failed since a stream was last live

connVars == <<ws, connected, thread, attempt, left, stopping, rested, failures>>

ConnInit ==
  /\ ws = "null" /\ connected = FALSE /\ thread = "top"
  /\ attempt = 0 /\ left = 0 /\ stopping = FALSE
  /\ rested = 0 /\ failures = 0
-----------------------------------------------------------------------------
(* Backoff *)

\* initial_ms_ * multiplier_ ^ attempt_, capped at max_ms_.
Base(k) ==
  LET uncapped == InitialDelay * Multiplier ^ k
  IN  IF uncapped > MaxDelay THEN MaxDelay ELSE uncapped

\* A delay is a whole number of steps; the bound is where the cap has set in.
ASSUME MaxDelayAssumption == MaxDelay \in Nat
ASSUME DelayAssumption == \A k \in 0 .. MaxAttempt : InitialDelay * Multiplier ^ k \in Nat
ASSUME MaxAttemptAssumption == MaxAttempt \in Nat /\ Base(MaxAttempt) = MaxDelay

\* In steps: the delays NextDelayMs may return.
Delays(k) == (4 * Base(k)) \div 5 .. (6 * Base(k) + 4) \div 5

\* NextDelayMs and the SleepMs it is handed to.
NextDelay ==
  /\ thread' = "sleep"
  /\ left' \in Delays(attempt)
  /\ attempt' = IF attempt = MaxAttempt THEN attempt ELSE attempt + 1

\* One round of SleepMs, or its end.
SleepStep ==
  /\ thread = "sleep"
  /\ IF left > 0 /\ ~stopping
       THEN left' = left - 1 /\ rested' = rested + 1 /\ UNCHANGED thread
       ELSE left' = 0 /\ thread' = "top" /\ UNCHANGED rested
  /\ UNCHANGED <<ws, connected, attempt, stopping, failures>>

\* History: one more thing went wrong.
Fails == failures' = IF failures = MaxAttempt THEN failures ELSE failures + 1
-----------------------------------------------------------------------------
(* BeastWsClient and its callers *)

\* Connect makes a new stream, which stays even if the rest of Connect fails.
\* ConnectMutant takes a connection that opens for a healthy one.
ConnectMutant ==
  /\ thread = "top" /\ ~stopping /\ ~connected
  /\ rested' = 0
  /\ \/ /\ ws' = "open" /\ connected' = TRUE /\ thread' = "boot"
        /\ attempt' = 0
        /\ UNCHANGED <<left, failures>>
     \/ /\ ws' = "failed" /\ Fails
        /\ NextDelay
        /\ UNCHANGED connected
  /\ UNCHANGED stopping

Connect ==
  /\ thread = "top" /\ ~stopping /\ ~connected
  /\ rested' = 0
  /\ \/ /\ ws' = "open" /\ connected' = TRUE /\ thread' = "boot"
        /\ UNCHANGED <<attempt, left, failures>>
     \/ /\ ws' = "failed" /\ Fails
        /\ NextDelay
        /\ UNCHANGED connected
  /\ UNCHANGED stopping

\* Close: closes and forgets the stream, if there is one.
CloseWs == ws' = "null"

\* Get of BeastRestClient, which makes a connection for each request: the body of an
\* answer, and nothing if the status is not 200 or if no answer came (0).
NoBody == "none"
Get(status) == IF status = 200 THEN "body" ELSE NoBody

\* A Read that fails, as the other side closed the stream, the timeout passed or
\* an error came up: the stream is of no use after it.
ReadFails == Fails /\ ws' = IF ws = "null" THEN ws ELSE "broken"
-----------------------------------------------------------------------------
(* MarketDataThread::Run *)

\* The loop comes round with a stream that is still connected.
Again ==
  /\ thread = "top" /\ ~stopping /\ connected
  /\ thread' = "boot"
  /\ UNCHANGED <<ws, connected, attempt, left, stopping, rested, failures>>

\* Bootstrap fetches a snapshot; if it cannot, cannot parse it, or has no refetches
\* left, the connection is given up.
Fetch ==
  /\ thread = "boot" /\ ~stopping
  /\ \E status \in {0, 200, 500}, parses, refetches \in BOOLEAN :
       IF Get(status) # NoBody /\ parses /\ refetches
         THEN thread' = "fetched" /\ UNCHANGED failures
         ELSE thread' = "hangup" /\ Fails
  /\ UNCHANGED <<ws, connected, attempt, left, stopping, rested>>

\* A frame of Bootstrap: the bracket event, after which Run resets the backoff;
\* one that shows the snapshot is too old; or none.  Others change nothing.
BootRead ==
  /\ thread = "fetched" /\ ~stopping
  /\ \/ /\ thread' = "live" /\ attempt' = 0 /\ failures' = 0
        /\ UNCHANGED ws
     \/ /\ thread' = "boot"
        /\ UNCHANGED <<ws, attempt, failures>>
     \/ /\ thread' = "hangup" /\ ReadFails
        /\ UNCHANGED attempt
  /\ UNCHANGED <<connected, left, stopping, rested>>

\* A frame of RunLive: one behind a gap, after which the same stream is
\* bootstrapped again; or none.  Others change nothing.
LiveRead ==
  /\ thread = "live" /\ ~stopping
  /\ \/ thread' = "top" /\ UNCHANGED <<ws, failures>>
     \/ thread' = "ended" /\ ReadFails
  /\ UNCHANGED <<connected, attempt, left, stopping, rested>>

\* Close, connected = false, and the pause.  HangUpMutant keeps connected.
HangUpMutant ==
  /\ thread = "hangup" \/ (thread = "ended" /\ ~stopping)
  /\ CloseWs
  /\ NextDelay
  /\ UNCHANGED <<connected, stopping, rested, failures>>

HangUp ==
  /\ thread = "hangup" \/ (thread = "ended" /\ ~stopping)
  /\ CloseWs /\ connected' = FALSE
  /\ NextDelay
  /\ UNCHANGED <<stopping, rested, failures>>

\* g_stop is seen: out of Bootstrap and RunLive, out of the loop, and Close.
Finish ==
  /\ stopping /\ thread \in {"top", "boot", "fetched", "live", "ended"}
  /\ thread' = "done"
  /\ CloseWs
  /\ UNCHANGED <<connected, attempt, left, stopping, rested, failures>>

StopConnection ==
  /\ stopping' = TRUE
  /\ UNCHANGED <<ws, connected, thread, attempt, left, rested, failures>>

ConnNext ==
  \/ Connect \/ Again \/ Fetch \/ BootRead \/ LiveRead
  \/ HangUp \/ SleepStep \/ Finish \/ StopConnection

ConnSpec == ConnInit /\ [][ConnNext]_connVars
-----------------------------------------------------------------------------
(* Properties *)

\* ws_client.cpp: "A timeout leaves the stream unusable, which is fine because
\* the response is a full reconnect anyway."  No Read is made on a stream that
\* failed, was closed or never opened; Connect does not throw an open stream
\* away; and the thread leaves none behind.
StreamsAreUsable ==
  /\ thread \in {"fetched", "live"} => ws = "open"
  /\ thread = "top" => (connected <=> ws = "open")
  /\ thread = "done" => ws = "null"

\* The pause before a Connect grows with what failed since a stream last got
\* live, be it in Connect, in the snapshot request or in a read, up to the limit;
\* an exchange that accepts connections and then drops them is not stormed.
RetriesBackOff ==
  thread = "top" /\ ~connected /\ ~stopping /\ failures > 0 =>
    /\ rested >= (4 * Base(failures - 1)) \div 5
    /\ rested <= (6 * MaxDelay + 4) \div 5
=============================================================================
