------------------------------- MODULE LiveRun ------------------------------
(***************************************************************************)
(* The live program over time: RunLive of src/engine/main.cpp, which       *)
(* starts the market-data, engine and cross-check threads, waits for a     *)
(* signal or a deadline, joins them and closes the log; and the loop of    *)
(* Engine::Run, with its staleness check and its periodic flush.           *)
(*                                                                         *)
(* What the threads say to each other is the subject of MarketData,        *)
(* CrossCheck, EventLog and Strategy.  Here an event is the time it was    *)
(* received and whether it belongs to a snapshot; whether the verifier     *)
(* finds a gap, a cross-check fails and the strategy quotes are choices.   *)
(* Sleeps of the cross-check and main threads last any time.               *)
(***************************************************************************)
EXTENDS Integers, Sequences

CONSTANTS StaleThreshold,  \* stale_threshold_ns_
          FlushPeriod,     \* kLogFlushNs
          Deadline,        \* deadline_ns: 0 if there is none
          QueueSize,       \* room in the market and the cross-check queue
          MaxIteration,    \* bound: how long one pass of the engine takes
          MaxTime          \* bound: the clock

ASSUME FlushPeriodAssumption == FlushPeriod \in Nat
ASSUME MaxIterationAssumption == MaxIteration \in Nat

VARIABLES now,         \* NowNs()
          stop,        \* g_stop
          main,        \* "status", then "joined", "closed", "exited"
          md,          \* "run", then "done"
          cc,          \* "sleep", "fetch", then "done"
          eng,         \* the engine: "top", "drain", "judge", "age", "flush",
                       \* "final", "done"
          spent,       \* how long the engine's present pass has taken
          queue,       \* the market queue
          cc_queue,    \* the cross-check queue: how many messages
          live,        \* book_live_
          updated,     \* book_.LastUpdateTsNs()
          stale,       \* stale_
          quoting,     \* does the strategy have quotes in the market?
          last_flush,  \* last_flush_ns_
          oldest,      \* when the oldest record still in buf_ was written; 0 if
                       \* buf_ is empty
          faults,      \* undetected_gaps() + crosscheck_fail > 0
          code         \* what RunLive returned

engineVars == <<live, updated, stale, quoting, last_flush, oldest, faults>>
liveVars == <<now, stop, main, md, cc, eng, spent, queue, cc_queue,
              engineVars, code>>

LiveInit ==
  /\ now = 1 /\ stop = FALSE
  /\ main = "status" /\ md = "run" /\ cc = "sleep"
  /\ eng = "top" /\ spent = 0
  /\ queue = <<>> /\ cc_queue = 0
  /\ live = FALSE /\ updated = 0 /\ stale = FALSE /\ quoting = FALSE
  /\ last_flush = 0 /\ oldest = 0
  /\ faults = FALSE /\ code = -1
-----------------------------------------------------------------------------
(* The clock and the signal handler *)

\* A pass of a running engine takes at most MaxIteration.
Tick ==
  /\ now < MaxTime
  /\ eng # "done" => spent < MaxIteration
  /\ now' = now + 1
  /\ spent' = IF eng = "done" THEN 0 ELSE spent + 1
  /\ UNCHANGED <<stop, main, md, cc, eng, queue, cc_queue, engineVars, code>>

OnSignal ==
  /\ main = "status"
  /\ stop' = TRUE
  /\ UNCHANGED <<now, main, md, cc, eng, spent, queue, cc_queue, engineVars, code>>
-----------------------------------------------------------------------------
(* MarketDataThread::Run, as far as the engine sees it *)

MdPush(snapshot) ==
  /\ md = "run" /\ Len(queue) < QueueSize
  /\ queue' = Append(queue, [ts |-> now, snapshot |-> snapshot])
  /\ UNCHANGED <<now, stop, main, md, cc, eng, spent, cc_queue, engineVars, code>>

MdEnd ==
  /\ md = "run" /\ stop
  /\ md' = "done"
  /\ UNCHANGED <<now, stop, main, cc, eng, spent, queue, cc_queue, engineVars, code>>
-----------------------------------------------------------------------------
(* The cross-check thread: the lambda in RunLive *)

CcSleep ==
  /\ cc = "sleep"
  /\ cc' = IF stop THEN "done" ELSE "fetch"
  /\ UNCHANGED <<now, stop, main, md, eng, spent, queue, cc_queue, engineVars, code>>

\* Get answers or fails; a message is dropped if it cannot be parsed or the
\* queue is full.
CcFetch(pushed) ==
  /\ cc = "fetch"
  /\ cc' = IF stop THEN "done" ELSE "sleep"
  /\ pushed => cc_queue < QueueSize
  /\ cc_queue' = IF pushed THEN cc_queue + 1 ELSE cc_queue
  /\ UNCHANGED <<now, stop, main, md, eng, spent, queue, engineVars, code>>
-----------------------------------------------------------------------------
(* Engine::Run *)

EngineTop ==
  /\ eng = "top"
  /\ eng' = IF stop THEN "final" ELSE "drain"
  /\ UNCHANGED <<now, stop, main, md, cc, spent, queue, cc_queue, engineVars, code>>

\* One event in Drain: gap is the verifier's finding, quote whether the strategy
\* has quotes after it, spill whether its records fill buf_ and are flushed at once.
Pop(gap, quote, spill) ==
  LET ev == Head(queue)
  IN  /\ eng \in {"drain", "final"} /\ queue # <<>>
      /\ queue' = Tail(queue)
      /\ live' = ~ev.snapshot
      /\ updated' = ev.ts
      /\ quoting' = (~ev.snapshot /\ quote)
      /\ oldest' = IF spill THEN 0 ELSE IF oldest = 0 THEN now ELSE oldest
      /\ faults' = (faults \/ gap)
      /\ UNCHANGED <<now, stop, main, md, cc, eng, spent, cc_queue, stale,
                     last_flush, code>>

Drained ==
  /\ eng = "drain" /\ queue = <<>>
  /\ eng' = "judge"
  /\ UNCHANGED <<now, stop, main, md, cc, spent, queue, cc_queue, engineVars, code>>

\* One message in HandleCrossChecks.
Judge(mismatch) ==
  /\ eng = "judge" /\ cc_queue > 0
  /\ cc_queue' = cc_queue - 1
  /\ faults' = (faults \/ mismatch)
  /\ UNCHANGED <<now, stop, main, md, cc, eng, spent, queue, live, updated,
                 stale, quoting, last_flush, oldest, code>>

Judged ==
  /\ eng = "judge" /\ cc_queue = 0
  /\ eng' = "age"
  /\ UNCHANGED <<now, stop, main, md, cc, spent, queue, cc_queue, engineVars, code>>

\* stale_ is only written while the book is live.
CheckAge ==
  /\ eng = "age"
  /\ eng' = "flush"
  /\ stale' = IF live THEN now - updated > StaleThreshold ELSE stale
  /\ UNCHANGED <<now, stop, main, md, cc, spent, queue, cc_queue, live, updated,
                 quoting, last_flush, oldest, faults, code>>

\* The periodic flush, and the end of the pass.  PeriodicFlushMutant takes the
\* time of every pass for the time of the last flush.
PeriodicFlushMutant ==
  /\ eng = "flush"
  /\ eng' = "top" /\ spent' = 0
  /\ oldest' = IF now - last_flush > FlushPeriod THEN 0 ELSE oldest
  /\ last_flush' = now
  /\ UNCHANGED <<now, stop, main, md, cc, queue, cc_queue, live, updated, stale,
                 quoting, faults, code>>

PeriodicFlush ==
  /\ eng = "flush"
  /\ eng' = "top" /\ spent' = 0
  /\ IF now - last_flush > FlushPeriod
       THEN oldest' = 0 /\ last_flush' = now
       ELSE UNCHANGED <<oldest, last_flush>>
  /\ UNCHANGED <<now, stop, main, md, cc, queue, cc_queue, live, updated, stale,
                 quoting, faults, code>>

\* The final drain found the queue empty.
FinalFlush ==
  /\ eng = "final" /\ queue = <<>>
  /\ eng' = "done" /\ spent' = 0
  /\ oldest' = 0
  /\ UNCHANGED <<now, stop, main, md, cc, queue, cc_queue, live, updated, stale,
                 quoting, last_flush, faults, code>>
-----------------------------------------------------------------------------
(* The main thread *)

\* A pass of the status loop that finds the deadline past.  StatusMutant has no
\* deadline unless a signal came.
StatusMutant ==
  /\ main = "status" /\ stop /\ Deadline # 0 /\ now >= Deadline
  /\ stop' = TRUE
  /\ UNCHANGED <<now, main, md, cc, eng, spent, queue, cc_queue, engineVars, code>>

Status ==
  /\ main = "status" /\ Deadline # 0 /\ now >= Deadline
  /\ stop' = TRUE
  /\ UNCHANGED <<now, main, md, cc, eng, spent, queue, cc_queue, engineVars, code>>

\* Out of the loop, and the three joins.  JoinMutant does not wait for the engine.
JoinMutant ==
  /\ main = "status" /\ stop
  /\ md = "done" /\ cc = "done"
  /\ main' = "joined"
  /\ UNCHANGED <<now, stop, md, cc, eng, spent, queue, cc_queue, engineVars, code>>

Join ==
  /\ main = "status" /\ stop
  /\ md = "done" /\ eng = "done" /\ cc = "done"
  /\ main' = "joined"
  /\ UNCHANGED <<now, stop, md, cc, eng, spent, queue, cc_queue, engineVars, code>>

CloseLog ==
  /\ main = "joined"
  /\ main' = "closed"
  /\ oldest' = 0
  /\ UNCHANGED <<now, stop, md, cc, eng, spent, queue, cc_queue, live, updated,
                 stale, quoting, last_flush, faults, code>>

Return ==
  /\ main = "closed"
  /\ main' = "exited"
  /\ code' = IF faults THEN 1 ELSE 0
  /\ UNCHANGED <<now, stop, md, cc, eng, spent, queue, cc_queue, engineVars>>
-----------------------------------------------------------------------------
EngineStep ==
  \/ EngineTop
  \/ \E gap, quote, spill \in BOOLEAN : Pop(gap, quote, spill)
  \/ Drained
  \/ \E mismatch \in BOOLEAN : Judge(mismatch)
  \/ Judged \/ CheckAge \/ PeriodicFlush \/ FinalFlush

MainStep == Status \/ Join \/ CloseLog \/ Return

CcStep == CcSleep \/ \E pushed \in BOOLEAN : CcFetch(pushed)

LiveNext ==
  \/ Tick \/ OnSignal
  \/ \E snapshot \in BOOLEAN : MdPush(snapshot)
  \/ MdEnd
  \/ CcStep \/ EngineStep \/ MainStep

\* Time passes and every thread runs: the engine never blocks, a request and a
\* read end by their timeouts, and the market-data thread sees g_stop wherever it
\* waits (ShutdownTerminates of MarketData).  No event need ever come, but those
\* that come do so at a finite rate: an engine that finds its queues empty again
\* and again leaves the loops of Drain and HandleCrossChecks, which do not look at
\* g_stop themselves.
LiveFairness ==
  /\ WF_liveVars(Tick)
  /\ WF_liveVars(MdEnd)
  /\ WF_liveVars(CcStep)
  /\ WF_liveVars(EngineStep)
  /\ SF_liveVars(Drained) /\ SF_liveVars(Judged)
  /\ WF_liveVars(MainStep)

LiveSpec == LiveInit /\ [][LiveNext]_liveVars /\ LiveFairness
-----------------------------------------------------------------------------
(* Properties *)

\* What a crash can cost: a record waits in buf_ for at most a flush period and
\* one pass of Engine::Run, whenever it was written and however the passes fall.
LossIsBounded == oldest # 0 => now - oldest <= FlushPeriod + MaxIteration

\* RunLive closes the log and reads the counters when nobody writes them any
\* more: no thread is left, no record stays behind in buf_, and the exit code
\* tells of every gap and every mismatch the engine ever found.
ExitIsOrderly ==
  /\ main \in {"closed", "exited"} =>
       md = "done" /\ eng = "done" /\ cc = "done" /\ oldest = 0
  /\ main = "exited" => (code = 0 <=> ~faults)

\* RunLive returns: after a signal, or once --seconds have passed, every thread
\* sees g_stop wherever it is, and main gets past all three joins.
ProgramEnds == (stop \/ Deadline # 0) ~> main = "exited"

\* ARCHITECTURE.md: "Stale book (> 500ms without update) => pull quotes."  A book
\* the engine itself has found stale has no quotes of ours resting on it.
NoQuotesOnStaleBook == live /\ stale => ~quoting
=============================================================================
