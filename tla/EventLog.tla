------------------------------ MODULE EventLog ------------------------------
(***************************************************************************)
(* The binary event log and the replay of it: EventLogWriter and           *)
(* EventLogReader (src/engine/event_log.cpp), the part of Engine::Drain    *)
(* that feeds the log (engine.cpp), and ReplayEvents and ReplayStrategy    *)
(* (replay.cpp), which repeat the engine's computation from the file.      *)
(*                                                                         *)
(* The file is a sequence of cells: the file header, then a header and a   *)
(* payload for each record.  A cell is what one Append of the writer adds. *)
(* A cell that is on disk only in part is as good as absent, since every   *)
(* short read ends the reader's loop.                                      *)
(*                                                                         *)
(* Book and strategy are deterministic, so each is represented by all it   *)
(* was told: the book by the events applied since Clear, the strategy by   *)
(* the calls of OnResync and OnEvent.                                      *)
(***************************************************************************)
EXTENDS GapVerifier, SequencesExt

CONSTANTS MaxEvents,       \* bound on the events of a run
          MaxId,           \* bound on update ids
          FlushThreshold   \* kFlushThreshold, in cells

ASSUME MaxEventsAssumption == MaxEvents \in Nat
ASSUME MaxIdAssumption == MaxId \in Nat
ASSUME FlushThresholdAssumption == FlushThreshold \in Nat \ {0}

VARIABLES engine,      \* verifier_, book_, book_live_ and strat_
          input,       \* history: the events popped
          decisions,   \* history: the decisions taken
          outputs,     \* history: the strategy's quotes and fills
          pending,     \* cells that Drain has still to Append for this event
          buf,         \* buf_
          disk,        \* the file
          status       \* is the process running, crashed or closed?

logVars == <<engine, input, decisions, outputs, pending, buf, disk, status>>

Event == [kind: {"Snapshot", "DepthDiff"}, U: 0 .. MaxId, u: 0 .. MaxId,
          start: BOOLEAN, cont: BOOLEAN]

RecordTypes == {"MarketEvent", "Decision", "Quote", "Fill"}
FileHeader == [part |-> "File"]

Record(type, data) == [type |-> type, data |-> data]

\* WriteRecord, for each of some records: a header and a payload.
Cells(recs) ==
  [i \in 1 .. 2 * Len(recs) |->
     IF i % 2 = 1 THEN [part |-> "Header", type |-> recs[(i + 1) \div 2].type]
                  ELSE [part |-> "Payload", data |-> recs[i \div 2].data]]

\* The types of the variables; a buffer never keeps a threshold's worth of cells.
LogTypeOK ==
  /\ engine.verifier \in [have_snapshot: BOOLEAN, live: BOOLEAN, snapshot_last_id: 0 .. MaxId,
                          prev_u: 0 .. MaxId, prev_continuation: BOOLEAN, undetected_gaps: Nat]
  /\ engine.book \in Seq(Event) /\ engine.live \in BOOLEAN
  /\ engine.strategy \in Seq([call: {"OnResync"}] \cup [call: {"OnEvent"}, book: Seq(Event), ev: Event])
  /\ input \in Seq(Event) /\ Len(decisions) = Len(input)
  /\ \A cells \in {pending, buf, disk} : \A i \in DOMAIN cells :
       /\ cells[i].part \in {"File", "Header", "Payload"}
       /\ cells[i].part = "Header" => cells[i].type \in RecordTypes
  /\ Len(buf) < FlushThreshold
  /\ status \in {"running", "crashed", "closed"}

EngineInit == [verifier |-> VerifierInit, book |-> << >>, live |-> FALSE, strategy |-> << >>]

\* The constructor of the writer has Appended the file header.
LogInit ==
  /\ engine = EngineInit
  /\ input = << >> /\ decisions = << >> /\ outputs = << >>
  /\ pending = << >>
  /\ buf = IF FlushThreshold > 1 THEN <<FileHeader>> ELSE << >>
  /\ disk = IF FlushThreshold > 1 THEN << >> ELSE <<FileHeader>>
  /\ status = "running"
-----------------------------------------------------------------------------
(* What the engine and the replay share *)

\* MakeDecision: what a decision records.
MakeDecision(book, id, live, gap) == [book |-> book, id |-> id, live |-> live, gap |-> gap]

\* What OnEvent returns is a function of the strategy's past.  Some ticks give
\* nothing, some a quote, some a quote and a fill.
StrategyOutput(calls) ==
  LET quote == [type |-> "Quote", of |-> calls]
      fill  == [type |-> "Fill", of |-> calls]
  IN  CASE Len(calls) % 3 = 0 -> << >>
        [] Len(calls) % 3 = 1 -> <<quote, fill>>
        [] Len(calls) % 3 = 2 -> <<quote>>
-----------------------------------------------------------------------------
(* The live engine *)

\* Does the stream go on with ev?  This is what the market-data thread pushes:
\* snapshots, diffs that bracket or continue, and groups that stay whole.
Follows(ev) ==
  IF input = << >> THEN ev.kind = "Snapshot" /\ ev.start
  ELSE LET prev == Last(input)
       IN  IF prev.cont
           THEN ev.kind = prev.kind /\ ev.U = prev.U /\ ev.u = prev.u /\ ~ev.start
           ELSE \/ ev.kind = "Snapshot" /\ ev.start
                \/ /\ ev.kind = "DepthDiff"
                   /\ IF prev.kind = "Snapshot" THEN ev.U <= prev.u + 1 /\ prev.u + 1 <= ev.u
                                                ELSE ev.U = prev.u + 1

Events == {ev \in Event : /\ ev.U <= ev.u
                          /\ ev.start => ev.kind = "Snapshot"
                          /\ ev.kind = "Snapshot" => ev.U = ev.u}

\* The order of the records of one event.  LogRecordsMutant logs the decision
\* ahead of its input.
LogRecordsMutant(ev, decision, out) ==
  <<Record("Decision", decision), Record("MarketEvent", ev)>>
    \o [i \in 1 .. Len(out) |-> Record(out[i].type, out[i])]
LogRecords(ev, decision, out) ==
  <<Record("MarketEvent", ev), Record("Decision", decision)>>
    \o [i \in 1 .. Len(out) |-> Record(out[i].type, out[i])]

\* Drain, for one event, up to its writes to the log.
Drain(ev) ==
  /\ status = "running" /\ pending = << >>
  /\ Len(input) < MaxEvents /\ Follows(ev)
  /\ LET ok    == VerifierOk(engine.verifier, ev)
         book  == Append(IF ev.start THEN << >> ELSE engine.book, ev)
         live  == (engine.live /\ ~ev.start) \/ ev.kind = "DepthDiff"
         tick  == live /\ ~ev.cont
         calls == engine.strategy
                    \o (IF ev.start THEN <<[call |-> "OnResync"]>> ELSE << >>)
                    \o (IF tick THEN <<[call |-> "OnEvent", book |-> book, ev |-> ev]>> ELSE << >>)
         out   == IF tick THEN StrategyOutput(calls) ELSE << >>
         decision == MakeDecision(book, ev.u, live, ~ok)
     IN  /\ engine' = [verifier |-> VerifierCheck(engine.verifier, ev), book |-> book,
                       live |-> live, strategy |-> calls]
         /\ decisions' = Append(decisions, decision)
         /\ outputs' = outputs \o out
         /\ pending' = Cells(LogRecords(ev, decision, out))
  /\ input' = Append(input, ev)
  /\ UNCHANGED <<buf, disk, status>>
-----------------------------------------------------------------------------
(* The writer *)

\* When Append flushes.  FullMutant does it a cell too late.
FullMutant(cells) == Len(cells) > FlushThreshold
Full(cells) == Len(cells) >= FlushThreshold

\* One Append.
WriteCell ==
  /\ status = "running" /\ pending # << >>
  /\ LET cells == Append(buf, Head(pending))
     IN  IF Full(cells) THEN buf' = << >> /\ disk' = disk \o cells
                        ELSE buf' = cells /\ disk' = disk
  /\ pending' = Tail(pending)
  /\ UNCHANGED <<engine, input, decisions, outputs, status>>

\* Run's 5 s timer.
TimerFlush ==
  /\ status = "running" /\ pending = << >>
  /\ buf # << >>
  /\ buf' = << >> /\ disk' = disk \o buf
  /\ UNCHANGED <<engine, input, decisions, outputs, pending, status>>

\* The end of Run, and Close.  CloseMutant forgets to flush.
CloseMutant ==
  /\ status = "running" /\ pending = << >>
  /\ status' = "closed"
  /\ buf' = << >> /\ disk' = disk
  /\ UNCHANGED <<engine, input, decisions, outputs, pending>>

Close ==
  /\ status = "running" /\ pending = << >>
  /\ status' = "closed"
  /\ buf' = << >> /\ disk' = disk \o buf
  /\ UNCHANGED <<engine, input, decisions, outputs, pending>>

\* The cells that a flush going on now is writing.
InFlight ==
  IF pending = << >> THEN buf
  ELSE IF Full(Append(buf, Head(pending))) THEN Append(buf, Head(pending)) ELSE << >>

\* The process dies, perhaps within a flush, of which n cells reach the file.
Crash(n) ==
  /\ status = "running"
  /\ n <= Len(InFlight)
  /\ status' = "crashed"
  /\ disk' = disk \o SubSeq(InFlight, 1, n)
  /\ UNCHANGED <<engine, input, decisions, outputs, pending, buf>>

LogNext ==
  \/ \E ev \in Events : Drain(ev)
  \/ WriteCell
  \/ TimerFlush
  \/ Close
  \/ \E n \in 0 .. FlushThreshold : Crash(n)

LogSpec == LogInit /\ [][LogNext]_logVars
-----------------------------------------------------------------------------
(* The reader and the replay *)

\* The constructor of the reader accepts the file.
Readable(file) == file # << >> /\ Head(file) = FileHeader

\* The whole records of a file, in order; a header or a payload that is not
\* there ends the loop.
Records(file) ==
  [i \in 1 .. (Len(file) - 1) \div 2 |-> Record(file[2 * i].type, file[2 * i + 1].data)]

\* The payloads of the records of some types: the loop skips the others.
Select(recs, types) ==
  LET read[n \in 0 .. Len(recs)] ==
        IF n = 0 THEN << >>
        ELSE IF recs[n].type \in types THEN Append(read[n - 1], recs[n].data)
        ELSE read[n - 1]
  IN  read[Len(recs)]

Payloads(file, types) == Select(Records(file), types)

ReadLogEvents(file) == Payloads(file, {"MarketEvent"})

\* ReplayEvents, for one event.
ReplayStep(r, ev) ==
  LET book == Append(IF ev.start THEN << >> ELSE r.book, ev)
      live == (r.live /\ ~ev.start) \/ ev.kind = "DepthDiff"
  IN  [verifier |-> VerifierCheck(r.verifier, ev), book |-> book, live |-> live,
       out |-> Append(r.out, MakeDecision(book, ev.u, live, ~VerifierOk(r.verifier, ev)))]

ReplayInit == [verifier |-> VerifierInit, book |-> << >>, live |-> FALSE, out |-> << >>]

Replayed(evs) ==
  LET state[n \in 0 .. Len(evs)] ==
        IF n = 0 THEN ReplayInit ELSE ReplayStep(state[n - 1], evs[n])
  IN  state[Len(evs)]

ReplayEvents(evs) == Replayed(evs).out

\* ReplayStrategy, for one event.  StrategyStepMutant ticks within a group.
StrategyStepMutant(r, ev) ==
  LET book  == Append(IF ev.start THEN << >> ELSE r.book, ev)
      live  == (r.live /\ ~ev.start) \/ ev.kind = "DepthDiff"
      resync == IF ev.start THEN Append(r.calls, [call |-> "OnResync"]) ELSE r.calls
      calls == IF live THEN Append(resync, [call |-> "OnEvent", book |-> book, ev |-> ev])
               ELSE resync
  IN  [book |-> book, live |-> live, calls |-> calls,
       out |-> IF live THEN r.out \o StrategyOutput(calls) ELSE r.out]
StrategyStep(r, ev) ==
  LET book  == Append(IF ev.start THEN << >> ELSE r.book, ev)
      live  == (r.live /\ ~ev.start) \/ ev.kind = "DepthDiff"
      tick  == live /\ ~ev.cont
      resync == IF ev.start THEN Append(r.calls, [call |-> "OnResync"]) ELSE r.calls
      calls == IF tick THEN Append(resync, [call |-> "OnEvent", book |-> book, ev |-> ev])
               ELSE resync
  IN  [book |-> book, live |-> live, calls |-> calls,
       out |-> IF tick THEN r.out \o StrategyOutput(calls) ELSE r.out]

StrategyStart == [book |-> << >>, live |-> FALSE, calls |-> << >>, out |-> << >>]

StrategyRun(evs) ==
  LET state[n \in 0 .. Len(evs)] ==
        IF n = 0 THEN StrategyStart ELSE StrategyStep(state[n - 1], evs[n])
  IN  state[Len(evs)]

ReplayStrategy(evs) == StrategyRun(evs).out
-----------------------------------------------------------------------------
(* Properties *)

\* ReplayLogFile and ReplayStrategyFile repeat the live run as far as the file
\* goes, wherever a crash cut it: the decisions and the quotes and fills they
\* compute are those the engine made.
ReplayReproducesLive ==
  Readable(disk) =>
    LET evs == ReadLogEvents(disk)
    IN  /\ IsPrefix(evs, input)
        /\ IsPrefix(ReplayEvents(evs), decisions)
        /\ IsPrefix(ReplayStrategy(evs), outputs)

\* The file can be audited against its own replay: what it records of decisions,
\* quotes and fills is what replaying its events gives, and at most the last
\* event lacks its decision.
LogAgreesWithReplay ==
  Readable(disk) =>
    LET evs  == ReadLogEvents(disk)
        recs == Payloads(disk, {"Decision"})
    IN  /\ IsPrefix(recs, ReplayEvents(evs))
        /\ Len(evs) <= Len(recs) + 1
        /\ IsPrefix(Payloads(disk, {"Quote", "Fill"}), ReplayStrategy(evs))

\* After an orderly end (Run's last flush, then Close) the reader accepts the
\* file and nothing is missing from it.
ClosedLogIsComplete ==
  status = "closed" =>
    /\ Readable(disk)
    /\ ReadLogEvents(disk) = input
    /\ Payloads(disk, {"Decision"}) = decisions
    /\ Payloads(disk, {"Quote", "Fill"}) = outputs
=============================================================================
