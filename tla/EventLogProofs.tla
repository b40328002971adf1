--------------------------- MODULE EventLogProofs ---------------------------
(***************************************************************************)
(* Proofs about the event log and its replay (src/engine/event_log.cpp and *)
(* replay.cpp), for every flush threshold, every length of the run and     *)
(* every point at which a crash cuts the file.                             *)
(*                                                                         *)
(* The invariant LogInv names the records of the whole run: the cells in   *)
(* the file, in the buffer and still to be Appended are theirs, and every  *)
(* initial part of them agrees with its own replay and with the run.  A    *)
(* crash keeps an initial part, so the reader gets one of those.  The      *)
(* loops of the reader and the replay are recursive functions; what they   *)
(* compute follows from their equations, one pass at a time.               *)
(***************************************************************************)
EXTENDS EventLog, SequenceTheorems, WellFoundedInduction, TLAPS

(* Loops over a sequence *)

\* A non-empty set of naturals has a least member.
LEMMA LeastNat ==
  ASSUME NEW T \in SUBSET Nat, T # {}
  PROVE  \E x \in T : \A y \in T : x <= y
<1> DEFINE R == OpToRel(<, Nat)
<1>1. IsWellFoundedOn(R, Nat)
  BY NatLessThanWellFounded, Zenon
<1>2. \A x, y \in Nat : y < x => <<y, x>> \in R
  BY DEF OpToRel
<1> HIDE DEF R
<1>3. PICK x \in T : \A y \in T : ~ (<<y, x>> \in R)
  BY <1>1, WFMin, Zenon
<1>4. \A y \in T : ~ (y < x)
  <2> TAKE y \in T
  <2>1. y \in Nat /\ x \in Nat
    OBVIOUS
  <2>2. y < x => <<y, x>> \in R
    BY <1>2, <2>1, Zenon
  <2> QED
    BY <1>3, <2>2, Zenon
<1>5. \A y \in T : x <= y
  BY <1>4
<1> QED
  BY <1>5

\* The three loops of the reader and the replay: which, where each starts, and
\* its n-th pass over x (t is the set of types that "select" keeps).
Start(loop) ==
  CASE loop = "select" -> << >>
    [] loop = "replay" -> ReplayInit
    [] loop = "strategy" -> StrategyStart

Pass(loop, x, t, n, s) ==
  CASE loop = "select" -> IF x[n].type \in t THEN Append(s, x[n].data) ELSE s
    [] loop = "replay" -> ReplayStep(s, x[n])
    [] loop = "strategy" -> StrategyStep(s, x[n])

\* The equation of a loop's states: f[m] is the state after m passes.
Body(loop, x, t, n, f) ==
  [m \in 0 .. n |-> IF m = 0 THEN Start(loop) ELSE Pass(loop, x, t, m, f[m - 1])]

\* The equation has a solution.
LEMMA LoopRuns ==
  ASSUME NEW loop, NEW x, NEW t, NEW N \in Nat
  PROVE  \E f : f = Body(loop, x, t, N, f)
<1> DEFINE T == {n \in Nat : ~ \E f : f = Body(loop, x, t, n, f)}
<1> SUFFICES ASSUME T # {} PROVE FALSE
  OBVIOUS
<1>1. PICK n \in T : \A y \in T : n <= y
  BY LeastNat, Zenon
<1>2. n \in Nat /\ ~ \E f : f = Body(loop, x, t, n, f)
  OBVIOUS
<1>3. CASE n = 0
  <2> DEFINE g == [m \in 0 .. n |-> Start(loop)]
  <2>1. g = Body(loop, x, t, n, g)
    BY <1>3 DEF Body
  <2> QED
    BY <2>1, <1>2
<1>4. CASE n # 0
  <2>1. n - 1 \in Nat /\ ~ (n <= n - 1)
    BY <1>2, <1>4
  <2>2. n - 1 \notin T
    BY <1>1, <2>1
  <2>3. PICK f : f = Body(loop, x, t, n - 1, f)
    BY <2>1, <2>2
  <2>4. \A m \in 0 .. n - 1 :
          f[m] = IF m = 0 THEN Start(loop) ELSE Pass(loop, x, t, m, f[m - 1])
    BY <2>3 DEF Body
  <2> DEFINE g == [m \in 0 .. n |-> IF m = n THEN Pass(loop, x, t, n, f[n - 1]) ELSE f[m]]
             h == [m \in 0 .. n |->
                     IF m = 0 THEN Start(loop) ELSE Pass(loop, x, t, m, g[m - 1])]
  <2>5. ASSUME NEW m \in 0 .. n PROVE g[m] = h[m]
    <3>1. CASE m = 0
      BY <3>1, <2>4, <1>2, <1>4
    <3>2. CASE m # 0
      <4>1. m - 1 \in 0 .. n - 1 /\ m - 1 \in 0 .. n /\ m - 1 # n
        BY <3>2, <1>2
      <4>2. g[m - 1] = f[m - 1]
        BY <4>1
      <4>3. h[m] = Pass(loop, x, t, m, f[m - 1])
        BY <4>2, <3>2
      <4>4. m # n => m \in 0 .. n - 1
        BY <1>2
      <4> QED
        BY <4>3, <4>4, <3>2, <2>4
    <3> QED
      BY <3>1, <3>2
  <2>6. g = h
    BY <2>5, Zenon
  <2>7. h = Body(loop, x, t, n, g)
    BY DEF Body
  <2> QED
    BY <2>6, <2>7, <1>2
<1> QED
  BY <1>3, <1>4

\* Two runs of a loop over sequences that agree so far are in the same states.
LEMMA LoopAgrees ==
  ASSUME NEW loop, NEW x, NEW y, NEW t, NEW n \in Nat, NEW N \in Nat, n <= N,
         NEW f, NEW g, f = Body(loop, x, t, n, f), g = Body(loop, y, t, N, g),
         \A m \in 1 .. n : x[m] = y[m]
  PROVE  \A m \in 0 .. n : f[m] = g[m]
<1> DEFINE T == {m \in 0 .. n : f[m] # g[m]}
<1> SUFFICES ASSUME T # {} PROVE FALSE
  OBVIOUS
<1>1. PICK m \in T : \A y1 \in T : m <= y1
  <2>1. T \in SUBSET Nat
    OBVIOUS
  <2> QED
    BY <2>1, LeastNat, Zenon
<1>2. m \in 0 .. n /\ m \in 0 .. N /\ f[m] # g[m]
  OBVIOUS
<1>3. f[m] = IF m = 0 THEN Start(loop) ELSE Pass(loop, x, t, m, f[m - 1])
  BY <1>2 DEF Body
<1>4. g[m] = IF m = 0 THEN Start(loop) ELSE Pass(loop, y, t, m, g[m - 1])
  BY <1>2 DEF Body
<1>5. m # 0
  BY <1>2, <1>3, <1>4
<1>6. m - 1 \in 0 .. n /\ ~ (m <= m - 1) /\ m \in 1 .. n
  BY <1>2, <1>5
<1>7. f[m - 1] = g[m - 1] /\ x[m] = y[m]
  BY <1>1, <1>6
<1>8. Pass(loop, x, t, m, f[m - 1]) = Pass(loop, y, t, m, g[m - 1])
  BY <1>7 DEF Pass
<1> QED
  BY <1>2, <1>3, <1>4, <1>5, <1>8

\* One more element is one more pass.
LEMMA LoopStep ==
  ASSUME NEW loop, NEW x, NEW y, NEW t, NEW n \in Nat,
         NEW f, NEW g, f = Body(loop, x, t, n, f), g = Body(loop, y, t, n + 1, g),
         \A m \in 1 .. n : x[m] = y[m]
  PROVE  g[n + 1] = Pass(loop, y, t, n + 1, f[n])
<1>1. f[n] = g[n]
  <2>1. n + 1 \in Nat /\ n <= n + 1 /\ n \in 0 .. n
    OBVIOUS
  <2> QED
    BY <2>1, LoopAgrees
<1>2. g[n + 1] = IF n + 1 = 0 THEN Start(loop) ELSE Pass(loop, y, t, n + 1, g[n + 1 - 1])
  BY DEF Body
<1>3. n + 1 # 0 /\ n + 1 - 1 = n
  OBVIOUS
<1> QED
  BY <1>1, <1>2, <1>3

\* No element is no pass.
LEMMA LoopStarts ==
  ASSUME NEW loop, NEW x, NEW t, NEW f, f = Body(loop, x, t, 0, f)
  PROVE  f[0] = Start(loop)
BY DEF Body
-----------------------------------------------------------------------------
(* The three loops *)

SelectBody(recs, types, f) ==
  [n \in 0 .. Len(recs) |->
     IF n = 0 THEN << >>
     ELSE IF recs[n].type \in types THEN Append(f[n - 1], recs[n].data)
     ELSE f[n - 1]]

ReplayBody(evs, f) ==
  [n \in 0 .. Len(evs) |-> IF n = 0 THEN ReplayInit ELSE ReplayStep(f[n - 1], evs[n])]

StrategyBody(evs, f) ==
  [n \in 0 .. Len(evs) |-> IF n = 0 THEN StrategyStart ELSE StrategyStep(f[n - 1], evs[n])]

\* What each loop returns is the last state of a run.
LEMMA SelectRuns ==
  ASSUME NEW recs, NEW types, Len(recs) \in Nat
  PROVE  \E f : f = Body("select", recs, types, Len(recs), f) /\ Select(recs, types) = f[Len(recs)]
<1>1. Select(recs, types) = (CHOOSE f : f = SelectBody(recs, types, f))[Len(recs)]
  BY Zenon DEF Select, SelectBody
<1>2. \A f : SelectBody(recs, types, f) = Body("select", recs, types, Len(recs), f)
  BY DEF SelectBody, Body, Start, Pass
<1>3. \E f : f = SelectBody(recs, types, f)
  <2>1. \E f : f = Body("select", recs, types, Len(recs), f)
    BY LoopRuns, Zenon
  <2> QED
    BY <1>2, <2>1
<1> DEFINE c == CHOOSE f : f = SelectBody(recs, types, f)
<1>4. c = SelectBody(recs, types, c)
  BY <1>3, Zenon
<1> QED
  BY <1>1, <1>2, <1>4, Zenon

LEMMA ReplayRuns ==
  ASSUME NEW evs, Len(evs) \in Nat
  PROVE  \E f : f = Body("replay", evs, {}, Len(evs), f) /\ Replayed(evs) = f[Len(evs)]
<1>1. Replayed(evs) = (CHOOSE f : f = ReplayBody(evs, f))[Len(evs)]
  BY Zenon DEF Replayed, ReplayBody
<1>2. \A f : ReplayBody(evs, f) = Body("replay", evs, {}, Len(evs), f)
  BY DEF ReplayBody, Body, Start, Pass
<1>3. \E f : f = ReplayBody(evs, f)
  <2>1. \E f : f = Body("replay", evs, {}, Len(evs), f)
    BY LoopRuns
  <2> QED
    BY <1>2, <2>1
<1> DEFINE c == CHOOSE f : f = ReplayBody(evs, f)
<1>4. c = ReplayBody(evs, c)
  BY <1>3, Zenon
<1> QED
  BY <1>1, <1>2, <1>4, Zenon

LEMMA StrategyRuns ==
  ASSUME NEW evs, Len(evs) \in Nat
  PROVE  \E f : f = Body("strategy", evs, {}, Len(evs), f) /\ StrategyRun(evs) = f[Len(evs)]
<1>1. StrategyRun(evs) = (CHOOSE f : f = StrategyBody(evs, f))[Len(evs)]
  BY Zenon DEF StrategyRun, StrategyBody
<1>2. \A f : StrategyBody(evs, f) = Body("strategy", evs, {}, Len(evs), f)
  BY DEF StrategyBody, Body, Start, Pass
<1>3. \E f : f = StrategyBody(evs, f)
  <2>1. \E f : f = Body("strategy", evs, {}, Len(evs), f)
    BY LoopRuns
  <2> QED
    BY <1>2, <2>1
<1> DEFINE c == CHOOSE f : f = StrategyBody(evs, f)
<1>4. c = StrategyBody(evs, c)
  BY <1>3, Zenon
<1> QED
  BY <1>1, <1>2, <1>4, Zenon

\* An appended element is one more pass of each loop.
LEMMA AppendFacts ==
  ASSUME NEW S, NEW s \in Seq(S), NEW e \in S
  PROVE  /\ Append(s, e) \in Seq(S)
         /\ Len(s) \in Nat /\ Len(Append(s, e)) = Len(s) + 1
         /\ \A m \in 1 .. Len(s) : s[m] = Append(s, e)[m]
         /\ Append(s, e)[Len(s) + 1] = e
OBVIOUS

LEMMA SelectAppend ==
  ASSUME NEW S, NEW recs \in Seq(S), NEW r \in S, NEW types
  PROVE  Select(Append(recs, r), types)
           = IF r.type \in types THEN Append(Select(recs, types), r.data)
             ELSE Select(recs, types)
<1>1. PICK a : a = Append(recs, r)
  BY Zenon
<1>2. PICK n : n = Len(recs)
  OBVIOUS
<1>3. n \in Nat /\ Len(a) = n + 1 /\ a[n + 1] = r /\ \A m \in 1 .. n : recs[m] = a[m]
  BY <1>1, <1>2, AppendFacts
<1>4. PICK f : f = Body("select", recs, types, n, f) /\ Select(recs, types) = f[n]
  BY <1>2, <1>3, SelectRuns
<1>5. PICK g : g = Body("select", a, types, n + 1, g) /\ Select(a, types) = g[n + 1]
  <2>1. Len(a) \in Nat
    BY <1>3
  <2> QED
    BY <2>1, <1>3, SelectRuns, Zenon
<1>6. g[n + 1] = Pass("select", a, types, n + 1, f[n])
  BY <1>3, <1>4, <1>5, LoopStep
<1>7. Pass("select", a, types, n + 1, f[n])
        = IF a[n + 1].type \in types THEN Append(f[n], a[n + 1].data) ELSE f[n]
  BY DEF Pass
<1>8. Select(a, types) = IF r.type \in types THEN Append(f[n], r.data) ELSE f[n]
  BY <1>3, <1>5, <1>6, <1>7, Zenon
<1> QED
  BY <1>1, <1>4, <1>8, Zenon

LEMMA SelectEmpty ==
  ASSUME NEW types
  PROVE  Select(<< >>, types) = << >>
<1>1. Len(<< >>) = 0
  OBVIOUS
<1>2. PICK f : f = Body("select", << >>, types, 0, f) /\ Select(<< >>, types) = f[0]
  <2>1. Len(<< >>) \in Nat
    BY <1>1
  <2> QED
    BY <1>1, <2>1, SelectRuns, Zenon
<1>3. f[0] = Start("select")
  BY <1>2, LoopStarts
<1> QED
  BY <1>2, <1>3 DEF Start

LEMMA ReplayAppend ==
  ASSUME NEW S, NEW evs \in Seq(S), NEW ev \in S
  PROVE  Replayed(Append(evs, ev)) = ReplayStep(Replayed(evs), ev)
<1>1. PICK a : a = Append(evs, ev)
  BY Zenon
<1>2. PICK n : n = Len(evs)
  OBVIOUS
<1>3. n \in Nat /\ Len(a) = n + 1 /\ a[n + 1] = ev /\ \A m \in 1 .. n : evs[m] = a[m]
  BY <1>1, <1>2, AppendFacts
<1>4. PICK f : f = Body("replay", evs, {}, n, f) /\ Replayed(evs) = f[n]
  BY <1>2, <1>3, ReplayRuns
<1>5. PICK g : g = Body("replay", a, {}, n + 1, g) /\ Replayed(a) = g[n + 1]
  <2>1. Len(a) \in Nat
    BY <1>3
  <2> QED
    BY <2>1, <1>3, ReplayRuns, Zenon
<1>6. g[n + 1] = Pass("replay", a, {}, n + 1, f[n])
  BY <1>3, <1>4, <1>5, LoopStep
<1>7. Pass("replay", a, {}, n + 1, f[n]) = ReplayStep(f[n], a[n + 1])
  BY DEF Pass
<1> QED
  BY <1>1, <1>3, <1>4, <1>5, <1>6, <1>7, Zenon

LEMMA ReplayEmpty ==
  Replayed(<< >>) = ReplayInit
<1>1. Len(<< >>) = 0
  OBVIOUS
<1>2. PICK f : f = Body("replay", << >>, {}, 0, f) /\ Replayed(<< >>) = f[0]
  <2>1. Len(<< >>) \in Nat
    BY <1>1
  <2> QED
    BY <1>1, <2>1, ReplayRuns, Zenon
<1>3. f[0] = Start("replay")
  BY <1>2, LoopStarts
<1> QED
  BY <1>2, <1>3 DEF Start

LEMMA StrategyAppend ==
  ASSUME NEW S, NEW evs \in Seq(S), NEW ev \in S
  PROVE  StrategyRun(Append(evs, ev)) = StrategyStep(StrategyRun(evs), ev)
<1>1. PICK a : a = Append(evs, ev)
  BY Zenon
<1>2. PICK n : n = Len(evs)
  OBVIOUS
<1>3. n \in Nat /\ Len(a) = n + 1 /\ a[n + 1] = ev /\ \A m \in 1 .. n : evs[m] = a[m]
  BY <1>1, <1>2, AppendFacts
<1>4. PICK f : f = Body("strategy", evs, {}, n, f) /\ StrategyRun(evs) = f[n]
  BY <1>2, <1>3, StrategyRuns
<1>5. PICK g : g = Body("strategy", a, {}, n + 1, g) /\ StrategyRun(a) = g[n + 1]
  <2>1. Len(a) \in Nat
    BY <1>3
  <2> QED
    BY <2>1, <1>3, StrategyRuns, Zenon
<1>6. g[n + 1] = Pass("strategy", a, {}, n + 1, f[n])
  BY <1>3, <1>4, <1>5, LoopStep
<1>7. Pass("strategy", a, {}, n + 1, f[n]) = StrategyStep(f[n], a[n + 1])
  BY DEF Pass
<1> QED
  BY <1>1, <1>3, <1>4, <1>5, <1>6, <1>7, Zenon

LEMMA StrategyEmpty ==
  StrategyRun(<< >>) = StrategyStart
<1>1. Len(<< >>) = 0
  OBVIOUS
<1>2. PICK f : f = Body("strategy", << >>, {}, 0, f) /\ StrategyRun(<< >>) = f[0]
  <2>1. Len(<< >>) \in Nat
    BY <1>1
  <2> QED
    BY <1>1, <2>1, StrategyRuns, Zenon
<1>3. f[0] = Start("strategy")
  BY <1>2, LoopStarts
<1> QED
  BY <1>2, <1>3 DEF Start
-----------------------------------------------------------------------------
(* The cells of a file *)

\* The file with some records.
File(recs) == <<FileHeader>> \o Cells(recs)

\* s is an initial part of t.
Initial(s, t) == Len(s) <= Len(t) /\ \A i \in 1 .. Len(s) : s[i] = t[i]

LEMMA InitialIsPrefix ==
  ASSUME NEW S, NEW s \in Seq(S), NEW t \in Seq(S), Initial(s, t)
  PROVE  IsPrefix(s, t)
<1>1. Len(s) \in Nat /\ Len(t) \in Nat
  OBVIOUS
<1>2. SubSeq(s, 1, Len(s)) = SubSeq(t, 1, Len(s))
  BY <1>1 DEF Initial
<1> QED
  BY <1>2 DEF Initial, IsPrefix

LEMMA InitialAppend ==
  ASSUME NEW S, NEW s \in Seq(S), NEW t \in Seq(S), NEW e \in S
  PROVE  /\ Initial(s, s)
         /\ Initial(s, Append(s, e))
         /\ Initial(s, t) => Initial(s, Append(t, e))
BY DEF Initial

LEMMA InitialConcat ==
  ASSUME NEW S, NEW s \in Seq(S), NEW t \in Seq(S), NEW u \in Seq(S), Initial(s, t)
  PROVE  Initial(s, t \o u)
BY DEF Initial
-----------------------------------------------------------------------------
(* The invariant *)

Verifier == [have_snapshot: BOOLEAN, live: BOOLEAN, snapshot_last_id: 0 .. MaxId,
             prev_u: 0 .. MaxId, prev_continuation: BOOLEAN, undetected_gaps: Nat]
Call == [call: {"OnResync"}] \cup [call: {"OnEvent"}, book: Seq(Event), ev: Event]
Engine == [verifier: Verifier, book: Seq(Event), live: BOOLEAN, strategy: Seq(Call)]
Decision == [book: Seq(Event), id: 0 .. MaxId, live: BOOLEAN, gap: BOOLEAN]
Output == [type: {"Quote", "Fill"}, of: Seq(Call)]
Rec == [type: RecordTypes, data: Event \cup Decision \cup Output]
Cell == {FileHeader} \cup [part: {"Header"}, type: RecordTypes]
          \cup [part: {"Payload"}, data: Event \cup Decision \cup Output]

\* The types the reader asks for.
ME == {"MarketEvent"}
DE == {"Decision"}
OU == {"Quote", "Fill"}

\* Events evs, decisions des and outputs ous that a file holds agree with the
\* replay rd, ro of those events and with the run's in, dec and outp.
Agree(evs, des, ous, rd, ro, in, dec, outp) ==
  /\ evs \in Seq(Event) /\ des \in Seq(Decision) /\ ous \in Seq(Output)
  /\ rd \in Seq(Decision) /\ ro \in Seq(Output)
  /\ Initial(evs, in) /\ Initial(rd, dec) /\ Initial(ro, outp)
  /\ Initial(des, rd) /\ Len(evs) <= Len(des) + 1
  /\ Initial(ous, ro)

Audited(recs, in, dec, outp) ==
  Agree(Select(recs, ME), Select(recs, DE), Select(recs, OU),
        ReplayEvents(Select(recs, ME)), ReplayStrategy(Select(recs, ME)), in, dec, outp)

\* The records hold evs, des and ous, and wherever a crash cuts them, what is
\* left can be audited.
Holds(recs, evs, des, ous, in, dec, outp) ==
  /\ recs \in Seq(Rec)
  /\ Select(recs, ME) = evs /\ Select(recs, DE) = des /\ Select(recs, OU) = ous
  /\ \A k \in 0 .. Len(recs) : Audited(SubSeq(recs, 1, k), in, dec, outp)

\* Where the records of the run are.
Stored(recs) ==
  /\ Initial(disk, File(recs))
  /\ status # "crashed" => (disk \o buf) \o pending = File(recs)
  /\ status = "closed" => buf = << >> /\ pending = << >>

LogTyped ==
  /\ engine \in Engine
  /\ input \in Seq(Event) /\ decisions \in Seq(Decision) /\ outputs \in Seq(Output)
  /\ Len(decisions) = Len(input)
  /\ pending \in Seq(Cell) /\ buf \in Seq(Cell) /\ disk \in Seq(Cell)
  /\ Len(buf) < FlushThreshold
  /\ status \in {"running", "crashed", "closed"}

LogInv ==
  /\ LogTyped
  /\ Replayed(input) = [verifier |-> engine.verifier, book |-> engine.book,
                        live |-> engine.live, out |-> decisions]
  /\ StrategyRun(input) = [book |-> engine.book, live |-> engine.live,
                           calls |-> engine.strategy, out |-> outputs]
  /\ \E recs \in Seq(Rec) :
       Holds(recs, input, decisions, outputs, input, decisions, outputs) /\ Stored(recs)
-----------------------------------------------------------------------------
(* Records and cells *)

LEMMA CellsType ==
  ASSUME NEW recs \in Seq(Rec)
  PROVE  /\ Cells(recs) \in Seq(Cell) /\ Len(Cells(recs)) = 2 * Len(recs)
         /\ File(recs) \in Seq(Cell) /\ Len(File(recs)) = 2 * Len(recs) + 1
         /\ File(recs)[1] = FileHeader
         /\ \A i \in 1 .. 2 * Len(recs) : File(recs)[i + 1] = Cells(recs)[i]
<1>1. Len(recs) \in Nat /\ \A i \in 1 .. Len(recs) : recs[i] \in Rec
  OBVIOUS
<1>2. ASSUME NEW i \in 1 .. 2 * Len(recs) PROVE Cells(recs)[i] \in Cell
  <2>1. CASE i % 2 = 1
    <3>1. (i + 1) \div 2 \in 1 .. Len(recs)
      BY <1>1, <2>1
    <3>2. recs[(i + 1) \div 2].type \in RecordTypes
      BY <1>1, <3>1 DEF Rec
    <3>3. Cells(recs)[i] = [part |-> "Header", type |-> recs[(i + 1) \div 2].type]
      BY <2>1 DEF Cells
    <3> QED
      BY <3>2, <3>3 DEF Cell
  <2>2. CASE i % 2 # 1
    <3>1. i \div 2 \in 1 .. Len(recs)
      BY <1>1, <2>2
    <3>2. recs[i \div 2].data \in Event \cup Decision \cup Output
      BY <1>1, <3>1 DEF Rec
    <3>3. Cells(recs)[i] = [part |-> "Payload", data |-> recs[i \div 2].data]
      BY <2>2 DEF Cells
    <3> QED
      BY <3>2, <3>3 DEF Cell
  <2> QED
    BY <2>1, <2>2
<1>3. PICK c : c = Cells(recs)
  OBVIOUS
<1>4. PICK n : n = 2 * Len(recs)
  OBVIOUS
<1>5. n \in Nat /\ \A i \in 1 .. n : c[i] \in Cell
  BY <1>1, <1>2, <1>3, <1>4
<1>6. c = [i \in 1 .. n |-> c[i]]
  BY <1>3, <1>4 DEF Cells
<1>7. c \in Seq(Cell) /\ Len(c) = n
  BY <1>5, <1>6
<1>8. PICK h : h = FileHeader
  OBVIOUS
<1>9. h \in Cell
  BY <1>8 DEF Cell
<1>10. /\ <<h>> \o c \in Seq(Cell) /\ Len(<<h>> \o c) = n + 1
       /\ (<<h>> \o c)[1] = h
       /\ \A i \in 1 .. n : (<<h>> \o c)[i + 1] = c[i]
  BY <1>5, <1>7, <1>9
<1> QED
  BY <1>3, <1>4, <1>7, <1>8, <1>10 DEF File

LEMMA Half ==
  ASSUME NEW v, NEW w \in Nat, v = 2 * w
  PROVE  v \div 2 = w
OBVIOUS

\* Appending records appends their cells.
LEMMA FileConcat ==
  ASSUME NEW recs \in Seq(Rec), NEW more \in Seq(Rec)
  PROVE  /\ recs \o more \in Seq(Rec)
         /\ File(recs) \o Cells(more) = File(recs \o more)
<1>1. PICK n : n = Len(recs)
  OBVIOUS
<1>2. PICK m : m = Len(more)
  OBVIOUS
<1>3. PICK all : all = recs \o more
  BY Zenon
<1>4. /\ n \in Nat /\ m \in Nat /\ all \in Seq(Rec) /\ Len(all) = n + m
      /\ \A i \in 1 .. n : all[i] = recs[i]
      /\ \A i \in 1 .. m : all[n + i] = more[i]
  BY <1>1, <1>2, <1>3
<1>5. \A i \in 1 .. 2 * n : Cells(all)[i] = Cells(recs)[i]
  <2> TAKE i \in 1 .. 2 * n
  <2>1. i \in 1 .. 2 * Len(all) /\ i \in 1 .. 2 * Len(recs)
    BY <1>1, <1>4
  <2>2. CASE i % 2 = 1
    <3>1. (i + 1) \div 2 \in 1 .. n
      BY <1>4, <2>2
    <3> QED
      BY <3>1, <2>1, <2>2, <1>4 DEF Cells
  <2>3. CASE i % 2 # 1
    <3>1. i \div 2 \in 1 .. n
      BY <1>4, <2>3
    <3> QED
      BY <3>1, <2>1, <2>3, <1>4 DEF Cells
  <2> QED
    BY <2>2, <2>3
<1>6. \A i \in 1 .. 2 * m : Cells(all)[2 * n + i] = Cells(more)[i]
  <2> TAKE i \in 1 .. 2 * m
  <2>1. 2 * n + i \in 1 .. 2 * Len(all) /\ i \in 1 .. 2 * Len(more)
    BY <1>2, <1>4
  <2>2. (2 * n + i) % 2 = i % 2
    BY <1>4
  <2>3. CASE i % 2 = 1
    <3>1. PICK j : j = (i + 1) \div 2
      OBVIOUS
    <3>2. j \in 1 .. m /\ i = 2 * j - 1
      BY <3>1, <1>4, <2>3
    <3>3. 2 * n + i + 1 = 2 * (n + j)
      BY <3>2, <1>4
    <3>4. (2 * n + i + 1) \div 2 = n + j
      <4>1. n + j \in Nat
        BY <3>2, <1>4
      <4> QED
        BY <4>1, <3>3, Half, Zenon
    <3> QED
      BY <3>1, <3>2, <3>4, <2>1, <2>2, <2>3, <1>4, Zenon DEF Cells
  <2>4. CASE i % 2 # 1
    <3>1. i \div 2 \in 1 .. m /\ (2 * n + i) \div 2 = n + i \div 2
      BY <1>4, <2>4
    <3> QED
      BY <3>1, <2>1, <2>2, <2>4, <1>4, Zenon DEF Cells
  <2> QED
    BY <2>3, <2>4
<1>7. PICK f : f = File(recs)
  OBVIOUS
<1>8. PICK c : c = Cells(more)
  OBVIOUS
<1>9. PICK g : g = File(all)
  OBVIOUS
<1>10. /\ f \in Seq(Cell) /\ Len(f) = 2 * n + 1 /\ f[1] = FileHeader
       /\ \A i \in 1 .. 2 * n : f[i + 1] = Cells(recs)[i]
  BY <1>1, <1>7, CellsType
<1>11. c \in Seq(Cell) /\ Len(c) = 2 * m
  BY <1>2, <1>8, CellsType
<1>12. /\ g \in Seq(Cell) /\ Len(g) = 2 * (n + m) + 1 /\ g[1] = FileHeader
       /\ \A i \in 1 .. 2 * (n + m) : g[i + 1] = Cells(all)[i]
  BY <1>4, <1>9, CellsType, Zenon
<1>13. \A i \in 1 .. 2 * n + 1 : g[i] = f[i]
  <2> TAKE i \in 1 .. 2 * n + 1
  <2>1. CASE i = 1
    BY <2>1, <1>10, <1>12
  <2>2. CASE i # 1
    <3>1. PICK j : j = i - 1
      OBVIOUS
    <3>2. j \in 1 .. 2 * n /\ j \in 1 .. 2 * (n + m) /\ i = j + 1
      BY <3>1, <2>2, <1>4
    <3>3. g[j + 1] = Cells(all)[j] /\ f[j + 1] = Cells(recs)[j]
      BY <3>2, <1>10, <1>12
    <3> QED
      BY <3>2, <3>3, <1>5
  <2> QED
    BY <2>1, <2>2
<1>14. \A i \in 1 .. 2 * m : g[2 * n + 1 + i] = c[i]
  <2> TAKE i \in 1 .. 2 * m
  <2>1. PICK j : j = 2 * n + i
    OBVIOUS
  <2>2. j \in 1 .. 2 * (n + m) /\ 2 * n + 1 + i = j + 1
    BY <2>1, <1>4
  <2>3. g[j + 1] = Cells(all)[j]
    BY <2>2, <1>12
  <2> QED
    BY <2>1, <2>2, <2>3, <1>6, <1>8
<1>15. f \o c = g
  <2>1. PICK h : h = f \o c
    BY Zenon
  <2>2. h \in Seq(Cell) /\ Len(h) = 2 * n + 1 + 2 * m
    <3>1. h \in Seq(Cell) /\ Len(h) = Len(f) + Len(c)
      BY <2>1, <1>10, <1>11, ConcatProperties, Zenon
    <3> QED
      BY <3>1, <1>10, <1>11, Zenon
  <2>3. \A i \in 1 .. 2 * n + 1 + 2 * m :
          h[i] = IF i <= 2 * n + 1 THEN f[i] ELSE c[i - (2 * n + 1)]
    <3>1. \A i \in 1 .. Len(f) + Len(c) : h[i] = IF i <= Len(f) THEN f[i] ELSE c[i - Len(f)]
      BY <2>1, <1>10, <1>11, ConcatProperties, Zenon
    <3> QED
      BY <3>1, <1>10, <1>11, Zenon
  <2>4. Len(h) = Len(g) /\ Len(g) = 2 * n + 1 + 2 * m
    BY <2>2, <1>4, <1>12
  <2>5. \A i \in 1 .. 2 * n + 1 + 2 * m : h[i] = g[i]
    <3> TAKE i \in 1 .. 2 * n + 1 + 2 * m
    <3>1. CASE i <= 2 * n + 1
      <4>1. i \in 1 .. 2 * n + 1
        BY <3>1, <1>4
      <4> QED
        BY <4>1, <3>1, <2>3, <1>13
    <3>2. CASE ~ (i <= 2 * n + 1)
      <4>1. PICK j : j = i - (2 * n + 1)
        OBVIOUS
      <4>2. j \in 1 .. 2 * m /\ i = 2 * n + 1 + j
        BY <4>1, <3>2, <1>4
      <4>3. h[i] = c[j]
        BY <4>1, <3>2, <2>3
      <4> QED
        BY <4>2, <4>3, <1>14
    <3> QED
      BY <3>1, <3>2
  <2> QED
    BY <2>1, <2>2, <2>4, <2>5, <1>12, SeqEqual
<1> QED
  BY <1>3, <1>4, <1>7, <1>8, <1>9, <1>15

\* The reader gets the records whose cells are whole in the file.
LEMMA ReadBack ==
  ASSUME NEW recs \in Seq(Rec), NEW d \in Seq(Cell), Initial(d, File(recs)), d # << >>
  PROVE  \E k \in 0 .. Len(recs) :
           /\ k = (Len(d) - 1) \div 2
           /\ Records(d) = SubSeq(recs, 1, k)
<1>1. PICK n : n = Len(recs)
  OBVIOUS
<1>2. PICK l : l = Len(d)
  OBVIOUS
<1>3. n \in Nat /\ l \in Nat /\ l > 0 /\ \A i \in 1 .. n : recs[i] \in Rec
  BY <1>1, <1>2
<1>4. l <= 2 * n + 1 /\ \A i \in 1 .. l : d[i] = File(recs)[i]
  BY <1>1, <1>2, CellsType DEF Initial
<1>5. PICK k : k = (l - 1) \div 2
  OBVIOUS
<1>6. k \in 0 .. n /\ 2 * k + 1 <= l
  BY <1>3, <1>4, <1>5
<1>7. ASSUME NEW i \in 1 .. k
      PROVE  Record(d[2 * i].type, d[2 * i + 1].data) = recs[i]
  <2>1. i \in 1 .. n /\ 2 * i \in 1 .. l /\ 2 * i + 1 \in 1 .. l
    BY <1>3, <1>6
  <2>2. d[2 * i] = Cells(recs)[2 * i - 1]
    <3>1. PICK j : j = 2 * i - 1
      OBVIOUS
    <3>2. j \in 1 .. 2 * n /\ 2 * i = j + 1
      BY <3>1, <2>1, <1>3
    <3>3. File(recs)[j + 1] = Cells(recs)[j]
      BY <3>2, <1>1, CellsType
    <3> QED
      BY <3>1, <3>2, <3>3, <2>1, <1>4
  <2>3. d[2 * i + 1] = Cells(recs)[2 * i]
    <3>1. PICK j : j = 2 * i
      OBVIOUS
    <3>2. j \in 1 .. 2 * n
      BY <3>1, <2>1, <1>3
    <3>3. File(recs)[j + 1] = Cells(recs)[j]
      BY <3>2, <1>1, CellsType
    <3> QED
      BY <3>1, <3>3, <2>1, <1>4
  <2>4. Cells(recs)[2 * i - 1] = [part |-> "Header", type |-> recs[i].type]
    <3>1. PICK j : j = 2 * i - 1
      OBVIOUS
    <3>2. j \in 1 .. 2 * Len(recs) /\ j % 2 = 1 /\ (j + 1) \div 2 = i
      BY <3>1, <2>1, <1>1, <1>3
    <3>3. Cells(recs)[j] = [part |-> "Header", type |-> recs[(j + 1) \div 2].type]
      BY <3>2 DEF Cells
    <3> QED
      BY <3>1, <3>2, <3>3
  <2>5. Cells(recs)[2 * i] = [part |-> "Payload", data |-> recs[i].data]
    <3>1. PICK j : j = 2 * i
      OBVIOUS
    <3>2. j \in 1 .. 2 * Len(recs) /\ j % 2 # 1 /\ j \div 2 = i
      BY <3>1, <2>1, <1>1, <1>3
    <3>3. Cells(recs)[j] = [part |-> "Payload", data |-> recs[j \div 2].data]
      BY <3>2 DEF Cells
    <3> QED
      BY <3>1, <3>2, <3>3
  <2>6. d[2 * i].type = recs[i].type /\ d[2 * i + 1].data = recs[i].data
    BY <2>2, <2>3, <2>4, <2>5
  <2>7. recs[i] = [type |-> recs[i].type, data |-> recs[i].data]
    BY <2>1, <1>3 DEF Rec
  <2> QED
    BY <2>6, <2>7 DEF Record
<1>8. Records(d) = [i \in 1 .. k |-> Record(d[2 * i].type, d[2 * i + 1].data)]
  BY <1>2, <1>5 DEF Records
<1>9. [i \in 1 .. k |-> Record(d[2 * i].type, d[2 * i + 1].data)] = [i \in 1 .. k |-> recs[i]]
  BY <1>7, Zenon
<1>10. [i \in 1 .. k |-> recs[i]] = SubSeq(recs, 1, k)
  BY <1>1, <1>3, <1>6
<1> QED
  BY <1>1, <1>2, <1>5, <1>6, <1>8, <1>9, <1>10, Zenon
-----------------------------------------------------------------------------
(* The records of one event *)

\* The replay of the run's own events is the run, so what agrees with it now
\* agrees with what it grows to.
LEMMA AgreeGrows ==
  ASSUME NEW evs, NEW des, NEW ous, NEW rd, NEW ro,
         NEW in \in Seq(Event), NEW dec \in Seq(Decision), NEW outp \in Seq(Output),
         NEW ev \in Event, NEW de \in Decision, NEW out \in Seq(Output),
         Agree(evs, des, ous, rd, ro, in, dec, outp)
  PROVE  Agree(evs, des, ous, rd, ro, Append(in, ev), Append(dec, de), outp \o out)
<1>1. evs \in Seq(Event) /\ Initial(evs, in)
  BY DEF Agree
<1>2. Initial(evs, Append(in, ev))
  BY <1>1, InitialAppend
<1>3. rd \in Seq(Decision) /\ Initial(rd, dec)
  BY DEF Agree
<1>4. Initial(rd, Append(dec, de))
  BY <1>3, InitialAppend
<1>5. ro \in Seq(Output) /\ Initial(ro, outp)
  BY DEF Agree
<1>6. Initial(ro, outp \o out)
  BY <1>5, InitialConcat
<1> QED
  BY <1>2, <1>4, <1>6 DEF Agree

LEMMA HoldsGrows ==
  ASSUME NEW recs, NEW evs, NEW des, NEW ous,
         NEW in \in Seq(Event), NEW dec \in Seq(Decision), NEW outp \in Seq(Output),
         NEW ev \in Event, NEW de \in Decision, NEW out \in Seq(Output),
         Holds(recs, evs, des, ous, in, dec, outp)
  PROVE  Holds(recs, evs, des, ous, Append(in, ev), Append(dec, de), outp \o out)
<1>1. ASSUME NEW k \in 0 .. Len(recs)
      PROVE  Audited(SubSeq(recs, 1, k), Append(in, ev), Append(dec, de), outp \o out)
  <2>1. Audited(SubSeq(recs, 1, k), in, dec, outp)
    BY DEF Holds
  <2> QED
    BY <2>1, AgreeGrows, Zenon DEF Audited
<1> QED
  BY <1>1, Zenon DEF Holds

\* A record is kept with the earlier ones if the whole can be audited.
LEMMA HoldsAppend ==
  ASSUME NEW recs, NEW evs, NEW des, NEW ous, NEW in, NEW dec, NEW outp,
         NEW evs2, NEW des2, NEW ous2, NEW r \in Rec,
         Holds(recs, evs, des, ous, in, dec, outp),
         evs2 = IF r.type \in ME THEN Append(evs, r.data) ELSE evs,
         des2 = IF r.type \in DE THEN Append(des, r.data) ELSE des,
         ous2 = IF r.type \in OU THEN Append(ous, r.data) ELSE ous,
         Agree(evs2, des2, ous2, ReplayEvents(evs2), ReplayStrategy(evs2), in, dec, outp)
  PROVE  Holds(Append(recs, r), evs2, des2, ous2, in, dec, outp)
<1>1. recs \in Seq(Rec)
  BY DEF Holds
<1>2. PICK a : a = Append(recs, r)
  BY Zenon
<1>3. /\ a \in Seq(Rec) /\ Len(recs) \in Nat /\ Len(a) = Len(recs) + 1
      /\ \A m \in 1 .. Len(recs) : recs[m] = a[m]
  BY <1>1, <1>2, AppendFacts
<1>4. Select(a, ME) = evs2 /\ Select(a, DE) = des2 /\ Select(a, OU) = ous2
  <2>1. Select(recs, ME) = evs /\ Select(recs, DE) = des /\ Select(recs, OU) = ous
    BY DEF Holds
  <2>2. Select(a, ME) = evs2
    <3>1. Select(a, ME) = IF r.type \in ME THEN Append(Select(recs, ME), r.data)
                         ELSE Select(recs, ME)
      BY <1>1, <1>2, SelectAppend
    <3> QED
      BY <3>1, <2>1
  <2>3. Select(a, DE) = des2
    <3>1. Select(a, DE) = IF r.type \in DE THEN Append(Select(recs, DE), r.data)
                         ELSE Select(recs, DE)
      BY <1>1, <1>2, SelectAppend
    <3> QED
      BY <3>1, <2>1
  <2>4. Select(a, OU) = ous2
    <3>1. Select(a, OU) = IF r.type \in OU THEN Append(Select(recs, OU), r.data)
                         ELSE Select(recs, OU)
      BY <1>1, <1>2, SelectAppend
    <3> QED
      BY <3>1, <2>1
  <2> QED
    BY <2>2, <2>3, <2>4
<1>5. ASSUME NEW k \in 0 .. Len(a) PROVE Audited(SubSeq(a, 1, k), in, dec, outp)
  <2>1. CASE k = Len(a)
    <3>1. SubSeq(a, 1, k) = a
      BY <2>1, <1>3
    <3> QED
      BY <3>1, <1>4, Zenon DEF Audited
  <2>2. CASE k # Len(a)
    <3>1. k \in 0 .. Len(recs)
      BY <2>2, <1>3
    <3>2. SubSeq(a, 1, k) = SubSeq(recs, 1, k)
      BY <3>1, <1>1, <1>3
    <3> QED
      BY <3>1, <3>2, Zenon DEF Holds
  <2> QED
    BY <2>1, <2>2
<1> QED
  BY <1>2, <1>3, <1>4, <1>5 DEF Holds

\* What OnEvent returns: nothing, a quote, or a quote and a fill.
LEMMA OutputFacts ==
  ASSUME NEW calls \in Seq(Call)
  PROVE  LET quote == [type |-> "Quote", of |-> calls]
             fill  == [type |-> "Fill", of |-> calls]
         IN  /\ quote \in Output /\ fill \in Output
             /\ StrategyOutput(calls) \in {<< >>, <<quote>>, <<quote, fill>>}
<1> DEFINE quote == [type |-> "Quote", of |-> calls]
           fill  == [type |-> "Fill", of |-> calls]
<1>1. quote \in Output /\ fill \in Output
  BY DEF Output
<1>2. Len(calls) % 3 = 0 \/ Len(calls) % 3 = 1 \/ Len(calls) % 3 = 2
  <2>1. Len(calls) \in Nat
    OBVIOUS
  <2> QED
    BY <2>1
<1>3. StrategyOutput(calls) \in {<< >>, <<quote>>, <<quote, fill>>}
  BY <1>2 DEF StrategyOutput
<1> QED
  BY <1>1, <1>3

\* Pairs of records in a row.
Glued(a, b, c, d) ==
  <<a, b>> \o <<c>> = <<a, b, c>> /\ <<a, b>> \o <<c, d>> = <<a, b, c, d>>

LEMMA Glue ==
  ASSUME NEW a \in Rec, NEW b \in Rec, NEW c \in Rec, NEW d \in Rec
  PROVE  Glued(a, b, c, d)
<1>1. PICK x : x = <<a, b>>
  BY Zenon
<1>2. PICK y : y = <<c>>
  BY Zenon
<1>3. PICK z : z = <<c, d>>
  BY Zenon
<1>4. /\ x \in Seq(Rec) /\ Len(x) = 2 /\ x[1] = a /\ x[2] = b
      /\ y \in Seq(Rec) /\ Len(y) = 1 /\ y[1] = c
      /\ z \in Seq(Rec) /\ Len(z) = 2 /\ z[1] = c /\ z[2] = d
  BY <1>1, <1>2, <1>3
<1>5. x \o y = <<a, b, c>>
  <2>1. PICK v : v = x \o y
    BY Zenon
  <2>2. v \in Seq(Rec) /\ Len(v) = 3 /\ v[1] = a /\ v[2] = b /\ v[3] = c
    <3>1. /\ v \in Seq(Rec) /\ Len(v) = Len(x) + Len(y)
          /\ \A i \in 1 .. Len(x) + Len(y) : v[i] = IF i <= Len(x) THEN x[i] ELSE y[i - Len(x)]
      BY <2>1, <1>4, ConcatProperties, Zenon
    <3>2. /\ v \in Seq(Rec) /\ Len(v) = 3
          /\ \A i \in 1 .. 3 : v[i] = IF i <= 2 THEN x[i] ELSE y[i - 2]
      BY <3>1, <1>4
    <3> QED
      BY <3>2, <1>4
  <2>3. PICK w : w = <<a, b, c>>
    BY Zenon
  <2>4. w \in Seq(Rec) /\ Len(w) = 3 /\ w[1] = a /\ w[2] = b /\ w[3] = c
    BY <2>3
  <2>5. \A i \in 1 .. Len(v) : v[i] = w[i]
    BY <2>2, <2>4
  <2>6. v = w
    BY <2>2, <2>4, <2>5, SeqEqual
  <2> QED
    BY <2>1, <2>3, <2>6, Zenon
<1>6. x \o z = <<a, b, c, d>>
  <2>1. PICK v : v = x \o z
    BY Zenon
  <2>2. v \in Seq(Rec) /\ Len(v) = 4 /\ v[1] = a /\ v[2] = b /\ v[3] = c /\ v[4] = d
    <3>1. /\ v \in Seq(Rec) /\ Len(v) = Len(x) + Len(z)
          /\ \A i \in 1 .. Len(x) + Len(z) : v[i] = IF i <= Len(x) THEN x[i] ELSE z[i - Len(x)]
      BY <2>1, <1>4, ConcatProperties, Zenon
    <3>2. /\ v \in Seq(Rec) /\ Len(v) = 4
          /\ \A i \in 1 .. 4 : v[i] = IF i <= 2 THEN x[i] ELSE z[i - 2]
      BY <3>1, <1>4
    <3> QED
      BY <3>2, <1>4
  <2>3. PICK w : w = <<a, b, c, d>>
    BY Zenon
  <2>4. w \in Seq(Rec) /\ Len(w) = 4 /\ w[1] = a /\ w[2] = b /\ w[3] = c /\ w[4] = d
    BY <2>3
  <2>5. \A i \in 1 .. Len(v) : v[i] = w[i]
    BY <2>2, <2>4
  <2>6. v = w
    BY <2>2, <2>4, <2>5, SeqEqual
  <2> QED
    BY <2>1, <2>3, <2>6, Zenon
<1> QED
  BY <1>1, <1>2, <1>3, <1>5, <1>6, Zenon DEF Glued

\* Concatenating a few records is appending them one by one.
LEMMA AppendAll ==
  ASSUME NEW s \in Seq(Rec), NEW a \in Rec, NEW b \in Rec, NEW c \in Rec, NEW d \in Rec
  PROVE  /\ s \o <<a, b, c>> = Append(Append(Append(s, a), b), c)
         /\ s \o <<a, b, c, d>> = Append(Append(Append(Append(s, a), b), c), d)
<1>1. PICK two : two = Append(Append(s, a), b)
  BY Zenon
<1>2. two \in Seq(Rec) /\ two = s \o <<a, b>>
  BY <1>1
<1>3. <<a, b>> \in Seq(Rec) /\ <<c>> \in Seq(Rec) /\ <<c, d>> \in Seq(Rec)
  OBVIOUS
<1>4. <<a, b>> \o <<c>> = <<a, b, c>> /\ <<a, b>> \o <<c, d>> = <<a, b, c, d>>
  <2>1. Glued(a, b, c, d)
    BY Glue
  <2> QED
    BY <2>1, Zenon DEF Glued
<1>5. (s \o <<a, b>>) \o <<c>> = s \o (<<a, b>> \o <<c>>)
  BY <1>3, ConcatAssociative
<1>6. (s \o <<a, b>>) \o <<c, d>> = s \o (<<a, b>> \o <<c, d>>)
  BY <1>3, ConcatAssociative
<1>7. two \o <<c>> = Append(two, c) /\ two \o <<c, d>> = Append(Append(two, c), d)
  BY <1>2
<1>8. s \o <<a, b, c>> = Append(two, c)
  BY <1>2, <1>4, <1>5, <1>7
<1>9. s \o <<a, b, c, d>> = Append(Append(two, c), d)
  BY <1>2, <1>4, <1>6, <1>7
<1> QED
  BY <1>1, <1>8, <1>9

\* The records of an event with a quote and a fill, one after the other.
FourRecords(recs, ev, de, quote, fill, re, rd, rq, rf) ==
  /\ LogRecords(ev, de, <<quote, fill>>) = <<re, rd, rq, rf>>
  /\ recs \o <<re, rd, rq, rf>> = Append(Append(Append(Append(recs, re), rd), rq), rf)

LEMMA RecordsOfEvent ==
  ASSUME NEW recs \in Seq(Rec), NEW ev, NEW de, NEW quote, NEW fill,
         NEW re \in Rec, NEW rd \in Rec, NEW rq \in Rec, NEW rf \in Rec,
         re = Record("MarketEvent", ev), rd = Record("Decision", de),
         rq = Record(quote.type, quote), rf = Record(fill.type, fill)
  PROVE  FourRecords(recs, ev, de, quote, fill, re, rd, rq, rf)
<1>1. PICK out : out = <<quote, fill>>
  BY Zenon
<1>2. [i \in 1 .. Len(out) |-> Record(out[i].type, out[i])] = <<rq, rf>>
  BY <1>1
<1>3. <<re, rd>> \o <<rq, rf>> = <<re, rd, rq, rf>>
  <2>1. Glued(re, rd, rq, rf)
    BY Glue
  <2> QED
    BY <2>1, Zenon DEF Glued
<1>4. recs \o <<re, rd, rq, rf>> = Append(Append(Append(Append(recs, re), rd), rq), rf)
  BY AppendAll
<1> QED
  BY <1>1, <1>2, <1>3, <1>4, Zenon DEF LogRecords, FourRecords

\* The records of an event extend those of the run.
LEMMA EventLogged ==
  ASSUME NEW recs, NEW in \in Seq(Event), NEW dec \in Seq(Decision), NEW outp \in Seq(Output),
         NEW ev \in Event, NEW de \in Decision, NEW quote \in Output, NEW fill \in Output,
         NEW out \in {<< >>, <<quote>>, <<quote, fill>>},
         quote.type = "Quote", fill.type = "Fill", Len(dec) = Len(in),
         Holds(recs, in, dec, outp, in, dec, outp),
         NEW in2, NEW dec2, NEW outp2,
         in2 = Append(in, ev), dec2 = Append(dec, de), outp2 = outp \o out,
         ReplayEvents(in2) = dec2, ReplayStrategy(in2) = outp2
  PROVE  /\ LogRecords(ev, de, out) \in Seq(Rec)
         /\ Holds(recs \o LogRecords(ev, de, out), in2, dec2, outp2, in2, dec2, outp2)
<1>1. out \in Seq(Output)
  <2>1. << >> \in Seq(Output) /\ <<quote>> \in Seq(Output) /\ <<quote, fill>> \in Seq(Output)
    OBVIOUS
  <2> QED
    BY <2>1, Zenon
<1>2. recs \in Seq(Rec)
  BY DEF Holds
<1>3. Holds(recs, in, dec, outp, in2, dec2, outp2)
  BY <1>1, HoldsGrows, Zenon
<1>4. in2 \in Seq(Event) /\ dec2 \in Seq(Decision) /\ outp2 \in Seq(Output)
  BY <1>1
<1>5. /\ Initial(in2, in2) /\ Initial(dec2, dec2) /\ Initial(outp2, outp2)
      /\ Initial(dec, dec2) /\ Initial(outp, outp2)
      /\ Len(in2) = Len(dec) + 1 /\ Len(in2) = Len(dec2)
  BY <1>1, <1>4 DEF Initial
<1>6. PICK re : re = Record("MarketEvent", ev)
  OBVIOUS
<1>7. PICK rd : rd = Record("Decision", de)
  OBVIOUS
<1>8. PICK rq : rq = Record("Quote", quote)
  OBVIOUS
<1>9. PICK rf : rf = Record("Fill", fill)
  OBVIOUS
<1>10. re \in Rec /\ rd \in Rec /\ rq \in Rec /\ rf \in Rec
  BY <1>6, <1>7, <1>8, <1>9 DEF Record, Rec, RecordTypes
<1>11. /\ re.type = "MarketEvent" /\ re.data = ev
       /\ rd.type = "Decision" /\ rd.data = de
       /\ rq.type = "Quote" /\ rq.data = quote
       /\ rf.type = "Fill" /\ rf.data = fill
  BY <1>6, <1>7, <1>8, <1>9 DEF Record
<1>12. Holds(Append(recs, re), in2, dec, outp, in2, dec2, outp2)
  <2>1. /\ in2 = IF re.type \in ME THEN Append(in, re.data) ELSE in
        /\ dec = IF re.type \in DE THEN Append(dec, re.data) ELSE dec
        /\ outp = IF re.type \in OU THEN Append(outp, re.data) ELSE outp
    BY <1>11 DEF ME, DE, OU
  <2>2. Agree(in2, dec, outp, ReplayEvents(in2), ReplayStrategy(in2), in2, dec2, outp2)
    BY <1>4, <1>5 DEF Agree
  <2> QED
    BY <1>3, <1>10, <2>1, <2>2, HoldsAppend, Zenon
<1>13. Holds(Append(Append(recs, re), rd), in2, dec2, outp, in2, dec2, outp2)
  <2>1. /\ in2 = IF rd.type \in ME THEN Append(in2, rd.data) ELSE in2
        /\ dec2 = IF rd.type \in DE THEN Append(dec, rd.data) ELSE dec
        /\ outp = IF rd.type \in OU THEN Append(outp, rd.data) ELSE outp
    BY <1>11 DEF ME, DE, OU
  <2>2. Agree(in2, dec2, outp, ReplayEvents(in2), ReplayStrategy(in2), in2, dec2, outp2)
    BY <1>4, <1>5 DEF Agree
  <2> QED
    BY <1>12, <1>10, <2>1, <2>2, HoldsAppend, Zenon
<1>14. ASSUME NEW o, o = Append(outp, quote), Initial(o, outp2)
       PROVE  Holds(Append(Append(Append(recs, re), rd), rq), in2, dec2, o, in2, dec2, outp2)
  <2>1. /\ in2 = IF rq.type \in ME THEN Append(in2, rq.data) ELSE in2
        /\ dec2 = IF rq.type \in DE THEN Append(dec2, rq.data) ELSE dec2
        /\ o = IF rq.type \in OU THEN Append(outp, rq.data) ELSE outp
    BY <1>11, <1>14 DEF ME, DE, OU
  <2>2. o \in Seq(Output)
    BY <1>14
  <2>3. Agree(in2, dec2, o, ReplayEvents(in2), ReplayStrategy(in2), in2, dec2, outp2)
    BY <1>4, <1>5, <1>14, <2>2 DEF Agree
  <2>4. PICK two : two = Append(Append(recs, re), rd)
    BY Zenon
  <2>5. Holds(two, in2, dec2, outp, in2, dec2, outp2)
    BY <2>4, <1>13
  <2>6. Holds(Append(two, rq), in2, dec2, o, in2, dec2, outp2)
    BY <2>5, <1>10, <2>1, <2>3, HoldsAppend, Zenon
  <2> QED
    BY <2>4, <2>6
<1>15. CASE out = << >>
  <2>1. LogRecords(ev, de, out) = <<re, rd>>
    BY <1>6, <1>7, <1>15 DEF LogRecords
  <2>2. outp2 = outp
    BY <1>15
  <2>3. recs \o <<re, rd>> = Append(Append(recs, re), rd)
    BY <1>2, <1>10
  <2>4. <<re, rd>> \in Seq(Rec)
    BY <1>10
  <2> QED
    BY <2>1, <2>2, <2>3, <2>4, <1>13, Zenon
<1>16. CASE out = <<quote>>
  <2>1. LogRecords(ev, de, out) = <<re, rd, rq>>
    <3>1. [i \in 1 .. Len(out) |-> Record(out[i].type, out[i])] = <<rq>>
      BY <1>8, <1>16
    <3>2. <<re, rd>> \o <<rq>> = <<re, rd, rq>>
      <4>1. Glued(re, rd, rq, rf)
        BY <1>10, Glue
      <4> QED
        BY <4>1, Zenon DEF Glued
    <3> QED
      BY <1>6, <1>7, <3>1, <3>2, Zenon DEF LogRecords
  <2>2. outp2 = Append(outp, quote)
    BY <1>16
  <2>3. recs \o <<re, rd, rq>> = Append(Append(Append(recs, re), rd), rq)
    BY <1>2, <1>10, AppendAll
  <2>4. <<re, rd, rq>> \in Seq(Rec)
    BY <1>10
  <2> QED
    BY <2>1, <2>2, <2>3, <2>4, <1>5, <1>14, Zenon
<1>17. CASE out = <<quote, fill>>
  <2>1. /\ LogRecords(ev, de, out) = <<re, rd, rq, rf>>
        /\ recs \o <<re, rd, rq, rf>> = Append(Append(Append(Append(recs, re), rd), rq), rf)
    <3>1. rq = Record(quote.type, quote) /\ rf = Record(fill.type, fill)
      BY <1>8, <1>9
    <3>2. FourRecords(recs, ev, de, quote, fill, re, rd, rq, rf)
      BY <1>2, <1>6, <1>7, <1>10, <3>1, RecordsOfEvent, Zenon
    <3> QED
      BY <1>17, <3>2, Zenon DEF FourRecords
  <2>2. PICK o : o = Append(outp, quote)
    BY Zenon
  <2>3. outp2 = Append(o, fill) /\ o \in Seq(Output)
    BY <1>17, <2>2
  <2>4. Initial(o, outp2)
    BY <2>3, InitialAppend
  <2>5. PICK three : three = Append(Append(Append(recs, re), rd), rq)
    BY Zenon
  <2>6. Holds(three, in2, dec2, o, in2, dec2, outp2)
    BY <2>2, <2>4, <2>5, <1>14, Zenon
  <2>7. Holds(Append(three, rf), in2, dec2, outp2, in2, dec2, outp2)
    <3>1. /\ in2 = IF rf.type \in ME THEN Append(in2, rf.data) ELSE in2
          /\ dec2 = IF rf.type \in DE THEN Append(dec2, rf.data) ELSE dec2
          /\ outp2 = IF rf.type \in OU THEN Append(o, rf.data) ELSE o
      BY <1>11, <2>3 DEF ME, DE, OU
    <3>2. Agree(in2, dec2, outp2, ReplayEvents(in2), ReplayStrategy(in2), in2, dec2, outp2)
      BY <1>4, <1>5 DEF Agree
    <3> QED
      BY <2>6, <1>10, <3>1, <3>2, HoldsAppend, Zenon
  <2>8. recs \o <<re, rd, rq, rf>> = Append(three, rf)
    BY <2>1, <2>5, Zenon
  <2>9. <<re, rd, rq, rf>> \in Seq(Rec)
    BY <1>10
  <2> QED
    BY <2>1, <2>7, <2>8, <2>9, Zenon
<1> QED
  BY <1>15, <1>16, <1>17
-----------------------------------------------------------------------------
(* Draining an event *)

LEMMA VerifierType ==
  ASSUME NEW v \in Verifier, NEW ev \in Event
  PROVE  VerifierCheck(v, ev) \in Verifier
<1>1. /\ ev.start \in BOOLEAN /\ ev.cont \in BOOLEAN /\ ev.u \in 0 .. MaxId
      /\ v.have_snapshot \in BOOLEAN /\ v.live \in BOOLEAN
      /\ v.snapshot_last_id \in 0 .. MaxId /\ v.prev_u \in 0 .. MaxId
      /\ v.undetected_gaps \in Nat
  BY DEF Verifier, Event
<1>2. VerifierGoesLive(v, ev) \in BOOLEAN
  BY DEF VerifierGoesLive
<1> QED
  BY <1>1, <1>2 DEF VerifierCheck, Verifier

\* The book, the flag and the calls of the strategy after an event.
BookAfter(book, ev) == Append(IF ev.start THEN << >> ELSE book, ev)
LiveAfter(live, ev) == (live /\ ~ev.start) \/ ev.kind = "DepthDiff"
CallsAfter(calls, book, live, ev) ==
  calls \o (IF ev.start THEN <<[call |-> "OnResync"]>> ELSE << >>)
        \o (IF live /\ ~ev.cont THEN <<[call |-> "OnEvent", book |-> book, ev |-> ev]>> ELSE << >>)
OutputAfter(calls, live, ev) == IF live /\ ~ev.cont THEN StrategyOutput(calls) ELSE << >>

LEMMA AfterTypes ==
  ASSUME NEW ev \in Event, NEW calls \in Seq(Call), NEW bk \in Seq(Event), NEW live \in BOOLEAN
  PROVE  /\ BookAfter(bk, ev) \in Seq(Event)
         /\ LiveAfter(live, ev) \in BOOLEAN
         /\ CallsAfter(calls, bk, live, ev) \in Seq(Call)
<1>1. BookAfter(bk, ev) \in Seq(Event)
  BY DEF BookAfter
<1>2. LiveAfter(live, ev) \in BOOLEAN
  BY DEF LiveAfter
<1>3. PICK a : a = [call |-> "OnResync"]
  BY Zenon
<1>4. PICK b : b = [call |-> "OnEvent", book |-> bk, ev |-> ev]
  BY Zenon
<1>5. a \in Call /\ b \in Call
  BY <1>3, <1>4 DEF Call
<1>6. PICK x : x = IF ev.start THEN <<a>> ELSE << >>
  BY Zenon
<1>7. PICK y : y = IF live /\ ~ev.cont THEN <<b>> ELSE << >>
  BY Zenon
<1>8. x \in Seq(Call) /\ y \in Seq(Call)
  BY <1>5, <1>6, <1>7
<1>9. calls \o x \o y \in Seq(Call)
  BY <1>8
<1>10. CallsAfter(calls, bk, live, ev) = calls \o x \o y
  BY <1>3, <1>4, <1>6, <1>7, Zenon DEF CallsAfter
<1> QED
  BY <1>1, <1>2, <1>9, <1>10

\* The replay takes the engine's steps.
ReplayTakes(r, ev, v, bk, live, dec) ==
  ReplayStep(r, ev)
    = [verifier |-> VerifierCheck(v, ev), book |-> BookAfter(bk, ev), live |-> LiveAfter(live, ev),
       out |-> Append(dec, MakeDecision(BookAfter(bk, ev), ev.u, LiveAfter(live, ev),
                                        ~VerifierOk(v, ev)))]

StrategyTakes(r, ev, bk2, live2, calls2, outp) ==
  StrategyStep(r, ev)
    = [book |-> bk2, live |-> live2, calls |-> calls2,
       out |-> outp \o OutputAfter(calls2, live2, ev)]

LEMMA ReplayMatches ==
  ASSUME NEW ev \in Event, NEW v, NEW bk, NEW live, NEW dec, NEW r,
         r = [verifier |-> v, book |-> bk, live |-> live, out |-> dec]
  PROVE  ReplayTakes(r, ev, v, bk, live, dec)
<1>1. r.verifier = v /\ r.book = bk /\ r.live = live /\ r.out = dec
  OBVIOUS
<1> QED
  BY <1>1, Zenon DEF ReplayTakes, ReplayStep, BookAfter, LiveAfter

LEMMA StrategyMatches ==
  ASSUME NEW ev \in Event, NEW bk \in Seq(Event), NEW live \in BOOLEAN,
         NEW calls \in Seq(Call), NEW outp \in Seq(Output), NEW r,
         NEW bk2, NEW live2, NEW calls2,
         bk2 = BookAfter(bk, ev), live2 = LiveAfter(live, ev),
         calls2 = CallsAfter(calls, bk2, live2, ev),
         r = [book |-> bk, live |-> live, calls |-> calls, out |-> outp]
  PROVE  StrategyTakes(r, ev, bk2, live2, calls2, outp)
<1>1. r.book = bk /\ r.live = live /\ r.calls = calls /\ r.out = outp
  OBVIOUS
<1>2. PICK a : a = [call |-> "OnResync"]
  BY Zenon
<1>3. PICK b : b = [call |-> "OnEvent", book |-> bk2, ev |-> ev]
  BY Zenon
<1>4. bk2 \in Seq(Event) /\ live2 \in BOOLEAN
  BY AfterTypes
<1>5. a \in Call /\ b \in Call
  BY <1>2, <1>3, <1>4 DEF Call
<1>6. PICK x : x = IF ev.start THEN <<a>> ELSE << >>
  BY Zenon
<1>7. PICK y : y = IF live2 /\ ~ev.cont THEN <<b>> ELSE << >>
  BY Zenon
<1>8. calls2 = calls \o x \o y
  BY <1>2, <1>3, <1>6, <1>7, Zenon DEF CallsAfter
<1>9. PICK resync : resync = IF ev.start THEN Append(calls, a) ELSE calls
  BY Zenon
<1>10. resync \in Seq(Call) /\ calls \o x = resync
  <2>1. CASE ev.start
    BY <2>1, <1>5, <1>6, <1>9
  <2>2. CASE ~ev.start
    <3>1. x = << >> /\ resync = calls
      BY <2>2, <1>6, <1>9
    <3> QED
      BY <3>1
  <2> QED
    BY <2>1, <2>2
<1>11. calls2 = IF live2 /\ ~ev.cont THEN Append(resync, b) ELSE resync
  BY <1>5, <1>7, <1>8, <1>10
<1>12. outp \o OutputAfter(calls2, live2, ev)
         = IF live2 /\ ~ev.cont THEN outp \o StrategyOutput(calls2) ELSE outp
  BY DEF OutputAfter
<1>13. StrategyStep(r, ev)
         = [book |-> bk2, live |-> live2, calls |-> calls2,
            out |-> IF live2 /\ ~ev.cont THEN outp \o StrategyOutput(calls2) ELSE outp]
  BY <1>1, <1>2, <1>3, <1>9, <1>11, Zenon DEF StrategyStep, BookAfter, LiveAfter
<1> QED
  BY <1>12, <1>13, Zenon DEF StrategyTakes

LEMMA DrainStep ==
  ASSUME LogInv, NEW ev \in Events, Drain(ev)
  PROVE  LogInv'
<1>1. ev \in Event
  BY DEF Events
<1>2. PICK v : v = engine.verifier
  OBVIOUS
<1>3. PICK bk : bk = engine.book
  OBVIOUS
<1>4. PICK lv : lv = engine.live
  OBVIOUS
<1>5. PICK cs : cs = engine.strategy
  OBVIOUS
<1>6. v \in Verifier /\ bk \in Seq(Event) /\ lv \in BOOLEAN /\ cs \in Seq(Call)
  BY <1>2, <1>3, <1>4, <1>5 DEF LogInv, LogTyped, Engine
<1>7. PICK bk2 : bk2 = BookAfter(bk, ev)
  OBVIOUS
<1>8. PICK lv2 : lv2 = LiveAfter(lv, ev)
  OBVIOUS
<1>9. PICK cs2 : cs2 = CallsAfter(cs, bk2, lv2, ev)
  OBVIOUS
<1>10. PICK out : out = OutputAfter(cs2, lv2, ev)
  OBVIOUS
<1>11. PICK de : de = MakeDecision(bk2, ev.u, lv2, ~VerifierOk(v, ev))
  OBVIOUS
<1>12. bk2 \in Seq(Event) /\ lv2 \in BOOLEAN /\ cs2 \in Seq(Call)
  BY <1>1, <1>6, <1>7, <1>8, <1>9, AfterTypes, Zenon
<1>13. /\ status = "running" /\ pending = << >>
       /\ engine' = [verifier |-> VerifierCheck(v, ev), book |-> bk2, live |-> lv2, strategy |-> cs2]
       /\ decisions' = Append(decisions, de)
       /\ outputs' = outputs \o out
       /\ pending' = Cells(LogRecords(ev, de, out))
       /\ input' = Append(input, ev)
       /\ buf' = buf /\ disk' = disk /\ status' = status
  BY <1>2, <1>3, <1>4, <1>5, <1>7, <1>8, <1>9, <1>10, <1>11, Zenon
     DEF Drain, BookAfter, LiveAfter, CallsAfter, OutputAfter
<1>14. de \in Decision
  <2>1. ev.u \in 0 .. MaxId
    BY <1>1 DEF Event
  <2>2. (~VerifierOk(v, ev)) \in BOOLEAN
    OBVIOUS
  <2> QED
    BY <2>1, <2>2, <1>11, <1>12 DEF MakeDecision, Decision
<1>15. PICK quote : quote = [type |-> "Quote", of |-> cs2]
  BY Zenon
<1>16. PICK fill : fill = [type |-> "Fill", of |-> cs2]
  BY Zenon
<1>17. /\ quote \in Output /\ fill \in Output
       /\ quote.type = "Quote" /\ fill.type = "Fill"
  BY <1>12, <1>15, <1>16, OutputFacts
<1>18. out \in {<< >>, <<quote>>, <<quote, fill>>}
  <2>1. StrategyOutput(cs2) \in {<< >>, <<quote>>, <<quote, fill>>}
    BY <1>12, <1>15, <1>16, OutputFacts
  <2> QED
    BY <2>1, <1>10 DEF OutputAfter
<1>19. out \in Seq(Output)
  <2>1. << >> \in Seq(Output) /\ <<quote>> \in Seq(Output) /\ <<quote, fill>> \in Seq(Output)
    BY <1>17
  <2> QED
    BY <2>1, <1>18, Zenon
<1>20. /\ input \in Seq(Event) /\ decisions \in Seq(Decision) /\ outputs \in Seq(Output)
       /\ Len(decisions) = Len(input)
       /\ buf \in Seq(Cell) /\ disk \in Seq(Cell) /\ Len(buf) < FlushThreshold
  BY DEF LogInv, LogTyped
<1>21. /\ input' \in Seq(Event) /\ decisions' \in Seq(Decision) /\ outputs' \in Seq(Output)
       /\ Len(decisions') = Len(input')
  <2>1. Append(input, ev) \in Seq(Event) /\ Len(Append(input, ev)) = Len(input) + 1
    BY <1>1, <1>20
  <2>2. Append(decisions, de) \in Seq(Decision) /\ Len(Append(decisions, de)) = Len(decisions) + 1
    BY <1>14, <1>20
  <2>3. outputs \o out \in Seq(Output)
    BY <1>19, <1>20
  <2> QED
    BY <2>1, <2>2, <2>3, <1>13, <1>20, Zenon
<1>22. Replayed(input') = [verifier |-> VerifierCheck(v, ev), book |-> bk2, live |-> lv2,
                           out |-> decisions']
  <2>1. Replayed(input') = ReplayStep(Replayed(input), ev)
    BY <1>1, <1>13, <1>20, ReplayAppend
  <2>2. Replayed(input) = [verifier |-> v, book |-> bk, live |-> lv, out |-> decisions]
    BY <1>2, <1>3, <1>4, <1>5 DEF LogInv
  <2>3. PICK r : r = Replayed(input)
    OBVIOUS
  <2>4. r = [verifier |-> v, book |-> bk, live |-> lv, out |-> decisions]
    BY <2>2, <2>3
  <2>5. ReplayTakes(r, ev, v, bk, lv, decisions)
    BY <2>4, <1>1, ReplayMatches
  <2> QED
    BY <2>1, <2>3, <2>5, <1>7, <1>8, <1>11, <1>13, Zenon DEF ReplayTakes
<1>23. StrategyRun(input') = [book |-> bk2, live |-> lv2, calls |-> cs2, out |-> outputs']
  <2>1. StrategyRun(input') = StrategyStep(StrategyRun(input), ev)
    BY <1>1, <1>13, <1>20, StrategyAppend
  <2>2. StrategyRun(input) = [book |-> bk, live |-> lv, calls |-> cs, out |-> outputs]
    BY <1>2, <1>3, <1>4, <1>5 DEF LogInv
  <2>3. PICK r : r = StrategyRun(input)
    OBVIOUS
  <2>4. r = [book |-> bk, live |-> lv, calls |-> cs, out |-> outputs]
    BY <2>2, <2>3
  <2>5. StrategyTakes(r, ev, bk2, lv2, cs2, outputs)
    BY <2>4, <1>1, <1>6, <1>7, <1>8, <1>9, <1>20, StrategyMatches, Zenon
  <2> QED
    BY <2>1, <2>3, <2>5, <1>10, <1>13, Zenon DEF StrategyTakes
<1>24. PICK recs \in Seq(Rec) :
         Holds(recs, input, decisions, outputs, input, decisions, outputs) /\ Stored(recs)
  BY DEF LogInv
<1>25. PICK more : more = LogRecords(ev, de, out)
  OBVIOUS
<1>26. /\ more \in Seq(Rec)
       /\ Holds(recs \o more, input', decisions', outputs', input', decisions', outputs')
  <2>1. ReplayEvents(input') = decisions' /\ ReplayStrategy(input') = outputs'
    BY <1>22, <1>23 DEF ReplayEvents, ReplayStrategy
  <2> QED
    BY <2>1, <1>1, <1>13, <1>14, <1>17, <1>18, <1>20, <1>24, <1>25, EventLogged, Zenon
<1>27. recs \o more \in Seq(Rec) /\ File(recs) \o Cells(more) = File(recs \o more)
  BY <1>24, <1>26, FileConcat
<1>28. Cells(more) \in Seq(Cell) /\ File(recs) \in Seq(Cell)
  BY <1>24, <1>26, CellsType
<1>29. disk \o buf = File(recs)
  <2>1. (disk \o buf) \o << >> = File(recs)
    BY <1>13, <1>24 DEF Stored
  <2>2. disk \o buf \in Seq(Cell)
    BY <1>20
  <2> QED
    BY <2>1, <2>2, ConcatEmptySeq
<1>30. Stored(recs \o more)'
  <2>1. Initial(disk', File(recs \o more))
    <3>1. Initial(disk, File(recs))
      BY <1>24 DEF Stored
    <3>2. Initial(disk, File(recs) \o Cells(more))
      BY <3>1, <1>20, <1>28, InitialConcat
    <3> QED
      BY <3>2, <1>13, <1>27
  <2>2. (disk' \o buf') \o pending' = File(recs \o more)
    BY <1>13, <1>25, <1>27, <1>29, Zenon
  <2>3. status' # "closed"
    BY <1>13
  <2> QED
    BY <2>1, <2>2, <2>3, Zenon DEF Stored, File, Cells, FileHeader
<1>31. LogTyped'
  <2>1. engine' \in Engine
    BY <1>1, <1>6, <1>12, <1>13, VerifierType DEF Engine
  <2>2. pending' \in Seq(Cell)
    BY <1>13, <1>25, <1>28
  <2>3. buf' \in Seq(Cell) /\ disk' \in Seq(Cell) /\ Len(buf') < FlushThreshold
    BY <1>13, <1>20
  <2>4. status' \in {"running", "crashed", "closed"}
    BY <1>13
  <2> QED
    BY <2>1, <2>2, <2>3, <2>4, <1>21 DEF LogTyped
<1>32. /\ engine'.verifier = VerifierCheck(v, ev) /\ engine'.book = bk2
       /\ engine'.live = lv2 /\ engine'.strategy = cs2
  BY <1>13
<1> QED
  BY <1>22, <1>23, <1>26, <1>27, <1>30, <1>31, <1>32, Zenon DEF LogInv
-----------------------------------------------------------------------------
(* Moving cells to the file *)

LEMMA StartOfConcat ==
  ASSUME NEW s \in Seq(Cell), NEW t \in Seq(Cell), NEW u \in Seq(Cell), Initial(s, t)
  PROVE  Initial(s, s \o u) /\ Initial(s, t \o u)
BY DEF Initial

LEMMA ConcatInitial ==
  ASSUME NEW d \in Seq(Cell), NEW s \in Seq(Cell), NEW t \in Seq(Cell), Initial(s, t)
  PROVE  Initial(d \o s, d \o t)
BY DEF Initial

\* An Append takes the first pending cell to the buffer's end.
Moved(d, b, p, cells, rest) ==
  /\ cells \in Seq(Cell) /\ rest \in Seq(Cell)
  /\ (d \o cells) \o rest = (d \o b) \o p

LEMMA MoveCell ==
  ASSUME NEW d \in Seq(Cell), NEW b \in Seq(Cell), NEW p \in Seq(Cell), p # << >>
  PROVE  Moved(d, b, p, Append(b, Head(p)), Tail(p))
<1>1. PICK h : h = Head(p)
  OBVIOUS
<1>2. PICK t : t = Tail(p)
  BY Zenon
<1>3. h \in Cell /\ t \in Seq(Cell) /\ p = <<h>> \o t
  BY <1>1, <1>2
<1>4. Append(b, h) = b \o <<h>> /\ <<h>> \in Seq(Cell) /\ Append(b, h) \in Seq(Cell)
  BY <1>3
<1>5. (d \o (b \o <<h>>)) \o t = ((d \o b) \o <<h>>) \o t
  BY <1>4, ConcatAssociative
<1>6. d \o b \in Seq(Cell)
  OBVIOUS
<1>7. ((d \o b) \o <<h>>) \o t = (d \o b) \o (<<h>> \o t)
  BY <1>3, <1>4, <1>6, ConcatAssociative
<1> QED
  BY <1>1, <1>2, <1>3, <1>4, <1>5, <1>7, Zenon DEF Moved

\* A step of the writer keeps the invariant if it keeps the run's cells.
LEMMA WriterStep ==
  ASSUME LogInv, UNCHANGED <<engine, input, decisions, outputs>>,
         pending' \in Seq(Cell), buf' \in Seq(Cell), disk' \in Seq(Cell),
         Len(buf') < FlushThreshold, status' \in {"running", "crashed", "closed"},
         \A recs \in Seq(Rec) : Stored(recs) => Stored(recs)'
  PROVE  LogInv'
<1>1. LogTyped'
  BY DEF LogInv, LogTyped
<1>2. PICK recs \in Seq(Rec) :
        Holds(recs, input, decisions, outputs, input, decisions, outputs) /\ Stored(recs)
  BY DEF LogInv
<1>3. Stored(recs)'
  BY <1>2
<1>4. /\ engine' = engine /\ input' = input /\ decisions' = decisions /\ outputs' = outputs
  OBVIOUS
<1>5. Holds(recs, input', decisions', outputs', input', decisions', outputs')
  BY <1>2, <1>4
<1>6. /\ Replayed(input') = [verifier |-> engine'.verifier, book |-> engine'.book,
                             live |-> engine'.live, out |-> decisions']
      /\ StrategyRun(input') = [book |-> engine'.book, live |-> engine'.live,
                                calls |-> engine'.strategy, out |-> outputs']
  BY <1>4 DEF LogInv
<1> QED
  BY <1>1, <1>2, <1>3, <1>5, <1>6, Zenon DEF LogInv

\* The cells of the run are those of the file, of the buffer and the pending ones.
LEMMA StoredHere ==
  ASSUME NEW recs \in Seq(Rec), NEW w \in Seq(Cell), status' # "crashed",
         File(recs) = w, (disk' \o buf') \o pending' = w,
         disk' \in Seq(Cell), buf' \in Seq(Cell), pending' \in Seq(Cell),
         status' = "closed" => buf' = << >> /\ pending' = << >>
  PROVE  Stored(recs)'
<1>1. PICK d : d = disk'
  OBVIOUS
<1>2. PICK b : b = buf'
  OBVIOUS
<1>3. PICK p : p = pending'
  OBVIOUS
<1>4. d \in Seq(Cell) /\ b \in Seq(Cell) /\ p \in Seq(Cell) /\ (d \o b) \o p = w
  BY <1>1, <1>2, <1>3
<1>5. Initial(d, d)
  BY <1>4 DEF Initial
<1>6. PICK x : x = d \o b
  BY Zenon
<1>7. x \in Seq(Cell) /\ Initial(d, x)
  <2>1. x \in Seq(Cell)
    BY <1>4, <1>6
  <2>2. Initial(d, d \o b)
    BY <1>4, <1>5, StartOfConcat, Zenon
  <2> QED
    BY <2>1, <2>2, <1>6, Zenon
<1>8. Initial(disk', File(recs))
  <2>1. Initial(d, x \o p)
    BY <1>4, <1>7, StartOfConcat, Zenon
  <2> QED
    BY <2>1, <1>1, <1>4, <1>6, Zenon
<1> QED
  BY <1>8, Zenon DEF Stored, File, Cells, FileHeader

LEMMA WriteCellStep ==
  ASSUME LogInv, WriteCell
  PROVE  LogInv'
<1>1. /\ disk \in Seq(Cell) /\ buf \in Seq(Cell) /\ pending \in Seq(Cell)
      /\ pending # << >> /\ status = "running" /\ status' = "running"
      /\ UNCHANGED <<engine, input, decisions, outputs>>
      /\ pending' = Tail(pending) /\ Len(buf) < FlushThreshold
  BY DEF LogInv, LogTyped, WriteCell
<1>2. PICK cells : cells = Append(buf, Head(pending))
  BY Zenon
<1>3. \/ Full(cells) /\ buf' = << >> /\ disk' = disk \o cells
      \/ ~Full(cells) /\ buf' = cells /\ disk' = disk
  BY <1>2, Zenon DEF WriteCell
<1>4. /\ cells \in Seq(Cell) /\ pending' \in Seq(Cell)
      /\ (disk \o cells) \o pending' = (disk \o buf) \o pending
  <2>1. Moved(disk, buf, pending, cells, pending')
    BY <1>1, <1>2, MoveCell, Zenon
  <2> QED
    BY <2>1, Zenon DEF Moved
<1>5. /\ disk' \in Seq(Cell) /\ buf' \in Seq(Cell)
      /\ (disk' \o buf') \o pending' = (disk \o buf) \o pending
  <2>1. CASE Full(cells) /\ buf' = << >> /\ disk' = disk \o cells
    <3>1. disk \o cells \in Seq(Cell) /\ (disk \o cells) \o << >> = disk \o cells
      BY <1>1, <1>4
    <3>2. << >> \in Seq(Cell)
      OBVIOUS
    <3> QED
      BY <2>1, <3>1, <3>2, <1>4, Zenon
  <2>2. CASE ~Full(cells) /\ buf' = cells /\ disk' = disk
    BY <2>2, <1>1, <1>4, Zenon
  <2> QED
    BY <1>3, <2>1, <2>2, Zenon
<1>6. Len(buf') < FlushThreshold
  <2>1. FlushThreshold \in Nat /\ FlushThreshold > 0 /\ Len(cells) \in Nat
    BY <1>4, FlushThresholdAssumption
  <2>2. Len(<< >>) = 0
    OBVIOUS
  <2>3. ~Full(cells) => Len(cells) < FlushThreshold
    BY <2>1 DEF Full
  <2> QED
    BY <1>3, <2>1, <2>2, <2>3
<1>7. ASSUME NEW recs \in Seq(Rec), Stored(recs) PROVE Stored(recs)'
  <2>1. File(recs) = (disk \o buf) \o pending
    BY <1>1, <1>7 DEF Stored
  <2>2. (disk \o buf) \o pending \in Seq(Cell)
    BY <1>1
  <2>3. status' # "crashed" /\ status' # "closed"
    BY <1>1
  <2> QED
    BY <1>4, <1>5, <2>1, <2>2, <2>3, StoredHere, Zenon
<1> QED
  BY <1>1, <1>4, <1>5, <1>6, <1>7, WriterStep

\* A flush between events, by the timer or at the end.
LEMMA FlushStep ==
  ASSUME LogInv, status = "running", pending = << >>, pending' = pending,
         buf' = << >>, disk' = disk \o buf, status' \in {"running", "closed"},
         UNCHANGED <<engine, input, decisions, outputs>>
  PROVE  LogInv'
<1>1. disk \in Seq(Cell) /\ buf \in Seq(Cell) /\ pending \in Seq(Cell)
  BY DEF LogInv, LogTyped
<1>2. /\ disk' \in Seq(Cell) /\ buf' \in Seq(Cell) /\ pending' \in Seq(Cell)
      /\ (disk' \o buf') \o pending' = (disk \o buf) \o pending
  <2>1. disk \o buf \in Seq(Cell) /\ (disk \o buf) \o << >> = disk \o buf
    BY <1>1
  <2> QED
    BY <2>1, <1>1
<1>3. Len(buf') < FlushThreshold
  <2>1. FlushThreshold \in Nat /\ FlushThreshold > 0
    BY FlushThresholdAssumption
  <2>2. Len(<< >>) = 0
    OBVIOUS
  <2> QED
    BY <2>1, <2>2
<1>4. ASSUME NEW recs \in Seq(Rec), Stored(recs) PROVE Stored(recs)'
  <2>1. File(recs) = (disk \o buf) \o pending
    BY <1>4 DEF Stored
  <2>2. (disk \o buf) \o pending \in Seq(Cell)
    BY <1>1
  <2>3. status' # "crashed" /\ pending' = << >>
    OBVIOUS
  <2> QED
    BY <1>2, <2>1, <2>2, <2>3, StoredHere, Zenon
<1> QED
  BY <1>2, <1>3, <1>4, WriterStep

\* What a flush going on writes is an initial part of what is not in the file.
LEMMA InFlightFacts ==
  ASSUME LogInv
  PROVE  /\ InFlight \in Seq(Cell)
         /\ Initial(InFlight, buf \o pending)
<1>1. PICK b : b = buf
  OBVIOUS
<1>2. PICK p : p = pending
  OBVIOUS
<1>3. b \in Seq(Cell) /\ p \in Seq(Cell)
  BY <1>1, <1>2 DEF LogInv, LogTyped
<1>4. CASE p = << >>
  <2>1. InFlight = b /\ b \o p = b
    BY <1>1, <1>2, <1>3, <1>4 DEF InFlight
  <2>2. Initial(b, b)
    BY <1>3 DEF Initial
  <2> QED
    BY <2>1, <2>2, <1>1, <1>2, <1>3, Zenon
<1>5. CASE p # << >>
  <2>1. PICK a : a = Append(b, Head(p))
    BY Zenon
  <2>2. a \in Seq(Cell) /\ Initial(a, b \o p)
    BY <1>3, <1>5, <2>1 DEF Initial
  <2>3. << >> \in Seq(Cell) /\ Initial(<< >>, b \o p)
    BY <1>3 DEF Initial
  <2>4. InFlight = a \/ InFlight = << >>
    BY <1>1, <1>2, <1>5, <2>1 DEF InFlight
  <2> QED
    BY <2>2, <2>3, <2>4, <1>1, <1>2, Zenon
<1> QED
  BY <1>4, <1>5

LEMMA CrashStep ==
  ASSUME LogInv, NEW n \in 0 .. FlushThreshold, Crash(n)
  PROVE  LogInv'
<1>1. PICK d : d = disk
  OBVIOUS
<1>2. PICK b : b = buf
  OBVIOUS
<1>3. PICK p : p = pending
  OBVIOUS
<1>4. PICK f : f = InFlight
  OBVIOUS
<1>5. PICK s : s = SubSeq(f, 1, n)
  BY Zenon
<1>6. /\ d \in Seq(Cell) /\ b \in Seq(Cell) /\ p \in Seq(Cell) /\ Len(b) < FlushThreshold
      /\ f \in Seq(Cell) /\ Initial(f, b \o p)
  BY <1>1, <1>2, <1>3, <1>4, InFlightFacts DEF LogInv, LogTyped
<1>7. /\ status = "running" /\ status' = "crashed" /\ n <= Len(f) /\ disk' = d \o s
      /\ buf' = b /\ pending' = p /\ UNCHANGED <<engine, input, decisions, outputs>>
  BY <1>1, <1>2, <1>3, <1>4, <1>5 DEF Crash
<1>8. n \in Nat
  BY FlushThresholdAssumption
<1>9. s \in Seq(Cell) /\ Len(s) = n /\ \A i \in 1 .. n : s[i] = f[i]
  BY <1>5, <1>6, <1>7, <1>8
<1>10. Initial(s, b \o p) /\ b \o p \in Seq(Cell)
  <2>1. b \o p \in Seq(Cell)
    BY <1>6
  <2>2. PICK t : t = b \o p
    BY Zenon
  <2>3. Initial(s, t)
    <3>1. Len(f) <= Len(t) /\ \A i \in 1 .. Len(f) : f[i] = t[i]
      BY <1>6, <2>2, Zenon DEF Initial
    <3>2. Len(f) \in Nat /\ Len(t) \in Nat
      BY <1>6, <2>1, <2>2
    <3>3. Len(s) = n /\ n <= Len(f)
      BY <1>7, <1>9, Zenon
    <3>4. Len(s) <= Len(t) /\ \A i \in 1 .. Len(s) : i \in 1 .. Len(f) /\ i \in 1 .. n
      BY <3>1, <3>2, <3>3, <1>8
    <3>5. \A i \in 1 .. Len(s) : s[i] = t[i]
      BY <3>1, <3>4, <1>9, Zenon
    <3> QED
      BY <3>4, <3>5, Zenon DEF Initial
  <2> QED
    BY <2>1, <2>2, <2>3
<1>11. Initial(d \o s, d \o (b \o p)) /\ d \o s \in Seq(Cell)
  <2>1. PICK t : t = b \o p
    BY Zenon
  <2>2. t \in Seq(Cell) /\ Initial(s, t)
    BY <2>1, <1>10
  <2>3. Initial(d \o s, d \o t)
    BY <2>2, <1>6, <1>9, ConcatInitial
  <2>4. d \o s \in Seq(Cell)
    BY <1>6, <1>9
  <2> QED
    BY <2>1, <2>3, <2>4, Zenon
<1>12. d \o (b \o p) = (d \o b) \o p
  <2>1. (d \o b) \o p = d \o (b \o p)
    BY <1>6, ConcatAssociative, SMTT(40)
  <2> QED
    BY <2>1, Zenon
<1>13. ASSUME NEW recs \in Seq(Rec), Stored(recs) PROVE Stored(recs)'
  <2>1. File(recs) = (d \o b) \o p
    BY <1>1, <1>2, <1>3, <1>7, <1>13, Zenon DEF Stored
  <2>2. Initial(disk', File(recs))
    BY <2>1, <1>7, <1>11, <1>12
  <2> QED
    BY <2>2, <1>7 DEF Stored, File, Cells, FileHeader
<1>14. /\ pending' \in Seq(Cell) /\ buf' \in Seq(Cell) /\ disk' \in Seq(Cell)
       /\ Len(buf') < FlushThreshold /\ status' \in {"running", "crashed", "closed"}
  BY <1>6, <1>7, <1>11
<1> QED
  BY <1>7, <1>13, <1>14, WriterStep
-----------------------------------------------------------------------------
(* The invariant holds *)

LEMMA LogStart ==
  ASSUME LogInit
  PROVE  LogInv
<1>1. /\ engine = EngineInit /\ input = << >> /\ decisions = << >> /\ outputs = << >>
      /\ pending = << >> /\ status = "running"
      /\ buf = IF FlushThreshold > 1 THEN <<FileHeader>> ELSE << >>
      /\ disk = IF FlushThreshold > 1 THEN << >> ELSE <<FileHeader>>
  BY DEF LogInit
<1>2. FlushThreshold \in Nat /\ FlushThreshold > 0 /\ MaxId \in Nat
  BY FlushThresholdAssumption, MaxIdAssumption
<1>3. PICK h : h = FileHeader
  OBVIOUS
<1>4. h \in Cell
  BY <1>3 DEF Cell
<1>5. VerifierInit \in Verifier
  BY <1>2 DEF VerifierInit, Verifier
<1>6. engine \in Engine
  BY <1>1, <1>5 DEF EngineInit, Engine
<1>7. buf \in Seq(Cell) /\ disk \in Seq(Cell) /\ Len(buf) < FlushThreshold
  BY <1>1, <1>2, <1>3, <1>4
<1>8. LogTyped
  BY <1>1, <1>6, <1>7 DEF LogTyped
<1>9. /\ Replayed(input) = [verifier |-> engine.verifier, book |-> engine.book,
                            live |-> engine.live, out |-> decisions]
      /\ StrategyRun(input) = [book |-> engine.book, live |-> engine.live,
                               calls |-> engine.strategy, out |-> outputs]
  BY <1>1, ReplayEmpty, StrategyEmpty DEF EngineInit, ReplayInit, StrategyStart
<1>10. PICK none : none = << >>
  OBVIOUS
<1>11. none \in Seq(Rec) /\ Len(none) = 0
  BY <1>10
<1>12. /\ Select(none, ME) = << >> /\ Select(none, DE) = << >> /\ Select(none, OU) = << >>
  BY <1>10, SelectEmpty
<1>13. ReplayEvents(<< >>) = << >> /\ ReplayStrategy(<< >>) = << >>
  BY ReplayEmpty, StrategyEmpty
     DEF ReplayEvents, ReplayStrategy, ReplayInit, StrategyStart
<1>14. Holds(none, input, decisions, outputs, input, decisions, outputs)
  <2>1. Agree(<< >>, << >>, << >>, << >>, << >>, << >>, << >>, << >>)
    BY DEF Agree, Initial
  <2>2. Audited(none, << >>, << >>, << >>)
    BY <2>1, <1>12, <1>13, Zenon DEF Audited
  <2>3. ASSUME NEW k \in 0 .. Len(none) PROVE SubSeq(none, 1, k) = none
    BY <1>10, <1>11
  <2> QED
    BY <2>2, <2>3, <1>1, <1>11, <1>12, Zenon DEF Holds
<1>15. File(none) = <<h>>
  <2>1. Cells(none) \in Seq(Cell) /\ Len(Cells(none)) = 0
    <3>1. Cells(none) \in Seq(Cell) /\ Len(Cells(none)) = 2 * Len(none)
      BY <1>11, CellsType, Zenon
    <3> QED
      BY <3>1, <1>11
  <2>2. Cells(none) = << >>
    BY <2>1
  <2> QED
    BY <2>2, <1>3, <1>4 DEF File
<1>16. Stored(none)
  <2>1. (disk \o buf) \o pending = <<h>>
    <3>1. PICK one : one = <<h>>
      BY Zenon
    <3>2. one \in Seq(Cell) /\ << >> \in Seq(Cell)
      BY <3>1, <1>4
    <3>3. /\ << >> \o one = one /\ one \o << >> = one
      BY <3>2, ConcatEmptySeq
    <3>4. \/ disk = << >> /\ buf = one
          \/ disk = one /\ buf = << >>
      BY <1>1, <1>3, <3>1
    <3> QED
      BY <1>1, <3>1, <3>3, <3>4, Zenon
  <2>2. Initial(disk, <<h>>)
    BY <1>1, <1>2, <1>3, <1>4 DEF Initial
  <2> QED
    BY <2>1, <2>2, <1>1, <1>15 DEF Stored
<1> QED
  BY <1>8, <1>9, <1>11, <1>14, <1>16, Zenon DEF LogInv

LEMMA LogStutters ==
  ASSUME LogInv, UNCHANGED logVars
  PROVE  LogInv'
<1>1. /\ UNCHANGED <<engine, input, decisions, outputs>>
      /\ pending' = pending /\ buf' = buf /\ disk' = disk /\ status' = status
  BY DEF logVars
<1>2. ASSUME NEW recs \in Seq(Rec), Stored(recs) PROVE Stored(recs)'
  BY <1>1, <1>2, Zenon DEF Stored, File, Cells, FileHeader
<1>3. /\ pending' \in Seq(Cell) /\ buf' \in Seq(Cell) /\ disk' \in Seq(Cell)
      /\ Len(buf') < FlushThreshold /\ status' \in {"running", "crashed", "closed"}
  BY <1>1 DEF LogInv, LogTyped
<1> QED
  BY <1>1, <1>2, <1>3, WriterStep

LEMMA LogStep ==
  ASSUME LogInv, [LogNext]_logVars
  PROVE  LogInv'
<1>1. ASSUME NEW ev \in Events, Drain(ev) PROVE LogInv'
  BY <1>1, DrainStep
<1>2. CASE WriteCell
  BY <1>2, WriteCellStep
<1>3. CASE TimerFlush
  BY <1>3, FlushStep DEF TimerFlush
<1>4. CASE Close
  BY <1>4, FlushStep DEF Close
<1>5. ASSUME NEW n \in 0 .. FlushThreshold, Crash(n) PROVE LogInv'
  BY <1>5, CrashStep
<1>6. CASE UNCHANGED logVars
  BY <1>6, LogStutters
<1> QED
  BY <1>1, <1>2, <1>3, <1>4, <1>5, <1>6 DEF LogNext

LEMMA LogInvariance == LogSpec => []LogInv
<1>1. LogInit => LogInv
  BY LogStart
<1>2. LogInv /\ [LogNext]_logVars => LogInv'
  BY LogStep
<1> QED
  BY <1>1, <1>2, PTL DEF LogSpec
-----------------------------------------------------------------------------
(* What the file shows *)

\* The records the reader finds can be audited.
LEMMA DiskAudited ==
  ASSUME LogInv, Readable(disk)
  PROVE  Audited(Records(disk), input, decisions, outputs)
<1>1. PICK recs \in Seq(Rec) :
        Holds(recs, input, decisions, outputs, input, decisions, outputs) /\ Stored(recs)
  BY DEF LogInv
<1>2. disk \in Seq(Cell) /\ disk # << >> /\ Initial(disk, File(recs))
  BY <1>1 DEF LogInv, LogTyped, Stored, Readable
<1>3. PICK k \in 0 .. Len(recs) : Records(disk) = SubSeq(recs, 1, k)
  BY <1>2, ReadBack
<1> QED
  BY <1>1, <1>3, Zenon DEF Holds

\* The verifier, the book, the strategy's calls and the cells keep their types,
\* and the buffer of EventLogWriter always stays below kFlushThreshold.
THEOREM LogTypeCorrect == LogSpec => []LogTypeOK
<1>1. LogInv => LogTypeOK
  <2> SUFFICES ASSUME LogInv PROVE LogTypeOK
    OBVIOUS
  <2>1. LogTyped
    BY DEF LogInv
  <2>2. ASSUME NEW c \in Cell
        PROVE  /\ c.part \in {"File", "Header", "Payload"}
               /\ c.part = "Header" => c.type \in RecordTypes
    BY DEF Cell, FileHeader
  <2>3. ASSUME NEW cells \in Seq(Cell), NEW i \in DOMAIN cells PROVE cells[i] \in Cell
    OBVIOUS
  <2>4. ASSUME NEW cells \in {pending, buf, disk}, NEW i \in DOMAIN cells
        PROVE  /\ cells[i].part \in {"File", "Header", "Payload"}
               /\ cells[i].part = "Header" => cells[i].type \in RecordTypes
    <3>1. cells \in Seq(Cell)
      BY <2>1 DEF LogTyped
    <3> QED
      BY <3>1, <2>2, <2>3
  <2>5. /\ engine.verifier \in Verifier /\ engine.book \in Seq(Event)
        /\ engine.live \in BOOLEAN /\ engine.strategy \in Seq(Call)
    BY <2>1 DEF LogTyped, Engine
  <2> QED
    BY <2>1, <2>4, <2>5, Zenon DEF LogTypeOK, LogTyped, Verifier, Call
<1> QED
  BY <1>1, LogInvariance, PTL

\* Wherever a crash cuts the file, ReadLogEvents gives an initial part of the
\* events the engine popped, and ReplayEvents and ReplayStrategy compute from it
\* an initial part of the decisions, quotes and fills the engine made.
THEOREM ReplayFaithful == LogSpec => []ReplayReproducesLive
<1>1. LogInv => ReplayReproducesLive
  <2> SUFFICES ASSUME LogInv, Readable(disk)
               PROVE  LET evs == ReadLogEvents(disk)
                      IN  /\ IsPrefix(evs, input)
                          /\ IsPrefix(ReplayEvents(evs), decisions)
                          /\ IsPrefix(ReplayStrategy(evs), outputs)
    BY Zenon DEF ReplayReproducesLive
  <2>1. PICK evs : evs = ReadLogEvents(disk)
    OBVIOUS
  <2>2. evs = Select(Records(disk), ME)
    BY <2>1 DEF ReadLogEvents, Payloads, ME
  <2>3. Agree(evs, Select(Records(disk), DE), Select(Records(disk), OU),
              ReplayEvents(evs), ReplayStrategy(evs), input, decisions, outputs)
    BY <2>2, DiskAudited, Zenon DEF Audited
  <2>4. /\ evs \in Seq(Event) /\ input \in Seq(Event) /\ Initial(evs, input)
        /\ ReplayEvents(evs) \in Seq(Decision) /\ decisions \in Seq(Decision)
        /\ Initial(ReplayEvents(evs), decisions)
        /\ ReplayStrategy(evs) \in Seq(Output) /\ outputs \in Seq(Output)
        /\ Initial(ReplayStrategy(evs), outputs)
    BY <2>3, Zenon DEF Agree, LogInv, LogTyped
  <2>5. /\ IsPrefix(evs, input)
        /\ IsPrefix(ReplayEvents(evs), decisions)
        /\ IsPrefix(ReplayStrategy(evs), outputs)
    BY <2>4, InitialIsPrefix, Zenon
  <2> QED
    BY <2>1, <2>5, Zenon
<1> QED
  BY <1>1, LogInvariance, PTL

\* Wherever a crash cuts the file, the decisions, quotes and fills it records
\* are what replaying its own events gives, and at most the last event lacks
\* its decision.
THEOREM LogAuditable == LogSpec => []LogAgreesWithReplay
<1>1. LogInv => LogAgreesWithReplay
  <2> SUFFICES ASSUME LogInv, Readable(disk)
               PROVE  LET evs  == ReadLogEvents(disk)
                          recs == Payloads(disk, {"Decision"})
                      IN  /\ IsPrefix(recs, ReplayEvents(evs))
                          /\ Len(evs) <= Len(recs) + 1
                          /\ IsPrefix(Payloads(disk, {"Quote", "Fill"}), ReplayStrategy(evs))
    BY Zenon DEF LogAgreesWithReplay
  <2>1. PICK evs : evs = ReadLogEvents(disk)
    OBVIOUS
  <2>2. PICK des : des = Payloads(disk, {"Decision"})
    OBVIOUS
  <2>3. PICK ous : ous = Payloads(disk, {"Quote", "Fill"})
    OBVIOUS
  <2>4. /\ evs = Select(Records(disk), ME)
        /\ des = Select(Records(disk), DE)
        /\ ous = Select(Records(disk), OU)
    BY <2>1, <2>2, <2>3 DEF ReadLogEvents, Payloads, ME, DE, OU
  <2>5. Agree(evs, des, ous, ReplayEvents(evs), ReplayStrategy(evs), input, decisions, outputs)
    BY <2>4, DiskAudited, Zenon DEF Audited
  <2>6. /\ des \in Seq(Decision) /\ ReplayEvents(evs) \in Seq(Decision)
        /\ Initial(des, ReplayEvents(evs)) /\ Len(evs) <= Len(des) + 1
        /\ ous \in Seq(Output) /\ ReplayStrategy(evs) \in Seq(Output)
        /\ Initial(ous, ReplayStrategy(evs))
    BY <2>5 DEF Agree
  <2>7. /\ IsPrefix(des, ReplayEvents(evs)) /\ Len(evs) <= Len(des) + 1
        /\ IsPrefix(ous, ReplayStrategy(evs))
    BY <2>6, InitialIsPrefix, Zenon
  <2> QED
    BY <2>1, <2>2, <2>3, <2>7, Zenon
<1> QED
  BY <1>1, LogInvariance, PTL

\* After the last flush of Run, and Close, the reader accepts the file and it has
\* every event, decision, quote and fill of the run.
THEOREM ClosedLogComplete == LogSpec => []ClosedLogIsComplete
<1>1. LogInv => ClosedLogIsComplete
  <2> SUFFICES ASSUME LogInv, status = "closed"
               PROVE  /\ Readable(disk)
                      /\ ReadLogEvents(disk) = input
                      /\ Payloads(disk, {"Decision"}) = decisions
                      /\ Payloads(disk, {"Quote", "Fill"}) = outputs
    BY Zenon DEF ClosedLogIsComplete
  <2>1. PICK recs \in Seq(Rec) :
          Holds(recs, input, decisions, outputs, input, decisions, outputs) /\ Stored(recs)
    BY DEF LogInv
  <2>2. disk \in Seq(Cell) /\ (disk \o << >>) \o << >> = File(recs) /\ Initial(disk, File(recs))
    BY <2>1 DEF LogInv, LogTyped, Stored
  <2>3. disk = File(recs)
    BY <2>2
  <2>4. /\ Len(recs) \in Nat /\ Len(disk) = 2 * Len(recs) + 1
        /\ (Len(disk) - 1) \div 2 = Len(recs)
    <3>1. Len(recs) \in Nat /\ Len(disk) = 2 * Len(recs) + 1
      BY <2>3, CellsType
    <3> QED
      BY <3>1
  <2>5. disk # << >>
    BY <2>4
  <2>6. Records(disk) = SubSeq(recs, 1, Len(recs))
    BY <2>2, <2>4, <2>5, ReadBack
  <2>7. Records(disk) = recs
    BY <2>6
  <2>8. Readable(disk)
    <3>1. disk[1] = FileHeader
      BY <2>3, CellsType, Zenon
    <3>2. Head(disk) = disk[1]
      BY <2>2, <2>5
    <3> QED
      BY <2>5, <3>1, <3>2, Zenon DEF Readable
  <2>9. /\ ReadLogEvents(disk) = input /\ Payloads(disk, {"Decision"}) = decisions
        /\ Payloads(disk, {"Quote", "Fill"}) = outputs
    BY <2>1, <2>7 DEF Holds, ReadLogEvents, Payloads, ME, DE, OU
  <2> QED
    BY <2>8, <2>9, Zenon
<1> QED
  BY <1>1, LogInvariance, PTL
=============================================================================
