---------------------------- MODULE BoundedFifo ----------------------------
(***************************************************************************)
(* What a queue between two threads promises its users: a first-in         *)
(* first-out sequence of at most Capacity elements.  SpscQueue is shown to *)
(* implement it, and MarketData uses it for queue A.                       *)
(***************************************************************************)
EXTENDS Naturals, Sequences

CONSTANTS Values,    \* what may be pushed
          Capacity,  \* most elements the queue can hold
          Nothing    \* "no element popped yet"

VARIABLES queue,     \* the elements pushed and not yet popped, oldest first
          popped     \* the element the last successful pop returned

fifoVars == <<queue, popped>>

FifoInit ==
  /\ queue = << >>
  /\ popped = Nothing

Push(v) ==
  /\ Len(queue) < Capacity
  /\ queue' = Append(queue, v)
  /\ UNCHANGED popped

Pop ==
  /\ queue # << >>
  /\ popped' = Head(queue)
  /\ queue' = Tail(queue)

FifoNext == Pop \/ \E v \in Values : Push(v)

FifoSpec == FifoInit /\ [][FifoNext]_fifoVars
=============================================================================
