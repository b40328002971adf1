---------------------------- MODULE MCSpscQueue ----------------------------
(***************************************************************************)
(* SpscQueue for TLC: two values are enough to see elements swapped, lost  *)
(* or repeated, and the stream is longer than two turns of the ring.       *)
(***************************************************************************)
EXTENDS SpscQueue

CONSTANTS v1, v2

MCValues == {v1, v2}
=============================================================================
