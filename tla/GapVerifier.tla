---------------------------- MODULE GapVerifier ----------------------------
(***************************************************************************)
(* The engine's independent check of the event stream, GapVerifier::Check  *)
(* of src/engine/gap_verifier.cpp.  A group is checked at its first event. *)
(***************************************************************************)
EXTENDS Naturals

VerifierInit ==
  [have_snapshot |-> FALSE, live |-> FALSE, snapshot_last_id |-> 0,
   prev_u |-> 0, prev_continuation |-> FALSE, undetected_gaps |-> 0]

\* Does the verifier accept ev?
VerifierOk(v, ev) ==
  \/ ev.kind = "Snapshot" \/ v.prev_continuation \/ ~v.have_snapshot
  \/ ~v.live /\ ev.U <= v.snapshot_last_id + 1 /\ v.snapshot_last_id + 1 <= ev.u
  \/ v.live /\ ev.U = v.prev_u + 1

\* Does ev end the wait for the bracket event?
VerifierGoesLive(v, ev) ==
  ev.kind = "DepthDiff" /\ ~v.prev_continuation /\ v.have_snapshot /\ VerifierOk(v, ev)

\* The verifier after Check(ev).
VerifierCheck(v, ev) ==
  [have_snapshot     |-> v.have_snapshot \/ ev.start,
   live              |-> (v.live /\ ~ev.start) \/ VerifierGoesLive(v, ev),
   snapshot_last_id  |-> IF ev.start THEN ev.u ELSE v.snapshot_last_id,
   prev_u            |-> IF ev.cont THEN v.prev_u ELSE ev.u,
   prev_continuation |-> ev.cont,
   undetected_gaps   |-> IF VerifierOk(v, ev) THEN v.undetected_gaps
                         ELSE v.undetected_gaps + 1]
=============================================================================
