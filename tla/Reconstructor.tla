--------------------------- MODULE Reconstructor ---------------------------
(***************************************************************************)
(* The pure sequencing state machine of src/exchange/reconstructor.cpp: it *)
(* decides whether a diff frame U .. u continues the book, brackets the    *)
(* snapshot, predates it, or proves that something was missed.             *)
(***************************************************************************)
EXTENDS Naturals

ReconStates == {"Idle", "AwaitFirstEvent", "Live"}

\* Reset (and the initial state).
ReconReset == [state |-> "Idle", snapshot_last_id |-> 0, prev_u |-> 0]

\* OnSnapshot, apart from the events it emits.
ReconOnSnapshot(L) ==
  [state |-> "AwaitFirstEvent", snapshot_last_id |-> L, prev_u |-> 0]

\* Mutants: the bracket rule accepts a frame that starts one update too late;
\* a live frame is only required to be newer.
BracketMutant(r, U) == U <= r.snapshot_last_id + 2
ContinuesMutant(r, U) == U > r.prev_u

\* The frame starts no later than the first update the snapshot lacks.
Bracket(r, U) == U <= r.snapshot_last_id + 1

\* The frame starts exactly where the previous one ended.
Continues(r, U) == U = r.prev_u + 1

\* OnDiffGroup: the action it returns ...
ReconAction(r, U, u) ==
  CASE r.state = "Idle" -> "NeedSnapshot"
    [] r.state = "AwaitFirstEvent" ->
         IF u <= r.snapshot_last_id THEN "Drop"
         ELSE IF Bracket(r, U) THEN "EmitAndGoLive"
         ELSE "SnapshotTooOld"
    [] r.state = "Live" -> IF Continues(r, U) THEN "Emit" ELSE "Gap"

\* ... and the state it leaves behind.
ReconOnDiffGroup(r, U, u) ==
  CASE ReconAction(r, U, u) = "EmitAndGoLive" -> [r EXCEPT !.prev_u = u, !.state = "Live"]
    [] ReconAction(r, U, u) = "Emit" -> [r EXCEPT !.prev_u = u]
    [] ReconAction(r, U, u) = "Gap" -> [r EXCEPT !.state = "Idle"]
    [] OTHER -> r
=============================================================================
