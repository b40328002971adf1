---------------------------- MODULE MCComponents ----------------------------
(***************************************************************************)
(* The components that share no state with the others, for one run of TLC. *)
(* A behaviour is a behaviour of one of them, chosen at the start; the     *)
(* variables of the others keep their initial values.  The states are the  *)
(* sum of the components' states, not the product.                         *)
(***************************************************************************)
EXTENDS L2Book, TokenBucket, Decimals, EventLog, Connection, Session, LiveRun

VARIABLE component

Components == {"book", "bucket", "decimals", "log", "connection", "session", "live"}

allVars == <<component, bookVars, bucketVars, text, logVars, connVars, sessVars, liveVars>>

\* Where a component has several initial states, one is enough for it to rest in.
Init ==
  /\ component \in Components
  /\ BookInit /\ (component # "book" => side = "Bid")
  /\ BucketInit
  /\ DecInit
  /\ LogInit
  /\ ConnInit
  /\ SessInit /\ (component # "session" => skew = 0)
  /\ LiveInit

Book ==
  /\ component = "book" /\ BookNext
  /\ UNCHANGED <<component, bucketVars, text, logVars, connVars, sessVars, liveVars>>

Bucket ==
  /\ component = "bucket" /\ BucketNext
  /\ UNCHANGED <<component, bookVars, text, logVars, connVars, sessVars, liveVars>>

Decimal ==
  /\ component = "decimals" /\ DecNext
  /\ UNCHANGED <<component, bookVars, bucketVars, logVars, connVars, sessVars, liveVars>>

Log ==
  /\ component = "log" /\ LogNext
  /\ UNCHANGED <<component, bookVars, bucketVars, text, connVars, sessVars, liveVars>>

Conn ==
  /\ component = "connection" /\ ConnNext
  /\ UNCHANGED <<component, bookVars, bucketVars, text, logVars, sessVars, liveVars>>

Sess ==
  /\ component = "session" /\ SessNext
  /\ UNCHANGED <<component, bookVars, bucketVars, text, logVars, connVars, liveVars>>

Live ==
  /\ component = "live" /\ LiveNext
  /\ UNCHANGED <<component, bookVars, bucketVars, text, logVars, connVars, sessVars>>

Next == Book \/ Bucket \/ Decimal \/ Log \/ Conn \/ Sess \/ Live

\* The fairness is that of the live program; the others are checked for safety.
Spec == Init /\ [][Next]_allVars /\ (component = "live" => LiveFairness)

\* RunLive returns, of the behaviours that are the live program's: after a signal or
\* the deadline, each thread sees g_stop wherever it is and main gets past its joins.
LiveProgramEnds == component = "live" => ProgramEnds
=============================================================================
