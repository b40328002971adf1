------------------------------- MODULE Session ------------------------------
(***************************************************************************)
(* From the command line to the exchange and back: main and RunSmoke of    *)
(* src/engine/main.cpp, LoadConfig and LoadDotenv of src/engine/config.cpp *)
(* and the signed client of src/exchange/signed_rest_client.cpp.           *)
(*                                                                         *)
(* The local clock, the server's clock and the time a request takes each   *)
(* way are explicit; texts are what the code looks at in them: a URL is    *)
(* its host and what follows it, a key is there or not.                    *)
(***************************************************************************)
EXTENDS Integers

CONSTANTS Hosts,         \* host names
          TestnetHosts,  \* those in the list of IsTestnetOrderHost
          Scales,        \* decimal places of a price, in a file or at the exchange
          Windows,       \* values of recv_window_ms in a file
          MaxRecvWindow, \* the 60000 of LoadConfig
          MaxSkew,       \* bound: how far the local clock is off
          MaxLeg         \* bound: how long a request takes one way

ASSUME MaxSkewAssumption == MaxSkew \in Nat
ASSUME MaxLegAssumption == MaxLeg \in Nat

VARIABLES phase,   \* where the program is
          mode,    \* what argv[1] asks for
          cfg,     \* what LoadConfig returned
          keyed,   \* are the API key and the secret there?
          local,   \* system_clock::now()
          skew,    \* the server's clock minus the local clock
          offset,  \* time_offset_ms_
          tick,    \* history: the decimals of tickSize in /exchangeInfo; -1 if
                   \* the answer had no such field
          proved,  \* history: the requests the exchange said it accepted
          sent,    \* history: the last request that left the program
          result     \* the exit code: -1 while the program runs

sessVars == <<phase, mode, cfg, keyed, local, skew, offset, tick, proved,
              sent, result>>

Urls == [host : Hosts, tail : {"none", "path", "port"}]
NoUrl == [host |-> "", tail |-> "none"]

\* What LoadConfig looks at in the file: does it parse, is there a symbol, ...
Files == [parses : BOOLEAN, symbol : BOOLEAN, rest : Urls \cup {NoUrl},
          mirror : BOOLEAN, px : Scales \cup {-1}, userdata : Urls,
          window : Windows]
NoConfig == [rest |-> NoUrl, px |-> 0, window |-> 0]

NoRequest == [host |-> "", signed |-> FALSE, lead |-> 0]

SessInit ==
  /\ phase = "main" /\ mode = "none"
  /\ cfg = NoConfig /\ keyed = FALSE
  /\ local = 0 /\ skew \in -MaxSkew .. MaxSkew /\ offset = 0
  /\ tick = -1 /\ proved = {} /\ sent = NoRequest /\ result = -1

\* The program moves on, or ends.
GoTo(p) == phase' = p /\ UNCHANGED result
Exit(c) == phase' = "exit" /\ result' = c
-----------------------------------------------------------------------------
(* Hosts *)

\* HostOf of signing.cpp: the bare host, whatever surrounds it.
HostOf(url) == [host |-> url.host, tail |-> "none"]

\* HostOf of main.cpp: only the path goes.
MainHostOf(url) == IF url.tail = "path" THEN HostOf(url) ELSE url

\* IsTestnetOrderHost: the exact name, nothing around it.
IsTestnetOrderHost(h) == h.host \in TestnetHosts /\ h.tail = "none"
-----------------------------------------------------------------------------
(* main: the command line and the configuration *)

\* The modes that need no configuration end at once.  A replay reads one if it is
\* given one.
Main ==
  /\ phase = "main"
  /\ \E m \in {"version", "convert", "replay", "smoke", "run", "report"},
        given, fails \in BOOLEAN :
       /\ mode' = m
       /\ \/ m = "version" /\ Exit(0)
          \/ m = "convert" /\ Exit(IF fails THEN 1 ELSE 0)
          \/ m = "replay" /\ fails /\ Exit(1)
          \/ m = "replay" /\ ~fails /\ IF given THEN GoTo("config") ELSE Exit(0)
          \/ /\ m \in {"smoke", "run", "report"}
             /\ IF given THEN GoTo("config") ELSE Exit(1)
  /\ UNCHANGED <<cfg, keyed, local, skew, offset, tick, proved, sent>>

\* What LoadConfig throws at.
Valid(file) ==
  /\ file.parses
  /\ file.symbol
  /\ file.rest # NoUrl /\ IsTestnetOrderHost(HostOf(file.rest))
  /\ file.mirror /\ file.px >= 0
  /\ IsTestnetOrderHost(HostOf(file.userdata))
  /\ file.window > 0 /\ file.window <= MaxRecvWindow

LoadConfig ==
  /\ phase = "config"
  /\ \E file \in Files :
       IF Valid(file)
         THEN /\ cfg' = [rest |-> file.rest, px |-> file.px, window |-> file.window]
              /\ GoTo("dotenv")
         ELSE Exit(1) /\ UNCHANGED cfg
  /\ UNCHANGED <<mode, keyed, local, skew, offset, tick, proved, sent>>

\* LoadDotenv and the two reads of the environment: a name that is already set,
\* be it to nothing, keeps its value; a malformed line throws.
Environments == [{"key", "secret"} -> {"unset", "empty", "set"}]
Dotenvs == [{"key", "secret"} -> {"unset", "set"}]

SetEnv(env, file) == [k \in DOMAIN env |-> IF env[k] = "unset" THEN file[k] ELSE env[k]]

\* After it, --config reports and ends, --replay replays, --run is LiveRun.
LoadDotenv ==
  /\ phase = "dotenv"
  /\ \/ Exit(1) /\ UNCHANGED keyed
     \/ \E env \in Environments, file \in Dotenvs :
          /\ keyed' = \A k \in DOMAIN env : SetEnv(env, file)[k] = "set"
          /\ IF mode = "smoke" THEN GoTo("smoke") ELSE Exit(0)
  /\ UNCHANGED <<mode, cfg, local, skew, offset, tick, proved, sent>>
-----------------------------------------------------------------------------
(* BeastSignedRestClient *)

\* The timestamp a request is signed with.  TimestampMutant forgets the offset.
TimestampMutant == local
Timestamp == local + offset

\* Request: one that takes up to arrive and down to come back.  A host that is
\* not the testnet's is refused; a connection may fail (status 0); else the
\* exchange answers, and accepts or not.  It refuses a timestamp that is off by
\* more than recvWindow.
Request(name, signed, up, down, status) ==
  LET h    == MainHostOf(cfg.rest)
      lead == IF signed THEN Timestamp - (local + up + skew) ELSE 0
  IN  IF ~IsTestnetOrderHost(h)
        THEN status = 0 /\ UNCHANGED <<local, sent, proved>>
        ELSE /\ status = 200 => lead \in -cfg.window .. cfg.window
             /\ local' = local + up + down
             /\ sent' = [host |-> h.host, signed |-> signed, lead |-> lead]
             /\ proved' = IF status = 200 THEN proved \cup {name} ELSE proved

Legs == 0 .. MaxLeg
Statuses == {0, 200, 400}
-----------------------------------------------------------------------------
(* RunSmoke *)

\* The keys, and the host once more.
SmokeStart ==
  /\ phase = "smoke"
  /\ IF keyed /\ IsTestnetOrderHost(MainHostOf(cfg.rest)) THEN GoTo("time") ELSE Exit(1)
  /\ UNCHANGED <<mode, cfg, keyed, local, skew, offset, tick, proved, sent>>

\* GET /time: the server's time as it answers, against the local time before the
\* request.  Parsed: is there a serverTime in the answer?
GetTime ==
  /\ phase = "time"
  /\ \E up, down \in Legs, status \in Statuses, parsed \in BOOLEAN :
       LET off == (local + up + skew) - local
       IN  /\ Request("time", FALSE, up, down, status)
           /\ IF /\ status = 200 /\ parsed
                 /\ off \in -(cfg.window \div 2) .. cfg.window \div 2
                THEN offset' = off /\ GoTo("info")
                ELSE Exit(1) /\ UNCHANGED offset
  /\ UNCHANGED <<mode, cfg, keyed, skew, tick>>

\* FractionalScale of a field that is not there is 0.
ScaleFound(t) == IF t = -1 THEN 0 ELSE t

\* GET /exchangeInfo.  The price's scale stands for the quantity's too.
GetExchangeInfo ==
  /\ phase = "info"
  /\ \E up, down \in Legs, status \in Statuses, t \in Scales \cup {-1} :
       /\ Request("info", FALSE, up, down, status)
       /\ tick' = t
       /\ IF status = 200 /\ ScaleFound(t) = cfg.px THEN GoTo("order") ELSE Exit(1)
  /\ UNCHANGED <<mode, cfg, keyed, skew, offset>>

\* POST /order/test, signed.  OrderTestMutant goes on whenever there is an answer.
OrderTestMutant ==
  /\ phase = "order"
  /\ \E up, down \in Legs, status \in Statuses :
       /\ Request("order", TRUE, up, down, status)
       /\ IF status # 0 THEN GoTo("listen") ELSE Exit(1)
  /\ UNCHANGED <<mode, cfg, keyed, skew, offset, tick>>

OrderTest ==
  /\ phase = "order"
  /\ \E up, down \in Legs, status \in Statuses :
       /\ Request("order", TRUE, up, down, status)
       /\ IF status = 200 THEN GoTo("listen") ELSE Exit(1)
  /\ UNCHANGED <<mode, cfg, keyed, skew, offset, tick>>

\* POST /userDataStream, and DELETE of what it returned: its status is only
\* logged.
CreateListenKey ==
  /\ phase = "listen"
  /\ \E up, down \in Legs, status \in Statuses, empty \in BOOLEAN :
       /\ Request("listen", FALSE, up, down, status)
       /\ IF status = 200 /\ ~empty THEN GoTo("delete") ELSE Exit(1)
  /\ UNCHANGED <<mode, cfg, keyed, skew, offset, tick>>

DeleteListenKey ==
  /\ phase = "delete"
  /\ \E up, down \in Legs, status \in Statuses :
       Request("delete", FALSE, up, down, status)
  /\ Exit(0)
  /\ UNCHANGED <<mode, cfg, keyed, skew, offset, tick>>

SessNext ==
  \/ Main \/ LoadConfig \/ LoadDotenv
  \/ SmokeStart \/ GetTime \/ GetExchangeInfo \/ OrderTest
  \/ CreateListenKey \/ DeleteListenKey

SessSpec == SessInit /\ [][SessNext]_sessVars
-----------------------------------------------------------------------------
(* Properties *)

\* No request leaves the program except those of --smoke, under a configuration
\* LoadConfig has accepted, to a testnet host, although main.cpp and signing.cpp
\* each take the host out of a URL in their own way; and the timestamp of a signed
\* one differs from the server's clock, when it arrives there, by no more than a
\* request may take one way, however far the local clock is off.
RequestsAreSound ==
  sent # NoRequest =>
    /\ mode = "smoke" /\ keyed
    /\ sent.host \in TestnetHosts
    /\ sent.lead \in -MaxLeg .. MaxLeg

\* "Returns 0 iff every check passes": a smoke run that ends in 0 has had the
\* exchange's word for the time, the filters, a signed order and the user-data
\* stream, and the scale it found is the configured one.  (The DELETE of the
\* stream is not among them, and an answer without the field counts as scale 0.)
GreenIsProved ==
  mode = "smoke" /\ result = 0 =>
    /\ {"time", "info", "order", "listen"} \subseteq proved
    /\ tick = cfg.px \/ (tick = -1 /\ cfg.px = 0)
=============================================================================
