-------------------------- MODULE OpenRouterRelay --------------------------
(***************************************************************************)
(* The loopback relay of one run of the OpenCode seat (OpenRouterRelay,    *)
(* src/quorum/agents/openrouter_relay.py): it accepts the connections of   *)
(* the opencode process, forwards each request to OpenRouter, keeps a row  *)
(* for each, and is stopped when opencode is gone.                         *)
(*                                                                         *)
(* An action is what one coroutine does between two awaits: a handler of   *)
(* one connection, or start() and stop().  `caller' says whether the       *)
(* opencode process is alive; the module that runs it changes it.  A row   *)
(* is the entry of `turns' and the line of the ledger, which are written   *)
(* without an await between them; that a request has one is all that is    *)
(* kept of it.                                                             *)
(***************************************************************************)
EXTENDS FiniteSets

CONSTANT Conn          \* the connections opencode may make

VARIABLES
  life,       \* how far start() and stop() have got
  listening,  \* the listener is open
  client,     \* the upstream client: "none", "open" or "closed"
  caller,     \* opencode is alive
  conn,       \* where the handler of each connection stands
  turns,      \* those whose request has its row
  served,     \* those whose request the upstream answered (history)
  waited,     \* the handlers stop() took from _tasks
  late,       \* connections accepted by then without a handler in it (history)
  cancelled   \* those it cancelled that have not seen it yet

relayVars == <<life, listening, client, caller, conn, turns, served, waited, late, cancelled>>

Life   == {"unbound", "binding", "serving", "waiting", "gathering", "closing",
           "stopped", "abandoned"}
Handling == {"reading", "relaying", "streaming", "flushing"}
Stage  == {"new", "accepted", "closed"} \cup Handling

RelayTypeOK ==
  /\ life \in Life
  /\ listening \in BOOLEAN /\ caller \in BOOLEAN
  /\ client \in {"none", "open", "closed"}
  /\ conn \in [Conn -> Stage]
  /\ turns \subseteq Conn /\ served \subseteq Conn
  /\ waited \subseteq Conn /\ late \subseteq Conn /\ cancelled \subseteq Conn

RelayInit ==
  /\ life = "unbound" /\ listening = FALSE /\ client = "none" /\ caller = FALSE
  /\ conn = [c \in Conn |-> "new"] /\ turns = {} /\ served = {}
  /\ waited = {} /\ late = {} /\ cancelled = {}

\* _tasks: a handler is in it from its first step to its last.
Tasks == {c \in Conn : conn[c] \in Handling}
Moves(c, from, to) == conn[c] \in from /\ conn' = [conn EXCEPT ![c] = to]
\* The finally of _handle: the row, then a last drain.
Recorded(c) ==
  /\ turns' = turns \cup {c}
  /\ cancelled' = cancelled \ {c}
  /\ UNCHANGED <<life, listening, client, caller, served, waited, late>>
Elsewhere == UNCHANGED <<life, listening, client, caller, turns, served, waited, late, cancelled>>

-----------------------------------------------------------------------------
(* The handler of a connection *)

Connect(c) == listening /\ caller /\ Moves(c, {"new"}, "accepted") /\ Elsewhere

\* _serve runs for the first time.
Register(c) == Moves(c, {"accepted"}, "reading") /\ Elsewhere

\* The caller hangs up before its request is complete, or it is malformed.
HangsUp(c) == c \notin cancelled /\ Moves(c, {"reading"}, "closed") /\ Elsewhere

\* The request is complete.  A relay that has dropped its client fails an
\* assertion instead of forwarding it.
Forward(c) ==
  /\ c \notin cancelled
  /\ IF client = "open"
     THEN Moves(c, {"reading"}, "relaying") /\ Elsewhere
     ELSE Moves(c, {"reading"}, "flushing") /\ Recorded(c)

\* The upstream answers.
Answers(c) ==
  /\ c \notin cancelled /\ client = "open"
  /\ Moves(c, {"relaying"}, "streaming")
  /\ served' = served \cup {c}
  /\ UNCHANGED <<life, listening, client, caller, turns, waited, late, cancelled>>

\* The whole stream was passed on.
Completes(c) ==
  /\ c \notin cancelled /\ client = "open"
  /\ Moves(c, {"streaming"}, "flushing") /\ Recorded(c)

\* The upstream cannot be reached or breaks off, or its client was closed.
Fails(c) ==
  /\ c \notin cancelled
  /\ Moves(c, {"relaying", "streaming"}, "flushing") /\ Recorded(c)

\* What is written for a caller that is gone fails.
CallerGone(c) ==
  /\ c \notin cancelled /\ ~caller
  /\ Moves(c, {"streaming"}, "flushing") /\ Recorded(c)

Flushed(c) == c \notin cancelled /\ Moves(c, {"flushing"}, "closed") /\ Elsewhere

\* The cancellation by stop() arrives: a request that was forwarded still
\* gets its row.
Unwinds(c) ==
  /\ c \in cancelled
  /\ \/ Moves(c, {"relaying", "streaming"}, "flushing") /\ Recorded(c)
     \/ /\ Moves(c, {"reading", "flushing"}, "closed")
        /\ cancelled' = cancelled \ {c}
        /\ UNCHANGED <<life, listening, client, caller, turns, served, waited, late>>

Handler(c) ==
  \/ Register(c) \/ HangsUp(c) \/ Forward(c) \/ Answers(c) \/ Completes(c)
  \/ Fails(c) \/ CallerGone(c) \/ Flushed(c) \/ Unwinds(c)

-----------------------------------------------------------------------------
(* start() and stop() *)

\* asyncio.start_server listens, then lets the loop run once.
Bind ==
  /\ life = "unbound"
  /\ life' = "binding" /\ listening' = TRUE
  /\ UNCHANGED <<client, caller, conn, turns, served, waited, late, cancelled>>

\* Only then is there a client.
Started ==
  /\ life = "binding"
  /\ life' = "serving" /\ client' = "open"
  /\ UNCHANGED <<listening, caller, conn, turns, served, waited, late, cancelled>>

\* A cancellation that arrives in between: nobody has the server to close it.
StartCancelled ==
  /\ life = "binding"
  /\ life' = "abandoned"
  /\ UNCHANGED <<listening, client, caller, conn, turns, served, waited, late, cancelled>>

\* stop() closes the listener and waits for the handlers of that moment.
Stop ==
  /\ life = "serving"
  /\ listening' = FALSE
  /\ waited' = Tasks /\ late' = {c \in Conn : conn[c] = "accepted"}
  /\ IF Tasks = {} THEN life' = "closing" /\ client' = "closed"
                   ELSE life' = "waiting" /\ client' = client
  /\ UNCHANGED <<caller, conn, turns, served, cancelled>>

Ended(C) == \A c \in C : conn[c] = "closed"
CloseClient ==
  /\ life' = "closing" /\ client' = "closed"
  /\ UNCHANGED <<listening, caller, conn, turns, served, waited, late, cancelled>>

WaitEnds == life = "waiting" /\ Ended(waited) /\ CloseClient

\* After five seconds the rest are cancelled.  (Slips: they are not; there is
\* no such limit.)
WaitTimesOutOnly ==
  /\ life = "waiting" /\ ~Ended(waited) /\ CloseClient
WaitNeverTimesOut == life = "waiting" /\ Ended(waited) /\ CloseClient
WaitTimesOut ==
  /\ life = "waiting" /\ ~Ended(waited)
  /\ life' = "gathering"
  /\ cancelled' = {c \in waited : conn[c] # "closed"}
  /\ UNCHANGED <<listening, client, caller, conn, turns, served, waited, late>>

\* gather: the client stays until they have unwound.
GatherEnds == life = "gathering" /\ Ended(waited) /\ CloseClient

CloseEnds ==
  /\ life = "closing"
  /\ life' = "stopped"
  /\ UNCHANGED <<listening, client, caller, conn, turns, served, waited, late, cancelled>>

\* A cancellation of the task that awaits stop() ends it where it stands.
StopCancelled ==
  /\ life \in {"waiting", "gathering", "closing"}
  /\ life' = "abandoned"
  /\ UNCHANGED <<listening, client, caller, conn, turns, served, waited, late, cancelled>>
=============================================================================
