------------------------------- MODULE Listeners -------------------------------
(***************************************************************************)
(* The accept loops of the resilient client: two listeners hand out stream *)
(* ids from one atomic counter that wraps around.  The loop of the SOCKS5  *)
(* listener is a task of its own that nothing stops.                       *)
(***************************************************************************)
EXTENDS FrameCodec, FiniteSets

CONSTANTS
  MaxAccepted,  \* bound: connections accepted
  MaxLive       \* bound: connections at the same time

ASSUME AcceptAssumption == MaxAccepted \in Nat /\ MaxLive \in Nat

VARIABLES
  http, socks,  \* the listeners: off, on or stopped
  next_id,      \* AtomicU32
  accepted,     \* number of connections accepted so far
  live          \* the connections that have a handler: their number, id and listener

listenerVars == <<http, socks, next_id, accepted, live>>

ListenersInit ==
  /\ http = "off" /\ socks = "off"
  /\ next_id = 1 /\ accepted = 0
  /\ live = {}

\* The HTTP listener, and the SOCKS5 listener when it is configured.
Listen(withSocks) ==
  /\ http = "off" /\ http' = "on"
  /\ socks' = IF withSocks THEN "on" ELSE "off"
  /\ UNCHANGED <<next_id, accepted, live>>

Listening(front) == IF front = "http" THEN http = "on" ELSE socks = "on"

\* Mutant of Accept: load and store in place of fetch_add; the other loop can
\* come in between.
AcceptTorn(front) ==
  /\ Listening(front)
  /\ accepted < MaxAccepted /\ Cardinality(live) < MaxLive
  /\ live' = live \cup {[n |-> accepted + 1, id |-> next_id, front |-> front]}
  /\ next_id' \in {next_id, (next_id + 1) % IdSpace}
  /\ accepted' = accepted + 1
  /\ UNCHANGED <<http, socks>>

\* Mutant of Accept: a counter that does not wrap.
AcceptUnbounded(front) ==
  /\ Listening(front)
  /\ accepted < MaxAccepted /\ Cardinality(live) < MaxLive
  /\ live' = live \cup {[n |-> accepted + 1, id |-> next_id, front |-> front]}
  /\ next_id' = next_id + 1
  /\ accepted' = accepted + 1
  /\ UNCHANGED <<http, socks>>

\* accept, fetch_add and the spawn of the handler.
Accept(front) ==
  /\ Listening(front)
  /\ accepted < MaxAccepted /\ Cardinality(live) < MaxLive
  /\ live' = live \cup {[n |-> accepted + 1, id |-> next_id, front |-> front]}
  /\ next_id' = (next_id + 1) % IdSpace
  /\ accepted' = accepted + 1
  /\ UNCHANGED <<http, socks>>

ConnectionEnds ==
  /\ \E c \in live : live' = live \ {c}
  /\ UNCHANGED <<http, socks, next_id, accepted>>

\* A shutdown message or an error of accept ends the HTTP loop, and with it
\* run_proxy_resilient; the SOCKS5 loop ends by an error only.
HttpStops ==
  /\ http = "on" /\ http' = "stopped"
  /\ UNCHANGED <<socks, next_id, accepted, live>>
SocksStops ==
  /\ socks = "on" /\ socks' = "stopped"
  /\ UNCHANGED <<http, next_id, accepted, live>>

Serve ==
  \/ \E front \in {"http", "socks"} : Accept(front)
  \/ ConnectionEnds \/ SocksStops

ListenersNext == (\E s \in BOOLEAN : Listen(s)) \/ Serve \/ HttpStops
ListenersSpec == ListenersInit /\ [][ListenersNext]_listenerVars

-----------------------------------------------------------------------------
Connection == [n : Nat, id : Id, front : {"http", "socks"}]

ListenersOK ==
  /\ http \in {"off", "on", "stopped"} /\ socks \in {"off", "on", "stopped"}
  /\ next_id \in Id
  /\ accepted \in Nat
  /\ live \in SUBSET Connection

\* Two streams that are open at the same time have different ids, whichever
\* listener they came through and wherever the counter wrapped around, unless
\* as many connections as there are ids were accepted between them; and the id
\* reserved for HELLO is not given to a stream before the counter wrapped.
IdsDistinct ==
  \A c, d \in live :
    /\ c.n < d.n /\ d.n - c.n < IdSpace => c.id # d.id
    /\ c.n < IdSpace => c.id # 0

\* What the two sides say about a stream arrives as it was sent, for every id
\* the counter gives out, the wrapped ones included.
FramesSurvive ==
  \A c \in live :
    /\ \A t \in Text : Survives(Open(c.id, t)) /\ Survives(Data(c.id, t))
    /\ \A b \in BOOLEAN : Survives(OpenAck(c.id, b))
    /\ Survives(Close(c.id))
=============================================================================
