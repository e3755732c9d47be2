----------------------------- MODULE SessionKeeper -----------------------------
(***************************************************************************)
(* The life of mux sessions, one after the other: the keeper task of the   *)
(* resilient client (token from /control, connection to /mux, HELLO,       *)
(* publication, reconnection with backoff, shutdown), the server's token   *)
(* store, its accept loop and the tasks of its connections, and the faults *)
(* between them.  What happens inside one established session is the       *)
(* subject of MuxSession.                                                  *)
(***************************************************************************)
EXTENDS Integers

CONSTANTS
  RECONNECT_INITIAL,  \* the first delay
  RECONNECT_MAX,      \* the longest delay
  MaxFaults,          \* bound: broken links, crashes and stops of the server, late accepts
  StopBy              \* how the server is stopped: a subset of {"send", "drop"}

ASSUME DelayAssumption ==
  /\ RECONNECT_INITIAL \in Nat \ {0}
  /\ RECONNECT_MAX \in Nat /\ RECONNECT_MAX >= RECONNECT_INITIAL
ASSUME FaultAssumption ==
  /\ MaxFaults \in Nat
  /\ StopBy \subseteq {"send", "drop"}

VARIABLES
  keeper,     \* where run_mux_keeper is
  backoff,    \* its delay
  token,      \* the token it holds, 0 for none
  shared,     \* SharedMux: the number of the published connection, 0 for None
  stop,       \* keeper_stop_tx was sent to
  control,    \* the /control connection: none, open, hi, bye or broken
  offer,      \* the token in its reply
  conns,      \* number of /mux connections made so far
  hello,      \* hello[c]: the token sent in HELLO on connection c, 0 for none
  link,       \* link[c]: none, up or down
  srv,        \* srv[c]: the server's task for c: none, hello, live, cut or gone
  listening,  \* the accept loop of serve runs
  store,      \* TokenStore
  issued,     \* tokens issued so far, Uuid::new_v4 never repeats
  allowed,    \* the running server accepts this client's version and user
  shutdown,   \* the server's shutdown channel: quiet, message, taken or closed
  faults      \* faults so far

client == <<keeper, backoff, token, shared, stop>>
server == <<listening, store, issued, allowed, shutdown>>
vars   == <<client, server, control, offer, conns, hello, link, srv, faults>>

\* A fault can cost the connection in use and the token of the next one
\* (ReconnectsOwed).
MaxConn == 2 * MaxFaults + 1
Conn    == 1..MaxConn

Fault == faults < MaxFaults /\ faults' = faults + 1

\* Mutant of Doubled: the delay has no limit.
DoubledUncapped(b) == 2 * b

Doubled(b) == IF 2 * b <= RECONNECT_MAX THEN 2 * b ELSE RECONNECT_MAX

Init ==
  /\ keeper = "ask" /\ backoff = RECONNECT_INITIAL /\ token = 0 /\ shared = 0 /\ stop = FALSE
  /\ control = "none" /\ offer = 0
  /\ conns = 0
  /\ hello = [c \in Conn |-> 0]
  /\ link = [c \in Conn |-> "none"]
  /\ srv = [c \in Conn |-> "none"]
  /\ listening = TRUE /\ store = {} /\ issued = 0 /\ shutdown = "quiet"
  /\ allowed \in BOOLEAN
  /\ faults = 0

-----------------------------------------------------------------------------
(* The keeper.                                                             *)

\* connect_async fails without a server, or because the network fails.
ConnectFails == IF listening THEN Fault ELSE UNCHANGED faults

\* connect_async succeeds.  The accept loop may take a connection after it was
\* told to stop; each of these on /mux counts against MaxFaults.
ConnectOk(late) ==
  /\ listening
  /\ IF late THEN Fault ELSE UNCHANGED faults

\* obtain_token connects to /control and sends Hello.
Ask ==
  /\ keeper = "ask"
  /\ \/ ConnectOk(FALSE) /\ keeper' = "answer" /\ control' = "open"
     \/ ConnectFails /\ keeper' = "retry" /\ UNCHANGED control
  /\ UNCHANGED <<backoff, token, shared, stop, server, offer, conns, hello, link, srv>>

\* Mutant of Answer: backoff keeps its value when a token arrives.
AnswerOnly ==
  /\ keeper = "answer"
  /\ \/ control = "hi" /\ token' = offer /\ keeper' = "dial"
     \/ control \in {"bye", "broken"} /\ keeper' = "retry" /\ UNCHANGED token
  /\ control' = "none"
  /\ UNCHANGED <<backoff, shared, stop, server, offer, conns, hello, link, srv, faults>>

\* The reply is Hi with a token, or there is none.
Answer ==
  /\ keeper = "answer"
  /\ \/ /\ control = "hi"
        /\ token' = offer /\ backoff' = RECONNECT_INITIAL /\ keeper' = "dial"
     \/ /\ control \in {"bye", "broken"}
        /\ keeper' = "retry" /\ UNCHANGED <<token, backoff>>
  /\ control' = "none"
  /\ UNCHANGED <<shared, stop, server, offer, conns, hello, link, srv, faults>>

\* connect_async to /mux.
Dial ==
  /\ keeper = "dial"
  /\ \/ /\ ConnectOk(shutdown = "closed") /\ conns < MaxConn
        /\ conns' = conns + 1
        /\ link' = [link EXCEPT ![conns + 1] = "up"]
        /\ srv' = [srv EXCEPT ![conns + 1] = "hello"]
        /\ keeper' = "hello"
     \/ /\ ConnectFails
        /\ keeper' = "redial"
        /\ UNCHANGED <<conns, link, srv>>
  /\ UNCHANGED <<backoff, token, shared, stop, server, control, offer, hello>>

\* HELLO is sent and the connection published without waiting for the server.
\* On a link that just broke the send fails or goes into a buffer.
SayHello ==
  /\ keeper = "hello"
  /\ \/ /\ hello' = [hello EXCEPT ![conns] = token]
        /\ backoff' = RECONNECT_INITIAL
        /\ shared' = conns
        /\ keeper' = "serve"
     \/ /\ link[conns] = "down"
        /\ keeper' = "ask"
        /\ UNCHANGED <<hello, backoff, shared>>
  /\ token' = 0
  /\ UNCHANGED <<stop, server, control, offer, conns, link, srv, faults>>

\* A sleep ends.  Both retries go back to /control for a new token.
Wake ==
  /\ keeper \in {"retry", "redial"}
  /\ backoff' = Doubled(backoff)
  /\ keeper' = "ask"
  /\ token' = 0
  /\ UNCHANGED <<shared, stop, server, control, offer, conns, hello, link, srv, faults>>

\* Mutant of Disconnect: the connection that died stays in SharedMux.
DisconnectPublished ==
  /\ keeper = "serve" /\ link[conns] = "down"
  /\ keeper' = "ask"
  /\ UNCHANGED <<backoff, token, shared, stop, server, control, offer, conns, hello, link, srv, faults>>

\* The reader or the writer of the session ended and signalled disc_tx.
Disconnect ==
  /\ keeper = "serve" /\ link[conns] = "down"
  /\ shared' = 0
  /\ keeper' = "ask"
  /\ UNCHANGED <<backoff, token, stop, server, control, offer, conns, hello, link, srv, faults>>

\* Mutant of KeeperStops: a session in use is not interrupted.
KeeperStopsAsleep ==
  /\ stop /\ keeper \in {"retry", "redial"}
  /\ keeper' = "stopped" /\ shared' = 0
  /\ UNCHANGED <<backoff, token, stop, server, control, offer, conns, hello, link, srv, faults>>

\* Only the two sleeps and the wait for a disconnect listen to the stop signal.
KeeperStops ==
  /\ stop /\ keeper \in {"retry", "redial", "serve"}
  /\ keeper' = "stopped" /\ shared' = 0
  /\ UNCHANGED <<backoff, token, stop, server, control, offer, conns, hello, link, srv, faults>>

Keeper == Ask \/ Answer \/ Dial \/ SayHello \/ Wake \/ Disconnect

-----------------------------------------------------------------------------
(* The server.                                                             *)

\* Mutant of Control: the token is sent and not stored.
ControlUnstored ==
  /\ control = "open"
  /\ \/ allowed /\ issued' = issued + 1 /\ offer' = issued + 1 /\ control' = "hi"
     \/ ~allowed /\ control' = "bye" /\ UNCHANGED <<issued, offer>>
  /\ UNCHANGED <<client, listening, store, allowed, shutdown, conns, hello, link, srv, faults>>

\* process_control: the token is stored before the reply is sent.
Control ==
  /\ control = "open"
  /\ \/ /\ allowed
        /\ issued' = issued + 1
        /\ store' = store \cup {issued + 1}
        /\ offer' = issued + 1
        /\ control' = "hi"
     \/ /\ ~allowed
        /\ control' = "bye"
        /\ UNCHANGED <<issued, store, offer>>
  /\ UNCHANGED <<client, listening, allowed, shutdown, conns, hello, link, srv, faults>>

\* Mutant of Admit: token_store.contains in place of remove.
AdmitContains(c) ==
  /\ srv[c] = "hello" /\ hello[c] # 0
  /\ \/ /\ hello[c] \in store
        /\ srv' = [srv EXCEPT ![c] = "live"]
        /\ UNCHANGED link
     \/ /\ hello[c] \notin store
        /\ srv' = [srv EXCEPT ![c] = "gone"]
        /\ link' = [link EXCEPT ![c] = "down"]
  /\ UNCHANGED <<client, server, control, offer, conns, hello, faults>>

\* Mutant of Admit: a HELLO with an unknown token is ignored.
AdmitIgnores(c) ==
  /\ srv[c] = "hello" /\ hello[c] \in store
  /\ store' = store \ {hello[c]}
  /\ srv' = [srv EXCEPT ![c] = "live"]
  /\ UNCHANGED <<client, listening, issued, allowed, shutdown, control, offer, conns, hello, link, faults>>

\* run_server_mux_session takes the token out of the store or drops the connection.
Admit(c) ==
  /\ srv[c] = "hello" /\ hello[c] # 0
  /\ \/ /\ hello[c] \in store
        /\ store' = store \ {hello[c]}
        /\ srv' = [srv EXCEPT ![c] = "live"]
        /\ UNCHANGED link
     \/ /\ hello[c] \notin store
        /\ srv' = [srv EXCEPT ![c] = "gone"]
        /\ link' = [link EXCEPT ![c] = "down"]
        /\ UNCHANGED store
  /\ UNCHANGED <<client, listening, issued, allowed, shutdown, control, offer, conns, hello, faults>>

\* The source of connection c ends.
Notice(c) ==
  /\ link[c] = "down" /\ srv[c] \in {"hello", "live"}
  /\ srv' = [srv EXCEPT ![c] = "gone"]
  /\ UNCHANGED <<client, server, control, offer, conns, hello, link, faults>>

\* A () in the shutdown channel wakes one receiver, closing it wakes all.
Taken == IF shutdown = "message" THEN "taken" ELSE shutdown

ServeStops ==
  /\ listening /\ shutdown \in {"message", "closed"}
  /\ listening' = FALSE
  /\ shutdown' = Taken
  /\ UNCHANGED <<client, store, issued, allowed, control, offer, conns, hello, link, srv, faults>>

\* select! drops the reader.  The WebSocket closes when the writer task ends
\* too, which it does not while a stream task of the session has a FrameTx.
ConnStops(c) ==
  /\ srv[c] \in {"hello", "live"} /\ shutdown \in {"message", "closed"}
  /\ shutdown' = Taken
  /\ \/ /\ srv' = [srv EXCEPT ![c] = "gone"]
        /\ link' = [link EXCEPT ![c] = "down"]
     \/ /\ srv[c] = "live"
        /\ srv' = [srv EXCEPT ![c] = "cut"]
        /\ UNCHANGED link
  /\ UNCHANGED <<client, listening, store, issued, allowed, control, offer, conns, hello, faults>>

ControlStops ==
  /\ control = "open" /\ shutdown \in {"message", "closed"}
  /\ shutdown' = Taken
  /\ control' = "broken"
  /\ UNCHANGED <<client, listening, store, issued, allowed, offer, conns, hello, link, srv, faults>>

Server ==
  \/ Control \/ ServeStops \/ ControlStops
  \/ \E c \in Conn : Admit(c) \/ Notice(c) \/ ConnStops(c)

-----------------------------------------------------------------------------
(* The environment.                                                        *)

\* run_proxy_resilient gets its own shutdown and passes it on.
StopClient ==
  /\ ~stop
  /\ stop' = TRUE
  /\ UNCHANGED <<keeper, backoff, token, shared, server, control, offer, conns, hello, link, srv, faults>>

\* The owner of the server sends into the shutdown channel, or drops its sender.
StopServer ==
  /\ listening /\ shutdown \in {"quiet", "taken"} /\ Fault
  /\ \E how \in StopBy : shutdown' = IF how = "send" THEN "message" ELSE "closed"
  /\ UNCHANGED <<client, listening, store, issued, allowed, control, offer, conns, hello, link, srv>>

\* A connection breaks, the one to /control with or without its reply on the way.
LinkFails ==
  /\ Fault
  /\ \/ \E c \in Conn : link[c] = "up" /\ link' = [link EXCEPT ![c] = "down"] /\ UNCHANGED control
     \/ control \in {"open", "hi"} /\ control' = "broken" /\ UNCHANGED link
  /\ UNCHANGED <<client, server, offer, conns, hello, srv>>

\* The server dies: its tokens are gone and every connection breaks.
Crash ==
  /\ Fault
  /\ listening' = FALSE /\ store' = {} /\ shutdown' = "quiet"
  /\ srv' = [c \in Conn |-> IF srv[c] = "none" THEN "none" ELSE "gone"]
  /\ link' = [c \in Conn |-> IF link[c] = "none" THEN "none" ELSE "down"]
  /\ control' = IF control = "none" THEN "none" ELSE "broken"
  /\ UNCHANGED <<client, issued, allowed, offer, conns, hello>>

\* serve starts again, once the connections of the server before it were let go,
\* with a TokenStore, a shutdown channel and a configuration of its own.
Restart ==
  /\ ~listening /\ control # "open"
  /\ \A c \in Conn : srv[c] \notin {"hello", "live"}
  /\ listening' = TRUE /\ store' = {} /\ shutdown' = "quiet" /\ allowed' \in BOOLEAN
  /\ UNCHANGED <<client, issued, control, offer, conns, hello, link, srv, faults>>

\* The last stream task of a session that was cut ends, and the writer with it.
LastStreamEnds(c) ==
  /\ srv[c] = "cut"
  /\ srv' = [srv EXCEPT ![c] = "gone"]
  /\ link' = [link EXCEPT ![c] = "down"]
  /\ UNCHANGED <<client, server, control, offer, conns, hello, faults>>

Environment ==
  \/ StopClient \/ StopServer \/ LinkFails \/ Crash \/ Restart
  \/ \E c \in Conn : LastStreamEnds(c)

Next == Keeper \/ KeeperStops \/ Server \/ Environment

Spec == Init /\ [][Next]_vars

\* Tasks run, sleeps end, and select! picks a branch that stays ready (it
\* chooses at random).  The server may stay down, streams may stay open.
Fairness ==
  /\ WF_vars(Keeper) /\ SF_vars(KeeperStops)
  /\ WF_vars(Control) /\ WF_vars(ServeStops) /\ WF_vars(ControlStops)
  /\ \A c \in Conn : WF_vars(Admit(c)) /\ WF_vars(Notice(c)) /\ WF_vars(ConnStops(c))

FairSpec == Spec /\ Fairness

-----------------------------------------------------------------------------
(* Properties.                                                             *)

KeeperOK ==
  /\ keeper \in {"ask", "answer", "retry", "dial", "redial", "hello", "serve", "stopped"}
  /\ backoff \in RECONNECT_INITIAL..RECONNECT_MAX
  /\ token \in 0..issued
  /\ shared \in 0..conns
  /\ stop \in BOOLEAN
ConnsOK ==
  /\ control \in {"none", "open", "hi", "bye", "broken"}
  /\ offer \in 0..issued
  /\ conns \in 0..MaxConn
  /\ hello \in [Conn -> 0..issued]
  /\ link \in [Conn -> {"none", "up", "down"}]
  /\ srv \in [Conn -> {"none", "hello", "live", "cut", "gone"}]
ServerOK ==
  /\ listening \in BOOLEAN /\ allowed \in BOOLEAN
  /\ issued \in Nat
  /\ store \in SUBSET (1..issued)
  /\ shutdown \in {"quiet", "message", "taken", "closed"}
  /\ faults \in 0..MaxFaults

\* Every variable has its type, and the delay stays between its two limits.
TypeOK == KeeperOK /\ ConnsOK /\ ServerOK

\* A token opens one session: no two connections ever say HELLO with the same
\* token, however attempts fail in between, and a session that was admitted has
\* used its token up.
TokenOnce ==
  /\ \A c, d \in Conn : c # d /\ hello[c] # 0 => hello[c] # hello[d]
  /\ \A c \in Conn : srv[c] \in {"live", "cut"} => hello[c] \notin store

\* A client whose token was accepted once more waits no longer than the first
\* delay, whatever failed before: after a failed connect to /mux too.
FreshBackoff ==
  keeper \in {"dial", "redial", "hello", "serve"} => backoff = RECONNECT_INITIAL

\* Handlers see a connection only while the keeper watches it, and it is the last
\* one made: an earlier session is never published again.
PublishedIsWatched == shared # 0 => keeper = "serve" /\ shared = conns

\* No reconnection storm: every /mux connection after the first is owed to a
\* fault, and a fault costs at most two of them, the one in use and the one
\* whose token a restarted server does not know.  So MaxConn never holds the
\* keeper back.
ReconnectsOwed == conns + (IF keeper = "dial" THEN 1 ELSE 0) <= 2 * faults + 1

\* The client ends up with an admitted session again after broken links,
\* crashes between any two steps of the handshake and stops of the server, if a
\* server runs: the one exception is a session cut by a stop while streams
\* were open.
Recovers ==
  <>[](\/ stop \/ ~listening \/ ~allowed
       \/ shared # 0 /\ srv[shared] \in {"live", "cut"})

\* A client that is told to stop does so and withdraws its connection, at
\* whatever point of the handshake it is.
ClientStops == stop ~> keeper = "stopped" /\ shared = 0

\* What the restart test says: after the server restarts the client reconnects.
RecoversAfterRestart ==
  <>[](\/ stop \/ ~listening \/ ~allowed
       \/ shared # 0 /\ srv[shared] = "live")
=============================================================================
