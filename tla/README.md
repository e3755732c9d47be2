# Echo Proxy: TLA+ models, checks and proofs

Echo Proxy tunnels local HTTP and SOCKS5 connections to a remote server through
one WebSocket that carries any number of logical streams. This directory holds
TLA+ models of it, from the client's command line and the first byte of a local
connection to the socket the server opens, TLC configurations that check them on small instances, and TLAPS
proofs of the main safety properties for every instance. `PROJECT.json` is the
index: components, runs, mutants, the map from definitions to source lines,
findings, hazards and theorems.

## 1. The system

| Component | Source | State | Operations |
|---|---|---|---|
| Frame codec | `core-lib/src/frame.rs` | none | `encode`, `decode` of HELLO, OPEN, OPEN_ACK, DATA, CLOSE |
| Stream registry | `core-lib/src/session.rs` | map from stream id to the sender of a bounded data channel (32) | `register`, `route` (waits when full), `close`, `close_all` |
| Client session tasks | `client/src/lib.rs` 226-335, 1045-1071 | frame channel (128), registry, `pending_acks` | writer loop, `run_client_reader` |
| Request handlers | `client/src/lib.rs` 456-496, 606-810, 1091-1218 | per request: its step, its ack channel, its socket | snapshot of the session, register, insert ack, send OPEN, wait, reply, relay |
| Session keeper | `client/src/lib.rs` 866-1089 | backoff, token, `SharedMux`, stop signal | token, connect, HELLO, publish, wait for a disconnect, take and close, back off |
| Server session tasks | `server/src/lib.rs` 203-319 | frame channel, registry | HELLO check, reader, writer, `handle_open`, stream tasks |
| Token store | `server/src/lib.rs` 126-199, 222 | set of UUIDs | issue in `/control`, remove in `/mux` |
| Accept loop, shutdown | `server/src/lib.rs` 36-122 | shutdown channel shared by all tasks | accept, stop |
| Destination filter | `server/src/lib.rs` 321-343 | none | `is_dest_allowed`, `is_public_ip` |
| HTTP and SOCKS5 front ends | `client/src/lib.rs` 498-589, 812-864 | header and body being read, `BufReader` | `parse_request_header`, `parse_socks5_request` |
| Direct path | `client/src/lib.rs` 384-454, 591-603 | two sockets, two relay tasks | `handle_direct`, `handle_socks_direct`, `relay_tcp` |
| Routing, rule files | `client/src/lib.rs` 50-152, `geoip.rs`, `geosite.rs` | `RoutingConfig` | pattern, domain and address rules, `should_bypass`, the loaders |
| Stream ids, listeners | `client/src/lib.rs` 897-973 | wrapping `u32` counter shared by two accept loops | `accept`, `fetch_add`, shutdown |
| Client start-up | `client/src/main.rs` | options, config file | required and optional rule files, bind, run |
| Server start-up | `server/src/main.rs` | none | options, files, logging |

How they interact. `main` merges options and file, loads the rules and binds the
listeners. A local connection gets a stream id from the shared counter and a handler,
which reads a request, asks the rules for the route and connects directly or uses
the tunnel. For the tunnel it copies the published session out of `SharedMux`, registers its id, inserts an ack
sender into `pending_acks`, puts OPEN into the frame channel and waits for
OPEN_ACK (with a timeout in the resilient client). The client's writer loop moves
frames to the WebSocket; the server's reader loop connects to the destination
*inside* the loop, answers OPEN_ACK and starts two tasks for the stream: a pump
(socket to frame channel) and `write_task` (data channel to socket). The client
starts the same two after the ack. A reader that meets a full data channel
waits, and with it every other stream. The keeper watches the session, takes it out of
`SharedMux` when a loop ends, and makes the next one.

What is hard: the bounded channels and the readers that block can wait for each
other; four tasks and the keeper call `close`, `close_all` and `pending_acks.clear`
in any order while handlers use a snapshot of the session; answers arrive after
their timeout; the link, the server or a peer goes away between any two steps;
one shutdown message has many receivers. In a local connection a parser with a
buffer of its own and then a relay read the same socket, while the application, the
destination and the session come and go. In the rules, text is taken apart three
times (front end, rules, server's filter) and has to mean the same each time.

What makes the components correct: chunks arrive complete and in order; CLOSE does
not overtake DATA; success is reported only for a connected destination; nothing
is left in a registry; nobody waits for ever on somebody who waits for him; a
token opens one session; a dead session is withdrawn and replaced; a stop signal
stops. What an application sends reaches the destination it named, unbroken, and it is
answered once and first; its socket is released; streams that are open together
have different ids; configured rules are in force, and mean what the README of the
program says.

## 2. Modules

| Module | Models |
|---|---|
| `Tunnel` | abstract specification: what a tunnel promises the two peers of a stream |
| `MuxSession` | one established session, both ends, the handlers, the TCP peers and the link; implements `Tunnel` |
| `MCMuxSession` | bounds and symmetry for TLC |
| `MuxSessionProofs` | theorems about `MuxSession`: types, registries, the order of frames |
| `MuxTunnelProofs` | theorems about `MuxSession`: order and completeness of the data, the refinement of `Tunnel` |
| `MuxWaitProofs` | theorems about `MuxSession`: who may wait for whom |
| `SessionKeeper` | sessions one after the other: keeper, token store, accept loop, shutdown, crashes (checked directly, its constants are numbers and sets) |
| `SessionKeeperProofs` | theorems about `SessionKeeper` |
| `LocalConnection` | one local connection: front ends, route, direct path or tunnel, relay tasks |
| `MCLocalConnection` | the applications TLC tries |
| `LocalConnectionProofs` | theorems about `LocalConnection` |
| `Routing` | pure operators: texts, patterns, rule files, `should_bypass`, the filter, and a reference meaning of the rules |
| `RoutingProofs` | theorems about `Routing`: text operations against the reference |
| `FrameCodec` | pure operators: `encode`, `decode` |
| `Listeners` | the accept loops and the id counter |
| `ClientProcess` | composes `Routing` and `Listeners` with start-up |
| `MCClientProcess` | command lines, config files and rule files for TLC |
| `ClientProcessProofs` | theorems about `FrameCodec`, `Listeners` and `ClientProcess` |
| `Extremes` | lemmas about `Min` and `Max`, and counting up to a bound, for the proof modules |

### Tunnel

State: which destinations are `connected`, the `answer` each application got, how
many chunks each end took (`sent`) and which it handed out (`got`). The server connects
before success is reported, an application that waits for an answer does not talk
before it, a refused stream stays silent, and each direction is a queue without loss in the
middle and without repetition. `MuxSession` implements it (`KeepsPromise`, the instance `Promise`) under the mapping: `connected` is the set of
streams for which the server's side got a socket, `answer` is `reply`, `sent` and `got` are themselves. A failure may be reported although the server did
connect: OPEN_ACK can be late or lost. `LocalConnection` uses the tunnel through
this promise and does not repeat its machinery.

### MuxSession

Both ends run the same machinery, so the state is indexed by the end: `frames[e]`
(frame channel), `sink[e]` and `reader[e]` (the loops), `held[e]` (the frame a
reader is awaiting on), `registry[e]`, `rx[e][s]` (data channel), `chan[e][s]`
(who owns its receiver), `pc[e][s]` (handler or stream task), `wire[e]`. The client also
has `pending`, `ack`, `reply` and `mux`. `peer`, `sent` and `got` are the TCP peers
and what passed through; `sent` counts chunks put into DATA frames and `got`
lists chunks written.

Every await splits a handler into actions, and what happens between two awaits
under one lock is one action. `Snapshot`, `Register`, `InsertAck`, `SendOpen`,
`AckArrives`, `AckTimeout`, `ReplyConnect`, `ForwardRequest` are the handlers (the three variants
differ by `Connect`, `Socks`, `Resilient`); `PumpData`, `PumpEof`, `PumpFails`,
`PumpClose`, `WriteChunk`, `WriteEnds` the relay tasks; `Transmit`, `SinkStops`,
`SinkDrops` the writer loop with its `close_all`; `ReceiveAck`, `ReceiveData`/`Route`,
`ReceiveClose`, `ReceiveOpen`/`ConnectOk`/`ConnectRefused`/`SendAck`, `ReaderStops`,
`DropAcks` the readers; `KeeperTakes`, `KeeperCloses` the keeper. `SendFails` is what
a channel does once its receiver was dropped. The conditions under which a sender, a relay
or a loop can go on have names of their own (`CanSend`, `CanWrite`, `CanTransmit`, `CanReceive`),
which `NoCircularWait` uses: the property talks of the guards of the actions.

Abstractions: a chunk is its number in its stream; a destination connects or does
not (the filter's verdict and a refused connection look the same to both ends);
every read, of a header too, is finished before `Snapshot`; `WireCap` frames fit
into the WebSocket and kernel buffers. A link is up, silently dead (`stalled`) or
`down`. Peers always take what is written to them unless they reset. The session
ends by a fault of the link: the client's own stop signal, which also takes and
closes the connection, is in `SessionKeeper` and not here. `PumpClose` sends CLOSE and
unregisters the stream in one step, where the code has an await between the two: a chunk the
reader routes to the stream in between is, in the model, one it routed just before CLOSE was sent.

### SessionKeeper

`keeper` is where `run_mux_keeper` is: `ask` (connect to /control), `answer`, `retry`
(sleep), `dial` (connect to /mux), `redial` (sleep), `hello`, `serve`, `stopped`.
Connections to /mux are numbered; `hello[c]`, `link[c]`, `srv[c]` are the token sent on
it, the connection and the server's task for it. `shutdown` is the server's shutdown channel: a
message wakes one receiver, dropping the sender wakes all. A session whose task was
dropped by shutdown with streams open is `cut`: its writer task, and so its WebSocket,
live on until `LastStreamEnds`. `Crash` empties the token store and breaks every
connection; `Restart` starts a server with a new store and possibly other users.

Abstractions: version check, user list and malformed Hello are the Boolean `allowed`;
UUIDs are numbers that do not repeat; delays are small numbers; a connection breaks
but does not fall silent (the handshake has no timeout, see hazards); a new server
starts after the old one let its connections go.

### LocalConnection

`listener` says which of the two accepted the connection, and so which parser runs.
An application sends *items*: a line of a header, a message of the SOCKS5
handshake, or a piece of data. A script is the sequence it would send and, per item, what it
waits for first. `wrote`, `taken` and `used` count the items in the socket, read out of it
and parsed; `used+1..taken` are in the `BufReader`, whose `Fill` takes any number that
has arrived, up to its capacity, so every split of the bytes over reads happens. `ReadLine`, `HeaderEnds`, `ReadBody`,
`BodyFails` are `parse_request_header` with its two limits, its tolerance of an early
end and `read_exact`, which goes past the buffer when what is missing is no smaller.
`Greet`, `AskConnect`, `SocksFails` are `parse_socks5_request`, `Decide`, `Connected`,
`NotConnected`, `Answer`, `ForwardRequest` the four handlers (HTTP and SOCKS5, direct and tunnel),
`ReadUp`, `WriteUp`, `UpEnds`, `UpCloses` and `ReadDown`, `WriteDown`, `DownEnds` the two relay tasks: `relay_tcp`, whose own loop is the
one towards the application, or pump and `write_task`, whose own loop is the other
one. The task that is not the handler's own is detached when it returns. `chunk` is what the upward
task has read and not yet written; `fed` and `heard` are what the destination and the application got.

Sends and writes can wait for ever. `Stall` puts the application, or the far side, into
`stalled`: from then on the application does not read, the destination of a direct connection
does not read, or the session passes nothing on, its frame channel full as in
`MuxStallHang` and `MuxImpatient`. `OpenWaits` and `SendWaits` are then true of `send(OPEN)` with the wait
for its answer, of the plain request, of a chunk and of CLOSE, and the steps they guard are not
taken until the destination resets or the session is lost, if ever. A stall may begin at any step, so a
channel or a socket buffer that still has room is one that stalls later; a stall that passes is a
delay.

Abstractions: sizes are counted in items; `Decide` takes either route (which one is
`Routing`'s subject); a lost session is one event, after which the pump of the
tunnel may still put chunks into the frame channel. The wait for OPEN_ACK of a stalled
session counts as one without an end, which it is in the client without reconnection; the
other one's timeout is a failure that comes before the stall. An answer of a few bytes to the application
does not wait.

### Routing, FrameCodec, Listeners, ClientProcess

In `Routing` a text is a sequence of characters, with port numbers, syllables and
IPv4 literals as single characters, so that what the code does with colons, dots, brackets, asterisks
and case is done on the text. The second half gives the documented meaning without
text: a name is a sequence of labels and a rule covers a name or its proper
subdomains. `FrameCodec` has the type byte, the four bytes of the id in base `Base`
(256 in the code) and the errors of `decode`. `Listeners` has both accept loops; `n` is the
number of a connection and is not known to the code.

`ClientProcess` goes through the phases config, geosite, geoip, bind, run and exit, one action for each part of
`main` and `build_routing`. `Setups` is what the process may be started with; the rules are final in phase bind, where the properties look at them. A rule
file is absent, garbage or a map from tags to entries. Options that only become an
address to listen on are left out.

## 3. Runs

Every channel has capacity 1 in the `Mux` runs, which makes each of them full as
early as possible; two chunks per direction then fill a data channel and block the
reader behind it. Larger capacities only delay the same situations.

| Run | Instance | Checks |
|---|---|---|
| `MuxStreams` | a tunnel and a plain request, upstreams send 2 chunks, all peers may close | `InOrder`, `CloseFlushes`, `FrameOrder`, `KeepsPromise` |
| `MuxFaults` | two SOCKS5 streams without data, link stalls and dies, applications close | `TypeOK`, `RegistryClean` |
| `MuxEnds` | one plain request, 1 chunk up and 2 down, application resets, upstream closes, link dies; fair | `KeepsPromise`, `OpenPhaseEnds`, `Released`, `Drains` |
| `MuxWaits` | two tunnels and a plain request, 2 chunks each way | `NoCircularWait` |
| `Keeper` | 3 faults, delays 1 to 3, both ways to stop the server; fair | `TypeOK`, `TokenOnce`, `FreshBackoff`, `PublishedIsWatched`, `ReconnectsOwed`, `Recovers`, `ClientStops` |
| `Local` | 6 HTTP and 6 SOCKS5 applications, each with every split over reads, every route, both sides and the session going away or taking nothing more at any point; fair | `TypeOK`, `Faithful`, `AnswerFirst`, `WholeRequest`, `NeverStarved`, `Settles`, `Freed` |
| `Client` | 158 ways to start; then 18 connections, 2 at a time | `TypeOK`, `IdsDistinct`, `ConfiguredInForce`, `RoutesAsDocumented`, `LiteralsRead`, `FramesSurvive` |

`Local` has a buffer of 2 items, so bodies are smaller than, equal to and larger than it,
a limit of 6 lines and a body of 4 items, both exceeded by one application, and repeated
Host and Content-Length lines. Its applications do not send behind a header what the header
does not announce; `LocalReadAhead` has the one that does. `Client` has bytes of 2 values, so the counter has 16 ids and wraps
before the 18 connections are over: a connection that stays is still there when the
counter comes back, and when it passes 0. `RoutesAsDocumented` tries 44 names and literals with 2
ports on every rule set that is reached.

`MuxWaits` needs three streams: one whose channel is full, one whose handler waits
for the frame channel, one that keeps the other direction full. Symmetry is used
only with invariants. In `Keeper` a fault can cost the connection in use and the
token of the next, so the bound of `2 * MaxFaults + 1` connections never holds the keeper
back: `ReconnectsOwed` says so, and is proved for every number of faults. The accept loop may take a connection after it was told to stop;
those count as faults, so that they are finitely many. Deadlock is not checked:
peers may fall silent and sessions end, after which nothing has to happen.
`NoCircularWait` is the deadlock property that matters: while the link is up and a
frame or a chunk is anywhere between the peers, a loop, a relay or a handler can take a
step that moves it or makes room for it (`CanMove`). Timers, the peers and new requests do
not count as such a step. `NeverStarved` is the one for a local connection: the parser does
not wait for an application that waits for its answer.

Every property of a passing run has a mutant in the module (`...TrySend`,
`...Eager`, `...Registered`, ...), a plausible bug that TLC catches with that property.

Fairness. Weak fairness of each task: the executor polls a task that was woken, and
armed timers fire. Peers, link, client stop, server stop and restart have none.
`KeeperStops` has strong fairness because `select!` polls its branches in random
order, so a stop message that stays in its channel is not passed over for ever.
In `LocalConnection` the handler and each relay task are weakly fair, and `TcpStream::connect`
returns. Nothing is assumed of the application, the destination or the session: a send or a write
that one of them does not take is not enabled, and the task waits in it. `Settles` and `Freed`
therefore allow `[]Held`, that from some point on somebody waits for such a side. Each of the four waits
of `Held` happens: without any one of them TLC finds a counterexample.
Weak fairness is enough for senders that share a channel because the number of
chunks is bounded.

### Disagreements with comments and tests

| Run | Shows |
|---|---|
| `MuxImpatient` (`NoCircularWait`) | An upstream of a *plain* request that talks before it is asked fills the stream's data channel while the handler waits for the full frame channel; `write_task` does not exist yet, both readers and both writers wait for each other and the session stops. `stability.rs` says back-pressure propagates correctly. |
| `MuxStallHang` (`OpenPhaseEnds`) | On a silently dead link the frame channel fills and `send(OPEN)` never returns; the deadline covers only the wait after it. The comment says the browser never hangs. |
| `KeeperCut` (`RecoversAfterRestart`) | A server stopped in order with a stream open keeps the WebSocket open, and the client does not reconnect to the restarted one. |
| `LocalReadAhead` (`Faithful`) | `parse_request_header` reads through a `BufReader` of its own. What it took beyond the header and the announced body (the first bytes of a tunnel sent with CONNECT, a body without Content-Length) is dropped with it. The program's README says the client forwards the traffic. |
| `LocalKeepAlive` (`OwnDestination`) | Only the first request of a connection is parsed; a second one with another Host goes to the first one's destination. The program's README says OPEN is sent for each request. |

Three more comments say more than the code does, without a run of their own:
`MuxConn::close` (`client/src/lib.rs:879`) unblocks requests that wait for OPEN_ACK, not
those that relay; CLOSE (`frame.rs:16`) removes the registry entry and leaves the pump
until its peer closes; one `()` in the server's shutdown channel
(`integration-tests/src/lib.rs:4`) can be consumed by a connection in place of the accept
loop. They are under hazards.

## 4. Proofs

For any set of streams, any capacities, both clients, any faults
(`MuxSessionProofs`, from `KindAssumption`, `CapAssumption`, `ModeAssumption`):

* `TypeCorrect`: `Spec => []TypeOK`; no bounded channel exceeds its bound.
* `RegistryAlwaysClean`: `Spec => []RegistryClean`.
* `FramesOrdered`: `Spec => []FrameOrder`.

The last two share the inductive invariant `IndInv`. `OrderInv` says `FrameOrder` of
the three places a frame can be, and that chunks are numbered upwards along them. That
a CLOSE is last and an OPEN first needs
`ClientInv` and `ServerInv`: they tie the frames in transit to the steps of the tasks that
sent them (no frame of a handler that has not sent OPEN; CLOSE only from a task
that is done; while OPEN travels the server knows nothing of the stream). `SentInv` says
that a chunk on its way was taken from the peer. `RegistryInv` says which steps an
id in a registry can be at; the server's reader may hold an id it registered
while it waits to send OPEN_ACK. `DownInv` says that loops end and the keeper takes the
session only after the link went down. `LateInv` is about a handler that
registers after the keeper closed the session: its OPEN is at most in the frame
channel, so no OPEN_ACK comes and it never relays.

From the same assumptions, in `MuxTunnelProofs`:

* `AlwaysInOrder`: `Spec => []InOrder`.
* `CloseAlwaysFlushes`: `Spec => []CloseFlushes`.
* `SessionKeepsPromise`: `Spec => KeepsPromise`, the refinement of `Tunnel`.

The invariant is `TunnelInv`, which is `IndInv`, `OpenInv` and `FlowInv`. `OpenInv` is
what the ends know of each other: everything that tells the client of success, or that
depends on it (an OPEN_ACK, an ack, a relay, a chunk), exists only after the server has
connected, and an OPEN is on its way only before that. `FlowInv` says of one direction
of one stream: what was written and what is in the data channel are the chunks 1 to
`n`; a chunk the reader holds is number `n + 1`; while the stream is registered, the
chunks that can still arrive continue from there without a gap, up to the last one sent
if the writer loop at the other end still runs (`ChunkAt`). A loop that ended has lost what
its frame channel held, so the gap is at the end and never in the middle. `FlushAt`
says that an id leaves the registry under a running task only through the CLOSE of the
other end, at which point `n` is all that was sent. The refinement then goes action
by action: each is a step of `Tunnel` or leaves its four variables alone.

From the same assumptions, in `MuxWaitProofs`:

* `OneCircularWait`: while the link is up and anything is on its way, `CanMove` holds, or
  there is an `Impatient` upstream whose stream is `RequestBehindData`: the handler waits for
  the full frame channel to send the plain request, and the client's reader waits with a chunk
  for that stream, whose `write_task` does not exist yet.
* `NeverCircularWait`: `Impatient = {} => (Spec => []NoCircularWait)`.

The hypothesis is what run `MuxWaits` has and `MuxImpatient` drops; the wait that
`MuxImpatient` shows is the only one there is. The argument: suppose nobody can move. A data channel
that is not empty then has no `write_task`, and its handler is a client's that waits to send
a plain request (`StuckData`); so a client's reader that holds a chunk is the
exception (`StuckClient`). Otherwise the client's reader is free, so the wire and the frame channel
towards it are empty (`NothingBehind`), the server's reader can send any OPEN_ACK it holds and
is free too (`FreeServer`), so the other direction is empty, and the handler could send. The invariant
`WaitInv` adds to `TunnelInv`: `DirInv`, readers understand every frame they get;
`StageAt`, while the server's tasks for a stream have not started the client has not got past
waiting for them; `RefusedInv`, from such a server only a refusal can come; `AwaitedAt`, a
handler that waits for OPEN_ACK has got no chunk, and once the server's tasks have started the
OPEN_ACK is on its way; `IdleInv`, a dropped data channel is empty and a patient upstream has
sent nothing before it got something.

For any delays and any number of faults (`SessionKeeperProofs`, from
`DelayAssumption`, `FaultAssumption`):

* `KeeperTypeCorrect`: `Spec => []TypeOK`; the backoff stays within its limits.
* `TokenUsedOnce`: `Spec => []TokenOnce`.
* `PublishedAlwaysWatched`: `Spec => []PublishedIsWatched`.
* `BackoffAlwaysFresh`: `Spec => []FreshBackoff`.
* `ReconnectsAlwaysOwed`: `Spec => []ReconnectsOwed`.

`KeeperInv` adds where a token can be: in the reply of /control (`ReplyAwaited`), in
the keeper's hand, or in one HELLO (`TokenFresh`), and that a connection about to be
greeted has no HELLO yet (`HelloWhere`). `FreshBackoff` is part of it. `ReconnectsOwed` is not
inductive: a stop or a crash may cost its connections long after it happened. `OwedInv` adds
to the connections made those that are already owed (`Owed`): one when the keeper has none
that will serve it (`Lost`), one for a token on its way that the server does not know
(`Stale`), one that a shutdown still in its channel will cut (`Cut`), one for a token a
server that is stopping or gone takes with it (`Void`). Every fault adds at most two, and no other step
adds any.

For every set of scripts, every buffer size and all limits (`LocalConnectionProofs`,
from `LimitAssumption` and `ScriptAssumption`):

* `LocalTypeCorrect`: `Spec => []TypeOK`.
* `RequestAlwaysWhole`: `Spec => []WholeRequest`.
* `NeverStarves`: `Spec => []NeverStarved`.
* `AlwaysAnswerFirst`: `Spec => []AnswerFirst`.
* `AlwaysFaithful`: `Spec /\ Waits => []Faithful`.

The invariant of the first four is `LocalInv`. `StageInv` says what a handler at a given step
has started, `HeardInv` what it has told the application by then, and `RequestInv` that what was
parsed is what the script says up to there: during the header `req` holds the last
Host and Content-Length among the lines read (`StatedIn`), and behind it the lines
read and the body to come add up to the request, unless the application closed before the
end of its header; then `req` holds the last Host line it sent (`Broken`). `AlwaysFaithful` adds `CarryInv`: before the relay starts
the application has written nothing beyond its request, so the `BufReader` cannot hold anything
that would be lost with it; from then on the destination has everything that was
taken from the socket but `chunk`. This needs the hypothesis `Waits`, a condition on the initial
script: the connection is a SOCKS5 one, or the header ends and what comes behind the
request waits for success or data. All applications of run `Local` satisfy it; the one
of `LocalReadAhead` does not, and for it `Faithful` is false.

For all texts, rules and names (`RoutingProofs`; no assumption on constants):

* `SocksReads`: client and server's filter take a SOCKS5 destination apart into the
  host and port it was made of, for every host without brackets.
* `PatternMatches`: `HostPattern`, parsed from the text of a rule and compared with the
  text of a name, matches exactly what `Covers` says of the labels.
* `GeositeMatches`: the same for the matcher of a rule file and `SiteCovers`.

A name is its labels joined by dots. The argument is that this text determines its
labels when no label has a dot (`NamesCompared`), and that it ends in a dot and another
name exactly when that name's labels are its last ones (`LastLabels`, `LabelsEnd`).
`FlattenSeq` of the community modules is recursive; its equations (`FlattenIs`) are derived by
showing that the recursive function exists up to every length, with `CountUp`, a least
counterexample argument from `WFMin` in place of an induction theorem.

For every byte size, payload, set of start-ups and number of connections
(`ClientProcessProofs`, from `BaseAssumption`, `TextAssumption`, `AcceptAssumption`,
`SetupsAssumption`, `NamesAssumption`):

* `RoundTrip`: `Decode(Encode(f)) = f` for every frame. The id is four steps of
  division with remainder one way and of Horner's rule the other.
* `ClientRunsListeners`: `Spec => ListenersSpec`. Start-up and routing do not disturb
  the accept loops, so what is proved of them holds in the process.
* `IdsAlwaysDistinct`: `Spec => []IdsDistinct`. Inductive invariant `Numbered`: the id of a
  connection is its number modulo the number of ids, and the counter is one ahead.
  Two numbers with the same remainder are a whole turn apart.
* `FramesAlwaysSurvive`: `Spec => []FramesSurvive`, from `RoundTrip` and the type of the ids.
* `ConfiguredAlwaysInForce`: `Spec => []ConfiguredInForce`. Inductive invariant `InForce`:
  the result of each loader is in the rules from the phase after it on.
* `ClientTypeCorrect`: `Spec => []TypeOK`.
* `LiteralsAlwaysRead`: `Spec => []LiteralsRead`, from `SocksReads` and `HttpLiteral`: the
  server's filter reads the address in every literal, the client's rules in all but an IPv6
  literal over HTTP, which they see in its brackets.
* `AlwaysRoutesAsDocumented`: `Spec => []RoutesAsDocumented`. Inductive invariant `RulesInv`:
  each part of the rules is, from the step that builds it on, the parsed form of what the
  configuration and the files on disk say. The theorems of `RoutingProofs` turn that into
  the documented meaning.
* `EveryNameAlwaysRouted`: the same for all names, of any length and with any labels,
  where the run and the property try 44.

`NamesAssumption` says that rules are written with names: labels without dots, and in
patterns without colons and asterisks, which the code reads as a port and as a
wildcard.

Only model-checked: the liveness properties (`OpenPhaseEnds`, `Drains`, `Released`,
`Recovers`, `ClientStops`, `Settles`, `Freed`), since the prover does not do fairness. Every
other property of a passing run is a theorem. What is proved of their safety side:
`NeverCircularWait` for `Drains`, `ReconnectsAlwaysOwed` for `Recovers`, `NeverStarves` for
`Settles`.

## 5. Not modelled

* The client's own stop signal inside `MuxSession`: it takes and closes the
  connection over a live link. `SessionKeeper` has the signal, not its effect on streams.
* In `MuxSession`, an application or upstream that never reads: by design of the blocking
  `route` it stops its whole session. `LocalConnection` has one, and sees such a session as stalled.
* Silence in the handshake with the server, which has no timeout.
* Protobuf decoding of the rule files, which is a library's work; a CIDR covers a class of addresses.
* Regular expressions. The code puts the text of a Regex entry in lower case and compiles it;
  an expression with operators may change its meaning by that (`\D` becomes `\d`). Here the entries
  have none: such an expression compiles or not, and matches as a substring.
* Texts the properties leave out: names with a trailing dot, the pattern `::1` (read as host
  `:` and port 1), and the text of an IPv6 address sent as a SOCKS5 domain (it gets no brackets). How
  an IPv6 literal in a Host line is routed is left out of `RoutesAsDocumented`: it keeps its
  brackets, so no address rule applies, which `LiteralsRead` states.
* The peek at a request and the 200/404 answers of the server's accept loop, its
  start-up (straight-line code without state), logging, and `encode_host`/`decode_host`,
  which are deprecated and which nothing calls.

## 6. Plan

All modules of the plan are written, and every invariant and action property of a passing
run is proved. What could be added:

1. The client's stop signal in `MuxSession`, which closes the connection over a live link.
2. A peer that never reads in `MuxSession`, with a statement of which streams it stops.
3. Silence in the handshake of `SessionKeeper`, once the code has a timeout there.
