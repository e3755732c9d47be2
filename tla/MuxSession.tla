------------------------------ MODULE MuxSession ------------------------------
(***************************************************************************)
(* One established mux session of echo-proxy: the client's request         *)
(* handlers, the tasks of both ends that move frames over the one          *)
(* WebSocket, the server's stream tasks, and the TCP peers (the local      *)
(* applications and the upstream servers) at either side.                  *)
(*                                                                         *)
(* Both ends run the same machinery (a frame channel drained by a writer   *)
(* loop, a reader loop, a StreamRegistry, and per stream a pump and a      *)
(* write_task), so its state is indexed by the end.  Only the opening of a *)
(* stream is asymmetric: the client sends OPEN, the server connects and    *)
(* answers OPEN_ACK.                                                       *)
(***************************************************************************)
EXTENDS Integers, Sequences, FiniteSets

CONSTANTS
  Stream,     \* stream ids; one per accepted local connection (next_id)
  Connect,    \* streams opened by CONNECT or SOCKS5; the others are plain HTTP
  Socks,      \* the SOCKS5 ones among them
  Impatient,  \* plain streams whose upstream talks before it is talked to
  FrameCap,   \* frame_channel(128)
  DataCap,    \* the per-stream channel of StreamRegistry::register, 32
  WireCap,    \* frames the WebSocket and the kernel buffers take in one direction
  MaxChunk,   \* bound: MaxChunk[e] chunks (reads of at most 8 KiB) a peer at end e sends
  Leaves,     \* bound: how the peers at end e may leave, a subset of {"eof", "reset"}
  Resilient,  \* run_proxy_resilient (TRUE) or run_proxy_with_routing (FALSE)
  Faults      \* how the link may fail: a subset of {"stalled", "down"}

ASSUME KindAssumption ==
  /\ Connect \subseteq Stream
  /\ Socks \subseteq Connect
  /\ Impatient \subseteq Stream \ Connect
ASSUME CapAssumption ==
  /\ FrameCap \in Nat \ {0}
  /\ DataCap \in Nat \ {0}
  /\ WireCap \in Nat \ {0}
  /\ MaxChunk \in [{"client", "server"} -> Nat]
ASSUME ModeAssumption ==
  /\ Resilient \in BOOLEAN
  /\ ~Resilient => Socks = {}       \* only the resilient client serves SOCKS5
  /\ Faults \subseteq {"stalled", "down"}
  /\ Leaves \in [{"client", "server"} -> SUBSET {"eof", "reset"}]

VARIABLES
  pc,        \* pc[e][s]: the handler of s at the client, its stream task at the server
  chan,      \* chan[e][s]: the DataRx of s: none, waiting, writing (owned by write_task), closed
  registry,  \* registry[e]: ids in the StreamRegistry of end e
  rx,        \* rx[e][s]: chunks in the data channel of s
  frames,    \* frames[e]: the frame channel of end e
  sink,      \* sink[e]: the mux writer loop, on, closing (left the loop) or off (frame_rx dropped)
  reader,    \* reader[e]: the mux reader loop, on, closing or off
  held,      \* held[e]: the frame the reader is awaiting on (at most one)
  wire,      \* wire[e]: frames sent by e and not yet read by the other end
  link,      \* the WebSocket: up, stalled (silently dead) or down (both ends can notice)
  pending,   \* ids in pending_acks
  ack,       \* ack[s]: content of the one-shot channel of s
  reply,     \* reply[s]: what the application was told: none, ok or err
  mux,       \* SharedMux: up (published), taken by the keeper, or closed
  peer,      \* peer[e][s]: the TCP peer: open, eof (will send no more) or reset
  sent,      \* sent[e][s]: chunks of the peer at e that were put into DATA frames
  got        \* got[e][s]: chunks written to the peer at e

streams == <<pc, chan, registry, rx>>
session == <<frames, sink, reader, held, wire, link>>
opening == <<pending, ack, reply, mux>>
traffic == <<peer, sent, got>>
vars    == <<streams, session, opening, traffic>>

End == {"client", "server"}
Other(e) == IF e = "client" THEN "server" ELSE "client"

\* core-lib's Frame without HELLO, which precedes the session modelled here.
\* arg is the number of the chunk in a DATA frame, 0 (ok) or 1 (failed) in an
\* OPEN_ACK as on the wire, and 0 elsewhere.
Frame == [type : {"OPEN", "OPEN_ACK", "DATA", "CLOSE"}, id : Stream, arg : Nat]
Open(s)       == [type |-> "OPEN", id |-> s, arg |-> 0]
OpenAck(s, n) == [type |-> "OPEN_ACK", id |-> s, arg |-> n]
Data(s, n)    == [type |-> "DATA", id |-> s, arg |-> n]
Close(s)      == [type |-> "CLOSE", id |-> s, arg |-> 0]

Holds(e, type) == held[e] # <<>> /\ Head(held[e]).type = type
HeldId(e)      == Head(held[e]).id

Init ==
  /\ pc = [e \in End |-> [s \in Stream |-> "start"]]
  /\ chan = [e \in End |-> [s \in Stream |-> "none"]]
  /\ registry = [e \in End |-> {}]
  /\ rx = [e \in End |-> [s \in Stream |-> <<>>]]
  /\ frames = [e \in End |-> <<>>]
  /\ sink = [e \in End |-> "on"]
  /\ reader = [e \in End |-> "on"]
  /\ held = [e \in End |-> <<>>]
  /\ wire = [e \in End |-> <<>>]
  /\ link = "up"
  /\ pending = {}
  /\ ack = [s \in Stream |-> "none"]
  /\ reply = [s \in Stream |-> "none"]
  /\ mux = "up"
  /\ peer = [e \in End |-> [s \in Stream |-> "open"]]
  /\ sent = [e \in End |-> [s \in Stream |-> 0]]
  /\ got = [e \in End |-> [s \in Stream |-> <<>>]]

-----------------------------------------------------------------------------
(* Channels and the registry.                                              *)

\* Mutant of Send: channel::unbounded() in place of channel::bounded(capacity).
SendUnbounded(e, f) ==
  /\ sink[e] # "off"
  /\ frames' = [frames EXCEPT ![e] = Append(@, f)]

\* FrameTx::send: waits while the bounded channel is full, fails once frame_rx is gone.
CanSend(e) == sink[e] # "off" /\ Len(frames[e]) < FrameCap
Send(e, f) ==
  /\ CanSend(e)
  /\ frames' = [frames EXCEPT ![e] = Append(@, f)]
SendFails(e) == sink[e] = "off"

\* `let _ = frame_tx.send(f).await`: an error is ignored.
SendOrIgnore(e, f) ==
  \/ Send(e, f)
  \/ SendFails(e) /\ UNCHANGED frames

\* StreamRegistry::register and ::close (removing an absent id does nothing).
Registered(e, s)   == [registry EXCEPT ![e] = @ \cup {s}]
Unregistered(e, s) == [registry EXCEPT ![e] = @ \ {s}]

-----------------------------------------------------------------------------
(* The request handler of stream s at the client.                          *)

\* Mutant of GiveUp: registry.close is forgotten.
GiveUpRegistered(s, r) ==
  /\ pc' = [pc EXCEPT !["client"][s] = "done"]
  /\ chan' = [chan EXCEPT !["client"][s] = "closed"]
  /\ rx' = [rx EXCEPT !["client"][s] = <<>>]
  /\ reply' = [reply EXCEPT ![s] = r]
  /\ UNCHANGED registry

\* The handler returns before the relay: the registry entry and the data
\* channel go, the application is told r.  No CLOSE frame is sent.
GiveUp(s, r) ==
  /\ pc' = [pc EXCEPT !["client"][s] = "done"]
  /\ chan' = [chan EXCEPT !["client"][s] = "closed"]
  /\ rx' = [rx EXCEPT !["client"][s] = <<>>]
  /\ registry' = Unregistered("client", s)
  /\ reply' = [reply EXCEPT ![s] = r]

Goto(s, at) == pc' = [pc EXCEPT !["client"][s] = at]

\* The SharedMux is read once, under its lock, which the keeper holds from take
\* to close; the clone is used from then on, whatever the keeper does.  Without
\* a connection the application gets 502 (or a SOCKS5 failure).
Snapshot(s) ==
  /\ pc["client"][s] = "start"
  /\ \/ mux = "up" /\ Goto(s, "register") /\ UNCHANGED reply
     \/ mux = "closed" /\ Goto(s, "done") /\ reply' = [reply EXCEPT ![s] = "err"]
  /\ UNCHANGED <<chan, registry, rx, session, pending, ack, mux, traffic>>

Register(s) ==
  /\ pc["client"][s] = "register"
  /\ registry' = Registered("client", s)
  /\ chan' = [chan EXCEPT !["client"][s] = "waiting"]
  /\ Goto(s, "insert")
  /\ UNCHANGED <<rx, session, opening, traffic>>

InsertAck(s) ==
  /\ pc["client"][s] = "insert"
  /\ pending' = pending \cup {s}
  /\ Goto(s, "open")
  /\ UNCHANGED <<chan, registry, rx, session, ack, reply, mux, traffic>>

\* The await on the frame channel is not covered by the OPEN_ACK timeout.
SendOpen(s) ==
  /\ pc["client"][s] = "open"
  /\ \/ /\ Send("client", Open(s))
        /\ Goto(s, "wait")
        /\ UNCHANGED <<chan, registry, rx, reply>>
     \/ /\ SendFails("client")
        /\ GiveUp(s, IF s \in Socks THEN "err" ELSE "none")
        /\ UNCHANGED frames
  /\ UNCHANGED <<sink, reader, held, wire, link, pending, ack, mux, traffic>>

\* Mutant of AckArrives: the value in the OPEN_ACK is not looked at.
AckArrivesUnread(s) ==
  /\ pc["client"][s] = "wait"
  /\ \/ /\ ack[s] # "none"
        /\ Goto(s, "reply")
        /\ UNCHANGED <<chan, registry, rx, reply>>
     \/ /\ ack[s] = "none" /\ s \notin pending
        /\ GiveUp(s, "err")
  /\ UNCHANGED <<session, pending, ack, mux, traffic>>

\* ack_rx yields a value, or its sender was dropped (cleared from pending_acks).
AckArrives(s) ==
  /\ pc["client"][s] = "wait"
  /\ \/ /\ ack[s] = "ok"
        /\ Goto(s, "reply")
        /\ UNCHANGED <<chan, registry, rx, reply>>
     \/ /\ ack[s] = "failed" \/ (ack[s] = "none" /\ s \notin pending)
        /\ GiveUp(s, "err")
  /\ UNCHANGED <<session, pending, ack, mux, traffic>>

\* Mutant of AckTimeout: ack_rx.recv() is awaited without a timeout.
AckTimeoutNever(s) == FALSE /\ UNCHANGED vars

\* OPEN_ACK_TIMEOUT_SECS pass first.  The pending_acks entry stays behind.
AckTimeout(s) ==
  /\ Resilient
  /\ pc["client"][s] = "wait"
  /\ ack[s] = "none" /\ s \in pending
  /\ GiveUp(s, "err")
  /\ UNCHANGED <<session, pending, ack, mux, traffic>>

\* The tasks that relay s at end e start.
StartRelay(e, s) ==
  /\ pc' = [pc EXCEPT ![e][s] = "relay"]
  /\ chan' = [chan EXCEPT ![e][s] = "writing"]

\* CONNECT and SOCKS5: the success reply is written to the application.
ReplyConnect(s) ==
  /\ pc["client"][s] = "reply" /\ s \in Connect
  /\ \/ /\ peer["client"][s] # "reset"
        /\ reply' = [reply EXCEPT ![s] = "ok"]
        /\ StartRelay("client", s)
        /\ UNCHANGED <<registry, rx>>
     \/ /\ peer["client"][s] = "reset"
        /\ GiveUp(s, "none")
  /\ UNCHANGED <<session, pending, ack, mux, traffic>>

\* Plain HTTP: the request already read goes first, as one DATA frame, before
\* write_task exists.
ForwardRequest(s) ==
  /\ pc["client"][s] = "reply" /\ s \notin Connect
  /\ \/ /\ Send("client", Data(s, 1))
        /\ sent' = [sent EXCEPT !["client"][s] = 1]
        /\ StartRelay("client", s)
        /\ UNCHANGED <<registry, rx, reply>>
     \/ /\ SendFails("client")
        /\ GiveUp(s, "none")
        /\ UNCHANGED <<frames, sent>>
  /\ UNCHANGED <<sink, reader, held, wire, link, pending, ack, mux, peer, got>>

Handler(s) ==
  \/ Snapshot(s) \/ Register(s) \/ InsertAck(s) \/ SendOpen(s)
  \/ AckArrives(s) \/ AckTimeout(s) \/ ReplyConnect(s) \/ ForwardRequest(s)

-----------------------------------------------------------------------------
(* The two tasks that relay stream s at end e.                             *)

\* Mutant of PumpData: try_send, a chunk is lost when the frame channel is full.
PumpDataTrySend(e, s) ==
  /\ pc[e][s] = "relay"
  /\ peer[e][s] = "open" /\ sent[e][s] < MaxChunk[e]
  /\ e = "server" /\ s \notin Connect \cup Impatient => got[e][s] # <<>>
  /\ \/ Send(e, Data(s, sent[e][s] + 1))
     \/ Len(frames[e]) = FrameCap /\ UNCHANGED frames
  /\ sent' = [sent EXCEPT ![e][s] = @ + 1]
  /\ UNCHANGED <<streams, sink, reader, held, wire, link, opening, peer, got>>

\* tcp_reader.read returns a chunk and it is put into the frame channel.  The
\* upstream of a plain request answers it, unless it is one of the Impatient.
PumpData(e, s) ==
  /\ pc[e][s] = "relay"
  /\ peer[e][s] = "open" /\ sent[e][s] < MaxChunk[e]
  /\ e = "server" /\ s \notin Connect \cup Impatient => got[e][s] # <<>>
  /\ Send(e, Data(s, sent[e][s] + 1))
  /\ sent' = [sent EXCEPT ![e][s] = @ + 1]
  /\ UNCHANGED <<streams, sink, reader, held, wire, link, opening, peer, got>>

\* A chunk is read and cannot be sent, or the read returns 0 or an error.
PumpFails(e, s) ==
  /\ pc[e][s] = "relay"
  /\ peer[e][s] = "open" /\ SendFails(e)
  /\ pc' = [pc EXCEPT ![e][s] = "closing"]
  /\ UNCHANGED <<chan, registry, rx, session, opening, traffic>>
PumpEof(e, s) ==
  /\ pc[e][s] = "relay"
  /\ peer[e][s] # "open"
  /\ pc' = [pc EXCEPT ![e][s] = "closing"]
  /\ UNCHANGED <<chan, registry, rx, session, opening, traffic>>

\* Mutant of PumpClose: registry.close is forgotten.
PumpCloseRegistered(e, s) ==
  /\ pc[e][s] = "closing"
  /\ SendOrIgnore(e, Close(s))
  /\ pc' = [pc EXCEPT ![e][s] = "done"]
  /\ UNCHANGED <<chan, rx, registry, sink, reader, held, wire, link, opening, traffic>>

\* After the loop: CLOSE is sent (an error is ignored), the stream unregistered,
\* and write_task detached, not stopped.
PumpClose(e, s) ==
  /\ pc[e][s] = "closing"
  /\ SendOrIgnore(e, Close(s))
  /\ registry' = Unregistered(e, s)
  /\ pc' = [pc EXCEPT ![e][s] = "done"]
  /\ UNCHANGED <<chan, rx, sink, reader, held, wire, link, opening, traffic>>

\* write_task: data_rx.recv, then write_all to the peer; a failed write ends it.
CanWrite(e, s) == chan[e][s] = "writing" /\ rx[e][s] # <<>>
WriteChunk(e, s) ==
  /\ CanWrite(e, s)
  /\ \/ /\ peer[e][s] # "reset"
        /\ got' = [got EXCEPT ![e][s] = Append(@, Head(rx[e][s]))]
        /\ rx' = [rx EXCEPT ![e][s] = Tail(@)]
        /\ UNCHANGED chan
     \/ /\ peer[e][s] = "reset"
        /\ chan' = [chan EXCEPT ![e][s] = "closed"]
        /\ rx' = [rx EXCEPT ![e][s] = <<>>]
        /\ UNCHANGED got
  /\ UNCHANGED <<pc, registry, session, opening, peer, sent>>

\* data_rx.recv fails: the channel is empty and every sender is gone, the
\* registry's and the clone a blocked route holds.
WriteEnds(e, s) ==
  /\ chan[e][s] = "writing" /\ rx[e][s] = <<>>
  /\ s \notin registry[e]
  /\ ~(Holds(e, "DATA") /\ HeldId(e) = s)
  /\ chan' = [chan EXCEPT ![e][s] = "closed"]
  /\ UNCHANGED <<pc, registry, rx, session, opening, traffic>>

Relay(e, s) ==
  PumpEof(e, s) \/ PumpClose(e, s) \/ WriteChunk(e, s) \/ WriteEnds(e, s)

-----------------------------------------------------------------------------
(* The mux writer loop of end e.                                           *)

\* Mutant of Transmit: a send may be retried although the frame went out.
TransmitAgain(e) ==
  /\ sink[e] = "on" /\ frames[e] # <<>>
  /\ link # "down"
  /\ Len(wire[e]) < WireCap
  /\ frames' \in {frames, [frames EXCEPT ![e] = Tail(@)]}
  /\ wire' = [wire EXCEPT ![e] = Append(@, Head(frames[e]))]
  /\ UNCHANGED <<streams, sink, reader, held, link, opening, traffic>>

\* frame_rx.recv, then send on the WebSocket.
CanTransmit(e) ==
  sink[e] = "on" /\ frames[e] # <<>> /\ link # "down" /\ Len(wire[e]) < WireCap
Transmit(e) ==
  /\ CanTransmit(e)
  /\ frames' = [frames EXCEPT ![e] = Tail(@)]
  /\ wire' = [wire EXCEPT ![e] = Append(@, Head(frames[e]))]
  /\ UNCHANGED <<streams, sink, reader, held, link, opening, traffic>>

\* Somebody still holds a FrameTx of end e.
HasSender(e) ==
  IF e = "client"
  THEN mux # "closed" \/ \E s \in Stream : pc[e][s] \notin {"start", "done"}
  ELSE reader[e] = "on" \/ \E s \in Stream : pc[e][s] \in {"relay", "closing"}

\* ws_sink.send fails, or frame_rx.recv does because every FrameTx was dropped.
\* Both writers then close_all, except that of run_proxy_with_routing.
SinkStops(e) ==
  /\ sink[e] = "on"
  /\ \/ /\ link = "down" /\ frames[e] # <<>>
        /\ frames' = [frames EXCEPT ![e] = Tail(@)]
     \/ /\ frames[e] = <<>> /\ ~HasSender(e)
        /\ UNCHANGED frames
  /\ sink' = [sink EXCEPT ![e] = "closing"]
  /\ registry' = IF e = "server" \/ Resilient
                 THEN [registry EXCEPT ![e] = {}] ELSE registry
  /\ UNCHANGED <<pc, chan, rx, reader, held, wire, link, opening, traffic>>

\* The writer task ends and drops frame_rx with what is left in it.
SinkDrops(e) ==
  /\ sink[e] = "closing"
  /\ sink' = [sink EXCEPT ![e] = "off"]
  /\ frames' = [frames EXCEPT ![e] = <<>>]
  /\ UNCHANGED <<streams, reader, held, wire, link, opening, traffic>>

Sink(e) == Transmit(e) \/ SinkStops(e) \/ SinkDrops(e)

-----------------------------------------------------------------------------
(* The mux reader loop of end e.                                           *)

Arriving(e) == Head(wire[Other(e)])

\* A frame of this type is next and the reader is not awaiting anything else.
CanReceive(e, type) ==
  /\ reader[e] = "on" /\ held[e] = <<>>
  /\ link # "stalled"
  /\ wire[Other(e)] # <<>> /\ Arriving(e).type = type
Receive(e, type) ==
  /\ CanReceive(e, type)
  /\ wire' = [wire EXCEPT ![Other(e)] = Tail(@)]

Hold(e, f) == held' = [held EXCEPT ![e] = <<f>>]
Release(e) == held' = [held EXCEPT ![e] = <<>>]

\* pending_acks.remove and try_send; an ack nobody is registered for is ignored.
ReceiveAck ==
  /\ Receive("client", "OPEN_ACK")
  /\ LET f == Arriving("client") IN
       /\ pending' = pending \ {f.id}
       /\ ack' = IF f.id \in pending
                 THEN [ack EXCEPT ![f.id] = IF f.arg = 0 THEN "ok" ELSE "failed"]
                 ELSE ack
  /\ UNCHANGED <<streams, frames, sink, reader, held, link, reply, mux, traffic>>

\* Mutant of ReceiveData: try_send, a chunk is lost when the data channel is full.
ReceiveDataTrySend(e) ==
  /\ Receive(e, "DATA")
  /\ LET f == Arriving(e) IN
       IF f.id \in registry[e] /\ chan[e][f.id] # "closed" /\ Len(rx[e][f.id]) < DataCap
       THEN rx' = [rx EXCEPT ![e][f.id] = Append(@, f.arg)]
       ELSE UNCHANGED rx
  /\ UNCHANGED <<pc, chan, registry, frames, sink, reader, held, link, opening, traffic>>

\* StreamRegistry::route: a chunk of a stream that is not registered is dropped;
\* otherwise the sender of the stream is cloned, the lock released, and the
\* chunk sent at once or, when the channel is full, held until there is room.
ReceiveData(e) ==
  /\ Receive(e, "DATA")
  /\ LET f == Arriving(e) IN
       \/ /\ f.id \notin registry[e] \/ chan[e][f.id] = "closed"
          /\ UNCHANGED <<rx, held>>
       \/ /\ f.id \in registry[e] /\ chan[e][f.id] # "closed"
          /\ IF Len(rx[e][f.id]) < DataCap
             THEN rx' = [rx EXCEPT ![e][f.id] = Append(@, f.arg)] /\ UNCHANGED held
             ELSE Hold(e, f) /\ UNCHANGED rx
  /\ UNCHANGED <<pc, chan, registry, frames, sink, reader, link, opening, traffic>>

\* The held chunk: tx.send finds room, or fails because data_rx was dropped.  A
\* stream closed in the meantime still gets it, the clone keeps its channel open.
Route(e) ==
  /\ Holds(e, "DATA")
  /\ LET s == HeldId(e) IN
       \/ /\ chan[e][s] # "closed" /\ Len(rx[e][s]) < DataCap
          /\ rx' = [rx EXCEPT ![e][s] = Append(@, Head(held[e]).arg)]
       \/ /\ chan[e][s] = "closed"
          /\ UNCHANGED rx
  /\ Release(e)
  /\ UNCHANGED <<pc, chan, registry, frames, sink, reader, wire, link, opening, traffic>>

ReceiveClose(e) ==
  /\ Receive(e, "CLOSE")
  /\ registry' = Unregistered(e, Arriving(e).id)
  /\ UNCHANGED <<pc, chan, rx, frames, sink, reader, held, link, opening, traffic>>

\* handle_open runs inside the server's reader: it awaits the TCP connect ...
ReceiveOpen ==
  /\ Receive("server", "OPEN")
  /\ Hold("server", Arriving("server"))
  /\ UNCHANGED <<streams, frames, sink, reader, link, opening, traffic>>

\* Mutant of ConnectOk: the relay tasks are spawned before the answer is sent.
ConnectOkEager ==
  /\ Holds("server", "OPEN")
  /\ LET s == HeldId("server") IN
       /\ registry' = Registered("server", s)
       /\ StartRelay("server", s)
       /\ Hold("server", OpenAck(s, 0))
  /\ UNCHANGED <<rx, frames, sink, reader, wire, link, opening, traffic>>

\* ... which succeeds, and the stream is registered before the answer is sent ...
ConnectOk ==
  /\ Holds("server", "OPEN")
  /\ LET s == HeldId("server") IN
       /\ registry' = Registered("server", s)
       /\ chan' = [chan EXCEPT !["server"][s] = "waiting"]
       /\ Hold("server", OpenAck(s, 0))
  /\ UNCHANGED <<pc, rx, frames, sink, reader, wire, link, opening, traffic>>

\* ... or fails, or is refused by is_dest_allowed before it is tried.
ConnectRefused ==
  /\ Holds("server", "OPEN")
  /\ registry' = Unregistered("server", HeldId("server"))
  /\ Hold("server", OpenAck(HeldId("server"), 1))
  /\ UNCHANGED <<pc, chan, rx, frames, sink, reader, wire, link, opening, traffic>>

\* The answer is sent inside the reader too, and only then do the tasks start.
SendAck ==
  /\ Holds("server", "OPEN_ACK")
  /\ SendOrIgnore("server", Head(held["server"]))
  /\ Release("server")
  /\ IF Head(held["server"]).arg = 0
     THEN StartRelay("server", HeldId("server"))
     ELSE UNCHANGED <<pc, chan>>
  /\ UNCHANGED <<registry, rx, sink, reader, wire, link, opening, traffic>>

\* The source ends or yields an error: close_all, and at the client the
\* pending acks are dropped under a second lock.
ReaderStops(e) ==
  /\ reader[e] = "on" /\ held[e] = <<>>
  /\ link = "down"
  /\ registry' = [registry EXCEPT ![e] = {}]
  /\ reader' = [reader EXCEPT ![e] = IF e = "client" THEN "closing" ELSE "off"]
  /\ UNCHANGED <<pc, chan, rx, frames, sink, held, wire, link, opening, traffic>>
DropAcks ==
  /\ reader["client"] = "closing"
  /\ reader' = [reader EXCEPT !["client"] = "off"]
  /\ pending' = {}
  /\ UNCHANGED <<streams, frames, sink, held, wire, link, ack, reply, mux, traffic>>

Reader(e) ==
  \/ ReceiveData(e) \/ Route(e) \/ ReceiveClose(e) \/ ReaderStops(e)
  \/ e = "client" /\ (ReceiveAck \/ DropAcks)
  \/ e = "server" /\ (ReceiveOpen \/ ConnectOk \/ ConnectRefused \/ SendAck)

-----------------------------------------------------------------------------
(* The keeper of the resilient client: a writer or reader that ended       *)
(* signals disc_tx, and the connection is taken out of SharedMux.          *)

KeeperTakes ==
  /\ Resilient
  /\ mux = "up"
  /\ sink["client"] # "on" \/ reader["client"] = "off"
  /\ mux' = "taken"
  /\ pending' = {}
  /\ UNCHANGED <<streams, session, ack, reply, traffic>>
KeeperCloses ==
  /\ mux = "taken"
  /\ mux' = "closed"
  /\ registry' = [registry EXCEPT !["client"] = {}]
  /\ UNCHANGED <<pc, chan, rx, session, pending, ack, reply, traffic>>

Keeper == KeeperTakes \/ KeeperCloses

-----------------------------------------------------------------------------
(* The environment: TCP peers and the network.                             *)

\* The socket of stream s at end e exists: one of its halves is still owned.
Attached(e, s) ==
  chan[e][s] # "none" /\ (pc[e][s] # "done" \/ chan[e][s] # "closed")

\* The peer shuts down its sending side, or the connection breaks.
PeerLeaves(e, s) ==
  /\ Attached(e, s)
  /\ \E how \in Leaves[e] :
       /\ peer[e][s] = "open" \/ (peer[e][s] = "eof" /\ how = "reset")
       /\ peer' = [peer EXCEPT ![e][s] = how]
  /\ UNCHANGED <<streams, session, opening, sent, got>>

\* A stalled link may be noticed later; a dead one does not come back.
LinkFails ==
  /\ \E f \in Faults :
       /\ link = "up" \/ (link = "stalled" /\ f = "down")
       /\ link' = f
  /\ UNCHANGED <<streams, frames, sink, reader, held, wire, opening, traffic>>

Environment ==
  \/ \E e \in End, s \in Stream :
       PumpData(e, s) \/ PumpFails(e, s) \/ PeerLeaves(e, s)
  \/ LinkFails

Tasks ==
  \/ \E s \in Stream : Handler(s)
  \/ \E e \in End, s \in Stream : Relay(e, s)
  \/ \E e \in End : Sink(e) \/ Reader(e)
  \/ Keeper

Next == Tasks \/ Environment

Spec == Init /\ [][Next]_vars

\* Every task the executor runs makes progress when it can, and an armed timer
\* fires.  Nothing is assumed of the peers and of the link: they may stay
\* silent, stay open and stay up for ever.  A bounded number of chunks makes
\* weak fairness enough for the senders that share a channel.
Fairness ==
  /\ \A s \in Stream : WF_vars(Handler(s))
  /\ \A e \in End, s \in Stream :
       /\ WF_vars(PumpEof(e, s) \/ PumpClose(e, s))
       /\ WF_vars(WriteChunk(e, s) \/ WriteEnds(e, s))
  /\ \A e \in End : WF_vars(Sink(e)) /\ WF_vars(Reader(e))
  /\ WF_vars(Keeper)

FairSpec == Spec /\ Fairness

-----------------------------------------------------------------------------
(* Properties.                                                             *)

Step == {"start", "register", "insert", "open", "wait", "reply", "relay", "closing", "done"}
ChanState == {"none", "waiting", "writing", "closed"}
PeerState == {"open", "eof", "reset"}

StreamsOK ==
  /\ pc \in [End -> [Stream -> Step]]
  /\ chan \in [End -> [Stream -> ChanState]]
  /\ registry \in [End -> SUBSET Stream]
  /\ rx \in [End -> [Stream -> Seq(Nat)]]
  /\ \A e \in End, s \in Stream : Len(rx[e][s]) <= DataCap
SessionOK ==
  /\ frames \in [End -> Seq(Frame)]
  /\ sink \in [End -> {"on", "closing", "off"}]
  /\ reader \in [End -> {"on", "closing", "off"}]
  /\ held \in [End -> Seq(Frame)]
  /\ wire \in [End -> Seq(Frame)]
  /\ link \in {"up", "stalled", "down"}
  /\ \A e \in End :
       Len(frames[e]) <= FrameCap /\ Len(wire[e]) <= WireCap /\ Len(held[e]) <= 1
OpeningOK ==
  /\ pending \in SUBSET Stream
  /\ ack \in [Stream -> {"none", "ok", "failed"}]
  /\ reply \in [Stream -> {"none", "ok", "err"}]
  /\ mux \in {"up", "taken", "closed"}
TrafficOK ==
  /\ peer \in [End -> [Stream -> PeerState]]
  /\ sent \in [End -> [Stream -> Nat]]
  /\ got \in [End -> [Stream -> Seq(Nat)]]

\* Every variable has its type and every bounded channel keeps its bound.
TypeOK == StreamsOK /\ SessionOK /\ OpeningOK /\ TrafficOK

\* What a peer was written is, chunk for chunk, a prefix of what the peer at
\* the other end sent on the same stream: nothing is lost in the middle,
\* duplicated or reordered by the channels, the multiplexing, the routing that
\* blocks on a full channel, or a stream that is closed while chunks are on
\* the way.
InOrder ==
  \A e \in End, s \in Stream :
    /\ Len(got[e][s]) <= sent[Other(e)][s]
    /\ \A i \in 1..Len(got[e][s]) : got[e][s][i] = i

\* CLOSE does not overtake DATA: when write_task ended although this end is
\* still relaying, the link is intact and the peer takes data, the other end
\* closed the stream and every chunk it sent was written.
CloseFlushes ==
  \A e \in End, s \in Stream :
    /\ chan[e][s] = "closed" /\ pc[e][s] = "relay"
    /\ link # "down" /\ peer[e][s] # "reset"
    => Len(got[e][s]) = sent[Other(e)][s]

\* Frames sent by end o that the other end has not dealt with, oldest first.
Pipe(o) == held[Other(o)] \o wire[o] \o frames[o]

\* On the way from one end to the other the frames of a stream start with its
\* OPEN or OPEN_ACK and end with its CLOSE: the client never has to route a
\* chunk for a handler that still waits for OPEN_ACK, and neither end sends on a
\* stream it has closed, however the tasks that share the channel interleave.
FrameOrder ==
  \A o \in End : \A i, j \in 1..Len(Pipe(o)) :
    LET f == Pipe(o)[i]  g == Pipe(o)[j] IN
    i < j /\ f.id = g.id => g.type \in {"DATA", "CLOSE"} /\ f.type # "CLOSE"

\* The promise of the tunnel to the peers, with the server connected from the
\* moment it has a socket for the stream.
Promise == INSTANCE Tunnel WITH
  connected <- {s \in Stream : chan["server"][s] # "none"},
  answer <- reply

\* The session implements the tunnel: every step of handlers, loops, relay
\* tasks and keeper is, for the peers, a step of the abstract queues or none.
\* An application is told that its tunnel stands, and its bytes leave the
\* client, only after the server connected, and it reads that answer before any
\* byte of the upstream.
\* A stream answered with a failure stays silent although the server may have
\* opened it, and a late OPEN_ACK does not revive it.
KeepsPromise == Promise!Spec

\* No handler leaves its id in a registry; the server's registry is empty once
\* its reader ended; and once the keeper closed a connection the only ids in
\* its registry are those of handlers that hold a stale snapshot and registered
\* late, none of which ever gets to relay.
RegistryClean ==
  /\ \A e \in End : \A s \in registry[e] : pc[e][s] # "done"
  /\ reader["server"] = "off" => registry["server"] = {}
  /\ mux = "closed" =>
       \A s \in registry["client"] : pc["client"][s] \in {"insert", "open", "wait"}

\* The frames each end understands.
Expected(e) == {"DATA", "CLOSE"} \cup IF e = "client" THEN {"OPEN_ACK"} ELSE {"OPEN"}

\* Some task can take a step that depends on no peer, no timer and no new
\* request: a loop, a write_task, or a handler that has its answer.
CanMove ==
  \/ \E e \in End :
       \/ CanTransmit(e)
       \/ \E type \in Expected(e) : CanReceive(e, type)
       \/ Holds(e, "DATA") /\ (chan[e][HeldId(e)] = "closed" \/ Len(rx[e][HeldId(e)]) < DataCap)
       \/ \E s \in Stream : CanWrite(e, s)
  \/ Holds("server", "OPEN")
  \/ Holds("server", "OPEN_ACK") /\ CanSend("server")
  \/ \E s \in Stream :
       \/ pc["client"][s] = "wait" /\ (ack[s] # "none" \/ s \notin pending)
       \/ pc["client"][s] = "reply" /\ (s \in Connect \/ CanSend("client"))

\* A frame or a chunk is somewhere between the two peers.
OnTheWay ==
  \E e \in End :
    \/ frames[e] # <<>> \/ wire[e] # <<>> \/ held[e] # <<>>
    \/ \E s \in Stream : rx[e][s] # <<>>

\* Everyone never waits for everyone: while the link is up and anything is on
\* the way, some task can move it on or is about to make room for it.
NoCircularWait == link = "up" /\ OnTheWay => CanMove

\* A request whose stream is being opened is answered or given up: its handler
\* does not wait for OPEN_ACK for ever.
OpenPhaseEnds ==
  \A s \in Stream :
    pc["client"][s] \in {"insert", "open", "wait"} ~> pc["client"][s] \in {"relay", "done"}

\* Every chunk that entered the tunnel comes out of it, unless the receiving
\* end has given up the stream: channels full in both directions never wait
\* for each other.
Drains ==
  \A e \in End, s \in Stream :
    sent[Other(e)][s] > Len(got[e][s])
      ~> (sent[Other(e)][s] = Len(got[e][s]) \/ s \notin registry[e])

\* An end whose peer has closed lets go of the socket.
Released ==
  \A e \in End, s \in Stream : peer[e][s] # "open" ~> ~Attached(e, s)
=============================================================================
