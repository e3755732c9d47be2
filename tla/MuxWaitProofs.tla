---------------------------- MODULE MuxWaitProofs ----------------------------
(***************************************************************************)
(* Who can wait for whom: the one circular wait a session can get into, so *)
(* NoCircularWait wherever no upstream talks before it is talked to, for   *)
(* any number of streams and chunks, any capacities and both clients.      *)
(*                                                                         *)
(* The invariants below are inductive relative to TunnelInv.  They say     *)
(* which frames a reader can meet, how far one end has got while the other *)
(* still opens the stream, and that an OPEN_ACK somebody waits for is on   *)
(* its way and in front of everything else of its stream.                  *)
(***************************************************************************)
EXTENDS MuxTunnelProofs

-----------------------------------------------------------------------------
(* The invariants.                                                         *)

\* The frames of end o that the other end's reader has not taken yet.
Unread(o) == Items(wire[o]) \cup Items(frames[o])

\* A reader understands every frame it gets; the client's awaits only the
\* channel of a chunk, the server's never a CLOSE.
DirInv ==
  /\ \A o \in End : \A f \in Unread(o) : f.type \in Expected(Other(o))
  /\ \A f \in Items(held["client"]) : f.type = "DATA"
  /\ \A f \in Items(held["server"]) : f.type # "CLOSE"

\* While the server's tasks for s have not started, the client has not got
\* past waiting for them and has sent no chunk.
StageAt(s) ==
  /\ chan["server"][s] = "waiting" => pc["server"][s] = "start"
  /\ chan["client"][s] = "waiting" => pc["client"][s] \in {"insert", "open", "wait", "reply"}
  /\ pc["server"][s] = "start" =>
       /\ ack[s] # "ok" /\ sent["client"][s] = 0
       /\ pc["client"][s] \notin {"reply", "relay", "closing"}
\* All that the client can hear from such a server is a refusal.
RefusedInv ==
  \A f \in Transit("server") : pc["server"][f.id] = "start" => f.type = "OPEN_ACK" /\ f.arg # 0

\* A handler that can still get its OPEN_ACK has got no chunk, and the OPEN_ACK
\* is on its way once the server's tasks have started.
AwaitedAt(s) ==
  link # "down" /\ s \in pending /\ pc["client"][s] = "wait" =>
    /\ rx["client"][s] = <<>>
    /\ \A f \in Items(held["client"]) : f.id # s
    /\ pc["server"][s] # "start" => \E g \in Unread("server") : g.id = s /\ g.type = "OPEN_ACK"

\* A dropped data channel is empty, and a patient upstream of a plain request
\* has sent nothing before it got something.
IdleInv ==
  /\ \A e \in End, s \in Stream : chan[e][s] = "closed" => rx[e][s] = <<>>
  /\ \A s \in Stream \ (Connect \cup Impatient) :
       sent["server"][s] = 0 \/ got["server"][s] # <<>>

WaitInv ==
  /\ TunnelInv /\ DirInv /\ RefusedInv /\ IdleInv
  /\ \A s \in Stream : StageAt(s) /\ AwaitedAt(s)

-----------------------------------------------------------------------------
(* What the operations do to the unread frames.                            *)

\* A send adds its frame.
LEMMA UnreadSend ==
  ASSUME TypeOK, NEW e \in End, NEW f \in Frame, Send(e, f), UNCHANGED wire
  PROVE  /\ Unread(e)' = Unread(e) \cup {f}
         /\ \A o \in End : o # e => Unread(o)' = Unread(o)
<1>1. /\ frames'[e] = Append(frames[e], f)
      /\ \A o \in End : o # e => frames'[o] = frames[o]
  BY DEF Send, TypeOK, SessionOK
<1>2. Items(frames'[e]) = Items(frames[e]) \cup {f}
  BY <1>1, QueueType, ItemsAppend
<1> QED BY <1>1, <1>2 DEF Unread

\* The writer loop moves a frame from the channel to the wire.
LEMMA UnreadTransmit ==
  ASSUME TypeOK, NEW e \in End, Transmit(e)
  PROVE  \A o \in End : Unread(o)' = Unread(o)
<1>1. /\ frames'[e] = Tail(frames[e]) /\ wire'[e] = Append(wire[e], Head(frames[e]))
      /\ frames[e] # <<>>
      /\ \A o \in End : o # e => frames'[o] = frames[o] /\ wire'[o] = wire[o]
  BY DEF Transmit, CanTransmit, TypeOK, SessionOK
<1>2. Head(frames[e]) \in Frame
  BY <1>1, QueueType
<1>3. /\ Items(frames[e]) = {Head(frames[e])} \cup Items(frames'[e])
      /\ Items(wire'[e]) = Items(wire[e]) \cup {Head(frames[e])}
  BY <1>1, <1>2, QueueType, ItemsAppend, ItemsTail
<1> QED BY <1>1, <1>3 DEF Unread

\* The writer loop that ends loses frames.
LEMMA UnreadDrop ==
  ASSUME TypeOK, NEW e \in End, SinkStops(e) \/ SinkDrops(e)
  PROVE  \A o \in End : Unread(o)' \subseteq Unread(o)
<1>0. wire' = wire /\ \A o \in End : o # e => frames'[o] = frames[o]
  BY DEF SinkStops, SinkDrops, TypeOK, SessionOK
<1>1. frames'[e] = frames[e] \/ frames'[e] = <<>> \/ (frames[e] # <<>> /\ frames'[e] = Tail(frames[e]))
  BY DEF SinkStops, SinkDrops, TypeOK, SessionOK
<1>2. Items(frames'[e]) \subseteq Items(frames[e])
  BY <1>1, QueueType, ItemsFew, ItemsTail
<1> QED BY <1>0, <1>2 DEF Unread

\* The reader takes the frame that arrives, and no other.
LEMMA UnreadReceive ==
  ASSUME TypeOK, NEW e \in End, NEW type, Receive(e, type), UNCHANGED frames
  PROVE  /\ Unread(e)' = Unread(e)
         /\ Unread(Other(e)) = Unread(Other(e))' \cup {Arriving(e)}
         /\ Arriving(e).type = type /\ Arriving(e) \in Items(wire[Other(e)])
<1> USE EndType, Others
<1>1. /\ wire[Other(e)] # <<>> /\ wire'[Other(e)] = Tail(wire[Other(e)]) /\ wire'[e] = wire[e]
      /\ Arriving(e) = Head(wire[Other(e)]) /\ Arriving(e).type = type
  BY DEF Receive, CanReceive, Arriving, TypeOK, SessionOK
<1>2. /\ Arriving(e) \in Items(wire[Other(e)])
      /\ Items(wire[Other(e)]) = {Arriving(e)} \cup Items(wire'[Other(e)])
  BY <1>1, QueueType, ItemsTail
<1> QED BY <1>1, <1>2 DEF Unread

-----------------------------------------------------------------------------
(* Each reader understands what it gets.                                   *)

\* New frames are of a type the other end expects.
LEMMA DirSame ==
  ASSUME DirInv,
         \A o \in End : \A f \in Unread(o)' : f \in Unread(o) \/ f.type \in Expected(Other(o)),
         \A f \in Items(held'["client"]) : f \in Items(held["client"]) \/ f.type = "DATA",
         \A f \in Items(held'["server"]) : f \in Items(held["server"]) \/ f.type # "CLOSE"
  PROVE  DirInv'
BY DEF DirInv

\* A step that sends one frame.
LEMMA DirSend ==
  ASSUME TypeOK, DirInv, NEW e \in End, NEW f \in Frame, Send(e, f), UNCHANGED wire,
         f.type \in Expected(Other(e)),
         \A o \in End : Items(held'[o]) \subseteq Items(held[o])
  PROVE  DirInv'
BY UnreadSend, DirSame, EndType

\* A step that sends nothing and holds nothing new.
LEMMA DirQuiet ==
  ASSUME DirInv, \A o \in End : Unread(o)' \subseteq Unread(o),
         \A o \in End : Items(held'[o]) \subseteq Items(held[o])
  PROVE  DirInv'
BY DirSame, EndType

\* The constructors and the types they give.
LEMMA SentTypes ==
  ASSUME NEW s \in Stream, NEW n \in Nat
  PROVE  /\ Open(s) \in Frame /\ Open(s).type \in Expected("server")
         /\ \A e \in End : /\ Data(s, n) \in Frame /\ Data(s, n).type \in Expected(e)
                           /\ Close(s) \in Frame /\ Close(s).type \in Expected(e)
BY FrameType DEF Open, Data, Close, Expected

\* Every step keeps the directions.
LEMMA DirKeeps ==
  ASSUME TunnelInv, DirInv, Next PROVE DirInv'
<1> USE EndType, Others
<1>0. TypeOK /\ OrderInv
  BY DEF TunnelInv, IndInv
<1>1. ASSUME UNCHANGED <<held, wire, frames>> PROVE DirInv'
  BY <1>1, DirQuiet DEF Unread
<1>2. ASSUME NEW s \in Stream, Handler(s) PROVE DirInv'
  <2>1. CASE Send("client", Open(s)) /\ UNCHANGED <<held, wire>>
    BY <1>0, <2>1, DirSend, SentTypes
  <2>2. CASE Send("client", Data(s, 1)) /\ UNCHANGED <<held, wire>>
    BY <1>0, <2>2, DirSend, SentTypes
  <2> QED BY <1>1, <1>2, <2>1, <2>2
    DEF Handler, Snapshot, Register, InsertAck, SendOpen, AckArrives, AckTimeout, ReplyConnect,
        ForwardRequest, session
<1>3. ASSUME NEW e \in End, NEW s \in Stream,
             PumpData(e, s) \/ PumpFails(e, s) \/ PeerLeaves(e, s) \/ Relay(e, s)
      PROVE  DirInv'
  <2>1. CASE PumpData(e, s)
    <3>1. sent[e][s] + 1 \in Nat
      BY <1>0 DEF TypeOK, TrafficOK
    <3>2. Send(e, Data(s, sent[e][s] + 1)) /\ UNCHANGED <<held, wire>>
      BY <2>1 DEF PumpData
    <3> QED BY <1>0, <3>1, <3>2, DirSend, SentTypes
  <2>2. CASE Send(e, Close(s)) /\ UNCHANGED <<held, wire>>
    BY <1>0, <2>2, DirSend, SentTypes
  <2> QED BY <1>1, <1>3, <2>1, <2>2
    DEF Relay, PumpFails, PeerLeaves, PumpEof, PumpClose, SendOrIgnore, WriteChunk, WriteEnds,
        session
<1>4. ASSUME NEW e \in End, Sink(e) PROVE DirInv'
  <2>1. held' = held
    BY <1>4 DEF Sink, Transmit, SinkStops, SinkDrops
  <2> QED BY <1>0, <1>4, <2>1, UnreadTransmit, UnreadDrop, DirQuiet DEF Sink
<1>5. ASSUME NEW e \in End, NEW type, Receive(e, type), UNCHANGED frames,
             UNCHANGED held \/ (Hold(e, Arriving(e)) /\ type # "CLOSE"
                                  /\ (e = "client" => type = "DATA"))
      PROVE  DirInv'
  <2>1. /\ \A o \in End : Unread(o)' \subseteq Unread(o)
        /\ Arriving(e).type = type
    <3>1. \A o \in End : o = e \/ o = Other(e)
      BY DEF End, Other
    <3> QED BY <1>0, <1>5, <3>1, UnreadReceive
  <2>2. CASE held' = held
    BY <2>1, <2>2, DirQuiet
  <2>3. CASE Hold(e, Arriving(e)) /\ type # "CLOSE" /\ (e = "client" => type = "DATA")
    <3>1. Items(held'[e]) = {Arriving(e)} /\ \A o \in End : o # e => held'[o] = held[o]
      BY <1>0, <2>3, ItemsFew DEF Hold, TypeOK, SessionOK
    <3> QED BY <2>1, <2>3, <3>1, DirSame DEF End
  <2> QED BY <1>5, <2>2, <2>3
<1>6. ASSUME NEW e \in End, ReceiveData(e) \/ ReceiveClose(e) PROVE DirInv'
  BY <1>5, <1>6 DEF ReceiveData, ReceiveClose
<1>7. CASE ReceiveAck \/ ReceiveOpen
  BY <1>5, <1>7 DEF ReceiveAck, ReceiveOpen
<1>8. ASSUME NEW e \in End, Route(e) PROVE DirInv'
  <2>1. Release(e) /\ UNCHANGED <<frames, wire>>
    BY <1>8 DEF Route
  <2>2. Items(held'[e]) = {} /\ held'[Other(e)] = held[Other(e)]
    BY <1>0, <2>1, ReleaseCarry
  <2>3. \A o \in End : Items(held'[o]) \subseteq Items(held[o])
    BY <2>2 DEF End, Other
  <2> QED BY <2>1, <2>3, DirQuiet DEF Unread
<1>9. CASE ConnectOk \/ ConnectRefused
  <2>1. Holds("server", "OPEN") /\ UNCHANGED <<frames, wire>>
    BY <1>9 DEF ConnectOk, ConnectRefused
  <2>2. \E n \in Nat : /\ Items(held'["server"]) = {OpenAck(HeldId("server"), n)}
                       /\ held'["client"] = held["client"]
    <3>1. PICK n \in {0, 1} : Hold("server", OpenAck(HeldId("server"), n))
      BY <1>9 DEF ConnectOk, ConnectRefused
    <3> QED BY <1>0, <2>1, <3>1, AnswerQueues
  <2>3. \A n \in Nat : OpenAck(HeldId("server"), n).type # "CLOSE"
    BY DEF OpenAck
  <2>4. \A o \in End : Unread(o)' = Unread(o)
    BY <2>1 DEF Unread
  <2> QED BY <2>2, <2>3, <2>4, DirSame
<1>10. CASE SendAck
  <2>1. PICK f \in Frame : f = Head(held["server"]) /\ f.type = "OPEN_ACK"
    BY <1>0, <1>10, HeldItem DEF SendAck
  <2>2. \A o \in End : Items(held'[o]) \subseteq Items(held[o])
    BY <1>0, <1>10, AckQueues DEF End
  <2>3. CASE Send("server", f)
    BY <1>0, <1>10, <2>1, <2>2, <2>3, DirSend DEF SendAck, Expected
  <2>4. CASE frames' = frames
    BY <1>10, <2>2, <2>4, DirQuiet DEF SendAck, Unread
  <2> QED BY <1>10, <2>1, <2>3, <2>4 DEF SendAck, SendOrIgnore
<1>11. ASSUME NEW e \in End, Reader(e) PROVE DirInv'
  BY <1>1, <1>6, <1>7, <1>8, <1>9, <1>10, <1>11 DEF Reader, ReaderStops, DropAcks
<1>12. CASE Keeper \/ LinkFails
  BY <1>1, <1>12 DEF Keeper, KeeperTakes, KeeperCloses, LinkFails, session
<1> QED BY <1>2, <1>3, <1>4, <1>11, <1>12 DEF Next, Tasks, Environment

-----------------------------------------------------------------------------
(* The stages of a stream, and the answer its handler waits for.           *)

\* The parts that are proved together.
WaitParts ==
  RefusedInv /\ IdleInv /\ \A s \in Stream : StageAt(s) /\ AwaitedAt(s)

\* A step of one stream.
LEMMA StageOne ==
  ASSUME \A x \in Stream : StageAt(x), NEW s \in Stream, OnlyStream(s), StageAt(s)'
  PROVE  \A x \in Stream : StageAt(x)'
<1>1. ASSUME NEW x \in Stream, x # s PROVE StageAt(x)'
  BY <1>1, EndType DEF OnlyStream, StageAt
<1> QED BY <1>1

\* Nothing happens that the handler of s, waiting, could care about.
LEMMA AwaitedSame ==
  ASSUME NEW s \in Stream, AwaitedAt(s),
         link' # "down" => link # "down",
         s \in pending' => s \in pending,
         pc'["client"][s] = "wait" => pc["client"][s] = "wait",
         pc'["server"][s] # "start" => pc["server"][s] # "start",
         rx'["client"][s] = rx["client"][s] \/ rx'["client"][s] = <<>>,
         \A f \in Items(held'["client"]) : f.id = s => f \in Items(held["client"]),
         link' # "down" => \A g \in Unread("server") :
           g.id = s /\ g.type = "OPEN_ACK" /\ s \in pending' => g \in Unread("server")'
  PROVE  AwaitedAt(s)'
BY DEF AwaitedAt

\* Where nothing was sent nothing is received.
LEMMA NothingSent ==
  ASSUME TunnelInv, NEW e \in End, NEW s \in Stream, sent[Other(e)][s] = 0
  PROVE  rx[e][s] = <<>> /\ got[e][s] = <<>>
<1>1. Accepted(e, s) <= sent[Other(e)][s]
  BY DEF TunnelInv, FlowInv, FlowAt, ChunkAt
<1>2. got[e][s] \in Seq(Nat) /\ rx[e][s] \in Seq(Nat)
  BY Tables DEF TunnelInv, IndInv
<1>3. PICK a \in Nat, b \in Nat : a = Len(got[e][s]) /\ b = Len(rx[e][s])
  BY <1>2
<1>4. a + b <= 0
  BY <1>1, <1>3 DEF Accepted
<1>5. a = 0 /\ b = 0
  BY <1>4
<1>6. Len(got[e][s]) = 0 /\ Len(rx[e][s]) = 0
  BY <1>3, <1>5
<1> QED BY <1>2, <1>6

\* No chunk of s reaches the client before the server's tasks have started.
LEMMA NothingYet ==
  ASSUME TunnelInv, NEW s \in Stream, pc["server"][s] = "start"
  PROVE  rx["client"][s] = <<>>
<1>1. sent["server"][s] = 0
  BY DEF TunnelInv, OpenInv, ServerOpenAt
<1> QED BY <1>1, NothingSent, EndType, Others

\* What the steps of a handler do to the streams: one of them moves, at the
\* client, and a data channel that is dropped is emptied.
HandlerMove(s) ==
  /\ OnlyStream(s) /\ StageAt(s)'
  /\ pc'["server"][s] = pc["server"][s] /\ sent'["server"][s] = sent["server"][s]
  /\ pc'["client"][s] = "wait" => pc["client"][s] = "open"
  /\ \A e \in End, x \in Stream :
       /\ rx'[e][x] = rx[e][x] \/ rx'[e][x] = <<>>
       /\ chan'[e][x] = "closed" => chan[e][x] = "closed" \/ rx'[e][x] = <<>>

\* What the steps of a handler have in common.
LEMMA HandlerMoves ==
  ASSUME WaitInv, NEW s \in Stream, Handler(s)
  PROVE  /\ UNCHANGED <<held, wire, link, ack, got>> /\ frames'["server"] = frames["server"]
         /\ \A x \in Stream : x # s /\ x \in pending' => x \in pending
         /\ HandlerMove(s)
<1> USE EndType, Others
<1>0. /\ TypeOK /\ ClientOpenAt(s) /\ StageAt(s)
      /\ UNCHANGED <<held, wire, link, ack, got>>
  BY DEF WaitInv, TunnelInv, IndInv, OpenInv, Handler, Snapshot, Register, InsertAck, SendOpen,
    AckArrives, AckTimeout, ReplyConnect, ForwardRequest, session, opening, traffic
<1>1. frames'["server"] = frames["server"]
  BY <1>0 DEF Handler, Snapshot, Register, InsertAck, SendOpen, AckArrives, AckTimeout,
    ReplyConnect, ForwardRequest, session, Send, TypeOK, SessionOK
<1>2. \A x \in Stream : x # s /\ x \in pending' => x \in pending
  BY DEF Handler, Snapshot, Register, InsertAck, SendOpen, AckArrives, AckTimeout,
    ReplyConnect, ForwardRequest, opening
<1>3. ASSUME NEW at \in Step, NEW c \in ChanState,
             Sets(pc, pc', "client", s, at), Sets(chan, chan', "client", s, c),
             \A x \in Stream : x # s => reply'[x] = reply[x],
             \/ sent' = sent
             \/ sent' = [sent EXCEPT !["client"][s] = 1] /\ pc["client"][s] = "reply",
             at = "wait" => pc["client"][s] = "open",
             c = "waiting" => at \in {"insert", "open", "wait", "reply"},
             at \in {"reply", "relay", "closing"} => pc["server"][s] # "start",
             \/ rx' = rx /\ c # "closed"
             \/ rx' = rx /\ c = chan["client"][s]
             \/ Sets(rx, rx', "client", s, <<>>)
      PROVE  HandlerMove(s)
  <2>1. \A e \in End, x \in Stream : x # s \/ e # "client" => sent'[e][x] = sent[e][x]
    <3>1. sent' = sent \/ Sets(sent, sent', "client", s, 1)
      BY <1>0, <1>3, SetsAt
    <3> QED BY <3>1 DEF Sets
  <2>2. sent'["client"][s] = sent["client"][s] \/ pc["client"][s] = "reply"
    BY <1>3
  <2>3. /\ OnlyStream(s) /\ pc'["client"][s] = at /\ chan'["client"][s] = c
        /\ pc'["server"][s] = pc["server"][s] /\ sent'["server"][s] = sent["server"][s]
        /\ \A x \in Stream : chan'["server"][x] = chan["server"][x]
    BY <1>0, <1>3, <2>1, HandlerOnly
  <2>4. StageAt(s)'
    BY <1>0, <1>3, <2>2, <2>3 DEF StageAt
  <2>5. \A e \in End, x \in Stream :
          /\ rx'[e][x] = rx[e][x] \/ rx'[e][x] = <<>>
          /\ chan'[e][x] = "closed" => chan[e][x] = "closed" \/ rx'[e][x] = <<>>
    BY <1>3 DEF Sets
  <2> QED BY <1>3, <2>3, <2>4, <2>5 DEF HandlerMove
<1>4. ASSUME NEW r, GiveUp(s, r), sent' = sent
      PROVE  HandlerMove(s)
  <2>1. /\ Sets(pc, pc', "client", s, "done") /\ Sets(chan, chan', "client", s, "closed")
        /\ Sets(rx, rx', "client", s, <<>>)
        /\ \A x \in Stream : x # s => reply'[x] = reply[x]
    BY <1>0, <1>4, GiveUpSets
  <2> QED BY <1>3, <1>4, <2>1, StepType
<1> USE StepType DEF StageAt
<1>5. ASSUME NEW at \in Step, Goto(s, at), UNCHANGED <<chan, rx, sent>>,
             \A x \in Stream : x # s => reply'[x] = reply[x],
             at = "wait" => pc["client"][s] = "open",
             chan["client"][s] = "waiting" => at \in {"insert", "open", "wait", "reply"},
             at \in {"reply", "relay", "closing"} => pc["server"][s] # "start"
      PROVE  HandlerMove(s)
  <2>1. Sets(pc, pc', "client", s, at) /\ Sets(chan, chan', "client", s, chan["client"][s])
    BY <1>0, <1>5, GotoSets
  <2>2. chan["client"][s] \in ChanState
    BY <1>0, Tables
  <2> HIDE DEF StageAt
  <2> QED BY <1>3, <1>5, <2>1, <2>2
<1>6. CASE Snapshot(s)
  <2>1. PICK at \in {"register", "done"} : Goto(s, at)
    BY <1>6 DEF Snapshot
  <2>2. /\ pc["client"][s] = "start" /\ UNCHANGED <<chan, rx, sent>>
        /\ \A x \in Stream : x # s => reply'[x] = reply[x]
    BY <1>0, <1>6, Tables DEF Snapshot, traffic
  <2> QED BY <1>0, <1>1, <1>2, <1>5, <2>1, <2>2
<1>7. CASE Register(s)
  <2>1. Sets(chan, chan', "client", s, "waiting") /\ Sets(pc, pc', "client", s, "insert")
    BY <1>0, <1>7, SetsAt, Tables DEF Register, Goto
  <2>2. UNCHANGED <<rx, sent, reply>>
    BY <1>7 DEF Register, traffic, opening
  <2> HIDE DEF StageAt
  <2> QED BY <1>0, <1>1, <1>2, <1>3, <2>1, <2>2
<1>8. CASE InsertAck(s)
  BY <1>0, <1>1, <1>2, <1>5, <1>8 DEF InsertAck, traffic
<1>9. CASE SendOpen(s)
  BY <1>0, <1>1, <1>2, <1>4, <1>5, <1>9 DEF SendOpen, traffic
<1>10. CASE AckArrives(s) \/ AckTimeout(s)
  BY <1>0, <1>1, <1>2, <1>4, <1>5, <1>10 DEF AckArrives, AckTimeout, traffic
<1>11. ASSUME pc["client"][s] = "reply", StartRelay("client", s), rx' = rx,
              \A x \in Stream : x # s => reply'[x] = reply[x],
              sent' = sent \/ sent' = [sent EXCEPT !["client"][s] = 1]
       PROVE  HandlerMove(s)
  <2>1. Sets(pc, pc', "client", s, "relay") /\ Sets(chan, chan', "client", s, "writing")
    BY <1>0, <1>11, StartRelaySets
  <2>2. pc["server"][s] # "start"
    BY <1>0, <1>11
  <2> HIDE DEF StageAt
  <2> QED BY <1>3, <1>11, <2>1, <2>2
<1> HIDE DEF StageAt
<1>12. CASE ReplyConnect(s)
  <2>1. \A x \in Stream : x # s => reply'[x] = reply[x] \/ GiveUp(s, "none")
    BY <1>0, <1>12, Tables DEF ReplyConnect
  <2> QED BY <1>0, <1>1, <1>2, <1>4, <1>11, <1>12, <2>1 DEF ReplyConnect, traffic
<1>13. CASE ForwardRequest(s)
  BY <1>0, <1>1, <1>2, <1>4, <1>11, <1>13 DEF ForwardRequest
<1> QED BY <1>6, <1>7, <1>8, <1>9, <1>10, <1>12, <1>13 DEF Handler

\* The steps of a handler: one that starts to wait has heard nothing yet.
LEMMA HandlerWaits ==
  ASSUME WaitInv, NEW s \in Stream, Handler(s) PROVE WaitParts'
<1> USE EndType, Others
<1>0. TunnelInv /\ RefusedInv /\ IdleInv /\ \A x \in Stream : StageAt(x) /\ AwaitedAt(x)
  BY DEF WaitInv
<1>1. /\ UNCHANGED <<held, wire, link, ack, got>> /\ frames'["server"] = frames["server"]
      /\ \A x \in Stream : x # s /\ x \in pending' => x \in pending
      /\ HandlerMove(s)
  BY HandlerMoves
<1>2. /\ Unread("server")' = Unread("server") /\ Transit("server")' = Transit("server")
      /\ \A x \in Stream : pc'["server"][x] = pc["server"][x] /\ sent'["server"][x] = sent["server"][x]
  BY <1>1 DEF Unread, Transit, HandlerMove, OnlyStream
<1>3. \A x \in Stream : StageAt(x)'
  BY <1>0, <1>1, StageOne DEF HandlerMove
<1>4. RefusedInv'
  <2>1. \A f \in Transit("server") : f.id \in Stream
    BY <1>0, TransitType DEF TunnelInv, IndInv
  <2> QED BY <1>0, <1>2, <2>1 DEF RefusedInv
<1>5. IdleInv'
  BY <1>0, <1>1, <1>2 DEF IdleInv, HandlerMove
<1>6. ASSUME NEW x \in Stream, x # s PROVE AwaitedAt(x)'
  <2>1. pc'["client"][x] = pc["client"][x] /\ (rx'["client"][x] = rx["client"][x] \/ rx'["client"][x] = <<>>)
    BY <1>1, <1>6 DEF HandlerMove, OnlyStream
  <2> QED BY <1>0, <1>1, <1>2, <1>6, <2>1, AwaitedSame
<1>7. AwaitedAt(s)'
  <2>1. CASE pc'["client"][s] # "wait"
    BY <2>1 DEF AwaitedAt
  <2>2. CASE pc'["client"][s] = "wait"
    <3>1. pc["client"][s] = "open"
      BY <1>1, <2>2 DEF HandlerMove
    <3>2. Fresh(s)
      BY <1>0, <3>1 DEF TunnelInv, IndInv, ServerInv, Opening
    <3>3. rx["client"][s] = <<>>
      BY <1>0, <3>2, NothingYet DEF Fresh
    <3>4. \A f \in Items(held["client"]) : f.id # s
      BY <3>2 DEF Fresh, Transit
    <3>5. rx'["client"][s] = <<>> /\ pc'["server"][s] = "start" /\ held' = held
      BY <1>1, <3>2, <3>3 DEF HandlerMove, Fresh
    <3> QED BY <3>4, <3>5 DEF AwaitedAt
  <2> QED BY <2>1, <2>2
<1> QED BY <1>3, <1>4, <1>5, <1>6, <1>7 DEF WaitParts

\* Steps that neither move a task nor take anything from a peer or write to it.
LEMMA CalmWaits ==
  ASSUME WaitInv, UNCHANGED <<pc, chan, sent, got>>,
         link' # "down" => link # "down",
         pending' \subseteq pending,
         Transit("server")' \subseteq Transit("server"),
         \A x \in Stream : ack'[x] = "ok" => ack[x] = "ok" \/ pc["server"][x] # "start",
         \A e \in End, x \in Stream : chan[e][x] = "closed" => rx'[e][x] = rx[e][x],
         link' # "down" => \A x \in pending : pc["client"][x] = "wait" =>
           /\ rx'["client"][x] = rx["client"][x]
           /\ \A f \in Items(held'["client"]) : f.id = x => f \in Items(held["client"]),
         link' # "down" => \A g \in Unread("server") :
           g.type = "OPEN_ACK" /\ g.id \in pending' => g \in Unread("server")'
  PROVE  WaitParts'
<1>0. RefusedInv /\ IdleInv /\ \A x \in Stream : StageAt(x) /\ AwaitedAt(x)
  BY DEF WaitInv
<1>1. \A x \in Stream : StageAt(x)'
  BY <1>0 DEF StageAt
<1>2. RefusedInv' /\ IdleInv'
  BY <1>0 DEF RefusedInv, IdleInv
<1>3. ASSUME NEW x \in Stream PROVE AwaitedAt(x)'
  BY <1>0, <1>3 DEF AwaitedAt
<1> QED BY <1>1, <1>2, <1>3 DEF WaitParts

\* A pump sends, fails, ends or closes.
LEMMA PumpWaits ==
  ASSUME WaitInv, NEW e \in End, NEW s \in Stream,
         PumpData(e, s) \/ PumpFails(e, s) \/ PumpEof(e, s) \/ PumpClose(e, s)
  PROVE  WaitParts'
<1> USE EndType, Others
<1>0. /\ TunnelInv /\ TypeOK /\ RefusedInv /\ IdleInv /\ StageAt(s) /\ ServerOpenAt(s)
      /\ \A x \in Stream : StageAt(x) /\ AwaitedAt(x)
      /\ UNCHANGED <<held, wire, link, ack, got, rx, chan, pending, reply>>
  BY DEF WaitInv, TunnelInv, IndInv, OpenInv, PumpData, PumpFails, PumpEof, PumpClose, session,
    opening, traffic, streams
<1>1. pc[e][s] \in {"relay", "closing"}
  BY DEF PumpData, PumpFails, PumpEof, PumpClose
<1>2. PICK at \in {"relay", "closing", "done"}, n \in Nat :
        /\ Sets(pc, pc', e, s, at) /\ Sets(sent, sent', e, s, n)
        /\ at = "relay" => pc[e][s] = "relay"
        /\ \/ n = sent[e][s]
           \/ e = "server" /\ s \notin Connect \cup Impatient => got[e][s] # <<>>
  <2>0. pc \in [End -> [Stream -> Step]] /\ sent \in [End -> [Stream -> Nat]] /\ sent[e][s] \in Nat
    BY <1>0, Tables
  <2>1. CASE PumpData(e, s)
    <3>0. PICK k \in Nat : k = sent[e][s] + 1
      BY <2>0
    <3>1. /\ pc[e][s] = "relay" /\ pc' = pc
          /\ sent' = [sent EXCEPT ![e][s] = k]
          /\ e = "server" /\ s \notin Connect \cup Impatient => got[e][s] # <<>>
      BY <2>1, <3>0 DEF PumpData, streams
    <3>2. Sets(pc, pc', e, s, "relay")
      BY <3>1 DEF Sets
    <3>3. Sets(sent, sent', e, s, k)
      BY <1>0, <3>1, SetsAt
    <3> QED BY <3>1, <3>2, <3>3
  <2>2. CASE PumpFails(e, s) \/ PumpEof(e, s) \/ PumpClose(e, s)
    <3>1. sent' = sent /\ \E to \in {"closing", "done"} : pc' = [pc EXCEPT ![e][s] = to]
      BY <2>2 DEF PumpFails, PumpEof, PumpClose, traffic
    <3>2. PICK to \in {"closing", "done"} : pc' = [pc EXCEPT ![e][s] = to]
      BY <3>1
    <3>3. Sets(sent, sent', e, s, sent[e][s])
      BY <3>1 DEF Sets
    <3>4. Sets(pc, pc', e, s, to) /\ to \in {"relay", "closing", "done"} /\ to # "relay"
      BY <1>0, <3>2, SetsAt
    <3> QED BY <2>0, <3>3, <3>4
  <2> QED BY <2>1, <2>2
<1>3. /\ OnlyStream(s) /\ pc'[e][s] = at /\ pc'[Other(e)][s] = pc[Other(e)][s]
      /\ sent'[e][s] = n /\ sent'[Other(e)][s] = sent[Other(e)][s]
  BY <1>0, <1>2 DEF Sets, OnlyStream
<1>4. pc["server"][s] # "start" /\ pc'["server"][s] # "start"
  BY <1>0, <1>1, <1>2, <1>3 DEF StageAt, End
<1>5. StageAt(s)'
  BY <1>0, <1>1, <1>2, <1>3, <1>4 DEF StageAt, End
<1>6. \A x \in Stream : StageAt(x)'
  BY <1>0, <1>3, <1>5, StageOne
<1>7. Unread("server") \subseteq Unread("server")'
      /\ \A f \in Transit("server")' : f \in Transit("server") \/ f.id = s
  <2>1. frames' = frames \/ \E f \in Frame : f.id = s /\ Send(e, f)
    <3>1. \A k \in Nat : /\ Data(s, k) \in Frame /\ Data(s, k).id = s
                          /\ Close(s) \in Frame /\ Close(s).id = s
      BY FrameType DEF Data, Close
    <3>2. CASE PumpData(e, s)
      <4>1. sent[e][s] + 1 \in Nat /\ Send(e, Data(s, sent[e][s] + 1))
        BY <1>0, <3>2, Tables DEF PumpData
      <4> QED BY <3>1, <4>1
    <3>3. CASE PumpFails(e, s) \/ PumpEof(e, s) \/ PumpClose(e, s)
      BY <3>1, <3>3 DEF PumpFails, PumpEof, PumpClose, SendOrIgnore, session
    <3> QED BY <3>2, <3>3
  <2>2. CASE frames' = frames
    BY <1>0, <2>2 DEF Unread, Transit
  <2>3. ASSUME NEW f \in Frame, f.id = s, Send(e, f)
        PROVE  /\ Unread("server") \subseteq Unread("server")'
               /\ \A g \in Transit("server")' : g \in Transit("server") \/ g.id = s
    <3>1. /\ Unread(e)' = Unread(e) \cup {f}
          /\ \A o \in End : o # e => Unread(o)' = Unread(o)
      BY <1>0, <2>3, UnreadSend
    <3>2. /\ Unread("server") \subseteq Unread("server")'
          /\ Unread("server")' \subseteq Unread("server") \cup {f}
      BY <3>1 DEF End
    <3> QED BY <1>0, <2>3, <3>2 DEF Unread, Transit
  <2> QED BY <2>1, <2>2, <2>3
<1>8. RefusedInv'
  <2>1. \A f \in Transit("server") : f.id \in Stream
    BY <1>0, TransitType
  <2>2. \A x \in Stream : pc'["server"][x] = "start" => x # s /\ pc["server"][x] = "start"
    BY <1>3, <1>4 DEF OnlyStream
  <2> QED BY <1>0, <1>3, <1>4, <1>7, <2>1, <2>2 DEF RefusedInv
<1>9. IdleInv'
  <2>1. \A x \in Stream \ (Connect \cup Impatient) : sent'["server"][x] = 0 \/ got'["server"][x] # <<>>
    BY <1>0, <1>2, <1>3 DEF IdleInv, OnlyStream, End
  <2> QED BY <1>0, <2>1 DEF IdleInv
<1>10. ASSUME NEW x \in Stream PROVE AwaitedAt(x)'
  <2>1. pc'["client"][x] = "wait" => pc["client"][x] = "wait"
    BY <1>2, <1>3 DEF OnlyStream, End
  <2>2. pc'["server"][x] # "start" => pc["server"][x] # "start"
    BY <1>3, <1>4 DEF OnlyStream
  <2> QED BY <1>0, <1>7, <2>1, <2>2, AwaitedSame
<1> QED BY <1>6, <1>8, <1>9, <1>10 DEF WaitParts

\* write_task writes a chunk or ends: its stream has been opened.
LEMMA WriteWaits ==
  ASSUME WaitInv, NEW e \in End, NEW s \in Stream, WriteChunk(e, s) \/ WriteEnds(e, s)
  PROVE  WaitParts'
<1> USE EndType, Others
<1>0. /\ TunnelInv /\ TypeOK /\ RefusedInv /\ IdleInv /\ ClientOpenAt(s)
      /\ \A x \in Stream : StageAt(x) /\ AwaitedAt(x)
      /\ UNCHANGED <<held, wire, frames, link, ack, pc, pending, sent>>
      /\ chan[e][s] = "writing"
  BY DEF WaitInv, TunnelInv, IndInv, OpenInv, WriteChunk, CanWrite, WriteEnds, session,
    opening, traffic
<1>1. /\ \A o \in End, x \in Stream : o # e \/ x # s =>
           chan'[o][x] = chan[o][x] /\ rx'[o][x] = rx[o][x] /\ got'[o][x] = got[o][x]
      /\ chan'[e][s] = "writing" \/ (chan'[e][s] = "closed" /\ rx'[e][s] = <<>>)
      /\ got'[e][s] = got[e][s] \/ got'[e][s] # <<>>
  <2>0. /\ chan \in [End -> [Stream -> ChanState]] /\ rx \in [End -> [Stream -> Seq(Nat)]]
        /\ got \in [End -> [Stream -> Seq(Nat)]]
    BY <1>0, Tables
  <2>1. chan' = chan \/ chan' = [chan EXCEPT ![e][s] = "closed"]
    BY DEF WriteChunk, WriteEnds
  <2>2. rx' = rx \/ rx' = [rx EXCEPT ![e][s] = Tail(rx[e][s])] \/ rx' = [rx EXCEPT ![e][s] = <<>>]
    BY DEF WriteChunk, WriteEnds
  <2>3. got' = got \/ got' = [got EXCEPT ![e][s] = Append(got[e][s], Head(rx[e][s]))]
    BY DEF WriteChunk, WriteEnds, traffic
  <2>4. \A o \in End, x \in Stream : o # e \/ x # s => chan'[o][x] = chan[o][x]
    <3>1. chan' = chan \/ Sets(chan, chan', e, s, "closed")
      BY <1>0, <2>1, SetsAt
    <3> QED BY <3>1 DEF Sets
  <2>5. \A o \in End, x \in Stream : o # e \/ x # s => rx'[o][x] = rx[o][x]
    <3>1. rx' = rx \/ Sets(rx, rx', e, s, Tail(rx[e][s])) \/ Sets(rx, rx', e, s, <<>>)
      BY <1>0, <2>2, SetsAt
    <3> QED BY <3>1 DEF Sets
  <2>6. \A o \in End, x \in Stream : o # e \/ x # s => got'[o][x] = got[o][x]
    <3>1. got' = got \/ Sets(got, got', e, s, Append(got[e][s], Head(rx[e][s])))
      BY <1>0, <2>3, SetsAt
    <3> QED BY <3>1 DEF Sets
  <2>7. got'[e][s] = got[e][s] \/ got'[e][s] # <<>>
    <3>1. CASE got' = [got EXCEPT ![e][s] = Append(got[e][s], Head(rx[e][s]))]
      <4>1. got'[e][s] = Append(got[e][s], Head(rx[e][s])) /\ got[e][s] \in Seq(Nat)
        BY <2>0, <3>1
      <4> QED BY <4>1
    <3> QED BY <2>3, <3>1
  <2>8. chan'[e][s] = "writing" \/ (chan'[e][s] = "closed" /\ rx'[e][s] = <<>>)
    BY <1>0, <2>0 DEF WriteChunk, WriteEnds
  <2> QED BY <2>4, <2>5, <2>6, <2>7, <2>8
<1>2. \A x \in Stream : StageAt(x)'
  BY <1>0, <1>1 DEF StageAt
<1>3. RefusedInv'
  BY <1>0 DEF RefusedInv, Transit
<1>4. IdleInv'
  <2>1. \A o \in End, x \in Stream : chan'[o][x] = "closed" => rx'[o][x] = <<>>
    BY <1>0, <1>1 DEF IdleInv
  <2>2. \A x \in Stream \ (Connect \cup Impatient) : sent'["server"][x] = 0 \/ got'["server"][x] # <<>>
    BY <1>0, <1>1 DEF IdleInv
  <2> QED BY <2>1, <2>2 DEF IdleInv
<1>5. ASSUME NEW x \in Stream PROVE AwaitedAt(x)'
  <2>1. pc["client"][x] = "wait" => rx'["client"][x] = rx["client"][x]
    <3>1. e = "client" => pc["client"][s] # "wait"
      BY <1>0 DEF ClientOpenAt
    <3> QED BY <1>1, <3>1
  <2> QED BY <1>0, <2>1 DEF AwaitedAt, Unread
<1> QED BY <1>2, <1>3, <1>4, <1>5 DEF WaitParts

\* The loops that end take the link down with them or find it down.
LEMMA SinkWaits ==
  ASSUME WaitInv, NEW e \in End, Sink(e), IndInv' PROVE WaitParts'
<1> USE EndType, Others
<1>0. /\ TypeOK /\ OrderInv
      /\ UNCHANGED <<pc, chan, sent, got, rx, held, ack, pending, link>>
  BY DEF WaitInv, TunnelInv, IndInv, Sink, Transmit, SinkStops, SinkDrops, streams, opening,
    traffic
<1>1. CASE Transmit(e)
  BY <1>0, <1>1, TransmitCarry, UnreadTransmit, CalmWaits
<1>2. CASE SinkStops(e) \/ SinkDrops(e)
  <2>1. Transit("server")' \subseteq Transit("server")
    BY <1>0, <1>2, DropCarry DEF SinkStops, SinkDrops
  <2>2. link' = "down"
    <3>1. sink'[e] # "on"
      BY <1>0, <1>2 DEF SinkStops, SinkDrops, TypeOK, SessionOK
    <3> QED BY <3>1 DEF IndInv, DownInv
  <2> QED BY <1>0, <2>1, <2>2, CalmWaits
<1> QED BY <1>1, <1>2 DEF Sink

\* Nothing of a stream somebody waits for arrives before its OPEN_ACK.
LEMMA AckFirst ==
  ASSUME WaitInv, NEW e \in End, Receive(e, "DATA"), link # "down",
         NEW x \in pending, pc["client"][x] = "wait", e = "client"
  PROVE  Arriving(e).id # x
<1> USE EndType, Others
<1> DEFINE f == Arriving("client")
<1>0. TypeOK /\ OrderInv /\ x \in Stream /\ AwaitedAt(x) /\ ServerOpenAt(x)
  <2>1. x \in Stream
    BY DEF WaitInv, TunnelInv, IndInv, TypeOK, OpeningOK
  <2> QED BY <2>1 DEF WaitInv, TunnelInv, IndInv, OpenInv
<1>1. /\ wire["server"] # <<>> /\ f = Head(wire["server"]) /\ f.type = "DATA"
      /\ wire["server"] \in Seq(Frame) /\ Sorted(wire["server"])
      /\ Before(wire["server"], frames["server"])
  BY <1>0, QueueType DEF Receive, CanReceive, Arriving, OrderInv
<1>2. /\ f \in Items(wire["server"]) /\ Items(wire["server"]) = {f} \cup Items(Tail(wire["server"]))
      /\ \A g \in Items(Tail(wire["server"])) : Follows(f, g)
  BY <1>1, ItemsTail, SortedTail
<1> HIDE DEF f
<1>3. \A g \in Unread("server") : g # f => Follows(f, g)
  BY <1>1, <1>2 DEF Unread, Before
<1>4. SUFFICES ASSUME f.id = x PROVE FALSE
  BY DEF f
<1>5. f.arg \in 1..sent["server"][x]
  BY <1>1, <1>2, <1>4 DEF WaitInv, TunnelInv, IndInv, SentInv, Transit
<1>6. sent["server"][x] # 0
  BY <1>5
<1>7. pc["server"][x] # "start"
  BY <1>0, <1>6 DEF ServerOpenAt
<1>8. PICK g \in Unread("server") : g.id = x /\ g.type = "OPEN_ACK"
  BY <1>0, <1>7 DEF AwaitedAt
<1> QED BY <1>1, <1>3, <1>4, <1>8 DEF Follows

\* A chunk arrives, or the reader gets rid of the one it held.
LEMMA DataWaits ==
  ASSUME WaitInv, NEW e \in End, ReceiveData(e) \/ Route(e) PROVE WaitParts'
<1> USE EndType, Others
<1>0. /\ TypeOK /\ OrderInv /\ \A x \in Stream : AwaitedAt(x)
      /\ UNCHANGED <<pc, chan, sent, got, ack, pending, link>>
  BY DEF WaitInv, TunnelInv, IndInv, ReceiveData, Route, opening, traffic
<1>1. CASE ReceiveData(e)
  <2> DEFINE f == Arriving(e)
  <2>1. /\ Receive(e, "DATA") /\ frames' = frames /\ (UNCHANGED held \/ Hold(e, f))
        /\ rx' = rx \/ (chan[e][f.id] # "closed" /\ rx' = [rx EXCEPT ![e][f.id] = Append(@, f.arg)])
    BY <1>1 DEF ReceiveData
  <2>2. f.id \in Stream
    BY <1>0, <2>1, ReceiveType DEF Frame
  <2>3. rx' = rx \/ (chan[e][f.id] # "closed" /\ Sets(rx, rx', e, f.id, Append(rx[e][f.id], f.arg)))
    BY <1>0, <2>1, <2>2, SetsAt
  <2>4. /\ \A o \in End : Transit(o)' \subseteq Transit(o)
        /\ Items(held'[e]) \subseteq {f} /\ held'[Other(e)] = held[Other(e)]
    BY <1>0, <2>1, ReceiveCarry
  <2>5. \A g \in Unread("server") : g.type = "OPEN_ACK" => g \in Unread("server")'
    <3>1. /\ Unread(e)' = Unread(e) /\ Unread(Other(e)) = Unread(Other(e))' \cup {f}
          /\ f.type = "DATA"
      BY <1>0, <2>1, UnreadReceive
    <3> QED BY <3>1 DEF End
  <2>6. link # "down" => \A x \in pending : pc["client"][x] = "wait" /\ e = "client" => f.id # x
    BY <2>1, AckFirst
  <2> HIDE DEF f
  <2>7. \A o \in End, x \in Stream : chan[o][x] = "closed" => rx'[o][x] = rx[o][x]
    BY <2>3 DEF Sets
  <2>8. link # "down" => \A x \in pending : pc["client"][x] = "wait" =>
          /\ rx'["client"][x] = rx["client"][x]
          /\ \A g \in Items(held'["client"]) : g.id = x => g \in Items(held["client"])
    <3>1. pending \subseteq Stream
      BY <1>0 DEF TypeOK, OpeningOK
    <3>2. CASE e = "client"
      BY <2>3, <2>4, <2>6, <3>1, <3>2 DEF Sets
    <3>3. CASE e = "server"
      BY <2>3, <2>4, <3>1, <3>3 DEF Sets
    <3> QED BY <3>2, <3>3 DEF End
  <2> QED BY <1>0, <2>4, <2>5, <2>7, <2>8, CalmWaits
<1>2. CASE Route(e)
  <2>1. PICK s \in Stream, f \in Frame :
          s = HeldId(e) /\ f = Head(held[e]) /\ Items(held[e]) = {f} /\ f.id = s
    BY <1>0, <1>2, HeldItem DEF Route
  <2>2. rx' = rx \/ (chan[e][s] # "closed" /\ rx' = [rx EXCEPT ![e][s] = Append(rx[e][s], f.arg)])
    BY <1>2, <2>1 DEF Route
  <2>3. rx' = rx \/ (chan[e][s] # "closed" /\ Sets(rx, rx', e, s, Append(rx[e][s], f.arg)))
    BY <1>0, <2>2, SetsAt
  <2>4. /\ \A o \in End : Transit(o)' \subseteq Transit(o)
        /\ Items(held'[e]) = {} /\ held'[Other(e)] = held[Other(e)]
    BY <1>0, <1>2, ReleaseCarry DEF Route
  <2>5. Unread("server")' = Unread("server")
    BY <1>2 DEF Route, Unread
  <2>6. \A o \in End, x \in Stream : chan[o][x] = "closed" => rx'[o][x] = rx[o][x]
    BY <2>3 DEF Sets
  <2>7. link # "down" => \A x \in pending : pc["client"][x] = "wait" =>
          /\ rx'["client"][x] = rx["client"][x]
          /\ \A g \in Items(held'["client"]) : g.id = x => g \in Items(held["client"])
    <3>1. pending \subseteq Stream
      BY <1>0 DEF TypeOK, OpeningOK
    <3>2. link # "down" => \A x \in pending : pc["client"][x] = "wait" /\ e = "client" => s # x
      BY <1>0, <2>1, <3>1 DEF AwaitedAt
    <3>3. CASE e = "client"
      BY <2>3, <2>4, <3>1, <3>2, <3>3 DEF Sets
    <3>4. CASE e = "server"
      BY <2>3, <2>4, <3>1, <3>4 DEF Sets
    <3> QED BY <3>3, <3>4 DEF End
  <2> QED BY <1>0, <2>4, <2>5, <2>6, <2>7, CalmWaits
<1> QED BY <1>1, <1>2

\* The other frames, the keeper, the peers and the link: an OPEN_ACK is taken
\* off the wire only together with the wait for it.
LEMMA LoopWaits ==
  ASSUME WaitInv,
         \/ \E e \in End : ReceiveClose(e) \/ ReaderStops(e)
         \/ ReceiveAck \/ DropAcks \/ ReceiveOpen \/ ConnectRefused \/ Keeper \/ LinkFails
         \/ \E e \in End, s \in Stream : PeerLeaves(e, s)
         \/ UNCHANGED vars
  PROVE  WaitParts'
<1> USE EndType, Others
<1>0. TypeOK /\ OrderInv /\ RefusedInv /\ (link' # "down" => link # "down")
  BY DEF WaitInv, TunnelInv, IndInv, ReceiveClose, ReaderStops, ReceiveAck, DropAcks,
    ReceiveOpen, ConnectRefused, Keeper, KeeperTakes, KeeperCloses, LinkFails, PeerLeaves,
    vars, session
<1>1. UNCHANGED <<pc, chan, sent, got, rx>> /\ pending' \subseteq pending
  BY DEF ReceiveClose, ReaderStops, ReceiveAck, DropAcks, ReceiveOpen, ConnectRefused, Keeper,
    KeeperTakes, KeeperCloses, LinkFails, PeerLeaves, vars, streams, opening, traffic
<1>2. ASSUME UNCHANGED <<wire, frames, ack>>, held'["client"] = held["client"] PROVE WaitParts'
  BY <1>0, <1>1, <1>2, CalmWaits DEF Unread, Transit
<1>3. ASSUME NEW e \in End, NEW type, Receive(e, type), UNCHANGED <<frames, ack>>,
             type # "OPEN_ACK", UNCHANGED held \/ (e = "server" /\ Hold(e, Arriving(e)))
      PROVE  WaitParts'
  <2>1. Transit("server")' \subseteq Transit("server")
    BY <1>0, <1>3, ReceiveCarry
  <2>2. held'["client"] = held["client"]
    BY <1>0, <1>3 DEF Hold, TypeOK, SessionOK
  <2>3. \A g \in Unread("server") : g.type = "OPEN_ACK" => g \in Unread("server")'
    <3>1. /\ Unread(e)' = Unread(e) /\ Unread(Other(e)) = Unread(Other(e))' \cup {Arriving(e)}
          /\ Arriving(e).type = type
      BY <1>0, <1>3, UnreadReceive
    <3> QED BY <1>3, <3>1 DEF End
  <2> QED BY <1>0, <1>1, <1>3, <2>1, <2>2, <2>3, CalmWaits
<1>4. CASE ReceiveAck
  <2> DEFINE f == Arriving("client")
  <2>1. Receive("client", "OPEN_ACK") /\ UNCHANGED <<frames, held>> /\ pending' = pending \ {f.id}
    BY <1>4 DEF ReceiveAck
  <2>2. Transit("server")' \subseteq Transit("server") /\ f \in Transit("server")
    BY <1>0, <2>1, ReceiveCarry
  <2>3. Unread("server") = Unread("server")' \cup {f}
    BY <1>0, <2>1, UnreadReceive
  <2>4. \A x \in Stream : ack'[x] = "ok" => ack[x] = "ok" \/ pc["server"][x] # "start"
    <3>1. f.id \in Stream
      BY <1>0, <2>2, TransitType
    <3>2. \A x \in Stream : ack'[x] = "ok" => ack[x] = "ok" \/ (x = f.id /\ f.arg = 0)
      BY <1>0, <1>4, <3>1, Tables DEF ReceiveAck
    <3> HIDE DEF f
    <3> QED BY <1>0, <2>2, <3>2 DEF RefusedInv
  <2> HIDE DEF f
  <2> QED BY <1>0, <1>1, <2>1, <2>2, <2>3, <2>4, CalmWaits
<1>5. CASE ConnectRefused
  <2>1. held'["client"] = held["client"]
    BY <1>0, <1>5 DEF ConnectRefused, Hold, TypeOK, SessionOK
  <2> QED BY <1>2, <1>5, <2>1 DEF ConnectRefused, opening
<1>6. ASSUME NEW e \in End, ReceiveClose(e) PROVE WaitParts'
  BY <1>3, <1>6 DEF ReceiveClose, opening
<1>7. CASE ReceiveOpen
  BY <1>3, <1>7 DEF ReceiveOpen, opening
<1>8. CASE \/ \E e \in End : ReaderStops(e)
           \/ DropAcks \/ Keeper \/ LinkFails \/ UNCHANGED vars
           \/ \E e \in End, s \in Stream : PeerLeaves(e, s)
  <2>1. UNCHANGED <<wire, frames, ack, held>>
    BY <1>8 DEF ReaderStops, DropAcks, Keeper, KeeperTakes, KeeperCloses, LinkFails, PeerLeaves,
      vars, session, opening
  <2> QED BY <1>2, <2>1
<1> QED BY <1>4, <1>5, <1>6, <1>7, <1>8

\* The server connects: its tasks have not started.
LEMMA ConnectWaits ==
  ASSUME WaitInv, ConnectOk PROVE WaitParts'
<1> USE EndType, Others
<1>0. /\ TunnelInv /\ TypeOK /\ OrderInv /\ RefusedInv /\ IdleInv
      /\ \A x \in Stream : StageAt(x) /\ AwaitedAt(x)
      /\ Holds("server", "OPEN")
      /\ UNCHANGED <<pc, sent, got, rx, ack, reply, pending, link, wire, frames>>
  BY DEF WaitInv, TunnelInv, IndInv, ConnectOk, opening, traffic
<1>1. PICK s \in Stream, f \in Frame :
        /\ s = HeldId("server") /\ f = Head(held["server"]) /\ f \in Transit("client")
        /\ f.id = s /\ f.type = "OPEN"
  BY <1>0, HeldItem
<1>2. pc["server"][s] = "start"
  BY <1>0, <1>1 DEF TunnelInv, IndInv, ClientInv, Fresh
<1>3. Sets(chan, chan', "server", s, "waiting")
  BY <1>0, <1>1, SetsAt DEF ConnectOk
<1>4. held'["client"] = held["client"]
  BY <1>0 DEF ConnectOk, Hold, TypeOK, SessionOK
<1>5. \A x \in Stream : StageAt(x)'
  BY <1>0, <1>2, <1>3 DEF StageAt, Sets
<1>6. RefusedInv' /\ IdleInv'
  BY <1>0, <1>3, <1>4 DEF RefusedInv, IdleInv, Transit, Sets
<1>7. \A x \in Stream : AwaitedAt(x)'
  BY <1>0, <1>4 DEF AwaitedAt, Unread
<1> QED BY <1>5, <1>6, <1>7 DEF WaitParts

\* The answer is sent before the server's tasks start.
LEMMA SendAckWaits ==
  ASSUME WaitInv, SendAck PROVE WaitParts'
<1> USE EndType, Others
<1>0. /\ TunnelInv /\ TypeOK /\ OrderInv /\ RefusedInv /\ IdleInv /\ DownInv
      /\ \A x \in Stream : StageAt(x) /\ AwaitedAt(x)
      /\ Holds("server", "OPEN_ACK")
      /\ UNCHANGED <<sent, got, rx, ack, reply, pending, link, wire>>
  BY DEF WaitInv, TunnelInv, IndInv, SendAck, opening, traffic
<1>1. PICK s \in Stream, f \in Frame :
        /\ s = HeldId("server") /\ f = Head(held["server"]) /\ f \in Items(held["server"])
        /\ Items(held["server"]) = {f} /\ f.id = s /\ f.type = "OPEN_ACK"
  BY <1>0, HeldItem
<1>2. pc["server"][s] = "start" /\ \A g \in Transit("server") : g.id # s
  BY <1>0, <1>1 DEF TunnelInv, IndInv, ServerInv
<1>3. \/ f.arg = 0 /\ Sets(pc, pc', "server", s, "relay") /\ Sets(chan, chan', "server", s, "writing")
      \/ f.arg # 0 /\ pc' = pc /\ chan' = chan
  BY <1>0, <1>1, StartRelaySets DEF SendAck
<1>4. /\ held'["client"] = held["client"]
      /\ Transit("server")' \subseteq Transit("server") \cup {f}
  BY <1>0, <1>1, AckQueues
<1>5. \/ Unread("server")' = Unread("server") \cup {f}
      \/ link = "down"
  <2>1. CASE Send("server", f)
    BY <1>0, <2>1, UnreadSend
  <2>2. CASE SendFails("server")
    BY <1>0, <2>2 DEF SendFails, DownInv
  <2> QED BY <1>1, <2>1, <2>2 DEF SendAck, SendOrIgnore
<1>6. \A x \in Stream : StageAt(x)'
  <2>1. CASE f.arg # 0 /\ pc' = pc /\ chan' = chan
    BY <1>0, <2>1 DEF StageAt
  <2>2. CASE f.arg = 0 /\ Sets(pc, pc', "server", s, "relay") /\ Sets(chan, chan', "server", s, "writing")
    BY <1>0, <2>2 DEF StageAt, Sets
  <2> QED BY <1>3, <2>1, <2>2
<1>7. RefusedInv'
  <2> SUFFICES ASSUME NEW g \in Transit("server")', pc'["server"][g.id] = "start"
               PROVE  g.type = "OPEN_ACK" /\ g.arg # 0
    BY DEF RefusedInv
  <2>1. CASE g \in Transit("server")
    <3>1. g.id \in Stream
      BY <1>0, <2>1, TransitType
    <3>2. pc["server"][g.id] = "start"
      BY <1>3, <3>1 DEF Sets
    <3> QED BY <1>0, <2>1, <3>2 DEF RefusedInv
  <2>2. CASE g = f
    <3>1. pc'["server"][s] = "start"
      BY <1>1, <2>2
    <3>2. f.arg # 0
      BY <1>3, <3>1 DEF Sets
    <3> QED BY <1>1, <2>2, <3>2
  <2> QED BY <1>4, <2>1, <2>2
<1>8. IdleInv'
  <2>1. \A e \in End, x \in Stream : chan'[e][x] = "closed" => chan[e][x] = "closed"
    BY <1>3 DEF Sets
  <2> QED BY <1>0, <2>1 DEF IdleInv
<1>9. ASSUME NEW x \in Stream PROVE AwaitedAt(x)'
  <2>1. pc'["client"][x] = pc["client"][x] /\ (x # s => pc'["server"][x] = pc["server"][x])
    BY <1>3 DEF Sets
  <2>2. CASE link = "down"
    BY <1>0, <2>2 DEF AwaitedAt
  <2>3. CASE link # "down"
    <3>1. Unread("server")' = Unread("server") \cup {f}
      BY <1>5, <2>3
    <3> QED BY <1>0, <1>1, <1>4, <2>1, <2>3, <3>1 DEF AwaitedAt
  <2> QED BY <2>2, <2>3
<1> QED BY <1>6, <1>7, <1>8, <1>9 DEF WaitParts

\* Every step keeps the invariant.
LEMMA WaitKeeps == WaitInv /\ [Next]_vars => WaitInv'
<1> SUFFICES ASSUME WaitInv, [Next]_vars PROVE WaitInv'
  OBVIOUS
<1>1. TunnelInv /\ TunnelInv' /\ IndInv'
  BY TunnelKeeps DEF WaitInv, TunnelInv
<1>2. DirInv'
  <2>1. CASE Next
    BY <1>1, <2>1, DirKeeps DEF WaitInv
  <2>2. CASE UNCHANGED vars
    BY <2>2, DirQuiet DEF WaitInv, Unread, vars, session
  <2> QED BY <2>1, <2>2
<1>3. WaitParts'
  <2>1. ASSUME NEW s \in Stream, Handler(s) PROVE WaitParts'
    BY <2>1, HandlerWaits
  <2>2. ASSUME NEW e \in End, NEW s \in Stream, Relay(e, s) PROVE WaitParts'
    BY <2>2, PumpWaits, WriteWaits DEF Relay
  <2>3. ASSUME NEW e \in End, Sink(e) PROVE WaitParts'
    BY <1>1, <2>3, SinkWaits
  <2>4. ASSUME NEW e \in End, Reader(e) PROVE WaitParts'
    BY <2>4, LoopWaits, DataWaits, ConnectWaits, SendAckWaits DEF Reader
  <2>5. CASE Keeper \/ UNCHANGED vars
    BY <2>5, LoopWaits
  <2>6. CASE Environment
    BY <2>6, PumpWaits, LoopWaits DEF Environment
  <2> QED BY <2>1, <2>2, <2>3, <2>4, <2>5, <2>6 DEF Next, Tasks
<1> QED BY <1>1, <1>2, <1>3 DEF WaitInv, WaitParts

\* The invariant holds at the start.
LEMMA InitWait == Init => WaitInv
<1> SUFFICES ASSUME Init PROVE WaitInv
  OBVIOUS
<1>1. TunnelInv
  BY InitTunnel
<1>2. \A o \in End : Unread(o) = {} /\ Transit(o) = {} /\ Items(held[o]) = {}
  BY EndType, ItemsFew DEF Init, Unread, Transit
<1>3. DirInv /\ RefusedInv
  BY <1>2, EndType DEF DirInv, RefusedInv
<1>4. IdleInv
  BY EndType DEF Init, IdleInv
<1>5. \A s \in Stream : StageAt(s) /\ AwaitedAt(s)
  BY EndType DEF Init, StageAt, AwaitedAt
<1> QED BY <1>1, <1>3, <1>4, <1>5 DEF WaitInv

-----------------------------------------------------------------------------
(* Everyone waits for everyone in one way only.                            *)

\* Plain HTTP puts the request into the frame channel before write_task exists.
\* The handler of s waits there while the channel is full, and the reader waits
\* for room in the data channel of s, which nobody empties.
RequestBehindData(s) ==
  /\ pc["client"][s] = "reply" /\ ~CanSend("client")
  /\ Holds("client", "DATA") /\ HeldId("client") = s

\* While the link is up the loops run.
LEMMA LoopsRun ==
  ASSUME WaitInv, link = "up"
  PROVE  \A e \in End : sink[e] = "on" /\ reader[e] = "on"
BY DEF WaitInv, TunnelInv, IndInv, DownInv

\* Behind a reader that waits for nothing nothing waits.
LEMMA NothingBehind ==
  ASSUME WaitInv, link = "up", ~CanMove, NEW e \in End, held[e] = <<>>
  PROVE  wire[Other(e)] = <<>> /\ frames[Other(e)] = <<>>
<1> USE EndType, Others
<1> DEFINE o == Other(e)
<1>0. TypeOK /\ DirInv /\ o \in End /\ Other(o) = e
  BY DEF WaitInv, TunnelInv, IndInv
<1>1. wire[o] = <<>>
  <2> SUFFICES ASSUME wire[o] # <<>> PROVE FALSE
    OBVIOUS
  <2>1. Arriving(e) \in Items(wire[o])
    BY <1>0, QueueType, ItemsTail DEF Arriving
  <2>2. Arriving(e).type \in Expected(e)
    BY <1>0, <2>1 DEF DirInv, Unread
  <2>3. CanReceive(e, Arriving(e).type)
    BY LoopsRun DEF CanReceive
  <2> QED BY <2>2, <2>3 DEF CanMove
<1>2. frames[o] = <<>>
  <2> SUFFICES ASSUME frames[o] # <<>> PROVE FALSE
    OBVIOUS
  <2>1. Len(wire[o]) < WireCap
    <3>1. Len(wire[o]) = 0
      BY <1>1
    <3> QED BY <3>1, CapAssumption
  <2>2. CanTransmit(o)
    BY <1>0, <2>1, LoopsRun DEF CanTransmit
  <2> QED BY <1>0, <2>2 DEF CanMove
<1> QED BY <1>1, <1>2

\* A data channel that is not empty and that nobody empties has no write_task
\* yet, so the handler of the stream waits to send the request.
LEMMA StuckData ==
  ASSUME WaitInv, link = "up", ~CanMove, NEW e \in End, NEW s \in Stream, rx[e][s] # <<>>
  PROVE  /\ e = "client" /\ pc["client"][s] = "reply"
         /\ s \notin Connect /\ ~CanSend("client")
<1> USE EndType, Others
<1>0. /\ TunnelInv /\ TypeOK /\ StageAt(s) /\ AwaitedAt(s) /\ ChanAt(e, s) /\ IdleInv
  BY DEF WaitInv, TunnelInv, IndInv, FlowInv, FlowAt
<1>1. chan[e][s] = "waiting"
  <2>1. chan[e][s] \in ChanState
    BY <1>0, Tables
  <2>2. chan[e][s] # "writing"
    BY DEF CanMove, CanWrite
  <2>3. chan[e][s] # "none" /\ chan[e][s] # "closed"
    BY <1>0 DEF ChanAt, IdleInv
  <2> QED BY <2>1, <2>2, <2>3 DEF ChanState
<1>2. e = "client"
  <2> SUFFICES ASSUME e = "server" PROVE FALSE
    BY DEF End
  <2>1. sent["client"][s] = 0
    BY <1>0, <1>1 DEF StageAt
  <2> QED BY <1>0, <2>1, NothingSent
<1>3. pc["client"][s] \in {"insert", "open", "wait", "reply"} /\ pc["server"][s] # "start"
  BY <1>0, <1>1, <1>2, NothingYet DEF StageAt
<1>4. pc["client"][s] \notin {"insert", "open"}
  BY <1>0, <1>3 DEF TunnelInv, IndInv, ServerInv, Opening, Fresh
<1>5. pc["client"][s] # "wait"
  <2> SUFFICES ASSUME pc["client"][s] = "wait" PROVE FALSE
    OBVIOUS
  <2>1. s \in pending
    BY DEF CanMove
  <2> QED BY <1>0, <1>2, <2>1 DEF AwaitedAt
<1>6. pc["client"][s] = "reply"
  BY <1>3, <1>4, <1>5
<1> QED BY <1>2, <1>6 DEF CanMove

\* The client's reader is stuck with a chunk only behind an impatient upstream.
LEMMA StuckClient ==
  ASSUME WaitInv, link = "up", ~CanMove, held["client"] # <<>>
  PROVE  \E s \in Impatient : RequestBehindData(s)
<1> USE EndType, Others
<1>0. TunnelInv /\ TypeOK /\ DirInv /\ IdleInv
  BY DEF WaitInv, TunnelInv, IndInv
<1>1. Holds("client", "DATA")
  <2>1. Head(held["client"]) \in Items(held["client"])
    BY <1>0, QueueType, ItemsTail
  <2> QED BY <1>0, <2>1 DEF DirInv, Holds
<1>2. PICK s \in Stream : s = HeldId("client")
  BY <1>0, <1>1, HeldItem
<1>3. rx["client"][s] # <<>>
  <2>1. ~(Len(rx["client"][s]) < DataCap)
    BY <1>1, <1>2 DEF CanMove
  <2>2. Len(<<>>) < DataCap
    BY CapAssumption
  <2> QED BY <2>1, <2>2
<1>4. pc["client"][s] = "reply" /\ s \notin Connect /\ ~CanSend("client")
  BY <1>3, StuckData
<1>5. sent["client"][s] = 0
  BY <1>0, <1>4 DEF TunnelInv, IndInv, SentInv, Early
<1>6. got["server"][s] = <<>> /\ sent["server"][s] # 0
  BY <1>0, <1>3, <1>5, NothingSent
<1>7. s \in Impatient
  BY <1>0, <1>4, <1>6 DEF IdleInv
<1> QED BY <1>1, <1>2, <1>4, <1>7 DEF RequestBehindData

\* With nothing before the client, the server's reader is not stuck either.
LEMMA FreeServer ==
  ASSUME WaitInv, link = "up", ~CanMove, held["client"] = <<>>
  PROVE  held["server"] = <<>>
<1> USE EndType, Others
<1> SUFFICES ASSUME held["server"] # <<>> PROVE FALSE
  OBVIOUS
<1>0. TunnelInv /\ TypeOK /\ DirInv
  BY DEF WaitInv, TunnelInv, IndInv
<1>1. PICK f \in Frame : f = Head(held["server"]) /\ f \in Items(held["server"])
  BY <1>0, QueueType, ItemsTail
<1>2. f.type \in {"OPEN", "OPEN_ACK", "DATA"}
  BY <1>0, <1>1 DEF DirInv, Frame
<1>3. f.type # "OPEN"
  BY <1>1 DEF CanMove, Holds
<1>4. f.type # "OPEN_ACK"
  <2>1. frames["server"] = <<>>
    BY NothingBehind
  <2>2. Len(frames["server"]) < FrameCap
    <3>1. Len(frames["server"]) = 0
      BY <2>1
    <3> QED BY <3>1, CapAssumption
  <2>3. CanSend("server")
    BY <2>2, LoopsRun DEF CanSend
  <2> QED BY <1>1, <2>3 DEF CanMove, Holds
<1>5. Holds("server", "DATA")
  BY <1>1, <1>2, <1>3, <1>4 DEF Holds
<1>6. PICK s \in Stream : s = HeldId("server")
  BY <1>0, <1>5, HeldItem
<1>7. rx["server"][s] # <<>>
  <2>1. ~(Len(rx["server"][s]) < DataCap)
    BY <1>5, <1>6 DEF CanMove
  <2>2. Len(<<>>) < DataCap
    BY CapAssumption
  <2> QED BY <2>1, <2>2
<1> QED BY <1>7, StuckData

\* Everyone waits for everyone only behind an impatient upstream.
LEMMA WaitCases ==
  ASSUME WaitInv, link = "up", OnTheWay
  PROVE  CanMove \/ \E s \in Impatient : RequestBehindData(s)
<1> USE EndType, Others
<1> SUFFICES ASSUME ~CanMove, held["client"] = <<>> PROVE FALSE
  BY StuckClient
<1>1. held["server"] = <<>>
  BY FreeServer
<1>2. \A e \in End : held[e] = <<>> /\ wire[e] = <<>> /\ frames[e] = <<>>
  BY <1>1, NothingBehind DEF End
<1>3. PICK e \in End, s \in Stream : rx[e][s] # <<>>
  BY <1>2 DEF OnTheWay
<1>4. ~CanSend("client")
  BY <1>3, StuckData
<1>5. Len(frames["client"]) < FrameCap
  <2>1. Len(frames["client"]) = 0
    BY <1>2
  <2> QED BY <2>1, CapAssumption
<1> QED BY <1>4, <1>5, LoopsRun DEF CanSend

\* The only circular wait.  As long as the link is up and anything is on the
\* way, some task can move, except that an upstream which sends before it gets
\* the plain request can fill its data channel while the request waits for
\* room in the frame channel.  No backpressure of frame and data channels, no
\* writer, reader, relay or opening in any other combination closes a circle,
\* whatever their capacities and however many streams share the session.
THEOREM OneCircularWait ==
  Spec => [](link = "up" /\ OnTheWay => CanMove \/ \E s \in Impatient : RequestBehindData(s))
<1>1. WaitInv => (link = "up" /\ OnTheWay => CanMove \/ \E s \in Impatient : RequestBehindData(s))
  BY WaitCases
<1> QED BY <1>1, InitWait, WaitKeeps, PTL DEF Spec

\* So everyone never waits for everyone if every upstream of a plain request
\* waits for it.
THEOREM NeverCircularWait == Impatient = {} => (Spec => []NoCircularWait)
<1> SUFFICES ASSUME Impatient = {} PROVE Spec => []NoCircularWait
  OBVIOUS
<1>1. WaitInv => NoCircularWait
  BY WaitCases DEF NoCircularWait
<1> QED BY <1>1, InitWait, WaitKeeps, PTL DEF Spec
=============================================================================
