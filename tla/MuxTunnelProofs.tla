--------------------------- MODULE MuxTunnelProofs ---------------------------
(***************************************************************************)
(* The session keeps the tunnel's promise: InOrder, CloseFlushes and the   *)
(* refinement of Tunnel, for any number of streams and chunks, any         *)
(* capacities, both clients and any link faults.                           *)
(*                                                                         *)
(* IndInv of MuxSessionProofs says where the frames of a stream can be and *)
(* in which order.  The invariants below are inductive relative to it:     *)
(* they say what the two ends know of each other when a stream opens, and  *)
(* which chunks are between the pump of one end and write_task of the      *)
(* other.                                                                  *)
(***************************************************************************)
EXTENDS MuxSessionProofs

-----------------------------------------------------------------------------
(* The invariants.                                                         *)

\* What the handler of s has told the application, and the state of the data
\* channel it registered.
ClientOpenAt(s) ==
  /\ pc["client"][s] \in {"start", "register"} => chan["client"][s] = "none"
  /\ pc["client"][s] \in {"insert", "open", "wait", "reply"} => chan["client"][s] = "waiting"
  /\ pc["client"][s] \in Early => reply[s] = "none" /\ got["client"][s] = <<>>
  /\ pc["client"][s] \in {"relay", "closing"} \/ chan["client"][s] = "writing"
       => reply[s] = (IF s \in Connect THEN "ok" ELSE "none")

\* Whatever tells the client of success, or depends on it, comes after the
\* server connected; an OPEN is sent once, before that.
ServerOpenAt(s) ==
  /\ \/ ack[s] = "ok" \/ pc["client"][s] \in {"reply", "relay", "closing"}
     \/ chan["client"][s] = "writing" \/ sent["client"][s] # 0
     \/ pc["server"][s] # "start"
     => chan["server"][s] # "none"
  /\ pc["client"][s] \in Opening => chan["server"][s] = "none"
  /\ pc["server"][s] = "start" =>
       chan["server"][s] \in {"none", "waiting"} /\ sent["server"][s] = 0
AnswerInv ==
  /\ \A f \in Transit("client") : f.type = "OPEN" => chan["server"][f.id] = "none"
  /\ \A f \in Transit("server") \cup Items(held["server"]) :
       f.type = "OPEN_ACK" /\ f.arg = 0 => chan["server"][f.id] # "none"

OpenInv ==
  /\ \A s \in Stream : ClientOpenAt(s) /\ ServerOpenAt(s)
  /\ AnswerInv

\* The DATA frames in a sequence.
DataIn(q) == {f \in Items(q) : f.type = "DATA"}

\* A data channel exists before anything is routed to it; write_task of a
\* registered stream ends only because the peer takes no more.
ChanAt(e, s) ==
  /\ chan[e][s] = "none" => s \notin registry[e] /\ got[e][s] = <<>> /\ rx[e][s] = <<>>
  /\ s \in registry[e] /\ chan[e][s] = "closed" => peer[e][s] = "reset"
  /\ \A f \in DataIn(held[e]) : f.id = s => chan[e][s] # "none"

\* The DATA frames of end o that can still reach the other end: those in the
\* frame channel are lost once the writer loop has ended.  Flying are the
\* chunks of s among them.
Live(o) ==
  DataIn(held[Other(o)]) \cup DataIn(wire[o])
    \cup (IF sink[o] = "on" THEN DataIn(frames[o]) ELSE {})
Flying(o, s) == {f.arg : f \in {g \in Live(o) : g.id = s}}

\* The number of chunks of s that have reached its data channel at e.
Accepted(e, s) == Len(got[e][s]) + Len(rx[e][s])

\* The peer has got the first of them, and the data channel has the next ones.
Numbered(e, s) ==
  /\ \A i \in 1..Len(got[e][s]) : got[e][s][i] = i
  /\ \A i \in 1..Len(rx[e][s]) : rx[e][s][i] = Len(got[e][s]) + i

\* The reader may hold the next chunk, and as long as the stream is registered
\* the chunks that can still arrive continue without a gap, up to the last one
\* sent if the writer loop at the other end has lost none.
ChunkAt(e, s) ==
  LET o == Other(e)  n == Accepted(e, s) IN
  /\ Numbered(e, s)
  /\ n <= sent[o][s]
  /\ chan[e][s] # "closed" => \A f \in DataIn(held[e]) : f.id = s => f.arg = n + 1
  /\ s \in registry[e] /\ chan[e][s] # "closed" =>
       /\ \A k \in Flying(o, s) : k > n /\ (n + 1)..k \subseteq Flying(o, s)
       /\ sink[o] = "on" => (n + 1)..sent[o][s] \subseteq Flying(o, s)

\* A stream is taken out of the registry under a running task only by the
\* CLOSE of the other end, behind its last chunk, unless the link is down.
FlushAt(e, s) ==
  /\ chan[e][s] # "none" /\ pc[e][s] # "done" /\ s \notin registry[e] /\ link # "down"
  => /\ pc[Other(e)][s] = "done"
     /\ IF chan[e][s] = "closed"
        THEN peer[e][s] = "reset" \/ Len(got[e][s]) = sent[Other(e)][s]
        ELSE Accepted(e, s) = sent[Other(e)][s]

FlowAt(e, s) == ChanAt(e, s) /\ ChunkAt(e, s) /\ FlushAt(e, s)
FlowInv      == \A e \in End, s \in Stream : FlowAt(e, s)

TunnelInv == IndInv /\ OpenInv /\ FlowInv

-----------------------------------------------------------------------------
(* What a step changes, stream by stream.                                  *)

\* g is f with v at one end of one stream.
Sets(f, g, e, s, v) ==
  \A o \in End, x \in Stream : g[o][x] = IF o = e /\ x = s THEN v ELSE f[o][x]

\* The variables of the streams are functions of ends and streams.
LEMMA Tables ==
  ASSUME TypeOK
  PROVE  /\ pc \in [End -> [Stream -> Step]] /\ chan \in [End -> [Stream -> ChanState]]
         /\ rx \in [End -> [Stream -> Seq(Nat)]] /\ got \in [End -> [Stream -> Seq(Nat)]]
         /\ sent \in [End -> [Stream -> Nat]] /\ peer \in [End -> [Stream -> PeerState]]
         /\ reply \in [Stream -> {"none", "ok", "err"}]
         /\ ack \in [Stream -> {"none", "ok", "failed"}]
         /\ registry \in [End -> SUBSET Stream]
BY DEF TypeOK, StreamsOK, OpeningOK, TrafficOK

\* EXCEPT changes one place of them.
LEMMA SetsAt ==
  ASSUME TypeOK, NEW e \in End, NEW s \in Stream, NEW v
  PROVE  /\ Sets(pc, [pc EXCEPT ![e][s] = v], e, s, v)
         /\ Sets(chan, [chan EXCEPT ![e][s] = v], e, s, v)
         /\ Sets(rx, [rx EXCEPT ![e][s] = v], e, s, v)
         /\ Sets(got, [got EXCEPT ![e][s] = v], e, s, v)
         /\ Sets(sent, [sent EXCEPT ![e][s] = v], e, s, v)
         /\ Sets(peer, [peer EXCEPT ![e][s] = v], e, s, v)
BY Tables DEF Sets

\* The handler returns before the relay.
LEMMA GiveUpSets ==
  ASSUME TypeOK, NEW s \in Stream, NEW r, GiveUp(s, r)
  PROVE  /\ Sets(pc, pc', "client", s, "done") /\ Sets(chan, chan', "client", s, "closed")
         /\ Sets(rx, rx', "client", s, <<>>)
         /\ \A x \in Stream : reply'[x] = IF x = s THEN r ELSE reply[x]
         /\ registry'["client"] = registry["client"] \ {s}
         /\ registry'["server"] = registry["server"]
<1> USE EndType, Tables
<1>1. Sets(pc, pc', "client", s, "done")
  BY SetsAt DEF GiveUp
<1>2. Sets(chan, chan', "client", s, "closed")
  BY SetsAt DEF GiveUp
<1>3. Sets(rx, rx', "client", s, <<>>)
  BY SetsAt DEF GiveUp
<1> QED BY <1>1, <1>2, <1>3, Others DEF GiveUp, Unregistered

\* The relay tasks start.
LEMMA StartRelaySets ==
  ASSUME TypeOK, NEW e \in End, NEW s \in Stream, StartRelay(e, s)
  PROVE  Sets(pc, pc', e, s, "relay") /\ Sets(chan, chan', e, s, "writing")
<1> USE Tables
<1>1. Sets(pc, pc', e, s, "relay")
  BY SetsAt DEF StartRelay
<1>2. Sets(chan, chan', e, s, "writing")
  BY SetsAt DEF StartRelay
<1> QED BY <1>1, <1>2

-----------------------------------------------------------------------------
(* Opening a stream.                                                       *)

\* Everything about the opening of the streams other than s stays as it is.
OnlyStream(s) ==
  \A x \in Stream : x # s =>
    /\ \A e \in End : /\ pc'[e][x] = pc[e][x] /\ chan'[e][x] = chan[e][x]
                       /\ sent'[e][x] = sent[e][x]
    /\ got'["client"][x] = got["client"][x] /\ reply'[x] = reply[x] /\ ack'[x] = ack[x]

\* A step of one stream.
LEMMA OpenOne ==
  ASSUME OpenInv, NEW s \in Stream, OnlyStream(s),
         ClientOpenAt(s)', ServerOpenAt(s)', AnswerInv'
  PROVE  OpenInv'
<1>1. ASSUME NEW x \in Stream, x # s PROVE ClientOpenAt(x)' /\ ServerOpenAt(x)'
  BY <1>1, EndType DEF OnlyStream, OpenInv, ClientOpenAt, ServerOpenAt
<1> QED BY <1>1 DEF OpenInv

\* Steps that neither send OPEN or OPEN_ACK nor connect.
LEMMA AnswerSame ==
  ASSUME TypeOK, AnswerInv,
         \A f \in Transit("client")' : f.type = "OPEN" => f \in Transit("client"),
         \A f \in Transit("server")' \cup Items(held'["server"]) :
           f.type = "OPEN_ACK" => f \in Transit("server") \cup Items(held["server"]),
         \A x \in Stream : chan'["server"][x] = "none" <=> chan["server"][x] = "none"
  PROVE  AnswerInv'
<1>1. Items(held["server"]) \subseteq Transit("client")
  BY Others DEF Transit
<1>2. \A f \in Transit("client") \cup Transit("server") \cup Items(held["server"]) : f.id \in Stream
  BY <1>1, EndType, TransitType
<1> QED BY <1>2 DEF AnswerInv

\* What a handler's step leaves alone.
LEMMA HandlerOnly ==
  ASSUME NEW s \in Stream, NEW at, NEW c, UNCHANGED <<got, ack>>,
         Sets(pc, pc', "client", s, at), Sets(chan, chan', "client", s, c),
         \A x \in Stream : x # s => reply'[x] = reply[x],
         \A e \in End, x \in Stream : x # s \/ e # "client" => sent'[e][x] = sent[e][x]
  PROVE  /\ OnlyStream(s) /\ pc'["client"][s] = at /\ chan'["client"][s] = c
         /\ pc'["server"][s] = pc["server"][s] /\ sent'["server"][s] = sent["server"][s]
         /\ \A x \in Stream : chan'["server"][x] = chan["server"][x]
BY EndType DEF Sets, OnlyStream

\* The handler moves on and leaves the data channel alone.
LEMMA GotoSets ==
  ASSUME TypeOK, NEW s \in Stream, NEW at, Goto(s, at), chan' = chan
  PROVE  Sets(pc, pc', "client", s, at) /\ Sets(chan, chan', "client", s, chan["client"][s])
<1>1. Sets(pc, pc', "client", s, at)
  BY SetsAt, Tables, EndType DEF Goto
<1> QED BY <1>1 DEF Sets

\* The handler returns before the relay.
LEMMA GiveUpOpen ==
  ASSUME OpenInv, TypeOK, NEW s \in Stream, NEW r, GiveUp(s, r), UNCHANGED <<got, ack, sent>>
  PROVE  /\ OnlyStream(s) /\ ClientOpenAt(s)' /\ ServerOpenAt(s)'
         /\ \A x \in Stream : chan'["server"][x] = chan["server"][x]
<1>1. /\ Sets(pc, pc', "client", s, "done") /\ Sets(chan, chan', "client", s, "closed")
      /\ \A x \in Stream : x # s => reply'[x] = reply[x]
  BY GiveUpSets
<1>2. ClientOpenAt(s) /\ ServerOpenAt(s)
  BY DEF OpenInv
<1> QED BY <1>1, <1>2, HandlerOnly DEF ClientOpenAt, ServerOpenAt, Early, Opening

\* The steps of a handler that send nothing.
LEMMA HandlerOpen ==
  ASSUME TunnelInv, NEW s \in Stream,
         \/ Snapshot(s) \/ Register(s) \/ InsertAck(s)
         \/ AckArrives(s) \/ AckTimeout(s) \/ ReplyConnect(s)
  PROVE  OpenInv'
<1> USE EndType, Others
<1>0. /\ TypeOK /\ OpenInv /\ ClientOpenAt(s) /\ ServerOpenAt(s)
      /\ UNCHANGED <<frames, wire, held, sent, got, ack>>
  BY DEF TunnelInv, IndInv, OpenInv, Snapshot, Register, InsertAck, AckArrives, AckTimeout,
    ReplyConnect, session, opening, traffic
<1>1. /\ OnlyStream(s) /\ ClientOpenAt(s)' /\ ServerOpenAt(s)'
      /\ \A x \in Stream : chan'["server"][x] = chan["server"][x]
  <2> USE DEF ClientOpenAt, ServerOpenAt, Early, Opening
  <2>1. CASE Snapshot(s)
    <3>1. PICK at \in {"register", "done"} : Goto(s, at)
      BY <2>1 DEF Snapshot
    <3>2. /\ pc["client"][s] = "start" /\ chan' = chan
          /\ \A x \in Stream : x # s => reply'[x] = reply[x]
          /\ at = "register" => reply'[s] = reply[s]
      BY <1>0, <2>1, <3>1, Tables DEF Snapshot, Goto
    <3> QED BY <1>0, <3>1, <3>2, GotoSets, HandlerOnly
  <2>2. CASE Register(s)
    <3>1. Sets(chan, chan', "client", s, "waiting") /\ Sets(pc, pc', "client", s, "insert")
      BY <1>0, <2>2, SetsAt, Tables DEF Register, Goto
    <3>2. pc["client"][s] = "register" /\ reply' = reply
      BY <2>2 DEF Register, opening
    <3>3. /\ OnlyStream(s) /\ pc'["client"][s] = "insert" /\ chan'["client"][s] = "waiting"
          /\ pc'["server"][s] = pc["server"][s]
          /\ \A x \in Stream : chan'["server"][x] = chan["server"][x]
      BY <1>0, <3>1, <3>2, HandlerOnly
    <3> QED BY <1>0, <3>2, <3>3
  <2>3. CASE InsertAck(s)
    BY <1>0, <2>3, GotoSets, HandlerOnly DEF InsertAck
  <2>4. CASE GiveUp(s, "err") \/ GiveUp(s, "none")
    BY <1>0, <2>4, GiveUpOpen
  <2>5. CASE AckArrives(s) /\ ~GiveUp(s, "err")
    BY <1>0, <2>5, GotoSets, HandlerOnly DEF AckArrives
  <2>6. CASE ReplyConnect(s) /\ ~GiveUp(s, "none")
    <3>1. /\ Sets(pc, pc', "client", s, "relay") /\ Sets(chan, chan', "client", s, "writing")
          /\ \A x \in Stream : reply'[x] = IF x = s THEN "ok" ELSE reply[x]
          /\ s \in Connect /\ pc["client"][s] = "reply"
      BY <1>0, <2>6, StartRelaySets, Tables DEF ReplyConnect
    <3> QED BY <1>0, <3>1, HandlerOnly
  <2> QED BY <2>1, <2>2, <2>3, <2>4, <2>5, <2>6 DEF AckTimeout
<1>2. AnswerInv'
  BY <1>0, <1>1, AnswerSame DEF OpenInv, Transit
<1> QED BY <1>0, <1>1, <1>2, OpenOne

\* The steps of a handler that send OPEN or the request.
LEMMA HandlerSends ==
  ASSUME TunnelInv, NEW s \in Stream, SendOpen(s) \/ ForwardRequest(s)
  PROVE  OpenInv'
<1> USE EndType, Others
<1>0. /\ TypeOK /\ OpenInv /\ ClientOpenAt(s) /\ ServerOpenAt(s) /\ AnswerInv
      /\ UNCHANGED <<wire, held, got, ack>>
  BY DEF TunnelInv, IndInv, OpenInv, SendOpen, ForwardRequest, traffic
<1>1. CASE SendOpen(s) /\ Send("client", Open(s)) /\ Goto(s, "wait") /\ UNCHANGED <<chan, reply>>
  <2>1. pc["client"][s] = "open" /\ sent' = sent
    BY <1>1 DEF SendOpen, traffic
  <2>2. /\ OnlyStream(s) /\ ClientOpenAt(s)' /\ ServerOpenAt(s)'
        /\ \A x \in Stream : chan'["server"][x] = chan["server"][x]
    BY <1>0, <1>1, <2>1, GotoSets, HandlerOnly
      DEF ClientOpenAt, ServerOpenAt, Early, Opening
  <2>3. /\ Transit("client")' \subseteq Transit("client") \cup {Open(s)}
        /\ Transit("server")' \subseteq Transit("server")
    BY <1>0, <1>1, SendTransit, FrameType
  <2>4. chan["server"][s] = "none" /\ Open(s).id = s
    BY <1>0, <2>1 DEF ServerOpenAt, Opening, Open
  <2>5. Items(held["server"]) \subseteq Transit("client")
    BY DEF Transit
  <2>6. \A f \in Transit("client") \cup Transit("server") : f.id \in Stream
    BY <1>0, TransitType
  <2>7. AnswerInv'
    BY <1>0, <2>2, <2>3, <2>4, <2>5, <2>6 DEF AnswerInv
  <2> QED BY <1>0, <2>2, <2>7, OpenOne
<1>2. CASE \E r : GiveUp(s, r) /\ UNCHANGED <<frames, sent>>
  <2>1. /\ OnlyStream(s) /\ ClientOpenAt(s)' /\ ServerOpenAt(s)'
        /\ \A x \in Stream : chan'["server"][x] = chan["server"][x]
    BY <1>0, <1>2, GiveUpOpen
  <2>2. AnswerInv'
    BY <1>0, <1>2, <2>1, AnswerSame DEF Transit
  <2> QED BY <1>0, <2>1, <2>2, OpenOne
<1>3. CASE /\ ForwardRequest(s) /\ Send("client", Data(s, 1)) /\ StartRelay("client", s)
           /\ sent' = [sent EXCEPT !["client"][s] = 1] /\ reply' = reply
  <2>1. /\ Sets(pc, pc', "client", s, "relay") /\ Sets(chan, chan', "client", s, "writing")
        /\ Sets(sent, sent', "client", s, 1)
        /\ s \notin Connect /\ pc["client"][s] = "reply"
    BY <1>0, <1>3, StartRelaySets, SetsAt, Tables DEF ForwardRequest
  <2>2. \A e \in End, x \in Stream : x # s \/ e # "client" => sent'[e][x] = sent[e][x]
    BY <2>1 DEF Sets
  <2>3. /\ OnlyStream(s) /\ ClientOpenAt(s)' /\ ServerOpenAt(s)'
        /\ \A x \in Stream : chan'["server"][x] = chan["server"][x]
    BY <1>0, <1>3, <2>1, <2>2, HandlerOnly DEF ClientOpenAt, ServerOpenAt, Early, Opening
  <2>4. /\ Transit("client")' \subseteq Transit("client") \cup {Data(s, 1)}
        /\ Transit("server")' \subseteq Transit("server") /\ Data(s, 1).type = "DATA"
    BY <1>0, <1>3, SendTransit, FrameType DEF Data
  <2>5. AnswerInv'
    BY <1>0, <2>3, <2>4, AnswerSame
  <2> QED BY <1>0, <2>3, <2>5, OpenOne
<1>4. SendOpen(s) => \/ Send("client", Open(s)) /\ Goto(s, "wait") /\ UNCHANGED <<chan, reply>>
                     \/ \E r : GiveUp(s, r) /\ UNCHANGED <<frames, sent>>
  BY DEF SendOpen, traffic
<1>5. ForwardRequest(s) =>
        \/ /\ Send("client", Data(s, 1)) /\ StartRelay("client", s)
           /\ sent' = [sent EXCEPT !["client"][s] = 1] /\ reply' = reply
        \/ \E r : GiveUp(s, r) /\ UNCHANGED <<frames, sent>>
  BY DEF ForwardRequest
<1> QED BY <1>1, <1>2, <1>3, <1>4, <1>5

\* The steps of a pump.
LEMMA PumpOpen ==
  ASSUME TunnelInv, NEW e \in End, NEW s \in Stream,
         PumpData(e, s) \/ PumpFails(e, s) \/ PumpEof(e, s) \/ PumpClose(e, s)
  PROVE  OpenInv'
<1> USE EndType, Others
<1>0. /\ TypeOK /\ OpenInv /\ ClientOpenAt(s) /\ ServerOpenAt(s) /\ AnswerInv
      /\ UNCHANGED <<wire, held, chan, got, ack, reply>>
      /\ pc[e][s] \in {"relay", "closing"}
  BY DEF TunnelInv, IndInv, OpenInv, PumpData, PumpFails, PumpEof, PumpClose, streams, session,
    opening, traffic
<1>1. PICK at \in {"relay", "closing", "done"}, n \in Nat :
        Sets(pc, pc', e, s, at) /\ Sets(sent, sent', e, s, n)
  <2>0. pc \in [End -> [Stream -> Step]] /\ sent \in [End -> [Stream -> Nat]]
    BY <1>0, Tables
  <2>1. CASE PumpData(e, s)
    <3>1. pc' = pc /\ pc[e][s] = "relay" /\ sent' = [sent EXCEPT ![e][s] = sent[e][s] + 1]
      BY <2>1 DEF PumpData, streams
    <3>2. Sets(pc, pc', e, s, "relay")
      BY <3>1 DEF Sets
    <3>3. Sets(sent, sent', e, s, sent[e][s] + 1) /\ sent[e][s] + 1 \in Nat
      BY <2>0, <3>1 DEF Sets
    <3> QED BY <3>2, <3>3
  <2>2. CASE PumpFails(e, s) \/ PumpEof(e, s) \/ PumpClose(e, s)
    <3>1. sent' = sent /\ \E at \in {"closing", "done"} : pc' = [pc EXCEPT ![e][s] = at]
      BY <2>2 DEF PumpFails, PumpEof, PumpClose, traffic
    <3>2. Sets(sent, sent', e, s, sent[e][s]) /\ sent[e][s] \in Nat
      BY <2>0, <3>1 DEF Sets
    <3>3. \E at \in {"closing", "done"} : Sets(pc, pc', e, s, at)
      BY <2>0, <3>1 DEF Sets
    <3> QED BY <3>2, <3>3
  <2> QED BY <2>1, <2>2
<1>2. OnlyStream(s)
  BY <1>0, <1>1 DEF Sets, OnlyStream
<1>3. ClientOpenAt(s)' /\ ServerOpenAt(s)'
  <2>1. /\ pc'[e][s] = at /\ pc'[Other(e)][s] = pc[Other(e)][s]
        /\ sent'[Other(e)][s] = sent[Other(e)][s]
    BY <1>1 DEF Sets
  <2>2. chan["server"][s] # "none"
    BY <1>0 DEF ServerOpenAt, End
  <2>3. CASE e = "client"
    BY <1>0, <2>1, <2>2, <2>3 DEF ClientOpenAt, ServerOpenAt, Early, Opening
  <2>4. CASE e = "server"
    BY <1>0, <2>1, <2>2, <2>4 DEF ClientOpenAt, ServerOpenAt, Early, Opening
  <2> QED BY <2>3, <2>4 DEF End
<1>4. AnswerInv'
  <2>1. \/ frames' = frames
        \/ \E f \in Frame : Send(e, f) /\ f.type \in {"DATA", "CLOSE"}
    <3>1. sent[e][s] + 1 \in Nat
      BY <1>0, Tables
    <3>2. /\ Data(s, sent[e][s] + 1) \in Frame /\ Data(s, sent[e][s] + 1).type = "DATA"
          /\ Close(s) \in Frame /\ Close(s).type = "CLOSE"
      BY <3>1, FrameType DEF Data, Close
    <3>3. \/ frames' = frames \/ Send(e, Close(s)) \/ Send(e, Data(s, sent[e][s] + 1))
      BY DEF PumpData, PumpFails, PumpEof, PumpClose, SendOrIgnore, session
    <3> QED BY <3>2, <3>3
  <2>2. \A o \in End : \A f \in Transit(o)' : f \in Transit(o) \/ f.type \in {"DATA", "CLOSE"}
    <3>1. CASE frames' = frames
      BY <1>0, <3>1 DEF Transit
    <3>2. CASE \E f \in Frame : Send(e, f) /\ f.type \in {"DATA", "CLOSE"}
      <4>1. PICK f \in Frame : Send(e, f) /\ f.type \in {"DATA", "CLOSE"}
        BY <3>2
      <4>2. /\ Transit(e)' \subseteq Transit(e) \cup {f}
            /\ Transit(Other(e))' \subseteq Transit(Other(e))
        BY <1>0, <4>1, SendTransit
      <4>3. \A o \in End : o = e \/ o = Other(e)
        BY DEF End, Other
      <4> QED BY <4>1, <4>2, <4>3
    <3> QED BY <2>1, <3>1, <3>2
  <2> QED BY <1>0, <2>2, AnswerSame
<1> QED BY <1>0, <1>2, <1>3, <1>4, OpenOne

\* The steps of write_task.
LEMMA WriteOpen ==
  ASSUME TunnelInv, NEW e \in End, NEW s \in Stream, WriteChunk(e, s) \/ WriteEnds(e, s)
  PROVE  OpenInv'
<1> USE EndType, Others
<1>0. /\ TypeOK /\ OpenInv /\ ClientOpenAt(s) /\ ServerOpenAt(s) /\ AnswerInv
      /\ UNCHANGED <<frames, wire, held, pc, ack, reply, sent>>
      /\ chan[e][s] = "writing"
  BY DEF TunnelInv, IndInv, OpenInv, WriteChunk, CanWrite, WriteEnds, session, opening, traffic
<1>1. /\ \E c \in {"writing", "closed"} : Sets(chan, chan', e, s, c)
      /\ \E q : Sets(got, got', e, s, q)
  <2>1. chan' = chan \/ chan' = [chan EXCEPT ![e][s] = "closed"]
    BY DEF WriteChunk, CanWrite, WriteEnds
  <2>2. got' = got \/ got' = [got EXCEPT ![e][s] = Append(got[e][s], Head(rx[e][s]))]
    BY DEF WriteChunk, CanWrite, WriteEnds, traffic
  <2>3. chan \in [End -> [Stream -> ChanState]] /\ got \in [End -> [Stream -> Seq(Nat)]]
    BY <1>0, Tables
  <2>4. \E c \in {"writing", "closed"} : Sets(chan, chan', e, s, c)
    <3>1. CASE chan' = chan
      <4>1. Sets(chan, chan', e, s, "writing")
        BY <1>0, <3>1 DEF Sets
      <4> QED BY <4>1
    <3>2. CASE chan' = [chan EXCEPT ![e][s] = "closed"]
      <4>1. Sets(chan, chan', e, s, "closed")
        BY <2>3, <3>2 DEF Sets
      <4> QED BY <4>1
    <3> QED BY <2>1, <3>1, <3>2
  <2>5. Sets(got, got', e, s, got'[e][s])
    BY <2>2, <2>3 DEF Sets
  <2> QED BY <2>4, <2>5
<1>2. OnlyStream(s) /\ \A x \in Stream : chan'["server"][x] = "none" <=> chan["server"][x] = "none"
  BY <1>0, <1>1 DEF Sets, OnlyStream
<1>3. ClientOpenAt(s)' /\ ServerOpenAt(s)'
  <2>1. /\ chan'[e][s] \in {"writing", "closed"} /\ chan'[Other(e)][s] = chan[Other(e)][s]
        /\ got'[Other(e)][s] = got[Other(e)][s]
    BY <1>1 DEF Sets
  <2>2. CASE e = "client"
    BY <1>0, <2>1, <2>2 DEF ClientOpenAt, ServerOpenAt, Early, Opening
  <2>3. CASE e = "server"
    BY <1>0, <2>1, <2>3 DEF ClientOpenAt, ServerOpenAt, Early, Opening
  <2> QED BY <2>2, <2>3 DEF End
<1>4. AnswerInv'
  BY <1>0, <1>2, AnswerSame DEF Transit
<1> QED BY <1>0, <1>2, <1>3, <1>4, OpenOne

\* Steps that open nothing, and let frames pass or get lost.
LEMMA QuietOpen ==
  ASSUME TunnelInv, UNCHANGED <<pc, chan, sent, got, reply, ack>>,
         \A o \in End : Transit(o)' \subseteq Transit(o),
         \A f \in Items(held'["server"]) : f.type = "OPEN_ACK" => f \in Items(held["server"])
  PROVE  OpenInv'
<1>0. TypeOK /\ OpenInv /\ AnswerInv
  BY DEF TunnelInv, IndInv, OpenInv
<1>1. \A s \in Stream : ClientOpenAt(s)' /\ ServerOpenAt(s)'
  BY <1>0 DEF OpenInv, ClientOpenAt, ServerOpenAt
<1>2. AnswerInv'
  BY <1>0, EndType, AnswerSame
<1> QED BY <1>1, <1>2 DEF OpenInv

\* The loops, the keeper, the peers and the link.
LEMMA LoopOpen ==
  ASSUME TunnelInv,
         \/ \E e \in End : \/ Sink(e) \/ ReceiveData(e) \/ Route(e) \/ ReceiveClose(e)
                           \/ ReaderStops(e)
         \/ DropAcks \/ ReceiveOpen \/ Keeper \/ LinkFails
         \/ \E e \in End, s \in Stream : PeerLeaves(e, s)
  PROVE  OpenInv'
<1> USE EndType, Others
<1>0. TypeOK /\ OrderInv
  BY DEF TunnelInv, IndInv
<1>1. UNCHANGED <<pc, chan, sent, got, reply, ack>>
  BY DEF Sink, Transmit, CanTransmit, SinkStops, SinkDrops, ReceiveData, Route, ReceiveClose, ReaderStops,
    DropAcks, ReceiveOpen, Keeper, KeeperTakes, KeeperCloses, LinkFails, PeerLeaves,
    streams, session, opening, traffic
<1>2. ASSUME UNCHANGED <<held, wire, frames>> PROVE OpenInv'
  BY <1>1, <1>2, QuietOpen DEF Transit
<1>3. ASSUME NEW e \in End, Sink(e) PROVE OpenInv'
  <2>1. \A o \in End : Transit(o)' \subseteq Transit(o)
    <3>1. CASE Transmit(e)
      BY <1>0, <3>1, TransmitCarry
    <3>2. CASE SinkStops(e) \/ SinkDrops(e)
      BY <1>0, <3>2, DropCarry DEF SinkStops, SinkDrops
    <3> QED BY <1>3, <3>1, <3>2 DEF Sink
  <2>2. held' = held
    BY <1>3 DEF Sink, Transmit, CanTransmit, SinkStops, SinkDrops
  <2> QED BY <1>1, <2>1, <2>2, QuietOpen
<1>4. ASSUME NEW e \in End, NEW type \in {"DATA", "CLOSE", "OPEN"}, Receive(e, type),
             UNCHANGED frames, UNCHANGED held \/ Hold(e, Arriving(e))
      PROVE  OpenInv'
  <2>1. /\ \A o \in End : Transit(o)' \subseteq Transit(o)
        /\ Arriving(e).type = type
        /\ Items(held[e]) = {} /\ Items(held'[e]) \subseteq {Arriving(e)}
        /\ held'[Other(e)] = held[Other(e)]
    BY <1>0, <1>4, ReceiveCarry
  <2>2. \A f \in Items(held'["server"]) : f.type = "OPEN_ACK" => f \in Items(held["server"])
    BY <2>1 DEF End
  <2> QED BY <1>1, <2>1, <2>2, QuietOpen
<1>5. ASSUME NEW e \in End, Route(e) PROVE OpenInv'
  <2>1. /\ \A o \in End : Transit(o)' \subseteq Transit(o)
        /\ Items(held'[e]) = {} /\ held'[Other(e)] = held[Other(e)]
    BY <1>0, <1>5, ReleaseCarry DEF Route
  <2>2. \A f \in Items(held'["server"]) : f.type = "OPEN_ACK" => f \in Items(held["server"])
    BY <2>1 DEF End
  <2> QED BY <1>1, <2>1, <2>2, QuietOpen
<1>6. ASSUME NEW e \in End, ReceiveData(e) \/ ReceiveClose(e) PROVE OpenInv'
  BY <1>4, <1>6 DEF ReceiveData, ReceiveClose
<1>7. CASE ReceiveOpen
  BY <1>4, <1>7 DEF ReceiveOpen
<1>8. CASE \/ \E e \in End : ReaderStops(e)
           \/ DropAcks \/ Keeper \/ LinkFails
           \/ \E e \in End, s \in Stream : PeerLeaves(e, s)
  BY <1>2, <1>8 DEF ReaderStops, DropAcks, Keeper, KeeperTakes, KeeperCloses, LinkFails,
    PeerLeaves, session
<1> QED BY <1>3, <1>5, <1>6, <1>7, <1>8

\* The client's reader takes an OPEN_ACK: success means the server connected.
LEMMA AckOpen ==
  ASSUME TunnelInv, ReceiveAck PROVE OpenInv'
<1> USE EndType, Others
<1> DEFINE f == Arriving("client")
<1>0. TypeOK /\ OrderInv /\ OpenInv /\ AnswerInv
  BY DEF TunnelInv, IndInv, OpenInv
<1>1. /\ Receive("client", "OPEN_ACK") /\ UNCHANGED <<frames, held, pc, chan, sent, got, reply>>
  BY DEF ReceiveAck, streams, traffic
<1>2. /\ \A o \in End : Transit(o)' \subseteq Transit(o)
      /\ f \in Transit("server") /\ f.type = "OPEN_ACK"
  BY <1>0, <1>1, ReceiveCarry
<1>3. \A s \in Stream : ack'[s] = "ok" => ack[s] = "ok" \/ (s = f.id /\ f.arg = 0)
  <2>1. f.id \in Stream /\ ack \in [Stream -> {"none", "ok", "failed"}]
    BY <1>0, <1>2, TransitType, Tables
  <2> QED BY <2>1 DEF ReceiveAck
<1> HIDE DEF f
<1>4. \A s \in Stream : ack'[s] = "ok" => ack[s] = "ok" \/ chan["server"][s] # "none"
  BY <1>0, <1>2, <1>3 DEF AnswerInv
<1>5. \A s \in Stream : ClientOpenAt(s)' /\ ServerOpenAt(s)'
  BY <1>0, <1>1, <1>4 DEF OpenInv, ClientOpenAt, ServerOpenAt
<1>6. AnswerInv'
  BY <1>0, <1>1, <1>2, AnswerSame
<1> QED BY <1>5, <1>6 DEF OpenInv

\* The one frame a reader holds.
LEMMA HeldItem ==
  ASSUME TypeOK, NEW e \in End, NEW type, Holds(e, type)
  PROVE  /\ held[e] = <<Head(held[e])>> /\ Items(held[e]) = {Head(held[e])}
         /\ Head(held[e]) \in Frame /\ Head(held[e]) \in Transit(Other(e))
         /\ Head(held[e]).type = type /\ Head(held[e]).id = HeldId(e)
         /\ HeldId(e) \in Stream /\ Head(held[e]).arg \in Nat
<1>1. /\ held[e] \in Seq(Frame) /\ Len(held[e]) <= 1 /\ held[e] # <<>>
      /\ Head(held[e]).type = type
  BY DEF Holds, TypeOK, SessionOK
<1>2. held[e] = <<Head(held[e])>>
  BY <1>1
<1>3. Items(held[e]) = {Head(held[e])}
  BY <1>2, ItemsFew
<1>4. Head(held[e]) \in Transit(Other(e))
  BY <1>3, Others DEF Transit
<1> QED BY <1>1, <1>2, <1>3, <1>4, HeldType DEF HeldId

\* What the server's reader does to the queues when it turns an OPEN into an
\* answer: there is no other OPEN of the stream behind it.
LEMMA AnswerQueues ==
  ASSUME TypeOK, OrderInv, Holds("server", "OPEN"), NEW n \in Nat,
         Hold("server", OpenAck(HeldId("server"), n)), UNCHANGED <<frames, wire>>
  PROVE  /\ Items(held'["server"]) = {OpenAck(HeldId("server"), n)}
         /\ held'["client"] = held["client"]
         /\ Transit("server")' = Transit("server")
         /\ \A f \in Transit("client")' : f.type = "OPEN" =>
              f \in Transit("client") /\ f.id # HeldId("server")
<1> USE EndType, Others
<1> DEFINE h == Head(held["server"])  g == OpenAck(HeldId("server"), n)
<1>1. /\ Items(held["server"]) = {h} /\ h.id = HeldId("server") /\ h.type = "OPEN"
  BY HeldItem
<1>2. Items(held'["server"]) = {g} /\ held'["client"] = held["client"]
  BY ItemsFew DEF Hold, TypeOK, SessionOK
<1>3. g.type = "OPEN_ACK"
  BY DEF OpenAck
<1> HIDE DEF g, h
<1>4. \A f \in Items(wire["client"]) \cup Items(frames["client"]) : Follows(h, f)
  BY <1>1 DEF OrderInv, Before
<1>5. \A f \in Transit("client")' : f.type = "OPEN" =>
        f \in Items(wire["client"]) \cup Items(frames["client"])
  BY <1>2, <1>3 DEF Transit
<1>6. \A f \in Transit("client")' : f.type = "OPEN" =>
        f \in Transit("client") /\ f.id # HeldId("server")
  BY <1>1, <1>4, <1>5 DEF Follows, Transit
<1>7. Transit("server")' = Transit("server")
  BY <1>2 DEF Transit
<1> QED BY <1>2, <1>6, <1>7 DEF g

\* The server connects, or does not.
LEMMA ConnectOpen ==
  ASSUME TunnelInv, ConnectOk \/ ConnectRefused PROVE OpenInv'
<1> USE EndType, Others
<1>0. /\ TypeOK /\ OrderInv /\ OpenInv /\ AnswerInv /\ Holds("server", "OPEN")
      /\ UNCHANGED <<frames, wire, pc, sent, got, reply, ack>>
  BY DEF TunnelInv, IndInv, OpenInv, ConnectOk, ConnectRefused, opening, traffic
<1>s. PICK s \in Stream : s = HeldId("server")
  BY <1>0, HeldItem
<1>1. Head(held["server"]) \in Transit("client") /\ Head(held["server"]).id = s
  BY <1>0, <1>s, HeldItem
<1>2. pc["client"][s] \notin Opening /\ ClientOpenAt(s) /\ ServerOpenAt(s)
  BY <1>0, <1>1 DEF TunnelInv, IndInv, ClientInv, OpenInv
<1>3. \A f \in Transit("client") \cup Transit("server") : f.id \in Stream
  BY <1>0, TransitType
<1>4. CASE ConnectOk
  <2>1. /\ Items(held'["server"]) = {OpenAck(s, 0)}
        /\ Transit("server")' = Transit("server")
        /\ \A f \in Transit("client")' : f.type = "OPEN" => f \in Transit("client") /\ f.id # s
    BY <1>0, <1>s, <1>4, AnswerQueues DEF ConnectOk
  <2>2. Sets(chan, chan', "server", s, "waiting")
    BY <1>0, <1>s, <1>4, SetsAt DEF ConnectOk
  <2>3. OpenAck(s, 0).id = s
    BY DEF OpenAck
  <2>4. OnlyStream(s) /\ chan'["server"][s] = "waiting" /\ chan'["client"][s] = chan["client"][s]
    BY <1>0, <1>1, <2>2 DEF Sets, OnlyStream
  <2>5. ClientOpenAt(s)' /\ ServerOpenAt(s)'
    BY <1>0, <1>2, <2>4 DEF ClientOpenAt, ServerOpenAt
  <2>6. AnswerInv'
    <3>1. \A x \in Stream : x # s => chan'["server"][x] = chan["server"][x]
      BY <2>4 DEF OnlyStream
    <3> QED BY <1>0, <1>3, <2>1, <2>3, <2>4, <3>1 DEF AnswerInv
  <2> QED BY <1>0, <1>1, <2>4, <2>5, <2>6, OpenOne
<1>5. CASE ConnectRefused
  <2>1. /\ Items(held'["server"]) = {OpenAck(s, 1)}
        /\ Transit("server")' = Transit("server")
        /\ \A f \in Transit("client")' : f.type = "OPEN" => f \in Transit("client")
        /\ chan' = chan
    BY <1>0, <1>s, <1>5, AnswerQueues DEF ConnectRefused
  <2>2. OpenAck(s, 1).arg # 0
    BY DEF OpenAck
  <2>3. AnswerInv'
    BY <1>0, <2>1, <2>2 DEF AnswerInv
  <2>4. \A x \in Stream : ClientOpenAt(x)' /\ ServerOpenAt(x)'
    BY <1>0, <2>1 DEF OpenInv, ClientOpenAt, ServerOpenAt
  <2> QED BY <2>3, <2>4 DEF OpenInv
<1> QED BY <1>4, <1>5

\* What SendAck does to the queues.
LEMMA AckQueues ==
  ASSUME TypeOK, SendAck
  PROVE  /\ Items(held'["server"]) = {} /\ held'["client"] = held["client"] /\ wire' = wire
         /\ Transit("client")' \subseteq Transit("client")
         /\ Transit("server")' \subseteq Transit("server") \cup Items(held["server"])
<1> USE EndType, Others
<1> DEFINE f == Head(held["server"])
<1>1. Holds("server", "OPEN_ACK") /\ Release("server") /\ wire' = wire
  BY DEF SendAck
<1>2. Items(held["server"]) = {f} /\ f \in Frame
  BY <1>1, HeldItem
<1>3. Items(held'["server"]) = {} /\ held'["client"] = held["client"]
  BY <1>1, ItemsFew DEF Release, TypeOK, SessionOK
<1>4. Send("server", f) \/ frames' = frames
  BY DEF SendAck, SendOrIgnore
<1> HIDE DEF f
<1>5. CASE Send("server", f)
  BY <1>1, <1>2, <1>3, <1>5, SendTransit
<1>6. CASE frames' = frames
  BY <1>1, <1>3, <1>6 DEF Transit
<1> QED BY <1>1, <1>3, <1>4, <1>5, <1>6

\* The answer is sent and the server's tasks start.
LEMMA SendAckOpen ==
  ASSUME TunnelInv, SendAck PROVE OpenInv'
<1> USE EndType, Others
<1>0. /\ TypeOK /\ OpenInv /\ AnswerInv /\ Holds("server", "OPEN_ACK")
      /\ UNCHANGED <<sent, got, reply, ack>>
  BY DEF TunnelInv, IndInv, OpenInv, SendAck, opening, traffic
<1>1. PICK s \in Stream, f \in Frame :
        /\ s = HeldId("server") /\ f = Head(held["server"])
        /\ Items(held["server"]) = {f} /\ f.id = s /\ f.type = "OPEN_ACK"
  BY <1>0, HeldItem
<1>2. \/ f.arg = 0 /\ Sets(pc, pc', "server", s, "relay") /\ Sets(chan, chan', "server", s, "writing")
      \/ pc' = pc /\ chan' = chan
  BY <1>0, <1>1, StartRelaySets DEF SendAck
<1>3. f.arg = 0 => chan["server"][s] # "none"
  BY <1>0, <1>1 DEF AnswerInv
<1>4. \A x \in Stream : chan'["server"][x] = "none" <=> chan["server"][x] = "none"
  BY <1>2, <1>3 DEF Sets
<1>5. AnswerInv'
  BY <1>0, <1>4, AckQueues, AnswerSame
<1>6. ClientOpenAt(s) /\ ServerOpenAt(s) /\ pc["client"][s] \notin Opening
  <2>1. f \in Transit("client")
    BY <1>1 DEF Transit
  <2> QED BY <1>0, <1>1, <2>1 DEF TunnelInv, IndInv, ClientInv, OpenInv
<1>7. OnlyStream(s)
  BY <1>0, <1>2 DEF Sets, OnlyStream
<1>8. ClientOpenAt(s)' /\ ServerOpenAt(s)'
  <2>1. CASE pc' = pc /\ chan' = chan
    BY <1>0, <1>6, <2>1 DEF ClientOpenAt, ServerOpenAt
  <2>2. CASE f.arg = 0 /\ Sets(pc, pc', "server", s, "relay") /\ Sets(chan, chan', "server", s, "writing")
    <3>1. /\ pc'["server"][s] = "relay" /\ chan'["server"][s] = "writing"
          /\ pc'["client"][s] = pc["client"][s] /\ chan'["client"][s] = chan["client"][s]
      BY <1>1, <2>2 DEF Sets
    <3> QED BY <1>0, <1>6, <3>1 DEF ClientOpenAt, ServerOpenAt
  <2> QED BY <1>2, <2>1, <2>2
<1> QED BY <1>0, <1>1, <1>5, <1>7, <1>8, OpenOne

\* Every step keeps what the two ends know of each other.
LEMMA OpenKeeps ==
  ASSUME TunnelInv, [Next]_vars PROVE OpenInv'
<1>1. ASSUME NEW s \in Stream, Handler(s) PROVE OpenInv'
  BY <1>1, HandlerOpen, HandlerSends DEF Handler
<1>2. ASSUME NEW e \in End, NEW s \in Stream, Relay(e, s) PROVE OpenInv'
  BY <1>2, PumpOpen, WriteOpen DEF Relay
<1>3. ASSUME NEW e \in End, Sink(e) PROVE OpenInv'
  BY <1>3, LoopOpen
<1>4. ASSUME NEW e \in End, Reader(e) PROVE OpenInv'
  BY <1>4, LoopOpen, AckOpen, ConnectOpen, SendAckOpen DEF Reader
<1>5. CASE Keeper
  BY <1>5, LoopOpen
<1>6. CASE Environment
  BY <1>6, PumpOpen, LoopOpen DEF Environment
<1>7. CASE UNCHANGED vars
  BY <1>7, QuietOpen DEF Transit, vars, streams, session, opening, traffic
<1> QED BY <1>1, <1>2, <1>3, <1>4, <1>5, <1>6, <1>7 DEF Next, Tasks

-----------------------------------------------------------------------------
(* The chunks on their way.                                                *)

\* Nothing happens to stream s at end e but a loss that the invariant allows:
\* the tasks do not touch what was received ...
CalmTasks(e, s) ==
  /\ got'[e][s] = got[e][s] /\ rx'[e][s] = rx[e][s]
  /\ sent'[Other(e)][s] = sent[Other(e)][s]
  /\ chan'[e][s] = "none" <=> chan[e][s] = "none"
  /\ chan'[e][s] = "closed" <=> chan[e][s] = "closed"
  /\ \A o \in End : pc[o][s] = "done" => pc'[o][s] = "done"
  /\ peer[e][s] = "reset" => peer'[e][s] = "reset"
  /\ link = "down" => link' = "down"
  /\ s \in registry'[e] => s \in registry[e]
  /\ s \in registry[e] /\ s \notin registry'[e] =>
       link' = "down" \/ pc'[e][s] = "done" \/ chan[e][s] = "none"

\* ... and the loops leave what can still be received.
CalmLoops(e, s) ==
  /\ \A f \in DataIn(held'[e]) : f.id = s => f \in DataIn(held[e])
  /\ s \in registry'[e] /\ chan'[e][s] # "closed" => Flying(Other(e), s)' = Flying(Other(e), s)
  /\ sink'[Other(e)] = "on" => sink[Other(e)] = "on"

\* Such a step keeps the invariant.
LEMMA CalmFlow ==
  ASSUME NEW e \in End, NEW s \in Stream, FlowAt(e, s), CalmTasks(e, s), CalmLoops(e, s)
  PROVE  FlowAt(e, s)'
<1>0. Accepted(e, s)' = Accepted(e, s)
  BY DEF Accepted, CalmTasks
<1>1. ChanAt(e, s)'
  BY DEF FlowAt, ChanAt, CalmTasks, CalmLoops
<1>2. ChunkAt(e, s)'
  <2>1. chan'[e][s] # "closed" => \A f \in DataIn(held'[e]) : f.id = s => f.arg = Accepted(e, s)' + 1
    BY <1>0 DEF FlowAt, ChunkAt, CalmTasks, CalmLoops
  <2>2. s \in registry'[e] /\ chan'[e][s] # "closed" =>
          s \in registry[e] /\ chan[e][s] # "closed" /\ Flying(Other(e), s)' = Flying(Other(e), s)
    BY DEF CalmTasks, CalmLoops
  <2>3. sink'[Other(e)] = "on" => sink[Other(e)] = "on"
    BY DEF CalmLoops
  <2>4. /\ got'[e][s] = got[e][s] /\ rx'[e][s] = rx[e][s]
        /\ sent'[Other(e)][s] = sent[Other(e)][s]
    BY DEF CalmTasks
  <2>5. Numbered(e, s)'
    BY <2>4 DEF FlowAt, ChunkAt, Numbered
  <2> QED BY <1>0, <2>1, <2>2, <2>3, <2>4, <2>5 DEF FlowAt, ChunkAt
<1>3. FlushAt(e, s)'
  BY <1>0, EndType DEF FlowAt, ChanAt, FlushAt, CalmTasks
<1> QED BY <1>1, <1>2, <1>3 DEF FlowAt

\* The DATA frames of a sequence after the operations on it.
LEMMA DataItems ==
  ASSUME NEW q \in Seq(Frame)
  PROVE  /\ \A f \in Frame : DataIn(Append(q, f)) = DataIn(q) \cup {g \in {f} : g.type = "DATA"}
         /\ q # <<>> => DataIn(q) = DataIn(Tail(q)) \cup {g \in {Head(q)} : g.type = "DATA"}
         /\ DataIn(q) \subseteq Items(q)
BY ItemsAppend, ItemsTail DEF DataIn

\* The DATA frames of the shortest sequences.
LEMMA DataFew ==
  /\ DataIn(<<>>) = {}
  /\ \A f : DataIn(<<f>>) = {g \in {f} : g.type = "DATA"}
BY ItemsFew DEF DataIn

\* The frames that can still arrive are on their way, chunks that were sent.
LEMMA LiveItems ==
  ASSUME IndInv, NEW o \in End
  PROVE  /\ Live(o) \subseteq Transit(o)
         /\ \A f \in Live(o) :
              /\ f \in Frame /\ f.id \in Stream /\ f.type = "DATA"
              /\ f.arg \in 1..sent[o][f.id] /\ f.arg \in Nat
<1>1. Live(o) \subseteq Transit(o)
  BY DEF Live, DataIn, Transit
<1>2. \A f \in Live(o) : f.type = "DATA"
  BY DEF Live, DataIn
<1>3. \A f \in Live(o) : f \in Frame /\ f.id \in Stream
  BY <1>1, TransitType DEF IndInv
<1>4. \A f \in Live(o) : f.arg \in 1..sent[o][f.id]
  BY <1>1, <1>2 DEF IndInv, SentInv
<1> QED BY <1>1, <1>2, <1>3, <1>4 DEF Frame

\* The chunks of s are the same when its frames are.
LEMMA FlyingSame ==
  ASSUME NEW o \in End, NEW s \in Stream,
         \A f : f.id = s => (f \in Live(o)' <=> f \in Live(o))
  PROVE  Flying(o, s)' = Flying(o, s)
BY DEF Flying

\* Nothing is sent, transmitted or received, or only frames that are no chunks.
LEMMA LiveSame ==
  ASSUME UNCHANGED <<frames, wire, sink>>, \A e \in End : DataIn(held'[e]) = DataIn(held[e])
  PROVE  \A o \in End : Live(o)' = Live(o)
BY EndType DEF Live

\* A frame enters the channel of end e.
LEMMA LiveSend ==
  ASSUME TypeOK, NEW e \in End, NEW f \in Frame, Send(e, f), UNCHANGED <<wire, sink>>,
         \A o \in End : DataIn(held'[o]) = DataIn(held[o])
  PROVE  /\ Live(e)' = Live(e) \cup (IF sink[e] = "on" THEN {g \in {f} : g.type = "DATA"} ELSE {})
         /\ Live(Other(e))' = Live(Other(e))
<1> USE EndType, Others
<1>1. frames'[e] = Append(frames[e], f) /\ frames'[Other(e)] = frames[Other(e)]
  BY DEF Send, CanSend, TypeOK, SessionOK
<1>2. DataIn(frames'[e]) = DataIn(frames[e]) \cup {g \in {f} : g.type = "DATA"}
  BY <1>1, QueueType, DataItems
<1> QED BY <1>1, <1>2 DEF Live

\* The writer loop moves a frame onto the wire, or drops frames that were lost
\* when it ended.
LEMMA LiveTransmit ==
  ASSUME TypeOK, NEW e \in End, Transmit(e) \/ SinkDrops(e)
  PROVE  \A o \in End : Live(o)' = Live(o)
<1> USE EndType, Others
<1>0. held' = held
  BY DEF Transmit, CanTransmit, SinkDrops
<1>1. CASE Transmit(e)
  <2>1. /\ frames'[e] = Tail(frames[e]) /\ wire'[e] = Append(wire[e], Head(frames[e]))
        /\ frames[e] # <<>> /\ sink[e] = "on" /\ sink' = sink
        /\ \A o \in End : o # e => frames'[o] = frames[o] /\ wire'[o] = wire[o]
    BY <1>1 DEF Transmit, CanTransmit, TypeOK, SessionOK
  <2>2. /\ DataIn(frames[e]) = DataIn(frames'[e]) \cup {g \in {Head(frames[e])} : g.type = "DATA"}
        /\ DataIn(wire'[e]) = DataIn(wire[e]) \cup {g \in {Head(frames[e])} : g.type = "DATA"}
    <3>1. Head(frames[e]) \in Frame
      BY <2>1, QueueType
    <3> QED BY <2>1, <3>1, QueueType, DataItems
  <2>3. Live(e)' = Live(e)
    BY <1>0, <2>1, <2>2 DEF Live
  <2>4. \A o \in End : o # e => Live(o)' = Live(o)
    BY <1>0, <2>1 DEF Live
  <2> QED BY <2>3, <2>4
<1>2. CASE SinkDrops(e)
  <2>1. /\ sink[e] # "on" /\ sink'[e] # "on" /\ wire' = wire
        /\ \A o \in End : o # e => frames'[o] = frames[o] /\ sink'[o] = sink[o]
    BY <1>2 DEF SinkDrops, TypeOK, SessionOK
  <2> QED BY <1>0, <2>1 DEF Live
<1> QED BY <1>1, <1>2

\* The writer loop of end e ends: what it had not transmitted is lost, and came
\* behind what remains.
LEMMA LiveStop ==
  ASSUME TypeOK, OrderInv, NEW e \in End, SinkStops(e)
  PROVE  /\ Live(e)' \subseteq Live(e) /\ Live(Other(e))' = Live(Other(e))
         /\ \A f \in Live(e)', g \in Live(e) : g \in Live(e)' \/ Follows(f, g)
<1> USE EndType, Others
<1>1. /\ sink'[e] # "on" /\ sink[e] = "on" /\ UNCHANGED <<held, wire>>
      /\ \A o \in End : o # e => frames'[o] = frames[o] /\ sink'[o] = sink[o]
  BY DEF SinkStops, TypeOK, SessionOK
<1>2. Live(e)' = DataIn(held[Other(e)]) \cup DataIn(wire[e])
  BY <1>1 DEF Live
<1>3. Live(e) = DataIn(held[Other(e)]) \cup DataIn(wire[e]) \cup DataIn(frames[e])
  BY <1>1 DEF Live
<1>4. \A f \in DataIn(held[Other(e)]) \cup DataIn(wire[e]), g \in DataIn(frames[e]) : Follows(f, g)
  BY DEF OrderInv, Before, DataIn
<1>5. Live(Other(e))' = Live(Other(e))
  BY <1>1 DEF Live
<1> QED BY <1>2, <1>3, <1>4, <1>5

\* The reader of end e takes a frame off the wire: a chunk it does not hold is
\* gone, and was the first of its stream.
LEMMA LiveReceive ==
  ASSUME TypeOK, OrderInv, NEW e \in End, NEW type, Receive(e, type), UNCHANGED <<frames, sink>>,
         UNCHANGED held \/ Hold(e, Arriving(e))
  PROVE  /\ Live(e)' = Live(e)
         /\ \A g \in Live(Other(e)) : g = Arriving(e) \/ Follows(Arriving(e), g)
         /\ type # "DATA" \/ Hold(e, Arriving(e)) => Live(Other(e))' = Live(Other(e))
         /\ type = "DATA" /\ UNCHANGED held =>
              /\ Arriving(e) \in Live(Other(e))
              /\ \A g : g \in Live(Other(e))' \/ g = Arriving(e) <=> g \in Live(Other(e))
              /\ \A g \in Live(Other(e))' : Follows(Arriving(e), g)
         /\ DataIn(held[e]) = {}
<1> USE EndType, Others
<1>1. PICK o \in End : o = Other(e)
  OBVIOUS
<1>2. PICK f \in Frame : f = Arriving(e)
  BY ReceiveType
<1>3. /\ o # e /\ Other(o) = e
      /\ wire[o] # <<>> /\ f = Head(wire[o]) /\ f.type = type /\ held[e] = <<>>
      /\ wire'[o] = Tail(wire[o]) /\ wire'[e] = wire[e] /\ frames' = frames /\ sink' = sink
  BY <1>1, <1>2 DEF Receive, CanReceive, Arriving, TypeOK, SessionOK
<1>4. /\ DataIn(wire[o]) = DataIn(wire'[o]) \cup {g \in {f} : g.type = "DATA"}
      /\ \A g \in Items(wire'[o]) : Follows(f, g)
      /\ f \in Items(wire[o])
  BY <1>3, QueueType, DataItems, ItemsTail, SortedTail DEF OrderInv
<1>5. \A g \in Items(frames[o]) : Follows(f, g)
  BY <1>4 DEF OrderInv, Before
<1>6. DataIn(held[e]) = {} /\ held'[o] = held[o]
      /\ (held'[e] = <<>> \/ (held'[e] = <<f>> /\ Hold(e, f)))
  BY <1>1, <1>2, <1>3, DataFew DEF Hold, TypeOK, SessionOK
<1>7. Live(e)' = Live(e)
  BY <1>1, <1>3, <1>6 DEF Live
<1>8. Live(o) = DataIn(wire'[o]) \cup {g \in {f} : g.type = "DATA"}
                  \cup (IF sink[o] = "on" THEN DataIn(frames[o]) ELSE {})
  BY <1>3, <1>4, <1>6 DEF Live
<1>9. Live(o)' = DataIn(held'[e]) \cup DataIn(wire'[o])
                  \cup (IF sink[o] = "on" THEN DataIn(frames[o]) ELSE {})
  BY <1>3 DEF Live
<1>10. \A g \in Live(o) : g = f \/ Follows(f, g)
  BY <1>4, <1>5, <1>8 DEF DataIn
<1>11. ASSUME type # "DATA" \/ Hold(e, f) PROVE Live(o)' = Live(o)
  <2>1. CASE type # "DATA"
    <3>1. {g \in {f} : g.type = "DATA"} = {}
      BY <1>3, <2>1
    <3>2. DataIn(held'[e]) = {}
      BY <1>6, <3>1, DataFew
    <3> QED BY <1>8, <1>9, <3>1, <3>2
  <2>2. CASE Hold(e, f)
    <3>1. held'[e] = <<f>>
      BY <2>2 DEF Hold, TypeOK, SessionOK
    <3> QED BY <1>8, <1>9, <3>1, DataFew
  <2> QED BY <1>11, <2>1, <2>2
<1>12. ASSUME type = "DATA", UNCHANGED held
       PROVE  /\ f \in Live(o) /\ \A g : g \in Live(o)' \/ g = f <=> g \in Live(o)
              /\ \A g \in Live(o)' : Follows(f, g)
  <2>1. DataIn(held'[e]) = {} /\ {g \in {f} : g.type = "DATA"} = {f}
    BY <1>3, <1>6, <1>12
  <2> QED BY <1>4, <1>5, <1>8, <1>9, <2>1 DEF DataIn
<1> QED BY <1>1, <1>2, <1>6, <1>7, <1>10, <1>11, <1>12

\* The reader of end e is through with the chunk it held.
LEMMA LiveRelease ==
  ASSUME TypeOK, OrderInv, NEW e \in End, Holds(e, "DATA"), Release(e), UNCHANGED <<frames, wire, sink>>
  PROVE  /\ Live(e)' = Live(e) /\ Head(held[e]) \in Live(Other(e))
         /\ \A g : g \in Live(Other(e))' \/ g = Head(held[e]) <=> g \in Live(Other(e))
         /\ \A g \in Live(Other(e))' : Follows(Head(held[e]), g)
         /\ DataIn(held'[e]) = {} /\ DataIn(held[e]) = {Head(held[e])}
<1> USE EndType, Others
<1>1. PICK o \in End : o = Other(e)
  OBVIOUS
<1>2. PICK h \in Frame : h = Head(held[e])
  BY HeldItem
<1>3. o # e /\ Other(o) = e /\ Items(held[e]) = {h} /\ h.type = "DATA"
  BY <1>1, <1>2, HeldItem
<1>4. held'[e] = <<>> /\ held'[o] = held[o]
  BY <1>1, <1>3 DEF Release, TypeOK, SessionOK
<1>5. DataIn(held[e]) = {h} /\ DataIn(held'[e]) = {}
  BY <1>3, <1>4, DataFew DEF DataIn
<1>6. Live(e)' = Live(e)
  BY <1>1, <1>4 DEF Live
<1>7. Live(o)' = DataIn(wire[o]) \cup (IF sink[o] = "on" THEN DataIn(frames[o]) ELSE {})
  BY <1>3, <1>5 DEF Live
<1>8. Live(o) = {h} \cup DataIn(wire[o]) \cup (IF sink[o] = "on" THEN DataIn(frames[o]) ELSE {})
  BY <1>3, <1>5 DEF Live
<1>9. \A g \in Items(wire[o]) \cup Items(frames[o]) : Follows(h, g)
  BY <1>3 DEF OrderInv, Before
<1>10. \A g \in Live(o)' : Follows(h, g)
  BY <1>7, <1>9 DEF DataIn
<1> QED BY <1>1, <1>2, <1>5, <1>6, <1>7, <1>8, <1>10

\* The sum of two lengths is a number.
LEMMA AddNat == \A a, b \in Nat : a + b \in Nat /\ a + 1 \in Nat
OBVIOUS

\* What an end has received of a stream, as sequences and numbers.
LEMMA ReceivedType ==
  ASSUME TypeOK, NEW e \in End, NEW s \in Stream
  PROVE  /\ got[e][s] \in Seq(Nat) /\ rx[e][s] \in Seq(Nat)
         /\ Len(got[e][s]) \in Nat /\ Len(rx[e][s]) \in Nat
         /\ Accepted(e, s) = Len(got[e][s]) + Len(rx[e][s])
         /\ Accepted(e, s) \in Nat /\ Accepted(e, s) + 1 \in Nat
         /\ sent[e][s] \in Nat
<1>1. got[e][s] \in Seq(Nat) /\ rx[e][s] \in Seq(Nat) /\ sent[e][s] \in Nat
  BY Tables
<1>2. Len(got[e][s]) \in Nat /\ Len(rx[e][s]) \in Nat
  BY <1>1
<1>3. Accepted(e, s) = Len(got[e][s]) + Len(rx[e][s])
  BY DEF Accepted
<1>4. Accepted(e, s) \in Nat /\ Accepted(e, s) + 1 \in Nat
  BY <1>2, <1>3, AddNat, Zenon
<1> QED BY <1>1, <1>2, <1>3, <1>4, Zenon

\* The next chunk goes behind those in the data channel ...
LEMMA AppendChunk ==
  ASSUME NEW q \in Seq(Nat), NEW a \in Nat, NEW b \in Nat, NEW k \in Nat, k = a + b + 1,
         b = Len(q), \A i \in 1..b : q[i] = a + i
  PROVE  /\ a + Len(Append(q, k)) = k
         /\ \A i \in 1..Len(Append(q, k)) : Append(q, k)[i] = a + i
<1>1. /\ Len(Append(q, k)) = b + 1
      /\ \A i \in 1..(b + 1) : Append(q, k)[i] = IF i = b + 1 THEN k ELSE q[i]
  OBVIOUS
<1>2. a + (b + 1) = k
  OBVIOUS
<1>3. \A i \in 1..(b + 1) : Append(q, k)[i] = a + i
  BY <1>1, <1>2
<1> QED BY <1>1, <1>2, <1>3

\* ... and the first of those there goes to the peer.
LEMMA MoveChunk ==
  ASSUME NEW p \in Seq(Nat), NEW q \in Seq(Nat), q # <<>>,
         \A i \in 1..Len(p) : p[i] = i, \A i \in 1..Len(q) : q[i] = Len(p) + i
  PROVE  /\ Head(q) = Len(p) + 1 /\ Len(Append(p, Head(q))) = Len(p) + 1
         /\ Len(Append(p, Head(q))) + Len(Tail(q)) = Len(p) + Len(q)
         /\ \A i \in 1..Len(Append(p, Head(q))) : Append(p, Head(q))[i] = i
         /\ \A i \in 1..Len(Tail(q)) : Tail(q)[i] = Len(Append(p, Head(q))) + i
<1>1. PICK a \in Nat, b \in Nat, h \in Nat : a = Len(p) /\ b = Len(q) /\ h = Head(q)
  OBVIOUS
<1>2. /\ b > 0 /\ h = q[1] /\ Len(Tail(q)) = b - 1
      /\ \A i \in 1..(b - 1) : Tail(q)[i] = q[i + 1]
  BY <1>1
<1>3. h = a + 1
  BY <1>1, <1>2
<1>4. /\ Len(Append(p, h)) = a + 1
      /\ \A i \in 1..(a + 1) : Append(p, h)[i] = IF i = a + 1 THEN h ELSE p[i]
  BY <1>1
<1>5. \A i \in 1..(a + 1) : Append(p, h)[i] = i
  BY <1>1, <1>3, <1>4
<1>6. \A i \in 1..(b - 1) : Tail(q)[i] = a + 1 + i
  BY <1>1, <1>2
<1>7. a + 1 + (b - 1) = a + b
  BY <1>1
<1> QED BY <1>1, <1>2, <1>3, <1>4, <1>5, <1>6, <1>7

\* The data channel of s gets the next chunk.
LEMMA AppendFlow ==
  ASSUME TypeOK, NEW e \in End, NEW s \in Stream, Numbered(e, s), got' = got,
         rx'[e][s] = Append(rx[e][s], Accepted(e, s) + 1)
  PROVE  Numbered(e, s)' /\ Accepted(e, s)' = Accepted(e, s) + 1
<1>1. PICK q \in Seq(Nat), a \in Nat, b \in Nat, k \in Nat :
        /\ q = rx[e][s] /\ a = Len(got[e][s]) /\ b = Len(q) /\ k = Accepted(e, s) + 1
  BY ReceivedType, Zenon
<1>2. k = a + b + 1
  BY <1>1, ReceivedType, Zenon
<1>3. \A i \in 1..b : q[i] = a + i
  BY <1>1, Zenon DEF Numbered
<1>4. a + Len(rx'[e][s]) = k /\ \A i \in 1..Len(rx'[e][s]) : rx'[e][s][i] = a + i
  <2>1. rx'[e][s] = Append(q, k)
    BY <1>1, Zenon
  <2>2. a + Len(Append(q, k)) = k /\ \A i \in 1..Len(Append(q, k)) : Append(q, k)[i] = a + i
    <3>1. b = Len(q)
      BY <1>1
    <3> QED BY <1>2, <1>3, <3>1, AppendChunk
  <2> QED BY <2>1, <2>2, Zenon
<1> QED BY <1>1, <1>4, Zenon DEF Numbered, Accepted

\* The next chunk of stream s reaches its data channel at end e.
LEMMA AcceptFlow ==
  ASSUME IndInv, NEW e \in End, NEW s \in Stream, NEW f, FlowAt(e, s),
         f \in Live(Other(e)), f.id = s, f.arg = Accepted(e, s) + 1,
         chan[e][s] \notin {"none", "closed"},
         \A g : g \in Live(Other(e))' \/ g = f <=> g \in Live(Other(e)),
         \A g \in Live(Other(e))' : Follows(f, g),
         Numbered(e, s)', Accepted(e, s)' = Accepted(e, s) + 1, DataIn(held'[e]) = {},
         UNCHANGED <<sent, chan, pc, peer, link, registry, sink>>
  PROVE  FlowAt(e, s)'
<1> USE EndType, Others
<1>1. PICK o \in End : o = Other(e)
  OBVIOUS
<1>2. PICK n \in Nat, m \in Nat : n = Accepted(e, s) /\ m = sent[o][s]
  BY ReceivedType, Zenon DEF IndInv
<1>3. f.arg = n + 1 /\ Accepted(e, s)' = n + 1
  BY <1>2
<1>4. f.type = "DATA" /\ n + 1 <= m
  <2>1. f.type = "DATA" /\ f.arg \in 1..m
    BY <1>1, <1>2, LiveItems
  <2> QED BY <1>3, <2>1
<1>7. ChanAt(e, s)'
  BY DEF ChanAt
<1>9. ASSUME NEW k \in Flying(o, s), k # n + 1 PROVE k \in Flying(o, s)'
  BY <1>1, <1>3, <1>9 DEF Flying
<1>10. ASSUME s \in registry[e]
       PROVE  /\ \A k \in Flying(o, s)' : k > n + 1 /\ (n + 1 + 1)..k \subseteq Flying(o, s)'
              /\ sink[o] = "on" => (n + 1 + 1)..m \subseteq Flying(o, s)'
  <2>1. /\ \A k \in Flying(o, s) : k > n /\ (n + 1)..k \subseteq Flying(o, s)
        /\ sink[o] = "on" => (n + 1)..m \subseteq Flying(o, s)
    BY <1>1, <1>2, <1>10 DEF FlowAt, ChunkAt
  <2>2. sink[o] = "on" => (n + 1 + 1)..m \subseteq Flying(o, s)'
    BY <1>9, <2>1
  <2>3. ASSUME NEW k \in Flying(o, s)'
        PROVE  k > n + 1 /\ (n + 1 + 1)..k \subseteq Flying(o, s)'
    <3>1. PICK g \in Live(o)' : g.id = s /\ k = g.arg
      BY DEF Flying
    <3>2. g \in Live(o) /\ g.type = "DATA" /\ g.arg \in Nat /\ Follows(f, g)
      BY <1>1, <3>1, LiveItems
    <3>3. k \in Nat /\ k > n + 1 /\ k \in Flying(o, s)
      BY <1>3, <1>4, <3>1, <3>2 DEF Follows, Flying
    <3> QED BY <1>9, <2>1, <3>3
  <2> QED BY <2>2, <2>3
<1>11. ChunkAt(e, s)'
  BY <1>1, <1>2, <1>3, <1>4, <1>10, Zenon DEF ChunkAt
<1>12. FlushAt(e, s)'
  <2>1. n # m
    BY <1>4
  <2> QED BY <1>1, <1>2, <2>1, Zenon DEF FlowAt, FlushAt
<1> QED BY <1>7, <1>11, <1>12 DEF FlowAt

\* The oldest frame of a registered stream that can still arrive carries the
\* next chunk.
LEMMA NextChunk ==
  ASSUME IndInv, NEW e \in End, NEW f, FlowAt(e, f.id), f \in Live(Other(e)),
         \A g \in Live(Other(e)) : g = f \/ Follows(f, g),
         f.id \in registry[e], chan[e][f.id] # "closed"
  PROVE  f.arg = Accepted(e, f.id) + 1 /\ chan[e][f.id] # "none"
<1> USE EndType, Others
<1>1. PICK o \in End : o = Other(e)
  OBVIOUS
<1>2. /\ f.id \in Stream /\ f.type = "DATA" /\ f.arg \in Nat
  BY LiveItems
<1>3. PICK n \in Nat : n = Accepted(e, f.id)
  BY <1>2, ReceivedType DEF IndInv
<1>4. f.arg > n /\ (n + 1)..f.arg \subseteq Flying(o, f.id)
  BY <1>1, <1>2, <1>3 DEF FlowAt, ChunkAt, Flying
<1>5. n + 1 \in Flying(o, f.id)
  BY <1>2, <1>3, <1>4
<1>6. PICK g \in Live(o) : g.id = f.id /\ n + 1 = g.arg
  BY <1>5 DEF Flying
<1>7. g = f \/ f.arg < n + 1
  BY <1>1, <1>2, <1>6, LiveItems DEF Follows
<1>8. chan[e][f.id] # "none"
  BY DEF FlowAt, ChanAt
<1> QED BY <1>2, <1>3, <1>4, <1>6, <1>7, <1>8

\* Loops that neither lose nor gain a chunk.
LEMMA LoopsCalm ==
  ASSUME \A o \in End : Live(o)' = Live(o), \A o \in End : DataIn(held'[o]) \subseteq DataIn(held[o]),
         \A o \in End : sink'[o] = "on" => sink[o] = "on"
  PROVE  \A e \in End, s \in Stream : CalmLoops(e, s)
<1> SUFFICES ASSUME NEW e \in End, NEW s \in Stream PROVE CalmLoops(e, s)
  OBVIOUS
<1>1. Flying(Other(e), s)' = Flying(Other(e), s)
  BY EndType, FlyingSame
<1> QED BY <1>1, EndType DEF CalmLoops

\* A task of one stream at one end moves, and may put a chunk on its way.
LEMMA MoveCalm ==
  ASSUME NEW e \in End, NEW s \in Stream, NEW at, NEW c,
         Sets(pc, pc', e, s, at), pc[e][s] # "done", Sets(chan, chan', e, s, c),
         c = "none" <=> chan[e][s] = "none", c = "closed" <=> chan[e][s] = "closed",
         UNCHANGED <<got, rx, peer, link>>,
         \A o \in End, x \in Stream : o # e \/ x # s => sent'[o][x] = sent[o][x],
         \A o \in End : registry'[o] \subseteq registry[o],
         \A o \in End : \A x \in registry[o] : x \in registry'[o] \/ (o = e /\ x = s /\ at = "done")
  PROVE  \A o \in End, x \in Stream :
           CalmTasks(o, x) \/ (o = Other(e) /\ x = s /\ sent'[e][s] # sent[e][s])
<1> USE EndType, Others
<1> SUFFICES ASSUME NEW o \in End, NEW x \in Stream,
                    o # Other(e) \/ x # s \/ sent'[e][s] = sent[e][s]
             PROVE  CalmTasks(o, x)
  OBVIOUS
<1>1. sent'[Other(o)][x] = sent[Other(o)][x]
  <2>1. CASE x = s /\ Other(o) = e
    BY <2>1
  <2>2. CASE x # s \/ Other(o) # e
    BY <2>2
  <2> QED BY <2>1, <2>2
<1>2. \A a \in End : pc[a][x] = "done" => pc'[a][x] = "done"
  BY DEF Sets
<1>3. /\ chan'[o][x] = "none" <=> chan[o][x] = "none"
      /\ chan'[o][x] = "closed" <=> chan[o][x] = "closed"
  BY DEF Sets
<1>4. x \in registry[o] /\ x \notin registry'[o] => pc'[o][x] = "done"
  BY DEF Sets
<1> QED BY <1>1, <1>2, <1>3, <1>4 DEF CalmTasks

\* Calm everywhere but at one place.
LEMMA FlowOne ==
  ASSUME FlowInv, NEW e \in End, NEW s \in Stream, FlowAt(e, s)',
         \A o \in End, x \in Stream : o # e \/ x # s => CalmTasks(o, x) /\ CalmLoops(o, x)
  PROVE  FlowInv'
BY CalmFlow DEF FlowInv

\* Calm everywhere.
LEMMA FlowNone ==
  ASSUME FlowInv, \A o \in End, x \in Stream : CalmTasks(o, x) /\ CalmLoops(o, x)
  PROVE  FlowInv'
BY CalmFlow DEF FlowInv

\* The pump of stream s at end e puts the next chunk on its way, unless the
\* writer loop is about to drop the channel.
LEMMA TakeFlow ==
  ASSUME IndInv, NEW e \in End, NEW s \in Stream, NEW n \in Nat, FlowAt(Other(e), s),
         n = sent[e][s] + 1, sent'[e][s] = n,
         Live(e)' = Live(e) \cup (IF sink[e] = "on" THEN {Data(s, n)} ELSE {}),
         pc[e][s] # "done", pc'[Other(e)][s] = pc[Other(e)][s],
         chan'[Other(e)][s] = chan[Other(e)][s],
         UNCHANGED <<got, rx, peer, link, registry, sink, held>>
  PROVE  FlowAt(Other(e), s)'
<1> USE EndType, Others
<1>1. PICK o \in End : o = Other(e)
  OBVIOUS
<1>2. PICK a \in Nat, m \in Nat : a = Accepted(o, s) /\ m = sent[e][s]
  BY ReceivedType, Zenon DEF IndInv
<1>3. Accepted(o, s)' = a /\ sent'[e][s] = m + 1 /\ n = m + 1
  BY <1>2 DEF Accepted
<1>4. ChanAt(o, s)'
  BY <1>1 DEF FlowAt, ChanAt
<1>5. Numbered(o, s)'
  BY <1>1 DEF FlowAt, ChunkAt, Numbered
<1>6. Flying(e, s)' = Flying(e, s) \cup (IF sink[e] = "on" THEN {m + 1} ELSE {})
  <2>1. Data(s, n).id = s /\ Data(s, n).arg = m + 1
    BY <1>3 DEF Data
  <2>2. CASE sink[e] = "on"
    BY <2>1, <2>2 DEF Flying
  <2>3. CASE sink[e] # "on"
    BY <2>3 DEF Flying
  <2> QED BY <2>2, <2>3
<1>7. a <= m
  BY <1>1, <1>2 DEF FlowAt, ChunkAt
<1>8. ASSUME s \in registry[o], chan[o][s] # "closed"
      PROVE  /\ \A k \in Flying(e, s)' : k > a /\ (a + 1)..k \subseteq Flying(e, s)'
             /\ sink[e] = "on" => (a + 1)..(m + 1) \subseteq Flying(e, s)'
  <2>1. /\ \A k \in Flying(e, s) : k > a /\ (a + 1)..k \subseteq Flying(e, s)
        /\ sink[e] = "on" => (a + 1)..m \subseteq Flying(e, s)
    BY <1>1, <1>2, <1>8 DEF FlowAt, ChunkAt
  <2>2. sink[e] = "on" => (a + 1)..(m + 1) \subseteq Flying(e, s)'
    BY <1>2, <1>6, <2>1
  <2> QED BY <1>2, <1>6, <1>7, <2>1, <2>2
<1>9. ChunkAt(o, s)'
  <2>1. a <= m + 1
    BY <1>2, <1>7
  <2>2. chan'[o][s] # "closed" => \A f \in DataIn(held'[o]) : f.id = s => f.arg = a + 1
    BY <1>1, <1>2 DEF FlowAt, ChunkAt
  <2>3. o = Other(e) /\ Other(o) = e /\ chan'[o][s] = chan[o][s] /\ registry' = registry /\ sink' = sink
    BY <1>1
  <2> QED BY <1>3, <1>5, <1>8, <2>1, <2>2, <2>3, Zenon DEF ChunkAt
<1>10. FlushAt(o, s)'
  BY <1>1 DEF FlowAt, FlushAt
<1> QED BY <1>1, <1>4, <1>9, <1>10 DEF FlowAt

\* The data channel of stream s at end e is dropped with what is in it.
LEMMA ClosedFlow ==
  ASSUME TypeOK, NEW e \in End, NEW s \in Stream, FlowAt(e, s),
         chan'[e][s] = "closed", rx'[e][s] = <<>>, UNCHANGED <<got, sent>>
  PROVE  ChunkAt(e, s)' /\ Accepted(e, s)' = Len(got[e][s])
<1> USE EndType
<1>1. PICK o \in End : o = Other(e)
  OBVIOUS
<1>2. PICK a \in Nat, b \in Nat, m \in Nat :
        a = Len(got[e][s]) /\ b = Len(rx[e][s]) /\ m = sent[o][s] /\ a + b = Accepted(e, s)
  BY ReceivedType, Zenon
<1>3. a <= m
  <2>1. a + b <= m
    BY <1>1, <1>2 DEF FlowAt, ChunkAt
  <2> QED BY <2>1
<1>4. Len(rx'[e][s]) = 0
  OBVIOUS
<1>5. Accepted(e, s)' = a
  BY <1>2, <1>4 DEF Accepted
<1>6. Numbered(e, s)'
  <2>1. \A i \in 1..Len(got'[e][s]) : got'[e][s][i] = i
    BY DEF FlowAt, ChunkAt, Numbered
  <2>2. \A i \in 1..Len(rx'[e][s]) : FALSE
    BY <1>4
  <2> QED BY <2>1, <2>2, Zenon DEF Numbered
<1> QED BY <1>1, <1>2, <1>3, <1>5, <1>6 DEF ChunkAt

\* The handler returns before the relay.
LEMMA GiveUpFlow ==
  ASSUME TunnelInv, NEW s \in Stream, NEW r, GiveUp(s, r), pc["client"][s] # "done",
         UNCHANGED <<got, sent, peer, link, frames, wire, held, sink>>
  PROVE  FlowInv'
<1> USE EndType, Others
<1>0. TypeOK /\ FlowInv /\ FlowAt("client", s)
  BY DEF TunnelInv, IndInv, FlowInv
<1>1. /\ Sets(pc, pc', "client", s, "done") /\ Sets(chan, chan', "client", s, "closed")
      /\ Sets(rx, rx', "client", s, <<>>)
      /\ registry'["client"] = registry["client"] \ {s}
      /\ registry'["server"] = registry["server"]
  BY <1>0, GiveUpSets
<1>2. \A o \in End, x \in Stream : CalmLoops(o, x)
  BY LiveSame, LoopsCalm
<1>3. ASSUME NEW o \in End, NEW x \in Stream, o # "client" \/ x # s PROVE CalmTasks(o, x)
  <2>1. x \in registry'[o] <=> x \in registry[o]
    BY <1>1, <1>3 DEF End
  <2>2. /\ chan'[o][x] = chan[o][x] /\ rx'[o][x] = rx[o][x]
        /\ \A a \in End : pc[a][x] = "done" => pc'[a][x] = "done"
    BY <1>1, <1>3 DEF Sets
  <2> QED BY <2>1, <2>2 DEF CalmTasks
<1>4. pc'["client"][s] = "done" /\ chan'["client"][s] = "closed" /\ rx'["client"][s] = <<>>
  BY <1>1 DEF Sets
<1>5. ChanAt("client", s)' /\ FlushAt("client", s)'
  BY <1>1, <1>4 DEF ChanAt, FlushAt
<1>6. FlowAt("client", s)'
  BY <1>0, <1>4, <1>5, ClosedFlow DEF FlowAt
<1> QED BY <1>0, <1>2, <1>3, <1>6, FlowOne

\* A new stream: nothing was sent to it.
LEMMA NewFlow ==
  ASSUME TunnelInv, NEW e \in End, NEW s \in Stream, chan[e][s] = "none", sent[Other(e)][s] = 0,
         chan'[e][s] = "waiting", s \in registry'[e], UNCHANGED <<got, rx, sent>>,
         \A o \in End : Live(o)' = Live(o), \A o \in End : DataIn(held'[o]) = DataIn(held[o])
  PROVE  FlowAt(e, s)'
<1> USE EndType, Others
<1>0. IndInv /\ TypeOK /\ FlowAt(e, s)
  BY DEF TunnelInv, IndInv, FlowInv
<1>1. PICK o \in End : o = Other(e)
  OBVIOUS
<1>2. ASSUME NEW f \in Live(o)', f.id = s PROVE FALSE
  <2>1. f.arg \in 1..0
    BY <1>0, <1>1, <1>2, LiveItems
  <2> QED BY <2>1
<1>3. Flying(o, s)' = {}
  BY <1>2 DEF Flying
<1>4. \A f \in DataIn(held'[e]) : f.id # s
  BY <1>0 DEF FlowAt, ChanAt
<1>5. got[e][s] = <<>> /\ rx[e][s] = <<>>
  BY <1>0 DEF FlowAt, ChanAt
<1>6. Numbered(e, s)' /\ Accepted(e, s)' = 0
  BY <1>5 DEF Numbered, Accepted
<1>7. ChunkAt(e, s)'
  BY <1>1, <1>3, <1>4, <1>6 DEF ChunkAt
<1>8. ChanAt(e, s)' /\ FlushAt(e, s)'
  BY <1>4 DEF ChanAt, FlushAt
<1> QED BY <1>7, <1>8 DEF FlowAt

\* A task moves and nothing flows.
LEMMA MoveFlow ==
  ASSUME TunnelInv, NEW e \in End, NEW s \in Stream, NEW at, NEW c,
         Sets(pc, pc', e, s, at), pc[e][s] # "done", Sets(chan, chan', e, s, c),
         c = chan[e][s] \/ (c = "writing" /\ chan[e][s] = "waiting"),
         UNCHANGED <<got, rx, sent, peer, link, sink>>,
         registry' = registry \/ (at = "done" /\ registry' = Unregistered(e, s)),
         \A o \in End : Live(o)' = Live(o), \A o \in End : DataIn(held'[o]) \subseteq DataIn(held[o])
  PROVE  FlowInv'
<1>0. TypeOK /\ FlowInv
  BY DEF TunnelInv, IndInv
<1>1. /\ \A o \in End : registry'[o] \subseteq registry[o]
      /\ \A o \in End : \A x \in registry[o] : x \in registry'[o] \/ (o = e /\ x = s /\ at = "done")
  <2>1. registry \in [End -> SUBSET Stream]
    BY <1>0, Tables
  <2> QED BY <2>1 DEF Unregistered
<1>2. \A o \in End, x \in Stream : CalmTasks(o, x)
  BY <1>1, MoveCalm
<1>3. \A o \in End, x \in Stream : CalmLoops(o, x)
  BY LoopsCalm
<1> QED BY <1>0, <1>2, <1>3, FlowNone

\* A task puts the next chunk on its way.
LEMMA TakeKeeps ==
  ASSUME TunnelInv, NEW e \in End, NEW s \in Stream, NEW at, NEW c, NEW n \in Nat,
         Sets(pc, pc', e, s, at), pc[e][s] # "done", Sets(chan, chan', e, s, c),
         c = chan[e][s] \/ (c = "writing" /\ chan[e][s] = "waiting"),
         n = sent[e][s] + 1, Sets(sent, sent', e, s, n), Send(e, Data(s, n)),
         UNCHANGED <<got, rx, peer, link, sink, registry, held, wire>>
  PROVE  FlowInv'
<1> USE EndType, Others
<1>0. IndInv /\ TypeOK /\ FlowInv
  BY DEF TunnelInv, IndInv
<1>1. /\ Live(e)' = Live(e) \cup (IF sink[e] = "on" THEN {Data(s, n)} ELSE {})
      /\ Live(Other(e))' = Live(Other(e))
  <2>1. Data(s, n) \in Frame /\ Data(s, n).type = "DATA"
    BY FrameType DEF Data
  <2>2. {g \in {Data(s, n)} : g.type = "DATA"} = {Data(s, n)}
    BY <2>1
  <2> QED BY <1>0, <2>1, <2>2, LiveSend
<1>2. \A o \in End, x \in Stream : CalmTasks(o, x) \/ (o = Other(e) /\ x = s)
  <2>1. \A o \in End, x \in Stream : o # e \/ x # s => sent'[o][x] = sent[o][x]
    BY DEF Sets
  <2> QED BY <2>1, MoveCalm
<1>3. ASSUME NEW o \in End, NEW x \in Stream, o # Other(e) \/ x # s PROVE CalmLoops(o, x)
  <2>1. \A f : f.id = x => (f \in Live(Other(o))' <=> f \in Live(Other(o)))
    <3>1. CASE o = e
      BY <1>1, <3>1
    <3>2. CASE o = Other(e)
      <4>1. Data(s, n).id # x
        BY <1>3, <3>2 DEF Data
      <4> QED BY <1>1, <3>2, <4>1
    <3> QED BY <3>1, <3>2 DEF End, Other
  <2>2. Flying(Other(o), x)' = Flying(Other(o), x)
    BY <2>1, FlyingSame
  <2> QED BY <2>2 DEF CalmLoops
<1>4. FlowAt(Other(e), s)'
  <2>1. /\ sent'[e][s] = n /\ pc'[Other(e)][s] = pc[Other(e)][s]
        /\ chan'[Other(e)][s] = chan[Other(e)][s]
    BY DEF Sets
  <2> QED BY <1>0, <1>1, <2>1, TakeFlow DEF FlowInv
<1> QED BY <1>0, <1>2, <1>3, <1>4, FlowOne

\* The steps of a request handler.
LEMMA HandlerFlow ==
  ASSUME TunnelInv, NEW s \in Stream, Handler(s) PROVE FlowInv'
<1> USE EndType, Others
<1>0. /\ TypeOK /\ FlowInv /\ ClientOpenAt(s) /\ ServerOpenAt(s) /\ ServerInv /\ IndInv
      /\ UNCHANGED <<got, peer, link, wire, held, sink>>
  BY DEF TunnelInv, IndInv, OpenInv, Handler, Snapshot, Register, InsertAck, SendOpen, AckArrives,
    AckTimeout, ReplyConnect, ForwardRequest, session, traffic
<1>1. ASSUME NEW at, Goto(s, at), pc["client"][s] # "done", UNCHANGED <<chan, registry, rx, sent>>,
             \A o \in End : Live(o)' = Live(o)
      PROVE  FlowInv'
  BY <1>0, <1>1, GotoSets, MoveFlow
<1>2. ASSUME frames' = frames PROVE \A o \in End : Live(o)' = Live(o)
  BY <1>0, <1>2, LiveSame
<1>3. CASE Snapshot(s)
  <2>1. /\ pc["client"][s] # "done" /\ UNCHANGED <<chan, registry, rx, sent, frames>>
        /\ Goto(s, "register") \/ Goto(s, "done")
    BY <1>3 DEF Snapshot, session, traffic
  <2> QED BY <1>1, <1>2, <2>1
<1>4. CASE Register(s)
  <2>1. /\ pc["client"][s] = "register" /\ registry' = Registered("client", s)
        /\ UNCHANGED <<rx, sent, frames>>
        /\ Sets(chan, chan', "client", s, "waiting") /\ Sets(pc, pc', "client", s, "insert")
    BY <1>0, <1>4, SetsAt, Tables DEF Register, Goto, session, traffic
  <2>2. registry'["client"] = registry["client"] \cup {s} /\ registry'["server"] = registry["server"]
    BY <1>0, <2>1, Tables DEF Registered
  <2>3. ASSUME NEW o \in End, NEW x \in Stream, o # "client" \/ x # s
        PROVE  CalmTasks(o, x) /\ CalmLoops(o, x)
    <3>1. x \in registry'[o] <=> x \in registry[o]
      BY <2>2, <2>3 DEF End
    <3>2. /\ chan'[o][x] = chan[o][x]
          /\ \A a \in End : pc[a][x] = "done" => pc'[a][x] = "done"
      BY <2>1, <2>3 DEF Sets
    <3> QED BY <1>0, <1>2, <2>1, <3>1, <3>2, LoopsCalm DEF CalmTasks
  <2>4. chan["client"][s] = "none" /\ sent["server"][s] = 0
    BY <1>0, <2>1 DEF ClientOpenAt, ServerOpenAt, ServerInv, Opening, Fresh
  <2>5. chan'["client"][s] = "waiting" /\ s \in registry'["client"]
    BY <2>1, <2>2 DEF Sets
  <2>6. FlowAt("client", s)'
    BY <1>0, <1>2, <2>1, <2>4, <2>5, NewFlow
  <2> QED BY <1>0, <2>3, <2>6, FlowOne
<1>5. CASE InsertAck(s)
  <2>1. /\ pc["client"][s] # "done" /\ UNCHANGED <<chan, registry, rx, sent, frames>>
        /\ Goto(s, "open")
    BY <1>5 DEF InsertAck, session, traffic
  <2> QED BY <1>1, <1>2, <2>1
<1>6. CASE SendOpen(s) /\ Send("client", Open(s)) /\ Goto(s, "wait") /\ UNCHANGED <<chan, registry, rx>>
  <2>1. pc["client"][s] # "done" /\ sent' = sent
    BY <1>6 DEF SendOpen, traffic
  <2>2. \A o \in End : Live(o)' = Live(o)
    <3>1. Open(s) \in Frame /\ Open(s).type # "DATA"
      BY FrameType DEF Open
    <3>2. {g \in {Open(s)} : g.type = "DATA"} = {}
      BY <3>1
    <3> QED BY <1>0, <1>6, <3>1, <3>2, LiveSend DEF End
  <2> QED BY <1>1, <1>6, <2>1, <2>2
<1>7. ASSUME NEW r, GiveUp(s, r), UNCHANGED <<sent, frames>>, pc["client"][s] # "done"
      PROVE  FlowInv'
  BY <1>0, <1>7, GiveUpFlow
<1>8. CASE AckArrives(s) /\ ~GiveUp(s, "err")
  <2>1. /\ pc["client"][s] # "done" /\ UNCHANGED <<chan, registry, rx, sent, frames>>
        /\ Goto(s, "reply")
    BY <1>8 DEF AckArrives, session, traffic
  <2> QED BY <1>1, <1>2, <2>1
<1>9. CASE ReplyConnect(s) /\ ~GiveUp(s, "none")
  <2>1. /\ pc["client"][s] = "reply" /\ UNCHANGED <<registry, rx, sent, frames>>
        /\ Sets(pc, pc', "client", s, "relay") /\ Sets(chan, chan', "client", s, "writing")
    BY <1>0, <1>9, StartRelaySets DEF ReplyConnect, session, traffic
  <2>2. chan["client"][s] = "waiting"
    BY <1>0, <2>1 DEF ClientOpenAt
  <2> QED BY <1>0, <1>2, <2>1, <2>2, MoveFlow
<1>10. CASE ForwardRequest(s) /\ ~GiveUp(s, "none")
  <2>1. /\ pc["client"][s] = "reply" /\ UNCHANGED <<registry, rx>> /\ Send("client", Data(s, 1))
        /\ Sets(pc, pc', "client", s, "relay") /\ Sets(chan, chan', "client", s, "writing")
        /\ Sets(sent, sent', "client", s, 1)
    BY <1>0, <1>10, StartRelaySets, SetsAt DEF ForwardRequest
  <2>2. chan["client"][s] = "waiting" /\ sent["client"][s] = 0
    BY <1>0, <2>1 DEF ClientOpenAt, IndInv, SentInv, Early
  <2>3. 1 \in Nat /\ 1 = sent["client"][s] + 1
    BY <2>2
  <2> QED BY <1>0, <2>1, <2>2, <2>3, TakeKeeps
<1>11. CASE SendOpen(s)
  <2>1. \/ Send("client", Open(s)) /\ Goto(s, "wait") /\ UNCHANGED <<chan, registry, rx>>
        \/ GiveUp(s, IF s \in Socks THEN "err" ELSE "none") /\ UNCHANGED <<sent, frames>>
    BY <1>11 DEF SendOpen, traffic
  <2>2. pc["client"][s] # "done"
    BY <1>11 DEF SendOpen
  <2> QED BY <1>6, <1>7, <1>11, <2>1, <2>2
<1>12. CASE AckArrives(s) \/ AckTimeout(s)
  BY <1>7, <1>8, <1>12 DEF AckArrives, AckTimeout, session, traffic
<1>13. CASE ReplyConnect(s) \/ ForwardRequest(s)
  <2>1. pc["client"][s] # "done"
    BY <1>13 DEF ReplyConnect, ForwardRequest
  <2>2. GiveUp(s, "none") /\ ReplyConnect(s) => UNCHANGED <<sent, frames>>
    BY DEF ReplyConnect, session, traffic
  <2>3. GiveUp(s, "none") /\ ForwardRequest(s) => UNCHANGED <<sent, frames>>
    <3>1. ASSUME GiveUp(s, "none"), StartRelay("client", s) PROVE FALSE
      <4>1. pc'["client"][s] = "done" /\ pc'["client"][s] = "relay"
        BY <1>0, <3>1, GiveUpSets, StartRelaySets DEF Sets
      <4> QED BY <4>1
    <3> QED BY <3>1 DEF ForwardRequest
  <2> QED BY <1>7, <1>9, <1>10, <1>13, <2>1, <2>2, <2>3
<1> QED BY <1>3, <1>4, <1>5, <1>11, <1>12, <1>13 DEF Handler

\* The steps of a pump.
LEMMA PumpFlow ==
  ASSUME TunnelInv, NEW e \in End, NEW s \in Stream,
         PumpData(e, s) \/ PumpFails(e, s) \/ PumpEof(e, s) \/ PumpClose(e, s)
  PROVE  FlowInv'
<1> USE EndType, Others
<1>0. /\ TypeOK /\ pc[e][s] # "done" /\ UNCHANGED <<got, rx, peer, link, sink, chan, held, wire>>
      /\ Sets(chan, chan', e, s, chan[e][s])
  BY DEF TunnelInv, IndInv, PumpData, PumpFails, PumpEof, PumpClose, streams, session, traffic, Sets
<1>1. CASE PumpData(e, s)
  <2>1. /\ Send(e, Data(s, sent[e][s] + 1)) /\ sent' = [sent EXCEPT ![e][s] = sent[e][s] + 1]
        /\ pc' = pc /\ registry' = registry
    BY <1>1 DEF PumpData, streams
  <2>0. sent \in [End -> [Stream -> Nat]]
    BY <1>0, Tables
  <2>2. PICK n \in Nat : n = sent[e][s] + 1
    BY <2>0
  <2>3. Sets(sent, sent', e, s, n)
    BY <1>0, <2>1, <2>2, SetsAt
  <2>4. Sets(pc, pc', e, s, pc[e][s])
    BY <2>1 DEF Sets
  <2> QED BY <1>0, <2>1, <2>2, <2>3, <2>4, TakeKeeps
<1>2. ASSUME NEW at, pc' = [pc EXCEPT ![e][s] = at], sent' = sent,
             registry' = registry \/ (at = "done" /\ registry' = Unregistered(e, s)),
             \A o \in End : Live(o)' = Live(o)
      PROVE  FlowInv'
  <2>1. Sets(pc, pc', e, s, at)
    BY <1>0, <1>2, SetsAt
  <2> QED BY <1>0, <1>2, <2>1, MoveFlow
<1>3. CASE PumpFails(e, s) \/ PumpEof(e, s)
  <2>1. /\ pc' = [pc EXCEPT ![e][s] = "closing"] /\ UNCHANGED <<sent, registry, frames>>
    BY <1>3 DEF PumpFails, PumpEof, session, traffic
  <2>2. \A o \in End : Live(o)' = Live(o)
    BY <1>0, <2>1, LiveSame
  <2> QED BY <1>2, <2>1, <2>2
<1>4. CASE PumpClose(e, s)
  <2>1. /\ pc' = [pc EXCEPT ![e][s] = "done"] /\ sent' = sent /\ registry' = Unregistered(e, s)
        /\ Send(e, Close(s)) \/ frames' = frames
    BY <1>4 DEF PumpClose, SendOrIgnore, traffic
  <2>2. \A o \in End : Live(o)' = Live(o)
    <3>1. Close(s) \in Frame /\ Close(s).type # "DATA"
      BY FrameType DEF Close
    <3>2. {g \in {Close(s)} : g.type = "DATA"} = {}
      BY <3>1
    <3>3. CASE Send(e, Close(s))
      <4>1. Live(e)' = Live(e) /\ Live(Other(e))' = Live(Other(e))
        BY <1>0, <3>1, <3>2, <3>3, LiveSend
      <4> QED BY <4>1 DEF End, Other
    <3>4. CASE frames' = frames
      BY <1>0, <3>4, LiveSame
    <3> QED BY <2>1, <3>3, <3>4
  <2> QED BY <1>2, <2>1, <2>2
<1> QED BY <1>1, <1>3, <1>4

\* write_task writes the first chunk of the data channel to the peer.
LEMMA DeliverFlow ==
  ASSUME TunnelInv, NEW e \in End, NEW s \in Stream, WriteChunk(e, s), peer[e][s] # "reset"
  PROVE  /\ FlowAt(e, s)'
         /\ Head(rx[e][s]) = Len(got[e][s]) + 1
         /\ Len(got[e][s]) + 1 <= sent[Other(e)][s]
<1> USE EndType, Others
<1>0. TypeOK /\ FlowAt(e, s) /\ Numbered(e, s)
  BY DEF TunnelInv, IndInv, FlowInv, FlowAt, ChunkAt
<1>1. /\ chan[e][s] = "writing" /\ rx[e][s] # <<>>
      /\ got' = [got EXCEPT ![e][s] = Append(got[e][s], Head(rx[e][s]))]
      /\ rx' = [rx EXCEPT ![e][s] = Tail(rx[e][s])]
      /\ UNCHANGED <<chan, pc, registry, held, sink, link, peer, sent, frames, wire>>
  BY DEF WriteChunk, CanWrite, session
<1>2. PICK p \in Seq(Nat), q \in Seq(Nat) : p = got[e][s] /\ q = rx[e][s]
  BY <1>0, ReceivedType
<1>3. /\ got'[e][s] = Append(p, Head(q)) /\ rx'[e][s] = Tail(q) /\ q # <<>>
  <2>1. got \in [End -> [Stream -> Seq(Nat)]] /\ rx \in [End -> [Stream -> Seq(Nat)]]
    BY <1>0, Tables
  <2> QED BY <1>1, <1>2, <2>1
<1>4. /\ \A i \in 1..Len(p) : p[i] = i
      /\ \A i \in 1..Len(q) : q[i] = Len(p) + i
  BY <1>0, <1>2 DEF Numbered
<1>5. /\ Head(q) = Len(p) + 1 /\ Len(Append(p, Head(q))) = Len(p) + 1
      /\ Len(Append(p, Head(q))) + Len(Tail(q)) = Len(p) + Len(q)
      /\ \A i \in 1..Len(Append(p, Head(q))) : Append(p, Head(q))[i] = i
      /\ \A i \in 1..Len(Tail(q)) : Tail(q)[i] = Len(Append(p, Head(q))) + i
  BY <1>3, <1>4, MoveChunk
<1>6. Numbered(e, s)' /\ Accepted(e, s)' = Accepted(e, s)
  BY <1>2, <1>3, <1>5, Zenon DEF Numbered, Accepted
<1>7. ChanAt(e, s)'
  BY <1>0, <1>1 DEF FlowAt, ChanAt
<1>8. \A o \in End : Live(o)' = Live(o)
  BY <1>1, LiveSame
<1>9. Flying(Other(e), s)' = Flying(Other(e), s)
  BY <1>8, FlyingSame
<1>10. ChunkAt(e, s)'
  BY <1>0, <1>1, <1>6, <1>9, Zenon DEF FlowAt, ChunkAt
<1>11. FlushAt(e, s)'
  BY <1>0, <1>1, <1>6, Zenon DEF FlowAt, FlushAt
<1>12. Len(p) + 1 <= sent[Other(e)][s]
  <2>1. PICK a \in Nat, b \in Nat, m \in Nat : a = Len(p) /\ b = Len(q) /\ m = sent[Other(e)][s]
    BY <1>0, <1>2, ReceivedType, Zenon
  <2>2. a + b <= m
    BY <1>0, <1>2, <2>1, Zenon DEF FlowAt, ChunkAt, Accepted
  <2>3. b > 0
    BY <1>3, <2>1
  <2>4. a + 1 <= m
    BY <2>2, <2>3
  <2> QED BY <2>1, <2>4, Zenon
<1> QED BY <1>2, <1>5, <1>7, <1>10, <1>11, <1>12, Zenon DEF FlowAt

\* The steps of write_task.
LEMMA WriteFlow ==
  ASSUME TunnelInv, NEW e \in End, NEW s \in Stream, WriteChunk(e, s) \/ WriteEnds(e, s)
  PROVE  FlowInv'
<1> USE EndType, Others
<1>0. /\ TypeOK /\ FlowInv /\ FlowAt(e, s)
      /\ UNCHANGED <<pc, registry, held, sink, link, peer, sent, frames, wire>>
  BY DEF TunnelInv, IndInv, FlowInv, WriteChunk, CanWrite, WriteEnds, session, traffic
<1>1. \A o \in End, x \in Stream : CalmLoops(o, x)
  BY <1>0, LiveSame, LoopsCalm
<1>2. ASSUME NEW o \in End, NEW x \in Stream, o # e \/ x # s PROVE CalmTasks(o, x)
  <2>1. chan'[o][x] = chan[o][x]
    <3>1. chan' = chan \/ chan' = [chan EXCEPT ![e][s] = "closed"]
      BY DEF WriteChunk, CanWrite, WriteEnds
    <3>2. chan' = chan \/ Sets(chan, chan', e, s, "closed")
      BY <1>0, <3>1, SetsAt
    <3> QED BY <1>2, <3>2 DEF Sets
  <2>2. rx'[o][x] = rx[o][x]
    <3>1. rx' = rx \/ rx' = [rx EXCEPT ![e][s] = <<>>] \/ rx' = [rx EXCEPT ![e][s] = Tail(rx[e][s])]
      BY DEF WriteChunk, CanWrite, WriteEnds
    <3>2. rx' = rx \/ Sets(rx, rx', e, s, <<>>) \/ Sets(rx, rx', e, s, Tail(rx[e][s]))
      BY <1>0, <3>1, SetsAt
    <3> QED BY <1>2, <3>2 DEF Sets
  <2>3. got'[o][x] = got[o][x]
    <3>1. got' = got \/ got' = [got EXCEPT ![e][s] = Append(got[e][s], Head(rx[e][s]))]
      BY DEF WriteChunk, CanWrite, WriteEnds, traffic
    <3>2. got' = got \/ Sets(got, got', e, s, Append(got[e][s], Head(rx[e][s])))
      BY <1>0, <3>1, SetsAt
    <3> QED BY <1>2, <3>2 DEF Sets
  <2> QED BY <1>0, <2>1, <2>2, <2>3 DEF CalmTasks
<1>3. FlowAt(e, s)'
  <2>1. CASE WriteChunk(e, s) /\ peer[e][s] # "reset"
    BY <2>1, DeliverFlow
  <2>2. CASE WriteChunk(e, s) /\ peer[e][s] = "reset"
    <3>1. /\ chan' = [chan EXCEPT ![e][s] = "closed"] /\ rx' = [rx EXCEPT ![e][s] = <<>>]
          /\ got' = got /\ chan[e][s] = "writing"
      BY <2>2 DEF WriteChunk, CanWrite
    <3>2. chan'[e][s] = "closed" /\ rx'[e][s] = <<>>
      BY <1>0, <3>1, Tables
    <3>3. ChunkAt(e, s)'
      BY <1>0, <3>1, <3>2, ClosedFlow
    <3>4. ChanAt(e, s)' /\ FlushAt(e, s)'
      BY <1>0, <2>2, <3>1, <3>2 DEF FlowAt, ChanAt, FlushAt
    <3> QED BY <3>3, <3>4 DEF FlowAt
  <2>3. CASE WriteEnds(e, s)
    <3>1. /\ chan' = [chan EXCEPT ![e][s] = "closed"] /\ rx[e][s] = <<>> /\ rx' = rx
          /\ got' = got /\ chan[e][s] = "writing" /\ s \notin registry[e]
      BY <2>3 DEF WriteEnds, traffic
    <3>2. chan'[e][s] = "closed" /\ rx'[e][s] = <<>>
      BY <1>0, <3>1, Tables
    <3>3. ChunkAt(e, s)' /\ Accepted(e, s)' = Len(got[e][s])
      BY <1>0, <3>1, <3>2, ClosedFlow
    <3>4. Accepted(e, s)' = Accepted(e, s)
      BY <3>1 DEF Accepted
    <3>5. ChanAt(e, s)'
      BY <1>0, <3>1, <3>2 DEF FlowAt, ChanAt
    <3>6. FlushAt(e, s)'
      BY <1>0, <3>1, <3>2, <3>3, <3>4, Zenon DEF FlowAt, FlushAt
    <3> QED BY <3>3, <3>5, <3>6 DEF FlowAt
  <2> QED BY <2>1, <2>2, <2>3
<1> QED BY <1>0, <1>1, <1>2, <1>3, FlowOne

\* The tasks stand still; streams leave a registry because the link is down.
LEMMA StillCalm ==
  ASSUME UNCHANGED <<got, rx, sent, chan, pc>>, link = "down" => link' = "down",
         \A e \in End, s \in Stream : peer[e][s] = "reset" => peer'[e][s] = "reset",
         registry' = registry \/ (link' = "down" /\ \A e \in End : registry'[e] \subseteq registry[e])
  PROVE  \A e \in End, s \in Stream : CalmTasks(e, s)
BY DEF CalmTasks

\* The writer loop.
LEMMA SinkFlow ==
  ASSUME TunnelInv, IndInv', NEW e \in End, Sink(e) PROVE FlowInv'
<1> USE EndType, Others
<1>0. /\ IndInv /\ TypeOK /\ OrderInv /\ FlowInv
      /\ UNCHANGED <<got, rx, sent, chan, pc, peer, link, held>>
  BY DEF TunnelInv, IndInv, Sink, Transmit, CanTransmit, SinkStops, SinkDrops, streams, traffic
<1>1. CASE Transmit(e) \/ SinkDrops(e)
  <2>1. registry' = registry /\ \A o \in End : sink'[o] = "on" => sink[o] = "on"
    BY <1>0, <1>1 DEF Transmit, CanTransmit, SinkDrops, streams, TypeOK, SessionOK
  <2>2. \A o \in End : Live(o)' = Live(o)
    BY <1>0, <1>1, LiveTransmit
  <2> QED BY <1>0, <2>1, <2>2, StillCalm, LoopsCalm, FlowNone
<1>2. CASE SinkStops(e)
  <2>1. PICK o \in End : o = Other(e)
    OBVIOUS
  <2>2. /\ sink'[e] = "closing" /\ sink'[o] = sink[o] /\ sink[e] = "on" /\ link' = "down"
    BY <1>0, <1>2, <2>1 DEF SinkStops, TypeOK, SessionOK, IndInv, DownInv
  <2>3. \A a \in End : registry'[a] \subseteq registry[a]
    <3>1. registry \in [End -> SUBSET Stream]
      BY <1>0, Tables
    <3> QED BY <1>2, <3>1 DEF SinkStops
  <2>4. \A a \in End, x \in Stream : CalmTasks(a, x)
    BY <1>0, <2>2, <2>3, StillCalm
  <2>5. /\ Live(e)' \subseteq Live(e) /\ Live(o)' = Live(o)
        /\ \A f \in Live(e)', g \in Live(e) : g \in Live(e)' \/ Follows(f, g)
    BY <1>0, <1>2, <2>1, LiveStop
  <2>6. \A x \in Stream : CalmLoops(e, x)
    BY <1>0, <2>1, <2>2, <2>5, FlyingSame DEF CalmLoops
  <2>7. ASSUME NEW x \in Stream PROVE FlowAt(o, x)'
    <3>0. FlowAt(o, x) /\ CalmTasks(o, x) /\ Other(o) = e
      BY <1>0, <2>1, <2>4 DEF FlowInv
    <3>1. PICK n \in Nat : n = Accepted(o, x)
      BY <1>0, ReceivedType
    <3>2. Accepted(o, x)' = n /\ Numbered(o, x)'
      BY <1>0, <3>0, <3>1 DEF Accepted, FlowAt, ChunkAt, Numbered
    <3>3. ASSUME x \in registry[o], chan[o][x] # "closed", NEW k \in Flying(e, x)'
          PROVE  k > n /\ (n + 1)..k \subseteq Flying(e, x)'
      <4>1. PICK f \in Live(e)' : f.id = x /\ f.arg = k
        BY DEF Flying
      <4>2. f \in Live(e) /\ k \in Nat /\ f.type = "DATA" /\ k \in Flying(e, x)
        BY <1>0, <2>5, <4>1, LiveItems DEF Flying
      <4>3. k > n /\ (n + 1)..k \subseteq Flying(e, x)
        BY <3>0, <3>1, <3>3, <4>2 DEF FlowAt, ChunkAt
      <4>4. ASSUME NEW j \in (n + 1)..k PROVE j \in Flying(e, x)'
        <5>1. PICK g \in Live(e) : g.id = x /\ g.arg = j
          BY <4>3 DEF Flying
        <5>2. g \in Live(e)' \/ k < j
          BY <1>0, <2>5, <4>1, <4>2, <5>1, LiveItems DEF Follows
        <5>3. g \in Live(e)'
          BY <3>1, <4>2, <4>4, <5>2
        <5> QED BY <5>1, <5>3 DEF Flying
      <4> QED BY <4>3, <4>4
    <3>4. ChanAt(o, x)' /\ FlushAt(o, x)'
      BY <1>0, <2>2, <2>3, <3>0 DEF FlowAt, ChanAt, FlushAt
    <3>5. n <= sent[e][x] /\ (chan[o][x] # "closed" => \A f \in DataIn(held[o]) : f.id = x => f.arg = n + 1)
      BY <3>0, <3>1 DEF FlowAt, ChunkAt
    <3>6. ChunkAt(o, x)'
      BY <1>0, <2>2, <2>3, <3>0, <3>2, <3>3, <3>5, Zenon DEF ChunkAt
    <3> QED BY <3>4, <3>6 DEF FlowAt
  <2>8. \A x \in Stream : FlowAt(e, x)'
    BY <1>0, <2>4, <2>6, CalmFlow DEF FlowInv
  <2>9. \A a \in End : a = e \/ a = o
    BY <2>1 DEF End, Other
  <2> QED BY <2>7, <2>8, <2>9 DEF FlowInv
<1> QED BY <1>1, <1>2 DEF Sink

\* The readers that stop, the keeper, the peers and the link.
LEMMA StillFlow ==
  ASSUME TunnelInv,
         \/ \E e \in End : ReaderStops(e)
         \/ DropAcks \/ Keeper \/ LinkFails
         \/ \E e \in End, s \in Stream : PeerLeaves(e, s)
  PROVE  FlowInv'
<1>0. /\ TypeOK /\ DownInv /\ FlowInv
      /\ UNCHANGED <<got, rx, sent, chan, pc, frames, wire, held, sink>>
  BY DEF TunnelInv, IndInv, ReaderStops, DropAcks, Keeper, KeeperTakes, KeeperCloses, LinkFails,
    PeerLeaves, streams, session, traffic
<1>1. link = "down" => link' = "down"
  BY DEF ReaderStops, DropAcks, Keeper, KeeperTakes, KeeperCloses, LinkFails, PeerLeaves, session
<1>2. \A e \in End, s \in Stream : peer[e][s] = "reset" => peer'[e][s] = "reset"
  <2>1. peer \in [End -> [Stream -> PeerState]]
    BY <1>0, Tables
  <2>2. ASSUME NEW e \in End, NEW s \in Stream, PeerLeaves(e, s)
        PROVE  \A o \in End, x \in Stream : peer[o][x] = "reset" => peer'[o][x] = "reset"
    <3>1. PICK how : peer' = [peer EXCEPT ![e][s] = how] /\ peer[e][s] # "reset"
      BY <2>2 DEF PeerLeaves
    <3>2. Sets(peer, peer', e, s, how)
      BY <1>0, <3>1, SetsAt
    <3> QED BY <3>1, <3>2 DEF Sets
  <2>3. CASE peer' = peer
    BY <2>3
  <2> QED BY <2>2, <2>3 DEF ReaderStops, DropAcks, Keeper, KeeperTakes, KeeperCloses, LinkFails, traffic
<1>3. registry' = registry \/ (link' = "down" /\ \A e \in End : registry'[e] \subseteq registry[e])
  <2>1. registry \in [End -> SUBSET Stream]
    BY <1>0, Tables
  <2>2. CASE \E e \in End : ReaderStops(e)
    BY <2>1, <2>2 DEF ReaderStops
  <2>3. CASE KeeperCloses
    BY <1>0, <2>1, <2>3 DEF KeeperCloses, DownInv, session
  <2>4. CASE registry' = registry
    BY <2>4
  <2> QED BY <2>2, <2>3, <2>4 DEF DropAcks, Keeper, KeeperTakes, LinkFails, PeerLeaves, streams
<1>4. \A e \in End, s \in Stream : CalmTasks(e, s)
  BY <1>0, <1>1, <1>2, <1>3, StillCalm
<1>5. \A e \in End, s \in Stream : CalmLoops(e, s)
  BY <1>0, LiveSame, LoopsCalm
<1> QED BY <1>0, <1>4, <1>5, FlowNone

\* One data channel gets a chunk, and the rest of the tasks stands still.
LEMMA RxCalm ==
  ASSUME TypeOK, NEW e \in End, NEW s \in Stream, NEW q,
         rx' = rx \/ rx' = [rx EXCEPT ![e][s] = q],
         UNCHANGED <<got, sent, chan, pc, peer, link, registry>>
  PROVE  \A o \in End, x \in Stream : o # e \/ x # s \/ rx' = rx => CalmTasks(o, x)
<1>1. rx' = rx \/ Sets(rx, rx', e, s, q)
  BY SetsAt
<1>2. \A o \in End, x \in Stream : o # e \/ x # s \/ rx' = rx => rx'[o][x] = rx[o][x]
  BY <1>1 DEF Sets
<1> QED BY <1>2 DEF CalmTasks

\* The reader of end e is done with the chunk f: the chunks of other streams are
\* still on their way.
LEMMA GoneCalm ==
  ASSUME NEW e \in End, NEW f, Live(e)' = Live(e), UNCHANGED sink,
         \A g : g \in Live(Other(e))' \/ g = f <=> g \in Live(Other(e)),
         \A o \in End : DataIn(held'[o]) \subseteq DataIn(held[o])
  PROVE  \A o \in End, x \in Stream : o # e \/ x # f.id => CalmLoops(o, x)
<1> USE EndType, Others
<1> SUFFICES ASSUME NEW o \in End, NEW x \in Stream, o # e \/ x # f.id PROVE CalmLoops(o, x)
  OBVIOUS
<1>1. \A g : g.id = x => (g \in Live(Other(o))' <=> g \in Live(Other(o)))
  <2>1. CASE o = e
    BY <2>1
  <2>2. CASE o # e
    <3>1. Other(o) = e
      BY <2>2 DEF End, Other
    <3> QED BY <3>1
  <2> QED BY <2>1, <2>2
<1>2. Flying(Other(o), x)' = Flying(Other(o), x)
  BY <1>1, FlyingSame
<1> QED BY <1>2 DEF CalmLoops

\* The reader takes a chunk off the wire: it goes to its channel, is held because
\* the channel is full, or nobody is there for it.
LEMMA ReceiveDataFlow ==
  ASSUME TunnelInv, NEW e \in End, ReceiveData(e) PROVE FlowInv'
<1> USE EndType, Others
<1>0. /\ IndInv /\ TypeOK /\ OrderInv /\ FlowInv /\ Receive(e, "DATA")
      /\ UNCHANGED <<got, sent, chan, pc, peer, link, registry, frames, sink>>
  BY DEF TunnelInv, IndInv, ReceiveData, traffic
<1>1. PICK f \in Frame : f = Arriving(e)
  BY <1>0, ReceiveType
<1>2. PICK s \in Stream : s = f.id
  BY DEF Frame
<1>3. PICK o \in End : o = Other(e)
  OBVIOUS
<1>4. FlowAt(e, s)
  BY <1>0 DEF FlowInv
<1>5. CASE UNCHANGED <<rx, held>> /\ (s \notin registry[e] \/ chan[e][s] = "closed")
  <2>1. /\ Live(e)' = Live(e)
        /\ \A g : g \in Live(o)' \/ g = f <=> g \in Live(o)
    BY <1>0, <1>1, <1>3, <1>5, LiveReceive
  <2>2. \A a \in End, x \in Stream : a # e \/ x # s => CalmLoops(a, x)
    BY <1>0, <1>2, <1>3, <1>5, <2>1, GoneCalm
  <2>3. \A a \in End, x \in Stream : CalmTasks(a, x)
    BY <1>0, <1>5, StillCalm
  <2>4. CalmLoops(e, s)
    BY <1>0, <1>5 DEF CalmLoops
  <2> QED BY <1>0, <2>2, <2>3, <2>4, FlowNone
<1>6. ASSUME s \in registry[e], chan[e][s] # "closed", f \in Live(o),
             \A g \in Live(o) : g = f \/ Follows(f, g)
      PROVE  f.arg = Accepted(e, s) + 1 /\ chan[e][s] # "none"
  BY <1>0, <1>2, <1>3, <1>4, <1>6, NextChunk
<1>7. CASE /\ s \in registry[e] /\ chan[e][s] # "closed" /\ held' = held
           /\ rx' = [rx EXCEPT ![e][s] = Append(rx[e][s], f.arg)]
  <2>1. /\ Live(e)' = Live(e) /\ f \in Live(o) /\ DataIn(held[e]) = {}
        /\ \A g : g \in Live(o)' \/ g = f <=> g \in Live(o)
        /\ \A g \in Live(o)' : Follows(f, g)
        /\ \A g \in Live(o) : g = f \/ Follows(f, g)
    BY <1>0, <1>1, <1>3, <1>7, LiveReceive
  <2>2. \A a \in End, x \in Stream : a # e \/ x # s => CalmLoops(a, x)
    BY <1>0, <1>2, <1>3, <1>7, <2>1, GoneCalm
  <2>3. \A a \in End, x \in Stream : a # e \/ x # s => CalmTasks(a, x)
    <3>1. PICK q : rx' = [rx EXCEPT ![e][s] = q]
      BY <1>7
    <3> QED BY <1>0, <3>1, RxCalm
  <2>4. f.arg = Accepted(e, s) + 1 /\ chan[e][s] # "none"
    BY <1>6, <1>7, <2>1
  <2>5. rx'[e][s] = Append(rx[e][s], f.arg)
    BY <1>0, <1>7, Tables
  <2>6. Numbered(e, s)' /\ Accepted(e, s)' = Accepted(e, s) + 1
    BY <1>0, <1>4, <2>4, <2>5, AppendFlow DEF FlowAt, ChunkAt
  <2>7. FlowAt(e, s)'
    BY <1>0, <1>2, <1>3, <1>4, <1>7, <2>1, <2>4, <2>6, AcceptFlow
  <2> QED BY <1>0, <2>2, <2>3, <2>7, FlowOne
<1>8. CASE s \in registry[e] /\ chan[e][s] # "closed" /\ Hold(e, f) /\ rx' = rx
  <2>1. /\ Live(e)' = Live(e) /\ Live(o)' = Live(o) /\ DataIn(held[e]) = {}
        /\ \A g \in Live(o) : g = f \/ Follows(f, g)
    BY <1>0, <1>1, <1>3, <1>8, LiveReceive
  <2>2. /\ held'[e] = <<f>> /\ held'[o] = held[o]
    BY <1>0, <1>3, <1>8 DEF Hold, TypeOK, SessionOK
  <2>3. f.type = "DATA"
    BY <1>0, <1>1 DEF Receive, CanReceive
  <2>4. DataIn(held'[e]) = {f}
    BY <2>2, <2>3, DataFew
  <2>5. \A a \in End : a = e \/ a = o
    BY <1>3 DEF End, Other
  <2>6. \A a \in End, x \in Stream : CalmTasks(a, x)
    BY <1>0, <1>8, StillCalm
  <2>7. \A a \in End, x \in Stream : Flying(a, x)' = Flying(a, x)
    BY <2>1, <2>5, FlyingSame
  <2>8. \A a \in End, x \in Stream : a # e \/ x # s => CalmLoops(a, x)
    BY <1>0, <1>2, <2>2, <2>4, <2>5, <2>7 DEF CalmLoops
  <2>9. f \in Live(o)
    BY <1>3, <2>1, <2>4 DEF Live
  <2>10. f.arg = Accepted(e, s) + 1 /\ chan[e][s] # "none"
    BY <1>6, <1>8, <2>1, <2>9
  <2>11. Accepted(e, s)' = Accepted(e, s) /\ Numbered(e, s)'
    BY <1>0, <1>4, <1>8 DEF Accepted, FlowAt, ChunkAt, Numbered
  <2>12. ChanAt(e, s)' /\ FlushAt(e, s)'
    BY <1>0, <1>4, <1>8, <2>10 DEF FlowAt, ChanAt, FlushAt
  <2>13. ChunkAt(e, s)'
    BY <1>0, <1>3, <1>4, <1>8, <2>4, <2>7, <2>10, <2>11, Zenon DEF FlowAt, ChunkAt
  <2>14. FlowAt(e, s)'
    BY <2>12, <2>13 DEF FlowAt
  <2> QED BY <1>0, <2>6, <2>8, <2>14, FlowOne
<1> QED
  <2>1. \/ UNCHANGED <<rx, held>> /\ (s \notin registry[e] \/ chan[e][s] = "closed")
        \/ /\ s \in registry[e] /\ chan[e][s] # "closed" /\ held' = held
           /\ rx' = [rx EXCEPT ![e][s] = Append(rx[e][s], f.arg)]
        \/ s \in registry[e] /\ chan[e][s] # "closed" /\ Hold(e, f) /\ rx' = rx
    BY <1>1, <1>2 DEF ReceiveData
  <2> QED BY <1>5, <1>7, <1>8, <2>1

\* The chunk the reader holds reaches its channel, or the channel is gone.
LEMMA RouteFlow ==
  ASSUME TunnelInv, NEW e \in End, Route(e) PROVE FlowInv'
<1> USE EndType, Others
<1>0. /\ IndInv /\ TypeOK /\ OrderInv /\ FlowInv /\ Holds(e, "DATA") /\ Release(e)
      /\ UNCHANGED <<got, sent, chan, pc, peer, link, registry, frames, wire, sink>>
  BY DEF TunnelInv, IndInv, Route, traffic
<1>1. PICK f \in Frame, s \in Stream : f = Head(held[e]) /\ s = HeldId(e) /\ f.id = s
  BY <1>0, HeldItem
<1>2. PICK o \in End : o = Other(e)
  OBVIOUS
<1>3. /\ Live(e)' = Live(e) /\ f \in Live(o)
      /\ \A g : g \in Live(o)' \/ g = f <=> g \in Live(o)
      /\ \A g \in Live(o)' : Follows(f, g)
      /\ DataIn(held'[e]) = {} /\ DataIn(held[e]) = {f}
  BY <1>0, <1>1, <1>2, LiveRelease
<1>4. \A a \in End : DataIn(held'[a]) \subseteq DataIn(held[a])
  <2>1. \A a \in End : a # e => held'[a] = held[a]
    BY <1>0 DEF Release, TypeOK, SessionOK
  <2> QED BY <1>3, <2>1
<1>5. \A a \in End, x \in Stream : a # e \/ x # s => CalmLoops(a, x)
  BY <1>0, <1>1, <1>2, <1>3, <1>4, GoneCalm
<1>6. FlowAt(e, s)
  BY <1>0 DEF FlowInv
<1>7. CASE chan[e][s] = "closed" /\ rx' = rx
  <2>1. \A a \in End, x \in Stream : CalmTasks(a, x)
    BY <1>0, <1>7, StillCalm
  <2>2. CalmLoops(e, s)
    BY <1>0, <1>3, <1>7 DEF CalmLoops
  <2> QED BY <1>0, <1>5, <2>1, <2>2, FlowNone
<1>8. CASE chan[e][s] # "closed" /\ rx' = [rx EXCEPT ![e][s] = Append(rx[e][s], f.arg)]
  <2>1. \A a \in End, x \in Stream : a # e \/ x # s => CalmTasks(a, x)
    <3>1. PICK q : rx' = [rx EXCEPT ![e][s] = q]
      BY <1>8
    <3> QED BY <1>0, <3>1, RxCalm
  <2>2. f.arg = Accepted(e, s) + 1 /\ chan[e][s] # "none"
    BY <1>1, <1>3, <1>6, <1>8 DEF FlowAt, ChunkAt, ChanAt
  <2>3. rx'[e][s] = Append(rx[e][s], f.arg)
    BY <1>0, <1>8, Tables
  <2>4. Numbered(e, s)' /\ Accepted(e, s)' = Accepted(e, s) + 1
    BY <1>0, <1>6, <2>2, <2>3, AppendFlow DEF FlowAt, ChunkAt
  <2>5. FlowAt(e, s)'
    BY <1>0, <1>1, <1>2, <1>3, <1>6, <1>8, <2>2, <2>4, AcceptFlow
  <2> QED BY <1>0, <1>5, <2>1, <2>5, FlowOne
<1> QED BY <1>1, <1>7, <1>8 DEF Route

\* The reader takes a CLOSE: everything that was sent has arrived.
LEMMA ReceiveCloseFlow ==
  ASSUME TunnelInv, NEW e \in End, ReceiveClose(e) PROVE FlowInv'
<1> USE EndType, Others
<1>0. /\ IndInv /\ TypeOK /\ OrderInv /\ DownInv /\ FlowInv /\ Receive(e, "CLOSE")
      /\ registry' = Unregistered(e, Arriving(e).id)
      /\ UNCHANGED <<got, rx, sent, chan, pc, peer, link, held, frames, sink>>
  BY DEF TunnelInv, IndInv, ReceiveClose, traffic
<1>1. PICK f \in Frame : f = Arriving(e)
  BY <1>0, ReceiveType
<1>2. PICK s \in Stream : s = f.id
  BY DEF Frame
<1>3. PICK o \in End : o = Other(e)
  OBVIOUS
<1>4. /\ \A a \in End : Live(a)' = Live(a)
      /\ \A g \in Live(o) : g = f \/ Follows(f, g)
  <2>1. \A a \in End : a = e \/ a = o
    BY <1>3 DEF End, Other
  <2> QED BY <1>0, <1>1, <1>3, <2>1, LiveReceive
<1>5. f \in Transit(o) /\ f.type = "CLOSE"
  BY <1>0, <1>1, <1>3, ReceiveCarry
<1>6. pc[o][s] = "done"
  BY <1>0, <1>2, <1>5 DEF IndInv, ClientInv, ServerInv, End
<1>7. Flying(o, s) = {}
  <2>1. \A g \in Live(o) : g.id # s
    BY <1>0, <1>2, <1>4, <1>5, LiveItems DEF Follows
  <2> QED BY <2>1 DEF Flying
<1>8. registry'[e] = registry[e] \ {s} /\ \A a \in End : a # e => registry'[a] = registry[a]
  BY <1>0, <1>1, <1>2, Tables DEF Unregistered
<1>9. \A a \in End, x \in Stream : CalmLoops(a, x)
  BY <1>0, <1>4, LoopsCalm
<1>10. ASSUME NEW a \in End, NEW x \in Stream, a # e \/ x # s PROVE CalmTasks(a, x)
  <2>1. x \in registry'[a] <=> x \in registry[a]
    BY <1>8, <1>10
  <2> QED BY <1>0, <2>1 DEF CalmTasks
<1>11. FlowAt(e, s)
  BY <1>0 DEF FlowInv
<1>12. ChanAt(e, s)'
  BY <1>0, <1>8, <1>11 DEF FlowAt, ChanAt
<1>13. Accepted(e, s)' = Accepted(e, s) /\ Numbered(e, s)'
  BY <1>0, <1>11 DEF Accepted, FlowAt, ChunkAt, Numbered
<1>14. ChunkAt(e, s)'
  BY <1>0, <1>8, <1>11, <1>13 DEF FlowAt, ChunkAt
<1>15. ASSUME s \in registry[e], chan[e][s] # "closed", link # "down"
       PROVE  Accepted(e, s) = sent[o][s]
  <2>1. PICK n \in Nat, m \in Nat : n = Accepted(e, s) /\ m = sent[o][s]
    BY <1>0, ReceivedType, Zenon
  <2>2. sink[o] = "on"
    BY <1>0, <1>15 DEF DownInv
  <2>3. n <= m /\ (n + 1)..m \subseteq {}
    BY <1>3, <1>7, <1>11, <1>15, <2>1, <2>2 DEF FlowAt, ChunkAt
  <2> QED BY <2>1, <2>3
<1>16. FlushAt(e, s)'
  <2>1. s \in registry[e] /\ chan[e][s] = "closed" => peer[e][s] = "reset"
    BY <1>11 DEF FlowAt, ChanAt
  <2>2. s \in registry[e] \/ FlushAt(e, s)'
    BY <1>0, <1>11, <1>13, Zenon DEF FlowAt, FlushAt
  <2> QED BY <1>0, <1>3, <1>6, <1>13, <1>15, <2>1, <2>2, Zenon DEF FlushAt
<1> QED BY <1>0, <1>9, <1>10, <1>12, <1>14, <1>16, FlowOne DEF FlowAt

\* The reader takes an answer, or the server's reader an OPEN.
LEMMA OtherFrameFlow ==
  ASSUME TunnelInv, ReceiveAck \/ ReceiveOpen PROVE FlowInv'
<1> USE EndType, Others
<1>0. /\ TypeOK /\ OrderInv /\ FlowInv
      /\ UNCHANGED <<got, rx, sent, chan, pc, peer, link, registry, frames, sink>>
  BY DEF TunnelInv, IndInv, ReceiveAck, ReceiveOpen, streams, traffic
<1>1. PICK e \in End, type \in {"OPEN", "OPEN_ACK"} :
        Receive(e, type) /\ (UNCHANGED held \/ Hold(e, Arriving(e)))
  BY DEF ReceiveAck, ReceiveOpen
<1>2. \A o \in End : Live(o)' = Live(o)
  <2>1. Live(e)' = Live(e) /\ Live(Other(e))' = Live(Other(e))
    BY <1>0, <1>1, LiveReceive
  <2> QED BY <2>1 DEF End, Other
<1>3. \A o \in End : DataIn(held'[o]) \subseteq DataIn(held[o])
  <2>1. /\ Items(held'[e]) \subseteq {Arriving(e)} /\ held'[Other(e)] = held[Other(e)]
        /\ Arriving(e).type # "DATA"
    BY <1>0, <1>1, ReceiveCarry
  <2>2. DataIn(held'[e]) = {}
    BY <2>1 DEF DataIn
  <2> QED BY <2>1, <2>2 DEF End, Other
<1> QED BY <1>0, <1>2, <1>3, StillCalm, LoopsCalm, FlowNone

\* The server connects, or does not.
LEMMA ConnectFlow ==
  ASSUME TunnelInv, ConnectOk \/ ConnectRefused PROVE FlowInv'
<1> USE EndType, Others
<1>0. /\ TypeOK /\ OpenInv /\ AnswerInv /\ FlowInv /\ Holds("server", "OPEN")
      /\ UNCHANGED <<got, rx, sent, pc, peer, link, frames, wire, sink>>
  BY DEF TunnelInv, IndInv, OpenInv, ConnectOk, ConnectRefused, traffic
<1>1. PICK s \in Stream, n \in Nat :
        s = HeldId("server") /\ Hold("server", OpenAck(s, n))
  BY <1>0, HeldItem DEF ConnectOk, ConnectRefused
<1>2. \A o \in End : DataIn(held'[o]) = DataIn(held[o])
  <2>1. Items(held["server"]) = {Head(held["server"])} /\ Head(held["server"]).type = "OPEN"
    BY <1>0, HeldItem
  <2>2. held'["server"] = <<OpenAck(s, n)>> /\ held'["client"] = held["client"]
    BY <1>0, <1>1 DEF Hold, TypeOK, SessionOK
  <2>3. OpenAck(s, n).type # "DATA"
    BY DEF OpenAck
  <2>4. DataIn(held["server"]) = {} /\ DataIn(held'["server"]) = {}
    BY <2>1, <2>2, <2>3, ItemsFew DEF DataIn
  <2> QED BY <2>2, <2>4 DEF End
<1>3. \A o \in End : Live(o)' = Live(o)
  BY <1>0, <1>2, LiveSame
<1>4. \A o \in End, x \in Stream : CalmLoops(o, x)
  BY <1>0, <1>2, <1>3, LoopsCalm
<1>5. chan["server"][s] = "none" /\ sent["client"][s] = 0
  <2>1. PICK f \in Transit("client") : f.type = "OPEN" /\ f.id = s
    BY <1>0, <1>1, HeldItem
  <2> QED BY <1>0, <2>1 DEF AnswerInv, OpenInv, ServerOpenAt
<1>6. CASE ConnectOk
  <2>1. /\ registry' = Registered("server", s) /\ Sets(chan, chan', "server", s, "waiting")
    BY <1>0, <1>1, <1>6, SetsAt DEF ConnectOk
  <2>2. registry'["server"] = registry["server"] \cup {s} /\ registry'["client"] = registry["client"]
    BY <1>0, <2>1, Tables DEF Registered
  <2>3. ASSUME NEW o \in End, NEW x \in Stream, o # "server" \/ x # s PROVE CalmTasks(o, x)
    <3>1. x \in registry'[o] <=> x \in registry[o]
      BY <2>2, <2>3 DEF End
    <3>2. chan'[o][x] = chan[o][x]
      BY <2>1, <2>3 DEF Sets
    <3> QED BY <1>0, <3>1, <3>2 DEF CalmTasks
  <2>4. chan'["server"][s] = "waiting" /\ s \in registry'["server"]
    BY <2>1, <2>2 DEF Sets
  <2>5. FlowAt("server", s)'
    BY <1>0, <1>2, <1>3, <1>5, <2>4, NewFlow
  <2> QED BY <1>0, <1>4, <2>3, <2>5, FlowOne
<1>7. CASE ConnectRefused
  <2>1. registry' = Unregistered("server", s) /\ chan' = chan
    BY <1>1, <1>7 DEF ConnectRefused
  <2>2. registry'["server"] = registry["server"] \ {s} /\ registry'["client"] = registry["client"]
    BY <1>0, <2>1, Tables DEF Unregistered
  <2>3. ASSUME NEW o \in End, NEW x \in Stream PROVE CalmTasks(o, x)
    <3>1. /\ x \in registry'[o] => x \in registry[o]
          /\ x \in registry[o] /\ x \notin registry'[o] => chan[o][x] = "none"
      BY <1>5, <2>2 DEF End
    <3> QED BY <1>0, <2>1, <3>1 DEF CalmTasks
  <2> QED BY <1>0, <1>4, <2>3, FlowNone
<1> QED BY <1>6, <1>7

\* The answer is sent and the server's tasks start.
LEMMA SendAckFlow ==
  ASSUME TunnelInv, SendAck PROVE FlowInv'
<1> USE EndType, Others
<1>0. /\ TypeOK /\ OpenInv /\ AnswerInv /\ ServerInv /\ FlowInv /\ Holds("server", "OPEN_ACK")
      /\ UNCHANGED <<got, rx, sent, peer, link, registry, wire, sink>> /\ Release("server")
  BY DEF TunnelInv, IndInv, OpenInv, SendAck, traffic
<1>1. PICK s \in Stream, f \in Frame :
        /\ s = HeldId("server") /\ f = Head(held["server"])
        /\ Items(held["server"]) = {f} /\ f.id = s /\ f.type = "OPEN_ACK"
  BY <1>0, HeldItem
<1>2. \A o \in End : DataIn(held'[o]) = DataIn(held[o])
  <2>1. held'["server"] = <<>> /\ held'["client"] = held["client"]
    BY <1>0 DEF Release, TypeOK, SessionOK
  <2>2. DataIn(held["server"]) = {} /\ DataIn(held'["server"]) = {}
    BY <1>1, <2>1, ItemsFew DEF DataIn
  <2> QED BY <2>1, <2>2 DEF End
<1>3. \A o \in End : Live(o)' = Live(o)
  <2>1. Send("server", f) \/ frames' = frames
    BY <1>1 DEF SendAck, SendOrIgnore
  <2>2. CASE Send("server", f)
    <3>1. {g \in {f} : g.type = "DATA"} = {}
      BY <1>1
    <3> QED BY <1>0, <1>2, <2>2, <3>1, LiveSend DEF End
  <2>3. CASE frames' = frames
    BY <1>0, <1>2, <2>3, LiveSame
  <2> QED BY <2>1, <2>2, <2>3
<1>4. CASE f.arg = 0
  <2>1. Sets(pc, pc', "server", s, "relay") /\ Sets(chan, chan', "server", s, "writing")
    BY <1>0, <1>1, <1>4, StartRelaySets DEF SendAck
  <2>2. pc["server"][s] = "start" /\ chan["server"][s] = "waiting"
    BY <1>0, <1>1, <1>4 DEF ServerInv, AnswerInv, OpenInv, ServerOpenAt
  <2> QED BY <1>0, <1>2, <1>3, <2>1, <2>2, MoveFlow
<1>5. CASE f.arg # 0
  <2>1. pc' = pc /\ chan' = chan
    BY <1>1, <1>5 DEF SendAck
  <2> QED BY <1>0, <1>2, <1>3, <2>1, StillCalm, LoopsCalm, FlowNone
<1> QED BY <1>4, <1>5

\* Every step keeps the chunks of every stream in order and complete.
LEMMA FlowKeeps ==
  ASSUME TunnelInv, IndInv', [Next]_vars PROVE FlowInv'
<1>1. ASSUME NEW s \in Stream, Handler(s) PROVE FlowInv'
  BY <1>1, HandlerFlow
<1>2. ASSUME NEW e \in End, NEW s \in Stream, Relay(e, s) PROVE FlowInv'
  BY <1>2, PumpFlow, WriteFlow DEF Relay
<1>3. ASSUME NEW e \in End, Sink(e) PROVE FlowInv'
  BY <1>3, SinkFlow
<1>4. ASSUME NEW e \in End, Reader(e) PROVE FlowInv'
  BY <1>4, ReceiveDataFlow, RouteFlow, ReceiveCloseFlow, StillFlow, OtherFrameFlow, ConnectFlow,
    SendAckFlow DEF Reader
<1>5. CASE Keeper
  BY <1>5, StillFlow
<1>6. CASE Environment
  BY <1>6, PumpFlow, StillFlow DEF Environment
<1>7. CASE UNCHANGED vars
  <2>1. \A o \in End : Live(o)' = Live(o)
    BY <1>7, LiveSame DEF vars, session
  <2> QED BY <1>7, <2>1, StillCalm, LoopsCalm, FlowNone
    DEF TunnelInv, vars, streams, session, traffic
<1> QED BY <1>1, <1>2, <1>3, <1>4, <1>5, <1>6, <1>7 DEF Next, Tasks

-----------------------------------------------------------------------------
(* The theorems.                                                           *)

\* The invariant holds at the start.
LEMMA InitTunnel == Init => TunnelInv
<1> SUFFICES ASSUME Init PROVE TunnelInv
  OBVIOUS
<1> USE EndType, Others
<1>1. IndInv /\ TypeOK
  BY InitInd DEF IndInv
<1>2. \A o \in End : held[o] = <<>> /\ wire[o] = <<>> /\ frames[o] = <<>>
  BY DEF Init
<1>3. \A o \in End, s \in Stream :
        /\ pc[o][s] = "start" /\ chan[o][s] = "none" /\ s \notin registry[o]
        /\ rx[o][s] = <<>> /\ got[o][s] = <<>> /\ sent[o][s] = 0
        /\ reply[s] = "none" /\ ack[s] = "none"
  BY DEF Init
<1>4. \A o \in End : Transit(o) = {} /\ Items(held[o]) = {} /\ DataIn(held[o]) = {}
  BY <1>2, ItemsFew, DataFew DEF Transit
<1>5. OpenInv
  BY <1>3, <1>4 DEF OpenInv, ClientOpenAt, ServerOpenAt, AnswerInv, Opening, Early
<1>6. ASSUME NEW e \in End, NEW s \in Stream PROVE FlowAt(e, s)
  <2>1. Len(got[e][s]) = 0 /\ Len(rx[e][s]) = 0
    BY <1>3
  <2>2. Accepted(e, s) = 0
    BY <2>1 DEF Accepted
  <2>3. Numbered(e, s)
    BY <1>3 DEF Numbered
  <2>4. ChunkAt(e, s)
    BY <1>3, <1>4, <2>2, <2>3 DEF ChunkAt
  <2> QED BY <1>3, <1>4, <2>4 DEF FlowAt, ChanAt, FlushAt
<1> QED BY <1>1, <1>5, <1>6 DEF TunnelInv, FlowInv

\* Every step keeps it.
LEMMA TunnelKeeps == TunnelInv /\ [Next]_vars => TunnelInv'
<1> SUFFICES ASSUME TunnelInv, [Next]_vars PROVE TunnelInv'
  OBVIOUS
<1>1. IndInv'
  BY NextKeeps DEF TunnelInv
<1> QED BY <1>1, OpenKeeps, FlowKeeps DEF TunnelInv

\* What was written to a peer is what was accepted for it, less what waits in
\* the data channel.
LEMMA OrderedFromTunnel == TunnelInv => InOrder
<1> SUFFICES ASSUME TunnelInv, NEW e \in End, NEW s \in Stream
             PROVE  /\ Len(got[e][s]) <= sent[Other(e)][s]
                    /\ \A i \in 1..Len(got[e][s]) : got[e][s][i] = i
  BY DEF InOrder
<1>1. TypeOK /\ ChunkAt(e, s) /\ Numbered(e, s)
  BY DEF TunnelInv, IndInv, FlowInv, FlowAt, ChunkAt
<1>2. PICK a \in Nat, b \in Nat, m \in Nat :
        a = Len(got[e][s]) /\ a + b = Accepted(e, s) /\ m = sent[Other(e)][s]
  BY <1>1, EndType, ReceivedType, Zenon
<1>3. a + b <= m
  BY <1>1, <1>2 DEF ChunkAt
<1>4. a <= m
  BY <1>3
<1> QED BY <1>1, <1>2, <1>4, Zenon DEF Numbered

\* What a peer is written is a prefix of what the other peer sent on the same
\* stream, for every number of streams and chunks, whatever the capacities of
\* the channels, and whether or not the link stalls or fails.
THEOREM AlwaysInOrder == Spec => []InOrder
<1>1. TunnelInv /\ [Next]_vars => TunnelInv'
  BY TunnelKeeps
<1> QED BY <1>1, InitTunnel, OrderedFromTunnel, PTL DEF Spec

\* A write_task that ended under a running pump, on an intact link and with a
\* peer that takes data, ended because of the other end's CLOSE.
LEMMA FlushedFromTunnel == TunnelInv => CloseFlushes
BY DEF TunnelInv, FlowInv, FlowAt, ChanAt, FlushAt, CloseFlushes

\* CLOSE never overtakes DATA: an end that goes on relaying after its write_task
\* ended has written everything the other end sent, unless the link is down or
\* its own peer takes no more.
THEOREM CloseAlwaysFlushes == Spec => []CloseFlushes
<1>1. TunnelInv /\ [Next]_vars => TunnelInv'
  BY TunnelKeeps
<1> QED BY <1>1, InitTunnel, FlushedFromTunnel, PTL DEF Spec

\* Steps the peers do not see.
LEMMA UnseenStep ==
  ASSUME UNCHANGED <<reply, sent, got>>,
         \A s \in Stream : chan'["server"][s] = "none" <=> chan["server"][s] = "none"
  PROVE  UNCHANGED Promise!vars
BY DEF Promise!vars

\* The handler tells the application of a failure.
LEMMA RefuseStep ==
  ASSUME TunnelInv, NEW s \in Stream, pc["client"][s] \in Early,
         reply' = [reply EXCEPT ![s] = "err"], UNCHANGED <<sent, got>>,
         \A x \in Stream : chan'["server"][x] = chan["server"][x]
  PROVE  Promise!Next
<1>1. reply[s] = "none" /\ got["client"][s] = <<>>
  BY DEF TunnelInv, OpenInv, ClientOpenAt
<1>2. sent["client"][s] = 0
  BY DEF TunnelInv, IndInv, SentInv
<1>3. Promise!Refuse(s)
  BY <1>1, <1>2 DEF Promise!Refuse
<1> QED BY <1>3 DEF Promise!Next

\* The handler returns before the relay: the application gets a failure or
\* nothing.
LEMMA GiveUpStep ==
  ASSUME TunnelInv, NEW s \in Stream, NEW r \in {"none", "err"}, GiveUp(s, r),
         pc["client"][s] \in Early, UNCHANGED <<sent, got>>
  PROVE  Promise!Next \/ UNCHANGED Promise!vars
<1>0. TypeOK /\ reply[s] = "none"
  BY DEF TunnelInv, IndInv, OpenInv, ClientOpenAt
<1>1. \A x \in Stream : chan'["server"][x] = chan["server"][x]
  BY <1>0, GiveUpSets, EndType DEF Sets
<1>2. CASE r = "none"
  <2>1. reply' = reply
    BY <1>0, <1>2, Tables DEF GiveUp
  <2> QED BY <1>1, <2>1, UnseenStep
<1>3. CASE r = "err"
  BY <1>1, <1>3, RefuseStep DEF GiveUp
<1> QED BY <1>2, <1>3

\* A chunk is taken from a peer.
LEMMA TakeStep ==
  ASSUME TunnelInv, NEW e \in End, NEW s \in Stream, chan["server"][s] # "none",
         e = "client" => reply[s] = (IF s \in Connect THEN "ok" ELSE "none"),
         sent' = [sent EXCEPT ![e][s] = sent[e][s] + 1], UNCHANGED <<reply, got>>,
         \A x \in Stream : chan'["server"][x] = chan["server"][x]
  PROVE  Promise!Next
<1>1. Promise!Take(e, s)
  BY DEF Promise!Take, Promise!Usable
<1> QED BY <1>1 DEF Promise!Next, Promise!End, End

\* The steps of a handler.
LEMMA HandlerStep ==
  ASSUME TunnelInv, NEW s \in Stream, Handler(s)
  PROVE  Promise!Next \/ UNCHANGED Promise!vars
<1> USE EndType, Others
<1>0. /\ TypeOK /\ ClientOpenAt(s) /\ ServerOpenAt(s) /\ got' = got
  BY DEF TunnelInv, IndInv, OpenInv, Handler, Snapshot, Register, InsertAck, SendOpen, AckArrives,
    AckTimeout, ReplyConnect, ForwardRequest, traffic
<1>1. ASSUME NEW r \in {"none", "err"}, GiveUp(s, r), pc["client"][s] \in Early, sent' = sent
      PROVE  Promise!Next \/ UNCHANGED Promise!vars
  BY <1>0, <1>1, GiveUpStep
<1>2. CASE Snapshot(s)
  <2>1. pc["client"][s] \in Early /\ UNCHANGED <<chan, sent>>
    BY <1>2 DEF Snapshot, traffic, Early, Opening
  <2>2. reply' = reply \/ reply' = [reply EXCEPT ![s] = "err"]
    BY <1>2 DEF Snapshot
  <2> QED BY <1>0, <2>1, <2>2, UnseenStep, RefuseStep
<1>3. CASE Register(s)
  <2>1. UNCHANGED <<reply, sent>> /\ Sets(chan, chan', "client", s, "waiting")
    BY <1>0, <1>3, SetsAt DEF Register, opening, traffic
  <2>2. \A x \in Stream : chan'["server"][x] = chan["server"][x]
    BY <2>1 DEF Sets
  <2> QED BY <1>0, <2>1, <2>2, UnseenStep
<1>4. CASE InsertAck(s)
  BY <1>0, <1>4, UnseenStep DEF InsertAck, traffic
<1>5. CASE SendOpen(s)
  <2>1. pc["client"][s] \in Early /\ sent' = sent
    BY <1>5 DEF SendOpen, traffic, Early, Opening
  <2>2. UNCHANGED <<chan, reply>> \/ GiveUp(s, IF s \in Socks THEN "err" ELSE "none")
    BY <1>5 DEF SendOpen
  <2> QED BY <1>0, <1>1, <2>1, <2>2, UnseenStep
<1>6. CASE AckArrives(s) \/ AckTimeout(s)
  <2>1. pc["client"][s] \in Early /\ sent' = sent
    BY <1>6 DEF AckArrives, AckTimeout, traffic, Early
  <2>2. UNCHANGED <<chan, reply>> \/ GiveUp(s, "err")
    BY <1>6 DEF AckArrives, AckTimeout
  <2> QED BY <1>0, <1>1, <2>1, <2>2, UnseenStep
<1>7. CASE ReplyConnect(s)
  <2>1. pc["client"][s] = "reply" /\ pc["client"][s] \in Early /\ sent' = sent /\ s \in Connect
    BY <1>7 DEF ReplyConnect, traffic, Early
  <2>2. CASE StartRelay("client", s) /\ reply' = [reply EXCEPT ![s] = "ok"]
    <3>1. reply[s] = "none" /\ chan["server"][s] # "none"
      BY <1>0, <2>1 DEF ClientOpenAt, ServerOpenAt
    <3>2. \A x \in Stream : chan'["server"][x] = chan["server"][x]
      BY <1>0, <2>2, StartRelaySets DEF Sets
    <3>3. Promise!Accept(s)
      BY <1>0, <2>1, <2>2, <3>1, <3>2 DEF Promise!Accept
    <3> QED BY <3>3 DEF Promise!Next
  <2>3. CASE GiveUp(s, "none")
    BY <1>1, <2>1, <2>3
  <2> QED BY <1>7, <2>2, <2>3 DEF ReplyConnect
<1>8. CASE ForwardRequest(s)
  <2>1. pc["client"][s] = "reply" /\ pc["client"][s] \in Early /\ s \notin Connect
    BY <1>8 DEF ForwardRequest, Early
  <2>2. CASE /\ StartRelay("client", s) /\ reply' = reply
             /\ sent' = [sent EXCEPT !["client"][s] = 1]
    <3>1. reply[s] = "none" /\ chan["server"][s] # "none"
      BY <1>0, <2>1 DEF ClientOpenAt, ServerOpenAt
    <3>2. \A x \in Stream : chan'["server"][x] = chan["server"][x]
      BY <1>0, <2>2, StartRelaySets DEF Sets
    <3>3. sent["client"][s] = 0
      BY <2>1 DEF TunnelInv, IndInv, SentInv
    <3>4. sent' = [sent EXCEPT !["client"][s] = sent["client"][s] + 1]
      BY <2>2, <3>3
    <3> QED BY <1>0, <2>1, <2>2, <3>1, <3>2, <3>4, TakeStep
  <2>3. CASE GiveUp(s, "none") /\ sent' = sent
    BY <1>1, <2>1, <2>3
  <2> QED BY <1>8, <2>2, <2>3 DEF ForwardRequest
<1> QED BY <1>2, <1>3, <1>4, <1>5, <1>6, <1>7, <1>8 DEF Handler

\* The steps of the relay tasks.
LEMMA RelayStep ==
  ASSUME TunnelInv, NEW e \in End, NEW s \in Stream,
         PumpData(e, s) \/ PumpFails(e, s) \/ Relay(e, s)
  PROVE  Promise!Next \/ UNCHANGED Promise!vars
<1> USE EndType, Others
<1>0. TypeOK /\ ClientOpenAt(s) /\ ServerOpenAt(s) /\ reply' = reply
  BY DEF TunnelInv, IndInv, OpenInv, PumpData, PumpFails, Relay, PumpEof, PumpClose, WriteChunk, CanWrite,
    WriteEnds, opening
<1>1. CASE PumpData(e, s)
  <2>1. /\ pc[e][s] = "relay" /\ UNCHANGED <<chan, got>>
        /\ sent' = [sent EXCEPT ![e][s] = sent[e][s] + 1]
    BY <1>1 DEF PumpData, streams
  <2>2. /\ chan["server"][s] # "none"
        /\ e = "client" => reply[s] = (IF s \in Connect THEN "ok" ELSE "none")
    BY <1>0, <2>1 DEF ClientOpenAt, ServerOpenAt, End
  <2> QED BY <1>0, <2>1, <2>2, TakeStep
<1>2. CASE PumpFails(e, s) \/ PumpEof(e, s) \/ PumpClose(e, s)
  <2>1. UNCHANGED <<chan, sent, got>>
    BY <1>2 DEF PumpFails, PumpEof, PumpClose, traffic
  <2> QED BY <1>0, <2>1, UnseenStep
<1>3. CASE WriteChunk(e, s) /\ peer[e][s] # "reset"
  <2>1. /\ chan[e][s] = "writing" /\ UNCHANGED <<chan, sent>>
        /\ got' = [got EXCEPT ![e][s] = Append(got[e][s], Head(rx[e][s]))]
    BY <1>3 DEF WriteChunk, CanWrite
  <2>2. Head(rx[e][s]) = Len(got[e][s]) + 1 /\ Len(got[e][s]) + 1 <= sent[Other(e)][s]
    BY <1>3, DeliverFlow
  <2>3. PICK a \in Nat, m \in Nat : a = Len(got[e][s]) /\ m = sent[Other(e)][s]
    BY <1>0, ReceivedType, Zenon
  <2>4. a < m
    BY <2>2, <2>3
  <2>5. e = "client" => Promise!Usable(s)
    BY <1>0, <2>1 DEF Promise!Usable, ClientOpenAt, ServerOpenAt
  <2>6. Promise!Other(e) = Other(e)
    BY DEF Promise!Other, Other
  <2>7. Promise!Deliver(e, s)
    BY <1>0, <2>1, <2>2, <2>3, <2>4, <2>5, <2>6 DEF Promise!Deliver
  <2> QED BY <2>7 DEF Promise!Next, Promise!End, End
<1>4. CASE (WriteChunk(e, s) /\ peer[e][s] = "reset") \/ WriteEnds(e, s)
  <2>1. /\ UNCHANGED <<sent, got>> /\ chan[e][s] = "writing"
        /\ chan' = [chan EXCEPT ![e][s] = "closed"]
    BY <1>4 DEF WriteChunk, CanWrite, WriteEnds, traffic
  <2>2. Sets(chan, chan', e, s, "closed")
    BY <1>0, <2>1, SetsAt
  <2>3. \A x \in Stream : chan'["server"][x] = "none" <=> chan["server"][x] = "none"
    BY <2>1, <2>2 DEF Sets
  <2> QED BY <1>0, <2>1, <2>3, UnseenStep
<1> QED BY <1>1, <1>2, <1>3, <1>4 DEF Relay

\* The steps of the loops, the keeper and the link, and of peers that leave.
LEMMA LoopStep ==
  ASSUME TunnelInv,
         \/ \E e \in End : Sink(e) \/ Reader(e)
         \/ Keeper \/ LinkFails \/ \E e \in End, s \in Stream : PeerLeaves(e, s)
  PROVE  Promise!Next \/ UNCHANGED Promise!vars
<1> USE EndType, Others
<1>0. TypeOK /\ OpenInv /\ AnswerInv /\ UNCHANGED <<reply, sent, got>>
  BY DEF TunnelInv, IndInv, OpenInv, Sink, Transmit, CanTransmit, SinkStops, SinkDrops,
    Reader, ReceiveData, Route,
    ReceiveClose, ReaderStops, ReceiveAck, DropAcks, ReceiveOpen, ConnectOk, ConnectRefused, SendAck,
    Keeper, KeeperTakes, KeeperCloses, LinkFails, PeerLeaves, opening, traffic
<1>1. CASE ConnectOk
  <2>1. PICK s \in Stream : s = HeldId("server")
    BY <1>0, <1>1, HeldItem DEF ConnectOk
  <2>2. chan["server"][s] = "none"
    <3>1. PICK f \in Transit("client") : f.type = "OPEN" /\ f.id = s
      BY <1>0, <1>1, <2>1, HeldItem DEF ConnectOk
    <3> QED BY <1>0, <3>1 DEF AnswerInv
  <2>3. Sets(chan, chan', "server", s, "waiting")
    BY <1>0, <1>1, <2>1, SetsAt DEF ConnectOk
  <2>4. {x \in Stream : chan'["server"][x] # "none"}
          = {x \in Stream : chan["server"][x] # "none"} \cup {s}
    BY <2>3 DEF Sets
  <2>5. Promise!Establish(s)
    BY <1>0, <2>2, <2>4 DEF Promise!Establish
  <2> QED BY <2>5 DEF Promise!Next
<1>2. CASE SendAck
  <2>1. PICK s \in Stream, f \in Frame :
          /\ s = HeldId("server") /\ f = Head(held["server"])
          /\ Items(held["server"]) = {f} /\ f.id = s /\ f.type = "OPEN_ACK"
    BY <1>0, <1>2, HeldItem DEF SendAck
  <2>2. chan' = chan \/ (f.arg = 0 /\ Sets(chan, chan', "server", s, "writing"))
    BY <1>0, <1>2, <2>1, StartRelaySets DEF SendAck
  <2>3. f.arg = 0 => chan["server"][s] # "none"
    BY <1>0, <2>1 DEF AnswerInv
  <2>4. \A x \in Stream : chan'["server"][x] = "none" <=> chan["server"][x] = "none"
    BY <2>2, <2>3 DEF Sets
  <2> QED BY <1>0, <2>4, UnseenStep
<1>3. CASE chan' = chan
  BY <1>0, <1>3, UnseenStep
<1> QED BY <1>1, <1>2, <1>3
  DEF Sink, Transmit, CanTransmit, SinkStops, SinkDrops, Reader, ReceiveData, Route, ReceiveClose,
    ReaderStops,
    ReceiveAck, DropAcks, ReceiveOpen, ConnectRefused, Keeper, KeeperTakes, KeeperCloses, LinkFails,
    PeerLeaves, streams

\* Every step of the session is a step of the tunnel, or none.
LEMMA SessionStep == TunnelInv /\ [Next]_vars => [Promise!Next]_(Promise!vars)
<1> SUFFICES ASSUME TunnelInv, [Next]_vars PROVE Promise!Next \/ UNCHANGED Promise!vars
  OBVIOUS
<1>1. CASE UNCHANGED vars
  BY <1>1, UnseenStep DEF vars, streams, opening, traffic
<1>2. CASE Tasks
  BY <1>2, HandlerStep, RelayStep, LoopStep DEF Tasks
<1>3. CASE Environment
  BY <1>3, RelayStep, LoopStep DEF Environment
<1> QED BY <1>1, <1>2, <1>3 DEF Next

\* The session implements the tunnel of module Tunnel: the server connects before
\* the application is told so, a refused stream stays silent, and each direction
\* of each stream is a queue.
THEOREM SessionKeepsPromise == Spec => KeepsPromise
<1>1. Init => Promise!Init
  BY EndType DEF Init, Promise!Init, Promise!End, End
<1>2. TunnelInv /\ [Next]_vars => TunnelInv'
  BY TunnelKeeps
<1> QED BY <1>1, <1>2, InitTunnel, SessionStep, PTL DEF Spec, KeepsPromise, Promise!Spec
=============================================================================
