--------------------------- MODULE MuxSessionProofs ---------------------------
(***************************************************************************)
(* Theorems about MuxSession, for any number of streams, any capacities,   *)
(* both clients and any link faults.                                       *)
(***************************************************************************)
EXTENDS MuxSession, TLAPS

-----------------------------------------------------------------------------
(* Type correctness.                                                       *)

\* The two ends, and the end a frame comes from.
LEMMA EndType == "client" \in End /\ "server" \in End /\ \A e \in End : Other(e) \in End
BY DEF End, Other

\* Updating a function of ends and streams at one place keeps its type.
LEMMA Update ==
  ASSUME NEW T, NEW f \in [End -> [Stream -> T]],
         NEW e \in End, NEW s \in Stream, NEW v \in T
  PROVE  [f EXCEPT ![e][s] = v] \in [End -> [Stream -> T]]
OBVIOUS

\* The constructors build frames.
LEMMA FrameType ==
  \A s \in Stream, n \in Nat :
    /\ Open(s) \in Frame /\ OpenAck(s, n) \in Frame
    /\ Data(s, n) \in Frame /\ Close(s) \in Frame
BY DEF Open, OpenAck, Data, Close, Frame

\* The control states the actions name.
LEMMA StepType ==
  /\ {"start", "register", "insert", "open", "wait", "reply", "relay", "closing", "done"} \subseteq Step
  /\ {"none", "waiting", "writing", "closed"} \subseteq ChanState
BY DEF Step, ChanState

\* A send leaves the frame channel well typed and within its capacity.
LEMMA SendType ==
  ASSUME TypeOK, NEW e \in End, NEW f \in Frame, Send(e, f)
  PROVE  /\ frames' \in [End -> Seq(Frame)]
         /\ \A o \in End : Len(frames'[o]) <= FrameCap
BY CapAssumption DEF TypeOK, SessionOK, Send, CanSend

\* One data channel gets another content that fits.
LEMMA RxType ==
  ASSUME TypeOK, NEW e \in End, NEW s \in Stream, NEW q \in Seq(Nat), Len(q) <= DataCap,
         rx' = [rx EXCEPT ![e][s] = q]
  PROVE  /\ rx' \in [End -> [Stream -> Seq(Nat)]]
         /\ \A o \in End, x \in Stream : Len(rx'[o][x]) <= DataCap
<1>1. rx \in [End -> [Stream -> Seq(Nat)]]
  BY DEF TypeOK, StreamsOK
<1>2. rx' \in [End -> [Stream -> Seq(Nat)]]
  BY <1>1, Update
<1>3. \A o \in End, x \in Stream : rx'[o][x] = IF o = e /\ x = s THEN q ELSE rx[o][x]
  BY <1>1
<1> QED BY <1>2, <1>3 DEF TypeOK, StreamsOK

\* The handler moves to another step.
LEMMA GotoType ==
  ASSUME TypeOK, NEW s \in Stream, NEW at \in Step, Goto(s, at)
  PROVE  pc' \in [End -> [Stream -> Step]]
BY EndType, Update DEF Goto, TypeOK, StreamsOK

\* The handler returns before the relay.
LEMMA GiveUpType ==
  ASSUME TypeOK, NEW s \in Stream, NEW r \in {"none", "ok", "err"}, GiveUp(s, r)
  PROVE  StreamsOK' /\ reply' \in [Stream -> {"none", "ok", "err"}]
<1>1. pc' \in [End -> [Stream -> Step]]
  BY EndType, StepType, Update DEF GiveUp, TypeOK, StreamsOK
<1>2. chan' \in [End -> [Stream -> ChanState]]
  BY EndType, StepType, Update DEF GiveUp, TypeOK, StreamsOK
<1>3. registry' \in [End -> SUBSET Stream]
  BY EndType DEF GiveUp, Unregistered, TypeOK, StreamsOK
<1>4. /\ rx' \in [End -> [Stream -> Seq(Nat)]]
      /\ \A e \in End, x \in Stream : Len(rx'[e][x]) <= DataCap
  <2>1. <<>> \in Seq(Nat) /\ Len(<<>>) <= DataCap
    BY CapAssumption
  <2>2. rx' = [rx EXCEPT !["client"][s] = <<>>]
    BY DEF GiveUp
  <2> QED BY <2>1, <2>2, EndType, RxType
<1>5. reply' \in [Stream -> {"none", "ok", "err"}]
  BY DEF GiveUp, TypeOK, OpeningOK
<1> QED BY <1>1, <1>2, <1>3, <1>4, <1>5 DEF StreamsOK

\* The relay tasks start.
LEMMA StartRelayType ==
  ASSUME TypeOK, NEW e \in End, NEW s \in Stream, StartRelay(e, s)
  PROVE  pc' \in [End -> [Stream -> Step]] /\ chan' \in [End -> [Stream -> ChanState]]
BY StepType, Update DEF StartRelay, TypeOK, StreamsOK

\* The steps of a request handler.
LEMMA HandlerType ==
  ASSUME TypeOK, NEW s \in Stream, Handler(s) PROVE TypeOK'
<1> USE EndType, StepType
<1>1. CASE Snapshot(s)
  <2>1. pc' \in [End -> [Stream -> Step]]
    BY <1>1, GotoType DEF Snapshot
  <2> QED BY <1>1, <2>1
    DEF Snapshot, TypeOK, StreamsOK, SessionOK, OpeningOK, TrafficOK, session, traffic
<1>2. CASE Register(s)
  <2>1. pc' \in [End -> [Stream -> Step]]
    BY <1>2, GotoType DEF Register
  <2>2. chan' \in [End -> [Stream -> ChanState]]
    BY <1>2, Update DEF Register, TypeOK, StreamsOK
  <2>3. registry' \in [End -> SUBSET Stream]
    BY <1>2 DEF Register, Registered, TypeOK, StreamsOK
  <2> QED BY <1>2, <2>1, <2>2, <2>3
    DEF Register, TypeOK, StreamsOK, SessionOK, OpeningOK, TrafficOK, session, opening, traffic
<1>3. CASE InsertAck(s)
  <2>1. pc' \in [End -> [Stream -> Step]]
    BY <1>3, GotoType DEF InsertAck
  <2> QED BY <1>3, <2>1
    DEF InsertAck, TypeOK, StreamsOK, SessionOK, OpeningOK, TrafficOK, session, traffic
<1>4. CASE SendOpen(s)
  <2>1. CASE Send("client", Open(s)) /\ Goto(s, "wait") /\ UNCHANGED <<chan, registry, rx, reply>>
    <3>1. pc' \in [End -> [Stream -> Step]]
      BY <2>1, GotoType
    <3> QED BY <1>4, <2>1, <3>1, SendType, FrameType
      DEF SendOpen, TypeOK, StreamsOK, SessionOK, OpeningOK, TrafficOK, traffic
  <2>2. CASE GiveUp(s, IF s \in Socks THEN "err" ELSE "none") /\ UNCHANGED frames
    BY <1>4, <2>2, GiveUpType DEF SendOpen, TypeOK, SessionOK, OpeningOK, TrafficOK, traffic
  <2> QED BY <1>4, <2>1, <2>2 DEF SendOpen
<1>5. CASE AckArrives(s)
  <2>1. CASE Goto(s, "reply") /\ UNCHANGED <<chan, registry, rx, reply>>
    <3>1. pc' \in [End -> [Stream -> Step]]
      BY <2>1, GotoType
    <3> QED BY <1>5, <2>1, <3>1
      DEF AckArrives, TypeOK, StreamsOK, SessionOK, OpeningOK, TrafficOK, session, traffic
  <2>2. CASE GiveUp(s, "err")
    BY <1>5, <2>2, GiveUpType
      DEF AckArrives, TypeOK, SessionOK, OpeningOK, TrafficOK, session, traffic
  <2> QED BY <1>5, <2>1, <2>2 DEF AckArrives
<1>6. CASE AckTimeout(s)
  BY <1>6, GiveUpType
    DEF AckTimeout, TypeOK, SessionOK, OpeningOK, TrafficOK, session, traffic
<1>7. CASE ReplyConnect(s)
  <2>1. CASE /\ reply' = [reply EXCEPT ![s] = "ok"]
             /\ StartRelay("client", s)
             /\ UNCHANGED <<registry, rx>>
    BY <1>7, <2>1, StartRelayType
      DEF ReplyConnect, TypeOK, StreamsOK, SessionOK, OpeningOK, TrafficOK, session, traffic
  <2>2. CASE GiveUp(s, "none")
    BY <1>7, <2>2, GiveUpType
      DEF ReplyConnect, TypeOK, SessionOK, OpeningOK, TrafficOK, session, traffic
  <2> QED BY <1>7, <2>1, <2>2 DEF ReplyConnect
<1>8. CASE ForwardRequest(s)
  <2>1. CASE /\ Send("client", Data(s, 1))
             /\ sent' = [sent EXCEPT !["client"][s] = 1]
             /\ StartRelay("client", s)
             /\ UNCHANGED <<registry, rx, reply>>
    <3>1. sent' \in [End -> [Stream -> Nat]]
      BY <2>1, Update DEF TypeOK, TrafficOK
    <3> QED BY <1>8, <2>1, <3>1, StartRelayType, SendType, FrameType
      DEF ForwardRequest, TypeOK, StreamsOK, SessionOK, OpeningOK, TrafficOK
  <2>2. CASE GiveUp(s, "none") /\ UNCHANGED <<frames, sent>>
    BY <1>8, <2>2, GiveUpType DEF ForwardRequest, TypeOK, SessionOK, OpeningOK, TrafficOK
  <2> QED BY <1>8, <2>1, <2>2 DEF ForwardRequest
<1> QED BY <1>1, <1>2, <1>3, <1>4, <1>5, <1>6, <1>7, <1>8 DEF Handler

\* What is sent from one stream task: a pump reads, fails, ends or closes, and
\* write_task writes or ends.
LEMMA PumpType ==
  ASSUME TypeOK, NEW e \in End, NEW s \in Stream,
         PumpData(e, s) \/ PumpFails(e, s) \/ PumpEof(e, s) \/ PumpClose(e, s)
  PROVE  TypeOK'
<1> USE StepType
<1>1. CASE PumpData(e, s)
  <2>1. sent[e][s] + 1 \in Nat
    BY DEF TypeOK, TrafficOK
  <2>2. sent' \in [End -> [Stream -> Nat]]
    BY <1>1, <2>1, Update DEF PumpData, TypeOK, TrafficOK
  <2>3. /\ frames' \in [End -> Seq(Frame)]
        /\ \A o \in End : Len(frames'[o]) <= FrameCap
    BY <1>1, <2>1, SendType, FrameType DEF PumpData
  <2> QED BY <1>1, <2>2, <2>3
    DEF PumpData, TypeOK, StreamsOK, SessionOK, OpeningOK, TrafficOK, streams, opening
<1>2. CASE PumpFails(e, s) \/ PumpEof(e, s)
  <2>1. pc' \in [End -> [Stream -> Step]]
    <3>1. pc' = [pc EXCEPT ![e][s] = "closing"]
      BY <1>2 DEF PumpFails, PumpEof
    <3> QED BY <3>1, Update DEF TypeOK, StreamsOK
  <2> QED BY <1>2, <2>1
    DEF PumpFails, PumpEof, TypeOK, StreamsOK, SessionOK, OpeningOK, TrafficOK,
        session, opening, traffic
<1>3. CASE PumpClose(e, s)
  <2>1. pc' \in [End -> [Stream -> Step]]
    BY <1>3, Update DEF PumpClose, TypeOK, StreamsOK
  <2>2. registry' \in [End -> SUBSET Stream]
    BY <1>3 DEF PumpClose, Unregistered, TypeOK, StreamsOK
  <2>3. /\ frames' \in [End -> Seq(Frame)]
        /\ \A o \in End : Len(frames'[o]) <= FrameCap
    BY <1>3, SendType, FrameType DEF PumpClose, SendOrIgnore, TypeOK, SessionOK
  <2> QED BY <1>3, <2>1, <2>2, <2>3
    DEF PumpClose, TypeOK, StreamsOK, SessionOK, OpeningOK, TrafficOK, opening, traffic
<1> QED BY <1>1, <1>2, <1>3

\* write_task keeps the types.
LEMMA WriteType ==
  ASSUME TypeOK, NEW e \in End, NEW s \in Stream, WriteChunk(e, s) \/ WriteEnds(e, s)
  PROVE  TypeOK'
<1> USE StepType
<1>0. rx[e][s] \in Seq(Nat) /\ got[e][s] \in Seq(Nat)
  BY DEF TypeOK, StreamsOK, TrafficOK
<1>1. CASE WriteChunk(e, s) /\ peer[e][s] # "reset"
  <2>1. /\ Tail(rx[e][s]) \in Seq(Nat) /\ Len(Tail(rx[e][s])) <= DataCap
        /\ Append(got[e][s], Head(rx[e][s])) \in Seq(Nat)
    BY <1>0, <1>1, CapAssumption DEF WriteChunk, CanWrite, TypeOK, StreamsOK
  <2>2. /\ rx' = [rx EXCEPT ![e][s] = Tail(rx[e][s])]
        /\ got' = [got EXCEPT ![e][s] = Append(got[e][s], Head(rx[e][s]))]
        /\ chan' = chan
    BY <1>1 DEF WriteChunk, CanWrite
  <2>3. got' \in [End -> [Stream -> Seq(Nat)]]
    BY <2>1, <2>2, Update DEF TypeOK, TrafficOK
  <2> QED BY <1>1, <2>1, <2>2, <2>3, RxType
    DEF WriteChunk, CanWrite, TypeOK, StreamsOK, SessionOK, OpeningOK, TrafficOK, session, opening
<1>2. CASE WriteChunk(e, s) /\ peer[e][s] = "reset"
  <2>1. <<>> \in Seq(Nat) /\ Len(<<>>) <= DataCap
    BY CapAssumption
  <2>2. /\ rx' = [rx EXCEPT ![e][s] = <<>>]
        /\ chan' = [chan EXCEPT ![e][s] = "closed"]
        /\ got' = got
    BY <1>2 DEF WriteChunk, CanWrite
  <2>3. chan' \in [End -> [Stream -> ChanState]]
    BY <2>2, Update DEF TypeOK, StreamsOK
  <2> QED BY <1>2, <2>1, <2>2, <2>3, RxType
    DEF WriteChunk, CanWrite, TypeOK, StreamsOK, SessionOK, OpeningOK, TrafficOK, session, opening
<1>3. CASE WriteEnds(e, s)
  <2>1. chan' \in [End -> [Stream -> ChanState]]
    BY <1>3, Update DEF WriteEnds, TypeOK, StreamsOK
  <2> QED BY <1>3, <2>1
    DEF WriteEnds, TypeOK, StreamsOK, SessionOK, OpeningOK, TrafficOK, session, opening, traffic
<1> QED BY <1>1, <1>2, <1>3

\* The mux writer loop.
LEMMA SinkType ==
  ASSUME TypeOK, NEW e \in End, Sink(e) PROVE TypeOK'
<1>0. frames[e] \in Seq(Frame) /\ wire[e] \in Seq(Frame)
  BY DEF TypeOK, SessionOK
<1>1. CASE Transmit(e)
  <2>1. /\ Head(frames[e]) \in Frame
        /\ Tail(frames[e]) \in Seq(Frame) /\ Len(Tail(frames[e])) = Len(frames[e]) - 1
    BY <1>0, <1>1 DEF Transmit, CanTransmit
  <2>2. SessionOK'
    BY <1>0, <1>1, <2>1, CapAssumption DEF Transmit, CanTransmit, TypeOK, SessionOK
  <2> QED BY <1>1, <2>2
    DEF Transmit, CanTransmit, TypeOK, StreamsOK, OpeningOK, TrafficOK, streams, opening, traffic
<1>2. CASE SinkStops(e)
  <2>1. frames' \in [End -> Seq(Frame)] /\ \A o \in End : Len(frames'[o]) <= FrameCap
    <3>1. CASE frames[e] # <<>> /\ frames' = [frames EXCEPT ![e] = Tail(@)]
      <4>1. Tail(frames[e]) \in Seq(Frame) /\ Len(Tail(frames[e])) = Len(frames[e]) - 1
        BY <1>0, <3>1
      <4> QED BY <3>1, <4>1, CapAssumption DEF TypeOK, SessionOK
    <3>2. CASE UNCHANGED frames
      BY <3>2 DEF TypeOK, SessionOK
    <3> QED BY <1>2, <3>1, <3>2 DEF SinkStops
  <2>2. registry' \in [End -> SUBSET Stream] /\ sink' \in [End -> {"on", "closing", "off"}]
    BY <1>2 DEF SinkStops, TypeOK, StreamsOK, SessionOK
  <2> QED BY <1>2, <2>1, <2>2
    DEF SinkStops, TypeOK, StreamsOK, SessionOK, OpeningOK, TrafficOK, opening, traffic
<1>3. CASE SinkDrops(e)
  <2>1. frames' \in [End -> Seq(Frame)] /\ \A o \in End : Len(frames'[o]) <= FrameCap
    BY <1>3, CapAssumption DEF SinkDrops, TypeOK, SessionOK
  <2> QED BY <1>3, <2>1
    DEF SinkDrops, TypeOK, StreamsOK, SessionOK, OpeningOK, TrafficOK, streams, opening, traffic
<1> QED BY <1>1, <1>2, <1>3 DEF Sink

\* The frame that arrives or is held is a frame, and taking it off the wire
\* keeps the wire well typed.
LEMMA ReceiveType ==
  ASSUME TypeOK, NEW e \in End, NEW type, Receive(e, type)
  PROVE  /\ Arriving(e) \in Frame
         /\ wire' \in [End -> Seq(Frame)]
         /\ \A o \in End : Len(wire'[o]) <= WireCap
<1>1. Other(e) \in End /\ wire[Other(e)] \in Seq(Frame)
  BY EndType DEF TypeOK, SessionOK
<1> QED BY <1>1, CapAssumption DEF Receive, CanReceive, Arriving, TypeOK, SessionOK

\* A frame the reader holds is a frame of a known stream.
LEMMA HeldType ==
  ASSUME TypeOK, NEW e \in End, NEW type, Holds(e, type)
  PROVE  /\ Head(held[e]) \in Frame
         /\ HeldId(e) \in Stream /\ Head(held[e]).arg \in Nat
<1>1. held[e] \in Seq(Frame)
  BY DEF TypeOK, SessionOK
<1>2. Head(held[e]) \in Frame
  BY <1>1 DEF Holds
<1> QED BY <1>2 DEF HeldId, Frame

\* The reader holds at most one frame.
LEMMA HoldType ==
  ASSUME TypeOK, NEW e \in End, NEW f \in Frame, Hold(e, f) \/ Release(e)
  PROVE  held' \in [End -> Seq(Frame)] /\ \A o \in End : Len(held'[o]) <= 1
<1>1. held \in [End -> Seq(Frame)] /\ \A o \in End : Len(held[o]) <= 1
  BY DEF TypeOK, SessionOK
<1>2. CASE Hold(e, f)
  <2>1. <<f>> \in Seq(Frame) /\ Len(<<f>>) = 1
    OBVIOUS
  <2> QED BY <1>1, <1>2, <2>1 DEF Hold
<1>3. CASE Release(e)
  BY <1>1, <1>3 DEF Release
<1> QED BY <1>2, <1>3

\* The mux reader loop at either end.
LEMMA ReaderType ==
  ASSUME TypeOK, NEW e \in End,
         ReceiveData(e) \/ Route(e) \/ ReceiveClose(e) \/ ReaderStops(e)
  PROVE  TypeOK'
<1>1. CASE ReceiveData(e)
  <2> DEFINE f == Arriving(e)
  <2>1. f \in Frame /\ f.id \in Stream /\ f.arg \in Nat
    BY <1>1, ReceiveType DEF ReceiveData, Frame
  <2>2. rx[e][f.id] \in Seq(Nat)
    BY <2>1 DEF TypeOK, StreamsOK
  <2>3. /\ rx' \in [End -> [Stream -> Seq(Nat)]]
        /\ \A o \in End, x \in Stream : Len(rx'[o][x]) <= DataCap
    <3>1. CASE UNCHANGED rx
      BY <3>1 DEF TypeOK, StreamsOK
    <3>2. CASE Len(rx[e][f.id]) < DataCap /\ rx' = [rx EXCEPT ![e][f.id] = Append(@, f.arg)]
      <4>1. Append(rx[e][f.id], f.arg) \in Seq(Nat) /\ Len(Append(rx[e][f.id], f.arg)) <= DataCap
        BY <2>1, <2>2, <3>2, CapAssumption
      <4>2. rx' = [rx EXCEPT ![e][f.id] = Append(rx[e][f.id], f.arg)]
        BY <3>2
      <4> QED BY <2>1, <4>1, <4>2, RxType
    <3> QED BY <1>1, <3>1, <3>2 DEF ReceiveData
  <2>4. held' \in [End -> Seq(Frame)] /\ \A o \in End : Len(held'[o]) <= 1
    <3>1. CASE UNCHANGED held
      BY <3>1 DEF TypeOK, SessionOK
    <3>2. CASE Hold(e, f)
      BY <2>1, <3>2, HoldType
    <3> QED BY <1>1, <3>1, <3>2 DEF ReceiveData
  <2>5. wire' \in [End -> Seq(Frame)] /\ \A o \in End : Len(wire'[o]) <= WireCap
    BY <1>1, ReceiveType DEF ReceiveData
  <2> QED BY <1>1, <2>3, <2>4, <2>5
    DEF ReceiveData, TypeOK, StreamsOK, SessionOK, OpeningOK, TrafficOK, opening, traffic
<1>2. CASE Route(e)
  <2> DEFINE s == HeldId(e)  n == Head(held[e]).arg
  <2>1. s \in Stream /\ n \in Nat
    BY <1>2, HeldType DEF Route
  <2>2. rx[e][s] \in Seq(Nat)
    BY <2>1 DEF TypeOK, StreamsOK
  <2>3. /\ rx' \in [End -> [Stream -> Seq(Nat)]]
        /\ \A o \in End, x \in Stream : Len(rx'[o][x]) <= DataCap
    <3>1. CASE UNCHANGED rx
      BY <3>1 DEF TypeOK, StreamsOK
    <3>2. CASE Len(rx[e][s]) < DataCap /\ rx' = [rx EXCEPT ![e][s] = Append(@, n)]
      <4>1. Append(rx[e][s], n) \in Seq(Nat) /\ Len(Append(rx[e][s], n)) <= DataCap
        BY <2>1, <2>2, <3>2, CapAssumption
      <4>2. rx' = [rx EXCEPT ![e][s] = Append(rx[e][s], n)]
        BY <3>2
      <4> QED BY <2>1, <4>1, <4>2, RxType
    <3> QED BY <1>2, <3>1, <3>2 DEF Route
  <2>4. held' \in [End -> Seq(Frame)] /\ \A o \in End : Len(held'[o]) <= 1
    BY <1>2, HeldType, HoldType DEF Route
  <2> QED BY <1>2, <2>3, <2>4
    DEF Route, TypeOK, StreamsOK, SessionOK, OpeningOK, TrafficOK, opening, traffic
<1>3. CASE ReceiveClose(e)
  <2>1. registry' \in [End -> SUBSET Stream]
    BY <1>3 DEF ReceiveClose, Unregistered, TypeOK, StreamsOK
  <2> QED BY <1>3, <2>1, ReceiveType
    DEF ReceiveClose, TypeOK, StreamsOK, SessionOK, OpeningOK, TrafficOK, opening, traffic
<1>4. CASE ReaderStops(e)
  BY <1>4
    DEF ReaderStops, TypeOK, StreamsOK, SessionOK, OpeningOK, TrafficOK, opening, traffic
<1> QED BY <1>1, <1>2, <1>3, <1>4

\* The frames only one end's reader deals with.
LEMMA OpenAckType ==
  ASSUME TypeOK, ReceiveAck \/ DropAcks \/ ReceiveOpen \/ ConnectOk \/ ConnectRefused \/ SendAck
  PROVE  TypeOK'
<1> USE EndType, StepType
<1>1. CASE ReceiveAck
  <2>1. Arriving("client").id \in Stream
    BY <1>1, ReceiveType DEF ReceiveAck, Frame
  <2>2. OpeningOK'
    BY <1>1, <2>1 DEF ReceiveAck, TypeOK, OpeningOK
  <2> QED BY <1>1, <2>2, ReceiveType
    DEF ReceiveAck, TypeOK, StreamsOK, SessionOK, TrafficOK, streams, traffic
<1>2. CASE DropAcks
  BY <1>2
    DEF DropAcks, TypeOK, StreamsOK, SessionOK, OpeningOK, TrafficOK, streams, traffic
<1>3. CASE ReceiveOpen
  <2>1. held' \in [End -> Seq(Frame)] /\ \A o \in End : Len(held'[o]) <= 1
    BY <1>3, ReceiveType, HoldType DEF ReceiveOpen
  <2> QED BY <1>3, <2>1, ReceiveType
    DEF ReceiveOpen, TypeOK, StreamsOK, SessionOK, OpeningOK, TrafficOK, streams, opening, traffic
<1>4. CASE ConnectOk
  <2> DEFINE s == HeldId("server")
  <2>1. s \in Stream
    BY <1>4, HeldType DEF ConnectOk
  <2>2. held' \in [End -> Seq(Frame)] /\ \A o \in End : Len(held'[o]) <= 1
    BY <1>4, <2>1, FrameType, HoldType DEF ConnectOk
  <2>3. chan' \in [End -> [Stream -> ChanState]]
    BY <1>4, <2>1, Update DEF ConnectOk, TypeOK, StreamsOK
  <2>4. registry' \in [End -> SUBSET Stream]
    BY <1>4, <2>1 DEF ConnectOk, Registered, TypeOK, StreamsOK
  <2> QED BY <1>4, <2>2, <2>3, <2>4
    DEF ConnectOk, TypeOK, StreamsOK, SessionOK, OpeningOK, TrafficOK, opening, traffic
<1>5. CASE ConnectRefused
  <2>1. HeldId("server") \in Stream
    BY <1>5, HeldType DEF ConnectRefused
  <2>2. held' \in [End -> Seq(Frame)] /\ \A o \in End : Len(held'[o]) <= 1
    BY <1>5, <2>1, FrameType, HoldType DEF ConnectRefused
  <2>3. registry' \in [End -> SUBSET Stream]
    BY <1>5 DEF ConnectRefused, Unregistered, TypeOK, StreamsOK
  <2> QED BY <1>5, <2>2, <2>3
    DEF ConnectRefused, TypeOK, StreamsOK, SessionOK, OpeningOK, TrafficOK, opening, traffic
<1>6. CASE SendAck
  <2>1. Head(held["server"]) \in Frame /\ HeldId("server") \in Stream
    BY <1>6, HeldType DEF SendAck
  <2>2. held' \in [End -> Seq(Frame)] /\ \A o \in End : Len(held'[o]) <= 1
    BY <1>6, <2>1, HoldType DEF SendAck
  <2>3. frames' \in [End -> Seq(Frame)] /\ \A o \in End : Len(frames'[o]) <= FrameCap
    BY <1>6, <2>1, SendType DEF SendAck, SendOrIgnore, TypeOK, SessionOK
  <2>4. pc' \in [End -> [Stream -> Step]] /\ chan' \in [End -> [Stream -> ChanState]]
    BY <1>6, <2>1, StartRelayType DEF SendAck, TypeOK, StreamsOK
  <2> QED BY <1>6, <2>2, <2>3, <2>4
    DEF SendAck, TypeOK, StreamsOK, SessionOK, OpeningOK, TrafficOK, opening, traffic
<1> QED BY <1>1, <1>2, <1>3, <1>4, <1>5, <1>6

\* The keeper, the peers and the link.
LEMMA KeeperType ==
  ASSUME TypeOK, Keeper PROVE TypeOK'
BY EndType DEF Keeper, KeeperTakes, KeeperCloses, TypeOK, StreamsOK, SessionOK, OpeningOK,
  TrafficOK, streams, session, traffic

\* A peer leaves in one of the ways it may.
LEMMA PeerType ==
  ASSUME TypeOK, NEW e \in End, NEW s \in Stream, PeerLeaves(e, s) PROVE TypeOK'
<1>1. PICK how \in Leaves[e] : peer' = [peer EXCEPT ![e][s] = how]
  BY DEF PeerLeaves
<1>2. how \in PeerState
  BY ModeAssumption DEF PeerState, End
<1>3. peer' \in [End -> [Stream -> PeerState]]
  BY <1>1, <1>2, Update DEF TypeOK, TrafficOK
<1> QED BY <1>3
  DEF PeerLeaves, TypeOK, StreamsOK, SessionOK, OpeningOK, TrafficOK, streams, session, opening

\* The link fails in one of the ways it may.
LEMMA LinkType ==
  ASSUME TypeOK, LinkFails PROVE TypeOK'
BY ModeAssumption DEF LinkFails, TypeOK, StreamsOK, SessionOK, OpeningOK, TrafficOK, streams,
  opening, traffic

\* Every step keeps the types and the bounds.
LEMMA NextType == TypeOK /\ [Next]_vars => TypeOK'
<1> SUFFICES ASSUME TypeOK, [Next]_vars PROVE TypeOK'
  OBVIOUS
<1>1. ASSUME NEW s \in Stream, Handler(s) PROVE TypeOK'
  BY <1>1, HandlerType
<1>2. ASSUME NEW e \in End, NEW s \in Stream, Relay(e, s) PROVE TypeOK'
  BY <1>2, PumpType, WriteType DEF Relay
<1>3. ASSUME NEW e \in End, Sink(e) PROVE TypeOK'
  BY <1>3, SinkType
<1>4. ASSUME NEW e \in End, Reader(e) PROVE TypeOK'
  BY <1>4, ReaderType, OpenAckType DEF Reader
<1>5. CASE Keeper
  BY <1>5, KeeperType
<1>6. CASE Environment
  BY <1>6, PumpType, PeerType, LinkType DEF Environment
<1>7. CASE UNCHANGED vars
  BY <1>7 DEF vars, TypeOK, StreamsOK, SessionOK, OpeningOK, TrafficOK, streams, session,
    opening, traffic
<1> QED BY <1>1, <1>2, <1>3, <1>4, <1>5, <1>6, <1>7 DEF Next, Tasks

\* The initial state is well typed.
LEMMA InitType == Init => TypeOK
<1> SUFFICES ASSUME Init PROVE TypeOK
  OBVIOUS
<1>1. StreamsOK
  BY CapAssumption, StepType DEF Init, StreamsOK
<1>2. SessionOK /\ OpeningOK
  BY CapAssumption DEF Init, SessionOK, OpeningOK
<1>3. TrafficOK
  BY DEF Init, TrafficOK, PeerState
<1> QED BY <1>1, <1>2, <1>3 DEF TypeOK

\* The state of both ends stays well typed, and the frame channels, the data
\* channels, the wire and the reader's hands never hold more than they may.
THEOREM TypeCorrect == Spec => []TypeOK
<1>1. TypeOK /\ [Next]_vars => TypeOK'
  BY NextType
<1> QED BY <1>1, InitType, PTL DEF Spec

-----------------------------------------------------------------------------
(* The inductive invariant behind RegistryClean and FrameOrder.  It says   *)
(* where the frames of a stream can be while its two tasks are where they  *)
(* are.                                                                    *)

\* The frames in a sequence, and those on their way from end o.
Items(q)   == {q[i] : i \in 1..Len(q)}
Transit(o) == Items(held[Other(o)]) \cup Items(wire[o]) \cup Items(frames[o])

\* g may come after f: between OPEN or OPEN_ACK and CLOSE the chunks are numbered
\* upwards.
Follows(f, g) ==
  f.id = g.id =>
    /\ g.type \in {"DATA", "CLOSE"} /\ f.type # "CLOSE"
    /\ f.type = "DATA" /\ g.type = "DATA" => f.arg < g.arg
Sorted(q)     == \A i, j \in 1..Len(q) : i < j => Follows(q[i], q[j])
Before(p, q)  == \A f \in Items(p), g \in Items(q) : Follows(f, g)

\* FrameOrder, said of the three places a frame can be, and of the chunks.
OrderInv ==
  \A o \in End :
    /\ Sorted(wire[o]) /\ Sorted(frames[o])
    /\ Before(held[Other(o)], wire[o]) /\ Before(held[Other(o)], frames[o])
    /\ Before(wire[o], frames[o])

\* The steps of a handler before its OPEN is sent, and before it relays.
Opening == {"start", "register", "insert", "open"}
Early   == Opening \cup {"wait", "reply"}

\* A chunk on its way was taken from the peer, and none is taken before the
\* relay starts.
SentInv ==
  /\ \A o \in End : \A f \in Transit(o) : f.type = "DATA" => f.arg \in 1..sent[o][f.id]
  /\ \A s \in Stream : pc["client"][s] \in Early => sent["client"][s] = 0

\* The server has not heard of stream s.
Fresh(s) ==
  /\ pc["server"][s] = "start" /\ s \notin registry["server"]
  /\ \A f \in Transit("server") : f.id # s

\* A stream's frames leave the client from OPEN to CLOSE.
ClientInv ==
  \A f \in Transit("client") :
    /\ pc["client"][f.id] \notin Opening
    /\ f.type = "CLOSE" => pc["client"][f.id] = "done"
    /\ f.type = "OPEN" => Fresh(f.id)

\* They leave the server from OPEN_ACK to CLOSE, once the client asked.
ServerInv ==
  /\ \A f \in Transit("server") : f.type = "CLOSE" => pc["server"][f.id] = "done"
  /\ \A s \in Stream : pc["client"][s] \in Opening => Fresh(s) /\ ack[s] = "none"
  /\ \A f \in Items(held["server"]) : f.type = "OPEN_ACK" =>
       /\ pc["server"][f.id] = "start" /\ \A g \in Transit("server") : g.id # f.id
       /\ f.arg # 0 => f.id \notin registry["server"]

\* Who is in a registry.
RegistryInv ==
  /\ \A s \in registry["client"] : pc["client"][s] \notin {"start", "register", "done"}
  /\ \A s \in registry["server"] :
       \/ pc["server"][s] \in {"relay", "closing"}
       \/ \E f \in Items(held["server"]) : f.type = "OPEN_ACK" /\ f.id = s
  /\ reader["server"] = "off" => registry["server"] = {}

\* A loop ends, and the keeper takes the connection, only after the link went
\* down; a reader that awaits something has not ended.
DownInv ==
  /\ \A e \in End : sink[e] # "on" \/ reader[e] # "on" => link = "down"
  /\ mux # "up" => link = "down"
  /\ \A e \in End : held[e] # <<>> => reader[e] = "on"

\* A handler that registered after the keeper closed the connection has no
\* OPEN beyond the frame channel, so it will not get an OPEN_ACK.
LateInv ==
  mux = "closed" =>
    \A s \in registry["client"] :
      /\ pc["client"][s] \in {"insert", "open", "wait"}
      /\ ack[s] # "ok" /\ Fresh(s)
      /\ \A f \in Items(wire["client"]) \cup Items(held["server"]) : f.id # s

IndInv ==
  /\ TypeOK /\ OrderInv /\ SentInv /\ ClientInv /\ ServerInv
  /\ RegistryInv /\ DownInv /\ LateInv

\* What the operations on sequences do to the items and their order.
LEMMA ItemsAppend ==
  ASSUME NEW q \in Seq(Frame), NEW f \in Frame
  PROVE  Items(Append(q, f)) = Items(q) \cup {f}
BY DEF Items

\* A sequence has the items of its head and its tail.
LEMMA ItemsTail ==
  ASSUME NEW q \in Seq(Frame), q # <<>>
  PROVE  /\ Head(q) \in Items(q) /\ Items(Tail(q)) \subseteq Items(q)
         /\ Items(q) = {Head(q)} \cup Items(Tail(q))
<1>1. /\ Len(q) \in Nat /\ Len(q) > 0 /\ Head(q) = q[1]
      /\ Len(Tail(q)) = Len(q) - 1
      /\ \A i \in 1..(Len(q) - 1) : Tail(q)[i] = q[i + 1]
  OBVIOUS
<1>2. Head(q) \in Items(q)
  BY <1>1 DEF Items
<1>3. Items(Tail(q)) \subseteq Items(q)
  BY <1>1 DEF Items
<1>4. ASSUME NEW f \in Items(q), f # Head(q) PROVE f \in Items(Tail(q))
  <2>1. PICK i \in 1..Len(q) : f = q[i]
    BY DEF Items
  <2>2. i - 1 \in 1..(Len(q) - 1) /\ Tail(q)[i - 1] = f
    BY <1>1, <1>4, <2>1
  <2> QED BY <1>1, <2>2 DEF Items
<1> QED BY <1>2, <1>3, <1>4

\* The items of the shortest sequences.
LEMMA ItemsFew ==
  /\ Items(<<>>) = {}
  /\ \A f : Items(<<f>>) = {f}
BY DEF Items

\* A frame appended behind frames it may follow keeps the order.
LEMMA SortedAppend ==
  ASSUME NEW q \in Seq(Frame), NEW f \in Frame, Sorted(q), \A g \in Items(q) : Follows(g, f)
  PROVE  Sorted(Append(q, f))
BY DEF Sorted, Items

\* The tail is in order, and may follow the head.
LEMMA SortedTail ==
  ASSUME NEW q \in Seq(Frame), q # <<>>, Sorted(q)
  PROVE  Sorted(Tail(q)) /\ \A g \in Items(Tail(q)) : Follows(Head(q), g)
BY DEF Sorted, Items

\* Frames on their way are frames.
LEMMA TransitType ==
  ASSUME TypeOK, NEW o \in End, NEW f \in Transit(o)
  PROVE  f \in Frame /\ f.id \in Stream
<1>1. /\ held[Other(o)] \in Seq(Frame) /\ wire[o] \in Seq(Frame) /\ frames[o] \in Seq(Frame)
  BY EndType DEF TypeOK, SessionOK
<1>2. \A q \in Seq(Frame) : Items(q) \subseteq Frame
  BY DEF Items
<1> QED BY <1>1, <1>2 DEF Transit, Frame

\* The other end of the other end.
LEMMA Others ==
  /\ Other("client") = "server" /\ Other("server") = "client"
  /\ \A e \in End : Other(Other(e)) = e /\ Other(e) # e
BY DEF Other, End

\* The sequences frames travel through, as sequences.
LEMMA QueueType ==
  ASSUME TypeOK, NEW o \in End
  PROVE  frames[o] \in Seq(Frame) /\ wire[o] \in Seq(Frame) /\ held[o] \in Seq(Frame)
BY DEF TypeOK, SessionOK

\* A frame enters the channel of end e behind frames it may follow.
LEMMA SendCarry ==
  ASSUME TypeOK, OrderInv, NEW e \in End, NEW f \in Frame, Send(e, f), UNCHANGED <<held, wire>>,
         \A g \in Transit(e) : Follows(g, f)
  PROVE  /\ OrderInv'
         /\ Transit(e)' = Transit(e) \cup {f}
         /\ Transit(Other(e))' = Transit(Other(e))
<1> USE EndType, Others
<1>1. /\ frames'[e] = Append(frames[e], f)
      /\ \A o \in End : o # e => frames'[o] = frames[o]
  BY DEF Send, CanSend, TypeOK, SessionOK
<1>2. Items(frames'[e]) = Items(frames[e]) \cup {f}
  BY <1>1, QueueType, ItemsAppend
<1>3. Sorted(frames'[e])
  BY <1>1, QueueType, SortedAppend DEF OrderInv, Transit
<1>4. Before(held[Other(e)], frames'[e]) /\ Before(wire[e], frames'[e])
  BY <1>2 DEF OrderInv, Before, Transit
<1>5. OrderInv'
  BY <1>1, <1>3, <1>4 DEF OrderInv
<1> QED BY <1>1, <1>2, <1>5 DEF Transit

\* The writer loop moves the oldest frame of the channel onto the wire.
LEMMA TransmitCarry ==
  ASSUME TypeOK, OrderInv, NEW e \in End, Transmit(e)
  PROVE  /\ OrderInv'
         /\ \A o \in End : Transit(o)' = Transit(o)
<1> USE EndType, Others
<1> DEFINE f == Head(frames[e])
<1>1. /\ frames'[e] = Tail(frames[e]) /\ wire'[e] = Append(wire[e], f) /\ frames[e] # <<>>
      /\ \A o \in End : o # e => frames'[o] = frames[o] /\ wire'[o] = wire[o]
      /\ held' = held
  BY DEF Transmit, CanTransmit, TypeOK, SessionOK
<1>2. f \in Frame
  BY <1>1, QueueType
<1>3. /\ Items(frames[e]) = {f} \cup Items(frames'[e])
      /\ Items(wire'[e]) = Items(wire[e]) \cup {f}
  BY <1>1, <1>2, QueueType, ItemsAppend, ItemsTail
<1>4. Sorted(frames'[e]) /\ \A g \in Items(frames'[e]) : Follows(f, g)
  BY <1>1, QueueType, SortedTail DEF OrderInv
<1>5. Sorted(wire'[e])
  BY <1>1, <1>2, <1>3, QueueType, SortedAppend DEF OrderInv, Before
<1>6. /\ Before(held[Other(e)], wire'[e]) /\ Before(held[Other(e)], frames'[e])
      /\ Before(wire'[e], frames'[e])
  BY <1>3, <1>4 DEF OrderInv, Before
<1>7. OrderInv'
  BY <1>1, <1>4, <1>5, <1>6 DEF OrderInv
<1> QED BY <1>1, <1>3, <1>7 DEF Transit

\* Frames of the channel of end e are lost.
LEMMA DropCarry ==
  ASSUME TypeOK, OrderInv, NEW e \in End, UNCHANGED <<held, wire>>,
         \/ frames' = frames
         \/ frames' = [frames EXCEPT ![e] = <<>>]
         \/ frames[e] # <<>> /\ frames' = [frames EXCEPT ![e] = Tail(@)]
  PROVE  /\ OrderInv'
         /\ \A o \in End : Transit(o)' \subseteq Transit(o)
<1> USE EndType, Others
<1>1. \A o \in End : o # e => frames'[o] = frames[o]
  BY DEF TypeOK, SessionOK
<1>2. Items(frames'[e]) \subseteq Items(frames[e]) /\ Sorted(frames'[e])
  <2>1. CASE frames' = frames
    BY <2>1 DEF OrderInv
  <2>2. CASE frames' = [frames EXCEPT ![e] = <<>>]
    <3>1. frames'[e] = <<>>
      BY <2>2 DEF TypeOK, SessionOK
    <3> QED BY <3>1, ItemsFew DEF Sorted
  <2>3. CASE frames[e] # <<>> /\ frames' = [frames EXCEPT ![e] = Tail(@)]
    <3>1. frames'[e] = Tail(frames[e])
      BY <2>3 DEF TypeOK, SessionOK
    <3> QED BY <2>3, <3>1, QueueType, ItemsTail, SortedTail DEF OrderInv
  <2> QED BY <2>1, <2>2, <2>3
<1>3. Before(held[Other(e)], frames'[e]) /\ Before(wire[e], frames'[e])
  BY <1>2 DEF OrderInv, Before
<1>4. OrderInv'
  BY <1>1, <1>2, <1>3 DEF OrderInv
<1> QED BY <1>1, <1>2, <1>4 DEF Transit

\* The reader of end e takes a frame off the wire and drops it, deals with it
\* at once, or holds it.
LEMMA ReceiveCarry ==
  ASSUME TypeOK, OrderInv, NEW e \in End, NEW type, Receive(e, type), UNCHANGED frames,
         UNCHANGED held \/ Hold(e, Arriving(e))
  PROVE  /\ OrderInv'
         /\ \A o \in End : /\ Transit(o)' \subseteq Transit(o)
                            /\ Items(wire'[o]) \subseteq Items(wire[o])
         /\ Arriving(e) \in Items(wire[Other(e)]) /\ Arriving(e) \in Transit(Other(e))
         /\ Arriving(e).type = type
         /\ Items(held[e]) = {} /\ Items(held'[e]) \subseteq {Arriving(e)}
         /\ held'[Other(e)] = held[Other(e)]
<1> USE EndType, Others
<1> DEFINE o == Other(e)  f == Arriving(e)
<1>1. /\ o \in End /\ o # e /\ Other(o) = e
      /\ wire[o] # <<>> /\ f = Head(wire[o]) /\ f.type = type /\ held[e] = <<>>
      /\ wire'[o] = Tail(wire[o]) /\ wire'[e] = wire[e]
      /\ frames' = frames
  BY DEF Receive, CanReceive, Arriving, TypeOK, SessionOK
<1>2. /\ f \in Items(wire[o]) /\ Items(wire[o]) = {f} \cup Items(wire'[o])
      /\ Sorted(wire'[o]) /\ \A g \in Items(wire'[o]) : Follows(f, g)
  BY <1>1, QueueType, ItemsTail, SortedTail DEF OrderInv
<1>3. Items(held[e]) = {} /\ Items(held'[e]) \subseteq {f} /\ held'[o] = held[o]
  <2>1. CASE UNCHANGED held
    BY <1>1, <2>1, ItemsFew
  <2>2. CASE Hold(e, f)
    <3>1. held'[e] = <<f>> /\ held'[o] = held[o]
      BY <1>1, <2>2 DEF Hold, TypeOK, SessionOK
    <3> QED BY <1>1, <3>1, ItemsFew
  <2> QED BY <2>1, <2>2
<1>4. /\ Before(held'[e], wire'[o]) /\ Before(held'[e], frames[o])
      /\ Before(wire'[o], frames[o])
  BY <1>1, <1>2, <1>3 DEF OrderInv, Before
<1>5. OrderInv'
  <2> SUFFICES ASSUME NEW x \in End
               PROVE  /\ Sorted(wire'[x]) /\ Sorted(frames'[x])
                      /\ Before(held'[Other(x)], wire'[x]) /\ Before(held'[Other(x)], frames'[x])
                      /\ Before(wire'[x], frames'[x])
    BY DEF OrderInv
  <2>1. x = o \/ (x = e /\ Other(x) = o)
    BY DEF End, Other
  <2> QED BY <1>1, <1>2, <1>3, <1>4, <2>1 DEF OrderInv
<1>6. \A x \in End : x = o \/ x = e
  BY DEF End, Other
<1> QED BY <1>1, <1>2, <1>3, <1>5, <1>6 DEF Transit

\* The reader of end e is through with the frame it held.
LEMMA ReleaseCarry ==
  ASSUME TypeOK, OrderInv, NEW e \in End, Release(e), UNCHANGED <<frames, wire>>
  PROVE  /\ OrderInv'
         /\ \A o \in End : Transit(o)' \subseteq Transit(o)
         /\ Items(held'[e]) = {} /\ held'[Other(e)] = held[Other(e)]
<1> USE EndType, Others
<1>1. held'[e] = <<>> /\ \A o \in End : o # e => held'[o] = held[o]
  BY DEF Release, TypeOK, SessionOK
<1>2. Items(held'[e]) = {}
  BY <1>1, ItemsFew
<1>3. \A o \in End : Items(held'[o]) \subseteq Items(held[o])
  BY <1>1, <1>2
<1>4. OrderInv'
  BY <1>3 DEF OrderInv, Before
<1> QED BY <1>1, <1>2, <1>3, <1>4 DEF Transit

\* Everything but stream s at end e stays where it is.
OnlyMoves(e, s, at) ==
  /\ pc'[e][s] = at
  /\ \A o \in End, x \in Stream : o # e \/ x # s => pc'[o][x] = pc[o][x]

\* The tasks of one stream move at one end, and nobody else does.
LEMMA PcUpdate ==
  ASSUME TypeOK, NEW e \in End, NEW s \in Stream, NEW at,
         pc' = [pc EXCEPT ![e][s] = at]
  PROVE  OnlyMoves(e, s, at)
BY DEF OnlyMoves, TypeOK, StreamsOK

\* Steps that leave the three queues alone keep what is in them and its order.
LEMMA SameQueues ==
  ASSUME OrderInv, UNCHANGED <<held, wire, frames>>
  PROVE  OrderInv' /\ \A o \in End : Transit(o)' = Transit(o)
BY DEF OrderInv, Transit

\* The parts of the invariant that are proved together, given TypeOK and SentInv.
Core == OrderInv /\ ClientInv /\ ServerInv /\ RegistryInv /\ DownInv /\ LateInv

\* Steps that touch none of what the invariant is about.
LEMMA Untouched ==
  ASSUME IndInv, UNCHANGED <<pc, registry, session, ack, mux>>
  PROVE  Core'
BY SameQueues DEF IndInv, Core, OrderInv, ClientInv, ServerInv, RegistryInv, DownInv, LateInv,
  Fresh, Transit, session

\* A step of the client's tasks of stream s: the stream moves on to at, perhaps
\* with a frame sent.
LEMMA ClientStep ==
  ASSUME IndInv, NEW s \in Stream, NEW at, OnlyMoves("client", s, at),
         UNCHANGED <<held, wire, sink, reader, link, ack, mux>>,
         OrderInv', Transit("server")' = Transit("server"),
         \A f \in Transit("client")' : f \notin Transit("client") =>
           /\ f.id = s /\ at \notin Opening
           /\ f.type = "CLOSE" => at = "done"
           /\ f.type = "OPEN" => Fresh(s),
         pc["client"][s] # "done", at \in Opening => pc["client"][s] \in Opening,
         registry'["server"] = registry["server"],
         registry'["client"] \subseteq registry["client"] \cup {s},
         s \in registry'["client"] =>
           /\ at \notin {"start", "register", "done"}
           /\ mux = "closed" =>
                /\ at \in {"insert", "open", "wait"} /\ ack[s] # "ok" /\ Fresh(s)
                /\ \A f \in Items(wire["client"]) \cup Items(held["server"]) : f.id # s
  PROVE  Core'
<1> USE EndType
<1>1. registry["client"] \subseteq Stream /\ registry["server"] \subseteq Stream
  BY DEF IndInv, TypeOK, StreamsOK
<1>2. \A o \in End : \A f \in Transit(o) : f.id \in Stream
  BY TransitType DEF IndInv
<1>3. \A f \in Items(held["server"]) : f.id \in Stream
  BY <1>2, Others DEF Transit
<1>4. \A x \in Stream : pc'["server"][x] = pc["server"][x]
  BY DEF OnlyMoves, End
<1>5. \A x \in Stream : Fresh(x) => Fresh(x)'
  BY <1>4 DEF Fresh
<1>6. ClientInv'
  <2> SUFFICES ASSUME NEW f \in Transit("client")'
               PROVE  /\ pc'["client"][f.id] \notin Opening
                      /\ f.type = "CLOSE" => pc'["client"][f.id] = "done"
                      /\ f.type = "OPEN" => Fresh(f.id)'
    BY DEF ClientInv
  <2>1. CASE f \notin Transit("client")
    BY <2>1, <1>5 DEF OnlyMoves
  <2>2. CASE f \in Transit("client")
    <3>1. /\ f.id \in Stream /\ pc["client"][f.id] \notin Opening
          /\ f.type = "CLOSE" => pc["client"][f.id] = "done"
          /\ f.type = "OPEN" => Fresh(f.id)
      BY <1>2, <2>2 DEF IndInv, ClientInv
    <3> QED BY <1>5, <3>1 DEF OnlyMoves
  <2> QED BY <2>1, <2>2
<1>7. ServerInv'
  <2>1. \A x \in Stream : pc'["client"][x] \in Opening => pc["client"][x] \in Opening
    BY DEF OnlyMoves
  <2> QED BY <1>2, <1>3, <1>4, <1>5, <2>1 DEF IndInv, ServerInv
<1>8. RegistryInv'
  BY <1>1, <1>4 DEF IndInv, RegistryInv, OnlyMoves
<1>9. DownInv'
  BY DEF IndInv, DownInv
<1>10. LateInv'
  BY <1>1, <1>5 DEF IndInv, LateInv, OnlyMoves
<1> QED BY <1>6, <1>7, <1>8, <1>9, <1>10 DEF Core

\* A step of the server's tasks of stream s.
LEMMA ServerStep ==
  ASSUME IndInv, NEW s \in Stream, NEW at, OnlyMoves("server", s, at),
         UNCHANGED <<held, wire, sink, reader, link, ack, mux>>,
         OrderInv', Transit("client")' = Transit("client"),
         \A f \in Transit("server")' : f \notin Transit("server") =>
           f.id = s /\ (f.type = "CLOSE" => at = "done"),
         pc["server"][s] \in {"relay", "closing"}, at \in {"relay", "closing", "done"},
         registry'["client"] = registry["client"],
         registry'["server"] \subseteq registry["server"],
         s \in registry'["server"] => at # "done"
  PROVE  Core'
<1> USE EndType
<1>1. registry["client"] \subseteq Stream /\ registry["server"] \subseteq Stream
  BY DEF IndInv, TypeOK, StreamsOK
<1>2. \A o \in End : \A f \in Transit(o) : f.id \in Stream
  BY TransitType DEF IndInv
<1>3. \A f \in Items(held["server"]) : f.id \in Stream
  BY <1>2, Others DEF Transit
<1>4. \A x \in Stream : pc'["client"][x] = pc["client"][x]
  BY DEF OnlyMoves, End
<1>5. \A x \in Stream : Fresh(x) => Fresh(x)'
  <2> SUFFICES ASSUME NEW x \in Stream, Fresh(x) PROVE Fresh(x)'
    OBVIOUS
  <2>1. x # s
    BY DEF Fresh
  <2> QED BY <2>1 DEF Fresh, OnlyMoves
<1>6. ClientInv'
  BY <1>2, <1>4, <1>5 DEF IndInv, ClientInv
<1>7. ServerInv'
  <2>1. \A f \in Transit("server")' : f.type = "CLOSE" => pc'["server"][f.id] = "done"
    BY <1>2 DEF IndInv, ServerInv, OnlyMoves
  <2>2. \A x \in Stream : pc'["client"][x] \in Opening => Fresh(x)' /\ ack'[x] = "none"
    BY <1>4, <1>5 DEF IndInv, ServerInv
  <2>3. ASSUME NEW f \in Items(held'["server"]), f.type = "OPEN_ACK"
        PROVE  /\ pc'["server"][f.id] = "start" /\ \A g \in Transit("server")' : g.id # f.id
               /\ f.arg # 0 => f.id \notin registry'["server"]
    <3>1. /\ pc["server"][f.id] = "start" /\ \A g \in Transit("server") : g.id # f.id
          /\ f.arg # 0 => f.id \notin registry["server"]
      BY <2>3 DEF IndInv, ServerInv
    <3>2. f.id \in Stream /\ f.id # s
      BY <1>3, <2>3, <3>1
    <3> QED BY <3>1, <3>2 DEF OnlyMoves
  <2> QED BY <2>1, <2>2, <2>3 DEF ServerInv
<1>8. RegistryInv'
  BY <1>1, <1>4 DEF IndInv, RegistryInv, OnlyMoves
<1>9. DownInv'
  BY DEF IndInv, DownInv
<1>10. LateInv'
  BY <1>1, <1>4, <1>5 DEF IndInv, LateInv
<1> QED BY <1>6, <1>7, <1>8, <1>9, <1>10 DEF Core

\* A handler returns before the relay, whatever it was told.
LEMMA GiveUpKeeps ==
  ASSUME IndInv, NEW s \in Stream, NEW r, GiveUp(s, r), UNCHANGED <<session, ack, mux>>,
         pc["client"][s] # "done"
  PROVE  Core'
<1>1. OnlyMoves("client", s, "done")
  BY EndType, PcUpdate DEF GiveUp, IndInv
<1>2. /\ registry'["client"] = registry["client"] \ {s}
      /\ registry'["server"] = registry["server"]
  BY DEF GiveUp, Unregistered, IndInv, TypeOK, StreamsOK, End
<1>3. UNCHANGED <<held, wire, frames, sink, reader, link>>
  BY DEF session
<1>4. OrderInv' /\ \A o \in End : Transit(o)' = Transit(o)
  BY <1>3, SameQueues DEF IndInv
<1>5. "done" \notin Opening
  BY DEF Opening
<1> QED BY <1>1, <1>2, <1>3, <1>4, <1>5, EndType, ClientStep

\* A handler moves on without sending or registering anything.
LEMMA GotoKeeps ==
  ASSUME IndInv, NEW s \in Stream, NEW at, Goto(s, at),
         UNCHANGED <<registry, session, ack, mux>>,
         pc["client"][s] # "done", at \in Opening => pc["client"][s] \in Opening,
         s \in registry["client"] =>
           /\ at \notin {"start", "register", "done"}
           /\ mux = "closed" => at \in {"insert", "open", "wait"}
  PROVE  Core'
<1>1. OnlyMoves("client", s, at)
  BY EndType, PcUpdate DEF Goto, IndInv
<1>2. UNCHANGED <<held, wire, frames, sink, reader, link>>
  BY DEF session
<1>3. OrderInv' /\ \A o \in End : Transit(o)' = Transit(o)
  BY <1>2, SameQueues DEF IndInv
<1>4. s \in registry["client"] /\ mux = "closed" =>
        /\ ack[s] # "ok" /\ Fresh(s)
        /\ \A f \in Items(wire["client"]) \cup Items(held["server"]) : f.id # s
  BY DEF IndInv, LateInv
<1> QED BY <1>1, <1>2, <1>3, <1>4, EndType, ClientStep

\* The steps of a request handler.
LEMMA HandlerKeeps ==
  ASSUME IndInv, NEW s \in Stream, Handler(s) PROVE Core'
<1> USE EndType
<1>0. /\ registry["client"] \subseteq Stream
      /\ s \in registry["client"] => pc["client"][s] \notin {"start", "register", "done"}
      /\ pc["client"][s] \in Opening =>
           /\ Fresh(s) /\ ack[s] = "none"
           /\ \A f \in Transit("client") : f.id # s
  BY DEF IndInv, TypeOK, StreamsOK, RegistryInv, ServerInv, ClientInv
<1>1. CASE Snapshot(s)
  <2>1. \/ Goto(s, "register") \/ Goto(s, "done")
    BY <1>1 DEF Snapshot
  <2>2. /\ pc["client"][s] = "start"
        /\ UNCHANGED <<registry, session, ack, mux>>
    BY <1>1 DEF Snapshot, session
  <2> QED BY <1>0, <2>1, <2>2, GotoKeeps DEF Opening
<1>2. CASE Register(s)
  <2>1. pc["client"][s] = "register" /\ OnlyMoves("client", s, "insert")
    BY <1>2, PcUpdate DEF Register, Goto, IndInv
  <2>2. /\ registry'["client"] = registry["client"] \cup {s}
        /\ registry'["server"] = registry["server"]
    BY <1>2 DEF Register, Registered, IndInv, TypeOK, StreamsOK, End
  <2>3. UNCHANGED <<held, wire, frames, sink, reader, link, ack, mux>>
    BY <1>2 DEF Register, session, opening
  <2>4. OrderInv' /\ \A o \in End : Transit(o)' = Transit(o)
    BY <2>3, SameQueues DEF IndInv
  <2>5. \A f \in Items(wire["client"]) \cup Items(held["server"]) : f.id # s
    BY <1>0, <2>1, Others DEF Opening, Transit
  <2>6. ack[s] # "ok" /\ Fresh(s) /\ pc["client"][s] \in Opening
    BY <1>0, <2>1 DEF Opening
  <2> QED BY <2>1, <2>2, <2>3, <2>4, <2>5, <2>6, ClientStep
<1>3. CASE InsertAck(s)
  <2>1. /\ pc["client"][s] = "insert" /\ Goto(s, "open")
        /\ UNCHANGED <<registry, session, ack, mux>>
    BY <1>3 DEF InsertAck, session
  <2> QED BY <2>1, GotoKeeps DEF Opening
<1>4. CASE SendOpen(s)
  <2>0. pc["client"][s] = "open" /\ UNCHANGED <<held, wire, sink, reader, link, ack, mux>>
    BY <1>4 DEF SendOpen
  <2>1. CASE Send("client", Open(s)) /\ Goto(s, "wait") /\ UNCHANGED registry
    <3>1. OnlyMoves("client", s, "wait")
      BY <2>1, PcUpdate DEF Goto, IndInv
    <3>2. /\ Fresh(s) /\ ack[s] = "none"
          /\ \A f \in Transit("client") : f.id # s
      BY <1>0, <2>0 DEF Opening
    <3>3. \A g \in Transit("client") : Follows(g, Open(s))
      BY <3>2 DEF Follows, Open
    <3>4. /\ OrderInv'
          /\ Transit("client")' = Transit("client") \cup {Open(s)}
          /\ Transit("server")' = Transit("server")
      BY <2>0, <2>1, <3>3, SendCarry, FrameType, Others DEF IndInv
    <3>5. \A f \in Items(wire["client"]) \cup Items(held["server"]) : f.id # s
      BY <3>2, Others DEF Transit
    <3>6. Open(s).id = s /\ Open(s).type = "OPEN" /\ "wait" \notin Opening
      BY DEF Open, Opening
    <3> QED BY <2>0, <2>1, <3>1, <3>2, <3>4, <3>5, <3>6, ClientStep
  <2>2. CASE GiveUp(s, IF s \in Socks THEN "err" ELSE "none") /\ UNCHANGED frames
    BY <2>0, <2>2, GiveUpKeeps DEF session
  <2> QED BY <1>4, <2>1, <2>2 DEF SendOpen
<1>5. CASE AckArrives(s)
  <2>0. pc["client"][s] = "wait" /\ UNCHANGED <<session, ack, mux>>
    BY <1>5 DEF AckArrives, session
  <2>1. CASE ack[s] = "ok" /\ Goto(s, "reply") /\ UNCHANGED registry
    BY <2>0, <2>1, GotoKeeps DEF IndInv, LateInv, Opening
  <2>2. CASE GiveUp(s, "err")
    BY <2>0, <2>2, GiveUpKeeps
  <2> QED BY <1>5, <2>1, <2>2 DEF AckArrives
<1>6. CASE AckTimeout(s)
  BY <1>6, GiveUpKeeps DEF AckTimeout, session
<1>7. CASE ReplyConnect(s)
  <2>0. pc["client"][s] = "reply" /\ UNCHANGED <<session, ack, mux>>
    BY <1>7 DEF ReplyConnect, session
  <2>1. CASE StartRelay("client", s) /\ UNCHANGED registry
    <3>1. Goto(s, "relay")
      BY <2>1 DEF StartRelay, Goto
    <3> QED BY <2>0, <2>1, <3>1, GotoKeeps DEF IndInv, LateInv, Opening
  <2>2. CASE GiveUp(s, "none")
    BY <2>0, <2>2, GiveUpKeeps
  <2> QED BY <1>7, <2>1, <2>2 DEF ReplyConnect
<1>8. CASE ForwardRequest(s)
  <2>0. pc["client"][s] = "reply" /\ UNCHANGED <<held, wire, sink, reader, link, ack, mux>>
    BY <1>8 DEF ForwardRequest
  <2>1. CASE Send("client", Data(s, 1)) /\ StartRelay("client", s) /\ UNCHANGED registry
    <3>1. OnlyMoves("client", s, "relay")
      BY <2>1, PcUpdate DEF StartRelay, IndInv
    <3>2. Data(s, 1).id = s /\ Data(s, 1).type = "DATA" /\ "relay" \notin Opening
      BY DEF Data, Opening
    <3>3. \A g \in Transit("client") : Follows(g, Data(s, 1))
      <4>1. \A g \in Transit("client") : g.type = "DATA" => g.arg \in 1..sent["client"][g.id]
        BY DEF IndInv, SentInv
      <4>2. sent["client"][s] = 0
        BY <2>0 DEF IndInv, SentInv, Early
      <4> QED BY <2>0, <3>2, <4>1, <4>2 DEF Follows, IndInv, ClientInv
    <3>4. /\ OrderInv'
          /\ Transit("client")' = Transit("client") \cup {Data(s, 1)}
          /\ Transit("server")' = Transit("server")
      BY <2>0, <2>1, <3>3, SendCarry, FrameType, Others DEF IndInv
    <3>5. s \in registry["client"] => mux # "closed"
      BY <2>0 DEF IndInv, LateInv
    <3> QED BY <2>0, <2>1, <3>1, <3>2, <3>4, <3>5, ClientStep
  <2>2. CASE GiveUp(s, "none") /\ UNCHANGED frames
    BY <2>0, <2>2, GiveUpKeeps DEF session
  <2> QED BY <1>8, <2>1, <2>2 DEF ForwardRequest
<1> QED BY <1>1, <1>2, <1>3, <1>4, <1>5, <1>6, <1>7, <1>8 DEF Handler

\* A pump of either end moves on, perhaps with a frame sent that is no OPEN.
LEMMA PumpStep ==
  ASSUME IndInv, NEW e \in End, NEW s \in Stream, NEW at, OnlyMoves(e, s, at),
         UNCHANGED <<held, wire, sink, reader, link, ack, mux>>,
         OrderInv', Transit(Other(e))' = Transit(Other(e)),
         \A f \in Transit(e)' : f \notin Transit(e) =>
           f.id = s /\ f.type # "OPEN" /\ (f.type = "CLOSE" => at = "done"),
         pc[e][s] \in {"relay", "closing"}, at \in {"relay", "closing", "done"},
         IF at = "done" THEN registry' = Unregistered(e, s) ELSE registry' = registry
  PROVE  Core'
<1>1. /\ \A o \in End : o # e => registry'[o] = registry[o]
      /\ registry'[e] \subseteq registry[e]
      /\ at = "done" => s \notin registry'[e]
  BY DEF Unregistered, IndInv, TypeOK, StreamsOK
<1>2. CASE e = "client"
  <2>1. mux = "closed" => s \notin registry["client"]
    BY <1>2 DEF IndInv, LateInv
  <2>2. at \notin Opening
    BY DEF Opening
  <2> QED BY <1>1, <1>2, <2>1, <2>2, EndType, Others, ClientStep
<1>3. CASE e = "server"
  BY <1>1, <1>3, EndType, Others, ServerStep
<1> QED BY <1>2, <1>3 DEF End

\* The steps of a pump.
LEMMA PumpKeeps ==
  ASSUME IndInv, NEW e \in End, NEW s \in Stream,
         PumpData(e, s) \/ PumpFails(e, s) \/ PumpEof(e, s) \/ PumpClose(e, s)
  PROVE  Core'
<1> USE EndType
<1>0. ASSUME NEW f \in Frame, f.id = s, f.type \in {"DATA", "CLOSE"},
             f.type = "DATA" => f.arg = sent[e][s] + 1,
             pc[e][s] \in {"relay", "closing"}, Send(e, f), UNCHANGED <<held, wire>>
      PROVE  /\ OrderInv' /\ Transit(Other(e))' = Transit(Other(e))
             /\ Transit(e)' = Transit(e) \cup {f}
  <2>1. \A g \in Transit(e) : g.type = "CLOSE" => pc[e][g.id] = "done"
    BY DEF IndInv, ClientInv, ServerInv, End
  <2>2. \A g \in Transit(e) : g.type = "DATA" => g.arg \in 1..sent[e][g.id]
    BY DEF IndInv, SentInv
  <2>3. sent[e][s] \in Nat
    BY DEF IndInv, TypeOK, TrafficOK
  <2>4. \A g \in Transit(e) : Follows(g, f)
    BY <1>0, <2>1, <2>2, <2>3 DEF Follows
  <2> QED BY <1>0, <2>4, SendCarry DEF IndInv
<1>1. CASE PumpData(e, s)
  <2> DEFINE f == Data(s, sent[e][s] + 1)
  <2>1. f \in Frame /\ f.id = s /\ f.type = "DATA" /\ f.arg = sent[e][s] + 1
    <3>1. sent[e][s] + 1 \in Nat
      BY DEF IndInv, TypeOK, TrafficOK
    <3> QED BY <3>1, FrameType DEF Data
  <2>2. /\ pc[e][s] = "relay" /\ Send(e, f) /\ pc' = pc /\ registry' = registry
        /\ UNCHANGED <<held, wire, sink, reader, link, ack, mux>>
    BY <1>1 DEF PumpData, streams, opening
  <2>3. OnlyMoves(e, s, "relay")
    BY <2>2 DEF OnlyMoves
  <2> HIDE DEF f
  <2> QED BY <1>0, <2>1, <2>2, <2>3, PumpStep
<1>2. CASE PumpFails(e, s) \/ PumpEof(e, s)
  <2>1. /\ pc[e][s] = "relay" /\ pc' = [pc EXCEPT ![e][s] = "closing"]
        /\ registry' = registry
        /\ UNCHANGED <<held, wire, frames, sink, reader, link, ack, mux>>
    BY <1>2 DEF PumpFails, PumpEof, session, opening
  <2>2. OnlyMoves(e, s, "closing")
    BY <2>1, PcUpdate DEF IndInv
  <2>3. OrderInv' /\ \A o \in End : Transit(o)' = Transit(o)
    BY <2>1, SameQueues DEF IndInv
  <2> QED BY <2>1, <2>2, <2>3, PumpStep
<1>3. CASE PumpClose(e, s)
  <2>1. Close(s) \in Frame /\ Close(s).id = s /\ Close(s).type = "CLOSE"
    BY FrameType DEF Close
  <2>2. /\ pc[e][s] = "closing" /\ pc' = [pc EXCEPT ![e][s] = "done"]
        /\ registry' = Unregistered(e, s)
        /\ Send(e, Close(s)) \/ frames' = frames
        /\ UNCHANGED <<held, wire, sink, reader, link, ack, mux>>
    BY <1>3 DEF PumpClose, SendOrIgnore, opening
  <2>3. OnlyMoves(e, s, "done")
    BY <2>2, PcUpdate DEF IndInv
  <2>4. CASE Send(e, Close(s))
    BY <1>0, <2>1, <2>2, <2>3, <2>4, PumpStep
  <2>5. CASE frames' = frames
    <3>1. OrderInv' /\ \A o \in End : Transit(o)' = Transit(o)
      BY <2>2, <2>5, SameQueues DEF IndInv
    <3> QED BY <2>2, <2>3, <3>1, PumpStep
  <2> QED BY <2>2, <2>4, <2>5
<1> QED BY <1>1, <1>2, <1>3

\* Steps that move no stream, send nothing, and only take frames and registry
\* entries away.
LEMMA ShrinkStep ==
  ASSUME IndInv, pc' = pc, OrderInv', \A o \in End : Transit(o)' \subseteq Transit(o),
         \A e \in End : registry'[e] \subseteq registry[e],
         Items(held'["server"]) \subseteq Items(held["server"]) \cup Items(wire["client"]),
         \A f \in Items(held'["server"]) : f.type = "OPEN_ACK" => f \in Items(held["server"]),
         \A s \in registry'["server"] :
           \/ pc["server"][s] \in {"relay", "closing"}
           \/ \E f \in Items(held'["server"]) : f.type = "OPEN_ACK" /\ f.id = s,
         Items(wire'["client"]) \subseteq Items(wire["client"]),
         \A s \in Stream : ack'[s] # ack[s] => \E f \in Transit("server") : f.id = s,
         mux' = "closed" => mux = "closed" \/ registry'["client"] = {}
  PROVE  ClientInv' /\ ServerInv' /\ LateInv'
         /\ \A s \in registry'["client"] : pc'["client"][s] \notin {"start", "register", "done"}
<1> USE EndType
<1>1. registry["client"] \subseteq Stream /\ registry["server"] \subseteq Stream
  BY DEF IndInv, TypeOK, StreamsOK
<1>2. \A o \in End : \A f \in Transit(o) : f.id \in Stream
  BY TransitType DEF IndInv
<1>3. \A x \in Stream : Fresh(x) => Fresh(x)' /\ ack'[x] = ack[x]
  BY DEF Fresh
<1>4. ClientInv'
  BY <1>2, <1>3 DEF IndInv, ClientInv
<1>5. ServerInv'
  BY <1>3 DEF IndInv, ServerInv
<1>6. LateInv'
  <2> SUFFICES ASSUME mux' = "closed", NEW s \in registry'["client"]
               PROVE  /\ pc'["client"][s] \in {"insert", "open", "wait"}
                      /\ ack'[s] # "ok" /\ Fresh(s)'
                      /\ \A f \in Items(wire'["client"]) \cup Items(held'["server"]) : f.id # s
    BY DEF LateInv
  <2>1. /\ pc["client"][s] \in {"insert", "open", "wait"}
        /\ ack[s] # "ok" /\ Fresh(s)
        /\ \A f \in Items(wire["client"]) \cup Items(held["server"]) : f.id # s
    BY DEF IndInv, LateInv
  <2> QED BY <1>1, <1>3, <2>1
<1> QED BY <1>4, <1>5, <1>6 DEF IndInv, RegistryInv

\* The mux writer loop.
LEMMA SinkKeeps ==
  ASSUME IndInv, NEW e \in End, Sink(e) PROVE Core'
<1> USE EndType
<1>1. CASE Transmit(e)
  <2>1. /\ OrderInv' /\ \A o \in End : Transit(o)' = Transit(o)
    BY <1>1, TransmitCarry DEF IndInv
  <2>2. /\ link # "down" /\ UNCHANGED <<pc, registry, held, sink, reader, link, ack, mux>>
    BY <1>1 DEF Transmit, CanTransmit, streams, opening
  <2>3. mux # "closed"
    BY <2>2 DEF IndInv, DownInv
  <2>4. ClientInv' /\ ServerInv'
    BY <2>1, <2>2 DEF IndInv, ClientInv, ServerInv, Fresh
  <2> QED BY <2>1, <2>2, <2>3, <2>4
    DEF Core, IndInv, RegistryInv, DownInv, LateInv
<1>2. CASE SinkStops(e)
  <2>1. /\ UNCHANGED <<pc, held, wire, reader, link, ack, mux>>
        /\ sink[e] = "on" /\ sink' = [sink EXCEPT ![e] = "closing"]
        /\ registry' = registry \/ registry' = [registry EXCEPT ![e] = {}]
        /\ \/ frames' = frames
           \/ frames[e] # <<>> /\ frames' = [frames EXCEPT ![e] = Tail(@)]
    BY <1>2 DEF SinkStops, opening
  <2>2. OrderInv' /\ \A o \in End : Transit(o)' \subseteq Transit(o)
    BY <2>1, DropCarry DEF IndInv
  <2>3. \A o \in End : registry'[o] \subseteq registry[o]
    BY <2>1 DEF IndInv, TypeOK, StreamsOK
  <2>4. link = "down"
    BY <1>2 DEF SinkStops, HasSender, IndInv, DownInv, End
  <2>5. DownInv'
    BY <2>1, <2>4 DEF IndInv, DownInv, TypeOK, SessionOK
  <2>6. \A s \in registry'["server"] :
          \/ pc["server"][s] \in {"relay", "closing"}
          \/ \E f \in Items(held'["server"]) : f.type = "OPEN_ACK" /\ f.id = s
    BY <2>1, <2>3 DEF IndInv, RegistryInv
  <2>7. /\ ClientInv' /\ ServerInv' /\ LateInv'
        /\ \A s \in registry'["client"] : pc'["client"][s] \notin {"start", "register", "done"}
    BY <2>1, <2>2, <2>3, <2>6, ShrinkStep
  <2>8. RegistryInv'
    BY <2>1, <2>3, <2>6, <2>7 DEF IndInv, RegistryInv
  <2> QED BY <2>2, <2>5, <2>7, <2>8 DEF Core
<1>3. CASE SinkDrops(e)
  <2>1. /\ UNCHANGED <<pc, registry, held, wire, reader, link, ack, mux>>
        /\ sink[e] = "closing" /\ sink' = [sink EXCEPT ![e] = "off"]
        /\ frames' = [frames EXCEPT ![e] = <<>>]
    BY <1>3 DEF SinkDrops, streams, opening
  <2>2. OrderInv' /\ \A o \in End : Transit(o)' \subseteq Transit(o)
    BY <2>1, DropCarry DEF IndInv
  <2>3. DownInv'
    BY <2>1 DEF IndInv, DownInv, TypeOK, SessionOK
  <2>4. RegistryInv'
    BY <2>1 DEF IndInv, RegistryInv
  <2>5. ClientInv' /\ ServerInv' /\ LateInv'
    BY <2>1, <2>2, <2>4, ShrinkStep DEF RegistryInv
  <2> QED BY <2>2, <2>3, <2>4, <2>5 DEF Core
<1> QED BY <1>1, <1>2, <1>3 DEF Sink

\* The mux reader loop at either end.
LEMMA ReaderKeeps ==
  ASSUME IndInv, NEW e \in End,
         ReceiveData(e) \/ Route(e) \/ ReceiveClose(e) \/ ReaderStops(e)
  PROVE  Core'
<1> USE EndType, Others
<1>1. CASE ReceiveData(e) \/ ReceiveClose(e)
  <2> DEFINE type == IF ReceiveData(e) THEN "DATA" ELSE "CLOSE"
  <2>1. /\ Receive(e, type) /\ reader[e] = "on" /\ type # "OPEN_ACK"
        /\ UNCHANGED <<pc, frames, sink, reader, link, ack, mux>>
        /\ UNCHANGED held \/ Hold(e, Arriving(e))
        /\ registry' = registry \/ registry' = Unregistered(e, Arriving(e).id)
    BY <1>1 DEF ReceiveData, ReceiveClose, Receive, CanReceive, opening
  <2> HIDE DEF type
  <2>2. /\ OrderInv'
        /\ \A o \in End : /\ Transit(o)' \subseteq Transit(o)
                           /\ Items(wire'[o]) \subseteq Items(wire[o])
        /\ Arriving(e) \in Items(wire[Other(e)]) /\ Arriving(e).type = type
        /\ Items(held[e]) = {} /\ Items(held'[e]) \subseteq {Arriving(e)}
        /\ held'[Other(e)] = held[Other(e)]
    BY <2>1, ReceiveCarry DEF IndInv
  <2>3. \A o \in End : registry'[o] \subseteq registry[o]
    BY <2>1 DEF Unregistered, IndInv, TypeOK, StreamsOK
  <2>4. DownInv'
    BY <2>1, <2>2 DEF IndInv, DownInv, End
  <2>5. /\ Items(held'["server"]) \subseteq Items(held["server"]) \cup Items(wire["client"])
        /\ \A f \in Items(held'["server"]) : f.type = "OPEN_ACK" => f \in Items(held["server"])
        /\ \A f \in Items(held["server"]) : f.type = "OPEN_ACK" => f \in Items(held'["server"])
    BY <2>1, <2>2 DEF End
  <2>6. \A s \in registry'["server"] :
          \/ pc["server"][s] \in {"relay", "closing"}
          \/ \E f \in Items(held'["server"]) : f.type = "OPEN_ACK" /\ f.id = s
    BY <2>3, <2>5 DEF IndInv, RegistryInv
  <2>7. /\ ClientInv' /\ ServerInv' /\ LateInv'
        /\ \A s \in registry'["client"] : pc'["client"][s] \notin {"start", "register", "done"}
    BY <2>1, <2>2, <2>3, <2>5, <2>6, ShrinkStep
  <2>8. RegistryInv'
    BY <2>1, <2>3, <2>6, <2>7 DEF IndInv, RegistryInv
  <2> QED BY <2>2, <2>4, <2>7, <2>8 DEF Core
<1>2. CASE Route(e)
  <2>1. /\ Release(e) /\ UNCHANGED <<pc, registry, frames, wire, sink, reader, link, ack, mux>>
        /\ Holds(e, "DATA")
    BY <1>2 DEF Route, opening
  <2>2. /\ OrderInv' /\ \A o \in End : Transit(o)' \subseteq Transit(o)
        /\ Items(held'[e]) = {} /\ held'[Other(e)] = held[Other(e)]
    BY <2>1, ReleaseCarry DEF IndInv
  <2>3. \A f \in Items(held[e]) : f.type = "DATA"
    BY <2>1 DEF Holds, Items, IndInv, TypeOK, SessionOK
  <2>4. DownInv'
    BY <2>1, <2>2 DEF IndInv, DownInv, Release, TypeOK, SessionOK
  <2>5. /\ Items(held'["server"]) \subseteq Items(held["server"])
        /\ \A f \in Items(held["server"]) : f.type = "OPEN_ACK" => f \in Items(held'["server"])
    BY <2>2, <2>3 DEF End
  <2>6. RegistryInv'
    BY <2>1, <2>5 DEF IndInv, RegistryInv
  <2>7. ClientInv' /\ ServerInv' /\ LateInv'
    BY <2>1, <2>2, <2>5, <2>6, ShrinkStep DEF RegistryInv
  <2> QED BY <2>2, <2>4, <2>6, <2>7 DEF Core
<1>3. CASE ReaderStops(e)
  <2>1. /\ UNCHANGED <<pc, held, wire, frames, sink, link, ack, mux>>
        /\ held[e] = <<>> /\ link = "down"
        /\ registry' = [registry EXCEPT ![e] = {}]
        /\ reader' = [reader EXCEPT ![e] = IF e = "client" THEN "closing" ELSE "off"]
    BY <1>3 DEF ReaderStops, opening
  <2>2. OrderInv' /\ \A o \in End : Transit(o)' = Transit(o)
    BY <2>1, SameQueues DEF IndInv
  <2>3. registry'[e] = {} /\ \A o \in End : registry'[o] \subseteq registry[o]
    BY <2>1 DEF IndInv, TypeOK, StreamsOK
  <2>4. DownInv'
    BY <2>1 DEF IndInv, DownInv, TypeOK, SessionOK
  <2>5. \A s \in registry'["server"] :
          \/ pc["server"][s] \in {"relay", "closing"}
          \/ \E f \in Items(held'["server"]) : f.type = "OPEN_ACK" /\ f.id = s
    BY <2>1, <2>3 DEF IndInv, RegistryInv
  <2>6. /\ ClientInv' /\ ServerInv' /\ LateInv'
        /\ \A s \in registry'["client"] : pc'["client"][s] \notin {"start", "register", "done"}
    BY <2>1, <2>2, <2>3, <2>5, ShrinkStep
  <2>7. reader'["server"] = "off" => registry'["server"] = {}
    BY <2>1, <2>3 DEF IndInv, RegistryInv, TypeOK, SessionOK, End
  <2>8. RegistryInv'
    BY <2>1, <2>5, <2>6, <2>7 DEF RegistryInv
  <2> QED BY <2>2, <2>4, <2>6, <2>8 DEF Core
<1> QED BY <1>1, <1>2, <1>3

\* The server's reader turns the OPEN it holds into an answer.
LEMMA AnswerKeeps ==
  ASSUME IndInv, ConnectOk \/ ConnectRefused PROVE Core'
<1> USE EndType, Others
<1> DEFINE s == HeldId("server")
<1>1. /\ Holds("server", "OPEN") /\ Head(held["server"]) \in Frame /\ s \in Stream
  BY HeldType DEF ConnectOk, ConnectRefused, IndInv
<1>2. PICK n \in Nat :
        /\ Hold("server", OpenAck(s, n))
        /\ registry'["server"] \subseteq registry["server"] \cup {s}
        /\ n # 0 => s \notin registry'["server"]
        /\ registry'["client"] = registry["client"]
  BY <1>1 DEF ConnectOk, ConnectRefused, Registered, Unregistered, IndInv, TypeOK, StreamsOK, End
<1>3. UNCHANGED <<pc, frames, wire, sink, reader, link, ack, mux>>
  BY DEF ConnectOk, ConnectRefused, opening
<1> DEFINE f == Head(held["server"])  g == OpenAck(s, n)
<1>4. f.id = s /\ f.type = "OPEN" /\ g.id = s /\ g.type = "OPEN_ACK" /\ g.arg = n
  BY <1>1 DEF Holds, HeldId, OpenAck
<1>5. held["server"] = <<f>> /\ held'["server"] = <<g>> /\ held'["client"] = held["client"]
  BY <1>1, <1>2 DEF Holds, Hold, IndInv, TypeOK, SessionOK
<1>6. Items(held["server"]) = {f} /\ Items(held'["server"]) = {g}
  BY <1>5, ItemsFew
<1> HIDE DEF s, f, g
<1>7. \A x \in Items(wire["client"]) \cup Items(frames["client"]) : Follows(f, x)
  BY <1>6 DEF IndInv, OrderInv, Before
<1>8. OrderInv'
  <2>1. \A x \in Items(wire["client"]) \cup Items(frames["client"]) : Follows(g, x)
    BY <1>4, <1>7 DEF Follows
  <2>2. Before(held'["server"], wire["client"]) /\ Before(held'["server"], frames["client"])
    BY <1>6, <2>1 DEF Before
  <2> QED BY <1>3, <1>5, <2>2 DEF IndInv, OrderInv, End
<1>9. /\ Transit("server")' = Transit("server")
      /\ f \in Transit("client") /\ f \notin Transit("client")'
      /\ Transit("client")' = (Transit("client") \ {f}) \cup {g}
  <2>1. f \notin Items(wire["client"]) \cup Items(frames["client"])
    BY <1>4, <1>7 DEF Follows
  <2> QED BY <1>3, <1>4, <1>5, <1>6, <2>1 DEF Transit
<1>10. pc["client"][s] \notin Opening /\ Fresh(s)
  BY <1>4, <1>9 DEF IndInv, ClientInv
<1>11. \A o \in End : \A x \in Transit(o) : x.id \in Stream
  BY TransitType DEF IndInv
<1>12. \A x \in Stream : Fresh(x) /\ x # s => Fresh(x)'
  BY <1>2, <1>3, <1>9 DEF Fresh
<1>13. ClientInv'
  <2> SUFFICES ASSUME NEW x \in Transit("client")'
               PROVE  /\ pc["client"][x.id] \notin Opening
                      /\ x.type = "CLOSE" => pc["client"][x.id] = "done"
                      /\ x.type = "OPEN" => Fresh(x.id)'
    BY <1>3 DEF ClientInv
  <2>1. CASE x = g
    BY <1>4, <1>10, <2>1
  <2>2. CASE x # g
    <3>1. x \in Transit("client") /\ x # f
      BY <1>9, <2>2
    <3>2. x.type = "OPEN" => x.id # s
      BY <1>3, <1>4, <1>6, <1>7, <2>2, <3>1 DEF Transit, Follows
    <3> QED BY <1>11, <1>12, <3>1, <3>2 DEF IndInv, ClientInv
  <2> QED BY <2>1, <2>2
<1>14. ServerInv'
  <2>1. \A x \in Stream : pc["client"][x] \in Opening => Fresh(x)' /\ ack[x] = "none"
    BY <1>10, <1>12 DEF IndInv, ServerInv
  <2>2. /\ pc["server"][s] = "start" /\ \A x \in Transit("server") : x.id # s
    BY <1>10 DEF Fresh
  <2> QED BY <1>2, <1>3, <1>4, <1>6, <1>9, <2>1, <2>2 DEF IndInv, ServerInv
<1>15. reader["server"] = "on"
  BY <1>1 DEF Holds, IndInv, DownInv
<1>16. RegistryInv'
  <2>1. \A x \in registry["server"] : pc["server"][x] \in {"relay", "closing"}
    BY <1>4, <1>6 DEF IndInv, RegistryInv
  <2> QED BY <1>2, <1>3, <1>4, <1>6, <1>15, <2>1 DEF IndInv, RegistryInv
<1>17. DownInv'
  BY <1>3, <1>5, <1>15 DEF IndInv, DownInv, End
<1>18. LateInv'
  <2> SUFFICES ASSUME mux = "closed", NEW x \in registry["client"]
               PROVE  /\ pc["client"][x] \in {"insert", "open", "wait"}
                      /\ ack[x] # "ok" /\ Fresh(x)'
                      /\ \A h \in Items(wire["client"]) \cup {g} : h.id # x
    BY <1>2, <1>3, <1>6 DEF LateInv
  <2>1. /\ pc["client"][x] \in {"insert", "open", "wait"}
        /\ ack[x] # "ok" /\ Fresh(x) /\ x \in Stream
        /\ \A h \in Items(wire["client"]) \cup {f} : h.id # x
    BY <1>6 DEF IndInv, LateInv, TypeOK, StreamsOK
  <2> QED BY <1>4, <1>12, <2>1
<1> QED BY <1>8, <1>13, <1>14, <1>16, <1>17, <1>18 DEF Core

\* The server's reader sends the answer it holds; the tasks of an opened
\* stream start.
LEMMA SendAckKeeps ==
  ASSUME IndInv, SendAck PROVE Core'
<1> USE EndType, Others
<1> DEFINE f == Head(held["server"])  s == HeldId("server")
<1>1. f \in Frame /\ s \in Stream /\ f.id = s /\ f.type = "OPEN_ACK" /\ held["server"] # <<>>
  BY HeldType DEF SendAck, Holds, HeldId, IndInv
<1>2. /\ Send("server", f) \/ frames' = frames
      /\ Release("server")
      /\ UNCHANGED <<registry, wire, sink, reader, link, ack, mux>>
  BY DEF SendAck, SendOrIgnore, opening
<1>3. \/ f.arg = 0 /\ OnlyMoves("server", s, "relay")
      \/ f.arg # 0 /\ pc' = pc
  BY <1>1, PcUpdate DEF SendAck, StartRelay, IndInv
<1>4. held["server"] = <<f>> /\ held'["server"] = <<>> /\ held'["client"] = held["client"]
  BY <1>1, <1>2 DEF Release, IndInv, TypeOK, SessionOK
<1>5. Items(held["server"]) = {f} /\ Items(held'["server"]) = {}
  BY <1>4, ItemsFew
<1> HIDE DEF f, s
<1>6. /\ pc["server"][s] = "start" /\ \A g \in Transit("server") : g.id # s
      /\ f.arg # 0 => s \notin registry["server"]
  BY <1>1, <1>5 DEF IndInv, ServerInv
<1>7. /\ frames'["client"] = frames["client"]
      /\ frames'["server"] = Append(frames["server"], f) \/ frames'["server"] = frames["server"]
  BY <1>2 DEF Send, CanSend, IndInv, TypeOK, SessionOK, End
<1>8. \A g \in Transit("server") : Follows(g, f)
  BY <1>1, <1>6 DEF Follows
<1>9. /\ Items(frames'["server"]) \subseteq Items(frames["server"]) \cup {f}
      /\ Sorted(frames'["server"])
  <2>1. frames["server"] \in Seq(Frame) /\ Sorted(frames["server"])
    BY QueueType DEF IndInv, OrderInv
  <2>2. \A g \in Items(frames["server"]) : Follows(g, f)
    BY <1>8 DEF Transit
  <2> QED BY <1>1, <1>7, <2>1, <2>2, ItemsAppend, SortedAppend
<1>10. OrderInv'
  <2>1. /\ Before(held["client"], frames'["server"]) /\ Before(wire["server"], frames'["server"])
    BY <1>8, <1>9 DEF IndInv, OrderInv, Before, Transit
  <2>2. Before(held'["server"], wire["client"]) /\ Before(held'["server"], frames["client"])
    BY <1>5 DEF Before
  <2> QED BY <1>2, <1>4, <1>7, <1>9, <2>1, <2>2 DEF IndInv, OrderInv, End
<1>11. /\ Transit("client")' \subseteq Transit("client")
       /\ Transit("server")' \subseteq Transit("server") \cup {f}
  BY <1>2, <1>4, <1>5, <1>7, <1>9 DEF Transit
<1>12. f \in Transit("client") /\ pc["client"][s] \notin Opening
  BY <1>1, <1>5 DEF Transit, IndInv, ClientInv
<1>13. \A o \in End : \A x \in Transit(o) : x.id \in Stream
  BY TransitType DEF IndInv
<1>14. \A x \in Stream : /\ pc'["client"][x] = pc["client"][x]
                         /\ x # s => pc'["server"][x] = pc["server"][x]
  BY <1>3 DEF OnlyMoves, End
<1>15. \A x \in Stream : Fresh(x) /\ x # s => Fresh(x)'
  BY <1>1, <1>2, <1>11, <1>14 DEF Fresh
<1>16. ClientInv'
  <2> SUFFICES ASSUME NEW x \in Transit("client")'
               PROVE  /\ pc'["client"][x.id] \notin Opening
                      /\ x.type = "CLOSE" => pc'["client"][x.id] = "done"
                      /\ x.type = "OPEN" => Fresh(x.id)'
    BY DEF ClientInv
  <2>1. x \in Transit("client") /\ x.id \in Stream
    BY <1>11, <1>13
  <2>2. x.type = "OPEN" => x.id # s
    <3>1. \A y \in Items(wire["client"]) \cup Items(frames["client"]) : Follows(f, y)
      BY <1>5 DEF IndInv, OrderInv, Before
    <3> QED BY <1>1, <1>5, <2>1, <3>1 DEF Transit, Follows
  <2> QED BY <1>14, <1>15, <2>1, <2>2 DEF IndInv, ClientInv
<1>17. ServerInv'
  <2>1. \A x \in Stream : pc'["client"][x] \in Opening => Fresh(x)' /\ ack[x] = "none"
    BY <1>12, <1>14, <1>15 DEF IndInv, ServerInv
  <2>2. \A x \in Transit("server")' : x.type = "CLOSE" => pc'["server"][x.id] = "done"
    BY <1>1, <1>6, <1>11, <1>13, <1>14 DEF IndInv, ServerInv
  <2> QED BY <1>2, <1>5, <2>1, <2>2 DEF ServerInv
<1>18. registry["client"] \subseteq Stream /\ registry["server"] \subseteq Stream
  BY DEF IndInv, TypeOK, StreamsOK
<1>19. RegistryInv'
  <2>1. \A x \in registry["server"] : x # s => pc["server"][x] \in {"relay", "closing"}
    BY <1>1, <1>5 DEF IndInv, RegistryInv
  <2>2. s \in registry["server"] => pc'["server"][s] = "relay"
    BY <1>3, <1>6 DEF OnlyMoves
  <2>3. \A x \in registry["server"] : pc'["server"][x] \in {"relay", "closing"}
    BY <1>14, <1>18, <2>1, <2>2
  <2> QED BY <1>2, <1>14, <1>18, <2>3 DEF IndInv, RegistryInv
<1>20. DownInv'
  BY <1>2, <1>4 DEF IndInv, DownInv, End
<1>21. LateInv'
  <2> SUFFICES ASSUME mux = "closed", NEW x \in registry["client"]
               PROVE  /\ pc'["client"][x] \in {"insert", "open", "wait"}
                      /\ ack[x] # "ok" /\ Fresh(x)'
                      /\ \A h \in Items(wire["client"]) : h.id # x
    BY <1>2, <1>5 DEF LateInv
  <2>1. /\ pc["client"][x] \in {"insert", "open", "wait"}
        /\ ack[x] # "ok" /\ Fresh(x) /\ x \in Stream
        /\ \A h \in Items(wire["client"]) \cup {f} : h.id # x
    BY <1>5, <1>18 DEF IndInv, LateInv
  <2> QED BY <1>1, <1>14, <1>15, <2>1
<1> QED BY <1>10, <1>16, <1>17, <1>19, <1>20, <1>21 DEF Core

\* The reader steps of one end only that leave the streams where they are.
LEMMA ReceiveKeeps ==
  ASSUME IndInv, ReceiveAck \/ DropAcks \/ ReceiveOpen PROVE Core'
<1> USE EndType, Others
<1>1. CASE ReceiveAck
  <2>1. /\ Receive("client", "OPEN_ACK") /\ held' = held
        /\ UNCHANGED <<pc, registry, frames, sink, reader, link, mux>>
    BY <1>1 DEF ReceiveAck, streams
  <2>2. /\ OrderInv'
        /\ \A o \in End : /\ Transit(o)' \subseteq Transit(o)
                           /\ Items(wire'[o]) \subseteq Items(wire[o])
        /\ Arriving("client") \in Transit("server")
    BY <2>1, ReceiveCarry DEF IndInv
  <2>3. \A s \in Stream : ack'[s] # ack[s] => s = Arriving("client").id
    BY <1>1 DEF ReceiveAck, IndInv, TypeOK, OpeningOK
  <2>4. RegistryInv' /\ DownInv'
    BY <2>1 DEF IndInv, RegistryInv, DownInv
  <2>5. ClientInv' /\ ServerInv' /\ LateInv'
    BY <2>1, <2>2, <2>3, <2>4, ShrinkStep DEF RegistryInv
  <2> QED BY <2>2, <2>4, <2>5 DEF Core
<1>2. CASE DropAcks
  <2>1. /\ UNCHANGED <<pc, registry, held, wire, frames, sink, link, ack, mux>>
        /\ reader["client"] = "closing" /\ reader' = [reader EXCEPT !["client"] = "off"]
    BY <1>2 DEF DropAcks, streams
  <2>2. OrderInv' /\ \A o \in End : Transit(o)' = Transit(o)
    BY <2>1, SameQueues DEF IndInv
  <2>3. reader'["server"] = reader["server"] /\ reader'["client"] = "off"
    BY <2>1 DEF IndInv, TypeOK, SessionOK
  <2>4. RegistryInv'
    BY <2>1, <2>3 DEF IndInv, RegistryInv
  <2>5. DownInv'
    BY <2>1, <2>3 DEF IndInv, DownInv, End
  <2>6. ClientInv' /\ ServerInv' /\ LateInv'
    BY <2>1, <2>2, <2>4, ShrinkStep DEF RegistryInv
  <2> QED BY <2>2, <2>4, <2>5, <2>6 DEF Core
<1>3. CASE ReceiveOpen
  <2>1. /\ Receive("server", "OPEN") /\ Hold("server", Arriving("server"))
        /\ reader["server"] = "on"
        /\ UNCHANGED <<pc, registry, frames, sink, reader, link, ack, mux>>
    BY <1>3 DEF ReceiveOpen, Receive, CanReceive, streams, opening
  <2>2. /\ OrderInv'
        /\ \A o \in End : /\ Transit(o)' \subseteq Transit(o)
                           /\ Items(wire'[o]) \subseteq Items(wire[o])
        /\ Arriving("server") \in Items(wire["client"]) /\ Arriving("server").type = "OPEN"
        /\ Items(held["server"]) = {} /\ Items(held'["server"]) \subseteq {Arriving("server")}
        /\ held'["client"] = held["client"]
    BY <2>1, ReceiveCarry DEF IndInv
  <2>3. RegistryInv'
    BY <2>1, <2>2 DEF IndInv, RegistryInv
  <2>4. DownInv'
    BY <2>1, <2>2 DEF IndInv, DownInv, End
  <2>5. ClientInv' /\ ServerInv' /\ LateInv'
    BY <2>1, <2>2, <2>3, ShrinkStep DEF RegistryInv
  <2> QED BY <2>2, <2>3, <2>4, <2>5 DEF Core
<1> QED BY <1>1, <1>2, <1>3

\* The keeper takes the connection and closes it.
LEMMA KeeperKeeps ==
  ASSUME IndInv, Keeper PROVE Core'
<1> USE EndType
<1>1. /\ UNCHANGED <<pc, held, wire, frames, sink, reader, link, ack>>
      /\ \/ mux' = "taken" /\ registry' = registry
         \/ mux' = "closed" /\ registry' = [registry EXCEPT !["client"] = {}]
  BY DEF Keeper, KeeperTakes, KeeperCloses, streams, session
<1>2. OrderInv' /\ \A o \in End : Transit(o)' = Transit(o)
  BY <1>1, SameQueues DEF IndInv
<1>3. /\ registry'["server"] = registry["server"] /\ registry'["client"] \subseteq registry["client"]
      /\ mux' = "closed" => registry'["client"] = {}
  BY <1>1 DEF IndInv, TypeOK, StreamsOK
<1>4. RegistryInv'
  BY <1>1, <1>3 DEF IndInv, RegistryInv
<1>5. DownInv'
  BY <1>1 DEF Keeper, KeeperTakes, KeeperCloses, IndInv, DownInv
<1>6. ClientInv' /\ ServerInv' /\ LateInv'
  <2>1. \A e \in End : registry'[e] \subseteq registry[e]
    BY <1>3 DEF End
  <2> QED BY <1>1, <1>2, <1>3, <1>4, <2>1, ShrinkStep DEF RegistryInv
<1> QED BY <1>2, <1>4, <1>5, <1>6 DEF Core

\* The link fails: nothing moves, and what was down stays down.
LEMMA LinkKeeps ==
  ASSUME IndInv, LinkFails PROVE Core'
<1>1. /\ UNCHANGED <<pc, registry, held, wire, frames, sink, reader, ack, mux>>
      /\ link # "down"
  BY DEF LinkFails, streams, opening
<1>2. OrderInv' /\ \A o \in End : Transit(o)' = Transit(o)
  BY <1>1, SameQueues DEF IndInv
<1>3. DownInv'
  BY <1>1 DEF IndInv, DownInv
<1>4. RegistryInv'
  BY <1>1 DEF IndInv, RegistryInv
<1>5. ClientInv' /\ ServerInv' /\ LateInv'
  BY <1>1, <1>2, <1>4, EndType, ShrinkStep DEF RegistryInv
<1> QED BY <1>2, <1>3, <1>4, <1>5 DEF Core

\* What a send adds to the frames on their way.
LEMMA SendTransit ==
  ASSUME TypeOK, NEW e \in End, NEW f \in Frame, Send(e, f), UNCHANGED wire,
         Items(held'[Other(e)]) \subseteq Items(held[Other(e)]),
         Items(held'[e]) \subseteq Items(held[e])
  PROVE  /\ Transit(e)' \subseteq Transit(e) \cup {f}
         /\ Transit(Other(e))' \subseteq Transit(Other(e))
<1> USE EndType, Others
<1>1. /\ frames'[e] = Append(frames[e], f)
      /\ frames'[Other(e)] = frames[Other(e)]
  BY DEF Send, CanSend, TypeOK, SessionOK
<1>2. Items(frames'[e]) = Items(frames[e]) \cup {f}
  BY <1>1, QueueType, ItemsAppend
<1> QED BY <1>1, <1>2 DEF Transit

\* Steps that take nothing from a peer.
LEMMA SentSame ==
  ASSUME IndInv, sent' = sent,
         \A o \in End : \A f \in Transit(o)' : f \in Transit(o) \/ f.type # "DATA",
         \A s \in Stream : pc'["client"][s] \in Early => pc["client"][s] \in Early
  PROVE  SentInv'
BY DEF IndInv, SentInv

\* The next chunk of a stream is taken from the peer and sent.
LEMMA SentMore ==
  ASSUME IndInv, NEW e \in End, NEW s \in Stream, NEW n \in Nat, n = sent[e][s] + 1,
         Send(e, Data(s, n)), UNCHANGED <<held, wire>>,
         sent' = [sent EXCEPT ![e][s] = n],
         \A x \in Stream : pc'["client"][x] \in Early =>
           pc["client"][x] \in Early /\ (e # "client" \/ x # s)
  PROVE  SentInv'
<1> USE EndType, Others
<1>1. /\ Transit(e)' \subseteq Transit(e) \cup {Data(s, n)}
      /\ Transit(Other(e))' \subseteq Transit(Other(e))
  BY SendTransit, FrameType DEF IndInv
<1>2. \A o \in End, x \in Stream :
        sent'[o][x] = IF o = e /\ x = s THEN n ELSE sent[o][x]
  BY DEF IndInv, TypeOK, TrafficOK
<1>3. \A o \in End, x \in Stream : sent[o][x] \in Nat /\ sent[o][x] <= sent'[o][x]
  <2>1. \A o \in End, x \in Stream : sent[o][x] \in Nat
    BY DEF IndInv, TypeOK, TrafficOK
  <2> QED BY <1>2, <2>1
<1>4. ASSUME NEW o \in End, NEW f \in Transit(o)', f.type = "DATA"
      PROVE  f.arg \in 1..sent'[o][f.id]
  <2>1. CASE f \in Transit(o)
    <3>1. f.id \in Stream /\ f.arg \in 1..sent[o][f.id]
      BY <1>4, <2>1, TransitType DEF IndInv, SentInv
    <3> QED BY <1>2, <1>3, <3>1
  <2>2. CASE f \notin Transit(o)
    <3>1. o = e /\ f = Data(s, n)
      BY <1>1, <1>4, <2>2 DEF End, Other
    <3>2. f.id = s /\ f.arg = n
      BY <3>1 DEF Data
    <3> QED BY <1>2, <1>3, <3>1, <3>2
  <2> QED BY <2>1, <2>2
<1>5. \A x \in Stream : pc'["client"][x] \in Early => sent'["client"][x] = 0
  BY <1>2 DEF IndInv, SentInv
<1> QED BY <1>4, <1>5 DEF SentInv

\* The chunks on their way stay numbered by what was taken from the peers.
LEMMA SentKeeps ==
  ASSUME IndInv, Next PROVE SentInv'
<1> USE EndType, Others
<1>1. ASSUME UNCHANGED <<held, wire, frames>>, sent' = sent,
             \A s \in Stream : pc'["client"][s] \in Early => pc["client"][s] \in Early
      PROVE  SentInv'
  BY <1>1, SentSame DEF Transit
<1>2. ASSUME NEW s \in Stream, Handler(s) PROVE SentInv'
  <2>0. ASSUME NEW at, at \in Early => pc["client"][s] \in Early,
               pc' = [pc EXCEPT !["client"][s] = at]
        PROVE  \A x \in Stream : pc'["client"][x] \in Early =>
                 pc["client"][x] \in Early /\ (x = s => at \in Early)
    <3>1. \A x \in Stream : pc'["client"][x] = IF x = s THEN at ELSE pc["client"][x]
      BY <2>0 DEF IndInv, TypeOK, StreamsOK
    <3> QED BY <2>0, <3>1
  <2>1. CASE Snapshot(s) \/ Register(s) \/ InsertAck(s) \/ AckArrives(s) \/ AckTimeout(s)
             \/ ReplyConnect(s)
    <3>1. pc["client"][s] \in Early /\ UNCHANGED <<held, wire, frames>> /\ sent' = sent
      BY <2>1 DEF Snapshot, Register, InsertAck, AckArrives, AckTimeout, ReplyConnect,
        Early, Opening, session, traffic
    <3>2. \E at : pc' = [pc EXCEPT !["client"][s] = at]
      BY <2>1 DEF Snapshot, Register, InsertAck, AckArrives, AckTimeout, ReplyConnect,
        Goto, GiveUp, StartRelay
    <3> QED BY <1>1, <2>0, <3>1, <3>2
  <2>2. CASE SendOpen(s)
    <3>1. /\ pc["client"][s] \in Early /\ UNCHANGED <<held, wire>> /\ sent' = sent
          /\ Send("client", Open(s)) \/ frames' = frames
          /\ \E at : pc' = [pc EXCEPT !["client"][s] = at]
      BY <2>2 DEF SendOpen, Goto, GiveUp, Early, Opening, traffic
    <3>2. CASE Send("client", Open(s))
      <4>1. /\ Transit("client")' \subseteq Transit("client") \cup {Open(s)}
            /\ Transit("server")' \subseteq Transit("server")
        BY <3>1, <3>2, SendTransit, FrameType DEF IndInv
      <4>2. Open(s).type # "DATA"
        BY DEF Open
      <4> QED BY <2>0, <3>1, <4>1, <4>2, SentSame DEF End
    <3>3. CASE frames' = frames
      BY <1>1, <2>0, <3>1, <3>3
    <3> QED BY <3>1, <3>2, <3>3
  <2>3. CASE ForwardRequest(s)
    <3>0. pc["client"][s] \in Early /\ UNCHANGED <<held, wire>> /\ sent["client"][s] = 0
      BY <2>3 DEF ForwardRequest, Early, IndInv, SentInv
    <3>1. CASE /\ Send("client", Data(s, 1)) /\ StartRelay("client", s)
               /\ sent' = [sent EXCEPT !["client"][s] = 1]
      <4>1. pc' = [pc EXCEPT !["client"][s] = "relay"] /\ "relay" \notin Early
        BY <3>1 DEF StartRelay, Early, Opening
      <4>2. \A x \in Stream : pc'["client"][x] \in Early => pc["client"][x] \in Early /\ x # s
        BY <2>0, <4>1
      <4>3. 1 \in Nat /\ 1 = sent["client"][s] + 1
        BY <3>0
      <4> QED BY <3>0, <3>1, <4>2, <4>3, SentMore
    <3>2. CASE GiveUp(s, "none") /\ UNCHANGED <<frames, sent>>
      BY <1>1, <2>0, <3>0, <3>2 DEF GiveUp
    <3> QED BY <2>3, <3>1, <3>2 DEF ForwardRequest
  <2> QED BY <1>2, <2>1, <2>2, <2>3 DEF Handler
<1>3. ASSUME NEW e \in End, NEW s \in Stream, PumpData(e, s) PROVE SentInv'
  <2>1. /\ pc[e][s] = "relay" /\ pc' = pc /\ UNCHANGED <<held, wire>>
        /\ Send(e, Data(s, sent[e][s] + 1))
        /\ sent' = [sent EXCEPT ![e][s] = sent[e][s] + 1]
    BY <1>3 DEF PumpData, streams
  <2>2. sent[e][s] + 1 \in Nat
    BY DEF IndInv, TypeOK, TrafficOK
  <2>3. "relay" \notin Early
    BY DEF Early, Opening
  <2> QED BY <2>1, <2>2, <2>3, SentMore
<1>4. ASSUME NEW e \in End, NEW s \in Stream,
             PumpFails(e, s) \/ PumpEof(e, s) \/ PumpClose(e, s)
      PROVE  SentInv'
  <2>1. /\ UNCHANGED <<held, wire>> /\ sent' = sent
        /\ Send(e, Close(s)) \/ frames' = frames
        /\ \E at \in {"closing", "done"} : pc' = [pc EXCEPT ![e][s] = at]
    BY <1>4 DEF PumpFails, PumpEof, PumpClose, SendOrIgnore, session, traffic
  <2>2. \A x \in Stream : pc'["client"][x] \in Early => pc["client"][x] \in Early
    BY <2>1, PcUpdate DEF OnlyMoves, IndInv, Early, Opening
  <2>3. CASE Send(e, Close(s))
    <3>1. /\ Transit(e)' \subseteq Transit(e) \cup {Close(s)}
          /\ Transit(Other(e))' \subseteq Transit(Other(e))
      BY <2>1, <2>3, SendTransit, FrameType DEF IndInv
    <3>2. Close(s).type # "DATA" /\ \A o \in End : o = e \/ o = Other(e)
      BY DEF Close, End, Other
    <3> QED BY <2>1, <2>2, <3>1, <3>2, SentSame
  <2> QED BY <1>1, <2>1, <2>2, <2>3
<1>5. ASSUME NEW e \in End, Sink(e) PROVE SentInv'
  <2>1. sent' = sent /\ pc' = pc
    BY <1>5 DEF Sink, Transmit, CanTransmit, SinkStops, SinkDrops, streams, traffic
  <2>2. \A o \in End : Transit(o)' \subseteq Transit(o)
    <3>1. CASE Transmit(e)
      BY <3>1, TransmitCarry DEF IndInv
    <3>2. CASE SinkStops(e) \/ SinkDrops(e)
      BY <3>2, DropCarry DEF SinkStops, SinkDrops, IndInv
    <3> QED BY <1>5, <3>1, <3>2 DEF Sink
  <2> QED BY <2>1, <2>2, SentSame
<1>6. ASSUME NEW e \in End, Reader(e) PROVE SentInv'
  <2>1. CASE ReceiveData(e) \/ ReceiveClose(e)
    <3>1. /\ \E type : Receive(e, type)
          /\ UNCHANGED frames /\ (UNCHANGED held \/ Hold(e, Arriving(e)))
          /\ sent' = sent /\ pc' = pc
      BY <2>1 DEF ReceiveData, ReceiveClose, traffic
    <3>2. \A o \in End : Transit(o)' \subseteq Transit(o)
      BY <3>1, ReceiveCarry DEF IndInv
    <3> QED BY <3>1, <3>2, SentSame
  <2>2. CASE ReceiveAck \/ ReceiveOpen
    <3>1. /\ \E o \in End, type \in {"OPEN", "OPEN_ACK"} :
               Receive(o, type) /\ (UNCHANGED held \/ Hold(o, Arriving(o)))
          /\ UNCHANGED frames /\ sent' = sent /\ pc' = pc
      BY <2>2 DEF ReceiveAck, ReceiveOpen, streams, traffic
    <3>2. \A o \in End : Transit(o)' \subseteq Transit(o)
      BY <3>1, ReceiveCarry DEF IndInv
    <3> QED BY <3>1, <3>2, SentSame
  <2>3. CASE Route(e)
    <3>1. Release(e) /\ UNCHANGED <<frames, wire>> /\ sent' = sent /\ pc' = pc
      BY <2>3 DEF Route, traffic
    <3>2. \A o \in End : Transit(o)' \subseteq Transit(o)
      BY <3>1, ReleaseCarry DEF IndInv
    <3> QED BY <3>1, <3>2, SentSame
  <2>4. CASE ReaderStops(e) \/ DropAcks
    BY <1>1, <2>4 DEF ReaderStops, DropAcks, streams, traffic
  <2>5. CASE ConnectOk \/ ConnectRefused
    <3>1. /\ sent' = sent /\ pc' = pc /\ UNCHANGED <<frames, wire>>
          /\ \E s, n : Hold("server", OpenAck(s, n))
      BY <2>5 DEF ConnectOk, ConnectRefused, traffic
    <3>2. /\ \A f \in Items(held'["server"]) : f.type # "DATA"
          /\ held'["client"] = held["client"]
      BY <3>1, ItemsFew DEF Hold, OpenAck, IndInv, TypeOK, SessionOK
    <3> QED BY <3>1, <3>2, SentSame DEF Transit, End
  <2>6. CASE SendAck
    <3> DEFINE f == Head(held["server"])
    <3>1. /\ f \in Frame /\ f.type = "OPEN_ACK" /\ HeldId("server") \in Stream
          /\ Send("server", f) \/ frames' = frames
          /\ sent' = sent /\ UNCHANGED wire /\ Release("server")
      BY <2>6, HeldType DEF SendAck, SendOrIgnore, Holds, traffic, IndInv
    <3>2. \A x \in Stream : pc'["client"][x] \in Early => pc["client"][x] \in Early
      <4>1. pc' = pc \/ pc' = [pc EXCEPT !["server"][HeldId("server")] = "relay"]
        BY <2>6 DEF SendAck, StartRelay
      <4> QED BY <3>1, <4>1 DEF IndInv, TypeOK, StreamsOK
    <3>3. Items(held'["server"]) = {} /\ held'["client"] = held["client"]
      BY <3>1, ItemsFew DEF Release, IndInv, TypeOK, SessionOK
    <3> HIDE DEF f
    <3>4. /\ Transit("server")' \subseteq Transit("server") \cup {f}
          /\ Transit("client")' \subseteq Transit("client")
      <4>1. CASE Send("server", f)
        BY <3>1, <3>3, <4>1, SendTransit DEF IndInv
      <4>2. CASE frames' = frames
        BY <3>1, <3>3, <4>2 DEF Transit
      <4> QED BY <3>1, <4>1, <4>2
    <3> QED BY <3>1, <3>2, <3>4, SentSame DEF End
  <2> QED BY <1>6, <2>1, <2>2, <2>3, <2>4, <2>5, <2>6 DEF Reader
<1>7. CASE Keeper \/ LinkFails
  BY <1>1, <1>7 DEF Keeper, KeeperTakes, KeeperCloses, LinkFails, streams, session, traffic
<1>8. ASSUME NEW e \in End, NEW s \in Stream,
             WriteChunk(e, s) \/ WriteEnds(e, s) \/ PeerLeaves(e, s)
      PROVE  SentInv'
  BY <1>1, <1>8 DEF WriteChunk, CanWrite, WriteEnds, PeerLeaves, streams, session, traffic
<1> QED BY <1>2, <1>3, <1>4, <1>5, <1>6, <1>7, <1>8 DEF Next, Tasks, Environment, Relay

\* Every step keeps the invariant.
LEMMA NextKeeps == IndInv /\ [Next]_vars => IndInv'
<1> SUFFICES ASSUME IndInv, [Next]_vars PROVE IndInv'
  OBVIOUS
<1>1. TypeOK'
  BY NextType DEF IndInv
<1>0. SentInv'
  <2>1. CASE Next
    BY <2>1, SentKeeps
  <2>2. CASE UNCHANGED vars
    BY <2>2, SentSame DEF Transit, vars, streams, session, traffic
  <2> QED BY <2>1, <2>2
<1> SUFFICES Core'
  BY <1>0, <1>1 DEF Core, IndInv
<1>2. ASSUME NEW s \in Stream, Handler(s) PROVE Core'
  BY <1>2, HandlerKeeps
<1>3. ASSUME NEW e \in End, NEW s \in Stream, Relay(e, s) PROVE Core'
  <2>1. CASE PumpEof(e, s) \/ PumpClose(e, s)
    BY <2>1, PumpKeeps
  <2>2. CASE WriteChunk(e, s) \/ WriteEnds(e, s)
    BY <2>2, Untouched DEF WriteChunk, CanWrite, WriteEnds, session, opening
  <2> QED BY <1>3, <2>1, <2>2 DEF Relay
<1>4. ASSUME NEW e \in End, Sink(e) PROVE Core'
  BY <1>4, SinkKeeps
<1>5. ASSUME NEW e \in End, Reader(e) PROVE Core'
  BY <1>5, ReaderKeeps, ReceiveKeeps, AnswerKeeps, SendAckKeeps DEF Reader
<1>6. CASE Keeper
  BY <1>6, KeeperKeeps
<1>7. CASE Environment
  <2>1. ASSUME NEW e \in End, NEW s \in Stream, PeerLeaves(e, s) PROVE Core'
    BY <2>1, Untouched DEF PeerLeaves, streams, session, opening
  <2> QED BY <1>7, <2>1, PumpKeeps, LinkKeeps DEF Environment
<1>8. CASE UNCHANGED vars
  BY <1>8, Untouched DEF vars, streams, session, opening
<1> QED BY <1>2, <1>3, <1>4, <1>5, <1>6, <1>7, <1>8 DEF Next, Tasks

\* It holds at the start, when no frame is anywhere.
LEMMA InitInd == Init => IndInv
<1> SUFFICES ASSUME Init PROVE IndInv
  OBVIOUS
<1>1. \A o \in End : held[o] = <<>> /\ wire[o] = <<>> /\ frames[o] = <<>>
  BY DEF Init
<1>2. \A o \in End : Transit(o) = {}
  BY <1>1, ItemsFew, EndType DEF Transit
<1>3. OrderInv
  BY <1>1, ItemsFew, EndType DEF OrderInv, Sorted, Before
<1>4. ClientInv /\ ServerInv
  <2>1. Items(held["server"]) = {}
    BY <1>1, ItemsFew, EndType
  <2>2. \A s \in Stream : pc["server"][s] = "start" /\ s \notin registry["server"] /\ ack[s] = "none"
    BY EndType DEF Init
  <2> QED BY <1>2, <2>1, <2>2, EndType DEF ClientInv, ServerInv, Fresh
<1>5. RegistryInv /\ DownInv /\ LateInv
  BY EndType DEF Init, RegistryInv, DownInv, LateInv
<1>6. SentInv
  BY <1>2, EndType DEF Init, SentInv
<1> QED BY <1>3, <1>4, <1>5, <1>6, InitType DEF IndInv

\* The registries are clean because of where an id can be: in the client's only
\* between register and the end of the handler, in the server's only while the
\* answer is held or the tasks run.
LEMMA CleanFromInd == IndInv => RegistryClean
<1> SUFFICES ASSUME IndInv PROVE RegistryClean
  OBVIOUS
<1>1. \A s \in registry["server"] : pc["server"][s] # "done"
  BY DEF IndInv, RegistryInv, ServerInv
<1> QED BY <1>1 DEF IndInv, RegistryInv, LateInv, RegistryClean, End

\* No handler leaves its id behind in a registry of either end, the server's
\* registry is empty once its reader ended, and a handler that registers with
\* a connection the keeper has closed never relays over it.
THEOREM RegistryAlwaysClean == Spec => []RegistryClean
<1>1. IndInv /\ [Next]_vars => IndInv'
  BY NextKeeps
<1> QED BY <1>1, InitInd, CleanFromInd, PTL DEF Spec

\* The order of the three queues is the order of the pipe they form.
LEMMA OrderFromInd == IndInv => FrameOrder
<1> SUFFICES ASSUME IndInv, NEW o \in End,
                    NEW i \in 1..Len(Pipe(o)), NEW j \in 1..Len(Pipe(o)), i < j
             PROVE  Follows(Pipe(o)[i], Pipe(o)[j])
  BY DEF FrameOrder, Follows
<1> DEFINE h == held[Other(o)]  w == wire[o]  q == frames[o]
<1>1. h \in Seq(Frame) /\ w \in Seq(Frame) /\ q \in Seq(Frame) /\ Len(h) <= 1
  BY EndType, QueueType DEF IndInv, TypeOK, SessionOK
<1>2. Sorted(w) /\ Sorted(q) /\ Before(h, w) /\ Before(h, q) /\ Before(w, q)
  BY DEF IndInv, OrderInv
<1>3. Pipe(o) = h \o w \o q
  BY DEF Pipe
<1> HIDE DEF h, w, q
<1>4. /\ Len(Pipe(o)) = Len(h) + Len(w) + Len(q)
      /\ \A k \in 1..Len(Pipe(o)) :
           Pipe(o)[k] = IF k <= Len(h) THEN h[k]
                        ELSE IF k <= Len(h) + Len(w) THEN w[k - Len(h)]
                        ELSE q[k - Len(h) - Len(w)]
  BY <1>1, <1>3
<1>5. Len(h) \in Nat /\ Len(w) \in Nat /\ Len(q) \in Nat
  BY <1>1
<1>6. CASE i <= Len(h)
  <2>1. Pipe(o)[i] \in Items(h)
    BY <1>4, <1>5, <1>6 DEF Items
  <2>2. Pipe(o)[j] \in Items(w) \cup Items(q)
    <3>1. j > Len(h)
      BY <1>1, <1>5, <1>6
    <3> QED BY <1>4, <1>5, <3>1 DEF Items
  <2> QED BY <1>2, <2>1, <2>2 DEF Before
<1>7. CASE i > Len(h) /\ i <= Len(h) + Len(w)
  <2>1. Pipe(o)[i] = w[i - Len(h)] /\ i - Len(h) \in 1..Len(w)
    BY <1>4, <1>5, <1>7
  <2>2. CASE j <= Len(h) + Len(w)
    <3>1. Pipe(o)[j] = w[j - Len(h)] /\ j - Len(h) \in 1..Len(w)
      BY <1>4, <1>5, <1>7, <2>2
    <3>2. i - Len(h) < j - Len(h)
      BY <1>5
    <3> QED BY <1>2, <2>1, <3>1, <3>2 DEF Sorted
  <2>3. CASE j > Len(h) + Len(w)
    <3>1. Pipe(o)[j] = q[j - Len(h) - Len(w)] /\ j - Len(h) - Len(w) \in 1..Len(q)
      BY <1>4, <1>5, <2>3
    <3> QED BY <1>2, <2>1, <3>1 DEF Before, Items
  <2> QED BY <1>5, <2>2, <2>3
<1>8. CASE i > Len(h) + Len(w)
  <2>1. /\ Pipe(o)[i] = q[i - Len(h) - Len(w)] /\ i - Len(h) - Len(w) \in 1..Len(q)
        /\ Pipe(o)[j] = q[j - Len(h) - Len(w)] /\ j - Len(h) - Len(w) \in 1..Len(q)
    <3>1. /\ i - Len(h) - Len(w) \in 1..Len(q) /\ j - Len(h) - Len(w) \in 1..Len(q)
          /\ ~(i <= Len(h)) /\ ~(i <= Len(h) + Len(w))
          /\ ~(j <= Len(h)) /\ ~(j <= Len(h) + Len(w))
      BY <1>4, <1>5, <1>8
    <3> QED BY <1>4, <3>1
  <2>2. i - Len(h) - Len(w) < j - Len(h) - Len(w)
    BY <1>5
  <2> QED BY <1>2, <2>1, <2>2 DEF Sorted
<1> QED BY <1>5, <1>6, <1>7, <1>8

\* In either direction the frames of a stream travel from its OPEN or OPEN_ACK
\* to its CLOSE, in whatever order the tasks of both ends run.
THEOREM FramesOrdered == Spec => []FrameOrder
<1>1. IndInv /\ [Next]_vars => IndInv'
  BY NextKeeps
<1> QED BY <1>1, InitInd, OrderFromInd, PTL DEF Spec
=============================================================================
