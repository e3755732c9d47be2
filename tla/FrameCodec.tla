------------------------------ MODULE FrameCodec ------------------------------
(***************************************************************************)
(* Frame::encode and Frame::decode: one frame is one binary message, a     *)
(* type byte, the stream id in four bytes, most significant first, and a   *)
(* payload.                                                                *)
(***************************************************************************)
EXTENDS Integers, Sequences

CONSTANTS
  Base,   \* number of values of a byte, 256; TLC uses 2, to get past the last id
  Octet,  \* what payloads are made of
  Text    \* the payloads that are valid UTF-8

ASSUME BaseAssumption == Base \in Nat /\ Base > 1
ASSUME TextAssumption == Text \subseteq Seq(Octet)

IdSpace == Base * Base * Base * Base
Id == 0 .. (IdSpace - 1)

Hello(token)   == [type |-> "HELLO", token |-> token]
Open(id, dest) == [type |-> "OPEN", id |-> id, dest |-> dest]
OpenAck(id, b) == [type |-> "OPEN_ACK", id |-> id, ok |-> b]
Data(id, d)    == [type |-> "DATA", id |-> id, bytes |-> d]
Close(id)      == [type |-> "CLOSE", id |-> id]

Error(kind) == [error |-> kind]

\* u32::to_be_bytes and u32::from_be_bytes.
ToBytes(id) ==
  LET a == id \div Base  b == a \div Base  c == b \div Base
  IN <<c, b % Base, a % Base, id % Base>>

\* Mutant of FromBytes: u32::from_le_bytes.
FromBytesLittle(a, b, c, d) == ((d * Base + c) * Base + b) * Base + a

FromBytes(a, b, c, d) == ((a * Base + b) * Base + c) * Base + d

Message(type, id, payload) == <<type>> \o ToBytes(id) \o payload

\* TYPE_HELLO, TYPE_OPEN, TYPE_OPEN_ACK, TYPE_DATA and TYPE_CLOSE.
Code == [HELLO |-> 16, OPEN |-> 1, OPEN_ACK |-> 2, DATA |-> 3, CLOSE |-> 4]

Payload(f) ==
  IF f.type = "HELLO" THEN f.token
  ELSE IF f.type = "OPEN" THEN f.dest
  ELSE IF f.type = "OPEN_ACK" THEN (IF f.ok THEN <<0>> ELSE <<1>>)
  ELSE IF f.type = "DATA" THEN f.bytes
  ELSE <<>>

Encode(f) == Message(Code[f.type], IF f.type = "HELLO" THEN 0 ELSE f.id, Payload(f))

\* The frame of a message with that type byte, id and payload.
Read(type, id, payload) ==
  IF type = Code.HELLO THEN (IF payload \in Text THEN Hello(payload) ELSE Error("InvalidUtf8"))
  ELSE IF type = Code.OPEN THEN (IF payload \in Text THEN Open(id, payload) ELSE Error("InvalidUtf8"))
  ELSE IF type = Code.OPEN_ACK THEN (IF payload = <<>> THEN Error("TooShort") ELSE OpenAck(id, payload[1] = 0))
  ELSE IF type = Code.DATA THEN Data(id, payload)
  ELSE IF type = Code.CLOSE THEN Close(id)
  ELSE Error("UnknownType")

Decode(m) ==
  IF Len(m) < 5 THEN Error("TooShort")
  ELSE Read(m[1], FromBytes(m[2], m[3], m[4], m[5]), SubSeq(m, 6, Len(m)))

\* A frame arrives as it was sent.
Survives(f) == Decode(Encode(f)) = f
=============================================================================
