-------------------------- MODULE ClientProcessProofs --------------------------
(***************************************************************************)
(* The frame codec is lossless for every byte size, every id and every     *)
(* payload; and what the accept loops promise about ids and frames holds   *)
(* for the whole client, whatever it was started with.                     *)
(***************************************************************************)
EXTENDS ClientProcess, RoutingProofs

-----------------------------------------------------------------------------
(* The codec.                                                              *)

\* Division and remainder put a number together again.
LEMMA DivMod ==
  ASSUME NEW x \in Nat
  PROVE  /\ x \div Base \in Nat /\ x % Base \in 0 .. (Base - 1)
         /\ x = (x \div Base) * Base + (x % Base)
  BY BaseAssumption

\* u32::from_be_bytes undoes u32::to_be_bytes, for every id.
LEMMA BytesBack ==
  ASSUME NEW id \in Nat
  PROVE  FromBytes(ToBytes(id)[1], ToBytes(id)[2], ToBytes(id)[3], ToBytes(id)[4]) = id
<1> DEFINE x == id \div Base  y == x \div Base  z == y \div Base
<1>1. x \in Nat /\ id = x * Base + (id % Base)
  BY DivMod
<1>2. y \in Nat /\ x = y * Base + (x % Base)
  BY <1>1, DivMod
<1>3. z \in Nat /\ y = z * Base + (y % Base)
  BY <1>2, DivMod
<1>4. ToBytes(id) = <<z, y % Base, x % Base, id % Base>>
  BY DEF ToBytes
<1>5. FromBytes(z, y % Base, x % Base, id % Base)
        = ((z * Base + (y % Base)) * Base + (x % Base)) * Base + (id % Base)
  BY DEF FromBytes
<1> HIDE DEF x, y, z
<1>6. ((z * Base + (y % Base)) * Base + (x % Base)) * Base + (id % Base) = id
  BY <1>1, <1>2, <1>3
<1>7. FromBytes(ToBytes(id)[1], ToBytes(id)[2], ToBytes(id)[3], ToBytes(id)[4])
        = FromBytes(z, y % Base, x % Base, id % Base)
  BY <1>4
<1> QED
  BY <1>5, <1>6, <1>7

\* A message falls apart into what it was made of.
LEMMA MessageParts ==
  ASSUME NEW type \in Nat, NEW id \in Nat, NEW D, NEW payload \in Seq(D),
         NEW m, m = Message(type, id, payload)
  PROVE  /\ Len(payload) \in Nat /\ Len(m) = 5 + Len(payload)
         /\ m[1] = type
         /\ FromBytes(m[2], m[3], m[4], m[5]) = id
         /\ SubSeq(m, 6, Len(m)) = payload
<1> DEFINE h == ToBytes(id)
           g == <<type>> \o h
           T == D \cup Nat \cup {h[i] : i \in 1..4}
<1>1. h \in Seq(T) /\ Len(h) = 4
  BY DEF ToBytes
<1>2. payload \in Seq(T) /\ Len(payload) \in Nat
  BY SeqMonotonic, LenProperties
<1>3. <<type>> \in Seq(T) /\ Len(<<type>>) = 1 /\ <<type>>[1] = type
  OBVIOUS
<1>4. m = g \o payload
  BY DEF Message
<1> HIDE DEF h, T
<1>10. /\ g \in Seq(T) /\ Len(g) = Len(<<type>>) + Len(h)
      /\ \A i \in 1 .. Len(<<type>>) + Len(h) :
           g[i] = IF i <= Len(<<type>>) THEN <<type>>[i] ELSE h[i - Len(<<type>>)]
  BY <1>1, <1>3, ConcatProperties, Zenon
<1> HIDE DEF g
<1>5. /\ g \in Seq(T) /\ Len(g) = 5
      /\ g[1] = type
      /\ g[2] = h[1] /\ g[3] = h[2] /\ g[4] = h[3] /\ g[5] = h[4]
  BY <1>1, <1>3, <1>10
<1>11. /\ g \o payload \in Seq(T) /\ Len(g \o payload) = Len(g) + Len(payload)
      /\ \A i \in 1 .. Len(g) + Len(payload) :
           (g \o payload)[i] = IF i <= Len(g) THEN g[i] ELSE payload[i - Len(g)]
  <2>1. g \in Seq(T) /\ payload \in Seq(T)
    BY <1>2, <1>5
  <2> QED
    BY <2>1, ConcatProperties, Zenon
<1>6. /\ m \in Seq(T) /\ Len(m) = 5 + Len(payload)
      /\ \A i \in 1 .. (5 + Len(payload)) :
           m[i] = IF i <= 5 THEN g[i] ELSE payload[i - 5]
  BY <1>2, <1>4, <1>5, <1>11
<1>7. m[1] = g[1] /\ m[2] = g[2] /\ m[3] = g[3] /\ m[4] = g[4] /\ m[5] = g[5]
  BY <1>2, <1>6
<1>8. FromBytes(m[2], m[3], m[4], m[5]) = id
  BY <1>5, <1>7, BytesBack DEF h
<1>9. SubSeq(m, 6, Len(m)) = payload
  <2>1. \A i \in 6 .. Len(m) : m[i] \in T
    BY <1>6, LenProperties
  <2>2. /\ SubSeq(m, 6, Len(m)) \in Seq(T)
        /\ Len(SubSeq(m, 6, Len(m))) = Len(payload)
        /\ \A i \in 1 .. Len(payload) : SubSeq(m, 6, Len(m))[i] = m[6 + i - 1]
    BY <1>2, <1>6, <2>1, SubSeqProperties
  <2>3. \A i \in 1 .. Len(payload) : SubSeq(m, 6, Len(m))[i] = payload[i]
    BY <1>2, <1>6, <2>2
  <2> QED
    BY <1>2, <2>2, <2>3, SeqEqual
<1> QED
  BY <1>2, <1>5, <1>6, <1>7, <1>8, <1>9

\* Frame::decode reads the parts of a message with a payload.
LEMMA DecodeMessage ==
  ASSUME NEW type \in Nat, NEW id \in Nat, NEW D, NEW payload \in Seq(D)
  PROVE  Decode(Message(type, id, payload)) = Read(type, id, payload)
<1> DEFINE m == Message(type, id, payload)
<1>1. /\ Len(payload) \in Nat /\ Len(m) = 5 + Len(payload)
      /\ m[1] = type
      /\ FromBytes(m[2], m[3], m[4], m[5]) = id
      /\ SubSeq(m, 6, Len(m)) = payload
  BY MessageParts, Zenon
<1> HIDE DEF m
<1>2. ~(Len(m) < 5)
  BY <1>1
<1> QED
  BY <1>1, <1>2 DEF Decode, m

\* Frame::decode is a left inverse of Frame::encode: no frame, with whatever
\* payload and id, arrives as another one or as an error.
THEOREM RoundTrip ==
  /\ \A t \in Text : Survives(Hello(t))
  /\ \A i \in Id, t \in Text : Survives(Open(i, t))
  /\ \A i \in Id, b \in BOOLEAN : Survives(OpenAck(i, b))
  /\ \A i \in Id, d \in Seq(Octet) : Survives(Data(i, d))
  /\ \A i \in Id : Survives(Close(i))
<1>0. Id \subseteq Nat /\ Text \subseteq Seq(Octet) /\ <<>> \in Seq(Octet)
  BY BaseAssumption, TextAssumption DEF Id
<1>1. ASSUME NEW t \in Text PROVE Survives(Hello(t))
  <2>1. Encode(Hello(t)) = Message(16, 0, t)
    BY DEF Encode, Hello, Payload, Code
  <2>2. Decode(Message(16, 0, t)) = Read(16, 0, t)
    BY <1>0, DecodeMessage
  <2> QED
    BY <2>1, <2>2 DEF Read, Code, Survives
<1>2. ASSUME NEW i \in Id, NEW t \in Text PROVE Survives(Open(i, t))
  <2>1. Encode(Open(i, t)) = Message(1, i, t)
    BY DEF Encode, Open, Payload, Code
  <2>2. Decode(Message(1, i, t)) = Read(1, i, t)
    BY <1>0, DecodeMessage
  <2> QED
    BY <2>1, <2>2 DEF Read, Code, Survives
<1>3. ASSUME NEW i \in Id, NEW b \in BOOLEAN PROVE Survives(OpenAck(i, b))
  <2> DEFINE p == IF b THEN <<0>> ELSE <<1>>
  <2>1. Encode(OpenAck(i, b)) = Message(2, i, p)
    BY DEF Encode, OpenAck, Payload, Code
  <2>2. p \in Seq(Nat) /\ p # <<>> /\ (p[1] = 0 <=> b)
    OBVIOUS
  <2> HIDE DEF p
  <2>3. Decode(Message(2, i, p)) = Read(2, i, p)
    BY <1>0, <2>2, DecodeMessage
  <2>4. Read(2, i, p) = OpenAck(i, p[1] = 0)
    BY <2>2 DEF Read, Code
  <2>5. OpenAck(i, p[1] = 0) = OpenAck(i, b)
    BY <2>2
  <2> QED
    BY <2>1, <2>3, <2>4, <2>5 DEF Survives
<1>4. ASSUME NEW i \in Id, NEW d \in Seq(Octet) PROVE Survives(Data(i, d))
  <2>1. Encode(Data(i, d)) = Message(3, i, d)
    BY DEF Encode, Data, Payload, Code
  <2>2. Decode(Message(3, i, d)) = Read(3, i, d)
    BY <1>0, DecodeMessage
  <2> QED
    BY <2>1, <2>2 DEF Read, Code, Survives
<1>5. ASSUME NEW i \in Id PROVE Survives(Close(i))
  <2>1. Encode(Close(i)) = Message(4, i, <<>>)
    BY DEF Encode, Close, Payload, Code
  <2>2. Decode(Message(4, i, <<>>)) = Read(4, i, <<>>)
    BY <1>0, DecodeMessage
  <2> QED
    BY <2>1, <2>2 DEF Read, Code, Survives
<1> QED
  BY <1>1, <1>2, <1>3, <1>4, <1>5

-----------------------------------------------------------------------------
(* The counter.                                                            *)

LEMMA IdSpaceType == IdSpace \in Nat /\ IdSpace > 1
<1>1. Base * Base \in Nat /\ Base * Base > 1
  BY BaseAssumption
<1>2. Base * Base * Base \in Nat /\ Base * Base * Base > 1
  BY <1>1, BaseAssumption
<1> QED
  BY <1>2, BaseAssumption DEF IdSpace

\* A multiple of m that is not zero is at least m away from zero.
LEMMA Multiple ==
  ASSUME NEW m \in Nat, m > 0, NEW k \in Int, k * m < m, k * m > -m
  PROVE  k = 0
<1>1. CASE k >= 1
  <2>1. k * m >= m
    BY <1>1
  <2> QED
    BY <2>1
<1>2. CASE k <= -1
  <2>1. k * m <= -m
    BY <1>2
  <2> QED
    BY <2>1
<1> QED
  BY <1>1, <1>2

\* Quotient and remainder of a stream's number.
LEMMA Wrap ==
  ASSUME NEW x \in Nat
  PROVE  /\ x \div IdSpace \in Nat /\ x % IdSpace \in 0 .. (IdSpace - 1)
         /\ x = (x \div IdSpace) * IdSpace + (x % IdSpace)
  BY IdSpaceType

\* The remainder is the only one.
LEMMA WrapUnique ==
  ASSUME NEW x \in Nat, NEW q \in Nat, NEW r \in 0 .. (IdSpace - 1),
         x = q * IdSpace + r
  PROVE  x % IdSpace = r
<1> DEFINE p == x \div IdSpace  t == x % IdSpace
<1>1. p \in Nat /\ t \in 0 .. (IdSpace - 1) /\ x = p * IdSpace + t
  BY Wrap
<1> HIDE DEF p, t
<1>2. (p - q) * IdSpace = r - t
  BY <1>1, IdSpaceType
<1>3. p - q = 0
  <2>1. r - t < IdSpace /\ r - t > -IdSpace
    BY <1>1, IdSpaceType
  <2> QED
    BY <1>1, <1>2, <2>1, IdSpaceType, Multiple
<1>4. r = t
  BY <1>1, <1>3, IdSpaceType
<1> QED
  BY <1>4 DEF t

\* fetch_add on a wrapped counter is the wrapped successor.
LEMMA WrapNext ==
  ASSUME NEW x \in Nat
  PROVE  ((x % IdSpace) + 1) % IdSpace = (x + 1) % IdSpace
<1> DEFINE q == x \div IdSpace  r == x % IdSpace
<1>1. q \in Nat /\ r \in 0 .. (IdSpace - 1) /\ x = q * IdSpace + r
  BY Wrap
<1> HIDE DEF q, r
<1>2. CASE r + 1 < IdSpace
  <2>1. r + 1 \in 0 .. (IdSpace - 1) /\ r + 1 = 0 * IdSpace + (r + 1)
        /\ x + 1 = q * IdSpace + (r + 1)
    BY <1>1, <1>2, IdSpaceType
  <2>2. (r + 1) % IdSpace = r + 1 /\ (x + 1) % IdSpace = r + 1
    BY <1>1, <2>1, WrapUnique
  <2> QED
    BY <2>2 DEF r
<1>3. CASE r + 1 = IdSpace
  <2>1. 0 \in 0 .. (IdSpace - 1) /\ r + 1 = 1 * IdSpace + 0
        /\ x + 1 = (q + 1) * IdSpace + 0
    BY <1>1, <1>3, IdSpaceType
  <2>2. (r + 1) % IdSpace = 0 /\ (x + 1) % IdSpace = 0
    BY <1>1, <2>1, WrapUnique
  <2> QED
    BY <2>2 DEF r
<1> QED
  BY <1>1, <1>2, <1>3, IdSpaceType

\* Numbers less than a whole turn apart have different remainders.
LEMMA WrapDistinct ==
  ASSUME NEW x \in Nat, NEW y \in Nat, x < y, y - x < IdSpace
  PROVE  x % IdSpace # y % IdSpace
<1> DEFINE p == x \div IdSpace  q == y \div IdSpace
<1>1. p \in Nat /\ x = p * IdSpace + (x % IdSpace) /\ x % IdSpace \in Nat
  BY Wrap, IdSpaceType
<1>2. q \in Nat /\ y = q * IdSpace + (y % IdSpace)
  BY Wrap
<1> HIDE DEF p, q
<1> SUFFICES ASSUME x % IdSpace = y % IdSpace PROVE FALSE
  OBVIOUS
<1>3. (q - p) * IdSpace = y - x
  BY <1>1, <1>2, IdSpaceType
<1>4. q - p = 0
  BY <1>1, <1>2, <1>3, IdSpaceType, Multiple
<1> QED
  BY <1>3, <1>4, IdSpaceType

-----------------------------------------------------------------------------
(* The accept loops.                                                       *)

\* The id of a stream is its number, wrapped, and the counter is one ahead of
\* the last one: this makes IdsDistinct inductive.
Numbered ==
  /\ ListenersOK
  /\ next_id = (accepted + 1) % IdSpace
  /\ \A c \in live : c.n \in 1 .. accepted /\ c.id = c.n % IdSpace

LEMMA NumberedInit == ListenersInit => Numbered
<1> SUFFICES ASSUME ListenersInit PROVE Numbered
  OBVIOUS
<1>1. 1 \in 0 .. (IdSpace - 1) /\ 0 + 1 = 0 * IdSpace + 1
  BY IdSpaceType
<1>2. (0 + 1) % IdSpace = 1
  BY <1>1, WrapUnique
<1> QED
  BY <1>1, <1>2 DEF ListenersInit, Numbered, ListenersOK, Id

LEMMA NumberedAccept ==
  ASSUME Numbered, NEW front \in {"http", "socks"}, Accept(front)
  PROVE  Numbered'
<1> DEFINE c0 == [n |-> accepted + 1, id |-> next_id, front |-> front]
<1>1. accepted \in Nat /\ accepted' = accepted + 1 /\ live' = live \cup {c0}
  BY DEF Accept, Numbered, ListenersOK
<1>2. next_id' = (accepted' + 1) % IdSpace
  BY <1>1, WrapNext DEF Accept, Numbered
<1>3. next_id' \in Id
  BY <1>1, <1>2, Wrap DEF Id
<1>4. c0 \in Connection /\ c0.n \in 1 .. accepted' /\ c0.id = c0.n % IdSpace
  BY <1>1 DEF Numbered, ListenersOK, Connection
<1>5. ListenersOK'
  BY <1>1, <1>3, <1>4 DEF Accept, Numbered, ListenersOK
<1>6. ASSUME NEW c \in live' PROVE c.n \in 1 .. accepted' /\ c.id = c.n % IdSpace
  <2>1. CASE c = c0
    BY <1>4, <2>1
  <2>2. CASE c \in live
    BY <1>1, <2>2 DEF Numbered
  <2> QED
    BY <1>1, <2>1, <2>2
<1> QED
  BY <1>2, <1>5, <1>6 DEF Numbered

LEMMA NumberedStep == Numbered /\ [ListenersNext]_listenerVars => Numbered'
<1> SUFFICES ASSUME Numbered, [ListenersNext]_listenerVars PROVE Numbered'
  OBVIOUS
<1>1. ASSUME NEW s \in BOOLEAN, Listen(s) PROVE Numbered'
  BY <1>1 DEF Listen, Numbered, ListenersOK
<1>2. CASE ConnectionEnds
  BY <1>2 DEF ConnectionEnds, Numbered, ListenersOK
<1>3. CASE SocksStops
  BY <1>3 DEF SocksStops, Numbered, ListenersOK
<1>4. CASE HttpStops
  BY <1>4 DEF HttpStops, Numbered, ListenersOK
<1>5. CASE UNCHANGED listenerVars
  BY <1>5 DEF listenerVars, Numbered, ListenersOK
<1> QED
  BY <1>1, <1>2, <1>3, <1>4, <1>5, NumberedAccept DEF ListenersNext, Serve

LEMMA DistinctFromNumbered == Numbered => IdsDistinct
<1> SUFFICES ASSUME Numbered, NEW c \in live, NEW d \in live
             PROVE  /\ c.n < d.n /\ d.n - c.n < IdSpace => c.id # d.id
                    /\ c.n < IdSpace => c.id # 0
  BY DEF IdsDistinct
<1>1. /\ accepted \in Nat
      /\ c.n \in 1 .. accepted /\ c.id = c.n % IdSpace
      /\ d.n \in 1 .. accepted /\ d.id = d.n % IdSpace
  BY DEF Numbered, ListenersOK
<1>2. c.n \in Nat /\ d.n \in Nat
  BY <1>1
<1>3. c.n < d.n /\ d.n - c.n < IdSpace => c.id # d.id
  BY <1>1, <1>2, WrapDistinct
<1>4. ASSUME c.n < IdSpace PROVE c.id # 0
  <2>1. c.n \in 0 .. (IdSpace - 1) /\ c.n = 0 * IdSpace + c.n
    BY <1>2, <1>4, IdSpaceType
  <2>2. c.n % IdSpace = c.n
    BY <1>2, <2>1, WrapUnique
  <2> QED
    BY <1>1, <2>2
<1> QED
  BY <1>3, <1>4

LEMMA SurviveFromNumbered == Numbered => FramesSurvive
<1> SUFFICES ASSUME Numbered, NEW c \in live
             PROVE  /\ \A t \in Text : Survives(Open(c.id, t)) /\ Survives(Data(c.id, t))
                    /\ \A b \in BOOLEAN : Survives(OpenAck(c.id, b))
                    /\ Survives(Close(c.id))
  BY DEF FramesSurvive
<1>1. c.id \in Id /\ Text \subseteq Seq(Octet)
  BY TextAssumption DEF Numbered, ListenersOK, Connection
<1>2. ASSUME NEW t \in Text PROVE Survives(Open(c.id, t)) /\ Survives(Data(c.id, t))
  BY <1>1, RoundTrip
<1>3. ASSUME NEW b \in BOOLEAN PROVE Survives(OpenAck(c.id, b))
  BY <1>1, RoundTrip, Zenon
<1>4. Survives(Close(c.id))
  BY <1>1, RoundTrip
<1> QED
  BY <1>2, <1>3, <1>4, Zenon

-----------------------------------------------------------------------------
(* The client.                                                             *)

\* Every step of the process is, for the listeners, a step of theirs or none.
LEMMA ClientStep == [Next]_vars => [ListenersNext]_listenerVars
<1> SUFFICES ASSUME [Next]_vars PROVE [ListenersNext]_listenerVars
  OBVIOUS
<1>1. CASE ReadConfig \/ LoadSites \/ LoadIps
  BY <1>1 DEF ReadConfig, LoadSites, LoadIps
<1>2. CASE Bind
  <2>1. ("socks_port" \in Set) \in BOOLEAN
    OBVIOUS
  <2> QED
    BY <1>2, <2>1 DEF Bind, ListenersNext
<1>3. CASE Run
  BY <1>3 DEF Run, ListenersNext
<1>4. CASE UNCHANGED vars
  BY <1>4 DEF vars
<1> QED
  BY <1>1, <1>2, <1>3, <1>4 DEF Next

LEMMA AlwaysNumbered == Spec => []Numbered
<1>1. Init => Numbered
  BY NumberedInit DEF Init
<1>2. Numbered /\ [Next]_vars => Numbered'
  BY ClientStep, NumberedStep
<1> QED
  BY <1>1, <1>2, PTL DEF Spec

\* The process implements the accept loops of run_proxy_resilient: start-up
\* and routing do not disturb them.
THEOREM ClientRunsListeners == Spec => ListenersSpec
<1>1. Init => ListenersInit
  BY DEF Init
<1> QED
  BY <1>1, ClientStep, PTL DEF Spec, ListenersSpec

\* Streams that are open together have different ids, for every byte size and
\* any number of connections: fetch_add may wrap around, the two listeners may
\* accept in any order, and the id of HELLO is not reached before the wrap.
THEOREM IdsAlwaysDistinct == Spec => []IdsDistinct
  BY AlwaysNumbered, DistinctFromNumbered, PTL

\* Every frame about a stream the client opened is decoded as it was encoded.
THEOREM FramesAlwaysSurvive == Spec => []FramesSurvive
  BY AlwaysNumbered, SurviveFromNumbered, PTL

\* Type correctness of the client.
THEOREM ClientTypeCorrect == Spec => []TypeOK
<1> DEFINE Own == /\ phase \in {"config", "geosite", "geoip", "bind", "run", "exit"}
                  /\ setup \in Setups \cup {[cli |-> {}, file |-> "used"]}
                  /\ DOMAIN rules = DOMAIN NoRules
<1>1. Init => Own
  BY DEF Init
<1>2. Own /\ [Next]_vars => Own'
  <2> SUFFICES ASSUME Own, [Next]_vars PROVE Own'
    OBVIOUS
  <2>1. CASE ReadConfig
    BY <2>1 DEF ReadConfig
  <2>2. CASE LoadSites
    BY <2>2 DEF LoadSites
  <2>3. CASE LoadIps
    BY <2>3 DEF LoadIps
  <2>4. CASE Bind
    BY <2>4 DEF Bind
  <2>5. CASE Run
    BY <2>5 DEF Run
  <2>6. CASE UNCHANGED vars
    BY <2>6 DEF vars
  <2> QED
    BY <2>1, <2>2, <2>3, <2>4, <2>5, <2>6 DEF Next
<1>3. Own /\ Numbered => TypeOK
  BY DEF TypeOK, Numbered
<1> QED
  BY <1>1, <1>2, <1>3, AlwaysNumbered, PTL DEF Spec

-----------------------------------------------------------------------------
(* The rule files.                                                         *)

\* What the loaders return.
LEMMA LoadGeositeResult ==
  ASSUME NEW f, NEW tags
  PROVE  LoadGeosite(f, tags) = Failed \/ LoadGeosite(f, tags) = Loaded(LoadGeosite(f, tags).value)
  BY DEF LoadGeosite, Loaded

LEMMA LoadGeoipResult ==
  ASSUME NEW f, NEW tags
  PROVE  LoadGeoip(f, tags) = Failed \/ LoadGeoip(f, tags) = Loaded(LoadGeoip(f, tags).value)
  BY DEF LoadGeoip, Loaded

\* What was started with is still there while the rules are being built, and
\* each configured file is in force from the step that loads it.
InForce ==
  /\ DOMAIN rules = DOMAIN NoRules
  /\ phase \in {"config", "geosite", "geoip", "bind"} => setup \in Setups
  /\ phase \in {"geoip", "bind"} =>
       \A f \in Section.geosite :
         {Loaded(m) : m \in rules.geosite} = {LoadGeosite(f, Tags(Section.geosite_tags))}
  /\ phase = "bind" =>
       \A f \in Section.geoip : LoadGeoip(f, Tags(Section.geoip_tags)) = Loaded(rules.cidrs)

\* A configured file is the only one that is tried.
LEMMA OneFile ==
  ASSUME setup \in Setups
  PROVE  /\ \A f \in Section.geosite : Section.geosite = {f}
         /\ \A f \in Section.geoip : Section.geoip = {f}
<1>1. CASE setup.file = "ok"
  BY <1>1, SetupsAssumption DEF Section
<1>2. CASE setup.file # "ok"
  BY <1>2 DEF Section, NoSection
<1> QED
  BY <1>1, <1>2

LEMMA InForceSites == InForce /\ LoadSites => InForce'
<1> SUFFICES ASSUME InForce, LoadSites PROVE InForce'
  OBVIOUS
<1>1. /\ setup \in Setups /\ setup' = setup /\ Section' = Section
      /\ phase' \in {"exit", "geoip"} /\ DOMAIN rules' = DOMAIN NoRules
  BY DEF InForce, LoadSites, Section
<1>2. ASSUME phase' = "geoip", NEW f \in Section.geosite
      PROVE  {Loaded(m) : m \in rules'.geosite} = {LoadGeosite(f, Tags(Section.geosite_tags))}
  <2> DEFINE dat == DatOrDefault(Section.geosite, setup.disk.geosite)
             r == LoadGeosite(f, Tags(Section.geosite_tags))
             results == {LoadGeosite(x, Tags(Section.geosite_tags)) : x \in dat.file}
  <2>1. dat.file = {f} /\ dat.required = TRUE
    BY <1>1, OneFile DEF DatOrDefault
  <2>2. results = {r}
    BY <2>1
  <2>3. /\ ~(Failed \in results /\ dat.required)
        /\ rules'.geosite = {x.value : x \in results \ {Failed}}
    <3>1. phase' = IF Failed \in results /\ dat.required THEN "exit" ELSE "geoip"
      BY DEF LoadSites
    <3>2. rules' = [rules EXCEPT !.geosite = {x.value : x \in results \ {Failed}}]
      BY DEF LoadSites
    <3>3. {"geosite", "cidrs"} \subseteq DOMAIN rules
      BY DEF InForce, NoRules
    <3> QED
      BY <1>2, <3>1, <3>2, <3>3
  <2> HIDE DEF dat, results
  <2>4. r # Failed /\ r = Loaded(r.value)
    BY <2>1, <2>2, <2>3, LoadGeositeResult
  <2>5. rules'.geosite = {r.value}
    BY <2>2, <2>3, <2>4
  <2> HIDE DEF r
  <2>6. {Loaded(m) : m \in rules'.geosite} = {Loaded(r.value)}
    BY <2>5
  <2>7. {Loaded(m) : m \in rules'.geosite} = {r}
    BY <2>4, <2>6
  <2> QED
    BY <2>7 DEF r
<1> QED
  BY <1>1, <1>2 DEF InForce

LEMMA InForceIps == InForce /\ LoadIps => InForce'
<1> SUFFICES ASSUME InForce, LoadIps PROVE InForce'
  OBVIOUS
<1>1. /\ setup \in Setups /\ setup' = setup /\ Section' = Section
      /\ phase = "geoip" /\ phase' \in {"exit", "bind"} /\ DOMAIN rules' = DOMAIN NoRules
  BY DEF InForce, LoadIps, Section
<1>2. rules'.geosite = rules.geosite
  BY DEF LoadIps
<1>3. ASSUME phase' = "bind", NEW f \in Section.geoip
      PROVE  LoadGeoip(f, Tags(Section.geoip_tags)) = Loaded(rules'.cidrs)
  <2> DEFINE dat == DatOrDefault(Section.geoip, setup.disk.geoip)
             r == LoadGeoip(f, Tags(Section.geoip_tags))
             results == {LoadGeoip(x, Tags(Section.geoip_tags)) : x \in dat.file}
  <2>1. dat.file = {f} /\ dat.required = TRUE
    BY <1>1, OneFile DEF DatOrDefault
  <2>2. results = {r}
    BY <2>1
  <2>3. /\ ~(Failed \in results /\ dat.required)
        /\ rules'.cidrs = UNION {x.value : x \in results \ {Failed}}
    <3>1. phase' = IF Failed \in results /\ dat.required THEN "exit" ELSE "bind"
      BY DEF LoadIps
    <3>2. rules' = [rules EXCEPT !.cidrs = UNION {x.value : x \in results \ {Failed}}]
      BY DEF LoadIps
    <3>3. {"geosite", "cidrs"} \subseteq DOMAIN rules
      BY DEF InForce, NoRules
    <3> QED
      BY <1>3, <3>1, <3>2, <3>3
  <2> HIDE DEF dat, results
  <2>4. r # Failed /\ r = Loaded(r.value)
    BY <2>1, <2>2, <2>3, LoadGeoipResult
  <2> HIDE DEF r
  <2>5. results \ {Failed} = {r}
    BY <2>2, <2>4
  <2>6. rules'.cidrs = r.value
    BY <2>3, <2>5
  <2> QED
    BY <2>4, <2>6 DEF r
<1> QED
  BY <1>1, <1>2, <1>3 DEF InForce

LEMMA InForceStep == InForce /\ [Next]_vars => InForce'
<1> SUFFICES ASSUME InForce, [Next]_vars PROVE InForce'
  OBVIOUS
<1>1. CASE ReadConfig
  BY <1>1 DEF ReadConfig, InForce
<1>2. CASE Bind
  BY <1>2 DEF Bind, InForce
<1>3. CASE Run
  BY <1>3 DEF Run, InForce
<1>4. CASE UNCHANGED vars
  BY <1>4 DEF vars, InForce, Section
<1> QED
  BY <1>1, <1>2, <1>3, <1>4, InForceSites, InForceIps DEF Next

\* build_routing: whatever files are configured, found or broken, the client
\* does not listen without the rule files its configuration names.
THEOREM ConfiguredAlwaysInForce == Spec => []ConfiguredInForce
<1>1. Init => InForce
  BY DEF Init, InForce
<1>2. InForce => ConfiguredInForce
  BY DEF InForce, ConfiguredInForce
<1> QED
  BY <1>1, <1>2, InForceStep, PTL DEF Spec

-----------------------------------------------------------------------------
(* Addresses.                                                              *)

\* The rules and the server's filter see the same address in a literal, but for
\* an IPv6 literal over HTTP, which the rules see in brackets, in every state of
\* the client.
THEOREM LiteralsAlwaysRead == Spec => []LiteralsRead
<1>1. LiteralsRead
  <2> SUFFICES ASSUME NEW t \in DOMAIN Literals, NEW port \in PortSet
               PROVE  LET dest == SocksDest(t, port)
                          text == IF Literals[t].v = 6 THEN <<"[">> \o t \o <<"]">> ELSE t
                      IN /\ SplitHostPort(dest) = [host |-> t, port |-> Ports[port]]
                         /\ HttpDest(text \o <<":", port>>) = dest
                         /\ HttpTarget(dest) = [host |-> text, port |-> Ports[port]]
                         /\ text \in DOMAIN Literals <=> Literals[t].v = 4
                         /\ IsDestAllowed(dest) = IsPublicIp(Literals[t])
    BY Zenon DEF LiteralsRead
  <2>1. port \in DOMAIN Ports
    BY DEF PortSet, Ports
  <2>2. /\ SplitHostPort(SocksDest(t, port)) = [host |-> t, port |-> Ports[port]]
        /\ IsDestAllowed(SocksDest(t, port)) = (t \in DOMAIN Literals => IsPublicIp(Literals[t]))
    BY <2>1, LiteralTexts, SocksReads, Zenon
  <2>3. IsPublicIp(Literals[t]) \in BOOLEAN
    BY DEF IsPublicIp
  <2> QED
    BY <2>1, <2>2, <2>3, HttpLiteral, Zenon
<1> QED
  BY <1>1, PTL

-----------------------------------------------------------------------------
(* Routes.                                                                 *)

SiteTags == Tags(Section.geosite_tags)
IpTags == Tags(Section.geoip_tags)
SiteFiles == {f \in Source(Section.geosite, setup.disk.geosite) : LoadGeosite(f, SiteTags).ok}
IpFiles == {f \in Source(Section.geoip, setup.disk.geoip) : LoadGeoip(f, IpTags).ok}

\* The rules in use are the configured ones, each part from the step that
\* builds it.
RulesInv ==
  /\ DOMAIN rules = DOMAIN NoRules
  /\ phase \in {"config", "geosite", "geoip", "bind"} => setup \in Setups
  /\ phase \in {"geosite", "geoip", "bind"} =>
       /\ rules.proxy = {Parse(Written(r)) : r \in Section.proxy}
       /\ rules.bypass = {Parse(Written(r)) : r \in Section.bypass}
  /\ phase \in {"geoip", "bind"} =>
       rules.geosite = {SitesOf(Entries(f, SiteTags)) : f \in SiteFiles}
  /\ phase = "bind" =>
       rules.cidrs = UNION {RangesOf(Entries(f, IpTags)) : f \in IpFiles}

\* A loader fails, or returns what the entries say.
LEMMA SitesLoaded ==
  ASSUME NEW f, NEW tags
  PROVE  /\ LoadGeosite(f, tags).ok <=> LoadGeosite(f, tags) # Failed
         /\ LoadGeosite(f, tags).ok => LoadGeosite(f, tags) = Loaded(SitesOf(Entries(f, tags)))
         /\ LoadGeosite(f, tags).ok => f.state = "ok" /\ tags \subseteq DOMAIN f.entries
<1> DEFINE bad == f.state # "ok" \/ ~(tags \subseteq DOMAIN f.entries)
                  \/ \E e \in Entries(f, tags) : e.type = 1 /\ ~e.compiles
           r == LoadGeosite(f, tags)
<1>1. r = IF bad THEN Failed ELSE Loaded(SitesOf(Entries(f, tags)))
  BY Zenon DEF LoadGeosite, SitesOf
<1>2. Failed.ok = FALSE /\ \A x : Loaded(x).ok = TRUE
  BY DEF Failed, Loaded
<1>3. CASE bad
  BY <1>1, <1>2, <1>3
<1>4. CASE ~bad
  BY <1>1, <1>2, <1>4
<1> QED
  BY <1>3, <1>4

LEMMA RangesLoaded ==
  ASSUME NEW f, NEW tags
  PROVE  /\ LoadGeoip(f, tags).ok <=> LoadGeoip(f, tags) # Failed
         /\ LoadGeoip(f, tags).ok => LoadGeoip(f, tags) = Loaded(RangesOf(Entries(f, tags)))
         /\ LoadGeoip(f, tags).ok => f.state = "ok"
<1> DEFINE bad == f.state # "ok" \/ ~(tags \subseteq DOMAIN f.entries)
                  \/ \E c \in Entries(f, tags) : ~(c.bytes \in {4, 16} /\ c.prefix % 256 <= 8 * c.bytes)
           r == LoadGeoip(f, tags)
<1>1. r = IF bad THEN Failed ELSE Loaded(RangesOf(Entries(f, tags)))
  BY Zenon DEF LoadGeoip, RangesOf
<1>2. Failed.ok = FALSE /\ \A x : Loaded(x).ok = TRUE
  BY DEF Failed, Loaded
<1>3. CASE bad
  BY <1>1, <1>2, <1>3
<1>4. CASE ~bad
  BY <1>1, <1>2, <1>4
<1> QED
  BY <1>3, <1>4

\* dat_path_or_default and the rule file that counts differ only in a default
\* file that is not there.
LEMMA FilesTried ==
  ASSUME NEW configured, NEW default
  PROVE  /\ DatOrDefault(configured, default).file \subseteq Source(configured, default)
         /\ \A f \in Source(configured, default) :
              f.state = "ok" => f \in DatOrDefault(configured, default).file
<1>1. CASE configured # {}
  BY <1>1 DEF DatOrDefault, Source
<1>2. CASE configured = {}
  BY <1>2 DEF DatOrDefault, Source
<1> QED
  BY <1>1, <1>2

LEMMA RulesSites == RulesInv /\ LoadSites => RulesInv'
<1> SUFFICES ASSUME RulesInv, LoadSites PROVE RulesInv'
  OBVIOUS
<1> DEFINE dat == DatOrDefault(Section.geosite, setup.disk.geosite)
           L(f) == LoadGeosite(f, SiteTags)
           results == {L(f) : f \in dat.file}
<1>1. /\ setup \in Setups /\ setup' = setup /\ phase = "geosite" /\ phase' \in {"exit", "geoip"}
      /\ rules' = [rules EXCEPT !.geosite = {r.value : r \in results \ {Failed}}]
  BY DEF RulesInv, LoadSites, SiteTags
<1>2. {"proxy", "bypass", "geosite", "cidrs"} \subseteq DOMAIN rules
  BY DEF RulesInv, NoRules
<1>3. /\ DOMAIN rules' = DOMAIN NoRules
      /\ rules'.proxy = rules.proxy /\ rules'.bypass = rules.bypass
      /\ rules'.geosite = {r.value : r \in results \ {Failed}}
  BY <1>1, <1>2 DEF RulesInv
<1>4. Section' = Section /\ SiteTags' = SiteTags /\ SiteFiles' = SiteFiles
  BY <1>1 DEF Section, SiteTags, SiteFiles
<1>5. \A f : /\ L(f).ok <=> L(f) # Failed
             /\ L(f).ok => L(f).value = SitesOf(Entries(f, SiteTags)) /\ f.state = "ok"
  <2>1. \A x : Loaded(x).value = x
    BY DEF Loaded
  <2> QED
    BY <2>1, SitesLoaded, Zenon
<1>6. \A f : f \in SiteFiles <=> f \in dat.file /\ L(f).ok
  BY <1>5, FilesTried, Zenon DEF SiteFiles
<1> HIDE DEF dat, L
<1>7. {r.value : r \in results \ {Failed}} = {SitesOf(Entries(f, SiteTags)) : f \in SiteFiles}
  <2>1. ASSUME NEW r \in results \ {Failed}
        PROVE  r.value \in {SitesOf(Entries(f, SiteTags)) : f \in SiteFiles}
    <3>1. PICK f \in dat.file : r = L(f) /\ L(f) # Failed
      OBVIOUS
    <3> QED
      BY <1>5, <1>6, <3>1, Zenon
  <2>2. ASSUME NEW f \in SiteFiles
        PROVE  SitesOf(Entries(f, SiteTags)) \in {r.value : r \in results \ {Failed}}
    <3>1. L(f) \in results \ {Failed} /\ L(f).value = SitesOf(Entries(f, SiteTags))
      BY <1>5, <1>6, Zenon
    <3> HIDE DEF results
    <3> QED
      BY <3>1, Zenon
  <2> HIDE DEF results
  <2> QED
    BY <2>1, <2>2, Zenon
<1>8. rules'.geosite = {SitesOf(Entries(f, SiteTags')) : f \in SiteFiles'}
  BY <1>3, <1>4, <1>7, Zenon
<1>9. /\ rules.proxy = {Parse(Written(r)) : r \in Section.proxy}
      /\ rules.bypass = {Parse(Written(r)) : r \in Section.bypass}
  BY <1>1 DEF RulesInv
<1> HIDE DEF results
<1> QED
  BY <1>1, <1>3, <1>4, <1>8, <1>9 DEF RulesInv

LEMMA RulesIps == RulesInv /\ LoadIps => RulesInv'
<1> SUFFICES ASSUME RulesInv, LoadIps PROVE RulesInv'
  OBVIOUS
<1> DEFINE dat == DatOrDefault(Section.geoip, setup.disk.geoip)
           L(f) == LoadGeoip(f, IpTags)
           results == {L(f) : f \in dat.file}
<1>1. /\ setup \in Setups /\ setup' = setup /\ phase = "geoip" /\ phase' \in {"exit", "bind"}
      /\ rules' = [rules EXCEPT !.cidrs = UNION {r.value : r \in results \ {Failed}}]
  BY DEF RulesInv, LoadIps, IpTags
<1>2. {"proxy", "bypass", "geosite", "cidrs"} \subseteq DOMAIN rules
  BY DEF RulesInv, NoRules
<1>3. /\ DOMAIN rules' = DOMAIN NoRules
      /\ rules'.proxy = rules.proxy /\ rules'.bypass = rules.bypass /\ rules'.geosite = rules.geosite
      /\ rules'.cidrs = UNION {r.value : r \in results \ {Failed}}
  BY <1>1, <1>2 DEF RulesInv
<1>4. /\ Section' = Section /\ SiteTags' = SiteTags /\ SiteFiles' = SiteFiles
      /\ IpTags' = IpTags /\ IpFiles' = IpFiles
  BY <1>1 DEF Section, SiteTags, SiteFiles, IpTags, IpFiles
<1>5. \A f : /\ L(f).ok <=> L(f) # Failed
             /\ L(f).ok => L(f).value = RangesOf(Entries(f, IpTags)) /\ f.state = "ok"
  <2>1. \A x : Loaded(x).value = x
    BY DEF Loaded
  <2> QED
    BY <2>1, RangesLoaded, Zenon
<1>6. \A f : f \in IpFiles <=> f \in dat.file /\ L(f).ok
  BY <1>5, FilesTried, Zenon DEF IpFiles
<1> HIDE DEF dat, L
<1>7. {r.value : r \in results \ {Failed}} = {RangesOf(Entries(f, IpTags)) : f \in IpFiles}
  <2>1. ASSUME NEW r \in results \ {Failed}
        PROVE  r.value \in {RangesOf(Entries(f, IpTags)) : f \in IpFiles}
    <3>1. PICK f \in dat.file : r = L(f) /\ L(f) # Failed
      OBVIOUS
    <3> QED
      BY <1>5, <1>6, <3>1, Zenon
  <2>2. ASSUME NEW f \in IpFiles
        PROVE  RangesOf(Entries(f, IpTags)) \in {r.value : r \in results \ {Failed}}
    <3>1. L(f) \in results \ {Failed} /\ L(f).value = RangesOf(Entries(f, IpTags))
      BY <1>5, <1>6, Zenon
    <3> HIDE DEF results
    <3> QED
      BY <3>1, Zenon
  <2> HIDE DEF results
  <2> QED
    BY <2>1, <2>2, Zenon
<1>8. rules'.cidrs = UNION {RangesOf(Entries(f, IpTags')) : f \in IpFiles'}
  BY <1>3, <1>4, <1>7, Zenon
<1>9. /\ rules.proxy = {Parse(Written(r)) : r \in Section.proxy}
      /\ rules.bypass = {Parse(Written(r)) : r \in Section.bypass}
      /\ rules.geosite = {SitesOf(Entries(f, SiteTags)) : f \in SiteFiles}
  BY <1>1 DEF RulesInv
<1>10. rules'.geosite = {SitesOf(Entries(f, SiteTags')) : f \in SiteFiles'}
  BY <1>3, <1>4, <1>9, Zenon
<1> HIDE DEF results
<1> QED
  BY <1>1, <1>3, <1>4, <1>8, <1>9, <1>10 DEF RulesInv

LEMMA RulesConfig == RulesInv /\ ReadConfig => RulesInv'
<1> SUFFICES ASSUME RulesInv, ReadConfig PROVE RulesInv'
  OBVIOUS
<1>1. /\ setup \in Setups /\ setup' = setup /\ phase' \in {"exit", "geosite"}
      /\ rules' = [rules EXCEPT !.proxy = {Parse(Written(r)) : r \in Section.proxy},
                                !.bypass = {Parse(Written(r)) : r \in Section.bypass}]
  BY DEF RulesInv, ReadConfig
<1>2. {"proxy", "bypass"} \subseteq DOMAIN rules
  BY DEF RulesInv, NoRules
<1> DEFINE P == {Parse(Written(r)) : r \in Section.proxy}
           B == {Parse(Written(r)) : r \in Section.bypass}
<1>3. rules' = [rules EXCEPT !.proxy = P, !.bypass = B]
  BY <1>1
<1> HIDE DEF P, B
<1>4. DOMAIN rules' = DOMAIN NoRules /\ rules'.proxy = P /\ rules'.bypass = B
  BY <1>2, <1>3 DEF RulesInv
<1>5. Section' = Section
  BY <1>1 DEF Section
<1>6. /\ rules'.proxy = {Parse(Written(r)) : r \in Section'.proxy}
      /\ rules'.bypass = {Parse(Written(r)) : r \in Section'.bypass}
  BY <1>4, <1>5, Zenon DEF P, B
<1> QED
  BY <1>1, <1>4, <1>6 DEF RulesInv

LEMMA RulesStep == RulesInv /\ [Next]_vars => RulesInv'
<1> SUFFICES ASSUME RulesInv, [Next]_vars PROVE RulesInv'
  OBVIOUS
<1>1. CASE Bind
  BY <1>1 DEF Bind, RulesInv
<1>2. CASE Run
  BY <1>2 DEF Run, RulesInv
<1>3. CASE UNCHANGED vars
  <2>1. phase' = phase /\ setup' = setup /\ rules' = rules
    BY <1>3 DEF vars
  <2>2. /\ Section' = Section /\ SiteTags' = SiteTags /\ SiteFiles' = SiteFiles
        /\ IpTags' = IpTags /\ IpFiles' = IpFiles
    BY <2>1 DEF Section, SiteTags, SiteFiles, IpTags, IpFiles
  <2> QED
    BY <2>1, <2>2 DEF RulesInv
<1> QED
  BY <1>1, <1>2, <1>3, RulesConfig, RulesSites, RulesIps DEF Next

\* What the assumption on the setups says of the rules in use.
LEMMA RulesNamed ==
  ASSUME setup \in Setups
  PROVE  /\ \A r \in Section.proxy \cup Section.bypass : IsRule(r)
         /\ \A f \in SiteFiles : \A e \in Entries(f, SiteTags) : IsName(e.name, {})
<1>1. /\ \A r \in Section.proxy \cup Section.bypass : IsRule(r)
      /\ \A f \in Section.geosite : NamesSites(f)
  <2>1. CASE setup.file = "ok"
    <3>1. Section = setup.section
      BY <2>1 DEF Section
    <3>2. /\ \A r \in setup.section.proxy \cup setup.section.bypass : IsRule(r)
          /\ \A f \in setup.section.geosite : NamesSites(f)
      BY <2>1, NamesAssumption, Zenon DEF IsRule
    <3> QED
      BY <3>1, <3>2, Zenon
  <2>2. CASE setup.file # "ok"
    BY <2>2 DEF Section, NoSection
  <2> QED
    BY <2>1, <2>2
<1>2. NamesSites(setup.disk.geosite)
  BY NamesAssumption, Zenon
<1>3. ASSUME NEW f \in SiteFiles, NEW e \in Entries(f, SiteTags) PROVE IsName(e.name, {})
  <2>1. NamesSites(f)
    BY <1>1, <1>2 DEF SiteFiles, Source
  <2>2. f.state = "ok" /\ SiteTags \subseteq DOMAIN f.entries
    BY SitesLoaded, Zenon DEF SiteFiles
  <2>3. PICK tag \in SiteTags : e \in f.entries[tag]
    BY DEF Entries
  <2> QED
    BY <2>1, <2>2, <2>3 DEF NamesSites
<1> QED
  BY <1>1, <1>3, Zenon

\* should_bypass decides as documented, for every name.
LEMMA RoutedRight ==
  ASSUME RulesInv, phase = "bind", NEW labels, IsName(labels, {}), NEW port \in DOMAIN Ports
  PROVE  ShouldBypass(rules, Name(labels), Ports[port]) = Direct(labels, port)
<1> DEFINE h == Lower(Name(labels))
           n == Ports[port]
<1>1. /\ setup \in Setups
      /\ rules.proxy = {Parse(Written(r)) : r \in Section.proxy}
      /\ rules.bypass = {Parse(Written(r)) : r \in Section.bypass}
      /\ rules.geosite = {SitesOf(Entries(f, SiteTags)) : f \in SiteFiles}
      /\ rules.cidrs = UNION {RangesOf(Entries(f, IpTags)) : f \in IpFiles}
  BY DEF RulesInv
<1>2. /\ \A r \in Section.proxy \cup Section.bypass : IsRule(r)
      /\ \A f \in SiteFiles : \A e \in Entries(f, SiteTags) : IsName(e.name, {})
  BY <1>1, RulesNamed, Zenon
<1>3. \A r \in Section.proxy \cup Section.bypass :
        Matches(Parse(Written(r)), h, n) <=> Covers(r, labels, port)
  BY <1>2, PatternMatches
<1>4. \A f \in SiteFiles :
        MatchesGeosite(SitesOf(Entries(f, SiteTags)), h)
          <=> \E e \in Entries(f, SiteTags) : SiteCovers(e, labels)
  BY <1>2, GeositeMatches, Zenon
<1>5. Name(labels) \in CharSeq
  <2>1. "." \notin {}
    OBVIOUS
  <2> QED
    BY <2>1, NameText, Zenon
<1>6. \A f \in IpFiles :
        (h \in DOMAIN Literals /\ Literals[h] \in RangesOf(Entries(f, IpTags)))
          <=> \E c \in Entries(f, IpTags) : IpCovers(c, Name(labels))
  BY <1>5, GeoipMatches, Zenon
<1> HIDE DEF h, n
<1>7. (\E p \in rules.proxy : Matches(p, h, n)) <=> \E r \in Section.proxy : Covers(r, labels, port)
  BY <1>1, <1>3, Zenon
<1>8. (\E p \in rules.bypass : Matches(p, h, n)) <=> \E r \in Section.bypass : Covers(r, labels, port)
  BY <1>1, <1>3, Zenon
<1>9. (\E m \in rules.geosite : MatchesGeosite(m, h)) <=>
        \E f \in SiteFiles : \E e \in Entries(f, SiteTags) : SiteCovers(e, labels)
  BY <1>1, <1>4, Zenon
<1>10. (h \in DOMAIN Literals /\ Literals[h] \in rules.cidrs) <=>
         \E f \in IpFiles : \E c \in Entries(f, IpTags) : IpCovers(c, Name(labels))
  <2>1. Literals[h] \in rules.cidrs <=> \E f \in IpFiles : Literals[h] \in RangesOf(Entries(f, IpTags))
    BY <1>1, Zenon
  <2> QED
    BY <1>6, <2>1, Zenon
<1>11. (\E f \in SiteFiles : \E e \in Entries(f, SiteTags) : SiteCovers(e, labels)) <=>
         \E f \in Source(Section.geosite, setup.disk.geosite) :
           LoadGeosite(f, SiteTags).ok /\ \E s \in Entries(f, SiteTags) : SiteCovers(s, labels)
  BY Zenon DEF SiteFiles
<1>12. (\E f \in IpFiles : \E c \in Entries(f, IpTags) : IpCovers(c, Name(labels))) <=>
         \E f \in Source(Section.geoip, setup.disk.geoip) :
           LoadGeoip(f, IpTags).ok /\ \E c \in Entries(f, IpTags) : IpCovers(c, Name(labels))
  BY Zenon DEF IpFiles
<1>13. ShouldBypass(rules, Name(labels), n) <=>
         /\ ~\E p \in rules.proxy : Matches(p, h, n)
         /\ \/ \E p \in rules.bypass : Matches(p, h, n)
            \/ \E m \in rules.geosite : MatchesGeosite(m, h)
            \/ h \in DOMAIN Literals /\ Literals[h] \in rules.cidrs
  BY Zenon DEF ShouldBypass, h
<1>14. ShouldBypass(rules, Name(labels), n) <=> Direct(labels, port)
  BY <1>7, <1>8, <1>9, <1>10, <1>11, <1>12, <1>13, Zenon DEF Direct, SiteTags, IpTags
<1>15. ShouldBypass(rules, Name(labels), n) \in BOOLEAN /\ Direct(labels, port) \in BOOLEAN
  BY DEF ShouldBypass, Direct
<1>16. ShouldBypass(rules, Name(labels), n) = Direct(labels, port)
  BY <1>14, <1>15
<1> QED
  BY <1>16, Zenon DEF n

\* A name of one label is written as the label.
LEMMA NameOfOne ==
  ASSUME NEW t \in CharSeq, IsName(<<t>>, {})
  PROVE  Name(<<t>>) = t
<1> DEFINE labels == <<t>>
<1>1. labels \in Seq(CharSeq) /\ Len(labels) = 1 /\ labels[1] = t /\ 1 \in Nat \ {0} /\ 1 \in Nat
  OBVIOUS
<1> HIDE DEF labels
<1>2. PICK f : Unrolled(f, labels, 1)
  <2>1. \A i \in 1..1 : labels[i] \in CharSeq
    BY <1>1
  <2> QED
    BY <1>1, <2>1, UnrolledExists, Zenon
<1>3. Dotted(labels) = f[1]
  BY <1>1, <1>2, DottedIs
<1>4. f[1] = <<>> \o (<<".">> \o t)
  <2>1. 1 \in 1..1 /\ 1 - 1 = 0
    OBVIOUS
  <2> QED
    BY <1>1, <1>2, <2>1 DEF Unrolled
<1>5. <<>> \o (<<".">> \o t) = <<".">> \o t
  <2>1. <<".">> \o t \in CharSeq
    BY DotText, Zenon
  <2> QED
    BY <2>1, ConcatEmptySeq DEF CharSeq
<1>6. Tail(<<".">> \o t) = t
  BY DotTail, Zenon
<1>7. Name(labels) = Tail(Dotted(labels))
  BY Zenon DEF Name, Dotted
<1> QED
  BY <1>3, <1>4, <1>5, <1>6, <1>7, Zenon DEF labels

\* The names the rules are tried on: no brackets, and a colon only in an IPv6
\* literal.
LEMMA NamesTried ==
  ASSUME NEW labels \in Names
  PROVE  /\ IsName(labels, {}) /\ Name(labels) \in CharSeq /\ Without(Name(labels), Brackets)
         /\ Without(Name(labels), {":"})
            \/ (Name(labels) \in DOMAIN Literals /\ Literals[Name(labels)].v = 6)
<1> DEFINE C == {":", "[", "]"}
<1>1. CASE labels \in UNION {[1..k -> Labels] : k \in 1..3}
  <2>1. PICK k \in 1..3 : labels \in [1..k -> Labels]
    BY <1>1
  <2>2. \A l \in Labels : l \in Seq(Char) /\ Without(l, {"."} \cup C)
    <3>1. "a" \in Char /\ "A" \in Char /\ "b" \in Char
      BY DEF Char
    <3>2. <<"a">> \in Seq(Char) /\ <<"A">> \in Seq(Char) /\ <<"b", "a">> \in Seq(Char)
      BY <3>1
    <3>3. /\ Without(<<"a">>, {"."} \cup C) /\ Without(<<"A">>, {"."} \cup C)
          /\ Without(<<"b", "a">>, {"."} \cup C)
      BY DEF Without
    <3> QED
      BY <3>2, <3>3, Zenon DEF Labels
  <2>3. labels \in Seq(Seq(Char)) /\ Len(labels) = k /\ labels # <<>>
    <3>1. labels \in [1..k -> Seq(Char)] /\ k \in Nat /\ k # 0
      BY <2>1, <2>2
    <3>2. labels \in Seq(Seq(Char)) /\ Len(labels) = k
      BY <3>1, IsASeq
    <3> QED
      BY <3>1, <3>2
  <2>4. \A i \in 1..k : Without(labels[i], {"."} \cup C)
    BY <2>1, <2>2
  <2>5. IsName(labels, C)
    BY <2>3, <2>4, Zenon DEF IsName
  <2>6. IsName(labels, {})
    BY <2>5, Zenon DEF IsName, Without
  <2>7. "." \notin C
    OBVIOUS
  <2> HIDE DEF C
  <2>8. Name(labels) \in CharSeq /\ Without(Name(labels), C)
    BY <2>5, <2>7, NameText, Zenon
  <2>9. Without(Name(labels), {":"}) /\ Without(Name(labels), Brackets)
    BY <2>8 DEF Without, C, Brackets
  <2> QED
    BY <2>6, <2>8, <2>9, Zenon
<1>2. CASE labels \notin UNION {[1..k -> Labels] : k \in 1..3}
  <2>1. PICK t \in DOMAIN Literals : labels = <<t>>
    BY <1>2, Zenon DEF Names
  <2>2. t \in CharSeq /\ Without(t, Brackets)
    BY LiteralTexts, Zenon
  <2>3. t \in {<<"10.0.0.1">>, <<"127.0.0.1">>, <<"9.9.9.9">>, <<":", ":", "1">>, <<"2", ":", ":", "1">>}
    BY DEF Literals
  <2>4. Without(t, {"."}) /\ (Without(t, {":"}) \/ Literals[t].v = 6)
    <3>1. CASE t \in {<<"10.0.0.1">>, <<"127.0.0.1">>, <<"9.9.9.9">>}
      <4>1. PICK x \in {"10.0.0.1", "127.0.0.1", "9.9.9.9"} : t = <<x>>
        BY <3>1
      <4> QED
        BY <4>1 DEF Without
    <3>2. CASE t = <<":", ":", "1">>
      <4>1. Without(t, {"."})
        BY <3>2 DEF Without
      <4>2. Literals[t].v = 6
        BY <3>2 DEF Literals
      <4> QED
        BY <4>1, <4>2
    <3>3. CASE t = <<"2", ":", ":", "1">>
      <4>1. Without(t, {"."})
        BY <3>3 DEF Without
      <4>2. Literals[t].v = 6
        BY <3>3 DEF Literals
      <4> QED
        BY <4>1, <4>2
    <3> QED
      BY <2>3, <3>1, <3>2, <3>3
  <2>5. IsName(labels, {})
    <3>1. <<t>> \in Seq(Seq(Char)) /\ <<t>> # <<>> /\ Len(<<t>>) = 1 /\ <<t>>[1] = t
      BY <2>2 DEF CharSeq
    <3>2. Without(t, {"."} \cup {})
      BY <2>4, Zenon DEF Without
    <3>3. \A i \in 1..1 : Without(<<t>>[i], {"."} \cup {})
      BY <3>1, <3>2
    <3> QED
      BY <2>1, <3>1, <3>3, Zenon DEF IsName
  <2>6. Name(labels) = t
    BY <2>1, <2>2, <2>5, NameOfOne, Zenon
  <2> QED
    BY <2>2, <2>4, <2>5, <2>6, Zenon
<1> QED
  BY <1>1, <1>2

\* Both front ends route every destination as documented, whatever rules and
\* rule files the client was started with.
THEOREM AlwaysRoutesAsDocumented == Spec => []RoutesAsDocumented
<1>1. Init => RulesInv
  BY DEF Init, RulesInv
<1>2. RulesInv => RoutesAsDocumented
  <2> SUFFICES ASSUME RulesInv, phase = "bind", NEW labels \in Names, NEW port \in PortSet
               PROVE  LET host == Name(labels)
                          viaSocks == SplitHostPort(SocksDest(host, port))
                          viaHttp == {HttpTarget(HttpDest(host \o <<":", port>>))} \cup
                                     {HttpTarget(HttpDest(host)) : p \in {port} \cap {"80"}}
                          v6 == host \in DOMAIN Literals /\ Literals[host].v = 6
                      IN \A target \in {viaSocks} \cup (IF v6 THEN {} ELSE viaHttp) :
                           ShouldBypass(rules, target.host, target.port) = Direct(labels, port)
    BY Zenon DEF RoutesAsDocumented
  <2> DEFINE host == Name(labels)
             target == [host |-> host, port |-> Ports[port]]
             v6 == host \in DOMAIN Literals /\ Literals[host].v = 6
  <2>1. port \in DOMAIN Ports
    BY DEF PortSet, Ports
  <2>2. /\ IsName(labels, {}) /\ host \in CharSeq /\ Without(host, Brackets)
        /\ Without(host, {":"}) \/ v6
    BY NamesTried, Zenon
  <2>3. ShouldBypass(rules, host, Ports[port]) = Direct(labels, port)
    BY <2>1, <2>2, RoutedRight, Zenon
  <2>4. SplitHostPort(SocksDest(host, port)) = target
    BY <2>1, <2>2, SocksReads, Zenon
  <2>5. HttpTarget(HttpDest(host \o <<":", port>>)) = target
    BY <2>1, <2>2, HttpReads, Zenon
  <2>6. ~v6 /\ port = "80" => HttpTarget(HttpDest(host)) = target
    BY <2>1, <2>2, HttpReads, Zenon
  <2> HIDE DEF host, v6
  <2>7. target.host = host /\ target.port = Ports[port]
    OBVIOUS
  <2> HIDE DEF target
  <2>8. ShouldBypass(rules, target.host, target.port) = Direct(labels, port)
    BY <2>3, <2>7, Zenon
  <2> QED
    BY <2>4, <2>5, <2>6, <2>8, Zenon DEF host, v6
<1> QED
  BY <1>1, <1>2, RulesStep, PTL DEF Spec

\* Names of any length and with any labels, with a port, through either front
\* end: not only the ones RoutesAsDocumented tries.
EveryNameRouted ==
  phase = "bind" =>
    \A labels : \A port \in DOMAIN Ports :
      IsName(labels, Brackets) =>
        LET host == Name(labels) IN
        \A target \in {SplitHostPort(SocksDest(host, port)), HttpTarget(HttpDest(host \o <<":", port>>))} :
          ShouldBypass(rules, target.host, target.port) = Direct(labels, port)

\* The direct path or the tunnel, as documented, for every name.
THEOREM EveryNameAlwaysRouted == Spec => []EveryNameRouted
<1>1. Init => RulesInv
  BY DEF Init, RulesInv
<1>2. RulesInv => EveryNameRouted
  <2> SUFFICES ASSUME RulesInv, phase = "bind", NEW labels, NEW port \in DOMAIN Ports,
                      IsName(labels, Brackets),
                      NEW target \in {SplitHostPort(SocksDest(Name(labels), port)),
                                      HttpTarget(HttpDest(Name(labels) \o <<":", port>>))}
               PROVE  ShouldBypass(rules, target.host, target.port) = Direct(labels, port)
    BY Zenon DEF EveryNameRouted
  <2> DEFINE host == Name(labels)
  <2>1. IsName(labels, {})
    BY Zenon DEF IsName, Without
  <2>2. "." \notin Brackets
    BY DEF Brackets
  <2>3. host \in CharSeq /\ Without(host, Brackets)
    BY <2>2, NameText, Zenon
  <2>4. ShouldBypass(rules, host, Ports[port]) = Direct(labels, port)
    BY <2>1, RoutedRight, Zenon
  <2>5. SplitHostPort(SocksDest(host, port)) = [host |-> host, port |-> Ports[port]]
    BY <2>3, SocksReads, Zenon
  <2>6. HttpTarget(HttpDest(host \o <<":", port>>)) = [host |-> host, port |-> Ports[port]]
    BY <2>3, HttpReads, Zenon
  <2>7. target = [host |-> host, port |-> Ports[port]]
    BY <2>5, <2>6, Zenon
  <2> HIDE DEF host
  <2>8. target.host = host /\ target.port = Ports[port]
    BY <2>7
  <2> QED
    BY <2>4, <2>8, Zenon
<1> QED
  BY <1>1, <1>2, RulesStep, PTL DEF Spec
=============================================================================
