------------------------- MODULE LocalConnectionProofs -------------------------
(***************************************************************************)
(* Proofs about LocalConnection, for all scripts of the applications, all  *)
(* sizes of the buffer and all limits.                                     *)
(***************************************************************************)
EXTENDS LocalConnection, Extremes, SequenceTheorems, TLAPS

-----------------------------------------------------------------------------
(* What the header says, up to a line.                                     *)

\* The first k lines do not end the header.
NoBlank(k) == \A i \in 1..k : script[i].kind # "blank"

\* A script is a sequence of items.
ScriptOK == script \in Seq(Item)

\* Each item has its parts.
LEMMA ItemAt ==
  ASSUME ScriptOK, NEW i \in 1..Len(script)
  PROVE  script[i] \in Item /\ script[i].n \in Nat
<1>1. script[i] \in Item
  <2> USE DEF ScriptOK
  <2> HIDE DEF Item
  <2> QED
    OBVIOUS
<1>2. \A x \in Item : x.n \in Nat
  BY DEF Item
<1> QED
  BY <1>1, <1>2

\* Among no lines nothing is stated.
LEMMA StatedNothing == \A kind : StatedIn(kind, 0) = 0
  BY DEF StatedIn

\* A line of the kind replaces what was stated before, another one does not.
LEMMA StatedNext ==
  ASSUME NEW k \in Nat, NEW kind
  PROVE  StatedIn(kind, k + 1) = IF script[k + 1].kind = kind THEN script[k + 1].n
                                 ELSE StatedIn(kind, k)
<1> DEFINE at(j) == {i \in 1..j : script[i].kind = kind}
<1>1. CASE script[k + 1].kind = kind
  <2>1. k + 1 \in at(k + 1) /\ at(k + 1) \in SUBSET Nat
    BY <1>1
  <2>2. \A n \in at(k + 1) : k + 1 >= n
    OBVIOUS
  <2>3. Max(at(k + 1)) = k + 1
    <3> HIDE DEF at
    <3> QED
      BY <2>1, <2>2, MaxIs
  <2> QED
    BY <1>1, <2>1, <2>3, Zenon DEF StatedIn
<1>2. CASE script[k + 1].kind # kind
  <2>1. at(k + 1) = at(k)
    BY <1>2
  <2> QED
    BY <1>2, <2>1, Zenon DEF StatedIn
<1> QED
  BY <1>1, <1>2

\* What is stated is a number.
LEMMA StatedNat ==
  ASSUME ScriptOK, NEW k \in 0..Len(script), NEW kind
  PROVE  StatedIn(kind, k) \in Nat
<1> DEFINE at == {i \in 1..k : script[i].kind = kind}
<1>1. CASE at = {}
  BY <1>1 DEF StatedIn
<1>2. CASE at # {}
  <2>1. k \in Nat /\ at \in SUBSET (1..k)
    BY DEF ScriptOK
  <2>2. Max(at) \in at
    <3> HIDE DEF at
    <3> QED
      BY <1>2, <2>1, MaxIn
  <2>3. Max(at) \in 1..Len(script)
    BY <2>2 DEF ScriptOK
  <2>4. script[Max(at)].n \in Nat
    <3> HIDE DEF at
    <3> QED
      BY <2>3, ItemAt
  <2> QED
    BY <1>2, <2>4, Zenon DEF StatedIn
<1> QED
  BY <1>1, <1>2

\* What the whole header states.
LEMMA StatedAll == \A kind : Stated(kind) = StatedIn(kind, HeaderEnd)
  BY DEF Stated

\* A blank line behind lines that are not ends the header.
LEMMA HeaderEndIs ==
  ASSUME ScriptOK, NEW k \in Nat, NoBlank(k), k + 1 <= Len(script),
         script[k + 1].kind = "blank"
  PROVE  HeaderEnd = k + 1
<1> DEFINE S == {i \in DOMAIN script : script[i].kind = "blank"}
<1>1. DOMAIN script = 1..Len(script)
  BY DEF ScriptOK
<1>2. S \in SUBSET Nat /\ k + 1 \in S
  BY <1>1 DEF ScriptOK
<1>3. ASSUME NEW n \in S PROVE k + 1 <= n
  BY <1>1 DEF NoBlank, ScriptOK
<1>4. Min(S) = k + 1
  <2> HIDE DEF S
  <2> QED
    BY <1>2, <1>3, MinIs
<1> QED
  BY <1>4 DEF HeaderEnd

\* A script with a blank line has a header, and no line before its end is blank.
LEMMA HeaderEndIn ==
  ASSUME ScriptOK, NEW b \in 1..Len(script), script[b].kind = "blank"
  PROVE  /\ HeaderEnd \in 1..Len(script)
         /\ script[HeaderEnd].kind = "blank"
<1> DEFINE S == {i \in DOMAIN script : script[i].kind = "blank"}
<1>1. DOMAIN script = 1..Len(script)
  BY DEF ScriptOK
<1>2. S \in SUBSET Nat /\ b \in S
  BY <1>1 DEF ScriptOK
<1>3. PICK m \in S : \A n \in S : m <= n
  <2> HIDE DEF S
  <2> QED
    BY <1>2, MinExists
<1>4. Min(S) = m
  <2> HIDE DEF S
  <2> QED
    BY <1>2, <1>3, MinIs
<1> QED
  BY <1>1, <1>4 DEF HeaderEnd

-----------------------------------------------------------------------------
(* Pieces of what an application sent.                                     *)

\* A piece that ends before it begins is empty.
LEMMA ItemsEmpty ==
  ASSUME NEW a \in Int, NEW b \in Int, b < a
  PROVE  Items(a, b) = <<>>
<1>1. 1..(b - a + 1) = {}
  OBVIOUS
<1> QED
  BY <1>1 DEF Items

\* The length of a piece, and its place in the script.
LEMMA ItemsSeq ==
  ASSUME NEW a \in Nat \ {0}, NEW b \in Nat, a - 1 <= b, NEW n \in Nat, b <= n
  PROVE  Items(a, b) \in Seq(1..n) /\ Len(Items(a, b)) = b - a + 1
<1>1. PICK k \in Nat : k = b - a + 1
  OBVIOUS
<1>2. Items(a, b) = [i \in 1..k |-> a + i - 1]
  BY <1>1 DEF Items
<1>3. \A i \in 1..k : a + i - 1 \in 1..n
  BY <1>1
<1>4. [i \in 1..k |-> a + i - 1] \in Seq(1..n) /\ Len([i \in 1..k |-> a + i - 1]) = k
  BY <1>3
<1> QED
  BY <1>1, <1>2, <1>4

\* A piece and the one that follows it make one piece.
LEMMA ItemsJoin ==
  ASSUME NEW a \in Nat \ {0}, NEW b \in Nat, a - 1 <= b, NEW c \in Nat, b <= c
  PROVE  Items(a, b) \o Items(b + 1, c) = Items(a, c)
<1>1. PICK k \in Nat : k = b - a + 1
  OBVIOUS
<1>2. PICK m \in Nat : m = c - b
  OBVIOUS
<1>3. Items(a, b) = [i \in 1..k |-> a + i - 1]
  BY <1>1 DEF Items
<1>4. Items(b + 1, c) = [i \in 1..m |-> b + i]
  <2>1. c - (b + 1) + 1 = m
    BY <1>2
  <2>2. Items(b + 1, c) = [i \in 1..m |-> b + 1 + i - 1]
    BY <2>1, Zenon DEF Items
  <2>3. \A i \in 1..m : b + 1 + i - 1 = b + i
    OBVIOUS
  <2> QED
    BY <2>2, <2>3
<1>5. Items(a, c) = [i \in 1..(k + m) |-> a + i - 1]
  <2>1. c - a + 1 = k + m
    BY <1>1, <1>2
  <2> QED
    BY <2>1 DEF Items
<1> DEFINE f == [i \in 1..k |-> a + i - 1]
           g == [i \in 1..m |-> b + i]
<1>6. f \in Seq(Nat) /\ Len(f) = k /\ g \in Seq(Nat) /\ Len(g) = m
  OBVIOUS
<1>7. /\ f \o g \in Seq(Nat) /\ Len(f \o g) = k + m
      /\ \A i \in 1..(k + m) : (f \o g)[i] = IF i <= k THEN f[i] ELSE g[i - k]
  <2> HIDE DEF f, g
  <2> QED
    BY <1>6, ConcatProperties
<1>8. ASSUME NEW i \in 1..(k + m)
      PROVE  (IF i <= k THEN f[i] ELSE g[i - k]) = a + i - 1
  <2>1. CASE i <= k
    BY <2>1
  <2>2. CASE ~(i <= k)
    <3>1. i - k \in 1..m
      BY <2>2
    <3>2. g[i - k] = b + (i - k)
      BY <3>1
    <3>3. b + (i - k) = a + i - 1
      BY <1>1
    <3> QED
      BY <2>2, <3>2, <3>3
  <2> QED
    BY <2>1, <2>2
<1>9. f \o g = [i \in 1..(k + m) |-> a + i - 1]
  <2>1. f \o g = [i \in 1..(k + m) |-> (f \o g)[i]]
    BY <1>7
  <2>2. \A i \in 1..(k + m) : (f \o g)[i] = a + i - 1
    <3> HIDE DEF f, g
    <3> QED
      BY <1>7, <1>8
  <2> HIDE DEF f, g
  <2> QED
    BY <2>1, <2>2, Zenon
<1> QED
  BY <1>3, <1>4, <1>5, <1>9

-----------------------------------------------------------------------------
(* The invariants.                                                         *)

\* Where the handler is tells what it has started.
StageInv ==
  /\ pc \in {"header", "body"} => listener = "http"
  /\ pc \in {"greet", "ask"} => listener = "socks"
  /\ pc \in {"header", "body", "greet", "ask", "route"} => route = "none" /\ upstream = "none"
  /\ pc = "connect" => route # "none" /\ upstream = "none"
  /\ pc = "reply" => upstream # "none"
  /\ upstream # "none" => route # "none" /\ req.host # 0
  /\ pc \notin {"relay", "done"} => up = "off"
  /\ pc = "relay" => up # "off"
  /\ up = "off" <=> down = "off"
  /\ up = "off" => fed = <<>>
  /\ up # "off" => upstream # "none"
  /\ pc = "body" => req.need > 0

\* What the application was told by then: success, failure, data.
Oks    == Told({"ok"})
Errs   == Told({"err", "refused"})
Chunks == Told({"data"})

HeardInv ==
  /\ pc \notin {"relay", "done"} => Oks = {} /\ Errs = {} /\ Chunks = {}
  /\ \A i, j \in Oks \cup Errs : i = j
  /\ Oks # {} \/ Chunks # {} => up # "off"
  /\ Errs # {} => pc = "done" /\ up = "off"
  /\ up # "off" /\ req.connect /\ app # "reset" => Oks # {}
  /\ req.connect => \A i \in Chunks : \E j \in Oks : j < i

\* The handler has a request: it is complete, or the application broke it off.
Asked == pc \in {"route", "connect", "reply", "relay"} \/ route # "none"

\* The header was read up to its end; need items of the body are to come.
Whole ==
  /\ HeaderEnd \in 1..used
  /\ req.host = Stated("host")
  /\ used + req.need = HeaderEnd + Stated("length")

\* The application closed before the header's end; all it sent was parsed.
Broken ==
  /\ app # "open" /\ used = wrote /\ NoBlank(wrote)
  /\ req.host = StatedIn("host", wrote)

\* What was parsed is what the script says so far.
HttpInv ==
  /\ pc = "header" => /\ req.lines = used /\ NoBlank(used)
                      /\ req.host = StatedIn("host", used)
                      /\ req.need = StatedIn("length", used)
  /\ pc = "body" => Broken \/ Whole
  /\ Asked => Broken \/ (Whole /\ req.need = 0)
  /\ req.lines = 0 => req.host = 0
  /\ req.lines > 0 => (req.connect <=> script[1].kind = "connect")

SocksInv ==
  /\ pc = "greet" => used = 0
  /\ pc = "ask" => used = 1
  /\ Asked => used = 2 /\ req.host = script[2].n /\ req.connect
  /\ up = "off" => taken = used

RequestInv == IF listener = "socks" THEN SocksInv ELSE HttpInv

LocalInv == TypeOK /\ StageInv /\ HeardInv /\ RequestInv

-----------------------------------------------------------------------------
(* Type correctness.                                                       *)

\* A well-typed state has a script.
LEMMA HasScript == ClientOK => ScriptOK
  BY ScriptAssumption DEF ClientOK, ScriptOK, IsSocks

\* The invariant says where the positions are as numbers.
LEMMA Counts ==
  ASSUME ClientOK, ParsingOK
  PROVE  /\ Len(script) \in Nat /\ wrote \in Nat /\ taken \in Nat /\ used \in Nat
         /\ used <= taken /\ taken <= wrote /\ wrote <= Len(script)
<1>1. Len(script) \in Nat
  BY HasScript, LenProperties DEF ScriptOK
<1> QED
  BY <1>1 DEF ClientOK, ParsingOK

\* The initial states are well typed and satisfy the invariants.
LEMMA LocalInvInit == Init => LocalInv
<1> SUFFICES ASSUME Init PROVE LocalInv
  OBVIOUS
<1> USE DEF Init
<1>1. ScriptOK /\ Len(script) \in Nat
  <2>1. ScriptOK
    BY ScriptAssumption DEF ScriptOK
  <2> QED
    BY <2>1, LenProperties DEF ScriptOK
<1>2. ClientOK
  BY <1>1 DEF ClientOK, IsSocks
<1>3. ParsingOK
  BY LimitAssumption DEF ParsingOK
<1>4. FarOK
  BY LimitAssumption DEF FarOK
<1>5. TypeOK
  BY <1>2, <1>3, <1>4 DEF TypeOK, TasksOK
<1>6. StageInv
  BY DEF StageInv
<1>7. HeardInv
  BY DEF HeardInv, Oks, Errs, Chunks, Told
<1>8. RequestInv
  <2>1. StatedIn("host", 0) = 0 /\ StatedIn("length", 0) = 0
    BY StatedNothing
  <2>2. NoBlank(0)
    BY DEF NoBlank
  <2> QED
    BY <2>1, <2>2 DEF RequestInv, SocksInv, HttpInv, Asked
<1> QED
  BY <1>5, <1>6, <1>7, <1>8 DEF LocalInv

\* The application is told one more thing, or is gone.
LEMMA TellTyped ==
  ASSUME heard \in Seq(Heard), NEW x \in Heard, Tell(x)
  PROVE  heard' \in Seq(Heard)
  BY AppendProperties DEF Tell

\* A line of the script that is parsed within the limits.
LEMMA ParsedTyped ==
  ASSUME ClientOK, ParsingOK, used < Len(script), ~OverLimit
  PROVE  Parsed(Incoming) \in [connect : BOOLEAN, host : Nat, need : 0..MaxBody, lines : 0..MaxHeader]
<1> DEFINE i == Incoming
<1>1. i \in Item /\ i.n \in Nat
  <2>1. used + 1 \in 1..Len(script)
    BY Counts
  <2> QED
    BY <2>1, ItemAt, HasScript DEF Incoming
<1>2. req.lines + 1 \in 0..MaxHeader
  BY LimitAssumption DEF OverLimit, ParsingOK
<1>3. i.kind = "length" => i.n \in 0..MaxBody
  BY <1>1, LimitAssumption DEF OverLimit
<1> HIDE DEF i
<1>4. (i.kind = "connect") \in BOOLEAN
  OBVIOUS
<1>5. Parsed(i) \in [connect : BOOLEAN, host : Nat, need : 0..MaxBody, lines : 0..MaxHeader]
  BY <1>1, <1>2, <1>3, <1>4 DEF Parsed, ParsingOK
<1> QED
  BY <1>5 DEF i

\* Each step of the HTTP and SOCKS5 front ends keeps the state well typed.
LEMMA FrontEndTyped ==
  ASSUME TypeOK, StageInv, FrontEnd
  PROVE  TypeOK'
<1>0. /\ Len(script) \in Nat /\ wrote \in Nat /\ taken \in Nat /\ used \in Nat
      /\ used <= taken /\ taken <= wrote /\ wrote <= Len(script)
  BY Counts DEF TypeOK
<1>1. ASSUME UNCHANGED <<client, far, tasks>>, ParsingOK', up = "off",
             pc' \in {"header", "body", "greet", "ask", "route", "done"}, heard' \in Seq(Heard)
      PROVE  TypeOK'
  BY <1>1 DEF TypeOK, ClientOK, FarOK, TasksOK, IsSocks, client, far, tasks
<1>a. up = "off"
  BY DEF StageInv, FrontEnd, Fill, ReadLine, HeaderEnds, ReadBody, BodyFails, Greet, AskConnect,
         SocksFails
<1>2. CASE Fill
  <2>1. ParsingOK'
    <3>1. PICK k \in 1..Min({BufCap, wrote - taken}) : taken' = taken + k
      BY <1>2 DEF Fill
    <3>2. wrote - taken \in Nat /\ BufCap \in Nat
      BY <1>0, LimitAssumption
    <3>3. k \in Nat /\ k <= BufCap /\ k <= wrote - taken
      BY <3>2, MinOfTwo
    <3>4. used = taken
      BY <1>0, <1>2 DEF Fill, Buffered
    <3> QED
      BY <1>0, <1>2, <3>1, <3>3, <3>4, LimitAssumption DEF Fill, TypeOK, ParsingOK, client, tasks
  <2> QED
    BY <1>1, <1>a, <1>2, <2>1 DEF Fill, TypeOK
<1>3. CASE ReadLine
  <2>1. used < taken
    BY <1>3 DEF ReadLine, Buffered
  <2>2. req' \in [connect : BOOLEAN, host : Nat, need : 0..MaxBody, lines : 0..MaxHeader]
    <3>1. CASE OverLimit
      BY <1>3, <3>1 DEF ReadLine, TypeOK, ParsingOK
    <3>2. CASE ~OverLimit
      <4>1. req' = Parsed(Incoming)
        BY <1>3, <3>2 DEF ReadLine
      <4> QED
        BY <1>0, <2>1, <3>2, <4>1, ParsedTyped DEF TypeOK
    <3> QED
      BY <3>1, <3>2
  <2>3. ParsingOK'
    BY <1>0, <1>3, <2>1, <2>2, LimitAssumption DEF ReadLine, TypeOK, ParsingOK, client, tasks
  <2>4. pc' \in {"header", "body", "route", "done"}
    BY <1>3 DEF ReadLine, Return
  <2> QED
    BY <1>1, <1>a, <1>3, <2>3, <2>4 DEF ReadLine, TypeOK
<1>4. CASE HeaderEnds
  BY <1>1, <1>a, <1>4 DEF HeaderEnds, Return, TypeOK, ParsingOK, parsing, client, tasks
<1>5. CASE ReadBody
  <2>1. used' = used + 1 /\ ((used < taken /\ taken' = taken) \/ (used = taken /\ taken < wrote /\ taken' = taken + 1))
    BY <1>0, <1>5 DEF ReadBody, Buffered, Available
  <2>2. req' \in [connect : BOOLEAN, host : Nat, need : 0..MaxBody, lines : 0..MaxHeader]
    BY <1>5, LimitAssumption DEF ReadBody, StageInv, TypeOK, ParsingOK
  <2>3. ParsingOK'
    <3>1. wrote' = wrote /\ up' = up
      BY <1>5 DEF ReadBody, client, tasks
    <3>2. taken' \in 0..wrote /\ used' \in 0..taken'
      BY <1>0, <2>1
    <3>3. taken - used <= BufCap \/ up # "off"
      BY DEF TypeOK, ParsingOK
    <3>4. taken' - used' <= BufCap \/ up # "off"
      <4>1. CASE used < taken /\ taken' = taken
        BY <1>0, <2>1, <3>3, <4>1, LimitAssumption
      <4>2. CASE used = taken /\ taken' = taken + 1
        BY <1>0, <2>1, <4>2, LimitAssumption
      <4> QED
        BY <2>1, <4>1, <4>2
    <3> QED
      BY <2>2, <3>1, <3>2, <3>4 DEF ParsingOK
  <2>4. pc' \in {"body", "route"}
    BY <1>5 DEF ReadBody
  <2> QED
    BY <1>1, <1>a, <1>5, <2>3, <2>4 DEF ReadBody, TypeOK
<1>6. CASE BodyFails
  BY <1>1, <1>a, <1>6 DEF BodyFails, Return, TypeOK, ParsingOK, parsing, client, tasks
<1>7. ASSUME ReadMessage PROVE /\ taken' \in 0..wrote /\ used' \in 0..taken'
                               /\ taken' - used' = taken - used
  BY <1>0, <1>7 DEF ReadMessage, Available
<1>8. CASE Greet
  <2>1. ParsingOK'
    BY <1>7, <1>8 DEF Greet, TypeOK, ParsingOK, client, tasks
  <2>2. heard' \in Seq(Heard)
    BY <1>8, TellTyped DEF Greet, TypeOK, Heard
  <2>3. pc' \in {"ask", "done"}
    BY <1>8 DEF Greet, Return
  <2> QED
    BY <1>1, <1>a, <1>8, <2>1, <2>2, <2>3 DEF Greet
<1>9. CASE AskConnect
  <2>1. req' \in [connect : BOOLEAN, host : Nat, need : 0..MaxBody, lines : 0..MaxHeader]
    <3>1. CASE Incoming.kind = "request"
      <4>1. Incoming.n \in Nat
        <5>1. used + 1 \in 1..Len(script)
          BY <1>0, <1>9 DEF AskConnect, ReadMessage, Available
        <5> QED
          BY <5>1, ItemAt, HasScript DEF Incoming, TypeOK
      <4>2. req' = [req EXCEPT !.connect = TRUE, !.host = Incoming.n]
        BY <1>9, <3>1 DEF AskConnect
      <4> QED
        BY <4>1, <4>2 DEF TypeOK, ParsingOK
    <3>2. CASE Incoming.kind # "request"
      BY <1>9, <3>2 DEF AskConnect, TypeOK, ParsingOK
    <3> QED
      BY <3>1, <3>2
  <2>2. ParsingOK'
    BY <1>7, <1>9, <2>1 DEF AskConnect, TypeOK, ParsingOK, client, tasks
  <2>3. heard' \in Seq(Heard)
    BY <1>9, TellTyped DEF AskConnect, TypeOK, Heard
  <2>4. pc' \in {"route", "done"}
    BY <1>9 DEF AskConnect, Return
  <2> QED
    BY <1>1, <1>a, <1>9, <2>2, <2>3, <2>4 DEF AskConnect
<1>10. CASE SocksFails
  BY <1>1, <1>a, <1>10 DEF SocksFails, Return, TypeOK, ParsingOK, parsing, client, tasks
<1> QED
  BY <1>2, <1>3, <1>4, <1>5, <1>6, <1>8, <1>9, <1>10 DEF FrontEnd

\* The choice of the route, the connection and the answer keep it so.
LEMMA AnswerTyped ==
  ASSUME TypeOK, Decide \/ Connected \/ NotConnected \/ Answer \/ ForwardRequest
  PROVE  TypeOK'
<1>0. /\ Len(script) \in Nat /\ wrote \in Nat /\ taken \in Nat /\ used \in Nat
      /\ used <= taken /\ taken <= wrote /\ wrote <= Len(script)
  BY Counts DEF TypeOK
<1>1. ASSUME UNCHANGED <<client, parsing>>, UNCHANGED tasks \/ (up' = "on" /\ down' = "on" /\ chunk' = 0)
      PROVE  ClientOK' /\ ParsingOK' /\ TasksOK'
  BY <1>1 DEF TypeOK, ClientOK, ParsingOK, TasksOK, IsSocks, client, parsing, tasks
<1>2. ASSUME NEW x \in Heard, Tell(x) PROVE heard' \in Seq(Heard)
  BY <1>2, TellTyped DEF TypeOK
<1>3. CASE Decide
  <2>1. ClientOK' /\ ParsingOK' /\ TasksOK'
    BY <1>1, <1>3 DEF Decide, tasks
  <2>2. FarOK' /\ pc' \in {"connect", "done"}
    BY <1>3 DEF Decide, TypeOK, FarOK, client, tasks, Return
  <2>3. heard' \in Seq(Heard)
    BY <1>2, <1>3 DEF Decide, TypeOK, Heard
  <2> QED
    BY <2>1, <2>2, <2>3 DEF TypeOK
<1>4. CASE Connected
  <2>1. ClientOK' /\ ParsingOK' /\ TasksOK'
    BY <1>1, <1>4 DEF Connected, tasks
  <2>2. FarOK' /\ pc' = "reply" /\ UNCHANGED heard
    BY <1>4 DEF Connected, TypeOK, FarOK, client, tasks
  <2> QED
    BY <2>1, <2>2 DEF TypeOK
<1>5. CASE NotConnected
  <2>1. ClientOK' /\ ParsingOK' /\ TasksOK'
    BY <1>1, <1>5 DEF NotConnected, tasks
  <2>2. FarOK' /\ pc' = "done"
    BY <1>5 DEF NotConnected, TypeOK, FarOK, client, far, tasks, Return
  <2>3. heard' \in Seq(Heard)
    BY <1>2, <1>5 DEF NotConnected, TypeOK, Heard
  <2> QED
    BY <2>1, <2>2, <2>3 DEF TypeOK
<1>6. CASE Answer
  <2>1. /\ pc' \in {"relay", "done"} /\ upstream' \in {upstream, "none"}
        /\ UNCHANGED tasks \/ (up' = "on" /\ down' = "on" /\ chunk' = 0)
    BY <1>6 DEF Answer, GiveUp, StartRelay, Return, tasks
  <2>2. ClientOK' /\ ParsingOK' /\ TasksOK'
    BY <1>1, <1>6, <2>1 DEF Answer
  <2>3. FarOK'
    BY <1>6, <2>1 DEF Answer, TypeOK, FarOK, client
  <2>4. heard' \in Seq(Heard)
    BY <1>2, <1>6 DEF Answer, Heard
  <2> QED
    BY <2>1, <2>2, <2>3, <2>4 DEF TypeOK
<1>7. CASE ForwardRequest
  <2>1. /\ pc' \in {"relay", "done"} /\ upstream' \in {upstream, "none"} /\ heard' = heard
        /\ UNCHANGED tasks \/ (up' = "on" /\ down' = "on" /\ chunk' = 0)
        /\ fed' = fed \/ fed' = Items(1, used)
    BY <1>7 DEF ForwardRequest, GiveUp, StartRelay, Return, tasks
  <2>2. ClientOK' /\ ParsingOK' /\ TasksOK'
    BY <1>1, <1>7, <2>1 DEF ForwardRequest
  <2>3. fed' \in Seq(1..Len(script))
    <3>1. Items(1, used) \in Seq(1..Len(script))
      BY <1>0, ItemsSeq
    <3> QED
      BY <2>1, <3>1 DEF TypeOK, FarOK
  <2>4. FarOK'
    BY <1>7, <2>1, <2>3 DEF ForwardRequest, TypeOK, FarOK, client
  <2> QED
    BY <2>1, <2>2, <2>4 DEF TypeOK
<1> QED
  BY <1>3, <1>4, <1>5, <1>6, <1>7

\* The relay tasks keep it so.
LEMMA RelayTyped ==
  ASSUME TypeOK, UpTask \/ DownTask
  PROVE  TypeOK'
<1>0. /\ Len(script) \in Nat /\ wrote \in Nat /\ taken \in Nat /\ used \in Nat
      /\ used <= taken /\ taken <= wrote /\ wrote <= Len(script)
  BY Counts DEF TypeOK
<1>1. CASE ReadUp
  <2>1. PICK k \in 1..(wrote - taken) : taken' = taken + k /\ chunk' = k
    BY <1>1 DEF ReadUp
  <2>2. ParsingOK'
    BY <1>0, <1>1, <2>1 DEF ReadUp, TypeOK, ParsingOK, client
  <2>3. TasksOK'
    BY <1>0, <1>1, <2>1 DEF ReadUp, TypeOK, TasksOK
  <2>4. ClientOK' /\ FarOK'
    BY <1>1 DEF ReadUp, TypeOK, ClientOK, FarOK, IsSocks, client, far
  <2> QED
    BY <1>1, <2>2, <2>3, <2>4 DEF ReadUp, TypeOK
<1>2. ASSUME UNCHANGED <<client, parsing>>, up # "off", up' # "off"
      PROVE  ClientOK' /\ ParsingOK'
  BY <1>2 DEF TypeOK, ClientOK, ParsingOK, IsSocks, client, parsing
<1>3. CASE WriteUp
  <2>1. chunk \in 1..(taken - used) /\ (fed' = fed \/ fed' = fed \o Items(taken - chunk + 1, taken))
    BY <1>3 DEF WriteUp, TypeOK, TasksOK
  <2>2. fed' \in Seq(1..Len(script))
    <3>1. fed \in Seq(1..Len(script))
      BY DEF TypeOK, FarOK
    <3>2. Items(taken - chunk + 1, taken) \in Seq(1..Len(script))
      <4>1. PICK a \in Nat \ {0} : a = taken - chunk + 1
        BY <1>0, <2>1
      <4>2. a - 1 <= taken /\ taken <= Len(script)
        BY <1>0, <2>1, <4>1
      <4>3. Items(a, taken) \in Seq(1..Len(script))
        BY <1>0, <4>2, ItemsSeq
      <4> QED
        BY <4>1, <4>3
    <3> QED
      BY <2>1, <3>1, <3>2, ConcatProperties
  <2>3. FarOK' /\ TasksOK'
    BY <1>3, <2>2 DEF WriteUp, TypeOK, FarOK, TasksOK, client
  <2>4. ClientOK' /\ ParsingOK'
    BY <1>2, <1>3 DEF WriteUp
  <2> QED
    BY <1>3, <2>3, <2>4 DEF WriteUp, TypeOK
<1>4. CASE UpEnds
  BY <1>2, <1>4 DEF UpEnds, TypeOK, FarOK, TasksOK, client, far
<1>5. CASE UpCloses
  BY <1>2, <1>5 DEF UpCloses, TypeOK, FarOK, TasksOK, client, far, Return
<1>6. ASSUME UNCHANGED <<client, parsing, far, up, chunk>>, down' \in {"on", "write", "ended"}
      PROVE  ClientOK' /\ ParsingOK' /\ FarOK' /\ TasksOK'
  BY <1>6 DEF TypeOK, ClientOK, ParsingOK, FarOK, TasksOK, IsSocks, client, parsing, far
<1>7. CASE ReadDown
  BY <1>6, <1>7 DEF ReadDown, TypeOK
<1>8. CASE WriteDown
  <2>1. heard' \in Seq(Heard)
    BY <1>8, AppendProperties DEF WriteDown, TypeOK, Heard
  <2> QED
    BY <1>6, <1>8, <2>1 DEF WriteDown, TypeOK
<1>9. CASE DownEnds
  BY <1>6, <1>9 DEF DownEnds, TypeOK
<1> QED
  BY <1>1, <1>3, <1>4, <1>5, <1>7, <1>8, <1>9 DEF UpTask, DownTask

\* The application, the destination and the session keep it so.
LEMMA EnvironmentTyped ==
  ASSUME TypeOK, Environment \/ UNCHANGED vars
  PROVE  TypeOK'
<1>0. /\ Len(script) \in Nat /\ wrote \in Nat /\ taken \in Nat /\ used \in Nat
      /\ used <= taken /\ taken <= wrote /\ wrote <= Len(script)
  BY Counts DEF TypeOK
<1>1. CASE Write
  <2>1. ClientOK' /\ FarOK'
    BY <1>0, <1>1 DEF Write, TypeOK, ClientOK, FarOK, TasksOK, IsSocks, far
  <2>2. ParsingOK'
    BY <1>0, <1>1 DEF Write, TypeOK, ParsingOK, parsing, tasks
  <2> QED
    BY <1>1, <2>1, <2>2 DEF Write, TypeOK, TasksOK, parsing, tasks
<1>2. CASE AppLeaves
  BY <1>2 DEF AppLeaves, TypeOK, ClientOK, ParsingOK, FarOK, TasksOK, IsSocks, parsing, far, tasks
<1>3. CASE Speak
  <2>1. FarOK'
    BY <1>3, LimitAssumption DEF Speak, TypeOK, FarOK, client
  <2> QED
    BY <1>3, <2>1 DEF Speak, TypeOK, ClientOK, ParsingOK, TasksOK, IsSocks, client, parsing, tasks
<1>4. CASE UpstreamLeaves
  BY <1>4 DEF UpstreamLeaves, TypeOK, ClientOK, ParsingOK, FarOK, TasksOK, IsSocks, client, parsing, tasks
<1>5. CASE SessionEnds
  BY <1>5 DEF SessionEnds, TypeOK, ClientOK, ParsingOK, FarOK, TasksOK, IsSocks, client, parsing, tasks
<1>6. CASE Stall
  BY <1>6 DEF Stall, TypeOK, ClientOK, ParsingOK, FarOK, TasksOK, IsSocks, parsing, far, tasks
<1>7. CASE UNCHANGED vars
  BY <1>7 DEF vars, TypeOK, ClientOK, ParsingOK, FarOK, TasksOK, IsSocks, client, parsing, far, tasks
<1> QED
  BY <1>1, <1>2, <1>3, <1>4, <1>5, <1>6, <1>7 DEF Environment

\* Every step keeps the state well typed.
LEMMA TypeStep ==
  ASSUME TypeOK, StageInv, [Next]_vars
  PROVE  TypeOK'
  BY FrontEndTyped, AnswerTyped, RelayTyped, EnvironmentTyped DEF Next, Handler

-----------------------------------------------------------------------------
(* The stages of the handler.                                              *)

\* Each step of the front ends keeps them.
LEMMA FrontEndStage ==
  ASSUME TypeOK, StageInv, FrontEnd
  PROVE  StageInv'
<1> USE DEF StageInv, client, far, tasks
<1>1. CASE Fill
  BY <1>1 DEF Fill
<1>2. CASE ReadLine
  <2>1. pc' = "body" => req'.need > 0
    <3>1. CASE OverLimit
      BY <1>2, <3>1 DEF ReadLine, Return
    <3>2. CASE ~OverLimit /\ Incoming.kind = "blank"
      <4>1. req' = Parsed(Incoming) /\ pc' = IF req.need > 0 THEN "body" ELSE "route"
        BY <1>2, <3>2 DEF ReadLine
      <4>2. req'.need = req.need
        BY <3>2, <4>1 DEF Parsed, TypeOK, ParsingOK
      <4> QED
        BY <4>1, <4>2
    <3>3. CASE ~OverLimit /\ Incoming.kind # "blank"
      BY <1>2, <3>3 DEF ReadLine
    <3> QED
      BY <3>1, <3>2, <3>3
  <2>2. pc = "header" /\ pc' \in {"header", "body", "route", "done"}
    BY <1>2 DEF ReadLine, Return
  <2> QED
    BY <1>2, <2>1, <2>2 DEF ReadLine
<1>3. CASE HeaderEnds
  BY <1>3 DEF HeaderEnds, Return, parsing
<1>4. CASE ReadBody
  <2>1. pc' = "body" => req'.need > 0
    BY <1>4, LimitAssumption DEF ReadBody, TypeOK, ParsingOK
  <2>2. pc = "body" /\ pc' \in {"body", "route"}
    BY <1>4 DEF ReadBody
  <2> QED
    BY <1>4, <2>1, <2>2 DEF ReadBody
<1>5. CASE BodyFails
  BY <1>5 DEF BodyFails, Return, parsing
<1>6. CASE Greet
  <2>1. pc = "greet" /\ pc' \in {"ask", "done"}
    BY <1>6 DEF Greet, Return
  <2> QED
    BY <1>6, <2>1 DEF Greet
<1>7. CASE AskConnect
  <2>1. pc = "ask" /\ pc' \in {"route", "done"}
    BY <1>7 DEF AskConnect, Return
  <2> QED
    BY <1>7, <2>1 DEF AskConnect
<1>8. CASE SocksFails
  BY <1>8 DEF SocksFails, Return, parsing
<1> QED
  BY <1>1, <1>2, <1>3, <1>4, <1>5, <1>6, <1>7, <1>8 DEF FrontEnd

\* So does every other step.
LEMMA StageStep ==
  ASSUME TypeOK, StageInv, [Next]_vars
  PROVE  StageInv'
<1> USE DEF StageInv, client, parsing, far, tasks
<1>1. CASE FrontEnd
  BY <1>1, FrontEndStage
<1>2. CASE Decide
  BY <1>2 DEF Decide, Return
<1>3. CASE Connected
  BY <1>3 DEF Connected
<1>4. CASE NotConnected
  BY <1>4 DEF NotConnected, Return
<1>5. CASE Answer
  BY <1>5 DEF Answer, GiveUp, StartRelay, Return
<1>6. CASE ForwardRequest
  BY <1>6 DEF ForwardRequest, GiveUp, StartRelay, Return
<1>7. CASE ReadUp
  BY <1>7 DEF ReadUp
<1>8. CASE WriteUp
  BY <1>8 DEF WriteUp
<1>9. CASE UpEnds
  BY <1>9 DEF UpEnds
<1>10. CASE UpCloses
  BY <1>10 DEF UpCloses, Return
<1>11. CASE ReadDown
  BY <1>11 DEF ReadDown
<1>12. CASE WriteDown
  BY <1>12 DEF WriteDown
<1>13. CASE DownEnds
  BY <1>13 DEF DownEnds
<1>14. CASE Write
  BY <1>14 DEF Write
<1>15. CASE AppLeaves
  BY <1>15 DEF AppLeaves
<1>16. CASE Speak
  BY <1>16 DEF Speak
<1>17. CASE UpstreamLeaves
  BY <1>17 DEF UpstreamLeaves
<1>18. CASE SessionEnds
  BY <1>18 DEF SessionEnds
<1>19. CASE Stall
  BY <1>19 DEF Stall
<1>20. CASE UNCHANGED vars
  BY <1>20 DEF vars
<1> QED
  BY <1>1, <1>2, <1>3, <1>4, <1>5, <1>6, <1>7, <1>8, <1>9, <1>10, <1>11, <1>12, <1>13, <1>14,
     <1>15, <1>16, <1>17, <1>18, <1>19, <1>20 DEF Next, Handler, UpTask, DownTask, Environment

-----------------------------------------------------------------------------
(* What the application is told.                                           *)

\* One more message adds its place.
LEMMA ToldAppend ==
  ASSUME heard \in Seq(Heard), NEW x \in Heard, heard' = Append(heard, x), NEW what
  PROVE  Told(what)' = IF x \in what THEN Told(what) \cup {Len(heard) + 1} ELSE Told(what)
<1>1. /\ heard' \in Seq(Heard) /\ Len(heard') = Len(heard) + 1 /\ Len(heard) \in Nat
      /\ \A i \in 1..Len(heard) : heard'[i] = heard[i]
      /\ heard'[Len(heard) + 1] = x
  BY AppendProperties, LenProperties
<1>2. DOMAIN heard = 1..Len(heard) /\ DOMAIN heard' = 1..(Len(heard) + 1)
  BY <1>1
<1>3. PICK n \in Nat : n = Len(heard)
  BY <1>1
<1>4. ASSUME NEW i
      PROVE  i \in Told(what)' <=> i \in Told(what) \/ (x \in what /\ i = n + 1)
  <2>1. i \in 1..(n + 1) <=> i \in 1..n \/ i = n + 1
    BY <1>3
  <2>2. n + 1 \notin 1..n
    OBVIOUS
  <2>3. i \in Told(what)' <=> i \in 1..(n + 1) /\ heard'[i] \in what
    BY <1>2, <1>3, Zenon DEF Told
  <2>4. i \in Told(what) <=> i \in 1..n /\ heard[i] \in what
    BY <1>2, <1>3, Zenon DEF Told
  <2>5. i \in 1..n => heard'[i] = heard[i]
    BY <1>1, <1>3, Zenon
  <2>6. i = n + 1 => heard'[i] = x
    BY <1>1, <1>3, Zenon
  <2> QED
    BY <2>1, <2>2, <2>3, <2>4, <2>5, <2>6, Zenon
<1>5. CASE x \in what
  BY <1>3, <1>4, <1>5, Zenon
<1>6. CASE x \notin what
  BY <1>4, <1>6, Zenon
<1> QED
  BY <1>5, <1>6, Zenon

\* What was told is at the places so far.
LEMMA ToldBefore ==
  ASSUME heard \in Seq(Heard), NEW what, NEW i \in Told(what)
  PROVE  i \in Nat /\ i < Len(heard) + 1
<1>1. DOMAIN heard = 1..Len(heard) /\ Len(heard) \in Nat
  BY LenProperties
<1> QED
  BY <1>1 DEF Told

\* A message counts for its kind.
LEMMA Hears ==
  ASSUME heard \in Seq(Heard), NEW x \in Heard, heard' = Append(heard, x)
  PROVE  /\ Oks' = IF x = "ok" THEN Oks \cup {Len(heard) + 1} ELSE Oks
         /\ Errs' = IF x \in {"err", "refused"} THEN Errs \cup {Len(heard) + 1} ELSE Errs
         /\ Chunks' = IF x = "data" THEN Chunks \cup {Len(heard) + 1} ELSE Chunks
<1>1. Oks' = IF x \in {"ok"} THEN Oks \cup {Len(heard) + 1} ELSE Oks
  BY ToldAppend, Zenon DEF Oks
<1>2. Errs' = IF x \in {"err", "refused"} THEN Errs \cup {Len(heard) + 1} ELSE Errs
  BY ToldAppend, Zenon DEF Errs
<1>3. Chunks' = IF x \in {"data"} THEN Chunks \cup {Len(heard) + 1} ELSE Chunks
  BY ToldAppend, Zenon DEF Chunks
<1> QED
  BY <1>1, <1>2, <1>3

\* Without a message nothing changes.
LEMMA HearsNothing == heard' = heard => Oks' = Oks /\ Errs' = Errs /\ Chunks' = Chunks
  BY DEF Oks, Errs, Chunks, Told

\* Each step of the front ends keeps the invariant.
LEMMA FrontEndHeard ==
  ASSUME TypeOK, StageInv, HeardInv, FrontEnd
  PROVE  HeardInv'
<1>0. pc \notin {"relay", "done"} /\ up = "off" /\ up' = "off"
  BY DEF StageInv, FrontEnd, Fill, ReadLine, HeaderEnds, ReadBody, BodyFails, Greet, AskConnect,
         SocksFails, tasks
<1>1. Oks = {} /\ Errs = {} /\ Chunks = {}
  BY <1>0 DEF HeardInv
<1>2. ASSUME Oks' = {}, Errs' = {}, Chunks' = {} PROVE HeardInv'
  BY <1>0, <1>2 DEF HeardInv
<1>3. ASSUME heard' = heard PROVE HeardInv'
  BY <1>1, <1>2, <1>3, HearsNothing
<1>4. ASSUME Tell("refused"), Return PROVE HeardInv'
  <2>1. CASE app = "reset"
    BY <1>3, <1>4, <2>1 DEF Tell
  <2>2. CASE app # "reset"
    <3>1. Oks' = {} /\ Chunks' = {} /\ Errs' = {Len(heard) + 1}
      BY <1>1, <1>4, <2>2, Hears DEF Tell, Heard, TypeOK
    <3> QED
      BY <1>0, <1>4, <3>1 DEF HeardInv, Return
  <2> QED
    BY <2>1, <2>2
<1>5. ASSUME Tell("method") PROVE HeardInv'
  <2>1. CASE app = "reset"
    BY <1>3, <1>5, <2>1 DEF Tell
  <2>2. CASE app # "reset"
    BY <1>1, <1>2, <1>5, <2>2, Hears DEF Tell, Heard, TypeOK
  <2> QED
    BY <2>1, <2>2
<1>6. CASE Fill \/ ReadLine \/ HeaderEnds \/ ReadBody \/ BodyFails \/ SocksFails
  BY <1>3, <1>6 DEF Fill, ReadLine, HeaderEnds, ReadBody, BodyFails, SocksFails
<1>7. CASE Greet
  BY <1>3, <1>4, <1>5, <1>7 DEF Greet
<1>8. CASE AskConnect
  BY <1>3, <1>4, <1>8 DEF AskConnect
<1> QED
  BY <1>6, <1>7, <1>8 DEF FrontEnd

\* So does every other step.
LEMMA HeardStep ==
  ASSUME TypeOK, StageInv, HeardInv, [Next]_vars
  PROVE  HeardInv'
<1>0. heard \in Seq(Heard)
  BY DEF TypeOK
<1>1. CASE FrontEnd
  BY <1>1, FrontEndHeard
<1>2. ASSUME heard' = heard, req' = req, UNCHANGED up, app' = app \/ app # "reset",
             pc' \in {pc, "done"} \/ (pc' \in {"connect", "reply"} /\ pc \in {"route", "connect"})
      PROVE  HeardInv'
  <2>1. Oks' = Oks /\ Errs' = Errs /\ Chunks' = Chunks
    BY <1>2, HearsNothing
  <2> HIDE DEF Oks, Errs, Chunks
  <2> QED
    BY <1>2, <2>1 DEF HeardInv
<1>3. ASSUME pc \in {"route", "connect"}, Tell("err"), Return, UNCHANGED <<up, req, app>>
      PROVE  HeardInv'
  <2>1. up = "off" /\ Oks = {} /\ Errs = {} /\ Chunks = {}
    BY <1>3 DEF StageInv, HeardInv
  <2>2. CASE app = "reset"
    BY <1>2, <1>3, <2>2 DEF Tell, Return
  <2>3. CASE app # "reset"
    <3>1. Oks' = {} /\ Chunks' = {} /\ Errs' = {Len(heard) + 1}
      BY <1>0, <1>3, <2>1, <2>3, Hears DEF Tell, Heard
    <3> QED
      BY <1>3, <2>1, <3>1 DEF HeardInv, Return
  <2> QED
    BY <2>2, <2>3
<1>4. CASE Decide
  <2>1. PICK r \in {"direct", "tunnel"} :
          IF r = "tunnel" /\ session = "lost"
          THEN Tell("err") /\ Return
          ELSE pc' = "connect" /\ UNCHANGED heard
    BY <1>4 DEF Decide
  <2>2. pc = "route" /\ UNCHANGED <<up, req, app>>
    BY <1>4 DEF Decide, client, parsing, tasks
  <2> QED
    BY <1>2, <1>3, <2>1, <2>2
<1>5. CASE Connected
  BY <1>2, <1>5 DEF Connected, client, parsing, tasks
<1>6. CASE NotConnected
  <2>1. pc = "connect" /\ UNCHANGED <<up, req, app>> /\ Return
    BY <1>6 DEF NotConnected, client, parsing, tasks
  <2>2. Tell("err") \/ UNCHANGED heard
    BY <1>6 DEF NotConnected
  <2> QED
    BY <1>2, <1>3, <2>1, <2>2 DEF Return
<1>7. CASE Answer
  <2>1. /\ up = "off" /\ Oks = {} /\ Errs = {} /\ Chunks = {}
    BY <1>7 DEF StageInv, HeardInv, Answer
  <2>2. CASE app = "reset"
    <3>1. app' = "reset" /\ Oks' = {} /\ Errs' = {} /\ Chunks' = {} /\ pc' \in {"relay", "done"}
      BY <1>7, <2>1, <2>2, HearsNothing DEF Answer, Tell, client, GiveUp, StartRelay, Return
    <3> QED
      BY <3>1 DEF HeardInv
  <2>3. CASE app # "reset"
    <3>1. up' = "on" /\ pc' = "relay"
      BY <1>7, <2>3 DEF Answer, StartRelay
    <3>2. Oks' = {Len(heard) + 1} /\ Errs' = {} /\ Chunks' = {}
      BY <1>0, <1>7, <2>1, <2>3, Hears DEF Answer, Tell, Heard
    <3> QED
      BY <3>1, <3>2 DEF HeardInv
  <2> QED
    BY <2>2, <2>3
<1>8. CASE ForwardRequest
  <2>1. ~req.connect /\ req' = req /\ pc' \in {"relay", "done"} /\ heard' = heard
    BY <1>8 DEF ForwardRequest, parsing, GiveUp, StartRelay, Return
  <2>2. Oks = {} /\ Errs = {} /\ Chunks = {}
    BY <1>8 DEF HeardInv, ForwardRequest
  <2>3. Oks' = {} /\ Errs' = {} /\ Chunks' = {}
    BY <2>1, <2>2, HearsNothing
  <2> QED
    BY <2>1, <2>3 DEF HeardInv
<1>9. CASE ReadUp \/ WriteUp \/ UpEnds \/ UpCloses
  <2>1. /\ heard' = heard /\ req' = req /\ up # "off" /\ up' # "off" /\ app' = app
        /\ pc' \in {pc, "done"}
    BY <1>9 DEF ReadUp, WriteUp, UpEnds, UpCloses, Return, client, parsing
  <2>2. Oks' = Oks /\ Errs' = Errs /\ Chunks' = Chunks
    BY <2>1, HearsNothing
  <2> QED
    BY <2>1, <2>2 DEF HeardInv
<1>10. CASE ReadDown
  BY <1>2, <1>10 DEF ReadDown, client, parsing
<1>11. CASE WriteDown
  <2>1. /\ up # "off" /\ up' = up /\ pc' = pc /\ req' = req /\ app' = app /\ app # "reset"
        /\ heard' = Append(heard, "data")
    BY <1>11 DEF WriteDown, StageInv, client, parsing, tasks
  <2>2. Oks' = Oks /\ Errs' = Errs /\ Chunks' = Chunks \cup {Len(heard) + 1}
    BY <1>0, <2>1, Hears DEF Heard
  <2>3. req.connect => \A i \in Chunks' : \E j \in Oks : j < i
    <3> SUFFICES ASSUME req.connect, NEW i \in Chunks' PROVE \E j \in Oks : j < i
      OBVIOUS
    <3>1. CASE i \in Chunks
      BY <3>1 DEF HeardInv
    <3>2. CASE i = Len(heard) + 1
      <4>1. PICK j \in Oks : TRUE
        BY <2>1 DEF HeardInv
      <4>2. j < Len(heard) + 1
        BY <1>0, ToldBefore DEF Oks
      <4> QED
        BY <3>2, <4>2
    <3> QED
      BY <2>2, <3>1, <3>2
  <2>4. pc \in {"relay", "done"}
    BY <2>1 DEF StageInv
  <2> QED
    BY <2>1, <2>2, <2>3, <2>4 DEF HeardInv
<1>12. CASE DownEnds
  BY <1>2, <1>12 DEF DownEnds, client, parsing
<1>13. CASE Write
  BY <1>2, <1>13 DEF Write, parsing, tasks
<1>14. CASE AppLeaves
  BY <1>2, <1>14 DEF AppLeaves, parsing, tasks
<1>15. CASE Speak
  BY <1>2, <1>15 DEF Speak, client, parsing, tasks
<1>16. CASE UpstreamLeaves
  BY <1>2, <1>16 DEF UpstreamLeaves, client, parsing, tasks
<1>17. CASE SessionEnds
  BY <1>2, <1>17 DEF SessionEnds, client, parsing, tasks
<1>18. CASE Stall
  BY <1>2, <1>18 DEF Stall, parsing, tasks
<1>19. CASE UNCHANGED vars
  BY <1>2, <1>19 DEF vars, client, parsing, tasks
<1> QED
  BY <1>1, <1>4, <1>5, <1>6, <1>7, <1>8, <1>9, <1>10, <1>11, <1>12, <1>13, <1>14, <1>15, <1>16,
     <1>17, <1>18, <1>19 DEF Next, Handler, UpTask, DownTask, Environment

-----------------------------------------------------------------------------
(* What was parsed.                                                        *)

\* What the header says depends on the script alone.
LEMMA ScriptOnly ==
  ASSUME script' = script
  PROVE  /\ HeaderEnd' = HeaderEnd
         /\ \A kind : Stated(kind)' = Stated(kind)
         /\ \A k : NoBlank(k)' <=> NoBlank(k)
         /\ \A kind, k : StatedIn(kind, k)' = StatedIn(kind, k)
  BY DEF HeaderEnd, Stated, NoBlank, StatedIn

\* A step that parses nothing and takes no request as complete.
ParsesNothing ==
  /\ UNCHANGED <<script, listener, used, req>>
  /\ app # "open" => app' # "open" /\ wrote' = wrote
  /\ pc' \in {"header", "body", "greet", "ask"} => pc' = pc
  /\ Asked' => Asked
  /\ up' = "off" /\ listener = "socks" => up = "off" /\ taken' = taken

\* Such a step keeps what is known of the request.
LEMMA ParsesNothingKeeps ==
  ASSUME RequestInv, ParsesNothing
  PROVE  RequestInv'
<1>1. CASE listener = "socks"
  BY <1>1 DEF RequestInv, ParsesNothing, SocksInv
<1>2. CASE listener # "socks"
  <2>1. HttpInv /\ listener' # "socks"
    BY <1>2 DEF RequestInv, ParsesNothing
  <2>2. script' = script /\ used' = used /\ req' = req
    BY DEF ParsesNothing
  <2>3. Whole => Whole'
    BY <2>2, ScriptOnly DEF Whole
  <2>4. Broken => Broken'
    <3> SUFFICES ASSUME Broken PROVE Broken'
      OBVIOUS
    <3>1. /\ app' # "open" /\ wrote' = wrote /\ used = wrote /\ NoBlank(wrote)
          /\ req.host = StatedIn("host", wrote)
      BY DEF Broken, ParsesNothing
    <3>2. \A i \in 1..wrote : script'[i].kind # "blank"
      BY <2>2, <3>1 DEF NoBlank
    <3>3. StatedIn("host", wrote)' = StatedIn("host", wrote)
      BY <2>2, <3>1 DEF StatedIn
    <3> QED
      BY <2>2, <3>1, <3>2, <3>3 DEF Broken, NoBlank
  <2>5. /\ pc' = "header" => pc = "header"
        /\ pc' = "body" => pc = "body"
        /\ Asked' => Asked
    BY DEF ParsesNothing
  <2>6. NoBlank(used) => NoBlank(used)'
    BY <2>2 DEF NoBlank
  <2>7. /\ StatedIn("host", used)' = StatedIn("host", used)
        /\ StatedIn("length", used)' = StatedIn("length", used)
    BY <2>2 DEF StatedIn
  <2>8. HttpInv'
    <3> HIDE DEF Asked, Whole, Broken
    <3> QED
      BY <2>1, <2>2, <2>3, <2>4, <2>5, <2>6, <2>7 DEF HttpInv
  <2> QED
    BY <2>1, <2>8 DEF RequestInv
<1> QED
  BY <1>1, <1>2

\* Every step but those that parse.
LEMMA QuietSteps ==
  ASSUME StageInv,
         \/ Fill \/ BodyFails \/ SocksFails
         \/ HeaderEnds /\ pc' = "done"
         \/ Decide \/ Connected \/ NotConnected \/ Answer \/ ForwardRequest
         \/ UpTask \/ DownTask \/ Environment \/ UNCHANGED vars
  PROVE  ParsesNothing
<1> USE DEF ParsesNothing, Asked, client, parsing, far, tasks
<1>1. CASE Fill
  BY <1>1 DEF Fill, StageInv
<1>2. CASE BodyFails
  BY <1>2 DEF BodyFails, Return
<1>3. CASE SocksFails
  BY <1>3 DEF SocksFails, Return
<1>4. CASE HeaderEnds /\ pc' = "done"
  BY <1>4 DEF HeaderEnds
<1>5. CASE Decide
  BY <1>5 DEF Decide, Return
<1>6. CASE Connected
  BY <1>6 DEF Connected
<1>7. CASE NotConnected
  BY <1>7 DEF NotConnected, Return
<1>8. CASE Answer
  BY <1>8 DEF Answer, GiveUp, StartRelay, Return
<1>9. CASE ForwardRequest
  BY <1>9 DEF ForwardRequest, GiveUp, StartRelay, Return
<1>10. CASE UpTask
  BY <1>10 DEF UpTask, ReadUp, WriteUp, UpEnds, UpCloses, Return, StageInv
<1>11. CASE DownTask
  BY <1>11 DEF DownTask, ReadDown, WriteDown, DownEnds
<1>12. CASE Environment
  BY <1>12 DEF Environment, Write, AppLeaves, Speak, UpstreamLeaves, SessionEnds, Stall
<1>13. CASE UNCHANGED vars
  BY <1>13 DEF vars
<1> QED
  BY <1>1, <1>2, <1>3, <1>4, <1>5, <1>6, <1>7, <1>8, <1>9, <1>10, <1>11, <1>12, <1>13

\* A line that is parsed.
LEMMA LineParsed ==
  ASSUME TypeOK, StageInv, RequestInv, ReadLine
  PROVE  RequestInv'
<1>0. /\ Len(script) \in Nat /\ wrote \in Nat /\ taken \in Nat /\ used \in Nat
      /\ used <= taken /\ taken <= wrote /\ wrote <= Len(script)
  BY Counts DEF TypeOK
<1>1. /\ pc = "header" /\ listener = "http" /\ listener' = "http" /\ script' = script
      /\ used' = used + 1 /\ used + 1 <= Len(script) /\ route' = "none"
  BY <1>0 DEF ReadLine, StageInv, Buffered, client, far
<1>2. /\ HttpInv /\ req.lines = used /\ NoBlank(used)
      /\ req.host = StatedIn("host", used) /\ req.need = StatedIn("length", used)
  BY <1>1 DEF RequestInv, HttpInv
<1>3. SUFFICES HttpInv'
  BY <1>1 DEF RequestInv
<1>4. CASE OverLimit
  <2>1. pc' = "done" /\ req' = req
    BY <1>4 DEF ReadLine, Return
  <2>2. ~Asked'
    BY <1>1, <2>1 DEF Asked
  <2> QED
    BY <1>1, <1>2, <2>1, <2>2 DEF HttpInv
<1>5. CASE ~OverLimit
  <2>1. /\ req' = Parsed(Incoming)
        /\ pc' = IF Incoming.kind # "blank" THEN "header" ELSE IF req.need > 0 THEN "body" ELSE "route"
    BY <1>5 DEF ReadLine
  <2> DEFINE i == script[used + 1]
  <2>2. i = Incoming
    BY DEF Incoming
  <2> HIDE DEF i
  <2>3. /\ req'.lines = used + 1
        /\ req'.connect = IF used = 0 THEN i.kind = "connect" ELSE req.connect
        /\ req'.host = IF i.kind = "host" THEN i.n ELSE req.host
        /\ req'.need = IF i.kind = "length" THEN i.n ELSE req.need
    BY <1>2, <2>1, <2>2 DEF Parsed, TypeOK, ParsingOK
  <2>4. /\ req'.host = StatedIn("host", used + 1)
        /\ req'.need = StatedIn("length", used + 1)
    BY <1>0, <1>2, <2>3, StatedNext DEF i
  <2>5. req'.lines # 0 /\ (req'.connect <=> script[1].kind = "connect")
    <3>1. CASE used = 0
      <4>1. used + 1 = 1
        BY <3>1
      <4>2. i = script[1]
        BY <4>1, Zenon DEF i
      <4>3. req'.lines # 0
        BY <2>3, <3>1
      <4>4. req'.connect = (script[1].kind = "connect")
        BY <2>3, <3>1, <4>2, Zenon
      <4> QED
        BY <4>3, <4>4, Zenon
    <3>2. CASE used # 0
      BY <1>0, <1>2, <2>3, <3>2 DEF HttpInv
    <3> QED
      BY <3>1, <3>2
  <2>6. CASE i.kind # "blank"
    <3>1. pc' = "header" /\ ~Asked'
      BY <1>1, <2>1, <2>2, <2>6 DEF Asked
    <3>2. NoBlank(used + 1)
      BY <1>0, <1>2, <2>6 DEF NoBlank, i
    <3>3. /\ NoBlank(used)'
          /\ StatedIn("host", used)' = StatedIn("host", used + 1)
          /\ StatedIn("length", used)' = StatedIn("length", used + 1)
      BY <1>1, <3>2 DEF NoBlank, StatedIn
    <3> QED
      BY <1>1, <2>3, <2>4, <2>5, <3>1, <3>3 DEF HttpInv
  <2>7. CASE i.kind = "blank"
    <3>1. HeaderEnd = used + 1
      BY <1>0, <1>1, <1>2, <2>7, HeaderEndIs, HasScript DEF i, TypeOK
    <3>2. Stated("host") = req'.host /\ Stated("length") = req'.need
      BY <2>4, <3>1, StatedAll
    <3>3. req'.need = req.need /\ req.need \in Nat
      BY <2>3, <2>7, LimitAssumption DEF TypeOK, ParsingOK
    <3>4. Whole'
      <4>1. HeaderEnd' = HeaderEnd /\ Stated("host")' = Stated("host") /\ Stated("length")' = Stated("length")
        BY <1>1, ScriptOnly
      <4>2. HeaderEnd \in 1..(used + 1)
        BY <1>0, <3>1
      <4> QED
        BY <1>1, <3>1, <3>2, <4>1, <4>2 DEF Whole
    <3>5. pc' = "body" \/ (pc' = "route" /\ req'.need = 0)
      BY <2>1, <2>2, <2>7, <3>3
    <3>6. pc' = "body" => ~Asked'
      BY <1>1 DEF Asked
    <3> QED
      BY <1>1, <2>5, <3>4, <3>5, <3>6 DEF HttpInv
  <2> QED
    BY <2>6, <2>7
<1> QED
  BY <1>4, <1>5

\* A header that the application breaks off.
LEMMA HeaderBroken ==
  ASSUME TypeOK, StageInv, RequestInv, HeaderEnds
  PROVE  RequestInv'
<1>0. /\ Len(script) \in Nat /\ wrote \in Nat /\ taken \in Nat /\ used \in Nat
      /\ used <= taken /\ taken <= wrote /\ wrote <= Len(script)
  BY Counts DEF TypeOK
<1>1. CASE pc' = "done"
  BY <1>1, QuietSteps, ParsesNothingKeeps
<1>2. CASE pc' # "done"
  <2>1. /\ pc = "header" /\ listener = "http" /\ listener' = "http" /\ script' = script
        /\ used' = used /\ req' = req /\ wrote' = wrote /\ app' = "eof" /\ used = wrote
        /\ pc' \in {"body", "route"}
    BY <1>0, <1>2 DEF HeaderEnds, Return, StageInv, Buffered, Available, client, parsing
  <2>2. HttpInv /\ NoBlank(wrote) /\ req.host = StatedIn("host", wrote)
    BY <2>1 DEF RequestInv, HttpInv
  <2>3. Broken'
    <3>1. StatedIn("host", wrote)' = StatedIn("host", wrote)
      BY <2>1 DEF StatedIn
    <3> QED
      BY <2>1, <2>2, <3>1 DEF Broken, NoBlank
  <2>4. HttpInv'
    BY <2>1, <2>2, <2>3 DEF HttpInv
  <2> QED
    BY <2>1, <2>4 DEF RequestInv
<1> QED
  BY <1>1, <1>2

\* An item of the body.
LEMMA BodyRead ==
  ASSUME TypeOK, StageInv, RequestInv, ReadBody
  PROVE  RequestInv'
<1>0. /\ Len(script) \in Nat /\ wrote \in Nat /\ taken \in Nat /\ used \in Nat
      /\ used <= taken /\ taken <= wrote /\ wrote <= Len(script)
  BY Counts DEF TypeOK
<1>1. /\ pc = "body" /\ listener = "http" /\ listener' = "http" /\ script' = script
      /\ used' = used + 1 /\ req' = [req EXCEPT !.need = @ - 1] /\ route' = "none"
      /\ pc' = IF req.need = 1 THEN "route" ELSE "body"
  BY DEF ReadBody, StageInv, client, far
<1>2. used # wrote
  BY <1>0 DEF ReadBody, Buffered, Available
<1>3. HttpInv /\ Whole
  BY <1>1, <1>2 DEF RequestInv, HttpInv, Broken
<1>4. /\ req.need \in Nat /\ req'.need = req.need - 1 /\ req'.host = req.host
      /\ req'.lines = req.lines /\ req'.connect = req.connect
  BY <1>1, LimitAssumption DEF TypeOK, ParsingOK
<1>5. Whole'
  <2>1. HeaderEnd' = HeaderEnd /\ Stated("host")' = Stated("host") /\ Stated("length")' = Stated("length")
    BY <1>1, ScriptOnly
  <2>2. HeaderEnd \in 1..(used + 1)
    BY <1>0, <1>3 DEF Whole
  <2>3. used' + req'.need = used + req.need
    BY <1>0, <1>1, <1>4
  <2> QED
    BY <1>1, <1>3, <1>4, <2>1, <2>2, <2>3 DEF Whole
<1>6. pc' = "route" => req'.need = 0
  BY <1>1, <1>4
<1>7. pc' = "body" => ~Asked'
  BY <1>1 DEF Asked
<1>8. HttpInv'
  BY <1>1, <1>3, <1>4, <1>5, <1>6, <1>7 DEF HttpInv
<1> QED
  BY <1>1, <1>8 DEF RequestInv

\* A message of the SOCKS5 handshake.
LEMMA MessageRead ==
  ASSUME TypeOK, StageInv, RequestInv, Greet \/ AskConnect
  PROVE  RequestInv'
<1>0. /\ Len(script) \in Nat /\ wrote \in Nat /\ taken \in Nat /\ used \in Nat
  BY Counts DEF TypeOK
<1>1. /\ listener = "socks" /\ listener' = "socks" /\ script' = script /\ route' = "none"
      /\ up = "off" /\ used' = used + 1 /\ taken' = taken + 1
  BY DEF Greet, AskConnect, ReadMessage, StageInv, client, far
<1>2. SocksInv /\ taken = used
  BY <1>1 DEF RequestInv, SocksInv
<1>3. CASE Greet
  <2>1. used = 0 /\ pc' \in {"ask", "done"}
    BY <1>2, <1>3 DEF SocksInv, Greet, Return
  <2> QED
    BY <1>1, <1>2, <2>1 DEF RequestInv, SocksInv, Asked
<1>4. CASE AskConnect
  <2>1. used = 1 /\ pc' \in {"route", "done"}
    BY <1>2, <1>4 DEF SocksInv, AskConnect, Return
  <2>2. pc' = "route" => req' = [req EXCEPT !.connect = TRUE, !.host = script[2].n]
    BY <1>4, <2>1 DEF AskConnect, Return, Incoming
  <2>3. pc' = "route" => req'.connect /\ req'.host = script[2].n
    BY <2>2 DEF TypeOK, ParsingOK
  <2> QED
    BY <1>1, <1>2, <2>1, <2>3 DEF RequestInv, SocksInv, Asked
<1> QED
  BY <1>3, <1>4

\* Every step keeps what is known of the request.
LEMMA RequestStep ==
  ASSUME TypeOK, StageInv, RequestInv, [Next]_vars
  PROVE  RequestInv'
<1>1. CASE ReadLine
  BY <1>1, LineParsed
<1>2. CASE HeaderEnds
  BY <1>2, HeaderBroken
<1>3. CASE ReadBody
  BY <1>3, BodyRead
<1>4. CASE Greet \/ AskConnect
  BY <1>4, MessageRead
<1>5. CASE \/ Fill \/ BodyFails \/ SocksFails
           \/ Decide \/ Connected \/ NotConnected \/ Answer \/ ForwardRequest
           \/ UpTask \/ DownTask \/ Environment \/ UNCHANGED vars
  BY <1>5, QuietSteps, ParsesNothingKeeps
<1> QED
  BY <1>1, <1>2, <1>3, <1>4, <1>5 DEF Next, Handler, FrontEnd

-----------------------------------------------------------------------------
(* Theorems for every script.                                              *)

\* The invariant is inductive.
LEMMA LocalInvStep == LocalInv /\ [Next]_vars => LocalInv'
  BY TypeStep, StageStep, HeardStep, RequestStep DEF LocalInv

\* The invariant holds in every reachable state.
LEMMA AlwaysLocalInv == Spec => []LocalInv
  BY LocalInvInit, LocalInvStep, PTL DEF Spec

\* Whatever the applications send, the state of a local connection is well
\* typed: the BufReader never holds more than its capacity, and neither the
\* header nor the body passes its limit.
THEOREM LocalTypeCorrect == Spec => []TypeOK
<1>1. LocalInv => TypeOK
  BY DEF LocalInv
<1> QED
  BY <1>1, AlwaysLocalInv, PTL

\* Whatever the applications send, nobody is contacted for an application that
\* has not closed before its whole request was read, and no more was parsed:
\* parse_request_header stops at the first blank line plus the length the last
\* Content-Length line states, parse_socks5_request after its two messages.
THEOREM RequestAlwaysWhole == Spec => []WholeRequest
<1>1. ASSUME LocalInv, route # "none", app = "open" PROVE used = RequestEnd
  <2>1. Asked
    BY <1>1 DEF Asked
  <2>2. CASE listener = "socks"
    BY <1>1, <2>1, <2>2 DEF LocalInv, RequestInv, SocksInv, RequestEnd, IsSocks
  <2>3. CASE listener # "socks"
    <3>1. Whole /\ req.need = 0
      BY <1>1, <2>1, <2>3 DEF LocalInv, RequestInv, HttpInv, Broken
    <3>2. used \in Nat
      BY <1>1, Counts DEF LocalInv, TypeOK
    <3> QED
      BY <2>3, <3>1, <3>2 DEF Whole, RequestEnd, IsSocks
  <2> QED
    BY <2>2, <2>3
<1>2. LocalInv => WholeRequest
  BY <1>1 DEF WholeRequest
<1> QED
  BY <1>2, AlwaysLocalInv, PTL

\* Whatever the applications send, parse_request_header and parse_socks5_request
\* never wait for more than the request that was sent: a repeated
\* Content-Length, a body of the buffer's size or a limit asks for no item too
\* many.
THEOREM NeverStarves == Spec => []NeverStarved
<1>1. ASSUME LocalInv, Sent, pc \in {"header", "greet", "ask"} PROVE used < wrote
  <2>0. used \in Nat /\ wrote \in Nat
    BY <1>1, Counts DEF LocalInv, TypeOK
  <2>1. CASE listener = "socks"
    BY <1>1, <2>0, <2>1 DEF LocalInv, StageInv, RequestInv, SocksInv, Sent, RequestEnd, IsSocks
  <2>2. CASE listener # "socks"
    <3>1. pc = "header" /\ NoBlank(used)
      BY <1>1, <2>2 DEF LocalInv, StageInv, RequestInv, HttpInv
    <3>2. PICK i \in 1..wrote : script[i].kind = "blank"
      BY <1>1, <2>2 DEF Sent, IsSocks
    <3>3. i \notin 1..used
      BY <3>1, <3>2 DEF NoBlank
    <3> QED
      BY <2>0, <3>3
  <2> QED
    BY <2>1, <2>2
<1>2. ASSUME LocalInv, Sent, pc = "body" PROVE used + req.need <= wrote
  <2>1. listener = "http" /\ (Broken \/ Whole)
    BY <1>2 DEF LocalInv, StageInv, RequestInv, HttpInv
  <2>2. ~Broken
    BY <1>2, <2>1 DEF Sent, IsSocks, Broken, NoBlank
  <2>3. used + req.need = RequestEnd
    BY <2>1, <2>2 DEF Whole, RequestEnd, IsSocks
  <2> QED
    BY <1>2, <2>3 DEF Sent
<1>3. LocalInv => NeverStarved
  BY <1>1, <1>2 DEF NeverStarved
<1> QED
  BY <1>3, AlwaysLocalInv, PTL

\* Whatever the applications send and in whatever order the destination, the
\* session and the application leave, the application is answered at most
\* once, with success only when the destination is connected, before any data
\* when it asked for a tunnel, and a failure is the last it hears.
THEOREM AlwaysAnswerFirst == Spec => []AnswerFirst
<1>1. ASSUME LocalInv PROVE AnswerFirst
  <2>1. /\ HeardInv /\ StageInv /\ RequestInv /\ TypeOK
    BY <1>1 DEF LocalInv
  <2>2. Told({"ok", "err", "refused"}) = Oks \cup Errs
    BY DEF Told, Oks, Errs
  <2>3. Oks # {} => upstream # "none"
    BY <2>1 DEF HeardInv, StageInv
  <2>4. Errs # {} => Chunks = {} /\ fed = <<>> /\ ~Attached
    BY <2>1 DEF HeardInv, StageInv, Attached
  <2>5. Tunnelled /\ Chunks # {} => req.connect
    <3> SUFFICES ASSUME Tunnelled, Chunks # {} PROVE req.connect
      OBVIOUS
    <3>1. req.host # 0 /\ Asked
      BY <2>1 DEF HeardInv, StageInv, Asked
    <3>2. CASE listener = "socks"
      BY <2>1, <3>1, <3>2 DEF RequestInv, SocksInv
    <3>3. CASE listener # "socks"
      <4>1. req.lines \in Nat
        BY <2>1, LimitAssumption DEF TypeOK, ParsingOK
      <4>2. req.lines # 0 /\ script[1].kind = "connect"
        BY <2>1, <3>1, <3>3 DEF RequestInv, HttpInv, Tunnelled, IsSocks
      <4> QED
        BY <2>1, <3>3, <4>1, <4>2 DEF RequestInv, HttpInv
    <3> QED
      BY <3>2, <3>3
  <2>6. Tunnelled => \A i \in Chunks : \E j \in Oks : j < i
    BY <2>1, <2>5 DEF HeardInv
  <2> QED
    BY <2>1, <2>2, <2>3, <2>4, <2>6 DEF AnswerFirst, HeardInv, Oks, Errs, Chunks
<1> QED
  BY <1>1, AlwaysLocalInv, PTL

-----------------------------------------------------------------------------
(* Applications that wait for an answer.  Faithful is not true of all      *)
(* scripts: what an HTTP application sends right behind its request is     *)
(* lost in the BufReader (run LocalReadAhead).  It is true of those that   *)
(* do not, and of every SOCKS5 application.                                *)

\* The application sends a header that ends and, through the HTTP listener,
\* nothing behind its request before it heard success or data.
Waits ==
  \/ listener = "socks"
  \/ /\ \E b \in 1..Len(script) : script[b].kind = "blank"
     /\ RequestEnd < Len(script) => script[RequestEnd + 1].after \in {"ok", "data"}

\* Where the piece begins that the destination gets.
Start == IF Tunnelled THEN RequestEnd + 1 ELSE 1

\* The destination no longer gets what is read.
Deaf == upstream = "reset" \/ WriteFails

\* The upward task is in its loop.
Pumps == up \in {"on", "write"}

\* Nothing beyond the request is on its way before the relay starts; from then
\* on the destination has everything that was taken from the socket but the
\* chunk in the task's hand, until it gets no more.
CarryInv ==
  /\ listener = "http" /\ up = "off" /\ pc # "done" => wrote <= RequestEnd
  /\ Pumps /\ ~Deaf => fed = Items(Start, taken - chunk) /\ (Start - 1 <= taken - chunk \/ Broken)
  /\ fed = Items(Start, Len(fed) + Start - 1)

\* The request has an end.
LEMMA EndNat ==
  ASSUME ClientOK, Waits
  PROVE  RequestEnd \in Nat /\ Start \in Nat \ {0}
<1>1. RequestEnd \in Nat
  <2>1. CASE listener = "socks"
    BY <2>1 DEF RequestEnd, IsSocks
  <2>2. CASE listener # "socks"
    <3>1. PICK b \in 1..Len(script) : script[b].kind = "blank"
      BY <2>2 DEF Waits
    <3>2. HeaderEnd \in 1..Len(script)
      BY <3>1, HeaderEndIn, HasScript
    <3>3. Len(script) \in Nat
      BY HasScript, LenProperties DEF ScriptOK
    <3>4. HeaderEnd \in Nat /\ HeaderEnd \in 0..Len(script)
      BY <3>2, <3>3
    <3>5. Stated("length") \in Nat
      BY <3>4, StatedNat, StatedAll, HasScript
    <3> QED
      BY <2>2, <3>4, <3>5 DEF RequestEnd, IsSocks
  <2> QED
    BY <2>1, <2>2
<1> QED
  BY <1>1 DEF Start

\* A piece is as long as it is.
LEMMA PieceShape ==
  ASSUME NEW a \in Nat \ {0}, NEW b \in Nat, a - 1 <= b
  PROVE  Items(a, b) = Items(a, Len(Items(a, b)) + a - 1)
<1>1. Len(Items(a, b)) = b - a + 1
  BY ItemsSeq
<1>2. Len(Items(a, b)) + a - 1 = b
  BY <1>1
<1> QED
  BY <1>2, Zenon

\* The empty piece.
LEMMA NothingShape ==
  ASSUME NEW a \in Nat \ {0}
  PROVE  <<>> = Items(a, Len(<<>>) + a - 1)
<1>1. Len(<<>>) + a - 1 \in Int /\ Len(<<>>) + a - 1 < a
  OBVIOUS
<1> QED
  BY <1>1, ItemsEmpty

\* The initial states satisfy it.
LEMMA CarryInit == Init /\ Waits => CarryInv
<1> SUFFICES ASSUME Init, Waits PROVE CarryInv
  OBVIOUS
<1>1. ClientOK
  BY LocalInvInit DEF LocalInv, TypeOK
<1>2. RequestEnd \in Nat /\ Start \in Nat \ {0}
  BY <1>1, EndNat
<1>3. fed = Items(Start, Len(fed) + Start - 1)
  BY <1>2, NothingShape DEF Init
<1> QED
  BY <1>2, <1>3 DEF CarryInv, Pumps, Init

\* What no step does: change the script, undo a start, an end or a closing.
LEMMA Onward ==
  ASSUME TypeOK, StageInv, [Next]_vars
  PROVE  /\ script' = script /\ listener' = listener
         /\ up' = "off" => up = "off"
         /\ pc' # "done" => pc # "done"
         /\ Write \/ wrote' = wrote
         /\ app # "open" => app' # "open" /\ wrote' = wrote
         /\ Pumps => used' = used /\ req' = req /\ (Deaf => Deaf')
         /\ Pumps => ReadUp \/ WriteUp \/ UpEnds \/ UNCHANGED <<fed, taken, chunk>>
         /\ Pumps' => Pumps \/ Answer \/ ForwardRequest
         /\ fed' = fed \/ WriteUp \/ ForwardRequest
<1> USE DEF StageInv, Pumps, Deaf, WriteFails, client, parsing, far, tasks
<1>1. CASE FrontEnd
  <2>1. pc \notin {"relay", "done"} /\ up = "off" /\ up' = "off" /\ fed' = fed
        /\ script' = script /\ listener' = listener /\ wrote' = wrote /\ app' = app
    BY <1>1 DEF FrontEnd, Fill, ReadLine, HeaderEnds, ReadBody, BodyFails, Greet, AskConnect, SocksFails
  <2> QED
    BY <2>1
<1>2. CASE Decide
  BY <1>2 DEF Decide, Return
<1>3. CASE Connected
  BY <1>3 DEF Connected
<1>4. CASE NotConnected
  BY <1>4 DEF NotConnected, Return
<1>5. CASE Answer
  BY <1>5 DEF Answer, GiveUp, StartRelay, Return
<1>6. CASE ForwardRequest
  BY <1>6 DEF ForwardRequest, GiveUp, StartRelay, Return
<1>7. CASE ReadUp
  BY <1>7 DEF ReadUp
<1>8. CASE WriteUp
  BY <1>8 DEF WriteUp
<1>9. CASE UpEnds
  BY <1>9 DEF UpEnds
<1>10. CASE UpCloses
  BY <1>10 DEF UpCloses, Return
<1>11. CASE ReadDown
  BY <1>11 DEF ReadDown
<1>12. CASE WriteDown
  BY <1>12 DEF WriteDown
<1>13. CASE DownEnds
  BY <1>13 DEF DownEnds
<1>14. CASE Write
  BY <1>14 DEF Write
<1>15. CASE AppLeaves
  BY <1>15 DEF AppLeaves
<1>16. CASE Speak
  BY <1>16 DEF Speak
<1>17. CASE UpstreamLeaves
  BY <1>17 DEF UpstreamLeaves
<1>18. CASE SessionEnds
  BY <1>18 DEF SessionEnds
<1>19. CASE Stall
  BY <1>19 DEF Stall
<1>20. CASE UNCHANGED vars
  BY <1>20 DEF vars
<1> QED
  BY <1>1, <1>2, <1>3, <1>4, <1>5, <1>6, <1>7, <1>8, <1>9, <1>10, <1>11, <1>12, <1>13, <1>14,
     <1>15, <1>16, <1>17, <1>18, <1>19, <1>20 DEF Next, Handler, UpTask, DownTask, Environment

\* Where the piece begins depends on the script and the listener alone.
LEMMA StartOnly ==
  ASSUME script' = script, listener' = listener
  PROVE  RequestEnd' = RequestEnd /\ Start' = Start /\ (Waits => Waits')
<1>1. HeaderEnd' = HeaderEnd /\ Stated("length")' = Stated("length")
  BY ScriptOnly
<1>2. RequestEnd' = RequestEnd
  BY <1>1 DEF RequestEnd, IsSocks
<1>3. Tunnelled' <=> Tunnelled
  BY DEF Tunnelled, IsSocks
<1> QED
  BY <1>2, <1>3 DEF Start, Waits

\* When the handler is about to answer, everything that was taken was parsed
\* and belongs to the request.
LEMMA AtReply ==
  ASSUME LocalInv, Waits, CarryInv, pc = "reply"
  PROVE  /\ taken = used /\ taken <= RequestEnd /\ (taken = RequestEnd \/ Broken)
         /\ fed = <<>> /\ (req.connect <=> Tunnelled)
<1>0. /\ Len(script) \in Nat /\ wrote \in Nat /\ taken \in Nat /\ used \in Nat
      /\ used <= taken /\ taken <= wrote /\ wrote <= Len(script)
  BY Counts DEF LocalInv, TypeOK
<1>1. RequestEnd \in Nat
  BY EndNat DEF LocalInv, TypeOK
<1>2. up = "off" /\ fed = <<>> /\ req.host # 0 /\ Asked
  BY DEF LocalInv, StageInv, Asked
<1>3. CASE listener = "socks"
  <2>1. used = 2 /\ taken = used /\ req.connect
    BY <1>2, <1>3 DEF LocalInv, RequestInv, SocksInv
  <2> QED
    BY <1>2, <1>3, <2>1 DEF RequestEnd, Tunnelled, IsSocks
<1>4. CASE listener # "socks"
  <2>1. HttpInv /\ wrote <= RequestEnd
    BY <1>2, <1>4 DEF LocalInv, RequestInv, CarryInv, TypeOK, ClientOK
  <2>2. req.connect <=> Tunnelled
    <3>1. req.lines \in Nat
      BY LimitAssumption DEF LocalInv, TypeOK, ParsingOK
    <3> QED
      BY <1>2, <1>4, <2>1, <3>1 DEF HttpInv, Tunnelled, IsSocks
  <2>3. CASE Broken
    BY <1>0, <1>1, <1>2, <2>1, <2>2, <2>3 DEF Broken
  <2>4. CASE Whole /\ req.need = 0
    <3>1. used = RequestEnd
      BY <1>0, <1>4, <2>4 DEF Whole, RequestEnd, IsSocks
    <3> QED
      BY <1>0, <1>1, <1>2, <2>1, <2>2, <3>1
  <2> QED
    BY <1>2, <2>1, <2>3, <2>4 DEF HttpInv
<1> QED
  BY <1>3, <1>4

\* Before the relay starts the application does not write beyond its request.
LEMMA WriteWaits ==
  ASSUME LocalInv, Waits, CarryInv, Write, listener = "http", up = "off", pc # "done"
  PROVE  wrote + 1 <= RequestEnd
<1>0. Len(script) \in Nat /\ wrote \in Nat
  BY Counts DEF LocalInv, TypeOK
<1>1. RequestEnd \in Nat /\ wrote <= RequestEnd /\ wrote < Len(script)
  BY EndNat DEF LocalInv, TypeOK, CarryInv, Write
<1>2. Oks = {} /\ Chunks = {}
  BY DEF LocalInv, StageInv, HeardInv
<1>3. "ok" \notin Range(heard) /\ "data" \notin Range(heard)
  BY <1>2 DEF Oks, Chunks, Told, Range
<1>4. script[wrote + 1].after \notin {"ok", "data"}
  BY <1>3 DEF Write
<1>5. wrote # RequestEnd
  BY <1>1, <1>4 DEF Waits
<1> QED
  BY <1>0, <1>1, <1>5

\* The upward relay passes on the piece that follows.
LEMMA RelayCarries ==
  ASSUME LocalInv, Waits, CarryInv, WriteUp
  PROVE  \/ fed' = fed /\ Deaf
         \/ ~Deaf /\ fed' = Items(Start, taken) /\ Start - 1 <= taken
<1>0. wrote \in Nat /\ taken \in Nat /\ used \in Nat /\ used <= taken /\ taken <= wrote
  BY Counts DEF LocalInv, TypeOK
<1>1. Start \in Nat \ {0}
  BY EndNat DEF LocalInv, TypeOK
<1>2. fed' = IF Deaf THEN fed ELSE fed \o Items(taken - chunk + 1, taken)
  BY DEF WriteUp, Deaf
<1>3. CASE Deaf
  BY <1>2, <1>3
<1>4. CASE ~Deaf
  <2>1. chunk \in 1..(taken - used)
    BY DEF LocalInv, TypeOK, TasksOK, WriteUp
  <2>2. PICK b \in Nat : b = taken - chunk /\ b <= taken
    BY <1>0, <2>1
  <2>3. ~Broken
    BY <1>0, <2>1 DEF Broken
  <2>4. fed = Items(Start, b) /\ Start - 1 <= b
    BY <1>4, <2>2, <2>3 DEF CarryInv, WriteUp, Pumps
  <2>5. Items(Start, b) \o Items(b + 1, taken) = Items(Start, taken)
    BY <1>0, <1>1, <2>2, <2>4, ItemsJoin
  <2>6. fed' = Items(Start, taken)
    BY <1>2, <1>4, <2>2, <2>4, <2>5, Zenon
  <2>7. Start - 1 <= taken
    BY <1>0, <1>1, <2>2, <2>4
  <2> QED
    BY <1>4, <2>6, <2>7
<1> QED
  BY <1>3, <1>4

\* Every step keeps it.
LEMMA CarryStep ==
  ASSUME LocalInv, Waits, CarryInv, [Next]_vars
  PROVE  CarryInv'
<1>0. /\ wrote \in Nat /\ taken \in Nat /\ used \in Nat
      /\ RequestEnd \in Nat /\ Start \in Nat \ {0}
  BY Counts, EndNat DEF LocalInv, TypeOK
<1>1. script' = script /\ listener' = listener
  BY Onward DEF LocalInv
<1>2. RequestEnd' = RequestEnd /\ Start' = Start
  BY <1>1, StartOnly
<1>3. listener' = "http" /\ up' = "off" /\ pc' # "done" => wrote' <= RequestEnd
  <2> SUFFICES ASSUME listener' = "http", up' = "off", pc' # "done" PROVE wrote' <= RequestEnd
    OBVIOUS
  <2>1. listener = "http" /\ up = "off" /\ pc # "done" /\ (Write \/ wrote' = wrote)
    BY <1>1, Onward DEF LocalInv
  <2>2. CASE Write
    BY <2>1, <2>2, WriteWaits DEF Write
  <2>3. CASE wrote' = wrote
    BY <2>1, <2>3 DEF CarryInv
  <2> QED
    BY <2>1, <2>2, <2>3
<1>4. Broken /\ used' = used /\ req' = req => Broken'
  <2> SUFFICES ASSUME Broken, used' = used, req' = req PROVE Broken'
    OBVIOUS
  <2>1. app' # "open" /\ wrote' = wrote
    BY Onward DEF LocalInv, Broken
  <2>2. StatedIn("host", wrote)' = StatedIn("host", wrote)
    BY <1>1, <2>1 DEF StatedIn
  <2> QED
    BY <1>1, <2>1, <2>2 DEF Broken, NoBlank
<1>5. CASE WriteUp
  <2>1. /\ up = "write" /\ used' = used /\ taken' = taken /\ chunk' = 0
    BY <1>5 DEF WriteUp, parsing
  <2>2. taken' - chunk' = taken
    BY <1>0, <2>1
  <2>3. CASE fed' = fed /\ Deaf
    <3>1. Deaf'
      BY <2>1, <2>3, Onward DEF LocalInv, Pumps
    <3> QED
      BY <1>2, <1>3, <2>3, <3>1 DEF CarryInv
  <2>4. CASE ~Deaf /\ fed' = Items(Start, taken) /\ Start - 1 <= taken
    <3>1. fed' = Items(Start, Len(fed') + Start - 1)
      BY <1>0, <2>4, PieceShape
    <3> QED
      BY <1>2, <1>3, <2>2, <2>4, <3>1 DEF CarryInv
  <2> QED
    BY <1>5, <2>3, <2>4, RelayCarries
<1>6. CASE ReadUp
  <2>1. up = "on" /\ UNCHANGED <<used, req, fed>>
    BY <1>6 DEF ReadUp, far
  <2>2. chunk = 0
    BY <2>1 DEF LocalInv, TypeOK, TasksOK
  <2>3. taken' - chunk' = taken - chunk
    <3>1. PICK k \in 1..(wrote - taken) : taken' = taken + k /\ chunk' = k
      BY <1>6 DEF ReadUp
    <3>2. (taken + k) - k = taken - 0
      BY <1>0
    <3> QED
      BY <2>2, <3>1, <3>2, Zenon
  <2>4. ~Deaf' => fed' = Items(Start, taken - chunk) /\ (Start - 1 <= taken - chunk \/ Broken')
    BY <1>4, <2>1, Onward DEF CarryInv, LocalInv, Pumps
  <2>5. fed' = Items(Start, Len(fed') + Start - 1)
    BY <2>1 DEF CarryInv
  <2> QED
    BY <1>2, <1>3, <2>3, <2>4, <2>5 DEF CarryInv
<1>7. CASE Answer
  <2>1. pc = "reply" /\ req.connect /\ UNCHANGED <<fed, taken, used, req>>
    BY <1>7 DEF Answer, parsing
  <2>2. taken' - chunk' = taken
    <3>1. chunk = 0 /\ (chunk' = 0 \/ chunk' = chunk)
      BY <1>7, <2>1 DEF Answer, StartRelay, GiveUp, tasks, LocalInv, StageInv, TypeOK, TasksOK
    <3> QED
      BY <1>0, <2>1, <3>1
  <2>3. /\ taken <= RequestEnd /\ (taken = RequestEnd \/ Broken)
        /\ fed = <<>> /\ Tunnelled
    BY <2>1, AtReply
  <2>4. Start = RequestEnd + 1
    BY <2>3 DEF Start
  <2>5. fed' = Items(Start, taken' - chunk')
    BY <1>0, <2>1, <2>2, <2>3, <2>4, ItemsEmpty
  <2>6. Start - 1 <= taken' - chunk' \/ Broken'
    BY <1>0, <1>4, <2>1, <2>2, <2>3, <2>4
  <2>7. fed' = Items(Start, Len(fed') + Start - 1)
    BY <2>1 DEF CarryInv
  <2> QED
    BY <1>2, <1>3, <2>5, <2>6, <2>7 DEF CarryInv
<1>8. CASE ForwardRequest
  <2>1. pc = "reply" /\ ~req.connect /\ UNCHANGED <<taken, used>> /\ up = "off"
    BY <1>8 DEF ForwardRequest, parsing, LocalInv, StageInv
  <2>2. taken = used /\ ~Tunnelled /\ fed = <<>>
    BY <2>1, AtReply
  <2>3. Start = 1
    BY <2>2 DEF Start
  <2>4. CASE fed' = fed /\ up' = "off"
    BY <1>2, <1>3, <2>4 DEF CarryInv, Pumps
  <2>5. CASE fed' = Items(1, used) /\ chunk' = 0
    <3>0. taken' - chunk' = taken
      BY <1>0, <2>1, <2>5
    <3>1. fed' = Items(Start, taken) /\ Start - 1 <= taken
      BY <1>0, <2>1, <2>2, <2>3, <2>5
    <3>2. Items(Start, taken) = Items(Start, Len(Items(Start, taken)) + Start - 1)
      BY <1>0, <2>3, PieceShape
    <3>3. fed' = Items(Start, Len(fed') + Start - 1)
      BY <2>1, <3>1, <3>2, Zenon
    <3> QED
      BY <1>2, <1>3, <3>0, <3>1, <3>3 DEF CarryInv
  <2> QED
    BY <1>8, <2>1, <2>4, <2>5 DEF ForwardRequest, GiveUp, StartRelay, tasks
<1>9. CASE UpEnds
  <2>1. ~Pumps' /\ fed' = fed
    BY <1>9 DEF UpEnds, Pumps, far
  <2> QED
    BY <1>2, <1>3, <2>1 DEF CarryInv
<1>10. CASE ~ReadUp /\ ~WriteUp /\ ~UpEnds /\ ~Answer /\ ~ForwardRequest
  <2>1. fed' = fed
    BY <1>10, Onward DEF LocalInv
  <2>2. Pumps' /\ ~Deaf' => Pumps /\ ~Deaf /\ UNCHANGED <<taken, chunk, used, req>>
    BY <1>10, Onward DEF LocalInv
  <2>3. fed' = Items(Start, Len(fed') + Start - 1)
    BY <2>1 DEF CarryInv
  <2>4. Pumps' /\ ~Deaf' => /\ fed' = Items(Start, taken' - chunk')
                            /\ Start - 1 <= taken' - chunk' \/ Broken'
    BY <1>4, <2>1, <2>2 DEF CarryInv
  <2> QED
    BY <1>2, <1>3, <2>3, <2>4 DEF CarryInv
<1> QED
  BY <1>5, <1>6, <1>7, <1>8, <1>9, <1>10

\* Whatever an application sends that waits for its answer, and whatever a
\* SOCKS5 application sends, the destination it names and no other gets an
\* unbroken piece of it, with nothing lost between parse_request_header's
\* BufReader and the relay that reads the same socket.
THEOREM AlwaysFaithful == Spec /\ Waits => []Faithful
<1>1. Init /\ Waits => LocalInv /\ Waits /\ CarryInv
  BY LocalInvInit, CarryInit
<1>2. LocalInv /\ Waits /\ CarryInv /\ [Next]_vars => (LocalInv /\ Waits /\ CarryInv)'
  <2> SUFFICES ASSUME LocalInv, Waits, CarryInv, [Next]_vars
               PROVE  LocalInv' /\ Waits' /\ CarryInv'
    OBVIOUS
  <2>1. LocalInv' /\ CarryInv'
    BY LocalInvStep, CarryStep
  <2>2. Waits'
    BY Onward, StartOnly DEF LocalInv
  <2> QED
    BY <2>1, <2>2
<1>3. LocalInv /\ Waits /\ CarryInv => Faithful
  <2> SUFFICES ASSUME LocalInv, Waits, CarryInv PROVE Faithful
    OBVIOUS
  <2>1. Start \in Nat \ {0} /\ RequestEnd \in Nat
    BY EndNat DEF LocalInv, TypeOK
  <2>2. fed = Items(IF Tunnelled THEN RequestEnd + 1 ELSE 1,
                    Len(fed) + (IF Tunnelled THEN RequestEnd ELSE 0))
    <3>1. Len(fed) \in Nat
      BY LenProperties DEF LocalInv, TypeOK, FarOK
    <3>2. Len(fed) + Start - 1 = Len(fed) + (IF Tunnelled THEN RequestEnd ELSE 0)
      BY <2>1, <3>1 DEF Start
    <3> QED
      BY <3>2, Zenon DEF CarryInv, Start
  <2>3. ASSUME upstream # "none" PROVE req.host = Wanted /\ Wanted # 0
    <3>0. Asked /\ req.host # 0
      BY <2>3 DEF LocalInv, StageInv, Asked
    <3>1. SUFFICES req.host = Wanted
      BY <3>0
    <3>2. CASE listener = "socks"
      BY <3>0, <3>2 DEF LocalInv, RequestInv, SocksInv, Wanted, IsSocks
    <3>3. CASE listener # "socks"
      <4>1. PICK b \in 1..Len(script) : script[b].kind = "blank"
        BY <3>3 DEF Waits
      <4>2. HeaderEnd \in 1..Len(script) /\ script[HeaderEnd].kind = "blank"
        BY <4>1, HeaderEndIn, HasScript DEF LocalInv, TypeOK
      <4>3. Len(script) \in Nat /\ wrote \in Nat /\ used \in Nat /\ used <= wrote
        BY Counts DEF LocalInv, TypeOK
      <4>4. HeaderEnd \in Nat
        BY <4>2, <4>3
      <4>5. CASE Broken
        <5>1. wrote < HeaderEnd
          BY <4>2, <4>3, <4>5 DEF Broken, NoBlank
        <5>2. Min({HeaderEnd, wrote}) = wrote
          BY <4>3, <4>4, <5>1, MinIs
        <5> QED
          BY <3>3, <4>5, <5>2 DEF Broken, Wanted, IsSocks
      <4>6. CASE Whole
        <5>1. HeaderEnd <= wrote
          BY <4>3, <4>6 DEF Whole
        <5>2. Min({HeaderEnd, wrote}) = HeaderEnd
          BY <4>3, <4>4, <5>1, MinIs
        <5> QED
          BY <3>3, <4>6, <5>2 DEF Whole, Stated, Wanted, IsSocks
      <4> QED
        BY <3>0, <3>3, <4>5, <4>6 DEF LocalInv, RequestInv, HttpInv
    <3> QED
      BY <3>2, <3>3
  <2> QED
    BY <2>2, <2>3 DEF Faithful
<1> QED
  BY <1>1, <1>2, <1>3, PTL DEF Spec
=============================================================================
