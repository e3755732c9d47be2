----------------------------- MODULE RoutingProofs -----------------------------
(***************************************************************************)
(* What the front ends make of a host and a port, and what the rules and   *)
(* the server's filter read out of it, for every text.                     *)
(***************************************************************************)
EXTENDS Routing, Extremes, SequenceTheorems, TLAPS

\* A text.
CharSeq == Seq(Char)

-----------------------------------------------------------------------------
(* Pieces of texts.                                                        *)

\* Two texts put together.
LEMMA Joined ==
  ASSUME NEW a \in CharSeq, NEW b \in CharSeq
  PROVE  /\ a \o b \in CharSeq /\ Len(a) \in Nat /\ Len(b) \in Nat
         /\ Len(a \o b) = Len(a) + Len(b)
         /\ \A i \in 1..Len(a) : (a \o b)[i] = a[i]
         /\ \A i \in 1..Len(b) : (a \o b)[Len(a) + i] = b[i]
<1>1. /\ a \o b \in CharSeq /\ Len(a \o b) = Len(a) + Len(b)
      /\ \A i \in 1..Len(a) + Len(b) : (a \o b)[i] = IF i <= Len(a) THEN a[i] ELSE b[i - Len(a)]
  BY ConcatProperties, Zenon DEF CharSeq
<1>2. Len(a) \in Nat /\ Len(b) \in Nat
  BY LenProperties DEF CharSeq
<1>3. ASSUME NEW i \in 1..Len(a) PROVE (a \o b)[i] = a[i]
  BY <1>1, <1>2, <1>3
<1>4. ASSUME NEW i \in 1..Len(b) PROVE (a \o b)[Len(a) + i] = b[i]
  <2>1. Len(a) + i \in 1..Len(a) + Len(b) /\ ~(Len(a) + i <= Len(a)) /\ Len(a) + i - Len(a) = i
    BY <1>2
  <2> QED
    BY <1>1, <2>1
<1> QED
  BY <1>1, <1>2, <1>3, <1>4 DEF CharSeq

\* A piece of a text.
LEMMA Piece ==
  ASSUME NEW t \in CharSeq, NEW m \in Nat \ {0}, NEW n \in Nat, n <= Len(t), m <= n + 1
  PROVE  /\ SubSeq(t, m, n) \in CharSeq /\ Len(SubSeq(t, m, n)) = n - m + 1
         /\ \A i \in 1..(n - m + 1) : SubSeq(t, m, n)[i] = t[m + i - 1]
<1>1. Len(t) \in Nat
  BY LenProperties DEF CharSeq
<1>2. \A i \in m..n : t[i] \in Char
  BY <1>1, ElementOfSeq DEF CharSeq
<1>3. /\ SubSeq(t, m, n) \in CharSeq
      /\ Len(SubSeq(t, m, n)) = IF m <= n THEN n - m + 1 ELSE 0
      /\ \A i \in 1..n - m + 1 : SubSeq(t, m, n)[i] = t[m + i - 1]
  BY <1>2, SubSeqProperties DEF CharSeq
<1> QED
  BY <1>3 DEF CharSeq

\* The first and the second of two texts put together.
LEMMA JoinedParts ==
  ASSUME NEW a \in CharSeq, NEW b \in CharSeq
  PROVE  /\ SubSeq(a \o b, 1, Len(a)) = a
         /\ SubSeq(a \o b, Len(a) + 1, Len(a \o b)) = b
<1> DEFINE t == a \o b
<1>1. PICK m \in Nat, n \in Nat : m = Len(a) /\ n = Len(b)
  BY LenProperties DEF CharSeq
<1>2. /\ t \in CharSeq /\ Len(t) = m + n
      /\ \A i \in 1..m : t[i] = a[i]
      /\ \A i \in 1..n : t[m + i] = b[i]
  BY <1>1, Joined, Zenon
<1> HIDE DEF t
<1>3. SubSeq(t, 1, m) = a
  <2>1. /\ SubSeq(t, 1, m) \in CharSeq /\ Len(SubSeq(t, 1, m)) = m
        /\ \A i \in 1..m : SubSeq(t, 1, m)[i] = t[i]
    BY <1>2, Piece
  <2> QED
    BY <1>1, <1>2, <2>1, SeqEqual DEF CharSeq
<1>4. SubSeq(t, m + 1, m + n) = b
  <2>1. /\ SubSeq(t, m + 1, m + n) \in CharSeq
        /\ Len(SubSeq(t, m + 1, m + n)) = (m + n) - (m + 1) + 1
        /\ \A i \in 1..((m + n) - (m + 1) + 1) : SubSeq(t, m + 1, m + n)[i] = t[(m + 1) + i - 1]
    <3>1. m + 1 \in Nat \ {0} /\ m + n \in Nat /\ m + n <= Len(t) /\ m + 1 <= m + n + 1
      BY <1>2
    <3> QED
      BY <1>2, <3>1, Piece, Zenon
  <2>2. (m + n) - (m + 1) + 1 = n /\ \A i \in 1..n : (m + 1) + i - 1 = m + i
    OBVIOUS
  <2>3. Len(SubSeq(t, m + 1, m + n)) = n /\ \A i \in 1..n : SubSeq(t, m + 1, m + n)[i] = b[i]
    BY <1>2, <2>1, <2>2
  <2> QED
    BY <1>1, <2>1, <2>3, SeqEqual DEF CharSeq
<1> QED
  BY <1>1, <1>2, <1>3, <1>4, Zenon DEF t

\* A text of one or two characters.
LEMMA ShortTexts ==
  ASSUME NEW a \in Char, NEW b \in Char
  PROVE  /\ <<a>> \in CharSeq /\ Len(<<a>>) = 1 /\ <<a>>[1] = a
         /\ <<a, b>> \in CharSeq /\ Len(<<a, b>>) = 2 /\ <<a, b>>[1] = a /\ <<a, b>>[2] = b
  BY DEF CharSeq

\* The marks are characters.
LEMMA MarkChars == ":" \in Char /\ "[" \in Char /\ "]" \in Char
  BY DEF Char

-----------------------------------------------------------------------------
(* The last colon.                                                         *)

\* rfind(':') finds the colon before the port.
LEMMA LastColonAt ==
  ASSUME NEW t \in CharSeq, NEW p \in Char, p # ":"
  PROVE  /\ LastColon(t \o <<":", p>>) = Len(t) + 1
         /\ LastColon(t \o <<":", p>>) # 0
         /\ Before(t \o <<":", p>>, Len(t) + 1) = t
         /\ After(t \o <<":", p>>, Len(t) + 1) = <<p>>
<1> DEFINE q == <<":", p>>
           d == t \o q
           S == {0} \cup {i \in DOMAIN d : d[i] = ":"}
<1>1. q \in CharSeq /\ Len(q) = 2 /\ q[1] = ":" /\ q[2] = p
  BY ShortTexts, MarkChars, Zenon
<1> HIDE DEF q
<1>2. PICK n \in Nat : n = Len(t)
  BY LenProperties DEF CharSeq
<1>3. d \in CharSeq /\ Len(d) = n + 2 /\ d[n + 1] = ":" /\ d[n + 2] = p
  <2>1. /\ d \in CharSeq /\ Len(d) = Len(t) + Len(q)
        /\ \A i \in 1..Len(q) : d[Len(t) + i] = q[i]
    BY <1>1, Joined, Zenon
  <2>2. 1 \in 1..2 /\ 2 \in 1..2
    OBVIOUS
  <2> HIDE DEF d
  <2>3. d[n + 1] = q[1] /\ d[n + 2] = q[2] /\ Len(d) = n + 2
    BY <1>1, <1>2, <2>1, <2>2
  <2> QED
    BY <1>1, <2>1, <2>3
<1>4. SubSeq(d, 1, n) = t
  BY <1>1, <1>2, JoinedParts, Zenon
<1>5. SubSeq(d, n + 1, n + 2) = q
  <2>1. SubSeq(d, Len(t) + 1, Len(d)) = q
    BY <1>1, JoinedParts, Zenon
  <2> QED
    BY <1>2, <1>3, <2>1, Zenon
<1> HIDE DEF d
<1>6. DOMAIN d = 1..(n + 2)
  BY <1>3 DEF CharSeq
<1>7. Max(S) = n + 1
  <2>1. S \in SUBSET Nat /\ n + 1 \in S
    BY <1>3, <1>6
  <2>2. ASSUME NEW i \in S PROVE n + 1 >= i
    BY <1>3, <1>6
  <2> HIDE DEF S
  <2> QED
    BY <2>1, <2>2, MaxIs
<1>8. LastColon(d) = n + 1
  BY <1>7 DEF LastColon
<1>9. Before(d, n + 1) = t
  <2>1. (n + 1) - 1 = n
    OBVIOUS
  <2> QED
    BY <1>4, <2>1, Zenon DEF Before
<1>10. After(d, n + 1) = <<p>>
  <2>1. /\ SubSeq(d, n + 2, n + 2) \in CharSeq /\ Len(SubSeq(d, n + 2, n + 2)) = 1
        /\ SubSeq(d, n + 2, n + 2)[1] = p
    <3>1. /\ SubSeq(d, n + 2, n + 2) \in CharSeq
          /\ Len(SubSeq(d, n + 2, n + 2)) = (n + 2) - (n + 2) + 1
          /\ \A i \in 1..((n + 2) - (n + 2) + 1) : SubSeq(d, n + 2, n + 2)[i] = d[n + 2 + i - 1]
      <4>1. n + 2 \in Nat \ {0} /\ n + 2 \in Nat /\ n + 2 <= Len(d) /\ n + 2 <= n + 2 + 1
        BY <1>3
      <4> QED
        BY <1>3, <4>1, Piece, Zenon
    <3>2. (n + 2) - (n + 2) + 1 = 1 /\ 1 \in 1..1 /\ n + 2 + 1 - 1 = n + 2
      OBVIOUS
    <3> QED
      BY <1>3, <3>1, <3>2, Zenon
  <2>2. \A i \in 1..1 : SubSeq(d, n + 2, n + 2)[i] = <<p>>[i]
    BY <2>1
  <2>3. SubSeq(d, n + 2, n + 2) = <<p>>
    <3>1. <<p>> \in CharSeq /\ Len(<<p>>) = 1
      BY ShortTexts, Zenon
    <3>2. \A s \in CharSeq, r \in CharSeq :
            Len(s) = 1 /\ Len(r) = 1 /\ (\A i \in 1..1 : s[i] = r[i]) => s = r
      BY SeqEqual DEF CharSeq
    <3> QED
      BY <2>1, <2>2, <3>1, <3>2, Zenon
  <2>4. n + 1 + 1 = n + 2
    OBVIOUS
  <2> QED
    BY <1>3, <2>3, <2>4, Zenon DEF After
<1>11. n + 1 # 0
  OBVIOUS
<1> QED
  BY <1>2, <1>8, <1>9, <1>10, <1>11, Zenon DEF d, q

\* A text without a colon has no last one.
LEMMA NoColon ==
  ASSUME NEW t \in CharSeq, Without(t, {":"})
  PROVE  LastColon(t) = 0
<1> DEFINE S == {0} \cup {i \in DOMAIN t : t[i] = ":"}
<1>1. DOMAIN t = 1..Len(t)
  BY DEF CharSeq
<1>2. S = {0}
  BY <1>1 DEF Without
<1>3. Max(S) = 0
  <2>1. S \in SUBSET Nat /\ 0 \in S /\ \A n \in S : 0 >= n
    BY <1>2
  <2> HIDE DEF S
  <2> QED
    BY <2>1, MaxIs
<1> QED
  BY <1>3 DEF LastColon

-----------------------------------------------------------------------------
(* Brackets.                                                               *)

Brackets == {"[", "]"}

\* trim_matches leaves a text without brackets as it is.
LEMMA TrimNothing ==
  ASSUME NEW t \in CharSeq, Without(t, Brackets)
  PROVE  Trimmed(t) = t
<1> DEFINE inner == {i \in DOMAIN t : t[i] \notin {"[", "]"}}
<1>1. PICK n \in Nat : n = Len(t) /\ DOMAIN t = 1..n
  BY LenProperties DEF CharSeq
<1>2. inner = 1..n
  BY <1>1 DEF Without, Brackets
<1>3. CASE n = 0
  <2>1. inner = {} /\ t = <<>>
    BY <1>1, <1>2, <1>3, EmptySeq DEF CharSeq
  <2> QED
    BY <2>1 DEF Trimmed
<1>4. CASE n # 0
  <2>1. Min(1..n) = 1 /\ Max(1..n) = n
    <3>1. (1..n) \in SUBSET Nat /\ 1 \in 1..n /\ n \in 1..n
      BY <1>4
    <3> QED
      BY <3>1, MinIs, MaxIs
  <2>2. inner # {}
    BY <1>2, <1>4
  <2>3. Trimmed(t) = SubSeq(t, 1, n)
    BY <1>2, <2>1, <2>2, Zenon DEF Trimmed
  <2>4. /\ SubSeq(t, 1, n) \in CharSeq /\ Len(SubSeq(t, 1, n)) = n
        /\ \A i \in 1..n : SubSeq(t, 1, n)[i] = t[i]
    BY <1>1, Piece
  <2>5. SubSeq(t, 1, n) = t
    BY <1>1, <2>4, SeqEqual DEF CharSeq
  <2> QED
    BY <2>3, <2>5
<1> QED
  BY <1>3, <1>4

\* trim_matches takes the brackets off again.
LEMMA TrimBrackets ==
  ASSUME NEW t \in CharSeq, Without(t, Brackets)
  PROVE  /\ <<"[">> \o t \o <<"]">> \in CharSeq
         /\ Trimmed(<<"[">> \o t \o <<"]">>) = t
<1> DEFINE h == <<"[">> \o t
           w == h \o <<"]">>
           inner == {i \in DOMAIN w : w[i] \notin {"[", "]"}}
<1>0. /\ <<"[">> \in CharSeq /\ Len(<<"[">>) = 1 /\ <<"[">>[1] = "["
      /\ <<"]">> \in CharSeq /\ Len(<<"]">>) = 1 /\ <<"]">>[1] = "]"
  BY ShortTexts, MarkChars, Zenon
<1>1. PICK n \in Nat : n = Len(t)
  BY LenProperties DEF CharSeq
<1>2. /\ h \in CharSeq /\ Len(h) = n + 1 /\ h[1] = "["
      /\ \A i \in 1..n : h[1 + i] = t[i]
  <2>1. /\ h \in CharSeq /\ Len(h) = Len(<<"[">>) + Len(t)
        /\ \A i \in 1..Len(<<"[">>) : h[i] = <<"[">>[i]
        /\ \A i \in 1..Len(t) : h[Len(<<"[">>) + i] = t[i]
    BY <1>0, Joined, Zenon
  <2> HIDE DEF h
  <2> QED
    BY <1>0, <1>1, <2>1
<1> HIDE DEF h
<1>3. /\ w \in CharSeq /\ Len(w) = n + 2 /\ w[1] = "[" /\ w[n + 2] = "]"
      /\ \A i \in 1..n : w[1 + i] = t[i]
  <2>1. /\ w \in CharSeq /\ Len(w) = Len(h) + Len(<<"]">>)
        /\ \A i \in 1..Len(h) : w[i] = h[i]
        /\ \A i \in 1..Len(<<"]">>) : w[Len(h) + i] = <<"]">>[i]
    BY <1>0, <1>2, Joined, Zenon
  <2> HIDE DEF w
  <2>2. w[n + 1 + 1] = "]" /\ Len(w) = n + 1 + 1
    BY <1>0, <1>2, <2>1
  <2>3. \A i \in 1..n : 1 + i \in 1..(n + 1)
    OBVIOUS
  <2>4. 1 \in 1..(n + 1) /\ n + 1 + 1 = n + 2
    OBVIOUS
  <2> QED
    BY <1>2, <2>1, <2>2, <2>3, <2>4
<1> HIDE DEF w
<1>4. DOMAIN w = 1..(n + 2)
  BY <1>3 DEF CharSeq
<1>5. ASSUME NEW i \in 1..n PROVE w[1 + i] \notin {"[", "]"}
  BY <1>1, <1>3 DEF Without, Brackets
<1>6. inner = 2..(n + 1)
  <2>1. ASSUME NEW i \in inner PROVE i \in 2..(n + 1)
    BY <1>3, <1>4
  <2>2. ASSUME NEW i \in 2..(n + 1) PROVE i \in inner
    <3>1. i - 1 \in 1..n /\ 1 + (i - 1) = i
      OBVIOUS
    <3>2. w[1 + (i - 1)] \notin {"[", "]"}
      BY <1>5, <3>1
    <3> QED
      BY <1>4, <3>1, <3>2
  <2> HIDE DEF inner
  <2> QED
    BY <2>1, <2>2
<1>7. CASE n = 0
  <2> HIDE DEF inner
  <2>0. 2..(n + 1) = {}
    BY <1>7
  <2>1. inner = {}
    BY <1>6, <2>0, Zenon
  <2>2. t = <<>>
    BY <1>1, <1>7, EmptySeq DEF CharSeq
  <2> USE DEF inner
  <2> QED
    BY <1>3, <2>2, <2>1 DEF Trimmed, w, h
<1>8. CASE n # 0
  <2>1. Min(2..(n + 1)) = 2 /\ Max(2..(n + 1)) = n + 1
    <3>1. (2..(n + 1)) \in SUBSET Nat /\ 2 \in 2..(n + 1) /\ n + 1 \in 2..(n + 1)
      BY <1>8
    <3> QED
      BY <3>1, MinIs, MaxIs
  <2>2. inner # {}
    BY <1>6, <1>8
  <2>3. Trimmed(w) = SubSeq(w, 2, n + 1)
    BY <1>6, <2>1, <2>2, Zenon DEF Trimmed
  <2>4. /\ SubSeq(w, 2, n + 1) \in CharSeq /\ Len(SubSeq(w, 2, n + 1)) = n
        /\ \A i \in 1..n : SubSeq(w, 2, n + 1)[i] = w[1 + i]
    <3>1. /\ SubSeq(w, 2, n + 1) \in CharSeq /\ Len(SubSeq(w, 2, n + 1)) = (n + 1) - 2 + 1
          /\ \A i \in 1..((n + 1) - 2 + 1) : SubSeq(w, 2, n + 1)[i] = w[2 + i - 1]
      <4>1. 2 \in Nat \ {0} /\ n + 1 \in Nat /\ n + 1 <= Len(w) /\ 2 <= n + 1 + 1
        BY <1>3
      <4> QED
        BY <1>3, <4>1, Piece, Zenon
    <3>2. (n + 1) - 2 + 1 = n /\ \A i \in 1..n : 2 + i - 1 = 1 + i
      OBVIOUS
    <3> QED
      BY <3>1, <3>2
  <2>5. SubSeq(w, 2, n + 1) = t
    BY <1>1, <1>3, <2>4, SeqEqual DEF CharSeq
  <2> QED
    BY <1>3, <2>3, <2>5 DEF w, h
<1> QED
  BY <1>7, <1>8

-----------------------------------------------------------------------------
(* A destination, from the front ends to the rules and to the filter.      *)

\* A port's text is one character and reads as its number.
LEMMA PortReads ==
  ASSUME NEW port \in DOMAIN Ports
  PROVE  /\ port \in Char /\ port # ":"
         /\ PortOf(<<port>>) = Ports[port] /\ PortOr80(<<port>>) = Ports[port]
<1>1. port \in {"80", "443", "1"}
  BY DEF Ports
<1>2. port \in Char /\ port # ":"
  BY <1>1 DEF Char
<1>3. Ports[port] # NoPort
  BY <1>1 DEF Ports, NoPort
<1>4. Len(<<port>>) = 1 /\ <<port>>[1] = port
  OBVIOUS
<1>5. PortOf(<<port>>) = Ports[port]
  BY <1>4, Zenon DEF PortOf
<1> QED
  BY <1>2, <1>3, <1>5, Zenon DEF PortOr80

\* What stands before the last colon of a SOCKS5 destination.
LEMMA SocksBefore ==
  ASSUME NEW t \in CharSeq, Without(t, Brackets), NEW port \in DOMAIN Ports
  PROVE  LET dest == SocksDest(t, port)  c == LastColon(dest) IN
         /\ c # 0 /\ Trimmed(Before(dest, c)) = t /\ After(dest, c) = <<port>>
         /\ Before(dest, c) = IF t \in DOMAIN Literals /\ Literals[t].v = 6
                              THEN <<"[">> \o t \o <<"]">> ELSE t
<1> DEFINE v6 == t \in DOMAIN Literals /\ Literals[t].v = 6
           host == IF v6 THEN <<"[">> \o t \o <<"]">> ELSE t
           dest == host \o <<":", port>>
<1>1. host \in CharSeq /\ Trimmed(host) = t
  BY TrimNothing, TrimBrackets, Zenon
<1>2. SocksDest(t, port) = dest
  BY Zenon DEF SocksDest
<1> HIDE DEF host
<1>3. port \in Char /\ port # ":"
  BY PortReads, Zenon
<1>4. /\ LastColon(dest) = Len(host) + 1 /\ LastColon(dest) # 0
      /\ Before(dest, Len(host) + 1) = host
      /\ After(dest, Len(host) + 1) = <<port>>
  BY <1>1, <1>3, LastColonAt, Zenon
<1> HIDE DEF dest
<1> QED
  BY <1>1, <1>2, <1>4, Zenon DEF host

\* A SOCKS5 destination is taken apart into the host and the port of the
\* request, by the client (split_host_port) and by the server's filter, for
\* every host text without brackets, whatever colons it has.
THEOREM SocksReads ==
  ASSUME NEW t \in CharSeq, Without(t, Brackets), NEW port \in DOMAIN Ports
  PROVE  /\ SplitHostPort(SocksDest(t, port)) = [host |-> t, port |-> Ports[port]]
         /\ IsDestAllowed(SocksDest(t, port)) = (t \in DOMAIN Literals => IsPublicIp(Literals[t]))
<1> DEFINE dest == SocksDest(t, port)
           c == LastColon(dest)
<1>1. c # 0 /\ Trimmed(Before(dest, c)) = t /\ After(dest, c) = <<port>>
  BY SocksBefore, Zenon
<1>2. PortOr80(<<port>>) = Ports[port]
  BY PortReads, Zenon
<1> HIDE DEF dest
<1>3. SplitHostPort(dest) = [host |-> t, port |-> Ports[port]]
  BY <1>1, <1>2, Zenon DEF SplitHostPort
<1>4. IsDestAllowed(dest) = (t \in DOMAIN Literals => IsPublicIp(Literals[t]))
  BY <1>1, Zenon DEF IsDestAllowed
<1> QED
  BY <1>3, <1>4, Zenon DEF dest

\* Every literal of the model is such a text.
LEMMA LiteralTexts ==
  ASSUME NEW t \in DOMAIN Literals
  PROVE  t \in CharSeq /\ Without(t, Brackets)
<1>1. t \in {<<"10.0.0.1">>, <<"127.0.0.1">>, <<"9.9.9.9">>, <<":", ":", "1">>, <<"2", ":", ":", "1">>}
  BY DEF Literals
<1>2. CASE t \in {<<"10.0.0.1">>, <<"127.0.0.1">>, <<"9.9.9.9">>}
  <2>1. PICK x \in {"10.0.0.1", "127.0.0.1", "9.9.9.9"} : t = <<x>>
    BY <1>2
  <2> QED
    BY <2>1 DEF CharSeq, Char, Without, Brackets
<1>3. CASE t = <<":", ":", "1">>
  BY <1>3 DEF CharSeq, Char, Without, Brackets
<1>4. CASE t = <<"2", ":", ":", "1">>
  BY <1>4 DEF CharSeq, Char, Without, Brackets
<1> QED
  BY <1>1, <1>2, <1>3, <1>4

\* The same text taken apart by the HTTP handlers: the brackets stay.
LEMMA HttpLiteral ==
  ASSUME NEW t \in DOMAIN Literals, NEW port \in DOMAIN Ports
  PROVE  LET dest == SocksDest(t, port)
             text == IF Literals[t].v = 6 THEN <<"[">> \o t \o <<"]">> ELSE t
         IN /\ HttpDest(text \o <<":", port>>) = dest
            /\ HttpTarget(dest) = [host |-> text, port |-> Ports[port]]
            /\ text \in DOMAIN Literals <=> Literals[t].v = 4
<1> DEFINE dest == SocksDest(t, port)
           text == IF Literals[t].v = 6 THEN <<"[">> \o t \o <<"]">> ELSE t
           c == LastColon(dest)
<1>1. t \in CharSeq /\ Without(t, Brackets)
  BY LiteralTexts
<1>2. c # 0 /\ Before(dest, c) = text /\ After(dest, c) = <<port>>
  BY <1>1, SocksBefore, Zenon
<1>3. dest = text \o <<":", port>>
  BY Zenon DEF SocksDest
<1>4. PortOr80(<<port>>) = Ports[port]
  BY PortReads, Zenon
<1>5. text \in DOMAIN Literals <=> Literals[t].v = 4
  <2>1. Literals[t].v \in {4, 6}
    BY DEF Literals
  <2>2. CASE Literals[t].v = 6
    <3>1. text = <<"[">> \o t \o <<"]">>
      BY <2>2
    <3>2. text[1] = "[" /\ 1 \in 1..Len(text)
      BY <1>1, <3>1 DEF CharSeq
    <3>3. ~Without(text, Brackets)
      <4> HIDE DEF text
      <4> QED
        BY <3>2 DEF Without, Brackets
    <3>4. text \notin DOMAIN Literals
      <4> HIDE DEF text
      <4> QED
        BY <3>3, LiteralTexts, Zenon
    <3> QED
      BY <2>2, <3>4
  <2>3. CASE Literals[t].v = 4
    BY <2>3
  <2> QED
    BY <2>1, <2>2, <2>3
<1> HIDE DEF text
<1>6. HttpDest(dest) = dest
  BY <1>2, Zenon DEF HttpDest
<1>7. HttpTarget(dest) = [host |-> text, port |-> Ports[port]]
  BY <1>2, <1>4, Zenon DEF HttpTarget
<1> QED
  BY <1>3, <1>5, <1>6, <1>7, Zenon DEF text

-----------------------------------------------------------------------------
(* Suffixes, read from the end.                                            *)

Ends(s, t) ==
  Len(s) <= Len(t) /\ \A k \in 0..(Len(s) - 1) : s[Len(s) - k] = t[Len(t) - k]

\* A prefix, character by character.
LEMMA PrefixIs ==
  ASSUME NEW S, NEW s \in Seq(S), NEW t \in Seq(S), NEW m \in Nat, NEW n \in Nat,
         m = Len(s), n = Len(t)
  PROVE  IsPrefix(s, t) <=> m <= n /\ \A i \in 1..m : s[i] = t[i]
<1>1. ASSUME m <= n
      PROVE  SubSeq(s, 1, m) = SubSeq(t, 1, m) <=> \A i \in 1..m : s[i] = t[i]
  <2>1. /\ SubSeq(s, 1, m) \in Seq(S) /\ Len(SubSeq(s, 1, m)) = m
        /\ \A i \in 1..m : SubSeq(s, 1, m)[i] = s[i]
    <3>1. \A i \in 1..m : s[i] \in S
      BY ElementOfSeq
    <3> QED
      BY <3>1, SubSeqProperties
  <2>2. /\ SubSeq(t, 1, m) \in Seq(S) /\ Len(SubSeq(t, 1, m)) = m
        /\ \A i \in 1..m : SubSeq(t, 1, m)[i] = t[i]
    <3>1. \A i \in 1..m : t[i] \in S
      BY <1>1, ElementOfSeq
    <3> QED
      BY <3>1, SubSeqProperties
  <2>3. (\A i \in 1..m : s[i] = t[i]) => SubSeq(s, 1, m) = SubSeq(t, 1, m)
    BY <2>1, <2>2, SeqEqual
  <2>4. SubSeq(s, 1, m) = SubSeq(t, 1, m) => \A i \in 1..m : s[i] = t[i]
    BY <2>1, <2>2
  <2> QED
    BY <2>3, <2>4
<1> QED
  BY <1>1, Zenon DEF IsPrefix

\* IsSuffix compares from the end.
LEMMA SuffixIs ==
  ASSUME NEW S, NEW s \in Seq(S), NEW t \in Seq(S)
  PROVE  IsSuffix(s, t) <=> Ends(s, t)
<1>1. PICK m \in Nat, n \in Nat : m = Len(s) /\ n = Len(t)
  BY LenProperties
<1> DEFINE p == Reverse(s)  q == Reverse(t)
<1>2. p \in Seq(S) /\ Len(p) = m /\ \A i \in 1..m : p[i] = s[(m - i) + 1]
  <2>1. p = [i \in 1..m |-> s[(m - i) + 1]]
    BY <1>1, Zenon DEF Reverse
  <2>2. \A i \in 1..m : s[(m - i) + 1] \in S
    BY <1>1, ElementOfSeq
  <2> HIDE DEF p
  <2>3. p \in [1..m -> S]
    BY <2>1, <2>2
  <2> QED
    BY <2>1, <2>3, IsASeq
<1>3. q \in Seq(S) /\ Len(q) = n /\ \A i \in 1..n : q[i] = t[(n - i) + 1]
  <2>1. q = [i \in 1..n |-> t[(n - i) + 1]]
    BY <1>1, Zenon DEF Reverse
  <2>2. \A i \in 1..n : t[(n - i) + 1] \in S
    BY <1>1, ElementOfSeq
  <2> HIDE DEF q
  <2>3. q \in [1..n -> S]
    BY <2>1, <2>2
  <2> QED
    BY <2>1, <2>3, IsASeq
<1>4. IsSuffix(s, t) <=> IsPrefix(p, q)
  BY Zenon DEF IsSuffix
<1> HIDE DEF p, q
<1>5. IsPrefix(p, q) <=> m <= n /\ \A i \in 1..m : p[i] = q[i]
  <2>1. p \in Seq(S)
    BY <1>2
  <2>2. q \in Seq(S)
    BY <1>3
  <2>3. m = Len(p)
    BY <1>2
  <2>4. n = Len(q)
    BY <1>3
  <2> QED
    BY <2>1, <2>2, <2>3, <2>4, PrefixIs, Zenon
<1>6. ASSUME m <= n
      PROVE  (\A i \in 1..m : p[i] = q[i]) <=> \A k \in 0..(m - 1) : s[m - k] = t[n - k]
  <2>1. ASSUME \A i \in 1..m : p[i] = q[i], NEW k \in 0..(m - 1) PROVE s[m - k] = t[n - k]
    <3>1. k + 1 \in 1..m /\ k + 1 \in 1..n /\ (m - (k + 1)) + 1 = m - k /\ (n - (k + 1)) + 1 = n - k
      BY <1>6
    <3>2. p[k + 1] = s[(m - (k + 1)) + 1] /\ q[k + 1] = t[(n - (k + 1)) + 1]
      BY <1>2, <1>3, <3>1
    <3> QED
      BY <2>1, <3>1, <3>2
  <2>2. ASSUME \A k \in 0..(m - 1) : s[m - k] = t[n - k], NEW i \in 1..m PROVE p[i] = q[i]
    <3>1. i - 1 \in 0..(m - 1) /\ i \in 1..n /\ m - (i - 1) = (m - i) + 1 /\ n - (i - 1) = (n - i) + 1
      BY <1>6
    <3> QED
      BY <1>2, <1>3, <2>2, <3>1
  <2> QED
    BY <2>1, <2>2
<1> QED
  BY <1>1, <1>4, <1>5, <1>6, Zenon DEF Ends

\* A text a, of length m, a dot and a label x, of length k, by position from
\* the end.
LabelAt(u, a, m, x, k) ==
  /\ u \in CharSeq /\ Len(u) = m + k + 1
  /\ \A i \in 0..(k - 1) : u[(m + k + 1) - i] = x[k - i]
  /\ u[m + 1] = "."
  /\ \A i \in 0..(m - 1) : u[m - i] = a[m - i]

LEMMA LabelAtEnd ==
  ASSUME NEW a \in CharSeq, NEW x \in CharSeq
  PROVE  LabelAt(a \o (<<".">> \o x), a, Len(a), x, Len(x))
<1> DEFINE u == a \o (<<".">> \o x)
<1>a. u = a \o (<<".">> \o x)
  OBVIOUS
<1> HIDE DEF u
<1>b. PICK m \in Nat, k \in Nat : m = Len(a) /\ k = Len(x)
  BY LenProperties DEF CharSeq
<1> DEFINE d == <<".">> \o x
<1>1. <<".">> \in CharSeq /\ Len(<<".">>) = 1 /\ <<".">>[1] = "."
  <2>1. "." \in Char
    BY DEF Char
  <2> QED
    BY <2>1, ShortTexts, Zenon
<1>2. d \in CharSeq /\ Len(d) = 1 + k /\ d[1] = "." /\ \A i \in 1..k : d[1 + i] = x[i]
  <2>1. /\ d \in CharSeq /\ Len(d) = Len(<<".">>) + Len(x)
        /\ \A i \in 1..Len(<<".">>) : d[i] = <<".">>[i]
        /\ \A i \in 1..Len(x) : d[Len(<<".">>) + i] = x[i]
    BY <1>1, Joined, Zenon
  <2> HIDE DEF d
  <2> QED
    BY <1>1, <1>b, <2>1
<1> HIDE DEF d
<1>3. /\ u \in CharSeq /\ Len(u) = m + (1 + k)
      /\ \A i \in 1..m : u[i] = a[i]
      /\ \A i \in 1..(1 + k) : u[m + i] = d[i]
  <2>1. /\ a \o d \in CharSeq /\ Len(a \o d) = Len(a) + Len(d)
        /\ \A i \in 1..Len(a) : (a \o d)[i] = a[i]
        /\ \A i \in 1..Len(d) : (a \o d)[Len(a) + i] = d[i]
    BY <1>2, Joined, Zenon
  <2>2. u = a \o d
    BY <1>a, Zenon DEF d
  <2>3. Len(d) = 1 + k /\ Len(a) = m
    BY <1>2, <1>b
  <2> QED
    BY <2>1, <2>2, <2>3, Zenon
<1>4. ASSUME NEW i \in 0..(k - 1) PROVE u[(m + k + 1) - i] = x[k - i]
  <2>1. k - i \in 1..k /\ 1 + (k - i) \in 1..(1 + k) /\ m + (1 + (k - i)) = (m + k + 1) - i
    OBVIOUS
  <2>2. u[m + (1 + (k - i))] = d[1 + (k - i)] /\ d[1 + (k - i)] = x[k - i]
    BY <1>2, <1>3, <2>1
  <2> QED
    BY <2>1, <2>2
<1>5. u[m + 1] = "."
  <2>1. 1 \in 1..(1 + k)
    OBVIOUS
  <2> QED
    BY <1>2, <1>3, <2>1
<1>6. ASSUME NEW i \in 0..(m - 1) PROVE u[m - i] = a[m - i]
  <2>1. m - i \in 1..m
    OBVIOUS
  <2> QED
    BY <1>3, <2>1
<1>7. m + (1 + k) = m + k + 1
  OBVIOUS
<1>8. LabelAt(u, a, m, x, k)
  BY <1>3, <1>4, <1>5, <1>6, <1>7, Zenon DEF LabelAt
<1> QED
  BY <1>8, <1>a, <1>b, Zenon

\* Two texts that end in a dot and a label: the last labels are compared, and
\* then what stands before them.
LEMMA LastLabels ==
  ASSUME NEW a \in CharSeq, NEW x \in CharSeq, Without(x, {"."}),
         NEW b \in CharSeq, NEW y \in CharSeq, Without(y, {"."})
  PROVE  Ends(a \o (<<".">> \o x), b \o (<<".">> \o y)) <=> x = y /\ Ends(a, b)
<1>1. PICK m \in Nat, k \in Nat, n \in Nat, l \in Nat :
         m = Len(a) /\ k = Len(x) /\ n = Len(b) /\ l = Len(y)
  BY LenProperties DEF CharSeq
<1> DEFINE u == a \o (<<".">> \o x)  v == b \o (<<".">> \o y)
<1>a. u = a \o (<<".">> \o x) /\ v = b \o (<<".">> \o y)
  OBVIOUS
<1> HIDE DEF u, v
<1>2. /\ u \in CharSeq /\ Len(u) = m + k + 1
      /\ \A i \in 0..(k - 1) : u[(m + k + 1) - i] = x[k - i]
      /\ u[m + 1] = "."
      /\ \A i \in 0..(m - 1) : u[m - i] = a[m - i]
  <2>1. LabelAt(u, a, m, x, k)
    BY <1>a, <1>1, LabelAtEnd, Zenon
  <2> QED
    BY <2>1, Zenon DEF LabelAt
<1>3. /\ v \in CharSeq /\ Len(v) = n + l + 1
      /\ \A i \in 0..(l - 1) : v[(n + l + 1) - i] = y[l - i]
      /\ v[n + 1] = "."
      /\ \A i \in 0..(n - 1) : v[n - i] = b[n - i]
  <2>1. LabelAt(v, b, n, y, l)
    BY <1>a, <1>1, LabelAtEnd, Zenon
  <2> QED
    BY <2>1, Zenon DEF LabelAt
<1>4. /\ \A i \in 0..(k - 1) : x[k - i] # "."
      /\ \A i \in 0..(l - 1) : y[l - i] # "."
  <2>1. \A i \in 1..k : x[i] # "."
    BY <1>1 DEF Without
  <2>2. \A i \in 1..l : y[i] # "."
    BY <1>1 DEF Without
  <2>3. (\A i \in 0..(k - 1) : k - i \in 1..k) /\ (\A i \in 0..(l - 1) : l - i \in 1..l)
    OBVIOUS
  <2> QED
    BY <2>1, <2>2, <2>3
<1>5. Ends(u, v) <=> /\ m + k + 1 <= n + l + 1
                     /\ \A i \in 0..(m + k) : u[(m + k + 1) - i] = v[(n + l + 1) - i]
  <2>1. (m + k + 1) - 1 = m + k
    OBVIOUS
  <2>2. PICK p \in Nat, q \in Nat : p = m + k + 1 /\ q = n + l + 1
    OBVIOUS
  <2>3. Len(u) = p /\ Len(v) = q
    BY <1>2, <1>3, <2>2, Zenon
  <2>4. Ends(u, v) <=> p <= q /\ \A i \in 0..(p - 1) : u[p - i] = v[q - i]
    BY <2>3, Zenon DEF Ends
  <2>5. p - 1 = m + k
    BY <2>1, <2>2, Zenon
  <2> QED
    BY <2>2, <2>4, <2>5, Zenon
<1>6. Ends(a, b) <=> m <= n /\ \A i \in 0..(m - 1) : a[m - i] = b[n - i]
  BY <1>1, Zenon DEF Ends
<1>7. ASSUME Ends(u, v) PROVE k = l
  <2>1. ASSUME k < l PROVE FALSE
    <3>1. k \in 0..(m + k) /\ k \in 0..(l - 1) /\ (m + k + 1) - k = m + 1
      BY <2>1
    <3>2. u[m + 1] = v[(n + l + 1) - k] /\ v[(n + l + 1) - k] = y[l - k]
      BY <1>3, <1>5, <1>7, <3>1
    <3> QED
      BY <1>2, <1>4, <3>1, <3>2
  <2>2. ASSUME l < k PROVE FALSE
    <3>1. l \in 0..(m + k) /\ l \in 0..(k - 1) /\ (n + l + 1) - l = n + 1
      BY <2>2
    <3>2. u[(m + k + 1) - l] = v[n + 1] /\ u[(m + k + 1) - l] = x[k - l]
      BY <1>2, <1>5, <1>7, <3>1
    <3> QED
      BY <1>3, <1>4, <3>1, <3>2
  <2> QED
    BY <2>1, <2>2

<1>8. ASSUME k = l
      PROVE  Ends(u, v) <=> x = y /\ Ends(a, b)
  <2>1. ASSUME Ends(u, v) PROVE x = y /\ Ends(a, b)
    <3>1. m + k + 1 <= n + l + 1 /\ m <= n
      BY <1>5, <1>8, <2>1
    <3>2. ASSUME NEW i \in 0..(k - 1) PROVE x[k - i] = y[l - i]
      <4>1. i \in 0..(m + k) /\ i \in 0..(l - 1)
        BY <1>8
      <4> QED
        BY <1>2, <1>3, <1>5, <2>1, <4>1
    <3>3. ASSUME NEW j \in 1..k PROVE x[j] = y[j]
      <4>1. k - j \in 0..(k - 1) /\ k - (k - j) = j /\ l - (k - j) = j
        BY <1>8
      <4> QED
        BY <3>2, <4>1
    <3>4. x = y
      BY <1>1, <1>8, <3>3, SeqEqual DEF CharSeq
    <3>5. ASSUME NEW i \in 0..(m - 1) PROVE a[m - i] = b[n - i]
      <4>1. /\ k + 1 + i \in 0..(m + k) /\ i \in 0..(n - 1)
            /\ (m + k + 1) - (k + 1 + i) = m - i /\ (n + l + 1) - (k + 1 + i) = n - i
        BY <1>8, <3>1
      <4>2. u[(m + k + 1) - (k + 1 + i)] = v[(n + l + 1) - (k + 1 + i)]
        BY <1>5, <2>1, <4>1
      <4>3. u[m - i] = v[n - i]
        BY <4>1, <4>2
      <4> QED
        BY <1>2, <1>3, <4>1, <4>3
    <3> QED
      BY <1>6, <3>1, <3>4, <3>5
  <2>2. ASSUME x = y, Ends(a, b) PROVE Ends(u, v)
    <3>1. m <= n /\ \A i \in 0..(m - 1) : a[m - i] = b[n - i]
      BY <1>6, <2>2
    <3>2. m + k + 1 <= n + l + 1
      BY <1>8, <3>1
    <3>3. ASSUME NEW i \in 0..(m + k) PROVE u[(m + k + 1) - i] = v[(n + l + 1) - i]
      <4>1. CASE i \in 0..(k - 1)
        <5>1. i \in 0..(l - 1)
          BY <1>8, <4>1
        <5>2. u[(m + k + 1) - i] = x[k - i] /\ v[(n + l + 1) - i] = y[l - i]
          BY <1>2, <1>3, <4>1, <5>1
        <5> QED
          BY <1>8, <2>2, <5>2
      <4>2. CASE i = k
        <5>1. (m + k + 1) - i = m + 1 /\ (n + l + 1) - i = n + 1
          BY <1>8, <4>2
        <5> QED
          BY <1>2, <1>3, <5>1
      <4>3. CASE i > k
        <5>1. PICK j \in 0..(m - 1) : i = k + 1 + j
          <6>1. i - (k + 1) \in 0..(m - 1) /\ i = k + 1 + (i - (k + 1))
            BY <4>3
          <6> QED
            BY <6>1
        <5>2. (m + k + 1) - i = m - j /\ (n + l + 1) - i = n - j /\ j \in 0..(n - 1)
          BY <1>8, <3>1, <5>1
        <5>3. u[m - j] = a[m - j] /\ v[n - j] = b[n - j] /\ a[m - j] = b[n - j]
          BY <1>2, <1>3, <3>1, <5>2
        <5> QED
          BY <5>2, <5>3
      <4> QED
        BY <4>1, <4>2, <4>3
    <3> QED
      BY <1>5, <3>2, <3>3
  <2> QED
    BY <2>1, <2>2
<1>9. x = y => k = l
  BY <1>1
<1> QED
  BY <1>7, <1>8, <1>9, Zenon DEF u, v

-----------------------------------------------------------------------------
(* Names as they are written, label by label.                              *)

Dotted(labels) == FlattenSeq([i \in DOMAIN labels |-> <<".">> \o labels[i]])

\* The texts of the first 0, 1, 2, ... labels, each with its dot.
Unrolled(f, labels, n) ==
  /\ f \in [0..n -> CharSeq] /\ f[0] = <<>>
  /\ \A i \in 1..n : f[i] = f[i - 1] \o (<<".">> \o labels[i])

\* A dot and a label are a text.
LEMMA DotLabel ==
  ASSUME NEW a \in CharSeq, NEW x \in CharSeq
  PROVE  <<".">> \o x \in CharSeq /\ a \o (<<".">> \o x) \in CharSeq
<1>1. "." \in Char
  BY DEF Char
<1>2. <<".">> \in CharSeq
  BY <1>1, ShortTexts, Zenon
<1> QED
  BY <1>2, Joined, Zenon

\* There are such texts for the first n labels.
LEMMA UnrolledExists ==
  ASSUME NEW labels, NEW n \in Nat, \A i \in 1..n : labels[i] \in CharSeq
  PROVE  \E f : Unrolled(f, labels, n)
<1> DEFINE S == {k \in Nat : \E f : Unrolled(f, labels, k)}
<1>1. 0 \in S
  <2> DEFINE f == [i \in 0..0 |-> <<>>]
  <2>1. <<>> \in CharSeq
    BY EmptySeq DEF CharSeq
  <2>2. f \in [0..0 -> CharSeq] /\ f[0] = <<>>
    BY <2>1
  <2>3. \A i \in 1..0 : FALSE
    OBVIOUS
  <2>4. Unrolled(f, labels, 0)
    BY <2>2, <2>3 DEF Unrolled
  <2> HIDE DEF f
  <2> QED
    BY <2>4
<1>2. ASSUME NEW k \in S, k < n PROVE k + 1 \in S
  <2>1. PICK f : Unrolled(f, labels, k)
    OBVIOUS
  <2>2. k \in Nat /\ k + 1 \in Nat /\ k + 1 \in 1..n /\ k \in 0..k
    BY <1>2
  <2>3. /\ f \in [0..k -> CharSeq] /\ f[0] = <<>>
        /\ \A i \in 1..k : f[i] = f[i - 1] \o (<<".">> \o labels[i])
    BY <2>1 DEF Unrolled
  <2> DEFINE x == f[k] \o (<<".">> \o labels[k + 1])
             g == [i \in 0..(k + 1) |-> IF i = k + 1 THEN x ELSE f[i]]
  <2>4. x \in CharSeq
    <3>1. f[k] \in CharSeq /\ labels[k + 1] \in CharSeq
      BY <2>2, <2>3
    <3> QED
      BY <3>1, DotLabel, Zenon
  <2>5. g[k + 1] = f[k] \o (<<".">> \o labels[k + 1])
    <3> HIDE DEF x
    <3>1. k + 1 \in 0..(k + 1)
      BY <2>2
    <3>2. g[k + 1] = x
      BY <3>1
    <3> QED
      BY <3>2, Zenon DEF x
  <2> HIDE DEF x
  <2>6. g \in [0..(k + 1) -> CharSeq] /\ \A i \in 0..k : g[i] = f[i]
    BY <2>2, <2>3, <2>4
  <2> HIDE DEF g
  <2>7. ASSUME NEW i \in 1..(k + 1) PROVE g[i] = g[i - 1] \o (<<".">> \o labels[i])
    <3>1. CASE i = k + 1
      <4>1. i - 1 = k
        BY <2>2, <3>1
      <4>2. g[i - 1] = f[k]
        BY <2>2, <2>6, <4>1
      <4> QED
        BY <2>5, <3>1, <4>2, Zenon
    <3>2. CASE i # k + 1
      <4>1. i \in 1..k /\ i \in 0..k /\ i - 1 \in 0..k
        BY <2>2, <3>2
      <4>2. g[i] = f[i] /\ g[i - 1] = f[i - 1] /\ f[i] = f[i - 1] \o (<<".">> \o labels[i])
        BY <2>3, <2>6, <4>1, Zenon
      <4> QED
        BY <4>2, Zenon
    <3> QED
      BY <3>1, <3>2
  <2>8. g[0] = <<>>
    <3>1. 0 \in 0..k
      BY <2>2
    <3> QED
      BY <2>3, <2>6, <3>1
  <2>9. Unrolled(g, labels, k + 1)
    BY <2>6, <2>7, <2>8, Zenon DEF Unrolled
  <2> QED
    BY <2>2, <2>9
<1> HIDE DEF S
<1>3. S \in SUBSET Nat
  BY DEF S
<1>4. n \in S
  <2>1. n \in 0..n
    OBVIOUS
  <2> QED
    BY <1>1, <1>2, <1>3, <2>1, CountUp
<1> QED
  BY <1>4 DEF S

\* FlattenSeq, unrolled.
Flattens(f, seqs, n) ==
  n = Len(seqs) /\ f[1] = seqs[1] /\ \A i \in 2..n : f[i] = f[i - 1] \o seqs[i]

LEMMA FlattenIs ==
  ASSUME NEW seqs, NEW n \in Nat \ {0}, NEW f, Flattens(f, seqs, n)
  PROVE  FlattenSeq(seqs) = f[n]
<1> USE DEF Flattens
<1> DEFINE F(g) == [i \in 1..n |-> IF i = 1 THEN seqs[i] ELSE g[i - 1] \o seqs[i]]
           G == CHOOSE g : g = F(g)
           h == [i \in 1..n |-> f[i]]
<1>1. h = F(h)
  <2>1. ASSUME NEW i \in 1..n
        PROVE  f[i] = IF i = 1 THEN seqs[i] ELSE h[i - 1] \o seqs[i]
    <3>1. CASE i = 1
      BY <3>1
    <3>2. CASE i # 1
      <4>1. i \in 2..n /\ i - 1 \in 1..n
        BY <3>2
      <4>2. h[i - 1] = f[i - 1]
        BY <4>1
      <4> QED
        BY <3>2, <4>1, <4>2, Zenon
    <3> QED
      BY <3>1, <3>2
  <2> QED
    BY <2>1, Zenon
<1>2. G = F(G)
  BY <1>1, Zenon
<1>3. FlattenSeq(seqs) = G[n]
  <2>1. Len(seqs) # 0
    OBVIOUS
  <2> QED
    BY <2>1, Zenon DEF FlattenSeq
<1> HIDE DEF G
<1>4. /\ \A i \in 1..n : G[i] = IF i = 1 THEN seqs[i] ELSE G[i - 1] \o seqs[i]
  BY <1>2, Zenon
<1> HIDE DEF F
<1> DEFINE S == {k \in Nat : k = 0 \/ G[k] = f[k]}
<1>5. ASSUME NEW k \in S, k < n PROVE k + 1 \in S
  <2>1. k \in Nat /\ k + 1 \in 1..n /\ (k + 1) - 1 = k
    BY <1>5
  <2>2. CASE k = 0
    <3>1. k + 1 = 1
      BY <2>2
    <3>2. G[1] = seqs[1]
      BY <1>4, <2>1, <3>1, Zenon
    <3>3. G[k + 1] = f[k + 1]
      BY <3>1, <3>2, Zenon
    <3> QED
      BY <2>1, <3>3
  <2>3. CASE k # 0
    <3>1. k + 1 \in 2..n /\ k + 1 # 1 /\ k + 1 \in Nat
      BY <2>1, <2>3
    <3>2. G[k] = f[k]
      BY <2>3
    <3>3. f[k + 1] = f[k] \o seqs[k + 1]
      BY <2>1, <3>1, Zenon
    <3>4. G[k + 1] = G[k] \o seqs[k + 1]
      BY <1>4, <2>1, <3>1, Zenon
    <3>5. G[k + 1] = f[k + 1]
      BY <3>2, <3>3, <3>4, Zenon
    <3> QED
      BY <3>1, <3>5
  <2> QED
    BY <2>2, <2>3
<1>6. n \in S
  <2>1. n \in 0..n /\ 0 \in S /\ S \in SUBSET Nat /\ n \in Nat
    OBVIOUS
  <2> HIDE DEF S
  <2> QED
    BY <1>5, <2>1, CountUp
<1>7. G[n] = f[n]
  BY <1>6
<1> QED
  BY <1>3, <1>7, Zenon

\* A name with its leading dot.
LEMMA DottedIs ==
  ASSUME NEW labels \in Seq(CharSeq), NEW n \in Nat \ {0}, n = Len(labels),
         NEW f, Unrolled(f, labels, n)
  PROVE  Dotted(labels) = f[n]
<1> DEFINE seqs == [i \in DOMAIN labels |-> <<".">> \o labels[i]]
<1>1. DOMAIN labels = 1..n
  BY LenProperties
<1>2. n = Len(seqs) /\ \A i \in 1..n : seqs[i] = <<".">> \o labels[i]
  <2>1. \A i \in 1..n : labels[i] \in CharSeq
    BY ElementOfSeq
  <2>2. \A i \in 1..n : <<".">> \o labels[i] \in CharSeq
    BY <2>1, DotLabel, Zenon
  <2>3. seqs \in [1..n -> CharSeq] /\ \A i \in 1..n : seqs[i] = <<".">> \o labels[i]
    BY <1>1, <2>2, Zenon
  <2> HIDE DEF seqs
  <2>4. Len(seqs) = n
    BY <2>3, IsASeq
  <2> QED
    BY <2>3, <2>4
<1>3. Dotted(labels) = FlattenSeq(seqs)
  BY Zenon DEF Dotted
<1> HIDE DEF seqs
<1>4. /\ f \in [0..n -> CharSeq] /\ f[0] = <<>>
      /\ \A i \in 1..n : f[i] = f[i - 1] \o (<<".">> \o labels[i])
  BY Zenon DEF Unrolled
<1>5. f[1] = seqs[1]
  <2>1. 1 \in 1..n /\ 1 - 1 = 0
    OBVIOUS
  <2>2. f[1] = <<>> \o seqs[1]
    BY <1>2, <1>4, <2>1
  <2>3. labels[1] \in CharSeq
    BY <2>1, ElementOfSeq
  <2>4. seqs[1] \in CharSeq
    BY <1>2, <2>1, <2>3, DotLabel, Zenon
  <2>5. <<>> \o seqs[1] = seqs[1]
    BY <2>4, ConcatEmptySeq DEF CharSeq
  <2> QED
    BY <2>2, <2>5, Zenon
<1>6. ASSUME NEW i \in 2..n PROVE f[i] = f[i - 1] \o seqs[i]
  <2>1. i \in 1..n
    OBVIOUS
  <2> QED
    BY <1>2, <1>4, <2>1, Zenon
<1>7. FlattenSeq(seqs) = f[n]
  <2>1. Flattens(f, seqs, n)
    BY <1>2, <1>5, <1>6, Zenon DEF Flattens
  <2> QED
    BY <2>1, FlattenIs, Zenon
<1> QED
  BY <1>3, <1>7, Zenon

\* The last i labels of two names that stop at i and at j.
SameLabels(ls, i, ms, j) == i <= j /\ \A k \in 0..(i - 1) : ls[i - k] = ms[j - k]

LEMMA SameLabelsStep ==
  ASSUME NEW ls, NEW ms, NEW i \in Nat, NEW j \in Nat
  PROVE  SameLabels(ls, i + 1, ms, j + 1) <=> ls[i + 1] = ms[j + 1] /\ SameLabels(ls, i, ms, j)
<1>1. ASSUME SameLabels(ls, i + 1, ms, j + 1)
      PROVE  ls[i + 1] = ms[j + 1] /\ SameLabels(ls, i, ms, j)
  <2>1. i <= j /\ \A k \in 0..((i + 1) - 1) : ls[(i + 1) - k] = ms[(j + 1) - k]
    BY <1>1 DEF SameLabels
  <2>2. 0 \in 0..((i + 1) - 1) /\ (i + 1) - 0 = i + 1 /\ (j + 1) - 0 = j + 1
    OBVIOUS
  <2>3. ls[i + 1] = ms[j + 1]
    BY <2>1, <2>2
  <2>4. ASSUME NEW k \in 0..(i - 1) PROVE ls[i - k] = ms[j - k]
    <3>1. k + 1 \in 0..((i + 1) - 1) /\ (i + 1) - (k + 1) = i - k /\ (j + 1) - (k + 1) = j - k
      OBVIOUS
    <3> QED
      BY <2>1, <3>1
  <2> QED
    BY <2>1, <2>3, <2>4 DEF SameLabels
<1>2. ASSUME ls[i + 1] = ms[j + 1], SameLabels(ls, i, ms, j)
      PROVE  SameLabels(ls, i + 1, ms, j + 1)
  <2>1. i <= j /\ \A k \in 0..(i - 1) : ls[i - k] = ms[j - k]
    BY <1>2 DEF SameLabels
  <2>2. ASSUME NEW k \in 0..((i + 1) - 1) PROVE ls[(i + 1) - k] = ms[(j + 1) - k]
    <3>1. CASE k = 0
      <4>1. (i + 1) - k = i + 1 /\ (j + 1) - k = j + 1
        BY <3>1
      <4> QED
        BY <1>2, <4>1
    <3>2. CASE k # 0
      <4>1. k - 1 \in 0..(i - 1) /\ i - (k - 1) = (i + 1) - k /\ j - (k - 1) = (j + 1) - k
        BY <3>2
      <4> QED
        BY <2>1, <4>1
    <3> QED
      BY <3>1, <3>2
  <2>3. i + 1 <= j + 1
    BY <2>1
  <2> QED
    BY <2>2, <2>3 DEF SameLabels
<1> QED
  BY <1>1, <1>2

\* A name is written at the end of another one, with its dot, exactly when its
\* labels are the last labels of the other one.
LEMMA LabelsEnd ==
  ASSUME NEW ls \in Seq(CharSeq), NEW n \in Nat, n = Len(ls), \A i \in 1..n : Without(ls[i], {"."}),
         NEW ms \in Seq(CharSeq), NEW m \in Nat, m = Len(ms), \A i \in 1..m : Without(ms[i], {"."}),
         NEW f, Unrolled(f, ls, n), NEW g, Unrolled(g, ms, m)
  PROVE  Ends(f[n], g[m]) <=> Ends(ls, ms)
<1>1. /\ f \in [0..n -> CharSeq] /\ f[0] = <<>>
      /\ \A i \in 1..n : f[i] = f[i - 1] \o (<<".">> \o ls[i])
  BY Zenon DEF Unrolled
<1>2. /\ g \in [0..m -> CharSeq] /\ g[0] = <<>>
      /\ \A i \in 1..m : g[i] = g[i - 1] \o (<<".">> \o ms[i])
  BY Zenon DEF Unrolled
<1>3. (\A i \in 1..n : ls[i] \in CharSeq) /\ (\A i \in 1..m : ms[i] \in CharSeq)
  BY ElementOfSeq
<1> DEFINE S == {i \in Nat : \A j \in 0..m : Ends(f[i], g[j]) <=> SameLabels(ls, i, ms, j)}
<1>4. 0 \in S
  <2> SUFFICES ASSUME NEW j \in 0..m PROVE Ends(f[0], g[j]) <=> SameLabels(ls, 0, ms, j)
    BY Zenon
  <2>1. g[j] \in CharSeq
    BY <1>2
  <2>2. Len(g[j]) \in Nat
    BY <2>1, LenProperties DEF CharSeq
  <2>3. Len(<<>>) = 0
    OBVIOUS
  <2>4. Ends(<<>>, g[j])
    BY <2>2, <2>3 DEF Ends
  <2>5. SameLabels(ls, 0, ms, j)
    BY DEF SameLabels
  <2> QED
    BY <1>1, <2>4, <2>5, Zenon
<1>5. ASSUME NEW i \in S, i < n PROVE i + 1 \in S
  <2>0. i \in Nat /\ i + 1 \in Nat /\ i + 1 \in 1..n /\ i \in 0..n /\ (i + 1) - 1 = i
    BY <1>5
  <2> SUFFICES ASSUME NEW j \in 0..m
               PROVE  Ends(f[i + 1], g[j]) <=> SameLabels(ls, i + 1, ms, j)
    BY <2>0, Zenon
  <2>1. f[i] \in CharSeq /\ ls[i + 1] \in CharSeq /\ Without(ls[i + 1], {"."})
    BY <1>1, <1>3, <2>0
  <2>2. f[i + 1] = f[i] \o (<<".">> \o ls[i + 1])
    BY <1>1, <2>0, Zenon
  <2>3. CASE j = 0
    <3>1. LabelAt(f[i + 1], f[i], Len(f[i]), ls[i + 1], Len(ls[i + 1]))
      BY <2>1, <2>2, LabelAtEnd, Zenon
    <3>2. PICK p \in Nat, q \in Nat : p = Len(f[i]) /\ q = Len(ls[i + 1])
      BY <2>1, LenProperties DEF CharSeq
    <3>3. Len(f[i + 1]) = p + q + 1
      BY <3>1, <3>2 DEF LabelAt
    <3>4. Len(<<>>) = 0 /\ ~(p + q + 1 <= 0)
      OBVIOUS
    <3>5. ~Ends(f[i + 1], <<>>)
      BY <3>3, <3>4, Zenon DEF Ends
    <3>6. ~(i + 1 <= 0)
      BY <2>0
    <3>7. ~SameLabels(ls, i + 1, ms, 0)
      BY <3>6, Zenon DEF SameLabels
    <3> QED
      BY <1>2, <2>3, <3>5, <3>7, Zenon
  <2>4. CASE j # 0
    <3>1. PICK h \in Nat : j = h + 1 /\ h \in 0..m /\ h + 1 \in 1..m /\ (h + 1) - 1 = h
      <4>1. j - 1 \in Nat /\ j = (j - 1) + 1 /\ j - 1 \in 0..m /\ (j - 1) + 1 \in 1..m
            /\ ((j - 1) + 1) - 1 = j - 1
        BY <2>4
      <4> QED
        BY <4>1, Zenon
    <3>2. g[h] \in CharSeq /\ ms[h + 1] \in CharSeq /\ Without(ms[h + 1], {"."})
      BY <1>2, <1>3, <3>1
    <3>3. g[h + 1] = g[h] \o (<<".">> \o ms[h + 1])
      BY <1>2, <3>1, Zenon
    <3>4. Ends(f[i + 1], g[h + 1]) <=> ls[i + 1] = ms[h + 1] /\ Ends(f[i], g[h])
      <4>1. Ends(f[i] \o (<<".">> \o ls[i + 1]), g[h] \o (<<".">> \o ms[h + 1]))
              <=> ls[i + 1] = ms[h + 1] /\ Ends(f[i], g[h])
        BY <2>1, <3>2, LastLabels
      <4> QED
        BY <2>2, <3>3, <4>1, Zenon
    <3>5. Ends(f[i], g[h]) <=> SameLabels(ls, i, ms, h)
      BY <3>1, Zenon
    <3>6. SameLabels(ls, i + 1, ms, h + 1) <=> ls[i + 1] = ms[h + 1] /\ SameLabels(ls, i, ms, h)
      BY <2>0, SameLabelsStep, Zenon
    <3> QED
      BY <3>1, <3>4, <3>5, <3>6, Zenon
  <2> QED
    BY <2>3, <2>4
<1>6. n \in S
  <2>1. n \in 0..n /\ S \in SUBSET Nat
    OBVIOUS
  <2> HIDE DEF S
  <2> QED
    BY <1>4, <1>5, <2>1, CountUp
<1>7. Ends(f[n], g[m]) <=> SameLabels(ls, n, ms, m)
  <2>1. m \in 0..m
    OBVIOUS
  <2> QED
    BY <1>6, <2>1, Zenon
<1>8. SameLabels(ls, n, ms, m) <=> Ends(ls, ms)
  BY Zenon DEF SameLabels, Ends
<1> QED
  BY <1>7, <1>8, Zenon

-----------------------------------------------------------------------------
(* Letters in either case.                                                 *)

\* Lower changes characters and keeps their places.
LEMMA LowerText ==
  ASSUME NEW t \in CharSeq
  PROVE  /\ Lower(t) \in CharSeq /\ Len(Lower(t)) = Len(t)
         /\ \A i \in 1..Len(t) : Lower(t)[i] = IF t[i] = "A" THEN "a" ELSE t[i]
<1>1. PICK n \in Nat : n = Len(t) /\ DOMAIN t = 1..n
  BY LenProperties DEF CharSeq
<1>2. \A i \in 1..n : t[i] \in Char
  BY <1>1, ElementOfSeq DEF CharSeq
<1>3. "a" \in Char
  BY DEF Char
<1> DEFINE l == [i \in 1..n |-> IF t[i] = "A" THEN "a" ELSE t[i]]
<1>4. Lower(t) = l
  BY <1>1, Zenon DEF Lower
<1>5. l \in [1..n -> Char] /\ \A i \in 1..n : l[i] = IF t[i] = "A" THEN "a" ELSE t[i]
  BY <1>2, <1>3
<1> HIDE DEF l
<1>6. l \in CharSeq /\ Len(l) = n
  BY <1>5, IsASeq DEF CharSeq
<1> QED
  BY <1>1, <1>4, <1>5, <1>6, Zenon

\* Texts of the same length with the same characters.
LEMMA SameText ==
  ASSUME NEW s \in CharSeq, NEW t \in CharSeq, Len(s) = Len(t),
         \A i \in 1..Len(s) : s[i] = t[i]
  PROVE  s = t
  BY SeqEqual DEF CharSeq

LEMMA LowerJoined ==
  ASSUME NEW a \in CharSeq, NEW b \in CharSeq
  PROVE  Lower(a \o b) = Lower(a) \o Lower(b)
<1> DEFINE t == a \o b  s == Lower(t)  p == Lower(a)  q == Lower(b)  r == p \o q
<1>1. PICK m \in Nat, n \in Nat : m = Len(a) /\ n = Len(b)
  BY LenProperties DEF CharSeq
<1>2. t \in CharSeq /\ Len(t) = m + n /\ (\A i \in 1..m : t[i] = a[i]) /\ (\A i \in 1..n : t[m + i] = b[i])
  BY <1>1, Joined, Zenon
<1> HIDE DEF t
<1>3. s \in CharSeq /\ Len(s) = Len(t) /\ \A i \in 1..Len(t) : s[i] = IF t[i] = "A" THEN "a" ELSE t[i]
  BY <1>2, LowerText, Zenon
<1>4. p \in CharSeq /\ Len(p) = m /\ \A i \in 1..m : p[i] = IF a[i] = "A" THEN "a" ELSE a[i]
  BY <1>1, LowerText, Zenon
<1>5. q \in CharSeq /\ Len(q) = n /\ \A i \in 1..n : q[i] = IF b[i] = "A" THEN "a" ELSE b[i]
  BY <1>1, LowerText, Zenon
<1> HIDE DEF s, p, q
<1>6. r \in CharSeq /\ Len(r) = m + n /\ (\A i \in 1..m : r[i] = p[i]) /\ (\A i \in 1..n : r[m + i] = q[i])
  BY <1>4, <1>5, Joined, Zenon
<1> HIDE DEF r
<1>7. ASSUME NEW i \in 1..(m + n) PROVE s[i] = r[i]
  <2>1. CASE i \in 1..m
    BY <1>2, <1>3, <1>4, <1>6, <2>1
  <2>2. CASE i \notin 1..m
    <3>1. PICK j \in 1..n : i = m + j
      <4>1. i - m \in 1..n /\ i = m + (i - m)
        BY <2>2
      <4> QED
        BY <4>1
    <3>2. t[i] = b[j] /\ r[i] = q[j]
      BY <1>2, <1>6, <3>1
    <3> QED
      BY <1>2, <1>3, <1>5, <3>2
  <2> QED
    BY <2>1, <2>2
<1>8. s = r
  BY <1>2, <1>3, <1>6, <1>7, SameText, Zenon
<1> QED
  BY <1>8, Zenon DEF s, r, p, q, t

\* Without a capital letter nothing changes.
LEMMA LowerFixed ==
  ASSUME NEW t \in CharSeq, Without(t, {"A"})
  PROVE  Lower(t) = t
<1>1. /\ Lower(t) \in CharSeq /\ Len(Lower(t)) = Len(t)
      /\ \A i \in 1..Len(t) : Lower(t)[i] = IF t[i] = "A" THEN "a" ELSE t[i]
  BY LowerText, Zenon
<1>2. \A i \in 1..Len(t) : Lower(t)[i] = t[i]
  BY <1>1, Zenon DEF Without
<1> QED
  BY <1>1, <1>2, SameText, Zenon

\* Nothing appears but the small letter.
LEMMA LowerWithout ==
  ASSUME NEW t \in CharSeq, NEW C, Without(t, C), "a" \notin C
  PROVE  Without(Lower(t), C)
<1>1. /\ Lower(t) \in CharSeq /\ Len(Lower(t)) = Len(t)
      /\ \A i \in 1..Len(t) : Lower(t)[i] = IF t[i] = "A" THEN "a" ELSE t[i]
  BY LowerText, Zenon
<1> QED
  BY <1>1, Zenon DEF Without

\* The marks have no case.
LEMMA LowerMarks ==
  /\ Lower(<<".">>) = <<".">> /\ Lower(<<"*", ".">>) = <<"*", ".">>
  /\ \A port \in DOMAIN Ports : Lower(<<":", port>>) = <<":", port>> /\ <<":", port>> \in CharSeq
  /\ <<".">> \in CharSeq /\ <<"*", ".">> \in CharSeq
<1>1. "." \in Char /\ "*" \in Char /\ ":" \in Char
  BY DEF Char
<1>2. ASSUME NEW a \in Char, a # "A" PROVE <<a>> \in CharSeq /\ Lower(<<a>>) = <<a>>
  <2>1. <<a>> \in CharSeq
    BY ShortTexts, Zenon
  <2>2. Without(<<a>>, {"A"})
    BY <1>2 DEF Without
  <2> QED
    BY <2>1, <2>2, LowerFixed, Zenon
<1>3. ASSUME NEW a \in Char, NEW b \in Char, a # "A", b # "A"
      PROVE  <<a, b>> \in CharSeq /\ Lower(<<a, b>>) = <<a, b>>
  <2>1. <<a, b>> \in CharSeq
    BY ShortTexts, Zenon
  <2>2. Without(<<a, b>>, {"A"})
    BY <1>3 DEF Without
  <2> QED
    BY <2>1, <2>2, LowerFixed, Zenon
<1>4. ASSUME NEW port \in DOMAIN Ports PROVE port \in Char /\ port # "A"
  <2>1. port \in {"80", "443", "1"}
    BY DEF Ports
  <2> QED
    BY <2>1 DEF Char
<1>5. "." # "A" /\ "*" # "A" /\ ":" # "A"
  OBVIOUS
<1>6. <<".">> \in CharSeq /\ Lower(<<".">>) = <<".">>
  BY <1>1, <1>2, <1>5, Zenon
<1>7. <<"*", ".">> \in CharSeq /\ Lower(<<"*", ".">>) = <<"*", ".">>
  BY <1>1, <1>3, <1>5, Zenon
<1>8. \A port \in DOMAIN Ports : Lower(<<":", port>>) = <<":", port>> /\ <<":", port>> \in CharSeq
  BY <1>1, <1>3, <1>4, <1>5, Zenon
<1> QED
  BY <1>6, <1>7, <1>8, Zenon

-----------------------------------------------------------------------------
(* What a name looks like.                                                 *)

\* A text and a label without some characters, and the dot between them.
LEMMA LabelWithout ==
  ASSUME NEW a \in CharSeq, NEW x \in CharSeq, NEW C, Without(a, C), Without(x, C), "." \notin C
  PROVE  Without(a \o (<<".">> \o x), C)
<1> DEFINE d == <<".">> \o x  u == a \o d
<1>1. PICK m \in Nat, k \in Nat : m = Len(a) /\ k = Len(x)
  BY LenProperties DEF CharSeq
<1>2. <<".">> \in CharSeq /\ Len(<<".">>) = 1 /\ <<".">>[1] = "."
  BY LowerMarks
<1>3. d \in CharSeq /\ Len(d) = 1 + k /\ d[1] = "." /\ \A i \in 1..k : d[1 + i] = x[i]
  <2>1. /\ d \in CharSeq /\ Len(d) = Len(<<".">>) + Len(x)
        /\ \A i \in 1..Len(<<".">>) : d[i] = <<".">>[i]
        /\ \A i \in 1..Len(x) : d[Len(<<".">>) + i] = x[i]
    BY <1>2, Joined, Zenon
  <2> HIDE DEF d
  <2> QED
    BY <1>1, <1>2, <2>1
<1> HIDE DEF d
<1>4. /\ Len(u) = m + (1 + k)
      /\ \A i \in 1..m : u[i] = a[i]
      /\ \A i \in 1..(1 + k) : u[m + i] = d[i]
  <2>1. /\ Len(u) = Len(a) + Len(d)
        /\ \A i \in 1..Len(a) : u[i] = a[i]
        /\ \A i \in 1..Len(d) : u[Len(a) + i] = d[i]
    BY <1>3, Joined, Zenon
  <2>2. Len(a) = m /\ Len(d) = 1 + k
    BY <1>1, <1>3
  <2> HIDE DEF u
  <2> QED
    BY <2>1, <2>2, Zenon
<1> HIDE DEF u
<1>5. (\A i \in 1..m : a[i] \notin C) /\ (\A i \in 1..k : x[i] \notin C)
  BY <1>1, Zenon DEF Without
<1>6. ASSUME NEW i \in 1..(1 + k) PROVE d[i] \notin C
  <2>1. CASE i = 1
    BY <1>3, <2>1
  <2>2. CASE i # 1
    <3>1. i - 1 \in 1..k /\ 1 + (i - 1) = i
      BY <2>2
    <3> QED
      BY <1>3, <1>5, <3>1
  <2> QED
    BY <2>1, <2>2
<1>7. ASSUME NEW i \in 1..(m + (1 + k)) PROVE u[i] \notin C
  <2>1. CASE i \in 1..m
    BY <1>4, <1>5, <2>1
  <2>2. CASE i \notin 1..m
    <3>1. i - m \in 1..(1 + k) /\ m + (i - m) = i
      BY <2>2
    <3> QED
      BY <1>4, <1>6, <3>1
  <2> QED
    BY <2>1, <2>2
<1>8. Without(u, C)
  BY <1>4, <1>7, Zenon DEF Without
<1> QED
  BY <1>8, Zenon DEF u, d

\* The parts of IsName.
LEMMA NameParts ==
  ASSUME NEW labels, NEW C, IsName(labels, C)
  PROVE  /\ labels \in Seq(CharSeq)
         /\ Len(labels) \in Nat \ {0}
         /\ \A i \in 1..Len(labels) : labels[i] \in CharSeq
         /\ \A i \in 1..Len(labels) : Without(labels[i], {"."}) /\ Without(labels[i], C)
<1>1. labels \in Seq(CharSeq) /\ labels # <<>>
  BY DEF IsName, CharSeq
<1>2. Len(labels) \in Nat \ {0}
  BY <1>1, EmptySeq
<1>3. \A i \in 1..Len(labels) : labels[i] \in CharSeq
  BY <1>1, ElementOfSeq
<1>4. ASSUME NEW i \in 1..Len(labels) PROVE Without(labels[i], {"."}) /\ Without(labels[i], C)
  <2>1. Without(labels[i], {"."} \cup C)
    BY DEF IsName
  <2> QED
    BY <2>1, Zenon DEF Without
<1> QED
  BY <1>1, <1>2, <1>3, <1>4, Zenon

\* A written name starts with its first label, its dotted form with a dot; it
\* has only the characters of its labels, and dots.
LEMMA NameIs ==
  ASSUME NEW labels, NEW C, IsName(labels, C), "." \notin C
  PROVE  /\ Dotted(labels) \in CharSeq /\ Dotted(labels) # <<>> /\ Dotted(labels)[1] = "."
         /\ Without(Dotted(labels), C)
<1>1. PICK n \in Nat \ {0} : n = Len(labels)
  BY NameParts, Zenon
<1>2. /\ labels \in Seq(CharSeq)
      /\ \A i \in 1..n : labels[i] \in CharSeq
      /\ \A i \in 1..n : Without(labels[i], C)
  BY <1>1, NameParts, Zenon
<1>3. PICK f : Unrolled(f, labels, n)
  <2>1. n \in Nat
    OBVIOUS
  <2> QED
    BY <1>2, <2>1, UnrolledExists, Zenon
<1>4. Dotted(labels) = f[n]
  BY <1>1, <1>2, <1>3, DottedIs
<1>5. /\ f \in [0..n -> CharSeq] /\ f[0] = <<>>
      /\ \A i \in 1..n : f[i] = f[i - 1] \o (<<".">> \o labels[i])
  BY <1>3, Zenon DEF Unrolled
<1> DEFINE S == {k \in Nat : /\ Without(f[k], C)
                             /\ k # 0 => f[k] # <<>> /\ f[k][1] = "."}
<1>6. 0 \in S
  <2>1. Without(<<>>, C)
    BY DEF Without
  <2> QED
    BY <1>5, <2>1, Zenon
<1>7. ASSUME NEW k \in S, k < n PROVE k + 1 \in S
  <2>0. k \in Nat /\ k + 1 \in Nat /\ k + 1 \in 1..n /\ k \in 0..n /\ (k + 1) - 1 = k
    BY <1>7
  <2>1. f[k] \in CharSeq /\ labels[k + 1] \in CharSeq /\ Without(labels[k + 1], C) /\ Without(f[k], C)
    BY <1>2, <1>5, <2>0
  <2>2. f[k + 1] = f[k] \o (<<".">> \o labels[k + 1])
    BY <1>5, <2>0, Zenon
  <2>3. Without(f[k + 1], C)
    BY <2>1, <2>2, LabelWithout, Zenon
  <2>4. PICK p \in Nat, q \in Nat : p = Len(f[k]) /\ q = Len(labels[k + 1])
    BY <2>1, LenProperties DEF CharSeq
  <2>5. LabelAt(f[k + 1], f[k], p, labels[k + 1], q)
    BY <2>1, <2>2, <2>4, LabelAtEnd, Zenon
  <2>6. /\ Len(f[k + 1]) = p + q + 1 /\ f[k + 1][p + 1] = "."
        /\ \A i \in 0..(p - 1) : f[k + 1][p - i] = f[k][p - i]
    BY <2>5, Zenon DEF LabelAt
  <2>7. f[k + 1] # <<>>
    <3>1. Len(<<>>) = 0 /\ p + q + 1 # 0
      OBVIOUS
    <3> QED
      BY <2>6, <3>1, Zenon
  <2>8. f[k + 1][1] = "."
    <3>1. CASE p = 0
      <4>1. p + 1 = 1
        BY <3>1
      <4> QED
        BY <2>6, <4>1, Zenon
    <3>2. CASE p # 0
      <4>1. p - 1 \in 0..(p - 1) /\ p - (p - 1) = 1
        BY <3>2
      <4>2. f[k + 1][1] = f[k][1]
        BY <2>6, <4>1, Zenon
      <4>3. k # 0
        BY <1>5, <2>4, <3>2
      <4>4. f[k][1] = "."
        BY <4>3
      <4> QED
        BY <4>2, <4>4, Zenon
    <3> QED
      BY <3>1, <3>2
  <2> QED
    BY <2>0, <2>3, <2>7, <2>8, Zenon
<1>8. n \in S
  <2>1. n \in 0..n /\ S \in SUBSET Nat /\ n \in Nat
    OBVIOUS
  <2> HIDE DEF S
  <2> QED
    BY <1>6, <1>7, <2>1, CountUp
<1>9. Without(f[n], C) /\ f[n] # <<>> /\ f[n][1] = "."
  BY <1>8
<1>10. f[n] \in CharSeq
  BY <1>5
<1> QED
  BY <1>4, <1>9, <1>10, Zenon

\* The dotted form is a dot and the name.
LEMMA NameText ==
  ASSUME NEW labels, NEW C, IsName(labels, C), "." \notin C
  PROVE  /\ Name(labels) \in CharSeq /\ Without(Name(labels), C)
         /\ Dotted(labels) = <<".">> \o Name(labels)
<1> DEFINE d == Dotted(labels)  t == Name(labels)  u == <<".">> \o t
<1>1. d \in CharSeq /\ d # <<>> /\ d[1] = "." /\ Without(d, C)
  BY NameIs, Zenon
<1>2. t = Tail(d)
  BY Zenon DEF Name, Dotted
<1> HIDE DEF d, t
<1>3. PICK n \in Nat \ {0} : n = Len(d)
  BY <1>1, EmptySeq DEF CharSeq
<1>4. t \in CharSeq /\ Len(t) = n - 1 /\ \A i \in 1..(n - 1) : t[i] = d[i + 1]
  BY <1>1, <1>2, <1>3, HeadTailProperties DEF CharSeq
<1>5. Without(t, C)
  <2>1. \A i \in 1..n : d[i] \notin C
    BY <1>1, <1>3, Zenon DEF Without
  <2>2. \A i \in 1..(n - 1) : i + 1 \in 1..n
    OBVIOUS
  <2>3. \A i \in 1..(n - 1) : t[i] \notin C
    BY <1>4, <2>1, <2>2
  <2> QED
    BY <1>4, <2>3, Zenon DEF Without
<1>6. <<".">> \in CharSeq /\ Len(<<".">>) = 1 /\ <<".">>[1] = "."
  BY LowerMarks
<1>7. /\ u \in CharSeq /\ Len(u) = 1 + (n - 1) /\ u[1] = "."
      /\ \A i \in 1..(n - 1) : u[1 + i] = t[i]
  <2>1. /\ u \in CharSeq /\ Len(u) = Len(<<".">>) + Len(t)
        /\ \A i \in 1..Len(<<".">>) : u[i] = <<".">>[i]
        /\ \A i \in 1..Len(t) : u[Len(<<".">>) + i] = t[i]
    BY <1>4, <1>6, Joined, Zenon
  <2> HIDE DEF u
  <2> QED
    BY <1>4, <1>6, <2>1
<1> HIDE DEF u
<1>8. ASSUME NEW i \in 1..n PROVE d[i] = u[i]
  <2>1. CASE i = 1
    BY <1>1, <1>7, <2>1
  <2>2. CASE i # 1
    <3>1. i - 1 \in 1..(n - 1) /\ 1 + (i - 1) = i /\ (i - 1) + 1 = i
      BY <2>2
    <3> QED
      BY <1>4, <1>7, <3>1
  <2> QED
    BY <2>1, <2>2
<1>9. Len(u) = n
  BY <1>7
<1>10. d = u
  BY <1>1, <1>3, <1>7, <1>8, <1>9, SameText, Zenon
<1> QED
  BY <1>4, <1>5, <1>10, Zenon DEF d, t, u

\* Folding a name.
LEMMA FoldName ==
  ASSUME NEW labels, NEW C, IsName(labels, C), "a" \notin C
  PROVE  /\ IsName(Fold(labels), C) /\ Len(Fold(labels)) = Len(labels)
         /\ \A i \in 1..Len(labels) : Fold(labels)[i] = Lower(labels[i])
<1>1. PICK n \in Nat \ {0} : n = Len(labels)
  BY NameParts, Zenon
<1>2. /\ labels \in Seq(CharSeq)
      /\ \A i \in 1..n : labels[i] \in CharSeq
      /\ \A i \in 1..n : Without(labels[i], {"."} \cup C)
  BY <1>1, NameParts, Zenon DEF IsName
<1>3. DOMAIN labels = 1..n
  BY <1>1, <1>2, LenProperties
<1> DEFINE l == Fold(labels)
<1>4. l = [i \in 1..n |-> Lower(labels[i])]
  BY <1>3, Zenon DEF Fold
<1> HIDE DEF l
<1>5. \A i \in 1..n : Lower(labels[i]) \in CharSeq
  BY <1>2, LowerText, Zenon
<1>6. l \in [1..n -> CharSeq] /\ \A i \in 1..n : l[i] = Lower(labels[i])
  BY <1>4, <1>5, Zenon
<1>7. l \in Seq(CharSeq) /\ Len(l) = n
  BY <1>6, IsASeq
<1>8. ASSUME NEW i \in 1..n PROVE Without(l[i], {"."} \cup C)
  <2>1. "a" \notin {"."} \cup C
    OBVIOUS
  <2>2. labels[i] \in CharSeq /\ Without(labels[i], {"."} \cup C)
    BY <1>2, Zenon
  <2>3. Without(Lower(labels[i]), {"."} \cup C)
    BY <2>1, <2>2, LowerWithout, Zenon
  <2> QED
    BY <1>6, <2>3, Zenon
<1>9. l # <<>>
  BY <1>7
<1>10. IsName(l, C)
  BY <1>7, <1>8, <1>9, Zenon DEF IsName, CharSeq
<1> QED
  BY <1>1, <1>6, <1>7, <1>10, Zenon DEF l

\* The lower-case text of a name is the text of its lower-case labels.
LEMMA LowerName ==
  ASSUME NEW labels, NEW C, IsName(labels, C)
  PROVE  Lower(Name(labels)) = Name(Fold(labels)) /\ Lower(Dotted(labels)) = Dotted(Fold(labels))
<1>0. IsName(labels, {})
  BY Zenon DEF IsName, Without
<1>1. PICK n \in Nat \ {0} : n = Len(labels)
  BY NameParts, Zenon
<1>2. labels \in Seq(CharSeq) /\ \A i \in 1..n : labels[i] \in CharSeq
  BY <1>1, NameParts, Zenon
<1> DEFINE ls == Fold(labels)
<1>3. IsName(ls, {}) /\ n = Len(ls) /\ \A i \in 1..n : ls[i] = Lower(labels[i])
  BY <1>0, <1>1, FoldName, Zenon
<1> HIDE DEF ls
<1>4. ls \in Seq(CharSeq) /\ \A i \in 1..n : ls[i] \in CharSeq
  BY <1>3, NameParts, Zenon
<1>5. n \in Nat
  OBVIOUS
<1>6. PICK f : Unrolled(f, labels, n)
  BY <1>2, <1>5, UnrolledExists, Zenon
<1>7. PICK g : Unrolled(g, ls, n)
  BY <1>4, <1>5, UnrolledExists, Zenon
<1>8. Dotted(labels) = f[n]
  BY <1>1, <1>2, <1>6, DottedIs
<1>9. Dotted(ls) = g[n]
  BY <1>3, <1>4, <1>7, DottedIs
<1>10. /\ f \in [0..n -> CharSeq] /\ f[0] = <<>>
       /\ \A i \in 1..n : f[i] = f[i - 1] \o (<<".">> \o labels[i])
  BY <1>6, Zenon DEF Unrolled
<1>11. /\ g \in [0..n -> CharSeq] /\ g[0] = <<>>
       /\ \A i \in 1..n : g[i] = g[i - 1] \o (<<".">> \o ls[i])
  BY <1>7, Zenon DEF Unrolled
<1> DEFINE S == {k \in Nat : Lower(f[k]) = g[k]}
<1>12. 0 \in S
  <2>1. <<>> \in CharSeq /\ Without(<<>>, {"A"})
    BY EmptySeq DEF CharSeq, Without
  <2>2. Lower(<<>>) = <<>>
    BY <2>1, LowerFixed, Zenon
  <2> QED
    BY <1>10, <1>11, <2>2, Zenon
<1>13. ASSUME NEW k \in S, k < n PROVE k + 1 \in S
  <2>0. k \in Nat /\ k + 1 \in Nat /\ k + 1 \in 1..n /\ k \in 0..n /\ (k + 1) - 1 = k
    BY <1>13
  <2>1. f[k] \in CharSeq /\ labels[k + 1] \in CharSeq
    BY <1>2, <1>10, <2>0
  <2>2. f[k + 1] = f[k] \o (<<".">> \o labels[k + 1])
    BY <1>10, <2>0, Zenon
  <2>3. g[k + 1] = g[k] \o (<<".">> \o ls[k + 1])
    BY <1>11, <2>0, Zenon
  <2>4. <<".">> \in CharSeq /\ Lower(<<".">>) = <<".">>
    BY LowerMarks, Zenon
  <2>5. <<".">> \o labels[k + 1] \in CharSeq
    BY <2>1, DotLabel, Zenon
  <2>6. Lower(<<".">> \o labels[k + 1]) = <<".">> \o Lower(labels[k + 1])
    BY <2>1, <2>4, LowerJoined, Zenon
  <2>7. Lower(f[k] \o (<<".">> \o labels[k + 1])) = Lower(f[k]) \o Lower(<<".">> \o labels[k + 1])
    BY <2>1, <2>5, LowerJoined, Zenon
  <2>8. Lower(f[k]) = g[k] /\ Lower(labels[k + 1]) = ls[k + 1]
    BY <1>3, <2>0, Zenon
  <2>9. Lower(f[k + 1]) = g[k + 1]
    BY <2>2, <2>3, <2>6, <2>7, <2>8, Zenon
  <2> QED
    BY <2>0, <2>9, Zenon
<1>14. n \in S
  <2>1. n \in 0..n /\ S \in SUBSET Nat /\ n \in Nat
    OBVIOUS
  <2> HIDE DEF S
  <2> QED
    BY <1>12, <1>13, <2>1, CountUp
<1>15. Lower(Dotted(labels)) = Dotted(ls)
  BY <1>8, <1>9, <1>14, Zenon
<1>16. Name(labels) \in CharSeq /\ Dotted(labels) = <<".">> \o Name(labels)
  <2>1. "." \notin {}
    OBVIOUS
  <2> QED
    BY <1>0, <2>1, NameText, Zenon
<1>17. Name(ls) \in CharSeq /\ Dotted(ls) = <<".">> \o Name(ls)
  <2>1. "." \notin {}
    OBVIOUS
  <2> QED
    BY <1>3, <2>1, NameText, Zenon
<1>18. <<".">> \in CharSeq /\ Lower(<<".">>) = <<".">>
  BY LowerMarks, Zenon
<1>19. Lower(Dotted(labels)) = <<".">> \o Lower(Name(labels))
  BY <1>16, <1>18, LowerJoined, Zenon
<1>20. Lower(Name(labels)) \in CharSeq
  BY <1>16, LowerText, Zenon
<1>21. Lower(Name(labels)) = Name(ls)
  <2>1. <<".">> \o Lower(Name(labels)) = <<".">> \o Name(ls)
    BY <1>15, <1>17, <1>19, Zenon
  <2> QED
    BY <1>17, <1>18, <1>20, <2>1, ConcatSimplifications DEF CharSeq
<1> QED
  BY <1>15, <1>21, Zenon DEF ls

-----------------------------------------------------------------------------
(* One name at the end of another.                                         *)

\* A suffix of the same length is the whole.
LEMMA EndsWhole ==
  ASSUME NEW S, NEW s \in Seq(S), NEW t \in Seq(S), Ends(s, t), Len(s) = Len(t)
  PROVE  s = t
<1>1. PICK n \in Nat : n = Len(s) /\ n = Len(t)
  BY LenProperties
<1>2. \A k \in 0..(n - 1) : s[n - k] = t[n - k]
  BY <1>1 DEF Ends
<1>3. ASSUME NEW i \in 1..n PROVE s[i] = t[i]
  <2>1. n - i \in 0..(n - 1) /\ n - (n - i) = i
    OBVIOUS
  <2> QED
    BY <1>2, <2>1
<1> QED
  BY <1>1, <1>3, SeqEqual

\* Everything is its own suffix.
LEMMA EndsSelf ==
  ASSUME NEW S, NEW s \in Seq(S)
  PROVE  Ends(s, s)
<1>1. Len(s) \in Nat
  BY LenProperties
<1> QED
  BY <1>1 DEF Ends

\* A dot before a text, by position from the end.
LEMMA DotText ==
  ASSUME NEW t \in CharSeq
  PROVE  /\ <<".">> \o t \in CharSeq /\ Len(<<".">> \o t) = Len(t) + 1
         /\ (<<".">> \o t)[1] = "."
         /\ \A i \in 1..Len(t) : (<<".">> \o t)[i + 1] = t[i]
<1> DEFINE u == <<".">> \o t
<1>1. <<".">> \in CharSeq /\ Len(<<".">>) = 1 /\ <<".">>[1] = "."
  BY LowerMarks
<1>2. PICK n \in Nat : n = Len(t)
  BY LenProperties DEF CharSeq
<1>3. /\ u \in CharSeq /\ Len(u) = Len(<<".">>) + Len(t)
      /\ \A i \in 1..Len(<<".">>) : u[i] = <<".">>[i]
      /\ \A i \in 1..Len(t) : u[Len(<<".">>) + i] = t[i]
  BY <1>1, Joined, Zenon
<1> HIDE DEF u
<1>4. u \in CharSeq /\ Len(u) = 1 + n /\ u[1] = "." /\ \A i \in 1..n : u[1 + i] = t[i]
  BY <1>1, <1>2, <1>3
<1>5. 1 + n = n + 1 /\ \A i \in 1..n : 1 + i = i + 1
  OBVIOUS
<1>6. \A i \in 1..n : u[i + 1] = t[i]
  BY <1>4, <1>5
<1> QED
  BY <1>2, <1>4, <1>5, <1>6, Zenon DEF u

\* What ends a text ends it with the dot before it too, and is not all of it.
LEMMA EndsTail ==
  ASSUME NEW d \in CharSeq, NEW t \in CharSeq
  PROVE  Ends(d, t) <=> Ends(d, <<".">> \o t) /\ Len(d) # Len(<<".">> \o t)
<1> DEFINE u == <<".">> \o t
<1>1. PICK m \in Nat, n \in Nat : m = Len(d) /\ n = Len(t)
  BY LenProperties DEF CharSeq
<1>2. Len(u) = n + 1 /\ \A i \in 1..n : u[i + 1] = t[i]
  BY <1>1, DotText, Zenon
<1> HIDE DEF u
<1>3. Ends(d, t) <=> m <= n /\ \A k \in 0..(m - 1) : d[m - k] = t[n - k]
  BY <1>1, Zenon DEF Ends
<1>4. Ends(d, u) <=> m <= n + 1 /\ \A k \in 0..(m - 1) : d[m - k] = u[(n + 1) - k]
  BY <1>1, <1>2, Zenon DEF Ends
<1>5. m <= n <=> m <= n + 1 /\ m # n + 1
  OBVIOUS
<1>6. ASSUME m <= n, NEW k \in 0..(m - 1) PROVE u[(n + 1) - k] = t[n - k]
  <2>1. n - k \in 1..n /\ (n - k) + 1 = (n + 1) - k
    BY <1>6
  <2> QED
    BY <1>2, <2>1
<1>7. ASSUME m <= n
      PROVE (\A k \in 0..(m - 1) : d[m - k] = t[n - k]) <=> \A k \in 0..(m - 1) : d[m - k] = u[(n + 1) - k]
  BY <1>6, <1>7, Zenon
<1>8. Ends(d, t) <=> Ends(d, u) /\ m # n + 1
  BY <1>3, <1>4, <1>5, <1>7, Zenon
<1> QED
  BY <1>1, <1>2, <1>8, Zenon DEF u

\* ends_with the suffix, longer than it, and a dot before it.
LEMMA DotBefore ==
  ASSUME NEW r \in CharSeq, NEW t \in CharSeq
  PROVE  Ends(<<".">> \o r, t) <=>
           Ends(r, t) /\ Len(t) > Len(r) /\ t[Len(t) - Len(r)] = "."
<1> DEFINE u == <<".">> \o r
<1>1. PICK m \in Nat, n \in Nat : m = Len(r) /\ n = Len(t)
  BY LenProperties DEF CharSeq
<1>2. Len(u) = m + 1 /\ u[1] = "." /\ \A i \in 1..m : u[i + 1] = r[i]
  BY <1>1, DotText, Zenon
<1> HIDE DEF u
<1>3. Ends(r, t) <=> m <= n /\ \A k \in 0..(m - 1) : r[m - k] = t[n - k]
  BY <1>1, Zenon DEF Ends
<1>4. Ends(u, t) <=> m + 1 <= n /\ \A k \in 0..((m + 1) - 1) : u[(m + 1) - k] = t[n - k]
  BY <1>1, <1>2, Zenon DEF Ends
<1>5. ASSUME NEW k \in 0..(m - 1) PROVE u[(m + 1) - k] = r[m - k]
  <2>1. m - k \in 1..m /\ (m - k) + 1 = (m + 1) - k
    OBVIOUS
  <2> QED
    BY <1>2, <2>1
<1>6. ASSUME Ends(u, t) PROVE Ends(r, t) /\ n > m /\ t[n - m] = "."
  <2>1. m + 1 <= n /\ \A k \in 0..((m + 1) - 1) : u[(m + 1) - k] = t[n - k]
    BY <1>4, <1>6
  <2>2. m \in 0..((m + 1) - 1) /\ (m + 1) - m = 1 /\ n > m /\ m <= n
    BY <2>1
  <2>3. t[n - m] = "."
    BY <1>2, <2>1, <2>2
  <2>4. ASSUME NEW k \in 0..(m - 1) PROVE r[m - k] = t[n - k]
    <3>1. k \in 0..((m + 1) - 1)
      OBVIOUS
    <3> QED
      BY <1>5, <2>1, <3>1
  <2> QED
    BY <1>3, <2>2, <2>3, <2>4, Zenon
<1>7. ASSUME Ends(r, t), n > m, t[n - m] = "." PROVE Ends(u, t)
  <2>1. \A k \in 0..(m - 1) : r[m - k] = t[n - k]
    BY <1>3, <1>7, Zenon
  <2>2. ASSUME NEW k \in 0..((m + 1) - 1) PROVE u[(m + 1) - k] = t[n - k]
    <3>1. CASE k = m
      <4>1. (m + 1) - k = 1
        BY <3>1
      <4> QED
        BY <1>2, <1>7, <3>1, <4>1, Zenon
    <3>2. CASE k # m
      <4>1. k \in 0..(m - 1)
        BY <3>2
      <4> QED
        BY <1>5, <2>1, <4>1, Zenon
    <3> QED
      BY <3>1, <3>2
  <2>3. m + 1 <= n
    BY <1>7
  <2> QED
    BY <1>4, <2>2, <2>3, Zenon
<1>8. Ends(u, t) <=> Ends(r, t) /\ n > m /\ t[n - m] = "."
  BY <1>6, <1>7, Zenon
<1> QED
  BY <1>1, <1>8, Zenon DEF u

\* Names, with their dots, end each other as their labels do.
LEMMA NamesEnd ==
  ASSUME NEW ls, NEW C, IsName(ls, C), NEW ms, NEW D, IsName(ms, D)
  PROVE  Ends(Dotted(ls), Dotted(ms)) <=> Ends(ls, ms)
<1>1. PICK n \in Nat \ {0} : n = Len(ls)
  BY NameParts, Zenon
<1>2. PICK m \in Nat \ {0} : m = Len(ms)
  BY NameParts, Zenon
<1>3. ls \in Seq(CharSeq) /\ \A i \in 1..n : ls[i] \in CharSeq /\ Without(ls[i], {"."})
  BY <1>1, NameParts, Zenon
<1>4. ms \in Seq(CharSeq) /\ \A i \in 1..m : ms[i] \in CharSeq /\ Without(ms[i], {"."})
  BY <1>2, NameParts, Zenon
<1>5. n \in Nat /\ m \in Nat
  OBVIOUS
<1>6. PICK f : Unrolled(f, ls, n)
  BY <1>3, <1>5, UnrolledExists, Zenon
<1>7. PICK g : Unrolled(g, ms, m)
  BY <1>4, <1>5, UnrolledExists, Zenon
<1>8. Dotted(ls) = f[n]
  BY <1>1, <1>3, <1>6, DottedIs
<1>9. Dotted(ms) = g[m]
  BY <1>2, <1>4, <1>7, DottedIs
<1>10. Ends(f[n], g[m]) <=> Ends(ls, ms)
  BY <1>1, <1>2, <1>3, <1>4, <1>5, <1>6, <1>7, LabelsEnd
<1> QED
  BY <1>8, <1>9, <1>10, Zenon

\* IsSuffix, for texts and for labels.
LEMMA SuffixText ==
  ASSUME NEW s \in CharSeq, NEW t \in CharSeq
  PROVE  IsSuffix(s, t) <=> Ends(s, t)
  BY SuffixIs DEF CharSeq

LEMMA SuffixLabels ==
  ASSUME NEW ls, NEW C, IsName(ls, C), NEW ms, NEW D, IsName(ms, D)
  PROVE  IsSuffix(ls, ms) <=> Ends(ls, ms)
<1>1. ls \in Seq(CharSeq) /\ ms \in Seq(CharSeq)
  BY NameParts, Zenon
<1> QED
  BY <1>1, SuffixIs

\* Different names are written differently.
LEMMA SameName ==
  ASSUME NEW ls, NEW C, IsName(ls, C), NEW ms, NEW D, IsName(ms, D),
         Dotted(ls) \in CharSeq, Dotted(ls) = Dotted(ms)
  PROVE  ls = ms
<1>1. Ends(Dotted(ls), Dotted(ls))
  BY EndsSelf DEF CharSeq
<1>2. Ends(Dotted(ls), Dotted(ms)) /\ Ends(Dotted(ms), Dotted(ls))
  BY <1>1
<1>3. Ends(ls, ms)
  BY <1>2, NamesEnd, Zenon
<1>4. Ends(ms, ls)
  BY <1>2, NamesEnd, Zenon
<1>5. ls \in Seq(CharSeq) /\ ms \in Seq(CharSeq)
  BY NameParts, Zenon
<1>6. PICK n \in Nat, m \in Nat : n = Len(ls) /\ m = Len(ms)
  BY <1>5, LenProperties
<1>7. n <= m /\ m <= n
  BY <1>3, <1>4, <1>6 DEF Ends
<1>8. Len(ls) = Len(ms)
  BY <1>6, <1>7
<1> QED
  BY <1>3, <1>5, <1>8, EndsWhole

\* The same name, a subdomain of it, and either.
LEMMA NamesCompared ==
  ASSUME NEW ls, NEW C, IsName(ls, C), NEW ms, NEW D, IsName(ms, D), "." \notin C, "." \notin D
  PROVE  /\ Name(ls) = Name(ms) <=> ls = ms
         /\ Ends(Dotted(ls), Name(ms)) <=> IsSuffix(ls, ms) /\ Len(ms) > Len(ls)
         /\ Name(ms) = Name(ls) \/ Ends(Dotted(ls), Name(ms)) <=> IsSuffix(ls, ms)
<1>1. Name(ls) \in CharSeq /\ Dotted(ls) = <<".">> \o Name(ls) /\ Dotted(ls) \in CharSeq
  BY NameText, NameIs, Zenon
<1>2. Name(ms) \in CharSeq /\ Dotted(ms) = <<".">> \o Name(ms) /\ Dotted(ms) \in CharSeq
  BY NameText, NameIs, Zenon
<1>3. Name(ls) = Name(ms) => ls = ms
  <2>1. ASSUME Name(ls) = Name(ms) PROVE ls = ms
    <3>1. Dotted(ls) = Dotted(ms)
      BY <1>1, <1>2, <2>1, Zenon
    <3> QED
      BY <1>1, <3>1, SameName, Zenon
  <2> QED
    BY <2>1
<1>4. Ends(Dotted(ls), Name(ms)) <=> Ends(Dotted(ls), Dotted(ms)) /\ Len(Dotted(ls)) # Len(Dotted(ms))
  BY <1>1, <1>2, EndsTail, Zenon
<1>5. Ends(Dotted(ls), Dotted(ms)) <=> Ends(ls, ms)
  BY NamesEnd, Zenon
<1>6. PICK n \in Nat, m \in Nat : n = Len(ls) /\ m = Len(ms) /\ ls \in Seq(CharSeq) /\ ms \in Seq(CharSeq)
  <2>1. ls \in Seq(CharSeq) /\ ms \in Seq(CharSeq)
    BY NameParts, Zenon
  <2> QED
    BY <2>1, LenProperties
<1>7. ASSUME Ends(ls, ms) PROVE Len(Dotted(ls)) # Len(Dotted(ms)) <=> m > n
  <2>1. ASSUME Len(Dotted(ls)) = Len(Dotted(ms)) PROVE ~(m > n)
    <3>1. Dotted(ls) = Dotted(ms)
      BY <1>1, <1>2, <1>5, <1>7, <2>1, EndsWhole DEF CharSeq
    <3>2. ls = ms
      BY <1>1, <3>1, SameName, Zenon
    <3> QED
      BY <1>6, <3>2
  <2>2. ASSUME ~(m > n) PROVE Len(Dotted(ls)) = Len(Dotted(ms))
    <3>1. n <= m
      BY <1>6, <1>7 DEF Ends
    <3>2. n = m
      BY <2>2, <3>1
    <3>3. ls = ms
      BY <1>6, <1>7, <3>2, EndsWhole
    <3> QED
      BY <3>3
  <2> QED
    BY <2>1, <2>2
<1>8. IsSuffix(ls, ms) <=> Ends(ls, ms)
  BY SuffixLabels, Zenon
<1>9. Ends(Dotted(ls), Name(ms)) <=> IsSuffix(ls, ms) /\ Len(ms) > Len(ls)
  BY <1>4, <1>5, <1>6, <1>7, <1>8, Zenon
<1>10. ASSUME ls = ms PROVE IsSuffix(ls, ms)
  <2>1. Ends(ls, ls)
    BY <1>6, EndsSelf
  <2> QED
    BY <1>8, <1>10, <2>1, Zenon
<1>11. ASSUME IsSuffix(ls, ms), ~(Len(ms) > Len(ls)) PROVE ls = ms
  <2>1. n <= m
    BY <1>6, <1>8, <1>11 DEF Ends
  <2>2. Len(ls) = Len(ms)
    BY <1>6, <1>11, <2>1
  <2> QED
    BY <1>6, <1>8, <1>11, <2>2, EndsWhole
<1> QED
  BY <1>3, <1>9, <1>10, <1>11, Zenon

-----------------------------------------------------------------------------
(* HostPattern.                                                            *)

\* Two texts without some characters.
LEMMA JoinedWithout ==
  ASSUME NEW a \in CharSeq, NEW b \in CharSeq, NEW C, Without(a, C), Without(b, C)
  PROVE  Without(a \o b, C)
<1> DEFINE u == a \o b
<1>1. PICK m \in Nat, n \in Nat : m = Len(a) /\ n = Len(b)
  BY LenProperties DEF CharSeq
<1>2. Len(u) = m + n /\ (\A i \in 1..m : u[i] = a[i]) /\ (\A i \in 1..n : u[m + i] = b[i])
  BY <1>1, Joined, Zenon
<1> HIDE DEF u
<1>3. (\A i \in 1..m : a[i] \notin C) /\ (\A i \in 1..n : b[i] \notin C)
  BY <1>1, Zenon DEF Without
<1>4. ASSUME NEW i \in 1..(m + n) PROVE u[i] \notin C
  <2>1. CASE i \in 1..m
    BY <1>2, <1>3, <2>1
  <2>2. CASE i \notin 1..m
    <3>1. i - m \in 1..n /\ m + (i - m) = i
      BY <2>2
    <3> QED
      BY <1>2, <1>3, <3>1
  <2> QED
    BY <2>1, <2>2
<1> QED
  BY <1>2, <1>4, Zenon DEF Without, u

\* The wildcard's text.
Star(wild) == IF wild THEN <<"*", ".">> ELSE <<>>

LEMMA StarText ==
  ASSUME NEW wild \in BOOLEAN
  PROVE  Star(wild) \in CharSeq /\ Lower(Star(wild)) = Star(wild) /\ Without(Star(wild), {":"})
<1>1. CASE wild
  <2>1. Star(wild) = <<"*", ".">>
    BY <1>1 DEF Star
  <2>2. Without(<<"*", ".">>, {":"})
    BY DEF Without
  <2> QED
    BY <2>1, <2>2, LowerMarks, Zenon
<1>2. CASE ~wild
  <2>1. Star(wild) = <<>>
    BY <1>2 DEF Star
  <2>2. <<>> \in CharSeq /\ Without(<<>>, {":"}) /\ Without(<<>>, {"A"})
    BY EmptySeq DEF CharSeq, Without
  <2> QED
    BY <2>1, <2>2, LowerFixed, Zenon
<1> QED
  BY <1>1, <1>2

\* A pattern as the configuration file holds it.
IsRule(r) ==
  /\ r.wild \in BOOLEAN /\ r.port \in {""} \cup DOMAIN Ports
  /\ IsName(r.name, {":", "*"})

\* HostPattern::parse reads what the operator wrote: the name in small letters,
\* with the wildcard, and the port if there is one.
LEMMA ParseWritten ==
  ASSUME NEW r, IsRule(r)
  PROVE  Parse(Written(r)) = [host |-> Star(r.wild) \o Name(Fold(r.name)),
                              port |-> IF r.port = "" THEN NoPort ELSE Ports[r.port]]
<1> DEFINE C == {":", "*"}
           u == Star(r.wild) \o Name(r.name)
           l == Star(r.wild) \o Name(Fold(r.name))
<1>1. r.wild \in BOOLEAN /\ r.port \in {""} \cup DOMAIN Ports /\ IsName(r.name, C)
  BY DEF IsRule
<1>2. "." \notin C /\ "a" \notin C
  OBVIOUS
<1>3. Star(r.wild) \in CharSeq /\ Lower(Star(r.wild)) = Star(r.wild) /\ Without(Star(r.wild), {":"})
  BY <1>1, StarText, Zenon
<1> HIDE DEF C
<1>4. Name(r.name) \in CharSeq
  BY <1>1, <1>2, NameText, Zenon
<1>5. IsName(Fold(r.name), C)
  BY <1>1, <1>2, FoldName, Zenon
<1>6. Name(Fold(r.name)) \in CharSeq /\ Without(Name(Fold(r.name)), C)
  BY <1>2, <1>5, NameText, Zenon
<1>7. Without(Name(Fold(r.name)), {":"})
  BY <1>6, Zenon DEF Without, C
<1>8. Lower(Name(r.name)) = Name(Fold(r.name))
  BY <1>1, LowerName, Zenon
<1>9. u \in CharSeq /\ l \in CharSeq
  BY <1>3, <1>4, <1>6, Joined, Zenon
<1>10. Lower(u) = l
  BY <1>3, <1>4, <1>8, LowerJoined, Zenon
<1>11. Without(l, {":"})
  BY <1>3, <1>6, <1>7, JoinedWithout, Zenon
<1>12. Written(r) = u \o (IF r.port = "" THEN <<>> ELSE <<":", r.port>>)
  BY Zenon DEF Written, Star
<1> HIDE DEF u, l
<1>13. CASE r.port = ""
  <2>1. Written(r) = u
    <3>1. Written(r) = u \o <<>>
      BY <1>12, <1>13, Zenon
    <3>2. u \o <<>> = u
      BY <1>9, ConcatEmptySeq DEF CharSeq
    <3> QED
      BY <3>1, <3>2, Zenon
  <2>2. LastColon(l) = 0
    BY <1>9, <1>11, NoColon, Zenon
  <2>3. Parse(Written(r)) = [host |-> l, port |-> NoPort]
    BY <1>10, <2>1, <2>2, Zenon DEF Parse
  <2> QED
    BY <1>13, <2>3, Zenon DEF l
<1>14. CASE r.port # ""
  <2>1. r.port \in DOMAIN Ports
    BY <1>1, <1>14
  <2>2. r.port \in Char /\ r.port # ":" /\ PortOf(<<r.port>>) = Ports[r.port]
    BY <2>1, PortReads, Zenon
  <2>3. Lower(<<":", r.port>>) = <<":", r.port>> /\ <<":", r.port>> \in CharSeq
    BY <2>1, LowerMarks, Zenon
  <2>4. Written(r) = u \o <<":", r.port>>
    BY <1>12, <1>14, Zenon
  <2>5. Lower(Written(r)) = l \o <<":", r.port>>
    BY <1>9, <1>10, <2>3, <2>4, LowerJoined, Zenon
  <2> DEFINE w == l \o <<":", r.port>>
  <2>6. /\ LastColon(w) = Len(l) + 1 /\ LastColon(w) # 0
        /\ Before(w, Len(l) + 1) = l /\ After(w, Len(l) + 1) = <<r.port>>
    BY <1>9, <2>2, LastColonAt, Zenon
  <2> HIDE DEF w
  <2>7. Ports[r.port] # NoPort
    BY <2>1 DEF Ports, NoPort
  <2>8. Parse(Written(r)) = [host |-> l, port |-> Ports[r.port]]
    BY <2>2, <2>5, <2>6, <2>7, Zenon DEF Parse, w
  <2> QED
    BY <1>14, <2>8, Zenon DEF l
<1> QED
  BY <1>13, <1>14

\* Ports are compared as numbers.
LEMMA PortsCompared ==
  ASSUME NEW p \in {""} \cup DOMAIN Ports, NEW port \in DOMAIN Ports
  PROVE  (IF p = "" THEN NoPort ELSE Ports[p]) \in {NoPort, Ports[port]} <=> p \in {"", port}
<1>1. DOMAIN Ports = {"80", "443", "1"} /\ Ports["80"] = 80 /\ Ports["443"] = 443 /\ Ports["1"] = 1
  BY DEF Ports
<1>2. p \in {"", "80", "443", "1"} /\ port \in {"80", "443", "1"}
  BY <1>1, Zenon
<1>3. CASE p = ""
  BY <1>3
<1>4. CASE p # ""
  <2>1. p \in {"80", "443", "1"}
    BY <1>2, <1>4
  <2>2. Ports[p] # NoPort /\ (Ports[p] = Ports[port] <=> p = port)
    <3>1. CASE p = "80"
      BY <1>1, <1>2, <3>1 DEF NoPort
    <3>2. CASE p = "443"
      BY <1>1, <1>2, <3>2 DEF NoPort
    <3>3. CASE p = "1"
      BY <1>1, <1>2, <3>3 DEF NoPort
    <3> QED
      BY <2>1, <3>1, <3>2, <3>3
  <2> QED
    BY <1>4, <2>2
<1> QED
  BY <1>3, <1>4

\* HostPattern::matches accepts a host in small letters and a port exactly when
\* the rule is documented to cover them.
THEOREM PatternMatches ==
  ASSUME NEW r, IsRule(r), NEW labels, IsName(labels, {}), NEW port \in DOMAIN Ports
  PROVE  Matches(Parse(Written(r)), Lower(Name(labels)), Ports[port]) <=> Covers(r, labels, port)
<1> DEFINE C == {":", "*"}
           rn == Fold(r.name)
           ls == Fold(labels)
           h == Name(ls)
           n == Name(rn)
           p == Parse(Written(r))
           portOK == p.port \in {NoPort, Ports[port]}
<1>1. r.wild \in BOOLEAN /\ r.port \in {""} \cup DOMAIN Ports /\ IsName(r.name, C)
  BY DEF IsRule
<1>2. "." \notin C /\ "a" \notin C /\ "." \notin {} /\ "a" \notin {}
  OBVIOUS
<1>a. \A t : Without(t, C) => Without(t, {"*"})
  BY Zenon DEF Without
<1> HIDE DEF C
<1>3. IsName(rn, C) /\ IsName(ls, {}) /\ Len(ls) = Len(labels)
  BY <1>1, <1>2, FoldName, Zenon
<1>4. Lower(Name(labels)) = h
  BY LowerName, Zenon
<1> HIDE DEF rn, ls
<1>5. n \in CharSeq /\ Without(n, C) /\ Dotted(rn) = <<".">> \o n
  BY <1>2, <1>3, NameText, Zenon
<1>6. h \in CharSeq
  BY <1>2, <1>3, NameText, Zenon
<1>7. /\ n = h <=> rn = ls
      /\ Ends(Dotted(rn), h) <=> IsSuffix(rn, ls) /\ Len(ls) > Len(rn)
  BY <1>2, <1>3, NamesCompared, Zenon
<1> HIDE DEF h, n
<1>8. p.host = Star(r.wild) \o n /\ (p.port = IF r.port = "" THEN NoPort ELSE Ports[r.port])
  <2>1. p = [host |-> Star(r.wild) \o n, port |-> IF r.port = "" THEN NoPort ELSE Ports[r.port]]
    BY ParseWritten, Zenon DEF n, rn
  <2> HIDE DEF p
  <2> QED
    BY <2>1
<1> HIDE DEF p
<1>9. portOK <=> r.port \in {"", port}
  BY <1>1, <1>8, PortsCompared
<1>10. Covers(r, labels, port) <=>
         /\ r.port \in {"", port}
         /\ IF r.wild THEN IsSuffix(rn, ls) /\ Len(labels) > Len(rn) ELSE rn = ls
  BY Zenon DEF Covers, rn, ls
<1>11. CASE r.wild
  <2> DEFINE s == <<"*", ".">>
             w == s \o n
  <2>1. s \in CharSeq /\ Len(s) = 2
    BY LowerMarks
  <2>2. p.host = w
    BY <1>8, <1>11, Zenon DEF Star
  <2> HIDE DEF s
  <2>3. /\ w \in CharSeq /\ Len(n) \in Nat /\ Len(w) = Len(s) + Len(n)
        /\ \A i \in 1..Len(s) : w[i] = s[i]
    BY <1>5, <2>1, Joined, Zenon
  <2>4. SubSeq(w, Len(s) + 1, Len(w)) = n
    BY <1>5, <2>1, JoinedParts, Zenon
  <2> HIDE DEF w
  <2>5. IsPrefix(s, w)
    <3>1. Len(s) \in Nat /\ Len(w) \in Nat /\ Len(s) <= Len(w)
      BY <2>1, <2>3
    <3> QED
      BY <2>1, <2>3, <3>1, PrefixIs DEF CharSeq
  <2>6. After(w, 2) = n
    BY <2>1, <2>4, Zenon DEF After
  <2>7. Matches(p, h, Ports[port]) <=>
          /\ portOK
          /\ IsSuffix(n, h) /\ Len(h) > Len(n) /\ h[Len(h) - Len(n)] = "."
    BY <2>2, <2>5, <2>6, Zenon DEF Matches, s
  <2>8. IsSuffix(n, h) <=> Ends(n, h)
    BY <1>5, <1>6, SuffixText, Zenon
  <2>9. Ends(<<".">> \o n, h) <=> Ends(n, h) /\ Len(h) > Len(n) /\ h[Len(h) - Len(n)] = "."
    BY <1>5, <1>6, DotBefore, Zenon
  <2>10. Matches(p, h, Ports[port]) <=> portOK /\ Ends(Dotted(rn), h)
    BY <1>5, <2>7, <2>8, <2>9, Zenon
  <2> QED
    BY <1>3, <1>4, <1>7, <1>9, <1>10, <1>11, <2>10, Zenon DEF p
<1>12. CASE ~r.wild
  <2>1. p.host = n
    <3>1. p.host = <<>> \o n
      BY <1>8, <1>12, Zenon DEF Star
    <3>2. <<>> \o n = n
      BY <1>5, ConcatEmptySeq DEF CharSeq
    <3> QED
      BY <3>1, <3>2, Zenon
  <2> DEFINE s == <<"*", ".">>
  <2>2. s \in CharSeq /\ Len(s) = 2 /\ s[1] = "*"
    BY LowerMarks
  <2> HIDE DEF s
  <2>3. ~IsPrefix(s, n)
    <3>1. PICK k \in Nat : k = Len(n)
      BY <1>5, LenProperties DEF CharSeq
    <3>2. IsPrefix(s, n) <=> 2 <= k /\ \A i \in 1..2 : s[i] = n[i]
      <4>1. n \in Seq(Char) /\ s \in Seq(Char)
        BY <1>5, <2>2 DEF CharSeq
      <4>2. PICK j \in Nat : j = Len(s) /\ j = 2
        BY <2>2
      <4>3. j = Len(s)
        BY <4>2
      <4>4. IsPrefix(s, n) <=> j <= k /\ \A i \in 1..j : s[i] = n[i]
        BY <3>1, <4>1, <4>3, PrefixIs, Zenon
      <4> QED
        BY <4>2, <4>4, Zenon
    <3>3. ASSUME 2 <= k PROVE n[1] # "*"
      <4>1. 1 \in 1..k
        BY <3>3
      <4>2. Without(n, {"*"})
        BY <1>5, <1>a, Zenon
      <4> QED
        BY <3>1, <4>1, <4>2 DEF Without
    <3>4. 1 \in 1..2
      OBVIOUS
    <3> QED
      BY <2>2, <3>2, <3>3, <3>4, Zenon
  <2>4. Matches(p, h, Ports[port]) <=> portOK /\ n = h
    BY <2>1, <2>3, Zenon DEF Matches, s
  <2> QED
    BY <1>4, <1>7, <1>9, <1>10, <1>12, <2>4, Zenon DEF p
<1> QED
  BY <1>1, <1>11, <1>12

-----------------------------------------------------------------------------
(* The rule files.                                                         *)

LEMMA DotTail ==
  ASSUME NEW t \in CharSeq
  PROVE  Tail(<<".">> \o t) = t
<1> DEFINE u == <<".">> \o t
<1>1. PICK n \in Nat : n = Len(t)
  BY LenProperties DEF CharSeq
<1>2. u \in CharSeq /\ Len(u) = n + 1 /\ \A i \in 1..n : u[i + 1] = t[i]
  BY <1>1, DotText, Zenon
<1> HIDE DEF u
<1>3. u # <<>>
  BY <1>2
<1>4. Tail(u) \in CharSeq /\ Len(Tail(u)) = n /\ \A i \in 1..n : Tail(u)[i] = u[i + 1]
  BY <1>2, <1>3, HeadTailProperties DEF CharSeq
<1>5. \A i \in 1..n : Tail(u)[i] = t[i]
  BY <1>2, <1>4, Zenon
<1>6. Tail(u) = t
  BY <1>1, <1>4, <1>5, SameText, Zenon
<1> QED
  BY <1>6, Zenon DEF u

\* One entry of a geosite file against a host.
LEMMA SiteMatches ==
  ASSUME NEW e, IsName(e.name, {}), NEW labels, IsName(labels, {})
  PROVE  LET h == Lower(Name(labels))  v == Lower(Name(e.name)) IN
         /\ e.type = 2 => ((h = Tail(<<".">> \o v) \/ IsSuffix(<<".">> \o v, h)) <=> SiteCovers(e, labels))
         /\ e.type = 3 => (h = v <=> SiteCovers(e, labels))
         /\ e.type \in {0, 1} => (Includes(h, v) <=> SiteCovers(e, labels))
         /\ e.type \notin {0, 1, 2, 3} => ~SiteCovers(e, labels)
<1> DEFINE rn == Fold(e.name)
           ls == Fold(labels)
           h == Lower(Name(labels))
           v == Lower(Name(e.name))
<1>1. "." \notin {} /\ "a" \notin {}
  OBVIOUS
<1>2. IsName(rn, {}) /\ IsName(ls, {})
  BY <1>1, FoldName, Zenon
<1>3. h = Name(ls) /\ v = Name(rn)
  BY LowerName, Zenon
<1>4. /\ SiteCovers(e, labels) = CASE e.type = 2 -> IsSuffix(rn, ls)
                                  [] e.type = 3 -> rn = ls
                                  [] e.type \in {0, 1} -> Includes(Name(ls), Name(rn))
                                  [] OTHER -> FALSE
  BY DEF SiteCovers
<1> HIDE DEF rn, ls, h, v
<1>5. h \in CharSeq
  BY <1>1, <1>2, <1>3, NameText, Zenon
<1>6. v \in CharSeq /\ Dotted(rn) = <<".">> \o v
  BY <1>1, <1>2, <1>3, NameText, Zenon
<1>7. /\ v = h <=> rn = ls
      /\ h = v \/ Ends(Dotted(rn), h) <=> IsSuffix(rn, ls)
  <2>1. /\ Name(rn) = Name(ls) <=> rn = ls
        /\ Name(ls) = Name(rn) \/ Ends(Dotted(rn), Name(ls)) <=> IsSuffix(rn, ls)
    BY <1>1, <1>2, NamesCompared
  <2> QED
    BY <1>3, <2>1, Zenon
<1>8. Tail(<<".">> \o v) = v
  BY <1>6, DotTail, Zenon
<1>9. IsSuffix(<<".">> \o v, h) <=> Ends(<<".">> \o v, h)
  <2>1. <<".">> \o v \in CharSeq
    BY <1>6, DotText, Zenon
  <2> QED
    BY <1>5, <2>1, SuffixText, Zenon
<1>10. ASSUME e.type = 2
       PROVE  (h = Tail(<<".">> \o v) \/ IsSuffix(<<".">> \o v, h)) <=> SiteCovers(e, labels)
  <2>1. SiteCovers(e, labels) = IsSuffix(rn, ls)
    BY <1>4, <1>10
  <2>2. (h = Tail(<<".">> \o v) \/ IsSuffix(<<".">> \o v, h)) <=> IsSuffix(rn, ls)
    BY <1>6, <1>7, <1>8, <1>9, Zenon
  <2> QED
    BY <2>1, <2>2, Zenon
<1>11. ASSUME e.type = 3 PROVE h = v <=> SiteCovers(e, labels)
  <2>1. SiteCovers(e, labels) = (rn = ls)
    BY <1>4, <1>11
  <2> QED
    BY <1>7, <2>1, Zenon
<1>12. ASSUME e.type \in {0, 1} PROVE Includes(h, v) <=> SiteCovers(e, labels)
  <2>1. SiteCovers(e, labels) = Includes(Name(ls), Name(rn))
    BY <1>4, <1>12
  <2> QED
    BY <1>3, <2>1, Zenon
<1>13. ASSUME e.type \notin {0, 1, 2, 3} PROVE ~SiteCovers(e, labels)
  BY <1>4, <1>13
<1> QED
  BY <1>10, <1>11, <1>12, <1>13, Zenon DEF h, v

\* The matcher of a file that was loaded.
SitesOf(E) ==
  LET ofType(n) == {Lower(Name(e.name)) : e \in {x \in E : x.type = n}} IN
  [domains  |-> {<<".">> \o v : v \in ofType(2)},
   fulls    |-> ofType(3),
   keywords |-> ofType(0),
   regexes  |-> ofType(1)]

\* GeoSiteMatcher::matches: a loaded file covers a host exactly when one of the
\* entries under its tags is documented to cover it.
THEOREM GeositeMatches ==
  ASSUME NEW E, \A e \in E : IsName(e.name, {}), NEW labels, IsName(labels, {})
  PROVE  MatchesGeosite(SitesOf(E), Lower(Name(labels))) <=> \E e \in E : SiteCovers(e, labels)
<1> DEFINE h == Lower(Name(labels))
           m == SitesOf(E)
           V(e) == Lower(Name(e.name))
<1>1. ASSUME NEW e \in E
      PROVE  /\ e.type = 2 => ((h = Tail(<<".">> \o V(e)) \/ IsSuffix(<<".">> \o V(e), h)) <=> SiteCovers(e, labels))
             /\ e.type = 3 => (h = V(e) <=> SiteCovers(e, labels))
             /\ e.type \in {0, 1} => (Includes(h, V(e)) <=> SiteCovers(e, labels))
             /\ e.type \notin {0, 1, 2, 3} => ~SiteCovers(e, labels)
  BY SiteMatches, Zenon
<1>2. /\ m.fulls = {V(e) : e \in {x \in E : x.type = 3}}
      /\ m.keywords = {V(e) : e \in {x \in E : x.type = 0}}
      /\ m.regexes = {V(e) : e \in {x \in E : x.type = 1}}
      /\ m.domains = {<<".">> \o v : v \in {V(e) : e \in {x \in E : x.type = 2}}}
  BY DEF SitesOf
<1> HIDE DEF h, m, V
<1>3. ASSUME MatchesGeosite(m, h) PROVE \E e \in E : SiteCovers(e, labels)
  <2>1. CASE h \in m.fulls
    <3>1. PICK e \in E : e.type = 3 /\ h = V(e)
      BY <1>2, <2>1
    <3> QED
      BY <1>1, <3>1, Zenon
  <2>2. CASE \E k \in m.keywords : Includes(h, k)
    <3>1. PICK e \in E : e.type = 0 /\ Includes(h, V(e))
      BY <1>2, <2>2
    <3> QED
      BY <1>1, <3>1
  <2>3. CASE \E r \in m.regexes : Includes(h, r)
    <3>1. PICK e \in E : e.type = 1 /\ Includes(h, V(e))
      BY <1>2, <2>3
    <3> QED
      BY <1>1, <3>1
  <2>4. CASE \E d \in m.domains : h = Tail(d) \/ IsSuffix(d, h)
    <3>1. PICK e \in E : e.type = 2 /\ (h = Tail(<<".">> \o V(e)) \/ IsSuffix(<<".">> \o V(e), h))
      BY <1>2, <2>4, Zenon
    <3> QED
      BY <1>1, <3>1, Zenon
  <2> QED
    BY <1>3, <2>1, <2>2, <2>3, <2>4, Zenon DEF MatchesGeosite
<1>4. ASSUME NEW e \in E, SiteCovers(e, labels) PROVE MatchesGeosite(m, h)
  <2>1. CASE e.type = 3
    <3>1. h = V(e)
      BY <1>1, <1>4, <2>1, Zenon
    <3>2. V(e) \in m.fulls
      BY <1>2, <2>1, Zenon
    <3> QED
      BY <3>1, <3>2, Zenon DEF MatchesGeosite
  <2>2. CASE e.type = 0
    <3>1. Includes(h, V(e))
      BY <1>1, <1>4, <2>2
    <3>2. V(e) \in m.keywords
      BY <1>2, <2>2, Zenon
    <3> QED
      BY <3>1, <3>2, Zenon DEF MatchesGeosite
  <2>3. CASE e.type = 1
    <3>1. Includes(h, V(e))
      BY <1>1, <1>4, <2>3
    <3>2. V(e) \in m.regexes
      BY <1>2, <2>3, Zenon
    <3> QED
      BY <3>1, <3>2, Zenon DEF MatchesGeosite
  <2>4. CASE e.type = 2
    <3>1. h = Tail(<<".">> \o V(e)) \/ IsSuffix(<<".">> \o V(e), h)
      BY <1>1, <1>4, <2>4, Zenon
    <3>2. <<".">> \o V(e) \in m.domains
      BY <1>2, <2>4, Zenon
    <3> QED
      BY <3>1, <3>2, Zenon DEF MatchesGeosite
  <2> QED
    BY <1>1, <1>4, <2>1, <2>2, <2>3, <2>4
<1> QED
  BY <1>3, <1>4, Zenon DEF h, m

\* A text in small letters is a literal exactly when the text itself is.
LEMMA LowerLiteral ==
  ASSUME NEW t \in CharSeq
  PROVE  /\ Lower(t) \in DOMAIN Literals <=> t \in DOMAIN Literals
         /\ t \in DOMAIN Literals => Lower(t) = t
<1>1. ASSUME NEW l \in DOMAIN Literals
      PROVE  l \in CharSeq /\ Without(l, {"a"}) /\ Without(l, {"A"})
  <2>0. l \in CharSeq
    BY LiteralTexts, Zenon
  <2>1. l \in {<<"10.0.0.1">>, <<"127.0.0.1">>, <<"9.9.9.9">>, <<":", ":", "1">>, <<"2", ":", ":", "1">>}
    BY DEF Literals
  <2>2. CASE l \in {<<"10.0.0.1">>, <<"127.0.0.1">>, <<"9.9.9.9">>}
    <3>1. PICK x \in {"10.0.0.1", "127.0.0.1", "9.9.9.9"} : l = <<x>>
      BY <2>2
    <3> QED
      BY <2>0, <3>1 DEF Without
  <2>3. CASE l = <<":", ":", "1">>
    BY <2>0, <2>3 DEF Without
  <2>4. CASE l = <<"2", ":", ":", "1">>
    BY <2>0, <2>4 DEF Without
  <2> QED
    BY <2>1, <2>2, <2>3, <2>4
<1>2. ASSUME t \in DOMAIN Literals PROVE Lower(t) = t
  BY <1>1, <1>2, LowerFixed, Zenon
<1>3. ASSUME Lower(t) \in DOMAIN Literals PROVE Lower(t) = t
  <2>1. /\ Lower(t) \in CharSeq /\ Len(Lower(t)) = Len(t)
        /\ \A i \in 1..Len(t) : Lower(t)[i] = IF t[i] = "A" THEN "a" ELSE t[i]
    BY LowerText, Zenon
  <2>2. Without(Lower(t), {"a"})
    BY <1>1, <1>3, Zenon
  <2>3. \A i \in 1..Len(t) : Lower(t)[i] # "a"
    BY <2>1, <2>2 DEF Without
  <2>4. \A i \in 1..Len(t) : Lower(t)[i] = t[i]
    BY <2>1, <2>3, Zenon
  <2> QED
    BY <2>1, <2>4, SameText, Zenon
<1> QED
  BY <1>2, <1>3, Zenon

\* The address ranges of a file that was loaded.
RangesOf(E) == {[v |-> IF c.bytes = 4 THEN 4 ELSE 6, class |-> c.class] : c \in E}

\* A host is in the loaded ranges exactly when it is a literal of an address
\* that one of the entries covers.
LEMMA GeoipMatches ==
  ASSUME NEW E, NEW t \in CharSeq
  PROVE  (Lower(t) \in DOMAIN Literals /\ Literals[Lower(t)] \in RangesOf(E))
           <=> \E c \in E : IpCovers(c, t)
<1>1. /\ Lower(t) \in DOMAIN Literals <=> t \in DOMAIN Literals
      /\ t \in DOMAIN Literals => Lower(t) = t
  BY LowerLiteral, Zenon
<1>2. (Lower(t) \in DOMAIN Literals /\ Literals[Lower(t)] \in RangesOf(E))
        <=> t \in DOMAIN Literals /\ Literals[t] \in RangesOf(E)
  BY <1>1, Zenon
<1>3. Literals[t] \in RangesOf(E)
        <=> \E c \in E : Literals[t] = [v |-> IF c.bytes = 4 THEN 4 ELSE 6, class |-> c.class]
  BY Zenon DEF RangesOf
<1> QED
  BY <1>2, <1>3, Zenon DEF IpCovers

\* An HTTP destination with a port is taken apart at the last colon.
LEMMA HttpReads ==
  ASSUME NEW t \in CharSeq, NEW port \in DOMAIN Ports
  PROVE  /\ HttpTarget(HttpDest(t \o <<":", port>>)) = [host |-> t, port |-> Ports[port]]
         /\ Without(t, {":"}) => HttpTarget(HttpDest(t)) = [host |-> t, port |-> Ports["80"]]
<1>1. ASSUME NEW p \in DOMAIN Ports
      PROVE  LET d == t \o <<":", p>> IN
             LastColon(d) # 0 /\ HttpTarget(d) = [host |-> t, port |-> Ports[p]]
  <2> DEFINE d == t \o <<":", p>>
  <2>1. p \in Char /\ p # ":" /\ PortOr80(<<p>>) = Ports[p]
    BY PortReads, Zenon
  <2>2. /\ LastColon(d) = Len(t) + 1 /\ LastColon(d) # 0
        /\ Before(d, Len(t) + 1) = t /\ After(d, Len(t) + 1) = <<p>>
    BY <2>1, LastColonAt, Zenon
  <2> HIDE DEF d
  <2>3. HttpTarget(d) = [host |-> t, port |-> Ports[p]]
    BY <2>1, <2>2, Zenon DEF HttpTarget
  <2> QED
    BY <2>2, <2>3, Zenon DEF d
<1>2. HttpDest(t \o <<":", port>>) = t \o <<":", port>>
  BY <1>1, Zenon DEF HttpDest
<1>3. ASSUME Without(t, {":"}) PROVE HttpTarget(HttpDest(t)) = [host |-> t, port |-> Ports["80"]]
  <2>1. LastColon(t) = 0
    BY <1>3, NoColon, Zenon
  <2>2. HttpDest(t) = t \o <<":", "80">>
    BY <2>1, Zenon DEF HttpDest
  <2>3. "80" \in DOMAIN Ports
    BY DEF Ports
  <2> QED
    BY <1>1, <2>2, <2>3, Zenon
<1> QED
  BY <1>1, <1>2, <1>3, Zenon
=============================================================================
