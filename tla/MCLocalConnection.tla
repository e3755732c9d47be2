--------------------------- MODULE MCLocalConnection ---------------------------
(* Applications for TLC: what they send and what they wait for.            *)
EXTENDS LocalConnection

Now(kind, n) == [kind |-> kind, n |-> n, after |-> "start"]
On(reply, kind, n) == [kind |-> kind, n |-> n, after |-> reply]

\* Requests with a body longer and shorter than the buffer, repeated lines, a
\* tunnel used once it stands, a second request after the response, and a
\* header and a body over the limits.
Upload  == <<Now("get", 0), Now("host", 1), Now("length", 3), Now("blank", 0),
             Now("data", 0), Now("data", 0), Now("data", 0)>>
Twice   == <<Now("get", 0), Now("host", 1), Now("length", 2), Now("host", 2),
             Now("length", 1), Now("blank", 0), Now("data", 0), On("data", "get", 0)>>
Tunnel1 == <<Now("connect", 0), Now("host", 1), Now("blank", 0),
             On("ok", "data", 0), On("ok", "data", 0)>>
Wordy   == <<Now("get", 0), Now("host", 1)>> \o [i \in 1..5 |-> Now("field", 0)] \o <<Now("blank", 0)>>
Bulky   == <<Now("get", 0), Now("host", 1), Now("length", 9), Now("blank", 0)>>
Nobody  == <<Now("get", 0), Now("blank", 0)>>
Patient == {Upload, Twice, Tunnel1, Wordy, Bulky, Nobody}

\* SOCKS5 applications that do not wait, and requests that are refused.
Hasty == <<Now("hello", 0), Now("request", 1), Now("data", 0), Now("data", 0)>>
Asks(first, second) == <<Now(first, 0), Now(second, 1), Now("data", 0)>>
Handshakes ==
  {Hasty} \cup {Asks("hello", k) : k \in {"bind", "atyp", "garbled"}}
          \cup {Asks(k, "request") : k \in {"auth", "alien"}}

\* An HTTP application that sends data right behind its header: a body
\* without Content-Length, or the first bytes of a tunnel.
ReadAhead == {<<Now("get", 0), Now("host", 1), Now("blank", 0), Now("data", 0), Now("data", 0)>>}

\* Two requests to two hosts, the second after the response to the first.
KeepAlive == {<<Now("get", 0), Now("host", 1), Now("blank", 0),
                On("data", "get", 0), On("data", "host", 2), On("data", "blank", 0)>>}
=============================================================================
