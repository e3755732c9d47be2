---------------------------- MODULE LocalConnection ----------------------------
(***************************************************************************)
(* One local connection of the client, from its accept to the release of   *)
(* its socket: the HTTP front end with its buffered reader, the SOCKS5     *)
(* front end, the choice between the direct path and the tunnel, the       *)
(* answer, and the two relay tasks.  The tunnel is used through what it    *)
(* promises (module Tunnel, implemented by MuxSession).                    *)
(***************************************************************************)
EXTENDS Integers, Sequences, FiniteSets, FiniteSetsExt, Functions

CONSTANTS
  HttpScripts,   \* bound: what an application may send to the HTTP listener
  SocksScripts,  \* bound: what an application may send to the SOCKS5 listener
  BufCap,        \* capacity of the BufReader (8 KiB), in items
  MaxHeader,     \* MAX_HEADER_BYTES, in lines
  MaxBody,       \* MAX_CONTENT_LENGTH, in items
  MaxSpoken      \* bound: chunks an upstream sends

\* An application sends items: a line of a header, a message of the SOCKS5
\* handshake, or a piece of body or tunnel data.  n is the destination in a Host
\* line and in a SOCKS5 request, the length in a Content-Length line.  The
\* application waits for what it names in `after` before it sends the item.
Line  == {"connect", "get", "host", "length", "field", "blank"}
Socks == {"hello", "auth", "alien", "request", "bind", "atyp", "garbled"}
Heard == {"method", "refused", "ok", "err", "data"}
Item  == [kind : Line \cup Socks \cup {"data"}, n : Nat, after : Heard \cup {"start"}]

ASSUME LimitAssumption ==
  /\ BufCap \in Nat \ {0}
  /\ MaxHeader \in Nat
  /\ MaxBody \in Nat
  /\ MaxSpoken \in Nat
ASSUME ScriptAssumption ==
  /\ HttpScripts \subseteq Seq(Item)
  /\ SocksScripts \subseteq Seq(Item)

VARIABLES
  listener,  \* the listener that accepted it: http or socks
  script,    \* the items the application sends, in this order, as far as it gets
  app,       \* the application: open, eof (will send no more) or reset
  wrote,     \* number of items it has put into the socket
  stalled,   \* who takes and passes on nothing any more: "app", "far" (see Stall)
  taken,     \* number of items read out of the socket
  used,      \* number of items parsed; used+1..taken are in the BufReader
  pc,        \* the handler
  req,       \* what was parsed: connect, host (0: none), need (body to come), lines
  route,     \* none, direct or tunnel
  session,   \* the mux session: up or lost
  upstream,  \* the destination: none, open, eof or reset
  fed,       \* items written to the destination, by their number in script
  spoke,     \* number of chunks the destination sent
  heard,     \* what was written to the application
  up, down,  \* the relay tasks, application to destination and back: off, on
             \* (in read), write, close (the tunnel's CLOSE), ended
  chunk      \* number of items the upward task has read and not yet written

client  == <<listener, script, app, wrote, stalled>>
parsing == <<taken, used, req>>
far     == <<route, session, upstream, fed, spoke>>
tasks   == <<up, down, chunk>>
vars    == <<client, parsing, pc, far, heard, tasks>>

Init ==
  /\ \/ listener = "http" /\ script \in HttpScripts /\ pc = "header"
     \/ listener = "socks" /\ script \in SocksScripts /\ pc = "greet"
  /\ app = "open" /\ wrote = 0 /\ stalled = {}
  /\ taken = 0 /\ used = 0
  /\ req = [connect |-> FALSE, host |-> 0, need |-> 0, lines |-> 0]
  /\ route = "none" /\ session \in {"up", "lost"}
  /\ upstream = "none" /\ fed = <<>> /\ spoke = 0
  /\ heard = <<>>
  /\ up = "off" /\ down = "off" /\ chunk = 0

IsSocks == listener = "socks"
Buffered == used < taken
Available == taken < wrote
Incoming == script[used + 1]

\* Numbers of the items a..b.
Items(a, b) == [i \in 1..(b - a + 1) |-> a + i - 1]

\* write_all to the application, a failure ignored (`let _ =`).  The answers
\* are the first few bytes into the socket's buffer and do not wait.
Tell(what) == heard' = IF app = "reset" THEN heard ELSE Append(heard, what)

\* The handler returns; nothing was started that outlives it.
Return == pc' = "done"

-----------------------------------------------------------------------------
(* parse_request_header.                                                   *)

\* BufReader::fill_buf: one read takes what has arrived, up to the capacity.
Fill ==
  /\ \/ pc = "header"
     \/ pc = "body" /\ req.need < BufCap
  /\ ~Buffered /\ Available
  /\ \E k \in 1..Min({BufCap, wrote - taken}) : taken' = taken + k
  /\ UNCHANGED <<client, used, req, pc, far, heard, tasks>>

\* Mutant of Parsed: the lengths of several Content-Length lines add up.
ParsedSum(i) ==
  [req EXCEPT
    !.lines = @ + 1,
    !.connect = IF req.lines = 0 THEN i.kind = "connect" ELSE @,
    !.host = IF i.kind = "host" THEN i.n ELSE @,
    !.need = IF i.kind = "length" THEN @ + i.n ELSE @]

\* The line is added to the header; a later Host or Content-Length replaces an
\* earlier one.
Parsed(i) ==
  [req EXCEPT
    !.lines = @ + 1,
    !.connect = IF req.lines = 0 THEN i.kind = "connect" ELSE @,
    !.host = IF i.kind = "host" THEN i.n ELSE @,
    !.need = IF i.kind = "length" THEN i.n ELSE @]

\* Mutant of OverLimit: the header is measured before the line is added.
OverLimitLate ==
  \/ req.lines > MaxHeader
  \/ Incoming.kind = "length" /\ Incoming.n > MaxBody

OverLimit ==
  \/ req.lines + 1 > MaxHeader
  \/ Incoming.kind = "length" /\ Incoming.n > MaxBody

\* read_line returns a line.  A limit that is exceeded ends the handler without
\* an answer.
ReadLine ==
  /\ pc = "header" /\ Buffered
  /\ used' = used + 1
  /\ \/ OverLimit /\ Return /\ UNCHANGED req
     \/ /\ ~OverLimit
        /\ req' = Parsed(Incoming)
        /\ pc' = IF Incoming.kind # "blank" THEN "header"
                 ELSE IF req.need > 0 THEN "body" ELSE "route"
  /\ UNCHANGED <<client, taken, far, heard, tasks>>

\* read_line returns 0, and the header counts as complete, or an error.
HeaderEnds ==
  /\ pc = "header" /\ ~Buffered
  /\ \/ /\ app = "eof" /\ ~Available
        /\ pc' = IF req.need > 0 THEN "body" ELSE "route"
     \/ /\ app = "reset"
        /\ Return
  /\ UNCHANGED <<client, parsing, far, heard, tasks>>

\* Mutant of ReadBody: the last item of the body is left to the relay.
ReadBodyShort ==
  /\ pc = "body"
  /\ \/ Buffered /\ UNCHANGED taken
     \/ ~Buffered /\ Available /\ req.need >= BufCap /\ taken' = taken + 1
  /\ used' = used + 1
  /\ req' = [req EXCEPT !.need = @ - 1]
  /\ pc' = IF req.need <= 2 THEN "route" ELSE "body"
  /\ UNCHANGED <<client, far, heard, tasks>>

\* read_exact takes the body out of the buffer, or straight from the socket when
\* the buffer is empty and the rest is no smaller than it.
ReadBody ==
  /\ pc = "body"
  /\ \/ Buffered /\ UNCHANGED taken
     \/ ~Buffered /\ Available /\ req.need >= BufCap /\ taken' = taken + 1
  /\ used' = used + 1
  /\ req' = [req EXCEPT !.need = @ - 1]
  /\ pc' = IF req.need = 1 THEN "route" ELSE "body"
  /\ UNCHANGED <<client, far, heard, tasks>>

BodyFails ==
  /\ pc = "body" /\ ~Buffered
  /\ app = "reset" \/ (app = "eof" /\ ~Available)
  /\ Return
  /\ UNCHANGED <<client, parsing, far, heard, tasks>>

-----------------------------------------------------------------------------
(* parse_socks5_request: read_exact on the socket, never more than asked.  *)

\* Mutant of ReadMessage: the handshake is read through a BufReader too.
ReadMessageAhead ==
  /\ used' = used + 1
  /\ \/ Buffered /\ UNCHANGED taken
     \/ ~Buffered /\ Available /\ \E k \in 1..Min({BufCap, wrote - taken}) : taken' = taken + k

ReadMessage ==
  /\ Available
  /\ taken' = taken + 1
  /\ used' = used + 1

Greet ==
  /\ pc = "greet" /\ ReadMessage
  /\ \/ /\ Incoming.kind = "hello"
        /\ Tell("method")
        /\ pc' = IF app = "reset" THEN "done" ELSE "ask"
     \/ Incoming.kind = "auth" /\ Tell("refused") /\ Return
     \/ Incoming.kind \notin {"hello", "auth"} /\ UNCHANGED heard /\ Return
  /\ UNCHANGED <<client, req, far, tasks>>

\* A command or an address type that is not supported is answered; another
\* version and a domain that is no UTF-8 are not.
AskConnect ==
  /\ pc = "ask" /\ ReadMessage
  /\ \/ /\ Incoming.kind = "request"
        /\ req' = [req EXCEPT !.connect = TRUE, !.host = Incoming.n]
        /\ pc' = "route"
        /\ UNCHANGED heard
     \/ Incoming.kind \in {"bind", "atyp"} /\ Tell("refused") /\ Return /\ UNCHANGED req
     \/ /\ Incoming.kind \notin {"request", "bind", "atyp"}
        /\ Return
        /\ UNCHANGED <<heard, req>>
  /\ UNCHANGED <<client, far, tasks>>

SocksFails ==
  /\ pc \in {"greet", "ask"}
  /\ app = "reset" \/ (app = "eof" /\ ~Available)
  /\ Return
  /\ UNCHANGED <<client, parsing, far, heard, tasks>>

FrontEnd ==
  \/ Fill \/ ReadLine \/ HeaderEnds \/ ReadBody \/ BodyFails
  \/ Greet \/ AskConnect \/ SocksFails

-----------------------------------------------------------------------------
(* The route, the connection to the destination and the answer.            *)

\* should_bypass decides (module Routing); the tunnel needs a session.
Decide ==
  /\ pc = "route"
  /\ \E r \in {"direct", "tunnel"} :
       /\ route' = r
       /\ IF r = "tunnel" /\ session = "lost"
          THEN Tell("err") /\ Return
          ELSE pc' = "connect" /\ UNCHANGED heard
  /\ UNCHANGED <<client, parsing, session, upstream, fed, spoke, tasks>>

\* frame_tx.send(OPEN) waits while the channel is full; without reconnection
\* ack_rx.recv() waits too, also for a session that is lost.
OpenWaits == route = "tunnel" /\ "far" \in stalled

\* frame_tx.send waits while the channel is full and the writer lives, write_all
\* while the destination does not read.
SendWaits ==
  /\ "far" \in stalled
  /\ IF route = "direct" THEN upstream # "reset" ELSE session = "up"

\* TcpStream::connect succeeds, or the server answers OPEN_ACK(ok).  A name
\* that is empty cannot be resolved.
Connected ==
  /\ pc = "connect" /\ req.host # 0 /\ ~OpenWaits
  /\ upstream' = "open"
  /\ pc' = "reply"
  /\ UNCHANGED <<client, parsing, route, session, fed, spoke, heard, tasks>>

\* The connect fails: 502, or SOCKS5's general failure.  An HTTP request whose
\* OPEN could not be sent gets no answer.
NotConnected ==
  /\ pc = "connect" /\ ~OpenWaits
  /\ \/ Tell("err")
     \/ route = "tunnel" /\ ~IsSocks /\ session = "lost" /\ UNCHANGED heard
  /\ Return
  /\ UNCHANGED <<client, parsing, far, tasks>>

StartRelay == pc' = "relay" /\ up' = "on" /\ down' = "on" /\ chunk' = 0
GiveUp     == Return /\ upstream' = "none" /\ UNCHANGED tasks

\* Mutant of Answer: 200 is not checked, and the relay may start without it.
AnswerLater ==
  /\ pc = "reply" /\ req.connect
  /\ UNCHANGED heard
  /\ StartRelay /\ UNCHANGED upstream
  /\ UNCHANGED <<client, parsing, route, session, fed, spoke>>

\* A tunnel was asked for: the application is told.  It may be gone: only
\* handle_socks_direct does not look.
Answer ==
  /\ pc = "reply" /\ req.connect
  /\ Tell("ok")
  /\ IF app = "reset" /\ ~(IsSocks /\ route = "direct")
     THEN GiveUp
     ELSE StartRelay /\ UNCHANGED upstream
  /\ UNCHANGED <<client, parsing, route, session, fed, spoke>>

\* A plain request: header and body go first.
ForwardRequest ==
  /\ pc = "reply" /\ ~req.connect /\ ~SendWaits
  /\ IF \/ route = "direct" /\ upstream = "reset"
        \/ route = "tunnel" /\ session = "lost"
     THEN GiveUp /\ UNCHANGED fed
     ELSE /\ fed' = Items(1, used)
          /\ StartRelay /\ UNCHANGED upstream
  /\ UNCHANGED <<client, parsing, route, session, spoke, heard>>

Handler ==
  FrontEnd \/ Decide \/ Connected \/ NotConnected \/ Answer \/ ForwardRequest

-----------------------------------------------------------------------------
(* The relay tasks: relay_tcp, or the pump and write_task of the tunnel.   *)

\* What was read from the application cannot be written.  The tunnel's pump does
\* not see what becomes of it at the other end, and the frame channel may take
\* chunks for a while after the session was lost.
WriteFails == IF route = "direct" THEN upstream = "reset" ELSE session = "lost"

\* A read of at most 8 KiB.  The BufReader is gone with what it held.
ReadUp ==
  /\ up = "on" /\ Available /\ app # "reset"
  /\ \E k \in 1..(wrote - taken) : taken' = taken + k /\ chunk' = k
  /\ up' = "write"
  /\ UNCHANGED <<client, used, req, pc, far, heard, down>>

\* What was read is passed on.
WriteUp ==
  /\ up = "write" /\ ~SendWaits
  /\ route = "direct" => ~WriteFails
  /\ fed' = IF upstream = "reset" \/ WriteFails THEN fed
            ELSE fed \o Items(taken - chunk + 1, taken)
  /\ up' = "on" /\ chunk' = 0
  /\ UNCHANGED <<client, parsing, pc, route, session, upstream, spoke, heard, down>>

\* Mutant of UpEnds: Ok(0) is taken for an empty read and read again.
UpEndsReset ==
  /\ \/ up = "on" /\ app = "reset"
     \/ up = "write" /\ WriteFails
  /\ up' = IF route = "tunnel" THEN "close" ELSE "ended"
  /\ chunk' = 0
  /\ UNCHANGED <<client, parsing, pc, far, heard, down>>

\* The loop ends at the end of the stream, at an error and when the write fails.
UpEnds ==
  /\ \/ up = "on" /\ (app = "reset" \/ (app = "eof" /\ ~Available))
     \/ up = "write" /\ WriteFails
  /\ up' = IF route = "tunnel" THEN "close" ELSE "ended"
  /\ chunk' = 0
  /\ UNCHANGED <<client, parsing, pc, far, heard, down>>

\* In the tunnel it is the handler's own loop: CLOSE is sent, the stream
\* unregistered, and the handler returns.
UpCloses ==
  /\ up = "close" /\ ~SendWaits
  /\ up' = "ended" /\ Return
  /\ UNCHANGED <<client, parsing, far, heard, down, chunk>>

\* Where in heard the application was told one of these.
Told(what) == {i \in DOMAIN heard : heard[i] \in what}

\* Chunks of the destination that reached the application.
Received == Cardinality(Told({"data"}))

\* The session, as long as it passes frames on, or the direct connection.
Arrives == route = "tunnel" => session = "up" /\ "far" \notin stalled

ReadDown ==
  /\ down = "on" /\ Received < spoke
  /\ upstream # "reset" /\ Arrives
  /\ down' = "write"
  /\ UNCHANGED <<client, parsing, pc, far, heard, up, chunk>>

\* write_all waits while the application does not read.
WriteDown ==
  /\ down = "write" /\ app # "reset" /\ "app" \notin stalled
  /\ heard' = Append(heard, "data")
  /\ down' = "on"
  /\ UNCHANGED <<client, parsing, pc, far, up, chunk>>

\* The direct relay's own loop: the destination ends, or the application does
\* not take what was read.  The handler returns and detaches the other task.
\* write_task ends as well when its stream is unregistered, at either end's
\* CLOSE or with the session.
DownEnds ==
  /\ \/ /\ down = "on" /\ Arrives
        /\ upstream = "reset" \/ (upstream = "eof" /\ Received = spoke)
     \/ down = "on" /\ route = "tunnel" /\ (up = "ended" \/ session = "lost")
     \/ down = "write" /\ app = "reset"
  /\ down' = "ended"
  /\ pc' = IF route = "direct" THEN "done" ELSE pc
  /\ UNCHANGED <<client, parsing, far, heard, up, chunk>>

-----------------------------------------------------------------------------
(* The application, the destination and the session.                       *)

\* Somebody holds the application's socket.
Attached == pc # "done" \/ ~({up, down} \subseteq {"off", "ended"})

Write ==
  /\ Attached /\ app = "open" /\ wrote < Len(script)
  /\ script[wrote + 1].after \in Range(heard) \cup {"start"}
  /\ wrote' = wrote + 1
  /\ UNCHANGED <<listener, script, app, stalled, parsing, pc, far, heard, tasks>>

AppLeaves ==
  /\ Attached
  /\ \E how \in {"eof", "reset"} :
       /\ app = "open" \/ (app = "eof" /\ how = "reset")
       /\ app' = how
  /\ UNCHANGED <<listener, script, wrote, stalled, parsing, pc, far, heard, tasks>>

Speak ==
  /\ upstream = "open" /\ spoke < MaxSpoken
  /\ spoke' = spoke + 1
  /\ UNCHANGED <<client, parsing, pc, route, session, upstream, fed, heard, tasks>>

\* reset is also, in the tunnel, a server that has unregistered the stream
\* after the destination closed: it drops what still comes.
UpstreamLeaves ==
  /\ \E how \in {"eof", "reset"} :
       /\ upstream = "open" \/ (upstream = "eof" /\ how = "reset")
       /\ upstream' = how
  /\ UNCHANGED <<client, parsing, pc, route, session, fed, spoke, heard, tasks>>

SessionEnds ==
  /\ session = "up" /\ session' = "lost"
  /\ UNCHANGED <<client, parsing, pc, route, upstream, fed, spoke, heard, tasks>>

\* From here on the application reads nothing ("app"), or ("far") the
\* destination of a direct connection reads nothing, or the session passes
\* nothing on: its frame channel is full and stays so, as behind a stalled link
\* (runs MuxStallHang and MuxImpatient).  A stall that passes is a delay of the
\* steps it holds up, and a buffer that still has room is a stall that comes
\* later.
Stall ==
  /\ Attached
  /\ \E who \in {"app", "far"} \ stalled : stalled' = stalled \cup {who}
  /\ UNCHANGED <<listener, script, app, wrote, parsing, pc, far, heard, tasks>>

Environment == Write \/ AppLeaves \/ Speak \/ UpstreamLeaves \/ SessionEnds \/ Stall

UpTask   == ReadUp \/ WriteUp \/ UpEnds \/ UpCloses
DownTask == ReadDown \/ WriteDown \/ DownEnds

Next == Handler \/ UpTask \/ DownTask \/ Environment

Spec == Init /\ [][Next]_vars

\* The executor polls the three tasks, and TcpStream::connect returns.  A send
\* or a write is taken only where OpenWaits, SendWaits and stalled let it:
\* nothing is assumed of the application, the destination and the session.
FairSpec ==
  /\ Spec
  /\ WF_vars(Handler)
  /\ WF_vars(UpTask)
  /\ WF_vars(DownTask)
-----------------------------------------------------------------------------
(* Properties.  First what a script asks for, without a parser.            *)

\* The line that ends the header of the first request.
HeaderEnd == Min({i \in DOMAIN script : script[i].kind = "blank"})

\* The value of the last line of this kind among the first k, 0 without one,
\* and in that header.
StatedIn(kind, k) ==
  LET at == {i \in 1..k : script[i].kind = kind}
  IN IF at = {} THEN 0 ELSE script[Max(at)].n
Stated(kind) == StatedIn(kind, HeaderEnd)

RequestEnd == IF IsSocks THEN 2 ELSE HeaderEnd + Stated("length")
Tunnelled  == IsSocks \/ script[1].kind = "connect"

\* The destination asked for: of a header that was broken off, the last Host line
\* that was sent.
Wanted == IF IsSocks THEN script[2].n ELSE StatedIn("host", Min({HeaderEnd, wrote}))

ClientOK ==
  /\ listener \in {"http", "socks"}
  /\ script \in IF IsSocks THEN SocksScripts ELSE HttpScripts
  /\ app \in {"open", "eof", "reset"}
  /\ wrote \in 0..Len(script)
  /\ stalled \subseteq {"app", "far"}

ParsingOK ==
  /\ taken \in 0..wrote /\ used \in 0..taken
  /\ taken - used <= BufCap \/ up # "off"
  /\ req \in [connect : BOOLEAN, host : Nat, need : 0..MaxBody, lines : 0..MaxHeader]

FarOK ==
  /\ route \in {"none", "direct", "tunnel"} /\ session \in {"up", "lost"}
  /\ upstream \in {"none", "open", "eof", "reset"}
  /\ fed \in Seq(1..Len(script)) /\ spoke \in 0..MaxSpoken

TasksOK ==
  /\ up \in {"off", "on", "write", "close", "ended"}
  /\ down \in {"off", "on", "write", "ended"}
  /\ chunk \in IF up = "write" THEN 1..(taken - used) ELSE {0}

\* The state is well typed: positions never pass what is there, and the buffer,
\* the header and the body stay within their limits.
TypeOK ==
  /\ ClientOK /\ ParsingOK /\ FarOK /\ TasksOK
  /\ pc \in {"header", "body", "greet", "ask", "route", "connect", "reply", "relay", "done"}
  /\ heard \in Seq(Heard)

\* The destination the request names, and no other, gets an unbroken piece of
\* what the application sent: all of it for a plain request, what follows the
\* request for a tunnel.  Nothing is lost between the BufReader and the relay
\* that reads the same socket after it.  A header the application breaks off
\* counts as a request to the last Host line it sent, and goes nowhere without
\* one.
Faithful ==
  /\ fed = Items(IF Tunnelled THEN RequestEnd + 1 ELSE 1,
                 Len(fed) + (IF Tunnelled THEN RequestEnd ELSE 0))
  /\ upstream # "none" => req.host = Wanted /\ Wanted # 0

\* The application is answered at most once, with success only when the
\* destination is connected; it hears nothing of the destination before that
\* answer when it asked for a tunnel, and nothing at all after a failure.
AnswerFirst ==
  /\ \A i, j \in Told({"ok", "err", "refused"}) : i = j
  /\ Told({"ok"}) # {} => upstream # "none"
  /\ Tunnelled => \A i \in Told({"data"}) : \E j \in Told({"ok"}) : j < i
  /\ Told({"err", "refused"}) # {} => Told({"data"}) = {} /\ fed = <<>> /\ ~Attached

\* While the application has not closed, nobody is contacted for it before its
\* whole request was read, header, body or handshake, and no more was parsed.
WholeRequest == route # "none" /\ app = "open" => used = RequestEnd

\* The application has sent its whole request.
Sent ==
  /\ IsSocks \/ \E i \in 1..wrote : script[i].kind = "blank"
  /\ wrote >= RequestEnd

\* An application that waits for its answer and a parser that waits for the
\* application do not meet: what is missing of a request that was sent is in the
\* socket or in the buffer, to the last item of its body.
NeverStarved ==
  Sent => /\ pc \in {"header", "greet", "ask"} => used < wrote
          /\ pc = "body" => used + req.need <= wrote

\* Somebody waits for a session, a destination or an application that takes
\* nothing: the handler in send(OPEN), in the wait for OPEN_ACK or with a plain
\* request, the upward task with a chunk or with CLOSE, the downward one with a
\* chunk.
Held ==
  \/ pc = "connect" /\ OpenWaits
  \/ pc = "reply" /\ ~req.connect /\ SendWaits
  \/ up \in {"write", "close"} /\ SendWaits
  \/ down = "write" /\ "app" \in stalled /\ app # "reset"

\* A request that was sent completely is acted on: the handler does not wait
\* for a body or a line that will not come, and where it waits for ever it is
\* for a session or a destination that takes nothing.
Settles == wrote >= RequestEnd ~> (pc \in {"relay", "done"} \/ []Held)

\* Once the application has closed, and on the direct path the destination
\* too, the socket is let go: no detached relay task keeps it, unless one of
\* the tasks waits for ever for a side that takes nothing.
Freed ==
  app # "open" /\ (route = "direct" => upstream # "open")
    ~> (~Attached \/ (route = "direct" /\ upstream = "open") \/ []Held)

\* The request the item belongs to, and the destination that request names.
NamedFor(i) ==
  LET at == {j \in DOMAIN script : script[j].kind = "host" /\ script[j - 1].kind = "get"}
      last == {j \in at : j - 1 <= i}
  IN script[Max(last)].n

\* What the README says: for each request the client opens a stream to that
\* request's host.  So a destination gets the requests that name it, also when
\* an application sends several on one connection.
OwnDestination == \A i \in Range(fed) : NamedFor(i) = req.host
=============================================================================
