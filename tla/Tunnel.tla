-------------------------------- MODULE Tunnel --------------------------------
(***************************************************************************)
(* What the tunnel promises to the two TCP peers of a stream, whatever     *)
(* carries it: the server connects before the application is told so, a    *)
(* stream that was refused stays silent, and each direction is a queue     *)
(* that loses nothing in the middle and repeats nothing.  It may stop      *)
(* delivering at any time: links break.  Sessions, frames, channels and    *)
(* registries do not appear here.                                          *)
(***************************************************************************)
EXTENDS Naturals, Sequences

CONSTANTS
  Stream,    \* one stream per local connection
  Connect    \* streams whose application waits for an answer before it talks

VARIABLES
  connected, \* the streams whose destination the server is connected to
  answer,    \* answer[s]: what the application was told: none, ok or err
  sent,      \* sent[e][s]: number of chunks taken from the peer at end e
  got        \* got[e][s]: chunks handed to the peer at end e, by number

vars == <<connected, answer, sent, got>>

End == {"client", "server"}
Other(e) == IF e = "client" THEN "server" ELSE "client"

Init ==
  /\ connected = {}
  /\ answer = [s \in Stream |-> "none"]
  /\ sent = [e \in End |-> [s \in Stream |-> 0]]
  /\ got = [e \in End |-> [s \in Stream |-> <<>>]]

\* The server connects, at most once per stream.
Establish(s) ==
  /\ s \notin connected
  /\ connected' = connected \cup {s}
  /\ UNCHANGED <<answer, sent, got>>

\* Success is reported only where it is awaited and true.
Accept(s) ==
  /\ s \in Connect \cap connected /\ answer[s] = "none"
  /\ answer' = [answer EXCEPT ![s] = "ok"]
  /\ UNCHANGED <<connected, sent, got>>

\* A failure can be reported until the stream carries data, also when the
\* server did connect: its answer may be late or lost.
Refuse(s) ==
  /\ answer[s] = "none" /\ sent["client"][s] = 0 /\ got["client"][s] = <<>>
  /\ answer' = [answer EXCEPT ![s] = "err"]
  /\ UNCHANGED <<connected, sent, got>>

\* The application may use the stream: its end talks and listens.
Usable(s) ==
  s \in connected /\ answer[s] = (IF s \in Connect THEN "ok" ELSE "none")

Take(e, s) ==
  /\ IF e = "client" THEN Usable(s) ELSE s \in connected
  /\ sent' = [sent EXCEPT ![e][s] = @ + 1]
  /\ UNCHANGED <<connected, answer, got>>

Deliver(e, s) ==
  /\ e = "client" => Usable(s)
  /\ Len(got[e][s]) < sent[Other(e)][s]
  /\ got' = [got EXCEPT ![e][s] = Append(@, Len(@) + 1)]
  /\ UNCHANGED <<connected, answer, sent>>

Next ==
  \E s \in Stream :
    \/ Establish(s) \/ Accept(s) \/ Refuse(s)
    \/ \E e \in End : Take(e, s) \/ Deliver(e, s)

Spec == Init /\ [][Next]_vars
=============================================================================
