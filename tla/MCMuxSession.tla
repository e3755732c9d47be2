----------------------------- MODULE MCMuxSession -----------------------------
(* Instances of MuxSession for TLC: the bounds on the peers, and symmetry. *)
EXTENDS MuxSession, TLC

\* MaxChunk: how many chunks the peers at the client and at the server send.
Chunks(c, s) == [e \in End |-> IF e = "client" THEN c ELSE s]
Chunks00 == Chunks(0, 0)
Chunks02 == Chunks(0, 2)
Chunks11 == Chunks(1, 1)
Chunks12 == Chunks(1, 2)
Chunks22 == Chunks(2, 2)

\* Leaves: the peers stay; close in order; only the applications close; the
\* applications reset and the upstreams close.
Stay     == [e \in End |-> {}]
Quit     == [e \in End |-> {"eof"}]
AppsDie  == [e \in End |-> IF e = "client" THEN {"reset"} ELSE {"eof"}]
AppsQuit == [e \in End |-> IF e = "client" THEN {"eof"} ELSE {}]

\* Streams of the same kind are interchangeable.
Symmetry == Permutations(Connect) \cup Permutations(Stream \ Connect)
=============================================================================
