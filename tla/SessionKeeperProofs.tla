-------------------------- MODULE SessionKeeperProofs --------------------------
(***************************************************************************)
(* Proofs about SessionKeeper, for every pair of delays, any number of     *)
(* faults and both ways to stop the server.  TokenOnce is not inductive:   *)
(* it needs to know where a token can be (in the reply of /control, in the *)
(* keeper's hand, in one HELLO), one place at a time.                      *)
(***************************************************************************)
EXTENDS SessionKeeper, TLAPS

\* The reply of /control is only there for a keeper that waits for it.
ReplyAwaited == control # "none" => keeper = "answer"

\* A token that is offered or in hand has not been in any HELLO.
TokenFresh ==
  /\ control = "hi" => \A c \in Conn : offer # hello[c]
  /\ token # 0 => \A c \in Conn : token # hello[c]

\* Connections not yet made, and the one the keeper is about to greet, have no
\* HELLO; the server only has a session where there was one.
HelloWhere ==
  /\ \A c \in Conn : c > conns => hello[c] = 0
  /\ keeper = "hello" => conns \in Conn /\ hello[conns] = 0
  /\ \A c \in Conn : srv[c] \in {"live", "cut"} => hello[c] # 0

KeeperInv ==
  /\ TypeOK
  /\ ReplyAwaited
  /\ TokenFresh
  /\ HelloWhere
  /\ TokenOnce
  /\ FreshBackoff
  /\ PublishedIsWatched

\* The delay after a failure stays between its limits.
LEMMA DoubledInRange ==
  ASSUME NEW b \in RECONNECT_INITIAL..RECONNECT_MAX
  PROVE  Doubled(b) \in RECONNECT_INITIAL..RECONNECT_MAX
  BY DelayAssumption DEF Doubled

\* The initial states satisfy the invariant.
LEMMA KeeperInvInit == Init => KeeperInv
<1> SUFFICES ASSUME Init PROVE KeeperInv
  OBVIOUS
<1> USE DelayAssumption, FaultAssumption DEF Init, Conn, MaxConn
<1>1. TypeOK
  <2>1. KeeperOK
    <3>1. backoff \in RECONNECT_INITIAL..RECONNECT_MAX /\ token \in 0..issued /\ shared \in 0..conns
      OBVIOUS
    <3>2. stop \in BOOLEAN
      BY Zenon
    <3> QED
      BY <3>1, <3>2 DEF KeeperOK
  <2>2. ConnsOK
    BY DEF ConnsOK
  <2>3. ServerOK
    BY DEF ServerOK
  <2> QED
    BY <2>1, <2>2, <2>3 DEF TypeOK
<1>2. ReplyAwaited /\ FreshBackoff /\ PublishedIsWatched
  BY DEF ReplyAwaited, FreshBackoff, PublishedIsWatched
<1>3. TokenFresh /\ HelloWhere
  BY DEF TokenFresh, HelloWhere
<1>4. TokenOnce
  BY DEF TokenOnce
<1> QED
  BY <1>1, <1>2, <1>3, <1>4 DEF KeeperInv

\* Each step of the keeper preserves the invariant.
LEMMA KeeperInvKeeper ==
  ASSUME KeeperInv, Keeper \/ KeeperStops
  PROVE  KeeperInv'
<1> USE DelayAssumption, FaultAssumption
    DEF KeeperInv, TypeOK, KeeperOK, ConnsOK, ServerOK, ReplyAwaited, TokenFresh, HelloWhere, TokenOnce, FreshBackoff,
        PublishedIsWatched, Conn, MaxConn, server, Fault
<1>1. CASE Ask
  BY <1>1 DEF Ask, ConnectOk, ConnectFails
<1>2. CASE Answer
  BY <1>2 DEF Answer
<1>3. CASE Dial
  <2>1. TypeOK'
    <3>1. KeeperOK'
      BY <1>3 DEF Dial, ConnectOk, ConnectFails
    <3>2. ConnsOK'
      <4>1. CASE keeper' = "hello"
        <5>1. /\ conns' = conns + 1 /\ conns' \in Conn
              /\ link' = [link EXCEPT ![conns'] = "up"]
              /\ srv' = [srv EXCEPT ![conns'] = "hello"]
          BY <1>3, <4>1 DEF Dial
        <5>2. conns' \in 0..MaxConn
          BY <5>1
        <5>3. UNCHANGED <<control, offer, hello, issued>>
          BY <1>3 DEF Dial
        <5> QED
          BY <5>1, <5>2, <5>3
      <4>2. CASE UNCHANGED <<conns, link, srv>>
        BY <1>3, <4>2 DEF Dial
      <4> QED
        BY <1>3, <4>1, <4>2 DEF Dial
    <3>3. ServerOK'
      BY <1>3 DEF Dial, ConnectOk, ConnectFails
    <3> QED
      BY <3>1, <3>2, <3>3
  <2>2. ReplyAwaited'
    BY <1>3 DEF Dial, ConnectOk, ConnectFails
  <2>3. TokenFresh'
    BY <1>3 DEF Dial, ConnectOk, ConnectFails
  <2>4. HelloWhere'
    BY <1>3 DEF Dial, ConnectOk, ConnectFails
  <2>5. TokenOnce'
    BY <1>3 DEF Dial, ConnectOk, ConnectFails
  <2>6. FreshBackoff'
    BY <1>3 DEF Dial, ConnectOk, ConnectFails
  <2>7. PublishedIsWatched'
    BY <1>3 DEF Dial, ConnectOk, ConnectFails
  <2> QED
    BY <2>1, <2>2, <2>3, <2>4, <2>5, <2>6, <2>7
<1>4. CASE SayHello
  <2>1. TypeOK'
    BY <1>4 DEF SayHello
  <2>2. ReplyAwaited'
    BY <1>4 DEF SayHello
  <2>3. TokenFresh'
    BY <1>4 DEF SayHello
  <2>4. HelloWhere'
    BY <1>4 DEF SayHello
  <2>5. TokenOnce'
    <3>1. ASSUME NEW c \in Conn, NEW d \in Conn, c # d, hello'[c] # 0
          PROVE  hello'[c] # hello'[d]
      BY <1>4, <3>1 DEF SayHello
    <3>2. ASSUME NEW c \in Conn, srv'[c] \in {"live", "cut"}
          PROVE  hello'[c] \notin store'
      BY <1>4, <3>2 DEF SayHello
    <3> QED
      BY <3>1, <3>2
  <2>6. FreshBackoff'
    BY <1>4 DEF SayHello
  <2>7. PublishedIsWatched'
    BY <1>4 DEF SayHello
  <2> QED
    BY <2>1, <2>2, <2>3, <2>4, <2>5, <2>6, <2>7
<1>5. CASE Wake
  <2>1. TypeOK'
    <3>1. KeeperOK'
      BY <1>5, DoubledInRange DEF Wake
    <3>2. ConnsOK'
      BY <1>5, DoubledInRange DEF Wake
    <3>3. ServerOK'
      BY <1>5, DoubledInRange DEF Wake
    <3> QED
      BY <3>1, <3>2, <3>3
  <2>2. ReplyAwaited'
    BY <1>5, DoubledInRange DEF Wake
  <2>3. TokenFresh'
    BY <1>5, DoubledInRange DEF Wake
  <2>4. HelloWhere'
    BY <1>5, DoubledInRange DEF Wake
  <2>5. TokenOnce'
    BY <1>5, DoubledInRange DEF Wake
  <2>6. FreshBackoff'
    BY <1>5, DoubledInRange DEF Wake
  <2>7. PublishedIsWatched'
    BY <1>5, DoubledInRange DEF Wake
  <2> QED
    BY <2>1, <2>2, <2>3, <2>4, <2>5, <2>6, <2>7
<1>6. CASE Disconnect
  BY <1>6 DEF Disconnect
<1>7. CASE KeeperStops
  BY <1>7 DEF KeeperStops
<1> QED
  BY <1>1, <1>2, <1>3, <1>4, <1>5, <1>6, <1>7 DEF Keeper

\* Each step of the server preserves it: only Control puts a token into the
\* store, and it is a new one.
LEMMA KeeperInvServer ==
  ASSUME KeeperInv, Server
  PROVE  KeeperInv'
<1> USE DelayAssumption, FaultAssumption
    DEF KeeperInv, TypeOK, KeeperOK, ConnsOK, ServerOK, ReplyAwaited, TokenFresh, HelloWhere, TokenOnce, FreshBackoff,
        PublishedIsWatched, Conn, MaxConn, client
<1>1. CASE Control
  <2>1. TypeOK'
    <3>1. KeeperOK'
      BY <1>1 DEF Control
    <3>2. ConnsOK'
      BY <1>1 DEF Control
    <3>3. ServerOK'
      <4>1. issued' \in Nat /\ store' \in SUBSET (1..issued')
        <5>1. CASE UNCHANGED <<issued, store>>
          BY <5>1
        <5>2. CASE issued' = issued + 1 /\ store' = store \cup {issued + 1}
          <6>1. issued' \in Nat /\ issued + 1 \in 1..issued' /\ 1..issued \subseteq 1..issued'
            BY <5>2
          <6> QED
            BY <5>2, <6>1
        <5> QED
          BY <1>1, <5>1, <5>2 DEF Control
      <4>2. UNCHANGED <<listening, allowed, shutdown, faults>>
        BY <1>1 DEF Control
      <4> QED
        BY <4>1, <4>2
    <3> QED
      BY <3>1, <3>2, <3>3
  <2>2. ReplyAwaited'
    BY <1>1 DEF Control
  <2>3. TokenFresh'
    BY <1>1 DEF Control
  <2>4. HelloWhere'
    BY <1>1 DEF Control
  <2>5. TokenOnce'
    BY <1>1 DEF Control
  <2>6. FreshBackoff'
    BY <1>1 DEF Control
  <2>7. PublishedIsWatched'
    BY <1>1 DEF Control
  <2> QED
    BY <2>1, <2>2, <2>3, <2>4, <2>5, <2>6, <2>7
<1>2. CASE ServeStops
  BY <1>2 DEF ServeStops, Taken
<1>3. CASE ControlStops
  BY <1>3 DEF ControlStops, Taken
<1>4. ASSUME NEW c \in Conn, Admit(c) PROVE KeeperInv'
  <2>1. TypeOK'
    BY <1>4 DEF Admit
  <2>2. ReplyAwaited'
    BY <1>4 DEF Admit
  <2>3. TokenFresh'
    BY <1>4 DEF Admit
  <2>4. HelloWhere'
    BY <1>4 DEF Admit
  <2>5. TokenOnce'
    BY <1>4 DEF Admit
  <2>6. FreshBackoff'
    BY <1>4 DEF Admit
  <2>7. PublishedIsWatched'
    BY <1>4 DEF Admit
  <2> QED
    BY <2>1, <2>2, <2>3, <2>4, <2>5, <2>6, <2>7
<1>5. ASSUME NEW c \in Conn, Notice(c) PROVE KeeperInv'
  BY <1>5 DEF Notice, server
<1>6. ASSUME NEW c \in Conn, ConnStops(c) PROVE KeeperInv'
  <2>1. TypeOK'
    BY <1>6 DEF ConnStops, Taken
  <2>2. ReplyAwaited'
    BY <1>6 DEF ConnStops, Taken
  <2>3. TokenFresh'
    BY <1>6 DEF ConnStops, Taken
  <2>4. HelloWhere'
    BY <1>6 DEF ConnStops, Taken
  <2>5. TokenOnce'
    BY <1>6 DEF ConnStops, Taken
  <2>6. FreshBackoff'
    BY <1>6 DEF ConnStops, Taken
  <2>7. PublishedIsWatched'
    BY <1>6 DEF ConnStops, Taken
  <2> QED
    BY <2>1, <2>2, <2>3, <2>4, <2>5, <2>6, <2>7
<1> QED
  BY <1>1, <1>2, <1>3, <1>4, <1>5, <1>6 DEF Server

\* Each step of the environment preserves it: a crash forgets tokens and
\* never brings one back.
LEMMA KeeperInvEnvironment ==
  ASSUME KeeperInv, Environment
  PROVE  KeeperInv'
<1> USE DelayAssumption, FaultAssumption
    DEF KeeperInv, TypeOK, KeeperOK, ConnsOK, ServerOK, ReplyAwaited, TokenFresh, HelloWhere, TokenOnce, FreshBackoff,
        PublishedIsWatched, Conn, MaxConn, Fault
<1>1. CASE StopClient
  BY <1>1 DEF StopClient, server
<1>2. CASE StopServer
  BY <1>2 DEF StopServer, client
<1>3. CASE LinkFails
  BY <1>3 DEF LinkFails, client, server
<1>4. CASE Crash
  <2>1. TypeOK'
    <3>1. KeeperOK'
      BY <1>4 DEF Crash, client
    <3>2. ConnsOK'
      BY <1>4 DEF Crash, client
    <3>3. ServerOK'
      <4>1. listening' \in BOOLEAN /\ allowed' \in BOOLEAN
        BY <1>4 DEF Crash
      <4>2. issued' \in Nat /\ store' \in SUBSET (1..issued') /\ faults' \in 0..MaxFaults
        BY <1>4 DEF Crash
      <4>3. shutdown' \in {"quiet", "message", "taken", "closed"}
        BY <1>4 DEF Crash
      <4> QED
        BY <4>1, <4>2, <4>3
    <3> QED
      BY <3>1, <3>2, <3>3
  <2>2. ReplyAwaited'
    BY <1>4 DEF Crash, client
  <2>3. TokenFresh'
    BY <1>4 DEF Crash, client
  <2>4. HelloWhere'
    BY <1>4 DEF Crash, client
  <2>5. TokenOnce'
    BY <1>4 DEF Crash, client
  <2>6. FreshBackoff'
    BY <1>4 DEF Crash, client
  <2>7. PublishedIsWatched'
    BY <1>4 DEF Crash, client
  <2> QED
    BY <2>1, <2>2, <2>3, <2>4, <2>5, <2>6, <2>7
<1>5. CASE Restart
  BY <1>5 DEF Restart, client
<1>6. ASSUME NEW c \in Conn, LastStreamEnds(c) PROVE KeeperInv'
  BY <1>6 DEF LastStreamEnds, client, server
<1> QED
  BY <1>1, <1>2, <1>3, <1>4, <1>5, <1>6 DEF Environment

\* Every step and every stuttering step preserves it.
LEMMA KeeperInvNext == KeeperInv /\ [Next]_vars => KeeperInv'
<1> SUFFICES ASSUME KeeperInv, [Next]_vars PROVE KeeperInv'
  OBVIOUS
<1>1. CASE Next
  BY <1>1, KeeperInvKeeper, KeeperInvServer, KeeperInvEnvironment DEF Next
<1>2. CASE UNCHANGED vars
  BY <1>2 DEF KeeperInv, TypeOK, KeeperOK, ConnsOK, ServerOK, ReplyAwaited, TokenFresh, HelloWhere, TokenOnce, FreshBackoff,
     PublishedIsWatched, Conn, MaxConn, vars, client, server
<1> QED
  BY <1>1, <1>2

\* The invariant holds in every reachable state.
LEMMA KeeperInvAlways == Spec => []KeeperInv
  BY KeeperInvInit, KeeperInvNext, PTL DEF Spec

\* run_mux_keeper and process_control: for any number of faults the state is
\* well typed, and the delay never leaves its limits.
THEOREM KeeperTypeCorrect == Spec => []TypeOK
<1>1. KeeperInv => TypeOK
  BY DEF KeeperInv
<1> QED
  BY <1>1, KeeperInvAlways, PTL

\* TokenStore: for any number of reconnections, crashes and restarts a token
\* is in at most one HELLO, and an admitted session has used its token up.
THEOREM TokenUsedOnce == Spec => []TokenOnce
<1>1. KeeperInv => TokenOnce
  BY DEF KeeperInv
<1> QED
  BY <1>1, KeeperInvAlways, PTL

\* SharedMux: for any number of reconnections handlers only ever see the last
\* connection made, and only while the keeper watches it.
THEOREM PublishedAlwaysWatched == Spec => []PublishedIsWatched
<1>1. KeeperInv => PublishedIsWatched
  BY DEF KeeperInv
<1> QED
  BY <1>1, KeeperInvAlways, PTL

\* run_mux_keeper: from the token on, the delay is the initial one again, for
\* any number of faults before and whichever later step fails.
THEOREM BackoffAlwaysFresh == Spec => []FreshBackoff
<1>1. KeeperInv => FreshBackoff
  BY DEF KeeperInv
<1> QED
  BY <1>1, KeeperInvAlways, PTL

-----------------------------------------------------------------------------
(* Reconnections are owed to faults.  The bound is not inductive: a fault  *)
(* may cost its connections long after it happened.  Owed counts them.     *)

\* The keeper has a connection that will serve it: admitted, or about to be.
InUse ==
  /\ keeper \in {"hello", "serve"} /\ link[conns] = "up"
  /\ \/ srv[conns] = "live"
     \/ srv[conns] = "hello" /\ (IF keeper = "hello" THEN token ELSE hello[conns]) \in store

\* A token on its way to the next connection, which the server knows or not.
Known ==
  \/ keeper = "dial" /\ token \in store
  \/ control = "hi" /\ offer \in store
  \/ control = "open"
Unknown ==
  \/ keeper = "dial" /\ token \notin store
  \/ control = "hi" /\ offer \notin store

\* The connections still to come if there is no other fault: one to replace the
\* one that is lost, one for a token that is lost, and those a stop of the
\* server will cost.
Lost  == IF InUse \/ keeper = "stopped" THEN 0 ELSE 1
Stale == IF Unknown THEN 1 ELSE 0
Cut   == IF shutdown = "message" \/ (shutdown = "closed" /\ InUse) THEN 1 ELSE 0
Void  == IF (shutdown = "closed" /\ listening) \/ (~listening /\ Known) THEN 1 ELSE 0

Owed  == Lost + Stale + Cut + Void

OwedInv ==
  /\ conns + Owed <= 2 * faults + 1
  /\ shutdown = "message" => listening
  /\ keeper \in {"hello", "serve"} => conns \in Conn

\* The counts are numbers.
LEMMA CountType == ASSUME KeeperInv PROVE conns \in Nat /\ faults \in Nat
BY FaultAssumption DEF KeeperInv, TypeOK, ConnsOK, ServerOK, MaxConn

\* A step without a new connection after which no more is owed, or that a
\* fault pays for.
LEMMA OwedLess ==
  ASSUME KeeperInv, OwedInv, conns' = conns, shutdown' = "message" => listening',
         keeper' \in {"hello", "serve"} => keeper \in {"hello", "serve"},
         \/ faults' = faults /\ Owed' <= Owed
         \/ faults' = faults + 1 /\ Owed' <= Owed + 2
  PROVE  OwedInv'
<1>1. conns \in Nat /\ faults \in Nat
  BY CountType
<1>2. PICK a \in Nat, b \in Nat : a = Owed /\ b = Owed'
  BY DEF Owed, Lost, Stale, Cut, Void
<1>3. conns + a <= 2 * faults + 1
  BY <1>2 DEF OwedInv
<1>4. conns' + b <= 2 * faults' + 1
  BY <1>1, <1>2, <1>3
<1>5. keeper' \in {"hello", "serve"} => conns' \in Conn
  BY DEF OwedInv
<1> QED BY <1>2, <1>4, <1>5 DEF OwedInv

\* Each step of the keeper: a new connection is the one that was owed.
LEMMA OwedKeeper ==
  ASSUME KeeperInv, OwedInv, Keeper \/ KeeperStops PROVE OwedInv'
<1>0. /\ conns \in Nat /\ faults \in Nat /\ (control # "none" => keeper = "answer")
      /\ (shutdown = "message" => listening)
  BY CountType DEF KeeperInv, OwedInv, ReplyAwaited
<1>1. CASE Ask
  <2>1. /\ ~InUse /\ ~InUse' /\ ~Known /\ ~Unknown /\ ~Unknown'
        /\ keeper # "stopped" /\ UNCHANGED <<shutdown, listening, conns>>
        /\ listening \/ ~Known'
    BY <1>0, <1>1 DEF Ask, InUse, Known, Unknown, server, ConnectOk
  <2>2. Owed' <= Owed
    BY <2>1 DEF Owed, Lost, Stale, Cut, Void
  <2>3. Owed' <= Owed + 2
    BY <2>1 DEF Owed, Lost, Stale, Cut, Void
  <2>4. faults' = faults \/ faults' = faults + 1
    BY <1>1 DEF Ask, ConnectOk, ConnectFails, Fault
  <2>5. keeper' \notin {"hello", "serve"}
    BY <1>1 DEF Ask
  <2> QED BY <1>0, <2>1, <2>2, <2>3, <2>4, <2>5, OwedLess
<1>2. CASE Answer
  <2>1. /\ ~InUse /\ ~InUse' /\ (Known' => Known) /\ (Unknown' => Unknown)
        /\ keeper # "stopped" /\ UNCHANGED <<shutdown, listening, conns, faults>>
    BY <1>0, <1>2 DEF Answer, InUse, Known, Unknown, server
  <2>2. Owed' <= Owed
    BY <2>1 DEF Owed, Lost, Stale, Cut, Void
  <2>3. keeper' \notin {"hello", "serve"}
    BY <1>2 DEF Answer
  <2> QED BY <1>0, <2>1, <2>2, <2>3, OwedLess
<1>3. CASE Dial
  <2>0. keeper = "dial" /\ control = "none" /\ control' = "none"
    BY <1>0, <1>3 DEF Dial
  <2>1. CASE keeper' = "redial"
    <3>1. /\ ~InUse /\ ~InUse' /\ ~Known' /\ ~Unknown'
          /\ keeper # "stopped" /\ UNCHANGED <<shutdown, listening, conns>>
      BY <2>0, <2>1, <1>3 DEF Dial, InUse, Known, Unknown, server
    <3>2. Owed' <= Owed
      BY <3>1 DEF Owed, Lost, Stale, Cut, Void
    <3>3. Owed' <= Owed + 2
      BY <3>1 DEF Owed, Lost, Stale, Cut, Void
    <3>4. faults' = faults \/ faults' = faults + 1
      BY <1>3 DEF Dial, ConnectOk, ConnectFails, Fault
    <3> QED BY <1>0, <2>1, <3>1, <3>2, <3>3, <3>4, OwedLess
  <2>2. CASE keeper' = "hello"
    <3>1. /\ ~InUse /\ ~Known' /\ ~Unknown' /\ listening
          /\ keeper # "stopped" /\ UNCHANGED <<shutdown, listening>>
          /\ conns' = conns + 1
      BY <2>0, <2>2, <1>3 DEF Dial, ConnectOk, InUse, Known, Unknown, server
    <3>2. Unknown \/ InUse'
      <4>1. /\ conns + 1 \in Conn /\ UNCHANGED <<token, store>>
            /\ link' = [link EXCEPT ![conns + 1] = "up"]
            /\ srv' = [srv EXCEPT ![conns + 1] = "hello"]
        BY <1>0, <2>2, <1>3, FaultAssumption DEF Dial, Conn, MaxConn, server
      <4>2. link'[conns'] = "up" /\ srv'[conns'] = "hello"
        BY <3>1, <4>1 DEF KeeperInv, TypeOK, ConnsOK
      <4> QED BY <2>0, <2>2, <4>1, <4>2 DEF Unknown, InUse
    <3>3. shutdown # "closed" => Owed' + 1 <= Owed
      BY <3>1, <3>2 DEF Owed, Lost, Stale, Cut, Void
    <3>4. Owed' <= Owed + 1
      BY <3>1, <3>2 DEF Owed, Lost, Stale, Cut, Void
    <3>5. faults' = IF shutdown = "closed" THEN faults + 1 ELSE faults
      BY <2>2, <1>3 DEF Dial, ConnectOk, Fault
    <3>6. PICK a \in Nat, b \in Nat : a = Owed /\ b = Owed'
      BY DEF Owed, Lost, Stale, Cut, Void
    <3>7. conns + a <= 2 * faults + 1
      BY <3>6 DEF OwedInv
    <3>8. conns' + b <= 2 * faults' + 1
      <4>1. CASE shutdown = "closed"
        <5>1. b <= a + 1 /\ faults' = faults + 1
          BY <3>4, <3>5, <3>6, <4>1
        <5> QED BY <1>0, <3>1, <3>7, <5>1
      <4>2. CASE shutdown # "closed"
        <5>1. b + 1 <= a /\ faults' = faults
          BY <3>3, <3>5, <3>6, <4>2
        <5> QED BY <1>0, <3>1, <3>7, <5>1
      <4> QED BY <4>1, <4>2
    <3>9. conns' \in Conn
      BY <1>0, <2>2, <1>3, FaultAssumption DEF Dial, Conn, MaxConn
    <3> QED BY <1>0, <3>1, <3>6, <3>8, <3>9 DEF OwedInv
  <2> QED BY <1>3, <2>1, <2>2 DEF Dial
<1>4. CASE SayHello
  <2>1. /\ (InUse' <=> InUse) /\ ~Known' /\ ~Unknown'
        /\ keeper # "stopped" /\ keeper' # "stopped"
        /\ UNCHANGED <<shutdown, listening, conns, faults>>
    <3>1. /\ keeper = "hello" /\ control = "none" /\ control' = "none"
          /\ UNCHANGED <<shutdown, listening, conns, faults, link, srv, store>>
          /\ keeper' \in {"serve", "ask"} /\ conns \in Conn
      BY <1>0, <1>4 DEF SayHello, server, KeeperInv, HelloWhere
    <3>2. CASE keeper' = "serve"
      <4>1. hello'[conns] = token
        BY <3>1, <3>2, <1>4 DEF SayHello, KeeperInv, TypeOK, ConnsOK
      <4> QED BY <3>1, <3>2, <4>1 DEF InUse, Known, Unknown
    <3>3. CASE keeper' = "ask"
      BY <3>1, <3>3, <1>4 DEF InUse, Known, Unknown, SayHello
    <3> QED BY <3>1, <3>2, <3>3
  <2>2. Owed' <= Owed
    BY <2>1 DEF Owed, Lost, Stale, Cut, Void
  <2>3. keeper = "hello"
    BY <1>4 DEF SayHello
  <2> QED BY <1>0, <2>1, <2>2, <2>3, OwedLess
<1>5. CASE Wake \/ Disconnect \/ KeeperStops
  <2>1. /\ InUse' => InUse
        /\ InUse => keeper' = "stopped"
        /\ ~Known' /\ ~Unknown' /\ keeper # "stopped"
        /\ UNCHANGED <<shutdown, listening, conns, faults>>
    BY <1>0, <1>5 DEF Wake, Disconnect, KeeperStops, InUse, Known, Unknown, server
  <2>2. Owed' <= Owed
    BY <2>1 DEF Owed, Lost, Stale, Cut, Void
  <2>3. keeper' \notin {"hello", "serve"}
    BY <1>5 DEF Wake, Disconnect, KeeperStops
  <2> QED BY <1>0, <2>1, <2>2, <2>3, OwedLess
<1> QED BY <1>1, <1>2, <1>3, <1>4, <1>5 DEF Keeper

\* Each step of the server: a stop costs the connection or the token it was
\* charged for, and a session is refused only for a token known to be lost.
LEMMA OwedServer ==
  ASSUME KeeperInv, OwedInv, Server PROVE OwedInv'
<1>0. /\ control # "none" => keeper = "answer"
      /\ shutdown = "message" => listening
      /\ UNCHANGED <<keeper, conns, faults>>
  BY DEF KeeperInv, OwedInv, ReplyAwaited, Server, Control, ServeStops, ControlStops, Admit,
    Notice, ConnStops, client, server
<1>1. CASE Control
  <2>1. /\ ~InUse /\ ~InUse' /\ Known /\ ~Unknown'
        /\ UNCHANGED <<shutdown, listening>>
    BY <1>0, <1>1 DEF Control, InUse, Known, Unknown, client
  <2>2. Owed' <= Owed
    BY <1>0, <2>1 DEF Owed, Lost, Stale, Cut, Void
  <2> QED BY <1>0, <2>1, <2>2, OwedLess
<1>2. CASE ServeStops
  <2>1. /\ (InUse' <=> InUse) /\ (Known' <=> Known) /\ (Unknown' <=> Unknown)
        /\ listening /\ ~listening'
        /\ \/ shutdown = "message" /\ shutdown' = "taken"
           \/ shutdown = "closed" /\ shutdown' = "closed"
    BY <1>2 DEF ServeStops, Taken, InUse, Known, Unknown, client
  <2>2. Owed' <= Owed
    BY <1>0, <2>1 DEF Owed, Lost, Stale, Cut, Void
  <2> QED BY <1>0, <2>1, <2>2, OwedLess
<1>3. CASE ControlStops
  <2>1. /\ ~InUse /\ ~InUse' /\ ~Known' /\ ~Unknown' /\ listening' = listening
        /\ \/ shutdown = "message" /\ shutdown' = "taken"
           \/ shutdown = "closed" /\ shutdown' = "closed"
    BY <1>0, <1>3 DEF ControlStops, Taken, InUse, Known, Unknown, client
  <2>2. Owed' <= Owed
    BY <1>0, <2>1 DEF Owed, Lost, Stale, Cut, Void
  <2> QED BY <1>0, <2>1, <2>2, OwedLess
<1>4. ASSUME NEW c \in Conn, Admit(c) PROVE OwedInv'
  <2>0. /\ srv[c] = "hello" /\ hello[c] # 0
        /\ UNCHANGED <<token, control, offer, hello, shutdown, listening>>
    BY <1>4 DEF Admit, client
  <2>1. /\ keeper = "hello" => c # conns
        /\ token # hello[c] \/ token \notin store
        /\ control = "hi" => offer # hello[c]
        /\ conns \in Conn /\ conns # c => hello[c] # hello[conns]
    BY <2>0 DEF KeeperInv, HelloWhere, TokenFresh, TokenOnce, TypeOK, ServerOK
  <2>2. /\ \A x : x \in store' => x \in store
        /\ \A x : x \in store /\ x # hello[c] => x \in store'
    BY <1>4 DEF Admit
  <2>3. (Known' => Known) /\ (Unknown' => Unknown)
    BY <1>0, <2>0, <2>1, <2>2 DEF Known, Unknown
  <2>4. InUse => InUse'
    <3>1. SUFFICES ASSUME InUse PROVE InUse'
      OBVIOUS
    <3>2. conns \in Conn
      BY <3>1 DEF InUse, OwedInv
    <3>3. /\ link \in [Conn -> {"none", "up", "down"}]
          /\ srv \in [Conn -> {"none", "hello", "live", "cut", "gone"}]
      BY DEF KeeperInv, TypeOK, ConnsOK
    <3>4. CASE c = conns
      <4>1. keeper = "serve" /\ hello[c] \in store
        BY <2>0, <2>1, <3>1, <3>4 DEF InUse
      <4>2. link' = link /\ srv'[conns] = "live"
        BY <1>4, <3>3, <3>4, <4>1 DEF Admit
      <4> QED BY <1>0, <3>1, <4>2 DEF InUse
    <3>5. CASE c # conns
      <4>1. link'[conns] = link[conns] /\ srv'[conns] = srv[conns]
        BY <1>4, <3>2, <3>3, <3>5 DEF Admit
      <4> QED BY <1>0, <2>0, <2>1, <2>2, <3>1, <3>2, <3>5, <4>1 DEF InUse
    <3> QED BY <3>4, <3>5
  <2>5. InUse' => keeper # "stopped"
    BY <1>0 DEF InUse
  <2>6. Owed' <= Owed
    <3>1. Stale' <= Stale /\ Stale \in 0..1 /\ Stale' \in 0..1
      BY <2>0, <2>3 DEF Stale
    <3>2. Void' <= Void /\ Void \in 0..1 /\ Void' \in 0..1
      BY <2>0, <2>3 DEF Void
    <3>3. Lost' + Cut' <= Lost + Cut
      BY <1>0, <2>0, <2>4, <2>5 DEF Lost, Cut
    <3>4. {Lost, Lost', Cut, Cut'} \subseteq 0..1
      BY DEF Lost, Cut
    <3> QED BY <3>1, <3>2, <3>3, <3>4 DEF Owed
  <2> QED BY <1>0, <2>0, <2>6, OwedLess
<1>5. ASSUME NEW c \in Conn, Notice(c) PROVE OwedInv'
  <2>1. /\ UNCHANGED <<token, control, offer, hello, shutdown, listening, store, link>>
        /\ link[c] = "down" /\ \A d \in Conn : d # c => srv'[d] = srv[d]
    BY <1>5 DEF Notice, client, server, KeeperInv, TypeOK, ConnsOK
  <2>2. /\ (InUse' <=> InUse) /\ (Known' <=> Known) /\ (Unknown' <=> Unknown)
    BY <1>0, <2>1 DEF InUse, Known, Unknown, OwedInv
  <2>3. Owed' <= Owed
    BY <1>0, <2>1, <2>2 DEF Owed, Lost, Stale, Cut, Void
  <2> QED BY <1>0, <2>1, <2>3, OwedLess
<1>6. ASSUME NEW c \in Conn, ConnStops(c) PROVE OwedInv'
  <2>1. /\ UNCHANGED <<token, control, offer, hello, listening, store>>
        /\ \/ shutdown = "message" /\ shutdown' = "taken"
           \/ shutdown = "closed" /\ shutdown' = "closed"
        /\ srv'[c] \in {"gone", "cut"}
        /\ \A d \in Conn : d # c => srv'[d] = srv[d] /\ link'[d] = link[d]
    BY <1>6 DEF ConnStops, Taken, client, KeeperInv, TypeOK, ConnsOK
  <2>2. /\ (InUse' => InUse) /\ (Known' <=> Known) /\ (Unknown' <=> Unknown)
    BY <1>0, <2>1 DEF InUse, Known, Unknown, OwedInv
  <2>3. Owed' <= Owed
    BY <1>0, <2>1, <2>2 DEF Owed, Lost, Stale, Cut, Void
  <2> QED BY <1>0, <2>1, <2>3, OwedLess
<1> QED BY <1>1, <1>2, <1>3, <1>4, <1>5, <1>6 DEF Server

\* Each step of the environment: a fault costs two connections at most.
LEMMA OwedEnvironment ==
  ASSUME KeeperInv, OwedInv, Environment PROVE OwedInv'
<1>0. /\ control # "none" => keeper = "answer"
      /\ shutdown = "message" => listening
      /\ UNCHANGED <<keeper, conns, token>>
  BY DEF KeeperInv, OwedInv, ReplyAwaited, Environment, StopClient, StopServer, LinkFails, Crash,
    Restart, LastStreamEnds, client
<1>1. CASE StopClient
  <2>1. UNCHANGED <<link, srv, hello, store, control, offer, shutdown, listening, faults>>
    BY <1>1 DEF StopClient, server
  <2>2. (InUse' <=> InUse) /\ (Known' <=> Known) /\ (Unknown' <=> Unknown)
    BY <1>0, <2>1 DEF InUse, Known, Unknown
  <2>3. Owed' <= Owed
    BY <1>0, <2>1, <2>2 DEF Owed, Lost, Stale, Cut, Void
  <2> QED BY <1>0, <2>1, <2>3, OwedLess
<1>2. CASE StopServer
  <2>1. /\ UNCHANGED <<link, srv, hello, store, control, offer, listening>>
        /\ listening /\ faults' = faults + 1
        /\ shutdown' \in {"message", "closed"}
    BY <1>2 DEF StopServer, Fault
  <2>2. (InUse' <=> InUse) /\ (Known' <=> Known) /\ (Unknown' <=> Unknown)
    BY <1>0, <2>1 DEF InUse, Known, Unknown
  <2>3. Owed' <= Owed + 2
    BY <1>0, <2>1, <2>2 DEF Owed, Lost, Stale, Cut, Void
  <2> QED BY <1>0, <2>1, <2>3, OwedLess
<1>3. CASE LinkFails
  <2>1. /\ UNCHANGED <<srv, hello, store, offer, shutdown, listening>>
        /\ faults' = faults + 1
        /\ control' = control \/ control' = "broken"
        /\ \A c \in Conn : link'[c] = link[c] \/ link'[c] = "down"
    BY <1>3 DEF LinkFails, Fault, server, KeeperInv, TypeOK, ConnsOK
  <2>2. (InUse' => InUse) /\ (Known' => Known) /\ (Unknown' => Unknown)
    BY <1>0, <2>1 DEF InUse, Known, Unknown, OwedInv
  <2>3. Owed' <= Owed + 2
    BY <1>0, <2>1, <2>2 DEF Owed, Lost, Stale, Cut, Void
  <2> QED BY <1>0, <2>1, <2>3, OwedLess
<1>4. CASE Crash
  <2>1. /\ faults' = faults + 1 /\ shutdown' = "quiet"
        /\ store' = {} /\ control' \in {"none", "broken"}
    BY <1>4 DEF Crash, Fault
  <2>2. ~Known'
    BY <2>1 DEF Known
  <2>3. Owed' <= Owed + 2
    BY <2>1, <2>2 DEF Owed, Lost, Stale, Cut, Void
  <2> QED BY <1>0, <2>1, <2>3, OwedLess
<1>5. CASE Restart
  <2>1. /\ UNCHANGED <<control, offer, link, srv, hello, faults>>
        /\ ~listening /\ listening' /\ shutdown' = "quiet" /\ control # "open"
        /\ \A c \in Conn : srv[c] \notin {"hello", "live"}
    BY <1>5 DEF Restart
  <2>2. ~InUse /\ ~InUse'
    BY <1>0, <2>1 DEF InUse, OwedInv
  <2>3. Unknown' => Unknown \/ Known
    BY <1>0, <2>1 DEF Known, Unknown
  <2>4. Owed' <= Owed
    BY <1>0, <2>1, <2>2, <2>3 DEF Owed, Lost, Stale, Cut, Void
  <2> QED BY <1>0, <2>1, <2>4, OwedLess
<1>6. ASSUME NEW c \in Conn, LastStreamEnds(c) PROVE OwedInv'
  <2>1. /\ UNCHANGED <<control, offer, hello, store, shutdown, listening, faults>>
        /\ srv[c] = "cut" /\ srv'[c] = "gone"
        /\ \A d \in Conn : d # c => srv'[d] = srv[d] /\ link'[d] = link[d]
    BY <1>6 DEF LastStreamEnds, server, KeeperInv, TypeOK, ConnsOK
  <2>2. (InUse' <=> InUse) /\ (Known' <=> Known) /\ (Unknown' <=> Unknown)
    BY <1>0, <2>1 DEF InUse, Known, Unknown, OwedInv
  <2>3. Owed' <= Owed
    BY <1>0, <2>1, <2>2 DEF Owed, Lost, Stale, Cut, Void
  <2> QED BY <1>0, <2>1, <2>3, OwedLess
<1> QED BY <1>1, <1>2, <1>3, <1>4, <1>5, <1>6 DEF Environment

\* Every step and every stuttering step preserves it.
LEMMA OwedNext == KeeperInv /\ OwedInv /\ [Next]_vars => OwedInv'
<1> SUFFICES ASSUME KeeperInv, OwedInv, [Next]_vars PROVE OwedInv'
  OBVIOUS
<1>1. CASE Next
  BY <1>1, OwedKeeper, OwedServer, OwedEnvironment DEF Next
<1>2. CASE UNCHANGED vars
  <2>1. UNCHANGED <<keeper, conns, token, link, srv, hello, store, control, offer, shutdown,
                    listening, faults>>
    BY <1>2 DEF vars, client, server
  <2>2. (InUse' <=> InUse) /\ (Known' <=> Known) /\ (Unknown' <=> Unknown)
    BY <2>1 DEF InUse, Known, Unknown
  <2>3. Owed' <= Owed
    BY <2>1, <2>2 DEF Owed, Lost, Stale, Cut, Void
  <2>4. shutdown' = "message" => listening'
    BY <2>1 DEF OwedInv
  <2> QED BY <2>1, <2>3, <2>4, OwedLess
<1> QED BY <1>1, <1>2

\* At the start the first connection is to come.
LEMMA OwedInit == Init => OwedInv
<1> SUFFICES ASSUME Init PROVE OwedInv
  OBVIOUS
<1>1. ~InUse /\ ~Known /\ ~Unknown /\ listening /\ shutdown = "quiet" /\ keeper = "ask"
  BY DEF Init, InUse, Known, Unknown
<1>2. Owed = 1
  BY <1>1 DEF Owed, Lost, Stale, Cut, Void
<1> QED BY <1>1, <1>2 DEF OwedInv, Init

\* What is owed bounds the connections, the one about to be dialled included.
LEMMA OwedBounds == KeeperInv /\ OwedInv => ReconnectsOwed
<1> SUFFICES ASSUME KeeperInv, OwedInv PROVE ReconnectsOwed
  OBVIOUS
<1>1. conns \in Nat /\ faults \in Nat
  BY CountType
<1>2. PICK a \in Nat : a = Owed
  BY DEF Owed, Lost, Stale, Cut, Void
<1>3. keeper = "dial" => a >= 1
  <2>1. keeper = "dial" => Lost = 1
    BY DEF Lost, InUse
  <2> QED BY <1>2, <2>1 DEF Owed, Stale, Cut, Void
<1>4. conns + a <= 2 * faults + 1
  BY <1>2 DEF OwedInv
<1> QED BY <1>1, <1>3, <1>4 DEF ReconnectsOwed

\* run_mux_keeper: for any number of faults, in whatever order links break,
\* servers crash, stop and restart, the client makes no more than two /mux
\* connections per fault after the first.
THEOREM ReconnectsAlwaysOwed == Spec => []ReconnectsOwed
<1>1. Init => KeeperInv /\ OwedInv
  BY KeeperInvInit, OwedInit
<1>2. KeeperInv /\ OwedInv /\ [Next]_vars => (KeeperInv /\ OwedInv)'
  BY KeeperInvNext, OwedNext
<1> QED
  BY <1>1, <1>2, OwedBounds, PTL DEF Spec
=============================================================================
