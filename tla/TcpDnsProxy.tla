---------------------------- MODULE TcpDnsProxy ----------------------------
(***************************************************************************)
(* TcpDnsProxy (platform/windows/tcp_dns_proxy.cpp): the listener that     *)
(* reflected TCP connections reach.  It cannot be bound to the loopback    *)
(* interface, so that a connection is served only if its SYN was captured  *)
(* shortly before: the receive loop of the interception enters the tuple,  *)
(* the handler of the connection consumes it.                              *)
(*                                                                         *)
(* A tuple stands for the original resolver's address and the client port. *)
(***************************************************************************)
EXTENDS Integers, FiniteSets

CONSTANTS
  Tuples,
  Connections,     \* accepted sockets at one time
  ExpectedLimit,   \* 4096 tuples
  Lifetime,        \* 5 s
  HandlerThreads,  \* 32
  HandlerQueue,    \* 128
  MaxTime          \* bound of the model: the steady clock stops here

VARIABLES
  listening,   \* running, with both listeners open
  expected,    \* [tuples present -> end of their lifetime]
  time,        \* steady clock
  connection,  \* [Connections -> the client's handler]
  captured,    \* history: time of the last SYN of a tuple, -1 when spent
  unexpected   \* history: a connection was served without a SYN of its own

proxyVars == <<listening, expected, time, connection, captured, unexpected>>

NoConnection == [at |-> "none"]

ProxyInit ==
  /\ listening = FALSE
  /\ expected = <<>>
  /\ time = 0
  /\ connection = [c \in Connections |-> NoConnection]
  /\ captured = [k \in Tuples |-> -1]
  /\ unexpected = FALSE

\* prune_expected
Pruned == [k \in {q \in DOMAIN expected : expected[q] > time} |-> expected[k]]

TableFull(k) == k \notin DOMAIN Pruned /\ Cardinality(DOMAIN Pruned) >= ExpectedLimit

\* expect_connection
Expect(k) ==
  /\ ~TableFull(k)
  /\ expected' = [q \in DOMAIN Pruned \union {k} |->
                    IF q = k THEN time + Lifetime ELSE expected[q]]
  /\ captured' = [captured EXCEPT ![k] = time]
  /\ UNCHANGED <<listening, time, connection, unexpected>>

\* "Too many pending reflected TCP connections"
ExpectFails(k) ==
  /\ TableFull(k)
  /\ expected' = Pruned
  /\ UNCHANGED <<listening, time, connection, captured, unexpected>>

Forget(k) ==
  /\ expected' = [q \in DOMAIN expected \ {k} |-> expected[q]]
  /\ captured' = [captured EXCEPT ![k] = -1]
  /\ UNCHANGED <<listening, time, connection, unexpected>>

-----------------------------------------------------------------------------
At(stage) == {c \in Connections : connection[c].at = stage}

\* accept_loop; a connection the executor has no room for is closed at once
Accept(c, k) ==
  /\ listening /\ connection[c].at = "none"
  /\ Cardinality(At("queued")) < HandlerQueue
  /\ connection' = [connection EXCEPT ![c] = [at |-> "queued", tuple |-> k]]
  /\ UNCHANGED <<listening, expected, time, captured, unexpected>>

\* Mutant of Consumed: the tuple is left for the next connection.
ConsumedNever(k) == Pruned

Consumed(k) == [q \in DOMAIN Pruned \ {k} |-> expected[q]]

\* consume_expected, the first thing the handler does
Handle(c) ==
  LET k == connection[c].tuple IN
  /\ connection[c].at = "queued"
  /\ Cardinality(At("serving")) < HandlerThreads
  /\ \/ /\ k \in DOMAIN Pruned
        /\ expected' = Consumed(k)
        /\ connection' = [connection EXCEPT ![c].at = "serving"]
        /\ captured' = [captured EXCEPT ![k] = -1]
        /\ unexpected' = (unexpected \/ captured[k] = -1 \/ captured[k] + Lifetime <= time)
     \/ /\ k \notin DOMAIN Pruned
        /\ expected' = Pruned
        /\ connection' = [connection EXCEPT ![c] = NoConnection]
        /\ UNCHANGED <<captured, unexpected>>
  /\ UNCHANGED <<listening, time>>

\* End of the stream, a frame that is late or too short, or running is false.
Finish(c) ==
  /\ connection[c].at = "serving"
  /\ connection' = [connection EXCEPT ![c] = NoConnection]
  /\ UNCHANGED <<listening, expected, time, captured, unexpected>>

-----------------------------------------------------------------------------
Listen ==
  /\ ~listening /\ listening' = TRUE
  /\ UNCHANGED <<expected, time, connection, captured, unexpected>>

\* stop: the listeners are closed, the queued connections are dropped ...
StopListening ==
  /\ listening' = FALSE
  /\ connection' = [c \in Connections |->
                      IF connection[c].at = "queued" THEN NoConnection ELSE connection[c]]
  /\ UNCHANGED <<expected, time, captured, unexpected>>

\* ... and when the handlers have been joined, the tuples are forgotten.
ProxyStopped ==
  /\ ~listening /\ At("serving") = {}
  /\ expected' = <<>>
  /\ captured' = [k \in Tuples |-> -1]
  /\ UNCHANGED <<listening, time, connection, unexpected>>

SecondPasses ==
  /\ time < MaxTime
  /\ time' = time + 1
  /\ UNCHANGED <<listening, expected, connection, captured, unexpected>>

\* What clients and handlers do on their own.
ProxyWorks ==
  \/ \E c \in Connections, k \in Tuples : Accept(c, k)
  \/ \E c \in Connections : Handle(c) \/ Finish(c)
  \/ SecondPasses

-----------------------------------------------------------------------------
(* "one-shot validation of recently captured client SYN tuples" (docs/     *)
(* DNS_TRANSPORTS.md): every connection that is served has a SYN of its    *)
(* own, captured less than five seconds earlier, that no other connection  *)
(* and no reset has spent.                                                 *)
OneShot == ~unexpected
=============================================================================
