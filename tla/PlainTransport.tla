--------------------------- MODULE PlainTransport ---------------------------
(***************************************************************************)
(* PlainTransport (platform/linux/dns_transport.cpp and its Windows twin): *)
(* DNS over UDP and over pooled TCP connections, used by every handler of  *)
(* a routing snapshot at once.  A pool key is an endpoint with the network *)
(* generation; its entries are leased to one exchange at a time.  Every    *)
(* upstream socket is entered, by its local port, into a registry that     *)
(* tells packet interception to leave it alone; closing the socket and     *)
(* leaving the registry are two steps, and the kernel may hand the port    *)
(* out again in between.                                                   *)
(***************************************************************************)
EXTENDS Integers, FiniteSets, SequencesExt

CONSTANTS
  Handlers,       \* threads that run exchange()
  Endpoints,      \* configured addresses
  UdpPorts,       \* local ports the kernel hands out
  TcpPorts,
  PerKey,         \* 4 connections to an endpoint
  MaxKeys,        \* 128 pool keys
  MaxGeneration,  \* bound of the model: network changes
  NoPort

ASSUME PlainTransportConstants ==
  /\ IsFiniteSet(Handlers)
  /\ {PerKey, MaxKeys, MaxGeneration} \subseteq Nat \ {0}
  /\ UdpPorts \intersect TcpPorts = {} /\ NoPort \notin UdpPorts \union TcpPorts

VARIABLES
  generation,  \* NetworkMonitor's current generation
  pool,        \* [keys present -> sequence of entries]
  sockets,     \* [ports -> "free" | "bound" | "connected"]
  owed,        \* [ports -> replies the peer has yet to deliver]
  registry,    \* [ports -> NetworkUpstreamGuard objects]
  exchange     \* [Handlers -> the exchange in progress]

plainVars == <<generation, pool, sockets, owed, registry, exchange>>

Ports == UdpPorts \union TcpPorts
LocalPorts(over) == IF over = "tcp" THEN TcpPorts ELSE UdpPorts
Resting == [at |-> "resting", over |-> "udp", key |-> <<>>, lease |-> 0, attempt |-> 0,
            port |-> NoPort, retiring |-> {}]
Exchange(over, endpoint) ==
  [Resting EXCEPT !.at = IF over = "tcp" THEN "acquire" ELSE "attempt", !.over = over,
                  !.key = <<endpoint, generation>>]

PlainInit ==
  /\ generation = 1
  /\ pool = <<>>
  /\ sockets = [p \in Ports |-> "free"]
  /\ owed = [p \in Ports |-> 0]
  /\ registry = [p \in Ports |-> 0]
  /\ exchange = [t \in Handlers |-> Resting]

Steps(t, from) == exchange[t].at = from /\ exchange[t].retiring = {}
Moves(t, to) == exchange' = [exchange EXCEPT ![t].at = to]

-----------------------------------------------------------------------------
(* The pool: everything from Prune to Take, Grow, Busy or Wait happens     *)
(* under pool_mutex_.                                                      *)

MutexIsFree == \A t \in Handlers : exchange[t].at # "select"
Spare(k) == \A i \in DOMAIN pool[k] : ~pool[k][i].busy

\* The keys that may be erased: none of their entries is leased.
Disposable(keys) == {k \in keys : Spare(k)}

\* Erasing a key closes the sockets of its entries; their guards go next.
Erase(t, keys) ==
  LET closed == (UNION {{pool[k][i].port : i \in DOMAIN pool[k]} : k \in keys}) \ {NoPort}
  IN  /\ pool' = [k \in DOMAIN pool \ keys |-> pool[k]]
      /\ sockets' = [p \in Ports |-> IF p \in closed THEN "free" ELSE sockets[p]]
      /\ owed' = [p \in Ports |-> IF p \in closed THEN 0 ELSE owed[p]]
      /\ exchange' = [exchange EXCEPT ![t].at = "select", ![t].retiring = closed]
      /\ UNCHANGED <<generation, registry>>

Prune(t) ==
  /\ Steps(t, "acquire") /\ MutexIsFree
  /\ Erase(t, Disposable({k \in DOMAIN pool : k[2] # exchange[t].key[2]}))

\* limit_idle_pool
Full(t) == exchange[t].key \notin DOMAIN pool /\ Cardinality(DOMAIN pool) >= MaxKeys

Evict(t) ==
  /\ Steps(t, "select") /\ Full(t) /\ Disposable(DOMAIN pool) # {}
  /\ Erase(t, Disposable(DOMAIN pool))

Busy(t) ==
  /\ Steps(t, "select") /\ Full(t) /\ Disposable(DOMAIN pool) = {}
  /\ exchange' = [exchange EXCEPT ![t] = Resting]
  /\ UNCHANGED <<generation, pool, sockets, owed, registry>>

Entries(t) == IF exchange[t].key \in DOMAIN pool THEN pool[exchange[t].key] ELSE <<>>
Idle(t) == {i \in DOMAIN Entries(t) : ~Entries(t)[i].busy}

SetEntries(t, entries) ==
  pool' = [k \in DOMAIN pool \union {exchange[t].key} |->
             IF k = exchange[t].key THEN entries ELSE pool[k]]

Lease(t, i, entries) ==
  /\ SetEntries(t, entries)
  /\ exchange' = [exchange EXCEPT ![t].at = "leased", ![t].lease = i,
                                  ![t].port = entries[i].port]
  /\ UNCHANGED <<generation, sockets, owed, registry>>

Take(t) ==
  /\ Steps(t, "select") /\ ~Full(t) /\ Idle(t) # {}
  /\ LET i == Min(Idle(t)) IN Lease(t, i, [Entries(t) EXCEPT ![i].busy = TRUE])

Grow(t) ==
  /\ Steps(t, "select") /\ ~Full(t) /\ Idle(t) = {} /\ Len(Entries(t)) < PerKey
  /\ Lease(t, Len(Entries(t)) + 1,
           Append(Entries(t), [busy |-> TRUE, port |-> NoPort, rested |-> FALSE]))

\* wait_until_change releases the mutex, and polls whether or not it was notified.
Wait(t) ==
  /\ Steps(t, "select") /\ ~Full(t) /\ Idle(t) = {} /\ Len(Entries(t)) >= PerKey
  /\ Moves(t, "waiting")
  /\ UNCHANGED <<generation, pool, sockets, owed, registry>>

Wake(t) ==
  /\ Steps(t, "waiting") /\ MutexIsFree
  /\ Moves(t, "select")
  /\ UNCHANGED <<generation, pool, sockets, owed, registry>>

\* TIMEOUT or CANCELLED while waiting
GiveUp(t) ==
  /\ Steps(t, "waiting")
  /\ exchange' = [exchange EXCEPT ![t] = Resting]
  /\ UNCHANGED <<generation, pool, sockets, owed, registry>>

-----------------------------------------------------------------------------
(* Connections.  A lease shares its entry's connection.                    *)

EntryPort(t, port, rested) ==
  IF exchange[t].lease = 0 THEN UNCHANGED pool
  ELSE SetEntries(t, [Entries(t) EXCEPT ![exchange[t].lease] =
                        [busy |-> TRUE, port |-> port, rested |-> rested]])

\* ~ConnectedSocket: the socket is closed, its guard is destroyed next.
Close(t, to, attempt) ==
  LET p == exchange[t].port IN
  /\ sockets' = [q \in Ports |-> IF q = p THEN "free" ELSE sockets[q]]
  /\ owed' = [q \in Ports |-> IF q = p THEN 0 ELSE owed[q]]
  /\ EntryPort(t, NoPort, FALSE)
  /\ exchange' = [exchange EXCEPT ![t].at = to, ![t].port = NoPort, ![t].attempt = attempt,
                    ![t].retiring = IF p = NoPort THEN {} ELSE {p}]
  /\ UNCHANGED <<generation, registry>>

\* Mutant of Unregister: the registry forgets the port, whoever uses it now.
UnregisterAll(t) ==
  \E p \in exchange[t].retiring :
    /\ registry' = [registry EXCEPT ![p] = 0]
    /\ exchange' = [exchange EXCEPT ![t].retiring = @ \ {p}]
    /\ UNCHANGED <<generation, pool, sockets, owed>>

Unregister(t) ==
  \E p \in exchange[t].retiring :
    /\ registry' = [registry EXCEPT ![p] = @ - 1]
    /\ exchange' = [exchange EXCEPT ![t].retiring = @ \ {p}]
    /\ UNCHANGED <<generation, pool, sockets, owed>>

\* A connection idle for more than 30 s is not used again.
Inspect(t) ==
  /\ Steps(t, "leased")
  /\ IF exchange[t].port # NoPort /\ Entries(t)[exchange[t].lease].rested
     THEN Close(t, "attempt", 0)
     ELSE Moves(t, "attempt") /\ UNCHANGED <<generation, pool, sockets, owed, registry>>

Bind(t) ==
  /\ Steps(t, "attempt") /\ exchange[t].port = NoPort
  /\ \E p \in LocalPorts(exchange[t].over) :
       /\ sockets[p] = "free"
       /\ sockets' = [sockets EXCEPT ![p] = "bound"]
       /\ exchange' = [exchange EXCEPT ![t].at = "bound", ![t].port = p]
  /\ UNCHANGED <<generation, pool, owed, registry>>

Register(t) ==
  /\ Steps(t, "bound")
  /\ registry' = [registry EXCEPT ![exchange[t].port] = @ + 1]
  /\ Moves(t, "connecting")
  /\ UNCHANGED <<generation, pool, sockets, owed>>

Connect(t) ==
  /\ Steps(t, "connecting")
  /\ sockets' = [sockets EXCEPT ![exchange[t].port] = "connected"]
  /\ EntryPort(t, exchange[t].port, FALSE)
  /\ Moves(t, "attempt")
  /\ UNCHANGED <<generation, owed, registry>>

Send(t) ==
  /\ Steps(t, "attempt") /\ exchange[t].port # NoPort
  /\ owed' = [owed EXCEPT ![exchange[t].port] = @ + 1]
  /\ Moves(t, "receive")
  /\ UNCHANGED <<generation, pool, sockets, registry>>

\* The first complete frame of the stream is taken for the answer.
Receive(t) ==
  /\ Steps(t, "receive") /\ exchange[t].over = "tcp"
  /\ owed' = [owed EXCEPT ![exchange[t].port] = @ - 1]
  /\ EntryPort(t, exchange[t].port, FALSE)
  /\ Moves(t, "release")
  /\ UNCHANGED <<generation, sockets, registry>>

\* A truncated datagram is asked for again over TCP.
ReceiveUdp(t, truncated) ==
  /\ Steps(t, "receive") /\ exchange[t].over = "udp"
  /\ LET p == exchange[t].port
         next == IF truncated THEN [exchange[t] EXCEPT !.at = "acquire", !.over = "tcp"]
                 ELSE Resting
     IN  /\ sockets' = [sockets EXCEPT ![p] = "free"]
         /\ owed' = [owed EXCEPT ![p] = 0]
         /\ exchange' = [exchange EXCEPT ![t] = [next EXCEPT !.port = NoPort, !.retiring = {p}]]
  /\ UNCHANGED <<generation, pool, registry>>

\* Mutant of Fail: a timeout leaves the connection to the next exchange.
FailKeeps(t, retry) ==
  /\ exchange[t].at \in {"attempt", "connecting", "receive"} /\ exchange[t].retiring = {}
  /\ IF exchange[t].over = "udp" THEN Close(t, "resting", 0)
     ELSE IF retry /\ exchange[t].attempt = 0 THEN Close(t, "attempt", 1)
     ELSE IF exchange[t].at = "receive"
     THEN Moves(t, "release") /\ UNCHANGED <<generation, pool, sockets, owed, registry>>
     ELSE Close(t, "release", 1)

\* Any Error: TIMEOUT, SOCKET and DNS_EOF are retried once, with a new connection.
Fail(t, retry) ==
  /\ exchange[t].at \in {"attempt", "connecting", "receive"} /\ exchange[t].retiring = {}
  /\ IF exchange[t].over = "udp" THEN Close(t, "resting", 0)
     ELSE IF retry /\ exchange[t].attempt = 0 THEN Close(t, "attempt", 1)
     ELSE Close(t, "release", 1)

\* ~Lease
Release(t) ==
  /\ Steps(t, "release") /\ MutexIsFree
  /\ SetEntries(t, [Entries(t) EXCEPT ![exchange[t].lease].busy = FALSE])
  /\ exchange' = [exchange EXCEPT ![t] = Resting]
  /\ UNCHANGED <<generation, sockets, owed, registry>>

Begin(t, over, endpoint) ==
  /\ Steps(t, "resting")
  /\ exchange' = [exchange EXCEPT ![t] = Exchange(over, endpoint)]
  /\ UNCHANGED <<generation, pool, sockets, owed, registry>>

-----------------------------------------------------------------------------
\* External: 30 s pass without a use of a pooled connection.
Rest ==
  /\ \E k \in DOMAIN pool : \E i \in DOMAIN pool[k] :
       /\ ~pool[k][i].busy /\ pool[k][i].port # NoPort
       /\ pool' = [pool EXCEPT ![k][i].rested = TRUE]
  /\ UNCHANGED <<generation, sockets, owed, registry, exchange>>

NetworkChanges ==
  /\ generation < MaxGeneration
  /\ generation' = generation + 1
  /\ UNCHANGED <<pool, sockets, owed, registry, exchange>>

Works(t) ==
  \/ Prune(t) \/ Evict(t) \/ Busy(t) \/ Take(t) \/ Grow(t) \/ Wait(t) \/ Wake(t)
  \/ GiveUp(t) \/ Unregister(t) \/ Inspect(t) \/ Bind(t) \/ Register(t) \/ Connect(t)
  \/ Send(t) \/ Receive(t) \/ Release(t)
  \/ \E truncated \in BOOLEAN : ReceiveUdp(t, truncated)
  \/ \E retry \in BOOLEAN : Fail(t, retry)

PlainNext ==
  \/ \E t \in Handlers, over \in {"udp", "tcp"}, e \in Endpoints : Begin(t, over, e)
  \/ \E t \in Handlers : Works(t)
  \/ Rest
  \/ NetworkChanges

-----------------------------------------------------------------------------
(* Requests on one connection are serialised and a broken one is never     *)
(* used again: a connection owes a reply only to the exchange that waits   *)
(* for it, so no exchange reads the answer to another one's question, or   *)
(* to its own earlier attempt.                                             *)
RepliesNeverCross ==
  \A p \in Ports :
    owed[p] = Cardinality({t \in Handlers : exchange[t].at = "receive" /\ exchange[t].port = p})

(* "Core-owned upstream sockets must be excluded from transparent          *)
(* self-interception" (docs/DNS_TRANSPORTS.md): from its first packet to   *)
(* its close a socket's port is in the registry, although ports are used   *)
(* again before the guard of their last owner is gone.                     *)
UpstreamMarked ==
  \A p \in Ports :
    (\/ sockets[p] = "connected"
     \/ \E t \in Handlers : exchange[t].at = "connecting" /\ exchange[t].port = p)
      => registry[p] > 0

(* An entry is leased to one exchange and stays in the pool while it is:   *)
(* neither the retirement of old generations nor an eviction for another   *)
(* endpoint takes a connection from under an exchange.                     *)
LeaseKept ==
  \A t \in Handlers : exchange[t].lease # 0 =>
    /\ exchange[t].lease \in DOMAIN Entries(t) /\ Entries(t)[exchange[t].lease].busy
    /\ \A u \in Handlers \ {t} :
         <<exchange[u].key, exchange[u].lease>> # <<exchange[t].key, exchange[t].lease>>

(* Both of these: a connection belongs to one exchange at a time.          *)
ConnectionsOwned == RepliesNeverCross /\ LeaseKept
=============================================================================
