----------------------------- MODULE LocalProxy -----------------------------
(***************************************************************************)
(* nd::LocalProxy on Linux (platform/linux/local_proxy.cpp): listener      *)
(* loops that hand datagrams and connections to two bounded executors      *)
(* (bounded_executor.hpp), the set of client descriptors that a stop shuts *)
(* down, and start and stop under the lifecycle mutex.                     *)
(*                                                                         *)
(* A datagram is represented by its listener, a connection by its file     *)
(* descriptor, which the kernel reuses as soon as it is closed.  Routing a *)
(* query is modelled in QueryCache; here it ends with or without a reply.  *)
(***************************************************************************)
EXTENDS Integers, SequencesExt, FiniteSets

CONSTANTS
  Udp, Tcp,                 \* listeners
  UdpWorkers, TcpWorkers,   \* threads of the executors: 8 and 16
  UdpCapacity, TcpCapacity, \* queued jobs: 1024 and 128
  Fds                       \* descriptors the kernel gives to clients

ASSUME LocalProxyConstants ==
  /\ Udp \intersect Tcp = {} /\ UdpWorkers \intersect TcpWorkers = {}
  /\ Udp \union Tcp # {}
  /\ {UdpCapacity, TcpCapacity} \subseteq Nat \ {0}

VARIABLES
  state,   \* Impl::state
  running, \* Impl::running
  control, \* start or stop in progress: [op, at]
  sockets, \* open listening sockets
  loop,    \* [listener -> where its thread is]
  udpJobs, tcpJobs, \* queues of the executors
  worker,  \* [worker -> the job it runs]
  clients, \* Impl::clients
  open,    \* client descriptors that are open
  shut     \* client descriptors on which shutdown(2) was called

queues == <<udpJobs, tcpJobs>>
conns == <<clients, open, shut>>
vars == <<state, running, control, sockets, loop, queues, worker, conns>>

Listeners == Udp \union Tcp
Workers == UdpWorkers \union TcpWorkers
NoWork == [at |-> "idle"]
NoOp == [op |-> "none", at |-> "idle"]
Idle(h) == worker[h] = NoWork
At(h, where) == worker[h].at = where

Init ==
  /\ state = "stopped" /\ running = FALSE /\ control = NoOp
  /\ sockets = {} /\ loop = [l \in Listeners |-> "none"]
  /\ udpJobs = <<>> /\ tcpJobs = <<>> /\ worker = [h \in Workers |-> NoWork]
  /\ clients = {} /\ open = {} /\ shut = {}

-----------------------------------------------------------------------------
(* LocalProxy::start.                                                      *)

Goto(where) == control' = [control EXCEPT !.at = where]

BeginStart ==
  /\ control = NoOp /\ state = "stopped"
  /\ state' = "starting" /\ control' = [op |-> "start", at |-> "bind"]
  /\ UNCHANGED <<running, sockets, loop, queues, worker, conns>>

\* All four sockets are bound and the executors started.
Bind ==
  /\ control.op = "start" /\ control.at = "bind"
  /\ sockets' = Listeners /\ running' = TRUE /\ state' = "running"
  /\ Goto("spawn")
  /\ UNCHANGED <<loop, queues, worker, conns>>

Spawn(l) ==
  /\ control.at = "spawn" /\ loop[l] = "none"
  /\ loop' = [loop EXCEPT ![l] = "poll"]
  /\ UNCHANGED <<state, running, control, sockets, queues, worker, conns>>

\* Mutant of Spawned: the state is published after the loops were created.
SpawnedPublishes ==
  /\ control.at = "spawn" /\ \A l \in Listeners : loop[l] # "none"
  /\ control' = NoOp /\ state' = "running"
  /\ UNCHANGED <<running, sockets, loop, queues, worker, conns>>

Spawned ==
  /\ control.at = "spawn" /\ \A l \in Listeners : loop[l] # "none"
  /\ control' = NoOp
  /\ UNCHANGED <<state, running, sockets, loop, queues, worker, conns>>

\* A socket, a port or a thread cannot be had.
StartThrows ==
  /\ control.op = "start" /\ control.at \in {"bind", "spawn"}
  /\ \E l \in Listeners : loop[l] = "none"
  /\ running' = FALSE /\ Goto("join")
  /\ UNCHANGED <<state, sockets, loop, queues, worker, conns>>

-----------------------------------------------------------------------------
(* LocalProxy::stop, and the steps it shares with the catch block of start.*)

\* cancel_pending (see QueryCache), then running = false
BeginStop ==
  /\ control = NoOp /\ state # "stopped"
  /\ state' = "stopping" /\ running' = FALSE
  /\ control' = [op |-> "stop", at |-> "join"]
  /\ UNCHANGED <<sockets, loop, queues, worker, conns>>

JoinListeners ==
  /\ control.at = "join" /\ \A l \in Listeners : loop[l] \in {"none", "exited"}
  /\ loop' = [l \in Listeners |-> "none"]
  /\ Goto(IF control.op = "stop" THEN "shutdown" ELSE "clearUdp")
  /\ UNCHANGED <<state, running, sockets, queues, worker, conns>>

ShutdownClients ==
  /\ control.at = "shutdown"
  /\ shut' = shut \union clients /\ Goto("clearUdp")
  /\ UNCHANGED <<state, running, sockets, loop, queues, worker, clients, open>>

\* BoundedExecutor::stop clears the queue ...
ClearUdp ==
  /\ control.at = "clearUdp" /\ udpJobs' = <<>> /\ Goto("joinUdp")
  /\ UNCHANGED <<state, running, sockets, loop, tcpJobs, worker, conns>>

\* Mutant of JoinUdp: the handlers are not joined.
DetachUdp ==
  /\ control.at = "joinUdp" /\ Goto("clearTcp")
  /\ UNCHANGED <<state, running, sockets, loop, queues, worker, conns>>

\* ... and joins the threads.
JoinUdp ==
  /\ control.at = "joinUdp" /\ Goto("clearTcp") /\ \A h \in UdpWorkers : Idle(h)
  /\ UNCHANGED <<state, running, sockets, loop, queues, worker, conns>>

\* A cleared job releases the connection it owns.
ClearTcp ==
  /\ control.at = "clearTcp" /\ tcpJobs' = <<>> /\ Goto("joinTcp")
  /\ clients' = clients \ ToSet(tcpJobs) /\ open' = open \ ToSet(tcpJobs)
  /\ shut' = shut \ ToSet(tcpJobs)
  /\ UNCHANGED <<state, running, sockets, loop, udpJobs, worker>>

\* Mutant of JoinTcp: the handlers are not joined.
DetachTcp ==
  /\ control.at = "joinTcp" /\ Goto("close")
  /\ UNCHANGED <<state, running, sockets, loop, queues, worker, conns>>

JoinTcp ==
  /\ control.at = "joinTcp" /\ Goto("close") /\ \A h \in TcpWorkers : Idle(h)
  /\ UNCHANGED <<state, running, sockets, loop, queues, worker, conns>>

CloseListeners ==
  /\ control.at = "close" /\ sockets' = {} /\ control' = NoOp
  /\ state' = IF control.op = "stop" THEN "stopped" ELSE "error"
  /\ UNCHANGED <<running, loop, queues, worker, conns>>

-----------------------------------------------------------------------------
(* udp_loop and tcp_loop.                                                  *)

LoopTo(l, where) ==
  /\ loop' = [loop EXCEPT ![l] = where]
  /\ UNCHANGED <<running, control, sockets, worker>>

Poll(l) ==
  /\ loop[l] = "poll"
  /\ LoopTo(l, IF running THEN "ready" ELSE "exited")
  /\ UNCHANGED <<state, queues, conns>>

\* A signal, or nothing to take after all
Again(l) ==
  /\ loop[l] = "ready" /\ running /\ LoopTo(l, "poll")
  /\ UNCHANGED <<state, queues, conns>>

\* poll, recvfrom or accept fails; the loop looks at running ...
Trouble(l) ==
  /\ loop[l] \in {"poll", "ready"}
  /\ LoopTo(l, IF running THEN "failing" ELSE "exited")
  /\ UNCHANGED <<state, queues, conns>>

\* ... and reports the failure.
Break(l) ==
  /\ loop[l] = "failing" /\ LoopTo(l, "exited") /\ state' = "error"
  /\ UNCHANGED <<queues, conns>>

\* BoundedExecutor::submit
Room(queue, capacity) == Len(queue) < capacity

\* A datagram is queued or, when the queue is full, dropped.
Receive(l) ==
  /\ l \in Udp /\ loop[l] = "ready" /\ LoopTo(l, "poll")
  /\ udpJobs' = IF Room(udpJobs, UdpCapacity) THEN Append(udpJobs, l) ELSE udpJobs
  /\ UNCHANGED <<state, tcpJobs, conns>>

\* A connection is tracked and queued or, when the queue is full, closed.
Accept(l, fd) ==
  /\ l \in Tcp /\ loop[l] = "ready" /\ fd \in Fds \ open /\ LoopTo(l, "poll")
  /\ IF Room(tcpJobs, TcpCapacity)
     THEN /\ tcpJobs' = Append(tcpJobs, fd)
          /\ clients' = clients \union {fd} /\ open' = open \union {fd} /\ UNCHANGED shut
     ELSE UNCHANGED <<tcpJobs, conns>>
  /\ UNCHANGED <<state, udpJobs>>

-----------------------------------------------------------------------------
(* The handlers.                                                           *)

WorkTo(h, where) ==
  /\ worker' = [worker EXCEPT ![h] = IF where = "idle" THEN NoWork ELSE [@ EXCEPT !.at = where]]
  /\ UNCHANGED <<state, running, control, sockets, loop, queues>>

TakeUdp(h) ==
  /\ h \in UdpWorkers /\ Idle(h) /\ udpJobs # <<>>
  /\ worker' = [worker EXCEPT ![h] = [at |-> "process", on |-> Head(udpJobs)]]
  /\ udpJobs' = Tail(udpJobs)
  /\ UNCHANGED <<state, running, control, sockets, loop, tcpJobs, conns>>

TakeTcp(h) ==
  /\ h \in TcpWorkers /\ Idle(h) /\ tcpJobs # <<>>
  /\ worker' = [worker EXCEPT ![h] = [at |-> "head", on |-> Head(tcpJobs)]]
  /\ tcpJobs' = Tail(tcpJobs)
  /\ UNCHANGED <<state, running, control, sockets, loop, udpJobs, conns>>

\* handle_udp: an error or an empty response ends the job.
HandleUdp(h) ==
  /\ h \in UdpWorkers
  /\ \/ At(h, "process") /\ \E next \in {"send", "idle"} : WorkTo(h, next)
     \/ At(h, "send") /\ WorkTo(h, "idle")
  /\ UNCHANGED conns

\* Mutant of LoopHead: the connection is served as long as the client likes.
LoopHeadAlways(h) == At(h, "head") /\ WorkTo(h, "recv") /\ UNCHANGED conns

\* handle_client: while (running)
LoopHead(h) ==
  At(h, "head") /\ WorkTo(h, IF running THEN "recv" ELSE "release") /\ UNCHANGED conns

\* A complete frame; or end of file, a malformed frame, two seconds of silence
Recv(h) ==
  /\ At(h, "recv")
  /\ \/ worker[h].on \notin shut /\ WorkTo(h, "process")
     \/ WorkTo(h, "release")
  /\ UNCHANGED conns

\* The response; a silent drop; an error ends the connection.
ProcessTcp(h) ==
  /\ h \in TcpWorkers
  /\ \/ At(h, "process") /\ \E next \in {"send", "head", "release"} : WorkTo(h, next)
     \/ At(h, "send") /\ \E next \in {"head", "release"} : WorkTo(h, next)
  /\ UNCHANGED conns

\* Mutant of Release: the descriptor is closed before it is forgotten.
ReleaseUnlocked(h) ==
  LET fd == worker[h].on IN
  \/ /\ At(h, "release") /\ WorkTo(h, "forget")
     /\ open' = open \ {fd} /\ shut' = shut \ {fd} /\ UNCHANGED clients
  \/ At(h, "forget") /\ WorkTo(h, "idle") /\ clients' = clients \ {fd} /\ UNCHANGED <<open, shut>>

\* The deleter of the owning pointer forgets and closes under clients_mutex.
Release(h) ==
  LET fd == worker[h].on IN
  /\ ~Idle(h) /\ At(h, "release") /\ WorkTo(h, "idle")
  /\ clients' = clients \ {fd} /\ open' = open \ {fd} /\ shut' = shut \ {fd}

-----------------------------------------------------------------------------
Control ==
  \/ Bind \/ (\E l \in Listeners : Spawn(l)) \/ Spawned \/ StartThrows
  \/ JoinListeners \/ ShutdownClients \/ ClearUdp \/ JoinUdp \/ ClearTcp \/ JoinTcp
  \/ CloseListeners

Listen(l) ==
  \/ Poll(l) \/ Again(l) \/ Trouble(l) \/ Break(l) \/ Receive(l) \/ \E fd \in Fds : Accept(l, fd)

Work(h) ==
  \/ TakeUdp(h) \/ HandleUdp(h)
  \/ TakeTcp(h) \/ LoopHead(h) \/ Recv(h) \/ ProcessTcp(h) \/ Release(h)

Next ==
  \/ BeginStart \/ BeginStop \/ Control
  \/ \E l \in Listeners : Listen(l)
  \/ \E h \in Workers : Work(h)

Spec == Init /\ [][Next]_vars

\* Every loop and handler is an OS thread whose waits all have time limits;
\* the thread inside start or stop runs on.  Callers owe nothing.
Fairness ==
  /\ WF_vars(Control)
  /\ \A l \in Listeners : WF_vars(Listen(l))
  /\ \A h \in Workers : WF_vars(Work(h))

FairSpec == Spec /\ Fairness

-----------------------------------------------------------------------------
\* How many owners a client descriptor has
Owners(fd) ==
  Cardinality({h \in TcpWorkers : ~Idle(h) /\ worker[h].on = fd})
  + Cardinality({i \in 1..Len(tcpJobs) : tcpJobs[i] = fd})

(* Impl::clients is exactly the set of open client descriptors, and each   *)
(* has exactly one owner, although the kernel reuses numbers: a stop shuts *)
(* down every connection it must wait for and never a descriptor that      *)
(* belongs to someone else (local_proxy.cpp:367-375, 528-532).             *)
ClientsTracked == clients = open /\ \A fd \in Fds : Owners(fd) = IF fd \in open THEN 1 ELSE 0

(* A handler answers on the listening socket its datagram came from while  *)
(* that socket is open: stop and the rollback of start join the handlers   *)
(* before they close the sockets (local_proxy.cpp:506-508, 533-535).       *)
ReplySocketOpen == \A h \in UdpWorkers : ~Idle(h) => worker[h].on \in sockets

(* When start has failed or stop has returned, nothing is left: no socket, *)
(* no thread in a loop, no job, no connection.                             *)
NothingLeft ==
  control = NoOp /\ ~running =>
    /\ sockets = {} /\ open = {} /\ udpJobs = <<>> /\ tcpJobs = <<>>
    /\ \A l \in Listeners : loop[l] = "none"
    /\ \A h \in Workers : Idle(h)

\* What the callers see: operations in progress hold the lifecycle mutex, so
\* status() waits for them; a port is bound while the sockets are open.
Reported ==
  CASE control.op = "start" -> "starting"
    [] control.op = "stop" -> "stopping"
    [] OTHER -> state

Serving == {l \in sockets : loop[l] \notin {"none", "exited"}}

Service ==
  INSTANCE ProxyService WITH
    Ports <- {"bound"}, NoPort <- "none", reported <- Reported, serving <- Serving,
    port <- IF sockets = {} THEN "none" ELSE "bound"

(* The proxy implements ProxyService: in particular a listener that failed *)
(* makes the reported state "error" at once and for as long as the proxy   *)
(* is not stopped, even if it failed while start was still creating the    *)
(* other loops (local_proxy.cpp:488-502), and a reported "running" means   *)
(* that every listener is served.                                          *)
Implements == Service!Spec

(* A start or stop that was begun ends: no listener, handler or client can *)
(* hold it up.                                                             *)
LifecycleEnds == control # NoOp ~> control = NoOp
=============================================================================
