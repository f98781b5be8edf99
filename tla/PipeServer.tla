----------------------------- MODULE PipeServer -----------------------------
(***************************************************************************)
(* PipeServer and pipe_request (platform/windows/ipc.cpp): one listening   *)
(* thread creates the instances of a named pipe one after the other and    *)
(* hands connected ones to a pool of workers.  The system allows one       *)
(* instance more than there are workers.  While all workers are occupied   *)
(* the listener waits for an event that resets itself; clients connect,    *)
(* leave and lose patience whenever they like.                             *)
(***************************************************************************)
EXTENDS Naturals, FiniteSets, SequencesExt

CONSTANTS
  PipeWorkers,  \* 16 threads
  Clients       \* callers of pipe_request, one request each at a time

Nobody == "nobody"
Gone == "gone"  \* the client has closed its end
PipeConstants == IsFiniteSet(PipeWorkers) /\ {Nobody, Gone} \intersect Clients = {}

VARIABLES
  running,      \* running_
  stopping,     \* native_stop_ is set
  started,      \* startup_event_ is set
  owner,        \* the thread that calls start and stop
  listener,     \* [at, pipe]: run()
  pipes,        \* [instances -> [open, peer, replied]]
  outstanding,
  available,    \* worker_available is set
  pending,      \* the executor's queue
  server,       \* [PipeWorkers -> [at, pipe]]
  client,       \* [Clients -> [at, pipe]]
  handled       \* history: [Clients -> times its request reached the handler]

pipeVars == <<running, stopping, started, owner, listener, pipes, outstanding, available,
              pending, server, client, handled>>

MaxWorkers == Cardinality(PipeWorkers)
\* Mutant of Instances: none for the client that is waiting for a worker.
InstancesOfWorkers == 1..MaxWorkers
\* The limit given to CreateNamedPipe.
Instances == 1..MaxWorkers + 1
None == 0
Closed == [open |-> FALSE, peer |-> Nobody, replied |-> FALSE]
Idle == [at |-> "idle", pipe |-> None]

PipeInit ==
  /\ running = FALSE /\ stopping = FALSE /\ started = FALSE
  /\ owner = "down"
  /\ listener = [at |-> "ended", pipe |-> None]
  /\ pipes = [i \in Instances |-> Closed]
  /\ outstanding = 0 /\ available = FALSE
  /\ pending = <<>>
  /\ server = [w \in PipeWorkers |-> Idle]
  /\ client = [c \in Clients |-> Idle]
  /\ handled = [c \in Clients |-> 0]

workVars == <<outstanding, available, pending, server>>
clientVars == <<client, handled>>

-----------------------------------------------------------------------------
(* start and stop.                                                         *)

Start ==
  /\ owner = "down"
  /\ owner' = "starting"
  /\ running' = TRUE /\ stopping' = FALSE /\ started' = FALSE
  /\ listener' = [at |-> "creating", pipe |-> None]
  /\ outstanding' = 0 /\ available' = FALSE
  /\ UNCHANGED <<pipes, pending, server, clientVars>>

Started ==
  /\ owner = "starting" /\ started /\ running
  /\ owner' = "up"
  /\ UNCHANGED <<running, stopping, started, listener, pipes, workVars, clientVars>>

\* stop(), of a server that is up, or whose start failed or took 3 s.
Stop ==
  /\ owner = "up" \/ (owner = "starting" /\ ~(started /\ running))
  /\ owner' = "joining"
  /\ running' = FALSE /\ stopping' = TRUE
  /\ UNCHANGED <<started, listener, pipes, workVars, clientVars>>

Joined ==
  /\ owner = "joining" /\ listener.at = "ended"
  /\ owner' = "down"
  /\ UNCHANGED <<running, stopping, started, listener, pipes, workVars, clientVars>>

-----------------------------------------------------------------------------
(* run.                                                                    *)

Unused == {i \in Instances : ~pipes[i].open}
Listens(at, pipe) == listener' = [at |-> at, pipe |-> pipe]
ClosePipe(i) == pipes' = [j \in Instances |-> IF j = i THEN Closed ELSE pipes[j]]

Create ==
  /\ listener.at = "creating" /\ running
  /\ Unused # {}
  /\ LET i == Min(Unused) IN
       /\ pipes' = [pipes EXCEPT ![i] = [Closed EXCEPT !.open = TRUE]]
       /\ Listens("connecting", i)
  /\ started' = TRUE
  /\ UNCHANGED <<running, stopping, owner, workVars, clientVars>>

\* ConnectNamedPipe: a client may be there already, or have been.
Connect ==
  /\ listener.at = "connecting"
  /\ \/ pipes[listener.pipe].peer # Gone /\ Listens("waiting", listener.pipe)
        /\ UNCHANGED pipes
     \/ pipes[listener.pipe].peer = Gone /\ Listens("creating", None)
        /\ ClosePipe(listener.pipe)
  /\ UNCHANGED <<running, stopping, started, owner, workVars, clientVars>>

\* The stop event comes first.  A client that left may still count as connected.
Connected ==
  /\ listener.at = "waiting" /\ ~stopping
  /\ pipes[listener.pipe].peer # Nobody
  /\ \/ Listens("capacity", listener.pipe) /\ UNCHANGED pipes
     \/ pipes[listener.pipe].peer = Gone /\ Listens("creating", None)
        /\ ClosePipe(listener.pipe)
  /\ UNCHANGED <<running, stopping, started, owner, workVars, clientVars>>

\* Backpressure: `outstanding` is read, then the event is awaited.
Occupied ==
  /\ listener.at = "capacity" /\ outstanding >= MaxWorkers
  /\ Listens("blocked", listener.pipe)
  /\ UNCHANGED <<running, stopping, started, owner, pipes, workVars, clientVars>>
Unblocked ==
  /\ listener.at = "blocked"
  /\ \/ stopping /\ Listens("dispatching", listener.pipe) /\ UNCHANGED available
     \/ ~stopping /\ available /\ available' = FALSE /\ Listens("capacity", listener.pipe)
  /\ UNCHANGED <<running, stopping, started, owner, pipes, outstanding, pending, server,
                 clientVars>>
WorkerFree ==
  /\ listener.at = "capacity" /\ outstanding < MaxWorkers
  /\ Listens("dispatching", listener.pipe)
  /\ UNCHANGED <<running, stopping, started, owner, pipes, workVars, clientVars>>

\* The executor does not refuse: its queue is as long as `outstanding` may get.
Dispatch ==
  /\ listener.at = "dispatching" /\ running
  /\ outstanding' = outstanding + 1
  /\ pending' = Append(pending, listener.pipe)
  /\ Listens("creating", None)
  /\ UNCHANGED <<running, stopping, started, owner, pipes, available, server, clientVars>>

\* The loop ends, and its instance is closed.
Leave ==
  /\ \/ listener.at \in {"creating", "dispatching"} /\ ~running
     \/ listener.at = "waiting" /\ stopping
  /\ ClosePipe(listener.pipe)
  /\ Listens("draining", None)
  /\ UNCHANGED <<running, stopping, started, owner, workVars, clientVars>>

\* Any Error of the loop, a refused instance among them.
ListenerFails ==
  /\ listener.at \in {"creating", "connecting", "waiting", "blocked"}
  /\ ClosePipe(listener.pipe)
  /\ running' = FALSE /\ stopping' = TRUE /\ started' = TRUE
  /\ Listens("draining", None)
  /\ UNCHANGED <<owner, workVars, clientVars>>

\* workers.stop(): queued connections are dropped, active ones joined.
Drain ==
  /\ listener.at = "draining"
  /\ pipes' = [i \in Instances |-> IF i \in ToSet(pending) THEN Closed ELSE pipes[i]]
  /\ pending' = <<>>
  /\ Listens("joining", None)
  /\ UNCHANGED <<running, stopping, started, owner, outstanding, available, server,
                 clientVars>>
Drained ==
  /\ listener.at = "joining" /\ \A w \in PipeWorkers : server[w].at = "idle"
  /\ Listens("ended", None)
  /\ UNCHANGED <<running, stopping, started, owner, pipes, workVars, clientVars>>

-----------------------------------------------------------------------------
(* The workers.                                                            *)

\* What a job does at its end, in this order.
Ending == <<"closing", "counting", "signalling">>
Follows(stage) ==
  LET n == CHOOSE n \in DOMAIN Ending : Ending[n] = stage
  IN IF n = Len(Ending) THEN "idle" ELSE Ending[n + 1]

Serves(w, at) == server' = [server EXCEPT ![w].at = at]
Peer(w) == pipes[server[w].pipe].peer
OthersWork == UNCHANGED <<running, stopping, started, owner, listener>>

TakeJob(w) ==
  /\ server[w].at = "idle" /\ pending # <<>>
  /\ server' = [server EXCEPT ![w] = [at |-> "reading", pipe |-> Head(pending)]]
  /\ pending' = Tail(pending)
  /\ UNCHANGED <<pipes, outstanding, available, clientVars>> /\ OthersWork

\* A request that is read before a stop is signalled is handled, whoever still waits.
HandleRequest(w) ==
  /\ server[w].at = "reading" /\ ~stopping
  /\ \E c \in Clients :
       /\ Peer(w) = c /\ client[c].at = "sent"
       /\ handled' = [handled EXCEPT ![c] = @ + 1]
  /\ Serves(w, "answering")
  /\ UNCHANGED <<pipes, outstanding, available, pending, client>> /\ OthersWork

\* A stop that is signalled leaves open whether the response is written.
Respond(w) ==
  /\ server[w].at = "answering"
  /\ Peer(w) \in Clients
  /\ pipes' = [pipes EXCEPT ![server[w].pipe].replied = TRUE]
  /\ Serves(w, "leasing")
  /\ UNCHANGED <<outstanding, available, pending, clientVars>> /\ OthersWork

\* The client has left or is too slow, or the server stops.
JobEnds(w) ==
  /\ server[w].at \in {"reading", "answering", "leasing"}
  /\ Serves(w, Ending[1])
  /\ UNCHANGED <<pipes, outstanding, available, pending, clientVars>> /\ OthersWork

CloseConnection(w) ==
  /\ server[w].at = "closing"
  /\ ClosePipe(server[w].pipe)
  /\ Serves(w, Follows("closing"))
  /\ UNCHANGED <<outstanding, available, pending, clientVars>> /\ OthersWork
CountDown(w) ==
  /\ server[w].at = "counting"
  /\ outstanding' = outstanding - 1
  /\ Serves(w, Follows("counting"))
  /\ UNCHANGED <<pipes, available, pending, clientVars>> /\ OthersWork
Signal(w) ==
  /\ server[w].at = "signalling"
  /\ available' = TRUE
  /\ Serves(w, Follows("signalling"))
  /\ UNCHANGED <<pipes, outstanding, pending, clientVars>> /\ OthersWork

-----------------------------------------------------------------------------
(* pipe_request.                                                           *)

ServerUnchanged == UNCHANGED <<running, stopping, started, owner, listener, workVars>>

\* CreateFile finds an instance that nobody is connected to.
Open(c) ==
  /\ client[c].at = "idle"
  /\ \E i \in Instances :
       /\ pipes[i].open /\ pipes[i].peer = Nobody
       /\ pipes' = [pipes EXCEPT ![i].peer = c]
       /\ client' = [client EXCEPT ![c] = [at |-> "opened", pipe |-> i]]
  /\ UNCHANGED handled /\ ServerUnchanged

Holds(c) == pipes[client[c].pipe].peer = c

Send(c) ==
  /\ client[c].at = "opened" /\ Holds(c)
  /\ client' = [client EXCEPT ![c].at = "sent"]
  /\ UNCHANGED <<pipes, handled>> /\ ServerUnchanged

\* The response is read; the handle is closed at once.
ReceiveAnswer(c) ==
  /\ client[c].at = "sent" /\ Holds(c) /\ pipes[client[c].pipe].replied
  /\ pipes' = [pipes EXCEPT ![client[c].pipe].peer = Gone]
  /\ client' = [client EXCEPT ![c] = [at |-> "answered", pipe |-> None]]
  /\ UNCHANGED handled /\ ServerUnchanged

\* A timeout, the end of the client, or a pipe that the server has closed.
RequestFails(c) ==
  /\ client[c].at \in {"opened", "sent"}
  /\ pipes' = IF Holds(c) THEN [pipes EXCEPT ![client[c].pipe].peer = Gone] ELSE pipes
  /\ client' = [client EXCEPT ![c] = Idle]
  /\ handled' = [handled EXCEPT ![c] = 0]
  /\ ServerUnchanged

Return(c) ==
  /\ client[c].at = "answered"
  /\ client' = [client EXCEPT ![c] = Idle]
  /\ handled' = [handled EXCEPT ![c] = 0]
  /\ UNCHANGED pipes /\ ServerUnchanged

PipeNext ==
  \/ Start \/ Started \/ Stop \/ Joined
  \/ Create \/ Connect \/ Connected \/ Occupied \/ Unblocked \/ WorkerFree \/ Dispatch \/ Leave
  \/ ListenerFails \/ Drain \/ Drained
  \/ \E w \in PipeWorkers :
       \/ TakeJob(w) \/ HandleRequest(w) \/ Respond(w) \/ JobEnds(w)
       \/ CloseConnection(w) \/ CountDown(w) \/ Signal(w)
  \/ \E c \in Clients : Open(c) \/ Send(c) \/ ReceiveAnswer(c) \/ RequestFails(c) \/ Return(c)

-----------------------------------------------------------------------------
(* Properties.                                                             *)

\* An instance is closed before its worker is counted free: the listener never
\* runs into the limit it gave the system, which would end it.
WithinInstances == listener.at = "creating" => Unused # {}

\* No wake-up is lost: a listener that sleeps while a worker is free is about to
\* be told, although the event resets itself and tells of several workers once.
CapacitySeen ==
  listener.at = "blocked" /\ ~stopping /\ ~available /\ outstanding < MaxWorkers =>
    \E w \in PipeWorkers : server[w].at = "signalling"

\* A stop that has returned leaves no instance, no queued and no running job.
NothingServed ==
  owner = "down" =>
    /\ \A i \in Instances : ~pipes[i].open
    /\ pending = <<>> /\ \A w \in PipeWorkers : server[w].at = "idle"

\* An answered request has reached the handler, and none does so twice.
HandledOnce ==
  \A c \in Clients : handled[c] <= 1 /\ (client[c].at = "answered" => handled[c] = 1)

PipeServed == WithinInstances /\ CapacitySeen /\ NothingServed /\ HandledOnce
=============================================================================
