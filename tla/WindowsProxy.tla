---------------------------- MODULE WindowsProxy ----------------------------
(***************************************************************************)
(* LocalProxy of Windows (platform/windows/local_proxy.cpp): a UDP and a   *)
(* TCP loop that wait for their socket or the stop event, and an executor  *)
(* of handlers for each.  A loop that fails reports it and takes the other *)
(* loop with it.  What a handler does with a query is QueryCache's.        *)
(***************************************************************************)
EXTENDS Naturals

CONSTANTS
  HandlerThreads,  \* of each executor: 8 for UDP, 16 for TCP
  HandlerQueue     \* 1024 and 128

Loops == {"udp", "tcp"}

VARIABLES
  state,      \* state
  stopEvent,  \* stop_event: "none" | "reset" | "set"
  socket,     \* the listeners that are open
  loop,       \* [Loops -> "none" | "waiting" | "failing" | "ended"]
  executor,   \* [Loops -> [on, queued, busy]]
  owner       \* the thread in start or stop: [at, then]

proxyVars == <<state, stopEvent, socket, loop, executor, owner>>

Off == [on |-> FALSE, queued |-> 0, busy |-> 0]

ProxyInit ==
  /\ state = "stopped" /\ stopEvent = "none"
  /\ socket = {}
  /\ loop = [l \in Loops |-> "none"]
  /\ executor = [l \in Loops |-> Off]
  /\ owner = [at |-> "idle", then |-> "none"]

At(place) == owner.at = place
Goes(place) == owner' = [owner EXCEPT !.at = place]

-----------------------------------------------------------------------------
(* start: every stage up to the second thread may fail.                    *)

BeginStart ==
  /\ At("idle") /\ state = "stopped"
  /\ state' = "starting" /\ Goes("events")
  /\ UNCHANGED <<stopEvent, socket, loop, executor>>
CreateEvents ==
  /\ At("events")
  /\ stopEvent' = "reset" /\ Goes("sockets")
  /\ UNCHANGED <<state, socket, loop, executor>>
\* Both listeners on one port; an attempt that fails closes its pair.
BindPair ==
  /\ At("sockets")
  /\ socket' = Loops /\ Goes("executors")
  /\ UNCHANGED <<state, stopEvent, loop, executor>>
\* RUNNING is stored before the loops, which may fail at once, exist.
StartHandlers ==
  /\ At("executors")
  /\ executor' = [l \in Loops |-> [Off EXCEPT !.on = TRUE]]
  /\ state' = "running" /\ Goes("udp")
  /\ UNCHANGED <<stopEvent, socket, loop>>
SpawnLoop(l) ==
  /\ At(l)
  /\ loop' = [loop EXCEPT ![l] = "waiting"]
  /\ Goes(IF l = "udp" THEN "tcp" ELSE "idle")
  /\ UNCHANGED <<state, stopEvent, socket, executor>>

Fails ==
  /\ owner.at \in {"events", "sockets", "executors", "udp", "tcp"}
  /\ stopEvent' = IF stopEvent = "none" THEN "none" ELSE "set"
  /\ socket' \in {socket, {"udp"}, Loops} /\ (owner.at # "sockets" => socket' = socket)
  /\ owner' = [at |-> "joining", then |-> "error"]
  /\ UNCHANGED <<state, loop, executor>>

-----------------------------------------------------------------------------
(* stop, and the way back of a failed start.                               *)

BeginStop ==
  /\ At("idle") /\ state # "stopped"
  /\ state' = "stopping"
  /\ stopEvent' = IF stopEvent = "none" THEN "none" ELSE "set"
  /\ owner' = [at |-> "joining", then |-> "stopped"]
  /\ UNCHANGED <<socket, loop, executor>>
JoinLoops ==
  /\ At("joining") /\ \A l \in Loops : loop[l] \in {"none", "ended"}
  /\ loop' = [l \in Loops |-> "none"]
  /\ Goes("handlers")
  /\ UNCHANGED <<state, stopEvent, socket, executor>>
\* BoundedExecutor::stop drops what is queued and joins what runs.
StopHandlers ==
  /\ At("handlers")
  /\ executor' = [l \in Loops |-> [executor[l] EXCEPT !.on = FALSE, !.queued = 0]]
  /\ Goes("draining")
  /\ UNCHANGED <<state, stopEvent, socket, loop>>
Cleanup ==
  /\ At("draining") /\ \A l \in Loops : executor[l].busy = 0
  /\ stopEvent' = "none" /\ socket' = {}
  /\ state' = owner.then
  /\ owner' = [at |-> "idle", then |-> "none"]
  /\ UNCHANGED <<loop, executor>>

-----------------------------------------------------------------------------
(* The loops and their handlers.                                           *)

\* A query or a connection; a full executor refuses it.
Receive(l) ==
  /\ loop[l] = "waiting" /\ stopEvent # "set"
  /\ executor[l].on /\ executor[l].queued < HandlerQueue
  /\ executor' = [executor EXCEPT ![l].queued = @ + 1]
  /\ UNCHANGED <<state, stopEvent, socket, loop, owner>>
LoopStops(l) ==
  /\ loop[l] = "waiting" /\ stopEvent = "set"
  /\ loop' = [loop EXCEPT ![l] = "ended"]
  /\ UNCHANGED <<state, stopEvent, socket, executor, owner>>
LoopThrows(l) ==
  /\ loop[l] = "waiting"
  /\ loop' = [loop EXCEPT ![l] = "failing"]
  /\ UNCHANGED <<state, stopEvent, socket, executor, owner>>
LoopReports(l) ==
  /\ loop[l] = "failing"
  /\ state' = "error" /\ stopEvent' = "set"
  /\ loop' = [loop EXCEPT ![l] = "ended"]
  /\ UNCHANGED <<socket, executor, owner>>
Handle(l) ==
  /\ executor[l].queued > 0 /\ executor[l].busy < HandlerThreads
  /\ executor' = [executor EXCEPT ![l].queued = @ - 1, ![l].busy = @ + 1]
  /\ UNCHANGED <<state, stopEvent, socket, loop, owner>>
\* The answer, if any, is sent: on the listener, for UDP.
Answer(l) ==
  /\ executor[l].busy > 0
  /\ executor' = [executor EXCEPT ![l].busy = @ - 1]
  /\ UNCHANGED <<state, stopEvent, socket, loop, owner>>

ProxyNext ==
  \/ BeginStart \/ CreateEvents \/ BindPair \/ StartHandlers \/ Fails
  \/ BeginStop \/ JoinLoops \/ StopHandlers \/ Cleanup
  \/ \E l \in Loops :
       \/ SpawnLoop(l) \/ Receive(l) \/ LoopStops(l) \/ LoopThrows(l) \/ LoopReports(l)
       \/ Handle(l) \/ Answer(l)

-----------------------------------------------------------------------------
(* Properties.                                                             *)

\* RUNNING, seen under the lifecycle mutex, means that both loops serve or are
\* about to report that they do not.
RunningServes ==
  state = "running" /\ At("idle") => \A l \in Loops : loop[l] \in {"waiting", "failing"}

\* Loops and handlers have their sockets and the event while they run; a stopped
\* proxy, and one whose start failed, has nothing.
NothingOutlives ==
  /\ \A l \in Loops :
       loop[l] \in {"waiting", "failing"} \/ executor[l].busy > 0 =>
         l \in socket /\ stopEvent # "none"
  /\ state = "stopped" \/ (state = "error" /\ At("idle") /\ stopEvent = "none") =>
       socket = {} /\ stopEvent = "none" /\ executor = [l \in Loops |-> Off]
         /\ loop = [l \in Loops |-> "none"]

-----------------------------------------------------------------------------
(* Why they hold: what each place of start and stop has made or undone.    *)

Alive == {"waiting", "failing"}

ProxyTypeOK ==
  /\ state \in {"stopped", "starting", "running", "stopping", "error"}
  /\ stopEvent \in {"none", "reset", "set"}
  /\ socket \in SUBSET Loops
  /\ loop \in [Loops -> {"none", "waiting", "failing", "ended"}]
  /\ executor \in [Loops -> [on : BOOLEAN, queued : Nat, busy : Nat]]
  /\ owner \in [at : {"idle", "events", "sockets", "executors", "joining", "handlers",
                      "draining"} \union Loops,
                then : {"none", "error", "stopped"}]

\* Loops and executors stand on the socket and the event.
Grounded ==
  \A l \in Loops :
    /\ loop[l] \in Alive \/ executor[l] # Off => l \in socket
    /\ loop[l] # "none" \/ executor[l] # Off => stopEvent # "none"

NoLoops == \A l \in Loops : loop[l] = "none"
NoHandlers == \A l \in Loops : executor[l] = Off

StartPlaces ==
  /\ owner.at \in {"events", "sockets", "executors"} => NoLoops /\ NoHandlers
  /\ At("events") => socket = {} /\ stopEvent = "none"
  /\ owner.at \in {"sockets", "executors"} => stopEvent = "reset"
  /\ owner.at \in {"executors"} \union Loops => socket = Loops /\ stopEvent # "none"
  /\ At("udp") => NoLoops
  /\ At("tcp") => loop["tcp"] = "none"

StopPlaces ==
  /\ owner.at \in {"handlers", "draining"} => NoLoops
  /\ At("draining") => \A l \in Loops : ~executor[l].on /\ executor[l].queued = 0
  /\ owner.at \in {"joining", "handlers", "draining"} => owner.then # "none"

RestPlaces ==
  /\ ~At("idle") => state # "stopped"
  /\ At("idle") /\ (state = "stopped" \/ stopEvent = "none") =>
       socket = {} /\ stopEvent = "none"

\* Who reports RUNNING has not been told to stop.
RunningPlaces ==
  state = "running" =>
    /\ owner.at \in {"idle"} \union Loops => stopEvent = "reset"
    /\ At("tcp") => loop["udp"] \in Alive
    /\ At("idle") => \A l \in Loops : loop[l] \in Alive

ProxyInv ==
  ProxyTypeOK /\ Grounded /\ StartPlaces /\ StopPlaces /\ RestPlaces /\ RunningPlaces
=============================================================================
