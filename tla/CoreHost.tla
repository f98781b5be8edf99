------------------------------ MODULE CoreHost ------------------------------
(***************************************************************************)
(* The CoreHost process: nd::CoreHost (NativeDNS.Core/src/host.cpp), the   *)
(* main loop that creates, waits for and stops it (host/main.cpp), and the *)
(* workers of its three IPC endpoints (platform/linux/ipc.cpp) that run    *)
(* the commands of GUI and tools concurrently with it.                     *)
(*                                                                         *)
(* The interception provider is represented by its lifecycle state; its    *)
(* own start and stop are modelled in QueryCache.  CoreHost::stop is only  *)
(* called by the main thread in this process, so ipc_lifecycle_mutex_ is   *)
(* never contended and is left out.                                        *)
(***************************************************************************)
EXTENDS Integers, Sequences, FiniteSets

CONSTANTS
  Workers,     \* IPC worker threads
  MaxCommands, \* bound of the model: commands the clients send
  MaxLives,    \* bound of the model: CoreHost objects, that is restarts
  MaxFaults,   \* bound of the model: backend, accept loop and startup failures
  MaxConfigs   \* bound of the model: versions of the configuration file

ASSUME CoreHostConstants ==
  /\ {MaxCommands, MaxFaults} \subseteq Nat
  /\ {MaxLives, MaxConfigs} \subseteq Nat \ {0}

VARIABLES
  main,      \* where the main thread is
  todo,      \* endpoints the main thread still has to start, check or stop
  life,      \* which CoreHost object this is
  failing,   \* the main thread is unwinding an exception: exit code 10
  again,     \* main's local copy of restart_requested
  shutdown,  \* *shutdown_requested_
  restart,   \* restart_requested_
  provider,  \* State of interception_
  active,    \* configuration version the provider routes with
  disk,      \* configuration version in the file
  endpoint,  \* [endpoint -> state of its PipeServer]
  worker,    \* [worker -> the command it runs]
  faults, sent, \* counters for the bounds
  asked,     \* history: lifecycle requests handled by this CoreHost object
  exitAcked  \* history: a client was told that Shutdown was accepted

host == <<main, todo, life, failing, again>>
flags == <<shutdown, restart, asked>>
vars == <<host, flags, provider, active, disk, endpoint, worker, faults, sent, exitAcked>>

Endpoints == {"command", "logs", "shutdown"}
StartOrder == <<"command", "logs", "shutdown">>
StopOrder == <<"logs", "command", "shutdown">>
RollbackOrder == <<"shutdown", "logs", "command">>

\* "read" stands for the operations that take mutex_ and change nothing here.
Operations == {"start", "stop", "reload", "shutdown", "restart", "read"}
Accepts(e) ==
  CASE e = "command" -> Operations
    [] e = "logs" -> {"read"}
    [] e = "shutdown" -> {"shutdown"}

Idle == [at |-> "idle"]
Busy(w) == worker[w] # Idle
At(w, where) == worker[w].at = where
Serving(e) == {w \in Workers : Busy(w) /\ worker[w].on = e}

\* mutex_ is held by a command across its effect on the backend.
MutexFree == \A w \in Workers : ~At(w, "locked")
\* reload_mutex_ is held from before load_config until the reload is applied.
ReloadMutexFree ==
  \A w \in Workers : ~(Busy(w) /\ worker[w].op = "reload" /\ (At(w, "loaded") \/ At(w, "locked")))

Init ==
  /\ main = "boot" /\ todo = <<>> /\ life = 1 /\ failing = FALSE /\ again = FALSE
  /\ shutdown = FALSE /\ restart = FALSE /\ asked = {} /\ exitAcked = FALSE
  /\ provider = "stopped" /\ active = 1 /\ disk = 1
  /\ endpoint = [e \in Endpoints |-> "down"]
  /\ worker = [w \in Workers |-> Idle]
  /\ faults = 0 /\ sent = 0

-----------------------------------------------------------------------------
(* CoreHost::start.                                                        *)

\* The provider starts first; clear_dns_cache never fails the start.
Boot ==
  /\ main = "boot"
  /\ active' = disk /\ shutdown' = FALSE /\ restart' = FALSE /\ asked' = {}
  /\ provider' = "running" /\ main' = "starting" /\ todo' = StartOrder
  /\ UNCHANGED <<life, failing, again, disk, endpoint, worker, faults, sent, exitAcked>>

\* CoreHost::start throws: release what was acquired, in reverse order.
Unwind ==
  /\ faults < MaxFaults /\ faults' = faults + 1
  /\ shutdown' = TRUE /\ failing' = TRUE
  /\ main' = "rollback" /\ todo' = RollbackOrder

BootFails ==
  /\ main = "boot" /\ Unwind
  /\ active' = disk /\ restart' = FALSE /\ asked' = {}
  /\ provider' = "error"
  /\ UNCHANGED <<life, again, disk, endpoint, worker, sent, exitAcked>>

StartEndpoint ==
  /\ main = "starting" /\ todo # <<>>
  /\ endpoint' = [endpoint EXCEPT ![Head(todo)] = "up"]
  /\ todo' = Tail(todo)
  /\ UNCHANGED <<main, life, failing, again, flags, provider, active, disk, worker,
                 faults, sent, exitAcked>>

StartEndpointFails ==
  /\ main = "starting" /\ todo # <<>> /\ Unwind
  /\ UNCHANGED <<life, again, restart, asked, provider, active, disk, endpoint, worker,
                 sent, exitAcked>>

\* Mutant of Started: the request flag is cleared at the end of the start,
\* when commands may already have set it.
StartedClears ==
  /\ main = "starting" /\ todo = <<>> /\ main' = "wait" /\ shutdown' = FALSE
  /\ UNCHANGED <<todo, life, failing, again, restart, asked, provider, active, disk, endpoint,
                 worker, faults, sent, exitAcked>>

Started ==
  /\ main = "starting" /\ todo = <<>> /\ main' = "wait"
  /\ UNCHANGED <<todo, life, failing, again, flags, provider, active, disk, endpoint, worker,
                 faults, sent, exitAcked>>

-----------------------------------------------------------------------------
(* CoreHost::wait_for_shutdown: a condition wait of 500 ms under mutex_,   *)
(* then the endpoints, then the backend.                                   *)

WaitEnds ==
  /\ main = "wait" /\ MutexFree /\ shutdown
  /\ main' = "decide"
  /\ UNCHANGED <<todo, life, failing, again, flags, provider, active, disk, endpoint, worker,
                 faults, sent, exitAcked>>

WaitTimesOut ==
  /\ main = "wait" /\ MutexFree /\ ~shutdown
  /\ main' = "recover" /\ todo' = StartOrder
  /\ UNCHANGED <<life, failing, again, flags, provider, active, disk, endpoint, worker,
                 faults, sent, exitAcked>>

RecoverEnds ==
  /\ main = "recover" /\ todo = StartOrder /\ shutdown
  /\ main' = "decide" /\ todo' = <<>>
  /\ UNCHANGED <<life, failing, again, flags, provider, active, disk, endpoint, worker,
                 faults, sent, exitAcked>>

\* Mutant of Recover: a dead endpoint is passed over.
RecoverNothing ==
  /\ main = "recover" /\ todo # <<>> /\ (todo = StartOrder => ~shutdown)
  /\ todo' = Tail(todo)
  /\ UNCHANGED <<main, life, failing, again, flags, provider, active, disk, endpoint, worker,
                 faults, sent, exitAcked>>

\* An endpoint whose accept loop died is stopped, which joins its workers,
\* and started again.  shutdown is read once, before the first endpoint.
Recover ==
  /\ main = "recover" /\ todo # <<>> /\ (todo = StartOrder => ~shutdown)
  /\ LET e == Head(todo) IN
       IF endpoint[e] = "failed"
       THEN Serving(e) = {} /\ endpoint' = [endpoint EXCEPT ![e] = "up"]
       ELSE UNCHANGED endpoint
  /\ todo' = Tail(todo)
  /\ UNCHANGED <<main, life, failing, again, flags, provider, active, disk, worker,
                 faults, sent, exitAcked>>

\* main's handler of an exception from wait_for_shutdown: CoreHost::stop
Fail == failing' = TRUE /\ shutdown' = TRUE /\ main' = "stopping" /\ todo' = StopOrder

RecoverFails ==
  /\ main = "recover" /\ todo # <<>> /\ (todo = StartOrder => ~shutdown)
  /\ endpoint[Head(todo)] = "failed" /\ Serving(Head(todo)) = {}
  /\ endpoint' = [endpoint EXCEPT ![Head(todo)] = "down"]
  /\ Fail
  /\ UNCHANGED <<life, again, restart, asked, provider, active, disk, worker, faults, sent,
                 exitAcked>>

\* Mutant of Inspect: the backend's state is not looked at.
InspectNothing ==
  /\ main = "recover" /\ todo = <<>> /\ MutexFree /\ main' = "wait"
  /\ UNCHANGED <<todo, life, failing, again, flags, provider, active, disk, endpoint, worker,
                 faults, sent, exitAcked>>

Inspect ==
  /\ main = "recover" /\ todo = <<>> /\ MutexFree
  /\ IF provider = "error"
     THEN Fail /\ UNCHANGED <<restart, asked>>
     ELSE main' = "wait" /\ UNCHANGED <<flags, failing, todo>>
  /\ UNCHANGED <<life, again, provider, active, disk, endpoint, worker, faults, sent, exitAcked>>

-----------------------------------------------------------------------------
(* The main loop's end of a CoreHost object.                               *)

\* restart is read before CoreHost::stop
Decide ==
  /\ main = "decide"
  /\ again' = restart /\ shutdown' = TRUE
  /\ main' = "stopping" /\ todo' = StopOrder
  /\ UNCHANGED <<life, failing, restart, asked, provider, active, disk, endpoint, worker,
                 faults, sent, exitAcked>>

\* PipeServer::stop: running_ = false ...
CloseEndpoint ==
  /\ main \in {"stopping", "rollback"} /\ todo # <<>>
  /\ endpoint[Head(todo)] \in {"up", "failed"}
  /\ endpoint' = [endpoint EXCEPT ![Head(todo)] = "closing"]
  /\ UNCHANGED <<host, flags, provider, active, disk, worker, faults, sent, exitAcked>>

\* Mutant of JoinEndpoint: the workers are not joined.
DetachEndpoint ==
  /\ main \in {"stopping", "rollback"} /\ todo # <<>>
  /\ endpoint[Head(todo)] \in {"closing", "down"}
  /\ endpoint' = [endpoint EXCEPT ![Head(todo)] = "down"]
  /\ todo' = Tail(todo)
  /\ UNCHANGED <<main, life, failing, again, flags, provider, active, disk, worker,
                 faults, sent, exitAcked>>

\* ... and join the accept thread, which joins the workers.
JoinEndpoint ==
  /\ main \in {"stopping", "rollback"} /\ todo # <<>>
  /\ endpoint[Head(todo)] \in {"closing", "down"}
  /\ Serving(Head(todo)) = {}
  /\ endpoint' = [endpoint EXCEPT ![Head(todo)] = "down"]
  /\ todo' = Tail(todo)
  /\ UNCHANGED <<main, life, failing, again, flags, provider, active, disk, worker,
                 faults, sent, exitAcked>>

\* The provider stops last; then the loop exits or makes a new CoreHost.
StopProvider ==
  /\ main \in {"stopping", "rollback"} /\ todo = <<>>
  /\ main = "stopping" => MutexFree
  /\ provider' = "stopped"
  /\ IF again /\ ~failing
     THEN main' = "boot" /\ life' = life + 1 /\ again' = FALSE
     ELSE main' = "exited" /\ UNCHANGED <<life, again>>
  /\ UNCHANGED <<todo, failing, flags, active, disk, endpoint, worker, faults, sent, exitAcked>>

-----------------------------------------------------------------------------
(* Commands: PipeServer workers running CoreHost::handle.                  *)

Goto(w, where) == worker' = [worker EXCEPT ![w].at = where]

\* A worker has read a request.  The last object gets no more restarts.
Accept(w, e, op) ==
  /\ endpoint[e] = "up" /\ ~Busy(w) /\ sent < MaxCommands
  /\ op \in Accepts(e) /\ (op = "restart" => life < MaxLives)
  /\ worker' = [worker EXCEPT ![w] = [at |-> "received", on |-> e, op |-> op, loaded |-> 0]]
  /\ sent' = sent + 1
  /\ UNCHANGED <<host, flags, provider, active, disk, endpoint, faults, exitAcked>>

\* Mutant of LoadConfig: the file is read before reload_mutex_ is taken.
LoadConfigUnlocked(w) ==
  /\ At(w, "received") /\ worker[w].op = "reload"
  /\ worker' = [worker EXCEPT ![w].loaded = disk, ![w].at = "loaded"]
  /\ UNCHANGED <<host, flags, provider, active, disk, endpoint, faults, sent, exitAcked>>

\* reload: load_config under reload_mutex_
LoadConfig(w) ==
  /\ At(w, "received") /\ worker[w].op = "reload" /\ ReloadMutexFree
  /\ worker' = [worker EXCEPT ![w].loaded = disk, ![w].at = "loaded"]
  /\ UNCHANGED <<host, flags, provider, active, disk, endpoint, faults, sent, exitAcked>>

Lock(w) ==
  /\ \/ At(w, "received") /\ worker[w].op \in {"start", "stop", "read"}
     \/ At(w, "loaded")
  /\ MutexFree
  /\ Goto(w, "locked")
  /\ UNCHANGED <<host, flags, provider, active, disk, endpoint, faults, sent, exitAcked>>

\* The command throws: the response carries its error.
Refused(w) ==
  /\ Goto(w, "respond")
  /\ UNCHANGED <<host, flags, active, disk, endpoint, sent, exitAcked>>

Done(w) ==
  /\ Goto(w, "respond")
  /\ UNCHANGED <<host, flags, disk, endpoint, faults, sent, exitAcked>>

\* A provider that is not stopped refuses to start; a failed start leaves it
\* in its error state.
DoStart(w) ==
  /\ At(w, "locked") /\ worker[w].op = "start"
  /\ \/ provider = "stopped" /\ provider' = "running" /\ active' = active /\ Done(w)
     \/ provider # "stopped" /\ Refused(w) /\ UNCHANGED <<provider, faults>>
     \/ /\ provider = "stopped" /\ faults < MaxFaults
        /\ provider' = "error" /\ faults' = faults + 1 /\ Refused(w)

DoStop(w) ==
  /\ At(w, "locked") /\ worker[w].op = "stop"
  /\ provider' = "stopped" /\ active' = active /\ Done(w)

DoRead(w) == At(w, "locked") /\ worker[w].op = "read" /\ Done(w) /\ UNCHANGED <<provider, active>>

\* The provider validates the new configuration before it replaces anything.
DoReload(w) ==
  /\ At(w, "locked") /\ worker[w].op = "reload"
  /\ \/ active' = worker[w].loaded /\ Done(w) /\ UNCHANGED provider
     \/ Refused(w) /\ UNCHANGED <<provider, faults>>

Publish(w) ==
  /\ shutdown' = TRUE /\ asked' = asked \union {worker[w].op}
  /\ UNCHANGED <<host, provider, active, disk, endpoint, faults, sent, exitAcked>>

\* Mutant of Restart: shutdown is requested before the restart is flagged.
RestartFlagsLate(w) ==
  /\ Busy(w) /\ worker[w].op = "restart"
  /\ \/ At(w, "received") /\ Publish(w) /\ Goto(w, "flagged") /\ UNCHANGED restart
     \/ /\ At(w, "flagged") /\ restart' = TRUE /\ Goto(w, "respond")
        /\ UNCHANGED <<host, shutdown, asked, provider, active, disk, endpoint, faults, sent,
                       exitAcked>>

\* restart: restart_requested_ is set, then shutdown requested, without locks.
Restart(w) ==
  /\ Busy(w) /\ worker[w].op = "restart"
  /\ \/ /\ At(w, "received") /\ restart' = TRUE /\ Goto(w, "flagged")
        /\ UNCHANGED <<host, shutdown, asked, provider, active, disk, endpoint, faults, sent,
                       exitAcked>>
     \/ At(w, "flagged") /\ Publish(w) /\ Goto(w, "respond") /\ UNCHANGED restart

Shutdown(w) ==
  /\ At(w, "received") /\ worker[w].op = "shutdown"
  /\ Publish(w) /\ Goto(w, "respond") /\ UNCHANGED restart

\* The response is written only while the endpoint runs.
Respond(w) ==
  /\ At(w, "respond")
  /\ exitAcked' = (exitAcked \/ (worker[w].op = "shutdown" /\ endpoint[worker[w].on] = "up"))
  /\ worker' = [worker EXCEPT ![w] = Idle]
  /\ UNCHANGED <<host, flags, provider, active, disk, endpoint, faults, sent>>

-----------------------------------------------------------------------------
(* The environment.                                                        *)

\* The GUI saves a configuration.
SaveConfig ==
  /\ main # "exited" /\ disk < MaxConfigs /\ disk' = disk + 1
  /\ UNCHANGED <<host, flags, provider, active, endpoint, worker, faults, sent, exitAcked>>

\* The running backend enters State::error.
ProviderFails ==
  /\ provider = "running" /\ faults < MaxFaults
  /\ provider' = "error" /\ faults' = faults + 1
  /\ UNCHANGED <<host, flags, active, disk, endpoint, worker, sent, exitAcked>>

\* An accept loop throws: running_ = false.
EndpointFails(e) ==
  /\ endpoint[e] = "up" /\ faults < MaxFaults
  /\ endpoint' = [endpoint EXCEPT ![e] = "failed"] /\ faults' = faults + 1
  /\ UNCHANGED <<host, flags, provider, active, disk, worker, sent, exitAcked>>

\* The process has ended.
Exited == main = "exited" /\ UNCHANGED vars

-----------------------------------------------------------------------------
MainStep ==
  \/ Boot \/ BootFails \/ StartEndpoint \/ StartEndpointFails \/ Started
  \/ WaitEnds \/ WaitTimesOut \/ RecoverEnds \/ Recover \/ RecoverFails \/ Inspect
  \/ Decide \/ CloseEndpoint \/ JoinEndpoint \/ StopProvider

Handle(w) ==
  \/ LoadConfig(w) \/ Lock(w) \/ DoStart(w) \/ DoStop(w) \/ DoRead(w) \/ DoReload(w)
  \/ Restart(w) \/ Shutdown(w) \/ Respond(w)

Next ==
  \/ MainStep
  \/ \E w \in Workers : Handle(w)
  \/ \E w \in Workers, e \in Endpoints, op \in Operations : Accept(w, e, op)
  \/ SaveConfig \/ ProviderFails \/ \E e \in Endpoints : EndpointFails(e)
  \/ Exited

Spec == Init /\ [][Next]_vars

\* The main thread and the workers run on their own OS threads and hold
\* mutex_ only for a bounded time; clients and failures owe nothing.
Fairness == WF_vars(MainStep) /\ \A w \in Workers : WF_vars(Handle(w))

FairSpec == Spec /\ Fairness

-----------------------------------------------------------------------------
(* When a CoreHost object is gone, nothing of it is left: the backend is   *)
(* stopped, no endpoint listens and no command runs, whatever commands     *)
(* (Start included) were in progress when it began to stop, and whichever  *)
(* stage of its start failed (host.cpp:122-178).                           *)
QuietAtEnd ==
  main \in {"boot", "exited"} =>
    /\ provider = "stopped"
    /\ \A e \in Endpoints : endpoint[e] = "down"
    /\ \A w \in Workers : ~Busy(w)

(* A restart that was requested, with no shutdown and no failure beside    *)
(* it, never ends the process ("restart intent survives host stop",        *)
(* tests/ipc_tests.cpp:550).                                               *)
RestartHonoured ==
  main = "exited" /\ "restart" \in asked => "shutdown" \in asked \/ failing

(* Reloads never go back in time: the configuration the backend routes     *)
(* with is never replaced by an older version of the file, although        *)
(* reading the file and applying it are separate steps (host.cpp:254-263). *)
ReloadMonotonic == [][active' >= active]_vars

(* A requested shutdown ends this CoreHost object: no lock order between   *)
(* mutex_, reload_mutex_, the joins of the endpoints and the commands in   *)
(* progress keeps the main thread from getting there.                      *)
ShutdownCompletes == shutdown ~> main \in {"boot", "exited"}

(* "CoreHost monitors its IPC listeners and restores failed endpoints"     *)
(* (docs/IPC_PROTOCOL.md): a dead endpoint is restored or shut down.       *)
EndpointRecovers ==
  \A e \in Endpoints : endpoint[e] = "failed" ~> endpoint[e] # "failed"

(* A backend that failed does not stay behind a healthy host: it is        *)
(* stopped, by a command or because the host ends (host.cpp:233-237).      *)
BackendErrorEnds == provider = "error" ~> provider # "error"

(* "explicit Exit always performs full shutdown" (docs/ARCHITECTURE.md): a *)
(* Shutdown that was accepted and acknowledged ends the process.           *)
ExitHonoured == exitAcked ~> main = "exited"
=============================================================================
