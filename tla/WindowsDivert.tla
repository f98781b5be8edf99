---------------------------- MODULE WindowsDivert ----------------------------
(***************************************************************************)
(* WinDivertInterception (platform/windows/windivert_interception.cpp):    *)
(* one thread receives the captured packets, decides at once or queues     *)
(* them, and several workers route the queued queries.  The threads share  *)
(* the handle of the driver and an atomic state; each may find the driver  *)
(* broken while another one stops the provider.                            *)
(*                                                                         *)
(* A packet is a constant with the facts the code reads from it.  Routing  *)
(* snapshots are versions of the rules: 1 before a reload, 2 after it.     *)
(***************************************************************************)
EXTENDS TcpDnsProxy, Sequences

CONSTANTS
  Workers,     \* 4 to 16 threads
  Packets,
  Kind,        \* [Packets -> "pass" | "syn" | "reset" | "malformed" | "query"]
  Tuple,       \* [Packets -> Tuples], of TCP packets
  Rule,        \* [Packets -> [1..2 -> "process" | "bypass" | "block"]], of queries
  Size,        \* [Packets -> Nat]
  BlockTcp,    \* the versions that block TCP port 53
  QueueLimit,  \* 4096 jobs
  ByteLimit,   \* 32 MiB
  MaxCaptured  \* bound of the model: packets captured in a behaviour

\* Captured TCP packets have an address and a port; lifetimes are whole seconds.
DivertConstants ==
  /\ \A p \in Packets : Kind[p] \in {"syn", "reset"} => Tuple[p] \in Tuples
  /\ Lifetime \in Nat

VARIABLES
  state,        \* State, atomic
  control,      \* where start() or stop() is
  handle,       \* of the driver: "closed" | "open" | "shut"
  firewall,     \* the rule that admits reflected connections
  rules,        \* version of the current snapshot
  jobs, queuedBytes,
  receiver,     \* [at, packet]
  worker,       \* [Workers -> [at, job]]
  fate          \* history: [Packets -> what became of them, under which rules]

lifecycleVars == <<state, control, firewall>>
queueVars == <<jobs, queuedBytes>>
divertVars == <<lifecycleVars, handle, rules, queueVars, receiver, worker, fate, proxyVars>>

NoPacket == [at |-> "none"]
Unseen == [does |-> "unseen", under |-> 1]
Kept == [does |-> "kept", under |-> 1]

Init ==
  /\ ProxyInit
  /\ state = "stopped" /\ control = "idle" /\ handle = "closed" /\ firewall = FALSE
  /\ rules = 1 /\ jobs = <<>> /\ queuedBytes = 0
  /\ receiver = NoPacket
  /\ worker = [w \in Workers |-> NoPacket]
  /\ fate = [p \in Packets |-> Unseen]

\* The packet is sent on unchanged, or never is: answered, reflected or dropped.
Sends(p, unchanged, under) ==
  fate' = [fate EXCEPT ![p] = IF unchanged THEN [does |-> "reinjected", under |-> under] ELSE Kept]

\* start() holds lifecycle until it returns or rolls back.
LifecycleIsFree == control \notin {"proxy", "driver", "firewall", "publish", "spawn"}
QueueIsFree == \A w \in Workers : worker[w].at # "blocking"

\* queue_changed.notify_all, from a thread that does not hold queue_mutex
NotifyAll(threads) ==
  [w \in Workers |-> IF threads[w].at = "asleep" THEN [at |-> "looking"] ELSE threads[w]]

-----------------------------------------------------------------------------
(* receive_loop                                                            *)

Receives(at) == receiver' = [receiver EXCEPT !.at = at]

Loop ==
  /\ receiver.at = "loop"
  /\ Receives(IF state = "running" THEN "waiting" ELSE "ending")
  /\ UNCHANGED <<lifecycleVars, handle, rules, queueVars, worker, fate, proxyVars>>

Capture(p) ==
  /\ receiver.at = "waiting" /\ handle # "closed" /\ fate[p] = Unseen
  /\ Cardinality({q \in Packets : fate[q] # Unseen}) < MaxCaptured
  /\ receiver' = [at |-> "judging", packet |-> p]
  /\ fate' = [fate EXCEPT ![p] = Kept]
  /\ UNCHANGED <<lifecycleVars, handle, rules, queueVars, worker, proxyVars>>

CaptureFails ==
  /\ receiver.at = "waiting"
  /\ Receives(IF state = "running" THEN "broken" ELSE "ending")
  /\ UNCHANGED <<lifecycleVars, handle, rules, queueVars, worker, fate, proxyVars>>

\* WinDivertSend succeeds, or ends the loop with WINDIVERT_SEND.
ReceiverSends(p, unchanged) ==
  \/ handle = "open" /\ Sends(p, unchanged, rules) /\ Receives("loop")
  \/ Receives("broken") /\ UNCHANGED fate

Judging(p, kinds) == receiver.at = "judging" /\ receiver.packet = p /\ Kind[p] \in kinds
Judged == UNCHANGED <<lifecycleVars, handle, rules, worker>>

\* Inbound packets, those of upstream sockets, those of no interest, and what
\* cannot be parsed before a policy is selected.
PassOn(p) ==
  /\ Judging(p, {"pass"})
  /\ ReceiverSends(p, TRUE)
  /\ Judged /\ UNCHANGED <<queueVars, proxyVars>>

\* block_tcp53; a reset is not answered by a reset.
ResetTcp(p) ==
  /\ Judging(p, {"syn", "reset"}) /\ rules \in BlockTcp
  /\ IF Kind[p] = "reset" THEN Receives("loop") /\ UNCHANGED fate
     ELSE ReceiverSends(p, FALSE)
  /\ Judged /\ UNCHANGED <<queueVars, proxyVars>>

\* The tuple is entered or forgotten, then the packet is reflected.
Reflect(p) ==
  /\ Judging(p, {"syn", "reset"}) /\ rules \notin BlockTcp
  /\ \/ /\ Kind[p] = "syn" /\ ExpectFails(Tuple[p])
        /\ Receives("loop") /\ UNCHANGED fate
     \/ /\ IF Kind[p] = "syn" THEN Expect(Tuple[p]) ELSE Forget(Tuple[p])
        /\ \/ ReceiverSends(p, FALSE)
           \/ Receives("loop") /\ UNCHANGED fate
  /\ Judged /\ UNCHANGED queueVars

\* policy_selected is set before the question is parsed.
Malformed(p) ==
  /\ Judging(p, {"malformed"})
  /\ Receives("loop") /\ UNCHANGED fate
  /\ Judged /\ UNCHANGED <<queueVars, proxyVars>>

\* "They never wait behind custom-upstream work in the routing worker queue."
FastPath(p) ==
  /\ Judging(p, {"query"}) /\ Rule[p][rules] = "bypass"
  /\ ReceiverSends(p, TRUE)
  /\ Judged /\ UNCHANGED <<queueVars, proxyVars>>

HasRoom(p) == Len(jobs) < QueueLimit /\ queuedBytes + Size[p] <= ByteLimit

\* push_back under queue_mutex, then notify_one
Enqueue(p) ==
  /\ Judging(p, {"query"}) /\ Rule[p][rules] # "bypass"
  /\ QueueIsFree /\ HasRoom(p)
  /\ jobs' = Append(jobs, [packet |-> p, under |-> rules])
  /\ queuedBytes' = queuedBytes + Size[p]
  /\ Receives("loop")
  /\ LET asleep == {w \in Workers : worker[w].at = "asleep"} IN
     IF asleep = {} THEN UNCHANGED worker
     ELSE \E w \in asleep : worker' = [worker EXCEPT ![w] = [at |-> "looking"]]
  /\ UNCHANGED <<lifecycleVars, handle, rules, fate, proxyVars>>

\* reject_overload: SERVFAIL
Overload(p) ==
  /\ Judging(p, {"query"}) /\ Rule[p][rules] # "bypass"
  /\ QueueIsFree /\ ~HasRoom(p)
  /\ ReceiverSends(p, FALSE)
  /\ Judged /\ UNCHANGED <<queueVars, proxyVars>>

\* The loop's handler shuts the handle down, then reports the error.
ShutBroken ==
  /\ receiver.at = "broken"
  /\ handle' = IF handle = "closed" THEN handle ELSE "shut"
  /\ Receives("reporting")
  /\ UNCHANGED <<lifecycleVars, rules, queueVars, worker, fate, proxyVars>>

\* Mutant of Report: the loop just ends.
ReportNothing ==
  /\ receiver.at = "reporting" /\ LifecycleIsFree
  /\ Receives("ending")
  /\ UNCHANGED <<lifecycleVars, handle, rules, queueVars, worker, fate, proxyVars>>

Report ==
  /\ receiver.at = "reporting" /\ LifecycleIsFree
  /\ state' = IF state = "running" THEN "error" ELSE state
  /\ Receives("ending")
  /\ UNCHANGED <<control, firewall, handle, rules, queueVars, worker, fate, proxyVars>>

ReceiverEnds ==
  /\ receiver.at = "ending"
  /\ receiver' = NoPacket
  /\ worker' = NotifyAll(worker)
  /\ UNCHANGED <<lifecycleVars, handle, rules, queueVars, fate, proxyVars>>

-----------------------------------------------------------------------------
(* worker_loop and process                                                 *)

WorkerDoes(w, what) == worker' = [worker EXCEPT ![w] = what]

\* The predicate of the wait, under queue_mutex.
Look(w) ==
  /\ worker[w].at = "looking" /\ QueueIsFree
  /\ \/ /\ state # "running"
        /\ WorkerDoes(w, NoPacket)
        /\ UNCHANGED queueVars
     \/ /\ state = "running" /\ jobs # <<>>
        /\ WorkerDoes(w, [at |-> "routing", job |-> Head(jobs)])
        /\ jobs' = Tail(jobs)
        /\ queuedBytes' = queuedBytes - Size[Head(jobs).packet]
     \/ /\ state = "running" /\ jobs = <<>>
        /\ WorkerDoes(w, [at |-> "blocking"])
        /\ UNCHANGED queueVars
  /\ UNCHANGED <<lifecycleVars, handle, rules, receiver, fate, proxyVars>>

\* The wait blocks and releases queue_mutex.
Block(w) ==
  /\ worker[w].at = "blocking"
  /\ WorkerDoes(w, [at |-> "asleep"])
  /\ UNCHANGED <<lifecycleVars, handle, rules, queueVars, receiver, fate, proxyVars>>

\* Mutant of Decision: the worker takes the rules of the moment.
DecisionNow(job) == Rule[job.packet][rules]

\* route() with the snapshot of the job
Decision(job) == Rule[job.packet][job.under]

\* The answer, an error or a drop; nothing is sent unless the state is running.
Route(w) ==
  LET job == worker[w].job IN
  /\ worker[w].at = "routing"
  /\ \/ /\ state = "running" /\ Decision(job) # "block"
        /\ worker' = [worker EXCEPT ![w].at = "sending"]
     \/ WorkerDoes(w, [at |-> "looking"])
  /\ UNCHANGED <<lifecycleVars, handle, rules, queueVars, receiver, fate, proxyVars>>

WorkerSends(w) ==
  LET job == worker[w].job IN
  /\ worker[w].at = "sending"
  /\ \/ /\ handle = "open"
        /\ Sends(job.packet, Decision(job) = "bypass", job.under)
        /\ WorkerDoes(w, [at |-> "looking"])
     \/ /\ UNCHANGED fate
        /\ WorkerDoes(w, [at |-> IF state = "running" THEN "failing" ELSE "looking"])
  /\ UNCHANGED <<lifecycleVars, handle, rules, queueVars, receiver, proxyVars>>

\* The state was running when the worker looked; lifecycle is taken after that.
WorkerFails(w) ==
  /\ worker[w].at = "failing" /\ LifecycleIsFree
  /\ state' = "error"
  /\ handle' = IF handle = "closed" THEN handle ELSE "shut"
  /\ worker' = NotifyAll([worker EXCEPT ![w] = [at |-> "looking"]])
  /\ UNCHANGED <<control, firewall, rules, queueVars, receiver, fate, proxyVars>>

-----------------------------------------------------------------------------
(* start and stop                                                          *)

Goes(next) == control' = next

Start ==
  /\ control = "idle" /\ state = "stopped"
  /\ state' = "starting" /\ firewall' = FALSE
  /\ Goes("proxy")
  /\ UNCHANGED <<handle, rules, queueVars, receiver, worker, fate, proxyVars>>

StartProxy ==
  /\ control = "proxy" /\ Listen /\ Goes("driver")
  /\ UNCHANGED <<state, firewall, handle, rules, queueVars, receiver, worker, fate>>

OpenDriver ==
  /\ control = "driver" /\ handle' = "open" /\ Goes("firewall")
  /\ UNCHANGED <<state, firewall, rules, queueVars, receiver, worker, fate, proxyVars>>

EnableFirewall ==
  /\ control = "firewall" /\ firewall' = TRUE /\ Goes("publish")
  /\ UNCHANGED <<state, handle, rules, queueVars, receiver, worker, fate, proxyVars>>

PublishRunning ==
  /\ control = "publish" /\ state' = "running" /\ Goes("spawn")
  /\ UNCHANGED <<firewall, handle, rules, queueVars, receiver, worker, fate, proxyVars>>

SpawnWorkers ==
  /\ control = "spawn" /\ receiver.at = "none"
  /\ worker' = [w \in Workers |-> [at |-> "looking"]]
  /\ receiver' = [at |-> "loop"]
  /\ Goes("idle")
  /\ UNCHANGED <<state, firewall, handle, rules, queueVars, fate, proxyVars>>

\* A thread cannot be created: those that exist are left to the rollback.
SpawnFails ==
  /\ control = "spawn"
  /\ \E some \in SUBSET Workers :
       worker' = [w \in Workers |-> IF w \in some THEN [at |-> "looking"] ELSE NoPacket]
  /\ state' = "stopping" /\ Goes("undo")
  /\ UNCHANGED <<firewall, handle, rules, queueVars, receiver, fate, proxyVars>>

StartFails ==
  /\ control \in {"proxy", "driver", "firewall"}
  /\ state' = "stopping" /\ Goes("undo")
  /\ UNCHANGED <<firewall, handle, rules, queueVars, receiver, worker, fate, proxyVars>>

Stop ==
  /\ control = "idle" /\ state # "stopped"
  /\ state' = "stopping" /\ Goes("end")
  /\ UNCHANGED <<firewall, handle, rules, queueVars, receiver, worker, fate, proxyVars>>

\* cancel_pending, WinDivertShutdown and notify_all, without a lock
Signal ==
  /\ control \in {"undo", "end"}
  /\ handle' = IF handle = "closed" THEN handle ELSE "shut"
  /\ worker' = NotifyAll(worker)
  /\ Goes(IF control = "undo" THEN "undoJoin" ELSE "join")
  /\ UNCHANGED <<state, firewall, rules, queueVars, receiver, fate, proxyVars>>

Joined == receiver.at = "none" /\ \A w \in Workers : worker[w].at = "none"

\* Mutant of Release: the workers are not waited for.
ReleaseEarly ==
  /\ control \in {"undoJoin", "join"} /\ receiver.at = "none"
  /\ jobs' = <<>> /\ queuedBytes' = 0
  /\ firewall' = FALSE /\ StopListening
  /\ Goes(IF control = "join" THEN "close" ELSE "undoClose")
  /\ UNCHANGED <<state, handle, rules, receiver, worker, fate>>

\* The threads are joined, the queue is emptied, release() begins.
Release ==
  /\ control \in {"undoJoin", "join"} /\ Joined
  /\ jobs' = <<>> /\ queuedBytes' = 0
  /\ firewall' = FALSE /\ StopListening
  /\ Goes(IF control = "join" THEN "close" ELSE "undoClose")
  /\ UNCHANGED <<state, handle, rules, receiver, worker, fate>>

CloseDriver ==
  /\ control \in {"undoClose", "close"} /\ ProxyStopped
  /\ handle' = "closed"
  /\ state' = IF control = "close" THEN "stopped" ELSE "error"
  /\ Goes("idle")
  /\ UNCHANGED <<firewall, rules, queueVars, receiver, worker, fate>>

Reload ==
  /\ rules = 1 /\ control = "idle" /\ rules' = 2
  /\ UNCHANGED <<lifecycleVars, handle, queueVars, receiver, worker, fate, proxyVars>>

-----------------------------------------------------------------------------
ReceiverNext ==
  \/ Loop \/ CaptureFails \/ ShutBroken \/ Report \/ ReceiverEnds
  \/ \E p \in Packets :
       \/ Capture(p) \/ PassOn(p) \/ ResetTcp(p) \/ Reflect(p) \/ Malformed(p)
       \/ FastPath(p) \/ Enqueue(p) \/ Overload(p)

WorkerNext(w) == Look(w) \/ Block(w) \/ Route(w) \/ WorkerSends(w) \/ WorkerFails(w)

ControlNext ==
  \/ StartProxy \/ OpenDriver \/ EnableFirewall \/ PublishRunning \/ SpawnWorkers
  \/ SpawnFails \/ StartFails \/ Signal \/ Release \/ CloseDriver

ProxyNext ==
  /\ ProxyWorks
  /\ UNCHANGED <<lifecycleVars, handle, rules, queueVars, receiver, worker, fate>>

Next ==
  \/ Start \/ Stop \/ Reload \/ ControlNext \/ ReceiverNext \/ ProxyNext
  \/ \E w \in Workers : WorkerNext(w)

Spec == Init /\ [][Next]_divertVars

\* Every thread goes on when it can; handlers of connections end.
FairSpec ==
  /\ Spec
  /\ WF_divertVars(ControlNext) /\ WF_divertVars(ReceiverNext)
  /\ \A w \in Workers : WF_divertVars(WorkerNext(w))
  /\ \A c \in Connections :
       WF_divertVars(Finish(c) /\ UNCHANGED <<lifecycleVars, handle, rules, queueVars,
                                              receiver, worker, fate>>)

-----------------------------------------------------------------------------
(* "An interception error after selecting a routing policy does not        *)
(* reinject the original query" and overload is answered "without          *)
(* bypassing routing" (docs/DNS_TRANSPORTS.md): a DNS packet leaves        *)
(* unchanged only if the rules it was judged by let it pass, whatever      *)
(* fails, however full the queue is, and although the rules may be         *)
(* replaced while it waits.                                                *)
PolicyNotBypassed ==
  \A p \in Packets : fate[p].does = "reinjected" =>
    Kind[p] = "pass" \/ (Kind[p] = "query" /\ Rule[p][fate[p].under] = "bypass")

(* A failure of the driver in any thread ends in an error that CoreHost    *)
(* can see: outside of start and stop the provider reports that it is      *)
(* running only while the receive loop captures, or is about to report.    *)
RunningCaptures ==
  control = "idle" /\ state = "running" =>
    \/ receiver.at \in {"broken", "reporting"}
    \/ handle = "open" /\ receiver.at \in {"loop", "waiting", "judging"}

(* The driver's handle and the proxy outlive every thread that uses them,  *)
(* and an orderly end leaves none of the four: no thread, no queued job,   *)
(* no firewall rule, no listener.                                          *)
OrderlyEnd ==
  /\ handle = "closed" =>
       /\ receiver.at \notin {"waiting", "judging"}
       /\ \A w \in Workers : worker[w].at # "sending"
  /\ firewall => listening
  /\ control = "idle" /\ state = "stopped" =>
       /\ Joined /\ jobs = <<>> /\ handle = "closed" /\ ~firewall /\ ~listening
       /\ \A c \in Connections : connection[c] = NoConnection

(* A stop ends: it joins threads that have all been told.                  *)
StopReturns == control \in {"end", "undo"} ~> control = "idle"
=============================================================================
