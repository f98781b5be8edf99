------------------------ MODULE WindowsDivertProofs ------------------------
(***************************************************************************)
(* Machine-checked proofs about WindowsDivert and the TcpDnsProxy in it,   *)
(* for every number of workers, packets, tuples and connections and every  *)
(* limit of the queue and the tables.                                      *)
(*                                                                         *)
(* The layers: types, which say that only queries are ever queued; the     *)
(* table of expected tuples and the SYNs it stands for; the stages of      *)
(* start and stop, with the threads and resources each of them has.  Then, *)
(* for every packet, word size and payload, PacketRewrite: the arithmetic  *)
(* of the checksums, what a rewrite keeps, and the way of one packet.  And *)
(* for every name and pattern PatternMatch, by which the rules are chosen  *)
(* that a captured query is judged by.                                     *)
(***************************************************************************)
EXTENDS WindowsDivert, PacketRewrite, PatternMatch, FiniteSetTheorems, SequenceTheorems,
        WellFoundedInduction, TLAPS

-----------------------------------------------------------------------------
(* Types.                                                                  *)

ReceiverSteps == {"none", "loop", "waiting", "judging", "broken", "reporting", "ending"}
Controls == {"idle", "proxy", "driver", "firewall", "publish", "spawn", "undo", "end",
             "undoJoin", "join", "undoClose", "close"}
Versions == {1, 2}

\* What a worker may be given: a query and the rules it was captured under
Jobs == [packet : {p \in Packets : Kind[p] = "query"}, under : Versions]

LifeOK ==
  /\ state \in {"stopped", "starting", "running", "stopping", "error"}
  /\ control \in Controls /\ handle \in {"closed", "open", "shut"}
  /\ firewall \in BOOLEAN /\ rules \in Versions

ReceiverOK ==
  receiver \in [at : ReceiverSteps] \union [at : ReceiverSteps, packet : Packets]

WorkersOK ==
  worker \in [Workers -> [at : {"none", "looking", "blocking", "asleep", "failing"}]
                           \union [at : {"routing", "sending"}, job : Jobs]]

FateOK ==
  fate \in [Packets -> [does : {"unseen", "kept", "reinjected"}, under : Versions]]

TypeOK == LifeOK /\ ReceiverOK /\ WorkersOK /\ FateOK /\ jobs \in Seq(Jobs)

\* The steps of the receive loop that settle what becomes of a packet
Settle(p) ==
  PassOn(p) \/ ResetTcp(p) \/ Reflect(p) \/ Malformed(p) \/ FastPath(p) \/ Overload(p)

\* What may leave unchanged under a version of the rules
Passes(p, version) ==
  Kind[p] = "pass" \/ (Kind[p] = "query" /\ Rule[p][version] = "bypass")

(* The initial state is well typed. *)
LEMMA TypeInit == Init => TypeOK
<1> SUFFICES ASSUME Init PROVE TypeOK
  OBVIOUS
<1>1. LifeOK /\ ReceiverOK /\ WorkersOK
  BY DEF Init, NoPacket, LifeOK, Controls, Versions, ReceiverOK, ReceiverSteps, WorkersOK
<1>2. FateOK /\ jobs \in Seq(Jobs)
  BY EmptySeq DEF Init, FateOK, Unseen, Versions
<1> QED BY <1>1, <1>2 DEF TypeOK

(* Receives moves the receive loop and nothing else. *)
LEMMA ReceivesFacts ==
  ASSUME ReceiverOK, NEW step \in ReceiverSteps, Receives(step)
  PROVE  ReceiverOK' /\ receiver'.at = step
BY DEF ReceiverOK, Receives

(* A step that settles a packet leaves the lifecycle, the queue and the    *)
(* workers alone; the packet leaves unchanged only if its rules pass it.   *)
LEMMA SettleFacts ==
  ASSUME TypeOK, NEW p \in Packets, Settle(p)
  PROVE  /\ receiver.at = "judging"
         /\ \E step \in {"loop", "broken"} : Receives(step)
         /\ UNCHANGED <<state, control, firewall, handle, rules, jobs, worker, listening, connection>>
         /\ \/ UNCHANGED fate
            \/ Sends(p, FALSE, rules)
            \/ Sends(p, TRUE, rules) /\ Passes(p, rules)
<1> USE DEF Judging, Judged, lifecycleVars, queueVars, proxyVars, Passes
<1>1. CASE PassOn(p) \/ FastPath(p)
  BY <1>1 DEF PassOn, FastPath, ReceiverSends
<1>2. CASE ResetTcp(p) \/ Overload(p) \/ Malformed(p)
  BY <1>2 DEF ResetTcp, Overload, Malformed, ReceiverSends
<1>3. CASE Reflect(p)
  <2>1. UNCHANGED <<listening, connection>>
    BY <1>3 DEF Reflect, Expect, ExpectFails, Forget
  <2> QED BY <1>3, <2>1 DEF Reflect, ReceiverSends
<1> QED BY <1>1, <1>2, <1>3 DEF Settle

(* Sending a packet keeps the type of its fate. *)
LEMMA SendsFacts ==
  ASSUME FateOK, NEW p \in Packets, NEW unchanged \in BOOLEAN, NEW version \in Versions,
         Sends(p, unchanged, version)
  PROVE  FateOK'
BY DEF FateOK, Sends, Kept, Versions

(* The receive loop keeps the types; it queues queries only. *)
LEMMA TypeReceiver ==
  ASSUME TypeOK, ReceiverNext PROVE TypeOK'
<1> USE DEF TypeOK, lifecycleVars, queueVars
<1>1. CASE Loop \/ CaptureFails \/ ShutBroken \/ Report
  <2>1. \E step \in ReceiverSteps : Receives(step)
    BY <1>1 DEF Loop, CaptureFails, ShutBroken, Report, ReceiverSteps
  <2>2. LifeOK'
    BY <1>1 DEF Loop, CaptureFails, ShutBroken, Report, LifeOK
  <2>3. UNCHANGED <<worker, fate, jobs>>
    BY <1>1 DEF Loop, CaptureFails, ShutBroken, Report
  <2> QED BY <2>1, <2>2, <2>3, ReceivesFacts DEF WorkersOK, FateOK
<1>2. CASE ReceiverEnds
  <2>1. ReceiverOK' /\ LifeOK' /\ FateOK' /\ UNCHANGED jobs
    BY <1>2 DEF ReceiverEnds, NoPacket, ReceiverOK, ReceiverSteps, LifeOK, FateOK
  <2>2. WorkersOK'
    BY <1>2 DEF ReceiverEnds, NotifyAll, WorkersOK
  <2> QED BY <2>1, <2>2
<1>3. ASSUME NEW p \in Packets, Capture(p) PROVE TypeOK'
  BY <1>3 DEF Capture, LifeOK, ReceiverOK, ReceiverSteps, WorkersOK, FateOK, Kept, Versions
<1>4. ASSUME NEW p \in Packets, Settle(p) PROVE TypeOK'
  <2>1. ReceiverOK'
    BY <1>4, SettleFacts, ReceivesFacts DEF ReceiverSteps
  <2>2. FateOK'
    BY <1>4, SettleFacts, SendsFacts DEF LifeOK, FateOK
  <2>3. LifeOK' /\ WorkersOK' /\ UNCHANGED jobs
    BY <1>4, SettleFacts DEF LifeOK, WorkersOK
  <2> QED BY <2>1, <2>2, <2>3
<1>5. ASSUME NEW p \in Packets, Enqueue(p) PROVE TypeOK'
  <2>1. ReceiverOK' /\ LifeOK' /\ FateOK'
    BY <1>5, ReceivesFacts DEF Enqueue, LifeOK, FateOK, ReceiverSteps
  <2>2. WorkersOK'
    BY <1>5 DEF Enqueue, WorkersOK
  <2>3. [packet |-> p, under |-> rules] \in Jobs
    BY <1>5 DEF Enqueue, Judging, LifeOK, Jobs
  <2>4. jobs' \in Seq(Jobs)
    BY <1>5, <2>3, AppendProperties DEF Enqueue
  <2> QED BY <2>1, <2>2, <2>4
<1> QED BY <1>1, <1>2, <1>3, <1>4, <1>5 DEF ReceiverNext, Settle

(* A worker keeps the types. *)
LEMMA TypeWorker ==
  ASSUME TypeOK, NEW w \in Workers, WorkerNext(w) PROVE TypeOK'
<1> USE DEF TypeOK, lifecycleVars, queueVars, WorkerDoes
<1>1. CASE Look(w)
  <2>1. LifeOK' /\ ReceiverOK' /\ FateOK'
    BY <1>1 DEF Look, LifeOK, ReceiverOK, FateOK
  <2>2. jobs' \in Seq(Jobs) /\ (jobs # <<>> => Head(jobs) \in Jobs)
    BY <1>1, HeadTailProperties DEF Look
  <2>3. WorkersOK'
    BY <1>1, <2>2 DEF Look, WorkersOK, NoPacket
  <2> QED BY <2>1, <2>2, <2>3
<1>2. CASE Block(w)
  BY <1>2 DEF Block, LifeOK, ReceiverOK, FateOK, WorkersOK
<1>3. CASE Route(w)
  <2>1. WorkersOK'
    BY <1>3 DEF Route, WorkersOK
  <2> QED BY <1>3, <2>1 DEF Route, LifeOK, ReceiverOK, FateOK
<1>4. CASE WorkerSends(w)
  <2>1. worker[w].job \in Jobs
    BY <1>4 DEF WorkerSends, WorkersOK
  <2>2. FateOK'
    BY <1>4, <2>1, SendsFacts DEF WorkerSends, Jobs, FateOK
  <2>3. WorkersOK'
    BY <1>4 DEF WorkerSends, WorkersOK
  <2> QED BY <1>4, <2>2, <2>3 DEF WorkerSends, LifeOK, ReceiverOK
<1>5. CASE WorkerFails(w)
  <2>1. WorkersOK'
    BY <1>5 DEF WorkerFails, NotifyAll, WorkersOK
  <2> QED BY <1>5, <2>1 DEF WorkerFails, LifeOK, ReceiverOK, FateOK
<1> QED BY <1>1, <1>2, <1>3, <1>4, <1>5 DEF WorkerNext

(* start, stop and reload keep the types. *)
LEMMA TypeControl ==
  ASSUME TypeOK, Start \/ Stop \/ Reload \/ ControlNext PROVE TypeOK'
<1> USE DEF TypeOK, lifecycleVars, queueVars, Goes
<1>1. CASE Start \/ Stop \/ Reload
  <2>1. LifeOK'
    BY <1>1 DEF Start, Stop, Reload, LifeOK, Controls, Versions
  <2> QED BY <1>1, <2>1 DEF Start, Stop, Reload, ReceiverOK, WorkersOK, FateOK
<1>2. CASE StartProxy \/ OpenDriver \/ EnableFirewall \/ PublishRunning \/ StartFails
  <2>1. LifeOK'
    BY <1>2 DEF StartProxy, OpenDriver, EnableFirewall, PublishRunning, StartFails, LifeOK, Controls
  <2> QED BY <1>2, <2>1 DEF StartProxy, OpenDriver, EnableFirewall, PublishRunning, StartFails,
                            ReceiverOK, WorkersOK, FateOK
<1>3. CASE SpawnWorkers \/ SpawnFails \/ Signal
  <2>1. LifeOK'
    BY <1>3 DEF SpawnWorkers, SpawnFails, Signal, LifeOK, Controls
  <2>2. WorkersOK'
    BY <1>3 DEF SpawnWorkers, SpawnFails, Signal, NotifyAll, NoPacket, WorkersOK
  <2>3. ReceiverOK' /\ FateOK' /\ UNCHANGED jobs
    BY <1>3 DEF SpawnWorkers, SpawnFails, Signal, ReceiverOK, ReceiverSteps, FateOK
  <2> QED BY <2>1, <2>2, <2>3
<1>4. CASE Release \/ CloseDriver
  <2>1. LifeOK'
    BY <1>4 DEF Release, CloseDriver, LifeOK, Controls
  <2>2. jobs' \in Seq(Jobs)
    BY <1>4, EmptySeq DEF Release, CloseDriver
  <2> QED BY <1>4, <2>1, <2>2 DEF Release, CloseDriver, ReceiverOK, WorkersOK, FateOK
<1> QED BY <1>1, <1>2, <1>3, <1>4 DEF ControlNext

(* Every step keeps the types. *)
LEMMA TypeStep == TypeOK /\ [Next]_divertVars => TypeOK'
<1>1. ASSUME TypeOK, ProxyNext \/ UNCHANGED divertVars PROVE TypeOK'
  BY <1>1 DEF ProxyNext, divertVars, lifecycleVars, queueVars, TypeOK, LifeOK, ReceiverOK,
              WorkersOK, FateOK
<1> QED BY <1>1, TypeReceiver, TypeWorker, TypeControl DEF Next

(* Every reachable state of the provider is well typed.                    *)
THEOREM TypeCorrect == Spec => []TypeOK
BY TypeInit, TypeStep, PTL DEF Spec

-----------------------------------------------------------------------------
(* The routing policy.                                                     *)

(* A step lets a packet leave unchanged only if the rules it was judged by *)
(* pass it.                                                                *)
LEMMA PolicyStep == TypeOK /\ PolicyNotBypassed /\ [Next]_divertVars => PolicyNotBypassed'
<1> SUFFICES ASSUME TypeOK, PolicyNotBypassed, [Next]_divertVars PROVE PolicyNotBypassed'
  OBVIOUS
<1>1. ASSUME UNCHANGED fate PROVE PolicyNotBypassed'
  BY <1>1 DEF PolicyNotBypassed
<1>2. ASSUME NEW p \in Packets, NEW version \in Versions, NEW unchanged \in BOOLEAN,
             Sends(p, unchanged, version), unchanged => Passes(p, version)
      PROVE  PolicyNotBypassed'
  BY <1>2 DEF PolicyNotBypassed, TypeOK, FateOK, Sends, Kept, Passes
<1>3. CASE ReceiverNext
  <2>1. ASSUME NEW p \in Packets, Settle(p) PROVE PolicyNotBypassed'
    BY <1>1, <1>2, <2>1, SettleFacts DEF TypeOK, LifeOK
  <2>2. ASSUME NEW p \in Packets, Capture(p) PROVE PolicyNotBypassed'
    BY <2>2 DEF Capture, PolicyNotBypassed, TypeOK, FateOK, Kept
  <2>3. ASSUME NEW p \in Packets, Enqueue(p) PROVE PolicyNotBypassed'
    BY <1>1, <2>3 DEF Enqueue
  <2> QED BY <1>1, <1>3, <2>1, <2>2, <2>3
          DEF ReceiverNext, Settle, Loop, CaptureFails, ShutBroken, Report, ReceiverEnds
<1>4. ASSUME NEW w \in Workers, WorkerNext(w) PROVE PolicyNotBypassed'
  <2>1. CASE WorkerSends(w) /\ fate' # fate
    <3> DEFINE job == worker[w].job
    <3>1. job \in Jobs
      BY <2>1 DEF WorkerSends, TypeOK, WorkersOK
    <3>2. job.packet \in Packets /\ Kind[job.packet] = "query" /\ job.under \in Versions
      BY <3>1 DEF Jobs
    <3>3. Sends(job.packet, Decision(job) = "bypass", job.under)
      BY <2>1 DEF WorkerSends
    <3>4. (Decision(job) = "bypass") => Passes(job.packet, job.under)
      BY <3>2 DEF Decision, Passes
    <3> QED BY <1>2, <3>2, <3>3, <3>4
  <2> QED BY <1>1, <1>4, <2>1 DEF WorkerNext, Look, Block, Route, WorkerFails
<1>5. CASE Start \/ Stop \/ Reload \/ ControlNext \/ ProxyNext \/ UNCHANGED divertVars
  BY <1>1, <1>5 DEF Start, Stop, Reload, ControlNext, StartProxy, OpenDriver, EnableFirewall,
     PublishRunning, SpawnWorkers, SpawnFails, StartFails, Signal, Release, CloseDriver,
     ProxyNext, divertVars
<1> QED BY <1>3, <1>4, <1>5 DEF Next

(* A DNS packet leaves unchanged only if the rules it was judged by let it *)
(* pass, whatever fails, however full the queue is, and although a reload  *)
(* may replace the rules while it waits.                                   *)
THEOREM PolicyHolds == Spec => []PolicyNotBypassed
<1>1. Init => PolicyNotBypassed
  BY DEF Init, Unseen, PolicyNotBypassed
<1> QED BY <1>1, TypeCorrect, PolicyStep, PTL DEF Spec

-----------------------------------------------------------------------------
(* The table of expected tuples.                                           *)

\* A tuple in the table stands for a SYN that nobody has spent.
TableOK ==
  /\ time \in Nat /\ captured \in [Tuples -> Int]
  /\ \A k \in DOMAIN expected :
       k \in Tuples /\ captured[k] # -1 /\ expected[k] = captured[k] + Lifetime

(* The table starts empty. *)
LEMMA TableInit == Init => TableOK /\ OneShot
BY DEF Init, ProxyInit, TableOK, OneShot

(* The receive loop enters a tuple with the time of its SYN and forgets it *)
(* with a reset.                                                           *)
LEMMA TableReceiver ==
  ASSUME DivertConstants, TableOK, NEW p \in Packets, Reflect(p)
  PROVE  TableOK' /\ UNCHANGED unexpected
<1> DEFINE k == Tuple[p]
<1>1. k \in Tuples /\ Lifetime \in Nat
  BY DEF Reflect, Judging, DivertConstants
<1>2. CASE ExpectFails(k)
  BY <1>2 DEF ExpectFails, Pruned, TableOK
<1>3. CASE Expect(k)
  BY <1>1, <1>3 DEF Expect, Pruned, TableOK
<1>4. CASE Forget(k)
  BY <1>1, <1>4 DEF Forget, TableOK
<1> QED BY <1>2, <1>3, <1>4 DEF Reflect

(* A handler that finds its tuple has a SYN of its own: it is recent, and  *)
(* it is spent in the same step.                                           *)
LEMMA TableProxy ==
  ASSUME DivertConstants, TableOK, ProxyWorks
  PROVE  TableOK' /\ (OneShot => OneShot')
<1> USE DEF DivertConstants, TableOK, OneShot
<1>1. ASSUME NEW c \in Connections, Handle(c) PROVE TableOK' /\ (OneShot => OneShot')
  <2> DEFINE k == connection[c].tuple
  <2>1. CASE k \in DOMAIN Pruned
    <3>1. k \in Tuples /\ captured[k] # -1 /\ ~(captured[k] + Lifetime <= time)
      BY <2>1 DEF Pruned
    <3>2. expected' = Consumed(k) /\ captured' = [captured EXCEPT ![k] = -1] /\ UNCHANGED time
      BY <1>1, <2>1 DEF Handle
    <3>3. unexpected' = (unexpected \/ captured[k] = -1 \/ captured[k] + Lifetime <= time)
      BY <1>1, <2>1 DEF Handle
    <3>4. OneShot => OneShot'
      BY <3>1, <3>3
    <3> QED BY <3>1, <3>2, <3>4 DEF Consumed, Pruned
  <2>2. CASE k \notin DOMAIN Pruned
    BY <1>1, <2>2 DEF Handle, Pruned
  <2> QED BY <2>1, <2>2
<1>2. CASE SecondPasses
  BY <1>2 DEF SecondPasses
<1>3. ASSUME NEW c \in Connections, Finish(c) \/ \E k \in Tuples : Accept(c, k)
      PROVE  TableOK' /\ (OneShot => OneShot')
  BY <1>3 DEF Finish, Accept
<1> QED BY <1>1, <1>2, <1>3 DEF ProxyWorks

(* Every step keeps the table. *)
LEMMA TableStep ==
  ASSUME DivertConstants
  PROVE  TableOK /\ OneShot /\ [Next]_divertVars => TableOK' /\ OneShot'
<1> SUFFICES ASSUME TableOK, OneShot, [Next]_divertVars PROVE TableOK' /\ OneShot'
  OBVIOUS
<1> USE DEF proxyVars
<1>1. ASSUME UNCHANGED proxyVars PROVE TableOK' /\ OneShot'
  BY <1>1 DEF TableOK, OneShot
<1>2. CASE ReceiverNext
  BY <1>1, <1>2, TableReceiver DEF ReceiverNext, Loop, CaptureFails, ShutBroken, Report,
     ReceiverEnds, Capture, PassOn, ResetTcp, Malformed, FastPath, Enqueue, Overload, OneShot
<1>3. ASSUME NEW w \in Workers, WorkerNext(w) PROVE TableOK' /\ OneShot'
  BY <1>1, <1>3 DEF WorkerNext, Look, Block, Route, WorkerSends, WorkerFails
<1>4. CASE Start \/ Stop \/ Reload \/ OpenDriver \/ EnableFirewall \/ PublishRunning
           \/ SpawnWorkers \/ SpawnFails \/ StartFails \/ Signal
  BY <1>1, <1>4 DEF Start, Stop, Reload, OpenDriver, EnableFirewall, PublishRunning,
     SpawnWorkers, SpawnFails, StartFails, Signal
<1>5. CASE StartProxy \/ Release
  BY <1>5 DEF StartProxy, Listen, Release, StopListening, TableOK, OneShot
<1>6. CASE CloseDriver
  BY <1>6 DEF CloseDriver, ProxyStopped, TableOK, OneShot
<1>7. CASE ProxyNext
  BY <1>7, TableProxy DEF ProxyNext
<1>8. CASE UNCHANGED divertVars
  BY <1>1, <1>8 DEF divertVars
<1> QED BY <1>2, <1>3, <1>4, <1>5, <1>6, <1>7, <1>8 DEF Next, ControlNext

(* Every connection that is served has a SYN of its own, captured less     *)
(* than five seconds earlier, that no other connection and no reset spent. *)
THEOREM OneShotHolds ==
  ASSUME DivertConstants PROVE Spec => []OneShot
<1>1. Init => TableOK /\ OneShot
  BY TableInit
<1>2. TableOK /\ OneShot /\ [Next]_divertVars => (TableOK /\ OneShot)'
  BY TableStep
<1> QED BY <1>1, <1>2, PTL DEF Spec

-----------------------------------------------------------------------------
(* The stages of start and stop.                                           *)

StartStages == {"proxy", "driver", "firewall", "publish", "spawn"}
CloseStages == {"undoClose", "close"}

\* Nothing is left but the driver's handle and handlers of connections.
Emptied ==
  /\ Joined /\ jobs = <<>> /\ ~firewall /\ ~listening

Connected(place) == \E c \in Connections : connection[c].at = place

ConnectionsOK ==
  /\ connection \in [Connections -> {NoConnection} \union [at : {"queued", "serving"}, tuple : Tuples]]
  /\ ~listening => ~Connected("queued")

Stages ==
  /\ control \in StartStages => Joined
  /\ control \in {"driver", "firewall", "publish", "spawn"} => listening
  /\ control \in {"firewall", "publish", "spawn"} => handle = "open"
  /\ control \in CloseStages => Emptied
  /\ control # "idle" => state # "stopped"
  /\ control = "idle" /\ state = "stopped" =>
       Emptied /\ handle = "closed" /\ \A c \in Connections : connection[c] = NoConnection

Resources ==
  /\ handle = "closed" => Joined
  /\ firewall => listening

\* Who reports RUNNING has a receive loop that captures or is about to report.
Running ==
  state = "running" =>
    /\ control \in {"spawn", "idle"}
    /\ control = "idle" => receiver.at \in ReceiverSteps \ {"none", "ending"}
    /\ handle = "open" \/ receiver.at = "reporting"

Life == ConnectionsOK /\ Stages /\ Resources /\ Running

(* Nothing runs at first. *)
LEMMA LifeInit == Init => Life
<1> SUFFICES ASSUME Init PROVE Life
  OBVIOUS
<1> USE DEF Init, ProxyInit, NoPacket, NoConnection
<1>1. ConnectionsOK
  BY DEF ConnectionsOK, Connected
<1>2. Emptied
  BY DEF Emptied, Joined
<1> QED BY <1>1, <1>2 DEF Life, Stages, Resources, Running, Emptied, StartStages, CloseStages

(* While a thread of the provider lives, it is neither starting nor closing; *)
(* a step of a thread keeps the stages if it reports what it breaks.         *)
LEMMA LifeAlive ==
  ASSUME Life, ~Joined, UNCHANGED <<control, firewall, listening, connection>>,
         handle' = handle \/ handle' = "shut",
         state' = state \/ state' = "error",
         state' = "running" =>
           /\ control = "idle" => receiver'.at \in ReceiverSteps \ {"none", "ending"}
           /\ handle' = "open" \/ receiver'.at = "reporting"
  PROVE  Life'
<1>1. ConnectionsOK'
  BY DEF Life, ConnectionsOK, Connected
<1>2. control \notin StartStages \union CloseStages /\ handle # "closed"
      /\ (control = "idle" => state # "stopped")
  BY DEF Life, Stages, Resources, Emptied
<1>3. Stages' /\ Resources'
  BY <1>2 DEF Life, Stages, Resources, StartStages, CloseStages
<1>4. Running'
  BY DEF Life, Running
<1> QED BY <1>1, <1>3, <1>4 DEF Life

(* The receive loop keeps the stages. *)
LEMMA LifeReceiver ==
  ASSUME TypeOK, Life, ReceiverNext PROVE Life'
<1> DEFINE Serves(at) == at \in ReceiverSteps \ {"none", "ending"}
<1>1. ASSUME receiver.at # "none", UNCHANGED <<control, firewall, listening, connection>>,
             UNCHANGED <<handle, state>>, receiver'.at # "none",
             state = "running" => Serves(receiver'.at) /\ (receiver.at = "reporting" => receiver'.at = "reporting")
      PROVE  Life'
  <2>1. ~Joined
    BY <1>1 DEF Joined
  <2>2. state = "running" => handle = "open" \/ receiver'.at = "reporting"
    BY <1>1 DEF Life, Running
  <2> QED BY <1>1, <2>1, <2>2, LifeAlive
<1> USE DEF lifecycleVars, queueVars, proxyVars
<1>2. CASE Loop \/ CaptureFails
  <2>1. \E step \in {"waiting", "broken", "ending"} :
          Receives(step) /\ (state = "running" => step # "ending")
    BY <1>2 DEF Loop, CaptureFails
  <2>2. PICK step \in {"waiting", "broken", "ending"} :
          Receives(step) /\ (state = "running" => step # "ending")
    BY <2>1
  <2>3. receiver'.at = step
    BY <2>2, ReceivesFacts DEF TypeOK, ReceiverSteps
  <2> QED BY <1>1, <1>2, <2>2, <2>3 DEF Loop, CaptureFails, ReceiverSteps
<1>3. CASE ShutBroken
  <2>1. receiver'.at = "reporting"
    BY <1>3, ReceivesFacts DEF ShutBroken, TypeOK, ReceiverSteps
  <2>2. ~Joined
    BY <1>3 DEF ShutBroken, Joined
  <2>3. handle' = handle \/ handle' = "shut"
    BY <1>3 DEF ShutBroken
  <2> QED BY <1>3, <2>1, <2>2, <2>3, LifeAlive DEF ShutBroken, ReceiverSteps
<1>4. CASE Report
  <2>1. ~Joined /\ state' # "running" /\ (state' = state \/ state' = "error")
    BY <1>4 DEF Report, Joined
  <2> QED BY <1>4, <2>1, LifeAlive DEF Report
<1>5. CASE ReceiverEnds
  <2>1. ~Joined /\ control \notin StartStages
    BY <1>5 DEF ReceiverEnds, Joined, Life, Stages
  <2>2. state # "running"
    BY <1>5, <2>1 DEF ReceiverEnds, Life, Running, StartStages
  <2> QED BY <1>5, <2>1, <2>2, LifeAlive DEF ReceiverEnds
<1>6. ASSUME NEW p \in Packets, Capture(p) PROVE Life'
  BY <1>1, <1>6 DEF Capture, ReceiverSteps
<1>7. ASSUME NEW p \in Packets, Settle(p) PROVE Life'
  <2>1. receiver'.at \in {"loop", "broken"}
    BY <1>7, SettleFacts, ReceivesFacts DEF TypeOK, ReceiverSteps
  <2> QED BY <1>1, <1>7, <2>1, SettleFacts DEF ReceiverSteps
<1>8. ASSUME NEW p \in Packets, Enqueue(p) PROVE Life'
  <2>1. receiver'.at = "loop"
    BY <1>8, ReceivesFacts DEF Enqueue, TypeOK, ReceiverSteps
  <2> QED BY <1>1, <1>8, <2>1 DEF Enqueue, Judging, ReceiverSteps
<1> QED BY <1>2, <1>3, <1>4, <1>5, <1>6, <1>7, <1>8 DEF ReceiverNext, Settle

(* The workers keep the stages. *)
LEMMA LifeWorker ==
  ASSUME Life, NEW w \in Workers, WorkerNext(w) PROVE Life'
<1> USE DEF lifecycleVars, queueVars, proxyVars
<1>1. worker[w].at # "none" /\ UNCHANGED <<control, firewall, listening, connection, receiver>>
  BY DEF WorkerNext, Look, Block, Route, WorkerSends, WorkerFails
<1>2. ~Joined
  BY <1>1 DEF Joined
<1>3. CASE UNCHANGED <<state, handle>>
  BY <1>1, <1>2, <1>3, LifeAlive DEF Life, Running
<1>4. CASE WorkerFails(w)
  <2>1. state' = "error" /\ (handle' = handle \/ handle' = "shut")
    BY <1>4 DEF WorkerFails
  <2> QED BY <1>1, <1>2, <2>1, LifeAlive
<1> QED BY <1>3, <1>4 DEF WorkerNext, Look, Block, Route, WorkerSends

(* Clients and handlers keep the stages. *)
LEMMA LifeProxy ==
  ASSUME Life, ProxyNext PROVE Life'
<1> USE DEF lifecycleVars, queueVars, proxyVars
<1>1. UNCHANGED <<state, control, firewall, handle, jobs, receiver, worker, listening>>
  BY DEF ProxyNext, ProxyWorks, Accept, Handle, Finish, SecondPasses
<1>2. ConnectionsOK'
  <2>1. ASSUME NEW c \in Connections, Handle(c) \/ Finish(c) PROVE ConnectionsOK'
    <3>1. connection' \in [Connections -> {NoConnection} \union [at : {"queued", "serving"}, tuple : Tuples]]
      BY <2>1 DEF Handle, Finish, NoConnection, Life, ConnectionsOK
    <3>2. \A d \in Connections : connection'[d].at = "queued" => connection[d].at = "queued"
      BY <2>1 DEF Handle, Finish, NoConnection, Life, ConnectionsOK
    <3> QED BY <1>1, <3>1, <3>2 DEF Life, ConnectionsOK, Connected
  <2>2. ASSUME NEW c \in Connections, NEW k \in Tuples, Accept(c, k) PROVE ConnectionsOK'
    BY <2>2 DEF Accept, Life, ConnectionsOK
  <2>3. CASE SecondPasses
    BY <2>3 DEF SecondPasses, Life, ConnectionsOK, Connected
  <2> QED BY <2>1, <2>2, <2>3 DEF ProxyNext, ProxyWorks
<1>3. Stages'
  <2>1. CASE UNCHANGED connection
    BY <1>1, <2>1 DEF Life, Stages, Emptied, Joined
  <2>2. CASE connection' # connection
    <3>1. listening \/ \E c \in Connections : connection[c] # NoConnection
      BY <2>2 DEF ProxyNext, ProxyWorks, Accept, Handle, Finish, SecondPasses, NoConnection
    <3>2. ~(control = "idle" /\ state = "stopped")
      BY <3>1 DEF Life, Stages, Emptied
    <3> QED BY <1>1, <3>2 DEF Life, Stages, Emptied, Joined
  <2> QED BY <2>1, <2>2
<1>4. Resources' /\ Running'
  BY <1>1 DEF Life, Resources, Running, Joined
<1> QED BY <1>2, <1>3, <1>4 DEF Life

(* start and stop keep the stages. *)
LEMMA LifeControl ==
  ASSUME TypeOK, Life, Start \/ Stop \/ Reload \/ ControlNext PROVE Life'
<1> USE DEF Goes, lifecycleVars, queueVars, proxyVars, StartStages, CloseStages
<1>1. ASSUME UNCHANGED <<listening, connection>> PROVE ConnectionsOK'
  BY <1>1 DEF Life, ConnectionsOK, Connected
<1>2. CASE Start \/ StartFails \/ Stop
  <2>1. UNCHANGED <<listening, connection, receiver, worker, handle>>
    BY <1>2 DEF Start, StartFails, Stop
  <2>2. Stages'
    BY <1>2, <2>1 DEF Start, StartFails, Stop, Life, Stages, Emptied, Joined
  <2>3. Resources' /\ Running'
    BY <1>2, <2>1 DEF Start, StartFails, Stop, Life, Resources, Running, Joined
  <2> QED BY <1>1, <2>1, <2>2, <2>3 DEF Life
<1>3. CASE OpenDriver \/ EnableFirewall \/ PublishRunning \/ Reload
  <2>1. UNCHANGED <<listening, connection, receiver, worker, jobs>>
    BY <1>3 DEF OpenDriver, EnableFirewall, PublishRunning, Reload
  <2>2. Stages'
    BY <1>3, <2>1 DEF OpenDriver, EnableFirewall, PublishRunning, Reload, Life, Stages, Emptied, Joined
  <2>3. Resources' /\ Running'
    BY <1>3, <2>1 DEF OpenDriver, EnableFirewall, PublishRunning, Reload, Life, Stages, Resources,
                      Running, Joined
  <2> QED BY <1>1, <2>1, <2>2, <2>3 DEF Life
<1>4. CASE StartProxy
  <2>1. ConnectionsOK'
    BY <1>4 DEF StartProxy, Listen, Life, ConnectionsOK
  <2>2. Stages' /\ Resources' /\ Running'
    BY <1>4 DEF StartProxy, Listen, Life, Stages, Resources, Running, Joined
  <2> QED BY <2>1, <2>2 DEF Life
<1>5. CASE SpawnWorkers
  <2>1. UNCHANGED <<state, handle, firewall, listening, connection>> /\ control' = "idle"
        /\ receiver'.at = "loop"
    BY <1>5 DEF SpawnWorkers
  <2>2. handle = "open" /\ state # "stopped"
    BY <1>5 DEF SpawnWorkers, Life, Stages
  <2>3. Stages' /\ Resources' /\ Running'
    BY <2>1, <2>2 DEF Life, Stages, Resources, Running, ReceiverSteps
  <2> QED BY <1>1, <2>1, <2>3 DEF Life
<1>6. CASE SpawnFails
  <2>1. UNCHANGED <<handle, firewall, listening, connection>> /\ control' = "undo"
        /\ state' = "stopping" /\ handle = "open"
    BY <1>6 DEF SpawnFails, Life, Stages
  <2>2. Stages' /\ Resources' /\ Running'
    BY <2>1 DEF Life, Stages, Resources, Running
  <2> QED BY <1>1, <2>1, <2>2 DEF Life
<1>7. CASE Signal
  <2>1. UNCHANGED <<state, firewall, listening, connection, receiver>>
        /\ control' \in {"undoJoin", "join"} /\ (handle' = "closed" => handle = "closed")
        /\ state # "running" /\ state # "stopped"
    BY <1>7 DEF Signal, Life, Stages, Running
  <2>2. Joined => Joined'
    BY <1>7 DEF Signal, NotifyAll, Joined
  <2>3. Stages' /\ Resources' /\ Running'
    BY <2>1, <2>2 DEF Life, Stages, Resources, Running
  <2> QED BY <1>1, <2>1, <2>3 DEF Life
<1>8. CASE Release
  <2>1. UNCHANGED <<state, handle, receiver, worker>> /\ control' \in CloseStages
        /\ state # "running" /\ state # "stopped"
    BY <1>8 DEF Release, Life, Stages, Running
  <2>2. Emptied' /\ Joined'
    BY <1>8 DEF Release, StopListening, Emptied, Joined
  <2>3. ConnectionsOK'
    BY <1>8 DEF Release, StopListening, NoConnection, Life, ConnectionsOK, Connected
  <2>4. Stages' /\ Resources' /\ Running'
    BY <2>1, <2>2 DEF Life, Stages, Resources, Running, Emptied
  <2> QED BY <2>3, <2>4 DEF Life
<1>9. CASE CloseDriver
  <2>1. UNCHANGED <<firewall, jobs, receiver, worker, listening, connection>> /\ control' = "idle"
        /\ state' \in {"stopped", "error"} /\ handle' = "closed"
    BY <1>9 DEF CloseDriver, ProxyStopped
  <2>2. Emptied
    BY <1>9 DEF CloseDriver, Life, Stages
  <2>3. Emptied' /\ Joined' /\ ~firewall'
    BY <2>1, <2>2 DEF Emptied, Joined
  <2>4. \A c \in Connections : connection[c] = NoConnection
    BY <1>9, <2>2 DEF CloseDriver, ProxyStopped, At, Emptied, Life, ConnectionsOK, Connected
  <2>5. Stages'
    BY <2>1, <2>3, <2>4 DEF Stages
  <2>6. Resources' /\ Running'
    BY <2>1, <2>3 DEF Resources, Running
  <2> QED BY <1>1, <2>1, <2>5, <2>6 DEF Life
<1> QED BY <1>2, <1>3, <1>4, <1>5, <1>6, <1>7, <1>8, <1>9 DEF ControlNext

(* Every step keeps the stages. *)
LEMMA LifeStep == TypeOK /\ Life /\ [Next]_divertVars => Life'
<1>1. ASSUME Life, UNCHANGED divertVars PROVE Life'
  BY <1>1 DEF divertVars, lifecycleVars, queueVars, proxyVars, Life, ConnectionsOK, Connected,
              Stages, Emptied, Joined, Resources, Running
<1> QED BY <1>1, LifeReceiver, LifeWorker, LifeProxy, LifeControl DEF Next

(* What the stages say of the two properties. *)
LEMMA LifeMeans == Life => RunningCaptures /\ OrderlyEnd
<1>1. Life => RunningCaptures
  BY DEF Life, Running, RunningCaptures, ReceiverSteps
<1>2. Life => OrderlyEnd
  BY DEF Life, Stages, Resources, Emptied, Joined, OrderlyEnd
<1> QED BY <1>1, <1>2

(* RUNNING, seen outside of start and stop, means that the receive loop    *)
(* captures or is about to report; no thread outlives the driver's handle; *)
(* and an orderly end leaves no thread, job, rule, listener or connection. *)
THEOREM LifecycleHolds == Spec => [](RunningCaptures /\ OrderlyEnd)
<1>1. Spec => []Life
  BY TypeCorrect, LifeInit, LifeStep, PTL DEF Spec
<1> QED BY <1>1, LifeMeans, PTL

-----------------------------------------------------------------------------
(* Packets: sums and checksums.                                            *)

(* A set of numbers has a least one. *)
LEMMA LeastOf ==
  ASSUME NEW S, S \subseteq Nat, S # {}
  PROVE  \E m \in S : \A n \in S : m <= n
<1> DEFINE less == {ss \in Nat \X Nat : ss[1] < ss[2]}
<1>1. IsWellFoundedOn(less, Nat)
  BY NatLessThanWellFounded DEF OpToRel
<1>2. \A m, n \in Nat : <<n, m>> \in less <=> n < m
  OBVIOUS
<1> HIDE DEF less
<1>3. PICK m \in S : \A n \in S : <<n, m>> \notin less
  BY <1>1, WFMin
<1>4. \A n \in S : m <= n
  <2> TAKE n \in S
  <2>1. n \in Nat /\ m \in Nat /\ ~(n < m)
    BY <1>2, <1>3
  <2> QED BY <2>1
<1> QED BY <1>4

LEMMA DivMod ==
  ASSUME NEW d \in Nat \ {0}, NEW n \in Nat
  PROVE  n \div d \in Nat /\ n % d \in 0..d - 1 /\ n = d * (n \div d) + (n % d)
<1>1. d \in Nat /\ d > 0
  OBVIOUS
<1>2. n \div d \in Nat
  BY <1>1
<1>3. n % d \in 0..d - 1
  BY <1>1
<1>4. n = d * (n \div d) + (n % d)
  BY <1>1
<1> QED BY <1>2, <1>3, <1>4

(* No multiple of d is between 0 and d. *)
LEMMA NoMultiple ==
  ASSUME NEW d \in Nat \ {0}, NEW x \in Int, -d < d * x, d * x < d
  PROVE  x = 0
<1>1. CASE x >= 1
  <2>1. d * x >= d * 1
    BY <1>1
  <2> QED BY <2>1
<1>2. CASE x <= -1
  <2>1. d * x <= d * (-1)
    BY <1>2
  <2> QED BY <2>1
<1> QED BY <1>1, <1>2

(* The remainder is all that a multiple of d leaves. *)
LEMMA ModSame ==
  ASSUME NEW d \in Nat \ {0}, NEW k \in Nat, NEW a \in Nat, NEW b \in Nat, a = b + d * k
  PROVE  a % d = b % d
<1> DEFINE qa == a \div d
           qb == b \div d
           ra == a % d
           rb == b % d
<1>1. /\ qa \in Nat /\ ra \in 0..d - 1 /\ a = d * qa + ra
      /\ qb \in Nat /\ rb \in 0..d - 1 /\ b = d * qb + rb
  BY DivMod
<1> HIDE DEF qa, qb, ra, rb
<1>2. d * qa + ra = d * qb + rb + d * k
  BY <1>1
<1>3. ra - rb = d * (qb + k - qa)
  <2>1. d * (qb + k - qa) = d * qb + d * k - d * qa
    BY <1>1
  <2>2. d * qa \in Int /\ d * qb \in Int /\ d * k \in Int /\ ra \in Int /\ rb \in Int
    BY <1>1
  <2> DEFINE x == d * qa
             y == d * qb
             z == d * k
  <2> HIDE DEF x, y, z
  <2>3. ra - rb = y + z - x
    BY <1>2, <2>2 DEF x, y, z
  <2> QED BY <2>1, <2>3 DEF x, y, z
<1>4. qb + k - qa \in Int /\ -d < ra - rb /\ ra - rb < d
  BY <1>1
<1>5. qb + k - qa = 0
  BY <1>3, <1>4, NoMultiple
<1>6. ra = rb
  <2>1. ra - rb = d * 0
    BY <1>3, <1>5
  <2> QED BY <1>1, <2>1
<1> QED BY <1>6 DEF ra, rb

LEMMA ModSmall ==
  ASSUME NEW d \in Nat \ {0}, NEW a \in 0..d - 1
  PROVE  a % d = a
OBVIOUS

(* What folding leaves: the residue, but zero of zero only. *)
Residue(n) == IF n = 0 THEN 0 ELSE 1 + ((n - 1) % (Word - 1))

LEMMA ResidueSteps ==
  ASSUME Word \in Nat \ {0, 1}, NEW n \in Nat
  PROVE  /\ n < Word => Residue(n) = n
         /\ n >= Word => /\ (n % Word) + (n \div Word) \in 1..n - 1
                         /\ Residue(n) = Residue((n % Word) + (n \div Word))
<1> DEFINE d == Word - 1
<1>1. d \in Nat \ {0} /\ Word = d + 1
  OBVIOUS
<1>R. Residue(0) = 0 /\ \A m \in Nat : m # 0 => Residue(m) = 1 + ((m - 1) % d)
  BY Zenon DEF Residue
<1> HIDE DEF d
<1>2. ASSUME n < Word PROVE Residue(n) = n
  <2>1. CASE n = 0
    BY <1>R, <2>1
  <2>2. CASE n # 0
    <3>1. n - 1 \in 0..d - 1
      BY <1>1, <1>2, <2>2
    <3>2. (n - 1) % d = n - 1
      BY <1>1, <3>1, ModSmall
    <3> QED BY <1>1, <1>R, <2>2, <3>2
  <2> QED BY <2>1, <2>2
<1>3. ASSUME n >= Word
      PROVE  /\ (n % Word) + (n \div Word) \in 1..n - 1
             /\ Residue(n) = Residue((n % Word) + (n \div Word))
  <2> DEFINE q == n \div Word
             r == n % Word
             m == r + q
  <2>1. q \in Nat /\ r \in 0..Word - 1 /\ n = Word * q + r
    BY DivMod
  <2> HIDE DEF q, r
  <2>2. q >= 1
    <3> SUFFICES ASSUME q = 0 PROVE FALSE
      BY <2>1
    <3>1. n = Word * 0 + r
      BY <2>1
    <3> QED BY <1>3, <2>1, <3>1
  <2>3. Word * q = d * q + q /\ d * q \in Nat /\ d * q >= 1
    <3>1. Word = d + 1
      BY <1>1
    <3>2. (d + 1) * q = d * q + q
      BY <1>1, <2>1
    <3>3. d * q \in Nat /\ d * q >= 1
      BY <1>1, <2>1, <2>2
    <3> QED BY <3>1, <3>2, <3>3
  <2>4. m \in 1..n - 1 /\ n - 1 = (m - 1) + d * q
    <3> DEFINE y == d * q
               x == Word * q
    <3>1. x = y + q /\ y \in Nat /\ y >= 1 /\ n = x + r
      BY <2>1, <2>3
    <3> HIDE DEF x, y
    <3>2. m \in 1..n - 1 /\ n - 1 = (m - 1) + y
      BY <2>1, <2>2, <3>1
    <3> QED BY <3>2 DEF y
  <2> HIDE DEF m
  <2>5. (n - 1) % d = (m - 1) % d
    <3>1. n - 1 \in Nat /\ m - 1 \in Nat /\ q \in Nat /\ d \in Nat \ {0}
      BY <1>1, <2>1, <2>4
    <3> QED BY <2>4, <3>1, ModSame
  <2>6. m # 0 /\ n # 0
    BY <2>4
  <2>7. Residue(n) = Residue(m)
    <3> m \in Nat
      BY <2>4
    <3> QED BY <1>1, <1>R, <2>5, <2>6
  <2> QED BY <2>4, <2>7 DEF m, q, r
<1> QED BY <1>2, <1>3

(* Folding the carries back gives the residue. *)
LEMMA FoldedOK ==
  ASSUME Word \in Nat \ {0, 1}, NEW n \in Nat
  PROVE  Folded[n] = Residue(n)
<1> DEFINE whole(f) == [sum \in Nat |->
             IF sum < Word THEN sum ELSE f[(sum % Word) + (sum \div Word)]]
           wrong == {m \in Nat : Folded[m] # Residue(m)}
<1>1. \E f : f = whole(f)
  <2> DEFINE f == [m \in Nat |-> Residue(m)]
  <2>1. \A m \in Nat : f[m] = IF m < Word THEN m ELSE f[(m % Word) + (m \div Word)]
    <3> TAKE m \in Nat
    <3>1. CASE m < Word
      BY <3>1, ResidueSteps
    <3>2. CASE ~(m < Word)
      <4>1. m >= Word
        BY <3>2
      <4>2. /\ (m % Word) + (m \div Word) \in 1..m - 1
            /\ Residue(m) = Residue((m % Word) + (m \div Word))
        BY <4>1, ResidueSteps
      <4>3. (m % Word) + (m \div Word) \in Nat
        BY <4>2
      <4> QED BY <3>2, <4>2, <4>3
    <3> QED BY <3>1, <3>2
  <2>2. f = whole(f)
    <3>1. f = [m \in Nat |-> f[m]]
      OBVIOUS
    <3> HIDE DEF f
    <3> QED BY <2>1, <3>1
  <2> QED BY <2>2
<1>2. Folded = whole(Folded)
  <2>1. Folded = CHOOSE f : f = whole(f)
    BY DEF Folded
  <2> HIDE DEF whole
  <2> QED BY <1>1, <2>1
<1>3. wrong = {}
  <2> SUFFICES ASSUME wrong # {} PROVE FALSE
    OBVIOUS
  <2>1. PICK m \in wrong : \A k \in wrong : m <= k
    <3>1. wrong \subseteq Nat
      OBVIOUS
    <3> HIDE DEF wrong
    <3> QED BY <3>1, LeastOf
  <2>2. m \in Nat /\ Folded[m] = IF m < Word THEN m ELSE Folded[(m % Word) + (m \div Word)]
    BY <1>2
  <2>3. CASE m < Word
    BY <2>1, <2>2, <2>3, ResidueSteps
  <2>4. CASE ~(m < Word)
    <3> DEFINE k == (m % Word) + (m \div Word)
    <3>1. k \in 1..m - 1 /\ Residue(m) = Residue(k)
      BY <2>2, <2>4, ResidueSteps
    <3> HIDE DEF k
    <3>2. k \in Nat /\ ~(m <= k)
      BY <2>2, <3>1
    <3>3. Folded[k] = Residue(k)
      BY <2>1, <3>2
    <3> QED BY <2>1, <2>2, <2>4, <3>1, <3>3 DEF k
  <2> QED BY <2>3, <2>4
<1> QED BY <1>3

(* A receiver that adds a finished checksum to what it is of finds all ones. *)
LEMMA FinishedOK ==
  ASSUME Word \in Nat \ {0, 1}, NEW sum \in Nat
  PROVE  Finished(sum) \in Nat /\ Folded[sum + Finished(sum)] = Word - 1
<1> DEFINE d == Word - 1
           r == (sum - 1) % d
           q == (sum - 1) \div d
           n == sum + Finished(sum)
<1>1. d \in Nat \ {0} /\ Folded[sum] = Residue(sum)
  BY FoldedOK
<1>2. /\ Residue(sum) = IF sum = 0 THEN 0 ELSE 1 + r
      /\ Finished(sum) = IF d - Residue(sum) = 0 THEN d ELSE d - Residue(sum)
  <2>1. Word - 1 - Folded[sum] = d - Residue(sum)
    BY <1>1
  <2>2. Finished(sum) = IF Word - 1 - Folded[sum] = 0 THEN Word - 1 ELSE Word - 1 - Folded[sum]
    BY Zenon DEF Finished
  <2>3. Residue(sum) = IF sum = 0 THEN 0 ELSE 1 + r
    BY SMT DEF Residue
  <2> QED BY <2>1, <2>2, <2>3
<1>3. sum # 0 => r \in 0..d - 1 /\ q \in Nat /\ sum - 1 = d * q + r
  <2> SUFFICES ASSUME sum # 0 PROVE r \in 0..d - 1 /\ q \in Nat /\ sum - 1 = d * q + r
    OBVIOUS
  <2>1. sum - 1 \in Nat
    OBVIOUS
  <2> HIDE DEF d
  <2> QED BY <1>1, <2>1, DivMod
<1>4. Word - 1 = d
  OBVIOUS
<1>R. Residue(0) = 0 /\ \A m \in Nat : m # 0 => Residue(m) = 1 + ((m - 1) % d)
  BY Zenon DEF Residue
<1> HIDE DEF d, r, q
<1>5. Finished(sum) \in Nat /\ n \in Nat /\ n # 0 /\ (n - 1) % d = d - 1
  <2>1. CASE sum = 0
    <3>1. Finished(sum) = d /\ n = d
      BY <1>1, <1>2, <2>1
    <3>2. d - 1 \in 0..d - 1
      BY <1>1
    <3>3. (d - 1) % d = d - 1
      BY <1>1, <3>2, ModSmall
    <3> HIDE DEF n
    <3> QED BY <1>1, <3>1, <3>3
  <2>2. CASE sum # 0 /\ r = d - 1
    <3>1. Finished(sum) = d
      BY <1>1, <1>2, <2>2
    <3>2. n - 1 = (sum - 1) + d * 1 /\ n - 1 \in Nat /\ sum - 1 \in Nat
      BY <1>1, <2>2, <3>1
    <3>3. (n - 1) % d = (sum - 1) % d
      <4> DEFINE a == n - 1
                 b == sum - 1
      <4>1. a \in Nat /\ b \in Nat /\ a = b + d * 1 /\ 1 \in Nat
        BY <3>2
      <4> HIDE DEF a, b, n
      <4>2. a % d = b % d
        <5>1. d \in Nat \ {0}
          BY <1>1
        <5> QED BY <4>1, <5>1, ModSame
      <4> QED BY <4>2 DEF a, b
    <3>4. n \in Nat /\ n # 0
      BY <1>1, <3>1
    <3> HIDE DEF n
    <3> QED BY <1>1, <2>2, <3>1, <3>3, <3>4 DEF r
  <2>3. CASE sum # 0 /\ r # d - 1
    <3>1. Finished(sum) = d - 1 - r /\ d - 1 - r \in Nat
      <4>1. Residue(sum) = 1 + r /\ r \in 0..d - 1 /\ d \in Nat \ {0}
        BY <1>1, <1>2, <1>3, <2>3
      <4>2. d - Residue(sum) = d - 1 - r /\ d - 1 - r # 0 /\ d - 1 - r \in Nat
        BY <2>3, <4>1
      <4> QED BY <1>2, <4>2
    <3>2. n - 1 = (d - 1) + d * q /\ d * q \in Nat
      <4> DEFINE x == d * q
      <4>1. x \in Nat /\ sum - 1 = x + r
        BY <1>1, <1>3, <2>3
      <4> HIDE DEF x
      <4>2. n - 1 = (d - 1) + x
        <5>1. r \in Int /\ d \in Int /\ n = sum + Finished(sum)
          BY <1>1, <1>3, <2>3
        <5> HIDE DEF n
        <5> QED BY <3>1, <4>1, <5>1
      <4> QED BY <4>1, <4>2 DEF x
    <3>3. n - 1 \in Nat /\ d - 1 \in Nat /\ d - 1 \in 0..d - 1 /\ n \in Nat /\ n # 0
      BY <1>1, <2>3, <3>1
    <3>4. (n - 1) % d = (d - 1) % d
      <4>1. n - 1 \in Nat /\ d - 1 \in Nat /\ q \in Nat /\ d \in Nat \ {0}
        BY <1>1, <1>3, <2>3, <3>3
      <4> DEFINE a == n - 1
                 b == d - 1
      <4>2. a \in Nat /\ b \in Nat /\ a = b + d * q
        BY <3>2, <4>1
      <4> HIDE DEF a, b, n
      <4>3. a % d = b % d
        <5>1. d \in Nat \ {0} /\ q \in Nat
          BY <4>1
        <5> QED BY <4>2, <5>1, ModSame
      <4> QED BY <4>3 DEF a, b
    <3>5. (d - 1) % d = d - 1
      BY <1>1, <3>3, ModSmall
    <3> HIDE DEF n
    <3> QED BY <3>1, <3>3, <3>4, <3>5
  <2> QED BY <2>1, <2>2, <2>3
<1>6. Folded[n] = Residue(n)
  <2> HIDE DEF n
  <2> QED BY <1>5, FoldedOK
<1>7. Residue(n) = 1 + (d - 1)
  <2> HIDE DEF n
  <2> QED BY <1>1, <1>5, <1>R
<1> QED BY <1>1, <1>4, <1>5, <1>6, <1>7

(* What holds before a loop and is kept by its rounds holds after each. *)
LEMMA Inductive ==
  ASSUME NEW L \in Nat, NEW S, 0 \in S, \A n \in 1..L : n - 1 \in S => n \in S
  PROVE  \A n \in 0..L : n \in S
<1> DEFINE missing == {n \in 0..L : n \notin S}
<1> SUFFICES ASSUME missing # {} PROVE FALSE
  OBVIOUS
<1>1. missing \subseteq Nat
  OBVIOUS
<1>2. PICK m \in missing : \A n \in missing : m <= n
  <2> HIDE DEF missing
  <2> QED BY <1>1, LeastOf
<1>3. m \in 1..L /\ m - 1 \in 0..L /\ m \notin S
  BY <1>2
<1>4. m - 1 \in S
  BY <1>2, <1>3
<1> QED BY <1>3, <1>4

LEMMA TotalOK ==
  ASSUME NEW words \in Seq(Nat)
  PROVE  Total(words) \in Nat
<1> DEFINE L == Len(words)
           whole(f) == [i \in 0..Len(words) |-> IF i = 0 THEN 0 ELSE f[i - 1] + words[i]]
           upTo == CHOOSE f : f = whole(f)
           Begins(f, m) == f[0] = 0 /\ \A i \in 1..m : f[i] = f[i - 1] + words[i]
           S == {m \in Nat : \E f \in [0..m -> Nat] : Begins(f, m)}
<1>1. L \in Nat /\ \A i \in 1..L : words[i] \in Nat
  BY LenProperties, ElementOfSeq
<1>2. L \in S
  <2>1. 0 \in S
    <3>1. [i \in 0..0 |-> 0] \in [0..0 -> Nat] /\ Begins([i \in 0..0 |-> 0], 0)
      OBVIOUS
    <3> QED BY <3>1
  <2>2. ASSUME NEW m \in 1..L, m - 1 \in S PROVE m \in S
    <3>1. PICK f \in [0..m - 1 -> Nat] : Begins(f, m - 1)
      BY <2>2
    <3>2. m \in Nat \ {0} /\ words[m] \in Nat /\ f[m - 1] \in Nat
      BY <1>1
    <3> DEFINE g == [i \in 0..m |-> IF i = m THEN f[m - 1] + words[m] ELSE f[i]]
    <3> HIDE DEF L
    <3>3. /\ \A i \in 0..m : i # m => i \in 0..m - 1
          /\ \A i \in 1..m : i # m =>
               i \in 1..m - 1 /\ i - 1 # m /\ i - 1 \in 0..m - 1 /\ i - 1 \in 0..m
          /\ m \in 0..m /\ 0 \in 0..m /\ 0 # m /\ m - 1 \in 0..m /\ m - 1 # m
      BY <3>2
    <3>4. g \in [0..m -> Nat] /\ g[m] = f[m - 1] + words[m] /\ \A i \in 0..m : i # m => g[i] = f[i]
      BY <3>2, <3>3
    <3> HIDE DEF g
    <3>5. Begins(g, m)
      <4>1. g[0] = 0
        BY <3>1, <3>3, <3>4
      <4>2. ASSUME NEW i \in 1..m PROVE g[i] = g[i - 1] + words[i]
        <5>1. CASE i = m
          BY <3>3, <3>4, <5>1
        <5>2. CASE i # m
          <6>1. i \in 0..m /\ i \in 1..m - 1
            BY <3>2, <3>3, <5>2
          <6>2. g[i] = f[i] /\ g[i - 1] = f[i - 1]
            BY <3>3, <3>4, <5>2, <6>1
          <6> QED BY <3>1, <6>1, <6>2
        <5> QED BY <5>1, <5>2
      <4> QED BY <4>1, <4>2
    <3> HIDE DEF Begins
    <3> QED BY <3>2, <3>4, <3>5
  <2> HIDE DEF S, L
  <2>3. \A n \in 0..L : n \in S
    BY <1>1, <2>1, <2>2, Inductive
  <2> QED BY <1>1, <2>3
<1>3. PICK f \in [0..L -> Nat] : Begins(f, L)
  BY <1>2
<1>4. f = whole(f)
  <2>1. \A i \in 0..L : f[i] = IF i = 0 THEN 0 ELSE f[i - 1] + words[i]
    <3>1. \A i \in 0..L : i # 0 => i \in 1..L
      BY <1>1
    <3> HIDE DEF L
    <3> QED BY <1>3, <3>1
  <2> QED BY <2>1
<1>5. upTo = whole(upTo)
  <2> HIDE DEF whole
  <2> QED BY <1>4
<1>6. Total(words) = upTo[L]
  BY DEF Total
<1> HIDE DEF upTo
<1>7. L \in {i \in Nat : i \in 0..L => upTo[i] \in Nat}
  <2> DEFINE N == {i \in Nat : i \in 0..L => upTo[i] \in Nat}
  <2>1. 0 \in N
    BY <1>1, <1>5
  <2>2. ASSUME NEW i \in 1..L, i - 1 \in N PROVE i \in N
    <3>1. i - 1 \in 0..L /\ i \in 0..L /\ i # 0 /\ i \in Nat /\ words[i] \in Nat
      BY <1>1
    <3>2. upTo[i] = upTo[i - 1] + words[i]
      BY <1>5, <3>1
    <3>3. upTo[i - 1] \in Nat
      BY <2>2, <3>1
    <3> HIDE DEF L
    <3> QED BY <3>1, <3>2, <3>3
  <2> HIDE DEF N, L
  <2>3. \A n \in 0..L : n \in N
    BY <1>1, <2>1, <2>2, Inductive
  <2>4. L \in N
    BY <1>1, <2>3
  <2> QED BY <2>4 DEF N
<1> QED BY <1>1, <1>6, <1>7

-----------------------------------------------------------------------------
(* Packets: what a rewrite keeps.                                          *)

LEMMA WordsOK ==
  ASSUME NEW p \in Formats
  PROVE  /\ TransportSize(p) \in Nat /\ Stated(p) \in Nat
         /\ TransportWords(p) \in Seq(Nat) /\ IpWords(p) \in Seq(Nat)
<1>1. /\ p.options \in Nat /\ p.payload \in Seq(Nat) /\ p.chain \in Seq(STRING)
      /\ p.src \in Nat /\ p.dst \in Nat /\ p.sport \in Nat /\ p.dport \in Nat
      /\ p.seq \in Nat /\ p.ack \in Nat /\ p.length \in Nat
  BY DEF Formats
<1>2. Len(p.payload) \in Nat /\ Len(p.chain) \in Nat
  BY <1>1, LenProperties
<1>3. TransportSize(p) \in Nat
  BY <1>1, <1>2 DEF TransportSize
<1>4. Number(p) \in Nat
  BY DEF Number
<1>5. Bits(p.flags) \in Nat
  <2> DEFINE b1 == IF "fin" \in p.flags THEN 1 ELSE 0
             b2 == IF "syn" \in p.flags THEN 2 ELSE 0
             b4 == IF "rst" \in p.flags THEN 4 ELSE 0
             b16 == IF "ack" \in p.flags THEN 16 ELSE 0
  <2>1. b1 \in Nat /\ b2 \in Nat /\ b4 \in Nat /\ b16 \in Nat
    OBVIOUS
  <2>2. Bits(p.flags) = b1 + b2 + b4 + b16
    BY Zenon DEF Bits
  <2> HIDE DEF b1, b2, b4, b16
  <2> QED BY <2>1, <2>2
<1>6. Stated(p) \in Nat
  BY <1>2, <1>3 DEF Stated
<1>7. TransportWords(p) \in Seq(Nat)
  <2> DEFINE a == <<p.src, p.dst, TransportSize(p), Number(p), p.sport, p.dport>>
             b == IF p.proto = "tcp" THEN <<p.seq, p.ack, Bits(p.flags)>> ELSE <<TransportSize(p)>>
  <2>1. a \in Seq(Nat)
    BY <1>1, <1>3, <1>4
  <2>2. b \in Seq(Nat)
    BY <1>1, <1>3, <1>5
  <2>3. TransportWords(p) = a \o b \o p.payload
    BY Zenon DEF TransportWords
  <2> HIDE DEF a, b
  <2>4. a \o b \in Seq(Nat)
    BY <2>1, <2>2, ConcatProperties
  <2> QED BY <1>1, <2>3, <2>4, ConcatProperties
<1>8. IpWords(p) \in Seq(Nat)
  BY <1>1, <1>4 DEF IpWords
<1> QED BY <1>3, <1>6, <1>7, <1>8

(* What the fields of a packet that its words are made of determine. *)
LEMMA SameWords ==
  ASSUME NEW p, NEW q,
         q.v6 = p.v6, q.chain = p.chain, q.proto = p.proto, q.src = p.src, q.dst = p.dst,
         q.sport = p.sport, q.dport = p.dport, q.flags = p.flags, q.seq = p.seq, q.ack = p.ack,
         q.options = p.options, q.payload = p.payload, q.length = p.length
  PROVE  /\ TransportWords(q) = TransportWords(p) /\ IpWords(q) = IpWords(p)
         /\ Stated(q) = Stated(p)
<1>1. TransportSize(q) = TransportSize(p) /\ Number(q) = Number(p)
  BY Zenon DEF TransportSize, Number
<1> QED BY Zenon, <1>1 DEF TransportWords, IpWords, Stated

(* Checksums change nothing else, and a receiver accepts them. *)
LEMMA SummedOK ==
  ASSUME Word \in Nat \ {0, 1}, NEW p \in Formats
  PROVE  /\ Summed(p) \in Formats
         /\ \A q : q = Summed(p) =>
              /\ q.v6 = p.v6 /\ q.chain = p.chain /\ q.proto = p.proto /\ q.fragment = p.fragment
              /\ q.src = p.src /\ q.dst = p.dst /\ q.sport = p.sport /\ q.dport = p.dport
              /\ q.flags = p.flags /\ q.seq = p.seq /\ q.ack = p.ack
              /\ q.options = p.options /\ q.payload = p.payload /\ q.length = p.length
         /\ p.length = Stated(p) => Intact(Summed(p))
<1> DEFINE s == Finished(Total(TransportWords(p)))
           t == Finished(Total(IpWords(p)))
           u == IF p.v6 THEN 0 ELSE t
           q == Summed(p)
<1>1. Total(TransportWords(p)) \in Nat /\ Total(IpWords(p)) \in Nat
  BY WordsOK, TotalOK
<1>2. s \in Nat /\ Folded[Total(TransportWords(p)) + s] = Word - 1
  BY <1>1, FinishedOK
<1>3. t \in Nat /\ Folded[Total(IpWords(p)) + t] = Word - 1
  BY <1>1, FinishedOK
<1>4. q = [p EXCEPT !.sum = s, !.ipsum = u]
  BY Zenon DEF Summed
<1> HIDE DEF s, t, q
<1>5. u \in Nat
  BY <1>3
<1> HIDE DEF u
<1>6. /\ q \in Formats /\ q.sum = s /\ q.ipsum = u
      /\ q.v6 = p.v6 /\ q.chain = p.chain /\ q.proto = p.proto /\ q.fragment = p.fragment
      /\ q.src = p.src /\ q.dst = p.dst /\ q.sport = p.sport /\ q.dport = p.dport
      /\ q.flags = p.flags /\ q.seq = p.seq /\ q.ack = p.ack
      /\ q.options = p.options /\ q.payload = p.payload /\ q.length = p.length
  BY <1>2, <1>4, <1>5 DEF Formats
<1>7. /\ TransportWords(q) = TransportWords(p) /\ IpWords(q) = IpWords(p)
      /\ Stated(q) = Stated(p)
  BY <1>6, SameWords
<1>8. p.length = Stated(p) => Intact(q)
  <2>1. Folded[Total(TransportWords(q)) + q.sum] = Word - 1
    BY <1>2, <1>6, <1>7
  <2>2. q.v6 \/ Folded[Total(IpWords(q)) + q.ipsum] = Word - 1
    BY <1>3, <1>6, <1>7 DEF u
  <2>3. p.length = Stated(p) => q.length = Stated(q)
    BY <1>6, <1>7
  <2> QED BY Zenon, <2>1, <2>2, <2>3 DEF Intact
<1> QED BY Zenon, <1>6, <1>8 DEF q

(* What of a packet its size depends on. *)
LEMMA SameSize ==
  ASSUME NEW p, NEW q,
         q.v6 = p.v6, q.chain = p.chain, q.proto = p.proto, q.options = p.options,
         q.payload = p.payload
  PROVE  Stated(q) = Stated(p)
<1>1. TransportSize(q) = TransportSize(p)
  BY Zenon DEF TransportSize
<1> QED BY Zenon, <1>1 DEF Stated

(* A packet that states its size, rewritten towards the proxy or the client. *)
LEMMA ReflectedOK ==
  ASSUME Word \in Nat \ {0, 1}, NEW p \in Formats, p.length = Stated(p),
         NEW proxyPort \in Nat, NEW dnsPort \in Nat, NEW toward \in BOOLEAN
  PROVE  /\ Reflected(p, proxyPort, toward, dnsPort) \in Formats
         /\ Intact(Reflected(p, proxyPort, toward, dnsPort))
         /\ \A q : q = Reflected(p, proxyPort, toward, dnsPort) =>
              /\ q.src = p.dst /\ q.dst = p.src
              /\ q.sport = (IF toward THEN p.sport ELSE dnsPort)
              /\ q.dport = (IF toward THEN proxyPort ELSE p.dport)
              /\ q.seq = p.seq /\ q.ack = p.ack /\ q.flags = p.flags
<1> DEFINE m == Turned(p)
           n == IF toward THEN [m EXCEPT !.dport = proxyPort] ELSE [m EXCEPT !.sport = dnsPort]
<1>1. Reflected(p, proxyPort, toward, dnsPort) = Summed(n)
  BY Zenon DEF Reflected
<1>2. /\ m \in Formats /\ m.src = p.dst /\ m.dst = p.src /\ m.sport = p.sport /\ m.dport = p.dport
      /\ m.v6 = p.v6 /\ m.chain = p.chain /\ m.proto = p.proto /\ m.options = p.options
      /\ m.payload = p.payload /\ m.length = p.length
      /\ m.seq = p.seq /\ m.ack = p.ack /\ m.flags = p.flags
  BY DEF Formats, Turned
<1> HIDE DEF m
<1>3. /\ n \in Formats
      /\ n.src = m.src /\ n.dst = m.dst
      /\ n.sport = (IF toward THEN m.sport ELSE dnsPort)
      /\ n.dport = (IF toward THEN proxyPort ELSE m.dport)
      /\ n.v6 = m.v6 /\ n.chain = m.chain /\ n.proto = m.proto /\ n.options = m.options
      /\ n.payload = m.payload /\ n.length = m.length
      /\ n.seq = m.seq /\ n.ack = m.ack /\ n.flags = m.flags
  <2>1. CASE toward
    <3>1. n = [m EXCEPT !.dport = proxyPort]
      BY <2>1
    <3> HIDE DEF n
    <3> QED BY <1>2, <2>1, <3>1 DEF Formats
  <2>2. CASE ~toward
    <3>1. n = [m EXCEPT !.sport = dnsPort]
      BY <2>2
    <3> HIDE DEF n
    <3> QED BY <1>2, <2>2, <3>1 DEF Formats
  <2> QED BY <2>1, <2>2
<1> HIDE DEF n
<1>4. Stated(n) = Stated(p)
  BY <1>2, <1>3, SameSize
<1>5. n \in Formats /\ n.length = Stated(n)
  BY <1>2, <1>3, <1>4
<1>6. Summed(n) \in Formats /\ Intact(Summed(n))
  BY <1>5, SummedOK
<1>7. \A q : q = Summed(n) =>
              /\ q.src = n.src /\ q.dst = n.dst /\ q.sport = n.sport /\ q.dport = n.dport
              /\ q.flags = n.flags /\ q.seq = n.seq /\ q.ack = n.ack
  BY <1>5, SummedOK
<1> QED BY <1>1, <1>2, <1>3, <1>6, <1>7

(* The number after a segment, for the stack of the client and the proxy's reset. *)
LEMMA ExtentOK ==
  ASSUME Word \in Nat \ {0, 1}, original \in Formats
  PROVE  ClientNumber = Acknowledgement(original) /\ Acknowledgement(original) \in Nat
<1> DEFINE octets == original.payload
           flags == original.flags
           counted == IF "syn" \in flags THEN <<0>> \o octets ELSE octets
           all == IF "fin" \in flags THEN counted \o <<0>> ELSE counted
           marks == flags \cap {"syn", "fin"}
<1>1. octets \in Seq(Nat) /\ flags \subseteq {"syn", "fin", "rst", "ack"} /\ original.seq \in Nat
  BY DEF Formats
<1>2. Len(octets) \in Nat
  BY <1>1, LenProperties
<1>3. ClientNumber = (original.seq + Len(all)) % Word
  BY Zenon DEF ClientNumber
<1>4. Acknowledgement(original) = (original.seq + Extent(original)) % Word
      /\ Extent(original) = Len(octets) + Cardinality(marks)
  BY Zenon DEF Acknowledgement, Extent
<1> HIDE DEF octets, flags
<1>5. <<0>> \in Seq(Nat) /\ Len(<<0>>) = 1
  OBVIOUS
<1>6. counted \in Seq(Nat) /\ Len(counted) = Len(octets) + IF "syn" \in flags THEN 1 ELSE 0
  <2>1. <<0>> \o octets \in Seq(Nat) /\ Len(<<0>> \o octets) = 1 + Len(octets)
    BY <1>1, <1>5, ConcatProperties
  <2> QED BY <1>1, <1>2, <2>1
<1> HIDE DEF counted
<1>7. Len(all) = Len(counted) + IF "fin" \in flags THEN 1 ELSE 0
  <2>1. Len(counted \o <<0>>) = Len(counted) + 1
    BY <1>5, <1>6, ConcatProperties
  <2>2. Len(counted) \in Nat
    BY <1>6, LenProperties
  <2> QED BY <2>1, <2>2
<1> HIDE DEF all
<1>8. Cardinality(marks) = (IF "syn" \in flags THEN 1 ELSE 0) + (IF "fin" \in flags THEN 1 ELSE 0)
  <2> DEFINE some == IF "syn" \in flags THEN {"syn"} ELSE {}
  <2>1. IsFiniteSet({}) /\ Cardinality({}) = 0
    BY FS_EmptySet
  <2>2. IsFiniteSet(some) /\ Cardinality(some) = IF "syn" \in flags THEN 1 ELSE 0
    <3>1. IsFiniteSet({"syn"}) /\ Cardinality({"syn"}) = 1
      BY FS_Singleton
    <3> QED BY <2>1, <3>1
  <2>3. marks = (IF "fin" \in flags THEN some \cup {"fin"} ELSE some)
    OBVIOUS
  <2>4. "fin" \notin some
    OBVIOUS
  <2> HIDE DEF marks, some
  <2>5. Cardinality(some \cup {"fin"}) = Cardinality(some) + 1
    BY <2>2, <2>4, FS_AddElement
  <2> QED BY <2>2, <2>3, <2>5
<1> HIDE DEF marks
<1>9. Len(all) = Extent(original) /\ Len(all) \in Nat
  <2> DEFINE one == IF "syn" \in flags THEN 1 ELSE 0
             other == IF "fin" \in flags THEN 1 ELSE 0
             a == Len(octets)
             b == Len(counted)
             c == Len(all)
             d == Cardinality(marks)
             e == Extent(original)
  <2>1. /\ one \in Nat /\ other \in Nat /\ a \in Nat
        /\ b = a + one /\ c = b + other /\ d = one + other /\ e = a + d
    BY <1>2, <1>4, <1>6, <1>7, <1>8
  <2> HIDE DEF one, other, a, b, c, d, e
  <2>2. c = e /\ c \in Nat
    BY <2>1
  <2> QED BY <2>2 DEF c, e
<1>10. (original.seq + Len(all)) % Word \in Nat
  BY <1>1, <1>9, DivMod
<1> QED BY <1>3, <1>4, <1>9, <1>10

(* A reset is acceptable to the sender of the segment it answers. *)
LEMMA ResetOK ==
  ASSUME Word \in Nat \ {0, 1}, DnsPort \in Nat, NEW p \in Formats, Acknowledgement(p) \in Nat,
         p.dport = DnsPort
  PROVE  /\ Reset(p) \in Formats /\ Intact(Reset(p))
         /\ \A q : q = Reset(p) =>
              /\ q.src = p.dst /\ q.sport = p.dport /\ q.dst = p.src /\ q.dport = p.sport
              /\ IF "ack" \in p.flags THEN q.seq = p.ack
                 ELSE "ack" \in q.flags /\ q.ack = Acknowledgement(p)
<1> DEFINE acked == "ack" \in p.flags
           number == IF acked THEN p.ack ELSE 0
           ack == IF acked THEN 0 ELSE Acknowledgement(p)
           flags == IF acked THEN {"rst"} ELSE {"rst", "ack"}
           bare == [p EXCEPT !.options = 0, !.payload = <<>>, !.sport = p.dport, !.dport = p.sport,
                      !.seq = number, !.ack = ack, !.flags = flags]
           sized == [bare EXCEPT !.length = Stated(bare)]
<1>1. Reset(p) = Reflected(sized, DnsPort, FALSE, DnsPort)
  BY Zenon DEF Reset
<1>2. number \in Nat /\ ack \in Nat /\ flags \in SUBSET {"syn", "fin", "rst", "ack"}
  BY DEF Formats
<1>3. /\ acked => number = p.ack
      /\ ~acked => ack = Acknowledgement(p) /\ "ack" \in flags
  OBVIOUS
<1> HIDE DEF acked, number, ack, flags
<1>4. <<>> \in Seq(Nat)
  BY EmptySeq
<1>5. bare \in Formats
  BY <1>2, <1>4 DEF Formats
<1>6. /\ bare.src = p.src /\ bare.dst = p.dst /\ bare.sport = p.dport /\ bare.dport = p.sport
      /\ bare.seq = number /\ bare.ack = ack /\ bare.flags = flags
  BY DEF Formats
<1> HIDE DEF bare
<1>7. Stated(bare) \in Nat
  BY <1>5, WordsOK
<1>8. /\ sized \in Formats /\ sized.length = Stated(bare)
      /\ sized.v6 = bare.v6 /\ sized.chain = bare.chain /\ sized.proto = bare.proto
      /\ sized.options = bare.options /\ sized.payload = bare.payload
      /\ sized.src = bare.src /\ sized.dst = bare.dst
      /\ sized.sport = bare.sport /\ sized.dport = bare.dport
      /\ sized.seq = bare.seq /\ sized.ack = bare.ack /\ sized.flags = bare.flags
  BY <1>5, <1>7 DEF Formats
<1> HIDE DEF sized
<1>9. sized.length = Stated(sized)
  BY <1>8, SameSize
<1>10. /\ Reset(p) \in Formats /\ Intact(Reset(p))
       /\ \A q : q = Reset(p) =>
              /\ q.src = sized.dst /\ q.dst = sized.src /\ q.sport = DnsPort /\ q.dport = sized.dport
              /\ q.seq = sized.seq /\ q.ack = sized.ack /\ q.flags = sized.flags
  <2> DEFINE toward == FALSE
  <2>1. toward \in BOOLEAN /\ ~toward /\ Reset(p) = Reflected(sized, DnsPort, toward, DnsPort)
    BY <1>1
  <2> HIDE DEF toward
  <2>2. /\ Reset(p) \in Formats /\ Intact(Reset(p))
        /\ \A q : q = Reset(p) =>
              /\ q.src = sized.dst /\ q.dst = sized.src
              /\ q.sport = (IF toward THEN sized.sport ELSE DnsPort)
              /\ q.dport = (IF toward THEN DnsPort ELSE sized.dport)
              /\ q.seq = sized.seq /\ q.ack = sized.ack /\ q.flags = sized.flags
    BY <1>8, <1>9, <2>1, ReflectedOK
  <2> QED BY <2>1, <2>2
<1> QED BY <1>3, <1>6, <1>8, <1>10 DEF acked

(* A response and an answer of the proxy, which are made alike. *)
LEMMA SizedOK ==
  ASSUME Word \in Nat \ {0, 1}, NEW answer \in Formats
  PROVE  LET sent == Summed([answer EXCEPT !.length = Stated(answer)])
         IN  /\ sent \in Formats /\ Intact(sent)
             /\ sent.src = answer.src /\ sent.dst = answer.dst
             /\ sent.sport = answer.sport /\ sent.dport = answer.dport /\ sent.ack = answer.ack
<1> DEFINE sized == [answer EXCEPT !.length = Stated(answer)]
           sent == Summed(sized)
<1>1. Stated(answer) \in Nat
  BY WordsOK
<1>2. /\ sized \in Formats /\ sized.length = Stated(answer)
      /\ sized.v6 = answer.v6 /\ sized.chain = answer.chain /\ sized.proto = answer.proto
      /\ sized.options = answer.options /\ sized.payload = answer.payload
      /\ sized.src = answer.src /\ sized.dst = answer.dst
      /\ sized.sport = answer.sport /\ sized.dport = answer.dport /\ sized.ack = answer.ack
  BY <1>1 DEF Formats
<1> HIDE DEF sized
<1>3. sized.length = Stated(sized)
  BY <1>2, SameSize
<1>4. sent \in Formats /\ Intact(sent)
  BY <1>2, <1>3, SummedOK
<1>5. /\ sent.src = sized.src /\ sent.dst = sized.dst /\ sent.sport = sized.sport
      /\ sent.dport = sized.dport /\ sent.ack = sized.ack
  <2> DEFINE q == sent
  <2>1. q = Summed(sized)
    OBVIOUS
  <2> HIDE DEF q
  <2>2. /\ q.src = sized.src /\ q.dst = sized.dst /\ q.sport = sized.sport
        /\ q.dport = sized.dport /\ q.ack = sized.ack
    BY <1>2, <2>1, SummedOK
  <2> QED BY <2>1, <2>2
<1> HIDE DEF sent
<1>6. /\ sent \in Formats /\ Intact(sent)
      /\ sent.src = answer.src /\ sent.dst = answer.dst
      /\ sent.sport = answer.sport /\ sent.dport = answer.dport /\ sent.ack = answer.ack
  BY <1>2, <1>4, <1>5
<1> QED BY <1>6 DEF sent, sized

LEMMA ResponseOK ==
  ASSUME Word \in Nat \ {0, 1}, NEW p \in Formats, NEW payload \in Seq(Nat)
  PROVE  /\ Response(p, payload) \in Formats /\ Intact(Response(p, payload))
         /\ \A q : q = Response(p, payload) =>
              q.src = p.dst /\ q.sport = p.dport /\ q.dst = p.src /\ q.dport = p.sport
<1> DEFINE m == Turned(p)
           answer == [m EXCEPT !.sport = p.dport, !.dport = p.sport, !.payload = payload]
<1>1. /\ m \in Formats /\ m.src = p.dst /\ m.dst = p.src /\ p.sport \in Nat /\ p.dport \in Nat
  BY DEF Formats, Turned
<1>2. Response(p, payload) = Summed([answer EXCEPT !.length = Stated(answer)])
  BY Zenon DEF Response
<1> HIDE DEF m
<1>3. /\ answer \in Formats /\ answer.src = p.dst /\ answer.dst = p.src
      /\ answer.sport = p.dport /\ answer.dport = p.sport
  BY <1>1 DEF Formats
<1> HIDE DEF answer
<1> QED BY <1>2, <1>3, SizedOK

-----------------------------------------------------------------------------
(* Packets: the way of one.                                                *)

LEMMA NumberKept ==
  ASSUME original' = original
  PROVE  ClientNumber' = ClientNumber /\ (original \in Formats)' = (original \in Formats)
<1>1. ClientNumber' = ClientNumber
  BY Zenon DEF ClientNumber
<1> QED BY <1>1

LEMMA PacketBegins ==
  ASSUME PacketConstants, PacketInit
  PROVE  PacketInv
<1>1. PICK p \in Captured : original = Summed(p)
  BY DEF PacketInit
<1>2. p \in Formats /\ Word \in Nat \ {0, 1}
  BY DEF PacketConstants
<1>3. original \in Formats
  BY <1>1, <1>2, SummedOK
<1>4. wire = original /\ stage = "captured"
  BY DEF PacketInit
<1> QED BY <1>3, <1>4 DEF PacketInv, PacketsSound

LEMMA PacketUnchanged ==
  ASSUME PacketConstants, PacketInv, Unchanged
  PROVE  PacketInv'
<1>1. stage' = "unchanged" /\ wire' = wire /\ original' = original
  BY DEF Unchanged, Becomes
<1>2. original \in Formats /\ wire \in Formats
  BY DEF PacketInv
<1> QED BY <1>1, <1>2 DEF PacketInv, PacketsSound

LEMMA PacketTowardProxy ==
  ASSUME PacketConstants, PacketInv, TowardProxy
  PROVE  PacketInv'
<1>1. /\ Word \in Nat \ {0, 1} /\ DnsPort \in Nat /\ ProxyPort \in Nat
      /\ original \in Formats /\ wire = original /\ wire.dport = DnsPort
      /\ wire.length = Stated(wire)
  BY DEF PacketConstants, PacketInv, TowardProxy, TcpView
<1> DEFINE toward == TRUE
<1>2. /\ wire' = Reflected(original, ProxyPort, toward, DnsPort) /\ stage' = "proxy"
      /\ original' = original /\ toward \in BOOLEAN /\ toward
  BY <1>1 DEF TowardProxy, Becomes
<1> HIDE DEF toward
<1>3. original.dport = DnsPort /\ original.length = Stated(original)
  BY <1>1
<1>4. /\ wire' \in Formats /\ Intact(wire')
      /\ wire'.src = original.dst /\ wire'.dst = original.src
      /\ wire'.sport = original.sport /\ wire'.dport = ProxyPort
  <2> Word \in Nat \ {0, 1} /\ DnsPort \in Nat /\ ProxyPort \in Nat /\ original \in Formats
    BY <1>1
  <2>1. /\ wire' \in Formats /\ Intact(wire')
        /\ wire'.src = original.dst /\ wire'.dst = original.src
        /\ wire'.sport = (IF toward THEN original.sport ELSE DnsPort)
        /\ wire'.dport = (IF toward THEN ProxyPort ELSE original.dport)
    <3>1. /\ Reflected(original, ProxyPort, toward, DnsPort) \in Formats
          /\ Intact(Reflected(original, ProxyPort, toward, DnsPort))
      BY Zenon, <1>2, <1>3, ReflectedOK
    <3>2. \A q : q = Reflected(original, ProxyPort, toward, DnsPort) =>
            /\ q.src = original.dst /\ q.dst = original.src
            /\ q.sport = (IF toward THEN original.sport ELSE DnsPort)
            /\ q.dport = (IF toward THEN ProxyPort ELSE original.dport)
            /\ q.seq = original.seq /\ q.ack = original.ack /\ q.flags = original.flags
      <4> \A t \in BOOLEAN : \A q : q = Reflected(original, ProxyPort, t, DnsPort) =>
            /\ q.src = original.dst /\ q.dst = original.src
            /\ q.sport = (IF t THEN original.sport ELSE DnsPort)
            /\ q.dport = (IF t THEN ProxyPort ELSE original.dport)
            /\ q.seq = original.seq /\ q.ack = original.ack /\ q.flags = original.flags
        BY <1>3, ReflectedOK
      <4> QED BY Zenon, <1>2
    <3> QED BY <1>2, <3>1, <3>2
  <2> QED BY <1>2, <1>3, <2>1
<1> QED BY <1>1, <1>2, <1>3, <1>4 DEF PacketInv, PacketsSound

LEMMA PacketAnswered ==
  ASSUME PacketConstants, PacketInv, ProxyAnswers
  PROVE  PacketInv'
<1>1. /\ Word \in Nat \ {0, 1} /\ Payloads \subseteq Seq(Nat)
      /\ original \in Formats /\ wire \in Formats /\ stage = "proxy"
      /\ original.dport = DnsPort /\ wire.src = original.dst /\ wire.dst = original.src
      /\ wire.sport = original.sport /\ wire.dport = ProxyPort
  BY DEF PacketConstants, PacketInv, ProxyAnswers
<1>2. ClientNumber \in Nat
  BY <1>1, ExtentOK
<1> DEFINE m == Turned(wire)
           answer(payload, flags) ==
             [m EXCEPT !.sport = wire.dport, !.dport = wire.sport, !.chain = <<>>, !.options = 0,
                !.payload = payload, !.flags = flags, !.ack = ClientNumber]
           sent(payload, flags) ==
             Summed([answer(payload, flags) EXCEPT !.length = Stated(answer(payload, flags))])
<1>3. PICK payload \in Payloads, flags \in {{"syn", "ack"}, {"ack"}, {"fin", "ack"}} :
        wire' = sent(payload, flags) /\ stage' = "answered" /\ original' = original
  BY Zenon DEF ProxyAnswers, Becomes
<1>4. /\ m \in Formats /\ m.src = wire.dst /\ m.dst = wire.src
      /\ wire.sport \in Nat /\ wire.dport \in Nat
  BY <1>1 DEF Formats, Turned
<1> HIDE DEF m
<1> DEFINE a == answer(payload, flags)
<1>5. payload \in Seq(Nat) /\ flags \in SUBSET {"syn", "fin", "rst", "ack"} /\ <<>> \in Seq(STRING)
  BY <1>1, EmptySeq
<1>6. /\ a \in Formats /\ a.src = m.src /\ a.dst = m.dst /\ a.sport = wire.dport
      /\ a.dport = wire.sport /\ a.ack = ClientNumber
  BY <1>2, <1>4, <1>5 DEF Formats
<1>7. wire' = Summed([a EXCEPT !.length = Stated(a)])
  BY <1>3
<1> HIDE DEF a
<1>8. /\ wire' \in Formats /\ wire'.src = a.src /\ wire'.dst = a.dst
      /\ wire'.sport = a.sport /\ wire'.dport = a.dport /\ wire'.ack = a.ack
  BY <1>1, <1>6, <1>7, SizedOK
<1>9. ClientNumber' = ClientNumber
  BY <1>3, NumberKept
<1>10. /\ wire'.src = original.src /\ wire'.dst = original.dst /\ wire'.sport = ProxyPort
       /\ wire'.dport = original.sport /\ wire'.ack = ClientNumber
  BY <1>1, <1>4, <1>6, <1>8
<1> HIDE DEF sent
<1>11. /\ original' = original /\ stage' = "answered" /\ original \in Formats /\ wire' \in Formats
       /\ original.dport = DnsPort
  BY <1>1, <1>3, <1>8
<1> QED BY <1>9, <1>10, <1>11 DEF PacketInv, PacketsSound

LEMMA PacketTowardClient ==
  ASSUME PacketConstants, PacketInv, TowardClient
  PROVE  PacketInv'
<1>1. /\ Word \in Nat \ {0, 1} /\ DnsPort \in Nat /\ ProxyPort \in Nat
      /\ original \in Formats /\ wire \in Formats /\ wire.length = Stated(wire)
      /\ original.dport = DnsPort /\ wire.src = original.src /\ wire.dst = original.dst
      /\ wire.sport = ProxyPort /\ wire.dport = original.sport /\ wire.ack = ClientNumber
  BY DEF PacketConstants, PacketInv, TowardClient, TcpView
<1> DEFINE toward == FALSE
<1>2. /\ wire' = Reflected(wire, ProxyPort, toward, DnsPort) /\ stage' = "client"
      /\ original' = original /\ toward \in BOOLEAN /\ ~toward
  BY DEF TowardClient, Becomes
<1> HIDE DEF toward
<1>3. /\ wire' \in Formats /\ Intact(wire')
      /\ wire'.src = wire.dst /\ wire'.dst = wire.src
      /\ wire'.sport = DnsPort /\ wire'.dport = wire.dport /\ wire'.ack = wire.ack
  BY <1>1, <1>2, ReflectedOK
<1>4. ClientNumber' = ClientNumber
  BY <1>2, NumberKept
<1> QED BY <1>1, <1>2, <1>3, <1>4 DEF PacketInv, PacketsSound, AnswersClient

LEMMA PacketReset ==
  ASSUME PacketConstants, PacketInv, ResetClient
  PROVE  PacketInv'
<1>1. /\ Word \in Nat \ {0, 1} /\ DnsPort \in Nat
      /\ original \in Formats /\ wire = original /\ wire.dport = DnsPort
  BY DEF PacketConstants, PacketInv, ResetClient
<1>2. CASE Becomes(wire, "silent")
  BY <1>1, <1>2 DEF Becomes, PacketInv, PacketsSound
<1>3. CASE Becomes(Reset(wire), "reset")
  <2>1. wire' = Reset(original) /\ stage' = "reset" /\ original' = original
    BY <1>1, <1>3 DEF Becomes
  <2>2. ClientNumber = Acknowledgement(original) /\ Acknowledgement(original) \in Nat
    BY <1>1, ExtentOK
  <2>3. wire' \in Formats /\ Intact(wire')
    BY <1>1, <2>1, <2>2, ResetOK
  <2>4. /\ wire'.src = original.dst /\ wire'.sport = original.dport
        /\ wire'.dst = original.src /\ wire'.dport = original.sport
        /\ "ack" \in original.flags => wire'.seq = original.ack
        /\ "ack" \notin original.flags =>
             "ack" \in wire'.flags /\ wire'.ack = Acknowledgement(original)
    BY <1>1, <2>1, <2>2, ResetOK
  <2>5. ClientNumber' = ClientNumber
    BY <2>1, NumberKept
  <2> QED BY <1>1, <2>1, <2>2, <2>3, <2>4, <2>5 DEF PacketInv, PacketsSound, AnswersClient
<1> QED BY <1>2, <1>3 DEF ResetClient

LEMMA PacketUdp ==
  ASSUME PacketConstants, PacketInv, AnswerUdp
  PROVE  PacketInv'
<1>1. Word \in Nat \ {0, 1} /\ original \in Formats /\ wire = original /\ Payloads \subseteq Seq(Nat)
  BY DEF PacketConstants, PacketInv, AnswerUdp
<1>2. PICK payload \in Payloads :
        wire' = Response(original, payload) /\ stage' = "response" /\ original' = original
  BY <1>1 DEF AnswerUdp, Becomes
<1>3. payload \in Seq(Nat)
  BY <1>1
<1>4. wire' \in Formats /\ Intact(wire')
  BY <1>1, <1>2, <1>3, ResponseOK
<1>5. /\ wire'.src = original.dst /\ wire'.sport = original.dport
      /\ wire'.dst = original.src /\ wire'.dport = original.sport
  BY <1>1, <1>2, <1>3, ResponseOK
<1> QED BY <1>1, <1>2, <1>4, <1>5 DEF PacketInv, PacketsSound, AnswersClient

LEMMA PacketKept ==
  ASSUME PacketConstants, PacketInv, [PacketNext]_packetVars
  PROVE  PacketInv'
<1>1. CASE PacketNext
  BY <1>1, PacketUnchanged, PacketTowardProxy, PacketAnswered, PacketTowardClient, PacketReset,
     PacketUdp DEF PacketNext
<1>2. CASE UNCHANGED packetVars
  <2>1. wire' = wire /\ stage' = stage /\ original' = original
    BY <1>2 DEF packetVars
  <2>2. ClientNumber' = ClientNumber
    BY <2>1, NumberKept
  <2> QED BY <2>1, <2>2 DEF PacketInv, PacketsSound, AnswersClient
<1> QED BY <1>1, <1>2

LEMMA PacketInvSound ==
  ASSUME PacketInv
  PROVE  PacketsSound
BY DEF PacketInv

-----------------------------------------------------------------------------
(* Patterns, which decide what the rules pass.                             *)

\* The values after each round of a loop
Loops(A, step, start, rounds) ==
  \E after \in [0..rounds -> A] :
    /\ after[0] = start
    /\ \A n \in 1..rounds : after[n] = step[n][after[n - 1]]

(* A loop whose rounds map A to A stays in A. *)
LEMMA Iterates ==
  ASSUME NEW A, NEW start \in A, NEW rounds \in Nat, NEW step \in [1..rounds -> [A -> A]]
  PROVE  Loops(A, step, start, rounds)
<1> DEFINE Follows(f, m) == \A n \in 0..m : f[n] = IF n = 0 THEN start ELSE step[n][f[n - 1]]
           S == {m \in Nat : \E f \in [0..m -> A] : Follows(f, m)}
<1>1. rounds \in S
  <2>1. 0 \in S
    <3>1. [n \in 0..0 |-> start] \in [0..0 -> A] /\ Follows([n \in 0..0 |-> start], 0)
      OBVIOUS
    <3> QED BY <3>1
  <2>2. ASSUME NEW m \in 1..rounds, m - 1 \in S PROVE m \in S
    <3>1. PICK f \in [0..m - 1 -> A] : Follows(f, m - 1)
      BY <2>2
    <3> DEFINE g == [n \in 0..m |-> IF n = m THEN step[m][f[m - 1]] ELSE f[n]]
    <3>2. g \in [0..m -> A]
      <4>1. step[m] \in [A -> A] /\ f[m - 1] \in A
        OBVIOUS
      <4> QED BY <4>1
    <3>3. Follows(g, m)
      <4> TAKE n \in 0..m
      <4>1. CASE n = m
        BY <4>1
      <4>2. CASE n \in 0..m - 1
        BY <3>1, <4>2
      <4> QED BY <4>1, <4>2
    <3> HIDE DEF g
    <3> QED BY <3>2, <3>3
  <2> HIDE DEF S
  <2>3. \A n \in 0..rounds : n \in S
    BY <2>1, <2>2, Inductive
  <2> QED BY <2>3
<1>2. PICK f \in [0..rounds -> A] : Follows(f, rounds)
  BY <1>1
<1>3. f[0] = start /\ \A n \in 1..rounds : f[n] = step[n][f[n - 1]]
  BY <1>2
<1> QED BY <1>3 DEF Loops

(* A bounded set of numbers has a greatest one. *)
LEMMA GreatestOf ==
  ASSUME NEW L \in Nat, NEW S, S \subseteq 0..L, S # {}
  PROVE  \E m \in S : \A n \in S : n <= m
<1> DEFINE down == {L - n : n \in S}
<1>1. down \subseteq Nat /\ down # {}
  <2>1. \A n \in S : n \in 0..L /\ L - n \in Nat
    OBVIOUS
  <2>2. PICK n \in S : TRUE
    OBVIOUS
  <2>3. L - n \in down
    OBVIOUS
  <2> QED BY <2>1, <2>3
<1>2. PICK d \in down : \A e \in down : d <= e
  <2> HIDE DEF down
  <2> QED BY <1>1, LeastOf
<1>3. PICK m \in S : d = L - m
  BY <1>2
<1>4. \A n \in S : n <= m
  <2> TAKE n \in S
  <2>1. L - n \in down
    OBVIOUS
  <2>2. L - m <= L - n
    BY <1>2, <1>3, <2>1
  <2>3. n \in Int /\ m \in Int
    OBVIOUS
  <2> QED BY <2>2, <2>3
<1> QED BY <1>4

(* A name without the blanks around it is a text. *)
LEMMA TrimmedOK ==
  ASSUME NEW text \in Seq(STRING)
  PROVE  Trimmed(text) \in Seq(STRING)
<1> DEFINE kept == {i \in DOMAIN text : text[i] # " "}
           least == CHOOSE i \in kept : \A j \in kept : i <= j
           greatest == CHOOSE i \in kept : \A j \in kept : j <= i
           inner == IF kept = {} THEN <<>> ELSE SubSeq(text, least, greatest)
<1>1. kept \subseteq 1..Len(text) /\ Len(text) \in Nat
  BY LenProperties
<1>2. inner \in Seq(STRING)
  <2>1. CASE kept = {}
    BY <2>1, EmptySeq
  <2>2. CASE kept # {}
    <3>1. \E i \in kept : \A j \in kept : i <= j
      <4> HIDE DEF kept
      <4>1. kept \subseteq Nat
        BY <1>1
      <4> QED BY <2>2, <4>1, LeastOf
    <3>2. \E i \in kept : \A j \in kept : j <= i
      <4> HIDE DEF kept
      <4>1. kept \subseteq 0..Len(text)
        BY <1>1
      <4> QED BY <1>1, <2>2, <4>1, GreatestOf
    <3> HIDE DEF kept
    <3>3. least \in kept /\ greatest \in kept /\ least <= greatest
      BY <3>1, <3>2
    <3> HIDE DEF least, greatest
    <3>4. least \in 1..Len(text) + 1 /\ greatest \in least - 1..Len(text)
      BY <1>1, <3>3
    <3>5. SubSeq(text, least, greatest) \in Seq(STRING)
      BY <3>4, SubSeqProperties
    <3> QED BY <2>2, <3>5
  <2> QED BY <2>1, <2>2
<1>3. Trimmed(text) = IF inner # <<>> /\ Last(inner) = "." THEN Front(inner) ELSE inner
  BY DEF Trimmed
<1> HIDE DEF inner
<1>4. ASSUME inner # <<>> PROVE Front(inner) \in Seq(STRING)
  <2>1. Len(inner) \in Nat \ {0}
    BY <1>2, <1>4, EmptySeq, LenProperties
  <2>2. 1 \in 1..Len(inner) + 1 /\ Len(inner) - 1 \in 1 - 1..Len(inner)
    BY <2>1
  <2>3. SubSeq(inner, 1, Len(inner) - 1) \in Seq(STRING)
    BY <1>2, <2>2, SubSeqProperties
  <2> QED BY <2>3 DEF Front
<1> QED BY <1>2, <1>3, <1>4

(* Letters become small, and a name asked for keeps no wildcard. *)
LEMMA NamesOK ==
  ASSUME NEW text \in Seq(STRING), NEW pattern \in BOOLEAN, NEW name \in Names(text, pattern)
  PROVE  name \in Seq(Letters) /\ (~pattern => name \in Seq(Chars))
<1> DEFINE n == Trimmed(text)
<1>1. n \in Seq(STRING)
  BY TrimmedOK
<1>2. name = [i \in DOMAIN n |-> Lower(n[i])] /\ \A i \in DOMAIN n : pattern \/ n[i] \notin Wildcards
  BY DEF Names
<1> HIDE DEF n
<1>3. DOMAIN n = 1..Len(n) /\ Len(n) \in Nat /\ \A i \in 1..Len(n) : n[i] \in STRING
  BY <1>1, LenProperties, ElementOfSeq
<1>4. \A c \in STRING : Lower(c) \in Letters /\ (c \notin Wildcards => Lower(c) \in Chars)
  <2> TAKE c \in STRING
  <2>1. CASE c = "A"
    <3>1. Lower(c) = "a"
      BY <2>1 DEF Lower
    <3>2. "a" \notin Wildcards
      BY DEF Wildcards
    <3> QED BY <3>1, <3>2 DEF Chars, Letters
  <2>2. CASE c # "A"
    <3>1. Lower(c) = c
      BY <2>2 DEF Lower
    <3> QED BY <2>2, <3>1 DEF Chars, Letters
  <2> QED BY <2>1, <2>2
<1>5. /\ \A i \in 1..Len(n) : Lower(n[i]) \in Letters
      /\ ~pattern => \A i \in 1..Len(n) : Lower(n[i]) \in Chars
  BY <1>2, <1>3, <1>4
<1>6. name = [i \in 1..Len(n) |-> Lower(n[i])]
  BY <1>2, <1>3
<1>7. name \in Seq(Letters)
  BY <1>3, <1>5, <1>6
<1>8. ASSUME ~pattern PROVE name \in Seq(Chars)
  BY <1>3, <1>5, <1>6, <1>8
<1> QED BY <1>7, <1>8

(* The parts of a list are texts. *)
LEMMA PartsOK ==
  ASSUME NEW text \in Seq(STRING)
  PROVE  Parts(text) \in Seq(Seq(STRING))
<1> DEFINE ends == {i \in DOMAIN text : text[i] = ";"} \cup {Len(text) + 1}
           last(i) == CHOOSE j \in {0} \cup ends : j < i /\ \A k \in ends : k < i => k <= j
           Part(i) == SubSeq(text, last(i) + 1, i - 1)
           Blank(part) == \A n \in DOMAIN part : part[n] = " "
           A == Seq(Seq(STRING))
           M == Len(text) + 1
           next(i, x) == IF i \in ends /\ ~Blank(Part(i)) THEN Append(x, Part(i)) ELSE x
           step == [i \in 1..M |-> [x \in A |-> next(i, x)]]
           whole(f) == [i \in 0..Len(text) + 1 |->
             IF i = 0 THEN <<>>
             ELSE IF i \in ends /\ ~Blank(Part(i)) THEN Append(f[i - 1], Part(i)) ELSE f[i - 1]]
           upTo == CHOOSE f : f = whole(f)
<1>1. /\ Len(text) \in Nat /\ ends \subseteq 1..M /\ M \in Nat /\ <<>> \in A
      /\ \A i \in 1..Len(text) : text[i] \in STRING
  <2>1. Len(text) \in Nat /\ DOMAIN text = 1..Len(text) /\ \A i \in 1..Len(text) : text[i] \in STRING
    BY LenProperties, ElementOfSeq
  <2>2. <<>> \in A
    BY EmptySeq
  <2>3. \A i \in ends : i \in 1..M
    <3> TAKE i \in ends
    <3>1. i \in 1..Len(text) \/ i = Len(text) + 1
      BY <2>1
    <3> HIDE DEF ends
    <3> QED BY <2>1, <3>1
  <2> HIDE DEF ends, A
  <2> QED BY <2>1, <2>2, <2>3
<1>2. ASSUME NEW i \in ends PROVE Part(i) \in Seq(STRING)
  <2> DEFINE before == {j \in {0} \cup ends : j < i}
  <2> HIDE DEF ends
  <2>1. before \subseteq 0..M /\ 0 \in before /\ i \in 1..M
    <3>1. i \in 1..M
      BY <1>1, <1>2
    <3>2. \A j \in before : j \in {0} \cup 1..M
      BY <1>1
    <3>3. 0 \in before
      BY <1>1, <3>1
    <3> HIDE DEF M, before
    <3> QED BY <1>1, <3>1, <3>2, <3>3
  <2>2. \E m \in before : \A n \in before : n <= m
    <3> HIDE DEF before, M
    <3> QED BY <1>1, <2>1, GreatestOf
  <2>3. last(i) \in {0} \cup ends /\ last(i) < i
    <3>1. \E j \in {0} \cup ends : j < i /\ \A k \in ends : k < i => k <= j
      BY <2>2
    <3> QED BY <3>1
  <2> HIDE DEF last
  <2>4. last(i) + 1 \in 1..Len(text) + 1 /\ i - 1 \in last(i) + 1 - 1..Len(text)
    BY <1>1, <2>1, <2>3
  <2> QED BY <2>4, SubSeqProperties
<1> HIDE DEF Part, Blank
<1>3. \A i \in 1..M, x \in A : next(i, x) \in A
  <2> TAKE i \in 1..M, x \in A
  <2>1. CASE i \in ends /\ ~Blank(Part(i))
    <3>1. Part(i) \in Seq(STRING)
      BY <1>2, <2>1
    <3> HIDE DEF ends
    <3>2. next(i, x) = Append(x, Part(i))
      BY <2>1
    <3> QED BY <3>1, <3>2, AppendProperties
  <2> QED BY <2>1
<1> HIDE DEF ends
<1>4. \A i \in 1..M : step[i] = [x \in A |-> next(i, x)]
  OBVIOUS
<1>5. step \in [1..M -> [A -> A]]
  <2> HIDE DEF A, M, next
  <2> QED BY <1>3
<1>6. \E f : f = whole(f)
  <2>1. Loops(A, step, <<>>, M)
    <3> HIDE DEF A, M, step
    <3> QED BY <1>1, <1>5, Iterates
  <2>2. PICK f \in [0..M -> A] : f[0] = <<>> /\ \A i \in 1..M : f[i] = step[i][f[i - 1]]
    BY <2>1 DEF Loops
  <2>3. \A i \in 1..M : f[i] = next(i, f[i - 1])
    <3> TAKE i \in 1..M
    <3> HIDE DEF A, M, step, next
    <3>1. f[i - 1] \in A
      BY <1>1, <2>2
    <3> QED BY <1>4, <2>2, <3>1
  <2>4. f = whole(f)
    <3>1. \A i \in 0..M : i # 0 => i \in 1..M
      BY <1>1
    <3>2. \A i \in 0..M : f[i] = IF i = 0 THEN <<>>
                                ELSE IF i \in ends /\ ~Blank(Part(i)) THEN Append(f[i - 1], Part(i))
                                ELSE f[i - 1]
      BY <2>2, <2>3, <3>1
    <3> HIDE DEF A
    <3> QED BY <2>2, <3>2
  <2> QED BY <2>4
<1>7. upTo = whole(upTo)
  <2> HIDE DEF whole
  <2> QED BY <1>6
<1>8. Parts(text) = upTo[M]
  BY DEF Parts, ends, Part, Blank
<1> HIDE DEF upTo
<1>9. \A i \in 0..M : upTo[i] \in A
  <2> DEFINE N == {i \in Nat : upTo[i] \in A}
  <2>1. 0 \in N
    BY <1>1, <1>7
  <2>2. ASSUME NEW i \in 1..M, i - 1 \in N PROVE i \in N
    <3>1. upTo[i - 1] \in A /\ i \in Nat /\ i # 0 /\ i \in 0..M
      BY <1>1, <2>2
    <3>2. upTo[i] = next(i, upTo[i - 1])
      BY <1>7, <3>1
    <3> HIDE DEF A, M, next
    <3> QED BY <1>3, <3>1, <3>2
  <2> HIDE DEF N
  <2>3. \A i \in 0..M : i \in N
    <3> HIDE DEF M
    <3> QED BY <1>1, <2>1, <2>2, Inductive
  <2> QED BY <2>3 DEF N
<1> QED BY <1>1, <1>8, <1>9

LEMMA PatternListsOK ==
  ASSUME NEW text \in Seq(STRING), NEW list \in PatternLists(text)
  PROVE  list \in Seq(Seq(Letters))
<1> DEFINE parts == Parts(text)
<1>1. parts \in Seq(Seq(STRING))
  BY PartsOK
<1>2. /\ ~\E i \in DOMAIN parts : Names(parts[i], TRUE) = {}
      /\ list = [i \in DOMAIN parts |-> CHOOSE n \in Names(parts[i], TRUE) : TRUE]
  BY DEF PatternLists
<1> HIDE DEF parts
<1>3. Len(parts) \in Nat /\ DOMAIN parts = 1..Len(parts)
  BY <1>1, LenProperties
<1>4. \A i \in 1..Len(parts) : list[i] \in Seq(Letters)
  <2> TAKE i \in 1..Len(parts)
  <2>1. list[i] \in Names(parts[i], TRUE)
    BY <1>2, <1>3
  <2>2. parts[i] \in Seq(STRING)
    BY <1>1, ElementOfSeq
  <2> QED BY <2>1, <2>2, NamesOK
<1>5. list \in [1..Len(parts) -> Seq(Letters)]
  <2>1. list = [i \in 1..Len(parts) |-> list[i]]
    BY <1>2, <1>3
  <2> QED BY <1>4, <2>1
<1> QED BY <1>3, <1>5

(* The numbers of characters that one more character of a pattern reaches. *)
Extended(name, pattern, i, S) ==
  IF pattern[i] = "*" THEN {j \in 0..Len(name) : \E k \in S : k <= j}
  ELSE {j \in 1..Len(name) : j - 1 \in S /\ pattern[i] \in {"?", name[j]}}

LEMMA ReachedOK ==
  ASSUME NEW name, NEW pattern, Len(name) \in Nat, Len(pattern) \in Nat
  PROVE  /\ Reached(name, pattern)[0] = {0}
         /\ \A i \in 1..Len(pattern) :
              Reached(name, pattern)[i] = Extended(name, pattern, i, Reached(name, pattern)[i - 1])
         /\ \A i \in 0..Len(pattern) : Reached(name, pattern)[i] \subseteq 0..Len(name)
<1> DEFINE A == SUBSET (0..Len(name))
           L == Len(pattern)
           step == [i \in 1..L |-> [S \in A |-> Extended(name, pattern, i, S)]]
           whole(f) == [i \in 0..Len(pattern) |->
             IF i = 0 THEN {0}
             ELSE IF pattern[i] = "*" THEN {j \in 0..Len(name) : \E k \in f[i - 1] : k <= j}
             ELSE {j \in 1..Len(name) : j - 1 \in f[i - 1] /\ pattern[i] \in {"?", name[j]}}]
           reached == CHOOSE f : f = whole(f)
<1>1. L \in Nat /\ {0} \in A
  OBVIOUS
<1>2. \A i \in 1..L, S \in A : Extended(name, pattern, i, S) \in A
  BY DEF Extended
<1>3. \A i \in 1..L : step[i] = [S \in A |-> Extended(name, pattern, i, S)]
  OBVIOUS
<1>4. step \in [1..L -> [A -> A]]
  <2> HIDE DEF A, L
  <2> QED BY <1>2
<1>5. \A f : whole(f) = [i \in 0..L |-> IF i = 0 THEN {0} ELSE Extended(name, pattern, i, f[i - 1])]
  BY DEF Extended
<1>6. \E f : f = whole(f)
  <2>1. Loops(A, step, {0}, L)
    <3> HIDE DEF A, L, step
    <3> QED BY <1>1, <1>4, Iterates
  <2>2. PICK f \in [0..L -> A] : f[0] = {0} /\ \A i \in 1..L : f[i] = step[i][f[i - 1]]
    BY <2>1 DEF Loops
  <2>3. \A i \in 1..L : f[i] = Extended(name, pattern, i, f[i - 1])
    <3> TAKE i \in 1..L
    <3> HIDE DEF A, L, step
    <3>1. f[i - 1] \in A
      BY <1>1, <2>2
    <3> QED BY <1>3, <2>2, <3>1
  <2>4. f = [i \in 0..L |-> IF i = 0 THEN {0} ELSE Extended(name, pattern, i, f[i - 1])]
    <3> HIDE DEF A, L, step
    <3>1. \A i \in 0..L : i # 0 => i \in 1..L
      BY <1>1
    <3>2. \A i \in 0..L : f[i] = IF i = 0 THEN {0} ELSE Extended(name, pattern, i, f[i - 1])
      BY <2>2, <2>3, <3>1
    <3> QED BY <2>2, <3>2
  <2> HIDE DEF whole
  <2> QED BY <1>5, <2>4
<1>7. reached = whole(reached)
  <2> HIDE DEF whole
  <2> QED BY <1>6
<1>8. Reached(name, pattern) = reached
  BY DEF Reached
<1> HIDE DEF reached
<1>9. reached = [i \in 0..L |-> IF i = 0 THEN {0} ELSE Extended(name, pattern, i, reached[i - 1])]
  <2> HIDE DEF whole
  <2> QED BY <1>5, <1>7
<1> HIDE DEF whole, step
<1>10. \A i \in 0..L : reached[i] \in A
  <2> DEFINE N == {i \in Nat : reached[i] \in A}
  <2>1. 0 \in N
    <3> HIDE DEF A, L
    <3>1. 0 \in 0..L
      BY <1>1
    <3> QED BY <1>1, <1>9, <3>1
  <2>2. ASSUME NEW i \in 1..L, i - 1 \in N PROVE i \in N
    <3> HIDE DEF A, L
    <3>1. reached[i - 1] \in A /\ i \in Nat /\ i # 0 /\ i \in 0..L
      BY <1>1, <2>2
    <3>2. reached[i] = Extended(name, pattern, i, reached[i - 1])
      BY <1>9, <3>1
    <3> QED BY <1>2, <3>1, <3>2
  <2> HIDE DEF N, L
  <2>3. \A i \in 0..L : i \in N
    BY <1>1, <2>1, <2>2, Inductive
  <2> QED BY <2>3 DEF N
<1>11. \A i \in 1..L : i \in 0..L /\ i # 0
  BY <1>1
<1>12. 0 \in 0..L
  BY <1>1
<1>13. reached[0] = {0} /\ \A i \in 1..L : reached[i] = Extended(name, pattern, i, reached[i - 1])
  <2> HIDE DEF L, A
  <2> QED BY <1>9, <1>11, <1>12
<1> QED BY <1>8, <1>10, <1>13

(* at takes the i-th character of the pattern for some of the name. *)
Takes(at, name, pattern, i) ==
  IF pattern[i] = "*" THEN at[i - 1] <= at[i]
  ELSE at[i] = at[i - 1] + 1 /\ pattern[i] \in {"?", name[at[i]]}

(* A pattern that may stand for a name has an alignment with it. *)
LEMMA GlobAligned ==
  ASSUME NEW name, NEW pattern, Len(name) \in Nat, Len(pattern) \in Nat, Glob(name, pattern)
  PROVE  Alignments(name, pattern) # {}
<1> DEFINE H == Len(name)
           L == Len(pattern)
           R == Reached(name, pattern)
           Aligned(at, i, j) == at[0] = 0 /\ at[i] = j /\ \A k \in 1..i : Takes(at, name, pattern, k)
           N == {i \in 0..L : \A j \in R[i] : \E at \in [0..i -> 0..H] : Aligned(at, i, j)}
<1>1. /\ R[0] = {0} /\ \A i \in 1..L : R[i] = Extended(name, pattern, i, R[i - 1])
      /\ \A i \in 0..L : R[i] \subseteq 0..H
  BY ReachedOK
<1>2. H \in Nat /\ L \in Nat
  OBVIOUS
<1> HIDE DEF H, L, R
<1>3. 0 \in N
  <2>1. [k \in 0..0 |-> 0] \in [0..0 -> 0..H] /\ Aligned([k \in 0..0 |-> 0], 0, 0)
    BY <1>2
  <2>2. 0 \in 0..L /\ \A j \in R[0] : j = 0
    BY <1>1, <1>2
  <2> HIDE DEF Aligned
  <2> QED BY <2>1, <2>2
<1>4. ASSUME NEW i \in 1..L, i - 1 \in N PROVE i \in N
  <2>1. i \in 0..L /\ i - 1 \in 0..L /\ i \in Nat \ {0}
    BY <1>2
  <2>2. ASSUME NEW j \in R[i] PROVE \E at \in [0..i -> 0..H] : Aligned(at, i, j)
    <3>1. j \in 0..H /\ j \in Extended(name, pattern, i, R[i - 1])
      BY <1>1, <2>1
    <3>2. PICK k \in R[i - 1] : IF pattern[i] = "*" THEN k <= j
                                ELSE j = k + 1 /\ pattern[i] \in {"?", name[j]}
      <4>1. CASE pattern[i] = "*"
        BY <3>1, <4>1 DEF Extended
      <4>2. CASE pattern[i] # "*"
        <5>1. j \in 1..Len(name) /\ j - 1 \in R[i - 1] /\ pattern[i] \in {"?", name[j]}
          BY <3>1, <4>2 DEF Extended
        <5>2. j = (j - 1) + 1
          BY <3>1
        <5> QED BY <4>2, <5>1, <5>2
      <4> QED BY <4>1, <4>2
    <3>3. PICK before \in [0..i - 1 -> 0..H] : Aligned(before, i - 1, k)
      BY <1>4
    <3> DEFINE at == [n \in 0..i |-> IF n = i THEN j ELSE before[n]]
    <3>4. /\ \A n \in 0..i : n # i => n \in 0..i - 1
          /\ \A n \in 1..i : n \in 0..i /\ n - 1 \in 0..i - 1 /\ n - 1 \in 0..i /\ n - 1 # i
          /\ 0 \in 0..i /\ i \in 0..i /\ 0 # i /\ \A n \in 1..i : n # i => n \in 1..i - 1
      BY <2>1
    <3>5. /\ at \in [0..i -> 0..H] /\ at[0] = before[0] /\ at[i] = j
          /\ \A n \in 0..i : n # i => at[n] = before[n]
      BY <3>1, <3>4
    <3> HIDE DEF at
    <3>6. at[i - 1] = k /\ before[0] = 0
      BY <3>3, <3>4, <3>5, <2>1
    <3>7. ASSUME NEW n \in 1..i PROVE Takes(at, name, pattern, n)
      <4>1. CASE n = i
        BY <3>2, <3>5, <3>6, <4>1 DEF Takes
      <4>2. CASE n # i
        <5>1. at[n] = before[n] /\ at[n - 1] = before[n - 1]
          BY <3>4, <3>5, <4>2
        <5>2. Takes(before, name, pattern, n)
          BY <3>3, <3>4, <4>2
        <5> QED BY <5>1, <5>2 DEF Takes
      <4> QED BY <4>1, <4>2
    <3>8. Aligned(at, i, j)
      BY <3>5, <3>6, <3>7
    <3> HIDE DEF Aligned
    <3> QED BY <3>5, <3>8
  <2> HIDE DEF Aligned
  <2> QED BY <2>1, <2>2
<1>5. L \in N
  <2> HIDE DEF N
  <2>1. \A i \in 0..L : i \in N
    BY <1>2, <1>3, <1>4, Inductive
  <2> QED BY <1>2, <2>1
<1>6. H \in R[L]
  BY DEF Glob, H, R, L
<1>7. PICK at \in [0..L -> 0..H] : Aligned(at, L, H)
  <2> HIDE DEF Aligned
  <2> QED BY <1>5, <1>6
<1>8. at \in Alignments(name, pattern)
  BY <1>7 DEF Alignments, H, L, Takes
<1> QED BY <1>8

(* What an alignment is. *)
LEMMA AlignedOK ==
  ASSUME NEW name, NEW pattern, Len(name) \in Nat, Len(pattern) \in Nat,
         NEW at \in Alignments(name, pattern)
  PROVE  /\ at \in [0..Len(pattern) -> 0..Len(name)]
         /\ at[0] = 0 /\ at[Len(pattern)] = Len(name)
         /\ \A i \in 0..Len(pattern) - 1 :
              /\ pattern[i + 1] = "*" => at[i] <= at[i + 1]
              /\ pattern[i + 1] # "*" =>
                   /\ at[i + 1] = at[i] + 1
                   /\ pattern[i + 1] \in {"?", name[at[i] + 1]}
<1>1. /\ at \in [0..Len(pattern) -> 0..Len(name)] /\ at[0] = 0 /\ at[Len(pattern)] = Len(name)
      /\ \A i \in 1..Len(pattern) : IF pattern[i] = "*" THEN at[i - 1] <= at[i]
                                    ELSE at[i] = at[i - 1] + 1 /\ pattern[i] \in {"?", name[at[i]]}
  BY DEF Alignments
<1>2. ASSUME NEW i \in 0..Len(pattern) - 1
      PROVE  /\ pattern[i + 1] = "*" => at[i] <= at[i + 1]
             /\ pattern[i + 1] # "*" =>
                  /\ at[i + 1] = at[i] + 1
                  /\ pattern[i + 1] \in {"?", name[at[i] + 1]}
  <2>1. i + 1 \in 1..Len(pattern) /\ (i + 1) - 1 = i
    OBVIOUS
  <2>2. IF pattern[i + 1] = "*" THEN at[i] <= at[i + 1]
        ELSE at[i + 1] = at[i] + 1 /\ pattern[i + 1] \in {"?", name[at[i + 1]]}
    BY <1>1, <2>1
  <2> QED BY <2>2
<1> QED BY <1>1, <1>2

(* One more character of a pattern, read along the name. *)
LEMMA ReachedMore ==
  ASSUME NEW name, NEW pattern, Len(name) \in Nat, Len(pattern) \in Nat,
         NEW p \in 0..Len(pattern) - 1, NEW h \in Reached(name, pattern)[p]
  PROVE  /\ pattern[p + 1] = "*" =>
              \A j \in h..Len(name) : j \in Reached(name, pattern)[p + 1]
         /\ pattern[p + 1] # "*" /\ h < Len(name) /\ pattern[p + 1] \in {"?", name[h + 1]} =>
              h + 1 \in Reached(name, pattern)[p + 1]
<1> DEFINE R == Reached(name, pattern)
<1>1. /\ \A i \in 1..Len(pattern) : R[i] = Extended(name, pattern, i, R[i - 1])
      /\ \A i \in 0..Len(pattern) : R[i] \subseteq 0..Len(name)
  BY ReachedOK
<1> HIDE DEF R
<1>2. p + 1 \in 1..Len(pattern) /\ (p + 1) - 1 = p /\ p \in 0..Len(pattern)
  OBVIOUS
<1>3. R[p + 1] = Extended(name, pattern, p + 1, R[p]) /\ h \in R[p]
  BY <1>1, <1>2 DEF R
<1>4. h \in 0..Len(name)
  BY <1>1, <1>2, <1>3
<1>5. ASSUME pattern[p + 1] = "*", NEW j \in h..Len(name) PROVE j \in R[p + 1]
  <2>1. j \in 0..Len(name) /\ h <= j
    BY <1>4
  <2> QED BY <1>3, <1>5, <2>1 DEF Extended
<1>6. ASSUME pattern[p + 1] # "*", h < Len(name), pattern[p + 1] \in {"?", name[h + 1]}
      PROVE  h + 1 \in R[p + 1]
  <2>1. h + 1 \in 1..Len(name) /\ (h + 1) - 1 = h
    BY <1>4, <1>6
  <2> QED BY <1>3, <1>6, <2>1 DEF Extended
<1> QED BY <1>5, <1>6 DEF R

(* A star takes more from wherever it was met. *)
LEMMA StarReaches ==
  ASSUME NEW name, NEW pattern, Len(name) \in Nat, Len(pattern) \in Nat,
         NEW p \in 1..Len(pattern), pattern[p] = "*", NEW j \in Reached(name, pattern)[p], j < Len(name)
  PROVE  j + 1 \in Reached(name, pattern)[p]
<1> DEFINE R == Reached(name, pattern)
<1>1. R[p] = Extended(name, pattern, p, R[p - 1]) /\ R[p - 1] \subseteq 0..Len(name)
  <2>1. p - 1 \in 0..Len(pattern)
    OBVIOUS
  <2> QED BY <2>1, ReachedOK
<1> HIDE DEF R
<1>2. j \in 0..Len(name) /\ \E k \in R[p - 1] : k <= j
  BY <1>1 DEF Extended, R
<1>3. PICK k \in R[p - 1] : k <= j
  BY <1>2
<1>4. k \in 0..Len(name) /\ k <= j + 1 /\ j + 1 \in 0..Len(name)
  BY <1>1, <1>2, <1>3
<1>5. j + 1 \in R[p]
  BY <1>1, <1>3, <1>4 DEF Extended
<1> QED BY <1>5 DEF R

(* At the beginning of a pattern nothing is behind. *)
LEMMA Beginning ==
  ASSUME NEW name, NEW pattern, Len(name) \in Nat, Len(pattern) \in Nat
  PROVE  /\ 0 \in 0..Len(name) /\ 0 \in 0..Len(pattern) /\ 0 \in Reached(name, pattern)[0]
         /\ \A at \in Alignments(name, pattern) : at[0] = 0
<1>1. Reached(name, pattern)[0] = {0}
  BY ReachedOK
<1>2. \A at \in Alignments(name, pattern) : at[0] = 0
  BY DEF Alignments
<1> QED BY <1>1, <1>2

LEMMA LengthsOK ==
  ASSUME MatchTypeOK
  PROVE  /\ Len(host) \in Nat /\ Len(patterns) \in Nat /\ DOMAIN patterns = 1..Len(patterns)
         /\ \A i \in 1..Len(host) : host[i] \notin Wildcards
         /\ \A n \in DOMAIN patterns : Len(patterns[n]) \in Nat
<1>1. host \in Seq(Chars) /\ patterns \in Seq(Seq(Letters))
  BY DEF MatchTypeOK
<1>2. Len(host) \in Nat /\ \A i \in 1..Len(host) : host[i] \in Chars
  BY <1>1, LenProperties, ElementOfSeq
<1>3. /\ Len(patterns) \in Nat /\ DOMAIN patterns = 1..Len(patterns)
      /\ \A n \in 1..Len(patterns) : patterns[n] \in Seq(Letters)
  BY <1>1, LenProperties, ElementOfSeq
<1>4. \A n \in DOMAIN patterns : Len(patterns[n]) \in Nat
  BY <1>3, LenProperties
<1>5. \A i \in 1..Len(host) : host[i] \notin Wildcards
  BY <1>2 DEF Chars
<1> QED BY <1>2, <1>3, <1>4, <1>5

(* The loop begins with the next pattern, or there is none. *)
LEMMA NextPattern ==
  ASSUME MatchTypeOK, matching.pattern \in DOMAIN patterns,
         \A i \in 1..matching.pattern - 1 : ~Glob(host, patterns[i]), ~Glob(host, Pattern),
         Steps(First(matching.pattern + 1))
  PROVE  MatchInv'
<1> DEFINE n == matching.pattern
<1>1. /\ Len(host) \in Nat /\ Len(patterns) \in Nat /\ DOMAIN patterns = 1..Len(patterns)
      /\ \A i \in DOMAIN patterns : Len(patterns[i]) \in Nat
  BY LengthsOK
<1>2. /\ host' = host /\ patterns' = patterns /\ n \in 1..Len(patterns)
      /\ matching' = [pattern |-> n + 1, h |-> 0, p |-> 0, star |-> NoStar, retry |-> 0,
                      verdict |-> IF n + 1 > Len(patterns) THEN "none" ELSE "open"]
  BY <1>1 DEF Steps, First
<1>3. \A i \in 1..n : ~Glob(host, patterns[i])
  BY <1>2 DEF Pattern
<1> HIDE DEF n
<1>4. /\ matching'.pattern = n + 1 /\ matching'.h = 0 /\ matching'.p = 0 /\ matching'.star = NoStar
      /\ matching'.retry = 0
      /\ matching'.verdict = IF n + 1 > Len(patterns) THEN "none" ELSE "open"
  BY <1>2
<1>5. MatchTypeOK'
  <2>1. n + 1 \in 1..Len(patterns) + 1 /\ (matching'.verdict # "none" => n + 1 \in 1..Len(patterns))
    BY <1>1, <1>2, <1>4
  <2> QED BY <1>1, <1>2, <1>4, <2>1 DEF MatchTypeOK
<1>6. \A i \in 1..matching'.pattern - 1 : ~Glob(host', patterns'[i])
  <2>1. matching'.pattern - 1 = n
    BY <1>2, <1>4
  <2> QED BY <1>2, <1>3, <2>1
<1>7. ASSUME matching'.verdict = "open" PROVE Fitting' /\ NoneBehind'
  <2>1. n + 1 \in DOMAIN patterns /\ Pattern' = patterns[n + 1]
    BY <1>1, <1>2, <1>4, <1>7 DEF Pattern
  <2>2. Len(Pattern') \in Nat
    BY <1>1, <2>1
  <2>3. Fitting'
    BY <1>1, <1>2, <1>4, <2>2, Beginning DEF Fitting
  <2>4. NoneBehind'
    BY <1>1, <1>2, <1>4, <2>2, Beginning DEF NoneBehind
  <2> QED BY <2>3, <2>4
<1>8. matching'.verdict = "none" => matching'.pattern = Len(patterns') + 1
  BY <1>1, <1>2, <1>4
<1>9. matching'.verdict # "matched"
  BY <1>4
<1> QED BY <1>5, <1>6, <1>7, <1>8, <1>9 DEF MatchInv

LEMMA MatchBegins ==
  ASSUME MatchConstants, MatchInit
  PROVE  MatchInv
<1>1. PICK text \in HostTexts : host \in Names(text, FALSE)
  BY DEF MatchInit
<1>2. PICK list \in RuleTexts : patterns \in PatternLists(list) /\ patterns # <<>>
  BY DEF MatchInit
<1>3. host \in Seq(Chars)
  <2>1. text \in Seq(STRING)
    BY <1>1 DEF MatchConstants
  <2> QED BY <1>1, <2>1, NamesOK
<1>4. patterns \in Seq(Seq(Letters))
  <2>1. list \in Seq(STRING)
    BY <1>2 DEF MatchConstants
  <2> QED BY <1>2, <2>1, PatternListsOK
<1>5. Len(patterns) \in Nat \ {0} /\ DOMAIN patterns = 1..Len(patterns)
  BY <1>2, <1>4, EmptySeq, LenProperties
<1>6. matching = [pattern |-> 1, h |-> 0, p |-> 0, star |-> NoStar, retry |-> 0, verdict |-> "open"]
  BY <1>5 DEF MatchInit, First
<1>7. MatchTypeOK
  BY <1>3, <1>4, <1>5, <1>6 DEF MatchTypeOK
<1>8. Len(host) \in Nat /\ Len(Pattern) \in Nat
  BY <1>5, <1>6, <1>7, LengthsOK DEF Pattern
<1>9. Fitting
  BY <1>6, <1>8, Beginning DEF Fitting
<1>10. NoneBehind
  BY <1>6, <1>8, Beginning DEF NoneBehind
<1> QED BY <1>6, <1>7, <1>9, <1>10 DEF MatchInv

(* The loop's position. *)
Turn(n, h, p, star, retry, verdict) ==
  [pattern |-> n, h |-> h, p |-> p, star |-> star, retry |-> retry, verdict |-> verdict]

(* What a turn of an open loop starts from. *)
LEMMA OpenOK ==
  ASSUME MatchInv, matching.verdict = "open"
  PROVE  /\ MatchTypeOK /\ Fitting /\ NoneBehind
         /\ Len(host) \in Nat /\ Len(Pattern) \in Nat /\ matching.pattern \in DOMAIN patterns
         /\ matching.h \in 0..Len(host) /\ matching.p \in 0..Len(Pattern)
         /\ matching.star \in Nat \cup {NoStar} /\ matching.retry \in Nat
         /\ matching = Turn(matching.pattern, matching.h, matching.p, matching.star, matching.retry,
                          matching.verdict)
         /\ \A i \in 1..matching.pattern - 1 : ~Glob(host, patterns[i])
<1>1. MatchTypeOK /\ Fitting /\ NoneBehind /\ \A i \in 1..matching.pattern - 1 : ~Glob(host, patterns[i])
  BY DEF MatchInv
<1>2. matching.pattern \in DOMAIN patterns
  BY <1>1 DEF MatchTypeOK
<1>3. Len(host) \in Nat /\ Len(Pattern) \in Nat
  BY <1>1, <1>2, LengthsOK DEF Pattern
<1>4. matching.h \in 0..Len(host) /\ matching.p \in 0..Len(Pattern)
  BY <1>1 DEF Fitting
<1>5. /\ matching.star \in Nat \cup {NoStar} /\ matching.retry \in Nat
      /\ matching = Turn(matching.pattern, matching.h, matching.p, matching.star, matching.retry,
                          matching.verdict)
  BY <1>1 DEF MatchTypeOK, Turn
<1> QED BY <1>1, <1>2, <1>3, <1>4, <1>5

(* The loop may go on from here. *)
Ongoing(h, p, star, retry) ==
  /\ h \in 0..Len(host) /\ p \in 0..Len(Pattern) /\ h \in Reached(host, Pattern)[p]
  /\ star \in Nat \cup {NoStar} /\ retry \in Nat
  /\ star # NoStar =>
       /\ star + 1 \in 1..p /\ Pattern[star + 1] = "*" /\ retry <= h
       /\ retry \in Reached(host, Pattern)[star + 1]
  /\ \A at \in Alignments(host, Pattern) :
       /\ h <= at[p]
       /\ star = NoStar => at[p] = h
       /\ star # NoStar =>
            retry <= at[star + 1] /\ (h < Len(host) /\ at[star + 1] = retry => at[p] = h)

(* A turn that stays with its pattern: what is left to show. *)
LEMMA GoesOn ==
  ASSUME MatchInv, matching.verdict = "open",
         NEW h, NEW p, NEW star, NEW retry, Ongoing(h, p, star, retry),
         Steps(Turn(matching.pattern, h, p, star, retry, "open"))
  PROVE  MatchInv'
<1>1. /\ host' = host /\ patterns' = patterns /\ matching'.pattern = matching.pattern
      /\ matching'.h = h /\ matching'.p = p /\ matching'.star = star /\ matching'.retry = retry
      /\ matching'.verdict = "open"
      /\ matching' = Turn(matching.pattern, h, p, star, retry, "open")
  BY DEF Steps, Turn
<1>2. Pattern' = Pattern
  BY <1>1 DEF Pattern
<1>B. h \in Nat /\ p \in Nat /\ star \in Nat \cup {NoStar} /\ retry \in Nat
  <2>1. Len(host) \in Nat /\ Len(Pattern) \in Nat
    BY OpenOK
  <2> QED BY <2>1 DEF Ongoing
<1>3. MatchTypeOK'
  <2>1. MatchTypeOK
    BY DEF MatchInv
  <2>2. matching.pattern \in 1..Len(patterns) + 1 /\ matching.pattern \in DOMAIN patterns
    BY <2>1 DEF MatchTypeOK
  <2>3. /\ host' \in Seq(Chars) /\ patterns' \in Seq(Seq(Letters))
        /\ matching'.pattern \in DOMAIN patterns'
    BY <1>1, <2>1, <2>2 DEF MatchTypeOK
  <2>4. matching' \in [pattern : 1..Len(patterns') + 1, h : Nat, p : Nat, star : Nat \cup {NoStar},
                       retry : Nat, verdict : {"open", "matched", "none"}]
    BY <1>1, <1>B, <2>2 DEF Turn
  <2> QED BY <2>3, <2>4 DEF MatchTypeOK
<1>4. Fitting'
  BY <1>1, <1>2 DEF Fitting, Ongoing
<1>5. NoneBehind'
  BY <1>1, <1>2 DEF NoneBehind, Ongoing
<1>6. \A i \in 1..matching'.pattern - 1 : ~Glob(host', patterns'[i])
  BY <1>1 DEF MatchInv
<1> QED BY <1>1, <1>3, <1>4, <1>5, <1>6 DEF MatchInv

(* A character of the name is no star. *)
LEMMA SameIsNoStar ==
  ASSUME MatchTypeOK, matching.h \in 0..Len(host) - 1, AtSame
  PROVE  /\ MorePattern /\ Pattern[matching.p + 1] # "*"
         /\ Pattern[matching.p + 1] \in {"?", host[matching.h + 1]}
<1>1. Len(host) \in Nat /\ \A i \in 1..Len(host) : host[i] \notin Wildcards
  BY LengthsOK
<1>2. matching.h + 1 \in 1..Len(host)
  BY <1>1
<1>3. host[matching.h + 1] # "*"
  BY <1>1, <1>2 DEF Wildcards
<1> QED BY <1>3 DEF AtSame

LEMMA ConsumeOK ==
  ASSUME MatchInv, Consume
  PROVE  MatchInv'
<1>0. matching.verdict = "open" /\ AtSame /\ MoreHost
  BY DEF Consume
<1> DEFINE h == matching.h
           p == matching.p
           star == matching.star
           retry == matching.retry
           R == Reached(host, Pattern)
<1>1. /\ MatchTypeOK /\ Fitting /\ NoneBehind /\ Len(host) \in Nat /\ Len(Pattern) \in Nat
      /\ h \in 0..Len(host) /\ p \in 0..Len(Pattern)
      /\ star \in Nat \cup {NoStar} /\ retry \in Nat
      /\ matching = Turn(matching.pattern, h, p, star, retry, matching.verdict)
  BY <1>0, OpenOK
<1>A. matching = Turn(matching.pattern, h, p, star, retry, "open")
  BY <1>0, <1>1
<1>2. h \in 0..Len(host) - 1
  BY <1>0, <1>1 DEF MoreHost
<1>3. p \in 0..Len(Pattern) - 1 /\ Pattern[p + 1] # "*" /\ Pattern[p + 1] \in {"?", host[h + 1]}
  BY <1>0, <1>1, <1>2, SameIsNoStar DEF MorePattern
<1>4. Steps(Turn(matching.pattern, h + 1, p + 1, star, retry, "open"))
  <2> DEFINE m1 == [matching EXCEPT !.h = h + 1]
  <2>1. Steps([m1 EXCEPT !.p = p + 1])
    BY DEF Consume
  <2> HIDE DEF h, p, star, retry
  <2>2. m1 = Turn(matching.pattern, h + 1, p, star, retry, "open")
    BY <1>A DEF Turn
  <2> HIDE DEF m1
  <2>3. [m1 EXCEPT !.p = p + 1] = Turn(matching.pattern, h + 1, p + 1, star, retry, "open")
    BY <2>2 DEF Turn
  <2> QED BY <2>1, <2>3
<1>5. /\ h \in R[p]
      /\ star # NoStar =>
           /\ star + 1 \in 1..p /\ Pattern[star + 1] = "*" /\ retry <= h
           /\ retry \in R[star + 1]
  BY <1>1 DEF Fitting
<1>6. \A at \in Alignments(host, Pattern) :
        /\ h <= at[p] /\ (star = NoStar => at[p] = h)
        /\ star # NoStar => retry <= at[star + 1] /\ (h < Len(host) /\ at[star + 1] = retry => at[p] = h)
  BY <1>1 DEF NoneBehind
<1> HIDE DEF h, p, star, retry
<1>7. h + 1 \in R[p + 1]
  <2>1. h < Len(host)
    BY <1>1, <1>2
  <2> QED BY <1>1, <1>3, <1>5, <2>1, ReachedMore
<1> HIDE DEF R
<1>8. ASSUME NEW at \in Alignments(host, Pattern)
      PROVE  /\ h + 1 <= at[p + 1] /\ (star = NoStar => at[p + 1] = h + 1)
             /\ star # NoStar =>
                  /\ retry <= at[star + 1]
                  /\ h + 1 < Len(host) /\ at[star + 1] = retry => at[p + 1] = h + 1
  <2>1. at[p + 1] = at[p] + 1
    BY <1>1, <1>3, AlignedOK
  <2>2. at[p] \in 0..Len(host)
    <3>1. at \in [0..Len(Pattern) -> 0..Len(host)]
      BY <1>1, AlignedOK
    <3> QED BY <1>1, <3>1
  <2>3. /\ h <= at[p] /\ (star = NoStar => at[p] = h)
        /\ star # NoStar => retry <= at[star + 1] /\ (h < Len(host) /\ at[star + 1] = retry => at[p] = h)
    BY <1>6
  <2>4. h < Len(host) /\ h + 1 <= at[p + 1]
    BY <1>1, <1>2, <2>1, <2>2, <2>3
  <2> QED BY <2>1, <2>3, <2>4
<1>9. /\ h + 1 \in Nat /\ p + 1 \in Nat /\ h + 1 \in 0..Len(host) /\ p + 1 \in 0..Len(Pattern)
      /\ star # NoStar => star + 1 \in 1..p + 1 /\ retry <= h + 1
  BY <1>1, <1>2, <1>3, <1>5
<1>10. star # NoStar =>
         /\ star + 1 \in 1..p + 1 /\ Pattern[star + 1] = "*" /\ retry <= h + 1
         /\ retry \in R[star + 1]
  BY <1>5, <1>9
<1>11. Ongoing(h + 1, p + 1, star, retry)
  BY <1>1, <1>7, <1>8, <1>9, <1>10 DEF R, Ongoing
<1> QED BY <1>0, <1>4, <1>11, GoesOn

LEMMA MeetStarOK ==
  ASSUME MatchInv, MeetStar
  PROVE  MatchInv'
<1>0. matching.verdict = "open" /\ AtStar /\ MoreHost
  BY DEF MeetStar
<1> DEFINE h == matching.h
           p == matching.p
           R == Reached(host, Pattern)
<1>1. /\ Fitting /\ NoneBehind /\ Len(host) \in Nat /\ Len(Pattern) \in Nat
      /\ h \in 0..Len(host) /\ p \in 0..Len(Pattern)
      /\ matching = Turn(matching.pattern, h, p, matching.star, matching.retry, matching.verdict)
  BY <1>0, OpenOK
<1>A. matching = Turn(matching.pattern, h, p, matching.star, matching.retry, "open")
  BY <1>0, <1>1
<1>2. p \in 0..Len(Pattern) - 1 /\ Pattern[p + 1] = "*"
  BY <1>0, <1>1 DEF AtStar, MorePattern
<1>3. Steps(Turn(matching.pattern, h, p + 1, p, h, "open"))
  <2> DEFINE m1 == [matching EXCEPT !.star = p]
             m2 == [m1 EXCEPT !.p = p + 1]
  <2>1. Steps([m2 EXCEPT !.retry = h])
    BY DEF MeetStar
  <2> HIDE DEF h, p
  <2>2. m1 = Turn(matching.pattern, h, p, p, matching.retry, "open")
    BY <1>A DEF Turn
  <2> HIDE DEF m1
  <2>3. m2 = Turn(matching.pattern, h, p + 1, p, matching.retry, "open")
    BY <2>2 DEF Turn
  <2> HIDE DEF m2
  <2>4. [m2 EXCEPT !.retry = h] = Turn(matching.pattern, h, p + 1, p, h, "open")
    BY <2>3 DEF Turn
  <2> QED BY <2>1, <2>4
<1>4. h \in R[p] /\ \A at \in Alignments(host, Pattern) : h <= at[p]
  BY <1>1 DEF Fitting, NoneBehind
<1> HIDE DEF h, p
<1>5. h \in R[p + 1]
  <2>1. h \in h..Len(host)
    BY <1>1
  <2> QED BY <1>1, <1>2, <1>4, <2>1, ReachedMore
<1> HIDE DEF R
<1>6. ASSUME NEW at \in Alignments(host, Pattern) PROVE h <= at[p + 1]
  <2>1. at[p] <= at[p + 1] /\ at \in [0..Len(Pattern) -> 0..Len(host)]
    BY <1>1, <1>2, AlignedOK
  <2>2. at[p] \in 0..Len(host) /\ at[p + 1] \in 0..Len(host) /\ h <= at[p]
    <3>1. p \in 0..Len(Pattern) /\ p + 1 \in 0..Len(Pattern)
      BY <1>1, <1>2
    <3> QED BY <1>4, <2>1, <3>1
  <2> QED BY <1>1, <2>1, <2>2
<1>7. /\ h \in Nat /\ p \in Nat /\ p + 1 \in Nat /\ p + 1 \in 0..Len(Pattern) /\ p + 1 \in 1..p + 1
      /\ h <= h /\ p # NoStar
  BY <1>1, <1>2 DEF NoStar
<1>8. \A at \in Alignments(host, Pattern) :
        /\ h <= at[p + 1] /\ (p = NoStar => at[p + 1] = h)
        /\ p # NoStar => h <= at[p + 1] /\ (h < Len(host) /\ at[p + 1] = h => at[p + 1] = h)
  BY <1>6, <1>7
<1>9. Ongoing(h, p + 1, p, h)
  BY <1>1, <1>2, <1>5, <1>7, <1>8 DEF R, Ongoing
<1> QED BY <1>0, <1>3, <1>9, GoesOn

(* Where the loop stands at neither a star nor the character asked for, an alignment is
   elsewhere. *)
LEMMA NoneHere ==
  ASSUME MatchInv, matching.verdict = "open", MoreHost, ~AtSame, ~AtStar,
         NEW at \in Alignments(host, Pattern)
  PROVE  at[matching.p] # matching.h
<1> SUFFICES ASSUME at[matching.p] = matching.h PROVE FALSE
  OBVIOUS
<1>1. /\ Len(host) \in Nat /\ Len(Pattern) \in Nat
      /\ matching.h \in 0..Len(host) /\ matching.p \in 0..Len(Pattern) /\ matching.h < Len(host)
  BY OpenOK DEF MoreHost
<1>2. /\ at[Len(Pattern)] = Len(host)
      /\ \A i \in 0..Len(Pattern) - 1 : Pattern[i + 1] # "*" => Pattern[i + 1] \in {"?", host[at[i] + 1]}
  BY <1>1, AlignedOK
<1>3. matching.p # Len(Pattern)
  BY <1>1, <1>2
<1>4. MorePattern /\ matching.p \in 0..Len(Pattern) - 1
  BY <1>1, <1>3 DEF MorePattern
<1>5. Pattern[matching.p + 1] # "*"
  BY <1>4 DEF AtStar
<1>6. Pattern[matching.p + 1] \in {"?", host[matching.h + 1]}
  BY <1>2, <1>4, <1>5
<1> QED BY <1>4, <1>6 DEF AtSame

LEMMA BackTrackOK ==
  ASSUME MatchInv, BackTrack
  PROVE  MatchInv'
<1>0. matching.verdict = "open" /\ MoreHost /\ ~AtSame /\ ~AtStar /\ matching.star # NoStar
  BY DEF BackTrack
<1> DEFINE h == matching.h
           p == matching.p
           star == matching.star
           retry == matching.retry
           R == Reached(host, Pattern)
<1>1. /\ Fitting /\ NoneBehind /\ Len(host) \in Nat /\ Len(Pattern) \in Nat
      /\ h \in 0..Len(host) /\ p \in 0..Len(Pattern)
      /\ star \in Nat \cup {NoStar} /\ retry \in Nat
      /\ matching = Turn(matching.pattern, h, p, star, retry, matching.verdict)
  BY <1>0, OpenOK
<1>A. matching = Turn(matching.pattern, h, p, star, retry, "open")
  BY <1>0, <1>1
<1>2. Steps(Turn(matching.pattern, retry + 1, star + 1, star, retry + 1, "open"))
  <2> DEFINE m1 == [matching EXCEPT !.p = star + 1]
             m2 == [m1 EXCEPT !.retry = retry + 1]
  <2>1. Steps([m2 EXCEPT !.h = retry + 1])
    BY DEF BackTrack
  <2> HIDE DEF h, p, star, retry
  <2>2. m1 = Turn(matching.pattern, h, star + 1, star, retry, "open")
    BY <1>A DEF Turn
  <2> HIDE DEF m1
  <2>3. m2 = Turn(matching.pattern, h, star + 1, star, retry + 1, "open")
    BY <2>2 DEF Turn
  <2> HIDE DEF m2
  <2>4. [m2 EXCEPT !.h = retry + 1] = Turn(matching.pattern, retry + 1, star + 1, star, retry + 1, "open")
    BY <2>3 DEF Turn
  <2> QED BY <2>1, <2>4
<1>3. /\ star + 1 \in 1..p /\ Pattern[star + 1] = "*" /\ retry <= h /\ retry \in R[star + 1]
      /\ star # NoStar
  BY <1>0, <1>1 DEF Fitting
<1>4. h < Len(host)
  BY <1>0 DEF MoreHost
<1>5. ASSUME NEW at \in Alignments(host, Pattern) PROVE retry + 1 <= at[star + 1]
  <2>1. retry <= at[star + 1] /\ (at[star + 1] = retry => at[p] = h)
    BY <1>0, <1>1, <1>4 DEF NoneBehind
  <2>2. at[p] # h
    BY <1>0, NoneHere
  <2>3. at[star + 1] \in 0..Len(host)
    <3>1. at \in [0..Len(Pattern) -> 0..Len(host)]
      BY <1>1, AlignedOK
    <3>2. star + 1 \in 0..Len(Pattern)
      BY <1>1, <1>3
    <3> QED BY <3>1, <3>2
  <2> QED BY <1>1, <2>1, <2>2, <2>3
<1> HIDE DEF h, p, star, retry
<1>6. star + 1 \in 1..Len(Pattern) /\ retry < Len(host) /\ star \in Nat
  BY <1>1, <1>3, <1>4
<1>7. retry + 1 \in R[star + 1]
  BY <1>1, <1>3, <1>6, StarReaches
<1> HIDE DEF R
<1>8. /\ retry + 1 \in 0..Len(host) /\ star + 1 \in 0..Len(Pattern) /\ retry + 1 \in Nat
      /\ star + 1 \in 1..star + 1 /\ retry + 1 <= retry + 1
  BY <1>1, <1>3, <1>6
<1>9. \A at \in Alignments(host, Pattern) :
        /\ retry + 1 <= at[star + 1] /\ (star = NoStar => at[star + 1] = retry + 1)
        /\ star # NoStar =>
             /\ retry + 1 <= at[star + 1]
             /\ retry + 1 < Len(host) /\ at[star + 1] = retry + 1 => at[star + 1] = retry + 1
  BY <1>3, <1>5
<1>10. Ongoing(retry + 1, star + 1, star, retry + 1)
  BY <1>3, <1>6, <1>7, <1>8, <1>9 DEF R, Ongoing
<1> QED BY <1>0, <1>2, <1>10, GoesOn

LEMMA MismatchOK ==
  ASSUME MatchInv, Mismatch
  PROVE  MatchInv'
<1>1. /\ matching.verdict = "open" /\ MoreHost /\ ~AtSame /\ ~AtStar /\ matching.star = NoStar
      /\ Steps(First(matching.pattern + 1))
  BY DEF Mismatch
<1>2. /\ MatchTypeOK /\ NoneBehind /\ Len(host) \in Nat /\ Len(Pattern) \in Nat
      /\ matching.pattern \in DOMAIN patterns
      /\ \A i \in 1..matching.pattern - 1 : ~Glob(host, patterns[i])
  BY <1>1, OpenOK
<1>3. Alignments(host, Pattern) = {}
  <2> SUFFICES ASSUME NEW at \in Alignments(host, Pattern) PROVE FALSE
    OBVIOUS
  <2>1. at[matching.p] = matching.h
    BY <1>1, <1>2 DEF NoneBehind
  <2> QED BY <1>1, <2>1, NoneHere
<1>4. ~Glob(host, Pattern)
  BY <1>2, <1>3, GlobAligned
<1> QED BY <1>1, <1>2, <1>4, NextPattern

LEMMA SkipStarOK ==
  ASSUME MatchInv, SkipStar
  PROVE  MatchInv'
<1>0. matching.verdict = "open" /\ ~MoreHost /\ AtStar
  BY DEF SkipStar
<1> DEFINE h == matching.h
           p == matching.p
           star == matching.star
           retry == matching.retry
           R == Reached(host, Pattern)
<1>1. /\ Fitting /\ NoneBehind /\ Len(host) \in Nat /\ Len(Pattern) \in Nat
      /\ h \in 0..Len(host) /\ p \in 0..Len(Pattern)
      /\ star \in Nat \cup {NoStar} /\ retry \in Nat
      /\ matching = Turn(matching.pattern, h, p, star, retry, matching.verdict)
  BY <1>0, OpenOK
<1>A. matching = Turn(matching.pattern, h, p, star, retry, "open")
  BY <1>0, <1>1
<1>2. p \in 0..Len(Pattern) - 1 /\ Pattern[p + 1] = "*" /\ h = Len(host)
  BY <1>0, <1>1 DEF AtStar, MorePattern, MoreHost
<1>3. Steps(Turn(matching.pattern, h, p + 1, star, retry, "open"))
  <2>1. Steps([matching EXCEPT !.p = p + 1])
    BY DEF SkipStar
  <2> HIDE DEF h, p, star, retry
  <2>2. [matching EXCEPT !.p = p + 1] = Turn(matching.pattern, h, p + 1, star, retry, "open")
    BY <1>A DEF Turn
  <2> QED BY <2>1, <2>2
<1>4. /\ h \in R[p]
      /\ star # NoStar =>
           /\ star + 1 \in 1..p /\ Pattern[star + 1] = "*" /\ retry <= h
           /\ retry \in R[star + 1]
  BY <1>1 DEF Fitting
<1>5. \A at \in Alignments(host, Pattern) :
        /\ h <= at[p] /\ (star # NoStar => retry <= at[star + 1])
  BY <1>1 DEF NoneBehind
<1> HIDE DEF h, p, star, retry
<1>6. h \in R[p + 1]
  <2>1. h \in h..Len(host)
    BY <1>1
  <2> QED BY <1>1, <1>2, <1>4, <2>1, ReachedMore
<1> HIDE DEF R
<1>7. ASSUME NEW at \in Alignments(host, Pattern) PROVE at[p + 1] = h
  <2>1. at[p] <= at[p + 1] /\ at \in [0..Len(Pattern) -> 0..Len(host)]
    BY <1>1, <1>2, AlignedOK
  <2>2. at[p] \in 0..Len(host) /\ at[p + 1] \in 0..Len(host) /\ h <= at[p]
    <3>1. p \in 0..Len(Pattern) /\ p + 1 \in 0..Len(Pattern)
      BY <1>1, <1>2
    <3> QED BY <1>5, <2>1, <3>1
  <2> QED BY <1>1, <1>2, <2>1, <2>2
<1>8. p + 1 \in 0..Len(Pattern) /\ (star # NoStar => star + 1 \in 1..p + 1) /\ h <= h
  BY <1>1, <1>2, <1>4
<1>9. \A at \in Alignments(host, Pattern) :
        /\ h <= at[p + 1] /\ (star = NoStar => at[p + 1] = h)
        /\ star # NoStar =>
             retry <= at[star + 1] /\ (h < Len(host) /\ at[star + 1] = retry => at[p + 1] = h)
  BY <1>5, <1>7, <1>8
<1>10. Ongoing(h, p + 1, star, retry)
  BY <1>1, <1>4, <1>6, <1>8, <1>9 DEF R, Ongoing
<1> QED BY <1>0, <1>3, <1>10, GoesOn

LEMMA EndOfHostOK ==
  ASSUME MatchInv, EndOfHost
  PROVE  MatchInv'
<1>0. matching.verdict = "open" /\ ~MoreHost /\ ~AtStar
  BY DEF EndOfHost
<1>1. /\ MatchTypeOK /\ Fitting /\ NoneBehind /\ Len(host) \in Nat /\ Len(Pattern) \in Nat
      /\ matching.h \in 0..Len(host) /\ matching.p \in 0..Len(Pattern)
      /\ matching.pattern \in DOMAIN patterns
      /\ \A i \in 1..matching.pattern - 1 : ~Glob(host, patterns[i])
  BY <1>0, OpenOK
<1>2. matching.h = Len(host)
  BY <1>0, <1>1 DEF MoreHost
<1>3. CASE MorePattern
  <2>1. matching.p \in 0..Len(Pattern) - 1 /\ Pattern[matching.p + 1] # "*"
    BY <1>0, <1>1, <1>3 DEF MorePattern, AtStar
  <2>2. Alignments(host, Pattern) = {}
    <3> SUFFICES ASSUME NEW at \in Alignments(host, Pattern) PROVE FALSE
      OBVIOUS
    <3>A. /\ \A i \in 0..Len(Pattern) - 1 : Pattern[i + 1] # "*" => at[i + 1] = at[i] + 1
          /\ at \in [0..Len(Pattern) -> 0..Len(host)]
      BY <1>1, AlignedOK
    <3>1. at[matching.p + 1] = at[matching.p] + 1 /\ at \in [0..Len(Pattern) -> 0..Len(host)]
      BY <2>1, <3>A
    <3>2. at[matching.p] \in 0..Len(host) /\ at[matching.p + 1] \in 0..Len(host)
      <4>1. matching.p \in 0..Len(Pattern) /\ matching.p + 1 \in 0..Len(Pattern)
        BY <1>1, <2>1
      <4> QED BY <3>1, <4>1
    <3>3. matching.h <= at[matching.p]
      BY <1>1 DEF NoneBehind
    <3> QED BY <1>1, <1>2, <3>1, <3>2, <3>3
  <2>3. ~Glob(host, Pattern)
    BY <1>1, <2>2, GlobAligned
  <2>4. Steps(First(matching.pattern + 1))
    BY <1>3 DEF EndOfHost
  <2> QED BY <1>1, <2>3, <2>4, NextPattern
<1>4. CASE ~MorePattern
  <2>1. matching.p = Len(Pattern)
    BY <1>1, <1>4 DEF MorePattern
  <2>2. Glob(host, Pattern)
    BY <1>1, <1>2, <2>1 DEF Fitting, Glob
  <2>3. /\ host' = host /\ patterns' = patterns /\ matching' = [matching EXCEPT !.verdict = "matched"]
    BY <1>4 DEF EndOfHost, Steps
  <2>4. /\ matching'.pattern = matching.pattern /\ matching'.verdict = "matched"
        /\ Pattern' = Pattern
    <3>1. matching \in [pattern : 1..Len(patterns) + 1, h : Nat, p : Nat, star : Nat \cup {NoStar},
                        retry : Nat, verdict : {"open", "matched", "none"}]
      BY <1>1 DEF MatchTypeOK
    <3> QED BY <2>3, <3>1 DEF Pattern
  <2>5. MatchTypeOK'
    BY <1>1, <2>3, <2>4 DEF MatchTypeOK
  <2> QED BY <1>1, <2>2, <2>3, <2>4, <2>5 DEF MatchInv
<1> QED BY <1>3, <1>4

LEMMA MatchStep ==
  ASSUME MatchInv, MatchNext
  PROVE  MatchInv'
BY ConsumeOK, MeetStarOK, BackTrackOK, MismatchOK, SkipStarOK, EndOfHostOK DEF MatchNext

LEMMA MatchStays ==
  ASSUME MatchInv, UNCHANGED matchVars
  PROVE  MatchInv'
<1>1. host' = host /\ patterns' = patterns /\ matching' = matching
  BY DEF matchVars
<1>2. MatchTypeOK' /\ Pattern' = Pattern
  BY <1>1 DEF MatchInv, MatchTypeOK, Pattern
<1>3. /\ matching.verdict = "open" => Fitting' /\ NoneBehind'
  BY <1>1, <1>2 DEF MatchInv, Fitting, NoneBehind
<1> QED BY <1>1, <1>2, <1>3 DEF MatchInv

LEMMA MatchSound ==
  ASSUME MatchInv
  PROVE  PatternsMatch
<1>1. matching.verdict = "none" => \A i \in DOMAIN patterns : ~Glob(host, patterns[i])
  <2> SUFFICES ASSUME matching.verdict = "none", NEW i \in DOMAIN patterns PROVE ~Glob(host, patterns[i])
    OBVIOUS
  <2>1. MatchTypeOK /\ matching.pattern = Len(patterns) + 1
    BY DEF MatchInv
  <2>2. DOMAIN patterns = 1..Len(patterns) /\ Len(patterns) \in Nat
    BY <2>1, LengthsOK
  <2>3. i \in 1..matching.pattern - 1
    BY <2>1, <2>2
  <2> QED BY <2>3 DEF MatchInv
<1> QED BY <1>1 DEF MatchInv, PatternsMatch
=============================================================================
