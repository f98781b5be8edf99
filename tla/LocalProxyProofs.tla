-------------------------- MODULE LocalProxyProofs --------------------------
(***************************************************************************)
(* Machine-checked proofs about LocalProxy, for every number of listeners, *)
(* workers and descriptors and every capacity of the queues.               *)
(*                                                                         *)
(* The invariants are proved in layers: types; the phases of start and     *)
(* stop (what is already over at each of their steps); the owners of the   *)
(* client descriptors.  The refinement of ProxyService needs the phases.   *)
(***************************************************************************)
EXTENDS LocalProxy, FiniteSetTheorems, SequenceTheorems, TLAPS

-----------------------------------------------------------------------------
(* Types.                                                                  *)

States == {"stopped", "starting", "running", "stopping", "error"}
LoopSteps == {"none", "poll", "ready", "failing", "exited"}

UdpWork == {NoWork} \union [at : {"process", "send"}, on : Udp]
TcpWork == {NoWork} \union [at : {"head", "recv", "process", "send", "release"}, on : Fds]

\* The order of the steps of a stop and of the catch block of start
Releasing == {"clearUdp", "joinUdp", "clearTcp", "joinTcp", "close"}

Steps == {"idle", "bind", "spawn", "join", "shutdown"} \union Releasing

\* The operation in progress and the steps that belong to it
OperationOK ==
  /\ control \in [op : {"none", "start", "stop"}, at : Steps]
  /\ control.op = "none" <=> control.at = "idle"
  /\ control.at \in {"bind", "spawn"} => control.op = "start"
  /\ control.at = "shutdown" => control.op = "stop"

ControlOK ==
  /\ state \in States /\ running \in BOOLEAN /\ OperationOK
  /\ sockets \in {{}, Listeners} /\ loop \in [Listeners -> LoopSteps]

JobsOK == udpJobs \in Seq(Udp) /\ tcpJobs \in Seq(Fds)

WorkersOK ==
  /\ worker \in [Workers -> UdpWork \union TcpWork]
  /\ \A h \in UdpWorkers : worker[h] \in UdpWork
  /\ \A h \in TcpWorkers : worker[h] \in TcpWork

TypeOK == ControlOK /\ JobsOK /\ WorkersOK /\ open \subseteq Fds

(* The initial state is well typed. *)
LEMMA TypeInit == Init => TypeOK
<1> SUFFICES ASSUME Init PROVE TypeOK
  OBVIOUS
<1>1. ControlOK
  BY DEF Init, ControlOK, OperationOK, NoOp, Steps, States, LoopSteps
<1>2. JobsOK
  BY EmptySeq DEF Init, JobsOK
<1>3. WorkersOK
  BY DEF Init, WorkersOK, Workers, UdpWork, TcpWork
<1> QED BY <1>1, <1>2, <1>3 DEF Init, TypeOK

(* The next step of an operation is one of its steps. *)
LEMMA GotoOK ==
  ASSUME OperationOK, NEW where \in Steps \ {"idle", "bind", "spawn", "shutdown"},
         control.at # "idle", Goto(where)
  PROVE  OperationOK' /\ control'.op = control.op /\ control'.at = where
BY DEF OperationOK, Goto, Steps, Releasing

(* start and stop go through the steps of their operation. *)
LEMMA TypeControl ==
  ASSUME TypeOK, BeginStart \/ BeginStop \/ Control
  PROVE  TypeOK'
<1> USE DEF TypeOK, ControlOK, queues, conns
<1>1. CASE BeginStart \/ BeginStop
  <2>1. OperationOK'
    BY <1>1 DEF BeginStart, BeginStop, OperationOK, Steps
  <2> QED BY <1>1, <2>1 DEF BeginStart, BeginStop, JobsOK, WorkersOK, States
<1>2. CASE Bind
  <2>1. OperationOK'
    BY <1>2 DEF Bind, Goto, OperationOK, Steps
  <2> QED BY <1>2, <2>1 DEF Bind, JobsOK, WorkersOK, States
<1>3. ASSUME NEW l \in Listeners, Spawn(l) PROVE TypeOK'
  BY <1>3 DEF Spawn, OperationOK, JobsOK, WorkersOK, LoopSteps
<1>4. CASE Spawned \/ CloseListeners
  <2>1. OperationOK'
    BY <1>4 DEF Spawned, CloseListeners, NoOp, OperationOK, Steps
  <2> QED BY <1>4, <2>1 DEF Spawned, CloseListeners, JobsOK, WorkersOK, States
<1>5. CASE StartThrows
  <2>1. OperationOK'
    BY <1>5, GotoOK DEF StartThrows, OperationOK, Steps
  <2> QED BY <1>5, <2>1 DEF StartThrows, JobsOK, WorkersOK
<1>6. CASE JoinListeners
  <2>1. OperationOK'
    BY <1>6 DEF JoinListeners, Goto, OperationOK, Steps, Releasing
  <2>2. loop' \in [Listeners -> LoopSteps]
    BY <1>6 DEF JoinListeners, LoopSteps
  <2> QED BY <1>6, <2>1, <2>2 DEF JoinListeners, JobsOK, WorkersOK
<1>7. CASE ShutdownClients \/ JoinUdp \/ JoinTcp
  <2>1. PICK where \in {"clearUdp", "clearTcp", "close"} : Goto(where) /\ control.at # "idle"
    BY <1>7 DEF ShutdownClients, JoinUdp, JoinTcp
  <2>2. OperationOK'
    BY <2>1, GotoOK DEF Steps, Releasing
  <2> QED BY <1>7, <2>2 DEF ShutdownClients, JoinUdp, JoinTcp, JobsOK, WorkersOK
<1>8. CASE ClearUdp \/ ClearTcp
  <2>1. OperationOK'
    BY <1>8, GotoOK DEF ClearUdp, ClearTcp, Steps, Releasing
  <2>2. JobsOK'
    BY <1>8, EmptySeq DEF ClearUdp, ClearTcp, JobsOK
  <2> QED BY <1>8, <2>1, <2>2 DEF ClearUdp, ClearTcp, WorkersOK
<1> QED BY <1>1, <1>2, <1>3, <1>4, <1>5, <1>6, <1>7, <1>8 DEF Control

(* A loop moves between its steps and queues what it was given. *)
LEMMA TypeListen ==
  ASSUME TypeOK, NEW l \in Listeners, Listen(l)
  PROVE  TypeOK'
<1> USE DEF TypeOK, queues, conns
<1>1. CASE Poll(l) \/ Again(l) \/ Trouble(l) \/ Break(l)
  <2>1. ControlOK'
    BY <1>1 DEF Poll, Again, Trouble, Break, LoopTo, ControlOK, OperationOK, LoopSteps, States
  <2> QED BY <1>1, <2>1 DEF Poll, Again, Trouble, Break, LoopTo, JobsOK, WorkersOK
<1>2. CASE Receive(l)
  <2>1. ControlOK' /\ WorkersOK'
    BY <1>2 DEF Receive, LoopTo, ControlOK, OperationOK, WorkersOK, LoopSteps
  <2>2. JobsOK'
    BY <1>2, AppendProperties DEF Receive, JobsOK
  <2> QED BY <1>2, <2>1, <2>2 DEF Receive
<1>3. ASSUME NEW fd \in Fds, Accept(l, fd) PROVE TypeOK'
  <2>1. ControlOK' /\ WorkersOK'
    BY <1>3 DEF Accept, LoopTo, ControlOK, OperationOK, WorkersOK, LoopSteps
  <2>2. JobsOK'
    BY <1>3, AppendProperties DEF Accept, JobsOK
  <2> QED BY <1>3, <2>1, <2>2 DEF Accept
<1> QED BY <1>1, <1>2, <1>3 DEF Listen

(* A worker goes through the steps of its own kind of job. *)
LEMMA TypeWork ==
  ASSUME TypeOK, NEW h \in Workers, Work(h)
  PROVE  TypeOK'
<1> USE DEF TypeOK, queues, conns
<1>1. ControlOK'
  BY DEF Work, TakeUdp, HandleUdp, TakeTcp, LoopHead, Recv, ProcessTcp, Release, WorkTo, ControlOK, OperationOK
<1>2. JobsOK'
  <2>1. CASE TakeUdp(h)
    BY <2>1, HeadTailProperties DEF TakeUdp, JobsOK
  <2>2. CASE TakeTcp(h)
    BY <2>2, HeadTailProperties DEF TakeTcp, JobsOK
  <2>3. CASE HandleUdp(h) \/ LoopHead(h) \/ Recv(h) \/ ProcessTcp(h) \/ Release(h)
    BY <2>3 DEF HandleUdp, LoopHead, Recv, ProcessTcp, Release, WorkTo, JobsOK
  <2> QED BY <2>1, <2>2, <2>3 DEF Work
<1>3. open' \subseteq Fds
  BY DEF Work, TakeUdp, HandleUdp, TakeTcp, LoopHead, Recv, ProcessTcp, Release
<1>4. WorkersOK'
  <2> USE LocalProxyConstants DEF WorkersOK, UdpWork, TcpWork, NoWork, Workers
  <2>1. CASE TakeUdp(h)
    BY <2>1, HeadTailProperties DEF TakeUdp, JobsOK
  <2>2. CASE TakeTcp(h)
    BY <2>2, HeadTailProperties DEF TakeTcp, JobsOK
  <2>3. CASE HandleUdp(h)
    BY <2>3 DEF HandleUdp, WorkTo, At
  <2>4. CASE LoopHead(h) \/ Recv(h) \/ Release(h)
    BY <2>4 DEF LoopHead, Recv, Release, WorkTo, At
  <2>5. CASE ProcessTcp(h)
    BY <2>5 DEF ProcessTcp, WorkTo, At
  <2> QED BY <2>1, <2>2, <2>3, <2>4, <2>5 DEF Work
<1> QED BY <1>1, <1>2, <1>3, <1>4

(* Every step keeps the types. *)
LEMMA TypeStep == TypeOK /\ [Next]_vars => TypeOK'
<1>1. ASSUME TypeOK, UNCHANGED vars PROVE TypeOK'
  BY <1>1 DEF TypeOK, ControlOK, OperationOK, JobsOK, WorkersOK, vars, queues, conns
<1> QED BY <1>1, TypeControl, TypeListen, TypeWork DEF Next

(* Every reachable state of the proxy is well typed.                       *)
THEOREM TypeCorrect == Spec => []TypeOK
BY TypeInit, TypeStep, PTL DEF Spec

-----------------------------------------------------------------------------
(* The phases of start and stop.                                           *)

\* Nobody runs and nothing waits to be run.
Quiet ==
  /\ \A l \in Listeners : loop[l] = "none"
  /\ udpJobs = <<>> /\ tcpJobs = <<>> /\ \A h \in Workers : Idle(h)

\* What a stop has put behind it at each of its steps
Released ==
  /\ control.at \in {"shutdown"} \union Releasing => \A l \in Listeners : loop[l] = "none"
  /\ control.at \in {"joinUdp", "clearTcp", "joinTcp", "close"} => udpJobs = <<>>
  /\ control.at \in {"clearTcp", "joinTcp", "close"} => \A h \in UdpWorkers : Idle(h)
  /\ control.at \in {"joinTcp", "close"} => tcpJobs = <<>>
  /\ control.at = "close" => \A h \in TcpWorkers : Idle(h)

\* Whoever runs, runs over open sockets; at rest the proxy runs or is empty.
Lifetime ==
  /\ running => control = NoOp \/ control.at = "spawn"
  /\ control.at = "spawn" => running
  /\ sockets = Listeners \/ Quiet
  /\ running => sockets = Listeners
  /\ control.at = "bind" \/ (control = NoOp /\ ~running) => sockets = {} /\ Quiet

\* What state says of a proxy no operation is working on or that has begun to run
Published ==
  /\ control = NoOp /\ ~running => state \in {"stopped", "error"}
  /\ control = NoOp /\ running => \A l \in Listeners : loop[l] # "none"
  /\ running => state = IF \E l \in Listeners : loop[l] = "exited" THEN "error" ELSE "running"

Phases == Released /\ Lifetime /\ Published

(* Before the first start nothing runs. *)
LEMMA PhasesInit == Init => Phases
BY DEF Init, Phases, Released, Lifetime, Published, Quiet, Idle, NoOp, Releasing

(* start moves through its phases. *)
LEMMA PhasesStart ==
  ASSUME TypeOK, Phases, BeginStart \/ Bind \/ Spawned \/ StartThrows \/ \E l \in Listeners : Spawn(l)
  PROVE  Phases'
<1> USE DEF Phases, TypeOK, ControlOK, OperationOK, Goto, NoOp, queues, conns
<1>1. CASE BeginStart
  BY <1>1 DEF BeginStart, Released, Lifetime, Published, Quiet, Idle, Releasing
<1>2. CASE Bind
  BY <1>2 DEF Bind, Released, Lifetime, Published, Quiet, Idle, Releasing
<1>3. CASE Spawned
  BY <1>3 DEF Spawned, Released, Lifetime, Published, Quiet, Idle, Releasing
<1>4. CASE StartThrows
  BY <1>4 DEF StartThrows, Released, Lifetime, Published, Quiet, Idle, Releasing
<1>5. ASSUME NEW l \in Listeners, Spawn(l) PROVE Phases'
  BY <1>5 DEF Spawn, Released, Lifetime, Published, Quiet, Idle, Releasing
<1> QED BY <1>1, <1>2, <1>3, <1>4, <1>5

(* stop moves through its phases, and so does the rollback of start. *)
LEMMA PhasesStop ==
  ASSUME TypeOK, Phases,
         \/ BeginStop \/ JoinListeners \/ ShutdownClients \/ ClearUdp \/ JoinUdp
         \/ ClearTcp \/ JoinTcp \/ CloseListeners
  PROVE  Phases'
<1> USE DEF Phases, TypeOK, ControlOK, OperationOK, Goto, NoOp, queues, conns
<1>1. CASE BeginStop
  BY <1>1 DEF BeginStop, Released, Lifetime, Published, Quiet, Idle, Releasing
<1>2. CASE JoinListeners
  BY <1>2 DEF JoinListeners, Released, Lifetime, Published, Quiet, Idle, Releasing
<1>3. CASE ShutdownClients
  BY <1>3 DEF ShutdownClients, Released, Lifetime, Published, Quiet, Idle, Releasing
<1>4. CASE ClearUdp
  BY <1>4 DEF ClearUdp, Released, Lifetime, Published, Quiet, Idle, Releasing
<1>5. CASE JoinUdp
  BY <1>5 DEF JoinUdp, Released, Lifetime, Published, Quiet, Idle, Releasing
<1>6. CASE ClearTcp
  BY <1>6 DEF ClearTcp, Released, Lifetime, Published, Quiet, Idle, Releasing
<1>7. CASE JoinTcp
  BY <1>7 DEF JoinTcp, Released, Lifetime, Published, Quiet, Idle, Releasing
<1>8. CASE CloseListeners
  BY <1>8 DEF CloseListeners, Released, Lifetime, Published, Quiet, Idle, Releasing, Workers
<1> QED BY <1>1, <1>2, <1>3, <1>4, <1>5, <1>6, <1>7, <1>8

(* A loop that moves or queues a job has not been joined. *)
LEMMA PhasesListen ==
  ASSUME TypeOK, Phases, NEW l \in Listeners, Listen(l)
  PROVE  Phases'
<1> USE DEF Phases, TypeOK, ControlOK, LoopTo, queues, conns
<1>1. CASE Poll(l)
  BY <1>1 DEF Poll, Released, Lifetime, Published, Quiet, Idle, Releasing
<1>2. CASE Again(l)
  BY <1>2 DEF Again, Released, Lifetime, Published, Quiet, Idle, Releasing
<1>3. CASE Trouble(l)
  BY <1>3 DEF Trouble, Released, Lifetime, Published, Quiet, Idle, Releasing
<1>4. CASE Break(l)
  BY <1>4 DEF Break, Released, Lifetime, Published, Quiet, Idle, Releasing
<1>5. CASE Receive(l) \/ \E fd \in Fds : Accept(l, fd)
  BY <1>5 DEF Receive, Accept, Released, Lifetime, Published, Quiet, Idle, Releasing
<1> QED BY <1>1, <1>2, <1>3, <1>4, <1>5 DEF Listen

(* A worker that takes or ends a job has not been joined. *)
LEMMA PhasesWork ==
  ASSUME TypeOK, Phases, NEW h \in Workers, Work(h)
  PROVE  Phases'
<1> USE DEF Phases, TypeOK, ControlOK, WorkersOK, queues, conns
<1>1. CASE TakeUdp(h)
  BY <1>1 DEF TakeUdp, Released, Lifetime, Published, Quiet, Idle, Releasing
<1>2. CASE TakeTcp(h)
  BY <1>2, LocalProxyConstants DEF TakeTcp, Released, Lifetime, Published, Quiet, Idle, Releasing
<1>3. CASE HandleUdp(h) \/ LoopHead(h) \/ Recv(h) \/ ProcessTcp(h) \/ Release(h)
  <2>1. PICK where : WorkTo(h, where)
    BY <1>3 DEF HandleUdp, LoopHead, Recv, ProcessTcp, Release
  <2>2. ~Idle(h)
    BY <1>3 DEF HandleUdp, LoopHead, Recv, ProcessTcp, Release, Idle, At, NoWork
  <2> QED BY <2>1, <2>2 DEF WorkTo, Released, Lifetime, Published, Quiet, Idle, Releasing
<1> QED BY <1>1, <1>2, <1>3 DEF Work

(* Every step keeps the phases. *)
LEMMA PhasesStep == TypeOK /\ Phases /\ [Next]_vars => Phases'
<1>1. ASSUME Phases, UNCHANGED vars PROVE Phases'
  BY <1>1 DEF Phases, Released, Lifetime, Published, Quiet, Idle, vars, queues
<1> QED BY <1>1, PhasesStart, PhasesStop, PhasesListen, PhasesWork DEF Next, Control

(* The phases of start and stop hold in every reachable state. *)
LEMMA PhasesCorrect == Spec => [](TypeOK /\ Phases)
BY TypeInit, TypeStep, PhasesInit, PhasesStep, PTL DEF Spec

(* A handler answers on a socket that is open: stop and the rollback of    *)
(* start close the listening sockets after they joined the handlers.       *)
THEOREM RepliesGoOut == Spec => []ReplySocketOpen
<1>1. TypeOK /\ Phases => ReplySocketOpen
  BY DEF TypeOK, WorkersOK, UdpWork, Idle, Phases, Lifetime, Quiet, ReplySocketOpen, Listeners, Workers
<1> QED BY <1>1, PhasesCorrect, PTL

-----------------------------------------------------------------------------
(* The owners of the client descriptors.                                   *)

Serves(h, fd) == ~Idle(h) /\ worker[h].on = fd
Queued(i, fd) == tcpJobs[i] = fd
Places == 1..Len(tcpJobs)

Owned ==
  \A fd \in Fds :
    fd \in open <=> (\E h \in TcpWorkers : Serves(h, fd)) \/ (\E i \in Places : Queued(i, fd))

OneOwner ==
  \A fd \in Fds :
    /\ \A g, h \in TcpWorkers : Serves(g, fd) /\ Serves(h, fd) => g = h
    /\ \A i, j \in Places : Queued(i, fd) /\ Queued(j, fd) => i = j
    /\ \A h \in TcpWorkers, i \in Places : ~(Serves(h, fd) /\ Queued(i, fd))

Ownership == clients = open /\ Owned /\ OneOwner

(* Nobody owns anything before the first start. *)
LEMMA OwnershipInit == Init => Ownership
BY DEF Init, Ownership, Owned, OneOwner, Serves, Queued, Places, Idle, Workers

\* What a step that neither begins nor ends the life of a connection leaves alone
OwnershipFrame ==
  /\ UNCHANGED <<clients, open, tcpJobs>>
  /\ \A h \in TcpWorkers, fd \in Fds : Serves(h, fd)' <=> Serves(h, fd)

(* Steps within the frame keep the owners. *)
LEMMA OwnershipFramed ==
  ASSUME Ownership, OwnershipFrame PROVE Ownership'
BY DEF Ownership, Owned, OneOwner, OwnershipFrame, Queued, Places

(* A tracked connection is queued once, and nobody else has its number. *)
LEMMA OwnershipAccept ==
  ASSUME TypeOK, Ownership, NEW l \in Listeners, NEW fd \in Fds, Accept(l, fd)
  PROVE  Ownership'
<1>1. CASE Room(tcpJobs, TcpCapacity)
  <2>1. /\ tcpJobs' = Append(tcpJobs, fd) /\ fd \notin open
        /\ clients' = clients \union {fd} /\ open' = open \union {fd} /\ UNCHANGED worker
    BY <1>1 DEF Accept, LoopTo
  <2> DEFINE last == Len(tcpJobs) + 1
  <2>2. /\ Places' = Places \union {last} /\ last \notin Places
        /\ \A i \in Places : tcpJobs'[i] = tcpJobs[i]
        /\ tcpJobs'[last] = fd
    BY <2>1, AppendProperties, LenProperties DEF TypeOK, JobsOK, Places
  <2> HIDE DEF last
  <2>3. \A h \in TcpWorkers, f \in Fds : Serves(h, f)' <=> Serves(h, f)
    BY <2>1 DEF Serves, Idle
  <2>4. Owned'
    BY <2>1, <2>2, <2>3 DEF Ownership, Owned, Queued
  <2>5. OneOwner'
    <3> SUFFICES ASSUME NEW f \in Fds
        PROVE  /\ \A g, h \in TcpWorkers : Serves(g, f)' /\ Serves(h, f)' => g = h
               /\ \A i, j \in Places' : tcpJobs'[i] = f /\ tcpJobs'[j] = f => i = j
               /\ \A h \in TcpWorkers, i \in Places' : ~(Serves(h, f)' /\ tcpJobs'[i] = f)
      BY DEF OneOwner, Queued
    <3>1. (\A h \in TcpWorkers : ~Serves(h, fd)) /\ (\A i \in Places : tcpJobs[i] # fd)
      BY <2>1 DEF Ownership, Owned, Queued
    <3>2. \A i \in Places' : tcpJobs'[i] = f => IF f = fd THEN i = last ELSE i \in Places /\ tcpJobs[i] = f
      BY <2>2, <3>1
    <3> QED BY <2>3, <3>1, <3>2 DEF Ownership, OneOwner, Queued
  <2> QED BY <2>1, <2>4, <2>5 DEF Ownership
<1>2. CASE ~Room(tcpJobs, TcpCapacity)
  BY <1>2, OwnershipFramed DEF Accept, LoopTo, conns, OwnershipFrame, Serves, Idle
<1> QED BY <1>1, <1>2

(* A worker that takes a connection becomes its owner in the queue's place.*)
LEMMA OwnershipTake ==
  ASSUME TypeOK, Ownership, NEW h \in TcpWorkers, TakeTcp(h)
  PROVE  Ownership'
<1> DEFINE fd == Head(tcpJobs)
<1>1. /\ fd \in Fds /\ fd = tcpJobs[1] /\ 1 \in Places
      /\ \A i \in Places' : i + 1 \in Places \ {1} /\ tcpJobs'[i] = tcpJobs[i + 1]
      /\ \A i, j \in Places' : i + 1 = j + 1 => i = j
      /\ \A i \in Places : i # 1 => i - 1 \in Places' /\ tcpJobs'[i - 1] = tcpJobs[i]
  BY HeadTailProperties, EmptySeq DEF TakeTcp, TypeOK, JobsOK, Places
<1>2. /\ ~Serves(h, fd) /\ \A g \in Fds : ~Serves(h, g) /\ (Serves(h, g)' <=> g = fd)
      /\ \A g \in TcpWorkers, f \in Fds : g # h => (Serves(g, f)' <=> Serves(g, f))
  BY <1>1 DEF TakeTcp, TypeOK, WorkersOK, Serves, Idle, NoWork, Workers
<1>3. UNCHANGED <<clients, open>>
  BY DEF TakeTcp, conns
<1> HIDE DEF fd
<1>4. Owned'
  BY <1>1, <1>2, <1>3 DEF Ownership, Owned, OneOwner, Queued
<1>5. OneOwner'
  <2> SUFFICES ASSUME NEW f \in Fds
      PROVE  /\ \A g, k \in TcpWorkers : Serves(g, f)' /\ Serves(k, f)' => g = k
             /\ \A i, j \in Places' : tcpJobs'[i] = f /\ tcpJobs'[j] = f => i = j
             /\ \A g \in TcpWorkers, i \in Places' : ~(Serves(g, f)' /\ tcpJobs'[i] = f)
    BY DEF OneOwner, Queued
  <2>1. \A g \in TcpWorkers : Serves(g, f)' /\ g # h => Serves(g, f) /\ f # fd
    BY <1>1, <1>2 DEF Ownership, OneOwner, Queued
  <2> QED BY <1>1, <1>2, <2>1 DEF Ownership, OneOwner, Queued
<1> QED BY <1>3, <1>4, <1>5 DEF Ownership

(* A worker that releases its connection closes and forgets that one only. *)
LEMMA OwnershipRelease ==
  ASSUME TypeOK, Ownership, NEW h \in TcpWorkers, Release(h)
  PROVE  Ownership'
<1> DEFINE fd == worker[h].on
<1>1. fd \in Fds /\ Serves(h, fd)
  BY DEF Release, TypeOK, WorkersOK, TcpWork, Serves, Idle
<1>2. /\ \A f \in Fds : ~Serves(h, f)'
      /\ \A g \in TcpWorkers, f \in Fds : g # h => (Serves(g, f)' <=> Serves(g, f))
      /\ \A f \in Fds : Serves(h, f) => f = fd
  BY DEF Release, WorkTo, TypeOK, WorkersOK, Serves, Idle, NoWork, Workers
<1>3. clients' = clients \ {fd} /\ open' = open \ {fd} /\ UNCHANGED tcpJobs
  BY DEF Release, WorkTo, queues
<1> HIDE DEF fd
<1> QED BY <1>1, <1>2, <1>3 DEF Ownership, Owned, OneOwner, Queued, Places

(* Clearing the queue closes and forgets exactly the connections in it.    *)
LEMMA OwnershipClear ==
  ASSUME TypeOK, Ownership, ClearTcp
  PROVE  Ownership'
<1>1. /\ clients' = clients \ ToSet(tcpJobs) /\ open' = open \ ToSet(tcpJobs)
      /\ Places' = {} /\ UNCHANGED worker
  BY EmptySeq DEF ClearTcp, Places
<1>2. \A fd \in Fds : fd \in ToSet(tcpJobs) <=> \E i \in Places : Queued(i, fd)
  BY LenProperties DEF ToSet, TypeOK, JobsOK, Places, Queued
<1> QED BY <1>1, <1>2 DEF Ownership, Owned, OneOwner, Serves, Idle

(* Every step keeps the owners. *)
LEMMA OwnershipStep == TypeOK /\ Ownership /\ [Next]_vars => Ownership'
<1> SUFFICES ASSUME TypeOK, Ownership, [Next]_vars PROVE Ownership'
  OBVIOUS
<1>1. ASSUME UNCHANGED <<clients, open, tcpJobs, worker>> PROVE Ownership'
  BY <1>1, OwnershipFramed DEF OwnershipFrame, Serves, Idle
<1>2. CASE BeginStart \/ BeginStop
  BY <1>1, <1>2 DEF BeginStart, BeginStop, queues, conns
<1>3. CASE Control /\ ~ClearTcp
  BY <1>1, <1>3 DEF Control, Bind, Spawn, Spawned, StartThrows, JoinListeners, ShutdownClients,
                    ClearUdp, JoinUdp, JoinTcp, CloseListeners, queues, conns
<1>4. ASSUME NEW l \in Listeners, Listen(l), \A fd \in Fds : ~Accept(l, fd) PROVE Ownership'
  BY <1>1, <1>4 DEF Listen, Poll, Again, Trouble, Break, Receive, LoopTo, queues, conns
<1>5. ASSUME NEW h \in UdpWorkers, Work(h) PROVE Ownership'
  <2>1. h \notin TcpWorkers /\ worker[h].at \in {"idle", "process", "send"}
    BY LocalProxyConstants DEF TypeOK, WorkersOK, UdpWork, NoWork
  <2>2. TakeUdp(h) \/ HandleUdp(h)
    BY <1>5, <2>1 DEF Work, TakeTcp, LoopHead, Recv, ProcessTcp, Release, At
  <2>3. UNCHANGED <<clients, open, tcpJobs>> /\ \A g \in TcpWorkers : worker'[g] = worker[g]
    BY <2>1, <2>2 DEF TakeUdp, HandleUdp, WorkTo, queues, conns, TypeOK, WorkersOK, Workers
  <2> QED BY <2>3, OwnershipFramed DEF OwnershipFrame, Serves, Idle
<1>6. ASSUME NEW h \in TcpWorkers, LoopHead(h) \/ Recv(h) \/ ProcessTcp(h) PROVE Ownership'
  <2>1. PICK where \in {"head", "recv", "process", "send", "release"} : WorkTo(h, where)
    BY <1>6 DEF LoopHead, Recv, ProcessTcp
  <2>2. ~Idle(h)
    BY <1>6 DEF LoopHead, Recv, ProcessTcp, Idle, At, NoWork
  <2>3. UNCHANGED <<clients, open, tcpJobs>>
    BY <1>6 DEF LoopHead, Recv, ProcessTcp, WorkTo, queues, conns
  <2>4. worker' = [worker EXCEPT ![h].at = where]
    BY <2>1 DEF WorkTo
  <2>5. \A g \in TcpWorkers : Idle(g)' = Idle(g) /\ (~Idle(g) => worker'[g].on = worker[g].on)
    BY <2>2, <2>4 DEF TypeOK, WorkersOK, TcpWork, Idle, NoWork, Workers
  <2> QED BY <2>3, <2>5, OwnershipFramed DEF OwnershipFrame, Serves
<1>7. ASSUME NEW h \in TcpWorkers, Work(h) PROVE Ownership'
  BY <1>6, <1>7, OwnershipTake, OwnershipRelease, LocalProxyConstants DEF Work, TakeUdp, HandleUdp
<1>8. CASE UNCHANGED vars
  BY <1>1, <1>8 DEF vars, queues, conns
<1> QED BY <1>2, <1>3, <1>4, <1>5, <1>7, <1>8, OwnershipAccept, OwnershipClear
        DEF Next, Control, Listen, Workers

(* Every reachable state has its phases and its owners in order. *)
LEMMA ProxyCorrect == Spec => [](TypeOK /\ Phases /\ Ownership)
BY PhasesCorrect, OwnershipInit, OwnershipStep, PTL DEF Spec

(* Exactly the open client descriptors are tracked, each with one owner:   *)
(* what stop shuts down is what it waits for.                              *)
THEOREM TrackingHolds == Spec => []ClientsTracked
<1>1. ASSUME TypeOK, Ownership PROVE ClientsTracked
  <2> SUFFICES ASSUME NEW fd \in Fds PROVE Owners(fd) = IF fd \in open THEN 1 ELSE 0
    BY <1>1 DEF ClientsTracked, Ownership
  <2> DEFINE A == {h \in TcpWorkers : Serves(h, fd)}
             B == {i \in Places : Queued(i, fd)}
  <2>1. Owners(fd) = Cardinality(A) + Cardinality(B)
    BY DEF Owners, Serves, Places, Queued
  <2>2. /\ Cardinality({}) = 0 /\ \A x : Cardinality({x}) = 1
    BY FS_EmptySet, FS_Singleton
  <2>3. CASE fd \notin open
    <3>1. A = {} /\ B = {}
      BY <1>1, <2>3 DEF Ownership, Owned
    <3> QED BY <2>1, <2>2, <2>3, <3>1
  <2>4. ASSUME fd \in open, NEW h \in TcpWorkers, Serves(h, fd)
        PROVE  Owners(fd) = IF fd \in open THEN 1 ELSE 0
    <3>1. A = {h} /\ B = {}
      BY <1>1, <2>4 DEF Ownership, OneOwner
    <3> QED BY <2>1, <2>2, <2>4, <3>1
  <2>5. ASSUME fd \in open, NEW i \in Places, Queued(i, fd)
        PROVE  Owners(fd) = IF fd \in open THEN 1 ELSE 0
    <3>1. A = {} /\ B = {i}
      BY <1>1, <2>5 DEF Ownership, OneOwner
    <3> QED BY <2>1, <2>2, <2>5, <3>1
  <2> QED BY <1>1, <2>3, <2>4, <2>5 DEF Ownership, Owned
<1> QED BY <1>1, ProxyCorrect, PTL

(* A start that failed and a stop that returned leave nothing behind.      *)
THEOREM NothingLeftHolds == Spec => []NothingLeft
<1>1. ASSUME TypeOK, Phases, Ownership PROVE NothingLeft
  <2>1. ASSUME Quiet PROVE open = {}
    <3>1. Places = {}
      BY <2>1, EmptySeq DEF Quiet, Places
    <3>2. \A h \in TcpWorkers : Idle(h)
      BY <2>1 DEF Quiet, Workers
    <3> QED BY <1>1, <3>1, <3>2 DEF TypeOK, Ownership, Owned, Serves
  <2> QED BY <1>1, <2>1 DEF NothingLeft, Phases, Lifetime, Quiet
<1> QED BY <1>1, ProxyCorrect, PTL

-----------------------------------------------------------------------------
(* The proxy implements ProxyService.                                      *)

\* The abstract step, or none
ServiceStep == [Service!Next]_(Service!service)

\* What a step the callers cannot see leaves alone
Unseen == UNCHANGED <<Reported, Serving, sockets>>

(* An invisible step is a stuttering step. *)
LEMMA UnseenStutters == ASSUME Unseen PROVE ServiceStep
BY DEF Unseen, ServiceStep, Service!service

(* While an operation is in progress the callers read its name, and the    *)
(* names are those of the abstract specification.                          *)
LEMMA ReportedFacts ==
  ASSUME TypeOK
  PROVE  /\ control.op = "start" => Reported = "starting"
         /\ control.op = "stop" => Reported = "stopping"
         /\ control = NoOp => Reported = state
         /\ control # NoOp => control.op \in {"start", "stop"}
BY DEF TypeOK, ControlOK, OperationOK, NoOp, Steps, Reported

(* The initial state is an abstract initial state. *)
LEMMA RefineInit == Init => Service!Init
BY DEF Init, Service!Init, NoOp, Reported, Serving

(* start: an abstract BeginStart, changes, an abstract Started. *)
LEMMA RefineStart ==
  ASSUME TypeOK, TypeOK', Phases,
         BeginStart \/ Bind \/ Spawned \/ StartThrows \/ \E l \in Listeners : Spawn(l)
  PROVE  ServiceStep
<1>1. CASE BeginStart
  <2>1. Reported = "stopped" /\ Reported' = "starting" /\ UNCHANGED <<Serving, sockets>>
    BY <1>1, ReportedFacts DEF BeginStart, Reported, Serving
  <2> QED BY <2>1 DEF ServiceStep, Service!Next, Service!BeginStart
<1>2. CASE Bind
  <2>1. Reported = "starting" /\ Reported' = "starting"
    BY <1>2, ReportedFacts DEF Bind, Goto, Reported, TypeOK, ControlOK, OperationOK
  <2>2. Serving = {} /\ Serving' = {}
    BY <1>2 DEF Bind, Serving, Phases, Lifetime, Quiet
  <2> QED BY <2>1, <2>2 DEF ServiceStep, Service!Next, Service!Internal, Service!Changes, Service!Change
<1>3. ASSUME NEW l \in Listeners, Spawn(l) PROVE ServiceStep
  <2>1. Reported = "starting" /\ UNCHANGED <<Reported, sockets>>
    BY <1>3, ReportedFacts DEF Spawn, Reported, TypeOK, ControlOK, OperationOK
  <2>2. Serving' = Serving \union {l}
    BY <1>3 DEF Spawn, Serving, Phases, Lifetime, TypeOK, ControlOK, LoopSteps
  <2> QED BY <2>1, <2>2 DEF ServiceStep, Service!Next, Service!Internal, Service!Changes, Service!Change
<1>4. CASE Spawned
  <2>1. sockets = Listeners /\ sockets # {} /\ running
    BY <1>4, LocalProxyConstants DEF Spawned, Phases, Lifetime, Listeners
  <2>2. Reported = "starting" /\ Reported' = state /\ UNCHANGED <<Serving, sockets>>
    BY <1>4, ReportedFacts DEF Spawned, Reported, Serving, TypeOK, ControlOK, OperationOK, NoOp
  <2>3. Serving = Listeners <=> \A l \in Listeners : loop[l] # "exited"
    BY <1>4, <2>1 DEF Spawned, Serving
  <2>4. state = IF Serving = Listeners THEN "running" ELSE "error"
    BY <2>1, <2>3 DEF Phases, Published
  <2> QED BY <2>1, <2>2, <2>4 DEF ServiceStep, Service!Next, Service!Internal, Service!Started
<1>5. CASE StartThrows
  BY <1>5, UnseenStutters DEF StartThrows, Goto, Unseen, Reported, Serving, TypeOK, ControlOK, OperationOK
<1> QED BY <1>1, <1>2, <1>3, <1>4, <1>5

(* stop: an abstract BeginStop, changes, an abstract Stopped; the rollback *)
(* of start ends with an abstract StartFails.                              *)
LEMMA RefineStop ==
  ASSUME TypeOK, TypeOK', Phases,
         \/ BeginStop \/ JoinListeners \/ ShutdownClients \/ ClearUdp \/ JoinUdp
         \/ ClearTcp \/ JoinTcp \/ CloseListeners
  PROVE  ServiceStep
<1>1. CASE BeginStop
  <2>1. Reported' = "stopping" /\ UNCHANGED <<Serving, sockets>>
    BY <1>1 DEF BeginStop, Reported, Serving
  <2>2. Reported = state /\ state \in {"running", "error"}
    BY <1>1, ReportedFacts DEF BeginStop, Phases, Published, TypeOK, ControlOK
  <2> QED BY <2>1, <2>2 DEF ServiceStep, Service!Next, Service!BeginStop
<1>2. CASE JoinListeners
  <2>1. Serving = {} /\ Serving' = {}
    BY <1>2 DEF JoinListeners, Serving, TypeOK, ControlOK
  <2>2. UNCHANGED <<Reported, sockets>>
    BY <1>2 DEF JoinListeners, Goto, Reported, TypeOK, ControlOK, OperationOK
  <2> QED BY <2>1, <2>2, UnseenStutters DEF Unseen
<1>3. CASE ShutdownClients \/ ClearUdp \/ JoinUdp \/ ClearTcp \/ JoinTcp
  <2>1. PICK where : Goto(where) /\ UNCHANGED <<state, loop, sockets>>
    BY <1>3 DEF ShutdownClients, ClearUdp, JoinUdp, ClearTcp, JoinTcp
  <2> QED BY <2>1, UnseenStutters DEF Unseen, Goto, Reported, Serving, TypeOK, ControlOK, OperationOK
<1>4. CASE CloseListeners
  <2>1. Serving' = {} /\ sockets' = {}
    BY <1>4 DEF CloseListeners, Serving
  <2>2. Reported' = IF control.op = "stop" THEN "stopped" ELSE "error"
    BY <1>4 DEF CloseListeners, Reported, NoOp
  <2>3. Reported = IF control.op = "stop" THEN "stopping" ELSE "starting"
    BY <1>4, ReportedFacts DEF CloseListeners, NoOp
  <2> QED BY <2>1, <2>2, <2>3 DEF ServiceStep, Service!Next, Service!Internal, Service!Stopped, Service!StartFails
<1> QED BY <1>1, <1>2, <1>3, <1>4

(* A loop that ends while an operation is in progress is one of its        *)
(* changes, one that ends by itself an abstract Fail.                      *)
LEMMA RefineListen ==
  ASSUME TypeOK, Phases, NEW l \in Listeners, Listen(l)
  PROVE  ServiceStep
<1>1. loop[l] # "none" /\ sockets = Listeners
  BY DEF Listen, Poll, Again, Trouble, Break, Receive, Accept, Phases, Lifetime, Quiet
<1>2. PICK where \in LoopSteps \ {"none"} : loop' = [loop EXCEPT ![l] = where]
  BY DEF Listen, Poll, Again, Trouble, Break, Receive, Accept, LoopTo, LoopSteps
<1>3. UNCHANGED <<control, sockets>>
  BY DEF Listen, Poll, Again, Trouble, Break, Receive, Accept, LoopTo
<1>4. Serving' = IF where = "exited" THEN Serving \ {l} ELSE Serving \union {l}
  BY <1>1, <1>2, <1>3 DEF Serving, TypeOK, ControlOK, LoopSteps
<1>5. loop[l] # "exited" /\ l \in Serving
  BY <1>1 DEF Listen, Poll, Again, Trouble, Break, Receive, Accept, Serving
<1>6. CASE where # "exited"
  <2>1. UNCHANGED state
    BY <1>2, <1>6 DEF Listen, Poll, Again, Trouble, Break, Receive, Accept, LoopTo, TypeOK, ControlOK
  <2> QED BY <1>3, <1>4, <1>5, <1>6, <2>1, UnseenStutters DEF Unseen, Reported
<1>7. CASE where = "exited" /\ control # NoOp
  <2>1. Reported \in {"starting", "stopping"} /\ UNCHANGED Reported
    BY <1>3, <1>7, ReportedFacts DEF Reported
  <2> QED BY <1>3, <1>4, <1>7, <2>1
          DEF ServiceStep, Service!Next, Service!Internal, Service!Changes, Service!Change
<1>8. CASE where = "exited" /\ control = NoOp
  <2>1. running /\ state \in {"running", "error"}
    BY <1>1, <1>8 DEF Phases, Lifetime, Published, Quiet, TypeOK, ControlOK
  <2>2. state' = "error"
    BY <1>2, <1>8, <2>1
       DEF Listen, Poll, Again, Trouble, Break, Receive, Accept, LoopTo, TypeOK, ControlOK
  <2>3. Reported = state /\ Reported' = "error"
    BY <1>3, <1>8, <2>2, ReportedFacts DEF Reported, NoOp
  <2> QED BY <1>3, <1>4, <1>5, <1>8, <2>1, <2>3
          DEF ServiceStep, Service!Next, Service!Internal, Service!Fail
<1> QED BY <1>6, <1>7, <1>8

(* Callers see nothing of the handlers. *)
LEMMA RefineWork ==
  ASSUME NEW h \in Workers, Work(h) PROVE ServiceStep
<1>1. UNCHANGED <<state, control, sockets, loop>>
  BY DEF Work, TakeUdp, HandleUdp, TakeTcp, LoopHead, Recv, ProcessTcp, Release, WorkTo
<1> QED BY <1>1, UnseenStutters DEF Unseen, Reported, Serving

(* Every step of the proxy is an abstract step or a stutter. *)
LEMMA RefineStep == TypeOK /\ TypeOK' /\ Phases /\ [Next]_vars => ServiceStep
<1>1. ASSUME UNCHANGED vars PROVE ServiceStep
  BY <1>1, UnseenStutters DEF vars, Unseen, Reported, Serving
<1> QED BY <1>1, RefineStart, RefineStop, RefineListen, RefineWork DEF Next, Control

(* The proxy implements what ProxyService promises its callers: operations *)
(* are serialised, "running" means that every listener is served, a        *)
(* listener that failed shows as "error", a stopped proxy serves nothing.  *)
THEOREM ImplementsService == Spec => Implements
BY RefineInit, RefineStep, PhasesCorrect, PTL DEF Spec, Implements, Service!Spec, ServiceStep
=============================================================================
