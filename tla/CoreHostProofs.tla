--------------------------- MODULE CoreHostProofs ---------------------------
(***************************************************************************)
(* Machine-checked proofs about CoreHost, for any number of IPC workers,   *)
(* commands, restarts, failures and versions of the configuration.         *)
(*                                                                         *)
(* Three layers on the types: a command runs only on an endpoint that is   *)
(* not down, and an endpoint that is no longer in `todo` of a stop is down *)
(* (QuietAtEnd); who requested the end of this object has left a trace of  *)
(* why (RestartHonoured); a reload between its read of the file and its    *)
(* effect is alone, and what it read is between the active configuration   *)
(* and the file (ReloadMonotonic).                                         *)
(***************************************************************************)
EXTENDS CoreHost, SequenceTheorems, TLAPS

-----------------------------------------------------------------------------
(* Types.                                                                  *)

Places == {"boot", "starting", "rollback", "wait", "decide", "recover", "stopping", "exited"}
Stages == {"received", "loaded", "locked", "flagged", "respond"}
Commands == [at : Stages, on : Endpoints, op : Operations, loaded : Nat]

HostOK ==
  /\ main \in Places /\ todo \in Seq(Endpoints)
  /\ failing \in BOOLEAN /\ again \in BOOLEAN /\ shutdown \in BOOLEAN /\ restart \in BOOLEAN
  /\ asked \in SUBSET {"restart", "shutdown"}
  /\ provider \in {"stopped", "running", "error"}
  /\ active \in Nat /\ disk \in Nat

EndpointsOK == endpoint \in [Endpoints -> {"down", "up", "failed", "closing"}]
CommandsOK == worker \in [Workers -> {Idle} \union Commands]

TypeOK == HostOK /\ EndpointsOK /\ CommandsOK

(* The three orders are sequences of all endpoints. *)
LEMMA Orders ==
  \A order \in {StartOrder, StopOrder, RollbackOrder} :
    order \in Seq(Endpoints) /\ \A e \in Endpoints : \E i \in 1..Len(order) : order[i] = e
<1>1. {StartOrder, StopOrder, RollbackOrder} \subseteq Seq(Endpoints)
  BY DEF StartOrder, StopOrder, RollbackOrder, Endpoints
<1>2. \A order \in {StartOrder, StopOrder, RollbackOrder} :
        Len(order) = 3 /\ \A e \in Endpoints : order[1] = e \/ order[2] = e \/ order[3] = e
  BY DEF StartOrder, StopOrder, RollbackOrder, Endpoints
<1>3. 1 \in 1..3 /\ 2 \in 1..3 /\ 3 \in 1..3
  OBVIOUS
<1> QED BY <1>1, <1>2, <1>3

(* The initial state is well typed. *)
LEMMA TypeInit == Init => TypeOK
<1> SUFFICES ASSUME Init PROVE TypeOK
  OBVIOUS
<1>1. HostOK
  BY EmptySeq DEF Init, HostOK, Places
<1>2. EndpointsOK /\ CommandsOK
  BY DEF Init, EndpointsOK, CommandsOK
<1> QED BY <1>1, <1>2 DEF TypeOK

(* A command that moves on keeps the types. *)
LEMMA GotoFacts ==
  ASSUME CommandsOK, NEW w \in Workers, NEW stage \in Stages, Goto(w, stage), Busy(w)
  PROVE  /\ CommandsOK'
         /\ worker' = [worker EXCEPT ![w] = worker'[w]]
         /\ worker'[w] \in Commands /\ worker'[w].at = stage
         /\ worker'[w].on = worker[w].on /\ worker'[w].op = worker[w].op
         /\ worker'[w].loaded = worker[w].loaded
<1>1. worker[w] \in Commands
  BY DEF CommandsOK, Busy
<1>2. [worker[w] EXCEPT !.at = stage] \in Commands
  BY <1>1 DEF Commands
<1>3. worker'[w] = [worker[w] EXCEPT !.at = stage]
  BY DEF Goto, CommandsOK
<1> QED BY <1>1, <1>2, <1>3 DEF Goto, CommandsOK, Commands

(* A step of a command moves this command and leaves the main thread and   *)
(* the endpoints alone.                                                    *)
LEMMA HandleFacts ==
  ASSUME TypeOK, NEW w \in Workers, Handle(w)
  PROVE  /\ Busy(w) /\ UNCHANGED <<main, todo, life, failing, again, disk, endpoint>>
         /\ CommandsOK' /\ HostOK'
         /\ \A v \in Workers : v # w => worker'[v] = worker[v]
         /\ worker'[w] = Idle \/ (worker'[w] \in Commands /\ worker'[w].on = worker[w].on
                                   /\ worker'[w].op = worker[w].op)
<1> USE DEF TypeOK, HostOK, host, flags, At, Idle
<1>1. Busy(w)
  BY DEF Handle, LoadConfig, Lock, DoStart, DoStop, DoRead, DoReload, Restart, Shutdown, Respond,
         Busy
<1>2. CASE LoadConfig(w)
  <2>1. worker[w] \in Commands
    BY <1>1 DEF CommandsOK, Busy
  <2>2. worker' = [worker EXCEPT ![w] = worker'[w]] /\ worker'[w] \in Commands
        /\ worker'[w].on = worker[w].on /\ worker'[w].op = worker[w].op
    BY <1>2, <2>1 DEF LoadConfig, CommandsOK, Commands, Stages
  <2> QED BY <1>1, <1>2, <2>2 DEF LoadConfig, CommandsOK
<1>3. CASE Lock(w)
  BY <1>1, <1>3, GotoFacts DEF Lock, Stages, CommandsOK
<1>4. CASE DoStart(w) \/ DoStop(w) \/ DoRead(w)
  <2>1. Goto(w, "respond")
    BY <1>4 DEF DoStart, DoStop, DoRead, Done, Refused
  <2>2. HostOK' /\ UNCHANGED <<main, todo, life, failing, again, disk, endpoint>>
    BY <1>4 DEF DoStart, DoStop, DoRead, Done, Refused
  <2> QED BY <1>1, <2>1, <2>2, GotoFacts DEF Stages, CommandsOK
<1>5. CASE DoReload(w)
  <2>1. Goto(w, "respond") /\ worker[w].loaded \in Nat
    BY <1>1, <1>5 DEF DoReload, Done, Refused, CommandsOK, Commands, Busy
  <2>2. HostOK' /\ UNCHANGED <<main, todo, life, failing, again, disk, endpoint>>
    BY <1>5, <2>1 DEF DoReload, Done, Refused
  <2> QED BY <1>1, <2>1, <2>2, GotoFacts DEF Stages, CommandsOK
<1>6. CASE Restart(w) \/ Shutdown(w)
  <2>1. \E stage \in Stages : Goto(w, stage)
    BY <1>6 DEF Restart, Shutdown, Stages
  <2>2. HostOK' /\ UNCHANGED <<main, todo, life, failing, again, disk, endpoint>>
    BY <1>6 DEF Restart, Shutdown, Publish
  <2> QED BY <1>1, <2>1, <2>2, GotoFacts DEF CommandsOK
<1>7. CASE Respond(w)
  BY <1>1, <1>7 DEF Respond, CommandsOK
<1> QED BY <1>2, <1>3, <1>4, <1>5, <1>6, <1>7 DEF Handle

(* The main thread keeps the types. *)
LEMMA TypeMain == TypeOK /\ MainStep => TypeOK'
<1> SUFFICES ASSUME TypeOK, MainStep PROVE TypeOK'
  OBVIOUS
<1> USE Orders DEF TypeOK, HostOK, EndpointsOK, host, flags, Places
<1>1. CommandsOK' /\ UNCHANGED worker
  BY DEF MainStep, Boot, BootFails, StartEndpoint, StartEndpointFails, Started, WaitEnds,
     WaitTimesOut, RecoverEnds, Recover, RecoverFails, Inspect, Decide, CloseEndpoint,
     JoinEndpoint, StopProvider, CommandsOK
<1>2. todo # <<>> => Head(todo) \in Endpoints /\ Tail(todo) \in Seq(Endpoints)
  BY HeadTailProperties
<1>3. CASE Boot \/ BootFails
  BY <1>1, <1>3 DEF Boot, BootFails, Unwind
<1>4. CASE StartEndpoint \/ StartEndpointFails \/ Started
  BY <1>1, <1>2, <1>4 DEF StartEndpoint, StartEndpointFails, Started, Unwind
<1>5. CASE WaitEnds \/ WaitTimesOut \/ RecoverEnds
  <2>1. todo' = todo \/ todo' = StartOrder \/ todo' = <<>>
    BY <1>5 DEF WaitEnds, WaitTimesOut, RecoverEnds
  <2>2. todo' \in Seq(Endpoints)
    <3>1. <<>> \in Seq(Endpoints) /\ StartOrder \in Seq(Endpoints) /\ todo \in Seq(Endpoints)
      BY EmptySeq
    <3> QED BY <2>1, <3>1
  <2>3. main' \in Places /\ UNCHANGED <<failing, again, flags, provider, active, disk, endpoint>>
    BY <1>5 DEF WaitEnds, WaitTimesOut, RecoverEnds
  <2> QED BY <1>1, <2>2, <2>3
<1>6. CASE Recover
  BY <1>1, <1>2, <1>6 DEF Recover
<1>7. CASE RecoverFails \/ Inspect \/ Decide
  BY <1>1, <1>2, <1>7 DEF RecoverFails, Inspect, Decide, Fail
<1>8. CASE CloseEndpoint \/ JoinEndpoint \/ StopProvider
  BY <1>1, <1>2, <1>8 DEF CloseEndpoint, JoinEndpoint, StopProvider
<1> QED BY <1>3, <1>4, <1>5, <1>6, <1>7, <1>8 DEF MainStep

\* The steps of clients and failures
Environment ==
  \/ \E w \in Workers, e \in Endpoints, op \in Operations : Accept(w, e, op)
  \/ SaveConfig \/ ProviderFails \/ \E e \in Endpoints : EndpointFails(e)
  \/ Exited

(* Clients and failures keep the types. *)
LEMMA TypeEnvironment == TypeOK /\ Environment => TypeOK'
<1> SUFFICES ASSUME TypeOK, Environment PROVE TypeOK'
  OBVIOUS
<1> USE DEF TypeOK, HostOK, EndpointsOK, CommandsOK, host, flags
<1>1. ASSUME NEW w \in Workers, NEW e \in Endpoints, NEW op \in Operations, Accept(w, e, op)
      PROVE  TypeOK'
  <2>1. [at |-> "received", on |-> e, op |-> op, loaded |-> 0] \in Commands
    BY DEF Commands, Stages
  <2> QED BY <1>1, <2>1 DEF Accept
<1>2. CASE SaveConfig \/ ProviderFails \/ Exited
  <2>1. UNCHANGED <<main, todo, failing, again, flags, active, endpoint, worker>>
    BY <1>2 DEF SaveConfig, ProviderFails, Exited, vars
  <2>2. provider' \in {"stopped", "running", "error"} /\ disk' \in Nat
    BY <1>2 DEF SaveConfig, ProviderFails, Exited, vars
  <2> QED BY <2>1, <2>2
<1>3. ASSUME NEW e \in Endpoints, EndpointFails(e) PROVE TypeOK'
  BY <1>3 DEF EndpointFails
<1> QED BY <1>1, <1>2, <1>3 DEF Environment

(* Every step keeps the types. *)
LEMMA TypeStep == TypeOK /\ [Next]_vars => TypeOK'
<1>1. ASSUME TypeOK, UNCHANGED vars PROVE TypeOK'
  BY <1>1 DEF vars, host, flags, TypeOK, HostOK, EndpointsOK, CommandsOK
<1>2. ASSUME TypeOK, NEW w \in Workers, Handle(w) PROVE TypeOK'
  BY <1>2, HandleFacts DEF TypeOK, EndpointsOK
<1> QED BY <1>1, <1>2, TypeMain, TypeEnvironment DEF Next, Environment

(* Every reachable state of the process is well typed. *)
THEOREM TypeCorrect == Spec => []TypeOK
BY TypeInit, TypeStep, PTL DEF Spec

-----------------------------------------------------------------------------
(* Nothing is left of a CoreHost object.                                   *)

\* A command runs on an endpoint that is not down.
CommandsServed == \A w \in Workers : Busy(w) => endpoint[worker[w].on] # "down"

\* A stop has joined the endpoints that are no longer in todo.
ToStop(e) == \E i \in 1..Len(todo) : todo[i] = e
EndpointsJoined ==
  /\ main \in {"stopping", "rollback"} => \A e \in Endpoints : ToStop(e) \/ endpoint[e] = "down"
  /\ main \in {"boot", "exited"} => provider = "stopped" /\ \A e \in Endpoints : endpoint[e] = "down"

Quiet == CommandsServed /\ EndpointsJoined

(* Nothing runs at first. *)
LEMMA QuietInit == Init => Quiet
BY DEF Init, Quiet, CommandsServed, EndpointsJoined, Busy

(* No command runs where QuietAtEnd says so. *)
LEMMA QuietMeans == TypeOK /\ Quiet => QuietAtEnd
BY DEF TypeOK, CommandsOK, Commands, Busy, Quiet, CommandsServed, EndpointsJoined, QuietAtEnd

(* The main thread joins an endpoint before it is down and all of them     *)
(* before the object is gone.                                              *)
LEMMA QuietMain == TypeOK /\ Quiet /\ MainStep => Quiet'
<1> SUFFICES ASSUME TypeOK, Quiet, MainStep PROVE Quiet'
  OBVIOUS
<1> USE DEF host, flags
<1>1. UNCHANGED worker
  BY DEF MainStep, Boot, BootFails, StartEndpoint, StartEndpointFails, Started, WaitEnds,
     WaitTimesOut, RecoverEnds, Recover, RecoverFails, Inspect, Decide, CloseEndpoint,
     JoinEndpoint, StopProvider
<1>2. ASSUME NEW e \in Endpoints, NEW to \in {"down", "up", "failed", "closing"},
             endpoint' = [endpoint EXCEPT ![e] = to], to # "down" \/ Serving(e) = {}
      PROVE  CommandsServed'
  BY <1>1, <1>2 DEF TypeOK, EndpointsOK, CommandsOK, Commands, Busy, Quiet, CommandsServed, Serving
<1>3. ASSUME UNCHANGED endpoint PROVE CommandsServed'
  BY <1>1, <1>3 DEF Quiet, CommandsServed, Busy
<1>4. ASSUME todo' \in {StopOrder, RollbackOrder} PROVE \A e \in Endpoints : ToStop(e)'
  BY <1>4, Orders DEF ToStop
<1>5. ASSUME todo # <<>>
      PROVE  /\ Head(todo) \in Endpoints
             /\ todo' = Tail(todo) => \A e \in Endpoints : ToStop(e) => e = Head(todo) \/ ToStop(e)'
  <2>1. Head(todo) \in Endpoints /\ Head(todo) = todo[1] /\ Len(Tail(todo)) = Len(todo) - 1
        /\ \A i \in 1..Len(Tail(todo)) : Tail(todo)[i] = todo[i + 1]
    BY <1>5, HeadTailProperties DEF TypeOK, HostOK
  <2>2. Len(todo) \in Nat
    BY LenProperties DEF TypeOK, HostOK
  <2>3. ASSUME todo' = Tail(todo), NEW e \in Endpoints, NEW i \in 1..Len(todo), todo[i] = e, e # Head(todo)
        PROVE  ToStop(e)'
    <3>1. i - 1 \in 1..Len(Tail(todo)) /\ Tail(todo)[i - 1] = e
      BY <2>1, <2>2, <2>3
    <3> QED BY <2>3, <3>1 DEF ToStop
  <2> QED BY <2>1, <2>3 DEF ToStop
<1>6. CASE Boot \/ BootFails
  BY <1>3, <1>4, <1>6 DEF Boot, BootFails, Unwind, Quiet, EndpointsJoined
<1>7. CASE StartEndpoint
  BY <1>2, <1>5, <1>7 DEF StartEndpoint, Quiet, EndpointsJoined
<1>8. CASE StartEndpointFails
  BY <1>3, <1>4, <1>8 DEF StartEndpointFails, Unwind, Quiet, EndpointsJoined
<1>9. CASE Started \/ WaitEnds \/ WaitTimesOut \/ RecoverEnds
  BY <1>3, <1>9 DEF Started, WaitEnds, WaitTimesOut, RecoverEnds, Quiet, EndpointsJoined
<1>10. CASE Recover
  BY <1>2, <1>3, <1>5, <1>10 DEF Recover, Quiet, EndpointsJoined
<1>11. CASE RecoverFails
  BY <1>2, <1>4, <1>5, <1>11 DEF RecoverFails, Fail, Quiet, EndpointsJoined
<1>12. CASE Inspect
  BY <1>3, <1>4, <1>12 DEF Inspect, Fail, Quiet, EndpointsJoined
<1>13. CASE Decide
  BY <1>3, <1>4, <1>13 DEF Decide, Quiet, EndpointsJoined
<1>14. CASE CloseEndpoint
  <2>1. CommandsServed'
    BY <1>2, <1>5, <1>14 DEF CloseEndpoint
  <2>2. ToStop(Head(todo))
    BY <1>14, HeadTailProperties, LenProperties DEF CloseEndpoint, ToStop, TypeOK, HostOK
  <2>3. EndpointsJoined'
    BY <1>5, <1>14, <2>2 DEF CloseEndpoint, Quiet, EndpointsJoined, ToStop, TypeOK, EndpointsOK
  <2> QED BY <2>1, <2>3 DEF Quiet
<1>15. CASE JoinEndpoint
  <2>1. CommandsServed'
    BY <1>2, <1>5, <1>15 DEF JoinEndpoint
  <2>2. EndpointsJoined'
    BY <1>5, <1>15 DEF JoinEndpoint, Quiet, EndpointsJoined, TypeOK, EndpointsOK
  <2> QED BY <2>1, <2>2 DEF Quiet
<1>16. CASE StopProvider
  <2>1. \A e \in Endpoints : ~ToStop(e)
    BY <1>16 DEF StopProvider, ToStop
  <2> QED BY <1>3, <1>16, <2>1 DEF StopProvider, Quiet, EndpointsJoined
<1> QED BY <1>6, <1>7, <1>8, <1>9, <1>10, <1>11, <1>12, <1>13, <1>14, <1>15, <1>16 DEF MainStep

(* A command ends on an endpoint that is not down, and only commands start *)
(* a provider again.                                                       *)
LEMMA QuietOthers ==
  TypeOK /\ Quiet /\ (Environment \/ \E w \in Workers : Handle(w)) => Quiet'
<1> SUFFICES ASSUME TypeOK, Quiet PROVE Environment \/ (\E w \in Workers : Handle(w)) => Quiet'
  OBVIOUS
<1> USE DEF host, flags
<1>1. ASSUME NEW w \in Workers, Handle(w) PROVE Quiet'
  <2>1. Busy(w) /\ UNCHANGED <<main, todo, endpoint>>
    BY <1>1, HandleFacts
  <2>2. CommandsServed'
    BY <1>1, <2>1, HandleFacts DEF Quiet, CommandsServed, Busy
  <2>3. main \notin {"boot", "exited"}
    BY <2>1 DEF Quiet, CommandsServed, EndpointsJoined, TypeOK, CommandsOK, Commands, Busy
  <2> QED BY <2>1, <2>2, <2>3 DEF Quiet, EndpointsJoined, ToStop
<1>2. ASSUME NEW w \in Workers, NEW e \in Endpoints, NEW op \in Operations, Accept(w, e, op)
      PROVE  Quiet'
  <2>1. UNCHANGED <<main, todo, provider, endpoint>>
        /\ worker' = [worker EXCEPT ![w] = [at |-> "received", on |-> e, op |-> op, loaded |-> 0]]
        /\ endpoint[e] = "up"
    BY <1>2 DEF Accept
  <2>2. CommandsServed'
    BY <2>1 DEF Quiet, CommandsServed, Busy, TypeOK, CommandsOK
  <2> QED BY <2>1, <2>2 DEF Quiet, EndpointsJoined, ToStop
<1>3. CASE SaveConfig \/ Exited
  BY <1>3 DEF SaveConfig, Exited, vars, Quiet, CommandsServed, EndpointsJoined, ToStop, Busy
<1>4. CASE ProviderFails
  BY <1>4 DEF ProviderFails, Quiet, CommandsServed, EndpointsJoined, ToStop, Busy
<1>5. ASSUME NEW e \in Endpoints, EndpointFails(e) PROVE Quiet'
  <2>1. UNCHANGED <<main, todo, provider, worker>>
        /\ endpoint' = [endpoint EXCEPT ![e] = "failed"] /\ endpoint[e] = "up"
    BY <1>5 DEF EndpointFails
  <2>2. CommandsServed'
    BY <2>1 DEF Quiet, CommandsServed, Busy, TypeOK, EndpointsOK
  <2>3. EndpointsJoined'
    BY <2>1 DEF Quiet, EndpointsJoined, ToStop, TypeOK, EndpointsOK
  <2> QED BY <2>2, <2>3 DEF Quiet
<1> QED BY <1>1, <1>2, <1>3, <1>4, <1>5 DEF Environment

(* Every step keeps the object's endpoints and commands in order. *)
LEMMA QuietStep == TypeOK /\ Quiet /\ [Next]_vars => Quiet'
<1>1. ASSUME Quiet, UNCHANGED vars PROVE Quiet'
  BY <1>1 DEF vars, host, flags, Quiet, CommandsServed, EndpointsJoined, ToStop, Busy
<1> QED BY <1>1, QuietMain, QuietOthers DEF Next, Environment

(* When a CoreHost object is gone its backend is stopped, no endpoint      *)
(* listens and no command runs, whatever was in progress when it began to  *)
(* stop and whichever stage of its start failed.                           *)
THEOREM QuietHolds == Spec => []QuietAtEnd
<1>1. Spec => []Quiet
  BY TypeCorrect, QuietInit, QuietStep, PTL DEF Spec
<1> QED BY <1>1, TypeCorrect, QuietMeans, PTL

-----------------------------------------------------------------------------
(* Why an object ends.                                                     *)

\* A restart is flagged before it is asked for; a request to end leaves a trace.
Reasons ==
  /\ "restart" \in asked => restart
  /\ \A w \in Workers : At(w, "flagged") => restart /\ worker[w].op = "restart"
  /\ shutdown => asked # {} \/ failing
  /\ main = "decide" => shutdown
  /\ main = "rollback" => failing
  /\ main = "stopping" => failing \/ again \/ "shutdown" \in asked
  /\ main = "exited" => failing \/ "shutdown" \in asked

(* Nobody has asked for anything at first. *)
LEMMA ReasonsInit == Init => Reasons
BY DEF Init, Reasons, At, Idle

(* The main thread ends an object for a reason, and carries a restart over *)
(* its stop.                                                               *)
LEMMA ReasonsMain == TypeOK /\ Quiet /\ Reasons /\ MainStep => Reasons'
<1> SUFFICES ASSUME TypeOK, Quiet, Reasons, MainStep PROVE Reasons'
  OBVIOUS
<1> USE DEF TypeOK, HostOK, Reasons, host, flags
<1>1. UNCHANGED worker
  BY DEF MainStep, Boot, BootFails, StartEndpoint, StartEndpointFails, Started, WaitEnds,
     WaitTimesOut, RecoverEnds, Recover, RecoverFails, Inspect, Decide, CloseEndpoint,
     JoinEndpoint, StopProvider
<1>2. \A w \in Workers : At(w, "flagged")' <=> At(w, "flagged")
  BY <1>1 DEF At
<1>3. CASE Boot \/ BootFails
  <2>1. \A w \in Workers : ~At(w, "flagged")
    BY <1>3, QuietMeans DEF Boot, BootFails, QuietAtEnd, Busy, At, Idle
  <2> QED BY <1>2, <1>3, <2>1 DEF Boot, BootFails, Unwind
<1>4. CASE StartEndpoint \/ StartEndpointFails \/ Started
  BY <1>1, <1>2, <1>4 DEF StartEndpoint, StartEndpointFails, Started, Unwind
<1>5. CASE WaitEnds \/ WaitTimesOut \/ RecoverEnds \/ Recover
  BY <1>1, <1>2, <1>5 DEF WaitEnds, WaitTimesOut, RecoverEnds, Recover
<1>6. CASE RecoverFails \/ Inspect
  BY <1>1, <1>2, <1>6 DEF RecoverFails, Inspect, Fail
<1>7. CASE Decide
  BY <1>1, <1>2, <1>7 DEF Decide
<1>8. CASE CloseEndpoint \/ JoinEndpoint
  BY <1>1, <1>2, <1>8 DEF CloseEndpoint, JoinEndpoint
<1>9. CASE StopProvider
  BY <1>1, <1>2, <1>9 DEF StopProvider
<1> QED BY <1>3, <1>4, <1>5, <1>6, <1>7, <1>8, <1>9 DEF MainStep

(* Commands leave their traces in order. *)
LEMMA ReasonsOthers ==
  TypeOK /\ Reasons /\ (Environment \/ \E w \in Workers : Handle(w)) => Reasons'
<1> SUFFICES ASSUME TypeOK, Reasons PROVE Environment \/ (\E w \in Workers : Handle(w)) => Reasons'
  OBVIOUS
<1> USE DEF Reasons, host, flags
<1>1. ASSUME NEW w \in Workers, Handle(w) PROVE Reasons'
  <2>1. UNCHANGED <<main, failing, again>>
        /\ \A v \in Workers : v # w => (At(v, "flagged")' <=> At(v, "flagged"))
                                       /\ worker'[v].op = worker[v].op
    BY <1>1, HandleFacts DEF At
  <2>2. CASE Restart(w)
    <3>1. Busy(w) /\ worker[w].op = "restart"
      BY <2>2 DEF Restart
    <3>2. CASE At(w, "received") /\ restart' = TRUE /\ Goto(w, "flagged")
               /\ UNCHANGED <<shutdown, asked>>
      BY <2>1, <3>1, <3>2, GotoFacts DEF At, TypeOK, Stages
    <3>3. CASE At(w, "flagged") /\ Publish(w) /\ Goto(w, "respond") /\ UNCHANGED restart
      BY <2>1, <3>1, <3>3, GotoFacts DEF At, Publish, TypeOK, Stages
    <3> QED BY <2>2, <3>2, <3>3 DEF Restart
  <2>3. CASE Shutdown(w)
    <3>1. Busy(w)
      BY <2>3 DEF Shutdown, Busy, At, Idle
    <3>2. worker'[w].at = "respond"
      BY <2>3, <3>1, GotoFacts DEF Shutdown, TypeOK, Stages
    <3> QED BY <2>1, <2>3, <3>2 DEF Shutdown, Publish, At
  <2>4. CASE ~Restart(w) /\ ~Shutdown(w)
    <3>1. UNCHANGED <<shutdown, restart, asked>>
      BY <1>1, <2>4 DEF Handle, LoadConfig, Lock, DoStart, DoStop, DoRead, DoReload, Done, Refused,
         Respond
    <3>2. worker'[w].at # "flagged"
      <4>1. Busy(w)
        BY <1>1, HandleFacts
      <4>2. CASE LoadConfig(w)
        <5>1. worker[w] \in Commands
          BY <4>1 DEF Busy, TypeOK, CommandsOK
        <5> QED BY <4>2, <5>1 DEF LoadConfig, TypeOK, CommandsOK, Commands
      <4>3. CASE Respond(w)
        BY <4>3 DEF Respond, Idle, TypeOK, CommandsOK
      <4>4. CASE ~LoadConfig(w) /\ ~Respond(w)
        <5>1. Goto(w, "locked") \/ Goto(w, "respond")
          BY <1>1, <2>4, <4>4 DEF Handle, Lock, DoStart, DoStop, DoRead, DoReload, Done, Refused
        <5> QED BY <4>1, <5>1, GotoFacts DEF TypeOK, Stages
      <4> QED BY <4>2, <4>3, <4>4
    <3> QED BY <2>1, <3>1, <3>2 DEF At
  <2> QED BY <2>2, <2>3, <2>4
<1>2. ASSUME NEW w \in Workers, NEW e \in Endpoints, NEW op \in Operations, Accept(w, e, op)
      PROVE  Reasons'
  BY <1>2 DEF Accept, At, TypeOK, CommandsOK
<1>3. CASE SaveConfig \/ ProviderFails \/ Exited \/ \E e \in Endpoints : EndpointFails(e)
  BY <1>3 DEF SaveConfig, ProviderFails, Exited, EndpointFails, vars, At
<1> QED BY <1>1, <1>2, <1>3 DEF Environment

(* Every step keeps the reasons. *)
LEMMA ReasonsStep == TypeOK /\ Quiet /\ Reasons /\ [Next]_vars => Reasons'
<1>1. ASSUME Reasons, UNCHANGED vars PROVE Reasons'
  BY <1>1 DEF vars, host, flags, Reasons, At
<1> QED BY <1>1, ReasonsMain, ReasonsOthers DEF Next, Environment

(* A restart that was requested, with no shutdown and no failure beside    *)
(* it, never ends the process.                                             *)
THEOREM RestartHolds == Spec => []RestartHonoured
<1>1. Spec => [](TypeOK /\ Quiet)
  BY TypeCorrect, QuietInit, QuietStep, PTL DEF Spec
<1>2. Reasons => RestartHonoured
  BY DEF Reasons, RestartHonoured
<1> QED BY <1>1, <1>2, ReasonsInit, ReasonsStep, PTL DEF Spec

-----------------------------------------------------------------------------
(* Reloads.                                                                *)

\* A reload that has read the file and not yet had its effect
Reloading(w) == Busy(w) /\ worker[w].op = "reload" /\ (At(w, "loaded") \/ At(w, "locked"))

Reloads ==
  /\ active <= disk
  /\ \A w \in Workers :
       Reloading(w) => active <= worker[w].loaded /\ worker[w].loaded <= disk
  /\ \A v, w \in Workers : Reloading(v) /\ Reloading(w) => v = w

(* The file is as it was when the object was created, and nobody reloads. *)
LEMMA ReloadsInit == Init => Reloads
BY DEF Init, Reloads, Reloading, Busy

(* A new object routes with the file; nothing else of the main thread has  *)
(* to do with it.                                                          *)
LEMMA ReloadsMain == TypeOK /\ Quiet /\ Reloads /\ MainStep => Reloads' /\ active' >= active
<1> SUFFICES ASSUME TypeOK, Quiet, Reloads, MainStep PROVE Reloads' /\ active' >= active
  OBVIOUS
<1> USE DEF TypeOK, HostOK, Reloads, host, flags
<1>1. UNCHANGED <<worker, disk>>
  BY DEF MainStep, Boot, BootFails, StartEndpoint, StartEndpointFails, Started, WaitEnds,
     WaitTimesOut, RecoverEnds, Recover, RecoverFails, Inspect, Decide, CloseEndpoint,
     JoinEndpoint, StopProvider
<1>2. \A w \in Workers : Reloading(w)' <=> Reloading(w)
  BY <1>1 DEF Reloading, Busy, At
<1>3. CASE Boot \/ BootFails
  <2>1. \A w \in Workers : ~Reloading(w)
    BY <1>3, QuietMeans DEF Boot, BootFails, QuietAtEnd, Reloading
  <2>2. active' = disk
    BY <1>3 DEF Boot, BootFails
  <2> QED BY <1>1, <1>2, <2>1, <2>2
<1>4. CASE ~Boot /\ ~BootFails
  <2>1. UNCHANGED active
    BY <1>4 DEF MainStep, StartEndpoint, StartEndpointFails, Started, WaitEnds, WaitTimesOut,
       RecoverEnds, Recover, RecoverFails, Inspect, Decide, CloseEndpoint, JoinEndpoint, StopProvider
  <2> QED BY <1>1, <1>2, <2>1
<1> QED BY <1>3, <1>4

(* A reload reads the file alone, and routes with what it read. *)
LEMMA ReloadsHandle ==
  ASSUME TypeOK, Reloads, NEW w \in Workers, Handle(w)
  PROVE  Reloads' /\ active' >= active
<1> USE DEF TypeOK, HostOK, Reloads
<1>1. Busy(w) /\ disk' = disk /\ \A v \in Workers : v # w => worker'[v] = worker[v]
  BY HandleFacts
<1>2. \A v \in Workers : v # w => (Reloading(v)' <=> Reloading(v)) /\ worker'[v] = worker[v]
  BY <1>1 DEF Reloading, Busy, At
<1>3. worker[w] \in Commands
  BY <1>1 DEF Busy, CommandsOK
<1>4. CASE LoadConfig(w)
  <2>1. ReloadMutexFree /\ active' = active /\ worker'[w].loaded = disk
    BY <1>3, <1>4 DEF LoadConfig, CommandsOK, Commands, host, flags
  <2>2. \A v \in Workers : ~Reloading(v)
    BY <2>1 DEF ReloadMutexFree, Reloading
  <2> QED BY <1>1, <1>2, <2>1, <2>2
<1>5. CASE Lock(w)
  <2>1. active' = active /\ Goto(w, "locked")
    BY <1>5 DEF Lock, host, flags
  <2>2. worker'[w].loaded = worker[w].loaded /\ worker'[w].op = worker[w].op
    BY <1>1, <2>1, GotoFacts DEF Stages
  <2>3. Reloading(w)' => Reloading(w)
    BY <1>1, <1>5, <2>2 DEF Lock, Reloading
  <2> QED BY <1>1, <1>2, <2>1, <2>2, <2>3
<1>6. CASE ~LoadConfig(w) /\ ~Lock(w)
  <2>1. Goto(w, "respond") \/ Goto(w, "flagged") \/ worker' = [worker EXCEPT ![w] = Idle]
    BY <1>6 DEF Handle, DoStart, DoStop, DoRead, DoReload, Done, Refused, Restart, Shutdown, Respond
  <2>2. ~Reloading(w)'
    <3>1. CASE Goto(w, "respond") \/ Goto(w, "flagged")
      BY <1>1, <3>1, GotoFacts DEF Stages, Reloading, At
    <3>2. CASE worker' = [worker EXCEPT ![w] = Idle]
      BY <3>2 DEF CommandsOK, Reloading, Busy
    <3> QED BY <2>1, <3>1, <3>2
  <2>3. CASE DoReload(w)
    <3>1. Reloading(w) /\ (active' = active \/ active' = worker[w].loaded)
      BY <1>1, <2>3 DEF DoReload, Refused, flags, Reloading
    <3>2. \A v \in Workers : v # w => ~Reloading(v)
      BY <3>1
    <3>3. worker[w].loaded \in Nat
      BY <1>3 DEF Commands
    <3> QED BY <1>1, <1>2, <2>2, <3>1, <3>2, <3>3
  <2>4. CASE ~DoReload(w)
    <3>1. active' = active
      BY <1>6, <2>4 DEF Handle, DoStart, DoStop, DoRead, Done, Refused, Restart, Shutdown, Publish,
         Respond, flags
    <3> QED BY <1>1, <1>2, <2>2, <3>1
  <2> QED BY <2>3, <2>4
<1> QED BY <1>4, <1>5, <1>6

(* New commands have read nothing, and the file only gets newer. *)
LEMMA ReloadsEnvironment ==
  TypeOK /\ Reloads /\ Environment => Reloads' /\ active' = active
<1> SUFFICES ASSUME TypeOK, Reloads, Environment PROVE Reloads' /\ active' = active
  OBVIOUS
<1> USE DEF TypeOK, HostOK, Reloads
<1>1. ASSUME NEW w \in Workers, NEW e \in Endpoints, NEW op \in Operations, Accept(w, e, op)
      PROVE  Reloads' /\ active' = active
  <2>1. UNCHANGED <<active, disk>>
        /\ worker' = [worker EXCEPT ![w] = [at |-> "received", on |-> e, op |-> op, loaded |-> 0]]
    BY <1>1 DEF Accept, host, flags
  <2>2. ~Reloading(w)' /\ \A v \in Workers : v # w => worker'[v] = worker[v]
    BY <2>1 DEF CommandsOK, Reloading, At
  <2>3. \A v \in Workers : v # w => (Reloading(v)' <=> Reloading(v))
    BY <2>2 DEF Reloading, Busy, At
  <2> QED BY <2>1, <2>2, <2>3
<1>2. CASE SaveConfig
  <2>1. UNCHANGED <<active, worker>> /\ disk' = disk + 1
    BY <1>2 DEF SaveConfig, flags
  <2>2. \A v \in Workers : Reloading(v)' <=> Reloading(v)
    BY <2>1 DEF Reloading, Busy, At
  <2>3. \A v \in Workers : Reloading(v) => worker[v].loaded \in Nat
    BY DEF Reloading, Busy, CommandsOK, Commands
  <2> QED BY <2>1, <2>2, <2>3
<1>3. CASE ProviderFails \/ Exited \/ \E e \in Endpoints : EndpointFails(e)
  <2>1. UNCHANGED <<active, worker, disk>>
    BY <1>3 DEF ProviderFails, Exited, EndpointFails, vars, flags
  <2>2. \A v \in Workers : Reloading(v)' <=> Reloading(v)
    BY <2>1 DEF Reloading, Busy, At
  <2> QED BY <2>1, <2>2
<1> QED BY <1>1, <1>2, <1>3 DEF Environment

(* Every step keeps the reloads in order and the configuration not older. *)
LEMMA ReloadsStep ==
  TypeOK /\ Quiet /\ Reloads /\ [Next]_vars => Reloads' /\ (active' >= active \/ UNCHANGED vars)
<1>1. ASSUME Reloads, UNCHANGED vars PROVE Reloads'
  BY <1>1 DEF vars, host, flags, Reloads, Reloading, Busy, At
<1>2. TypeOK /\ active' = active => active' >= active
  BY DEF TypeOK, HostOK
<1> QED BY <1>1, <1>2, ReloadsMain, ReloadsHandle, ReloadsEnvironment DEF Next, Environment

(* The configuration the backend routes with is never replaced by an older *)
(* version of the file, although a reload reads the file and applies it in *)
(* separate steps, between which others may save and reload.               *)
THEOREM ReloadHolds == Spec => ReloadMonotonic
<1>1. Spec => [](TypeOK /\ Quiet)
  BY TypeCorrect, QuietInit, QuietStep, PTL DEF Spec
<1>2. TypeOK /\ Quiet /\ Reloads /\ [Next]_vars => [active' >= active]_vars
  BY ReloadsStep
<1>3. Spec => []Reloads
  BY <1>1, ReloadsInit, ReloadsStep, PTL DEF Spec
<1> QED BY <1>1, <1>2, <1>3, PTL DEF Spec, ReloadMonotonic

=============================================================================
