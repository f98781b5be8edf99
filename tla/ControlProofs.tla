---------------------------- MODULE ControlProofs ----------------------------
(***************************************************************************)
(* Machine-checked proofs about PipeServer, for any number of workers and  *)
(* clients, and about HostClient, for any number of launches: the two ends *)
(* of the control channel.                                                 *)
(*                                                                         *)
(* Every open instance has one that attends to it: the listener, a place   *)
(* in the queue or a worker.  Every job that is queued or has not been     *)
(* counted down is counted.  So the instances suffice, a stop that has     *)
(* returned leaves none open, and a request is in the hands of one worker. *)
(*                                                                         *)
(* A process on its way that is not lost is the only one, and its launch   *)
(* is issued or about to be.  So an exit that has seen the launch worker   *)
(* end and issued cleared leaves no such process behind.                   *)
(***************************************************************************)
EXTENDS PipeServer, HostClient, FiniteSetTheorems, SequenceTheorems, WellFoundedInduction, TLAPS

-----------------------------------------------------------------------------
(* The inductive invariant.                                                *)

Attending == {"connecting", "waiting", "capacity", "blocked", "dispatching"}
Listening == Attending \union {"creating", "draining", "joining", "ended"}
Working == {"reading", "answering", "leasing", "closing"}
Serving(w) == server[w].at \in Working
Counted == {w \in PipeWorkers : server[w].at \notin {"idle", "signalling"}}

SwitchesOK ==
  /\ running \in BOOLEAN /\ stopping \in BOOLEAN /\ available \in BOOLEAN
  /\ owner \in {"down", "starting", "up", "joining"}
ListenerOK == listener \in [at : Listening, pipe : Instances \union {None}]
PipesOK ==
  pipes \in [Instances -> [open : BOOLEAN, peer : Clients \union {Nobody, Gone}, replied : BOOLEAN]]
JobsOK == outstanding \in Nat /\ pending \in Seq(Instances)
ServerOK ==
  server \in [PipeWorkers -> [at : {"idle", "counting", "signalling"} \union Working,
                              pipe : Instances \union {None}]]
ClientOK ==
  /\ client \in [Clients -> [at : {"idle", "opened", "sent", "answered"},
                             pipe : Instances \union {None}]]
  /\ handled \in [Clients -> {0, 1}]
  /\ \A c \in Clients : client[c].at \in {"opened", "sent"} => client[c].pipe \in Instances
PipeTypeOK == SwitchesOK /\ ListenerOK /\ PipesOK /\ JobsOK /\ ServerOK /\ ClientOK

\* Where listener and owner are, and what they have set
Stages ==
  /\ running => ~stopping
  /\ owner = "down" => listener.at = "ended"
  /\ listener.pipe # None <=> listener.at \in Attending
  /\ listener.at \in {"joining", "ended"} => pending = <<>>
  /\ listener.at = "ended" => \A w \in PipeWorkers : server[w].at = "idle"

JobsCounted ==
  /\ Cardinality(Counted) <= outstanding /\ outstanding <= MaxWorkers
  /\ listener.at \notin {"joining", "ended"} => outstanding = Len(pending) + Cardinality(Counted)
  /\ listener.at = "dispatching" /\ ~stopping => outstanding < MaxWorkers

\* An open instance is the listener's, or in the queue, or one worker's.
Queued(i) == \E n \in DOMAIN pending : pending[n] = i
Served(i) == \E w \in PipeWorkers : Serving(w) /\ server[w].pipe = i
OpenAttended ==
  \A i \in Instances : pipes[i].open <=> i = listener.pipe \/ Queued(i) \/ Served(i)
QueuedOnce ==
  \A n \in DOMAIN pending :
    /\ pending[n] # listener.pipe
    /\ \A m \in DOMAIN pending : pending[m] = pending[n] => m = n
ServedOnce ==
  \A w \in PipeWorkers : Serving(w) =>
    /\ server[w].pipe \in Instances /\ server[w].pipe # listener.pipe /\ ~Queued(server[w].pipe)
    /\ \A x \in PipeWorkers : Serving(x) /\ server[x].pipe = server[w].pipe => x = w
Attended == OpenAttended /\ QueuedOnce /\ ServedOnce

\* A client is connected to one instance.
Connections ==
  \A i \in Instances, c \in Clients :
    pipes[i].peer = c => client[c].at \in {"opened", "sent"} /\ client[c].pipe = i

\* Its request is handled by the worker that attends to the instance, and
\* answered after that.
Unhandled(i) == \A c \in Clients : pipes[i].peer = c => handled[c] = 0
Handled(i) == pipes[i].peer # Nobody /\ \A c \in Clients : pipes[i].peer = c => handled[c] = 1
Answers ==
  /\ \A c \in Clients : /\ client[c].at \in {"idle", "opened"} => handled[c] = 0
                        /\ client[c].at = "answered" => handled[c] = 1
  /\ listener.at \in Attending => Unhandled(listener.pipe)
  /\ \A n \in DOMAIN pending : Unhandled(pending[n])
  /\ \A w \in PipeWorkers : /\ server[w].at = "reading" => Unhandled(server[w].pipe)
                            /\ server[w].at = "answering" => Handled(server[w].pipe)
  /\ \A i \in Instances : pipes[i].replied => Handled(i)

PipeInv ==
  PipeTypeOK /\ Stages /\ JobsCounted /\ Attended /\ CapacitySeen /\ Connections /\ Answers

-----------------------------------------------------------------------------
(* Operators.                                                              *)

(* The workers are finitely many, and None is no instance. *)
LEMMA PipeCounts ==
  ASSUME PipeConstants
  PROVE  /\ MaxWorkers \in Nat /\ Instances = 1..MaxWorkers + 1 /\ None \notin Instances
         /\ IsFiniteSet(Counted) /\ Cardinality(Counted) \in Nat /\ Cardinality(Counted) <= MaxWorkers
<1>1. MaxWorkers \in Nat
  BY FS_CardinalityType DEF PipeConstants, MaxWorkers
<1>2. IsFiniteSet(Counted) /\ Cardinality(Counted) <= MaxWorkers
  BY FS_Subset DEF PipeConstants, Counted, MaxWorkers
<1> QED BY <1>1, <1>2, FS_CardinalityType DEF Instances, None

(* The queue, one by one *)
LEMMA QueueFacts ==
  ASSUME PipeTypeOK
  PROVE  /\ Len(pending) \in Nat /\ DOMAIN pending = 1..Len(pending)
         /\ \A n \in DOMAIN pending : pending[n] \in Instances
         /\ pending = <<>> <=> Len(pending) = 0
BY ElementOfSeq, LenProperties, EmptySeq DEF PipeTypeOK, JobsOK

(* What the stages of a job's end are followed by *)
LEMMA EndingFacts ==
  /\ Ending[1] = "closing" /\ Follows("closing") = "counting"
  /\ Follows("counting") = "signalling" /\ Follows("signalling") = "idle"
<1>1. DOMAIN Ending = 1..3 /\ Len(Ending) = 3 /\ Ending[1] = "closing" /\ Ending[2] = "counting"
      /\ Ending[3] = "signalling"
  BY DEF Ending
<1> HIDE DEF Ending
<1>2. \A n \in DOMAIN Ending : /\ Ending[n] = "closing" <=> n = 1
                               /\ Ending[n] = "counting" <=> n = 2
                               /\ Ending[n] = "signalling" <=> n = 3
  BY <1>1
<1>3. (CHOOSE n \in DOMAIN Ending : Ending[n] = "closing") = 1
  BY <1>1, <1>2
<1>4. (CHOOSE n \in DOMAIN Ending : Ending[n] = "counting") = 2
  BY <1>1, <1>2
<1>5. (CHOOSE n \in DOMAIN Ending : Ending[n] = "signalling") = 3
  BY <1>1, <1>2
<1> QED BY <1>1, <1>3, <1>4, <1>5 DEF Follows

(* A set of numbers has a least one. *)
LEMMA LeastOf ==
  ASSUME NEW S, S \subseteq Nat, S # {}
  PROVE  Min(S) \in S
<1> DEFINE less == {ss \in Nat \X Nat : ss[1] < ss[2]}
<1>1. IsWellFoundedOn(less, Nat)
  BY NatLessThanWellFounded DEF OpToRel
<1>2. \A m, n \in Nat : <<n, m>> \in less <=> n < m
  OBVIOUS
<1> HIDE DEF less
<1>3. PICK m \in S : \A n \in S : <<n, m>> \notin less
  BY <1>1, WFMin
<1>4. \A n \in S : m <= n
  <2> TAKE n \in S
  <2>1. n \in Nat /\ m \in Nat /\ ~(n < m)
    BY <1>2, <1>3
  <2> QED BY <2>1
<1> QED BY <1>4 DEF Min

(* What the listener creates is an instance that nobody uses. *)
LEMMA CreateFacts ==
  ASSUME PipeConstants, Unused # {}
  PROVE  Min(Unused) \in Instances /\ ~pipes[Min(Unused)].open
<1>1. Unused \subseteq Nat
  BY PipeCounts DEF Unused
<1> QED BY <1>1, LeastOf DEF Unused

(* A job that is queued comes last, one that is taken was first. *)
LEMMA AppendFacts ==
  ASSUME PipeTypeOK, NEW i \in Instances, pending' = Append(pending, i)
  PROVE  /\ pending' \in Seq(Instances) /\ Len(pending') = Len(pending) + 1
         /\ DOMAIN pending' = 1..Len(pending) + 1
         /\ \A n \in DOMAIN pending : n \in DOMAIN pending' /\ pending'[n] = pending[n]
         /\ pending'[Len(pending) + 1] = i
<1>1. pending \in Seq(Instances)
  BY DEF PipeTypeOK, JobsOK
<1>2. Append(pending, i) \in Seq(Instances)
  BY <1>1, AppendProperties
<1>3. DOMAIN pending' = 1..Len(pending')
  BY <1>2, LenProperties
<1> QED BY <1>1, <1>2, <1>3, AppendProperties, QueueFacts
LEMMA TakeFacts ==
  ASSUME PipeTypeOK, pending # <<>>, pending' = Tail(pending)
  PROVE  /\ pending' \in Seq(Instances) /\ Len(pending) = Len(pending') + 1
         /\ DOMAIN pending' = 1..Len(pending) - 1
         /\ \A n \in DOMAIN pending' : n + 1 \in DOMAIN pending /\ pending'[n] = pending[n + 1]
         /\ \A n \in DOMAIN pending : n # 1 => n - 1 \in DOMAIN pending' /\ pending'[n - 1] = pending[n]
         /\ 1 \in DOMAIN pending /\ Head(pending) = pending[1] /\ Head(pending) \in Instances
<1>1. pending \in Seq(Instances)
  BY DEF PipeTypeOK, JobsOK
<1>2. Tail(pending) \in Seq(Instances) /\ Len(Tail(pending)) = Len(pending) - 1
      /\ \A n \in 1..Len(Tail(pending)) : Tail(pending)[n] = pending[n + 1]
  BY <1>1, HeadTailProperties
<1>3. DOMAIN pending' = 1..Len(pending')
  BY <1>2, LenProperties
<1>4. Head(pending) = pending[1]
  OBVIOUS
<1> QED BY <1>1, <1>2, <1>3, <1>4, QueueFacts

-----------------------------------------------------------------------------
(* The initial state.                                                      *)

(* No server runs at first. *)
LEMMA PipeStarts == PipeConstants /\ PipeInit => PipeInv
<1> SUFFICES ASSUME PipeConstants, PipeInit PROVE PipeInv
  OBVIOUS
<1> USE PipeCounts DEF PipeInit, Idle, Closed
<1>1. PipeTypeOK
  <2>1. ListenerOK /\ SwitchesOK
    BY DEF ListenerOK, SwitchesOK, Listening
  <2>2. PipesOK
    BY DEF PipesOK
  <2>3. JobsOK
    BY EmptySeq DEF JobsOK
  <2>4. ServerOK /\ ClientOK
    BY DEF ServerOK, ClientOK
  <2> QED BY <2>1, <2>2, <2>3, <2>4 DEF PipeTypeOK
<1>2. Stages /\ CapacitySeen
  BY DEF Stages, CapacitySeen, Attending
<1>3. JobsCounted
  <2>1. Counted = {}
    BY DEF Counted
  <2>2. Len(pending) = 0
    BY EmptySeq
  <2> QED BY <2>1, <2>2, FS_EmptySet DEF JobsCounted
<1>4. Attended
  BY DEF Attended, OpenAttended, QueuedOnce, ServedOnce, Queued, Served, Serving, Working
<1>5. Connections /\ Answers
  BY DEF Connections, Answers, Unhandled, Handled, Attending, PipeConstants
<1> QED BY <1>1, <1>2, <1>3, <1>4, <1>5 DEF PipeInv

-----------------------------------------------------------------------------
(* Types.                                                                  *)

OwnerStep == Start \/ Started \/ Stop \/ Joined
ListenerStep ==
  \/ Create \/ Connect \/ Connected \/ Occupied \/ Unblocked \/ WorkerFree \/ Dispatch \/ Leave
  \/ ListenerFails \/ Drain \/ Drained
WorkerStep(w) ==
  \/ TakeJob(w) \/ HandleRequest(w) \/ Respond(w) \/ JobEnds(w)
  \/ CloseConnection(w) \/ CountDown(w) \/ Signal(w)
ClientStep(c) == Open(c) \/ Send(c) \/ ReceiveAnswer(c) \/ RequestFails(c) \/ Return(c)

(* Closing an instance keeps the types of all. *)
LEMMA CloseOK ==
  ASSUME PipesOK, NEW i, ClosePipe(i) PROVE PipesOK'
BY DEF PipesOK, ClosePipe, Closed, Instances

LEMMA TypeOwner == PipeConstants /\ PipeInv /\ OwnerStep => PipeTypeOK'
<1> SUFFICES ASSUME PipeConstants, PipeInv, OwnerStep PROVE PipeTypeOK'
  OBVIOUS
<1>1. PipesOK' /\ ServerOK' /\ ClientOK'
  BY DEF OwnerStep, Start, Started, Stop, Joined, workVars, clientVars, PipeInv, PipeTypeOK,
     PipesOK, ServerOK, ClientOK, Instances
<1>2. JobsOK'
  BY DEF OwnerStep, Start, Started, Stop, Joined, workVars, PipeInv, PipeTypeOK, JobsOK, Instances
<1>4. SwitchesOK'
  BY DEF OwnerStep, Start, Started, Stop, Joined, workVars, PipeInv, PipeTypeOK, SwitchesOK
<1>3. ListenerOK'
  BY DEF OwnerStep, Start, Started, Stop, Joined, PipeInv, PipeTypeOK, ListenerOK, Listening, Instances
<1> QED BY <1>1, <1>2, <1>3, <1>4 DEF PipeTypeOK

LEMMA TypeListener == PipeConstants /\ PipeInv /\ ListenerStep => PipeTypeOK'
<1> SUFFICES ASSUME PipeConstants, PipeInv, ListenerStep PROVE PipeTypeOK'
  OBVIOUS
<1>1. ServerOK' /\ ClientOK'
  BY DEF ListenerStep, Create, Connect, Connected, Occupied, Unblocked, WorkerFree, Dispatch, Leave,
     ListenerFails, Drain, Drained, workVars, clientVars, PipeInv, PipeTypeOK, ServerOK, ClientOK, Instances
<1>2. ListenerOK'
  <2>1. listener.pipe \in Instances \union {None}
    BY DEF PipeInv, PipeTypeOK, ListenerOK
  <2>2. CASE Create
    BY <2>2, CreateFacts DEF Create, Listens, ListenerOK, Listening, Attending, Instances
  <2>3. CASE ~Create
    BY <2>1, <2>3 DEF ListenerStep, Connect, Connected, Occupied, Unblocked, WorkerFree, Dispatch, Leave,
       ListenerFails, Drain, Drained, Listens, ListenerOK, Listening, Attending, Instances
  <2> QED BY <2>2, <2>3
<1>3. SwitchesOK'
  BY DEF ListenerStep, Create, Connect, Connected, Occupied, Unblocked, WorkerFree, Dispatch, Leave,
     ListenerFails, Drain, Drained, workVars, clientVars, PipeInv, PipeTypeOK, SwitchesOK
<1>4. PipesOK'
  <2>1. PipesOK
    BY DEF PipeInv, PipeTypeOK
  <2>2. CASE Create
    BY <2>1, <2>2, CreateFacts DEF Create, PipesOK, Closed, Instances
  <2>3. CASE Drain
    BY <2>1, <2>3 DEF Drain, PipesOK, Closed, Instances
  <2>4. CASE UNCHANGED pipes
    BY <2>1, <2>4 DEF PipesOK, Instances
  <2>5. CASE ClosePipe(listener.pipe)
    BY <2>1, <2>5, CloseOK
  <2> QED BY <2>2, <2>3, <2>4, <2>5 DEF ListenerStep, Connect, Connected, Occupied, Unblocked,
         WorkerFree, Dispatch, Leave, ListenerFails, Drained, workVars
<1>5. JobsOK'
  <2>1. JobsOK
    BY DEF PipeInv, PipeTypeOK
  <2>2. CASE Dispatch
    <3>1. listener.pipe \in Instances
      BY <2>2 DEF Dispatch, PipeInv, PipeTypeOK, ListenerOK, Stages, Attending
    <3> QED BY <2>1, <2>2, <3>1, AppendFacts DEF Dispatch, JobsOK, PipeInv
  <2>3. CASE Drain
    BY <2>1, <2>3, EmptySeq DEF Drain, JobsOK
  <2>4. CASE UNCHANGED <<outstanding, pending>>
    BY <2>1, <2>4 DEF JobsOK, Instances
  <2> QED BY <2>2, <2>3, <2>4 DEF ListenerStep, Create, Connect, Connected, Occupied, Unblocked,
         WorkerFree, Leave, ListenerFails, Drained, workVars
<1> QED BY <1>1, <1>2, <1>3, <1>4, <1>5 DEF PipeTypeOK

LEMMA TypeWorker ==
  ASSUME PipeConstants, PipeInv, NEW w \in PipeWorkers, WorkerStep(w) PROVE PipeTypeOK'
<1>1. SwitchesOK' /\ ListenerOK'
  BY DEF WorkerStep, TakeJob, HandleRequest, Respond, JobEnds, CloseConnection, CountDown, Signal,
     OthersWork, clientVars, PipeInv, PipeTypeOK, SwitchesOK, ListenerOK, Instances
<1>2. ServerOK'
  <2>1. ServerOK /\ server[w] \in [at : {"idle", "counting", "signalling"} \union Working,
                                   pipe : Instances \union {None}]
    BY DEF PipeInv, PipeTypeOK, ServerOK
  <2>2. CASE TakeJob(w)
    <3>1. Head(pending) \in Instances
      BY <2>2, TakeFacts DEF TakeJob, PipeInv
    <3> QED BY <2>1, <2>2, <3>1 DEF TakeJob, ServerOK, Working, Instances
  <2>3. CASE ~TakeJob(w)
    <3>1. PICK at \in {"idle", "answering", "leasing", "closing", "counting", "signalling"} : Serves(w, at)
      BY <2>3, EndingFacts DEF WorkerStep, HandleRequest, Respond, JobEnds, CloseConnection, CountDown, Signal
    <3> QED BY <2>1, <3>1 DEF Serves, ServerOK, Working, Instances
  <2> QED BY <2>2, <2>3
<1>3. PipesOK'
  <2>1. PipesOK
    BY DEF PipeInv, PipeTypeOK
  <2>2. CASE Respond(w)
    BY <2>1, <2>2 DEF Respond, PipesOK, Instances
  <2>3. CASE CloseConnection(w)
    BY <2>1, <2>3, CloseOK DEF CloseConnection
  <2>4. CASE UNCHANGED pipes
    BY <2>1, <2>4 DEF PipesOK, Instances
  <2> QED BY <2>2, <2>3, <2>4 DEF WorkerStep, TakeJob, HandleRequest, JobEnds, CountDown, Signal
<1>4. JobsOK'
  <2>1. JobsOK
    BY DEF PipeInv, PipeTypeOK
  <2>2. CASE TakeJob(w)
    BY <2>1, <2>2, TakeFacts DEF TakeJob, JobsOK, PipeInv
  <2>3. CASE CountDown(w)
    <3>1. w \in Counted
      BY <2>3 DEF CountDown, Counted
    <3>2. Cardinality(Counted) # 0
      BY <3>1, PipeCounts, FS_EmptySet
    <3> QED BY <2>1, <2>3, <3>2, PipeCounts DEF CountDown, JobsOK, JobsCounted, PipeInv, Instances
  <2>4. CASE UNCHANGED <<outstanding, pending>>
    BY <2>1, <2>4 DEF JobsOK, Instances
  <2> QED BY <2>2, <2>3, <2>4 DEF WorkerStep, HandleRequest, Respond, JobEnds, CloseConnection, Signal
<1>5. ClientOK'
  <2>1. ClientOK
    BY DEF PipeInv, PipeTypeOK
  <2>2. CASE HandleRequest(w)
    <3>1. PICK c \in Clients : Peer(w) = c /\ handled' = [handled EXCEPT ![c] = @ + 1]
      BY <2>2 DEF HandleRequest
    <3>2. handled[c] = 0
      BY <2>2, <3>1 DEF HandleRequest, PipeInv, Answers, Unhandled, Peer
    <3> QED BY <2>1, <2>2, <3>1, <3>2 DEF HandleRequest, ClientOK, Instances
  <2>3. CASE ~HandleRequest(w)
    BY <2>1, <2>3 DEF WorkerStep, TakeJob, Respond, JobEnds, CloseConnection, CountDown, Signal,
       clientVars, ClientOK, Instances
  <2> QED BY <2>2, <2>3
<1> QED BY <1>1, <1>2, <1>3, <1>4, <1>5 DEF PipeTypeOK

LEMMA TypeClient ==
  ASSUME PipeConstants, PipeInv, NEW c \in Clients, ClientStep(c) PROVE PipeTypeOK'
<1>1. SwitchesOK' /\ ListenerOK' /\ JobsOK' /\ ServerOK'
  BY DEF ClientStep, Open, Send, ReceiveAnswer, RequestFails, Return, ServerUnchanged, workVars,
     PipeInv, PipeTypeOK, SwitchesOK, ListenerOK, JobsOK, ServerOK, Instances
<1>2. PipesOK'
  BY DEF ClientStep, Open, Send, ReceiveAnswer, RequestFails, Return, PipeInv, PipeTypeOK, PipesOK, Instances
<1>3. ClientOK'
  <2>1. ClientOK /\ None \notin Instances /\ Instances' = Instances
    BY PipeCounts DEF PipeInv, PipeTypeOK, Instances, MaxWorkers
  <2>2. CASE Open(c)
    BY <2>1, <2>2 DEF Open, ClientOK
  <2>3. CASE ~Open(c)
    BY <2>1, <2>3 DEF ClientStep, Send, ReceiveAnswer, RequestFails, Return, ClientOK, Idle
  <2> QED BY <2>2, <2>3
<1> QED BY <1>1, <1>2, <1>3 DEF PipeTypeOK

-----------------------------------------------------------------------------
(* Stages, counts and wake-ups.                                            *)

LEMMA StagesHold == PipeConstants /\ PipeInv /\ PipeNext => Stages'
<1> SUFFICES ASSUME PipeConstants, PipeInv, PipeNext PROVE Stages'
  OBVIOUS
<1> USE DEF Stages
<1>1. Stages
  BY DEF PipeInv
<1>2. ASSUME OwnerStep PROVE Stages'
  BY <1>1, <1>2 DEF OwnerStep, Start, Started, Stop, Joined, workVars, Attending
<1>3. ASSUME ListenerStep PROVE Stages'
  <2>1. CASE Create
    <3>1. Min(Unused) # None
      BY <2>1, CreateFacts, PipeCounts DEF Create
    <3> QED BY <1>1, <2>1, <3>1 DEF Create, Listens, workVars, Attending
  <2>2. CASE Connect \/ Connected \/ Occupied \/ Unblocked \/ WorkerFree
    BY <1>1, <2>2 DEF Connect, Connected, Occupied, Unblocked, WorkerFree, Listens, workVars, Attending
  <2>3. CASE Dispatch \/ Leave \/ ListenerFails
    BY <1>1, <2>3 DEF Dispatch, Leave, ListenerFails, Listens, workVars, Attending
  <2>4. CASE Drain \/ Drained
    BY <1>1, <2>4 DEF Drain, Drained, Listens, workVars, Attending
  <2> QED BY <1>3, <2>1, <2>2, <2>3, <2>4 DEF ListenerStep
<1>4. ASSUME NEW w \in PipeWorkers, WorkerStep(w) PROVE Stages'
  <2>1. server[w].at = "idle" => pending # <<>>
    BY <1>4, EndingFacts DEF WorkerStep, TakeJob, HandleRequest, Respond, JobEnds, CloseConnection, CountDown, Signal
  <2>2. UNCHANGED pending \/ pending # <<>>
    BY <1>4 DEF WorkerStep, TakeJob, HandleRequest, Respond, JobEnds, CloseConnection, CountDown, Signal
  <2>3. UNCHANGED <<running, stopping, owner, listener>>
    BY <1>4 DEF WorkerStep, TakeJob, HandleRequest, Respond, JobEnds, CloseConnection, CountDown, Signal, OthersWork
  <2> QED BY <1>1, <2>1, <2>2, <2>3
<1>5. ASSUME NEW c \in Clients, ClientStep(c) PROVE Stages'
  BY <1>1, <1>5 DEF ClientStep, Open, Send, ReceiveAnswer, RequestFails, Return, ServerUnchanged, workVars
<1> QED BY <1>2, <1>3, <1>4, <1>5 DEF PipeNext, OwnerStep, ListenerStep, WorkerStep, ClientStep

(* A step that neither queues nor ends a job keeps the counts. *)
LEMMA CountsFramed ==
  ASSUME JobsCounted, Counted' = Counted, UNCHANGED <<outstanding, pending>>,
         listener'.at \in {"joining", "ended"} \/ listener.at \notin {"joining", "ended"},
         listener'.at = "dispatching" /\ ~stopping' =>
            outstanding < MaxWorkers \/ (listener.at = "dispatching" /\ ~stopping)
  PROVE  JobsCounted'
BY DEF JobsCounted, MaxWorkers

LEMMA CountsHold == PipeConstants /\ PipeInv /\ PipeNext => JobsCounted'
<1> SUFFICES ASSUME PipeConstants, PipeInv, PipeNext PROVE JobsCounted'
  OBVIOUS
<1>1. JobsCounted /\ Stages /\ PipeTypeOK
  BY DEF PipeInv
<1>2. ASSUME UNCHANGED server PROVE Counted' = Counted
  BY <1>2 DEF Counted
<1>3. ASSUME OwnerStep PROVE JobsCounted'
  <2>1. CASE Start
    <3>1. pending = <<>> /\ Counted = {}
      BY <1>1, <2>1 DEF Start, Stages, Counted
    <3>2. Counted' = {} /\ Len(pending') = 0
      BY <1>2, <2>1, <3>1, EmptySeq DEF Start
    <3> QED BY <2>1, <3>2, FS_EmptySet, PipeCounts DEF Start, JobsCounted, MaxWorkers
  <2>2. CASE ~Start
    BY <1>1, <1>2, <1>3, <2>2, CountsFramed DEF OwnerStep, Started, Stop, Joined, workVars
  <2> QED BY <2>1, <2>2
<1>4. ASSUME ListenerStep PROVE JobsCounted'
  <2>1. CASE Dispatch
    <3>1. listener.pipe \in Instances
      BY <1>1, <2>1 DEF Dispatch, PipeTypeOK, ListenerOK, Stages, Attending
    <3>2. Len(pending') = Len(pending) + 1
      BY <1>1, <2>1, <3>1, AppendFacts DEF Dispatch
    <3>3. Counted' = Counted
      BY <1>2, <2>1 DEF Dispatch
    <3>4. outstanding = Len(pending) + Cardinality(Counted) /\ outstanding < MaxWorkers
      BY <1>1, <2>1 DEF Dispatch, Stages, JobsCounted
    <3>5. outstanding' = outstanding + 1 /\ listener'.at = "creating"
      BY <2>1 DEF Dispatch, Listens
    <3>6. MaxWorkers' = MaxWorkers /\ outstanding \in Nat /\ Len(pending) \in Nat
      BY <1>1, QueueFacts DEF MaxWorkers, PipeTypeOK, JobsOK
    <3> QED BY <3>2, <3>3, <3>4, <3>5, <3>6, PipeCounts DEF JobsCounted
  <2>2. CASE Drain
    <3>1. Counted' = Counted
      BY <1>2, <2>2 DEF Drain
    <3> QED BY <1>1, <2>2, <3>1 DEF Drain, Listens, JobsCounted, MaxWorkers
  <2>3. CASE Create \/ Connect \/ Connected \/ Occupied \/ Unblocked
    BY <1>1, <1>2, <2>3, CountsFramed DEF Create, Connect, Connected, Occupied, Unblocked,
       Listens, workVars
  <2>4. CASE WorkerFree \/ Leave \/ ListenerFails \/ Drained
    BY <1>1, <1>2, <2>4, CountsFramed DEF WorkerFree, Leave, ListenerFails, Drained, Listens, workVars
  <2> QED BY <1>4, <2>1, <2>2, <2>3, <2>4 DEF ListenerStep
<1>5. ASSUME NEW w \in PipeWorkers, WorkerStep(w) PROVE JobsCounted'
  <2>1. CASE TakeJob(w)
    <3>1. w \notin Counted /\ Counted' = Counted \union {w}
      BY <1>1, <2>1 DEF TakeJob, Counted, PipeTypeOK, ServerOK
    <3>2. Cardinality(Counted') = Cardinality(Counted) + 1
      BY <3>1, PipeCounts, FS_AddElement
    <3>3. Len(pending) = Len(pending') + 1 /\ Len(pending) \in Nat
      BY <1>1, <2>1, TakeFacts, QueueFacts DEF TakeJob
    <3>4. listener.at \notin {"joining", "ended"} /\ UNCHANGED <<outstanding, listener, stopping>>
      BY <1>1, <2>1 DEF TakeJob, Stages, OthersWork
    <3>5. Len(pending') \in Nat
      BY <1>1, <2>1, TakeFacts, LenProperties DEF TakeJob
    <3> QED BY <1>1, <3>2, <3>3, <3>4, <3>5, PipeCounts DEF JobsCounted, MaxWorkers
  <2>2. CASE CountDown(w)
    <3>1. w \in Counted /\ Counted' = Counted \ {w}
      BY <1>1, <2>2, EndingFacts DEF CountDown, Serves, Counted, PipeTypeOK, ServerOK
    <3>2. Cardinality(Counted') = Cardinality(Counted) - 1
      BY <3>1, PipeCounts, FS_RemoveElement
    <3>3. outstanding' = outstanding - 1 /\ UNCHANGED <<pending, listener, stopping>>
      BY <2>2 DEF CountDown, OthersWork
    <3>4. outstanding \in Nat /\ Len(pending) \in Nat
      BY <1>1, QueueFacts DEF PipeTypeOK, JobsOK
    <3> QED BY <1>1, <3>2, <3>3, <3>4, PipeCounts DEF JobsCounted, MaxWorkers
  <2>3. CASE HandleRequest(w) \/ Respond(w) \/ JobEnds(w) \/ CloseConnection(w) \/ Signal(w)
    <3>1. PICK at \in {"idle", "answering", "leasing", "closing", "counting", "signalling"} :
            Serves(w, at) /\ (at = "idle" <=> server[w].at = "signalling") /\ at # "signalling"
            /\ server[w].at # "idle"
      BY <2>3, EndingFacts DEF HandleRequest, Respond, JobEnds, CloseConnection, Signal
    <3>2. Counted' = Counted
      BY <1>1, <3>1 DEF Serves, Counted, PipeTypeOK, ServerOK
    <3> QED BY <1>1, <2>3, <3>2, CountsFramed DEF HandleRequest, Respond, JobEnds, CloseConnection,
           Signal, OthersWork
  <2> QED BY <1>5, <2>1, <2>2, <2>3 DEF WorkerStep
<1>6. ASSUME NEW c \in Clients, ClientStep(c) PROVE JobsCounted'
  BY <1>1, <1>2, <1>6, CountsFramed DEF ClientStep, Open, Send, ReceiveAnswer, RequestFails, Return,
     ServerUnchanged, workVars
<1> QED BY <1>3, <1>4, <1>5, <1>6 DEF PipeNext, OwnerStep, ListenerStep, WorkerStep, ClientStep

(* Who counts himself free signals afterwards. *)
LEMMA CapacityHolds == PipeConstants /\ PipeInv /\ PipeNext => CapacitySeen'
<1> SUFFICES ASSUME PipeConstants, PipeInv, PipeNext PROVE CapacitySeen'
  OBVIOUS
<1>1. CapacitySeen /\ PipeTypeOK
  BY DEF PipeInv
<1> USE DEF CapacitySeen, MaxWorkers
<1>2. ASSUME OwnerStep PROVE CapacitySeen'
  BY <1>1, <1>2 DEF OwnerStep, Start, Started, Stop, Joined, workVars
<1>3. ASSUME ListenerStep PROVE CapacitySeen'
  <2>1. CASE Occupied
    BY <1>1, <2>1, PipeCounts DEF Occupied, workVars, PipeTypeOK, JobsOK
  <2>2. CASE ~Occupied
    <3>1. listener'.at # "blocked"
      BY <1>3, <2>2 DEF ListenerStep, Create, Connect, Connected, Unblocked, WorkerFree, Dispatch, Leave,
         ListenerFails, Drain, Drained, Listens
    <3> QED BY <3>1
  <2> QED BY <2>1, <2>2
<1>4. ASSUME NEW w \in PipeWorkers, WorkerStep(w) PROVE CapacitySeen'
  <2>1. ServerOK
    BY <1>1 DEF PipeTypeOK
  <2>2. CASE CountDown(w)
    <3>1. server'[w].at = "signalling"
      BY <2>1, <2>2, EndingFacts DEF CountDown, Serves, ServerOK
    <3> QED BY <3>1
  <2>3. CASE Signal(w)
    BY <2>3 DEF Signal
  <2>4. CASE TakeJob(w) \/ HandleRequest(w) \/ Respond(w) \/ JobEnds(w) \/ CloseConnection(w)
    <3>1. \A x \in PipeWorkers : server[x].at = "signalling" => server'[x].at = "signalling"
      BY <2>1, <2>4 DEF TakeJob, HandleRequest, Respond, JobEnds, CloseConnection, Serves, ServerOK
    <3>2. UNCHANGED <<listener, stopping, available, outstanding>>
      BY <2>4 DEF TakeJob, HandleRequest, Respond, JobEnds, CloseConnection, OthersWork
    <3> QED BY <1>1, <3>1, <3>2
  <2> QED BY <1>4, <2>2, <2>3, <2>4 DEF WorkerStep
<1>5. ASSUME NEW c \in Clients, ClientStep(c) PROVE CapacitySeen'
  BY <1>1, <1>5 DEF ClientStep, Open, Send, ReceiveAnswer, RequestFails, Return, ServerUnchanged, workVars
<1> QED BY <1>2, <1>3, <1>4, <1>5 DEF PipeNext, OwnerStep, ListenerStep, WorkerStep, ClientStep

-----------------------------------------------------------------------------
(* Who attends to an instance.                                             *)

(* Whatever changes none of the three keeps who attends. *)
LEMMA AttendedFramed ==
  ASSUME PipeTypeOK, Attended, listener'.pipe = listener.pipe, UNCHANGED pending,
         \A w \in PipeWorkers : (Serving(w)' <=> Serving(w)) /\ server'[w].pipe = server[w].pipe,
         \A i \in Instances : pipes'[i].open = pipes[i].open
  PROVE  Attended'
<1>1. \A i \in Instances : (Queued(i)' <=> Queued(i)) /\ (Served(i)' <=> Served(i))
  BY DEF Queued, Served
<1>2. Instances' = Instances
  BY DEF Instances, MaxWorkers
<1>3. OpenAttended'
  BY <1>1, <1>2 DEF Attended, OpenAttended
<1>4. QueuedOnce'
  BY DEF Attended, QueuedOnce
<1>5. ServedOnce'
  BY <1>1, <1>2 DEF Attended, ServedOnce
<1> QED BY <1>3, <1>4, <1>5 DEF Attended

(* The listener lets go of its instance, which is closed if there is one. *)
LEMMA ListenerCloses ==
  ASSUME PipeConstants, PipeInv, ClosePipe(listener.pipe), listener'.pipe = None, UNCHANGED <<pending, server>>
  PROVE  Attended'
<1>1. /\ \A i : Queued(i)' <=> Queued(i)
      /\ \A i : Served(i)' <=> Served(i)
      /\ \A w \in PipeWorkers : Serving(w)' <=> Serving(w)
  BY DEF Queued, Served, Serving
<1>2. Instances' = Instances /\ None \notin Instances
  BY PipeCounts DEF Instances, MaxWorkers
<1>3. Attended
  BY DEF PipeInv
<1>4. OpenAttended'
  <2> SUFFICES ASSUME NEW i \in Instances
               PROVE  pipes'[i].open <=> i = listener'.pipe \/ Queued(i) \/ Served(i)
    BY <1>1, <1>2 DEF OpenAttended
  <2>1. pipes'[i] = IF i = listener.pipe THEN Closed ELSE pipes[i]
    BY DEF ClosePipe
  <2>2. i # None
    BY <1>2
  <2>3. i = listener.pipe => ~Queued(i) /\ ~Served(i)
    BY <1>3 DEF Attended, QueuedOnce, ServedOnce, Queued, Served
  <2> QED BY <1>3, <2>1, <2>2, <2>3 DEF Attended, OpenAttended, Closed
<1>5. QueuedOnce'
  BY <1>2, <1>3, QueueFacts DEF Attended, QueuedOnce, PipeInv
<1>6. ServedOnce'
  BY <1>1, <1>2, <1>3 DEF Attended, ServedOnce
<1> QED BY <1>4, <1>5, <1>6 DEF Attended

LEMMA AttendedListener == PipeConstants /\ PipeInv /\ ListenerStep => Attended'
<1> SUFFICES ASSUME PipeConstants, PipeInv, ListenerStep PROVE Attended'
  OBVIOUS
<1>1. Attended /\ PipeTypeOK /\ Stages
  BY DEF PipeInv
<1>2. Instances' = Instances /\ None \notin Instances
  BY PipeCounts DEF Instances, MaxWorkers
<1>3. ASSUME UNCHANGED <<pending, server>>
      PROVE  /\ \A i : Queued(i)' <=> Queued(i)
             /\ \A i : Served(i)' <=> Served(i)
             /\ \A w \in PipeWorkers : Serving(w)' <=> Serving(w)
  BY <1>3 DEF Queued, Served, Serving
<1>4. CASE Create
  <2> DEFINE i == Min(Unused)
  <2>1. i \in Instances /\ ~pipes[i].open
    BY <1>4, CreateFacts DEF Create
  <2>2. listener.pipe = None /\ listener'.pipe = i /\ UNCHANGED <<pending, server>>
        /\ pipes' = [pipes EXCEPT ![i] = [Closed EXCEPT !.open = TRUE]]
    BY <1>1, <1>4 DEF Create, Stages, Attending, Listens, workVars
  <2> HIDE DEF i
  <2>3. ~Queued(i) /\ ~Served(i)
    BY <1>1, <2>1 DEF Attended, OpenAttended
  <2>4. OpenAttended'
    <3> SUFFICES ASSUME NEW j \in Instances
                 PROVE  pipes'[j].open <=> j = i \/ Queued(j) \/ Served(j)
      BY <1>2, <1>3, <2>2 DEF OpenAttended
    <3>1. pipes'[j].open <=> j = i \/ pipes[j].open
      BY <2>1, <2>2 DEF Closed, PipeTypeOK, PipesOK, PipeInv
    <3>2. j # listener.pipe
      BY <1>2, <2>2
    <3> QED BY <1>1, <3>1, <3>2 DEF Attended, OpenAttended
  <2>5. QueuedOnce'
    BY <1>1, <2>2, <2>3 DEF Attended, QueuedOnce, Queued
  <2>6. ServedOnce'
    BY <1>1, <1>2, <1>3, <2>2, <2>3 DEF Attended, ServedOnce, Served
  <2> QED BY <2>4, <2>5, <2>6 DEF Attended
<1>5. CASE Dispatch
  <2>1. listener.pipe \in Instances /\ listener'.pipe = None
    BY <1>1, <1>5 DEF Dispatch, Listens, PipeTypeOK, ListenerOK, Stages, Attending
  <2> DEFINE last == Len(pending) + 1
  <2>2. /\ DOMAIN pending' = 1..last /\ DOMAIN pending = 1..Len(pending) /\ Len(pending) \in Nat
        /\ \A n \in DOMAIN pending : n \in DOMAIN pending' /\ pending'[n] = pending[n]
        /\ pending'[last] = listener.pipe /\ \A n \in DOMAIN pending : pending[n] \in Instances
    BY <1>1, <1>5, <2>1, AppendFacts, QueueFacts DEF Dispatch
  <2>3. last \in DOMAIN pending' /\ last \notin DOMAIN pending
        /\ \A n \in DOMAIN pending' : n = last \/ n \in DOMAIN pending
    BY <2>2
  <2> HIDE DEF last
  <2>4. \A i : Queued(i)' <=> Queued(i) \/ i = listener.pipe
    BY <2>2, <2>3 DEF Queued
  <2>5. /\ \A i : Served(i)' <=> Served(i)
        /\ \A w \in PipeWorkers : Serving(w)' <=> Serving(w)
    BY <1>5 DEF Dispatch, Served, Serving
  <2>6. OpenAttended'
    BY <1>1, <1>2, <1>5, <2>1, <2>4, <2>5 DEF Dispatch, Attended, OpenAttended
  <2>7. QueuedOnce'
    BY <1>1, <1>2, <2>1, <2>2, <2>3 DEF Attended, QueuedOnce
  <2>8. ServedOnce'
    BY <1>1, <1>2, <1>5, <2>1, <2>4, <2>5 DEF Dispatch, Attended, ServedOnce
  <2> QED BY <2>6, <2>7, <2>8 DEF Attended
<1>6. CASE Drain
  <2>1. listener.pipe = None /\ listener'.pipe = None /\ pending' = <<>> /\ UNCHANGED server
    BY <1>1, <1>6 DEF Drain, Listens, Stages, Attending
  <2>2. /\ \A i : ~Queued(i)'
        /\ \A i : Served(i)' <=> Served(i)
        /\ \A w \in PipeWorkers : Serving(w)' <=> Serving(w)
    BY <2>1 DEF Queued, Served, Serving
  <2>3. \A i \in Instances : pipes'[i] = IF Queued(i) THEN Closed ELSE pipes[i]
    <3> TAKE i \in Instances
    <3>1. i \in ToSet(pending) <=> Queued(i)
      BY <1>1, QueueFacts DEF ToSet, Queued
    <3> QED BY <1>6, <3>1 DEF Drain
  <2>4. \A i \in Instances : Queued(i) => ~Served(i)
    BY <1>1 DEF Attended, ServedOnce, Served
  <2>5. OpenAttended'
    BY <1>1, <1>2, <2>1, <2>2, <2>3, <2>4 DEF Attended, OpenAttended, Closed
  <2>6. QueuedOnce'
    BY <2>1 DEF QueuedOnce
  <2>7. ServedOnce'
    BY <1>1, <1>2, <2>1, <2>2 DEF Attended, ServedOnce
  <2> QED BY <2>5, <2>6, <2>7 DEF Attended
<1>7. CASE ClosePipe(listener.pipe) /\ listener'.pipe = None /\ UNCHANGED <<pending, server>>
  BY <1>7, ListenerCloses
<1>8. CASE UNCHANGED <<pipes, pending, server>> /\ listener'.pipe = listener.pipe
  BY <1>1, <1>3, <1>8, AttendedFramed
<1>9. CASE Drained
  <2>1. listener.pipe = None /\ listener'.pipe = None /\ UNCHANGED <<pipes, pending, server>>
    BY <1>1, <1>9 DEF Drained, Listens, Stages, Attending, workVars
  <2> QED BY <1>8, <2>1
<1>10. CASE Connect \/ Connected \/ Occupied \/ Unblocked \/ WorkerFree \/ Leave \/ ListenerFails
  BY <1>7, <1>8, <1>10 DEF Connect, Connected, Occupied, Unblocked, WorkerFree, Leave, ListenerFails,
     Listens, workVars
<1> QED BY <1>4, <1>5, <1>6, <1>9, <1>10 DEF ListenerStep

LEMMA AttendedWorker ==
  ASSUME PipeConstants, PipeInv, NEW w \in PipeWorkers, WorkerStep(w) PROVE Attended'
<1>1. Attended /\ PipeTypeOK /\ ServerOK
  BY DEF PipeInv, PipeTypeOK
<1>2. Instances' = Instances /\ None \notin Instances
  BY PipeCounts DEF Instances, MaxWorkers
<1>3. CASE TakeJob(w)
  <2> DEFINE first == Head(pending)
  <2>1. /\ ~Serving(w) /\ Serving(w)' /\ server'[w].pipe = first /\ UNCHANGED <<pipes, listener>>
        /\ \A x \in PipeWorkers : x # w => (Serving(x)' <=> Serving(x)) /\ server'[x].pipe = server[x].pipe
    BY <1>1, <1>3 DEF TakeJob, Serving, Working, ServerOK, OthersWork
  <2>2. /\ \A n \in DOMAIN pending' : n \in Int /\ n + 1 \in DOMAIN pending /\ pending'[n] = pending[n + 1]
        /\ \A n \in DOMAIN pending : n \in Int /\ (n # 1 => n - 1 \in DOMAIN pending' /\ pending'[n - 1] = pending[n])
        /\ \A n \in DOMAIN pending' : n + 1 # 1
        /\ 1 \in DOMAIN pending /\ first = pending[1] /\ first \in Instances
    BY <1>1, <1>3, TakeFacts, QueueFacts DEF TakeJob
  <2> HIDE DEF first
  <2>3. Queued(first) /\ first # listener.pipe /\ \A n \in DOMAIN pending : pending[n] = first => n = 1
    BY <1>1, <2>2 DEF Attended, QueuedOnce, Queued
  <2>4. \A i : Queued(i)' <=> Queued(i) /\ i # first
    <3> TAKE i
    <3>1. Queued(i)' => Queued(i) /\ i # first
      BY <2>2, <2>3 DEF Queued
    <3>2. Queued(i) /\ i # first => Queued(i)'
      BY <2>2, <2>3 DEF Queued
    <3> QED BY <3>1, <3>2
  <2>5. \A i : Served(i)' <=> Served(i) \/ i = first
    BY <2>1 DEF Served
  <2>6. OpenAttended'
    BY <1>1, <1>2, <2>1, <2>3, <2>4, <2>5 DEF Attended, OpenAttended
  <2>7. QueuedOnce'
    <3> SUFFICES ASSUME NEW n \in DOMAIN pending'
                 PROVE  /\ pending'[n] # listener'.pipe
                        /\ \A m \in DOMAIN pending' : pending'[m] = pending'[n] => m = n
      BY DEF QueuedOnce
    <3>1. pending'[n] # listener'.pipe
      BY <1>1, <2>1, <2>2 DEF Attended, QueuedOnce
    <3>2. ASSUME NEW m \in DOMAIN pending', pending'[m] = pending'[n] PROVE m = n
      <4>1. m + 1 = n + 1
        BY <1>1, <2>2, <3>2 DEF Attended, QueuedOnce
      <4> QED BY <2>2, <4>1
    <3> QED BY <3>1, <3>2
  <2>8. ServedOnce'
    BY <1>1, <1>2, <2>1, <2>2, <2>3, <2>4 DEF Attended, ServedOnce
  <2> QED BY <2>6, <2>7, <2>8 DEF Attended
<1>4. CASE CloseConnection(w)
  <2> DEFINE i == server[w].pipe
  <2>1. /\ Serving(w) /\ ~Serving(w)' /\ UNCHANGED <<pending, listener>>
        /\ \A x \in PipeWorkers : x # w => (Serving(x)' <=> Serving(x)) /\ server'[x].pipe = server[x].pipe
        /\ \A j \in Instances : pipes'[j] = IF j = i THEN Closed ELSE pipes[j]
    BY <1>1, <1>4, EndingFacts DEF CloseConnection, ClosePipe, Serves, Serving, Working, ServerOK, OthersWork
  <2> HIDE DEF i
  <2>2. /\ i \in Instances /\ i # listener.pipe /\ ~Queued(i)
        /\ \A x \in PipeWorkers : Serving(x) /\ server[x].pipe = i => x = w
    BY <1>1, <2>1 DEF Attended, ServedOnce, i
  <2>3. \A j : Queued(j)' <=> Queued(j)
    BY <2>1 DEF Queued
  <2>4. \A j : Served(j)' <=> Served(j) /\ j # i
    BY <2>1, <2>2 DEF Served, i
  <2>5. OpenAttended'
    BY <1>1, <1>2, <2>1, <2>2, <2>3, <2>4 DEF Attended, OpenAttended, Closed
  <2>6. QueuedOnce'
    BY <1>1, <2>1 DEF Attended, QueuedOnce
  <2>7. ServedOnce'
    BY <1>1, <1>2, <2>1, <2>3 DEF Attended, ServedOnce
  <2> QED BY <2>5, <2>6, <2>7 DEF Attended
<1>5. CASE HandleRequest(w) \/ Respond(w) \/ JobEnds(w) \/ CountDown(w) \/ Signal(w)
  <2>1. PICK at \in {"idle", "answering", "leasing", "closing", "counting", "signalling"} :
          Serves(w, at) /\ (at \in Working <=> server[w].at \in Working)
    BY <1>5, EndingFacts DEF HandleRequest, Respond, JobEnds, CountDown, Signal, Working
  <2>2. \A x \in PipeWorkers : (Serving(x)' <=> Serving(x)) /\ server'[x].pipe = server[x].pipe
    BY <1>1, <2>1 DEF Serves, Serving, ServerOK
  <2>3. UNCHANGED <<listener, pending>>
    BY <1>5 DEF HandleRequest, Respond, JobEnds, CountDown, Signal, OthersWork
  <2>4. \A i \in Instances : pipes'[i].open = pipes[i].open
    BY <1>1, <1>5 DEF HandleRequest, Respond, JobEnds, CountDown, Signal, PipeTypeOK, PipesOK
  <2> QED BY <1>1, <2>2, <2>3, <2>4, AttendedFramed
<1> QED BY <1>3, <1>4, <1>5 DEF WorkerStep

LEMMA AttendedOthers ==
  PipeConstants /\ PipeInv /\ (OwnerStep \/ \E c \in Clients : ClientStep(c)) => Attended'
<1> SUFFICES ASSUME PipeConstants, PipeInv, OwnerStep \/ \E c \in Clients : ClientStep(c)
             PROVE  Attended'
  OBVIOUS
<1>1. PipeTypeOK /\ Attended /\ Stages
  BY DEF PipeInv
<1>2. UNCHANGED <<pending, server>> /\ listener'.pipe = listener.pipe
  <2>1. CASE OwnerStep
    BY <1>1, <2>1 DEF OwnerStep, Start, Started, Stop, Joined, workVars, Stages, Attending
  <2>2. ASSUME NEW c \in Clients, ClientStep(c) PROVE UNCHANGED <<pending, server, listener>>
    BY <2>2 DEF ClientStep, Open, Send, ReceiveAnswer, RequestFails, Return, ServerUnchanged, workVars
  <2> QED BY <2>1, <2>2
<1>3. \A i \in Instances : pipes'[i].open = pipes[i].open
  <2>1. CASE OwnerStep
    BY <2>1 DEF OwnerStep, Start, Started, Stop, Joined
  <2>2. ASSUME NEW c \in Clients, ClientStep(c) PROVE \A i \in Instances : pipes'[i].open = pipes[i].open
    BY <1>1, <2>2 DEF ClientStep, Open, Send, ReceiveAnswer, RequestFails, Return, PipeTypeOK, PipesOK
  <2> QED BY <2>1, <2>2
<1>4. \A w \in PipeWorkers : (Serving(w)' <=> Serving(w)) /\ server'[w].pipe = server[w].pipe
  BY <1>2 DEF Serving
<1> QED BY <1>1, <1>2, <1>3, <1>4, AttendedFramed

-----------------------------------------------------------------------------
(* Clients and their requests.                                             *)

(* To close instances and to leave them alone disconnects clients only. *)
LEMMA ConnectionsFramed ==
  ASSUME PipeConstants, Connections, UNCHANGED client,
         \A i \in Instances : pipes'[i].peer \in {Nobody, pipes[i].peer}
  PROVE  Connections'
<1>1. Instances' = Instances
  BY DEF Instances, MaxWorkers
<1> QED BY <1>1 DEF Connections, PipeConstants

(* The server only ever disconnects. *)
LEMMA ServerDisconnects ==
  ASSUME PipeConstants, PipeInv, NEW i \in Instances,
         OwnerStep \/ ListenerStep \/ \E w \in PipeWorkers : WorkerStep(w)
  PROVE  pipes'[i].peer \in {Nobody, pipes[i].peer}
<1>1. PipesOK
  BY DEF PipeInv, PipeTypeOK
<1>2. CASE OwnerStep
  BY <1>2 DEF OwnerStep, Start, Started, Stop, Joined
<1>3. CASE Create
  <2>1. Min(Unused) \in Instances
    BY <1>3, CreateFacts DEF Create
  <2> QED BY <1>1, <1>3, <2>1 DEF Create, Closed, PipesOK
<1>4. CASE Drain
  BY <1>4 DEF Drain, Closed
<1>5. CASE ListenerStep /\ ~Create /\ ~Drain
  BY <1>5 DEF ListenerStep, Connect, Connected, Occupied, Unblocked, WorkerFree, Dispatch, Leave,
     ListenerFails, Drained, ClosePipe, Closed, workVars
<1>6. ASSUME NEW w \in PipeWorkers, WorkerStep(w) PROVE pipes'[i].peer \in {Nobody, pipes[i].peer}
  BY <1>1, <1>6 DEF WorkerStep, TakeJob, HandleRequest, Respond, JobEnds, CloseConnection, CountDown,
     Signal, ClosePipe, Closed, PipesOK
<1> QED BY <1>2, <1>3, <1>4, <1>5, <1>6

(* What a client does to the instances. *)
LEMMA ClientConnects ==
  ASSUME PipeConstants, PipeInv, NEW c \in Clients, ClientStep(c), NEW i \in Instances
  PROVE  /\ \A d \in Clients : d # c => (pipes'[i].peer = d <=> pipes[i].peer = d)
         /\ pipes'[i].peer = c => client'[c].at \in {"opened", "sent"} /\ client'[c].pipe = i
         /\ pipes'[i].peer = Nobody => pipes[i].peer = Nobody
         /\ pipes'[i].replied = pipes[i].replied
         /\ \A d \in Clients : d # c => client'[d] = client[d]
<1>1. PipesOK /\ ClientOK /\ Connections
  BY DEF PipeInv, PipeTypeOK
<1>2. CASE Open(c)
  <2>1. PICK j \in Instances :
          /\ pipes[j].peer = Nobody /\ pipes' = [pipes EXCEPT ![j].peer = c]
          /\ client' = [client EXCEPT ![c] = [at |-> "opened", pipe |-> j]]
    BY <1>2 DEF Open
  <2>2. pipes[i].peer # c
    BY <1>1, <1>2 DEF Open, Connections
  <2>3. pipes'[i] = IF i = j THEN [pipes[i] EXCEPT !.peer = c] ELSE pipes[i]
    BY <1>1, <2>1 DEF PipesOK
  <2>4. pipes'[i].peer = (IF i = j THEN c ELSE pipes[i].peer) /\ pipes'[i].replied = pipes[i].replied
    BY <1>1, <2>3 DEF PipesOK
  <2> QED BY <1>1, <2>1, <2>2, <2>4 DEF PipeConstants, ClientOK
<1>3. CASE Send(c) \/ Return(c)
  <2>1. UNCHANGED pipes
    BY <1>3 DEF Send, Return
  <2>2. pipes[i].peer = c => client[c].pipe = i /\ Send(c)
    BY <1>1, <1>3 DEF Send, Return, Connections
  <2> QED BY <1>1, <1>3, <2>1, <2>2 DEF Send, Return, ClientOK
<1>4. CASE ReceiveAnswer(c) \/ RequestFails(c)
  <2>1. pipes[i].peer = c => client[c].pipe = i
    BY <1>1 DEF Connections
  <2>2. pipes' = (IF Holds(c) THEN [pipes EXCEPT ![client[c].pipe].peer = Gone] ELSE pipes)
        /\ \A d \in Clients : d # c => client'[d] = client[d]
    BY <1>1, <1>4 DEF ReceiveAnswer, RequestFails, ClientOK
  <2>3. pipes'[i].peer = (IF i = client[c].pipe /\ Holds(c) THEN Gone ELSE pipes[i].peer)
        /\ pipes'[i].replied = pipes[i].replied
    BY <1>1, <2>2 DEF PipesOK
  <2>4. pipes'[i].peer # c
    BY <2>1, <2>3 DEF Holds, PipeConstants
  <2>5. i = client[c].pipe /\ Holds(c) => pipes[i].peer = c
    BY DEF Holds
  <2> QED BY <2>2, <2>3, <2>4, <2>5 DEF PipeConstants, Nobody, Gone
<1> QED BY <1>2, <1>3, <1>4 DEF ClientStep

LEMMA ConnectionsHold == PipeConstants /\ PipeInv /\ PipeNext => Connections'
<1> SUFFICES ASSUME PipeConstants, PipeInv, PipeNext PROVE Connections'
  OBVIOUS
<1>1. Connections /\ PipeTypeOK
  BY DEF PipeInv
<1>2. Instances' = Instances
  BY DEF Instances, MaxWorkers
<1>3. CASE OwnerStep \/ ListenerStep \/ \E w \in PipeWorkers : WorkerStep(w)
  <2>1. UNCHANGED client
    BY <1>3 DEF OwnerStep, Start, Started, Stop, Joined, ListenerStep, Create, Connect, Connected, Occupied,
       Unblocked, WorkerFree, Dispatch, Leave, ListenerFails, Drain, Drained, WorkerStep, TakeJob,
       HandleRequest, Respond, JobEnds, CloseConnection, CountDown, Signal, clientVars
  <2> QED BY <1>1, <1>3, <2>1, ServerDisconnects, ConnectionsFramed
<1>4. ASSUME NEW c \in Clients, ClientStep(c) PROVE Connections'
  BY <1>1, <1>2, <1>4, ClientConnects DEF Connections
<1> QED BY <1>3, <1>4 DEF PipeNext, OwnerStep, ListenerStep, WorkerStep, ClientStep

(* Answers, by a step that closes instances nobody is answering on, makes  *)
(* no reply and queues or serves what was attended to.                     *)
Settled(i) == pipes'[i].peer = Nobody /\ ~pipes'[i].replied
LEMMA AnswersFramed ==
  ASSUME PipeConstants, Answers, PipeTypeOK, PipeTypeOK', UNCHANGED <<client, handled>>,
         \A i \in Instances : Settled(i) \/ pipes'[i] = pipes[i],
         \A w \in PipeWorkers : server'[w].at = "answering" =>
            /\ server'[w] = server[w] /\ pipes'[server[w].pipe] = pipes[server[w].pipe],
         \A w \in PipeWorkers : server'[w].at = "reading" =>
            server'[w].pipe \in Instances /\ Unhandled(server'[w].pipe),
         \A n \in DOMAIN pending' : Unhandled(pending'[n]),
         listener'.at \in Attending =>
            listener'.pipe \in Instances /\ (Unhandled(listener'.pipe) \/ Settled(listener'.pipe))
  PROVE  Answers'
<1>1. Instances' = Instances
  BY DEF Instances, MaxWorkers
<1>2. \A i \in Instances : Unhandled(i) \/ Settled(i) => Unhandled(i)'
  BY DEF Unhandled, Settled, PipeConstants
<1>3. \A n \in DOMAIN pending' : pending'[n] \in Instances
  BY <1>1, ElementOfSeq, LenProperties DEF PipeTypeOK, JobsOK
<1>4. \A i \in Instances : pipes'[i].replied => Handled(i)'
  BY DEF Settled, Answers, Handled
<1>5. \A w \in PipeWorkers : server'[w].at = "answering" => Handled(server[w].pipe)'
  BY DEF Answers, Handled
<1> QED BY <1>1, <1>2, <1>3, <1>4, <1>5 DEF Answers

LEMMA AnswersListener == PipeConstants /\ PipeInv /\ (OwnerStep \/ ListenerStep) => Answers'
<1> SUFFICES ASSUME PipeConstants, PipeInv, OwnerStep \/ ListenerStep PROVE Answers'
  OBVIOUS
<1>1. Answers /\ PipeTypeOK /\ Attended /\ Stages /\ PipeTypeOK'
  BY TypeOwner, TypeListener DEF PipeInv
<1>2. UNCHANGED <<client, handled, server>>
  BY DEF OwnerStep, Start, Started, Stop, Joined, ListenerStep, Create, Connect, Connected, Occupied,
     Unblocked, WorkerFree, Dispatch, Leave, ListenerFails, Drain, Drained, workVars, clientVars
<1>3. \A w \in PipeWorkers :
        Serving(w) => server[w].pipe \in Instances /\ server[w].pipe # listener.pipe /\ ~Queued(server[w].pipe)
  BY <1>1 DEF Attended, ServedOnce
<1>4. ASSUME NEW w \in PipeWorkers, server'[w].at = "reading"
      PROVE  server'[w].pipe \in Instances /\ Unhandled(server'[w].pipe)
  BY <1>1, <1>2, <1>3, <1>4 DEF Answers, Serving, Working
<1>5. \A i \in Instances : Settled(i) \/ pipes'[i] = pipes[i]
  <2>1. CASE Create
    <3>1. Min(Unused) \in Instances
      BY <2>1, CreateFacts DEF Create
    <3> QED BY <1>1, <2>1, <3>1 DEF Create, Settled, Closed, PipeTypeOK, PipesOK
  <2>2. CASE ~Create
    BY <2>2 DEF OwnerStep, Start, Started, Stop, Joined, ListenerStep, Connect, Connected, Occupied,
       Unblocked, WorkerFree, Dispatch, Leave, ListenerFails, Drain, Drained, ClosePipe, Settled, Closed, workVars
  <2> QED BY <2>1, <2>2
<1>6. ASSUME NEW w \in PipeWorkers, server'[w].at = "answering"
      PROVE  server'[w] = server[w] /\ pipes'[server[w].pipe] = pipes[server[w].pipe]
  <2> DEFINE i == server[w].pipe
  <2>1. i \in Instances /\ i # listener.pipe /\ ~Queued(i) /\ Served(i)
    BY <1>2, <1>3, <1>6 DEF Serving, Working, Served
  <2> HIDE DEF i
  <2>2. CASE Create
    <3>1. pipes[i].open /\ Min(Unused) # i
      BY <1>1, <2>1, <2>2, CreateFacts DEF Create, Attended, OpenAttended
    <3> QED BY <1>1, <1>2, <2>1, <2>2, <3>1 DEF Create, PipeTypeOK, PipesOK, i
  <2>3. CASE Drain
    <3>1. i \notin ToSet(pending)
      BY <1>1, <2>1, QueueFacts DEF ToSet, Queued
    <3> QED BY <1>2, <2>1, <2>3, <3>1 DEF Drain, i
  <2>4. CASE ~Create /\ ~Drain
    <3>1. pipes'[i] = pipes[i]
      BY <2>1, <2>4 DEF OwnerStep, Start, Started, Stop, Joined, ListenerStep, Connect, Connected, Occupied,
         Unblocked, WorkerFree, Dispatch, Leave, ListenerFails, Drained, ClosePipe, workVars
    <3> QED BY <1>2, <3>1 DEF i
  <2> QED BY <2>2, <2>3, <2>4
<1>7. ASSUME NEW n \in DOMAIN pending' PROVE Unhandled(pending'[n])
  <2>1. CASE Dispatch
    <3>1. listener.pipe \in Instances /\ Unhandled(listener.pipe)
      BY <1>1, <2>1 DEF Dispatch, PipeTypeOK, ListenerOK, Stages, Attending, Answers
    <3>2. /\ DOMAIN pending' = 1..Len(pending) + 1 /\ DOMAIN pending = 1..Len(pending) /\ Len(pending) \in Nat
          /\ \A m \in DOMAIN pending : pending'[m] = pending[m]
          /\ pending'[Len(pending) + 1] = listener.pipe
      BY <1>1, <2>1, <3>1, AppendFacts, QueueFacts DEF Dispatch
    <3>3. n = Len(pending) + 1 \/ n \in DOMAIN pending
      BY <1>7, <3>2
    <3> QED BY <1>1, <3>1, <3>2, <3>3 DEF Answers
  <2>2. CASE Drain
    BY <1>7, <2>2 DEF Drain
  <2>3. CASE UNCHANGED pending
    BY <1>1, <1>7, <2>3 DEF Answers
  <2> QED BY <2>1, <2>2, <2>3 DEF OwnerStep, Start, Started, Stop, Joined, ListenerStep, Create, Connect,
         Connected, Occupied, Unblocked, WorkerFree, Leave, ListenerFails, Drained, workVars
<1>8. ASSUME listener'.at \in Attending
      PROVE  listener'.pipe \in Instances /\ (Unhandled(listener'.pipe) \/ Settled(listener'.pipe))
  <2>1. CASE Create
    <3>1. Min(Unused) \in Instances /\ listener'.pipe = Min(Unused)
      BY <2>1, CreateFacts DEF Create, Listens
    <3> QED BY <1>1, <2>1, <3>1 DEF Create, Settled, Closed, PipeTypeOK, PipesOK
  <2>2. CASE ~Create
    <3>1. listener'.pipe = listener.pipe /\ listener.at \in Attending
      BY <1>8, <2>2 DEF OwnerStep, Start, Started, Stop, Joined, ListenerStep, Connect, Connected, Occupied,
         Unblocked, WorkerFree, Dispatch, Leave, ListenerFails, Drain, Drained, Listens, Attending
    <3>2. listener.pipe \in Instances
      BY <1>1, <3>1 DEF PipeTypeOK, ListenerOK, Stages
    <3> QED BY <1>1, <3>1, <3>2 DEF Answers
  <2> QED BY <2>1, <2>2
<1> QED BY <1>1, <1>2, <1>4, <1>5, <1>6, <1>7, <1>8, AnswersFramed

LEMMA AnswersWorker ==
  ASSUME PipeConstants, PipeInv, NEW w \in PipeWorkers, WorkerStep(w) PROVE Answers'
<1>0. PICK i : i = server[w].pipe
  OBVIOUS
<1>1. Answers /\ PipeTypeOK /\ Attended /\ Stages /\ Connections /\ PipeTypeOK'
      /\ PipesOK /\ ServerOK /\ ClientOK
  BY TypeWorker DEF PipeInv, PipeTypeOK
<1>2. \A x \in PipeWorkers : x # w => server'[x] = server[x]
  BY <1>1 DEF WorkerStep, TakeJob, HandleRequest, Respond, JobEnds, CloseConnection, CountDown, Signal,
     Serves, ServerOK
<1>3. UNCHANGED listener /\ (listener.at \in Attending => listener.pipe \in Instances)
  BY <1>1 DEF WorkerStep, TakeJob, HandleRequest, Respond, JobEnds, CloseConnection, CountDown, Signal,
     OthersWork, PipeTypeOK, ListenerOK, Stages
<1>4. \A x \in PipeWorkers : Serving(x) => server[x].pipe \in Instances /\ (x # w /\ Serving(w) => server[x].pipe # i)
  BY <1>0, <1>1 DEF Attended, ServedOnce
<1>5. Instances' = Instances
  BY DEF Instances, MaxWorkers
<1>6. CASE HandleRequest(w)
  <2>1. PICK c \in Clients :
          /\ pipes[i].peer = c /\ client[c].at = "sent" /\ handled' = [handled EXCEPT ![c] = @ + 1]
    BY <1>0, <1>6 DEF HandleRequest, Peer
  <2>2. i \in Instances /\ Serving(w) /\ i # listener.pipe /\ ~Queued(i)
    BY <1>0, <1>1, <1>6 DEF HandleRequest, Serving, Working, Attended, ServedOnce
  <2>3. handled[c] = 0 /\ handled'[c] = 1 /\ \A d \in Clients : d # c => handled'[d] = handled[d]
    BY <1>0, <1>1, <1>6, <2>1 DEF HandleRequest, Answers, Unhandled, ClientOK
  <2>4. UNCHANGED <<pipes, pending, client>> /\ server'[w].at = "answering" /\ server'[w].pipe = i
    BY <1>0, <1>1, <1>6 DEF HandleRequest, Serves, ServerOK
  <2>5. \A j \in Instances : j # i => pipes[j].peer # c
    BY <1>1, <2>1, <2>2 DEF Connections
  <2>6. \A j \in Instances : j # i => (Unhandled(j) => Unhandled(j)') /\ (Handled(j) => Handled(j)')
    BY <2>3, <2>4, <2>5 DEF Unhandled, Handled
  <2>7. Handled(i)'
    BY <2>1, <2>3, <2>4 DEF Handled, PipeConstants
  <2>8. \A d \in Clients : /\ client'[d].at \in {"idle", "opened"} => handled'[d] = 0
                           /\ client'[d].at = "answered" => handled'[d] = 1
    BY <1>1, <2>1, <2>3, <2>4 DEF Answers
  <2>9. listener'.at \in Attending => Unhandled(listener.pipe)'
    BY <1>1, <1>3, <2>2, <2>6 DEF Answers
  <2>10. \A n \in DOMAIN pending' : Unhandled(pending[n])'
    BY <1>1, <2>2, <2>4, <2>6, QueueFacts DEF Answers, Queued
  <2>11. ASSUME NEW x \in PipeWorkers
         PROVE  /\ server'[x].at = "reading" => Unhandled(server[x].pipe)'
                /\ server'[x].at = "answering" => Handled(server[x].pipe)'
    <3>1. CASE x = w
      BY <2>4, <2>7, <3>1
    <3>2. CASE x # w
      <4>1. server'[x] = server[x] /\ (Serving(x) => server[x].pipe \in Instances /\ server[x].pipe # i)
        BY <1>2, <1>4, <2>2, <3>2
      <4> QED BY <1>1, <2>6, <4>1 DEF Answers, Serving, Working
    <3> QED BY <3>1, <3>2
  <2>12. \A j \in Instances : pipes'[j].replied => Handled(j)'
    BY <1>1, <2>4, <2>6, <2>7 DEF Answers
  <2> QED BY <1>3, <1>5, <2>8, <2>9, <2>10, <2>11, <2>12 DEF Answers
<1>7. CASE Respond(w)
  <2>1. i \in Instances /\ Serving(w) /\ Handled(i)
    BY <1>0, <1>1, <1>4, <1>7 DEF Respond, Serving, Working, Answers
  <2>2. UNCHANGED <<pending, client, handled>> /\ server'[w].at = "leasing"
    BY <1>1, <1>7 DEF Respond, Serves, ServerOK, clientVars
  <2>3. \A j \in Instances : pipes'[j].peer = pipes[j].peer /\ (j # i => pipes'[j].replied = pipes[j].replied)
    BY <1>0, <1>1, <1>7 DEF Respond, PipesOK
  <2>4. \A j \in Instances : (Unhandled(j) => Unhandled(j)') /\ (Handled(j) => Handled(j)')
    BY <2>2, <2>3 DEF Unhandled, Handled
  <2>5. listener'.at \in Attending => Unhandled(listener.pipe)'
    BY <1>1, <1>3, <2>4 DEF Answers
  <2>6. \A n \in DOMAIN pending' : Unhandled(pending[n])'
    BY <1>1, <2>2, <2>4, QueueFacts DEF Answers
  <2>7. ASSUME NEW x \in PipeWorkers
        PROVE  /\ server'[x].at = "reading" => Unhandled(server[x].pipe)'
               /\ server'[x].at = "answering" => Handled(server[x].pipe)'
    <3>1. x # w \/ server'[x].at = "leasing"
      BY <2>2
    <3>2. x # w => server'[x] = server[x] /\ (Serving(x) => server[x].pipe \in Instances)
      BY <1>2, <1>4
    <3> QED BY <1>1, <2>4, <3>1, <3>2 DEF Answers, Serving, Working
  <2>8. \A j \in Instances : pipes'[j].replied => Handled(j)'
    BY <1>1, <2>1, <2>3, <2>4 DEF Answers
  <2> QED BY <1>1, <1>3, <1>5, <2>2, <2>5, <2>6, <2>7, <2>8 DEF Answers
<1>8. CASE ~HandleRequest(w) /\ ~Respond(w)
  <2>1. UNCHANGED <<client, handled>>
    BY <1>8 DEF WorkerStep, TakeJob, JobEnds, CloseConnection, CountDown, Signal, clientVars
  <2>2. \A j \in Instances : pipes'[j] = pipes[j] \/ (Settled(j) /\ j = i /\ CloseConnection(w))
    BY <1>0, <1>8 DEF WorkerStep, TakeJob, JobEnds, CloseConnection, CountDown, Signal, ClosePipe, Settled, Closed
  <2>3. server'[w].at # "answering" /\ (server'[w].at = "reading" => TakeJob(w))
    BY <1>1, <1>8, EndingFacts DEF WorkerStep, TakeJob, JobEnds, CloseConnection, CountDown, Signal,
       Serves, ServerOK
  <2>4. CloseConnection(w) => Serving(w)
    BY DEF CloseConnection, Serving, Working
  <2>5. ASSUME NEW x \in PipeWorkers, server'[x].at = "answering"
        PROVE  server'[x] = server[x] /\ pipes'[server[x].pipe] = pipes[server[x].pipe]
    <3>1. x # w /\ server'[x] = server[x] /\ Serving(x)
      BY <1>2, <2>3, <2>5 DEF Serving, Working
    <3> QED BY <1>4, <2>2, <2>4, <3>1
  <2>6. ASSUME NEW x \in PipeWorkers, server'[x].at = "reading"
        PROVE  server'[x].pipe \in Instances /\ Unhandled(server'[x].pipe)
    <3>1. CASE x = w
      <4>1. TakeJob(w) /\ server'[w].pipe = Head(pending)
        BY <1>1, <2>3, <2>6, <3>1 DEF TakeJob, ServerOK
      <4>2. 1 \in DOMAIN pending /\ Head(pending) = pending[1] /\ Head(pending) \in Instances
        BY <1>1, <4>1, TakeFacts DEF TakeJob
      <4> QED BY <1>1, <3>1, <4>1, <4>2 DEF Answers
    <3>2. CASE x # w
      <4>1. server'[x] = server[x] /\ Serving(x)
        BY <1>2, <2>6, <3>2 DEF Serving, Working
      <4> QED BY <1>1, <1>4, <2>6, <4>1 DEF Answers
    <3> QED BY <3>1, <3>2
  <2>7. ASSUME NEW n \in DOMAIN pending' PROVE Unhandled(pending'[n])
    <3>1. CASE TakeJob(w)
      <4>1. n + 1 \in DOMAIN pending /\ pending'[n] = pending[n + 1]
        BY <1>1, <2>7, <3>1, TakeFacts DEF TakeJob
      <4> QED BY <1>1, <4>1 DEF Answers
    <3>2. CASE UNCHANGED pending
      BY <1>1, <2>7, <3>2 DEF Answers
    <3> QED BY <1>8, <3>1, <3>2 DEF WorkerStep, JobEnds, CloseConnection, CountDown, Signal
  <2>8. listener'.at \in Attending =>
          listener'.pipe \in Instances /\ (Unhandled(listener'.pipe) \/ Settled(listener'.pipe))
    BY <1>1, <1>3 DEF Answers
  <2> QED BY <1>1, <2>1, <2>2, <2>5, <2>6, <2>7, <2>8, AnswersFramed
<1> QED BY <1>6, <1>7, <1>8

LEMMA AnswersClient ==
  ASSUME PipeConstants, PipeInv, NEW c \in Clients, ClientStep(c) PROVE Answers'
<1>1. Answers /\ PipeTypeOK /\ Attended /\ Stages /\ Connections /\ ClientOK /\ Connections'
  BY ConnectionsHold DEF PipeInv, PipeTypeOK, ClientStep, PipeNext
<1>2. Instances' = Instances /\ UNCHANGED <<listener, pending, server>>
  BY DEF ClientStep, Open, Send, ReceiveAnswer, RequestFails, Return, ServerUnchanged, workVars,
     Instances, MaxWorkers
<1>3. \A d \in Clients : d # c => handled'[d] = handled[d] /\ client'[d] = client[d]
  BY <1>1 DEF ClientStep, Open, Send, ReceiveAnswer, RequestFails, Return, ClientOK
<1>4. /\ client'[c].at \in {"idle", "opened"} => handled'[c] = 0
      /\ client'[c].at = "answered" => handled'[c] = 1
  <2>1. CASE ReceiveAnswer(c)
    <3>1. client[c].pipe \in Instances
      BY <1>1, <2>1 DEF ReceiveAnswer, ClientOK, Answers
    <3>2. handled[c] = 1
      BY <1>1, <2>1, <3>1 DEF ReceiveAnswer, Holds, Answers, Handled
    <3> QED BY <1>1, <2>1, <3>2 DEF ReceiveAnswer, ClientOK
  <2>2. CASE ~ReceiveAnswer(c)
    BY <1>1, <2>2 DEF ClientStep, Open, Send, RequestFails, Return, Answers, ClientOK, Idle
  <2> QED BY <2>1, <2>2
<1>5. ASSUME NEW i \in Instances PROVE (Unhandled(i) => Unhandled(i)') /\ (Handled(i) => Handled(i)')
  <2>1. /\ \A d \in Clients : d # c => (pipes'[i].peer = d <=> pipes[i].peer = d)
        /\ pipes'[i].peer = Nobody => pipes[i].peer = Nobody
    BY ClientConnects
  <2>2. pipes'[i].peer = c => (handled'[c] = 0 /\ ~Handled(i)) \/ (handled'[c] = handled[c] /\ pipes[i].peer = c)
    <3>1. CASE Open(c)
      <4>1. PICK j \in Instances : pipes[j].peer = Nobody /\ pipes' = [pipes EXCEPT ![j].peer = c]
        BY <3>1 DEF Open
      <4>2. handled'[c] = 0
        BY <1>1, <3>1 DEF Open, Answers
      <4>3. pipes[i].peer # c
        BY <1>1, <3>1 DEF Open, Connections
      <4>4. pipes'[i].peer = c => pipes[i].peer = Nobody
        BY <1>1, <4>1, <4>3 DEF PipeTypeOK, PipesOK
      <4> QED BY <4>2, <4>4 DEF Handled
    <3>2. CASE Send(c)
      BY <3>2 DEF Send
    <3>3. CASE ReceiveAnswer(c) \/ RequestFails(c) \/ Return(c)
      <4>1. client'[c].at \notin {"opened", "sent"}
        BY <1>1, <3>3 DEF ReceiveAnswer, RequestFails, Return, ClientOK, Idle
      <4> QED BY <4>1, ClientConnects
    <3> QED BY <3>1, <3>2, <3>3 DEF ClientStep
  <2>3. Unhandled(i) => Unhandled(i)'
    BY <1>3, <2>1, <2>2 DEF Unhandled
  <2>4. Handled(i) => Handled(i)'
    BY <1>3, <2>1, <2>2 DEF Handled
  <2> QED BY <2>3, <2>4
<1>6. listener'.at \in Attending => Unhandled(listener.pipe)'
  <2>1. listener.at \in Attending => listener.pipe \in Instances
    BY <1>1 DEF PipeTypeOK, ListenerOK, Stages
  <2> QED BY <1>1, <1>2, <1>5, <2>1 DEF Answers
<1>7. \A n \in DOMAIN pending' : Unhandled(pending[n])'
  BY <1>1, <1>2, <1>5, QueueFacts DEF Answers
<1>8. \A w \in PipeWorkers : /\ server'[w].at = "reading" => Unhandled(server[w].pipe)'
                             /\ server'[w].at = "answering" => Handled(server[w].pipe)'
  <2>1. \A w \in PipeWorkers : Serving(w) => server[w].pipe \in Instances
    BY <1>1 DEF Attended, ServedOnce
  <2> QED BY <1>1, <1>2, <1>5, <2>1 DEF Answers, Serving, Working
<1>9. \A i \in Instances : pipes'[i].replied => Handled(i)'
  BY <1>1, <1>5, ClientConnects DEF Answers
<1>10. \A d \in Clients : /\ client'[d].at \in {"idle", "opened"} => handled'[d] = 0
                          /\ client'[d].at = "answered" => handled'[d] = 1
  BY <1>1, <1>3, <1>4 DEF Answers
<1> QED BY <1>2, <1>6, <1>7, <1>8, <1>9, <1>10 DEF Answers

-----------------------------------------------------------------------------
(* The results.                                                            *)

(* The invariant is inductive. *)
LEMMA PipeGoes == PipeConstants /\ PipeInv /\ [PipeNext]_pipeVars => PipeInv'
<1> SUFFICES ASSUME PipeConstants, PipeInv, [PipeNext]_pipeVars PROVE PipeInv'
  OBVIOUS
<1>1. CASE PipeNext
  <2>1. OwnerStep \/ ListenerStep \/ (\E w \in PipeWorkers : WorkerStep(w)) \/ \E c \in Clients : ClientStep(c)
    BY <1>1 DEF PipeNext, OwnerStep, ListenerStep, WorkerStep, ClientStep
  <2>2. PipeTypeOK'
    BY <2>1, TypeOwner, TypeListener, TypeWorker, TypeClient
  <2>3. Attended'
    BY <2>1, AttendedOthers, AttendedListener, AttendedWorker
  <2>4. Answers'
    BY <2>1, AnswersListener, AnswersWorker, AnswersClient
  <2> QED BY <1>1, <2>2, <2>3, <2>4, StagesHold, CountsHold, CapacityHolds, ConnectionsHold DEF PipeInv
<1>2. CASE UNCHANGED pipeVars
  <2>1. PipeTypeOK'
    BY <1>2 DEF pipeVars, PipeInv, PipeTypeOK, SwitchesOK, ListenerOK, PipesOK, JobsOK, ServerOK, ClientOK,
       Instances, MaxWorkers
  <2>2. Stages' /\ JobsCounted' /\ CapacitySeen'
    BY <1>2 DEF pipeVars, PipeInv, Stages, JobsCounted, Counted, CapacitySeen, MaxWorkers
  <2>3. Attended'
    BY <1>2 DEF pipeVars, PipeInv, Attended, OpenAttended, QueuedOnce, ServedOnce, Queued, Served, Serving,
       Instances, MaxWorkers
  <2>4. Connections' /\ Answers'
    BY <1>2 DEF pipeVars, PipeInv, Connections, Answers, Unhandled, Handled, Instances, MaxWorkers
  <2> QED BY <2>1, <2>2, <2>3, <2>4 DEF PipeInv
<1> QED BY <1>1, <1>2

(* There is one instance more than jobs can be counted, and a listener     *)
(* that creates has none: so one is unused.                                *)
LEMMA InstancesSuffice == PipeConstants /\ PipeInv => WithinInstances
<1> SUFFICES ASSUME PipeConstants, PipeInv, listener.at = "creating", Unused = {} PROVE FALSE
  BY DEF WithinInstances
<1>1. JobsCounted /\ Attended /\ Stages /\ PipeTypeOK
  BY DEF PipeInv
<1> DEFINE places == 1..Len(pending)
           queue == [n \in places |-> pending[n]]
           queued == {pending[n] : n \in places}
           serves == [w \in Counted |-> server[w].pipe]
           served == {server[w].pipe : w \in Counted}
<1>2. DOMAIN pending = places /\ Len(pending) \in Nat
  BY <1>1, QueueFacts
<1>3. IsFiniteSet(queued) /\ Cardinality(queued) <= Len(pending)
  <2>1. queue \in Surjection(places, queued)
    BY DEF Surjection
  <2>2. IsFiniteSet(places) /\ Cardinality(places) = Len(pending)
    <3>1. Len(pending) \in Int /\ 1 \in Int
      BY <1>2
    <3>2. IsFiniteSet(1..Len(pending))
          /\ Cardinality(1..Len(pending)) = IF 1 > Len(pending) THEN 0 ELSE Len(pending) - 1 + 1
      BY <3>1, FS_Interval
    <3> QED BY <1>2, <3>2
  <2> HIDE DEF queue, places, queued
  <2> QED BY <2>1, <2>2, FS_Surjection
<1>4. IsFiniteSet(served) /\ Cardinality(served) <= Cardinality(Counted)
  <2>1. serves \in Surjection(Counted, served)
    BY DEF Surjection
  <2> HIDE DEF serves, served
  <2> QED BY <2>1, PipeCounts, FS_Surjection
<1>5. Instances \subseteq queued \union served
  <2> SUFFICES ASSUME NEW i \in Instances PROVE i \in queued \union served
    OBVIOUS
  <2>1. pipes[i].open /\ i # listener.pipe
    BY <1>1, PipeCounts DEF Unused, Stages, Attending
  <2>2. Queued(i) \/ Served(i)
    BY <1>1, <2>1 DEF Attended, OpenAttended
  <2> QED BY <1>2, <2>2 DEF Queued, Served, Serving, Working, Counted
<1> HIDE DEF queued, served
<1>6. IsFiniteSet(queued \union served) /\ Cardinality(queued \union served) <= Cardinality(queued) + Cardinality(served)
  <2>1. IsFiniteSet(queued \intersect served)
    BY <1>3, FS_Subset
  <2>2. {Cardinality(queued), Cardinality(served), Cardinality(queued \intersect served)} \subseteq Nat
    BY <1>3, <1>4, <2>1, FS_CardinalityType
  <2>3. IsFiniteSet(queued \union served)
        /\ Cardinality(queued \union served) =
             Cardinality(queued) + Cardinality(served) - Cardinality(queued \intersect served)
    BY <1>3, <1>4, FS_Union
  <2> QED BY <2>2, <2>3
<1>7. Cardinality(Instances) <= Cardinality(queued \union served)
  BY <1>5, <1>6, FS_Subset
<1>8. Cardinality(Instances) = MaxWorkers + 1
  BY PipeCounts, FS_Interval
<1>9. Len(pending) + Cardinality(Counted) <= MaxWorkers
  BY <1>1 DEF JobsCounted
<1>10. {Cardinality(queued), Cardinality(served), Cardinality(queued \union served)} \subseteq Nat
  BY <1>3, <1>4, <1>6, FS_CardinalityType
<1> QED BY <1>2, <1>3, <1>4, <1>6, <1>7, <1>8, <1>9, <1>10, PipeCounts

(* What the invariant means for callers and server. *)
LEMMA PipeMeans == PipeConstants /\ PipeInv => PipeServed
<1> SUFFICES ASSUME PipeConstants, PipeInv PROVE PipeServed
  OBVIOUS
<1>1. NothingServed
  <2> SUFFICES ASSUME owner = "down"
               PROVE  /\ \A i \in Instances : ~pipes[i].open
                      /\ pending = <<>> /\ \A w \in PipeWorkers : server[w].at = "idle"
    BY DEF NothingServed
  <2>1. pending = <<>> /\ listener.pipe = None /\ \A w \in PipeWorkers : server[w].at = "idle"
    BY DEF PipeInv, Stages, Attending
  <2>2. \A i \in Instances : i # listener.pipe /\ ~Queued(i) /\ ~Served(i)
    BY <2>1, PipeCounts DEF Queued, Served, Serving, Working
  <2> QED BY <2>1, <2>2 DEF PipeInv, PipeTypeOK, PipesOK, Attended, OpenAttended
<1>2. HandledOnce
  BY DEF HandledOnce, PipeInv, PipeTypeOK, ClientOK, Answers
<1> QED BY <1>1, <1>2, InstancesSuffice DEF PipeServed, PipeInv

(* PipeServer and pipe_request: the instances suffice, no wake-up of the   *)
(* listener is lost, a stop that has returned leaves nothing, and an       *)
(* answered request was handled exactly once.                              *)
THEOREM PipeHolds ==
  ASSUME PipeConstants PROVE PipeInit /\ [][PipeNext]_pipeVars => []PipeServed
BY PipeStarts, PipeGoes, PipeMeans, PTL
-----------------------------------------------------------------------------
(* The owner of CoreHost.                                                  *)

(* Nothing is launched at first. *)
LEMMA ClientStarts == ClientInit => ClientInv
<1> SUFFICES ASSUME ClientInit PROVE ClientInv
  OBVIOUS
<1>1. LaunchTypeOK
  BY DEF ClientInit, Resting, NoStatus, LaunchTypeOK, LaunchWorkers, LaunchStates, Polls, Leavings,
         Closings
<1>2. /\ OneOnItsWay /\ ExpectedUnlessTold /\ AnswerOlder
      /\ WorkerAwaited /\ ProcessAwaited /\ ExitComplete
  BY DEF ClientInit, Resting, NoStatus, OneOnItsWay, ExpectedUnlessTold,
         AnswerOlder, WorkerAwaited, ProcessAwaited, ExitComplete,
         Confirmed, Expecting, Pending
<1> QED BY <1>1, <1>2 DEF ClientInv

(* What is recorded stays, and makes its processes lost. *)
LEMMA RecordsKept ==
  ASSUME NEW ps, NEW cause, Records(ps, cause)
  PROVE  /\ \A p : IsLost(p) => IsLost(p)'
         /\ \A p : Unexpected(p) => Unexpected(p)'
         /\ cause \in Losses => \A p \in ps : IsLost(p)'
         /\ cause \in Surprises => \A p \in ps : IsLost(p) \/ Unexpected(p)'
  BY DEF Records, IsLost, Unexpected

(* Clearing issued loses every process it stood for, if it is expected no  *)
(* more or was launched after the status was read.                         *)
LEMMA ErasedLost ==
  ASSUME LaunchTypeOK, history' = history \cup Erased
  PROVE  /\ \A p : IsLost(p) => IsLost(p)'
         /\ \A p : Unexpected(p) => Unexpected(p)'
         /\ \A p \in Issued : p <= statusPoll.seen /\ Unexpected(p) => IsLost(p)'
         /\ \A p \in Issued : p > statusPoll.seen => IsLost(p)'
<1>1. \A p : IsLost(p) => IsLost(p)'
  BY DEF IsLost
<1>2. \A p : Unexpected(p) => Unexpected(p)'
  BY DEF Unexpected
<1>0. statusPoll.seen \in Nat /\ Issued \subseteq Nat
  BY DEF LaunchTypeOK, Issued, Polls
<1>3. ASSUME NEW p \in Issued, ~IsLost(p), p > statusPoll.seen
      PROVE  IsLost(p)'
  <2>1. <<p, "stale">> \in Erased
    BY <1>3 DEF Erased
  <2> QED BY <2>1 DEF IsLost, Losses
<1>4. ASSUME NEW p \in Issued, ~IsLost(p), Unexpected(p), p <= statusPoll.seen
      PROVE  IsLost(p)'
  <2>1. <<p, "forgotten">> \in Erased
    BY <1>0, <1>4 DEF Erased
  <2> QED BY <2>1 DEF IsLost, Losses
<1> QED BY <1>1, <1>2, <1>3, <1>4

(* CoreHost, the launch worker, the GUI and the two ways out keep the      *)
(* invariant.                                                              *)
LEMMA HistoryKept ==
  ASSUME UNCHANGED history
  PROVE  \A p : /\ IsLost(p)' <=> IsLost(p)
                /\ Unexpected(p)' <=> Unexpected(p)
  BY DEF IsLost, Unexpected

LEMMA ClientStepOK == ClientInv /\ ClientNext => ClientInv'
<1> SUFFICES ASSUME ClientInv, ClientNext PROVE ClientInv'
  OBVIOUS
<1>0. /\ LaunchTypeOK /\ OneOnItsWay /\ ExpectedUnlessTold
      /\ AnswerOlder /\ WorkerAwaited /\ ProcessAwaited /\ ExitComplete
  BY DEF ClientInv
<1> USE <1>0 DEF LaunchWorkers, LaunchStates, Polls, Leavings, Closings
<1>1. CASE Appear
  <2>1. LaunchTypeOK'
    <3>1. PICK p \in coming : coming' = coming \ {p} /\ (holder' = {p} \/ holder' = holder)
      BY <1>1 DEF Appear
    <3>2. coming' \subseteq Nat /\ holder' \subseteq Nat /\ \A q \in coming' : q <= launches
      BY <3>1 DEF LaunchTypeOK
    <3>3. UNCHANGED <<launcher, launch, statusPoll, leaving, closing, launches>>
      BY <1>1 DEF Appear
    <3> QED BY <3>2, <3>3 DEF LaunchTypeOK
  <2>2. history' = history /\ coming' \subseteq coming /\ UNCHANGED <<launcher, launch, gui, statusPoll, leaving, closing, launches>>
    BY <1>1 DEF Appear
  <2>3. \A p : /\ IsLost(p)' <=> IsLost(p)
               /\ Unexpected(p)' <=> Unexpected(p)
    BY <2>2 DEF IsLost, Unexpected
  <2>4. OneOnItsWay'
    BY <1>1, <2>3 DEF Appear, OneOnItsWay
  <2>5. /\ ExpectedUnlessTold' /\ AnswerOlder'
        /\ WorkerAwaited' /\ ProcessAwaited'
    BY <2>2, <2>3 DEF ExpectedUnlessTold, AnswerOlder, WorkerAwaited, ProcessAwaited, Expecting, Looping, Pending
  <2>6. ExitComplete'
    BY <1>1, <2>2, <2>3 DEF Appear, ExitComplete, Confirmed
  <2> QED BY <2>1, <2>4, <2>5, <2>6 DEF ClientInv
<1>2. CASE HostChanges
  <2>2. holder' \subseteq holder /\ UNCHANGED <<coming, launcher, launch, gui, statusPoll, leaving, closing, history, launches>>
    BY <1>2 DEF HostChanges
  <2>1. LaunchTypeOK'
    BY <2>2 DEF LaunchTypeOK
  <2>3. \A p : /\ IsLost(p)' <=> IsLost(p)
               /\ Unexpected(p)' <=> Unexpected(p)
    BY <2>2 DEF IsLost, Unexpected
  <2>4. OneOnItsWay'
    BY <2>2, <2>3 DEF OneOnItsWay
  <2>5. /\ ExpectedUnlessTold' /\ AnswerOlder'
        /\ WorkerAwaited' /\ ProcessAwaited'
    BY <2>2, <2>3 DEF ExpectedUnlessTold, AnswerOlder, WorkerAwaited, ProcessAwaited, Expecting, Looping, Pending
  <2>6. ExitComplete'
    BY <2>2, <2>3 DEF ExitComplete, Confirmed
  <2> QED BY <2>1, <2>4, <2>5, <2>6 DEF ClientInv
<1>3. CASE UserStarts \/ UserApplies
  <2>1. /\ Looping /\ UNCHANGED <<holder, coming, statusPoll, leaving, closing, launches>>
        /\ \/ UNCHANGED <<launcher, launch>>
           \/ /\ ~Exiting /\ launcher.at = "idle"
              /\ launcher' = [Resting EXCEPT !.at = "asking"]
              /\ launch' = [launch EXCEPT !.cancelled = FALSE]
    BY <1>3 DEF UserStarts, UserApplies, UserActs, Starting, MayStart
  <2>2. /\ \A p : IsLost(p) => IsLost(p)'
        /\ \A p : Unexpected(p) => Unexpected(p)'
        /\ Expecting' => Expecting
        /\ \A p \in coming :
             Expecting => IsLost(p) \/ Unexpected(p)' \/ Expecting'
        /\ launcher'.at # "idle" => ~Expecting'
    <3>1. CASE UserStarts
      <4>1. \A p : /\ IsLost(p)' <=> IsLost(p)
                   /\ Unexpected(p)' <=> Unexpected(p)
        BY <3>1, HistoryKept DEF UserStarts
      <4>2. Expecting' <=> Expecting
        BY <3>1 DEF UserStarts, Starting, Expecting
      <4>3. launcher'.at # "idle" => ~Expecting'
        BY <3>1, <4>2 DEF UserStarts, Starting, MayStart, Expecting, ExpectedUnlessTold
      <4> QED BY <4>1, <4>2, <4>3
    <3>2. CASE UserApplies
      <4>1. Records(IF Expecting THEN coming ELSE {}, "cleared") /\ gui'.expecting = "no"
        BY <3>2 DEF UserApplies, Starting
      <4>2. "cleared" \in Surprises
        BY DEF Surprises
      <4> QED BY <4>1, <4>2, RecordsKept DEF Expecting
    <3> QED BY <1>3, <3>1, <3>2
  <2>3. LaunchTypeOK'
    BY <2>1 DEF LaunchTypeOK, Resting
  <2>4. OneOnItsWay' /\ AnswerOlder' /\ ProcessAwaited'
    <3>1. launcher.at = "created" => launcher'.at = "created"
      BY <2>1
    <3>2. launch'.issued = launch.issued
      BY <2>1 DEF LaunchTypeOK
    <3>3. OneOnItsWay'
      BY <2>1, <2>2, <3>1, <3>2 DEF OneOnItsWay
    <3>4. AnswerOlder' /\ ProcessAwaited'
      BY <2>1, <2>2 DEF AnswerOlder, ProcessAwaited
    <3> QED BY <3>3, <3>4
  <2>5. ExpectedUnlessTold'
    BY <2>1, <2>2 DEF ExpectedUnlessTold, Looping, Resting
  <2>6. WorkerAwaited'
    BY <2>1 DEF WorkerAwaited, Exiting, Looping, Pending, Resting, LaunchTypeOK
  <2>7. ExitComplete'
    BY <2>1, <2>2 DEF ExitComplete, Confirmed
  <2> QED BY <2>3, <2>4, <2>5, <2>6, <2>7 DEF ClientInv
<1>4. CASE AskCore \/ ProbeLock \/ (Schedule /\ launcher'.at = "prompting")
  <2>1. /\ Pending /\ launcher.at # "created"
        /\ launcher'.at # "created" /\ launcher'.at # "idle"
        /\ launcher' \in LaunchWorkers
        /\ UNCHANGED <<holder, coming, launch, gui, statusPoll, leaving, closing, history, launches>>
    <3> DEFINE Asks(w) == w \in LaunchWorkers /\ w.at \notin {"created", "idle"}
    <3>1. \A w \in LaunchWorkers, at \in {"probing", "scheduling"} : Asks([w EXCEPT !.at = at])
      BY DEF LaunchWorkers
    <3>2. \A b \in BOOLEAN : Asks(Reported(b, b))
      BY DEF LaunchWorkers, Reported
    <3>3. launcher \in LaunchWorkers
      BY DEF LaunchTypeOK
    <3> HIDE DEF Asks
    <3>4. CASE AskCore \/ ProbeLock
      <4>1. \/ \E b \in BOOLEAN : launcher' = Reported(b, b)
            \/ \E at \in {"probing", "scheduling"} : launcher' = [launcher EXCEPT !.at = at]
        BY <3>4 DEF AskCore, ProbeLock, WorkerGoes
      <4>2. Asks(launcher')
        BY <3>1, <3>2, <3>3, <4>1
      <4>3. launcher.at \in {"asking", "probing"}
            /\ UNCHANGED <<holder, coming, launch, gui, statusPoll, leaving, closing, history, launches>>
        BY <3>4 DEF AskCore, ProbeLock, WorkerGoes
      <4> QED BY <4>2, <4>3 DEF Asks, Pending
    <3>5. CASE Schedule /\ launcher'.at = "prompting"
      BY <3>5 DEF Schedule, Created, NotCreated, WorkerGoes, Reported, Pending, LaunchTypeOK
    <3> QED BY <1>4, <3>4, <3>5
  <2>2. \A p : /\ IsLost(p)' <=> IsLost(p)
               /\ Unexpected(p)' <=> Unexpected(p)
    BY <2>1, HistoryKept
  <2>3. LaunchTypeOK'
    BY <2>1 DEF LaunchTypeOK
  <2>4. OneOnItsWay' /\ AnswerOlder' /\ ProcessAwaited'
    BY <2>1, <2>2 DEF OneOnItsWay, AnswerOlder, ProcessAwaited
  <2>5. ExpectedUnlessTold'
    BY <2>1, <2>2 DEF ExpectedUnlessTold, Looping, Pending, Expecting
  <2>6. WorkerAwaited'
    BY <2>1 DEF WorkerAwaited
  <2>7. ExitComplete'
    BY <2>1, <2>2 DEF ExitComplete, Confirmed
  <2> QED BY <2>3, <2>4, <2>5, <2>6, <2>7 DEF ClientInv
<1>5. CASE Created /\ launcher.at \in {"scheduling", "prompting"}
  <2>1. /\ launches' = launches + 1 /\ coming' = coming \cup {launches + 1}
        /\ Records(IF coming = {} /\ holder = {} THEN {} ELSE coming', "second")
        /\ launcher' = [launcher EXCEPT !.at = "created"]
        /\ UNCHANGED <<holder, launch, gui, statusPoll, leaving, closing>>
    BY <1>5 DEF Created, WorkerGoes
  <2>2. /\ \A p : IsLost(p) => IsLost(p)'
        /\ \A p : Unexpected(p) => Unexpected(p)'
        /\ coming # {} \/ holder # {} => \A p \in coming' : IsLost(p)'
    BY <2>1, RecordsKept DEF Losses
  <2>3. LaunchTypeOK'
    BY <2>1 DEF LaunchTypeOK
  <2>4. Pending /\ launcher'.at = "created"
    BY <1>5, <2>1 DEF Pending, LaunchTypeOK
  <2>5. WorkerAwaited' /\ ExitComplete' /\ ProcessAwaited'
    BY <2>1, <2>4 DEF WorkerAwaited, ExitComplete, ProcessAwaited, Confirmed
  <2>6. OneOnItsWay'
    BY <2>1, <2>2, <2>4 DEF OneOnItsWay
  <2>7. ExpectedUnlessTold'
    BY <2>1, <2>4, <1>5 DEF ExpectedUnlessTold, Expecting
  <2>8. AnswerOlder'
    BY <2>1, <2>2 DEF AnswerOlder, LaunchTypeOK
  <2> QED BY <2>3, <2>5, <2>6, <2>7, <2>8 DEF ClientInv
<1>6. CASE NotCreated /\ launcher.at \in {"scheduling", "prompting"}
  <2>1. /\ launch' = [launch EXCEPT !.issued = FALSE]
        /\ Records(coming, "second")
        /\ launcher' = Reported(FALSE, FALSE)
        /\ UNCHANGED <<holder, coming, launches, gui, statusPoll, leaving, closing>>
    BY <1>6 DEF NotCreated, WorkerGoes
  <2>2. /\ \A p : IsLost(p) => IsLost(p)'
        /\ \A p : Unexpected(p) => Unexpected(p)'
        /\ \A p \in coming : IsLost(p)'
    BY <2>1, RecordsKept DEF Losses
  <2>3. LaunchTypeOK'
    BY <2>1 DEF LaunchTypeOK, Reported
  <2>4. Pending
    BY <1>6 DEF Pending
  <2>5. WorkerAwaited' /\ ExitComplete' /\ ProcessAwaited'
    BY <2>1, <2>4 DEF WorkerAwaited, ExitComplete, ProcessAwaited, Confirmed
  <2>6. OneOnItsWay' /\ AnswerOlder'
    BY <2>1, <2>2 DEF OneOnItsWay, AnswerOlder
  <2>7. ExpectedUnlessTold'
    BY <2>1, <2>2, <1>6 DEF ExpectedUnlessTold, Expecting
  <2> QED BY <2>3, <2>5, <2>6, <2>7 DEF ClientInv
<1>7. CASE Issue
  <2>1. /\ launcher.at = "created" /\ launch' = [launch EXCEPT !.issued = TRUE]
        /\ launcher' = Reported(TRUE, FALSE)
        /\ UNCHANGED <<holder, coming, launches, history, gui, statusPoll, leaving, closing>>
    BY <1>7 DEF Issue, WorkerGoes
  <2>2. \A p : /\ IsLost(p)' <=> IsLost(p)
               /\ Unexpected(p)' <=> Unexpected(p)
    BY <2>1, HistoryKept
  <2>3. LaunchTypeOK'
    BY <2>1 DEF LaunchTypeOK, Reported
  <2>4. Pending /\ launch'.issued
    BY <2>1 DEF Pending, LaunchTypeOK
  <2>5. WorkerAwaited' /\ ExitComplete' /\ ProcessAwaited'
    BY <2>1, <2>4 DEF WorkerAwaited, ExitComplete, ProcessAwaited, Confirmed
  <2>6. OneOnItsWay' /\ AnswerOlder'
    BY <2>1, <2>2, <2>4 DEF OneOnItsWay, AnswerOlder
  <2>7. ExpectedUnlessTold'
    BY <2>1, <2>2 DEF ExpectedUnlessTold, Expecting, Reported
  <2> QED BY <2>3, <2>5, <2>6, <2>7 DEF ClientInv
<1>8. CASE LaunchReported
  <2>1. /\ Looping /\ launcher.at = "reported" /\ launcher' = Resting
        /\ UNCHANGED <<holder, coming, launch, statusPoll, leaving, closing, launches>>
    BY <1>8 DEF LaunchReported
  <2> DEFINE young == launcher.success /\ ~launcher.running
  <2>2. /\ \A p : IsLost(p) => IsLost(p)'
        /\ \A p : Unexpected(p) => Unexpected(p)'
        /\ \A p \in coming : young => IsLost(p) \/ Unexpected(p)' \/ Expecting'
    <3>1. CASE launch.cancelled
      <4>1. Records(IF young THEN coming ELSE {}, "dropped")
        BY <1>8, <3>1 DEF LaunchReported
      <4>2. "dropped" \in Surprises
        BY DEF Surprises
      <4> QED BY <4>1, <4>2, RecordsKept
    <3>2. CASE ~launch.cancelled
      <4>1. UNCHANGED history /\ gui' = [gui EXCEPT !.expecting = IF young THEN "young" ELSE "no"]
        BY <1>8, <3>2 DEF LaunchReported
      <4>2. \A p : /\ IsLost(p)' <=> IsLost(p)
                   /\ Unexpected(p)' <=> Unexpected(p)
        BY <4>1, HistoryKept
      <4> QED BY <4>1, <4>2 DEF Expecting
    <3> QED BY <3>1, <3>2
  <2>3. LaunchTypeOK'
    BY <2>1 DEF LaunchTypeOK, Resting
  <2>4. OneOnItsWay' /\ AnswerOlder' /\ ProcessAwaited'
    BY <2>1, <2>2 DEF OneOnItsWay, AnswerOlder, ProcessAwaited
  <2>5. WorkerAwaited' /\ ExitComplete'
    BY <2>1, <2>2 DEF WorkerAwaited, ExitComplete, Confirmed, Pending, Resting
  <2>6. ExpectedUnlessTold'
    BY <2>1, <2>2 DEF ExpectedUnlessTold, Resting, Expecting, Looping
  <2> QED BY <2>3, <2>4, <2>5, <2>6 DEF ClientInv
<1>9. CASE LaunchGetsOld
  <2>1. /\ gui' = [gui EXCEPT !.expecting = "old"] /\ Records(coming, "slow")
        /\ UNCHANGED <<holder, coming, launcher, launch, statusPoll, leaving, closing, launches>>
    BY <1>9 DEF LaunchGetsOld
  <2>2. /\ \A p : IsLost(p) => IsLost(p)'
        /\ \A p : Unexpected(p) => Unexpected(p)'
        /\ \A p \in coming : IsLost(p) \/ Unexpected(p)'
        /\ ~Expecting'
    <3>1. "slow" \in Surprises /\ ~Expecting'
      BY <2>1 DEF Surprises, Expecting
    <3> QED BY <2>1, <3>1, RecordsKept
  <2>3. LaunchTypeOK'
    BY <2>1 DEF LaunchTypeOK
  <2>4. OneOnItsWay' /\ AnswerOlder' /\ ProcessAwaited'
    BY <2>1, <2>2 DEF OneOnItsWay, AnswerOlder, ProcessAwaited
  <2>5. WorkerAwaited' /\ ExitComplete'
    BY <2>1, <2>2 DEF WorkerAwaited, ExitComplete, Confirmed, Pending
  <2>6. ExpectedUnlessTold'
    BY <2>1, <2>2 DEF ExpectedUnlessTold, Looping
  <2> QED BY <2>3, <2>4, <2>5, <2>6 DEF ClientInv
<1>10. CASE \/ Refresh \/ StatusAnswered
            \/ StatusIgnored \/ StatusMute \/ StatusEarly
  <2>1. /\ UNCHANGED <<holder, coming, launcher, launch, gui, leaving, closing, history, launches>>
        /\ statusPoll' \in Polls
        /\ statusPoll'.seen <= launches
        /\ statusPoll'.at = "answered" /\ ~statusPoll'.failed => holder # {}
    <3>1. CASE Refresh
      BY <3>1 DEF Refresh, PollGoes, LaunchTypeOK
    <3>2. CASE StatusAnswered
      <4>1. PICK alive \in BOOLEAN :
              statusPoll' = IF Looping
                              THEN [at |-> "answered", failed |-> ~CoreAnswers, alive |-> alive,
                                    seen |-> launches]
                              ELSE NoStatus
        <5>1. (holder # {}) \in BOOLEAN
          OBVIOUS
        <5> QED BY <3>2, <5>1 DEF StatusAnswered, PollGoes
      <4>2. (~CoreAnswers) \in BOOLEAN /\ launches \in Nat
        BY DEF LaunchTypeOK, CoreAnswers
      <4>3. UNCHANGED <<holder, coming, launcher, launch, gui, leaving, closing, history, launches>>
        BY <3>2 DEF StatusAnswered, PollGoes
      <4>4. CASE Looping
        <5>1. statusPoll' = [at |-> "answered", failed |-> ~CoreAnswers, alive |-> alive,
                             seen |-> launches]
          BY <4>1, <4>4
        <5>2. \A f \in BOOLEAN : [at |-> "answered", failed |-> f, alive |-> alive, seen |-> launches]
                \in Polls
          BY <4>2
        <5>3. statusPoll' \in Polls
          BY ONLY <5>1, <5>2, <4>2 DEF LaunchWorkers, Polls
        <5>4. statusPoll'.seen = launches /\ (~statusPoll'.failed => CoreAnswers)
          BY <5>1
        <5> QED BY <5>3, <5>4, <4>2, <4>3 DEF CoreAnswers
      <4>5. CASE ~Looping
        <5>1. statusPoll' = [at |-> "idle", failed |-> FALSE, alive |-> FALSE, seen |-> 0]
          BY <4>1, <4>5 DEF NoStatus
        <5> QED BY <5>1, <4>2, <4>3
      <4> QED BY <4>4, <4>5
    <3>3. CASE StatusIgnored \/ StatusMute \/ StatusEarly
      <4>1. statusPoll' = [at |-> "idle", failed |-> FALSE, alive |-> FALSE, seen |-> 0]
            /\ UNCHANGED <<holder, coming, leaving, closing, launches>>
        BY <3>3 DEF StatusIgnored, StatusMute, StatusEarly, Absent, StatusTaken, PollGoes, NoStatus
      <4>2. UNCHANGED <<launcher, launch, gui, history>>
        BY <3>3 DEF StatusIgnored, StatusMute, StatusEarly
      <4> QED BY <4>1, <4>2 DEF LaunchTypeOK
    <3> QED BY <1>10, <3>1, <3>2, <3>3
  <2>2. \A p : /\ IsLost(p)' <=> IsLost(p)
               /\ Unexpected(p)' <=> Unexpected(p)
    BY <2>1, HistoryKept
  <2>3. LaunchTypeOK'
    BY <2>1 DEF LaunchTypeOK
  <2>4. OneOnItsWay' /\ ProcessAwaited'
    BY <2>1, <2>2 DEF OneOnItsWay, ProcessAwaited
  <2>5. WorkerAwaited' /\ ExitComplete'
    BY <2>1, <2>2 DEF WorkerAwaited, ExitComplete, Confirmed, Pending
  <2>6. ExpectedUnlessTold'
    BY <2>1, <2>2 DEF ExpectedUnlessTold, Looping, Expecting
  <2>7. AnswerOlder'
    BY <2>1, <2>2 DEF AnswerOlder, OneOnItsWay
  <2> QED BY <2>3, <2>4, <2>5, <2>6, <2>7 DEF ClientInv
<1>11. CASE StatusGood \/ StatusAbsent
  <2>1. /\ Looping /\ ~Exiting /\ statusPoll.at = "answered" /\ statusPoll' = NoStatus
        /\ UNCHANGED <<holder, coming, leaving, closing, launches>>
    BY <1>11 DEF StatusGood, StatusAbsent, Absent, StatusTaken, PollGoes
  <2>2. \/ UNCHANGED launcher
        \/ launcher.at = "idle" /\ launcher' = [Resting EXCEPT !.at = "asking"]
    BY <1>11 DEF StatusGood, StatusAbsent
  <2>3. launch'.issued \in BOOLEAN /\ launch' \in LaunchStates
    <3>1. launch.issued \in BOOLEAN /\ launch.cancelled \in BOOLEAN /\ statusPoll.alive \in BOOLEAN
      BY DEF LaunchTypeOK
    <3>2. \A b \in BOOLEAN, c \in BOOLEAN :
             [issued |-> b, cancelled |-> c] \in LaunchStates
      OBVIOUS
    <3>3. PICK b \in BOOLEAN, c \in BOOLEAN : launch' = [issued |-> b, cancelled |-> c]
      <4>0. launch \in LaunchStates
        BY DEF LaunchTypeOK
      <4>1. (launch.issued /\ statusPoll.alive) \in BOOLEAN
        BY <3>1
      <4>2. CASE StatusGood
        BY <4>0, <4>2, <3>1 DEF StatusGood
      <4>3. CASE StatusAbsent
        BY <4>0, <4>1, <4>3, <3>1 DEF StatusAbsent
      <4> QED BY <1>11, <4>2, <4>3
    <3> QED BY <3>2, <3>3
  <2>4. ~Expecting' /\ (StatusAbsent => ~Expecting /\ launcher.at = "idle")
    <3>1. CASE StatusGood
      <4>1. gui'.expecting = "no"
        BY <3>1 DEF StatusGood
      <4>2. ~StatusAbsent
        BY <3>1 DEF StatusGood, StatusAbsent, Absent
      <4> QED BY <4>1, <4>2 DEF Expecting
    <3>2. CASE StatusAbsent
      BY <3>2 DEF StatusAbsent, Expecting
    <3> QED BY <1>11, <3>1, <3>2
  <2>5. \/ history' = history /\ launch'.issued = launch.issued /\ StatusAbsent
        \/ history' = history \cup Erased
    <3>1. CASE StatusGood
      BY <3>1 DEF StatusGood
    <3>2. CASE StatusAbsent /\ statusPoll.alive
      BY <3>2 DEF StatusAbsent, LaunchTypeOK
    <3>3. CASE StatusAbsent /\ ~statusPoll.alive
      BY <3>3 DEF StatusAbsent
    <3> QED BY <1>11, <3>1, <3>2, <3>3
  <2>6. /\ \A p : IsLost(p) => IsLost(p)'
        /\ \A p : Unexpected(p) => Unexpected(p)'
        /\ launch'.issued = launch.issued \/ \A p \in Issued : IsLost(p)'
    <3>1. CASE history' = history /\ launch'.issued = launch.issued
      BY <3>1, HistoryKept
    <3>2. CASE history' = history \cup Erased
      <4>1. \A p \in Issued : IsLost(p)'
        <5> SUFFICES ASSUME NEW p \in Issued, ~IsLost(p) PROVE IsLost(p)'
          BY <3>2, ErasedLost
        <5>1. p \in coming /\ p \in Nat /\ statusPoll.seen \in Nat
          BY DEF Issued, LaunchTypeOK
        <5>2. CASE p > statusPoll.seen
          BY <5>2, <3>2, ErasedLost
        <5>3. CASE ~(p > statusPoll.seen)
          <6>1. p <= statusPoll.seen
            BY <5>1, <5>3
          <6>2. statusPoll.failed
            BY <2>1, <5>1, <6>1 DEF AnswerOlder
          <6>3. StatusAbsent
            BY <1>11, <6>2 DEF StatusGood
          <6>4. Unexpected(p)
            BY <6>3, <2>1, <2>4, <5>1 DEF ExpectedUnlessTold
          <6> QED BY <3>2, <6>1, <6>4, ErasedLost
        <5> QED BY <5>2, <5>3
      <4> QED BY <3>2, <4>1, ErasedLost
    <3> QED BY <2>5, <3>1, <3>2
  <2>7. LaunchTypeOK'
    <3>1. launcher' \in LaunchWorkers
      BY <2>2 DEF LaunchTypeOK, Resting
    <3>2. statusPoll' = [at |-> "idle", failed |-> FALSE, alive |-> FALSE, seen |-> 0]
      BY <2>1 DEF NoStatus
    <3> QED BY <2>1, <2>3, <3>1, <3>2 DEF LaunchTypeOK
  <2>8. ProcessAwaited' /\ AnswerOlder' /\ ExitComplete'
    BY <2>1, <2>6 DEF ProcessAwaited, AnswerOlder, ExitComplete, Confirmed, NoStatus
  <2>9. WorkerAwaited'
    BY <2>1 DEF WorkerAwaited, Exiting, Looping, LaunchTypeOK
  <2>10. OneOnItsWay'
    <3>1. launcher.at = "created" => launcher'.at = "created"
      BY <2>2
    <3>2. \A p \in coming : IsLost(p)' \/ launcher.at = "created" \/ launch'.issued = launch.issued
      BY <2>6 DEF Issued
    <3> QED BY <2>1, <2>6, <3>1, <3>2 DEF OneOnItsWay
  <2>11. ExpectedUnlessTold'
    <3>1. SUFFICES ASSUME NEW p \in coming, ~IsLost(p)', ~Unexpected(p)'
          PROVE  \/ launcher'.at = "created"
                 \/ launcher'.at = "reported" /\ launcher'.success /\ ~launcher'.running
      BY <2>1, <2>4 DEF ExpectedUnlessTold
    <3>2. ~IsLost(p) /\ ~Unexpected(p)
      BY <2>6, <3>1
    <3>3. CASE StatusAbsent
      BY <3>2, <3>3, <2>1, <2>4 DEF ExpectedUnlessTold
    <3>4. CASE StatusGood
      <4>1. UNCHANGED launcher
        BY <3>4 DEF StatusGood
      <4>2. history' = history \cup Erased
        BY <3>4 DEF StatusGood
      <4>3. p \in Nat /\ statusPoll.seen \in Nat /\ ~statusPoll.failed
        BY <3>4 DEF LaunchTypeOK, StatusGood
      <4>4. p > statusPoll.seen
        BY <4>3, <2>1, <3>2 DEF AnswerOlder
      <4>5. p \notin Issued
        BY <4>2, <4>4, <3>1, ErasedLost
      <4> QED BY <4>1, <4>5 DEF Issued
    <3> QED BY <1>11, <3>3, <3>4
  <2> QED BY <2>7, <2>8, <2>9, <2>10, <2>11 DEF ClientInv
<1>12. CASE Exit \/ LoopEnds
  <2>1. /\ Looping /\ launch' = [launch EXCEPT !.cancelled = TRUE]
        /\ UNCHANGED <<holder, coming, launcher, history, launches>>
        /\ statusPoll' \in {NoStatus, statusPoll}
        /\ \/ leaving' \in {"waiting", "forcing"} /\ closing' = closing
              /\ leaving \in {"no", "failed"} /\ gui' = gui
           \/ closing' = [closing EXCEPT !.at = "waiting"] /\ leaving' = leaving
              /\ gui' = [gui EXCEPT !.expecting = "no"]
    BY <1>12 DEF Exit, LoopEnds, WorkerExit, WindowExit
  <2>2. \A p : /\ IsLost(p)' <=> IsLost(p)
               /\ Unexpected(p)' <=> Unexpected(p)
    BY <2>1, HistoryKept
  <2>3. LaunchTypeOK'
    <3>1. statusPoll' \in Polls
          /\ statusPoll'.seen <= launches
      <4>1. statusPoll' = [at |-> "idle", failed |-> FALSE, alive |-> FALSE, seen |-> 0]
            \/ statusPoll' = statusPoll
        BY <2>1 DEF NoStatus
      <4>2. CASE statusPoll' = [at |-> "idle", failed |-> FALSE, alive |-> FALSE, seen |-> 0]
        BY <4>2 DEF LaunchTypeOK
      <4>3. CASE statusPoll' = statusPoll
        BY <4>3 DEF LaunchTypeOK
      <4> QED BY <4>1, <4>2, <4>3
    <3>2. launch' \in LaunchStates
      BY <2>1 DEF LaunchTypeOK
    <3>3. /\ closing' \in Closings
          /\ closing'.confirmed => closing'.at = "left"
      BY <2>1 DEF LaunchTypeOK, Looping
    <3>4. leaving' \in Leavings
      BY <2>1 DEF LaunchTypeOK
    <3> QED BY <2>1, <3>1, <3>2, <3>3, <3>4 DEF LaunchTypeOK
  <2>4. OneOnItsWay'
    <3>1. launch'.issued = launch.issued
      BY <2>1 DEF LaunchTypeOK
    <3> QED BY <2>1, <2>2, <3>1 DEF OneOnItsWay
  <2>5. AnswerOlder'
    BY <2>1, <2>2 DEF AnswerOlder, NoStatus
  <2>6. ~closing.confirmed /\ closing'.confirmed = closing.confirmed
    BY <2>1 DEF LaunchTypeOK, Looping
  <2>7. WorkerAwaited' /\ ProcessAwaited' /\ ExitComplete'
    <3>1. CASE leaving' \in {"waiting", "forcing"} /\ closing' = closing
      BY <2>1, <2>2, <2>6, <3>1 DEF WorkerAwaited, ProcessAwaited, ExitComplete, Confirmed, Pending,
                                    Looping
    <3>2. CASE closing' = [closing EXCEPT !.at = "waiting"] /\ leaving' = leaving
      <4>1. closing'.at = "waiting"
        BY <3>2 DEF LaunchTypeOK
      <4> QED BY <2>1, <2>2, <2>6, <3>2, <4>1
              DEF WorkerAwaited, ProcessAwaited, ExitComplete, Confirmed, Pending
    <3> QED BY <2>1, <3>1, <3>2
  <2>8. ExpectedUnlessTold'
    <3>1. CASE gui' = gui /\ closing' = closing
      BY <2>1, <2>2, <3>1 DEF ExpectedUnlessTold, Expecting, Looping
    <3>2. CASE closing' = [closing EXCEPT !.at = "waiting"] /\ gui' = [gui EXCEPT !.expecting = "no"]
      <4>1. closing'.at = "waiting"
        BY <3>2 DEF LaunchTypeOK
      <4>2. ~Expecting' /\ ~Looping'
        BY <3>2, <4>1 DEF Expecting, Looping
      <4> QED BY <4>2 DEF ExpectedUnlessTold
    <3> QED BY <2>1, <3>1, <3>2
  <2> QED BY <2>3, <2>4, <2>5, <2>7, <2>8 DEF ClientInv
<1>13. ASSUME NEW exit \in Exits,
              AwaitWorker(exit) \/ AwaitProcess(exit) \/ AwaitShutdown(exit)
       PROVE  ClientInv'
  <2>1. /\ UNCHANGED <<holder, coming, launcher, gui, statusPoll, launches>>
        /\ launch' \in LaunchStates
    <3>1. CASE AwaitWorker(exit) \/ AwaitShutdown(exit)
      BY <3>1 DEF AwaitWorker, AwaitShutdown, LaunchTypeOK
    <3>2. CASE AwaitProcess(exit)
      BY <3>2 DEF AwaitProcess, LaunchTypeOK
    <3> QED BY <1>13, <3>1, <3>2
  <2>2. /\ \A p : IsLost(p) => IsLost(p)'
        /\ \A p : Unexpected(p) => Unexpected(p)'
        /\ launch'.issued = launch.issued \/ holder # {} \/ \A p \in coming : IsLost(p)'
    <3>1. CASE UNCHANGED <<launch, history>>
      BY <3>1, HistoryKept
    <3>2. CASE Records(IF holder = {} THEN coming ELSE {}, "probe")
      BY <3>2, RecordsKept DEF Losses
    <3> QED BY <1>13, <3>1, <3>2 DEF AwaitWorker, AwaitProcess, AwaitShutdown
  <2>3. CASE Fails(exit) /\ At(exit) \in {"waiting", "appearing", "stopping"}
    <3>1. \/ leaving' = "forcing" /\ closing' = closing
          \/ /\ leaving' = leaving /\ ~closing.confirmed /\ closing.at # "no"
             /\ closing' = [closing EXCEPT !.at = IF closing.last THEN "left" ELSE "waiting",
                                           !.last = TRUE]
      BY <2>3 DEF Fails, Exits, At, WorkerExit, WindowExit, LaunchTypeOK
    <3>2. /\ leaving' \in Leavings
          /\ closing' \in Closings
          /\ closing'.confirmed <=> closing.confirmed
          /\ closing'.confirmed => closing'.at = "left"
          /\ closing'.at \in {closing.at, "waiting", "left"}
          /\ closing'.at = "no" <=> closing.at = "no"
          /\ leaving' \in {leaving, "forcing"}
      BY <3>1 DEF LaunchTypeOK
    <3> HIDE <2>3
    <3>3. LaunchTypeOK'
      BY <2>1, <3>2 DEF LaunchTypeOK
    <3>4. /\ WorkerAwaited' /\ ProcessAwaited' /\ ExitComplete'
      BY <2>1, <2>2, <3>2 DEF WorkerAwaited, ProcessAwaited, ExitComplete, Confirmed, Pending
    <3>5. OneOnItsWay' /\ AnswerOlder'
      BY <2>1, <2>2 DEF OneOnItsWay, AnswerOlder
    <3>6. ExpectedUnlessTold'
      BY <2>1, <2>2, <3>2 DEF ExpectedUnlessTold, Looping, Expecting
    <3> QED BY <3>3, <3>4, <3>5, <3>6 DEF ClientInv
  <2>4. ASSUME ~Pending, ProcessAwaited', ExitComplete',
               leaving' \in Leavings,
               closing' \in Closings,
               closing'.confirmed => closing'.at = "left", closing'.at = "no" => closing.at = "no"
        PROVE  ClientInv'
    <3>1. LaunchTypeOK'
      BY <2>1, <2>4 DEF LaunchTypeOK
    <3>2. OneOnItsWay' /\ AnswerOlder' /\ WorkerAwaited'
      BY <2>1, <2>2, <2>4 DEF OneOnItsWay, AnswerOlder, WorkerAwaited, Pending
    <3>3. ExpectedUnlessTold'
      BY <2>1, <2>2, <2>4 DEF ExpectedUnlessTold, Looping, Expecting
    <3> QED BY <2>4, <3>1, <3>2, <3>3 DEF ClientInv
  <2>5. CASE AwaitWorker(exit) /\ ~Fails(exit)
    <3>1. /\ ~Pending /\ At(exit) = "waiting"
          /\ Proceeds(exit, "appearing") /\ UNCHANGED history
      BY <2>5 DEF AwaitWorker
    <3>2. \/ leaving' = "appearing" /\ closing' = closing
          \/ /\ leaving' = leaving /\ closing.at = "waiting"
             /\ closing' = [closing EXCEPT !.at = "appearing"]
      BY <3>1 DEF Proceeds, Exits, At, WorkerExit, WindowExit
    <3>3. /\ leaving' \in {leaving, "appearing"} /\ closing'.confirmed = closing.confirmed
          /\ closing'.confirmed => closing'.at = "left"
          /\ closing'.at \in {closing.at, "appearing"}
          /\ closing' \in Closings
      BY <3>2 DEF LaunchTypeOK
    <3>4. ProcessAwaited' /\ ExitComplete'
      BY <2>1, <2>2, <3>3 DEF ProcessAwaited, ExitComplete, Confirmed
    <3>5. leaving' \in Leavings
      BY <3>3 DEF LaunchTypeOK
    <3> QED BY <2>4, <3>1, <3>3, <3>4, <3>5
  <2>6. CASE AwaitProcess(exit) /\ ~Fails(exit)
    <3>1. /\ At(exit) = "appearing" /\ Proceeds(exit, "stopping")
          /\ \/ ~launch.issued \/ holder # {}
             \/ Records(IF holder = {} THEN coming ELSE {}, "probe")
      BY <2>6 DEF AwaitProcess
    <3>2. \/ leaving' = "stopping" /\ closing' = closing /\ leaving = "appearing"
          \/ /\ leaving' = leaving /\ closing.at = "appearing"
             /\ closing' = [closing EXCEPT !.at = "stopping"]
      BY <3>1 DEF Proceeds, Exits, At, WorkerExit, WindowExit
    <3>3. /\ leaving' \in {leaving, "stopping"} /\ closing'.confirmed = closing.confirmed
          /\ closing'.confirmed => closing'.at = "left"
          /\ closing'.at \in {closing.at, "stopping"}
          /\ closing' \in Closings
      BY <3>2 DEF LaunchTypeOK
    <3>4. ~Pending
      BY <3>2 DEF WorkerAwaited
    <3>5. \A p \in coming : IsLost(p)'
      <4>1. CASE ~launch.issued \/ holder # {}
        BY <4>1, <2>2, <3>4 DEF OneOnItsWay, Pending
      <4>2. CASE holder = {} /\ Records(IF holder = {} THEN coming ELSE {}, "probe")
        BY <4>2, RecordsKept DEF Losses
      <4> QED BY <3>1, <4>1, <4>2
    <3>6. ProcessAwaited' /\ ExitComplete'
      BY <2>1, <2>2, <3>3, <3>5 DEF ProcessAwaited, ExitComplete, Confirmed
    <3>7. leaving' \in Leavings
      BY <3>3 DEF LaunchTypeOK
    <3> QED BY <2>4, <3>3, <3>4, <3>6, <3>7
  <2>7. CASE AwaitShutdown(exit) /\ ~Fails(exit)
    <3>1. At(exit) = "stopping" /\ Succeeds(exit) /\ holder = {}
      BY <2>7 DEF AwaitShutdown
    <3>2. \/ leaving' = "quit" /\ closing' = closing /\ leaving = "stopping"
          \/ /\ leaving' = leaving /\ closing.at = "stopping"
             /\ closing' = [closing EXCEPT !.at = "left", !.confirmed = TRUE]
      BY <3>1 DEF Succeeds, Exits, At, WorkerExit, WindowExit
    <3>3. /\ leaving' \in {leaving, "quit"}
          /\ closing'.confirmed => closing'.at = "left"
          /\ closing'.at = "no" => closing.at = "no"
          /\ closing' \in Closings
      BY <3>2 DEF LaunchTypeOK
    <3>4. ~Pending /\ \A p \in coming : IsLost(p)
      BY <3>2 DEF WorkerAwaited, ProcessAwaited
    <3>5. ProcessAwaited' /\ ExitComplete'
      BY <2>1, <2>2, <3>1, <3>4 DEF ProcessAwaited, ExitComplete
    <3>6. leaving' \in Leavings
      BY <3>3 DEF LaunchTypeOK
    <3> QED BY <2>4, <3>3, <3>4, <3>5, <3>6
  <2> QED BY <1>13, <2>3, <2>5, <2>6, <2>7 DEF AwaitWorker, AwaitProcess, AwaitShutdown
<1>14. CASE ForceStop
  <2>1. /\ leaving = "forcing" /\ leaving' \in {"failed", "confirming"} /\ closing' = closing
        /\ coming' \subseteq coming /\ holder' \subseteq holder
        /\ UNCHANGED <<launcher, launch, gui, statusPoll, history, launches>>
        /\ leaving' = "confirming" =>
             ~Pending /\ (launch.issued /\ holder = {} => coming' # coming)
    BY <1>14 DEF ForceStop, WorkerExit
  <2>2. \A p : /\ IsLost(p)' <=> IsLost(p)
               /\ Unexpected(p)' <=> Unexpected(p)
    BY <2>1, HistoryKept
  <2>3. LaunchTypeOK'
    BY <2>1 DEF LaunchTypeOK
  <2>4. OneOnItsWay' /\ AnswerOlder' /\ WorkerAwaited'
    BY <2>1, <2>2 DEF OneOnItsWay, AnswerOlder, WorkerAwaited, Pending
  <2>5. ExpectedUnlessTold' /\ ExitComplete'
    BY <2>1, <2>2 DEF ExpectedUnlessTold, Looping, Expecting, ExitComplete, Confirmed
  <2>6. ProcessAwaited'
    <3>1. CASE leaving' = "failed"
      BY <2>1, <2>2, <3>1 DEF ProcessAwaited
    <3>2. CASE leaving' = "confirming"
      <4>1. ASSUME NEW p \in coming', ~IsLost(p) PROVE FALSE
        <5>1. coming = {p} /\ holder = {} /\ launch.issued
          BY <2>1, <3>2, <4>1 DEF OneOnItsWay, Pending
        <5> QED BY <2>1, <3>2, <4>1, <5>1
      <4> QED BY <4>1, <2>2 DEF ProcessAwaited
    <3> QED BY <2>1, <3>1, <3>2
  <2> QED BY <2>3, <2>4, <2>5, <2>6 DEF ClientInv
<1>15. CASE ConfirmStopped
  <2>1. /\ leaving = "confirming" /\ closing' = closing
        /\ leaving' = "failed" \/ (leaving' = "quit" /\ holder = {})
        /\ UNCHANGED <<holder, coming, launcher, launch, gui, statusPoll, history, launches>>
    BY <1>15 DEF ConfirmStopped, WorkerExit
  <2>2. \A p : /\ IsLost(p)' <=> IsLost(p)
               /\ Unexpected(p)' <=> Unexpected(p)
    BY <2>1, HistoryKept
  <2>3. LaunchTypeOK'
    BY <2>1 DEF LaunchTypeOK
  <2>4. /\ OneOnItsWay' /\ AnswerOlder'
        /\ WorkerAwaited' /\ ProcessAwaited'
    BY <2>1, <2>2 DEF OneOnItsWay, AnswerOlder, WorkerAwaited, Pending, ProcessAwaited
  <2>5. ExpectedUnlessTold'
    BY <2>1, <2>2 DEF ExpectedUnlessTold, Looping, Expecting
  <2>6. ExitComplete'
    BY <2>1, <2>2 DEF ExitComplete, Confirmed, ProcessAwaited
  <2> QED BY <2>3, <2>4, <2>5, <2>6 DEF ClientInv
<1>16. CASE Schedule \/ Prompt
  <2>1. \/ Schedule /\ launcher'.at = "prompting"
        \/ (launcher.at \in {"scheduling", "prompting"} /\ (Created \/ NotCreated))
    BY <1>16 DEF Schedule, Prompt, WorkerGoes, LaunchTypeOK
  <2> QED BY <2>1, <1>4, <1>5, <1>6
<1> QED BY <1>1, <1>2, <1>3, <1>4, <1>5, <1>6, <1>7, <1>8, <1>9, <1>10, <1>11, <1>12, <1>13,
           <1>14, <1>15, <1>16
        DEF ClientNext

(* ... and so does a stutter. *)
LEMMA ClientGoes == ClientInv /\ [ClientNext]_ownerVars => ClientInv'
<1>1. ClientInv /\ UNCHANGED ownerVars => ClientInv'
  BY DEF ClientInv, ownerVars, LaunchTypeOK, OneOnItsWay, ExpectedUnlessTold, AnswerOlder,
         WorkerAwaited, ProcessAwaited, ExitComplete, Confirmed, IsLost, Unexpected,
         Expecting, Looping, Pending
<1> QED BY <1>1, ClientStepOK

LEMMA ClientMeans == ClientInv => ExitComplete
  BY DEF ClientInv
=============================================================================
