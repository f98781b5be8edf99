------------------------------ MODULE FileLog ------------------------------
(***************************************************************************)
(* The file half of Logger (NativeDNS.Core/src/logger.cpp): a bounded      *)
(* queue of tasks and the thread that empties it.  Configuring, clearing   *)
(* and flushing the file are tasks of that queue whose callers wait for    *)
(* them.                                                                   *)
(*                                                                         *)
(* The events themselves, their levels and their texts are left out: a     *)
(* line is as long as any other and is known by the ticket of its task.    *)
(* LogStream models the ring that write() fills first.                     *)
(***************************************************************************)
EXTENDS Naturals, Sequences

CONSTANTS
  Producers,   \* threads that call write()
  Callers,     \* threads that configure, clear or flush the file
  QueueSize,   \* 8192 tasks
  BatchSize,   \* 256 events
  FileLines,   \* maximum_bytes_
  Retained,    \* retained_files_
  MaxTasks, MaxFailures  \* bounds of the exploration

\* Retained is a uint32_t.
FileConstants == Retained \in Nat

VARIABLES
  fileEnabled,  \* file_enabled_, atomic
  fileTasks,    \* file_tasks_
  tickets,      \* history: tasks submitted to the queue so far
  producer,     \* [Producers -> where write() is]
  caller,       \* [Callers -> [at, request, ticket]]
  fileThread,   \* the tasks that file_loop has taken and not finished
  sink,         \* sink_enabled, local to file_loop
  files,        \* the log file, then its rotated predecessors: tickets of their lines
  handled,      \* history: tickets of the tasks that are finished
  failures      \* disk failures so far

fileVars == <<fileEnabled, fileTasks, tickets, producer, caller, fileThread, sink, files,
              handled, failures>>
threadVars == <<fileThread, sink, files, handled, failures>>

Requests == {"enable", "disable", "clear", "flush", "stop"}

FileInit ==
  /\ fileEnabled = FALSE /\ sink = FALSE
  /\ fileTasks = <<>> /\ fileThread = <<>>
  /\ tickets = 0 /\ handled = {}
  /\ producer = [p \in Producers |-> "idle"]
  /\ caller = [c \in Callers |-> [at |-> "idle", request |-> "none", ticket |-> 0]]
  /\ files = <<<<>>>>
  /\ failures = 0

-----------------------------------------------------------------------------
(* Producers: file_enabled_ is read before file_mutex_ is taken.           *)

Submit(request) ==
  /\ tickets' = tickets + 1
  /\ fileTasks' = Append(fileTasks, [request |-> request, ticket |-> tickets'])

ForFile(p) ==
  /\ producer[p] = "idle"
  /\ fileEnabled /\ tickets < MaxTasks
  /\ producer' = [producer EXCEPT ![p] = "queueing"]
  /\ UNCHANGED <<fileEnabled, fileTasks, tickets, caller, threadVars>>

\* A full queue drops the event.
QueueEvent(p) ==
  /\ producer[p] = "queueing"
  /\ \/ Len(fileTasks) < QueueSize /\ Submit("event")
     \/ Len(fileTasks) >= QueueSize /\ UNCHANGED <<tickets, fileTasks>>
  /\ producer' = [producer EXCEPT ![p] = "idle"]
  /\ UNCHANGED <<fileEnabled, caller, threadVars>>

-----------------------------------------------------------------------------
(* Requests: a caller waits until the thread has finished its task.        *)

\* configure_file(false) stops producers before its task is queued, and the
\* destructor does.
Announce(c, request) ==
  /\ caller[c].at = "idle"
  /\ tickets < MaxTasks
  /\ request = "stop" =>
       /\ \A d \in Callers : caller[d].at = "idle"
       /\ \A p \in Producers : producer[p] = "idle"
  /\ \A d \in Callers : caller[d].request # "stop"
  /\ caller' = [caller EXCEPT ![c] = [at |-> "announced", request |-> request, ticket |-> 0]]
  /\ fileEnabled' = (fileEnabled /\ request \notin {"disable", "stop"})
  /\ UNCHANGED <<fileTasks, tickets, producer, threadVars>>

QueueRequest(c) ==
  /\ caller[c].at = "announced"
  /\ Submit(caller[c].request)
  /\ caller' = [caller EXCEPT ![c].at = "waiting", ![c].ticket = tickets']
  /\ UNCHANGED <<fileEnabled, producer, threadVars>>

-----------------------------------------------------------------------------
(* file_loop.                                                              *)

TicketsOf(s) == {s[i].ticket : i \in DOMAIN s}

\* The numbers of events at the head of the queue, up to the next request.
Batches ==
  {n \in 1..Len(fileTasks) : n <= BatchSize /\ \A i \in 1..n : fileTasks[i].request = "event"}

\* A batch that passes over the requests in the queue.
TakeOvertakes ==
  /\ fileThread = <<>> /\ fileTasks # <<>>
  /\ LET events == SelectSeq(fileTasks, LAMBDA t : t.request = "event")
         first == IF events = <<>> THEN SubSeq(fileTasks, 1, 1)
                  ELSE SubSeq(events, 1, IF Len(events) > BatchSize THEN BatchSize ELSE Len(events))
     IN /\ fileThread' = first
        /\ fileTasks' = SelectSeq(fileTasks, LAMBDA t : t.ticket \notin TicketsOf(first))
  /\ UNCHANGED <<fileEnabled, tickets, producer, caller, sink, files, handled, failures>>

\* One request, or as many events as there are.
Take ==
  /\ fileThread = <<>>
  /\ \E n \in 1..Len(fileTasks) :
       /\ \/ n \in Batches /\ \A m \in Batches : m <= n
          \/ Batches = {} /\ n = 1
       /\ fileThread' = SubSeq(fileTasks, 1, n)
       /\ fileTasks' = SubSeq(fileTasks, n + 1, Len(fileTasks))
  /\ UNCHANGED <<fileEnabled, tickets, producer, caller, sink, files, handled, failures>>

Taken(request) == fileThread # <<>> /\ Head(fileThread).request = request

\* set_value or set_exception: the thread is done, and so is a caller that waits.
Finish ==
  /\ handled' = handled \cup TicketsOf(fileThread)
  /\ fileThread' = <<>>
  /\ caller' = [c \in Callers |->
       IF caller[c].at = "waiting" /\ caller[c].ticket \in handled'
         THEN [caller[c] EXCEPT !.at = IF caller[c].request = "stop" THEN "stopped" ELSE "idle",
                                !.request = IF caller[c].request = "stop" THEN "stop" ELSE "none"]
         ELSE caller[c]]

\* rotate_file: the full file becomes the first of the Retained older ones;
\* timestamped names rotate to the same effect.
Rotated(fs) == <<<<>>>> \o SubSeq(fs, 1, IF Len(fs) < Retained THEN Len(fs) ELSE Retained)

AppendLine(fs, ticket) ==
  LET kept == IF Len(fs[1]) + 1 > FileLines THEN Rotated(fs) ELSE fs
  IN [kept EXCEPT ![1] = Append(@, ticket)]

\* write_file_batch: one round of its loop.
WriteLine ==
  /\ Taken("event") /\ sink
  /\ files' = AppendLine(files, Head(fileThread).ticket)
  /\ handled' = handled \cup {Head(fileThread).ticket}
  /\ fileThread' = Tail(fileThread)
  /\ UNCHANGED <<fileEnabled, fileTasks, tickets, producer, caller, sink, failures>>

\* Events that were queued before the file was closed are dropped.
DropBatch ==
  /\ Taken("event") /\ ~sink
  /\ Finish
  /\ UNCHANGED <<fileEnabled, fileTasks, tickets, producer, sink, files, failures>>

ConfigureFile ==
  /\ \/ Taken("enable") /\ sink' = TRUE
     \/ Taken("disable") /\ sink' = FALSE
  /\ fileEnabled' = sink'
  /\ Finish
  /\ UNCHANGED <<fileTasks, tickets, producer, files, failures>>

ClearFile ==
  /\ Taken("clear")
  /\ files' = [files EXCEPT ![1] = <<>>]
  /\ Finish
  /\ UNCHANGED <<fileEnabled, fileTasks, tickets, producer, sink, failures>>

FlushOrStop ==
  /\ Taken("flush") \/ Taken("stop")
  /\ Finish
  /\ UNCHANGED <<fileEnabled, fileTasks, tickets, producer, sink, files, failures>>

Disabled == sink' = FALSE /\ fileEnabled' = FALSE

\* The outer catch: the disk fails after a part of a batch, or under a request.
\* What a rotation that fails half way leaves of the older files is left out.
FileFails ==
  /\ failures < MaxFailures
  /\ failures' = failures + 1
  /\ (Taken("event") /\ sink) \/ Taken("enable") \/ Taken("clear")
  /\ Disabled
  /\ Finish
  /\ UNCHANGED <<fileTasks, tickets, producer, files>>

FileNext ==
  \/ \E p \in Producers : ForFile(p) \/ QueueEvent(p)
  \/ \E c \in Callers, r \in Requests : Announce(c, r)
  \/ \E c \in Callers : QueueRequest(c)
  \/ Take \/ WriteLine \/ DropBatch \/ ConfigureFile \/ ClearFile \/ FlushOrStop \/ FileFails

-----------------------------------------------------------------------------
(* Properties.                                                             *)

LinesOrdered(fs) ==
  /\ \A i, j \in DOMAIN fs : i < j =>
       \A m \in DOMAIN fs[i], n \in DOMAIN fs[j] : fs[j][n] < fs[i][m]
  /\ \A i \in DOMAIN fs : \A m, n \in DOMAIN fs[i] : m < n => fs[i][m] < fs[i][n]

\* Requests are ordered barriers (docs/ARCHITECTURE.md:88): tasks are finished in
\* the order they were submitted, so a clear or a flush returns after every event
\* before it, and the lines of the rotated files and of the current one follow
\* each other.
BarriersOrdered ==
  /\ \A t \in handled : \A u \in 1..t : u \in handled
  /\ LinesOrdered(files)

\* Producers and the thread agree whether the file is on, but while a request
\* that turns it off is under way: a failed disk stops both, and neither queues
\* events for a file that is closed nor keeps writing what nobody asked for.
SinkAgrees ==
  /\ fileEnabled => sink
  /\ sink /\ ~fileEnabled => \E c \in Callers : caller[c].request \in {"disable", "stop"}

-----------------------------------------------------------------------------
(* Why it holds: the tickets in the queue and in the thread continue those *)
(* of the finished tasks, and a caller that waits has its task there.      *)

FileTypeOK ==
  /\ fileEnabled \in BOOLEAN /\ sink \in BOOLEAN
  /\ tickets \in Nat
  /\ {fileTasks, fileThread} \subseteq
       Seq([request : Requests \cup {"event"}, ticket : Nat])
  /\ caller \in [Callers -> [at : {"idle", "announced", "waiting", "stopped"},
                             request : Requests \cup {"none"}, ticket : Nat]]
  /\ files \in Seq(Seq(Nat)) /\ files # <<>>

Finished == tickets - Len(fileTasks) - Len(fileThread)

InOrder ==
  /\ Finished \in Nat /\ handled = 1..Finished
  /\ \A i \in DOMAIN fileThread : fileThread[i].ticket = Finished + i
  /\ \A i \in DOMAIN fileTasks : fileTasks[i].ticket = Finished + Len(fileThread) + i

LinesUpTo(fs, t) == \A i \in DOMAIN fs : \A m \in DOMAIN fs[i] : fs[i][m] <= t

\* The thread has one request or a batch of events.
OneRequest ==
  \A i \in DOMAIN fileThread : fileThread[i].request = "event" \/ Len(fileThread) = 1

IsIn(s, c) ==
  \E i \in DOMAIN s : s[i].request = caller[c].request /\ s[i].ticket = caller[c].ticket
Awaited ==
  \A c \in Callers :
    /\ caller[c].at = "idle" <=> caller[c].request = "none"
    /\ caller[c].at = "waiting" => IsIn(fileThread, c) \/ IsIn(fileTasks, c)

FileInv ==
  /\ FileTypeOK /\ InOrder /\ OneRequest /\ Awaited
  /\ LinesUpTo(files, Finished) /\ BarriersOrdered /\ SinkAgrees
=============================================================================
