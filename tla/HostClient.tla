----------------------------- MODULE HostClient -----------------------------
(***************************************************************************)
(* NativeDnsWindow (NativeDNS.GUI/qt_app.cpp) as the owner of CoreHost: it *)
(* polls its status, launches it when it is absent, and ends it when the   *)
(* application ends, by exitApplication or with the event loop             *)
(* (aboutToQuit).  A poll, a launch and an exit each run in a thread of    *)
(* their own and hand their result to the GUI thread, which may process it *)
(* much later.                                                             *)
(*                                                                         *)
(* Deadlines are choices: a wait may end as soon as its condition is still *)
(* false.  A process bears the number of its launch; 0 ran before the      *)
(* application.                                                            *)
(***************************************************************************)
EXTENDS Naturals

CONSTANTS
  AutomaticLimit,  \* 3 automatic launches in a row
  MaxLaunches      \* bound of the exploration

ClientConstants == AutomaticLimit \in Nat

VARIABLES
  holder,     \* of the instance lock: no process, or one
  answers,    \* it answers requests
  coming,     \* processes created that have not reached the lock
  launcher,   \* coreStartOperationPending_ and its worker: [at, success, running]
  launch,     \* coreLaunchState_: [issued, cancelled]; its pending is Pending
  gui,        \* [expecting: coreLaunchPending_ "no", or for "young" or "old" launch;
              \*  automatic: automaticRestarts_]
  statusPoll, \* worker of refreshStatus: [at, failed, alive, seen (launches by then)]
  leaving,    \* exiting_ and the worker of exitApplication
  closing,    \* shutdownCoreForExit: [at, last (from the destructor), confirmed]
  history,    \* <<process, cause>>: how the application came to lose a process
  launches    \* so far

ownerVars ==
  <<holder, answers, coming, launcher, launch, gui, statusPoll, leaving, closing, history,
    launches>>

Resting == [at |-> "idle", success |-> FALSE, running |-> FALSE]
NoStatus == [at |-> "idle", failed |-> FALSE, alive |-> FALSE, seen |-> 0]

ClientInit ==
  /\ holder \in {{}, {0}} /\ answers = TRUE /\ coming = {} /\ launches = 0
  /\ launcher = Resting /\ statusPoll = NoStatus
  /\ launch = [issued |-> FALSE, cancelled |-> FALSE]
  /\ gui = [expecting |-> "no", automatic |-> 0]
  /\ leaving = "no" /\ history = {}
  /\ closing = [at |-> "no", last |-> FALSE, confirmed |-> FALSE]

Exiting == leaving \notin {"no", "failed"}
\* Callbacks are processed until the event loop ends.
Looping == closing.at = "no"
Pending == launcher.at \notin {"idle", "reported"}
Expecting == gui.expecting = "young"

-----------------------------------------------------------------------------
(* What coreLaunchState_ and coreLaunchPending_ stand for.                 *)

Losses == {"stale", "second", "forgotten", "probe"}
Surprises == {"dropped", "cleared", "slow"}

\* issued does not stand for p any more, or nobody expects p any more.
IsLost(p) == \E cause \in Losses : <<p, cause>> \in history
Unexpected(p) == \E cause \in Surprises : <<p, cause>> \in history

Records(ps, cause) == history' = history \cup ({p \in ps : ~IsLost(p)} \X {cause})

\* The processes on their way whose launch has been issued.
Issued == IF launcher.at = "created" THEN coming \ {launches} ELSE coming

-----------------------------------------------------------------------------
(* CoreHost.                                                               *)

\* A process reaches the instance lock, and ends when another one holds it or
\* the GUI is just trying it.
Appear ==
  /\ \E p \in coming :
       /\ coming' = coming \ {p}
       /\ \/ holder = {} /\ holder' = {p} /\ answers' = TRUE
          \/ UNCHANGED <<holder, answers>>
  /\ UNCHANGED <<launcher, launch, gui, statusPoll, leaving, closing, history, launches>>

\* It hangs, recovers or ends.
HostChanges ==
  /\ holder # {}
  /\ \/ answers' = ~answers /\ UNCHANGED holder
     \/ holder' = {} /\ answers' = TRUE
  /\ UNCHANGED <<coming, launcher, launch, gui, statusPoll, leaving, closing, history,
                 launches>>

CoreAnswers == holder # {} /\ answers

-----------------------------------------------------------------------------
(* startCore.                                                              *)

\* The early returns: an exit, a young launch and a launch not yet reported.
MayStart(g) == ~Exiting /\ g.expecting # "young" /\ launcher.at = "idle"

Starting(g) ==
  /\ gui' = g
  /\ IF MayStart(g)
       THEN /\ launcher' = [Resting EXCEPT !.at = "asking"]
            /\ launch' = [launch EXCEPT !.cancelled = FALSE]
       ELSE UNCHANGED <<launcher, launch>>

UserActs ==
  /\ Looping /\ ~CoreAnswers /\ launches < MaxLaunches
  /\ UNCHANGED <<holder, answers, coming, statusPoll, leaving, closing, launches>>

\* The application starts, or requestCoreRestart finds no CoreHost.
UserStarts ==
  /\ UserActs /\ ~Exiting
  /\ Starting([gui EXCEPT !.automatic = 0])
  /\ UNCHANGED history

\* A configuration is applied and restartCore finds no CoreHost: it gives up
\* coreLaunchPending_ first, even when the exit then returns from startCore.
UserApplies ==
  /\ UserActs
  /\ Starting([gui EXCEPT !.automatic = IF Exiting THEN @ ELSE 0, !.expecting = "no"])
  /\ Records(IF Expecting THEN coming ELSE {}, "cleared")

WorkerGoes(worker) ==
  /\ launcher' = worker
  /\ UNCHANGED <<holder, answers, gui, statusPoll, leaving, closing>>
\* pending = false, and a callback for the GUI thread.
Reported(success, running) == [at |-> "reported", success |-> success, running |-> running]

\* A core that answers is told to start; one that refuses is reported.
AskCore ==
  /\ launcher.at = "asking"
  /\ \/ CoreAnswers /\ WorkerGoes(Reported(TRUE, TRUE))
     \/ ~CoreAnswers /\ WorkerGoes([launcher EXCEPT !.at = "probing"])
     \/ WorkerGoes(Reported(FALSE, FALSE))
  /\ UNCHANGED <<coming, launch, history, launches>>

\* The instance lock tells an absent process from one that does not answer;
\* then the exit may have cancelled.
ProbeLock ==
  /\ launcher.at = "probing"
  /\ \/ ~launch.cancelled /\ holder = {} /\ WorkerGoes([launcher EXCEPT !.at = "scheduling"])
     \/ WorkerGoes(Reported(FALSE, FALSE))
  /\ UNCHANGED <<coming, launch, history, launches>>

\* The process exists before issued says so.  One that meets another, on its
\* way or arrived since the lock was tried, makes issued stand for both.
Created ==
  /\ launches' = launches + 1
  /\ coming' = coming \cup {launches'}
  /\ Records(IF coming = {} /\ holder = {} THEN {} ELSE coming', "second")
  /\ WorkerGoes([launcher EXCEPT !.at = "created"])
  /\ UNCHANGED launch

\* issued = launched, though an earlier process may be on its way.
NotCreated ==
  /\ launch' = [launch EXCEPT !.issued = FALSE]
  /\ Records(coming, "second")
  /\ WorkerGoes(Reported(FALSE, FALSE))
  /\ UNCHANGED <<coming, launches>>

\* The elevated task of Windows, which nobody asks whether it is cancelled.
Schedule ==
  /\ launcher.at = "scheduling"
  /\ \/ Created
     \/ launch.cancelled /\ NotCreated
     \/ /\ ~launch.cancelled
        /\ WorkerGoes([launcher EXCEPT !.at = "prompting"])
        /\ UNCHANGED <<coming, launch, history, launches>>

\* The elevation prompt is up as long as the user likes.
Prompt == launcher.at = "prompting" /\ (Created \/ NotCreated)

Issue ==
  /\ launcher.at = "created"
  /\ launch' = [launch EXCEPT !.issued = TRUE]
  /\ WorkerGoes(Reported(TRUE, FALSE))
  /\ UNCHANGED <<coming, history, launches>>

\* The callback on the GUI thread, which an exit makes drop the report.
LaunchReported ==
  /\ Looping /\ launcher.at = "reported"
  /\ launcher' = Resting
  /\ LET expecting == launcher.success /\ ~launcher.running
     IN IF launch.cancelled
          THEN UNCHANGED gui /\ Records(IF expecting THEN coming ELSE {}, "dropped")
          ELSE /\ gui' = [gui EXCEPT !.expecting = IF expecting THEN "young" ELSE "no"]
               /\ UNCHANGED history
  /\ UNCHANGED <<holder, answers, coming, launch, statusPoll, leaving, closing, launches>>

\* coreLaunchTimer_ reaches 15 s; pkexec may still ask for a password.
LaunchGetsOld ==
  /\ Expecting
  /\ gui' = [gui EXCEPT !.expecting = "old"]
  /\ Records(coming, "slow")
  /\ UNCHANGED <<holder, answers, coming, launcher, launch, statusPoll, leaving, closing,
                 launches>>

-----------------------------------------------------------------------------
(* refreshStatus, one at a time; its timer stops while the GUI exits.      *)

PollGoes(poll) ==
  /\ statusPoll' = poll
  /\ UNCHANGED <<holder, answers, coming, leaving, closing, launches>>

Refresh ==
  /\ Looping /\ statusPoll.at = "idle" /\ ~Exiting
  /\ PollGoes([statusPoll EXCEPT !.at = "asking"])
  /\ UNCHANGED <<launcher, launch, gui, history>>

\* A lock that cannot be tried counts as held.  An answer that comes after the
\* event loop, or waits for it at its end, is never processed.
StatusAnswered ==
  /\ statusPoll.at = "asking"
  /\ \E alive \in {holder # {}, TRUE} :
       PollGoes(IF Looping
                  THEN [at |-> "answered", failed |-> ~CoreAnswers, alive |-> alive,
                        seen |-> launches]
                  ELSE NoStatus)
  /\ UNCHANGED <<launcher, launch, gui, history>>

StatusTaken == Looping /\ statusPoll.at = "answered" /\ PollGoes(NoStatus)

StatusIgnored == StatusTaken /\ Exiting /\ UNCHANGED <<launcher, launch, gui, history>>

\* What loses its launch when issued is cleared: a process launched after the
\* status was read, and one nobody expects any more.
Erased ==
  {e \in Issued \X {"stale", "forgotten"} :
     /\ ~IsLost(e[1])
     /\ IF e[1] > statusPoll.seen THEN e[2] = "stale"
                                  ELSE e[2] = "forgotten" /\ Unexpected(e[1])}

\* A core that has been RUNNING for 30 s gives the automatic launches back.
StatusGood ==
  /\ StatusTaken /\ ~Exiting /\ ~statusPoll.failed
  /\ launch' = [launch EXCEPT !.issued = FALSE]
  /\ history' = history \cup Erased
  /\ \E automatic \in {gui.automatic, 0} :
       gui' = [expecting |-> "no", automatic |-> automatic]
  /\ UNCHANGED launcher

\* Alive without control: three such polls show the dialog that may force an exit.
StatusMute ==
  /\ StatusTaken /\ ~Exiting /\ statusPoll.failed /\ statusPoll.alive
  /\ gui.expecting = "no"
  /\ UNCHANGED <<launcher, launch, gui, history>>

Absent ==
  /\ StatusTaken /\ ~Exiting /\ statusPoll.failed
  /\ ~statusPoll.alive \/ gui.expecting # "no"

\* A launch is under way.
StatusEarly ==
  /\ Absent /\ (launcher.at # "idle" \/ Expecting)
  /\ UNCHANGED <<launcher, launch, gui, history>>

\* After three failed polls, five seconds after the last launch, or with another
\* network: up to three launches.
StatusAbsent ==
  /\ Absent /\ launcher.at = "idle" /\ ~Expecting
  /\ history' = IF statusPoll.alive THEN history ELSE history \cup Erased
  /\ LET g == [expecting |-> "no", automatic |-> gui.automatic]
         issued == launch.issued /\ statusPoll.alive
     IN \/ /\ g.automatic < AutomaticLimit /\ launches < MaxLaunches
           /\ gui' = [g EXCEPT !.automatic = @ + 1]
           /\ launcher' = [Resting EXCEPT !.at = "asking"]
           /\ launch' = [issued |-> issued, cancelled |-> FALSE]
        \/ /\ gui' = g /\ UNCHANGED launcher
           /\ launch' = [launch EXCEPT !.issued = issued]

-----------------------------------------------------------------------------
(* The two ways out: the worker of exitApplication, and the window itself  *)
(* when the event loop ends without it, as at the end of the session.      *)

Exits == {"worker", "window"}
At(exit) == IF exit = "worker" THEN leaving ELSE closing.at

WorkerExit(at) == leaving' = at /\ UNCHANGED closing
WindowExit(stage) == closing' = stage /\ UNCHANGED leaving

Proceeds(exit, at) ==
  IF exit = "worker" THEN WorkerExit(at) ELSE WindowExit([closing EXCEPT !.at = at])
Succeeds(exit) ==
  IF exit = "worker" THEN WorkerExit("quit")
  ELSE WindowExit([closing EXCEPT !.at = "left", !.confirmed = TRUE])
\* The worker goes on by force.  The window has its destructor try again, and
\* nobody looks at the second result.
Fails(exit) ==
  IF exit = "worker" THEN WorkerExit("forcing")
  ELSE WindowExit([closing EXCEPT !.at = IF closing.last THEN "left" ELSE "waiting",
                                  !.last = TRUE])

\* exitApplication; `force` comes from the failure dialog.
Exit ==
  /\ leaving \in {"no", "failed"} /\ Looping
  /\ launch' = [launch EXCEPT !.cancelled = TRUE]
  /\ WorkerExit("waiting") \/ WorkerExit("forcing")
  /\ UNCHANGED <<holder, answers, coming, launcher, gui, statusPoll, history, launches>>

\* aboutToQuit: shutdownCoreForExit, unless exitApplication has succeeded.
LoopEnds ==
  /\ Looping /\ leaving # "quit"
  /\ launch' = [launch EXCEPT !.cancelled = TRUE]
  /\ gui' = [gui EXCEPT !.expecting = "no"]
  /\ statusPoll' = IF statusPoll.at = "answered" THEN NoStatus ELSE statusPoll
  /\ WindowExit([closing EXCEPT !.at = "waiting"])
  /\ UNCHANGED <<holder, answers, coming, launcher, history, launches>>

\* requestCoreShutdown: the launch worker first, then the process it launched.
AwaitWorker(exit) ==
  /\ At(exit) = "waiting"
  /\ IF Pending THEN Fails(exit) ELSE Proceeds(exit, "appearing")
  /\ UNCHANGED <<holder, answers, coming, launcher, launch, gui, statusPoll, history, launches>>

\* A status poll or the other exit may be trying the instance lock.
SomeoneTries(exit) ==
  \/ statusPoll.at = "asking"
  \/ \E other \in Exits \ {exit} : At(other) \in {"appearing", "stopping", "confirming"}

\* Wrong: the process that was launched is not awaited.
AwaitNothing(exit) ==
  /\ At(exit) = "appearing"
  /\ Proceeds(exit, "stopping")
  /\ UNCHANGED <<holder, answers, coming, launcher, launch, gui, statusPoll, history, launches>>

\* A lock that is held is taken for the process, whoever holds it.
AwaitProcess(exit) ==
  /\ At(exit) = "appearing"
  /\ \/ ~launch.issued /\ Proceeds(exit, "stopping") /\ UNCHANGED <<launch, history>>
     \/ /\ launch.issued /\ (holder # {} \/ SomeoneTries(exit))
        /\ launch' = [launch EXCEPT !.issued = FALSE]
        /\ Records(IF holder = {} THEN coming ELSE {}, "probe")
        /\ Proceeds(exit, "stopping")
     \/ launch.issued /\ holder = {} /\ Fails(exit) /\ UNCHANGED <<launch, history>>
  /\ UNCHANGED <<holder, answers, coming, launcher, gui, statusPoll, launches>>

\* The lock is free, or the shutdown request was not honoured in time.
AwaitShutdown(exit) ==
  /\ At(exit) = "stopping"
  /\ IF holder = {} THEN Succeeds(exit) ELSE Fails(exit)
  /\ UNCHANGED <<holder, answers, coming, launcher, launch, gui, statusPoll, history, launches>>

\* The processes of this executable are ended by force: the one at the lock and
\* those on their way that can be seen already.  Linux ends none.
ForceStop ==
  /\ leaving = "forcing"
  /\ \/ /\ Pending \/ (launch.issued /\ holder = {})
        /\ WorkerExit("failed") /\ UNCHANGED <<holder, answers, coming>>
     \/ ~Pending /\ \E seen \in SUBSET coming :
          /\ coming' = coming \ seen /\ answers' = TRUE
          /\ \/ /\ launch.issued => holder \cup seen # {}
                /\ holder' = {} /\ WorkerExit("confirming")
             \/ /\ holder \cup seen # {}
                /\ holder' \in {holder, {}} /\ WorkerExit("failed")
  /\ UNCHANGED <<launcher, launch, gui, statusPoll, history, launches>>

ConfirmStopped ==
  /\ leaving = "confirming"
  /\ \/ holder = {} /\ WorkerExit("quit")
     \/ (holder \cup coming # {} \/ SomeoneTries("worker")) /\ WorkerExit("failed")
  /\ UNCHANGED <<holder, answers, coming, launcher, launch, gui, statusPoll, history, launches>>

ClientNext ==
  \/ Appear \/ HostChanges
  \/ UserStarts \/ UserApplies \/ AskCore \/ ProbeLock \/ Schedule \/ Prompt \/ Issue
  \/ LaunchReported \/ LaunchGetsOld
  \/ Refresh \/ StatusAnswered \/ StatusIgnored \/ StatusGood \/ StatusMute
  \/ StatusEarly \/ StatusAbsent
  \/ Exit \/ LoopEnds \/ ForceStop \/ ConfirmStopped
  \/ \E exit \in Exits : AwaitWorker(exit) \/ AwaitProcess(exit) \/ AwaitShutdown(exit)

-----------------------------------------------------------------------------
(* Properties.                                                             *)

Confirmed == leaving = "quit" \/ closing.confirmed

\* docs/ARCHITECTURE.md:157: an exit is a full shutdown.  Once either way out has
\* confirmed it, no CoreHost runs and none is on its way, though its launch may
\* have passed the check for cancellation before the exit began and its process
\* may be created during it.  Only a process whose launch coreLaunchState_ no
\* longer stood for may survive, and it comes to that in four ways:
\*   stale      a status read before the launch cleared issued after it;
\*   second     another launch, begun while the process was on its way, or given
\*              up then, shares or clears issued;
\*   forgotten  an absent status cleared issued while nobody expected the process,
\*              since an exit made its report drop, a configuration was applied
\*              meanwhile, or it took longer than 15 s;
\*   probe      the exit took a lock that the GUI itself was trying for the process.
\* Nothing is promised when the window leaves unconfirmed: it ignores that result.
ExitComplete == Confirmed => \A p \in holder \cup coming : IsLost(p)

-----------------------------------------------------------------------------
(* Why it holds: issued stands for the one process on its way unless that  *)
(* is lost, and an exit that has seen the launch worker end sees the       *)
(* process appear.                                                         *)

LaunchWorkers ==
  [at : {"idle", "asking", "probing", "scheduling", "prompting", "created", "reported"},
   success : BOOLEAN, running : BOOLEAN]
LaunchStates == [issued : BOOLEAN, cancelled : BOOLEAN]
Polls ==
  [at : {"idle", "asking", "answered"}, failed : BOOLEAN, alive : BOOLEAN, seen : Nat]
Leavings ==
  {"no", "waiting", "appearing", "stopping", "forcing", "confirming", "failed", "quit"}
Closings ==
  [at : {"no", "waiting", "appearing", "stopping", "left"}, last : BOOLEAN,
   confirmed : BOOLEAN]

LaunchTypeOK ==
  /\ coming \subseteq Nat /\ holder \subseteq Nat /\ launches \in Nat
  /\ \A p \in coming : p <= launches
  /\ launcher \in LaunchWorkers /\ launch \in LaunchStates /\ statusPoll \in Polls
  /\ statusPoll.seen <= launches
  /\ leaving \in Leavings /\ closing \in Closings
  /\ closing.confirmed => closing.at = "left"

\* A process that is not lost is the last one launched, alone, and issued stands for it.
OneOnItsWay ==
  \A p \in coming : ~IsLost(p) =>
    /\ coming = {p} /\ holder = {} /\ p = launches
    /\ launcher.at = "created" \/ launch.issued

\* It is expected, or will be when its report is processed.
ExpectedUnlessTold ==
  /\ launcher.at # "idle" => ~Expecting
  /\ \A p \in coming : Looping /\ ~IsLost(p) /\ ~Unexpected(p) =>
       \/ launcher.at = "created"
       \/ launcher.at = "reported" /\ launcher.success /\ ~launcher.running
       \/ Expecting

\* A CoreHost that answered was there before any process that is not lost.
AnswerOlder ==
  statusPoll.at = "answered" /\ ~statusPoll.failed =>
    \A p \in coming : p <= statusPoll.seen => IsLost(p)

\* An exit that has gone on has seen the worker end and the process appear.
WorkerAwaited ==
  \/ leaving \in {"appearing", "stopping", "confirming", "quit"}
  \/ closing.at \in {"appearing", "stopping"} \/ closing.confirmed
  => ~Pending
ProcessAwaited ==
  \/ leaving \in {"stopping", "confirming", "quit"}
  \/ closing.at = "stopping" \/ closing.confirmed
  => \A p \in coming : IsLost(p)

ClientInv ==
  /\ LaunchTypeOK /\ OneOnItsWay /\ ExpectedUnlessTold /\ AnswerOlder /\ WorkerAwaited
  /\ ProcessAwaited /\ ExitComplete
=============================================================================
