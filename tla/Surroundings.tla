---------------------------- MODULE Surroundings ----------------------------
(***************************************************************************)
(* The components around the query path, each by itself: a behaviour is    *)
(* one of one component.  They share the variables: a component with n     *)
(* variables has the first n, in the order of its INSTANCE, and the others *)
(* hold Absent.  make_transparent_interception (interception_factory.cpp)  *)
(* has one provider of transparent interception in a build, too.           *)
(***************************************************************************)
EXTENDS Naturals

CONSTANTS
  Ports, NoPort, MaxRules,                                        \* LinuxInterception
  Workers, Packets, Kind, Tuple, Rule, Size, BlockTcp, QueueLimit, ByteLimit, MaxCaptured,
  Tuples, Connections, ExpectedLimit, Lifetime, HandlerThreads, HandlerQueue,
  MaxTime,                                                        \* WindowsDivert
  Word, MaxHeaders, Captured, DnsPort, ProxyPort, Payloads,       \* PacketRewrite
  KindOf(_), Capacity, MaxRecords, FilterIds, Expressions, MaxEvents, MaxLives,
  MaxSeen,                                                        \* LogStream
  Producers, Callers, QueueSize, BatchSize, FileLines, Retained, MaxTasks,
  MaxFailures,                                                    \* FileLog
  AutomaticLimit, MaxLaunches,                                    \* HostClient
  Hosts, ServerIds, RuleCandidates, MaxRuleList,                  \* RuleEditor
  HostTexts, RuleTexts,                                           \* PatternMatch
  Configs, DefaultConfig,                                         \* ConfigFile
  Clients                                                         \* PipeServer

VARIABLES
  component,  \* which one this behaviour is of
  v1, v2, v3, v4, v5, v6, v7, v8, v9, v10, v11, v12, v13, v14, v15, v16

Linux == INSTANCE LinuxInterception WITH
  reported <- v1, serving <- v2, port <- v3, status <- v4, at <- v5, table <- v6,
  stray <- v7
Windows == INSTANCE WindowsDivert WITH
  state <- v1, control <- v2, handle <- v3, firewall <- v4, rules <- v5, jobs <- v6,
  queuedBytes <- v7, receiver <- v8, worker <- v9, fate <- v10, listening <- v11,
  expected <- v12, time <- v13, connection <- v14, captured <- v15, unexpected <- v16
Rewrite == INSTANCE PacketRewrite WITH
  original <- v1, wire <- v2, stage <- v3
Screen == INSTANCE LogStream WITH
  life <- v1, ring <- v2, sequence <- v3, cursor <- v4, poll <- v5, received <- v6,
  panel <- v7
File == INSTANCE FileLog WITH
  fileEnabled <- v1, fileTasks <- v2, tickets <- v3, producer <- v4, caller <- v5,
  fileThread <- v6, sink <- v7, files <- v8, handled <- v9, failures <- v10
Client == INSTANCE HostClient WITH
  holder <- v1, answers <- v2, coming <- v3, launcher <- v4, launch <- v5, gui <- v6,
  statusPoll <- v7, leaving <- v8, closing <- v9, history <- v10, launches <- v11
Editor == INSTANCE RuleEditor WITH
  servers <- v1, ruleList <- v2, options <- v3
Match == INSTANCE PatternMatch WITH
  host <- v1, patterns <- v2, matching <- v3
Saving == INSTANCE ConfigFile WITH
  windows <- v1, disk <- v2, temp <- v3, saving <- v4, window <- v5, running <- v6,
  request <- v7, existed <- v8
Proxy == INSTANCE WindowsProxy WITH
  state <- v1, stopEvent <- v2, socket <- v3, loop <- v4, executor <- v5, owner <- v6
Pipe == INSTANCE PipeServer WITH
  PipeWorkers <- Workers,
  running <- v1, stopping <- v2, started <- v3, owner <- v4, listener <- v5, pipes <- v6,
  outstanding <- v7, available <- v8, pending <- v9, server <- v10, client <- v11,
  handled <- v12

\* Captured TCP packets have an address and a port, lifetimes are whole seconds;
\* the workers of the pipes are finitely many, no client is Nobody or Gone; the
\* default configuration is one a user may make; rotated files are counted; the
\* ring has a capacity and the panel room for a record; there is a host to decide,
\* and room for a rule; names and patterns are texts; a captured packet has the
\* fields of one, and a word more than one value.
ASSUME SurroundingsConstants ==
  /\ Windows!DivertConstants /\ Pipe!PipeConstants
  /\ Saving!ConfigConstants /\ File!FileConstants /\ Screen!StreamConstants
  /\ Client!ClientConstants /\ Editor!EditorConstants /\ Match!MatchConstants /\ Rewrite!PacketConstants

\* The variables after the n-th, of a component that has n.
after12 == <<v13, v14, v15, v16>>
after11 == <<v12, after12>>
after10 == <<v11, after11>>
after8 == <<v9, v10, after10>>
after7 == <<v8, after8>>
after6 == <<v7, after7>>
after3 == <<v4, v5, v6, after6>>
vars == <<component, v1, v2, v3, after3>>

-----------------------------------------------------------------------------
Absent == "absent"
Absent12 == v13 = Absent /\ v14 = Absent /\ v15 = Absent /\ v16 = Absent
Absent11 == v12 = Absent /\ Absent12
Absent10 == v11 = Absent /\ Absent11
Absent8 == v9 = Absent /\ v10 = Absent /\ Absent10
Absent7 == v8 = Absent /\ Absent8
Absent6 == v7 = Absent /\ Absent7
Absent3 == v4 = Absent /\ v5 = Absent /\ v6 = Absent /\ Absent6

Init ==
  \/ component = "linux" /\ Linux!Init /\ Absent7
  \/ component = "windows" /\ Windows!Init
  \/ component = "rewrite" /\ Rewrite!PacketInit /\ Absent3
  \/ component = "screen" /\ Screen!StreamInit /\ Absent7
  \/ component = "file" /\ File!FileInit /\ Absent10
  \/ component = "client" /\ Client!ClientInit /\ Absent11
  \/ component = "editor" /\ Editor!EditorInit /\ Absent3
  \/ component = "match" /\ Match!MatchInit /\ Absent3
  \/ component = "saving" /\ Saving!ConfigInit /\ Absent8
  \/ component = "proxy" /\ Proxy!ProxyInit /\ Absent6
  \/ component = "pipe" /\ Pipe!PipeInit /\ Absent12

Next ==
  /\ UNCHANGED component
  /\ \/ component = "linux" /\ Linux!Next /\ UNCHANGED after7
     \/ component = "windows" /\ Windows!Next
     \/ component = "rewrite" /\ Rewrite!PacketNext /\ UNCHANGED after3
     \/ component = "screen" /\ Screen!StreamNext /\ UNCHANGED after7
     \/ component = "file" /\ File!FileNext /\ UNCHANGED after10
     \/ component = "client" /\ Client!ClientNext /\ UNCHANGED after11
     \/ component = "editor" /\ Editor!EditorNext /\ UNCHANGED after3
     \/ component = "match" /\ Match!MatchNext /\ UNCHANGED after3
     \/ component = "saving" /\ Saving!ConfigNext /\ UNCHANGED after8
     \/ component = "proxy" /\ Proxy!ProxyNext /\ UNCHANGED after6
     \/ component = "pipe" /\ Pipe!PipeNext /\ UNCHANGED after12

Spec == Init /\ [][Next]_vars

-----------------------------------------------------------------------------
(* The properties of the components, where their behaviours are.           *)

\* While the provider reports RUNNING, what the table redirects is redirected to the
\* port this process serves, and no redirect outlives its proxy but for the causes
\* named there (linux_interception.cpp).
RedirectsSound ==
  component = "linux" => Linux!RunningRedirectsHere /\ Linux!NoStrayRedirect
\* A DNS packet leaves unchanged only if the rules it was judged by let it pass
\* (windivert_interception.cpp).
PolicyNotBypassed == component = "windows" => Windows!PolicyNotBypassed
\* RUNNING means service: the provider's receive loop captures, and the proxy's
\* loops serve (windivert_interception.cpp, windows/local_proxy.cpp).
RunningCaptures ==
  /\ component = "windows" => Windows!RunningCaptures
  /\ component = "proxy" => Proxy!RunningServes
\* Driver, proxy, sockets and events outlive the threads that use them; an orderly
\* end leaves nothing.
OrderlyEnd ==
  /\ component = "windows" => Windows!OrderlyEnd
  /\ component = "proxy" => Proxy!NothingOutlives
\* A reflected connection is served for one SYN of its own (tcp_dns_proxy.cpp).
OneShot == component = "windows" => Windows!OneShot
\* Rewritten packets are intact and answer their client (windivert_interception.cpp).
PacketsSound == component = "rewrite" => Rewrite!PacketsSound
\* The display holds exactly what the panel keeps and admits (log_filter_ui.cpp).
DisplayExact == component = "screen" => Screen!DisplayExact
\* File requests are ordered barriers, and producers and thread agree whether
\* the file is on (logger.cpp).
FileLogSound == component = "file" => File!BarriersOrdered /\ File!SinkAgrees
\* A confirmed exit leaves no CoreHost behind but one whose launch was lost in a way
\* named there (qt_app.cpp).
ExitComplete == component = "client" => Client!ExitComplete
\* Every edited rule list decides every host (rules.cpp).
RulesUsable == component = "editor" => Editor!RulesUsable
\* The matching loop means what the wildcards mean (rules.cpp).
PatternsMatch == component = "match" => Match!PatternsMatch
\* The configuration file is whole whoever dies, and never without a backup
\* (config.cpp, platform.cpp).
FileWhole == component = "saving" => Saving!FileWhole
\* Instances suffice, no wake-up is lost, a stop leaves nothing, and an answered
\* request was handled once (windows/ipc.cpp).
PipeServed == component = "pipe" => Pipe!PipeServed
=============================================================================
