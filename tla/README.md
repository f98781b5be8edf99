# NativeDNS: a TLA+ verification project

NativeDNS intercepts the DNS traffic of a machine and answers it through the
upstream servers its rules select. This directory holds TLA+ models of its core,
the TLC configurations that check them on small instances, and TLAPS proofs of
most of their safety properties, for every value of the constants. Paths below are relative to the
repository; `Core/` stands for `NativeDNS.Core/`.

Every module is translated from the code, not from the documents. Where the two
disagree the model follows the code and a run shows the disagreement.

## 1. The system

| Component | Code | State it keeps | Operations | Interacts with |
|---|---|---|---|---|
| Router, query path | `Core/src/router.cpp`, `detail/cancellation.hpp` | configuration snapshots, each with reply cache, byte counter and in-flight map; stop source; lazily created transports | `route`, `exchange_cached`, `exchange`, `reload`, `resume`, `cancel_pending` | called by handler threads; reads the network generation |
| Fallback groups | `router.cpp` `exchange_group` | health per server: failures, retry time, latency | one group query | shared by all handlers of a snapshot |
| Local proxy | `Core/src/platform/*/local_proxy.cpp`, `bounded_executor.hpp` | state, sockets, loops, two executors, client descriptors, a stop flag or event | `start`, `stop`, `status`, the loops, the handlers | owns the handler threads; stops the router's queries |
| Linux interception | `linux_interception.cpp` | stored status, the proxy, an nftables table in the kernel | `start`, `stop`, `status`, `reload` | proxy, `nft` |
| Windows interception | `windivert_interception.cpp`, `tcp_dns_proxy.cpp` | driver handle, queue of captured queries, workers, expected TCP tuples, firewall rule | receive loop, workers, `start`, `stop`, `reload`; packet rewriting; the TCP listener | router, WinDivert |
| Core host | `Core/src/host.cpp`, `Core/host/main.cpp` | request flags, provider, configuration, endpoints | `start`, `wait_for_shutdown`, `stop`, `handle`; the restart loop of `main` | provider, IPC endpoints |
| IPC server | `platform/*/ipc.cpp`, `ipc_wire.cpp` | listening thread, workers, pipe instances, ownership of the endpoint | `start`, `stop`, accept, request and response; the client's request | core host's handlers |
| Plain transports | `platform/*/dns_transport.cpp`, `pool_limits.hpp` | pool of TCP connections, registry of upstream sockets | `exchange` | router, network generation, interception |
| Secure transports | `dns_secure.cpp`, `detail/bootstrap.hpp` | pool of libcurl handles, bootstrap cache | `exchange` | plain resolvers |
| DNSCrypt | `dnscrypt.cpp` | certificate cache | `exchange` | plain transports, two clocks |
| Rules | `rules.cpp` | rule list, servers | evaluate, validate, `ConfigEditor` | router, GUI |
| Configuration file | `config.cpp`, `platform/*/platform.cpp` | file, temporary file, backup | load, atomic save | GUI, core host |
| Logger | `logger.cpp` | ring, sequence, file queue and its thread | write, snapshot, configure, clear, flush | everything; log endpoint |
| Network monitor | `network.cpp` | interface snapshot, generation | `refresh`, resolver choice | router, transports |
| Packet codec | `dns_packet.cpp` | none | parse, age, clamp, fit | router |
| GUI | `NativeDNS.GUI/qt_app.cpp` | operation in progress, launch and exit state, status and log polls, edited configuration | launch, restart, apply, exit, poll | core host over IPC |
| GUI log view | `NativeDNS.GUI/log_filter_ui.cpp`, `log_display.cpp` | records, filters, display | append, filter, view, inspect | log poll |

What is hard to get right:

* **Router.** Handlers race on the same key; a leader may fail or be cancelled
  with followers waiting; a stop, a restart and a reload race queries that took
  their snapshot and token earlier; the byte counter is kept incrementally.
  Correct means: one upstream exchange per key, nobody waits for nobody, replies
  and cancellations stay in their session, limits hold, every query ends.
* **Fallback groups.** The health table is consulted in separate critical
  sections before and after each exchange. Correct means: circuits open and back
  off as promised, an expired one is probed first, somebody is asked.
* **Transports.** Connections, handles and cache entries are leased to one
  exchange and found again by the next, while keys change with the network and
  ports are handed out again by the kernel. Correct means: an answer reaches the
  request it belongs to, the interception never captures the program's own
  sockets, no refresh stays marked, what has expired is not used.
* **Proxies, interception, IPC servers.** Start can fail while threads already
  run; a thread may find its handle broken while another one stops everything;
  the state word is written by loops, start and stop; kernel rules survive the
  process. Correct means: running means serving, nothing outlives what it uses,
  an orderly end leaves nothing.
* **Core host.** Commands run on IPC workers while the main thread starts,
  supervises and stops; flags are set without locks. Correct means: accepted
  requests take effect, everything is joined, failures are noticed.
* **Configuration file.** A process or a disk may fail between the steps of a
  save. Correct means: the file is whole, or its backup is.
* **Logger and log view.** Requests are barriers in a queue of events; cursors
  outlive the process they count for; a display is kept incrementally.
* **GUI.** Polls, launches and exits end in threads of their own and are
  processed later. Correct means: an exit leaves no CoreHost behind.

The hazards are listed at their lines in `PROJECT.json`, with the properties that
cover them.

## 2. Modules

| Module | Models | Composes / used by |
|---|---|---|
| `QueryCache` | query path of the router and its provider's lifecycle | abstracts the group as a nondeterministic answer |
| `FallbackGroup` | `exchange_group` | refines what `QueryCache.Upstream` leaves open |
| `ProxyService` | what `LocalProxy` promises to its callers | abstract specification |
| `LocalProxy` | the Linux proxy in detail | implements `ProxyService` (`Implements`) |
| `LinuxInterception` | the nftables provider | instantiates `ProxyService` as its proxy |
| `CoreHost` | host object, main loop, IPC workers | provider reduced to its state |
| `PlainTransport`, `SecureTransport`, `CertificateCache` | the three kinds of transport | |
| `Transports` | `make_transport` | extends the three |
| `TcpDnsProxy` | listener for reflected TCP connections | extended by `WindowsDivert` |
| `WindowsDivert` | threads and lifecycle of the WinDivert provider | |
| `PacketRewrite` | what the provider does to a packet | |
| `WindowsProxy`, `PipeServer` | the Windows proxy; the Windows IPC server and its clients | |
| `FileLog`, `LogStream` | the file half of the logger; ring, polls and log panel | |
| `HostClient` | the GUI as owner of CoreHost | |
| `ConfigFile` | saves, loads and roll backs of the configuration | |
| `RuleEditor`, `PatternMatch` | validation, editing and evaluation of rules; the matching loop | |
| `Surroundings` | the eleven of these that stand beside the query path | instantiates them |
| `QueryCacheProofs`, `FallbackGroupProofs`, `LocalProxyProofs`, `WindowsDivertProofs`, `ControlProofs`, `CoreHostProofs`, `TransportsProofs`, `SurroundingsProofs` | theorems, inductive invariants and lemmas (section 4) | each extends the module it is about |
| `MC...` | model values, symmetry and functions for TLC | |

`Surroundings` is a sum: `component` says which of its components a behaviour is
of, and that component owns the first variables of `v1` to `v16`, the others hold
`Absent`. The components in it share no state in the code either, or share only
what their own modules already model as environment (the GUI sees a CoreHost
that answers or does not; the provider sees packets). One run explores them all.
`Transports` is such a sum too: `made` is the kind `make_transport` made.

### QueryCache

A *thread* is a handler of the provider's executor, serving one query at a time:
`Begin` takes snapshot, token and generation, `Lookup` is the first critical
section of `cache_mutex` (purge, then hit, join, busy or lead), `Check` and
`Acquire` are `Router::exchange` before and under `transport_mutex_`, `Upstream`
is the exchange, `Publish` the second critical section (store with eviction,
publish to followers, erase). A follower ends through `Wake`, `WaitTimeout` or
`WaitCancelled`. The lifecycle is `RequestStop`, `DropTransports`
(`cancel_pending`), `StopAccepting`, `ClearQueue`, `JoinHandlers`, `Start`.

Packets are records of transaction ID, question, TTL, form and, as a history
field, the snapshot and generation that fetched them. The ID is the thread that
carries the query, which is exactly what the ID has to tell apart. Sizes, TTL
clamping, ageing and the negative-cache limit are modelled. The clock is finer
than a second, of which `Second` ticks make one: expiry is compared exactly, and
the age is truncated to whole seconds (`Elapsed`), as in the code. Eviction is stated
declaratively: the set removed is a prefix in expiry order and minimal. The
order among equal expiries is left open.

### FallbackGroup

`Begin` visits the fallbacks depth first, filters disabled members, computes the
budget and the order (`Ranked`, an insertion sort with the code's comparator,
because that comparator is not an ordering; all three are loops, `Iterate`, the
recursion of `append` with a list of the calls ahead); `Choose` is one round of the loop;
`Succeed`, `Fail`, `Cancel` are the three ends of an exchange. `Tick` lets time
pass but never beyond an attempt's timeout. `overlap` is the model's own: in a
behaviour with it, queries of the primaries in `Overlapping` run side by side; in
one without, queries of every primary follow each other.

### LocalProxy, WindowsProxy and ProxyService

`control` is the operation that holds the `lifecycle` mutex and where it is. The
listener loops go through `Poll`, then `Receive`, `Accept`, `Again`, or `Trouble`
and `Break`, which separates reading `running` from writing `state`. Handlers
take jobs from bounded queues; a TCP job owns a descriptor that `Release` (the
deleter of the shared pointer) forgets and closes in one critical section.
`ProxyService` has three variables: the reported state, the listeners that are
served, the port. `LocalProxy!Service` is the refinement mapping.

The Windows proxy has a stop event in place of the flag: a loop that fails
(`LoopThrows`, `LoopReports`) sets it and so ends the other one. `Fails` is the
exception of a start at any stage; it and `BeginStop` share the way down.

### LinuxInterception

`at` is the progress of `start` or `stop` under `mutex_`. The table is a sequence
of redirect rules, the first match wins. `Delete` may fail, as its exit status
is ignored; `Crash` kills the process between any two steps and leaves the table.
`stray` is a history variable that records why the table may hold rules of which
no running provider knows, so that properties can speak of orderly executions.

### WindowsDivert, TcpDnsProxy, PacketRewrite

The receive loop waits, judges one packet and drops, passes on, reflects, answers
or queues it; workers decide the queued queries with the rules they were judged
by. `handle` is the driver's: any thread may find it broken, and the end of a
failed thread is stepwise (`broken`, `reporting`). `control` is `start`, the roll
back of a failed start, or `stop`. `TcpDnsProxy` keeps the expected tuples with
their expiry and the connections from `accept` to the end of their handler;
`unexpected` is a history variable. `PacketRewrite` has the packet the driver
captured, the packet after each rewriting and checks it the way a receiver does,
with words of `Word` values in place of 16 and 32 bits.

### CoreHost and PipeServer

The main thread is `main` with a list `todo` of endpoints to start, check or
stop; IPC workers carry a command from `Accept` to `Respond`. `mutex_` and
`reload_mutex_` are derived from where the workers are. `asked` and `exitAcked`
are history variables. `CoreHost` has the IPC server of Linux inside it. That of
Windows is `PipeServer`: the listener creates an instance, waits for a client
and, when all workers are occupied, sleeps on an event that resets itself
(`Occupied`, `Unblocked`); a job closes its connection, counts itself out and
signals, in the order `Ending`. Clients take any free instance and may leave, or
run out of time, at every point.

### Transports

`PlainTransport`: an exchange goes through `UDP` or a pooled connection, with the
retry over a fresh connection, the switch to TCP after truncation, the change of
generation in between. `owed` is a history variable: answers that are still on
their way on a connection. Closing a socket and leaving the registry are two
steps, and the port may be in use again between them. `SecureTransport`: leases
of handles, the bootstrap cache with one refreshing leader, the resolvers in turn
with their share of the time, one retry of DoT. `CertificateCache`: the same with
certificates, whose freshness is by the steady clock and whose validity by the
system clock; `Passes` lets time go by and sets the latter to any value.

### FileLog, LogStream

`FileLog` has the queue of events and requests, the file thread that takes
batches, rotation, and a disk that may fail in any write. Callers of configure,
clear and flush wait for their ticket. `LogStream` has two processes one after
the other that number their events from 1, the GUI's poll with its cursor, and
the panel: views, expressions that may not compile, saved filters, eviction and
inspection. The display is a sequence of its own, kept as the code keeps it.

### HostClient, ConfigFile

`HostClient` separates what a worker thread finds from the moment the GUI thread
processes it. A launch is stepwise: `AskCore`, `ProbeLock` with the last check for
cancellation, `Schedule` (the elevated task of Windows), `Prompt` (the elevation
prompt, up as long as the user likes), `Issue` (the process exists, and only now
`issued` says so), `LaunchReported`. So a process may be created after an exit has
cancelled its launch. Both ways out are there, the worker of `exitApplication`
and `shutdownCoreForExit`, which the end of the event loop and the destructor
call (`LoopEnds`) and whose failure nobody looks at; they share the steps of
`requestCoreShutdown`. Deadlines are choices. `history` is a history variable:
with which process, and why, the application came to lose sight of it (section 5).
`ConfigFile` has the steps of `save_config` (`CheckTarget`, `WriteTemp`,
`VerifyTemp`) and of `atomic_publish_file` on each system (copy to the backup and
rename; `ReplaceFile` or a move), each of which may fail or be the last of a
process, and what GUI and CoreHost do with the outcome. A loss of power is not
modelled.

### RuleEditor, PatternMatch

Every operation of `ConfigEditor` builds a candidate, validates it as a whole and
commits it. `Visit` is the code's depth-first search for cycles, compared in
`RulesUsable` with the definition: no set of servers each of which leads into it.
`PatternMatch` has the matching loop step by step (`BackTrack` is its jump to the
last star), compared with the recursive meaning of `*` and `?`.

## 3. What the runs check

| Run | Shows | Bounds | Distinct states |
|---|---|---|---|
| `query_lifecycle` | `Coalesced`, `ReplyBelongsToQuery`, `TransportsReleased`, `CancelledOnlyWhenStopped`, `EveryQueryEnds`, `StopCompletes` | 2 fair handlers, 1 question, 1 restart or reload | 56 thousand |
| `query_cache` | `CacheAccounted`, `HitAgesTtl` | 2 questions of sizes 1 and 2, 2 generations, cache of 2 entries or 2 bytes, 2 ticks a second, clock to 3 | 2.3 million |
| `group_circuit` | `CircuitSound`, `ProbesFirst`, `AsksSomeone` | 2 queries, groups with disabled members, 4 failures in a row, clock to 3 | 1.2 million |
| `transports` | `ConnectionsOwned`, `UpstreamMarked`, `RefreshesEnd`, `CertificateValid`, `FallbackTried` | 2 exchanges, pools and caches of 1 key, 2 generations | 1.1 million |
| `proxy` | `ClientsTracked`, `ReplySocketOpen`, `NothingLeft`, `Implements`, `LifecycleEnds` | a UDP and a TCP listener, queues of 1, 3 descriptors, 3 handlers, all fair | 149 thousand |
| `host` | `QuietAtEnd`, `RestartHonoured`, `ReloadMonotonic`, `ShutdownCompletes`, `EndpointRecovers`, `BackendErrorEnds` | 2 workers, 2 commands, 2 host objects, 1 fault, 2 file versions, fair threads | 166 thousand |
| `surroundings` | one property or two per component, below | below | 2.2 million |
| `group_advance`, `interception_status`, `host_exit`, `divert_stop`, `log_cursor` | violations, section 5 | | |

The components of `surroundings`:

| Component | Property: what it says | Bounds |
|---|---|---|
| `linux` | `RedirectsSound`: what is redirected is served, what is stopped is not redirected | 2 ports, 4 rules |
| `windows` | `PolicyNotBypassed`, `RunningCaptures`, `OrderlyEnd`, `OneShot`: no DNS packet leaves unchanged but by the rules it was judged by; RUNNING means capturing; handle and proxy outlive their threads; a SYN serves one connection | 2 workers, 7 packets of which 2 are captured, queue of 1, 1 tuple expected, 1 connection |
| `proxy` | `RunningCaptures`, `OrderlyEnd` again: RUNNING means that both loops serve; sockets and event outlive loops and handlers | executors of 1 thread, queues of 1 |
| `pipe` | `PipeServed`: instances suffice, no wake-up is lost, a stop leaves nothing, an answered request was handled once | 2 workers, 3 instances, 1 client that comes again |
| `rewrite` | `PacketsSound`: rewritten packets have right checksums and lengths, come from whom the client asked, and a reset has the number the client waits for | about 3000 packets: words of 16 values, so that sums and sequence numbers wrap around |
| `screen` | `DisplayExact`: the display is exactly what is kept and admitted | ring of 1, panel of 2, 2 processes of 2 events, 3 records seen |
| `file` | `FileLogSound`: requests are ordered barriers, and producers and thread agree whether the file is on | 2 producers, 2 callers, 4 tasks, 1 disk failure |
| `client` | `ExitComplete`: a confirmed exit leaves no CoreHost behind that the launch state stood for | 2 launches, 1 automatic in a row |
| `editor` | `RulesUsable`: every host is decided, references exist, groups are acyclic | 2 servers, 3 rules, 2 hosts |
| `match` | `PatternsMatch`: the loop means what the wildcards mean | names and patterns of up to 4 characters |
| `saving` | `FileWhole`: the file is whole, or its backup is | 2 configurations, both systems |

Why the bounds are enough: the interesting conflicts are between two actors
(leader and follower, query and stop, two reloads, command and main thread, two
group queries on one server, a releasing handler and an accepting loop, a
launch and an exit, worker and receive loop), and each instance holds two of
each. Two snapshots and two tokens give an old and a new session. Limits (`MaxEntries`, `MaxBytes`, `MaxPending`, queue
capacities, pool sizes, `MaxHealth`, `MaxRules`, instances of a pipe) are set so small that the full
case is reached. A ring of one record loses an event with every second write,
which is all a larger one could do. Bounds that are the model's own and not the
code's are marked "bound of the model" or "bounds of the exploration" where they
are declared. For most safety properties, theorems
remove the bounds (section 4).

`CHECK_DEADLOCK FALSE` is used where a behaviour really may come to rest: in
`QueryCache` the clock, snapshots and generations are bounded, in `Surroundings`
a matched pattern, a finished packet, a GUI that has quit and logs whose events
are written have nothing more to do, and `divert_stop` is about a provider that
hangs. Deadlock is checked in the other runs.

Symmetry is used in runs without liveness properties only, of handlers in
`query_cache`, `group_circuit` and `transports`, and of the workers of
`WindowsDivert` and `PipeServer` in `surroundings`.

**Fairness.** Weak fairness of a handler's, loop's or worker's steps: each is an
OS thread, and each wait of the code has a time limit (100 ms polls of the token,
250 ms and 2 s socket timeouts, transport timeouts). Weak fairness of the thread
inside a start, a stop or the main loop. `divert_stop` assumes it of the
provider's control thread, receive loop, workers and connections, so that its
counterexample is a system in which everyone who can go on does. No fairness is
assumed of clients, the clock, the network, failures or commands.

## 4. What is proved

TLAPS checks the following theorems for every value of the constants: any number
of handlers, workers, sockets, servers, packets, rules and cache entries, and any
limits and capacities that satisfy the assumptions listed at the end.

| Module | Theorem | States |
|---|---|---|
| `QueryCacheProofs` | `TypeCorrect` | `TypeOK` |
| | `CoalescedHolds` | `Coalesced`: `SingleFlight`, `NoOrphanWaiter`, `PendingBounded` |
| | `TransportsReleasedHolds`, `CancelledOnlyWhenStoppedHolds` | the properties of these names |
| | `ReplyBelongsToQueryHolds`, `HitAgesTtlHolds`, `CacheAccountedHolds` | the properties of these names |
| `FallbackGroupProofs` | `TypeCorrect`, `CircuitsHold` | types; `CircuitSound` |
| | `ProbesComeFirst`, `SomeoneAsked` | the action properties `ProbesFirst`, `AsksSomeone` |
| `LocalProxyProofs` | `TypeCorrect` | `TypeOK` |
| | `RepliesGoOut`, `TrackingHolds`, `NothingLeftHolds` | `ReplySocketOpen`, `ClientsTracked`, `NothingLeft` |
| | `ImplementsService` | `Implements`: the proxy refines `ProxyService` |
| `WindowsDivertProofs` | `TypeCorrect`, `PolicyHolds`, `OneShotHolds`, `LifecycleHolds` | types; `PolicyNotBypassed`; `OneShot`; `RunningCaptures` and `OrderlyEnd`. The lemmas about `PacketRewrite` and `PatternMatch` |
| `ControlProofs` | `PipeHolds` | `PipeServed`. The lemmas about `HostClient` |
| `SurroundingsProofs` | `RedirectsHold`, `PolicyHolds`, `OneShotHolds`, `RunningServes`, `EndsInOrder`, `FileHolds`, `FileLogHold`, `ExitHolds`, `RulesHold`, `DisplayHolds`, `PatternsHold`, `PacketsHold`, `PipesHold` | `RedirectsSound`, `PolicyNotBypassed`, `OneShot`, `RunningCaptures`, `OrderlyEnd`, `FileWhole`, `FileLogSound`, `ExitComplete`, `RulesUsable`, `DisplayExact`, `PatternsMatch`, `PacketsSound`, `PipeServed`, of the specification TLC runs |
| `CoreHostProofs` | `TypeCorrect`, `QuietHolds`, `RestartHolds`, `ReloadHolds` | types; `QuietAtEnd`; `RestartHonoured`; the action property `ReloadMonotonic` |
| `TransportsProofs` | `ConnectionsHold`, `UpstreamHolds`, `RefreshesHold`, `CertificateHolds`, `FallbackHolds` | `ConnectionsOwned`, `UpstreamMarked`, `RefreshesEnd`, `CertificateValid`, the action property `FallbackTried` |

Every proof has the same shape: an inductive invariant in named layers, one step
per action, and under it one per layer that the action can disturb. The
arguments:

**Query path.** (1) `TypeOK`. (2) `Leadership`: `SingleFlight`, every unwoken
waiter's key has an entry in flight, and whoever is about to publish has decided
on an outcome. The last part is why a publication really wakes: a follower is
woken by receiving something other than `NoOutcome`. (3) `InFlightBounded`: the
set in flight is finite and within the limit; the finiteness is what makes its
cardinality mean anything. (4) `SessionInv`: once a stop was requested, the
current token is stopped until the next start. (5) `CacheOwned` and
`OutcomesOwned`: every cached and every delivered packet was fetched for the key
and snapshot under which it is kept; a reply passes through the cache or through
a leader, so neither is inductive alone. (6) `Lifetimes`: an entry expires no
later than its packet's TTL allows, so ageing never underflows, and as the age is
truncated (`ElapsedFacts`) a TTL served is positive and ends less than a second
after the one stored. (7) `Accounts`:
the bytes counted are those of the entries, within the limits, and no entry
answers a query in flight (`LeadersMissed`). The last part is why an insertion,
which adds its size without a look at what it overwrites, overwrites nothing. A
sum of sizes is the number of pairs of an entry and one of its octets (`Octets`),
so that sums are cardinalities and need no recursion.

**Fallback groups.** The loops of `exchange_group` are `Iterate`, a recursive
function of the number of rounds. `Iterates` shows once that it stays in the set
its rounds map to itself (by the least round that would not), which gives the
types of members, order and budget. `RankedMeans`: each insertion of the sort
leaves the members that are due for a probe in front. `GroupInv` adds to types
and bounds of time that an open circuit has two failures behind it, that without
overlap one query is served at a time (`Alone`), and that a member is passed over
only for one that follows, as long as none was asked (`ReadyAhead`): a query that
runs off the end of its order has asked someone.

**Local proxy.** `Phases` says what a stop has put behind it at each of its steps
(`Released`), that whoever runs does so over open sockets and that a proxy at
rest runs or is empty (`Lifetime`), and what the state word means between the
operations (`Published`). `Ownership` gives every open descriptor one owner, a
worker or a place of the queue, although the kernel gives a closed number out
again. `NothingLeft` needs both, the refinement the phases: a step that
`ProxyService` does not know of changes none of its three variables.

**Linux interception.** `RedirectInv`, at the end of `LinuxInterception`: what the
table holds at each step (`TableGrows`, `TableEmpty`) relative to what the proxy
does meanwhile (`ProxyStays`), where the proxy is `ProxyService`. That `LocalProxy` implements it is the theorem above, so
the two compose.

**WinDivert.** Types say that only queries are queued, each with the version of
the rules it was judged by; `PolicyNotBypassed` is then about what the receive
loop and the workers do with a packet they hold. The table of expected tuples and
the SYNs it stands for give `OneShot`. `Life` lists, for every step of start, roll
back and stop, which threads and resources exist, and that a running provider
whose handle is shut has a thread on its way to report it.

**Packets.** Arithmetic first. Folding the carries of a sum back is a recursive
function on numbers; `FoldedOK`: it ends, and leaves the residue of the sum modulo
`Word - 1`, as 1 .. `Word - 1` and zero of zero only (`Residue`). Hence
`FinishedOK`: a sum and its finished checksum fold to all ones, also when the
complement would be zero and is sent in its other form. Then what a rewrite keeps
(`SummedOK`, `ReflectedOK`, `ResetOK`, `ResponseOK`): the checksum fields are none
of the words summed up, so a rewritten packet whose header states its length is
intact. `ExtentOK`: the number that a reset acknowledges is the one the client
counts by the octets it sent. `PacketInv` adds to the property what of the packet
at the proxy and of its answer determines the next step: the addresses, the ports
and the number.

**Core host.** Three layers on the types: a command runs only on an endpoint that
is not down, and an endpoint no longer in `todo` of a stop is down (`Quiet`); who
requested the end of this object has left a trace of why (`Reasons`); a reload
between its read of the file and its effect is alone, and what it read lies
between the active configuration and the file (`Reloads`).

**Transports.** `PlainInv` is the conjunction of types, `Shaped` (an exchange at a
step holds what that step needs), `LeasesHeld` and `Alone` (leases are
busy entries of the pool; no two exchanges share an entry or a port, and no two
entries a port), `SocketsOpen` (a port in use is not free), `RepliesOwed` (a
connection owes a reply exactly while somebody waits for it, so that an idle one
owes none) and `GuardsCounted` (the guards of a port number are one for its
socket, if that may send, and one for every closed socket whose guard is still to
be erased). `CertificateInv` is
`HeldValid` (every certificate a query holds was valid at a moment it looked at)
and `OneLeader` (a marked refresh has one request performing it, of an entry
that stays in the cache). `SecureInv` is the same `OneResolver` for the bootstrap
cache and `TimeLeft`: a refresh that began with a tick for every round has one
for each that is left, which takes a fact about the division of the time among
the resolvers (`AllowanceFacts`).

**Windows IPC server.** `Attended`: an open instance has exactly one that attends
to it, which is the listener, a place of the queue or a worker. `JobsCounted`:
`outstanding` is the length of the queue and the number of workers that have not
counted down yet. One instance more than workers is then enough by counting, and
once the queue is drained and the workers are idle none can be open.
`Connections` and `Answers` follow a request: a client is the peer of one
instance at most, its request is unhandled while the instance waits for a worker
and handled from the reply on, so no second worker handles it.

**Log file.** `FileInv`, at the end of `FileLog`, numbers the tasks (`InOrder`):
those that the thread has taken continue the finished ones, and those in the
queue continue the taken ones, which makes every request a barrier. The lines on
disk are of finished tasks (`LinesUpTo`), so the next line comes after all of
them, and a rotation only moves files. That producers and thread agree needs
`Awaited`: a caller that waits has its own request in the queue or in the thread,
so a request that turns the file off is over only when the thread has closed it.

**Rules and servers.** `EditorInv` says that the configuration validates; the
proof is that `validate` means what it is for. Its depth-first search is a
recursive function of the depth and of the loops over fallbacks, of which
`VisitsExist` and `Iterates` show that they define what they say (by the least
round that would not). `Sound` is the invariant of a visit: what it has left is
closed under fallbacks and free of circles (`Clean`), and includes what was asked
for. Why closed: a server is left only after all its fallbacks. `CleanMore` adds
one server to a clean set: a circle through it would need a fallback that leads
back to it, and a closed set leads nowhere else. So a search that ends well has
left every server, and no set of servers has all its members lead into it.

**Log display.** `InOrder` says that the display is the subsequence of the kept
records at the places the filters admit: there is a map from its places to those
places that keeps their order and leaves none out. The lemmas move this map:
`InOrderMore` when a record is displayed at the end, `InOrderLess` when the oldest
one is evicted, which leaves the display by its first record exactly if that one
is admitted. `Partly` is the invariant of the loop of `rebuild`: after n rounds
the display is what matches of the first n records. A selection by a predicate is
a recursive function (`Those`), of which only `ThoseOK`, that it selects nothing
else, is needed.

**Patterns.** `Reached` defines what a pattern may stand for, character by
character, as the set of lengths of the name it can have read. `MatchInv` compares
the loop with it from both sides. What the loop read is possible (`Fitting`): an
accepted name matches. What it gave up is not needed (`NoneBehind`): take any
`Alignment`, a way in which the whole pattern stands for the whole name. It
ends the last star no earlier than `retry`, and one that ends it exactly there is
where the loop is. So when the loop stands at a character that does not fit
(`NoneHere`), no alignment ends the star at `retry`: the star may take one more,
and if there was no star, no alignment exists. This is why going back to the last
star is enough. `GlobAligned` links the two definitions: a name that is reached
has an alignment, by induction over the pattern.

**Windows proxy, configuration file, GUI.** Their inductive invariants
(`ProxyInv`, `ConfigInv`, `ClientInv`) stand at the end of `WindowsProxy`,
`ConfigFile` and `HostClient`. `ProxyInv` has
the resources and threads at each stage of start, stop and rest. `ConfigInv`: a
temporary file that is about to be published can be read, and a target that ever
existed can be, or its backup. `ClientInv`: a process on its way that is not lost
is the last one launched, alone, and `issued` stands for it from the report of
its launch on (`OneOnItsWay`). `ExpectedUnlessTold` and `AnswerOlder` are why a
status seldom clears `issued` too early: the GUI expects the process, or a report
is due, and a core that answered was there before it. An exit goes on only when
the worker has ended (`WorkerAwaited`) and the process has appeared
(`ProcessAwaited`); the cancellation alone would not do. The lemmas are in
`ControlProofs`.

`Surroundings` and `Transports` are sums, so a behaviour is one of a single
component. `SurroundingsProofs` carries the results about WinDivert, packets,
patterns, pipes and the GUI over through lemmas that the definitions of the two instances
are equal (`WindowsSame`, `PacketsSame`, `PatternsSame`, `PipeSame`, `ClientSame`); in its
proofs the n-th variable of a component is `v`*n*.

Two slips in the model came to light only in the proofs, and no run could have
shown them: the quantifier of `JoinUdp` and `JoinTcp` in `LocalProxy` took the
rest of the action into its scope, which makes a difference only when there is
no worker; and the finiteness of `Handlers` was not stated, without which the
number of guards of a port need not be a number.

Assumptions: the named assumptions of the modules (`QueryCacheConstants`,
`FallbackGroupConstants`, `LocalProxyConstants`, `CoreHostConstants`,
`PlainTransportConstants`, `SecureTransportConstants`, `CertificateConstants`, and
`SurroundingsConstants` for WinDivert, its packets, pipes, rules, the log display,
patterns, configurations, launches and rotated log files), which TLC evaluates in every run.
They say that limits are natural numbers (some of them positive, as are the ticks
of a second), sets of threads
are finite, that the rules a caller offers have the fields of a rule and captured
packets those of a packet, that a word has more than one value, and that
different kinds of sockets and threads are disjoint. The theorems of
`WindowsDivertProofs` need `DivertConstants` for `OneShotHolds` alone.

Model-checked only:

* All liveness properties, and with them the fairness.
* The five properties of section 5, which do not hold.

## 5. Where code and documents disagree

* `host_exit`, `ExitHonoured`: a Shutdown that was acknowledged is dropped when a
  Restart was accepted beside it; `main` reads `restart_requested()` alone.
* `group_advance`, `FailureAdvances`: a member that has just failed once counts
  as ready, so a member with an open circuit behind it is skipped and the query
  fails with time left.
* `interception_status`, `FailureReported`: the provider's status never reflects
  a listener that failed, nor a start that ended with an exception other than
  `nd::Error`.
* `divert_stop`, `StopReturns`: `stop` signals the workers without the mutex of
  their condition. A worker between its predicate and its wait sleeps on, and the
  join never returns.
* `log_cursor`, `ShownOnce`: the GUI's cursor outlives the process it counts for.
  While the new process is behind it, every poll brings the whole ring again.

Observations without a run of their own:

* The latency comparison of `exchange_group` (`router.cpp:151`) is not transitive
  when a member was never measured, so a slower member can be asked first.
* The rollback of a failed nft script stops the proxy before it deletes the
  partial table (`linux_interception.cpp:117`), where `stop` has the opposite
  order. `ScriptFails` and `Undo` keep that order.
* A reply from the cache may be served for almost a second longer than its TTL
  allows: `exchange_cached` truncates the time since storage to whole seconds
  (`router.cpp:250`). `HitAgesTtl` bounds the overrun.
* A confirmed exit can miss a CoreHost on its way, when `coreLaunchState_->issued`
  no longer stands for it. `ExitComplete` excepts exactly these, as causes in
  `history`: a status read before the launch and processed after it clears `issued`
  (`stale`); a second launch, begun or given up while the process is on its way,
  shares or clears it (`second`); a status that finds the lock free clears it while
  nobody expects the process (`forgotten`), because an exit that then failed made
  its report drop (`dropped`), a configuration was applied meanwhile (`cleared`),
  or the launch took more than 15 s, as when `pkexec` asks for a password
  (`slow`); and the exit takes for the process a lock that a status poll or the
  other way out is just trying (`probe`).
* An application whose event loop ends without `exitApplication` (the end of the
  session) ends with CoreHost running when `shutdownCoreForExit` fails: its result
  is ignored by `aboutToQuit` and by the destructor (`qt_app.cpp:1395`, `1416`).
* Nothing writes a configuration through to the disk before it is published
  (`config.cpp:719`, no `fsync`), so a loss of power may leave a short file.
  `FileWhole` is about processes that die, not about the machine.
* A configuration that CoreHost refused when it was imported or begun anew
  stays in the GUI's memory and is saved by a later change of the log settings. A
  reload that times out in the GUI may have been applied: the roll back of the
  file then parts from the running configuration.
* When `ReplaceFile` of Windows fails after it has moved the target away, only
  the backup is left, and the next start writes defaults. `FileWhole` asks for
  one of the two files.
* `PipeServer::start` of Windows keeps `owner_` when it cannot create its events,
  so that the next start finds the endpoint owned and fails once.
* The server dialog shows the result of a test of the server as it was before an
  edit (`qt_app.cpp:762`); `restartWhenNetworkReturns_` is never set.
* A bootstrap failure that is cached may be the cancellation of another request.

## 6. Plan

Done: everything in sections 2 and 4. What is left, in this order:

1. Liveness of the smaller modules: a flush returns, a bootstrap or certificate
   refresh ends, a pipe request ends.
2. `write_limited` of the logger; `NetworkMonitor` refreshes; the ownership of the
   WinDivert service.

## 7. Not modelled

Byte-level parsing of packets, XML and IPC frames; TLS, HTTP and cryptography
(libraries); registry, autostart and the wording of firewall and `nft` commands;
the search for conflicting programs; the update check; widgets, dialogs, icons,
translations and other presentation; the C API, a thin wrapper; the fault
injection of tests, whose faults are actions here; the one-shot command line
tool. `PROJECT.json` gives the reason for each component.
