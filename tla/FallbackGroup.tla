---------------------------- MODULE FallbackGroup ----------------------------
(***************************************************************************)
(* Router::exchange_group (NativeDNS.Core/src/router.cpp:97-219): how the  *)
(* handlers of one routing snapshot ask a group of upstream servers.  The  *)
(* group of a primary is its transitive fallbacks; its members share a     *)
(* health table (circuit breaker and latency) that every concurrent query  *)
(* reads and writes under Snapshot::health_mutex, in separate critical     *)
(* sections before and after each exchange.                                *)
(*                                                                         *)
(* One network route is modelled, so a health key is a server.  Time is in *)
(* abstract ticks; the exchange itself is nondeterministic and external,   *)
(* but every transport gives up at the timeout it is handed.               *)
(***************************************************************************)
EXTENDS Integers, FiniteSets, SequencesExt

CONSTANTS
  Threads,     \* handlers
  Servers,     \* configured servers
  Primaries,   \* servers that rules select
  Fallbacks,   \* [Servers -> sequence of servers]: fallback_ids
  Enabled,     \* servers with the enabled flag
  Timeout,     \* [Servers -> ticks]: timeout_ms
  MaxBudget,   \* 120000 ms for one query
  OpenTime,    \* 30 s, the first time a circuit is open
  MaxShift,    \* 3: a circuit is open for OpenTime * 2^MaxShift at most
  MaxHealth,   \* 8192 health entries
  Unobserved,  \* no latency was measured yet
  Overlapping, \* bound of the model: primaries whose queries overlap
  MaxTime,     \* bound of the model: the clock stops here
  MaxFailures  \* bound of the model: consecutive failures of one server

ASSUME FallbackGroupConstants ==
  /\ Overlapping \subseteq Primaries /\ Primaries \subseteq Servers /\ Enabled \subseteq Servers
  /\ Fallbacks \in [Servers -> Seq(Servers)]
  /\ Timeout \in [Servers -> Nat \ {0}]
  /\ {MaxBudget, OpenTime, MaxHealth} \subseteq Nat \ {0}
  /\ {MaxTime, MaxFailures} \subseteq Nat /\ MaxShift \in 0..3
  /\ Unobserved \notin Nat
  /\ IsFiniteSet(Servers)

VARIABLES
  now,     \* steady clock
  health,  \* [Servers -> ServerHealth]
  known,   \* servers with an entry in the health map
  query,   \* [Threads -> the query it serves]; history: asked, the members asked
  overlap  \* bound of the model: queries overlap, of some primaries, or none do

vars == <<now, health, known, query, overlap>>

Healthy == [failures |-> 0, retry |-> 0, latency |-> Unobserved]
Idle == [at |-> "idle"]

Least(a, b) == IF a < b THEN a ELSE b

-----------------------------------------------------------------------------
(* The members of a group and their order.                                 *)

\* A loop of `rounds` rounds: step[n][x] is what the n-th makes of x.
Iterate(step, start, rounds) ==
  LET after[n \in 0..rounds] == IF n = 0 THEN start ELSE step[n][after[n - 1]]
  IN  after[rounds]

\* The calls of append that one group can cause beside that for its primary
Calls == UNION {{s} \X DOMAIN Fallbacks[s] : s \in Servers}

\* One call: a server that is new is a candidate, if it is enabled, and its
\* fallbacks are next.
Visits == [ahead : Seq(Servers), added : SUBSET Servers, candidates : Seq(Servers)]
Visit(v) ==
  LET s == Head(v.ahead) IN
  IF v.ahead = <<>> THEN v
  ELSE IF s \in v.added THEN [v EXCEPT !.ahead = Tail(@)]
  ELSE [ahead |-> Fallbacks[s] \o Tail(v.ahead), added |-> v.added \union {s},
        candidates |-> IF s \in Enabled THEN Append(v.candidates, s) ELSE v.candidates]

\* The enabled among the primary and its fallbacks in depth-first order, each once
Members(primary) ==
  Iterate([n \in 1..Cardinality(Calls) + 1 |-> [v \in Visits |-> Visit(v)]],
          [ahead |-> <<primary>>, added |-> {}, candidates |-> <<>>],
          Cardinality(Calls) + 1).candidates

Budget(members) ==
  Iterate([n \in 1..Len(members) |-> [sum \in Nat |-> Least(MaxBudget, sum + Timeout[members[n]])]],
          0, Len(members))

Ready(h, s) == h[s].retry <= now
Probe(h, s) == h[s].failures >= 2 /\ Ready(h, s)

\* Mutant of Before: an expired circuit has no precedence.
BeforeNoProbe(h, members, a, b) ==
  LET anyReady == \E s \in ToSet(members) : Ready(h, s)
      open(s) == anyReady /\ ~Ready(h, s)
  IN  IF open(a) # open(b) THEN open(b)
      ELSE /\ Unobserved \notin {h[a].latency, h[b].latency}
           /\ h[a].latency < h[b].latency

\* The comparison handed to std::stable_sort
Before(h, members, a, b) ==
  LET anyReady == \E s \in ToSet(members) : Ready(h, s)
      open(s) == anyReady /\ ~Ready(h, s)
  IN  IF open(a) # open(b) THEN open(b)
      ELSE IF Probe(h, a) # Probe(h, b) THEN Probe(h, a)
      ELSE /\ Unobserved \notin {h[a].latency, h[b].latency}
           /\ h[a].latency < h[b].latency

\* External: std::stable_sort of a short range is an insertion sort.  A member
\* goes to the front when it precedes the first, else behind the last member
\* it does not precede.
Place(h, members, sorted, x) ==
  LET stays == {i \in 1..Len(sorted) : ~Before(h, members, x, sorted[i])}
  IN  IF sorted = <<>> \/ 1 \notin stays THEN <<x>> \o sorted
      ELSE InsertAt(sorted, Max(stays) + 1, x)

Ranked(h, members) ==
  Iterate([n \in 1..Len(members) |->
             [sorted \in Seq(Servers) |-> Place(h, members, sorted, members[n])]],
          <<>>, Len(members))

-----------------------------------------------------------------------------
Init ==
  /\ now = 0
  /\ health = [s \in Servers |-> Healthy]
  /\ known = {}
  /\ query = [t \in Threads |-> Idle]
  /\ overlap \in BOOLEAN

\* The query returns: an answer, CANCELLED, SERVER_DISABLED or the last error.
Return(t) == query' = [query EXCEPT ![t] = Idle]

\* The first critical section: bound the table, enter the members, sort.
Begin(t, primary) ==
  LET members == Members(primary)
      full == Cardinality(known) + Len(members) > MaxHealth
      h == IF full THEN [s \in Servers |-> Healthy] ELSE health
  IN
  /\ query[t].at = "idle" /\ Fallbacks[primary] # <<>>
  /\ IF overlap THEN primary \in Overlapping ELSE \A u \in Threads : query[u].at = "idle"
  /\ IF members = <<>>
     THEN Return(t) /\ UNCHANGED <<health, known>>
     ELSE /\ health' = h
          /\ known' = (IF full THEN {} ELSE known) \union ToSet(members)
          /\ query' = [query EXCEPT ![t] =
               [at |-> "choose", order |-> Ranked(h, members), next |-> 1,
                deadline |-> now + Budget(members), asked |-> {}]]
  /\ UNCHANGED <<now, overlap>>

Candidate(t) == query[t].order[query[t].next]
Exhausted(t) == query[t].next > Len(query[t].order) \/ now >= query[t].deadline

\* Mutant of PassesOver: the candidate itself counts as another ready member.
PassesOverAny(t) == \E s \in ToSet(query[t].order) : Ready(health, s)

\* A member with an open circuit is passed over while another is ready.
PassesOver(t) ==
  /\ ~Ready(health, Candidate(t))
  /\ \E s \in ToSet(query[t].order) \ {Candidate(t)} : Ready(health, s)

\* The attempt's timeout is cut to what is left of the aggregate deadline.
AttemptEnd(t) == now + Least(Timeout[Candidate(t)], query[t].deadline - now)

\* One round of the loop up to the exchange.
Choose(t) ==
  /\ query[t].at = "choose"
  /\ IF Exhausted(t) THEN Return(t)
     ELSE IF PassesOver(t)
     THEN query' = [query EXCEPT ![t].next = @ + 1]
     ELSE query' = [query EXCEPT ![t] =
            [at |-> "exchange", order |-> @.order, next |-> @.next, deadline |-> @.deadline,
             asked |-> @.asked \union {Candidate(t)}, began |-> now, ends |-> AttemptEnd(t)]]
  /\ known' = IF Exhausted(t) THEN known ELSE known \union ToSet(query[t].order)
  /\ UNCHANGED <<now, health, overlap>>

\* The EWMA of the round trip time
Smoothed(old, rtt) == IF old = Unobserved THEN rtt ELSE (4 * old + rtt) \div 5

Succeed(t) ==
  /\ query[t].at = "exchange"
  /\ health' = [health EXCEPT ![Candidate(t)] =
       [failures |-> 0, retry |-> 0, latency |-> Smoothed(@.latency, now - query[t].began)]]
  /\ known' = known \union {Candidate(t)}
  /\ Return(t)
  /\ UNCHANGED <<now, overlap>>

\* Mutant of Backoff: the exponent is not capped.
BackoffUncapped(failures) == OpenTime * 2^(failures - 2)

Backoff(failures) == OpenTime * 2^Least(failures - 2, MaxShift)

Fail(t) ==
  LET s == Candidate(t)
      failures == health[s].failures + 1
  IN
  /\ query[t].at = "exchange" /\ failures <= MaxFailures
  /\ health' = [health EXCEPT ![s].failures = failures,
       ![s].retry = IF failures >= 2 THEN now + Backoff(failures) ELSE @]
  /\ known' = known \union {s}
  /\ query' = [query EXCEPT ![t] =
       [at |-> "choose", order |-> @.order, next |-> @.next + 1, deadline |-> @.deadline,
        asked |-> @.asked]]
  /\ UNCHANGED <<now, overlap>>

\* CANCELLED leaves the loop and the health table alone.
Cancel(t) ==
  /\ query[t].at = "exchange"
  /\ Return(t)
  /\ UNCHANGED <<now, health, known, overlap>>

\* External: a transport ends at its timeout.
Tick ==
  /\ now < MaxTime
  /\ \A t \in Threads : query[t].at = "exchange" => now < query[t].ends
  /\ now' = now + 1
  /\ UNCHANGED <<health, known, query, overlap>>

Serve(t) ==
  Choose(t) \/ Succeed(t) \/ Fail(t) \/ Cancel(t)

Next ==
  \/ \E t \in Threads, p \in Primaries : Begin(t, p)
  \/ \E t \in Threads : Serve(t)
  \/ Tick

Spec == Init /\ [][Next]_vars

-----------------------------------------------------------------------------
(* "Two consecutive failures open a per-server circuit ... with capped     *)
(* exponential backoff": whatever the interleaving of successes and        *)
(* failures of concurrent queries, an open circuit has seen two failures   *)
(* in a row and opens for at most OpenTime * 2^MaxShift.                   *)
CircuitSound ==
  \A s \in Servers :
    ~Ready(health, s) => /\ health[s].failures >= 2
                         /\ health[s].retry <= now + OpenTime * 2^MaxShift

(* "an expired circuit receives a recovery probe": the group query that    *)
(* begins next asks a member whose circuit has expired before every member *)
(* that is not itself due for a probe.                                     *)
ProbesFirst ==
  [][\A t \in Threads :
       query[t].at = "idle" /\ query'[t].at = "choose" =>
         LET order == query'[t].order IN
         \A i, j \in 1..Len(order) :
           Probe(health', order[i]) /\ ~Probe(health', order[j]) => i < j]_vars

(* A member is passed over only for another one that may be asked: a query *)
(* that gives up before its deadline has asked a member, whatever earlier  *)
(* queries left in the health table (router.cpp:157-170).  It holds of a   *)
(* query that no other one overlaps: the table it consults in separate     *)
(* critical sections may change under concurrent ones.                     *)
AsksSomeone ==
  [][\A t \in Threads :
       /\ query[t].at = "choose" /\ query'[t].at = "idle"
       /\ ~overlap /\ now < query[t].deadline
       => query[t].asked # {}]_vars

(* "Transport failures advance to another enabled member within a bounded  *)
(* aggregate deadline" (docs/DNS_TRANSPORTS.md:119): a query that gives up *)
(* before its deadline after a failure has asked every enabled member.     *)
FailureAdvances ==
  [][\A t \in Threads :
       /\ query[t].at = "choose" /\ query'[t].at = "idle"
       /\ query[t].asked # {} /\ now < query[t].deadline
       => query[t].asked = ToSet(query[t].order)]_vars
=============================================================================
