----------------------------- MODULE QueryCache -----------------------------
(***************************************************************************)
(* The query path of nd::Router (NativeDNS.Core/src/router.cpp): immutable *)
(* configuration snapshots, each with its own reply cache and its own map  *)
(* of in-flight queries; coalescing of byte-equivalent queries behind one  *)
(* leader; the lazily created transports; cancellation when the            *)
(* interception provider stops and the fresh token and snapshot when it    *)
(* starts again (platform/linux/local_proxy.cpp start and stop).           *)
(*                                                                         *)
(* A thread is a handler of the provider's executor: it serves one query   *)
(* at a time.  The critical sections of Snapshot::cache_mutex and of       *)
(* Router::transport_mutex_ are single actions.  A query's transaction ID  *)
(* is represented by the thread that carries it.  What the upstream group  *)
(* answers is nondeterministic here; FallbackGroup models how it is asked. *)
(***************************************************************************)
EXTENDS Integers, FiniteSets

CONSTANTS
  Threads,       \* handler threads of the provider
  Nobody,        \* no thread leads this key
  Questions,     \* DNS questions (the request bytes after the transaction ID)
  Bytes,         \* [Questions -> Nat]: packet plus key size of a reply
  Ttls,          \* record TTLs an upstream may send
  Forms,         \* kinds of reply an upstream may send, see AllForms
  SoaMinimum,    \* MINIMUM field of the SOA record of a negative reply
  TtlMin, TtlMax,\* RuntimeOptions of the configuration
  MaxCacheTtl,   \* 86400 seconds in exchange_cached
  MaxEntries,    \* 4096 cache entries
  MaxBytes,      \* 32 MiB of cached packets and keys
  MaxPending,    \* 256 distinct queries in flight
  WaitLimit,     \* 120 seconds a coalesced query waits
  Second,        \* ticks of the steady clock in a second
  MaxTime,       \* bound of the model: the clock stops here
  MaxGeneration, \* bound of the model: network changes
  MaxSnapshots   \* bound of the model: reloads and restarts

\* plain: clamped and cacheable; secure: RRSIG or AD, never clamped;
\* negative: NXDOMAIN or NODATA, whose SOA MINIMUM limits the cache lifetime;
\* oneshot: never cacheable (another RCODE, TSIG, a zone transfer).  Every
\* transport rejects a truncated reply, so none reaches the router.
AllForms == {"plain", "secure", "negative", "oneshot"}

ASSUME QueryCacheConstants ==
  /\ Forms \subseteq AllForms
  /\ Nobody \notin Threads
  /\ Questions # {}
  /\ Bytes \in [Questions -> Nat]
  /\ Ttls \subseteq Nat
  /\ {SoaMinimum, TtlMin, TtlMax, MaxCacheTtl} \subseteq Nat
  /\ {MaxEntries, MaxBytes, WaitLimit} \subseteq Nat
  /\ {Second, MaxTime, MaxGeneration, MaxSnapshots, MaxPending} \subseteq Nat \ {0}
  /\ TtlMin <= TtlMax
  /\ IsFiniteSet(Threads)

VARIABLES
  now,        \* steady clock, in ticks, as all times below; TTLs are in seconds
  generation, \* NetworkMonitor generation
  provider,   \* lifecycle of the interception provider
  current,    \* snapshot_: the snapshot new queries take
  token,      \* cancellation_: the stop source new queries take
  stopped,    \* the stop sources on which request_stop was called
  cancelling, \* progress of the last Router::cancel_pending
  transports, \* transports_ holds an instance
  cache,      \* [snapshot -> set of cache entries]
  cacheBytes, \* [snapshot -> Snapshot::cache_bytes]
  pending,    \* [snapshot -> [key -> leading thread or Nobody]]
  pc, snap, tok, key, waitUntil, \* the query each thread serves
  outcome     \* what the query has been given so far, or its result

router == <<current, token, stopped, cancelling, transports>>
store == <<cache, cacheBytes, pending>>
threads == <<pc, snap, tok, key, waitUntil, outcome>>
vars == <<now, generation, provider, router, store, threads>>

Snapshots == 1..MaxSnapshots
Generations == 1..MaxGeneration
\* The cache key: route key with its generation, and the request bytes.
Keys == [q : Questions, gen : Generations]

\* src is a history field: the snapshot and generation that fetched the reply.
Packets == [id : Threads, q : Questions, ttl : Nat, form : Forms,
            src : [snap : Snapshots, gen : Generations]]
Entries == [key : Keys, pkt : Packets, stored : Nat, expires : Nat, bytes : Nat]

\* UPSTREAM stands for every nd::Error of the upstream group; any other
\* exception is published as INTERNAL.
Codes == {"CANCELLED", "TIMEOUT", "UPSTREAM_BUSY", "UPSTREAM", "INTERNAL"}
NoOutcome == [type |-> "none"]
Reply(p) == [type |-> "reply", pkt |-> p]
Failure(c) == [type |-> "error", code |-> c]
Outcomes == {NoOutcome} \union [type : {"reply"}, pkt : Packets]
                        \union [type : {"error"}, code : Codes]

LeaderPcs == {"check", "acquire", "upstream", "publish"}
Pcs == LeaderPcs \union {"idle", "lookup", "wait"}

-----------------------------------------------------------------------------
(* DNS packet operations the path uses (dns_packet.cpp).                   *)

Max2(a, b) == IF a > b THEN a ELSE b
Min2(a, b) == IF a < b THEN a ELSE b

\* Mutant of Aged: the transaction ID is not rewritten.
AgedKeepsId(p, id, elapsed) == [p EXCEPT !.ttl = Max2(0, @ - elapsed)]

\* age_dns_response
Aged(p, id, elapsed) == [p EXCEPT !.id = id, !.ttl = Max2(0, @ - elapsed)]

\* clamp_dns_ttl leaves authenticated and signed replies alone.
Clamped(p) ==
  IF p.form = "secure" THEN p
  ELSE [p EXCEPT !.ttl = Max2(TtlMin, Min2(@, TtlMax))]

\* DnsAnswer::cache_ttl and DnsAnswer::cacheable, from parse_response
CacheTtl(p) == IF p.form = "negative" THEN Min2(p.ttl, SoaMinimum) ELSE p.ttl
Cacheable(p) == p.form # "oneshot" /\ CacheTtl(p) > 0

-----------------------------------------------------------------------------
Init ==
  /\ now = 0 /\ generation = 1 /\ provider = "running"
  /\ current = 1 /\ token = 1 /\ stopped = {}
  /\ cancelling = "none" /\ transports = FALSE
  /\ cache = [s \in Snapshots |-> {}]
  /\ cacheBytes = [s \in Snapshots |-> 0]
  /\ pending = [s \in Snapshots |-> [k \in Keys |-> Nobody]]
  /\ pc = [t \in Threads |-> "idle"]
  /\ snap = [t \in Threads |-> 1]
  /\ tok = [t \in Threads |-> 1]
  /\ key = [t \in Threads |-> CHOOSE k \in Keys : TRUE]
  /\ waitUntil = [t \in Threads |-> 0]
  /\ outcome = [t \in Threads |-> NoOutcome]

-----------------------------------------------------------------------------
(* Router::route up to exchange_cached: take the snapshot, the             *)
(* cancellation token and the network generation.  The two loads are one   *)
(* step: a Start, the only writer of both, needs every handler joined.  A  *)
(* job that was queued before the stop may still begin until the executor  *)
(* clears its queue.                                                       *)
Begin(t, q) ==
  /\ provider \in {"running", "draining"} /\ pc[t] = "idle"
  /\ pc' = [pc EXCEPT ![t] = "lookup"]
  /\ snap' = [snap EXCEPT ![t] = current]
  /\ tok' = [tok EXCEPT ![t] = token]
  /\ key' = [key EXCEPT ![t] = [q |-> q, gen |-> generation]]
  /\ outcome' = [outcome EXCEPT ![t] = NoOutcome]
  /\ UNCHANGED <<now, generation, provider, router, store, waitUntil>>

\* Mutant of Fresh: an entry lives one instant too long.
FreshInclusive(entries) == {e \in entries : e.expires >= now}

Fresh(entries) == {e \in entries : e.expires > now}
\* The bytes of the packets and keys of entries, each one its own.
Octets(entries) == UNION {{e} \X (1..e.bytes) : e \in entries}
Total(entries) == Cardinality(Octets(entries))
InFlight(s) == {k \in Keys : pending[s][k] # Nobody}

\* The first critical section of cache_mutex drops every expired entry.
PurgeExpired(s) ==
  /\ cache' = [cache EXCEPT ![s] = Fresh(@)]
  /\ cacheBytes' = [cacheBytes EXCEPT ![s] = @ - Total(cache[s] \ Fresh(cache[s]))]

\* duration_cast drops the part of a second.
Elapsed(e) == (now - e.stored) \div Second

Hit(t, e) ==
  /\ e.key = key[t]
  /\ outcome' = [outcome EXCEPT ![t] = Reply(Aged(e.pkt, t, Elapsed(e)))]
  /\ pc' = [pc EXCEPT ![t] = "idle"]
  /\ UNCHANGED <<pending, waitUntil>>

Join(t) ==
  /\ pending[snap[t]][key[t]] # Nobody
  /\ pc' = [pc EXCEPT ![t] = "wait"]
  /\ waitUntil' = [waitUntil EXCEPT ![t] = now + (Second * WaitLimit)]
  /\ UNCHANGED <<pending, outcome>>

Busy(t) ==
  /\ pending[snap[t]][key[t]] = Nobody
  /\ Cardinality(InFlight(snap[t])) >= MaxPending
  /\ outcome' = [outcome EXCEPT ![t] = Failure("UPSTREAM_BUSY")]
  /\ pc' = [pc EXCEPT ![t] = "idle"]
  /\ UNCHANGED <<pending, waitUntil>>

\* Mutant of Lead: the lookup of a query in flight is not consulted.
LeadAlways(t) ==
  /\ Cardinality(InFlight(snap[t])) < MaxPending
  /\ pending' = [pending EXCEPT ![snap[t]][key[t]] = t]
  /\ pc' = [pc EXCEPT ![t] = "check"]
  /\ UNCHANGED <<outcome, waitUntil>>

Lead(t) ==
  /\ pending[snap[t]][key[t]] = Nobody
  /\ Cardinality(InFlight(snap[t])) < MaxPending
  /\ pending' = [pending EXCEPT ![snap[t]][key[t]] = t]
  /\ pc' = [pc EXCEPT ![t] = "check"]
  /\ UNCHANGED <<outcome, waitUntil>>

Lookup(t) ==
  LET fresh == Fresh(cache[snap[t]])
  IN
  /\ pc[t] = "lookup"
  /\ PurgeExpired(snap[t])
  /\ \/ \E e \in fresh : Hit(t, e)
     \/ /\ \A e \in fresh : e.key # key[t]
        /\ Join(t) \/ Busy(t) \/ Lead(t)
  /\ UNCHANGED <<now, generation, provider, router, snap, tok, key>>

-----------------------------------------------------------------------------
(* The leader: Router::exchange, the upstream group, publication.          *)

\* Mutant of Cancelled: one flag for every session instead of the query's token.
CancelledGlobally(t) == stopped # {}

Cancelled(t) == tok[t] \in stopped

\* check_cancelled before the transport mutex is taken
Check(t) ==
  /\ pc[t] = "check"
  /\ IF Cancelled(t)
     THEN /\ pc' = [pc EXCEPT ![t] = "publish"]
          /\ outcome' = [outcome EXCEPT ![t] = Failure("CANCELLED")]
     ELSE /\ pc' = [pc EXCEPT ![t] = "acquire"]
          /\ UNCHANGED outcome
  /\ UNCHANGED <<now, generation, provider, router, store, snap, tok, key, waitUntil>>

\* Mutant of Acquire: the token is not checked again under the mutex.
AcquireUnchecked(t) ==
  /\ pc[t] = "acquire"
  /\ pc' = [pc EXCEPT ![t] = "upstream"]
  /\ transports' = TRUE
  /\ UNCHANGED <<now, generation, provider, current, token, stopped, cancelling,
                 store, snap, tok, key, waitUntil, outcome>>

\* Under transport_mutex_: check_cancelled again, then create on demand.
Acquire(t) ==
  /\ pc[t] = "acquire"
  /\ IF Cancelled(t)
     THEN /\ pc' = [pc EXCEPT ![t] = "publish"]
          /\ outcome' = [outcome EXCEPT ![t] = Failure("CANCELLED")]
          /\ UNCHANGED transports
     ELSE /\ pc' = [pc EXCEPT ![t] = "upstream"]
          /\ transports' = TRUE
          /\ UNCHANGED outcome
  /\ UNCHANGED <<now, generation, provider, current, token, stopped, cancelling,
                 store, snap, tok, key, waitUntil>>

\* The reply has been clamped and has passed parse_response: it answers the
\* question and carries the leader's transaction ID.
Answers(t) ==
  {Reply(Clamped([id |-> t, q |-> key[t].q, ttl |-> ttl, form |-> form,
                  src |-> [snap |-> snap[t], gen |-> key[t].gen]])) :
     ttl \in Ttls, form \in Forms}

UpstreamResults(t) ==
  Answers(t) \union {Failure("UPSTREAM"), Failure("INTERNAL")}
             \union (IF Cancelled(t) THEN {Failure("CANCELLED")} ELSE {})

Upstream(t) ==
  /\ pc[t] = "upstream"
  /\ \E result \in UpstreamResults(t) : outcome' = [outcome EXCEPT ![t] = result]
  /\ pc' = [pc EXCEPT ![t] = "publish"]
  /\ UNCHANGED <<now, generation, provider, router, store, snap, tok, key, waitUntil>>

\* The eviction loop stops when the new entry fits or nothing is left.
Fits(s, kept, bytes) ==
  \/ kept = {}
  \/ /\ Cardinality(kept) < MaxEntries
     /\ cacheBytes[s] - Total(cache[s] \ kept) + bytes <= MaxBytes

\* evicted is what the loop removes: earliest expiry first, and no entry
\* once the rest fits.
Evicts(s, evicted, bytes) ==
  /\ Fits(s, cache[s] \ evicted, bytes)
  /\ \A e \in evicted, k \in cache[s] \ evicted : e.expires <= k.expires
  /\ evicted # {} =>
       \E last \in evicted :
         /\ \A e \in evicted : e.expires <= last.expires
         /\ ~Fits(s, (cache[s] \ evicted) \union {last}, bytes)

EntryFor(t, p) ==
  [key |-> key[t], pkt |-> p, stored |-> now,
   expires |-> now + (Second * Min2(CacheTtl(p), MaxCacheTtl)), bytes |-> Bytes[key[t].q]]

\* Mutant of Insert: the size of an evicted entry is not given back.
InsertLeaks(s, e, evicted) ==
  /\ cache' = [cache EXCEPT ![s] = {x \in @ \ evicted : x.key # e.key} \union {e}]
  /\ cacheBytes' = [cacheBytes EXCEPT ![s] = @ + e.bytes]

\* snapshot.cache[key] = entry; cache_bytes += entry_bytes
Insert(s, e, evicted) ==
  /\ cache' = [cache EXCEPT ![s] = {x \in @ \ evicted : x.key # e.key} \union {e}]
  /\ cacheBytes' = [cacheBytes EXCEPT ![s] = @ - Total(evicted) + e.bytes]

StoreReply(t, p) ==
  LET s == snap[t] IN
  IF Cacheable(p)
  THEN \E evicted \in SUBSET cache[s] :
         /\ Evicts(s, evicted, Bytes[key[t].q])
         /\ Insert(s, EntryFor(t, p), evicted)
  ELSE UNCHANGED <<cache, cacheBytes>>

\* The followers of t's Pending object that have not been woken yet.
Followers(t) ==
  {f \in Threads : /\ pc[f] = "wait" /\ outcome[f] = NoOutcome
                   /\ snap[f] = snap[t] /\ key[f] = key[t]}

\* Mutant of Publish: only a reply reaches the followers, an error does not.
PublishForgetsErrors(t) ==
  /\ pc[t] = "publish"
  /\ IF outcome[t].type = "reply"
     THEN /\ StoreReply(t, outcome[t].pkt)
          /\ outcome' = [f \in Threads |-> IF f \in Followers(t) THEN outcome[t] ELSE outcome[f]]
     ELSE UNCHANGED <<cache, cacheBytes, outcome>>
  /\ pending' = [pending EXCEPT ![snap[t]][key[t]] = Nobody]
  /\ pc' = [pc EXCEPT ![t] = "idle"]
  /\ UNCHANGED <<now, generation, provider, router, snap, tok, key, waitUntil>>

\* The second critical section: store the reply, publish it through the
\* Pending object, erase the object from the map.
Publish(t) ==
  /\ pc[t] = "publish"
  /\ IF outcome[t].type = "reply"
     THEN StoreReply(t, outcome[t].pkt)
     ELSE UNCHANGED <<cache, cacheBytes>>
  /\ outcome' = [f \in Threads |-> IF f \in Followers(t) THEN outcome[t] ELSE outcome[f]]
  /\ pending' = [pending EXCEPT ![snap[t]][key[t]] = Nobody]
  /\ pc' = [pc EXCEPT ![t] = "idle"]
  /\ UNCHANGED <<now, generation, provider, router, snap, tok, key, waitUntil>>

-----------------------------------------------------------------------------
(* A coalesced follower (wait_until_change polls its token every 100 ms).  *)

Shared(t, o) == IF o.type = "reply" THEN Reply(Aged(o.pkt, t, 0)) ELSE o

FollowerEnds(t, result) ==
  /\ pc[t] = "wait"
  /\ pc' = [pc EXCEPT ![t] = "idle"]
  /\ outcome' = [outcome EXCEPT ![t] = result]
  /\ waitUntil' = [waitUntil EXCEPT ![t] = 0]
  /\ UNCHANGED <<now, generation, provider, router, store, snap, tok, key>>

\* After every wait: the token first, then the deadline, then pending->done.
Wake(t) ==
  /\ ~Cancelled(t) /\ now < waitUntil[t] /\ outcome[t] # NoOutcome
  /\ FollowerEnds(t, Shared(t, outcome[t]))
WaitTimeout(t) ==
  ~Cancelled(t) /\ now >= waitUntil[t] /\ FollowerEnds(t, Failure("TIMEOUT"))
\* Mutant of WaitCancelled: the token is looked at only when the wait ends.
WaitCancelledLate(t) ==
  Cancelled(t) /\ now >= waitUntil[t] /\ FollowerEnds(t, Failure("CANCELLED"))
WaitCancelled(t) == Cancelled(t) /\ FollowerEnds(t, Failure("CANCELLED"))

-----------------------------------------------------------------------------
(* Lifecycle of the provider and of the routing snapshot.                  *)

Tick ==
  /\ now < MaxTime /\ now' = now + 1
  /\ UNCHANGED <<generation, provider, router, store, threads>>

\* NetworkMonitor::refresh publishes a new generation
NetworkChange ==
  /\ generation < MaxGeneration /\ generation' = generation + 1
  /\ UNCHANGED <<now, provider, router, store, threads>>

\* A snapshot is constructed with an empty cache and no query in flight.
NewSnapshot ==
  /\ current < MaxSnapshots /\ current' = current + 1
  /\ UNCHANGED store

\* Router::reload of a valid configuration
Reload ==
  /\ NewSnapshot
  /\ UNCHANGED <<now, generation, provider, token, stopped, cancelling, transports, threads>>

\* cancel_pending: request_stop, then drop the transports under their mutex
RequestStop ==
  /\ provider = "running" /\ cancelling = "none"
  /\ stopped' = stopped \union {token}
  /\ cancelling' = "requested"
  /\ UNCHANGED <<now, generation, provider, current, token, transports, store, threads>>

DropTransports ==
  /\ cancelling = "requested"
  /\ transports' = FALSE
  /\ cancelling' = "dropped"
  /\ UNCHANGED <<now, generation, provider, current, token, stopped, store, threads>>

\* LocalProxy::stop after cancel_pending: running = false
StopAccepting ==
  /\ provider = "running" /\ cancelling = "dropped"
  /\ provider' = "draining"
  /\ UNCHANGED <<now, generation, router, store, threads>>

\* BoundedExecutor::stop sets stopping_ and clears the queued jobs ...
ClearQueue ==
  /\ provider = "draining"
  /\ provider' = "stopping"
  /\ UNCHANGED <<now, generation, router, store, threads>>

\* ... and joins every handler.
JoinHandlers ==
  /\ provider = "stopping"
  /\ \A t \in Threads : pc[t] = "idle"
  /\ provider' = "stopped"
  /\ UNCHANGED <<now, generation, router, store, threads>>

\* LocalProxy::start with Router::resume: a fresh stop source and a fresh
\* snapshot of the same configuration
Start ==
  /\ provider = "stopped"
  /\ provider' = "running"
  /\ NewSnapshot
  /\ token' = token + 1
  /\ cancelling' = "none"
  /\ UNCHANGED <<now, generation, stopped, transports, threads>>

-----------------------------------------------------------------------------
Serve(t) ==
  \/ Lookup(t) \/ Check(t) \/ Acquire(t) \/ Upstream(t) \/ Publish(t)
  \/ Wake(t) \/ WaitTimeout(t) \/ WaitCancelled(t)

Next ==
  \/ \E t \in Threads, q \in Questions : Begin(t, q)
  \/ \E t \in Threads : Serve(t)
  \/ Tick \/ NetworkChange \/ Reload
  \/ RequestStop \/ DropTransports \/ StopAccepting \/ ClearQueue
  \/ JoinHandlers \/ Start

Spec == Init /\ [][Next]_vars

\* Handlers run on their own OS threads and every upstream exchange has a
\* deadline, so a query that can take a step takes one; so does a stop that
\* was begun.  Nothing obliges clients, the clock or the network.
Fairness ==
  /\ \A t \in Threads : WF_vars(Serve(t))
  /\ WF_vars(DropTransports) /\ WF_vars(StopAccepting)
  /\ WF_vars(ClearQueue) /\ WF_vars(JoinHandlers)

FairSpec == Spec /\ Fairness

-----------------------------------------------------------------------------
(* Every variable keeps its type; BytesExact types cacheBytes.  In         *)
(* particular every published failure carries one of the router's codes    *)
(* (router.cpp:318-337), which the followers test for emptiness.           *)
TypeOK ==
  /\ now \in Nat /\ generation \in Generations
  /\ provider \in {"running", "draining", "stopping", "stopped"}
  /\ current \in Snapshots /\ token \in Nat /\ stopped \subseteq Nat
  /\ cancelling \in {"none", "requested", "dropped"} /\ transports \in BOOLEAN
  /\ cache \in [Snapshots -> SUBSET Entries]
  /\ pending \in [Snapshots -> [Keys -> Threads \union {Nobody}]]
  /\ pc \in [Threads -> Pcs] /\ snap \in [Threads -> Snapshots]
  /\ tok \in [Threads -> Nat] /\ key \in [Threads -> Keys]
  /\ waitUntil \in [Threads -> Nat] /\ outcome \in [Threads -> Outcomes]

(* Coalescing (exchange_cached, router.cpp:258-267): the in-flight map and *)
(* the threads that are exchanging upstream agree exactly, so no two       *)
(* queries for one key of one snapshot are ever upstream at the same time. *)
SingleFlight ==
  /\ \A s \in Snapshots, k \in Keys :
       LET t == pending[s][k] IN
       t # Nobody => pc[t] \in LeaderPcs /\ snap[t] = s /\ key[t] = k
  /\ \A t \in Threads :
       pc[t] \in LeaderPcs => pending[snap[t]][key[t]] = t

(* A coalesced query that has been given nothing yet has a leader that     *)
(* will still publish: no path of the leader (reply, upstream error,       *)
(* cancellation) erases the Pending object without waking its followers    *)
(* (router.cpp:311-337).                                                   *)
NoOrphanWaiter ==
  \A t \in Threads :
    pc[t] = "wait" /\ outcome[t] = NoOutcome =>
      \E l \in Threads : pending[snap[t]][key[t]] = l /\ pc[l] \in LeaderPcs

(* The bound on distinct queries in flight holds per snapshot              *)
(* (router.cpp:262), across every interleaving of lookups.                 *)
PendingBounded == \A s \in Snapshots : Cardinality(InFlight(s)) <= MaxPending

(* Coalescing as a whole: one exchange per key, no follower without a      *)
(* leader, no more exchanges than the limit.                               *)
Coalesced == SingleFlight /\ NoOrphanWaiter /\ PendingBounded

(* Snapshot::cache_bytes, maintained incrementally by expiry, eviction and *)
(* insertion (router.cpp:244, 303, 309), is always the real size of the    *)
(* cache, so the eviction bound never drifts.  It relies on there being at *)
(* most one publisher per key: an overwritten entry would be counted       *)
(* twice.                                                                  *)
BytesExact == \A s \in Snapshots : cacheBytes[s] = Total(cache[s])

(* The cache respects both of its limits (router.cpp:293); only a single   *)
(* reply that is larger than the whole budget may exceed the byte limit.   *)
CacheBounded ==
  \A s \in Snapshots :
    /\ Cardinality(cache[s]) <= Max2(MaxEntries, 1)
    /\ cacheBytes[s] <= MaxBytes \/ Cardinality(cache[s]) = 1

(* The accounts are exact and the limits they serve hold.                  *)
CacheAccounted == BytesExact /\ CacheBounded

(* A finished query that got a reply got one for its own question and      *)
(* transaction ID, fetched by the configuration snapshot it started with   *)
(* and under the network generation it observed, whether the reply came    *)
(* from upstream, from the cache or from another query (router.cpp:226-235,*)
(* 255, 278; "later queries use the new one" after a reload).              *)
ReplyBelongsToQuery ==
  \A t \in Threads :
    pc[t] = "idle" /\ outcome[t].type = "reply" =>
      LET p == outcome[t].pkt IN
      /\ p.id = t /\ p.q = key[t].q
      /\ p.src = [snap |-> snap[t], gen |-> key[t].gen]

(* Once cancel_pending has dropped the transports no cancelled query can   *)
(* bring one back: exchange checks the token again under the transport     *)
(* mutex (router.cpp:68-72, 89-94).                                        *)
TransportsReleased == cancelling = "dropped" => ~transports

(* A query reports CANCELLED only if its own stop source was stopped: a    *)
(* query that started after a restart never inherits the cancellation of   *)
(* an earlier session through the cache or through a leader.               *)
CancelledOnlyWhenStopped ==
  \A t \in Threads : outcome[t] = Failure("CANCELLED") => tok[t] \in stopped

\* Entry e answers query t in this step with what is left of its TTL, rounded up
\* to whole seconds.
ServedFrom(e, t) ==
  LET served == now + (Second * outcome'[t].pkt.ttl)
      ends   == e.stored + (Second * e.pkt.ttl)
  IN /\ e.key = key[t] /\ now < e.expires
     /\ outcome'[t].pkt.ttl > 0
     /\ ends <= served /\ served < ends + Second

\* A lookup that ends the query with a reply served it from a live entry.
LookupServesFresh ==
  \A t \in Threads :
    pc[t] = "lookup" /\ pc'[t] = "idle" /\ outcome'[t].type = "reply"
      => \E e \in cache[snap[t]] : ServedFrom(e, t)

(* A cache hit is served strictly before its entry expires and is aged:    *)
(* the TTL the client gets is positive, ends no earlier than the stored    *)
(* reply would have and overruns it by less than a second, the part that   *)
(* duration_cast drops from the age (router.cpp:242-256).                  *)
HitAgesTtl == [][LookupServesFresh]_vars

(* Every query ends: a follower is woken, cancelled or times out, and a    *)
(* leader's exchange ends.                                                 *)
EveryQueryEnds == \A t \in Threads : pc[t] # "idle" ~> pc[t] = "idle"

(* A stop that was begun completes: no handler keeps the provider from     *)
(* joining its executor.                                                   *)
StopCompletes == cancelling # "none" ~> provider = "stopped"
=============================================================================
