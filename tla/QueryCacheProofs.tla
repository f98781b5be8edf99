-------------------------- MODULE QueryCacheProofs --------------------------
(***************************************************************************)
(* Machine-checked proofs about QueryCache, for every number of handlers,  *)
(* questions, generations and snapshots and for every limit and TTL.       *)
(*                                                                         *)
(* The invariants are proved in layers, each inductive relative to the     *)
(* ones before it: types; who leads which key; which cancellation session  *)
(* a query belongs to; whose reply a query holds; how long a cached reply  *)
(* lives; what the cache's accounts say.                                   *)
(***************************************************************************)
EXTENDS QueryCache, FiniteSetTheorems, TLAPS

-----------------------------------------------------------------------------
(* Facts about the packet operations.                                      *)

(* A reply outcome carries a packet. *)
LEMMA ReplyOutcome ==
  ASSUME NEW o \in Outcomes, o.type = "reply"
  PROVE  o.pkt \in Packets /\ o = Reply(o.pkt)
BY DEF Outcomes, NoOutcome, Reply

(* Failures with a router code and replies with a packet are outcomes. *)
LEMMA OutcomeKinds ==
  /\ NoOutcome \in Outcomes
  /\ \A c \in Codes : Failure(c) \in Outcomes /\ Failure(c) # NoOutcome
                      /\ Failure(c).type = "error"
  /\ \A p \in Packets : Reply(p) \in Outcomes /\ Reply(p) # NoOutcome
                        /\ Reply(p).type = "reply" /\ Reply(p).pkt = p
BY DEF Outcomes, NoOutcome, Reply, Failure

(* age_dns_response rewrites the ID and the TTL, nothing else. *)
LEMMA AgedFacts ==
  ASSUME NEW p \in Packets, NEW id \in Threads, NEW elapsed \in Int
  PROVE  /\ Aged(p, id, elapsed) \in Packets
         /\ Aged(p, id, elapsed).id = id
         /\ Aged(p, id, elapsed).q = p.q
         /\ Aged(p, id, elapsed).src = p.src
         /\ Aged(p, id, elapsed).ttl = Max2(0, p.ttl - elapsed)
<1>1. Max2(0, p.ttl - elapsed) \in Nat
  BY DEF Max2, Packets
<1> QED BY <1>1 DEF Aged, Packets

(* clamp_dns_ttl changes the TTL, nothing else. *)
LEMMA ClampedFacts ==
  ASSUME NEW p \in Packets
  PROVE  /\ Clamped(p) \in Packets
         /\ Clamped(p).id = p.id /\ Clamped(p).q = p.q /\ Clamped(p).src = p.src
<1>1. Max2(TtlMin, Min2(p.ttl, TtlMax)) \in Nat
  BY QueryCacheConstants DEF Max2, Min2, Packets
<1> QED BY <1>1 DEF Clamped, Packets

(* What the upstream exchange may end with: a well-typed outcome, and when *)
(* it is a reply, one for the thread's own query.                          *)
LEMMA UpstreamFacts ==
  ASSUME TypeOK, NEW t \in Threads, NEW r \in UpstreamResults(t)
  PROVE  /\ r \in Outcomes /\ r # NoOutcome
         /\ r = Failure("CANCELLED") => tok[t] \in stopped
         /\ r.type = "reply" =>
              /\ r.pkt.id = t /\ r.pkt.q = key[t].q
              /\ r.pkt.src = [snap |-> snap[t], gen |-> key[t].gen]
<1>1. CASE r \in Answers(t)
  <2>1. PICK ttl \in Ttls, form \in Forms :
          r = Reply(Clamped([id |-> t, q |-> key[t].q, ttl |-> ttl, form |-> form,
                             src |-> [snap |-> snap[t], gen |-> key[t].gen]]))
    BY <1>1 DEF Answers
  <2> DEFINE p == [id |-> t, q |-> key[t].q, ttl |-> ttl, form |-> form,
                   src |-> [snap |-> snap[t], gen |-> key[t].gen]]
  <2>2. p \in Packets
    BY QueryCacheConstants DEF TypeOK, Packets, Keys
  <2>3. p.id = t /\ p.q = key[t].q /\ p.src = [snap |-> snap[t], gen |-> key[t].gen]
    OBVIOUS
  <2>4. r = Reply(Clamped(p))
    BY <2>1
  <2> HIDE DEF p
  <2> QED BY <2>2, <2>3, <2>4, ClampedFacts, OutcomeKinds DEF Reply, Failure
<1>2. CASE r \in {Failure("UPSTREAM"), Failure("INTERNAL")}
  BY <1>2, OutcomeKinds DEF Failure, Codes
<1>3. CASE r = Failure("CANCELLED") /\ Cancelled(t)
  BY <1>3, OutcomeKinds DEF Failure, Codes, Cancelled
<1> QED BY <1>1, <1>2, <1>3 DEF UpstreamResults

(* The age in seconds of an entry, and what truncation drops from it. *)
LEMMA ElapsedFacts ==
  ASSUME now \in Nat, NEW e \in Entries
  PROVE  /\ Elapsed(e) \in Int
         /\ Second * Elapsed(e) <= now - e.stored
         /\ now - e.stored < (Second * Elapsed(e)) + Second
<1> DEFINE n == now - e.stored
<1>1. n \in Int /\ Second \in Nat /\ Second > 0
  BY QueryCacheConstants DEF Entries
<1> HIDE DEF n
<1>2. n \div Second \in Int /\ n % Second \in 0..(Second - 1)
  BY <1>1
<1>3. n = (Second * (n \div Second)) + (n % Second)
  BY <1>1
<1>4. Second * (n \div Second) \in Int
  BY <1>1, <1>2
<1>5. Second * (n \div Second) <= n /\ n < (Second * (n \div Second)) + Second
  <2> DEFINE whole == Second * (n \div Second)
             rest  == n % Second
  <2>1. whole \in Int /\ rest \in 0..(Second - 1) /\ n = whole + rest
    BY <1>2, <1>3, <1>4
  <2> HIDE DEF whole, rest
  <2>2. whole <= n /\ n < whole + Second
    BY <1>1, <2>1
  <2> QED BY <2>2 DEF whole
<1> QED BY <1>2, <1>5 DEF Elapsed, n

-----------------------------------------------------------------------------
(* Types.                                                                  *)

(* The initial state is well typed. *)
LEMMA TypeInit == Init => TypeOK
<1> SUFFICES ASSUME Init PROVE TypeOK
  OBVIOUS
<1>1. 1 \in Snapshots /\ 1 \in Generations
  BY QueryCacheConstants DEF Snapshots, Generations
<1>2. \E k \in Keys : TRUE
  <2>1. PICK q \in Questions : TRUE
    BY QueryCacheConstants
  <2>2. [q |-> q, gen |-> 1] \in Keys
    BY <1>1 DEF Keys
  <2> QED BY <2>2
<1>3. (CHOOSE k \in Keys : TRUE) \in Keys
  BY <1>2
<1> QED BY <1>1, <1>3, OutcomeKinds DEF Init, TypeOK, Pcs, LeaderPcs

(* A lookup keeps the types: what it returns from the cache is an outcome. *)
LEMMA TypeLookup ==
  ASSUME TypeOK, NEW t \in Threads, Lookup(t)
  PROVE  TypeOK'
<1> DEFINE s == snap[t]
<1>1. cache' = [cache EXCEPT ![s] = Fresh(@)]
  BY DEF Lookup, PurgeExpired
<1>2. cache' \in [Snapshots -> SUBSET Entries]
  BY <1>1 DEF TypeOK, Fresh
<1>3. ASSUME NEW e \in Fresh(cache[s]), Hit(t, e) PROVE TypeOK'
  <2>1. e \in Entries
    BY DEF Fresh, TypeOK
  <2>2. Reply(Aged(e.pkt, t, Elapsed(e))) \in Outcomes
    BY <2>1, AgedFacts, ElapsedFacts, OutcomeKinds DEF Entries, TypeOK
  <2> QED BY <1>2, <1>3, <2>2 DEF TypeOK, Lookup, Hit, router, Pcs
<1>4. CASE Join(t)
  <2>1. Second * WaitLimit \in Nat
    BY QueryCacheConstants
  <2> QED BY <1>2, <1>4, <2>1 DEF TypeOK, Lookup, Join, router, Pcs
<1>5. CASE Busy(t)
  BY <1>2, <1>5, OutcomeKinds DEF TypeOK, Lookup, Busy, router, Pcs, Codes
<1>6. CASE Lead(t)
  BY <1>2, <1>6 DEF TypeOK, Lookup, Lead, router, Pcs, LeaderPcs
<1> QED BY <1>3, <1>4, <1>5, <1>6 DEF Lookup

(* Publication keeps the types: the stored entry is an entry. *)
LEMMA TypePublish ==
  ASSUME TypeOK, NEW t \in Threads, Publish(t)
  PROVE  TypeOK'
<1>1. cache' \in [Snapshots -> SUBSET Entries]
  <2>1. CASE cache' = cache
    BY <2>1 DEF TypeOK
  <2>2. ASSUME NEW evicted, outcome[t].type = "reply",
               Insert(snap[t], EntryFor(t, outcome[t].pkt), evicted)
        PROVE  cache' \in [Snapshots -> SUBSET Entries]
    <3>1. outcome[t].pkt \in Packets
      BY <2>2, ReplyOutcome DEF TypeOK
    <3>2. Min2(CacheTtl(outcome[t].pkt), MaxCacheTtl) \in Nat
      BY <3>1, QueryCacheConstants DEF Packets, Min2, CacheTtl
    <3>3. Second * Min2(CacheTtl(outcome[t].pkt), MaxCacheTtl) \in Nat
      BY <3>2, QueryCacheConstants
    <3>4. EntryFor(t, outcome[t].pkt) \in Entries
      BY <3>1, <3>3, QueryCacheConstants DEF EntryFor, Entries, TypeOK, Keys
    <3> QED BY <2>2, <3>4 DEF Insert, TypeOK
  <2> QED BY <2>1, <2>2 DEF Publish, StoreReply
<1>2. pending' \in [Snapshots -> [Keys -> Threads \union {Nobody}]]
  BY DEF Publish, TypeOK
<1> QED BY <1>1, <1>2 DEF TypeOK, Publish, router, Pcs

(* Every step keeps the types. *)
LEMMA TypeStep == TypeOK /\ [Next]_vars => TypeOK'
<1> SUFFICES ASSUME TypeOK, [Next]_vars PROVE TypeOK'
  OBVIOUS
<1>1. ASSUME NEW t \in Threads, NEW q \in Questions, Begin(t, q) PROVE TypeOK'
  BY <1>1, OutcomeKinds DEF TypeOK, Begin, router, store, Keys, Pcs
<1>2. ASSUME NEW t \in Threads, Check(t) PROVE TypeOK'
  BY <1>2, OutcomeKinds DEF TypeOK, Check, router, store, Pcs, LeaderPcs, Codes
<1>3. ASSUME NEW t \in Threads, Acquire(t) PROVE TypeOK'
  BY <1>3, OutcomeKinds DEF TypeOK, Acquire, store, Pcs, LeaderPcs, Codes
<1>4. ASSUME NEW t \in Threads, Upstream(t) PROVE TypeOK'
  <2>1. PICK r \in UpstreamResults(t) : outcome' = [outcome EXCEPT ![t] = r]
    BY <1>4 DEF Upstream
  <2>2. r \in Outcomes
    BY UpstreamFacts
  <2> QED BY <1>4, <2>1, <2>2 DEF TypeOK, Upstream, router, store, Pcs, LeaderPcs
<1>5. ASSUME NEW t \in Threads, NEW r \in Outcomes, FollowerEnds(t, r) PROVE TypeOK'
  BY <1>5 DEF TypeOK, FollowerEnds, router, store, Pcs
<1>6. ASSUME NEW t \in Threads, Wake(t) PROVE TypeOK'
  <2>1. Shared(t, outcome[t]) \in Outcomes
    BY AgedFacts, ReplyOutcome, OutcomeKinds DEF Shared, TypeOK
  <2> QED BY <1>5, <1>6, <2>1 DEF Wake
<1>7. ASSUME NEW t \in Threads, WaitTimeout(t) \/ WaitCancelled(t) PROVE TypeOK'
  BY <1>5, <1>7, OutcomeKinds DEF WaitTimeout, WaitCancelled, Codes
<1>8. CASE Tick \/ NetworkChange
  <2>1. now' \in Nat /\ generation' \in Generations
    BY <1>8, QueryCacheConstants DEF TypeOK, Tick, NetworkChange, Generations
  <2> QED BY <1>8, <2>1 DEF TypeOK, Tick, NetworkChange, router, store, threads
<1>9. CASE Reload \/ Start
  <2>1. NewSnapshot /\ current' \in Snapshots
    BY <1>9, QueryCacheConstants DEF TypeOK, Reload, Start, NewSnapshot, Snapshots
  <2>2. CASE Reload
    BY <2>1, <2>2 DEF TypeOK, Reload, NewSnapshot, store, threads
  <2>3. CASE Start
    BY <2>1, <2>3 DEF TypeOK, Start, NewSnapshot, store, threads
  <2> QED BY <1>9, <2>2, <2>3
<1>10. CASE RequestStop \/ DropTransports
  BY <1>10 DEF TypeOK, RequestStop, DropTransports, store, threads
<1>11. CASE StopAccepting \/ ClearQueue \/ JoinHandlers
  BY <1>11 DEF TypeOK, StopAccepting, ClearQueue, JoinHandlers, router, store, threads
<1>12. CASE UNCHANGED vars
  BY <1>12 DEF TypeOK, vars, router, store, threads
<1> QED BY <1>1, <1>2, <1>3, <1>4, <1>6, <1>7, <1>8, <1>9, <1>10, <1>11, <1>12,
           TypeLookup, TypePublish DEF Next, Serve

(* Every reachable state of the query path is well typed.                  *)
THEOREM TypeCorrect == Spec => []TypeOK
BY TypeInit, TypeStep, PTL DEF Spec

-----------------------------------------------------------------------------
(* Leadership: the in-flight map and the leading threads agree.            *)

\* A coalesced query that was given nothing waits on an object in the map.
WaitersLed ==
  \A t \in Threads :
    pc[t] = "wait" /\ outcome[t] = NoOutcome => pending[snap[t]][key[t]] # Nobody

\* A leader has something to publish when it publishes.
PublishersDecided ==
  \A t \in Threads : pc[t] = "publish" => outcome[t] # NoOutcome

Leadership == SingleFlight /\ WaitersLed /\ PublishersDecided

\* What a step that neither begins nor ends leadership or a wait leaves alone.
LeadershipFrame ==
  /\ UNCHANGED <<pending, snap, key>>
  /\ \A t \in Threads : /\ pc'[t] \in LeaderPcs <=> pc[t] \in LeaderPcs
                        /\ pc'[t] = "wait" => pc[t] = "wait" /\ outcome'[t] = outcome[t]
                        /\ pc'[t] = "publish" => outcome'[t] # NoOutcome

(* Steps within the frame keep the agreement. *)
LEMMA LeadershipFramed ==
  ASSUME TypeOK, Leadership, LeadershipFrame
  PROVE  Leadership'
<1>1. SingleFlight'
  BY DEF TypeOK, Leadership, SingleFlight, LeadershipFrame
<1>2. WaitersLed'
  BY DEF TypeOK, Leadership, WaitersLed, LeadershipFrame
<1>3. PublishersDecided'
  BY DEF PublishersDecided, LeadershipFrame
<1> QED BY <1>1, <1>2, <1>3 DEF Leadership

(* A new leader takes a key nobody leads. *)
LEMMA LeadershipLead ==
  ASSUME TypeOK, Leadership, NEW t \in Threads, pc[t] = "lookup", Lead(t),
         UNCHANGED <<snap, key>>
  PROVE  Leadership'
<1>1. \A u \in Threads : u # t => pc'[u] = pc[u]
  BY DEF Lead, TypeOK
<1>2. pc'[t] = "check"
  BY DEF Lead, TypeOK
<1>3. \A s \in Snapshots, k \in Keys :
        pending'[s][k] = IF s = snap[t] /\ k = key[t] THEN t ELSE pending[s][k]
  BY DEF Lead, TypeOK
<1>4. pending[snap[t]][key[t]] = Nobody /\ pc[t] \notin LeaderPcs
  BY DEF Lead, LeaderPcs
<1>5. SingleFlight'
  <2>1. ASSUME NEW s \in Snapshots, NEW k \in Keys, pending'[s][k] # Nobody
        PROVE  /\ pc'[pending'[s][k]] \in LeaderPcs
               /\ snap[pending'[s][k]] = s /\ key[pending'[s][k]] = k
    <3>1. CASE s = snap[t] /\ k = key[t]
      BY <3>1, <1>2, <1>3 DEF LeaderPcs
    <3>2. CASE ~(s = snap[t] /\ k = key[t])
      <4> DEFINE l == pending[s][k]
      <4>1. pending'[s][k] = l /\ l \in Threads
        BY <3>2, <2>1, <1>3 DEF TypeOK
      <4>2. pc[l] \in LeaderPcs /\ snap[l] = s /\ key[l] = k
        BY <4>1, <2>1 DEF Leadership, SingleFlight
      <4> QED BY <4>1, <4>2, <1>1, <1>4
    <3> QED BY <3>1, <3>2
  <2>2. ASSUME NEW u \in Threads, pc'[u] \in LeaderPcs
        PROVE  pending'[snap[u]][key[u]] = u
    <3>1. CASE u = t
      BY <3>1, <1>3 DEF TypeOK
    <3>2. CASE u # t
      <4>1. pending[snap[u]][key[u]] = u /\ u # Nobody
        BY <3>2, <2>2, <1>1, QueryCacheConstants DEF Leadership, SingleFlight
      <4> QED BY <4>1, <1>3, <1>4 DEF TypeOK
    <3> QED BY <3>1, <3>2
  <2> QED BY <2>1, <2>2 DEF SingleFlight
<1>6. WaitersLed'
  BY <1>1, <1>2, <1>3, QueryCacheConstants DEF Lead, Leadership, WaitersLed, TypeOK
<1>7. PublishersDecided'
  BY <1>1, <1>2 DEF Lead, Leadership, PublishersDecided
<1> QED BY <1>5, <1>6, <1>7 DEF Leadership

(* Publication removes the leader's key and serves all who wait for it. *)
LEMMA LeadershipPublish ==
  ASSUME TypeOK, Leadership, NEW t \in Threads, Publish(t)
  PROVE  Leadership'
<1>1. /\ pc[t] \in LeaderPcs /\ pc' = [pc EXCEPT ![t] = "idle"]
      /\ UNCHANGED <<snap, key>> /\ outcome[t] # NoOutcome
  BY DEF Publish, LeaderPcs, Leadership, PublishersDecided
<1>2. \A s \in Snapshots, k \in Keys :
        pending'[s][k] = IF s = snap[t] /\ k = key[t] THEN Nobody ELSE pending[s][k]
  BY DEF Publish, TypeOK
<1>3. pending[snap[t]][key[t]] = t
  BY <1>1 DEF Leadership, SingleFlight
<1>4. SingleFlight'
  <2>1. ASSUME NEW s \in Snapshots, NEW k \in Keys, pending'[s][k] # Nobody
        PROVE  /\ pc'[pending'[s][k]] \in LeaderPcs
               /\ snap[pending'[s][k]] = s /\ key[pending'[s][k]] = k
    BY <2>1, <1>1, <1>2, <1>3 DEF Leadership, SingleFlight, TypeOK
  <2>2. ASSUME NEW u \in Threads, pc'[u] \in LeaderPcs
        PROVE  pending'[snap[u]][key[u]] = u
    BY <2>2, <1>1, <1>2, <1>3 DEF Leadership, SingleFlight, TypeOK, LeaderPcs
  <2> QED BY <1>1, <2>1, <2>2 DEF SingleFlight
<1>5. WaitersLed'
  <2> SUFFICES ASSUME NEW u \in Threads, pc'[u] = "wait", outcome'[u] = NoOutcome
               PROVE  pending'[snap[u]][key[u]] # Nobody
    BY <1>1 DEF WaitersLed
  <2>1. pc[u] = "wait" /\ u # t
    BY <1>1 DEF TypeOK
  <2>2. u \notin Followers(t) /\ outcome[u] = NoOutcome
    BY <1>1 DEF Publish
  <2> QED BY <1>2, <2>1, <2>2 DEF Followers, Leadership, WaitersLed, TypeOK
<1>6. PublishersDecided'
  <2> SUFFICES ASSUME NEW u \in Threads, pc'[u] = "publish" PROVE outcome'[u] # NoOutcome
    BY DEF PublishersDecided
  <2>1. pc[u] = "publish" /\ u \notin Followers(t)
    BY <1>1 DEF TypeOK, Followers
  <2> QED BY <2>1 DEF Publish, Leadership, PublishersDecided
<1> QED BY <1>4, <1>5, <1>6 DEF Leadership

(* Every step keeps the agreement. *)
LEMMA LeadershipStep == TypeOK /\ Leadership /\ [Next]_vars => Leadership'
<1> SUFFICES ASSUME TypeOK, Leadership, [Next]_vars PROVE Leadership'
  OBVIOUS
<1> USE DEF LeaderPcs
<1>1. ASSUME NEW t \in Threads, NEW q \in Questions, Begin(t, q) PROVE Leadership'
  <2>1. pc[t] = "idle" /\ pc' = [pc EXCEPT ![t] = "lookup"]
    BY <1>1 DEF Begin
  <2>2. /\ pending' = pending
        /\ \A u \in Threads : u # t => /\ snap'[u] = snap[u] /\ key'[u] = key[u]
                                       /\ outcome'[u] = outcome[u] /\ pc'[u] = pc[u]
    BY <1>1 DEF Begin, store, TypeOK
  <2>3. SingleFlight'
    BY <2>1, <2>2 DEF Leadership, SingleFlight, TypeOK
  <2>4. WaitersLed' /\ PublishersDecided'
    BY <2>1, <2>2 DEF Leadership, WaitersLed, PublishersDecided, TypeOK
  <2> QED BY <2>3, <2>4 DEF Leadership
<1>2. ASSUME NEW t \in Threads, Lookup(t) PROVE Leadership'
  <2>1. pc[t] = "lookup" /\ UNCHANGED <<snap, key>>
    BY <1>2 DEF Lookup
  <2>2. ASSUME NEW e, Hit(t, e) PROVE LeadershipFrame
    BY <2>1, <2>2 DEF Hit, LeadershipFrame, TypeOK, Leadership, PublishersDecided
  <2>3. CASE Busy(t)
    <3>1. /\ pc' = [pc EXCEPT ![t] = "idle"] /\ pending' = pending
          /\ \A u \in Threads : u # t => outcome'[u] = outcome[u]
      BY <2>3 DEF Busy, TypeOK
    <3> QED BY <2>1, <3>1, LeadershipFramed
            DEF LeadershipFrame, TypeOK, Leadership, PublishersDecided
  <2>4. CASE Join(t)
    <3>1. /\ pc' = [pc EXCEPT ![t] = "wait"] /\ UNCHANGED <<pending, outcome>>
          /\ pending[snap[t]][key[t]] # Nobody
      BY <2>4 DEF Join
    <3>2. SingleFlight'
      BY <2>1, <3>1 DEF Leadership, SingleFlight, TypeOK
    <3>3. WaitersLed' /\ PublishersDecided'
      BY <2>1, <3>1 DEF Leadership, WaitersLed, PublishersDecided, TypeOK
    <3> QED BY <3>2, <3>3 DEF Leadership
  <2>5. CASE Lead(t)
    BY <2>1, <2>5, LeadershipLead
  <2> QED BY <1>2, <2>2, <2>3, <2>4, <2>5, LeadershipFramed DEF Lookup
<1>3. ASSUME NEW t \in Threads, Check(t) \/ Acquire(t) PROVE LeadershipFrame
  BY <1>3 DEF Check, Acquire, store, LeadershipFrame, TypeOK, Leadership,
              PublishersDecided, NoOutcome, Failure
<1>4. ASSUME NEW t \in Threads, Upstream(t) PROVE LeadershipFrame
  <2>1. PICK r \in UpstreamResults(t) : outcome' = [outcome EXCEPT ![t] = r]
    BY <1>4 DEF Upstream
  <2>2. r # NoOutcome
    BY UpstreamFacts
  <2> QED BY <1>4, <2>1, <2>2 DEF Upstream, store, LeadershipFrame, TypeOK,
                                  Leadership, PublishersDecided
<1>5. ASSUME NEW t \in Threads, NEW r, FollowerEnds(t, r) PROVE LeadershipFrame
  BY <1>5 DEF FollowerEnds, store, LeadershipFrame, TypeOK, Leadership, PublishersDecided
<1>6. ASSUME NEW t \in Threads, Wake(t) \/ WaitTimeout(t) \/ WaitCancelled(t)
      PROVE  LeadershipFrame
  BY <1>5, <1>6 DEF Wake, WaitTimeout, WaitCancelled
<1>7. CASE \/ Tick \/ NetworkChange \/ Reload \/ RequestStop \/ DropTransports
           \/ StopAccepting \/ ClearQueue \/ JoinHandlers \/ Start \/ UNCHANGED vars
  <2>1. UNCHANGED <<store, threads>>
    BY <1>7 DEF Tick, NetworkChange, Reload, RequestStop, DropTransports,
                StopAccepting, ClearQueue, JoinHandlers, Start, NewSnapshot, vars
  <2> QED BY <2>1, LeadershipFramed
          DEF store, threads, LeadershipFrame, Leadership, PublishersDecided
<1> QED BY <1>1, <1>2, <1>3, <1>4, <1>6, <1>7, LeadershipPublish, LeadershipFramed
        DEF Next, Serve

(* Coalescing is exact: in every reachable state the map of queries in     *)
(* flight and the threads exchanging upstream agree, so one key of one     *)
(* snapshot is never upstream twice (router.cpp:258-267, 311-337).         *)
THEOREM SingleFlightHolds == Spec => []SingleFlight
<1>1. Init => Leadership
  BY DEF Init, Leadership, SingleFlight, WaitersLed, PublishersDecided, LeaderPcs
<1> QED BY <1>1, TypeInit, TypeStep, LeadershipStep, PTL DEF Spec, Leadership

(* No coalesced query is ever left without a leader that will publish to   *)
(* it, whichever way the leader's exchange ends.                           *)
THEOREM NoOrphanWaiterHolds == Spec => []NoOrphanWaiter
<1>1. Init => Leadership
  BY DEF Init, Leadership, SingleFlight, WaitersLed, PublishersDecided, LeaderPcs
<1>2. TypeOK /\ Leadership => NoOrphanWaiter
  BY DEF TypeOK, Leadership, SingleFlight, WaitersLed, NoOrphanWaiter
<1> QED BY <1>1, <1>2, TypeInit, TypeStep, LeadershipStep, PTL DEF Spec

-----------------------------------------------------------------------------
(* The limit on queries in flight.                                         *)

\* A lookup adds at most one key to the map, and only below the limit.
InFlightBounded ==
  \A s \in Snapshots : IsFiniteSet(InFlight(s)) /\ Cardinality(InFlight(s)) <= MaxPending

(* Every step keeps the in-flight map finite and within its limit. *)
LEMMA InFlightStep == TypeOK /\ InFlightBounded /\ [Next]_vars => InFlightBounded'
<1> SUFFICES ASSUME TypeOK, InFlightBounded, [Next]_vars,
                    NEW s \in Snapshots
             PROVE  /\ IsFiniteSet(InFlight(s)')
                    /\ Cardinality(InFlight(s)') <= MaxPending
  BY DEF InFlightBounded
<1> DEFINE I == InFlight(s)
<1>0. IsFiniteSet(I) /\ Cardinality(I) <= MaxPending /\ Cardinality(I) \in Nat
      /\ MaxPending \in Nat
  BY FS_CardinalityType, QueryCacheConstants DEF InFlightBounded
<1>1. ASSUME I' \subseteq I
      PROVE  IsFiniteSet(I') /\ Cardinality(I') <= MaxPending
  <2>1. IsFiniteSet(I') /\ Cardinality(I') <= Cardinality(I) /\ Cardinality(I') \in Nat
    BY <1>0, <1>1, FS_Subset, FS_CardinalityType
  <2> QED BY <1>0, <2>1
<1>2. CASE pending' = pending
  BY <1>1, <1>2 DEF InFlight
<1>3. ASSUME NEW t \in Threads, Publish(t)
      PROVE  I' \subseteq I
  BY <1>3 DEF Publish, InFlight, TypeOK
<1>4. ASSUME NEW t \in Threads, Lead(t), UNCHANGED <<snap, key>>
      PROVE  IsFiniteSet(I') /\ Cardinality(I') <= MaxPending
  <2>1. CASE s # snap[t]
    <3>1. I' = I
      BY <1>4, <2>1 DEF Lead, InFlight, TypeOK
    <3> QED BY <1>1, <3>1
  <2>2. CASE s = snap[t]
    <3>1. I' = I \union {key[t]} /\ key[t] \notin I
      BY <1>4, <2>2, QueryCacheConstants DEF Lead, InFlight, TypeOK
    <3>2. Cardinality(I) < MaxPending
      BY <1>4, <2>2 DEF Lead
    <3> HIDE DEF I
    <3>3. IsFiniteSet(I \union {key[t]})
          /\ Cardinality(I \union {key[t]}) = Cardinality(I) + 1
      BY <1>0, <3>1, FS_AddElement
    <3>4. Cardinality(I) + 1 <= MaxPending
      BY <1>0, <3>2
    <3> QED BY <3>1, <3>3, <3>4
  <2> QED BY <2>1, <2>2
<1>5. ASSUME NEW t \in Threads, Lookup(t)
      PROVE  pending' = pending \/ (Lead(t) /\ UNCHANGED <<snap, key>>)
  BY <1>5 DEF Lookup, Hit, Join, Busy
<1>6. ASSUME NEW t \in Threads,
             Check(t) \/ Acquire(t) \/ Upstream(t) \/ Wake(t) \/ WaitTimeout(t) \/ WaitCancelled(t)
      PROVE  pending' = pending
  BY <1>6 DEF Check, Acquire, Upstream, Wake, WaitTimeout, WaitCancelled, FollowerEnds, store
<1>7. ASSUME NEW t \in Threads, NEW q \in Questions, Begin(t, q) PROVE pending' = pending
  BY <1>7 DEF Begin, store
<1>8. CASE \/ Tick \/ NetworkChange \/ Reload \/ RequestStop \/ DropTransports
           \/ StopAccepting \/ ClearQueue \/ JoinHandlers \/ Start \/ UNCHANGED vars
  <2>1. pending' = pending
    BY <1>8 DEF Tick, NetworkChange, Reload, RequestStop, DropTransports,
                StopAccepting, ClearQueue, JoinHandlers, Start, NewSnapshot, vars, store
  <2> QED BY <1>2, <2>1
<1> QED BY <1>1, <1>2, <1>3, <1>4, <1>5, <1>6, <1>7, <1>8 DEF Next, Serve

(* At most MaxPending distinct queries of a snapshot are in flight         *)
(* (router.cpp:262-263).                                                   *)
THEOREM PendingBoundedHolds == Spec => []PendingBounded
<1>1. Init => InFlightBounded
  <2> SUFFICES ASSUME Init, NEW s \in Snapshots
               PROVE  IsFiniteSet(InFlight(s)) /\ Cardinality(InFlight(s)) <= MaxPending
    BY DEF InFlightBounded
  <2>1. InFlight(s) = {}
    BY DEF Init, InFlight
  <2> QED BY <2>1, FS_EmptySet, QueryCacheConstants
<1>2. InFlightBounded => PendingBounded
  BY DEF InFlightBounded, PendingBounded
<1> QED BY <1>1, <1>2, TypeInit, TypeStep, InFlightStep, PTL DEF Spec

(* Coalescing is sound: one exchange per key, every follower has a leader, *)
(* and the limit holds (router.cpp:258-316).                               *)
THEOREM CoalescedHolds == Spec => []Coalesced
<1>1. SingleFlight /\ NoOrphanWaiter /\ PendingBounded => Coalesced
  BY DEF Coalesced
<1> QED BY <1>1, SingleFlightHolds, NoOrphanWaiterHolds, PendingBoundedHolds, PTL

-----------------------------------------------------------------------------
(* Sessions: which stop source a query belongs to.                         *)

\* Queries live within one session of the provider: a fresh stop source is
\* installed only after every handler of the last session was joined.
Sessions ==
  /\ \A t \in Threads : pc[t] # "idle" => tok[t] = token
  /\ provider = "stopped" => \A t \in Threads : pc[t] = "idle"
  /\ provider # "running" => cancelling = "dropped"
  /\ cancelling # "none" => token \in stopped
  /\ \A x \in stopped : x <= token

SessionInv == Sessions /\ TransportsReleased /\ CancelledOnlyWhenStopped

\* Steps of a query that do not touch the router's lifecycle.
SessionFrame ==
  /\ UNCHANGED <<provider, token, stopped, cancelling, tok>>
  /\ \A t \in Threads : pc'[t] # "idle" => pc[t] # "idle"
  /\ transports' => transports \/ cancelling # "dropped"
  /\ \A t \in Threads : outcome'[t] = Failure("CANCELLED") => tok[t] \in stopped

(* Steps within the frame keep the session invariant. *)
LEMMA SessionFramed == ASSUME TypeOK, SessionInv, SessionFrame PROVE SessionInv'
<1>1. Sessions'
  BY DEF SessionInv, Sessions, SessionFrame
<1>2. TransportsReleased'
  BY DEF SessionInv, TransportsReleased, SessionFrame
<1>3. CancelledOnlyWhenStopped'
  BY DEF CancelledOnlyWhenStopped, SessionFrame
<1> QED BY <1>1, <1>2, <1>3 DEF SessionInv

(* Every step of a query keeps the session invariant. *)
LEMMA SessionServe ==
  ASSUME TypeOK, SessionInv, NEW t \in Threads, Serve(t)
  PROVE  SessionInv'
<1> USE DEF Failure
<1>0. \A u \in Threads : outcome[u] = Failure("CANCELLED") => tok[u] \in stopped
  BY DEF SessionInv, CancelledOnlyWhenStopped
<1>1. CASE Lookup(t)
  <2>1. /\ pc[t] # "idle" /\ UNCHANGED <<router, provider, tok>>
        /\ \A u \in Threads : u # t => pc'[u] = pc[u]
    BY <1>1 DEF Lookup, Hit, Join, Busy, Lead, TypeOK
  <2>2. \A u \in Threads : outcome'[u] = Failure("CANCELLED") => tok[u] \in stopped
    <3>1. ASSUME NEW e \in Fresh(cache[snap[t]]), Hit(t, e)
          PROVE  \A u \in Threads : outcome'[u] = Failure("CANCELLED") => tok[u] \in stopped
      <4>1. e \in Entries
        BY DEF Fresh, TypeOK
      <4>2. Reply(Aged(e.pkt, t, Elapsed(e))) # Failure("CANCELLED")
        BY DEF Reply
      <4> QED BY <1>0, <3>1, <4>2 DEF Hit, TypeOK
    <3>2. CASE Join(t) \/ Lead(t)
      BY <1>0, <3>2 DEF Join, Lead
    <3>3. CASE Busy(t)
      BY <1>0, <3>3 DEF Busy, TypeOK
    <3> QED BY <1>1, <3>1, <3>2, <3>3 DEF Lookup
  <2> QED BY <2>1, <2>2, SessionFramed DEF SessionFrame, router
<1>2. CASE Check(t)
  <2>1. SessionFrame
    BY <1>0, <1>2 DEF Check, SessionFrame, router, TypeOK, Cancelled
  <2> QED BY <2>1, SessionFramed
<1>3. CASE Acquire(t)
  <2>1. cancelling = "dropped" => Cancelled(t)
    BY <1>3 DEF Acquire, SessionInv, Sessions, Cancelled
  <2>2. SessionFrame
    BY <1>0, <1>3, <2>1 DEF Acquire, SessionFrame, TypeOK, Cancelled
  <2> QED BY <2>2, SessionFramed
<1>4. CASE Upstream(t)
  <2>1. PICK r \in UpstreamResults(t) : outcome' = [outcome EXCEPT ![t] = r]
    BY <1>4 DEF Upstream
  <2>2. r = Failure("CANCELLED") => tok[t] \in stopped
    BY UpstreamFacts
  <2>3. SessionFrame
    BY <1>0, <1>4, <2>1, <2>2 DEF Upstream, SessionFrame, router, TypeOK
  <2> QED BY <2>3, SessionFramed
<1>5. CASE Publish(t)
  <2>1. \A u \in Followers(t) : tok[u] = tok[t]
    BY <1>5 DEF Publish, Followers, SessionInv, Sessions
  <2>2. SessionFrame
    BY <1>0, <1>5, <2>1 DEF Publish, SessionFrame, router, TypeOK
  <2> QED BY <2>2, SessionFramed
<1>6. ASSUME NEW r, FollowerEnds(t, r), r = Failure("CANCELLED") => tok[t] \in stopped
      PROVE  SessionInv'
  <2>1. SessionFrame
    BY <1>0, <1>6 DEF FollowerEnds, SessionFrame, router, TypeOK
  <2> QED BY <2>1, SessionFramed
<1>7. CASE Wake(t)
  <2>1. Shared(t, outcome[t]) = Failure("CANCELLED") => tok[t] \in stopped
    BY <1>0 DEF Shared, Reply
  <2> QED BY <1>6, <1>7, <2>1 DEF Wake
<1>8. CASE WaitTimeout(t) \/ WaitCancelled(t)
  BY <1>6, <1>8 DEF WaitTimeout, WaitCancelled, Cancelled
<1> QED BY <1>1, <1>2, <1>3, <1>4, <1>5, <1>7, <1>8 DEF Serve

(* Every step keeps the session invariant. *)
LEMMA SessionStep == TypeOK /\ SessionInv /\ [Next]_vars => SessionInv'
<1> SUFFICES ASSUME TypeOK, SessionInv, [Next]_vars PROVE SessionInv'
  OBVIOUS
<1> USE DEF SessionInv, Sessions, TransportsReleased, CancelledOnlyWhenStopped, Failure
<1>1. ASSUME NEW t \in Threads, NEW q \in Questions, Begin(t, q) PROVE SessionInv'
  BY <1>1 DEF Begin, router, store, TypeOK, NoOutcome
<1>2. CASE Tick \/ NetworkChange \/ Reload \/ UNCHANGED vars
  BY <1>2 DEF Tick, NetworkChange, Reload, NewSnapshot, vars, router, store, threads
<1>3. CASE RequestStop
  BY <1>3 DEF RequestStop, threads, TypeOK
<1>4. CASE DropTransports
  BY <1>4 DEF DropTransports, threads
<1>5. CASE StopAccepting \/ ClearQueue \/ JoinHandlers
  BY <1>5 DEF StopAccepting, ClearQueue, JoinHandlers, router, threads
<1>6. CASE Start
  BY <1>6 DEF Start, NewSnapshot, threads, TypeOK
<1> QED BY <1>1, <1>2, <1>3, <1>4, <1>5, <1>6, SessionServe DEF Next

(* The session invariant holds initially. *)
LEMMA SessionInit == Init => SessionInv
BY DEF Init, SessionInv, Sessions, TransportsReleased, CancelledOnlyWhenStopped,
       NoOutcome, Failure

(* No cancelled query recreates a transport that cancel_pending dropped    *)
(* (router.cpp:68-72, 89-94).                                              *)
THEOREM TransportsReleasedHolds == Spec => []TransportsReleased
BY SessionInit, SessionStep, TypeInit, TypeStep, PTL DEF Spec, SessionInv

(* A query is reported CANCELLED only when its own stop source was         *)
(* stopped, even when it learns of it from the leader it coalesced with.   *)
THEOREM CancelledOnlyWhenStoppedHolds == Spec => []CancelledOnlyWhenStopped
BY SessionInit, SessionStep, TypeInit, TypeStep, PTL DEF Spec, SessionInv

-----------------------------------------------------------------------------
(* Ownership: whose reply a query, an object in flight and the cache hold. *)

\* p answers key k and was fetched by snapshot s
Fetched(p, s, k) == p.q = k.q /\ p.src = [snap |-> s, gen |-> k.gen]

CacheOwned == \A s \in Snapshots : \A e \in cache[s] : Fetched(e.pkt, s, e.key)
OutcomesOwned ==
  \A t \in Threads :
    outcome[t].type = "reply" =>
      /\ Fetched(outcome[t].pkt, snap[t], key[t])
      /\ pc[t] # "wait" => outcome[t].pkt.id = t

(* Publication stores and shares only replies to the key they answer. *)
LEMMA OwnedPublish ==
  ASSUME TypeOK, CacheOwned, OutcomesOwned, NEW t \in Threads, Publish(t)
  PROVE  CacheOwned' /\ OutcomesOwned'
<1>1. CacheOwned'
  <2>1. CASE cache' = cache
    BY <2>1 DEF CacheOwned
  <2>2. ASSUME NEW evicted, outcome[t].type = "reply",
               Insert(snap[t], EntryFor(t, outcome[t].pkt), evicted)
        PROVE  CacheOwned'
    <3> DEFINE e == EntryFor(t, outcome[t].pkt)
    <3>1. Fetched(e.pkt, snap[t], e.key)
      BY <2>2 DEF OutcomesOwned, EntryFor
    <3>2. \A s \in Snapshots : \A x \in cache'[s] : x \in cache[s] \/ (s = snap[t] /\ x = e)
      BY <2>2 DEF Insert, TypeOK
    <3> HIDE DEF e
    <3> QED BY <3>1, <3>2 DEF CacheOwned
  <2> QED BY <2>1, <2>2 DEF Publish, StoreReply
<1>2. OutcomesOwned'
  <2> SUFFICES ASSUME NEW u \in Threads, outcome'[u].type = "reply"
               PROVE  /\ Fetched(outcome'[u].pkt, snap[u], key[u])
                      /\ pc'[u] # "wait" => outcome'[u].pkt.id = u
    BY DEF OutcomesOwned, Publish
  <2>1. CASE u \in Followers(t)
    BY <2>1 DEF Publish, Followers, OutcomesOwned, TypeOK
  <2>2. CASE u \notin Followers(t)
    BY <2>2 DEF Publish, OutcomesOwned, TypeOK
  <2> QED BY <2>1, <2>2
<1> QED BY <1>1, <1>2

(* Every step keeps cached and delivered replies with their queries. *)
LEMMA OwnedStep ==
  TypeOK /\ CacheOwned /\ OutcomesOwned /\ [Next]_vars => CacheOwned' /\ OutcomesOwned'
<1> SUFFICES ASSUME TypeOK, CacheOwned, OutcomesOwned, [Next]_vars
             PROVE  CacheOwned' /\ OutcomesOwned'
  OBVIOUS
<1>1. ASSUME NEW t \in Threads, NEW q \in Questions, Begin(t, q)
      PROVE  CacheOwned' /\ OutcomesOwned'
  BY <1>1 DEF Begin, store, CacheOwned, OutcomesOwned, TypeOK, NoOutcome
<1>2. ASSUME NEW t \in Threads, NEW r, NEW p, UNCHANGED <<cache, snap, key>>,
             outcome' = [outcome EXCEPT ![t] = r], pc' = [pc EXCEPT ![t] = p],
             r.type = "reply" => Fetched(r.pkt, snap[t], key[t]) /\ r.pkt.id = t
      PROVE  CacheOwned' /\ OutcomesOwned'
  BY <1>2 DEF CacheOwned, OutcomesOwned, TypeOK
<1>3. ASSUME NEW t \in Threads, Lookup(t) PROVE CacheOwned' /\ OutcomesOwned'
  <2>1. CacheOwned'
    BY <1>3 DEF Lookup, PurgeExpired, Fresh, CacheOwned, TypeOK
  <2>2. ASSUME NEW e \in Fresh(cache[snap[t]]), Hit(t, e) PROVE OutcomesOwned'
    <3> DEFINE a == Reply(Aged(e.pkt, t, Elapsed(e)))
    <3>1. e \in Entries /\ Fetched(e.pkt, snap[t], key[t])
      BY <2>2 DEF Fresh, TypeOK, CacheOwned, Hit
    <3>2. a.type = "reply" => Fetched(a.pkt, snap[t], key[t]) /\ a.pkt.id = t
      <4>1. e.pkt \in Packets /\ Elapsed(e) \in Int
        BY <3>1, ElapsedFacts DEF Entries, TypeOK
      <4> DEFINE p == Aged(e.pkt, t, Elapsed(e))
      <4>2. p.id = t /\ p.q = e.pkt.q /\ p.src = e.pkt.src
        BY <4>1, AgedFacts
      <4>3. a.pkt = p
        BY DEF Reply
      <4> HIDE DEF p, a
      <4> QED BY <3>1, <4>2, <4>3 DEF Fetched
    <3>3. outcome' = [outcome EXCEPT ![t] = a] /\ pc' = [pc EXCEPT ![t] = "idle"]
          /\ UNCHANGED <<snap, key>>
      BY <1>3, <2>2 DEF Hit, Lookup
    <3> HIDE DEF a
    <3> QED BY <3>2, <3>3 DEF OutcomesOwned, TypeOK
  <2>3. CASE Join(t) \/ Lead(t)
    <3>1. /\ UNCHANGED <<outcome, snap, key>> /\ pc[t] # "wait"
          /\ \A u \in Threads : u # t => pc'[u] = pc[u]
      BY <1>3, <2>3 DEF Join, Lead, Lookup, TypeOK
    <3> QED BY <2>1, <3>1 DEF OutcomesOwned
  <2>4. CASE Busy(t)
    <3>1. /\ UNCHANGED <<snap, key>>
          /\ outcome'[t] = Failure("UPSTREAM_BUSY")
          /\ \A u \in Threads : u # t => pc'[u] = pc[u] /\ outcome'[u] = outcome[u]
      BY <1>3, <2>4 DEF Busy, Lookup, TypeOK
    <3>2. Failure("UPSTREAM_BUSY").type # "reply"
      BY DEF Failure
    <3> QED BY <2>1, <3>1, <3>2 DEF OutcomesOwned
  <2> QED BY <1>3, <2>1, <2>2, <2>3, <2>4 DEF Lookup
<1>4. ASSUME NEW t \in Threads, Check(t) \/ Acquire(t) PROVE CacheOwned' /\ OutcomesOwned'
  BY <1>4 DEF Check, Acquire, store, CacheOwned, OutcomesOwned, TypeOK, Failure
<1>5. ASSUME NEW t \in Threads, Upstream(t) PROVE CacheOwned' /\ OutcomesOwned'
  <2>1. PICK r \in UpstreamResults(t) : outcome' = [outcome EXCEPT ![t] = r]
    BY <1>5 DEF Upstream
  <2>2. r.type = "reply" => Fetched(r.pkt, snap[t], key[t]) /\ r.pkt.id = t
    BY UpstreamFacts DEF Fetched
  <2> QED BY <1>2, <1>5, <2>1, <2>2 DEF Upstream, store
<1>6. ASSUME NEW t \in Threads, Wake(t) PROVE CacheOwned' /\ OutcomesOwned'
  <2> DEFINE r == Shared(t, outcome[t])
  <2>1. r.type = "reply" => Fetched(r.pkt, snap[t], key[t]) /\ r.pkt.id = t
    <3>1. CASE outcome[t].type = "reply"
      <4>1. outcome[t].pkt \in Packets /\ Fetched(outcome[t].pkt, snap[t], key[t])
        BY <3>1, ReplyOutcome DEF TypeOK, OutcomesOwned
      <4>2. r = Reply(Aged(outcome[t].pkt, t, 0))
        BY <3>1 DEF Shared
      <4> QED BY <4>1, <4>2, AgedFacts DEF Fetched, Reply
    <3>2. CASE outcome[t].type # "reply"
      BY <3>2 DEF Shared
    <3> QED BY <3>1, <3>2
  <2> HIDE DEF r
  <2> QED BY <1>2, <1>6, <2>1 DEF Wake, FollowerEnds, store, r
<1>7. ASSUME NEW t \in Threads, WaitTimeout(t) \/ WaitCancelled(t)
      PROVE  CacheOwned' /\ OutcomesOwned'
  BY <1>2, <1>7 DEF WaitTimeout, WaitCancelled, FollowerEnds, store, Failure
<1>8. CASE \/ Tick \/ NetworkChange \/ Reload \/ RequestStop \/ DropTransports
           \/ StopAccepting \/ ClearQueue \/ JoinHandlers \/ Start \/ UNCHANGED vars
  <2>1. UNCHANGED <<cache, pc, snap, key, outcome>>
    BY <1>8 DEF Tick, NetworkChange, Reload, RequestStop, DropTransports, StopAccepting,
                ClearQueue, JoinHandlers, Start, NewSnapshot, vars, store, threads
  <2> QED BY <2>1 DEF CacheOwned, OutcomesOwned
<1> QED BY <1>1, <1>3, <1>4, <1>5, <1>6, <1>7, <1>8, OwnedPublish DEF Next, Serve

(* A query is only ever answered with a reply to its own question and      *)
(* transaction ID, fetched by its own snapshot under the generation it     *)
(* observed, through the cache and through coalescing as well.             *)
THEOREM ReplyBelongsToQueryHolds == Spec => []ReplyBelongsToQuery
<1>1. Init => CacheOwned /\ OutcomesOwned
  BY DEF Init, CacheOwned, OutcomesOwned, NoOutcome
<1>2. OutcomesOwned => ReplyBelongsToQuery
  BY DEF OutcomesOwned, Fetched, ReplyBelongsToQuery
<1> QED BY <1>1, <1>2, TypeInit, TypeStep, OwnedStep, PTL DEF Spec

-----------------------------------------------------------------------------
(* Lifetimes of cached replies.                                            *)

\* An entry never outlives the TTL its reply had when it was stored.
Lifetimes ==
  \A s \in Snapshots : \A e \in cache[s] : e.expires <= e.stored + (Second * e.pkt.ttl)

(* Every step keeps the lifetimes: only publication adds an entry. *)
LEMMA LifetimesStep == TypeOK /\ Lifetimes /\ [Next]_vars => Lifetimes'
<1> SUFFICES ASSUME TypeOK, Lifetimes, [Next]_vars PROVE Lifetimes'
  OBVIOUS
<1>1. CASE cache' = cache
  BY <1>1 DEF Lifetimes
<1>2. ASSUME NEW t \in Threads, Lookup(t) PROVE Lifetimes'
  BY <1>2 DEF Lookup, PurgeExpired, Fresh, Lifetimes, TypeOK
<1>3. ASSUME NEW t \in Threads, Publish(t) PROVE Lifetimes'
  <2>1. ASSUME NEW evicted, outcome[t].type = "reply",
               Insert(snap[t], EntryFor(t, outcome[t].pkt), evicted)
        PROVE  Lifetimes'
    <3> DEFINE e == EntryFor(t, outcome[t].pkt)
    <3>1. outcome[t].pkt.ttl \in Nat
      BY <2>1, ReplyOutcome DEF TypeOK, Packets
    <3>2. Min2(CacheTtl(outcome[t].pkt), MaxCacheTtl) <= outcome[t].pkt.ttl
          /\ Min2(CacheTtl(outcome[t].pkt), MaxCacheTtl) \in Nat
      BY <3>1, QueryCacheConstants DEF Min2, CacheTtl
    <3>3. e.expires <= e.stored + (Second * e.pkt.ttl)
      <4> DEFINE ttl == outcome[t].pkt.ttl
                 lasts == Min2(CacheTtl(outcome[t].pkt), MaxCacheTtl)
      <4>1. e.expires = now + (Second * lasts) /\ e.stored = now /\ e.pkt.ttl = ttl
        BY DEF EntryFor
      <4>2. ttl \in Nat /\ lasts \in Nat /\ lasts <= ttl /\ Second \in Nat /\ now \in Nat
        BY <3>1, <3>2, QueryCacheConstants DEF TypeOK
      <4> HIDE DEF e, ttl, lasts
      <4>3. Second * lasts <= Second * ttl /\ Second * lasts \in Nat /\ Second * ttl \in Nat
        BY <4>2
      <4> QED BY <4>1, <4>2, <4>3
    <3>4. \A s \in Snapshots : \A x \in cache'[s] : x \in cache[s] \/ x = e
      BY <2>1 DEF Insert, TypeOK
    <3> HIDE DEF e
    <3> QED BY <3>3, <3>4 DEF Lifetimes
  <2> QED BY <1>1, <1>3, <2>1 DEF Publish, StoreReply
<1>4. ASSUME NEW t \in Threads,
             Check(t) \/ Acquire(t) \/ Upstream(t) \/ Wake(t) \/ WaitTimeout(t) \/ WaitCancelled(t)
      PROVE  cache' = cache
  BY <1>4 DEF Check, Acquire, Upstream, Wake, WaitTimeout, WaitCancelled, FollowerEnds, store
<1>5. ASSUME NEW t \in Threads, NEW q \in Questions, Begin(t, q) PROVE cache' = cache
  BY <1>5 DEF Begin, store
<1>6. CASE \/ Tick \/ NetworkChange \/ Reload \/ RequestStop \/ DropTransports
           \/ StopAccepting \/ ClearQueue \/ JoinHandlers \/ Start \/ UNCHANGED vars
  BY <1>1, <1>6 DEF Tick, NetworkChange, Reload, RequestStop, DropTransports,
       StopAccepting, ClearQueue, JoinHandlers, Start, NewSnapshot, vars, store
<1> QED BY <1>1, <1>2, <1>3, <1>4, <1>5, <1>6 DEF Next, Serve

(* A query that is answered by its lookup gets the remaining lifetime,     *)
(* rounded up to seconds.                                                  *)
LEMMA HitServesFresh ==
  ASSUME TypeOK, Lifetimes, NEW t \in Threads, Lookup(t),
         pc'[t] = "idle", outcome'[t].type = "reply"
  PROVE  \E e \in cache[snap[t]] : ServedFrom(e, t)
<1>1. ~Join(t) /\ ~Lead(t)
  BY DEF Join, Lead, TypeOK
<1>2. ~Busy(t)
  BY DEF Busy, TypeOK, Failure
<1>3. PICK e \in Fresh(cache[snap[t]]) : Hit(t, e)
  BY <1>1, <1>2 DEF Lookup
<1>4. /\ e \in cache[snap[t]] /\ e \in Entries /\ e.key = key[t] /\ now < e.expires
      /\ e.expires <= e.stored + (Second * e.pkt.ttl)
  BY <1>3 DEF Fresh, Hit, TypeOK, Lifetimes, Entries
<1>5. outcome'[t] = Reply(Aged(e.pkt, t, Elapsed(e)))
  BY <1>3 DEF Hit, TypeOK
<1>6. /\ e.pkt \in Packets /\ e.stored \in Nat /\ e.expires \in Nat /\ e.pkt.ttl \in Nat
      /\ now \in Nat /\ Second \in Nat /\ Second > 0
  BY <1>4, QueryCacheConstants DEF Entries, Packets, TypeOK
<1>7. outcome'[t].pkt.ttl = Max2(0, e.pkt.ttl - Elapsed(e)) /\ Elapsed(e) \in Int
  <2>1. Elapsed(e) \in Int
    BY <1>4, <1>6, ElapsedFacts
  <2>2. Aged(e.pkt, t, Elapsed(e)).ttl = Max2(0, e.pkt.ttl - Elapsed(e))
    BY <1>6, <2>1, AgedFacts
  <2> QED BY <1>5, <2>1, <2>2 DEF Reply
<1> DEFINE ttl == e.pkt.ttl
           age == Elapsed(e)
<1>8. /\ ttl \in Nat /\ age \in Int
      /\ Second * age \in Int /\ Second * ttl \in Int /\ Second * (ttl - age) \in Int
      /\ Second * age <= now - e.stored /\ now - e.stored < (Second * age) + Second
      /\ now < e.stored + (Second * ttl)
  BY <1>4, <1>6, <1>7, ElapsedFacts
<1>9. age < ttl
  <2>1. Second * age < Second * ttl
    BY <1>6, <1>8
  <2> HIDE DEF age, ttl
  <2> QED BY <1>6, <1>8, <2>1
<1>10. outcome'[t].pkt.ttl = ttl - age /\ ttl - age > 0
  BY <1>7, <1>8, <1>9 DEF Max2
<1>11. Second * (ttl - age) = (Second * ttl) - (Second * age)
  <2> HIDE DEF age, ttl
  <2> QED BY <1>6, <1>8
<1>12. /\ e.stored + (Second * ttl) <= now + (Second * (ttl - age))
       /\ now + (Second * (ttl - age)) < e.stored + (Second * ttl) + Second
  BY <1>6, <1>8, <1>11
<1> HIDE DEF age
<1> QED BY <1>4, <1>10, <1>12 DEF ServedFrom

(* A cache hit is served before its entry expires, with a positive TTL     *)
(* that ends no earlier than the stored reply would have and overruns it   *)
(* by less than a second (router.cpp:242-256).                             *)
THEOREM HitAgesTtlHolds == Spec => HitAgesTtl
<1>1. Init => Lifetimes
  BY DEF Init, Lifetimes
<1>2. TypeOK /\ Lifetimes /\ [Next]_vars => [LookupServesFresh]_vars
  <2> SUFFICES ASSUME TypeOK, Lifetimes, Next, NEW t \in Threads,
                      pc[t] = "lookup", pc'[t] = "idle", outcome'[t].type = "reply"
               PROVE  \E e \in cache[snap[t]] : ServedFrom(e, t)
    BY DEF LookupServesFresh
  <2>1. Lookup(t)
    <3>1. ASSUME NEW u \in Threads, Serve(u), ~Lookup(u) PROVE pc'[t] = pc[t]
      BY <3>1 DEF Serve, Check, Acquire, Upstream, Publish, Wake, WaitTimeout,
                  WaitCancelled, FollowerEnds, TypeOK
    <3>2. ASSUME NEW u \in Threads, Lookup(u), u # t PROVE pc'[t] = pc[t]
      BY <3>2 DEF Lookup, Hit, Join, Busy, Lead, TypeOK
    <3>3. ASSUME NEW u \in Threads, NEW q \in Questions, Begin(u, q) PROVE pc'[t] = pc[t]
      BY <3>3 DEF Begin, TypeOK
    <3>4. CASE \/ Tick \/ NetworkChange \/ Reload \/ RequestStop \/ DropTransports
               \/ StopAccepting \/ ClearQueue \/ JoinHandlers \/ Start
      BY <3>4 DEF Tick, NetworkChange, Reload, RequestStop, DropTransports,
           StopAccepting, ClearQueue, JoinHandlers, Start, threads
    <3> QED BY <3>1, <3>2, <3>3, <3>4 DEF Next
  <2> QED BY <2>1, HitServesFresh
<1> QED BY <1>1, <1>2, TypeInit, TypeStep, LifetimesStep, PTL
        DEF Spec, HitAgesTtl

-----------------------------------------------------------------------------
(* Accounts: the byte count of a cache is the size of what it holds.       *)

(* The bytes of finitely many entries are finitely many. *)
LEMMA OctetsFinite ==
  ASSUME NEW S \in SUBSET Entries, IsFiniteSet(S)
  PROVE  IsFiniteSet(Octets(S)) /\ Total(S) \in Nat
<1> DEFINE T == {{e} \X (1..e.bytes) : e \in S}
           f == [e \in S |-> {e} \X (1..e.bytes)]
<1>1. f \in Surjection(S, T)
  BY DEF Surjection
<1>2. IsFiniteSet(T)
  <2> HIDE DEF T, f
  <2> QED BY <1>1, FS_Surjection
<1>3. ASSUME NEW e \in S PROVE IsFiniteSet({e} \X (1..e.bytes))
  <2>1. IsFiniteSet({e})
    BY FS_Singleton
  <2>2. e.bytes \in Int
    BY DEF Entries
  <2>3. IsFiniteSet(1..e.bytes)
    BY <2>2, FS_Interval
  <2> QED BY <2>1, <2>3, FS_Product
<1>4. IsFiniteSet(UNION T)
  <2>1. \A x \in T : IsFiniteSet(x)
    BY <1>3
  <2> HIDE DEF T
  <2> QED BY <2>1, <1>2, FS_UNION
<1> QED BY <1>4, FS_CardinalityType DEF Octets, Total

(* Entries that have nothing in common are counted separately. *)
LEMMA TotalUnion ==
  ASSUME NEW S \in SUBSET Entries, NEW T \in SUBSET Entries, S \cap T = {},
         IsFiniteSet(S), IsFiniteSet(T)
  PROVE  Total(S \union T) = Total(S) + Total(T)
<1>1. Octets(S \union T) = Octets(S) \union Octets(T)
  BY DEF Octets
<1>2. Octets(S) \cap Octets(T) = {}
  BY DEF Octets
<1>3. IsFiniteSet(Octets(S)) /\ IsFiniteSet(Octets(T))
      /\ Total(S) \in Nat /\ Total(T) \in Nat
  BY OctetsFinite
<1>4. Cardinality(Octets(S) \union Octets(T)) =
        Cardinality(Octets(S)) + Cardinality(Octets(T)) - Cardinality(Octets(S) \cap Octets(T))
  BY <1>3, FS_Union
<1>5. Cardinality(Octets(S) \cap Octets(T)) = 0
  BY <1>2, FS_EmptySet
<1>6. Total(S \union T) = Total(S) + Total(T) - 0
  BY <1>1, <1>4, <1>5 DEF Total
<1> QED BY <1>3, <1>6

(* Nothing has no bytes, and one entry its own. *)
LEMMA TotalSmall ==
  /\ Total({}) = 0
  /\ \A e \in Entries : Total({e}) = e.bytes
<1>1. Total({}) = 0
  <2>1. Octets({}) = {}
    BY DEF Octets
  <2> QED BY <2>1, FS_EmptySet DEF Total
<1>2. ASSUME NEW e \in Entries PROVE Total({e}) = e.bytes
  <2>1. Octets({e}) = {e} \X (1..e.bytes)
    BY DEF Octets
  <2>2. e.bytes \in Nat
    BY DEF Entries
  <2>3. IsFiniteSet(1..e.bytes) /\ Cardinality(1..e.bytes) = e.bytes
    <3> DEFINE n == e.bytes
    <3>1. n \in Int /\ 1 \in Int /\ n >= 0
      BY <2>2
    <3> HIDE DEF n
    <3>2. IsFiniteSet(1..n) /\ Cardinality(1..n) = IF 1 > n THEN 0 ELSE n - 1 + 1
      BY <3>1, FS_Interval
    <3>3. IsFiniteSet(1..n) /\ Cardinality(1..n) = n
      BY <3>1, <3>2
    <3> QED BY <3>3 DEF n
  <2>4. IsFiniteSet({e}) /\ Cardinality({e}) = 1
    BY FS_Singleton
  <2>5. Cardinality({e} \X (1..e.bytes)) = 1 * e.bytes
    BY <2>3, <2>4, FS_Product
  <2>6. Total({e}) = 1 * e.bytes
    BY <2>1, <2>5 DEF Total
  <2> QED BY <2>2, <2>6
<1> QED BY <1>1, <1>2

(* What is taken out of a set of entries takes its bytes with it. *)
LEMMA TotalLess ==
  ASSUME NEW S \in SUBSET Entries, IsFiniteSet(S), NEW T \in SUBSET S
  PROVE  /\ Total(S) = Total(T) + Total(S \ T)
         /\ IsFiniteSet(T) /\ IsFiniteSet(S \ T)
         /\ Total(S) \in Nat /\ Total(T) \in Nat /\ Total(S \ T) \in Nat
<1>1. IsFiniteSet(T) /\ IsFiniteSet(S \ T)
  BY FS_Subset, FS_Difference
<1>2. T \union (S \ T) = S /\ T \cap (S \ T) = {}
  OBVIOUS
<1>3. T \in SUBSET Entries /\ S \ T \in SUBSET Entries
  OBVIOUS
<1>4. Total(T \union (S \ T)) = Total(T) + Total(S \ T)
  BY <1>1, <1>2, <1>3, TotalUnion
<1> QED BY <1>1, <1>2, <1>3, <1>4, OctetsFinite

\* No entry answers a query that is in flight, so publishing one replaces none.
LeadersMissed ==
  \A s \in Snapshots, k \in Keys :
    pending[s][k] # Nobody => \A e \in cache[s] : e.key # k

Accounts ==
  /\ cacheBytes \in [Snapshots -> Int]
  /\ \A s \in Snapshots : IsFiniteSet(cache[s])
  /\ CacheAccounted
  /\ LeadersMissed

\* One cache within its accounts and limits, held in the set c with b bytes counted.
Within(c, b) ==
  /\ IsFiniteSet(c) /\ b = Total(c)
  /\ Cardinality(c) <= Max2(MaxEntries, 1)
  /\ b <= MaxBytes \/ Cardinality(c) = 1

(* The accounts are those of the single caches. *)
LEMMA AccountsWithin ==
  Accounts <=> /\ cacheBytes \in [Snapshots -> Int] /\ LeadersMissed
               /\ \A s \in Snapshots : Within(cache[s], cacheBytes[s])
BY DEF Accounts, CacheAccounted, BytesExact, CacheBounded, Within

(* Dropping entries and their bytes keeps a cache within its limits. *)
LEMMA WithinLess ==
  ASSUME NEW c \in SUBSET Entries, NEW b, Within(c, b), NEW d \in SUBSET c
  PROVE  Within(c \ d, b - Total(d))
<1>1. /\ Total(c) = Total(c \ d) + Total(d) /\ IsFiniteSet(c \ d)
      /\ Total(c) \in Nat /\ Total(d) \in Nat /\ Total(c \ d) \in Nat
  BY TotalLess DEF Within
<1>2. b - Total(d) = Total(c \ d) /\ b - Total(d) <= b
  BY <1>1 DEF Within
<1>3. /\ Cardinality(c \ d) \in Nat /\ Cardinality(c) \in Nat
      /\ Cardinality(c \ d) <= Cardinality(c)
      /\ Cardinality(c \ d) = 0 => c \ d = {}
  BY <1>1, FS_Subset, FS_CardinalityType, FS_EmptySet DEF Within
<1>4. Max2(MaxEntries, 1) \in Nat /\ MaxBytes \in Nat
  BY QueryCacheConstants DEF Max2
<1>5. Cardinality(c \ d) <= Max2(MaxEntries, 1)
  BY <1>3, <1>4 DEF Within
<1>6. b - Total(d) <= MaxBytes \/ Cardinality(c \ d) = 1
  <2>1. CASE b <= MaxBytes
    <3>1. b \in Nat /\ b - Total(d) \in Nat
      BY <1>1, <1>2 DEF Within
    <3> QED BY <2>1, <3>1, <1>2, <1>4
  <2>2. CASE Cardinality(c) = 1 /\ Cardinality(c \ d) = 0
    BY <2>2, <1>2, <1>3, <1>4, TotalSmall
  <2> QED BY <2>1, <2>2, <1>3 DEF Within
<1> QED BY <1>1, <1>2, <1>5, <1>6 DEF Within

(* A new entry that fits, or is the only one, keeps a cache within its limits. *)
LEMMA WithinMore ==
  ASSUME NEW c \in SUBSET Entries, NEW b, Within(c, b), NEW d \in SUBSET c,
         NEW e \in Entries, e \notin c,
         c \ d = {} \/ (Cardinality(c \ d) < MaxEntries /\ b - Total(d) + e.bytes <= MaxBytes)
  PROVE  Within((c \ d) \union {e}, b - Total(d) + e.bytes)
<1> DEFINE kept == c \ d
<1>1. /\ b - Total(d) = Total(kept) /\ IsFiniteSet(kept)
      /\ Total(kept) \in Nat
  <2>1. Total(c) = Total(d) + Total(kept) /\ IsFiniteSet(kept)
        /\ Total(c) \in Nat /\ Total(d) \in Nat /\ Total(kept) \in Nat
    BY TotalLess DEF Within
  <2> QED BY <2>1 DEF Within
<1>2. kept \in SUBSET Entries /\ {e} \in SUBSET Entries /\ kept \cap {e} = {} /\ e \notin kept
  OBVIOUS
<1>3. IsFiniteSet({e}) /\ Total({e}) = e.bytes
  BY FS_Singleton, TotalSmall
<1> HIDE DEF kept
<1>4. Total(kept \union {e}) = b - Total(d) + e.bytes
  <2>1. Total(kept \union {e}) = Total(kept) + Total({e})
    BY <1>1, <1>2, <1>3, TotalUnion
  <2> QED BY <2>1, <1>1, <1>3
<1>5. /\ IsFiniteSet(kept \union {e})
      /\ Cardinality(kept \union {e}) = Cardinality(kept) + 1
      /\ Cardinality(kept) \in Nat
  BY <1>1, <1>2, FS_AddElement, FS_CardinalityType
<1>6. Max2(MaxEntries, 1) \in Nat /\ 1 <= Max2(MaxEntries, 1) /\ MaxEntries <= Max2(MaxEntries, 1)
      /\ MaxEntries \in Nat
  BY QueryCacheConstants DEF Max2
<1>7. CASE kept = {}
  <2>1. Cardinality(kept) = 0
    BY <1>7, FS_EmptySet
  <2>2. Cardinality(kept \union {e}) = 1
    BY <2>1, <1>5
  <2> QED BY <1>4, <1>5, <1>6, <2>2 DEF Within, kept
<1>8. CASE Cardinality(kept) < MaxEntries /\ b - Total(d) + e.bytes <= MaxBytes
  <2>1. Cardinality(kept \union {e}) <= Max2(MaxEntries, 1)
    BY <1>5, <1>6, <1>8
  <2> QED BY <1>4, <1>5, <1>8, <2>1 DEF Within, kept
<1> QED BY <1>7, <1>8 DEF kept

(* A lookup drops expired entries and may make its thread a leader: of a   *)
(* key the cache has no entry for.                                         *)
LEMMA AccountsLookup ==
  ASSUME TypeOK, Accounts, NEW t \in Threads, Lookup(t)
  PROVE  Accounts'
<1> DEFINE s == snap[t]
           dead == cache[s] \ Fresh(cache[s])
<1>1. s \in Snapshots /\ key[t] \in Keys /\ cache[s] \in SUBSET Entries
  BY DEF TypeOK
<1>2. /\ cache' = [cache EXCEPT ![s] = Fresh(@)]
      /\ cacheBytes' = [cacheBytes EXCEPT ![s] = @ - Total(dead)]
  BY DEF Lookup, PurgeExpired
<1>3. Fresh(cache[s]) = cache[s] \ dead /\ dead \in SUBSET cache[s]
  BY DEF Fresh
<1>4. Within(cache[s] \ dead, cacheBytes[s] - Total(dead))
  <2> HIDE DEF dead, s
  <2> QED BY <1>1, <1>3, WithinLess, AccountsWithin
<1>5. cache'[s] = cache[s] \ dead /\ \A r \in Snapshots : r # s => cache'[r] = cache[r]
  BY <1>1, <1>2, <1>3 DEF TypeOK
<1>6. cacheBytes'[s] = cacheBytes[s] - Total(dead)
      /\ \A r \in Snapshots : r # s => cacheBytes'[r] = cacheBytes[r]
  BY <1>1, <1>2 DEF Accounts
<1>7. \A r \in Snapshots : Within(cache'[r], cacheBytes'[r])
  <2> HIDE DEF dead, s
  <2> QED BY <1>1, <1>4, <1>5, <1>6, AccountsWithin
<1>8. cacheBytes' \in [Snapshots -> Int]
  <2>1. cacheBytes[s] - Total(dead) \in Int
    <3> HIDE DEF dead, s
    <3>1. IsFiniteSet(dead) /\ dead \in SUBSET Entries
      BY <1>1, <1>3, FS_Subset DEF Accounts
    <3> QED BY <1>1, <3>1, OctetsFinite DEF Accounts
  <2> QED BY <2>1, <1>2 DEF Accounts
<1>9. LeadersMissed'
  <2> SUFFICES ASSUME NEW r \in Snapshots, NEW k \in Keys, pending'[r][k] # Nobody,
                      NEW e \in cache'[r]
               PROVE  e.key # k
    BY DEF LeadersMissed
  <2>1. e \in cache[r]
    BY <1>3, <1>5
  <2>2. CASE pending'[r][k] = pending[r][k]
    BY <2>1, <2>2 DEF Accounts, LeadersMissed
  <2>3. CASE pending'[r][k] # pending[r][k]
    <3>1. Lead(t) /\ \A x \in Fresh(cache[s]) : x.key # key[t]
      BY <2>3 DEF Lookup, Hit, Join, Busy
    <3>2. r = s /\ k = key[t]
      BY <2>3, <3>1 DEF Lead, TypeOK
    <3> QED BY <3>1, <3>2, <1>3, <1>5
  <2> QED BY <2>2, <2>3
<1> QED BY <1>7, <1>8, <1>9
        DEF Accounts, CacheAccounted, BytesExact, CacheBounded, Within

(* Publication stores at most one reply, which replaces no other and fits. *)
LEMMA AccountsPublish ==
  ASSUME TypeOK, Leadership, Accounts, NEW t \in Threads, Publish(t)
  PROVE  Accounts'
<1> DEFINE s == snap[t]
<1>1. s \in Snapshots /\ key[t] \in Keys /\ cache[s] \in SUBSET Entries
  BY DEF TypeOK
<1>2. pending[s][key[t]] # Nobody /\ \A x \in cache[s] : x.key # key[t]
  <2>1. pending[s][key[t]] = t
    BY DEF Publish, Leadership, SingleFlight, LeaderPcs
  <2> QED BY <2>1, <1>1, QueryCacheConstants DEF Accounts, LeadersMissed
<1>3. \A r \in Snapshots, k \in Keys :
        pending'[r][k] = IF r = s /\ k = key[t] THEN Nobody ELSE pending[r][k]
  BY DEF Publish, TypeOK
<1>4. CASE UNCHANGED <<cache, cacheBytes>>
  BY <1>3, <1>4 DEF Accounts, CacheAccounted, BytesExact, CacheBounded, LeadersMissed
<1>5. ASSUME NEW evicted \in SUBSET cache[s], outcome[t].type = "reply",
             Evicts(s, evicted, Bytes[key[t].q]),
             Insert(s, EntryFor(t, outcome[t].pkt), evicted)
      PROVE  Accounts'
  <2> DEFINE e == EntryFor(t, outcome[t].pkt)
  <2>1. e \in Entries /\ e.key = key[t] /\ e.bytes = Bytes[key[t].q]
    <3>1. outcome[t].pkt \in Packets
      BY <1>5, ReplyOutcome DEF TypeOK
    <3>2. Min2(CacheTtl(outcome[t].pkt), MaxCacheTtl) \in Nat
      BY <3>1, QueryCacheConstants DEF Packets, Min2, CacheTtl
    <3>3. Second * Min2(CacheTtl(outcome[t].pkt), MaxCacheTtl) \in Nat
      BY <3>2, QueryCacheConstants
    <3> QED BY <3>1, <3>3, QueryCacheConstants DEF EntryFor, Entries, TypeOK, Keys
  <2> HIDE DEF e
  <2>2. e \notin cache[s] /\ {x \in cache[s] \ evicted : x.key # e.key} = cache[s] \ evicted
    BY <1>2, <2>1
  <2>3. /\ cache'[s] = (cache[s] \ evicted) \union {e}
        /\ \A r \in Snapshots : r # s => cache'[r] = cache[r]
    BY <1>1, <1>5, <2>2 DEF Insert, TypeOK, e
  <2>4. /\ cacheBytes' = [cacheBytes EXCEPT ![s] = @ - Total(evicted) + e.bytes]
        /\ cacheBytes'[s] = cacheBytes[s] - Total(evicted) + e.bytes
        /\ \A r \in Snapshots : r # s => cacheBytes'[r] = cacheBytes[r]
    BY <1>1, <1>5 DEF Insert, Accounts, e
  <2>5. \/ cache[s] \ evicted = {}
        \/ /\ Cardinality(cache[s] \ evicted) < MaxEntries
           /\ cacheBytes[s] - Total(evicted) + e.bytes <= MaxBytes
    <3>1. cache[s] \ (cache[s] \ evicted) = evicted
      OBVIOUS
    <3> QED BY <1>5, <2>1, <3>1 DEF Evicts, Fits
  <2>6. Within(cache[s], cacheBytes[s])
    BY <1>1, AccountsWithin
  <2>7. Within((cache[s] \ evicted) \union {e}, cacheBytes[s] - Total(evicted) + e.bytes)
    <3> HIDE DEF s
    <3> QED BY <1>1, <2>1, <2>2, <2>5, <2>6, WithinMore
  <2>8. \A r \in Snapshots : Within(cache'[r], cacheBytes'[r])
    BY <2>3, <2>4, <2>7, AccountsWithin
  <2>9. cacheBytes' \in [Snapshots -> Int]
    <3>1. IsFiniteSet(evicted) /\ evicted \in SUBSET Entries
      BY <1>1, FS_Subset DEF Accounts
    <3>2. Total(evicted) \in Nat /\ e.bytes \in Nat
      BY <3>1, <2>1, OctetsFinite DEF Entries
    <3> QED BY <1>1, <2>4, <3>2 DEF Accounts
  <2>10. LeadersMissed'
    BY <1>3, <2>1, <2>3 DEF Accounts, LeadersMissed
  <2> QED BY <2>8, <2>9, <2>10
          DEF Accounts, CacheAccounted, BytesExact, CacheBounded, Within
<1> QED BY <1>4, <1>5 DEF Publish, StoreReply

(* Every step keeps the accounts. *)
LEMMA AccountsStep == TypeOK /\ Leadership /\ Accounts /\ [Next]_vars => Accounts'
<1> SUFFICES ASSUME TypeOK, Leadership, Accounts, [Next]_vars PROVE Accounts'
  OBVIOUS
<1>1. CASE UNCHANGED store
  BY <1>1 DEF store, Accounts, CacheAccounted, BytesExact, CacheBounded, LeadersMissed
<1>2. ASSUME NEW t \in Threads,
             Check(t) \/ Acquire(t) \/ Upstream(t) \/ Wake(t) \/ WaitTimeout(t) \/ WaitCancelled(t)
      PROVE  UNCHANGED store
  BY <1>2 DEF Check, Acquire, Upstream, Wake, WaitTimeout, WaitCancelled, FollowerEnds
<1>3. ASSUME NEW t \in Threads, NEW q \in Questions, Begin(t, q) PROVE UNCHANGED store
  BY <1>3 DEF Begin
<1>4. CASE \/ Tick \/ NetworkChange \/ Reload \/ RequestStop \/ DropTransports
           \/ StopAccepting \/ ClearQueue \/ JoinHandlers \/ Start \/ UNCHANGED vars
  BY <1>1, <1>4 DEF Tick, NetworkChange, Reload, RequestStop, DropTransports,
       StopAccepting, ClearQueue, JoinHandlers, Start, NewSnapshot, vars
<1> QED BY <1>1, <1>2, <1>3, <1>4, AccountsLookup, AccountsPublish DEF Next, Serve

(* The initial caches are empty. *)
LEMMA AccountsInit == Init => Accounts
<1> SUFFICES ASSUME Init PROVE Accounts
  OBVIOUS
<1>1. \A s \in Snapshots : cache[s] = {} /\ cacheBytes[s] = 0
  BY DEF Init
<1>2. Within({}, 0)
  <2>1. IsFiniteSet({}) /\ Cardinality({}) = 0
    BY FS_EmptySet
  <2> QED BY <2>1, TotalSmall, QueryCacheConstants DEF Within, Max2
<1> QED BY <1>1, <1>2, AccountsWithin DEF Init, LeadersMissed

(* cache_bytes is always the size of what the cache holds, so neither the  *)
(* byte limit nor the limit on entries is ever missed, through expiry,     *)
(* eviction and insertion of every handler (router.cpp:244-309).           *)
THEOREM CacheAccountedHolds == Spec => []CacheAccounted
<1>1. Accounts => CacheAccounted
  BY DEF Accounts
<1>2. Init => Leadership
  BY DEF Init, Leadership, SingleFlight, WaitersLed, PublishersDecided, LeaderPcs
<1> QED BY <1>1, <1>2, AccountsInit, AccountsStep, TypeInit, TypeStep, LeadershipStep,
           PTL DEF Spec
=============================================================================
