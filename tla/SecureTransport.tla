-------------------------- MODULE SecureTransport --------------------------
(***************************************************************************)
(* SecureTransport (NativeDNS.Core/src/dns_secure.cpp): one DoH or DoT     *)
(* transport shared by the handlers of a routing snapshot.  A request      *)
(* leases a libcurl handle of its upstream's pool and, when the upstream   *)
(* has no numeric address, looks it up in a bootstrap cache, which one     *)
(* request at a time refreshes by asking the resolvers in turn, for an     *)
(* IPv4 address first.  DoT retries a transport failure once, with the     *)
(* deadline of the first attempt.                                          *)
(*                                                                         *)
(* An upstream stands for a pool key, its host for a bootstrap key; both   *)
(* keys contain the network context.  Time is in ticks.  TLS and HTTP are  *)
(* libcurl's: a transfer ends with one of the error classes of the code.   *)
(***************************************************************************)
EXTENDS Integers, FiniteSets

CONSTANTS
  Callers,      \* threads that run exchange()
  Upstreams,    \* configured servers in a network context
  Host,         \* [Upstreams -> host name and context]
  Context,      \* [Upstreams -> network generation]
  RetriesOnce,  \* TRUE for DoT, FALSE for DoH
  HandleLimit,  \* 4 or 8 handles of one upstream
  HandleKeys,   \* 128 pool keys
  HostLimit,    \* 128 bootstrap states
  Resolvers,    \* number of bootstrap resolvers
  Patience,     \* timeout_ms of a request, in ticks
  Share,        \* 1000 ms: the most one resolver is waited for
  MaxTtl,       \* 60 s: the longest an address is kept
  Cooldown,     \* 1 s after a failure
  MaxClock      \* bound of the model: the clock stops here

ASSUME SecureTransportConstants ==
  /\ RetriesOnce \in BOOLEAN
  /\ {HandleLimit, HandleKeys, HostLimit} \subseteq Nat \ {0}
  /\ {Resolvers, Patience, Share, MaxTtl, Cooldown, MaxClock} \subseteq Nat

VARIABLES
  clock,      \* steady clock
  handles,    \* [upstreams present in the pool -> number of handles]
  bootstrap,  \* [hosts present in the cache -> BootstrapState]
  call,       \* [Callers -> the request in progress]
  failedAt    \* [hosts -> end of the last failed refresh; history]

secureVars == <<clock, handles, bootstrap, call, failedAt>>

Away == [at |-> "away"]
Unresolved == [refreshing |-> FALSE, expires |-> 0, failed |-> FALSE, retryAfter |-> 0]
Rounds == 2 * Resolvers
Hosts == {Host[u] : u \in Upstreams}

SecureInit ==
  /\ clock = 0
  /\ handles = <<>>
  /\ bootstrap = <<>>
  /\ call = [c \in Callers |-> Away]
  /\ failedAt = [h \in Hosts |-> -Cooldown]

Set(f, k, v) == [x \in DOMAIN f \union {k} |-> IF x = k THEN v ELSE f[x]]
Leased(u) == {c \in Callers : call[c].at \notin {"away", "acquire", "queued"} /\ call[c].upstream = u}
Late(c) == clock >= call[c].deadline

\* The lease is given back; a DoT request tries once more.
Ends(c, retryable) ==
  IF RetriesOnce /\ retryable /\ call[c].attempt = 1
  THEN [at |-> "acquire", upstream |-> call[c].upstream, deadline |-> call[c].deadline, attempt |-> 2]
  ELSE Away

Goes(c, at) ==
  [at |-> at, upstream |-> call[c].upstream, deadline |-> call[c].deadline,
   attempt |-> call[c].attempt]

-----------------------------------------------------------------------------
BeginSecure(c, u) ==
  /\ call[c].at = "away"
  /\ call' = [call EXCEPT ![c] = [at |-> "acquire", upstream |-> u,
                                  deadline |-> clock + Patience, attempt |-> 1]]
  /\ UNCHANGED <<clock, handles, bootstrap, failedAt>>

\* The keys an acquisition erases: idle ones of another generation at its
\* start, every idle one when the pool is at its limit.
Dropped(u, starts) ==
  LET idle == {k \in DOMAIN handles : Leased(k) = {}}
      retired == {k \in idle : starts /\ Context[k] # Context[u]}
      full == u \notin DOMAIN handles /\ Cardinality(DOMAIN handles \ retired) >= HandleKeys
  IN  IF full THEN idle ELSE retired

\* One round of acquire(): UPSTREAM_BUSY, a lease, or a wait.
AcquireHandle(c) ==
  LET u == call[c].upstream
      kept == [k \in DOMAIN handles \ Dropped(u, call[c].at = "acquire") |-> handles[k]]
      room == u \in DOMAIN kept \/ Cardinality(DOMAIN kept) < HandleKeys
      needed == Cardinality(Leased(u)) + 1
      size == IF u \in DOMAIN kept /\ kept[u] > needed THEN kept[u] ELSE needed
  IN
  /\ call[c].at \in {"acquire", "queued"}
  /\ \/ ~room /\ handles' = kept /\ call' = [call EXCEPT ![c] = Away]
     \/ /\ room /\ needed <= HandleLimit
        /\ handles' = Set(kept, u, size)
        /\ call' = [call EXCEPT ![c] = Goes(c, "lookup")]
     \/ /\ room /\ needed > HandleLimit /\ call[c].at = "acquire"
        /\ handles' = kept
        /\ call' = [call EXCEPT ![c] = Goes(c, "queued")]
  /\ UNCHANGED <<clock, bootstrap, failedAt>>

\* "connection pool is busy", or CANCELLED
AcquireFails(c, late) ==
  /\ call[c].at = "queued" /\ (late => Late(c))
  /\ call' = [call EXCEPT ![c] = Ends(c, late)]
  /\ UNCHANGED <<clock, handles, bootstrap, failedAt>>

-----------------------------------------------------------------------------
(* bootstrap_endpoint                                                      *)

Referenced(h) == {c \in Callers : call[c].at \in {"share", "resolve"} /\ Host[call[c].upstream] = h}

Forgotten == {h \in DOMAIN bootstrap :
  Referenced(h) = {} /\ ~bootstrap[h].refreshing
    /\ bootstrap[h].expires <= clock /\ bootstrap[h].retryAfter <= clock}

Known(h) == h \in DOMAIN bootstrap \ Forgotten
State(h) == IF Known(h) THEN bootstrap[h] ELSE Unresolved
Cached(h) == State(h).expires > clock
Failing(h) == State(h).failed /\ State(h).retryAfter > clock
Room(h) == Known(h) \/ Cardinality(DOMAIN bootstrap \ Forgotten) < HostLimit
Slots(h, state) ==
  [x \in (DOMAIN bootstrap \ Forgotten) \union {h} |-> IF x = h THEN state ELSE bootstrap[x]]

\* The first critical section, or a round of its loop after a wait.
Enter(c) ==
  LET h == Host[call[c].upstream] IN
  /\ call[c].at \in {"lookup", "share"}
  /\ \/ /\ ~Room(h)
        /\ bootstrap' = [x \in DOMAIN bootstrap \ Forgotten |-> bootstrap[x]]
        /\ call' = [call EXCEPT ![c] = Ends(c, FALSE)]
     \/ /\ Room(h) /\ Cached(h)
        /\ bootstrap' = Slots(h, State(h))
        /\ call' = [call EXCEPT ![c] = Goes(c, "transfer")]
     \/ /\ Room(h) /\ ~Cached(h) /\ Failing(h)
        /\ bootstrap' = Slots(h, State(h))
        /\ call' = [call EXCEPT ![c] = Ends(c, FALSE)]
     \/ /\ Room(h) /\ ~Cached(h) /\ ~Failing(h) /\ State(h).refreshing
        /\ call[c].at = "lookup"
        /\ bootstrap' = Slots(h, State(h))
        /\ call' = [call EXCEPT ![c] = Goes(c, "share")]
     \/ /\ Room(h) /\ ~Cached(h) /\ ~Failing(h) /\ ~State(h).refreshing
        /\ bootstrap' = Slots(h, [State(h) EXCEPT !.refreshing = TRUE])
        /\ call' = [call EXCEPT ![c] =
             [at |-> "resolve", upstream |-> @.upstream, deadline |-> @.deadline,
              attempt |-> @.attempt, round |-> 0, ends |-> clock, began |-> clock]]
  /\ UNCHANGED <<clock, handles, failedAt>>

\* "Bootstrap refresh is busy", or CANCELLED
ShareFails(c, late) ==
  /\ call[c].at = "share" /\ (late => Late(c))
  /\ call' = [call EXCEPT ![c] = Ends(c, late)]
  /\ UNCHANGED <<clock, handles, bootstrap, failedAt>>

\* Mutant of Allowance: a resolver may use the whole second.
AllowanceWhole(left, rounds) == IF Share < left THEN Share ELSE left

\* What one resolver gets of the time that is left for the remaining rounds.
Allowance(left, rounds) ==
  LET even == left \div rounds
      part == IF Share < even THEN Share ELSE even
  IN  IF part < 1 THEN 1 ELSE part

\* The next resolver is asked when the last one has failed.
Ask(c) ==
  /\ call[c].at = "resolve" /\ call[c].round < Rounds /\ ~Late(c)
  /\ call' = [call EXCEPT ![c].round = @ + 1,
       ![c].ends = clock + Allowance(call[c].deadline - clock, Rounds - call[c].round)]
  /\ UNCHANGED <<clock, handles, bootstrap, failedAt>>

\* Mutant of Resolved: the time of the address is kept, the refresh stays marked.
ResolvedStuck(c, ttl) ==
  /\ call[c].at = "resolve" /\ call[c].round > 0
  /\ bootstrap' = [bootstrap EXCEPT ![Host[call[c].upstream]] =
       [refreshing |-> TRUE, failed |-> FALSE, retryAfter |-> @.retryAfter, expires |-> clock + ttl]]
  /\ call' = [call EXCEPT ![c] = Goes(c, "transfer")]
  /\ UNCHANGED <<clock, handles, failedAt>>

Resolved(c, ttl) ==
  /\ call[c].at = "resolve" /\ call[c].round > 0
  /\ bootstrap' = [bootstrap EXCEPT ![Host[call[c].upstream]] =
       [refreshing |-> FALSE, failed |-> FALSE, retryAfter |-> @.retryAfter, expires |-> clock + ttl]]
  /\ call' = [call EXCEPT ![c] = Goes(c, "transfer")]
  /\ UNCHANGED <<clock, handles, failedAt>>

\* No resolver is left, the deadline has passed, or the request is cancelled.
ResolveFails(c, cancelled) ==
  LET h == Host[call[c].upstream] IN
  /\ call[c].at = "resolve"
  /\ cancelled \/ Late(c) \/ call[c].round = Rounds
  /\ bootstrap' = [bootstrap EXCEPT ![h].refreshing = FALSE, ![h].failed = TRUE,
                                    ![h].retryAfter = clock + Cooldown]
  /\ failedAt' = [failedAt EXCEPT ![h] = clock]
  /\ call' = [call EXCEPT ![c] = Ends(c, FALSE)]
  /\ UNCHANGED <<clock, handles>>

-----------------------------------------------------------------------------
\* The answer, an error that ends the request, or a transport failure.
Transfer(c, retryable) ==
  /\ call[c].at = "transfer"
  /\ call' = [call EXCEPT ![c] = Ends(c, retryable)]
  /\ UNCHANGED <<clock, handles, bootstrap, failedAt>>

\* External: a resolver that does not answer is given up at the end of its share.
SecureTick ==
  /\ clock < MaxClock
  /\ \A c \in Callers : call[c].at = "resolve" => clock < call[c].ends
  /\ clock' = clock + 1
  /\ UNCHANGED <<handles, bootstrap, call, failedAt>>

SecureWorks(c) ==
  \/ AcquireHandle(c) \/ Enter(c) \/ Ask(c)
  \/ \E late \in BOOLEAN : AcquireFails(c, late) \/ ShareFails(c, late)
  \/ \E ttl \in 0..MaxTtl : Resolved(c, ttl)
  \/ \E cancelled \in BOOLEAN : ResolveFails(c, cancelled)
  \/ \E retryable \in BOOLEAN : Transfer(c, retryable)

SecureNext ==
  \/ \E c \in Callers, u \in Upstreams : BeginSecure(c, u)
  \/ \E c \in Callers : SecureWorks(c)
  \/ SecureTick

-----------------------------------------------------------------------------
(* A refresh is marked exactly while one request performs it, on every way *)
(* it may end, and the state of a host stays in the cache as long as       *)
(* a request waits on it: nobody waits for a refresh nobody performs.      *)
BootstrapRefreshes ==
  \A h \in Hosts :
    LET leaders == {c \in Referenced(h) : call[c].at = "resolve"} IN
    /\ Referenced(h) # {} => h \in DOMAIN bootstrap
    /\ Cardinality(leaders) = (IF h \in DOMAIN bootstrap /\ bootstrap[h].refreshing THEN 1 ELSE 0)

(* "an unresponsive first resolver leaves time for fallback" (docs/        *)
(* DNS_TRANSPORTS.md): a refresh that fails without being cancelled has    *)
(* asked every resolver for both address families, provided that it began  *)
(* with at least one tick for each.                                        *)
FallbackTried ==
  [][\A c \in Callers :
       /\ call[c].at = "resolve" /\ call'[c].at # "resolve"
       /\ failedAt' # failedAt /\ Late(c)
       /\ call[c].deadline - call[c].began >= Rounds
       => call[c].round = Rounds]_secureVars
=============================================================================
