-------------------------- MODULE CertificateCache --------------------------
(***************************************************************************)
(* DnsCryptTransport (NativeDNS.Core/src/dnscrypt.cpp): before a query is  *)
(* encrypted, the certificate of its provider comes from a cache, in which *)
(* one query at a time refreshes an entry.  The refresh is scheduled by    *)
(* the steady clock; whether a certificate is valid is decided by the      *)
(* system clock, which may be set forwards or back at any time.            *)
(*                                                                         *)
(* Signatures and encryption are libsodium's.  A provider key stands for   *)
(* the endpoint, provider key, relay, fallback policy and network context  *)
(* that make up a cache key.                                               *)
(***************************************************************************)
EXTENDS Integers, FiniteSets

CONSTANTS
  Clients,       \* threads that run exchange()
  Providers,     \* cache keys
  Anonymized,    \* providers that are asked through a relay
  MayAskDirect,  \* those whose policy allows a direct certificate request
  Certificates,  \* [serial, from, until]: what providers may offer
  CacheLimit,    \* 128 entries
  RefreshTime,   \* 3600 s, at most
  MaxSteady,     \* bound of the model: the steady clock stops here
  MaxWall,       \* bound of the model: the system clock stays below
  NoCertificate

ASSUME CertificateConstants ==
  /\ Certificates \subseteq [serial : Nat, from : Nat, until : Nat]
  /\ {CacheLimit, RefreshTime, MaxSteady, MaxWall} \subseteq Nat
  /\ NoCertificate \notin Certificates

VARIABLES
  wall,    \* system clock
  steady,  \* steady clock
  store,   \* [providers present -> CertificateState]
  load     \* [Clients -> the query in progress]

certificateVars == <<wall, steady, store, load>>

Gone == [at |-> "gone"]
Blank == [certificate |-> NoCertificate, refreshAfter |-> 0, refreshing |-> FALSE]

CertificateInit ==
  /\ wall = 0 /\ steady = 0
  /\ store = <<>>
  /\ load = [c \in Clients |-> Gone]

Valid(certificate, time) ==
  /\ certificate # NoCertificate
  /\ certificate.from <= time /\ time < certificate.until

\* select_dnscrypt_certificate: the highest serial of those that are valid now
Selected(offered, time) ==
  LET usable == {x \in offered : Valid(x, time)}
  IN  {x \in usable : \A y \in usable : y.serial <= x.serial}

-----------------------------------------------------------------------------
BeginLoad(c, p) ==
  /\ load[c].at = "gone"
  /\ load' = [load EXCEPT ![c] = [at |-> "enter", provider |-> p, seen |-> {wall}]]
  /\ UNCHANGED <<wall, steady, store>>

Holders(p) == {c \in Clients : load[c].at \in {"join", "began", "fetch"} /\ load[c].provider = p}
Evictable == {p \in DOMAIN store : Holders(p) = {} /\ ~store[p].refreshing}

\* What the first critical section may erase before it looks a provider up.
Evictions ==
  LET excess == Cardinality(DOMAIN store) - CacheLimit + 1
      count == IF excess < Cardinality(Evictable) THEN excess ELSE Cardinality(Evictable)
  IN  IF excess <= 0 THEN {{}} ELSE {gone \in SUBSET Evictable : Cardinality(gone) = count}

\* The certificate the query is encrypted with.
Uses(c, certificate) ==
  load' = [load EXCEPT ![c] = [at |-> "query", over |-> "udp", seen |-> @.seen \union {wall},
                               certificate |-> certificate]]

Leads(c, current) ==
  load' = [load EXCEPT ![c] = [at |-> "began", provider |-> @.provider,
                               seen |-> @.seen \union {wall}, current |-> current]]

\* Mutant of Fresh: the validity by the system clock is not checked again.
FreshUnchecked(state) == state.certificate # NoCertificate /\ steady < state.refreshAfter

Fresh(state) == Valid(state.certificate, wall) /\ steady < state.refreshAfter

\* One round of the loop: hit, lead or wait.
Round(c, p, entries) ==
  LET state == IF p \in DOMAIN entries THEN entries[p] ELSE Blank
      put(s) == [x \in DOMAIN entries \union {p} |-> IF x = p THEN s ELSE entries[x]]
  IN
  \/ /\ Fresh(state)
     /\ store' = put(state)
     /\ Uses(c, state.certificate)
  \/ /\ ~Fresh(state) /\ ~state.refreshing
     /\ store' = put([state EXCEPT !.refreshing = TRUE])
     /\ Leads(c, IF Valid(state.certificate, wall) THEN state.certificate ELSE NoCertificate)
  \/ /\ ~Fresh(state) /\ state.refreshing
     /\ store' = put(state)
     /\ load' = [load EXCEPT ![c] = [at |-> "join", provider |-> p, seen |-> @.seen \union {wall}]]

EnterCache(c) ==
  LET p == load[c].provider IN
  /\ load[c].at = "enter"
  /\ \E gone \in Evictions :
       LET entries == [x \in DOMAIN store \ gone |-> store[x]] IN
       IF p \notin DOMAIN entries /\ Cardinality(DOMAIN entries) >= CacheLimit
       THEN store' = entries /\ load' = [load EXCEPT ![c] = Gone]
       ELSE Round(c, p, entries)
  /\ UNCHANGED <<wall, steady>>

\* Woken up, or at the next poll.
JoinAgain(c) ==
  /\ load[c].at = "join"
  /\ ~store[load[c].provider].refreshing \/ Fresh(store[load[c].provider])
  /\ Round(c, load[c].provider, store)
  /\ UNCHANGED <<wall, steady>>

\* "certificate refresh is busy", or CANCELLED
JoinFails(c) ==
  /\ load[c].at = "join"
  /\ load' = [load EXCEPT ![c] = Gone]
  /\ UNCHANGED <<wall, steady, store>>

-----------------------------------------------------------------------------
(* fetch_certificates, for the one query that leads                        *)

Route(p) == IF p \in Anonymized THEN "relay" ELSE "direct"

Fetching(c, stage, via, over) ==
  load' = [load EXCEPT ![c] =
    [at |-> "fetch", provider |-> @.provider, seen |-> @.seen \union {wall},
     current |-> @.current, now |-> IF @.at = "began" THEN wall ELSE @.now,
     stage |-> stage, via |-> via, over |-> over]]

BeginFetch(c) ==
  /\ load[c].at = "began"
  /\ Fetching(c, "first", Route(load[c].provider), "udp")
  /\ UNCHANGED <<wall, steady, store>>

MayFallBack(c) ==
  /\ load[c].stage = "first"
  /\ load[c].provider \in Anonymized \intersect MayAskDirect

\* UDP, then TCP, then the same without the relay where that is allowed.
FetchElsewhere(c, retryable) ==
  /\ load[c].at = "fetch"
  /\ \/ /\ load[c].over = "udp" /\ retryable
        /\ Fetching(c, load[c].stage, load[c].via, "tcp")
     \/ /\ ~(load[c].over = "udp" /\ retryable) /\ MayFallBack(c)
        /\ Fetching(c, "fallback", "direct", "udp")
  /\ UNCHANGED <<wall, steady, store>>

\* A truncated answer is asked for again over TCP, on the provider's own route.
FetchTruncated(c) ==
  /\ load[c].at = "fetch" /\ load[c].stage # "again"
  /\ Fetching(c, "again", Route(load[c].provider), "tcp")
  /\ UNCHANGED <<wall, steady, store>>

\* refresh_after counts from the end of the fetch, the validity from its start.
FetchAnswers(c, offered) ==
  /\ load[c].at = "fetch"
  /\ \E certificate \in Selected(offered, load[c].now) :
       LET left == certificate.until - load[c].now IN
       /\ store' = [store EXCEPT ![load[c].provider] =
            [certificate |-> certificate, refreshing |-> FALSE,
             refreshAfter |-> steady + IF left < RefreshTime THEN left ELSE RefreshTime]]
       /\ Uses(c, certificate)
  /\ UNCHANGED <<wall, steady>>

\* No answer, or no usable certificate: the one that was still valid is kept.
FetchFails(c) ==
  /\ load[c].at = "fetch"
  /\ store' = [store EXCEPT ![load[c].provider].refreshing = FALSE]
  /\ IF load[c].current # NoCertificate THEN Uses(c, load[c].current)
     ELSE load' = [load EXCEPT ![c] = Gone]
  /\ UNCHANGED <<wall, steady>>

-----------------------------------------------------------------------------
\* A retryable error or a truncated answer over UDP is asked for over TCP.
QueryOverTcp(c) ==
  /\ load[c].at = "query" /\ load[c].over = "udp"
  /\ load' = [load EXCEPT ![c].over = "tcp"]
  /\ UNCHANGED <<wall, steady, store>>

QueryEnds(c) ==
  /\ load[c].at = "query"
  /\ load' = [load EXCEPT ![c] = Gone]
  /\ UNCHANGED <<wall, steady, store>>

\* External: time passes, or the system clock is set.
Passes(seconds, time) ==
  /\ steady + seconds <= MaxSteady
  /\ steady' = steady + seconds
  /\ wall' = time
  /\ load' = [c \in Clients |->
       IF load[c].at \in {"gone", "query"} THEN load[c] ELSE [load[c] EXCEPT !.seen = @ \union {time}]]
  /\ UNCHANGED store

CertificateWorks(c) ==
  \/ EnterCache(c) \/ JoinAgain(c) \/ JoinFails(c) \/ BeginFetch(c) \/ FetchTruncated(c)
  \/ FetchFails(c) \/ QueryOverTcp(c) \/ QueryEnds(c)
  \/ \E retryable \in BOOLEAN : FetchElsewhere(c, retryable)
  \/ \E offered \in SUBSET Certificates : FetchAnswers(c, offered)

CertificateNext ==
  \/ \E c \in Clients, p \in Providers : BeginLoad(c, p)
  \/ \E c \in Clients : CertificateWorks(c)
  \/ \E seconds \in 0..1, time \in 0..MaxWall : Passes(seconds, time)

-----------------------------------------------------------------------------
(* A refresh is marked exactly while one query performs it, and a provider *)
(* that is waited for stays in the cache.                                  *)
CertificateRefreshes ==
  \A p \in Providers :
    LET leaders == {c \in Holders(p) : load[c].at # "join"} IN
    /\ Holders(p) # {} => p \in DOMAIN store
    /\ Cardinality(leaders) = (IF p \in DOMAIN store /\ store[p].refreshing THEN 1 ELSE 0)

(* Whatever the two clocks do and however the refresh ends, the            *)
(* certificate a query is encrypted with was valid by the system clock at  *)
(* some moment since that query asked for it.                              *)
CertificateValid ==
  \A c \in Clients : load[c].at = "query" =>
    \E time \in load[c].seen : Valid(load[c].certificate, time)
=============================================================================
