-------------------------- MODULE TransportsProofs --------------------------
(***************************************************************************)
(* Machine-checked proofs about the transports, for any number of threads, *)
(* servers, ports and cache entries, and whatever the two clocks do.       *)
(*                                                                         *)
(* A behaviour of Transports is a behaviour of one of the three transports *)
(* in which the other two rest, so that an invariant of each is one of     *)
(* Transports: every part below is about one module and its own next-state *)
(* relation, and the theorems at the end bring them together.              *)
(***************************************************************************)
EXTENDS Transports, FiniteSetTheorems, SequenceTheorems, TLAPS

-----------------------------------------------------------------------------
(* The certificate cache.                                                  *)

\* What a client's query may be, stage by stage
Given == Certificates \union {NoCertificate}
Joins == [at : {"enter", "join"}, provider : Providers, seen : SUBSET Int]
Begins == [at : {"began"}, provider : Providers, seen : SUBSET Int, current : Given]
Fetches ==
  [at : {"fetch"}, provider : Providers, seen : SUBSET Int, current : Given, now : Int,
   stage : {"first", "fallback", "again"}, via : {"relay", "direct"}, over : {"udp", "tcp"}]
Queries == [at : {"query"}, over : {"udp", "tcp"}, seen : SUBSET Int, certificate : Given]
CertificateStates == [certificate : Given, refreshAfter : Int, refreshing : BOOLEAN]

LoadOK == load \in [Clients -> {Gone} \union Joins \union Begins \union Fetches \union Queries]
StoreOK == DOMAIN store \subseteq Providers /\ store \in [DOMAIN store -> CertificateStates]
CertificateTypeOK == wall \in Int /\ steady \in Int /\ LoadOK /\ StoreOK

\* Every certificate a query holds was valid when it was looked at.
WasValid(c, certificate) == \E time \in load[c].seen : Valid(certificate, time)
HeldValid ==
  \A c \in Clients :
    /\ load[c].at = "query" => WasValid(c, load[c].certificate)
    /\ load[c].at \in {"began", "fetch"} =>
         load[c].current = NoCertificate \/ WasValid(c, load[c].current)
    /\ load[c].at = "fetch" => load[c].now \in load[c].seen

\* One leader for every refresh that is marked, in an entry that stays
Leading(c, p) == load[c].at \in {"began", "fetch"} /\ load[c].provider = p
OneLeader ==
  /\ \A c \in Clients : load[c].at \in {"join", "began", "fetch"} => load[c].provider \in DOMAIN store
  /\ \A c \in Clients, p \in DOMAIN store : Leading(c, p) => store[p].refreshing
  /\ \A c, d \in Clients, p \in Providers : Leading(c, p) /\ Leading(d, p) => c = d
  /\ \A p \in DOMAIN store : store[p].refreshing => \E c \in Clients : Leading(c, p)

CertificateInv == CertificateTypeOK /\ HeldValid /\ OneLeader

(* The cache is empty at first. *)
LEMMA CertificateStarts == CertificateInit => CertificateInv
<1> SUFFICES ASSUME CertificateInit PROVE CertificateInv
  OBVIOUS
<1>1. CertificateTypeOK
  BY DEF CertificateInit, CertificateTypeOK, LoadOK, StoreOK
<1>2. HeldValid /\ OneLeader
  BY DEF CertificateInit, HeldValid, OneLeader, Leading, Gone
<1> QED BY <1>1, <1>2 DEF CertificateInv

(* A query that has what it needs keeps the rest in order. *)
LEMMA UsesFacts ==
  ASSUME CertificateInv, NEW c \in Clients, load[c] # Gone, NEW x \in Given, Uses(c, x)
  PROVE  /\ LoadOK' /\ load'[c].at = "query" /\ load'[c].certificate = x
         /\ load'[c].seen = load[c].seen \union {wall}
         /\ \A d \in Clients : d # c => load'[d] = load[d]
<1> USE DEF CertificateInv, CertificateTypeOK, LoadOK
<1>1. load[c].seen \in SUBSET Int
  BY DEF Joins, Begins, Fetches, Queries
<1>2. [at |-> "query", over |-> "udp", seen |-> load[c].seen \union {wall}, certificate |-> x] \in Queries
  BY <1>1 DEF Queries
<1>3. load' = [load EXCEPT ![c] = [at |-> "query", over |-> "udp", seen |-> load[c].seen \union {wall},
                                   certificate |-> x]]
  BY DEF Uses
<1> QED BY <1>2, <1>3

(* A query that leads a refresh remembers a certificate that was valid. *)
LEMMA LeadsFacts ==
  ASSUME CertificateInv, NEW c \in Clients, load[c].at \in {"enter", "join"}, NEW x \in Given,
         Leads(c, x)
  PROVE  /\ LoadOK' /\ load'[c].at = "began" /\ load'[c].current = x
         /\ load'[c].seen = load[c].seen \union {wall} /\ load'[c].provider = load[c].provider
         /\ \A d \in Clients : d # c => load'[d] = load[d]
<1> USE DEF CertificateInv, CertificateTypeOK, LoadOK
<1>1. load[c] \in Joins
  BY DEF Begins, Fetches, Queries, Gone
<1>2. [at |-> "began", provider |-> load[c].provider, seen |-> load[c].seen \union {wall},
       current |-> x] \in Begins
  BY <1>1 DEF Joins, Begins
<1>3. load' = [load EXCEPT ![c] = [at |-> "began", provider |-> load[c].provider,
                                   seen |-> load[c].seen \union {wall}, current |-> x]]
  BY DEF Leads
<1> QED BY <1>2, <1>3

(* A round of the cache over the entries that were kept, whichever way it  *)
(* ends.                                                                   *)
LEMMA RoundFacts ==
  ASSUME CertificateInv, NEW c \in Clients, NEW kept \in SUBSET DOMAIN store,
         load[c].at \in {"enter", "join"}, load[c].at = "join" => load[c].provider \in kept,
         \A x \in DOMAIN store \ kept : ~store[x].refreshing /\ Holders(x) = {},
         Round(c, load[c].provider, [x \in kept |-> store[x]]), UNCHANGED <<wall, steady>>
  PROVE  CertificateInv'
<1> USE DEF CertificateInv, CertificateTypeOK, StoreOK
<1> DEFINE p == load[c].provider
           state == IF p \in kept THEN store[p] ELSE Blank
<1>1. load[c] \in Joins /\ load[c] # Gone /\ p \in Providers /\ load[c].seen \subseteq Int
  BY DEF LoadOK, Joins, Begins, Fetches, Queries, Gone
<1>2. state \in CertificateStates
  BY DEF Blank, CertificateStates, Given
<1>3. \A d \in Clients, q \in Providers : Leading(d, q) => q \in kept
  BY DEF OneLeader, Leading, Holders
<1>4. \A d \in Clients : load[d].at \in {"join", "began", "fetch"} => load[d].provider \in kept
  BY DEF OneLeader, Holders
<1>5. ~Leading(c, p) /\ \A q \in Providers : ~Leading(c, q)
  BY DEF Leading
<1> HIDE DEF p, state
<1>6. ASSUME NEW s \in CertificateStates,
             store' = [x \in kept \union {p} |-> IF x = p THEN s ELSE [y \in kept |-> store[y]][x]]
      PROVE  /\ StoreOK' /\ DOMAIN store' = kept \union {p}
             /\ store'[p] = s /\ \A x \in kept : x # p => store'[x] = store[x]
  BY <1>1, <1>6
<1>7. CASE /\ Fresh(state) /\ Uses(c, state.certificate)
           /\ store' = [x \in kept \union {p} |-> IF x = p THEN state ELSE [y \in kept |-> store[y]][x]]
  <2>1. state.certificate \in Given
    BY <1>2 DEF CertificateStates
  <2>2. LoadOK' /\ load'[c].at = "query" /\ load'[c].certificate = state.certificate
        /\ load'[c].seen = load[c].seen \union {wall}
        /\ \A d \in Clients : d # c => load'[d] = load[d]
    BY <1>1, <1>7, <2>1, UsesFacts
  <2>3. StoreOK' /\ DOMAIN store' = kept \union {p} /\ store'[p] = state
        /\ \A x \in kept : x # p => store'[x] = store[x]
    BY <1>2, <1>6, <1>7
  <2>4. HeldValid'
    BY <1>7, <2>2 DEF HeldValid, WasValid, Fresh
  <2>5. OneLeader'
    <3>1. \A d \in Clients, q \in Providers : Leading(d, q)' <=> Leading(d, q)
      BY <1>5, <2>2 DEF Leading
    <3>2. p \in kept => state = store[p]
      BY DEF state
    <3>3. p \notin kept => ~state.refreshing
      BY DEF state, Blank
    <3> QED BY <1>1, <1>3, <1>4, <2>2, <2>3, <3>1, <3>2, <3>3 DEF OneLeader
  <2> QED BY <2>2, <2>3, <2>4, <2>5
<1>8. ASSUME ~Fresh(state), ~state.refreshing,
             store' = [x \in kept \union {p} |-> IF x = p THEN [state EXCEPT !.refreshing = TRUE]
                                                 ELSE [y \in kept |-> store[y]][x]],
             NEW x \in Given, x = NoCertificate \/ Valid(x, wall), Leads(c, x)
      PROVE  CertificateInv'
  <2>1. LoadOK' /\ load'[c].at = "began" /\ load'[c].current = x
        /\ load'[c].seen = load[c].seen \union {wall} /\ load'[c].provider = p
        /\ \A d \in Clients : d # c => load'[d] = load[d]
    BY <1>8, LeadsFacts DEF p
  <2>2. [state EXCEPT !.refreshing = TRUE] \in CertificateStates
        /\ [state EXCEPT !.refreshing = TRUE].refreshing
    BY <1>2 DEF CertificateStates
  <2>3. StoreOK' /\ DOMAIN store' = kept \union {p} /\ store'[p].refreshing
        /\ \A y \in kept : y # p => store'[y] = store[y]
    BY <1>6, <1>8, <2>2
  <2>4. HeldValid'
    BY <1>8, <2>1 DEF HeldValid, WasValid
  <2>5. OneLeader'
    <3>1. \A d \in Clients, q \in Providers :
            Leading(d, q)' <=> Leading(d, q) \/ (d = c /\ q = p)
      BY <1>5, <2>1 DEF Leading
    <3>2. \A d \in Clients : ~Leading(d, p)
      BY <1>1, <1>3, <1>8 DEF OneLeader, state
    <3> QED BY <1>1, <1>3, <1>4, <2>1, <2>3, <3>1, <3>2 DEF OneLeader
  <2> QED BY <2>1, <2>3, <2>4, <2>5
<1>9. CASE /\ state.refreshing
           /\ store' = [x \in kept \union {p} |-> IF x = p THEN state ELSE [y \in kept |-> store[y]][x]]
           /\ load' = [load EXCEPT ![c] = [at |-> "join", provider |-> p,
                                           seen |-> load[c].seen \union {wall}]]
  <2>1. [at |-> "join", provider |-> p, seen |-> load[c].seen \union {wall}] \in Joins
    BY <1>1 DEF Joins
  <2>2. LoadOK' /\ load'[c].at = "join" /\ load'[c].provider = p
        /\ \A d \in Clients : d # c => load'[d] = load[d]
    BY <1>9, <2>1 DEF LoadOK
  <2>3. p \in kept /\ state = store[p]
    BY <1>9 DEF state, Blank
  <2>4. StoreOK' /\ DOMAIN store' = kept /\ \A x \in kept : store'[x] = store[x]
    BY <1>2, <1>6, <1>9, <2>3
  <2>5. HeldValid'
    BY <2>2 DEF HeldValid, WasValid
  <2>6. OneLeader'
    <3>1. \A d \in Clients, q \in Providers : Leading(d, q)' <=> Leading(d, q)
      BY <1>5, <2>2 DEF Leading
    <3> QED BY <1>1, <1>3, <1>4, <2>2, <2>3, <2>4, <3>1 DEF OneLeader
  <2> QED BY <2>2, <2>4, <2>5, <2>6
<1>10. (IF Valid(state.certificate, wall) THEN state.certificate ELSE NoCertificate) \in Given
  BY <1>2 DEF CertificateStates, Given
<1>11. state = IF p \in DOMAIN [x \in kept |-> store[x]] THEN [x \in kept |-> store[x]][p] ELSE Blank
  BY DEF state
<1>12. load[c].provider = p
  BY DEF p
<1> QED BY <1>7, <1>8, <1>9, <1>10, <1>11, <1>12 DEF Round

(* The cache is entered: what an eviction takes nobody holds. *)
LEMMA CertificateEnters ==
  ASSUME CertificateInv, NEW c \in Clients, EnterCache(c) \/ JoinAgain(c)
  PROVE  CertificateInv'
<1> USE DEF CertificateInv, CertificateTypeOK
<1>1. CASE JoinAgain(c)
  <2>1. store = [x \in DOMAIN store |-> store[x]]
    BY DEF StoreOK
  <2>2. Round(c, load[c].provider, [x \in DOMAIN store |-> store[x]]) /\ UNCHANGED <<wall, steady>>
        /\ load[c].at = "join"
    BY <1>1, <2>1 DEF JoinAgain
  <2>3. load[c].provider \in DOMAIN store
    BY <2>2 DEF OneLeader
  <2> QED BY <2>2, <2>3, RoundFacts
<1>2. CASE EnterCache(c)
  <2>1. PICK gone \in Evictions :
          LET entries == [x \in DOMAIN store \ gone |-> store[x]] IN
          IF load[c].provider \notin DOMAIN entries /\ Cardinality(DOMAIN entries) >= CacheLimit
          THEN store' = entries /\ load' = [load EXCEPT ![c] = Gone]
          ELSE Round(c, load[c].provider, entries)
    BY <1>2 DEF EnterCache
  <2>2. load[c].at = "enter" /\ UNCHANGED <<wall, steady>>
    BY <1>2 DEF EnterCache
  <2>3. gone \subseteq Evictable
    BY <2>1 DEF Evictions
  <2>4. \A x \in gone : ~store[x].refreshing /\ Holders(x) = {}
    BY <2>3 DEF Evictable
  <2>5. CASE Round(c, load[c].provider, [x \in DOMAIN store \ gone |-> store[x]])
    BY <2>2, <2>4, <2>5, RoundFacts
  <2>6. CASE store' = [x \in DOMAIN store \ gone |-> store[x]] /\ load' = [load EXCEPT ![c] = Gone]
    <3>1. LoadOK' /\ StoreOK'
      BY <2>6 DEF LoadOK, StoreOK
    <3>2. load'[c] = Gone /\ \A d \in Clients : d # c => load'[d] = load[d]
      BY <2>6 DEF LoadOK
    <3>3. HeldValid'
      BY <3>2 DEF HeldValid, WasValid, Gone
    <3>4. \A d \in Clients : \A q : Leading(d, q)' <=> Leading(d, q)
      BY <2>2, <3>2 DEF Leading, Gone
    <3>5. \A d \in Clients : load[d].at \in {"join", "began", "fetch"} => load[d].provider \notin gone
      BY <2>4 DEF Holders
    <3>6. DOMAIN store' = DOMAIN store \ gone /\ \A x \in DOMAIN store' : store'[x] = store[x]
      BY <2>6
    <3>7. OneLeader'
      BY <3>2, <3>4, <3>5, <3>6 DEF OneLeader, Gone
    <3> QED BY <2>2, <3>1, <3>3, <3>7
  <2> QED BY <2>1, <2>5, <2>6
<1> QED BY <1>1, <1>2

(* A query that is not part of a refresh comes, goes on or ends. *)
LEMMA CertificateMoves ==
  ASSUME CertificateInv, NEW c \in Clients,
         \/ \E p \in Providers : BeginLoad(c, p)
         \/ JoinFails(c) \/ QueryOverTcp(c) \/ QueryEnds(c)
  PROVE  CertificateInv'
<1> USE DEF CertificateInv, CertificateTypeOK
<1>1. UNCHANGED <<wall, steady, store>> /\ load[c].at \in {"gone", "join", "query"}
      /\ load' = [load EXCEPT ![c] = load'[c]]
  BY DEF BeginLoad, JoinFails, QueryOverTcp, QueryEnds, LoadOK
<1>2. \/ load'[c] \in Joins /\ load'[c].at = "enter"
      \/ load'[c] = Gone
      \/ /\ load[c].at = "query" /\ load'[c] \in Queries /\ load'[c].at = "query"
         /\ load'[c].seen = load[c].seen /\ load'[c].certificate = load[c].certificate
  <2>1. ASSUME NEW p \in Providers, BeginLoad(c, p)
        PROVE  load'[c] \in Joins /\ load'[c].at = "enter"
    <3>1. [at |-> "enter", provider |-> p, seen |-> {wall}] \in Joins
      BY DEF Joins
    <3> QED BY <2>1, <3>1 DEF BeginLoad, LoadOK
  <2>2. CASE JoinFails(c) \/ QueryEnds(c)
    BY <2>2 DEF JoinFails, QueryEnds, LoadOK
  <2>3. CASE QueryOverTcp(c)
    <3>1. load[c] \in Queries
      BY <2>3 DEF QueryOverTcp, LoadOK, Joins, Begins, Fetches, Gone
    <3>2. load'[c] = [load[c] EXCEPT !.over = "tcp"]
      BY <2>3 DEF QueryOverTcp, LoadOK
    <3> QED BY <2>3, <3>1, <3>2 DEF QueryOverTcp, Queries
  <2> QED BY <2>1, <2>2, <2>3
<1>3. LoadOK' /\ StoreOK' /\ \A d \in Clients : d # c => load'[d] = load[d]
  BY <1>1, <1>2 DEF LoadOK, StoreOK
<1>4. \A d \in Clients, q \in Providers : Leading(d, q)' <=> Leading(d, q)
  BY <1>1, <1>2, <1>3 DEF Leading, Gone
<1>5. HeldValid'
  BY <1>1, <1>2, <1>3 DEF HeldValid, WasValid, Gone
<1>6. OneLeader'
  BY <1>1, <1>2, <1>3, <1>4 DEF OneLeader, Gone, StoreOK
<1> QED BY <1>1, <1>3, <1>5, <1>6

(* The leader of a refresh asks, and asks again elsewhere. *)
LEMMA CertificateFetches ==
  ASSUME CertificateInv, NEW c \in Clients,
         BeginFetch(c) \/ FetchTruncated(c) \/ \E retryable \in BOOLEAN : FetchElsewhere(c, retryable)
  PROVE  CertificateInv'
<1> USE DEF CertificateInv, CertificateTypeOK
<1>1. PICK stage \in {"first", "fallback", "again"}, via \in {"relay", "direct"},
           over \in {"udp", "tcp"} : Fetching(c, stage, via, over)
  <2>1. ASSUME BeginFetch(c) PROVE Fetching(c, "first", Route(load[c].provider), "udp")
    BY <2>1 DEF BeginFetch
  <2>2. ASSUME FetchTruncated(c) PROVE Fetching(c, "again", Route(load[c].provider), "tcp")
    BY <2>2 DEF FetchTruncated
  <2>3. Route(load[c].provider) \in {"relay", "direct"}
    BY DEF Route
  <2>4. ASSUME NEW retryable \in BOOLEAN, FetchElsewhere(c, retryable)
        PROVE  Fetching(c, load[c].stage, load[c].via, "tcp") \/ Fetching(c, "fallback", "direct", "udp")
    BY <2>4 DEF FetchElsewhere
  <2>5. ASSUME NEW retryable \in BOOLEAN, FetchElsewhere(c, retryable)
        PROVE  load[c].stage \in {"first", "fallback", "again"} /\ load[c].via \in {"relay", "direct"}
    BY <2>5 DEF FetchElsewhere, LoadOK, Gone, Joins, Begins, Fetches, Queries
  <2> QED BY <2>1, <2>2, <2>3, <2>4, <2>5
<1>2. UNCHANGED <<wall, steady, store>> /\ load[c] \in Begins \union Fetches
  BY DEF BeginFetch, FetchTruncated, FetchElsewhere, LoadOK, Gone, Joins, Begins, Fetches, Queries
<1> DEFINE now == IF load[c].at = "began" THEN wall ELSE load[c].now
           next == [at |-> "fetch", provider |-> load[c].provider,
                    seen |-> load[c].seen \union {wall}, current |-> load[c].current, now |-> now,
                    stage |-> stage, via |-> via, over |-> over]
<1>3. load' = [load EXCEPT ![c] = next]
  BY <1>1 DEF Fetching
<1>4. now \in Int /\ now \in load[c].seen \union {wall}
  BY <1>2 DEF Begins, Fetches, HeldValid
<1>5. next \in Fetches
  BY <1>2, <1>4 DEF Begins, Fetches
<1> HIDE DEF now
<1>6. load'[c] = next /\ \A d \in Clients : d # c => load'[d] = load[d]
  BY <1>3 DEF LoadOK
<1>7. LoadOK' /\ StoreOK'
  BY <1>2, <1>3, <1>5 DEF LoadOK, StoreOK
<1>8. load[c].at \in {"began", "fetch"}
  BY <1>2 DEF Begins, Fetches
<1>9. HeldValid'
  BY <1>4, <1>6, <1>8 DEF HeldValid, WasValid
<1>10. \A d \in Clients, q \in Providers : Leading(d, q)' <=> Leading(d, q)
  BY <1>6, <1>8 DEF Leading
<1>11. OneLeader'
  BY <1>2, <1>6, <1>8, <1>10 DEF OneLeader, StoreOK
<1> QED BY <1>2, <1>7, <1>9, <1>11

(* A refresh ends with its leader, and leaves no mark. *)
LEMMA CertificateRefreshEnds ==
  ASSUME CertificateInv, NEW c \in Clients, NEW s \in CertificateStates, ~s.refreshing,
         load[c].at = "fetch", store' = [store EXCEPT ![load[c].provider] = s],
         UNCHANGED <<wall, steady>>,
         \/ load' = [load EXCEPT ![c] = Gone]
         \/ \E x \in Given : Uses(c, x) /\ WasValid(c, x)
  PROVE  CertificateInv'
<1> USE DEF CertificateInv, CertificateTypeOK
<1> DEFINE p == load[c].provider
<1>1. load[c] # Gone /\ Leading(c, p) /\ p \in DOMAIN store
  BY DEF Gone, Leading, OneLeader
<1>2. LoadOK' /\ (\A d \in Clients : d # c => load'[d] = load[d])
      /\ (load'[c] = Gone \/ /\ load'[c].at = "query"
                             /\ \E time \in load'[c].seen : Valid(load'[c].certificate, time))
  <2>1. CASE load' = [load EXCEPT ![c] = Gone]
    BY <2>1 DEF LoadOK
  <2>2. ASSUME NEW x \in Given, Uses(c, x), WasValid(c, x)
        PROVE  LoadOK' /\ (\A d \in Clients : d # c => load'[d] = load[d])
               /\ load'[c].at = "query"
               /\ \E time \in load'[c].seen : Valid(load'[c].certificate, time)
    BY <1>1, <2>2, UsesFacts DEF WasValid
  <2> QED BY <2>1, <2>2
<1>3. StoreOK' /\ DOMAIN store' = DOMAIN store /\ ~store'[p].refreshing
      /\ \A x \in DOMAIN store : x # p => store'[x] = store[x]
  BY <1>1 DEF StoreOK
<1>4. HeldValid'
  BY <1>2 DEF HeldValid, WasValid, Gone
<1>5. \A d \in Clients, q \in Providers : Leading(d, q)' <=> Leading(d, q) /\ d # c
  BY <1>2 DEF Leading, Gone
<1>6. \A d \in Clients : d # c => ~Leading(d, p)
  BY <1>1 DEF OneLeader, StoreOK
<1>7. \A q \in Providers : Leading(c, q) => q = p
  BY DEF Leading
<1>8. OneLeader'
  BY <1>2, <1>3, <1>5, <1>6, <1>7 DEF OneLeader, Gone, StoreOK
<1> QED BY <1>2, <1>3, <1>4, <1>8

(* What was fetched is valid by the clock the fetch began with; what was   *)
(* kept, by the one the query was answered with.                           *)
LEMMA CertificateEnds ==
  ASSUME CertificateInv, NEW c \in Clients,
         FetchFails(c) \/ \E offered \in SUBSET Certificates : FetchAnswers(c, offered)
  PROVE  CertificateInv'
<1> USE DEF CertificateInv, CertificateTypeOK
<1> DEFINE p == load[c].provider
<1>1. load[c].at = "fetch" /\ load[c] \in Fetches
  BY DEF FetchFails, FetchAnswers, LoadOK, Gone, Joins, Begins, Queries
<1>2. load[c].now \in Int /\ load[c].now \in load[c].seen /\ load[c].current \in Given
      /\ (load[c].current = NoCertificate \/ WasValid(c, load[c].current))
  BY <1>1 DEF Fetches, HeldValid
<1>3. p \in DOMAIN store /\ store[p] \in CertificateStates
  BY <1>1 DEF OneLeader, StoreOK
<1>4. CASE FetchFails(c)
  <2>1. [store[p] EXCEPT !.refreshing = FALSE] \in CertificateStates
        /\ ~[store[p] EXCEPT !.refreshing = FALSE].refreshing
    BY <1>3 DEF CertificateStates
  <2>2. store' = [store EXCEPT ![p] = [store[p] EXCEPT !.refreshing = FALSE]]
    BY <1>4 DEF FetchFails
  <2>3. UNCHANGED <<wall, steady>>
        /\ \/ load' = [load EXCEPT ![c] = Gone]
           \/ load[c].current # NoCertificate /\ Uses(c, load[c].current)
    BY <1>4 DEF FetchFails
  <2> QED BY <1>1, <1>2, <2>1, <2>2, <2>3, CertificateRefreshEnds
<1>5. ASSUME NEW offered \in SUBSET Certificates, FetchAnswers(c, offered) PROVE CertificateInv'
  <2>1. PICK x \in Selected(offered, load[c].now) :
          /\ store' = [store EXCEPT ![p] =
               [certificate |-> x, refreshing |-> FALSE,
                refreshAfter |-> steady + IF x.until - load[c].now < RefreshTime
                                          THEN x.until - load[c].now ELSE RefreshTime]]
          /\ Uses(c, x)
    BY <1>5 DEF FetchAnswers
  <2>2. x \in Certificates /\ Valid(x, load[c].now)
    BY DEF Selected
  <2>3. (IF x.until - load[c].now < RefreshTime THEN x.until - load[c].now ELSE RefreshTime) \in Int
    BY <1>2, <2>2, CertificateConstants
  <2>4. [certificate |-> x, refreshing |-> FALSE,
         refreshAfter |-> steady + IF x.until - load[c].now < RefreshTime
                                   THEN x.until - load[c].now ELSE RefreshTime] \in CertificateStates
    BY <2>2, <2>3 DEF CertificateStates, Given
  <2>5. WasValid(c, x) /\ x \in Given
    BY <1>2, <2>2 DEF WasValid, Given
  <2>6. UNCHANGED <<wall, steady>>
    BY <1>5 DEF FetchAnswers
  <2> QED BY <1>1, <2>1, <2>4, <2>5, <2>6, CertificateRefreshEnds
<1> QED BY <1>4, <1>5

(* Whatever the clocks do, what was valid at a moment was. *)
LEMMA CertificatePasses ==
  ASSUME CertificateInv, NEW seconds \in 0..1, NEW time \in 0..MaxWall, Passes(seconds, time)
  PROVE  CertificateInv'
<1> USE DEF CertificateInv, CertificateTypeOK
<1>1. steady' \in Int /\ wall' \in Int /\ store' = store /\ time \in Int
  BY CertificateConstants DEF Passes
<1>2. ASSUME NEW c \in Clients, load[c].at \notin {"gone", "query"}
      PROVE  [load[c] EXCEPT !.seen = @ \union {time}] \in Joins \union Begins \union Fetches
  <2>1. load[c] \in Joins \union Begins \union Fetches
    BY <1>2 DEF LoadOK, Gone, Queries
  <2> QED BY <1>1, <2>1 DEF Joins, Begins, Fetches
<1>3. ASSUME NEW c \in Clients
      PROVE  \/ load[c].at \in {"gone", "query"} /\ load'[c] = load[c]
             \/ /\ load[c].at \notin {"gone", "query"}
                /\ load'[c] = [load[c] EXCEPT !.seen = @ \union {time}]
  BY DEF Passes
<1>4. LoadOK'
  <2>1. ASSUME NEW c \in Clients
        PROVE  load'[c] \in {Gone} \union Joins \union Begins \union Fetches \union Queries
    BY <1>2, <1>3 DEF LoadOK
  <2>2. load' = [c \in Clients |->
       IF load[c].at \in {"gone", "query"} THEN load[c] ELSE [load[c] EXCEPT !.seen = @ \union {time}]]
    BY DEF Passes
  <2> QED BY <2>1, <2>2 DEF LoadOK
<1>5. ASSUME NEW c \in Clients
      PROVE  /\ load'[c].at = load[c].at
             /\ load[c].at \in {"join", "began", "fetch"} => load'[c].provider = load[c].provider
             /\ load[c].at \in {"began", "fetch"} => load'[c].current = load[c].current
             /\ load[c].at = "fetch" => load'[c].now = load[c].now
             /\ load[c].at = "query" => load'[c].certificate = load[c].certificate
             /\ load[c].at # "gone" => load[c].seen \subseteq load'[c].seen
  <2>1. CASE load'[c] = load[c]
    BY <2>1
  <2>2. CASE load[c].at \notin {"gone", "query"} /\ load'[c] = [load[c] EXCEPT !.seen = @ \union {time}]
    <3>1. load[c] \in Joins \union Begins \union Fetches
      BY <2>2 DEF LoadOK, Gone, Queries
    <3> QED BY <2>2, <3>1 DEF Joins, Begins, Fetches
  <2> QED BY <1>3, <2>1, <2>2
<1>6. HeldValid'
  BY <1>5 DEF HeldValid, WasValid
<1>7. \A d \in Clients : \A q : Leading(d, q)' <=> Leading(d, q)
  BY <1>5 DEF Leading
<1>8. OneLeader'
  BY <1>1, <1>5, <1>7 DEF OneLeader
<1> QED BY <1>1, <1>4, <1>6, <1>8 DEF StoreOK

(* Every step of the cache, and every step elsewhere, keeps it in order. *)
LEMMA CertificateStep == CertificateInv /\ (CertificateNext \/ UNCHANGED certificateVars) => CertificateInv'
<1>1. ASSUME CertificateInv, UNCHANGED certificateVars PROVE CertificateInv'
  BY <1>1 DEF certificateVars, CertificateInv, CertificateTypeOK, LoadOK, StoreOK, HeldValid, WasValid,
     OneLeader, Leading
<1>2. ASSUME CertificateInv, CertificateNext PROVE CertificateInv'
  BY <1>2, CertificateEnters, CertificateMoves, CertificateFetches, CertificateEnds, CertificatePasses
     DEF CertificateNext, CertificateWorks
<1> QED BY <1>1, <1>2

(* The marks and their leaders are as many. *)
LEMMA CertificateMeans == CertificateInv => CertificateRefreshes /\ CertificateValid
<1> SUFFICES ASSUME CertificateInv PROVE CertificateRefreshes /\ CertificateValid
  OBVIOUS
<1>1. CertificateValid
  BY DEF CertificateInv, HeldValid, WasValid, CertificateValid
<1>2. ASSUME NEW p \in Providers
      PROVE  LET leaders == {c \in Holders(p) : load[c].at # "join"} IN
             /\ Holders(p) # {} => p \in DOMAIN store
             /\ Cardinality(leaders) = (IF p \in DOMAIN store /\ store[p].refreshing THEN 1 ELSE 0)
  <2> DEFINE leaders == {c \in Holders(p) : load[c].at # "join"}
  <2>1. leaders = {c \in Clients : Leading(c, p)}
    BY DEF Holders, Leading
  <2>2. Holders(p) # {} => p \in DOMAIN store
    BY DEF CertificateInv, OneLeader, Holders
  <2>3. CASE p \in DOMAIN store /\ store[p].refreshing
    <3>1. PICK c \in Clients : Leading(c, p)
      BY <2>3 DEF CertificateInv, OneLeader
    <3>2. leaders = {c}
      BY <2>1, <3>1 DEF CertificateInv, OneLeader
    <3> QED BY <2>2, <2>3, <3>2, FS_Singleton
  <2>4. CASE ~(p \in DOMAIN store /\ store[p].refreshing)
    <3>1. leaders = {}
      BY <2>1, <2>4 DEF CertificateInv, OneLeader, Leading
    <3> QED BY <2>2, <2>4, <3>1, FS_EmptySet
  <2> QED BY <2>3, <2>4
<1>3. CertificateRefreshes
  BY <1>2 DEF CertificateRefreshes
<1> QED BY <1>1, <1>3

-----------------------------------------------------------------------------
(* The bootstrap cache and the deadline of a refresh.                      *)

Stays == {"acquire", "queued", "lookup", "share", "transfer"}
Requests == [at : Stays, upstream : Upstreams, deadline : Int, attempt : {1, 2}]
Resolving ==
  [at : {"resolve"}, upstream : Upstreams, deadline : Int, attempt : {1, 2},
   round : 0..Rounds, ends : Int, began : Int]
BootstrapStates == [refreshing : BOOLEAN, expires : Int, failed : BOOLEAN, retryAfter : Int]

CallOK == call \in [Callers -> {Away} \union Requests \union Resolving]
BootstrapOK == DOMAIN bootstrap \subseteq Hosts /\ bootstrap \in [DOMAIN bootstrap -> BootstrapStates]
SecureTypeOK == clock \in Int /\ CallOK /\ BootstrapOK

\* One request resolves for every refresh that is marked.
Resolves(c, h) == call[c].at = "resolve" /\ Host[call[c].upstream] = h
OneResolver ==
  /\ \A c \in Callers : call[c].at \in {"share", "resolve"} => Host[call[c].upstream] \in DOMAIN bootstrap
  /\ \A c \in Callers, h \in DOMAIN bootstrap : Resolves(c, h) => bootstrap[h].refreshing
  /\ \A c, d \in Callers, h \in Hosts : Resolves(c, h) /\ Resolves(d, h) => c = d
  /\ \A h \in DOMAIN bootstrap : bootstrap[h].refreshing => \E c \in Callers : Resolves(c, h)

\* A refresh that began with a tick for every round has one for each that is left.
TimeLeft ==
  \A c \in Callers :
    call[c].at = "resolve" /\ call[c].deadline - call[c].began >= Rounds =>
      clock <= call[c].ends /\ call[c].deadline - call[c].ends >= Rounds - call[c].round

SecureInv == SecureTypeOK /\ OneResolver /\ TimeLeft

(* The rounds are a number. *)
LEMMA RoundsFact == Rounds \in Nat
BY SecureTransportConstants DEF Rounds

(* A resolver gets at least a tick and leaves one for every round after    *)
(* it, if there was one for each.                                          *)
LEMMA AllowanceFacts ==
  ASSUME NEW left \in Nat, NEW rounds \in Nat \ {0}, left >= rounds
  PROVE  /\ Allowance(left, rounds) \in Nat
         /\ left - Allowance(left, rounds) >= rounds - 1
<1> DEFINE even == left \div rounds
<1>1. even \in Nat /\ even >= 1 /\ left >= rounds * even
  OBVIOUS
<1> HIDE DEF even
<1>2. left - even >= rounds - 1
  <2>1. (rounds - 1) * (even - 1) >= 0
    BY <1>1
  <2>2. (rounds - 1) * (even - 1) = rounds * even - rounds - even + 1
    BY <1>1
  <2> QED BY <1>1, <2>1, <2>2
<1>3. Allowance(left, rounds) \in Nat /\ (Allowance(left, rounds) <= even \/ Allowance(left, rounds) = 1)
  BY <1>1, SecureTransportConstants DEF Allowance, even
<1> QED BY <1>1, <1>2, <1>3

(* Nobody has asked at first. *)
LEMMA SecureStarts == SecureInit => SecureInv
<1> SUFFICES ASSUME SecureInit PROVE SecureInv
  OBVIOUS
<1>1. SecureTypeOK
  BY DEF SecureInit, SecureTypeOK, CallOK, BootstrapOK
<1>2. OneResolver /\ TimeLeft
  BY DEF SecureInit, OneResolver, TimeLeft, Resolves, Away
<1> QED BY <1>1, <1>2 DEF SecureInv

(* A request that goes on or ends keeps its upstream and its deadline. *)
LEMMA GoesFacts ==
  ASSUME SecureInv, NEW c \in Callers, call[c] # Away
  PROVE  /\ call[c].upstream \in Upstreams /\ call[c].deadline \in Int /\ call[c].attempt \in {1, 2}
         /\ \A at \in Stays : Goes(c, at) \in Requests /\ Goes(c, at).at = at
         /\ \A at \in Stays : Goes(c, at).upstream = call[c].upstream
         /\ \A retryable \in BOOLEAN : /\ Ends(c, retryable) \in Requests \union {Away}
                                       /\ Ends(c, retryable).at \in {"acquire", "away"}
<1>1. call[c].upstream \in Upstreams /\ call[c].deadline \in Int /\ call[c].attempt \in {1, 2}
  BY DEF SecureInv, SecureTypeOK, CallOK, Requests, Resolving
<1> QED BY <1>1 DEF Goes, Ends, Requests, Stays, Away

(* Requests outside the bootstrap cache. *)
LEMMA SecureMoves ==
  ASSUME SecureInv, NEW c \in Callers, NEW x \in Requests \union {Away}, x.at \notin {"share", "resolve"},
         call' = [call EXCEPT ![c] = x], call[c].at # "resolve", UNCHANGED <<clock, bootstrap>>
  PROVE  SecureInv'
<1> USE DEF SecureInv, SecureTypeOK
<1>1. CallOK' /\ call'[c] = x /\ \A d \in Callers : d # c => call'[d] = call[d]
  BY DEF CallOK
<1>2. \A d \in Callers : \A h : Resolves(d, h)' <=> Resolves(d, h)
  BY <1>1 DEF Resolves
<1>3. OneResolver'
  BY <1>1, <1>2 DEF OneResolver
<1>4. TimeLeft'
  BY <1>1 DEF TimeLeft
<1> QED BY <1>1, <1>3, <1>4 DEF BootstrapOK

(* A handle is leased and given back, a wait is given up. *)
LEMMA SecureRequests ==
  ASSUME SecureInv, NEW c \in Callers,
         \/ \E u \in Upstreams : BeginSecure(c, u)
         \/ AcquireHandle(c)
         \/ \E late \in BOOLEAN : AcquireFails(c, late) \/ ShareFails(c, late)
         \/ \E retryable \in BOOLEAN : Transfer(c, retryable)
  PROVE  SecureInv'
<1>1. UNCHANGED <<clock, bootstrap>> /\ call[c].at # "resolve"
  BY DEF BeginSecure, AcquireHandle, AcquireFails, ShareFails, Transfer
<1>2. ASSUME NEW u \in Upstreams, BeginSecure(c, u) PROVE SecureInv'
  <2>1. [at |-> "acquire", upstream |-> u, deadline |-> clock + Patience, attempt |-> 1] \in Requests
    BY SecureTransportConstants DEF SecureInv, SecureTypeOK, Requests, Stays
  <2> QED BY <1>1, <1>2, <2>1, SecureMoves DEF BeginSecure
<1>3. CASE AcquireHandle(c)
  <2>1. call[c] # Away
    BY <1>3 DEF AcquireHandle, Away
  <2>2. \/ call' = [call EXCEPT ![c] = Away]
        \/ call' = [call EXCEPT ![c] = Goes(c, "lookup")]
        \/ call' = [call EXCEPT ![c] = Goes(c, "queued")]
    BY <1>3 DEF AcquireHandle
  <2>3. Goes(c, "lookup") \in Requests /\ Goes(c, "lookup").at = "lookup"
        /\ Goes(c, "queued") \in Requests /\ Goes(c, "queued").at = "queued"
    BY <2>1, GoesFacts DEF Stays
  <2>4. Away.at = "away"
    BY DEF Away
  <2>5. CASE call' = [call EXCEPT ![c] = Away]
    BY <1>1, <2>4, <2>5, SecureMoves
  <2>6. CASE call' = [call EXCEPT ![c] = Goes(c, "lookup")]
    BY <1>1, <2>3, <2>6, SecureMoves
  <2>7. CASE call' = [call EXCEPT ![c] = Goes(c, "queued")]
    BY <1>1, <2>3, <2>7, SecureMoves
  <2> QED BY <2>2, <2>5, <2>6, <2>7
<1>4. ASSUME NEW flag \in BOOLEAN, AcquireFails(c, flag) \/ ShareFails(c, flag) \/ Transfer(c, flag)
      PROVE  SecureInv'
  <2>1. call[c] # Away /\ call' = [call EXCEPT ![c] = Ends(c, flag)]
    BY <1>4 DEF AcquireFails, ShareFails, Transfer, Away
  <2>2. Ends(c, flag) \in Requests \union {Away} /\ Ends(c, flag).at \in {"acquire", "away"}
    BY <2>1, GoesFacts
  <2> QED BY <1>1, <2>1, <2>2, SecureMoves
<1> QED BY <1>2, <1>3, <1>4

(* The cache is entered: what it forgets nobody waits for. *)
LEMMA SecureEnters ==
  ASSUME SecureInv, NEW c \in Callers, Enter(c)
  PROVE  SecureInv'
<1> USE DEF SecureInv, SecureTypeOK
<1> DEFINE h == Host[call[c].upstream]
           kept == DOMAIN bootstrap \ Forgotten
<1>1. call[c].at \in {"lookup", "share"} /\ call[c] # Away /\ UNCHANGED clock
  BY DEF Enter, Away
<1>2. call[c].upstream \in Upstreams /\ h \in Hosts
  BY <1>1, GoesFacts DEF Hosts
<1>3. \A d \in Callers : call[d].at \in {"share", "resolve"} => Host[call[d].upstream] \in kept
  BY DEF OneResolver, Forgotten, Referenced
<1>4. \A x \in DOMAIN bootstrap : bootstrap[x].refreshing => x \in kept
  BY DEF Forgotten
<1>5. State(h) \in BootstrapStates
  BY DEF State, Known, BootstrapOK, Unresolved, BootstrapStates
<1>6. State(h).refreshing <=> h \in DOMAIN bootstrap /\ bootstrap[h].refreshing
  BY DEF State, Known, Unresolved, Forgotten
<1>7. \A d \in Callers : \A x : Resolves(d, x) => x \in kept
  BY <1>3 DEF Resolves
<1> HIDE DEF kept, h
<1>8. ASSUME NEW s \in BootstrapStates, bootstrap' = Slots(h, s)
      PROVE  /\ BootstrapOK' /\ DOMAIN bootstrap' = kept \union {h} /\ bootstrap'[h] = s
             /\ \A x \in kept : x # h => bootstrap'[x] = bootstrap[x]
  <2>1. bootstrap' = [x \in kept \union {h} |-> IF x = h THEN s ELSE bootstrap[x]]
    BY <1>8 DEF Slots, kept
  <2>2. kept \subseteq DOMAIN bootstrap
    BY DEF kept
  <2> QED BY <1>2, <2>1, <2>2 DEF BootstrapOK
<1>9. ASSUME NEW x \in Requests \union {Away}, x.at # "resolve",
             call' = [call EXCEPT ![c] = x],
             \/ x.at # "share" /\ bootstrap' = [y \in kept |-> bootstrap[y]]
             \/ x.at # "share" /\ bootstrap' = Slots(h, State(h))
             \/ /\ State(h).refreshing /\ Host[x.upstream] = h
                /\ bootstrap' = Slots(h, State(h))
      PROVE  SecureInv'
  <2>1. CallOK' /\ call'[c] = x /\ \A d \in Callers : d # c => call'[d] = call[d]
    BY <1>9 DEF CallOK
  <2>2. BootstrapOK' /\ kept \subseteq DOMAIN bootstrap' /\ DOMAIN bootstrap' \subseteq kept \union {h}
        /\ \A y \in DOMAIN bootstrap' :
             bootstrap'[y].refreshing <=> y \in DOMAIN bootstrap /\ bootstrap[y].refreshing
    <3>1. CASE bootstrap' = [y \in kept |-> bootstrap[y]]
      BY <1>4, <3>1 DEF BootstrapOK, kept
    <3>2. CASE bootstrap' = Slots(h, State(h))
      BY <1>5, <1>6, <1>8, <3>2 DEF BootstrapOK, kept
    <3> QED BY <1>9, <3>1, <3>2
  <2>3. \A d \in Callers : \A y : Resolves(d, y)' <=> Resolves(d, y)
    BY <1>1, <1>9, <2>1 DEF Resolves
  <2>4. OneResolver'
    <3>1. x.at = "share" => Host[x.upstream] \in DOMAIN bootstrap'
      BY <1>4, <1>6, <1>9, <2>2
    <3>2. \A d \in Callers : call'[d].at \in {"share", "resolve"} => Host[call'[d].upstream] \in DOMAIN bootstrap'
      BY <1>3, <1>9, <2>1, <2>2, <3>1
    <3>3. \A d \in Callers, y \in DOMAIN bootstrap' : Resolves(d, y)' => bootstrap'[y].refreshing
      BY <1>7, <2>2, <2>3 DEF OneResolver, kept
    <3>4. \A y \in DOMAIN bootstrap' : bootstrap'[y].refreshing => \E d \in Callers : Resolves(d, y)'
      BY <2>2, <2>3 DEF OneResolver
    <3>5. \A d, e \in Callers, y \in Hosts : Resolves(d, y)' /\ Resolves(e, y)' => d = e
      BY <2>3 DEF OneResolver
    <3> QED BY <3>2, <3>3, <3>4, <3>5 DEF OneResolver
  <2>5. TimeLeft'
    BY <1>1, <1>9, <2>1 DEF TimeLeft
  <2> QED BY <1>1, <2>1, <2>2, <2>4, <2>5
<1>10. ASSUME ~State(h).refreshing, bootstrap' = Slots(h, [State(h) EXCEPT !.refreshing = TRUE]),
              call' = [call EXCEPT ![c] =
                [at |-> "resolve", upstream |-> call[c].upstream, deadline |-> call[c].deadline,
                 attempt |-> call[c].attempt, round |-> 0, ends |-> clock, began |-> clock]]
       PROVE  SecureInv'
  <2> DEFINE x == [at |-> "resolve", upstream |-> call[c].upstream, deadline |-> call[c].deadline,
                   attempt |-> call[c].attempt, round |-> 0, ends |-> clock, began |-> clock]
  <2>1. x \in Resolving /\ Host[x.upstream] = h
    BY <1>1, GoesFacts, RoundsFact DEF Resolving, h
  <2>2. x.at = "resolve" /\ x.round = 0 /\ x.ends = clock /\ x.began = clock
    OBVIOUS
  <2>3. call' = [call EXCEPT ![c] = x]
    BY <1>10
  <2> HIDE DEF x
  <2>4. CallOK' /\ call'[c] = x /\ \A d \in Callers : d # c => call'[d] = call[d]
    BY <2>1, <2>3 DEF CallOK
  <2>5. [State(h) EXCEPT !.refreshing = TRUE] \in BootstrapStates
        /\ [State(h) EXCEPT !.refreshing = TRUE].refreshing
    BY <1>5 DEF BootstrapStates
  <2>6. BootstrapOK' /\ DOMAIN bootstrap' = kept \union {h} /\ bootstrap'[h].refreshing
        /\ \A y \in kept : y # h => bootstrap'[y] = bootstrap[y]
    BY <1>8, <1>10, <2>5
  <2>7. \A d \in Callers : \A y : Resolves(d, y)' <=> Resolves(d, y) \/ (d = c /\ y = h)
    BY <1>1, <2>1, <2>2, <2>4 DEF Resolves
  <2>8. \A d \in Callers : ~Resolves(d, h)
    BY <1>6, <1>7, <1>10 DEF OneResolver, kept
  <2>9. OneResolver'
    <3>1. \A d \in Callers : call'[d].at \in {"share", "resolve"} => Host[call'[d].upstream] \in DOMAIN bootstrap'
      BY <1>3, <2>1, <2>4, <2>6
    <3> QED BY <1>7, <2>6, <2>7, <2>8, <3>1 DEF OneResolver, kept
  <2>10. TimeLeft'
    BY <1>1, <2>1, <2>2, <2>4, RoundsFact DEF TimeLeft, Resolving
  <2> QED BY <1>1, <2>4, <2>6, <2>9, <2>10
<1>11. Ends(c, FALSE) \in Requests \union {Away} /\ Ends(c, FALSE).at \in {"acquire", "away"}
       /\ Goes(c, "transfer") \in Requests /\ Goes(c, "transfer").at = "transfer"
       /\ Goes(c, "share") \in Requests /\ Goes(c, "share").at = "share"
       /\ Host[Goes(c, "share").upstream] = h
  BY <1>1, GoesFacts DEF Stays, h
<1>12. CASE /\ bootstrap' = [y \in DOMAIN bootstrap \ Forgotten |-> bootstrap[y]]
            /\ call' = [call EXCEPT ![c] = Ends(c, FALSE)]
  BY <1>9, <1>11, <1>12 DEF kept
<1>13. CASE /\ bootstrap' = Slots(h, State(h))
            /\ \/ call' = [call EXCEPT ![c] = Ends(c, FALSE)]
               \/ call' = [call EXCEPT ![c] = Goes(c, "transfer")]
  BY <1>9, <1>11, <1>13
<1>14. CASE /\ bootstrap' = Slots(h, State(h)) /\ State(h).refreshing
            /\ call' = [call EXCEPT ![c] = Goes(c, "share")]
  BY <1>9, <1>11, <1>14
<1> QED BY <1>10, <1>12, <1>13, <1>14 DEF Enter, h

(* The next resolver gets its share of the time that is left. *)
LEMMA SecureAsks ==
  ASSUME SecureInv, NEW c \in Callers, Ask(c)
  PROVE  SecureInv'
<1> USE DEF SecureInv, SecureTypeOK
<1> DEFINE left == call[c].deadline - clock
           rounds == Rounds - call[c].round
           ends == clock + Allowance(left, rounds)
<1>1. call[c] \in Resolving /\ call[c].at = "resolve"
  BY DEF Ask, CallOK, Requests, Stays, Away
<1>2. rounds \in Nat \ {0} /\ left \in Nat /\ call[c].round + 1 \in 0..Rounds
  BY <1>1, RoundsFact DEF Ask, Resolving, Late
<1>3. Allowance(left, rounds) \in Int
  BY <1>2, SecureTransportConstants DEF Allowance
<1>4. call' = [call EXCEPT ![c] = [call[c] EXCEPT !.round = call[c].round + 1, !.ends = ends]]
      /\ UNCHANGED <<clock, bootstrap>>
  BY DEF Ask
<1>5. [call[c] EXCEPT !.round = call[c].round + 1, !.ends = ends] \in Resolving
  <2>1. ends \in Int
    BY <1>3
  <2> HIDE DEF ends
  <2> QED BY <1>1, <1>2, <2>1 DEF Resolving
<1>6. CallOK' /\ \A d \in Callers : d # c => call'[d] = call[d]
  BY <1>4, <1>5 DEF CallOK
<1>7. /\ call'[c].at = "resolve" /\ call'[c].upstream = call[c].upstream
      /\ call'[c].deadline = call[c].deadline /\ call'[c].began = call[c].began
      /\ call'[c].round = call[c].round + 1 /\ call'[c].ends = ends
  BY <1>1, <1>4 DEF CallOK, Resolving
<1>8. \A d \in Callers : \A h : Resolves(d, h)' <=> Resolves(d, h)
  BY <1>1, <1>6, <1>7 DEF Resolves
<1>9. OneResolver'
  BY <1>1, <1>4, <1>6, <1>7, <1>8 DEF OneResolver
<1>10. call[c].deadline - call[c].began >= Rounds =>
         clock <= ends /\ call[c].deadline - ends >= Rounds - (call[c].round + 1)
  <2> SUFFICES ASSUME call[c].deadline - call[c].began >= Rounds
               PROVE  clock <= ends /\ call[c].deadline - ends >= Rounds - (call[c].round + 1)
    OBVIOUS
  <2>1. clock <= call[c].ends /\ call[c].deadline - call[c].ends >= rounds
    BY <1>1 DEF TimeLeft
  <2>2. left >= rounds
    BY <1>1, <1>2, <2>1, RoundsFact DEF Resolving
  <2>3. Allowance(left, rounds) \in Nat /\ left - Allowance(left, rounds) >= rounds - 1
    BY <1>2, <2>2, AllowanceFacts
  <2> QED BY <1>1, <1>2, <2>3, RoundsFact DEF Resolving
<1>11. TimeLeft'
  BY <1>4, <1>6, <1>7, <1>10 DEF TimeLeft
<1> QED BY <1>4, <1>6, <1>9, <1>11 DEF BootstrapOK

(* A refresh ends with the request that performs it, and leaves no mark. *)
LEMMA SecureResolves ==
  ASSUME SecureInv, NEW c \in Callers,
         \/ \E ttl \in 0..MaxTtl : Resolved(c, ttl)
         \/ \E cancelled \in BOOLEAN : ResolveFails(c, cancelled)
  PROVE  SecureInv'
<1> USE DEF SecureInv, SecureTypeOK
<1> DEFINE h == Host[call[c].upstream]
<1>1. call[c].at = "resolve" /\ call[c] # Away /\ UNCHANGED clock
  <2>1. ASSUME NEW ttl \in 0..MaxTtl, Resolved(c, ttl) PROVE call[c].at = "resolve" /\ UNCHANGED clock
    BY <2>1 DEF Resolved
  <2>2. ASSUME NEW cancelled \in BOOLEAN, ResolveFails(c, cancelled)
        PROVE  call[c].at = "resolve" /\ UNCHANGED clock
    BY <2>2 DEF ResolveFails
  <2> QED BY <2>1, <2>2 DEF Away
<1>2. h \in DOMAIN bootstrap /\ h \in Hosts /\ bootstrap[h] \in BootstrapStates /\ Resolves(c, h)
  BY <1>1 DEF OneResolver, BootstrapOK, Resolves
<1>3. PICK x \in Requests \union {Away} :
        x.at \in {"acquire", "away", "transfer"} /\ call' = [call EXCEPT ![c] = x]
  <2>1. ASSUME NEW ttl \in 0..MaxTtl, Resolved(c, ttl)
        PROVE  call' = [call EXCEPT ![c] = Goes(c, "transfer")]
    BY <2>1 DEF Resolved
  <2>2. ASSUME NEW cancelled \in BOOLEAN, ResolveFails(c, cancelled)
        PROVE  call' = [call EXCEPT ![c] = Ends(c, FALSE)]
    BY <2>2 DEF ResolveFails
  <2>3. Goes(c, "transfer") \in Requests /\ Goes(c, "transfer").at = "transfer"
        /\ Ends(c, FALSE) \in Requests \union {Away} /\ Ends(c, FALSE).at \in {"acquire", "away"}
    BY <1>1, GoesFacts DEF Stays
  <2> QED BY <2>1, <2>2, <2>3
<1>4. PICK s \in BootstrapStates : ~s.refreshing /\ bootstrap' = [bootstrap EXCEPT ![h] = s]
  <2>1. ASSUME NEW ttl \in 0..MaxTtl, Resolved(c, ttl)
        PROVE  \E s \in BootstrapStates : ~s.refreshing /\ bootstrap' = [bootstrap EXCEPT ![h] = s]
    <3> DEFINE s == [refreshing |-> FALSE, failed |-> FALSE, retryAfter |-> bootstrap[h].retryAfter,
                     expires |-> clock + ttl]
    <3>1. s \in BootstrapStates /\ ~s.refreshing
      BY <1>2, <2>1, SecureTransportConstants DEF BootstrapStates
    <3>2. bootstrap' = [bootstrap EXCEPT ![h] = s]
      BY <2>1 DEF Resolved
    <3> QED BY <3>1, <3>2
  <2>2. ASSUME NEW cancelled \in BOOLEAN, ResolveFails(c, cancelled)
        PROVE  \E s \in BootstrapStates : ~s.refreshing /\ bootstrap' = [bootstrap EXCEPT ![h] = s]
    <3> DEFINE s == [bootstrap[h] EXCEPT !.refreshing = FALSE, !.failed = TRUE,
                                         !.retryAfter = clock + Cooldown]
    <3>1. clock + Cooldown \in Int
      BY SecureTransportConstants
    <3>2. s \in BootstrapStates /\ ~s.refreshing
      BY <1>2, <3>1 DEF BootstrapStates
    <3>3. bootstrap' = [bootstrap EXCEPT ![h] = s]
      BY <2>2 DEF ResolveFails
    <3> QED BY <3>2, <3>3
  <2> QED BY <2>1, <2>2
<1> HIDE DEF h
<1>5. CallOK' /\ call'[c] = x /\ \A d \in Callers : d # c => call'[d] = call[d]
  BY <1>3 DEF CallOK
<1>6. BootstrapOK' /\ DOMAIN bootstrap' = DOMAIN bootstrap /\ ~bootstrap'[h].refreshing
      /\ \A y \in DOMAIN bootstrap : y # h => bootstrap'[y] = bootstrap[y]
  BY <1>2, <1>4 DEF BootstrapOK
<1>7. \A d \in Callers : \A y : Resolves(d, y)' <=> Resolves(d, y) /\ d # c
  BY <1>3, <1>5 DEF Resolves
<1>8. \A d \in Callers : d # c => ~Resolves(d, h)
  BY <1>2 DEF OneResolver
<1>9. \A y : Resolves(c, y) => y = h
  BY DEF Resolves, h
<1>10. OneResolver'
  <2>1. \A d \in Callers : call'[d].at \in {"share", "resolve"} => Host[call'[d].upstream] \in DOMAIN bootstrap'
    BY <1>3, <1>5, <1>6 DEF OneResolver
  <2>2. \A d \in Callers, y \in DOMAIN bootstrap' : Resolves(d, y)' => bootstrap'[y].refreshing
    BY <1>6, <1>7, <1>8 DEF OneResolver
  <2>3. \A y \in DOMAIN bootstrap' : bootstrap'[y].refreshing => \E d \in Callers : Resolves(d, y)'
    BY <1>6, <1>7, <1>9 DEF OneResolver
  <2>4. \A d, e \in Callers, y \in Hosts : Resolves(d, y)' /\ Resolves(e, y)' => d = e
    BY <1>7 DEF OneResolver
  <2> QED BY <2>1, <2>2, <2>3, <2>4 DEF OneResolver
<1>11. TimeLeft'
  BY <1>1, <1>3, <1>5 DEF TimeLeft
<1> QED BY <1>1, <1>5, <1>6, <1>10, <1>11

(* Time passes while nobody's share ends. *)
LEMMA SecureTicks == SecureInv /\ SecureTick => SecureInv'
<1> SUFFICES ASSUME SecureInv, SecureTick PROVE SecureInv'
  OBVIOUS
<1> USE DEF SecureInv, SecureTypeOK, SecureTick
<1>1. CallOK' /\ BootstrapOK' /\ clock' \in Int
  BY DEF CallOK, BootstrapOK
<1>2. OneResolver'
  BY DEF OneResolver, Resolves
<1>3. \A c \in Callers : call[c].at = "resolve" => call[c].ends \in Int
  BY DEF CallOK, Requests, Resolving, Stays, Away
<1>4. TimeLeft'
  BY <1>3 DEF TimeLeft
<1> QED BY <1>1, <1>2, <1>4

(* Every step of the transport, and every step elsewhere, keeps its caches *)
(* in order.                                                               *)
LEMMA SecureStep == SecureInv /\ (SecureNext \/ UNCHANGED secureVars) => SecureInv'
<1>1. ASSUME SecureInv, UNCHANGED secureVars PROVE SecureInv'
  BY <1>1 DEF secureVars, SecureInv, SecureTypeOK, CallOK, BootstrapOK, OneResolver, Resolves, TimeLeft
<1>2. ASSUME SecureInv, NEW c \in Callers, SecureWorks(c) PROVE SecureInv'
  BY <1>2, SecureRequests, SecureEnters, SecureAsks, SecureResolves DEF SecureWorks
<1>3. ASSUME SecureInv, NEW c \in Callers, NEW u \in Upstreams, BeginSecure(c, u) PROVE SecureInv'
  BY <1>3, SecureRequests
<1> QED BY <1>1, <1>2, <1>3, SecureTicks DEF SecureNext

(* The marks and the requests that resolve are as many. *)
LEMMA SecureMeans == SecureInv => BootstrapRefreshes
<1> SUFFICES ASSUME SecureInv, NEW h \in Hosts
             PROVE  LET leaders == {c \in Referenced(h) : call[c].at = "resolve"} IN
                    /\ Referenced(h) # {} => h \in DOMAIN bootstrap
                    /\ Cardinality(leaders) =
                         (IF h \in DOMAIN bootstrap /\ bootstrap[h].refreshing THEN 1 ELSE 0)
  BY DEF BootstrapRefreshes
<1> DEFINE leaders == {c \in Referenced(h) : call[c].at = "resolve"}
<1>1. leaders = {c \in Callers : Resolves(c, h)}
  BY DEF Referenced, Resolves
<1>2. Referenced(h) # {} => h \in DOMAIN bootstrap
  BY DEF SecureInv, OneResolver, Referenced
<1>3. CASE h \in DOMAIN bootstrap /\ bootstrap[h].refreshing
  <2>1. PICK c \in Callers : Resolves(c, h)
    BY <1>3 DEF SecureInv, OneResolver
  <2>2. leaders = {c}
    BY <1>1, <2>1 DEF SecureInv, OneResolver
  <2> QED BY <1>2, <1>3, <2>2, FS_Singleton
<1>4. CASE ~(h \in DOMAIN bootstrap /\ bootstrap[h].refreshing)
  <2>1. leaders = {}
    BY <1>1, <1>4 DEF SecureInv, OneResolver, Resolves
  <2> QED BY <1>2, <1>4, <2>1, FS_EmptySet
<1> QED BY <1>3, <1>4

(* When the deadline passes before a refresh ends, every round has had its *)
(* turn.                                                                   *)
LEMMA SecureLate ==
  ASSUME SecureInv, NEW c \in Callers, call[c].at = "resolve", Late(c),
         call[c].deadline - call[c].began >= Rounds
  PROVE  call[c].round = Rounds
<1>1. call[c] \in Resolving
  BY DEF SecureInv, SecureTypeOK, CallOK, Requests, Stays, Away
<1>2. clock <= call[c].ends /\ call[c].deadline - call[c].ends >= Rounds - call[c].round
  BY DEF SecureInv, TimeLeft
<1> QED BY <1>1, <1>2, RoundsFact DEF SecureInv, SecureTypeOK, Resolving, Late

-----------------------------------------------------------------------------
(* The connections of plain DNS.                                           *)

Keys == (Endpoints \X Nat) \union {<<>>}
Stops == {"resting", "acquire", "select", "waiting"}
Goings == {"leased", "attempt", "bound", "connecting", "receive", "release"}
Exchanges ==
  [at : Stops \union Goings, over : {"udp", "tcp"}, key : Keys, lease : Nat, attempt : {0, 1},
   port : Ports \union {NoPort}, retiring : SUBSET Ports]
PoolEntries == [busy : BOOLEAN, port : Ports \union {NoPort}, rested : BOOLEAN]

ExchangeOK == exchange \in [Handlers -> Exchanges]
PoolOK == DOMAIN pool \subseteq Keys /\ pool \in [DOMAIN pool -> Seq(PoolEntries)]
PortsOK ==
  /\ sockets \in [Ports -> {"free", "bound", "connected"}]
  /\ owed \in [Ports -> Int] /\ registry \in [Ports -> Int]
PlainTypeOK == generation \in Nat /\ ExchangeOK /\ PoolOK /\ PortsOK

\* What an exchange may hold where it is
ShapeOf(x) ==
  /\ x.at \in Stops => x.lease = 0 /\ x.port = NoPort
  /\ x.at \in Goings => (x.lease # 0 <=> x.over = "tcp")
  /\ x.at \in {"acquire", "select", "waiting", "leased", "release"} => x.over = "tcp"
  /\ x.at \in {"bound", "connecting", "receive"} => x.port # NoPort
Shaped == \A t \in Handlers : ShapeOf(exchange[t])

\* A lease is an entry of the pool, and its connection is that of the entry,
\* which learns of it when it is made.
Connecting(t) == exchange[t].at \in {"bound", "connecting"}
LeasesHeld ==
  \A t \in Handlers : exchange[t].lease # 0 =>
    /\ exchange[t].key \in DOMAIN pool /\ exchange[t].lease \in DOMAIN pool[exchange[t].key]
    /\ pool[exchange[t].key][exchange[t].lease].busy
    /\ pool[exchange[t].key][exchange[t].lease].port =
         IF Connecting(t) THEN NoPort ELSE exchange[t].port

\* Nobody shares a lease or a port.
LeasesApart ==
  \A t, u \in Handlers : t # u /\ exchange[t].lease # 0 =>
    exchange[u].key # exchange[t].key \/ exchange[u].lease # exchange[t].lease
PortsApart ==
  \A t, u \in Handlers : t # u /\ exchange[t].port # NoPort => exchange[u].port # exchange[t].port
EntriesApart ==
  \A k, l \in DOMAIN pool : \A i \in DOMAIN pool[k], j \in DOMAIN pool[l] :
    pool[k][i].port # NoPort /\ pool[k][i].port = pool[l][j].port => k = l /\ i = j
OwnEntry ==
  \A t \in Handlers, k \in DOMAIN pool : \A i \in DOMAIN pool[k] :
    pool[k][i].port # NoPort /\ pool[k][i].port = exchange[t].port =>
      exchange[t].lease # 0 /\ k = exchange[t].key /\ i = exchange[t].lease
Alone == LeasesApart /\ PortsApart /\ EntriesApart /\ OwnEntry

\* A port in use is not free.
SocketsOpen ==
  /\ \A k \in DOMAIN pool : \A i \in DOMAIN pool[k] :
       pool[k][i].port # NoPort => sockets[pool[k][i].port] = "connected"
  /\ \A t \in Handlers :
       exchange[t].port # NoPort =>
         sockets[exchange[t].port] = IF Connecting(t) THEN "bound" ELSE "connected"

\* A connection owes one reply while somebody waits for it.
Waiting(p) == \E t \in Handlers : exchange[t].at = "receive" /\ exchange[t].port = p
RepliesOwed == \A p \in Ports : owed[p] = IF Waiting(p) THEN 1 ELSE 0

\* A port has a guard for its socket, if that may send, and one for every
\* socket that was closed and whose guard is still there.
Sends(p) ==
  \/ sockets[p] = "connected"
  \/ \E t \in Handlers : exchange[t].at = "connecting" /\ exchange[t].port = p
Retirees(p) == {t \in Handlers : p \in exchange[t].retiring}
GuardsCounted ==
  \A p \in Ports : registry[p] = Cardinality(Retirees(p)) + IF Sends(p) THEN 1 ELSE 0

PlainInv == PlainTypeOK /\ Shaped /\ LeasesHeld /\ Alone /\ SocketsOpen /\ RepliesOwed /\ GuardsCounted

(* Nothing is in use at first. *)
LEMMA PlainStarts == PlainInit => PlainInv
<1> SUFFICES ASSUME PlainInit PROVE PlainInv
  OBVIOUS
<1> USE DEF PlainInit
<1>1. Resting \in Exchanges /\ ShapeOf(Resting) /\ Resting.at = "resting" /\ Resting.lease = 0
      /\ Resting.port = NoPort /\ Resting.retiring = {}
  BY DEF Resting, Exchanges, Stops, Goings, Keys, ShapeOf
<1>2. DOMAIN pool = {}
  OBVIOUS
<1>3. PlainTypeOK
  BY <1>1, <1>2 DEF PlainTypeOK, ExchangeOK, PoolOK, PortsOK
<1>4. Shaped /\ LeasesHeld /\ Alone /\ SocketsOpen
  BY <1>1, <1>2 DEF Shaped, LeasesHeld, Alone, LeasesApart, PortsApart, EntriesApart, OwnEntry,
     SocketsOpen
<1>5. RepliesOwed
  BY <1>1 DEF RepliesOwed, Waiting
<1>6. GuardsCounted
  <2>1. \A p \in Ports : ~Sends(p) /\ Retirees(p) = {}
    BY <1>1 DEF Sends, Retirees
  <2> QED BY <2>1, FS_EmptySet DEF GuardsCounted
<1> QED BY <1>3, <1>4, <1>5, <1>6 DEF PlainInv

(* An exchange that moves is the only one. *)
LEMMA OneExchange ==
  ASSUME ExchangeOK, NEW t \in Handlers, NEW x \in Exchanges, exchange' = [exchange EXCEPT ![t] = x]
  PROVE  ExchangeOK' /\ exchange'[t] = x /\ \A u \in Handlers : u # t => exchange'[u] = exchange[u]
BY DEF ExchangeOK

(* The guards that are still to go are counted. *)
LEMMA RetireesFinite ==
  \A p : IsFiniteSet(Retirees(p)) /\ Cardinality(Retirees(p)) \in Nat
BY FS_Subset, FS_CardinalityType, PlainTransportConstants DEF Retirees

(* Sockets of one exchange close: each leaves one guard more. *)
LEMMA Retire ==
  ASSUME NEW t \in Handlers, exchange[t].retiring = {},
         \A u \in Handlers : u # t => exchange'[u] = exchange[u],
         NEW p
  PROVE  /\ IsFiniteSet(Retirees(p)')
         /\ Cardinality(Retirees(p)') = Cardinality(Retirees(p)) + IF p \in exchange'[t].retiring THEN 1 ELSE 0
<1>1. CASE p \in exchange'[t].retiring
  <2>1. Retirees(p)' = Retirees(p) \union {t} /\ t \notin Retirees(p)
    BY <1>1 DEF Retirees
  <2> QED BY <1>1, <2>1, RetireesFinite, FS_AddElement
<1>2. CASE p \notin exchange'[t].retiring
  <2>1. Retirees(p)' = Retirees(p)
    BY <1>2 DEF Retirees
  <2> QED BY <1>2, <2>1, RetireesFinite
<1> QED BY <1>1, <1>2

(* An exchange goes on with what it holds. *)
LEMMA PlainMoves ==
  ASSUME PlainInv, NEW t \in Handlers, NEW x \in Exchanges, exchange' = [exchange EXCEPT ![t] = x],
         ShapeOf(x), x.port = exchange[t].port, x.lease = exchange[t].lease,
         x.lease # 0 => x.key = exchange[t].key, x.retiring = exchange[t].retiring,
         x.at \notin {"bound", "connecting", "receive"},
         exchange[t].at \notin {"bound", "connecting", "receive"},
         UNCHANGED <<generation, pool, sockets, owed, registry>>
  PROVE  PlainInv'
<1> USE DEF PlainInv, PlainTypeOK
<1>1. ExchangeOK' /\ exchange'[t] = x /\ \A u \in Handlers : u # t => exchange'[u] = exchange[u]
  BY OneExchange
<1>2. \A u \in Handlers : /\ exchange'[u].port = exchange[u].port /\ exchange'[u].lease = exchange[u].lease
                          /\ exchange[u].lease # 0 => exchange'[u].key = exchange[u].key
                          /\ exchange'[u].retiring = exchange[u].retiring
                          /\ Connecting(u)' <=> Connecting(u)
                          /\ exchange'[u].at = "connecting" <=> exchange[u].at = "connecting"
                          /\ exchange'[u].at = "receive" <=> exchange[u].at = "receive"
  BY <1>1 DEF Connecting
<1>3. PlainTypeOK' /\ Shaped'
  BY <1>1 DEF PoolOK, PortsOK, Shaped
<1>4. LeasesHeld'
  BY <1>2 DEF LeasesHeld
<1>5. Alone'
  <2>1. LeasesApart'
    BY <1>1, <1>2 DEF Alone, LeasesApart
  <2>2. PortsApart' /\ EntriesApart' /\ OwnEntry'
    BY <1>2 DEF Alone, PortsApart, EntriesApart, OwnEntry
  <2> QED BY <2>1, <2>2 DEF Alone
<1>6. SocketsOpen'
  BY <1>2 DEF SocketsOpen
<1>7. RepliesOwed'
  BY <1>2 DEF RepliesOwed, Waiting
<1>8. GuardsCounted'
  <2>1. \A p \in Ports : Retirees(p)' = Retirees(p) /\ (Sends(p)' <=> Sends(p))
    BY <1>2 DEF Retirees, Sends
  <2> QED BY <2>1 DEF GuardsCounted
<1> QED BY <1>3, <1>4, <1>5, <1>6, <1>7, <1>8

(* The entries of the pool, one by one *)
LEMMA PoolFacts ==
  ASSUME PoolOK
  PROVE  \A k \in DOMAIN pool : /\ pool[k] \in Seq(PoolEntries) /\ Len(pool[k]) \in Nat
                                /\ DOMAIN pool[k] = 1..Len(pool[k])
                                /\ \A i \in DOMAIN pool[k] : pool[k][i] \in PoolEntries
<1>1. \A k \in DOMAIN pool : pool[k] \in Seq(PoolEntries)
  BY DEF PoolOK
<1> QED BY <1>1, ElementOfSeq, LenProperties

(* An erased key takes idle connections with it. *)
LEMMA PlainErases ==
  ASSUME PlainInv, NEW t \in Handlers, NEW keys \in SUBSET DOMAIN pool,
         exchange[t].at \in {"acquire", "select"}, exchange[t].retiring = {},
         \A k \in keys : Spare(k), Erase(t, keys)
  PROVE  PlainInv'
<1> USE DEF PlainInv, PlainTypeOK
<1> DEFINE held == UNION {{pool[k][i].port : i \in DOMAIN pool[k]} : k \in keys}
           closed == held \ {NoPort}
           x == [exchange[t] EXCEPT !.at = "select", !.retiring = closed]
<1>1. exchange[t] \in Exchanges /\ exchange[t].lease = 0 /\ exchange[t].port = NoPort
      /\ ShapeOf(exchange[t])
  BY DEF ExchangeOK, Shaped, ShapeOf, Stops
<1>2. \A k \in DOMAIN pool : \A i \in DOMAIN pool[k] : pool[k][i].port \in Ports \union {NoPort}
  BY PoolFacts DEF PoolEntries
<1>3. ASSUME NEW p \in closed
      PROVE  p # NoPort /\ \E k \in keys : \E i \in DOMAIN pool[k] : pool[k][i].port = p
  <2>1. PICK ports \in {{pool[k][i].port : i \in DOMAIN pool[k]} : k \in keys} : p \in ports
    OBVIOUS
  <2>2. PICK k \in keys : ports = {pool[k][i].port : i \in DOMAIN pool[k]}
    OBVIOUS
  <2>3. PICK i \in DOMAIN pool[k] : pool[k][i].port = p
    BY <2>1, <2>2
  <2>4. p # NoPort
    <3> HIDE DEF held
    <3> QED OBVIOUS
  <2> QED BY <2>3, <2>4
<1>4. closed \subseteq Ports
  BY <1>2, <1>3
<1>5. /\ pool' = [k \in DOMAIN pool \ keys |-> pool[k]]
      /\ sockets' = [p \in Ports |-> IF p \in closed THEN "free" ELSE sockets[p]]
      /\ owed' = [p \in Ports |-> IF p \in closed THEN 0 ELSE owed[p]]
      /\ exchange' = [exchange EXCEPT ![t] = x]
      /\ UNCHANGED <<generation, registry>>
  <2> HIDE DEF PlainInv, PlainTypeOK
  <2>1. pool' = [k \in DOMAIN pool \ keys |-> pool[k]] /\ UNCHANGED <<generation, registry>>
    BY DEF Erase
  <2>2. sockets' = [p \in Ports |-> IF p \in closed THEN "free" ELSE sockets[p]]
    BY DEF Erase
  <2>3. owed' = [p \in Ports |-> IF p \in closed THEN 0 ELSE owed[p]]
    BY DEF Erase
  <2>4. exchange' = [exchange EXCEPT ![t].at = "select", ![t].retiring = closed]
    BY DEF Erase
  <2> HIDE DEF closed
  <2>5. exchange' = [exchange EXCEPT ![t] = x]
    BY <2>4
  <2> QED BY <2>1, <2>2, <2>3, <2>5
<1> HIDE DEF closed
<1>6. x \in Exchanges /\ x.at = "select" /\ x.lease = 0 /\ x.port = NoPort /\ x.key = exchange[t].key
      /\ x.over = exchange[t].over /\ x.retiring = closed
  BY <1>1, <1>4 DEF Exchanges, Stops
<1> HIDE DEF x
<1>7. ShapeOf(x)
  BY <1>1, <1>6 DEF ShapeOf, Stops, Goings
<1>8. ExchangeOK' /\ exchange'[t] = x /\ \A u \in Handlers : u # t => exchange'[u] = exchange[u]
  BY <1>5, <1>6, OneExchange
<1>9. \A u \in Handlers : /\ exchange'[u].port = exchange[u].port /\ exchange'[u].lease = exchange[u].lease
                          /\ exchange'[u].key = exchange[u].key
                          /\ Connecting(u)' <=> Connecting(u)
                          /\ exchange'[u].at = "connecting" <=> exchange[u].at = "connecting"
                          /\ exchange'[u].at = "receive" <=> exchange[u].at = "receive"
  BY <1>1, <1>6, <1>8 DEF Connecting
<1>10. \A u \in Handlers : exchange[u].lease # 0 => exchange[u].key \notin keys
  BY DEF LeasesHeld, Spare
<1>11. \A u \in Handlers : exchange[u].port \notin closed
  BY <1>3, <1>10 DEF Alone, OwnEntry
<1>12. DOMAIN pool' = DOMAIN pool \ keys /\ \A k \in DOMAIN pool' : pool'[k] = pool[k]
  BY <1>5
<1>13. \A k \in DOMAIN pool' : \A i \in DOMAIN pool'[k] : pool'[k][i].port \notin closed
  BY <1>3, <1>12 DEF Alone, EntriesApart
<1>14. PlainTypeOK' /\ Shaped'
  <2>1. PoolOK'
    BY <1>5 DEF PoolOK
  <2>2. PortsOK'
    BY <1>5 DEF PortsOK
  <2> QED BY <1>5, <1>7, <1>8, <2>1, <2>2 DEF Shaped
<1>15. LeasesHeld'
  BY <1>9, <1>10, <1>12 DEF LeasesHeld
<1>16. Alone'
  <2>1. LeasesApart' /\ PortsApart'
    BY <1>9 DEF Alone, LeasesApart, PortsApart
  <2>2. EntriesApart'
    BY <1>12 DEF Alone, EntriesApart
  <2>3. OwnEntry'
    BY <1>9, <1>12 DEF Alone, OwnEntry
  <2> QED BY <2>1, <2>2, <2>3 DEF Alone
<1>17. SocketsOpen'
  <2>1. \A u \in Handlers : exchange[u].port # NoPort => exchange[u].port \in Ports
    BY DEF ExchangeOK, Exchanges
  <2>2. \A k \in DOMAIN pool' : \A i \in DOMAIN pool'[k] :
          pool'[k][i].port # NoPort => sockets'[pool'[k][i].port] = "connected"
    BY <1>2, <1>5, <1>12, <1>13 DEF SocketsOpen
  <2>3. \A u \in Handlers : exchange[u].port # NoPort => sockets'[exchange[u].port] = sockets[exchange[u].port]
    BY <1>5, <1>11, <2>1
  <2> QED BY <1>9, <2>2, <2>3 DEF SocketsOpen
<1>18. RepliesOwed'
  <2>1. \A p \in Ports : (Waiting(p)' <=> Waiting(p)) /\ (p \in closed => ~Waiting(p))
    BY <1>9, <1>11 DEF Waiting
  <2> QED BY <1>5, <2>1 DEF RepliesOwed
<1>19. GuardsCounted'
  <2>1. ASSUME NEW p \in Ports
        PROVE  registry'[p] = Cardinality(Retirees(p)') + IF Sends(p)' THEN 1 ELSE 0
    <3>1. Cardinality(Retirees(p)') = Cardinality(Retirees(p)) + IF p \in closed THEN 1 ELSE 0
      BY <1>6, <1>8, Retire
    <3>2. registry'[p] = Cardinality(Retirees(p)) + IF Sends(p) THEN 1 ELSE 0
      BY <1>5 DEF GuardsCounted
    <3>3. p \in closed => Sends(p) /\ ~Sends(p)'
      <4> SUFFICES ASSUME p \in closed PROVE Sends(p) /\ ~Sends(p)'
        OBVIOUS
      <4>1. sockets[p] = "connected"
        BY <1>3 DEF SocketsOpen
      <4>2. sockets'[p] = "free"
        BY <1>5
      <4> QED BY <1>9, <1>11, <4>1, <4>2 DEF Sends
    <3>4. p \notin closed => (Sends(p)' <=> Sends(p))
      BY <1>5, <1>9 DEF Sends
    <3> QED BY <3>1, <3>2, <3>3, <3>4, RetireesFinite
  <2> QED BY <2>1 DEF GuardsCounted
<1> QED BY <1>14, <1>15, <1>16, <1>17, <1>18, <1>19

(* A set of numbers has a least one. *)
LEMMA LeastOf ==
  ASSUME NEW S, S \subseteq Nat, S # {}
  PROVE  Min(S) \in S
<1> DEFINE less == {ss \in Nat \X Nat : ss[1] < ss[2]}
<1>1. IsWellFoundedOn(less, Nat)
  BY NatLessThanWellFounded DEF OpToRel
<1>2. \A m, n \in Nat : <<n, m>> \in less <=> n < m
  OBVIOUS
<1> HIDE DEF less
<1>3. PICK m \in S : \A n \in S : <<n, m>> \notin less
  BY <1>1, WFMin
<1>4. \A n \in S : m <= n
  <2> TAKE n \in S
  <2>1. n \in Nat /\ m \in Nat /\ ~(n < m)
    BY <1>2, <1>3
  <2> QED BY <2>1
<1> QED BY <1>4 DEF Min

(* An entry nobody has is leased: one that rests, or one that is new. *)
LEMMA PlainLeases ==
  ASSUME PlainInv, NEW t \in Handlers, exchange[t].at = "select", Take(t) \/ Grow(t)
  PROVE  PlainInv'
<1> USE DEF PlainInv, PlainTypeOK
<1> DEFINE key == exchange[t].key
<1>1. exchange[t] \in Exchanges /\ exchange[t].lease = 0 /\ exchange[t].port = NoPort
      /\ exchange[t].over = "tcp" /\ key \in Keys
  BY DEF ExchangeOK, Exchanges, Shaped, ShapeOf, Stops
<1>2. Entries(t) \in Seq(PoolEntries) /\ Len(Entries(t)) \in Nat /\ DOMAIN Entries(t) = 1..Len(Entries(t))
      /\ (key \notin DOMAIN pool => Entries(t) = <<>>) /\ (key \in DOMAIN pool => Entries(t) = pool[key])
  BY PoolFacts, EmptySeq, LenProperties DEF Entries
<1>3. ASSUME NEW i \in Nat \ {0}, NEW entries \in Seq(PoolEntries), Lease(t, i, entries),
             i \in DOMAIN entries, entries[i].busy,
             DOMAIN entries = DOMAIN Entries(t) \union {i},
             \A j \in DOMAIN Entries(t) : entries[j].port = Entries(t)[j].port
                                          /\ (j # i => entries[j] = Entries(t)[j]),
             i \in DOMAIN Entries(t) => ~Entries(t)[i].busy,
             i \notin DOMAIN Entries(t) => entries[i].port = NoPort
      PROVE  PlainInv'
  <2> DEFINE x == [exchange[t] EXCEPT !.at = "leased", !.lease = i, !.port = entries[i].port]
  <2>1. entries[i].port \in Ports \union {NoPort}
    <3>1. entries[i] \in PoolEntries
      BY <1>3, ElementOfSeq, LenProperties
    <3> QED BY <3>1 DEF PoolEntries
  <2>2. x \in Exchanges /\ x.at = "leased" /\ x.lease = i /\ x.port = entries[i].port /\ x.key = key
        /\ x.over = "tcp" /\ x.retiring = exchange[t].retiring
    BY <1>1, <2>1 DEF Exchanges, Goings
  <2>3. exchange' = [exchange EXCEPT ![t] = x] /\ UNCHANGED <<generation, sockets, owed, registry>>
        /\ pool' = [k \in DOMAIN pool \union {key} |-> IF k = key THEN entries ELSE pool[k]]
    BY <1>3 DEF Lease, SetEntries
  <2> HIDE DEF x
  <2>4. ExchangeOK' /\ exchange'[t] = x /\ \A u \in Handlers : u # t => exchange'[u] = exchange[u]
    BY <2>2, <2>3, OneExchange
  <2>5. DOMAIN pool' = DOMAIN pool \union {key} /\ pool'[key] = entries
        /\ \A k \in DOMAIN pool : k # key => pool'[k] = pool[k]
    BY <2>3
  <2>6. PlainTypeOK'
    <3>1. PoolOK'
      BY <1>1, <1>3, <2>3 DEF PoolOK
    <3> QED BY <2>3, <2>4, <3>1 DEF PortsOK
  <2>7. Shaped'
    BY <1>3, <2>2, <2>4 DEF Shaped, ShapeOf, Stops, Goings
  <2>8. \A u \in Handlers : exchange[u].lease # 0 => exchange[u].key # key \/ exchange[u].lease # i
    <3> SUFFICES ASSUME NEW u \in Handlers, exchange[u].lease # 0, exchange[u].key = key,
                        exchange[u].lease = i
                 PROVE  FALSE
      OBVIOUS
    <3> QED BY <1>2, <1>3 DEF LeasesHeld
  <2>9. \A u \in Handlers : u # t => (Connecting(u)' <=> Connecting(u))
    BY <2>4 DEF Connecting
  <2>10. ~Connecting(t) /\ ~Connecting(t)'
    BY <1>1, <2>2, <2>4 DEF Connecting
  <2>11. LeasesHeld'
    <3>1. ASSUME NEW u \in Handlers, exchange'[u].lease # 0
          PROVE  /\ exchange'[u].key \in DOMAIN pool' /\ exchange'[u].lease \in DOMAIN pool'[exchange'[u].key]
                 /\ pool'[exchange'[u].key][exchange'[u].lease].busy
                 /\ pool'[exchange'[u].key][exchange'[u].lease].port =
                      IF Connecting(u)' THEN NoPort ELSE exchange'[u].port
      <4>1. CASE u = t
        BY <1>3, <2>2, <2>4, <2>5, <2>10, <4>1
      <4>2. CASE u # t /\ exchange[u].key = key
        <5>1. exchange[u].lease \in DOMAIN Entries(t) /\ exchange[u].lease # i
              /\ Entries(t)[exchange[u].lease].busy
              /\ Entries(t)[exchange[u].lease].port = IF Connecting(u) THEN NoPort ELSE exchange[u].port
          BY <1>2, <2>4, <2>8, <3>1, <4>2 DEF LeasesHeld
        <5> QED BY <1>3, <2>4, <2>5, <2>9, <4>2, <5>1
      <4>3. CASE u # t /\ exchange[u].key # key
        BY <2>4, <2>5, <2>9, <3>1, <4>3 DEF LeasesHeld
      <4> QED BY <4>1, <4>2, <4>3
    <3> QED BY <3>1 DEF LeasesHeld
  <2>12. \A k \in DOMAIN pool' : \A j \in DOMAIN pool'[k] : pool'[k][j].port # NoPort =>
           k \in DOMAIN pool /\ j \in DOMAIN pool[k] /\ pool[k][j].port = pool'[k][j].port
    <3> SUFFICES ASSUME NEW k \in DOMAIN pool', NEW j \in DOMAIN pool'[k], pool'[k][j].port # NoPort
                 PROVE  k \in DOMAIN pool /\ j \in DOMAIN pool[k] /\ pool[k][j].port = pool'[k][j].port
      OBVIOUS
    <3>1. CASE k # key
      BY <2>5, <3>1
    <3>2. CASE k = key
      <4>1. j \in DOMAIN Entries(t)
        BY <1>3, <2>5, <3>2
      <4>2. key \in DOMAIN pool
        BY <1>2, <4>1, EmptySeq
      <4> QED BY <1>2, <1>3, <2>5, <3>2, <4>1, <4>2
    <3> QED BY <3>1, <3>2
  <2>13. Alone'
    <3>1. LeasesApart'
      BY <1>1, <2>2, <2>4, <2>8 DEF Alone, LeasesApart
    <3>2. PortsApart'
      <4>1. ASSUME x.port # NoPort PROVE \A u \in Handlers : exchange[u].port # x.port
        <5>1. i \in DOMAIN Entries(t) /\ Entries(t)[i].port = x.port /\ key \in DOMAIN pool
          BY <1>2, <1>3, <2>2, <4>1, EmptySeq
        <5>2. \A u \in Handlers : exchange[u].port = x.port =>
                exchange[u].lease # 0 /\ key = exchange[u].key /\ i = exchange[u].lease
          BY <1>2, <4>1, <5>1 DEF Alone, OwnEntry
        <5> QED BY <2>8, <5>2
      <4> QED BY <2>4, <4>1 DEF Alone, PortsApart
    <3>3. EntriesApart'
      BY <2>12 DEF Alone, EntriesApart
    <3>4. OwnEntry'
      <4> SUFFICES ASSUME NEW u \in Handlers, NEW k \in DOMAIN pool', NEW j \in DOMAIN pool'[k],
                          pool'[k][j].port # NoPort, pool'[k][j].port = exchange'[u].port
                   PROVE  exchange'[u].lease # 0 /\ k = exchange'[u].key /\ j = exchange'[u].lease
        BY DEF OwnEntry
      <4>1. k \in DOMAIN pool /\ j \in DOMAIN pool[k] /\ pool[k][j].port = pool'[k][j].port
        BY <2>12
      <4>2. CASE u # t
        BY <2>4, <4>1, <4>2 DEF Alone, OwnEntry
      <4>3. CASE u = t
        <5>1. pool[k][j].port = entries[i].port /\ entries[i].port # NoPort
          BY <2>2, <2>4, <4>1, <4>3
        <5>2. i \in DOMAIN Entries(t) /\ key \in DOMAIN pool /\ pool[key][i].port = entries[i].port
          BY <1>2, <1>3, <5>1, EmptySeq
        <5>3. k = key /\ j = i
          BY <1>2, <4>1, <5>1, <5>2 DEF Alone, EntriesApart
        <5> QED BY <1>3, <2>2, <2>4, <4>3, <5>3
      <4> QED BY <4>2, <4>3
    <3> QED BY <3>1, <3>2, <3>3, <3>4 DEF Alone
  <2>14. SocketsOpen'
    <3> sockets' = sockets
      BY <2>3
    <3>1. \A k \in DOMAIN pool' : \A j \in DOMAIN pool'[k] :
            pool'[k][j].port # NoPort => sockets'[pool'[k][j].port] = "connected"
      BY <2>12 DEF SocketsOpen
    <3>2. x.port # NoPort => sockets'[x.port] = "connected"
      BY <1>3, <2>2, <2>5, <3>1
    <3>3. \A u \in Handlers : exchange'[u].port # NoPort =>
            sockets'[exchange'[u].port] = IF Connecting(u)' THEN "bound" ELSE "connected"
      BY <2>2, <2>4, <2>9, <2>10, <3>2 DEF SocketsOpen
    <3> QED BY <3>1, <3>3 DEF SocketsOpen
  <2>15. \A u \in Handlers : /\ exchange'[u].retiring = exchange[u].retiring
                             /\ exchange'[u].at = "receive" <=> exchange[u].at = "receive"
                             /\ exchange'[u].at = "connecting" <=> exchange[u].at = "connecting"
                             /\ exchange[u].at \in {"receive", "connecting"} =>
                                  exchange'[u].port = exchange[u].port
    BY <1>1, <2>2, <2>4
  <2>16. RepliesOwed'
    <3>1. \A p \in Ports : Waiting(p)' <=> Waiting(p)
      BY <2>15 DEF Waiting
    <3> QED BY <2>3, <3>1 DEF RepliesOwed
  <2>17. GuardsCounted'
    <3>1. \A p \in Ports : Retirees(p)' = Retirees(p) /\ (Sends(p)' <=> Sends(p))
      BY <2>3, <2>15 DEF Retirees, Sends
    <3> QED BY <2>3, <3>1 DEF GuardsCounted
  <2> QED BY <2>6, <2>7, <2>11, <2>13, <2>14, <2>16, <2>17
<1>4. CASE Grow(t)
  <2> DEFINE e == [busy |-> TRUE, port |-> NoPort, rested |-> FALSE]
             entries == Append(Entries(t), e)
             i == Len(Entries(t)) + 1
  <2>1. e \in PoolEntries
    BY DEF PoolEntries
  <2>2. entries \in Seq(PoolEntries) /\ DOMAIN entries = 1..i /\ entries[i] = e
        /\ \A j \in 1..Len(Entries(t)) : entries[j] = Entries(t)[j]
    BY <1>2, <2>1, AppendProperties, LenProperties
  <2>3. Lease(t, i, entries)
    BY <1>4 DEF Grow
  <2>4. i \in Nat \ {0} /\ i \in 1..i /\ 1..i = 1..Len(Entries(t)) \union {i} /\ i \notin 1..Len(Entries(t))
    BY <1>2
  <2>5. e.busy /\ e.port = NoPort
    OBVIOUS
  <2> HIDE DEF e, entries, i
  <2> QED BY <1>2, <1>3, <2>2, <2>3, <2>4, <2>5
<1>5. CASE Take(t)
  <2> DEFINE i == Min(Idle(t))
             e == [Entries(t)[i] EXCEPT !.busy = TRUE]
             entries == [Entries(t) EXCEPT ![i] = e]
  <2>1. i \in Idle(t)
    <3>1. Idle(t) # {} /\ Idle(t) \subseteq Nat
      BY <1>2, <1>5 DEF Take, Idle
    <3> QED BY <3>1, LeastOf
  <2> HIDE DEF i
  <2>2. i \in DOMAIN Entries(t) /\ ~Entries(t)[i].busy /\ i \in Nat \ {0}
    BY <1>2, <2>1 DEF Idle
  <2>3. Entries(t)[i] \in PoolEntries
    BY <1>2, <2>2, ElementOfSeq
  <2>4. e \in PoolEntries /\ e.busy /\ e.port = Entries(t)[i].port
    BY <2>3 DEF PoolEntries
  <2>5. Lease(t, i, entries)
    BY <1>5 DEF Take, i
  <2> HIDE DEF e
  <2>6. entries \in Seq(PoolEntries) /\ DOMAIN entries = DOMAIN Entries(t) /\ entries[i] = e
        /\ \A j \in DOMAIN Entries(t) : j # i => entries[j] = Entries(t)[j]
    BY <1>2, <2>2, <2>4, ExceptSeq
  <2> HIDE DEF entries
  <2> QED BY <1>3, <2>2, <2>4, <2>5, <2>6
<1> QED BY <1>4, <1>5

\* The pool changes in the entry an exchange has leased, if it has one.
Changed(t, e) ==
  /\ DOMAIN pool' = DOMAIN pool
  /\ \A k \in DOMAIN pool :
       /\ DOMAIN pool'[k] = DOMAIN pool[k]
       /\ \A i \in DOMAIN pool[k] :
            pool'[k][i] = IF exchange[t].lease # 0 /\ k = exchange[t].key /\ i = exchange[t].lease
                          THEN e ELSE pool[k][i]

(* An entry that is set is the one that was leased. *)
LEMMA SetFacts ==
  ASSUME PlainInv, NEW t \in Handlers, exchange[t].lease # 0, NEW e \in PoolEntries,
         SetEntries(t, [Entries(t) EXCEPT ![exchange[t].lease] = e])
  PROVE  PoolOK' /\ Changed(t, e)
<1> USE DEF PlainInv, PlainTypeOK
<1> DEFINE key == exchange[t].key
           i == exchange[t].lease
           entries == [Entries(t) EXCEPT ![i] = e]
<1>1. key \in DOMAIN pool /\ i \in DOMAIN pool[key] /\ Entries(t) = pool[key]
  BY DEF LeasesHeld, Entries
<1>2. pool[key] \in Seq(PoolEntries) /\ i \in 1..Len(pool[key])
  BY <1>1, PoolFacts
<1>3. /\ entries \in Seq(PoolEntries) /\ Len(entries) = Len(pool[key])
      /\ \A j \in 1..Len(pool[key]) : entries[j] = IF j = i THEN e ELSE pool[key][j]
  BY <1>1, <1>2, ExceptSeq
<1>4. DOMAIN entries = DOMAIN pool[key] /\ DOMAIN pool[key] = 1..Len(pool[key])
  BY <1>2, <1>3, LenProperties
<1>5. pool' = [k \in DOMAIN pool \union {key} |-> IF k = key THEN entries ELSE pool[k]]
  BY DEF SetEntries
<1> HIDE DEF entries
<1>6. DOMAIN pool' = DOMAIN pool /\ pool'[key] = entries
      /\ \A k \in DOMAIN pool : k # key => pool'[k] = pool[k]
  BY <1>1, <1>5
<1>7. PoolOK'
  BY <1>1, <1>3, <1>5 DEF PoolOK
<1>8. Changed(t, e)
  BY <1>3, <1>4, <1>6 DEF Changed
<1> QED BY <1>7, <1>8

(* The port of a connection is entered where it is leased. *)
LEMMA EntryFacts ==
  ASSUME PlainInv, NEW t \in Handlers, NEW port \in Ports \union {NoPort}, NEW rested \in BOOLEAN,
         EntryPort(t, port, rested)
  PROVE  /\ [busy |-> TRUE, port |-> port, rested |-> rested] \in PoolEntries
         /\ PoolOK' /\ Changed(t, [busy |-> TRUE, port |-> port, rested |-> rested])
<1> DEFINE e == [busy |-> TRUE, port |-> port, rested |-> rested]
<1>1. e \in PoolEntries
  BY DEF PoolEntries
<1>2. CASE exchange[t].lease = 0
  BY <1>1, <1>2 DEF EntryPort, Changed, PlainInv, PlainTypeOK, PoolOK
<1>3. CASE exchange[t].lease # 0
  <2>1. SetEntries(t, [Entries(t) EXCEPT ![exchange[t].lease] = e])
    BY <1>3 DEF EntryPort
  <2> QED BY <1>1, <1>3, <2>1, SetFacts
<1> QED BY <1>1, <1>2, <1>3

(* An exchange that changes its own connection, to none, to the one it has *)
(* or to one that nobody has, shares nothing with the others.              *)
LEMMA Owned ==
  ASSUME PlainInv, NEW t \in Handlers, NEW x \in Exchanges, exchange' = [exchange EXCEPT ![t] = x],
         ShapeOf(x), NEW e \in PoolEntries, Changed(t, e),
         x.lease \in {exchange[t].lease, 0},
         x.lease # 0 => /\ x.key = exchange[t].key /\ e.busy
                        /\ e.port = IF x.at \in {"bound", "connecting"} THEN NoPort ELSE x.port,
         exchange[t].lease # 0 /\ x.lease = 0 => x.port = NoPort,
         exchange[t].lease # 0 => e.port \in {NoPort, exchange[t].port},
         x.port \in {NoPort, exchange[t].port} \/ sockets[x.port] = "free"
  PROVE  /\ ExchangeOK' /\ Shaped' /\ LeasesHeld' /\ Alone'
         /\ exchange'[t] = x /\ \A u \in Handlers : u # t => exchange'[u] = exchange[u]
<1> USE DEF PlainInv, PlainTypeOK
<1>1. ExchangeOK' /\ exchange'[t] = x /\ \A u \in Handlers : u # t => exchange'[u] = exchange[u]
  BY OneExchange
<1>2. Shaped'
  BY <1>1 DEF Shaped
<1>3. \A u \in Handlers : u # t /\ exchange[u].lease # 0 /\ exchange[t].lease # 0 =>
        exchange[u].key # exchange[t].key \/ exchange[u].lease # exchange[t].lease
  BY DEF Alone, LeasesApart
<1>4. LeasesHeld'
  <2>1. ASSUME NEW u \in Handlers, exchange'[u].lease # 0
        PROVE  /\ exchange'[u].key \in DOMAIN pool' /\ exchange'[u].lease \in DOMAIN pool'[exchange'[u].key]
               /\ pool'[exchange'[u].key][exchange'[u].lease].busy
               /\ pool'[exchange'[u].key][exchange'[u].lease].port =
                    IF Connecting(u)' THEN NoPort ELSE exchange'[u].port
    <3>1. CASE u = t
      BY <1>1, <2>1, <3>1 DEF Changed, LeasesHeld, Connecting
    <3>2. CASE u # t
      BY <1>1, <1>3, <2>1, <3>2 DEF Changed, LeasesHeld, Connecting
    <3> QED BY <3>1, <3>2
  <2> QED BY <2>1 DEF LeasesHeld
<1>5. LeasesApart'
  BY <1>1 DEF Alone, LeasesApart
<1>6. x.port # NoPort /\ sockets[x.port] = "free" =>
        /\ \A u \in Handlers : exchange[u].port # x.port
        /\ \A k \in DOMAIN pool : \A i \in DOMAIN pool[k] : pool[k][i].port # x.port
  BY DEF SocketsOpen
<1>7. PortsApart'
  BY <1>1, <1>6 DEF Alone, PortsApart
<1>8. ASSUME NEW k \in DOMAIN pool', NEW i \in DOMAIN pool'[k], pool'[k][i].port # NoPort
      PROVE  /\ k \in DOMAIN pool /\ i \in DOMAIN pool[k]
             /\ \/ pool'[k][i].port = pool[k][i].port /\ pool'[k][i] = pool[k][i]
                \/ /\ exchange[t].lease # 0 /\ k = exchange[t].key /\ i = exchange[t].lease
                   /\ pool'[k][i] = e /\ e.port = exchange[t].port
  BY <1>8 DEF Changed
<1>9. EntriesApart'
  <2> SUFFICES ASSUME NEW k \in DOMAIN pool', NEW l \in DOMAIN pool', NEW i \in DOMAIN pool'[k],
                      NEW j \in DOMAIN pool'[l], pool'[k][i].port # NoPort,
                      pool'[k][i].port = pool'[l][j].port
               PROVE  k = l /\ i = j
    BY DEF EntriesApart
  <2> QED BY <1>8 DEF Alone, EntriesApart, OwnEntry
<1>10. OwnEntry'
  <2> SUFFICES ASSUME NEW u \in Handlers, NEW k \in DOMAIN pool', NEW i \in DOMAIN pool'[k],
                      pool'[k][i].port # NoPort, pool'[k][i].port = exchange'[u].port
               PROVE  exchange'[u].lease # 0 /\ k = exchange'[u].key /\ i = exchange'[u].lease
    BY DEF OwnEntry
  <2>1. CASE u # t
    BY <1>1, <1>8, <2>1 DEF Alone, OwnEntry, PortsApart
  <2>2. CASE u = t
    <3>1. exchange'[u] = x /\ x.port # NoPort
      BY <1>1, <2>2
    <3>2. exchange[t].lease # 0 /\ k = exchange[t].key /\ i = exchange[t].lease
      BY <1>6, <1>8, <3>1 DEF Alone, OwnEntry
    <3> QED BY <3>1, <3>2
  <2> QED BY <2>1, <2>2
<1> QED BY <1>1, <1>2, <1>4, <1>5, <1>7, <1>9, <1>10 DEF Alone

(* A socket is closed; its port is the exchange's no longer, its guard is  *)
(* still there.                                                            *)
LEMMA PlainCloses ==
  ASSUME PlainInv, NEW t \in Handlers, NEW x \in Exchanges, exchange' = [exchange EXCEPT ![t] = x],
         ShapeOf(x), exchange[t].at \in {"leased", "attempt", "connecting", "receive"},
         exchange[t].retiring = {}, x.at \notin {"bound", "connecting", "receive"},
         x.lease = exchange[t].lease, x.lease # 0 => x.key = exchange[t].key, x.port = NoPort,
         x.retiring = IF exchange[t].port = NoPort THEN {} ELSE {exchange[t].port},
         sockets' = [q \in Ports |-> IF q = exchange[t].port THEN "free" ELSE sockets[q]],
         owed' = [q \in Ports |-> IF q = exchange[t].port THEN 0 ELSE owed[q]],
         EntryPort(t, NoPort, FALSE), UNCHANGED <<generation, registry>>
  PROVE  PlainInv'
<1> USE DEF PlainInv, PlainTypeOK
<1> DEFINE p == exchange[t].port
           e == [busy |-> TRUE, port |-> NoPort, rested |-> FALSE]
<1>1. e \in PoolEntries /\ PoolOK' /\ Changed(t, e)
  BY EntryFacts
<1>2. e.busy /\ e.port = NoPort
  OBVIOUS
<1> HIDE DEF e
<1>3. /\ ExchangeOK' /\ Shaped' /\ LeasesHeld' /\ Alone'
      /\ exchange'[t] = x /\ \A u \in Handlers : u # t => exchange'[u] = exchange[u]
  BY <1>1, <1>2, Owned
<1>4. p \in Ports \union {NoPort} /\ NoPort \notin Ports
  BY PlainTransportConstants DEF ExchangeOK, Exchanges, Ports
<1>5. PortsOK'
  BY DEF PortsOK
<1>6. p # NoPort => \A u \in Handlers : u # t => exchange[u].port # p
  BY DEF Alone, PortsApart
<1>7. \A u \in Handlers : exchange[u].port \in Ports \union {NoPort}
  BY DEF ExchangeOK, Exchanges
<1>8. SocketsOpen'
  <2>1. ASSUME NEW k \in DOMAIN pool', NEW i \in DOMAIN pool'[k], pool'[k][i].port # NoPort
        PROVE  sockets'[pool'[k][i].port] = "connected"
    <3>1. k \in DOMAIN pool /\ i \in DOMAIN pool[k] /\ pool'[k][i] = pool[k][i]
          /\ ~(exchange[t].lease # 0 /\ k = exchange[t].key /\ i = exchange[t].lease)
      BY <1>1, <1>2, <2>1 DEF Changed
    <3>2. pool[k][i].port # p /\ pool[k][i].port \in Ports
      BY <1>4, <2>1, <3>1, PoolFacts DEF Alone, OwnEntry, PoolEntries
    <3> QED BY <2>1, <3>1, <3>2 DEF SocketsOpen
  <2>2. ASSUME NEW u \in Handlers, exchange'[u].port # NoPort
        PROVE  sockets'[exchange'[u].port] = IF Connecting(u)' THEN "bound" ELSE "connected"
    <3>1. u # t /\ exchange'[u] = exchange[u]
      BY <1>3, <2>2
    <3>2. exchange[u].port # p /\ exchange[u].port \in Ports
      BY <1>6, <1>7, <2>2, <3>1
    <3> QED BY <2>2, <3>1, <3>2 DEF SocketsOpen, Connecting
  <2> QED BY <2>1, <2>2 DEF SocketsOpen
<1>9. ASSUME NEW q \in Ports
      PROVE  /\ q = p => ~Waiting(q)' /\ ~Sends(q)' /\ Sends(q)
             /\ q # p => (Waiting(q)' <=> Waiting(q)) /\ (Sends(q)' <=> Sends(q))
  <2>1. CASE q = p
    <3>1. p # NoPort /\ sockets'[p] = "free"
      BY <1>4, <2>1
    <3>2. ~Waiting(q)' /\ ~Sends(q)'
      BY <1>3, <1>6, <2>1, <3>1 DEF Waiting, Sends
    <3>3. Sends(q)
      BY <2>1, <3>1 DEF Sends, SocketsOpen, Connecting
    <3> QED BY <2>1, <3>2, <3>3
  <2>2. CASE q # p
    <3>1. \A u \in Handlers : /\ exchange'[u].at = "receive" /\ exchange'[u].port = q
                                <=> exchange[u].at = "receive" /\ exchange[u].port = q
                              /\ exchange'[u].at = "connecting" /\ exchange'[u].port = q
                                <=> exchange[u].at = "connecting" /\ exchange[u].port = q
      BY <1>3, <1>4, <2>2
    <3>2. sockets'[q] = sockets[q]
      BY <2>2
    <3> QED BY <2>2, <3>1, <3>2 DEF Waiting, Sends
  <2> QED BY <2>1, <2>2
<1>10. RepliesOwed'
  BY <1>9 DEF RepliesOwed
<1>11. GuardsCounted'
  <2>1. ASSUME NEW q \in Ports
        PROVE  registry'[q] = Cardinality(Retirees(q)') + IF Sends(q)' THEN 1 ELSE 0
    <3>1. Cardinality(Retirees(q)') = Cardinality(Retirees(q)) + IF q = p THEN 1 ELSE 0
      BY <1>3, <1>4, Retire
    <3>2. registry'[q] = Cardinality(Retirees(q)) + IF Sends(q) THEN 1 ELSE 0
      BY DEF GuardsCounted
    <3> QED BY <1>9, <3>1, <3>2, RetireesFinite
  <2> QED BY <2>1 DEF GuardsCounted
<1> QED BY <1>1, <1>3, <1>5, <1>8, <1>10, <1>11

\* What becomes of the socket on port p when its exchange goes on as x, and of
\* the entry that is leased, which becomes e
Advances(t, x, p, e) ==
  /\ exchange' = [exchange EXCEPT ![t] = x] /\ ShapeOf(x)
  /\ x.port = p /\ x.lease = exchange[t].lease /\ x.key = exchange[t].key
  /\ x.retiring = exchange[t].retiring
  /\ x.at \in {"bound", "connecting", "attempt", "receive", "release"}
  /\ exchange[t].at \in {"bound", "connecting", "attempt", "receive"}
  /\ exchange[t].port = p \/ (exchange[t].port = NoPort /\ sockets[p] = "free")
  /\ PoolOK' /\ Changed(t, e)
  /\ x.lease # 0 => e.busy /\ e.port = IF x.at \in {"bound", "connecting"} THEN NoPort ELSE p
  /\ exchange[t].lease # 0 => e.port \in {NoPort, exchange[t].port}
  /\ sockets' = [sockets EXCEPT ![p] = IF x.at \in {"bound", "connecting"} THEN "bound" ELSE "connected"]
  /\ owed' = [owed EXCEPT ![p] = owed[p] + (IF x.at = "receive" THEN 1 ELSE 0)
                                        - (IF exchange[t].at = "receive" THEN 1 ELSE 0)]
  /\ registry' = [registry EXCEPT ![p] =
                    registry[p] + (IF x.at # "bound" THEN 1 ELSE 0)
                      - (IF exchange[t].port = p /\ exchange[t].at # "bound" THEN 1 ELSE 0)]
  /\ UNCHANGED generation

(* An exchange brings its socket one step on: its entry, its replies and   *)
(* its guard go with it.                                                   *)
LEMMA PlainAdvances ==
  ASSUME PlainInv, NEW t \in Handlers, NEW x \in Exchanges, NEW p \in Ports, NEW e \in PoolEntries,
         Advances(t, x, p, e)
  PROVE  PlainInv'
<1> USE DEF Advances
<1> USE DEF PlainInv, PlainTypeOK
<1>1. p # NoPort
  BY PlainTransportConstants DEF Ports
<1>2. /\ ExchangeOK' /\ Shaped' /\ LeasesHeld' /\ Alone'
      /\ exchange'[t] = x /\ \A u \in Handlers : u # t => exchange'[u] = exchange[u]
  <2>1. x.lease \in {exchange[t].lease, 0} /\ (exchange[t].lease # 0 /\ x.lease = 0 => x.port = NoPort)
    OBVIOUS
  <2>2. x.lease # 0 => /\ x.key = exchange[t].key /\ e.busy
                       /\ e.port = IF x.at \in {"bound", "connecting"} THEN NoPort ELSE x.port
    OBVIOUS
  <2>3. x.port \in {NoPort, exchange[t].port} \/ sockets[x.port] = "free"
    OBVIOUS
  <2> QED BY <2>1, <2>2, <2>3, Owned
<1>3. PortsOK'
  BY DEF PortsOK
<1>4. \A u \in Handlers : u # t => exchange[u].port # p /\ exchange'[u].port # p
  BY <1>1, <1>2 DEF Alone, PortsApart
<1>5. \A u \in Handlers : exchange[u].port \in Ports \union {NoPort}
  BY DEF ExchangeOK, Exchanges
<1>6. sockets'[p] = IF x.at \in {"bound", "connecting"} THEN "bound" ELSE "connected"
  BY DEF PortsOK
<1>7. \A q \in Ports : q # p => sockets'[q] = sockets[q] /\ owed'[q] = owed[q] /\ registry'[q] = registry[q]
  BY DEF PortsOK
<1>8. SocketsOpen'
  <2>1. ASSUME NEW k \in DOMAIN pool', NEW i \in DOMAIN pool'[k], pool'[k][i].port # NoPort
        PROVE  sockets'[pool'[k][i].port] = "connected"
    <3>1. k \in DOMAIN pool /\ i \in DOMAIN pool[k]
          /\ pool'[k][i] = IF exchange[t].lease # 0 /\ k = exchange[t].key /\ i = exchange[t].lease
                           THEN e ELSE pool[k][i]
      BY <2>1 DEF Changed
    <3>2. CASE exchange[t].lease # 0 /\ k = exchange[t].key /\ i = exchange[t].lease
      BY <1>6, <2>1, <3>1, <3>2
    <3>3. CASE ~(exchange[t].lease # 0 /\ k = exchange[t].key /\ i = exchange[t].lease)
      <4>1. pool'[k][i] = pool[k][i] /\ pool[k][i].port \in Ports
        BY <2>1, <3>1, <3>3, PoolFacts DEF PoolEntries
      <4>2. sockets[pool[k][i].port] = "connected"
        BY <2>1, <3>1, <4>1 DEF SocketsOpen
      <4>3. pool[k][i].port # p
        BY <1>1, <3>1, <3>3, <4>2 DEF Alone, OwnEntry
      <4> QED BY <1>7, <4>1, <4>2, <4>3
    <3> QED BY <3>2, <3>3
  <2>2. ASSUME NEW u \in Handlers, exchange'[u].port # NoPort
        PROVE  sockets'[exchange'[u].port] = IF Connecting(u)' THEN "bound" ELSE "connected"
    <3>1. CASE u = t
      BY <1>2, <1>6, <3>1 DEF Connecting
    <3>2. CASE u # t
      BY <1>2, <1>4, <1>5, <1>7, <2>2, <3>2 DEF SocketsOpen, Connecting
    <3> QED BY <3>1, <3>2
  <2> QED BY <2>1, <2>2 DEF SocketsOpen
<1>9. /\ Waiting(p)' <=> x.at = "receive"
      /\ Sends(p)' <=> x.at # "bound"
      /\ Waiting(p) <=> exchange[t].at = "receive"
  <2>1. exchange[t].at = "receive" => exchange[t].port = p
    BY <1>1 DEF Shaped, ShapeOf
  <2>2. \A u \in Handlers : exchange[u].port = p => u = t
    BY <1>4
  <2> QED BY <1>2, <1>4, <1>6, <2>1, <2>2 DEF Waiting, Sends
<1>10. Sends(p) <=> exchange[t].port = p /\ exchange[t].at # "bound"
  <2>1. CASE exchange[t].port = p
    <3>1. sockets[p] = IF Connecting(t) THEN "bound" ELSE "connected"
      BY <1>1, <2>1 DEF SocketsOpen
    <3> QED BY <1>4, <2>1, <3>1 DEF Sends, Connecting
  <2>2. CASE exchange[t].port = NoPort /\ sockets[p] = "free"
    BY <1>1, <1>4, <2>2 DEF Sends
  <2> QED BY <2>1, <2>2
<1>11. \A q \in Ports : q # p => (Waiting(q)' <=> Waiting(q)) /\ (Sends(q)' <=> Sends(q))
  <2>1. \A q \in Ports, u \in Handlers : q # p => (exchange'[u].port = q <=> exchange[u].port = q)
                                                  /\ (exchange[u].port = q => exchange'[u] = exchange[u])
    BY <1>1, <1>2, PlainTransportConstants DEF Ports
  <2>2. \A q \in Ports : q # p => (Waiting(q)' <=> Waiting(q))
    BY <2>1 DEF Waiting
  <2>3. \A q \in Ports : q # p => (Sends(q)' <=> Sends(q))
    BY <1>7, <2>1 DEF Sends
  <2> QED BY <2>2, <2>3
<1>12. RepliesOwed'
  <2>1. owed'[p] = owed[p] + (IF x.at = "receive" THEN 1 ELSE 0) - (IF exchange[t].at = "receive" THEN 1 ELSE 0)
    BY DEF PortsOK
  <2>2. owed[p] = IF Waiting(p) THEN 1 ELSE 0
    BY DEF RepliesOwed
  <2>3. owed'[p] = IF Waiting(p)' THEN 1 ELSE 0
    BY <1>9, <2>1, <2>2
  <2> QED BY <1>7, <1>11, <2>3 DEF RepliesOwed
<1>13. GuardsCounted'
  <2>1. \A q : Retirees(q)' = Retirees(q)
    BY <1>2 DEF Retirees
  <2>2. registry'[p] = registry[p] + (IF x.at # "bound" THEN 1 ELSE 0)
                         - (IF exchange[t].port = p /\ exchange[t].at # "bound" THEN 1 ELSE 0)
    BY DEF PortsOK
  <2>3. registry[p] = Cardinality(Retirees(p)) + IF Sends(p) THEN 1 ELSE 0
    BY DEF GuardsCounted
  <2>4. registry'[p] = Cardinality(Retirees(p)') + IF Sends(p)' THEN 1 ELSE 0
    BY <1>9, <1>10, <2>1, <2>2, <2>3, RetireesFinite
  <2> QED BY <1>7, <1>11, <2>1, <2>4 DEF GuardsCounted
<1> QED BY <1>2, <1>3, <1>8, <1>12, <1>13

(* Nothing happens to the pool. *)
LEMMA KeepFacts ==
  ASSUME PlainInv, NEW t \in Handlers, UNCHANGED pool
  PROVE  PoolOK' /\ \E e \in PoolEntries :
                      /\ Changed(t, e)
                      /\ exchange[t].lease # 0 =>
                           e = pool[exchange[t].key][exchange[t].lease] /\ e.busy
                           /\ e.port = IF Connecting(t) THEN NoPort ELSE exchange[t].port
<1> USE DEF PlainInv, PlainTypeOK
<1>1. CASE exchange[t].lease = 0
  <2>1. [busy |-> TRUE, port |-> NoPort, rested |-> FALSE] \in PoolEntries
    BY DEF PoolEntries
  <2> QED BY <1>1, <2>1 DEF Changed, PoolOK
<1>2. CASE exchange[t].lease # 0
  <2>1. pool[exchange[t].key][exchange[t].lease] \in PoolEntries
    BY <1>2, PoolFacts DEF LeasesHeld
  <2> QED BY <1>2, <2>1 DEF Changed, PoolOK, LeasesHeld
<1> QED BY <1>1, <1>2

(* A socket is opened, entered, connected and used. *)
LEMMA PlainConnects ==
  ASSUME PlainInv, NEW t \in Handlers,
         Bind(t) \/ Register(t) \/ Connect(t) \/ Send(t) \/ Receive(t)
  PROVE  PlainInv'
<1> USE DEF PlainInv, PlainTypeOK
<1>1. /\ exchange[t] \in Exchanges /\ ShapeOf(exchange[t]) /\ NoPort \notin Ports
      /\ exchange[t].port \in Ports \union {NoPort} /\ exchange[t].lease \in Nat
  BY PlainTransportConstants DEF ExchangeOK, Exchanges, Shaped, Ports
<1>2. exchange[t].port # NoPort => sockets[exchange[t].port] = IF Connecting(t) THEN "bound" ELSE "connected"
  BY DEF SocketsOpen
<1>3. \A p \in Ports : owed[p] \in Int /\ registry[p] \in Int
  BY DEF PortsOK
<1> HIDE DEF PlainInv, PlainTypeOK
<1>4. ASSUME NEW p \in LocalPorts(exchange[t].over), Steps(t, "attempt"), exchange[t].port = NoPort,
             sockets[p] = "free", sockets' = [sockets EXCEPT ![p] = "bound"],
             exchange' = [exchange EXCEPT ![t].at = "bound", ![t].port = p],
             UNCHANGED <<generation, pool, owed, registry>>
      PROVE  PlainInv'
  <2> DEFINE x == [exchange[t] EXCEPT !.at = "bound", !.port = p]
  <2>1. p \in Ports /\ exchange[t].at = "attempt"
    BY <1>4 DEF LocalPorts, Ports, Steps
  <2>2. x \in Exchanges /\ exchange' = [exchange EXCEPT ![t] = x]
    BY <1>1, <1>4, <2>1 DEF Exchanges, Goings, PlainInv, PlainTypeOK, ExchangeOK
  <2>3. /\ x.at = "bound" /\ x.port = p /\ x.lease = exchange[t].lease /\ x.key = exchange[t].key
        /\ x.retiring = exchange[t].retiring /\ ShapeOf(x)
    BY <1>1, <2>1 DEF Exchanges, ShapeOf, Stops, Goings
  <2>4. PICK e \in PoolEntries :
          /\ Changed(t, e) /\ PoolOK'
          /\ exchange[t].lease # 0 => e.busy /\ e.port = IF Connecting(t) THEN NoPort ELSE exchange[t].port
    BY <1>4, KeepFacts
  <2>5. exchange[t].lease # 0 => e.busy /\ e.port = NoPort
    BY <1>4, <2>4
  <2>6. owed' = [owed EXCEPT ![p] = owed[p] + (IF x.at = "receive" THEN 1 ELSE 0)
                                            - (IF exchange[t].at = "receive" THEN 1 ELSE 0)]
        /\ registry' = [registry EXCEPT ![p] =
                          registry[p] + (IF x.at # "bound" THEN 1 ELSE 0)
                            - (IF exchange[t].port = p /\ exchange[t].at # "bound" THEN 1 ELSE 0)]
    BY <1>1, <1>3, <1>4, <2>1, <2>3 DEF PlainInv, PlainTypeOK, PortsOK
  <2>7. sockets' = [sockets EXCEPT ![p] = IF x.at \in {"bound", "connecting"} THEN "bound" ELSE "connected"]
    BY <1>4, <2>3
  <2> HIDE DEF x
  <2>8. Advances(t, x, p, e)
    BY <1>1, <1>4, <2>1, <2>2, <2>3, <2>4, <2>5, <2>6, <2>7 DEF Advances
  <2> QED BY <2>1, <2>2, <2>8, PlainAdvances
<1>5. CASE Bind(t)
  BY <1>4, <1>5 DEF Bind
<1> DEFINE p == exchange[t].port
<1>6. CASE Register(t)
  <2> DEFINE x == [exchange[t] EXCEPT !.at = "connecting"]
  <2>1. /\ exchange[t].at = "bound" /\ p \in Ports /\ p # NoPort /\ sockets[p] = "bound"
        /\ UNCHANGED <<generation, pool, sockets, owed>>
    BY <1>1, <1>2, <1>6 DEF Register, Steps, ShapeOf, Connecting
  <2>2. x \in Exchanges /\ exchange' = [exchange EXCEPT ![t] = x]
    BY <1>1, <1>6 DEF Register, Moves, Exchanges, Goings, PlainInv, PlainTypeOK, ExchangeOK
  <2>3. /\ x.at = "connecting" /\ x.port = p /\ x.lease = exchange[t].lease /\ x.key = exchange[t].key
        /\ x.retiring = exchange[t].retiring /\ ShapeOf(x)
    BY <1>1, <2>1 DEF Exchanges, ShapeOf, Stops, Goings
  <2>4. PICK e \in PoolEntries :
          /\ Changed(t, e) /\ PoolOK'
          /\ exchange[t].lease # 0 => e.busy /\ e.port = IF Connecting(t) THEN NoPort ELSE exchange[t].port
    BY <2>1, KeepFacts
  <2>5. exchange[t].lease # 0 => e.busy /\ e.port = NoPort
    BY <2>1, <2>4 DEF Connecting
  <2>6. owed' = [owed EXCEPT ![p] = owed[p] + (IF x.at = "receive" THEN 1 ELSE 0)
                                            - (IF exchange[t].at = "receive" THEN 1 ELSE 0)]
    BY <1>3, <2>1, <2>3 DEF PlainInv, PlainTypeOK, PortsOK
  <2>7. registry' = [registry EXCEPT ![p] =
                       registry[p] + (IF x.at # "bound" THEN 1 ELSE 0)
                         - (IF exchange[t].port = p /\ exchange[t].at # "bound" THEN 1 ELSE 0)]
    BY <1>3, <1>6, <2>1, <2>3 DEF Register
  <2>8. sockets' = [sockets EXCEPT ![p] = IF x.at \in {"bound", "connecting"} THEN "bound" ELSE "connected"]
    BY <2>1, <2>3 DEF PlainInv, PlainTypeOK, PortsOK
  <2> HIDE DEF x
  <2>9. Advances(t, x, p, e)
    BY <1>1, <2>1, <2>2, <2>3, <2>4, <2>5, <2>6, <2>7, <2>8 DEF Advances
  <2> QED BY <2>1, <2>2, <2>9, PlainAdvances
<1>7. CASE Connect(t)
  <2> DEFINE x == [exchange[t] EXCEPT !.at = "attempt"]
             e == [busy |-> TRUE, port |-> p, rested |-> FALSE]
  <2>1. /\ exchange[t].at = "connecting" /\ p \in Ports /\ p # NoPort
        /\ EntryPort(t, p, FALSE) /\ UNCHANGED <<generation, owed, registry>>
    BY <1>1, <1>7 DEF Connect, Steps, ShapeOf
  <2>2. x \in Exchanges /\ exchange' = [exchange EXCEPT ![t] = x]
    BY <1>1, <1>7 DEF Connect, Moves, Exchanges, Goings, PlainInv, PlainTypeOK, ExchangeOK
  <2>3. /\ x.at = "attempt" /\ x.port = p /\ x.lease = exchange[t].lease /\ x.key = exchange[t].key
        /\ x.retiring = exchange[t].retiring /\ ShapeOf(x)
    BY <1>1, <2>1 DEF Exchanges, ShapeOf, Stops, Goings
  <2>4. e \in PoolEntries /\ Changed(t, e) /\ PoolOK' /\ e.busy /\ e.port = p
    BY <2>1, EntryFacts
  <2>5. owed' = [owed EXCEPT ![p] = owed[p] + (IF x.at = "receive" THEN 1 ELSE 0)
                                            - (IF exchange[t].at = "receive" THEN 1 ELSE 0)]
    BY <1>3, <2>1, <2>3 DEF PlainInv, PlainTypeOK, PortsOK
  <2>6. registry' = [registry EXCEPT ![p] =
                       registry[p] + (IF x.at # "bound" THEN 1 ELSE 0)
                         - (IF exchange[t].port = p /\ exchange[t].at # "bound" THEN 1 ELSE 0)]
    BY <1>3, <2>1, <2>3 DEF PlainInv, PlainTypeOK, PortsOK
  <2>7. sockets' = [sockets EXCEPT ![p] = IF x.at \in {"bound", "connecting"} THEN "bound" ELSE "connected"]
    BY <1>7, <2>3 DEF Connect
  <2> HIDE DEF x, e
  <2>8. Advances(t, x, p, e)
    BY <1>1, <2>1, <2>2, <2>3, <2>4, <2>5, <2>6, <2>7 DEF Advances
  <2> QED BY <2>1, <2>2, <2>4, <2>8, PlainAdvances
<1>8. CASE Send(t)
  <2> DEFINE x == [exchange[t] EXCEPT !.at = "receive"]
  <2>1. /\ exchange[t].at = "attempt" /\ p \in Ports /\ p # NoPort /\ sockets[p] = "connected"
        /\ UNCHANGED <<generation, pool, sockets, registry>>
    BY <1>1, <1>2, <1>8 DEF Send, Steps, Connecting
  <2>2. x \in Exchanges /\ exchange' = [exchange EXCEPT ![t] = x]
    BY <1>1, <1>8 DEF Send, Moves, Exchanges, Goings, PlainInv, PlainTypeOK, ExchangeOK
  <2>3. /\ x.at = "receive" /\ x.port = p /\ x.lease = exchange[t].lease /\ x.key = exchange[t].key
        /\ x.retiring = exchange[t].retiring /\ ShapeOf(x)
    BY <1>1, <2>1 DEF Exchanges, ShapeOf, Stops, Goings
  <2>4. PICK e \in PoolEntries :
          /\ Changed(t, e) /\ PoolOK'
          /\ exchange[t].lease # 0 => e.busy /\ e.port = IF Connecting(t) THEN NoPort ELSE exchange[t].port
    BY <2>1, KeepFacts
  <2>5. exchange[t].lease # 0 => e.busy /\ e.port = p
    BY <2>1, <2>4 DEF Connecting
  <2>6. owed' = [owed EXCEPT ![p] = owed[p] + (IF x.at = "receive" THEN 1 ELSE 0)
                                            - (IF exchange[t].at = "receive" THEN 1 ELSE 0)]
    BY <1>3, <1>8, <2>1, <2>3 DEF Send
  <2>7. registry' = [registry EXCEPT ![p] =
                       registry[p] + (IF x.at # "bound" THEN 1 ELSE 0)
                         - (IF exchange[t].port = p /\ exchange[t].at # "bound" THEN 1 ELSE 0)]
    BY <1>3, <2>1, <2>3 DEF PlainInv, PlainTypeOK, PortsOK
  <2>8. sockets' = [sockets EXCEPT ![p] = IF x.at \in {"bound", "connecting"} THEN "bound" ELSE "connected"]
    BY <2>1, <2>3 DEF PlainInv, PlainTypeOK, PortsOK
  <2> HIDE DEF x
  <2>9. Advances(t, x, p, e)
    BY <1>1, <2>1, <2>2, <2>3, <2>4, <2>5, <2>6, <2>7, <2>8 DEF Advances
  <2> QED BY <2>1, <2>2, <2>9, PlainAdvances
<1>9. CASE Receive(t)
  <2> DEFINE x == [exchange[t] EXCEPT !.at = "release"]
             e == [busy |-> TRUE, port |-> p, rested |-> FALSE]
  <2>1. /\ exchange[t].at = "receive" /\ p \in Ports /\ p # NoPort /\ sockets[p] = "connected"
        /\ EntryPort(t, p, FALSE) /\ UNCHANGED <<generation, sockets, registry>>
        /\ exchange[t].over = "tcp"
    BY <1>1, <1>2, <1>9 DEF Receive, Steps, ShapeOf, Connecting
  <2>2. x \in Exchanges /\ exchange' = [exchange EXCEPT ![t] = x]
    BY <1>1, <1>9 DEF Receive, Moves, Exchanges, Goings, PlainInv, PlainTypeOK, ExchangeOK
  <2>3. /\ x.at = "release" /\ x.port = p /\ x.lease = exchange[t].lease /\ x.key = exchange[t].key
        /\ x.retiring = exchange[t].retiring /\ ShapeOf(x)
    BY <1>1, <2>1 DEF Exchanges, ShapeOf, Stops, Goings
  <2>4. e \in PoolEntries /\ Changed(t, e) /\ PoolOK' /\ e.busy /\ e.port = p
    BY <2>1, EntryFacts
  <2>5. owed' = [owed EXCEPT ![p] = owed[p] + (IF x.at = "receive" THEN 1 ELSE 0)
                                            - (IF exchange[t].at = "receive" THEN 1 ELSE 0)]
    <3>1. owed' = [owed EXCEPT ![p] = owed[p] - 1]
      BY <1>9 DEF Receive
    <3>2. owed[p] + (IF x.at = "receive" THEN 1 ELSE 0) - (IF exchange[t].at = "receive" THEN 1 ELSE 0)
            = owed[p] - 1
      BY <1>3, <2>1, <2>3
    <3> QED BY <3>1, <3>2
  <2>6. registry' = [registry EXCEPT ![p] =
                       registry[p] + (IF x.at # "bound" THEN 1 ELSE 0)
                         - (IF exchange[t].port = p /\ exchange[t].at # "bound" THEN 1 ELSE 0)]
    BY <1>3, <2>1, <2>3 DEF PlainInv, PlainTypeOK, PortsOK
  <2>7. sockets' = [sockets EXCEPT ![p] = IF x.at \in {"bound", "connecting"} THEN "bound" ELSE "connected"]
    BY <2>1, <2>3 DEF PlainInv, PlainTypeOK, PortsOK
  <2> HIDE DEF x, e
  <2>8. Advances(t, x, p, e)
    BY <1>1, <2>1, <2>2, <2>3, <2>4, <2>5, <2>6, <2>7 DEF Advances
  <2> QED BY <2>1, <2>2, <2>4, <2>8, PlainAdvances
<1> QED BY <1>5, <1>6, <1>7, <1>8, <1>9

(* A socket is given up: the connection was idle too long, it failed, or   *)
(* the datagram has come.                                                  *)
LEMMA PlainEnds ==
  ASSUME PlainInv, NEW t \in Handlers,
         \/ Inspect(t)
         \/ \E truncated \in BOOLEAN : ReceiveUdp(t, truncated)
         \/ \E retry \in BOOLEAN : Fail(t, retry)
  PROVE  PlainInv'
<1> USE DEF PlainInv, PlainTypeOK
<1>1. /\ exchange[t] \in Exchanges /\ ShapeOf(exchange[t]) /\ NoPort \notin Ports
      /\ exchange[t].port \in Ports \union {NoPort} /\ exchange[t].lease \in Nat
  BY PlainTransportConstants DEF ExchangeOK, Exchanges, Shaped, Ports
<1> HIDE DEF PlainInv, PlainTypeOK
<1> DEFINE p == exchange[t].port
           retired == IF p = NoPort THEN {} ELSE {p}
<1>2. retired \in SUBSET Ports
  BY <1>1
<1>3. ASSUME NEW to \in {"attempt", "release", "resting"}, NEW attempt \in {0, 1},
             exchange[t].at \in {"leased", "attempt", "connecting", "receive"}, exchange[t].retiring = {},
             to = "resting" => exchange[t].over = "udp",
             to = "release" => exchange[t].over = "tcp",
             Close(t, to, attempt)
      PROVE  PlainInv'
  <2> DEFINE x == [exchange[t] EXCEPT !.at = to, !.port = NoPort, !.attempt = attempt, !.retiring = retired]
  <2>1. exchange' = [exchange EXCEPT ![t] = x] /\ x \in Exchanges
    BY <1>1, <1>2, <1>3 DEF Close, Exchanges, Stops, Goings, PlainInv, PlainTypeOK, ExchangeOK
  <2>2. /\ x.at = to /\ x.port = NoPort /\ x.retiring = retired /\ x.lease = exchange[t].lease
        /\ x.key = exchange[t].key /\ x.over = exchange[t].over
    BY <1>1 DEF Exchanges
  <2>3. ShapeOf(x)
    BY <1>1, <1>3, <2>2 DEF ShapeOf, Stops, Goings
  <2>4. /\ sockets' = [q \in Ports |-> IF q = p THEN "free" ELSE sockets[q]]
        /\ owed' = [q \in Ports |-> IF q = p THEN 0 ELSE owed[q]]
        /\ EntryPort(t, NoPort, FALSE) /\ UNCHANGED <<generation, registry>>
    BY <1>3 DEF Close
  <2>5. x.at \notin {"bound", "connecting", "receive"}
    BY <2>2
  <2> HIDE DEF x
  <2> QED BY <1>3, <2>1, <2>2, <2>3, <2>4, <2>5, PlainCloses
<1>4. CASE Inspect(t)
  <2>1. exchange[t].at = "leased" /\ exchange[t].retiring = {}
    BY <1>4 DEF Inspect, Steps
  <2>2. CASE Close(t, "attempt", 0)
    BY <1>3, <2>1, <2>2
  <2>3. CASE Moves(t, "attempt") /\ UNCHANGED <<generation, pool, sockets, owed, registry>>
    <3> DEFINE x == [exchange[t] EXCEPT !.at = "attempt"]
    <3>1. exchange' = [exchange EXCEPT ![t] = x] /\ x \in Exchanges
      BY <1>1, <2>3 DEF Moves, Exchanges, Goings, PlainInv, PlainTypeOK, ExchangeOK
    <3>2. /\ x.at = "attempt" /\ x.port = p /\ x.retiring = exchange[t].retiring
          /\ x.lease = exchange[t].lease /\ x.key = exchange[t].key /\ ShapeOf(x)
      BY <1>1, <2>1 DEF Exchanges, ShapeOf, Stops, Goings
    <3> HIDE DEF x
    <3> QED BY <2>1, <2>3, <3>1, <3>2, PlainMoves
  <2> QED BY <1>4, <2>2, <2>3 DEF Inspect
<1>5. ASSUME NEW retry \in BOOLEAN, Fail(t, retry)
      PROVE  PlainInv'
  <2>1. exchange[t].at \in {"attempt", "connecting", "receive"} /\ exchange[t].retiring = {}
    BY <1>5 DEF Fail
  <2>2. exchange[t].over \in {"udp", "tcp"}
    BY <1>1 DEF Exchanges
  <2>3. CASE exchange[t].over = "udp" /\ Close(t, "resting", 0)
    BY <1>3, <2>1, <2>3
  <2>4. CASE Close(t, "attempt", 1)
    BY <1>3, <2>1, <2>4
  <2>5. CASE exchange[t].over = "tcp" /\ Close(t, "release", 1)
    BY <1>3, <2>1, <2>5
  <2> QED BY <1>5, <2>2, <2>3, <2>4, <2>5 DEF Fail
<1>6. ASSUME NEW truncated \in BOOLEAN, ReceiveUdp(t, truncated)
      PROVE  PlainInv'
  <2> DEFINE next == IF truncated THEN [exchange[t] EXCEPT !.at = "acquire", !.over = "tcp"] ELSE Resting
             x == [next EXCEPT !.port = NoPort, !.retiring = {p}]
  <2>1. /\ exchange[t].at = "receive" /\ exchange[t].over = "udp" /\ exchange[t].retiring = {}
        /\ p \in Ports /\ p # NoPort /\ exchange[t].lease = 0
    BY <1>1, <1>6 DEF ReceiveUdp, Steps, ShapeOf, Goings
  <2>2. exchange' = [exchange EXCEPT ![t] = x]
    BY <1>6 DEF ReceiveUdp
  <2>3. next \in Exchanges /\ next.at \in {"acquire", "resting"} /\ next.lease = 0
        /\ (next.at = "acquire" => next.over = "tcp")
    BY <1>1, <2>1 DEF Exchanges, Resting, Keys, Stops, Goings
  <2> HIDE DEF next
  <2>4. x \in Exchanges /\ x.at \in {"acquire", "resting"} /\ x.lease = 0 /\ x.port = NoPort
        /\ x.retiring = {p} /\ (x.at = "acquire" => x.over = "tcp")
    BY <1>1, <2>1, <2>3 DEF Exchanges
  <2> HIDE DEF x
  <2>5. ShapeOf(x)
    BY <2>4 DEF ShapeOf, Stops, Goings
  <2>6. /\ sockets' = [q \in Ports |-> IF q = p THEN "free" ELSE sockets[q]]
        /\ owed' = [q \in Ports |-> IF q = p THEN 0 ELSE owed[q]]
        /\ UNCHANGED <<generation, pool, registry>>
    BY <1>6 DEF ReceiveUdp, PlainInv, PlainTypeOK, PortsOK
  <2>7. EntryPort(t, NoPort, FALSE)
    BY <2>1, <2>6 DEF EntryPort
  <2> QED BY <2>1, <2>2, <2>4, <2>5, <2>6, <2>7, PlainCloses
<1> QED BY <1>4, <1>5, <1>6

(* An exchange begins, waits for a connection, or is told that there is    *)
(* none to be had.                                                         *)
LEMMA PlainWaits ==
  ASSUME PlainInv, NEW t \in Handlers,
         \/ \E over \in {"udp", "tcp"}, e \in Endpoints : Begin(t, over, e)
         \/ Busy(t) \/ Wait(t) \/ Wake(t) \/ GiveUp(t)
  PROVE  PlainInv'
<1> USE DEF PlainInv, PlainTypeOK
<1>1. /\ exchange[t] \in Exchanges /\ ShapeOf(exchange[t]) /\ exchange[t].lease \in Nat
      /\ generation \in Nat
  BY DEF ExchangeOK, Exchanges, Shaped
<1> HIDE DEF PlainInv, PlainTypeOK
<1>2. PICK x \in Exchanges :
        /\ exchange' = [exchange EXCEPT ![t] = x]
        /\ x.at \in Stops \union {"attempt"} /\ x.lease = 0 /\ x.port = NoPort /\ x.retiring = {}
        /\ x.at \in {"acquire", "select", "waiting"} => x.over = "tcp"
        /\ x.at = "attempt" => x.over = "udp"
  <2>1. ASSUME NEW over \in {"udp", "tcp"}, NEW e \in Endpoints, Begin(t, over, e)
        PROVE  \E x \in Exchanges :
                 /\ exchange' = [exchange EXCEPT ![t] = x]
                 /\ x.at \in Stops \union {"attempt"} /\ x.lease = 0 /\ x.port = NoPort /\ x.retiring = {}
                 /\ x.at \in {"acquire", "select", "waiting"} => x.over = "tcp"
                 /\ x.at = "attempt" => x.over = "udp"
    <3> DEFINE x == Exchange(over, e)
    <3>1. Resting \in Exchanges /\ Resting.lease = 0 /\ Resting.port = NoPort /\ Resting.retiring = {}
      BY DEF Resting, Exchanges, Stops, Goings, Keys
    <3>2. <<e, generation>> \in Keys
      BY <1>1 DEF Keys
    <3>3. exchange' = [exchange EXCEPT ![t] = x]
      BY <2>1 DEF Begin
    <3>4. /\ x \in Exchanges /\ x.lease = 0 /\ x.port = NoPort /\ x.retiring = {}
          /\ x.over = over /\ x.at = IF over = "tcp" THEN "acquire" ELSE "attempt"
      <4> HIDE DEF Resting
      <4> QED BY <3>1, <3>2 DEF Exchange, Exchanges, Stops, Goings
    <3> HIDE DEF x
    <3> QED BY <3>3, <3>4 DEF Stops
  <2>2. CASE exchange[t].at \in Stops \ {"resting"} /\ exchange' = [exchange EXCEPT ![t] = Resting]
    <3>1. Resting \in Exchanges /\ Resting.at = "resting" /\ Resting.lease = 0
          /\ Resting.port = NoPort /\ Resting.retiring = {}
      BY DEF Resting, Exchanges, Stops, Goings, Keys
    <3> QED BY <2>2, <3>1 DEF Stops
  <2>3. ASSUME NEW to \in {"select", "waiting"}, exchange[t].at \in {"select", "waiting"},
               exchange[t].retiring = {}, Moves(t, to)
        PROVE  \E x \in Exchanges :
                 /\ exchange' = [exchange EXCEPT ![t] = x]
                 /\ x.at \in Stops \union {"attempt"} /\ x.lease = 0 /\ x.port = NoPort /\ x.retiring = {}
                 /\ x.at \in {"acquire", "select", "waiting"} => x.over = "tcp"
                 /\ x.at = "attempt" => x.over = "udp"
    <3> DEFINE x == [exchange[t] EXCEPT !.at = to]
    <3>1. exchange' = [exchange EXCEPT ![t] = x]
      BY <2>3 DEF Moves, PlainInv, PlainTypeOK, ExchangeOK
    <3>2. exchange[t].lease = 0 /\ exchange[t].port = NoPort /\ exchange[t].over = "tcp"
      BY <1>1, <2>3 DEF ShapeOf, Stops
    <3>3. x \in Exchanges /\ x.at = to /\ x.lease = 0 /\ x.port = NoPort /\ x.retiring = {}
          /\ x.over = "tcp"
      BY <1>1, <2>3, <3>2 DEF Exchanges, Stops
    <3> HIDE DEF x
    <3> QED BY <3>1, <3>3 DEF Stops
  <2>4. CASE Busy(t)
    BY <2>2, <2>4 DEF Busy, Steps, Stops
  <2>5. CASE GiveUp(t)
    BY <2>2, <2>5 DEF GiveUp, Steps, Stops
  <2>6. CASE Wait(t)
    BY <2>3, <2>6 DEF Wait, Steps
  <2>7. CASE Wake(t)
    BY <2>3, <2>7 DEF Wake, Steps
  <2> QED BY <2>1, <2>4, <2>5, <2>6, <2>7
<1>3. /\ exchange[t].at \in Stops /\ exchange[t].retiring = {}
      /\ UNCHANGED <<generation, pool, sockets, owed, registry>>
  BY DEF Begin, Busy, Wait, Wake, GiveUp, Steps, Stops
<1>4. exchange[t].lease = 0 /\ exchange[t].port = NoPort
  BY <1>1, <1>3 DEF ShapeOf
<1>5. ShapeOf(x)
  BY <1>2 DEF ShapeOf, Stops, Goings
<1>6. x.at \notin {"bound", "connecting", "receive"} /\ exchange[t].at \notin {"bound", "connecting", "receive"}
  BY <1>2, <1>3 DEF Stops
<1> QED BY <1>2, <1>3, <1>4, <1>5, <1>6, PlainMoves

(* Old generations leave the pool, and idle endpoints make room. *)
LEMMA PlainRetires ==
  ASSUME PlainInv, NEW t \in Handlers, Prune(t) \/ Evict(t)
  PROVE  PlainInv'
<1>1. CASE Prune(t)
  <2> DEFINE keys == Disposable({k \in DOMAIN pool : k[2] # exchange[t].key[2]})
  <2>1. keys \in SUBSET DOMAIN pool /\ \A k \in keys : Spare(k)
    BY DEF Disposable
  <2>2. exchange[t].at \in {"acquire", "select"} /\ exchange[t].retiring = {} /\ Erase(t, keys)
    BY <1>1 DEF Prune, Steps
  <2> HIDE DEF keys
  <2> QED BY <2>1, <2>2, PlainErases
<1>2. CASE Evict(t)
  <2> DEFINE keys == Disposable(DOMAIN pool)
  <2>1. keys \in SUBSET DOMAIN pool /\ \A k \in keys : Spare(k)
    BY DEF Disposable
  <2>2. exchange[t].at \in {"acquire", "select"} /\ exchange[t].retiring = {} /\ Erase(t, keys)
    BY <1>2 DEF Evict, Steps
  <2> HIDE DEF keys
  <2> QED BY <2>1, <2>2, PlainErases
<1> QED BY <1>1, <1>2

(* A guard goes, and only its own entry with it. *)
LEMMA PlainUnregisters ==
  ASSUME PlainInv, NEW t \in Handlers, Unregister(t)
  PROVE  PlainInv'
<1> USE DEF PlainInv, PlainTypeOK
<1>1. PICK p \in exchange[t].retiring :
        /\ registry' = [registry EXCEPT ![p] = registry[p] - 1]
        /\ exchange' = [exchange EXCEPT ![t].retiring = exchange[t].retiring \ {p}]
        /\ UNCHANGED <<generation, pool, sockets, owed>>
  BY DEF Unregister, ExchangeOK
<1> DEFINE x == [exchange[t] EXCEPT !.retiring = exchange[t].retiring \ {p}]
<1>2. exchange[t] \in Exchanges /\ exchange[t].retiring \subseteq Ports /\ p \in Ports
  BY <1>1 DEF ExchangeOK, Exchanges
<1>3. x \in Exchanges /\ exchange' = [exchange EXCEPT ![t] = x]
  BY <1>1, <1>2 DEF Exchanges, ExchangeOK
<1>4. /\ x.at = exchange[t].at /\ x.over = exchange[t].over /\ x.key = exchange[t].key
      /\ x.lease = exchange[t].lease /\ x.port = exchange[t].port
      /\ x.retiring = exchange[t].retiring \ {p}
  BY <1>2 DEF Exchanges
<1> HIDE DEF x
<1>5. ExchangeOK' /\ exchange'[t] = x /\ \A u \in Handlers : u # t => exchange'[u] = exchange[u]
  BY <1>3, OneExchange
<1>6. \A u \in Handlers : /\ exchange'[u].at = exchange[u].at /\ exchange'[u].over = exchange[u].over
                          /\ exchange'[u].key = exchange[u].key /\ exchange'[u].lease = exchange[u].lease
                          /\ exchange'[u].port = exchange[u].port
  BY <1>4, <1>5
<1>7. PlainTypeOK'
  BY <1>1, <1>2, <1>5 DEF PoolOK, PortsOK
<1>8. Shaped'
  BY <1>6 DEF Shaped, ShapeOf
<1>9. LeasesHeld'
  BY <1>1, <1>6 DEF LeasesHeld, Connecting
<1>10. Alone'
  BY <1>1, <1>6 DEF Alone, LeasesApart, PortsApart, EntriesApart, OwnEntry
<1>11. SocketsOpen'
  BY <1>1, <1>6 DEF SocketsOpen, Connecting
<1>12. RepliesOwed'
  BY <1>1, <1>6 DEF RepliesOwed, Waiting
<1>13. GuardsCounted'
  <2>1. \A q \in Ports : Sends(q)' <=> Sends(q)
    BY <1>1, <1>6 DEF Sends
  <2>2. ASSUME NEW q \in Ports
        PROVE  registry'[q] = Cardinality(Retirees(q)') + IF Sends(q)' THEN 1 ELSE 0
    <3>1. registry[q] = Cardinality(Retirees(q)) + IF Sends(q) THEN 1 ELSE 0
      BY DEF GuardsCounted
    <3>2. CASE q = p
      <4>1. Retirees(q)' = Retirees(q) \ {t} /\ t \in Retirees(q)
        BY <1>4, <1>5, <3>2 DEF Retirees
      <4>2. Cardinality(Retirees(q)') = Cardinality(Retirees(q)) - 1
        BY <4>1, RetireesFinite, FS_RemoveElement
      <4>3. registry'[q] = registry[q] - 1
        BY <1>1, <3>2 DEF PortsOK
      <4> QED BY <2>1, <3>1, <4>2, <4>3, RetireesFinite
    <3>3. CASE q # p
      <4>1. Retirees(q)' = Retirees(q)
        BY <1>4, <1>5, <3>3 DEF Retirees
      <4>2. registry'[q] = registry[q]
        BY <1>1, <3>3 DEF PortsOK
      <4> QED BY <2>1, <3>1, <4>1, <4>2
    <3> QED BY <3>2, <3>3
  <2> QED BY <2>2 DEF GuardsCounted
<1> QED BY <1>7, <1>8, <1>9, <1>10, <1>11, <1>12, <1>13

(* A lease ends: the connection stays with its entry. *)
LEMMA PlainReleases ==
  ASSUME PlainInv, NEW t \in Handlers, Release(t)
  PROVE  PlainInv'
<1> USE DEF PlainInv, PlainTypeOK
<1> DEFINE key == exchange[t].key
           i == exchange[t].lease
           e == [Entries(t)[i] EXCEPT !.busy = FALSE]
<1>1. /\ exchange[t].at = "release" /\ exchange[t].retiring = {}
      /\ SetEntries(t, [Entries(t) EXCEPT ![i].busy = FALSE])
      /\ exchange' = [exchange EXCEPT ![t] = Resting]
      /\ UNCHANGED <<generation, sockets, owed, registry>>
  BY DEF Release, Steps
<1>2. i # 0
  BY <1>1 DEF Shaped, ShapeOf, Goings
<1>3. key \in DOMAIN pool /\ i \in DOMAIN pool[key] /\ Entries(t) = pool[key]
      /\ pool[key][i].port = exchange[t].port /\ pool[key][i] \in PoolEntries
  BY <1>1, <1>2, PoolFacts DEF LeasesHeld, Entries, Connecting
<1>4. e \in PoolEntries /\ e.port = exchange[t].port
  BY <1>3 DEF PoolEntries
<1>5. SetEntries(t, [Entries(t) EXCEPT ![i] = e])
  BY <1>1
<1> HIDE DEF e
<1>6. PoolOK' /\ Changed(t, e)
  BY <1>2, <1>4, <1>5, SetFacts
<1>7. Resting \in Exchanges /\ Resting.at = "resting" /\ Resting.lease = 0 /\ Resting.port = NoPort
      /\ Resting.retiring = {}
  BY DEF Resting, Exchanges, Stops, Goings, Keys
<1>8. ShapeOf(Resting)
  BY <1>7 DEF ShapeOf, Stops, Goings
<1>9. /\ ExchangeOK' /\ Shaped' /\ LeasesHeld' /\ Alone'
      /\ exchange'[t] = Resting /\ \A u \in Handlers : u # t => exchange'[u] = exchange[u]
  BY <1>1, <1>4, <1>6, <1>7, <1>8, Owned
<1>10. \A u \in Handlers : /\ exchange'[u].at = "receive" <=> exchange[u].at = "receive"
                           /\ exchange'[u].at = "connecting" <=> exchange[u].at = "connecting"
                           /\ exchange[u].at \in {"receive", "connecting"} => exchange'[u].port = exchange[u].port
                           /\ exchange'[u].retiring = exchange[u].retiring
  BY <1>1, <1>7, <1>9
<1>11. SocketsOpen'
  <2>1. ASSUME NEW k \in DOMAIN pool', NEW j \in DOMAIN pool'[k], pool'[k][j].port # NoPort
        PROVE  sockets'[pool'[k][j].port] = "connected"
    <3>1. k \in DOMAIN pool /\ j \in DOMAIN pool[k] /\ pool'[k][j].port = pool[k][j].port
      BY <1>3, <1>4, <1>6, <2>1 DEF Changed
    <3> QED BY <1>1, <2>1, <3>1 DEF SocketsOpen
  <2>2. ASSUME NEW u \in Handlers, exchange'[u].port # NoPort
        PROVE  sockets'[exchange'[u].port] = IF Connecting(u)' THEN "bound" ELSE "connected"
    BY <1>1, <1>7, <1>9, <2>2 DEF SocketsOpen, Connecting
  <2> QED BY <2>1, <2>2 DEF SocketsOpen
<1>12. RepliesOwed'
  <2>1. \A p \in Ports : Waiting(p)' <=> Waiting(p)
    BY <1>10 DEF Waiting
  <2> QED BY <1>1, <2>1 DEF RepliesOwed
<1>13. GuardsCounted'
  <2>1. \A p \in Ports : (Sends(p)' <=> Sends(p)) /\ Retirees(p)' = Retirees(p)
    BY <1>1, <1>10 DEF Sends, Retirees
  <2> QED BY <1>1, <2>1 DEF GuardsCounted
<1> QED BY <1>1, <1>6, <1>9, <1>11, <1>12, <1>13 DEF PortsOK

(* Time passes and the network changes; no connection does. *)
LEMMA PlainPasses ==
  ASSUME PlainInv, Rest \/ NetworkChanges
  PROVE  PlainInv'
<1> USE DEF PlainInv, PlainTypeOK
<1>1. /\ UNCHANGED <<sockets, owed, registry, exchange>> /\ generation' \in Nat
  BY DEF Rest, NetworkChanges
<1>2. /\ PoolOK' /\ DOMAIN pool' = DOMAIN pool
      /\ \A k \in DOMAIN pool : DOMAIN pool'[k] = DOMAIN pool[k]
      /\ \A k \in DOMAIN pool : \A i \in DOMAIN pool[k] :
           pool'[k][i].busy = pool[k][i].busy /\ pool'[k][i].port = pool[k][i].port
  <2>1. CASE NetworkChanges
    BY <2>1 DEF NetworkChanges, PoolOK
  <2>2. CASE Rest
    <3>0. PICK k \in DOMAIN pool : \E i \in DOMAIN pool[k] : pool' = [pool EXCEPT ![k][i].rested = TRUE]
      BY <2>2 DEF Rest
    <3>1. PICK i \in DOMAIN pool[k] :
            pool' = [pool EXCEPT ![k] = [pool[k] EXCEPT ![i] = [pool[k][i] EXCEPT !.rested = TRUE]]]
      BY <3>0
    <3> DEFINE e == [pool[k][i] EXCEPT !.rested = TRUE]
               entries == [pool[k] EXCEPT ![i] = e]
    <3>2. pool[k] \in Seq(PoolEntries) /\ i \in 1..Len(pool[k]) /\ pool[k][i] \in PoolEntries
      BY PoolFacts
    <3>3. e \in PoolEntries /\ e.busy = pool[k][i].busy /\ e.port = pool[k][i].port
      BY <3>2 DEF PoolEntries
    <3> HIDE DEF e
    <3>4. /\ entries \in Seq(PoolEntries) /\ Len(entries) = Len(pool[k])
          /\ \A j \in 1..Len(pool[k]) : entries[j] = IF j = i THEN e ELSE pool[k][j]
      BY <3>2, <3>3, ExceptSeq
    <3>5. DOMAIN entries = DOMAIN pool[k] /\ DOMAIN pool[k] = 1..Len(pool[k])
      BY <3>2, <3>4, LenProperties
    <3>6. pool' = [pool EXCEPT ![k] = entries]
      BY <3>1 DEF e
    <3> HIDE DEF entries
    <3>7. DOMAIN pool' = DOMAIN pool /\ pool'[k] = entries
          /\ \A l \in DOMAIN pool : l # k => pool'[l] = pool[l]
      BY <3>6 DEF PoolOK
    <3>8. PoolOK'
      BY <3>4, <3>6 DEF PoolOK
    <3> QED BY <3>3, <3>4, <3>5, <3>7, <3>8
  <2> QED BY <2>1, <2>2
<1>3. PlainTypeOK' /\ Shaped' /\ RepliesOwed' /\ GuardsCounted'
  BY <1>1, <1>2 DEF ExchangeOK, PortsOK, Shaped, RepliesOwed, Waiting, GuardsCounted, Sends, Retirees
<1>4. LeasesHeld' /\ SocketsOpen'
  BY <1>1, <1>2 DEF LeasesHeld, SocketsOpen, Connecting
<1>5. Alone'
  BY <1>1, <1>2 DEF Alone, LeasesApart, PortsApart, EntriesApart, OwnEntry
<1> QED BY <1>3, <1>4, <1>5

(* Every step of an exchange, and every step elsewhere, keeps the pool, the *)
(* sockets and the registry in order.                                       *)
LEMMA PlainStep == PlainInv /\ (PlainNext \/ UNCHANGED plainVars) => PlainInv'
<1> SUFFICES ASSUME PlainInv, PlainNext \/ UNCHANGED plainVars PROVE PlainInv'
  OBVIOUS
<1>1. CASE \E t \in Handlers, over \in {"udp", "tcp"}, e \in Endpoints : Begin(t, over, e)
  BY <1>1, PlainWaits
<1>2. ASSUME NEW t \in Handlers, Works(t)
      PROVE  PlainInv'
  <2>1. CASE Prune(t) \/ Evict(t)
    BY <2>1, PlainRetires
  <2>2. CASE Busy(t) \/ Wait(t) \/ Wake(t) \/ GiveUp(t)
    BY <2>2, PlainWaits
  <2>3. CASE Take(t) \/ Grow(t)
    <3>1. exchange[t].at = "select"
      BY <2>3 DEF Take, Grow, Steps
    <3> QED BY <2>3, <3>1, PlainLeases
  <2>4. CASE Unregister(t)
    BY <2>4, PlainUnregisters
  <2>5. CASE \/ Inspect(t)
             \/ \E truncated \in BOOLEAN : ReceiveUdp(t, truncated)
             \/ \E retry \in BOOLEAN : Fail(t, retry)
    BY <2>5, PlainEnds
  <2>6. CASE Bind(t) \/ Register(t) \/ Connect(t) \/ Send(t) \/ Receive(t)
    BY <2>6, PlainConnects
  <2>7. CASE Release(t)
    BY <2>7, PlainReleases
  <2> QED BY <1>2, <2>1, <2>2, <2>3, <2>4, <2>5, <2>6, <2>7 DEF Works
<1>3. CASE Rest \/ NetworkChanges
  BY <1>3, PlainPasses
<1>4. CASE UNCHANGED plainVars
  <2> USE <1>4 DEF plainVars, PlainInv, PlainTypeOK
  <2>1. PlainTypeOK' /\ Shaped' /\ LeasesHeld'
    BY DEF ExchangeOK, PoolOK, PortsOK, Shaped, LeasesHeld, Connecting
  <2>2. Alone' /\ SocketsOpen'
    BY DEF Alone, LeasesApart, PortsApart, EntriesApart, OwnEntry, SocketsOpen, Connecting
  <2>3. RepliesOwed' /\ GuardsCounted'
    BY DEF RepliesOwed, Waiting, GuardsCounted, Sends, Retirees
  <2> QED BY <2>1, <2>2, <2>3
<1> QED BY <1>1, <1>2, <1>3, <1>4 DEF PlainNext

(* No two exchanges wait on one port, so that a port owes what its waiting *)
(* exchange waits for; and where a guard counts, there is one.             *)
LEMMA PlainMeans == PlainInv => ConnectionsOwned /\ UpstreamMarked
<1> SUFFICES ASSUME PlainInv PROVE ConnectionsOwned /\ UpstreamMarked
  OBVIOUS
<1> USE DEF PlainInv, PlainTypeOK
<1>1. RepliesNeverCross
  <2>1. ASSUME NEW p \in Ports
        PROVE  owed[p] = Cardinality({t \in Handlers : exchange[t].at = "receive" /\ exchange[t].port = p})
    <3> DEFINE waiting == {t \in Handlers : exchange[t].at = "receive" /\ exchange[t].port = p}
    <3>1. p # NoPort
      BY PlainTransportConstants DEF Ports
    <3>2. CASE Waiting(p)
      <4>1. PICK t \in Handlers : exchange[t].at = "receive" /\ exchange[t].port = p
        BY <3>2 DEF Waiting
      <4>2. waiting = {t}
        BY <3>1, <4>1 DEF Alone, PortsApart
      <4>3. Cardinality(waiting) = 1
        BY <4>2, FS_Singleton
      <4> QED BY <3>2, <4>3 DEF RepliesOwed
    <3>3. CASE ~Waiting(p)
      <4>1. waiting = {}
        BY <3>3 DEF Waiting
      <4>2. Cardinality(waiting) = 0
        BY <4>1, FS_EmptySet
      <4> QED BY <3>3, <4>2 DEF RepliesOwed
    <3> QED BY <3>2, <3>3
  <2> QED BY <2>1 DEF RepliesNeverCross
<1>2. LeaseKept
  BY DEF LeaseKept, LeasesHeld, Alone, LeasesApart, Entries
<1>3. UpstreamMarked
  <2>1. ASSUME NEW p \in Ports, Sends(p)
        PROVE  registry[p] > 0
    BY <2>1, RetireesFinite DEF GuardsCounted
  <2> QED BY <2>1 DEF UpstreamMarked, Sends
<1> QED BY <1>1, <1>2, <1>3 DEF ConnectionsOwned

-----------------------------------------------------------------------------
(* The transports together.                                                *)

(* A step of a snapshot is a step of one transport. *)
LEMMA OneMoves ==
  [Next]_vars => /\ PlainNext \/ UNCHANGED plainVars
                 /\ SecureNext \/ UNCHANGED secureVars
                 /\ CertificateNext \/ UNCHANGED certificateVars
BY DEF Next, vars, MakeTransport

(* The certificate cache stays in order. *)
LEMMA CertificateAlways == Spec => []CertificateInv
<1>1. Init => CertificateInv
  BY CertificateStarts DEF Init
<1>2. CertificateInv /\ [Next]_vars => CertificateInv'
  BY OneMoves, CertificateStep
<1> QED BY <1>1, <1>2, PTL DEF Spec

(* The bootstrap cache stays in order. *)
LEMMA SecureAlways == Spec => []SecureInv
<1>1. Init => SecureInv
  BY SecureStarts DEF Init
<1>2. SecureInv /\ [Next]_vars => SecureInv'
  BY OneMoves, SecureStep
<1> QED BY <1>1, <1>2, PTL DEF Spec

(* The pool, the sockets and the registry stay in order. *)
LEMMA PlainAlways == Spec => []PlainInv
<1>1. Init => PlainInv
  BY PlainStarts DEF Init
<1>2. PlainInv /\ [Next]_vars => PlainInv'
  BY OneMoves, PlainStep
<1> QED BY <1>1, <1>2, PTL DEF Spec

(* No exchange reads the answer to another one's question, and no entry is *)
(* taken from under the exchange that leased it, by pruning, eviction,     *)
(* failure or release, whatever the number of threads and connections.     *)
THEOREM ConnectionsHold == Spec => []ConnectionsOwned
BY PlainAlways, PlainMeans, PTL

(* From its first packet to its close a socket's port is marked as         *)
(* upstream, although the kernel hands the port out again before its last  *)
(* owner has taken the mark back.                                          *)
THEOREM UpstreamHolds == Spec => []UpstreamMarked
BY PlainAlways, PlainMeans, PTL

(* In both caches a refresh is marked exactly while one request performs   *)
(* it, however it ends.                                                    *)
THEOREM RefreshesHold == Spec => []RefreshesEnd
BY CertificateAlways, CertificateMeans, SecureAlways, SecureMeans, PTL DEF RefreshesEnd

(* A query is encrypted with a certificate that was valid at some moment   *)
(* since the query asked for one, whatever the two clocks do.              *)
THEOREM CertificateHolds == Spec => []CertificateValid
BY CertificateAlways, CertificateMeans, PTL

(* No bootstrap refresh runs out of time before it has asked every         *)
(* resolver for both address families, if it began with a tick for each.   *)
THEOREM FallbackHolds == Spec => FallbackTried
<1>1. SecureInv /\ [Next]_vars =>
        [\A c \in Callers :
           /\ call[c].at = "resolve" /\ call'[c].at # "resolve"
           /\ failedAt' # failedAt /\ Late(c)
           /\ call[c].deadline - call[c].began >= Rounds
           => call[c].round = Rounds]_secureVars
  BY SecureLate
<1> QED BY <1>1, SecureAlways, PTL DEF Spec, FallbackTried
=============================================================================
