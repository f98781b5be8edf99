------------------------- MODULE SurroundingsProofs -------------------------
(***************************************************************************)
(* Machine-checked proofs of what the components around the query path     *)
(* guarantee, in the specification that TLC runs: whichever component a    *)
(* behaviour is of, and for every value of the constants.                  *)
(*                                                                         *)
(* The WinDivert provider and the IPC server are proved correct in modules *)
(* of their own; here their results are carried over.  The proofs about    *)
(* smaller components are complete here, where the n-th variable of a      *)
(* component is v1, v2 and so on.                                          *)
(***************************************************************************)
EXTENDS Surroundings, FiniteSetTheorems, SequenceTheorems, TLAPS

-----------------------------------------------------------------------------
(* Rules and servers.                                                      *)

(* The editor counts like everyone. *)
LEMMA SameCount ==
  /\ \A S : Editor!IsFiniteSet(S) <=> IsFiniteSet(S)
  /\ \A S : Editor!Cardinality(S) = Cardinality(S)
  /\ \A f : Editor!IsInjective(f) <=> IsInjective(f)
<1>1. \A S : Editor!IsFiniteSet(S) <=> IsFiniteSet(S)
  BY DEF Editor!IsFiniteSet, IsFiniteSet
<1>2. \A S : Editor!Cardinality(S) = Cardinality(S)
  BY DEF Editor!Cardinality, Cardinality, Editor!IsFiniteSet, IsFiniteSet
<1>3. \A f : Editor!IsInjective(f) <=> IsInjective(f)
  BY DEF Editor!IsInjective, IsInjective
<1> QED BY <1>1, <1>2, <1>3

(* A set of numbers has a least one. *)
LEMMA LeastOf ==
  ASSUME NEW S, S \subseteq Nat, S # {}
  PROVE  \E m \in S : \A n \in S : m <= n
<1> DEFINE less == {ss \in Nat \X Nat : ss[1] < ss[2]}
<1>1. IsWellFoundedOn(less, Nat)
  BY NatLessThanWellFounded DEF OpToRel
<1>2. \A m, n \in Nat : <<n, m>> \in less <=> n < m
  OBVIOUS
<1> HIDE DEF less
<1>3. PICK m \in S : \A n \in S : <<n, m>> \notin less
  BY <1>1, WFMin
<1>4. \A n \in S : m <= n
  <2> TAKE n \in S
  <2>1. n \in Nat /\ m \in Nat /\ ~(n < m)
    BY <1>2, <1>3
  <2> QED BY <2>1
<1> QED BY <1>4

(* What holds before a loop and is kept by its rounds holds after each. *)
LEMMA Inductive ==
  ASSUME NEW L \in Nat, NEW S, 0 \in S, \A n \in 1..L : n - 1 \in S => n \in S
  PROVE  \A n \in 0..L : n \in S
<1> DEFINE missing == {n \in 0..L : n \notin S}
<1> SUFFICES ASSUME missing # {} PROVE FALSE
  OBVIOUS
<1>1. missing \subseteq Nat
  OBVIOUS
<1>2. PICK m \in missing : \A n \in missing : m <= n
  <2> HIDE DEF missing
  <2> QED BY <1>1, LeastOf
<1>3. m \in 1..L /\ m - 1 \in 0..L /\ m \notin S
  BY <1>2
<1>4. m - 1 \in S
  BY <1>2, <1>3
<1> QED BY <1>3, <1>4

\* The values after each round, the last of which is that of the loop
Loops(A, step, start, rounds) ==
  \E after \in [0..rounds -> A] :
    /\ after[0] = start
    /\ \A n \in 1..rounds : after[n] = step[n][after[n - 1]]
    /\ Editor!Iterate(step, start, rounds) = after[rounds]

(* A loop whose rounds map A to A stays in A. *)
LEMMA Iterates ==
  ASSUME NEW A, NEW start \in A, NEW rounds \in Nat, NEW step \in [1..rounds -> [A -> A]]
  PROVE  Loops(A, step, start, rounds)
<1> DEFINE Goes(f, m) == \A n \in 0..m : f[n] = IF n = 0 THEN start ELSE step[n][f[n - 1]]
           S == {m \in Nat : \E f \in [0..m -> A] : Goes(f, m)}
           whole(f) == [n \in 0..rounds |-> IF n = 0 THEN start ELSE step[n][f[n - 1]]]
<1>1. rounds \in S
  <2>1. 0 \in S
    <3>1. [n \in 0..0 |-> start] \in [0..0 -> A] /\ Goes([n \in 0..0 |-> start], 0)
      OBVIOUS
    <3> QED BY <3>1
  <2>2. ASSUME NEW m \in 1..rounds, m - 1 \in S PROVE m \in S
    <3>1. PICK f \in [0..m - 1 -> A] : Goes(f, m - 1)
      BY <2>2
    <3> DEFINE g == [n \in 0..m |-> IF n = m THEN step[m][f[m - 1]] ELSE f[n]]
    <3>2. g \in [0..m -> A]
      <4>1. step[m] \in [A -> A] /\ f[m - 1] \in A
        OBVIOUS
      <4> QED BY <4>1
    <3>3. Goes(g, m)
      <4> TAKE n \in 0..m
      <4>1. CASE n = m
        BY <4>1
      <4>2. CASE n \in 0..m - 1
        BY <3>1, <4>2
      <4> QED BY <4>1, <4>2
    <3> HIDE DEF g
    <3> QED BY <3>2, <3>3
  <2> HIDE DEF S
  <2>3. \A n \in 0..rounds : n \in S
    BY <2>1, <2>2, Inductive
  <2> QED BY <2>3
<1>2. \E f : f = whole(f)
  <2>1. PICK f \in [0..rounds -> A] : Goes(f, rounds)
    BY <1>1
  <2> QED BY <2>1
<1> DEFINE after == CHOOSE f : f = whole(f)
<1>3. after = whole(after)
  <2> HIDE DEF whole
  <2> QED BY <1>2
<1>4. Editor!Iterate(step, start, rounds) = after[rounds]
  BY DEF Editor!Iterate
<1> HIDE DEF after
<1>5. /\ after[0] = start
      /\ \A n \in 1..rounds : after[n] = step[n][after[n - 1]]
      /\ DOMAIN after = 0..rounds /\ after = [n \in 0..rounds |-> after[n]]
  BY <1>3
<1>6. \A n \in 0..rounds : after[n] \in A
  <2> DEFINE T == {n \in Nat : after[n] \in A}
  <2>1. 0 \in T
    BY <1>5
  <2>2. ASSUME NEW n \in 1..rounds, n - 1 \in T PROVE n \in T
    <3>1. step[n] \in [A -> A] /\ after[n - 1] \in A /\ n \in Nat
      BY <2>2
    <3>2. after[n] = step[n][after[n - 1]]
      BY <1>5
    <3> QED BY <3>1, <3>2
  <2> HIDE DEF T
  <2>3. \A n \in 0..rounds : n \in T
    BY <2>1, <2>2, Inductive
  <2> QED BY <2>3 DEF T
<1>7. after \in [0..rounds -> A]
  BY <1>5, <1>6
<1> QED BY <1>4, <1>5, <1>7 DEF Loops

(* A set of servers in some order: each of them has its place. *)
LEMMA OrderOK ==
  ASSUME NEW S, Editor!IsFiniteSet(S)
  PROVE  /\ Editor!Cardinality(S) \in Nat
         /\ Editor!SetToSeq(S) \in [1..Editor!Cardinality(S) -> S]
         /\ \A x \in S : \E n \in 1..Editor!Cardinality(S) : Editor!SetToSeq(S)[n] = x
<1> DEFINE C == Editor!Cardinality(S)
           places == 1..C
           f == Editor!SetToSeq(S)
<1>1. C \in Nat /\ ExistsBijection(places, S)
  BY FS_CardinalityType, SameCount
<1>2. f \in [places -> S] /\ IsInjective(f)
  <2>1. \E g \in [places -> S] : IsInjective(g)
    BY <1>1 DEF ExistsBijection, Bijection, Injection, IsInjective
  <2> HIDE DEF places
  <2> QED BY <2>1, SameCount DEF Editor!SetToSeq, places
<1>3. IsFiniteSet(places) /\ Cardinality(places) = C
  BY <1>1, FS_Interval
<1>4. f \in Surjection(places, S)
  <2>1. f \in Injection(places, S)
    BY <1>2 DEF Injection
  <2>2. IsFiniteSet(S) /\ Cardinality(S) = C
    BY SameCount
  <2> HIDE DEF places, f, C
  <2> QED BY <1>3, <2>1, <2>2, FS_Injection
<1> QED BY <1>1, <1>2, <1>4 DEF Surjection

\* The fallbacks of what was visited were visited before, and none of them in a circle.
Clean(graph, V) ==
  /\ V \subseteq DOMAIN graph /\ \A s \in V : graph[s] \subseteq V
  /\ \A C \in SUBSET V : C # {} => \E s \in C : graph[s] \cap C = {}

(* A server whose fallbacks were visited closes no circle. *)
LEMMA CleanMore ==
  ASSUME NEW graph, NEW V, Clean(graph, V), NEW s \in DOMAIN graph, graph[s] \subseteq V
  PROVE  Clean(graph, V \cup {s})
<1>1. ASSUME NEW C \in SUBSET (V \cup {s}), C # {} PROVE \E x \in C : graph[x] \cap C = {}
  <2>1. CASE C \cap V = {}
    <3>1. C = {s} /\ graph[s] \cap C = {}
      BY <1>1, <2>1
    <3> QED BY <3>1
  <2>2. CASE C \cap V # {}
    <3>1. PICK x \in C \cap V : graph[x] \cap (C \cap V) = {}
      BY <2>2 DEF Clean
    <3>2. graph[x] \subseteq V
      BY DEF Clean
    <3> QED BY <3>1, <3>2
  <2> QED BY <2>1, <2>2
<1> QED BY <1>1 DEF Clean

\* What one visit, or several, of the servers in S make of a finding.
Sound(graph, S, before, found) ==
  /\ found \in Editor!Findings
  /\ before.ok /\ Clean(graph, before.visited) /\ found.ok =>
       Clean(graph, found.visited) /\ before.visited \cup S \subseteq found.visited
  /\ found.ok => before.ok

\* The visits of single servers are sound.
SoundVisit(graph, visit) ==
  /\ \A s \in DOMAIN graph : visit[s] \in [Editor!Findings -> Editor!Findings]
  /\ \A s \in DOMAIN graph, found \in Editor!Findings : Sound(graph, {s}, found, visit[s][found])

\* The servers are finitely many, and fallbacks are servers of the configuration.
Grounded(graph) ==
  /\ Editor!IsFiniteSet(ServerIds) /\ DOMAIN graph \subseteq ServerIds
  /\ \A s \in DOMAIN graph : graph[s] \subseteq DOMAIN graph

(* Visits of one server after the other are sound if each is. *)
LEMMA EachSound ==
  ASSUME NEW graph, Grounded(graph), NEW visit, SoundVisit(graph, visit),
         NEW several \in SUBSET DOMAIN graph, NEW found \in Editor!Findings
  PROVE  Sound(graph, several, found, Editor!Each(visit, several, found))
<1> DEFINE order == Editor!SetToSeq(several)
           rounds == Editor!Cardinality(several)
           step == [n \in 1..rounds |-> visit[order[n]]]
<1>1. several \subseteq ServerIds /\ Editor!IsFiniteSet(several)
  <2>1. DOMAIN graph \subseteq ServerIds
    BY DEF Grounded
  <2> QED BY <2>1, FS_Subset, SameCount DEF Grounded
<1>2. /\ rounds \in Nat /\ order \in [1..rounds -> several]
      /\ \A x \in several : \E n \in 1..rounds : order[n] = x
  BY <1>1, OrderOK
<1>3. Editor!Each(visit, several, found) = Editor!Iterate(step, found, rounds)
  BY DEF Editor!Each
<1>4. \A n \in 1..rounds : step[n] = visit[order[n]] /\ order[n] \in several
  BY <1>2
<1>5. step \in [1..rounds -> [Editor!Findings -> Editor!Findings]]
  BY <1>1, <1>2 DEF SoundVisit
<1> HIDE DEF order, rounds, step
<1>6. PICK after \in [0..rounds -> Editor!Findings] :
        /\ after[0] = found
        /\ \A n \in 1..rounds : after[n] = step[n][after[n - 1]]
        /\ Editor!Iterate(step, found, rounds) = after[rounds]
  <2>1. Loops(Editor!Findings, step, found, rounds)
    BY <1>2, <1>5, Iterates
  <2> QED BY <2>1 DEF Loops
<1> DEFINE T == {n \in 0..rounds : Sound(graph, {order[m] : m \in 1..n}, found, after[n])}
<1>7. 0 \in T
  BY <1>2, <1>6 DEF Sound
<1>8. ASSUME NEW n \in 1..rounds, n - 1 \in T PROVE n \in T
  <2>1. /\ n - 1 \in 0..rounds /\ after[n - 1] \in Editor!Findings /\ order[n] \in DOMAIN graph
        /\ Sound(graph, {order[m] : m \in 1..n - 1}, found, after[n - 1])
    BY <1>2, <1>4, <1>8
  <2>2. Sound(graph, {order[n]}, after[n - 1], after[n])
    <3>1. after[n] = visit[order[n]][after[n - 1]]
      BY <1>4, <1>6
    <3> QED BY <2>1, <3>1 DEF SoundVisit
  <2>3. {order[m] : m \in 1..n} = {order[m] : m \in 1..n - 1} \cup {order[n]}
    <3>1. 1..n = 1..n - 1 \cup {n}
      BY <1>2
    <3> QED BY <3>1
  <2>4. Sound(graph, {order[m] : m \in 1..n}, found, after[n])
    BY <2>1, <2>2, <2>3 DEF Sound
  <2> QED BY <1>2, <2>4
<1> HIDE DEF T
<1>9. \A n \in 0..rounds : n \in T
  BY <1>2, <1>7, <1>8, Inductive
<1>10. Sound(graph, {order[m] : m \in 1..rounds}, found, after[rounds])
  BY <1>2, <1>9 DEF T
<1>11. {order[m] : m \in 1..rounds} = several
  BY <1>2
<1> QED BY <1>3, <1>6, <1>10, <1>11

(* A visit whose visits of the fallbacks are sound is sound. *)
LEMMA VisitOneSound ==
  ASSUME NEW graph, Grounded(graph), NEW below, SoundVisit(graph, below),
         NEW s \in DOMAIN graph, NEW found \in Editor!Findings
  PROVE  Sound(graph, {s}, found, Editor!VisitOne(graph, below, s, found))
<1>1. CASE ~found.ok \/ s \in found.visited
  BY <1>1 DEF Editor!VisitOne, Sound
<1>2. CASE found.ok /\ s \notin found.visited /\ s \in found.visiting
  BY <1>2 DEF Editor!VisitOne, Sound, Editor!Findings
<1>3. CASE found.ok /\ s \notin found.visited /\ s \notin found.visiting
  <2> DEFINE entered == [found EXCEPT !.visiting = @ \cup {s}]
             done == Editor!Each(below, graph[s], entered)
  <2>1. s \in ServerIds /\ graph[s] \in SUBSET DOMAIN graph
    BY DEF Grounded
  <2>2. entered \in Editor!Findings /\ entered.ok = found.ok /\ entered.visited = found.visited
    BY <2>1 DEF Editor!Findings
  <2>3. Editor!VisitOne(graph, below, s, found) =
          [done EXCEPT !.visiting = @ \ {s}, !.visited = @ \cup {s}]
    BY <1>3 DEF Editor!VisitOne
  <2> HIDE DEF entered
  <2>4. Sound(graph, graph[s], entered, done)
    BY <2>1, <2>2, EachSound
  <2> HIDE DEF done
  <2>5. /\ Editor!VisitOne(graph, below, s, found) \in Editor!Findings
        /\ Editor!VisitOne(graph, below, s, found).ok = done.ok
        /\ Editor!VisitOne(graph, below, s, found).visited = done.visited \cup {s}
    BY <2>1, <2>3, <2>4 DEF Sound, Editor!Findings
  <2> QED BY <1>3, <2>2, <2>4, <2>5, CleanMore DEF Sound
<1> QED BY <1>1, <1>2, <1>3

\* The visits that go n deep, when those that go less deep are `visit`
VisitsAt(graph, visit, n) ==
  [s \in ServerIds |-> [found \in Editor!Findings |->
     IF n = 0 THEN [found EXCEPT !.ok = FALSE] ELSE Editor!VisitOne(graph, visit[n - 1], s, found)]]

(* The visits of all depths exist. *)
LEMMA VisitsExist ==
  ASSUME NEW graph, NEW N \in Nat
  PROVE  \E visit : visit = [n \in 0..N |-> VisitsAt(graph, visit, n)]
<1> DEFINE Goes(f, m) == f = [n \in 0..m |-> VisitsAt(graph, f, n)]
           S == {m \in Nat : \E f : Goes(f, m)}
<1>1. 0 \in S
  <2> DEFINE f == [n \in 0..0 |-> VisitsAt(graph, <<>>, 0)]
  <2>1. \A n \in 0..0 : VisitsAt(graph, <<>>, 0) = VisitsAt(graph, f, n)
    BY DEF VisitsAt
  <2>2. Goes(f, 0)
    BY <2>1
  <2> QED BY <2>2
<1>2. ASSUME NEW m \in 1..N, m - 1 \in S PROVE m \in S
  <2>1. PICK f : Goes(f, m - 1)
    BY <1>2
  <2> DEFINE g == [n \in 0..m |-> IF n = m THEN VisitsAt(graph, f, m) ELSE f[n]]
  <2>2. ASSUME NEW n \in 0..m PROVE g[n] = VisitsAt(graph, g, n)
    <3>1. n # 0 => n - 1 \in 0..m /\ n - 1 # m /\ g[n - 1] = f[n - 1]
      BY <2>2
    <3>2. VisitsAt(graph, g, n) = VisitsAt(graph, f, n)
      BY <3>1 DEF VisitsAt
    <3>3. n # m => n \in 0..m - 1
      BY <2>2
    <3>4. g[n] = VisitsAt(graph, f, n)
      BY <2>1, <3>3
    <3> QED BY <3>2, <3>4
  <2>3. g = [n \in 0..m |-> g[n]]
    OBVIOUS
  <2> HIDE DEF g
  <2> QED BY <2>2, <2>3
<1>3. \A n \in 0..N : n \in S
  <2> HIDE DEF S
  <2> QED BY <1>1, <1>2, Inductive
<1>4. PICK f : Goes(f, N)
  BY <1>3
<1> QED BY <1>4

(* visit is sound. *)
LEMMA VisitSound ==
  ASSUME NEW graph, Grounded(graph)
  PROVE  SoundVisit(graph, Editor!Visit(graph))
<1> DEFINE N == Editor!Cardinality(ServerIds)
           whole(f) == [n \in 0..N |-> VisitsAt(graph, f, n)]
<1>1. N \in Nat
  BY FS_CardinalityType, SameCount DEF Grounded
<1>2. \E f : f = whole(f)
  <2> HIDE DEF N
  <2> QED BY <1>1, VisitsExist
<1> DEFINE visit == CHOOSE f : f = whole(f)
<1>3. visit = whole(visit)
  <2> HIDE DEF whole
  <2> QED BY <1>2
<1>4. Editor!Visit(graph) = visit[N]
  BY DEF Editor!Visit, Editor!Depths, VisitsAt
<1> HIDE DEF visit
<1>5. \A n \in 0..N : visit[n] = VisitsAt(graph, visit, n)
  <2> HIDE DEF N
  <2> QED BY <1>3
<1> DEFINE T == {n \in 0..N : SoundVisit(graph, visit[n])}
<1>6. 0 \in T
  <2>1. 0 \in 0..N /\ visit[0] = VisitsAt(graph, visit, 0)
    <3> HIDE DEF N
    <3> QED BY <1>1, <1>5
  <2>2. visit[0] = [s \in ServerIds |-> [found \in Editor!Findings |-> [found EXCEPT !.ok = FALSE]]]
    BY <2>1 DEF VisitsAt
  <2>3. ASSUME NEW s \in DOMAIN graph
        PROVE  /\ visit[0][s] \in [Editor!Findings -> Editor!Findings]
               /\ \A found \in Editor!Findings : Sound(graph, {s}, found, visit[0][s][found])
    <3>1. s \in ServerIds /\ visit[0][s] = [found \in Editor!Findings |-> [found EXCEPT !.ok = FALSE]]
      BY <2>2 DEF Grounded
    <3>2. \A found \in Editor!Findings : /\ [found EXCEPT !.ok = FALSE] \in Editor!Findings
                                  /\ ~[found EXCEPT !.ok = FALSE].ok
      BY DEF Editor!Findings
    <3> QED BY <3>1, <3>2 DEF Sound
  <2> HIDE DEF N
  <2> QED BY <2>1, <2>3 DEF SoundVisit
<1>7. ASSUME NEW n \in 1..N, n - 1 \in T PROVE n \in T
  <2>1. n # 0 /\ n \in 0..N /\ SoundVisit(graph, visit[n - 1])
    BY <1>7
  <2>2. visit[n] = VisitsAt(graph, visit, n)
    <3> HIDE DEF N
    <3> QED BY <1>5, <2>1
  <2>3. visit[n] = [s \in ServerIds |-> [found \in Editor!Findings |->
                      Editor!VisitOne(graph, visit[n - 1], s, found)]]
    BY <2>1, <2>2 DEF VisitsAt
  <2> DEFINE below == visit[n - 1]
  <2> HIDE DEF N, T, below
  <2>4. ASSUME NEW s \in DOMAIN graph
        PROVE  /\ visit[n][s] \in [Editor!Findings -> Editor!Findings]
               /\ \A found \in Editor!Findings : Sound(graph, {s}, found, visit[n][s][found])
    <3>1. \A found \in Editor!Findings : Sound(graph, {s}, found, Editor!VisitOne(graph, below, s, found))
      BY <2>1, VisitOneSound DEF below
    <3>2. visit[n][s] = [found \in Editor!Findings |-> Editor!VisitOne(graph, below, s, found)]
      BY <2>3 DEF Grounded, below
    <3> QED BY <3>1, <3>2 DEF Sound
  <2> QED BY <2>1, <2>4 DEF SoundVisit, T
<1> HIDE DEF T, N
<1>8. \A n \in 0..N : n \in T
  BY <1>1, <1>6, <1>7, Inductive
<1> QED BY <1>1, <1>4, <1>8 DEF T

\* No group contains itself, through whatever fallbacks.
NoCircle(graph) == ~\E C \in SUBSET DOMAIN graph : C # {} /\ \A s \in C : graph[s] \cap C # {}

(* The search finds every circle of fallbacks. *)
LEMMA AcyclicSound ==
  ASSUME NEW graph, Grounded(graph), Editor!Acyclic(graph)
  PROVE  NoCircle(graph)
<1> DEFINE found == Editor!Each(Editor!Visit(graph), DOMAIN graph, Editor!Unvisited)
<1>1. Editor!Unvisited \in Editor!Findings /\ Editor!Unvisited.ok /\ Editor!Unvisited.visited = {}
  BY DEF Editor!Unvisited, Editor!Findings
<1>2. Sound(graph, DOMAIN graph, Editor!Unvisited, found)
  BY <1>1, VisitSound, EachSound
<1>3. found.ok
  BY DEF Editor!Acyclic
<1> HIDE DEF found
<1>4. Clean(graph, found.visited) /\ DOMAIN graph \subseteq found.visited
  BY <1>1, <1>2, <1>3 DEF Sound, Clean
<1> QED BY <1>4 DEF Clean, NoCircle

(* A search for circles among no servers finds none. *)
LEMMA NoServersAcyclic == Editor!Acyclic(<<>>)
<1> DEFINE order == Editor!SetToSeq({})
           step == [n \in 1..0 |-> Editor!Visit(<<>>)[order[n]]]
<1>1. DOMAIN <<>> = {} /\ Editor!Cardinality({}) = 0
  BY FS_EmptySet, SameCount
<1>2. Editor!Each(Editor!Visit(<<>>), {}, Editor!Unvisited) = Editor!Iterate(step, Editor!Unvisited, 0)
  BY <1>1 DEF Editor!Each
<1>3. step \in [1..0 -> [Editor!Findings -> Editor!Findings]] /\ Editor!Unvisited \in Editor!Findings /\ Editor!Unvisited.ok
  BY DEF Editor!Unvisited, Editor!Findings
<1> HIDE DEF step
<1>4. Loops(Editor!Findings, step, Editor!Unvisited, 0)
  BY <1>3, Iterates
<1>5. Editor!Iterate(step, Editor!Unvisited, 0) = Editor!Unvisited
  BY <1>4 DEF Loops
<1> QED BY <1>1, <1>2, <1>3, <1>5 DEF Editor!Acyclic

(* The list that holds Default alone validates. *)
LEMMA EditorInitOK == Editor!EditorConstants /\ Editor!EditorInit => Editor!EditorInv
<1> SUFFICES ASSUME Editor!EditorConstants, v1 = <<>>, v2 = <<Editor!Default>> PROVE Editor!EditorInv
  BY DEF Editor!EditorInit
<1>1. Editor!Default \in Editor!Rules /\ Editor!Default.default /\ Editor!Default.enabled /\ Editor!Default.hosts = Hosts
      /\ Editor!Default.server = Editor!NoServer
  BY DEF Editor!Default, Editor!Rules, Editor!NoServer
<1>2. DOMAIN v1 = {}
  OBVIOUS
<1>3. Len(v2) = 1 /\ DOMAIN v2 = {1} /\ v2[1] = Editor!Default /\ v2 # <<>>
  OBVIOUS
<1>4. v2 \in Seq(Editor!Rules)
  BY <1>1
<1>5. Editor!GroupsValid(v1)
  BY <1>2, NoServersAcyclic DEF Editor!GroupsValid
<1>6. Editor!IsInjective([i \in DOMAIN v2 |-> v2[i].id])
  BY <1>3 DEF Editor!IsInjective
<1>7. Len(v2) <= MaxRuleList
  BY <1>3 DEF Editor!EditorConstants
<1>8. \A i \in DOMAIN v2 : Editor!RuleValid(v2[i], i = Len(v2), v1)
  BY <1>1, <1>3 DEF Editor!RuleValid, Editor!EditorConstants
<1> QED BY <1>2, <1>3, <1>4, <1>5, <1>6, <1>7, <1>8 DEF Editor!EditorInv, Editor!Valid

(* What is committed has been validated. *)
LEMMA CommitOK ==
  ASSUME NEW graph, NEW rs, DOMAIN graph \subseteq ServerIds, rs \in Seq(Editor!Rules),
         Editor!Commit(graph, rs)
  PROVE  Editor!EditorInv'
BY DEF Editor!Commit, Editor!EditorInv, Editor!Valid, Editor!GroupsValid, Editor!RuleValid, Editor!Acyclic

(* Inserting and removing rules makes a list of rules. *)
LEMMA EditsOK ==
  ASSUME NEW rs \in Seq(Editor!Rules), NEW i \in DOMAIN rs, NEW r \in Editor!Rules
  PROVE  Editor!InsertAt(rs, Len(rs), r) \in Seq(Editor!Rules) /\ Editor!RemoveAt(rs, i) \in Seq(Editor!Rules)
<1>1. Len(rs) \in Nat /\ DOMAIN rs = 1..Len(rs)
  BY LenProperties
<1>2. SubSeq(rs, 1, Len(rs) - 1) \in Seq(Editor!Rules) /\ SubSeq(rs, Len(rs), Len(rs)) \in Seq(Editor!Rules)
      /\ SubSeq(rs, 1, i - 1) \in Seq(Editor!Rules) /\ SubSeq(rs, i + 1, Len(rs)) \in Seq(Editor!Rules)
  <2> SUFFICES ASSUME NEW m \in 1..Len(rs) + 1, NEW n \in 0..Len(rs)
               PROVE  SubSeq(rs, m, n) \in Seq(Editor!Rules)
    BY <1>1
  <2> QED BY <1>1, SubSeqProperties
<1>3. <<r>> \in Seq(Editor!Rules)
  OBVIOUS
<1>4. SubSeq(rs, 1, Len(rs) - 1) \o <<r>> \in Seq(Editor!Rules)
  BY <1>2, <1>3, ConcatProperties
<1> QED BY <1>2, <1>4, ConcatProperties DEF Editor!InsertAt, Editor!RemoveAt

(* Every operation of the editor leaves a list that validates. *)
LEMMA EditorStepOK == Editor!EditorConstants /\ Editor!EditorInv /\ Editor!EditorNext => Editor!EditorInv'
<1> SUFFICES ASSUME Editor!EditorConstants, Editor!EditorInv, Editor!EditorNext PROVE Editor!EditorInv'
  OBVIOUS
<1>1. /\ DOMAIN v1 \subseteq ServerIds /\ v2 \in Seq(Editor!Rules) /\ RuleCandidates \subseteq Editor!Rules
      /\ Len(v2) \in Nat /\ DOMAIN v2 = 1..Len(v2) /\ v2 # <<>>
      /\ \A i \in DOMAIN v2 : v2[i] \in Editor!Rules
  BY LenProperties, ElementOfSeq DEF Editor!EditorInv, Editor!EditorConstants, Editor!Valid
<1>2. CASE Editor!AddRule
  <2>1. PICK r \in RuleCandidates : Editor!Commit(v1, Editor!InsertAt(v2, Len(v2), r))
    BY <1>2 DEF Editor!AddRule
  <2>2. 1 \in DOMAIN v2
    BY <1>1, EmptySeq
  <2> QED BY <1>1, <2>1, <2>2, EditsOK, CommitOK
<1>3. CASE Editor!UpdateRule
  <2>1. PICK r \in RuleCandidates, i \in DOMAIN v2 : Editor!Commit(v1, [v2 EXCEPT ![i] = r])
    BY <1>3 DEF Editor!UpdateRule, Editor!Place
  <2>2. [v2 EXCEPT ![i] = r] \in Seq(Editor!Rules)
    BY <1>1, ExceptSeq
  <2> QED BY <1>1, <2>1, <2>2, CommitOK
<1>4. CASE Editor!RemoveRule
  <2>1. PICK i \in DOMAIN v2 : Editor!Commit(v1, Editor!RemoveAt(v2, i))
    BY <1>4 DEF Editor!RemoveRule
  <2> QED BY <1>1, <2>1, EditsOK, CommitOK
<1>5. CASE Editor!MoveRule
  <2>1. PICK i \in DOMAIN v2, j \in DOMAIN v2 :
          Editor!Commit(v1, [v2 EXCEPT ![i] = v2[j], ![j] = v2[i]])
    BY <1>5 DEF Editor!MoveRule
  <2> DEFINE one == [v2 EXCEPT ![i] = v2[j]]
  <2>2. one \in Seq(Editor!Rules) /\ Len(one) = Len(v2)
    BY <1>1, ExceptSeq
  <2>3. [one EXCEPT ![j] = v2[i]] \in Seq(Editor!Rules)
    <3> HIDE DEF one
    <3>1. j \in 1..Len(one)
      BY <1>1, <2>2
    <3> QED BY <1>1, <2>2, <3>1, ExceptSeq
  <2>4. [v2 EXCEPT ![i] = v2[j], ![j] = v2[i]] = [one EXCEPT ![j] = v2[i]]
    OBVIOUS
  <2> QED BY <1>1, <2>1, <2>3, <2>4, CommitOK
<1>6. CASE Editor!CloneRule
  <2>1. PICK i \in DOMAIN v2, id \in {r.id : r \in RuleCandidates} :
          Editor!Commit(v1, Editor!InsertAt(v2, Len(v2),
                                   [v2[i] EXCEPT !.id = id, !.default = FALSE]))
    BY <1>6 DEF Editor!CloneRule
  <2>2. id \in Nat
    BY <1>1, <2>1 DEF Editor!Rules
  <2>3. [v2[i] EXCEPT !.id = id, !.default = FALSE] \in Editor!Rules
    <3>1. v2[i] \in Editor!Rules
      BY <1>1
    <3> QED BY <2>2, <3>1 DEF Editor!Rules
  <2> QED BY <1>1, <2>1, <2>3, EditsOK, CommitOK
<1>7. CASE Editor!SetServer
  <2>1. PICK s \in ServerIds, fallbacks \in SUBSET ServerIds :
          Editor!Commit([t \in DOMAIN v1 \cup {s} |-> IF t = s THEN fallbacks ELSE v1[t]],
                 v2)
    BY <1>7 DEF Editor!SetServer
  <2> QED BY <1>1, <2>1, CommitOK
<1>8. CASE Editor!RemoveServer
  <2>1. PICK s \in DOMAIN v1 : Editor!Commit(Editor!Restrict(v1, DOMAIN v1 \ {s}), v2)
    BY <1>8 DEF Editor!RemoveServer
  <2>2. DOMAIN Editor!Restrict(v1, DOMAIN v1 \ {s}) \subseteq ServerIds
    BY <1>1 DEF Editor!Restrict
  <2> QED BY <1>1, <2>1, <2>2, CommitOK
<1>9. CASE Editor!NetworkChanges
  BY <1>9 DEF Editor!NetworkChanges, Editor!EditorInv, Editor!Valid, Editor!GroupsValid, Editor!RuleValid, Editor!Acyclic
<1> QED BY <1>2, <1>3, <1>4, <1>5, <1>6, <1>7, <1>8, <1>9 DEF Editor!EditorNext

(* A list that validates decides every host. *)
LEMMA EditorMeans == Editor!EditorConstants /\ Editor!EditorInv => Editor!RulesUsable
<1> SUFFICES ASSUME Editor!EditorConstants, Editor!EditorInv PROVE Editor!RulesUsable
  OBVIOUS
<1>1. /\ Len(v2) \in Nat /\ DOMAIN v2 = 1..Len(v2) /\ v2 # <<>>
      /\ \A i \in DOMAIN v2 : v2[i] \in Editor!Rules
      /\ \A i \in DOMAIN v2 : Editor!RuleValid(v2[i], i = Len(v2), v1)
  BY LenProperties, ElementOfSeq DEF Editor!EditorInv, Editor!Valid
<1>2. Len(v2) \in DOMAIN v2
  BY <1>1, EmptySeq
<1>3. ASSUME NEW host \in Hosts
      PROVE  /\ Editor!Deciding(host) # {}
             /\ Editor!Decided(host).default => \A i \in DOMAIN v2 :
                  Editor!Applies(v2[i], host) => v2[i].default
             /\ Editor!Decided(host).server # Editor!NoServer => Editor!Decided(host).server \in DOMAIN v1
  <2>1. Len(v2) \in Editor!Deciding(host)
    BY <1>1, <1>2 DEF Editor!Deciding, Editor!Applies, Editor!PassedOver, Editor!RuleValid, Editor!Rules
  <2> DEFINE first == CHOOSE i \in Editor!Deciding(host) : \A j \in Editor!Deciding(host) : i <= j
  <2>2. Editor!Deciding(host) \subseteq DOMAIN v2
    BY DEF Editor!Deciding
  <2>3. first \in Editor!Deciding(host) /\ \A j \in Editor!Deciding(host) : first <= j
    <3>1. Editor!Deciding(host) \subseteq Nat
      BY <1>1, <2>2
    <3>2. \E i \in Editor!Deciding(host) : \A j \in Editor!Deciding(host) : i <= j
      BY <2>1, <3>1, LeastOf
    <3> QED BY <3>2
  <2>4. Editor!Decided(host) = v2[first]
    BY DEF Editor!Decided
  <2> HIDE DEF first
  <2>5. first \in DOMAIN v2 /\ Editor!RuleValid(v2[first], first = Len(v2), v1)
    BY <1>1, <2>2, <2>3
  <2>6. ASSUME v2[first].default, NEW i \in DOMAIN v2, Editor!Applies(v2[i], host)
        PROVE  v2[i].default
    <3>1. first = Len(v2)
      BY <2>5, <2>6 DEF Editor!RuleValid
    <3>2. i = Len(v2)
      BY <1>1, <2>3, <2>6, <3>1 DEF Editor!Deciding
    <3> QED BY <2>6, <3>1, <3>2
  <2>7. v2[first].server # Editor!NoServer => v2[first].server \in DOMAIN v1
    BY <2>5 DEF Editor!RuleValid
  <2> QED BY <2>1, <2>4, <2>6, <2>7
<1>4. \A s \in DOMAIN v1 : v1[s] \subseteq DOMAIN v1
  BY DEF Editor!EditorInv, Editor!Valid, Editor!GroupsValid
<1>5. Editor!Acyclic(v1) /\ Grounded(v1)
  BY <1>4 DEF Editor!EditorInv, Editor!Valid, Editor!GroupsValid, Grounded, Editor!EditorConstants
<1>6. NoCircle(v1)
  BY <1>5, AcyclicSound
<1> QED BY <1>3, <1>4, <1>6 DEF Editor!RulesUsable, NoCircle

EditorHolds == component = "editor" => Editor!EditorInv

(* Whatever is added, moved, cloned and removed, every host is decided by  *)
(* the first rule that applies, the servers of rules and groups exist, and *)
(* no group contains itself (rules.cpp:282-405).                           *)
THEOREM RulesHold == Spec => []RulesUsable
<1>1. Init => EditorHolds
  BY EditorInitOK, SurroundingsConstants DEF Init, EditorHolds
<1>2. EditorHolds /\ [Next]_vars => EditorHolds'
  <2> SUFFICES ASSUME EditorHolds, [Next]_vars, component = "editor", component' = component
               PROVE  Editor!EditorInv'
    BY DEF EditorHolds, Next, vars
  <2>1. CASE Editor!EditorNext
    BY <2>1, EditorStepOK, SurroundingsConstants DEF EditorHolds
  <2>2. CASE UNCHANGED vars
    BY <2>2 DEF EditorHolds, vars, Editor!EditorInv, Editor!Valid, Editor!GroupsValid,
       Editor!RuleValid, Editor!Acyclic
  <2> QED BY <2>1, <2>2 DEF Next
<1>3. EditorHolds => RulesUsable
  BY EditorMeans, SurroundingsConstants DEF EditorHolds, RulesUsable
<1> QED BY <1>1, <1>2, <1>3, PTL DEF Spec
-----------------------------------------------------------------------------
(* The screen.                                                             *)

(* A selection from a sequence is a sequence of what was selected. *)
LEMMA ThoseOK ==
  ASSUME NEW T, NEW s \in Seq(T), NEW places, places \subseteq DOMAIN s
  PROVE  Screen!Those(s, places) \in Seq({s[n] : n \in places})
<1> DEFINE A == Seq({s[n] : n \in places})
           L == Len(s)
           step == [n \in 1..L |-> [x \in A |-> IF n \in places THEN Append(x, s[n]) ELSE x]]
           whole(f) == [n \in 0..L |->
             IF n = 0 THEN <<>> ELSE IF n \in places THEN Append(f[n - 1], s[n]) ELSE f[n - 1]]
           upTo == CHOOSE f : f = whole(f)
<1>1. L \in Nat /\ <<>> \in A
  BY LenProperties, EmptySeq
<1>A. \A n \in 1..L, x \in A : (IF n \in places THEN Append(x, s[n]) ELSE x) \in A
  BY AppendProperties
<1>2. \A n \in 1..L : step[n] = [x \in A |-> IF n \in places THEN Append(x, s[n]) ELSE x]
  OBVIOUS
<1>3. step \in [1..L -> [A -> A]]
  <2> HIDE DEF A, L
  <2> QED BY <1>A
<1>4. \E f : f = whole(f)
  <2>1. Loops(A, step, <<>>, L)
    <3> HIDE DEF A, L, step
    <3> QED BY <1>1, <1>3, Iterates
  <2>2. PICK f \in [0..L -> A] : f[0] = <<>> /\ \A n \in 1..L : f[n] = step[n][f[n - 1]]
    BY <2>1 DEF Loops
  <2>3. \A n \in 1..L : f[n] = IF n \in places THEN Append(f[n - 1], s[n]) ELSE f[n - 1]
    <3> TAKE n \in 1..L
    <3>1. f[n - 1] \in A
      BY <1>1, <2>2
    <3> HIDE DEF A, L, step
    <3>2. step[n] = [x \in A |-> IF n \in places THEN Append(x, s[n]) ELSE x]
      BY <1>2
    <3>3. step[n][f[n - 1]] = IF n \in places THEN Append(f[n - 1], s[n]) ELSE f[n - 1]
      BY <3>1, <3>2
    <3> QED BY <2>2, <3>3
  <2>4. f = whole(f)
    <3>1. \A n \in 0..L : n # 0 => n \in 1..L
      BY <1>1
    <3>2. \A n \in 0..L : f[n] = IF n = 0 THEN <<>>
                                ELSE IF n \in places THEN Append(f[n - 1], s[n]) ELSE f[n - 1]
      BY <2>2, <2>3, <3>1
    <3> HIDE DEF A, L
    <3> QED BY <2>2, <3>2
  <2> QED BY <2>4
<1>5. upTo = whole(upTo)
  <2> HIDE DEF whole
  <2> QED BY <1>4
<1>6. Screen!Those(s, places) = upTo[L]
  BY DEF Screen!Those
<1> HIDE DEF upTo
<1>7. \A n \in 0..L : upTo[n] \in A
  <2> DEFINE N == {n \in Nat : upTo[n] \in A}
  <2>1. 0 \in N
    BY <1>1, <1>5
  <2>2. ASSUME NEW n \in 1..L, n - 1 \in N PROVE n \in N
    <3>1. upTo[n - 1] \in A /\ n \in Nat /\ n # 0 /\ n \in 0..L
      BY <1>1, <2>2
    <3>2. upTo[n] = IF n \in places THEN Append(upTo[n - 1], s[n]) ELSE upTo[n - 1]
      BY <1>5, <3>1
    <3> HIDE DEF A, L
    <3> QED BY <1>A, <3>1, <3>2
  <2> HIDE DEF N
  <2>3. \A n \in 0..L : n \in N
    BY <1>1, <2>1, <2>2, Inductive
  <2> QED BY <2>3 DEF N
<1> QED BY <1>1, <1>6, <1>7

(* A selection depends on the places selected only. *)
LEMMA InOrderSame ==
  ASSUME NEW part, NEW whole, NEW other, NEW places,
         Screen!InOrder(part, whole, places), \A n \in places : whole[n] = other[n]
  PROVE  Screen!InOrder(part, other, places)
BY DEF Screen!InOrder

\* f gives the place of each element of part.
Selects(f, D, part, whole, places) ==
  /\ f \in [D -> places]
  /\ \A i, j \in D : i < j => f[i] < f[j]
  /\ \A m \in places : \E i \in D : f[i] = m
  /\ \A i \in D : part[i] = whole[f[i]]

LEMMA InOrderBy ==
  ASSUME NEW part, NEW whole, NEW places, NEW D, DOMAIN part = D
  PROVE  Screen!InOrder(part, whole, places) <=> \E f : Selects(f, D, part, whole, places)
<1>1. Screen!InOrder(part, whole, places) <=> \E f \in [D -> places] :
        /\ \A i, j \in D : i < j => f[i] < f[j]
        /\ \A m \in places : \E i \in D : f[i] = m
        /\ \A i \in D : part[i] = whole[f[i]]
  BY Zenon DEF Screen!InOrder
<1> QED BY <1>1, Zenon DEF Selects

(* The next place selected adds its element at the end. *)
LEMMA InOrderMore ==
  ASSUME NEW T, NEW part \in Seq(T), NEW whole, NEW places \in SUBSET Nat, NEW n \in Nat,
         Screen!InOrder(part, whole, places), whole[n] \in T, \A m \in places : m < n
  PROVE  Screen!InOrder(Append(part, whole[n]), whole, places \cup {n})
<1> DEFINE L == Len(part)
           more == Append(part, whole[n])
<1>1. L \in Nat /\ DOMAIN part = 1..L
  BY LenProperties
<1>2. /\ more \in Seq(T) /\ DOMAIN more = 1..L + 1 /\ more[L + 1] = whole[n]
      /\ \A i \in 1..L : more[i] = part[i]
  <2>1. more \in Seq(T) /\ Len(more) = L + 1
    BY AppendProperties
  <2>2. DOMAIN more = 1..L + 1
    BY <2>1, LenProperties
  <2> QED BY <1>1, <2>1, <2>2, AppendProperties
<1>3. PICK at : Selects(at, 1..L, part, whole, places)
  BY <1>1, InOrderBy
<1> DEFINE and == [i \in 1..L + 1 |-> IF i = L + 1 THEN n ELSE at[i]]
<1> HIDE DEF L, more
<1>4. \A i \in 1..L + 1 : i # L + 1 => i \in 1..L
  BY <1>1
<1>B. /\ at \in [1..L -> places] /\ \A i, j \in 1..L : i < j => at[i] < at[j]
      /\ \A m \in places : \E i \in 1..L : at[i] = m
      /\ \A i \in 1..L : part[i] = whole[at[i]]
  BY <1>3 DEF Selects
<1>5. and \in [1..L + 1 -> places \cup {n}] /\ and[L + 1] = n /\ \A i \in 1..L : and[i] = at[i]
  BY <1>1, <1>4, <1>B
<1> HIDE DEF and
<1>6. ASSUME NEW i \in 1..L + 1, NEW j \in 1..L + 1, i < j PROVE and[i] < and[j]
  <2>1. i \in 1..L
    BY <1>1, <1>6
  <2>2. CASE j = L + 1
    BY <1>B, <1>5, <2>1, <2>2
  <2>3. CASE j # L + 1
    BY <1>B, <1>4, <1>5, <1>6, <2>1, <2>3
  <2> QED BY <2>2, <2>3
<1>7. \A m \in places \cup {n} : \E i \in 1..L + 1 : and[i] = m
  <2>1. 1..L \subseteq 1..L + 1 /\ L + 1 \in 1..L + 1
    BY <1>1
  <2> QED BY <1>B, <1>5, <2>1
<1>8. \A i \in 1..L + 1 : more[i] = whole[and[i]]
  BY <1>2, <1>B, <1>4, <1>5
<1>9. Selects(and, 1..L + 1, more, whole, places \cup {n})
  BY <1>5, <1>6, <1>7, <1>8 DEF Selects
<1> QED BY <1>2, <1>9, InOrderBy DEF more

\* The places that are left when the first one is taken away
Rest(whole, places) == {n \in 1..Len(whole) - 1 : n + 1 \in places}

(* Without its first element, a sequence has the selection without it. *)
LEMMA InOrderLess ==
  ASSUME NEW T, NEW part \in Seq(T), NEW whole \in Seq(T), whole # <<>>,
         NEW places, places \subseteq DOMAIN whole, Screen!InOrder(part, whole, places)
  PROVE  /\ 1 \notin places => Screen!InOrder(part, Tail(whole), Rest(whole, places))
         /\ 1 \in places => /\ part # <<>> /\ Head(part) = whole[1]
                            /\ Screen!InOrder(Tail(part), Tail(whole), Rest(whole, places))
<1> DEFINE L == Len(part)
           W == Len(whole)
           rest == Rest(whole, places)
<1>1. /\ L \in Nat /\ DOMAIN part = 1..L
      /\ W \in Nat \ {0} /\ DOMAIN whole = 1..W
      /\ Tail(whole) \in Seq(T) /\ Len(Tail(whole)) = W - 1
      /\ \A n \in 1..W - 1 : Tail(whole)[n] = whole[n + 1]
  BY LenProperties, EmptySeq, HeadTailProperties
<1>A. PICK at : Selects(at, 1..L, part, whole, places)
  BY <1>1, InOrderBy
<1>2. /\ at \in [1..L -> places] /\ \A i, j \in 1..L : i < j => at[i] < at[j]
      /\ \A m \in places : \E i \in 1..L : at[i] = m
      /\ \A i \in 1..L : part[i] = whole[at[i]]
  BY <1>A DEF Selects
<1>3. \A i \in 1..L : at[i] \in 1..W
  BY <1>1, <1>2
<1>4. rest = {n \in 1..W - 1 : n + 1 \in places}
  BY DEF Rest
<1> HIDE DEF L, W, rest
<1>5. ASSUME 1 \notin places PROVE Screen!InOrder(part, Tail(whole), rest)
  <2> DEFINE f == [i \in 1..L |-> at[i] - 1]
  <2>1. \A i \in 1..L : at[i] \in 2..W
    <3> TAKE i \in 1..L
    <3>1. at[i] \in places /\ at[i] \in 1..W /\ at[i] # 1
      BY <1>2, <1>3, <1>5
    <3> QED BY <1>1, <3>1
  <2>2. \A i \in 1..L : f[i] = at[i] - 1 /\ f[i] \in 1..W - 1 /\ f[i] + 1 = at[i]
    BY <1>1, <2>1
  <2>3. f \in [1..L -> rest]
    <3>1. \A i \in 1..L : f[i] \in rest
      BY <1>2, <1>4, <2>2
    <3> QED BY <3>1
  <2> HIDE DEF f
  <2>4. \A i, j \in 1..L : i < j => f[i] < f[j]
    BY <1>1, <1>2, <1>3, <2>2
  <2>5. \A m \in rest : \E i \in 1..L : f[i] = m
    <3> TAKE m \in rest
    <3>1. m \in 1..W - 1 /\ m + 1 \in places
      BY <1>4
    <3>2. PICK i \in 1..L : at[i] = m + 1
      BY <1>2, <3>1
    <3>3. f[i] = m
      BY <1>1, <2>2, <3>1, <3>2
    <3> QED BY <3>3
  <2>6. \A i \in 1..L : part[i] = Tail(whole)[f[i]]
    BY <1>1, <1>2, <2>2
  <2>7. Selects(f, 1..L, part, Tail(whole), rest)
    BY <2>3, <2>4, <2>5, <2>6 DEF Selects
  <2> QED BY <1>1, <2>7, InOrderBy
<1>6. ASSUME 1 \in places
      PROVE  part # <<>> /\ Head(part) = whole[1] /\ Screen!InOrder(Tail(part), Tail(whole), rest)
  <2>1. PICK first \in 1..L : at[first] = 1
    BY <1>2, <1>6
  <2>2. 1 \in 1..L /\ L # 0
    BY <1>1, <2>1
  <2>3. at[1] = 1
    <3>1. first = 1 \/ 1 < first
      BY <1>1, <2>1
    <3>2. ~(1 < first)
      <4> SUFFICES ASSUME 1 < first PROVE FALSE
        OBVIOUS
      <4>1. at[1] < at[first] /\ at[1] \in 1..W
        BY <1>2, <1>3, <2>1, <2>2
      <4> QED BY <1>1, <2>1, <4>1
    <3> QED BY <2>1, <3>1, <3>2
  <2>4. part # <<>> /\ Head(part) = part[1] /\ Tail(part) \in Seq(T) /\ Len(Tail(part)) = L - 1
        /\ \A i \in 1..L - 1 : Tail(part)[i] = part[i + 1]
    <3>1. part # <<>>
      BY <2>2, EmptySeq DEF L
    <3>2. Head(part) = part[1]
      BY <3>1
    <3> QED BY <3>1, <3>2, HeadTailProperties DEF L
  <2>5. Head(part) = whole[1]
    BY <1>2, <2>2, <2>3, <2>4
  <2>6. DOMAIN Tail(part) = 1..L - 1
    BY <2>4, LenProperties
  <2> DEFINE f == [i \in 1..L - 1 |-> at[i + 1] - 1]
  <2>7. \A i \in 1..L - 1 : i + 1 \in 1..L /\ 1 < i + 1 /\ at[i + 1] \in 2..W
    <3> TAKE i \in 1..L - 1
    <3>1. i + 1 \in 1..L /\ 1 < i + 1
      BY <1>1
    <3>2. at[1] < at[i + 1] /\ at[i + 1] \in 1..W
      BY <1>2, <1>3, <2>2, <3>1
    <3> QED BY <1>1, <2>3, <3>1, <3>2
  <2>8. \A i \in 1..L - 1 : f[i] = at[i + 1] - 1 /\ f[i] \in 1..W - 1 /\ f[i] + 1 = at[i + 1]
    BY <1>1, <2>7
  <2>9. f \in [1..L - 1 -> rest]
    <3>1. \A i \in 1..L - 1 : f[i] \in rest
      <4> TAKE i \in 1..L - 1
      <4>1. at[i + 1] \in places
        BY <1>2, <2>7
      <4> HIDE DEF f
      <4> QED BY <1>4, <2>8, <4>1
    <3> QED BY <3>1
  <2> HIDE DEF f
  <2>10. \A i, j \in 1..L - 1 : i < j => f[i] < f[j]
    <3> SUFFICES ASSUME NEW i \in 1..L - 1, NEW j \in 1..L - 1, i < j PROVE f[i] < f[j]
      OBVIOUS
    <3>1. i + 1 \in 1..L /\ j + 1 \in 1..L /\ i + 1 < j + 1
      BY <1>1, <2>7
    <3>2. at[i + 1] < at[j + 1] /\ at[i + 1] \in 1..W /\ at[j + 1] \in 1..W
      BY <1>2, <1>3, <3>1
    <3> QED BY <1>1, <2>8, <3>2
  <2>11. \A m \in rest : \E i \in 1..L - 1 : f[i] = m
    <3> TAKE m \in rest
    <3>1. m \in 1..W - 1 /\ m + 1 \in places /\ m + 1 # 1
      BY <1>1, <1>4
    <3>2. PICK i \in 1..L : at[i] = m + 1
      BY <1>2, <3>1
    <3>3. i # 1 /\ i - 1 \in 1..L - 1 /\ (i - 1) + 1 = i
      BY <1>1, <2>3, <3>1, <3>2
    <3>4. f[i - 1] = m
      BY <1>1, <2>8, <3>1, <3>2, <3>3
    <3> QED BY <3>3, <3>4
  <2>12. \A i \in 1..L - 1 : Tail(part)[i] = Tail(whole)[f[i]]
    <3> TAKE i \in 1..L - 1
    <3>1. Tail(part)[i] = whole[at[i + 1]]
      BY <1>2, <2>4, <2>7
    <3>2. Tail(whole)[f[i]] = whole[f[i] + 1]
      BY <1>1, <2>8
    <3> QED BY <2>8, <3>1, <3>2
  <2>13. Screen!InOrder(Tail(part), Tail(whole), rest)
    <3>1. Selects(f, 1..L - 1, Tail(part), Tail(whole), rest)
      BY <2>9, <2>10, <2>11, <2>12 DEF Selects
    <3> QED BY <2>6, <3>1, InOrderBy
  <2> QED BY <2>4, <2>5, <2>13
<1> QED BY <1>5, <1>6 DEF rest

\* All of the panel but its display
Alike(q, p) ==
  /\ q.records = p.records /\ q.saved = p.saved /\ q.selected = p.selected
  /\ q.filter = p.filter /\ q.filtersOn = p.filtersOn
  /\ q.errors = p.errors /\ q.commands = p.commands

Good(p) == p \in Screen!Panels /\ Screen!Exact(p)

(* What matches depends on the filters alone. *)
LEMMA MatchesAlike ==
  ASSUME NEW p, NEW q, q.filter = p.filter, q.filtersOn = p.filtersOn,
         q.errors = p.errors, q.commands = p.commands
  PROVE  \A r : Screen!Matches(q, r) <=> Screen!Matches(p, r)
BY DEF Screen!Matches

(* A record more, and one less, on the display. *)
LEMMA RenderedOK ==
  ASSUME NEW p \in Screen!Panels, NEW r \in Screen!Records
  PROVE  LET q == Screen!Rendered(p, r)
         IN /\ q \in Screen!Panels /\ Alike(q, p)
            /\ q.shown = Append(p.shown, r) /\ q.visible = p.visible + 1
            /\ q.inspected \in {p.inspected, r}
<1>1. Append(p.shown, r) \in Seq(Screen!Records)
  BY AppendProperties DEF Screen!Panels
<1> DEFINE q == Screen!Rendered(p, r)
           more == Append(p.shown, r)
           seen == IF p.shown = <<>> /\ p.inspecting /\ p.automatic THEN r ELSE p.inspected
<1>2. q = [p EXCEPT !.shown = more, !.visible = p.visible + 1, !.inspected = seen]
  BY DEF Screen!Rendered, Screen!Panels
<1>3. seen \in {p.inspected, r}
  OBVIOUS
<1> HIDE DEF q, more, seen
<1>4. p.visible + 1 \in Nat /\ more \in Seq(Screen!Records) /\ seen \in Screen!Records \cup {Screen!Nothing}
  BY <1>1, <1>3 DEF more, Screen!Panels
<1>5. q \in Screen!Panels /\ Alike(q, p) /\ q.shown = more /\ q.visible = p.visible + 1 /\ q.inspected = seen
  BY <1>2, <1>4 DEF Screen!Panels, Alike
<1> QED BY <1>3, <1>5 DEF q, more

LEMMA FirstRemovedOK ==
  ASSUME NEW p \in Screen!Panels, p.shown # <<>>, p.visible = Len(p.shown)
  PROVE  LET q == Screen!FirstRemoved(p)
         IN /\ q \in Screen!Panels /\ Alike(q, p)
            /\ q.shown = Tail(p.shown) /\ q.visible = p.visible - 1
            /\ q.inspected = IF p.inspected = Head(p.shown) THEN Screen!Nothing ELSE p.inspected
<1> DEFINE q == Screen!FirstRemoved(p)
           rest == Tail(p.shown)
           seen == IF p.inspected = Head(p.shown) THEN Screen!Nothing ELSE p.inspected
<1>1. p.shown \in Seq(Screen!Records)
  BY DEF Screen!Panels
<1>2. rest \in Seq(Screen!Records) /\ p.visible \in Nat \ {0}
  BY <1>1, EmptySeq, HeadTailProperties
<1>3. q = [p EXCEPT !.shown = rest, !.visible = p.visible - 1, !.inspected = seen]
  BY DEF Screen!FirstRemoved, Screen!Panels
<1>4. p.visible - 1 \in Nat /\ seen \in Screen!Records \cup {Screen!Nothing}
  BY <1>2 DEF Screen!Panels
<1> HIDE DEF q, rest, seen
<1>5. q \in Screen!Panels /\ Alike(q, p) /\ q.shown = rest /\ q.visible = p.visible - 1 /\ q.inspected = seen
  BY <1>2, <1>3, <1>4 DEF Screen!Panels, Alike
<1> QED BY <1>5 DEF q, rest, seen

(* What is inspected stays among what is displayed. *)
LEMMA InspectedStays ==
  ASSUME NEW T, NEW s \in Seq(T)
  PROVE  /\ \A r \in T : Screen!ToSet(Append(s, r)) = Screen!ToSet(s) \cup {r}
         /\ s # <<>> => /\ Head(s) \in Screen!ToSet(s)
                        /\ Screen!ToSet(s) \subseteq Screen!ToSet(Tail(s)) \cup {Head(s)}
         /\ Screen!ToSet(s) \subseteq T
<1>1. Len(s) \in Nat /\ DOMAIN s = 1..Len(s)
  BY LenProperties
<1>2. ASSUME NEW r \in T PROVE Screen!ToSet(Append(s, r)) = Screen!ToSet(s) \cup {r}
  <2>1. Append(s, r) \in Seq(T) /\ Len(Append(s, r)) = Len(s) + 1
        /\ Append(s, r)[Len(s) + 1] = r /\ \A i \in 1..Len(s) : Append(s, r)[i] = s[i]
    BY AppendProperties
  <2>2. DOMAIN Append(s, r) = 1..Len(s) + 1
    BY <2>1, LenProperties
  <2>3. 1..Len(s) + 1 = (1..Len(s)) \cup {Len(s) + 1}
    BY <1>1
  <2> QED BY <1>1, <2>1, <2>2, <2>3 DEF Screen!ToSet
<1>3. ASSUME s # <<>>
      PROVE  Head(s) \in Screen!ToSet(s) /\ Screen!ToSet(s) \subseteq Screen!ToSet(Tail(s)) \cup {Head(s)}
  <2>1. /\ Tail(s) \in Seq(T) /\ Len(Tail(s)) = Len(s) - 1
        /\ \A i \in 1..Len(s) - 1 : Tail(s)[i] = s[i + 1]
    BY <1>3, HeadTailProperties
  <2>2. Head(s) = s[1] /\ 1 \in 1..Len(s) /\ Len(s) # 0
    BY <1>1, <1>3, EmptySeq
  <2>3. DOMAIN Tail(s) = 1..Len(s) - 1
    BY <2>1, LenProperties
  <2>4. ASSUME NEW i \in 1..Len(s), i # 1 PROVE s[i] \in Screen!ToSet(Tail(s))
    <3>1. i - 1 \in 1..Len(s) - 1 /\ (i - 1) + 1 = i
      BY <1>1, <2>4
    <3>2. Tail(s)[i - 1] = s[i]
      BY <2>1, <3>1
    <3> QED BY <2>3, <3>1, <3>2 DEF Screen!ToSet
  <2> QED BY <1>1, <2>2, <2>4 DEF Screen!ToSet
<1>4. Screen!ToSet(s) \subseteq T
  BY <1>1, ElementOfSeq DEF Screen!ToSet
<1> QED BY <1>2, <1>3, <1>4

\* Other records under the same display and filters
LEMMA RecordsReplaced ==
  ASSUME NEW p \in Screen!Panels, NEW rs \in Seq(Screen!Records)
  PROVE  LET q == [p EXCEPT !.records = rs]
         IN /\ q \in Screen!Panels /\ q.records = rs
            /\ q.shown = p.shown /\ q.visible = p.visible /\ q.inspected = p.inspected
            /\ q.saved = p.saved /\ q.selected = p.selected
            /\ \A r : Screen!Matches(q, r) <=> Screen!Matches(p, r)
<1> DEFINE q == [p EXCEPT !.records = rs]
<1>1. /\ q \in Screen!Panels /\ q.records = rs
      /\ q.shown = p.shown /\ q.visible = p.visible /\ q.inspected = p.inspected
      /\ q.saved = p.saved /\ q.selected = p.selected
      /\ q.filter = p.filter /\ q.filtersOn = p.filtersOn
      /\ q.errors = p.errors /\ q.commands = p.commands
  BY DEF Screen!Panels
<1> HIDE DEF q
<1>2. \A r : Screen!Matches(q, r) <=> Screen!Matches(p, r)
  BY <1>1, MatchesAlike
<1> QED BY <1>1, <1>2 DEF q

(* An eviction leaves the display exact. *)
LEMMA EvictedOK ==
  ASSUME Screen!StreamConstants, NEW p, Good(p)
  PROVE  Good(Screen!Evicted(p))
<1>1. /\ p \in Screen!Panels /\ p.records \in Seq(Screen!Records) /\ p.shown \in Seq(Screen!Records)
      /\ Screen!InOrder(p.shown, p.records, Screen!Admitted(p)) /\ p.visible = Len(p.shown)
      /\ p.inspected \in Screen!ToSet(p.shown) \cup {Screen!Nothing}
      /\ p.selected \in Screen!Ids(p) \cup {"none"}
  BY DEF Good, Screen!Exact, Screen!Panels
<1>2. CASE Len(p.records) < MaxRecords
  BY <1>2 DEF Screen!Evicted
<1>3. CASE ~(Len(p.records) < MaxRecords)
  <2> DEFINE rs == p.records
             h == Head(rs)
             rest == Rest(rs, Screen!Admitted(p))
             f == IF Screen!Matches(p, h) THEN Screen!FirstRemoved(p) ELSE p
             e == [f EXCEPT !.records = Tail(rs)]
  <2>1. /\ rs # <<>> /\ h = rs[1] /\ Len(rs) \in Nat \ {0} /\ DOMAIN rs = 1..Len(rs)
        /\ Tail(rs) \in Seq(Screen!Records) /\ Len(Tail(rs)) = Len(rs) - 1
        /\ \A n \in 1..Len(rs) - 1 : Tail(rs)[n] = rs[n + 1]
    <3>1. Len(rs) \in Nat /\ Len(rs) # 0
      BY <1>1, <1>3, LenProperties DEF Screen!StreamConstants
    <3>2. rs # <<>>
      BY <3>1, EmptySeq
    <3> QED BY <1>1, <3>1, <3>2, LenProperties, HeadTailProperties
  <2>2. Screen!Admitted(p) \subseteq DOMAIN rs /\ (1 \in Screen!Admitted(p) <=> Screen!Matches(p, h))
    BY <2>1 DEF Screen!Admitted
  <2>3. /\ 1 \notin Screen!Admitted(p) => Screen!InOrder(p.shown, Tail(rs), rest)
        /\ 1 \in Screen!Admitted(p) => /\ p.shown # <<>>
                                /\ Screen!InOrder(Tail(p.shown), Tail(rs), rest)
    BY <1>1, <2>1, <2>2, InOrderLess
  <2>4. /\ f \in Screen!Panels /\ Alike(f, p) /\ Screen!InOrder(f.shown, Tail(rs), rest)
        /\ f.visible = Len(f.shown) /\ f.inspected \in Screen!ToSet(f.shown) \cup {Screen!Nothing}
    <3>1. CASE Screen!Matches(p, h)
      <4>1. p.shown # <<>> /\ Screen!InOrder(Tail(p.shown), Tail(rs), rest)
        BY <2>2, <2>3, <3>1
      <4> DEFINE g == Screen!FirstRemoved(p)
      <4>2. /\ g \in Screen!Panels /\ Alike(g, p) /\ g.shown = Tail(p.shown) /\ g.visible = p.visible - 1
            /\ g.inspected = IF p.inspected = Head(p.shown) THEN Screen!Nothing ELSE p.inspected
        BY <1>1, <4>1, FirstRemovedOK
      <4>3. g = f
        BY <3>1
      <4> HIDE DEF f, g, rest, rs
      <4>4. Len(Tail(p.shown)) = Len(p.shown) - 1
        BY <1>1, <4>1, HeadTailProperties
      <4>5. Screen!ToSet(p.shown) \subseteq Screen!ToSet(Tail(p.shown)) \cup {Head(p.shown)}
        BY <1>1, <4>1, InspectedStays
      <4>6. g.inspected \in Screen!ToSet(g.shown) \cup {Screen!Nothing}
        BY <1>1, <4>2, <4>5
      <4>7. Screen!InOrder(g.shown, Tail(rs), rest) /\ g.visible = Len(g.shown)
        BY <1>1, <4>1, <4>2, <4>4
      <4> QED BY <4>2, <4>3, <4>6, <4>7
    <3>2. CASE ~Screen!Matches(p, h)
      <4>1. f = p
        BY <3>2
      <4>2. Screen!InOrder(p.shown, Tail(rs), rest)
        BY <2>2, <2>3, <3>2
      <4>3. Alike(p, p)
        BY DEF Alike
      <4> HIDE DEF f, rest, rs
      <4> QED BY <1>1, <4>1, <4>2, <4>3
    <3> QED BY <3>1, <3>2
  <2>5. Screen!Evicted(p) = e
    <3>1. f.records = rs
      BY <2>4 DEF Alike
    <3> QED BY <1>3, <3>1 DEF Screen!Evicted
  <2> HIDE DEF f
  <2>6. /\ e \in Screen!Panels /\ e.records = Tail(rs)
        /\ e.shown = f.shown /\ e.visible = f.visible /\ e.inspected = f.inspected
        /\ e.saved = f.saved /\ e.selected = f.selected
        /\ \A r : Screen!Matches(e, r) <=> Screen!Matches(f, r)
    BY <2>1, <2>4, RecordsReplaced
  <2> HIDE DEF e
  <2>7. \A r : Screen!Matches(e, r) <=> Screen!Matches(p, r)
    BY <2>4, <2>6, MatchesAlike DEF Alike
  <2>8. Screen!Admitted(e) = rest
    <3>1. DOMAIN Tail(rs) = 1..Len(rs) - 1
      BY <2>1, LenProperties
    <3>2. Screen!Admitted(e) = {n \in 1..Len(rs) - 1 : Screen!Matches(p, Tail(rs)[n])}
      BY <2>6, <2>7, <3>1 DEF Screen!Admitted
    <3>3. \A n \in 1..Len(rs) - 1 : n + 1 \in DOMAIN rs /\ Tail(rs)[n] = rs[n + 1]
      BY <2>1
    <3>4. rest = {n \in 1..Len(rs) - 1 : n + 1 \in Screen!Admitted(p)}
      BY DEF Rest
    <3>5. \A n \in 1..Len(rs) - 1 : n + 1 \in Screen!Admitted(p) <=> Screen!Matches(p, Tail(rs)[n])
      BY <3>3 DEF Screen!Admitted
    <3> HIDE DEF rest, rs
    <3> QED BY <3>2, <3>4, <3>5
  <2>9. e.selected \in Screen!Ids(e) \cup {"none"}
    BY <1>1, <2>4, <2>6 DEF Alike, Screen!Ids
  <2> HIDE DEF rest, rs
  <2> QED BY <2>4, <2>5, <2>6, <2>8, <2>9 DEF Good, Screen!Exact
<1> QED BY <1>2, <1>3

(* A record that is kept is displayed if it matches. *)
LEMMA AppendRecordOK ==
  ASSUME Screen!StreamConstants, NEW p, Good(p), NEW r \in Screen!Records
  PROVE  Good(Screen!AppendRecord(p, r))
<1> DEFINE e == Screen!Evicted(p)
           rs == Append(e.records, r)
           kept == [e EXCEPT !.records = rs]
           n == Len(e.records) + 1
<1>1. Good(e)
  BY EvictedOK
<1>2. Screen!AppendRecord(p, r) = IF Screen!Matches(kept, r) THEN Screen!Rendered(kept, r) ELSE kept
  BY <1>1 DEF Screen!AppendRecord, Good, Screen!Panels
<1> HIDE DEF e
<1>3. /\ e \in Screen!Panels /\ e.records \in Seq(Screen!Records) /\ e.shown \in Seq(Screen!Records)
      /\ Screen!InOrder(e.shown, e.records, Screen!Admitted(e)) /\ e.visible = Len(e.shown)
      /\ e.inspected \in Screen!ToSet(e.shown) \cup {Screen!Nothing}
      /\ e.selected \in Screen!Ids(e) \cup {"none"}
  BY <1>1 DEF Good, Screen!Exact, Screen!Panels
<1>4. /\ n \in Nat \ {0} /\ DOMAIN e.records = 1..n - 1 /\ rs \in Seq(Screen!Records)
      /\ DOMAIN rs = (1..n - 1) \cup {n}
      /\ rs[n] = r /\ \A i \in 1..n - 1 : rs[i] = e.records[i]
  <2>1. Len(e.records) \in Nat /\ DOMAIN e.records = 1..Len(e.records)
    BY <1>3, LenProperties
  <2>2. rs \in Seq(Screen!Records) /\ Len(rs) = n /\ rs[n] = r /\ \A i \in 1..n - 1 : rs[i] = e.records[i]
    BY <1>3, <2>1, AppendProperties
  <2>3. DOMAIN rs = 1..n
    BY <2>2, LenProperties
  <2>4. n \in Nat \ {0} /\ n - 1 = Len(e.records) /\ 1..n = (1..n - 1) \cup {n}
    BY <2>1
  <2> QED BY <2>1, <2>2, <2>3, <2>4
<1>5. /\ kept \in Screen!Panels /\ kept.records = rs
      /\ kept.shown = e.shown /\ kept.visible = e.visible /\ kept.inspected = e.inspected
      /\ kept.saved = e.saved /\ kept.selected = e.selected
      /\ \A x : Screen!Matches(kept, x) <=> Screen!Matches(e, x)
  BY <1>3, <1>4, RecordsReplaced
<1> HIDE DEF kept, n, rs
<1>6. Screen!Admitted(e) = {i \in 1..n - 1 : Screen!Matches(e, e.records[i])}
  BY <1>4 DEF Screen!Admitted
<1>7. Screen!InOrder(e.shown, rs, Screen!Admitted(e))
  <2>1. \A i \in Screen!Admitted(e) : e.records[i] = rs[i]
    BY <1>4, <1>6
  <2> QED BY <1>3, <2>1, InOrderSame
<1>8. Screen!Admitted(kept) = IF Screen!Matches(kept, r) THEN Screen!Admitted(e) \cup {n} ELSE Screen!Admitted(e)
  <2>1. \A i \in 1..n - 1 : Screen!Matches(kept, rs[i]) <=> Screen!Matches(e, e.records[i])
    BY <1>4, <1>5
  <2>2. Screen!Admitted(kept) = {i \in (1..n - 1) \cup {n} : Screen!Matches(kept, rs[i])}
    BY <1>4, <1>5 DEF Screen!Admitted
  <2> QED BY <1>4, <1>6, <2>1, <2>2
<1>9. CASE ~Screen!Matches(kept, r)
  <2>1. kept.selected \in Screen!Ids(kept) \cup {"none"}
    BY <1>3, <1>5 DEF Screen!Ids
  <2> QED BY <1>2, <1>3, <1>5, <1>7, <1>8, <1>9, <2>1 DEF Good, Screen!Exact
<1>10. CASE Screen!Matches(kept, r)
  <2> DEFINE q == Screen!Rendered(kept, r)
  <2>1. /\ q \in Screen!Panels /\ Alike(q, kept)
        /\ q.shown = Append(kept.shown, r) /\ q.visible = kept.visible + 1
        /\ q.inspected \in {kept.inspected, r}
    BY <1>5, RenderedOK
  <2>2. Screen!AppendRecord(p, r) = q
    BY <1>2, <1>10
  <2> HIDE DEF q
  <2>3. Screen!InOrder(q.shown, rs, Screen!Admitted(e) \cup {n})
    <3>1. Screen!Admitted(e) \in SUBSET Nat /\ \A m \in Screen!Admitted(e) : m < n
      BY <1>4, <1>6
    <3>2. Screen!InOrder(Append(e.shown, rs[n]), rs, Screen!Admitted(e) \cup {n})
      BY <1>3, <1>4, <1>7, <3>1, InOrderMore
    <3> QED BY <1>4, <1>5, <2>1, <3>2
  <2>4. Screen!Admitted(q) = Screen!Admitted(e) \cup {n} /\ q.records = rs
    <3>1. q.records = rs /\ \A x : Screen!Matches(q, x) <=> Screen!Matches(kept, x)
      BY <1>5, <2>1, MatchesAlike DEF Alike
    <3>2. Screen!Admitted(q) = Screen!Admitted(kept)
      BY <1>5, <3>1 DEF Screen!Admitted
    <3> QED BY <1>8, <1>10, <3>1, <3>2
  <2>5. q.visible = Len(q.shown)
    <3>1. Len(Append(e.shown, r)) = Len(e.shown) + 1
      BY <1>3, AppendProperties
    <3> QED BY <1>3, <1>5, <2>1, <3>1
  <2>6. q.inspected \in Screen!ToSet(q.shown) \cup {Screen!Nothing}
    <3>1. Screen!ToSet(q.shown) = Screen!ToSet(e.shown) \cup {r}
      BY <1>3, <1>5, <2>1, InspectedStays
    <3> QED BY <1>3, <1>5, <2>1, <3>1
  <2>7. q.selected \in Screen!Ids(q) \cup {"none"}
    BY <1>3, <1>5, <2>1 DEF Screen!Ids, Alike
  <2> QED BY <2>1, <2>2, <2>3, <2>4, <2>5, <2>6, <2>7 DEF Good, Screen!Exact
<1> QED BY <1>9, <1>10

(* So do all that come with a poll. *)
LEMMA AppendRecordsOK ==
  ASSUME Screen!StreamConstants, NEW p, Good(p), NEW rs \in Seq(Screen!Records)
  PROVE  Good(Screen!AppendRecords(p, rs))
<1> DEFINE A == {q \in Screen!Panels : Good(q)}
           L == Len(rs)
           step == [n \in 1..L |-> [q \in A |-> Screen!AppendRecord(q, rs[n])]]
           whole(f) == [n \in 0..L |-> IF n = 0 THEN p ELSE Screen!AppendRecord(f[n - 1], rs[n])]
           after == CHOOSE f : f = whole(f)
<1>1. L \in Nat /\ p \in A /\ \A n \in 1..L : rs[n] \in Screen!Records
  BY LenProperties, ElementOfSeq DEF Good
<1>2. \A n \in 1..L, q \in A : Screen!AppendRecord(q, rs[n]) \in A
  <2> TAKE n \in 1..L, q \in A
  <2>1. Good(Screen!AppendRecord(q, rs[n]))
    BY <1>1, AppendRecordOK
  <2> QED BY <2>1 DEF Good
<1>3. \A n \in 1..L : step[n] = [q \in A |-> Screen!AppendRecord(q, rs[n])]
  OBVIOUS
<1>4. step \in [1..L -> [A -> A]]
  <2> HIDE DEF A, L
  <2> QED BY <1>2
<1>5. \E f : f = whole(f)
  <2>1. Loops(A, step, p, L)
    <3> HIDE DEF A, L, step
    <3> QED BY <1>1, <1>4, Iterates
  <2>2. PICK f \in [0..L -> A] : f[0] = p /\ \A n \in 1..L : f[n] = step[n][f[n - 1]]
    BY <2>1 DEF Loops
  <2>3. \A n \in 1..L : f[n] = Screen!AppendRecord(f[n - 1], rs[n])
    <3> TAKE n \in 1..L
    <3>1. f[n - 1] \in A
      BY <1>1, <2>2
    <3> HIDE DEF A, L, step
    <3> QED BY <1>3, <2>2, <3>1
  <2>4. f = whole(f)
    <3>1. \A n \in 0..L : n # 0 => n \in 1..L
      BY <1>1
    <3>2. \A n \in 0..L : f[n] = IF n = 0 THEN p ELSE Screen!AppendRecord(f[n - 1], rs[n])
      BY <2>2, <2>3, <3>1
    <3> HIDE DEF A, L
    <3> QED BY <2>2, <3>2
  <2> QED BY <2>4
<1>6. after = whole(after)
  <2> HIDE DEF whole
  <2> QED BY <1>5
<1>7. Screen!AppendRecords(p, rs) = after[L]
  BY DEF Screen!AppendRecords
<1> HIDE DEF after
<1>8. \A n \in 0..L : after[n] \in A
  <2> DEFINE N == {n \in Nat : after[n] \in A}
  <2>1. 0 \in N
    BY <1>1, <1>6
  <2>2. ASSUME NEW n \in 1..L, n - 1 \in N PROVE n \in N
    <3>1. after[n - 1] \in A /\ n \in Nat /\ n # 0 /\ n \in 0..L
      BY <1>1, <2>2
    <3>2. after[n] = Screen!AppendRecord(after[n - 1], rs[n])
      BY <1>6, <3>1
    <3> HIDE DEF A, L
    <3> QED BY <1>2, <3>1, <3>2
  <2> HIDE DEF N
  <2>3. \A n \in 0..L : n \in N
    BY <1>1, <2>1, <2>2, Inductive
  <2> QED BY <2>3 DEF N
<1>9. after[L] \in A
  <2> HIDE DEF A, L
  <2> QED BY <1>1, <1>8
<1> QED BY <1>7, <1>9

(* An empty display, under the filters of p. *)
LEMMA EmptiedOK ==
  ASSUME NEW p \in Screen!Panels
  PROVE  LET q == Screen!Emptied(p)
         IN q \in Screen!Panels /\ Alike(q, p) /\ q.shown = <<>> /\ q.visible = 0 /\ q.inspected = Screen!Nothing
<1> DEFINE q == Screen!Emptied(p)
<1>1. q = [p EXCEPT !.shown = <<>>, !.visible = 0, !.inspected = Screen!Nothing]
  BY DEF Screen!Emptied
<1>2. <<>> \in Seq(Screen!Records)
  BY EmptySeq
<1> HIDE DEF q
<1>3. q \in Screen!Panels /\ Alike(q, p) /\ q.shown = <<>> /\ q.visible = 0 /\ q.inspected = Screen!Nothing
  BY <1>1, <1>2 DEF Screen!Panels, Alike
<1> QED BY <1>3 DEF q

LEMMA InOrderNone == ASSUME NEW whole PROVE Screen!InOrder(<<>>, whole, {})
<1> DEFINE f == [i \in {} |-> i]
<1>1. DOMAIN <<>> = {}
  BY EmptySeq, LenProperties
<1>2. Selects(f, {}, <<>>, whole, {})
  BY DEF Selects
<1> QED BY <1>1, <1>2, InOrderBy

\* q displays what matches of the first n records of p.
Partly(q, p, n) ==
  /\ q \in Screen!Panels /\ Alike(q, p)
  /\ Screen!InOrder(q.shown, p.records, {i \in 1..n : Screen!Matches(p, p.records[i])})
  /\ q.visible = Len(q.shown) /\ q.inspected \in Screen!ToSet(q.shown) \cup {Screen!Nothing}

(* A round of rebuild. *)
LEMMA PartlyMore ==
  ASSUME NEW p \in Screen!Panels, NEW n \in 1..Len(p.records), NEW q, Partly(q, p, n - 1)
  PROVE  Partly(IF Screen!Matches(p, p.records[n]) THEN Screen!Rendered(q, p.records[n]) ELSE q, p, n)
<1> DEFINE r == p.records[n]
           some == {i \in 1..n - 1 : Screen!Matches(p, p.records[i])}
           more == {i \in 1..n : Screen!Matches(p, p.records[i])}
<1>1. /\ q \in Screen!Panels /\ Alike(q, p) /\ Screen!InOrder(q.shown, p.records, some)
      /\ q.visible = Len(q.shown) /\ q.inspected \in Screen!ToSet(q.shown) \cup {Screen!Nothing}
      /\ q.shown \in Seq(Screen!Records)
  BY DEF Partly, Screen!Panels
<1>2. p.records \in Seq(Screen!Records) /\ Len(p.records) \in Nat
  BY LenProperties DEF Screen!Panels
<1>3. r \in Screen!Records /\ n \in Nat \ {0} /\ \A i : i \in 1..n <=> i \in 1..n - 1 \/ i = n
  BY <1>2, ElementOfSeq
<1>4. CASE ~Screen!Matches(p, r)
  <2>1. more = some
    BY <1>3, <1>4
  <2> QED BY <1>1, <1>4, <2>1 DEF Partly
<1>5. CASE Screen!Matches(p, r)
  <2> DEFINE t == Screen!Rendered(q, r)
  <2>1. /\ t \in Screen!Panels /\ Alike(t, q)
        /\ t.shown = Append(q.shown, r) /\ t.visible = q.visible + 1
        /\ t.inspected \in {q.inspected, r}
    BY <1>1, <1>3, RenderedOK
  <2>2. more = some \cup {n}
    BY <1>3, <1>5
  <2>3. some \in SUBSET Nat /\ \A m \in some : m < n
    BY <1>3
  <2> HIDE DEF t, some, more
  <2>4. Screen!InOrder(Append(q.shown, r), p.records, some \cup {n})
    BY <1>1, <1>3, <2>3, InOrderMore
  <2>5. Len(t.shown) = Len(q.shown) + 1 /\ Screen!ToSet(t.shown) = Screen!ToSet(q.shown) \cup {r}
    BY <1>1, <1>3, <2>1, AppendProperties, InspectedStays
  <2>6. Alike(t, p)
    BY <1>1, <2>1 DEF Alike
  <2>7. t.inspected \in Screen!ToSet(t.shown) \cup {Screen!Nothing} /\ t.visible = Len(t.shown)
    BY <1>1, <2>1, <2>5
  <2>8. Partly(t, p, n)
    BY <2>1, <2>2, <2>4, <2>6, <2>7 DEF Partly, more
  <2> QED BY <1>5, <2>8 DEF t
<1> QED BY <1>4, <1>5

(* A display that is rebuilt is exact, whatever it was before. *)
LEMMA RebuiltOK ==
  ASSUME NEW p \in Screen!Panels, p.selected \in Screen!Ids(p) \cup {"none"}
  PROVE  Good(Screen!Rebuilt(p))
<1> DEFINE rs == p.records
           L == Len(rs)
           Round(q, n) == IF Screen!Matches(p, rs[n]) THEN Screen!Rendered(q, rs[n]) ELSE q
           step == [n \in 1..L |-> [q \in Screen!Panels |-> Round(q, n)]]
           whole(f) == [n \in 0..L |->
             IF n = 0 THEN Screen!Emptied(p)
             ELSE IF Screen!Matches(p, rs[n]) THEN Screen!Rendered(f[n - 1], rs[n]) ELSE f[n - 1]]
           after == CHOOSE f : f = whole(f)
<1>1. L \in Nat /\ DOMAIN rs = 1..L /\ \A n \in 1..L : rs[n] \in Screen!Records
  BY LenProperties, ElementOfSeq DEF Screen!Panels
<1>2. \A n \in 1..L, q \in Screen!Panels : Round(q, n) \in Screen!Panels
  BY <1>1, RenderedOK
<1>3. \A n \in 1..L : step[n] = [q \in Screen!Panels |-> Round(q, n)]
  OBVIOUS
<1>4. step \in [1..L -> [Screen!Panels -> Screen!Panels]]
  <2> HIDE DEF L, Round
  <2> QED BY <1>2
<1>5. Screen!Emptied(p) \in Screen!Panels
  BY EmptiedOK
<1>6. \E f : f = whole(f)
  <2>1. Loops(Screen!Panels, step, Screen!Emptied(p), L)
    <3> HIDE DEF L, step
    <3> QED BY <1>1, <1>4, <1>5, Iterates
  <2>2. PICK f \in [0..L -> Screen!Panels] : f[0] = Screen!Emptied(p) /\ \A n \in 1..L : f[n] = step[n][f[n - 1]]
    BY <2>1 DEF Loops
  <2>3. \A n \in 1..L : f[n] = Round(f[n - 1], n)
    <3> TAKE n \in 1..L
    <3>1. f[n - 1] \in Screen!Panels
      BY <1>1, <2>2
    <3> HIDE DEF L, step, Round
    <3> QED BY <1>3, <2>2, <3>1
  <2>4. f = whole(f)
    <3>1. \A n \in 0..L : n # 0 => n \in 1..L
      BY <1>1
    <3>2. \A n \in 0..L : f[n] = IF n = 0 THEN Screen!Emptied(p)
            ELSE IF Screen!Matches(p, rs[n]) THEN Screen!Rendered(f[n - 1], rs[n]) ELSE f[n - 1]
      BY <2>2, <2>3, <3>1
    <3> HIDE DEF L, rs
    <3> QED BY <2>2, <3>2
  <2> QED BY <2>4
<1>7. after = whole(after)
  <2> HIDE DEF whole
  <2> QED BY <1>6
<1>8. Screen!Rebuilt(p) = after[L]
  BY DEF Screen!Rebuilt
<1> HIDE DEF after
<1>9. \A n \in 0..L : Partly(after[n], p, n)
  <2> DEFINE N == {n \in Nat : Partly(after[n], p, n)}
  <2>1. 0 \in N
    <3>1. after[0] = Screen!Emptied(p)
      BY <1>1, <1>7
    <3> DEFINE q == Screen!Emptied(p)
    <3>2. q \in Screen!Panels /\ Alike(q, p) /\ q.shown = <<>> /\ q.visible = 0 /\ q.inspected = Screen!Nothing
      BY EmptiedOK
    <3> HIDE DEF q
    <3>3. {i \in 1..0 : Screen!Matches(p, p.records[i])} = {}
      OBVIOUS
    <3>4. Screen!InOrder(<<>>, p.records, {i \in 1..0 : Screen!Matches(p, p.records[i])})
      BY <3>3, InOrderNone
    <3>5. Len(<<>>) = 0
      BY EmptySeq
    <3>6. Partly(q, p, 0)
      BY <3>2, <3>4, <3>5 DEF Partly
    <3> QED BY <3>1, <3>6 DEF q
  <2>2. ASSUME NEW n \in 1..L, n - 1 \in N PROVE n \in N
    <3>1. Partly(after[n - 1], p, n - 1) /\ n \in Nat /\ n # 0 /\ n \in 0..L
      BY <1>1, <2>2
    <3>2. after[n] = IF Screen!Matches(p, rs[n]) THEN Screen!Rendered(after[n - 1], rs[n]) ELSE after[n - 1]
      BY <1>7, <3>1
    <3>3. Partly(after[n], p, n)
      BY <3>1, <3>2, PartlyMore
    <3> QED BY <3>1, <3>3
  <2> HIDE DEF N
  <2>3. \A n \in 0..L : n \in N
    BY <1>1, <2>1, <2>2, Inductive
  <2> QED BY <2>3 DEF N
<1> DEFINE q == Screen!Rebuilt(p)
<1>10. Partly(q, p, L)
  <2>1. L \in 0..L
    BY <1>1
  <2> HIDE DEF L
  <2> QED BY <1>8, <1>9, <2>1
<1> HIDE DEF q
<1>11. /\ q \in Screen!Panels /\ Alike(q, p) /\ q.records = rs
       /\ q.visible = Len(q.shown) /\ q.inspected \in Screen!ToSet(q.shown) \cup {Screen!Nothing}
       /\ Screen!InOrder(q.shown, rs, {i \in 1..L : Screen!Matches(p, rs[i])})
  BY <1>10 DEF Partly, Alike
<1>12. Screen!Admitted(q) = {i \in 1..L : Screen!Matches(p, rs[i])}
  <2>1. \A r : Screen!Matches(q, r) <=> Screen!Matches(p, r)
    BY <1>11, MatchesAlike DEF Alike
  <2> HIDE DEF rs, L
  <2> QED BY <1>1, <1>11, <2>1 DEF Screen!Admitted
<1>13. q.selected \in Screen!Ids(q) \cup {"none"}
  BY <1>11 DEF Alike, Screen!Ids
<1>14. Good(q)
  <2> HIDE DEF rs, L
  <2> QED BY <1>11, <1>12, <1>13 DEF Good, Screen!Exact
<1> QED BY <1>14 DEF q

(* What a panel displays is exact as long as neither its display, its records *)
(* nor the filters applied change.                                            *)
LEMMA SameDisplay ==
  ASSUME NEW p, Good(p), NEW q \in Screen!Panels,
         q.records = p.records, q.shown = p.shown, q.visible = p.visible,
         q.filter = p.filter, q.filtersOn = p.filtersOn,
         q.errors = p.errors, q.commands = p.commands,
         q.inspected \in Screen!ToSet(p.shown) \cup {Screen!Nothing}, q.selected \in Screen!Ids(q) \cup {"none"}
  PROVE  Good(q)
<1>1. Screen!Admitted(q) = Screen!Admitted(p)
  BY MatchesAlike DEF Screen!Admitted
<1> QED BY <1>1 DEF Good, Screen!Exact

(* A selection that is not empty has something of what was selected. *)
LEMMA ThoseFirst ==
  ASSUME NEW T, NEW s \in Seq(T), NEW places, places \subseteq DOMAIN s
  PROVE  /\ Screen!Those(s, places) \in Seq(T)
         /\ \A i \in DOMAIN Screen!Those(s, places) : \E n \in places : Screen!Those(s, places)[i] = s[n]
         /\ Screen!Those(s, places) # <<>> => 1 \in DOMAIN Screen!Those(s, places)
<1> DEFINE S == {s[n] : n \in places}
           part == Screen!Those(s, places)
<1>1. part \in Seq(S)
  BY ThoseOK
<1>2. S \subseteq T
  BY LenProperties, ElementOfSeq
<1> HIDE DEF part
<1>3. part \in Seq(T)
  <2> HIDE DEF S
  <2> QED BY <1>1, <1>2, SeqMonotonic
<1>4. \A i \in DOMAIN part : part[i] \in S
  <2> HIDE DEF S
  <2> QED BY <1>1, LenProperties, ElementOfSeq
<1>5. part # <<>> => 1 \in DOMAIN part
  <2> HIDE DEF S
  <2>1. DOMAIN part = 1..Len(part) /\ (part # <<>> => Len(part) \in Nat \ {0})
    BY <1>1, LenProperties, EmptySeq
  <2> QED BY <2>1
<1> QED BY <1>3, <1>4, <1>5 DEF part

Saved == [id : FilterIds, text : DOMAIN Expressions]

(* Applying a filter selects a saved one of its expression, or none. *)
LEMMA AppliedOK ==
  ASSUME NEW p \in Screen!Panels, Screen!Compiles(p)
  PROVE  Good(Screen!Applied(p))
<1> DEFINE places == {i \in DOMAIN p.saved : p.saved[i].text = p.draft}
           same == Screen!SavedAs(p, p.draft)
           chosen == IF \E i \in DOMAIN same : same[i].id = p.selected THEN p.selected
                     ELSE IF same = <<>> THEN "none" ELSE same[1].id
           q == [p EXCEPT !.filter = p.draft, !.selected = chosen]
<1>1. p.saved \in Seq(Saved)
  BY DEF Screen!Panels, Saved
<1>2. /\ \A i \in DOMAIN same : \E n \in places : same[i] = p.saved[n]
      /\ same # <<>> => 1 \in DOMAIN same
  <2>1. places \subseteq DOMAIN p.saved /\ same = Screen!Those(p.saved, places)
    BY DEF Screen!SavedAs
  <2> HIDE DEF places, same
  <2>2. /\ \A i \in DOMAIN same : \E n \in places : same[i] = p.saved[n]
        /\ same # <<>> => 1 \in DOMAIN same
    BY <1>1, <2>1, ThoseFirst
  <2> QED BY <2>2
<1>3. \A n \in DOMAIN p.saved : p.saved[n].id \in Screen!Ids(p) /\ p.saved[n].id \in FilterIds
  <2> TAKE n \in DOMAIN p.saved
  <2>1. p.saved[n] \in Saved
    BY <1>1, LenProperties, ElementOfSeq
  <2> QED BY <2>1 DEF Screen!Ids, Saved
<1>4. \A i \in DOMAIN same : same[i].id \in Screen!Ids(p) /\ same[i].id \in FilterIds
  <2> HIDE DEF same
  <2> QED BY <1>2, <1>3
<1>5. chosen \in Screen!Ids(p) \cup {"none"} /\ chosen \in FilterIds \cup {"none"}
  <2> HIDE DEF same
  <2>1. CASE \E i \in DOMAIN same : same[i].id = p.selected
    BY <1>4, <2>1
  <2>2. CASE ~\E i \in DOMAIN same : same[i].id = p.selected
    BY <1>2, <1>4, <2>2
  <2> QED BY <2>1, <2>2
<1>6. Screen!Applied(p) = Screen!Rebuilt(q)
  BY DEF Screen!Applied
<1> HIDE DEF chosen
<1>7. q \in Screen!Panels /\ q.saved = p.saved /\ q.selected = chosen
  BY <1>5 DEF Screen!Panels, Screen!Texts, Screen!Compiles
<1>8. q.selected \in Screen!Ids(q) \cup {"none"}
  BY <1>5, <1>7 DEF Screen!Ids
<1> QED BY <1>6, <1>7, <1>8, RebuiltOK

(* The inductive invariant, of a step that changes the panel alone. *)
LEMMA ChangesOK ==
  ASSUME Screen!StreamInv, NEW q, Screen!Changes(q), Good(q)
  PROVE  Screen!StreamInv'
BY DEF Screen!StreamInv, Screen!Changes, Good, Screen!DisplayExact, Screen!Exact, Screen!Admitted, Screen!Matches, Screen!Ids

(* The choices and the filters. *)
LEMMA FiltersOK ==
  ASSUME Screen!StreamInv, Screen!SetView \/ Screen!Type \/ Screen!ApplyFilter \/ Screen!ShowFilters \/ Screen!SaveFilter \/ Screen!DeleteFilter \/ Screen!ChooseFilter
  PROVE  Screen!StreamInv'
<1> DEFINE p == v7
<1>1. p \in Screen!Panels /\ Good(p) /\ p.selected \in Screen!Ids(p) \cup {"none"} /\ p.saved \in Seq(Saved)
      /\ p.inspected \in Screen!ToSet(p.shown) \cup {Screen!Nothing}
  BY DEF Screen!StreamInv, Screen!DisplayExact, Good, Screen!Exact, Screen!Panels, Saved
<1>2. CASE Screen!SetView
  <2>1. ASSUME NEW e \in {"with", "only", "none"}, Screen!Changes(Screen!Rebuilt([p EXCEPT !.errors = e]))
        PROVE  Screen!StreamInv'
    <3> DEFINE q == [p EXCEPT !.errors = e]
    <3>1. q \in Screen!Panels /\ q.selected = p.selected /\ q.saved = p.saved
      BY <1>1 DEF Screen!Panels
    <3> HIDE DEF q
    <3>2. q.selected \in Screen!Ids(q) \cup {"none"}
      BY <1>1, <3>1 DEF Screen!Ids
    <3>3. Good(Screen!Rebuilt(q))
      BY <3>1, <3>2, RebuiltOK
    <3> QED BY <2>1, <3>3, ChangesOK DEF q
  <2>2. ASSUME NEW c \in {"with", "only", "none"}, Screen!Changes(Screen!Rebuilt([p EXCEPT !.commands = c]))
        PROVE  Screen!StreamInv'
    <3> DEFINE q == [p EXCEPT !.commands = c]
    <3>1. q \in Screen!Panels /\ q.selected = p.selected /\ q.saved = p.saved
      BY <1>1 DEF Screen!Panels
    <3> HIDE DEF q
    <3>2. q.selected \in Screen!Ids(q) \cup {"none"}
      BY <1>1, <3>1 DEF Screen!Ids
    <3>3. Good(Screen!Rebuilt(q))
      BY <3>1, <3>2, RebuiltOK
    <3> QED BY <2>2, <3>3, ChangesOK DEF q
  <2> QED BY <1>2, <2>1, <2>2 DEF Screen!SetView
<1>3. CASE Screen!Type
  <2>1. PICK text \in Screen!Texts : Screen!Changes([p EXCEPT !.draft = text, !.selected = "none"])
    BY <1>3 DEF Screen!Type, Screen!Texts
  <2> DEFINE q == [p EXCEPT !.draft = text, !.selected = "none"]
  <2>2. /\ q \in Screen!Panels /\ q.records = p.records /\ q.shown = p.shown /\ q.visible = p.visible
        /\ q.filter = p.filter /\ q.filtersOn = p.filtersOn /\ q.errors = p.errors
        /\ q.commands = p.commands /\ q.inspected = p.inspected /\ q.selected = "none"
    BY <1>1 DEF Screen!Panels
  <2> HIDE DEF q
  <2>3. Good(q)
    BY <1>1, <2>2, SameDisplay
  <2> QED BY <2>1, <2>3, ChangesOK DEF q
<1>4. CASE Screen!ApplyFilter
  BY <1>1, <1>4, AppliedOK, ChangesOK DEF Screen!ApplyFilter
<1>5. CASE Screen!ShowFilters
  <2> DEFINE q == [p EXCEPT !.filtersOn = ~p.filtersOn]
  <2>1. Screen!Changes(IF q.filtersOn /\ Screen!Compiles(q) THEN Screen!Applied(q) ELSE Screen!Rebuilt(q))
    BY <1>5 DEF Screen!ShowFilters
  <2>2. q \in Screen!Panels /\ q.selected = p.selected /\ q.saved = p.saved
    BY <1>1 DEF Screen!Panels
  <2> HIDE DEF q
  <2>3. q.selected \in Screen!Ids(q) \cup {"none"}
    BY <1>1, <2>2 DEF Screen!Ids
  <2>4. Good(Screen!Rebuilt(q)) /\ (Screen!Compiles(q) => Good(Screen!Applied(q)))
    BY <2>2, <2>3, RebuiltOK, AppliedOK
  <2>5. CASE q.filtersOn /\ Screen!Compiles(q)
    BY <2>1, <2>4, <2>5, ChangesOK
  <2>6. CASE ~(q.filtersOn /\ Screen!Compiles(q))
    BY <2>1, <2>4, <2>6, ChangesOK
  <2> QED BY <2>5, <2>6
<1>6. CASE Screen!SaveFilter
  <2>1. PICK id \in FilterIds :
          Screen!Changes([p EXCEPT !.saved = Append(p.saved, [id |-> id, text |-> p.draft]), !.selected = id])
    BY <1>6 DEF Screen!SaveFilter
  <2> DEFINE new == [id |-> id, text |-> p.draft]
             more == Append(p.saved, new)
             q == [p EXCEPT !.saved = more, !.selected = id]
  <2>2. new \in Saved /\ new.id = id
    BY <1>6 DEF Screen!SaveFilter, Screen!Compiles, Saved
  <2> HIDE DEF new
  <2>3. more \in Seq(Saved) /\ Len(more) = Len(p.saved) + 1 /\ more[Len(p.saved) + 1] = new
    BY <1>1, <2>2, AppendProperties
  <2>4. Len(p.saved) + 1 \in DOMAIN more
    BY <1>1, <2>3, LenProperties
  <2> HIDE DEF more
  <2>5. /\ q \in Screen!Panels /\ q.records = p.records /\ q.shown = p.shown /\ q.visible = p.visible
        /\ q.filter = p.filter /\ q.filtersOn = p.filtersOn /\ q.errors = p.errors
        /\ q.commands = p.commands /\ q.inspected = p.inspected /\ q.selected = id /\ q.saved = more
    BY <1>1, <2>3 DEF Screen!Panels, Saved
  <2> HIDE DEF q
  <2>6. id \in Screen!Ids(q)
    BY <2>2, <2>3, <2>4, <2>5 DEF Screen!Ids
  <2>7. Good(q)
    BY <1>1, <2>5, <2>6, SameDisplay
  <2> QED BY <2>1, <2>7, ChangesOK DEF q, more, new
<1>7. CASE Screen!DeleteFilter
  <2> DEFINE rest == Screen!Those(p.saved, {i \in DOMAIN p.saved : p.saved[i].id # p.selected})
             q == [p EXCEPT !.saved = rest, !.selected = "none"]
  <2>1. Screen!Changes(q)
    BY <1>7 DEF Screen!DeleteFilter
  <2>2. rest \in Seq(Saved)
    BY <1>1, ThoseFirst
  <2> HIDE DEF rest
  <2>3. /\ q \in Screen!Panels /\ q.records = p.records /\ q.shown = p.shown /\ q.visible = p.visible
        /\ q.filter = p.filter /\ q.filtersOn = p.filtersOn /\ q.errors = p.errors
        /\ q.commands = p.commands /\ q.inspected = p.inspected /\ q.selected = "none"
    BY <1>1, <2>2 DEF Screen!Panels, Saved
  <2> HIDE DEF q
  <2>4. Good(q)
    BY <1>1, <2>3, SameDisplay
  <2> QED BY <2>1, <2>4, ChangesOK
<1>8. CASE Screen!ChooseFilter
  <2>1. PICK i \in DOMAIN p.saved :
          Screen!Changes(Screen!Applied([p EXCEPT !.selected = p.saved[i].id, !.draft = p.saved[i].text]))
    BY <1>8 DEF Screen!ChooseFilter
  <2>2. p.saved[i].id \in FilterIds /\ p.saved[i].text \in DOMAIN Expressions
    <3>1. p.saved[i] \in Saved
      BY <1>1, LenProperties, ElementOfSeq
    <3> QED BY <3>1 DEF Saved
  <2> DEFINE q == [p EXCEPT !.selected = p.saved[i].id, !.draft = p.saved[i].text]
  <2>3. q \in Screen!Panels /\ q.draft = p.saved[i].text
    BY <1>1, <2>2 DEF Screen!Panels, Screen!Texts
  <2> HIDE DEF q
  <2>4. Good(Screen!Applied(q))
    BY <2>2, <2>3, AppliedOK DEF Screen!Compiles
  <2> QED BY <2>1, <2>4, ChangesOK DEF q
<1> QED BY <1>2, <1>3, <1>4, <1>5, <1>6, <1>7, <1>8

LEMMA ManageOK ==
  ASSUME Screen!StreamInv, Screen!ManageFilters
  PROVE  Screen!StreamInv'
<1>1. /\ v7 \in Screen!Panels /\ Good(v7) /\ v7.saved \in Seq(Saved)
      /\ v7.inspected \in Screen!ToSet(v7.shown) \cup {Screen!Nothing}
  BY DEF Screen!StreamInv, Screen!DisplayExact, Good, Screen!Exact, Screen!Panels, Saved
<1>2. PICK i \in DOMAIN v7.saved, text \in DOMAIN Expressions \cup {"removed"} :
       LET p == [v7 EXCEPT !.saved = IF text = "removed" THEN Screen!RemoveAt(@, i)
                                        ELSE [@ EXCEPT ![i].text = text]]
           own == Screen!Those(p.saved, {j \in DOMAIN p.saved : p.saved[j].id = p.selected})
           q == [p EXCEPT !.draft = own[1].text]
       IN Screen!Changes(CASE own = <<>> -> [p EXCEPT !.selected = "none"]
                    [] own # <<>> /\ p.draft # p.filter -> p
                    [] OTHER -> Screen!Applied(q))
  BY DEF Screen!ManageFilters
<1> DEFINE now == IF text = "removed" THEN Screen!RemoveAt(v7.saved, i)
                  ELSE [v7.saved EXCEPT ![i].text = text]
           p == [v7 EXCEPT !.saved = now]
           places == {j \in DOMAIN p.saved : p.saved[j].id = p.selected}
           own == Screen!Those(p.saved, places)
           q == [p EXCEPT !.draft = own[1].text]
           none == [p EXCEPT !.selected = "none"]
<1>3. now \in Seq(Saved)
  <2>1. DOMAIN v7.saved = 1..Len(v7.saved) /\ Len(v7.saved) \in Nat
        /\ \A j \in 1..Len(v7.saved) : v7.saved[j] \in Saved
    BY <1>1, LenProperties, ElementOfSeq
  <2>2. Screen!RemoveAt(v7.saved, i) \in Seq(Saved)
    <3>1. SubSeq(v7.saved, 1, i - 1) \in Seq(Saved)
          /\ SubSeq(v7.saved, i + 1, Len(v7.saved)) \in Seq(Saved)
      BY <2>1, SubSeqProperties
    <3> QED BY <3>1, ConcatProperties DEF Screen!RemoveAt
  <2>3. ASSUME text # "removed" PROVE [v7.saved EXCEPT ![i].text = text] \in Seq(Saved)
    <3> DEFINE one == [v7.saved[i] EXCEPT !.text = text]
    <3>1. one \in Saved
      BY <2>1, <2>3 DEF Saved
    <3>2. [v7.saved EXCEPT ![i].text = text] = [v7.saved EXCEPT ![i] = one]
      OBVIOUS
    <3> HIDE DEF one
    <3> QED BY <1>1, <2>1, <3>1, <3>2, ExceptSeq
  <2> QED BY <2>2, <2>3
<1>4. Screen!Changes(CASE own = <<>> -> none [] own # <<>> /\ p.draft # p.filter -> p [] OTHER -> Screen!Applied(q))
  BY <1>2
<1> HIDE DEF now
<1>5. /\ p \in Screen!Panels /\ p.saved = now /\ p.selected = v7.selected
      /\ p.records = v7.records /\ p.shown = v7.shown /\ p.visible = v7.visible
      /\ p.filter = v7.filter /\ p.filtersOn = v7.filtersOn /\ p.errors = v7.errors
      /\ p.commands = v7.commands /\ p.inspected = v7.inspected
  BY <1>1, <1>3 DEF Screen!Panels, Saved
<1>6. /\ none \in Screen!Panels /\ none.selected = "none"
      /\ none.records = v7.records /\ none.shown = v7.shown /\ none.visible = v7.visible
      /\ none.filter = v7.filter /\ none.filtersOn = v7.filtersOn /\ none.errors = v7.errors
      /\ none.commands = v7.commands /\ none.inspected = v7.inspected
  <2> HIDE DEF p
  <2> QED BY <1>5 DEF Screen!Panels
<1> HIDE DEF p
<1>7. /\ \A j \in DOMAIN own : \E n \in places : own[j] = p.saved[n]
      /\ own # <<>> => 1 \in DOMAIN own
  <2>1. places \subseteq DOMAIN p.saved
    OBVIOUS
  <2> HIDE DEF places
  <2> QED BY <1>3, <1>5, <2>1, ThoseFirst
<1>8. CASE own = <<>>
  <2>1. Screen!Changes(none)
    <3> HIDE DEF own, none
    <3> QED BY <1>4, <1>8
  <2> HIDE DEF none
  <2>2. Good(none)
    BY <1>1, <1>6, SameDisplay
  <2> QED BY <2>1, <2>2, ChangesOK
<1>9. CASE own # <<>>
  <2>1. PICK n \in DOMAIN p.saved : p.saved[n].id = p.selected /\ own[1] = p.saved[n]
    <3>1. 1 \in DOMAIN own
      BY <1>7, <1>9
    <3>2. \E n \in places : own[1] = p.saved[n]
      BY <1>7, <3>1
    <3> HIDE DEF own
    <3> QED BY <3>2
  <2>2. p.saved[n] \in Saved
    BY <1>3, <1>5, LenProperties, ElementOfSeq
  <2>3. p.selected \in Screen!Ids(p)
    BY <2>1 DEF Screen!Ids
  <2> HIDE DEF own
  <2>4. CASE p.draft # p.filter
    <3>1. Screen!Changes(p)
      BY <1>4, <1>9, <2>4
    <3>2. Good(p)
      BY <1>1, <1>5, <2>3, SameDisplay
    <3> QED BY <3>1, <3>2, ChangesOK
  <2>5. CASE p.draft = p.filter
    <3>1. Screen!Changes(Screen!Applied(q))
      BY <1>4, <1>9, <2>5
    <3>2. own[1].text \in DOMAIN Expressions
      BY <2>1, <2>2 DEF Saved
    <3>3. q \in Screen!Panels /\ q.draft = own[1].text
      BY <1>5, <3>2 DEF Screen!Panels, Screen!Texts
    <3> HIDE DEF q
    <3>4. Good(Screen!Applied(q))
      BY <3>2, <3>3, AppliedOK DEF Screen!Compiles
    <3> QED BY <3>1, <3>4, ChangesOK
  <2> QED BY <2>4, <2>5
<1> QED BY <1>8, <1>9

(* The inspector. *)
LEMMA InspectOK ==
  ASSUME Screen!StreamInv, Screen!Inspect \/ Screen!ShowInspector \/ Screen!Redisplay
  PROVE  Screen!StreamInv'
<1> DEFINE p == v7
<1>1. p \in Screen!Panels /\ Good(p) /\ p.selected \in Screen!Ids(p) \cup {"none"} /\ p.shown \in Seq(Screen!Records)
  BY DEF Screen!StreamInv, Screen!DisplayExact, Good, Screen!Exact, Screen!Panels
<1>2. ASSUME NEW r, r \in Screen!ToSet(p.shown) \cup {Screen!Nothing}, NEW a \in BOOLEAN, NEW b \in BOOLEAN
      PROVE  Good([p EXCEPT !.inspecting = a, !.automatic = b, !.inspected = r])
  <2> DEFINE q == [p EXCEPT !.inspecting = a, !.automatic = b, !.inspected = r]
  <2>1. r \in Screen!Records \cup {Screen!Nothing}
    BY <1>1, <1>2, InspectedStays
  <2>2. /\ q \in Screen!Panels /\ q.records = p.records /\ q.shown = p.shown /\ q.visible = p.visible
        /\ q.filter = p.filter /\ q.filtersOn = p.filtersOn /\ q.errors = p.errors
        /\ q.commands = p.commands /\ q.inspected = r /\ q.selected = p.selected /\ q.saved = p.saved
    BY <1>1, <2>1 DEF Screen!Panels
  <2> HIDE DEF q
  <2>3. q.selected \in Screen!Ids(q) \cup {"none"}
    BY <1>1, <2>2 DEF Screen!Ids
  <2>4. Good(q)
    BY <1>1, <1>2, <2>2, <2>3, SameDisplay
  <2> QED BY <2>4 DEF q
<1>3. p.inspecting \in BOOLEAN /\ p.automatic \in BOOLEAN
      /\ p = [p EXCEPT !.inspecting = p.inspecting, !.automatic = p.automatic]
  BY <1>1 DEF Screen!Panels
<1>4. ASSUME NEW r, r \in Screen!ToSet(p.shown) \cup {Screen!Nothing} PROVE Good([p EXCEPT !.inspected = r])
  <2>1. Good([p EXCEPT !.inspecting = p.inspecting, !.automatic = p.automatic, !.inspected = r])
    BY <1>2, <1>3, <1>4
  <2>2. [p EXCEPT !.inspecting = p.inspecting, !.automatic = p.automatic, !.inspected = r]
        = [p EXCEPT !.inspected = r]
    BY <1>1 DEF Screen!Panels
  <2> QED BY <2>1, <2>2
<1>5. CASE Screen!Inspect
  <2>1. PICK r \in Screen!ToSet(p.shown) : Screen!Changes([p EXCEPT !.inspected = r])
    BY <1>5 DEF Screen!Inspect
  <2> QED BY <1>4, <2>1, ChangesOK
<1>6. CASE Screen!ShowInspector
  <2>1. Screen!Changes([p EXCEPT !.inspecting = ~p.inspecting, !.automatic = FALSE, !.inspected = Screen!Nothing])
    BY <1>6 DEF Screen!ShowInspector
  <2>2. Good([p EXCEPT !.inspecting = ~p.inspecting, !.automatic = FALSE, !.inspected = Screen!Nothing])
    BY <1>2, <1>3
  <2> QED BY <2>1, <2>2, ChangesOK
<1>7. CASE Screen!Redisplay
  <2> DEFINE r == IF p.inspecting /\ p.automatic THEN Head(p.shown) ELSE Screen!Nothing
  <2>1. Screen!Changes([p EXCEPT !.inspected = r])
    BY <1>7 DEF Screen!Redisplay
  <2>2. r \in Screen!ToSet(p.shown) \cup {Screen!Nothing}
    BY <1>1, <1>7, InspectedStays DEF Screen!Redisplay
  <2> HIDE DEF r
  <2>3. Good([p EXCEPT !.inspected = r])
    BY <1>4, <2>2
  <2> QED BY <2>1, <2>3, ChangesOK
<1> QED BY <1>5, <1>6, <1>7

(* Logger and polls. *)
LEMMA RecordsOK ==
  ASSUME Screen!StreamConstants, Screen!StreamInv, Screen!Write \/ Screen!Relaunch \/ Screen!Poll \/ Screen!Answer \/ Screen!Show \/ Screen!ClearDisplay
  PROVE  Screen!StreamInv'
<1>1. /\ v1 \in Nat \ {0} /\ v3 \in Nat
      /\ v2 \in Seq(Screen!Records) /\ v5.records \in Seq(Screen!Records)
      /\ v5 = [at |-> v5.at, after |-> v5.after, records |-> v5.records]
      /\ v7 \in Screen!Panels /\ Screen!Exact(v7) /\ Good(v7)
  BY DEF Screen!StreamInv, Screen!DisplayExact, Good
<1>2. <<>> \in Seq(Screen!Records)
  BY EmptySeq
<1>3. CASE Screen!Write
  <2> DEFINE r == [life |-> v1, seq |-> v3']
             more == Append(v2, r)
  <2>1. r \in Screen!Records /\ v3' \in Nat
    BY <1>1, <1>3 DEF Screen!Write, Screen!Records
  <2>2. more \in Seq(Screen!Records) /\ Len(more) \in Nat /\ \A n \in 1..Len(more) : more[n] \in Screen!Records
    <3> HIDE DEF r
    <3> QED BY <1>1, <2>1, AppendProperties, LenProperties, ElementOfSeq
  <2> HIDE DEF more
  <2>3. Screen!Newest(more, Capacity) \in Seq(Screen!Records)
    <3> DEFINE m == IF Len(more) > Capacity THEN Len(more) - Capacity + 1 ELSE 1
    <3>1. m \in Nat \ {0}
      BY <2>2 DEF Screen!StreamConstants
    <3>2. \A n \in m..Len(more) : more[n] \in Screen!Records
      BY <2>2, <3>1
    <3> HIDE DEF m
    <3>3. SubSeq(more, m, Len(more)) \in Seq(Screen!Records)
      BY <2>2, <3>1, <3>2, SubSeqProperties
    <3> QED BY <3>3 DEF Screen!Newest, m
  <2>4. v2' \in Seq(Screen!Records)
    BY <1>3, <2>3 DEF Screen!Write, more
  <2> QED BY <1>1, <1>3, <2>1, <2>4 DEF Screen!Write, Screen!StreamInv, Screen!DisplayExact, Screen!Exact, Screen!Admitted, Screen!Matches, Screen!Ids
<1>4. CASE Screen!Relaunch
  BY <1>1, <1>2, <1>4 DEF Screen!Relaunch, Screen!StreamInv, Screen!DisplayExact, Screen!Exact, Screen!Admitted, Screen!Matches, Screen!Ids
<1>5. CASE Screen!Poll
  BY <1>1, <1>2, <1>5 DEF Screen!Poll, Screen!StreamInv, Screen!DisplayExact, Screen!Exact, Screen!Admitted, Screen!Matches, Screen!Ids
<1>6. CASE Screen!Answer
  <2>1. PICK rs \in {Screen!Snapshot(v5.after), <<>>} : v5' = [v5 EXCEPT !.at = "done", !.records = rs]
    BY <1>6 DEF Screen!Answer
  <2>2. Screen!Snapshot(v5.after) \in Seq(Screen!Records)
    <3>1. \A k : Screen!Those(v2, {i \in DOMAIN v2 : v2[i].seq > k}) \in Seq(Screen!Records)
      BY <1>1, ThoseFirst
    <3> QED BY <3>1 DEF Screen!Snapshot
  <2>3. rs \in Seq(Screen!Records)
    BY <1>2, <2>1, <2>2
  <2>4. v5' = [at |-> "done", after |-> v5.after, records |-> rs]
    BY <1>1, <2>1
  <2> QED BY <1>1, <1>6, <2>3, <2>4 DEF Screen!Answer, Screen!StreamInv, Screen!DisplayExact, Screen!Exact, Screen!Admitted, Screen!Matches, Screen!Ids
<1>7. CASE Screen!Show
  <2> DEFINE q == Screen!AppendRecords(v7, v5.records)
  <2>1. Good(q)
    BY <1>1, AppendRecordsOK
  <2>2. v7' = q /\ v5' = Screen!Idle /\ UNCHANGED <<v1, v2, v3>>
    BY <1>7 DEF Screen!Show
  <2> HIDE DEF q
  <2>3. v7' \in Screen!Panels /\ Screen!Exact(v7)'
    BY <2>1, <2>2 DEF Good, Screen!Exact, Screen!Admitted, Screen!Matches, Screen!Ids
  <2> QED BY <1>1, <1>2, <2>2, <2>3 DEF Screen!StreamInv, Screen!DisplayExact, Screen!Idle
<1>8. CASE Screen!ClearDisplay
  <2> DEFINE e == Screen!Emptied(v7)
             q == [e EXCEPT !.records = <<>>]
  <2>1. e \in Screen!Panels /\ Alike(e, v7) /\ e.shown = <<>> /\ e.visible = 0 /\ e.inspected = Screen!Nothing
    BY <1>1, EmptiedOK
  <2> HIDE DEF e
  <2>2. /\ q \in Screen!Panels /\ q.records = <<>> /\ q.shown = <<>> /\ q.visible = 0
        /\ q.inspected = Screen!Nothing /\ q.saved = e.saved /\ q.selected = e.selected
    BY <1>2, <2>1 DEF Screen!Panels
  <2>3. v7' = q /\ v2' \in {v2, <<>>} /\ UNCHANGED <<v1, v3, v5>>
    BY <1>8 DEF Screen!ClearDisplay, e
  <2> HIDE DEF q
  <2>4. Good(q)
    <3>1. DOMAIN q.records = {}
      BY <2>2
    <3>2. Screen!Admitted(q) = {}
      BY <3>1 DEF Screen!Admitted
    <3>3. Screen!InOrder(q.shown, q.records, Screen!Admitted(q))
      BY <2>2, <3>2, InOrderNone
    <3>4. q.visible = Len(q.shown)
      BY <2>2, EmptySeq
    <3>5. q.selected \in Screen!Ids(q) \cup {"none"}
      BY <1>1, <2>1, <2>2 DEF Screen!Exact, Screen!Ids, Alike
    <3> QED BY <2>2, <3>3, <3>4, <3>5 DEF Good, Screen!Exact
  <2>5. v7' \in Screen!Panels /\ Screen!Exact(v7)'
    BY <2>3, <2>4 DEF Good, Screen!Exact, Screen!Admitted, Screen!Matches, Screen!Ids
  <2> QED BY <1>1, <1>2, <2>3, <2>5 DEF Screen!StreamInv, Screen!DisplayExact
<1> QED BY <1>3, <1>4, <1>5, <1>6, <1>7, <1>8

LEMMA StreamInitOK == Screen!StreamConstants /\ Screen!StreamInit => Screen!StreamInv
<1> SUFFICES ASSUME Screen!StreamConstants, Screen!StreamInit PROVE Screen!StreamInv
  OBVIOUS
<1>1. <<>> \in Seq(Screen!Records) /\ <<>> \in Seq(Saved) /\ Len(<<>>) = 0 /\ DOMAIN <<>> = {}
  BY EmptySeq
<1>2. v7 \in Screen!Panels
  BY <1>1 DEF Screen!StreamInit, Screen!Panels, Screen!Texts, Saved
<1>3. Screen!Admitted(v7) = {}
  BY <1>1 DEF Screen!StreamInit, Screen!Admitted
<1>4. Screen!InOrder(v7.shown, v7.records, Screen!Admitted(v7))
  BY <1>3, InOrderNone DEF Screen!StreamInit
<1>5. Screen!Exact(v7)
  BY <1>1, <1>4 DEF Screen!Exact, Screen!StreamInit
<1>6. v5.records = <<>> /\ v5 = [at |-> v5.at, after |-> v5.after, records |-> v5.records]
  BY DEF Screen!StreamInit, Screen!Idle
<1>7. v1 = 1 /\ v3 = 0 /\ v2 = <<>>
  BY Zenon DEF Screen!StreamInit
<1>8. v1 \in Nat \ {0} /\ v3 \in Nat
  BY <1>7
<1> QED BY <1>1, <1>2, <1>5, <1>6, <1>7, <1>8 DEF Screen!StreamInv, Screen!DisplayExact

LEMMA StreamStepOK == Screen!StreamConstants /\ Screen!StreamInv /\ Screen!StreamNext => Screen!StreamInv'
BY FiltersOK, ManageOK, InspectOK, RecordsOK DEF Screen!StreamNext

ScreenHolds == component = "screen" => Screen!StreamInv

(* Through evictions, rebuilt displays, edits of filters and records of     *)
(* several processes, the panel displays exactly the records it keeps that *)
(* match, in their order; the inspected one is displayed and the selected  *)
(* filter exists (log_filter_ui.cpp:526-551, 717-727).                     *)
THEOREM DisplayHolds == Spec => []DisplayExact
<1>1. Init => ScreenHolds
  BY StreamInitOK, SurroundingsConstants DEF Init, ScreenHolds
<1>2. ScreenHolds /\ [Next]_vars => ScreenHolds'
  <2> SUFFICES ASSUME ScreenHolds, [Next]_vars, component = "screen", component' = component
               PROVE  Screen!StreamInv'
    BY DEF ScreenHolds, Next, vars
  <2>1. CASE Screen!StreamNext
    BY <2>1, StreamStepOK, SurroundingsConstants DEF ScreenHolds
  <2>2. CASE UNCHANGED vars
    BY <2>2 DEF ScreenHolds, vars, after3, after6, Screen!StreamInv, Screen!DisplayExact,
       Screen!Exact, Screen!Admitted, Screen!Matches, Screen!Ids
  <2> QED BY <2>1, <2>2 DEF Next
<1>3. ScreenHolds => DisplayExact
  BY DEF ScreenHolds, DisplayExact, Screen!StreamInv
<1> QED BY <1>1, <1>2, <1>3, PTL DEF Spec
-----------------------------------------------------------------------------
(* The log file.                                                           *)

(* The log file and its predecessors, with the lines of tasks up to t. *)
Logs(t) == {fs \in Seq(Seq(Nat)) : fs # <<>> /\ File!LinesOrdered(fs) /\ File!LinesUpTo(fs, t)}

(* Rotating puts an empty file before some of the others. *)
LEMMA RotatedMeans ==
  ASSUME File!FileConstants, NEW fs \in Seq(Seq(Nat))
  PROVE  \E k \in 0..Len(fs) :
           /\ File!Rotated(fs) \in Seq(Seq(Nat)) /\ Len(File!Rotated(fs)) = k + 1
           /\ File!Rotated(fs)[1] = <<>>
           /\ \A i \in 2..k + 1 : File!Rotated(fs)[i] = fs[i - 1]
<1> DEFINE k == IF Len(fs) < Retained THEN Len(fs) ELSE Retained
           older == SubSeq(fs, 1, k)
           fresh == <<<<>>>>
<1>1. Len(fs) \in Nat /\ k \in 0..Len(fs)
  BY LenProperties DEF File!FileConstants
<1>2. File!Rotated(fs) = fresh \o older
  BY DEF File!Rotated
<1> HIDE DEF k
<1>3. /\ older \in Seq(Seq(Nat)) /\ Len(older) = k
      /\ \A i \in 1..k : older[i] = fs[i]
  BY <1>1, SubSeqProperties
<1>4. fresh \in Seq(Seq(Nat)) /\ Len(fresh) = 1 /\ fresh[1] = <<>>
  BY EmptySeq
<1> HIDE DEF older, fresh
<1>5. /\ fresh \o older \in Seq(Seq(Nat)) /\ Len(fresh \o older) = Len(fresh) + Len(older)
      /\ \A i \in 1..Len(fresh) + Len(older) :
           (fresh \o older)[i] = IF i <= Len(fresh) THEN fresh[i] ELSE older[i - Len(fresh)]
  BY <1>3, <1>4, ConcatProperties
<1>6. Len(fresh) + Len(older) = k + 1
  BY <1>1, <1>3, <1>4
<1>7. File!Rotated(fs)[1] = <<>>
  BY <1>1, <1>2, <1>4, <1>5, <1>6
<1>8. ASSUME NEW i \in 2..k + 1 PROVE File!Rotated(fs)[i] = fs[i - 1]
  <2>1. i \in 1..k + 1 /\ ~(i <= 1) /\ i - 1 \in 1..k
    BY <1>1
  <2>2. File!Rotated(fs)[i] = older[i - 1]
    BY <1>2, <1>4, <1>5, <1>6, <2>1
  <2> QED BY <1>3, <2>1, <2>2
<1> QED BY <1>1, <1>2, <1>5, <1>6, <1>7, <1>8

(* Rotating keeps the order of the lines. *)
LEMMA RotatedOK ==
  ASSUME File!FileConstants, NEW t \in Nat, NEW fs \in Logs(t)
  PROVE  File!Rotated(fs) \in Logs(t)
<1>1. fs \in Seq(Seq(Nat)) /\ Len(fs) \in Nat /\ DOMAIN fs = 1..Len(fs)
  BY LenProperties DEF Logs
<1> DEFINE r == File!Rotated(fs)
<1>2. PICK k \in 0..Len(fs) :
        /\ r \in Seq(Seq(Nat)) /\ Len(r) = k + 1
        /\ r[1] = <<>>
        /\ \A i \in 2..k + 1 : r[i] = fs[i - 1]
  BY <1>1, RotatedMeans
<1> HIDE DEF r
<1>3. DOMAIN r = 1..k + 1 /\ r # <<>>
  BY <1>1, <1>2, EmptySeq, LenProperties
<1>4. DOMAIN r[1] = {}
  BY <1>2, EmptySeq
<1>5. ASSUME NEW i \in DOMAIN r, i # 1
      PROVE  i - 1 \in DOMAIN fs /\ r[i] = fs[i - 1]
  <2>1. i \in 2..k + 1 /\ i - 1 \in 1..Len(fs)
    BY <1>1, <1>3, <1>5
  <2> QED BY <1>1, <1>2, <2>1
<1>6. File!LinesUpTo(r, t)
  BY <1>4, <1>5 DEF Logs, File!LinesUpTo
<1>7. ASSUME NEW i \in DOMAIN r, NEW j \in DOMAIN r, i < j,
             NEW m \in DOMAIN r[i], NEW n \in DOMAIN r[j]
      PROVE  r[j][n] < r[i][m]
  <2>1. i # 1 /\ j # 1
    BY <1>4, <1>7
  <2>2. i - 1 < j - 1
    BY <1>1, <1>3, <1>7
  <2> QED BY <1>5, <2>1, <2>2 DEF Logs, File!LinesOrdered
<1>8. ASSUME NEW i \in DOMAIN r, NEW m \in DOMAIN r[i], NEW n \in DOMAIN r[i], m < n
      PROVE  r[i][m] < r[i][n]
  <2>1. i # 1
    BY <1>4
  <2> QED BY <1>5, <1>8, <2>1 DEF Logs, File!LinesOrdered
<1>9. File!LinesOrdered(r)
  BY <1>7, <1>8 DEF File!LinesOrdered
<1> QED BY <1>2, <1>3, <1>6, <1>9 DEF Logs, r

(* Writing the line of a later task keeps the order of the lines. *)
LEMMA AppendLineOK ==
  ASSUME File!FileConstants, NEW t \in Nat, NEW fs \in Logs(t), NEW u \in Nat, u > t
  PROVE  File!AppendLine(fs, u) \in Logs(u)
<1> DEFINE kept == IF Len(fs[1]) + 1 > FileLines THEN File!Rotated(fs) ELSE fs
           full == [kept EXCEPT ![1] = Append(kept[1], u)]
<1>1. File!AppendLine(fs, u) = full
  BY DEF File!AppendLine
<1>2. kept \in Logs(t)
  BY RotatedOK
<1> HIDE DEF kept
<1>3. kept \in Seq(Seq(Nat)) /\ Len(kept) \in Nat /\ DOMAIN kept = 1..Len(kept) /\ 1 \in DOMAIN kept
  BY <1>2, LenProperties, EmptySeq DEF Logs
<1>4. kept[1] \in Seq(Nat) /\ Len(kept[1]) \in Nat /\ DOMAIN kept[1] = 1..Len(kept[1])
  BY <1>3, ElementOfSeq, LenProperties
<1> DEFINE L == Len(kept[1])
<1>5. /\ Append(kept[1], u) \in Seq(Nat) /\ Append(kept[1], u)[L + 1] = u
      /\ DOMAIN Append(kept[1], u) = 1..L + 1
      /\ \A m \in 1..L : Append(kept[1], u)[m] = kept[1][m]
  BY <1>4, AppendProperties, LenProperties
<1>6. /\ full \in Seq(Seq(Nat)) /\ DOMAIN full = DOMAIN kept
      /\ full[1] = Append(kept[1], u)
      /\ \A i \in DOMAIN kept : i # 1 => full[i] = kept[i]
  BY <1>3, <1>5, ExceptSeq
<1> HIDE DEF full
<1>7. full # <<>>
  BY <1>3, <1>6, EmptySeq
<1>8. \A i \in DOMAIN full : \A m \in DOMAIN full[i] :
        \/ i = 1 /\ m = L + 1 /\ full[i][m] = u
        \/ m \in DOMAIN kept[i] /\ full[i][m] = kept[i][m]
  <2> SUFFICES ASSUME NEW i \in DOMAIN full, NEW m \in DOMAIN full[i]
               PROVE  \/ i = 1 /\ m = L + 1 /\ full[i][m] = u
                      \/ m \in DOMAIN kept[i] /\ full[i][m] = kept[i][m]
    OBVIOUS
  <2>1. CASE i # 1
    BY <1>6, <2>1
  <2>2. CASE i = 1
    <3>1. m \in 1..L + 1
      BY <1>5, <1>6, <2>2
    <3>2. m = L + 1 \/ m \in 1..L
      BY <1>4, <3>1
    <3> QED BY <1>4, <1>5, <1>6, <2>2, <3>2
  <2> QED BY <2>1, <2>2
<1>9. \A i \in DOMAIN kept : \A m \in DOMAIN kept[i] : kept[i][m] \in Nat /\ kept[i][m] <= t
  <2> TAKE i \in DOMAIN kept
  <2>1. kept[i] \in Seq(Nat)
    BY <1>3, ElementOfSeq
  <2>2. \A m \in DOMAIN kept[i] : kept[i][m] \in Nat
    BY <2>1, ElementOfSeq, LenProperties
  <2> QED BY <1>2, <2>2 DEF Logs, File!LinesUpTo
<1>10. File!LinesUpTo(full, u)
  <2> SUFFICES ASSUME NEW i \in DOMAIN full, NEW m \in DOMAIN full[i] PROVE full[i][m] <= u
    BY DEF File!LinesUpTo
  <2>1. CASE full[i][m] = u
    BY <2>1
  <2>2. CASE m \in DOMAIN kept[i] /\ full[i][m] = kept[i][m]
    <3>1. kept[i][m] \in Nat /\ kept[i][m] <= t
      BY <1>6, <1>9, <2>2
    <3> QED BY <2>2, <3>1
  <2> QED BY <1>8, <2>1, <2>2
<1>11. ASSUME NEW i \in DOMAIN full, NEW j \in DOMAIN full, i < j,
              NEW m \in DOMAIN full[i], NEW n \in DOMAIN full[j]
       PROVE  full[j][n] < full[i][m]
  <2>1. j # 1 /\ n \in DOMAIN kept[j] /\ full[j][n] = kept[j][n]
    <3>1. j # 1
      BY <1>3, <1>6, <1>11
    <3> QED BY <1>6, <1>11, <3>1
  <2>2. full[j][n] \in Nat /\ full[j][n] <= t
    BY <1>6, <1>9, <2>1
  <2>3. CASE full[i][m] = u
    BY <2>2, <2>3
  <2>4. CASE m \in DOMAIN kept[i] /\ full[i][m] = kept[i][m]
    BY <1>2, <1>6, <1>11, <2>1, <2>4 DEF Logs, File!LinesOrdered
  <2> QED BY <1>8, <2>3, <2>4
<1>12. ASSUME NEW i \in DOMAIN full, NEW m \in DOMAIN full[i], NEW n \in DOMAIN full[i], m < n
       PROVE  full[i][m] < full[i][n]
  <2>1. CASE i = 1
    <3>1. m \in 1..L
      BY <1>4, <1>5, <1>6, <1>12, <2>1
    <3>2. full[1][m] = kept[1][m] /\ full[1][m] \in Nat /\ full[1][m] <= t
      BY <1>3, <1>4, <1>5, <1>6, <1>9, <3>1
    <3>3. CASE n = L + 1
      BY <1>5, <1>6, <2>1, <3>2, <3>3
    <3>4. CASE n \in 1..L
      <4>1. full[1][n] = kept[1][n]
        BY <1>5, <1>6, <3>4
      <4>2. kept[1][m] < kept[1][n]
        BY <1>2, <1>3, <1>4, <1>12, <3>1, <3>4 DEF Logs, File!LinesOrdered
      <4> QED BY <2>1, <3>2, <4>1, <4>2
    <3> QED BY <1>4, <1>5, <1>6, <1>12, <2>1, <3>3, <3>4
  <2>2. CASE i # 1
    BY <1>2, <1>6, <1>12, <2>2 DEF Logs, File!LinesOrdered
  <2> QED BY <2>1, <2>2
<1>13. File!LinesOrdered(full)
  BY <1>11, <1>12 DEF File!LinesOrdered
<1> QED BY <1>1, <1>6, <1>7, <1>10, <1>13 DEF Logs

(* A log that is off satisfies the invariant. *)
LEMMA FileInitOK == File!FileInit => File!FileInv
<1>0. v3 = 0 /\ Len(v2) = 0 /\ Len(v6) = 0 => File!Finished = 0
  BY DEF File!Finished
<1> SUFFICES ASSUME File!FileInit PROVE File!FileInv
  OBVIOUS
<1> USE DEF File!FileInit
<1>1. /\ v8 \in Seq(Seq(Nat)) /\ v8 # <<>> /\ DOMAIN v8 = {1} /\ v8[1] = <<>>
      /\ DOMAIN v8[1] = {}
  BY EmptySeq
<1>2. File!FileTypeOK
  BY <1>1, EmptySeq DEF File!FileTypeOK, File!Requests
<1>3. File!Finished = 0 /\ DOMAIN v2 = {} /\ DOMAIN v6 = {}
  <2>1. Len(<<>>) = 0 /\ DOMAIN <<>> = {}
    BY EmptySeq
  <2>2. v3 = 0 /\ Len(v2) = 0 /\ Len(v6) = 0
    BY <2>1
  <2>3. File!Finished = 0
    BY <1>0, <2>2
  <2> QED BY <2>1, <2>3
<1>4. File!InOrder /\ File!OneRequest
  BY <1>3 DEF File!InOrder, File!OneRequest
<1>5. File!LinesUpTo(v8, File!Finished) /\ File!BarriersOrdered
  BY <1>1, <1>3 DEF File!LinesUpTo, File!LinesOrdered, File!BarriersOrdered
<1>6. File!Awaited /\ File!SinkAgrees
  BY DEF File!Awaited, File!SinkAgrees
<1> QED BY <1>2, <1>4, <1>5, <1>6 DEF File!FileInv

(* A task that is submitted is the last of the queue. *)
LEMMA SubmitOK ==
  ASSUME File!FileTypeOK, File!InOrder, NEW request \in File!Requests \cup {"event"},
         File!Submit(request),
         v6' = v6, v9' = v9
  PROVE  /\ v3' \in Nat
         /\ v2' \in Seq([request : File!Requests \cup {"event"}, ticket : Nat])
         /\ File!InOrder' /\ File!Finished' = File!Finished
         /\ \A i \in DOMAIN v2 : i \in DOMAIN v2' /\ v2'[i] = v2[i]
         /\ \E i \in DOMAIN v2' :
              v2'[i].request = request /\ v2'[i].ticket = v3'
<1> DEFINE L == Len(v2)
           new == [request |-> request, ticket |-> v3']
<1>1. /\ v3 \in Nat
      /\ v2 \in Seq([request : File!Requests \cup {"event"}, ticket : Nat])
      /\ v6 \in Seq([request : File!Requests \cup {"event"}, ticket : Nat])
  BY DEF File!FileTypeOK
<1>2. /\ L \in Nat /\ DOMAIN v2 = 1..L
      /\ Len(v6) \in Nat
  BY <1>1, LenProperties
<1>3. v3' = v3 + 1 /\ v3' \in Nat /\ v2' = Append(v2, new)
  BY <1>1 DEF File!Submit
<1>4. new \in [request : File!Requests \cup {"event"}, ticket : Nat]
      /\ new.request = request /\ new.ticket = v3'
  BY <1>3
<1> HIDE DEF new, L
<1>5. /\ v2' \in Seq([request : File!Requests \cup {"event"}, ticket : Nat])
      /\ Len(v2') = L + 1 /\ v2'[L + 1] = new
      /\ \A i \in 1..L : v2'[i] = v2[i]
  BY <1>1, <1>3, <1>4, AppendProperties DEF L
<1>6. DOMAIN v2' = 1..L + 1
  BY <1>5, LenProperties
<1>7. File!Finished' = File!Finished /\ File!Finished + Len(v6) + (L + 1) = v3'
  BY <1>1, <1>2, <1>3, <1>5 DEF File!Finished, L
<1>8. File!InOrder'
  <2>1. ASSUME NEW i \in DOMAIN v2'
        PROVE  v2'[i].ticket = File!Finished + Len(v6) + i
    <3>1. i \in 1..L \/ i = L + 1
      BY <1>2, <1>6
    <3> QED BY <1>2, <1>4, <1>5, <1>7, <3>1 DEF File!InOrder
  <2> QED BY <1>7, <2>1 DEF File!InOrder
<1>9. L + 1 \in DOMAIN v2'
  BY <1>2, <1>6
<1>10. \A i \in DOMAIN v2 : i \in DOMAIN v2'
  BY <1>2, <1>6
<1> QED BY <1>2, <1>3, <1>4, <1>5, <1>7, <1>8, <1>9, <1>10

(* The thread takes the head of the queue. *)
LEMMA TakeOK == File!FileInv /\ File!Take => File!FileInv'
<1> SUFFICES ASSUME File!FileInv, File!Take PROVE File!FileInv'
  OBVIOUS
<1> DEFINE Tasks == [request : File!Requests \cup {"event"}, ticket : Nat]
           L == Len(v2)
<1>1. /\ v3 \in Nat /\ v2 \in Seq(Tasks)
      /\ L \in Nat /\ DOMAIN v2 = 1..L /\ v6 = <<>> /\ Len(v6) = 0
      /\ File!Finished = v3 - L
  BY LenProperties, EmptySeq DEF File!FileInv, File!FileTypeOK, File!Take, File!Finished
<1>2. PICK n \in 1..L :
        /\ n \in File!Batches \/ n = 1
        /\ v6' = SubSeq(v2, 1, n)
        /\ v2' = SubSeq(v2, n + 1, L)
  BY DEF File!Take
<1> HIDE DEF Tasks, L
<1>3. n \in Nat /\ n >= 1 /\ n <= L
  BY <1>1, <1>2
<1>4. /\ v6' \in Seq(Tasks) /\ Len(v6') = n
      /\ \A i \in 1..n : v6'[i] = v2[i]
  BY <1>1, <1>2, <1>3, SubSeqProperties DEF L
<1>5. /\ v2' \in Seq(Tasks) /\ Len(v2') = L - n
      /\ \A i \in 1..L - n : v2'[i] = v2[n + i]
  <2>1. n + 1 \in Int /\ L \in Int /\ \A i \in n + 1..L : v2[i] \in Tasks
    BY <1>1, <1>3 DEF L
  <2>2. /\ v2' \in Seq(Tasks)
        /\ Len(v2') = IF n + 1 <= L THEN L - (n + 1) + 1 ELSE 0
        /\ \A i \in 1..L - (n + 1) + 1 : v2'[i] = v2[n + 1 + i - 1]
    BY <1>2, <2>1, SubSeqProperties
  <2>3. L - (n + 1) + 1 = L - n /\ \A i \in 1..L - n : n + 1 + i - 1 = n + i
    BY <1>1, <1>3
  <2>4. Len(v2') = L - n
    BY <1>1, <1>3, <2>2
  <2> QED BY <2>2, <2>3, <2>4
<1>6. DOMAIN v6' = 1..n /\ DOMAIN v2' = 1..L - n
  BY <1>4, <1>5, LenProperties
<1>7. File!Finished' = File!Finished
  <2>1. File!Finished' = v3 - (L - n) - n
    BY <1>4, <1>5 DEF File!Finished, File!Take
  <2> QED BY <1>1, <1>3, <2>1
<1>8. \A i \in 1..L : v2[i].ticket = File!Finished + i
  <2>1. File!Finished \in Nat /\ \A i \in 1..L : v2[i].ticket = File!Finished + 0 + i
    BY <1>1 DEF File!FileInv, File!InOrder
  <2> QED BY <1>1, <2>1
<1>9. File!FileTypeOK'
  BY <1>4, <1>5 DEF File!FileInv, File!FileTypeOK, File!Take, Tasks
<1>10. File!InOrder'
  <2>1. \A i \in 1..n : v6'[i].ticket = File!Finished + i
    <3> TAKE i \in 1..n
    <3>1. i \in 1..L
      BY <1>1, <1>3
    <3> QED BY <1>4, <1>8, <3>1
  <2>2. ASSUME NEW i \in 1..L - n PROVE v2'[i].ticket = File!Finished + n + i
    <3>1. n + i \in 1..L /\ File!Finished + (n + i) = File!Finished + n + i
      BY <1>1, <1>3
    <3> QED BY <1>5, <1>8, <3>1
  <2>3. v9' = v9
    BY DEF File!Take
  <2> QED BY <1>4, <1>6, <1>7, <2>1, <2>2, <2>3 DEF File!FileInv, File!InOrder
<1>11. File!OneRequest'
  <2>1. CASE n = 1
    BY <1>4, <2>1 DEF File!OneRequest
  <2>2. CASE n \in File!Batches
    BY <1>4, <1>6, <2>2 DEF File!OneRequest, File!Batches
  <2> QED BY <1>2, <2>1, <2>2
<1>12. File!Awaited'
  <2> SUFFICES ASSUME NEW c \in Callers
               PROVE  /\ v5[c].at = "idle" <=> v5[c].request = "none"
                      /\ v5[c].at = "waiting" => File!IsIn(v6, c)' \/ File!IsIn(v2, c)'
    BY DEF File!Awaited, File!Take
  <2>1. v5' = v5
    BY DEF File!Take
  <2>2. ASSUME v5[c].at = "waiting" PROVE File!IsIn(v6, c)' \/ File!IsIn(v2, c)'
    <3>1. PICK i \in 1..L : /\ v2[i].request = v5[c].request
                            /\ v2[i].ticket = v5[c].ticket
      BY <1>1, <2>2, EmptySeq DEF File!FileInv, File!Awaited, File!IsIn
    <3>2. CASE i <= n
      BY <1>3, <1>4, <1>6, <2>1, <3>1, <3>2 DEF File!IsIn
    <3>3. CASE i > n
      <4>1. i - n \in 1..L - n /\ n + (i - n) = i
        BY <1>1, <1>3, <3>3
      <4>2. v2'[i - n] = v2[i]
        BY <1>5, <4>1
      <4> QED BY <1>6, <2>1, <3>1, <4>1, <4>2 DEF File!IsIn
    <3> QED BY <1>1, <1>3, <3>2, <3>3
  <2> QED BY <2>2 DEF File!FileInv, File!Awaited
<1>13. File!LinesUpTo(v8, File!Finished)' /\ File!BarriersOrdered' /\ File!SinkAgrees'
  BY <1>7
     DEF File!FileInv, File!Take, File!LinesUpTo, File!LinesOrdered, File!BarriersOrdered,
         File!SinkAgrees
<1> QED BY <1>9, <1>10, <1>11, <1>12, <1>13 DEF File!FileInv

(* When the thread finishes what it took, the others find their requests   *)
(* in the queue.                                                           *)
LEMMA FinishOK ==
  ASSUME File!FileInv, File!Finish, v3' = v3, v2' = v2
  PROVE  /\ File!Finished' = File!Finished + Len(v6)
         /\ File!InOrder' /\ File!OneRequest' /\ File!Awaited'
         /\ File!Finished' \in Nat /\ File!Finished <= File!Finished'
         /\ v6' \in Seq([request : File!Requests \cup {"event"}, ticket : Nat])
         /\ v5' \in [Callers -> [at : {"idle", "announced", "waiting", "stopped"},
                                     request : File!Requests \cup {"none"}, ticket : Nat]]
         /\ \A c \in Callers :
              \/ v5'[c].request = v5[c].request
              \/ v5[c].at = "waiting" /\ v5[c].request # "stop" /\ File!IsIn(v6, c)
<1> DEFINE k == Len(v6)
           L == Len(v2)
<1>1. /\ v3 \in Nat /\ L \in Nat /\ k \in Nat /\ File!Finished \in Nat /\ File!Finished = v3 - L - k
      /\ DOMAIN v2 = 1..L /\ DOMAIN v6 = 1..k
  BY LenProperties DEF File!FileInv, File!FileTypeOK, File!InOrder, File!Finished
<1>2. Len(<<>>) = 0 /\ DOMAIN <<>> = {}
      /\ <<>> \in Seq([request : File!Requests \cup {"event"}, ticket : Nat])
  BY EmptySeq
<1>3. v6' = <<>>
  BY DEF File!Finish
<1>4. File!Finished' = v3 - L - 0
  <2>1. Len(v6') = 0 /\ Len(v2') = L
    BY <1>2, <1>3
  <2> QED BY <2>1 DEF File!Finished
<1>5. /\ File!Finished' = File!Finished + k
      /\ File!Finished' \in Nat /\ File!Finished <= File!Finished'
  BY <1>1, <1>4
<1> HIDE DEF k, L
<1>6. File!TicketsOf(v6) = (File!Finished + 1)..(File!Finished + k)
  <2>1. \A i \in 1..k : v6[i].ticket = File!Finished + i
    BY <1>1 DEF File!FileInv, File!InOrder
  <2>2. \A t \in (File!Finished + 1)..(File!Finished + k) :
          t - File!Finished \in 1..k /\ File!Finished + (t - File!Finished) = t
    BY <1>1
  <2>3. \A i \in 1..k : File!Finished + i \in (File!Finished + 1)..(File!Finished + k)
    BY <1>1
  <2>4. ASSUME NEW t \in (File!Finished + 1)..(File!Finished + k) PROVE t \in File!TicketsOf(v6)
    <3>1. t - File!Finished \in DOMAIN v6 /\ v6[t - File!Finished].ticket = t
      BY <1>1, <2>1, <2>2
    <3> QED BY <3>1 DEF File!TicketsOf
  <2>5. \A t \in File!TicketsOf(v6) : t \in (File!Finished + 1)..(File!Finished + k)
    BY <1>1, <2>1, <2>3 DEF File!TicketsOf
  <2> QED BY <2>4, <2>5
<1>7. v9' = 1..File!Finished'
  <2>1. v9' = (1..File!Finished) \cup ((File!Finished + 1)..(File!Finished + k))
    BY <1>6 DEF File!Finish, File!FileInv, File!InOrder
  <2> QED BY <1>1, <1>5, <2>1
<1>8. File!InOrder'
  <2>1. \A i \in 1..L : v2[i].ticket = File!Finished + k + i
    BY <1>1 DEF File!FileInv, File!InOrder, k
  <2>2. \A i \in 1..L : v2'[i].ticket = File!Finished' + 0 + i
    BY <1>1, <1>5, <2>1
  <2> QED BY <1>1, <1>2, <1>3, <1>5, <1>7, <2>2 DEF File!InOrder
<1>9. File!OneRequest'
  BY <1>2, <1>3 DEF File!OneRequest
<1>10. ASSUME NEW c \in Callers, v5[c].at = "waiting", ~(v5[c].ticket \in v9')
       PROVE  File!IsIn(v2, c)
  <2>1. File!IsIn(v6, c) => v5[c].ticket \in v9'
    BY DEF File!IsIn, File!Finish, File!TicketsOf
  <2> QED BY <1>10, <2>1 DEF File!FileInv, File!Awaited
<1>11. ASSUME NEW c \in Callers, v5[c].at = "waiting", v5[c].ticket \in v9'
       PROVE  File!IsIn(v6, c)
  <2>1. SUFFICES ASSUME File!IsIn(v2, c) PROVE FALSE
    BY <1>11 DEF File!FileInv, File!Awaited
  <2>2. PICK i \in 1..L : v2[i].ticket = v5[c].ticket
    BY <1>1, <2>1 DEF File!IsIn
  <2>3. v2[i].ticket = File!Finished + k + i
    BY <1>1 DEF File!FileInv, File!InOrder, k
  <2> QED BY <1>1, <1>5, <1>7, <1>11, <2>2, <2>3
<1>12. v5 \in [Callers -> [at : {"idle", "announced", "waiting", "stopped"},
                               request : File!Requests \cup {"none"}, ticket : Nat]]
  BY DEF File!FileInv, File!FileTypeOK
<1>13. ASSUME NEW c \in Callers
       PROVE  \/ /\ v5[c].at = "waiting" /\ v5[c].ticket \in v9'
                 /\ \/ /\ v5[c].request = "stop" /\ v5'[c].request = "stop"
                       /\ v5'[c].at = "stopped"
                    \/ /\ v5[c].request # "stop" /\ v5'[c].request = "none"
                       /\ v5'[c].at = "idle"
                 /\ v5'[c] \in [at : {"idle", "announced", "waiting", "stopped"},
                                    request : File!Requests \cup {"none"}, ticket : Nat]
              \/ /\ ~(v5[c].at = "waiting" /\ v5[c].ticket \in v9')
                 /\ v5'[c] = v5[c]
  <2>1. v5'[c] = IF v5[c].at = "waiting" /\ v5[c].ticket \in v9'
                       THEN [v5[c] EXCEPT
                               !.at = IF v5[c].request = "stop" THEN "stopped" ELSE "idle",
                               !.request = IF v5[c].request = "stop" THEN "stop" ELSE "none"]
                       ELSE v5[c]
    BY DEF File!Finish
  <2> QED BY <1>12, <2>1 DEF File!Requests
<1>14. v5' \in [Callers -> [at : {"idle", "announced", "waiting", "stopped"},
                                request : File!Requests \cup {"none"}, ticket : Nat]]
  <2>1. v5' = [c \in Callers |-> v5'[c]]
    BY DEF File!Finish
  <2>2. \A c \in Callers : v5'[c] \in [at : {"idle", "announced", "waiting", "stopped"},
                                           request : File!Requests \cup {"none"}, ticket : Nat]
    BY <1>12, <1>13
  <2> QED BY <2>1, <2>2
<1>15. File!Awaited'
  <2> SUFFICES ASSUME NEW c \in Callers
               PROVE  /\ v5'[c].at = "idle" <=> v5'[c].request = "none"
                      /\ v5'[c].at = "waiting" => File!IsIn(v2, c)'
    BY DEF File!Awaited
  <2>1. CASE v5[c].at = "waiting" /\ v5[c].ticket \in v9'
    BY <1>13, <2>1
  <2>2. CASE ~(v5[c].at = "waiting" /\ v5[c].ticket \in v9')
    <3>1. v5'[c] = v5[c]
      BY <1>13, <2>2
    <3>2. ASSUME v5'[c].at = "waiting" PROVE File!IsIn(v2, c)'
      BY <1>10, <2>2, <3>1, <3>2 DEF File!IsIn
    <3> QED BY <3>1, <3>2 DEF File!FileInv, File!Awaited
  <2> QED BY <2>1, <2>2
<1>16. \A c \in Callers :
         \/ v5'[c].request = v5[c].request
         \/ v5[c].at = "waiting" /\ v5[c].request # "stop" /\ File!IsIn(v6, c)
  BY <1>11, <1>13
<1> QED BY <1>2, <1>3, <1>5, <1>8, <1>9, <1>14, <1>15, <1>16 DEF k

(* A line that is written finishes the first task of the thread. *)
LEMMA WriteLineOK == File!FileConstants /\ File!FileInv /\ File!WriteLine => File!FileInv'
<1> SUFFICES ASSUME File!FileConstants, File!FileInv, File!WriteLine PROVE File!FileInv'
  OBVIOUS
<1> DEFINE Tasks == [request : File!Requests \cup {"event"}, ticket : Nat]
           k == Len(v6)
           u == Head(v6).ticket
<1>1. /\ v3 \in Nat /\ v6 \in Seq(Tasks) /\ v6 # <<>>
      /\ Len(v2) \in Nat /\ k \in Nat /\ DOMAIN v6 = 1..k
      /\ File!Finished \in Nat /\ File!Finished = v3 - Len(v2) - k
      /\ v8 \in Seq(Seq(Nat)) /\ v8 # <<>>
  BY LenProperties
     DEF File!FileInv, File!FileTypeOK, File!InOrder, File!Finished, File!WriteLine, File!Taken
<1>2. k >= 1
  BY <1>1, EmptySeq
<1> HIDE DEF Tasks
<1>3. /\ v6' \in Seq(Tasks) /\ Len(v6') = k - 1
      /\ \A i \in 1..k - 1 : v6'[i] = v6[i + 1]
  <2>1. v6' = Tail(v6)
    BY DEF File!WriteLine
  <2> QED BY <1>1, <2>1, HeadTailProperties
<1>4. Head(v6) = v6[1]
  OBVIOUS
<1> HIDE DEF k
<1>5. DOMAIN v6' = 1..k - 1
  BY <1>1, <1>3, LenProperties
<1>6. File!Finished' = File!Finished + 1
  <2>1. File!Finished' = v3 - Len(v2) - (k - 1)
    BY <1>3 DEF File!Finished, File!WriteLine
  <2> QED BY <1>1, <2>1
<1>7. u = File!Finished + 1 /\ u \in Nat
  <2>1. 1 \in DOMAIN v6
    BY <1>1, <1>2
  <2>2. v6[1].ticket = File!Finished + 1
    BY <2>1 DEF File!FileInv, File!InOrder
  <2>3. u = File!Finished + 1
    BY <1>4, <2>2
  <2> QED BY <1>1, <2>3
<1> HIDE DEF u
<1>8. File!FileTypeOK' /\ v8' \in Logs(File!Finished')
  <2>1. v8 \in Logs(File!Finished)
    BY <1>1 DEF Logs, File!FileInv, File!BarriersOrdered
  <2>2. u > File!Finished
    BY <1>1, <1>7
  <2>3. File!AppendLine(v8, u) \in Logs(u)
    BY <1>1, <1>7, <2>1, <2>2, AppendLineOK
  <2>4. v8' \in Logs(File!Finished')
    BY <1>6, <1>7, <2>3 DEF File!WriteLine, u
  <2> QED BY <1>3, <2>4 DEF File!FileInv, File!FileTypeOK, File!WriteLine, Logs, Tasks
<1>9. File!InOrder'
  <2>1. v9' = 1..File!Finished'
    <3>1. v9' = (1..File!Finished) \cup {File!Finished + 1}
      BY <1>7 DEF File!WriteLine, File!FileInv, File!InOrder, u
    <3> QED BY <1>1, <1>6, <3>1
  <2>2. \A i \in 1..k - 1 : v6'[i].ticket = File!Finished' + i
    <3> TAKE i \in 1..k - 1
    <3>1. i + 1 \in 1..k /\ File!Finished + (i + 1) = (File!Finished + 1) + i
      BY <1>1
    <3>2. v6[i + 1].ticket = File!Finished + (i + 1)
      BY <1>1, <3>1 DEF File!FileInv, File!InOrder
    <3> QED BY <1>3, <1>6, <3>1, <3>2
  <2>3. \A i \in DOMAIN v2 : v2[i].ticket = File!Finished' + (k - 1) + i
    <3> TAKE i \in DOMAIN v2
    <3>1. i \in Nat
      BY LenProperties DEF File!FileInv, File!FileTypeOK
    <3>2. v2[i].ticket = File!Finished + k + i
      BY DEF File!FileInv, File!InOrder, k
    <3>3. File!Finished + k + i = (File!Finished + 1) + (k - 1) + i
      BY <1>1, <3>1
    <3> QED BY <1>6, <3>2, <3>3
  <2>4. File!Finished' \in Nat /\ v2' = v2
    BY <1>1, <1>6 DEF File!WriteLine
  <2> QED BY <1>3, <1>5, <2>1, <2>2, <2>3, <2>4 DEF File!InOrder
<1>10. File!OneRequest'
  <2> SUFFICES ASSUME NEW i \in 1..k - 1 PROVE v6'[i].request = "event"
    BY <1>5 DEF File!OneRequest
  <2>1. i + 1 \in 1..k /\ k # 1
    BY <1>1
  <2>2. v6[i + 1].request = "event"
    BY <1>1, <2>1 DEF File!FileInv, File!OneRequest, k
  <2> QED BY <1>3, <2>2
<1>11. File!Awaited'
  <2>1. v5' = v5 /\ v2' = v2
    BY DEF File!WriteLine
  <2>2. ASSUME NEW c \in Callers, File!IsIn(v6, c) PROVE File!IsIn(v6, c)'
    <3>1. PICK i \in 1..k : /\ v6[i].request = v5[c].request
                            /\ v6[i].ticket = v5[c].ticket
      BY <1>1, <2>2 DEF File!IsIn
    <3>2. i # 1
      <4>1. v6[1].request = "event"
        BY <1>4 DEF File!WriteLine, File!Taken
      <4>2. v5[c].request # "event"
        BY DEF File!FileInv, File!FileTypeOK, File!Requests
      <4> QED BY <3>1, <4>1, <4>2
    <3>3. i - 1 \in 1..k - 1 /\ (i - 1) + 1 = i
      BY <1>1, <3>2
    <3>4. v6'[i - 1] = v6[i]
      BY <1>3, <3>3
    <3> QED BY <1>5, <2>1, <3>1, <3>3, <3>4 DEF File!IsIn
  <2>3. ASSUME NEW c \in Callers, File!IsIn(v2, c) PROVE File!IsIn(v2, c)'
    BY <2>1, <2>3 DEF File!IsIn
  <2> QED BY <2>1, <2>2, <2>3 DEF File!FileInv, File!Awaited
<1>12. File!LinesUpTo(v8, File!Finished)' /\ File!LinesOrdered(v8')
  BY <1>8 DEF Logs, File!LinesUpTo, File!LinesOrdered
<1>13. File!BarriersOrdered' /\ File!SinkAgrees'
  <2>1. \A t \in v9' : \A v \in 1..t : v \in v9'
    BY <1>9 DEF File!InOrder
  <2> QED BY <1>12, <2>1 DEF File!BarriersOrdered, File!FileInv, File!SinkAgrees, File!WriteLine
<1> QED BY <1>8, <1>9, <1>10, <1>11, <1>12, <1>13 DEF File!FileInv

(* Every step keeps the invariant. *)
LEMMA FileStepOK == File!FileConstants /\ File!FileInv /\ File!FileNext => File!FileInv'
<1> SUFFICES ASSUME File!FileConstants, File!FileInv, File!FileNext PROVE File!FileInv'
  OBVIOUS
<1> DEFINE Tasks == [request : File!Requests \cup {"event"}, ticket : Nat]
           CallerType == [at : {"idle", "announced", "waiting", "stopped"},
                          request : File!Requests \cup {"none"}, ticket : Nat]
<1>1. v5 \in [Callers -> CallerType] /\ v9 = 1..File!Finished /\ File!Finished \in Nat
  BY DEF File!FileInv, File!FileTypeOK, File!InOrder
<1> HIDE DEF Tasks, CallerType
<1>2. ASSUME UNCHANGED <<v3, v2, v6, v8, v9>>
      PROVE  /\ File!InOrder' /\ File!LinesUpTo(v8, File!Finished)'
             /\ File!OneRequest' /\ File!BarriersOrdered'
  BY <1>2
     DEF File!FileInv, File!InOrder, File!LinesUpTo, File!OneRequest, File!BarriersOrdered,
         File!LinesOrdered, File!Finished
<1>3. ASSUME NEW p \in Producers, File!ForFile(p) PROVE File!FileInv'
  <2>1. File!FileTypeOK' /\ File!Awaited' /\ File!SinkAgrees'
    BY <1>3
       DEF File!FileInv, File!FileTypeOK, File!Awaited, File!IsIn, File!SinkAgrees,
           File!ForFile, File!threadVars
  <2> QED BY <1>2, <1>3, <2>1 DEF File!FileInv, File!ForFile, File!threadVars
<1>4. ASSUME NEW p \in Producers, File!QueueEvent(p) PROVE File!FileInv'
  <2>1. CASE File!Submit("event")
    <3>1. UNCHANGED <<v5, v1, v6, v7, v8, v9>>
      BY <1>4 DEF File!QueueEvent, File!threadVars
    <3>2. /\ v3' \in Nat /\ v2' \in Seq([request : File!Requests \cup {"event"}, ticket : Nat])
          /\ File!InOrder' /\ File!Finished' = File!Finished
          /\ \A i \in DOMAIN v2 : i \in DOMAIN v2' /\ v2'[i] = v2[i]
      BY <2>1, <3>1, SubmitOK DEF File!FileInv
    <3>3. File!FileTypeOK' /\ File!SinkAgrees'
      BY <3>1, <3>2 DEF File!FileInv, File!FileTypeOK, File!SinkAgrees
    <3>4. File!Awaited'
      BY <3>1, <3>2 DEF File!FileInv, File!Awaited, File!IsIn
    <3>5. File!LinesUpTo(v8, File!Finished)' /\ File!OneRequest' /\ File!BarriersOrdered'
      BY <3>1, <3>2
         DEF File!FileInv, File!LinesUpTo, File!OneRequest, File!BarriersOrdered,
             File!LinesOrdered
    <3> QED BY <3>2, <3>3, <3>4, <3>5 DEF File!FileInv
  <2>2. CASE UNCHANGED <<v3, v2>>
    <3>1. UNCHANGED <<v5, v1, v6, v7, v8, v9>>
      BY <1>4 DEF File!QueueEvent, File!threadVars
    <3>2. File!FileTypeOK' /\ File!Awaited' /\ File!SinkAgrees'
      BY <2>2, <3>1 DEF File!FileInv, File!FileTypeOK, File!Awaited, File!IsIn, File!SinkAgrees
    <3> QED BY <1>2, <2>2, <3>1, <3>2 DEF File!FileInv
  <2> QED BY <1>4, <2>1, <2>2 DEF File!QueueEvent
<1>5. ASSUME NEW c \in Callers, NEW r \in File!Requests, File!Announce(c, r) PROVE File!FileInv'
  <2>1. /\ v5[c].at = "idle" /\ v5[c].request = "none"
        /\ UNCHANGED <<v3, v2, v6, v7, v8, v9>>
        /\ v1' = (v1 /\ r \notin {"disable", "stop"})
        /\ \A d \in Callers : d # c => v5'[d] = v5[d]
        /\ v5'[c] = [at |-> "announced", request |-> r, ticket |-> 0]
    BY <1>1, <1>5 DEF File!Announce, File!threadVars, File!FileInv, File!Awaited
  <2>2. v5' \in [Callers -> CallerType]
    BY <1>1, <1>5 DEF File!Announce, CallerType
  <2>3. File!FileTypeOK'
    BY <2>1, <2>2 DEF File!FileInv, File!FileTypeOK, CallerType
  <2>4. File!Awaited'
    <3> SUFFICES ASSUME NEW d \in Callers
                 PROVE  /\ v5'[d].at = "idle" <=> v5'[d].request = "none"
                        /\ v5'[d].at = "waiting" => File!IsIn(v6, d)' \/ File!IsIn(v2, d)'
      BY DEF File!Awaited
    <3>1. CASE d = c
      <4>1. r # "none"
        BY DEF File!Requests
      <4> QED BY <2>1, <3>1, <4>1
    <3>2. CASE d # c
      BY <2>1, <3>2 DEF File!FileInv, File!Awaited, File!IsIn
    <3> QED BY <3>1, <3>2
  <2>5. File!SinkAgrees'
    <3>1. v1' => v7'
      BY <2>1 DEF File!FileInv, File!SinkAgrees
    <3>2. ASSUME v7', ~v1'
          PROVE  \E d \in Callers : v5'[d].request \in {"disable", "stop"}
      <4>1. CASE r \in {"disable", "stop"}
        BY <2>1, <4>1
      <4>2. CASE ~v1
        <5>1. PICK d \in Callers : v5[d].request \in {"disable", "stop"}
          BY <2>1, <3>2, <4>2 DEF File!FileInv, File!SinkAgrees
        <5>2. d # c
          BY <2>1, <5>1
        <5> QED BY <2>1, <5>1, <5>2
      <4> QED BY <2>1, <3>2, <4>1, <4>2
    <3> QED BY <3>1, <3>2 DEF File!SinkAgrees
  <2> QED BY <1>2, <2>1, <2>3, <2>4, <2>5 DEF File!FileInv
<1>6. ASSUME NEW c \in Callers, File!QueueRequest(c) PROVE File!FileInv'
  <2>1. /\ v5[c].at = "announced" /\ File!Submit(v5[c].request)
        /\ UNCHANGED <<v1, v6, v7, v8, v9>>
        /\ v5' = [v5 EXCEPT ![c].at = "waiting", ![c].ticket = v3']
    BY <1>6 DEF File!QueueRequest, File!threadVars
  <2>2. v5[c].request \in File!Requests
    BY <1>1, <2>1 DEF File!FileInv, File!Awaited, CallerType
  <2>3. /\ v3' \in Nat
        /\ v2' \in Seq([request : File!Requests \cup {"event"}, ticket : Nat])
        /\ File!InOrder' /\ File!Finished' = File!Finished
        /\ \A i \in DOMAIN v2 : i \in DOMAIN v2' /\ v2'[i] = v2[i]
        /\ \E i \in DOMAIN v2' :
             v2'[i].request = v5[c].request /\ v2'[i].ticket = v3'
    BY <2>1, <2>2, SubmitOK DEF File!FileInv
  <2>4. /\ v5' \in [Callers -> CallerType]
        /\ v5'[c].at = "waiting" /\ v5'[c].request = v5[c].request
        /\ v5'[c].ticket = v3'
        /\ \A d \in Callers : d # c => v5'[d] = v5[d]
    BY <1>1, <2>1, <2>3 DEF CallerType
  <2>5. File!FileTypeOK'
    BY <2>1, <2>3, <2>4 DEF File!FileInv, File!FileTypeOK, CallerType
  <2>6. File!Awaited'
    <3> SUFFICES ASSUME NEW d \in Callers
                 PROVE  /\ v5'[d].at = "idle" <=> v5'[d].request = "none"
                        /\ v5'[d].at = "waiting" => File!IsIn(v6, d)' \/ File!IsIn(v2, d)'
      BY DEF File!Awaited
    <3>1. CASE d = c
      <4>1. File!IsIn(v2, c)'
        BY <2>3, <2>4 DEF File!IsIn
      <4> QED BY <2>2, <2>4, <3>1, <4>1 DEF File!Requests
    <3>2. CASE d # c
      BY <2>1, <2>3, <2>4, <3>2 DEF File!FileInv, File!Awaited, File!IsIn
    <3> QED BY <3>1, <3>2
  <2>7. File!SinkAgrees'
    <3>1. \A d \in Callers : v5'[d].request = v5[d].request
      BY <2>4
    <3> QED BY <2>1, <3>1 DEF File!FileInv, File!SinkAgrees
  <2>8. File!LinesUpTo(v8, File!Finished)' /\ File!OneRequest' /\ File!BarriersOrdered'
    BY <2>1, <2>3
       DEF File!FileInv, File!LinesUpTo, File!OneRequest, File!BarriersOrdered, File!LinesOrdered
  <2> QED BY <2>3, <2>5, <2>6, <2>7, <2>8 DEF File!FileInv
<1>7. CASE File!Take
  BY <1>7, TakeOK
<1>8. CASE File!WriteLine
  BY <1>8, WriteLineOK
<1>9. ASSUME File!Finish, UNCHANGED <<v3, v2>>, v1' \in BOOLEAN, v7' \in BOOLEAN,
             v8' \in Seq(Seq(Nat)), v8' # <<>>, File!LinesOrdered(v8'),
             File!LinesUpTo(v8', File!Finished)
      PROVE  /\ File!FileTypeOK' /\ File!InOrder' /\ File!LinesUpTo(v8, File!Finished)'
             /\ File!OneRequest' /\ File!Awaited' /\ File!BarriersOrdered'
  <2>1. /\ File!InOrder' /\ File!OneRequest' /\ File!Awaited'
        /\ File!Finished' \in Nat /\ File!Finished <= File!Finished'
        /\ v6' \in Seq([request : File!Requests \cup {"event"}, ticket : Nat])
        /\ v5' \in [Callers -> [at : {"idle", "announced", "waiting", "stopped"},
                                    request : File!Requests \cup {"none"}, ticket : Nat]]
    BY <1>9, FinishOK
  <2>2. File!FileTypeOK'
    BY <1>9, <2>1 DEF File!FileInv, File!FileTypeOK
  <2>3. File!LinesUpTo(v8', File!Finished')
    <3>1. ASSUME NEW i \in DOMAIN v8', NEW m \in DOMAIN v8'[i] PROVE v8'[i][m] <= File!Finished'
      <4>1. v8'[i] \in Seq(Nat)
        BY <1>9, ElementOfSeq, LenProperties
      <4>2. v8'[i][m] \in Nat /\ v8'[i][m] <= File!Finished
        BY <1>9, <4>1, ElementOfSeq, LenProperties DEF File!LinesUpTo
      <4> QED BY <1>1, <2>1, <4>2
    <3> QED BY <3>1 DEF File!LinesUpTo
  <2>4. File!BarriersOrdered'
    BY <1>9, <2>1 DEF File!BarriersOrdered, File!InOrder, File!LinesOrdered
  <2> QED BY <2>1, <2>2, <2>3, <2>4 DEF File!LinesUpTo
<1>10. ASSUME File!Finish, UNCHANGED <<v3, v2, v1, v7>>, ~File!Taken("disable")
       PROVE  File!SinkAgrees'
  <2>1. ASSUME NEW c \in Callers, v5[c].request \in {"disable", "stop"}
        PROVE  v5'[c].request = v5[c].request
    <3> SUFFICES ASSUME v5[c].request = "disable", File!IsIn(v6, c) PROVE FALSE
      BY <1>10, <2>1, FinishOK
    <3>1. PICK i \in DOMAIN v6 : v6[i].request = "disable"
      BY DEF File!IsIn
    <3>2. Len(v6) = 1 /\ DOMAIN v6 = 1..1 /\ v6 # <<>>
      BY <3>1, LenProperties, EmptySeq DEF File!FileInv, File!FileTypeOK, File!OneRequest
    <3>3. Head(v6) = v6[1]
      OBVIOUS
    <3> QED BY <1>10, <3>1, <3>2, <3>3 DEF File!Taken
  <2> QED BY <1>10, <2>1 DEF File!FileInv, File!SinkAgrees
<1>11. /\ v8 \in Seq(Seq(Nat)) /\ v8 # <<>> /\ File!LinesOrdered(v8)
       /\ File!LinesUpTo(v8, File!Finished)
       /\ v1 \in BOOLEAN /\ v7 \in BOOLEAN
  BY DEF File!FileInv, File!FileTypeOK, File!BarriersOrdered
<1>12. CASE File!DropBatch
  <2>1. /\ File!Finish /\ UNCHANGED <<v3, v2, v1, v7>> /\ v8' = v8
        /\ ~File!Taken("disable")
    BY <1>12 DEF File!DropBatch, File!Taken
  <2> QED BY <1>9, <1>10, <1>11, <2>1 DEF File!FileInv
<1>13. CASE File!ConfigureFile
  <2>1. /\ File!Finish /\ UNCHANGED <<v3, v2>> /\ v8' = v8
        /\ v7' \in BOOLEAN /\ v1' = v7'
    BY <1>13 DEF File!ConfigureFile
  <2>2. File!SinkAgrees'
    BY <2>1 DEF File!SinkAgrees
  <2> QED BY <1>9, <1>11, <2>1, <2>2 DEF File!FileInv
<1>14. CASE File!ClearFile
  <2>1. /\ File!Finish /\ UNCHANGED <<v3, v2, v1, v7>>
        /\ v8' = [v8 EXCEPT ![1] = <<>>] /\ ~File!Taken("disable")
    BY <1>14 DEF File!ClearFile, File!Taken
  <2>2. 1 \in 1..Len(v8) /\ <<>> \in Seq(Nat) /\ DOMAIN <<>> = {}
    BY <1>11, LenProperties, EmptySeq
  <2>3. /\ v8' \in Seq(Seq(Nat)) /\ DOMAIN v8' = DOMAIN v8
        /\ v8'[1] = <<>> /\ \A i \in DOMAIN v8 : i # 1 => v8'[i] = v8[i]
    BY <1>11, <2>1, <2>2, ExceptSeq, LenProperties
  <2>4. v8' # <<>>
    BY <1>11, <2>2, <2>3, EmptySeq, LenProperties
  <2>5. \A i \in DOMAIN v8' : \A m \in DOMAIN v8'[i] : i # 1 /\ v8'[i] = v8[i]
    BY <2>2, <2>3
  <2>6. File!LinesOrdered(v8') /\ File!LinesUpTo(v8', File!Finished)
    BY <1>11, <2>3, <2>5 DEF File!LinesOrdered, File!LinesUpTo
  <2> QED BY <1>9, <1>10, <1>11, <2>1, <2>3, <2>4, <2>6 DEF File!FileInv
<1>15. CASE File!FlushOrStop
  <2>1. /\ File!Finish /\ UNCHANGED <<v3, v2, v1, v7>> /\ v8' = v8
        /\ ~File!Taken("disable")
    BY <1>15 DEF File!FlushOrStop, File!Taken
  <2> QED BY <1>9, <1>10, <1>11, <2>1 DEF File!FileInv
<1>16. CASE File!FileFails
  <2>1. /\ File!Finish /\ UNCHANGED <<v3, v2>> /\ v8' = v8
        /\ v7' = FALSE /\ v1' = FALSE
    BY <1>16 DEF File!FileFails, File!Disabled
  <2>2. File!SinkAgrees'
    BY <2>1 DEF File!SinkAgrees
  <2> QED BY <1>9, <1>11, <2>1, <2>2 DEF File!FileInv
<1> QED BY <1>3, <1>4, <1>5, <1>6, <1>7, <1>8, <1>12, <1>13, <1>14, <1>15, <1>16 DEF File!FileNext

FileLogHolds == component = "file" => File!FileInv

(* Tasks of the log file are finished in the order they were submitted, so *)
(* a clear or a flush waits for every event before it; lines stay in that  *)
(* order across rotations; producers and the thread agree whether the file *)
(* is on but while a request turns it off, however disks fail.             *)
THEOREM FileLogHold == Spec => []FileLogSound
<1>1. Init => FileLogHolds
  BY FileInitOK DEF Init, FileLogHolds
<1>2. FileLogHolds /\ [Next]_vars => FileLogHolds'
  <2> SUFFICES ASSUME FileLogHolds, [Next]_vars, component = "file", component' = component
               PROVE  File!FileInv'
    BY DEF FileLogHolds, Next, vars
  <2>1. CASE File!FileNext
    BY <2>1, FileStepOK, SurroundingsConstants DEF FileLogHolds
  <2>2. CASE UNCHANGED vars
    BY <2>2 DEF FileLogHolds, vars, after3, after6, after7, after8, File!FileInv,
       File!FileTypeOK, File!InOrder, File!OneRequest, File!Awaited, File!IsIn, File!Finished,
       File!LinesUpTo, File!LinesOrdered, File!BarriersOrdered, File!SinkAgrees
  <2> QED BY <2>1, <2>2 DEF Next
<1>3. FileLogHolds => FileLogSound
  BY DEF FileLogHolds, FileLogSound, File!FileInv
<1> QED BY <1>1, <1>2, <1>3, PTL DEF Spec
-----------------------------------------------------------------------------
(* The configuration file.                                                 *)

(* Nothing is written at first. *)
LEMMA ConfigInitOK == Saving!ConfigInit => Saving!ConfigInv
<1> SUFFICES ASSUME Saving!ConfigInit PROVE Saving!ConfigInv
  OBVIOUS
<1> USE SurroundingsConstants DEF Saving!ConfigInit, Saving!ConfigConstants
<1>1. Saving!ConfigTypeOK
  BY DEF Saving!ConfigTypeOK, Saving!Contents, Saving!Savers
<1>2. Saving!VerifiedFirst /\ Saving!TargetKept
  BY DEF Saving!VerifiedFirst, Saving!TargetKept, Saving!Savers
<1> QED BY <1>1, <1>2 DEF Saving!ConfigInv

(* A step of save_config, of either process, keeps the invariant: a file   *)
(* is published only after it has been read back.                          *)
LEMMA SaverStep ==
  ASSUME Saving!ConfigInv, NEW s \in Saving!Savers,
         \/ Saving!CheckTarget(s) \/ Saving!WriteTemp(s) \/ Saving!VerifyTemp(s)
         \/ Saving!BackUp(s) \/ Saving!FinishBackUp(s) \/ Saving!Rename(s) \/ Saving!ReplaceFile(s)
  PROVE  Saving!ConfigInv'
<1>0. DefaultConfig \in Configs /\ "none" \notin Configs /\ "torn" \notin Configs
  BY SurroundingsConstants DEF Saving!ConfigConstants
<1> DEFINE Ats == {"idle", "checking", "writing", "verifying", "publishing", "copying",
                   "renaming", "done", "failed"}
           Active == {"publishing", "copying", "renaming"}
           Temps == [Saving!Savers -> Saving!Contents]
<1>1. /\ v3 \in Temps /\ v4 \in [Saving!Savers -> [at : Ats, config : Saving!Contents]]
      /\ v2 \in [target : Saving!Contents, backup : Saving!Contents]
      /\ v1 \in BOOLEAN /\ v8 \in BOOLEAN
      /\ {"none", "torn"} \subseteq Saving!Contents
  BY DEF Saving!ConfigInv, Saving!ConfigTypeOK, Saving!Contents
<1>2. ASSUME NEW at \in Ats, Saving!Goes(s, at), Saving!OthersUnchanged, v3' \in Temps,
             \A o \in Saving!Savers : o # s => v3'[o] = v3[o],
             at \in Active => Saving!Readable(v3'[s]), at = "copying" => ~v1
      PROVE  Saving!VerifiedFirst'
             /\ (v2' \in [target : Saving!Contents, backup : Saving!Contents] /\ v8' \in BOOLEAN
                   => Saving!ConfigTypeOK')
  <2>1. /\ v4' \in [Saving!Savers -> [at : Ats, config : Saving!Contents]] /\ v4'[s].at = at
        /\ \A o \in Saving!Savers : o # s => v4'[o] = v4[o]
    <3> HIDE DEF Ats
    <3> QED BY <1>1, <1>2 DEF Saving!Goes
  <2>2. v1' = v1 /\ UNCHANGED <<v5, v6, v7>>
    BY <1>2 DEF Saving!OthersUnchanged
  <2>3. ASSUME NEW o \in Saving!Savers
        PROVE  /\ v4'[o].at \in Active => Saving!Readable(v3'[o])
               /\ v4'[o].at = "copying" => ~v1
    <3>1. CASE o = s
      BY <1>2, <2>1, <3>1
    <3>2. CASE o # s
      BY <1>2, <2>1, <3>2 DEF Saving!ConfigInv, Saving!VerifiedFirst
    <3> QED BY <3>1, <3>2
  <2>4. Saving!VerifiedFirst'
    BY <2>2, <2>3 DEF Saving!VerifiedFirst, Saving!Readable
  <2> QED BY <1>1, <1>2, <2>1, <2>2, <2>4 DEF Saving!ConfigInv, Saving!ConfigTypeOK
<1>3. ASSUME NEW t \in Saving!Contents, v3' = [v3 EXCEPT ![s] = t]
      PROVE  v3' \in Temps /\ v3'[s] = t /\ \A o \in Saving!Savers : o # s => v3'[o] = v3[o]
  BY <1>1, <1>3
<1>4. ASSUME UNCHANGED <<v2, v8>>, Saving!OthersUnchanged PROVE Saving!TargetKept'
  BY <1>4 DEF Saving!ConfigInv, Saving!TargetKept, Saving!Readable, Saving!OthersUnchanged
<1> HIDE DEF Temps
<1>5. ASSUME NEW at \in Ats \ Active, Saving!Goes(s, at), NEW t \in Saving!Contents,
             v3' = [v3 EXCEPT ![s] = t], UNCHANGED <<v2, v8>>, Saving!OthersUnchanged
      PROVE  Saving!ConfigInv'
  <2>1. v3' \in Temps /\ \A o \in Saving!Savers : o # s => v3'[o] = v3[o]
    BY <1>3, <1>5
  <2>2. Saving!VerifiedFirst' /\ Saving!ConfigTypeOK'
    BY <1>1, <1>2, <1>5, <2>1
  <2> QED BY <1>4, <1>5, <2>2 DEF Saving!ConfigInv
<1>6. ASSUME Saving!SaveFails(s), UNCHANGED <<v2, v8>>, Saving!OthersUnchanged
      PROVE  Saving!ConfigInv'
  BY <1>1, <1>5, <1>6 DEF Saving!SaveFails
<1>7. ASSUME Saving!Published(s), Saving!Readable(v3[s]), Saving!OthersUnchanged
      PROVE  Saving!ConfigInv'
  <2>1. /\ v2' = [v2 EXCEPT !.target = v3[s]] /\ v3' = [v3 EXCEPT ![s] = "none"]
        /\ Saving!Goes(s, "done") /\ v8' = TRUE
    BY <1>7 DEF Saving!Published
  <2>2. v3[s] \in Saving!Contents
    BY <1>1 DEF Temps
  <2>3. v2' \in [target : Saving!Contents, backup : Saving!Contents] /\ v2'.target = v3[s]
    BY <1>1, <2>1, <2>2
  <2>4. v3' \in Temps /\ \A o \in Saving!Savers : o # s => v3'[o] = v3[o]
    BY <1>1, <1>3, <2>1
  <2>5. Saving!VerifiedFirst' /\ Saving!ConfigTypeOK'
    BY <1>2, <1>7, <2>1, <2>3, <2>4
  <2>6. Saving!TargetKept'
    BY <1>0, <1>7, <2>1, <2>3 DEF Saving!TargetKept, Saving!Readable
  <2> QED BY <2>5, <2>6 DEF Saving!ConfigInv
<1>8. CASE Saving!CheckTarget(s)
  <2>1. \/ Saving!Goes(s, "writing") /\ v3' = [v3 EXCEPT ![s] = "torn"]
        \/ Saving!Goes(s, "failed") /\ v3' = [v3 EXCEPT ![s] = v3[s]]
    BY <1>1, <1>8 DEF Saving!CheckTarget, Temps
  <2>2. UNCHANGED <<v2, v8>> /\ Saving!OthersUnchanged
    BY <1>8 DEF Saving!CheckTarget
  <2>3. v3[s] \in Saving!Contents
    BY <1>1 DEF Temps
  <2> QED BY <1>1, <1>5, <2>1, <2>2, <2>3
<1>9. CASE Saving!WriteTemp(s)
  <2>1. UNCHANGED <<v2, v8>> /\ Saving!OthersUnchanged
    BY <1>9 DEF Saving!WriteTemp
  <2>2. CASE Saving!SaveFails(s)
    BY <1>6, <2>1, <2>2
  <2>3. ASSUME NEW written \in {v4[s].config, "torn"},
               Saving!Goes(s, "verifying"), v3' = [v3 EXCEPT ![s] = written]
        PROVE  Saving!ConfigInv'
    <3>1. written \in Saving!Contents
      BY <1>1
    <3> QED BY <1>5, <2>1, <2>3, <3>1
  <2> QED BY <1>9, <2>2, <2>3 DEF Saving!WriteTemp
<1>10. CASE Saving!VerifyTemp(s)
  <2>1. UNCHANGED <<v2, v8>> /\ Saving!OthersUnchanged
    BY <1>10 DEF Saving!VerifyTemp
  <2>2. CASE Saving!SaveFails(s)
    BY <1>6, <2>1, <2>2
  <2>3. CASE Saving!Readable(v3[s]) /\ Saving!Goes(s, "publishing") /\ UNCHANGED v3
    <3>1. Saving!Readable(v3'[s]) /\ v3' \in Temps
      BY <1>1, <2>3
    <3>2. Saving!VerifiedFirst' /\ Saving!ConfigTypeOK'
      BY <1>1, <1>2, <2>1, <2>3, <3>1
    <3> QED BY <1>4, <2>1, <3>2 DEF Saving!ConfigInv
  <2> QED BY <1>10, <2>2, <2>3 DEF Saving!VerifyTemp
<1>11. CASE Saving!BackUp(s)
  <2>1. /\ v4[s].at = "publishing" /\ ~v1 /\ v2' = [v2 EXCEPT !.backup = "torn"]
        /\ Saving!Goes(s, "copying") /\ UNCHANGED <<v3, v8>> /\ Saving!OthersUnchanged
    BY <1>11 DEF Saving!BackUp
  <2>2. /\ v2' \in [target : Saving!Contents, backup : Saving!Contents] /\ v2'.target = v2.target
        /\ v3' \in Temps /\ v8' \in BOOLEAN /\ v1' = v1
    BY <1>1, <2>1 DEF Saving!OthersUnchanged
  <2>3. Saving!Readable(v3'[s])
    BY <2>1 DEF Saving!ConfigInv, Saving!VerifiedFirst, Saving!Readable
  <2>4. Saving!VerifiedFirst' /\ Saving!ConfigTypeOK'
    BY <1>2, <2>1, <2>2, <2>3
  <2>5. Saving!TargetKept'
    BY <2>1, <2>2 DEF Saving!ConfigInv, Saving!TargetKept, Saving!Readable
  <2> QED BY <2>4, <2>5 DEF Saving!ConfigInv
<1>12. CASE Saving!FinishBackUp(s)
  <2>1. v4[s].at = "copying" /\ v8' = v8 /\ Saving!OthersUnchanged /\ ~v1 /\ v1' = v1
    BY <1>12 DEF Saving!FinishBackUp, Saving!ConfigInv, Saving!VerifiedFirst, Saving!OthersUnchanged
  <2>2. CASE Saving!SaveFails(s) /\ UNCHANGED v2
    BY <1>6, <2>1, <2>2
  <2>3. CASE v2' = [v2 EXCEPT !.backup = v2.target] /\ Saving!Goes(s, "renaming") /\ UNCHANGED v3
    <3>1. /\ v2' \in [target : Saving!Contents, backup : Saving!Contents] /\ v2'.target = v2.target
          /\ v3' \in Temps /\ v8' \in BOOLEAN
      BY <1>1, <2>1, <2>3
    <3>2. Saving!Readable(v3'[s])
      BY <2>1, <2>3 DEF Saving!ConfigInv, Saving!VerifiedFirst, Saving!Readable
    <3>3. Saving!VerifiedFirst' /\ Saving!ConfigTypeOK'
      BY <1>2, <2>1, <2>3, <3>1, <3>2
    <3>4. Saving!TargetKept'
      BY <2>1, <3>1 DEF Saving!ConfigInv, Saving!TargetKept, Saving!Readable
    <3> QED BY <3>3, <3>4 DEF Saving!ConfigInv
  <2> QED BY <1>12, <2>2, <2>3 DEF Saving!FinishBackUp
<1>13. CASE Saving!Rename(s)
  <2>1. v4[s].at \in {"publishing", "renaming"} /\ Saving!OthersUnchanged
        /\ \/ Saving!Published(s)
           \/ Saving!SaveFails(s) /\ UNCHANGED <<v2, v8>>
    BY <1>13 DEF Saving!Rename
  <2>2. Saving!Readable(v3[s])
    BY <2>1 DEF Saving!ConfigInv, Saving!VerifiedFirst
  <2> QED BY <1>6, <1>7, <2>1, <2>2
<1>14. CASE Saving!ReplaceFile(s)
  <2>1. v4[s].at = "publishing" /\ v1 /\ v1' = v1 /\ Saving!OthersUnchanged
    BY <1>14 DEF Saving!ReplaceFile, Saving!OthersUnchanged
  <2>2. Saving!Readable(v3[s]) /\ v3[s] \in Saving!Contents
    BY <1>1, <2>1 DEF Saving!ConfigInv, Saving!VerifiedFirst, Temps
  <2>3. ASSUME NEW target \in Saving!Contents, v2.target # "none",
               v2' = [target |-> target, backup |-> v2.target], target # "torn",
               NEW at \in {"done", "failed"}, Saving!Goes(s, at), v3' = [v3 EXCEPT ![s] = "none"],
               UNCHANGED v8
        PROVE  Saving!ConfigInv'
    <3>1. /\ v2' \in [target : Saving!Contents, backup : Saving!Contents]
          /\ v2'.target = target /\ v2'.backup = v2.target
      BY <1>1, <2>3
    <3>2. v3' \in Temps /\ \A o \in Saving!Savers : o # s => v3'[o] = v3[o]
      BY <1>1, <1>3, <2>3
    <3>3. Saving!VerifiedFirst' /\ Saving!ConfigTypeOK'
      BY <1>1, <1>2, <2>1, <2>3, <3>1, <3>2
    <3>4. Saving!Readable(v2'.backup)
      BY <1>1, <2>3, <3>1 DEF Saving!ConfigInv, Saving!TargetKept, Saving!Readable, Saving!Contents
    <3>5. Saving!TargetKept'
      BY <2>1, <2>3, <3>1, <3>4 DEF Saving!TargetKept, Saving!Readable
    <3> QED BY <3>3, <3>5 DEF Saving!ConfigInv
  <2>4. \/ Saving!Published(s)
        \/ Saving!SaveFails(s) /\ UNCHANGED <<v2, v8>>
        \/ v2.target # "none" /\ v2' = [target |-> v3[s], backup |-> v2.target]
             /\ v3' = [v3 EXCEPT ![s] = "none"] /\ Saving!Goes(s, "done") /\ UNCHANGED v8
        \/ v2.target # "none" /\ v2' = [target |-> "none", backup |-> v2.target]
             /\ Saving!SaveFails(s) /\ UNCHANGED v8
    BY <1>14 DEF Saving!ReplaceFile
  <2>5. v3[s] # "torn"
    BY <1>0, <2>2 DEF Saving!Readable
  <2>6. Saving!SaveFails(s) => Saving!Goes(s, "failed") /\ v3' = [v3 EXCEPT ![s] = "none"]
    BY DEF Saving!SaveFails
  <2> QED BY <1>1, <1>6, <1>7, <2>1, <2>2, <2>3, <2>4, <2>5, <2>6
<1> QED BY <1>8, <1>9, <1>10, <1>11, <1>12, <1>13, <1>14

(* The GUI and CoreHost begin and end saves, and leave the files alone.    *)
LEMMA OwnersStep ==
  ASSUME Saving!ConfigInv,
         \/ Saving!OpenGui \/ Saving!Saved \/ Saving!Apply \/ Saving!ApplySaved
         \/ Saving!SendReload \/ Saving!Reloaded \/ Saving!GiveUp \/ Saving!ChangeLogging
         \/ Saving!GuiDies \/ Saving!StartCore \/ Saving!CoreCreated \/ Saving!CoreEnds
         \/ Saving!LoadRequested \/ Saving!ApplyRequested
  PROVE  Saving!ConfigInv'
<1> USE SurroundingsConstants
    DEF Saving!ConfigInv, Saving!ConfigConstants, Saving!Savers, Saving!Begin, Saving!Rest,
        Saving!FileUnchanged
<1>1. ASSUME Saving!FileUnchanged,
             \A s \in Saving!Savers : UNCHANGED (v4[s]) \/ v4'[s].at \in {"idle", "checking"}
      PROVE  Saving!VerifiedFirst' /\ Saving!TargetKept'
  BY <1>1 DEF Saving!VerifiedFirst, Saving!TargetKept, Saving!Readable
<1>2. Saving!Refused \in [at : {"up"}, config : Saving!Contents, former : Saving!Contents,
                          previous : Saving!Contents, dialog : BOOLEAN]
  BY DEF Saving!Refused, Saving!ConfigTypeOK
<1>3. CASE Saving!OpenGui
  <2>1. Saving!ConfigTypeOK'
    <3>1. \E config \in Saving!Contents : v5' = [v5 EXCEPT !.at = "up", !.config = config]
                                          \/ v5' = [v5 EXCEPT !.at = "creating", !.config = config]
      BY <1>3 DEF Saving!OpenGui, Saving!ConfigTypeOK, Saving!Contents
    <3>2. v4' \in [Saving!Savers -> [at : {"idle", "checking", "writing", "verifying", "publishing",
                                         "copying", "renaming", "done", "failed"},
                                   config : Saving!Contents]]
      BY <1>3 DEF Saving!OpenGui, Saving!ConfigTypeOK, Saving!Contents
    <3> QED BY <1>3, <3>1, <3>2 DEF Saving!OpenGui, Saving!ConfigTypeOK
  <2> QED BY <1>1, <1>3, <2>1 DEF Saving!OpenGui, Saving!ConfigTypeOK
<1>4. CASE Saving!Saved
  <2>1. Saving!ConfigTypeOK'
    BY <1>4 DEF Saving!Saved, Saving!ConfigTypeOK, Saving!Contents
  <2> QED BY <1>1, <1>4, <2>1 DEF Saving!Saved, Saving!ConfigTypeOK
<1>5. CASE Saving!GuiDies
  <2>1. Saving!ConfigTypeOK'
    BY <1>5 DEF Saving!GuiDies, Saving!ConfigTypeOK, Saving!Contents
  <2> QED BY <1>1, <1>5, <2>1 DEF Saving!GuiDies, Saving!ConfigTypeOK
<1>6. CASE Saving!Apply
  <2>1. Saving!ConfigTypeOK'
    BY <1>6 DEF Saving!Apply, Saving!ConfigTypeOK, Saving!Contents
  <2> QED BY <1>1, <1>6, <2>1 DEF Saving!Apply, Saving!ConfigTypeOK
<1>7. CASE Saving!ApplySaved
  <2>1. Saving!ConfigTypeOK'
    BY <1>7, <1>2 DEF Saving!ApplySaved, Saving!ConfigTypeOK, Saving!Contents
  <2> QED BY <1>1, <1>7, <2>1 DEF Saving!ApplySaved, Saving!ConfigTypeOK
<1>8. CASE Saving!ChangeLogging
  <2>1. Saving!ConfigTypeOK'
    BY <1>8 DEF Saving!ChangeLogging, Saving!ConfigTypeOK, Saving!Contents
  <2> QED BY <1>1, <1>8, <2>1 DEF Saving!ChangeLogging, Saving!ConfigTypeOK
<1>9. CASE Saving!SendReload
  <2>1. Saving!ConfigTypeOK'
    BY <1>9 DEF Saving!SendReload, Saving!ConfigTypeOK, Saving!Contents
  <2> QED BY <1>1, <1>9, <2>1 DEF Saving!SendReload, Saving!ConfigTypeOK
<1>10. CASE Saving!Reloaded
  <2>1. Saving!ConfigTypeOK'
    BY <1>10, <1>2 DEF Saving!Reloaded, Saving!ConfigTypeOK, Saving!Contents
  <2> QED BY <1>1, <1>10, <2>1 DEF Saving!Reloaded, Saving!ConfigTypeOK
<1>11. CASE Saving!GiveUp
  <2>1. Saving!ConfigTypeOK'
    BY <1>11 DEF Saving!GiveUp, Saving!ConfigTypeOK, Saving!Contents
  <2> QED BY <1>1, <1>11, <2>1 DEF Saving!GiveUp, Saving!ConfigTypeOK
<1>12. CASE Saving!StartCore \/ Saving!CoreCreated \/ Saving!CoreEnds
  <2>1. Saving!ConfigTypeOK'
    BY <1>12 DEF Saving!StartCore, Saving!CoreCreated, Saving!CoreEnds, Saving!Readable,
                Saving!ConfigTypeOK, Saving!Contents
  <2> QED BY <1>1, <1>12, <2>1 DEF Saving!StartCore, Saving!CoreCreated, Saving!CoreEnds,
                                  Saving!ConfigTypeOK
<1>13. CASE Saving!LoadRequested \/ Saving!ApplyRequested
  <2>1. Saving!ConfigTypeOK'
    BY <1>13 DEF Saving!LoadRequested, Saving!ApplyRequested, Saving!Answer, Saving!Readable,
                Saving!ConfigTypeOK, Saving!Contents
  <2> QED BY <1>1, <1>13, <2>1 DEF Saving!LoadRequested, Saving!ApplyRequested
<1> QED BY <1>3, <1>4, <1>5, <1>6, <1>7, <1>8, <1>9, <1>10, <1>11, <1>12, <1>13

ConfigHolds == component = "saving" => Saving!ConfigInv

(* Whoever dies or fails in the middle of a save, the configuration file   *)
(* is whole, and a configuration that was published is there or in its     *)
(* backup: what is published has been read back, and what is replaced was  *)
(* readable.                                                               *)
THEOREM FileHolds == Spec => []FileWhole
<1>1. Init => ConfigHolds
  BY ConfigInitOK DEF Init, ConfigHolds
<1>2. ConfigHolds /\ [Next]_vars => ConfigHolds'
  <2> SUFFICES ASSUME ConfigHolds, [Next]_vars, component = "saving", component' = component
               PROVE  Saving!ConfigInv'
    BY DEF ConfigHolds, Next, vars
  <2>1. CASE Saving!ConfigNext
    BY <2>1, SaverStep, OwnersStep DEF ConfigHolds, Saving!ConfigNext
  <2>2. CASE UNCHANGED vars
    BY <2>2 DEF ConfigHolds, vars, after3, after6, after7, Saving!ConfigInv, Saving!ConfigTypeOK,
                Saving!VerifiedFirst, Saving!TargetKept
  <2> QED BY <2>1, <2>2 DEF Next
<1>3. ConfigHolds => FileWhole
  BY DEF ConfigHolds, FileWhole, Saving!FileWhole, Saving!ConfigInv, Saving!TargetKept
<1> QED BY <1>1, <1>2, <1>3, PTL DEF Spec
-----------------------------------------------------------------------------
(* LocalProxy of Windows.                                                  *)

(* A stopped proxy satisfies its invariant. *)
LEMMA ProxyInitOK == Proxy!ProxyInit => Proxy!ProxyInv
<1> USE DEF Proxy!Loops, Proxy!Off, Proxy!At, Proxy!Alive, Proxy!NoLoops, Proxy!NoHandlers
<1> SUFFICES ASSUME Proxy!ProxyInit PROVE Proxy!ProxyInv
  OBVIOUS
<1>1. Proxy!ProxyTypeOK
  BY DEF Proxy!ProxyInit, Proxy!ProxyTypeOK
<1>2. Proxy!Grounded /\ Proxy!StartPlaces
  BY DEF Proxy!ProxyInit, Proxy!Grounded, Proxy!StartPlaces
<1>3. Proxy!StopPlaces /\ Proxy!RestPlaces /\ Proxy!RunningPlaces
  BY DEF Proxy!ProxyInit, Proxy!StopPlaces, Proxy!RestPlaces, Proxy!RunningPlaces
<1> QED BY <1>1, <1>2, <1>3 DEF Proxy!ProxyInv

(* Executors that stop are still executors. *)
LEMMA ExecutorsStopped ==
  ASSUME Proxy!ProxyTypeOK, Proxy!StopHandlers
  PROVE  v5' \in [Proxy!Loops -> [on : BOOLEAN, queued : Nat, busy : Nat]]
<1>1. v5 \in [Proxy!Loops -> [on : BOOLEAN, queued : Nat, busy : Nat]]
  BY DEF Proxy!ProxyTypeOK
<1>2. ASSUME NEW e \in [on : BOOLEAN, queued : Nat, busy : Nat]
      PROVE  [e EXCEPT !.on = FALSE, !.queued = 0] \in [on : BOOLEAN, queued : Nat, busy : Nat]
  OBVIOUS
<1> QED BY <1>1, <1>2 DEF Proxy!StopHandlers

(* start, stop, the loops and the handlers keep the invariant. *)
LEMMA ProxyStepOK == Proxy!ProxyInv /\ Proxy!ProxyNext => Proxy!ProxyInv'
<1> SUFFICES ASSUME Proxy!ProxyInv, Proxy!ProxyNext PROVE Proxy!ProxyInv'
  OBVIOUS
<1> USE DEF Proxy!ProxyInv, Proxy!ProxyTypeOK, Proxy!Grounded, Proxy!StartPlaces,
            Proxy!StopPlaces, Proxy!RestPlaces, Proxy!RunningPlaces, Proxy!Loops, Proxy!Off,
            Proxy!At, Proxy!Goes, Proxy!Alive, Proxy!NoLoops, Proxy!NoHandlers
<1> DEFINE executor == v5
<1>1. CASE Proxy!BeginStart
  BY <1>1 DEF Proxy!BeginStart
<1>2. CASE Proxy!CreateEvents
  BY <1>2 DEF Proxy!CreateEvents
<1>3. CASE Proxy!BindPair
  BY <1>3 DEF Proxy!BindPair
<1>4. CASE Proxy!StartHandlers
  BY <1>4 DEF Proxy!StartHandlers
<1>5. CASE Proxy!Fails
  BY <1>5 DEF Proxy!Fails
<1>6. CASE Proxy!BeginStop
  BY <1>6 DEF Proxy!BeginStop
<1>7. CASE Proxy!JoinLoops
  <2>1. /\ Proxy!At("joining") /\ Proxy!Goes("handlers") /\ UNCHANGED <<v1, v2, v3, v5>>
        /\ v4' = [l \in Proxy!Loops |-> "none"]
    BY <1>7 DEF Proxy!JoinLoops
  <2>2. \A l \in Proxy!Loops : v4'[l] = "none"
    BY <2>1
  <2>3. Proxy!ProxyTypeOK'
    BY <2>1
  <2>4. Proxy!Grounded'
    BY <2>1, <2>2
  <2>5. Proxy!StartPlaces' /\ Proxy!StopPlaces'
    BY <2>1, <2>2
  <2>6. Proxy!RestPlaces' /\ Proxy!RunningPlaces'
    BY <2>1
  <2> QED BY <2>3, <2>4, <2>5, <2>6
<1>8. CASE Proxy!StopHandlers
  <2>1. Proxy!ProxyTypeOK'
    <3>1. Proxy!Goes("draining") /\ UNCHANGED <<v1, v2, v3, v4>>
      BY <1>8 DEF Proxy!StopHandlers
    <3>2. executor' \in [Proxy!Loops -> [on : BOOLEAN, queued : Nat, busy : Nat]]
      BY <1>8, ExecutorsStopped
    <3> HIDE DEF executor
    <3> QED BY <3>1, <3>2 DEF executor
  <2>2. \A l \in Proxy!Loops :
          ~executor'[l].on /\ executor'[l].queued = 0 /\ executor'[l].busy = executor[l].busy
    BY <1>8 DEF Proxy!StopHandlers
  <2>3. \A l \in Proxy!Loops :
          /\ ~executor'[l].on /\ executor'[l].queued = 0
          /\ executor[l] = Proxy!Off => executor'[l] = Proxy!Off
    BY <2>1, <2>2
  <2> HIDE DEF executor
  <2>4. Proxy!Grounded' /\ Proxy!StartPlaces' /\ Proxy!StopPlaces'
    BY <1>8, <2>3 DEF Proxy!StopHandlers, executor
  <2>5. Proxy!RestPlaces' /\ Proxy!RunningPlaces'
    BY <1>8 DEF Proxy!StopHandlers
  <2> QED BY <2>1, <2>4, <2>5
<1>9. CASE Proxy!Cleanup
  BY <1>9 DEF Proxy!Cleanup
<1>10. ASSUME NEW l \in Proxy!Loops, Proxy!SpawnLoop(l) PROVE Proxy!ProxyInv'
  BY <1>10 DEF Proxy!SpawnLoop
<1>11. ASSUME NEW l \in Proxy!Loops,
              Proxy!LoopStops(l) \/ Proxy!LoopThrows(l) \/ Proxy!LoopReports(l)
       PROVE  Proxy!ProxyInv'
  <2>1. /\ UNCHANGED <<v3, v5, v6>> /\ v4[l] \in {"waiting", "failing"}
        /\ \/ UNCHANGED <<v1, v2>> /\ v4' = [v4 EXCEPT ![l] = "ended"] /\ v2 = "set"
           \/ UNCHANGED <<v1, v2>> /\ v4' = [v4 EXCEPT ![l] = "failing"]
           \/ v1' = "error" /\ v2' = "set" /\ v4' = [v4 EXCEPT ![l] = "ended"]
    BY <1>11 DEF Proxy!LoopStops, Proxy!LoopThrows, Proxy!LoopReports
  <2>2. Proxy!ProxyTypeOK'
    BY <2>1
  <2>3. /\ v4'[l] \in {"failing", "ended"} /\ \A k \in Proxy!Loops : k # l => v4'[k] = v4[k]
        /\ v4'[l] = "ended" => v2' = "set"
    BY <2>1
  <2>4. Proxy!Grounded'
    BY <2>1, <2>3
  <2>5. Proxy!StartPlaces' /\ Proxy!StopPlaces'
    BY <2>1, <2>3
  <2>6. Proxy!RestPlaces' /\ Proxy!RunningPlaces'
    BY <2>1, <2>3
  <2> QED BY <2>2, <2>4, <2>5, <2>6
<1>12. ASSUME NEW l \in Proxy!Loops,
              Proxy!Receive(l) \/ Proxy!Handle(l) \/ Proxy!Answer(l)
       PROVE  Proxy!ProxyInv'
  <2>1. Proxy!ProxyTypeOK'
    <3>1. CASE Proxy!Receive(l)
      BY <1>12, <3>1 DEF Proxy!Receive
    <3>2. CASE Proxy!Handle(l)
      BY <1>12, <3>2 DEF Proxy!Handle
    <3>3. CASE Proxy!Answer(l)
      BY <1>12, <3>3 DEF Proxy!Answer
    <3> QED BY <1>12, <3>1, <3>2, <3>3
  <2>2. /\ executor[l] # Proxy!Off /\ UNCHANGED <<v1, v2, v3, v4, v6>>
        /\ \A k \in Proxy!Loops : k # l => executor'[k] = executor[k]
        /\ executor'[l].on = executor[l].on
    BY <1>12 DEF Proxy!Receive, Proxy!Handle, Proxy!Answer
  <2>3. executor[l].queued = 0 /\ ~executor[l].on => executor'[l].queued = 0
    BY <1>12 DEF Proxy!Receive, Proxy!Handle, Proxy!Answer
  <2> HIDE DEF executor
  <2>4. Proxy!Grounded'
    BY <2>2, <2>3 DEF executor
  <2>5. Proxy!StartPlaces' /\ Proxy!StopPlaces'
    BY <2>2, <2>3 DEF executor
  <2>6. Proxy!RestPlaces' /\ Proxy!RunningPlaces'
    BY <2>2, <2>3 DEF executor
  <2> QED BY <2>1, <2>4, <2>5, <2>6
<1> QED BY <1>1, <1>2, <1>3, <1>4, <1>5, <1>6, <1>7, <1>8, <1>9, <1>10, <1>11, <1>12
        DEF Proxy!ProxyNext

ProxyHolds == component = "proxy" => Proxy!ProxyInv

(* The proxy for Windows keeps its invariant. *)
LEMMA ProxyCorrect == Spec => []ProxyHolds
<1>1. Init => ProxyHolds
  BY ProxyInitOK DEF Init, ProxyHolds
<1>2. ProxyHolds /\ [Next]_vars => ProxyHolds'
  <2> SUFFICES ASSUME ProxyHolds, [Next]_vars, component = "proxy", component' = component
               PROVE  Proxy!ProxyInv'
    BY DEF ProxyHolds, Next, vars
  <2>1. CASE Proxy!ProxyNext
    BY <2>1, ProxyStepOK DEF ProxyHolds
  <2>2. CASE UNCHANGED vars
    BY <2>2 DEF ProxyHolds, vars, after3, Proxy!ProxyInv, Proxy!ProxyTypeOK, Proxy!Grounded,
       Proxy!StartPlaces, Proxy!StopPlaces, Proxy!RestPlaces, Proxy!RunningPlaces, Proxy!At,
       Proxy!NoLoops, Proxy!NoHandlers
  <2> QED BY <2>1, <2>2 DEF Next
<1> QED BY <1>1, <1>2, PTL DEF Spec
-----------------------------------------------------------------------------
(* Transparent interception on Linux.                                      *)

(* A fresh provider on a machine without the table satisfies its           *)
(* invariant.                                                              *)
LEMMA LinuxInitOK == Linux!Init => Linux!RedirectInv
BY EmptySeq DEF Linux!Init, Linux!Proxy!Init, Linux!RedirectInv, Linux!RedirectTypeOK,
   Linux!ProxyStays, Linux!TableGrows, Linux!TableEmpty

(* While the provider holds the proxy running, its port does not change.   *)
LEMMA LinuxPortKept ==
  ASSUME Linux!Proxy!Internal, v1 \in {"running", "error"}
  PROVE  v1' \in {"running", "error"} /\ v3' = v3
BY DEF Linux!Proxy!Internal, Linux!Proxy!Changes, Linux!Proxy!Change, Linux!Proxy!Started,
       Linux!Proxy!StartFails, Linux!Proxy!Stopped, Linux!Proxy!Fail

(* Every step keeps the types. *)
LEMMA LinuxTypeStep == Linux!RedirectTypeOK /\ Linux!Next => Linux!RedirectTypeOK'
<1> SUFFICES ASSUME Linux!RedirectTypeOK, Linux!Next PROVE Linux!RedirectTypeOK'
  OBVIOUS
<1> USE DEF Linux!RedirectTypeOK, Linux!proxy
<1>1. CASE Linux!Start \/ Linux!Refuse \/ Linux!ProxyRefused \/ Linux!Stop
  BY <1>1 DEF Linux!Start, Linux!Refuse, Linux!ProxyRefused, Linux!Stop
<1>2. CASE Linux!StartProxy \/ Linux!ScriptFails \/ Linux!StopProxy
  BY <1>2 DEF Linux!StartProxy, Linux!ScriptFails, Linux!StopProxy, Linux!Proxy!BeginStart,
              Linux!Proxy!BeginStop
<1>3. CASE Linux!Replace \/ Linux!Undo \/ Linux!StopRedirect
  BY <1>3, EmptySeq DEF Linux!Replace, Linux!Undo, Linux!StopRedirect, Linux!Delete
<1>4. ASSUME NEW proto \in Linux!Protocols, Linux!Redirect(proto) PROVE Linux!RedirectTypeOK'
  BY <1>4, AppendProperties DEF Linux!Redirect
<1>5. CASE Linux!ProxyStep
  BY <1>5 DEF Linux!ProxyStep, Linux!Proxy!Internal, Linux!Proxy!Changes, Linux!Proxy!Change,
              Linux!Proxy!Started, Linux!Proxy!StartFails, Linux!Proxy!Stopped, Linux!Proxy!Fail
<1>6. CASE Linux!Crash
  BY <1>6 DEF Linux!Crash
<1> QED BY <1>1, <1>2, <1>3, <1>4, <1>5, <1>6 DEF Linux!Next

(* Every step keeps the invariant. *)
LEMMA LinuxStepOK == Linux!RedirectInv /\ Linux!Next => Linux!RedirectInv'
<1> SUFFICES ASSUME Linux!RedirectInv, Linux!Next PROVE Linux!RedirectInv'
  OBVIOUS
<1> USE LinuxTypeStep DEF Linux!RedirectInv, Linux!ProxyStays, Linux!TableGrows,
        Linux!TableEmpty, Linux!NatRedirect, Linux!proxy
<1>1. CASE Linux!Start \/ Linux!Refuse \/ Linux!StartProxy \/ Linux!ProxyRefused
  BY <1>1 DEF Linux!Start, Linux!Refuse, Linux!StartProxy, Linux!ProxyRefused
<1>2. CASE Linux!Replace
  BY <1>2 DEF Linux!Replace, Linux!Delete
<1>3. ASSUME NEW proto \in Linux!Protocols, Linux!Redirect(proto) PROVE Linux!RedirectInv'
  <2> DEFINE rule == [proto |-> proto, port |-> v3]
  <2>1. /\ Len(v6') = Len(v6) + 1 /\ v6'[Len(v6) + 1] = rule
        /\ \A i \in 1..Len(v6) : v6'[i] = v6[i]
    <3>1. rule \in [proto : Linux!Protocols, port : Ports \union {NoPort}] /\ v6' = Append(v6, rule)
      BY <1>3 DEF Linux!Redirect, Linux!RedirectTypeOK
    <3> HIDE DEF rule
    <3> QED BY <3>1, AppendProperties DEF Linux!RedirectTypeOK
  <2>2. Len(v6) \in Nat /\ Len(<<>>) = 0
    BY LenProperties, EmptySeq DEF Linux!RedirectTypeOK
  <2>3. CASE proto = "udp"
    BY <1>3, <2>1, <2>2, <2>3 DEF Linux!Redirect
  <2>4. CASE proto = "tcp"
    <3>1. ASSUME "undeleted" \notin v7
          PROVE  Len(v6') = 2 /\ v6'[1] = Linux!NatRedirect("udp") /\ v6'[2] = rule
      <4>1. Len(v6) = 1 /\ v6[1] = Linux!NatRedirect("udp")
        BY <1>3, <2>4, <3>1 DEF Linux!Redirect
      <4> QED BY <2>1, <4>1
    <3> QED BY <1>3, <2>4, <3>1 DEF Linux!Redirect
  <2> QED BY <2>3, <2>4 DEF Linux!Protocols
<1>4. CASE Linux!ScriptFails \/ Linux!Stop \/ Linux!StopProxy
  BY <1>4 DEF Linux!ScriptFails, Linux!Stop, Linux!StopProxy
<1>5. CASE Linux!Undo \/ Linux!StopRedirect
  BY <1>5 DEF Linux!Undo, Linux!StopRedirect, Linux!Delete
<1>6. CASE Linux!ProxyStep
  BY <1>6, LinuxPortKept DEF Linux!ProxyStep
<1>7. CASE Linux!Crash
  BY <1>7 DEF Linux!Crash
<1> QED BY <1>1, <1>2, <1>3, <1>4, <1>5, <1>6, <1>7 DEF Linux!Next

(* The two redirect properties follow from what the table holds.           *)
LEMMA LinuxMeans == Linux!RedirectInv => Linux!RunningRedirectsHere /\ Linux!NoStrayRedirect
<1>1. ASSUME Linux!RedirectInv, v5 = "idle", v4 = "running", "undeleted" \notin v7,
             NEW proto \in Linux!Protocols
      PROVE  Linux!Redirected(proto) /\ Linux!Target(proto) = v3
  <2>1. /\ Len(v6) = 2 /\ v6[1].proto = "udp" /\ v6[2].proto = "tcp"
        /\ v6[1].port = v3 /\ v6[2].port = v3
    BY <1>1 DEF Linux!RedirectInv, Linux!TableGrows, Linux!NatRedirect
  <2>2. \E i \in 1..Len(v6) : Linux!Decides(i, proto)
    <3>1. Linux!Decides(1, "udp") /\ Linux!Decides(2, "tcp")
      BY <2>1 DEF Linux!Decides
    <3> QED BY <2>1, <3>1 DEF Linux!Protocols
  <2>3. \A i \in 1..Len(v6) : v6[i].port = v3
    BY <2>1
  <2> QED BY <2>2, <2>3 DEF Linux!Redirected, Linux!Target
<1> QED BY <1>1 DEF Linux!RedirectInv, Linux!TableEmpty, Linux!RunningRedirectsHere,
                    Linux!NoStrayRedirect

LinuxHolds == component = "linux" => Linux!RedirectInv

(* While the provider for Linux reports RUNNING, what the kernel's table   *)
(* redirects goes to the port this process serves; and without a kill or a *)
(* failed deletion no redirect outlives its proxy.                         *)
THEOREM RedirectsHold == Spec => []RedirectsSound
<1>1. Init => LinuxHolds
  BY LinuxInitOK DEF Init, LinuxHolds
<1>2. LinuxHolds /\ [Next]_vars => LinuxHolds'
  <2> SUFFICES ASSUME LinuxHolds, [Next]_vars, component = "linux", component' = component
               PROVE  Linux!RedirectInv'
    BY DEF LinuxHolds, Next, vars
  <2>1. CASE Linux!Next
    BY <2>1, LinuxStepOK DEF LinuxHolds
  <2>2. CASE UNCHANGED vars
    BY <2>2 DEF LinuxHolds, vars, after3, after6, Linux!RedirectInv, Linux!RedirectTypeOK,
       Linux!ProxyStays, Linux!TableGrows, Linux!TableEmpty, Linux!NatRedirect
  <2> QED BY <2>1, <2>2 DEF Next
<1>3. LinuxHolds => RedirectsSound
  BY LinuxMeans DEF LinuxHolds, RedirectsSound
<1> QED BY <1>1, <1>2, <1>3, PTL DEF Spec
-----------------------------------------------------------------------------
(* Transparent interception on Windows.                                    *)

WindowsP == INSTANCE WindowsDivertProofs WITH
  state <- v1, control <- v2, handle <- v3, firewall <- v4, rules <- v5, jobs <- v6,
  queuedBytes <- v7, receiver <- v8, worker <- v9, fate <- v10, listening <- v11,
  expected <- v12, time <- v13, connection <- v14, captured <- v15, unexpected <- v16,
  original <- v1, wire <- v2, stage <- v3,
  host <- v1, patterns <- v2, matching <- v3

(* The module of proofs extends the module that Surroundings instantiates: *)
(* its definitions are the same.                                           *)
LEMMA WindowsSame ==
  /\ Windows!DivertConstants <=> WindowsP!DivertConstants
  /\ Windows!Init <=> WindowsP!Init
  /\ Windows!Next <=> WindowsP!Next
  /\ Windows!PolicyNotBypassed <=> WindowsP!PolicyNotBypassed
  /\ Windows!RunningCaptures <=> WindowsP!RunningCaptures
  /\ Windows!OrderlyEnd <=> WindowsP!OrderlyEnd
  /\ Windows!OneShot <=> WindowsP!OneShot
BY DEF
   Windows!DivertConstants, Windows!lifecycleVars, Windows!queueVars,
   Windows!divertVars, Windows!NoPacket, Windows!Unseen, Windows!Kept, Windows!Init,
   Windows!Sends, Windows!LifecycleIsFree, Windows!QueueIsFree, Windows!NotifyAll,
   Windows!Receives, Windows!Loop, Windows!Capture, Windows!CaptureFails,
   Windows!ReceiverSends, Windows!Judging, Windows!Judged, Windows!PassOn,
   Windows!ResetTcp, Windows!Reflect, Windows!Malformed, Windows!FastPath,
   Windows!HasRoom, Windows!Enqueue, Windows!Overload, Windows!ShutBroken,
   Windows!Report, Windows!ReceiverEnds, Windows!WorkerDoes, Windows!Look,
   Windows!Block, Windows!Decision, Windows!Route, Windows!WorkerSends,
   Windows!WorkerFails, Windows!Goes, Windows!Start, Windows!StartProxy,
   Windows!OpenDriver, Windows!EnableFirewall, Windows!PublishRunning,
   Windows!SpawnWorkers, Windows!SpawnFails, Windows!StartFails, Windows!Stop,
   Windows!Signal, Windows!Joined, Windows!Release, Windows!CloseDriver,
   Windows!Reload, Windows!ReceiverNext, Windows!WorkerNext, Windows!ControlNext,
   Windows!ProxyNext, Windows!Next, Windows!PolicyNotBypassed,
   Windows!RunningCaptures, Windows!OrderlyEnd, Windows!proxyVars,
   Windows!NoConnection, Windows!ProxyInit, Windows!Pruned, Windows!TableFull,
   Windows!Expect, Windows!ExpectFails, Windows!Forget, Windows!At, Windows!Accept,
   Windows!Consumed, Windows!Handle, Windows!Finish, Windows!Listen,
   Windows!StopListening, Windows!ProxyStopped, Windows!SecondPasses,
   Windows!ProxyWorks, Windows!OneShot, Windows!Cardinality,
   WindowsP!DivertConstants, WindowsP!lifecycleVars, WindowsP!queueVars,
   WindowsP!divertVars, WindowsP!NoPacket, WindowsP!Unseen, WindowsP!Kept,
   WindowsP!Init, WindowsP!Sends, WindowsP!LifecycleIsFree, WindowsP!QueueIsFree,
   WindowsP!NotifyAll, WindowsP!Receives, WindowsP!Loop, WindowsP!Capture,
   WindowsP!CaptureFails, WindowsP!ReceiverSends, WindowsP!Judging, WindowsP!Judged,
   WindowsP!PassOn, WindowsP!ResetTcp, WindowsP!Reflect, WindowsP!Malformed,
   WindowsP!FastPath, WindowsP!HasRoom, WindowsP!Enqueue, WindowsP!Overload,
   WindowsP!ShutBroken, WindowsP!Report, WindowsP!ReceiverEnds, WindowsP!WorkerDoes,
   WindowsP!Look, WindowsP!Block, WindowsP!Decision, WindowsP!Route,
   WindowsP!WorkerSends, WindowsP!WorkerFails, WindowsP!Goes, WindowsP!Start,
   WindowsP!StartProxy, WindowsP!OpenDriver, WindowsP!EnableFirewall,
   WindowsP!PublishRunning, WindowsP!SpawnWorkers, WindowsP!SpawnFails,
   WindowsP!StartFails, WindowsP!Stop, WindowsP!Signal, WindowsP!Joined,
   WindowsP!Release, WindowsP!CloseDriver, WindowsP!Reload, WindowsP!ReceiverNext,
   WindowsP!WorkerNext, WindowsP!ControlNext, WindowsP!ProxyNext, WindowsP!Next,
   WindowsP!PolicyNotBypassed, WindowsP!RunningCaptures, WindowsP!OrderlyEnd,
   WindowsP!proxyVars, WindowsP!NoConnection, WindowsP!ProxyInit, WindowsP!Pruned,
   WindowsP!TableFull, WindowsP!Expect, WindowsP!ExpectFails, WindowsP!Forget,
   WindowsP!At, WindowsP!Accept, WindowsP!Consumed, WindowsP!Handle,
   WindowsP!Finish, WindowsP!Listen, WindowsP!StopListening, WindowsP!ProxyStopped,
   WindowsP!SecondPasses, WindowsP!ProxyWorks, WindowsP!OneShot,
   WindowsP!Cardinality

WindowsInv ==
  component = "windows" =>
    /\ WindowsP!TypeOK /\ WindowsP!PolicyNotBypassed
    /\ WindowsP!TableOK /\ WindowsP!OneShot
    /\ WindowsP!Life

(* The provider for Windows keeps the layers of its invariant. *)
LEMMA WindowsHolds == Spec => []WindowsInv
<1>1. Init => WindowsInv
  <2>1. WindowsP!Init => WindowsP!PolicyNotBypassed
    BY DEF WindowsP!Init, WindowsP!Unseen, WindowsP!PolicyNotBypassed
  <2> QED BY <2>1, WindowsSame, WindowsP!TypeInit, WindowsP!TableInit, WindowsP!LifeInit
          DEF Init, WindowsInv
<1>2. WindowsInv /\ [Next]_vars => WindowsInv'
  <2> SUFFICES ASSUME WindowsInv, [Next]_vars, component = "windows", component' = component
               PROVE  WindowsInv'
    BY DEF WindowsInv, Next, vars
  <2>1. Windows!Next \/ UNCHANGED WindowsP!divertVars
    BY DEF Next, vars, after3, after6, after7, after8, after10, after11, after12,
           WindowsP!divertVars, WindowsP!lifecycleVars, WindowsP!queueVars, WindowsP!proxyVars
  <2> QED BY <2>1, SurroundingsConstants, WindowsSame, WindowsP!TypeStep, WindowsP!PolicyStep,
             WindowsP!TableStep, WindowsP!LifeStep
          DEF WindowsInv
<1> QED BY <1>1, <1>2, PTL DEF Spec

(* A DNS packet leaves unchanged only if the rules it was judged by let it *)
(* pass, whatever fails, however full the queue is, and although a reload  *)
(* may replace the rules while it waits.                                   *)
THEOREM PolicyHolds == Spec => []PolicyNotBypassed
<1>1. WindowsInv => PolicyNotBypassed
  BY WindowsSame DEF WindowsInv, PolicyNotBypassed
<1> QED BY <1>1, WindowsHolds, PTL

(* A reflected connection is served for a recent SYN of its own that no    *)
(* other connection and no reset has spent.                                *)
THEOREM OneShotHolds == Spec => []OneShot
<1>1. WindowsInv => OneShot
  BY WindowsSame DEF WindowsInv, OneShot
<1> QED BY <1>1, WindowsHolds, PTL

(* RUNNING means service, on both sides of Windows: the receive loop of    *)
(* the provider captures or is about to report, and both loops of the      *)
(* proxy serve or are about to report.                                     *)
THEOREM RunningServes == Spec => []RunningCaptures
<1>1. WindowsInv /\ ProxyHolds => RunningCaptures
  BY WindowsSame, WindowsP!LifeMeans
  DEF WindowsInv, ProxyHolds, RunningCaptures, Proxy!ProxyInv, Proxy!RunningPlaces,
      Proxy!RunningServes, Proxy!Alive, Proxy!At
<1> QED BY <1>1, WindowsHolds, ProxyCorrect, PTL

(* Driver, firewall rule, sockets and event outlive the threads that use   *)
(* them, whatever fails in which order; an orderly end leaves nothing.     *)
THEOREM EndsInOrder == Spec => []OrderlyEnd
<1>1. Proxy!ProxyInv => Proxy!NothingOutlives
  <2> USE DEF Proxy!At, Proxy!Alive, Proxy!Off, Proxy!Loops
  <2> SUFFICES ASSUME Proxy!ProxyInv PROVE Proxy!NothingOutlives
    OBVIOUS
  <2>1. \A l \in Proxy!Loops :
          v4[l] \in {"waiting", "failing"} \/ v5[l].busy > 0 => l \in v3 /\ v2 # "none"
    BY DEF Proxy!ProxyInv, Proxy!Grounded
  <2>2. CASE v1 = "stopped" \/ (v1 = "error" /\ v6.at = "idle" /\ v2 = "none")
    <3>1. v3 = {} /\ v2 = "none"
      BY <2>2 DEF Proxy!ProxyInv, Proxy!RestPlaces
    <3>2. \A l \in Proxy!Loops : v4[l] = "none" /\ v5[l] = Proxy!Off
      BY <3>1 DEF Proxy!ProxyInv, Proxy!Grounded
    <3>3. v4 \in [Proxy!Loops -> {"none", "waiting", "failing", "ended"}]
          /\ v5 \in [Proxy!Loops -> [on : BOOLEAN, queued : Nat, busy : Nat]]
      BY DEF Proxy!ProxyInv, Proxy!ProxyTypeOK
    <3>4. v4 = [l \in Proxy!Loops |-> "none"] /\ v5 = [l \in Proxy!Loops |-> Proxy!Off]
      BY <3>2, <3>3
    <3> QED BY <2>1, <3>1, <3>4 DEF Proxy!NothingOutlives
  <2> QED BY <2>1, <2>2 DEF Proxy!NothingOutlives
<1>2. WindowsInv /\ ProxyHolds => OrderlyEnd
  BY <1>1, WindowsSame, WindowsP!LifeMeans DEF WindowsInv, ProxyHolds, OrderlyEnd
<1> QED BY <1>2, WindowsHolds, ProxyCorrect, PTL
-----------------------------------------------------------------------------
(* Packets.                                                                *)

(* The same for PacketRewrite.                                             *)
LEMMA PacketsSame ==
  /\ Rewrite!PacketConstants <=> WindowsP!PacketConstants
  /\ Rewrite!PacketInit <=> WindowsP!PacketInit
  /\ Rewrite!PacketNext <=> WindowsP!PacketNext
  /\ Rewrite!PacketsSound <=> WindowsP!PacketsSound
<1>1. Rewrite!Folded = WindowsP!Folded
  BY DEF Rewrite!Folded, WindowsP!Folded
<1>2. \A words : Rewrite!Total(words) = WindowsP!Total(words)
  BY DEF Rewrite!Total, WindowsP!Total
<1>3. \A sum : Rewrite!Finished(sum) = WindowsP!Finished(sum)
  BY Zenon, <1>1 DEF Rewrite!Finished, WindowsP!Finished
<1>4. \A p : /\ Rewrite!TransportWords(p) = WindowsP!TransportWords(p)
             /\ Rewrite!IpWords(p) = WindowsP!IpWords(p)
             /\ Rewrite!Stated(p) = WindowsP!Stated(p)
  BY Zenon DEF Rewrite!TransportSize, Rewrite!Number, Rewrite!Bits, Rewrite!TransportWords,
     Rewrite!IpWords, Rewrite!Stated, WindowsP!TransportSize, WindowsP!Number,
     WindowsP!Bits, WindowsP!TransportWords, WindowsP!IpWords, WindowsP!Stated
<1>5. \A p : Rewrite!Summed(p) = WindowsP!Summed(p)
  BY Zenon, <1>2, <1>3, <1>4 DEF Rewrite!Summed, WindowsP!Summed
<1>6. \A p : Rewrite!Turned(p) = WindowsP!Turned(p)
  BY Zenon DEF Rewrite!Turned, WindowsP!Turned
<1>7. \A p, proxyPort, toward, dnsPort :
        Rewrite!Reflected(p, proxyPort, toward, dnsPort)
          = WindowsP!Reflected(p, proxyPort, toward, dnsPort)
  BY Zenon, <1>5, <1>6 DEF Rewrite!Reflected, WindowsP!Reflected
<1>8. \A p : Rewrite!Acknowledgement(p) = WindowsP!Acknowledgement(p)
  BY Zenon DEF Rewrite!Acknowledgement, WindowsP!Acknowledgement, Rewrite!Extent,
     WindowsP!Extent, Rewrite!Cardinality, WindowsP!Cardinality
<1>9. \A p : Rewrite!Reset(p) = WindowsP!Reset(p)
  BY Zenon, <1>4, <1>7, <1>8 DEF Rewrite!Reset, WindowsP!Reset
<1>10. \A p, payload : Rewrite!Response(p, payload) = WindowsP!Response(p, payload)
  BY Zenon, <1>4, <1>5, <1>6 DEF Rewrite!Response, WindowsP!Response
<1>11. \A p : /\ Rewrite!TcpView(p) <=> WindowsP!TcpView(p)
              /\ Rewrite!UdpView(p) <=> WindowsP!UdpView(p)
  BY Zenon, <1>4 DEF Rewrite!TcpView, Rewrite!UdpView, Rewrite!ChainAccepted, Rewrite!Skipped,
     Rewrite!ToSet, WindowsP!TcpView, WindowsP!UdpView, WindowsP!ChainAccepted,
     WindowsP!Skipped, WindowsP!ToSet
<1>12. \A p : Rewrite!Intact(p) <=> WindowsP!Intact(p)
  BY Zenon, <1>1, <1>2, <1>4 DEF Rewrite!Intact, WindowsP!Intact
<1>13. Rewrite!ClientNumber = WindowsP!ClientNumber
  BY Zenon DEF Rewrite!ClientNumber, WindowsP!ClientNumber
<1>14. Rewrite!PacketConstants <=> WindowsP!PacketConstants
  BY Zenon DEF Rewrite!PacketConstants, Rewrite!Formats, WindowsP!PacketConstants,
     WindowsP!Formats
<1>15. Rewrite!PacketInit <=> WindowsP!PacketInit
  BY Zenon, <1>5 DEF Rewrite!PacketInit, WindowsP!PacketInit
<1>16. Rewrite!PacketNext <=> WindowsP!PacketNext
  <2>1. Rewrite!Unchanged <=> WindowsP!Unchanged
    BY Zenon, <1>11 DEF Rewrite!Unchanged, Rewrite!Becomes, WindowsP!Unchanged, WindowsP!Becomes
  <2>2. Rewrite!TowardProxy <=> WindowsP!TowardProxy
    BY Zenon, <1>7, <1>11 DEF Rewrite!TowardProxy, Rewrite!Becomes, WindowsP!TowardProxy, WindowsP!Becomes
  <2>3. Rewrite!ProxyAnswers <=> WindowsP!ProxyAnswers
    BY Zenon, <1>4, <1>5, <1>6, <1>13 DEF Rewrite!ProxyAnswers, Rewrite!Becomes, WindowsP!ProxyAnswers, WindowsP!Becomes
  <2>4. Rewrite!TowardClient <=> WindowsP!TowardClient
    BY Zenon, <1>7, <1>11 DEF Rewrite!TowardClient, Rewrite!Becomes, WindowsP!TowardClient, WindowsP!Becomes
  <2>5. Rewrite!ResetClient <=> WindowsP!ResetClient
    BY Zenon, <1>9, <1>11 DEF Rewrite!ResetClient, Rewrite!Becomes, WindowsP!ResetClient, WindowsP!Becomes
  <2>6. Rewrite!AnswerUdp <=> WindowsP!AnswerUdp
    BY Zenon, <1>10, <1>11 DEF Rewrite!AnswerUdp, Rewrite!Becomes, WindowsP!AnswerUdp, WindowsP!Becomes
  <2> QED BY Zenon, <2>1, <2>2, <2>3, <2>4, <2>5, <2>6
          DEF Rewrite!PacketNext, WindowsP!PacketNext
<1>17. Rewrite!PacketsSound <=> WindowsP!PacketsSound
  BY Zenon, <1>12, <1>13 DEF Rewrite!PacketsSound, Rewrite!AnswersClient, WindowsP!PacketsSound,
     WindowsP!AnswersClient
<1> QED BY <1>14, <1>15, <1>16, <1>17

PacketHolds == component = "rewrite" => WindowsP!PacketInv

(* Every rewritten packet has the checksums and the length its receiver    *)
(* computes, whatever it carries and whatever the word size; a client gets *)
(* answers only from whom it asked, the proxy learns the client's address, *)
(* and a reset is at the number the client waits for, wrapped around or    *)
(* not.                                                                    *)
THEOREM PacketsHold == Spec => []PacketsSound
<1>1. Init => PacketHolds
  BY PacketsSame, SurroundingsConstants, WindowsP!PacketBegins DEF Init, PacketHolds
<1>2. PacketHolds /\ [Next]_vars => PacketHolds'
  <2> SUFFICES ASSUME PacketHolds, [Next]_vars, component = "rewrite", component' = component
               PROVE  WindowsP!PacketInv'
    BY DEF PacketHolds, Next, vars
  <2>1. Rewrite!PacketNext \/ UNCHANGED WindowsP!packetVars
    BY DEF Next, vars, WindowsP!packetVars
  <2> QED BY <2>1, PacketsSame, SurroundingsConstants, WindowsP!PacketKept DEF PacketHolds
<1>3. PacketHolds => PacketsSound
  BY PacketsSame, WindowsP!PacketInvSound DEF PacketHolds, PacketsSound
<1> QED BY <1>1, <1>2, <1>3, PTL DEF Spec
-----------------------------------------------------------------------------
(* Patterns.                                                               *)

(* The same for PatternMatch.                                              *)
LEMMA PatternsSame ==
  /\ Match!MatchConstants <=> WindowsP!MatchConstants
  /\ Match!MatchInit <=> WindowsP!MatchInit
  /\ Match!MatchNext <=> WindowsP!MatchNext
  /\ Match!PatternsMatch <=> WindowsP!PatternsMatch
BY DEF
    Match!MatchConstants, Match!Lower, Match!Trimmed, Match!Wildcards, Match!Names,
    Match!Parts, Match!PatternLists, Match!NoStar, Match!First, Match!MatchInit,
    Match!Pattern, Match!MoreHost, Match!MorePattern, Match!AtStar, Match!AtSame,
    Match!Steps, Match!Consume, Match!MeetStar, Match!BackTrack, Match!Mismatch,
    Match!SkipStar, Match!EndOfHost, Match!MatchNext, Match!Reached, Match!Glob,
    Match!PatternsMatch, Match!Last, Match!Front, WindowsP!MatchConstants,
    WindowsP!Lower, WindowsP!Trimmed, WindowsP!Wildcards, WindowsP!Names,
    WindowsP!Parts, WindowsP!PatternLists, WindowsP!NoStar, WindowsP!First,
    WindowsP!MatchInit, WindowsP!Pattern, WindowsP!MoreHost, WindowsP!MorePattern,
    WindowsP!AtStar, WindowsP!AtSame, WindowsP!Steps, WindowsP!Consume,
    WindowsP!MeetStar, WindowsP!BackTrack, WindowsP!Mismatch, WindowsP!SkipStar,
    WindowsP!EndOfHost, WindowsP!MatchNext, WindowsP!Reached, WindowsP!Glob,
    WindowsP!PatternsMatch, WindowsP!Last, WindowsP!Front

MatchHolds == component = "match" => WindowsP!MatchInv

(* The loop of host_matches, which goes back to its last star only, misses  *)
(* no way in which a pattern may stand for a name, and accepts nothing else *)
(* (rules.cpp:176-193).                                                     *)
THEOREM PatternsHold == Spec => []PatternsMatch
<1>1. Init => MatchHolds
  BY PatternsSame, WindowsP!MatchBegins, SurroundingsConstants DEF Init, MatchHolds
<1>2. MatchHolds /\ [Next]_vars => MatchHolds'
  <2> SUFFICES ASSUME MatchHolds, [Next]_vars, component = "match", component' = component
               PROVE  WindowsP!MatchInv'
    BY DEF MatchHolds, Next, vars
  <2>1. CASE Match!MatchNext
    BY <2>1, PatternsSame, WindowsP!MatchStep DEF MatchHolds
  <2>2. CASE UNCHANGED vars
    <3>1. UNCHANGED WindowsP!matchVars
      BY <2>2 DEF vars, WindowsP!matchVars
    <3> QED BY <3>1, WindowsP!MatchStays DEF MatchHolds
  <2> QED BY <2>1, <2>2 DEF Next
<1>3. MatchHolds => PatternsMatch
  BY PatternsSame, WindowsP!MatchSound DEF MatchHolds, PatternsMatch
<1> QED BY <1>1, <1>2, <1>3, PTL DEF Spec
-----------------------------------------------------------------------------
(* The IPC server of Windows, and its client.                              *)

ControlP == INSTANCE ControlProofs WITH
  PipeWorkers <- Workers,
  running <- v1, stopping <- v2, started <- v3, owner <- v4, listener <- v5, pipes <- v6,
  outstanding <- v7, available <- v8, pending <- v9, server <- v10, client <- v11,
  handled <- v12,
  holder <- v1, answers <- v2, coming <- v3, launcher <- v4, launch <- v5, gui <- v6,
  statusPoll <- v7, leaving <- v8, closing <- v9, history <- v10, launches <- v11

(* As for WinDivert. *)
LEMMA PipeSame ==
  /\ Pipe!PipeConstants <=> ControlP!PipeConstants
  /\ Pipe!PipeInit <=> ControlP!PipeInit
  /\ Pipe!PipeNext <=> ControlP!PipeNext
  /\ Pipe!PipeServed <=> ControlP!PipeServed
BY DEF
   Pipe!Nobody, Pipe!Gone, Pipe!PipeConstants, Pipe!pipeVars, Pipe!MaxWorkers,
   Pipe!InstancesOfWorkers, Pipe!Instances, Pipe!None, Pipe!Closed, Pipe!Idle,
   Pipe!PipeInit, Pipe!workVars, Pipe!clientVars, Pipe!Start, Pipe!Started,
   Pipe!Stop, Pipe!Joined, Pipe!Unused, Pipe!Listens, Pipe!ClosePipe, Pipe!Create,
   Pipe!Connect, Pipe!Connected, Pipe!Occupied, Pipe!Unblocked, Pipe!WorkerFree,
   Pipe!Dispatch, Pipe!Leave, Pipe!ListenerFails, Pipe!Drain, Pipe!Drained,
   Pipe!Ending, Pipe!Follows, Pipe!Serves, Pipe!Peer, Pipe!OthersWork,
   Pipe!TakeJob, Pipe!HandleRequest, Pipe!Respond, Pipe!JobEnds,
   Pipe!CloseConnection, Pipe!CountDown, Pipe!Signal, Pipe!ServerUnchanged,
   Pipe!Open, Pipe!Holds, Pipe!Send, Pipe!ReceiveAnswer, Pipe!RequestFails,
   Pipe!Return, Pipe!PipeNext, Pipe!WithinInstances, Pipe!CapacitySeen,
   Pipe!NothingServed, Pipe!HandledOnce, Pipe!PipeServed, Pipe!Cardinality,
   Pipe!IsFiniteSet, Pipe!Min, Pipe!ToSet, ControlP!Nobody, ControlP!Gone,
   ControlP!PipeConstants, ControlP!pipeVars, ControlP!MaxWorkers,
   ControlP!InstancesOfWorkers, ControlP!Instances, ControlP!None, ControlP!Closed,
   ControlP!Idle, ControlP!PipeInit, ControlP!workVars, ControlP!clientVars, ControlP!Start,
   ControlP!Started, ControlP!Stop, ControlP!Joined, ControlP!Unused, ControlP!Listens,
   ControlP!ClosePipe, ControlP!Create, ControlP!Connect, ControlP!Connected, ControlP!Occupied,
   ControlP!Unblocked, ControlP!WorkerFree, ControlP!Dispatch, ControlP!Leave,
   ControlP!ListenerFails, ControlP!Drain, ControlP!Drained, ControlP!Ending, ControlP!Follows,
   ControlP!Serves, ControlP!Peer, ControlP!OthersWork, ControlP!TakeJob, ControlP!HandleRequest,
   ControlP!Respond, ControlP!JobEnds, ControlP!CloseConnection, ControlP!CountDown,
   ControlP!Signal, ControlP!ServerUnchanged, ControlP!Open, ControlP!Holds, ControlP!Send,
   ControlP!ReceiveAnswer, ControlP!RequestFails, ControlP!Return, ControlP!PipeNext,
   ControlP!WithinInstances, ControlP!CapacitySeen, ControlP!NothingServed,
   ControlP!HandledOnce, ControlP!PipeServed, ControlP!Cardinality, ControlP!IsFiniteSet,
   ControlP!Min, ControlP!ToSet

(* As for WinDivert. *)
LEMMA ClientSame ==
  /\ Client!ClientConstants <=> ControlP!ClientConstants
  /\ Client!ClientInit <=> ControlP!ClientInit
  /\ Client!ClientNext <=> ControlP!ClientNext
  /\ Client!ExitComplete <=> ControlP!ExitComplete
BY DEF
    Client!ClientConstants, ControlP!ClientConstants,
    Client!Resting, Client!NoStatus, Client!ClientInit, Client!Exiting, Client!Looping,
    Client!Pending, Client!Expecting, Client!Losses, Client!Surprises, Client!IsLost,
    Client!Unexpected, Client!Records, Client!Issued, Client!Appear, Client!HostChanges,
    Client!CoreAnswers, Client!MayStart, Client!Starting, Client!UserActs, Client!UserStarts,
    Client!UserApplies, Client!WorkerGoes, Client!Reported, Client!AskCore, Client!ProbeLock,
    Client!Created, Client!NotCreated, Client!Schedule, Client!Prompt, Client!Issue,
    Client!LaunchReported, Client!LaunchGetsOld, Client!PollGoes, Client!Refresh,
    Client!StatusAnswered, Client!StatusTaken, Client!StatusIgnored, Client!Erased,
    Client!StatusGood, Client!StatusMute, Client!Absent, Client!StatusEarly,
    Client!StatusAbsent, Client!Exits, Client!At, Client!WorkerExit, Client!WindowExit,
    Client!Proceeds, Client!Succeeds, Client!Fails, Client!Exit, Client!LoopEnds,
    Client!AwaitWorker, Client!SomeoneTries, Client!AwaitProcess, Client!AwaitShutdown,
    Client!ForceStop, Client!ConfirmStopped, Client!ClientNext, Client!Confirmed,
    Client!ExitComplete,
    ControlP!Resting, ControlP!NoStatus, ControlP!ClientInit, ControlP!Exiting,
    ControlP!Looping, ControlP!Pending, ControlP!Expecting, ControlP!Losses, ControlP!Surprises,
    ControlP!IsLost, ControlP!Unexpected, ControlP!Records, ControlP!Issued, ControlP!Appear,
    ControlP!HostChanges, ControlP!CoreAnswers, ControlP!MayStart, ControlP!Starting,
    ControlP!UserActs, ControlP!UserStarts, ControlP!UserApplies, ControlP!WorkerGoes,
    ControlP!Reported, ControlP!AskCore, ControlP!ProbeLock, ControlP!Created,
    ControlP!NotCreated, ControlP!Schedule, ControlP!Prompt, ControlP!Issue,
    ControlP!LaunchReported, ControlP!LaunchGetsOld, ControlP!PollGoes, ControlP!Refresh,
    ControlP!StatusAnswered, ControlP!StatusTaken, ControlP!StatusIgnored, ControlP!Erased,
    ControlP!StatusGood, ControlP!StatusMute, ControlP!Absent, ControlP!StatusEarly,
    ControlP!StatusAbsent, ControlP!Exits, ControlP!At, ControlP!WorkerExit,
    ControlP!WindowExit, ControlP!Proceeds, ControlP!Succeeds, ControlP!Fails, ControlP!Exit,
    ControlP!LoopEnds, ControlP!AwaitWorker, ControlP!SomeoneTries, ControlP!AwaitProcess,
    ControlP!AwaitShutdown, ControlP!ForceStop, ControlP!ConfirmStopped, ControlP!ClientNext,
    ControlP!Confirmed, ControlP!ExitComplete

PipeHolds == component = "pipe" => ControlP!PipeInv

(* The instances suffice, no wake-up of the listener is lost, a stop that  *)
(* has returned leaves no instance, job or worker busy, and a request that *)
(* was answered was handled exactly once.                                  *)
THEOREM PipesHold == Spec => []PipeServed
<1>1. Init => PipeHolds
  BY SurroundingsConstants, PipeSame, ClientSame, ControlP!PipeStarts DEF Init, PipeHolds
<1>2. PipeHolds /\ [Next]_vars => PipeHolds'
  <2> SUFFICES ASSUME PipeHolds, [Next]_vars, component = "pipe", component' = component
               PROVE  ControlP!PipeInv'
    BY DEF PipeHolds, Next, vars
  <2>1. Pipe!PipeNext \/ UNCHANGED ControlP!pipeVars
    BY DEF Next, vars, after3, after6, after7, after8, after10, after11, ControlP!pipeVars
  <2> QED BY <2>1, SurroundingsConstants, PipeSame, ClientSame, ControlP!PipeGoes DEF PipeHolds
<1>3. PipeHolds => PipeServed
  BY SurroundingsConstants, PipeSame, ClientSame, ControlP!PipeMeans DEF PipeHolds, PipeServed
<1> QED BY <1>1, <1>2, <1>3, PTL DEF Spec

ClientHolds == component = "client" => ControlP!ClientInv

(* docs/ARCHITECTURE.md:157: once exitApplication or the end of the event  *)
(* loop has confirmed that CoreHost stopped, none runs and none is on its  *)
(* way, however the launch worker, the elevation prompt, the status polls  *)
(* and the two ways out interleave, except for a process whose launch      *)
(* coreLaunchState_ had ceased to stand for in one of the four ways that   *)
(* ExitComplete names.  A process on its way that is not lost is the only  *)
(* one, and its launch is issued, which makes the exit wait for it.        *)
THEOREM ExitHolds == Spec => []ExitComplete
<1>1. Init => ClientHolds
  BY SurroundingsConstants, PipeSame, ClientSame, ControlP!ClientStarts DEF Init, ClientHolds
<1>2. ClientHolds /\ [Next]_vars => ClientHolds'
  <2> SUFFICES ASSUME ClientHolds, [Next]_vars, component = "client", component' = component
               PROVE  ControlP!ClientInv'
    BY DEF ClientHolds, Next, vars
  <2>1. Client!ClientNext \/ UNCHANGED ControlP!ownerVars
    BY DEF Next, vars, after3, after6, after7, after8, after10, ControlP!ownerVars
  <2> QED BY <2>1, SurroundingsConstants, PipeSame, ClientSame, ControlP!ClientGoes DEF ClientHolds
<1>3. ClientHolds => ExitComplete
  BY SurroundingsConstants, PipeSame, ClientSame, ControlP!ClientMeans DEF ClientHolds, ExitComplete
<1> QED BY <1>1, <1>2, <1>3, PTL DEF Spec
=============================================================================
