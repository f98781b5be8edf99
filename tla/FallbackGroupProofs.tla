------------------------ MODULE FallbackGroupProofs ------------------------
(***************************************************************************)
(* Machine-checked proofs about FallbackGroup, for any number of handlers, *)
(* servers and failures, any groups and any limits.                        *)
(*                                                                         *)
(* The loops of the model are Iterate; what one of its rounds preserves,   *)
(* the loop does.  Members, budget and order of a group follow from this,  *)
(* the circuits from the types they have.                                  *)
(***************************************************************************)
EXTENDS FallbackGroup, FiniteSetTheorems, SequenceTheorems, WellFoundedInduction, TLAPS

-----------------------------------------------------------------------------
(* Loops.                                                                  *)

(* A set of numbers has a least one. *)
LEMMA LeastOf ==
  ASSUME NEW S, S \subseteq Nat, S # {}
  PROVE  \E m \in S : \A n \in S : m <= n
<1> DEFINE less == {ss \in Nat \X Nat : ss[1] < ss[2]}
<1>1. IsWellFoundedOn(less, Nat)
  BY NatLessThanWellFounded DEF OpToRel
<1>2. \A m, n \in Nat : <<n, m>> \in less <=> n < m
  OBVIOUS
<1> HIDE DEF less
<1>3. PICK m \in S : \A n \in S : <<n, m>> \notin less
  BY <1>1, WFMin
<1>4. \A n \in S : m <= n
  <2> TAKE n \in S
  <2>1. n \in Nat /\ m \in Nat /\ ~(n < m)
    BY <1>2, <1>3
  <2> QED BY <2>1
<1> QED BY <1>4

(* What holds before a loop and is kept by its rounds holds after each. *)
LEMMA Inductive ==
  ASSUME NEW L \in Nat, NEW S, 0 \in S, \A n \in 1..L : n - 1 \in S => n \in S
  PROVE  \A n \in 0..L : n \in S
<1> DEFINE missing == {n \in 0..L : n \notin S}
<1> SUFFICES ASSUME missing # {} PROVE FALSE
  OBVIOUS
<1>1. missing \subseteq Nat
  OBVIOUS
<1>2. PICK m \in missing : \A n \in missing : m <= n
  <2> HIDE DEF missing
  <2> QED BY <1>1, LeastOf
<1>3. m \in 1..L /\ m - 1 \in 0..L /\ m \notin S
  BY <1>2
<1>4. m - 1 \in S
  BY <1>2, <1>3
<1> QED BY <1>3, <1>4

\* The values after each round, the last of which is that of the loop
Loops(A, step, start, rounds) ==
  \E after \in [0..rounds -> A] :
    /\ after[0] = start
    /\ \A n \in 1..rounds : after[n] = step[n][after[n - 1]]
    /\ Iterate(step, start, rounds) = after[rounds]

(* A loop whose rounds map A to A stays in A. *)
LEMMA Iterates ==
  ASSUME NEW A, NEW start \in A, NEW rounds \in Nat, NEW step \in [1..rounds -> [A -> A]]
  PROVE  Loops(A, step, start, rounds)
<1> DEFINE Goes(f, m) == \A n \in 0..m : f[n] = IF n = 0 THEN start ELSE step[n][f[n - 1]]
           S == {m \in Nat : \E f \in [0..m -> A] : Goes(f, m)}
           whole(f) == [n \in 0..rounds |-> IF n = 0 THEN start ELSE step[n][f[n - 1]]]
<1>1. rounds \in S
  <2>1. 0 \in S
    <3>1. [n \in 0..0 |-> start] \in [0..0 -> A] /\ Goes([n \in 0..0 |-> start], 0)
      OBVIOUS
    <3> QED BY <3>1
  <2>2. ASSUME NEW m \in 1..rounds, m - 1 \in S PROVE m \in S
    <3>1. PICK f \in [0..m - 1 -> A] : Goes(f, m - 1)
      BY <2>2
    <3> DEFINE g == [n \in 0..m |-> IF n = m THEN step[m][f[m - 1]] ELSE f[n]]
    <3>2. g \in [0..m -> A]
      <4>1. step[m] \in [A -> A] /\ f[m - 1] \in A
        OBVIOUS
      <4> QED BY <4>1
    <3>3. Goes(g, m)
      <4> TAKE n \in 0..m
      <4>1. CASE n = m
        BY <4>1
      <4>2. CASE n \in 0..m - 1
        BY <3>1, <4>2
      <4> QED BY <4>1, <4>2
    <3> HIDE DEF g
    <3> QED BY <3>2, <3>3
  <2> HIDE DEF S
  <2>3. \A n \in 0..rounds : n \in S
    BY <2>1, <2>2, Inductive
  <2> QED BY <2>3
<1>2. \E f : f = whole(f)
  <2>1. PICK f \in [0..rounds -> A] : Goes(f, rounds)
    BY <1>1
  <2> QED BY <2>1
<1> DEFINE after == CHOOSE f : f = whole(f)
<1>3. after = whole(after)
  <2> HIDE DEF whole
  <2> QED BY <1>2
<1>4. Iterate(step, start, rounds) = after[rounds]
  BY DEF Iterate
<1> HIDE DEF after
<1>5. /\ after[0] = start
      /\ \A n \in 1..rounds : after[n] = step[n][after[n - 1]]
      /\ DOMAIN after = 0..rounds /\ after = [n \in 0..rounds |-> after[n]]
  BY <1>3
<1>6. \A n \in 0..rounds : after[n] \in A
  <2> DEFINE T == {n \in Nat : after[n] \in A}
  <2>1. 0 \in T
    BY <1>5
  <2>2. ASSUME NEW n \in 1..rounds, n - 1 \in T PROVE n \in T
    <3>1. step[n] \in [A -> A] /\ after[n - 1] \in A /\ n \in Nat
      BY <2>2
    <3>2. after[n] = step[n][after[n - 1]]
      BY <1>5
    <3> QED BY <3>1, <3>2
  <2> HIDE DEF T
  <2>3. \A n \in 0..rounds : n \in T
    BY <2>1, <2>2, Inductive
  <2> QED BY <2>3 DEF T
<1>7. after \in [0..rounds -> A]
  BY <1>5, <1>6
<1> QED BY <1>4, <1>5, <1>7 DEF Loops

-----------------------------------------------------------------------------
(* Members and budget of a group.                                          *)

(* A group causes finitely many calls. *)
LEMMA CallsCounted ==
  ASSUME FallbackGroupConstants
  PROVE  Cardinality(Calls) \in Nat
<1> DEFINE of == [s \in Servers |-> {s} \X DOMAIN Fallbacks[s]]
           each == {{s} \X DOMAIN Fallbacks[s] : s \in Servers}
<1>1. IsFiniteSet(each)
  <2>1. of \in Surjection(Servers, each)
    BY DEF Surjection
  <2>2. IsFiniteSet(Servers)
    BY DEF FallbackGroupConstants
  <2> HIDE DEF of, each
  <2> QED BY <2>1, <2>2, FS_Surjection
<1>2. \A T \in each : IsFiniteSet(T)
  <2> SUFFICES ASSUME NEW s \in Servers PROVE IsFiniteSet({s} \X DOMAIN Fallbacks[s])
    OBVIOUS
  <2>1. Len(Fallbacks[s]) \in Nat /\ DOMAIN Fallbacks[s] = 1..Len(Fallbacks[s])
    BY LenProperties DEF FallbackGroupConstants
  <2>2. IsFiniteSet(1..Len(Fallbacks[s]))
    BY <2>1, FS_Interval
  <2> QED BY <2>1, <2>2, FS_Singleton, FS_Product
<1>3. IsFiniteSet(UNION each)
  <2> HIDE DEF each
  <2> QED BY <1>1, <1>2, FS_UNION
<1> QED BY <1>3, FS_CardinalityType DEF Calls

(* A call leaves a visit. *)
LEMMA VisitType ==
  ASSUME FallbackGroupConstants, NEW v \in Visits
  PROVE  Visit(v) \in Visits
<1>1. CASE v.ahead = <<>>
  BY <1>1 DEF Visit
<1>2. CASE v.ahead # <<>>
  <2>1. /\ v.ahead \in Seq(Servers) /\ v.candidates \in Seq(Servers) /\ v.added \subseteq Servers
        /\ v = [ahead |-> v.ahead, added |-> v.added, candidates |-> v.candidates]
    BY DEF Visits
  <2>2. Head(v.ahead) \in Servers /\ Tail(v.ahead) \in Seq(Servers)
    BY <1>2, <2>1, HeadTailProperties
  <2>3. Fallbacks[Head(v.ahead)] \o Tail(v.ahead) \in Seq(Servers)
    BY <2>2, ConcatProperties DEF FallbackGroupConstants
  <2>4. Append(v.candidates, Head(v.ahead)) \in Seq(Servers)
    BY <2>1, <2>2, AppendProperties
  <2> QED BY <1>2, <2>1, <2>2, <2>3, <2>4 DEF Visit, Visits
<1> QED BY <1>1, <1>2

(* The members of a group are servers. *)
LEMMA MembersType ==
  ASSUME FallbackGroupConstants, NEW primary \in Servers
  PROVE  Members(primary) \in Seq(Servers)
<1> DEFINE rounds == Cardinality(Calls) + 1
           step == [n \in 1..rounds |-> [v \in Visits |-> Visit(v)]]
           start == [ahead |-> <<primary>>, added |-> {}, candidates |-> <<>>]
<1>1. rounds \in Nat
  BY CallsCounted
<1>2. start \in Visits
  BY EmptySeq DEF Visits
<1>3. step \in [1..rounds -> [Visits -> Visits]]
  BY VisitType
<1>4. Members(primary) = Iterate(step, start, rounds).candidates
  BY DEF Members
<1> HIDE DEF rounds, step, start
<1>5. Iterate(step, start, rounds) \in Visits
  <2>1. Loops(Visits, step, start, rounds)
    BY <1>1, <1>2, <1>3, Iterates
  <2>2. PICK after \in [0..rounds -> Visits] : Iterate(step, start, rounds) = after[rounds]
    BY <2>1 DEF Loops
  <2> QED BY <1>1, <2>2
<1> QED BY <1>4, <1>5 DEF Visits

(* The budget of a query is a number of ticks, MaxBudget at most. *)
LEMMA BudgetType ==
  ASSUME FallbackGroupConstants, NEW members \in Seq(Servers)
  PROVE  Budget(members) \in 0..MaxBudget
<1> DEFINE rounds == Len(members)
           step == [n \in 1..rounds |->
                     [sum \in Nat |-> Least(MaxBudget, sum + Timeout[members[n]])]]
<1>1. rounds \in Nat /\ \A n \in 1..rounds : members[n] \in Servers
  BY LenProperties, ElementOfSeq
<1>2. \A n \in 1..rounds, sum \in Nat :
        /\ Least(MaxBudget, sum + Timeout[members[n]]) \in Nat
        /\ Least(MaxBudget, sum + Timeout[members[n]]) \in 0..MaxBudget
  <2> TAKE n \in 1..rounds, sum \in Nat
  <2>1. MaxBudget \in Nat /\ sum + Timeout[members[n]] \in Nat
    BY <1>1 DEF FallbackGroupConstants
  <2> QED BY <2>1 DEF Least
<1>3. step \in [1..rounds -> [Nat -> Nat]]
  BY <1>2
<1>4. \A n \in 1..rounds, sum \in Nat : step[n][sum] \in 0..MaxBudget
  BY <1>2
<1>5. Budget(members) = Iterate(step, 0, rounds)
  BY DEF Budget
<1> HIDE DEF rounds, step
<1>6. PICK after \in [0..rounds -> Nat] :
        /\ after[0] = 0
        /\ \A n \in 1..rounds : after[n] = step[n][after[n - 1]]
        /\ Iterate(step, 0, rounds) = after[rounds]
  <2>1. Loops(Nat, step, 0, rounds)
    BY <1>1, <1>3, Iterates
  <2> QED BY <2>1 DEF Loops
<1>7. CASE rounds = 0
  BY <1>5, <1>6, <1>7 DEF FallbackGroupConstants
<1>8. CASE rounds \in 1..rounds
  <2>1. after[rounds] = step[rounds][after[rounds - 1]] /\ after[rounds - 1] \in Nat
    BY <1>1, <1>6, <1>8
  <2> QED BY <1>4, <1>5, <1>6, <1>8, <2>1
<1> QED BY <1>1, <1>7, <1>8

-----------------------------------------------------------------------------
(* The order of a group.                                                   *)

ProbesAhead(h, order) ==
  \A i, j \in 1..Len(order) : Probe(h, order[i]) /\ ~Probe(h, order[j]) => i < j

(* The comparison gives precedence to members that are due for a probe. *)
LEMMA ProbePrecedes ==
  ASSUME NEW h, NEW members, NEW a, NEW b, Probe(h, a), ~Probe(h, b)
  PROVE  Before(h, members, a, b) /\ ~Before(h, members, b, a)
BY DEF Before, Probe

(* A set of numbers that has a bound has a greatest one. *)
LEMMA GreatestOf ==
  ASSUME NEW L \in Nat, NEW S, S \subseteq 0..L, S # {}
  PROVE  Max(S) \in S /\ \A n \in S : n <= Max(S)
<1> DEFINE rest == {L - n : n \in S}
<1>1. rest \subseteq Nat /\ rest # {}
  <2>1. \A n \in S : L - n \in Nat
    OBVIOUS
  <2> QED BY <2>1
<1>2. PICK m \in rest : \A n \in rest : m <= n
  <2> HIDE DEF rest
  <2> QED BY <1>1, LeastOf
<1>3. PICK g \in S : m = L - g
  BY <1>2
<1>4. \A n \in S : g >= n
  <2> TAKE n \in S
  <2>1. L - g <= L - n /\ g \in Nat /\ n \in Nat
    BY <1>2, <1>3
  <2> QED BY <2>1
<1>5. \E x \in S : \A y \in S : x >= y
  BY <1>4
<1> QED BY <1>5 DEF Max

\* `placed` is `sorted` with x behind its k-th.
Behind(sorted, x, k, placed) ==
  \A i \in 1..Len(sorted) + 1 :
    placed[i] = IF i <= k THEN sorted[i] ELSE IF i = k + 1 THEN x ELSE sorted[i - 1]

\* x may stand behind the k-th: it does not precede that one, and precedes those
\* that follow, or it precedes the first.
Fits(h, members, sorted, x, k) ==
  /\ k > 0 => ~Before(h, members, x, sorted[k])
  /\ \A i \in 1..Len(sorted) :
       i > k => Before(h, members, x, sorted[1]) \/ Before(h, members, x, sorted[i])

PlacedIn(h, members, sorted, x, placed) ==
  \E k \in 0..Len(sorted) : Fits(h, members, sorted, x, k) /\ Behind(sorted, x, k, placed)

(* A member is placed where it fits. *)
LEMMA PlaceMeans ==
  ASSUME NEW h, NEW members, NEW sorted \in Seq(Servers), NEW x \in Servers
  PROVE  /\ Place(h, members, sorted, x) \in Seq(Servers)
         /\ Len(Place(h, members, sorted, x)) = Len(sorted) + 1
         /\ PlacedIn(h, members, sorted, x, Place(h, members, sorted, x))
<1> DEFINE L == Len(sorted)
           stays == {i \in 1..L : ~Before(h, members, x, sorted[i])}
           placed == Place(h, members, sorted, x)
<1>1. /\ L \in Nat /\ (sorted = <<>> <=> L = 0)
      /\ \A i \in 1..L : sorted[i] \in Servers
  BY LenProperties, EmptySeq, ElementOfSeq
<1>2. <<x>> \in Seq(Servers) /\ Len(<<x>>) = 1 /\ \A n \in Nat : n = 1 => <<x>>[n] = x
  OBVIOUS
<1>3. CASE 1 \notin stays
  <2>1. placed = <<x>> \o sorted
    BY <1>3 DEF Place
  <2> HIDE DEF placed
  <2>2. /\ placed \in Seq(Servers) /\ Len(placed) = 1 + L
        /\ \A i \in 1..1 + L : placed[i] = IF i <= 1 THEN <<x>>[i] ELSE sorted[i - 1]
    BY <1>2, <2>1, ConcatProperties
  <2>3. \A i \in 1..L : Before(h, members, x, sorted[1])
    BY <1>1, <1>3
  <2> HIDE DEF stays
  <2>4. Fits(h, members, sorted, x, 0) /\ Behind(sorted, x, 0, placed)
    BY <1>1, <1>2, <2>2, <2>3 DEF Fits, Behind
  <2> QED BY <1>1, <2>2, <2>4 DEF placed, PlacedIn
<1>4. CASE 1 \in stays
  <2> DEFINE k == Max(stays)
  <2>1. k \in stays /\ \A i \in stays : i <= k
    <3>1. stays \subseteq 0..L /\ stays # {}
      BY <1>4
    <3> HIDE DEF stays
    <3> QED BY <1>1, <3>1, GreatestOf
  <2>2. k \in 1..L /\ ~Before(h, members, x, sorted[k])
    BY <2>1
  <2>3. \A i \in 1..L : i > k => Before(h, members, x, sorted[i])
    <3> SUFFICES ASSUME NEW i \in 1..L, i > k, i \in stays PROVE FALSE
      OBVIOUS
    <3> HIDE DEF stays, k
    <3> QED BY <1>1, <2>1, <2>2
  <2>4. placed = SubSeq(sorted, 1, k) \o <<x>> \o SubSeq(sorted, k + 1, L)
    <3>1. placed = InsertAt(sorted, k + 1, x)
      BY <1>1, <1>4 DEF Place
    <3>2. (k + 1) - 1 = k
      BY <1>1, <2>2
    <3> HIDE DEF placed, k
    <3> QED BY <3>1, <3>2 DEF InsertAt
  <2> HIDE DEF placed, stays, k
  <2> DEFINE front == SubSeq(sorted, 1, k)
             back == SubSeq(sorted, k + 1, L)
  <2>5. /\ front \in Seq(Servers) /\ Len(front) = k
        /\ \A i \in 1..k : front[i] = sorted[i]
    BY <1>1, <2>2, SubSeqProperties
  <2>6. /\ back \in Seq(Servers) /\ Len(back) = L - k
        /\ \A i \in 1..L - k : back[i] = sorted[k + i]
    BY <1>1, <2>2, SubSeqProperties
  <2> DEFINE behind == front \o <<x>>
  <2>7. placed = behind \o back
    BY <2>4
  <2> HIDE DEF front, back
  <2>8. /\ behind \in Seq(Servers) /\ Len(behind) = k + 1
        /\ \A i \in 1..k : behind[i] = front[i]
        /\ behind[k + 1] = x
    <3>1. /\ behind \in Seq(Servers) /\ Len(behind) = Len(front) + Len(<<x>>)
          /\ \A i \in 1..Len(front) + Len(<<x>>) :
               behind[i] = IF i <= Len(front) THEN front[i] ELSE <<x>>[i - Len(front)]
      BY <1>2, <2>5, ConcatProperties
    <3>2. Len(front) + Len(<<x>>) = k + 1 /\ k + 1 - k = 1 /\ k \in Nat
      BY <1>1, <1>2, <2>2, <2>5
    <3> HIDE DEF behind
    <3>3. behind[k + 1] = <<x>>[k + 1 - k]
      BY <2>5, <3>1, <3>2
    <3>4. \A i \in 1..k : behind[i] = front[i]
      BY <2>5, <3>1, <3>2
    <3> QED BY <1>2, <3>1, <3>2, <3>3, <3>4
  <2> HIDE DEF behind
  <2>9. /\ placed \in Seq(Servers) /\ Len(placed) = Len(behind) + Len(back)
        /\ \A i \in 1..Len(behind) + Len(back) :
             placed[i] = IF i <= Len(behind) THEN behind[i] ELSE back[i - Len(behind)]
    BY <2>6, <2>7, <2>8, ConcatProperties
  <2>10. Len(behind) + Len(back) = L + 1
    BY <1>1, <2>2, <2>6, <2>8
  <2> HIDE DEF L
  <2>11. \A i \in 1..L + 1 :
           placed[i] = IF i <= k THEN sorted[i] ELSE IF i = k + 1 THEN x ELSE sorted[i - 1]
    <3> TAKE i \in 1..L + 1
    <3>1. CASE i <= k
      BY <1>1, <2>2, <2>5, <2>8, <2>9, <2>10, <3>1
    <3>2. CASE i = k + 1
      <4>1. placed[i] = behind[k + 1]
        BY <1>1, <2>2, <2>8, <2>9, <2>10, <3>2
      <4> QED BY <1>1, <2>2, <2>8, <3>2, <4>1
    <3>3. CASE i > k + 1
      <4>1. i - (k + 1) \in 1..L - k /\ k + (i - (k + 1)) = i - 1 /\ ~(i <= k + 1)
        BY <1>1, <2>2, <3>3
      <4>2. placed[i] = back[i - Len(behind)]
        BY <2>8, <2>9, <2>10, <4>1
      <4>3. placed[i] = back[i - (k + 1)]
        BY <2>8, <4>2
      <4>4. back[i - (k + 1)] = sorted[k + (i - (k + 1))]
        BY <2>6, <4>1
      <4>5. placed[i] = sorted[i - 1]
        BY <4>1, <4>3, <4>4
      <4>6. ~(i <= k) /\ i # k + 1
        BY <1>1, <2>2, <3>3
      <4> QED BY <4>5, <4>6
    <3> QED BY <1>1, <2>2, <3>1, <3>2, <3>3
  <2>12. Fits(h, members, sorted, x, k) /\ Behind(sorted, x, k, placed)
    BY <2>2, <2>3, <2>11 DEF Fits, Behind, L
  <2> QED BY <1>1, <2>2, <2>9, <2>10, <2>12 DEF placed, PlacedIn, L
<1> QED BY <1>3, <1>4

(* A new member takes its place without separating the members that are    *)
(* due for a probe from the front.                                         *)
LEMMA PlaceKeepsProbes ==
  ASSUME NEW h, NEW members, NEW sorted \in Seq(Servers), NEW x \in Servers,
         ProbesAhead(h, sorted)
  PROVE  ProbesAhead(h, Place(h, members, sorted, x))
<1> DEFINE placed == Place(h, members, sorted, x)
           L == Len(sorted)
<1>1. L \in Nat
  BY LenProperties
<1>2. Len(placed) = L + 1 /\ PlacedIn(h, members, sorted, x, placed)
  BY PlaceMeans
<1> HIDE DEF placed
<1>3. PICK k \in 0..L :
        /\ k > 0 => ~Before(h, members, x, sorted[k])
        /\ \A i \in 1..L :
             i > k => Before(h, members, x, sorted[1]) \/ Before(h, members, x, sorted[i])
        /\ \A i \in 1..L + 1 :
             placed[i] = IF i <= k THEN sorted[i] ELSE IF i = k + 1 THEN x ELSE sorted[i - 1]
  BY <1>2 DEF PlacedIn, Fits, Behind
<1> HIDE DEF L
<1>4. \A i, j \in 1..L : Probe(h, sorted[i]) /\ ~Probe(h, sorted[j]) => i < j
  BY DEF ProbesAhead, L
<1>5. ASSUME Probe(h, x) PROVE \A i \in 1..k : Probe(h, sorted[i])
  <2> TAKE i \in 1..k
  <2>1. Probe(h, sorted[k])
    BY <1>1, <1>3, <1>5, ProbePrecedes
  <2> QED BY <1>1, <1>4, <2>1
<1>6. ASSUME ~Probe(h, x) PROVE \A i \in 1..L : i > k => ~Probe(h, sorted[i])
  <2> SUFFICES ASSUME NEW i \in 1..L, i > k, Probe(h, sorted[i]) PROVE FALSE
    OBVIOUS
  <2>1. Probe(h, sorted[1])
    BY <1>1, <1>4
  <2>2. ~Before(h, members, x, sorted[1]) /\ ~Before(h, members, x, sorted[i])
    BY <1>6, <2>1, ProbePrecedes
  <2> QED BY <1>3, <2>2
<1>7. \A i, j \in 1..L + 1 : Probe(h, placed[i]) /\ ~Probe(h, placed[j]) => i < j
  <2> SUFFICES ASSUME NEW i \in 1..L + 1, NEW j \in 1..L + 1,
                      Probe(h, placed[i]), ~Probe(h, placed[j])
               PROVE  i < j
    OBVIOUS
  <2> DEFINE from(n) == IF n <= k THEN n ELSE n - 1
  <2>1. \A n \in 1..L + 1 : n # k + 1 => from(n) \in 1..L /\ placed[n] = sorted[from(n)]
    BY <1>1, <1>3
  <2>2. placed[k + 1] = x
    BY <1>1, <1>3
  <2>3. CASE i # k + 1 /\ j # k + 1
    <3>1. from(i) < from(j) /\ i \in Nat /\ j \in Nat /\ k \in Nat
      BY <1>1, <1>4, <2>1, <2>3
    <3> QED BY <3>1
  <2>4. CASE i = k + 1
    <3>1. Probe(h, x) /\ j # k + 1
      BY <2>2, <2>4
    <3>2. j <= k => Probe(h, placed[j])
      BY <1>1, <1>3, <1>5, <3>1
    <3> QED BY <1>1, <2>4, <3>1, <3>2
  <2>5. CASE j = k + 1
    <3>1. ~Probe(h, x) /\ i # k + 1
      BY <2>2, <2>5
    <3>2. i > k + 1 => ~Probe(h, placed[i])
      BY <1>1, <1>3, <1>6, <3>1
    <3> QED BY <1>1, <2>5, <3>1, <3>2
  <2> QED BY <2>3, <2>4, <2>5
<1> QED BY <1>2, <1>7 DEF ProbesAhead, placed

(* The order of a group has its members, those due for a probe first. *)
LEMMA RankedMeans ==
  ASSUME NEW h, NEW members \in Seq(Servers)
  PROVE  /\ Ranked(h, members) \in Seq(Servers)
         /\ Len(Ranked(h, members)) = Len(members)
         /\ ProbesAhead(h, Ranked(h, members))
<1> DEFINE rounds == Len(members)
           step == [n \in 1..rounds |->
                     [sorted \in Seq(Servers) |-> Place(h, members, sorted, members[n])]]
<1>1. rounds \in Nat /\ \A n \in 1..rounds : members[n] \in Servers
  BY LenProperties, ElementOfSeq
<1>2. \A n \in 1..rounds, sorted \in Seq(Servers) :
        /\ Place(h, members, sorted, members[n]) \in Seq(Servers)
        /\ Len(Place(h, members, sorted, members[n])) = Len(sorted) + 1
        /\ ProbesAhead(h, sorted) => ProbesAhead(h, Place(h, members, sorted, members[n]))
  BY <1>1, PlaceMeans, PlaceKeepsProbes
<1>3. step \in [1..rounds -> [Seq(Servers) -> Seq(Servers)]]
  BY <1>2
<1>4. \A n \in 1..rounds, sorted \in Seq(Servers) :
        /\ Len(step[n][sorted]) = Len(sorted) + 1
        /\ ProbesAhead(h, sorted) => ProbesAhead(h, step[n][sorted])
  BY <1>2
<1>5. Ranked(h, members) = Iterate(step, <<>>, rounds)
  BY DEF Ranked
<1> HIDE DEF step
<1>6. PICK after \in [0..rounds -> Seq(Servers)] :
        /\ after[0] = <<>>
        /\ \A n \in 1..rounds : after[n] = step[n][after[n - 1]]
        /\ Iterate(step, <<>>, rounds) = after[rounds]
  <2>1. <<>> \in Seq(Servers)
    BY EmptySeq
  <2> HIDE DEF rounds
  <2>2. Loops(Seq(Servers), step, <<>>, rounds)
    BY <1>1, <1>3, <2>1, Iterates
  <2> QED BY <2>2 DEF Loops
<1> HIDE DEF rounds
<1> DEFINE S == {n \in 0..rounds : Len(after[n]) = n /\ ProbesAhead(h, after[n])}
<1>7. 0 \in S
  BY <1>1, <1>6, EmptySeq DEF ProbesAhead
<1>8. ASSUME NEW n \in 1..rounds, n - 1 \in S PROVE n \in S
  <2>1. /\ after[n] = step[n][after[n - 1]] /\ after[n - 1] \in Seq(Servers)
        /\ Len(after[n - 1]) = n - 1 /\ ProbesAhead(h, after[n - 1])
    BY <1>6, <1>8
  <2>2. Len(after[n]) = n /\ ProbesAhead(h, after[n])
    BY <1>4, <2>1
  <2> QED BY <2>2
<1>9. rounds \in S
  <2> HIDE DEF S
  <2>1. rounds \in Nat
    BY <1>1
  <2>2. \A n \in 0..rounds : n \in S
    BY <1>7, <1>8, <2>1, Inductive
  <2> QED BY <2>1, <2>2
<1> QED BY <1>1, <1>5, <1>6, <1>9 DEF rounds

-----------------------------------------------------------------------------
(* The inductive invariant.                                                *)

Health == [failures : Nat, retry : Int, latency : Nat \union {Unobserved}]
Choosing ==
  [at : {"choose"}, order : Seq(Servers), next : Nat \ {0}, deadline : Nat, asked : SUBSET Servers]
Exchanging ==
  [at : {"exchange"}, order : Seq(Servers), next : Nat \ {0}, deadline : Nat,
   asked : SUBSET Servers, began : Nat, ends : Nat]

TableOK == now \in Nat /\ health \in [Servers -> Health] /\ known \subseteq Servers
QueryOK == query \in [Threads -> {Idle} \union Choosing \union Exchanging] /\ overlap \in BOOLEAN
TypeOK == TableOK /\ QueryOK

\* A query has members; the aggregate deadline is at most MaxBudget away, and an
\* exchange ends before it.
Bounded ==
  \A t \in Threads :
    /\ query[t].at # "idle" => Len(query[t].order) > 0 /\ query[t].deadline <= now + MaxBudget
    /\ query[t].at = "exchange" =>
         /\ query[t].next <= Len(query[t].order) /\ query[t].asked # {}
         /\ query[t].began <= now /\ query[t].ends <= query[t].deadline

\* Without overlap one query is served at a time.
Alone ==
  ~overlap => \A t, u \in Threads : t = u \/ query[t].at = "idle" \/ query[u].at = "idle"

\* A member is passed over for one that follows, as long as none was asked.
ReadyAhead ==
  ~overlap => \A t \in Threads :
    query[t].at = "choose" /\ query[t].asked = {} /\ query[t].next > 1 =>
      \E i \in 1..Len(query[t].order) : i >= query[t].next /\ Ready(health, query[t].order[i])

GroupInv == TypeOK /\ Bounded /\ CircuitSound /\ Alone /\ ReadyAhead

(* The fields of a query *)
LEMMA QueryFields ==
  ASSUME QueryOK, NEW t \in Threads
  PROVE  /\ query[t].at \in {"idle", "choose", "exchange"}
         /\ query[t].at = "idle" => query[t] = Idle
         /\ query[t].at = "choose" => query[t] \in Choosing
         /\ query[t].at = "exchange" => query[t] \in Exchanging
BY DEF QueryOK, Choosing, Exchanging, Idle

(* Nothing has happened at first. *)
LEMMA GroupStarts == Init => GroupInv
<1> SUFFICES ASSUME Init PROVE GroupInv
  OBVIOUS
<1> USE DEF Init, Healthy
<1>1. TypeOK
  BY DEF TypeOK, TableOK, QueryOK, Health
<1>2. CircuitSound
  BY DEF CircuitSound, Ready
<1>3. Bounded /\ Alone /\ ReadyAhead
  BY DEF Bounded, Alone, ReadyAhead, Idle
<1> QED BY <1>1, <1>2, <1>3 DEF GroupInv

(* What the first critical section makes of query, table and order *)
BeginMeans(t) ==
  /\ query[t].at = "idle"
  /\ ~overlap => \A u \in Threads : query[u].at = "idle"
  /\ now' = now /\ overlap' = overlap
  /\ known' \subseteq Servers
  /\ health' = health \/ health' = [s \in Servers |-> Healthy]
  /\ \/ query' = query
     \/ \E order \in Seq(Servers), budget \in 0..MaxBudget :
          /\ Len(order) > 0 /\ ProbesAhead(health', order)
          /\ query' = [query EXCEPT ![t] =
               [at |-> "choose", order |-> order, next |-> 1, deadline |-> now + budget,
                asked |-> {}]]

LEMMA BeginFacts ==
  ASSUME FallbackGroupConstants, TypeOK, NEW t \in Threads, NEW primary \in Primaries,
         Begin(t, primary)
  PROVE  BeginMeans(t)
<1> DEFINE members == Members(primary)
           full == Cardinality(known) + Len(members) > MaxHealth
           h == IF full THEN [s \in Servers |-> Healthy] ELSE health
<1>1. members \in Seq(Servers)
  BY MembersType DEF FallbackGroupConstants
<1>2. query[t].at = "idle" /\ (~overlap => \A u \in Threads : query[u].at = "idle")
      /\ now' = now /\ overlap' = overlap
  BY DEF Begin
<1>3. CASE members = <<>>
  <2>1. query' = query
    BY <1>2, <1>3, QueryFields DEF Begin, Return, TypeOK, QueryOK
  <2>2. health' = health /\ known' = known
    BY <1>3 DEF Begin
  <2> QED BY <1>2, <2>1, <2>2 DEF BeginMeans, TypeOK, TableOK
<1>4. CASE members # <<>>
  <2>1. /\ health' = h /\ known' = (IF full THEN {} ELSE known) \union ToSet(members)
        /\ query' = [query EXCEPT ![t] =
             [at |-> "choose", order |-> Ranked(h, members), next |-> 1,
              deadline |-> now + Budget(members), asked |-> {}]]
    BY <1>4 DEF Begin
  <2> HIDE DEF h, full, members
  <2>2. Len(members) > 0 /\ ToSet(members) \subseteq Servers
    BY <1>1, <1>4, LenProperties, EmptySeq, ElementOfSeq DEF ToSet
  <2>3. /\ Ranked(h, members) \in Seq(Servers) /\ Len(Ranked(h, members)) = Len(members)
        /\ ProbesAhead(h, Ranked(h, members))
    BY <1>1, RankedMeans
  <2>4. Budget(members) \in 0..MaxBudget
    BY <1>1, BudgetType
  <2>5. known' \subseteq Servers
    BY <2>1, <2>2 DEF TypeOK, TableOK
  <2>6. health' = health \/ health' = [s \in Servers |-> Healthy]
    BY <2>1 DEF h
  <2> QED BY <1>2, <2>1, <2>2, <2>3, <2>4, <2>5, <2>6 DEF BeginMeans
<1> QED BY <1>3, <1>4

-----------------------------------------------------------------------------
(* Every step keeps the invariant.                                         *)

QueryTypes == {Idle} \union Choosing \union Exchanging

(* A round goes on with the next member. *)
LEMMA NextMember ==
  ASSUME NEW q \in Choosing
  PROVE  LET n == [at |-> "choose", order |-> q.order, next |-> q.next + 1,
                   deadline |-> q.deadline, asked |-> q.asked]
         IN  [q EXCEPT !.next = q.next + 1] = n /\ n \in Choosing
<1>1. PICK order \in Seq(Servers), next \in Nat \ {0}, deadline \in Nat, asked \in SUBSET Servers :
        q = [at |-> "choose", order |-> order, next |-> next, deadline |-> deadline,
             asked |-> asked]
  BY DEF Choosing
<1>2. q.order = order /\ q.next = next /\ q.deadline = deadline /\ q.asked = asked
  BY <1>1
<1>3. next + 1 \in Nat \ {0}
  OBVIOUS
<1>4. \A n : [q EXCEPT !.next = n] = [at |-> "choose", order |-> order, next |-> n,
                                     deadline |-> deadline, asked |-> asked]
  BY <1>1
<1> QED BY <1>2, <1>3, <1>4 DEF Choosing

MaxOpen == OpenTime * 2^MaxShift

(* The shift is capped, and with it the time a circuit is open. *)
LEMMA OpenBounded ==
  ASSUME FallbackGroupConstants, NEW failures \in Nat, failures >= 2
  PROVE  MaxOpen \in Int /\ Backoff(failures) \in Int /\ Backoff(failures) <= MaxOpen
<1> DEFINE shift == Least(failures - 2, MaxShift)
<1>1. OpenTime \in Nat /\ MaxShift \in 0..3
  BY DEF FallbackGroupConstants
<1>2. shift \in 0..3 /\ shift <= MaxShift
  <2>1. failures - 2 \in Nat
    OBVIOUS
  <2> QED BY <1>1, <2>1 DEF Least
<1> HIDE DEF shift
<1> DEFINE power == [n \in 0..3 |-> 2^n]
<1>3. power[0] = 1 /\ power[1] = 2 /\ power[2] = 4 /\ power[3] = 8
  <2>1. 2^0 = 1 /\ 2^1 = 2 /\ 2^2 = 4 /\ 2^3 = 8
    OBVIOUS
  <2> QED BY <2>1
<1>4. power[shift] = 2^shift /\ power[MaxShift] = 2^MaxShift
  BY <1>1, <1>2
<1> HIDE DEF power
<1>5. power[shift] \in Nat /\ power[MaxShift] \in Nat /\ power[shift] <= power[MaxShift]
  <2>1. MaxShift = 0 \/ MaxShift = 1 \/ MaxShift = 2 \/ MaxShift = 3
    BY <1>1
  <2>2. shift = 0 \/ shift = 1 \/ shift = 2 \/ shift = 3
    BY <1>2
  <2> QED BY <1>2, <1>3, <2>1, <2>2
<1>6. \A a, b \in Nat : a <= b => OpenTime * a \in Int /\ OpenTime * b \in Int
                                 /\ OpenTime * a <= OpenTime * b
  BY <1>1
<1>7. /\ OpenTime * power[MaxShift] \in Int /\ OpenTime * power[shift] \in Int
      /\ OpenTime * power[shift] <= OpenTime * power[MaxShift]
  BY <1>5, <1>6
<1> QED BY <1>4, <1>7 DEF Backoff, MaxOpen, shift

(* A failure changes two fields of an entry. *)
LEMMA Entry ==
  ASSUME NEW e \in Health, NEW failures, NEW retry
  PROVE  [e EXCEPT !.failures = failures, !.retry = retry]
           = [failures |-> failures, retry |-> retry, latency |-> e.latency]
<1> DEFINE f == [e EXCEPT !.failures = failures]
<1>1. DOMAIN e = {"failures", "retry", "latency"} /\ e = [x \in DOMAIN e |-> e[x]]
  BY DEF Health
<1>2. f = [failures |-> failures, retry |-> e.retry, latency |-> e.latency]
  BY <1>1
<1>3. [e EXCEPT !.failures = failures, !.retry = retry] = [f EXCEPT !.retry = retry]
  OBVIOUS
<1> HIDE DEF f
<1> QED BY <1>2, <1>3

(* The lesser of two numbers *)
LEMMA LeastMeans ==
  ASSUME NEW a \in Int, NEW b \in Int
  PROVE  Least(a, b) \in {a, b} /\ Least(a, b) <= a /\ Least(a, b) <= b
BY DEF Least

(* One query changes. *)
LEMMA OneChanges ==
  ASSUME QueryOK, NEW t \in Threads, NEW q \in QueryTypes,
         query' = [query EXCEPT ![t] = q], overlap' = overlap
  PROVE  /\ QueryOK' /\ query'[t] = q
         /\ \A u \in Threads : u # t => query'[u] = query[u]
BY DEF QueryOK, QueryTypes

(* The member a query has reached *)
LEMMA CandidateFacts ==
  ASSUME TypeOK, Bounded, NEW t \in Threads,
         query[t].at = "exchange" \/ (query[t].at = "choose" /\ ~Exhausted(t))
  PROVE  /\ query[t].next \in 1..Len(query[t].order)
         /\ Candidate(t) = query[t].order[query[t].next]
         /\ Candidate(t) \in Servers /\ health[Candidate(t)] \in Health
<1>1. /\ query[t].order \in Seq(Servers) /\ query[t].next \in Nat \ {0}
      /\ query[t].next <= Len(query[t].order)
  <2>1. CASE query[t].at = "exchange"
    BY <2>1, QueryFields DEF TypeOK, Bounded, Exchanging
  <2>2. CASE query[t].at = "choose" /\ ~Exhausted(t)
    <3>1. query[t].order \in Seq(Servers) /\ query[t].next \in Nat \ {0}
      BY <2>2, QueryFields DEF TypeOK, Choosing
    <3>2. Len(query[t].order) \in Nat /\ ~(query[t].next > Len(query[t].order))
      BY <2>2, <3>1, LenProperties DEF Exhausted
    <3> QED BY <3>1, <3>2
  <2> QED BY <2>1, <2>2
<1>2. query[t].next \in 1..Len(query[t].order)
  BY <1>1, LenProperties
<1>3. query[t].order[query[t].next] \in Servers
  BY <1>1, <1>2, ElementOfSeq
<1> QED BY <1>2, <1>3 DEF Candidate, TypeOK, TableOK

(* A round up to the exchange ends the query, passes a member over or asks *)
(* it.                                                                     *)
LEMMA ChooseFacts ==
  ASSUME FallbackGroupConstants, TypeOK, Bounded, NEW t \in Threads, Choose(t)
  PROVE  /\ query[t] \in Choosing /\ now' = now /\ health' = health /\ overlap' = overlap
         /\ known' \subseteq Servers
         /\ \E q \in QueryTypes :
              /\ query' = [query EXCEPT ![t] = q]
              /\ \/ Exhausted(t) /\ q = Idle
                 \/ /\ ~Exhausted(t) /\ PassesOver(t)
                    /\ q \in Choosing /\ q.order = query[t].order /\ q.asked = query[t].asked
                    /\ q.next = query[t].next + 1 /\ q.deadline = query[t].deadline
                 \/ /\ ~Exhausted(t)
                    /\ q \in Exchanging /\ q.order = query[t].order /\ q.next = query[t].next
                    /\ q.deadline = query[t].deadline /\ q.asked # {}
                    /\ q.began = now /\ q.ends <= q.deadline
<1>1. query[t].at = "choose" /\ query[t] \in Choosing
  BY QueryFields DEF Choose, TypeOK
<1>2. /\ query[t].order \in Seq(Servers) /\ query[t].next \in Nat \ {0} /\ query[t].deadline \in Nat
      /\ query[t].asked \subseteq Servers
      /\ query[t] = [at |-> "choose", order |-> query[t].order, next |-> query[t].next,
                     deadline |-> query[t].deadline, asked |-> query[t].asked]
  BY <1>1 DEF Choosing
<1>3. now' = now /\ health' = health /\ overlap' = overlap
  BY DEF Choose
<1>4. known' \subseteq Servers
  <2>1. ToSet(query[t].order) \subseteq Servers
    BY <1>2, LenProperties, ElementOfSeq DEF ToSet
  <2> QED BY <2>1 DEF Choose, TypeOK, TableOK
<1>5. CASE Exhausted(t)
  <2>1. query' = [query EXCEPT ![t] = Idle]
    BY <1>5 DEF Choose, Return
  <2> QED BY <1>1, <1>3, <1>4, <1>5, <2>1 DEF QueryTypes
<1>6. CASE ~Exhausted(t) /\ PassesOver(t)
  <2> DEFINE q == [at |-> "choose", order |-> query[t].order, next |-> query[t].next + 1,
                   deadline |-> query[t].deadline, asked |-> query[t].asked]
  <2>1. query' = [query EXCEPT ![t] = [query[t] EXCEPT !.next = query[t].next + 1]]
    BY <1>6 DEF Choose
  <2>2. [query[t] EXCEPT !.next = query[t].next + 1] = q /\ q \in Choosing
    BY <1>1, NextMember
  <2>3. q.order = query[t].order /\ q.next = query[t].next + 1
        /\ q.deadline = query[t].deadline /\ q.asked = query[t].asked
    OBVIOUS
  <2> HIDE DEF q
  <2> QED BY <1>1, <1>3, <1>4, <1>6, <2>1, <2>2, <2>3 DEF QueryTypes
<1>7. CASE ~Exhausted(t) /\ ~PassesOver(t)
  <2> DEFINE q == [at |-> "exchange", order |-> query[t].order, next |-> query[t].next,
                   deadline |-> query[t].deadline, asked |-> query[t].asked \union {Candidate(t)},
                   began |-> now, ends |-> AttemptEnd(t)]
  <2>1. query' = [query EXCEPT ![t] = q]
    BY <1>7 DEF Choose
  <2>2. Candidate(t) \in Servers
    BY <1>1, <1>7, CandidateFacts
  <2>3. AttemptEnd(t) \in Nat /\ AttemptEnd(t) <= query[t].deadline
    <3>1. now \in Nat /\ now < query[t].deadline
      BY <1>2, <1>7 DEF Exhausted, TypeOK, TableOK
    <3>2. Timeout[Candidate(t)] \in Nat
      BY <2>2 DEF FallbackGroupConstants
    <3> DEFINE left == query[t].deadline - now
               least == Least(Timeout[Candidate(t)], left)
    <3>3. left \in Nat
      BY <1>2, <3>1
    <3> HIDE DEF left
    <3>4. least \in Nat /\ least <= left
      <4> DEFINE timeout == Timeout[Candidate(t)]
      <4>1. timeout \in Nat
        BY <3>2
      <4> HIDE DEF timeout
      <4>2. Least(timeout, left) \in {timeout, left} /\ Least(timeout, left) <= left
        BY <3>3, <4>1, LeastMeans
      <4> QED BY <3>3, <4>1, <4>2 DEF timeout
    <3>5. AttemptEnd(t) = now + least
      BY DEF AttemptEnd, left
    <3> HIDE DEF least
    <3>6. now + least \in Nat /\ now + least <= now + left
      BY <3>1, <3>3, <3>4
    <3>7. now + left = query[t].deadline
      <4>1. now \in Int /\ query[t].deadline \in Int
        BY <1>2, <3>1
      <4> QED BY <4>1 DEF left
    <3> QED BY <3>5, <3>6, <3>7
  <2>4. q \in Exchanging
    BY <1>2, <2>2, <2>3 DEF Exchanging, TypeOK, TableOK
  <2>5. q.order = query[t].order /\ q.next = query[t].next /\ q.deadline = query[t].deadline
        /\ q.asked # {} /\ q.began = now /\ q.ends = AttemptEnd(t)
    OBVIOUS
  <2> HIDE DEF q
  <2> QED BY <1>1, <1>3, <1>4, <1>7, <2>1, <2>3, <2>4, <2>5 DEF QueryTypes
<1> QED BY <1>5, <1>6, <1>7

(* What an answer does to the table *)
LEMMA SucceedFacts ==
  ASSUME FallbackGroupConstants, TypeOK, Bounded, CircuitSound, NEW t \in Threads, Succeed(t)
  PROVE  /\ query[t].at = "exchange" /\ query' = [query EXCEPT ![t] = Idle]
         /\ now' = now /\ overlap' = overlap
         /\ TableOK' /\ CircuitSound'
<1> DEFINE c == Candidate(t)
           latency == Smoothed(health[c].latency, now - query[t].began)
<1>1. /\ query[t].at = "exchange" /\ query' = [query EXCEPT ![t] = Idle]
      /\ now' = now /\ overlap' = overlap
      /\ known' = known \union {c}
      /\ health' = [health EXCEPT ![c] = [failures |-> 0, retry |-> 0, latency |-> latency]]
  BY DEF Succeed, Return
<1>2. c \in Servers /\ health[c] \in Health
  BY <1>1, CandidateFacts
<1>3. latency \in Nat
  <2>1. now - query[t].began \in Nat
    BY <1>1, QueryFields DEF TypeOK, TableOK, Bounded, Exchanging
  <2>2. health[c].latency \in Nat \union {Unobserved}
    BY <1>2 DEF Health
  <2>3. \A old, rtt \in Nat : (4 * old + rtt) \div 5 \in Nat
    OBVIOUS
  <2> QED BY <2>1, <2>2, <2>3 DEF Smoothed
<1> HIDE DEF c, latency
<1>4. TableOK'
  BY <1>1, <1>2, <1>3 DEF TypeOK, TableOK, Health
<1>5. \A s \in Servers : /\ s = c => health'[s].retry = 0
                         /\ s # c => health'[s] = health[s]
  BY <1>1 DEF TypeOK, TableOK
<1>6. CircuitSound'
  BY <1>1, <1>5 DEF CircuitSound, Ready, TypeOK, TableOK
<1> QED BY <1>1, <1>4, <1>6

(* What a failure does to the table: with the second in a row the circuit  *)
(* opens, for MaxOpen at most.                                             *)
LEMMA FailFacts ==
  ASSUME FallbackGroupConstants, TypeOK, Bounded, CircuitSound, NEW t \in Threads, Fail(t)
  PROVE  /\ query[t].at = "exchange" /\ now' = now /\ overlap' = overlap
         /\ TableOK' /\ CircuitSound'
         /\ \E q \in Choosing :
              /\ query' = [query EXCEPT ![t] = q] /\ q.order = query[t].order
              /\ q.deadline = query[t].deadline /\ q.asked # {}
<1> DEFINE c == Candidate(t)
           failures == health[c].failures + 1
           retry == IF failures >= 2 THEN now + Backoff(failures) ELSE health[c].retry
           q == [at |-> "choose", order |-> query[t].order, next |-> query[t].next + 1,
                 deadline |-> query[t].deadline, asked |-> query[t].asked]
<1>1. /\ query[t].at = "exchange" /\ query' = [query EXCEPT ![t] = q]
      /\ now' = now /\ overlap' = overlap
      /\ known' = known \union {c}
      /\ health' = [health EXCEPT ![c].failures = failures,
                                  ![c].retry = IF failures >= 2 THEN now + Backoff(failures) ELSE @]
  BY DEF Fail
<1>2. c \in Servers /\ health[c] \in Health
  BY <1>1, CandidateFacts
<1>3. q \in Choosing /\ q.asked # {}
  <2>1. query[t] \in Exchanging /\ query[t].asked # {}
    BY <1>1, QueryFields DEF TypeOK, Bounded
  <2>2. /\ query[t].order \in Seq(Servers) /\ query[t].deadline \in Nat
        /\ query[t].asked \in SUBSET Servers
    BY <2>1 DEF Exchanging
  <2>3. query[t].next + 1 \in Nat \ {0}
    <3>1. query[t].next \in Nat
      BY <2>1 DEF Exchanging
    <3> QED BY <3>1
  <2> QED BY <2>1, <2>2, <2>3 DEF Choosing
<1>4. failures \in Nat /\ health[c].retry \in Int
  BY <1>2 DEF Health
<1>5. health' = [health EXCEPT ![c] = [failures |-> failures, retry |-> retry,
                                       latency |-> health[c].latency]]
  <2>1. [health[c] EXCEPT !.failures = failures, !.retry = retry]
          = [failures |-> failures, retry |-> retry, latency |-> health[c].latency]
    <3> HIDE DEF c, failures, retry
    <3> QED BY <1>2, Entry
  <2>2. health' = [health EXCEPT ![c] = [health[c] EXCEPT !.failures = failures, !.retry = retry]]
    BY <1>1, <1>2 DEF TypeOK, TableOK
  <2> HIDE DEF failures, retry, c
  <2> QED BY <2>1, <2>2
<1> HIDE DEF c, failures
<1>6. failures >= 2 => Backoff(failures) \in Int /\ Backoff(failures) <= MaxOpen
  BY <1>4, OpenBounded
<1>7. retry \in Int
  BY <1>4, <1>6 DEF TypeOK, TableOK
<1>8. failures >= 2 => retry <= now + MaxOpen
  BY <1>4, <1>6, OpenBounded DEF TypeOK, TableOK
<1>9. ~(failures >= 2) => retry = health[c].retry /\ ~(health[c].failures >= 2)
  BY <1>2, <1>4 DEF failures, Health
<1> HIDE DEF retry, q
<1>10. TableOK'
  <2>1. [failures |-> failures, retry |-> retry, latency |-> health[c].latency] \in Health
    BY <1>2, <1>4, <1>7 DEF Health
  <2>2. known' \subseteq Servers /\ now' \in Nat
    BY <1>1, <1>2 DEF TypeOK, TableOK
  <2>3. health' \in [Servers -> Health]
    BY <1>5, <2>1 DEF TypeOK, TableOK
  <2> QED BY <2>2, <2>3 DEF TableOK
<1>11. \A s \in Servers :
         /\ s = c => health'[s].retry = retry /\ health'[s].failures = failures
         /\ s # c => health'[s] = health[s]
  BY <1>5 DEF TypeOK, TableOK
<1>12. CircuitSound'
  <2> SUFFICES ASSUME NEW s \in Servers
               PROVE  ~(health'[s].retry <= now) =>
                        health'[s].failures >= 2 /\ health'[s].retry <= now + MaxOpen
    BY <1>1 DEF CircuitSound, Ready, MaxOpen
  <2>1. ~(health[s].retry <= now) => health[s].failures >= 2 /\ health[s].retry <= now + MaxOpen
    BY DEF CircuitSound, Ready, MaxOpen
  <2> QED BY <1>2, <1>8, <1>9, <1>11, <2>1
<1>13. q.order = query[t].order /\ q.deadline = query[t].deadline
  BY DEF q
<1> QED BY <1>1, <1>3, <1>10, <1>12, <1>13

(* Types, bounds of time and circuits *)
LEMMA SoundStep ==
  FallbackGroupConstants /\ TypeOK /\ Bounded /\ CircuitSound /\ [Next]_vars
  => TypeOK' /\ Bounded' /\ CircuitSound'
<1> SUFFICES ASSUME FallbackGroupConstants, TypeOK, Bounded, CircuitSound, [Next]_vars
             PROVE  TypeOK' /\ Bounded' /\ CircuitSound'
  OBVIOUS
<1>0. now \in Nat /\ MaxBudget \in Nat
  BY DEF TypeOK, TableOK, FallbackGroupConstants
<1>1. ASSUME NEW t \in Threads, NEW primary \in Primaries, Begin(t, primary)
      PROVE  TypeOK' /\ Bounded' /\ CircuitSound'
  <2>1. BeginMeans(t)
    BY <1>1, BeginFacts
  <2>2. TableOK' /\ CircuitSound'
    <3>1. CASE health' = health
      BY <2>1, <3>1 DEF BeginMeans, TypeOK, TableOK, CircuitSound, Ready
    <3>2. CASE health' = [s \in Servers |-> Healthy]
      BY <2>1, <3>2, <1>0 DEF BeginMeans, TypeOK, TableOK, CircuitSound, Ready, Healthy, Health
    <3> QED BY <2>1, <3>1, <3>2 DEF BeginMeans
  <2>3. CASE query' = query
    BY <2>1, <2>2, <2>3 DEF BeginMeans, TypeOK, QueryOK, Bounded
  <2>4. CASE query' # query
    <3>1. PICK order \in Seq(Servers), budget \in 0..MaxBudget :
            /\ Len(order) > 0
            /\ query' = [query EXCEPT ![t] =
                 [at |-> "choose", order |-> order, next |-> 1, deadline |-> now + budget,
                  asked |-> {}]]
      BY <2>1, <2>4 DEF BeginMeans
    <3> DEFINE q == [at |-> "choose", order |-> order, next |-> 1, deadline |-> now + budget,
                     asked |-> {}]
    <3>2. now + budget \in Nat /\ now + budget <= now + MaxBudget
      BY <1>0
    <3>3. q \in Choosing
      BY <3>2 DEF Choosing
    <3>4. q.at = "choose" /\ Len(q.order) > 0 /\ q.deadline <= now + MaxBudget
      BY <3>1, <3>2
    <3>5. query' = [query EXCEPT ![t] = q]
      BY <3>1
    <3> HIDE DEF q
    <3>6. QueryOK' /\ query'[t] = q /\ \A u \in Threads : u # t => query'[u] = query[u]
      BY <2>1, <3>3, <3>5, OneChanges DEF QueryTypes, TypeOK, BeginMeans
    <3>7. Bounded'
      BY <2>1, <3>4, <3>6 DEF Bounded, BeginMeans
    <3> QED BY <2>2, <3>6, <3>7 DEF TypeOK
  <2> QED BY <2>3, <2>4
<1>2. ASSUME NEW t \in Threads, Choose(t) PROVE TypeOK' /\ Bounded' /\ CircuitSound'
  <2>1. /\ query[t] \in Choosing /\ now' = now /\ health' = health /\ overlap' = overlap
        /\ known' \subseteq Servers
    BY <1>2, ChooseFacts
  <2>2. PICK q \in QueryTypes :
          /\ query' = [query EXCEPT ![t] = q]
          /\ \/ Exhausted(t) /\ q = Idle
             \/ q \in Choosing /\ q.order = query[t].order /\ q.deadline = query[t].deadline
             \/ /\ ~Exhausted(t)
                /\ q \in Exchanging /\ q.order = query[t].order /\ q.next = query[t].next
                /\ q.deadline = query[t].deadline /\ q.asked # {}
                /\ q.began = now /\ q.ends <= q.deadline
    BY <1>2, ChooseFacts
  <2>3. QueryOK' /\ query'[t] = q /\ \A u \in Threads : u # t => query'[u] = query[u]
    BY <2>1, <2>2, OneChanges DEF TypeOK
  <2>4. TableOK' /\ CircuitSound'
    BY <2>1 DEF TypeOK, TableOK, CircuitSound, Ready
  <2>5. Len(query[t].order) > 0 /\ query[t].deadline <= now + MaxBudget
    BY <2>1 DEF Bounded, Choosing
  <2>6. ~Exhausted(t) => query[t].next <= Len(query[t].order)
    BY <2>1, CandidateFacts DEF Choosing
  <2>7. /\ q.at # "idle" => Len(q.order) > 0 /\ q.deadline <= now + MaxBudget
        /\ q.at = "exchange" => /\ q.next <= Len(q.order) /\ q.asked # {}
                                /\ q.began <= now /\ q.ends <= q.deadline
    <3>1. CASE q = Idle
      BY <3>1 DEF Idle
    <3>2. CASE q \in Choosing /\ q.order = query[t].order /\ q.deadline = query[t].deadline
      BY <2>5, <3>2 DEF Choosing
    <3>3. CASE /\ ~Exhausted(t)
               /\ q \in Exchanging /\ q.order = query[t].order /\ q.next = query[t].next
               /\ q.deadline = query[t].deadline /\ q.asked # {}
               /\ q.began = now /\ q.ends <= q.deadline
      BY <1>0, <2>5, <2>6, <3>3
    <3> QED BY <2>2, <3>1, <3>2, <3>3
  <2>8. Bounded'
    BY <2>1, <2>3, <2>7 DEF Bounded
  <2> QED BY <2>3, <2>4, <2>8 DEF TypeOK
<1>3. ASSUME NEW t \in Threads, Succeed(t) \/ Cancel(t)
      PROVE  TypeOK' /\ Bounded' /\ CircuitSound'
  <2>1. /\ query' = [query EXCEPT ![t] = Idle] /\ now' = now /\ overlap' = overlap
        /\ TableOK' /\ CircuitSound'
    <3>1. CASE Succeed(t)
      BY <3>1, SucceedFacts
    <3>2. CASE Cancel(t)
      BY <3>2 DEF Cancel, Return, TypeOK, TableOK, CircuitSound, Ready
    <3> QED BY <1>3, <3>1, <3>2
  <2>2. QueryOK' /\ query'[t] = Idle /\ \A u \in Threads : u # t => query'[u] = query[u]
    BY <2>1, OneChanges DEF TypeOK, QueryTypes
  <2>3. Bounded'
    BY <2>1, <2>2 DEF Bounded, Idle
  <2> QED BY <2>1, <2>2, <2>3 DEF TypeOK
<1>4. ASSUME NEW t \in Threads, Fail(t) PROVE TypeOK' /\ Bounded' /\ CircuitSound'
  <2>1. /\ query[t].at = "exchange" /\ now' = now /\ overlap' = overlap
        /\ TableOK' /\ CircuitSound'
    BY <1>4, FailFacts
  <2>2. PICK q \in Choosing :
          /\ query' = [query EXCEPT ![t] = q] /\ q.order = query[t].order
          /\ q.deadline = query[t].deadline
    BY <1>4, FailFacts
  <2>3. QueryOK' /\ query'[t] = q /\ \A u \in Threads : u # t => query'[u] = query[u]
    BY <2>1, <2>2, OneChanges DEF TypeOK, QueryTypes
  <2>4. q.at = "choose" /\ Len(q.order) > 0 /\ q.deadline <= now + MaxBudget
    BY <2>1, <2>2 DEF Bounded, Choosing
  <2>5. Bounded'
    BY <2>1, <2>3, <2>4 DEF Bounded
  <2> QED BY <2>1, <2>3, <2>5 DEF TypeOK
<1>5. CASE Tick
  <2>1. now' = now + 1 /\ health' = health /\ known' = known /\ query' = query /\ overlap' = overlap
    BY <1>5 DEF Tick
  <2>2. TypeOK'
    BY <1>0, <2>1 DEF TypeOK, TableOK, QueryOK
  <2>3. CircuitSound'
    <3> SUFFICES ASSUME NEW s \in Servers, ~(health[s].retry <= now + 1)
                 PROVE  health[s].failures >= 2 /\ health[s].retry <= now + 1 + MaxOpen
      BY <2>1 DEF CircuitSound, Ready, MaxOpen
    <3>1. health[s].retry \in Int /\ MaxOpen \in Int
      BY OpenBounded DEF TypeOK, TableOK, Health
    <3>2. ~(health[s].retry <= now) => health[s].failures >= 2 /\ health[s].retry <= now + MaxOpen
      BY DEF CircuitSound, Ready, MaxOpen
    <3> QED BY <1>0, <3>1, <3>2
  <2>4. Bounded'
    <3> SUFFICES ASSUME NEW t \in Threads, query[t].at # "idle"
                 PROVE  /\ Len(query[t].order) > 0 /\ query[t].deadline <= now + 1 + MaxBudget
                        /\ query[t].at = "exchange" =>
                             /\ query[t].next <= Len(query[t].order) /\ query[t].asked # {}
                             /\ query[t].began <= now + 1 /\ query[t].ends <= query[t].deadline
      BY <2>1 DEF Bounded
    <3>1. query[t].deadline \in Nat /\ (query[t].at = "exchange" => query[t].began \in Nat)
      BY QueryFields DEF TypeOK, Choosing, Exchanging
    <3> QED BY <1>0, <3>1 DEF Bounded
  <2> QED BY <2>2, <2>3, <2>4
<1>6. CASE UNCHANGED vars
  BY <1>6 DEF vars, TypeOK, TableOK, QueryOK, Bounded, CircuitSound, Ready
<1> QED BY <1>1, <1>2, <1>3, <1>4, <1>5, <1>6 DEF Next, Serve

(* Without overlap a query has the table to itself, and whom it passes     *)
(* over is not the last that may be asked.                                 *)
LEMMA SerialStep == FallbackGroupConstants /\ GroupInv /\ [Next]_vars => Alone' /\ ReadyAhead'
<1> SUFFICES ASSUME FallbackGroupConstants, GroupInv, [Next]_vars, ~overlap'
             PROVE  Alone' /\ ReadyAhead'
  BY DEF Alone, ReadyAhead
<1> USE DEF GroupInv
<1>1. ASSUME NEW t \in Threads, NEW primary \in Primaries, Begin(t, primary)
      PROVE  Alone' /\ ReadyAhead'
  <2>1. BeginMeans(t)
    BY <1>1, BeginFacts
  <2>2. ~overlap /\ \A u \in Threads : query[u].at = "idle"
    BY <2>1 DEF BeginMeans
  <2>3. CASE query' = query
    BY <2>2, <2>3 DEF Alone, ReadyAhead
  <2>4. CASE query' # query
    <3>1. PICK order \in Seq(Servers), budget \in 0..MaxBudget :
            query' = [query EXCEPT ![t] =
              [at |-> "choose", order |-> order, next |-> 1, deadline |-> now + budget,
               asked |-> {}]]
      BY <2>1, <2>4 DEF BeginMeans
    <3>2. query'[t].next = 1 /\ \A u \in Threads : u # t => query'[u].at = "idle"
      BY <2>2, <3>1 DEF TypeOK, QueryOK
    <3>3. Alone'
      BY <3>2 DEF Alone
    <3>4. ReadyAhead'
      <4>1. ~(query'[t].next > 1)
        BY <3>2
      <4> QED BY <3>2, <4>1 DEF ReadyAhead
    <3> QED BY <3>3, <3>4
  <2> QED BY <2>3, <2>4
<1>2. ASSUME NEW t \in Threads, NEW q \in QueryTypes, query' = [query EXCEPT ![t] = q],
             overlap' = overlap, query[t].at # "idle",
             q.at = "choose" /\ q.asked = {} /\ q.next > 1 =>
               \E i \in 1..Len(q.order) : i >= q.next /\ Ready(health, q.order[i])',
             now' = now
      PROVE  Alone' /\ ReadyAhead'
  <2>1. query'[t] = q /\ \A u \in Threads : u # t => query'[u] = query[u] /\ query[u].at = "idle"
    BY <1>2, OneChanges DEF Alone, TypeOK
  <2> QED BY <1>2, <2>1 DEF Alone, ReadyAhead
<1>3. ASSUME NEW t \in Threads, Choose(t) PROVE Alone' /\ ReadyAhead'
  <2>1. query[t] \in Choosing /\ now' = now /\ health' = health /\ overlap' = overlap
    BY <1>3, ChooseFacts
  <2>2. PICK q \in QueryTypes :
          /\ query' = [query EXCEPT ![t] = q]
          /\ \/ q = Idle
             \/ /\ ~Exhausted(t) /\ PassesOver(t)
                /\ q.order = query[t].order /\ q.next = query[t].next + 1
                /\ q.asked = query[t].asked
             \/ q \in Exchanging
    BY <1>3, ChooseFacts
  <2>3. ASSUME ~Exhausted(t), PassesOver(t), query[t].asked = {}, q.order = query[t].order,
               q.next = query[t].next + 1
        PROVE  \E i \in 1..Len(q.order) : i >= q.next /\ Ready(health, q.order[i])
    <3> DEFINE order == query[t].order
               next == query[t].next
    <3>1. /\ order \in Seq(Servers) /\ next \in 1..Len(order) /\ Candidate(t) = order[next]
          /\ Len(order) \in Nat /\ DOMAIN order = 1..Len(order)
      BY <2>1, <2>3, CandidateFacts, LenProperties DEF Choosing
    <3>2. ~Ready(health, order[next])
      BY <2>3, <3>1 DEF PassesOver
    <3>3. PICK i \in 1..Len(order) : i >= next /\ Ready(health, order[i])
      <4>1. CASE next = 1
        <5>1. PICK s \in ToSet(order) : Ready(health, s)
          BY <2>3 DEF PassesOver
        <5>2. PICK i \in 1..Len(order) : order[i] = s
          BY <3>1, <5>1 DEF ToSet
        <5>3. Ready(health, order[i]) /\ i >= 1
          BY <5>1, <5>2
        <5> HIDE DEF order, next
        <5> QED BY <4>1, <5>3
      <4>2. CASE next > 1
        BY <2>1, <2>3, <4>2 DEF ReadyAhead, Choosing
      <4> QED BY <3>1, <4>1, <4>2
    <3>4. i # next
      BY <3>2, <3>3
    <3> HIDE DEF order, next
    <3>5. i >= next + 1
      BY <3>1, <3>3, <3>4
    <3> QED BY <2>3, <3>3, <3>5 DEF order, next
  <2>4. q.at = "choose" /\ q.asked = {} /\ q.next > 1 =>
          \E i \in 1..Len(q.order) : i >= q.next /\ Ready(health, q.order[i])'
    <3>1. CASE q = Idle \/ q \in Exchanging
      BY <3>1 DEF Idle, Exchanging
    <3>2. CASE /\ ~Exhausted(t) /\ PassesOver(t)
               /\ q.order = query[t].order /\ q.next = query[t].next + 1
               /\ q.asked = query[t].asked
      BY <2>1, <2>3, <3>2 DEF Ready
    <3> QED BY <2>2, <3>1, <3>2
  <2>5. query[t].at # "idle"
    BY <2>1 DEF Choosing
  <2> QED BY <1>2, <2>1, <2>2, <2>4, <2>5
<1>4. ASSUME NEW t \in Threads, Succeed(t) \/ Cancel(t) PROVE Alone' /\ ReadyAhead'
  <2>1. query[t].at = "exchange" /\ query' = [query EXCEPT ![t] = Idle]
        /\ now' = now /\ overlap' = overlap
    BY <1>4 DEF Succeed, Cancel, Return
  <2>2. Idle \in QueryTypes /\ Idle.at # "choose"
    BY DEF QueryTypes, Idle
  <2> QED BY <1>2, <2>1, <2>2
<1>5. ASSUME NEW t \in Threads, Fail(t) PROVE Alone' /\ ReadyAhead'
  <2>1. query[t].at = "exchange" /\ now' = now /\ overlap' = overlap
    BY <1>5, FailFacts
  <2>2. PICK q \in Choosing : query' = [query EXCEPT ![t] = q] /\ q.asked # {}
    BY <1>5, FailFacts
  <2> QED BY <1>2, <2>1, <2>2 DEF QueryTypes
<1>6. CASE Tick
  <2>1. now' = now + 1 /\ health' = health /\ query' = query /\ overlap' = overlap
    BY <1>6 DEF Tick
  <2>2. Alone'
    BY <2>1 DEF Alone
  <2>3. \A s \in Servers : Ready(health, s) => Ready(health, s)'
    BY <2>1 DEF Ready, TypeOK, TableOK, Health
  <2>4. ReadyAhead'
    <3> SUFFICES ASSUME NEW t \in Threads, query[t].at = "choose", query[t].asked = {},
                        query[t].next > 1
                 PROVE  \E i \in 1..Len(query[t].order) :
                          i >= query[t].next /\ Ready(health, query[t].order[i])'
      BY <2>1 DEF ReadyAhead, Ready
    <3>1. PICK i \in 1..Len(query[t].order) : i >= query[t].next /\ Ready(health, query[t].order[i])
      BY <2>1 DEF ReadyAhead
    <3>2. query[t].order[i] \in Servers
      BY QueryFields, ElementOfSeq DEF TypeOK, Choosing
    <3> QED BY <2>1, <2>3, <3>1, <3>2 DEF Ready
  <2> QED BY <2>2, <2>4
<1>7. CASE UNCHANGED vars
  BY <1>7 DEF vars, Alone, ReadyAhead, Ready
<1> QED BY <1>1, <1>3, <1>4, <1>5, <1>6, <1>7 DEF Next, Serve

(* The invariant holds of every behaviour. *)
LEMMA GroupHolds == Spec => []GroupInv
<1>1. GroupInv /\ [Next]_vars => GroupInv'
  BY SoundStep, SerialStep, FallbackGroupConstants DEF GroupInv
<1> QED BY <1>1, GroupStarts, PTL DEF Spec

-----------------------------------------------------------------------------
(* The theorems.                                                           *)

(* The type invariant *)
THEOREM TypeCorrect == Spec => []TypeOK
BY GroupHolds, PTL DEF GroupInv

(* An open circuit has seen two failures in a row and opens for            *)
(* OpenTime * 2^MaxShift at most, whatever the interleaving of the         *)
(* handlers that write the table.                                          *)
THEOREM CircuitsHold == Spec => []CircuitSound
BY GroupHolds, PTL DEF GroupInv

(* The query that begins next asks those first whose circuit has expired.  *)
THEOREM ProbesComeFirst == Spec => ProbesFirst
<1>1. GroupInv /\ [Next]_vars =>
        [\A t \in Threads :
           query[t].at = "idle" /\ query'[t].at = "choose" =>
             LET order == query'[t].order IN
             \A i, j \in 1..Len(order) :
               Probe(health', order[i]) /\ ~Probe(health', order[j]) => i < j]_vars
  <2> SUFFICES ASSUME GroupInv, Next, NEW t \in Threads,
                      query[t].at = "idle", query'[t].at = "choose"
               PROVE  \A i, j \in 1..Len(query'[t].order) :
                        Probe(health', query'[t].order[i]) /\ ~Probe(health', query'[t].order[j])
                          => i < j
    OBVIOUS
  <2> USE FallbackGroupConstants DEF GroupInv
  <2>1. ASSUME NEW u \in Threads, NEW primary \in Primaries, Begin(u, primary)
        PROVE  ProbesAhead(health', query'[t].order)
    <3>1. BeginMeans(u) /\ query' # query
      BY <2>1, BeginFacts
    <3>2. PICK order \in Seq(Servers), budget \in 0..MaxBudget :
            /\ ProbesAhead(health', order)
            /\ query' = [query EXCEPT ![u] =
                 [at |-> "choose", order |-> order, next |-> 1, deadline |-> now + budget,
                  asked |-> {}]]
      BY <3>1 DEF BeginMeans
    <3>3. u = t /\ query'[t].order = order
      BY <3>2 DEF TypeOK, QueryOK
    <3> QED BY <3>2, <3>3
  <2>2. ASSUME NEW u \in Threads, Serve(u) PROVE FALSE
    <3>1. query[u].at # "idle"
      BY <2>2 DEF Serve, Choose, Succeed, Fail, Cancel
    <3>2. query'[t] = query[t]
      BY <2>2, <3>1 DEF Serve, Choose, Succeed, Fail, Cancel, Return, TypeOK, QueryOK
    <3> QED BY <3>2
  <2>3. ~Tick
    BY DEF Tick
  <2> QED BY <2>1, <2>2, <2>3 DEF Next, ProbesAhead
<1> QED BY <1>1, GroupHolds, PTL DEF Spec, ProbesFirst

(* A query that nobody overlaps does not give up before its deadline       *)
(* without having asked a member.                                          *)
THEOREM SomeoneAsked == Spec => AsksSomeone
<1>1. GroupInv /\ [Next]_vars =>
        [\A t \in Threads :
           /\ query[t].at = "choose" /\ query'[t].at = "idle"
           /\ ~overlap /\ now < query[t].deadline
           => query[t].asked # {}]_vars
  <2> SUFFICES ASSUME GroupInv, Next, NEW t \in Threads, query[t].at = "choose",
                      query'[t].at = "idle", ~overlap, now < query[t].deadline,
                      query[t].asked = {}
               PROVE  FALSE
    OBVIOUS
  <2> USE FallbackGroupConstants DEF GroupInv
  <2>1. /\ query[t].next \in Nat \ {0} /\ Len(query[t].order) \in Nat /\ Len(query[t].order) > 0
        /\ query[t].deadline \in Nat /\ now \in Nat
    BY QueryFields, LenProperties DEF TypeOK, TableOK, Choosing, Bounded
  <2>2. ~Exhausted(t)
    BY <2>1 DEF ReadyAhead, Exhausted
  <2>3. \A u \in Threads : u # t => query[u].at = "idle"
    BY DEF Alone
  <2>4. ASSUME NEW u \in Threads, NEW primary \in Primaries, Begin(u, primary) PROVE FALSE
    BY <2>4 DEF Begin
  <2>5. ASSUME NEW u \in Threads, Serve(u) PROVE FALSE
    <3>1. u = t /\ Choose(t)
      BY <2>3, <2>5 DEF Serve, Choose, Succeed, Fail, Cancel
    <3>2. PICK q \in Choosing \union Exchanging : query' = [query EXCEPT ![t] = q]
      BY <2>2, <3>1, ChooseFacts
    <3>3. query'[t] = q
      BY <3>2 DEF TypeOK, QueryOK
    <3> QED BY <3>3 DEF Choosing, Exchanging
  <2>6. ~Tick
    BY DEF Tick
  <2> QED BY <2>4, <2>5, <2>6 DEF Next
<1> QED BY <1>1, GroupHolds, PTL DEF Spec, AsksSomeone
=============================================================================
