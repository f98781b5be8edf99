----------------------------- MODULE RuleEditor -----------------------------
(***************************************************************************)
(* Rules and servers of a configuration (NativeDNS.Core/src/rules.cpp):    *)
(* ConfigEditor changes them one operation at a time, each validated as a  *)
(* whole, and evaluate_rule decides with them what becomes of a name.      *)
(*                                                                         *)
(* Names, endpoints, metadata and the limits of counts are left out; a     *)
(* pattern is the set of hosts it matches, PatternMatch models matching.   *)
(***************************************************************************)
EXTENDS Naturals, SequencesExt, FiniteSets

CONSTANTS
  Hosts,
  ServerIds,
  RuleCandidates,   \* rules a caller may offer, invalid ones among them
  MaxRuleList          \* bound of the exploration

NoServer == 0
\* A rule as a caller offers it, whatever is wrong with it
Rules ==
  [id : Nat, enabled : BOOLEAN, default : BOOLEAN, hosts : SUBSET Hosts,
   action : {"process", "bypass", "block"}, server : Nat, interface : BOOLEAN, dnssec : BOOLEAN]

EditorConstants ==
  /\ Hosts # {} /\ IsFiniteSet(ServerIds) /\ MaxRuleList \in Nat \ {0}
  /\ RuleCandidates \subseteq Rules

VARIABLES
  servers,    \* [ids of the servers -> their fallback_ids]
  ruleList,   \* config_.rules: [id, enabled, default, hosts, action, server, interface, dnssec]
  options     \* ignore_interface_down, and whether the required interface is up

editorVars == <<servers, ruleList, options>>

Default ==
  [id |-> 1, enabled |-> TRUE, default |-> TRUE, hosts |-> Hosts, action |-> "process",
   server |-> NoServer, interface |-> FALSE, dnssec |-> FALSE]

EditorInit ==
  /\ servers = <<>> /\ ruleList = <<Default>>
  /\ options \in [ignoreDown : BOOLEAN, up : BOOLEAN]

-----------------------------------------------------------------------------
(* validate.                                                               *)

\* A loop of `rounds` rounds: step[n][x] is what the n-th makes of x.
Iterate(step, start, rounds) ==
  LET after[n \in 0..rounds] == IF n = 0 THEN start ELSE step[n][after[n - 1]]
  IN  after[rounds]

\* The servers that visit is inside of, those it has left, and FALSE once it has met
\* one of the former again
Findings == [ok : BOOLEAN, visiting : SUBSET ServerIds, visited : SUBSET ServerIds]

\* A visit of each of several servers
Each(visit, several, found) ==
  LET order == SetToSeq(several)
  IN  Iterate([n \in 1..Cardinality(several) |-> visit[order[n]]], found, Cardinality(several))

\* The visit of s, of its fallbacks by `below`
VisitOne(graph, below, s, found) ==
  IF ~found.ok \/ s \in found.visited THEN found
  ELSE IF s \in found.visiting THEN [found EXCEPT !.ok = FALSE]
  ELSE LET done == Each(below, graph[s], [found EXCEPT !.visiting = @ \cup {s}])
       IN [done EXCEPT !.visiting = @ \ {s}, !.visited = @ \cup {s}]

\* visit, inside of at most n servers: one more would be met again
Depths == 0..Cardinality(ServerIds)
Visit(graph) ==
  LET visit[n \in Depths] ==
        [s \in ServerIds |-> [found \in Findings |->
           IF n = 0 THEN [found EXCEPT !.ok = FALSE] ELSE VisitOne(graph, visit[n - 1], s, found)]]
  IN  visit[Cardinality(ServerIds)]

Unvisited == [ok |-> TRUE, visiting |-> {}, visited |-> {}]
Acyclic(graph) == Each(Visit(graph), DOMAIN graph, Unvisited).ok

\* Wrong: only the references are looked at.
GroupsValidAlone(graph) == \A s \in DOMAIN graph : graph[s] \subseteq DOMAIN graph \ {s}
GroupsValid(graph) ==
  /\ \A s \in DOMAIN graph : graph[s] \subseteq DOMAIN graph \ {s}
  /\ Acyclic(graph)

RuleValid(r, last, graph) ==
  /\ r.default = last
  /\ r.default => r.enabled /\ r.hosts = Hosts
  /\ r.hosts # {}
  /\ r.server # NoServer => r.action = "process" /\ r.server \in DOMAIN graph

Valid(graph, rs) ==
  /\ GroupsValid(graph)
  /\ rs # <<>> /\ Len(rs) <= MaxRuleList
  /\ IsInjective([i \in DOMAIN rs |-> rs[i].id])
  /\ \A i \in DOMAIN rs : RuleValid(rs[i], i = Len(rs), graph)

-----------------------------------------------------------------------------
(* ConfigEditor.  An operation that does not validate changes nothing.     *)

Commit(graph, rs) ==
  /\ Valid(graph, rs)
  /\ servers' = graph /\ ruleList' = rs
  /\ UNCHANGED options

Place(id) == {i \in DOMAIN ruleList : ruleList[i].id = id}

AddRule == \E r \in RuleCandidates : Commit(servers, InsertAt(ruleList, Len(ruleList), r))

UpdateRule ==
  \E r \in RuleCandidates : \E i \in Place(r.id) :
    /\ ruleList[i].default = r.default
    /\ Commit(servers, [ruleList EXCEPT ![i] = r])

RemoveRule ==
  \E i \in DOMAIN ruleList : ~ruleList[i].default /\ Commit(servers, RemoveAt(ruleList, i))

\* A rule moves by one place, and never over Default.
MoveRule ==
  \E i \in DOMAIN ruleList, step \in {"up", "down"} :
    LET j == IF step = "up" THEN i - 1 ELSE i + 1
    IN /\ ~ruleList[i].default
       /\ j \in DOMAIN ruleList /\ ~ruleList[j].default
       /\ Commit(servers, [ruleList EXCEPT ![i] = ruleList[j], ![j] = ruleList[i]])

\* The copy of Default is no Default.
CloneRule ==
  \E i \in DOMAIN ruleList, id \in {r.id : r \in RuleCandidates} :
    Commit(servers, InsertAt(ruleList, Len(ruleList),
                             [ruleList[i] EXCEPT !.id = id, !.default = FALSE]))

SetServer ==
  \E s \in ServerIds, fallbacks \in SUBSET ServerIds :
    Commit([t \in DOMAIN servers \cup {s} |-> IF t = s THEN fallbacks ELSE servers[t]],
           ruleList)

RemoveServer ==
  \E s \in DOMAIN servers : Commit(Restrict(servers, DOMAIN servers \ {s}), ruleList)

NetworkChanges == options' = [options EXCEPT !.up = ~@] /\ UNCHANGED <<servers, ruleList>>

EditorNext ==
  \/ AddRule \/ UpdateRule \/ RemoveRule \/ MoveRule \/ CloneRule
  \/ SetServer \/ RemoveServer \/ NetworkChanges

-----------------------------------------------------------------------------
(* evaluate_rule.                                                          *)

\* A rule is passed over when its interface is down and the options say so.
PassedOver(r) == r.interface /\ ~options.up /\ options.ignoreDown /\ ~r.default
Applies(r, host) == r.enabled /\ host \in r.hosts /\ ~PassedOver(r)

Deciding(host) == {i \in DOMAIN ruleList : Applies(ruleList[i], host)}
Decided(host) == ruleList[CHOOSE i \in Deciding(host) : \A j \in Deciding(host) : i <= j]

Verdict(host) ==
  LET r == Decided(host)
  IN CASE r.interface /\ ~options.up -> "interface down"
       [] r.dnssec -> "not implemented"
       [] OTHER -> r.action

-----------------------------------------------------------------------------
(* Properties.                                                             *)

\* Every edit leaves a list that validates.
EditorInv ==
  /\ DOMAIN servers \subseteq ServerIds /\ ruleList \in Seq(Rules)
  /\ Valid(servers, ruleList)

\* Whatever was added, moved, cloned and removed, and whichever interfaces are
\* down: every host is decided ("No usable Default rule" is never thrown), an
\* explicit rule that applies comes before Default, the server of a rule and
\* the members of its group exist, and no group contains itself.
RulesUsable ==
  /\ \A host \in Hosts :
       /\ Deciding(host) # {}
       /\ Decided(host).default => \A i \in DOMAIN ruleList :
            Applies(ruleList[i], host) => ruleList[i].default
       /\ Verdict(host) = "process" /\ Decided(host).server # NoServer =>
            Decided(host).server \in DOMAIN servers
  /\ \A s \in DOMAIN servers : servers[s] \subseteq DOMAIN servers
  /\ ~\E C \in SUBSET DOMAIN servers : C # {} /\ \A s \in C : servers[s] \cap C # {}
=============================================================================
