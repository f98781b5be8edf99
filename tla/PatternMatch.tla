---------------------------- MODULE PatternMatch ----------------------------
(***************************************************************************)
(* Does a rule's list of patterns match a name?  split_patterns,           *)
(* normalize_dns_name and the loop of host_matches in                      *)
(* NativeDNS.Core/src/rules.cpp; match_rule and evaluate_rule try the      *)
(* patterns of a rule in order.                                            *)
(*                                                                         *)
(* A text is a sequence of characters: "A" and "a" are one letter in two   *)
(* cases.  The limits of 63 and 253 bytes are left out, and so are the     *)
(* characters no label may have.                                           *)
(***************************************************************************)
EXTENDS Integers, SequencesExt

CONSTANTS
  HostTexts,   \* names asked for
  RuleTexts    \* lists of patterns, as a user writes them

MatchConstants == HostTexts \subseteq Seq(STRING) /\ RuleTexts \subseteq Seq(STRING)

VARIABLES
  host, patterns,   \* normalized
  matching          \* host_matches: [pattern, h, p, star, retry, verdict]

matchVars == <<host, patterns, matching>>

-----------------------------------------------------------------------------
(* Names.                                                                  *)

Lower(c) == IF c = "A" THEN "a" ELSE c

\* Blanks around it and one trailing dot are dropped.
Trimmed(text) ==
  LET kept == {i \in DOMAIN text : text[i] # " "}
      inner == IF kept = {} THEN <<>>
               ELSE SubSeq(text, CHOOSE i \in kept : \A j \in kept : i <= j,
                                 CHOOSE i \in kept : \A j \in kept : j <= i)
  IN IF inner # <<>> /\ Last(inner) = "." THEN Front(inner) ELSE inner

Wildcards == {"*", "?"}

\* No label is empty, and only a pattern has wildcards.
Names(text, pattern) ==
  LET name == Trimmed(text) IN
  {[i \in DOMAIN n |-> Lower(n[i])] : n \in
     {m \in {name} : /\ m # <<>> /\ m[1] # "." /\ Last(m) # "."
                     /\ \A i \in 1..Len(m) - 1 : ~(m[i] = "." /\ m[i + 1] = ".")
                     /\ \A i \in DOMAIN m : m[i] # " " /\ (pattern \/ m[i] \notin Wildcards)}}

\* split_patterns: the parts between the semicolons, but for blank ones.
Parts(text) ==
  LET ends == {i \in DOMAIN text : text[i] = ";"} \cup {Len(text) + 1}
      Part(i) == SubSeq(text, (CHOOSE j \in {0} \cup ends : j < i /\ \A k \in ends : k < i => k <= j) + 1,
                        i - 1)
      Blank(part) == \A n \in DOMAIN part : part[n] = " "
      upTo[i \in 0..Len(text) + 1] ==
        IF i = 0 THEN <<>>
        ELSE IF i \in ends /\ ~Blank(Part(i)) THEN Append(upTo[i - 1], Part(i)) ELSE upTo[i - 1]
  IN  upTo[Len(text) + 1]

\* One part that is no name refuses the list.
PatternLists(text) ==
  LET parts == Parts(text)
  IN IF \E i \in DOMAIN parts : Names(parts[i], TRUE) = {} THEN {}
     ELSE {[i \in DOMAIN parts |-> CHOOSE n \in Names(parts[i], TRUE) : TRUE]}

-----------------------------------------------------------------------------
(* host_matches, one turn of a loop at a time.  Positions count from 0.    *)

NoStar == -1
First(n) == [pattern |-> n, h |-> 0, p |-> 0, star |-> NoStar, retry |-> 0,
             verdict |-> IF n > Len(patterns) THEN "none" ELSE "open"]

MatchInit ==
  /\ host \in UNION {Names(text, FALSE) : text \in HostTexts}
  /\ patterns \in (UNION {PatternLists(text) : text \in RuleTexts}) \ {<<>>}  \* validate
  /\ matching = First(1)

Pattern == patterns[matching.pattern]
MoreHost == matching.h < Len(host)
MorePattern == matching.p < Len(Pattern)
AtStar == MorePattern /\ Pattern[matching.p + 1] = "*"
AtSame == MorePattern /\ Pattern[matching.p + 1] \in {"?", host[matching.h + 1]}

Steps(next) == matching' = next /\ UNCHANGED <<host, patterns>>

Consume ==
  /\ matching.verdict = "open" /\ MoreHost /\ AtSame
  /\ Steps([matching EXCEPT !.h = @ + 1, !.p = @ + 1])

MeetStar ==
  /\ matching.verdict = "open" /\ MoreHost /\ ~AtSame /\ AtStar
  /\ Steps([matching EXCEPT !.star = matching.p, !.p = @ + 1, !.retry = matching.h])

\* Wrong: the star gives back the character it was at.
BackTrackInPlace ==
  /\ matching.verdict = "open" /\ MoreHost /\ ~AtSame /\ ~AtStar /\ matching.star # NoStar
  /\ Steps([matching EXCEPT !.p = matching.star + 1, !.h = @ + 1])
\* The last star takes one character more.
BackTrack ==
  /\ matching.verdict = "open" /\ MoreHost /\ ~AtSame /\ ~AtStar /\ matching.star # NoStar
  /\ Steps([matching EXCEPT !.p = matching.star + 1, !.retry = @ + 1, !.h = matching.retry + 1])

Mismatch ==
  /\ matching.verdict = "open" /\ MoreHost /\ ~AtSame /\ ~AtStar /\ matching.star = NoStar
  /\ Steps(First(matching.pattern + 1))

SkipStar ==
  /\ matching.verdict = "open" /\ ~MoreHost /\ AtStar
  /\ Steps([matching EXCEPT !.p = @ + 1])

EndOfHost ==
  /\ matching.verdict = "open" /\ ~MoreHost /\ ~AtStar
  /\ Steps(IF MorePattern THEN First(matching.pattern + 1)
           ELSE [matching EXCEPT !.verdict = "matched"])

MatchNext == Consume \/ MeetStar \/ BackTrack \/ Mismatch \/ SkipStar \/ EndOfHost

-----------------------------------------------------------------------------
(* Properties.                                                             *)

\* The numbers of characters that the first i of a pattern may stand for: a star
\* stands for any, dots among them.
Reached(name, pattern) ==
  LET reached[i \in 0..Len(pattern)] ==
        IF i = 0 THEN {0}
        ELSE IF pattern[i] = "*" THEN {j \in 0..Len(name) : \E k \in reached[i - 1] : k <= j}
        ELSE {j \in 1..Len(name) : j - 1 \in reached[i - 1] /\ pattern[i] \in {"?", name[j]}}
  IN  reached
Glob(name, pattern) == Len(name) \in Reached(name, pattern)[Len(pattern)]

\* The verdict of the loop with its single point of return is that of the
\* definition, and no earlier pattern of the list matched.
PatternsMatch ==
  /\ matching.verdict = "none" => \A i \in DOMAIN patterns : ~Glob(host, patterns[i])
  /\ matching.verdict = "matched" => Glob(host, Pattern)
  /\ \A i \in 1..matching.pattern - 1 : ~Glob(host, patterns[i])

-----------------------------------------------------------------------------
(* The inductive invariant.                                                *)

Letters == (STRING \ {"A"}) \cup {"a"}
Chars == Letters \ Wildcards
MatchTypeOK ==
  /\ host \in Seq(Chars) /\ patterns \in Seq(Seq(Letters))
  /\ matching \in [pattern : 1..Len(patterns) + 1, h : Nat, p : Nat, star : Nat \cup {NoStar},
                   retry : Nat, verdict : {"open", "matched", "none"}]
  /\ matching.verdict # "none" => matching.pattern \in DOMAIN patterns

\* Every way in which the whole pattern may stand for the name: at[i] characters of
\* it for the first i of the pattern
Alignments(name, pattern) ==
  {at \in [0..Len(pattern) -> 0..Len(name)] :
     /\ at[0] = 0 /\ at[Len(pattern)] = Len(name)
     /\ \A i \in 1..Len(pattern) :
          IF pattern[i] = "*" THEN at[i - 1] <= at[i]
          ELSE at[i] = at[i - 1] + 1 /\ pattern[i] \in {"?", name[at[i]]}}

\* What was read is fitting, up to here and up to the last star.
Fitting ==
  LET reached == Reached(host, Pattern) IN
  /\ matching.h \in 0..Len(host) /\ matching.p \in 0..Len(Pattern)
  /\ matching.h \in reached[matching.p]
  /\ matching.star # NoStar =>
       /\ matching.star + 1 \in 1..matching.p /\ Pattern[matching.star + 1] = "*"
       /\ matching.retry <= matching.h
       /\ matching.retry \in reached[matching.star + 1]

\* The loop left no alignment behind: none ends the last star before retry, and one
\* that ends it there is where the loop is.
NoneBehind ==
  \A at \in Alignments(host, Pattern) :
    /\ matching.h <= at[matching.p]
    /\ matching.star = NoStar => at[matching.p] = matching.h
    /\ matching.star # NoStar =>
         /\ matching.retry <= at[matching.star + 1]
         /\ matching.h < Len(host) /\ at[matching.star + 1] = matching.retry =>
              at[matching.p] = matching.h

MatchInv ==
  /\ MatchTypeOK
  /\ \A i \in 1..matching.pattern - 1 : ~Glob(host, patterns[i])
  /\ matching.verdict = "open" => Fitting /\ NoneBehind
  /\ matching.verdict = "matched" => Glob(host, Pattern)
  /\ matching.verdict = "none" => matching.pattern = Len(patterns) + 1
=============================================================================
