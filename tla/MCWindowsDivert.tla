--------------------------- MODULE MCWindowsDivert ---------------------------
(* Two workers, one packet of every kind and two queries.                  *)
EXTENDS WindowsDivert, TLC

CONSTANTS w1, w2

AllPackets == {"syn", "again", "reset", "malformed", "pass", "query", "other"}
Kinds == [p \in AllPackets |->
  IF p \in {"query", "other"} THEN "query" ELSE IF p = "again" THEN "syn" ELSE p]
TuplesOf == [p \in AllPackets |-> IF p = "again" THEN "t2" ELSE "t1"]
Sizes == [p \in AllPackets |-> 1]

\* A reload swaps the rules of the two queries.
Rules == [p \in {"query", "other"} |->
  IF p = "query" THEN <<"process", "bypass">> ELSE <<"block", "process">>]

WorkerSymmetry == Permutations({w1, w2})
=============================================================================
