--------------------------- MODULE MCFallbackGroup ---------------------------
(* Instances of FallbackGroup for TLC: the groups that rules select.       *)
EXTENDS FallbackGroup, TLC

CONSTANTS a, b, c, d, e

OneTick == [s \in Servers |-> 1]
Uneven == [s \in Servers |-> IF s = a THEN 2 ELSE 1]

\* a -> d, b with d disabled; c alone; e and its fallback both disabled
Sparse == [s \in Servers |-> CASE s = a -> <<d, b>> [] s = c -> <<d>> [] s = e -> <<d>>
                               [] OTHER -> <<>>]

ThreadSymmetry == Permutations(Threads)
=============================================================================
