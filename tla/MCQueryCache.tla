---------------------------- MODULE MCQueryCache ----------------------------
(* Instances of QueryCache for TLC.                                        *)
EXTENDS QueryCache, TLC

CONSTANTS t1, t2, t3, qa, qb

MCThreads == {t1, t2}
MCThreeThreads == {t1, t2, t3}
MCBytes == (qa :> 1) @@ (qb :> 2)
MCOneBytes == (qa :> 1)
ThreadSymmetry == Permutations(Threads)
=============================================================================
