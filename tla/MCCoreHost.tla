----------------------------- MODULE MCCoreHost -----------------------------
(* Instances of CoreHost for TLC.                                          *)
EXTENDS CoreHost, TLC

CONSTANTS w1, w2

WorkerSymmetry == Permutations(Workers)
=============================================================================
