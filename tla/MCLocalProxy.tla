---------------------------- MODULE MCLocalProxy ----------------------------
(* Instances of LocalProxy for TLC.                                        *)
EXTENDS LocalProxy

CONSTANTS u1, t1, hu1, ht1, ht2, fd1, fd2, fd3
=============================================================================
