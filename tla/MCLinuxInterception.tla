------------------------ MODULE MCLinuxInterception ------------------------
(* Instances of LinuxInterception for TLC.                                 *)
EXTENDS LinuxInterception

CONSTANTS p1, p2
=============================================================================
