---------------------------- MODULE MCTransports ----------------------------
(* Two handlers, two endpoints of each kind, pools and caches of one key.  *)
EXTENDS Transports, TLC

CONSTANTS h1, h2, x, y, z

\* x and y are servers of one host; z is another, in a newer network context.
Hosted == [u \in Upstreams |-> IF u = z THEN "b" ELSE "a"]
Contexts == [u \in Upstreams |-> IF u = z THEN 2 ELSE 1]

\* One certificate expires while its successor is already valid.
Rotation == {[serial |-> 1, from |-> 0, until |-> 2], [serial |-> 2, from |-> 1, until |-> 3]}

HandlerSymmetry == Permutations({h1, h2})
=============================================================================
