---------------------------- MODULE ProxyService ----------------------------
(***************************************************************************)
(* What nd::LocalProxy promises to its callers (interception.hpp): start   *)
(* and stop are serialised, the reported state is "error" exactly while a  *)
(* listener that should be served is not, and a stopped proxy serves       *)
(* nothing.  LocalProxy is the detailed specification that implements it;  *)
(* LinuxInterception is built on it.                                       *)
(***************************************************************************)
CONSTANTS
  Listeners, \* the UDP and TCP listening sockets
  Ports,     \* ports the proxy may bind
  NoPort     \* bound_port = 0

VARIABLES
  reported, \* the state status() returns, or the operation that holds lifecycle
  serving,  \* listeners with an open socket and a running loop
  port      \* bound_port

service == <<reported, serving, port>>

Init == reported = "stopped" /\ serving = {} /\ port = NoPort

BeginStart == reported = "stopped" /\ reported' = "starting" /\ UNCHANGED <<serving, port>>

\* While an operation holds lifecycle, loops begin and end.
Change ==
  \/ /\ reported = "starting"
     /\ \E l \in Listeners : serving' \in {serving \union {l}, serving \ {l}}
  \/ /\ reported \in {"starting", "stopping"} /\ serving' \in SUBSET serving

Changes ==
  /\ Change
  /\ \/ UNCHANGED port
     \/ reported = "starting" /\ port' \in Ports \union {NoPort}
  /\ UNCHANGED reported

\* start returns: a listener may already have failed.
Started ==
  /\ reported = "starting" /\ port # NoPort
  /\ reported' = IF serving = Listeners THEN "running" ELSE "error"
  /\ UNCHANGED <<serving, port>>

\* start throws: everything was released.
StartFails ==
  /\ reported = "starting"
  /\ reported' = "error" /\ serving' = {} /\ port' = NoPort

\* A listener's loop ends by itself.
Fail(l) ==
  /\ reported \in {"running", "error"} /\ l \in serving
  /\ serving' = serving \ {l} /\ reported' = "error"
  /\ UNCHANGED port

BeginStop ==
  reported \in {"running", "error"} /\ reported' = "stopping" /\ UNCHANGED <<serving, port>>

Stopped ==
  /\ reported = "stopping"
  /\ reported' = "stopped" /\ serving' = {} /\ port' = NoPort

\* What the proxy's own threads do
Internal == Changes \/ Started \/ StartFails \/ Stopped \/ \E l \in Listeners : Fail(l)

Next == BeginStart \/ BeginStop \/ Internal

Spec == Init /\ [][Next]_service
=============================================================================
