----------------------------- MODULE Transports -----------------------------
(***************************************************************************)
(* make_transport (NativeDNS.Core/src/platform/linux/dns_transport.cpp)    *)
(* gives a protocol its transport.  The transports of a routing snapshot   *)
(* share no state, so that a behaviour of one of them is a behaviour of    *)
(* the snapshot in which the others rest.                                  *)
(***************************************************************************)
EXTENDS PlainTransport, SecureTransport, CertificateCache

VARIABLE made  \* the transport that was made

vars == <<made, plainVars, secureVars, certificateVars>>

Init ==
  /\ made = "none"
  /\ PlainInit /\ SecureInit /\ CertificateInit

\* Protocol::udp and tcp; doh and dot; dnscrypt and anonymized_dnscrypt
MakeTransport ==
  /\ made = "none"
  /\ made' \in {"plain", "secure", "dnscrypt"}
  /\ UNCHANGED <<plainVars, secureVars, certificateVars>>

Next ==
  \/ MakeTransport
  \/ made = "plain" /\ PlainNext /\ UNCHANGED <<made, secureVars, certificateVars>>
  \/ made = "secure" /\ SecureNext /\ UNCHANGED <<made, plainVars, certificateVars>>
  \/ made = "dnscrypt" /\ CertificateNext /\ UNCHANGED <<made, plainVars, secureVars>>

Spec == Init /\ [][Next]_vars

-----------------------------------------------------------------------------
(* In the bootstrap cache and in the certificate cache alike, a refresh is *)
(* marked exactly while one request performs it: none is left marked by an *)
(* error, a timeout or a cancellation of the request that led it.          *)
RefreshesEnd == BootstrapRefreshes /\ CertificateRefreshes
=============================================================================
