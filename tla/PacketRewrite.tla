---------------------------- MODULE PacketRewrite ----------------------------
(***************************************************************************)
(* What WinDivertInterception does to a packet (NativeDNS.Core/src/        *)
(* platform/windows/windivert_interception.cpp): it finds the transport    *)
(* header, reflects a TCP packet towards the proxy and the proxy's packets *)
(* back, answers a blocked one with a reset and a UDP query with a         *)
(* response.  WindowsDivert models when it does so.                        *)
(*                                                                         *)
(* An IP header, a TCP header of no options and one word of payload have   *)
(* the size of one word of w bits here, w standing for 16 and for the 32   *)
(* bits of a sequence number; the bytes of a header that nothing reads are *)
(* left out.                                                               *)
(***************************************************************************)
EXTENDS Integers, SequencesExt, FiniteSets

CONSTANTS
  Word,         \* 2^w
  MaxHeaders,   \* 16: a chain of IPv6 headers as long is refused
  Captured,     \* packets that the driver may deliver
  DnsPort, ProxyPort,
  Payloads      \* what a proxy or a resolver may answer

Formats ==
  [v6 : BOOLEAN, chain : Seq(STRING), proto : {"tcp", "udp"}, fragment : BOOLEAN,
   src : Nat, dst : Nat, sport : Nat, dport : Nat, flags : SUBSET {"syn", "fin", "rst", "ack"},
   seq : Nat, ack : Nat, options : Nat, payload : Seq(Nat), length : Nat, sum : Nat, ipsum : Nat]

PacketConstants ==
  /\ Word \in Nat \ {0, 1} /\ DnsPort \in Nat /\ ProxyPort \in Nat
  /\ Captured \subseteq Formats /\ Payloads \subseteq Seq(Nat)

VARIABLES
  original,   \* the packet of a client
  wire,       \* the packet under way
  stage       \* "captured" | "proxy" | "answered" | "client" | "reset" | "silent" |
              \* "response" | "unchanged"

packetVars == <<original, wire, stage>>

-----------------------------------------------------------------------------
(* Checksums.                                                              *)

Total(words) ==
  LET upTo[i \in 0..Len(words)] == IF i = 0 THEN 0 ELSE upTo[i - 1] + words[i]
  IN  upTo[Len(words)]
Folded[sum \in Nat] ==
  IF sum < Word THEN sum ELSE Folded[(sum % Word) + (sum \div Word)]

\* checksum_finish: a checksum of zero is sent as its other form.
Finished(sum) == LET result == Word - 1 - Folded[sum] IN IF result = 0 THEN Word - 1 ELSE result

TransportSize(p) == (IF p.proto = "tcp" THEN 1 + p.options ELSE 1) + Len(p.payload)
Number(p) == IF p.proto = "tcp" THEN 6 ELSE 17
Bits(flags) ==
  LET bit(f, n) == IF f \in flags THEN n ELSE 0
  IN  bit("fin", 1) + bit("syn", 2) + bit("rst", 4) + bit("ack", 16)

\* The pseudo header, the transport header but its checksum, the payload.
TransportWords(p) ==
  <<p.src, p.dst, TransportSize(p), Number(p), p.sport, p.dport>>
  \o (IF p.proto = "tcp" THEN <<p.seq, p.ack, Bits(p.flags)>> ELSE <<TransportSize(p)>>)
  \o p.payload
IpWords(p) == <<p.length, Number(p), p.src, p.dst>>

\* Every rewritten packet gets its checksums, and an IPv4 header its own.
Summed(p) ==
  [p EXCEPT !.sum = Finished(Total(TransportWords(p))),
            !.ipsum = IF p.v6 THEN 0 ELSE Finished(Total(IpWords(p)))]

-----------------------------------------------------------------------------
(* ipv6_transport, udp_view, tcp_view.                                     *)

\* The length its header should state: IPv6 does not count the first header.
Stated(p) == Len(p.chain) + TransportSize(p) + IF p.v6 THEN 0 ELSE 1

Skipped == {"options", "routing", "authentication", "atomic fragment"}
ChainAccepted(p) == ToSet(p.chain) \subseteq Skipped /\ Len(p.chain) < MaxHeaders

TcpView(p) == p.proto = "tcp" /\ p.length = Stated(p) /\ ~p.fragment /\ ChainAccepted(p)
UdpView(p) ==
  /\ p.proto = "udp" /\ p.length = Stated(p) /\ ~p.fragment /\ ChainAccepted(p)
  /\ p.dport = DnsPort /\ p.payload # <<>>  \* at least the header of a query

-----------------------------------------------------------------------------
(* The rewrites.                                                           *)

Turned(p) == [p EXCEPT !.src = p.dst, !.dst = p.src]

\* make_reflected_tcp_packet
Reflected(p, proxyPort, towardProxy, dnsPort) ==
  Summed(IF towardProxy THEN [Turned(p) EXCEPT !.dport = proxyPort]
         ELSE [Turned(p) EXCEPT !.sport = dnsPort])

\* Wrong: only the payload is counted.
ExtentOfPayload(p) == Len(p.payload)
\* What a peer counts of a segment.
Extent(p) == Len(p.payload) + Cardinality(p.flags \cap {"syn", "fin"})
Acknowledgement(p) == (p.seq + Extent(p)) % Word

\* make_intercepted_tcp_reset: neither options nor payload, sent by the proxy's
\* rewrite.  A segment with an acknowledgement is reset at its own number.
Reset(p) ==
  LET acked == "ack" \in p.flags
      bare == [p EXCEPT !.options = 0, !.payload = <<>>, !.sport = p.dport, !.dport = p.sport,
                 !.seq = IF acked THEN p.ack ELSE 0,
                 !.ack = IF acked THEN 0 ELSE Acknowledgement(p),
                 !.flags = IF acked THEN {"rst"} ELSE {"rst", "ack"}]
  IN Reflected([bare EXCEPT !.length = Stated(bare)], DnsPort, FALSE, DnsPort)

\* make_intercepted_udp_response
Response(p, payload) ==
  LET answer == [Turned(p) EXCEPT !.sport = p.dport, !.dport = p.sport, !.payload = payload]
  IN Summed([answer EXCEPT !.length = Stated(answer)])

-----------------------------------------------------------------------------
(* The way of a packet.                                                    *)

PacketInit ==
  /\ original \in {Summed(p) : p \in Captured}
  /\ wire = original /\ stage = "captured"

Becomes(p, at) == wire' = p /\ stage' = at /\ UNCHANGED original

\* What no view accepts is sent on as it is.
Unchanged ==
  /\ stage = "captured" /\ ~TcpView(wire) /\ ~UdpView(wire)
  /\ Becomes(wire, "unchanged")

TowardProxy ==
  /\ stage = "captured" /\ TcpView(wire) /\ wire.dport = DnsPort
  /\ Becomes(Reflected(wire, ProxyPort, TRUE, DnsPort), "proxy")

\* The number a client expects next, counted in its own way.
ClientNumber ==
  LET octets == original.payload
      counted == IF "syn" \in original.flags THEN <<0>> \o octets ELSE octets
      all == IF "fin" \in original.flags THEN counted \o <<0>> ELSE counted
  IN (original.seq + Len(all)) % Word

\* The stack of this machine answers from the address the packet was sent to.
ProxyAnswers ==
  /\ stage = "proxy"
  /\ \E payload \in Payloads, flags \in {{"syn", "ack"}, {"ack"}, {"fin", "ack"}} :
       LET answer == [Turned(wire) EXCEPT !.sport = wire.dport, !.dport = wire.sport,
                        !.chain = <<>>, !.options = 0, !.payload = payload, !.flags = flags,
                        !.ack = ClientNumber]
       IN Becomes(Summed([answer EXCEPT !.length = Stated(answer)]), "answered")

TowardClient ==
  /\ stage = "answered" /\ TcpView(wire) /\ wire.sport = ProxyPort
  /\ Becomes(Reflected(wire, ProxyPort, FALSE, DnsPort), "client")

\* block_tcp53; a reset is never answered with another one.
ResetClient ==
  /\ stage = "captured" /\ TcpView(wire) /\ wire.dport = DnsPort
  /\ \/ "rst" \in wire.flags /\ Becomes(wire, "silent")
     \/ "rst" \notin wire.flags /\ Becomes(Reset(wire), "reset")

AnswerUdp ==
  /\ stage = "captured" /\ UdpView(wire)
  /\ \E payload \in Payloads \ {<<>>} : Becomes(Response(wire, payload), "response")

PacketNext ==
  Unchanged \/ TowardProxy \/ ProxyAnswers \/ TowardClient \/ ResetClient \/ AnswerUdp

-----------------------------------------------------------------------------
(* Properties.                                                             *)

\* The receiver's checks.
Intact(p) ==
  /\ Folded[Total(TransportWords(p)) + p.sum] = Word - 1
  /\ p.v6 \/ Folded[Total(IpWords(p)) + p.ipsum] = Word - 1
  /\ p.length = Stated(p)

\* What the client sent, answered by whom it was sent to.
AnswersClient(p) ==
  /\ p.src = original.dst /\ p.sport = original.dport
  /\ p.dst = original.src /\ p.dport = original.sport

\* A client sees its resolver only: what it receives is intact and comes from the
\* address and the port it asked; the proxy sees the address and the port by
\* which expect_connection knows the client; and the client honours a reset, at
\* the number it waits for, where sequence numbers wrap around too.
PacketsSound ==
  /\ stage \in {"proxy", "client", "reset", "response"} => Intact(wire)
  /\ stage \in {"client", "reset", "response"} => AnswersClient(wire)
  /\ stage = "proxy" => wire.src = original.dst /\ wire.sport = original.sport
  /\ stage = "reset" =>
       IF "ack" \in original.flags THEN wire.seq = original.ack
       ELSE "ack" \in wire.flags /\ wire.ack = ClientNumber
  /\ stage = "client" => wire.ack = ClientNumber

-----------------------------------------------------------------------------
(* The inductive invariant.                                                *)

PacketInv ==
  /\ original \in Formats /\ wire \in Formats
  /\ stage = "captured" => wire = original
  /\ stage = "proxy" =>
       /\ original.dport = DnsPort /\ wire.src = original.dst /\ wire.dst = original.src
       /\ wire.sport = original.sport /\ wire.dport = ProxyPort
  /\ stage = "answered" =>
       /\ original.dport = DnsPort /\ wire.src = original.src /\ wire.dst = original.dst
       /\ wire.sport = ProxyPort /\ wire.dport = original.sport /\ wire.ack = ClientNumber
  /\ PacketsSound
=============================================================================
