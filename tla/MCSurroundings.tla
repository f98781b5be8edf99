--------------------------- MODULE MCSurroundings ---------------------------
(* A small instance of every component.                                    *)
EXTENDS Surroundings, Sequences, TLC

CONSTANTS w1, w2  \* workers of WindowsDivert
WorkerSymmetry == Permutations({w1, w2})

\* WindowsDivert: a packet of every kind and two queries; a reload swaps their rules.
PacketNames == {"syn", "again", "reset", "malformed", "pass", "query", "other"}
PacketKinds == [p \in PacketNames |->
  IF p \in {"query", "other"} THEN "query" ELSE IF p = "again" THEN "syn" ELSE p]
PacketTuples == [p \in PacketNames |-> IF p = "again" THEN "t2" ELSE "t1"]
PacketSizes == [p \in PacketNames |-> 1]
PacketRules == [p \in {"query", "other"} |->
  IF p = "query" THEN <<"process", "bypass">> ELSE <<"block", "process">>]

\* PacketRewrite: flags, numbers at the point where they wrap around, payloads
\* that sum to zero, wrong lengths, chains of headers, fragments.
AnyPacket ==
  [v6 |-> FALSE, chain |-> <<>>, proto |-> "tcp", fragment |-> FALSE, src |-> 1, dst |-> 2,
   sport |-> 9, dport |-> 5, flags |-> {}, seq |-> 0, ack |-> 0, options |-> 0,
   payload |-> <<>>, length |-> 0, sum |-> 0, ipsum |-> 0]
\* With the length its headers state, or a wrong one.
Sized(p, wrong) ==
  [p EXCEPT !.length = wrong + Len(p.chain) + Len(p.payload) + 1 + p.options
                       + IF p.v6 THEN 0 ELSE 1]
Segments ==
  {Sized([AnyPacket EXCEPT !.flags = f, !.seq = s, !.ack = a, !.payload = b, !.options = o,
                           !.v6 = v], l) :
     f \in {{"syn"}, {"ack"}, {"fin", "ack"}, {"syn", "fin"}, {"rst"}, {}}, s \in {0, 14, 15},
     a \in {0, 15}, b \in {<<>>, <<7>>, <<0, 15>>}, o \in {0, 1}, v \in BOOLEAN, l \in {0, 1}}
Chains ==
  {Sized([AnyPacket EXCEPT !.proto = t, !.v6 = TRUE, !.chain = c, !.payload = <<3>>,
                           !.dport = d], 0) :
     t \in {"tcp", "udp"}, d \in {4, 5},
     c \in {<<"options">>, <<"options", "routing">>, <<"fragment">>, <<"authentication">>,
            <<"unknown">>}}
Datagrams ==
  {Sized([AnyPacket EXCEPT !.proto = "udp", !.fragment = f, !.payload = b, !.sport = s], 0) :
     f \in BOOLEAN, b \in {<<>>, <<7>>, <<15, 0>>}, s \in 0..15}
DriverPackets == Segments \cup Chains \cup Datagrams
Answers == {<<>>, <<4>>, <<15, 15>>}

\* LogStream: two processes that write two events each, of three kinds.
RecordKinds(r) == CASE r.seq = 2 -> "error" [] r.life = 2 -> "command" [] OTHER -> "query"
Filters == [text \in {"", "errors"} |->
  IF text = "" THEN {"query", "error", "command"} ELSE {"error"}]

\* RuleEditor: rules that a user may offer, some of which do not validate.
DefaultRule ==
  [id |-> 1, enabled |-> TRUE, default |-> TRUE, hosts |-> Hosts, action |-> "process",
   server |-> 0, interface |-> FALSE, dnssec |-> FALSE]
OfferedRules ==
  LET plain == [DefaultRule EXCEPT !.id = 2, !.default = FALSE, !.hosts = {"x"}]
  IN {plain,
      [plain EXCEPT !.server = 2],
      [plain EXCEPT !.id = 3, !.action = "block", !.hosts = Hosts],
      [plain EXCEPT !.id = 3, !.interface = TRUE, !.server = 1],
      [plain EXCEPT !.id = 3, !.enabled = FALSE],
      [DefaultRule EXCEPT !.enabled = FALSE],
      [DefaultRule EXCEPT !.server = 1],
      [DefaultRule EXCEPT !.interface = TRUE, !.dnssec = TRUE]}

\* PatternMatch: every short text over a few characters.
Texts(chars, n) == UNION {[1..k -> chars] : k \in 1..n}
NamesAsked == Texts({"a", "b", "."}, 4) \cup {<<"A", ".">>, <<"a", "*">>}
ListsWritten == Texts({"a", "b", "*", "?"}, 4) \cup Texts({"A", "*", ";", " ", "."}, 3)
=============================================================================
