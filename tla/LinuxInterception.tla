------------------------- MODULE LinuxInterception -------------------------
(***************************************************************************)
(* LinuxNftInterception (platform/linux/linux_interception.cpp): the       *)
(* transparent provider that starts a LocalProxy and redirects the DNS     *)
(* traffic of the machine to it with rules of the nftables table           *)
(* "inet nativedns".  The proxy is the ProxyService that LocalProxy is     *)
(* shown to implement.  The table belongs to the kernel: it survives the   *)
(* process.                                                                *)
(***************************************************************************)
EXTENDS Naturals, Sequences

CONSTANTS
  Ports, NoPort, \* ports the proxy may bind
  MaxRules       \* bound of the model: rules in the table

Protocols == {"udp", "tcp"}

VARIABLES
  reported, serving, port, \* the proxy
  status,  \* status_.state
  at,      \* where start or stop is; mutex_ is held unless "idle"
  table,   \* redirect rules of the table, in order; none when there is no table
  stray    \* history: why the table may hold rules nobody installed now

proxy == <<reported, serving, port>>
vars == <<proxy, status, at, table, stray>>

Proxy == INSTANCE ProxyService WITH Listeners <- Protocols

Init == Proxy!Init /\ status = "stopped" /\ at = "idle" /\ table = <<>> /\ stray = {}

\* Where the kernel sends a protocol: the first rule that matches decides.
Decides(i, proto) ==
  table[i].proto = proto /\ \A j \in 1..(i - 1) : table[j].proto # proto
Redirected(proto) == \E i \in 1..Len(table) : Decides(i, proto)
Target(proto) == table[CHOOSE i \in 1..Len(table) : Decides(i, proto)].port

-----------------------------------------------------------------------------
(* start, under mutex_.                                                    *)

Start ==
  /\ at = "idle" /\ status = "stopped"
  /\ status' = "starting" /\ at' = "check"
  /\ UNCHANGED <<proxy, table, stray>>

\* Unsupported options, no privileges, no nft
Refuse ==
  /\ at = "check" /\ status' = "error" /\ at' = "idle"
  /\ UNCHANGED <<proxy, table, stray>>

StartProxy ==
  /\ at = "check" /\ Proxy!BeginStart /\ at' = "proxy"
  /\ UNCHANGED <<status, table, stray>>

\* The proxy threw an nd::Error; any other exception passes the handler that
\* sets the state.
ProxyRefused ==
  /\ at = "proxy" /\ reported = "error" /\ port = NoPort
  /\ status' \in {"error", "starting"} /\ at' = "idle"
  /\ UNCHANGED <<proxy, table, stray>>

\* nft delete table; its exit status is ignored.
Delete ==
  \/ table' = <<>> /\ stray' = {}
  \/ table # <<>> /\ stray' = stray \union {"undeleted"} /\ UNCHANGED table

\* Mutant of Replace: the table of an earlier process stays.
ReplaceNothing ==
  /\ at = "proxy" /\ reported \in {"running", "error"} /\ port # NoPort
  /\ at' = "udp" /\ UNCHANGED <<proxy, status, table, stray>>

\* A table left behind by an earlier process goes first.
Replace ==
  /\ at = "proxy" /\ reported \in {"running", "error"} /\ port # NoPort
  /\ Delete /\ at' = "udp"
  /\ UNCHANGED <<proxy, status>>

\* The script adds table, chain and the rule for marked packets, then ...
Redirect(proto) ==
  /\ at = proto /\ Len(table) < MaxRules
  /\ table' = Append(table, [proto |-> proto, port |-> port])
  /\ at' = IF proto = "udp" THEN "tcp" ELSE "idle"
  /\ status' = IF proto = "udp" THEN status ELSE "running"
  /\ UNCHANGED <<proxy, stray>>

\* A command of the script fails: stop the proxy, then delete the table.
ScriptFails ==
  /\ at \in Protocols /\ Proxy!BeginStop /\ at' = "undo"
  /\ UNCHANGED <<status, table, stray>>

\* Mutant of Undo: the partial table is kept.
UndoNothing ==
  /\ at = "undo" /\ reported = "stopped"
  /\ status' = "error" /\ at' = "idle" /\ UNCHANGED <<proxy, table, stray>>

Undo ==
  /\ at = "undo" /\ reported = "stopped"
  /\ Delete /\ status' = "error" /\ at' = "idle"
  /\ UNCHANGED proxy

-----------------------------------------------------------------------------
(* stop, under mutex_.                                                     *)

Stop ==
  /\ at = "idle" /\ status # "stopped"
  /\ status' = "stopping" /\ at' = "delete"
  /\ UNCHANGED <<proxy, table, stray>>

StopRedirect ==
  /\ at = "delete" /\ Delete /\ at' = "stopProxy"
  /\ UNCHANGED <<proxy, status>>

\* LocalProxy::stop returns at once when the proxy is stopped.
StopProxy ==
  /\ at = "stopProxy" /\ reported # "stopping"
  /\ IF reported = "stopped"
     THEN at' = "idle" /\ status' = "stopped" /\ UNCHANGED proxy
     ELSE Proxy!BeginStop /\ UNCHANGED <<status, at>>
  /\ UNCHANGED <<table, stray>>

-----------------------------------------------------------------------------
\* The proxy's own threads run at any time.
ProxyStep == Proxy!Internal /\ UNCHANGED <<status, at, table, stray>>

\* The process is killed; the next one begins with a fresh provider.
Crash ==
  /\ reported' = "stopped" /\ serving' = {} /\ port' = NoPort
  /\ status' = "stopped" /\ at' = "idle"
  /\ stray' = stray \union {"killed"}
  /\ UNCHANGED table

Next ==
  \/ Start \/ Refuse \/ StartProxy \/ ProxyRefused \/ Replace
  \/ (\E proto \in Protocols : Redirect(proto)) \/ ScriptFails \/ Undo
  \/ Stop \/ StopRedirect \/ StopProxy
  \/ ProxyStep \/ Crash

Spec == Init /\ [][Next]_vars

-----------------------------------------------------------------------------
(* A provider that reports "running" has the traffic of both protocols     *)
(* redirected to the port its own proxy has bound, whatever table a killed *)
(* process left behind, if nft deletes it (linux_interception.cpp:99-121). *)
RunningRedirectsHere ==
  at = "idle" /\ status = "running" /\ "undeleted" \notin stray =>
    \A proto \in Protocols : Redirected(proto) /\ Target(proto) = port

(* Unless a process is killed or nft fails to delete, no redirect outlives *)
(* the operation that removes it: a provider that is stopped, or whose     *)
(* start failed at any command of the script, leaves the machine's DNS     *)
(* alone (linux_interception.cpp:116-120, 132-141).                        *)
NoStrayRedirect ==
  at = "idle" /\ status # "running" /\ stray = {} => table = <<>>

(* "CoreHost error status is also reported in this window"                 *)
(* (docs/IPC_PROTOCOL.md:154): a provider whose proxy has failed reports   *)
(* an error, which ends the host (host.cpp:233-237).                       *)
FailureReported == at = "idle" /\ reported = "error" => status = "error"

-----------------------------------------------------------------------------
(* Why it holds: what the table holds at each step of start and stop,      *)
(* relative to what the proxy does meanwhile.                              *)

NatRedirect(proto) == [proto |-> proto, port |-> port]

RedirectTypeOK ==
  /\ port \in Ports \union {NoPort}
  /\ table \in Seq([proto : Protocols, port : Ports \union {NoPort}])

\* What the proxy does at the steps of start and of a provider that runs
ProxyStays ==
  at \in {"udp", "tcp"} \/ (at = "idle" /\ status = "running") => reported \in {"running", "error"}

\* After a successful deletion the table holds the rules that were added since.
TableGrows ==
  "undeleted" \notin stray =>
    /\ at = "udp" => table = <<>>
    /\ at = "tcp" => Len(table) = 1 /\ table[1] = NatRedirect("udp")
    /\ at = "idle" /\ status = "running" =>
         Len(table) = 2 /\ table[1] = NatRedirect("udp") /\ table[2] = NatRedirect("tcp")

\* Without a cause to the contrary the table is empty when nothing is installed.
TableEmpty ==
  /\ stray = {}
  /\ at \in {"check", "proxy", "stopProxy"} \/ (at = "idle" /\ status # "running")
  => table = <<>>

RedirectInv == RedirectTypeOK /\ ProxyStays /\ TableGrows /\ TableEmpty
=============================================================================
