---------------------------- MODULE MCLogStream ----------------------------
(* Two processes that write two events each, of three kinds.               *)
EXTENDS LogStream

Kinds(r) == CASE r.seq = 2 -> "error" [] r.life = 2 -> "command" [] OTHER -> "query"
Filters == [text \in {"", "errors"} |->
  IF text = "" THEN {"query", "error", "command"} ELSE {"error"}]

Spec == StreamInit /\ [][StreamNext]_streamVars
=============================================================================
