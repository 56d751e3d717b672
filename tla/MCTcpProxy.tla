------------------------------ MODULE MCTcpProxy ------------------------------
(* Model-checking instance of TcpProxy. *)
EXTENDS TcpProxy, TLC

CONSTANTS v1, v2
MCKind == v1 :> "int" @@ v2 :> "double"
MCFirstTemp == [k \in {"int", "double"} |-> -1]
=============================================================================
