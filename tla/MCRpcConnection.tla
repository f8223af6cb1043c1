--------------------------- MODULE MCRpcConnection ---------------------------
(* Instances of RpcConnection for TLC. *)
EXTENDS RpcConnection, TLC

CONSTANTS c1, c2, t1, t2

\* Both connections on one io_context: they share the tls_data.
SameThread == (c1 :> t1) @@ (c2 :> t1)

\* A single connection.
Alone == c1 :> t1
=============================================================================
