----------------------------- MODULE MCRpcServer -----------------------------
(* Instances of RpcServer for TLC. *)
EXTENDS RpcServer, TLC

CONSTANTS c1, k1, k2

\* One connection, on another io_context than the acceptor.
Away == c1 :> k2
=============================================================================
