---------------------------- MODULE MCRpcExpiry ----------------------------
(* Instances of RpcExpiry for TLC. *)
EXTENDS RpcExpiry
=============================================================================
