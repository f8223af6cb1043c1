----------------------------- MODULE MCRpcRouter -----------------------------
(* Instances of RpcRouter for TLC. *)
EXTENDS RpcRouter, TLC

CONSTANTS a, b

\* Every name has a key of its own.
OwnKeys == (a :> 1) @@ (b :> 2)
=============================================================================
