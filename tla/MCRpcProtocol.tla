---------------------------- MODULE MCRpcProtocol ----------------------------
(* Instances of RpcProtocol for TLC. *)
EXTENDS RpcProtocol

\* Function ids whose four bytes, two halves and ends all differ, and zero.
SomeIds == {[i \in 0 .. 3 |-> i + 1], [i \in 0 .. 3 |-> IF i = 3 THEN 1 ELSE 0],
            [i \in 0 .. 3 |-> 0]}

\* Lengths of no byte, of two bytes, with one byte in the upper half, and one
\* with eight different bytes.
SomeLens == {[i \in 0 .. 7 |-> 0], [i \in 0 .. 7 |-> IF i < 2 THEN i + 1 ELSE 0],
             [i \in 0 .. 7 |-> IF i = 4 THEN 1 ELSE 0], [i \in 0 .. 7 |-> i]}
=============================================================================
