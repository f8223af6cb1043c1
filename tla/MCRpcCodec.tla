----------------------------- MODULE MCRpcCodec -----------------------------
(* Instances of RpcCodec for TLC. *)
EXTENDS RpcCodec

\* Two and three bits.
Narrow == -2 .. 1
Wide == -4 .. 3

\* With 20 steps in 1 and 5 in the last decimal: exact ones, ones that round
\* up, down and either way of zero, and one that rounds up to 1.
Decimals == {-23, -5, -2, 0, 2, 3, 15, 18, 47}

\* The image of a wide integer begins with a digit, as that of an int64_t does.
Codes == [t \in Number |-> IF t = "long" THEN {3} ELSE {}]

\* No argument, one of each type, two, and a result of each type.
Functions ==
    {[params |-> p, ret |-> r] :
        p \in {<<>>, <<"int">>, <<"double">>, <<"string">>, <<"struct">>,
               <<"int", "double">>, <<"string", "struct">>},
        r \in {"void", "int", "long", "double", "string", "struct"}}
=============================================================================
