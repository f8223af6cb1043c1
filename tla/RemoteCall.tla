----------------------------- MODULE RemoteCall -----------------------------
(***************************************************************************)
(* What call() and call_for() of rpc_client promise, whatever happens to   *)
(* connections, watchdogs and servers in between. A function runs at most  *)
(* once per call and never before it. A call that reports ok has run it;   *)
(* one that reports no_such_function or write_error has not and never      *)
(* will, so it can be repeated; after an exception the function may have   *)
(* run, or its arguments were refused, but it will not run any more. After *)
(* any other error the function may have run, or may still run.            *)
(***************************************************************************)
EXTENDS Naturals

CONSTANT Op  \* calls

VARIABLES
    state,    \* "idle", "invoked", or the rpc_errc the call returned
    executed  \* how often the function of a call has run

NotRun == {"no_such_function", "write_error"}
Thrown == {"function_exception", "function_unknown_exception"}
Unknown == {"read_error", "protocol_error", "request_timeout"}

Init ==
    /\ state = [o \in Op |-> "idle"]
    /\ executed = [o \in Op |-> 0]

Invoke(o) ==
    /\ state[o] = "idle"
    /\ state' = [state EXCEPT ![o] = "invoked"]
    /\ UNCHANGED executed

Execute(o) ==
    /\ state[o] \in {"invoked"} \cup Unknown
    /\ executed[o] = 0
    /\ executed' = [executed EXCEPT ![o] = 1]
    /\ UNCHANGED state

Return(o, ec) ==
    /\ state[o] = "invoked"
    /\ ec = "ok" => executed[o] = 1
    /\ ec \in NotRun => executed[o] = 0
    /\ state' = [state EXCEPT ![o] = ec]
    /\ UNCHANGED executed

Next ==
    \E o \in Op :
        \/ Invoke(o)
        \/ Execute(o)
        \/ \E ec \in {"ok"} \cup NotRun \cup Thrown \cup Unknown : Return(o, ec)

Spec == Init /\ [][Next]_<<state, executed>>
=============================================================================
