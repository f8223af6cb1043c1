--------------------------- MODULE HandlerRegistry ---------------------------
(***************************************************************************)
(* What rpc_router promises: a set of names with a handler each. A name is *)
(* registered when it was free and refused when it was not; a call runs    *)
(* the handler that its own name has at that moment, to its end, also if   *)
(* the name is removed or registered anew while the handler is suspended.  *)
(***************************************************************************)
EXTENDS Naturals

CONSTANTS Name, NoName, Call

VARIABLES
    handler,  \* the registration a name has, 0 if none
    regs,     \* registrations made so far
    refused,  \* the name the last refused registration was for
    asked,    \* the name a call asked for while it runs, NoName otherwise
    target    \* the registration a call runs, 0 if it runs none

callVars == <<asked, target>>
vars == <<handler, regs, refused, callVars>>

Init ==
    /\ handler = [n \in Name |-> 0] /\ regs = 0
    /\ refused = NoName
    /\ asked = [k \in Call |-> NoName] /\ target = [k \in Call |-> 0]

Register(n) ==
    /\ handler[n] = 0
    /\ regs' = regs + 1
    /\ handler' = [handler EXCEPT ![n] = regs + 1]
    /\ refused' = NoName
    /\ UNCHANGED callVars

Refuse(n) ==
    /\ handler[n] # 0
    /\ refused' = n
    /\ UNCHANGED <<handler, regs, callVars>>

Remove(n) ==
    /\ handler' = [handler EXCEPT ![n] = 0]
    /\ refused' = NoName
    /\ UNCHANGED <<regs, callVars>>

Run(k, n) ==
    /\ target[k] = 0 /\ handler[n] # 0
    /\ asked' = [asked EXCEPT ![k] = n]
    /\ target' = [target EXCEPT ![k] = handler[n]]
    /\ UNCHANGED <<handler, regs, refused>>

Finish(k) ==
    /\ target[k] # 0
    /\ asked' = [asked EXCEPT ![k] = NoName]
    /\ target' = [target EXCEPT ![k] = 0]
    /\ UNCHANGED <<handler, regs, refused>>

Next ==
    \/ \E n \in Name : Register(n) \/ Refuse(n) \/ Remove(n)
    \/ \E k \in Call : Finish(k) \/ \E n \in Name : Run(k, n)

Spec == Init /\ [][Next]_vars
=============================================================================
