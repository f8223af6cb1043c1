------------------------------ MODULE RpcRouter ------------------------------
(***************************************************************************)
(* rpc_router: the two maps that register_handler() and remove_handler()   *)
(* keep by the 32-bit key of a name, and route(), whose handlers suspend.  *)
(* The maps have no lock: registration and removal are modelled where they *)
(* are safe, on the thread that routes, between two suspensions.           *)
(***************************************************************************)
EXTENDS Naturals

CONSTANTS
    Name,      \* names handlers are registered under
    NoName,    \* no entry in key2func_name_
    Key,       \* hashes
    KeyOf,     \* MD5Hash32 of a name
    Stateful,  \* names whose handler is a lambda coroutine with captures
    RemoveLive, \* TRUE: such a handler may be removed while a call of it runs
    Call,      \* coroutines that call route()
    MaxReg     \* bound: registrations

ASSUME RouterAssumption ==
    /\ KeyOf \in [Name -> Key]
    /\ NoName \notin Name
    /\ Stateful \subseteq Name /\ RemoveLive \in BOOLEAN
    /\ MaxReg \in Nat

VARIABLES
    map_invokers,   \* by key: 0, or which registration the invoker is of
    key2func_name,  \* by key: the name, or NoName
    owner,          \* the name a registration was made for
    regs,           \* registrations so far
    refused,        \* the name of the last register_handler() that threw
    call,           \* what a call of route() is doing
    dangling        \* a resumed handler used captures that were destroyed

vars == <<map_invokers, key2func_name, owner, regs, refused, call, dangling>>

Ec == {"ok", "no_such_function", "function_exception",
       "function_unknown_exception"}
NoCall == [pc |-> "idle", name |-> NoName, id |-> 0, ec |-> "ok"]

TypeOK ==
    /\ map_invokers \in [Key -> 0 .. MaxReg]
    /\ key2func_name \in [Key -> Name \cup {NoName}]
    /\ owner \in [1 .. MaxReg -> Name \cup {NoName}]
    /\ regs \in 0 .. MaxReg
    /\ refused \in Name \cup {NoName}
    /\ call \in [Call -> [pc : {"idle", "running", "suspended", "done"},
                          name : Name \cup {NoName}, id : 0 .. MaxReg, ec : Ec]]
    /\ dangling \in BOOLEAN

Init ==
    /\ map_invokers = [k \in Key |-> 0]
    /\ key2func_name = [k \in Key |-> NoName]
    /\ owner = [i \in 1 .. MaxReg |-> NoName] /\ regs = 0 /\ refused = NoName
    /\ call = [r \in Call |-> NoCall]
    /\ dangling = FALSE

-----------------------------------------------------------------------------
\* register_handler_impl(): an entry under the key, of whatever name, refuses.
Registered(n) == key2func_name[KeyOf[n]] # NoName

RegisterHandler(n) ==
    /\ ~Registered(n) /\ regs < MaxReg
    /\ key2func_name' = [key2func_name EXCEPT ![KeyOf[n]] = n]
    /\ map_invokers' = [map_invokers EXCEPT ![KeyOf[n]] = regs + 1]
    /\ regs' = regs + 1
    /\ owner' = [owner EXCEPT ![regs + 1] = n]
    /\ refused' = NoName
    /\ UNCHANGED <<call, dangling>>

DuplicateRegistration(n) ==
    /\ Registered(n)
    /\ refused' = n
    /\ UNCHANGED <<map_invokers, key2func_name, owner, regs, call, dangling>>

\* Mutant: the invoker is erased and its name is kept.
KeepName(n) == UNCHANGED key2func_name

EraseName(n) == key2func_name' = [key2func_name EXCEPT ![KeyOf[n]] = NoName]

InProgress(r) == call[r].pc \in {"running", "suspended"}

\* When an application removes a name. The code has no condition here, but the
\* captures of a handler live in the map.
MayRemove(n) ==
    LET id == map_invokers[KeyOf[n]] IN
    \/ RemoveLive
    \/ \A r \in Call : InProgress(r) /\ call[r].id = id => owner[id] \notin Stateful

RemoveHandler(n) ==
    /\ MayRemove(n)
    /\ map_invokers' = [map_invokers EXCEPT ![KeyOf[n]] = 0]
    /\ EraseName(n)
    /\ refused' = NoName
    /\ UNCHANGED <<owner, regs, call, dangling>>

Goto(r, pc) == call' = [call EXCEPT ![r].pc = pc]

\* Mutant: the first registration of the name, as a cached iterator would be.
FindFirst(n) ==
    IF \E i \in 1 .. regs : owner[i] = n
    THEN CHOOSE i \in 1 .. regs : owner[i] = n /\ \A j \in 1 .. i - 1 : owner[j] # n
    ELSE 0

\* route(): map_invokers_.find(key).
Find(n) == map_invokers[KeyOf[n]]

Route(r, n) ==
    /\ call[r].pc = "idle"
    /\ call' = [call EXCEPT ![r] =
         IF Find(n) = 0
         THEN [pc |-> "done", name |-> n, id |-> 0, ec |-> "no_such_function"]
         ELSE [pc |-> "running", name |-> n, id |-> Find(n), ec |-> "ok"]]
    /\ UNCHANGED <<map_invokers, key2func_name, owner, regs, refused, dangling>>

HandlerSuspends(r) ==
    /\ call[r].pc = "running"
    /\ Goto(r, "suspended")
    /\ UNCHANGED <<map_invokers, key2func_name, owner, regs, refused, dangling>>

\* Mutant: handle_zero_arg() and its like go back to f after the co_await.
AlwaysUsed(id) == TRUE

\* The wrappers use f and self before the handler first suspends and not
\* after; a lambda coroutine goes on using its captures.
UsesCaptures(id) == owner[id] \in Stateful

HandlerResumes(r) ==
    /\ call[r].pc = "suspended"
    /\ Goto(r, "running")
    /\ dangling' = (dangling \/
         (UsesCaptures(call[r].id) /\ \A k \in Key : map_invokers[k] # call[r].id))
    /\ UNCHANGED <<map_invokers, key2func_name, owner, regs, refused>>

\* It returns, or throws a std::exception or something else; an argument that
\* does not unpack throws before the handler is entered.
HandlerEnds(r) ==
    /\ call[r].pc = "running"
    /\ \E ec \in Ec \ {"no_such_function"} :
         call' = [call EXCEPT ![r].pc = "done", ![r].ec = ec]
    /\ UNCHANGED <<map_invokers, key2func_name, owner, regs, refused, dangling>>

RouteReturns(r) ==
    /\ call[r].pc = "done"
    /\ call' = [call EXCEPT ![r] = NoCall]
    /\ UNCHANGED <<map_invokers, key2func_name, owner, regs, refused, dangling>>

Next ==
    \/ \E n \in Name :
         RegisterHandler(n) \/ DuplicateRegistration(n) \/ RemoveHandler(n)
    \/ \E r \in Call :
         \/ \E n \in Name : Route(r, n)
         \/ HandlerSuspends(r) \/ HandlerResumes(r) \/ HandlerEnds(r)
         \/ RouteReturns(r)

Spec == Init /\ [][Next]_vars

-----------------------------------------------------------------------------
(* Properties *)

\* Keys tell names apart, as 32 bits of MD5 do for the names of a program
\* unless two of them happen to collide.
Injective == \A m, n \in Name : KeyOf[m] = KeyOf[n] => m = n

\* What the properties need of the application and its names.
Contract == Injective /\ ~RemoveLive

(***************************************************************************)
(* With keys that do not collide the router is a registry of names: the    *)
(* two maps and the key agree with each other through every sequence of    *)
(* registrations, refusals and removals, and a call keeps the handler that *)
(* it found under its own name. A registration is refused only while its   *)
(* name has a handler.                                                     *)
(***************************************************************************)
Registry == INSTANCE HandlerRegistry WITH
    handler <- [n \in Name |-> map_invokers[KeyOf[n]]],
    asked <- [r \in Call |-> IF InProgress(r) THEN call[r].name ELSE NoName],
    target <- [r \in Call |-> IF InProgress(r) THEN call[r].id ELSE 0]

ImplementsRegistry == Registry!Spec

(***************************************************************************)
(* A call runs a handler that was registered for its own name, and a       *)
(* handler resumed after its name was removed or registered anew never     *)
(* uses captures that went with the map entry.                             *)
(***************************************************************************)
OwnHandler ==
    /\ \A r \in Call : InProgress(r) => owner[call[r].id] = call[r].name
    /\ ~dangling

(***************************************************************************)
(* The inductive invariant behind both: an invoker and a name are under a  *)
(* key together, of one registration made under this key, and what a call  *)
(* with captures runs is still in the map.                                 *)
(***************************************************************************)
RouterInv ==
    /\ \A k \in Key :
         LET id == map_invokers[k] IN
         /\ id \in 0 .. regs
         /\ id = 0 => key2func_name[k] = NoName
         /\ id # 0 => /\ owner[id] \in Name /\ KeyOf[owner[id]] = k
                      /\ key2func_name[k] = owner[id]
    /\ \A r \in Call : InProgress(r) =>
         /\ call[r].id \in 1 .. regs
         /\ owner[call[r].id] = call[r].name
         /\ call[r].name \in Name
         /\ call[r].name \in Stateful => map_invokers[KeyOf[call[r].name]] = call[r].id
    /\ ~dangling
=============================================================================
