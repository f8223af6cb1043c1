--------------------------- MODULE RpcRouterProofs ---------------------------
(***************************************************************************)
(* rpc_router implements HandlerRegistry for any names, calls and keys     *)
(* that do not collide.                                                    *)
(***************************************************************************)
EXTENDS RpcRouter, TLAPS

Inv == TypeOK /\ RouterInv

\* Initially both maps are empty and nothing runs.
LEMMA InitInv == Init => Inv
<1> SUFFICES ASSUME Init PROVE Inv
  OBVIOUS
<1>1. TypeOK
  <2>1. NoCall \in [pc : {"idle", "running", "suspended", "done"},
                     name : Name \cup {NoName}, id : 0 .. MaxReg, ec : Ec]
    BY RouterAssumption DEF NoCall, Ec
  <2>2. call \in [Call -> [pc : {"idle", "running", "suspended", "done"},
                           name : Name \cup {NoName}, id : 0 .. MaxReg, ec : Ec]]
    BY <2>1 DEF Init
  <2>3. dangling \in BOOLEAN
    BY DEF Init
  <2>4. /\ map_invokers \in [Key -> 0 .. MaxReg]
        /\ key2func_name \in [Key -> Name \cup {NoName}]
        /\ owner \in [1 .. MaxReg -> Name \cup {NoName}]
        /\ regs \in 0 .. MaxReg /\ refused \in Name \cup {NoName}
    BY RouterAssumption DEF Init
  <2> QED BY <2>2, <2>3, <2>4 DEF TypeOK
<1>2. RouterInv
  BY RouterAssumption DEF Init, RouterInv, InProgress, NoCall
<1> QED BY <1>1, <1>2 DEF Inv

\* A key without a name has no invoker, and the other way round.
LEMMA KeyFree ==
    ASSUME TypeOK, RouterInv, NEW n \in Name
    PROVE  Registered(n) <=> map_invokers[KeyOf[n]] # 0
  BY RouterAssumption DEF TypeOK, RouterInv, Registered

\* The types are kept by every step of rpc_router.
LEMMA TypeStep == TypeOK /\ RouterInv /\ [Next]_vars => TypeOK'
<1> SUFFICES ASSUME TypeOK, RouterInv, [Next]_vars PROVE TypeOK'
  OBVIOUS
<1> USE RouterAssumption DEF TypeOK
<1>1. ASSUME NEW n \in Name, RegisterHandler(n) PROVE TypeOK'
  BY <1>1 DEF RegisterHandler
<1>2. ASSUME NEW n \in Name, DuplicateRegistration(n) PROVE TypeOK'
  BY <1>2 DEF DuplicateRegistration
<1>3. ASSUME NEW n \in Name, RemoveHandler(n) PROVE TypeOK'
  BY <1>3 DEF RemoveHandler, EraseName
<1>4. ASSUME NEW r \in Call, NEW n \in Name, Route(r, n) PROVE TypeOK'
  BY <1>4 DEF Route, Find, Ec
<1>5. ASSUME NEW r \in Call, HandlerSuspends(r) PROVE TypeOK'
  BY <1>5 DEF HandlerSuspends, Goto
<1>6. ASSUME NEW r \in Call, HandlerResumes(r) PROVE TypeOK'
  <2>1. dangling' \in BOOLEAN
    BY <1>6, Zenon DEF HandlerResumes
  <2> QED BY <1>6, <2>1 DEF HandlerResumes, Goto
<1>7. ASSUME NEW r \in Call, HandlerEnds(r) PROVE TypeOK'
  <2>1. PICK ec \in Ec : call' = [call EXCEPT ![r].pc = "done", ![r].ec = ec]
    BY <1>7 DEF HandlerEnds
  <2>2. call'[r] = [call[r] EXCEPT !.pc = "done", !.ec = ec]
    BY <2>1
  <2>3. call'[r] \in [pc : {"idle", "running", "suspended", "done"},
                      name : Name \cup {NoName}, id : 0 .. MaxReg, ec : Ec]
    BY <2>2
  <2>4. call' = [call EXCEPT ![r] = call'[r]]
    BY <2>1, <2>2
  <2>5. call' \in [Call -> [pc : {"idle", "running", "suspended", "done"},
                            name : Name \cup {NoName}, id : 0 .. MaxReg, ec : Ec]]
    BY <2>3, <2>4
  <2> QED BY <1>7, <2>5 DEF HandlerEnds
<1>8. ASSUME NEW r \in Call, RouteReturns(r) PROVE TypeOK'
  BY <1>8 DEF RouteReturns, NoCall, Ec
<1>9. CASE UNCHANGED vars
  BY <1>9 DEF vars
<1> QED BY <1>1, <1>2, <1>3, <1>4, <1>5, <1>6, <1>7, <1>8, <1>9 DEF Next

\* RouterInv is kept by every step under the Contract.
LEMMA RouterStep == Inv /\ Contract /\ [Next]_vars => RouterInv'
<1> SUFFICES ASSUME TypeOK, RouterInv, Contract, [Next]_vars PROVE RouterInv'
  BY DEF Inv
<1> USE RouterAssumption DEF TypeOK, RouterInv, InProgress
<1>1. ASSUME NEW n \in Name, RegisterHandler(n) PROVE RouterInv'
  <2>1. /\ regs' = regs + 1 /\ regs + 1 \in 1 .. MaxReg
        /\ \A k \in Key : map_invokers'[k] = IF k = KeyOf[n] THEN regs + 1 ELSE map_invokers[k]
        /\ \A k \in Key : key2func_name'[k] = IF k = KeyOf[n] THEN n ELSE key2func_name[k]
        /\ \A i \in 1 .. MaxReg : owner'[i] = IF i = regs + 1 THEN n ELSE owner[i]
        /\ call' = call /\ dangling' = dangling
        /\ key2func_name[KeyOf[n]] = NoName
    BY <1>1 DEF RegisterHandler, Registered
  <2>2. map_invokers[KeyOf[n]] = 0
    BY <2>1
  <2>3. \A i \in 1 .. regs : owner'[i] = owner[i]
    BY <2>1
  <2>4. ASSUME NEW k \in Key
        PROVE  LET id == map_invokers'[k] IN
               /\ id \in 0 .. regs'
               /\ id = 0 => key2func_name'[k] = NoName
               /\ id # 0 => /\ owner'[id] \in Name /\ KeyOf[owner'[id]] = k
                            /\ key2func_name'[k] = owner'[id]
    <3>1. CASE k = KeyOf[n]
      BY <3>1, <2>1
    <3>2. CASE k # KeyOf[n]
      <4>1. map_invokers'[k] = map_invokers[k] /\ key2func_name'[k] = key2func_name[k]
        BY <3>2, <2>1
      <4>2. map_invokers[k] # 0 => owner'[map_invokers[k]] = owner[map_invokers[k]]
        BY <2>3
      <4> QED BY <2>1, <4>1, <4>2
    <3> QED BY <3>1, <3>2
  <2>5. ASSUME NEW r \in Call, InProgress(r)'
        PROVE  /\ call'[r].id \in 1 .. regs'
               /\ owner'[call'[r].id] = call'[r].name
               /\ call'[r].name \in Name
               /\ call'[r].name \in Stateful =>
                    map_invokers'[KeyOf[call'[r].name]] = call'[r].id
    <3>1. InProgress(r) /\ call'[r] = call[r]
      BY <2>1, <2>5
    <3>2. call[r].name \in Stateful => KeyOf[call[r].name] # KeyOf[n]
      BY <2>2, <3>1
    <3> QED BY <2>1, <2>3, <3>1, <3>2
  <2> QED BY <2>1, <2>4, <2>5
<1>2. ASSUME NEW n \in Name, DuplicateRegistration(n) PROVE RouterInv'
  BY <1>2 DEF DuplicateRegistration
<1>3. ASSUME NEW n \in Name, RemoveHandler(n) PROVE RouterInv'
  <2>1. /\ \A k \in Key : map_invokers'[k] = IF k = KeyOf[n] THEN 0 ELSE map_invokers[k]
        /\ \A k \in Key : key2func_name'[k] = IF k = KeyOf[n] THEN NoName ELSE key2func_name[k]
        /\ UNCHANGED <<owner, regs, call, dangling>>
        /\ MayRemove(n)
    BY <1>3 DEF RemoveHandler, EraseName
  <2>2. \A r \in Call : InProgress(r) /\ call[r].name \in Stateful
           => KeyOf[call[r].name] # KeyOf[n]
    BY <2>1 DEF MayRemove, Contract
  <2> QED BY <2>1, <2>2
<1>4. ASSUME NEW r \in Call, NEW n \in Name, Route(r, n) PROVE RouterInv'
  <2>1. Find(n) # 0 => owner[Find(n)] = n /\ Find(n) \in 1 .. regs
    BY DEF Find, Contract, Injective
  <2> QED BY <1>4, <2>1 DEF Route, Find
<1>5. ASSUME NEW r \in Call, HandlerSuspends(r) PROVE RouterInv'
  BY <1>5 DEF HandlerSuspends, Goto
<1>6. ASSUME NEW r \in Call, HandlerResumes(r) PROVE RouterInv'
  <2>1. UsesCaptures(call[r].id) =>
          KeyOf[call[r].name] \in Key /\ map_invokers[KeyOf[call[r].name]] = call[r].id
    BY <1>6 DEF HandlerResumes, UsesCaptures
  <2>2. dangling' = FALSE
    BY <1>6, <2>1 DEF HandlerResumes
  <2> QED BY <1>6, <2>2 DEF HandlerResumes, Goto
<1>7. ASSUME NEW r \in Call, HandlerEnds(r) PROVE RouterInv'
  BY <1>7 DEF HandlerEnds
<1>8. ASSUME NEW r \in Call, RouteReturns(r) PROVE RouterInv'
  BY <1>8 DEF RouteReturns, NoCall
<1>9. CASE UNCHANGED vars
  BY <1>9 DEF vars
<1> QED BY <1>1, <1>2, <1>3, <1>4, <1>5, <1>6, <1>7, <1>8, <1>9 DEF Next

\* The invariant holds in every reachable state of rpc_router.
LEMMA InvHolds == ASSUME Contract PROVE Spec => []Inv
<1>1. Inv /\ [Next]_vars => Inv'
  BY TypeStep, RouterStep DEF Inv
<1> QED BY InitInv, <1>1, PTL DEF Spec

(***************************************************************************)
(* With keys that differ and no handler with captures removed under a      *)
(* call, an invoker and a name are under a key together, both of one       *)
(* registration made under it, and what a call with captures runs is still *)
(* in the map, whatever is registered, removed and routed in between.      *)
(***************************************************************************)
THEOREM RouterInvHolds == ASSUME Contract PROVE Spec => []RouterInv
<1>1. Inv => RouterInv
  BY DEF Inv
<1> QED BY <1>1, InvHolds, PTL

(***************************************************************************)
(* A call runs a handler registered for its own name and never captures    *)
(* that are gone, for any names, keys without collision and calls.         *)
(***************************************************************************)
THEOREM OwnHandlerHolds == ASSUME Contract PROVE Spec => []OwnHandler
<1>1. Inv => OwnHandler
  BY DEF Inv, RouterInv, OwnHandler
<1> QED BY InvHolds, <1>1, PTL

-----------------------------------------------------------------------------
(* The refinement *)

\* Every step of rpc_router is a step of the registry or leaves it alone.
LEMMA RegistryStep ==
    Inv /\ Contract /\ [Next]_vars => [Registry!Next]_(Registry!vars)
<1> SUFFICES ASSUME TypeOK, RouterInv, Contract, [Next]_vars
             PROVE  Registry!Next \/ UNCHANGED Registry!vars
  BY DEF Inv
<1> USE RouterAssumption DEF TypeOK, Registry!Next, Registry!vars, Registry!callVars
<1> DEFINE h == [n \in Name |-> map_invokers[KeyOf[n]]]
           t == [r \in Call |-> IF InProgress(r) THEN call[r].id ELSE 0]
           a == [r \in Call |-> IF InProgress(r) THEN call[r].name ELSE NoName]
<1>1. ASSUME NEW n \in Name, RegisterHandler(n) PROVE Registry!Register(n)
  <2>1. map_invokers[KeyOf[n]] = 0
    BY <1>1, KeyFree DEF RegisterHandler
  <2>2. h' = [h EXCEPT ![n] = regs + 1]
    BY <1>1 DEF RegisterHandler, Contract, Injective
  <2>3. t' = t /\ a' = a
    BY <1>1 DEF RegisterHandler, InProgress
  <2> QED BY <1>1, <2>1, <2>2, <2>3 DEF RegisterHandler, Registry!Register
<1>2. ASSUME NEW n \in Name, DuplicateRegistration(n) PROVE Registry!Refuse(n)
  <2>1. map_invokers[KeyOf[n]] # 0
    BY <1>2, KeyFree DEF DuplicateRegistration
  <2>2. h' = h /\ t' = t /\ a' = a
    BY <1>2 DEF DuplicateRegistration, InProgress
  <2> QED BY <1>2, <2>1, <2>2 DEF DuplicateRegistration, Registry!Refuse
<1>3. ASSUME NEW n \in Name, RemoveHandler(n) PROVE Registry!Remove(n)
  <2>1. h' = [h EXCEPT ![n] = 0]
    BY <1>3 DEF RemoveHandler, Contract, Injective
  <2>2. t' = t /\ a' = a
    BY <1>3 DEF RemoveHandler, InProgress
  <2> QED BY <1>3, <2>1, <2>2 DEF RemoveHandler, Registry!Remove
<1>4. ASSUME NEW r \in Call, NEW n \in Name, Route(r, n)
      PROVE  Registry!Run(r, n) \/ UNCHANGED Registry!vars
  <2>1. h' = h /\ regs' = regs /\ refused' = refused
    BY <1>4 DEF Route
  <2>2. /\ t[r] = 0 /\ t' = [t EXCEPT ![r] = Find(n)]
        /\ a[r] = NoName /\ a' = [a EXCEPT ![r] = IF Find(n) = 0 THEN NoName ELSE n]
    BY <1>4 DEF Route, Find, InProgress
  <2>3. CASE Find(n) = 0
    <3>1. t' = t /\ a' = a
      BY <2>2, <2>3
    <3> QED BY <2>1, <3>1
  <2>4. CASE Find(n) # 0
    BY <2>1, <2>2, <2>4 DEF Find, Registry!Run
  <2> QED BY <2>3, <2>4
<1>5. ASSUME NEW r \in Call, HandlerSuspends(r) \/ HandlerResumes(r) \/ RouteReturns(r)
      PROVE  UNCHANGED Registry!vars
  <2>1. \A q \in Call : /\ InProgress(q)' <=> InProgress(q)
                        /\ InProgress(q) => /\ call'[q].id = call[q].id
                                            /\ call'[q].name = call[q].name
    <3> SUFFICES ASSUME NEW q \in Call
                 PROVE  /\ InProgress(q)' <=> InProgress(q)
                        /\ InProgress(q) => /\ call'[q].id = call[q].id
                                            /\ call'[q].name = call[q].name
      OBVIOUS
    <3>1. CASE HandlerSuspends(r)
      BY <3>1 DEF HandlerSuspends, Goto, InProgress
    <3>2. CASE HandlerResumes(r)
      BY <3>2 DEF HandlerResumes, Goto, InProgress
    <3>3. CASE RouteReturns(r)
      BY <3>3 DEF RouteReturns, NoCall, InProgress
    <3> QED BY <1>5, <3>1, <3>2, <3>3
  <2>3. t' = t /\ a' = a
    BY <2>1
  <2>2. h' = h /\ regs' = regs /\ refused' = refused
    BY <1>5 DEF HandlerSuspends, HandlerResumes, RouteReturns
  <2> QED BY <2>2, <2>3
<1>6. ASSUME NEW r \in Call, HandlerEnds(r) PROVE Registry!Finish(r)
  <2>1. InProgress(r) /\ call[r].id # 0
    BY <1>6 DEF HandlerEnds, InProgress, RouterInv
  <2>3. PICK ec \in Ec : call' = [call EXCEPT ![r].pc = "done", ![r].ec = ec]
    BY <1>6 DEF HandlerEnds
  <2>4. /\ ~InProgress(r)'
        /\ \A q \in Call \ {r} : call'[q] = call[q] /\ (InProgress(q)' <=> InProgress(q))
    BY <2>3 DEF InProgress
  <2>5. t[r] # 0 /\ t' = [t EXCEPT ![r] = 0] /\ a' = [a EXCEPT ![r] = NoName]
    BY <2>1, <2>4
  <2>2. h' = h /\ regs' = regs /\ refused' = refused
    BY <1>6 DEF HandlerEnds
  <2> QED BY <2>2, <2>5 DEF Registry!Finish
<1>7. CASE UNCHANGED vars
  BY <1>7 DEF vars, InProgress
<1> QED BY <1>1, <1>2, <1>3, <1>4, <1>5, <1>6, <1>7 DEF Next

(***************************************************************************)
(* rpc_router, with its two maps by key, implements the registry of names. *)
(***************************************************************************)
THEOREM RouterImplementsRegistry ==
    ASSUME Contract PROVE Spec => ImplementsRegistry
<1>1. Init => Registry!Init
  BY RouterAssumption DEF Init, Registry!Init, InProgress, NoCall
<1>2. Spec => Registry!Spec
  BY <1>1, InvHolds, RegistryStep, PTL DEF Spec, Registry!Spec
<1> QED BY <1>2 DEF ImplementsRegistry
=============================================================================
