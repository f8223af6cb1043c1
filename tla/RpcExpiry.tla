------------------------------ MODULE RpcExpiry ------------------------------
(***************************************************************************)
(* How a server drops idle connections: set_conn_max_age() and             *)
(* set_check_conn_interval(), the coroutines of start_check_timer() that   *)
(* share one timer, check_timeout(), and the time stamps that a connection *)
(* takes. Time is discrete. It passes only while no coroutine of the timer *)
(* is ready to run, so what is due is done at its time; steady_clock and   *)
(* system_clock run together.                                              *)
(***************************************************************************)
EXTENDS Naturals, FiniteSets

CONSTANTS
    Conn,             \* connections that clients may open
    Ages,             \* arguments of set_conn_max_age()
    Intervals,        \* arguments of set_check_conn_interval()
    DefaultInterval,  \* check_duration_ as it is constructed
    DefaultAge,       \* timeout_duration_ as it is constructed
    MaxTime,          \* bound: the clock
    MaxSets           \* bound: calls of set_conn_max_age()

\* set_check_conn_interval() also takes an interval of zero. It is left out:
\* start_check_timer() would then check without a pause, and discrete time would
\* never pass.
ASSUME ExpiryAssumption ==
    /\ Ages \subseteq Nat /\ Intervals \subseteq Nat \ {0}
    /\ DefaultInterval \in Nat \ {0} /\ DefaultAge \in Nat
    /\ MaxTime \in Nat /\ MaxSets \in Nat
    \* A std::chrono::duration is bounded: some interval is the longest.
    /\ \E i \in Intervals \cup {DefaultInterval} :
         \A j \in Intervals \cup {DefaultInterval} : j <= i

VARIABLES
    now,               \* the clock
    started,           \* the io_contexts are running
    need_check,        \* need_check_
    timeout_duration,  \* timeout_duration_
    check_duration,    \* check_duration_
    expiry,            \* when check_timer_ expires
    loops,             \* the coroutines of start_check_timer()
    stop_timer,        \* stop_timer_
    pc,                \* start() of a connection, and how it ended
    checkout_timeout,  \* checkout_timeout_
    last_rwtime,       \* last_rwtime_
    begun,             \* when the connection last began a read or a write
    configured,        \* when start(), or set_conn_max_age(), was last called
    stopped            \* when stop() was called

confVars == <<need_check, timeout_duration, check_duration, configured>>
timerVars == <<expiry, loops>>
connVars == <<pc, checkout_timeout, last_rwtime, begun>>
runVars == <<started, stop_timer, stopped>>
vars == <<now, confVars, timerVars, connVars, runVars>>

Time == 0 .. MaxTime
Loop == 1 .. MaxSets
Reading == {"header", "body"}
InUse == Reading \cup {"handler", "write"}

TypeOK ==
    /\ now \in Time
    /\ {started, need_check, stop_timer} \subseteq BOOLEAN
    /\ timeout_duration \in Nat /\ check_duration \in Nat \ {0}
    /\ expiry \in Nat
    /\ loops \in [Loop -> {"none", "spawned", "waiting", "expired", "done"}]
    /\ pc \in [Conn -> {"none", "reaped", "gone"} \cup InUse]
    /\ checkout_timeout \in [Conn -> BOOLEAN]
    /\ last_rwtime \in [Conn -> Time] /\ begun \in [Conn -> Time]
    /\ configured \in Time /\ stopped \in Time

Init ==
    /\ now = 0 /\ started = FALSE
    /\ need_check = FALSE
    /\ timeout_duration = DefaultAge /\ check_duration = DefaultInterval
    /\ expiry = 0 /\ loops = [l \in Loop |-> "none"]
    /\ stop_timer = FALSE /\ stopped = 0 /\ configured = 0
    /\ pc = [c \in Conn |-> "none"]
    /\ checkout_timeout = [c \in Conn |-> FALSE]
    /\ last_rwtime = [c \in Conn |-> 0] /\ begun = [c \in Conn |-> 0]

-----------------------------------------------------------------------------
(* Configuration, start and stop *)

\* The calls of set_conn_max_age() that started a coroutine, and the one of them
\* that a new call starts.
Sets == Cardinality({l \in Loop : loops[l] # "none"})

\* A duration of zero is ignored. A call after stop() is left out: its coroutine
\* ends at its first expiry, or is never run (RpcServer has it).
SetConnMaxAge(d) ==
    /\ d > 0 /\ Sets < MaxSets /\ ~stop_timer
    /\ need_check' = TRUE
    /\ timeout_duration' = d
    /\ loops' = [loops EXCEPT ![Sets + 1] = "spawned"]
    /\ configured' = now
    /\ UNCHANGED <<now, check_duration, expiry, connVars, runVars>>

SetCheckConnInterval(d) ==
    /\ check_duration' = d
    /\ UNCHANGED <<now, need_check, timeout_duration, configured, timerVars,
                   connVars, runVars>>

Start ==
    /\ ~started /\ ~stop_timer
    /\ started' = TRUE
    /\ configured' = now
    /\ UNCHANGED <<now, need_check, timeout_duration, check_duration, timerVars,
                   connVars, stop_timer, stopped>>

\* stop(): the flag is set, the timer is not cancelled, connections are closed.
Stop ==
    /\ started /\ ~stop_timer
    /\ stop_timer' = TRUE /\ stopped' = now
    /\ pc' = [c \in Conn |-> IF pc[c] \in InUse THEN "gone" ELSE pc[c]]
    /\ UNCHANGED <<now, confVars, timerVars, checkout_timeout, last_rwtime,
                   begun, started>>

-----------------------------------------------------------------------------
(* start_check_timer() and check_timeout() *)

\* Mutant: the wait of another coroutine is left alone.
KeepWaits(l) ==
    /\ expiry' = now + check_duration
    /\ loops' = [loops EXCEPT ![l] = "waiting"]
\* Mutant: one check and no more.
CheckOnce(l) ==
    /\ expiry' = now + check_duration
    /\ loops' = [k \in Loop |->
                   IF k = l THEN IF loops[l] = "spawned" THEN "waiting" ELSE "done"
                   ELSE IF loops[k] = "waiting" THEN "done" ELSE loops[k]]

\* expires_after() cancels the pending wait of any other coroutine, which ends
\* with operation_aborted; one that has expired already goes on.
ExpiresAfter(l) ==
    /\ expiry' = now + check_duration
    /\ loops' = [k \in Loop |->
                   IF k = l THEN "waiting"
                   ELSE IF loops[k] = "waiting" THEN "done" ELSE loops[k]]

LoopBegin(l) ==
    /\ started /\ loops[l] = "spawned"
    /\ ExpiresAfter(l)
    /\ UNCHANGED <<now, confVars, connVars, runVars>>

TimerExpires(l) ==
    /\ loops[l] = "waiting" /\ now >= expiry
    /\ loops' = [loops EXCEPT ![l] = "expired"]
    /\ UNCHANGED <<now, confVars, expiry, connVars, runVars>>

\* Mutant: the flag is not looked at.
NeverStop == FALSE

MustStop == stop_timer

LoopEnd(l) ==
    /\ loops[l] = "expired" /\ MustStop
    /\ loops' = [loops EXCEPT ![l] = "done"]
    /\ UNCHANGED <<now, confVars, expiry, connVars, runVars>>

TooOld(c) == now - last_rwtime[c] > timeout_duration

\* check_timeout() and the next round.
Check(l) ==
    /\ loops[l] = "expired" /\ ~MustStop
    /\ pc' = [c \in Conn |-> IF pc[c] \in InUse /\ TooOld(c) THEN "reaped" ELSE pc[c]]
    /\ ExpiresAfter(l)
    /\ UNCHANGED <<now, confVars, checkout_timeout, last_rwtime, begun, runVars>>

-----------------------------------------------------------------------------
(* Connections: when they take a time stamp *)

Accept(c) ==
    /\ started /\ ~stop_timer /\ pc[c] = "none"
    /\ pc' = [pc EXCEPT ![c] = "header"]
    /\ checkout_timeout' = [checkout_timeout EXCEPT ![c] = need_check]
    /\ last_rwtime' = [last_rwtime EXCEPT ![c] = now]
    /\ begun' = [begun EXCEPT ![c] = now]
    /\ UNCHANGED <<now, confVars, timerVars, runVars>>

\* set_last_time(), and the read or write that follows it.
\* Mutant: no time stamp.
BeginUnstamped(c) == begun' = [begun EXCEPT ![c] = now] /\ UNCHANGED last_rwtime

Begin(c) ==
    /\ begun' = [begun EXCEPT ![c] = now]
    /\ last_rwtime' = IF checkout_timeout[c] THEN [last_rwtime EXCEPT ![c] = now]
                                              ELSE last_rwtime

\* A header or a body is in, or a response is out, and the loop goes on with
\* another read or write.
Transfer(c, from, to) ==
    /\ pc[c] = from
    /\ pc' = [pc EXCEPT ![c] = to]
    /\ Begin(c)
    /\ UNCHANGED <<now, confVars, timerVars, checkout_timeout, runVars>>

\* The handler begins: no time stamp.
Handle(c) ==
    /\ pc[c] \in Reading
    /\ pc' = [pc EXCEPT ![c] = "handler"]
    /\ UNCHANGED <<now, confVars, timerVars, checkout_timeout, last_rwtime,
                   begun, runVars>>

\* response() of an rpc_context or of a publisher.
LateWrite(c) ==
    /\ pc[c] \in InUse
    /\ Begin(c)
    /\ UNCHANGED <<now, confVars, timerVars, pc, checkout_timeout, runVars>>

Gone(c) ==
    /\ pc[c] \in Reading \cup {"write"}
    /\ pc' = [pc EXCEPT ![c] = "gone"]
    /\ UNCHANGED <<now, confVars, timerVars, checkout_timeout, last_rwtime,
                   begun, runVars>>

-----------------------------------------------------------------------------
\* A coroutine of the timer can run now.
Ready ==
    \E l \in Loop :
        \/ started /\ loops[l] = "spawned"
        \/ loops[l] = "waiting" /\ now >= expiry
        \/ loops[l] = "expired"

Tick ==
    /\ now < MaxTime /\ ~Ready
    /\ now' = now + 1
    /\ UNCHANGED <<confVars, timerVars, connVars, runVars>>

Configure ==
    \/ \E d \in Ages : SetConnMaxAge(d)
    \/ \E d \in Intervals : SetCheckConnInterval(d)
    \/ Start
    \/ Stop

CheckTimer(l) == LoopBegin(l) \/ TimerExpires(l) \/ LoopEnd(l) \/ Check(l)

Connection(c) ==
    \/ Accept(c)
    \/ Transfer(c, "header", "header")   \* a subscription
    \/ Transfer(c, "header", "body")
    \/ Handle(c)
    \/ Transfer(c, "handler", "header")  \* a delayed response
    \/ Transfer(c, "handler", "write")
    \/ Transfer(c, "write", "header")
    \/ LateWrite(c)
    \/ Gone(c)

Next ==
    \/ Configure
    \/ \E l \in Loop : CheckTimer(l)
    \/ \E c \in Conn : Connection(c)
    \/ Tick

Spec == Init /\ [][Next]_vars

-----------------------------------------------------------------------------
(* Properties *)

Live == {l \in Loop : loops[l] \in {"spawned", "waiting", "expired"}}

(***************************************************************************)
(* Calls of set_conn_max_age() each start a coroutine on the one timer.    *)
(* However they come between its rounds, one is left while the server      *)
(* runs, and never do two wait: each expires_after() ends the other.       *)
(***************************************************************************)
OneCheckLoop ==
    /\ Cardinality({l \in Loop : loops[l] = "waiting"}) <= 1
    /\ need_check /\ ~stop_timer => Live # {}

LongestInterval ==
    CHOOSE i \in Intervals \cup {DefaultInterval} :
        \A j \in Intervals \cup {DefaultInterval} : j <= i

Later(t, u) == IF t >= u THEN t ELSE u

(***************************************************************************)
(* An idle connection is dropped: none is older than the maximum age and   *)
(* one interval, counted from its last read or write or from the last      *)
(* start() or set_conn_max_age(), whichever is later.                      *)
(***************************************************************************)
ReapedInTime ==
    \A c \in Conn :
        pc[c] \in InUse /\ need_check =>
            now - Later(begun[c], configured) <= timeout_duration + LongestInterval

(***************************************************************************)
(* A connection that began a read or a write within the maximum age is     *)
(* not dropped by check_timeout(), however often the age and the interval  *)
(* have changed since it was accepted. The one exception is a connection   *)
(* accepted before the first set_conn_max_age(): it takes no time stamps,  *)
(* and its age is counted from accept() however busy it is.                *)
(***************************************************************************)
KeptWhileActive ==
    [][\A c \in Conn : pc[c] # "reaped" /\ pc'[c] = "reaped"
          => now - begun[c] > timeout_duration \/ ~checkout_timeout[c]]_vars

(***************************************************************************)
(* stop() does not cancel the timer: the coroutine that it joins goes on   *)
(* for one interval at most.                                               *)
(***************************************************************************)
StopBounded ==
    stop_timer /\ Live # {} => now - stopped <= LongestInterval
-----------------------------------------------------------------------------
(* Why the rules hold, as an inductive invariant *)

\* A connection that takes time stamps has stamped every read and write.
Stamped ==
    \A c \in Conn :
        /\ last_rwtime[c] <= begun[c] /\ begun[c] <= now
        /\ checkout_timeout[c] => last_rwtime[c] = begun[c]

\* Nothing is served before start() or after stop().
Served ==
    /\ configured <= now /\ stopped <= now
    /\ stop_timer => started /\ configured <= stopped
    /\ ~started => \A l \in Loop : loops[l] \in {"none", "spawned"}
    /\ ~started \/ stop_timer => \A c \in Conn : pc[c] \notin InUse

\* A coroutine that is ready to run keeps the clock from going on.
LoopsInTime ==
    \A l \in Loop :
        /\ loops[l] = "spawned" /\ started => now = configured
        /\ loops[l] = "waiting" => now <= expiry
        /\ loops[l] = "expired" /\ stop_timer => now <= stopped + LongestInterval

\* When the next check is due.
CheckDue ==
    (\E l \in Loop : loops[l] = "waiting") =>
        /\ expiry <= now + LongestInterval
        /\ stop_timer => expiry <= stopped + LongestInterval
        /\ need_check =>
             \A c \in Conn :
                pc[c] \in InUse => expiry <= Later(begun[c], configured)
                                               + timeout_duration + LongestInterval

\* Never do two coroutines wait, and one is left while the server runs.
OneWaits ==
    /\ \A k, l \in Loop : loops[k] = "waiting" /\ loops[l] = "waiting" => k = l
    /\ need_check /\ ~stop_timer => Live # {}

(***************************************************************************)
(* The inductive invariant behind the rules: the one check that is due is  *)
(* due before any connection in use is older than it may be, and whatever  *)
(* is ready to run is so at the time that made it ready.                   *)
(***************************************************************************)
ExpiryInv ==
    /\ check_duration \in Intervals \cup {DefaultInterval}
    /\ Stamped
    /\ Served
    /\ LoopsInTime
    /\ CheckDue
    /\ OneWaits
    /\ ReapedInTime
=============================================================================
