--------------------------- MODULE RpcExpiryProofs ---------------------------
(***************************************************************************)
(* The rules of connection expiry hold for any connections, ages,          *)
(* intervals and number of calls of set_conn_max_age().                    *)
(***************************************************************************)
EXTENDS RpcExpiry, FiniteSetTheorems, TLAPS

USE DEF confVars, timerVars, connVars, runVars

\* The longest interval is one of the intervals, and none is longer.
LEMMA LongestIsBound ==
    /\ LongestInterval \in Nat
    /\ \A i \in Intervals \cup {DefaultInterval} : i \in Nat /\ i <= LongestInterval
<1>1. LongestInterval \in Intervals \cup {DefaultInterval}
      /\ \A j \in Intervals \cup {DefaultInterval} : j <= LongestInterval
  BY ExpiryAssumption DEF LongestInterval
<1> QED BY <1>1, ExpiryAssumption

\* The number of coroutines started is a number.
LEMMA SetsType == Sets \in Nat
<1>1. IsFiniteSet(Loop)
  BY ExpiryAssumption, FS_Interval DEF Loop
<1>2. IsFiniteSet({l \in Loop : loops[l] # "none"})
  BY <1>1, FS_Subset
<1> QED BY <1>2, FS_CardinalityType DEF Sets

\* Initially nothing runs and no age is set.
LEMMA InitInv == Init => TypeOK /\ ExpiryInv
<1> SUFFICES ASSUME Init PROVE TypeOK /\ ExpiryInv
  OBVIOUS
<1> USE ExpiryAssumption, LongestIsBound DEF Init
<1>1. TypeOK
  <2>1. loops \in [Loop -> {"none", "spawned", "waiting", "expired", "done"}]
    OBVIOUS
  <2>2. pc \in [Conn -> {"none", "reaped", "gone"} \cup InUse]
    OBVIOUS
  <2>3. checkout_timeout \in [Conn -> BOOLEAN]
    OBVIOUS
  <2>4. {started, need_check, stop_timer} \subseteq BOOLEAN
    BY Zenon
  <2>5. now \in Time /\ last_rwtime \in [Conn -> Time] /\ begun \in [Conn -> Time]
        /\ configured \in Time /\ stopped \in Time
    BY DEF Time
  <2> QED BY <2>1, <2>2, <2>3, <2>4, <2>5 DEF TypeOK
<1>2. Stamped /\ Served /\ LoopsInTime /\ CheckDue /\ ReapedInTime
  BY DEF Stamped, Served, LoopsInTime, CheckDue, ReapedInTime, InUse, Reading
<1>3. OneWaits
  BY DEF OneWaits
<1> QED BY <1>1, <1>2, <1>3 DEF ExpiryInv

-----------------------------------------------------------------------------
(* Types *)

\* Every step keeps the types of the variables.
LEMMA NextType == TypeOK /\ ExpiryInv /\ [Next]_vars => TypeOK'
<1> SUFFICES ASSUME TypeOK, check_duration \in Intervals \cup {DefaultInterval},
                    [Next]_vars
             PROVE  TypeOK'
  BY DEF ExpiryInv
<1> USE ExpiryAssumption DEF TypeOK, Time, InUse, Reading
<1>1. ASSUME NEW d \in Ages, SetConnMaxAge(d) PROVE TypeOK'
  BY <1>1, SetsType DEF SetConnMaxAge
<1>2. ASSUME NEW d \in Intervals, SetCheckConnInterval(d) PROVE TypeOK'
  BY <1>2 DEF SetCheckConnInterval
<1>3. CASE Start
  BY <1>3 DEF Start
<1>4. CASE Stop
  BY <1>4 DEF Stop
<1>5. ASSUME NEW l \in Loop, LoopBegin(l) PROVE TypeOK'
  BY <1>5 DEF LoopBegin, ExpiresAfter
<1>6. ASSUME NEW l \in Loop, TimerExpires(l) PROVE TypeOK'
  BY <1>6 DEF TimerExpires
<1>7. ASSUME NEW l \in Loop, LoopEnd(l) PROVE TypeOK'
  BY <1>7 DEF LoopEnd
<1>8. ASSUME NEW l \in Loop, Check(l) PROVE TypeOK'
  BY <1>8 DEF Check, ExpiresAfter
<1>9. ASSUME NEW c \in Conn, Accept(c) PROVE TypeOK'
  BY <1>9 DEF Accept
<1>10. ASSUME NEW c \in Conn, NEW from \in InUse, NEW to \in InUse,
              Transfer(c, from, to)
       PROVE  TypeOK'
  BY <1>10 DEF Transfer, Begin
<1>11. ASSUME NEW c \in Conn, Handle(c) \/ Gone(c) PROVE TypeOK'
  BY <1>11 DEF Handle, Gone
<1>12. ASSUME NEW c \in Conn, LateWrite(c) PROVE TypeOK'
  BY <1>12 DEF LateWrite, Begin
<1>13. CASE Tick
  BY <1>13 DEF Tick
<1>14. CASE UNCHANGED vars
  BY <1>14 DEF vars
<1>15. ASSUME NEW c \in Conn, Connection(c) PROVE TypeOK'
  BY <1>9, <1>10, <1>11, <1>12, <1>15 DEF Connection
<1>16. ASSUME NEW l \in Loop, CheckTimer(l) PROVE TypeOK'
  BY <1>5, <1>6, <1>7, <1>8, <1>16 DEF CheckTimer
<1>17. CASE Configure
  BY <1>1, <1>2, <1>3, <1>4, <1>17 DEF Configure
<1> QED BY <1>13, <1>14, <1>15, <1>16, <1>17 DEF Next

-----------------------------------------------------------------------------
(* The inductive invariant *)

USE DEF InUse, Reading, Time

\* Configuration, start and stop: a new age or a start counts from now.
LEMMA ConfigureStep == TypeOK /\ ExpiryInv /\ Configure => ExpiryInv'
<1> SUFFICES ASSUME TypeOK, ExpiryInv, Configure PROVE ExpiryInv'
  OBVIOUS
<1> USE ExpiryAssumption, LongestIsBound DEF TypeOK, ExpiryInv
<1>1. ASSUME NEW d \in Ages, SetConnMaxAge(d) PROVE ExpiryInv'
  <2> USE <1>1 DEF SetConnMaxAge
  <2>1. Sets + 1 \in Loop
    BY SetsType DEF Loop
  <2>2. Stamped' /\ Served'
    BY DEF Stamped, Served
  <2>3. LoopsInTime'
    BY <2>1 DEF LoopsInTime, Served
  <2>4. \A l \in Loop : loops'[l] = "waiting" => loops[l] = "waiting"
    BY <2>1
  <2>5. CheckDue'
    BY <2>4 DEF CheckDue, Later, Served, Stamped
  <2>6. OneWaits'
    <3>1. (Sets + 1) \in Live'
      BY <2>1 DEF Live
    <3> QED BY <2>4, <3>1 DEF OneWaits
  <2>7. ReapedInTime'
    BY DEF ReapedInTime, Later, Served, Stamped
  <2> QED BY <2>2, <2>3, <2>5, <2>6, <2>7
<1>2. ASSUME NEW d \in Intervals, SetCheckConnInterval(d) PROVE ExpiryInv'
  BY <1>2 DEF SetCheckConnInterval, Stamped, Served, LoopsInTime, CheckDue, OneWaits,
              ReapedInTime, Live, Later
<1>3. CASE Start
  <2> USE <1>3 DEF Start
  <2>1. Stamped' /\ Served'
    BY DEF Stamped, Served
  <2>2. \A l \in Loop : loops[l] # "waiting"
    BY DEF Served
  <2>3. LoopsInTime' /\ CheckDue'
    BY <2>2 DEF LoopsInTime, CheckDue, Served
  <2>4. OneWaits' /\ ReapedInTime'
    BY DEF OneWaits, ReapedInTime, Live, Served
  <2> QED BY <2>1, <2>3, <2>4
<1>4. CASE Stop
  <2> USE <1>4 DEF Stop
  <2>1. Stamped' /\ Served'
    BY DEF Stamped, Served
  <2>2. LoopsInTime' /\ CheckDue'
    BY DEF LoopsInTime, CheckDue
  <2>3. OneWaits' /\ ReapedInTime'
    BY DEF OneWaits, ReapedInTime
  <2> QED BY <2>1, <2>2, <2>3
<1> QED BY <1>1, <1>2, <1>3, <1>4 DEF Configure

\* What expires_after() leaves: one coroutine waits, none was woken.
LEMMA ExpiresAfterStep ==
    ASSUME TypeOK, ExpiryInv, NEW l \in Loop, ExpiresAfter(l),
           UNCHANGED <<need_check, stop_timer>>
    PROVE  /\ expiry' <= now + LongestInterval /\ now <= expiry'
           /\ \A k \in Loop : /\ loops'[k] = "waiting" => k = l
                              /\ loops'[k] \in {"spawned", "expired"} => loops'[k] = loops[k]
                              /\ loops'[k] = "none" => loops[k] = "none"
           /\ OneWaits'
<1> USE ExpiryAssumption, LongestIsBound DEF TypeOK, ExpiryInv, ExpiresAfter
<1>1. l \in Live'
  BY DEF Live
<1>2. \A k \in Loop : loops'[k] = "waiting" => k = l
  OBVIOUS
<1> QED BY <1>1, <1>2 DEF OneWaits

\* A round of the timer: the check leaves no connection too old.
LEMMA CheckTimerStep ==
    ASSUME TypeOK, ExpiryInv, NEW l \in Loop, CheckTimer(l)
    PROVE  ExpiryInv'
<1> USE ExpiryAssumption, LongestIsBound DEF TypeOK, ExpiryInv
<1>1. CASE LoopBegin(l)
  <2> USE <1>1 DEF LoopBegin
  <2>1. ExpiresAfter(l)
    OBVIOUS
  <2> USE ExpiresAfterStep
  <2>2. now = configured /\ started
    BY DEF LoopsInTime
  <2>3. Stamped' /\ Served' /\ LoopsInTime'
    BY <2>1, <2>2 DEF Stamped, Served, LoopsInTime
  <2>4. CheckDue'
    <3>1. expiry' <= now + LongestInterval
      BY <2>1
    <3>2. stop_timer => now = stopped
      BY <2>2 DEF Served
    <3> SUFFICES ASSUME NEW c \in Conn
                 PROVE  expiry' <= Later(begun[c], configured) + timeout_duration
                                     + LongestInterval
      BY <3>1, <3>2 DEF CheckDue, Later
    <3> QED BY <2>2, <3>1, ExpiresAfterStep DEF Later, ExpiresAfter
  <2>5. ReapedInTime'
    BY DEF ReapedInTime, Later
  <2> QED BY <2>1, <2>3, <2>4, <2>5
<1>2. CASE TimerExpires(l)
  <2> USE <1>2 DEF TimerExpires
  <2>1. \A k \in Loop : loops'[k] # loops[k] => k = l /\ loops'[k] = "expired"
    OBVIOUS
  <2>2. Stamped' /\ Served'
    BY DEF Stamped, Served
  <2>3. LoopsInTime' /\ CheckDue'
    BY <2>1 DEF LoopsInTime, CheckDue, Later
  <2>4. OneWaits'
    <3>1. l \in Live'
      BY DEF Live
    <3> QED BY <2>1, <3>1 DEF OneWaits
  <2>5. ReapedInTime'
    BY DEF ReapedInTime, Later
  <2> QED BY <2>2, <2>3, <2>4, <2>5
<1>3. CASE LoopEnd(l)
  BY <1>3 DEF LoopEnd, MustStop, Stamped, Served, LoopsInTime, CheckDue, OneWaits,
              ReapedInTime, Later
<1>4. CASE Check(l)
  <2> USE <1>4 DEF Check, MustStop
  <2>1. ExpiresAfter(l)
    OBVIOUS
  <2> USE ExpiresAfterStep
  <2>2. \A c \in Conn : pc'[c] \in InUse => pc[c] \in InUse /\ now <= begun[c] + timeout_duration
    BY DEF TooOld, Stamped
  <2>3. Stamped' /\ Served' /\ LoopsInTime'
    BY <2>1, <2>2 DEF Stamped, Served, LoopsInTime
  <2>4. CheckDue'
    <3>1. expiry' <= now + LongestInterval
      BY <2>1
    <3> SUFFICES ASSUME NEW c \in Conn, pc'[c] \in InUse
                 PROVE  expiry' <= Later(begun[c], configured) + timeout_duration
                                     + LongestInterval
      BY <3>1 DEF CheckDue, Later
    <3> QED BY <2>2, <3>1 DEF Later, ExpiresAfter
  <2>5. ReapedInTime'
    BY <2>2 DEF ReapedInTime, Later
  <2> QED BY <2>1, <2>3, <2>4, <2>5
<1> QED BY <1>1, <1>2, <1>3, <1>4 DEF CheckTimer

\* A connection's own steps: what it begins is never in the past.
LEMMA ConnectionStep ==
    ASSUME TypeOK, ExpiryInv, NEW c \in Conn, Connection(c)
    PROVE  ExpiryInv'
<1> USE ExpiryAssumption, LongestIsBound DEF TypeOK, ExpiryInv
<1>1. ASSUME UNCHANGED <<now, confVars, timerVars, runVars>>,
             \A d \in Conn : /\ begun'[d] = begun[d] \/ begun'[d] = now
                             /\ pc'[d] \in InUse /\ pc[d] \notin InUse =>
                                  begun'[d] = now /\ started /\ ~stop_timer,
             Stamped'
      PROVE  ExpiryInv'
  <2>1. \A d \in Conn : begun[d] <= begun'[d] /\ begun'[d] \in Nat
    BY <1>1 DEF Stamped
  <2>2. Served' /\ LoopsInTime' /\ OneWaits'
    BY <1>1 DEF Served, LoopsInTime, OneWaits, Live
  <2>3. CheckDue'
    BY <1>1, <2>1 DEF CheckDue, Later, Served
  <2>4. ReapedInTime'
    BY <1>1, <2>1 DEF ReapedInTime, Later, Served
  <2> QED BY <1>1, <2>2, <2>3, <2>4
<1>2. CASE Accept(c)
  BY <1>1, <1>2 DEF Accept, Stamped
<1>3. ASSUME NEW from \in InUse, NEW to \in InUse, Transfer(c, from, to) PROVE ExpiryInv'
  BY <1>1, <1>3 DEF Transfer, Begin, Stamped
<1>4. CASE Handle(c) \/ Gone(c)
  BY <1>1, <1>4 DEF Handle, Gone, Stamped
<1>5. CASE LateWrite(c)
  BY <1>1, <1>5 DEF LateWrite, Begin, Stamped
<1> QED BY <1>2, <1>3, <1>4, <1>5 DEF Connection

\* The clock only goes on while a check is due later than now.
LEMMA TickStep == TypeOK /\ ExpiryInv /\ Tick => ExpiryInv'
<1> SUFFICES ASSUME TypeOK, ExpiryInv, Tick PROVE ExpiryInv'
  OBVIOUS
<1> USE ExpiryAssumption, LongestIsBound DEF TypeOK, ExpiryInv, Tick
<1>1. Stamped' /\ Served' /\ OneWaits'
  BY DEF Stamped, Served, OneWaits, Live
<1>2. LoopsInTime' /\ CheckDue'
  BY DEF LoopsInTime, CheckDue, Ready, Later
<1>3. ReapedInTime'
  <2> SUFFICES ASSUME NEW c \in Conn, pc[c] \in InUse, need_check
               PROVE  (now + 1) - Later(begun[c], configured)
                          <= timeout_duration + LongestInterval
    BY DEF ReapedInTime, Later
  <2>1. started /\ ~stop_timer
    BY DEF Served
  <2>2. PICK l \in Loop : loops[l] \in {"spawned", "waiting", "expired"}
    BY <2>1 DEF OneWaits, Live
  <2>3. loops[l] = "waiting" /\ now < expiry
    BY <2>1, <2>2 DEF Ready
  <2>4. expiry <= Later(begun[c], configured) + timeout_duration + LongestInterval
    BY <2>3 DEF CheckDue
  <2> QED BY <2>3, <2>4 DEF Later
<1> QED BY <1>1, <1>2, <1>3

\* The invariant holds in every reachable state.
LEMMA InvHolds == Spec => [](TypeOK /\ ExpiryInv)
<1>1. TypeOK /\ ExpiryInv /\ [Next]_vars => ExpiryInv'
  <2> SUFFICES ASSUME TypeOK, ExpiryInv, [Next]_vars PROVE ExpiryInv'
    OBVIOUS
  <2>1. CASE UNCHANGED vars
    BY <2>1 DEF vars, ExpiryInv, Stamped, Served, LoopsInTime, CheckDue, OneWaits,
                ReapedInTime, Later, Live
  <2> QED BY <2>1, ConfigureStep, CheckTimerStep, ConnectionStep, TickStep DEF Next
<1> QED BY InitInv, NextType, <1>1, PTL DEF Spec

-----------------------------------------------------------------------------
(* The rules *)

(***************************************************************************)
(* The waits on the timer, its expiry and the ages of the connections stay *)
(* within the bounds that the rules below need, for any settings, made at  *)
(* any time.                                                               *)
(***************************************************************************)
THEOREM ExpiryInvHolds == Spec => []ExpiryInv
  BY InvHolds, PTL

(***************************************************************************)
(* One coroutine of start_check_timer() is left and never do two wait, for *)
(* any number of calls of set_conn_max_age() at any time.                  *)
(***************************************************************************)
THEOREM OneCheckLoopHolds == Spec => []OneCheckLoop
<1>1. OneWaits => OneCheckLoop
  <2> SUFFICES ASSUME OneWaits PROVE OneCheckLoop
    OBVIOUS
  <2> DEFINE W == {l \in Loop : loops[l] = "waiting"}
  <2>1. Cardinality(W) <= 1
    <3>1. CASE W = {}
      BY <3>1, FS_EmptySet
    <3>2. CASE W # {}
      <4>1. PICK l : W = {l}
        BY <3>2 DEF OneWaits
      <4> QED BY <4>1, FS_Singleton
    <3> QED BY <3>1, <3>2
  <2> QED BY <2>1 DEF OneWaits, OneCheckLoop
<1> QED BY InvHolds, <1>1, PTL DEF ExpiryInv

(***************************************************************************)
(* An idle connection is dropped within the maximum age and one interval,  *)
(* whatever is set when.                                                   *)
(***************************************************************************)
THEOREM ReapedInTimeHolds == Spec => []ReapedInTime
  BY InvHolds, PTL DEF ExpiryInv

(***************************************************************************)
(* stop() waits for the check timer for one interval at most.              *)
(***************************************************************************)
THEOREM StopBoundedHolds == Spec => []StopBounded
<1>1. TypeOK /\ ExpiryInv => StopBounded
  <2> SUFFICES ASSUME TypeOK, ExpiryInv, stop_timer, NEW l \in Live
               PROVE  now - stopped <= LongestInterval
    BY DEF StopBounded
  <2> USE LongestIsBound DEF TypeOK, ExpiryInv, Live
  <2>1. CASE loops[l] = "spawned"
    BY <2>1 DEF LoopsInTime, Served
  <2>2. CASE loops[l] = "waiting"
    BY <2>2 DEF LoopsInTime, CheckDue
  <2>3. CASE loops[l] = "expired"
    BY <2>3 DEF LoopsInTime
  <2> QED BY <2>1, <2>2, <2>3
<1> QED BY InvHolds, <1>1, PTL

(***************************************************************************)
(* check_timeout() drops no connection that began a read or a write within *)
(* the maximum age, but for those that take no time stamps.                *)
(***************************************************************************)
THEOREM KeptWhileActiveHolds == Spec => KeptWhileActive
<1> DEFINE Kept == \A c \in Conn : pc[c] # "reaped" /\ pc'[c] = "reaped"
                      => now - begun[c] > timeout_duration \/ ~checkout_timeout[c]
<1>1. TypeOK /\ ExpiryInv /\ [Next]_vars => [Kept]_vars
  <2> SUFFICES ASSUME TypeOK, ExpiryInv, Next,
                      NEW c \in Conn, pc[c] # "reaped", pc'[c] = "reaped"
               PROVE  now - begun[c] > timeout_duration \/ ~checkout_timeout[c]
    OBVIOUS
  <2>1. \E l \in Loop : Check(l)
    BY DEF Next, Configure, SetConnMaxAge, SetCheckConnInterval, Start, Stop,
           CheckTimer, LoopBegin, TimerExpires, LoopEnd, Connection, Accept,
           Transfer, Handle, LateWrite, Gone, Tick, TypeOK
  <2>2. TooOld(c)
    BY <2>1 DEF Check, TypeOK
  <2> QED BY <2>2 DEF TooOld, ExpiryInv, Stamped
<1> QED BY InvHolds, <1>1, PTL DEF Spec, KeptWhileActive
=============================================================================
