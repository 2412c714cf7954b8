----------------------- MODULE ConnectionManagerProofs -----------------------
(* Proofs about ConnectionManager, for any number of concurrent calls and   *)
(* any retry bound.                                                         *)
EXTENDS ConnectionManager, TLAPS

LEMMA InitTypeOK == Init => TypeOK
<1> SUFFICES ASSUME Init PROVE TypeOK
  OBVIOUS
<1>1. entry \in [status : {"none", "connecting", "connected"}, waiters : SUBSET Task,
                 conn : Task \cup {None}, recent : BOOLEAN]
  BY DEF Init, Absent
<1>2. /\ retries \in [Task -> 0..MaxRetries]
      /\ keepers \in [Task -> Nat]
  BY ManagerAssumption DEF Init
<1>3. /\ pc \in [Task -> {"idle", "connect", "dial", "backoff", "get_wait", "inner_wait",
                          "publish", "fail", "done"}]
      /\ rx \in [Task -> Task \cup {None, "canceled"}]
      /\ conn \in [Task -> Task \cup {None}]
      /\ result \in [Task -> {"ok", "canceled", "error", "dropped", None}]
  BY DEF Init
<1> QED BY <1>1, <1>2, <1>3 DEF Init, TypeOK

LEMMA NextTypeOK == TypeOK /\ [Next]_vars => TypeOK'
<1> SUFFICES ASSUME TypeOK, [Next]_vars PROVE TypeOK'
  OBVIOUS
<1> USE ManagerAssumption DEF TypeOK, Goto, Return
<1>1. ASSUME NEW t \in Task, GetConnection(t) PROVE TypeOK'
  <2>1. CASE entry.status = "connected" /\ entry.conn \in valid
    <3>1. /\ entry' = [entry EXCEPT !.recent = TRUE]
          /\ conn' = [conn EXCEPT ![t] = entry.conn]
          /\ Return(t, "ok")
          /\ UNCHANGED <<rx, retries, valid, keepers, pinging, failed>>
      BY <1>1, <2>1 DEF GetConnection
    <3>2. entry' \in [status : {"none", "connecting", "connected"}, waiters : SUBSET Task,
                      conn : Task \cup {None}, recent : BOOLEAN]
      BY <3>1
    <3> QED BY <3>1, <3>2
  <2>2. CASE entry.status = "connecting"
    BY <1>1, <2>2 DEF GetConnection
  <2>3. CASE entry.status # "connecting" /\ ~(entry.status = "connected" /\ entry.conn \in valid)
    BY <1>1, <2>3 DEF GetConnection
  <2> QED BY <2>1, <2>2, <2>3
<1>2. ASSUME NEW t \in Task, ConnectInner(t) PROVE TypeOK'
  <2> DEFINE E == [status : {"none", "connecting", "connected"}, waiters : SUBSET Task,
                   conn : Task \cup {None}, recent : BOOLEAN]
  <2>1. \A w \in SUBSET Task : Connecting(w) \in E
    BY DEF Connecting
  <2>2. entry.waiters \cup {t} \in SUBSET Task
    OBVIOUS
  <2>3. entry' \in E
    BY <1>2, <2>1, <2>2 DEF ConnectInner
  <2> QED BY <1>2, <2>3 DEF ConnectInner
<1>3. ASSUME NEW t \in Task, DialOk(t) PROVE TypeOK'
  BY <1>3 DEF DialOk, Obtain, LeaveLoop
<1>4. ASSUME NEW t \in Task, DialRetry(t) PROVE TypeOK'
  BY <1>4 DEF DialRetry, LeaveLoop
<1>5. ASSUME NEW t \in Task, DialFatal(t) PROVE TypeOK'
  BY <1>5 DEF DialFatal, LeaveLoop
<1>6. ASSUME NEW t \in Task, Backoff(t) PROVE TypeOK'
  BY <1>6 DEF Backoff
<1>7. ASSUME NEW t \in Task, WakeGet(t) PROVE TypeOK'
  BY <1>7 DEF WakeGet
<1>8. ASSUME NEW t \in Task, WakeInner(t) PROVE TypeOK'
  BY <1>8 DEF WakeInner, Obtain
<1>9. ASSUME NEW t \in Task, Fail(t) PROVE TypeOK'
  BY <1>9 DEF Fail, Notify, Absent
<1>10. ASSUME NEW t \in Task, Publish(t) PROVE TypeOK'
  BY <1>10 DEF Publish, Notify, Connected
<1>11. ASSUME NEW t \in Task, Cancel(t) PROVE TypeOK'
  BY <1>11 DEF Cancel, LeaveLoop
<1>12. ASSUME NEW t \in Task, Release(t) PROVE TypeOK'
  BY <1>12 DEF Release
<1>13. ASSUME NEW c \in Task, KeepAlive(c) PROVE TypeOK'
  BY <1>13 DEF KeepAlive
<1>14. ASSUME NEW c \in Task, PingReturns(c) \/ Breaks(c) PROVE TypeOK'
  BY <1>14 DEF PingReturns, Breaks
<1>15. CASE IdleTooLong
  BY <1>15 DEF IdleTooLong
<1>16. CASE CheckConnections
  BY <1>16 DEF CheckConnections, Absent
<1>17. CASE UNCHANGED vars
  BY <1>17 DEF vars
<1> QED
  BY <1>1, <1>2, <1>3, <1>4, <1>5, <1>6, <1>7, <1>8, <1>9, <1>10, <1>11, <1>12, <1>13,
     <1>14, <1>15, <1>16, <1>17 DEF Next, Progress

\* The cache entry and the calls keep their types.
THEOREM TypeCorrect == Spec => []TypeOK
BY InitTypeOK, NextTypeOK, PTL DEF Spec
-----------------------------------------------------------------------------
(* WaitersListed is inductive: whoever takes the entry away notifies its     *)
(* whole list in the same critical section.                                  *)

LEMMA NextWaitersListed ==
    ASSUME TypeOK, PublishersHold, WaitersListed, [Next]_vars
    PROVE  WaitersListed'
<1> USE ManagerAssumption DEF TypeOK, WaitersListed, Waiting, Goto, Return
<1>1. ASSUME NEW t \in Task, GetConnection(t) PROVE WaitersListed'
  <2>1. CASE entry.status = "connected" /\ entry.conn \in valid
    BY <1>1, <2>1 DEF GetConnection
  <2>2. CASE entry.status = "connecting"
    BY <1>1, <2>2 DEF GetConnection
  <2>3. CASE entry.status # "connecting" /\ ~(entry.status = "connected" /\ entry.conn \in valid)
    BY <1>1, <2>3 DEF GetConnection
  <2> QED BY <2>1, <2>2, <2>3
<1>2. ASSUME NEW t \in Task, ConnectInner(t) PROVE WaitersListed'
  BY <1>2 DEF ConnectInner, Connecting
<1>3. ASSUME NEW t \in Task, DialOk(t) \/ DialRetry(t) \/ DialFatal(t) \/ Backoff(t)
      PROVE  WaitersListed'
  BY <1>3 DEF DialOk, Obtain, DialRetry, DialFatal, Backoff
<1>4. ASSUME NEW t \in Task, WakeGet(t) \/ WakeInner(t) PROVE WaitersListed'
  BY <1>4 DEF WakeGet, WakeInner, Obtain
<1>5. ASSUME NEW t \in Task, Fail(t) PROVE WaitersListed'
  <2>1. \A u \in Task : rx'[u] = None => ~(u \in entry.waiters /\ pc[u] \in {"get_wait", "inner_wait"})
    BY <1>5 DEF Fail, Notify
  <2>2. ASSUME NEW u \in Task, Waiting(u)' PROVE FALSE
    <3>1. pc[u] \in {"get_wait", "inner_wait"} /\ u # t
      BY <1>5, <2>2 DEF Fail
    <3>2. rx[u] = None
      BY <1>5, <2>1, <2>2, <3>1 DEF Fail, Notify
    <3> QED BY <2>1, <2>2, <3>1, <3>2
  <2> QED BY <2>2
<1>6. ASSUME NEW t \in Task, Publish(t) PROVE WaitersListed'
  <2>1. \A u \in Task : rx'[u] = None => ~(u \in entry.waiters /\ pc[u] \in {"get_wait", "inner_wait"})
    BY <1>6 DEF Publish, Notify, PublishersHold
  <2>2. ASSUME NEW u \in Task, Waiting(u)' PROVE FALSE
    <3>1. pc[u] \in {"get_wait", "inner_wait"} /\ u # t
      BY <1>6, <2>2 DEF Publish
    <3>2. rx[u] = None
      BY <1>6, <2>1, <2>2, <3>1 DEF Publish, Notify
    <3> QED BY <2>1, <2>2, <3>1, <3>2
  <2> QED BY <2>2
<1>7. ASSUME NEW t \in Task, Cancel(t) \/ Release(t) PROVE WaitersListed'
  BY <1>7 DEF Cancel, Release
<1>8. ASSUME NEW c \in Task, KeepAlive(c) \/ PingReturns(c) \/ Breaks(c) PROVE WaitersListed'
  BY <1>8 DEF KeepAlive, PingReturns, Breaks
<1>9. CASE IdleTooLong \/ CheckConnections
  BY <1>9 DEF IdleTooLong, CheckConnections, Absent
<1>10. CASE UNCHANGED vars
  BY <1>10 DEF vars
<1> QED
  BY <1>1, <1>2, <1>3, <1>4, <1>5, <1>6, <1>7, <1>8, <1>9, <1>10 DEF Next, Progress

LEMMA NextPublishersHold ==
    ASSUME TypeOK, PublishersHold, [Next]_vars
    PROVE  PublishersHold'
<1> USE ManagerAssumption DEF TypeOK, PublishersHold, Goto, Return
<1>1. ASSUME NEW t \in Task, GetConnection(t) PROVE PublishersHold'
  <2>1. CASE entry.status = "connected" /\ entry.conn \in valid
    BY <1>1, <2>1 DEF GetConnection
  <2>2. CASE ~(entry.status = "connected" /\ entry.conn \in valid)
    BY <1>1, <2>2 DEF GetConnection
  <2> QED BY <2>1, <2>2
<1>2. ASSUME NEW t \in Task, ConnectInner(t) \/ DialRetry(t) \/ DialFatal(t) \/ Backoff(t)
      PROVE  PublishersHold'
  BY <1>2 DEF ConnectInner, DialRetry, DialFatal, Backoff
<1>3. ASSUME NEW t \in Task, DialOk(t) \/ WakeInner(t) PROVE PublishersHold'
  BY <1>3 DEF DialOk, WakeInner, Obtain
<1>4. ASSUME NEW t \in Task, WakeGet(t) \/ Fail(t) \/ Publish(t) PROVE PublishersHold'
  BY <1>4 DEF WakeGet, Fail, Publish
<1>5. ASSUME NEW t \in Task, Cancel(t) \/ Release(t) PROVE PublishersHold'
  BY <1>5 DEF Cancel, Release
<1>6. CASE \/ \E c \in Task : KeepAlive(c) \/ PingReturns(c) \/ Breaks(c)
           \/ IdleTooLong \/ CheckConnections \/ UNCHANGED vars
  BY <1>6 DEF KeepAlive, PingReturns, Breaks, IdleTooLong, CheckConnections, vars
<1> QED BY <1>1, <1>2, <1>3, <1>4, <1>5, <1>6 DEF Next, Progress

\* No waiter is ever forgotten by connect or check_connections, even when
\* callers drop their futures.
THEOREM WaitersAlwaysListed == Spec => []WaitersListed
<1> DEFINE Inv == TypeOK /\ PublishersHold /\ WaitersListed
<1>1. Init => Inv
  BY InitTypeOK DEF Init, PublishersHold, WaitersListed, Waiting
<1>2. Inv /\ [Next]_vars => Inv'
  BY NextTypeOK, NextPublishersHold, NextWaitersListed
<1> QED BY <1>1, <1>2, PTL DEF Spec
-----------------------------------------------------------------------------
(* ConnectingIsLed is inductive too: the call that inserted the entry works  *)
(* until it clears whatever entry it then finds, or its caller drops it, and *)
(* a result once returned stays.                                             *)

LEMMA NextDroppedAreDone ==
    ASSUME TypeOK, DroppedAreDone, [Next]_vars
    PROVE  DroppedAreDone' /\ (Abandoned => Abandoned')
<1> USE ManagerAssumption DEF TypeOK, DroppedAreDone, Abandoned, Goto, Return
<1>1. ASSUME NEW t \in Task, pc[t] # "done",
             \/ Goto(t, "connect") \/ Goto(t, "get_wait") \/ Goto(t, "inner_wait")
             \/ Goto(t, "dial") \/ Goto(t, "backoff") \/ Goto(t, "publish") \/ Goto(t, "fail"),
             result' = result
      PROVE  DroppedAreDone' /\ (Abandoned => Abandoned')
  BY <1>1
<1>2. ASSUME NEW t \in Task, pc[t] # "done", NEW r, Return(t, r)
      PROVE  DroppedAreDone' /\ (Abandoned => Abandoned')
  BY <1>2
<1>3. CASE pc' = pc /\ result' = result
  BY <1>3
<1> HIDE DEF DroppedAreDone, Abandoned, Goto, Return
<1>4. ASSUME NEW t \in Task, GetConnection(t) PROVE DroppedAreDone' /\ (Abandoned => Abandoned')
  <2>1. CASE entry.status = "connected" /\ entry.conn \in valid
    BY <1>4, <1>2, <2>1 DEF GetConnection
  <2>2. CASE entry.status = "connecting"
    BY <1>4, <1>1, <2>2 DEF GetConnection
  <2>3. CASE entry.status # "connecting" /\ ~(entry.status = "connected" /\ entry.conn \in valid)
    BY <1>4, <1>1, <2>3 DEF GetConnection
  <2> QED BY <2>1, <2>2, <2>3
<1>5. ASSUME NEW t \in Task,
             \/ ConnectInner(t) \/ DialOk(t) \/ DialRetry(t) \/ DialFatal(t)
             \/ Backoff(t) \/ WakeInner(t)
      PROVE  DroppedAreDone' /\ (Abandoned => Abandoned')
  BY <1>5, <1>1 DEF ConnectInner, DialOk, DialRetry, DialFatal, Backoff, WakeInner, Obtain
<1>6. ASSUME NEW t \in Task, WakeGet(t) \/ Fail(t) \/ Publish(t) \/ Cancel(t)
      PROVE  DroppedAreDone' /\ (Abandoned => Abandoned')
  BY <1>6, <1>2 DEF WakeGet, Fail, Publish, Cancel
<1>7. CASE \/ \E t \in Task : Release(t)
           \/ \E c \in Task : KeepAlive(c) \/ PingReturns(c) \/ Breaks(c)
           \/ IdleTooLong \/ CheckConnections \/ UNCHANGED vars
  BY <1>7, <1>3 DEF Release, KeepAlive, PingReturns, Breaks, IdleTooLong, CheckConnections, vars
<1> QED BY <1>4, <1>5, <1>6, <1>7 DEF Next, Progress

LEMMA NextLed ==
    ASSUME TypeOK, DroppedAreDone, ConnectingIsLed, [Next]_vars
    PROVE  ConnectingIsLed'
<1>0. Abandoned => Abandoned'
  BY NextDroppedAreDone
<1> USE <1>0, ManagerAssumption DEF TypeOK, ConnectingIsLed, Leading, Goto, Return
<1>1. ASSUME NEW t \in Task, GetConnection(t) PROVE ConnectingIsLed'
  <2>1. entry'.status = entry.status
    BY <1>1 DEF GetConnection
  <2>2. \A u \in Task : Leading(u) => Leading(u)'
    BY <1>1 DEF GetConnection
  <2> QED BY <2>1, <2>2
<1>2. ASSUME NEW t \in Task, ConnectInner(t) PROVE ConnectingIsLed'
  <2>1. CASE entry.status = "connecting" /\ entry.waiters # {}
    BY <1>2, <2>1 DEF ConnectInner
  <2>2. CASE ~(entry.status = "connecting" /\ entry.waiters # {})
    BY <1>2, <2>2 DEF ConnectInner
  <2> QED BY <2>1, <2>2
<1>3. ASSUME NEW t \in Task, DialOk(t) \/ DialRetry(t) \/ DialFatal(t) \/ Backoff(t)
      PROVE  ConnectingIsLed'
  <2>1. entry' = entry /\ Leading(t)'
    BY <1>3 DEF DialOk, Obtain, DialRetry, DialFatal, Backoff
  <2> QED BY <2>1
<1>4. ASSUME NEW t \in Task, WakeGet(t) \/ WakeInner(t) PROVE ConnectingIsLed'
  <2>1. entry' = entry /\ \A u \in Task : Leading(u) => Leading(u)'
    BY <1>4 DEF WakeGet, WakeInner, Obtain
  <2> QED BY <2>1
<1>5. ASSUME NEW t \in Task, Fail(t) \/ Publish(t) PROVE ConnectingIsLed'
  BY <1>5 DEF Fail, Publish, Absent, Connected
<1>6. ASSUME NEW t \in Task, Cancel(t) \/ Release(t) PROVE ConnectingIsLed'
  BY <1>6 DEF Cancel, Release, Abandoned
<1>7. CASE \/ \E c \in Task : KeepAlive(c) \/ PingReturns(c) \/ Breaks(c)
           \/ UNCHANGED vars
  BY <1>7 DEF KeepAlive, PingReturns, Breaks, vars
<1>8. CASE IdleTooLong \/ CheckConnections
  BY <1>8 DEF IdleTooLong, CheckConnections, Absent
<1> QED BY <1>1, <1>2, <1>3, <1>4, <1>5, <1>6, <1>7, <1>8 DEF Next, Progress

\* A Connecting entry always has a call at work that will clear it, unless a
\* caller dropped its future: connect's waiters do not get stuck.
THEOREM ConnectingAlwaysLed == Spec => []ConnectingIsLed
<1> DEFINE Inv == TypeOK /\ DroppedAreDone /\ ConnectingIsLed
<1>1. Init => Inv
  BY InitTypeOK, ManagerAssumption DEF Init, DroppedAreDone, ConnectingIsLed, Absent
<1>2. Inv /\ [Next]_vars => Inv'
  BY NextTypeOK, NextDroppedAreDone, NextLed
<1> QED BY <1>1, <1>2, PTL DEF Spec
-----------------------------------------------------------------------------
(* CanceledAfterFailure is inductive: only connect's failure hands out a     *)
(* cancellation, and what was noted as failed stays so.                      *)

LEMMA NextCanceledAfterFailure ==
    ASSUME TypeOK, CanceledAfterFailure, [Next]_vars
    PROVE  CanceledAfterFailure'
<1> USE ManagerAssumption DEF TypeOK, CanceledAfterFailure, Goto, Return
<1>1. ASSUME NEW t \in Task, GetConnection(t) PROVE CanceledAfterFailure'
  <2>1. rx' = rx /\ failed' = failed
    BY <1>1 DEF GetConnection
  <2>2. \A u \in Task : result'[u] = "canceled" => result[u] = "canceled"
    BY <1>1 DEF GetConnection
  <2> QED BY <2>1, <2>2
<1>2. ASSUME NEW t \in Task,
             \/ ConnectInner(t) \/ DialOk(t) \/ DialRetry(t) \/ DialFatal(t) \/ Backoff(t)
             \/ Release(t) \/ KeepAlive(t) \/ PingReturns(t) \/ Breaks(t)
             \/ IdleTooLong \/ CheckConnections \/ UNCHANGED vars
      PROVE  CanceledAfterFailure'
  BY <1>2 DEF ConnectInner, DialOk, Obtain, DialRetry, DialFatal, Backoff, Release, KeepAlive,
     PingReturns, Breaks, IdleTooLong, CheckConnections, vars
<1>3. ASSUME NEW t \in Task, WakeGet(t) PROVE CanceledAfterFailure'
  BY <1>3 DEF WakeGet
<1>4. ASSUME NEW t \in Task, WakeInner(t) PROVE CanceledAfterFailure'
  BY <1>4 DEF WakeInner, Obtain
<1>5. ASSUME NEW t \in Task, Fail(t) \/ Cancel(t) PROVE CanceledAfterFailure'
  BY <1>5 DEF Fail, Cancel
<1>6. ASSUME NEW t \in Task, Publish(t) PROVE CanceledAfterFailure'
  <2>1. conn[t] # "canceled" /\ failed' = failed
    BY <1>6 DEF Publish
  <2>2. \A u \in Task : rx'[u] = "canceled" => rx[u] = "canceled"
    BY <1>6, <2>1 DEF Publish, Notify
  <2>3. \A u \in Task : result'[u] = "canceled" => result[u] = "canceled"
    BY <1>6 DEF Publish
  <2> QED BY <2>1, <2>2, <2>3
<1>7. CASE Task = {}
  BY <1>7
<1> QED
  BY <1>1, <1>2, <1>3, <1>4, <1>5, <1>6, <1>7 DEF Next, Progress

LEMMA InitCanceledAfterFailure == Init => CanceledAfterFailure
BY ManagerAssumption DEF Init, CanceledAfterFailure

\* Success never cancels anybody: a call is told Canceled, or will be, only
\* after a call failed to connect or was dropped, for any number of calls.
THEOREM CanceledNeverByASuccess == Spec => []CanceledAfterFailure
<1>1. TypeOK /\ CanceledAfterFailure /\ [Next]_vars => CanceledAfterFailure'
  BY NextCanceledAfterFailure
<1> QED BY <1>1, InitCanceledAfterFailure, TypeCorrect, PTL DEF Spec
=============================================================================
