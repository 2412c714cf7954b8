-------------------------- MODULE ConnectionManager --------------------------
(***************************************************************************)
(* The connection cache of the client (src/connection_manager.rs) for one  *)
(* broker address: tasks that call get_connection concurrently, the status *)
(* entry they share under a lock, the keep-alive task of each connection   *)
(* and the periodic check_connections.  Entries of other addresses are     *)
(* independent.                                                            *)
(*                                                                         *)
(* A member of Task is one call of get_connection.  A call dials at most   *)
(* one connection, which is named after the call.  The lock is held for    *)
(* one step at a time; every await between two steps is an interleaving.   *)
(***************************************************************************)
EXTENDS Naturals, FiniteSets

CONSTANTS
    Task,        \* the calls of get_connection
    None,        \* no value
    MaxRetries   \* ConnectionRetryOptions::max_retries

ASSUME ManagerAssumption ==
    /\ MaxRetries \in Nat
    /\ None \notin Task \cup {"canceled", "dropped"}
    /\ "canceled" \notin Task

VARIABLES
    entry,     \* connections[broker]: status, waiters or connection, last_used
    pc,        \* where each call is
    rx,        \* its oneshot: None, a connection or "canceled"
    conn,      \* the Arc<Connection> it holds
    retries,   \* current_retries, 0 outside connect_inner's loop
    result,    \* what it returned
    valid,     \* connections whose error flag is not set
    keepers,   \* keep-alive tasks of each connection
    pinging,   \* connections a keep-alive holds while it waits for a pong
    failed     \* history: a dial or a caller gave up

vars == <<entry, pc, rx, conn, retries, result, valid, keepers, pinging, failed>>

\* ConnectionStatus.
Absent        == [status |-> "none", waiters |-> {}, conn |-> None, recent |-> FALSE]
Connecting(w) == [status |-> "connecting", waiters |-> w, conn |-> None, recent |-> FALSE]
Connected(c)  == [status |-> "connected", waiters |-> {}, conn |-> c, recent |-> TRUE]

Init ==
    /\ entry = Absent
    /\ pc = [t \in Task |-> "idle"]
    /\ rx = [t \in Task |-> None]
    /\ conn = [t \in Task |-> None]
    /\ retries = [t \in Task |-> 0]
    /\ result = [t \in Task |-> None]
    /\ valid = {}
    /\ keepers = [t \in Task |-> 0]
    /\ pinging = {}
    /\ failed = FALSE

Goto(t, l) == pc' = [pc EXCEPT ![t] = l]

Return(t, r) ==
    /\ pc' = [pc EXCEPT ![t] = "done"]
    /\ result' = [result EXCEPT ![t] = r]

\* Somebody besides the entry has an Arc of c: strong_count > 1.
Held(c) == c \in pinging \/ \E t \in Task : conn[t] = c \/ rx[t] = c
-----------------------------------------------------------------------------
(* get_connection, connect and connect_inner *)

\* The first look: a valid connection is returned, a pending one is waited for.
GetConnection(t) ==
    /\ pc[t] = "idle"
    /\ CASE entry.status = "connected" /\ entry.conn \in valid ->
                /\ entry' = [entry EXCEPT !.recent = TRUE]
                /\ conn' = [conn EXCEPT ![t] = entry.conn]
                /\ Return(t, "ok")
         [] entry.status = "connecting" ->
                /\ entry' = [entry EXCEPT !.waiters = @ \cup {t}]
                /\ Goto(t, "get_wait")
                /\ UNCHANGED <<conn, result>>
         [] OTHER ->
                Goto(t, "connect") /\ UNCHANGED <<entry, conn, result>>
    /\ UNCHANGED <<rx, retries, valid, keepers, pinging, failed>>

\* The second look, after the lock was released: the entry may have changed.
\* A pending entry nobody waits for is not told from the one just inserted.
ConnectInner(t) ==
    /\ pc[t] = "connect"
    /\ IF entry.status = "connecting" /\ entry.waiters # {}
       THEN entry' = Connecting(entry.waiters \cup {t}) /\ Goto(t, "inner_wait")
       ELSE /\ entry' = IF entry.status = "none" THEN Connecting({}) ELSE entry
            /\ Goto(t, "dial")
    /\ UNCHANGED <<rx, conn, retries, result, valid, keepers, pinging, failed>>

\* connect goes on with c: a keep-alive is spawned for it.
Obtain(t, c) ==
    /\ conn' = [conn EXCEPT ![t] = c]
    /\ keepers' = [keepers EXCEPT ![c] = @ + 1]
    /\ Goto(t, "publish")

LeaveLoop(t) == retries' = [retries EXCEPT ![t] = 0]

\* Connection::new succeeds.
DialOk(t) ==
    /\ pc[t] = "dial"
    /\ Obtain(t, t)
    /\ LeaveLoop(t)
    /\ valid' = valid \cup {t}
    /\ UNCHANGED <<entry, rx, result, pinging, failed>>

\* Mutants: one retry too many; no limit to the retries.
DialRetryOnceMore(t) ==
    /\ pc[t] = "dial"
    /\ IF retries[t] > MaxRetries
       THEN Goto(t, "fail") /\ LeaveLoop(t)
       ELSE Goto(t, "backoff") /\ retries' = [retries EXCEPT ![t] = @ + 1]
    /\ UNCHANGED <<entry, rx, conn, result, valid, keepers, pinging, failed>>

DialRetryForever(t) ==
    /\ pc[t] = "dial"
    /\ Goto(t, "backoff")
    /\ UNCHANGED <<entry, rx, conn, retries, result, valid, keepers, pinging, failed>>

\* It fails with an error that may be retried, max_retries times.
DialRetry(t) ==
    /\ pc[t] = "dial"
    /\ IF retries[t] >= MaxRetries
       THEN Goto(t, "fail") /\ LeaveLoop(t)
       ELSE Goto(t, "backoff") /\ retries' = [retries EXCEPT ![t] = @ + 1]
    /\ UNCHANGED <<entry, rx, conn, result, valid, keepers, pinging, failed>>

\* It fails with any other error.
DialFatal(t) ==
    /\ pc[t] = "dial"
    /\ Goto(t, "fail")
    /\ LeaveLoop(t)
    /\ UNCHANGED <<entry, rx, conn, result, valid, keepers, pinging, failed>>

\* The delay of current_backoff.
Backoff(t) ==
    /\ pc[t] = "backoff"
    /\ Goto(t, "dial")
    /\ UNCHANGED <<entry, rx, conn, retries, result, valid, keepers, pinging, failed>>

\* The oneshot of get_connection resolves: its value is the result.
WakeGet(t) ==
    /\ pc[t] = "get_wait" /\ rx[t] # None
    /\ Return(t, IF rx[t] = "canceled" THEN "canceled" ELSE "ok")
    /\ conn' = [conn EXCEPT ![t] = IF rx[t] = "canceled" THEN None ELSE rx[t]]
    /\ rx' = [rx EXCEPT ![t] = None]
    /\ UNCHANGED <<entry, retries, valid, keepers, pinging, failed>>

\* The oneshot of connect_inner resolves: connect treats its connection as
\* one it has dialed, and its error as a failure of its own.
WakeInner(t) ==
    /\ pc[t] = "inner_wait" /\ rx[t] # None
    /\ IF rx[t] = "canceled"
       THEN Goto(t, "fail") /\ UNCHANGED <<conn, keepers>>
       ELSE Obtain(t, rx[t])
    /\ rx' = [rx EXCEPT ![t] = None]
    /\ UNCHANGED <<entry, retries, result, valid, pinging, failed>>

\* The senders of a Connecting entry are used up; callers gone do not mind.
Notify(v) ==
    rx' = [t \in Task |->
             IF t \in entry.waiters /\ pc[t] \in {"get_wait", "inner_wait"} THEN v ELSE rx[t]]

\* Mutant: the waiters are told but the entry stays.
FailKeepsEntry(t) ==
    /\ pc[t] = "fail"
    /\ Notify("canceled")
    /\ Return(t, "error")
    /\ failed' = TRUE
    /\ UNCHANGED <<entry, conn, retries, valid, keepers, pinging>>

\* connect after an error: the entry is removed, whatever it is.
Fail(t) ==
    /\ pc[t] = "fail"
    /\ Notify("canceled")
    /\ entry' = Absent
    /\ Return(t, "error")
    /\ failed' = TRUE
    /\ UNCHANGED <<conn, retries, valid, keepers, pinging>>

\* connect after a success: the entry is replaced, whatever it is.
Publish(t) ==
    /\ pc[t] = "publish"
    /\ Notify(conn[t])
    /\ entry' = Connected(conn[t])
    /\ Return(t, "ok")
    /\ UNCHANGED <<conn, retries, valid, keepers, pinging, failed>>

\* The caller drops the future of its call at one of its awaits.
Cancel(t) ==
    /\ pc[t] \notin {"idle", "done"}
    /\ Return(t, "dropped")
    /\ LeaveLoop(t)
    /\ rx' = [rx EXCEPT ![t] = None]
    /\ conn' = [conn EXCEPT ![t] = None]
    /\ failed' = TRUE
    /\ UNCHANGED <<entry, valid, keepers, pinging>>

\* The caller is done with the connection.
Release(t) ==
    /\ pc[t] = "done" /\ conn[t] # None
    /\ conn' = [conn EXCEPT ![t] = None]
    /\ UNCHANGED <<entry, pc, rx, retries, result, valid, keepers, pinging, failed>>
-----------------------------------------------------------------------------
(* What happens to connections *)

\* The keep-alive's interval: it stops when the connection is gone or invalid.
KeepAlive(c) ==
    /\ keepers[c] > 0
    /\ IF c \in valid /\ (entry.conn = c \/ Held(c))
       THEN pinging' = pinging \cup {c} /\ UNCHANGED keepers
       ELSE keepers' = [keepers EXCEPT ![c] = @ - 1] /\ UNCHANGED pinging
    /\ UNCHANGED <<entry, pc, rx, conn, retries, result, valid, failed>>

PingReturns(c) ==
    /\ c \in pinging
    /\ pinging' = pinging \ {c}
    /\ UNCHANGED <<entry, pc, rx, conn, retries, result, valid, keepers, failed>>

\* The error flag is set (Connection).
Breaks(c) ==
    /\ c \in valid
    /\ valid' = valid \ {c}
    /\ UNCHANGED <<entry, pc, rx, conn, retries, result, keepers, pinging, failed>>

\* connection_max_idle passes since the connection was last asked for.
IdleTooLong ==
    /\ entry.recent
    /\ entry' = [entry EXCEPT !.recent = FALSE]
    /\ UNCHANGED <<pc, rx, conn, retries, result, valid, keepers, pinging, failed>>

\* Mutant: every entry without a live connection goes.
CheckConnectionsAll ==
    /\ entry.status # "none"
    /\ ~(entry.conn \in valid /\ (Held(entry.conn) \/ entry.recent))
    /\ entry' = Absent
    /\ UNCHANGED <<pc, rx, conn, retries, result, valid, keepers, pinging, failed>>

\* check_connections: retain.
CheckConnections ==
    /\ entry.status = "connected"
    /\ ~(entry.conn \in valid /\ (Held(entry.conn) \/ entry.recent))
    /\ entry' = Absent
    /\ UNCHANGED <<pc, rx, conn, retries, result, valid, keepers, pinging, failed>>
-----------------------------------------------------------------------------
\* The steps of a call that only need the executor and timers.
Progress(t) ==
    \/ ConnectInner(t) \/ DialOk(t) \/ DialRetry(t) \/ DialFatal(t) \/ Backoff(t)
    \/ WakeGet(t) \/ WakeInner(t) \/ Fail(t) \/ Publish(t)

Next ==
    \/ \E t \in Task : GetConnection(t) \/ Progress(t) \/ Cancel(t) \/ Release(t)
    \/ \E c \in Task : KeepAlive(c) \/ PingReturns(c) \/ Breaks(c)
    \/ IdleTooLong \/ CheckConnections

Spec == Init /\ [][Next]_vars

\* Connection::new ends, by connection_timeout at the latest, and a task that
\* was woken runs.
FairSpec == Spec /\ \A t \in Task : WF_vars(Progress(t))
-----------------------------------------------------------------------------
(* Properties *)

\* The type of the cache entry and of the calls.
TypeOK ==
    /\ entry \in [status : {"none", "connecting", "connected"}, waiters : SUBSET Task,
                  conn : Task \cup {None}, recent : BOOLEAN]
    /\ pc \in [Task -> {"idle", "connect", "dial", "backoff", "get_wait", "inner_wait",
                        "publish", "fail", "done"}]
    /\ rx \in [Task -> Task \cup {None, "canceled"}]
    /\ conn \in [Task -> Task \cup {None}]
    /\ retries \in [Task -> 0..MaxRetries]
    /\ result \in [Task -> {"ok", "canceled", "error", "dropped", None}]
    /\ valid \subseteq Task
    /\ keepers \in [Task -> Nat]
    /\ pinging \subseteq Task
    /\ failed \in BOOLEAN

Waiting(t) == pc[t] \in {"get_wait", "inner_wait"} /\ rx[t] = None
Leading(t) == pc[t] \in {"dial", "backoff", "publish", "fail"}

\* A call about to publish has a connection.
PublishersHold == \A t \in Task : pc[t] = "publish" => conn[t] # None

\* What a call returned is never written again.
DroppedAreDone == \A t \in Task : result[t] = "dropped" => pc[t] = "done"

\* A call that waits for somebody else's connection is on the list of a
\* Connecting entry: no removal or replacement of the entry (connect's two
\* ends, check_connections) forgets a waiter.
WaitersListed ==
    \A t \in Task : Waiting(t) => entry.status = "connecting" /\ t \in entry.waiters

\* A caller has dropped the future of its call.
Abandoned == \E t \in Task : result[t] = "dropped"

\* A Connecting entry has a call at work that will remove or replace it, so
\* "reconnection is canceled instead of getting stuck" (connect), unless a
\* caller dropped its future.
ConnectingIsLed ==
    entry.status = "connecting" => Abandoned \/ \E t \in Task : Leading(t)

\* A call is told Canceled only after another one failed to connect: success
\* never cancels anybody.
CanceledAfterFailure ==
    \A t \in Task : result[t] = "canceled" \/ rx[t] = "canceled" => failed

\* Every call of get_connection returns, unless a caller dropped its future:
\* retries are bounded and no set of calls waits for each other.
GetsReturn ==
    \A t \in Task : pc[t] # "idle" ~> pc[t] = "done" \/ Abandoned

\* No call gets stuck, whatever the other callers do with theirs.
NobodyStuck ==
    \A t \in Task : pc[t] # "idle" ~> pc[t] = "done"
===============================================================================
