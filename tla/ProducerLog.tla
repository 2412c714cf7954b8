----------------------------- MODULE ProducerLog -----------------------------
(***************************************************************************)
(* What a producer promises its user, whatever happens inside it: every    *)
(* message it accepts is written to the topic at most once, is settled at  *)
(* most once, and a receipt tells exactly where the message was written.   *)
(* Messages are numbered in the order of the user's calls.                 *)
(***************************************************************************)
EXTENDS Naturals, Sequences

CONSTANTS MaxMsgs, None

VARIABLES
    sent,     \* messages accepted so far
    log,      \* the topic: a sequence of entries, each a sequence of messages
    receipt   \* what the SendFuture of each message resolves to

vars == <<sent, log, receipt>>

Init ==
    /\ sent = 0
    /\ log = <<>>
    /\ receipt = [m \in 1..MaxMsgs |-> None]

Logged == {m \in 1..MaxMsgs : \E e \in DOMAIN log : \E i \in DOMAIN log[e] : log[e][i] = m}

Accept == sent' = sent + 1 /\ UNCHANGED <<log, receipt>>

\* Consecutive messages become one entry of the topic.
Write ==
    /\ \E first \in 1..sent : \E last \in first..sent :
          /\ first..last \cap Logged = {}
          /\ log' = Append(log, [i \in 1..(last - first + 1) |-> first + i - 1])
    /\ UNCHANGED <<sent, receipt>>

\* Every message of an entry learns its place, all or none of them.
Acknowledge ==
    /\ \E e \in DOMAIN log :
          /\ \A i \in DOMAIN log[e] : receipt[log[e][i]] = None
          /\ receipt' = [m \in 1..MaxMsgs |->
                IF \E i \in DOMAIN log[e] : log[e][i] = m
                THEN [result |-> "ok", entry |-> e, size |-> Len(log[e]),
                      index |-> (CHOOSE i \in DOMAIN log[e] : log[e][i] = m) - 1]
                ELSE receipt[m]]
    /\ UNCHANGED <<sent, log>>

\* Consecutive messages fail.  They may have been written, or still be.
Reject ==
    /\ \E why \in {"closed", "error"}, first \in 1..sent' : \E last \in first..sent' :
          /\ \A m \in first..last : receipt[m] = None
          /\ receipt' = [m \in 1..MaxMsgs |->
                IF m \in first..last
                THEN [result |-> why, entry |-> 0, index |-> 0, size |-> 0]
                ELSE receipt[m]]
    /\ sent' \in {sent, sent + 1}
    /\ UNCHANGED log

Next == Accept \/ Write \/ Acknowledge \/ Reject

Spec == Init /\ [][Next]_vars
==============================================================================
