---------------------------- MODULE SingleProducer ----------------------------
(***************************************************************************)
(* A TopicProducer without batching (src/producer.rs): send_raw and        *)
(* send_message, which hands the message to the connection, or closes the  *)
(* producer, connects and registers it again when the connection is gone   *)
(* or poisoned, and returns before the receipt is there.                   *)
(*                                                                         *)
(* A connection is a stream to the broker and the receipts on their way    *)
(* back.  The broker writes what it reads from the one connection the      *)
(* producer is registered on.                                              *)
(***************************************************************************)
EXTENDS Naturals, Sequences

CONSTANTS
    None,       \* no value
    MaxMsgs,    \* bound: messages sent
    MaxConns,   \* bound: connections opened
    MaxCloses   \* bound: calls of close

Msgs == 1..MaxMsgs
Conns == 1..MaxConns

ASSUME SingleAssumption ==
    {MaxMsgs, MaxConns, MaxCloses} \subseteq Nat \ {0} /\ None \notin Nat

VARIABLES
    user,      \* what the user of the TopicProducer is doing
    sent,      \* messages passed to send_raw so far
    closes,    \* calls of close so far
    conn,      \* TopicProducer.connection
    seq,       \* TopicProducer.sequence_id, of the process's SerialId
    link,      \* [Conns -> "unused", "up" or "broken"]
    poisoned,  \* connections whose error is set: is_valid is false
    pending,   \* sends awaiting a receipt: message, connection and sequence id
    receipt,   \* what the SendFuture of each message resolves to
    wire,      \* [Conns -> the commands the broker has still to read]
    acks,      \* receipts the broker has sent
    home,      \* the connection the producer is registered on, None if none
    log        \* the topic

userVars == <<user, sent, closes>>
vars == <<userVars, conn, seq, link, poisoned, pending, receipt, wire, acks, home, log>>

\* What a SendFuture resolves to; an unsettled one is not a settled one.
Outcome == [result : {"ok", "error"}, entry : Nat, index : Nat, size : Nat]

ASSUME OutcomeAssumption == None \notin Outcome

Placed(e) == [result |-> "ok", entry |-> e, index |-> 0, size |-> 1]
Failed(why) == [result |-> why, entry |-> 0, index |-> 0, size |-> 0]

SendCmd(m, s) == [type |-> "send", msg |-> m, seq |-> s]
CloseCmd == [type |-> "close", msg |-> 0, seq |-> 0]

(* TopicProducer::new has registered the producer on its first connection. *)
Init ==
    /\ user = "ready" /\ sent = 0 /\ closes = 0
    /\ conn = 1
    /\ seq = 0
    /\ link = [c \in Conns |-> IF c = 1 THEN "up" ELSE "unused"]
    /\ poisoned = {}
    /\ pending = {}
    /\ receipt = [m \in Msgs |-> None]
    /\ wire = [c \in Conns |-> <<>>]
    /\ acks = {}
    /\ home = 1
    /\ log = <<>>
-----------------------------------------------------------------------------
(* The user's calls. *)

\* send_raw; the message then goes round the loop of send_message.
Send ==
    /\ user = "ready"
    /\ sent < MaxMsgs
    /\ sent' = sent + 1
    /\ user' = "sending"
    /\ UNCHANGED <<closes, conn, seq, link, poisoned, pending, receipt, wire,
                   acks, home, log>>

\* is_valid, and the connection takes the message: send returns, and a task
\* of its own awaits the receipt.  Every attempt draws a new sequence id.
EnqueuedSameId ==
    /\ user = "sending"
    /\ conn \notin poisoned
    /\ link[conn] = "up"
    /\ pending' = pending \cup {[msg |-> sent, conn |-> conn, seq |-> seq]}
    /\ wire' = [wire EXCEPT ![conn] = Append(@, SendCmd(sent, seq))]
    /\ user' = "ready"
    /\ UNCHANGED <<sent, closes, conn, seq, link, poisoned, receipt, acks, home, log>>

Enqueued ==
    /\ user = "sending"
    /\ conn \notin poisoned
    /\ link[conn] = "up"
    /\ pending' = pending \cup {[msg |-> sent, conn |-> conn, seq |-> seq]}
    /\ wire' = [wire EXCEPT ![conn] = Append(@, SendCmd(sent, seq))]
    /\ seq' = seq + 1
    /\ user' = "ready"
    /\ UNCHANGED <<sent, closes, conn, link, poisoned, receipt, acks, home, log>>

\* The send queue is full (SlowDown), or compression failed: an error.
Refused ==
    /\ user = "sending"
    /\ conn \notin poisoned
    /\ receipt' = [receipt EXCEPT ![sent] = Failed("error")]
    /\ seq' = seq + 1
    /\ user' = "ready"
    /\ UNCHANGED <<sent, closes, conn, link, poisoned, pending, wire, acks, home, log>>

\* The connection is not valid, or answers Disconnected: close_producer over
\* it, whose failure is ignored.
CloseOld ==
    /\ user = "sending"
    /\ conn \in poisoned \/ link[conn] = "broken"
    /\ IF link[conn] = "up"
       THEN wire' = [wire EXCEPT ![conn] = Append(@, CloseCmd)]
       ELSE UNCHANGED wire
    /\ seq' = IF conn \in poisoned THEN seq ELSE seq + 1
    /\ user' = "reconnecting"
    /\ UNCHANGED <<sent, closes, conn, link, poisoned, pending, receipt, acks, home, log>>

\* The answer to close_producer came, or its timeout: lookup_topic and
\* get_connection give another connection.  Dropping the old one shuts it down,
\* unless somebody else still holds it: then it stays open, poisoned.
Shut(c) ==
    /\ \E rest \in {link[c], "broken"} :
         link' = [link EXCEPT ![c] = rest, ![c + 1] = "up"]
    /\ poisoned' = poisoned \cup {c}

Connect ==
    /\ user = "reconnecting"
    /\ conn < MaxConns
    /\ conn' = conn + 1
    /\ Shut(conn)
    /\ user' = "creating"
    /\ UNCHANGED <<sent, closes, seq, pending, receipt, wire, acks, home, log>>

\* The broker registers the producer: back to the top of the loop.  As long as
\* it is busy, create_producer is retried.
Created ==
    /\ user = "creating"
    /\ link[conn] = "up"
    /\ home = None
    /\ home' = conn
    /\ user' = "sending"
    /\ UNCHANGED <<sent, closes, conn, seq, link, poisoned, pending, receipt,
                   wire, acks, log>>

\* Lookup, connection or creation failed for good: the message is not sent.
\* The producer keeps the connection it was given last.
ReconnectFails ==
    /\ user \in {"reconnecting", "creating"}
    /\ receipt' = [receipt EXCEPT ![sent] = Failed("error")]
    /\ user' = "ready"
    /\ UNCHANGED <<sent, closes, conn, seq, link, poisoned, pending, wire,
                   acks, home, log>>

\* close: close_producer over the current connection; the TopicProducer can
\* still be used.  Drop spawns the same call.
Close ==
    /\ user = "ready"
    /\ closes < MaxCloses
    /\ closes' = closes + 1
    /\ IF link[conn] = "up"
       THEN wire' = [wire EXCEPT ![conn] = Append(@, CloseCmd)]
       ELSE UNCHANGED wire
    /\ UNCHANGED <<user, sent, conn, seq, link, poisoned, pending, receipt,
                   acks, home, log>>
-----------------------------------------------------------------------------
(* The tasks awaiting receipts. *)

\* The receipt for a connection's sequence id resolves the send that waits.
ReceiptArrives ==
    /\ \E a \in acks, p \in pending :
         /\ a.conn = p.conn /\ a.seq = p.seq /\ link[a.conn] = "up"
         /\ receipt' = [receipt EXCEPT ![p.msg] = Placed(a.entry)]
         /\ pending' = pending \ {p}
         /\ acks' = acks \ {a}
    /\ UNCHANGED <<userVars, conn, seq, link, poisoned, wire, home, log>>

ReceiptTimesOutResends ==
    /\ \E p \in pending :
         /\ pending' = pending \ {p}
         /\ wire' = [wire EXCEPT ![conn] = Append(@, SendCmd(p.msg, p.seq))]
         /\ receipt' = [receipt EXCEPT ![p.msg] = Failed("error")]
    /\ UNCHANGED <<userVars, conn, seq, link, poisoned, acks, home, log>>

ReceiptWaitsForLink ==
    /\ \E p \in pending :
         /\ link[p.conn] = "broken"
         /\ receipt' = [receipt EXCEPT ![p.msg] = Failed("error")]
         /\ pending' = pending \ {p}
         /\ poisoned' = poisoned \cup {p.conn}
    /\ UNCHANGED <<userVars, conn, seq, link, wire, acks, home, log>>

\* operation_timeout: the send fails and its connection is poisoned.
ReceiptTimesOut ==
    /\ \E p \in pending :
         /\ receipt' = [receipt EXCEPT ![p.msg] = Failed("error")]
         /\ pending' = pending \ {p}
         /\ poisoned' = poisoned \cup {p.conn}
    /\ UNCHANGED <<userVars, conn, seq, link, wire, acks, home, log>>

\* The receiver of a broken connection is gone with its resolvers.
ReceiptCanceled ==
    /\ \E p \in pending :
         /\ link[p.conn] = "broken"
         /\ receipt' = [receipt EXCEPT ![p.msg] = Failed("error")]
         /\ pending' = pending \ {p}
    /\ UNCHANGED <<userVars, conn, seq, link, poisoned, wire, acks, home, log>>
-----------------------------------------------------------------------------
(* The network and the broker, external. *)

Break ==
    /\ \E c \in Conns :
         /\ link[c] = "up"
         /\ link' = [link EXCEPT ![c] = "broken"]
         /\ poisoned' \in {poisoned, poisoned \cup {c}}
    /\ UNCHANGED <<userVars, conn, seq, pending, receipt, wire, acks, home, log>>

\* A message from another connection than the producer's is not written.
BrokerReads(c) ==
    /\ wire[c] # <<>>
    /\ wire' = [wire EXCEPT ![c] = Tail(@)]
    /\ LET cmd == Head(wire[c])
       IN  CASE cmd.type = "close" ->
                  /\ home' = IF home = c THEN None ELSE home
                  /\ UNCHANGED <<acks, log>>
             [] cmd.type = "send" /\ home = c ->
                  /\ log' = Append(log, [msg |-> cmd.msg, seq |-> cmd.seq])
                  /\ acks' = acks \cup {[conn |-> c, seq |-> cmd.seq,
                                         entry |-> Len(log) + 1]}
                  /\ UNCHANGED home
             [] OTHER -> UNCHANGED <<acks, home, log>>
    /\ UNCHANGED <<userVars, conn, seq, link, poisoned, pending, receipt>>

\* The broker finds a connection closed: what it has not read is lost and the
\* producers registered on it go.
BrokerNotices(c) ==
    /\ link[c] = "broken"
    /\ wire[c] # <<>> \/ home = c
    /\ wire' = [wire EXCEPT ![c] = <<>>]
    /\ home' = IF home = c THEN None ELSE home
    /\ UNCHANGED <<userVars, conn, seq, link, poisoned, pending, receipt, acks, log>>
-----------------------------------------------------------------------------
SendMessage ==
    Enqueued \/ Refused \/ CloseOld \/ Connect \/ Created \/ ReconnectFails

Receipt == ReceiptArrives \/ ReceiptTimesOut \/ ReceiptCanceled

Next ==
    \/ Send \/ Close \/ SendMessage \/ Receipt \/ Break
    \/ \E c \in Conns : BrokerReads(c) \/ BrokerNotices(c)

Spec == Init /\ [][Next]_vars

(* The user polls its call and the executor the receipt tasks; timeouts end *)
(* every wait of the loop.                                                  *)
FairSpec == Spec /\ WF_vars(SendMessage) /\ WF_vars(Receipt)
-----------------------------------------------------------------------------
(* The shape of the state; at most one send waits per message, and only on  *)
(* connections that were opened.                                            *)
TypeOK ==
    /\ user \in {"ready", "sending", "reconnecting", "creating"}
    /\ sent \in 0..MaxMsgs
    /\ conn \in Conns
    /\ poisoned \subseteq 1..conn
    /\ home \in 1..conn \cup {None}
    /\ \A c \in Conns : c > conn <=> link[c] = "unused"
    /\ \A p, q \in pending : p.msg = q.msg => p = q
    /\ \A p \in pending : receipt[p.msg] = None /\ p.conn <= conn

(* What a producer promises, without batches: an entry is one message.      *)
Promise == INSTANCE ProducerLog WITH log <- [e \in DOMAIN log |-> <<log[e].msg>>]

(* send_message implements the producer's promise: however often it         *)
(* reconnects, a message is written at most once, settled at most once, and *)
(* its receipt names the entry that holds it.                               *)
Implements == Promise!Spec

(* The topic holds the messages in the order of the calls, the ones whose   *)
(* send failed included: send_message gives a message up rather than send   *)
(* it again behind later ones.                                              *)
LogInOrder ==
    \A i, j \in DOMAIN log : i < j => log[i].msg < log[j].msg

(* Every message is settled and every send returns, without another call.   *)
EverySendSettles ==
    []<>(user = "ready" /\ \A m \in 1..sent : receipt[m] # None)

===============================================================================
