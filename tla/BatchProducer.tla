---------------------------- MODULE BatchProducer ----------------------------
(***************************************************************************)
(* A batching TopicProducer (src/producer.rs): its user, the task          *)
(* batch_process_loop that collects messages into batches and the task     *)
(* message_send_loop that sends one batch at a time, joined by two bounded *)
(* channels.                                                               *)
(*                                                                         *)
(* Messages are numbered in the order of the user's calls of send, and so  *)
(* are the calls of send_batch.  futures' bounded channel takes the item   *)
(* of an unparked sender at once, and send().await then waits until no     *)
(* more than the buffer is queued.                                         *)
(***************************************************************************)
EXTENDS Naturals, Sequences

CONSTANTS
    None,         \* no value; an option that is not set
    BatchSize,    \* ProducerOptions::batch_size
    BatchBytes,   \* ProducerOptions::batch_byte_size
    HasTimeout,   \* whether ProducerOptions::batch_timeout is set
    Bytes,        \* payload_size of each message
    MsgCap,       \* buffer of the channel user -> batch_process_loop (10)
    BatchCap,     \* buffer of the channel to message_send_loop (1)
    MaxMsgs,      \* bound: messages sent
    MaxFlushes    \* bound: calls of send_batch

Msgs == 1..MaxMsgs

\* ProducerOptions::enabled_batching holds.
ASSUME BatchAssumption ==
    /\ {MsgCap, BatchCap, MaxMsgs, MaxFlushes} \subseteq Nat
    /\ None \notin Nat
    /\ BatchSize \in Nat \cup {None}
    /\ BatchBytes \in Nat \cup {None}
    /\ HasTimeout \in BOOLEAN
    /\ IF BatchSize # None THEN BatchSize > 1 ELSE BatchBytes # None \/ HasTimeout
    /\ Bytes \in [Msgs -> Nat]

VARIABLES
    user,      \* what the user of the TopicProducer is doing
    sent,      \* messages handed over so far
    flushes,   \* calls of send_batch so far
    channel,   \* mpsc of BatchItem
    open,      \* until close_channel
    batcher,   \* batch_process_loop
    storage, size, timer,       \* its BatchStorage, and timer_future
    batches,   \* mpsc of Vec<BatchItem>
    sender,    \* message_send_loop
    batch,     \* the batch it works on
    written,   \* the log entry of that batch, None until the broker wrote it
    receipt,   \* what the SendFuture of each message resolves to
    answered,  \* send_batch calls whose oneshot resolved or was dropped
    flushed,   \* history: messages sent before the last send_batch that returned
    log,       \* the topic at the broker, external
    limbo      \* batches given up on that the broker may still write

userVars    == <<user, sent, flushes, open, flushed>>
batcherVars == <<batcher, storage, size, timer>>
senderVars  == <<sender, batch, written>>
brokerVars  == <<log, limbo>>
vars == <<userVars, channel, batcherVars, batches, senderVars, receipt, answered, brokerVars>>

\* BatchItem.
Single(m) == [type |-> "message", id |-> m]
Flush(k)  == [type |-> "flush", id |-> k]

\* What a SendFuture resolves to: the place of the message, or an error.
Outcome == [result : {"ok", "closed", "error"}, entry : Nat, index : Nat, size : Nat]

\* An unsettled SendFuture is not a settled one.
ASSUME OutcomeAssumption == None \notin Outcome

Placed(e, i, n) == [result |-> "ok", entry |-> e, index |-> i, size |-> n]
Failed(why)     == [result |-> why, entry |-> 0, index |-> 0, size |-> 0]

Init ==
    /\ user = "ready" /\ sent = 0 /\ flushes = 0 /\ open = TRUE /\ flushed = 0
    /\ channel = <<>>
    /\ batcher = "recv" /\ storage = <<>> /\ size = 0 /\ timer = FALSE
    /\ batches = <<>>
    /\ sender = "recv" /\ batch = <<>> /\ written = None
    /\ receipt = [m \in Msgs |-> None]
    /\ answered = {}
    /\ log = <<>> /\ limbo = {}
-----------------------------------------------------------------------------
(* The user. *)

\* send_raw.
Send ==
    /\ user = "ready"
    /\ sent < MaxMsgs
    /\ Len(channel) <= MsgCap
    /\ channel' = Append(channel, Single(sent + 1))
    /\ sent' = sent + 1
    /\ user' = "sending"
    /\ UNCHANGED <<flushes, open, flushed, batcherVars, batches, senderVars,
                   receipt, answered, brokerVars>>

SendReturns ==
    /\ user = "sending"
    /\ Len(channel) <= MsgCap
    /\ user' = "ready"
    /\ UNCHANGED <<sent, flushes, open, flushed, channel, batcherVars, batches,
                   senderVars, receipt, answered, brokerVars>>

\* send_batch: it waits for the oneshot and ignores how it ends.
SendBatch ==
    /\ user = "ready"
    /\ flushes < MaxFlushes
    /\ Len(channel) <= MsgCap
    /\ channel' = Append(channel, Flush(flushes + 1))
    /\ flushes' = flushes + 1
    /\ user' = "flushing"
    /\ UNCHANGED <<sent, open, flushed, batcherVars, batches, senderVars,
                   receipt, answered, brokerVars>>

SendBatchReturns ==
    /\ user = "flushing"
    /\ flushes \in answered
    /\ user' = "ready"
    /\ flushed' = sent
    /\ UNCHANGED <<sent, flushes, open, channel, batcherVars, batches, senderVars,
                   receipt, answered, brokerVars>>

\* close takes the Batch and waits for message_send_loop to end.
Close ==
    /\ user = "ready"
    /\ open' = FALSE
    /\ user' = "closing"
    /\ UNCHANGED <<sent, flushes, flushed, channel, batcherVars, batches,
                   senderVars, receipt, answered, brokerVars>>

CloseReturns ==
    /\ user = "closing"
    /\ sender = "done"
    /\ user' = "closed"
    /\ UNCHANGED <<sent, flushes, open, flushed, channel, batcherVars, batches,
                   senderVars, receipt, answered, brokerVars>>

\* After close, send_raw refuses the message.
SendClosed ==
    /\ user \in {"closed", "abandoned"}
    /\ sent < MaxMsgs
    /\ sent' = sent + 1
    /\ receipt' = [receipt EXCEPT ![sent + 1] = Failed("closed")]
    /\ UNCHANGED <<user, flushes, open, flushed, channel, batcherVars, batches,
                   senderVars, answered, brokerVars>>

\* The user drops the future of the call it is waiting for.
Cancel ==
    /\ user \in {"sending", "flushing", "closing"}
    /\ user' = IF user = "closing" THEN "abandoned" ELSE "ready"
    /\ UNCHANGED <<sent, flushes, open, flushed, channel, batcherVars, batches,
                   senderVars, receipt, answered, brokerVars>>

\* Drop for TopicProducer.  The CloseProducer it sends at the same time may
\* make the broker refuse batches, as SendFails allows at any time.
DropProducer ==
    /\ user \in {"ready", "closed", "abandoned"}
    /\ open' = FALSE
    /\ user' = "dropped"
    /\ UNCHANGED <<sent, flushes, flushed, channel, batcherVars, batches,
                   senderVars, receipt, answered, brokerVars>>
-----------------------------------------------------------------------------
(* batch_process_loop. *)

\* BatchStorage::ready_to_flush, of the items and size it has come to.
ReadyToFlush(items, bytes) ==
    \/ BatchSize # None /\ Len(items) >= BatchSize
    \/ BatchBytes # None /\ bytes >= BatchBytes
    \/ items # <<>> /\ items[Len(items)].type = "flush"

\* flush: get_messages empties the storage, the batch goes to the channel.
FlushItems(items) ==
    /\ batches' = IF items = <<>> THEN batches ELSE Append(batches, items)
    /\ batcher' = IF items = <<>> THEN "recv" ELSE "sending"
    /\ storage' = <<>>
    /\ size' = 0
    /\ timer' = FALSE

\* An item is received: it is stored, and flushed with the others if it makes
\* the batch ready; the first one starts the timer.
BatchItem ==
    /\ batcher = "recv"
    /\ channel # <<>>
    /\ channel' = Tail(channel)
    /\ LET item  == Head(channel)
           items == Append(storage, item)
           bytes == IF item.type = "message" THEN size + Bytes[item.id] ELSE size
       IN  IF ReadyToFlush(items, bytes)
           THEN FlushItems(items)
           ELSE /\ storage' = items
                /\ size' = bytes
                /\ timer' = IF HasTimeout /\ Len(items) = 1 THEN TRUE ELSE timer
                /\ UNCHANGED <<batcher, batches>>
    /\ UNCHANGED <<userVars, senderVars, receipt, answered, brokerVars>>

\* Mutant: the timer ends without a flush.
BatchTimeoutIdle ==
    /\ batcher = "recv"
    /\ channel = <<>> /\ open
    /\ timer
    /\ timer' = FALSE
    /\ UNCHANGED <<userVars, channel, batcher, storage, size, batches, senderVars,
                   receipt, answered, brokerVars>>

\* select polls the channel first: the timer only counts when it is empty.
BatchTimeout ==
    /\ batcher = "recv"
    /\ channel = <<>> /\ open
    /\ timer
    /\ FlushItems(storage)
    /\ UNCHANGED <<userVars, channel, senderVars, receipt, answered, brokerVars>>

\* batch_sender.send(..).await ends.
BatchSent ==
    /\ batcher = "sending"
    /\ Len(batches) <= BatchCap
    /\ batcher' = "recv"
    /\ UNCHANGED <<userVars, channel, storage, size, timer, batches, senderVars,
                   receipt, answered, brokerVars>>

\* The messages of a batch: the loop over it pushes one SingleMessage after
\* the other and passes over what is none.
MessagesOf(items) ==
    LET pushed[i \in 0..Len(items)] ==
          IF i = 0 THEN <<>>
          ELSE IF items[i].type = "message" THEN Append(pushed[i - 1], items[i].id)
          ELSE pushed[i - 1]
    IN  pushed[Len(items)]

\* Every oneshot of ms resolves to v.
Settle(ms, v) ==
    receipt' = [m \in Msgs |-> IF \E i \in DOMAIN ms : ms[i] = m THEN v ELSE receipt[m]]

\* The channel is closed and empty: what is not flushed fails.
BatcherExits ==
    /\ batcher = "recv"
    /\ channel = <<>> /\ ~open
    /\ Settle(MessagesOf(storage), Failed("closed"))
    /\ storage' = <<>> /\ size' = 0
    /\ batcher' = "done"
    /\ UNCHANGED <<userVars, channel, timer, batches, senderVars, answered, brokerVars>>
-----------------------------------------------------------------------------
(* message_send_loop. *)

\* The trailing Flush of a batch, if it has one, and what is left.
HasFlush(items) == items # <<>> /\ items[Len(items)].type = "flush"
Popped(items)   == IF HasFlush(items) THEN SubSeq(items, 1, Len(items) - 1) ELSE items

\* The flush oneshot of a batch is used or dropped.
AnswerFlush(items) ==
    answered' = IF HasFlush(items) THEN answered \cup {items[Len(items)].id} ELSE answered

\* Mutants: a Flush answered before its messages are sent; a lone Flush not
\* answered.
TakeBatchFlushFirst ==
    /\ sender = "recv"
    /\ batches # <<>>
    /\ batches' = Tail(batches)
    /\ AnswerFlush(Head(batches))
    /\ batch' = Head(batches)
    /\ sender' = "send"
    /\ written' = None
    /\ UNCHANGED <<userVars, channel, batcherVars, receipt, brokerVars>>

TakeBatchLoneFlush ==
    /\ sender = "recv"
    /\ batches # <<>>
    /\ batches' = Tail(batches)
    /\ IF Popped(Head(batches)) = <<>>
       THEN UNCHANGED senderVars
       ELSE sender' = "send" /\ batch' = Head(batches) /\ written' = None
    /\ UNCHANGED <<userVars, channel, batcherVars, receipt, answered, brokerVars>>

\* A batch is received; one with nothing but a Flush only answers it.
TakeBatch ==
    /\ sender = "recv"
    /\ batches # <<>>
    /\ batches' = Tail(batches)
    /\ IF Popped(Head(batches)) = <<>>
       THEN AnswerFlush(Head(batches)) /\ UNCHANGED senderVars
       ELSE /\ sender' = "send"
            /\ batch' = Head(batches)
            /\ written' = None
            /\ UNCHANGED answered
    /\ UNCHANGED <<userVars, channel, batcherVars, receipt, brokerVars>>

\* send_message hands the batch to the connection, once it has a valid one:
\* closing and creating the producer again changes nothing else.
SendEnqueued ==
    /\ sender = "send"
    /\ sender' = "wait"
    /\ UNCHANGED <<userVars, channel, batcherVars, batches, batch, written,
                   receipt, answered, brokerVars>>

\* Mutant: batch_size counts the Flush.
SendSucceedsCountsFlush ==
    /\ sender = "wait"
    /\ written # None
    /\ LET ms == MessagesOf(Popped(batch))
       IN  receipt' = [m \in Msgs |->
              IF \E i \in DOMAIN ms : ms[i] = m
              THEN Placed(written, (CHOOSE i \in DOMAIN ms : ms[i] = m) - 1, Len(batch))
              ELSE receipt[m]]
    /\ AnswerFlush(batch)
    /\ sender' = "recv" /\ batch' = <<>> /\ written' = None
    /\ UNCHANGED <<userVars, channel, batcherVars, batches, brokerVars>>

\* The receipt arrives: every message gets it, with its batch_index.
SendSucceeds ==
    /\ sender = "wait"
    /\ written # None
    /\ LET counter == Len(Popped(batch))
           ms      == MessagesOf(Popped(batch))
       IN  receipt' = [m \in Msgs |->
              IF \E i \in DOMAIN ms : ms[i] = m
              THEN Placed(written, (CHOOSE i \in DOMAIN ms : ms[i] = m) - 1, counter)
              ELSE receipt[m]]
    /\ AnswerFlush(batch)
    /\ sender' = "recv" /\ batch' = <<>> /\ written' = None
    /\ UNCHANGED <<userVars, channel, batcherVars, batches, brokerVars>>

\* Mutant: a batch whose receipt did not come is sent again.
SendFailsRetries ==
    /\ sender = "wait"
    /\ limbo' = IF written = None THEN limbo \cup {MessagesOf(Popped(batch))} ELSE limbo
    /\ sender' = "send" /\ written' = None
    /\ UNCHANGED <<userVars, channel, batcherVars, batches, batch, receipt, answered, log>>

\* Compression, reconnection or the send itself failed, or its receipt did not
\* come: every message gets the error and the flush oneshot is dropped.
SendFails ==
    /\ sender \in {"send", "wait"}
    /\ Settle(MessagesOf(Popped(batch)), Failed("error"))
    /\ AnswerFlush(batch)
    /\ limbo' = IF sender = "wait" /\ written = None
                THEN limbo \cup {MessagesOf(Popped(batch))} ELSE limbo
    /\ sender' = "recv" /\ batch' = <<>> /\ written' = None
    /\ UNCHANGED <<userVars, channel, batcherVars, batches, log>>

\* batch_process_loop is gone: close_producer, then close_sender.
SenderExits ==
    /\ sender = "recv"
    /\ batches = <<>> /\ batcher = "done"
    /\ sender' = "done"
    /\ UNCHANGED <<userVars, channel, batcherVars, batches, batch, written,
                   receipt, answered, brokerVars>>
-----------------------------------------------------------------------------
(* The broker, external: it writes what it is sent, perhaps late. *)

BrokerWrites ==
    /\ sender = "wait" /\ written = None
    /\ log' = Append(log, MessagesOf(Popped(batch)))
    /\ written' = Len(log) + 1
    /\ UNCHANGED <<userVars, channel, batcherVars, batches, sender, batch,
                   receipt, answered, limbo>>

BrokerWritesLate ==
    /\ \E ms \in limbo : log' = Append(log, ms) /\ limbo' = limbo \ {ms}
    /\ UNCHANGED <<userVars, channel, batcherVars, batches, senderVars, receipt, answered>>
-----------------------------------------------------------------------------
User ==
    \/ Send \/ SendReturns \/ SendBatch \/ SendBatchReturns
    \/ Close \/ CloseReturns \/ SendClosed \/ Cancel \/ DropProducer

Batcher == BatchItem \/ BatchTimeout \/ BatchSent \/ BatcherExits

Sender == TakeBatch \/ SendEnqueued \/ SendSucceeds \/ SendFails \/ SenderExits

Broker == BrokerWrites \/ BrokerWritesLate

Next == User \/ Batcher \/ Sender \/ Broker

Spec == Init /\ [][Next]_vars

\* The executor runs both tasks and timers fire; operation_timeout ends every
\* wait for a receipt, max_retries the attempts to create the producer again
\* (when it is None, the broker's refusals are assumed to end).  The user owes
\* nothing but to look at a result.
FairSpec ==
    /\ Spec
    /\ WF_vars(Batcher) /\ WF_vars(Sender)
    /\ WF_vars(SendReturns \/ SendBatchReturns \/ CloseReturns)
-----------------------------------------------------------------------------
(* Properties. *)

Items == [type : {"message"}, id : Msgs] \cup [type : {"flush"}, id : 1..MaxFlushes]

Receipts == Outcome \cup {None}

\* The type of the state of TopicProducer and its two tasks.  The channels
\* never hold more than their buffer and the one item of their sender.
TypeOK ==
    /\ user \in {"ready", "sending", "flushing", "closing", "closed", "abandoned", "dropped"}
    /\ sent \in 0..MaxMsgs /\ flushes \in 0..MaxFlushes /\ flushed \in 0..sent
    /\ open \in BOOLEAN /\ timer \in BOOLEAN
    /\ channel \in Seq(Items) /\ Len(channel) <= MsgCap + 1
    /\ batcher \in {"recv", "sending", "done"}
    /\ storage \in Seq(Items) /\ size \in Nat
    /\ batches \in Seq(Seq(Items)) /\ Len(batches) <= BatchCap + 1
    /\ sender \in {"recv", "send", "wait", "done"}
    /\ batch \in Seq(Items) /\ written \in Nat \cup {None}
    /\ receipt \in [Msgs -> Receipts]
    /\ answered \subseteq 1..flushes
    /\ log \in Seq(Seq(Msgs)) /\ limbo \subseteq Seq(Msgs)

\* What a producer promises: TopicProducer with its two tasks implements it.
Promise == INSTANCE ProducerLog
Implements == Promise!Spec

Acked(m) == receipt[m] # None /\ receipt[m].result = "ok"

\* A receipt tells the truth: message_send_loop gives every message the entry
\* its batch was written to, its own batch_index there and the batch_size.
ReceiptsPoint ==
    \A m \in Msgs : Acked(m) =>
        /\ receipt[m].entry \in DOMAIN log
        /\ receipt[m].size = Len(log[receipt[m].entry])
        /\ receipt[m].index + 1 \in DOMAIN log[receipt[m].entry]
        /\ log[receipt[m].entry][receipt[m].index + 1] = m

\* Messages that were acknowledged are in the topic in the order they were
\* sent, although batches that failed may turn up in between, late.
AckedInOrder ==
    \A m, n \in Msgs : m < n /\ Acked(m) /\ Acked(n) =>
        \/ receipt[m].entry < receipt[n].entry
        \/ receipt[m].entry = receipt[n].entry /\ receipt[m].index < receipt[n].index

\* The receipts of message_send_loop are true, and in the order of the calls.
ReceiptsTrue == TypeOK /\ ReceiptsPoint /\ AckedInOrder

\* When send_batch returns, every message sent before it is settled, even when
\* the flush oneshot was dropped by a failed batch.
FlushSettles == \A m \in 1..flushed : receipt[m] # None

\* When close returns, every message is settled: sent, failed or refused, and
\* none is left in a channel.
CloseSettles == user = "closed" => \A m \in 1..sent : receipt[m] # None

\* What the two calls that promise to settle the messages before them keep.
CallsSettle == FlushSettles /\ CloseSettles

\* With a batch_timeout every message is settled, without any further call:
\* the user, batch_process_loop and message_send_loop never block each other.
\* (The user sends at most MaxMsgs of them, and a message once settled stays so.)
EveryMessageSettles == []<>(\A m \in 1..sent : receipt[m] # None)

\* send, send_batch and close return, however a batch ends.
CallsReturn == []<>(user \notin {"sending", "flushing", "closing"})
==============================================================================
