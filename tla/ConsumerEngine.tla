---------------------------- MODULE ConsumerEngine ----------------------------
(***************************************************************************)
(* A TopicConsumer and its engine (src/consumer/engine.rs, topic.rs): the  *)
(* user, the engine task, the tasks that forward its two sources into one  *)
(* event queue, the redelivery ticker, the bounded queue of messages to    *)
(* the user, and the broker's permits.                                     *)
(*                                                                         *)
(* An entry of the topic is a number; it holds Batch[e] messages, named    *)
(* <<e, i>>.  A subscription is numbered by "epoch": reconnect makes a new *)
(* one, and the source of the old one may still hold messages.  Two steps  *)
(* of the engine are separated by an await.  The connection is shared, and *)
(* its error with it: "neighbour" is the engine of another consumer on it. *)
(***************************************************************************)
EXTENDS Integers, Sequences, FiniteSets

CONSTANTS
    None,
    Batch,         \* Batch[e]: num_messages_in_batch of entry e
    Garbled,       \* entries that cannot be unpacked: chunks, bad compression
    BatchSize,     \* ConsumerConfig::batch_size
    QueueSize,     \* receiver_queue_size, the buffer of tx
    MaxRedeliver,  \* DeadLetterPolicy::max_redeliver_count, or None
    Settling,      \* how the user settles messages: ack, cumulative, nack
    Setups,        \* what a behaviour may have, see EngineAssumption
    MaxSends,      \* bound: times the broker sends each entry
    MaxEpoch,      \* bound: successful reconnections
    MaxNotices     \* bound: notices of the broker, and poisoned connections

Entries == DOMAIN Batch
Items == UNION {{e} \X (1..Batch[e]) : e \in Entries}
ItemsOf(e) == [i \in 1..Batch[e] |-> <<e, i>>]

ASSUME EngineAssumption ==
    /\ Batch \in Seq(Nat \ {0})
    /\ Garbled \subseteq Entries
    /\ BatchSize \in Nat \ {0}
    /\ {QueueSize, MaxSends, MaxEpoch, MaxNotices} \subseteq Nat
    /\ MaxRedeliver \in Nat \cup {None}
    \* unacked_message_redelivery_delay, another consumer on the connection, and a
    \* user that makes calls that ask for the connection.
    /\ Setups \subseteq [delay : BOOLEAN, shared : BOOLEAN, asks : BOOLEAN]
    /\ Settling \subseteq {"ack", "cumulative", "nack"}

VARIABLES
    engine,      \* where ConsumerEngine::engine stands
    after,       \* what a failed reconnect leads to: "stop" or "report"
    remaining,   \* remaining_messages
    unacked,     \* unacked_messages
    todo, count, \* messages of the entry in hand, its redelivery_count
    sources,     \* messages_rx of each subscription, not yet forwarded
    requests,    \* engine_rx: EngineMessages, not yet forwarded
    events,      \* event_rx
    gone,        \* the end of engine_rx was forwarded
    ticker,      \* the task that asks for UnackedRedelivery, or "none"
    queue,       \* tx, to the user
    user, answered, held, acks,  \* the user, its GetConnection oneshot, the
                 \* messages it has, the messages it acknowledged
    epoch, alive, flag,          \* subscription, connection, its SharedError
    neighbour,   \* another engine on the connection: it shares it, closes its
                 \* consumer there, or has left
    attached, permits, sent, outstanding, acked, notices,  \* broker, external
    dead,        \* messages in the dead letter topic
    asked        \* history: messages the ticker asked for since they came last

engineVars == <<engine, after, remaining, unacked, todo, count>>
inputs     == <<sources, requests, events, gone, ticker>>
userVars   == <<user, answered, held, acks>>
connVars   == <<epoch, alive, flag, neighbour>>
brokerVars == <<attached, permits, sent, outstanding, acked, notices>>
vars == <<engineVars, inputs, queue, userVars, connVars, brokerVars, dead, asked>>

\* EngineEvent: a message of the broker, or an EngineMessage.
Event(t, x, n, ep) == [type |-> t, id |-> x, count |-> n, epoch |-> ep]
Request(t, x) == Event(t, x, 0, 0)

Notices == {"change", "end", "close"}
FromBroker == Notices \cup {"payload"}

\* unacked_message_redelivery_delay is set: TopicConsumer::new spawned a ticker,
\* which holds a clone of engine_tx.
HasDelay == ticker # "none"

Init ==
    /\ engine = "loop" /\ after = "stop"
    /\ remaining = BatchSize /\ unacked = {} /\ todo = <<>> /\ count = 0
    /\ sources = [ep \in 0..MaxEpoch |-> <<>>]
    /\ requests = <<>> /\ events = <<>> /\ gone = FALSE
    /\ queue = <<>>
    /\ user = "idle" /\ held = {} /\ acks = {}
    /\ epoch = 0 /\ alive = TRUE /\ flag = FALSE
    /\ attached = TRUE /\ permits = BatchSize
    /\ sent = [e \in Entries |-> 0] /\ outstanding = {} /\ acked = {} /\ notices = 0
    /\ dead = {} /\ asked = {}
    /\ \E s \in Setups :
          /\ ticker = IF s.delay THEN "running" ELSE "none"
          /\ neighbour = IF s.shared THEN "sharing" ELSE "left"
          /\ answered = ~s.asks
-----------------------------------------------------------------------------
(* The engine. *)

\* The loop starts with the connection: its error is taken, and cleared.
CheckConnection ==
    /\ engine = "loop"
    /\ engine' = IF flag THEN "reconnect" ELSE "flow"
    /\ after' = "stop"
    /\ flag' = FALSE
    /\ UNCHANGED <<remaining, unacked, todo, count, inputs, queue, userVars, epoch,
                   alive, neighbour, brokerVars, dead, asked>>

Half == (BatchSize + 1) \div 2

\* Mutant: the messages a large batch had too many are not made up for.
SendFlowClamped ==
    /\ engine = "flow"
    /\ engine' = "wait"
    /\ IF remaining >= Half
       THEN UNCHANGED <<remaining, permits>>
       ELSE /\ permits' = IF ~attached THEN permits
                          ELSE permits + BatchSize - (IF remaining < 0 THEN 0 ELSE remaining)
            /\ remaining' = BatchSize
    /\ UNCHANGED <<after, unacked, todo, count, inputs, queue, userVars, connVars,
                   attached, sent, outstanding, acked, notices, dead, asked>>

\* send_flow when less than half of the permits are left.  A dead connection
\* may take the command and lose it, or refuse it.
SendFlow ==
    /\ engine = "flow"
    /\ \/ /\ remaining >= Half
          /\ engine' = "wait"
          /\ UNCHANGED <<remaining, permits>>
       \/ /\ remaining < Half
          /\ engine' = "wait"
          /\ permits' = IF attached THEN permits + (BatchSize - remaining) ELSE permits
          /\ remaining' = BatchSize
       \/ /\ remaining < Half
          /\ ~alive
          /\ engine' = "loop"
          /\ UNCHANGED <<remaining, permits>>
    /\ UNCHANGED <<after, unacked, todo, count, inputs, queue, userVars, connVars,
                   attached, sent, outstanding, acked, notices, dead, asked>>

\* No event for a second.
Idle ==
    /\ engine = "wait" /\ events = <<>>
    /\ engine' = "loop"
    /\ UNCHANGED <<after, remaining, unacked, todo, count, inputs, queue, userVars,
                   connVars, brokerVars, dead, asked>>

\* The engine ends and its Drop closes the consumer.
Stop == engine' = "done" /\ attached' = FALSE

\* handle_message_opt: whatever the broker sent costs a permit.
HandleMessage ==
    /\ engine = "wait" /\ events # <<>>
    /\ events' = Tail(events)
    /\ LET ev == Head(events) IN
       /\ ev.type \in FromBroker
       /\ remaining' = remaining - (IF ev.type = "payload" THEN Batch[ev.id[1]] ELSE 1)
       /\ \/ /\ ev.type = "payload" /\ ev.id[1] \notin Garbled
             /\ engine' = "push" /\ todo' = ItemsOf(ev.id[1]) /\ count' = ev.count
             /\ UNCHANGED <<after, attached>>
          \/ /\ ev.type = "payload" /\ ev.id[1] \in Garbled
             /\ engine' = "report"
             /\ UNCHANGED <<after, todo, count, attached>>
          \/ /\ ev.type = "change"
             /\ engine' = "loop"
             /\ UNCHANGED <<after, todo, count, attached>>
          \/ /\ ev.type = "close"
             /\ engine' = "reconnect" /\ after' = "report"
             /\ UNCHANGED <<todo, count, attached>>
          \/ /\ ev.type = "end"
             /\ Stop
             /\ UNCHANGED <<after, todo, count>>
    /\ UNCHANGED <<unacked, sources, requests, gone, ticker, queue, userVars,
                   connVars, permits, sent, outstanding, acked, notices, dead, asked>>

Poisonous == MaxRedeliver # None /\ count >= MaxRedeliver

\* What an acknowledgement sent now does at the broker.
Acknowledge(S) == acked' = IF attached THEN acked \cup S ELSE acked

\* Mutant: the message is acknowledged before the dead letter topic has it.
DeadLetterAckFirst ==
    /\ engine = "push" /\ todo # <<>>
    /\ Poisonous
    /\ Acknowledge({Head(todo)})
    /\ unacked' = unacked \ {Head(todo)}
    /\ \/ dead' = dead \cup {Head(todo)} /\ todo' = Tail(todo) /\ UNCHANGED engine
       \/ engine' = "report" /\ todo' = <<>> /\ UNCHANGED dead
    /\ UNCHANGED <<after, remaining, count, inputs, queue, userVars, connVars,
                   attached, permits, sent, outstanding, notices, asked>>

\* process_payload: a message that was redelivered too often goes to the dead
\* letter topic and is acknowledged, unless that topic refuses it.
DeadLetter ==
    /\ engine = "push" /\ todo # <<>>
    /\ Poisonous
    /\ \/ /\ dead' = dead \cup {Head(todo)}
          /\ Acknowledge({Head(todo)})
          /\ unacked' = unacked \ {Head(todo)}
          /\ todo' = Tail(todo)
          /\ UNCHANGED engine
       \/ /\ engine' = "report" /\ todo' = <<>>
          /\ UNCHANGED <<dead, acked, unacked>>
    /\ UNCHANGED <<after, remaining, count, inputs, queue, userVars, connVars,
                   attached, permits, sent, outstanding, notices, asked>>

\* send_to_consumer: the message is queued, and tx waits for room.  Without a
\* receiver the error cannot be reported either.
Push ==
    /\ engine = "push" /\ todo # <<>>
    /\ ~Poisonous
    /\ IF user = "dropped"
       THEN Stop /\ UNCHANGED queue
       ELSE /\ queue' = Append(queue, Head(todo))
            /\ engine' = "parked"
            /\ UNCHANGED attached
    /\ UNCHANGED <<after, remaining, unacked, todo, count, inputs, userVars, connVars,
                   permits, sent, outstanding, acked, notices, dead, asked>>

\* Mutant: the message is not tracked.
UnparkUntracked ==
    /\ engine = "parked"
    /\ Len(queue) <= QueueSize \/ user = "dropped"
    /\ engine' = IF todo = <<>> THEN "loop" ELSE "push"
    /\ todo' = IF todo = <<>> THEN todo ELSE Tail(todo)
    /\ UNCHANGED <<after, remaining, unacked, count, inputs, queue, userVars, connVars,
                   brokerVars, dead, asked>>

\* tx has room again: only now the message is tracked.
Unpark ==
    /\ engine = "parked"
    /\ Len(queue) <= QueueSize \/ user = "dropped"
    /\ engine' = IF todo = <<>> THEN "loop" ELSE "push"
    /\ unacked' = IF HasDelay /\ todo # <<>> THEN unacked \cup {Head(todo)} ELSE unacked
    /\ asked' = IF HasDelay /\ todo # <<>> THEN asked \ {Head(todo)} ELSE asked
    /\ todo' = IF todo = <<>> THEN todo ELSE Tail(todo)
    /\ UNCHANGED <<after, remaining, count, inputs, queue, userVars, connVars,
                   brokerVars, dead>>

PushedAll ==
    /\ engine = "push" /\ todo = <<>>
    /\ engine' = "loop"
    /\ UNCHANGED <<after, remaining, unacked, todo, count, inputs, queue, userVars,
                   connVars, brokerVars, dead, asked>>

\* An error of process_message goes to the user, in place of a message.
Report ==
    /\ engine = "report"
    /\ IF user = "dropped"
       THEN Stop /\ UNCHANGED queue
       ELSE /\ queue' = Append(queue, None)
            /\ engine' = "parked"
            /\ UNCHANGED attached
    /\ UNCHANGED <<after, remaining, unacked, todo, count, inputs, userVars, connVars,
                   permits, sent, outstanding, acked, notices, dead, asked>>

\* reconnect: close_consumer poisons a dead connection (again), and a slow one.
CloseConsumer ==
    /\ engine = "reconnect"
    /\ engine' = "subscribe"
    /\ attached' = FALSE
    /\ flag' \in {flag \/ ~alive, TRUE}
    /\ UNCHANGED <<after, remaining, unacked, todo, count, inputs, queue, userVars,
                   epoch, alive, neighbour, permits, sent, outstanding, acked, notices,
                   dead, asked>>

\* retry_subscribe_consumer succeeds: a new source, with batch_size permits, on
\* a connection a neighbour may use too.  (Bound: one that leaves.)
Subscribe ==
    /\ engine = "subscribe"
    /\ epoch < MaxEpoch
    /\ epoch' = epoch + 1
    /\ alive' = TRUE /\ flag' = FALSE
    /\ attached' = TRUE /\ permits' = BatchSize /\ outstanding' = {}
    /\ remaining' = BatchSize
    /\ engine' = "loop"
    /\ UNCHANGED <<after, unacked, todo, count, inputs, queue, userVars, neighbour,
                   sent, acked, notices, dead, asked>>

\* The lookup, the subscription or its first send_flow fails for good: the
\* engine stops, or reports it and goes on without a source.
SubscribeFails ==
    /\ engine = "subscribe"
    /\ IF after = "stop" THEN Stop ELSE engine' = "report" /\ UNCHANGED attached
    /\ UNCHANGED <<after, remaining, unacked, todo, count, inputs, queue, userVars,
                   connVars, permits, sent, outstanding, acked, notices, dead, asked>>

\* The broker sends these messages again.
Redeliver(S) ==
    outstanding' = IF attached THEN outstanding \ {x[1] : x \in S} ELSE outstanding

\* handle_ack_opt.
HandleRequest ==
    /\ engine = "wait" /\ events # <<>>
    /\ events' = Tail(events)
    /\ LET ev == Head(events) IN
       \/ /\ ev.type = "ack"
          /\ unacked' = unacked \ {ev.id}
          /\ Acknowledge({ev.id})
          /\ engine' = "loop"
          /\ UNCHANGED <<attached, outstanding, answered, asked>>
       \/ /\ ev.type = "cumulative"
          /\ unacked' = unacked \ {ev.id}
          /\ Acknowledge({x \in Items : x[1] < ev.id[1] \/ (x[1] = ev.id[1] /\ x[2] <= ev.id[2])})
          /\ engine' = "loop"
          /\ UNCHANGED <<attached, outstanding, answered, asked>>
       \/ /\ ev.type = "nack"
          /\ Redeliver({ev.id})
          /\ engine' = "loop"
          /\ UNCHANGED <<unacked, attached, acked, answered, asked>>
       \/ /\ ev.type = "tick"
          /\ \E S \in SUBSET unacked :
                /\ Redeliver(S)
                /\ unacked' = unacked \ S
                /\ asked' = asked \cup S
          /\ engine' = "loop"
          /\ UNCHANGED <<attached, acked, answered>>
       \/ /\ ev.type = "get"
          /\ answered' = TRUE
          /\ engine' = "loop"
          /\ UNCHANGED <<unacked, attached, outstanding, acked, asked>>
       \/ /\ ev.type = "gone"
          /\ Stop
          /\ UNCHANGED <<unacked, outstanding, acked, answered, asked>>
    /\ UNCHANGED <<after, remaining, todo, count, sources, requests, gone, ticker,
                   queue, user, held, acks, connVars, permits, sent, notices, dead>>
-----------------------------------------------------------------------------
(* register_source: one task per source; and the ticker of TopicConsumer::new. *)

ForwardMessage(ep) ==
    /\ engine # "done"
    /\ sources[ep] # <<>>
    /\ events' = Append(events, Head(sources[ep]))
    /\ sources' = [sources EXCEPT ![ep] = Tail(@)]
    /\ UNCHANGED <<engineVars, requests, gone, ticker, queue, userVars, connVars,
                   brokerVars, dead, asked>>

ForwardRequest ==
    /\ engine # "done"
    /\ requests # <<>>
    /\ events' = Append(events, Head(requests))
    /\ requests' = Tail(requests)
    /\ UNCHANGED <<engineVars, sources, gone, ticker, queue, userVars, connVars,
                   brokerVars, dead, asked>>

\* Mutant: the end of the source is not forwarded.
ForwardEndForgotten == gone /\ UNCHANGED vars

\* Every sender of engine_rx is gone: the user's and the ticker's.
ForwardEnd ==
    /\ engine # "done"
    /\ requests = <<>> /\ user = "dropped" /\ ticker # "running" /\ ~gone
    /\ events' = Append(events, Request("gone", None))
    /\ gone' = TRUE
    /\ UNCHANGED <<engineVars, sources, requests, ticker, queue, userVars, connVars,
                   brokerVars, dead, asked>>

\* Every 500 ms.  Bound: one tick waits at a time, and none is sent while it
\* has nothing to ask for.
Tick ==
    /\ ticker = "running" /\ engine # "done"
    /\ unacked # {}
    /\ \A i \in DOMAIN requests : requests[i].type # "tick"
    /\ \A i \in DOMAIN events : events[i].type # "tick"
    /\ requests' = Append(requests, Request("tick", None))
    /\ UNCHANGED <<engineVars, sources, events, gone, ticker, queue, userVars,
                   connVars, brokerVars, dead, asked>>

\* Its channel is closed: engine_rx was dropped.
TickerStops ==
    /\ ticker = "running" /\ engine = "done"
    /\ ticker' = "stopped"
    /\ UNCHANGED <<engineVars, sources, requests, events, gone, queue, userVars,
                   connVars, brokerVars, dead, asked>>
-----------------------------------------------------------------------------
(* The user: TopicConsumer. *)

Receive ==
    /\ user = "idle" /\ queue # <<>>
    /\ queue' = Tail(queue)
    /\ held' = IF Head(queue) = None THEN held ELSE held \cup {Head(queue)}
    /\ UNCHANGED <<engineVars, inputs, user, answered, acks, connVars, brokerVars, dead, asked>>

\* ack, cumulative_ack and nack.
Settle(t, x) ==
    /\ user = "idle" /\ x \in held
    /\ held' = held \ {x}
    /\ acks' = IF t = "nack" THEN acks ELSE acks \cup {x}
    /\ requests' = IF engine = "done" THEN requests ELSE Append(requests, Request(t, x))
    /\ UNCHANGED <<engineVars, sources, events, gone, ticker, queue, user, answered,
                   connVars, brokerVars, dead, asked>>

\* connection, on behalf of seek, close, unsubscribe, get_last_message_id...
\* The user holds the consumer until it returns; the call it then makes may
\* end the subscription, which the engine is not told.  (Bound: one that is
\* answered.)
Ask ==
    /\ user = "idle" /\ ~answered
    /\ user' = "asking"
    /\ requests' = IF engine = "done" THEN requests ELSE Append(requests, Request("get", None))
    /\ UNCHANGED <<engineVars, sources, events, gone, ticker, queue, answered, held,
                   acks, connVars, brokerVars, dead, asked>>

AskReturns ==
    /\ user = "asking"
    /\ answered \/ engine = "done"
    /\ user' = "idle"
    /\ attached' \in {attached, attached /\ ~answered}
    /\ UNCHANGED <<engineVars, inputs, queue, answered, held, acks, connVars,
                   permits, sent, outstanding, acked, notices, dead, asked>>

DropConsumer ==
    /\ user = "idle"
    /\ user' = "dropped"
    /\ queue' = <<>>
    /\ UNCHANGED <<engineVars, inputs, answered, held, acks, connVars, brokerVars, dead, asked>>
-----------------------------------------------------------------------------
(* The broker and the connection, external. *)

Sendable == {e \in Entries : /\ e \notin outstanding
                             /\ sent[e] < MaxSends
                             /\ \E i \in 1..Batch[e] : <<e, i>> \notin acked}

BrokerSends ==
    /\ attached /\ permits > 0
    /\ Sendable # {}
    /\ LET e == CHOOSE e \in Sendable : \A f \in Sendable : e <= f IN
       /\ sources' = [sources EXCEPT ![epoch] = Append(@, Event("payload", <<e, 0>>, sent[e], epoch))]
       /\ permits' = permits - Batch[e]
       /\ sent' = [sent EXCEPT ![e] = @ + 1]
       /\ outstanding' = outstanding \cup {e}
    /\ UNCHANGED <<engineVars, requests, events, gone, ticker, queue, userVars,
                   connVars, attached, acked, notices, dead, asked>>

\* ActiveConsumerChange, ReachedEndOfTopic, CloseConsumer.
BrokerNotifies ==
    /\ attached /\ notices < MaxNotices
    /\ \E t \in Notices :
          /\ sources' = [sources EXCEPT ![epoch] = Append(@, Event(t, None, 0, epoch))]
          /\ attached' = (t # "close")
    /\ notices' = notices + 1
    /\ UNCHANGED <<engineVars, requests, events, gone, ticker, queue, userVars,
                   connVars, permits, sent, outstanding, acked, dead, asked>>

ConnectionDies ==
    /\ alive
    /\ alive' = FALSE /\ flag' = TRUE /\ attached' = FALSE
    /\ UNCHANGED <<engineVars, inputs, queue, userVars, epoch, neighbour, permits,
                   sent, outstanding, acked, notices, dead, asked>>

\* A call of somebody else timed out on the connection.
ConnectionPoisoned ==
    /\ alive /\ ~flag /\ notices < MaxNotices
    /\ flag' = TRUE
    /\ notices' = notices + 1
    /\ UNCHANGED <<engineVars, inputs, queue, userVars, epoch, alive, neighbour,
                   attached, permits, sent, outstanding, acked, dead, asked>>

\* The engine of another consumer takes the error of the connection they share,
\* for this one as well.
NeighbourTakes ==
    /\ neighbour = "sharing" /\ flag
    /\ flag' = FALSE
    /\ neighbour' = "closing"
    /\ UNCHANGED <<engineVars, inputs, queue, userVars, epoch, alive, brokerVars,
                   dead, asked>>

\* Mutant: close_consumer on a connection whose Receiver is gone only fails.
NeighbourClosesQuietly ==
    /\ neighbour = "closing"
    /\ neighbour' = "left"
    /\ UNCHANGED <<engineVars, inputs, queue, userVars, epoch, alive, flag, brokerVars,
                   dead, asked>>

\* Its close_consumer poisons the connection again when that is dead.  (A slow
\* one is ConnectionPoisoned.)
NeighbourCloses ==
    /\ neighbour = "closing"
    /\ flag' = (flag \/ ~alive)
    /\ neighbour' = "left"
    /\ UNCHANGED <<engineVars, inputs, queue, userVars, epoch, alive, brokerVars,
                   dead, asked>>
-----------------------------------------------------------------------------
Engine ==
    \/ CheckConnection \/ SendFlow \/ Idle \/ HandleMessage \/ HandleRequest
    \/ DeadLetter \/ Push \/ Unpark \/ PushedAll \/ Report
    \/ CloseConsumer \/ Subscribe \/ SubscribeFails

Forward == (\E ep \in 0..MaxEpoch : ForwardMessage(ep)) \/ ForwardRequest \/ ForwardEnd

User ==
    \/ Receive \/ Ask \/ AskReturns \/ DropConsumer
    \/ \E x \in Items, t \in Settling : Settle(t, x)

Broker == BrokerSends \/ BrokerNotifies \/ ConnectionDies \/ ConnectionPoisoned

Neighbour == NeighbourTakes \/ NeighbourCloses

Next == Engine \/ Forward \/ Tick \/ TickerStops \/ User \/ Broker \/ Neighbour

Spec == Init /\ [][Next]_vars

\* The executor runs the engines, the forwarding tasks and the ticker.  Every
\* request of the engine ends: operation_timeout bounds an attempt, max_retries
\* the attempts (when it is None, the broker's refusals are assumed to end).
\* The user and the broker owe nothing else.
FairSpec ==
    /\ Spec
    /\ WF_vars(Engine)
    /\ \A ep \in 0..MaxEpoch : WF_vars(ForwardMessage(ep))
    /\ WF_vars(ForwardRequest) /\ WF_vars(ForwardEnd)
    /\ WF_vars(Tick) /\ WF_vars(TickerStops)
    /\ WF_vars(AskReturns) /\ WF_vars(NeighbourCloses)

\* The user reads the stream as long as it is free to.
ReadingSpec == FairSpec /\ WF_vars(Receive)
-----------------------------------------------------------------------------
(* Properties. *)

Events ==
    [type : FromBroker \cup {"ack", "cumulative", "nack", "tick", "get", "gone"},
     id : (Entries \X {0}) \cup Items \cup {None}, count : 0..MaxSends, epoch : 0..MaxEpoch]

\* The type of the state of ConsumerEngine and TopicConsumer.  The queue holds
\* no more than receiver_queue_size messages and the one the engine waits on.
TypeOK ==
    /\ engine \in {"loop", "flow", "wait", "push", "parked", "report", "reconnect",
                   "subscribe", "done"}
    /\ after \in {"stop", "report"}
    /\ remaining \in Int /\ remaining <= BatchSize
    /\ unacked \subseteq Items
    /\ todo \in Seq(Items) /\ count \in 0..MaxSends
    /\ sources \in [0..MaxEpoch -> Seq(Events)]
    /\ requests \in Seq(Events) /\ events \in Seq(Events)
    /\ queue \in Seq(Items \cup {None}) /\ Len(queue) <= QueueSize + 1
    /\ user \in {"idle", "asking", "dropped"}
    /\ {gone, answered, alive, flag, attached} \subseteq BOOLEAN
    /\ ticker \in {"none", "running", "stopped"}
    /\ neighbour \in {"sharing", "closing", "left"}
    /\ held \subseteq Items /\ acks \subseteq Items
    /\ epoch \in 0..MaxEpoch /\ permits \in Int /\ notices \in 0..MaxNotices
    /\ sent \in [Entries -> 0..MaxSends] /\ outstanding \subseteq Entries
    /\ acked \subseteq Items /\ dead \subseteq Items /\ asked \subseteq Items

\* Messages of this subscription on their way to the engine.
Weight(s) ==
    Cardinality(UNION {{i} \X (1..Batch[s[i].id[1]]) :
                          i \in {j \in DOMAIN s : s[j].type = "payload" /\ s[j].epoch = epoch}})
EnRoute == Weight(sources[epoch]) + Weight(events)

\* The engine never waits for a broker that waits for permits: what the broker
\* may still send and what is on its way cover remaining_messages, which is at
\* least half of batch_size, also after batches larger than that, notices and
\* messages of an older subscription.
PermitsCover ==
    engine = "wait" /\ attached =>
        permits + EnRoute >= remaining /\ remaining >= Half

\* A message is acknowledged to the broker only when the user acknowledged it,
\* or a later one cumulatively, or when it is safe in the dead letter topic.
AckedWereHandled ==
    \A x \in acked : x \in dead \/ \E y \in acks : x[1] < y[1] \/ (x[1] = y[1] /\ x[2] <= y[2])

\* With a redelivery delay no message in the user's hands is forgotten: it is
\* tracked in unacked_messages until it is acknowledged or asked for again, and
\* anew when it comes again.
\* (The state has the type above throughout.)
InUserHands == held \cup {queue[i] : i \in {j \in DOMAIN queue : queue[j] # None}}
HeldAreTracked ==
    /\ TypeOK
    /\ HasDelay /\ engine # "done" =>
         \A x \in InUserHands :
            x \in unacked \cup asked \cup acks \cup dead \/ (todo # <<>> /\ x = Head(todo))

\* A message that tx would be sent is on its way to the engine.
Delivering ==
    \E s \in {events} \cup {sources[ep] : ep \in 0..MaxEpoch} :
        \E i \in DOMAIN s :
            s[i].type = "payload" /\ (MaxRedeliver = None \/ s[i].count < MaxRedeliver)

\* A consumer that is dropped stops its engine, and with it the ticker: at once
\* when it has no redelivery delay.  With one, the ticker's clone of engine_tx
\* keeps engine_rx open, and the engine goes on, subscribed, until the next
\* message finds tx closed.
DropStops ==
    user = "dropped" /\ (HasDelay => Delivering) ~> engine = "done" /\ ticker # "running"

\* A consumer whose connection died or was poisoned comes to have a live one
\* again, which it only gets by subscribing there, or its stream ends; also when
\* another engine takes the error of the connection they share, and this one
\* sees a dead connection as valid until that one's close_consumer fails.
Reconnects == flag \/ ~alive ~> (alive /\ ~flag) \/ engine = "done"
===============================================================================
