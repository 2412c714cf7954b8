------------------------------ MODULE Connection ------------------------------
(***************************************************************************)
(* One broker connection of the client (src/connection.rs): the callers of *)
(* ConnectionSender, the Receiver task that routes what the broker sends,  *)
(* the sink task that writes the two outbound channels, the task answering *)
(* authentication challenges and the SharedError flag they all share.      *)
(*                                                                         *)
(* A member of Req is one call on the ConnectionSender.  Its oneshot pair  *)
(* is slot[r]: the value the resolver sent, or Canceled once the resolver  *)
(* was dropped.  Every message the broker sends carries, as the auxiliary  *)
(* field "of", the call it answers; no handler reads it.                   *)
(***************************************************************************)
EXTENDS Naturals, Sequences, FiniteSets

CONSTANTS
    Req,             \* the calls made on this connection
    Kind,            \* what each call is, one of Kinds
    Target,          \* the consumer a subscribe or close call is about
    Consumers,       \* the consumers that may use this connection
    None,            \* no value
    DataCap,         \* outbound_channel_size, the data channel's bound
    BlockIfFull,     \* ProducerOptions::block_queue_if_full
    HasAuth,         \* whether an Authentication was configured
    MaxCalls,        \* bound: members of Req that are called in one behaviour
    MaxUnsolicited   \* bound: messages the broker sends on its own account

Kinds == {"rpc", "send", "create", "subscribe", "close", "ping"}

\* RequestKey: RequestId, or ProducerSend with the producer's sequence id.
Keys == {"id", "seq"} \X Nat

ASSUME ConnectionAssumption ==
    /\ Kind \in [Req -> Kinds]
    /\ Target \in [Req -> Consumers \cup {None}]
    /\ None \notin Req \cup Consumers \cup Keys
    /\ DataCap \in Nat \ {0}
    /\ {MaxCalls, MaxUnsolicited} \subseteq Nat
    /\ {BlockIfFull, HasAuth} \subseteq BOOLEAN
    /\ {"pong", "auth_response"} \cap Req = {}

VARIABLES
    pc, key, slot, outcome,      \* the callers
    request_id,                  \* SerialId of the connection
    sequence_id,                 \* SerialId of the producer that sends
    registrations,               \* mpsc of Register, callers -> Receiver
    control, data,               \* outbound channels, callers -> sink
    polling,                     \* where the Receiver's poll stands
    pending_requests, received_messages, consumers, ping,
    error,                       \* SharedError
    sink, auth, challenges,      \* sink task, auth task and its queue
    dropped,                     \* the last Arc<Connection> is gone
    socket, inbound,             \* the TCP stream and what it still holds
    broker, subscribed, unsolicited, \* the broker, external: what it
                                 \* knows of each call, and its consumers
    lost                         \* history: consumer messages discarded

caller == <<pc, key, slot, outcome, request_id, sequence_id>>
maps   == <<pending_requests, received_messages, consumers, ping, lost>>
tasks  == <<sink, auth, challenges, dropped>>
env    == <<socket, broker, subscribed, unsolicited>>
vars   == <<caller, registrations, control, data, polling, maps, error, tasks,
            inbound, env>>

Replies == {"success", "not_ready", "error"}

\* Message, reduced to what Receiver::poll looks at.
Msg(t, k, r, c) == [type |-> t, key |-> k, of |-> r, consumer |-> c]

\* What a oneshot receiver sees once its resolver was dropped.
Canceled == Msg("canceled", None, None, None)

Reply(r, t) == Msg(t, key[r], r, None)
Register(t, k, r, c) == [type |-> t, key |-> k, req |-> r, consumer |-> c]

\* BTreeMap::insert and ::remove on maps kept as sets of pairs.
Put(map, k, v) == {e \in map : e[1] # k} \cup {<<k, v>>}
Del(map, k)    == {e \in map : e[1] # k}
Get(map, k)    == {e[2] : e \in {x \in map : x[1] = k}}

Receiving == polling # "dead"
InFlight(r) == pc[r] \notin {"idle", "done"}

Init ==
    /\ pc = [r \in Req |-> "idle"]
    /\ key = [r \in Req |-> None]
    /\ slot = [r \in Req |-> None]
    /\ outcome = [r \in Req |-> None]
    /\ request_id = 0 /\ sequence_id = 0
    /\ registrations = <<>> /\ control = <<>> /\ data = <<>>
    /\ polling = "start"
    /\ pending_requests = {} /\ received_messages = {} /\ consumers = {}
    /\ ping = None
    /\ error = "none"
    /\ sink = "run"
    /\ auth = IF HasAuth THEN "run" ELSE "none"
    /\ challenges = 0
    /\ dropped = FALSE
    /\ socket = "open"
    /\ inbound = <<>>
    /\ broker = [r \in Req |-> "unasked"] /\ subscribed = {} /\ unsolicited = 0
    /\ lost = {}
-----------------------------------------------------------------------------
(* The callers: ConnectionSender. *)

\* The request returns to its caller.
Finish(r, o) ==
    /\ pc' = [pc EXCEPT ![r] = "done"]
    /\ outcome' = [outcome EXCEPT ![r] = o]

\* A call may begin: it needs the connection, and a consumer is closed after
\* it was subscribed.  Pings overlap: each handle's check_connection and the
\* keep-alive tasks of the connection send theirs when they like.
MayCall(r) ==
    /\ pc[r] = "idle"
    /\ ~dropped
    /\ Cardinality({q \in Req : pc[q] # "idle"}) < MaxCalls
    /\ Kind[r] = "close" =>
          \E s \in Req : Kind[s] = "subscribe" /\ Target[s] = Target[r] /\ pc[s] = "done"

\* Mutant: the counters are read but not advanced.
TakeKeySameId(r) ==
    /\ key' = [key EXCEPT ![r] = IF Kind[r] = "send" THEN <<"seq", sequence_id>>
                                                     ELSE <<"id", request_id>>]
    /\ UNCHANGED <<request_id, sequence_id>>

\* A fresh request id, or for a send the producer's next sequence id; a ping
\* has none.
TakeKey(r) ==
    CASE Kind[r] = "send" ->
             /\ key' = [key EXCEPT ![r] = <<"seq", sequence_id>>]
             /\ sequence_id' = sequence_id + 1
             /\ UNCHANGED request_id
      [] Kind[r] = "ping" ->
             UNCHANGED <<key, request_id, sequence_id>>
      [] OTHER ->
             /\ key' = [key EXCEPT ![r] = <<"id", request_id>>]
             /\ request_id' = request_id + 1
             /\ UNCHANGED sequence_id

\* Mutant: subscribe does not tell the Receiver.
RegisterConsumerSilently(r) ==
    /\ MayCall(r)
    /\ Kind[r] \in {"subscribe", "close"}
    /\ TakeKey(r)
    /\ pc' = [pc EXCEPT ![r] = "register"]
    /\ UNCHANGED <<slot, outcome, error, registrations, control, data, polling,
                   maps, tasks, inbound, env>>

\* subscribe and close_consumer tell the Receiver about the consumer first,
\* and poison the connection when the Receiver is gone.
RegisterConsumer(r) ==
    /\ MayCall(r)
    /\ Kind[r] \in {"subscribe", "close"}
    /\ TakeKey(r)
    /\ IF Receiving
       THEN /\ registrations' = Append(registrations,
                   Register(IF Kind[r] = "subscribe" THEN "consumer" ELSE "remove",
                            None, None, Target[r]))
            /\ pc' = [pc EXCEPT ![r] = "register"]
            /\ UNCHANGED <<outcome, error>>
       ELSE /\ Finish(r, "disconnected")
            /\ error' = "disconnected"
            /\ UNCHANGED registrations
    /\ UNCHANGED <<slot, control, data, polling, maps, tasks, inbound, env>>

\* First half of send_message_non_blocking: the resolver goes to the Receiver.
RegisterRequest(r) ==
    /\ Kind[r] # "ping"
    /\ \/ MayCall(r) /\ Kind[r] \notin {"subscribe", "close"} /\ TakeKey(r)
       \/ pc[r] = "register" /\ UNCHANGED <<key, request_id, sequence_id>>
    /\ IF Receiving
       THEN /\ registrations' = Append(registrations, Register("request", key'[r], r, None))
            /\ pc' = [pc EXCEPT ![r] = "enqueue"]
            /\ UNCHANGED outcome
       ELSE /\ Finish(r, "disconnected")
            /\ UNCHANGED registrations
    /\ UNCHANGED <<slot, control, data, polling, maps, error, tasks, inbound, env>>

\* First half of send_ping.  The ping is written even when its registration
\* was refused.
RegisterPing(r) ==
    /\ Kind[r] = "ping"
    /\ MayCall(r)
    /\ IF Receiving
       THEN /\ registrations' = Append(registrations, Register("ping", None, r, None))
            /\ pc' = [pc EXCEPT ![r] = "enqueue"]
            /\ UNCHANGED <<outcome, control>>
       ELSE /\ Finish(r, "disconnected")
            /\ control' = IF sink = "run" THEN Append(control, r) ELSE control
            /\ UNCHANGED registrations
    /\ UNCHANGED <<key, slot, request_id, sequence_id, data, polling, maps, error,
                   tasks, inbound, env>>

\* Second half of send_ping and of send_message_non_blocking with
\* SendChannel::Control.  The registration stays when the sink is gone.
EnqueueControl(r) ==
    /\ pc[r] = "enqueue"
    /\ Kind[r] # "send"
    /\ IF sink = "run"
       THEN /\ control' = Append(control, r)
            /\ pc' = [pc EXCEPT ![r] = "wait"]
            /\ UNCHANGED outcome
       ELSE Finish(r, "disconnected") /\ UNCHANGED control
    /\ UNCHANGED <<key, slot, request_id, sequence_id, registrations, data,
                   polling, maps, error, tasks, inbound, env>>

\* Mutant: the bound of the channel is off by one.
EnqueueDataOverfull(r) ==
    /\ pc[r] = "enqueue"
    /\ Kind[r] = "send"
    /\ sink = "run"
    /\ Len(data) <= DataCap
    /\ data' = Append(data, r)
    /\ pc' = [pc EXCEPT ![r] = "wait"]
    /\ UNCHANGED <<key, slot, outcome, request_id, sequence_id, registrations, control,
                   polling, maps, error, tasks, inbound, env>>

\* The same with SendChannel::DataBlocking or DataTrySend: a full channel
\* makes the first wait and the second give up.
EnqueueData(r) ==
    /\ pc[r] = "enqueue"
    /\ Kind[r] = "send"
    /\ \/ /\ sink = "run"
          /\ Len(data) < DataCap
          /\ data' = Append(data, r)
          /\ pc' = [pc EXCEPT ![r] = "wait"]
          /\ UNCHANGED outcome
       \/ /\ sink = "run"
          /\ Len(data) >= DataCap
          /\ ~BlockIfFull
          /\ Finish(r, "slow_down") /\ UNCHANGED data
       \/ /\ sink = "dead"
          /\ Finish(r, "disconnected") /\ UNCHANGED data
    /\ UNCHANGED <<key, slot, request_id, sequence_id, registrations, control,
                   polling, maps, error, tasks, inbound, env>>

Enqueue(r) == EnqueueControl(r) \/ EnqueueData(r)

\* extract_message: what the caller makes of a reply.
Extract(m) == IF m.type = "error" THEN "pulsar_error" ELSE "ok"

\* The caller wakes with a reply.  retry_create_producer goes on to
\* wait_for_exclusive_access when the producer is not ready.
Return(r) ==
    /\ pc[r] \in {"wait", "excl_wait"}
    /\ slot[r] \notin {None, Canceled}
    /\ IF Kind[r] = "create" /\ slot[r].type = "not_ready" /\ pc[r] = "wait"
       THEN /\ pc' = [pc EXCEPT ![r] = "excl"]
            /\ slot' = [slot EXCEPT ![r] = None]
            /\ UNCHANGED outcome
       ELSE Finish(r, Extract(slot[r])) /\ UNCHANGED slot
    /\ UNCHANGED <<key, request_id, sequence_id, registrations, control, data,
                   polling, maps, error, tasks, inbound, env>>

\* The resolver was dropped: the caller poisons the connection.
ReturnCanceled(r) ==
    /\ pc[r] \in {"wait", "excl_wait"}
    /\ slot[r] = Canceled
    /\ Finish(r, "disconnected")
    /\ error' = "disconnected"
    /\ UNCHANGED <<key, slot, request_id, sequence_id, registrations, control,
                   data, polling, maps, tasks, inbound, env>>

\* Mutant: send_ping has no timeout.
TimeoutNotOfPings(r) ==
    /\ Kind[r] # "ping"
    /\ pc[r] = "wait"
    /\ slot[r] = None
    /\ Finish(r, "timed_out")
    /\ error' = "timed_out"
    /\ UNCHANGED <<key, slot, request_id, sequence_id, registrations, control,
                   data, polling, maps, tasks, inbound, env>>

\* operation_timeout passes first; wait_exclusive_access has no timeout.
Timeout(r) ==
    /\ pc[r] = "wait"
    /\ slot[r] = None
    /\ Finish(r, "timed_out")
    /\ error' = "timed_out"
    /\ UNCHANGED <<key, slot, request_id, sequence_id, registrations, control,
                   data, polling, maps, tasks, inbound, env>>

\* wait_exclusive_access registers a second resolver under the same key.
RegisterExclusive(r) ==
    /\ pc[r] = "excl"
    /\ IF Receiving
       THEN /\ registrations' = Append(registrations, Register("request", key[r], r, None))
            /\ pc' = [pc EXCEPT ![r] = "excl_wait"]
            /\ UNCHANGED outcome
       ELSE /\ Finish(r, "disconnected")
            /\ UNCHANGED registrations
    /\ UNCHANGED <<key, slot, request_id, sequence_id, control, data, polling,
                   maps, error, tasks, inbound, env>>

\* ConsumerEngine::engine reads and clears the shared error of a connection
\* it still holds, before it closes its consumer there.
HoldsConnection(c) ==
    /\ \E s \in Req : Kind[s] = "subscribe" /\ Target[s] = c /\ outcome[s] = "ok"
    /\ \A s \in Req : Kind[s] = "close" /\ Target[s] = c => pc[s] = "idle"

TakeError(c) ==
    /\ HoldsConnection(c)
    /\ error # "none"
    /\ error' = "none"
    /\ UNCHANGED <<caller, registrations, control, data, polling, maps, tasks,
                   inbound, env>>

\* Drop for Connection, once no call and no consumer holds it.  A SendFuture
\* does not.
DropConnection ==
    /\ ~dropped
    /\ \A r \in Req : InFlight(r) => Kind[r] = "send" /\ pc[r] = "wait"
    /\ \A c \in Consumers : ~HoldsConnection(c)
    /\ dropped' = TRUE
    /\ UNCHANGED <<caller, registrations, control, data, polling, maps, error,
                   sink, auth, challenges, inbound, env>>
-----------------------------------------------------------------------------
(* The Receiver task. *)

\* Mutant: the resolvers still queued survive the Receiver.
OwnedByMaps(r) == (\E e \in pending_requests : e[2] = r) \/ ping = r

\* The Receiver is dropped: every resolver it owns, queued or stored, goes.
Owned(r) ==
    \/ \E i \in DOMAIN registrations : registrations[i].req = r
    \/ \E e \in pending_requests : e[2] = r
    \/ ping = r

ReceiverExits ==
    /\ polling' = "dead"
    /\ slot' = [r \in Req |-> IF slot[r] = None /\ Owned(r) THEN Canceled ELSE slot[r]]
    /\ registrations' = <<>>
    /\ pending_requests' = {} /\ received_messages' = {} /\ consumers' = {}
    /\ ping' = None
    /\ UNCHANGED lost

\* A wake-up: poll looks at the shutdown channel first.
PollStart ==
    /\ polling = "start"
    /\ dropped \/ registrations # <<>> \/ inbound # <<>> \/ socket = "closed"
    /\ IF dropped
       THEN ReceiverExits
       ELSE polling' = "registrations" /\ UNCHANGED <<slot, registrations, maps>>
    /\ UNCHANGED <<pc, key, outcome, request_id, sequence_id, control, data,
                   error, tasks, inbound, env>>

\* Replacing or dropping a stored resolver cancels its caller.
Resolve(f) == slot' = [r \in Req |-> IF slot[r] = None /\ f[r] # None THEN f[r] ELSE slot[r]]

PollRegistration ==
    /\ polling = "registrations"
    /\ registrations # <<>>
    /\ LET g    == Head(registrations)
           msgs == Get(received_messages, g.key)
       IN  /\ registrations' = Tail(registrations)
           /\ CASE g.type = "request" /\ msgs # {} ->
                     /\ Resolve([r \in Req |-> IF r = g.req THEN CHOOSE m \in msgs : TRUE ELSE None])
                     /\ received_messages' = Del(received_messages, g.key)
                     /\ UNCHANGED <<pending_requests, consumers, ping>>
                [] g.type = "request" /\ msgs = {} ->
                     /\ Resolve([r \in Req |-> IF r \in Get(pending_requests, g.key) THEN Canceled ELSE None])
                     /\ pending_requests' = Put(pending_requests, g.key, g.req)
                     /\ UNCHANGED <<received_messages, consumers, ping>>
                [] g.type = "ping" ->
                     /\ Resolve([r \in Req |-> IF r = ping THEN Canceled ELSE None])
                     /\ ping' = g.req
                     /\ UNCHANGED <<pending_requests, received_messages, consumers>>
                [] g.type = "consumer" ->
                     /\ consumers' = consumers \cup {g.consumer}
                     /\ UNCHANGED <<slot, pending_requests, received_messages, ping>>
                [] g.type = "remove" ->
                     /\ consumers' = consumers \ {g.consumer}
                     /\ UNCHANGED <<slot, pending_requests, received_messages, ping>>
    /\ UNCHANGED <<pc, key, outcome, request_id, sequence_id, control, data,
                   polling, error, tasks, inbound, lost, env>>

\* The registrations channel is drained; it is closed once dropped.
PollRegistrationsDone ==
    /\ polling = "registrations"
    /\ registrations = <<>>
    /\ IF dropped
       THEN ReceiverExits /\ error' = "disconnected"
       ELSE /\ polling' = "inbound"
            /\ UNCHANGED <<slot, registrations, maps, error>>
    /\ UNCHANGED <<pc, key, outcome, request_id, sequence_id, control, data,
                   tasks, inbound, env>>

\* Mutant: a reply that overtakes its registration is dropped.
RouteReplyNoParking(m) ==
    LET to == Get(pending_requests, m.key) IN
    /\ m.type \in Replies \cup {"close_producer"}
    /\ Resolve([r \in Req |-> IF r \in to THEN m ELSE None])
    /\ pending_requests' = Del(pending_requests, m.key)
    /\ UNCHANGED <<received_messages, consumers, ping, lost, error, control, challenges>>

\* A reply goes to its resolver, or waits for the registration to be read.
\* (The broker's own CloseProducer uses a request id no call has.)
RouteReply(m) ==
    LET to == Get(pending_requests, m.key) IN
    /\ m.type \in Replies \cup {"close_producer"}
    /\ IF to # {}
       THEN /\ Resolve([r \in Req |-> IF r \in to THEN m ELSE None])
            /\ pending_requests' = Del(pending_requests, m.key)
            /\ UNCHANGED received_messages
       ELSE /\ received_messages' = Put(received_messages, m.key, m)
            /\ UNCHANGED <<slot, pending_requests>>
    /\ UNCHANGED <<consumers, ping, lost, error, control, challenges>>

\* Messages go to the consumer, if it is registered; so does a CloseConsumer
\* whose request id no call waits for.
RouteConsumer(m) ==
    /\ m.type \in {"message", "close_consumer"}
    /\ m.type = "close_consumer" => Get(pending_requests, m.key) = {}
    /\ lost' = IF m.consumer \in consumers THEN lost ELSE lost \cup {<<m.type, m.consumer>>}
    /\ UNCHANGED <<slot, pending_requests, received_messages, consumers, ping,
                   error, control, challenges>>

RoutePing(m) ==
    /\ m.type = "ping"
    /\ IF sink = "run"
       THEN control' = Append(control, "pong") /\ UNCHANGED error
       ELSE error' = "disconnected" /\ UNCHANGED control
    /\ UNCHANGED <<slot, maps, challenges>>

RoutePong(m) ==
    /\ m.type = "pong"
    /\ Resolve([r \in Req |-> IF r = ping THEN m ELSE None])
    /\ ping' = None
    /\ UNCHANGED <<pending_requests, received_messages, consumers, lost, error,
                   control, challenges>>

RouteChallenge(m) ==
    /\ m.type = "auth_challenge"
    /\ challenges' = IF auth = "run" THEN challenges + 1 ELSE challenges
    /\ UNCHANGED <<slot, maps, error, control>>

PollInbound ==
    /\ polling = "inbound"
    /\ inbound # <<>>
    /\ inbound' = Tail(inbound)
    /\ LET m == Head(inbound) IN
          RouteReply(m) \/ RouteConsumer(m) \/ RoutePing(m) \/ RoutePong(m) \/ RouteChallenge(m)
    /\ UNCHANGED <<pc, key, outcome, request_id, sequence_id, registrations,
                   data, polling, sink, auth, dropped, env>>

\* Mutant: the end of the stream is not flagged.
PollInboundDoneSilently ==
    /\ polling = "inbound"
    /\ inbound = <<>>
    /\ IF socket = "open"
       THEN polling' = "start" /\ UNCHANGED <<slot, registrations, maps>>
       ELSE ReceiverExits
    /\ UNCHANGED <<pc, key, outcome, request_id, sequence_id, control, data,
                   error, tasks, inbound, env>>

\* The stream is drained: Pending, or its end or an I/O error.
PollInboundDone ==
    /\ polling = "inbound"
    /\ inbound = <<>>
    /\ IF socket = "open"
       THEN polling' = "start" /\ UNCHANGED <<slot, registrations, maps, error>>
       ELSE ReceiverExits /\ error' \in {"disconnected", "io"}
    /\ UNCHANGED <<pc, key, outcome, request_id, sequence_id, control, data,
                   tasks, inbound, env>>
-----------------------------------------------------------------------------
(* The sink task and the authentication task. *)

SinkExits == sink' = "dead" /\ control' = <<>> /\ data' = <<>>

\* select_biased!: control first.  A write to a closed socket ends the task.
SinkWrite ==
    /\ sink = "run"
    /\ control # <<>> \/ data # <<>>
    /\ IF socket = "closed"
       THEN SinkExits /\ error' = "io" /\ UNCHANGED broker
       ELSE LET ch == IF control # <<>> THEN control ELSE data IN
            /\ control' = IF control # <<>> THEN Tail(control) ELSE control
            /\ data' = IF control # <<>> THEN data ELSE Tail(data)
            /\ broker' = IF Head(ch) \in Req THEN [broker EXCEPT ![Head(ch)] = "asked"] ELSE broker
            /\ UNCHANGED <<sink, error>>
    /\ UNCHANGED <<caller, registrations, polling, maps, auth, challenges,
                   dropped, inbound, socket, subscribed, unsolicited>>

\* Both channels are empty and the senders are gone.
SinkCloses ==
    /\ sink = "run"
    /\ dropped /\ control = <<>> /\ data = <<>>
    /\ SinkExits
    /\ UNCHANGED <<caller, registrations, polling, maps, error, auth, challenges,
                   dropped, inbound, env>>

\* prepare_auth_data succeeds and is sent, or fails and ends the task.
AnswerChallenge ==
    /\ auth = "run"
    /\ challenges > 0
    /\ challenges' = challenges - 1
    /\ \/ /\ control' = IF sink = "run" THEN Append(control, "auth_response") ELSE control
          /\ UNCHANGED <<auth, error>>
       \/ auth' = "dead" /\ error' = "auth" /\ UNCHANGED control
    /\ UNCHANGED <<caller, registrations, data, polling, maps, sink, dropped,
                   inbound, env>>
-----------------------------------------------------------------------------
(* The broker and the network, external: it answers, or never does. *)

Send(m) == inbound' = Append(inbound, m)

\* A producer waiting for exclusive access is told so first, answered later.
BrokerReply(r) ==
    /\ socket = "open"
    /\ \/ /\ Kind[r] = "create" /\ broker[r] = "asked"
          /\ Send(Reply(r, "not_ready"))
          /\ broker' = [broker EXCEPT ![r] = "queued"]
          /\ UNCHANGED subscribed
       \/ /\ broker[r] \in {"asked", "queued"}
          /\ Send(Reply(r, IF Kind[r] = "ping" THEN "pong" ELSE "success"))
          /\ broker' = [broker EXCEPT ![r] = "answered"]
          /\ subscribed' = CASE Kind[r] = "subscribe" -> subscribed \cup {Target[r]}
                             [] Kind[r] = "close"     -> subscribed \ {Target[r]}
                             [] OTHER                 -> subscribed
       \/ /\ Kind[r] # "ping" /\ broker[r] \in {"asked", "queued"}
          /\ Send(Reply(r, "error"))
          /\ broker' = [broker EXCEPT ![r] = "answered"]
          /\ UNCHANGED subscribed
    /\ UNCHANGED <<caller, registrations, control, data, polling, maps, error,
                   tasks, socket, unsolicited>>

\* Messages follow the permits the consumer sends once it is subscribed.
BrokerSends ==
    /\ socket = "open" /\ unsolicited < MaxUnsolicited
    /\ unsolicited' = unsolicited + 1
    /\ \/ \E c \in subscribed : HoldsConnection(c) /\ Send(Msg("message", None, None, c))
                                /\ UNCHANGED subscribed
       \/ \E c \in subscribed : Send(Msg("close_consumer", None, None, c))
                                /\ subscribed' = subscribed \ {c}
       \/ \E t \in {"ping", "auth_challenge", "close_producer"} :
             Send(Msg(t, None, None, None)) /\ UNCHANGED subscribed
    /\ UNCHANGED <<caller, registrations, control, data, polling, maps, error,
                   tasks, socket, broker>>

SocketCloses ==
    /\ socket = "open"
    /\ socket' = "closed"
    /\ UNCHANGED <<caller, registrations, control, data, polling, maps, error,
                   tasks, inbound, broker, subscribed, unsolicited>>
-----------------------------------------------------------------------------
Caller(r) ==
    \/ RegisterConsumer(r) \/ RegisterRequest(r) \/ RegisterPing(r) \/ Enqueue(r)
    \/ Return(r) \/ ReturnCanceled(r) \/ Timeout(r) \/ RegisterExclusive(r)

Receiver ==
    \/ PollStart \/ PollRegistration \/ PollRegistrationsDone
    \/ PollInbound \/ PollInboundDone

Broker == (\E r \in Req : BrokerReply(r)) \/ BrokerSends \/ SocketCloses

Next ==
    \/ \E r \in Req : Caller(r)
    \/ \E c \in Consumers : TakeError(c)
    \/ DropConnection
    \/ Receiver
    \/ SinkWrite \/ SinkCloses \/ AnswerChallenge
    \/ Broker

Spec == Init /\ [][Next]_vars

\* The executor polls every task that was woken, and timers fire.  A new
\* call, the broker and the network owe nothing: a write may block for ever
\* while the socket is open.
Resumes(r) ==
    \/ pc[r] # "idle" /\ (RegisterRequest(r) \/ Enqueue(r))
    \/ Return(r) \/ ReturnCanceled(r) \/ RegisterExclusive(r)

FairSpec ==
    /\ Spec
    /\ WF_vars(Receiver)
    /\ WF_vars(socket = "closed" /\ SinkWrite)
    /\ \A r \in Req : WF_vars(Resumes(r)) /\ WF_vars(Timeout(r))
-----------------------------------------------------------------------------
(* Properties. *)

Messages ==
    [type : Replies \cup {"pong", "canceled", "message", "close_consumer", "ping",
                          "auth_challenge", "close_producer"},
     key : Keys \cup {None}, of : Req \cup {None}, consumer : Consumers \cup {None}]

Registers ==
    [type : {"request", "ping"}, key : Keys \cup {None}, req : Req, consumer : {None}]
    \cup
    [type : {"consumer", "remove"}, key : {None}, req : {None}, consumer : Consumers \cup {None}]

ASSUME MessageAssumption == None \notin Messages /\ None # "ok"

CallersOK ==
    /\ pc \in [Req -> {"idle", "register", "enqueue", "wait", "excl", "excl_wait", "done"}]
    /\ key \in [Req -> Keys \cup {None}]
    /\ slot \in [Req -> Messages \cup {None}]
    /\ outcome \in [Req -> {"ok", "pulsar_error", "disconnected", "timed_out", "slow_down", None}]
    /\ request_id \in Nat
    /\ sequence_id \in Nat

ChannelsOK ==
    /\ registrations \in Seq(Registers)
    /\ control \in Seq(Req \cup {"pong", "auth_response"})
    /\ data \in Seq(Req)
    /\ Len(data) <= DataCap
    /\ inbound \in Seq(Messages)

ReceiverOK ==
    /\ polling \in {"start", "registrations", "inbound", "dead"}
    /\ pending_requests \subseteq (Keys \cup {None}) \X Req
    /\ received_messages \subseteq (Keys \cup {None}) \X Messages
    /\ consumers \subseteq Consumers \cup {None}
    /\ ping \in Req \cup {None}
    /\ lost \subseteq {"message", "close_consumer"} \X (Consumers \cup {None})

TasksOK ==
    /\ error \in {"none", "disconnected", "timed_out", "io", "auth"}
    /\ sink \in {"run", "dead"}
    /\ auth \in {"none", "run", "dead"}
    /\ challenges \in Nat
    /\ dropped \in BOOLEAN

BrokerOK ==
    /\ socket \in {"open", "closed"}
    /\ broker \in [Req -> {"unasked", "asked", "queued", "answered"}]
    /\ subscribed \subseteq Consumers \cup {None}
    /\ unsolicited \in 0..MaxUnsolicited

\* The type of the state of the connection: Receiver, ConnectionSender and
\* the tasks spawned by Connection::connect.  The data channel never holds
\* more than outbound_channel_size messages.
TypeOK == CallersOK /\ ChannelsOK /\ ReceiverOK /\ TasksOK /\ BrokerOK

\* Receiver::poll never resolves a caller with the answer to another call:
\* request ids, sequence ids, the pending_requests map and the parked
\* received_messages stay consistent whatever the order in which
\* registrations and answers reach the Receiver.  (A pong carries no id.)
RepliesMatch ==
    \A r \in Req : Kind[r] # "ping" /\ slot[r] \notin {None, Canceled} => slot[r].of = r

\* The final answer to r is on its way to the caller.
OnItsWay(r) ==
    \/ slot[r] # None /\ slot[r].type # "not_ready"
    \/ \E i \in DOMAIN inbound : inbound[i].of = r /\ inbound[i].type # "not_ready"
    \/ /\ \E m \in Get(received_messages, key[r]) : m.of = r /\ m.type # "not_ready"
       /\ \/ pc[r] = "excl"
          \/ pc[r] = "wait" /\ slot[r] # None
          \/ \E i \in DOMAIN registrations : registrations[i].req = r

\* No answer is lost while the Receiver lives: a caller still waiting for an
\* answer the broker has sent finds it in its oneshot, in the stream, or
\* parked in received_messages with the registration that collects it still
\* to be read - also when an answer overtakes its registration and when a
\* queued producer is answered before wait_exclusive_access registers.
NoReplyLost ==
    \A r \in Req :
        /\ Kind[r] # "ping" /\ broker[r] = "answered" /\ Receiving
        /\ pc[r] \in {"wait", "excl", "excl_wait"}
        => OnItsWay(r)

\* The Receiver keeps one ping resolver: a ping that another one overtook may
\* have lost its own, and reads that as Disconnected.
Overtaken(r) ==
    /\ Kind[r] = "ping" /\ slot[r] = Canceled
    /\ \E q \in Req \ {r} : Kind[q] = "ping" /\ pc[q] # "idle"

\* A connection is flagged Disconnected only when one of its tasks has ended,
\* its last handle is gone, or a ping overtook another: of the calls that read
\* Canceled as Disconnected (send_ping, send_message_non_blocking and
\* wait_exclusive_access), no other does so on a live connection.
DisconnectedMeansDown ==
    error = "disconnected" =>
        polling = "dead" \/ sink = "dead" \/ dropped \/ \E r \in Req : Overtaken(r)

\* Connection::is_valid tells a dead Receiver: the connection is poisoned once
\* its Receiver has stopped by itself, and whenever an engine took the error
\* away it still has its consumer to close, which sets it again.
DownIsFlagged ==
    polling = "dead" /\ ~dropped =>
        error # "none" \/ \E c \in Consumers : HoldsConnection(c)

\* The shared error tells the state of the connection, both ways, to the
\* producers and consumers that decide on it whether to reconnect; overlapping
\* pings are all that can make it report a live connection as disconnected.
FlagTellsTruth == DisconnectedMeansDown /\ DownIsFlagged

\* The Receiver discards a consumer's message only after the client asked to
\* close that consumer.
NoMessageLost ==
    \A e \in lost : e[1] = "message" =>
        \E r \in Req : Kind[r] = "close" /\ Target[r] = e[2] /\ pc[r] # "idle"

\* A send with block_queue_if_full is held up by a peer that keeps the socket
\* open and reads nothing: operation_timeout starts after the channel.
HeldUp(r) ==
    /\ pc[r] = "enqueue" /\ Kind[r] = "send" /\ BlockIfFull
    /\ sink = "run" /\ Len(data) >= DataCap /\ socket = "open"

\* Every call ends, whatever the broker does, with its answer, the dropped
\* resolver or the operation timeout, but for the two that have no timeout:
\* wait_exclusive_access, and a blocking send for as long as the data channel
\* is full and the socket open.  (A call is made once, so that all have ended
\* at once means that each does.)
EveryCallReturns == []<>(\A r \in Req : InFlight(r) => pc[r] = "excl_wait" \/ HeldUp(r))

\* Even wait_exclusive_access, which has no timeout, ends when the Receiver
\* does: all resolvers it was ever given are dropped with it.
DeadReceiverFreesCallers ==
    (polling = "dead") ~> (\A r \in Req : pc[r] # "excl_wait")

-----------------------------------------------------------------------------
(* The parts of the inductive invariant behind RepliesMatch. *)

\* Keys come from the two serial counters, one per call, kept for ever.
KeysFresh ==
    \A r \in Req :
        /\ pc[r] = "idle" => key[r] = None
        /\ pc[r] # "idle" /\ Kind[r] # "ping" => key[r] # None
        /\ pc[r] \in {"excl", "excl_wait"} => Kind[r] = "create"
        /\ key[r] # None =>
              key[r][2] < (IF key[r][1] = "id" THEN request_id ELSE sequence_id)

KeysUnique ==
    \A r, q \in Req : key[r] # None /\ key[r] = key[q] => r = q

\* The resolvers the Receiver owns are filed under their caller's key.
Filed(g) ==
    /\ g.type = "request" => g.key # None /\ g.key = key[g.req]
    /\ g.type = "ping" => Kind[g.req] = "ping"

RegistrationsFiled == \A i \in DOMAIN registrations : Filed(registrations[i])

ResolversFiled ==
    /\ \A e \in pending_requests : e[1] # None /\ e[1] = key[e[2]]
    /\ ping # None => Kind[ping] = "ping"

\* A message under a call's key answers that call.
Answers(m, k) == k # None => m.of \in Req /\ k = key[m.of]

InboundFiled == \A i \in DOMAIN inbound : Answers(inbound[i], inbound[i].key)

ParkedFiled == \A e \in received_messages : Answers(e[2], e[1])

RoutingInv ==
    /\ KeysFresh /\ KeysUnique
    /\ RegistrationsFiled /\ ResolversFiled /\ InboundFiled /\ ParkedFiled
===============================================================================
