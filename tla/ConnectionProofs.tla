-------------------------- MODULE ConnectionProofs --------------------------
(* Proofs about Connection, for any set of calls, any mix of their kinds,   *)
(* any data channel bound and any number of messages from the broker.       *)
EXTENDS Connection, TLAPS

\* What the constructors of the model build has the declared type.
LEMMA TakeKeyType ==
    ASSUME CallersOK, NEW r \in Req, TakeKey(r)
    PROVE  /\ key' \in [Req -> Keys \cup {None}]
           /\ request_id' \in Nat
           /\ sequence_id' \in Nat
<1>1. CASE Kind[r] = "send"
  BY <1>1 DEF TakeKey, CallersOK, Keys
<1>2. CASE Kind[r] = "ping"
  BY <1>2 DEF TakeKey, CallersOK
<1>3. CASE Kind[r] \notin {"send", "ping"}
  BY <1>3 DEF TakeKey, CallersOK, Keys
<1> QED BY <1>1, <1>2, <1>3

LEMMA RegisterType ==
    ASSUME NEW t \in {"request", "ping"}, NEW k \in Keys \cup {None}, NEW r \in Req
    PROVE  Register(t, k, r, None) \in Registers
BY DEF Register, Registers

LEMMA RegisterConsumerType ==
    ASSUME NEW t \in {"consumer", "remove"}, NEW c \in Consumers \cup {None}
    PROVE  Register(t, None, None, c) \in Registers
BY DEF Register, Registers

LEMMA MsgType ==
    ASSUME NEW t \in Replies \cup {"pong", "canceled", "message", "close_consumer",
                                   "ping", "auth_challenge", "close_producer"},
           NEW k \in Keys \cup {None}, NEW r \in Req \cup {None},
           NEW c \in Consumers \cup {None}
    PROVE  Msg(t, k, r, c) \in Messages
BY DEF Msg, Messages

LEMMA CanceledType == Canceled \in Messages
BY MsgType DEF Canceled

\* Channels after a send and after a receive.
LEMMA Appends ==
    ASSUME NEW S, NEW s \in Seq(S), NEW x \in S
    PROVE  Append(s, x) \in Seq(S) /\ Len(Append(s, x)) = Len(s) + 1
OBVIOUS

LEMMA Takes ==
    ASSUME NEW S, NEW s \in Seq(S), s # <<>>
    PROVE  Head(s) \in S /\ Tail(s) \in Seq(S) /\ Len(Tail(s)) = Len(s) - 1
OBVIOUS

LEMMA AppendElements ==
    ASSUME NEW S, NEW s \in Seq(S), NEW x
    PROVE  \A i \in DOMAIN Append(s, x) :
              \/ Append(s, x)[i] = x
              \/ i \in DOMAIN s /\ Append(s, x)[i] = s[i] /\ s[i] \in S
OBVIOUS

LEMMA TailElements ==
    ASSUME NEW S, NEW s \in Seq(S), s # <<>>
    PROVE  /\ 1 \in DOMAIN s /\ Head(s) = s[1]
           /\ \A i \in DOMAIN Tail(s) : i + 1 \in DOMAIN s /\ Tail(s)[i] = s[i + 1]
OBVIOUS

\* The initial state of a connection is well typed.
LEMMA InitTypeOK == Init => TypeOK
<1> SUFFICES ASSUME Init PROVE TypeOK
  OBVIOUS
<1> USE ConnectionAssumption DEF Init
<1>1. CallersOK BY DEF CallersOK
<1>2. ChannelsOK BY DEF ChannelsOK
<1>3. ReceiverOK BY DEF ReceiverOK
<1>4. TasksOK BY DEF TasksOK
<1>5. BrokerOK BY DEF BrokerOK
<1> QED BY <1>1, <1>2, <1>3, <1>4, <1>5 DEF TypeOK

\* Every step of the calling side of the connection keeps the types.
LEMMA CallerTypeOK ==
    ASSUME TypeOK, NEW r \in Req, Caller(r)
    PROVE  TypeOK'
<1> USE DEF TypeOK, caller, maps, tasks, env, Finish
<1>1. CASE RegisterConsumer(r)
  <2>a. /\ Register("consumer", None, None, Target[r]) \in Registers
        /\ Register("remove", None, None, Target[r]) \in Registers
    BY RegisterConsumerType, ConnectionAssumption
  <2>b. \E g \in Registers : registrations' \in {registrations, Append(registrations, g)}
    BY <1>1, <2>a DEF RegisterConsumer
  <2>c. PICK g \in Registers : /\ registrations' \in {registrations, Append(registrations, g)}
                               /\ UNCHANGED <<control, data, inbound>>
    BY <1>1, <2>b DEF RegisterConsumer
  <2>1. CallersOK'
    BY <1>1, TakeKeyType DEF RegisterConsumer, CallersOK
  <2>2. ChannelsOK'
    BY <2>c, Appends DEF ChannelsOK
  <2>3. ReceiverOK'
    BY <1>1 DEF RegisterConsumer, ReceiverOK
  <2>4. TasksOK'
    BY <1>1 DEF RegisterConsumer, TasksOK
  <2>5. BrokerOK'
    BY <1>1 DEF RegisterConsumer, BrokerOK
  <2> QED BY <2>1, <2>2, <2>3, <2>4, <2>5 DEF TypeOK
<1>2. CASE RegisterRequest(r)
  <2>a. /\ key' \in [Req -> Keys \cup {None}]
        /\ request_id' \in Nat
        /\ sequence_id' \in Nat
    BY <1>2, TakeKeyType DEF RegisterRequest, CallersOK
  <2>b. Register("request", key'[r], r, None) \in Registers
    BY <2>a, RegisterType
  <2>d. PICK g \in Registers : /\ registrations' \in {registrations, Append(registrations, g)}
                               /\ UNCHANGED <<control, data, inbound>>
    BY <1>2, <2>b DEF RegisterRequest
  <2>1. CallersOK'
    BY <1>2, <2>a DEF RegisterRequest, CallersOK
  <2>2. ChannelsOK'
    BY <2>d, Appends DEF ChannelsOK
  <2>3. ReceiverOK'
    BY <1>2 DEF RegisterRequest, ReceiverOK
  <2>4. TasksOK'
    BY <1>2 DEF RegisterRequest, TasksOK
  <2>5. BrokerOK'
    BY <1>2 DEF RegisterRequest, BrokerOK
  <2> QED BY <2>1, <2>2, <2>3, <2>4, <2>5 DEF TypeOK
<1>3. CASE RegisterPing(r)
  <2>a. Register("ping", None, r, None) \in Registers
    BY RegisterType
  <2>b. PICK g \in Registers : /\ registrations' \in {registrations, Append(registrations, g)}
                               /\ UNCHANGED <<data, inbound>>
    BY <1>3, <2>a DEF RegisterPing
  <2>c. control' \in {control, Append(control, r)}
    BY <1>3 DEF RegisterPing
  <2>1. CallersOK'
    BY <1>3 DEF RegisterPing, CallersOK
  <2>2. ChannelsOK'
    BY <2>b, <2>c, Appends DEF ChannelsOK
  <2>3. ReceiverOK'
    BY <1>3 DEF RegisterPing, ReceiverOK
  <2>4. TasksOK'
    BY <1>3 DEF RegisterPing, TasksOK
  <2>5. BrokerOK'
    BY <1>3 DEF RegisterPing, BrokerOK
  <2> QED BY <2>1, <2>2, <2>3, <2>4, <2>5 DEF TypeOK
<1>4. CASE EnqueueControl(r)
  <2>a. /\ control' \in {control, Append(control, r)}
        /\ UNCHANGED <<registrations, data, inbound>>
    BY <1>4 DEF EnqueueControl
  <2>1. CallersOK'
    BY <1>4 DEF EnqueueControl, CallersOK
  <2>2. ChannelsOK'
    BY <2>a, Appends DEF ChannelsOK
  <2>3. ReceiverOK'
    BY <1>4 DEF EnqueueControl, ReceiverOK
  <2>4. TasksOK'
    BY <1>4 DEF EnqueueControl, TasksOK
  <2>5. BrokerOK'
    BY <1>4 DEF EnqueueControl, BrokerOK
  <2> QED BY <2>1, <2>2, <2>3, <2>4, <2>5 DEF TypeOK
<1>5. CASE EnqueueData(r)
  <2>a. data' = data \/ (Len(data) < DataCap /\ data' = Append(data, r))
    BY <1>5 DEF EnqueueData
  <2>b. data' \in Seq(Req)
    BY <2>a, Appends DEF ChannelsOK
  <2>c. Len(data') <= DataCap
    BY <2>a, Appends, ConnectionAssumption DEF ChannelsOK
  <2>d. UNCHANGED <<registrations, control, inbound>>
    BY <1>5 DEF EnqueueData
  <2>1. CallersOK'
    BY <1>5 DEF EnqueueData, CallersOK
  <2>2. ChannelsOK'
    BY <2>b, <2>c, <2>d DEF ChannelsOK
  <2>3. ReceiverOK'
    BY <1>5 DEF EnqueueData, ReceiverOK
  <2>4. TasksOK'
    BY <1>5 DEF EnqueueData, TasksOK
  <2>5. BrokerOK'
    BY <1>5 DEF EnqueueData, BrokerOK
  <2> QED BY <2>1, <2>2, <2>3, <2>4, <2>5 DEF TypeOK
<1>6. CASE Return(r)
  <2>1. CallersOK'
    BY <1>6 DEF Return, CallersOK, Extract
  <2>2. ChannelsOK'
    BY <1>6 DEF Return, ChannelsOK
  <2>3. ReceiverOK'
    BY <1>6 DEF Return, ReceiverOK
  <2>4. TasksOK'
    BY <1>6 DEF Return, TasksOK
  <2>5. BrokerOK'
    BY <1>6 DEF Return, BrokerOK
  <2> QED BY <2>1, <2>2, <2>3, <2>4, <2>5 DEF TypeOK
<1>7. CASE ReturnCanceled(r)
  <2>1. CallersOK'
    BY <1>7 DEF ReturnCanceled, CallersOK
  <2>2. ChannelsOK'
    BY <1>7 DEF ReturnCanceled, ChannelsOK
  <2>3. ReceiverOK'
    BY <1>7 DEF ReturnCanceled, ReceiverOK
  <2>4. TasksOK'
    BY <1>7 DEF ReturnCanceled, TasksOK
  <2>5. BrokerOK'
    BY <1>7 DEF ReturnCanceled, BrokerOK
  <2> QED BY <2>1, <2>2, <2>3, <2>4, <2>5 DEF TypeOK
<1>8. CASE Timeout(r)
  <2>1. CallersOK'
    BY <1>8 DEF Timeout, CallersOK
  <2>2. ChannelsOK'
    BY <1>8 DEF Timeout, ChannelsOK
  <2>3. ReceiverOK'
    BY <1>8 DEF Timeout, ReceiverOK
  <2>4. TasksOK'
    BY <1>8 DEF Timeout, TasksOK
  <2>5. BrokerOK'
    BY <1>8 DEF Timeout, BrokerOK
  <2> QED BY <2>1, <2>2, <2>3, <2>4, <2>5 DEF TypeOK
<1>9. CASE RegisterExclusive(r)
  <2>a. Register("request", key[r], r, None) \in Registers
    BY RegisterType DEF CallersOK
  <2>b. PICK g \in Registers : /\ registrations' \in {registrations, Append(registrations, g)}
                               /\ UNCHANGED <<control, data, inbound>>
    BY <1>9, <2>a DEF RegisterExclusive
  <2>1. CallersOK'
    BY <1>9 DEF RegisterExclusive, CallersOK
  <2>2. ChannelsOK'
    BY <2>b, Appends DEF ChannelsOK
  <2>3. ReceiverOK'
    BY <1>9 DEF RegisterExclusive, ReceiverOK
  <2>4. TasksOK'
    BY <1>9 DEF RegisterExclusive, TasksOK
  <2>5. BrokerOK'
    BY <1>9 DEF RegisterExclusive, BrokerOK
  <2> QED BY <2>1, <2>2, <2>3, <2>4, <2>5 DEF TypeOK
<1> QED
  BY <1>1, <1>2, <1>3, <1>4, <1>5, <1>6, <1>7, <1>8, <1>9 DEF Caller, Enqueue

\* The Receiver's maps stay maps.
LEMMA PutType ==
    ASSUME NEW K, NEW V, NEW m \in SUBSET (K \X V), NEW k \in K, NEW v \in V
    PROVE  Put(m, k, v) \in SUBSET (K \X V)
BY DEF Put

LEMMA DelType ==
    ASSUME NEW K, NEW V, NEW m \in SUBSET (K \X V), NEW k
    PROVE  Del(m, k) \in SUBSET (K \X V)
BY DEF Del

LEMMA GetType ==
    ASSUME NEW K, NEW V, NEW m \in SUBSET (K \X V), NEW k
    PROVE  Get(m, k) \subseteq V
BY DEF Get

\* When the Receiver goes, so do its queues and maps.
LEMMA ReceiverExitsType ==
    ASSUME TypeOK, ReceiverExits
    PROVE  /\ slot' \in [Req -> Messages \cup {None}]
           /\ registrations' \in Seq(Registers)
           /\ ReceiverOK'
<1>1. slot' \in [Req -> Messages \cup {None}]
  BY CanceledType DEF ReceiverExits, TypeOK, CallersOK
<1>2. registrations' \in Seq(Registers)
  BY DEF ReceiverExits
<1>3. ReceiverOK'
  BY DEF ReceiverExits, TypeOK, ReceiverOK
<1> QED BY <1>1, <1>2, <1>3

LEMMA ResolveType ==
    ASSUME TypeOK, NEW f \in [Req -> Messages \cup {None}], Resolve(f)
    PROVE  slot' \in [Req -> Messages \cup {None}]
BY DEF Resolve, TypeOK, CallersOK

\* Every step of the Receiver keeps the types.
LEMMA ReceiverTypeOK ==
    ASSUME TypeOK, Receiver
    PROVE  TypeOK'
<1> USE DEF TypeOK, caller, maps, tasks, env
<1>1. CASE PollStart
  <2>a. /\ slot' \in [Req -> Messages \cup {None}]
        /\ registrations' \in Seq(Registers)
        /\ ReceiverOK'
    BY <1>1, ReceiverExitsType DEF PollStart, CallersOK, ChannelsOK, ReceiverOK
  <2>1. CallersOK'
    BY <1>1, <2>a DEF PollStart, CallersOK
  <2>2. ChannelsOK'
    BY <1>1, <2>a DEF PollStart, ChannelsOK
  <2>3. ReceiverOK'
    BY <2>a DEF ReceiverOK
  <2>4. TasksOK'
    BY <1>1 DEF PollStart, TasksOK
  <2>5. BrokerOK'
    BY <1>1 DEF PollStart, BrokerOK
  <2> QED BY <2>1, <2>2, <2>3, <2>4, <2>5 DEF TypeOK
<1>2. CASE PollRegistrationsDone
  <2>a. /\ slot' \in [Req -> Messages \cup {None}]
        /\ registrations' \in Seq(Registers)
        /\ ReceiverOK'
    BY <1>2, ReceiverExitsType DEF PollRegistrationsDone, CallersOK, ChannelsOK, ReceiverOK
  <2>1. CallersOK'
    BY <1>2, <2>a DEF PollRegistrationsDone, CallersOK
  <2>2. ChannelsOK'
    BY <1>2, <2>a DEF PollRegistrationsDone, ChannelsOK
  <2>3. ReceiverOK'
    BY <2>a DEF ReceiverOK
  <2>4. TasksOK'
    BY <1>2 DEF PollRegistrationsDone, TasksOK
  <2>5. BrokerOK'
    BY <1>2 DEF PollRegistrationsDone, BrokerOK
  <2> QED BY <2>1, <2>2, <2>3, <2>4, <2>5 DEF TypeOK
<1>3. CASE PollInboundDone
  <2>a. /\ slot' \in [Req -> Messages \cup {None}]
        /\ registrations' \in Seq(Registers)
        /\ ReceiverOK'
    BY <1>3, ReceiverExitsType DEF PollInboundDone, CallersOK, ChannelsOK, ReceiverOK
  <2>1. CallersOK'
    BY <1>3, <2>a DEF PollInboundDone, CallersOK
  <2>2. ChannelsOK'
    BY <1>3, <2>a DEF PollInboundDone, ChannelsOK
  <2>3. ReceiverOK'
    BY <2>a DEF ReceiverOK
  <2>4. TasksOK'
    BY <1>3 DEF PollInboundDone, TasksOK
  <2>5. BrokerOK'
    BY <1>3 DEF PollInboundDone, BrokerOK
  <2> QED BY <2>1, <2>2, <2>3, <2>4, <2>5 DEF TypeOK
<1>4. CASE PollRegistration
  <2> DEFINE g == Head(registrations)
             msgs == Get(received_messages, g.key)
  <2>a. registrations # <<>> /\ registrations' = Tail(registrations)
    BY <1>4 DEF PollRegistration
  <2>b. g \in Registers /\ registrations' \in Seq(Registers)
    BY <2>a, Takes DEF ChannelsOK
  <2>c. g.key \in Keys \cup {None} /\ g.req \in Req \cup {None} /\ g.consumer \in Consumers \cup {None}
    BY <2>b DEF Registers
  <2>d. msgs \subseteq Messages
    BY GetType DEF ReceiverOK
  <2>e. UNCHANGED <<pc, key, outcome, request_id, sequence_id, control, data, polling,
                    error, tasks, inbound, lost, env>>
    BY <1>4 DEF PollRegistration
  <2>f. slot' \in [Req -> Messages \cup {None}] /\ ReceiverOK'
    <3>1. CASE g.type = "request" /\ msgs # {}
      <4> DEFINE f == [r \in Req |-> IF r = g.req THEN CHOOSE m \in msgs : TRUE ELSE None]
      <4>1. Resolve(f) /\ received_messages' = Del(received_messages, g.key)
                       /\ UNCHANGED <<pending_requests, consumers, ping>>
        BY <1>4, <3>1 DEF PollRegistration
      <4>2. (CHOOSE m \in msgs : TRUE) \in Messages
        BY <3>1, <2>d
      <4>3. f \in [Req -> Messages \cup {None}]
        BY <4>2
      <4>4. received_messages' \in SUBSET ((Keys \cup {None}) \X Messages)
        BY <4>1, DelType DEF ReceiverOK
      <4>5. slot' \in [Req -> Messages \cup {None}]
        BY <4>1, <4>3, ResolveType
      <4> QED BY <4>1, <4>4, <4>5, <2>e DEF ReceiverOK
    <3>2. CASE g.type = "request" /\ msgs = {}
      <4> DEFINE f == [r \in Req |-> IF r \in Get(pending_requests, g.key) THEN Canceled ELSE None]
      <4>1. Resolve(f) /\ pending_requests' = Put(pending_requests, g.key, g.req)
                       /\ UNCHANGED <<received_messages, consumers, ping>>
        BY <1>4, <3>2 DEF PollRegistration
      <4>2. f \in [Req -> Messages \cup {None}]
        BY CanceledType
      <4>3. g.req \in Req
        BY <2>b, <3>2 DEF Registers
      <4>4. pending_requests' \in SUBSET ((Keys \cup {None}) \X Req)
        BY <4>1, <4>3, <2>c, PutType DEF ReceiverOK
      <4>5. slot' \in [Req -> Messages \cup {None}]
        BY <4>1, <4>2, ResolveType
      <4> QED BY <4>1, <4>4, <4>5, <2>e DEF ReceiverOK
    <3>3. CASE g.type = "ping"
      <4> DEFINE f == [r \in Req |-> IF r = ping THEN Canceled ELSE None]
      <4>1. Resolve(f) /\ ping' = g.req
                       /\ UNCHANGED <<pending_requests, received_messages, consumers>>
        BY <1>4, <3>3 DEF PollRegistration
      <4>2. f \in [Req -> Messages \cup {None}]
        BY CanceledType
      <4> QED BY <4>1, <4>2, <2>c, <2>e, ResolveType DEF ReceiverOK
    <3>4. CASE g.type \in {"consumer", "remove"}
      <4>1. /\ consumers' \in {consumers \cup {g.consumer}, consumers \ {g.consumer}}
            /\ UNCHANGED <<slot, pending_requests, received_messages, ping>>
        BY <1>4, <3>4 DEF PollRegistration
      <4> QED BY <4>1, <2>c, <2>e DEF ReceiverOK, CallersOK
    <3> QED BY <2>b, <3>1, <3>2, <3>3, <3>4 DEF Registers
  <2> QED BY <2>b, <2>e, <2>f DEF CallersOK, ChannelsOK, TasksOK, BrokerOK
<1>5. CASE PollInbound
  <2> DEFINE m == Head(inbound)
  <2>a. inbound # <<>> /\ inbound' = Tail(inbound)
    BY <1>5 DEF PollInbound
  <2>b. m \in Messages /\ inbound' \in Seq(Messages)
    BY <2>a, Takes DEF ChannelsOK
  <2>c. UNCHANGED <<pc, key, outcome, request_id, sequence_id, registrations, data,
                    polling, sink, auth, dropped, env>>
    BY <1>5 DEF PollInbound
  <2>d. m.key \in Keys \cup {None} /\ m.consumer \in Consumers \cup {None}
    BY <2>b DEF Messages
  <2>e. \/ RouteReply(m) \/ RouteConsumer(m) \/ RoutePing(m)
        \/ RoutePong(m) \/ RouteChallenge(m)
    BY <1>5 DEF PollInbound
  <2>f. /\ slot' \in [Req -> Messages \cup {None}]
        /\ ReceiverOK'
        /\ error' \in {"none", "disconnected", "timed_out", "io", "auth"}
        /\ control' \in {control, Append(control, "pong")}
        /\ challenges' \in Nat
    <3>1. CASE RouteReply(m)
      <4> DEFINE to == Get(pending_requests, m.key)
                 f == [r \in Req |-> IF r \in to THEN m ELSE None]
      <4>1. UNCHANGED <<consumers, ping, lost, error, control, challenges>>
        BY <3>1 DEF RouteReply
      <4>2. CASE to # {}
        <5>1. f \in [Req -> Messages \cup {None}]
          BY <2>b
        <5>2. /\ Resolve(f)
              /\ pending_requests' = Del(pending_requests, m.key)
              /\ UNCHANGED received_messages
          BY <3>1, <4>2 DEF RouteReply
        <5>3. slot' \in [Req -> Messages \cup {None}]
          BY <5>1, <5>2, ResolveType
        <5>4. pending_requests' \in SUBSET ((Keys \cup {None}) \X Req)
          BY <5>2, DelType DEF ReceiverOK
        <5> QED BY <4>1, <5>2, <5>3, <5>4, <2>c DEF ReceiverOK, TasksOK
      <4>3. CASE to = {}
        <5>1. received_messages' = Put(received_messages, m.key, m) /\ UNCHANGED <<slot, pending_requests>>
          BY <3>1, <4>3 DEF RouteReply
        <5>2. received_messages' \in SUBSET ((Keys \cup {None}) \X Messages)
          BY <5>1, <2>b, <2>d, PutType DEF ReceiverOK
        <5> QED BY <4>1, <5>1, <5>2, <2>c DEF CallersOK, ReceiverOK, TasksOK
      <4> QED BY <4>2, <4>3
    <3>2. CASE RouteConsumer(m)
      BY <3>2, <2>c, <2>d DEF RouteConsumer, CallersOK, ReceiverOK, TasksOK
    <3>3. CASE RoutePing(m)
      BY <3>3, <2>c DEF RoutePing, CallersOK, ReceiverOK, TasksOK
    <3>4. CASE RoutePong(m)
      <4> DEFINE f == [r \in Req |-> IF r = ping THEN m ELSE None]
      <4>1. f \in [Req -> Messages \cup {None}]
        BY <2>b
      <4>2. Resolve(f)
        BY <3>4 DEF RoutePong
      <4>3. slot' \in [Req -> Messages \cup {None}]
        BY <4>1, <4>2, ResolveType
      <4> QED BY <3>4, <4>3, <2>c DEF RoutePong, ReceiverOK, TasksOK
    <3>5. CASE RouteChallenge(m)
      BY <3>5, <2>c DEF RouteChallenge, CallersOK, ReceiverOK, TasksOK
    <3> QED BY <2>e, <3>1, <3>2, <3>3, <3>4, <3>5
  <2>g. control' \in Seq(Req \cup {"pong", "auth_response"})
    <3> HIDE DEF m
    <3>1. control' \in {control, Append(control, "pong")}
      BY <2>f
    <3> QED BY <3>1 DEF ChannelsOK
  <2> QED BY <2>b, <2>c, <2>f, <2>g DEF CallersOK, ChannelsOK, TasksOK, BrokerOK
<1> QED
  BY <1>1, <1>2, <1>3, <1>4, <1>5 DEF Receiver

\* Every other step keeps the types.
LEMMA OtherTypeOK ==
    ASSUME TypeOK,
           \/ \E c \in Consumers : TakeError(c)
           \/ DropConnection \/ SinkWrite \/ SinkCloses \/ AnswerChallenge \/ Broker
    PROVE  TypeOK'
<1> USE DEF TypeOK, caller, maps, tasks, env
<1>1. CASE \E c \in Consumers : TakeError(c)
  BY <1>1 DEF TakeError, CallersOK, ChannelsOK, ReceiverOK, TasksOK, BrokerOK
<1>2. CASE DropConnection
  BY <1>2 DEF DropConnection, CallersOK, ChannelsOK, ReceiverOK, TasksOK, BrokerOK
<1>3. CASE SinkWrite
  <2>1. /\ \/ control' = control
           \/ control' = <<>>
           \/ control # <<>> /\ control' = Tail(control)
        /\ \/ data' = data
           \/ data' = <<>>
           \/ data # <<>> /\ data' = Tail(data)
    BY <1>3 DEF SinkWrite, SinkExits
  <2> DEFINE C == Req \cup {"pong", "auth_response"}
  <2>2. control' \in Seq(C) /\ data' \in Seq(Req)
    <3>1. control \in Seq(C) /\ data \in Seq(Req)
      BY DEF ChannelsOK
    <3> HIDE DEF C
    <3>2. control # <<>> => Tail(control) \in Seq(C)
      BY <3>1, Takes
    <3>3. data # <<>> => Tail(data) \in Seq(Req)
      BY <3>1, Takes
    <3>4. <<>> \in Seq(C) /\ <<>> \in Seq(Req)
      OBVIOUS
    <3> QED BY <2>1, <3>1, <3>2, <3>3, <3>4, Zenon
  <2>3. Len(data') <= DataCap
    BY <2>1, Takes, ConnectionAssumption DEF ChannelsOK
  <2>4. UNCHANGED <<caller, registrations, polling, maps, auth, challenges, dropped,
                    inbound, socket, subscribed, unsolicited>>
    BY <1>3 DEF SinkWrite
  <2>5. error' \in {error, "io"} /\ sink' \in {sink, "dead"}
    BY <1>3 DEF SinkWrite, SinkExits
  <2>6. broker' \in [Req -> {"unasked", "asked", "queued", "answered"}]
    BY <1>3 DEF SinkWrite, BrokerOK
  <2> QED BY <2>2, <2>3, <2>4, <2>5, <2>6 DEF CallersOK, ChannelsOK, ReceiverOK, TasksOK, BrokerOK
<1>4. CASE SinkCloses
  <2>1. Len(<<>>) <= DataCap
    BY ConnectionAssumption
  <2> QED BY <1>4, <2>1 DEF SinkCloses, SinkExits, CallersOK, ChannelsOK, ReceiverOK, TasksOK, BrokerOK
<1>5. CASE AnswerChallenge
  <2>1. control' \in {control, Append(control, "auth_response")}
        /\ UNCHANGED <<registrations, data, inbound>>
    BY <1>5 DEF AnswerChallenge
  <2>2. ChannelsOK'
    BY <2>1, Appends DEF ChannelsOK
  <2> QED BY <1>5, <2>2 DEF AnswerChallenge, CallersOK, ReceiverOK, TasksOK, BrokerOK
<1>6. CASE \E r \in Req : BrokerReply(r)
  <2>1. PICK r \in Req : BrokerReply(r)
    BY <1>6
  <2>2. PICK t \in Replies \cup {"pong"} : inbound' = Append(inbound, Reply(r, t))
    BY <2>1 DEF BrokerReply, Send, Replies
  <2>3. Reply(r, t) \in Messages
    BY MsgType DEF Reply, CallersOK
  <2>4. inbound' \in Seq(Messages)
    BY <2>2, <2>3, Appends DEF ChannelsOK
  <2>5. UNCHANGED <<caller, registrations, control, data, polling, maps, error, tasks,
                    socket, unsolicited>>
    BY <2>1 DEF BrokerReply
  <2>6. broker' \in [Req -> {"unasked", "asked", "queued", "answered"}]
    BY <2>1 DEF BrokerReply, BrokerOK
  <2>7. subscribed' \subseteq Consumers \cup {None}
    BY <2>1, ConnectionAssumption DEF BrokerReply, BrokerOK
  <2> QED BY <2>4, <2>5, <2>6, <2>7 DEF CallersOK, ChannelsOK, ReceiverOK, TasksOK, BrokerOK
<1>7. CASE BrokerSends
  <2>1. PICK m \in Messages : inbound' = Append(inbound, m)
    <3>1. \A c \in subscribed : /\ Msg("message", None, None, c) \in Messages
                                /\ Msg("close_consumer", None, None, c) \in Messages
      BY MsgType DEF BrokerOK
    <3>2. \A t \in {"ping", "auth_challenge", "close_producer"} : Msg(t, None, None, None) \in Messages
      BY MsgType
    <3> QED BY <1>7, <3>1, <3>2 DEF BrokerSends, Send
  <2>2. inbound' \in Seq(Messages)
    BY <2>1, Appends DEF ChannelsOK
  <2>3. UNCHANGED <<caller, registrations, control, data, polling, maps, error, tasks,
                    socket, broker>>
    BY <1>7 DEF BrokerSends
  <2>4. subscribed' \subseteq subscribed
    BY <1>7 DEF BrokerSends
  <2>5. unsolicited' \in 0..MaxUnsolicited
    BY <1>7, ConnectionAssumption DEF BrokerSends, BrokerOK
  <2> QED BY <2>2, <2>3, <2>4, <2>5 DEF CallersOK, ChannelsOK, ReceiverOK, TasksOK, BrokerOK
<1>8. CASE SocketCloses
  BY <1>8 DEF SocketCloses, CallersOK, ChannelsOK, ReceiverOK, TasksOK, BrokerOK
<1> QED
  BY <1>1, <1>2, <1>3, <1>4, <1>5, <1>6, <1>7, <1>8 DEF Broker

LEMMA NextTypeOK == TypeOK /\ [Next]_vars => TypeOK'
<1> SUFFICES ASSUME TypeOK, [Next]_vars PROVE TypeOK'
  OBVIOUS
<1>1. CASE UNCHANGED vars
  BY <1>1 DEF vars, caller, maps, tasks, env, TypeOK, CallersOK, ChannelsOK, ReceiverOK,
              TasksOK, BrokerOK
<1>2. CASE Next
  BY <1>2, CallerTypeOK, ReceiverTypeOK, OtherTypeOK DEF Next
<1> QED BY <1>1, <1>2

\* The state of the connection keeps its types, and the data channel its
\* bound, in every behaviour (Connection::connect, ConnectionSender, Receiver).
THEOREM TypeCorrect == Spec => []TypeOK
BY InitTypeOK, NextTypeOK, PTL DEF Spec
-----------------------------------------------------------------------------
(* RepliesMatch.  A caller is matched with its answer by key, so the proof  *)
(* follows the keys: they are unique and never change, every resolver and   *)
(* every answer is filed under the key of the call it belongs to.           *)

KeysKept == \A q \in Req : key[q] # None => key'[q] = key[q]

LEMMA TakeKeyKeeps ==
    ASSUME TypeOK, RoutingInv, NEW r \in Req, pc[r] = "idle", TakeKey(r)
    PROVE  /\ KeysKept
           /\ KeysUnique'
           /\ Kind[r] # "ping" => key'[r] # None
           /\ \A q \in Req : q # r => key'[q] = key[q]
           /\ \A q \in Req : key'[q] # None =>
                 key'[q][2] < (IF key'[q][1] = "id" THEN request_id' ELSE sequence_id')
<1> USE ConnectionAssumption DEF TypeOK, CallersOK, RoutingInv, KeysFresh, KeysUnique, KeysKept, Keys
<1>1. CASE Kind[r] = "ping"
  BY <1>1 DEF TakeKey
<1>2. CASE Kind[r] = "send"
  <2>1. key[r] = None /\ key' = [key EXCEPT ![r] = <<"seq", sequence_id>>]
        /\ sequence_id' = sequence_id + 1 /\ request_id' = request_id
    BY <1>2 DEF TakeKey
  <2>2. ASSUME NEW q \in Req, key[q] = <<"seq", sequence_id>> PROVE FALSE
    <3>1. <<"seq", sequence_id>> \in Keys
      OBVIOUS
    <3>2. key[q][1] = "seq" /\ key[q][2] = sequence_id /\ key[q] # None
      BY <2>2, <3>1
    <3> QED BY <3>2
  <2>3. KeysUnique'
    BY <2>1, <2>2
  <2>4. \A q \in Req : key'[q] # None =>
                 key'[q][2] < (IF key'[q][1] = "id" THEN request_id' ELSE sequence_id')
    BY <2>1
  <2> QED BY <2>1, <2>3, <2>4
<1>3. CASE Kind[r] \notin {"send", "ping"}
  <2>1. key[r] = None /\ key' = [key EXCEPT ![r] = <<"id", request_id>>]
        /\ sequence_id' = sequence_id /\ request_id' = request_id + 1
    BY <1>3 DEF TakeKey
  <2>2. ASSUME NEW q \in Req, key[q] = <<"id", request_id>> PROVE FALSE
    <3>1. <<"id", request_id>> \in Keys
      OBVIOUS
    <3>2. key[q][1] = "id" /\ key[q][2] = request_id /\ key[q] # None
      BY <2>2, <3>1
    <3> QED BY <3>2
  <2>3. KeysUnique'
    BY <2>1, <2>2
  <2>4. \A q \in Req : key'[q] # None =>
                 key'[q][2] < (IF key'[q][1] = "id" THEN request_id' ELSE sequence_id')
    BY <2>1
  <2> QED BY <2>1, <2>3, <2>4
<1> QED BY <1>1, <1>2, <1>3

\* What is filed stays filed when keys are only added.
LEMMA KeptFiled ==
    ASSUME TypeOK, RoutingInv, KeysKept,
           UNCHANGED <<pending_requests, ping, inbound, received_messages>>
    PROVE  ResolversFiled' /\ InboundFiled' /\ ParkedFiled'
<1> USE DEF TypeOK, RoutingInv, KeysKept
<1>1. ResolversFiled'
  BY DEF ResolversFiled, ReceiverOK
<1>2. InboundFiled'
  BY DEF InboundFiled, Answers
<1>3. ParkedFiled'
  BY DEF ParkedFiled, Answers
<1> QED BY <1>1, <1>2, <1>3

LEMMA KeptRegistrations ==
    ASSUME TypeOK, RoutingInv, KeysKept, UNCHANGED registrations
    PROVE  RegistrationsFiled'
<1>1. \A i \in DOMAIN registrations : registrations[i] \in Registers
  BY DEF TypeOK, ChannelsOK
<1>2. \A g \in Registers : Filed(g) => Filed(g)'
  BY DEF Filed, Registers, KeysKept
<1> QED BY <1>1, <1>2 DEF RoutingInv, RegistrationsFiled, Filed

LEMMA MoreRegistrations ==
    ASSUME TypeOK, RoutingInv, KeysKept, NEW g \in Registers, Filed(g)',
           registrations' \in {registrations, Append(registrations, g)}
    PROVE  RegistrationsFiled'
<1>1. \A i \in DOMAIN registrations : registrations[i] \in Registers
  BY DEF TypeOK, ChannelsOK
<1>2. \A h \in Registers : Filed(h) => Filed(h)'
  BY DEF Filed, Registers, KeysKept
<1>3. \A i \in DOMAIN registrations : Filed(registrations[i])
  BY DEF RoutingInv, RegistrationsFiled
<1>4. \A i \in DOMAIN registrations' :
         registrations'[i] = g \/ (i \in DOMAIN registrations /\ registrations'[i] = registrations[i])
  <2>1. registrations \in Seq(Registers)
    BY DEF TypeOK, ChannelsOK
  <2>2. CASE registrations' = registrations
    BY <2>2
  <2>3. CASE registrations' = Append(registrations, g)
    BY <2>1, <2>3, AppendElements
  <2> QED BY <2>2, <2>3
<1> QED BY <1>1, <1>2, <1>3, <1>4 DEF RegistrationsFiled, Filed

\* The invariant holds initially.
LEMMA InitRouting == Init => RoutingInv /\ RepliesMatch
BY DEF Init, RoutingInv, KeysFresh, KeysUnique, RegistrationsFiled,
       ResolversFiled, InboundFiled, ParkedFiled, RepliesMatch

\* The calling side only adds keys, and files what it registers under them.
LEMMA CallerRouting ==
    ASSUME TypeOK, TypeOK', RoutingInv, RepliesMatch, NEW r \in Req, Caller(r)
    PROVE  RoutingInv' /\ RepliesMatch'
<1> USE ConnectionAssumption DEF maps, tasks, env
<1>a. UNCHANGED <<pending_requests, ping, inbound, received_messages>>
  BY DEF Caller, Enqueue, RegisterConsumer, RegisterRequest, RegisterPing, EnqueueControl,
         EnqueueData, Return, ReturnCanceled, Timeout, RegisterExclusive
<1>b. \A q \in Req : slot'[q] \in {slot[q], None}
  BY DEF Caller, Enqueue, RegisterConsumer, RegisterRequest, RegisterPing, EnqueueControl,
         EnqueueData, Return, ReturnCanceled, Timeout, RegisterExclusive, TypeOK, CallersOK
<1>c. RepliesMatch'
  BY <1>b DEF RepliesMatch
<1>d. \A q \in Req : pc'[q] = "idle" => pc[q] = "idle"
  BY DEF Caller, Enqueue, RegisterConsumer, RegisterRequest, RegisterPing, EnqueueControl,
         EnqueueData, Return, ReturnCanceled, Timeout, RegisterExclusive, Finish,
         TypeOK, CallersOK
<1>e. pc'[r] # "idle"
  BY DEF Caller, Enqueue, RegisterConsumer, RegisterRequest, RegisterPing, EnqueueControl,
         EnqueueData, Return, ReturnCanceled, Timeout, RegisterExclusive, Finish,
         TypeOK, CallersOK
<1>f. \A q \in Req : q # r => pc'[q] = pc[q]
  BY DEF Caller, Enqueue, RegisterConsumer, RegisterRequest, RegisterPing, EnqueueControl,
         EnqueueData, Return, ReturnCanceled, Timeout, RegisterExclusive, Finish,
         TypeOK, CallersOK
<1>g. /\ KeysKept
      /\ KeysUnique'
      /\ pc[r] = "idle" /\ Kind[r] # "ping" => key'[r] # None
      /\ \A q \in Req : q # r => key'[q] = key[q]
      /\ \A q \in Req : key'[q] # None =>
            key'[q][2] < (IF key'[q][1] = "id" THEN request_id' ELSE sequence_id')
  <2>1. CASE TakeKey(r) /\ pc[r] = "idle"
    BY <2>1, TakeKeyKeeps
  <2>2. CASE UNCHANGED <<key, request_id, sequence_id>> /\ (pc[r] = "idle" => Kind[r] = "ping")
    BY <2>2 DEF KeysKept, RoutingInv, KeysUnique, KeysFresh
  <2>3. \/ TakeKey(r) /\ pc[r] = "idle"
        \/ UNCHANGED <<key, request_id, sequence_id>> /\ (pc[r] = "idle" => Kind[r] = "ping")
    BY DEF Caller, Enqueue, RegisterConsumer, RegisterRequest, RegisterPing, EnqueueControl,
           EnqueueData, Return, ReturnCanceled, Timeout, RegisterExclusive, MayCall
  <2> QED BY <2>1, <2>2, <2>3
<1>h. pc'[r] \in {"excl", "excl_wait"} => Kind[r] = "create"
  BY DEF Caller, Enqueue, RegisterConsumer, RegisterRequest, RegisterPing, EnqueueControl,
         EnqueueData, Return, ReturnCanceled, Timeout, RegisterExclusive, Finish,
         TypeOK, CallersOK, RoutingInv, KeysFresh
<1>1. KeysFresh'
  BY <1>d, <1>e, <1>f, <1>g, <1>h DEF RoutingInv, KeysFresh, KeysKept
<1>2. ResolversFiled' /\ InboundFiled' /\ ParkedFiled'
  BY <1>a, <1>g, KeptFiled
<1>3. RegistrationsFiled'
  <2>1. CASE UNCHANGED registrations
    BY <1>g, <2>1, KeptRegistrations
  <2>2. CASE ~ UNCHANGED registrations
    <3>1. \E g \in Registers : Filed(g)' /\ registrations' = Append(registrations, g)
      <4>1. CASE RegisterConsumer(r)
        <5>1. /\ Register("consumer", None, None, Target[r]) \in Registers
              /\ Register("remove", None, None, Target[r]) \in Registers
          BY RegisterConsumerType
        <5>2. /\ Filed(Register("consumer", None, None, Target[r]))'
              /\ Filed(Register("remove", None, None, Target[r]))'
          BY DEF Filed, Register
        <5> QED BY <4>1, <2>2, <5>1, <5>2 DEF RegisterConsumer
      <4>2. CASE RegisterRequest(r)
        <5>1. key'[r] \in Keys \cup {None} /\ key'[r] # None
          BY <4>2, <1>g DEF RegisterRequest, MayCall, RoutingInv, KeysFresh, KeysKept, TypeOK, CallersOK
        <5>2. PICK k \in Keys : k = key'[r]
          BY <5>1
        <5>3. Register("request", k, r, None) \in Registers
          BY RegisterType
        <5>4. Filed(Register("request", k, r, None))'
          BY <5>1, <5>2 DEF Filed, Register
        <5> QED BY <4>2, <2>2, <5>2, <5>3, <5>4 DEF RegisterRequest
      <4>3. CASE RegisterPing(r)
        <5>1. Register("ping", None, r, None) \in Registers
          BY RegisterType
        <5>2. Filed(Register("ping", None, r, None))'
          BY <4>3 DEF Filed, Register, RegisterPing
        <5> QED BY <4>3, <2>2, <5>1, <5>2 DEF RegisterPing
      <4>4. CASE RegisterExclusive(r)
        <5>1. Register("request", key[r], r, None) \in Registers
          BY RegisterType DEF TypeOK, CallersOK
        <5>2. key' = key /\ key[r] # None
          BY <4>4 DEF RegisterExclusive, RoutingInv, KeysFresh
        <5>3. Filed(Register("request", key[r], r, None))'
          BY <5>2 DEF Filed, Register
        <5> QED BY <4>4, <2>2, <5>1, <5>3 DEF RegisterExclusive
      <4> QED BY <2>2, <4>1, <4>2, <4>3, <4>4
          DEF Caller, Enqueue, EnqueueControl, EnqueueData, Return, ReturnCanceled, Timeout
    <3> QED BY <3>1, <1>g, MoreRegistrations
  <2> QED BY <2>1, <2>2
<1> QED BY <1>c, <1>g, <1>1, <1>2, <1>3 DEF RoutingInv
\* A step that leaves the callers' side alone keeps the keys.
LEMMA SameKeys ==
    ASSUME RoutingInv, UNCHANGED <<pc, key, request_id, sequence_id>>
    PROVE  KeysFresh' /\ KeysUnique' /\ KeysKept
BY DEF RoutingInv, KeysFresh, KeysUnique, KeysKept

\* The Receiver's end leaves nothing filed.
LEMMA ReceiverExitsRouting ==
    ASSUME TypeOK, RoutingInv, RepliesMatch, ReceiverExits, UNCHANGED <<key, inbound>>
    PROVE  RegistrationsFiled' /\ ResolversFiled' /\ InboundFiled' /\ ParkedFiled' /\ RepliesMatch'
<1>1. RegistrationsFiled'
  BY DEF ReceiverExits, RegistrationsFiled
<1>2. ResolversFiled' /\ ParkedFiled'
  BY DEF ReceiverExits, ResolversFiled, ParkedFiled
<1>3. InboundFiled'
  BY DEF RoutingInv, InboundFiled, Answers
<1>4. RepliesMatch'
  BY DEF ReceiverExits, RepliesMatch, TypeOK, CallersOK
<1> QED BY <1>1, <1>2, <1>3, <1>4

\* The Receiver moves answers to the caller whose key they carry.
LEMMA ReceiverRouting ==
    ASSUME TypeOK, TypeOK', RoutingInv, RepliesMatch, Receiver
    PROVE  RoutingInv' /\ RepliesMatch'
<1>a. UNCHANGED <<pc, key, request_id, sequence_id>>
  BY DEF Receiver, PollStart, PollRegistration, PollRegistrationsDone, PollInbound, PollInboundDone
<1>b. KeysFresh' /\ KeysUnique' /\ KeysKept
  BY <1>a, SameKeys
<1>c. SUFFICES RegistrationsFiled' /\ ResolversFiled' /\ InboundFiled' /\ ParkedFiled' /\ RepliesMatch'
  BY <1>b DEF RoutingInv
<1>1. CASE /\ UNCHANGED <<slot, registrations, inbound, maps>>
  BY <1>1, <1>a, <1>b, KeptFiled, KeptRegistrations DEF maps, RepliesMatch
<1>2. CASE ReceiverExits /\ UNCHANGED inbound
  BY <1>2, <1>a, ReceiverExitsRouting
<1>3. CASE PollRegistration
  <2> DEFINE g == Head(registrations)
             msgs == Get(received_messages, g.key)
  <2>a. registrations # <<>> /\ registrations' = Tail(registrations) /\ inbound' = inbound
    BY <1>3 DEF PollRegistration
  <2>b. g \in Registers /\ Filed(g)
    BY <2>a, TailElements, Takes DEF TypeOK, ChannelsOK, RoutingInv, RegistrationsFiled
  <2>c. RegistrationsFiled' /\ InboundFiled'
    <3>1. \A i \in DOMAIN registrations' : \E j \in DOMAIN registrations : registrations'[i] = registrations[j]
      BY <2>a, TailElements DEF TypeOK, ChannelsOK
    <3>2. RegistrationsFiled'
      BY <3>1, <1>a DEF RoutingInv, RegistrationsFiled, Filed
    <3> QED BY <3>2, <2>a, <1>a DEF RoutingInv, InboundFiled, Answers
  <2>d. ResolversFiled' /\ ParkedFiled' /\ RepliesMatch'
    <3>1. CASE g.type = "request" /\ msgs # {}
      <4> DEFINE m == CHOOSE x \in msgs : TRUE
                 f == [r \in Req |-> IF r = g.req THEN m ELSE None]
      <4>1. /\ Resolve(f)
            /\ received_messages' = Del(received_messages, g.key)
            /\ UNCHANGED <<pending_requests, consumers, ping>>
        BY <1>3, <3>1 DEF PollRegistration
      <4>2. PICK e \in received_messages : e[1] = g.key /\ e[2] = m
        <5>1. m \in msgs
          BY <3>1
        <5> QED BY <5>1 DEF Get
      <4>3. m.of = g.req
        <5>1. g.key # None /\ g.key = key[g.req] /\ g.req \in Req
          BY <2>b, <3>1 DEF Filed, Registers
        <5>2. m.of \in Req /\ g.key = key[m.of]
          BY <4>2, <5>1 DEF RoutingInv, ParkedFiled, Answers
        <5> QED BY <5>1, <5>2 DEF RoutingInv, KeysUnique
      <4>4. RepliesMatch'
        <5> HIDE DEF m
        <5> QED BY <4>1, <4>3 DEF Resolve, RepliesMatch
      <4>5. ParkedFiled'
        BY <4>1, <1>a DEF Del, RoutingInv, ParkedFiled, Answers
      <4> QED BY <4>1, <4>4, <4>5, <1>a DEF RoutingInv, ResolversFiled
    <3>2. CASE g.type = "request" /\ msgs = {}
      <4>1. /\ Resolve([r \in Req |-> IF r \in Get(pending_requests, g.key) THEN Canceled ELSE None])
            /\ pending_requests' = Put(pending_requests, g.key, g.req)
            /\ UNCHANGED <<received_messages, consumers, ping>>
        BY <1>3, <3>2 DEF PollRegistration
      <4>2. RepliesMatch'
        BY <4>1 DEF Resolve, RepliesMatch
      <4>3. ResolversFiled'
        BY <4>1, <1>a, <2>b, <3>2 DEF Put, Filed, RoutingInv, ResolversFiled
      <4> QED BY <4>1, <4>2, <4>3, <1>a DEF RoutingInv, ParkedFiled, Answers
    <3>3. CASE g.type = "ping"
      <4>1. /\ Resolve([r \in Req |-> IF r = ping THEN Canceled ELSE None])
            /\ ping' = g.req
            /\ UNCHANGED <<pending_requests, received_messages, consumers>>
        BY <1>3, <3>3 DEF PollRegistration
      <4>2. RepliesMatch'
        BY <4>1 DEF Resolve, RepliesMatch
      <4>3. ResolversFiled'
        BY <4>1, <1>a, <2>b, <3>3 DEF Filed, RoutingInv, ResolversFiled
      <4> QED BY <4>1, <4>2, <4>3, <1>a DEF RoutingInv, ParkedFiled, Answers
    <3>4. CASE g.type \in {"consumer", "remove"}
      <4>1. UNCHANGED <<slot, pending_requests, received_messages, ping>>
        BY <1>3, <3>4 DEF PollRegistration
      <4> QED BY <4>1, <1>a DEF RoutingInv, ResolversFiled, ParkedFiled, Answers, RepliesMatch
    <3> QED BY <2>b, <3>1, <3>2, <3>3, <3>4 DEF Registers
  <2> QED BY <2>c, <2>d
<1>4. CASE PollInbound
  <2> DEFINE m == Head(inbound)
  <2>a. inbound # <<>> /\ inbound' = Tail(inbound) /\ registrations' = registrations
    BY <1>4 DEF PollInbound
  <2>b. Answers(m, m.key)
    BY <2>a, TailElements DEF TypeOK, ChannelsOK, RoutingInv, InboundFiled
  <2>c. RegistrationsFiled' /\ InboundFiled'
    <3>1. \A i \in DOMAIN inbound' : \E j \in DOMAIN inbound : inbound'[i] = inbound[j]
      BY <2>a, TailElements DEF TypeOK, ChannelsOK
    <3>2. InboundFiled'
      BY <3>1, <1>a DEF RoutingInv, InboundFiled, Answers
    <3> QED BY <3>2, <2>a, <1>b, KeptRegistrations
  <2>d. ResolversFiled' /\ ParkedFiled' /\ RepliesMatch'
    <3>1. CASE RouteReply(m)
      <4> DEFINE to == Get(pending_requests, m.key)
      <4>1. CASE to # {}
        <5>1. /\ Resolve([r \in Req |-> IF r \in to THEN m ELSE None])
              /\ pending_requests' = Del(pending_requests, m.key)
              /\ UNCHANGED <<received_messages, ping>>
          BY <3>1, <4>1 DEF RouteReply
        <5>2. ASSUME NEW r \in to PROVE m.of = r
          <6>1. PICK e \in pending_requests : e[1] = m.key /\ e[2] = r
            BY <5>2 DEF Get
          <6>2. m.key # None /\ m.key = key[r] /\ r \in Req
            BY <6>1 DEF RoutingInv, ResolversFiled, TypeOK, ReceiverOK
          <6> QED BY <6>2, <2>b DEF Answers, RoutingInv, KeysUnique
        <5>3. RepliesMatch'
          <6> HIDE DEF m, to
          <6> QED BY <5>1, <5>2 DEF Resolve, RepliesMatch
        <5>4. ResolversFiled'
          BY <5>1, <1>a DEF Del, RoutingInv, ResolversFiled
        <5> QED BY <5>1, <5>3, <5>4, <1>a DEF RoutingInv, ParkedFiled, Answers
      <4>2. CASE to = {}
        <5>1. /\ received_messages' = Put(received_messages, m.key, m)
              /\ UNCHANGED <<slot, pending_requests, ping>>
          BY <3>1, <4>2 DEF RouteReply
        <5>2. ParkedFiled'
          <6> HIDE DEF m
          <6> QED BY <5>1, <1>a, <2>b DEF Put, RoutingInv, ParkedFiled, Answers
        <5> QED BY <5>1, <5>2, <1>a DEF RoutingInv, ResolversFiled, RepliesMatch
      <4> QED BY <4>1, <4>2
    <3>2. CASE RouteConsumer(m) \/ RoutePing(m) \/ RouteChallenge(m)
      <4>1. UNCHANGED <<slot, pending_requests, received_messages, ping>>
        BY <3>2 DEF RouteConsumer, RoutePing, RouteChallenge, maps
      <4> QED BY <4>1, <1>a DEF RoutingInv, ResolversFiled, ParkedFiled, Answers, RepliesMatch
    <3>3. CASE RoutePong(m)
      <4>1. /\ Resolve([r \in Req |-> IF r = ping THEN m ELSE None])
            /\ ping' = None
            /\ UNCHANGED <<pending_requests, received_messages>>
        BY <3>3 DEF RoutePong
      <4>2. RepliesMatch'
        <5> HIDE DEF m
        <5> QED BY <4>1, ConnectionAssumption DEF Resolve, RepliesMatch, RoutingInv, ResolversFiled
      <4> QED BY <4>1, <4>2, <1>a DEF RoutingInv, ResolversFiled, ParkedFiled, Answers
    <3> QED BY <1>4, <3>1, <3>2, <3>3 DEF PollInbound
  <2> QED BY <2>c, <2>d
<1> QED
  BY <1>1, <1>2, <1>3, <1>4 DEF Receiver, PollStart, PollRegistrationsDone, PollInboundDone

\* The other tasks leave keys and resolvers alone; the broker's answers
\* carry the key of the call they answer.
LEMMA OtherRouting ==
    ASSUME TypeOK, TypeOK', RoutingInv, RepliesMatch,
           \/ \E c \in Consumers : TakeError(c)
           \/ DropConnection \/ SinkWrite \/ SinkCloses \/ AnswerChallenge \/ Broker
    PROVE  RoutingInv' /\ RepliesMatch'
<1>a. UNCHANGED <<pc, key, slot, request_id, sequence_id, registrations, pending_requests,
                  received_messages, ping>>
  BY DEF TakeError, DropConnection, SinkWrite, SinkCloses, AnswerChallenge, Broker,
         BrokerReply, BrokerSends, SocketCloses, caller, maps
<1>b. KeysFresh' /\ KeysUnique' /\ KeysKept
  BY <1>a, SameKeys
<1>c. RegistrationsFiled' /\ ResolversFiled' /\ ParkedFiled' /\ RepliesMatch'
  BY <1>a, <1>b, KeptRegistrations
     DEF RoutingInv, ResolversFiled, ParkedFiled, Answers, RepliesMatch
<1>d. InboundFiled'
  <2>1. CASE inbound' = inbound
    BY <2>1, <1>a DEF RoutingInv, InboundFiled, Answers
  <2>2. ASSUME NEW m, inbound' = Append(inbound, m), m.key # None => m.of \in Req /\ m.key = key[m.of]
        PROVE  InboundFiled'
    <3>1. \A i \in DOMAIN inbound' :
             inbound'[i] = m \/ (i \in DOMAIN inbound /\ inbound'[i] = inbound[i])
      BY <2>2, AppendElements DEF TypeOK, ChannelsOK
    <3> QED BY <2>2, <3>1, <1>a DEF RoutingInv, InboundFiled, Answers
  <2>3. CASE \E r \in Req : BrokerReply(r)
    <3>1. PICK r \in Req, t \in Replies \cup {"pong"} : inbound' = Append(inbound, Reply(r, t))
      BY <2>3 DEF BrokerReply, Send, Replies
    <3>2. Reply(r, t).key = key[r] /\ Reply(r, t).of = r
      BY DEF Reply, Msg
    <3> QED BY <2>2, <3>1, <3>2
  <2>4. CASE BrokerSends
    <3>1. PICK t, c : inbound' = Append(inbound, Msg(t, None, None, c))
      BY <2>4 DEF BrokerSends, Send
    <3>2. Msg(t, None, None, c).key = None
      BY DEF Msg
    <3> QED BY <2>2, <3>1, <3>2
  <2> QED BY <2>1, <2>3, <2>4
      DEF TakeError, DropConnection, SinkWrite, SinkCloses, AnswerChallenge, Broker, SocketCloses
<1> QED BY <1>b, <1>c, <1>d DEF RoutingInv

\* A caller is never handed the answer to another call, whatever the order of
\* registrations and answers (Receiver::poll, send_message_non_blocking,
\* wait_exclusive_access).
THEOREM RepliesAlwaysMatch == Spec => []RepliesMatch
<1> DEFINE Inv == TypeOK /\ RoutingInv /\ RepliesMatch
<1>1. Init => Inv
  BY InitTypeOK, InitRouting
<1>2. Inv /\ [Next]_vars => Inv'
  <2> SUFFICES ASSUME Inv, [Next]_vars PROVE Inv'
    OBVIOUS
  <2>1. TypeOK'
    BY NextTypeOK
  <2>2. CASE UNCHANGED vars
    BY <2>1, <2>2, SameKeys, KeptFiled, KeptRegistrations
       DEF vars, caller, maps, RoutingInv, RepliesMatch
  <2>3. CASE Next
    BY <2>1, <2>3, CallerRouting, ReceiverRouting, OtherRouting DEF Next
  <2> QED BY <2>2, <2>3
<1> QED BY <1>1, <1>2, PTL DEF Spec

-----------------------------------------------------------------------------
(* What the proofs below add to RoutingInv.  Every call has at most one     *)
(* resolver, wherever it is: that is what makes the callers independent.    *)

Queued(r) == \E i \in DOMAIN registrations : registrations[i].req = r
Pending(r) == \E e \in pending_requests : e[2] = r
Stored(r) == Pending(r) \/ ping = r

\* Request registrations are of calls that have keys.
KindsFiled ==
    /\ \A i \in DOMAIN registrations :
         registrations[i].type = "request" => Kind[registrations[i].req] # "ping"
    /\ \A e \in pending_requests : Kind[e[2]] # "ping"

OneResolver ==
    /\ \A i, j \in DOMAIN registrations :
         registrations[i].req \in Req /\ registrations[i].req = registrations[j].req => i = j
    /\ \A r \in Req :
         /\ Queued(r) => ~Stored(r) /\ slot[r] = None
         /\ Stored(r) => slot[r] = None
         /\ pc[r] \in {"idle", "register", "excl"} =>
              ~Queued(r) /\ ~Stored(r) /\ slot[r] = None

\* What the Receiver parked is an answer.
ParkedType ==
    \A e \in received_messages : e[2].type \in Replies \cup {"close_producer"}

\* Only a call that returned has an outcome.
OutcomeOfDone == \A r \in Req : outcome[r] # None => pc[r] = "done"

ResolverInv == KindsFiled /\ OneResolver /\ ParkedType /\ OutcomeOfDone

-----------------------------------------------------------------------------
\* While the Receiver lives, a caller only sees a dropped resolver when it is
\* of a ping that another ping overtook.
OnlyOvertaken == \A r \in Req : slot[r] = Canceled /\ Receiving => Overtaken(r)

FlagInv == OnlyOvertaken /\ FlagTellsTruth
-----------------------------------------------------------------------------
CloseAsked(c) == \E r \in Req : Kind[r] = "close" /\ Target[r] = c /\ pc[r] # "idle"

\* The Receiver knows the consumer once it read the registrations before i.
KnownBefore(c, i) ==
    \/ c \in consumers
    \/ \E j \in DOMAIN registrations :
         j < i /\ registrations[j].type = "consumer" /\ registrations[j].consumer = c

\* Only the close of a consumer takes it away.
RemovesAsked ==
    \A i \in DOMAIN registrations :
        registrations[i].type = "remove" => CloseAsked(registrations[i].consumer)

\* A subscription that is answered, stored or still to be read comes after
\* the registration of its consumer.
SubscribersKnown ==
    Receiving => \A s \in Req : Kind[s] = "subscribe" /\ ~CloseAsked(Target[s]) =>
        /\ pc[s] = "register" => KnownBefore(Target[s], Len(registrations) + 1)
        /\ \A i \in DOMAIN registrations :
             registrations[i].req = s => KnownBefore(Target[s], i)
        /\ slot[s] # None \/ Pending(s) \/ outcome[s] = "ok" => Target[s] \in consumers

\* Messages follow the permits of a consumer that is subscribed.
MessagesOfSubscribers ==
    \A i \in DOMAIN inbound : inbound[i].type = "message" =>
        \E s \in Req : /\ Kind[s] = "subscribe" /\ Target[s] = inbound[i].consumer
                       /\ outcome[s] = "ok"

-----------------------------------------------------------------------------
InChannels(r) ==
    (\E i \in DOMAIN control : control[i] = r) \/ (\E i \in DOMAIN data : data[i] = r)

\* A request is in one channel at most, and not yet known to the broker.
WrittenOnce ==
    /\ \A i, j \in DOMAIN control : control[i] \in Req /\ control[i] = control[j] => i = j
    /\ \A i, j \in DOMAIN data : data[i] = data[j] => i = j
    /\ \A i \in DOMAIN control : control[i] \in Req => Kind[control[i]] # "send"
    /\ \A i \in DOMAIN data : Kind[data[i]] = "send"
    /\ \A r \in Req :
         /\ InChannels(r) => broker[r] = "unasked" /\ pc[r] \notin {"idle", "register", "enqueue"}
         /\ pc[r] \in {"idle", "register", "enqueue"} => broker[r] = "unasked"

Numbered == {r \in Req : Kind[r] # "ping"}
Heard(r) == broker[r] \in {"queued", "answered"}
Waiting(r) == pc[r] \in {"excl", "excl_wait"}

\* A message that answers a call is filed under the call's key.
AnswersOf(m, k) ==
    m.of \in Numbered =>
        k = key[m.of] /\ k # None /\ m.type \in Replies /\ Heard(m.of)

AnswersFiled ==
    /\ \A i \in DOMAIN inbound : AnswersOf(inbound[i], inbound[i].key)
    /\ \A e \in received_messages : AnswersOf(e[2], e[1])

\* Nothing reaches a caller that the broker did not send.
HeardFirst ==
    \A r \in Numbered :
        (slot[r] \notin {None, Canceled} => Heard(r)) /\ (Waiting(r) => Heard(r))

\* A key has one answer parked, or one resolver, never both.
ParkedAlone ==
    /\ \A d, e \in received_messages : d[1] = e[1] => d = e
    /\ \A d \in received_messages, e \in pending_requests : d[1] # e[1]

IsNotReady(m, r) == m.of = r /\ m.type = "not_ready"

\* A producer is told at most once that it has to wait, before its answer.
NotReadyFirst ==
    \A r \in Numbered :
        /\ \A i \in DOMAIN inbound : IsNotReady(inbound[i], r) =>
              /\ \A j \in DOMAIN inbound : inbound[j].of = r => i <= j
              /\ \A e \in received_messages : e[2].of # r
              /\ slot[r] \in {None, Canceled} /\ ~Waiting(r)
        /\ \A e \in received_messages : IsNotReady(e[2], r) =>
              slot[r] \in {None, Canceled} /\ ~Waiting(r)
        /\ slot[r] # None /\ slot[r].type = "not_ready" => ~Waiting(r)

\* A caller that waits has its answer, or a resolver the Receiver owns.
Somewhere ==
    Receiving => \A r \in Numbered : pc[r] \in {"enqueue", "wait", "excl_wait"} =>
        slot[r] # None \/ Queued(r) \/ Pending(r)

-----------------------------------------------------------------------------
\* Positions in a queue after a send and after a receive.
LEMMA AppendAt ==
    ASSUME NEW S, NEW s \in Seq(S), NEW x \in S
    PROVE  /\ DOMAIN s = 1..Len(s) /\ Len(s) \in Nat
           /\ DOMAIN Append(s, x) = 1..(Len(s) + 1)
           /\ Append(s, x)[Len(s) + 1] = x
           /\ \A i \in DOMAIN s : Append(s, x)[i] = s[i] /\ i # Len(s) + 1
           /\ \A i \in DOMAIN Append(s, x) : i \in DOMAIN s \/ i = Len(s) + 1
OBVIOUS

LEMMA TailAt ==
    ASSUME NEW S, NEW s \in Seq(S), s # <<>>
    PROVE  /\ DOMAIN s = 1..Len(s) /\ Len(s) \in Nat
           /\ 1 \in DOMAIN s /\ Head(s) = s[1]
           /\ \A i \in DOMAIN Tail(s) : i + 1 \in DOMAIN s /\ Tail(s)[i] = s[i + 1]
           /\ \A i \in DOMAIN s : i # 1 => i - 1 \in DOMAIN Tail(s) /\ Tail(s)[i - 1] = s[i]
OBVIOUS

\* No call has a resolver before it is made.
LEMMA InitResolvers == Init => ResolverInv
BY ConnectionAssumption DEF Init, ResolverInv, KindsFiled, OneResolver, ParkedType, OutcomeOfDone,
       Queued, Pending, Stored

\* A resolver is created for a call that has none.
LEMMA ResolverCreated ==
    ASSUME TypeOK, ResolverInv, NEW r \in Req, NEW g \in Registers,
           pc[r] \in {"idle", "register", "excl"},
           \A q \in Req : q # r => pc'[q] = pc[q],
           registrations' \in {registrations, Append(registrations, g)},
           g.req = r \/ g.type \in {"consumer", "remove"},
           g.type = "request" => Kind[r] # "ping",
           pc'[r] \in {"idle", "register", "excl"} => g.type \in {"consumer", "remove"},
           UNCHANGED <<slot, pending_requests, ping, received_messages>>
    PROVE  KindsFiled' /\ OneResolver' /\ ParkedType'
<1>1. registrations \in Seq(Registers)
  BY DEF TypeOK, ChannelsOK
<1>2. g.type \in {"consumer", "remove"} => g.req \notin Req
  BY ConnectionAssumption DEF Registers
<1>3. ParkedType'
  BY DEF ResolverInv, ParkedType
<1>4. CASE registrations' = registrations
  BY <1>3, <1>4 DEF ResolverInv, KindsFiled, OneResolver, Queued, Pending, Stored
<1>5. CASE registrations' = Append(registrations, g)
  <2>1. /\ \A i \in DOMAIN registrations' :
             \/ i \in DOMAIN registrations /\ registrations'[i] = registrations[i]
             \/ i = Len(registrations) + 1 /\ registrations'[i] = g
    BY <1>1, <1>5, AppendAt
  <2>2. KindsFiled'
    BY <1>2, <2>1 DEF ResolverInv, KindsFiled
  <2>3. ~Queued(r) /\ ~Stored(r) /\ slot[r] = None
    BY DEF ResolverInv, OneResolver
  <2>4. \A q \in Req : Queued(q)' => Queued(q) \/ (q = r /\ g.req = r)
    BY <1>2, <2>1 DEF Queued
  <2>5. \A q \in Req : Stored(q)' <=> Stored(q)
    BY DEF Stored, Pending
  <2>6. ASSUME NEW i \in DOMAIN registrations', NEW j \in DOMAIN registrations',
               registrations'[i].req \in Req, registrations'[i].req = registrations'[j].req
        PROVE  i = j
    BY <1>2, <2>1, <2>3, <2>6 DEF ResolverInv, OneResolver, Queued
  <2>7. OneResolver'
    BY <1>2, <2>3, <2>4, <2>5, <2>6 DEF ResolverInv, OneResolver
  <2> QED BY <1>3, <2>2, <2>7
<1> QED BY <1>4, <1>5

\* A caller that is told to wait for exclusive access gave its answer up.
LEMMA ResolverKept ==
    ASSUME TypeOK, ResolverInv, NEW r \in Req,
           pc[r] \notin {"idle", "register", "excl"},
           \A q \in Req : q # r => pc'[q] = pc[q],
           pc'[r] \notin {"idle", "register"},
           pc'[r] = "excl" => slot[r] # None,
           slot' = IF pc'[r] = "excl" THEN [slot EXCEPT ![r] = None] ELSE slot,
           UNCHANGED <<registrations, pending_requests, ping, received_messages>>
    PROVE  KindsFiled' /\ OneResolver' /\ ParkedType'
<1>1. KindsFiled' /\ ParkedType'
  BY DEF ResolverInv, KindsFiled, ParkedType
<1>2. \A q \in Req : (Queued(q)' <=> Queued(q)) /\ (Stored(q)' <=> Stored(q))
  BY DEF Queued, Stored, Pending
<1>3. \A q \in Req : slot'[q] = IF q = r /\ pc'[r] = "excl" THEN None ELSE slot[q]
  BY DEF TypeOK, CallersOK
<1>4. OneResolver'
  BY <1>2, <1>3 DEF ResolverInv, OneResolver
<1> QED BY <1>1, <1>4

\* A caller registers only when it has no resolver left.
LEMMA CallerResolvers ==
    ASSUME TypeOK, TypeOK', RoutingInv, ResolverInv, NEW r \in Req, Caller(r)
    PROVE  ResolverInv'
<1> USE DEF caller, maps, tasks, env
<1>a. OutcomeOfDone'
  BY DEF ResolverInv, OutcomeOfDone, Caller, Enqueue, RegisterConsumer, RegisterRequest,
         RegisterPing, EnqueueControl, EnqueueData, Return, ReturnCanceled, Timeout,
         RegisterExclusive, Finish, TypeOK, CallersOK, MayCall
<1>b. SUFFICES KindsFiled' /\ OneResolver' /\ ParkedType'
  BY <1>a DEF ResolverInv
<1>c. \A q \in Req : q # r => pc'[q] = pc[q]
  BY DEF Caller, Enqueue, RegisterConsumer, RegisterRequest,
         RegisterPing, EnqueueControl, EnqueueData, Return, ReturnCanceled, Timeout,
         RegisterExclusive, Finish, TypeOK, CallersOK
<1>1. CASE RegisterConsumer(r)
  <2>1. PICK g \in Registers : /\ registrations' \in {registrations, Append(registrations, g)}
                               /\ g.type \in {"consumer", "remove"}
    <3>1. /\ Register("consumer", None, None, Target[r]) \in Registers
          /\ Register("remove", None, None, Target[r]) \in Registers
      BY RegisterConsumerType, ConnectionAssumption
    <3> QED BY <1>1, <3>1 DEF RegisterConsumer, Register
  <2>2. pc[r] = "idle" /\ UNCHANGED <<slot, pending_requests, ping, received_messages>>
    BY <1>1 DEF RegisterConsumer, MayCall
  <2> QED BY <1>c, <2>1, <2>2, ResolverCreated
<1>2. CASE RegisterRequest(r)
  <2>1. /\ key'[r] \in Keys \cup {None} /\ Kind[r] # "ping"
        /\ pc[r] \in {"idle", "register"} /\ pc'[r] \in {"enqueue", "done"}
        /\ UNCHANGED <<slot, pending_requests, ping, received_messages>>
    BY <1>2 DEF RegisterRequest, MayCall, Finish, TypeOK, CallersOK
  <2>2. PICK g \in Registers : /\ registrations' \in {registrations, Append(registrations, g)}
                               /\ g.type = "request" /\ g.req = r
    <3>1. PICK k \in Keys \cup {None} : k = key'[r]
      BY <2>1
    <3>2. Register("request", k, r, None) \in Registers
      BY RegisterType
    <3> QED BY <1>2, <3>1, <3>2 DEF RegisterRequest, Register
  <2> QED BY <1>c, <2>1, <2>2, ResolverCreated
<1>3. CASE RegisterPing(r)
  <2>1. /\ pc[r] = "idle" /\ pc'[r] \in {"enqueue", "done"}
        /\ UNCHANGED <<slot, pending_requests, ping, received_messages>>
    BY <1>3 DEF RegisterPing, MayCall, Finish, TypeOK, CallersOK
  <2>2. PICK g \in Registers : /\ registrations' \in {registrations, Append(registrations, g)}
                               /\ g.type = "ping" /\ g.req = r
    <3>1. Register("ping", None, r, None) \in Registers
      BY RegisterType
    <3> QED BY <1>3, <3>1 DEF RegisterPing, Register
  <2> QED BY <1>c, <2>1, <2>2, ResolverCreated
<1>4. CASE RegisterExclusive(r)
  <2>1. /\ key[r] \in Keys \cup {None} /\ Kind[r] # "ping"
        /\ pc[r] = "excl" /\ pc'[r] \in {"excl_wait", "done"}
        /\ UNCHANGED <<slot, pending_requests, ping, received_messages>>
    BY <1>4 DEF RegisterExclusive, Finish, TypeOK, CallersOK, RoutingInv, KeysFresh
  <2>2. PICK g \in Registers : /\ registrations' \in {registrations, Append(registrations, g)}
                               /\ g.type = "request" /\ g.req = r
    <3>1. PICK k \in Keys \cup {None} : k = key[r]
      BY <2>1
    <3>2. Register("request", k, r, None) \in Registers
      BY RegisterType
    <3> QED BY <1>4, <3>1, <3>2 DEF RegisterExclusive, Register
  <2> QED BY <1>c, <2>1, <2>2, ResolverCreated
<1>5. CASE Return(r)
  <2>1. /\ pc[r] \in {"wait", "excl_wait"} /\ slot[r] # None
        /\ pc'[r] \in {"excl", "done"}
        /\ slot' = IF pc'[r] = "excl" THEN [slot EXCEPT ![r] = None] ELSE slot
        /\ UNCHANGED <<registrations, pending_requests, ping, received_messages>>
    BY <1>5 DEF Return, Finish, TypeOK, CallersOK
  <2> QED BY <1>c, <2>1, ResolverKept
<1>6. CASE Enqueue(r) \/ ReturnCanceled(r) \/ Timeout(r)
  <2>1. /\ pc[r] \in {"enqueue", "wait", "excl_wait"}
        /\ pc'[r] \in {"wait", "done"} /\ slot' = slot
        /\ UNCHANGED <<registrations, pending_requests, ping, received_messages>>
    BY <1>6 DEF Enqueue, EnqueueControl, EnqueueData, ReturnCanceled, Timeout, Finish,
                TypeOK, CallersOK
  <2> QED BY <1>c, <2>1, ResolverKept
<1> QED
  BY <1>1, <1>2, <1>3, <1>4, <1>5, <1>6 DEF Caller

\* Stored resolvers are removed from the Receiver's maps when they are used.
LEMMA ReceiverResolvers ==
    ASSUME TypeOK, TypeOK', RoutingInv, ResolverInv, Receiver
    PROVE  ResolverInv'
<1>a. UNCHANGED <<pc, outcome>>
  BY DEF Receiver, PollStart, PollRegistration, PollRegistrationsDone, PollInbound,
         PollInboundDone
<1>b. SUFFICES KindsFiled' /\ OneResolver' /\ ParkedType'
  BY <1>a DEF ResolverInv, OutcomeOfDone
<1>1. CASE UNCHANGED <<slot, registrations, maps>>
  BY <1>1, <1>a DEF maps, ResolverInv, KindsFiled, OneResolver, ParkedType, Queued,
                    Pending, Stored
<1>2. CASE ReceiverExits
  <2>1. KindsFiled' /\ ParkedType'
    BY <1>2 DEF ReceiverExits, KindsFiled, ParkedType
  <2>2. \A r \in Req : ~Queued(r)' /\ ~Stored(r)'
    BY <1>2, ConnectionAssumption DEF ReceiverExits, Queued, Stored, Pending
  <2>3. \A r \in Req : slot[r] = None /\ slot'[r] # None => Queued(r) \/ Stored(r)
    BY <1>2 DEF ReceiverExits, Owned, Queued, Stored, Pending
  <2>4. \A i, j \in DOMAIN registrations' : FALSE
    BY <1>2 DEF ReceiverExits
  <2>5. OneResolver'
    BY <1>a, <2>2, <2>3, <2>4 DEF ResolverInv, OneResolver
  <2> QED BY <2>1, <2>5
<1>3. CASE PollRegistration
  <2> DEFINE g == Head(registrations)
             msgs == Get(received_messages, g.key)
  <2>a. registrations # <<>> /\ registrations' = Tail(registrations)
    BY <1>3 DEF PollRegistration
  <2>b. registrations \in Seq(Registers)
    BY DEF TypeOK, ChannelsOK
  <2>c. /\ 1 \in DOMAIN registrations /\ g = registrations[1]
        /\ \A i \in DOMAIN registrations' :
             /\ i + 1 \in DOMAIN registrations /\ i + 1 # 1
             /\ registrations'[i] = registrations[i + 1]
        /\ \A i \in DOMAIN registrations' : i \in Nat
    <3>1. \A i \in DOMAIN registrations' : i \in Nat /\ i # 0
      BY <2>a, <2>b
    <3> QED BY <2>a, <2>b, <3>1, TailAt
  <2>d. g \in Registers /\ Filed(g) /\ (g.type = "request" => Kind[g.req] # "ping")
    BY <2>b, <2>c DEF RoutingInv, RegistrationsFiled, ResolverInv, KindsFiled
  <2>e. \A i, j \in DOMAIN registrations' :
          registrations'[i].req \in Req /\ registrations'[i].req = registrations'[j].req => i = j
    BY <2>c DEF ResolverInv, OneResolver
  <2>f. \A r \in Req : Queued(r)' => Queued(r) /\ r # g.req
    BY <2>c DEF Queued, ResolverInv, OneResolver
  <2>g. g.req \in Req => Queued(g.req)
    BY <2>c DEF Queued
  <2>h. \A i \in DOMAIN registrations' :
          registrations'[i].type = "request" => Kind[registrations'[i].req] # "ping"
    BY <2>c DEF ResolverInv, KindsFiled
  <2> HIDE DEF g
  <2>1. CASE g.type = "request" /\ msgs # {}
    <3>1. /\ \A r \in Req : r # g.req => slot'[r] = slot[r]
          /\ received_messages' \subseteq received_messages
          /\ UNCHANGED <<pending_requests, ping>>
      BY <1>3, <2>1 DEF g, PollRegistration, Resolve, Del
    <3>2. g.req \in Req
      BY <2>d, <2>1 DEF Registers
    <3>3. \A r \in Req : Stored(r)' <=> Stored(r)
      BY <3>1 DEF Stored, Pending
    <3>4. OneResolver'
      BY <1>a, <2>e, <2>f, <2>g, <3>1, <3>2, <3>3 DEF ResolverInv, OneResolver
    <3> QED BY <2>h, <3>1, <3>4 DEF ResolverInv, KindsFiled, ParkedType
  <2>2. CASE g.type = "request" /\ msgs = {}
    <3>1. /\ \A r \in Req : r \notin Get(pending_requests, g.key) => slot'[r] = slot[r]
          /\ pending_requests' = Put(pending_requests, g.key, g.req)
          /\ UNCHANGED <<received_messages, ping>>
      BY <1>3, <2>2 DEF g, PollRegistration, Resolve
    <3>2. g.req \in Req /\ g.key # None /\ g.key = key[g.req]
      BY <2>d, <2>2 DEF Registers, Filed
    <3>3. Get(pending_requests, g.key) = {}
      <4> SUFFICES ASSUME NEW e \in pending_requests, e[1] = g.key
                   PROVE  FALSE
        BY DEF Get
      <4>1. e[2] \in Req /\ key[e[2]] = g.key
        BY DEF TypeOK, ReceiverOK, RoutingInv, ResolversFiled
      <4>2. e[2] = g.req
        BY <3>2, <4>1 DEF RoutingInv, KeysUnique
      <4>3. Pending(g.req)
        BY <4>2 DEF Pending
      <4> QED BY <2>g, <3>2, <4>3 DEF ResolverInv, OneResolver, Stored
    <3>4. \A r \in Req : slot'[r] = slot[r]
      BY <3>1, <3>3
    <3>5. \A r \in Req : Stored(r)' => Stored(r) \/ r = g.req
      BY <3>1 DEF Stored, Pending, Put
    <3>6. OneResolver'
      BY <1>a, <2>e, <2>f, <2>g, <3>2, <3>4, <3>5 DEF ResolverInv, OneResolver
    <3>7. \A e \in pending_requests' : Kind[e[2]] # "ping"
      BY <2>d, <2>2, <3>1 DEF Put, ResolverInv, KindsFiled
    <3> QED BY <2>h, <3>1, <3>6, <3>7 DEF ResolverInv, KindsFiled, ParkedType
  <2>3. CASE g.type = "ping"
    <3>1. /\ \A r \in Req : r # ping => slot'[r] = slot[r]
          /\ ping' = g.req
          /\ UNCHANGED <<received_messages, pending_requests>>
      BY <1>3, <2>3 DEF g, PollRegistration, Resolve
    <3>2. g.req \in Req
      BY <2>d, <2>3 DEF Registers
    <3>3. \A r \in Req : Stored(r)' <=> Pending(r) \/ r = g.req
      BY <3>1 DEF Stored, Pending
    <3>4. ping \in Req => /\ ~Pending(ping) /\ ping # g.req /\ ~Queued(ping)
                          /\ pc[ping] \notin {"idle", "register", "excl"}
      BY <2>g, ConnectionAssumption
         DEF ResolverInv, OneResolver, KindsFiled, Stored, Pending, RoutingInv,
                  ResolversFiled
    <3>5. OneResolver'
      <4> SUFFICES ASSUME NEW r \in Req
                   PROVE  /\ Queued(r)' => ~Stored(r)' /\ slot'[r] = None
                          /\ Stored(r)' => slot'[r] = None
                          /\ pc'[r] \in {"idle", "register", "excl"} =>
                                ~Queued(r)' /\ ~Stored(r)' /\ slot'[r] = None
        BY <2>e DEF OneResolver
      <4>1. CASE r = ping
        BY <1>a, <2>f, <3>3, <3>4, <4>1
      <4>2. CASE r # ping
        BY <1>a, <2>f, <2>g, <3>1, <3>3, <4>2 DEF ResolverInv, OneResolver, Stored
      <4> QED BY <4>1, <4>2
    <3> QED BY <2>h, <3>1, <3>5 DEF ResolverInv, KindsFiled, ParkedType
  <2>4. CASE g.type \in {"consumer", "remove"}
    <3>1. UNCHANGED <<slot, pending_requests, received_messages, ping>>
      BY <1>3, <2>4 DEF g, PollRegistration
    <3>2. \A r \in Req : Stored(r)' <=> Stored(r)
      BY <3>1 DEF Stored, Pending
    <3>3. OneResolver'
      BY <1>a, <2>e, <2>f, <3>1, <3>2 DEF ResolverInv, OneResolver
    <3> QED BY <2>h, <3>1, <3>3 DEF ResolverInv, KindsFiled, ParkedType
  <2> QED BY <2>d, <2>1, <2>2, <2>3, <2>4 DEF Registers
<1>4. CASE PollInbound
  <2> DEFINE m == Head(inbound)
  <2>a. registrations' = registrations /\ \A r \in Req : Queued(r)' <=> Queued(r)
    BY <1>4 DEF PollInbound, Queued
  <2> HIDE DEF m
  <2>1. CASE RouteReply(m)
    <3> DEFINE to == Get(pending_requests, m.key)
    <3>1. CASE to # {}
      <4>1. /\ \A r \in Req : r \notin to => slot'[r] = slot[r]
            /\ pending_requests' = Del(pending_requests, m.key)
            /\ UNCHANGED <<received_messages, ping>>
        BY <2>1, <3>1 DEF RouteReply, Resolve
      <4>2. \A r \in to : r \in Req /\ m.key # None /\ key[r] = m.key /\ Pending(r)
        BY DEF Get, TypeOK, ReceiverOK, RoutingInv, ResolversFiled, Pending
      <4>3. \A r \in to : ~Pending(r)' /\ ping # r
        BY <4>1, <4>2, ConnectionAssumption
           DEF Pending, Del, RoutingInv, ResolversFiled, KindsFiled, ResolverInv
      <4>4. \A r \in Req : Stored(r)' => Stored(r) /\ r \notin to
        BY <4>1, <4>3 DEF Stored, Pending, Del
      <4>5. OneResolver'
        <5> SUFFICES ASSUME NEW r \in Req
                     PROVE  /\ Queued(r)' => ~Stored(r)' /\ slot'[r] = None
                            /\ Stored(r)' => slot'[r] = None
                            /\ pc'[r] \in {"idle", "register", "excl"} =>
                                  ~Queued(r)' /\ ~Stored(r)' /\ slot'[r] = None
          BY <2>a DEF ResolverInv, OneResolver
        <5>1. CASE r \in to
          BY <1>a, <2>a, <4>2, <4>4, <5>1 DEF ResolverInv, OneResolver, Stored
        <5>2. CASE r \notin to
          BY <1>a, <2>a, <4>1, <4>4, <5>2 DEF ResolverInv, OneResolver
        <5> QED BY <5>1, <5>2
      <4> QED BY <2>a, <4>1, <4>5 DEF ResolverInv, KindsFiled, ParkedType, Del
    <3>2. CASE to = {}
      <4>1. /\ received_messages' = Put(received_messages, m.key, m)
            /\ m.type \in Replies \cup {"close_producer"}
            /\ UNCHANGED <<slot, pending_requests, ping>>
        BY <2>1, <3>2 DEF RouteReply
      <4>2. ParkedType'
        BY <4>1 DEF Put, ResolverInv, ParkedType
      <4>3. \A r \in Req : Stored(r)' <=> Stored(r)
        BY <4>1 DEF Stored, Pending
      <4> QED BY <1>a, <2>a, <4>1, <4>2, <4>3 DEF ResolverInv, KindsFiled, OneResolver
    <3> QED BY <3>1, <3>2
  <2>2. CASE RouteConsumer(m) \/ RoutePing(m) \/ RouteChallenge(m)
    <3>1. UNCHANGED <<slot, pending_requests, received_messages, ping>>
      BY <2>2 DEF RouteConsumer, RoutePing, RouteChallenge, maps
    <3>2. \A r \in Req : Stored(r)' <=> Stored(r)
      BY <3>1 DEF Stored, Pending
    <3> QED BY <1>a, <2>a, <3>1, <3>2 DEF ResolverInv, KindsFiled, OneResolver, ParkedType
  <2>3. CASE RoutePong(m)
    <3>1. /\ \A r \in Req : r # ping => slot'[r] = slot[r]
          /\ ping' = None
          /\ UNCHANGED <<pending_requests, received_messages>>
      BY <2>3 DEF RoutePong, Resolve
    <3>2. ping \in Req => ~Pending(ping)
      BY ConnectionAssumption DEF Pending, ResolverInv, KindsFiled, RoutingInv, ResolversFiled
    <3>3. \A r \in Req : Stored(r)' => Stored(r) /\ r # ping
      BY <3>1, <3>2, ConnectionAssumption DEF Stored, Pending
    <3>4. OneResolver'
      <4> SUFFICES ASSUME NEW r \in Req
                   PROVE  /\ Queued(r)' => ~Stored(r)' /\ slot'[r] = None
                          /\ Stored(r)' => slot'[r] = None
                          /\ pc'[r] \in {"idle", "register", "excl"} =>
                                ~Queued(r)' /\ ~Stored(r)' /\ slot'[r] = None
        BY <2>a DEF ResolverInv, OneResolver
      <4>1. CASE r = ping
        BY <1>a, <2>a, <3>3, <4>1 DEF ResolverInv, OneResolver, Stored
      <4>2. CASE r # ping
        BY <1>a, <2>a, <3>1, <3>3, <4>2 DEF ResolverInv, OneResolver
      <4> QED BY <4>1, <4>2
    <3> QED BY <2>a, <3>1, <3>4 DEF ResolverInv, KindsFiled, ParkedType
  <2> QED BY <1>4, <2>1, <2>2, <2>3 DEF m, PollInbound
<1> QED
  BY <1>1, <1>2, <1>3, <1>4 DEF Receiver, PollStart, PollRegistrationsDone, PollInboundDone

\* The other tasks hold no resolvers.
LEMMA OtherResolvers ==
    ASSUME ResolverInv,
           UNCHANGED <<pc, outcome, slot, registrations, pending_requests,
                       received_messages, ping>>
    PROVE  ResolverInv'
BY DEF ResolverInv, KindsFiled, OneResolver, ParkedType, OutcomeOfDone, Queued, Pending,
       Stored

-----------------------------------------------------------------------------
(* FlagTellsTruth: only a dropped resolver is read as Disconnected by       *)
(* mistake, and while the Receiver lives only an overtaken ping sees one.   *)

\* A ping that was overtaken stays so.
LEMMA OvertakenStays ==
    ASSUME TypeOK, Next, NEW r \in Req, Overtaken(r)
    PROVE  Overtaken(r)'
<1> USE DEF caller, maps, tasks, env
<1>1. \A q \in Req : pc[q] # "idle" => pc'[q] # "idle"
  <2>1. ASSUME NEW q \in Req, Caller(q)
        PROVE  <1>1
    BY <2>1 DEF Caller, Enqueue, RegisterConsumer, RegisterRequest, RegisterPing,
                EnqueueControl, EnqueueData, Return, ReturnCanceled, Timeout,
                RegisterExclusive, Finish, TypeOK, CallersOK
  <2>2. CASE Receiver
    BY <2>2 DEF Receiver, PollStart, PollRegistration, PollRegistrationsDone, PollInbound,
                PollInboundDone
  <2>3. CASE \/ \E c \in Consumers : TakeError(c)
             \/ DropConnection \/ SinkWrite \/ SinkCloses \/ AnswerChallenge \/ Broker
    BY <2>3 DEF TakeError, DropConnection, SinkWrite, SinkCloses, AnswerChallenge, Broker,
                BrokerReply, BrokerSends, SocketCloses
  <2> QED BY <2>1, <2>2, <2>3 DEF Next
<1>2. slot'[r] = Canceled
  <2>a. slot[r] = Canceled /\ slot[r] # None
    BY MessageAssumption, CanceledType DEF Overtaken
  <2>1. ASSUME NEW q \in Req, Caller(q)
        PROVE  <1>2
    <3>1. CASE Return(q)
      BY <2>a, <3>1 DEF Return, TypeOK, CallersOK
    <3>2. CASE ~Return(q)
      BY <2>a, <2>1, <3>2
         DEF Caller, Enqueue, RegisterConsumer, RegisterRequest, RegisterPing, EnqueueControl,
             EnqueueData, ReturnCanceled, Timeout, RegisterExclusive
    <3> QED BY <3>1, <3>2
  <2>2. CASE PollRegistration
    <3>1. Head(registrations) \in Registers
      BY <2>2, Takes DEF PollRegistration, TypeOK, ChannelsOK
    <3>2. Head(registrations).type \in {"request", "ping", "consumer", "remove"}
      BY <3>1 DEF Registers
    <3> QED BY <2>a, <2>2, <3>2 DEF PollRegistration, Resolve
  <2>3. CASE PollInbound
    BY <2>a, <2>3 DEF PollInbound, RouteReply, RouteConsumer, RoutePing, RoutePong,
                      RouteChallenge, Resolve
  <2>4. CASE PollStart \/ PollRegistrationsDone \/ PollInboundDone
    BY <2>a, <2>4 DEF PollStart, PollRegistrationsDone, PollInboundDone, ReceiverExits
  <2>5. CASE \/ \E c \in Consumers : TakeError(c)
             \/ DropConnection \/ SinkWrite \/ SinkCloses \/ AnswerChallenge \/ Broker
    BY <2>a, <2>5 DEF TakeError, DropConnection, SinkWrite, SinkCloses, AnswerChallenge,
                      Broker, BrokerReply, BrokerSends, SocketCloses
  <2> QED BY <2>1, <2>2, <2>3, <2>4, <2>5 DEF Next, Receiver
<1> QED BY <1>1, <1>2 DEF Overtaken

\* While the Receiver lives, only a ping that a later one replaces is dropped.
LEMMA ReceiverCancels ==
    ASSUME TypeOK, RoutingInv, ResolverInv, PollRegistration \/ PollInbound,
           NEW r \in Req, slot[r] # Canceled, slot'[r] = Canceled
    PROVE  PollRegistration /\ Head(registrations).type = "ping" /\ r = ping
<1>a. Canceled.type = "canceled"
  BY DEF Canceled, Msg
<1>b. slot[r] = None
  <2>1. CASE PollInbound
    BY <2>1 DEF PollInbound, RouteReply, RouteConsumer, RoutePing, RoutePong,
                RouteChallenge, Resolve, maps
  <2>2. CASE PollRegistration
    <3>1. Head(registrations) \in Registers
      BY <2>2, Takes DEF PollRegistration, TypeOK, ChannelsOK
    <3>2. Head(registrations).type \in {"request", "ping", "consumer", "remove"}
      BY <3>1 DEF Registers
    <3> QED BY <2>2, <3>2 DEF PollRegistration, Resolve
  <2> QED BY <2>1, <2>2
<1>1. CASE PollRegistration
  <2> DEFINE g == Head(registrations)
             msgs == Get(received_messages, g.key)
  <2>a. g \in Registers /\ 1 \in DOMAIN registrations /\ g = registrations[1]
    BY <1>1, Takes, TailAt DEF PollRegistration, TypeOK, ChannelsOK
  <2>b. Filed(g) /\ (g.req \in Req => Queued(g.req))
    BY <2>a DEF RoutingInv, RegistrationsFiled, Queued
  <2> HIDE DEF g
  <2>1. CASE g.type = "request" /\ msgs # {}
    <3>1. slot'[r] = CHOOSE m \in msgs : TRUE
      BY <1>1, <1>b, <2>1 DEF g, PollRegistration, Resolve
    <3>2. (CHOOSE m \in msgs : TRUE) \in msgs
      BY <2>1
    <3>3. \A m \in msgs : m.type \in Replies \cup {"close_producer"}
      BY DEF Get, ResolverInv, ParkedType
    <3> QED BY <1>a, <3>1, <3>2, <3>3 DEF Replies
  <2>2. CASE g.type = "request" /\ msgs = {}
    <3>1. r \in Get(pending_requests, g.key)
      BY <1>1, <1>b, <2>2 DEF g, PollRegistration, Resolve
    <3>2. g.req \in Req /\ g.key # None /\ g.key = key[g.req]
      BY <2>a, <2>b, <2>2 DEF Filed, Registers
    <3>3. Pending(r) /\ key[r] = g.key
      BY <3>1 DEF Get, Pending, RoutingInv, ResolversFiled
    <3>4. r = g.req
      BY <3>2, <3>3 DEF RoutingInv, KeysUnique
    <3> QED BY <2>b, <3>3, <3>4 DEF ResolverInv, OneResolver, Stored
  <2>3. CASE g.type = "ping"
    BY <1>1, <1>b, <2>3 DEF g, PollRegistration, Resolve
  <2>4. CASE g.type \in {"consumer", "remove"}
    BY <1>1, <1>b, <2>4 DEF g, PollRegistration
  <2> QED BY <2>a, <2>1, <2>2, <2>3, <2>4 DEF Registers
<1>2. CASE PollInbound
  <2> DEFINE m == Head(inbound)
  <2>1. slot'[r] # m => slot'[r] = slot[r]
    BY <1>2, <1>b
       DEF PollInbound, RouteReply, RouteConsumer, RoutePing, RoutePong, RouteChallenge,
           Resolve, maps
  <2>2. slot'[r] # slot[r] => m.type \in Replies \cup {"close_producer", "pong"}
    BY <1>2
       DEF PollInbound, RouteReply, RouteConsumer, RoutePing, RoutePong, RouteChallenge,
           maps
  <2> HIDE DEF m
  <2> QED BY <1>a, <1>b, <2>1, <2>2 DEF Replies
<1> QED BY <1>1, <1>2

\* What is down stays down.
LEMMA DownStays ==
    ASSUME Next
    PROVE  /\ polling = "dead" => polling' = "dead"
           /\ sink = "dead" => sink' = "dead"
           /\ dropped => dropped'
<1> USE DEF caller, maps, tasks, env
<1>1. ASSUME NEW r \in Req, Caller(r)
      PROVE  UNCHANGED <<polling, sink, dropped>>
  BY <1>1 DEF Caller, Enqueue, RegisterConsumer, RegisterRequest, RegisterPing,
              EnqueueControl, EnqueueData, Return, ReturnCanceled, Timeout, RegisterExclusive
<1>2. CASE Receiver
  <2>1. UNCHANGED <<sink, dropped>> /\ polling # "dead"
    BY <1>2 DEF Receiver, PollStart, PollRegistration, PollRegistrationsDone, PollInbound,
                PollInboundDone
  <2> QED BY <2>1
<1>3. CASE \/ \E c \in Consumers : TakeError(c)
           \/ DropConnection \/ SinkWrite \/ SinkCloses \/ AnswerChallenge \/ Broker
  BY <1>3 DEF TakeError, DropConnection, SinkWrite, SinkCloses, SinkExits, AnswerChallenge,
              Broker, BrokerReply, BrokerSends, SocketCloses
<1> QED BY <1>1, <1>2, <1>3 DEF Next

\* The resolver the Receiver drops is of the ping that another one replaces.
LEMMA OvertakenStep ==
    ASSUME TypeOK, RoutingInv, ResolverInv, OnlyOvertaken, Next
    PROVE  OnlyOvertaken'
<1> USE DEF caller, maps, tasks, env
<1> SUFFICES ASSUME NEW r \in Req, slot'[r] = Canceled, Receiving'
             PROVE  Overtaken(r)'
  BY DEF OnlyOvertaken
<1>a. Receiving
  BY DownStays DEF Receiving
<1>1. CASE slot[r] = Canceled
  BY <1>a, <1>1, OvertakenStays DEF OnlyOvertaken
<1>2. CASE slot[r] # Canceled
  <2>1. PollRegistration \/ PollInbound
    <3>1. ASSUME NEW q \in Req, Caller(q)
          PROVE  FALSE
      <4>1. slot'[r] \in {slot[r], None}
        BY <3>1 DEF Caller, Enqueue, RegisterConsumer, RegisterRequest, RegisterPing,
                    EnqueueControl, EnqueueData, Return, ReturnCanceled, Timeout,
                    RegisterExclusive, TypeOK, CallersOK
      <4> QED BY <1>2, <4>1, MessageAssumption, CanceledType
    <3>2. CASE PollStart \/ PollRegistrationsDone \/ PollInboundDone
      BY <1>2, <3>2 DEF PollStart, PollRegistrationsDone, PollInboundDone, ReceiverExits,
                        Receiving
    <3>3. CASE \/ \E c \in Consumers : TakeError(c)
               \/ DropConnection \/ SinkWrite \/ SinkCloses \/ AnswerChallenge \/ Broker
      BY <1>2, <3>3 DEF TakeError, DropConnection, SinkWrite, SinkCloses, AnswerChallenge,
                        Broker, BrokerReply, BrokerSends, SocketCloses
    <3> QED BY <3>1, <3>2, <3>3 DEF Next, Receiver
  <2>2. PollRegistration /\ Head(registrations).type = "ping" /\ r = ping
    BY <1>2, <2>1, ReceiverCancels
  <2> DEFINE g == Head(registrations)
  <2>3. g \in Registers /\ 1 \in DOMAIN registrations /\ g = registrations[1]
    BY <2>2, Takes, TailAt DEF PollRegistration, TypeOK, ChannelsOK
  <2>4. g.req \in Req /\ Kind[g.req] = "ping" /\ Queued(g.req)
    BY <2>2, <2>3 DEF Registers, RoutingInv, RegistrationsFiled, Filed, Queued
  <2> HIDE DEF g
  <2>5. g.req # r /\ pc[g.req] # "idle"
    BY <2>2, <2>4 DEF ResolverInv, OneResolver, Stored
  <2>6. Kind[r] = "ping" /\ pc' = pc
    BY <2>2, ConnectionAssumption DEF RoutingInv, ResolversFiled, PollRegistration
  <2> QED BY <2>4, <2>5, <2>6 DEF Overtaken
<1> QED BY <1>1, <1>2

\* Nothing but an overtaken ping reports Disconnected while all tasks run.
LEMMA DisconnectedStep ==
    ASSUME TypeOK, OnlyOvertaken, DisconnectedMeansDown, Next
    PROVE  DisconnectedMeansDown'
<1> USE DEF caller, maps, tasks, env
<1>1. \/ error' \in {error, "none", "timed_out", "io", "auth"}
      \/ polling' = "dead" \/ sink' = "dead" \/ dropped'
      \/ \E q \in Req : Overtaken(q)
  <2>1. ASSUME NEW r \in Req, Caller(r)
        PROVE  <1>1
    <3>1. CASE ReturnCanceled(r)
      <4>1. slot[r] = Canceled /\ pc[r] # "done" /\ polling' = polling
        BY <3>1 DEF ReturnCanceled
      <4> QED BY <4>1 DEF OnlyOvertaken, Receiving
    <3>2. CASE ~ReturnCanceled(r)
      BY <2>1, <3>2
         DEF Caller, Enqueue, RegisterConsumer, RegisterRequest, RegisterPing, EnqueueControl,
             EnqueueData, Return, Timeout, RegisterExclusive, Receiving
    <3> QED BY <3>1, <3>2
  <2>2. CASE PollInbound
    BY <2>2, DownStays
       DEF PollInbound, RouteReply, RouteConsumer, RoutePing, RoutePong, RouteChallenge,
           TypeOK, TasksOK
  <2>3. CASE Receiver /\ ~PollInbound
    BY <2>3
       DEF Receiver, PollStart, PollRegistration, PollRegistrationsDone, PollInboundDone,
           ReceiverExits
  <2>4. CASE \/ \E c \in Consumers : TakeError(c)
             \/ DropConnection \/ SinkWrite \/ SinkCloses \/ AnswerChallenge \/ Broker
    BY <2>4 DEF TakeError, DropConnection, SinkWrite, SinkCloses, AnswerChallenge, Broker,
                BrokerReply, BrokerSends, SocketCloses
  <2> QED BY <2>1, <2>2, <2>3, <2>4 DEF Next
<1>2. \A q \in Req : Overtaken(q) => Overtaken(q)'
  BY OvertakenStays
<1> QED BY <1>1, <1>2, DownStays DEF DisconnectedMeansDown

\* A consumer goes on holding a connection until it is closed.
LEMMA HoldsOn ==
    ASSUME TypeOK, ResolverInv, NEW r \in Req, Caller(r), ~RegisterConsumer(r),
           NEW c \in Consumers, HoldsConnection(c)
    PROVE  HoldsConnection(c)'
<1>1. PICK s \in Req : Kind[s] = "subscribe" /\ Target[s] = c /\ outcome[s] = "ok"
  BY DEF HoldsConnection
<1>2. \A q \in Req : Kind[q] = "close" /\ pc[q] = "idle" => pc'[q] = "idle"
  BY DEF Caller, Enqueue, RegisterRequest, RegisterPing, EnqueueControl, EnqueueData, MayCall,
         Return, ReturnCanceled, Timeout, RegisterExclusive, Finish, TypeOK, CallersOK
<1>3. outcome'[s] = "ok"
  <2>1. pc[s] = "done"
    BY <1>1, MessageAssumption DEF ResolverInv, OutcomeOfDone
  <2> QED
    BY <1>1, <2>1
     DEF Caller, Enqueue, RegisterRequest, RegisterPing, EnqueueControl, EnqueueData, MayCall,
         Return, ReturnCanceled, Timeout, RegisterExclusive, Finish, TypeOK, CallersOK, caller
<1> QED BY <1>1, <1>2, <1>3 DEF HoldsConnection

\* Whatever stops the Receiver sets the flag, and what clears it holds on.
LEMMA DownFlaggedStep ==
    ASSUME TypeOK, ResolverInv, DownIsFlagged, Next
    PROVE  DownIsFlagged'
<1> USE DEF caller, maps, tasks, env
<1> SUFFICES ASSUME polling' = "dead", ~dropped'
             PROVE  error' # "none" \/ \E c \in Consumers : HoldsConnection(c)'
  BY DEF DownIsFlagged
<1>a. ~dropped
  BY DownStays
<1>1. CASE polling # "dead"
  BY <1>1, <1>a
     DEF Next, Caller, Enqueue, RegisterConsumer, RegisterRequest, RegisterPing,
         EnqueueControl, EnqueueData, Return, ReturnCanceled, Timeout, RegisterExclusive,
         TakeError, DropConnection, Receiver, PollStart, PollRegistration,
         PollRegistrationsDone, PollInbound, PollInboundDone, SinkWrite, SinkCloses,
         SinkExits, AnswerChallenge, Broker, BrokerReply, BrokerSends, SocketCloses
<1>2. CASE polling = "dead"
  <2>a. error # "none" \/ \E c \in Consumers : HoldsConnection(c)
    BY <1>2, <1>a DEF DownIsFlagged
  <2>1. CASE \E r \in Req : RegisterConsumer(r)
    BY <1>2, <2>1 DEF RegisterConsumer, Receiving
  <2>2. ASSUME NEW r \in Req, Caller(r), ~RegisterConsumer(r)
        PROVE  error' # "none" \/ \E c \in Consumers : HoldsConnection(c)'
    <3>1. error # "none" => error' # "none"
      BY <2>2 DEF Caller, Enqueue, RegisterRequest, RegisterPing, EnqueueControl, EnqueueData,
                  Return, ReturnCanceled, Timeout, RegisterExclusive
    <3> QED BY <2>a, <2>2, <3>1, HoldsOn
  <2>3. CASE \E c \in Consumers : TakeError(c)
    BY <2>3 DEF TakeError, HoldsConnection
  <2>4. CASE DropConnection
    BY <2>4 DEF DropConnection
  <2>5. CASE Receiver
    BY <1>2, <2>5 DEF Receiver, PollStart, PollRegistration, PollRegistrationsDone,
                      PollInbound, PollInboundDone
  <2>6. CASE SinkWrite \/ SinkCloses \/ AnswerChallenge \/ Broker
    <3>1. error # "none" => error' # "none"
      BY <2>6 DEF SinkWrite, SinkCloses, AnswerChallenge, Broker, BrokerReply, BrokerSends,
                  SocketCloses
    <3>2. UNCHANGED <<pc, outcome>>
      BY <2>6 DEF SinkWrite, SinkCloses, AnswerChallenge, Broker, BrokerReply, BrokerSends,
                  SocketCloses
    <3> QED BY <2>a, <3>1, <3>2 DEF HoldsConnection
  <2> QED BY <2>1, <2>2, <2>3, <2>4, <2>5, <2>6 DEF Next
<1> QED BY <1>1, <1>2

-----------------------------------------------------------------------------
(* NoMessageLost: the registration of a consumer is always read before the  *)
(* answer to its subscription is delivered, hence before the first message. *)

DeliveryInv == RemovesAsked /\ SubscribersKnown /\ MessagesOfSubscribers

\* Nothing is discarded at the start.
LEMMA InitDelivery == Init => DeliveryInv /\ NoMessageLost
BY ConnectionAssumption, MessageAssumption
   DEF Init, DeliveryInv, RemovesAsked, SubscribersKnown, MessagesOfSubscribers,
       NoMessageLost, KnownBefore, Pending

\* A call that began has begun for ever.
LEMMA CallsBegin ==
    ASSUME TypeOK, NEW r \in Req, Caller(r)
    PROVE  /\ \A q \in Req : pc[q] # "idle" => pc'[q] # "idle"
           /\ \A c : CloseAsked(c) => CloseAsked(c)'
<1>1. \A q \in Req : pc[q] # "idle" => pc'[q] # "idle"
  BY DEF Caller, Enqueue, RegisterConsumer, RegisterRequest, RegisterPing, EnqueueControl,
         EnqueueData, Return, ReturnCanceled, Timeout, RegisterExclusive, Finish,
         TypeOK, CallersOK
<1> QED BY <1>1 DEF CloseAsked

\* subscribe registers its consumer before its request.
LEMMA CallerDelivery ==
    ASSUME TypeOK, RoutingInv, ResolverInv, DeliveryInv, NEW r \in Req, Caller(r)
    PROVE  DeliveryInv'
<1> USE DEF caller, maps, tasks, env
<1>a. UNCHANGED <<polling, consumers, pending_requests, inbound>>
  BY DEF Caller, Enqueue, RegisterConsumer, RegisterRequest, RegisterPing, EnqueueControl,
         EnqueueData, Return, ReturnCanceled, Timeout, RegisterExclusive
<1>b. \A q \in Req : outcome[q] = "ok" => outcome'[q] = "ok"
  <2>1. \A q \in Req : outcome[q] = "ok" => pc[q] = "done"
    BY MessageAssumption DEF ResolverInv, OutcomeOfDone
  <2> QED
    BY <2>1
       DEF Caller, Enqueue, RegisterConsumer, RegisterRequest, RegisterPing, MayCall,
           EnqueueControl, EnqueueData, Return, ReturnCanceled, Timeout, RegisterExclusive,
           Finish, TypeOK, CallersOK
<1>c. \A q \in Req : outcome'[q] = "ok" => outcome[q] = "ok" \/ slot[q] # None
  BY DEF Caller, Enqueue, RegisterConsumer, RegisterRequest, RegisterPing, MayCall,
         EnqueueControl, EnqueueData, Return, ReturnCanceled, Timeout, RegisterExclusive,
         Finish, TypeOK, CallersOK
<1>d. \A q \in Req : slot'[q] # None => slot[q] # None
  BY DEF Caller, Enqueue, RegisterConsumer, RegisterRequest, RegisterPing, MayCall,
         EnqueueControl, EnqueueData, Return, ReturnCanceled, Timeout, RegisterExclusive,
         Finish, TypeOK, CallersOK
<1>e. PICK g : /\ registrations' \in {registrations, Append(registrations, g)}
               /\ g.type = "remove" => Kind[r] = "close" /\ pc'[r] # "idle"
                                       /\ g.consumer = Target[r]
               /\ g.req \in Req => g.req = r /\ (Kind[r] = "subscribe" => pc[r] = "register")
               /\ g \in Registers
  <2>1. CASE UNCHANGED registrations
    <3>1. Register("consumer", None, None, None) \in Registers
      BY RegisterConsumerType
    <3> QED BY <2>1, <3>1, ConnectionAssumption DEF Register
  <2>2. CASE RegisterConsumer(r) /\ Receiving
    <3>1. /\ Register("consumer", None, None, Target[r]) \in Registers
          /\ Register("remove", None, None, Target[r]) \in Registers
      BY RegisterConsumerType, ConnectionAssumption
    <3> QED BY <2>2, <3>1, ConnectionAssumption DEF RegisterConsumer, Register, TypeOK, CallersOK
  <2>3. CASE RegisterRequest(r) /\ Receiving
    <3>1. key'[r] \in Keys \cup {None}
      BY <2>3, TakeKeyType DEF RegisterRequest, TypeOK, CallersOK
    <3>2. PICK k \in Keys \cup {None} : k = key'[r]
      BY <3>1
    <3>3. Register("request", k, r, None) \in Registers
      BY RegisterType
    <3> QED BY <2>3, <3>2, <3>3 DEF RegisterRequest, Register, MayCall
  <2>4. CASE RegisterPing(r) /\ Receiving
    <3>1. Register("ping", None, r, None) \in Registers
      BY RegisterType
    <3> QED BY <2>4, <3>1 DEF RegisterPing, Register
  <2>5. CASE RegisterExclusive(r) /\ Receiving
    <3>1. PICK k \in Keys \cup {None} : k = key[r]
      BY DEF TypeOK, CallersOK
    <3>2. Register("request", k, r, None) \in Registers
      BY RegisterType
    <3> QED BY <2>5, <3>1, <3>2 DEF RegisterExclusive, Register, RoutingInv, KeysFresh
  <2> QED
    BY <2>1, <2>2, <2>3, <2>4, <2>5
       DEF Caller, Enqueue, RegisterConsumer, RegisterRequest, RegisterPing, EnqueueControl,
           EnqueueData, Return, ReturnCanceled, Timeout, RegisterExclusive
<1>f. /\ registrations \in Seq(Registers) /\ DOMAIN registrations = 1..Len(registrations)
      /\ Len(registrations) \in Nat
      /\ \A i \in DOMAIN registrations :
            i \in DOMAIN registrations' /\ registrations'[i] = registrations[i]
      /\ \A i \in DOMAIN registrations' :
            \/ i \in DOMAIN registrations
            \/ i = Len(registrations) + 1 /\ registrations'[i] = g
      /\ Len(registrations') >= Len(registrations)
  <2>1. registrations \in Seq(Registers)
    BY DEF TypeOK, ChannelsOK
  <2>2. CASE registrations' = registrations
    BY <2>1, <2>2
  <2>3. CASE registrations' = Append(registrations, g)
    BY <1>e, <2>1, <2>3, AppendAt, Appends
  <2> QED BY <1>e, <2>1, <2>2, <2>3
<1>1. RemovesAsked'
  <2> SUFFICES ASSUME NEW i \in DOMAIN registrations', registrations'[i].type = "remove"
               PROVE  \E q \in Req : Kind[q] = "close" /\ Target[q] = registrations'[i].consumer
                                   /\ pc'[q] # "idle"
    BY DEF RemovesAsked, CloseAsked
  <2>1. CASE i \in DOMAIN registrations
    <3>1. registrations'[i] = registrations[i]
      BY <1>f, <2>1
    <3>2. PICK c : c = registrations[i].consumer /\ CloseAsked(c)
      BY <2>1, <3>1 DEF DeliveryInv, RemovesAsked
    <3> QED BY <3>1, <3>2, CallsBegin DEF CloseAsked
  <2>2. CASE i \notin DOMAIN registrations
    BY <1>e, <1>f, <2>2 DEF CloseAsked
  <2> QED BY <2>1, <2>2
<1>2. SubscribersKnown'
  <2> SUFFICES ASSUME Receiving', NEW s \in Req, Kind[s] = "subscribe",
                      ~CloseAsked(Target[s])'
               PROVE  /\ pc'[s] = "register" => KnownBefore(Target[s], Len(registrations) + 1)'
                      /\ \A i \in DOMAIN registrations' :
                           registrations'[i].req = s => KnownBefore(Target[s], i)'
                      /\ slot'[s] # None \/ Pending(s)' \/ outcome'[s] = "ok" =>
                           Target[s] \in consumers'
    BY DEF SubscribersKnown
  <2> DEFINE c == Target[s]
  <2>1. Receiving /\ ~CloseAsked(c)
    BY <1>a, CallsBegin DEF Receiving
  <2>2. /\ pc[s] = "register" => KnownBefore(c, Len(registrations) + 1)
        /\ \A i \in DOMAIN registrations : registrations[i].req = s => KnownBefore(c, i)
        /\ slot[s] # None \/ Pending(s) \/ outcome[s] = "ok" => c \in consumers
    BY <2>1 DEF DeliveryInv, SubscribersKnown
  <2>3. slot'[s] # None \/ Pending(s)' \/ outcome'[s] = "ok" => c \in consumers'
    BY <1>a, <1>c, <1>d, <2>2 DEF Pending
  <2>4. ASSUME NEW i \in DOMAIN registrations', registrations'[i].req = s
        PROVE  KnownBefore(c, i)'
    <3>1. KnownBefore(c, i)
      BY <1>e, <1>f, <2>2, <2>4
    <3> QED BY <1>a, <1>f, <3>1 DEF KnownBefore
  <2>5. ASSUME pc'[s] = "register"
        PROVE  KnownBefore(c, Len(registrations) + 1)'
    <3>1. CASE pc[s] = "register"
      <4>1. KnownBefore(c, Len(registrations) + 1)
        BY <2>2, <3>1
      <4>2. CASE c \in consumers
        BY <1>a, <4>2 DEF KnownBefore
      <4>3. ASSUME NEW j \in DOMAIN registrations, registrations[j].type = "consumer",
                   registrations[j].consumer = c
            PROVE  KnownBefore(c, Len(registrations) + 1)'
        <5>1. j \in DOMAIN registrations' /\ registrations'[j] = registrations[j]
          BY <1>f
        <5>2. Len(registrations') \in Nat /\ DOMAIN registrations' = 1..Len(registrations')
          <6>1. CASE registrations' = registrations
            BY <1>f, <6>1
          <6>2. CASE registrations' = Append(registrations, g)
            BY <1>e, <1>f, <6>2, AppendAt, Appends
          <6> QED BY <1>e, <6>1, <6>2
        <5> QED BY <4>3, <5>1, <5>2 DEF KnownBefore
      <4> QED BY <4>1, <4>2, <4>3 DEF KnownBefore
    <3>2. CASE pc[s] # "register"
      <4>1. RegisterConsumer(r) /\ s = r
        BY <2>5, <3>2
           DEF Caller, Enqueue, RegisterConsumer, RegisterRequest, RegisterPing, MayCall,
               EnqueueControl, EnqueueData, Return, ReturnCanceled, Timeout,
               RegisterExclusive, Finish, TypeOK, CallersOK
      <4>2. PICK h \in Registers : /\ registrations' = Append(registrations, h)
                                   /\ h.type = "consumer" /\ h.consumer = c
        <5>1. Register("consumer", None, None, c) \in Registers
          BY RegisterConsumerType, ConnectionAssumption
        <5> QED BY <2>1, <4>1, <5>1 DEF RegisterConsumer, Register
      <4>3. /\ Len(registrations) + 1 \in DOMAIN registrations'
            /\ registrations'[Len(registrations) + 1] = h
            /\ Len(registrations') = Len(registrations) + 1
        BY <1>f, <4>2, AppendAt, Appends
      <4> QED BY <1>f, <4>2, <4>3 DEF KnownBefore
    <3> QED BY <3>1, <3>2
  <2> QED BY <2>3, <2>4, <2>5
<1>3. MessagesOfSubscribers'
  BY <1>a, <1>b DEF DeliveryInv, MessagesOfSubscribers
<1> QED BY <1>1, <1>2, <1>3 DEF DeliveryInv

\* Registrations are read in order, before the messages.
LEMMA ReceiverDelivery ==
    ASSUME TypeOK, RoutingInv, ResolverInv, DeliveryInv, NoMessageLost, Receiver
    PROVE  DeliveryInv' /\ NoMessageLost'
<1>a. UNCHANGED <<pc, outcome>>
  BY DEF Receiver, PollStart, PollRegistration, PollRegistrationsDone, PollInbound,
         PollInboundDone
<1>b. \A c : CloseAsked(c)' <=> CloseAsked(c)
  BY <1>a DEF CloseAsked
<1>1. CASE ReceiverExits /\ inbound' = inbound
  BY <1>1, <1>a
     DEF ReceiverExits, DeliveryInv, RemovesAsked, SubscribersKnown, MessagesOfSubscribers,
         NoMessageLost, Receiving
<1>2. CASE UNCHANGED <<slot, registrations, maps, inbound>> /\ Receiving
  BY <1>2, <1>a, <1>b
     DEF maps, DeliveryInv, RemovesAsked, SubscribersKnown, MessagesOfSubscribers,
         NoMessageLost, KnownBefore, Pending, CloseAsked
<1>3. CASE PollRegistration
  <2> DEFINE g == Head(registrations)
             msgs == Get(received_messages, g.key)
  <2>a. /\ registrations # <<>> /\ registrations' = Tail(registrations)
        /\ UNCHANGED <<polling, lost, inbound>> /\ Receiving
    BY <1>3 DEF PollRegistration, Receiving
  <2>b. registrations \in Seq(Registers)
    BY DEF TypeOK, ChannelsOK
  <2>c. /\ 1 \in DOMAIN registrations /\ g = registrations[1]
        /\ \A i \in DOMAIN registrations' :
             /\ i \in Nat /\ i > 0
             /\ i + 1 \in DOMAIN registrations /\ registrations'[i] = registrations[i + 1]
        /\ \A i \in DOMAIN registrations :
             i # 1 => i - 1 \in DOMAIN registrations' /\ registrations'[i - 1] = registrations[i]
        /\ DOMAIN registrations = 1..Len(registrations) /\ Len(registrations) \in Nat
        /\ Len(registrations') = Len(registrations) - 1
    <3>1. \A i \in DOMAIN registrations' : i \in Nat /\ i > 0
      BY <2>a, <2>b
    <3> QED BY <2>a, <2>b, <3>1, TailAt, Takes
  <2>d. g \in Registers /\ Filed(g)
    BY <2>b, <2>c DEF RoutingInv, RegistrationsFiled
  <2>e. g.type \in {"request", "ping", "consumer", "remove"}
    BY <2>d DEF Registers
  <2> HIDE DEF g
  <2>f. /\ g.type = "consumer" => consumers' = consumers \cup {g.consumer}
        /\ g.type = "remove" => consumers' = consumers \ {g.consumer}
        /\ g.type \in {"request", "ping"} => consumers' = consumers
    BY <1>3, <2>e DEF PollRegistration, g
  <2>g. g.type = "remove" => CloseAsked(g.consumer)
    BY <2>c DEF DeliveryInv, RemovesAsked
  <2>h. ASSUME NEW c, ~CloseAsked(c), NEW i \in Nat, i > 0, KnownBefore(c, i + 1)
        PROVE  KnownBefore(c, i)'
    <3>1. c \in consumers => c \in consumers'
      BY <2>e, <2>f, <2>g, <2>h
    <3>2. ASSUME NEW j \in DOMAIN registrations, j < i + 1,
                 registrations[j].type = "consumer", registrations[j].consumer = c
          PROVE  KnownBefore(c, i)'
      <4>1. CASE j = 1
        BY <2>c, <2>f, <3>2, <4>1 DEF KnownBefore
      <4>2. CASE j # 1
        <5>1. /\ j - 1 \in DOMAIN registrations' /\ j - 1 < i
              /\ registrations'[j - 1] = registrations[j]
          BY <2>c, <3>2, <4>2
        <5> QED BY <3>2, <5>1 DEF KnownBefore
      <4> QED BY <4>1, <4>2
    <3> QED BY <2>h, <3>1, <3>2 DEF KnownBefore
  <2>i. \A c : KnownBefore(c, 1) => c \in consumers
    BY <2>c DEF KnownBefore
  <2>1. RemovesAsked'
    <3> SUFFICES ASSUME NEW i \in DOMAIN registrations', registrations'[i].type = "remove"
                 PROVE  \E q \in Req : Kind[q] = "close" /\ Target[q] = registrations'[i].consumer
                                     /\ pc'[q] # "idle"
      BY DEF RemovesAsked, CloseAsked
    <3>1. PICK c : c = registrations[i + 1].consumer /\ CloseAsked(c)
      BY <2>c DEF DeliveryInv, RemovesAsked
    <3> QED BY <1>a, <2>c, <3>1 DEF CloseAsked
  <2>2. SubscribersKnown'
    <3> SUFFICES ASSUME NEW s \in Req, Kind[s] = "subscribe", ~CloseAsked(Target[s])'
                 PROVE  /\ pc'[s] = "register" => KnownBefore(Target[s], Len(registrations) + 1)'
                        /\ \A i \in DOMAIN registrations' :
                             registrations'[i].req = s => KnownBefore(Target[s], i)'
                        /\ slot'[s] # None \/ Pending(s)' \/ outcome'[s] = "ok" =>
                             Target[s] \in consumers'
      BY DEF SubscribersKnown
    <3> DEFINE c == Target[s]
    <3>1. ~CloseAsked(c)
      BY <1>b
    <3>2. /\ pc[s] = "register" => KnownBefore(c, Len(registrations) + 1)
          /\ \A i \in DOMAIN registrations : registrations[i].req = s => KnownBefore(c, i)
          /\ slot[s] # None \/ Pending(s) \/ outcome[s] = "ok" => c \in consumers
      BY <2>a, <3>1 DEF DeliveryInv, SubscribersKnown
    <3>3. c \in consumers => c \in consumers'
      BY <2>e, <2>f, <2>g, <3>1
    <3>4. g.req = s => c \in consumers
      BY <2>c, <2>i, <3>2
    <3>5. slot'[s] # None => slot[s] # None \/ Pending(s) \/ g.req = s
      <4>1. CASE g.type = "request" /\ msgs # {}
        BY <1>3, <4>1 DEF g, PollRegistration, Resolve
      <4>2. CASE g.type = "request" /\ msgs = {}
        <5>1. slot'[s] # None => slot[s] # None \/ s \in Get(pending_requests, g.key)
          BY <1>3, <4>2 DEF g, PollRegistration, Resolve
        <5> QED BY <5>1 DEF Get, Pending
      <4>3. CASE g.type = "ping"
        <5>1. slot'[s] # None => slot[s] # None \/ s = ping
          BY <1>3, <4>3 DEF g, PollRegistration, Resolve
        <5> QED BY <5>1, ConnectionAssumption DEF RoutingInv, ResolversFiled
      <4>4. CASE g.type \in {"consumer", "remove"}
        BY <1>3, <4>4 DEF g, PollRegistration
      <4> QED BY <2>e, <4>1, <4>2, <4>3, <4>4
    <3>6. Pending(s)' => Pending(s) \/ g.req = s
      <4>1. CASE g.type = "request" /\ msgs = {}
        <5>1. pending_requests' = Put(pending_requests, g.key, g.req)
          BY <1>3, <4>1 DEF g, PollRegistration
        <5> QED BY <5>1 DEF Put, Pending
      <4>2. CASE ~(g.type = "request" /\ msgs = {})
        <5>1. pending_requests' = pending_requests
          BY <1>3, <2>e, <4>2 DEF g, PollRegistration
        <5> QED BY <5>1 DEF Pending
      <4> QED BY <4>1, <4>2
    <3>7. slot'[s] # None \/ Pending(s)' \/ outcome'[s] = "ok" => c \in consumers'
      BY <1>a, <3>2, <3>3, <3>4, <3>5, <3>6
    <3>8. ASSUME NEW i \in DOMAIN registrations', registrations'[i].req = s
          PROVE  KnownBefore(c, i)'
      BY <2>c, <2>h, <3>1, <3>2, <3>8
    <3>9. ASSUME pc'[s] = "register"
          PROVE  KnownBefore(c, Len(registrations) + 1)'
      <4>1. KnownBefore(c, Len(registrations) + 1)
        BY <1>a, <3>2, <3>9
      <4>2. Len(registrations) > 0
        BY <2>c
      <4>3. PICK n \in Nat : n = Len(registrations) /\ n > 0
        BY <2>c, <4>2
      <4>4. KnownBefore(c, n)'
        BY <2>h, <3>1, <4>1, <4>3
      <4>5. Len(registrations') + 1 = n
        BY <2>c, <4>3
      <4> QED BY <4>4, <4>5 DEF KnownBefore
    <3> QED BY <3>7, <3>8, <3>9
  <2>3. MessagesOfSubscribers' /\ NoMessageLost'
    BY <1>a, <2>a DEF DeliveryInv, MessagesOfSubscribers, NoMessageLost
  <2> QED BY <2>1, <2>2, <2>3 DEF DeliveryInv
<1>4. CASE PollInbound
  <2> DEFINE m == Head(inbound)
  <2>a. /\ inbound # <<>> /\ inbound' = Tail(inbound)
        /\ UNCHANGED <<polling, registrations>> /\ Receiving
    BY <1>4 DEF PollInbound, Receiving
  <2>b. consumers' = consumers
    BY <1>4 DEF PollInbound, RouteReply, RouteConsumer, RoutePing, RoutePong,
                RouteChallenge, maps
  <2>c. /\ 1 \in DOMAIN inbound /\ m = inbound[1]
        /\ \A i \in DOMAIN inbound' : \E j \in DOMAIN inbound : inbound'[i] = inbound[j]
    BY <2>a, TailAt DEF TypeOK, ChannelsOK
  <2> HIDE DEF m
  <2>1. RemovesAsked' /\ MessagesOfSubscribers'
    BY <1>a, <2>a, <2>c DEF DeliveryInv, RemovesAsked, MessagesOfSubscribers, CloseAsked
  <2>2. \A s \in Req : Kind[s] = "subscribe" =>
          /\ slot'[s] # None => slot[s] # None \/ Pending(s)
          /\ Pending(s)' => Pending(s)
    <3>1. CASE RouteReply(m)
      BY <3>1 DEF RouteReply, Resolve, Get, Pending, Del
    <3>2. CASE RouteConsumer(m) \/ RoutePing(m) \/ RouteChallenge(m)
      BY <3>2 DEF RouteConsumer, RoutePing, RouteChallenge, maps, Pending
    <3>3. CASE RoutePong(m)
      <4>1. \A s \in Req : s = ping => Kind[s] = "ping"
        BY ConnectionAssumption DEF RoutingInv, ResolversFiled
      <4> QED BY <3>3, <4>1 DEF RoutePong, Resolve, Pending
    <3> QED BY <1>4, <3>1, <3>2, <3>3 DEF PollInbound, m
  <2>3. SubscribersKnown'
    BY <1>a, <1>b, <2>a, <2>b, <2>2
       DEF DeliveryInv, SubscribersKnown, Receiving, KnownBefore, CloseAsked
  <2>4. NoMessageLost'
    <3>1. CASE RouteConsumer(m)
      <4>1. m.type = "message" /\ m.consumer \notin consumers => CloseAsked(m.consumer)
        <5> SUFFICES ASSUME m.type = "message", m.consumer \notin consumers
                     PROVE  CloseAsked(m.consumer)
          OBVIOUS
        <5>1. PICK s \in Req : /\ Kind[s] = "subscribe" /\ Target[s] = m.consumer
                               /\ outcome[s] = "ok"
          BY <2>c DEF DeliveryInv, MessagesOfSubscribers
        <5> QED BY <2>a, <5>1 DEF DeliveryInv, SubscribersKnown
      <4>2. lost' = IF m.consumer \in consumers THEN lost
                                                ELSE lost \cup {<<m.type, m.consumer>>}
        BY <3>1 DEF RouteConsumer
      <4> QED BY <1>a, <4>1, <4>2 DEF NoMessageLost, CloseAsked
    <3>2. CASE ~RouteConsumer(m)
      <4>1. lost' = lost
        BY <1>4, <3>2 DEF PollInbound, RouteReply, RoutePing, RoutePong, RouteChallenge, maps, m
      <4> QED BY <1>a, <4>1 DEF NoMessageLost
    <3> QED BY <3>1, <3>2
  <2> QED BY <2>1, <2>3, <2>4 DEF DeliveryInv
<1> QED
  BY <1>1, <1>2, <1>3, <1>4
     DEF Receiver, PollStart, PollRegistrationsDone, PollInboundDone, Receiving

\* The broker sends messages to those that subscribed.
LEMMA OtherDelivery ==
    ASSUME TypeOK, DeliveryInv, NoMessageLost,
           \/ \E c \in Consumers : TakeError(c)
           \/ DropConnection \/ SinkWrite \/ SinkCloses \/ AnswerChallenge \/ Broker
    PROVE  DeliveryInv' /\ NoMessageLost'
<1>1. UNCHANGED <<pc, outcome, slot, registrations, pending_requests, consumers, lost, polling>>
  BY DEF TakeError, DropConnection, SinkWrite, SinkCloses, AnswerChallenge, Broker,
         BrokerReply, BrokerSends, SocketCloses, caller, maps
<1>2. RemovesAsked' /\ SubscribersKnown' /\ NoMessageLost'
  BY <1>1 DEF DeliveryInv, RemovesAsked, SubscribersKnown, NoMessageLost, CloseAsked,
              KnownBefore, Pending, Receiving
<1>3. CASE inbound' = inbound
  BY <1>1, <1>2, <1>3 DEF DeliveryInv, MessagesOfSubscribers
<1>4. ASSUME NEW m, inbound' = Append(inbound, m),
             m.type = "message" =>
               \E s \in Req : /\ Kind[s] = "subscribe" /\ Target[s] = m.consumer
                              /\ outcome[s] = "ok"
      PROVE  MessagesOfSubscribers'
  <2>1. \A i \in DOMAIN inbound' :
          inbound'[i] = m \/ (i \in DOMAIN inbound /\ inbound'[i] = inbound[i])
    BY <1>4, AppendElements DEF TypeOK, ChannelsOK
  <2> QED BY <1>1, <1>4, <2>1 DEF DeliveryInv, MessagesOfSubscribers
<1>5. CASE \E r \in Req : BrokerReply(r)
  <2>1. PICK r \in Req, t \in Replies \cup {"pong"} : inbound' = Append(inbound, Reply(r, t))
    BY <1>5 DEF BrokerReply, Send, Replies
  <2>2. Reply(r, t).type # "message"
    BY DEF Reply, Msg, Replies
  <2> QED BY <1>2, <1>4, <2>1, <2>2 DEF DeliveryInv
<1>6. CASE BrokerSends
  <2>1. ASSUME NEW c \in subscribed, HoldsConnection(c), Send(Msg("message", None, None, c))
        PROVE  MessagesOfSubscribers'
    <3>1. PICK m : m = Msg("message", None, None, c)
      OBVIOUS
    <3>2. m.consumer = c
      BY <3>1 DEF Msg
    <3> QED BY <1>4, <2>1, <3>1, <3>2 DEF HoldsConnection, Send
  <2>2. ASSUME NEW t \in {"close_consumer", "ping", "auth_challenge", "close_producer"}, NEW c,
               Send(Msg(t, None, None, c))
        PROVE  MessagesOfSubscribers'
    <3>1. PICK m : m = Msg(t, None, None, c)
      OBVIOUS
    <3>2. m.type # "message"
      BY <3>1 DEF Msg
    <3> QED BY <1>4, <2>2, <3>1, <3>2 DEF Send
  <2> QED BY <1>2, <1>6, <2>1, <2>2 DEF BrokerSends, DeliveryInv
<1> QED
  BY <1>2, <1>3, <1>5, <1>6
     DEF TakeError, DropConnection, SinkWrite, SinkCloses, AnswerChallenge, Broker,
         SocketCloses, DeliveryInv

-----------------------------------------------------------------------------
\* ResolverInv and RoutingInv are inductive.
LEMMA NextResolvers ==
    ASSUME TypeOK, TypeOK', RoutingInv, ResolverInv, [Next]_vars
    PROVE  ResolverInv'
<1>1. CASE UNCHANGED vars
  BY <1>1 DEF vars, caller, maps, ResolverInv, KindsFiled, OneResolver, ParkedType,
              OutcomeOfDone, Queued, Stored, Pending
<1>2. CASE Next
  <2>1. CASE \/ \E c \in Consumers : TakeError(c)
             \/ DropConnection \/ SinkWrite \/ SinkCloses \/ AnswerChallenge \/ Broker
    BY <2>1, OtherResolvers
       DEF TakeError, DropConnection, SinkWrite, SinkCloses, AnswerChallenge, Broker,
           BrokerReply, BrokerSends, SocketCloses, caller, maps
  <2> QED BY <1>2, <2>1, CallerResolvers, ReceiverResolvers DEF Next
<1> QED BY <1>1, <1>2

LEMMA NextRouting ==
    ASSUME TypeOK, TypeOK', RoutingInv, RepliesMatch, [Next]_vars
    PROVE  RoutingInv' /\ RepliesMatch'
<1>1. CASE UNCHANGED vars
  BY <1>1, SameKeys, KeptFiled, KeptRegistrations
     DEF vars, caller, maps, RoutingInv, RepliesMatch
<1>2. CASE Next
  BY <1>2, CallerRouting, ReceiverRouting, OtherRouting DEF Next
<1> QED BY <1>1, <1>2

\* A message is discarded only when the close of its consumer was asked
\* for (Receiver::poll, Register::RemoveConsumer).
THEOREM MessagesReachTheirConsumer == Spec => []NoMessageLost
<1> DEFINE Inv == /\ TypeOK /\ RoutingInv /\ RepliesMatch /\ ResolverInv
                  /\ DeliveryInv /\ NoMessageLost
<1>1. Init => Inv
  BY InitTypeOK, InitRouting, InitResolvers, InitDelivery
<1>2. Inv /\ [Next]_vars => Inv'
  <2> SUFFICES ASSUME Inv, [Next]_vars PROVE Inv'
    OBVIOUS
  <2>1. TypeOK' /\ RoutingInv' /\ RepliesMatch' /\ ResolverInv'
    BY NextTypeOK, NextRouting, NextResolvers
  <2>2. CASE UNCHANGED vars
    BY <2>1, <2>2 DEF vars, caller, maps, DeliveryInv, NoMessageLost, RemovesAsked,
       SubscribersKnown, MessagesOfSubscribers, CloseAsked, KnownBefore, Pending, Receiving
  <2>3. ASSUME NEW r \in Req, Caller(r)
        PROVE  DeliveryInv' /\ NoMessageLost'
    <3>1. lost' = lost
      BY <2>3 DEF Caller, Enqueue, RegisterConsumer, RegisterRequest, RegisterPing,
                  EnqueueControl, EnqueueData, Return, ReturnCanceled, Timeout,
                  RegisterExclusive, maps
    <3> QED BY <2>3, <3>1, CallerDelivery, CallsBegin DEF NoMessageLost
  <2>4. CASE Next
    BY <2>1, <2>3, <2>4, ReceiverDelivery, OtherDelivery DEF Next
  <2> QED BY <2>1, <2>2, <2>4
<1> QED BY <1>1, <1>2, PTL DEF Spec

\* A connection is flagged when it is down, and as Disconnected only when it is
\* down or a ping overtook another (SharedError, Connection::is_valid).
THEOREM FlagAlwaysTrue == Spec => []FlagTellsTruth
<1> DEFINE Inv == /\ TypeOK /\ RoutingInv /\ RepliesMatch /\ ResolverInv
                  /\ FlagInv
<1>1. Init => Inv
  <2>1. Init => OnlyOvertaken /\ FlagTellsTruth
    BY MessageAssumption, CanceledType
       DEF Init, OnlyOvertaken, FlagTellsTruth, DisconnectedMeansDown, DownIsFlagged
  <2> QED BY <2>1, InitTypeOK, InitRouting, InitResolvers DEF FlagInv
<1>2. Inv /\ [Next]_vars => Inv'
  <2> SUFFICES ASSUME Inv, [Next]_vars PROVE Inv'
    OBVIOUS
  <2>1. TypeOK' /\ RoutingInv' /\ RepliesMatch' /\ ResolverInv'
    BY NextTypeOK, NextRouting, NextResolvers
  <2>2. CASE UNCHANGED vars
    BY <2>1, <2>2
       DEF vars, caller, maps, tasks, FlagInv, OnlyOvertaken, FlagTellsTruth,
           DisconnectedMeansDown, DownIsFlagged, HoldsConnection, Receiving, Overtaken
  <2>3. CASE Next
    BY <2>1, <2>3, OvertakenStep, DisconnectedStep, DownFlaggedStep DEF FlagInv, FlagTellsTruth
  <2> QED BY <2>1, <2>2, <2>3
<1>3. Inv => FlagTellsTruth
  BY DEF FlagInv
<1> QED BY <1>1, <1>2, <1>3, PTL DEF Spec

-----------------------------------------------------------------------------
(* NoReplyLost: every request is written once, and every answer to it is in *)
(* the stream, parked, or in the caller's oneshot.                           *)

ReplyInv ==
    WrittenOnce /\ AnswersFiled /\ HeardFirst /\ ParkedAlone /\ NotReadyFirst /\ Somewhere

Early(r) == pc[r] \in {"idle", "register", "enqueue"}

\* A step that writes nothing.
LEMMA NothingWritten ==
    ASSUME WrittenOnce, UNCHANGED <<control, data, broker>>,
           \A q \in Req : Early(q)' => Early(q)
    PROVE  WrittenOnce'
BY DEF WrittenOnce, InChannels, Early

\* A request joins the control channel.
LEMMA ControlWritten ==
    ASSUME TypeOK, WrittenOnce, NEW x \in Req \cup {"pong", "auth_response"},
           control' = Append(control, x), UNCHANGED <<data, broker>>,
           x \in Req => Early(x) /\ pc'[x] \notin {"idle", "register", "enqueue"} /\ Kind[x] # "send",
           \A q \in Req : Early(q)' => Early(q)
    PROVE  WrittenOnce'
<1> DEFINE S == Req \cup {"pong", "auth_response"}
<1>a. control \in Seq(S)
  BY DEF TypeOK, ChannelsOK
<1>b. /\ \A i \in DOMAIN control : control'[i] = control[i] /\ i # Len(control) + 1
      /\ \A i \in DOMAIN control' : i \in DOMAIN control \/ i = Len(control) + 1
      /\ control'[Len(control) + 1] = x
  BY <1>a, AppendAt
<1>c. x \in Req => ~InChannels(x) /\ broker[x] = "unasked"
  BY DEF WrittenOnce, Early
<1>1. \A i, j \in DOMAIN control' : control'[i] \in Req /\ control'[i] = control'[j] => i = j
  BY <1>b, <1>c DEF WrittenOnce, InChannels
<1>2. \A i \in DOMAIN control' : control'[i] \in Req => Kind[control'[i]] # "send"
  BY <1>b DEF WrittenOnce
<1>3. ASSUME NEW q \in Req
      PROVE  /\ InChannels(q)' => broker[q] = "unasked" /\ pc'[q] \notin {"idle", "register", "enqueue"}
             /\ pc'[q] \in {"idle", "register", "enqueue"} => broker[q] = "unasked"
  <2>1. InChannels(q)' => InChannels(q) \/ q = x
    BY <1>b DEF InChannels
  <2> QED BY <1>c, <2>1 DEF WrittenOnce, Early
<1> QED BY <1>1, <1>2, <1>3 DEF WrittenOnce

\* A send joins the data channel.
LEMMA DataWritten ==
    ASSUME TypeOK, WrittenOnce, NEW x \in Req,
           data' = Append(data, x), UNCHANGED <<control, broker>>,
           Early(x), pc'[x] \notin {"idle", "register", "enqueue"}, Kind[x] = "send",
           \A q \in Req : Early(q)' => Early(q)
    PROVE  WrittenOnce'
<1>a. data \in Seq(Req)
  BY DEF TypeOK, ChannelsOK
<1>b. /\ \A i \in DOMAIN data : data'[i] = data[i] /\ i # Len(data) + 1
      /\ \A i \in DOMAIN data' : i \in DOMAIN data \/ i = Len(data) + 1
      /\ data'[Len(data) + 1] = x
  BY <1>a, AppendAt
<1>c. ~InChannels(x) /\ broker[x] = "unasked"
  BY DEF WrittenOnce, Early
<1>1. \A i, j \in DOMAIN data' : data'[i] = data'[j] => i = j
  BY <1>b, <1>c DEF WrittenOnce, InChannels
<1>2. \A i \in DOMAIN data' : Kind[data'[i]] = "send"
  BY <1>b DEF WrittenOnce
<1>3. ASSUME NEW q \in Req
      PROVE  /\ InChannels(q)' => broker[q] = "unasked" /\ pc'[q] \notin {"idle", "register", "enqueue"}
             /\ pc'[q] \in {"idle", "register", "enqueue"} => broker[q] = "unasked"
  <2>1. InChannels(q)' => InChannels(q) \/ q = x
    BY <1>b DEF InChannels
  <2> QED BY <1>c, <2>1 DEF WrittenOnce, Early
<1> QED BY <1>1, <1>2, <1>3 DEF WrittenOnce

\* Each caller writes its request once.
LEMMA CallerWritesOnce ==
    ASSUME TypeOK, WrittenOnce, NEW r \in Req, Caller(r)
    PROVE  WrittenOnce'
<1> USE DEF caller, maps, tasks, env
<1>a. \A q \in Req : Early(q)' => Early(q)
  BY DEF Caller, Enqueue, RegisterConsumer, RegisterRequest, RegisterPing, EnqueueControl,
         EnqueueData, Return, ReturnCanceled, Timeout, RegisterExclusive, Finish, MayCall,
         TypeOK, CallersOK, Early
<1>1. CASE UNCHANGED <<control, data>>
  <2>1. broker' = broker
    BY DEF Caller, Enqueue, RegisterConsumer, RegisterRequest, RegisterPing, EnqueueControl,
           EnqueueData, Return, ReturnCanceled, Timeout, RegisterExclusive
  <2> QED BY <1>a, <1>1, <2>1, NothingWritten
<1>2. CASE control' = Append(control, r) /\ (RegisterPing(r) \/ EnqueueControl(r))
  <2>1. /\ UNCHANGED <<data, broker>> /\ Kind[r] # "send" /\ Early(r)
        /\ pc'[r] \notin {"idle", "register", "enqueue"}
    <3>1. control' # control
      BY <1>2 DEF TypeOK, ChannelsOK
    <3> QED BY <1>2, <3>1 DEF RegisterPing, EnqueueControl, MayCall, Finish, TypeOK, CallersOK, Early
  <2> QED BY <1>a, <1>2, <2>1, ControlWritten
<1>3. CASE data' = Append(data, r) /\ EnqueueData(r)
  <2>1. /\ UNCHANGED <<control, broker>> /\ Kind[r] = "send" /\ Early(r)
        /\ pc'[r] \notin {"idle", "register", "enqueue"}
    <3>1. data' # data
      BY <1>3 DEF TypeOK, ChannelsOK
    <3> QED BY <1>3, <3>1 DEF EnqueueData, Finish, TypeOK, CallersOK, Early
  <2> QED BY <1>a, <1>3, <2>1, DataWritten
<1> QED
  BY <1>1, <1>2, <1>3
     DEF Caller, Enqueue, RegisterConsumer, RegisterRequest, RegisterPing, EnqueueControl,
         EnqueueData, Return, ReturnCanceled, Timeout, RegisterExclusive

\* The sink task hands a request to the broker once.
LEMMA SinkWritesOnce ==
    ASSUME TypeOK, WrittenOnce, SinkWrite
    PROVE  /\ WrittenOnce'
           /\ \A r \in Req : broker'[r] # broker[r] => broker[r] = "unasked" /\ broker'[r] = "asked"
<1>a. pc' = pc
  BY DEF SinkWrite, caller
<1>1. CASE socket = "closed"
  BY <1>1, <1>a DEF SinkWrite, SinkExits, WrittenOnce, InChannels
<1>2. CASE socket # "closed" /\ control # <<>>
  <2>a. /\ control' = Tail(control) /\ data' = data
        /\ broker' = IF Head(control) \in Req THEN [broker EXCEPT ![Head(control)] = "asked"]
                                              ELSE broker
    BY <1>2 DEF SinkWrite
  <2>b. /\ 1 \in DOMAIN control /\ Head(control) = control[1]
        /\ \A i \in DOMAIN control' :
             /\ i \in Nat /\ i > 0 /\ i + 1 \in DOMAIN control /\ control'[i] = control[i + 1]
    <3>1. \A i \in DOMAIN control' : i \in Nat /\ i > 0
      BY <1>2, <2>a DEF TypeOK, ChannelsOK
    <3> QED BY <1>2, <2>a, <3>1, TailAt DEF TypeOK, ChannelsOK
  <2> DEFINE h == Head(control)
  <2>c. h \in Req => InChannels(h)
    BY <2>b DEF InChannels
  <2> HIDE DEF h
  <2>d. \A q \in Req : broker'[q] = IF q = h THEN "asked" ELSE broker[q]
    BY <2>a DEF h, TypeOK, BrokerOK
  <2>1. \A i, j \in DOMAIN control' : control'[i] \in Req /\ control'[i] = control'[j] => i = j
    BY <2>b DEF WrittenOnce
  <2>2. \A i \in DOMAIN control' : control'[i] \in Req => Kind[control'[i]] # "send"
    BY <2>b DEF WrittenOnce
  <2>3. \A i \in DOMAIN control' : control'[i] \in Req => control'[i] # h
    BY <2>b DEF WrittenOnce, h
  <2>4. \A i \in DOMAIN data : h \in Req => data[i] # h
    BY <2>b DEF WrittenOnce, h
  <2>5. ASSUME NEW q \in Req
        PROVE  /\ InChannels(q)' => broker'[q] = "unasked" /\ pc[q] \notin {"idle", "register", "enqueue"}
               /\ pc[q] \in {"idle", "register", "enqueue"} => broker'[q] = "unasked"
               /\ broker'[q] # broker[q] => broker[q] = "unasked" /\ broker'[q] = "asked"
    <3>1. InChannels(q)' => InChannels(q) /\ q # h
      BY <2>a, <2>b, <2>3, <2>4 DEF InChannels
    <3> QED BY <2>c, <2>d, <3>1 DEF WrittenOnce
  <2> QED BY <1>a, <2>a, <2>1, <2>2, <2>5 DEF WrittenOnce
<1>3. CASE socket # "closed" /\ control = <<>>
  <2>a. /\ data # <<>> /\ data' = Tail(data) /\ control' = control
        /\ broker' = IF Head(data) \in Req THEN [broker EXCEPT ![Head(data)] = "asked"]
                                           ELSE broker
    BY <1>3 DEF SinkWrite
  <2>b. /\ 1 \in DOMAIN data /\ Head(data) = data[1]
        /\ \A i \in DOMAIN data' :
             /\ i \in Nat /\ i > 0 /\ i + 1 \in DOMAIN data /\ data'[i] = data[i + 1]
    <3>1. \A i \in DOMAIN data' : i \in Nat /\ i > 0
      BY <2>a DEF TypeOK, ChannelsOK
    <3> QED BY <2>a, <3>1, TailAt DEF TypeOK, ChannelsOK
  <2> DEFINE h == Head(data)
  <2>c. h \in Req => InChannels(h)
    BY <2>b DEF InChannels
  <2> HIDE DEF h
  <2>d. \A q \in Req : broker'[q] = IF q = h THEN "asked" ELSE broker[q]
    BY <2>a DEF h, TypeOK, BrokerOK
  <2>1. \A i, j \in DOMAIN data' : data'[i] = data'[j] => i = j
    BY <2>b DEF WrittenOnce
  <2>2. \A i \in DOMAIN data' : Kind[data'[i]] = "send"
    BY <2>b DEF WrittenOnce
  <2>3. \A i \in DOMAIN data' : data'[i] # h
    BY <2>b DEF WrittenOnce, h
  <2>5. ASSUME NEW q \in Req
        PROVE  /\ InChannels(q)' => broker'[q] = "unasked" /\ pc[q] \notin {"idle", "register", "enqueue"}
               /\ pc[q] \in {"idle", "register", "enqueue"} => broker'[q] = "unasked"
               /\ broker'[q] # broker[q] => broker[q] = "unasked" /\ broker'[q] = "asked"
    <3>1. InChannels(q)' => InChannels(q) /\ q # h
      BY <1>3, <2>a, <2>b, <2>3 DEF InChannels
    <3> QED BY <2>c, <2>d, <3>1 DEF WrittenOnce
  <2> QED BY <1>a, <1>3, <2>a, <2>1, <2>2, <2>5 DEF WrittenOnce
<1> QED BY <1>1, <1>2, <1>3

\* Answers stay filed when calls are added.
LEMMA KeptAnswers ==
    ASSUME AnswersFiled, UNCHANGED <<inbound, received_messages>>,
           \A q \in Numbered : Heard(q) => Heard(q)' /\ key'[q] = key[q]
    PROVE  AnswersFiled'
<1>1. ASSUME NEW i \in DOMAIN inbound
      PROVE  AnswersOf(inbound[i], inbound[i].key)'
  BY <1>1 DEF AnswersFiled, AnswersOf, Numbered
<1>2. ASSUME NEW e \in received_messages
      PROVE  AnswersOf(e[2], e[1])'
  BY <1>2 DEF AnswersFiled, AnswersOf, Numbered
<1> QED BY <1>1, <1>2 DEF AnswersFiled

\* What a step of a caller does to its place, its oneshot and its resolvers.
LEMMA CallerMoves ==
    ASSUME TypeOK, RoutingInv, NEW r \in Req, Caller(r)
    PROVE  /\ UNCHANGED <<polling, pending_requests, received_messages, inbound, broker>>
           /\ \A q \in Req : q # r => pc'[q] = pc[q] /\ slot'[q] = slot[q]
           /\ \A q \in Req : Queued(q) => Queued(q)'
           /\ \A q \in Numbered : pc[q] # "idle" => key'[q] = key[q]
           /\ \/ pc'[r] \in {"register", "done"} /\ slot'[r] = slot[r]
              \/ pc'[r] = "enqueue" /\ Early(r) /\ slot'[r] = slot[r] /\ Queued(r)'
              \/ pc[r] = "enqueue" /\ pc'[r] = "wait" /\ slot'[r] = slot[r]
              \/ /\ pc[r] = "wait" /\ pc'[r] = "excl" /\ slot'[r] = None
                 /\ slot[r] \notin {None, Canceled} /\ slot[r].type = "not_ready"
              \/ pc[r] = "excl" /\ pc'[r] = "excl_wait" /\ slot'[r] = slot[r] /\ Queued(r)'
<1> USE DEF caller, maps, tasks, env
<1>1. UNCHANGED <<polling, pending_requests, received_messages, inbound, broker>>
  BY DEF Caller, Enqueue, RegisterConsumer, RegisterRequest, RegisterPing, EnqueueControl,
         EnqueueData, Return, ReturnCanceled, Timeout, RegisterExclusive
<1>2. \A q \in Req : q # r => pc'[q] = pc[q] /\ slot'[q] = slot[q]
  BY DEF Caller, Enqueue, RegisterConsumer, RegisterRequest, RegisterPing, EnqueueControl,
         EnqueueData, Return, ReturnCanceled, Timeout, RegisterExclusive, Finish,
         TypeOK, CallersOK
<1>3. \/ UNCHANGED registrations
      \/ \E t \in {"consumer", "remove"} :
            registrations' = Append(registrations, Register(t, None, None, Target[r]))
      \/ \E t \in {"request", "ping"}, k \in Keys \cup {None} :
            registrations' = Append(registrations, Register(t, k, r, None))
  <2>1. ASSUME RegisterRequest(r) PROVE key'[r] \in Keys \cup {None}
    BY <2>1, TakeKeyType DEF RegisterRequest, TypeOK, CallersOK
  <2>2. key[r] \in Keys \cup {None}
    BY DEF TypeOK, CallersOK
  <2> QED
    BY <2>1, <2>2
       DEF Caller, Enqueue, RegisterConsumer, RegisterRequest, RegisterPing, EnqueueControl,
           EnqueueData, Return, ReturnCanceled, Timeout, RegisterExclusive
<1>4. registrations \in Seq(Registers)
  BY DEF TypeOK, ChannelsOK
<1>5. \A q \in Req : Queued(q) => Queued(q)'
  <2>1. ASSUME NEW t \in {"consumer", "remove"},
               registrations' = Append(registrations, Register(t, None, None, Target[r]))
        PROVE  <1>5
    <3>1. Register(t, None, None, Target[r]) \in Registers
      BY RegisterConsumerType, ConnectionAssumption
    <3> QED BY <1>4, <2>1, <3>1, AppendAt DEF Queued
  <2>2. ASSUME NEW t \in {"request", "ping"}, NEW k \in Keys \cup {None},
               registrations' = Append(registrations, Register(t, k, r, None))
        PROVE  <1>5
    <3>1. Register(t, k, r, None) \in Registers
      BY RegisterType
    <3> QED BY <1>4, <2>2, <3>1, AppendAt DEF Queued
  <2> QED BY <1>3, <2>1, <2>2 DEF Queued
<1>6. \A q \in Numbered : pc[q] # "idle" => key'[q] = key[q]
  <2>1. \A q \in Req : pc[q] # "idle" => q # r \/ UNCHANGED key
    BY DEF Caller, Enqueue, RegisterConsumer, RegisterRequest, RegisterPing, EnqueueControl,
           EnqueueData, Return, ReturnCanceled, Timeout, RegisterExclusive, MayCall
  <2>2. TakeKey(r) \/ UNCHANGED key
    BY DEF Caller, Enqueue, RegisterConsumer, RegisterRequest, RegisterPing, EnqueueControl,
           EnqueueData, Return, ReturnCanceled, Timeout, RegisterExclusive
  <2>3. ASSUME TakeKey(r) PROVE \A q \in Req : q # r => key'[q] = key[q]
    BY <2>3 DEF TakeKey, TypeOK, CallersOK
  <2> QED BY <2>1, <2>2, <2>3 DEF Numbered
<1>7. ASSUME NEW k, \E t : registrations' = Append(registrations, Register(t, k, r, None))
                           /\ Register(t, k, r, None) \in Registers
      PROVE  Queued(r)'
  <2>1. PICK t : /\ registrations' = Append(registrations, Register(t, k, r, None))
                 /\ Register(t, k, r, None) \in Registers
    BY <1>7
  <2>2. Len(registrations) + 1 \in DOMAIN registrations'
    BY <1>4, <2>1, AppendAt
  <2>3. registrations'[Len(registrations) + 1] = Register(t, k, r, None)
    BY <1>4, <2>1, AppendAt
  <2>4. Register(t, k, r, None).req = r
    BY DEF Register
  <2> QED BY <2>2, <2>3, <2>4 DEF Queued
<1>8. CASE RegisterRequest(r) \/ RegisterPing(r) \/ RegisterExclusive(r)
  <2>1. CASE RegisterRequest(r) /\ Receiving
    <3>1. key'[r] \in Keys \cup {None}
      BY <2>1, TakeKeyType DEF RegisterRequest, TypeOK, CallersOK
    <3>2. PICK k \in Keys \cup {None} : k = key'[r]
      BY <3>1
    <3>3. Queued(r)'
      BY <1>7, <2>1, <3>2, RegisterType DEF RegisterRequest
    <3> QED BY <1>1, <1>2, <1>5, <1>6, <2>1, <3>3
            DEF RegisterRequest, MayCall, Early, TypeOK, CallersOK
  <2>2. CASE RegisterPing(r) /\ Receiving
    <3>1. Queued(r)'
      BY <1>7, <2>2, RegisterType DEF RegisterPing
    <3> QED BY <1>1, <1>2, <1>5, <1>6, <2>2, <3>1
            DEF RegisterPing, MayCall, Early, TypeOK, CallersOK
  <2>3. CASE RegisterExclusive(r) /\ Receiving
    <3>1. PICK k \in Keys \cup {None} : k = key[r]
      BY DEF TypeOK, CallersOK
    <3>2. Queued(r)'
      BY <1>7, <2>3, <3>1, RegisterType DEF RegisterExclusive
    <3> QED BY <1>1, <1>2, <1>5, <1>6, <2>3, <3>2 DEF RegisterExclusive, TypeOK, CallersOK
  <2>4. CASE ~Receiving
    BY <1>1, <1>2, <1>5, <1>6, <1>8, <2>4
       DEF RegisterRequest, RegisterPing, RegisterExclusive, Finish, TypeOK, CallersOK
  <2> QED BY <1>8, <2>1, <2>2, <2>3, <2>4
<1>9. CASE RegisterConsumer(r) \/ Enqueue(r) \/ Return(r) \/ ReturnCanceled(r) \/ Timeout(r)
  BY <1>1, <1>2, <1>5, <1>6, <1>9
     DEF RegisterConsumer, Enqueue, EnqueueControl, EnqueueData, Return, ReturnCanceled,
         Timeout, Finish, TypeOK, CallersOK
<1> QED BY <1>8, <1>9 DEF Caller

\* A caller's step keeps its answers.
LEMMA CallerReplies ==
    ASSUME TypeOK, RoutingInv, ReplyInv, NEW r \in Req, Caller(r)
    PROVE  ReplyInv'
<1>a. /\ UNCHANGED <<polling, pending_requests, received_messages, inbound, broker>>
      /\ \A q \in Req : q # r => pc'[q] = pc[q] /\ slot'[q] = slot[q]
      /\ \A q \in Req : Queued(q) => Queued(q)'
      /\ \A q \in Numbered : pc[q] # "idle" => key'[q] = key[q]
  BY CallerMoves
<1>b. \/ pc'[r] \in {"register", "done"} /\ slot'[r] = slot[r]
      \/ pc'[r] = "enqueue" /\ Early(r) /\ slot'[r] = slot[r] /\ Queued(r)'
      \/ pc[r] = "enqueue" /\ pc'[r] = "wait" /\ slot'[r] = slot[r]
      \/ /\ pc[r] = "wait" /\ pc'[r] = "excl" /\ slot'[r] = None
         /\ slot[r] \notin {None, Canceled} /\ slot[r].type = "not_ready"
      \/ pc[r] = "excl" /\ pc'[r] = "excl_wait" /\ slot'[r] = slot[r] /\ Queued(r)'
  BY CallerMoves
<1>1. WrittenOnce'
  BY CallerWritesOnce DEF ReplyInv
<1>2. AnswersFiled'
  <2>1. \A q \in Numbered : Heard(q) => pc[q] # "idle" /\ key'[q] = key[q]
    <3>1. \A q \in Numbered : Heard(q) => pc[q] # "idle"
      BY DEF ReplyInv, WrittenOnce, Heard, Numbered
    <3> QED BY <1>a, <3>1
  <2> QED BY <1>a, <2>1, KeptAnswers DEF ReplyInv, Heard
<1>3. HeardFirst'
  BY <1>a, <1>b DEF ReplyInv, HeardFirst, Heard, Waiting, Numbered
<1>4. ParkedAlone'
  BY <1>a DEF ReplyInv, ParkedAlone
<1>5. NotReadyFirst'
  <2>1. \A q \in Numbered : /\ slot[q] \in {None, Canceled} => slot'[q] \in {None, Canceled}
                            /\ slot'[q] # None /\ slot'[q].type = "not_ready" =>
                                  slot[q] # None /\ slot[q].type = "not_ready"
    BY <1>a, <1>b DEF Numbered
  <2>2. \A q \in Numbered :
          Waiting(q)' => Waiting(q) \/ (slot[q] \notin {None, Canceled} /\ slot'[q] = None)
    BY <1>a, <1>b DEF Numbered, Waiting
  <2> QED BY <1>a, <2>1, <2>2 DEF ReplyInv, NotReadyFirst, Waiting, IsNotReady
<1>6. Somewhere'
  <2>1. ASSUME NEW q \in Numbered, Receiving', pc'[q] \in {"enqueue", "wait", "excl_wait"}
        PROVE  slot'[q] # None \/ Queued(q)' \/ Pending(q)'
    <3>1. \/ Queued(q)'
          \/ pc[q] \in {"enqueue", "wait", "excl_wait"} /\ slot'[q] = slot[q]
      BY <1>a, <1>b, <2>1 DEF Numbered
    <3>2. Receiving
      BY <1>a, <2>1 DEF Receiving
    <3> QED BY <1>a, <3>1, <3>2 DEF ReplyInv, Somewhere, Pending, Numbered
  <2> QED BY <2>1 DEF Somewhere
<1> QED BY <1>1, <1>2, <1>3, <1>4, <1>5, <1>6 DEF ReplyInv

\* The final answer to r, wherever it is, is still there after the step.
LEMMA CallerLosesNothing ==
    ASSUME TypeOK, RoutingInv, ReplyInv, NoReplyLost, NEW r \in Req, Caller(r)
    PROVE  NoReplyLost'
<1>a. /\ UNCHANGED <<polling, pending_requests, received_messages, inbound, broker>>
      /\ \A q \in Req : q # r => pc'[q] = pc[q] /\ slot'[q] = slot[q]
      /\ \A q \in Req : Queued(q) => Queued(q)'
      /\ \A q \in Numbered : pc[q] # "idle" => key'[q] = key[q]
  BY CallerMoves
<1>b. \/ pc'[r] \in {"register", "done"} /\ slot'[r] = slot[r]
      \/ pc'[r] = "enqueue" /\ Early(r) /\ slot'[r] = slot[r] /\ Queued(r)'
      \/ pc[r] = "enqueue" /\ pc'[r] = "wait" /\ slot'[r] = slot[r]
      \/ /\ pc[r] = "wait" /\ pc'[r] = "excl" /\ slot'[r] = None
         /\ slot[r] \notin {None, Canceled} /\ slot[r].type = "not_ready"
      \/ pc[r] = "excl" /\ pc'[r] = "excl_wait" /\ slot'[r] = slot[r] /\ Queued(r)'
  BY CallerMoves
<1> SUFFICES ASSUME NEW q \in Req, Kind[q] # "ping", broker'[q] = "answered", Receiving',
                    pc'[q] \in {"wait", "excl", "excl_wait"}
             PROVE  OnItsWay(q)'
  BY DEF NoReplyLost
<1>1. pc[q] \notin {"idle", "register", "enqueue"} /\ Receiving
  BY <1>a DEF ReplyInv, WrittenOnce, Receiving
<1>2. pc[q] \in {"wait", "excl", "excl_wait"}
  BY <1>a, <1>b, <1>1 DEF Early
<1>3. OnItsWay(q)
  BY <1>a, <1>1, <1>2 DEF NoReplyLost
<1>4. key'[q] = key[q]
  BY <1>a, <1>1 DEF Numbered
<1>5. CASE slot[q] # None /\ slot[q].type # "not_ready"
  BY <1>a, <1>b, <1>5 DEF OnItsWay
<1>6. CASE \E i \in DOMAIN inbound : inbound[i].of = q /\ inbound[i].type # "not_ready"
  BY <1>a, <1>6 DEF OnItsWay
<1>7. CASE /\ \E m \in Get(received_messages, key[q]) : m.of = q /\ m.type # "not_ready"
           /\ \/ pc[q] = "excl"
              \/ pc[q] = "wait" /\ slot[q] # None
              \/ Queued(q)
  <2>1. \E m \in Get(received_messages', key'[q]) : m.of = q /\ m.type # "not_ready"
    BY <1>a, <1>4, <1>7
  <2>2. pc'[q] = "excl" \/ (pc'[q] = "wait" /\ slot'[q] # None) \/ Queued(q)'
    BY <1>a, <1>b, <1>1, <1>2, <1>7
  <2> QED BY <2>1, <2>2 DEF OnItsWay, Queued, Get
<1> QED BY <1>3, <1>5, <1>6, <1>7 DEF OnItsWay, Queued

-----------------------------------------------------------------------------
\* What reading a registration does to the calls that have keys: the parked
\* answer is collected, or the resolver is stored.
LEMMA RegistrationMoves ==
    ASSUME TypeOK, RoutingInv, ResolverInv, PollRegistration
    PROVE  /\ UNCHANGED <<pc, key, polling, inbound, broker, control, data>>
           /\ \A q \in Numbered : Queued(q) => Queued(q)' \/ Head(registrations).req = q
           /\ \/ \E r \in Numbered, m \in Messages :
                    /\ Head(registrations).req = r /\ slot[r] = None
                    /\ key[r] # None /\ <<key[r], m>> \in received_messages
                    /\ slot' = [slot EXCEPT ![r] = m]
                    /\ received_messages' = Del(received_messages, key[r])
                    /\ pending_requests' = pending_requests
              \/ \E r \in Numbered :
                    /\ Head(registrations).req = r /\ slot[r] = None
                    /\ key[r] # None /\ \A e \in received_messages : e[1] # key[r]
                    /\ \A q \in Numbered : slot'[q] = slot[q]
                    /\ received_messages' = received_messages
                    /\ pending_requests' = Put(pending_requests, key[r], r)
              \/ /\ \A q \in Numbered : slot'[q] = slot[q]
                 /\ Head(registrations).req \notin Numbered
                 /\ UNCHANGED <<received_messages, pending_requests>>
<1> DEFINE g == Head(registrations)
           msgs == Get(received_messages, g.key)
<1>1. UNCHANGED <<pc, key, polling, inbound, broker, control, data>>
  BY DEF PollRegistration, env
<1>2. /\ registrations # <<>> /\ registrations' = Tail(registrations)
      /\ registrations \in Seq(Registers)
  BY DEF PollRegistration, TypeOK, ChannelsOK
<1>3. 1 \in DOMAIN registrations /\ g = registrations[1]
  BY <1>2, TailAt
<1>4. \A q \in Numbered : Queued(q) => Queued(q)' \/ g.req = q
  <2> SUFFICES ASSUME NEW q \in Numbered, NEW i \in DOMAIN registrations, registrations[i].req = q
               PROVE  Queued(q)' \/ g.req = q
    BY DEF Queued
  <2>1. CASE i = 1
    BY <1>3, <2>1
  <2>2. CASE i # 1
    <3>1. i - 1 \in DOMAIN registrations' /\ registrations'[i - 1].req = q
      BY <1>2, <2>2, TailAt
    <3> QED BY <3>1 DEF Queued
  <2> QED BY <2>1, <2>2
<1>5. g \in Registers /\ Filed(g) /\ (g.type = "request" => Kind[g.req] # "ping")
  BY <1>2, <1>3 DEF RoutingInv, RegistrationsFiled, ResolverInv, KindsFiled
<1>6. g.req \in Req => slot[g.req] = None /\ ~Stored(g.req)
  BY <1>3 DEF ResolverInv, OneResolver, Queued
<1>7. g.type \in {"request", "ping", "consumer", "remove"}
  BY <1>5 DEF Registers
<1>8. \A q \in Numbered : q # ping
  BY ConnectionAssumption DEF Numbered, RoutingInv, ResolversFiled
<1> HIDE DEF g
<1>9. CASE g.type = "request" /\ msgs # {}
  <2>1. g.req \in Numbered /\ key[g.req] # None /\ g.key = key[g.req]
    BY <1>5, <1>9 DEF Registers, Filed, Numbered
  <2>2. PICK m : m \in msgs /\ m = CHOOSE x \in msgs : TRUE
    BY <1>9
  <2>3. <<key[g.req], m>> \in received_messages /\ m \in Messages
    BY <2>1, <2>2 DEF Get, TypeOK, ReceiverOK
  <2>4. /\ Resolve([r \in Req |-> IF r = g.req THEN CHOOSE x \in msgs : TRUE ELSE None])
        /\ received_messages' = Del(received_messages, g.key)
        /\ pending_requests' = pending_requests
    BY <1>9 DEF PollRegistration, g
  <2>5. m # None /\ g.req \in Req
    BY <2>1, <2>3, MessageAssumption DEF Numbered
  <2> HIDE DEF msgs
  <2>6. slot' = [slot EXCEPT ![g.req] = m]
    BY <1>6, <2>2, <2>4, <2>5 DEF Resolve, TypeOK, CallersOK
  <2> QED BY <1>1, <1>4, <1>6, <2>1, <2>3, <2>4, <2>5, <2>6 DEF g
<1>10. CASE g.type = "request" /\ msgs = {}
  <2>1. g.req \in Numbered /\ key[g.req] # None /\ g.key = key[g.req]
    BY <1>5, <1>10 DEF Registers, Filed, Numbered
  <2>2. \A e \in received_messages : e[1] # key[g.req]
    BY <1>10, <2>1 DEF Get
  <2>3. /\ Resolve([r \in Req |-> IF r \in Get(pending_requests, g.key) THEN Canceled ELSE None])
        /\ received_messages' = received_messages
        /\ pending_requests' = Put(pending_requests, g.key, g.req)
    BY <1>10 DEF PollRegistration, g
  <2>4. ASSUME NEW q \in Req, q \in Get(pending_requests, g.key) PROVE FALSE
    <3>1. Pending(q) /\ key[q] = g.key
      BY <2>4 DEF Get, Pending, RoutingInv, ResolversFiled
    <3>2. q = g.req
      BY <2>1, <3>1 DEF RoutingInv, KeysUnique, Numbered
    <3> QED BY <1>6, <3>1, <3>2 DEF Stored
  <2>5. \A q \in Numbered : slot'[q] = slot[q]
    BY <2>3, <2>4 DEF Resolve, Numbered
  <2>6. slot[g.req] = None
    BY <1>6, <2>1 DEF Numbered
  <2> QED BY <1>1, <1>4, <2>1, <2>2, <2>3, <2>5, <2>6 DEF g
<1>11. CASE g.type = "ping"
  <2>1. /\ Resolve([r \in Req |-> IF r = ping THEN Canceled ELSE None])
        /\ UNCHANGED <<received_messages, pending_requests>>
    BY <1>11 DEF PollRegistration, g
  <2>2. \A q \in Numbered : slot'[q] = slot[q]
    BY <1>8, <2>1 DEF Resolve, Numbered
  <2>3. g.req \notin Numbered
    BY <1>5, <1>11 DEF Filed, Numbered
  <2> QED BY <1>1, <1>4, <2>1, <2>2, <2>3 DEF g
<1>12. CASE g.type \in {"consumer", "remove"}
  <2>1. UNCHANGED <<slot, received_messages, pending_requests>>
    BY <1>12 DEF PollRegistration, g
  <2>2. g.req \notin Numbered
    BY <1>5, <1>12, ConnectionAssumption DEF Registers, Numbered
  <2> QED BY <1>1, <1>4, <2>1, <2>2 DEF g
<1> QED BY <1>7, <1>9, <1>10, <1>11, <1>12

\* What routing a message does to them: the answer is delivered to the
\* resolver, or parked, or the message is no answer to them.
LEMMA InboundMoves ==
    ASSUME TypeOK, RoutingInv, ResolverInv, ReplyInv, PollInbound
    PROVE  /\ UNCHANGED <<pc, key, polling, registrations, broker, data>>
           /\ inbound # <<>> /\ inbound' = Tail(inbound)
           /\ \/ \E r \in Numbered :
                    /\ Head(inbound).of = r /\ Head(inbound).key = key[r] /\ key[r] # None
                    /\ slot[r] = None /\ slot' = [slot EXCEPT ![r] = Head(inbound)]
                    /\ \E e \in pending_requests : e[1] = key[r]
                    /\ pending_requests' = Del(pending_requests, key[r])
                    /\ received_messages' = received_messages
              \/ /\ Head(inbound).key = None \/ \E r \in Req :
                        Head(inbound).of = r /\ Head(inbound).key = key[r] /\ key[r] # None
                 /\ \A e \in pending_requests : e[1] # Head(inbound).key
                 /\ received_messages' = Put(received_messages, Head(inbound).key, Head(inbound))
                 /\ UNCHANGED <<slot, pending_requests>>
              \/ /\ Head(inbound).of \notin Numbered
                 /\ \A q \in Numbered : slot'[q] = slot[q]
                 /\ UNCHANGED <<received_messages, pending_requests>>
<1> DEFINE m == Head(inbound)
<1>1. /\ UNCHANGED <<pc, key, polling, registrations, broker, data>>
      /\ inbound # <<>> /\ inbound' = Tail(inbound)
  BY DEF PollInbound, env
<1>2. 1 \in DOMAIN inbound /\ m = inbound[1]
  BY <1>1, TailAt DEF TypeOK, ChannelsOK
<1>3. m \in Messages /\ Answers(m, m.key) /\ AnswersOf(m, m.key)
  BY <1>2 DEF TypeOK, ChannelsOK, RoutingInv, InboundFiled, ReplyInv, AnswersFiled
<1>4. \A q \in Numbered : q # ping
  BY ConnectionAssumption DEF Numbered, RoutingInv, ResolversFiled
<1> HIDE DEF m
<1>6. CASE RouteReply(m)
  <2> DEFINE to == Get(pending_requests, m.key)
  <2>1. CASE to # {}
    <3>1. PICK e \in pending_requests : e[1] = m.key
      BY <2>1 DEF Get
    <3>2. e[1] # None /\ e[1] = key[e[2]] /\ e[2] \in Req /\ Kind[e[2]] # "ping"
      BY DEF RoutingInv, ResolversFiled, TypeOK, ReceiverOK, ResolverInv, KindsFiled
    <3>3. m.of \in Req /\ m.key = key[m.of] /\ m.key # None
      BY <1>3, <3>1, <3>2 DEF Answers
    <3>4. PICK r \in Numbered : r = m.of /\ r = e[2]
      BY <3>1, <3>2, <3>3 DEF RoutingInv, KeysUnique, Numbered
    <3>5. slot[r] = None
      BY <3>4 DEF ResolverInv, OneResolver, Stored, Pending, Numbered
    <3>6. /\ Resolve([q \in Req |-> IF q \in to THEN m ELSE None])
          /\ pending_requests' = Del(pending_requests, m.key)
          /\ received_messages' = received_messages
      BY <1>6, <2>1 DEF RouteReply
    <3>7. \A q \in Req : q \in to <=> q = r
      <4>1. ASSUME NEW q \in Req, q \in to PROVE q = r
        <5>1. key[q] = m.key
          BY <4>1 DEF Get, RoutingInv, ResolversFiled
        <5> QED BY <3>3, <3>4, <5>1 DEF RoutingInv, KeysUnique
      <4>2. r \in to
        BY <3>1, <3>4 DEF Get
      <4> QED BY <4>1, <4>2
    <3>8. m # None
      BY <1>3, MessageAssumption
    <3> HIDE DEF to
    <3>9. slot' = [slot EXCEPT ![r] = m]
      <4>1. \A q \in Req : slot'[q] = IF q = r THEN m ELSE slot[q]
        BY <3>5, <3>6, <3>7, <3>8 DEF Resolve
      <4>2. slot' = [q \in Req |-> slot'[q]]
        BY <3>6 DEF Resolve
      <4>3. r \in Req /\ slot = [q \in Req |-> slot[q]]
        BY DEF TypeOK, CallersOK, Numbered
      <4> QED BY <4>1, <4>2, <4>3
    <3> QED BY <1>1, <3>1, <3>3, <3>4, <3>5, <3>6, <3>9 DEF m
  <2>2. CASE to = {}
    <3>1. /\ received_messages' = Put(received_messages, m.key, m)
          /\ UNCHANGED <<slot, pending_requests>>
      BY <1>6, <2>2 DEF RouteReply
    <3>2. \A e \in pending_requests : e[1] # m.key
      BY <2>2 DEF Get
    <3>3. m.key = None \/ \E r \in Req : m.of = r /\ m.key = key[r] /\ key[r] # None
      BY <1>3 DEF Answers
    <3> QED BY <1>1, <3>1, <3>2, <3>3 DEF m
  <2> QED BY <2>1, <2>2
<1>7. CASE RouteConsumer(m) \/ RoutePing(m) \/ RouteChallenge(m) \/ RoutePong(m)
  <2>1. m.type \notin Replies
    BY <1>7 DEF RouteConsumer, RoutePing, RouteChallenge, RoutePong, Replies
  <2>2. m.of \notin Numbered
    BY <1>3, <2>1 DEF AnswersOf
  <2>3. /\ \A q \in Numbered : slot'[q] = slot[q]
        /\ UNCHANGED <<received_messages, pending_requests>>
    BY <1>4, <1>7
       DEF RouteConsumer, RoutePing, RouteChallenge, RoutePong, maps, Resolve, Numbered
  <2> QED BY <1>1, <2>2, <2>3 DEF m
<1> QED BY <1>6, <1>7 DEF PollInbound, m

\* The Receiver writes at most its own pongs.
LEMMA ReceiverWritesOnce ==
    ASSUME TypeOK, WrittenOnce, Receiver
    PROVE  WrittenOnce'
<1>a. UNCHANGED <<pc, data, broker>>
  BY DEF Receiver, PollStart, PollRegistration, PollRegistrationsDone, PollInbound,
         PollInboundDone, caller, env
<1>b. \A q \in Req : Early(q)' => Early(q)
  BY <1>a DEF Early
<1>1. CASE control' = control
  BY <1>a, <1>b, <1>1, NothingWritten
<1>2. CASE control' = Append(control, "pong")
  BY <1>a, <1>b, <1>2, ControlWritten, ConnectionAssumption
<1> QED
  BY <1>1, <1>2
     DEF Receiver, PollStart, PollRegistration, PollRegistrationsDone, PollInbound,
         PollInboundDone, RouteReply, RouteConsumer, RoutePing, RoutePong, RouteChallenge

\* What r has: its final answer parked, waiting to be collected.
Parked(r) == \E e \in received_messages : e[1] = key[r] /\ e[2].of = r /\ e[2].type # "not_ready"
Collects(r) == pc[r] = "excl" \/ (pc[r] = "wait" /\ slot[r] # None) \/ Queued(r)
InStream(r) == \E i \in DOMAIN inbound : inbound[i].of = r /\ inbound[i].type # "not_ready"
Delivered(r) == slot[r] # None /\ slot[r].type # "not_ready"

\* Where a final answer can be.
LEMMA OnItsWayIs ==
    ASSUME NEW r \in Req
    PROVE  /\ OnItsWay(r) <=> Delivered(r) \/ InStream(r) \/ (Parked(r) /\ Collects(r))
           /\ OnItsWay(r)' <=> Delivered(r)' \/ InStream(r)' \/ (Parked(r)' /\ Collects(r)')
BY DEF OnItsWay, Delivered, InStream, Parked, Collects, Queued, Get

\* A registration collects its parked answer.
LEMMA AnswerCollected ==
    ASSUME TypeOK, RoutingInv, ReplyInv, NoReplyLost,
           UNCHANGED <<pc, key, polling, inbound, broker>>,
           \A q \in Numbered : Queued(q) => Queued(q)' \/ Head(registrations).req = q,
           NEW r \in Numbered, NEW m \in Messages,
           Head(registrations).req = r, slot[r] = None,
           key[r] # None, <<key[r], m>> \in received_messages,
           slot' = [slot EXCEPT ![r] = m],
           received_messages' = Del(received_messages, key[r]),
           pending_requests' = pending_requests
    PROVE  AnswersFiled' /\ HeardFirst' /\ ParkedAlone' /\ NotReadyFirst' /\ Somewhere'
           /\ NoReplyLost'
<1>a. received_messages' \subseteq received_messages /\ \A e \in received_messages' : e[1] # key[r]
  BY DEF Del
<1>b. /\ r \in Req /\ Kind[r] # "ping"
      /\ \A q \in Req : slot'[q] = IF q = r THEN m ELSE slot[q]
      /\ m # None
  BY MessageAssumption DEF Numbered, TypeOK, CallersOK
<1>c. m.of = r
  <2>1. m.of \in Req /\ key[r] = key[m.of]
    BY DEF RoutingInv, ParkedFiled, Answers
  <2> QED BY <1>b, <2>1 DEF RoutingInv, KeysUnique
<1>d. Heard(r)
  <2>1. AnswersOf(m, key[r])
    BY DEF ReplyInv, AnswersFiled
  <2> QED BY <1>c, <2>1 DEF AnswersOf
<1>e. \A q \in Numbered : q # r /\ key[q] # None => key[q] # key[r]
  BY <1>b DEF RoutingInv, KeysUnique, Numbered
<1>1. AnswersFiled'
  <2>1. ASSUME NEW i \in DOMAIN inbound
        PROVE  AnswersOf(inbound[i], inbound[i].key)'
    BY <2>1 DEF ReplyInv, AnswersFiled, AnswersOf, Heard
  <2>2. ASSUME NEW e \in received_messages'
        PROVE  /\ AnswersOf(e[2], e[1])
               /\ e[2].of \in Numbered => e[1] = key'[e[2].of] /\ e[1] # None
                     /\ e[2].type \in Replies /\ broker'[e[2].of] \in {"queued", "answered"}
    BY <1>a, <2>2 DEF ReplyInv, AnswersFiled, AnswersOf, Heard
  <2> QED BY <2>1, <2>2 DEF AnswersFiled, AnswersOf, Heard
<1>2. HeardFirst'
  BY <1>b, <1>d DEF ReplyInv, HeardFirst, Heard, Waiting, Numbered
<1>3. ParkedAlone'
  BY <1>a DEF ReplyInv, ParkedAlone
<1>4. NotReadyFirst'
  <2>1. \A i \in DOMAIN inbound : ~IsNotReady(inbound[i], r)
    BY <1>c DEF ReplyInv, NotReadyFirst
  <2>2. \A e \in received_messages' : e[2].of # r
    <3>1. ASSUME NEW e \in received_messages', e[2].of = r PROVE FALSE
      <4>1. AnswersOf(e[2], e[1])
        BY <1>a, <3>1 DEF ReplyInv, AnswersFiled
      <4> QED BY <1>a, <3>1, <4>1 DEF AnswersOf
    <3> QED BY <3>1
  <2>3. m.type = "not_ready" => ~Waiting(r)
    BY <1>c DEF ReplyInv, NotReadyFirst, IsNotReady
  <2> QED BY <1>a, <1>b, <2>1, <2>2, <2>3 DEF ReplyInv, NotReadyFirst, IsNotReady, Waiting, Numbered
<1>5. Somewhere'
  <2> SUFFICES ASSUME NEW q \in Numbered, Receiving', pc[q] \in {"enqueue", "wait", "excl_wait"}
               PROVE  slot'[q] # None \/ Queued(q)' \/ Pending(q)'
    BY DEF Somewhere
  <2>1. slot[q] # None \/ Queued(q) \/ Pending(q)
    BY DEF ReplyInv, Somewhere, Receiving
  <2> QED BY <1>b, <2>1 DEF Pending, Numbered
<1>6. NoReplyLost'
  <2> SUFFICES ASSUME NEW q \in Req, Kind[q] # "ping", broker[q] = "answered", Receiving',
                      pc[q] \in {"wait", "excl", "excl_wait"}
               PROVE  OnItsWay(q)'
    BY DEF NoReplyLost
  <2>1. Delivered(q) \/ InStream(q) \/ (Parked(q) /\ Collects(q))
    BY OnItsWayIs DEF NoReplyLost, Receiving
  <2>2. CASE q # r
    <3>1. key[q] # None
      BY DEF RoutingInv, KeysFresh
    <3>2. Parked(q) => Parked(q)'
      BY <1>e, <2>2, <3>1 DEF Parked, Del, Numbered
    <3>3. /\ Delivered(q) => Delivered(q)'
          /\ InStream(q) => InStream(q)'
          /\ Collects(q) => Collects(q)'
      BY <1>b, <2>2 DEF Delivered, InStream, Collects, Numbered
    <3> QED BY <2>1, <3>2, <3>3, OnItsWayIs
  <2>3. CASE q = r
    <3>1. InStream(q) => InStream(q)'
      BY DEF InStream
    <3>2. Parked(q) => m.type # "not_ready"
      BY <2>3 DEF Parked, ReplyInv, ParkedAlone
    <3>3. ~Delivered(q)
      BY <2>3 DEF Delivered
    <3>4. m.type # "not_ready" => Delivered(q)'
      BY <1>b, <2>3 DEF Delivered
    <3> QED BY <2>1, <3>1, <3>2, <3>3, <3>4, OnItsWayIs
  <2> QED BY <2>2, <2>3
<1> QED BY <1>1, <1>2, <1>3, <1>4, <1>5, <1>6

\* A registration stores its resolver.
LEMMA ResolverStored ==
    ASSUME TypeOK, RoutingInv, ReplyInv, NoReplyLost,
           UNCHANGED <<pc, key, polling, inbound, broker>>,
           \A q \in Numbered : Queued(q) => Queued(q)' \/ Head(registrations).req = q,
           NEW r \in Numbered,
           Head(registrations).req = r, slot[r] = None,
           key[r] # None, \A e \in received_messages : e[1] # key[r],
           \A q \in Numbered : slot'[q] = slot[q],
           received_messages' = received_messages,
           pending_requests' = Put(pending_requests, key[r], r)
    PROVE  AnswersFiled' /\ HeardFirst' /\ ParkedAlone' /\ NotReadyFirst' /\ Somewhere'
           /\ NoReplyLost'
<1>1. AnswersFiled'
  BY KeptAnswers DEF ReplyInv, Heard
<1>2. HeardFirst' /\ NotReadyFirst'
  BY DEF ReplyInv, HeardFirst, Heard, Waiting, NotReadyFirst, IsNotReady
<1>3. ParkedAlone'
  BY DEF ReplyInv, ParkedAlone, Put
<1>4. Somewhere'
  <2> SUFFICES ASSUME NEW q \in Numbered, Receiving', pc[q] \in {"enqueue", "wait", "excl_wait"}
               PROVE  slot'[q] # None \/ Queued(q)' \/ Pending(q)'
    BY DEF Somewhere
  <2>1. slot[q] # None \/ Queued(q) \/ Pending(q)
    BY DEF ReplyInv, Somewhere, Receiving
  <2>2. Pending(r)'
    <3>1. <<key[r], r>> \in pending_requests' /\ <<key[r], r>>[2] = r
      BY DEF Put
    <3> QED BY <3>1 DEF Pending
  <2>3. Pending(q) => Pending(q)'
    <3>1. ASSUME NEW e \in pending_requests, e[2] = q PROVE Pending(q)'
      <4>1. CASE e[1] = key[r]
        <5>1. q = r
          BY <3>1, <4>1 DEF RoutingInv, ResolversFiled, KeysUnique, Numbered
        <5> QED BY <2>2, <5>1
      <4>2. CASE e[1] # key[r]
        BY <3>1, <4>2 DEF Put, Pending
      <4> QED BY <4>1, <4>2
    <3> QED BY <3>1 DEF Pending
  <2> QED BY <2>1, <2>2, <2>3
<1>5. NoReplyLost'
  <2> SUFFICES ASSUME NEW q \in Req, Kind[q] # "ping", broker[q] = "answered", Receiving',
                      pc[q] \in {"wait", "excl", "excl_wait"}
               PROVE  OnItsWay(q)'
    BY DEF NoReplyLost
  <2>1. Delivered(q) \/ InStream(q) \/ (Parked(q) /\ Collects(q))
    BY OnItsWayIs DEF NoReplyLost, Receiving
  <2>2. Parked(q) => q # r /\ Parked(q)'
    BY DEF Parked
  <2>3. /\ Delivered(q) => Delivered(q)'
        /\ InStream(q) => InStream(q)'
        /\ q # r /\ Collects(q) => Collects(q)'
    BY DEF Delivered, InStream, Collects, Numbered
  <2> QED BY <2>1, <2>2, <2>3, OnItsWayIs
<1> QED BY <1>1, <1>2, <1>3, <1>4, <1>5

\* When a message is taken, what stays in the stream keeps its order.
LEMMA NotReadyStaysFirst ==
    ASSUME TypeOK, NotReadyFirst, inbound # <<>>, inbound' = Tail(inbound),
           pc' = pc,
           \A q \in Numbered :
              \/ slot'[q] = slot[q]
              \/ Head(inbound).of = q /\ slot'[q] = Head(inbound) /\ slot'[q] # None
                 /\ \A e \in received_messages : ~IsNotReady(e[2], q),
           \A e \in received_messages' :
              e \in received_messages \/ (e[2] = Head(inbound) /\ slot' = slot)
    PROVE  NotReadyFirst'
<1>1. /\ 1 \in DOMAIN inbound /\ Head(inbound) = inbound[1]
      /\ \A i \in DOMAIN inbound' :
           /\ i \in Nat /\ i > 0 /\ i + 1 \in DOMAIN inbound /\ inbound'[i] = inbound[i + 1]
  <2>1. \A i \in DOMAIN inbound' : i \in Nat /\ i > 0
    BY DEF TypeOK, ChannelsOK
  <2> QED BY <2>1, TailAt DEF TypeOK, ChannelsOK
<1> DEFINE m == Head(inbound)
<1> HIDE DEF m
<1> SUFFICES ASSUME NEW r \in Numbered
             PROVE
        /\ \A i \in DOMAIN inbound' : IsNotReady(inbound'[i], r) =>
              /\ \A j \in DOMAIN inbound' : inbound'[j].of = r => i <= j
              /\ \A e \in received_messages' : e[2].of # r
              /\ slot'[r] \in {None, Canceled} /\ ~Waiting(r)
        /\ \A e \in received_messages' : IsNotReady(e[2], r) =>
              slot'[r] \in {None, Canceled} /\ ~Waiting(r)
        /\ slot'[r] # None /\ slot'[r].type = "not_ready" => ~Waiting(r)
  BY DEF NotReadyFirst, IsNotReady, Waiting
<1>2. ASSUME NEW i \in DOMAIN inbound', IsNotReady(inbound'[i], r)
      PROVE  /\ \A j \in DOMAIN inbound' : inbound'[j].of = r => i <= j
             /\ \A e \in received_messages' : e[2].of # r
             /\ slot'[r] \in {None, Canceled} /\ ~Waiting(r)
  <2>1. IsNotReady(inbound[i + 1], r) /\ i + 1 \in DOMAIN inbound
    BY <1>1, <1>2
  <2>2. /\ \A j \in DOMAIN inbound : inbound[j].of = r => i + 1 <= j
        /\ \A e \in received_messages : e[2].of # r
        /\ slot[r] \in {None, Canceled} /\ ~Waiting(r)
    BY <2>1 DEF NotReadyFirst
  <2>3. m.of # r
    BY <1>1, <1>2, <2>2 DEF m
  <2> QED BY <1>1, <1>2, <2>2, <2>3 DEF m
<1>3. ASSUME NEW e \in received_messages', IsNotReady(e[2], r)
      PROVE  slot'[r] \in {None, Canceled} /\ ~Waiting(r)
  <2>1. CASE e \in received_messages
    BY <1>3, <2>1 DEF NotReadyFirst
  <2>2. CASE e[2] = m /\ slot'[r] = slot[r]
    BY <1>1, <1>3, <2>2 DEF NotReadyFirst, m
  <2> QED BY <1>3, <2>1, <2>2 DEF m
<1>4. slot'[r] # None /\ slot'[r].type = "not_ready" => ~Waiting(r)
  BY <1>1 DEF NotReadyFirst, IsNotReady
<1> QED BY <1>2, <1>3, <1>4

\* A step that is about no call with a key, read from either channel.
LEMMA NothingAnswered ==
    ASSUME TypeOK, RoutingInv, ReplyInv, NoReplyLost,
           UNCHANGED <<pc, key, polling, broker, received_messages, pending_requests>>,
           \A q \in Numbered : slot'[q] = slot[q],
           \A q \in Numbered : Queued(q) => Queued(q)',
           inbound' = inbound \/ (inbound' = Tail(inbound) /\ inbound # <<>>
                                  /\ Head(inbound).of \notin Numbered)
    PROVE  AnswersFiled' /\ HeardFirst' /\ ParkedAlone' /\ NotReadyFirst' /\ Somewhere'
           /\ NoReplyLost'
<1>a. /\ \A i \in DOMAIN inbound' : \E j \in DOMAIN inbound : inbound'[i] = inbound[j]
      /\ \A q \in Numbered : InStream(q) => InStream(q)'
  <2>1. CASE inbound' = inbound
    BY <2>1 DEF InStream
  <2>2. CASE inbound' = Tail(inbound) /\ inbound # <<>> /\ Head(inbound).of \notin Numbered
    <3>1. ASSUME NEW q \in Numbered, InStream(q) PROVE InStream(q)'
      <4>1. PICK i \in DOMAIN inbound : inbound[i].of = q /\ inbound[i].type # "not_ready"
        BY <3>1 DEF InStream
      <4>2. i # 1
        BY <2>2, <4>1, TailAt DEF TypeOK, ChannelsOK
      <4>3. i - 1 \in DOMAIN inbound' /\ inbound'[i - 1] = inbound[i]
        BY <2>2, <4>2, TailAt DEF TypeOK, ChannelsOK
      <4> QED BY <4>1, <4>3 DEF InStream
    <3> QED BY <2>2, <3>1, TailAt DEF TypeOK, ChannelsOK
  <2> QED BY <2>1, <2>2
<1>1. AnswersFiled'
  <2>1. ASSUME NEW j \in DOMAIN inbound
        PROVE  /\ AnswersOf(inbound[j], inbound[j].key)
               /\ inbound[j].of \in Numbered => inbound[j].key = key'[inbound[j].of]
                     /\ inbound[j].key # None /\ inbound[j].type \in Replies
                     /\ broker'[inbound[j].of] \in {"queued", "answered"}
    BY <2>1 DEF ReplyInv, AnswersFiled, AnswersOf, Heard
  <2>2. ASSUME NEW e \in received_messages
        PROVE  AnswersOf(e[2], e[1])'
    BY <2>2 DEF ReplyInv, AnswersFiled, AnswersOf, Heard
  <2> QED BY <1>a, <2>1, <2>2 DEF AnswersFiled, AnswersOf, Heard
<1>2. HeardFirst' /\ ParkedAlone' /\ Somewhere'
  BY DEF ReplyInv, HeardFirst, Heard, Waiting, ParkedAlone, Somewhere, Pending, Receiving
<1>3. NotReadyFirst'
  <2>1. CASE inbound' = inbound
    BY <2>1 DEF ReplyInv, NotReadyFirst, IsNotReady, Waiting
  <2>2. CASE inbound' = Tail(inbound) /\ inbound # <<>>
    BY <2>2, NotReadyStaysFirst DEF ReplyInv
  <2> QED BY <2>1, <2>2
<1>4. NoReplyLost'
  <2> SUFFICES ASSUME NEW q \in Req, Kind[q] # "ping", broker[q] = "answered", Receiving',
                      pc[q] \in {"wait", "excl", "excl_wait"}
               PROVE  OnItsWay(q)'
    BY DEF NoReplyLost
  <2>1. Delivered(q) \/ InStream(q) \/ (Parked(q) /\ Collects(q))
    BY OnItsWayIs DEF NoReplyLost, Receiving
  <2>2. /\ Delivered(q) => Delivered(q)'
        /\ InStream(q) => InStream(q)'
        /\ Parked(q) /\ Collects(q) => Parked(q)' /\ Collects(q)'
    BY <1>a DEF Delivered, Parked, Collects, Numbered
  <2> QED BY <2>1, <2>2, OnItsWayIs
<1> QED BY <1>1, <1>2, <1>3, <1>4

\* A message that is taken from the stream stays filed, and the others of the
\* stream stay there.
LEMMA StreamMoves ==
    ASSUME TypeOK, AnswersFiled, inbound # <<>>, inbound' = Tail(inbound),
           UNCHANGED <<key, broker>>,
           \A e \in received_messages' :
              e \in received_messages \/ e = <<Head(inbound).key, Head(inbound)>>
    PROVE  /\ AnswersFiled'
           /\ \A q \in Numbered : InStream(q) => InStream(q)'
                 \/ (Head(inbound).of = q /\ Head(inbound).type # "not_ready")
           /\ Head(inbound) \in Messages /\ AnswersOf(Head(inbound), Head(inbound).key)
<1> DEFINE m == Head(inbound)
<1>1. /\ 1 \in DOMAIN inbound /\ m = inbound[1]
      /\ \A i \in DOMAIN inbound' : \E j \in DOMAIN inbound : inbound'[i] = inbound[j]
  BY TailAt DEF TypeOK, ChannelsOK
<1>2. m \in Messages /\ AnswersOf(m, m.key)
  BY <1>1 DEF AnswersFiled, TypeOK, ChannelsOK
<1>3. ASSUME NEW q \in Numbered, InStream(q)
      PROVE  InStream(q)' \/ (m.of = q /\ m.type # "not_ready")
  <2>1. PICK i \in DOMAIN inbound : inbound[i].of = q /\ inbound[i].type # "not_ready"
    BY <1>3 DEF InStream
  <2>2. CASE i = 1
    BY <1>1, <2>1, <2>2
  <2>3. CASE i # 1
    <3>1. i - 1 \in DOMAIN inbound' /\ inbound'[i - 1] = inbound[i]
      BY <2>3, TailAt DEF TypeOK, ChannelsOK
    <3> QED BY <2>1, <3>1 DEF InStream
  <2> QED BY <2>2, <2>3
<1> HIDE DEF m
<1>4. AnswersFiled'
  <2>1. ASSUME NEW j \in DOMAIN inbound
        PROVE  inbound[j].of \in Numbered => inbound[j].key = key'[inbound[j].of]
                     /\ inbound[j].key # None /\ inbound[j].type \in Replies
                     /\ broker'[inbound[j].of] \in {"queued", "answered"}
    BY <2>1 DEF AnswersFiled, AnswersOf, Heard
  <2>2. ASSUME NEW e \in received_messages'
        PROVE  AnswersOf(e[2], e[1])'
    <3>1. AnswersOf(e[2], e[1])
      <4>1. CASE e \in received_messages
        BY <4>1 DEF AnswersFiled
      <4>2. CASE e = <<m.key, m>>
        BY <1>2, <4>2
      <4> QED BY <2>2, <4>1, <4>2 DEF m
    <3> QED BY <3>1 DEF AnswersOf, Heard
  <2> QED BY <1>1, <2>1, <2>2 DEF AnswersFiled, AnswersOf, Heard
<1> QED BY <1>2, <1>3, <1>4 DEF m

\* An answer goes to the resolver that waits for it.
LEMMA AnswerDelivered ==
    ASSUME TypeOK, RoutingInv, ReplyInv, NoReplyLost,
           UNCHANGED <<pc, key, polling, registrations, broker>>,
           inbound # <<>>, inbound' = Tail(inbound),
           NEW r \in Numbered,
           Head(inbound).of = r, Head(inbound).key = key[r], key[r] # None,
           slot[r] = None, slot' = [slot EXCEPT ![r] = Head(inbound)],
           \E e \in pending_requests : e[1] = key[r],
           pending_requests' = Del(pending_requests, key[r]),
           received_messages' = received_messages
    PROVE  AnswersFiled' /\ HeardFirst' /\ ParkedAlone' /\ NotReadyFirst' /\ Somewhere'
           /\ NoReplyLost'
<1> DEFINE m == Head(inbound)
<1>a. /\ AnswersFiled'
      /\ \A q \in Numbered : InStream(q) => InStream(q)' \/ (m.of = q /\ m.type # "not_ready")
      /\ m \in Messages /\ AnswersOf(m, m.key)
  BY StreamMoves DEF ReplyInv
<1>b. /\ r \in Req /\ Kind[r] # "ping" /\ m # None
      /\ \A q \in Req : slot'[q] = IF q = r THEN m ELSE slot[q]
  BY <1>a, MessageAssumption DEF Numbered, TypeOK, CallersOK
<1>c. m.of = r
  OBVIOUS
<1> HIDE DEF m
<1>d. Heard(r)
  BY <1>a, <1>c DEF AnswersOf
<1>e. \A e \in received_messages : e[1] # key[r]
  BY DEF ReplyInv, ParkedAlone
<1>f. \A e \in received_messages : e[2].of # r
  <2>1. ASSUME NEW e \in received_messages, e[2].of = r PROVE FALSE
    <3>1. AnswersOf(e[2], e[1])
      BY <2>1 DEF ReplyInv, AnswersFiled
    <3> QED BY <1>e, <2>1, <3>1 DEF AnswersOf
  <2> QED BY <2>1
<1>1. HeardFirst'
  BY <1>b, <1>d DEF ReplyInv, HeardFirst, Heard, Waiting, Numbered
<1>2. ParkedAlone'
  BY DEF ReplyInv, ParkedAlone, Del
<1>3. NotReadyFirst'
  BY <1>b, <1>c, <1>f, NotReadyStaysFirst DEF ReplyInv, Numbered, IsNotReady, m
<1>4. Somewhere'
  <2> SUFFICES ASSUME NEW q \in Numbered, Receiving', pc[q] \in {"enqueue", "wait", "excl_wait"}
               PROVE  slot'[q] # None \/ Queued(q)' \/ Pending(q)'
    BY DEF Somewhere
  <2>1. slot[q] # None \/ Queued(q) \/ Pending(q)
    BY DEF ReplyInv, Somewhere, Receiving
  <2>2. CASE q = r
    BY <1>b, <2>2
  <2>3. CASE q # r
    <3>1. ASSUME NEW e \in pending_requests, e[2] = q PROVE Pending(q)'
      <4>1. e[1] # key[r]
        BY <2>3, <3>1 DEF RoutingInv, ResolversFiled, KeysUnique, Numbered
      <4> QED BY <3>1, <4>1 DEF Del, Pending
    <3> QED BY <1>b, <2>1, <2>3, <3>1 DEF Pending, Queued, Numbered
  <2> QED BY <2>2, <2>3
<1>5. NoReplyLost'
  <2> SUFFICES ASSUME NEW q \in Req, Kind[q] # "ping", broker[q] = "answered", Receiving',
                      pc[q] \in {"wait", "excl", "excl_wait"}
               PROVE  OnItsWay(q)'
    BY DEF NoReplyLost
  <2>1. Delivered(q) \/ InStream(q) \/ (Parked(q) /\ Collects(q))
    BY OnItsWayIs DEF NoReplyLost, Receiving
  <2>2. CASE q # r
    <3>1. /\ Delivered(q) => Delivered(q)'
          /\ InStream(q) => InStream(q)'
          /\ Parked(q) /\ Collects(q) => Parked(q)' /\ Collects(q)'
      BY <1>a, <1>b, <1>c, <2>2 DEF Delivered, Parked, Collects, Queued, Numbered
    <3> QED BY <2>1, <3>1, OnItsWayIs
  <2>3. CASE q = r
    <3>1. InStream(q) => InStream(q)' \/ m.type # "not_ready"
      BY <1>a, <2>3
    <3>2. ~Parked(q) /\ ~Delivered(q)
      BY <1>f, <2>3 DEF Parked, Delivered
    <3>3. m.type # "not_ready" => Delivered(q)'
      BY <1>b, <2>3 DEF Delivered
    <3> QED BY <2>1, <3>1, <3>2, <3>3, OnItsWayIs
  <2> QED BY <2>2, <2>3
<1> QED BY <1>a, <1>1, <1>2, <1>3, <1>4, <1>5

\* An answer that overtook its registration is parked.
LEMMA AnswerParked ==
    ASSUME TypeOK, RoutingInv, ReplyInv, NoReplyLost,
           UNCHANGED <<pc, key, polling, registrations, broker>>,
           inbound # <<>>, inbound' = Tail(inbound),
           \/ Head(inbound).key = None
           \/ \E r \in Req : Head(inbound).of = r /\ Head(inbound).key = key[r] /\ key[r] # None,
           \A e \in pending_requests : e[1] # Head(inbound).key,
           received_messages' = Put(received_messages, Head(inbound).key, Head(inbound)),
           UNCHANGED <<slot, pending_requests>>
    PROVE  AnswersFiled' /\ HeardFirst' /\ ParkedAlone' /\ NotReadyFirst' /\ Somewhere'
           /\ NoReplyLost'
<1> DEFINE m == Head(inbound)
<1>a. \A e \in received_messages' : e \in received_messages \/ e = <<m.key, m>>
  BY DEF Put
<1>b. /\ AnswersFiled'
      /\ \A q \in Numbered : InStream(q) => InStream(q)' \/ (m.of = q /\ m.type # "not_ready")
      /\ m \in Messages /\ AnswersOf(m, m.key)
  BY <1>a, StreamMoves DEF ReplyInv
<1>c. m.key = None \/ \E r \in Req : m.of = r /\ m.key = key[r] /\ key[r] # None
  OBVIOUS
<1>d. received_messages' = Put(received_messages, m.key, m)
  OBVIOUS
<1>e. NotReadyFirst'
  BY <1>a, NotReadyStaysFirst DEF ReplyInv
<1>f. \A e \in pending_requests : e[1] # m.key
  OBVIOUS
<1> HIDE DEF m
<1>1. HeardFirst' /\ Somewhere'
  BY DEF ReplyInv, HeardFirst, Heard, Waiting, Somewhere, Pending, Queued, Receiving
<1>2. ParkedAlone'
  BY <1>d, <1>f DEF ReplyInv, ParkedAlone, Put
<1>3. NoReplyLost'
  <2> SUFFICES ASSUME NEW q \in Req, Kind[q] # "ping", broker[q] = "answered", Receiving',
                      pc[q] \in {"wait", "excl", "excl_wait"}
               PROVE  OnItsWay(q)'
    BY DEF NoReplyLost
  <2>1. Delivered(q) \/ InStream(q) \/ (Parked(q) /\ Collects(q))
    BY OnItsWayIs DEF NoReplyLost, Receiving
  <2>2. /\ Delivered(q) => Delivered(q)'
        /\ Collects(q) => Collects(q)'
    BY DEF Delivered, Collects, Queued
  <2>3. q \in Numbered /\ key[q] # None
    BY DEF RoutingInv, KeysFresh, Numbered
  <2>4. CASE m.of # q
    <3>1. m.key # key[q]
      BY <1>c, <2>3, <2>4 DEF RoutingInv, KeysUnique
    <3>2. Parked(q) => Parked(q)'
      BY <1>d, <3>1 DEF Parked, Put
    <3> QED BY <1>b, <2>1, <2>2, <2>3, <2>4, <3>2, OnItsWayIs
  <2>5. CASE m.of = q /\ m.type = "not_ready"
    <3>1. IsNotReady(inbound[1], q) /\ 1 \in DOMAIN inbound
      BY <2>5, TailAt DEF IsNotReady, m, TypeOK, ChannelsOK
    <3>2. ~Parked(q)
      BY <2>3, <3>1 DEF ReplyInv, NotReadyFirst, Parked
    <3> QED BY <1>b, <2>1, <2>2, <2>3, <2>5, <3>2, OnItsWayIs
  <2>6. CASE m.of = q /\ m.type # "not_ready"
    <3>1. m.key = key[q]
      BY <1>b, <2>3, <2>6 DEF AnswersOf
    <3>2. Parked(q)'
      <4>1. <<m.key, m>> \in received_messages' /\ <<m.key, m>>[1] = m.key /\ <<m.key, m>>[2] = m
        BY <1>d DEF Put
      <4> QED BY <2>6, <3>1, <4>1 DEF Parked
    <3>3. ~Pending(q)
      BY <1>f, <3>1 DEF Pending, RoutingInv, ResolversFiled
    <3>4. CASE pc[q] = "excl"
      BY <2>2, <3>2, <3>4, OnItsWayIs DEF Collects
    <3>5. CASE pc[q] # "excl"
      <4>1. slot[q] # None \/ Queued(q)
        BY <2>3, <3>3, <3>5 DEF ReplyInv, Somewhere, Receiving
      <4>2. pc[q] = "excl_wait" /\ slot[q] # None => Delivered(q)
        BY <2>3 DEF ReplyInv, NotReadyFirst, Waiting, Delivered
      <4> QED BY <2>2, <3>2, <3>5, <4>1, <4>2, OnItsWayIs DEF Collects
    <3> QED BY <3>4, <3>5
  <2> QED BY <2>4, <2>5, <2>6
<1> QED BY <1>b, <1>e, <1>1, <1>2, <1>3

\* The Receiver loses no answer.
LEMMA ReceiverReplies ==
    ASSUME TypeOK, RoutingInv, ResolverInv, ReplyInv, NoReplyLost, Receiver
    PROVE  ReplyInv' /\ NoReplyLost'
<1>a. WrittenOnce'
  BY ReceiverWritesOnce DEF ReplyInv
<1>1. CASE ReceiverExits /\ UNCHANGED <<pc, key, inbound, broker>>
  <2>a. Canceled # None /\ Canceled.type = "canceled"
    BY CanceledType, MessageAssumption DEF Canceled, Msg
  <2>1. AnswersFiled' /\ ParkedAlone'
    <3>1. ASSUME NEW i \in DOMAIN inbound
          PROVE  AnswersOf(inbound[i], inbound[i].key)'
      BY <1>1, <3>1 DEF ReplyInv, AnswersFiled, AnswersOf, Heard
    <3> QED BY <1>1, <3>1 DEF ReceiverExits, AnswersFiled, ParkedAlone
  <2>2. \A q \in Numbered : slot'[q] = slot[q] \/ (slot[q] = None /\ slot'[q] = Canceled)
    BY <1>1 DEF ReceiverExits, Numbered
  <2>3. HeardFirst' /\ NotReadyFirst'
    BY <1>1, <2>a, <2>2
       DEF ReceiverExits, ReplyInv, HeardFirst, Heard, NotReadyFirst, IsNotReady, Waiting
  <2>4. Somewhere' /\ NoReplyLost'
    BY <1>1 DEF ReceiverExits, Somewhere, NoReplyLost, Receiving
  <2> QED BY <1>a, <2>1, <2>3, <2>4 DEF ReplyInv
<1>2. CASE /\ UNCHANGED <<slot, registrations, maps, pc, key, inbound, broker>>
           /\ Receiving /\ Receiving'
  <2>1. AnswersFiled'
    BY <1>2, KeptAnswers DEF ReplyInv, Heard, maps
  <2>2. HeardFirst' /\ NotReadyFirst' /\ ParkedAlone' /\ Somewhere'
    BY <1>2 DEF ReplyInv, HeardFirst, Heard, NotReadyFirst, IsNotReady, Waiting, ParkedAlone,
                Somewhere, Pending, Queued, maps
  <2>3. NoReplyLost'
    BY <1>2 DEF NoReplyLost, OnItsWay, maps
  <2> QED BY <1>a, <2>1, <2>2, <2>3 DEF ReplyInv
<1>3. CASE PollRegistration
  <2>1. UNCHANGED <<pc, key, polling, inbound, broker>>
    BY <1>3, RegistrationMoves
  <2>2. \A q \in Numbered : Queued(q) => Queued(q)' \/ Head(registrations).req = q
    BY <1>3, RegistrationMoves
  <2>3. /\ AnswersFiled' /\ HeardFirst' /\ ParkedAlone' /\ NotReadyFirst' /\ Somewhere'
        /\ NoReplyLost'
    BY <1>3, <2>1, <2>2, RegistrationMoves, AnswerCollected, ResolverStored, NothingAnswered
  <2> QED BY <1>a, <2>3 DEF ReplyInv
<1>4. CASE PollInbound
  <2>1. UNCHANGED <<pc, key, polling, registrations, broker>> /\ inbound # <<>> /\ inbound' = Tail(inbound)
    BY <1>4, InboundMoves
  <2>2. \A q \in Numbered : Queued(q) => Queued(q)'
    BY <2>1 DEF Queued
  <2>3. /\ AnswersFiled' /\ HeardFirst' /\ ParkedAlone' /\ NotReadyFirst' /\ Somewhere'
        /\ NoReplyLost'
    BY <1>4, <2>1, <2>2, InboundMoves, AnswerDelivered, AnswerParked, NothingAnswered
  <2> QED BY <1>a, <2>3 DEF ReplyInv
<1> QED
  BY <1>1, <1>2, <1>3, <1>4
     DEF Receiver, PollStart, PollRegistrationsDone, PollInboundDone, Receiving, env

-----------------------------------------------------------------------------
\* The broker's messages join the end of the stream.
LEMMA StreamGrows ==
    ASSUME TypeOK, ReplyInv, NEW m, inbound' = Append(inbound, m),
           UNCHANGED <<pc, key, slot, received_messages>>,
           \A q \in Numbered : Heard(q) => Heard(q)',
           m.of \in Numbered => /\ m.key = key[m.of] /\ m.key # None /\ m.type \in Replies
                                /\ broker'[m.of] \in {"queued", "answered"}
                                /\ m.type = "not_ready" => ~Heard(m.of)
    PROVE  /\ AnswersFiled' /\ NotReadyFirst'
           /\ \A q \in Numbered : InStream(q) => InStream(q)'
           /\ \A q \in Numbered : m.of = q /\ m.type # "not_ready" => InStream(q)'
<1>1. /\ inbound \in Seq(Messages) /\ DOMAIN inbound = 1..Len(inbound) /\ Len(inbound) \in Nat
      /\ DOMAIN inbound' = 1..(Len(inbound) + 1) /\ inbound'[Len(inbound) + 1] = m
      /\ \A i \in DOMAIN inbound : inbound'[i] = inbound[i]
  BY DEF TypeOK, ChannelsOK
<1>2. AnswersFiled'
  <2>1. ASSUME NEW i \in DOMAIN inbound'
        PROVE  inbound'[i].of \in Numbered => inbound'[i].key = key[inbound'[i].of]
                     /\ inbound'[i].key # None /\ inbound'[i].type \in Replies
                     /\ broker'[inbound'[i].of] \in {"queued", "answered"}
    <3>1. CASE i \in DOMAIN inbound
      <4>1. AnswersOf(inbound[i], inbound[i].key)
        BY <3>1 DEF ReplyInv, AnswersFiled
      <4> QED BY <1>1, <3>1, <4>1 DEF AnswersOf, Heard
    <3>2. CASE i = Len(inbound) + 1
      BY <1>1, <3>2
    <3> QED BY <1>1, <3>1, <3>2
  <2>2. ASSUME NEW e \in received_messages
        PROVE  AnswersOf(e[2], e[1])'
    BY <2>2 DEF ReplyInv, AnswersFiled, AnswersOf, Heard
  <2> QED BY <2>1, <2>2 DEF AnswersFiled, AnswersOf, Heard
<1>3. ASSUME m.of \in Numbered, m.type = "not_ready"
      PROVE  /\ \A i \in DOMAIN inbound : inbound[i].of # m.of
             /\ \A e \in received_messages : e[2].of # m.of
             /\ slot[m.of] \in {None, Canceled} /\ ~Waiting(m.of)
  BY <1>3 DEF ReplyInv, AnswersFiled, AnswersOf, HeardFirst
<1>4. NotReadyFirst'
  <2> SUFFICES ASSUME NEW r \in Numbered
               PROVE
          /\ \A i \in DOMAIN inbound' : IsNotReady(inbound'[i], r) =>
                /\ \A j \in DOMAIN inbound' : inbound'[j].of = r => i <= j
                /\ \A e \in received_messages : e[2].of # r
                /\ slot[r] \in {None, Canceled} /\ ~Waiting(r)
          /\ \A e \in received_messages : IsNotReady(e[2], r) =>
                slot[r] \in {None, Canceled} /\ ~Waiting(r)
          /\ slot[r] # None /\ slot[r].type = "not_ready" => ~Waiting(r)
    BY DEF NotReadyFirst, IsNotReady, Waiting
  <2>1. ASSUME NEW i \in DOMAIN inbound', IsNotReady(inbound'[i], r)
        PROVE  /\ \A j \in DOMAIN inbound' : inbound'[j].of = r => i <= j
               /\ \A e \in received_messages : e[2].of # r
               /\ slot[r] \in {None, Canceled} /\ ~Waiting(r)
    <3>1. CASE i \in DOMAIN inbound
      <4>1. /\ \A j \in DOMAIN inbound : inbound[j].of = r => i <= j
            /\ \A e \in received_messages : e[2].of # r
            /\ slot[r] \in {None, Canceled} /\ ~Waiting(r)
        BY <1>1, <2>1, <3>1 DEF ReplyInv, NotReadyFirst
      <4> QED BY <1>1, <3>1, <4>1
    <3>2. CASE i = Len(inbound) + 1
      <4>1. m.of = r /\ m.type = "not_ready"
        BY <1>1, <2>1, <3>2 DEF IsNotReady
      <4> QED BY <1>1, <1>3, <3>2, <4>1
    <3> QED BY <1>1, <3>1, <3>2
  <2> QED BY <2>1 DEF ReplyInv, NotReadyFirst
<1>5. /\ \A q \in Numbered : InStream(q) => InStream(q)'
      /\ \A q \in Numbered : m.of = q /\ m.type # "not_ready" => InStream(q)'
  BY <1>1 DEF InStream
<1> QED BY <1>2, <1>4, <1>5

\* The sink, the broker and the network lose no answer.
LEMMA OtherReplies ==
    ASSUME TypeOK, RoutingInv, ReplyInv, NoReplyLost,
           \/ \E c \in Consumers : TakeError(c)
           \/ DropConnection \/ SinkWrite \/ SinkCloses \/ AnswerChallenge \/ Broker
    PROVE  ReplyInv' /\ NoReplyLost'
<1>a. UNCHANGED <<pc, key, slot, registrations, pending_requests, received_messages, polling>>
  BY DEF TakeError, DropConnection, SinkWrite, SinkCloses, AnswerChallenge, Broker,
         BrokerReply, BrokerSends, SocketCloses, caller, maps
<1>b. \A q \in Req : Early(q)' => Early(q)
  BY <1>a DEF Early
<1>c. ParkedAlone' /\ Somewhere'
  BY <1>a DEF ReplyInv, ParkedAlone, Somewhere, Pending, Queued, Receiving
<1>d. ASSUME NEW q \in Req, Kind[q] # "ping", broker[q] = "answered", Receiving',
             pc'[q] \in {"wait", "excl", "excl_wait"}, InStream(q) => InStream(q)'
      PROVE  OnItsWay(q)'
  <2>1. Delivered(q) \/ InStream(q) \/ (Parked(q) /\ Collects(q))
    BY <1>a, <1>d, OnItsWayIs DEF NoReplyLost, Receiving
  <2>2. /\ Delivered(q) => Delivered(q)'
        /\ Parked(q) /\ Collects(q) => Parked(q)' /\ Collects(q)'
    BY <1>a DEF Delivered, Parked, Collects, Queued
  <2> QED BY <1>d, <2>1, <2>2, OnItsWayIs
<1>1. ASSUME WrittenOnce', inbound' = inbound,
             \A q \in Req : broker'[q] # broker[q] => broker[q] = "unasked" /\ broker'[q] = "asked"
      PROVE  ReplyInv' /\ NoReplyLost'
  <2>1. \A q \in Numbered : Heard(q) => Heard(q)' /\ key'[q] = key[q]
    BY <1>a, <1>1 DEF Heard, Numbered
  <2>2. AnswersFiled'
    BY <1>a, <1>1, <2>1, KeptAnswers DEF ReplyInv
  <2>3. HeardFirst' /\ NotReadyFirst'
    BY <1>a, <1>1, <2>1 DEF ReplyInv, HeardFirst, NotReadyFirst, IsNotReady, Waiting
  <2>4. NoReplyLost'
    <3>1. \A q \in Req : broker'[q] = "answered" => broker[q] = "answered"
      BY <1>1
    <3>2. \A q \in Req : InStream(q) => InStream(q)'
      BY <1>1 DEF InStream
    <3> QED BY <1>d, <3>1, <3>2 DEF NoReplyLost
  <2> QED BY <1>c, <1>1, <2>2, <2>3, <2>4 DEF ReplyInv
<1>2. CASE (\E c \in Consumers : TakeError(c)) \/ DropConnection \/ SocketCloses
  <2>1. UNCHANGED <<control, data, broker, inbound>>
    BY <1>2 DEF TakeError, DropConnection, SocketCloses, env
  <2> QED BY <1>b, <1>1, <2>1, NothingWritten DEF ReplyInv
<1>3. CASE SinkWrite
  BY <1>1, <1>3, SinkWritesOnce DEF ReplyInv, SinkWrite
<1>4. CASE SinkCloses
  <2>1. WrittenOnce'
    BY <1>4, <1>a DEF SinkCloses, SinkExits, env, ReplyInv, WrittenOnce, InChannels
  <2> QED BY <1>1, <1>4, <2>1 DEF SinkCloses, env
<1>5. CASE AnswerChallenge
  <2>1. UNCHANGED <<data, broker, inbound>> /\ control' \in {control, Append(control, "auth_response")}
    BY <1>5 DEF AnswerChallenge, env
  <2>2. WrittenOnce'
    BY <1>b, <2>1, NothingWritten, ControlWritten, ConnectionAssumption DEF ReplyInv
  <2> QED BY <1>1, <2>1, <2>2
<1>6. CASE BrokerSends
  <2>1. UNCHANGED <<control, data, broker>>
    BY <1>6 DEF BrokerSends
  <2>2. WrittenOnce'
    BY <1>b, <2>1, NothingWritten DEF ReplyInv
  <2>3. PICK t, c : inbound' = Append(inbound, Msg(t, None, None, c))
    BY <1>6 DEF BrokerSends, Send
  <2>4. PICK m : m = Msg(t, None, None, c)
    OBVIOUS
  <2>5. m.of \notin Numbered
    BY <2>4, ConnectionAssumption DEF Msg, Numbered
  <2>6. /\ AnswersFiled' /\ NotReadyFirst'
        /\ \A q \in Numbered : InStream(q) => InStream(q)'
    BY <1>a, <2>1, <2>3, <2>4, <2>5, StreamGrows DEF Heard
  <2>7. HeardFirst'
    BY <1>a, <2>1 DEF ReplyInv, HeardFirst, Heard, Waiting
  <2>8. NoReplyLost'
    BY <1>d, <2>1, <2>6 DEF NoReplyLost, Numbered
  <2> QED BY <1>c, <2>2, <2>6, <2>7, <2>8 DEF ReplyInv
<1>7. ASSUME NEW r \in Req, BrokerReply(r)
      PROVE  ReplyInv' /\ NoReplyLost'
  <2>1. PICK t \in Replies \cup {"pong"} :
           /\ inbound' = Append(inbound, Reply(r, t))
           /\ broker' = [broker EXCEPT ![r] = IF t = "not_ready" THEN "queued" ELSE "answered"]
           /\ broker[r] \in {"asked", "queued"}
           /\ t = "not_ready" => broker[r] = "asked"
           /\ Kind[r] # "ping" => t \in Replies
           /\ UNCHANGED <<control, data>>
    BY <1>7 DEF BrokerReply, Send, Replies
  <2>2. \A q \in Req : broker'[q] = IF q = r THEN IF t = "not_ready" THEN "queued" ELSE "answered"
                                              ELSE broker[q]
    BY <2>1 DEF TypeOK, BrokerOK
  <2>3. WrittenOnce'
    BY <1>a, <2>1, <2>2 DEF ReplyInv, WrittenOnce, InChannels
  <2>4. PICK m : m = Reply(r, t)
    OBVIOUS
  <2>5. m.of = r /\ m.key = key[r] /\ m.type = t
    BY <2>4 DEF Reply, Msg
  <2>6. Kind[r] # "ping" => key[r] # None
    <3>1. pc[r] # "idle"
      BY <2>1 DEF ReplyInv, WrittenOnce
    <3> QED BY <3>1 DEF RoutingInv, KeysFresh
  <2>7. \A q \in Numbered : Heard(q) => Heard(q)'
    BY <2>2 DEF Heard, Numbered
  <2>8. m.of \in Numbered => /\ m.key = key[m.of] /\ m.key # None /\ m.type \in Replies
                             /\ broker'[m.of] \in {"queued", "answered"}
                             /\ m.type = "not_ready" => ~Heard(m.of)
    BY <2>1, <2>2, <2>5, <2>6 DEF Numbered, Heard
  <2>9. /\ AnswersFiled' /\ NotReadyFirst'
        /\ \A q \in Numbered : InStream(q) => InStream(q)'
        /\ \A q \in Numbered : m.of = q /\ m.type # "not_ready" => InStream(q)'
    BY <1>a, <2>1, <2>4, <2>7, <2>8, StreamGrows
  <2>10. HeardFirst'
    BY <1>a, <2>7 DEF ReplyInv, HeardFirst, Waiting
  <2>11. NoReplyLost'
    <3> SUFFICES ASSUME NEW q \in Req, Kind[q] # "ping", broker'[q] = "answered", Receiving',
                        pc'[q] \in {"wait", "excl", "excl_wait"}
                 PROVE  OnItsWay(q)'
      BY DEF NoReplyLost
    <3>1. CASE q = r /\ t # "not_ready"
      BY <2>5, <2>9, <3>1, OnItsWayIs DEF Numbered
    <3>2. CASE q = r /\ t = "not_ready"
      BY <2>2, <3>2
    <3>3. CASE q # r
      BY <1>d, <2>2, <2>9, <3>3 DEF Numbered
    <3> QED BY <3>1, <3>2, <3>3
  <2> QED BY <1>c, <2>3, <2>9, <2>10, <2>11 DEF ReplyInv
<1> QED BY <1>2, <1>3, <1>4, <1>5, <1>6, <1>7 DEF Broker

\* Nothing is asked at the start.
LEMMA InitReplies == Init => ReplyInv /\ NoReplyLost
BY DEF Init, ReplyInv, WrittenOnce, InChannels, AnswersFiled, HeardFirst, ParkedAlone,
       NotReadyFirst, Somewhere, Waiting, Numbered, NoReplyLost

\* While the Receiver lives, the answer to a call that still waits for it is
\* in its oneshot, in the stream, or parked where the call will collect it
\* (Receiver::poll, retry_create_producer, wait_exclusive_access).
THEOREM RepliesReachTheirCaller == Spec => []NoReplyLost
<1> DEFINE Inv == /\ TypeOK /\ RoutingInv /\ RepliesMatch /\ ResolverInv
                  /\ ReplyInv /\ NoReplyLost
<1>1. Init => Inv
  BY InitTypeOK, InitRouting, InitResolvers, InitReplies
<1>2. Inv /\ [Next]_vars => Inv'
  <2> SUFFICES ASSUME Inv, [Next]_vars PROVE Inv'
    OBVIOUS
  <2>1. TypeOK' /\ RoutingInv' /\ RepliesMatch' /\ ResolverInv'
    BY NextTypeOK, NextRouting, NextResolvers
  <2>2. CASE UNCHANGED vars
    <3>1. AnswersFiled'
      BY <2>2, KeptAnswers DEF ReplyInv, Heard, vars, caller, maps, env
    <3>2. /\ WrittenOnce' /\ HeardFirst' /\ ParkedAlone' /\ NotReadyFirst' /\ Somewhere'
      BY <2>2 DEF ReplyInv, vars, caller, maps, env, WrittenOnce, InChannels, HeardFirst, Heard,
         Waiting, ParkedAlone, NotReadyFirst, IsNotReady, Somewhere, Pending, Queued, Receiving
    <3>3. NoReplyLost'
      BY <2>2 DEF vars, caller, maps, env, NoReplyLost, OnItsWay, Receiving
    <3> QED BY <2>1, <3>1, <3>2, <3>3 DEF ReplyInv
  <2>3. CASE Next
    BY <2>1, <2>3, CallerReplies, CallerLosesNothing, ReceiverReplies, OtherReplies DEF Next
  <2> QED BY <2>1, <2>2, <2>3
<1> QED BY <1>1, <1>2, PTL DEF Spec

-----------------------------------------------------------------------------
(* A call that waits for its oneshot is answered, or its resolver is owned. *)

\* Whoever awaits a oneshot has its value, or the live Receiver owns the
\* resolver, queued or stored: dropping the Receiver then frees the caller.
Backed(r) == slot[r] # None \/ (Receiving /\ Owned(r))

NoCallerForgotten ==
    \A r \in Req : pc[r] \in {"enqueue", "wait", "excl_wait"} => Backed(r)

LEMMA CallerBacked ==
    ASSUME TypeOK, NoCallerForgotten, NEW r \in Req, Caller(r)
    PROVE  NoCallerForgotten'
<1> USE DEF caller, maps, tasks, env
<1>a. /\ registrations \in Seq(Registers) /\ DOMAIN pc = Req /\ DOMAIN slot = Req
      /\ pc = [q \in Req |-> pc[q]] /\ slot = [q \in Req |-> slot[q]]
  <2>1. registrations \in Seq(Registers)
    BY DEF TypeOK, ChannelsOK
  <2>2. /\ pc \in [Req -> {"idle", "register", "enqueue", "wait", "excl", "excl_wait", "done"}]
        /\ slot \in [Req -> Messages \cup {None}]
    BY DEF TypeOK, CallersOK
  <2> QED BY <2>1, <2>2
<1>b. UNCHANGED <<polling, pending_requests, ping>> /\ \A q \in Req \ {r} : slot'[q] = slot[q] /\ pc'[q] = pc[q]
  BY <1>a
     DEF Caller, Enqueue, RegisterConsumer, RegisterRequest, RegisterPing, EnqueueControl,
         EnqueueData, Return, ReturnCanceled, Timeout, RegisterExclusive, Finish
<1>1. ASSUME NEW g, registrations' \in {registrations, Append(registrations, g)}, NEW q \in Req,
             Backed(q), slot'[q] = slot[q]
      PROVE  Backed(q)'
  <2>1. \A i \in DOMAIN registrations :
          i \in DOMAIN registrations' /\ registrations'[i] = registrations[i]
    BY <1>a, <1>1
  <2> QED BY <1>b, <1>1, <2>1 DEF Backed, Receiving, Owned
<1>2. PICK g : registrations' \in {registrations, Append(registrations, g)}
  BY DEF Caller, Enqueue, RegisterConsumer, RegisterRequest, RegisterPing, EnqueueControl,
         EnqueueData, Return, ReturnCanceled, Timeout, RegisterExclusive
<1>3. \A q \in Req \ {r} : pc'[q] \in {"enqueue", "wait", "excl_wait"} => Backed(q)'
  BY <1>1, <1>2, <1>b DEF NoCallerForgotten
<1>4. ASSUME NEW t, NEW k, Receiving,
             registrations' = Append(registrations, Register(t, k, r, None))
      PROVE  Backed(r)'
  <2>1. /\ Len(registrations) + 1 \in DOMAIN registrations'
        /\ registrations'[Len(registrations) + 1] = Register(t, k, r, None)
    BY <1>a, <1>4
  <2>2. Register(t, k, r, None).req = r
    BY DEF Register
  <2> QED BY <1>b, <1>4, <2>1, <2>2 DEF Backed, Receiving, Owned
<1>5. pc'[r] \in {"enqueue", "wait", "excl_wait"} => Backed(r)'
  <2>1. CASE RegisterConsumer(r)
    BY <2>1, <1>a DEF RegisterConsumer, Finish
  <2>2. CASE RegisterRequest(r)
    BY <2>2, <1>a, <1>4 DEF RegisterRequest, Finish
  <2>3. CASE RegisterPing(r)
    BY <2>3, <1>a, <1>4 DEF RegisterPing, Finish
  <2>4. CASE Enqueue(r)
    <3>1. pc[r] = "enqueue" /\ slot' = slot
      BY <2>4 DEF Enqueue, EnqueueControl, EnqueueData
    <3> QED BY <3>1, <1>1, <1>2 DEF NoCallerForgotten
  <2>5. CASE Return(r) \/ ReturnCanceled(r) \/ Timeout(r)
    BY <2>5, <1>a DEF Return, ReturnCanceled, Timeout, Finish
  <2>6. CASE RegisterExclusive(r)
    BY <2>6, <1>a, <1>4 DEF RegisterExclusive, Finish
  <2> QED BY <2>1, <2>2, <2>3, <2>4, <2>5, <2>6 DEF Caller
<1> QED BY <1>3, <1>5 DEF NoCallerForgotten

\* Reading a registration stores its resolver or resolves it; a resolver that
\* is replaced cancels its call.
LEMMA RegistrationBacked ==
    ASSUME TypeOK, PollRegistration, NEW r \in Req, Backed(r)
    PROVE  Backed(r)'
<1> DEFINE g    == Head(registrations)
           msgs == Get(received_messages, g.key)
<1>a. Canceled # None /\ polling' = polling /\ Receiving'
  BY CanceledType, MessageAssumption DEF PollRegistration, Receiving
<1>b. /\ g \in Registers /\ registrations' = Tail(registrations)
      /\ 1 \in DOMAIN registrations /\ g = registrations[1]
      /\ \A i \in DOMAIN registrations : i # 1 =>
           i - 1 \in DOMAIN registrations' /\ registrations'[i - 1] = registrations[i]
  BY Takes, TailAt DEF PollRegistration, TypeOK, ChannelsOK
<1>c. g.type \in {"request", "ping", "consumer", "remove"} /\ (g.req \in Req => g.type \in {"request", "ping"})
  BY <1>b, ConnectionAssumption DEF Registers
<1>d. \A m \in msgs : m # None
  BY MessageAssumption DEF Get, TypeOK, ReceiverOK
<1>e. slot[r] # None => slot'[r] # None
  BY <1>c DEF PollRegistration, Resolve
<1>1. CASE slot[r] # None
  BY <1>1, <1>e DEF Backed
<1>2. CASE slot[r] = None
  <2>a. Owned(r) /\ slot \in [Req -> Messages \cup {None}]
    BY <1>2 DEF Backed, TypeOK, CallersOK
  <2>b. (\E i \in DOMAIN registrations : i # 1 /\ registrations[i].req = r) => Backed(r)'
    BY <1>a, <1>b DEF Backed, Owned
  <2>1. CASE g.type = "request" /\ msgs # {}
    <3> DEFINE m == CHOOSE x \in msgs : TRUE
    <3>1. m # None
      BY <1>d, <2>1
    <3>2. /\ Resolve([q \in Req |-> IF q = g.req THEN m ELSE None])
          /\ UNCHANGED <<pending_requests, ping>>
      BY <2>1 DEF PollRegistration
    <3> HIDE DEF m, g
    <3>3. r = g.req => slot'[r] # None
      BY <1>2, <3>1, <3>2 DEF Resolve
    <3>4. r # g.req => Backed(r)'
      BY <1>a, <1>b, <2>a, <2>b, <3>2 DEF Backed, Owned
    <3> QED BY <3>3, <3>4 DEF Backed
  <2>2. CASE g.type = "request" /\ msgs = {}
    <3>1. /\ Resolve([q \in Req |-> IF q \in Get(pending_requests, g.key) THEN Canceled ELSE None])
          /\ pending_requests' = Put(pending_requests, g.key, g.req)
          /\ ping' = ping
      BY <2>2 DEF PollRegistration
    <3> HIDE DEF g
    <3>2. r \in Get(pending_requests, g.key) => slot'[r] # None
      BY <1>2, <1>a, <3>1 DEF Resolve
    <3>3. ASSUME NEW e \in pending_requests, e[2] = r, r \notin Get(pending_requests, g.key)
          PROVE  e \in pending_requests'
      BY <3>1, <3>3 DEF Get, Put
    <3>4. r = g.req => \E e \in pending_requests' : e[2] = r
      <4>1. <<g.key, g.req>> \in pending_requests'
        BY <3>1 DEF Put
      <4>2. <<g.key, g.req>>[2] = g.req
        OBVIOUS
      <4> QED BY <4>1, <4>2
    <3> QED BY <1>a, <1>b, <2>a, <2>b, <3>1, <3>2, <3>3, <3>4 DEF Backed, Owned
  <2>3. CASE g.type = "ping"
    <3>1. /\ Resolve([q \in Req |-> IF q = ping THEN Canceled ELSE None])
          /\ ping' = g.req
          /\ UNCHANGED pending_requests
      BY <2>3 DEF PollRegistration
    <3> HIDE DEF g
    <3>2. r = ping => slot'[r] # None
      BY <1>2, <1>a, <3>1 DEF Resolve
    <3> QED BY <1>a, <1>b, <2>a, <2>b, <3>1, <3>2 DEF Backed, Owned
  <2>4. CASE g.type \in {"consumer", "remove"}
    <3>1. UNCHANGED <<slot, pending_requests, ping>>
      BY <2>4 DEF PollRegistration
    <3>2. r # g.req
      BY <1>c, <2>4
    <3> HIDE DEF g
    <3> QED BY <1>a, <1>b, <2>a, <2>b, <3>1, <3>2 DEF Backed, Owned
  <2> HIDE DEF g, msgs
  <2> QED BY <1>c, <2>1, <2>2, <2>3, <2>4
<1> QED BY <1>1, <1>2

\* A reply or a pong takes a resolver out of its map only to resolve it.
LEMMA InboundBacked ==
    ASSUME TypeOK, PollInbound, NEW r \in Req, Backed(r)
    PROVE  Backed(r)'
<1> DEFINE m == Head(inbound)
<1>a. m # None /\ polling' = polling /\ registrations' = registrations
  BY Takes, MessageAssumption DEF PollInbound, TypeOK, ChannelsOK
<1>b. RouteReply(m) \/ RouteConsumer(m) \/ RoutePing(m) \/ RoutePong(m) \/ RouteChallenge(m)
  BY DEF PollInbound
<1> HIDE DEF m
<1>1. CASE RouteReply(m)
  <2> DEFINE to == Get(pending_requests, m.key)
  <2>1. CASE to # {}
    <3>1. /\ Resolve([q \in Req |-> IF q \in to THEN m ELSE None])
          /\ pending_requests' = Del(pending_requests, m.key)
          /\ ping' = ping
      BY <1>1, <2>1 DEF RouteReply
    <3>2. r \in to => slot'[r] # None
      BY <1>a, <3>1 DEF Resolve
    <3>3. slot[r] # None => slot'[r] # None
      BY <3>1 DEF Resolve
    <3>4. ASSUME NEW e \in pending_requests, e[2] = r, r \notin to
          PROVE  e \in pending_requests'
      BY <3>1, <3>4 DEF Get, Del
    <3> QED BY <1>a, <3>1, <3>2, <3>3, <3>4 DEF Backed, Owned, Receiving
  <2>2. CASE to = {}
    BY <1>1, <1>a, <2>2 DEF RouteReply, Backed, Owned, Receiving
  <2> QED BY <2>1, <2>2
<1>2. CASE RoutePong(m)
  <2>1. /\ Resolve([q \in Req |-> IF q = ping THEN m ELSE None])
        /\ UNCHANGED pending_requests
    BY <1>2 DEF RoutePong
  <2>2. (r = ping \/ slot[r] # None) => slot'[r] # None
    BY <1>a, <2>1 DEF Resolve
  <2> QED BY <1>a, <2>1, <2>2 DEF Backed, Owned, Receiving
<1>3. CASE RouteConsumer(m) \/ RoutePing(m) \/ RouteChallenge(m)
  BY <1>3, <1>a DEF RouteConsumer, RoutePing, RouteChallenge, maps, Backed, Owned, Receiving
<1> QED BY <1>b, <1>1, <1>2, <1>3

LEMMA ReceiverBacked ==
    ASSUME TypeOK, NoCallerForgotten, Receiver
    PROVE  NoCallerForgotten'
<1>a. pc' = pc
  BY DEF Receiver, PollStart, PollRegistration, PollRegistrationsDone, PollInbound,
         PollInboundDone
<1> SUFFICES ASSUME NEW r \in Req, Backed(r) PROVE Backed(r)'
  BY <1>a DEF NoCallerForgotten
<1>1. CASE ReceiverExits
  <2>1. Canceled # None
    BY CanceledType, MessageAssumption
  <2> QED BY <1>1, <2>1 DEF ReceiverExits, Backed
<1>2. CASE UNCHANGED <<slot, registrations, maps>> /\ Receiving /\ Receiving'
  BY <1>2 DEF maps, Backed, Owned
<1>3. CASE PollRegistration
  BY <1>3, RegistrationBacked
<1>4. CASE PollInbound
  BY <1>4, InboundBacked
<1> QED
  BY <1>1, <1>2, <1>3, <1>4
     DEF Receiver, PollStart, PollRegistrationsDone, PollInboundDone, Receiving

\* No call waits for a oneshot that nobody can resolve any more: it has its
\* value, or the live Receiver owns the resolver (Receiver::poll, whose drop
\* cancels the resolvers it owns).  It is what DeadReceiverFreesCallers rests
\* on.
THEOREM CallersAlwaysBacked == Spec => []NoCallerForgotten
<1>1. Init => NoCallerForgotten
  BY DEF Init, NoCallerForgotten
<1>2. TypeOK /\ NoCallerForgotten /\ [Next]_vars => NoCallerForgotten'
  <2> SUFFICES ASSUME TypeOK, NoCallerForgotten, [Next]_vars PROVE NoCallerForgotten'
    OBVIOUS
  <2>1. CASE \/ UNCHANGED vars
             \/ \E c \in Consumers : TakeError(c)
             \/ DropConnection \/ SinkWrite \/ SinkCloses \/ AnswerChallenge \/ Broker
    <3>1. UNCHANGED <<pc, slot, polling, registrations, pending_requests, ping>>
      BY <2>1 DEF TakeError, DropConnection, SinkWrite, SinkCloses, AnswerChallenge, Broker,
                  BrokerReply, BrokerSends, SocketCloses, vars, caller, maps
    <3> QED BY <3>1 DEF NoCallerForgotten, Backed, Owned, Receiving
  <2> QED BY <2>1, CallerBacked, ReceiverBacked DEF Next
<1> QED BY <1>1, <1>2, InitTypeOK, NextTypeOK, PTL DEF Spec
===============================================================================
