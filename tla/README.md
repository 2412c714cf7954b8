# A TLA+ verification of pulsar-rdg-rs

TLA+ models of the Apache Pulsar client in `src/`: what its tasks do to the
state they share, checked with TLC on small instances, and theorems about them
checked with TLAPS for every value of their parameters. `PROJECT.json` maps
every definition to the lines it models and lists the hazards the properties
are aimed at.

## The system

| Component | State | Operations | Talks to |
|---|---|---|---|
| Connection (`connection.rs`) | request and sequence ids, `pending_requests`, `received_messages`, `consumers`, `ping`, two outbound channels, `SharedError` | requests, sends, `subscribe`, `close_consumer`, `send_ping`, `wait_exclusive_access`; the Receiver, sink and authentication tasks; `Connection::new` over the resolved addresses | callers by oneshots, the broker by a TCP stream |
| Connection manager (`connection_manager.rs`) | one `ConnectionStatus` per address | `get_connection`, `check_connections`, a keep-alive task per connection | everybody who needs a connection |
| Batching producer (`producer.rs`) | `BatchStorage`, two bounded channels, a timer | `send`, `send_batch`, `close`, drop; `batch_process_loop`, `message_send_loop` | a connection |
| Unbatched producer (`producer.rs`) | connection, sequence id | `send_message` with reconnection, the receipt tasks, `close`, drop | a connection, lookup |
| Partitioned and multi-topic producers (`producer.rs`, `routing_policy.rs`) | producers by partition or topic, round-robin index, count of sends | routing, partition refresh, `close_producer` | topic producers |
| Consumer (`consumer/engine.rs`, `consumer/topic.rs`) | permits, `unacked_messages`, event queue, queue to the user | receive, ack, nack, seek, close; engine, forwarding tasks, redelivery ticker | user, connection, dead letter producer |
| Multi-topic consumer (`consumer/multi.rs`, `consumer/mod.rs`, `consumer/builder.rs`) | consumers by topic, polling queue, refresh timer and future | poll, refresh, removal, seek, close | topic consumers, lookup |
| Reader (`reader.rs`) | the pending acknowledgement | a stream over one consumer | consumer |
| Service discovery (`service_discovery.rs`) | none between calls | lookups with redirects and retries | connection manager |
| Operation retry (`retry_op.rs`) | a retry count | subscribe and create with retries | service discovery |
| Client (`client.rs`) | the channel to `run_producer` | `send`, builders, drop | multi-topic producer |
| Authentication (`authentication/`) | OAuth2 token cache | `auth_data`, `initialize` | connection, admin client |
| Admin client (`admin/`) | none of its own; the shared authentication | about three hundred operations, each one HTTP request with redirects | REST endpoints |
| Codec, batch iterator (`message.rs`, `consumer/batched_message_iterator.rs`) | none | framing, checksums, unpacking | connection, engine |
| Executor, compression, error types | configuration | adapters | all |

What is hard here: every component is a few tasks joined by channels, and an
`.await` may separate a look at shared state from the use of it. Answers,
registrations, timers, cancellations and the end of the socket meet in any
order, brokers move partitions and redirect while calls retry, and timed-out
work may still be carried out. The hazards in `PROJECT.json` list the places.

What makes each part correct:

* **Connection**: an answer reaches the call it belongs to and no other; no
  answer is lost; every call ends; a dead connection is known to be dead and a
  live one is not taken for dead.
* **Connection manager**: no waiter is forgotten; a pending connection is
  always being worked on; retries are bounded and every call returns.
* **Producers**: a message is written at most once and settled at most once,
  receipts tell the truth, flush and close mean what they say, the timer
  covers every batch, reconnection never reorders.
* **Opening** (lookup, retry, builders): a query goes where the last answer
  said; retries keep to their budget and end; what is handed out is registered;
  a failed build leaves nothing open but what a redelivery ticker keeps.
* **Routing**: a key keeps its partition, round robin is even, calls keep
  their order, every send is answered.
* **Consumer**: the engine never starves the broker of permits; a message is
  acknowledged only when it was handled; the consumer survives the loss of its
  connection, also when another consumer takes the connection's error first, and
  ends when it is dropped.
* **Multi-topic consumer**: queue and map agree, no topic starves, every topic
  that exists is found.
* **Admin and authentication**: no request is sent in place of another; what a
  call reports is what happened; no dead token is used; nobody holds the
  authentication mutex for ever in a way that stops the others.

## Modules

| Module | Models |
|---|---|
| `Connection` | `Receiver::poll`, `ConnectionSender`, the tasks of `Connection::connect`, `SharedError` |
| `ConnectionManager` | the status of one address, calls of `get_connection`, keep-alives, `check_connections` |
| `ProducerLog` | abstract: what a producer promises its user |
| `BatchProducer` | a batching `TopicProducer` and its two tasks; implements `ProducerLog` |
| `SingleProducer` | an unbatched `TopicProducer` over several connections; implements `ProducerLog` |
| `Opening` | builders, lookups and operation retries over partitions that move |
| `Routing` | `Pulsar::send`, `run_producer`, `MultiTopicProducer`, `PartitionedProducer`, the Java hash |
| `ConsumerEngine` | `ConsumerEngine`, `TopicConsumer`, the forwarding tasks, the ticker, the broker's permits |
| `MultiConsumer` | `MultiTopicConsumer` with its refresh timer and future |
| `AdminApi` | verb and path of every admin operation, as tables, and what they must satisfy |
| `Admin` | admin calls with redirects, the OAuth2 cache under its mutex, the handshake over addresses |
| `MC...` | the instances TLC checks |
| `ConnectionProofs`, `ConnectionManagerProofs`, `SingleProducerProofs`, `BatchProducerProofs`, `OpeningProofs`, `RoutingProofs`, `AdminProofs` | theorems and proofs about the module of that name |
| `ConsumerProofs` | theorems and proofs about `ConsumerEngine` and `MultiConsumer` |

The modules meet in three ways. `BatchProducer` and `SingleProducer` are both
shown to implement `ProducerLog`, which `Routing` relies on when a send to a
partition is one step that is accepted, in order, or fails. `SingleProducer`
and `MultiConsumer` take from `Opening` that re-creating and subscribing ends.
`Admin` extends `AdminApi`: its calls use rows of the tables.

State and actions correspond to the code as follows.

* `Connection`. A member of `Req` is one call, `Kind` says which. `slot[r]` is
  its oneshot: empty, resolved, or `Canceled` because the resolver was dropped.
  A call registers (`Register...`), enqueues (`Enqueue...`) and waits
  (`Return`, `ReturnCanceled`, `Timeout`) in separate steps. `Receiver::poll`
  is cut where other tasks can interleave with it on another thread: the
  shutdown check, each registration, each inbound message. The maps are sets
  of pairs. The broker answers, refuses or ignores every request, at any time,
  and sends commands of its own; each of its messages carries, as an auxiliary
  field no handler reads, the call it answers. A `CloseProducer` of the broker
  is a reply nobody waits for.
* `ConnectionManager`. One address. A critical section of the lock is a step.
  A call dials at most one connection, named after the call. `Cancel` drops
  the future of a call at an await.
* `BatchProducer`. Messages and flushes are numbered. A bounded channel of
  `futures` accepts the item of a sender that is not parked and then parks the
  sender until the queue is back to the buffer: an item is appended in one
  step and the call returns in another. The reconnection inside `send_message`
  is a step that succeeds or fails. The broker writes a batch when it is sent,
  or after its send was given up, or never.
* `SingleProducer`. A connection is the stream of commands the broker has
  still to read, so commands on an old connection may be read long after a new
  one is in use; `home` is the one connection the producer is registered on.
  `Enqueued`, `Refused`, `CloseOld`, `Connect`, `Created` and `ReconnectFails`
  are the branches of `send_message`'s loop, one per await; `Receipt...` are
  the spawned tasks that await receipts. A timed-out receipt poisons its
  connection, which later sends find out. The connection that is left may stay
  open, because others hold it, or close.
* `Opening`. `lk[t]` is a `lookup_topic` call with its `conn`, address,
  authority, retry count and elapsed time; `op[t]` a `retry_create_producer` or
  `retry_subscribe_consumer`. `phase` follows the two `try_join_all` barriers
  of `build`. The broker owns, releases and moves partitions, answers, answers
  late, refuses (retryable or fatal), or loses the connection. An owner may be
  busy as often as it likes, and may make a producer wait for
  exclusive access and never grant it. `kind` is what is opened: producers, or
  consumers, with or without a redelivery delay. A consumer with a delay is `"kept"` when it is dropped: its ticker holds a sender to the engine
  (`consumer/topic.rs:94`), which stays subscribed until a message comes. A
  batching producer closes over the connection it was made on
  (`producer.rs:1246`); nothing has reconnected before `build` returns, so
  that is its connection.
* `Routing`. `run_producer` handles one send at a time: `building` covers the
  construction of a `Producer` for a new topic, `sending` the refresh check and
  the choice, `refreshing` the lookup of the number of partitions, which begins
  after the interval has been started anew (`producer.rs:698`), and `routing` the
  choice after it. The Java hash is computed on 31 bits kept in
  two halves, so no product leaves 32-bit integers, and is checked against
  golden vectors of `routing_policy_java_vectors.rs` by an `ASSUME`.
* `ConsumerEngine`. Entries hold `Batch[e]` messages. Every `.await` of the
  engine separates two steps. Subscriptions are numbered, and messages of an
  old one may still be on their way when a new one begins. `flag` is the
  connection's `SharedError`, which the engine of another consumer (`neighbour`)
  may share. Whoever reads the error takes it away (`engine.rs:182`), and then
  closes its own consumer, which on a connection without a Receiver sets the
  error again (`connection.rs:741`): that is how the other engine learns of it.
  `Init` takes one of `Setups`: a redelivery delay, a neighbour, or calls that ask
  the engine for its connection.
* `MultiConsumer`. `existing` is the queue `poll_next` goes round, `consumers`
  the map, `pending` the future of a refresh. `poll_next` is one step: the
  timer, the future, the round and its removals in the order of the code.
  The future remembers the topics known when it was made. `MultiInit`,
  `MultiNext`, `MultiSpec` and `Nothing` are named apart from what
  `ConsumerEngine` calls `Init`, `Next`, `Spec` and `None`, so that one module
  may extend both.
* `AdminApi`. One row per operation: verb and path segments, `"{}"` a segment
  the caller names. `SentByMany` computes which requests several operations
  send, and is compared with the variants the code documents.
* `Admin`. A hop takes the mutex, reads or fetches a token, sends, and
  interprets the answer; `late` holds requests whose call has timed out and
  which a host may still execute. The handshake of a connection takes the same
  mutex for each address under a timeout that drops the attempt. The
  authentication task of an open connection (`"challenge"`, `connection.rs:1526`)
  takes it without any deadline.

## Runs

Passing runs (parts of a conjunction in parentheses; each part is a definition
of its own in the module):

| Run | Shows |
|---|---|
| `conn_safety` | any two of six calls (two pipelined sends, subscribe, close, two pings, which may overlap), a command of the broker's own, a data channel of one slot: `TypeOK`, `RepliesMatch`, `FlagTellsTruth` (`DisconnectedMeansDown`, `DownIsFlagged`), `NoMessageLost` |
| `conn_live` | any two of a producer queued for exclusive access, a ping and two sends that block on a full data channel: `NoReplyLost`, `EveryCallReturns`, `DeadReceiverFreesCallers` |
| `mgr_calls` | three calls that fail, retry and are dropped: `TypeOK`, `WaitersListed`, `ConnectingIsLed`, `GetsReturn` |
| `batch` | batches closed by size, bytes, flush and timer, failures, close and drop: `ReceiptsTrue` (`TypeOK`, `ReceiptsPoint`, `AckedInOrder`), `CallsSettle` (`FlushSettles`, `CloseSettles`), `Implements` (`ProducerLog`), `EveryMessageSettles`, `CallsReturn` |
| `single` | three messages pipelined over connections that break, are poisoned or closed: `LogInOrder`, `Implements` (`ProducerLog`), `EverySendSettles` |
| `opening` | two partitions opened while they move between two brokers and connections fail, as producers or consumers with or without a redelivery delay, through a proxy or not, with one retry or no limit, with owners that are busy as often as they like: `TypeOK` (includes the retry bound), `AskedRight` (`AskedWhereNamed`, `ThroughProxy`), `OpenIsServed`, `LoopsEnd` (`LookupsEnd`, `BuildEnds`), `FailureCloses` |
| `routing` | three sends through one client to a topic without partitions or with two that become three, every policy, keyed and not: `RulesKept` (`TypeOK`, `KeyOwnsPartition`, `RoundRobinEven`, `SingleStays`), `CallOrder`, `EverySendAnswered`, `DropEndsTask` |
| `cons_acks` | acks, cumulative acks, nacks, redelivery, dead letters, a reconnection: `AckedWereHandled`, `HeldAreTracked` (includes `TypeOK`) |
| `cons_live` | batches larger than `batch_size`, an unreadable entry, notices, a reconnection; with a redelivery delay, a second consumer on the connection, or a call that asks for the connection: `PermitsCover`, `DropStops`, `Reconnects` |
| `multi` | a topic by name, one by regex, one by both, that appear, fail, end and are sought: `QueueMatchesMap` (includes `MultiTypeOK`), `NoTopicStarves`, `EveryTopicFound` |
| `admin` | a setter beside a getter or a remover of one policy, a handshake, and the challenge task of an open connection, under redirects, moves, timeouts and an ageing token: `EndpointsRight` (`EndpointsDistinct`, `RemovesRouted`), `AnswersAreTrue` (`TypeOK`, `ReadsAreTrue`, `AppliedOnce`, `OkMeansApplied`), `CredentialsLive`, `CallsReturn` |

`mgr_cancel` ends in a violation of a statement the repository makes (quoted in
`findings`): a connecting call whose future is dropped leaves a `Connecting`
entry nobody works on, and a call that waits on it is stuck.

### Behaviours of the code that no property forbids

The models contain them because the code has them; a reader who changes this
code should know them.

Connections:

* Overlapping pings share one resolver slot (`connection.rs:235`): the first is
  cancelled and a healthy connection is flagged `Disconnected`. They do overlap:
  a call that waited in `connect_inner` starts a second keep-alive on the
  connection it is given (`connection_manager.rs:519`), and `check_connection` is
  public. `conn_safety` makes them; `DisconnectedMeansDown` says that a ping that
  another one overtook (`Overtaken`) is the only way to it.
* `Connection::error` (`consumer/engine.rs:182`) takes the shared error away
  for every user of the connection. A dead connection looks valid until the
  engine that took the error closes its consumer, which sets it again.
  `DownIsFlagged` therefore says that a dead connection is flagged or some
  consumer engine still holds it, and `Reconnects` that a second consumer finds
  out too.
* A send with `block_queue_if_full` waits for room without a limit: the operation
  timeout starts after it (`connection.rs:868`). `wait_exclusive_access` has no
  timeout. `EveryCallReturns` excepts both, the first for as long as the data
  channel is full and the socket open (`HeldUp`).
* A `CloseConsumer` that is read before the registration of its consumer
  (`connection.rs:287`, the FIXME there) is dropped.
* A call that fails to connect removes the entry also when it holds a valid
  connection that another call published (`connection_manager.rs:491`).

Producers:

* With `batch_timeout` alone, a user who never pauses starves the timer: the
  select prefers the channel (`producer.rs:1489`).
* `ProducerOptions::batch_byte_size` is documented as "only relevant when
  batch_size active"; the code applies it independently.
* When the creation of a producer fails for good inside `send_message`, the
  producer keeps a valid connection it is not registered on: the next message
  is sent there and not written, and fails when its receipt times out.
* `MultiTopicProducer::close_producer` (`producer.rs:331`) removes the names of
  the partitions from a map keyed by the name of the topic: the producer of a
  partitioned topic is never removed.
* The lookup of the number of partitions has no deadline. A `create` that
  `try_join_all` drops in flight may leave a registration behind, which
  `FailureCloses` excepts. `handle_retry_error` does not retry a
  `Disconnected`.
* Without `max_retries`, the default, a busy owner is asked for ever, and a
  producer waits for exclusive access without a limit (`retry_op.rs:182`).
  `BuildEnds` excepts both (`RefusedForEver`, `AccessKept`).

Consumers:

* `seek`, `close` and `has_message_available` hang when the queue to the user is
  full (`engine.rs:685`): the engine awaits room there while the user awaits
  the engine. In `cons_live` the queue has room.
* With a redelivery delay, a dropped consumer keeps its engine and its
  subscription: the ticker holds a sender (`consumer/topic.rs:94`). They end when
  a message comes for which there is nobody. `DropStops` says so, of
  `cons_live` and of every consumer with a delay; `FailureCloses` excepts the
  consumers that a failed build leaves in this state.
* One failed reconnection after a `CloseConsumer` leaves the consumer without a
  source (`engine.rs:479`), which `Reconnects` excepts.
* A cumulative ack removes one id from `unacked_messages` (`engine.rs:403`): the
  earlier ones are redelivered although acknowledged.
* A topic that is both named and matched by the regex, and appears after build,
  is found twice by one refresh, and is then polled twice a round.
* In `MultiTopicConsumer` a tick replaces a refresh that is still running;
  `seek` rebuilds only the topics the names resolved to at build; close and
  unsubscribe stop at the first consumer that fails.

Admin and authentication:

* A write redirected by 301, 302 or 303 continues as a GET: it may return `Ok`
  without having been applied. A 307 after a 303 replays the original method
  and body. `OkMeansApplied` excepts the first.
* `AdminOptions.timeout` is per hop; its documentation says it includes redirects.
* The fetch of a token has no timeout (`oauth2.rs:291`), and runs under the shared
  mutex. One that hangs, for an admin call or for the challenge task of a
  connection, blocks every other user of the authentication; a handshake is freed
  by its own timeout. `CallsReturn` excepts it (`Hung`).
* OAuth2 hands out a token that expired while its refresh was failing.
* `admin/namespaces.rs:37` says that `deduplicationSnapshotInterval` has no
  remove; there is one, which posts `null`.

Deadlock checking is off everywhere: all calls may have been made and answered,
every handle dropped and every task ended.

### Bounds

* `Connection`: `MaxCalls = 2` of the calls are made, so every pair of them
  meets, and one command of the broker's own. Routing goes wrong between two
  calls, or between a call and one such command. The call that is answered
  twice (create, then exclusive access) is in `conn_live`, without such a command
  and without authentication, which no call waits for. Safety is proved for
  any number. `DataCap = 1` makes the second send meet a full channel. The two
  sends are interchangeable, and so are the two pings, which `CallSymmetry` uses;
  no liveness property is checked under it.
* `ConnectionManager`: three calls: one at work, one that waits and one that
  comes between. One retry is the first for which the limit, the backoff and
  the give-up are all reached.
* `BatchProducer`: four messages with `batch_size = 3` and `batch_byte_size =
  2`; the first two reach the bytes together, the others only the size, and
  flush and timer cut batches anywhere. The channel to `message_send_loop` has
  its real buffer of one; the user's has none instead of ten, and both reach
  their bound (one item beyond the buffer).
* `SingleProducer`: three messages over three connections let a message be
  pipelined on one connection, fail on a second and be followed on a third; one
  call of `close`. All three properties but the liveness one are proved for any
  number.
* `Opening`: two partitions and two brokers, so each may be where the other was;
  a budget of one retry and none (unlimited); one change of owner and one fault
  (a lost connection or answer), either of which may meet every phase; a busy owner is
  no fault and has no bound; an operation timeout of one delay.
* `Routing`: one topic without partitions or with two that grow to three; one
  key whose partition changes with the growth; three sends, one refresh, one
  close. Three unkeyed sends wrap a list of two.
* `ConsumerEngine`: `batch_size = 2` with a batch of three, or 1 with a batch of
  two, makes `remaining_messages` negative; each entry may be redelivered once;
  one reconnection leaves an old and a new subscription. One tick waits in the
  queues at a time: a second changes nothing the first does not. Each behaviour of
  `cons_live` has one of the three setups; they disturb different parts of the
  engine (its end, its connection, its events).
* `MultiConsumer`: three topics, one for each way to be found; two faults
  (a failed refresh, an ended stream, a seek).
* `Admin`: two calls on one policy, two hosts, two addresses, two redirects, one
  fault, an ageing of the token in two steps (expiring, expired), and one
  challenge task, which may be challenged again and again.

### Fairness

Weak fairness only, but for one case, of what the executor and its timers do: a
woken task is polled, a timer fires. The broker, the network and the user owe
nothing, except that a user who waits for a call looks at its result, and in
`ReadingSpec` and `MultiConsumer` reads the stream when it is not busy. The sink
is fair only once the socket is closed: a write to an open socket may block for
ever. `Connection::new` ends by `connection_timeout`. The retry loops of
`retry_op.rs` end by `max_retries`; when that is `None` (the default) the
broker's refusals are assumed to end, which `Reconnects`, `EveryMessageSettles`
and `CallsReturn` of the batching producer rest on. `Opening` makes no such
assumption: brokers answer what reaches them, one way or another, and nothing
says that the number of partitions becomes known, that a busy owner relents,
that exclusive access is granted, or that a moved partition is released; what
`build` then waits for is named in `BuildEnds`. `EveryTopicFound` rests on strong
fairness of a successful refresh: a tick replaces the future of the tick before,
so lookups that always take longer than the interval would never finish. In
`Admin` nothing is asked of the token endpoint: `CallsReturn` says what a request that
hangs there does, and that the handshake, whose attempts are under a timeout,
ends even then. In `ConsumerEngine` the neighbour that has taken the error closes
its consumer, because its engine is polled; that it takes the error at all is not
assumed. In `conn_live` the broker owes no answer and need not read.

## Proofs

Each proof module extends the module it is about and proves its theorems for
every value of the constants that meets the named assumptions. They all go the
same way: the property alone is not inductive, the proof module states the
invariant that is, one lemma says what each action does to the state, one shows
that every step keeps the invariant, and the last step of a theorem is
temporal. Where induction over data would be used, a least counterexample among
the numbers takes its place (`NatMin`).

`ConnectionProofs`, for any set of calls of any kinds and any bounds, from
`ConnectionAssumption` (and `MessageAssumption`: no message is the value that
stands for none):

* `TypeCorrect`: `Spec => []TypeOK`, including the bound of the data channel.
* `RepliesAlwaysMatch`: `Spec => []RepliesMatch`. Whether a resolver gets its
  own answer depends on where keys come from and where they are. `RoutingInv`
  adds that keys come from the two counters and are below them (`KeysFresh`),
  that two calls never share one (`KeysUnique`), that queued and stored
  resolvers are filed under the key of their call (`RegistrationsFiled`,
  `ResolversFiled`), and that messages in the stream and parked messages carry
  the key of the call they answer (`InboundFiled`, `ParkedFiled`).
* `RepliesReachTheirCaller`: `NoReplyLost`. `ResolverInv` says that a call has one
  resolver at most, wherever it is (`OneResolver`); `ReplyInv` that a request is
  written once (`WrittenOnce`), that an answer is filed under the key of its
  call (`AnswersFiled`), that a key has an answer parked or a resolver but never
  both (`ParkedAlone`), that the notice of a producer that has to wait comes
  before its answer (`NotReadyFirst`), and that a caller that waits has its
  answer or a resolver the Receiver owns (`Somewhere`).
* `MessagesReachTheirConsumer`: `NoMessageLost`. `DeliveryInv`: only the close of a
  consumer takes its registration away (`RemovesAsked`), a subscription comes
  after the registration of its consumer (`SubscribersKnown`), and messages come
  after the answer to the subscription (`MessagesOfSubscribers`).
* `FlagAlwaysTrue`: `Spec => []FlagTellsTruth`, for pings that overlap and pings
  that do not. `OnlyOvertaken` makes it inductive: while the Receiver works, a
  cancelled oneshot is of a ping and another ping was made. No other kind of
  registration ever replaces a resolver, because keys are unique.
* `CallersAlwaysBacked`: a call that waits for its oneshot has its value, or the
  live Receiver owns its resolver (`NoCallerForgotten`, inductive with the type).
  A registration that is read is stored or resolved, a stored resolver that is
  replaced cancels its call, and the end of the Receiver cancels all it owns. It
  is the safety under `DeadReceiverFreesCallers`; that the caller then runs is
  fairness.

`ConnectionManagerProofs`, for any set of calls and any `MaxRetries`, from
`ManagerAssumption`:

* `TypeCorrect`: no call retries more than `max_retries` times.
* `WaitersAlwaysListed`: with `PublishersHold` (a call that publishes has a
  connection, so nobody is woken with nothing), which makes it inductive.
* `ConnectingAlwaysLed`: with `DroppedAreDone` (a call whose future was dropped
  takes no further step), which keeps `Abandoned` true once it is. `mgr_cancel`
  shows that the exception for dropped futures is needed.
* `CanceledNeverByASuccess`: `CanceledAfterFailure` is inductive with the type.

`SingleProducerProofs`, for any number of messages, connections and closes, from
`SingleAssumption` and `OutcomeAssumption` (no outcome is the value that stands
for none):

* `TypeCorrect`, `LogAlwaysInOrder`, and `PromiseKept`: `Spec => Implements`, so
  an unbatched producer keeps the promise of `ProducerLog`.
* `Inv` adds to the shape of the state what `send_message` relies on without
  saying it: a message not yet handed to a connection is nowhere and unsettled
  (`UnsentNowhere`); a connection carries nothing when the producer is
  registered on it (`FreshIsEmpty`); each connection carries the messages in
  order, and the registered one only messages behind those already written
  (`WiresInOrder`), which is why a reconnection cannot reorder; a sequence id
  stands for one message wherever it is found (`SeqsName`); and a receipt under
  way names the entry written for its sequence id (`AcksPoint`). The last two
  give the refinement: a receipt that arrives settles the message of its entry.
* The refinement maps a send to `Accept`, a refused send, a failed reconnection
  and a lost receipt to `Reject`, a receipt to `Acknowledge`, a message read on
  the registered connection to `Write`, and every other step to a stutter.
* `NobodyIsForgotten`: an accepted message that is unsettled is the one in
  `send_message`, or has a task that awaits its receipt. Every action that takes
  a message out of the two settles it (`SettleOne`). It is the safety under
  `EverySendSettles`.
* `SettledForGood`, an action property: no step changes an outcome or an entry of
  the topic. `ReceiptsAlwaysTrue`: a receipt names the one entry that holds its
  message. Both follow from the refinement.

`BatchProducerProofs`, for any number of messages and flushes, any sizes of
batches and any failures, from `BatchAssumption` and `OutcomeAssumption` (the
outcomes of a send are distinct):

* `ReceiptsAlwaysTrue`, `CallsAlwaysSettle` and `PromiseKept`, the refinement of
  `ProducerLog`: a send is its `Accept`, a batch the broker writes its `Write`, a
  batch whose receipt arrives its `Acknowledge`, a batch that fails and a
  message refused its `Reject`.
* `Inv` adds where a message can be on its way from the user to the log:
  the two channels, the storage and the batch under way are in the order of the
  calls (`Ordered`: `BatchesFormed`, `StreamInOrder`, `BatchesInOrder`); a
  message is pending until it is settled and only the batch just written is both
  pending and in the log, while one that was given up is settled and written at
  most once (`Settling`: `PendingUnsettled`, `LogBehind`, `LimboOnce`); the
  flush the user waits for is behind everything it has sent (`FlushLast`); and
  the tasks end one after the other with nothing left between them (`Ending`).
* `NobodyIsForgotten`, the safety under `EveryMessageSettles`: an unsettled
  message is in the stream of a `batch_process_loop` or in a batch of a
  `message_send_loop` that has not ended. It follows from `Inv`: what is unsettled
  is pending, and a task ends with nothing pending in front of it.
* `SettledForGood` and `WrittenAtMostOnce` follow from the refinement: the steps
  of the promise change no outcome and no entry, and write what is not written.

`OpeningProofs`, for any partitions, brokers, budgets and timeouts, from
`BaseAssumption`, `NoneAssumption`, `TimeoutAssumption` and `BudgetsAssumption`:

* `TypeCorrect`: no operation retries more often than its options allow.
  `WithinBudget` pays every registration but the first with a retry.
* `AskedRightly`: `GoodLookup`, `conn` and `broker_address` meet whenever a query
  is about to be sent, and the proxy is never lost on the way.
* `HandedOutIsServed`: `Served`, what the client was told of its registration is
  still so, or the partition has moved. `InPhase` ties both to the barriers of
  `build`. Partitions do not disturb one another (`OnePartition`), so the
  invariant speaks of one.
* `FailureLeavesOnlyKept`, the safety under `FailureCloses`: what is registered
  after a failed build (`LeftBehind`) is closing, of a call dropped in flight,
  or of a consumer with a redelivery delay. `Tidy` adds that nothing is
  registered for a call never sent or closed, that only such a consumer is
  kept, and that no call goes on once build has failed.

`ConsumerProofs`, for any entries, batch sizes, queues and reconnections, from
`EngineAssumption`, and for any finite set of topics, any names and any regex,
from `MultiAssumption`:

* `TypeCorrect`, on the shape of the state (`Shape`: the type, events that name
  messages that exist, room in the queues, one message in hand).
* `AckedAlwaysHandled`: an ack on its way to the engine names a message the user
  acknowledged (`EventsGenuine`).
* `HeldAlwaysTracked`: `Tracked` holds in every state but for the one message that
  the queue has just taken and the engine has not yet tracked.
* `PermitsAlwaysCover`: `Covered` says in every state that the broker's permits
  and the messages on their way cover `remaining_messages`, which may be
  negative. The model counts the messages on their way as the number of pairs
  of an entry under way and one of its messages, which lemmas about
  cardinalities can speak of.
* `QueueAlwaysMatches`, the queue of `poll_next` and the map of consumers hold the
  same topics. `QueueInv` adds what a refresh that was begun earlier may still
  hand over: it knew every topic the queue has had since (`PendingOK`), so it
  finds nothing that the queue holds. `poll_next` turns the queue round, which
  changes the order only (`RotatedIs`), and keeps the chosen part of it, whose
  elements `ChosenIs` describes for every queue: the first place where the
  description failed would be a least number, and there is none.
* `QueueStaysBounded`: no topic is in the queue more than twice, however often
  `update_topics` runs, and what a refresh has still to hand over is not in it.

`RoutingProofs`, for any topics, any keys over 16-bit units, any number of
partitions, growths, sends and closes, from `PartitionsAssumption`,
`KeysAssumption`, `BoundsAssumption` and `NoneAssumption`:

* `TypeCorrect` rests on `Lists`: the producers of a topic are those of its
  partitions from the first on, in order and without a gap, which is what makes
  an index of the list a number of a partition.
* `CallsAlwaysInOrder`: `CallsInOrder` says that the log, the send under way and
  the queue carry increasing calls.
* `RulesAlwaysKept`: a key owns its partition by the hash of the sequence being
  a number for every key (`HashIsNat`); round robin is even by `Even`, which
  adds that a partition whose turn comes later (`Turn`) is not behind one whose
  turn comes earlier; Single by `StaysSingle`, which names the partition that
  the next message will be in, as long as the task runs.
* `SendsAlwaysAccounted`, the safety under `EverySendAnswered`: a call of
  `Pulsar::send` is in the channel, in the hands of `run_producer`, with the task
  that awaits its receipt, or answered, and never in two of these, so it is
  answered once; the task ends when the client is gone and no send is left.

`AdminProofs`, for any number of calls, hosts, addresses and redirects, from
`AdminAssumption`:

* `TypeCorrect`; `CredentialsAlwaysLive`, with the exclusion of the mutex and
  what its holder knows of the cache (`Exclusive`, `TokenKept`).
* `AnswersAlwaysTrue`: `RowsRight => (Spec => []AnswersAreTrue)`. `RowsRight`
  says of the rows a policy's calls use that the getter sends a GET and that
  writes address what the getter reads; it is proved of the offload row that
  `admin` runs, of the backlog quota row, and of every row that `Policy` and
  `PutPolicy` make.

### Only model-checked

* All liveness properties: TLAPS has no fairness and no `ENABLED`. Where their
  safety part can be stated, that a thing which must end is always in the hands
  of something that ends it, it is proved (above).
* `EndpointsRight` of `Admin`: it has no variables. It is one evaluation of
  tables of three hundred rows, which TLC makes completely.
* The golden vectors of the Java hash: arithmetic on constants, evaluated by TLC.

## Not modelled

* TLS and the proxy of a connection (`prepare_stream`); which fields a command
  carries; memory growth of `pending_requests` and `received_messages`.
* The start-message filter and `has_message_available`'s comparison of
  positions.
* The fast path of the lookup for names that are partitions already.
* The Murmur3 hash, which is pure arithmetic with golden vectors of its own in
  the tests; the Java hash stands for both in the routing properties.
* `Reader`: it forwards to one consumer.
* Message codec and batch iterator: sequential transformations of bytes.
* Executor, compression, error types: adapters over libraries.
* Queries and bodies of admin requests, and `admin/models.rs`, which has data
  types and serde attributes only; `PulsarBuilder` and the options it carries.

## Plan

1. A composition of a producer and a consumer on one connection, each with its
   whole module, over the shared error flag.
2. The start-message filter and `has_message_available`; `Reader` over
   `ConsumerEngine`; codec and batch iterator as operators with round-trip
   properties.
3. Proofs: the refinement of the abstract producer that `Routing` assumes, by
   the two producers.
