------------------------------- MODULE Routing -------------------------------
(***************************************************************************)
(* From a send to a partition: the task run_producer behind Pulsar::send   *)
(* (client.rs), the MultiTopicProducer it owns, the Producer of each topic *)
(* and, when the topic is partitioned, the PartitionedProducer that routes *)
(* a message and follows the topic as it grows (producer.rs,               *)
(* routing_policy.rs).                                                     *)
(*                                                                         *)
(* The TopicProducer of a partition accepts a message, in order, or fails; *)
(* building producers ends (modules SingleProducer and Opening).           *)
(***************************************************************************)
EXTENDS Integers, Sequences, FiniteSets, SequencesExt

CONSTANTS
    None,          \* no value
    Topic,         \* topics sent to
    Keys,          \* routing keys, as sequences of UTF-16 units
    FirstCounts,   \* partitions a topic may start with, 0 if not partitioned
    MaxCloses,     \* bound: calls of close_producer
    MaxPartitions, \* bound: partitions a topic grows to
    MaxCalls,      \* bound: sends
    MaxRefreshes   \* bound: refresh intervals that elapse

Policies == {"RoundRobin", "Single", "Custom"}

CodeUnit == 0..65535

ASSUME PartitionsAssumption ==
    MaxPartitions \in Nat \ {0, 1} /\ FirstCounts \subseteq 0..MaxPartitions
ASSUME KeysAssumption == Keys \subseteq Seq(CodeUnit) /\ None \notin Keys
ASSUME BoundsAssumption == MaxCalls \in Nat /\ MaxCloses \in Nat /\ MaxRefreshes \in Nat

-----------------------------------------------------------------------------
(* routing_policy.rs.  java_string_hash computes h * 31 + unit over i32,    *)
(* wrapping, and clears the sign bit at the end: only the low 31 bits ever  *)
(* matter.  They are kept in two halves so that no product exceeds them.    *)
HalfWord == 65536
HighHalf == 32768

HashStep(h, unit) ==
    LET low  == (h % HalfWord) * 31 + unit
        high == (h \div HalfWord) * 31 + (low \div HalfWord)
    IN  (high % HighHalf) * HalfWord + (low % HalfWord)

JavaStringHash(key) ==
    LET hash[i \in 0..Len(key)] ==
          IF i = 0 THEN 0 ELSE HashStep(hash[i - 1], key[i])
    IN  hash[Len(key)]

\* sign_safe_mod of the hash.
PartitionForKey(key, n) == JavaStringHash(key) % n

(* Golden vectors of the Java client (routing_policy_java_vectors.rs): "",  *)
(* "a", "abc" and "abcdefgh", whose hash wraps.                             *)
ASSUME JavaVectors ==
    /\ JavaStringHash(<<>>) = 0
    /\ JavaStringHash(<<97>>) = 97
    /\ JavaStringHash(<<97, 98, 99>>) = 96354
    /\ JavaStringHash([i \in 1..8 |-> 96 + i]) = 1259673732

-----------------------------------------------------------------------------
VARIABLES
    policy,    \* ProducerOptions.routing_policy
    handles,   \* TRUE while the application holds a Pulsar
    calls,     \* sends so far
    queue,     \* the channel from the Pulsar handles to run_producer
    task,      \* run_producer: "idle", "building", Sending, "done"
    cur,       \* the send it works on
    producers, \* MultiTopicProducer.producers: [Topic -> a Producer or None]
    count,     \* broker: partitions of each topic, 0 if it is not partitioned
    elapsed,   \* refresh intervals elapsed so far
    log,       \* accepted messages, in order: id, topic, key, partition, known
    waiting,   \* sends whose receipt is awaited
    answered,  \* sends whose SendFuture has resolved
    tally,     \* history: unkeyed sends per partition since the topic grew
    closes     \* calls of close_producer so far

clientVars == <<handles, calls, queue>>
brokerVars == <<count, elapsed>>
vars == <<policy, clientVars, task, cur, producers, brokerVars, log, waiting,
          answered, tally, closes>>

Call == [id : 1..MaxCalls, topic : Topic, key : Keys \cup {None}]
Producer == [parts : Seq(Nat), partitioned : BOOLEAN, last : Nat, due : BOOLEAN]

ASSUME NoneAssumption == None \notin Call /\ None \notin Producer

NoTally == [p \in 0..MaxPartitions |-> 0]

Init ==
    /\ policy \in Policies
    /\ handles = TRUE /\ calls = 0 /\ queue = <<>>
    /\ task = "idle" /\ cur = None
    /\ producers = [t \in Topic |-> None]
    /\ count \in [Topic -> FirstCounts]
    /\ elapsed = 0
    /\ log = <<>> /\ waiting = {}
    /\ answered = {}
    /\ tally = [t \in Topic |-> NoTally]
    /\ closes = 0
-----------------------------------------------------------------------------
(* Pulsar::send queues the message for run_producer. *)
Send ==
    /\ handles
    /\ calls < MaxCalls
    /\ calls' = calls + 1
    /\ \E t \in Topic, k \in Keys \cup {None} :
         queue' = Append(queue, [id |-> calls + 1, topic |-> t, key |-> k])
    /\ UNCHANGED <<policy, handles, task, cur, producers, brokerVars, log,
                   waiting, answered, tally, closes>>

(* The last Pulsar is dropped, and its end of the channel with it.          *)
DropClient ==
    /\ handles
    /\ handles' = FALSE
    /\ UNCHANGED <<policy, calls, queue, task, cur, producers, brokerVars, log,
                   waiting, answered, tally, closes>>

TakeNewest ==
    /\ task = "idle"
    /\ queue # <<>>
    /\ cur' = Last(queue)
    /\ queue' = Front(queue)
    /\ task' = IF producers[cur'.topic] = None THEN "building" ELSE "sending"
    /\ UNCHANGED <<policy, handles, calls, producers, brokerVars, log, waiting,
                   answered, tally, closes>>

(* run_producer takes the next message; MultiTopicProducer builds the       *)
(* producer of a topic it does not know.                                    *)
Take ==
    /\ task = "idle"
    /\ queue # <<>>
    /\ cur' = Head(queue)
    /\ queue' = Tail(queue)
    /\ task' = IF producers[cur'.topic] = None THEN "building" ELSE "sending"
    /\ UNCHANGED <<policy, handles, calls, producers, brokerVars, log, waiting,
                   answered, tally, closes>>

FinishHoldsSender ==
    /\ ~handles /\ FALSE
    /\ UNCHANGED vars

(* The channel is empty and closed: the loop ends, its producers are        *)
(* dropped.  The client it holds for itself has no end of the channel.      *)
Finish ==
    /\ task = "idle"
    /\ queue = <<>>
    /\ ~handles
    /\ task' = "done"
    /\ producers' = [t \in Topic |-> None]
    /\ UNCHANGED <<policy, clientVars, cur, brokerVars, log, waiting, answered,
                   tally, closes>>

-----------------------------------------------------------------------------
(* ProducerBuilder::build.  partition_index of the name a producer is for   *)
(* orders the producers; a topic whose name came back unchanged is not      *)
(* partitioned, one partition is still partitioned.                         *)
Single == [parts |-> <<0>>, partitioned |-> FALSE, last |-> 0, due |-> FALSE]

Partitioned(n, start) ==
    [parts |-> [i \in 1..n |-> i - 1], partitioned |-> TRUE, last |-> start,
     due |-> FALSE]

BuildSucceeds ==
    /\ task = "building"
    /\ LET t == cur.topic
       IN  IF count[t] = 0
           THEN producers' = [producers EXCEPT ![t] = Single]
           ELSE \E start \in 0..(count[t] - 1) :
                  producers' = [producers EXCEPT ![t] = Partitioned(count[t], start)]
    /\ tally' = [tally EXCEPT ![cur.topic] = NoTally]
    /\ task' = "sending"
    /\ UNCHANGED <<policy, clientVars, cur, brokerVars, log, waiting, answered, closes>>

(* Nothing is kept of a producer that could not be built.                   *)
BuildFails ==
    /\ task = "building"
    /\ answered' = answered \cup {cur.id}
    /\ task' = "idle" /\ cur' = None
    /\ UNCHANGED <<policy, clientVars, producers, brokerVars, log, waiting,
                   tally, closes>>

(* refresh_partitions.  When the interval has elapsed it starts again, and  *)
(* the partitions are looked up: producers for those not known yet are      *)
(* appended and all are sorted by partition.  A failure keeps what there    *)
(* is.  The send follows in every case.                                     *)
Sending == {"sending", "refreshing", "routing"}

MustRefresh ==
    task = "sending" /\ producers[cur.topic].partitioned /\ producers[cur.topic].due

RefreshStarts ==
    /\ MustRefresh
    /\ producers' = [producers EXCEPT ![cur.topic].due = FALSE]
    /\ task' = "refreshing"
    /\ UNCHANGED <<policy, clientVars, cur, brokerVars, log, waiting, answered,
                   tally, closes>>

Known(p) == {p.parts[i] : i \in DOMAIN p.parts}

\* The elements of S, a finite set of numbers, by size.
Sorted(S) ==
    CHOOSE s \in [1..Cardinality(S) -> S] : \A i, j \in DOMAIN s : i < j => s[i] < s[j]

GrownUnsorted(p, n) ==
    [p EXCEPT !.parts = Sorted((0..(n - 1)) \ Known(p)) \o @]

Grown(p, n) ==
    [p EXCEPT !.parts = Sorted(Known(p) \cup 0..(n - 1))]

RefreshSucceeds ==
    /\ task = "refreshing"
    /\ LET t == cur.topic
       IN  /\ producers' = [producers EXCEPT ![t] = Grown(@, count[t])]
           /\ tally' = IF Len(producers'[t].parts) # Len(producers[t].parts)
                       THEN [tally EXCEPT ![t] = NoTally] ELSE tally
    /\ task' = "routing"
    /\ UNCHANGED <<policy, clientVars, cur, brokerVars, log, waiting, answered, closes>>

RefreshFails ==
    /\ task = "refreshing"
    /\ task' = "routing"
    /\ UNCHANGED <<policy, clientVars, cur, producers, brokerVars, log, waiting,
                   answered, tally, closes>>

-----------------------------------------------------------------------------
(* get_next_round_robin_producer.                                           *)
NextIndex(p) == IF p.last + 1 >= Len(p.parts) THEN 0 ELSE p.last + 1

(* choose_partition: the indexes it may choose, and what becomes of         *)
(* last_used_producer_index.  A key supersedes every policy but Custom,     *)
(* whose router is the application's.                                       *)
Routes(p, key) ==
    CASE policy = "Custom" -> {<<i, p.last>> : i \in 0..(Len(p.parts) - 1)}
      [] policy # "Custom" /\ key # None ->
            {<<PartitionForKey(key, Len(p.parts)), p.last>>}
      [] policy = "Single" /\ key = None -> {<<p.last, p.last>>}
      [] policy = "RoundRobin" /\ key = None -> {<<NextIndex(p), NextIndex(p)>>}

(* Producer::send_non_blocking.  The message goes to the producer chosen,   *)
(* which accepts it or fails; the index is used up in both cases.           *)
SendThrough ==
    /\ task \in {"sending", "routing"}
    /\ ~MustRefresh
    /\ LET t == cur.topic
           p == producers[t]
       IN  \E c \in IF p.partitioned THEN Routes(p, cur.key) ELSE {<<0, 0>>} :
             /\ producers' = [producers EXCEPT ![t].last = c[2]]
             /\ IF cur.key = None
                THEN tally' = [tally EXCEPT ![t][p.parts[c[1] + 1]] = @ + 1]
                ELSE UNCHANGED tally
             /\ \/ /\ log' = Append(log, [id |-> cur.id, topic |-> t, key |-> cur.key,
                                          partition |-> p.parts[c[1] + 1],
                                          known |-> Len(p.parts)])
                   /\ waiting' = waiting \cup {cur.id}
                   /\ UNCHANGED answered
                \/ /\ answered' = answered \cup {cur.id}
                   /\ UNCHANGED <<log, waiting>>
    /\ task' = "idle" /\ cur' = None
    /\ UNCHANGED <<policy, clientVars, brokerVars, closes>>

-----------------------------------------------------------------------------
(* The task run_producer spawns for each send resolves it with the receipt, *)
(* its error, or the operation timeout, whichever comes first.              *)
ResolveWhileOpen(i) ==
    /\ i \in waiting /\ handles
    /\ answered' = answered \cup {i}
    /\ waiting' = waiting \ {i}
    /\ UNCHANGED <<policy, clientVars, task, cur, producers, brokerVars, log,
                   tally, closes>>

Resolve(i) ==
    /\ i \in waiting
    /\ answered' = answered \cup {i}
    /\ waiting' = waiting \ {i}
    /\ UNCHANGED <<policy, clientVars, task, cur, producers, brokerVars, log,
                   tally, closes>>

(* MultiTopicProducer::close_producer, between two sends of an application  *)
(* that has one of its own: the names the lookup returns are removed from   *)
(* the map, which is keyed by the names sent to.                            *)
CloseProducer ==
    /\ task = "idle"
    /\ closes < MaxCloses
    /\ closes' = closes + 1
    /\ \E t \in Topic :
         /\ producers[t] # None
         /\ producers' = IF count[t] = 0 THEN [producers EXCEPT ![t] = None]
                                         ELSE producers
    /\ UNCHANGED <<policy, clientVars, task, cur, brokerVars, log, waiting,
                   answered, tally>>

(* The topic gains partitions; time passes. *)
Grow ==
    /\ \E t \in Topic :
         /\ count[t] \in 1..(MaxPartitions - 1)
         /\ count' = [count EXCEPT ![t] = @ + 1]
    /\ UNCHANGED <<policy, clientVars, task, cur, producers, elapsed, log,
                   waiting, answered, tally, closes>>

IntervalElapses ==
    /\ elapsed < MaxRefreshes
    /\ elapsed' = elapsed + 1
    /\ \E t \in Topic :
         /\ producers[t] # None /\ ~producers[t].due
         /\ producers' = [producers EXCEPT ![t].due = TRUE]
    /\ UNCHANGED <<policy, clientVars, task, cur, count, log, waiting, answered,
                   tally, closes>>

RunProducer ==
    \/ Take \/ Finish \/ BuildSucceeds \/ BuildFails
    \/ RefreshStarts \/ RefreshSucceeds \/ RefreshFails \/ SendThrough

Next ==
    \/ Send \/ DropClient \/ RunProducer \/ CloseProducer
    \/ \E i \in 1..MaxCalls : Resolve(i)
    \/ Grow \/ IntervalElapses

Spec == Init /\ [][Next]_vars

(* The executor runs the tasks and timers fire.                             *)
FairSpec ==
    /\ Spec
    /\ WF_vars(RunProducer)
    /\ \A i \in 1..MaxCalls : WF_vars(Resolve(i))
-----------------------------------------------------------------------------
(* The shape of the state; last_used_producer_index is always one of the    *)
(* producers, which choose_partition unwraps.                               *)
TypeOK ==
    /\ policy \in Policies
    /\ task \in {"idle", "building", "done"} \cup Sending
    /\ cur \in Call \cup {None}
    /\ cur = None <=> task \in {"idle", "done"}
    /\ waiting \subseteq 1..calls
    /\ \A t \in Topic : producers[t] # None =>
         /\ producers[t].parts # <<>>
         /\ producers[t].last \in 0..(Len(producers[t].parts) - 1)

(* A key belongs to one partition: whenever a producer knows n partitions,  *)
(* a keyed message is in partition hash mod n, the place where any other    *)
(* client that knows n of them looks for it, however the list was grown.    *)
KeyOwnsPartition ==
    policy # "Custom" =>
        \A i \in DOMAIN log :
            log[i].key # None /\ (log[i].known > 1 \/ log[i].partition # 0) =>
                log[i].partition = PartitionForKey(log[i].key, log[i].known)

(* Messages of a topic that were accepted are in the order of the calls of  *)
(* Pulsar::send, whatever was built or refreshed in between.                *)
CallOrder ==
    \A i, j \in DOMAIN log : i < j /\ log[i].topic = log[j].topic =>
        log[i].id < log[j].id

(* Round robin is even: between two growths of a topic the unkeyed sends    *)
(* of two partitions differ by at most one, keyed ones in between.          *)
RoundRobinEven ==
    policy = "RoundRobin" =>
        \A t \in Topic : producers[t] # None =>
            \A p, q \in Known(producers[t]) : tally[t][p] <= tally[t][q] + 1

(* With the policy Single every unkeyed message of a topic is in one        *)
(* partition, also after the list has grown around it.                      *)
SingleStays ==
    policy = "Single" =>
        \A i, j \in DOMAIN log :
            /\ log[i].topic = log[j].topic
            /\ log[i].key = None /\ log[j].key = None
            => log[i].partition = log[j].partition

(* choose_partition keeps the rules of every policy at once, while the list *)
(* of producers changes and keyed and unkeyed messages alternate.           *)
RulesKept == TypeOK /\ KeyOwnsPartition /\ RoundRobinEven /\ SingleStays

(* Every send is answered, also the ones queued behind a producer that      *)
(* could not be built and the ones sent just before the client was dropped. *)
EverySendAnswered ==
    []<>(1..calls \subseteq answered)

(* Dropping the last Pulsar ends run_producer and lets its producers go.    *)
DropEndsTask ==
    []<>(~handles => task = "done" /\ \A t \in Topic : producers[t] = None)

=============================================================================
