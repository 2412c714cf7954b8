---------------------------- MODULE MultiConsumer ----------------------------
(***************************************************************************)
(* A MultiTopicConsumer (consumer/multi.rs), as ConsumerBuilder::build     *)
(* makes it (consumer/builder.rs) and Consumer drives it                   *)
(* (consumer/mod.rs): it polls the TopicConsumers of several topics in     *)
(* turn, drops the ones whose stream ended, and on every tick of its       *)
(* refresh timer starts looking for topics it has no consumer for.         *)
(*                                                                         *)
(* A topic here is what can be subscribed to, a partition or an            *)
(* unpartitioned topic.  messages_received, a counter, is left out.  What  *)
(* ConsumerEngine has too is named otherwise here (MultiInit, Nothing), so *)
(* that a module may extend both.                                          *)
(***************************************************************************)
EXTENDS Naturals, Sequences, FiniteSets, SequencesExt

CONSTANTS
    Nothing,   \* no value
    Topic,     \* the topics that may exist
    Named,     \* those the names given to the builder resolve to
    Matched,   \* those topic_regex matches
    MaxFaults  \* bound: streams that end, refreshes that fail, calls of seek

ASSUME MultiAssumption ==
    /\ IsFiniteSet(Topic) /\ Named \cup Matched = Topic
    /\ MaxFaults \in Nat
    /\ Nothing \notin {"live", "ended"}

VARIABLES
    consumers, \* MultiTopicConsumer.consumers: "live", "ended" or Nothing
    existing,  \* MultiTopicConsumer.existing_topics, a queue
    topics,    \* MultiTopicConsumer.topics: what build resolved the names to
    pending,   \* MultiTopicConsumer.new_consumers: the future, or Nothing
    due,       \* TRUE: the refresh interval has ticked
    exists,    \* broker: the topics there are
    backlog,   \* broker: topics with a message for the subscription
    faults     \* counter of the bound

topicVars == <<exists, backlog>>
multiVars == <<consumers, existing, topics, pending, due,
              topicVars, faults>>

Order == SetToSeq(Topic)   \* the order a lookup lists topics in

\* The topics of the queue q that are in S, in the order of q.
Chosen(q, S) ==
    LET chosen[i \in 0..Len(q)] ==
          IF i = 0 THEN <<>>
          ELSE IF q[i] \in S THEN Append(chosen[i - 1], q[i]) ELSE chosen[i - 1]
    IN  chosen[Len(q)]

InOrder(S) == Chosen(Order, S)
Fault == faults < MaxFaults /\ faults' = faults + 1

Subscribed == {t \in Topic : consumers[t] # Nothing}
Consumers(S) == [t \in Topic |-> IF t \in S THEN "live" ELSE Nothing]

(* build: consumers of the named topics, then, with a regex, what its first *)
(* update_topics finds.  Only the named topics are in `topics`.             *)
MultiInit ==
    /\ exists \in SUBSET Topic
    /\ topics = Named \cap exists
    /\ consumers = Consumers(exists)
    /\ existing = InOrder(topics) \o InOrder((Matched \cap exists) \ topics)
    /\ pending = Nothing
    /\ due = FALSE
    /\ backlog = {}
    /\ faults = 0
-----------------------------------------------------------------------------
(* update_topics: a future that will look up the names and the regex again  *)
(* and subscribe to what is not in the existing topics of now.              *)
UpdateTopics(current) == [known |-> ToSet(current), state |-> "running", found |-> <<>>]

(* What the future finds: the names as the caller gave them, then the       *)
(* topics the regex matches; a topic both of them name is found twice.      *)
FindResolved(known) ==
    Chosen(InOrder(topics \cap exists) \o InOrder(Matched \cap exists), Topic \ known)

Find(known) ==
    Chosen(InOrder(Named \cap exists) \o InOrder(Matched \cap exists), Topic \ known)

FutureSucceeds ==
    /\ pending # Nothing /\ pending.state = "running"
    /\ pending' = [pending EXCEPT !.state = "ok", !.found = Find(pending.known)]
    /\ UNCHANGED <<consumers, existing, topics, due,
                   topicVars, faults>>

FutureFails ==
    /\ pending # Nothing /\ pending.state = "running"
    /\ Fault
    /\ pending' = [pending EXCEPT !.state = "failed"]
    /\ UNCHANGED <<consumers, existing, topics, due,
                   topicVars>>

-----------------------------------------------------------------------------
(* The three parts of poll_next.                                            *)
Fresh == IF pending # Nothing /\ pending.state = "ok" THEN pending.found ELSE <<>>

\* add_consumers.
Added == [t \in Topic |-> IF t \in ToSet(Fresh) THEN "live" ELSE consumers[t]]

\* A failed future is only logged; one that runs is put back.
Kept == IF pending # Nothing /\ pending.state = "running" THEN pending ELSE Nothing

Ready(cons, t) == cons[t] = "live" /\ t \in backlog
Ended(cons, t) == cons[t] = "ended"

\* The queue is gone round until a consumer has a message.
PolledCount(cons, q) ==
    IF \E i \in DOMAIN q : Ready(cons, q[i])
    THEN CHOOSE i \in DOMAIN q : Ready(cons, q[i]) /\ \A j \in 1..(i - 1) : ~Ready(cons, q[j])
    ELSE Len(q)

RotatedNever(q, n) == q
Rotated(q, n) == SubSeq(q, n + 1, Len(q)) \o SubSeq(q, 1, n)

\* remove_consumers.
RemainingAll(q, removed) == q
Remaining(q, removed) == Chosen(q, Topic \ removed)

Poll ==
    LET queue == existing \o Fresh
        n == PolledCount(Added, queue)
        removed == {t \in {queue[i] : i \in 1..n} : Ended(Added, t)}
        found == n > 0 /\ Ready(Added, queue[n])
    IN  /\ pending' = IF due THEN UpdateTopics(queue) ELSE Kept
        /\ due' = FALSE
        /\ existing' = Remaining(Rotated(queue, n), removed)
        /\ consumers' = [t \in Topic |-> IF t \in removed THEN Nothing ELSE Added[t]]
        /\ backlog' = IF found THEN backlog \ {queue[n]} ELSE backlog
        /\ UNCHANGED <<topics, exists, faults>>

-----------------------------------------------------------------------------
(* Consumer::seek: new consumers for `topics` replace all, the timer        *)
(* starts again; an error leaves the consumer as it was.                    *)
Seek ==
    /\ Fault
    /\ consumers' = Consumers(topics)
    /\ existing' = InOrder(topics)
    /\ pending' = Nothing /\ due' = FALSE
    /\ UNCHANGED <<topics, topicVars>>

(* close and unsubscribe go through the consumers one by one and return at  *)
(* the first that fails; the streams of the others have ended.              *)
Close ==
    /\ Fault
    /\ \E S \in SUBSET Subscribed :
         /\ S # {}
         /\ consumers' = [t \in Topic |->
               IF t \in S THEN "ended" ELSE consumers[t]]
    /\ UNCHANGED <<existing, topics, pending, due, topicVars>>

(* The refresh timer. *)
RefreshTick ==
    /\ ~due
    /\ due' = TRUE
    /\ UNCHANGED <<consumers, existing, topics, pending,
                   topicVars, faults>>

(* The broker: topics appear, messages arrive, a stream ends in an error.   *)
TopicAppears ==
    /\ \E t \in Topic \ exists : exists' = exists \cup {t}
    /\ UNCHANGED <<consumers, existing, topics, pending, due,
                   backlog, faults>>

MessageArrives(t) ==
    /\ t \in exists \ backlog
    /\ backlog' = backlog \cup {t}
    /\ UNCHANGED <<consumers, existing, topics, pending, due,
                   exists, faults>>

MultiNext ==
    \/ Poll \/ FutureSucceeds \/ FutureFails \/ Seek \/ Close \/ RefreshTick
    \/ TopicAppears \/ \E t \in Topic : MessageArrives(t)

MultiSpec == MultiInit /\ [][MultiNext]_multiVars

(* The application keeps polling, the timer keeps ticking, messages keep    *)
(* coming, and lookups and subscriptions do not always take longer than an  *)
(* interval: a tick replaces the future of the tick before.                 *)
FairMultiSpec ==
    /\ MultiSpec
    /\ WF_multiVars(Poll) /\ WF_multiVars(RefreshTick)
    /\ SF_multiVars(FutureSucceeds)
    /\ \A t \in Topic : WF_multiVars(MessageArrives(t))
-----------------------------------------------------------------------------
(* The shape of the state. *)
MultiTypeOK ==
    /\ consumers \in [Topic -> {Nothing, "live", "ended"}]
    /\ existing \in Seq(Topic)
    /\ topics \subseteq Named
    /\ {t \in Topic : t \in ToSet(existing)} \subseteq exists
    /\ backlog \subseteq exists

(* The queue that is polled and the map of consumers name the same topics,  *)
(* so poll_next never meets a topic without a consumer (its "BUG" branch)   *)
(* and no consumer is left out of the round, even when a topic is found     *)
(* both by name and by the regex.  (The state keeps its shape throughout.)  *)
QueueMatchesMap == MultiTypeOK /\ ToSet(existing) = Subscribed

(* Every topic is served in turn: however busy the others are, a topic with *)
(* a message and a live consumer is not passed over for ever.               *)
NoTopicStarves ==
    \A t \in Topic : []<>~Ready(consumers, t)

(* A topic that exists is consumed sooner or later: a partition added after *)
(* build, a new match of the regex, a topic whose consumer failed or that   *)
(* seek left out.                                                           *)
EveryTopicFound == []<>(exists \subseteq Subscribed)

=============================================================================
