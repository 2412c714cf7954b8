--------------------------- MODULE ConsumerProofs ---------------------------
(* Proofs about ConsumerEngine, for every topic, every batch_size and       *)
(* receiver_queue_size, and any number of sends, notices and reconnections: *)
(* its type, what is acknowledged, what is tracked for redelivery, and that *)
(* the engine and the broker never wait for each other's permits.  Behind   *)
(* them, proofs about MultiConsumer: the queue it polls, for any topics.    *)
EXTENDS ConsumerEngine, MultiConsumer, FiniteSetTheorems, SequenceTheorems,
        WellFoundedInduction, TLAPS

-----------------------------------------------------------------------------
(* The inductive invariant. *)

\* What an event is about, when A are the messages the user acknowledged: only
\* those does an ack, and a cumulative one, name.
Genuine(ev, A) ==
    /\ ev.type = "payload" => ev.id \in Entries \X {0}
    /\ ev.type \in {"ack", "cumulative", "nack"} => ev.id \in Items
    /\ ev.type \in {"ack", "cumulative"} => ev.id \in A

AllGenuine(s, A) == \A i \in DOMAIN s : Genuine(s[i], A)

EventsGenuine ==
    /\ \A ep \in 0..MaxEpoch : AllGenuine(sources[ep], acks)
    /\ AllGenuine(requests, acks)
    /\ AllGenuine(events, acks)

\* Only an engine that waits for room has filled the queue beyond its size.
Room ==
    /\ engine # "parked" => Len(queue) <= QueueSize
    /\ user = "dropped" => queue = <<>>

\* The engine has no message in hand but while it pushes those of an entry.
InHand == engine \notin {"push", "parked", "done"} => todo = <<>>

Shape == TypeOK /\ EventsGenuine /\ Room /\ InHand

\* HeldAreTracked, where only the message that tx has just taken and that is
\* not tracked yet is excepted.
Tracked ==
    HasDelay /\ engine # "done" =>
      \A x \in InUserHands :
         \/ x \in unacked \cup asked \cup acks \cup dead
         \/ engine = "parked" /\ todo # <<>> /\ x = Head(todo)

\* PermitsCover in every state: the permits are counted alike on both sides,
\* and the engine only waits for events with enough of them.
Covered ==
    /\ attached => permits + EnRoute >= remaining
    /\ engine = "wait" => remaining >= Half

Inv == Shape /\ AckedWereHandled /\ Tracked

-----------------------------------------------------------------------------
(* Facts about entries, messages and events. *)

LEMMA ItemsType ==
    /\ Entries \subseteq Nat
    /\ \A e \in Entries : Batch[e] \in Nat \ {0} /\ ItemsOf(e) \in Seq(Items)
    /\ \A x \in Items : x[1] \in Entries /\ x[2] \in Nat
<1>1. Batch \in Seq(Nat \ {0})
  BY EngineAssumption
<1>2. Entries = 1..Len(Batch) /\ Len(Batch) \in Nat
  BY <1>1 DEF Entries
<1>3. ASSUME NEW e \in Entries
      PROVE  Batch[e] \in Nat \ {0} /\ ItemsOf(e) \in Seq(Items)
  <2>1. Batch[e] \in Nat \ {0}
    BY <1>1, <1>2, <1>3
  <2>2. \A i \in 1..Batch[e] : <<e, i>> \in Items
    BY <1>3 DEF Items
  <2>3. ItemsOf(e) \in [1..Batch[e] -> Items]
    BY <2>2 DEF ItemsOf
  <2> QED BY <2>1, <2>3
<1>4. ASSUME NEW x \in Items
      PROVE  x[1] \in Entries /\ x[2] \in Nat
  <2>1. PICK e \in Entries : x \in {e} \X (1..Batch[e])
    BY DEF Items
  <2> QED BY <2>1, <1>3
<1> QED BY <1>2, <1>3, <1>4

LEMMA EventsType ==
    /\ \A t \in FromBroker \cup {"ack", "cumulative", "nack", "tick", "get", "gone"},
          x \in (Entries \X {0}) \cup Items \cup {None}, n \in 0..MaxSends, ep \in 0..MaxEpoch :
          /\ Event(t, x, n, ep) \in Events
          /\ Event(t, x, n, ep).type = t /\ Event(t, x, n, ep).id = x
          /\ Event(t, x, n, ep).count = n /\ Event(t, x, n, ep).epoch = ep
    /\ \A ev \in Events : ev.count \in 0..MaxSends /\ ev.epoch \in 0..MaxEpoch
    /\ \A t \in {"ack", "cumulative", "nack", "tick", "get", "gone"}, x \in Items \cup {None} :
          /\ Request(t, x) \in Events
          /\ Request(t, x).type = t /\ Request(t, x).id = x
BY EngineAssumption DEF Event, Events, Request

\* A set of numbers has a least one.
LEMMA NatMin ==
    ASSUME NEW T \in SUBSET Nat, T # {}
    PROVE  \E x \in T : \A y \in T : x <= y
<1>1. PICK x \in T : \A y \in T : ~ (<<y, x>> \in OpToRel(<, Nat))
  BY WFMin, NatLessThanWellFounded
<1>2. \A y \in T : ~(y < x)
  BY <1>1 DEF OpToRel
<1> QED BY <1>2

\* The broker sends the first entry that it may send.
LEMMA FirstSendable ==
    ASSUME TypeOK, Sendable # {}
    PROVE  \E e \in Sendable :
             /\ e = CHOOSE e1 \in Sendable : \A f \in Sendable : e1 <= f
             /\ e \in Entries /\ sent[e] \in 0..(MaxSends - 1)
<1>1. Sendable \subseteq Nat
  BY ItemsType DEF Sendable
<1>3. PICK e0 \in Sendable : \A f \in Sendable : e0 <= f
  BY <1>1, NatMin
<1>4. PICK e : e = CHOOSE e1 \in Sendable : \A f \in Sendable : e1 <= f
  OBVIOUS
<1>5. e \in Sendable
  BY <1>3, <1>4
<1>6. sent[e] \in 0..MaxSends /\ sent[e] < MaxSends /\ e \in Entries
  BY <1>5 DEF Sendable, TypeOK
<1> QED BY <1>4, <1>5, <1>6, EngineAssumption

-----------------------------------------------------------------------------
(* The shape of the state: its type, one part of the state after the other. *)

EngineType ==
    /\ engine \in {"loop", "flow", "wait", "push", "parked", "report", "reconnect",
                   "subscribe", "done"}
    /\ after \in {"stop", "report"}
    /\ remaining \in Int /\ remaining <= BatchSize
    /\ unacked \subseteq Items
    /\ todo \in Seq(Items) /\ count \in 0..MaxSends

InputsType ==
    /\ sources \in [0..MaxEpoch -> Seq(Events)]
    /\ requests \in Seq(Events) /\ events \in Seq(Events)
    /\ gone \in BOOLEAN /\ ticker \in {"none", "running", "stopped"}

UserType ==
    /\ queue \in Seq(Items \cup {None}) /\ Len(queue) <= QueueSize + 1
    /\ user \in {"idle", "asking", "dropped"} /\ answered \in BOOLEAN
    /\ held \subseteq Items /\ acks \subseteq Items

BrokerType ==
    /\ alive \in BOOLEAN /\ flag \in BOOLEAN /\ attached \in BOOLEAN
    /\ epoch \in 0..MaxEpoch /\ permits \in Int /\ notices \in 0..MaxNotices
    /\ sent \in [Entries -> 0..MaxSends] /\ outstanding \subseteq Entries
    /\ acked \subseteq Items /\ dead \subseteq Items /\ asked \subseteq Items

NeighbourType == neighbour \in {"sharing", "closing", "left"}

LEMMA TypeParts ==
    TypeOK <=> EngineType /\ InputsType /\ UserType /\ BrokerType /\ NeighbourType
BY DEF TypeOK, EngineType, InputsType, UserType, BrokerType, NeighbourType

LEMMA ShapeParts ==
    ASSUME Shape
    PROVE  /\ EngineType /\ InputsType /\ UserType /\ BrokerType /\ NeighbourType
           /\ EventsGenuine /\ Room /\ InHand
BY TypeParts DEF Shape

LEMMA InitShape == Init => Shape
<1> SUFFICES ASSUME Init PROVE Shape
  OBVIOUS
<1>1. TypeOK
  <2>1. PICK s \in Setups :
          /\ ticker = IF s.delay THEN "running" ELSE "none"
          /\ neighbour = IF s.shared THEN "sharing" ELSE "left"
          /\ answered = ~s.asks
    BY DEF Init
  <2>2. s \in [delay : BOOLEAN, shared : BOOLEAN, asks : BOOLEAN]
    BY EngineAssumption
  <2>3. answered \in BOOLEAN
    BY <2>1, Zenon
  <2>4. ticker \in {"none", "running"} /\ neighbour \in {"sharing", "left"}
    BY <2>1
  <2>5. EngineType
    BY EngineAssumption DEF Init, EngineType
  <2>6. BrokerType
    <3>1. /\ epoch \in 0..MaxEpoch /\ notices \in 0..MaxNotices /\ permits \in Int
          /\ sent \in [Entries -> 0..MaxSends]
      BY EngineAssumption DEF Init
    <3>2. /\ alive \in BOOLEAN /\ flag \in BOOLEAN /\ attached \in BOOLEAN
          /\ outstanding \subseteq Entries
          /\ acked \subseteq Items /\ dead \subseteq Items /\ asked \subseteq Items
      BY DEF Init
    <3> QED BY <3>1, <3>2 DEF BrokerType
  <2>7. InputsType
    <3>1. /\ sources = [ep \in 0..MaxEpoch |-> <<>>] /\ requests = <<>> /\ events = <<>>
          /\ gone = FALSE
      BY DEF Init
    <3>2. <<>> \in Seq(Events)
      OBVIOUS
    <3>3. sources \in [0..MaxEpoch -> Seq(Events)]
      BY <3>1, <3>2
    <3> QED BY <2>4, <3>1, <3>2, <3>3 DEF InputsType
  <2>8. UserType
    <3>1. /\ queue = <<>> /\ QueueSize \in Nat /\ user = "idle" /\ held = {} /\ acks = {}
      BY EngineAssumption DEF Init
    <3>2. queue \in Seq(Items \cup {None}) /\ Len(queue) <= QueueSize + 1
      BY <3>1
    <3> QED BY <2>3, <3>1, <3>2 DEF UserType
  <2> QED BY <2>4, <2>5, <2>6, <2>7, <2>8, TypeParts DEF NeighbourType
<1>2. EventsGenuine /\ Room /\ InHand
  BY EngineAssumption DEF Init, EventsGenuine, AllGenuine, Room, InHand
<1> QED BY <1>1, <1>2 DEF Shape

\* Genuine events stay so in a queue, and when the user acknowledges more.
LEMMA GenuineQueues ==
    ASSUME NEW A, NEW s \in Seq(Events), AllGenuine(s, A)
    PROVE  /\ s # <<>> => /\ Head(s) \in Events /\ Genuine(Head(s), A)
                          /\ Tail(s) \in Seq(Events) /\ AllGenuine(Tail(s), A)
           /\ \A ev \in Events : Genuine(ev, A) =>
                 Append(s, ev) \in Seq(Events) /\ AllGenuine(Append(s, ev), A)
           /\ \A B : A \subseteq B => AllGenuine(s, B)
<1>1. ASSUME s # <<>>
      PROVE  /\ Head(s) \in Events /\ Genuine(Head(s), A)
             /\ Tail(s) \in Seq(Events) /\ AllGenuine(Tail(s), A)
  <2>1. /\ Head(s) \in Events /\ Head(s) = s[1] /\ 1 \in DOMAIN s
        /\ Tail(s) \in Seq(Events)
        /\ \A i \in DOMAIN Tail(s) : i + 1 \in DOMAIN s /\ Tail(s)[i] = s[i + 1]
    BY <1>1
  <2> QED BY <2>1 DEF AllGenuine
<1>2. ASSUME NEW ev \in Events, Genuine(ev, A)
      PROVE  Append(s, ev) \in Seq(Events) /\ AllGenuine(Append(s, ev), A)
  <2>1. /\ Append(s, ev) \in Seq(Events)
        /\ \A i \in DOMAIN Append(s, ev) :
              \/ i \in DOMAIN s /\ Append(s, ev)[i] = s[i]
              \/ Append(s, ev)[i] = ev
    OBVIOUS
  <2> QED BY <1>2, <2>1 DEF AllGenuine
<1>3. ASSUME NEW B, A \subseteq B
      PROVE  AllGenuine(s, B)
  BY <1>3 DEF AllGenuine, Genuine
<1> QED BY <1>1, <1>2, <1>3

\* The event the engine takes from its queue.
LEMMA HeadEvent ==
    ASSUME Shape, events # <<>>
    PROVE  /\ Head(events) \in Events /\ Genuine(Head(events), acks)
           /\ Head(events).count \in 0..MaxSends
           /\ Tail(events) \in Seq(Events) /\ AllGenuine(Tail(events), acks)
<1>1. events \in Seq(Events) /\ AllGenuine(events, acks)
  BY ShapeParts DEF InputsType, EventsGenuine
<1> QED BY <1>1, GenuineQueues, EventsType


\* The engine's part of the type.
LEMMA EngineTypeNext ==
    ASSUME Shape, [Next]_vars
    PROVE  EngineType'
<1>1. CASE CheckConnection
  <2>1. /\ engine' \in {"reconnect", "flow"} /\ after' \in {after, "stop"}
        /\ UNCHANGED <<remaining, unacked, todo, count>>
    BY <1>1 DEF CheckConnection
  <2> QED BY <2>1, ShapeParts DEF EngineType
<1>2. CASE SendFlow
  <2>1. /\ engine' \in {"wait", "loop"} /\ remaining' \in {remaining, BatchSize}
        /\ UNCHANGED <<after, unacked, todo, count>>
    BY <1>2 DEF SendFlow
  <2> QED BY <2>1, ShapeParts, EngineAssumption DEF EngineType
<1>3. CASE Idle
  <2>1. /\ engine' \in {"loop"} /\ after' \in {after, "stop"}
        /\ UNCHANGED <<remaining, unacked, todo, count>>
    BY <1>3 DEF Idle
  <2> QED BY <2>1, ShapeParts DEF EngineType
<1>4. CASE HandleMessage
  <2> DEFINE ev == Head(events)
  <2>1. events # <<>> /\ ev.type \in FromBroker
    BY <1>4 DEF HandleMessage
  <2>2. ev \in Events /\ Genuine(ev, acks) /\ ev.count \in 0..MaxSends
    BY <2>1, HeadEvent
  <2>3. ev.type = "payload" => /\ ev.id[1] \in Entries /\ Batch[ev.id[1]] \in Nat \ {0}
                               /\ ItemsOf(ev.id[1]) \in Seq(Items)
    BY <2>2, ItemsType DEF Genuine
  <2>4. /\ remaining' = remaining - (IF ev.type = "payload" THEN Batch[ev.id[1]] ELSE 1)
        /\ unacked' = unacked
    BY <1>4 DEF HandleMessage
  <2>5. remaining' \in Int /\ remaining' <= BatchSize
    <3> DEFINE w == IF ev.type = "payload" THEN Batch[ev.id[1]] ELSE 1
    <3>1. w \in Nat
      BY <2>3
    <3>2. remaining' = remaining - w
      BY <2>4
    <3> HIDE DEF w
    <3> QED BY <3>1, <3>2, ShapeParts, EngineAssumption DEF EngineType
  <2>6. /\ engine' \in {"push", "report", "loop", "reconnect", "done"}
        /\ after' = after \/ after' = "report"
    BY <1>4 DEF HandleMessage, Stop
  <2>7. \/ todo' = todo  /\ count' = count
        \/ ev.type = "payload" /\ todo' = ItemsOf(ev.id[1]) /\ count' = ev.count
    BY <1>4 DEF HandleMessage, Stop
  <2> QED BY <2>2, <2>3, <2>4, <2>5, <2>6, <2>7, ShapeParts DEF EngineType
<1>5. CASE HandleRequest
  <2>1. /\ engine' \in {"loop", "done"} /\ unacked' \subseteq unacked
        /\ UNCHANGED <<after, remaining, todo, count>>
    BY <1>5 DEF HandleRequest, Stop
  <2> QED BY <2>1, ShapeParts DEF EngineType
<1>6. CASE DeadLetter
  <2>1. /\ engine' \in {"push", "report"} /\ unacked' \subseteq unacked
        /\ todo # <<>> /\ (todo' = Tail(todo) \/ todo' = <<>>)
        /\ UNCHANGED <<after, remaining, count>>
    BY <1>6 DEF DeadLetter
  <2>2. todo' \in Seq(Items)
    <3>1. todo \in Seq(Items)
      BY ShapeParts DEF EngineType
    <3>2. Tail(todo) \in Seq(Items) /\ <<>> \in Seq(Items)
      BY <2>1, <3>1
    <3> QED BY <2>1, <3>2
  <2> QED BY <2>1, <2>2, ShapeParts DEF EngineType
<1>7. CASE Push
  <2>1. /\ engine' \in {"done", "parked"} /\ after' \in {after, "stop"}
        /\ UNCHANGED <<remaining, unacked, todo, count>>
    BY <1>7 DEF Push, Stop
  <2> QED BY <2>1, ShapeParts DEF EngineType
<1>8. CASE Unpark
  <2>1. /\ engine' \in {"loop", "push"}
        /\ todo # <<>> => Head(todo) \in Items /\ Tail(todo) \in Seq(Items)
        /\ UNCHANGED <<after, remaining, count>>
    BY <1>8, ShapeParts DEF Unpark, EngineType
  <2>2. todo' = (IF todo = <<>> THEN todo ELSE Tail(todo))
        /\ unacked' = IF HasDelay /\ todo # <<>> THEN unacked \cup {Head(todo)} ELSE unacked
    BY <1>8 DEF Unpark
  <2> QED BY <2>1, <2>2, ShapeParts DEF EngineType
<1>9. CASE PushedAll
  <2>1. /\ engine' \in {"loop"} /\ after' \in {after, "stop"}
        /\ UNCHANGED <<remaining, unacked, todo, count>>
    BY <1>9 DEF PushedAll
  <2> QED BY <2>1, ShapeParts DEF EngineType
<1>10. CASE Report
  <2>1. /\ engine' \in {"done", "parked"} /\ after' \in {after, "stop"}
        /\ UNCHANGED <<remaining, unacked, todo, count>>
    BY <1>10 DEF Report, Stop
  <2> QED BY <2>1, ShapeParts DEF EngineType
<1>11. CASE CloseConsumer
  <2>1. /\ engine' \in {"subscribe"} /\ after' \in {after, "stop"}
        /\ UNCHANGED <<remaining, unacked, todo, count>>
    BY <1>11 DEF CloseConsumer
  <2> QED BY <2>1, ShapeParts DEF EngineType
<1>12. CASE Subscribe
  <2>1. /\ engine' = "loop" /\ remaining' = BatchSize
        /\ UNCHANGED <<after, unacked, todo, count>>
    BY <1>12 DEF Subscribe
  <2> QED BY <2>1, ShapeParts, EngineAssumption DEF EngineType
<1>13. CASE SubscribeFails
  <2>1. /\ engine' \in {"done", "report"} /\ after' \in {after, "stop"}
        /\ UNCHANGED <<remaining, unacked, todo, count>>
    BY <1>13 DEF SubscribeFails, Stop
  <2> QED BY <2>1, ShapeParts DEF EngineType
<1>14. CASE UNCHANGED engineVars
  BY <1>14, ShapeParts DEF EngineType, engineVars
<1>15. ASSUME \/ Forward \/ Tick \/ TickerStops \/ User \/ Broker \/ Neighbour
              \/ UNCHANGED vars
       PROVE  UNCHANGED engineVars
  BY <1>15 DEF Forward, ForwardMessage, ForwardRequest, ForwardEnd, Tick, TickerStops,
     User, Receive, Ask, AskReturns, DropConsumer, Settle, Broker, BrokerSends,
     BrokerNotifies, ConnectionDies, ConnectionPoisoned, Neighbour, NeighbourTakes,
     NeighbourCloses, vars
<1> QED
  BY <1>1, <1>2, <1>3, <1>4, <1>5, <1>6, <1>7, <1>8, <1>9, <1>10, <1>11, <1>12, <1>13,
     <1>14, <1>15 DEF Next, Engine

\* What the broker sends: the first entry that it may, or a notice.
LEMMA BrokerSent ==
    ASSUME Shape, BrokerSends
    PROVE  \E ev \in Events, e \in Entries :
             /\ sources' = [sources EXCEPT ![epoch] = Append(sources[epoch], ev)]
             /\ permits' = permits - Batch[e]
             /\ ev.type = "payload" /\ ev.id = <<e, 0>> /\ ev.epoch = epoch
             /\ Genuine(ev, acks)
<1>1. Sendable # {}
  BY DEF BrokerSends
<1>2. PICK e : /\ e = CHOOSE e1 \in Sendable : \A f \in Sendable : e1 <= f
               /\ e \in Entries /\ sent[e] \in 0..(MaxSends - 1)
  BY <1>1, FirstSendable DEF Shape
<1> DEFINE ev == Event("payload", <<e, 0>>, sent[e], epoch)
<1>3. /\ sources' = [sources EXCEPT ![epoch] = Append(sources[epoch], ev)]
      /\ permits' = permits - Batch[e]
  BY <1>2 DEF BrokerSends
<1>4. e \in Entries /\ <<e, 0>> \in Entries \X {0} /\ sent[e] \in 0..MaxSends
  <2>1. e \in Entries
    BY <1>2, Zenon
  <2> QED BY <2>1, ShapeParts DEF BrokerType
<1>5. epoch \in 0..MaxEpoch
  BY ShapeParts DEF BrokerType
<1>6. ev \in Events /\ ev.type = "payload" /\ ev.id = <<e, 0>> /\ ev.epoch = epoch
  <2>1. "payload" \in FromBroker \cup {"ack", "cumulative", "nack", "tick", "get", "gone"}
    BY DEF FromBroker
  <2>2. <<e, 0>> \in (Entries \X {0}) \cup Items \cup {None}
    BY <1>4
  <2> QED BY <1>4, <1>5, <2>1, <2>2, EventsType
<1> HIDE DEF ev
<1>7. Genuine(ev, acks)
  BY <1>4, <1>6 DEF Genuine
<1> QED BY <1>3, <1>4, <1>6, <1>7

LEMMA BrokerNotified ==
    ASSUME Shape, BrokerNotifies
    PROVE  \E ev \in Events :
             /\ sources' = [sources EXCEPT ![epoch] = Append(sources[epoch], ev)]
             /\ ev.type # "payload"
             /\ Genuine(ev, acks)
<1>1. PICK t \in Notices :
        sources' = [sources EXCEPT ![epoch] = Append(@, Event(t, None, 0, epoch))]
  BY DEF BrokerNotifies
<1>2. /\ t \in FromBroker /\ None \in (Entries \X {0}) \cup Items \cup {None}
      /\ 0 \in 0..MaxSends /\ epoch \in 0..MaxEpoch
  BY EngineAssumption, ShapeParts DEF Notices, FromBroker, BrokerType
<1> DEFINE ev == Event(t, None, 0, epoch)
<1>3. ev \in Events /\ ev.type = t
  BY <1>2, EventsType
<1>4. sources' = [sources EXCEPT ![epoch] = Append(sources[epoch], ev)]
  BY <1>1
<1> HIDE DEF ev
<1>5. ev.type \in {"change", "end", "close"}
  BY <1>3 DEF Notices
<1>6. Genuine(ev, acks)
  BY <1>5 DEF Genuine
<1> QED BY <1>3, <1>4, <1>5, <1>6

\* The inputs of the engine keep their type, and every event is genuine.
LEMMA InputsNext ==
    ASSUME Shape, [Next]_vars
    PROVE  InputsType' /\ EventsGenuine'
<1> DEFINE Fine(s) == s \in Seq(Events) /\ AllGenuine(s, acks)
<1>0. /\ \A ep \in 0..MaxEpoch : Fine(sources[ep])
      /\ Fine(requests) /\ Fine(events)
      /\ gone \in BOOLEAN /\ ticker \in {"none", "running", "stopped"}
      /\ sources \in [0..MaxEpoch -> Seq(Events)]
  BY ShapeParts DEF InputsType, EventsGenuine
<1>a. /\ \A s : Fine(s) /\ s # <<>> => Fine(Tail(s)) /\ Head(s) \in Events /\ Genuine(Head(s), acks)
      /\ \A s, ev : Fine(s) /\ ev \in Events /\ Genuine(ev, acks) => Fine(Append(s, ev))
  BY GenuineQueues
<1> HIDE DEF Fine
<1>q. ASSUME acks \subseteq acks', sources' \in [0..MaxEpoch -> Seq(Events)],
             \A ep \in 0..MaxEpoch : Fine(sources'[ep]),
             Fine(requests'), Fine(events'), gone' \in BOOLEAN,
             ticker' \in {"none", "running", "stopped"}
      PROVE  InputsType' /\ EventsGenuine'
  <2>1. \A s : Fine(s) => s \in Seq(Events) /\ AllGenuine(s, acks')
    BY <1>q, GenuineQueues DEF Fine
  <2> QED BY <1>q, <2>1 DEF InputsType, EventsGenuine
<1>1. CASE HandleMessage \/ HandleRequest
  <2>1. events # <<>> /\ events' = Tail(events)
    BY <1>1 DEF HandleMessage, HandleRequest
  <2>2. UNCHANGED <<sources, requests, gone, ticker, acks>>
    BY <1>1 DEF HandleMessage, HandleRequest, userVars
  <2>3. UNCHANGED <<sources, requests, gone, ticker, acks>> /\ Fine(events')
    BY <1>0, <1>a, <2>1, <2>2
  <2> QED BY <1>0, <1>q, <2>3
<1>2. ASSUME NEW ep \in 0..MaxEpoch, ForwardMessage(ep)
      PROVE  InputsType' /\ EventsGenuine'
  <2>1. /\ sources[ep] # <<>> /\ events' = Append(events, Head(sources[ep]))
        /\ sources' = [sources EXCEPT ![ep] = Tail(sources[ep])]
        /\ UNCHANGED <<requests, gone, ticker, acks>>
    BY <1>2 DEF ForwardMessage, userVars
  <2>2. Fine(events') /\ Fine(Tail(sources[ep]))
    BY <1>0, <1>a, <2>1
  <2>3. Tail(sources[ep]) \in Seq(Events)
    BY <2>2 DEF Fine
  <2> QED BY <1>0, <1>q, <2>1, <2>2, <2>3
<1>3. CASE ForwardRequest
  <2>1. /\ requests # <<>> /\ events' = Append(events, Head(requests))
        /\ requests' = Tail(requests)
        /\ UNCHANGED <<sources, gone, ticker, acks>>
    BY <1>3 DEF ForwardRequest, userVars
  <2>2. Fine(events') /\ Fine(requests')
    BY <1>0, <1>a, <2>1
  <2> QED BY <1>0, <1>q, <2>1, <2>2
<1>4. CASE ForwardEnd
  <2>1. /\ events' = Append(events, Request("gone", None)) /\ gone' = TRUE
        /\ UNCHANGED <<sources, requests, ticker, acks>>
    BY <1>4 DEF ForwardEnd, userVars
  <2>2. Request("gone", None) \in Events /\ Genuine(Request("gone", None), acks)
    BY EventsType DEF Genuine
  <2>3. Fine(events')
    BY <1>0, <1>a, <2>1, <2>2
  <2> QED BY <1>0, <1>q, <2>1, <2>3
<1>5. CASE Tick
  <2>1. /\ requests' = Append(requests, Request("tick", None))
        /\ UNCHANGED <<sources, events, gone, ticker, acks>>
    BY <1>5 DEF Tick, userVars
  <2>2. Request("tick", None) \in Events /\ Genuine(Request("tick", None), acks)
    BY EventsType DEF Genuine
  <2>3. Fine(requests')
    BY <1>0, <1>a, <2>1, <2>2
  <2> QED BY <1>0, <1>q, <2>1, <2>3
<1>6. CASE TickerStops
  <2>1. ticker' = "stopped" /\ UNCHANGED <<sources, requests, events, gone, acks>>
    BY <1>6 DEF TickerStops, userVars
  <2> QED BY <1>0, <1>q, <2>1
<1>7. CASE Ask
  <2>1. /\ requests' = requests \/ requests' = Append(requests, Request("get", None))
        /\ UNCHANGED <<sources, events, gone, ticker, acks>>
    BY <1>7 DEF Ask
  <2>2. Request("get", None) \in Events /\ Genuine(Request("get", None), acks)
    BY EventsType DEF Genuine
  <2>3. Fine(requests')
    BY <1>0, <1>a, <2>1, <2>2
  <2> QED BY <1>0, <1>q, <2>1, <2>3
<1>8. ASSUME NEW x \in Items, NEW t \in Settling, Settle(t, x)
      PROVE  InputsType' /\ EventsGenuine'
  <2>1. /\ requests' = requests \/ requests' = Append(requests, Request(t, x))
        /\ acks' = IF t = "nack" THEN acks ELSE acks \cup {x}
        /\ UNCHANGED <<sources, events, gone, ticker>>
    BY <1>8 DEF Settle
  <2>2. t \in {"ack", "cumulative", "nack"}
    BY EngineAssumption
  <2>3. Request(t, x) \in Events /\ Genuine(Request(t, x), acks')
    BY <2>1, <2>2, EventsType DEF Genuine
  <2>4. acks \subseteq acks'
    BY <2>1
  <2>5. \A s : Fine(s) => s \in Seq(Events) /\ AllGenuine(s, acks')
    BY <2>4, GenuineQueues DEF Fine
  <2>6. requests' \in Seq(Events) /\ AllGenuine(requests', acks')
    <3>1. requests \in Seq(Events) /\ AllGenuine(requests, acks')
      BY <1>0, <2>5
    <3> DEFINE ev == Request(t, x)
    <3>2. ev \in Events /\ Genuine(ev, acks')
      BY <2>3
    <3> HIDE DEF ev
    <3>3. Append(requests, ev) \in Seq(Events) /\ AllGenuine(Append(requests, ev), acks')
      BY <3>1, <3>2, GenuineQueues
    <3> QED BY <2>1, <3>1, <3>3 DEF ev
  <2> QED BY <1>0, <2>1, <2>5, <2>6 DEF InputsType, EventsGenuine
<1>9. CASE BrokerSends \/ BrokerNotifies
  <2>1. PICK ev : /\ sources' = [sources EXCEPT ![epoch] = Append(sources[epoch], ev)]
                  /\ ev \in Events /\ Genuine(ev, acks)
    BY <1>9, BrokerSent, BrokerNotified
  <2>2. UNCHANGED <<requests, events, gone, ticker, acks>>
    BY <1>9 DEF BrokerSends, BrokerNotifies, userVars
  <2>3. epoch \in 0..MaxEpoch
    BY ShapeParts DEF BrokerType
  <2>4. Fine(Append(sources[epoch], ev))
    BY <1>0, <1>a, <2>1, <2>3
  <2>5. Append(sources[epoch], ev) \in Seq(Events)
    BY <2>4 DEF Fine
  <2> QED BY <1>0, <1>q, <2>1, <2>2, <2>3, <2>4, <2>5
<1>u. CASE UNCHANGED inputs /\ UNCHANGED acks
  BY <1>0, <1>q, <1>u DEF inputs
<1>10. ASSUME \/ CheckConnection \/ SendFlow \/ Idle \/ DeadLetter \/ Push \/ Unpark
              \/ PushedAll \/ Report \/ CloseConsumer \/ Subscribe \/ SubscribeFails
              \/ Receive \/ AskReturns \/ DropConsumer
              \/ ConnectionDies \/ ConnectionPoisoned \/ Neighbour \/ UNCHANGED vars
       PROVE  UNCHANGED inputs /\ UNCHANGED acks
  BY <1>10 DEF CheckConnection, SendFlow, Idle, DeadLetter, Push, Unpark, PushedAll,
     Report, CloseConsumer, Subscribe, SubscribeFails, Receive, AskReturns, DropConsumer,
     ConnectionDies, ConnectionPoisoned, Neighbour, NeighbourTakes, NeighbourCloses, vars,
     inputs, userVars
<1> QED
  BY <1>1, <1>2, <1>3, <1>4, <1>5, <1>6, <1>7, <1>8, <1>9, <1>u, <1>10
     DEF Next, Engine, Forward, User, Broker

\* The queue to the user keeps its type, and its bound.
LEMMA UserNext ==
    ASSUME Shape, [Next]_vars
    PROVE  UserType' /\ Room'
<1>0. /\ queue \in Seq(Items \cup {None}) /\ Len(queue) <= QueueSize + 1
      /\ user \in {"idle", "asking", "dropped"} /\ answered \in BOOLEAN
      /\ held \subseteq Items /\ acks \subseteq Items
      /\ engine # "parked" => Len(queue) <= QueueSize
      /\ user = "dropped" => queue = <<>>
      /\ QueueSize \in Nat
  BY ShapeParts, EngineAssumption DEF UserType, Room
<1>1. CASE Push \/ Report
  <2>1. PICK m \in Items \cup {None} :
          /\ engine # "parked"
          /\ IF user = "dropped" THEN queue' = queue ELSE queue' = Append(queue, m)
          /\ engine' = IF user = "dropped" THEN "done" ELSE "parked"
    <3>1. CASE Push
      <4>1. Head(todo) \in Items
        BY <3>1, ShapeParts DEF Push, EngineType
      <4> QED BY <3>1, <4>1 DEF Push, Stop
    <3>2. CASE Report
      BY <3>2 DEF Report, Stop
    <3> QED BY <1>1, <3>1, <3>2
  <2>2. UNCHANGED <<user, answered, held, acks>>
    BY <1>1 DEF Push, Report, userVars
  <2>3. Append(queue, m) \in Seq(Items \cup {None}) /\ Len(Append(queue, m)) = Len(queue) + 1
    BY <1>0
  <2> QED BY <1>0, <2>1, <2>2, <2>3 DEF UserType, Room
<1>2. CASE Unpark
  <2>1. /\ Len(queue) <= QueueSize \/ user = "dropped"
        /\ UNCHANGED <<queue, user, answered, held, acks>>
    BY <1>2 DEF Unpark, userVars
  <2>2. Len(queue) <= QueueSize
    BY <1>0, <2>1
  <2> QED BY <1>0, <2>1, <2>2 DEF UserType, Room
<1>3. CASE Receive
  <2>1. /\ user = "idle" /\ queue # <<>> /\ queue' = Tail(queue)
        /\ held' = IF Head(queue) = None THEN held ELSE held \cup {Head(queue)}
        /\ UNCHANGED <<engine, user, answered, acks>>
    BY <1>3 DEF Receive, engineVars
  <2>2. /\ Head(queue) \in Items \cup {None} /\ Tail(queue) \in Seq(Items \cup {None})
        /\ Len(Tail(queue)) = Len(queue) - 1
    BY <1>0, <2>1
  <2>3. held' \subseteq Items
    BY <1>0, <2>1, <2>2
  <2> QED BY <1>0, <2>1, <2>2, <2>3 DEF UserType, Room
<1>4. ASSUME NEW x \in Items, NEW t \in Settling, Settle(t, x)
      PROVE  UserType' /\ Room'
  <2>1. /\ held' = held \ {x} /\ acks' \subseteq acks \cup {x}
        /\ UNCHANGED <<engine, queue, user, answered>>
    BY <1>4 DEF Settle, engineVars
  <2> QED BY <1>0, <2>1 DEF UserType, Room
<1>5. CASE Ask \/ AskReturns
  <2>1. /\ user # "dropped" /\ user' \in {"idle", "asking"}
        /\ answered' = answered \/ answered' = FALSE
        /\ UNCHANGED <<engine, queue, held, acks>>
    BY <1>5 DEF Ask, AskReturns, engineVars
  <2> QED BY <1>0, <2>1 DEF UserType, Room
<1>6. CASE DropConsumer
  <2>1. /\ user' = "dropped" /\ queue' = <<>>
        /\ UNCHANGED <<engine, answered, held, acks>>
    BY <1>6 DEF DropConsumer, engineVars
  <2> QED BY <1>0, <2>1 DEF UserType, Room
<1>7. ASSUME engine' = engine \/ engine # "parked",
             UNCHANGED <<queue, user, held, acks>>, answered' = answered \/ answered' = TRUE
      PROVE  UserType' /\ Room'
  BY <1>0, <1>7 DEF UserType, Room
<1>8. ASSUME CheckConnection \/ SendFlow \/ Idle \/ HandleMessage \/ HandleRequest
             \/ DeadLetter \/ PushedAll \/ CloseConsumer \/ Subscribe \/ SubscribeFails
      PROVE  /\ engine # "parked" /\ UNCHANGED <<queue, user, held, acks>>
             /\ answered' = answered \/ answered' = TRUE
  BY <1>8 DEF CheckConnection, SendFlow, Idle, HandleMessage, HandleRequest, DeadLetter,
     PushedAll, CloseConsumer, Subscribe, SubscribeFails, userVars
<1>9. ASSUME \/ \E ep \in 0..MaxEpoch : ForwardMessage(ep)
             \/ ForwardRequest \/ ForwardEnd \/ Tick \/ TickerStops \/ Broker \/ Neighbour
             \/ UNCHANGED vars
      PROVE  UNCHANGED <<engine, queue, user, held, acks, answered>>
  BY <1>9 DEF ForwardMessage, ForwardRequest, ForwardEnd, Tick, TickerStops, Broker,
     BrokerSends, BrokerNotifies, ConnectionDies, ConnectionPoisoned, Neighbour,
     NeighbourTakes, NeighbourCloses, vars, userVars, engineVars
<1> QED
  BY <1>1, <1>2, <1>3, <1>4, <1>5, <1>6, <1>7, <1>8, <1>9 DEF Next, Engine, Forward, User

\* The engine takes an entry in hand only to push its messages.
LEMMA InHandNext ==
    ASSUME Shape, [Next]_vars
    PROVE  InHand'
<1>0. InHand
  BY ShapeParts
<1>1. CASE HandleMessage \/ HandleRequest
  <2>1. engine = "wait" /\ (todo' = todo \/ engine' = "push")
    BY <1>1 DEF HandleMessage, HandleRequest
  <2> QED BY <1>0, <2>1 DEF InHand
<1>2. CASE DeadLetter \/ Push \/ Unpark \/ PushedAll \/ Report
  <2>1. \/ todo' = <<>> \/ engine' \in {"push", "parked", "done"}
        \/ engine = "report" /\ todo' = todo
    <3>1. CASE DeadLetter
      <4>1. engine = "push" /\ (engine' = engine \/ todo' = <<>>)
        BY <3>1 DEF DeadLetter
      <4> QED BY <4>1
    <3>2. CASE Push \/ PushedAll \/ Report
      BY <3>2 DEF Push, PushedAll, Report, Stop
    <3>3. CASE Unpark
      <4>1. IF todo = <<>> THEN todo' = todo ELSE engine' = "push"
        BY <3>3 DEF Unpark
      <4> QED BY <4>1
    <3> QED BY <1>2, <3>1, <3>2, <3>3
  <2> QED BY <1>0, <2>1 DEF InHand
<1>3. ASSUME CheckConnection \/ SendFlow \/ Idle \/ CloseConsumer \/ Subscribe \/ SubscribeFails
      PROVE  engine \in {"loop", "flow", "wait", "reconnect", "subscribe"} /\ todo' = todo
  BY <1>3 DEF CheckConnection, SendFlow, Idle, CloseConsumer, Subscribe, SubscribeFails
<1>4. ASSUME \/ \E ep \in 0..MaxEpoch : ForwardMessage(ep)
             \/ ForwardRequest \/ ForwardEnd \/ Tick \/ TickerStops \/ User \/ Broker
             \/ Neighbour \/ UNCHANGED vars
      PROVE  UNCHANGED <<engine, todo>>
  BY <1>4 DEF ForwardMessage, ForwardRequest, ForwardEnd, Tick, TickerStops, Broker,
     BrokerSends, BrokerNotifies, ConnectionDies, ConnectionPoisoned, Neighbour,
     NeighbourTakes, NeighbourCloses, vars, engineVars,
     User, Receive, Ask, AskReturns, DropConsumer, Settle
<1>5. ASSUME \/ engine \in {"loop", "flow", "wait", "reconnect", "subscribe"} /\ todo' = todo
             \/ UNCHANGED <<engine, todo>>
      PROVE  InHand'
  BY <1>0, <1>5 DEF InHand
<1> QED
  BY <1>1, <1>2, <1>3, <1>4, <1>5 DEF Next, Engine, Forward

\* The broker, the connection and the dead letter topic keep their type.
LEMMA BrokerNext ==
    ASSUME Shape, [Next]_vars
    PROVE  BrokerType'
<1>0. /\ alive \in BOOLEAN /\ flag \in BOOLEAN /\ attached \in BOOLEAN
      /\ epoch \in 0..MaxEpoch /\ permits \in Int /\ notices \in 0..MaxNotices
      /\ sent \in [Entries -> 0..MaxSends] /\ outstanding \subseteq Entries
      /\ acked \subseteq Items /\ dead \subseteq Items /\ asked \subseteq Items
      /\ {MaxSends, MaxEpoch, MaxNotices} \subseteq Nat /\ BatchSize \in Nat \ {0}
      /\ remaining \in Int /\ unacked \subseteq Items
  BY ShapeParts, EngineAssumption DEF BrokerType, EngineType
<1>1. CASE CheckConnection \/ CloseConsumer \/ ConnectionDies \/ SubscribeFails
           \/ Push \/ Report \/ HandleMessage \/ Neighbour
  <2>1. /\ alive' = alive \/ alive' = FALSE
        /\ flag' = flag \/ flag' = FALSE \/ flag' = TRUE \/ flag' = (flag \/ ~alive)
        /\ attached' = attached \/ attached' = FALSE
        /\ UNCHANGED <<epoch, permits, notices, sent, outstanding, acked, dead, asked>>
    BY <1>1 DEF CheckConnection, CloseConsumer, ConnectionDies, SubscribeFails, Push, Report,
       HandleMessage, Neighbour, NeighbourTakes, NeighbourCloses, Stop, connVars, brokerVars
  <2>2. alive' \in BOOLEAN /\ flag' \in BOOLEAN /\ attached' \in BOOLEAN
    BY <1>0, <2>1
  <2> QED BY <1>0, <2>1, <2>2 DEF BrokerType
<1>2. CASE SendFlow
  <2>1. /\ permits' \in {permits, permits + (BatchSize - remaining)}
        /\ UNCHANGED <<alive, flag, attached, epoch, notices, sent, outstanding, acked,
                       dead, asked>>
    BY <1>2 DEF SendFlow, connVars
  <2> QED BY <1>0, <2>1 DEF BrokerType
<1>3. CASE HandleRequest
  <2>1. PICK ev : ev = Head(events)
    OBVIOUS
  <2>2. ev \in Events /\ Genuine(ev, acks)
    BY <1>3, <2>1, HeadEvent DEF HandleRequest
  <2>3. ev.type \in {"ack", "cumulative", "nack"} => ev.id \in Items /\ ev.id[1] \in Entries
    BY <2>2, ItemsType DEF Genuine
  <2>4. /\ attached' = attached \/ attached' = FALSE
        /\ UNCHANGED <<alive, flag, epoch, permits, notices, sent, dead>>
    BY <1>3 DEF HandleRequest, Stop, connVars
  <2>5. acked' \subseteq Items /\ asked' \subseteq Items /\ outstanding' \subseteq Entries
    <3>1. /\ \/ acked' = acked
             \/ ev.type = "ack" /\ acked' = acked \cup {ev.id}
             \/ \E S \in SUBSET Items : acked' = acked \cup S
          /\ \/ outstanding' = outstanding
             \/ ev.type = "nack" /\ outstanding' = outstanding \ {x[1] : x \in {ev.id}}
             \/ \E S \in SUBSET unacked : outstanding' = outstanding \ {x[1] : x \in S}
             \/ ev.type = "nack" /\ outstanding' = outstanding \cup {x[1] : x \in {ev.id}}
             \/ \E S \in SUBSET unacked : outstanding' = outstanding \cup {x[1] : x \in S}
          /\ asked' = asked \/ \E S \in SUBSET unacked : asked' = asked \cup S
      BY <1>3, <2>1 DEF HandleRequest, Acknowledge, Redeliver, Stop
    <3> QED BY <1>0, <2>3, <3>1, ItemsType
  <2> QED BY <1>0, <2>4, <2>5 DEF BrokerType
<1>4. CASE DeadLetter
  <2>1. /\ todo # <<>>
        /\ dead' = dead \/ dead' = dead \cup {Head(todo)}
        /\ acked' = acked \/ acked' = acked \cup {Head(todo)}
        /\ UNCHANGED <<alive, flag, attached, epoch, permits, notices, sent, outstanding, asked>>
    BY <1>4 DEF DeadLetter, Acknowledge, connVars
  <2>2. Head(todo) \in Items
    BY <2>1, ShapeParts DEF EngineType
  <2> QED BY <1>0, <2>1, <2>2 DEF BrokerType
<1>5. CASE Subscribe
  <2>1. /\ epoch < MaxEpoch /\ epoch' = epoch + 1 /\ alive' = TRUE /\ flag' = FALSE
        /\ attached' = TRUE /\ permits' = BatchSize /\ outstanding' = {}
        /\ UNCHANGED <<notices, sent, acked, dead, asked>>
    BY <1>5 DEF Subscribe
  <2>2. epoch' \in 0..MaxEpoch /\ permits' \in Int
    BY <1>0, <2>1
  <2>3. alive' \in BOOLEAN /\ flag' \in BOOLEAN /\ attached' \in BOOLEAN
    BY <2>1
  <2> QED BY <1>0, <2>1, <2>2, <2>3 DEF BrokerType
<1>6. CASE AskReturns
  <2>1. /\ attached' = attached \/ attached' = (attached /\ ~answered)
        /\ UNCHANGED <<alive, flag, epoch, permits, notices, sent, outstanding, acked, dead, asked>>
    BY <1>6 DEF AskReturns, connVars
  <2>2. attached' \in BOOLEAN
    BY <1>0, <2>1
  <2> QED BY <1>0, <2>1, <2>2 DEF BrokerType
<1>7. CASE BrokerSends
  <2>1. Sendable # {}
    BY <1>7 DEF BrokerSends
  <2>2. PICK e : /\ e = CHOOSE e1 \in Sendable : \A f \in Sendable : e1 <= f
                 /\ e \in Entries /\ sent[e] \in 0..(MaxSends - 1)
    BY <2>1, FirstSendable DEF Shape
  <2>3. /\ permits' = permits - Batch[e] /\ sent' = [sent EXCEPT ![e] = sent[e] + 1]
        /\ outstanding' = outstanding \cup {e}
        /\ UNCHANGED <<alive, flag, attached, epoch, notices, acked, dead, asked>>
    BY <1>7, <2>2 DEF BrokerSends, connVars
  <2>4. e \in Entries /\ sent[e] + 1 \in 0..MaxSends /\ Batch[e] \in Nat
    <3>1. e \in Entries /\ sent[e] \in 0..(MaxSends - 1)
      BY <2>2, Zenon
    <3> QED BY <1>0, <3>1, ItemsType
  <2>5. sent' \in [Entries -> 0..MaxSends] /\ permits' \in Int /\ outstanding' \subseteq Entries
    BY <1>0, <2>3, <2>4
  <2> QED BY <1>0, <2>3, <2>5 DEF BrokerType
<1>8. CASE BrokerNotifies \/ ConnectionPoisoned
  <2>1. /\ notices < MaxNotices /\ notices' = notices + 1
        /\ flag' = flag \/ flag' = TRUE
        /\ attached' = attached \/ \E t \in Notices : attached' = (t # "close")
        /\ UNCHANGED <<alive, epoch, permits, sent, outstanding, acked, dead, asked>>
    BY <1>8 DEF BrokerNotifies, ConnectionPoisoned, connVars
  <2>2. attached' \in BOOLEAN /\ flag' \in BOOLEAN
    BY <1>0, <2>1
  <2> QED BY <1>0, <2>1, <2>2 DEF BrokerType
<1>9. ASSUME UNCHANGED <<connVars, brokerVars, dead, asked>>
      PROVE  BrokerType'
  BY <1>0, <1>9 DEF BrokerType, connVars, brokerVars
<1>10. ASSUME \/ Idle \/ PushedAll \/ ForwardRequest \/ ForwardEnd
              \/ \E ep \in 0..MaxEpoch : ForwardMessage(ep)
              \/ Tick \/ TickerStops \/ Receive \/ Ask \/ DropConsumer
              \/ \E x \in Items, t \in Settling : Settle(t, x)
              \/ UNCHANGED vars
       PROVE  UNCHANGED <<connVars, brokerVars, dead, asked>>
  BY <1>10 DEF Idle, PushedAll, ForwardRequest, ForwardEnd, ForwardMessage, Tick,
     TickerStops, Receive, Ask, DropConsumer, Settle, vars
<1>11. CASE Unpark
  <2>1. UNCHANGED <<connVars, brokerVars, dead>> /\ asked' \subseteq asked
    BY <1>11 DEF Unpark
  <2> QED BY <1>0, <2>1 DEF BrokerType, connVars, brokerVars
<1> QED
  BY <1>1, <1>2, <1>3, <1>4, <1>5, <1>6, <1>7, <1>8, <1>9, <1>10, <1>11
     DEF Next, Engine, Forward, User, Broker

\* Another engine leaves the connection in two steps.
LEMMA NeighbourNext ==
    ASSUME Shape, [Next]_vars
    PROVE  NeighbourType'
<1>0. neighbour \in {"sharing", "closing", "left"}
  BY ShapeParts DEF NeighbourType
<1>1. CASE Neighbour
  <2>1. neighbour' \in {"closing", "left"}
    BY <1>1 DEF Neighbour, NeighbourTakes, NeighbourCloses
  <2> QED BY <2>1 DEF NeighbourType
<1>2. ASSUME Engine
      PROVE  neighbour' = neighbour
  BY <1>2 DEF Engine, CheckConnection, SendFlow, Idle, HandleMessage, HandleRequest,
     DeadLetter, Push, Unpark, PushedAll, Report, CloseConsumer, Subscribe, SubscribeFails,
     connVars
<1>3. ASSUME Forward \/ Tick \/ TickerStops \/ User \/ Broker \/ UNCHANGED vars
      PROVE  neighbour' = neighbour
  BY <1>3 DEF Forward, ForwardMessage, ForwardRequest, ForwardEnd, Tick, TickerStops,
     User, Receive, Ask, AskReturns, DropConsumer, Settle, Broker, BrokerSends,
     BrokerNotifies, ConnectionDies, ConnectionPoisoned, vars, connVars
<1>4. ASSUME neighbour' = neighbour
      PROVE  NeighbourType'
  BY <1>0, <1>4 DEF NeighbourType
<1> QED BY <1>1, <1>2, <1>3, <1>4 DEF Next

LEMMA ShapeNext == Shape /\ [Next]_vars => Shape'
<1>1. ASSUME Shape, [Next]_vars
      PROVE  TypeOK' <=> /\ EngineType' /\ InputsType' /\ UserType' /\ BrokerType'
                         /\ NeighbourType'
  BY TypeParts, PTL
<1> QED
  BY <1>1, EngineTypeNext, InputsNext, UserNext, InHandNext, BrokerNext, NeighbourNext
     DEF Shape

LEMMA ShapeAlways == Spec => []Shape
<1>1. Shape /\ [Next]_vars => Shape'
  BY ShapeNext
<1> QED BY InitShape, <1>1, PTL DEF Spec

\* The state of a consumer keeps its type, and the queue to the user its bound.
THEOREM TypeCorrect == Spec => []TypeOK
<1>1. Shape => TypeOK
  BY DEF Shape
<1> QED BY ShapeAlways, <1>1, PTL

-----------------------------------------------------------------------------
(* What is acknowledged, and what is tracked. *)

LEMMA InitInv == Init => Inv
<1> SUFFICES ASSUME Init PROVE Inv
  OBVIOUS
<1>1. AckedWereHandled
  BY DEF Init, AckedWereHandled
<1>2. Tracked
  BY DEF Init, Tracked, InUserHands
<1> QED BY <1>1, <1>2, InitShape DEF Inv

\* Only a request of the user and a message in the dead letter topic are
\* acknowledged, and neither is taken back.
LEMMA AckedNext ==
    ASSUME Shape, AckedWereHandled, [Next]_vars
    PROVE  AckedWereHandled'
<1> DEFINE Handled(x) ==
             \/ x \in dead'
             \/ \E y \in acks' : x[1] < y[1] \/ (x[1] = y[1] /\ x[2] <= y[2])
<1>1. ASSUME dead \subseteq dead', acks \subseteq acks',
             \A x \in acked' : x \in acked \/ Handled(x)
      PROVE  AckedWereHandled'
  BY <1>1 DEF AckedWereHandled
<1>2. CASE HandleRequest
  <2>1. PICK ev : ev = Head(events)
    OBVIOUS
  <2>2. ev \in Events /\ Genuine(ev, acks)
    BY <1>2, <2>1, HeadEvent DEF HandleRequest
  <2>3. /\ \/ acked' = acked
           \/ ev.type = "ack" /\ acked' = acked \cup {ev.id}
           \/ /\ ev.type = "cumulative"
              /\ acked' = acked \cup
                   {x \in Items : x[1] < ev.id[1] \/ (x[1] = ev.id[1] /\ x[2] <= ev.id[2])}
        /\ UNCHANGED <<dead, acks>>
    BY <1>2, <2>1 DEF HandleRequest, Acknowledge, Stop
  <2>4. ev.type \in {"ack", "cumulative"} =>
           ev.id \in acks /\ ev.id[1] \in Nat /\ ev.id[2] \in Nat
    BY <2>2, ItemsType DEF Genuine
  <2>5. \A x \in acked' : x \in acked \/ Handled(x)
    BY <2>3, <2>4
  <2> QED BY <1>1, <2>3, <2>5
<1>3. CASE DeadLetter
  <2>1. /\ \/ dead' = dead /\ acked' = acked
           \/ dead' = dead \cup {Head(todo)} /\ acked' \subseteq acked \cup {Head(todo)}
        /\ acks' = acks
    BY <1>3 DEF DeadLetter, Acknowledge, userVars
  <2> QED BY <1>1, <2>1
<1>4. ASSUME NEW x \in Items, NEW t \in Settling, Settle(t, x)
      PROVE  AckedWereHandled'
  <2>1. acks \subseteq acks' /\ UNCHANGED <<acked, dead>>
    BY <1>4 DEF Settle, brokerVars
  <2> QED BY <1>1, <2>1
<1>5. ASSUME UNCHANGED <<acks, acked, dead>>
      PROVE  AckedWereHandled'
  BY <1>1, <1>5
<1>6. ASSUME \/ CheckConnection \/ SendFlow \/ Idle \/ HandleMessage \/ Push \/ Unpark
             \/ PushedAll \/ Report \/ CloseConsumer \/ Subscribe \/ SubscribeFails
             \/ Forward \/ Tick \/ TickerStops \/ Receive \/ Ask \/ AskReturns \/ DropConsumer
             \/ Broker \/ Neighbour \/ UNCHANGED vars
      PROVE  UNCHANGED <<acks, acked, dead>>
  BY <1>6 DEF CheckConnection, SendFlow, Idle, HandleMessage, Push, Unpark, PushedAll,
     Report, CloseConsumer, Subscribe, SubscribeFails, Forward, ForwardMessage,
     ForwardRequest, ForwardEnd, Tick, TickerStops, Receive, Ask, AskReturns, DropConsumer,
     Broker, BrokerSends, BrokerNotifies, ConnectionDies, ConnectionPoisoned, Stop,
     Neighbour, NeighbourTakes, NeighbourCloses, vars, userVars, brokerVars
<1> QED BY <1>2, <1>3, <1>4, <1>5, <1>6 DEF Next, Engine, User

\* What a step adds to the user's hands.
LEMMA HandsOf ==
    ASSUME NEW s \in Seq(Items \cup {None})
    PROVE  LET Hands(q) == {q[i] : i \in {j \in DOMAIN q : q[j] # None}} IN
           /\ Hands(<<>>) = {}
           /\ s # <<>> => /\ Hands(Tail(s)) \subseteq Hands(s)
                          /\ Head(s) # None => Head(s) \in Hands(s)
           /\ \A m \in Items \cup {None} : \A x \in Hands(Append(s, m)) :
                 x \in Hands(s) \/ (x = m /\ m # None)
<1> DEFINE Hands(q) == {q[i] : i \in {j \in DOMAIN q : q[j] # None}}
<1>1. Hands(<<>>) = {}
  OBVIOUS
<1>2. ASSUME s # <<>>
      PROVE  Hands(Tail(s)) \subseteq Hands(s) /\ (Head(s) # None => Head(s) \in Hands(s))
  <2>1. /\ \A i \in DOMAIN Tail(s) : i + 1 \in DOMAIN s /\ Tail(s)[i] = s[i + 1]
        /\ 1 \in DOMAIN s /\ Head(s) = s[1]
    BY <1>2
  <2> QED BY <2>1
<1>3. ASSUME NEW m \in Items \cup {None}, NEW x \in Hands(Append(s, m))
      PROVE  x \in Hands(s) \/ (x = m /\ m # None)
  <2>1. \A i \in DOMAIN Append(s, m) :
           \/ i \in DOMAIN s /\ Append(s, m)[i] = s[i]
           \/ Append(s, m)[i] = m
    OBVIOUS
  <2> QED BY <2>1
<1> QED BY <1>1, <1>2, <1>3

\* The redelivery delay is the configuration's: a ticker that stops had one.
LEMMA DelayStays == [Next]_vars => (HasDelay' <=> HasDelay)
<1> SUFFICES ASSUME [Next]_vars PROVE HasDelay' <=> HasDelay
  OBVIOUS
<1>1. CASE TickerStops
  BY <1>1 DEF TickerStops, HasDelay
<1>2. ASSUME Engine
      PROVE  ticker' = ticker
  BY <1>2 DEF Engine, CheckConnection, SendFlow, Idle, HandleMessage, HandleRequest,
     DeadLetter, Push, Unpark, PushedAll, Report, CloseConsumer, Subscribe, SubscribeFails,
     inputs
<1>3. ASSUME Forward \/ Tick \/ User \/ Broker \/ Neighbour \/ UNCHANGED vars
      PROVE  ticker' = ticker
  BY <1>3 DEF Forward, ForwardMessage, ForwardRequest, ForwardEnd, Tick,
     User, Receive, Ask, AskReturns, DropConsumer, Settle, Broker, BrokerSends,
     BrokerNotifies, ConnectionDies, ConnectionPoisoned, Neighbour, NeighbourTakes,
     NeighbourCloses, vars, inputs
<1> QED BY <1>1, <1>2, <1>3 DEF Next, HasDelay

\* A message comes to the user through the queue, and is tracked as soon as
\* the engine has pushed it.
LEMMA TrackedNext ==
    ASSUME Shape, Tracked, [Next]_vars
    PROVE  Tracked'
<1> DEFINE Safe == unacked \cup asked \cup acks \cup dead
           Hands(q) == {q[i] : i \in {j \in DOMAIN q : q[j] # None}}
<1>d. HasDelay' <=> HasDelay
  BY DelayStays
<1>0. /\ queue \in Seq(Items \cup {None}) /\ todo \in Seq(Items)
      /\ InUserHands = held \cup Hands(queue)
      /\ InUserHands' = held' \cup Hands(queue')
  BY ShapeParts DEF UserType, EngineType, InUserHands
<1>h. /\ Hands(<<>>) = {}
      /\ queue # <<>> => /\ Hands(Tail(queue)) \subseteq Hands(queue)
                         /\ Head(queue) # None => Head(queue) \in Hands(queue)
      /\ \A m \in Items \cup {None} : \A x \in Hands(Append(queue, m)) :
            x \in Hands(queue) \/ (x = m /\ m # None)
  BY <1>0, HandsOf
<1>1. ASSUME \/ engine' = engine /\ todo' = todo
             \/ engine \notin {"parked", "done"}
             \/ engine' = "done",
             Safe \subseteq Safe', InUserHands' \subseteq InUserHands
      PROVE  Tracked'
  <2> SUFFICES ASSUME HasDelay, engine' # "done", NEW x \in InUserHands'
               PROVE  \/ x \in Safe'
                      \/ engine' = "parked" /\ todo' # <<>> /\ x = Head(todo')
    BY <1>d DEF Tracked
  <2>1. engine # "done"
    BY <1>1
  <2>2. x \in Safe \/ (engine = "parked" /\ todo # <<>> /\ x = Head(todo))
    BY <1>1, <2>1 DEF Tracked
  <2> QED BY <1>1, <2>2
<1>2. CASE Push \/ Report
  <2>1. engine' = "done" \/ engine' = "parked"
    BY <1>2 DEF Push, Report, Stop
  <2>2. CASE engine' = "done"
    BY <2>2 DEF Tracked
  <2>3. CASE engine' = "parked"
    <3>1. PICK m \in Items \cup {None} :
            /\ queue' = Append(queue, m)
            /\ m # None => todo # <<>> /\ m = Head(todo)
            /\ UNCHANGED <<todo, held, Safe>>
            /\ engine \in {"push", "report"}
      <4>1. CASE Push
        <5>1. /\ todo # <<>> /\ queue' = Append(queue, Head(todo)) /\ engine = "push"
              /\ UNCHANGED <<todo, held, Safe>>
          BY <2>3, <4>1 DEF Push, Stop, userVars
        <5>2. Head(todo) \in Items
          BY <1>0, <5>1
        <5> QED BY <5>1, <5>2
      <4>2. CASE Report
        BY <2>3, <4>2 DEF Report, Stop, userVars
      <4> QED BY <1>2, <4>1, <4>2
    <3> SUFFICES ASSUME HasDelay, NEW x \in InUserHands'
                 PROVE  \/ x \in Safe'
                        \/ engine' = "parked" /\ todo' # <<>> /\ x = Head(todo')
      BY <1>d DEF Tracked
    <3>2. x \in held \/ x \in Hands(Append(queue, m))
      BY <1>0, <3>1
    <3>3. x \in InUserHands \/ (x = m /\ m # None)
      BY <1>0, <1>h, <3>2
    <3>4. CASE x \in InUserHands
      <4>1. x \in Safe
        BY <3>1, <3>4 DEF Tracked
      <4> QED BY <3>1, <4>1
    <3> QED BY <2>3, <3>1, <3>3, <3>4
  <2> QED BY <2>1, <2>2, <2>3
<1>3. CASE Unpark
  <2>1. /\ engine = "parked" /\ UNCHANGED <<queue, held, acks, dead>>
        /\ unacked' = IF HasDelay /\ todo # <<>> THEN unacked \cup {Head(todo)} ELSE unacked
        /\ asked' = IF HasDelay /\ todo # <<>> THEN asked \ {Head(todo)} ELSE asked
    BY <1>3 DEF Unpark, userVars
  <2> SUFFICES ASSUME HasDelay, NEW x \in InUserHands'
               PROVE  x \in Safe'
    BY <1>d DEF Tracked
  <2>2. x \in Safe \/ (todo # <<>> /\ x = Head(todo))
    BY <1>0, <2>1 DEF Tracked
  <2> QED BY <2>1, <2>2
<1>4. CASE HandleRequest
  <2>1. PICK ev : ev = Head(events)
    OBVIOUS
  <2>2. Genuine(ev, acks)
    BY <1>4, <2>1, HeadEvent DEF HandleRequest
  <2>3. /\ engine = "wait" /\ UNCHANGED <<queue, held, acks, dead>>
        /\ \/ ev.type \in {"ack", "cumulative"} /\ unacked' = unacked \ {ev.id} /\ asked' = asked
           \/ \E S \in SUBSET unacked : unacked' = unacked \ S /\ asked' = asked \cup S
           \/ unacked' = unacked /\ asked' = asked
    BY <1>4, <2>1 DEF HandleRequest
  <2>4. Safe \subseteq Safe'
    BY <2>2, <2>3 DEF Genuine
  <2> QED BY <1>0, <1>1, <2>3, <2>4
<1>5. CASE DeadLetter
  <2>1. /\ engine = "push" /\ UNCHANGED <<queue, held, acks, asked>>
        /\ \/ dead' = dead \cup {Head(todo)} /\ unacked' = unacked \ {Head(todo)}
           \/ dead' = dead /\ unacked' = unacked
    BY <1>5 DEF DeadLetter, userVars
  <2> QED BY <1>0, <1>1, <2>1
<1>6. CASE Receive
  <2>1. /\ queue # <<>> /\ queue' = Tail(queue)
        /\ held' = IF Head(queue) = None THEN held ELSE held \cup {Head(queue)}
        /\ UNCHANGED <<engine, todo, unacked, asked, acks, dead>>
    BY <1>6 DEF Receive, engineVars
  <2>2. InUserHands' \subseteq InUserHands
    BY <1>0, <1>h, <2>1
  <2> QED BY <1>1, <2>1, <2>2
<1>7. ASSUME NEW x \in Items, NEW t \in Settling, Settle(t, x)
      PROVE  Tracked'
  <2>1. /\ held' = held \ {x} /\ acks \subseteq acks'
        /\ UNCHANGED <<engine, todo, queue, unacked, asked, dead>>
    BY <1>7 DEF Settle, engineVars
  <2> QED BY <1>0, <1>1, <2>1
<1>8. CASE DropConsumer
  <2>1. queue' = <<>> /\ UNCHANGED <<engine, todo, held, unacked, asked, acks, dead>>
    BY <1>8 DEF DropConsumer, engineVars
  <2> QED BY <1>0, <1>h, <1>1, <2>1
<1>9. ASSUME engine \notin {"parked", "done"} \/ UNCHANGED <<engine, todo>>,
             UNCHANGED <<queue, held, unacked, asked, acks, dead>>
      PROVE  Tracked'
  BY <1>0, <1>1, <1>9
<1>10. ASSUME \/ CheckConnection \/ SendFlow \/ Idle \/ HandleMessage \/ PushedAll
              \/ CloseConsumer \/ Subscribe \/ SubscribeFails
       PROVE  /\ engine \notin {"parked", "done"}
              /\ UNCHANGED <<queue, held, unacked, asked, acks, dead>>
  BY <1>10 DEF CheckConnection, SendFlow, Idle, HandleMessage, PushedAll, CloseConsumer,
     Subscribe, SubscribeFails, userVars
<1>11. ASSUME \/ Forward \/ Tick \/ TickerStops \/ Ask \/ AskReturns \/ Broker \/ Neighbour
              \/ UNCHANGED vars
       PROVE  UNCHANGED <<engine, todo, queue, held, unacked, asked, acks, dead>>
  BY <1>11 DEF Forward, ForwardMessage, ForwardRequest, ForwardEnd, Tick, TickerStops, Ask,
     AskReturns, Broker, BrokerSends, BrokerNotifies, ConnectionDies, ConnectionPoisoned,
     Neighbour, NeighbourTakes, NeighbourCloses, vars, engineVars, userVars
<1> QED
  BY <1>2, <1>3, <1>4, <1>5, <1>6, <1>7, <1>8, <1>9, <1>10, <1>11 DEF Next, Engine, User

LEMMA InvAlways == Spec => []Inv
<1>1. Inv /\ [Next]_vars => Inv'
  BY ShapeNext, AckedNext, TrackedNext DEF Inv
<1> QED BY InitInv, <1>1, PTL DEF Spec

\* Nothing is acknowledged to the broker that the user has not acknowledged
\* and that is not safe in the dead letter topic.
THEOREM AckedAlwaysHandled == Spec => []AckedWereHandled
<1>1. Inv => AckedWereHandled
  BY DEF Inv
<1> QED BY InvAlways, <1>1, PTL

\* With a redelivery delay no message in the user's hands is forgotten.
THEOREM HeldAlwaysTracked == Spec => []HeldAreTracked
<1>1. Inv => HeldAreTracked
  <2> SUFFICES ASSUME Inv PROVE HeldAreTracked
    OBVIOUS
  <2>1. TypeOK
    BY DEF Inv, Shape
  <2>2. HasDelay /\ engine # "done" =>
          \A x \in InUserHands :
             x \in unacked \cup asked \cup acks \cup dead \/ (todo # <<>> /\ x = Head(todo))
    BY DEF Inv, Tracked
  <2> QED BY <2>1, <2>2 DEF HeldAreTracked
<1> QED BY InvAlways, <1>1, PTL

-----------------------------------------------------------------------------
(* What is on its way weighs what was sent. *)

\* Weight counts these pairs: a position and a message of the entry there.
Counted(s, ep) == {i \in DOMAIN s : s[i].type = "payload" /\ s[i].epoch = ep}
Size(ev) == Batch[ev.id[1]]
Pairs(s, ep) == UNION {{i} \X (1..Size(s[i])) : i \in Counted(s, ep)}

\* What one event adds to the weight of a queue.
Cost(ev, ep) == IF ev.type = "payload" /\ ev.epoch = ep THEN Size(ev) ELSE 0

LEMMA WeightPairs == \A s : Weight(s) = Cardinality(Pairs(s, epoch))
BY DEF Weight, Pairs, Counted, Size

LEMMA SizeType ==
    ASSUME NEW A, NEW ev, Genuine(ev, A), ev.type = "payload"
    PROVE  Size(ev) \in Nat \ {0}
<1>1. ev.id[1] \in Entries
  BY DEF Genuine
<1> QED BY <1>1, ItemsType DEF Size

LEMMA PairsIn ==
    ASSUME NEW s, NEW ep
    PROVE  /\ \A p \in Pairs(s, ep) :
                 /\ p = <<p[1], p[2]>> /\ p[1] \in Counted(s, ep)
                 /\ p[2] \in 1..Size(s[p[1]])
           /\ \A i \in Counted(s, ep) : \A k \in 1..Size(s[i]) : <<i, k>> \in Pairs(s, ep)
BY DEF Pairs

LEMMA Column ==
    ASSUME NEW i, NEW n \in Nat
    PROVE  IsFiniteSet({i} \X (1..n)) /\ Cardinality({i} \X (1..n)) = n
<1>1. IsFiniteSet({i}) /\ Cardinality({i}) = 1
  BY FS_Singleton
<1>2. IsFiniteSet(1..n) /\ Cardinality(1..n) = n
  BY FS_Interval
<1>3. /\ IsFiniteSet({i} \X (1..n))
      /\ Cardinality({i} \X (1..n)) = Cardinality({i}) * Cardinality(1..n)
  BY <1>1, <1>2, FS_Product
<1> QED BY <1>1, <1>2, <1>3

LEMMA PairsFinite ==
    ASSUME NEW A, NEW s \in Seq(Events), AllGenuine(s, A), NEW ep
    PROVE  IsFiniteSet(Pairs(s, ep)) /\ Cardinality(Pairs(s, ep)) \in Nat
<1> DEFINE C == Counted(s, ep)
           Col(i) == {i} \X (1..Size(s[i]))
           f == [i \in C |-> Col(i)]
           T == {Col(i) : i \in C}
<1>1. IsFiniteSet(C)
  <2>1. IsFiniteSet(1..Len(s))
    BY FS_Interval
  <2>2. C \subseteq 1..Len(s)
    BY DEF Counted
  <2> QED BY <2>1, <2>2, FS_Subset
<1>2. \A i \in C : IsFiniteSet(Col(i))
  <2> TAKE i \in C
  <2>1. Size(s[i]) \in Nat
    BY SizeType DEF Counted, AllGenuine
  <2> QED BY <2>1, Column
<1>3. f \in Surjection(C, T)
  BY DEF Surjection
<1>4. IsFiniteSet(T)
  BY <1>1, <1>3, FS_Surjection
<1>5. IsFiniteSet(UNION T)
  <2>1. \A t \in T : IsFiniteSet(t)
    BY <1>2
  <2> QED BY <1>4, <2>1, FS_UNION
<1>6. UNION T = Pairs(s, ep)
  BY DEF Pairs
<1> QED BY <1>5, <1>6, FS_CardinalityType

\* A queue with one event more weighs what the event costs more.
LEMMA WeightAppend ==
    ASSUME NEW A, NEW s \in Seq(Events), AllGenuine(s, A), NEW ep,
           NEW ev \in Events, Genuine(ev, A)
    PROVE  Cardinality(Pairs(Append(s, ev), ep)) = Cardinality(Pairs(s, ep)) + Cost(ev, ep)
<1> DEFINE n == Len(s)
           t == Append(s, ev)
           Newest == {n + 1} \X (1..Cost(ev, ep))
<1>1. /\ DOMAIN t = DOMAIN s \cup {n + 1} /\ n + 1 \notin DOMAIN s
      /\ \A i \in DOMAIN s : t[i] = s[i]
      /\ t[n + 1] = ev /\ n \in Nat
  OBVIOUS
<1> HIDE DEF t, n
<1>2. Cost(ev, ep) \in Nat
  BY SizeType DEF Cost
<1>3. IsFiniteSet(Pairs(s, ep)) /\ Cardinality(Pairs(s, ep)) \in Nat
  BY PairsFinite
<1>4. IsFiniteSet(Newest) /\ Cardinality(Newest) = Cost(ev, ep)
  BY <1>2, Column
<1>5. Pairs(s, ep) \cap Newest = {}
  <2>1. \A p \in Pairs(s, ep) : p[1] \in DOMAIN s
    BY PairsIn DEF Counted
  <2>2. \A p \in Newest : p[1] = n + 1
    OBVIOUS
  <2> QED BY <1>1, <2>1, <2>2
<1>6. Pairs(t, ep) = Pairs(s, ep) \cup Newest
  <2>1. \A i \in DOMAIN s : i \in Counted(t, ep) <=> i \in Counted(s, ep)
    BY <1>1 DEF Counted
  <2>2. n + 1 \in Counted(t, ep) <=> ev.type = "payload" /\ ev.epoch = ep
    BY <1>1 DEF Counted
  <2>3. Pairs(t, ep) \subseteq Pairs(s, ep) \cup Newest
    <3> SUFFICES ASSUME NEW p \in Pairs(t, ep) PROVE p \in Pairs(s, ep) \cup Newest
      OBVIOUS
    <3>1. /\ p = <<p[1], p[2]>> /\ p[1] \in Counted(t, ep)
          /\ p[2] \in 1..Size(t[p[1]])
      BY PairsIn
    <3>2. CASE p[1] \in DOMAIN s
      <4>1. p[1] \in Counted(s, ep) /\ p[2] \in 1..Size(s[p[1]])
        BY <1>1, <2>1, <3>1, <3>2
      <4> QED BY <3>1, <4>1, PairsIn
    <3>3. CASE p[1] = n + 1
      <4>1. p[2] \in 1..Cost(ev, ep)
        BY <1>1, <2>2, <3>1, <3>3 DEF Cost
      <4> QED BY <3>1, <3>3, <4>1
    <3> QED BY <1>1, <3>1, <3>2, <3>3 DEF Counted
  <2>4. Pairs(s, ep) \subseteq Pairs(t, ep)
    <3> SUFFICES ASSUME NEW p \in Pairs(s, ep) PROVE p \in Pairs(t, ep)
      OBVIOUS
    <3>1. /\ p = <<p[1], p[2]>> /\ p[1] \in Counted(s, ep)
          /\ p[2] \in 1..Size(s[p[1]])
      BY PairsIn
    <3>2. p[1] \in Counted(t, ep) /\ p[2] \in 1..Size(t[p[1]])
      BY <1>1, <2>1, <3>1 DEF Counted
    <3> QED BY <3>1, <3>2, PairsIn
  <2>5. Newest \subseteq Pairs(t, ep)
    <3> SUFFICES ASSUME NEW k \in 1..Cost(ev, ep) PROVE <<n + 1, k>> \in Pairs(t, ep)
      OBVIOUS
    <3>1. n + 1 \in Counted(t, ep) /\ k \in 1..Size(t[n + 1])
      BY <1>1, <2>2 DEF Cost
    <3> QED BY <3>1, PairsIn
  <2> QED BY <2>3, <2>4, <2>5
<1>7. Cardinality(Pairs(t, ep)) = Cardinality(Pairs(s, ep)) + Cardinality(Newest) - Cardinality({})
  BY <1>3, <1>4, <1>5, <1>6, FS_Union
<1> QED BY <1>2, <1>3, <1>4, <1>7, FS_EmptySet DEF t

\* A queue without its first event weighs what the event cost less.
LEMMA WeightTail ==
    ASSUME NEW A, NEW s \in Seq(Events), AllGenuine(s, A), NEW ep, s # <<>>
    PROVE  Cardinality(Pairs(s, ep)) = Cardinality(Pairs(Tail(s), ep)) + Cost(Head(s), ep)
<1> DEFINE t == Tail(s)
           ev == Head(s)
           First == {1} \X (1..Cost(ev, ep))
           Rest == {p \in Pairs(s, ep) : p[1] # 1}
           g == [p \in Pairs(t, ep) |-> <<p[1] + 1, p[2]>>]
<1>1. /\ 1 \in DOMAIN s /\ s[1] = ev /\ DOMAIN s \subseteq Nat
      /\ \A i \in DOMAIN t : i \in Nat \ {0} /\ i + 1 \in DOMAIN s /\ t[i] = s[i + 1]
      /\ \A i \in DOMAIN s : i # 1 => i - 1 \in DOMAIN t /\ i \in Nat /\ i - 1 # 0
      /\ t \in Seq(Events) /\ ev \in Events
  OBVIOUS
<1>a. AllGenuine(t, A) /\ Genuine(ev, A)
  BY GenuineQueues
<1> HIDE DEF t, ev
<1>2. Cost(ev, ep) \in Nat
  BY <1>a, SizeType DEF Cost
<1>3. IsFiniteSet(Pairs(t, ep)) /\ Cardinality(Pairs(t, ep)) \in Nat
  BY <1>1, <1>a, PairsFinite
<1>4. IsFiniteSet(First) /\ Cardinality(First) = Cost(ev, ep)
  BY <1>2, Column
<1>5. \A i \in DOMAIN t : i \in Counted(t, ep) <=> i + 1 \in Counted(s, ep)
  BY <1>1 DEF Counted
<1>6. g \in Bijection(Pairs(t, ep), Rest)
  <2>1. ASSUME NEW p \in Pairs(t, ep) PROVE g[p] \in Rest
    <3>1. /\ p = <<p[1], p[2]>> /\ p[1] \in Counted(t, ep) /\ p[1] \in DOMAIN t
          /\ p[2] \in 1..Size(t[p[1]])
      BY PairsIn DEF Counted
    <3>2. p[1] + 1 \in Counted(s, ep) /\ p[2] \in 1..Size(s[p[1] + 1]) /\ p[1] + 1 # 1
      BY <1>1, <1>5, <3>1
    <3>3. <<p[1] + 1, p[2]>> \in Pairs(s, ep)
      BY <3>2, PairsIn
    <3> QED BY <3>2, <3>3
  <2>2. ASSUME NEW p \in Pairs(t, ep), NEW q \in Pairs(t, ep), g[p] = g[q] PROVE p = q
    <3>1. /\ p = <<p[1], p[2]>> /\ p[1] \in DOMAIN t
          /\ q = <<q[1], q[2]>> /\ q[1] \in DOMAIN t
      BY PairsIn DEF Counted
    <3>2. p[1] + 1 = q[1] + 1 /\ p[2] = q[2]
      BY <2>2
    <3>3. p[1] = q[1]
      <4>1. p[1] \in Nat /\ q[1] \in Nat
        BY <1>1, <3>1
      <4> QED BY <3>2, <4>1
    <3> QED BY <3>1, <3>2, <3>3
  <2>3. ASSUME NEW r \in Rest PROVE \E p \in Pairs(t, ep) : g[p] = r
    <3>1. /\ r = <<r[1], r[2]>> /\ r[1] \in Counted(s, ep) /\ r[1] \in DOMAIN s /\ r[1] # 1
          /\ r[2] \in 1..Size(s[r[1]])
      BY PairsIn DEF Counted
    <3>2. /\ r[1] - 1 \in DOMAIN t /\ r[1] \in Nat /\ (r[1] - 1) + 1 = r[1]
      BY <1>1, <3>1
    <3>3. r[1] - 1 \in Counted(t, ep) /\ r[2] \in 1..Size(t[r[1] - 1])
      BY <1>1, <1>5, <3>1, <3>2
    <3>4. <<r[1] - 1, r[2]>> \in Pairs(t, ep)
      BY <3>3, PairsIn
    <3>5. g[<<r[1] - 1, r[2]>>] = r
      BY <3>1, <3>2, <3>4
    <3> QED BY <3>4, <3>5
  <2> HIDE DEF g, Rest
  <2>4. g \in [Pairs(t, ep) -> Rest]
    BY <2>1 DEF g
  <2> QED BY <2>2, <2>3, <2>4 DEF Bijection, Injection, Surjection, IsInjective
<1>7. IsFiniteSet(Rest) /\ Cardinality(Rest) = Cardinality(Pairs(t, ep))
  BY <1>3, <1>6, FS_Bijection DEF ExistsBijection
<1>8. Pairs(s, ep) = Rest \cup First
  <2>1. 1 \in Counted(s, ep) <=> ev.type = "payload" /\ ev.epoch = ep
    BY <1>1 DEF Counted
  <2>2. ASSUME NEW p \in Pairs(s, ep), p[1] = 1 PROVE p \in First
    <3>1. p = <<1, p[2]>> /\ 1 \in Counted(s, ep) /\ p[2] \in 1..Size(s[1])
      BY <2>2, PairsIn
    <3>2. p[2] \in 1..Cost(ev, ep)
      BY <1>1, <2>1, <3>1 DEF Cost
    <3> QED BY <3>1, <3>2
  <2>3. ASSUME NEW k \in 1..Cost(ev, ep) PROVE <<1, k>> \in Pairs(s, ep)
    <3>1. 1 \in Counted(s, ep) /\ k \in 1..Size(s[1])
      BY <1>1, <2>1 DEF Cost
    <3> QED BY <3>1, PairsIn
  <2>4. First \subseteq Pairs(s, ep)
    BY <2>3
  <2> QED BY <2>2, <2>4
<1>9. Rest \cap First = {}
  OBVIOUS
<1>10. Cardinality(Rest \cup First) = Cardinality(Rest) + Cardinality(First) - Cardinality({})
  BY <1>4, <1>7, <1>9, FS_Union
<1>11. Cardinality(Pairs(s, ep)) = Cardinality(Pairs(t, ep)) + Cost(ev, ep)
  <2> HIDE DEF First, Rest
  <2>1. Cardinality({}) = 0
    BY FS_EmptySet
  <2>2. Cardinality(Pairs(s, ep)) = Cardinality(Pairs(t, ep)) + Cost(ev, ep) - 0
    BY <1>4, <1>7, <1>8, <1>10, <2>1
  <2> QED BY <1>2, <1>3, <2>2
<1> QED BY <1>11 DEF t, ev

-----------------------------------------------------------------------------
(* The permits. *)

\* EnRoute, taken apart.
LEMMA Roads ==
    Shape =>
      /\ EnRoute = Cardinality(Pairs(sources[epoch], epoch)) + Cardinality(Pairs(events, epoch))
      /\ Cardinality(Pairs(sources[epoch], epoch)) \in Nat
      /\ Cardinality(Pairs(events, epoch)) \in Nat
<1> SUFFICES ASSUME Shape
             PROVE  /\ EnRoute = Cardinality(Pairs(sources[epoch], epoch))
                                   + Cardinality(Pairs(events, epoch))
                    /\ Cardinality(Pairs(sources[epoch], epoch)) \in Nat
                    /\ Cardinality(Pairs(events, epoch)) \in Nat
  OBVIOUS
<1>1. /\ sources[epoch] \in Seq(Events) /\ AllGenuine(sources[epoch], acks)
      /\ events \in Seq(Events) /\ AllGenuine(events, acks)
  BY ShapeParts DEF InputsType, EventsGenuine, BrokerType
<1> QED BY <1>1, PairsFinite, WeightPairs DEF EnRoute

LEMMA InitCovered == Init => Covered
<1> SUFFICES ASSUME Init PROVE Covered
  OBVIOUS
<1>1. Shape
  BY InitShape
<1>2. EnRoute \in Nat
  BY <1>1, Roads
<1> QED BY <1>2, EngineAssumption DEF Init, Covered

\* Arithmetic that the next proof needs of numbers of its state.
LEMMA Balance ==
    \A p, r \in Int, s, e \in Nat :
       /\ p + s + e - r >= 0 => p + (s + e) >= r
       /\ \A e1, n \in Nat, r1 \in Int :
             e = e1 + n /\ r1 <= r - n => p + s + e1 - r1 >= p + s + e - r
OBVIOUS

\* Permits are granted, used and counted down by the same amounts.
LEMMA CoveredNext ==
    ASSUME Shape, Covered, [Next]_vars
    PROVE  Covered'
<1> DEFINE S == Cardinality(Pairs(sources[epoch], epoch))
           E == Cardinality(Pairs(events, epoch))
           S1 == Cardinality(Pairs(sources'[epoch'], epoch'))
           E1 == Cardinality(Pairs(events', epoch'))
           Gap == permits + S + E - remaining
           Gap1 == permits' + S1 + E1 - remaining'
<1>0. Shape'
  BY ShapeNext
<1>a. /\ EnRoute = S + E /\ S \in Nat /\ E \in Nat
      /\ sources[epoch] \in Seq(Events) /\ AllGenuine(sources[epoch], acks)
      /\ events \in Seq(Events) /\ AllGenuine(events, acks)
  BY Roads, ShapeParts DEF InputsType, EventsGenuine, BrokerType
<1>b. /\ EnRoute' = S1 + E1 /\ S1 \in Nat /\ E1 \in Nat /\ EnRoute' \in Nat
  <2>1. (/\ EnRoute = Cardinality(Pairs(sources[epoch], epoch)) + Cardinality(Pairs(events, epoch))
         /\ Cardinality(Pairs(sources[epoch], epoch)) \in Nat
         /\ Cardinality(Pairs(events, epoch)) \in Nat)'
    BY <1>0, Roads, PTL
  <2>2. EnRoute' = S1 + E1 /\ S1 \in Nat /\ E1 \in Nat
    BY <2>1
  <2> HIDE DEF S1, E1
  <2>3. S1 + E1 \in Nat
    BY <2>2
  <2>4. EnRoute' \in Nat
    BY <2>2, <2>3, Zenon
  <2> QED BY <2>2, <2>4
<1>c. /\ permits \in Int /\ remaining \in Int /\ BatchSize \in Nat \ {0}
      /\ Half \in Nat /\ Half <= BatchSize /\ permits' \in Int /\ remaining' \in Int
      /\ epoch \in 0..MaxEpoch /\ sources \in [0..MaxEpoch -> Seq(Events)]
  <2>1. /\ permits \in Int /\ remaining \in Int
        /\ epoch \in 0..MaxEpoch /\ sources \in [0..MaxEpoch -> Seq(Events)]
    BY ShapeParts DEF EngineType, BrokerType, InputsType
  <2>2. permits' \in Int /\ remaining' \in Int
    BY <1>0 DEF Shape, TypeOK
  <2>3. BatchSize \in Nat \ {0}
    BY EngineAssumption
  <2>4. Half \in Nat /\ Half <= BatchSize
    BY <2>3 DEF Half
  <2> QED BY <2>1, <2>2, <2>3, <2>4
<1> HIDE DEF S, E, S1, E1
<1>e. /\ permits + EnRoute >= remaining => Gap >= 0
      /\ Gap >= 0 => permits + EnRoute >= remaining
      /\ Gap1 >= 0 => permits' + EnRoute' >= remaining'
      /\ Gap >= 0 /\ Gap1 >= Gap => Gap1 >= 0
  <2>1. permits + EnRoute >= remaining => Gap >= 0
    BY <1>a, <1>c
  <2>2. Gap >= 0 => permits + EnRoute >= remaining
    BY <1>a, <1>c
  <2>3. Gap1 >= 0 => permits' + EnRoute' >= remaining'
    <3>1. Gap1 >= 0 => permits' + (S1 + E1) >= remaining'
      BY <1>b, <1>c, Balance
    <3> QED BY <1>b, <3>1, Zenon
  <2>4. Gap \in Int /\ Gap1 \in Int
    BY <1>a, <1>b, <1>c
  <2> QED BY <2>1, <2>2, <2>3, <2>4
<1> HIDE DEF Gap, Gap1
<1>d. ASSUME attached' => attached, attached' => Gap1 >= Gap,
             engine' = "wait" => remaining' >= Half
      PROVE  Covered'
  <2>1. attached' => permits' + EnRoute' >= remaining'
    BY <1>d, <1>e, Zenon DEF Covered
  <2> QED BY <1>d, <2>1, Zenon DEF Covered
<1>1. CASE SendFlow
  <2>1. UNCHANGED <<sources, events, epoch, attached>>
    BY <1>1 DEF SendFlow, inputs, connVars
  <2>2. S1 = S /\ E1 = E
    BY <2>1 DEF S, E, S1, E1
  <2>3. /\ \/ remaining >= Half /\ permits' = permits /\ remaining' = remaining
           \/ remaining' = BatchSize /\ (attached => permits' = permits + (BatchSize - remaining))
           \/ engine' # "wait" /\ permits' = permits /\ remaining' = remaining
    BY <1>1 DEF SendFlow
  <2>4. CASE remaining' = remaining /\ permits' = permits
    <3>1. Gap1 = Gap
      BY <2>2, <2>4 DEF Gap, Gap1
    <3>2. Gap1 >= Gap /\ (engine' = "wait" => remaining' >= Half)
      BY <1>a, <1>b, <1>c, <2>3, <2>4, <3>1 DEF Gap, Gap1
    <3> QED BY <1>d, <2>1, <3>2
  <2>5. CASE remaining' = BatchSize /\ (attached => permits' = permits + (BatchSize - remaining))
    <3>1. permits' = permits + (BatchSize - remaining) => Gap1 >= Gap
      BY <1>a, <1>b, <1>c, <2>2, <2>5 DEF Gap, Gap1
    <3>2. attached' => attached
      BY <2>1
    <3>3. attached' => Gap1 >= Gap
      BY <2>5, <3>1, <3>2, Zenon
    <3> QED BY <1>c, <1>d, <2>5, <3>2, <3>3
  <2> QED BY <2>3, <2>4, <2>5
<1>2. CASE HandleMessage
  <2> DEFINE ev == Head(events)
  <2>1. /\ events # <<>> /\ events' = Tail(events) /\ ev.type \in FromBroker
        /\ remaining' = remaining - (IF ev.type = "payload" THEN Size(ev) ELSE 1)
        /\ UNCHANGED <<sources, epoch, permits>> /\ engine' # "wait"
        /\ attached' = attached \/ attached' = FALSE
    BY <1>2 DEF HandleMessage, Stop, connVars, Size
  <2>2. S1 = S
    BY <2>1 DEF S, S1
  <2>3. Genuine(ev, acks)
    BY <2>1, HeadEvent
  <2> HIDE DEF ev
  <2>4. E1 = Cardinality(Pairs(Tail(events), epoch))
    BY <2>1 DEF E, E1
  <2>5. E = E1 + Cost(ev, epoch)
    BY <1>a, <2>1, <2>4, WeightTail DEF E, E1, ev
  <2>6. Cost(ev, epoch) \in Nat /\ remaining' <= remaining - Cost(ev, epoch)
    <3>1. CASE ev.type = "payload"
      BY <1>c, <2>1, <2>3, <3>1, SizeType DEF Cost
    <3>2. CASE ev.type # "payload"
      BY <1>c, <2>1, <3>2 DEF Cost
    <3> QED BY <3>1, <3>2
  <2>7. Gap1 >= Gap
    <3>1. permits' = permits
      BY <2>1
    <3> DEFINE n == Cost(ev, epoch)
    <3>2. n \in Nat /\ remaining' <= remaining - n /\ E = E1 + n
      BY <1>c, <2>1, <2>5, <2>6
    <3>3. S \in Nat /\ E1 \in Nat /\ E \in Nat
      BY <1>a, <1>b
    <3>4. /\ permits \in Int /\ remaining \in Int /\ remaining' \in Int
      BY <1>c
    <3> HIDE DEF n
    <3>5. permits + S + E1 - remaining' >= permits + S + E - remaining
      BY <3>2, <3>3, <3>4, Balance
    <3> QED BY <2>2, <3>1, <3>5 DEF Gap, Gap1
  <2>8. attached' => attached
    BY <2>1
  <2> QED BY <1>d, <2>1, <2>7, <2>8
<1>3. CASE HandleRequest
  <2> DEFINE ev == Head(events)
  <2>1. /\ events # <<>> /\ events' = Tail(events) /\ ev.type # "payload"
        /\ UNCHANGED <<sources, epoch, permits, remaining>> /\ engine' # "wait"
        /\ attached' = attached \/ attached' = FALSE
    BY <1>3 DEF HandleRequest, Stop, connVars
  <2>2. S1 = S
    BY <2>1 DEF S, S1
  <2> HIDE DEF ev
  <2>4. E1 = Cardinality(Pairs(Tail(events), epoch))
    BY <2>1 DEF E, E1
  <2>5. E = E1 + Cost(ev, epoch)
    BY <1>a, <2>1, <2>4, WeightTail DEF E, E1, ev
  <2>6. Cost(ev, epoch) = 0
    BY <2>1 DEF Cost
  <2>7. Gap1 >= Gap
    <3>1. permits' = permits
      BY <2>1
    <3> DEFINE n == Cost(ev, epoch)
    <3>2. n \in Nat /\ remaining' <= remaining - n /\ E = E1 + n
      BY <1>c, <2>1, <2>5, <2>6
    <3>3. S \in Nat /\ E1 \in Nat /\ E \in Nat
      BY <1>a, <1>b
    <3>4. /\ permits \in Int /\ remaining \in Int /\ remaining' \in Int
      BY <1>c
    <3> HIDE DEF n
    <3>5. permits + S + E1 - remaining' >= permits + S + E - remaining
      BY <3>2, <3>3, <3>4, Balance
    <3> QED BY <2>2, <3>1, <3>5 DEF Gap, Gap1
  <2>8. attached' => attached
    BY <2>1
  <2> QED BY <1>d, <2>1, <2>7, <2>8
<1>4. CASE Subscribe
  <2>1. permits' = BatchSize /\ remaining' = BatchSize
    BY <1>4 DEF Subscribe
  <2>2. permits' + EnRoute' >= remaining' /\ remaining' >= Half
    BY <1>b, <1>c, <2>1
  <2> QED BY <2>2 DEF Covered
<1>5. ASSUME NEW ep \in 0..MaxEpoch, ForwardMessage(ep)
      PROVE  Covered'
  <2> DEFINE ev == Head(sources[ep])
  <2>1. /\ sources[ep] # <<>> /\ events' = Append(events, ev)
        /\ sources' = [sources EXCEPT ![ep] = Tail(sources[ep])]
        /\ UNCHANGED <<engine, remaining, permits, attached, epoch>>
    BY <1>5 DEF ForwardMessage, engineVars, connVars, brokerVars
  <2>2. sources[ep] \in Seq(Events) /\ AllGenuine(sources[ep], acks)
    BY ShapeParts DEF InputsType, EventsGenuine
  <2>3. ev \in Events /\ Genuine(ev, acks)
    BY <2>1, <2>2, GenuineQueues
  <2> HIDE DEF ev
  <2>4. Cost(ev, epoch) \in Nat
    BY <2>3, SizeType DEF Cost
  <2>5. E1 = E + Cost(ev, epoch)
    <3>1. E1 = Cardinality(Pairs(Append(events, ev), epoch))
      BY <2>1 DEF E, E1
    <3> QED BY <1>a, <2>3, <3>1, WeightAppend DEF E, E1
  <2>6. S1 + Cost(ev, epoch) >= S
    <3>1. CASE ep = epoch
      <4>1. S1 = Cardinality(Pairs(Tail(sources[epoch]), epoch))
        BY <1>c, <2>1, <3>1 DEF S, S1
      <4> QED BY <1>a, <1>b, <2>1, <2>4, <3>1, <4>1, WeightTail DEF S, S1, ev
    <3>2. CASE ep # epoch
      <4>1. sources'[epoch] = sources[epoch]
        BY <1>c, <2>1, <3>2
      <4>2. S1 = S
        BY <2>1, <4>1 DEF S, S1
      <4> QED BY <1>a, <2>4, <4>2
    <3> QED BY <3>1, <3>2
  <2>7. engine' = "wait" => remaining' >= Half
    BY <2>1 DEF Covered
  <2>8. Gap1 >= Gap
    <3>1. permits' = permits /\ remaining' = remaining
      BY <2>1
    <3> DEFINE n == Cost(ev, epoch)
    <3>2. n \in Nat /\ E1 = E + n /\ S1 + n >= S
      BY <2>4, <2>5, <2>6
    <3> HIDE DEF n
    <3> QED BY <1>a, <1>b, <1>c, <3>1, <3>2 DEF Gap, Gap1
  <2>9. attached' => attached
    BY <2>1
  <2> QED BY <1>d, <2>7, <2>8, <2>9
<1>6. CASE ForwardRequest \/ ForwardEnd
  <2>1. PICK ev \in Events :
          /\ events' = Append(events, ev) /\ Genuine(ev, acks)
          /\ UNCHANGED <<engine, remaining, permits, attached, epoch, sources>>
    <3>1. CASE ForwardRequest
      <4>1. requests \in Seq(Events) /\ AllGenuine(requests, acks) /\ requests # <<>>
        BY <3>1, ShapeParts DEF InputsType, EventsGenuine, ForwardRequest
      <4>2. Head(requests) \in Events /\ Genuine(Head(requests), acks)
        BY <4>1, GenuineQueues
      <4> QED BY <3>1, <4>2 DEF ForwardRequest, engineVars, connVars, brokerVars
    <3>2. CASE ForwardEnd
      <4>1. Request("gone", None) \in Events /\ Genuine(Request("gone", None), acks)
        BY EventsType DEF Genuine
      <4> QED BY <3>2, <4>1 DEF ForwardEnd, engineVars, connVars, brokerVars
    <3> QED BY <1>6, <3>1, <3>2
  <2>2. Cost(ev, epoch) \in Nat
    BY <2>1, SizeType DEF Cost
  <2>3. E1 = E + Cost(ev, epoch)
    <3>1. E1 = Cardinality(Pairs(Append(events, ev), epoch))
      BY <2>1 DEF E, E1
    <3> QED BY <1>a, <2>1, <3>1, WeightAppend DEF E, E1
  <2>4. S1 = S
    BY <2>1 DEF S, S1
  <2>5. engine' = "wait" => remaining' >= Half
    BY <2>1 DEF Covered
  <2>6. Gap1 >= Gap
    <3> DEFINE n == Cost(ev, epoch)
    <3>1. permits' = permits /\ remaining' = remaining
      BY <2>1
    <3>2. n \in Nat /\ E1 = E + n /\ S1 = S
      BY <2>2, <2>3, <2>4
    <3> HIDE DEF n
    <3> QED BY <1>a, <1>b, <1>c, <3>1, <3>2 DEF Gap, Gap1
  <2>7. attached' => attached
    BY <2>1
  <2> QED BY <1>d, <2>5, <2>6, <2>7
<1>7. CASE BrokerSends \/ BrokerNotifies
  <2>1. PICK ev \in Events :
          /\ sources' = [sources EXCEPT ![epoch] = Append(sources[epoch], ev)]
          /\ Genuine(ev, acks)
          /\ permits' = permits - Cost(ev, epoch)
          /\ attached' => attached
          /\ UNCHANGED <<engine, remaining, events, epoch>>
    <3>1. CASE BrokerSends
      <4>1. PICK ev \in Events, e \in Entries :
              /\ sources' = [sources EXCEPT ![epoch] = Append(sources[epoch], ev)]
              /\ permits' = permits - Batch[e]
              /\ ev.type = "payload" /\ ev.id = <<e, 0>> /\ ev.epoch = epoch
              /\ Genuine(ev, acks)
        BY <3>1, BrokerSent
      <4>2. UNCHANGED <<engine, remaining, events, epoch, attached>>
        BY <3>1 DEF BrokerSends, engineVars, connVars
      <4>3. Cost(ev, epoch) = Batch[e]
        BY <4>1 DEF Cost, Size
      <4> QED BY <4>1, <4>2, <4>3
    <3>2. CASE BrokerNotifies
      <4>1. PICK ev \in Events :
              /\ sources' = [sources EXCEPT ![epoch] = Append(sources[epoch], ev)]
              /\ ev.type # "payload"
              /\ Genuine(ev, acks)
        BY <3>2, BrokerNotified
      <4>2. UNCHANGED <<engine, remaining, permits, events, epoch>> /\ attached
        BY <3>2 DEF BrokerNotifies, engineVars, connVars
      <4>3. Cost(ev, epoch) = 0
        BY <4>1 DEF Cost
      <4>4. permits' = permits - Cost(ev, epoch)
        BY <1>c, <4>2, <4>3
      <4> QED BY <4>1, <4>2, <4>4
    <3> QED BY <1>7, <3>1, <3>2
  <2>2. Cost(ev, epoch) \in Nat
    BY <2>1, SizeType DEF Cost
  <2>3. S1 = S + Cost(ev, epoch)
    <3>1. S1 = Cardinality(Pairs(Append(sources[epoch], ev), epoch))
      BY <1>c, <2>1 DEF S, S1
    <3> QED BY <1>a, <2>1, <3>1, WeightAppend DEF S, S1
  <2>4. E1 = E
    BY <2>1 DEF E, E1
  <2>5. engine' = "wait" => remaining' >= Half
    BY <2>1 DEF Covered
  <2>6. Gap1 >= Gap
    <3> DEFINE n == Cost(ev, epoch)
    <3>1. permits' = permits - n /\ remaining' = remaining
      BY <2>1
    <3>2. n \in Nat /\ S1 = S + n /\ E1 = E
      BY <2>2, <2>3, <2>4
    <3> HIDE DEF n
    <3> QED BY <1>a, <1>b, <1>c, <3>1, <3>2 DEF Gap, Gap1
  <2>7. attached' => attached
    BY <2>1
  <2> QED BY <1>d, <2>5, <2>6, <2>7
<1>8. ASSUME UNCHANGED <<sources, events, epoch, permits, remaining>>, attached' => attached,
             engine' = "wait" => engine = "wait"
      PROVE  Covered'
  <2>1. S1 = S /\ E1 = E
    BY <1>8 DEF S, E, S1, E1
  <2>2. Gap1 >= Gap
    BY <1>a, <1>c, <1>8, <2>1 DEF Gap, Gap1
  <2>3. engine' = "wait" => remaining' >= Half
    BY <1>8 DEF Covered
  <2> QED BY <1>d, <1>8, <2>2, <2>3
<1>9. ASSUME \/ CheckConnection \/ Idle \/ DeadLetter \/ Push \/ Unpark \/ PushedAll \/ Report
             \/ CloseConsumer \/ SubscribeFails
      PROVE  Covered'
  <2>1. /\ UNCHANGED <<sources, events, epoch, permits, remaining>>
        /\ attached' = attached \/ attached' = FALSE
        /\ engine' = "wait" => engine = "wait"
    BY <1>9 DEF CheckConnection, Idle, DeadLetter, Push, Unpark, PushedAll, Report,
       CloseConsumer, SubscribeFails, Stop, inputs, connVars, brokerVars
  <2> QED BY <1>8, <2>1
<1>10. ASSUME \/ Tick \/ TickerStops \/ User \/ ConnectionDies \/ ConnectionPoisoned
              \/ Neighbour \/ UNCHANGED vars
       PROVE  Covered'
  <2>1. UNCHANGED <<sources, events, epoch, permits, remaining, engine>>
    BY <1>10 DEF Tick, TickerStops, User, Receive, Ask, AskReturns, DropConsumer, Settle,
       ConnectionDies, ConnectionPoisoned, Neighbour, NeighbourTakes, NeighbourCloses, vars,
       engineVars, inputs, connVars, brokerVars
  <2>2. attached' = attached \/ attached' = FALSE \/ attached' = (attached /\ ~answered)
    BY <1>10 DEF Tick, TickerStops, User, Receive, Ask, AskReturns, DropConsumer, Settle,
       ConnectionDies, ConnectionPoisoned, Neighbour, NeighbourTakes, NeighbourCloses, vars,
       brokerVars
  <2>3. attached' => attached
    BY <2>2, Zenon
  <2> QED BY <1>8, <2>1, <2>3
<1> QED
  BY <1>1, <1>2, <1>3, <1>4, <1>5, <1>6, <1>7, <1>8, <1>9, <1>10
     DEF Next, Engine, Forward, Broker

\* The engine never waits for a broker that waits for permits: what the broker
\* may still send and what is on its way cover what the engine counts on.
THEOREM PermitsAlwaysCover == Spec => []PermitsCover
<1>1. Shape /\ Covered => PermitsCover
  <2> SUFFICES ASSUME Shape, Covered PROVE PermitsCover
    OBVIOUS
  <2> QED BY DEF Covered, PermitsCover
<1>2. Init => Shape /\ Covered
  BY InitShape, InitCovered
<1>3. Shape /\ Covered /\ [Next]_vars => Shape' /\ Covered'
  BY ShapeNext, CoveredNext
<1> QED BY <1>1, <1>2, <1>3, PTL DEF Spec

-----------------------------------------------------------------------------
(* MultiConsumer: the queue of the topics that are polled. *)

\* No topic occurs in the queue q three times.
Twice(q) ==
    \A i, j, k \in DOMAIN q :
        i # j /\ j # k /\ i # k => ~(q[i] = q[j] /\ q[j] = q[k])

Once(q) == \A i, j \in DOMAIN q : i # j => q[i] # q[j]

\* Every place of c is a place of q, and no two of them the same.
PartOf(c, q) ==
    \E m \in [DOMAIN c -> DOMAIN q] :
        /\ \A i, j \in DOMAIN c : i # j => m[i] # m[j]
        /\ \A i \in DOMAIN c : c[i] = q[m[i]]

LEMMA TwiceOfPart ==
    ASSUME NEW c, NEW q, PartOf(c, q), Twice(q)
    PROVE  Twice(c)
<1>1. PICK m \in [DOMAIN c -> DOMAIN q] :
         /\ \A i, j \in DOMAIN c : i # j => m[i] # m[j]
         /\ \A i \in DOMAIN c : c[i] = q[m[i]]
  BY DEF PartOf
<1>2. ASSUME NEW i \in DOMAIN c, NEW j \in DOMAIN c, NEW k \in DOMAIN c,
             i # j, j # k, i # k
      PROVE  ~(c[i] = c[j] /\ c[j] = c[k])
  <2>1. /\ m[i] \in DOMAIN q /\ m[j] \in DOMAIN q /\ m[k] \in DOMAIN q
        /\ m[i] # m[j] /\ m[j] # m[k] /\ m[i] # m[k]
    BY <1>1, <1>2
  <2>2. ~(q[m[i]] = q[m[j]] /\ q[m[j]] = q[m[k]])
    BY <2>1 DEF Twice
  <2> QED BY <1>1, <2>2
<1> QED BY <1>2 DEF Twice

LEMMA OnceOfPart ==
    ASSUME NEW c, NEW q, PartOf(c, q), Once(q)
    PROVE  Once(c)
<1>1. PICK m \in [DOMAIN c -> DOMAIN q] :
         /\ \A i, j \in DOMAIN c : i # j => m[i] # m[j]
         /\ \A i \in DOMAIN c : c[i] = q[m[i]]
  BY DEF PartOf
<1>2. ASSUME NEW i \in DOMAIN c, NEW j \in DOMAIN c, i # j
      PROVE  c[i] # c[j]
  <2>1. m[i] \in DOMAIN q /\ m[j] \in DOMAIN q /\ m[i] # m[j]
    BY <1>1, <1>2
  <2>2. q[m[i]] # q[m[j]]
    BY <2>1 DEF Once
  <2> QED BY <1>1, <2>2
<1> QED BY <1>2 DEF Once

\* The places of two queues, one behind the other.
LEMMA Behind ==
    ASSUME NEW a \in Seq(Topic), NEW b \in Seq(Topic)
    PROVE  /\ a \o b \in Seq(Topic)
           /\ \A i \in DOMAIN (a \o b) :
                \/ i \in DOMAIN a /\ (a \o b)[i] = a[i]
                \/ i \notin DOMAIN a /\ i - Len(a) \in DOMAIN b
                   /\ (a \o b)[i] = b[i - Len(a)]
           /\ \A i \in DOMAIN a : i \in DOMAIN (a \o b) /\ (a \o b)[i] = a[i]
           /\ \A i \in DOMAIN b : i + Len(a) \in DOMAIN (a \o b)
                                  /\ (a \o b)[i + Len(a)] = b[i]
OBVIOUS

LEMMA ToSetBehind ==
    ASSUME NEW a \in Seq(Topic), NEW b \in Seq(Topic)
    PROVE  ToSet(a \o b) = ToSet(a) \cup ToSet(b)
<1>1. ToSet(a \o b) \subseteq ToSet(a) \cup ToSet(b)
  BY Behind DEF ToSet
<1>2. ToSet(a) \subseteq ToSet(a \o b)
  BY Behind DEF ToSet
<1>3. ToSet(b) \subseteq ToSet(a \o b)
  <2> SUFFICES ASSUME NEW i \in DOMAIN b PROVE b[i] \in ToSet(a \o b)
    BY DEF ToSet
  <2>1. i + Len(a) \in DOMAIN (a \o b) /\ (a \o b)[i + Len(a)] = b[i]
    BY Behind
  <2> QED BY <2>1 DEF ToSet
<1> QED BY <1>1, <1>2, <1>3

LEMMA TwiceBehind ==
    ASSUME NEW a \in Seq(Topic), NEW b \in Seq(Topic),
           \/ Once(a) /\ Once(b)
           \/ Twice(a) /\ Twice(b) /\ ToSet(a) \cap ToSet(b) = {}
    PROVE  Twice(a \o b)
<1> DEFINE q == a \o b
           L == Len(a)
<1>1. L \in Nat /\ DOMAIN q \subseteq Nat
  OBVIOUS
<1>2. \A i \in DOMAIN q :
         \/ i \in DOMAIN a /\ q[i] = a[i]
         \/ i \notin DOMAIN a /\ i - L \in DOMAIN b /\ q[i] = b[i - L]
  BY Behind
<1> HIDE DEF q, L
<1>3. \A i, j \in DOMAIN q : i # j => i - L # j - L
  BY <1>1
<1>4. CASE Once(a) /\ Once(b)
  <2>1. \A i, j \in DOMAIN q :
           i # j /\ q[i] = q[j] => (i \in DOMAIN a <=> j \notin DOMAIN a)
    BY <1>2, <1>3, <1>4 DEF Once
  <2> QED BY <2>1 DEF Twice, q
<1>5. CASE Twice(a) /\ Twice(b) /\ ToSet(a) \cap ToSet(b) = {}
  <2>1. \A i \in DOMAIN a, j \in DOMAIN b : a[i] # b[j]
    BY <1>5 DEF ToSet
  <2>2. \A i, j \in DOMAIN q : q[i] = q[j] => (i \in DOMAIN a <=> j \in DOMAIN a)
    BY <1>2, <2>1
  <2>3. ASSUME NEW i \in DOMAIN q, NEW j \in DOMAIN q, NEW k \in DOMAIN q,
               i # j, j # k, i # k, q[i] = q[j], q[j] = q[k]
        PROVE  FALSE
    <3>1. CASE i \in DOMAIN a
      <4>1. j \in DOMAIN a /\ k \in DOMAIN a
        BY <2>2, <2>3, <3>1
      <4>2. q[i] = a[i] /\ q[j] = a[j] /\ q[k] = a[k]
        BY <1>2, <3>1, <4>1
      <4> QED BY <1>5, <2>3, <3>1, <4>1, <4>2 DEF Twice
    <3>2. CASE i \notin DOMAIN a
      <4>1. j \notin DOMAIN a /\ k \notin DOMAIN a
        BY <2>2, <2>3, <3>2
      <4>2. /\ i - L \in DOMAIN b /\ j - L \in DOMAIN b /\ k - L \in DOMAIN b
            /\ q[i] = b[i - L] /\ q[j] = b[j - L] /\ q[k] = b[k - L]
        BY <1>2, <3>2, <4>1
      <4>3. i - L # j - L /\ j - L # k - L /\ i - L # k - L
        BY <1>3, <2>3
      <4> QED BY <1>5, <2>3, <4>2, <4>3 DEF Twice
    <3> QED BY <3>1, <3>2
  <2> QED BY <2>3 DEF Twice, q
<1> QED BY <1>4, <1>5

LEMMA RotatedIs ==
    ASSUME NEW q \in Seq(Topic), NEW n \in 0..Len(q)
    PROVE  /\ Rotated(q, n) \in Seq(Topic) /\ ToSet(Rotated(q, n)) = ToSet(q)
           /\ PartOf(Rotated(q, n), q)
<1> DEFINE r == Rotated(q, n)
           L == Len(q)
           m == [i \in 1..L |-> IF i <= L - n THEN i + n ELSE i - (L - n)]
<1>1. L \in Nat /\ n \in 0..L /\ DOMAIN q = 1..L
  OBVIOUS
<1> DEFINE a == SubSeq(q, n + 1, L)
           b == SubSeq(q, 1, n)
<1>0. /\ a \in Seq(Topic) /\ Len(a) = L - n /\ \A i \in 1..(L - n) : a[i] = q[i + n]
      /\ b \in Seq(Topic) /\ Len(b) = n /\ \A i \in 1..n : b[i] = q[i]
      /\ r = a \o b
  <2>1. a \in Seq(Topic) /\ Len(a) = L - n /\ \A i \in 1..(L - n) : a[i] = q[i + n]
    <3>1. n + 1 \in Int /\ L \in Int /\ \A i \in (n + 1)..L : q[i] \in Topic
      BY <1>1
    <3>2. /\ a \in Seq(Topic)
          /\ Len(a) = IF n + 1 <= L THEN L - (n + 1) + 1 ELSE 0
          /\ \A i \in 1..(L - (n + 1) + 1) : a[i] = q[(n + 1) + i - 1]
      <4> HIDE DEF L
      <4> QED BY <3>1, SubSeqProperties
    <3> HIDE DEF a, L
    <3>3. L - (n + 1) + 1 = L - n /\ \A i \in 1..(L - n) : (n + 1) + i - 1 = i + n
      BY <1>1
    <3>4. Len(a) = L - n
      BY <1>1, <3>2
    <3> QED BY <3>2, <3>3, <3>4
  <2>2. b \in Seq(Topic) /\ Len(b) = n /\ \A i \in 1..n : b[i] = q[i]
    BY <1>1
  <2>3. r = a \o b
    BY DEF Rotated
  <2> QED BY <2>1, <2>2, <2>3
<1> HIDE DEF a, b, r
<1>2. r \in Seq(Topic) /\ Len(r) = L /\ DOMAIN r = 1..L
  <2>1. Len(a \o b) = Len(a) + Len(b) /\ a \o b \in Seq(Topic)
    BY <1>0
  <2>2. Len(a) + Len(b) = L
    BY <1>0, <1>1
  <2> QED BY <1>0, <2>1, <2>2
<1>3. \A i \in 1..L : m[i] \in 1..L
  BY <1>1
<1>4. \A i, j \in 1..L : i # j => m[i] # m[j]
  BY <1>1
<1>5. ASSUME NEW i \in 1..L PROVE r[i] = q[m[i]]
  <2>1. CASE i <= L - n
    <3>1. i \in 1..(L - n) /\ r[i] = a[i] /\ m[i] = i + n
      BY <1>0, <1>1, <2>1
    <3> QED BY <1>0, <3>1
  <2>2. CASE ~(i <= L - n)
    <3>1. i - (L - n) \in 1..n /\ r[i] = b[i - (L - n)] /\ m[i] = i - (L - n)
      BY <1>0, <1>1, <2>2
    <3> QED BY <1>0, <3>1
  <2> QED BY <2>1, <2>2
<1>6. \A j \in 1..L : \E i \in 1..L : m[i] = j
  <2> SUFFICES ASSUME NEW j \in 1..L PROVE \E i \in 1..L : m[i] = j
    OBVIOUS
  <2>1. CASE j > n
    <3>1. j - n \in 1..L /\ m[j - n] = j
      BY <1>1, <2>1
    <3> QED BY <3>1
  <2>2. CASE ~(j > n)
    <3>1. j + (L - n) \in 1..L /\ m[j + (L - n)] = j
      BY <1>1, <2>2
    <3> QED BY <3>1
  <2> QED BY <2>1, <2>2
<1>7. m \in [1..L -> 1..L]
  BY <1>3
<1> HIDE DEF m
<1>8. PartOf(r, q)
  BY <1>1, <1>2, <1>4, <1>5, <1>7 DEF PartOf
<1>9. ToSet(r) = ToSet(q)
  <2>1. ToSet(r) \subseteq ToSet(q)
    BY <1>1, <1>2, <1>3, <1>5 DEF ToSet
  <2>2. ToSet(q) \subseteq ToSet(r)
    <3> SUFFICES ASSUME NEW j \in 1..L PROVE q[j] \in ToSet(r)
      BY <1>1 DEF ToSet
    <3>1. PICK i \in 1..L : m[i] = j
      BY <1>6
    <3>2. r[i] = q[j]
      BY <1>5, <3>1
    <3> QED BY <1>2, <3>2 DEF ToSet
  <2> QED BY <2>1, <2>2
<1> QED BY <1>2, <1>8, <1>9 DEF r

\* Chosen goes along the queue and keeps what is in S.
LEMMA ChosenIs ==
    ASSUME NEW q \in Seq(Topic), NEW S
    PROVE  /\ Chosen(q, S) \in Seq(Topic)
           /\ ToSet(Chosen(q, S)) = ToSet(q) \cap S
           /\ PartOf(Chosen(q, S), q)
<1> DEFINE n == Len(q)
           Step(m, f) == [i \in 0..m |-> IF i = 0 THEN <<>>
                                         ELSE IF q[i] \in S THEN Append(f[i - 1], q[i])
                                         ELSE f[i - 1]]
           chosen == CHOOSE f : f = Step(n, f)
<1>0. n \in Nat /\ DOMAIN q = 1..n /\ \A i \in 1..n : q[i] \in Topic
  OBVIOUS
<1>1. Chosen(q, S) = chosen[n]
  BY DEF Chosen
<1>2. \A m \in 0..n : \E f : f = Step(m, f)
  <2> DEFINE T == {m \in 0..n : ~\E f : f = Step(m, f)}
  <2> SUFFICES ASSUME T # {} PROVE FALSE
    OBVIOUS
  <2>1. T \in SUBSET Nat
    BY <1>0
  <2>2. PICK m \in T : \A y \in T : m <= y
    <3> HIDE DEF T
    <3> QED BY NatMin, <2>1
  <2>3. m # 0
    <3> DEFINE f == [i \in 0..0 |-> <<>>]
    <3>1. f = Step(0, f)
      OBVIOUS
    <3> QED BY <2>2, <3>1
  <2>4. m \in 1..n /\ m - 1 \in 0..n /\ m - 1 \notin T
    <3>1. m \in 1..n /\ m - 1 \in 0..n
      BY <2>2, <2>3, <1>0
    <3> HIDE DEF T
    <3>2. m - 1 \notin T
      BY <2>2, <3>1
    <3> QED BY <3>1, <3>2
  <2>5. PICK f : f = Step(m - 1, f)
    BY <2>4
  <2> DEFINE last == IF q[m] \in S THEN Append(f[m - 1], q[m]) ELSE f[m - 1]
             g == [i \in 0..m |-> IF i = m THEN last ELSE f[i]]
  <2>6. \A i \in 0..m : g[i] = Step(m, g)[i]
    <3> SUFFICES ASSUME NEW i \in 0..m PROVE g[i] = Step(m, g)[i]
      OBVIOUS
    <3>1. CASE i = m
      <4>1. g[m - 1] = f[m - 1] /\ m # 0 /\ g[m] = last
        BY <2>4
      <4> QED BY <3>1, <4>1, <2>4
    <3>2. CASE i # m
      <4>1. i \in 0..(m - 1) /\ g[i] = f[i]
        BY <3>2, <2>4
      <4>2. f[i] = IF i = 0 THEN <<>>
                   ELSE IF q[i] \in S THEN Append(f[i - 1], q[i]) ELSE f[i - 1]
        BY <4>1, <2>5
      <4>3. i # 0 => g[i - 1] = f[i - 1]
        BY <4>1, <2>4
      <4> QED BY <4>1, <4>2, <4>3
    <3> QED BY <3>1, <3>2
  <2>7. g = Step(m, g)
    BY <2>6
  <2> QED BY <2>2, <2>7
<1>3. chosen = Step(n, chosen)
  <2>0. n \in 0..n
    BY <1>0
  <2> HIDE DEF Step
  <2>1. \E f : f = Step(n, f)
    BY <2>0, <1>2, Zenon
  <2> QED BY <2>1, Zenon
<1> HIDE DEF chosen
<1>4. \A i \in 0..n : chosen[i] = IF i = 0 THEN <<>>
                                  ELSE IF q[i] \in S THEN Append(chosen[i - 1], q[i])
                                  ELSE chosen[i - 1]
  BY <1>3
<1> DEFINE Maps(c, i, m) ==
              /\ m \in [DOMAIN c -> 1..i]
              /\ \A j, k \in DOMAIN c : j # k => m[j] # m[k]
              /\ \A j \in DOMAIN c : c[j] = q[m[j]]
           Good(c, i) == /\ c \in Seq(Topic)
                         /\ ToSet(c) = {q[j] : j \in 1..i} \cap S
                         /\ \E m : Maps(c, i, m)
<1>5. Good(<<>>, 0)
  <2>1. <<>> \in Seq(Topic) /\ DOMAIN <<>> = {} /\ ToSet(<<>>) = {}
    BY DEF ToSet
  <2>2. Maps(<<>>, 0, [j \in {} |-> 0])
    BY <2>1
  <2> HIDE DEF Maps
  <2> QED BY <2>1, <2>2
<1>6. ASSUME NEW i \in 1..n, NEW c, Good(c, i - 1), q[i] \notin S
      PROVE  Good(c, i)
  <2>1. PICK m : Maps(c, i - 1, m)
    BY <1>6
  <2>2. Maps(c, i, m)
    BY <2>1, <1>0
  <2>3. {q[j] : j \in 1..i} = {q[j] : j \in 1..(i - 1)} \cup {q[i]}
    BY <1>0
  <2> HIDE DEF Maps
  <2> QED BY <1>6, <2>2, <2>3
<1>7. ASSUME NEW i \in 1..n, NEW c, Good(c, i - 1), q[i] \in S
      PROVE  Good(Append(c, q[i]), i)
  <2> DEFINE d == Append(c, q[i])
  <2>1. PICK m : Maps(c, i - 1, m)
    BY <1>7
  <2>2. /\ c \in Seq(Topic) /\ Len(c) \in Nat /\ DOMAIN c = 1..Len(c)
        /\ d \in Seq(Topic) /\ DOMAIN d = 1..(Len(c) + 1)
        /\ \A j \in DOMAIN c : d[j] = c[j]
        /\ d[Len(c) + 1] = q[i]
    BY <1>0, <1>7
  <2> HIDE DEF d
  <2>3. ToSet(d) = ToSet(c) \cup {q[i]}
    BY <2>2 DEF ToSet
  <2>4. {q[j] : j \in 1..i} = {q[j] : j \in 1..(i - 1)} \cup {q[i]}
    BY <1>0
  <2> DEFINE l == [j \in DOMAIN d |-> IF j \in DOMAIN c THEN m[j] ELSE i]
  <2>5. \A j \in DOMAIN d : j \in DOMAIN c \/ j = Len(c) + 1
    BY <2>2
  <2>6. \A j \in DOMAIN c : l[j] = m[j] /\ m[j] \in 1..(i - 1) /\ j \in DOMAIN d
    BY <2>1, <2>2
  <2>7. l[Len(c) + 1] = i /\ Len(c) + 1 \in DOMAIN d /\ Len(c) + 1 \notin DOMAIN c
    BY <2>2
  <2>8. l \in [DOMAIN d -> 1..i]
    <3>0. i \in 1..i /\ \A x \in 1..(i - 1) : x \in 1..i
      BY <1>0
    <3>1. \A j \in DOMAIN d : (IF j \in DOMAIN c THEN m[j] ELSE i) \in 1..i
      BY <3>0, <2>6
    <3> QED BY <3>1
  <2> HIDE DEF l
  <2>9. ASSUME NEW j \in DOMAIN d, NEW k \in DOMAIN d, j # k PROVE l[j] # l[k]
    <3>1. CASE j \in DOMAIN c /\ k \in DOMAIN c
      BY <2>1, <2>6, <2>9, <3>1
    <3>2. CASE j \in DOMAIN c /\ k = Len(c) + 1
      BY <2>6, <2>7, <3>2
    <3>3. CASE j = Len(c) + 1 /\ k \in DOMAIN c
      BY <2>6, <2>7, <3>3
    <3> QED BY <2>5, <2>9, <3>1, <3>2, <3>3
  <2>10. ASSUME NEW j \in DOMAIN d PROVE d[j] = q[l[j]]
    <3>1. CASE j \in DOMAIN c
      BY <2>1, <2>2, <2>6, <3>1
    <3>2. CASE j = Len(c) + 1
      BY <2>2, <2>7, <3>2
    <3> QED BY <2>5, <3>1, <3>2
  <2>11. Maps(d, i, l)
    BY <2>8, <2>9, <2>10
  <2> HIDE DEF Maps
  <2>12. Good(d, i)
    BY <1>7, <2>2, <2>3, <2>4, <2>11
  <2> QED BY <2>12 DEF d
<1> HIDE DEF Good
<1>8. Good(chosen[n], n)
  <2> DEFINE T == {i \in 0..n : ~Good(chosen[i], i)}
  <2> SUFFICES ASSUME T # {} PROVE FALSE
    BY <1>0
  <2>1. T \in SUBSET Nat
    BY <1>0
  <2>2. PICK i \in T : \A y \in T : i <= y
    <3> HIDE DEF T
    <3> QED BY NatMin, <2>1
  <2>3. i # 0
    BY <1>4, <1>5, <2>2
  <2>4. i \in 1..n /\ i - 1 \in 0..n /\ i - 1 \notin T
    <3>1. i \in 1..n /\ i - 1 \in 0..n
      BY <2>2, <2>3, <1>0
    <3> HIDE DEF T
    <3>2. i - 1 \notin T
      BY <2>2, <3>1
    <3> QED BY <3>1, <3>2
  <2>5. Good(chosen[i - 1], i - 1)
    BY <2>4
  <2>6. chosen[i] = IF q[i] \in S THEN Append(chosen[i - 1], q[i]) ELSE chosen[i - 1]
    BY <1>4, <2>4
  <2>7. Good(chosen[i], i)
    BY <1>6, <1>7, <2>4, <2>5, <2>6
  <2> QED BY <2>2, <2>7
<1>9. PICK m : Maps(Chosen(q, S), n, m)
  BY <1>1, <1>8 DEF Good
<1>10. PartOf(Chosen(q, S), q)
  BY <1>0, <1>9 DEF PartOf
<1>11. ToSet(q) = {q[j] : j \in 1..n}
  BY <1>0 DEF ToSet
<1> QED BY <1>1, <1>8, <1>10, <1>11 DEF Good

LEMMA OrderIs == Order \in Seq(Topic) /\ ToSet(Order) = Topic /\ Once(Order)
<1> DEFINE n == Cardinality(Topic)
<1>1. IsFiniteSet(Topic) /\ n \in Nat /\ ExistsBijection(1..n, Topic)
  BY MultiAssumption, FS_CardinalityType
<1>2. PICK f \in [1..n -> Topic] : IsInjective(f)
  BY <1>1 DEF ExistsBijection, Bijection, Injection
<1>3. Order \in [1..n -> Topic] /\ IsInjective(Order)
  BY <1>2 DEF Order, SetToSeq
<1> HIDE DEF n
<1>4. Order \in Injection(1..n, Topic)
  BY <1>3 DEF Injection
<1>5. Cardinality(1..n) = n
  BY <1>1, FS_Interval
<1>6. Order \in Surjection(1..n, Topic)
  BY <1>1, <1>4, <1>5, FS_Injection DEF n
<1>7. Order \in Seq(Topic) /\ DOMAIN Order = 1..n
  BY <1>1, <1>3
<1>8. ToSet(Order) = Topic
  BY <1>3, <1>6, <1>7 DEF ToSet, Surjection
<1>9. Once(Order)
  BY <1>3 DEF IsInjective, Once
<1> QED BY <1>7, <1>8, <1>9

LEMMA InOrderIs ==
    ASSUME NEW S
    PROVE  /\ InOrder(S) \in Seq(Topic) /\ ToSet(InOrder(S)) = Topic \cap S
           /\ Once(InOrder(S))
BY OrderIs, ChosenIs, OnceOfPart DEF InOrder

\* What a refresh finds: a topic at most twice, and none it knew.
LEMMA FindIs ==
    ASSUME NEW known
    PROVE  /\ Find(known) \in Seq(Topic) /\ Twice(Find(known))
           /\ ToSet(Find(known)) = ((Named \cup Matched) \cap exists) \ known
<1> DEFINE a == InOrder(Named \cap exists)
           b == InOrder(Matched \cap exists)
<1>1. /\ a \in Seq(Topic) /\ ToSet(a) = Topic \cap (Named \cap exists) /\ Once(a)
      /\ b \in Seq(Topic) /\ ToSet(b) = Topic \cap (Matched \cap exists) /\ Once(b)
  BY InOrderIs
<1> HIDE DEF a, b
<1>2. a \o b \in Seq(Topic) /\ ToSet(a \o b) = ToSet(a) \cup ToSet(b) /\ Twice(a \o b)
  BY <1>1, Behind, ToSetBehind, TwiceBehind
<1>3. Find(known) = Chosen(a \o b, Topic \ known)
  BY DEF Find, a, b
<1>4. /\ Find(known) \in Seq(Topic) /\ Twice(Find(known))
      /\ ToSet(Find(known)) = ToSet(a \o b) \cap (Topic \ known)
  <2> DEFINE q == a \o b
             c == Chosen(q, Topic \ known)
  <2>1. q \in Seq(Topic) /\ Twice(q)
    BY <1>2
  <2> HIDE DEF q
  <2>2. c \in Seq(Topic) /\ ToSet(c) = ToSet(q) \cap (Topic \ known) /\ PartOf(c, q)
    BY <2>1, ChosenIs
  <2> HIDE DEF c
  <2>3. Twice(c)
    BY <2>1, <2>2, TwiceOfPart
  <2>4. Find(known) = c
    BY <1>3 DEF c, q
  <2> QED BY <2>2, <2>3, <2>4 DEF q
<1>5. Named \cup Matched = Topic
  BY MultiAssumption
<1> QED BY <1>1, <1>2, <1>4, <1>5

LEMMA PolledCountIs ==
    ASSUME NEW cons, NEW q \in Seq(Topic)
    PROVE  PolledCount(cons, q) \in 0..Len(q)
<1> DEFINE T == {i \in DOMAIN q : Ready(cons, q[i])}
<1>1. DOMAIN q = 1..Len(q) /\ Len(q) \in Nat
  OBVIOUS
<1>2. CASE T = {}
  BY <1>1, <1>2 DEF PolledCount
<1>3. CASE T # {}
  <2>1. T \in SUBSET Nat
    BY <1>1
  <2>2. PICK i \in T : \A y \in T : i <= y
    <3> HIDE DEF T
    <3> QED BY <1>3, <2>1, NatMin
  <2>3. \A j \in 1..(i - 1) : ~Ready(cons, q[j])
    BY <1>1, <2>1, <2>2
  <2>4. \E k \in DOMAIN q : Ready(cons, q[k]) /\ \A j \in 1..(k - 1) : ~Ready(cons, q[j])
    BY <2>2, <2>3
  <2>5. PolledCount(cons, q) \in DOMAIN q
    BY <2>4, <1>3 DEF PolledCount
  <2> QED BY <1>1, <2>5
<1> QED BY <1>2, <1>3

\* What a refresh is after: none of the topics it knew, and each at most twice.
PendingOK ==
    pending # Nothing =>
        /\ pending \in [known : SUBSET Topic, state : {"running", "ok", "failed"},
                        found : Seq(Topic)]
        /\ ToSet(existing) \subseteq pending.known
        /\ Twice(pending.found)
        /\ ToSet(pending.found) \cap pending.known = {}
        /\ ToSet(pending.found) \subseteq exists

QueueInv ==
    /\ QueueMatchesMap
    /\ topics \subseteq exists
    /\ Twice(existing)
    /\ PendingOK

LEMMA QueueInvInit == MultiInit => QueueInv
<1> SUFFICES ASSUME MultiInit PROVE QueueInv
  OBVIOUS
<1> DEFINE a == InOrder(topics)
           b == InOrder((Matched \cap exists) \ topics)
<1>1. /\ a \in Seq(Topic) /\ ToSet(a) = Topic \cap topics /\ Once(a)
      /\ b \in Seq(Topic) /\ ToSet(b) = Topic \cap ((Matched \cap exists) \ topics) /\ Once(b)
  BY InOrderIs
<1>2. existing = a \o b
  BY DEF MultiInit
<1> HIDE DEF a, b
<1>3. existing \in Seq(Topic) /\ ToSet(existing) = ToSet(a) \cup ToSet(b) /\ Twice(existing)
  BY <1>1, <1>2, Behind, ToSetBehind, TwiceBehind
<1>4. exists \subseteq Topic /\ topics = Named \cap exists /\ Named \cup Matched = Topic
  BY MultiAssumption DEF MultiInit
<1>5. ToSet(existing) = exists
  BY <1>1, <1>3, <1>4
<1>6. "live" # Nothing /\ consumers = Consumers(exists)
  BY MultiAssumption DEF MultiInit
<1>7. Subscribed = exists /\ consumers \in [Topic -> {Nothing, "live", "ended"}]
  BY <1>4, <1>6 DEF Subscribed, Consumers
<1>8. MultiTypeOK
  BY <1>3, <1>4, <1>5, <1>7 DEF MultiTypeOK, MultiInit
<1> QED BY <1>3, <1>4, <1>5, <1>7, <1>8 DEF QueueInv, QueueMatchesMap, PendingOK, MultiInit

LEMMA QueueFutureSucceeds ==
    ASSUME QueueInv, FutureSucceeds
    PROVE  QueueInv'
<1>1. /\ pending \in [known : SUBSET Topic, state : {"running", "ok", "failed"},
                      found : Seq(Topic)]
      /\ ToSet(existing) \subseteq pending.known
  BY DEF QueueInv, PendingOK, FutureSucceeds
<1> DEFINE f == Find(pending.known)
<1>2. f \in Seq(Topic) /\ Twice(f) /\ ToSet(f) \cap pending.known = {} /\ ToSet(f) \subseteq exists
  BY FindIs
<1>3. pending' = [pending EXCEPT !.state = "ok", !.found = f]
  BY DEF FutureSucceeds
<1> HIDE DEF f
<1>4. /\ pending' \in [known : SUBSET Topic, state : {"running", "ok", "failed"},
                       found : Seq(Topic)]
      /\ pending'.known = pending.known /\ pending'.found = f
  BY <1>1, <1>2, <1>3
<1>5. PendingOK'
  BY <1>1, <1>2, <1>4 DEF PendingOK, FutureSucceeds, topicVars
<1> QED BY <1>5 DEF QueueInv, QueueMatchesMap, MultiTypeOK, Subscribed, FutureSucceeds, topicVars

LEMMA QueueFutureFails ==
    ASSUME QueueInv, FutureFails
    PROVE  QueueInv'
<1>1. pending \in [known : SUBSET Topic, state : {"running", "ok", "failed"},
                   found : Seq(Topic)]
  BY DEF QueueInv, PendingOK, FutureFails
<1>2. pending' = [pending EXCEPT !.state = "failed"]
  BY DEF FutureFails
<1>3. /\ pending' \in [known : SUBSET Topic, state : {"running", "ok", "failed"},
                       found : Seq(Topic)]
      /\ pending'.known = pending.known /\ pending'.found = pending.found
  BY <1>1, <1>2
<1>4. PendingOK'
  BY <1>3 DEF QueueInv, PendingOK, FutureFails, topicVars
<1> QED BY <1>4 DEF QueueInv, QueueMatchesMap, MultiTypeOK, Subscribed, FutureFails, topicVars

LEMMA QueueSeek ==
    ASSUME QueueInv, Seek
    PROVE  QueueInv'
<1>1. topics \subseteq Topic /\ topics \subseteq Named /\ topics \subseteq exists
  BY MultiAssumption DEF QueueInv, QueueMatchesMap, MultiTypeOK
<1>2. existing' \in Seq(Topic) /\ ToSet(existing') = topics /\ Once(existing')
  BY <1>1, InOrderIs DEF Seek
<1>3. Twice(existing')
  BY <1>2 DEF Once, Twice
<1>4. "live" # Nothing /\ consumers' = [t \in Topic |-> IF t \in topics THEN "live" ELSE Nothing]
  BY MultiAssumption DEF Seek, Consumers
<1>5. Subscribed' = topics /\ consumers' \in [Topic -> {Nothing, "live", "ended"}]
  BY <1>1, <1>4 DEF Subscribed
<1>6. MultiTypeOK'
  BY <1>1, <1>2, <1>5 DEF QueueInv, QueueMatchesMap, MultiTypeOK, Seek, topicVars
<1> QED BY <1>1, <1>2, <1>3, <1>5, <1>6 DEF QueueInv, QueueMatchesMap, PendingOK, Seek, topicVars

LEMMA QueueClose ==
    ASSUME QueueInv, Close
    PROVE  QueueInv'
<1>1. PICK S \in SUBSET Subscribed :
         consumers' = [t \in Topic |-> IF t \in S THEN "ended" ELSE consumers[t]]
  BY DEF Close
<1>2. "ended" # Nothing /\ consumers \in [Topic -> {Nothing, "live", "ended"}]
  BY MultiAssumption DEF QueueInv, QueueMatchesMap, MultiTypeOK
<1>3. Subscribed' = Subscribed /\ consumers' \in [Topic -> {Nothing, "live", "ended"}]
  BY <1>1, <1>2 DEF Subscribed
<1> QED BY <1>3 DEF QueueInv, QueueMatchesMap, MultiTypeOK, PendingOK, Close, topicVars

\* A refresh that ended finds topics the queue does not have.
LEMMA FreshIs ==
    ASSUME QueueInv
    PROVE  /\ Fresh \in Seq(Topic) /\ Twice(Fresh)
           /\ ToSet(Fresh) \cap ToSet(existing) = {} /\ ToSet(Fresh) \subseteq exists
<1>1. CASE pending # Nothing /\ pending.state = "ok"
  <2>1. Fresh = pending.found
    BY <1>1 DEF Fresh
  <2> QED BY <1>1, <2>1 DEF QueueInv, PendingOK
<1>2. CASE ~(pending # Nothing /\ pending.state = "ok")
  <2>1. Fresh = <<>>
    BY <1>2 DEF Fresh
  <2> QED BY <2>1 DEF Twice, ToSet
<1> QED BY <1>1, <1>2

LEMMA QueuePoll ==
    ASSUME QueueInv, Poll
    PROVE  QueueInv'
<1> DEFINE all == existing \o Fresh
           n == PolledCount(Added, all)
           removed == {t \in {all[i] : i \in 1..n} : Ended(Added, t)}
<1>1. /\ existing \in Seq(Topic) /\ ToSet(existing) = Subscribed
      /\ Twice(existing) /\ ToSet(existing) \subseteq exists
      /\ consumers \in [Topic -> {Nothing, "live", "ended"}] /\ topics \subseteq exists
  <2>1. existing \in Seq(Topic) /\ {t \in Topic : t \in ToSet(existing)} \subseteq exists
    BY DEF QueueInv, QueueMatchesMap, MultiTypeOK
  <2>2. ToSet(existing) \subseteq Topic
    BY <2>1 DEF ToSet
  <2> QED BY <2>1, <2>2 DEF QueueInv, QueueMatchesMap, MultiTypeOK
<1>2. /\ Fresh \in Seq(Topic) /\ Twice(Fresh)
      /\ ToSet(Fresh) \cap ToSet(existing) = {} /\ ToSet(Fresh) \subseteq exists
  BY FreshIs
<1>3. all \in Seq(Topic) /\ ToSet(all) = ToSet(existing) \cup ToSet(Fresh) /\ Twice(all)
  BY <1>1, <1>2, Behind, ToSetBehind, TwiceBehind
<1>4. /\ pending' = IF due THEN UpdateTopics(all) ELSE Kept
      /\ existing' = Remaining(Rotated(all, n), removed)
      /\ consumers' = [t \in Topic |-> IF t \in removed THEN Nothing ELSE Added[t]]
      /\ backlog' \subseteq backlog
      /\ topics' = topics /\ exists' = exists
  BY DEF Poll
<1> HIDE DEF all
<1>5. n \in 0..Len(all)
  BY <1>3, PolledCountIs
<1> HIDE DEF n
<1>6. /\ Rotated(all, n) \in Seq(Topic) /\ ToSet(Rotated(all, n)) = ToSet(all)
      /\ PartOf(Rotated(all, n), all)
  BY <1>3, <1>5, RotatedIs
<1> HIDE DEF removed
<1>7. /\ existing' \in Seq(Topic) /\ Twice(existing')
      /\ ToSet(existing') = ToSet(all) \cap (Topic \ removed)
  BY <1>3, <1>4, <1>6, ChosenIs, TwiceOfPart DEF Remaining
<1>8. "live" # Nothing
  BY MultiAssumption
<1>9. \A t \in Topic : /\ Added[t] \in {Nothing, "live", "ended"}
                       /\ Added[t] # Nothing <=> t \in ToSet(all)
  BY <1>1, <1>3, <1>8 DEF Added, Subscribed
<1> HIDE DEF removed
<1>10. consumers' \in [Topic -> {Nothing, "live", "ended"}]
  BY <1>4, <1>9
<1>11. \A t \in Topic : t \in Subscribed' <=> t \in ToSet(existing')
  BY <1>4, <1>7, <1>9 DEF Subscribed
<1>12. ToSet(existing') = Subscribed'
  <2>1. ToSet(existing') \subseteq Topic /\ Subscribed' \subseteq Topic
    BY <1>7 DEF Subscribed
  <2> QED BY <1>11, <2>1
<1>13. ToSet(existing') \subseteq exists
  BY <1>1, <1>2, <1>3, <1>7
<1>14. MultiTypeOK'
  BY <1>4, <1>7, <1>10, <1>13 DEF QueueInv, QueueMatchesMap, MultiTypeOK
<1>15. PendingOK'
  <2>1. CASE due
    <3>1. pending' = [known |-> ToSet(all), state |-> "running", found |-> <<>>]
      BY <1>4, <2>1 DEF UpdateTopics
    <3>2. ToSet(all) \subseteq Topic
      BY <1>3 DEF ToSet
    <3>3. <<>> \in Seq(Topic) /\ Twice(<<>>) /\ ToSet(<<>>) = {}
      BY DEF Twice, ToSet
    <3>4. /\ pending' \in [known : SUBSET Topic, state : {"running", "ok", "failed"},
                           found : Seq(Topic)]
          /\ pending'.known = ToSet(all) /\ pending'.found = <<>>
      BY <3>1, <3>2, <3>3
    <3> QED BY <1>7, <3>3, <3>4 DEF PendingOK
  <2>2. CASE ~due /\ pending # Nothing /\ pending.state = "running"
    <3>1. pending' = pending
      BY <1>4, <2>2 DEF Kept
    <3>2. Fresh = <<>>
      BY <2>2 DEF Fresh
    <3>3. ToSet(existing') \subseteq ToSet(existing)
      BY <1>3, <1>7, <3>2 DEF ToSet
    <3> QED BY <1>4, <2>2, <3>1, <3>3 DEF QueueInv, PendingOK
  <2>3. CASE ~due /\ ~(pending # Nothing /\ pending.state = "running")
    BY <1>4, <2>3 DEF Kept, PendingOK
  <2> QED BY <2>1, <2>2, <2>3
<1> QED BY <1>1, <1>4, <1>7, <1>12, <1>14, <1>15 DEF QueueInv, QueueMatchesMap

\* The environment's steps only add topics and messages.
LEMMA QueueOthers ==
    ASSUME QueueInv,
           RefreshTick \/ TopicAppears \/ (\E t \in Topic : MessageArrives(t))
             \/ UNCHANGED multiVars
    PROVE  QueueInv'
<1>1. /\ UNCHANGED <<consumers, existing, topics, pending>>
      /\ exists \subseteq exists' /\ backlog' \subseteq exists'
  BY DEF RefreshTick, TopicAppears, MessageArrives, multiVars, topicVars, QueueInv,
         QueueMatchesMap, MultiTypeOK
<1>2. MultiTypeOK' /\ Subscribed' = Subscribed
  BY <1>1 DEF QueueInv, QueueMatchesMap, MultiTypeOK, Subscribed
<1> QED BY <1>1, <1>2 DEF QueueInv, QueueMatchesMap, PendingOK

LEMMA QueueInvNext == QueueInv /\ [MultiNext]_multiVars => QueueInv'
BY QueueFutureSucceeds, QueueFutureFails, QueueSeek, QueueClose, QueuePoll, QueueOthers
   DEF MultiNext

LEMMA QueueInvHolds == MultiSpec => []QueueInv
BY QueueInvInit, QueueInvNext, PTL DEF MultiSpec

(* poll_next (multi.rs) never meets a topic of its queue without a          *)
(* consumer, and never leaves a consumer out of its round, whatever ends,   *)
(* appears or is found in between.                                          *)
THEOREM QueueAlwaysMatches == MultiSpec => []QueueMatchesMap
<1>1. QueueInv => QueueMatchesMap
  BY DEF QueueInv
<1> QED BY QueueInvHolds, <1>1, PTL

(* However often update_topics runs, the queue poll_next goes round does    *)
(* not grow with it: a topic is in it at most twice (a name that the regex  *)
(* matches too), and what a refresh still has to hand over is not in it.    *)
QueueBounded ==
    /\ \A i, j, k \in DOMAIN existing :
          i # j /\ j # k /\ i # k => ~(existing[i] = existing[j] /\ existing[j] = existing[k])
    /\ pending # Nothing => ToSet(pending.found) \cap ToSet(existing) = {}

(* A topic that is both named and matched may be found twice by a refresh,  *)
(* but no refresh hands poll_next a topic that it already goes round.       *)
THEOREM QueueStaysBounded == MultiSpec => []QueueBounded
<1>1. QueueInv => QueueBounded
  BY DEF QueueInv, QueueBounded, PendingOK, Twice
<1> QED BY QueueInvHolds, <1>1, PTL
=============================================================================
