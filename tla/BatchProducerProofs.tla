------------------------ MODULE BatchProducerProofs --------------------------
(* Proofs about BatchProducer, for every size of a batch and of the         *)
(* channels and any number of messages and flushes: its type, that receipts *)
(* are true and in order, that send_batch and close settle what was sent    *)
(* before them, and that it implements the promise of ProducerLog.          *)
EXTENDS BatchProducer, WellFoundedInduction, TLAPS

-----------------------------------------------------------------------------
(* The inductive invariant. *)

\* What batch_process_loop has not put into a batch yet.
Stream == storage \o channel

\* The messages among the items of a channel, a storage or a batch.
Held(items) == {m \in Msgs : \E i \in DOMAIN items : items[i] = Single(m)}

Pending(m) ==
    \/ m \in Held(batch) \/ m \in Held(Stream)
    \/ \E b \in DOMAIN batches : m \in Held(batches[b])

\* Consecutive messages, and perhaps a Flush behind them.
Batched(items) ==
    \A i \in DOMAIN items :
        /\ i < Len(items) => items[i].type = "message"
        /\ items[i].type = "message" => items[i].id = items[1].id + i - 1

\* A sender that has not been let through fills the channel of batches.
Room == batcher # "sending" => Len(batches) <= BatchCap

\* Only whole batches travel, and the sender holds one while it works on it.
BatchesFormed ==
    /\ Batched(storage) /\ ~HasFlush(storage)
    /\ \A b \in DOMAIN batches : batches[b] # <<>> /\ Batched(batches[b])
    /\ Batched(batch)
    /\ IF sender \in {"send", "wait"} THEN Popped(batch) # <<>> ELSE batch = <<>>
    /\ written # None => sender = "wait"

\* The messages of a channel are in the order of the calls, without a gap.
Increasing(items) ==
    \A i, j \in DOMAIN items :
       i < j /\ items[i].type = "message" /\ items[j].type = "message"
          => items[i].id < items[j].id

Gapless(items) == \A m, n \in Held(items) : m..n \subseteq Held(items)

StreamInOrder ==
    /\ Increasing(Stream) /\ Gapless(Stream)
    /\ open /\ Held(Stream) # {} => sent \in Held(Stream)

\* Batches are in the order of the calls.
BatchesInOrder ==
    /\ \A b, c \in DOMAIN batches : b < c =>
          \A m \in Held(batches[b]), n \in Held(batches[c]) : m < n
    /\ \A b \in DOMAIN batches : \A m \in Held(batches[b]) :
          /\ \A n \in Held(Stream) : m < n
          /\ \A n \in Held(batch) : n < m
    /\ \A m \in Held(batch), n \in Held(Stream) : m < n

\* A message is pending from its send until it is settled, and acknowledged
\* before the messages behind it.
PendingUnsettled ==
    /\ \A m \in Msgs : Pending(m) <=> m <= sent /\ receipt[m] = None
    /\ \A m \in Msgs : m > sent => receipt[m] = None
    /\ \A m, n \in Msgs : Acked(m) /\ Pending(n) => m < n

\* The broker has of the pending messages only the batch it has just written.
LogBehind ==
    /\ \A e \in DOMAIN log : \A i \in DOMAIN log[e] :
          /\ log[e][i] <= sent
          /\ Pending(log[e][i]) => written # None /\ log[e][i] \in Held(batch)
    /\ written # None =>
          /\ written \in DOMAIN log
          /\ log[written] = MessagesOf(Popped(batch))
          /\ \A m \in Msgs : Acked(m) => receipt[m].entry < written

\* A batch given up on is settled, and the broker writes it at most once.
LimboOnce ==
    \A ms \in limbo :
        /\ ms # <<>>
        /\ \A i \in DOMAIN ms : ms[i] = ms[1] + i - 1
        /\ \A i \in DOMAIN ms : receipt[ms[i]] # None /\ ms[i] <= sent
        /\ \A i \in DOMAIN ms : \A e \in DOMAIN log : \A j \in DOMAIN log[e] :
              log[e][j] # ms[i]
        /\ \A other \in limbo : other # ms =>
              \A i \in DOMAIN ms, j \in DOMAIN other : ms[i] # other[j]

FlushIn(items, k) == HasFlush(items) /\ items[Len(items)].id = k

\* The Flush the user waits for is behind everything it has sent.

FlushLast ==
    /\ \A i \in DOMAIN Stream : Stream[i].type = "flush" => Stream[i].id <= flushes
    /\ \A b \in DOMAIN batches : HasFlush(batches[b]) =>
          batches[b][Len(batches[b])].id <= flushes
    /\ HasFlush(batch) => batch[Len(batch)].id <= flushes
    /\ user = "flushing" =>
          /\ flushes \in answered => \A m \in Msgs : ~Pending(m)
          /\ FlushIn(batch, flushes) => batches = <<>> /\ Stream = <<>>
          /\ \A b \in DOMAIN batches : FlushIn(batches[b], flushes) =>
                b = Len(batches) /\ Stream = <<>>
          /\ \A i \in DOMAIN Stream :
                Stream[i].type = "flush" /\ Stream[i].id = flushes => i = Len(Stream)

\* The tasks end one after the other, with nothing left in the channels.
Ending ==
    /\ user \in {"closing", "closed", "abandoned", "dropped"} <=> ~open
    /\ batcher = "done" => ~open /\ Stream = <<>>
    /\ sender = "done" => batcher = "done" /\ batches = <<>>
    /\ user = "closed" => sender = "done"

Ordered == BatchesFormed /\ StreamInOrder /\ BatchesInOrder

Settling == PendingUnsettled /\ LogBehind /\ LimboOnce

Inv ==
    /\ TypeOK /\ Room /\ Ordered /\ Settling
    /\ ReceiptsPoint /\ AckedInOrder
    /\ FlushLast /\ Ending /\ FlushSettles

-----------------------------------------------------------------------------
(* Facts about sequences and items. *)

\* A set of numbers has a least one: what induction is here.
LEMMA NatMin ==
    ASSUME NEW T \in SUBSET Nat, T # {}
    PROVE  \E x \in T : \A y \in T : x <= y
<1>1. PICK x \in T : \A y \in T : ~ (<<y, x>> \in OpToRel(<, Nat))
  BY WFMin, NatLessThanWellFounded
<1>2. \A y \in T : ~(y < x)
  BY <1>1 DEF OpToRel
<1> QED BY <1>2

\* The loop over a batch of nothing but messages pushes each of them.
LEMMA MessagesAll ==
    ASSUME NEW S, NEW items \in Seq(S), \A i \in DOMAIN items : items[i].type = "message",
           NEW M, \A i \in DOMAIN items : items[i].id \in M
    PROVE  MessagesOf(items) = [i \in 1..Len(items) |-> items[i].id]
<1> DEFINE n == Len(items)
           Step(k) == [i \in 0..n |->
              IF i = 0 THEN <<>>
              ELSE IF items[i].type = "message" THEN Append(k[i - 1], items[i].id)
              ELSE k[i - 1]]
           kept == CHOOSE k : k = Step(k)
           Ids(i) == [j \in 1..i |-> items[j].id]
           all == [i \in 0..n |-> Ids(i)]
<1>0. n \in Nat /\ DOMAIN items = 1..n
  OBVIOUS
<1>1. MessagesOf(items) = kept[n]
  BY DEF MessagesOf
<1>2. \A i \in 0..n : Ids(i) \in Seq(M) /\ Len(Ids(i)) = i
  BY <1>0
<1>3. \A i \in 1..n : Ids(i) = Append(Ids(i - 1), items[i].id)
  <2> SUFFICES ASSUME NEW i \in 1..n PROVE Ids(i) = Append(Ids(i - 1), items[i].id)
    OBVIOUS
  <2>1. i - 1 \in 0..n /\ items[i].id \in M
    BY <1>0
  <2>2. Ids(i) \in Seq(M) /\ Ids(i-1) \in Seq(M) /\ Len(Ids(i)) = i /\ Len(Ids(i-1)) = i-1
    BY <1>2, <2>1
  <2>3. \A j \in 1..i : Ids(i)[j] = Append(Ids(i - 1), items[i].id)[j]
    BY <2>1, <2>2
  <2> HIDE DEF Ids
  <2> QED BY <2>1, <2>2, <2>3
<1>4. all = Step(all)
  <2>1. \A i \in 0..n : all[i] = Step(all)[i]
    <3> SUFFICES ASSUME NEW i \in 0..n PROVE all[i] = Step(all)[i]
      OBVIOUS
    <3>1. CASE i = 0
      BY <3>1, <1>2
    <3>2. CASE i # 0
      <4>1. i \in 1..n /\ i - 1 \in 0..n
        BY <3>2, <1>0
      <4>2. Step(all)[i] = Append(Ids(i-1), items[i].id)
        BY <4>1, <1>0, <3>2
      <4> QED BY <4>1, <4>2, <1>3
    <3> QED BY <3>1, <3>2
  <2> QED BY <2>1
<1>5. kept = Step(kept)
  <2> HIDE DEF Step
  <2> QED BY <1>4, Zenon
<1>6. \A i \in 0..n : kept[i] = Ids(i)
  <2> DEFINE T == {i \in 0..n : kept[i] # Ids(i)}
  <2> SUFFICES ASSUME T # {} PROVE FALSE
    BY DEF T
  <2>0. T \in SUBSET Nat
    BY <1>0
  <2>1. PICK x \in T : \A y \in T : x <= y
    <3> HIDE DEF T
    <3> QED BY NatMin, <2>0
  <2> HIDE DEF kept
  <2>2. x # 0
    <3>1. kept[0] = <<>>
      BY <1>5, <1>0
    <3>2. Ids(0) = <<>>
      BY <1>0, <1>2
    <3> QED BY <3>1, <3>2
  <2>3. x \in 1..n /\ x - 1 \in 0..n /\ x - 1 \notin T
    BY <2>1, <2>2, <1>0
  <2>4. kept[x] = Append(kept[x - 1], items[x].id)
    <3>1. kept[x] = Step(kept)[x]
      BY <1>5
    <3> QED BY <3>1, <2>3, <1>0, <2>2
  <2>5. kept[x - 1] = Ids(x - 1)
    BY <2>3
  <2> QED BY <2>1, <2>3, <2>4, <2>5, <1>3
<1> HIDE DEF kept
<1> QED BY <1>0, <1>1, <1>6

LEMMA AppendFacts ==
    ASSUME NEW S, NEW s \in Seq(S), NEW x \in S
    PROVE  /\ Append(s, x) \in Seq(S)
           /\ Len(s) \in Nat /\ DOMAIN s = 1..Len(s)
           /\ Len(Append(s, x)) = Len(s) + 1
           /\ DOMAIN Append(s, x) = 1..(Len(s) + 1)
           /\ \A i \in DOMAIN s : Append(s, x)[i] = s[i]
           /\ Append(s, x)[Len(s) + 1] = x
           /\ Append(s, x) # <<>>
OBVIOUS

LEMMA TailFacts ==
    ASSUME NEW S, NEW s \in Seq(S), s # <<>>
    PROVE  /\ Tail(s) \in Seq(S) /\ Head(s) \in S /\ Head(s) = s[1]
           /\ Len(s) \in Nat \ {0} /\ DOMAIN s = 1..Len(s)
           /\ Len(Tail(s)) = Len(s) - 1
           /\ DOMAIN Tail(s) = 1..(Len(s) - 1)
           /\ \A i \in DOMAIN Tail(s) : i + 1 \in DOMAIN s /\ Tail(s)[i] = s[i + 1]
OBVIOUS

LEMMA ConcatFacts ==
    ASSUME NEW S, NEW s \in Seq(S), NEW t \in Seq(S)
    PROVE  /\ s \o t \in Seq(S)
           /\ Len(s) \in Nat /\ Len(t) \in Nat
           /\ DOMAIN s = 1..Len(s) /\ DOMAIN t = 1..Len(t)
           /\ Len(s \o t) = Len(s) + Len(t)
           /\ DOMAIN (s \o t) = 1..(Len(s) + Len(t))
           /\ \A i \in 1..Len(s) : (s \o t)[i] = s[i]
           /\ \A i \in 1..Len(t) : (s \o t)[Len(s) + i] = t[i]
OBVIOUS

\* Sequences of one length with the same elements are one.
LEMMA SameSequence ==
    ASSUME NEW S, NEW s \in Seq(S), NEW t \in Seq(S), Len(s) = Len(t),
           \A i \in 1..Len(s) : s[i] = t[i]
    PROVE  s = t
OBVIOUS

LEMMA ItemFacts ==
    /\ \A m \in Msgs : Single(m) \in Items
    /\ \A k \in 1..MaxFlushes : Flush(k) \in Items
    /\ \A m : Single(m).type = "message" /\ Single(m).id = m
    /\ \A k : Flush(k).type = "flush" /\ Flush(k).id = k
    /\ \A x \in Items : x.type = "message" => x.id \in Msgs /\ x = Single(x.id)
    /\ \A x \in Items : x.type # "message" =>
          x.type = "flush" /\ x.id \in 1..MaxFlushes /\ x = Flush(x.id)
BY DEF Items, Single, Flush

\* The messages a sequence of items holds are the ids at its positions.
LEMMA HeldAt ==
    ASSUME NEW s \in Seq(Items)
    PROVE  /\ \A i \in DOMAIN s : s[i].type = "message" => s[i].id \in Held(s)
           /\ \A m \in Held(s) : m \in Msgs /\
                 \E i \in DOMAIN s : s[i].type = "message" /\ s[i].id = m
<1>1. \A i \in DOMAIN s : s[i] \in Items
  OBVIOUS
<1> QED BY <1>1, ItemFacts DEF Held

LEMMA HeldAppend ==
    ASSUME NEW s \in Seq(Items), NEW x \in Items
    PROVE  /\ x.type = "message" => Held(Append(s, x)) = Held(s) \cup {x.id}
           /\ x.type # "message" => Held(Append(s, x)) = Held(s)
<1>1. /\ DOMAIN s = 1..Len(s) /\ Len(s) \in Nat
      /\ DOMAIN Append(s, x) = 1..(Len(s) + 1)
      /\ \A i \in DOMAIN s : Append(s, x)[i] = s[i]
      /\ Append(s, x)[Len(s) + 1] = x
  BY AppendFacts
<1>2. \A i \in 1..(Len(s) + 1) : i \in 1..Len(s) \/ i = Len(s) + 1
  BY <1>1
<1>3. \A m \in Msgs : m \in Held(Append(s, x)) <=> m \in Held(s) \/ x = Single(m)
  <2> SUFFICES ASSUME NEW m \in Msgs
               PROVE  m \in Held(Append(s, x)) <=> m \in Held(s) \/ x = Single(m)
    OBVIOUS
  <2>1. ASSUME m \in Held(Append(s, x)) PROVE m \in Held(s) \/ x = Single(m)
    <3>1. PICK i \in 1..(Len(s) + 1) : Append(s, x)[i] = Single(m)
      BY <2>1, <1>1 DEF Held
    <3> QED BY <3>1, <1>1, <1>2 DEF Held
  <2>2. ASSUME m \in Held(s) PROVE m \in Held(Append(s, x))
    <3>1. PICK i \in 1..Len(s) : s[i] = Single(m)
      BY <2>2, <1>1 DEF Held
    <3>2. i \in 1..(Len(s) + 1)
      BY <1>1
    <3> QED BY <3>1, <3>2, <1>1 DEF Held
  <2>3. ASSUME x = Single(m) PROVE m \in Held(Append(s, x))
    <3>1. Len(s) + 1 \in 1..(Len(s) + 1)
      BY <1>1
    <3> QED BY <3>1, <2>3, <1>1 DEF Held
  <2> QED BY <2>1, <2>2, <2>3
<1>4. \A q : Held(q) \subseteq Msgs
  BY DEF Held
<1>5. ASSUME x.type = "message" PROVE Held(Append(s, x)) = Held(s) \cup {x.id}
  <2>1. x.id \in Msgs /\ \A m \in Msgs : x = Single(m) <=> m = x.id
    BY <1>5, ItemFacts
  <2>2. \A m \in Msgs : m \in Held(Append(s, x)) <=> m \in Held(s) \cup {x.id}
    BY <2>1, <1>3
  <2>3. Held(Append(s, x)) \subseteq Msgs /\ Held(s) \cup {x.id} \subseteq Msgs
    BY <2>1, <1>4
  <2> QED BY <2>2, <2>3
<1>6. ASSUME x.type # "message" PROVE Held(Append(s, x)) = Held(s)
  <2>1. \A m \in Msgs : x # Single(m)
    BY <1>6, ItemFacts
  <2>2. \A m \in Msgs : m \in Held(Append(s, x)) <=> m \in Held(s)
    BY <2>1, <1>3
  <2>3. Held(Append(s, x)) \subseteq Msgs /\ Held(s) \subseteq Msgs
    BY <1>4
  <2> QED BY <2>2, <2>3
<1> QED BY <1>5, <1>6

LEMMA HeldConcat ==
    ASSUME NEW s \in Seq(Items), NEW t \in Seq(Items)
    PROVE  Held(s \o t) = Held(s) \cup Held(t)
<1>1. /\ Len(s) \in Nat /\ Len(t) \in Nat
      /\ DOMAIN s = 1..Len(s) /\ DOMAIN t = 1..Len(t)
      /\ DOMAIN (s \o t) = 1..(Len(s) + Len(t))
      /\ \A i \in 1..Len(s) : (s \o t)[i] = s[i]
      /\ \A i \in 1..Len(t) : (s \o t)[Len(s) + i] = t[i]
  BY ConcatFacts
<1>2. ASSUME NEW m \in Held(s \o t) PROVE m \in Held(s) \cup Held(t)
  <2>1. PICK i \in 1..(Len(s) + Len(t)) : (s \o t)[i] = Single(m)
    BY <1>1 DEF Held
  <2>2. CASE i \in 1..Len(s)
    BY <2>1, <2>2, <1>1 DEF Held
  <2>3. CASE i \notin 1..Len(s)
    <3>1. i - Len(s) \in 1..Len(t) /\ Len(s) + (i - Len(s)) = i
      BY <2>3, <1>1
    <3> QED BY <2>1, <3>1, <1>1 DEF Held
  <2> QED BY <2>2, <2>3
<1>3. ASSUME NEW m \in Held(s) PROVE m \in Held(s \o t)
  <2>1. PICK i \in 1..Len(s) : s[i] = Single(m)
    BY <1>1 DEF Held
  <2>2. i \in 1..(Len(s) + Len(t))
    BY <1>1
  <2> QED BY <2>1, <2>2, <1>1 DEF Held
<1>4. ASSUME NEW m \in Held(t) PROVE m \in Held(s \o t)
  <2>1. PICK i \in 1..Len(t) : t[i] = Single(m)
    BY <1>1 DEF Held
  <2>2. Len(s) + i \in 1..(Len(s) + Len(t))
    BY <1>1
  <2> QED BY <2>1, <2>2, <1>1 DEF Held
<1> QED BY <1>2, <1>3, <1>4

LEMMA HeldEmpty == Held(<<>>) = {}
BY DEF Held

\* What a batch is for message_send_loop.
LEMMA BatchFacts ==
    ASSUME NEW b \in Seq(Items), Batched(b)
    PROVE  /\ Popped(b) \in Seq(Items) /\ Len(Popped(b)) \in Nat
           /\ DOMAIN Popped(b) = 1..Len(Popped(b))
           /\ \A i \in 1..Len(Popped(b)) :
                 /\ i \in DOMAIN b /\ b[i].type = "message"
                 /\ b[i].id \in Msgs /\ b[i].id \in Held(b)
                 /\ b[i].id = b[1].id + i - 1
           /\ MessagesOf(Popped(b)) = [i \in 1..Len(Popped(b)) |-> b[i].id]
           /\ MessagesOf(Popped(b)) \in Seq(Msgs)
           /\ Len(MessagesOf(Popped(b))) = Len(Popped(b))
           /\ \A m \in Held(b) : \E i \in 1..Len(Popped(b)) : b[i].id = m
           /\ Popped(b) = <<>> <=> Held(b) = {}
           /\ Popped(b) # <<>> => Len(Popped(b)) > 0
<1> DEFINE p == Popped(b)
<1>1. /\ Len(b) \in Nat /\ DOMAIN b = 1..Len(b) /\ \A i \in DOMAIN b : b[i] \in Items
  OBVIOUS
<1>2. /\ p \in Seq(Items) /\ Len(p) \in Nat /\ DOMAIN p = 1..Len(p)
      /\ \A i \in 1..Len(p) : i \in DOMAIN b /\ p[i] = b[i]
      /\ HasFlush(b) => Len(p) = Len(b) - 1 /\ Len(b) > 0
      /\ ~HasFlush(b) => Len(p) = Len(b)
  <2>1. CASE HasFlush(b)
    <3>1. Len(b) > 0 /\ p = SubSeq(b, 1, Len(b) - 1)
      BY <2>1, <1>1 DEF HasFlush, Popped
    <3>2. /\ p \in Seq(Items) /\ Len(p) = Len(b) - 1
          /\ \A i \in 1..Len(p) : p[i] = b[i]
      BY <3>1, <1>1
    <3> QED BY <2>1, <3>1, <3>2, <1>1
  <2>2. CASE ~HasFlush(b)
    BY <2>2, <1>1 DEF Popped
  <2> QED BY <2>1, <2>2
<1> HIDE DEF p
<1>3. \A i \in 1..Len(p) : b[i].type = "message"
  <2> SUFFICES ASSUME NEW i \in 1..Len(p) PROVE b[i].type = "message"
    OBVIOUS
  <2>1. CASE i < Len(b)
    BY <2>1, <1>2 DEF Batched
  <2>2. CASE ~(i < Len(b))
    <3>1. /\ i \in 1..Len(b)
          /\ HasFlush(b) => i \in 1..(Len(b) - 1)
      BY <1>1, <1>2
    <3>2. i = Len(b)
      <4>1. i \in 1..Len(b) /\ Len(b) \in Nat /\ ~(i < Len(b))
        BY <3>1, <2>2, <1>1
      <4> QED BY <4>1
    <3>4. ~HasFlush(b)
      BY <3>1, <3>2, <1>1
    <3>3. b # <<>> /\ b[Len(b)].type # "flush" /\ b[Len(b)] \in Items
      BY <3>1, <3>2, <3>4, <1>1 DEF HasFlush
    <3> QED BY <3>2, <3>3, ItemFacts
  <2> QED BY <2>1, <2>2
<1>4. \A i \in 1..Len(p) :
        /\ i \in DOMAIN b /\ b[i].type = "message"
        /\ b[i].id \in Msgs /\ b[i].id \in Held(b)
        /\ b[i].id = b[1].id + i - 1
  BY <1>1, <1>2, <1>3, HeldAt DEF Batched, Held
<1>5. MessagesOf(p) = [i \in 1..Len(p) |-> p[i].id]
  <2>1. \A i \in DOMAIN p : p[i].type = "message" /\ p[i].id \in Msgs
    BY <1>2, <1>4
  <2>2. p \in Seq(Items)
    BY <1>2
  <2> QED BY <2>1, <2>2, MessagesAll
<1>6. MessagesOf(p) = [i \in 1..Len(p) |-> b[i].id]
  BY <1>5, <1>2
<1>7. MessagesOf(p) \in Seq(Msgs) /\ Len(MessagesOf(p)) = Len(p)
  BY <1>6, <1>4, <1>2
<1>8. \A m \in Held(b) : \E i \in 1..Len(p) : b[i].id = m
  <2> SUFFICES ASSUME NEW m \in Held(b) PROVE \E i \in 1..Len(p) : b[i].id = m
    OBVIOUS
  <2>1. PICK i \in DOMAIN b : b[i].type = "message" /\ b[i].id = m
    BY HeldAt
  <2>2. CASE HasFlush(b)
    <3>1. b[Len(b)].type # "message"
      BY <2>2 DEF HasFlush
    <3>2. i # Len(b) /\ i \in 1..Len(b)
      BY <3>1, <2>1, <1>1
    <3>3. i \in 1..Len(p)
      BY <3>2, <2>2, <1>2, <1>1
    <3> QED BY <3>3, <2>1
  <2>3. CASE ~HasFlush(b)
    BY <2>3, <2>1, <1>1, <1>2
  <2> QED BY <2>2, <2>3
<1>9. p # <<>> => Len(p) > 0
  BY <1>2
<1>10. p = <<>> <=> Held(b) = {}
  <2>1. ASSUME p = <<>> PROVE Held(b) = {}
    BY <2>1, <1>8, <1>2
  <2>2. ASSUME p # <<>> PROVE Held(b) # {}
    <3>1. 1 \in 1..Len(p)
      BY <2>2, <1>9, <1>2
    <3> QED BY <3>1, <1>4
  <2> QED BY <2>1, <2>2
<1> QED BY <1>2, <1>4, <1>6, <1>7, <1>8, <1>9, <1>10 DEF p

-----------------------------------------------------------------------------
(* Types. *)

LEMMA Bounds ==
    /\ MsgCap \in Nat /\ BatchCap \in Nat /\ MaxMsgs \in Nat /\ MaxFlushes \in Nat
    /\ None \notin Nat
BY BatchAssumption

LEMMA ReceiptValues ==
    /\ \A why \in {"closed", "error"} :
          Failed(why) \in Receipts /\ Failed(why) # None /\ Failed(why).result = why
    /\ \A e, i, n \in Nat :
          Placed(e, i, n) \in Receipts /\ Placed(e, i, n) # None /\ Placed(e, i, n).result = "ok"
<1>1. \A why \in {"closed", "error"} : Failed(why) \in Outcome /\ Failed(why).result = why
  BY DEF Failed, Outcome
<1>2. \A e, i, n \in Nat : Placed(e, i, n) \in Outcome /\ Placed(e, i, n).result = "ok"
  BY DEF Placed, Outcome
<1> QED BY <1>1, <1>2, OutcomeAssumption DEF Receipts

\* Every message of a batch is given one value, and no other message.
LEMMA SettleType ==
    ASSUME TypeOK, NEW ms, NEW why \in {"closed", "error"}, Settle(ms, Failed(why))
    PROVE  receipt' \in [Msgs -> Receipts]
<1>1. \A m \in Msgs : receipt[m] \in Receipts
  BY DEF TypeOK
<1> QED BY <1>1, ReceiptValues DEF Settle

LEMMA UserType ==
    ASSUME TypeOK, Room, User
    PROVE  TypeOK' /\ Room'
<1> USE Bounds
<1>0. ASSUME UNCHANGED <<channel, batcherVars, batches, senderVars, answered, brokerVars>>,
             user' \in {"ready", "sending", "flushing", "closing", "closed", "abandoned", "dropped"},
             open' \in BOOLEAN, receipt' \in [Msgs -> Receipts], flushes' = flushes,
             sent' \in 0..MaxMsgs, flushed' \in 0..sent'
      PROVE  TypeOK' /\ Room'
  BY <1>0 DEF TypeOK, Room, batcherVars, senderVars, brokerVars
<1>1. ASSUME Send PROVE TypeOK' /\ Room'
  <2>1. Single(sent + 1) \in Items
    BY <1>1, ItemFacts DEF Send, TypeOK, Msgs
  <2>2. channel' \in Seq(Items) /\ Len(channel') <= MsgCap + 1
    <3>1. channel \in Seq(Items) /\ Len(channel) <= MsgCap /\ channel' = Append(channel, Single(sent + 1))
      BY <1>1 DEF Send, TypeOK
    <3> QED BY <2>1, <3>1, AppendFacts
  <2> QED BY <1>1, <2>2 DEF Send, TypeOK, Room, batcherVars, senderVars, brokerVars
<1>2. ASSUME SendBatch PROVE TypeOK' /\ Room'
  <2>1. Flush(flushes + 1) \in Items
    BY <1>2, ItemFacts DEF SendBatch, TypeOK
  <2>2. channel' \in Seq(Items) /\ Len(channel') <= MsgCap + 1
    <3>1. channel \in Seq(Items) /\ Len(channel) <= MsgCap /\ channel' = Append(channel, Flush(flushes + 1))
      BY <1>2 DEF SendBatch, TypeOK
    <3> QED BY <2>1, <3>1, AppendFacts
  <2>3. answered' \subseteq 1..flushes' /\ flushes' \in 0..MaxFlushes
    BY <1>2 DEF SendBatch, TypeOK
  <2> QED BY <1>2, <2>2, <2>3 DEF SendBatch, TypeOK, Room, batcherVars, senderVars, brokerVars
<1>3. ASSUME SendClosed PROVE TypeOK' /\ Room'
  <2>1. receipt' \in [Msgs -> Receipts] /\ sent + 1 \in 0..MaxMsgs /\ flushed \in 0..(sent + 1)
    <3>1. Failed("closed") \in Receipts
      BY ReceiptValues
    <3>2. receipt' \in [Msgs -> Receipts]
      BY <1>3, <3>1 DEF SendClosed, TypeOK
    <3> QED BY <1>3, <3>2 DEF SendClosed, TypeOK
  <2> QED BY <1>3, <2>1, <1>0 DEF SendClosed, TypeOK
<1>4. CASE SendReturns
  BY <1>4, <1>0 DEF SendReturns, TypeOK
<1>5. CASE SendBatchReturns
  <2>1. sent \in 0..sent /\ sent \in 0..MaxMsgs
    BY DEF TypeOK
  <2> QED BY <1>5, <2>1, <1>0 DEF SendBatchReturns, TypeOK
<1>6. CASE Close
  BY <1>6, <1>0 DEF Close, TypeOK
<1>7. CASE CloseReturns
  BY <1>7, <1>0 DEF CloseReturns, TypeOK
<1>8. CASE Cancel
  BY <1>8, <1>0 DEF Cancel, TypeOK
<1>9. CASE DropProducer
  BY <1>9, <1>0 DEF DropProducer, TypeOK
<1> QED BY <1>1, <1>2, <1>3, <1>4, <1>5, <1>6, <1>7, <1>8, <1>9 DEF User

LEMMA BatcherType ==
    ASSUME TypeOK, Room, Batcher
    PROVE  TypeOK' /\ Room'
<1> USE Bounds
<1>0. ASSUME NEW items \in Seq(Items), FlushItems(items), batcher = "recv"
      PROVE  /\ batches' \in Seq(Seq(Items)) /\ Len(batches') <= BatchCap + 1 /\ Room'
             /\ batcher' \in {"recv", "sending"}
             /\ storage' \in Seq(Items) /\ size' \in Nat /\ timer' \in BOOLEAN
  <2>1. batches \in Seq(Seq(Items)) /\ Len(batches) <= BatchCap
    BY <1>0 DEF TypeOK, Room
  <2>2. /\ Append(batches, items) \in Seq(Seq(Items))
        /\ Len(Append(batches, items)) = Len(batches) + 1 /\ Len(batches) \in Nat
    BY <2>1, AppendFacts
  <2>3. /\ batches' \in Seq(Seq(Items)) /\ Len(batches') <= BatchCap + 1
        /\ batcher' \in {"recv", "sending"}
        /\ batcher' # "sending" => batches' = batches
    BY <1>0, <2>1, <2>2 DEF FlushItems
  <2>4. Room'
    BY <2>1, <2>3 DEF Room
  <2>5. storage' = <<>> /\ size' = 0 /\ timer' = FALSE
    BY <1>0 DEF FlushItems
  <2>6. storage' \in Seq(Items) /\ size' \in Nat
    BY <2>5
  <2>7. timer' \in BOOLEAN
    BY <2>5, Zenon
  <2> QED BY <2>3, <2>4, <2>6, <2>7
<1>1. ASSUME BatchItem PROVE TypeOK' /\ Room'
  <2> DEFINE item == Head(channel)
             items == Append(storage, item)
             bytes == IF item.type = "message" THEN size + Bytes[item.id] ELSE size
  <2>1. /\ channel' \in Seq(Items) /\ Len(channel') <= MsgCap + 1 /\ item \in Items
    <3>1. channel \in Seq(Items) /\ channel # <<>> /\ channel' = Tail(channel)
          /\ Len(channel) <= MsgCap + 1
      BY <1>1 DEF BatchItem, TypeOK
    <3> QED BY <3>1, TailFacts
  <2>2. items \in Seq(Items)
    BY <2>1 DEF TypeOK
  <2>3. bytes \in Nat
    <3>1. item.type = "message" => Bytes[item.id] \in Nat
      BY <2>1, ItemFacts, BatchAssumption
    <3>2. size \in Nat
      BY DEF TypeOK
    <3> HIDE DEF item
    <3> QED BY <3>1, <3>2
  <2> HIDE DEF item, bytes
  <2>4. /\ batches' \in Seq(Seq(Items)) /\ Len(batches') <= BatchCap + 1 /\ Room'
        /\ batcher' \in {"recv", "sending"}
        /\ storage' \in Seq(Items) /\ size' \in Nat /\ timer' \in BOOLEAN
    <3>1. CASE ReadyToFlush(items, bytes)
      <4>1. FlushItems(items) /\ batcher = "recv"
        BY <1>1, <3>1 DEF BatchItem, item, bytes
      <4> HIDE DEF items
      <4> QED BY <4>1, <2>2, <1>0
    <3>2. CASE ~ReadyToFlush(items, bytes)
      <4>1. /\ storage' = items /\ size' = bytes /\ batcher' = batcher /\ batches' = batches
            /\ timer' = IF HasTimeout /\ Len(items) = 1 THEN TRUE ELSE timer
            /\ batcher = "recv"
        BY <1>1, <3>2 DEF BatchItem, item, bytes
      <4>2. timer' \in BOOLEAN
        BY <4>1 DEF TypeOK
      <4> QED BY <4>1, <4>2, <2>2, <2>3 DEF TypeOK, Room
    <3> QED BY <3>1, <3>2
  <2> QED BY <1>1, <2>1, <2>4 DEF BatchItem, TypeOK, userVars, senderVars, brokerVars
<1>2. ASSUME BatchTimeout PROVE TypeOK' /\ Room'
  <2>1. /\ batches' \in Seq(Seq(Items)) /\ Len(batches') <= BatchCap + 1 /\ Room'
        /\ batcher' \in {"recv", "sending"}
        /\ storage' \in Seq(Items) /\ size' \in Nat /\ timer' \in BOOLEAN
    BY <1>2, <1>0 DEF BatchTimeout, TypeOK
  <2> QED BY <1>2, <2>1 DEF BatchTimeout, TypeOK, userVars, senderVars, brokerVars
<1>3. ASSUME BatchSent PROVE TypeOK' /\ Room'
  BY <1>3 DEF BatchSent, TypeOK, Room, userVars, senderVars, brokerVars
<1>4. ASSUME BatcherExits PROVE TypeOK' /\ Room'
  <2>1. receipt' \in [Msgs -> Receipts]
    BY <1>4, SettleType DEF BatcherExits
  <2>2. storage' = <<>> /\ storage' \in Seq(Items) /\ Room'
    BY <1>4 DEF BatcherExits, Room
  <2> QED BY <1>4, <2>1, <2>2 DEF BatcherExits, TypeOK, userVars, senderVars, brokerVars
<1> QED BY <1>1, <1>2, <1>3, <1>4 DEF Batcher

\* The id a batch's Flush has.
LEMMA AnswerType ==
    ASSUME TypeOK, NEW b \in Seq(Items), AnswerFlush(b),
           HasFlush(b) => b[Len(b)].id <= flushes
    PROVE  answered' \subseteq 1..flushes
<1>1. CASE HasFlush(b)
  <2>1. b # <<>> /\ b[Len(b)].type = "flush"
    BY <1>1 DEF HasFlush
  <2>2. Len(b) \in DOMAIN b /\ b[Len(b)] \in Items
    BY <2>1
  <2>3. b[Len(b)].id \in 1..MaxFlushes
    BY <2>1, <2>2, ItemFacts
  <2>4. b[Len(b)].id \in 1..flushes
    BY <2>3, <1>1, Bounds DEF TypeOK
  <2> QED BY <1>1, <2>4 DEF AnswerFlush, TypeOK
<1>2. CASE ~HasFlush(b)
  BY <1>2 DEF AnswerFlush, TypeOK
<1> QED BY <1>1, <1>2

LEMMA SenderType ==
    ASSUME TypeOK, Room, BatchesFormed, FlushLast, Sender
    PROVE  TypeOK' /\ Room'
<1> USE Bounds
<1>0. <<>> \in Seq(Items) /\ batch \in Seq(Items)
  BY DEF TypeOK
<1>1. ASSUME TakeBatch PROVE TypeOK' /\ Room'
  <2>1. batches \in Seq(Seq(Items)) /\ batches # <<>> /\ batches' = Tail(batches)
    BY <1>1 DEF TakeBatch, TypeOK
  <2>2. /\ batches' \in Seq(Seq(Items)) /\ Head(batches) \in Seq(Items)
        /\ Len(batches') = Len(batches) - 1 /\ Len(batches) \in Nat
        /\ Head(batches) = batches[1] /\ 1 \in DOMAIN batches
    BY <2>1, TailFacts
  <2>3. Len(batches') <= BatchCap + 1 /\ Room'
    BY <2>2, <1>1 DEF TypeOK, Room, TakeBatch, batcherVars
  <2>4. answered' \subseteq 1..flushes
    <3>1. CASE Popped(Head(batches)) = <<>>
      <4>1. AnswerFlush(Head(batches))
        BY <1>1, <3>1 DEF TakeBatch
      <4>2. HasFlush(Head(batches)) => Head(batches)[Len(Head(batches))].id <= flushes
        BY <2>2 DEF FlushLast
      <4> QED BY <4>1, <4>2, <2>2, AnswerType
    <3>2. CASE Popped(Head(batches)) # <<>>
      BY <3>2, <1>1 DEF TakeBatch, TypeOK
    <3> QED BY <3>1, <3>2
  <2>5. sender' \in {"recv", "send", "wait", "done"} /\ batch' \in Seq(Items) /\ written' \in Nat \cup {None}
    <3>1. CASE Popped(Head(batches)) = <<>>
      BY <3>1, <1>1 DEF TakeBatch, TypeOK, senderVars
    <3>2. CASE Popped(Head(batches)) # <<>>
      BY <3>2, <1>1, <2>2 DEF TakeBatch, TypeOK
    <3> QED BY <3>1, <3>2
  <2> QED BY <1>1, <2>2, <2>3, <2>4, <2>5 DEF TakeBatch, TypeOK, userVars, batcherVars, brokerVars
<1>2. ASSUME SendEnqueued PROVE TypeOK' /\ Room'
  BY <1>2 DEF SendEnqueued, TypeOK, Room, userVars, batcherVars, brokerVars
<1>3. ASSUME SenderExits PROVE TypeOK' /\ Room'
  BY <1>3 DEF SenderExits, TypeOK, Room, userVars, batcherVars, brokerVars
<1>4. /\ MessagesOf(Popped(batch)) \in Seq(Msgs) /\ Len(Popped(batch)) \in Nat
  BY <1>0, BatchFacts DEF BatchesFormed
<1>5. AnswerFlush(batch) => answered' \subseteq 1..flushes
  BY <1>0, AnswerType DEF FlushLast
<1>6. ASSUME SendSucceeds PROVE TypeOK' /\ Room'
  <2> DEFINE ms == MessagesOf(Popped(batch))
  <2> HIDE DEF ms
  <2>1. /\ written \in Nat
        /\ receipt' = [m \in Msgs |->
              IF \E i \in DOMAIN ms : ms[i] = m
              THEN Placed(written, (CHOOSE i \in DOMAIN ms : ms[i] = m) - 1, Len(Popped(batch)))
              ELSE receipt[m]]
    BY <1>6 DEF SendSucceeds, ms, TypeOK
  <2>2. \A m \in Msgs : (\E i \in DOMAIN ms : ms[i] = m) =>
           (CHOOSE i \in DOMAIN ms : ms[i] = m) - 1 \in Nat
    <3>1. DOMAIN ms = 1..Len(ms) /\ Len(ms) \in Nat
      BY <1>4 DEF ms
    <3>2. \A i \in DOMAIN ms : i - 1 \in Nat
      BY <3>1
    <3> QED BY <3>2
  <2>3. receipt' \in [Msgs -> Receipts]
    <3>1. \A m \in Msgs : receipt'[m] \in Receipts
      BY <2>1, <2>2, <1>4, ReceiptValues DEF TypeOK
    <3> QED BY <2>1, <3>1
  <2>4. answered' \subseteq 1..flushes
    BY <1>6, <1>5 DEF SendSucceeds
  <2> QED BY <1>6, <2>3, <2>4, <1>0 DEF SendSucceeds, TypeOK, Room, userVars, batcherVars, brokerVars
<1>7. ASSUME SendFails PROVE TypeOK' /\ Room'
  <2>1. receipt' \in [Msgs -> Receipts]
    BY <1>7, SettleType DEF SendFails
  <2>2. answered' \subseteq 1..flushes
    BY <1>7, <1>5 DEF SendFails
  <2>3. limbo' \subseteq Seq(Msgs)
    BY <1>7, <1>4 DEF SendFails, TypeOK
  <2> QED BY <1>7, <2>1, <2>2, <2>3, <1>0 DEF SendFails, TypeOK, Room, userVars, batcherVars
<1> QED BY <1>1, <1>2, <1>3, <1>6, <1>7 DEF Sender

LEMMA BrokerType ==
    ASSUME TypeOK, Room, BatchesFormed, Broker
    PROVE  TypeOK' /\ Room'
<1>1. ASSUME BrokerWrites PROVE TypeOK' /\ Room'
  <2>1. MessagesOf(Popped(batch)) \in Seq(Msgs)
    BY BatchFacts DEF BatchesFormed, TypeOK
  <2>2. log' \in Seq(Seq(Msgs)) /\ written' \in Nat
    <3>1. log \in Seq(Seq(Msgs)) /\ log' = Append(log, MessagesOf(Popped(batch))) /\ written' = Len(log) + 1
      BY <1>1 DEF BrokerWrites, TypeOK
    <3> QED BY <3>1, <2>1, AppendFacts
  <2> QED BY <1>1, <2>2 DEF BrokerWrites, TypeOK, Room, userVars, batcherVars
<1>2. ASSUME BrokerWritesLate PROVE TypeOK' /\ Room'
  <2>1. PICK ms \in limbo : log' = Append(log, ms) /\ limbo' = limbo \ {ms}
    BY <1>2 DEF BrokerWritesLate
  <2>2. log' \in Seq(Seq(Msgs)) /\ limbo' \subseteq Seq(Msgs)
    BY <2>1, AppendFacts DEF TypeOK
  <2> QED BY <1>2, <2>2 DEF BrokerWritesLate, TypeOK, Room, userVars, batcherVars, senderVars
<1> QED BY <1>1, <1>2 DEF Broker

-----------------------------------------------------------------------------
(* The stream of items on its way to a batch. *)

LEMMA StreamFacts ==
    ASSUME TypeOK
    PROVE  /\ storage \in Seq(Items) /\ channel \in Seq(Items) /\ Stream \in Seq(Items)
           /\ Held(Stream) = Held(storage) \cup Held(channel)
           /\ batch \in Seq(Items) /\ batches \in Seq(Seq(Items))
           /\ Len(batches) \in Nat /\ DOMAIN batches = 1..Len(batches)
           /\ \A b \in DOMAIN batches : batches[b] \in Seq(Items)
           /\ sent \in Nat /\ flushes \in Nat
           /\ \A m \in Msgs : m \in Nat /\ m > 0
<1>1. /\ storage \in Seq(Items) /\ channel \in Seq(Items)
      /\ batch \in Seq(Items) /\ batches \in Seq(Seq(Items))
      /\ sent \in Nat /\ flushes \in Nat
  BY DEF TypeOK
<1>2. /\ Len(batches) \in Nat /\ DOMAIN batches = 1..Len(batches)
      /\ \A b \in DOMAIN batches : batches[b] \in Seq(Items)
  BY <1>1
<1>3. Stream \in Seq(Items) /\ Held(Stream) = Held(storage) \cup Held(channel)
  BY <1>1, ConcatFacts, HeldConcat DEF Stream
<1>4. \A m \in Msgs : m \in Nat /\ m > 0
  BY Bounds DEF Msgs
<1> QED BY <1>1, <1>2, <1>3, <1>4

LEMMA StorageMessages ==
    ASSUME TypeOK, BatchesFormed
    PROVE  \A i \in DOMAIN storage :
              storage[i].type = "message" /\ storage[i].id = storage[1].id + i - 1
<1> SUFFICES ASSUME NEW i \in DOMAIN storage
             PROVE  storage[i].type = "message" /\ storage[i].id = storage[1].id + i - 1
  OBVIOUS
<1>1. /\ storage \in Seq(Items) /\ Len(storage) \in Nat
      /\ i \in 1..Len(storage) /\ storage # <<>> /\ storage[Len(storage)] \in Items
  BY StreamFacts
<1>2. storage[i].type = "message"
  <2>1. CASE i = Len(storage)
    <3>1. storage[Len(storage)].type # "flush"
      BY <1>1 DEF BatchesFormed, HasFlush
    <3> QED BY <1>1, <2>1, <3>1, ItemFacts
  <2>2. CASE i # Len(storage)
    <3>1. i < Len(storage)
      BY <1>1, <2>2
    <3> QED BY <3>1 DEF BatchesFormed, Batched
  <2> QED BY <2>1, <2>2
<1> QED BY <1>2 DEF BatchesFormed, Batched

\* The items of a stream may be cut anywhere.
LEMMA CutFacts ==
    ASSUME NEW s \in Seq(Items), NEW t \in Seq(Items), Increasing(s \o t), Gapless(s \o t)
    PROVE  /\ Increasing(t) /\ Gapless(t)
           /\ \A m \in Held(s), n \in Held(t) : m < n
<1>1. /\ Len(s) \in Nat /\ Len(t) \in Nat
      /\ DOMAIN s = 1..Len(s) /\ DOMAIN t = 1..Len(t)
      /\ DOMAIN (s \o t) = 1..(Len(s) + Len(t))
      /\ \A i \in 1..Len(s) : (s \o t)[i] = s[i]
      /\ \A i \in 1..Len(t) : (s \o t)[Len(s) + i] = t[i]
  BY ConcatFacts
<1>2. \A i \in DOMAIN t : Len(s) + i \in DOMAIN (s \o t)
  BY <1>1
<1>3. Increasing(t)
  <2> SUFFICES ASSUME NEW i \in DOMAIN t, NEW j \in DOMAIN t, i < j,
                      t[i].type = "message", t[j].type = "message"
               PROVE  t[i].id < t[j].id
    BY DEF Increasing
  <2>1. Len(s) + i < Len(s) + j
    BY <1>1
  <2>2. (s \o t)[Len(s) + i] = t[i] /\ (s \o t)[Len(s) + j] = t[j]
    BY <1>1
  <2> QED BY <1>2, <2>1, <2>2 DEF Increasing
<1>4. ASSUME NEW m \in Held(s), NEW n \in Held(t) PROVE m < n
  <2>1. PICK i \in DOMAIN s : s[i].type = "message" /\ s[i].id = m
    BY HeldAt
  <2>2. PICK j \in DOMAIN t : t[j].type = "message" /\ t[j].id = n
    BY HeldAt
  <2>3. /\ i < Len(s) + j /\ i \in DOMAIN (s \o t) /\ Len(s) + j \in DOMAIN (s \o t)
        /\ (s \o t)[i] = s[i] /\ (s \o t)[Len(s) + j] = t[j]
    BY <1>1
  <2> QED BY <2>1, <2>2, <2>3 DEF Increasing
<1>5. Gapless(t)
  <2> SUFFICES ASSUME NEW m \in Held(t), NEW n \in Held(t), NEW x \in m..n
               PROVE  x \in Held(t)
    BY DEF Gapless
  <2>1. Held(s \o t) = Held(s) \cup Held(t)
    BY HeldConcat
  <2>2. x \in Held(s) \cup Held(t)
    BY <2>1 DEF Gapless
  <2>3. m \in Msgs /\ n \in Msgs
    BY DEF Held
  <2>4. x \notin Held(s)
    <3> SUFFICES ASSUME x \in Held(s) PROVE FALSE
      OBVIOUS
    <3>1. x < m
      BY <1>4
    <3> QED BY <3>1, <2>3 DEF Msgs
  <2> QED BY <2>2, <2>4
<1> QED BY <1>3, <1>4, <1>5

\* Messages one behind the other are consecutive.
LEMMA NextMessage ==
    ASSUME NEW s \in Seq(Items), NEW t \in Seq(Items), Increasing(s \o t), Gapless(s \o t),
           s # <<>>, t # <<>>, s[Len(s)].type = "message", t[1].type = "message"
    PROVE  t[1].id = s[Len(s)].id + 1
<1>1. /\ Len(s) \in Nat \ {0} /\ Len(t) \in Nat \ {0}
      /\ DOMAIN s = 1..Len(s) /\ DOMAIN t = 1..Len(t)
      /\ s \o t \in Seq(Items)
      /\ DOMAIN (s \o t) = 1..(Len(s) + Len(t))
      /\ \A i \in 1..Len(s) : (s \o t)[i] = s[i]
      /\ \A i \in 1..Len(t) : (s \o t)[Len(s) + i] = t[i]
  BY ConcatFacts
<1> DEFINE u == s \o t
           k == Len(s)
<1>2. /\ k \in DOMAIN u /\ k + 1 \in DOMAIN u /\ u[k] = s[k] /\ u[k + 1] = t[1]
      /\ u \in Seq(Items) /\ k \in Nat
  <2>1. 1 \in 1..Len(t) /\ Len(s) \in 1..Len(s)
    BY <1>1
  <2>2. u[Len(s) + 1] = t[1] /\ u[Len(s)] = s[Len(s)]
    BY <1>1, <2>1
  <2> QED BY <1>1, <2>2
<1> HIDE DEF u
<1>3. /\ u[k].id \in Msgs /\ u[k + 1].id \in Msgs
      /\ u[k].id \in Held(u) /\ u[k + 1].id \in Held(u)
  BY <1>2, HeldAt DEF Held
<1>4. \A i, j \in DOMAIN u :
         i < j /\ u[i].type = "message" /\ u[j].type = "message" => u[i].id < u[j].id
  BY DEF Increasing, u
<1>5. u[k].id < u[k + 1].id
  BY <1>2, <1>4
<1>6. u[k].id + 1 \in Held(u)
  <2>1. u[k].id + 1 \in u[k].id..u[k + 1].id
    BY <1>3, <1>5 DEF Msgs
  <2> QED BY <1>3, <2>1 DEF Gapless, u
<1>7. PICK j \in DOMAIN u : u[j].type = "message" /\ u[j].id = u[k].id + 1
  BY <1>6, <1>2, HeldAt
<1>8. j \in Nat /\ DOMAIN u = 1..(Len(s) + Len(t))
  BY <1>1 DEF u
<1>9. ~(j <= k)
  <2>1. ASSUME j = k PROVE FALSE
    BY <2>1, <1>3, <1>7 DEF Msgs
  <2>2. ASSUME j < k PROVE FALSE
    <3>1. u[j].id < u[k].id
      BY <2>2, <1>2, <1>4, <1>7
    <3> QED BY <3>1, <1>3, <1>7 DEF Msgs
  <2> QED BY <2>1, <2>2, <1>2, <1>8
<1>10. ~(j > k + 1)
  <2> SUFFICES ASSUME k + 1 < j PROVE FALSE
    BY <1>8, <1>2
  <2>1. u[k + 1].id < u[j].id
    BY <1>2, <1>4, <1>7
  <2> QED BY <2>1, <1>3, <1>5, <1>7 DEF Msgs
<1>11. j = k + 1
  BY <1>8, <1>9, <1>10, <1>2
<1> QED BY <1>2, <1>7, <1>11

LEMMA BatchedAppend ==
    ASSUME NEW s \in Seq(Items), NEW x \in Items,
           \A i \in DOMAIN s : s[i].type = "message" /\ s[i].id = s[1].id + i - 1,
           s # <<>> /\ x.type = "message" => x.id = s[Len(s)].id + 1
    PROVE  Batched(Append(s, x))
<1> DEFINE t == Append(s, x)
           n == Len(s)
<1>1. /\ n \in Nat /\ DOMAIN s = 1..n /\ Len(t) = n + 1 /\ DOMAIN t = 1..(n + 1)
      /\ \A i \in 1..n : t[i] = s[i]
      /\ t[n + 1] = x
  BY AppendFacts
<1> HIDE DEF t
<1> SUFFICES ASSUME NEW i \in DOMAIN t
             PROVE  /\ i < Len(t) => t[i].type = "message"
                    /\ t[i].type = "message" => t[i].id = t[1].id + i - 1
  BY DEF Batched, t
<1>2. CASE i \in 1..n
  <2>1. t[i] = s[i] /\ t[1] = s[1]
    BY <1>1, <1>2
  <2> QED BY <2>1, <1>2, <1>1
<1>3. CASE i \notin 1..n
  <2>1. i = n + 1
    BY <1>1, <1>3
  <2>2. CASE n = 0
    <3>1. t[1] = x /\ i = 1
      BY <2>2, <2>1, <1>1
    <3>2. x.type = "message" => x.id \in Nat
      BY ItemFacts, Bounds DEF Msgs
    <3> QED BY <3>1, <3>2, <1>1, <2>2
  <2>3. CASE n # 0
    <3>1. s # <<>> /\ n \in 1..n /\ 1 \in 1..n
      BY <2>3, <1>1
    <3>2. t[1] = s[1] /\ s[n].id = s[1].id + n - 1 /\ s[1].id \in Nat
      <4>1. s[1] \in Items /\ s[1].type = "message"
        BY <3>1, <1>1
      <4>2. s[1].id \in Nat
        BY <4>1, ItemFacts, Bounds DEF Msgs
      <4> QED BY <3>1, <1>1, <4>2
    <3>3. x.type = "message" => x.id = s[1].id + n - 1 + 1
      BY <3>1, <3>2
    <3>4. t[i] = x /\ ~(i < Len(t))
      BY <2>1, <1>1
    <3>5. s[1].id + n - 1 + 1 = s[1].id + i - 1
      <4>1. \A a, c \in Nat : a + c - 1 + 1 = a + (c + 1) - 1
        OBVIOUS
      <4>2. s[1].id \in Nat /\ n \in Nat
        BY <3>2, <1>1
      <4> HIDE DEF n
      <4> QED BY <2>1, <4>1, <4>2
    <3>6. x.type = "message" => x.id = t[1].id + i - 1
      BY <3>2, <3>3, <3>5
    <3> QED BY <3>4, <3>6
  <2> QED BY <2>2, <2>3
<1> QED BY <1>2, <1>3

LEMMA MoveHead ==
    ASSUME NEW s \in Seq(Items), NEW t \in Seq(Items), t # <<>>
    PROVE  s \o t = Append(s, Head(t)) \o Tail(t)
<1> DEFINE a == Append(s, Head(t))
<1>1. /\ Head(t) \in Items /\ Tail(t) \in Seq(Items) /\ Head(t) = t[1]
      /\ Len(t) \in Nat \ {0} /\ Len(Tail(t)) = Len(t) - 1
      /\ \A i \in 1..(Len(t) - 1) : Tail(t)[i] = t[i + 1]
  BY TailFacts
<1>2. /\ a \in Seq(Items) /\ Len(s) \in Nat /\ Len(a) = Len(s) + 1
      /\ \A i \in 1..Len(s) : a[i] = s[i]
      /\ a[Len(s) + 1] = t[1]
  BY <1>1, AppendFacts
<1>3. /\ s \o t \in Seq(Items) /\ Len(s \o t) = Len(s) + Len(t)
      /\ \A i \in 1..Len(s) : (s \o t)[i] = s[i]
      /\ \A i \in 1..Len(t) : (s \o t)[Len(s) + i] = t[i]
  BY ConcatFacts
<1> HIDE DEF a
<1>4. /\ a \o Tail(t) \in Seq(Items) /\ Len(a \o Tail(t)) = Len(s) + Len(t)
      /\ \A i \in 1..(Len(s) + 1) : (a \o Tail(t))[i] = a[i]
      /\ \A i \in 1..(Len(t) - 1) : (a \o Tail(t))[Len(s) + 1 + i] = t[i + 1]
  <2>1. /\ a \o Tail(t) \in Seq(Items) /\ Len(a \o Tail(t)) = Len(a) + Len(Tail(t))
        /\ \A i \in 1..Len(a) : (a \o Tail(t))[i] = a[i]
        /\ \A i \in 1..Len(Tail(t)) : (a \o Tail(t))[Len(a) + i] = Tail(t)[i]
    <3> DEFINE r == Tail(t)
    <3>1. a \in Seq(Items) /\ r \in Seq(Items)
      BY <1>1, <1>2
    <3> HIDE DEF r
    <3>2. /\ a \o r \in Seq(Items) /\ Len(a \o r) = Len(a) + Len(r)
          /\ \A i \in 1..Len(a) : (a \o r)[i] = a[i]
          /\ \A i \in 1..Len(r) : (a \o r)[Len(a) + i] = r[i]
      BY <3>1, ConcatFacts
    <3> QED BY <3>2 DEF r
  <2>2. Len(a) = Len(s) + 1 /\ Len(Tail(t)) = Len(t) - 1
    BY <1>1, <1>2
  <2>3. \A i \in 1..(Len(t) - 1) : (a \o Tail(t))[Len(s) + 1 + i] = Tail(t)[i]
    BY <2>1, <2>2
  <2>4. Len(a) + Len(Tail(t)) = Len(s) + Len(t)
    BY <2>2, <1>1, <1>2
  <2> QED BY <2>1, <2>2, <2>3, <2>4, <1>1
<1>5. ASSUME NEW i \in 1..(Len(s) + Len(t)) PROVE (s \o t)[i] = (a \o Tail(t))[i]
  <2>1. CASE i \in 1..Len(s)
    BY <2>1, <1>2, <1>3, <1>4
  <2>2. CASE i = Len(s) + 1
    <3>1. 1 \in 1..Len(t)
      BY <1>1
    <3>2. (s \o t)[Len(s) + 1] = t[1]
      BY <3>1, <1>3
    <3> QED BY <2>2, <3>2, <1>2, <1>4
  <2>3. CASE i \notin 1..(Len(s) + 1)
    <3> DEFINE j == i - Len(s) - 1
    <3>1. j \in 1..(Len(t) - 1) /\ i = Len(s) + 1 + j /\ j + 1 \in 1..Len(t) /\ i = Len(s) + (j + 1)
      BY <2>3, <1>1, <1>2
    <3> HIDE DEF j
    <3>2. (s \o t)[i] = t[j + 1]
      BY <3>1, <1>3
    <3>3. (a \o Tail(t))[i] = t[j + 1]
      BY <3>1, <1>4
    <3> QED BY <3>2, <3>3
  <2>4. i \in 1..Len(s) \/ i = Len(s) + 1 \/ i \notin 1..(Len(s) + 1)
    BY <1>2
  <2> QED BY <2>1, <2>2, <2>3, <2>4
<1>6. s \o t = a \o Tail(t)
  BY <1>3, <1>4, <1>5, SameSequence
<1> QED BY <1>6 DEF a

\* The batch process loop leaves the stream alone, or cuts a batch off it.
Stays == Stream' = Stream /\ batches' = batches

Cuts == \E items \in Seq(Items) :
           /\ items # <<>> /\ Batched(items)
           /\ batches' = Append(batches, items)
           /\ Stream = items \o Stream'

LEMMA FlushCuts ==
    ASSUME NEW items \in Seq(Items), Batched(items), FlushItems(items),
           Stream = items \o channel', channel' \in Seq(Items), batches \in Seq(Seq(Items))
    PROVE  /\ Batched(storage') /\ ~HasFlush(storage')
           /\ Stays \/ Cuts
<1>1. storage' = <<>>
  BY DEF FlushItems
<1>2. Batched(<<>>) /\ ~HasFlush(<<>>)
  BY DEF Batched, HasFlush
<1>3. Stream' = channel'
  <2>1. Stream' = <<>> \o channel'
    BY <1>1 DEF Stream
  <2> QED BY <2>1
<1>4. CASE items = <<>>
  <2>1. Stream = channel'
    BY <1>4
  <2>2. batches' = batches
    BY <1>4 DEF FlushItems
  <2> QED BY <1>1, <1>2, <1>3, <2>1, <2>2 DEF Stays
<1>5. CASE items # <<>>
  <2>1. batches' = Append(batches, items) /\ Stream = items \o Stream'
    BY <1>5, <1>3 DEF FlushItems
  <2>2. Cuts
    BY <1>5, <2>1 DEF Cuts
  <2> QED BY <1>1, <1>2, <2>2
<1> QED BY <1>4, <1>5

LEMMA BatchItemMoves ==
    ASSUME TypeOK, BatchesFormed, StreamInOrder, BatchItem
    PROVE  /\ Batched(storage') /\ ~HasFlush(storage')
           /\ Stays \/ Cuts
<1> DEFINE item == Head(channel)
           items == Append(storage, item)
           bytes == IF item.type = "message" THEN size + Bytes[item.id] ELSE size
<1>1. /\ storage \in Seq(Items) /\ channel \in Seq(Items) /\ channel # <<>>
      /\ channel' = Tail(channel) /\ batches \in Seq(Seq(Items))
  BY StreamFacts DEF BatchItem
<1>2. item \in Items /\ item = channel[1] /\ channel' \in Seq(Items)
  BY <1>1, TailFacts
<1>3. Stream = items \o channel'
  BY <1>1, MoveHead DEF Stream
<1>4. items \in Seq(Items) /\ Len(items) = Len(storage) + 1 /\ Len(storage) \in Nat
      /\ items[Len(storage) + 1] = item /\ items # <<>>
  BY <1>1, <1>2, AppendFacts
<1>5. Batched(items)
  <2>1. storage # <<>> /\ item.type = "message" => item.id = storage[Len(storage)].id + 1
    <3> SUFFICES ASSUME storage # <<>>, item.type = "message"
                 PROVE  item.id = storage[Len(storage)].id + 1
      OBVIOUS
    <3>1. Len(storage) \in DOMAIN storage
      BY <1>1
    <3>2. storage[Len(storage)].type = "message"
      BY <3>1, StorageMessages
    <3>3. Increasing(storage \o channel) /\ Gapless(storage \o channel)
      BY DEF StreamInOrder, Stream
    <3> QED BY <1>1, <1>2, <3>2, <3>3, NextMessage
  <2> HIDE DEF item
  <2> QED BY <2>1, <1>1, <1>2, StorageMessages, BatchedAppend
<1> HIDE DEF items, item, bytes
<1>6. CASE ReadyToFlush(items, bytes)
  <2>1. FlushItems(items)
    BY <1>6 DEF BatchItem, items, item, bytes
  <2> QED BY <2>1, <1>1, <1>2, <1>3, <1>4, <1>5, FlushCuts
<1>7. CASE ~ReadyToFlush(items, bytes)
  <2>1. storage' = items /\ batches' = batches
    BY <1>7 DEF BatchItem, items, item, bytes
  <2>2. Stream' = items \o channel'
    BY <2>1 DEF Stream
  <2>3. ~HasFlush(items)
    BY <1>7, <1>4 DEF ReadyToFlush, HasFlush
  <2> QED BY <2>1, <2>2, <2>3, <1>3, <1>5 DEF Stays
<1> QED BY <1>6, <1>7

LEMMA BatchTimeoutMoves ==
    ASSUME TypeOK, BatchesFormed, BatchTimeout
    PROVE  /\ Batched(storage') /\ ~HasFlush(storage')
           /\ Stays \/ Cuts
<1>1. /\ storage \in Seq(Items) /\ channel = <<>> /\ channel' = <<>>
      /\ batches \in Seq(Seq(Items)) /\ FlushItems(storage) /\ Batched(storage)
  BY StreamFacts DEF BatchTimeout, BatchesFormed
<1>2. Stream = storage \o channel' /\ channel' \in Seq(Items)
  BY <1>1 DEF Stream
<1> QED BY <1>1, <1>2, FlushCuts

-----------------------------------------------------------------------------
(* The batches and the stream stay in order. *)

LEMMA AppendToStream ==
    ASSUME TypeOK, NEW x \in Items, storage' = storage, channel' = Append(channel, x)
    PROVE  Stream' = Append(Stream, x)
<1>1. storage \in Seq(Items) /\ channel \in Seq(Items)
  BY StreamFacts
<1>2. \A s \in Seq(Items), t \in Seq(Items) : s \o Append(t, x) = Append(s \o t, x)
  OBVIOUS
<1> QED BY <1>1, <1>2 DEF Stream

LEMMA IncreasingAppend ==
    ASSUME NEW s \in Seq(Items), NEW x \in Items, Increasing(s),
           x.type = "message" => \A m \in Held(s) : m < x.id
    PROVE  Increasing(Append(s, x))
<1> DEFINE t == Append(s, x)
<1>1. /\ Len(s) \in Nat /\ DOMAIN s = 1..Len(s) /\ DOMAIN t = 1..(Len(s) + 1)
      /\ \A i \in 1..Len(s) : t[i] = s[i]
      /\ t[Len(s) + 1] = x
  BY AppendFacts
<1> HIDE DEF t
<1> SUFFICES ASSUME NEW i \in DOMAIN t, NEW j \in DOMAIN t, i < j,
                    t[i].type = "message", t[j].type = "message"
             PROVE  t[i].id < t[j].id
  BY DEF Increasing, t
<1>2. i \in 1..Len(s)
  BY <1>1
<1>3. CASE j \in 1..Len(s)
  BY <1>1, <1>2, <1>3 DEF Increasing
<1>4. CASE j \notin 1..Len(s)
  <2>1. t[j] = x /\ s[i].type = "message" /\ t[i] = s[i]
    BY <1>1, <1>2, <1>4
  <2>2. s[i].id \in Held(s)
    BY <2>1, <1>1, <1>2, HeldAt
  <2> QED BY <2>1, <2>2
<1> QED BY <1>3, <1>4

\* A pending message is one the user has sent.
LEMMA HeldIsSent ==
    ASSUME TypeOK, PendingUnsettled
    PROVE  /\ \A m \in Held(Stream) : m \in Msgs /\ m <= sent /\ Pending(m)
           /\ \A m \in Held(batch) : m \in Msgs /\ m <= sent /\ Pending(m)
           /\ \A b \in DOMAIN batches : \A m \in Held(batches[b]) :
                 m \in Msgs /\ m <= sent /\ Pending(m)
<1>1. \A q : Held(q) \subseteq Msgs
  BY DEF Held
<1>2. \A m \in Msgs : Pending(m) => m <= sent
  BY DEF PendingUnsettled
<1>3. /\ \A m \in Held(Stream) : Pending(m)
      /\ \A m \in Held(batch) : Pending(m)
      /\ \A b \in DOMAIN batches : \A m \in Held(batches[b]) : Pending(m)
  BY DEF Pending
<1> QED BY <1>1, <1>2, <1>3

\* Nothing but the end of the stream moves.
LEMMA SameBatches ==
    ASSUME BatchesFormed, UNCHANGED <<storage, batches, batch, sender, written>>
    PROVE  BatchesFormed'
BY DEF BatchesFormed

LEMMA SendOrdered ==
    ASSUME TypeOK, Ordered, PendingUnsettled, Ending, Send
    PROVE  Ordered' /\ Stream' = Append(Stream, Single(sent + 1))
           /\ Held(Stream') = Held(Stream) \cup {sent + 1}
<1> DEFINE x == Single(sent + 1)
<1>1. /\ sent + 1 \in Msgs /\ x \in Items /\ x.type = "message" /\ x.id = sent + 1
  <2>1. sent + 1 \in Msgs
    BY Bounds DEF Send, TypeOK, Msgs
  <2>2. \A m \in Msgs : Single(m) \in Items /\ Single(m).type = "message" /\ Single(m).id = m
    BY ItemFacts
  <2> QED BY <2>1, <2>2
<1>2. Stream' = Append(Stream, x)
  BY <1>1, AppendToStream DEF Send, batcherVars
<1> HIDE DEF x
<1>3. Stream \in Seq(Items) /\ sent \in Nat
  BY StreamFacts
<1>4. Held(Stream') = Held(Stream) \cup {sent + 1}
  BY <1>1, <1>2, <1>3, HeldAppend
<1>5. BatchesFormed'
  BY SameBatches DEF Ordered, Send, batcherVars, senderVars
<1>6. \A m \in Held(Stream) : m \in Msgs /\ m <= sent
  BY HeldIsSent
<1>7. Increasing(Stream')
  <2>1. \A m \in Held(Stream) : m < x.id
    BY <1>1, <1>3, <1>6 DEF Msgs
  <2> QED BY <2>1, <1>1, <1>2, <1>3, IncreasingAppend DEF Ordered, StreamInOrder
<1>8. Gapless(Stream')
  <2> SUFFICES ASSUME NEW m \in Held(Stream'), NEW n \in Held(Stream'), NEW y \in m..n
               PROVE  y \in Held(Stream')
    BY DEF Gapless
  <2>1. CASE y = sent + 1
    BY <2>1, <1>4
  <2>2. CASE y # sent + 1
    <3>1. m \in Nat /\ n \in Nat /\ n <= sent + 1
      BY <1>3, <1>4, <1>6 DEF Msgs
    <3>2. y \in Int /\ y <= sent /\ m <= y
      BY <2>2, <3>1, <1>3
    <3>3. m \in Held(Stream)
      BY <3>1, <3>2, <1>4, <1>3
    <3>4. sent \in Held(Stream)
      <4>1. open
        BY DEF Send, Ending
      <4> QED BY <4>1, <3>3 DEF Ordered, StreamInOrder
    <3>5. y \in m..sent
      BY <3>1, <3>2, <1>3
    <3> QED BY <3>3, <3>4, <3>5, <1>4 DEF Ordered, StreamInOrder, Gapless
  <2> QED BY <2>1, <2>2
<1>9. StreamInOrder'
  <2>1. sent' \in Held(Stream')
    BY <1>4 DEF Send
  <2> QED BY <1>7, <1>8, <2>1 DEF StreamInOrder
<1>10. BatchesInOrder'
  <2>1. batches' = batches /\ batch' = batch
    BY DEF Send, senderVars
  <2>2. \A m \in Held(batch) : m < sent + 1
    BY HeldIsSent, <1>3 DEF Msgs
  <2>3. \A b \in DOMAIN batches : \A m \in Held(batches[b]) : m < sent + 1
    BY HeldIsSent, <1>3 DEF Msgs
  <2> QED BY <2>1, <2>2, <2>3, <1>4 DEF Ordered, BatchesInOrder
<1> QED BY <1>2, <1>4, <1>5, <1>9, <1>10 DEF Ordered, x

LEMMA SendBatchOrdered ==
    ASSUME TypeOK, Ordered, SendBatch
    PROVE  Ordered' /\ Stream' = Append(Stream, Flush(flushes + 1))
           /\ Held(Stream') = Held(Stream)
<1> DEFINE x == Flush(flushes + 1)
<1>1. x \in Items /\ x.type # "message"
  <2>1. flushes + 1 \in 1..MaxFlushes
    BY Bounds DEF SendBatch, TypeOK
  <2>2. \A k \in 1..MaxFlushes : Flush(k) \in Items /\ Flush(k).type = "flush"
    BY ItemFacts
  <2> QED BY <2>1, <2>2
<1>2. Stream' = Append(Stream, x)
  BY <1>1, AppendToStream DEF SendBatch, batcherVars
<1> HIDE DEF x
<1>3. Stream \in Seq(Items)
  BY StreamFacts
<1>4. Held(Stream') = Held(Stream)
  BY <1>1, <1>2, <1>3, HeldAppend
<1>5. BatchesFormed'
  BY SameBatches DEF Ordered, SendBatch, batcherVars, senderVars
<1>6. Increasing(Stream')
  BY <1>1, <1>2, <1>3, IncreasingAppend DEF Ordered, StreamInOrder
<1>7. StreamInOrder'
  BY <1>4, <1>6 DEF Ordered, StreamInOrder, Gapless, SendBatch
<1>8. BatchesInOrder'
  <2>1. batches' = batches /\ batch' = batch
    BY DEF SendBatch, senderVars
  <2> QED BY <2>1, <1>4 DEF Ordered, BatchesInOrder
<1> QED BY <1>2, <1>4, <1>5, <1>7, <1>8 DEF Ordered, x

\* The other steps of the user do not touch the items on their way.
UserElsewhere ==
    \/ SendReturns \/ SendBatchReturns \/ Close \/ CloseReturns \/ SendClosed
    \/ Cancel \/ DropProducer

LEMMA UserElsewhereFrame ==
    ASSUME UserElsewhere
    PROVE  /\ UNCHANGED <<channel, storage, batches, batch, sender, written, batcher,
                          log, limbo, answered, flushes, Stream>>
           /\ open' => open
           /\ SendClosed \/ (sent' = sent /\ receipt' = receipt)
<1>1. UNCHANGED <<channel, batches, answered, flushes, storage, batch, sender, written, batcher, log, limbo>>
  BY DEF UserElsewhere, SendReturns, SendBatchReturns, Close, CloseReturns, SendClosed, Cancel,
         DropProducer, batcherVars, senderVars, brokerVars
<1>2. open' => open
  BY DEF UserElsewhere, SendReturns, SendBatchReturns, Close, CloseReturns, SendClosed, Cancel,
         DropProducer
<1>3. SendClosed \/ (sent' = sent /\ receipt' = receipt)
  BY DEF UserElsewhere, SendReturns, SendBatchReturns, Close, CloseReturns, Cancel,
         DropProducer
<1>4. Stream' = Stream
  BY <1>1 DEF Stream
<1> QED BY <1>1, <1>2, <1>3, <1>4

LEMMA ElsewhereOrdered ==
    ASSUME TypeOK, Ordered, Ending, UserElsewhere
    PROVE  Ordered'
<1>1. BatchesFormed'
  BY UserElsewhereFrame, SameBatches DEF Ordered
<1>2. StreamInOrder'
  <2>1. open' => sent' = sent /\ open
    BY UserElsewhereFrame DEF SendClosed, Ending
  <2> QED BY <2>1, UserElsewhereFrame DEF Ordered, StreamInOrder
<1>3. BatchesInOrder'
  BY UserElsewhereFrame DEF Ordered, BatchesInOrder
<1> QED BY <1>1, <1>2, <1>3 DEF Ordered

\* batch_process_loop: what it does to the items, and what it leaves alone.
LEMMA BatcherFrame ==
    ASSUME Batcher
    PROVE  /\ UNCHANGED <<user, sent, flushes, open, flushed, sender, batch, written,
                          answered, log, limbo>>
           /\ BatcherExits \/ receipt' = receipt
BY DEF Batcher, BatchItem, BatchTimeout, BatchSent, BatcherExits, userVars, senderVars, brokerVars

LEMMA ExitMoves ==
    ASSUME TypeOK, BatcherExits
    PROVE  /\ storage' = <<>> /\ Stream' = <<>> /\ Stream = storage /\ batches' = batches
<1>1. storage' = <<>> /\ channel = <<>> /\ channel' = <<>> /\ batches' = batches
  BY DEF BatcherExits
<1>2. storage \in Seq(Items)
  BY StreamFacts
<1>3. \A s \in Seq(Items) : s \o <<>> = s
  OBVIOUS
<1>4. <<>> \o <<>> = <<>>
  OBVIOUS
<1> QED BY <1>1, <1>2, <1>3, <1>4 DEF Stream

LEMMA BatcherMoves ==
    ASSUME TypeOK, Ordered, Batcher
    PROVE  /\ Batched(storage') /\ ~HasFlush(storage')
           /\ Stays \/ Cuts \/ (BatcherExits /\ Stream' = <<>> /\ Stream = storage /\ batches' = batches)
<1>1. CASE BatchItem
  BY <1>1, BatchItemMoves DEF Ordered
<1>2. CASE BatchTimeout
  BY <1>2, BatchTimeoutMoves DEF Ordered
<1>3. CASE BatchSent
  <2>1. storage' = storage /\ channel' = channel /\ batches' = batches
    BY <1>3 DEF BatchSent
  <2> QED BY <2>1 DEF Stays, Stream, Ordered, BatchesFormed
<1>4. CASE BatcherExits
  <2>1. Batched(<<>>) /\ ~HasFlush(<<>>)
    BY DEF Batched, HasFlush
  <2> QED BY <1>4, <2>1, ExitMoves
<1> QED BY <1>1, <1>2, <1>3, <1>4 DEF Batcher

\* What a cut does to the messages on their way.
LEMMA CutMoves ==
    ASSUME TypeOK, TypeOK', Ordered, NEW items \in Seq(Items),
           batches' = Append(batches, items), Stream = items \o Stream'
    PROVE  /\ Held(Stream) = Held(items) \cup Held(Stream')
           /\ \A m \in Held(items), n \in Held(Stream') : m < n
           /\ Increasing(Stream') /\ Gapless(Stream')
           /\ DOMAIN batches' = 1..(Len(batches) + 1) /\ Len(batches') = Len(batches) + 1
           /\ \A b \in DOMAIN batches : batches'[b] = batches[b]
           /\ batches'[Len(batches) + 1] = items
<1>1. Stream' \in Seq(Items) /\ batches \in Seq(Seq(Items))
  <2>1. storage' \in Seq(Items) /\ channel' \in Seq(Items)
    BY DEF TypeOK
  <2> QED BY <2>1, StreamFacts, ConcatFacts DEF Stream
<1>2. Increasing(items \o Stream') /\ Gapless(items \o Stream')
  BY DEF Ordered, StreamInOrder
<1>3. Held(Stream) = Held(items) \cup Held(Stream')
  BY <1>1, HeldConcat
<1> QED BY <1>1, <1>2, <1>3, CutFacts, AppendFacts

LEMMA BatcherOrdered ==
    ASSUME TypeOK, TypeOK', Ordered, PendingUnsettled, Batcher
    PROVE  Ordered'
<1>0. UNCHANGED <<user, sent, flushes, open, flushed, sender, batch, written>>
  BY BatcherFrame
<1>1. /\ Batched(storage') /\ ~HasFlush(storage')
      /\ Stays \/ Cuts \/ (BatcherExits /\ Stream' = <<>> /\ Stream = storage /\ batches' = batches)
  BY BatcherMoves
<1>2. ASSUME batches' = batches, \A m \in Held(Stream') : m \in Held(Stream), StreamInOrder'
      PROVE  Ordered'
  <2>1. BatchesFormed'
    BY <1>0, <1>1, <1>2 DEF Ordered, BatchesFormed
  <2>2. BatchesInOrder'
    BY <1>0, <1>2 DEF Ordered, BatchesInOrder
  <2> QED BY <2>1, <2>2, <1>2 DEF Ordered
<1>3. CASE Stays
  BY <1>0, <1>2, <1>3 DEF Stays, Ordered, StreamInOrder
<1>4. CASE Stream' = <<>> /\ Stream = storage /\ batches' = batches
  <2>1. Held(Stream') = {} /\ Increasing(<<>>)
    BY <1>4, HeldEmpty DEF Increasing
  <2>2. StreamInOrder'
    BY <2>1, <1>4 DEF StreamInOrder, Gapless
  <2> QED BY <2>1, <2>2, <1>2, <1>4
<1>5. CASE Cuts
  <2>1. PICK items \in Seq(Items) :
           /\ items # <<>> /\ Batched(items)
           /\ batches' = Append(batches, items)
           /\ Stream = items \o Stream'
    BY <1>5 DEF Cuts
  <2>2. /\ Held(Stream) = Held(items) \cup Held(Stream')
        /\ \A m \in Held(items), n \in Held(Stream') : m < n
        /\ Increasing(Stream') /\ Gapless(Stream')
        /\ DOMAIN batches' = 1..(Len(batches) + 1) /\ Len(batches') = Len(batches) + 1
        /\ \A b \in DOMAIN batches : batches'[b] = batches[b]
        /\ batches'[Len(batches) + 1] = items
    BY <2>1, CutMoves
  <2>3. Len(batches) \in Nat /\ DOMAIN batches = 1..Len(batches)
    BY StreamFacts
  <2>4. \A b \in DOMAIN batches' : b \in DOMAIN batches \/ b = Len(batches) + 1
    BY <2>2, <2>3
  <2>5. BatchesFormed'
    BY <1>0, <1>1, <2>1, <2>2, <2>4 DEF Ordered, BatchesFormed
  <2>6. StreamInOrder'
    <3>1. ASSUME open, Held(Stream') # {} PROVE sent \in Held(Stream')
      <4>1. sent \in Held(Stream)
        BY <3>1, <2>2 DEF Ordered, StreamInOrder
      <4>2. PICK n \in Held(Stream') : TRUE
        BY <3>1
      <4>3. n <= sent /\ n \in Msgs /\ sent \in Nat
        BY <4>2, <2>2, HeldIsSent, StreamFacts
      <4>4. sent \notin Held(items)
        BY <4>2, <4>3, <2>2 DEF Msgs
      <4> QED BY <4>1, <4>4, <2>2
    <3> QED BY <3>1, <2>2, <1>0 DEF StreamInOrder
  <2>7. BatchesInOrder'
    <3>1. ASSUME NEW b \in DOMAIN batches', NEW c \in DOMAIN batches', b < c,
                 NEW m \in Held(batches'[b]), NEW n \in Held(batches'[c])
          PROVE  m < n
      <4>1. b \in DOMAIN batches
        BY <3>1, <2>2, <2>3
      <4>2. m \in Held(batches[b])
        BY <4>1, <3>1, <2>2
      <4>3. CASE c \in DOMAIN batches
        BY <4>1, <4>2, <4>3, <3>1, <2>2 DEF Ordered, BatchesInOrder
      <4>4. CASE c = Len(batches) + 1
        <5>1. n \in Held(Stream)
          BY <4>4, <3>1, <2>2
        <5> QED BY <4>1, <4>2, <5>1 DEF Ordered, BatchesInOrder
      <4> QED BY <4>3, <4>4, <2>4
    <3>2. ASSUME NEW b \in DOMAIN batches', NEW m \in Held(batches'[b])
          PROVE  /\ \A n \in Held(Stream') : m < n
                 /\ \A n \in Held(batch') : n < m
      <4>1. CASE b \in DOMAIN batches
        <5>1. m \in Held(batches[b])
          BY <4>1, <3>2, <2>2
        <5> QED BY <4>1, <5>1, <2>2, <1>0 DEF Ordered, BatchesInOrder
      <4>2. CASE b = Len(batches) + 1
        <5>1. m \in Held(items)
          BY <4>2, <3>2, <2>2
        <5>2. m \in Held(Stream)
          BY <5>1, <2>2
        <5>3. \A n \in Held(batch) : n < m
          BY <5>2 DEF Ordered, BatchesInOrder
        <5> QED BY <5>1, <5>3, <2>2, <1>0
      <4> QED BY <4>1, <4>2, <2>4
    <3>3. \A m \in Held(batch'), n \in Held(Stream') : m < n
      BY <1>0, <2>2 DEF Ordered, BatchesInOrder
    <3> QED BY <3>1, <3>2, <3>3 DEF BatchesInOrder
  <2> QED BY <2>5, <2>6, <2>7 DEF Ordered
<1> QED BY <1>1, <1>3, <1>4, <1>5

\* message_send_loop, and the broker, leave the user and the stream alone.
LEMMA SenderFrame ==
    ASSUME Sender \/ Broker
    PROVE  /\ UNCHANGED <<user, sent, flushes, open, flushed, batcher, storage, channel>>
           /\ Stream' = Stream
<1>1. UNCHANGED <<user, sent, flushes, open, flushed, batcher, storage, channel>>
  BY DEF Sender, TakeBatch, SendEnqueued, SendSucceeds, SendFails, SenderExits,
         Broker, BrokerWrites, BrokerWritesLate, userVars, batcherVars
<1> QED BY <1>1 DEF Stream

\* A batch is taken off the channel: the next one to send, or a lone Flush.
LEMMA TakeMoves ==
    ASSUME TypeOK, Ordered, TakeBatch
    PROVE  /\ batch = <<>> /\ batches # <<>> /\ batches[1] \in Seq(Items) /\ Batched(batches[1])
           /\ DOMAIN batches' = 1..(Len(batches) - 1) /\ 1 \in DOMAIN batches
           /\ Len(batches') = Len(batches) - 1
           /\ \A b \in DOMAIN batches' : b + 1 \in DOMAIN batches /\ batches'[b] = batches[b + 1]
           /\ \A b \in DOMAIN batches : b # 1 => b - 1 \in DOMAIN batches'
           /\ \/ /\ Held(batches[1]) = {}
                 /\ AnswerFlush(batches[1])
                 /\ UNCHANGED <<sender, batch, written>>
              \/ /\ Popped(batches[1]) # <<>>
                 /\ sender' = "send" /\ batch' = batches[1] /\ written' = None
                 /\ answered' = answered
<1>1. /\ batches \in Seq(Seq(Items)) /\ batches # <<>> /\ batches' = Tail(batches)
      /\ sender = "recv" /\ batch = <<>>
  BY StreamFacts DEF TakeBatch, Ordered, BatchesFormed
<1>2. /\ Head(batches) = batches[1] /\ batches[1] \in Seq(Items) /\ 1 \in DOMAIN batches
      /\ Len(batches) \in Nat /\ DOMAIN batches = 1..Len(batches)
      /\ DOMAIN batches' = 1..(Len(batches) - 1) /\ Len(batches') = Len(batches) - 1
      /\ \A b \in DOMAIN batches' : b + 1 \in DOMAIN batches /\ batches'[b] = batches[b + 1]
  BY <1>1, TailFacts
<1>3. \A b \in DOMAIN batches : b # 1 => b - 1 \in DOMAIN batches'
  BY <1>2
<1>4. Batched(batches[1])
  BY <1>2 DEF Ordered, BatchesFormed
<1>5. CASE Popped(batches[1]) = <<>>
  <2>1. Held(batches[1]) = {}
    BY <1>5, <1>2, <1>4, BatchFacts
  <2>2. AnswerFlush(batches[1]) /\ UNCHANGED <<sender, batch, written>>
    BY <1>5, <1>2 DEF TakeBatch, senderVars
  <2> QED BY <1>1, <1>2, <1>3, <1>4, <2>1, <2>2
<1>6. CASE Popped(batches[1]) # <<>>
  <2>1. /\ sender' = "send" /\ batch' = batches[1] /\ written' = None
        /\ answered' = answered
    BY <1>6, <1>2 DEF TakeBatch
  <2> QED BY <1>1, <1>2, <1>3, <1>4, <1>6, <2>1
<1> QED BY <1>5, <1>6

LEMMA TakeOrdered ==
    ASSUME TypeOK, Ordered, TakeBatch
    PROVE  Ordered'
<1>0. Stream' = Stream /\ open' = open /\ sent' = sent /\ storage' = storage
  BY SenderFrame DEF Sender
<1>1. /\ batch = <<>> /\ batches # <<>> /\ batches[1] \in Seq(Items) /\ Batched(batches[1])
      /\ DOMAIN batches' = 1..(Len(batches) - 1) /\ 1 \in DOMAIN batches
      /\ \A b \in DOMAIN batches' : b + 1 \in DOMAIN batches /\ batches'[b] = batches[b + 1]
      /\ \/ /\ Held(batches[1]) = {}
            /\ UNCHANGED <<sender, batch, written>>
         \/ /\ Popped(batches[1]) # <<>>
            /\ sender' = "send" /\ batch' = batches[1] /\ written' = None
  BY TakeMoves
<1>2. StreamInOrder'
  BY <1>0 DEF Ordered, StreamInOrder
<1>3. BatchesFormed'
  <2>1. \A b \in DOMAIN batches' : batches'[b] # <<>> /\ Batched(batches'[b])
    BY <1>1 DEF Ordered, BatchesFormed
  <2> QED BY <2>1, <1>0, <1>1 DEF Ordered, BatchesFormed
<1>4. Held(batch') = {} \/ batch' = batches[1]
  BY <1>1, HeldEmpty
<1>5. \A b \in DOMAIN batches' : b \in Nat /\ b > 0 /\ b + 1 > 1
  BY <1>1, StreamFacts
<1>6. BatchesInOrder'
  <2>1. ASSUME NEW b \in DOMAIN batches', NEW c \in DOMAIN batches', b < c,
               NEW m \in Held(batches'[b]), NEW n \in Held(batches'[c])
        PROVE  m < n
    <3>1. b + 1 < c + 1
      BY <2>1, <1>5
    <3> QED BY <3>1, <2>1, <1>1 DEF Ordered, BatchesInOrder
  <2>2. ASSUME NEW b \in DOMAIN batches', NEW m \in Held(batches'[b])
        PROVE  /\ \A n \in Held(Stream') : m < n
               /\ \A n \in Held(batch') : n < m
    <3>1. b + 1 \in DOMAIN batches /\ m \in Held(batches[b + 1]) /\ 1 < b + 1
      BY <2>2, <1>1, <1>5
    <3>2. \A n \in Held(Stream) : m < n
      BY <3>1 DEF Ordered, BatchesInOrder
    <3>3. \A n \in Held(batches[1]) : n < m
      BY <3>1, <1>1 DEF Ordered, BatchesInOrder
    <3> QED BY <3>2, <3>3, <1>0, <1>4
  <2>3. \A m \in Held(batch'), n \in Held(Stream') : m < n
    BY <1>0, <1>1, <1>4 DEF Ordered, BatchesInOrder
  <2> QED BY <2>1, <2>2, <2>3 DEF BatchesInOrder
<1> QED BY <1>2, <1>3, <1>6 DEF Ordered

\* The batch at work ends, or goes on.
LEMMA SenderOrdered ==
    ASSUME TypeOK, Ordered, Sender \/ Broker
    PROVE  Ordered'
<1>0. Stream' = Stream /\ open' = open /\ sent' = sent /\ storage' = storage
  BY SenderFrame
<1>1. CASE TakeBatch
  BY <1>1, TakeOrdered
<1>2. ASSUME batches' = batches, batch' = batch \/ batch' = <<>>, BatchesFormed'
      PROVE  Ordered'
  <2>1. Held(batch') \subseteq Held(batch)
    BY <1>2, HeldEmpty
  <2>2. StreamInOrder'
    BY <1>0 DEF Ordered, StreamInOrder
  <2>3. BatchesInOrder'
    BY <2>1, <1>0, <1>2 DEF Ordered, BatchesInOrder
  <2> QED BY <2>2, <2>3, <1>2 DEF Ordered
<1>3. Batched(<<>>)
  BY DEF Batched
<1>4. CASE SendEnqueued
  <2>1. batches' = batches /\ batch' = batch /\ BatchesFormed'
    BY <1>4, <1>0 DEF SendEnqueued, Ordered, BatchesFormed
  <2> QED BY <2>1, <1>2
<1>5. CASE SendSucceeds
  <2>1. batches' = batches /\ batch' = <<>> /\ BatchesFormed'
    BY <1>5, <1>0, <1>3 DEF SendSucceeds, Ordered, BatchesFormed
  <2> QED BY <2>1, <1>2
<1>6. CASE SendFails
  <2>1. batches' = batches /\ batch' = <<>> /\ BatchesFormed'
    BY <1>6, <1>0, <1>3 DEF SendFails, Ordered, BatchesFormed
  <2> QED BY <2>1, <1>2
<1>7. CASE SenderExits
  <2>1. batches' = batches /\ batch' = batch /\ BatchesFormed'
    BY <1>7, <1>0 DEF SenderExits, Ordered, BatchesFormed
  <2> QED BY <2>1, <1>2
<1>8. CASE BrokerWrites
  <2>1. batches' = batches /\ batch' = batch /\ BatchesFormed'
    BY <1>8, <1>0 DEF BrokerWrites, Ordered, BatchesFormed
  <2> QED BY <2>1, <1>2
<1>9. CASE BrokerWritesLate
  <2>1. batches' = batches /\ batch' = batch /\ BatchesFormed'
    BY <1>9, <1>0 DEF BrokerWritesLate, Ordered, BatchesFormed, senderVars
  <2> QED BY <2>1, <1>2
<1> QED BY <1>1, <1>4, <1>5, <1>6, <1>7, <1>8, <1>9 DEF Sender, Broker

-----------------------------------------------------------------------------
(* What settles, and what is pending. *)

\* The messages of the batch at work, and of the storage at the end, are
\* those that get a result.
LEMMA SettleFacts ==
    ASSUME TypeOK, NEW b \in Seq(Items), Batched(b), NEW v, Settle(MessagesOf(Popped(b)), v)
    PROVE  /\ \A m \in Msgs : receipt'[m] = IF m \in Held(b) THEN v ELSE receipt[m]
           /\ receipt' = [m \in Msgs |-> IF m \in Held(b) THEN v ELSE receipt[m]]
<1> DEFINE ms == MessagesOf(Popped(b))
<1>1. /\ Len(Popped(b)) \in Nat
      /\ \A i \in 1..Len(Popped(b)) : b[i].id \in Held(b)
      /\ ms = [i \in 1..Len(Popped(b)) |-> b[i].id]
      /\ \A m \in Held(b) : \E i \in 1..Len(Popped(b)) : b[i].id = m
  BY BatchFacts
<1> HIDE DEF ms
<1>2. \A m : (\E i \in DOMAIN ms : ms[i] = m) <=> m \in Held(b)
  BY <1>1
<1>3. receipt' = [m \in Msgs |-> IF \E i \in DOMAIN ms : ms[i] = m THEN v ELSE receipt[m]]
  BY DEF Settle, ms
<1>4. receipt' = [m \in Msgs |-> IF m \in Held(b) THEN v ELSE receipt[m]]
  BY <1>2, <1>3
<1> QED BY <1>4

LEMMA StorageSettles ==
    ASSUME TypeOK, Ordered, BatcherExits
    PROVE  \A m \in Msgs : receipt'[m] = IF m \in Held(Stream) THEN Failed("closed") ELSE receipt[m]
<1>1. storage \in Seq(Items) /\ Batched(storage) /\ Popped(storage) = storage /\ Stream = storage
  BY StreamFacts, ExitMoves DEF Ordered, BatchesFormed, Popped
<1>2. Settle(MessagesOf(Popped(storage)), Failed("closed"))
  BY <1>1 DEF BatcherExits
<1> QED BY <1>1, <1>2, SettleFacts

LEMMA FailsSettle ==
    ASSUME TypeOK, Ordered, SendFails
    PROVE  /\ \A m \in Msgs : receipt'[m] = IF m \in Held(batch) THEN Failed("error") ELSE receipt[m]
           /\ receipt' = [m \in Msgs |-> IF m \in Held(batch) THEN Failed("error") ELSE receipt[m]]
<1>1. batch \in Seq(Items) /\ Batched(batch)
  BY StreamFacts DEF Ordered, BatchesFormed
<1> QED BY <1>1, SettleFacts DEF SendFails

\* Every message of a batch is told its place in it.
LEMMA SucceedsSettle ==
    ASSUME TypeOK, Ordered, SendSucceeds
    PROVE  \A m \in Msgs :
              /\ m \in Held(batch) =>
                    /\ receipt'[m] = Placed(written, m - batch[1].id, Len(Popped(batch)))
                    /\ receipt'[m] # None
              /\ m \notin Held(batch) => receipt'[m] = receipt[m]
<1> DEFINE ms == MessagesOf(Popped(batch))
           n == Len(Popped(batch))
<1>1. /\ n \in Nat
      /\ \A i \in 1..n : batch[i].id \in Held(batch) /\ batch[i].id = batch[1].id + i - 1
      /\ ms = [i \in 1..n |-> batch[i].id]
      /\ \A m \in Held(batch) : \E i \in 1..n : batch[i].id = m
      /\ \A i \in 1..n : batch[i].id \in Msgs
  BY StreamFacts, BatchFacts DEF Ordered, BatchesFormed
<1>2. receipt' = [m \in Msgs |->
              IF \E i \in DOMAIN ms : ms[i] = m
              THEN Placed(written, (CHOOSE i \in DOMAIN ms : ms[i] = m) - 1, n)
              ELSE receipt[m]]
  BY DEF SendSucceeds
<1> HIDE DEF ms, n
<1> SUFFICES ASSUME NEW m \in Msgs
             PROVE  /\ m \in Held(batch) =>
                          receipt'[m] = Placed(written, m - batch[1].id, n) /\ receipt'[m] # None
                    /\ m \notin Held(batch) => receipt'[m] = receipt[m]
  BY DEF n
<1>3. (\E i \in DOMAIN ms : ms[i] = m) <=> m \in Held(batch)
  BY <1>1
<1>4. ASSUME m \in Held(batch)
      PROVE  receipt'[m] = Placed(written, m - batch[1].id, n) /\ receipt'[m] # None
  <2> DEFINE k == CHOOSE i \in DOMAIN ms : ms[i] = m
  <2>1. k \in DOMAIN ms /\ ms[k] = m
    BY <1>3, <1>4
  <2>2. receipt'[m] = Placed(written, k - 1, n)
    BY <1>2, <1>3, <1>4
  <2> HIDE DEF k
  <2>3. k \in 1..n /\ m = batch[1].id + k - 1
    BY <2>1, <1>1
  <2>4. batch[1].id \in Nat /\ k \in Nat
    <3>1. 1 \in 1..n
      BY <2>3, <1>1
    <3> QED BY <3>1, <2>3, <1>1, Bounds DEF Msgs
  <2>5. k - 1 = m - batch[1].id /\ k - 1 \in Nat
    BY <2>3, <2>4
  <2>6. written \in Nat
    BY DEF SendSucceeds, TypeOK
  <2>7. Placed(written, k - 1, n) # None
    BY <2>5, <2>6, <1>1, ReceiptValues
  <2> QED BY <2>2, <2>5, <2>7
<1>5. ASSUME m \notin Held(batch) PROVE receipt'[m] = receipt[m]
  BY <1>2, <1>3, <1>5
<1> QED BY <1>4, <1>5

\* The places are disjoint.
LEMMA Apart ==
    ASSUME TypeOK, Ordered
    PROVE  \A m \in Held(batch) :
              m \notin Held(Stream) /\ \A b \in DOMAIN batches : m \notin Held(batches[b])
<1>1. \A m \in Held(batch) : ~(m < m)
  BY Bounds DEF Held, Msgs
<1> QED BY <1>1 DEF Ordered, BatchesInOrder

LEMMA StreamApart ==
    ASSUME TypeOK, Ordered
    PROVE  \A m \in Held(Stream) :
              m \notin Held(batch) /\ \A b \in DOMAIN batches : m \notin Held(batches[b])
<1>1. \A m \in Held(Stream) : ~(m < m)
  BY Bounds DEF Held, Msgs
<1> QED BY <1>1 DEF Ordered, BatchesInOrder

LEMMA PendingUser ==
    ASSUME TypeOK, Ordered, PendingUnsettled, Ending, User, NEW m \in Msgs
    PROVE  Pending(m)' <=> Pending(m) \/ (Send /\ m = sent + 1)
<1>1. ASSUME Send PROVE Pending(m)' <=> Pending(m) \/ m = sent + 1
  <2>1. batches' = batches /\ batch' = batch
    BY <1>1 DEF Send, senderVars
  <2>2. Held(Stream') = Held(Stream) \cup {sent + 1}
    BY <1>1, SendOrdered
  <2> QED BY <2>1, <2>2 DEF Pending
<1>2. ASSUME ~Send PROVE Pending(m)' <=> Pending(m)
  <2>1. CASE SendBatch
    <3>1. batches' = batches /\ batch' = batch
      BY <2>1 DEF SendBatch, senderVars
    <3>2. Held(Stream') = Held(Stream)
      BY <2>1, SendBatchOrdered
    <3> QED BY <3>1, <3>2 DEF Pending
  <2>2. CASE UserElsewhere
    BY <2>2, UserElsewhereFrame DEF Pending
  <2> QED BY <1>2, <2>1, <2>2 DEF User, UserElsewhere
<1> QED BY <1>1, <1>2

LEMMA PendingBatcher ==
    ASSUME TypeOK, TypeOK', Ordered, Batcher, NEW m \in Msgs
    PROVE  Pending(m)' <=> Pending(m) /\ ~(BatcherExits /\ m \in Held(Stream))
<1>0. batch' = batch
  BY BatcherFrame
<1>1. CASE BatcherExits
  <2>1. Stream' = <<>> /\ batches' = batches
    BY <1>1, ExitMoves
  <2> QED BY <1>0, <1>1, <2>1, HeldEmpty, StreamApart DEF Pending
<1>2. ASSUME ~BatcherExits PROVE Pending(m)' <=> Pending(m)
  <2>1. CASE Stays
    BY <1>0, <2>1 DEF Stays, Pending
  <2>2. CASE Cuts
    <3>1. PICK items \in Seq(Items) :
             batches' = Append(batches, items) /\ Stream = items \o Stream'
      BY <2>2 DEF Cuts
    <3>2. /\ Held(Stream) = Held(items) \cup Held(Stream')
          /\ DOMAIN batches' = 1..(Len(batches) + 1)
          /\ \A b \in DOMAIN batches : batches'[b] = batches[b]
          /\ batches'[Len(batches) + 1] = items
      BY <3>1, CutMoves
    <3>3. Len(batches) \in Nat /\ DOMAIN batches = 1..Len(batches)
      BY StreamFacts
    <3>4. Len(batches) + 1 \in DOMAIN batches' /\ \A b \in DOMAIN batches : b \in DOMAIN batches'
      BY <3>2, <3>3
    <3>5. \A b \in DOMAIN batches' : b \in DOMAIN batches \/ b = Len(batches) + 1
      BY <3>2, <3>3
    <3>6. (\E b \in DOMAIN batches' : m \in Held(batches'[b])) <=>
             (\E b \in DOMAIN batches : m \in Held(batches[b])) \/ m \in Held(items)
      BY <3>2, <3>4, <3>5
    <3> QED BY <1>0, <3>2, <3>6 DEF Pending
  <2> QED BY <1>2, <2>1, <2>2, BatcherMoves
<1> QED BY <1>1, <1>2

BatchEnds == SendSucceeds \/ SendFails

LEMMA PendingSender ==
    ASSUME TypeOK, Ordered, Sender \/ Broker, NEW m \in Msgs
    PROVE  Pending(m)' <=> Pending(m) /\ ~(BatchEnds /\ m \in Held(batch))
<1>0. Stream' = Stream
  BY SenderFrame
<1>1. CASE TakeBatch
  <2>1. /\ batch = <<>> /\ 1 \in DOMAIN batches
        /\ \A b \in DOMAIN batches' : b + 1 \in DOMAIN batches /\ batches'[b] = batches[b + 1]
        /\ \A b \in DOMAIN batches : b # 1 => b - 1 \in DOMAIN batches'
        /\ (Held(batches[1]) = {} /\ batch' = batch) \/ batch' = batches[1]
    BY <1>1, TakeMoves
  <2>2. Held(batch) = {} /\ Held(batch') = Held(batches[1])
    BY <2>1, HeldEmpty
  <2>3. (\E b \in DOMAIN batches : m \in Held(batches[b])) <=>
           (\E b \in DOMAIN batches' : m \in Held(batches'[b])) \/ m \in Held(batches[1])
    <3>1. ASSUME NEW b \in DOMAIN batches, m \in Held(batches[b]), b # 1
          PROVE  \E c \in DOMAIN batches' : m \in Held(batches'[c])
      <4>1. b - 1 \in DOMAIN batches' /\ (b - 1) + 1 = b
        BY <3>1, <2>1, StreamFacts
      <4> QED BY <4>1, <3>1, <2>1
    <3> QED BY <3>1, <2>1
  <2> QED BY <1>0, <2>2, <2>3 DEF Pending
<1>2. CASE BatchEnds
  <2>1. batch' = <<>> /\ batches' = batches
    BY <1>2 DEF BatchEnds, SendSucceeds, SendFails
  <2> QED BY <1>0, <1>2, <2>1, HeldEmpty, Apart DEF Pending
<1>3. ASSUME SendEnqueued \/ SenderExits \/ Broker, ~BatchEnds PROVE Pending(m)' <=> Pending(m)
  <2>1. batch' = batch /\ batches' = batches
    BY <1>3 DEF SendEnqueued, SenderExits, Broker, BrokerWrites, BrokerWritesLate, senderVars
  <2> QED BY <1>0, <2>1 DEF Pending
<1>4. ASSUME ~BatchEnds PROVE Pending(m)' <=> Pending(m)
  <2>1. SendEnqueued \/ SenderExits \/ Broker \/ TakeBatch
    BY <1>4 DEF Sender, BatchEnds
  <2>2. CASE TakeBatch
    BY <2>2, <1>1, <1>4
  <2> QED BY <2>1, <2>2, <1>3, <1>4
<1> QED BY <1>2, <1>4

\* Messages leave the places they wait in when they get their result.
LEMMA PendingLeave ==
    ASSUME TypeOK, PendingUnsettled, NEW D \in SUBSET Msgs, sent' = sent,
           \A m \in Msgs : Pending(m)' <=> Pending(m) /\ m \notin D,
           \A m \in D : Pending(m) /\ receipt'[m] # None,
           \A m \in Msgs : m \notin D => receipt'[m] = receipt[m],
           \A m \in D, n \in Msgs : Acked(m)' /\ Pending(n)' => m < n
    PROVE  PendingUnsettled'
<1>1. \A m \in Msgs : Pending(m)' <=> m <= sent' /\ receipt'[m] = None
  BY DEF PendingUnsettled
<1>2. \A m \in Msgs : m > sent' => receipt'[m] = None
  <2> SUFFICES ASSUME NEW m \in Msgs, m > sent PROVE receipt'[m] = None
    OBVIOUS
  <2>1. ~(m <= sent)
    BY StreamFacts
  <2>2. m \notin D
    BY <2>1 DEF PendingUnsettled
  <2> QED BY <2>2 DEF PendingUnsettled
<1>3. \A m, n \in Msgs : Acked(m)' /\ Pending(n)' => m < n
  <2> SUFFICES ASSUME NEW m \in Msgs, NEW n \in Msgs, Acked(m)', Pending(n)' PROVE m < n
    OBVIOUS
  <2>1. CASE m \in D
    BY <2>1
  <2>2. CASE m \notin D
    <3>1. Acked(m)
      BY <2>2 DEF Acked
    <3> QED BY <3>1 DEF PendingUnsettled
  <2> QED BY <2>1, <2>2
<1> QED BY <1>1, <1>2, <1>3 DEF PendingUnsettled

\* What a step does to the receipts.
Kept == \A m \in Msgs : receipt[m] # None => receipt'[m] = receipt[m]

NewlyAcked(m) == SendSucceeds /\ m \in Held(batch)

LEMMA UserSettles ==
    ASSUME TypeOK, Ordered, PendingUnsettled, Ending, User
    PROVE  /\ PendingUnsettled' /\ Kept
           /\ \A m \in Msgs : Acked(m)' => Acked(m)
<1>0. /\ sent \in Nat
      /\ \A m \in Msgs : m \in Nat
      /\ \A m \in Msgs : Pending(m) <=> m <= sent /\ receipt[m] = None
      /\ \A m \in Msgs : m > sent => receipt[m] = None
      /\ \A m, n \in Msgs : Acked(m) /\ Pending(n) => m < n
  BY StreamFacts DEF PendingUnsettled
<1>1. CASE Send
  <2>1. sent' = sent + 1 /\ receipt' = receipt
    BY <1>1 DEF Send
  <2>2. \A m \in Msgs : Pending(m)' <=> Pending(m) \/ m = sent + 1
    BY <1>1, PendingUser
  <2>3. \A m \in Msgs : Pending(m)' <=> m <= sent' /\ receipt'[m] = None
    BY <1>0, <2>1, <2>2
  <2>4. \A m \in Msgs : m > sent' => receipt'[m] = None
    BY <1>0, <2>1
  <2>5. \A m \in Msgs : Acked(m) => m < sent + 1
    BY <1>0 DEF Acked
  <2>6. \A m \in Msgs : Acked(m)' <=> Acked(m)
    BY <2>1 DEF Acked
  <2> QED BY <1>0, <2>1, <2>2, <2>3, <2>4, <2>5, <2>6 DEF PendingUnsettled, Kept
<1>2. CASE SendClosed
  <2>1. sent' = sent + 1 /\ receipt' = [receipt EXCEPT ![sent + 1] = Failed("closed")]
        /\ sent + 1 \in Msgs
    BY <1>2, Bounds DEF SendClosed, TypeOK, Msgs
  <2>2. \A m \in Msgs : receipt'[m] = IF m = sent + 1 THEN Failed("closed") ELSE receipt[m]
    BY <2>1 DEF TypeOK
  <2>3. \A m \in Msgs : Pending(m)' <=> Pending(m)
    BY <1>2, PendingUser DEF SendClosed, Send
  <2>4. Failed("closed").result = "closed" /\ Failed("closed") # None
    BY ReceiptValues
  <2>5. \A m \in Msgs : Acked(m)' => Acked(m)
    BY <2>2, <2>4 DEF Acked
  <2>6. \A m \in Msgs : Pending(m)' <=> m <= sent' /\ receipt'[m] = None
    BY <1>0, <2>1, <2>2, <2>3, <2>4
  <2>7. \A m \in Msgs : m > sent' => receipt'[m] = None
    BY <1>0, <2>1, <2>2
  <2>8. Kept
    BY <1>0, <2>1, <2>2 DEF Kept
  <2> QED BY <1>0, <2>3, <2>5, <2>6, <2>7, <2>8 DEF PendingUnsettled
<1>3. CASE ~Send /\ ~SendClosed
  <2>1. sent' = sent /\ receipt' = receipt
    <3>1. CASE SendBatch
      BY <3>1 DEF SendBatch
    <3>2. CASE UserElsewhere
      BY <3>2, <1>3, UserElsewhereFrame
    <3> QED BY <1>3, <3>1, <3>2 DEF User, UserElsewhere
  <2>2. \A m \in Msgs : Pending(m)' <=> Pending(m)
    BY <1>3, PendingUser
  <2>3. \A m \in Msgs : Acked(m)' <=> Acked(m)
    BY <2>1 DEF Acked
  <2> QED BY <1>0, <2>1, <2>2, <2>3 DEF PendingUnsettled, Kept
<1> QED BY <1>1, <1>2, <1>3

LEMMA BatcherSettles ==
    ASSUME TypeOK, TypeOK', Ordered, PendingUnsettled, Batcher
    PROVE  /\ PendingUnsettled' /\ Kept
           /\ \A m \in Msgs : Acked(m)' => Acked(m)
<1>0. sent' = sent /\ (BatcherExits \/ receipt' = receipt)
  BY BatcherFrame
<1>1. \A m \in Msgs : Pending(m)' <=> Pending(m) /\ ~(BatcherExits /\ m \in Held(Stream))
  BY PendingBatcher
<1> DEFINE D == IF BatcherExits THEN Held(Stream) ELSE {}
<1>2. D \in SUBSET Msgs /\ \A m \in D : Pending(m)
  BY DEF Held, Pending
<1>3. /\ \A m \in D : receipt'[m] = Failed("closed")
      /\ \A m \in Msgs : m \notin D => receipt'[m] = receipt[m]
  <2>1. CASE BatcherExits
    BY <2>1, <1>2, StorageSettles
  <2>2. CASE ~BatcherExits
    BY <2>2, <1>0
  <2> QED BY <2>1, <2>2
<1>4. \A m \in Msgs : Pending(m)' <=> Pending(m) /\ m \notin D
  BY <1>1
<1> HIDE DEF D
<1>5. \A m \in D : receipt'[m] # None /\ ~Acked(m)' /\ receipt[m] = None
  <2>1. Failed("closed").result = "closed" /\ Failed("closed") # None
    BY ReceiptValues
  <2>2. \A m \in D : ~Acked(m)'
    BY <2>1, <1>2, <1>3 DEF Acked
  <2> QED BY <2>1, <2>2, <1>2, <1>3 DEF PendingUnsettled
<1>6. PendingUnsettled'
  BY <1>0, <1>2, <1>3, <1>4, <1>5, PendingLeave
<1>7. Kept
  BY <1>3, <1>5 DEF Kept
<1>8. \A m \in Msgs : Acked(m)' => Acked(m)
  BY <1>3, <1>5 DEF Acked
<1> QED BY <1>6, <1>7, <1>8

LEMMA SenderSettles ==
    ASSUME TypeOK, TypeOK', Ordered, PendingUnsettled, Sender \/ Broker
    PROVE  /\ PendingUnsettled' /\ Kept
           /\ \A m \in Msgs : Acked(m)' => Acked(m) \/ NewlyAcked(m)
           /\ ~BatchEnds => receipt' = receipt
<1>0. sent' = sent /\ Stream' = Stream
  BY SenderFrame
<1>1. \A m \in Msgs : Pending(m)' <=> Pending(m) /\ ~(BatchEnds /\ m \in Held(batch))
  BY PendingSender
<1> DEFINE D == IF BatchEnds THEN Held(batch) ELSE {}
<1>2. D \in SUBSET Msgs /\ \A m \in D : Pending(m) /\ receipt[m] = None
  BY DEF Held, Pending, PendingUnsettled
<1>9. ~BatchEnds => receipt' = receipt
  BY DEF BatchEnds, Sender, Broker, TakeBatch, SendEnqueued, SenderExits, BrokerWrites, BrokerWritesLate
<1>3. /\ \A m \in D : receipt'[m] # None
      /\ \A m \in Msgs : m \notin D => receipt'[m] = receipt[m]
      /\ \A m \in D : Acked(m)' => SendSucceeds
  <2>1. CASE SendFails
    <3>1. Failed("error").result = "error" /\ Failed("error") # None
      BY ReceiptValues
    <3>2. \A m \in D : receipt'[m] = Failed("error")
      BY <1>2, <2>1, FailsSettle DEF BatchEnds
    <3>3. \A m \in D : ~Acked(m)'
      BY <3>1, <3>2 DEF Acked
    <3> QED BY <2>1, <3>1, <3>2, <3>3, FailsSettle DEF BatchEnds
  <2>2. CASE SendSucceeds
    <3>1. \A m \in D : receipt'[m] # None
      BY <1>2, <2>2, SucceedsSettle DEF BatchEnds
    <3> QED BY <2>2, <3>1, SucceedsSettle DEF BatchEnds
  <2>3. CASE ~BatchEnds
    BY <2>3, <1>9
  <2> QED BY <2>1, <2>2, <2>3 DEF BatchEnds
<1>4. \A m \in Msgs : Pending(m)' <=> Pending(m) /\ m \notin D
  BY <1>1
<1>5. \A m \in D, n \in Msgs : Pending(n)' => m < n
  <2> SUFFICES ASSUME NEW m \in D, NEW n \in Msgs, Pending(n)' PROVE m < n
    OBVIOUS
  <2>1. m \in Held(batch) /\ n \notin Held(batch) /\ Pending(n)
    BY <1>4
  <2> QED BY <2>1 DEF Pending, Ordered, BatchesInOrder
<1>10. D = IF BatchEnds THEN Held(batch) ELSE {}
  OBVIOUS
<1> HIDE DEF D
<1>6. PendingUnsettled'
  BY <1>0, <1>2, <1>3, <1>4, <1>5, PendingLeave
<1>7. Kept
  BY <1>2, <1>3 DEF Kept
<1>8. \A m \in Msgs : Acked(m)' => Acked(m) \/ NewlyAcked(m)
  <2> SUFFICES ASSUME NEW m \in Msgs, Acked(m)' PROVE Acked(m) \/ NewlyAcked(m)
    OBVIOUS
  <2>1. CASE m \in D
    BY <2>1, <1>3, <1>10 DEF NewlyAcked
  <2>2. CASE m \notin D
    BY <2>2, <1>3 DEF Acked
  <2> QED BY <2>1, <2>2
<1> QED BY <1>6, <1>7, <1>8, <1>9

-----------------------------------------------------------------------------
(* The topic and the batches given up on. *)

LEMMA LogTypes ==
    ASSUME TypeOK
    PROVE  /\ log \in Seq(Seq(Msgs)) /\ Len(log) \in Nat /\ DOMAIN log = 1..Len(log)
           /\ \A e \in DOMAIN log : log[e] \in Seq(Msgs)
           /\ \A e \in DOMAIN log : \A i \in DOMAIN log[e] : log[e][i] \in Msgs
           /\ \A ms \in limbo : ms \in Seq(Msgs) /\ \A i \in DOMAIN ms : ms[i] \in Msgs
<1>1. log \in Seq(Seq(Msgs)) /\ limbo \subseteq Seq(Msgs)
  BY DEF TypeOK
<1>2. Len(log) \in Nat /\ DOMAIN log = 1..Len(log) /\ \A e \in DOMAIN log : log[e] \in Seq(Msgs)
  BY <1>1
<1>3. \A s \in Seq(Msgs) : \A i \in DOMAIN s : s[i] \in Msgs
  OBVIOUS
<1> QED BY <1>1, <1>2, <1>3

\* The batch at work as the broker sees it.
LEMMA BatchEntry ==
    ASSUME TypeOK, Ordered
    PROVE  LET ms == MessagesOf(Popped(batch)) IN
           /\ ms \in Seq(Msgs) /\ Len(ms) = Len(Popped(batch))
           /\ DOMAIN ms = 1..Len(Popped(batch)) /\ Len(Popped(batch)) \in Nat
           /\ \A i \in DOMAIN ms : ms[i] \in Held(batch) /\ ms[i] = ms[1] + i - 1
           /\ \A i \in DOMAIN ms : ms[i] = batch[1].id + i - 1
           /\ \A m \in Held(batch) : \E i \in DOMAIN ms : ms[i] = m
           /\ sender \in {"send", "wait"} => ms # <<>> /\ Len(Popped(batch)) > 0
<1>1. batch \in Seq(Items) /\ Batched(batch)
  BY StreamFacts DEF Ordered, BatchesFormed
<1> DEFINE ms == MessagesOf(Popped(batch))
           n == Len(Popped(batch))
<1>2. /\ n \in Nat
      /\ \A i \in 1..n : batch[i].id \in Held(batch) /\ batch[i].id = batch[1].id + i - 1
      /\ ms = [i \in 1..n |-> batch[i].id]
      /\ ms \in Seq(Msgs) /\ Len(ms) = n
      /\ \A m \in Held(batch) : \E i \in 1..n : batch[i].id = m
      /\ \A i \in 1..n : batch[i].id \in Msgs
      /\ Popped(batch) # <<>> => n > 0
  BY <1>1, BatchFacts
<1>3. sender \in {"send", "wait"} => n > 0
  BY <1>2 DEF Ordered, BatchesFormed
<1> HIDE DEF ms, n
<1>4. DOMAIN ms = 1..n /\ \A i \in DOMAIN ms : ms[i] = batch[i].id
  BY <1>2
<1>5. \A i \in DOMAIN ms : ms[i] \in Held(batch) /\ ms[i] = batch[1].id + i - 1
  BY <1>2, <1>4
<1>6. \A i \in DOMAIN ms : ms[i] = ms[1] + i - 1
  <2> SUFFICES ASSUME NEW i \in DOMAIN ms PROVE ms[i] = ms[1] + i - 1
    OBVIOUS
  <2>1. 1 \in DOMAIN ms
    BY <1>2, <1>4
  <2>2. ms[1] = batch[1].id
    BY <2>1, <1>4
  <2> QED BY <2>2, <1>5
<1>7. \A m \in Held(batch) : \E i \in DOMAIN ms : ms[i] = m
  BY <1>2, <1>4
<1>8. n > 0 => ms # <<>>
  BY <1>2
<1> QED BY <1>2, <1>3, <1>4, <1>5, <1>6, <1>7, <1>8 DEF ms, n

\* The topic only grows, and messages keep the receipts they have.
LEMMA LogKept ==
    ASSUME TypeOK, TypeOK', LogBehind, log' = log, limbo' = limbo, sent <= sent', sent' \in Nat,
           written' = written /\ batch' = batch,
           \A m \in Msgs : Pending(m)' => Pending(m) \/ m > sent,
           Kept, \A m \in Msgs : Acked(m)' => Acked(m)
    PROVE  LogBehind'
<1>1. \A e \in DOMAIN log : \A i \in DOMAIN log[e] :
         log[e][i] \in Msgs /\ log[e][i] <= sent /\ ~(log[e][i] > sent) /\ log[e][i] <= sent'
  BY LogTypes, StreamFacts DEF LogBehind
<1>2. \A m \in Msgs : Acked(m)' => receipt'[m] = receipt[m] /\ Acked(m)
  BY DEF Kept, Acked
<1>3. \A e \in DOMAIN log : \A i \in DOMAIN log[e] :
         Pending(log[e][i]) => written # None /\ log[e][i] \in Held(batch)
  BY DEF LogBehind
<1>4. \A m \in Msgs : Pending(m)' /\ ~(m > sent) => Pending(m)
  OBVIOUS
<1>5. written # None =>
          /\ written \in DOMAIN log
          /\ log[written] = MessagesOf(Popped(batch))
          /\ \A m \in Msgs : Acked(m)' => receipt'[m].entry < written
  BY <1>2 DEF LogBehind
<1> QED BY <1>1, <1>3, <1>4, <1>5 DEF LogBehind

LEMMA LimboKept ==
    ASSUME TypeOK, LimboOnce, log' = log, limbo' = limbo, sent <= sent', sent \in Nat, sent' \in Nat, Kept
    PROVE  LimboOnce'
<1>1. \A ms \in limbo : \A i \in DOMAIN ms :
         ms[i] \in Msgs /\ ms[i] \in Nat /\ receipt[ms[i]] # None /\ ms[i] <= sent
  BY LogTypes, StreamFacts DEF LimboOnce
<1>2. \A ms \in limbo : \A i \in DOMAIN ms : receipt'[ms[i]] # None /\ ms[i] <= sent'
  BY <1>1 DEF Kept
<1> QED BY <1>2 DEF LimboOnce

LEMMA UserLog ==
    ASSUME TypeOK, TypeOK', Ordered, Settling, Ending, User
    PROVE  LogBehind' /\ LimboOnce'
<1>1. UNCHANGED <<log, limbo, written, batch>>
  BY DEF User, Send, SendReturns, SendBatch, SendBatchReturns, Close, CloseReturns, SendClosed,
         Cancel, DropProducer, senderVars, brokerVars
<1>2. sent' \in {sent, sent + 1}
  BY DEF User, Send, SendReturns, SendBatch, SendBatchReturns, Close, CloseReturns, SendClosed,
         Cancel, DropProducer
<1>3. sent <= sent' /\ sent \in Nat /\ sent' \in Nat
  BY <1>2, StreamFacts
<1>4. Kept /\ \A m \in Msgs : Acked(m)' => Acked(m)
  BY UserSettles DEF Settling
<1>5. \A m \in Msgs : Pending(m)' => Pending(m) \/ m > sent
  <2> SUFFICES ASSUME NEW m \in Msgs, Pending(m)' PROVE Pending(m) \/ m > sent
    OBVIOUS
  <2>1. Pending(m) \/ m = sent + 1
    BY PendingUser DEF Settling
  <2> QED BY <2>1, <1>3
<1> QED BY <1>1, <1>3, <1>4, <1>5, LogKept, LimboKept DEF Settling

LEMMA BatcherLog ==
    ASSUME TypeOK, TypeOK', Ordered, Settling, Batcher
    PROVE  LogBehind' /\ LimboOnce'
<1>1. UNCHANGED <<log, limbo, written, batch, sent>>
  BY BatcherFrame
<1>2. sent <= sent' /\ sent \in Nat /\ sent' \in Nat
  BY <1>1, StreamFacts
<1>3. Kept /\ \A m \in Msgs : Acked(m)' => Acked(m)
  BY BatcherSettles DEF Settling
<1>4. \A m \in Msgs : Pending(m)' => Pending(m)
  BY PendingBatcher
<1> QED BY <1>1, <1>2, <1>3, <1>4, LogKept, LimboKept DEF Settling

LEMMA SenderKeeps ==
    ASSUME TypeOK, TypeOK', Ordered, Settling, Sender \/ Broker
    PROVE  /\ sent' = sent /\ sent \in Nat /\ sent <= sent' /\ sent' \in Nat
           /\ Kept
           /\ \A m \in Msgs : Acked(m)' => Acked(m) \/ NewlyAcked(m)
           /\ \A m \in Msgs : Pending(m)' <=> Pending(m) /\ ~(BatchEnds /\ m \in Held(batch))
           /\ ~BatchEnds => receipt' = receipt
<1>1. sent' = sent /\ sent \in Nat
  BY SenderFrame, StreamFacts
<1>2. sent <= sent' /\ sent' \in Nat
  BY <1>1
<1> QED BY <1>1, <1>2, SenderSettles, PendingSender DEF Settling

LEMMA TakeLog ==
    ASSUME TypeOK, TypeOK', Ordered, Settling, TakeBatch
    PROVE  LogBehind' /\ LimboOnce'
<1>1. UNCHANGED <<log, limbo>> /\ sender = "recv"
  BY DEF TakeBatch, brokerVars
<1>2. /\ sent' = sent /\ sent \in Nat /\ sent <= sent' /\ sent' \in Nat
      /\ Kept
      /\ \A m \in Msgs : Pending(m)' => Pending(m)
  BY SenderKeeps DEF Sender
<1>3. LimboOnce'
  BY <1>1, <1>2, LimboKept DEF Settling
<1>4. written = None /\ written' = None
  BY <1>1, TakeMoves DEF Ordered, BatchesFormed
<1>5. \A e \in DOMAIN log : \A i \in DOMAIN log[e] :
         log[e][i] \in Msgs /\ log[e][i] <= sent /\ ~Pending(log[e][i])
  BY <1>4, LogTypes DEF Settling, LogBehind
<1>6. LogBehind'
  BY <1>1, <1>2, <1>4, <1>5 DEF LogBehind
<1> QED BY <1>3, <1>6

LEMMA IdleLog ==
    ASSUME TypeOK, TypeOK', Ordered, Settling, SendEnqueued \/ SenderExits
    PROVE  LogBehind' /\ LimboOnce'
<1>1. UNCHANGED <<log, limbo, written, batch>> /\ ~SendSucceeds
  BY DEF SendEnqueued, SenderExits, SendSucceeds, brokerVars
<1>2. /\ sent' = sent /\ sent \in Nat /\ sent <= sent' /\ sent' \in Nat
      /\ Kept
      /\ \A m \in Msgs : Acked(m)' => Acked(m) \/ NewlyAcked(m)
      /\ \A m \in Msgs : Pending(m)' => Pending(m)
  BY SenderKeeps DEF Sender
<1>3. \A m \in Msgs : Acked(m)' => Acked(m)
  BY <1>1, <1>2 DEF NewlyAcked
<1> QED BY <1>1, <1>2, <1>3, LogKept, LimboKept DEF Settling

\* When a batch ends nothing of the topic is pending any more.
LEMMA EndsLog ==
    ASSUME TypeOK, TypeOK', Ordered, Settling, BatchEnds
    PROVE  LogBehind'
<1>1. log' = log /\ written' = None
  BY DEF BatchEnds, SendSucceeds, SendFails, brokerVars
<1>2. /\ sent' = sent
      /\ \A m \in Msgs : Pending(m)' <=> Pending(m) /\ m \notin Held(batch)
  BY SenderKeeps DEF Sender, BatchEnds
<1>3. \A e \in DOMAIN log : \A i \in DOMAIN log[e] :
         log[e][i] \in Msgs /\ log[e][i] <= sent
            /\ (Pending(log[e][i]) => log[e][i] \in Held(batch))
  BY LogTypes DEF Settling, LogBehind
<1> QED BY <1>1, <1>2, <1>3 DEF LogBehind

LEMMA SucceedsLimbo ==
    ASSUME TypeOK, TypeOK', Ordered, Settling, SendSucceeds
    PROVE  LimboOnce'
<1>1. UNCHANGED <<log, limbo>>
  BY DEF SendSucceeds, brokerVars
<1>2. /\ sent' = sent /\ sent \in Nat /\ sent <= sent' /\ sent' \in Nat /\ Kept
  BY SenderKeeps DEF Sender
<1> QED BY <1>1, <1>2, LimboKept DEF Settling

LEMMA FailsLimbo ==
    ASSUME TypeOK, TypeOK', Ordered, Settling, SendFails
    PROVE  LimboOnce'
<1> DEFINE new == MessagesOf(Popped(batch))
<1>0. log' = log /\ sent' = sent /\ sender \in {"send", "wait"}
  BY SenderKeeps DEF SendFails, Sender
<1>1. /\ new # <<>>
      /\ \A i \in DOMAIN new : new[i] \in Held(batch) /\ new[i] = new[1] + i - 1
  BY <1>0, BatchEntry
<1>2. limbo' = limbo \/ (written = None /\ limbo' = limbo \cup {new})
  BY DEF SendFails
<1> HIDE DEF new
<1>3. \A m \in Held(batch) : m \in Msgs /\ m <= sent /\ Pending(m) /\ receipt[m] = None
  BY HeldIsSent DEF Settling, PendingUnsettled
<1>4. \A m \in Held(batch) : receipt'[m] # None
  BY <1>3, FailsSettle, ReceiptValues
<1>5. /\ sent \in Nat /\ sent <= sent' /\ sent' \in Nat /\ Kept
  BY SenderKeeps DEF Sender
<1>6. ASSUME NEW ms \in limbo
      PROVE  /\ ms # <<>>
             /\ \A i \in DOMAIN ms : ms[i] = ms[1] + i - 1
             /\ \A i \in DOMAIN ms : receipt'[ms[i]] # None /\ ms[i] <= sent'
             /\ \A i \in DOMAIN ms : \A e \in DOMAIN log : \A j \in DOMAIN log[e] :
                   log[e][j] # ms[i]
             /\ \A other \in limbo : other # ms =>
                   \A i \in DOMAIN ms, j \in DOMAIN other : ms[i] # other[j]
             /\ \A i \in DOMAIN ms, j \in DOMAIN new : ms[i] # new[j]
  <2>1. \A i \in DOMAIN ms : ms[i] \in Msgs /\ receipt[ms[i]] # None
    BY LogTypes DEF Settling, LimboOnce
  <2>2. \A i \in DOMAIN ms : receipt'[ms[i]] # None
    BY <2>1, <1>5 DEF Kept
  <2>3. \A i \in DOMAIN ms, j \in DOMAIN new : ms[i] # new[j]
    BY <2>1, <1>1, <1>3
  <2> QED BY <2>2, <2>3, <1>0 DEF Settling, LimboOnce
<1>7. CASE limbo' = limbo
  BY <1>7, <1>6, <1>0 DEF LimboOnce
<1>8. CASE written = None /\ limbo' = limbo \cup {new}
  <2>1. \A e \in DOMAIN log : \A j \in DOMAIN log[e] : log[e][j] \notin Held(batch)
    BY <1>8, <1>3 DEF Settling, LogBehind
  <2>2. ASSUME NEW ms \in limbo'
        PROVE  /\ ms # <<>>
               /\ \A i \in DOMAIN ms : ms[i] = ms[1] + i - 1
               /\ \A i \in DOMAIN ms : receipt'[ms[i]] # None /\ ms[i] <= sent'
               /\ \A i \in DOMAIN ms : \A e \in DOMAIN log : \A j \in DOMAIN log[e] :
                     log[e][j] # ms[i]
               /\ \A other \in limbo' : other # ms =>
                     \A i \in DOMAIN ms, j \in DOMAIN other : ms[i] # other[j]
    <3>1. CASE ms \in limbo
      BY <3>1, <1>6, <1>8
    <3>2. CASE ms = new
      <4>1. \A i \in DOMAIN new : receipt'[new[i]] # None /\ new[i] <= sent'
        BY <1>0, <1>1, <1>3, <1>4
      <4>2. \A i \in DOMAIN new : \A e \in DOMAIN log : \A j \in DOMAIN log[e] :
               log[e][j] # new[i]
        BY <2>1, <1>1
      <4>3. \A other \in limbo : \A i \in DOMAIN new, j \in DOMAIN other : new[i] # other[j]
        BY <1>6
      <4> QED BY <3>2, <4>1, <4>2, <4>3, <1>1, <1>8
    <3> QED BY <3>1, <3>2, <1>8
  <2> QED BY <2>2, <1>0 DEF LimboOnce
<1> QED BY <1>2, <1>7, <1>8

LEMMA WritesLog ==
    ASSUME TypeOK, TypeOK', Ordered, Settling, ReceiptsPoint, BrokerWrites
    PROVE  LogBehind' /\ LimboOnce'
<1> DEFINE new == MessagesOf(Popped(batch))
           n == Len(log) + 1
<1>1. /\ sender = "wait" /\ written = None /\ batch' = batch /\ limbo' = limbo
      /\ log' = Append(log, new) /\ written' = n
  BY DEF BrokerWrites
<1>2. /\ new \in Seq(Msgs) /\ \A i \in DOMAIN new : new[i] \in Held(batch)
  BY BatchEntry
<1> HIDE DEF new
<1>3. /\ Len(log) \in Nat /\ DOMAIN log = 1..Len(log) /\ DOMAIN log' = 1..n
      /\ \A e \in DOMAIN log : log'[e] = log[e]
      /\ log'[n] = new /\ n \in 1..n
  BY <1>1, <1>2, LogTypes, AppendFacts
<1> HIDE DEF n
<1>4. \A e \in DOMAIN log' : e \in DOMAIN log \/ e = n
  BY <1>3 DEF n
<1>5. /\ sent' = sent /\ sent \in Nat /\ Kept
      /\ \A m \in Msgs : Pending(m)' => Pending(m)
      /\ \A m \in Msgs : Acked(m)' => Acked(m) \/ NewlyAcked(m)
  BY SenderKeeps DEF Broker
<1>6. \A m \in Held(batch) : m \in Msgs /\ m <= sent /\ receipt[m] = None
  BY HeldIsSent DEF Settling, PendingUnsettled
<1>7. \A e \in DOMAIN log : \A i \in DOMAIN log[e] :
         log[e][i] \in Msgs /\ log[e][i] <= sent /\ ~Pending(log[e][i])
  BY <1>1, LogTypes DEF Settling, LogBehind
<1>8. \A m \in Msgs : Acked(m)' => receipt'[m].entry < n
  <2> SUFFICES ASSUME NEW m \in Msgs, Acked(m)' PROVE receipt'[m].entry < n
    OBVIOUS
  <2>1. ~SendSucceeds
    BY <1>1 DEF SendSucceeds
  <2>2. Acked(m) /\ receipt'[m] = receipt[m]
    BY <2>1, <1>5 DEF NewlyAcked, Kept, Acked
  <2>3. receipt[m].entry \in 1..Len(log)
    BY <2>2, <1>3 DEF ReceiptsPoint
  <2> QED BY <2>2, <2>3, <1>3 DEF n
<1>9. n # None
  BY <1>3, Bounds DEF n
<1>10. LogBehind'
  <2>1. \A e \in DOMAIN log' : \A i \in DOMAIN log'[e] :
           \/ e \in DOMAIN log /\ i \in DOMAIN log[e] /\ log'[e][i] = log[e][i]
           \/ e = n /\ i \in DOMAIN new /\ log'[e][i] = new[i]
    BY <1>3, <1>4
  <2>2. \A e \in DOMAIN log' : \A i \in DOMAIN log'[e] :
           log'[e][i] \in Msgs /\ log'[e][i] <= sent'
              /\ (~Pending(log'[e][i]) \/ log'[e][i] \in Held(batch))
    BY <2>1, <1>2, <1>5, <1>6, <1>7
  <2>3. \A m \in Msgs : ~Pending(m) => ~Pending(m)'
    BY <1>5
  <2> QED BY <2>2, <2>3, <1>1, <1>3, <1>8, <1>9 DEF LogBehind, new
<1>11. LimboOnce'
  <2>1. \A ms \in limbo : \A i \in DOMAIN ms : ms[i] \in Msgs /\ receipt[ms[i]] # None
    BY LogTypes DEF Settling, LimboOnce
  <2>2. \A ms \in limbo : \A i \in DOMAIN ms : receipt'[ms[i]] # None
    BY <2>1, <1>5 DEF Kept
  <2>3. \A ms \in limbo : \A i \in DOMAIN ms : \A e \in DOMAIN log' : \A j \in DOMAIN log'[e] :
           log'[e][j] # ms[i]
    <3> SUFFICES ASSUME NEW ms \in limbo, NEW i \in DOMAIN ms, NEW e \in DOMAIN log',
                        NEW j \in DOMAIN log'[e]
                 PROVE  log'[e][j] # ms[i]
      OBVIOUS
    <3>1. CASE e \in DOMAIN log
      BY <3>1, <1>3 DEF Settling, LimboOnce
    <3>2. CASE e = n
      BY <3>2, <1>2, <1>3, <1>6, <2>1
    <3> QED BY <3>1, <3>2, <1>4
  <2> QED BY <2>2, <2>3, <1>1, <1>5 DEF Settling, LimboOnce
<1> QED BY <1>10, <1>11

LEMMA LateLog ==
    ASSUME TypeOK, TypeOK', Ordered, Settling, BrokerWritesLate
    PROVE  LogBehind' /\ LimboOnce'
<1>1. PICK late \in limbo : log' = Append(log, late) /\ limbo' = limbo \ {late}
  BY DEF BrokerWritesLate
<1> DEFINE n == Len(log) + 1
<1>2. written' = written /\ batch' = batch
  BY DEF BrokerWritesLate, senderVars
<1>3. /\ late \in Seq(Msgs)
      /\ \A i \in DOMAIN late : late[i] \in Msgs /\ late[i] <= sent /\ receipt[late[i]] # None
  BY LogTypes DEF Settling, LimboOnce
<1>4. /\ Len(log) \in Nat /\ DOMAIN log = 1..Len(log) /\ DOMAIN log' = 1..n
      /\ \A e \in DOMAIN log : log'[e] = log[e] /\ e \in DOMAIN log'
      /\ log'[n] = late
  BY <1>1, <1>3, LogTypes, AppendFacts
<1>5. \A e \in DOMAIN log' : e \in DOMAIN log \/ e = n
  BY <1>4
<1> HIDE DEF n
<1>6. /\ sent' = sent /\ sent \in Nat /\ Kept
      /\ \A m \in Msgs : Pending(m)' => Pending(m)
      /\ \A m \in Msgs : Acked(m)' => Acked(m) \/ NewlyAcked(m)
      /\ ~BatchEnds => receipt' = receipt
  BY SenderKeeps DEF Broker
<1>7. receipt' = receipt
  BY DEF BrokerWritesLate
<1>8. \A m \in Msgs : receipt[m] # None => ~Pending(m)
  BY DEF Settling, PendingUnsettled
<1>9. LogBehind'
  <2>1. \A e \in DOMAIN log' : \A i \in DOMAIN log'[e] :
           \/ e \in DOMAIN log /\ i \in DOMAIN log[e] /\ log'[e][i] = log[e][i]
           \/ e = n /\ i \in DOMAIN late /\ log'[e][i] = late[i]
    BY <1>4, <1>5
  <2>2. \A e \in DOMAIN log : \A i \in DOMAIN log[e] :
           /\ log[e][i] \in Msgs /\ log[e][i] <= sent
           /\ Pending(log[e][i]) => written # None /\ log[e][i] \in Held(batch)
    BY LogTypes DEF Settling, LogBehind
  <2>3. \A e \in DOMAIN log' : \A i \in DOMAIN log'[e] :
           /\ log'[e][i] \in Msgs /\ log'[e][i] <= sent'
           /\ ~Pending(log'[e][i]) \/ (written # None /\ log'[e][i] \in Held(batch))
    BY <2>1, <2>2, <1>3, <1>6, <1>8
  <2>4. \A m \in Msgs : ~Pending(m) => ~Pending(m)'
    BY <1>6
  <2>5. \A m \in Msgs : Acked(m)' => Acked(m)
    BY <1>7 DEF Acked
  <2>6. written # None =>
           /\ written \in DOMAIN log' /\ log'[written] = MessagesOf(Popped(batch))
           /\ \A m \in Msgs : Acked(m)' => receipt'[m].entry < written
    BY <2>5, <1>4, <1>7 DEF Settling, LogBehind
  <2> QED BY <2>3, <2>4, <2>6, <1>2 DEF LogBehind
<1>10. LimboOnce'
  <2>1. \A ms \in limbo' : ms \in limbo /\ ms # late
    BY <1>1
  <2>2. \A ms \in limbo' : \A i \in DOMAIN ms : \A e \in DOMAIN log' : \A j \in DOMAIN log'[e] :
           log'[e][j] # ms[i]
    <3> SUFFICES ASSUME NEW ms \in limbo', NEW i \in DOMAIN ms, NEW e \in DOMAIN log',
                        NEW j \in DOMAIN log'[e]
                 PROVE  log'[e][j] # ms[i]
      OBVIOUS
    <3>1. CASE e \in DOMAIN log
      BY <3>1, <1>4, <2>1 DEF Settling, LimboOnce
    <3>2. CASE e = n
      <4>1. log'[e] = late
        BY <3>2, <1>4
      <4> QED BY <4>1, <2>1 DEF Settling, LimboOnce
    <3> QED BY <3>1, <3>2, <1>5
  <2> QED BY <2>1, <2>2, <1>6, <1>7 DEF Settling, LimboOnce
<1> QED BY <1>9, <1>10

LEMMA SettlingStep ==
    ASSUME TypeOK, TypeOK', Ordered, Settling, Ending, ReceiptsPoint, Next
    PROVE  Settling' /\ Kept
<1>1. CASE User
  BY <1>1, UserSettles, UserLog DEF Settling
<1>2. CASE Batcher
  BY <1>2, BatcherSettles, BatcherLog DEF Settling
<1>3. CASE Sender \/ Broker
  <2>1. PendingUnsettled' /\ Kept
    BY <1>3, SenderSettles DEF Settling
  <2>2. LogBehind' /\ LimboOnce'
    <3>1. CASE TakeBatch
      BY <3>1, TakeLog
    <3>2. CASE SendEnqueued \/ SenderExits
      BY <3>2, IdleLog
    <3>3. CASE SendSucceeds
      BY <3>3, EndsLog, SucceedsLimbo DEF BatchEnds
    <3>4. CASE SendFails
      BY <3>4, EndsLog, FailsLimbo DEF BatchEnds
    <3>5. CASE BrokerWrites
      BY <3>5, WritesLog
    <3>6. CASE BrokerWritesLate
      BY <3>6, LateLog
    <3> QED BY <1>3, <3>1, <3>2, <3>3, <3>4, <3>5, <3>6 DEF Sender, Broker
  <2> QED BY <2>1, <2>2 DEF Settling
<1> QED BY <1>1, <1>2, <1>3 DEF Next

-----------------------------------------------------------------------------
(* The receipts. *)

LEMMA LogGrows ==
    ASSUME TypeOK, Ordered, Next
    PROVE  \A e \in DOMAIN log : e \in DOMAIN log' /\ log'[e] = log[e]
<1>0. log \in Seq(Seq(Msgs)) /\ Len(log) \in Nat /\ DOMAIN log = 1..Len(log)
  BY LogTypes
<1>1. ASSUME NEW x \in Seq(Msgs), log' = Append(log, x)
      PROVE  \A e \in DOMAIN log : e \in DOMAIN log' /\ log'[e] = log[e]
  BY <1>0, <1>1, AppendFacts
<1>2. CASE BrokerWrites
  BY <1>1, <1>2, BatchEntry DEF BrokerWrites
<1>3. CASE BrokerWritesLate
  BY <1>1, <1>3, LogTypes DEF BrokerWritesLate
<1>4. CASE ~Broker
  <2>1. log' = log
    BY <1>4 DEF Next, User, Batcher, Sender, Send, SendReturns, SendBatch, SendBatchReturns, Close,
         CloseReturns, SendClosed, Cancel, DropProducer, BatchItem, BatchTimeout, BatchSent, BatcherExits,
         TakeBatch, SendEnqueued, SendSucceeds, SendFails, SenderExits, brokerVars
  <2> QED BY <2>1
<1> QED BY <1>2, <1>3, <1>4 DEF Broker

LEMMA NextAcks ==
    ASSUME TypeOK, TypeOK', Ordered, Settling, Ending, Next
    PROVE  /\ \A m \in Msgs : Acked(m)' => Acked(m) \/ NewlyAcked(m)
           /\ Kept
<1>1. CASE User
  BY <1>1, UserSettles DEF Settling
<1>2. CASE Batcher
  BY <1>2, BatcherSettles DEF Settling
<1>3. CASE Sender \/ Broker
  BY <1>3, SenderSettles DEF Settling
<1> QED BY <1>1, <1>2, <1>3 DEF Next

\* A receipt that is newly given names a place of the topic.
LEMMA NewReceipt ==
    ASSUME TypeOK, Ordered, Settling, SendSucceeds, NEW m \in Held(batch)
    PROVE  /\ receipt'[m].entry = written /\ written \in DOMAIN log
           /\ receipt'[m].index = m - batch[1].id
           /\ receipt'[m].size = Len(log[written])
           /\ receipt'[m].index + 1 \in DOMAIN log[written]
           /\ log[written][receipt'[m].index + 1] = m
           /\ m \in Nat /\ batch[1].id \in Nat
<1> DEFINE ms == MessagesOf(Popped(batch))
<1>1. /\ Len(ms) = Len(Popped(batch)) /\ ms \in Seq(Msgs)
      /\ DOMAIN ms = 1..Len(Popped(batch)) /\ Len(Popped(batch)) \in Nat
      /\ \A i \in DOMAIN ms : ms[i] = batch[1].id + i - 1
      /\ \E i \in DOMAIN ms : ms[i] = m
      /\ Len(Popped(batch)) > 0
  BY BatchEntry DEF SendSucceeds
<1>2. m \in Msgs /\ m \in Nat
  BY HeldIsSent, StreamFacts DEF Settling
<1>3. receipt'[m] = Placed(written, m - batch[1].id, Len(Popped(batch)))
  BY <1>2, SucceedsSettle
<1>4. written \in DOMAIN log /\ log[written] = ms
  BY DEF SendSucceeds, Settling, LogBehind
<1> HIDE DEF ms
<1>5. PICK i \in DOMAIN ms : ms[i] = m
  BY <1>1
<1>6. batch[1].id \in Nat
  <2>1. batch \in Seq(Items) /\ Batched(batch)
    BY StreamFacts DEF Ordered, BatchesFormed
  <2>2. 1 \in 1..Len(Popped(batch))
    BY <1>1
  <2> QED BY <2>1, <2>2, BatchFacts, Bounds DEF Msgs
<1>7. m - batch[1].id + 1 = i
  <2>1. i \in Nat /\ m = batch[1].id + i - 1
    BY <1>1, <1>5
  <2> QED BY <2>1, <1>6
<1>8. /\ receipt'[m].entry = written
      /\ receipt'[m].index = m - batch[1].id
      /\ receipt'[m].size = Len(Popped(batch))
  BY <1>3 DEF Placed
<1> QED BY <1>1, <1>2, <1>4, <1>5, <1>6, <1>7, <1>8

LEMMA ReceiptsStep ==
    ASSUME TypeOK, TypeOK', Ordered, Settling, Ending, ReceiptsPoint, AckedInOrder, Next
    PROVE  ReceiptsPoint' /\ AckedInOrder'
<1>1. /\ \A m \in Msgs : Acked(m)' => Acked(m) \/ NewlyAcked(m)
      /\ \A m \in Msgs : Acked(m) => receipt'[m] = receipt[m]
  BY NextAcks DEF Kept, Acked
<1>2. \A e \in DOMAIN log : e \in DOMAIN log' /\ log'[e] = log[e]
  BY LogGrows
<1>3. ReceiptsPoint'
  <2> SUFFICES ASSUME NEW m \in Msgs, Acked(m)'
               PROVE  /\ receipt'[m].entry \in DOMAIN log'
                      /\ receipt'[m].size = Len(log'[receipt'[m].entry])
                      /\ receipt'[m].index + 1 \in DOMAIN log'[receipt'[m].entry]
                      /\ log'[receipt'[m].entry][receipt'[m].index + 1] = m
    BY DEF ReceiptsPoint
  <2>1. CASE Acked(m)
    BY <2>1, <1>1, <1>2 DEF ReceiptsPoint
  <2>2. CASE NewlyAcked(m)
    BY <2>2, <1>2, NewReceipt DEF NewlyAcked
  <2> QED BY <2>1, <2>2, <1>1
<1>4. AckedInOrder'
  <2> SUFFICES ASSUME NEW m \in Msgs, NEW n \in Msgs, m < n, Acked(m)', Acked(n)'
               PROVE  \/ receipt'[m].entry < receipt'[n].entry
                      \/ /\ receipt'[m].entry = receipt'[n].entry
                         /\ receipt'[m].index < receipt'[n].index
    BY DEF AckedInOrder
  <2>1. CASE Acked(m) /\ Acked(n)
    BY <2>1, <1>1 DEF AckedInOrder
  <2>2. CASE Acked(m) /\ NewlyAcked(n)
    <3>1. receipt[m].entry < written
      BY <2>2 DEF NewlyAcked, SendSucceeds, Settling, LogBehind
    <3> QED BY <3>1, <2>2, <1>1, NewReceipt DEF NewlyAcked
  <2>3. CASE NewlyAcked(m) /\ Acked(n)
    <3>1. n < m
      BY <2>3 DEF NewlyAcked, Pending, Settling, PendingUnsettled
    <3> QED BY <3>1, StreamFacts
  <2>4. CASE NewlyAcked(m) /\ NewlyAcked(n)
    <3>1. /\ receipt'[m].entry = written /\ receipt'[n].entry = written
          /\ receipt'[m].index = m - batch[1].id
          /\ receipt'[n].index = n - batch[1].id
          /\ m \in Nat /\ n \in Nat /\ batch[1].id \in Nat
      BY <2>4, NewReceipt DEF NewlyAcked
    <3> QED BY <3>1
  <2> QED BY <2>1, <2>2, <2>3, <2>4, <1>1
<1> QED BY <1>3, <1>4

-----------------------------------------------------------------------------
(* The calls that settle. *)

LEMMA EndingStep ==
    ASSUME TypeOK, TypeOK', Ordered, Ending, Next
    PROVE  Ending'
<1>1. CASE Send
  <2>1. UNCHANGED <<open, batcher, sender, batches>> /\ open
    BY <1>1 DEF Send, batcherVars, senderVars, Ending
  <2>2. user' = "sending"
    BY <1>1 DEF Send
  <2> QED BY <2>1, <2>2 DEF Ending
<1>2. CASE SendBatch
  <2>1. UNCHANGED <<open, batcher, sender, batches>> /\ open
    BY <1>2 DEF SendBatch, batcherVars, senderVars, Ending
  <2>2. user' = "flushing"
    BY <1>2 DEF SendBatch
  <2> QED BY <2>1, <2>2 DEF Ending
<1>3. CASE UserElsewhere
  <2>1. UNCHANGED <<batcher, sender, batches, Stream>>
    BY <1>3, UserElsewhereFrame
  <2>2. user' = "closed" => user = "closed" \/ sender = "done"
    BY <1>3 DEF UserElsewhere, SendReturns, SendBatchReturns, Close, CloseReturns, SendClosed, Cancel,
         DropProducer
  <2>3. user' \in {"closing", "closed", "abandoned", "dropped"} <=> ~open'
    BY <1>3 DEF Ending, UserElsewhere, SendReturns, SendBatchReturns, Close, CloseReturns, SendClosed,
         Cancel, DropProducer
  <2>4. open' => open
    BY <1>3, UserElsewhereFrame
  <2> QED BY <2>1, <2>2, <2>3, <2>4 DEF Ending
<1>4. CASE Batcher
  <2>1. user' = user /\ open' = open /\ sender' = sender
    BY <1>4, BatcherFrame
  <2>2. batcher' = "done" => ~open' /\ Stream' = <<>>
    <3>1. CASE BatcherExits
      <4>1. ~open
        BY <3>1 DEF BatcherExits
      <4> QED BY <3>1, <4>1, <2>1, ExitMoves
    <3>2. CASE ~BatcherExits
      <4>1. batcher' # "done"
        <5>1. CASE BatchItem
          BY <5>1 DEF BatchItem, FlushItems
        <5>2. CASE BatchTimeout
          BY <5>2 DEF BatchTimeout, FlushItems
        <5>3. CASE BatchSent
          BY <5>3 DEF BatchSent
        <5> QED BY <1>4, <3>2, <5>1, <5>2, <5>3 DEF Batcher
      <4> QED BY <4>1
    <3> QED BY <3>1, <3>2
  <2>3. batcher # "done"
    BY <1>4 DEF Batcher, BatchItem, BatchTimeout, BatchSent, BatcherExits
  <2> QED BY <2>1, <2>2, <2>3 DEF Ending
<1>5. CASE Sender \/ Broker
  <2>1. UNCHANGED <<user, open, batcher, Stream>>
    BY <1>5, SenderFrame
  <2>2. CASE SenderExits
    BY <2>1, <2>2 DEF Ending, SenderExits
  <2>3. CASE ~SenderExits
    <3>1. sender' # "done" \/ (sender' = sender /\ batches' = batches)
      BY <1>5, <2>3 DEF Sender, Broker, TakeBatch, SendEnqueued, SendSucceeds, SendFails,
           BrokerWrites, BrokerWritesLate, senderVars
    <3>2. sender = "done" => sender' = "done"
      BY <1>5, <2>3 DEF Sender, Broker, TakeBatch, SendEnqueued, SendSucceeds, SendFails,
           BrokerWrites, BrokerWritesLate, senderVars
    <3> QED BY <2>1, <3>1, <3>2 DEF Ending
  <2> QED BY <2>2, <2>3
<1> QED BY <1>1, <1>2, <1>3, <1>4, <1>5 DEF Next, User, UserElsewhere

\* Once close has returned nothing is pending.
LEMMA ClosedIsSettled ==
    ASSUME TypeOK, Ordered, Settling, Ending
    PROVE  CloseSettles
<1> SUFFICES ASSUME user = "closed", NEW m \in 1..sent PROVE receipt[m] # None
  BY DEF CloseSettles
<1>1. Stream = <<>> /\ batches = <<>> /\ batch = <<>>
  BY DEF Ending, Ordered, BatchesFormed
<1>2. ~Pending(m)
  BY <1>1, HeldEmpty DEF Pending
<1>3. m \in Msgs /\ m <= sent
  BY Bounds DEF TypeOK, Msgs
<1> QED BY <1>2, <1>3 DEF Settling, PendingUnsettled

\* Where the Flush of the user is, once it is out of the stream.
FlushesKnown ==
    /\ \A i \in DOMAIN Stream : Stream[i].type = "flush" => Stream[i].id <= flushes
    /\ \A b \in DOMAIN batches : HasFlush(batches[b]) =>
          batches[b][Len(batches[b])].id <= flushes
    /\ HasFlush(batch) => batch[Len(batch)].id <= flushes

FlushWaits ==
    /\ flushes \in answered => \A m \in Msgs : ~Pending(m)
    /\ FlushIn(batch, flushes) => batches = <<>> /\ Stream = <<>>
    /\ \A b \in DOMAIN batches : FlushIn(batches[b], flushes) =>
          b = Len(batches) /\ Stream = <<>>
    /\ \A i \in DOMAIN Stream :
          Stream[i].type = "flush" /\ Stream[i].id = flushes => i = Len(Stream)

LEMMA FlushParts == FlushLast <=> FlushesKnown /\ (user = "flushing" => FlushWaits)
BY DEF FlushLast, FlushesKnown, FlushWaits

LEMMA StreamSeq ==
    ASSUME TypeOK
    PROVE  Stream \in Seq(Items) /\ Len(Stream) \in Nat /\ DOMAIN Stream = 1..Len(Stream)
<1>1. Stream \in Seq(Items)
  BY StreamFacts
<1> QED BY <1>1

LEMMA UserFlush ==
    ASSUME TypeOK, Ordered, Settling, Ending, FlushLast, User
    PROVE  FlushLast'
<1>0. FlushesKnown /\ Stream \in Seq(Items) /\ Len(Stream) \in Nat /\ DOMAIN Stream = 1..Len(Stream)
  BY FlushParts, StreamSeq
<1>1. CASE Send
  <2>1. batches' = batches /\ batch' = batch /\ flushes' = flushes /\ user' # "flushing"
    BY <1>1 DEF Send, senderVars
  <2>2. Stream' = Append(Stream, Single(sent + 1)) /\ Single(sent + 1) \in Items
    <3>1. sent + 1 \in Msgs
      BY <1>1, Bounds DEF Send, TypeOK, Msgs
    <3> QED BY <3>1, <1>1, SendOrdered, ItemFacts DEF Settling
  <2>3. Single(sent + 1).type # "flush"
    BY DEF Single
  <2>4. \A i \in DOMAIN Stream' : Stream'[i].type = "flush" => Stream'[i].id <= flushes
    <3>1. /\ DOMAIN Stream' = 1..(Len(Stream) + 1)
          /\ \A i \in DOMAIN Stream : Stream'[i] = Stream[i]
          /\ Stream'[Len(Stream) + 1] = Single(sent + 1)
      BY <2>2, <1>0, AppendFacts
    <3>2. \A i \in DOMAIN Stream' : i \in DOMAIN Stream \/ i = Len(Stream) + 1
      BY <3>1, <1>0
    <3> QED BY <3>1, <3>2, <2>3, <1>0 DEF FlushesKnown
  <2> QED BY <2>1, <2>4, <1>0 DEF FlushLast, FlushesKnown
<1>2. CASE SendBatch
  <2> DEFINE k == flushes + 1
  <2>1. batches' = batches /\ batch' = batch /\ flushes' = k /\ answered' = answered
    BY <1>2 DEF SendBatch, senderVars
  <2>2. Stream' = Append(Stream, Flush(k)) /\ Flush(k) \in Items
    <3>1. k \in 1..MaxFlushes
      BY <1>2, Bounds DEF SendBatch, TypeOK
    <3> QED BY <3>1, <1>2, SendBatchOrdered, ItemFacts
  <2>3. Flush(k).id = k
    BY DEF Flush
  <2>4. flushes \in Nat
    BY StreamFacts
  <2>5. /\ DOMAIN Stream' = 1..(Len(Stream) + 1) /\ Len(Stream') = Len(Stream) + 1
        /\ \A i \in DOMAIN Stream : Stream'[i] = Stream[i]
        /\ Stream'[Len(Stream) + 1] = Flush(k)
    BY <2>2, <1>0, AppendFacts
  <2>6. \A i \in DOMAIN Stream' : i \in DOMAIN Stream \/ i = Len(Stream) + 1
    BY <2>5, <1>0
  <2>7. /\ \A i \in DOMAIN Stream : Stream[i].type = "flush" =>
              Stream[i].id \in Nat /\ Stream[i].id <= flushes
        /\ \A b \in DOMAIN batches : HasFlush(batches[b]) =>
              batches[b][Len(batches[b])].id \in Nat /\ batches[b][Len(batches[b])].id <= flushes
        /\ HasFlush(batch) => batch[Len(batch)].id \in Nat /\ batch[Len(batch)].id <= flushes
    <3>1. \A x \in Items : x.type = "flush" => x.id \in Nat
      BY DEF Items
    <3>2. \A s \in Seq(Items) : \A i \in DOMAIN s : s[i] \in Items
      OBVIOUS
    <3>3. \A s \in Seq(Items) : HasFlush(s) => s[Len(s)].id \in Nat
      <4> SUFFICES ASSUME NEW s \in Seq(Items), HasFlush(s) PROVE s[Len(s)].id \in Nat
        OBVIOUS
      <4>1. s # <<>> /\ s[Len(s)].type = "flush"
        BY DEF HasFlush
      <4>2. Len(s) \in DOMAIN s
        BY <4>1
      <4> QED BY <4>1, <4>2, <3>1, <3>2
    <3> QED BY <1>0, <3>1, <3>2, <3>3, StreamFacts DEF FlushesKnown
  <2>8. \A n \in Nat : n <= flushes => n <= k /\ n # k
    BY <2>4
  <2> HIDE DEF k
  <2>9. FlushesKnown'
    <3>1. \A i \in DOMAIN Stream' : Stream'[i].type = "flush" => Stream'[i].id <= k
      <4>1. k <= k
        BY <2>4 DEF k
      <4> QED BY <4>1, <2>3, <2>5, <2>6, <2>7, <2>8
    <3> QED BY <3>1, <2>1, <2>7, <2>8 DEF FlushesKnown
  <2>10. FlushWaits'
    <3>1. k \notin answered
      BY <2>4 DEF TypeOK, k
    <3>2. ~FlushIn(batch, k) /\ \A b \in DOMAIN batches : ~FlushIn(batches[b], k)
      BY <2>7, <2>8 DEF FlushIn
    <3>3. \A i \in DOMAIN Stream' : Stream'[i].type = "flush" /\ Stream'[i].id = k => i = Len(Stream')
      BY <2>5, <2>6, <2>7, <2>8
    <3> QED BY <3>1, <3>2, <3>3, <2>1 DEF FlushWaits
  <2> QED BY <2>9, <2>10 DEF FlushLast, FlushesKnown, FlushWaits
<1>3. CASE UserElsewhere
  <2>1. UNCHANGED <<batches, batch, flushes, Stream>>
    BY <1>3, UserElsewhereFrame
  <2>2. user' # "flushing"
    BY <1>3 DEF UserElsewhere, SendReturns, SendBatchReturns, Close, CloseReturns, SendClosed, Cancel,
         DropProducer
  <2> QED BY <2>1, <2>2 DEF FlushLast
<1> QED BY <1>1, <1>2, <1>3 DEF User, UserElsewhere

LEMMA BatcherFlush ==
    ASSUME TypeOK, TypeOK', Ordered, Settling, FlushLast, Batcher
    PROVE  FlushLast'
<1>0. UNCHANGED <<user, flushes, batch, answered>>
  BY BatcherFrame
<1>1. \A m \in Msgs : Pending(m)' => Pending(m)
  BY PendingBatcher
<1>2. CASE Stays
  BY <1>0, <1>1, <1>2 DEF Stays, FlushLast
<1>3. CASE Stream' = <<>> /\ batches' = batches
  <2>1. DOMAIN <<>> = {}
    OBVIOUS
  <2> QED BY <1>0, <1>1, <1>3, <2>1 DEF FlushLast
<1>4. CASE Cuts
  <2>1. PICK items \in Seq(Items) :
           /\ items # <<>> /\ Batched(items)
           /\ batches' = Append(batches, items)
           /\ Stream = items \o Stream'
    BY <1>4 DEF Cuts
  <2>2. /\ DOMAIN batches' = 1..(Len(batches) + 1) /\ Len(batches') = Len(batches) + 1
        /\ \A b \in DOMAIN batches : batches'[b] = batches[b]
        /\ batches'[Len(batches) + 1] = items
    BY <2>1, CutMoves
  <2>3. \A b \in DOMAIN batches' : b \in DOMAIN batches \/ b = Len(batches) + 1
    <3>1. Len(batches) \in Nat /\ DOMAIN batches = 1..Len(batches)
      BY StreamFacts
    <3> QED BY <2>2, <3>1
  <2>4. Stream' \in Seq(Items)
    <3>1. storage' \in Seq(Items) /\ channel' \in Seq(Items)
      BY DEF TypeOK
    <3> QED BY <3>1, ConcatFacts DEF Stream
  <2>5. /\ Len(items) \in Nat /\ DOMAIN items = 1..Len(items) /\ Len(items) > 0
        /\ Len(Stream') \in Nat /\ DOMAIN Stream' = 1..Len(Stream')
        /\ Len(Stream) = Len(items) + Len(Stream')
        /\ DOMAIN Stream = 1..(Len(items) + Len(Stream'))
        /\ \A i \in DOMAIN items : Stream[i] = items[i]
        /\ \A i \in DOMAIN Stream' : Stream[Len(items) + i] = Stream'[i]
    <3>1. Len(items) > 0
      BY <2>1
    <3> QED BY <2>1, <2>4, <3>1, ConcatFacts
  <2>6. Stream # <<>>
    <3>1. Len(Stream) > 0
      BY <2>5
    <3> QED BY <3>1
  <2>7. /\ Len(items) \in DOMAIN Stream /\ Stream[Len(items)] = items[Len(items)]
        /\ \A i \in DOMAIN Stream' : Len(items) + i \in DOMAIN Stream
    BY <2>5
  <2>8. FlushesKnown'
    <3>1. \A i \in DOMAIN Stream' : Stream'[i].type = "flush" => Stream'[i].id <= flushes
      BY <2>5, <2>7 DEF FlushLast
    <3>2. HasFlush(items) => items[Len(items)].id <= flushes
      BY <2>7 DEF HasFlush, FlushLast
    <3>3. \A b \in DOMAIN batches' : HasFlush(batches'[b]) => batches'[b][Len(batches'[b])].id <= flushes
      BY <3>2, <2>2, <2>3 DEF FlushLast
    <3> QED BY <3>1, <3>3, <1>0 DEF FlushesKnown, FlushLast
  <2>9. ASSUME user = "flushing" PROVE FlushWaits'
    <3>1. /\ ~FlushIn(batch, flushes)
          /\ \A b \in DOMAIN batches : ~FlushIn(batches[b], flushes)
      BY <2>9, <2>6 DEF FlushLast
    <3>2. FlushIn(items, flushes) => Stream' = <<>>
      <4> SUFFICES ASSUME FlushIn(items, flushes) PROVE Stream' = <<>>
        OBVIOUS
      <4>1. Stream[Len(items)].type = "flush" /\ Stream[Len(items)].id = flushes
        BY <2>7 DEF FlushIn, HasFlush
      <4>2. Len(items) = Len(Stream)
        BY <4>1, <2>7, <2>9 DEF FlushLast
      <4>3. Len(Stream') = 0
        BY <4>2, <2>5
      <4> QED BY <4>3, <2>4
    <3>3. \A b \in DOMAIN batches' : FlushIn(batches'[b], flushes) => b = Len(batches') /\ Stream' = <<>>
      BY <3>1, <3>2, <2>2, <2>3
    <3>4. \A i \in DOMAIN Stream' :
             Stream'[i].type = "flush" /\ Stream'[i].id = flushes => i = Len(Stream')
      <4> SUFFICES ASSUME NEW i \in DOMAIN Stream', Stream'[i].type = "flush", Stream'[i].id = flushes
                   PROVE  i = Len(Stream')
        OBVIOUS
      <4>1. Len(items) + i = Len(Stream)
        BY <2>5, <2>7, <2>9 DEF FlushLast
      <4> QED BY <4>1, <2>5
    <3>5. flushes \in answered => \A m \in Msgs : ~Pending(m)'
      BY <1>1, <2>9 DEF FlushLast
    <3> QED BY <3>1, <3>3, <3>4, <3>5, <1>0 DEF FlushWaits
  <2> QED BY <2>8, <2>9, <1>0 DEF FlushLast, FlushesKnown, FlushWaits
<1> QED BY <1>2, <1>3, <1>4, BatcherMoves

LEMMA TakeFlush ==
    ASSUME TypeOK, TypeOK', Ordered, Settling, FlushLast, TakeBatch
    PROVE  FlushLast'
<1>0. UNCHANGED <<user, flushes, Stream>>
  BY SenderFrame DEF Sender
<1>1. /\ batch = <<>> /\ batches # <<>> /\ batches[1] \in Seq(Items)
      /\ DOMAIN batches' = 1..(Len(batches) - 1) /\ 1 \in DOMAIN batches
      /\ Len(batches') = Len(batches) - 1
      /\ \A b \in DOMAIN batches' : b + 1 \in DOMAIN batches /\ batches'[b] = batches[b + 1]
      /\ \/ /\ Held(batches[1]) = {}
            /\ AnswerFlush(batches[1])
            /\ UNCHANGED <<sender, batch, written>>
         \/ /\ Popped(batches[1]) # <<>>
            /\ sender' = "send" /\ batch' = batches[1] /\ written' = None
            /\ answered' = answered
  BY TakeMoves
<1>2. ~HasFlush(<<>>)
  BY DEF HasFlush
<1>3. \A m \in Msgs : Pending(m)' => Pending(m)
  BY SenderKeeps DEF Sender
<1>4. \A b \in DOMAIN batches' : b \in Nat
  BY <1>1, StreamFacts
<1>5. FlushesKnown'
  <2>1. HasFlush(batch') => batch'[Len(batch')].id <= flushes
    BY <1>1, <1>2 DEF FlushLast
  <2> QED BY <2>1, <1>0, <1>1 DEF FlushLast, FlushesKnown
<1>6. ASSUME user = "flushing" PROVE FlushWaits'
  <2>1. FlushWaits
    BY <1>6, FlushParts
  <2>2. FlushIn(batches[1], flushes) => batches' = <<>> /\ Stream = <<>>
    <3>1. FlushIn(batches[1], flushes) => Len(batches) = 1 /\ Stream = <<>>
      BY <2>1, <1>1 DEF FlushWaits
    <3>2. Len(batches) = 1 => batches' = <<>>
      <4>1. batches' \in Seq(Seq(Items))
        BY StreamFacts DEF TypeOK
      <4> QED BY <4>1, <1>1
    <3> QED BY <3>1, <3>2
  <2>3. \A b \in DOMAIN batches' : FlushIn(batches'[b], flushes) => b = Len(batches') /\ Stream = <<>>
    <3> SUFFICES ASSUME NEW b \in DOMAIN batches', FlushIn(batches'[b], flushes)
                 PROVE  b = Len(batches') /\ Stream = <<>>
      OBVIOUS
    <3>1. b + 1 = Len(batches) /\ Stream = <<>>
      BY <2>1, <1>1 DEF FlushWaits
    <3> QED BY <3>1, <1>1, <1>4
  <2>4. FlushIn(batch', flushes) => batches' = <<>> /\ Stream = <<>>
    BY <2>2, <1>1, <1>2 DEF FlushIn
  <2>5. flushes \in answered' => \A m \in Msgs : ~Pending(m)'
    <3>1. CASE flushes \in answered
      BY <3>1, <2>1, <1>3 DEF FlushWaits
    <3>2. CASE flushes \notin answered /\ flushes \in answered'
      <4>1. /\ AnswerFlush(batches[1]) /\ batch' = <<>>
        BY <3>2, <1>1
      <4>2. FlushIn(batches[1], flushes)
        BY <3>2, <4>1 DEF AnswerFlush, FlushIn
      <4>3. batches' = <<>> /\ Stream' = <<>> /\ batch' = <<>>
        BY <4>1, <4>2, <2>2, <1>0
      <4> QED BY <4>3, HeldEmpty DEF Pending
    <3> QED BY <3>1, <3>2
  <2> QED BY <2>1, <2>3, <2>4, <2>5, <1>0 DEF FlushWaits
<1> QED BY <1>0, <1>5, <1>6 DEF FlushLast, FlushesKnown, FlushWaits

LEMMA SenderFlush ==
    ASSUME TypeOK, TypeOK', Ordered, Settling, FlushLast, Sender \/ Broker
    PROVE  FlushLast'
<1>0. UNCHANGED <<user, flushes, Stream>>
  BY SenderFrame
<1>1. \A m \in Msgs : Pending(m)' => Pending(m)
  BY SenderKeeps
<1>2. CASE TakeBatch
  BY <1>2, TakeFlush
<1>3. CASE SendEnqueued \/ SenderExits \/ Broker
  <2>1. UNCHANGED <<batch, batches, answered>>
    BY <1>3 DEF SendEnqueued, SenderExits, Broker, BrokerWrites, BrokerWritesLate, senderVars
  <2> QED BY <2>1, <1>0, <1>1 DEF FlushLast
<1>4. CASE BatchEnds
  <2>1. batch' = <<>> /\ batches' = batches /\ AnswerFlush(batch)
    BY <1>4 DEF BatchEnds, SendSucceeds, SendFails
  <2>2. ~HasFlush(<<>>)
    BY DEF HasFlush
  <2>3. FlushesKnown'
    BY <2>1, <2>2, <1>0 DEF FlushLast, FlushesKnown
  <2>4. ASSUME user = "flushing" PROVE FlushWaits'
    <3>1. FlushWaits
      BY <2>4, FlushParts
    <3>2. flushes \in answered' => \A m \in Msgs : ~Pending(m)'
      <4>1. CASE flushes \in answered
        BY <4>1, <3>1, <1>1 DEF FlushWaits
      <4>2. CASE flushes \notin answered /\ flushes \in answered'
        <5>1. FlushIn(batch, flushes)
          BY <4>2, <2>1 DEF AnswerFlush, FlushIn
        <5>2. batches' = <<>> /\ Stream' = <<>> /\ batch' = <<>>
          BY <5>1, <3>1, <2>1, <1>0 DEF FlushWaits
        <5> QED BY <5>2, HeldEmpty DEF Pending
      <4> QED BY <4>1, <4>2
    <3> QED BY <3>1, <3>2, <2>1, <2>2, <1>0 DEF FlushWaits, FlushIn
  <2> QED BY <2>3, <2>4, <1>0 DEF FlushLast, FlushesKnown, FlushWaits
<1> QED BY <1>2, <1>3, <1>4 DEF Sender, BatchEnds

\* What send_batch has returned for stays settled.
LEMMA FlushSettlesStep ==
    ASSUME TypeOK, Ordered, Settling, FlushLast, FlushSettles, Kept, Next
    PROVE  FlushSettles'
<1>0. \A m \in 1..sent : m \in Msgs /\ m <= sent
  BY Bounds DEF TypeOK, Msgs
<1>1. CASE SendBatchReturns
  <2>1. flushed' = sent /\ \A m \in Msgs : ~Pending(m)
    BY <1>1 DEF SendBatchReturns, FlushLast
  <2>2. \A m \in 1..sent : receipt[m] # None
    BY <2>1, <1>0 DEF Settling, PendingUnsettled
  <2>3. receipt' = receipt
    BY <1>1 DEF SendBatchReturns
  <2> QED BY <2>1, <2>2, <2>3 DEF FlushSettles
<1>2. CASE ~SendBatchReturns
  <2>1. flushed' = flushed
    BY <1>2 DEF Next, User, Batcher, Sender, Broker, Send, SendReturns, SendBatch, Close,
         CloseReturns, SendClosed, Cancel, DropProducer, BatchItem, BatchTimeout, BatchSent, BatcherExits,
         TakeBatch, SendEnqueued, SendSucceeds, SendFails, SenderExits, BrokerWrites, BrokerWritesLate,
         userVars
  <2>2. \A m \in 1..flushed : m \in Msgs
    <3>1. flushed \in 0..sent /\ sent \in 0..MaxMsgs
      BY DEF TypeOK
    <3> QED BY <3>1, Bounds DEF Msgs
  <2> QED BY <2>1, <2>2 DEF FlushSettles, Kept
<1> QED BY <1>1, <1>2

-----------------------------------------------------------------------------
(* The invariant holds. *)

LEMMA InitInv == Init => Inv
<1> SUFFICES ASSUME Init PROVE Inv
  OBVIOUS
<1>1. /\ user = "ready" /\ sent = 0 /\ flushes = 0 /\ open = TRUE /\ flushed = 0
      /\ channel = <<>> /\ batcher = "recv" /\ storage = <<>> /\ size = 0 /\ timer = FALSE
      /\ batches = <<>> /\ sender = "recv" /\ batch = <<>> /\ written = None
      /\ receipt = [m \in Msgs |-> None] /\ answered = {} /\ log = <<>> /\ limbo = {}
  BY DEF Init
<1>2. Stream = <<>>
  <2>1. <<>> \o <<>> = <<>>
    OBVIOUS
  <2> QED BY <2>1, <1>1 DEF Stream
<1>3. DOMAIN <<>> = {} /\ Len(<<>>) = 0
  OBVIOUS
<1>4. \A m \in Msgs : receipt[m] = None /\ ~Acked(m) /\ m \in Nat /\ m > 0
  BY <1>1, Bounds DEF Acked, Msgs
<1>5. TypeOK
  <2>1. <<>> \in Seq(Items) /\ <<>> \in Seq(Seq(Items)) /\ <<>> \in Seq(Seq(Msgs))
    OBVIOUS
  <2>2. receipt \in [Msgs -> Receipts]
    BY <1>1 DEF Receipts
  <2>3. open \in BOOLEAN /\ timer \in BOOLEAN
    BY <1>1, Zenon
  <2>4. /\ sent \in 0..MaxMsgs /\ flushes \in 0..MaxFlushes /\ flushed \in 0..sent
        /\ Len(channel) <= MsgCap + 1 /\ Len(batches) <= BatchCap + 1
    BY <1>1, <1>3, Bounds
  <2>5. answered \subseteq 1..flushes /\ limbo \subseteq Seq(Msgs)
    BY <1>1
  <2> QED BY <1>1, <2>1, <2>2, <2>3, <2>4, <2>5 DEF TypeOK
<1>6. Room
  BY <1>1, <1>3, Bounds DEF Room
<1>7. Ordered
  <2>1. BatchesFormed
    BY <1>1, <1>3 DEF BatchesFormed, Batched, HasFlush
  <2>2. StreamInOrder
    BY <1>2, <1>3, HeldEmpty DEF StreamInOrder, Increasing, Gapless
  <2>3. BatchesInOrder
    BY <1>1, <1>2, <1>3, HeldEmpty DEF BatchesInOrder
  <2> QED BY <2>1, <2>2, <2>3 DEF Ordered
<1>8. Settling
  <2>1. \A m \in Msgs : ~Pending(m)
    BY <1>1, <1>2, <1>3, HeldEmpty DEF Pending
  <2>2. \A m \in Msgs : ~(m <= sent)
    BY <1>1, <1>4
  <2>3. PendingUnsettled
    BY <2>1, <2>2, <1>4 DEF PendingUnsettled
  <2>4. LogBehind
    BY <1>1, <1>3 DEF LogBehind
  <2>5. LimboOnce
    BY <1>1 DEF LimboOnce
  <2> QED BY <2>3, <2>4, <2>5 DEF Settling
<1>9. ReceiptsPoint /\ AckedInOrder
  BY <1>4 DEF ReceiptsPoint, AckedInOrder
<1>10. FlushLast
  BY <1>1, <1>2, <1>3 DEF FlushLast, HasFlush
<1>11. Ending
  BY <1>1 DEF Ending
<1>12. FlushSettles
  BY <1>1 DEF FlushSettles
<1> QED BY <1>5, <1>6, <1>7, <1>8, <1>9, <1>10, <1>11, <1>12 DEF Inv

LEMMA NextInv == Inv /\ Next => Inv'
<1> SUFFICES ASSUME Inv, Next PROVE Inv'
  OBVIOUS
<1>0. /\ TypeOK /\ Room /\ Ordered /\ Settling
      /\ ReceiptsPoint /\ AckedInOrder
      /\ FlushLast /\ Ending /\ FlushSettles
      /\ BatchesFormed /\ PendingUnsettled
  BY DEF Inv, Ordered, Settling
<1>1. TypeOK' /\ Room'
  BY <1>0, UserType, BatcherType, SenderType, BrokerType DEF Next
<1>2. Ordered'
  <2>1. CASE User
    <3>1. CASE UserElsewhere
      BY <1>0, <3>1, ElsewhereOrdered
    <3> QED BY <1>0, <2>1, <3>1, SendOrdered, SendBatchOrdered DEF User, UserElsewhere
  <2>2. CASE Batcher
    BY <1>0, <1>1, <2>2, BatcherOrdered
  <2>3. CASE Sender \/ Broker
    BY <1>0, <2>3, SenderOrdered
  <2> QED BY <2>1, <2>2, <2>3 DEF Next
<1>3. Settling' /\ Kept
  BY <1>0, <1>1, SettlingStep
<1>4. ReceiptsPoint' /\ AckedInOrder'
  BY <1>0, <1>1, ReceiptsStep
<1>5. FlushLast'
  BY <1>0, <1>1, UserFlush, BatcherFlush, SenderFlush DEF Next
<1>6. Ending'
  BY <1>0, <1>1, EndingStep
<1>7. FlushSettles'
  BY <1>0, <1>3, FlushSettlesStep
<1> QED BY <1>1, <1>2, <1>3, <1>4, <1>5, <1>6, <1>7 DEF Inv

LEMMA StutterInv == Inv /\ UNCHANGED vars => Inv'
<1> SUFFICES ASSUME Inv, UNCHANGED vars PROVE Inv'
  OBVIOUS
<1> USE DEF vars, userVars, batcherVars, senderVars, brokerVars
<1>1. Stream' = Stream
  BY DEF Stream
<1>2. TypeOK' /\ Room' /\ ReceiptsPoint' /\ AckedInOrder' /\ FlushSettles'
  BY DEF Inv, TypeOK, Room, ReceiptsPoint, AckedInOrder, FlushSettles, Acked
<1>3. Ordered'
  BY <1>1 DEF Inv, Ordered, BatchesFormed, StreamInOrder, BatchesInOrder
<1>4. \A m \in Msgs : (Pending(m)' <=> Pending(m)) /\ (Acked(m)' <=> Acked(m))
  BY <1>1 DEF Pending, Acked
<1>5. PendingUnsettled' /\ LimboOnce'
  BY <1>4 DEF Inv, Settling, PendingUnsettled, LimboOnce
<1>6. LogBehind'
  <2>1. \A e \in DOMAIN log : \A i \in DOMAIN log[e] : log[e][i] \in Msgs
    BY LogTypes DEF Inv
  <2> QED BY <2>1, <1>4 DEF Inv, Settling, LogBehind
<1>7. FlushLast' /\ Ending'
  BY <1>1, <1>4 DEF Inv, FlushLast, Ending
<1> QED BY <1>2, <1>3, <1>5, <1>6, <1>7 DEF Inv, Settling

LEMMA InvAlways == Spec => []Inv
<1>1. Inv /\ [Next]_vars => Inv'
  BY NextInv, StutterInv
<1> QED BY InitInv, <1>1, PTL DEF Spec

(* Receipts of message_send_loop are true: the entry, the batch_index and   *)
(* the batch_size a message is told are where the broker has it, and what   *)
(* is acknowledged is in the topic in the order of the calls of send, for   *)
(* every size of batches and channels, whatever fails in between.           *)
THEOREM ReceiptsAlwaysTrue == Spec => []ReceiptsTrue
<1>1. Inv => ReceiptsTrue
  BY DEF Inv, ReceiptsTrue
<1> QED BY <1>1, InvAlways, PTL

(* When send_batch or close returns, every message sent before it has its   *)
(* receipt, its error or its refusal, although the flush oneshot may only   *)
(* have been dropped with a batch that failed.                              *)
THEOREM CallsAlwaysSettle == Spec => []CallsSettle
<1>1. Inv => CallsSettle
  BY ClosedIsSettled DEF Inv, CallsSettle
<1> QED BY <1>1, InvAlways, PTL

-----------------------------------------------------------------------------
(* The promise of ProducerLog. *)

\* The messages of a batch are an interval.
LEMMA Interval ==
    ASSUME NEW b \in Seq(Items), Batched(b), Popped(b) # <<>>
    PROVE  LET first == b[1].id
               last  == b[1].id + Len(Popped(b)) - 1
           IN  /\ first \in Msgs /\ last \in Msgs /\ first <= last
               /\ \A m : m \in Held(b) <=> m \in first..last
               /\ MessagesOf(Popped(b)) = [i \in 1..(last - first + 1) |-> first + i - 1]
<1> DEFINE n == Len(Popped(b))
           first == b[1].id
           last == b[1].id + n - 1
<1>1. /\ n \in Nat /\ n > 0
      /\ \A i \in 1..n : b[i].id \in Msgs /\ b[i].id \in Held(b) /\ b[i].id = first + i - 1
      /\ MessagesOf(Popped(b)) = [i \in 1..n |-> b[i].id]
      /\ \A m \in Held(b) : \E i \in 1..n : b[i].id = m
  BY BatchFacts
<1> HIDE DEF n
<1>2. 1 \in 1..n /\ n \in 1..n
  BY <1>1
<1>3. first \in Msgs /\ b[n].id \in Msgs /\ b[n].id = last
  BY <1>1, <1>2
<1> HIDE DEF first
<1>4. first \in Nat /\ last \in Nat /\ first <= last
  BY <1>1, <1>3, Bounds DEF Msgs
<1>5. ASSUME NEW m \in Held(b) PROVE m \in first..last
  <2>1. PICK i \in 1..n : b[i].id = m
    BY <1>1
  <2>2. m = first + i - 1
    BY <2>1, <1>1
  <2> QED BY <2>2, <1>1, <1>4
<1>6. ASSUME NEW m \in first..last PROVE m \in Held(b)
  <2>1. m - first + 1 \in 1..n /\ first + (m - first + 1) - 1 = m
    BY <1>1, <1>4
  <2> DEFINE i == m - first + 1
  <2>2. b[i].id \in Held(b) /\ b[i].id = first + i - 1
    BY <2>1, <1>1
  <2> QED BY <2>1, <2>2
<1>7. last - first + 1 = n
  BY <1>1, <1>4
<1>8. MessagesOf(Popped(b)) = [i \in 1..n |-> first + i - 1]
  BY <1>1
<1> HIDE DEF last
<1>9. /\ first \in Msgs /\ last \in Msgs /\ first <= last
      /\ \A m : m \in Held(b) <=> m \in first..last
      /\ MessagesOf(Popped(b)) = [i \in 1..(last - first + 1) |-> first + i - 1]
  BY <1>3, <1>4, <1>5, <1>6, <1>7, <1>8 DEF last
<1> QED BY <1>9 DEF first, last, n

\* An interval of unsettled messages fails.
LEMMA Rejects ==
    ASSUME TypeOK, TypeOK', NEW first \in Msgs, NEW last \in Msgs, first <= last, last <= sent',
           NEW why \in {"closed", "error"}, sent' \in {sent, sent + 1}, log' = log,
           \A m \in first..last : receipt[m] = None,
           receipt' = [m \in Msgs |-> IF m \in first..last THEN Failed(why) ELSE receipt[m]]
    PROVE  Promise!Reject
<1>1. first \in 1..sent' /\ last \in first..sent'
  BY Bounds DEF TypeOK, Msgs
<1>2. receipt' = [m \in 1..MaxMsgs |->
                    IF m \in first..last
                    THEN [result |-> why, entry |-> 0, index |-> 0, size |-> 0]
                    ELSE receipt[m]]
  BY DEF Msgs, Failed
<1>3. \E w \in {"closed", "error"}, f \in 1..sent' : \E l \in f..sent' :
         /\ \A m \in f..l : receipt[m] = None
         /\ receipt' = [m \in 1..MaxMsgs |->
               IF m \in f..l
               THEN [result |-> w, entry |-> 0, index |-> 0, size |-> 0]
               ELSE receipt[m]]
  BY <1>1, <1>2
<1> QED BY <1>3 DEF Promise!Reject

\* A batch fails as a whole.
LEMMA BatchRejects ==
    ASSUME TypeOK, TypeOK', NEW b \in Seq(Items), Batched(b), NEW why \in {"closed", "error"},
           sent' = sent, log' = log,
           \A m \in Held(b) : m <= sent /\ receipt[m] = None,
           Settle(MessagesOf(Popped(b)), Failed(why))
    PROVE  Promise!Reject \/ UNCHANGED Promise!vars
<1>1. receipt' = [m \in Msgs |-> IF m \in Held(b) THEN Failed(why) ELSE receipt[m]]
  BY SettleFacts
<1>2. CASE Popped(b) = <<>>
  <2>1. Held(b) = {}
    BY <1>2, BatchFacts
  <2>2. receipt' = receipt
    BY <1>1, <2>1 DEF TypeOK
  <2> QED BY <2>2 DEF Promise!vars
<1>3. CASE Popped(b) # <<>>
  <2>1. PICK first \in Msgs, last \in Msgs :
           first <= last /\ \A m : m \in Held(b) <=> m \in first..last
    BY <1>3, Interval
  <2>2. last \in first..last
    BY <2>1, Bounds DEF Msgs
  <2>3. last <= sent' /\ \A m \in first..last : receipt[m] = None
    BY <2>1, <2>2
  <2>4. receipt' = [m \in Msgs |-> IF m \in first..last THEN Failed(why) ELSE receipt[m]]
    BY <1>1, <2>1
  <2> QED BY <2>1, <2>3, <2>4, Rejects
<1> QED BY <1>2, <1>3

\* An entry is written, and only once.
LEMMA Writes ==
    ASSUME TypeOK, NEW first \in Msgs, NEW last \in Msgs, first <= last, last <= sent,
           \A e \in DOMAIN log : \A i \in DOMAIN log[e] : log[e][i] \notin first..last,
           log' = Append(log, [i \in 1..(last - first + 1) |-> first + i - 1]),
           UNCHANGED <<sent, receipt>>
    PROVE  Promise!Write
<1>1. first \in 1..sent /\ last \in first..sent
  BY Bounds DEF TypeOK, Msgs
<1>2. first..last \cap Promise!Logged = {}
  BY DEF Promise!Logged
<1> QED BY <1>1, <1>2 DEF Promise!Write

LEMMA SucceedsImplements ==
    ASSUME Inv, SendSucceeds
    PROVE  Promise!Acknowledge
<1> DEFINE ms == MessagesOf(Popped(batch))
<1>0. TypeOK /\ Ordered /\ Settling
  BY DEF Inv
<1>1. /\ written \in DOMAIN log /\ log[written] = ms
  BY <1>0 DEF SendSucceeds, Settling, LogBehind
<1>2. /\ Len(ms) = Len(Popped(batch))
      /\ \A i \in DOMAIN ms : ms[i] \in Held(batch)
  BY <1>0, BatchEntry
<1>3. receipt' = [m \in Msgs |->
              IF \E i \in DOMAIN ms : ms[i] = m
              THEN Placed(written, (CHOOSE i \in DOMAIN ms : ms[i] = m) - 1, Len(Popped(batch)))
              ELSE receipt[m]]
  BY DEF SendSucceeds
<1> HIDE DEF ms
<1>4. receipt' = [m \in 1..MaxMsgs |->
              IF \E i \in DOMAIN log[written] : log[written][i] = m
              THEN [result |-> "ok", entry |-> written, size |-> Len(log[written]),
                    index |-> (CHOOSE i \in DOMAIN log[written] : log[written][i] = m) - 1]
              ELSE receipt[m]]
  <2>1. \A m : Placed(written, (CHOOSE i \in DOMAIN ms : ms[i] = m) - 1, Len(Popped(batch))) =
               [result |-> "ok", entry |-> written, size |-> Len(ms),
                index |-> (CHOOSE i \in DOMAIN ms : ms[i] = m) - 1]
    BY <1>2 DEF Placed
  <2>2. receipt' = [m \in 1..MaxMsgs |->
              IF \E i \in DOMAIN ms : ms[i] = m
              THEN [result |-> "ok", entry |-> written, size |-> Len(ms),
                    index |-> (CHOOSE i \in DOMAIN ms : ms[i] = m) - 1]
              ELSE receipt[m]]
    <3>1. \A m \in Msgs : receipt'[m] =
              IF \E i \in DOMAIN ms : ms[i] = m
              THEN [result |-> "ok", entry |-> written, size |-> Len(ms),
                    index |-> (CHOOSE i \in DOMAIN ms : ms[i] = m) - 1]
              ELSE receipt[m]
      BY <1>3, <2>1
    <3> QED BY <1>3, <3>1 DEF Msgs
  <2> QED BY <1>1, <2>2, Zenon
<1>5. \A i \in DOMAIN log[written] : receipt[log[written][i]] = None
  <2>1. \A m \in Held(batch) : receipt[m] = None
    BY <1>0, HeldIsSent DEF Settling, PendingUnsettled
  <2> QED BY <2>1, <1>1, <1>2
<1>6. UNCHANGED <<sent, log>>
  BY DEF SendSucceeds, userVars, brokerVars
<1> QED BY <1>1, <1>4, <1>5, <1>6 DEF Promise!Acknowledge

LEMMA WritesImplement ==
    ASSUME Inv, BrokerWrites
    PROVE  Promise!Write
<1>0. TypeOK /\ Ordered /\ Settling /\ batch \in Seq(Items)
  BY StreamFacts DEF Inv
<1>1. Batched(batch) /\ Popped(batch) # <<>>
  BY <1>0 DEF Ordered, BatchesFormed, BrokerWrites
<1>2. PICK first \in Msgs, last \in Msgs :
         /\ first <= last
         /\ \A m : m \in Held(batch) <=> m \in first..last
         /\ MessagesOf(Popped(batch)) = [i \in 1..(last - first + 1) |-> first + i - 1]
  BY <1>0, <1>1, Interval
<1>3. last \in first..last
  BY <1>2, Bounds DEF Msgs
<1>4. \A m \in Held(batch) : m <= sent /\ Pending(m)
  BY <1>0, HeldIsSent DEF Settling
<1>5. \A e \in DOMAIN log : \A i \in DOMAIN log[e] : log[e][i] \notin first..last
  BY <1>0, <1>2, <1>4 DEF Settling, LogBehind, BrokerWrites
<1>6. /\ log' = Append(log, [i \in 1..(last - first + 1) |-> first + i - 1])
      /\ UNCHANGED <<sent, receipt>>
  BY <1>2 DEF BrokerWrites, userVars
<1>7. last <= sent
  BY <1>2, <1>3, <1>4
<1> QED BY <1>0, <1>2, <1>5, <1>6, <1>7, Writes

LEMMA LateImplements ==
    ASSUME Inv, BrokerWritesLate
    PROVE  Promise!Write
<1>0. TypeOK /\ Settling
  BY DEF Inv
<1>1. PICK ms \in limbo : log' = Append(log, ms)
  BY DEF BrokerWritesLate
<1>2. /\ ms \in Seq(Msgs) /\ ms # <<>>
      /\ \A i \in DOMAIN ms : ms[i] = ms[1] + i - 1 /\ ms[i] <= sent /\ ms[i] \in Msgs
      /\ \A i \in DOMAIN ms : \A e \in DOMAIN log : \A j \in DOMAIN log[e] : log[e][j] # ms[i]
  BY <1>0, LogTypes DEF Settling, LimboOnce
<1> DEFINE n == Len(ms)
           first == ms[1]
           last == ms[n]
<1>3. /\ n \in Nat /\ n > 0 /\ DOMAIN ms = 1..n
      /\ 1 \in DOMAIN ms /\ n \in DOMAIN ms /\ ms = [i \in 1..n |-> ms[i]]
  BY <1>2
<1>4. first \in Msgs /\ last \in Msgs /\ last <= sent /\ last = first + n - 1
  BY <1>2, <1>3
<1> HIDE DEF n, first, last
<1>5. first \in Nat /\ last \in Nat /\ first <= last /\ last - first + 1 = n
  BY <1>3, <1>4, Bounds DEF Msgs
<1>6. ms = [i \in 1..(last - first + 1) |-> first + i - 1]
  BY <1>2, <1>3, <1>5 DEF first
<1>7. \A e \in DOMAIN log : \A i \in DOMAIN log[e] : log[e][i] \notin first..last
  <2> SUFFICES ASSUME NEW e \in DOMAIN log, NEW i \in DOMAIN log[e], log[e][i] \in first..last
               PROVE  FALSE
    OBVIOUS
  <2> DEFINE k == log[e][i] - first + 1
  <2>1. k \in 1..n /\ first + k - 1 = log[e][i]
    BY <1>5
  <2> HIDE DEF k
  <2>2. ms[k] = log[e][i]
    BY <2>1, <1>2, <1>3 DEF first
  <2> QED BY <2>1, <2>2, <1>2, <1>3
<1>8. UNCHANGED <<sent, receipt>>
  BY DEF BrokerWritesLate, userVars
<1>9. log' = Append(log, [i \in 1..(last - first + 1) |-> first + i - 1])
  BY <1>1, <1>6
<1> QED BY <1>0, <1>4, <1>5, <1>7, <1>8, <1>9, Writes

LEMMA InitImplements == Init => Promise!Init
BY DEF Init, Promise!Init, Msgs

LEMMA NextImplements == Inv /\ [Next]_vars => [Promise!Next]_(Promise!vars)
<1> SUFFICES ASSUME Inv, [Next]_vars PROVE Promise!Next \/ UNCHANGED Promise!vars
  OBVIOUS
<1>0. TypeOK /\ Ordered /\ Settling /\ PendingUnsettled /\ Room /\ BatchesFormed /\ FlushLast
  BY DEF Inv, Settling, Ordered
<1>1. Next => TypeOK'
  BY <1>0, UserType, BatcherType, SenderType, BrokerType DEF Next
<1>2. CASE UNCHANGED vars
  BY <1>2 DEF vars, userVars, brokerVars, Promise!vars
<1>3. CASE Send
  <2>1. Promise!Accept
    BY <1>3 DEF Send, brokerVars, Promise!Accept
  <2> QED BY <2>1 DEF Promise!Next
<1>4. CASE SendClosed
  <2> DEFINE m == sent + 1
  <2>1. /\ m \in Msgs /\ sent' = m /\ log' = log
        /\ receipt' = [receipt EXCEPT ![m] = Failed("closed")]
    BY <1>4, <1>0, Bounds DEF SendClosed, TypeOK, Msgs, brokerVars
  <2>2. receipt[m] = None /\ m <= sent' /\ sent \in Nat
    <3>1. m > sent /\ m <= m /\ sent \in Nat
      BY <1>0, StreamFacts
    <3> QED BY <3>1, <2>1, <1>0 DEF PendingUnsettled
  <2> HIDE DEF m
  <2>3. m..m = {m}
    BY <2>1, Bounds DEF Msgs
  <2>4. receipt' = [k \in Msgs |-> IF k \in m..m THEN Failed("closed") ELSE receipt[k]]
    BY <2>1, <2>3, <1>0 DEF TypeOK
  <2>5. TypeOK'
    BY <1>1, <1>4 DEF Next, User
  <2>6. sent' \in {sent, sent + 1} /\ m <= m
    BY <2>1, Bounds DEF m, Msgs
  <2>7. \A k \in m..m : receipt[k] = None
    BY <2>2, <2>3
  <2>8. Promise!Reject
    BY <2>1, <2>2, <2>4, <2>5, <2>6, <2>7, <1>0, Rejects
  <2> QED BY <2>8 DEF Promise!Next
<1>5. CASE BatcherExits
  <2>1. storage \in Seq(Items) /\ Batched(storage) /\ Popped(storage) = storage /\ Stream = storage
    BY <1>0, <1>5, StreamFacts, ExitMoves DEF BatchesFormed, Popped
  <2>2. \A m \in Held(storage) : m <= sent /\ receipt[m] = None
    BY <2>1, <1>0, HeldIsSent DEF PendingUnsettled
  <2>3. Settle(MessagesOf(Popped(storage)), Failed("closed")) /\ sent' = sent /\ log' = log
    BY <1>5, <2>1 DEF BatcherExits, userVars, brokerVars
  <2>4. TypeOK'
    BY <1>1, <1>5 DEF Next, Batcher
  <2>5. Promise!Reject \/ UNCHANGED Promise!vars
    BY <2>1, <2>2, <2>3, <2>4, <1>0, BatchRejects
  <2> QED BY <2>5 DEF Promise!Next
<1>6. CASE SendFails
  <2>1. batch \in Seq(Items) /\ Batched(batch)
    BY <1>0, StreamFacts DEF BatchesFormed
  <2>2. \A m \in Held(batch) : m <= sent /\ receipt[m] = None
    BY <1>0, HeldIsSent DEF PendingUnsettled
  <2>3. Settle(MessagesOf(Popped(batch)), Failed("error")) /\ sent' = sent /\ log' = log
    BY <1>6 DEF SendFails, userVars
  <2>4. TypeOK'
    BY <1>1, <1>6 DEF Next, Sender
  <2>5. Promise!Reject \/ UNCHANGED Promise!vars
    BY <2>1, <2>2, <2>3, <2>4, <1>0, BatchRejects
  <2> QED BY <2>5 DEF Promise!Next
<1>7. CASE SendSucceeds
  BY <1>7, SucceedsImplements DEF Promise!Next
<1>8. CASE BrokerWrites
  BY <1>8, WritesImplement DEF Promise!Next
<1>9. CASE BrokerWritesLate
  BY <1>9, LateImplements DEF Promise!Next
<1>10. CASE \/ SendReturns \/ SendBatch \/ SendBatchReturns \/ Close \/ CloseReturns \/ Cancel
            \/ DropProducer
  BY <1>10 DEF SendReturns, SendBatch, SendBatchReturns, Close, CloseReturns, Cancel, DropProducer,
               brokerVars, Promise!vars
<1>11. CASE BatchItem \/ BatchTimeout \/ BatchSent
  BY <1>11 DEF BatchItem, BatchTimeout, BatchSent, userVars, brokerVars, Promise!vars
<1>12. CASE TakeBatch \/ SendEnqueued \/ SenderExits
  BY <1>12 DEF TakeBatch, SendEnqueued, SenderExits, userVars, brokerVars, Promise!vars
<1> QED BY <1>2, <1>3, <1>4, <1>5, <1>6, <1>7, <1>8, <1>9, <1>10, <1>11, <1>12
        DEF Next, User, Batcher, Sender, Broker

(* TopicProducer with its batch_process_loop and its message_send_loop      *)
(* keeps what ProducerLog promises: a message is written at most once,      *)
(* settled at most once, a batch as a whole, and told where it is.          *)
THEOREM PromiseKept == Spec => Implements
<1>1. Inv /\ [Next]_vars => [Promise!Next]_(Promise!vars)
  BY NextImplements
<1> QED BY <1>1, InitImplements, InvAlways, PTL DEF Spec, Implements, Promise!Spec

-----------------------------------------------------------------------------
(* What a send ends in: the safety behind EveryMessageSettles, and what the *)
(* promise comes to for the topic and the receipts.                         *)

(* No message is lost sight of: it is settled, or it is in a channel or in  *)
(* the hands of the task that will settle it, and that task has not ended.  *)
NobodyForgotten ==
    \A m \in 1..sent :
        \/ receipt[m] # None
        \/ m \in Held(Stream) /\ batcher # "done"
        \/ (m \in Held(batch) \/ \E b \in DOMAIN batches : m \in Held(batches[b]))
           /\ sender # "done"

(* However the tasks end, somebody answers every send: an unresolved        *)
(* message is in the stream of a running batcher, or in a batch of a        *)
(* running message_send_loop.                                               *)
THEOREM NobodyIsForgotten == Spec => []NobodyForgotten
<1>1. Inv => NobodyForgotten
  <2> SUFFICES ASSUME Inv, NEW m \in 1..sent, receipt[m] = None,
                      ~(m \in Held(Stream) /\ batcher # "done")
               PROVE  /\ m \in Held(batch) \/ \E b \in DOMAIN batches : m \in Held(batches[b])
                      /\ sender # "done"
    BY DEF NobodyForgotten
  <2>1. m \in Msgs /\ m <= sent
    BY BatchAssumption DEF Inv, TypeOK, Msgs
  <2>2. Pending(m)
    BY <2>1 DEF Inv, Settling, PendingUnsettled
  <2>3. m \notin Held(Stream)
    <3>1. CASE batcher = "done"
      <4>1. Stream = <<>>
        BY <3>1 DEF Inv, Ending
      <4> QED BY <4>1 DEF Held
    <3> QED BY <3>1
  <2>4. m \in Held(batch) \/ \E b \in DOMAIN batches : m \in Held(batches[b])
    BY <2>2, <2>3 DEF Pending
  <2>5. CASE sender = "done"
    <3>1. batch = <<>> /\ batches = <<>>
      BY <2>5 DEF Inv, Ending, Ordered, BatchesFormed
    <3> QED BY <2>4, <3>1 DEF Held
  <2> QED BY <2>4, <2>5
<1> QED BY <1>1, InvAlways, PTL

(* A message is written at most once, in one place of one entry, whatever   *)
(* batches are given up on and written late.                                *)
WrittenOnce ==
    \A e, f \in DOMAIN log : \A i \in DOMAIN log[e], j \in DOMAIN log[f] :
        log[e][i] = log[f][j] => e = f /\ i = j

(* What a SendFuture resolved to, and what was written, stays.              *)
Final ==
    /\ \A m \in Msgs : receipt[m] # None => receipt'[m] = receipt[m]
    /\ \A e \in DOMAIN log : e \in DOMAIN log' /\ log'[e] = log[e]

\* What the promise writes behind the topic.
LEMMA WriteAppends ==
    ASSUME log \in Seq(Seq(Msgs)), Promise!Write
    PROVE  \E first \in 1..sent : \E last \in first..sent :
              LET entry == [i \in 1..(last - first + 1) |-> first + i - 1]
              IN  /\ first..last \cap Promise!Logged = {}
                  /\ DOMAIN log = 1..Len(log) /\ Len(log) \in Nat
                  /\ DOMAIN log' = 1..(Len(log) + 1)
                  /\ \A e \in DOMAIN log : log'[e] = log[e]
                  /\ log'[Len(log) + 1] = entry
<1>0. PICK first \in 1..sent : \E last \in first..sent :
         /\ first..last \cap Promise!Logged = {}
         /\ log' = Append(log, [i \in 1..(last - first + 1) |-> first + i - 1])
  BY DEF Promise!Write
<1>1. PICK last \in first..sent :
         /\ first..last \cap Promise!Logged = {}
         /\ log' = Append(log, [i \in 1..(last - first + 1) |-> first + i - 1])
  BY <1>0
<1> DEFINE entry == [i \in 1..(last - first + 1) |-> first + i - 1]
<1>2. log' = Append(log, entry)
  BY <1>1
<1> HIDE DEF entry
<1>3. /\ DOMAIN log = 1..Len(log) /\ Len(log) \in Nat
      /\ DOMAIN log' = 1..(Len(log) + 1)
      /\ \A e \in DOMAIN log : log'[e] = log[e]
      /\ log'[Len(log) + 1] = entry
  BY <1>2
<1> QED BY <1>1, <1>3 DEF entry

LEMMA PromiseFinal ==
    ASSUME TypeOK, [Promise!Next]_(Promise!vars)
    PROVE  Final
<1>0. log \in Seq(Seq(Msgs)) /\ \A e \in DOMAIN log : log[e] \in Seq(Msgs)
  BY DEF TypeOK
<1>1. CASE Promise!Write
  <2>1. /\ DOMAIN log \subseteq DOMAIN log' /\ receipt' = receipt
        /\ \A e \in DOMAIN log : log'[e] = log[e]
    <3>1. receipt' = receipt
      BY <1>1 DEF Promise!Write
    <3>2. /\ DOMAIN log = 1..Len(log) /\ Len(log) \in Nat
          /\ DOMAIN log' = 1..(Len(log) + 1)
          /\ \A e \in DOMAIN log : log'[e] = log[e]
      BY <1>0, <1>1, WriteAppends
    <3>3. 1..Len(log) \subseteq 1..(Len(log) + 1)
      BY <3>2
    <3> QED BY <3>1, <3>2, <3>3
  <2> QED BY <2>1 DEF Final
<1>2. CASE Promise!Accept \/ UNCHANGED Promise!vars
  BY <1>2 DEF Promise!Accept, Promise!vars, Final
<1>3. CASE Promise!Acknowledge
  BY <1>3 DEF Promise!Acknowledge, Final, Msgs
<1>4. CASE Promise!Reject
  BY <1>4 DEF Promise!Reject, Final, Msgs
<1> QED BY <1>1, <1>2, <1>3, <1>4 DEF Promise!Next

(* A SendFuture resolves once and for good, and the topic only grows: no    *)
(* failed batch, late write or closing task settles a message again.        *)
THEOREM SettledForGood == Spec => [][Final]_vars
<1>1. Inv /\ [Next]_vars => [Final]_vars
  BY NextImplements, PromiseFinal DEF Inv
<1> QED BY <1>1, InvAlways, PTL DEF Spec

LEMMA WrittenOnceNext ==
    ASSUME Inv, WrittenOnce, [Promise!Next]_(Promise!vars)
    PROVE  WrittenOnce'
<1>0. log \in Seq(Seq(Msgs)) /\ sent \in Nat /\ MaxMsgs \in Nat
  BY BatchAssumption DEF Inv, TypeOK
<1>1. CASE Promise!Write
  <2>0. PICK first \in 1..sent : \E last \in first..sent :
           /\ first..last \cap Promise!Logged = {}
           /\ DOMAIN log = 1..Len(log) /\ Len(log) \in Nat
           /\ DOMAIN log' = 1..(Len(log) + 1)
           /\ \A e \in DOMAIN log : log'[e] = log[e]
           /\ log'[Len(log) + 1] = [i \in 1..(last - first + 1) |-> first + i - 1]
    BY <1>0, <1>1, WriteAppends
  <2>1. PICK last \in first..sent :
           /\ first..last \cap Promise!Logged = {}
           /\ DOMAIN log = 1..Len(log) /\ Len(log) \in Nat
           /\ DOMAIN log' = 1..(Len(log) + 1)
           /\ \A e \in DOMAIN log : log'[e] = log[e]
           /\ log'[Len(log) + 1] = [i \in 1..(last - first + 1) |-> first + i - 1]
    BY <2>0
  <2> DEFINE n == Len(log) + 1
  <2>2. n \notin DOMAIN log /\ \A e \in DOMAIN log' : e \in DOMAIN log \/ e = n
    BY <2>1
  <2>3. \A i \in DOMAIN log'[n] : log'[n][i] = first + i - 1 /\ log'[n][i] \in first..last /\ i \in Nat
    BY <2>1
  <2>4. \A e \in DOMAIN log : \A i \in DOMAIN log[e] : log[e][i] \in Msgs
    <3>1. \A e \in DOMAIN log : log[e] \in Seq(Msgs)
      BY <1>0
    <3> QED BY <3>1
  <2>5. \A e \in DOMAIN log : \A i \in DOMAIN log[e] : log[e][i] \in Promise!Logged
    BY <2>4 DEF Promise!Logged, Msgs
  <2>6. \A e \in DOMAIN log : \A i \in DOMAIN log[e], j \in DOMAIN log'[n] : log[e][i] # log'[n][j]
    BY <2>1, <2>3, <2>5
  <2>7. \A i, j \in DOMAIN log'[n] : log'[n][i] = log'[n][j] => i = j
    BY <2>1, <2>3
  <2>8. \A e \in DOMAIN log : log'[e] = log[e]
    BY <2>1
  <2> HIDE DEF n
  <2> QED BY <2>2, <2>6, <2>7, <2>8 DEF WrittenOnce
<1>2. CASE log' = log
  BY <1>2 DEF WrittenOnce
<1>3. Promise!Write \/ log' = log
  BY DEF Promise!Next, Promise!Accept, Promise!Acknowledge, Promise!Reject, Promise!vars
<1> QED BY <1>1, <1>2, <1>3

(* Whatever fails and reconnects, message_send_loop writes a message into   *)
(* one place of one entry of the topic only.                                *)
THEOREM WrittenAtMostOnce == Spec => []WrittenOnce
<1>1. Init => WrittenOnce
  BY DEF Init, WrittenOnce
<1>2. Inv /\ WrittenOnce /\ [Next]_vars => WrittenOnce'
  BY NextImplements, WrittenOnceNext
<1> QED BY <1>1, <1>2, InvAlways, PTL DEF Spec

=============================================================================
