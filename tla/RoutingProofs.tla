---------------------------- MODULE RoutingProofs ----------------------------
(* Proofs about Routing, for any topics, keys, numbers of partitions, sends *)
(* and refreshes: messages keep the order of the calls, and the rules of    *)
(* every routing policy hold while topics grow.                             *)
EXTENDS Routing, FiniteSetTheorems, WellFoundedInduction, TLAPS

-----------------------------------------------------------------------------
(* The inductive invariant. *)

Entry == [id : 1..MaxCalls, topic : Topic, key : Keys \cup {None},
          partition : Nat, known : Nat]

Types ==
    /\ policy \in Policies
    /\ calls \in 0..MaxCalls
    /\ queue \in Seq(Call)
    /\ producers \in [Topic -> Producer \cup {None}]
    /\ count \in [Topic -> 0..MaxPartitions]
    /\ log \in Seq(Entry)
    /\ waiting \subseteq 1..calls
    /\ tally \in [Topic -> [0..MaxPartitions -> Nat]]

Working ==
    /\ task \in {"idle", "building", "done"} \cup Sending
    /\ cur \in Call \cup {None}
    /\ cur = None <=> task \in {"idle", "done"}
    /\ task = "building" => producers[cur.topic] = None
    /\ task \in Sending => producers[cur.topic] # None
    /\ task = "refreshing" => producers[cur.topic].partitioned

\* The list of the producers of a topic with c partitions is that of the
\* partitions from the first on, in order, and no partition is missing in it.
Ordered(p, c) ==
    /\ Len(p.parts) \in 1..MaxPartitions
    /\ p.parts = [i \in 1..Len(p.parts) |-> i - 1]
    /\ p.last \in 0..(Len(p.parts) - 1)
    /\ p.partitioned => c # 0 /\ Len(p.parts) <= c
    /\ ~p.partitioned => c = 0 /\ Len(p.parts) = 1

Lists == \A t \in Topic : producers[t] # None => Ordered(producers[t], count[t])

\* The sends that were accepted, the one under way and those in the queue.
CallsInOrder ==
    /\ \A i \in DOMAIN log : log[i].id <= calls
    /\ cur # None => cur.id <= calls
    /\ \A i \in DOMAIN queue : queue[i].id <= calls
    /\ \A i, j \in DOMAIN log : i < j => log[i].id < log[j].id
    /\ \A i, j \in DOMAIN queue : i < j => queue[i].id < queue[j].id
    /\ \A i \in DOMAIN log : /\ cur # None => log[i].id < cur.id
                             /\ \A k \in DOMAIN queue : log[i].id < queue[k].id
    /\ cur # None => \A k \in DOMAIN queue : cur.id < queue[k].id

Shape == Types /\ Working /\ Lists

\* The turns until partition i is chosen again, of n partitions after last.
Turn(i, last, n) == IF i > last THEN i - last ELSE i - last + n

\* Round robin: no partition is ahead of another by more than one message, and
\* those whose turn comes later are not behind.
Even(counts, last, n) ==
    \A i, j \in 0..(n - 1) :
        /\ counts[i] <= counts[j] + 1
        /\ Turn(i, last, n) < Turn(j, last, n) => counts[i] <= counts[j]

AllEven ==
    policy = "RoundRobin" =>
        \A t \in Topic : producers[t] # None =>
            Even(tally[t], producers[t].last, Len(producers[t].parts))

\* Single: the partition unkeyed messages are in is the one they will be in.
StaysSingle ==
    policy = "Single" =>
        \A i \in DOMAIN log : log[i].key = None =>
            IF count[log[i].topic] = 0 THEN log[i].partition = 0
            ELSE task # "done" =>
                    /\ producers[log[i].topic] # None
                    /\ log[i].partition = producers[log[i].topic].last

Rules == KeyOwnsPartition /\ AllEven /\ StaysSingle /\ SingleStays

-----------------------------------------------------------------------------
(* The hash of a key. *)

\* A set of numbers has a least one: what induction is here.
LEMMA NatMin ==
    ASSUME NEW T \in SUBSET Nat, T # {}
    PROVE  \E x \in T : \A y \in T : x <= y
<1>1. PICK x \in T : \A y \in T : ~ (<<y, x>> \in OpToRel(<, Nat))
  BY WFMin, NatLessThanWellFounded
<1>2. \A y \in T : ~(y < x)
  BY <1>1 DEF OpToRel
<1> QED BY <1>2

\* A step of java_string_hash stays within the numbers.
LEMMA HashStepIsNat ==
    ASSUME NEW h \in Nat, NEW unit \in Nat
    PROVE  HashStep(h, unit) \in Nat
<1> DEFINE low  == (h % HalfWord) * 31 + unit
           high == (h \div HalfWord) * 31 + (low \div HalfWord)
<1>1. h % HalfWord \in Nat /\ h \div HalfWord \in Nat
  BY DEF HalfWord
<1>2. low \in Nat
  BY <1>1, SMT
<1>3. low \div HalfWord \in Nat /\ low % HalfWord \in Nat
  <2> HIDE DEF low
  <2> QED BY <1>2 DEF HalfWord
<1>4. high \in Nat
  <2> HIDE DEF low
  <2> QED BY <1>1, <1>3
<1>5. high % HighHalf \in Nat
  <2> HIDE DEF high
  <2> QED BY <1>4 DEF HighHalf
<1>6. (high % HighHalf) * HalfWord + (low % HalfWord) \in Nat
  <2> HIDE DEF low, high
  <2> QED BY <1>3, <1>5 DEF HalfWord
<1> QED BY <1>6 DEF HashStep

LEMMA HashIsNat ==
    ASSUME NEW key \in Seq(Nat) PROVE JavaStringHash(key) \in Nat
<1> DEFINE n == Len(key)
           Step(m, f) == [i \in 0..m |-> IF i = 0 THEN 0 ELSE HashStep(f[i - 1], key[i])]
           hash == CHOOSE f : f = Step(n, f)
<1>0. n \in Nat /\ \A i \in 1..n : key[i] \in Nat
  OBVIOUS
<1>1. JavaStringHash(key) = hash[n]
  BY DEF JavaStringHash
<1>2. \A m \in 0..n : \E f : f = Step(m, f)
  <2> DEFINE T == {m \in 0..n : ~\E f : f = Step(m, f)}
  <2> SUFFICES ASSUME T # {} PROVE FALSE
    OBVIOUS
  <2>1. T \in SUBSET Nat
    BY <1>0
  <2>2. PICK m \in T : \A y \in T : m <= y
    <3> HIDE DEF T
    <3> QED BY NatMin, <2>1
  <2>3. m # 0
    <3> DEFINE f == [i \in 0..0 |-> 0]
    <3>1. f = Step(0, f)
      OBVIOUS
    <3> QED BY <2>2, <3>1
  <2>4. m \in 1..n /\ m - 1 \in 0..n /\ m - 1 \notin T
    <3>1. m \in 1..n /\ m - 1 \in 0..n
      BY <2>2, <2>3, <1>0
    <3> HIDE DEF T
    <3>2. m - 1 \notin T
      BY <2>2, <3>1
    <3> QED BY <3>1, <3>2
  <2>5. PICK f : f = Step(m - 1, f)
    BY <2>4
  <2> DEFINE g == [i \in 0..m |-> IF i = m THEN HashStep(f[m - 1], key[m]) ELSE f[i]]
  <2>6. \A i \in 0..m : g[i] = Step(m, g)[i]
    <3> SUFFICES ASSUME NEW i \in 0..m PROVE g[i] = Step(m, g)[i]
      OBVIOUS
    <3>1. CASE i = m
      <4>1. g[m - 1] = f[m - 1] /\ m # 0 /\ g[m] = HashStep(f[m - 1], key[m])
        BY <2>4
      <4> QED BY <3>1, <4>1, <2>4
    <3>2. CASE i # m
      <4>1. i \in 0..(m - 1) /\ g[i] = f[i]
        BY <3>2, <2>4
      <4>2. f[i] = IF i = 0 THEN 0 ELSE HashStep(f[i - 1], key[i])
        BY <4>1, <2>5
      <4>3. i # 0 => g[i - 1] = f[i - 1]
        BY <4>1, <2>4
      <4> QED BY <4>1, <4>2, <4>3
    <3> QED BY <3>1, <3>2
  <2>7. g = Step(m, g)
    BY <2>6
  <2> QED BY <2>2, <2>7
<1>3. hash = Step(n, hash)
  <2>1. \E f : f = Step(n, f)
    BY <1>0, <1>2
  <2> HIDE DEF Step
  <2> QED BY <2>1, Zenon
<1> HIDE DEF hash
<1>4. \A i \in 0..n : hash[i] = IF i = 0 THEN 0 ELSE HashStep(hash[i - 1], key[i])
  BY <1>3
<1>5. \A i \in 0..n : hash[i] \in Nat
  <2> DEFINE T == {i \in 0..n : hash[i] \notin Nat}
  <2> SUFFICES ASSUME T # {} PROVE FALSE
    OBVIOUS
  <2>1. T \in SUBSET Nat
    BY <1>0
  <2>2. PICK m \in T : \A y \in T : m <= y
    <3> HIDE DEF T
    <3> QED BY NatMin, <2>1
  <2>3. m # 0
    BY <1>4, <2>2
  <2>4. m \in 1..n /\ m - 1 \in 0..n /\ m - 1 \notin T
    BY <2>2, <2>3, <1>0
  <2>5. hash[m - 1] \in Nat /\ hash[m] = HashStep(hash[m - 1], key[m])
    BY <1>4, <2>4
  <2>6. hash[m] \in Nat
    BY <2>4, <2>5, <1>0, HashStepIsNat
  <2> QED BY <2>2, <2>6
<1> QED BY <1>0, <1>1, <1>5

LEMMA SeqOfSubset ==
    ASSUME NEW S, NEW T, S \subseteq T, NEW s \in Seq(S) PROVE s \in Seq(T)
OBVIOUS

\* Whatever the key, there is such a partition.
LEMMA KeyHasPartition ==
    ASSUME NEW key \in Keys, NEW n \in Nat \ {0}
    PROVE  PartitionForKey(key, n) \in 0..(n - 1)
<1>1. key \in Seq(Nat)
  <2>1. key \in Seq(CodeUnit)
    BY KeysAssumption
  <2>2. CodeUnit \subseteq Nat
    BY SMT DEF CodeUnit
  <2> QED BY <2>1, <2>2, SeqOfSubset
<1>2. JavaStringHash(key) \in Nat
  BY <1>1, HashIsNat
<1> QED BY <1>2, SMT DEF PartitionForKey

-----------------------------------------------------------------------------
(* The lists of producers. *)

\* Sorting the first n partitions gives them in order.
LEMMA SortedRange ==
    ASSUME NEW n \in Nat \ {0}
    PROVE  Sorted(0..(n - 1)) = [i \in 1..n |-> i - 1]
<1> DEFINE S == 0..(n - 1)
           Rising(s) == \A i, j \in DOMAIN s : i < j => s[i] < s[j]
           all == [i \in 1..n |-> i - 1]
           s0 == CHOOSE s \in [1..n -> S] : Rising(s)
<1>1. Cardinality(S) = n
  <2>1. Cardinality(0..(n - 1)) = IF 0 > n - 1 THEN 0 ELSE (n - 1) - 0 + 1
    BY FS_Interval
  <2> QED BY <2>1
<1>2. Sorted(S) = s0
  BY <1>1 DEF Sorted
<1>3. all \in [1..n -> S] /\ Rising(all)
  OBVIOUS
<1>4. s0 \in [1..n -> S] /\ Rising(s0)
  <2> HIDE DEF Rising, all, S
  <2> QED BY <1>3, Zenon
<1> HIDE DEF s0
<1>5. \A i \in 1..n : s0[i] \in 0..(n - 1)
  BY <1>4
<1>6. \A i \in 1..n : s0[i] >= i - 1
  <2> DEFINE T == {i \in 1..n : s0[i] < i - 1}
  <2>1. T \in SUBSET Nat
    OBVIOUS
  <2>2. ASSUME T # {} PROVE FALSE
    <3>1. PICK m \in T : \A y \in T : m <= y
      <4> HIDE DEF T
      <4> QED BY NatMin, <2>1, <2>2
    <3>2. m \in 1..n /\ s0[m] < m - 1 /\ m # 1
      BY <3>1, <1>5
    <3>3. m - 1 \in 1..n /\ m - 1 < m
      BY <3>2
    <3>4. s0[m - 1] < s0[m]
      BY <3>2, <3>3, <1>4
    <3>5. s0[m - 1] < (m - 1) - 1
      BY <3>2, <3>3, <3>4, <1>5
    <3>6. m - 1 \in T
      BY <3>3, <3>5
    <3> HIDE DEF T
    <3> QED BY <3>1, <3>2, <3>6
  <2> QED BY <2>2, <1>5
<1>7. \A i \in 1..n : s0[i] <= i - 1
  <2> DEFINE T == {k \in 0..(n - 1) : s0[n - k] > n - k - 1}
  <2>1. T \in SUBSET Nat
    OBVIOUS
  <2>2. ASSUME T # {} PROVE FALSE
    <3>1. PICK m \in T : \A y \in T : m <= y
      <4> HIDE DEF T
      <4> QED BY NatMin, <2>1, <2>2
    <3>2. m \in 0..(n - 1) /\ n - m \in 1..n /\ s0[n - m] > n - m - 1
      BY <3>1
    <3>3. m # 0
      BY <3>2, <1>5
    <3>4. m - 1 \in 0..(n - 1) /\ n - (m - 1) \in 1..n /\ n - m < n - (m - 1)
      BY <3>2, <3>3
    <3>5. s0[n - m] < s0[n - (m - 1)]
      BY <3>2, <3>4, <1>4
    <3>6. s0[n - (m - 1)] > n - (m - 1) - 1
      BY <3>2, <3>4, <3>5, <1>5
    <3>7. m - 1 \in T
      BY <3>4, <3>6
    <3> HIDE DEF T
    <3> QED BY <3>1, <3>2, <3>7
  <2>3. ASSUME NEW i \in 1..n PROVE s0[i] <= i - 1
    <3>1. n - i \in 0..(n - 1) /\ n - (n - i) = i
      OBVIOUS
    <3>2. n - i \notin T
      <4> HIDE DEF T
      <4> QED BY <2>2
    <3>3. ~(s0[n - (n - i)] > n - (n - i) - 1)
      BY <3>1, <3>2
    <3> QED BY <3>1, <3>3, <1>5
  <2> QED BY <2>3
<1>8. \A i \in 1..n : s0[i] = i - 1
  BY <1>5, <1>6, <1>7
<1> QED BY <1>2, <1>4, <1>8

LEMMA ProducerFields ==
    ASSUME NEW p \in Producer
    PROVE  /\ p # None
           /\ p.parts \in Seq(Nat) /\ p.partitioned \in BOOLEAN
           /\ p.last \in Nat /\ p.due \in BOOLEAN
           /\ \A due \in BOOLEAN :
                 /\ [p EXCEPT !.due = due] \in Producer
                 /\ [p EXCEPT !.due = due].parts = p.parts
                 /\ [p EXCEPT !.due = due].partitioned = p.partitioned
                 /\ [p EXCEPT !.due = due].last = p.last
           /\ \A last \in Nat :
                 /\ [p EXCEPT !.last = last] \in Producer
                 /\ [p EXCEPT !.last = last].parts = p.parts
                 /\ [p EXCEPT !.last = last].partitioned = p.partitioned
                 /\ [p EXCEPT !.last = last].last = last
BY NoneAssumption DEF Producer

LEMMA BuiltFields ==
    /\ Single \in Producer /\ Ordered(Single, 0) /\ Single.parts = <<0>>
    /\ \A n \in 1..MaxPartitions : \A start \in 0..(n - 1) :
          /\ Partitioned(n, start) \in Producer /\ Ordered(Partitioned(n, start), n)
          /\ Partitioned(n, start).last = start /\ Len(Partitioned(n, start).parts) = n
<1>1. Single \in Producer /\ Ordered(Single, 0) /\ Single.parts = <<0>>
  BY PartitionsAssumption DEF Single, Producer, Ordered
<1>2. ASSUME NEW n \in 1..MaxPartitions, NEW start \in 0..(n - 1)
      PROVE  /\ Partitioned(n, start) \in Producer /\ Ordered(Partitioned(n, start), n)
             /\ Partitioned(n, start).last = start /\ Len(Partitioned(n, start).parts) = n
  <2> DEFINE parts == [i \in 1..n |-> i - 1]
  <2>1. n \in Nat /\ n # 0 /\ start \in Nat
    BY PartitionsAssumption
  <2>2. parts \in Seq(Nat) /\ Len(parts) = n
    BY <2>1
  <2>3. Partitioned(n, start) = [parts |-> parts, partitioned |-> TRUE, last |-> start, due |-> FALSE]
    BY DEF Partitioned
  <2>4. Partitioned(n, start) \in Producer
    <3> HIDE DEF parts
    <3> QED BY <2>1, <2>2, <2>3 DEF Producer
  <2>5. /\ Partitioned(n, start).parts = parts /\ Partitioned(n, start).partitioned = TRUE
        /\ Partitioned(n, start).last = start
    BY <2>3
  <2> QED BY <2>1, <2>2, <2>4, <2>5 DEF Ordered
<1> QED BY <1>1, <1>2

LEMMA GrownFields ==
    ASSUME NEW p \in Producer, NEW n \in 0..MaxPartitions, Ordered(p, n), p.partitioned
    PROVE  /\ Grown(p, n) \in Producer /\ Ordered(Grown(p, n), n)
           /\ Grown(p, n).last = p.last /\ Grown(p, n).partitioned = p.partitioned
           /\ Len(Grown(p, n).parts) = n
<1> DEFINE m == Len(p.parts)
           parts == [i \in 1..n |-> i - 1]
<1>1. m \in 1..MaxPartitions /\ m <= n /\ n \in Nat \ {0} /\ MaxPartitions \in Nat
      /\ p.parts = [i \in 1..m |-> i - 1] /\ p.last \in 0..(m - 1)
  BY PartitionsAssumption DEF Ordered
<1>2. Known(p) = 0..(m - 1)
  <2>1. DOMAIN p.parts = 1..m /\ \A i \in 1..m : p.parts[i] = i - 1
    <3> HIDE DEF m
    <3> QED BY <1>1
  <2>2. \A k \in 0..(m - 1) : k + 1 \in 1..m /\ k = (k + 1) - 1
    BY <1>1
  <2>3. \A i \in 1..m : i - 1 \in 0..(m - 1)
    BY <1>1
  <2> HIDE DEF m
  <2> QED BY <2>1, <2>2, <2>3 DEF Known
<1>3. Known(p) \cup 0..(n - 1) = 0..(n - 1)
  <2> HIDE DEF m
  <2> QED BY <1>1, <1>2
<1>4. Grown(p, n) = [p EXCEPT !.parts = parts]
  BY <1>1, <1>3, SortedRange DEF Grown
<1>5. parts \in Seq(Nat) /\ Len(parts) = n
  BY <1>1
<1>6. /\ Grown(p, n) \in Producer /\ Grown(p, n).parts = parts
      /\ Grown(p, n).last = p.last /\ Grown(p, n).partitioned = p.partitioned
  <2> HIDE DEF parts
  <2> DEFINE q == [p EXCEPT !.parts = parts]
  <2>1. q \in Producer /\ q.parts = parts /\ q.last = p.last /\ q.partitioned = p.partitioned
    BY <1>5 DEF Producer
  <2> HIDE DEF q
  <2>2. Grown(p, n) = q
    BY <1>4 DEF q
  <2> QED BY <2>1, <2>2
<1>7. p.last \in 0..(n - 1)
  <2> HIDE DEF m
  <2> QED BY <1>1
<1> QED BY <1>1, <1>5, <1>6, <1>7 DEF Ordered

\* What is chosen for a message, whatever the policy.
LEMMA Chosen ==
    ASSUME policy \in Policies, NEW p \in Producer, NEW n, Ordered(p, n),
           NEW key \in Keys \cup {None},
           NEW c \in IF p.partitioned THEN Routes(p, key) ELSE {<<0, 0>>}
    PROVE  /\ c[1] \in 0..(Len(p.parts) - 1) /\ c[2] \in 0..(Len(p.parts) - 1)
           /\ p.parts[c[1] + 1] = c[1]
           /\ policy = "RoundRobin" /\ key = None => c[1] = NextIndex(p) /\ c[2] = c[1]
           /\ policy = "RoundRobin" /\ key # None => c[2] = p.last
           /\ policy = "Single" /\ key = None => c[1] = p.last
           /\ policy = "Single" => c[2] = p.last
           /\ p.partitioned /\ policy # "Custom" /\ key # None
                 => c[1] = PartitionForKey(key, Len(p.parts))
<1> DEFINE m == Len(p.parts)
<1>1. m \in Nat \ {0} /\ p.last \in 0..(m - 1)
      /\ \A i \in 0..(m - 1) : p.parts[i + 1] = i
  <2>1. m \in 1..MaxPartitions /\ p.parts = [i \in 1..m |-> i - 1] /\ p.last \in 0..(m - 1)
    BY DEF Ordered
  <2> HIDE DEF m
  <2> QED BY <2>1, PartitionsAssumption
<1>2. NextIndex(p) \in 0..(m - 1)
  BY <1>1 DEF NextIndex
<1>3. CASE ~p.partitioned
  <2>1. m = 1 /\ p.last = 0 /\ NextIndex(p) = 0
    BY <1>1, <1>3 DEF Ordered, NextIndex
  <2>2. c = <<0, 0>>
    BY <1>3
  <2> QED BY <1>1, <1>3, <2>1, <2>2
<1>4. CASE p.partitioned /\ policy = "Custom"
  <2>1. c \in {<<i, p.last>> : i \in 0..(m - 1)}
    BY <1>4 DEF Routes
  <2>2. PICK i \in 0..(m - 1) : c = <<i, p.last>>
    BY <2>1
  <2> HIDE DEF m
  <2>3. c[1] \in 0..(m - 1) /\ c[2] \in 0..(m - 1) /\ p.parts[c[1] + 1] = c[1]
    BY <1>1, <2>2
  <2> QED BY <1>4, <2>3 DEF m
<1>5. CASE p.partitioned /\ policy # "Custom" /\ key # None
  <2>1. PartitionForKey(key, m) \in 0..(m - 1)
    BY <1>1, <1>5, KeyHasPartition
  <2>2. c = <<PartitionForKey(key, m), p.last>>
    BY <1>5 DEF Routes, Policies
  <2> HIDE DEF m
  <2>3. /\ c[1] = PartitionForKey(key, m) /\ c[1] \in 0..(m - 1)
        /\ c[2] = p.last /\ c[2] \in 0..(m - 1) /\ p.parts[c[1] + 1] = c[1]
    BY <1>1, <2>1, <2>2
  <2> QED BY <1>5, <2>3 DEF m
<1>6. CASE p.partitioned /\ policy = "Single" /\ key = None
  <2>1. c = <<p.last, p.last>>
    BY <1>6 DEF Routes
  <2> HIDE DEF m
  <2>2. c[1] = p.last /\ c[2] = p.last /\ c[1] \in 0..(m - 1) /\ p.parts[c[1] + 1] = c[1]
    BY <1>1, <2>1
  <2> QED BY <1>6, <2>2 DEF m
<1>7. CASE p.partitioned /\ policy = "RoundRobin" /\ key = None
  <2>1. c = <<NextIndex(p), NextIndex(p)>>
    BY <1>7 DEF Routes
  <2> HIDE DEF m
  <2>2. c[1] = NextIndex(p) /\ c[2] = c[1] /\ c[1] \in 0..(m - 1) /\ p.parts[c[1] + 1] = c[1]
    BY <1>1, <1>2, <2>1
  <2> QED BY <1>7, <2>2 DEF m
<1> QED BY <1>3, <1>4, <1>5, <1>6, <1>7 DEF Policies

-----------------------------------------------------------------------------
(* Type and lists. *)

LEMMA CallFields ==
    ASSUME NEW k \in Call
    PROVE  k # None /\ k.id \in 1..MaxCalls /\ k.topic \in Topic /\ k.key \in Keys \cup {None}
BY NoneAssumption DEF Call

LEMMA InitShape == Init => Shape
<1> SUFFICES ASSUME Init PROVE Shape
  OBVIOUS
<1>1. Types
  <2>1. 0 \in 0..MaxCalls
    BY BoundsAssumption
  <2>2. NoTally \in [0..MaxPartitions -> Nat]
    BY DEF NoTally
  <2>3. count \in [Topic -> 0..MaxPartitions]
    BY PartitionsAssumption DEF Init
  <2> QED BY <2>1, <2>2, <2>3 DEF Init, Types
<1> QED BY <1>1 DEF Init, Shape, Working, Lists, Sending

\* A producer that is replaced by one that fits its topic.
LEMMA ReplacedLists ==
    ASSUME Types, Lists, NEW t \in Topic, NEW p \in Producer \cup {None},
           p # None => Ordered(p, count[t]),
           producers' = [producers EXCEPT ![t] = p], UNCHANGED count
    PROVE  producers' \in [Topic -> Producer \cup {None}] /\ Lists'
<1>1. producers' \in [Topic -> Producer \cup {None}]
  BY DEF Types
<1>2. \A u \in Topic : producers'[u] = IF u = t THEN p ELSE producers[u]
  BY DEF Types
<1> QED BY <1>1, <1>2 DEF Lists

LEMMA TaskShape ==
    ASSUME Shape, Take \/ Finish \/ BuildSucceeds \/ BuildFails PROVE Shape'
<1>0. Types /\ Working /\ Lists
  BY DEF Shape
<1>1. CASE Take
  <2>1. Head(queue) \in Call /\ Tail(queue) \in Seq(Call)
    BY <1>0, <1>1 DEF Take, Types
  <2>2. Types' /\ Lists'
    BY <1>0, <1>1, <2>1 DEF Take, Types, Lists, brokerVars
  <2>3. cur' \in Call /\ cur' # None /\ producers' = producers
        /\ task' = IF producers[cur'.topic] = None THEN "building" ELSE "sending"
    BY <1>1, <2>1, NoneAssumption DEF Take
  <2>4. Working'
    BY <2>3 DEF Working, Sending
  <2> QED BY <2>2, <2>4 DEF Shape
<1>2. CASE Finish
  <2>1. Types' /\ Lists'
    BY <1>0, <1>2 DEF Finish, Types, Lists, clientVars, brokerVars
  <2>2. Working'
    BY <1>0, <1>2 DEF Finish, Working, Sending
  <2> QED BY <2>1, <2>2 DEF Shape
<1>3. CASE BuildSucceeds
  <2>0. cur \in Call /\ cur.topic \in Topic /\ task = "building"
    BY <1>0, <1>3, CallFields DEF Working, BuildSucceeds
  <2> DEFINE t == cur.topic
  <2>1. PICK p \in Producer : Ordered(p, count[t]) /\ producers' = [producers EXCEPT ![t] = p]
    <3>1. count[t] \in 0..MaxPartitions
      BY <1>0, <2>0 DEF Types
    <3>2. CASE count[t] = 0
      BY <1>3, <3>2, BuiltFields DEF BuildSucceeds
    <3>3. CASE count[t] # 0
      <4>1. count[t] \in 1..MaxPartitions
        BY <3>1, <3>3
      <4>2. PICK start \in 0..(count[t] - 1) :
               producers' = [producers EXCEPT ![t] = Partitioned(count[t], start)]
        BY <1>3, <3>3 DEF BuildSucceeds
      <4> QED BY <4>1, <4>2, BuiltFields
    <3> QED BY <3>2, <3>3
  <2>2. /\ tally' = [tally EXCEPT ![t] = NoTally] /\ task' = "sending"
        /\ UNCHANGED <<policy, clientVars, cur, brokerVars, log, waiting, answered, closes>>
    BY <1>3 DEF BuildSucceeds
  <2>3. producers' \in [Topic -> Producer \cup {None}] /\ Lists'
    BY <1>0, <2>0, <2>1, <2>2, ReplacedLists, ProducerFields DEF brokerVars
  <2>4. NoTally \in [0..MaxPartitions -> Nat]
    BY DEF NoTally
  <2>5. Types'
    BY <1>0, <2>2, <2>3, <2>4 DEF Types, clientVars, brokerVars
  <2>6. producers'[t] # None /\ cur' = cur /\ cur # None
    BY <1>0, <2>0, <2>1, <2>2, NoneAssumption DEF Types
  <2>7. Working'
    BY <2>0, <2>2, <2>6 DEF Working, Sending
  <2> QED BY <2>3, <2>5, <2>7 DEF Shape
<1>4. CASE BuildFails
  <2>1. Types' /\ Lists'
    BY <1>0, <1>4 DEF BuildFails, Types, Lists, clientVars, brokerVars
  <2>2. Working'
    BY <1>0, <1>4 DEF BuildFails, Working, Sending
  <2> QED BY <2>1, <2>2 DEF Shape
<1> QED BY <1>1, <1>2, <1>3, <1>4

\* The producer of the message that is being sent.
LEMMA SendingFields ==
    ASSUME Shape, task \in Sending
    PROVE  /\ cur \in Call /\ cur # None /\ cur.topic \in Topic
           /\ cur.key \in Keys \cup {None} /\ cur.id \in 1..MaxCalls
           /\ producers[cur.topic] \in Producer
           /\ Ordered(producers[cur.topic], count[cur.topic])
           /\ count[cur.topic] \in 0..MaxPartitions
<1>1. cur \in Call /\ cur # None /\ producers[cur.topic] # None
  BY DEF Shape, Working, Sending
<1>2. cur.topic \in Topic /\ cur.key \in Keys \cup {None} /\ cur.id \in 1..MaxCalls
  BY <1>1, CallFields
<1> QED BY <1>1, <1>2 DEF Shape, Types, Lists

\* A step that puts another producer in the place of the current one.
LEMMA CurrentReplaced ==
    ASSUME Shape, task \in Sending, NEW p \in Producer, Ordered(p, count[cur.topic]),
           producers' = [producers EXCEPT ![cur.topic] = p],
           UNCHANGED <<policy, clientVars, brokerVars>>,
           \/ task' \in Sending /\ UNCHANGED cur /\ (task' = "refreshing" => p.partitioned)
           \/ task' = "idle" /\ cur' = None,
           tally' \in [Topic -> [0..MaxPartitions -> Nat]],
           log' \in Seq(Entry), waiting' \subseteq 1..calls
    PROVE  Shape'
<1>1. /\ cur \in Call /\ cur # None /\ cur.topic \in Topic
  BY SendingFields
<1>2. producers' \in [Topic -> Producer \cup {None}] /\ Lists'
  BY <1>1, ReplacedLists, ProducerFields DEF Shape, brokerVars
<1>3. Types'
  BY <1>2 DEF Shape, Types, clientVars, brokerVars
<1>4. producers'[cur.topic] = p /\ p # None
  BY <1>1, NoneAssumption DEF Shape, Types
<1>5. Working'
  BY <1>1, <1>4 DEF Shape, Working, Sending
<1> QED BY <1>2, <1>3, <1>5 DEF Shape

LEMMA RefreshShape ==
    ASSUME Shape, RefreshStarts \/ RefreshSucceeds \/ RefreshFails PROVE Shape'
<1>0. /\ task \in Sending
      /\ tally \in [Topic -> [0..MaxPartitions -> Nat]] /\ log \in Seq(Entry)
      /\ waiting \subseteq 1..calls
  BY DEF RefreshStarts, RefreshSucceeds, RefreshFails, MustRefresh, Sending, Shape, Types
<1>1. /\ cur.topic \in Topic /\ producers[cur.topic] \in Producer
      /\ Ordered(producers[cur.topic], count[cur.topic])
      /\ count[cur.topic] \in 0..MaxPartitions
  BY <1>0, SendingFields
<1> DEFINE p == producers[cur.topic]
<1>2. CASE RefreshSucceeds
  <2>1. /\ producers' = [producers EXCEPT ![cur.topic] = Grown(p, count[cur.topic])]
        /\ UNCHANGED <<policy, clientVars, cur, brokerVars, log, waiting>>
        /\ tally' = tally \/ tally' = [tally EXCEPT ![cur.topic] = NoTally]
        /\ task' = "routing" /\ p.partitioned
    BY <1>2 DEF RefreshSucceeds, Shape, Working
  <2>2. /\ Grown(p, count[cur.topic]) \in Producer
        /\ Ordered(Grown(p, count[cur.topic]), count[cur.topic])
    BY <1>1, <2>1, GrownFields
  <2>3. tally' \in [Topic -> [0..MaxPartitions -> Nat]]
    <3>1. NoTally \in [0..MaxPartitions -> Nat]
      BY DEF NoTally
    <3> QED BY <1>0, <1>1, <2>1, <3>1
  <2>4. task' \in Sending /\ task' # "refreshing"
    BY <2>1 DEF Sending
  <2> HIDE DEF p
  <2> QED BY <1>0, <2>1, <2>2, <2>3, <2>4, CurrentReplaced DEF p
<1>3. CASE RefreshFails
  <2>1. Types' /\ Lists'
    BY <1>3 DEF RefreshFails, Shape, Types, Lists, clientVars, brokerVars
  <2>2. Working'
    BY <1>3 DEF RefreshFails, Shape, Working, Sending
  <2> QED BY <2>1, <2>2 DEF Shape
<1>4. CASE RefreshStarts
  <2> DEFINE q == [p EXCEPT !.due = FALSE]
  <2>1. /\ producers' = [producers EXCEPT ![cur.topic].due = FALSE]
        /\ UNCHANGED <<policy, clientVars, cur, brokerVars, log, waiting, tally>>
        /\ task' \in Sending /\ p.partitioned
    BY <1>4 DEF RefreshStarts, MustRefresh, Sending
  <2>2. producers' = [producers EXCEPT ![cur.topic] = q]
    BY <2>1, <1>1 DEF Producer
  <2>3. q \in Producer /\ Ordered(q, count[cur.topic]) /\ q.partitioned
    BY <1>1, <2>1, ProducerFields DEF Ordered
  <2> HIDE DEF q
  <2> QED BY <1>0, <2>1, <2>2, <2>3, CurrentReplaced
<1> QED BY <1>2, <1>3, <1>4

\* A send goes to a producer the policy chooses, and is accepted or fails.
LEMMA SentFields ==
    ASSUME Shape, SendThrough
    PROVE  LET t == cur.topic
               p == producers[t]
           IN  \E c : /\ c[1] \in 0..(Len(p.parts) - 1) /\ c[2] \in 0..(Len(p.parts) - 1)
                      /\ p.parts[c[1] + 1] = c[1]
                      /\ policy = "RoundRobin" /\ cur.key = None
                            => c[1] = NextIndex(p) /\ c[2] = c[1]
                      /\ policy = "RoundRobin" /\ cur.key # None => c[2] = p.last
                      /\ policy = "Single" /\ cur.key = None => c[1] = p.last
                      /\ policy = "Single" => c[2] = p.last
                      /\ p.partitioned /\ policy # "Custom" /\ cur.key # None
                            => c[1] = PartitionForKey(cur.key, Len(p.parts))
                      /\ producers' = [producers EXCEPT ![t] = [p EXCEPT !.last = c[2]]]
                      /\ IF cur.key = None
                         THEN tally' = [tally EXCEPT ![t] = [tally[t] EXCEPT ![c[1]] = @ + 1]]
                         ELSE UNCHANGED tally
                      /\ \/ /\ log' = Append(log, [id |-> cur.id, topic |-> t,
                                         key |-> cur.key, partition |-> c[1],
                                         known |-> Len(p.parts)])
                            /\ waiting' = waiting \cup {cur.id}
                         \/ UNCHANGED <<log, waiting>>
<1> DEFINE t == cur.topic
           p == producers[t]
<1>0. /\ t \in Topic /\ p \in Producer /\ Ordered(p, count[t]) /\ cur.key \in Keys \cup {None}
      /\ policy \in Policies /\ tally \in [Topic -> [0..MaxPartitions -> Nat]]
      /\ producers \in [Topic -> Producer \cup {None}]
  BY SendingFields DEF SendThrough, Shape, Types, Sending
<1> HIDE DEF p, t
<1>1. PICK c \in IF p.partitioned THEN Routes(p, cur.key) ELSE {<<0, 0>>} :
             /\ producers' = [producers EXCEPT ![t].last = c[2]]
             /\ IF cur.key = None
                THEN tally' = [tally EXCEPT ![t][p.parts[c[1] + 1]] = @ + 1]
                ELSE UNCHANGED tally
             /\ \/ /\ log' = Append(log, [id |-> cur.id, topic |-> t, key |-> cur.key,
                                          partition |-> p.parts[c[1] + 1],
                                          known |-> Len(p.parts)])
                   /\ waiting' = waiting \cup {cur.id}
                   /\ UNCHANGED answered
                \/ /\ answered' = answered \cup {cur.id}
                   /\ UNCHANGED <<log, waiting>>
  BY DEF SendThrough, p, t
<1>2. /\ c[1] \in 0..(Len(p.parts) - 1) /\ c[2] \in 0..(Len(p.parts) - 1)
      /\ p.parts[c[1] + 1] = c[1]
      /\ policy = "RoundRobin" /\ cur.key = None => c[1] = NextIndex(p) /\ c[2] = c[1]
      /\ policy = "RoundRobin" /\ cur.key # None => c[2] = p.last
      /\ policy = "Single" /\ cur.key = None => c[1] = p.last
      /\ policy = "Single" => c[2] = p.last
      /\ p.partitioned /\ policy # "Custom" /\ cur.key # None
            => c[1] = PartitionForKey(cur.key, Len(p.parts))
  BY <1>0, Chosen
<1>3. producers' = [producers EXCEPT ![t] = [p EXCEPT !.last = c[2]]]
  BY <1>0, <1>1 DEF p
<1>4. IF cur.key = None
      THEN tally' = [tally EXCEPT ![t] = [tally[t] EXCEPT ![c[1]] = @ + 1]]
      ELSE UNCHANGED tally
  BY <1>0, <1>1, <1>2
<1> QED BY <1>1, <1>2, <1>3, <1>4 DEF p, t

LEMMA CountedOnce ==
    ASSUME NEW S, NEW f \in [S -> Nat], NEW x \in S
    PROVE  /\ [f EXCEPT ![x] = @ + 1] \in [S -> Nat]
           /\ [f EXCEPT ![x] = @ + 1][x] = f[x] + 1
           /\ \A y \in S \ {x} : [f EXCEPT ![x] = @ + 1][y] = f[y]
OBVIOUS

LEMMA SendShape == ASSUME Shape, SendThrough, cur.id <= calls PROVE Shape'
<1> DEFINE t == cur.topic
           p == producers[t]
<1>0. /\ t \in Topic /\ p \in Producer /\ Ordered(p, count[t])
      /\ cur.key \in Keys \cup {None} /\ cur.id \in 1..MaxCalls
      /\ tally \in [Topic -> [0..MaxPartitions -> Nat]] /\ log \in Seq(Entry)
      /\ waiting \subseteq 1..calls /\ calls \in 0..MaxCalls /\ task \in Sending
  BY SendingFields DEF SendThrough, Sending, Shape, Types
<1>1. PICK c : /\ c[1] \in 0..(Len(p.parts) - 1) /\ c[2] \in 0..(Len(p.parts) - 1)
               /\ producers' = [producers EXCEPT ![t] = [p EXCEPT !.last = c[2]]]
               /\ IF cur.key = None
                  THEN tally' = [tally EXCEPT ![t] = [tally[t] EXCEPT ![c[1]] = @ + 1]]
                  ELSE UNCHANGED tally
               /\ \/ /\ log' = Append(log, [id |-> cur.id, topic |-> t,
                                  key |-> cur.key, partition |-> c[1],
                                  known |-> Len(p.parts)])
                     /\ waiting' = waiting \cup {cur.id}
                  \/ UNCHANGED <<log, waiting>>
  BY SentFields
<1> HIDE DEF p, t
<1>2. Len(p.parts) \in 1..MaxPartitions
  BY <1>0 DEF Ordered
<1>3. c[1] \in Nat /\ c[2] \in Nat /\ c[1] \in 0..MaxPartitions
  BY <1>1, <1>2, PartitionsAssumption
<1> DEFINE q == [p EXCEPT !.last = c[2]]
<1>4. q \in Producer /\ Ordered(q, count[t])
  BY <1>0, <1>1, <1>3, ProducerFields DEF Ordered
<1>5. tally' \in [Topic -> [0..MaxPartitions -> Nat]]
  <2> DEFINE u == [tally[t] EXCEPT ![c[1]] = @ + 1]
  <2>1. u \in [0..MaxPartitions -> Nat]
    <3>1. tally[t] \in [0..MaxPartitions -> Nat]
      BY <1>0
    <3> QED BY <1>3, <3>1, CountedOnce
  <2>2. tally' = tally \/ tally' = [tally EXCEPT ![t] = u]
    BY <1>1
  <2> HIDE DEF u
  <2> QED BY <1>0, <2>1, <2>2
<1>6. log' \in Seq(Entry)
  <2> DEFINE e == [id |-> cur.id, topic |-> t, key |-> cur.key, partition |-> c[1],
                   known |-> Len(p.parts)]
  <2>1. e \in Entry
    BY <1>0, <1>2, <1>3 DEF Entry
  <2>2. log' = log \/ log' = Append(log, e)
    BY <1>1
  <2> HIDE DEF e
  <2> QED BY <1>0, <2>1, <2>2
<1>7. waiting' \subseteq 1..calls
  BY <1>0, <1>1
<1>8. /\ UNCHANGED <<policy, clientVars, brokerVars>> /\ task' = "idle" /\ cur' = None
  BY DEF SendThrough
<1> HIDE DEF q
<1>9. producers' = [producers EXCEPT ![cur.topic] = q] /\ Ordered(q, count[cur.topic])
  BY <1>1, <1>4 DEF q, t
<1> QED BY <1>0, <1>4, <1>5, <1>6, <1>7, <1>8, <1>9, CurrentReplaced

LEMMA ClientShape ==
    ASSUME Shape, Send \/ DropClient \/ CloseProducer \/ (\E i \in 1..MaxCalls : Resolve(i))
    PROVE  Shape'
<1>0. Types /\ Working /\ Lists
  BY DEF Shape
<1>1. CASE Send
  <2>1. PICK t \in Topic, k \in Keys \cup {None} :
             queue' = Append(queue, [id |-> calls + 1, topic |-> t, key |-> k])
    BY <1>1 DEF Send
  <2>2. calls' = calls + 1 /\ calls + 1 \in 1..MaxCalls
    BY <1>0, <1>1, BoundsAssumption DEF Send, Types
  <2> DEFINE e == [id |-> calls + 1, topic |-> t, key |-> k]
  <2>3. e \in Call
    BY <2>2 DEF Call
  <2>4. queue' \in Seq(Call)
    <3> HIDE DEF e
    <3>1. queue' = Append(queue, e)
      BY <2>1 DEF e
    <3> QED BY <1>0, <2>3, <3>1 DEF Types
  <2>5. calls' \in 0..MaxCalls /\ waiting \subseteq 1..calls'
    BY <1>0, <2>2, BoundsAssumption DEF Types
  <2>6. UNCHANGED <<policy, handles, task, cur, producers, brokerVars, log,
                   waiting, answered, tally, closes>>
    BY <1>1 DEF Send
  <2>7. Types'
    BY <1>0, <2>4, <2>5, <2>6 DEF Types, brokerVars
  <2> QED BY <1>0, <2>6, <2>7 DEF Shape, Working, Lists, brokerVars
<1>2. CASE DropClient
  BY <1>0, <1>2 DEF DropClient, Shape, Types, Working, Lists, brokerVars
<1>3. CASE CloseProducer
  <2>1. PICK t \in Topic : producers' = [producers EXCEPT ![t] = None] \/ producers' = producers
    BY <1>3 DEF CloseProducer
  <2>2. task = "idle" /\ UNCHANGED <<policy, clientVars, task, cur, brokerVars, log, waiting, tally>>
    BY <1>3 DEF CloseProducer
  <2>3. producers' \in [Topic -> Producer \cup {None}] /\ Lists'
    <3>1. CASE producers' = producers
      BY <1>0, <2>2, <3>1 DEF Types, Lists, brokerVars
    <3>2. CASE producers' = [producers EXCEPT ![t] = None]
      BY <1>0, <2>2, <3>2, ReplacedLists DEF brokerVars
    <3> QED BY <2>1, <3>1, <3>2
  <2>4. Types' /\ Working'
    BY <1>0, <2>2, <2>3 DEF Types, Working, clientVars, brokerVars, Sending
  <2> QED BY <2>3, <2>4 DEF Shape
<1>4. ASSUME NEW i \in 1..MaxCalls, Resolve(i) PROVE Shape'
  <2>1. waiting' \subseteq 1..calls
    BY <1>0, <1>4 DEF Resolve, Types
  <2> QED BY <1>0, <1>4, <2>1
         DEF Resolve, Shape, Types, Working, Lists, clientVars, brokerVars
<1> QED BY <1>1, <1>2, <1>3, <1>4

LEMMA BrokerShape == ASSUME Shape, Grow \/ IntervalElapses PROVE Shape'
<1>0. Types /\ Working /\ Lists
  BY DEF Shape
<1>1. CASE Grow
  <2>1. PICK t \in Topic : /\ count[t] \in 1..(MaxPartitions - 1)
                           /\ count' = [count EXCEPT ![t] = @ + 1]
    BY <1>1 DEF Grow
  <2>2. UNCHANGED <<policy, clientVars, task, cur, producers, elapsed, log, waiting,
                    answered, tally, closes>>
    BY <1>1 DEF Grow
  <2>3. /\ count' \in [Topic -> 0..MaxPartitions]
        /\ \A u \in Topic : count'[u] = count[u] \/ (count[u] # 0 /\ count'[u] = count[u] + 1)
    BY <1>0, <2>1, PartitionsAssumption DEF Types
  <2>4. Types' /\ Working'
    BY <1>0, <2>2, <2>3 DEF Types, Working, clientVars
  <2>5. ASSUME NEW u \in Topic, producers'[u] # None PROVE Ordered(producers'[u], count'[u])
    <3>1. Ordered(producers[u], count[u]) /\ producers'[u] = producers[u]
          /\ count[u] \in 0..MaxPartitions
      BY <1>0, <2>2, <2>5 DEF Types, Lists
    <3>2. CASE count'[u] = count[u]
      BY <3>1, <3>2
    <3>3. CASE count[u] # 0 /\ count'[u] = count[u] + 1
      BY <3>1, <3>3, PartitionsAssumption DEF Ordered
    <3> QED BY <2>3, <3>2, <3>3
  <2> QED BY <2>4, <2>5 DEF Shape, Lists
<1>2. CASE IntervalElapses
  <2>1. PICK t \in Topic : /\ producers[t] # None
                           /\ producers' = [producers EXCEPT ![t].due = TRUE]
    BY <1>2 DEF IntervalElapses
  <2>2. UNCHANGED <<policy, clientVars, task, cur, count, log, waiting, answered, tally, closes>>
    BY <1>2 DEF IntervalElapses
  <2> DEFINE q == [producers[t] EXCEPT !.due = TRUE]
  <2>3. producers[t] \in Producer /\ Ordered(producers[t], count[t])
    BY <1>0, <2>1 DEF Types, Lists
  <2>4. q \in Producer /\ Ordered(q, count[t])
    BY <2>3, ProducerFields DEF Ordered
  <2>5. producers' = [producers EXCEPT ![t] = q]
    BY <1>0, <2>1 DEF Types
  <2> HIDE DEF q
  <2>6. producers' \in [Topic -> Producer \cup {None}] /\ Lists'
    BY <1>0, <2>2, <2>4, <2>5, ReplacedLists
  <2>7. Types'
    BY <1>0, <2>2, <2>6 DEF Types, clientVars
  <2>8. \A u \in Topic :
           /\ producers'[u] = None <=> producers[u] = None
           /\ producers[u] # None => producers'[u].partitioned = producers[u].partitioned
    <3>1. q # None /\ q.partitioned = producers[t].partitioned
      BY <2>3, <2>4, ProducerFields, NoneAssumption DEF q
    <3>2. \A u \in Topic : producers'[u] = IF u = t THEN q ELSE producers[u]
      BY <1>0, <2>5 DEF Types
    <3> QED BY <2>1, <3>1, <3>2
  <2>9. cur # None => cur.topic \in Topic
    BY <1>0, CallFields DEF Working
  <2>10. Working'
    BY <1>0, <2>2, <2>8, <2>9 DEF Working, Sending
  <2> QED BY <2>6, <2>7, <2>10 DEF Shape
<1> QED BY <1>1, <1>2

LEMMA ShapeNext == ASSUME Shape, CallsInOrder, [Next]_vars PROVE Shape'
<1>1. CASE UNCHANGED vars
  BY <1>1 DEF Shape, Types, Working, Lists, vars, clientVars, brokerVars
<1>2. SendThrough => cur.id <= calls
  BY SendingFields DEF CallsInOrder, SendThrough, Sending
<1> QED
  BY <1>1, <1>2, TaskShape, RefreshShape, SendShape, ClientShape, BrokerShape
     DEF Next, RunProducer

-----------------------------------------------------------------------------
(* The order of the calls. *)

LEMMA InitOrder == Init => CallsInOrder
BY DEF Init, CallsInOrder

LEMMA AppendFacts ==
    ASSUME NEW S, NEW s \in Seq(S), NEW x \in S
    PROVE  /\ Append(s, x) \in Seq(S)
           /\ Len(s) \in Nat /\ DOMAIN s = 1..Len(s)
           /\ DOMAIN Append(s, x) = 1..(Len(s) + 1)
           /\ \A i \in DOMAIN s : Append(s, x)[i] = s[i]
           /\ Append(s, x)[Len(s) + 1] = x
OBVIOUS

LEMMA TailFacts ==
    ASSUME NEW S, NEW s \in Seq(S), s # <<>>
    PROVE  /\ Head(s) \in S /\ Head(s) = s[1]
           /\ Len(s) \in Nat \ {0} /\ DOMAIN s = 1..Len(s)
           /\ DOMAIN Tail(s) = 1..(Len(s) - 1)
           /\ \A i \in DOMAIN Tail(s) : i + 1 \in DOMAIN s /\ Tail(s)[i] = s[i + 1]
OBVIOUS

\* A message that is put behind smaller ones is in order.
LEMMA AppendRises ==
    ASSUME NEW S, \A e \in S : e.id \in Nat, NEW s \in Seq(S), NEW x \in S,
           \A i \in DOMAIN s : s[i].id < x.id,
           \A i, j \in DOMAIN s : i < j => s[i].id < s[j].id
    PROVE  /\ \A i, j \in DOMAIN Append(s, x) : i < j =>
                  Append(s, x)[i].id < Append(s, x)[j].id
           /\ \A i \in DOMAIN Append(s, x) : Append(s, x)[i] = x \/
                  \E j \in DOMAIN s : Append(s, x)[i] = s[j]
<1>1. /\ Len(s) \in Nat /\ DOMAIN s = 1..Len(s)
      /\ DOMAIN Append(s, x) = 1..(Len(s) + 1)
      /\ \A i \in DOMAIN s : Append(s, x)[i] = s[i]
      /\ Append(s, x)[Len(s) + 1] = x
  BY AppendFacts
<1>2. \A i \in DOMAIN Append(s, x) : i \in DOMAIN s \/ i = Len(s) + 1
  BY <1>1
<1>3. ASSUME NEW i \in DOMAIN Append(s, x), NEW j \in DOMAIN Append(s, x), i < j
      PROVE  Append(s, x)[i].id < Append(s, x)[j].id
  <2>1. i \in DOMAIN s
    BY <1>1, <1>2, <1>3
  <2>2. CASE j \in DOMAIN s
    BY <1>1, <1>3, <2>1, <2>2
  <2>3. CASE j = Len(s) + 1
    BY <1>1, <2>1, <2>3
  <2> QED BY <1>2, <2>2, <2>3
<1> QED BY <1>1, <1>2, <1>3

LEMMA Ids ==
    ASSUME Shape
    PROVE  /\ calls \in Nat /\ (\A e \in Call : e.id \in Nat) /\ \A e \in Entry : e.id \in Nat
           /\ \A i \in DOMAIN log : log[i] \in Entry /\ log[i].id \in Nat
           /\ \A i \in DOMAIN queue : queue[i] \in Call /\ queue[i].id \in Nat
           /\ cur # None => cur.id \in Nat
<1>1. calls \in Nat /\ 1..MaxCalls \subseteq Nat
  BY BoundsAssumption DEF Shape, Types
<1>2. (\A e \in Call : e.id \in Nat) /\ \A e \in Entry : e.id \in Nat
  BY <1>1 DEF Call, Entry
<1>3. \A i \in DOMAIN log : log[i] \in Entry
  BY DEF Shape, Types
<1>4. \A i \in DOMAIN queue : queue[i] \in Call
  BY DEF Shape, Types
<1>5. cur # None => cur \in Call
  BY DEF Shape, Working
<1> QED BY <1>1, <1>2, <1>3, <1>4, <1>5

LEMMA OrderNext == ASSUME Shape, CallsInOrder, [Next]_vars PROVE CallsInOrder'
<1>0. /\ calls \in Nat /\ (\A e \in Call : e.id \in Nat) /\ (\A e \in Entry : e.id \in Nat)
      /\ (\A i \in DOMAIN log : log[i] \in Entry /\ log[i].id \in Nat)
      /\ (\A i \in DOMAIN queue : queue[i] \in Call /\ queue[i].id \in Nat)
      /\ cur # None => cur.id \in Nat
      /\ queue \in Seq(Call) /\ log \in Seq(Entry)
  BY Ids DEF Shape, Types
<1>1. ASSUME UNCHANGED <<calls, queue, log>>, cur' = cur \/ cur' = None
      PROVE  CallsInOrder'
  BY <1>1 DEF CallsInOrder
<1>2. CASE Send
  <2>1. PICK t \in Topic, k \in Keys \cup {None} :
             queue' = Append(queue, [id |-> calls + 1, topic |-> t, key |-> k])
    BY <1>2 DEF Send
  <2> DEFINE e == [id |-> calls + 1, topic |-> t, key |-> k]
  <2>2. e \in Call /\ e.id = calls + 1
    BY <1>0, <1>2, BoundsAssumption DEF Send, Call
  <2> HIDE DEF e
  <2>3. queue' = Append(queue, e) /\ calls' = calls + 1 /\ UNCHANGED <<log, cur>>
    BY <1>2, <2>1 DEF Send, e
  <2>4. \A i \in DOMAIN queue : queue[i].id < e.id
    BY <1>0, <2>2 DEF CallsInOrder
  <2>5. /\ \A i, j \in DOMAIN queue' : i < j => queue'[i].id < queue'[j].id
        /\ \A i \in DOMAIN queue' : queue'[i] = e \/ \E j \in DOMAIN queue : queue'[i] = queue[j]
    BY <1>0, <2>2, <2>3, <2>4, AppendRises DEF CallsInOrder
  <2>6. \A i \in DOMAIN queue' : queue'[i].id <= calls'
    BY <1>0, <2>2, <2>3, <2>5 DEF CallsInOrder
  <2>7. \A i \in DOMAIN log : \A k2 \in DOMAIN queue' : log[i].id < queue'[k2].id
    BY <1>0, <2>2, <2>5 DEF CallsInOrder
  <2>8. cur # None => \A k2 \in DOMAIN queue' : cur.id < queue'[k2].id
    BY <1>0, <2>2, <2>5 DEF CallsInOrder
  <2>9. /\ \A i \in DOMAIN log : log[i].id <= calls'
        /\ cur # None => cur.id <= calls'
    BY <1>0, <2>3 DEF CallsInOrder
  <2> QED BY <2>3, <2>5, <2>6, <2>7, <2>8, <2>9 DEF CallsInOrder
<1>3. CASE Take
  <2>1. /\ queue # <<>> /\ cur' = Head(queue) /\ queue' = Tail(queue)
        /\ UNCHANGED <<calls, log>>
    BY <1>3 DEF Take
  <2>2. /\ cur' = queue[1] /\ Len(queue) \in Nat \ {0} /\ DOMAIN queue = 1..Len(queue)
        /\ DOMAIN queue' = 1..(Len(queue) - 1)
        /\ \A i \in DOMAIN queue' : i + 1 \in DOMAIN queue /\ queue'[i] = queue[i + 1]
    BY <1>0, <2>1, TailFacts
  <2>3. 1 \in DOMAIN queue /\ \A i \in DOMAIN queue' : i \in Nat /\ 1 < i + 1
    BY <2>2
  <2>4. \A i, j \in DOMAIN queue' : i < j => queue'[i].id < queue'[j].id
    <3>1. ASSUME NEW i \in DOMAIN queue', NEW j \in DOMAIN queue', i < j
          PROVE  queue'[i].id < queue'[j].id
      <4>1. i + 1 \in DOMAIN queue /\ j + 1 \in DOMAIN queue /\ i + 1 < j + 1
        BY <2>2, <2>3, <3>1
      <4> QED BY <2>2, <3>1, <4>1 DEF CallsInOrder
    <3> QED BY <3>1
  <2>5. \A k \in DOMAIN queue' : cur'.id < queue'[k].id
    <3>1. ASSUME NEW k \in DOMAIN queue' PROVE cur'.id < queue'[k].id
      <4>1. k + 1 \in DOMAIN queue /\ 1 < k + 1 /\ queue'[k] = queue[k + 1]
        BY <2>2, <2>3
      <4> QED BY <2>2, <2>3, <4>1 DEF CallsInOrder
    <3> QED BY <3>1
  <2>6. /\ \A k \in DOMAIN queue' : queue'[k].id <= calls
        /\ \A i \in DOMAIN log : \A k \in DOMAIN queue' : log[i].id < queue'[k].id
        /\ cur'.id <= calls /\ \A i \in DOMAIN log : log[i].id < cur'.id
    BY <2>2, <2>3 DEF CallsInOrder
  <2> QED BY <2>1, <2>4, <2>5, <2>6 DEF CallsInOrder
<1>4. CASE SendThrough
  <2>1. /\ cur' = None /\ UNCHANGED <<calls, queue>> /\ task \in Sending
    BY <1>4 DEF SendThrough, Sending, clientVars
  <2>2. CASE UNCHANGED log
    BY <1>1, <2>1, <2>2
  <2>3. CASE log' # log
    <3> DEFINE E(c) == [id |-> cur.id, topic |-> cur.topic, key |-> cur.key,
                        partition |-> c, known |-> Len(producers[cur.topic].parts)]
    <3>1. PICK c : log' = Append(log, E(c)) /\ c \in 0..(Len(producers[cur.topic].parts) - 1)
      BY <1>4, <2>3, SentFields
    <3>2. E(c) \in Entry /\ E(c).id = cur.id /\ cur # None
      <4>1. /\ cur.id \in 1..MaxCalls /\ cur.topic \in Topic /\ cur.key \in Keys \cup {None}
            /\ Len(producers[cur.topic].parts) \in Nat /\ cur # None
        BY <2>1, SendingFields, PartitionsAssumption DEF Ordered
      <4> QED BY <3>1, <4>1 DEF Entry
    <3> DEFINE e == E(c)
    <3> HIDE DEF E
    <3>3. \A i \in DOMAIN log : log[i].id < e.id
      BY <3>2 DEF CallsInOrder
    <3> HIDE DEF e
    <3>4. e \in Entry /\ e.id = cur.id /\ log' = Append(log, e)
      BY <3>1, <3>2 DEF e
    <3>5. /\ \A i, j \in DOMAIN log' : i < j => log'[i].id < log'[j].id
          /\ \A i \in DOMAIN log' : log'[i] = e \/ \E j \in DOMAIN log : log'[i] = log[j]
      BY <1>0, <3>3, <3>4, AppendRises DEF CallsInOrder
    <3>6. /\ \A i \in DOMAIN log' : log'[i].id <= calls
          /\ \A i \in DOMAIN log' : \A k \in DOMAIN queue : log'[i].id < queue[k].id
      BY <3>2, <3>4, <3>5 DEF CallsInOrder
    <3> QED BY <2>1, <3>5, <3>6 DEF CallsInOrder
  <2> QED BY <2>2, <2>3
<1>5. CASE RunProducer /\ ~Take /\ ~SendThrough
  BY <1>1, <1>5 DEF RunProducer, Finish, BuildSucceeds, BuildFails,
     RefreshStarts, RefreshSucceeds,
     RefreshFails, clientVars
<1>6. CASE \/ DropClient \/ CloseProducer \/ Grow \/ IntervalElapses \/ UNCHANGED vars
           \/ \E i \in 1..MaxCalls : Resolve(i)
  BY <1>1, <1>6 DEF DropClient, CloseProducer, Grow, IntervalElapses, Resolve, vars, clientVars
<1> QED BY <1>2, <1>3, <1>4, <1>5, <1>6 DEF Next

LEMMA ShapeAlways == Spec => [](Shape /\ CallsInOrder)
<1>1. Init => Shape /\ CallsInOrder
  BY InitShape, InitOrder
<1>2. Shape /\ CallsInOrder /\ [Next]_vars => (Shape /\ CallsInOrder)'
  BY ShapeNext, OrderNext
<1> QED BY <1>1, <1>2, PTL DEF Spec

\* run_producer and its producers keep their type: last_used_producer_index
\* always names a producer, which choose_partition unwraps.
THEOREM TypeCorrect == Spec => []TypeOK
<1>1. Shape => TypeOK
  <2> SUFFICES ASSUME Shape PROVE TypeOK
    OBVIOUS
  <2>1. ASSUME NEW t \in Topic, producers[t] # None
        PROVE  producers[t].parts # <<>> /\ producers[t].last \in 0..(Len(producers[t].parts) - 1)
    <3>1. Ordered(producers[t], count[t])
      BY <2>1 DEF Shape, Lists
    <3>2. Len(producers[t].parts) # 0
      BY <3>1, PartitionsAssumption DEF Ordered
    <3> QED BY <3>1, <3>2 DEF Ordered
  <2> QED BY <2>1 DEF Shape, Types, Working, TypeOK
<1> QED BY ShapeAlways, <1>1, PTL

\* The messages of a topic that were accepted are in the order of the calls.
THEOREM CallsAlwaysInOrder == Spec => []CallOrder
<1>1. CallsInOrder => CallOrder
  BY DEF CallsInOrder, CallOrder
<1> QED BY ShapeAlways, <1>1, PTL

-----------------------------------------------------------------------------
(* The rules of the policies. *)

LEMMA NoTallyEven ==
    ASSUME NEW n \in 1..MaxPartitions, NEW last \in 0..(n - 1)
    PROVE  Even(NoTally, last, n)
<1>1. \A i \in 0..(n - 1) : NoTally[i] = 0
  BY PartitionsAssumption DEF NoTally
<1> QED BY <1>1 DEF Even

\* The partition whose turn it is gets a message, and its next turn is last.
LEMMA NextTurn ==
    ASSUME NEW m \in Nat, NEW n \in 1..m, NEW counts \in [0..m -> Nat],
           NEW last \in 0..(n - 1), Even(counts, last, n),
           NEW next, next = IF last + 1 >= n THEN 0 ELSE last + 1
    PROVE  Even([counts EXCEPT ![next] = @ + 1], next, n)
<1> DEFINE bumped == [counts EXCEPT ![next] = @ + 1]
<1>1. next \in 0..(n - 1) /\ n \in Nat \ {0} /\ last \in Nat
  OBVIOUS
<1>2. /\ \A i \in 0..(n - 1) : i # next => bumped[i] = counts[i]
      /\ bumped[next] = counts[next] + 1
      /\ \A i \in 0..(n - 1) : counts[i] \in Nat
  BY <1>1
<1> HIDE DEF bumped
<1>3. ASSUME NEW i \in 0..(n - 1), i # next
      PROVE  /\ Turn(next, last, n) < Turn(i, last, n)
             /\ Turn(i, next, n) = Turn(i, last, n) - 1
             /\ Turn(i, next, n) < Turn(next, next, n)
             /\ Turn(i, last, n) \in Nat
  BY <1>1, <1>3 DEF Turn
<1>4. \A i \in 0..(n - 1) : i # next => counts[next] <= counts[i]
  BY <1>1, <1>3 DEF Even
<1>5. ASSUME NEW i \in 0..(n - 1), NEW j \in 0..(n - 1)
      PROVE  /\ bumped[i] <= bumped[j] + 1
             /\ Turn(i, next, n) < Turn(j, next, n) => bumped[i] <= bumped[j]
  <2>0. counts[i] <= counts[j] + 1 /\ counts[i] \in Nat /\ counts[j] \in Nat /\ counts[next] \in Nat
    BY <1>1, <1>2 DEF Even
  <2>1. CASE i # next /\ j # next
    <3>1. bumped[i] = counts[i] /\ bumped[j] = counts[j]
      BY <1>2, <2>1
    <3>2. Turn(i, next, n) < Turn(j, next, n) => Turn(i, last, n) < Turn(j, last, n)
      <4>1. /\ Turn(i, next, n) = Turn(i, last, n) - 1 /\ Turn(j, next, n) = Turn(j, last, n) - 1
            /\ Turn(i, last, n) \in Nat /\ Turn(j, last, n) \in Nat
        BY <1>3, <2>1
      <4> QED BY <4>1
    <3> QED BY <2>0, <3>1, <3>2 DEF Even
  <2>2. CASE i = next /\ j # next
    <3>1. counts[next] <= counts[j] /\ bumped[i] = counts[next] + 1 /\ bumped[j] = counts[j]
      BY <1>2, <1>4, <2>2
    <3>2. ~(Turn(i, next, n) < Turn(j, next, n))
      <4>1. Turn(j, next, n) < Turn(next, next, n)
        BY <1>3, <2>2
      <4>2. Turn(j, next, n) \in Int /\ Turn(next, next, n) \in Int
        BY <1>1 DEF Turn
      <4> QED BY <2>2, <4>1, <4>2
    <3> QED BY <2>0, <3>1, <3>2
  <2>3. CASE i # next /\ j = next
    <3>1. counts[i] <= counts[next] + 1 /\ bumped[i] = counts[i] /\ bumped[j] = counts[next] + 1
      BY <1>2, <2>0, <2>3
    <3> QED BY <2>0, <3>1
  <2>4. CASE i = next /\ j = next
    <3>1. bumped[i] = bumped[j] /\ bumped[i] \in Nat
      BY <1>2, <2>0, <2>4
    <3> QED BY <3>1
  <2> QED BY <2>1, <2>2, <2>3, <2>4
<1> QED BY <1>5 DEF Even, bumped

\* A topic whose producer keeps its list, its place and its counts stays even.
LEMMA StaysEven ==
    ASSUME Shape, AllEven, NEW t \in Topic, policy = "RoundRobin", producers[t] # None,
           producers'[t].last = producers[t].last,
           Len(producers'[t].parts) = Len(producers[t].parts), tally'[t] = tally[t]
    PROVE  Even(tally'[t], producers'[t].last, Len(producers'[t].parts))
BY DEF AllEven

LEMMA EvenNext == ASSUME Shape, AllEven, [Next]_vars PROVE AllEven'
<1>0. /\ producers \in [Topic -> Producer \cup {None}] /\ count \in [Topic -> 0..MaxPartitions]
      /\ tally \in [Topic -> [0..MaxPartitions -> Nat]] /\ policy' = policy
  BY DEF Shape, Types, Next, RunProducer, Send, DropClient, Take, Finish, BuildSucceeds,
     BuildFails,
     RefreshStarts, RefreshSucceeds, RefreshFails, SendThrough, CloseProducer, Resolve, Grow,
     IntervalElapses, vars
<1> SUFFICES ASSUME policy = "RoundRobin", NEW t \in Topic, producers'[t] # None
             PROVE  Even(tally'[t], producers'[t].last, Len(producers'[t].parts))
  BY <1>0 DEF AllEven
<1>1. CASE producers'[t] = producers[t] /\ tally'[t] = tally[t]
  BY <1>1, StaysEven
<1>2. CASE BuildSucceeds /\ t = cur.topic
  <2>1. tally'[t] = NoTally /\ count[t] \in 0..MaxPartitions
    BY <1>0, <1>2 DEF BuildSucceeds
  <2>2. /\ Len(producers'[t].parts) \in 1..MaxPartitions
        /\ producers'[t].last \in 0..(Len(producers'[t].parts) - 1)
    <3>1. Shape'
      BY <1>2, TaskShape
    <3> QED BY <3>1 DEF Shape, Lists, Ordered
  <2> QED BY <2>1, <2>2, NoTallyEven
<1>3. CASE RefreshSucceeds /\ t = cur.topic
  <2>1. producers[t] # None /\ producers'[t] = Grown(producers[t], count[t])
        /\ producers[t].partitioned /\ task = "refreshing"
    BY <1>0, <1>3, NoneAssumption DEF RefreshSucceeds, Shape, Working, Sending
  <2>2. producers'[t].last = producers[t].last
    <3>1. /\ producers[t] \in Producer /\ count[t] \in 0..MaxPartitions
          /\ Ordered(producers[t], count[t])
      BY <1>0, <2>1 DEF Shape, Lists
    <3> QED BY <2>1, <3>1, GrownFields
  <2>3. CASE Len(producers'[t].parts) = Len(producers[t].parts)
    <3>1. tally'[t] = tally[t]
      BY <1>3, <2>3 DEF RefreshSucceeds
    <3> QED BY <2>1, <2>2, <2>3, <3>1, StaysEven
  <2>4. CASE Len(producers'[t].parts) # Len(producers[t].parts)
    <3>1. tally'[t] = NoTally
      BY <1>0, <1>3, <2>4 DEF RefreshSucceeds
    <3>2. Shape'
      BY <1>3, RefreshShape
    <3>3. /\ Len(producers'[t].parts) \in 1..MaxPartitions
          /\ producers'[t].last \in 0..(Len(producers'[t].parts) - 1)
      BY <3>2 DEF Shape, Lists, Ordered
    <3> QED BY <3>1, <3>3, NoTallyEven
  <2> QED BY <2>3, <2>4
<1>4. CASE RefreshStarts /\ t = cur.topic
  <2>1. producers[t] \in Producer /\ producers[t] # None
    BY <1>4, SendingFields, NoneAssumption DEF RefreshStarts, MustRefresh, Sending
  <2>2. producers'[t] = [producers[t] EXCEPT !.due = FALSE] /\ tally' = tally
    BY <1>0, <1>4 DEF RefreshStarts
  <2> QED BY <2>1, <2>2, ProducerFields, StaysEven
<1>5. CASE IntervalElapses /\ producers'[t] # producers[t]
  <2>1. producers[t] # None /\ producers'[t] = [producers[t] EXCEPT !.due = TRUE] /\ tally' = tally
    BY <1>0, <1>5 DEF IntervalElapses
  <2>2. producers[t] \in Producer
    BY <1>0, <2>1
  <2> QED BY <2>1, <2>2, ProducerFields, StaysEven
<1>6. CASE SendThrough /\ t = cur.topic
  <2> DEFINE p == producers[t]
             n == Len(p.parts)
  <2>1. p \in Producer /\ p # None /\ Ordered(p, count[t]) /\ t \in Topic
        /\ cur.key \in Keys \cup {None}
    BY <1>6, SendingFields, NoneAssumption DEF SendThrough, Sending
  <2>2. PICK c : /\ c[1] \in 0..(n - 1) /\ c[2] \in 0..(n - 1)
                 /\ cur.key = None => c[1] = NextIndex(p) /\ c[2] = c[1]
                 /\ cur.key # None => c[2] = p.last
                 /\ producers' = [producers EXCEPT ![t] = [p EXCEPT !.last = c[2]]]
                 /\ IF cur.key = None
                    THEN tally' = [tally EXCEPT ![t] = [tally[t] EXCEPT ![c[1]] = @ + 1]]
                    ELSE UNCHANGED tally
    BY <1>6, SentFields
  <2>3. n \in 1..MaxPartitions /\ p.last \in 0..(n - 1) /\ c[2] \in Nat
    BY <2>1, <2>2, PartitionsAssumption DEF Ordered
  <2> HIDE DEF p
  <2>4. producers'[t].last = c[2] /\ producers'[t].parts = p.parts
    <3>1. producers'[t] = [p EXCEPT !.last = c[2]]
      BY <1>0, <2>2
    <3> QED BY <3>1, <2>1, <2>3, ProducerFields
  <2>5. CASE cur.key # None
    <3>1. tally'[t] = tally[t] /\ producers'[t].last = p.last
      BY <2>2, <2>4, <2>5
    <3> QED BY <2>1, <2>4, <3>1, StaysEven DEF p
  <2>6. CASE cur.key = None
    <3> HIDE DEF n
    <3>1. tally'[t] = [tally[t] EXCEPT ![c[1]] = @ + 1] /\ tally[t] \in [0..MaxPartitions -> Nat]
      BY <1>0, <2>2, <2>6
    <3>2. Even(tally[t], p.last, n)
      BY <2>1 DEF AllEven, p, n
    <3>3. c[2] = c[1] /\ c[1] = IF p.last + 1 >= n THEN 0 ELSE p.last + 1
      BY <2>2, <2>6 DEF NextIndex, n
    <3>4. Even([tally[t] EXCEPT ![c[1]] = @ + 1], c[1], n)
      BY <2>3, <3>1, <3>2, <3>3, NextTurn, PartitionsAssumption
    <3> QED BY <2>4, <3>1, <3>3, <3>4 DEF n
  <2> QED BY <2>5, <2>6
<1>7. CASE CloseProducer /\ producers'[t] # producers[t]
  BY <1>0, <1>7 DEF CloseProducer
<1>8. CASE Finish
  BY <1>8 DEF Finish
<1>9. CASE \/ BuildSucceeds /\ t # cur.topic
           \/ RefreshSucceeds /\ t # cur.topic
           \/ RefreshStarts /\ t # cur.topic
           \/ RefreshFails
  BY <1>0, <1>1, <1>9 DEF BuildSucceeds, RefreshStarts, RefreshSucceeds, RefreshFails
<1>10. CASE SendThrough /\ t # cur.topic
  BY <1>0, <1>1, <1>10, SentFields
<1>11. CASE \/ Send \/ DropClient \/ Take \/ BuildFails \/ CloseProducer \/ Grow
            \/ IntervalElapses \/ UNCHANGED vars \/ \E i \in 1..MaxCalls : Resolve(i)
  <2>1. tally' = tally
    BY <1>11 DEF Send, DropClient, Take, BuildFails, CloseProducer, Grow, IntervalElapses,
       vars, Resolve
  <2>2. producers' = producers \/ CloseProducer \/ IntervalElapses
    BY <1>11 DEF Send, DropClient, Take, BuildFails, Grow, vars, Resolve
  <2> QED BY <1>1, <1>5, <1>7, <2>1, <2>2
<1> QED
  BY <1>2, <1>3, <1>4, <1>6, <1>8, <1>9, <1>10, <1>11 DEF Next, RunProducer

LEMMA PolicyKept == [Next]_vars => policy' = policy
BY DEF Next, RunProducer, Send, DropClient, Take, Finish, BuildSucceeds, BuildFails,
   RefreshStarts, RefreshSucceeds, RefreshFails, SendThrough, CloseProducer, Resolve, Grow,
   IntervalElapses, vars

LEMMA OnlySendsLog == [Next]_vars => SendThrough \/ UNCHANGED log
BY DEF Next, RunProducer, Send, DropClient, Take, Finish, BuildSucceeds, BuildFails,
   RefreshStarts,
   RefreshSucceeds, RefreshFails, CloseProducer, Resolve, Grow, IntervalElapses, vars

\* The entry a send appends, if it is accepted.
LEMMA NewEntry ==
    ASSUME Shape, SendThrough, log' # log
    PROVE  \E e \in Entry :
              /\ log' = Append(log, e) /\ e.topic = cur.topic /\ e.key = cur.key
              /\ LET p == producers[cur.topic]
                 IN  /\ e.known = Len(p.parts) /\ e.partition \in 0..(Len(p.parts) - 1)
                     /\ policy = "Single" /\ e.key = None => e.partition = p.last
                     /\ p.partitioned /\ policy # "Custom" /\ e.key # None
                           => e.partition = PartitionForKey(e.key, e.known)
<1> DEFINE p == producers[cur.topic]
<1>1. /\ cur.id \in 1..MaxCalls /\ cur.topic \in Topic /\ cur.key \in Keys \cup {None}
      /\ Ordered(p, count[cur.topic])
  BY SendingFields DEF SendThrough, Sending
<1> HIDE DEF p
<1>2. Len(p.parts) \in Nat
  BY <1>1, PartitionsAssumption DEF Ordered
<1> DEFINE E(k) == [id |-> cur.id, topic |-> cur.topic, key |-> cur.key,
                    partition |-> k, known |-> Len(p.parts)]
<1>3. PICK c : /\ c[1] \in 0..(Len(p.parts) - 1)
               /\ policy = "Single" /\ cur.key = None => c[1] = p.last
               /\ p.partitioned /\ policy # "Custom" /\ cur.key # None
                     => c[1] = PartitionForKey(cur.key, Len(p.parts))
               /\ log' = Append(log, E(c[1]))
  BY SentFields DEF p
<1>4. c[1] \in Nat
  BY <1>2, <1>3
<1>5. E(c[1]) \in Entry
  BY <1>1, <1>2, <1>4 DEF Entry
<1>6. /\ E(c[1]).topic = cur.topic /\ E(c[1]).key = cur.key
      /\ E(c[1]).known = Len(p.parts) /\ E(c[1]).partition = c[1]
  OBVIOUS
<1> HIDE DEF E
<1> QED BY <1>3, <1>5, <1>6 DEF p

LEMMA KeysNext == ASSUME Shape, KeyOwnsPartition, [Next]_vars PROVE KeyOwnsPartition'
<1>0. log \in Seq(Entry)
  BY DEF Shape, Types
<1>1. CASE log' = log
  BY <1>1, PolicyKept DEF KeyOwnsPartition
<1>2. CASE SendThrough /\ log' # log
  <2> DEFINE p == producers[cur.topic]
  <2>1. PICK e \in Entry :
            /\ log' = Append(log, e)
            /\ e.known = Len(p.parts) /\ e.partition \in 0..(Len(p.parts) - 1)
            /\ p.partitioned /\ policy # "Custom" /\ e.key # None
                  => e.partition = PartitionForKey(e.key, e.known)
    BY <1>2, NewEntry
  <2>2. ~p.partitioned => Len(p.parts) = 1
    BY <1>2, SendingFields DEF SendThrough, Ordered, Sending
  <2> HIDE DEF p
  <2>3. ASSUME ~p.partitioned PROVE e.known = 1 /\ e.partition = 0
    <3>1. e.known = 1 /\ e.partition \in 0..(1 - 1)
      BY <2>1, <2>2, <2>3
    <3> QED BY <3>1
  <2>4. /\ DOMAIN log = 1..Len(log) /\ Len(log) \in Nat
        /\ DOMAIN log' = 1..(Len(log) + 1)
        /\ \A i \in DOMAIN log : log'[i] = log[i]
        /\ log'[Len(log) + 1] = e
    BY <1>0, <2>1, AppendFacts
  <2>5. \A i \in DOMAIN log' : log'[i] = e \/ (i \in DOMAIN log /\ log'[i] = log[i])
    BY <2>4
  <2>6. policy # "Custom" /\ e.key # None /\ (e.known > 1 \/ e.partition # 0)
            => e.partition = PartitionForKey(e.key, e.known)
    <3>1. CASE p.partitioned
      BY <2>1, <3>1
    <3>2. CASE ~p.partitioned
      BY <2>3, <3>2
    <3> QED BY <3>1, <3>2
  <2> QED BY <2>5, <2>6, PolicyKept DEF KeyOwnsPartition
<1> QED BY <1>1, <1>2, OnlySendsLog

LEMMA SingleNext == ASSUME Shape, StaysSingle, [Next]_vars PROVE StaysSingle'
<1>0. /\ producers \in [Topic -> Producer \cup {None}] /\ count \in [Topic -> 0..MaxPartitions]
      /\ log \in Seq(Entry) /\ \A i \in DOMAIN log : log[i].topic \in Topic
  <2>1. log \in Seq(Entry)
    BY DEF Shape, Types
  <2>2. \A i \in DOMAIN log : log[i] \in Entry
    BY <2>1
  <2>3. \A i \in DOMAIN log : log[i].topic \in Topic
    BY <2>2 DEF Entry
  <2> QED BY <2>1, <2>3 DEF Shape, Types
<1> SUFFICES ASSUME policy = "Single", policy' = "Single" PROVE StaysSingle'
  BY PolicyKept DEF StaysSingle
\* What a step does to the producer of a topic that messages went to.
<1>1. ASSUME NEW t \in Topic, task' # "done", task # "done" => producers[t] # None,
             count[t] # 0
      PROVE  /\ task # "done" /\ count'[t] # 0 /\ producers'[t] # None
             /\ producers'[t].last = producers[t].last
  <2>0. task # "done" /\ producers[t] \in Producer /\ producers[t] # None
        /\ Ordered(producers[t], count[t])
    <3>1. task # "done"
      BY <1>1 DEF Next, RunProducer, Send, DropClient, Take, Finish, BuildSucceeds, BuildFails,
         RefreshStarts, RefreshSucceeds, RefreshFails, SendThrough, CloseProducer, Resolve,
         Grow, IntervalElapses, vars, MustRefresh
    <3> QED BY <1>0, <1>1, <3>1 DEF Shape, Lists
  <2>1. count'[t] # 0
    <3>1. CASE Grow
      BY <1>0, <1>1, <3>1 DEF Grow
    <3>2. CASE ~Grow
      <4>1. count' = count
        BY <3>2 DEF Next, RunProducer, Send, DropClient, Take, Finish, BuildSucceeds,
           BuildFails,
           RefreshStarts, RefreshSucceeds, RefreshFails, SendThrough, CloseProducer, Resolve,
           IntervalElapses, vars, brokerVars
      <4> QED BY <1>1, <4>1
    <3> QED BY <3>1, <3>2
  <2>2. CASE producers'[t] = producers[t]
    BY <2>0, <2>1, <2>2
  <2>3. CASE producers'[t] \in Producer /\ producers'[t].last = producers[t].last
    BY <2>0, <2>1, <2>3, NoneAssumption
  <2>4. CASE BuildSucceeds
    <3>1. t # cur.topic
      BY <2>0, <2>4 DEF BuildSucceeds, Shape, Working
    <3>2. producers'[t] = producers[t]
      BY <1>0, <2>4, <3>1 DEF BuildSucceeds
    <3> QED BY <2>2, <3>2
  <2>5. CASE RefreshSucceeds
    <3>1. CASE t = cur.topic
      <4>1. producers'[t] = Grown(producers[t], count[t]) /\ producers[t].partitioned
        BY <1>0, <2>5, <3>1 DEF RefreshSucceeds, Shape, Working
      <4>2. count[t] \in 0..MaxPartitions
        BY <1>0
      <4> QED BY <2>0, <2>3, <4>1, <4>2, GrownFields
    <3>2. CASE t # cur.topic
      BY <1>0, <2>2, <2>5, <3>2 DEF RefreshSucceeds
    <3> QED BY <3>1, <3>2
  <2>6. CASE RefreshStarts \/ RefreshFails
    <3>1. producers'[t] = [producers[t] EXCEPT !.due = FALSE] \/ producers'[t] = producers[t]
      BY <1>0, <2>6 DEF RefreshStarts, RefreshFails
    <3> QED BY <2>0, <2>2, <2>3, <3>1, ProducerFields
  <2>7. CASE IntervalElapses
    <3>1. producers'[t] = [producers[t] EXCEPT !.due = TRUE] \/ producers'[t] = producers[t]
      BY <1>0, <2>7 DEF IntervalElapses
    <3> QED BY <2>0, <2>2, <2>3, <3>1, ProducerFields
  <2>8. CASE SendThrough
    <3>1. CASE t = cur.topic
      <4>1. PICK c : /\ c[2] = producers[t].last
                     /\ producers' = [producers EXCEPT ![t] = [producers[t] EXCEPT !.last = c[2]]]
        BY <2>8, <3>1, SentFields
      <4>2. producers'[t] = [producers[t] EXCEPT !.last = producers[t].last]
        BY <1>0, <4>1
      <4> QED BY <2>0, <2>3, <4>2, ProducerFields
    <3>2. CASE t # cur.topic
      BY <1>0, <2>2, <2>8, <3>2, SentFields
    <3> QED BY <3>1, <3>2
  <2>9. CASE CloseProducer
    BY <1>0, <1>1, <2>2, <2>9 DEF CloseProducer
  <2>10. CASE Finish
    BY <1>1, <2>10 DEF Finish
  <2>11. CASE \/ Send \/ DropClient \/ Take \/ BuildFails \/ Grow \/ UNCHANGED vars
              \/ \E i \in 1..MaxCalls : Resolve(i)
    BY <2>2, <2>11 DEF Send, DropClient, Take, BuildFails, Grow, vars, Resolve
  <2> QED
    BY <2>4, <2>5, <2>6, <2>7, <2>8, <2>9, <2>10, <2>11 DEF Next, RunProducer
\* A topic that is not partitioned remains so.
<1>2. \A t \in Topic : count[t] = 0 <=> count'[t] = 0
  <2>1. CASE Grow
    BY <1>0, <2>1, PartitionsAssumption DEF Grow
  <2>2. CASE ~Grow
    <3>1. count' = count
      BY <2>2 DEF Next, RunProducer, Send, DropClient, Take, Finish, BuildSucceeds,
         BuildFails,
         RefreshStarts, RefreshSucceeds, RefreshFails, SendThrough, CloseProducer, Resolve,
         IntervalElapses, vars, brokerVars
    <3> QED BY <3>1
  <2> QED BY <2>1, <2>2
<1> DEFINE Fits(e, ps, cs, done) ==
       e.key = None =>
         IF cs[e.topic] = 0 THEN e.partition = 0
         ELSE ~done => ps[e.topic] # None /\ e.partition = ps[e.topic].last
<1>3. ASSUME NEW i \in DOMAIN log PROVE Fits(log[i], producers', count', task' = "done")
  <2>1. log[i].topic \in Topic
    BY <1>0
  <2>2. Fits(log[i], producers, count, task = "done")
    BY DEF StaysSingle
  <2> QED BY <1>1, <1>2, <2>1, <2>2
<1>4. CASE log' = log
  BY <1>3, <1>4 DEF StaysSingle
<1>5. CASE SendThrough /\ log' # log
  <2> DEFINE p == producers[cur.topic]
  <2>1. PICK e \in Entry :
            /\ log' = Append(log, e) /\ e.topic = cur.topic
            /\ e.partition \in 0..(Len(p.parts) - 1)
            /\ e.key = None => e.partition = p.last
    BY <1>5, NewEntry
  <2>2. Ordered(p, count[cur.topic]) /\ cur.topic \in Topic /\ p # None
        /\ p \in Producer
    BY <1>5, SendingFields, NoneAssumption DEF SendThrough, Sending
  <2>3. count[cur.topic] = 0 => e.partition = 0
    <3>1. ASSUME count[cur.topic] = 0 PROVE Len(p.parts) = 1
      BY <2>2, <3>1, ProducerFields DEF Ordered
    <3>2. ASSUME count[cur.topic] = 0 PROVE e.partition \in 0..(1 - 1)
      BY <2>1, <3>1, <3>2
    <3> QED BY <3>2
  <2>4. Fits(e, producers, count, FALSE)
    BY <2>1, <2>2, <2>3
  <2>5. Fits(e, producers', count', task' = "done")
    BY <1>1, <1>2, <2>1, <2>2, <2>4
  <2>6. /\ DOMAIN log = 1..Len(log) /\ Len(log) \in Nat
        /\ DOMAIN log' = 1..(Len(log) + 1)
        /\ \A i \in DOMAIN log : log'[i] = log[i]
        /\ log'[Len(log) + 1] = e
    BY <1>0, <2>1, AppendFacts
  <2>7. \A i \in DOMAIN log' : log'[i] = e \/ (i \in DOMAIN log /\ log'[i] = log[i])
    BY <2>6
  <2> HIDE DEF Fits
  <2>8. \A i \in DOMAIN log' : Fits(log'[i], producers', count', task' = "done")
    BY <1>3, <2>5, <2>7
  <2> QED BY <2>8 DEF Fits, StaysSingle
<1> QED BY <1>4, <1>5, OnlySendsLog

LEMMA RulesNext ==
    ASSUME Shape, Rules, [Next]_vars PROVE Rules'
<1>1. KeyOwnsPartition' /\ AllEven' /\ StaysSingle'
  BY KeysNext, EvenNext, SingleNext DEF Rules
<1>2. SingleStays'
  <2>1. CASE log' = log
    BY <2>1, PolicyKept DEF Rules, SingleStays
  <2>2. CASE SendThrough
    <3>1. task' # "done"
      BY <2>2 DEF SendThrough
    <3> QED BY <1>1, <3>1 DEF StaysSingle, SingleStays
  <2> QED BY <2>1, <2>2, OnlySendsLog
<1> QED BY <1>1, <1>2 DEF Rules

\* Every policy keeps its rule while topics grow and keyed and unkeyed messages
\* alternate: a key owns its partition, round robin is even between two
\* growths, and Single stays with one partition.
THEOREM RulesAlwaysKept == Spec => []RulesKept
<1>1. Init => Rules
  <2> SUFFICES ASSUME Init PROVE Rules
    OBVIOUS
  <2>1. log = <<>> /\ \A t \in Topic : producers[t] = None
    BY DEF Init
  <2> QED BY <2>1 DEF Rules, KeyOwnsPartition, AllEven, StaysSingle, SingleStays
<1>2. Shape /\ Rules /\ [Next]_vars => Rules'
  BY RulesNext
<1>3. Shape /\ Rules => RoundRobinEven
  <2> SUFFICES ASSUME Shape, Rules, policy = "RoundRobin",
                      NEW t \in Topic, producers[t] # None,
                      NEW i \in Known(producers[t]), NEW j \in Known(producers[t])
               PROVE  tally[t][i] <= tally[t][j] + 1
    BY DEF RoundRobinEven
  <2>1. Ordered(producers[t], count[t])
    BY DEF Shape, Lists
  <2>2. Known(producers[t]) \subseteq 0..(Len(producers[t].parts) - 1)
    BY <2>1, PartitionsAssumption DEF Ordered, Known
  <2> QED BY <2>2 DEF Rules, AllEven, Even
<1>4. Spec => []TypeOK
  BY TypeCorrect
<1>5. Rules => KeyOwnsPartition /\ SingleStays
  BY DEF Rules
<1>6. TypeOK /\ KeyOwnsPartition /\ RoundRobinEven /\ SingleStays => RulesKept
  BY DEF RulesKept
<1> QED BY ShapeAlways, <1>1, <1>2, <1>3, <1>4, <1>5, <1>6, PTL DEF Spec

-----------------------------------------------------------------------------
(* Where a send is: the safety behind EverySendAnswered.                    *)

Queued == {queue[k].id : k \in DOMAIN queue}
InHand == IF cur = None THEN {} ELSE {cur.id}

(* Every call of Pulsar::send is in exactly one place: in the channel, in   *)
(* the hands of run_producer, with the task that awaits its receipt, or     *)
(* answered, and so answered once.  The task ends with none of them left.   *)
SendsAccounted ==
    /\ 1..calls = Queued \cup InHand \cup waiting \cup answered
    /\ Queued \cap InHand = {}
    /\ (Queued \cup InHand) \cap (waiting \cup answered) = {}
    /\ waiting \cap answered = {}
    /\ task = "done" => ~handles /\ Queued \cup InHand = {}

LEMMA InitAccounted == Init => SendsAccounted
BY DEF Init, SendsAccounted, Queued, InHand

LEMMA AccountedNext ==
    ASSUME Shape, CallsInOrder, SendsAccounted, [Next]_vars
    PROVE  SendsAccounted'
<1>0. /\ calls \in Nat /\ queue \in Seq(Call) /\ \A e \in Call : e.id \in Nat
      /\ Working /\ \A k \in DOMAIN queue : queue[k] \in Call /\ queue[k].id \in Nat
  BY Ids DEF Shape, Types
<1>1. CASE Send
  <2>1. PICK t \in Topic, k \in Keys \cup {None} :
             queue' = Append(queue, [id |-> calls + 1, topic |-> t, key |-> k])
    BY <1>1 DEF Send
  <2> DEFINE e == [id |-> calls + 1, topic |-> t, key |-> k]
  <2>2. e \in Call /\ e.id = calls + 1
    BY <1>0, <1>1, BoundsAssumption DEF Send, Call
  <2> HIDE DEF e
  <2>3. /\ queue' = Append(queue, e) /\ calls' = calls + 1 /\ handles
        /\ UNCHANGED <<cur, waiting, answered, task, handles>>
    BY <1>1, <2>1 DEF Send, e
  <2>4. /\ Len(queue) \in Nat /\ DOMAIN queue = 1..Len(queue)
        /\ DOMAIN queue' = 1..(Len(queue) + 1)
        /\ \A i \in DOMAIN queue : queue'[i] = queue[i]
        /\ queue'[Len(queue) + 1] = e
    BY <1>0, <2>2, <2>3, AppendFacts
  <2>5. \A i \in DOMAIN queue' : i \in DOMAIN queue \/ i = Len(queue) + 1
    BY <2>4
  <2>6. Queued' = Queued \cup {calls + 1}
    <3>1. Queued' \subseteq Queued \cup {calls + 1}
      BY <2>2, <2>4, <2>5 DEF Queued
    <3>2. Queued \subseteq Queued'
      BY <2>4 DEF Queued
    <3>3. Len(queue) + 1 \in DOMAIN queue'
      BY <2>4
    <3>4. calls + 1 \in Queued'
      BY <2>2, <2>4, <3>3 DEF Queued
    <3> QED BY <3>1, <3>2, <3>4
  <2>7. InHand' = InHand
    BY <2>3 DEF InHand
  <2>8. 1..calls' = 1..calls \cup {calls + 1} /\ calls + 1 \notin 1..calls
    BY <1>0, <2>3
  <2>9. task # "done"
    BY <2>3 DEF SendsAccounted
  <2> QED BY <2>3, <2>6, <2>7, <2>8, <2>9 DEF SendsAccounted
<1>2. CASE Take
  <2>1. /\ queue # <<>> /\ cur' = Head(queue) /\ queue' = Tail(queue)
        /\ task = "idle" /\ task' # "done"
        /\ UNCHANGED <<calls, waiting, answered>>
    BY <1>2 DEF Take
  <2>2. /\ cur' = queue[1] /\ Head(queue) \in Call
        /\ Len(queue) \in Nat \ {0} /\ DOMAIN queue = 1..Len(queue)
        /\ DOMAIN queue' = 1..(Len(queue) - 1)
        /\ \A i \in DOMAIN queue' : i + 1 \in DOMAIN queue /\ queue'[i] = queue[i + 1]
    BY <1>0, <2>1, TailFacts
  <2>3. 1 \in DOMAIN queue /\ cur' # None /\ cur = None
    BY <1>0, <2>1, <2>2, NoneAssumption DEF Working
  <2>4. InHand = {} /\ InHand' = {queue[1].id}
    BY <2>2, <2>3 DEF InHand
  <2>5. Queued = Queued' \cup {queue[1].id}
    <3>1. Queued' \subseteq Queued /\ queue[1].id \in Queued
      BY <2>2, <2>3 DEF Queued
    <3>2. ASSUME NEW k \in DOMAIN queue PROVE queue[k].id \in Queued' \cup {queue[1].id}
      <4>1. CASE k = 1
        BY <4>1
      <4>2. CASE k # 1
        <5>1. k - 1 \in DOMAIN queue' /\ (k - 1) + 1 = k
          BY <2>2, <4>2
        <5>2. queue'[k - 1] = queue[k]
          BY <2>2, <5>1
        <5> QED BY <5>1, <5>2 DEF Queued
      <4> QED BY <4>1, <4>2
    <3>3. Queued \subseteq Queued' \cup {queue[1].id}
      BY <3>2 DEF Queued
    <3> QED BY <3>1, <3>3
  <2>6. queue[1].id \notin Queued'
    <3>1. ASSUME NEW k \in DOMAIN queue' PROVE queue'[k].id # queue[1].id
      <4>1. k + 1 \in DOMAIN queue /\ 1 < k + 1 /\ queue'[k] = queue[k + 1]
        BY <2>2
      <4>2. queue[1].id < queue[k + 1].id
        BY <2>3, <4>1 DEF CallsInOrder
      <4> QED BY <1>0, <2>3, <4>1, <4>2
    <3> QED BY <3>1 DEF Queued
  <2> QED BY <2>1, <2>4, <2>5, <2>6 DEF SendsAccounted
<1>3. CASE BuildFails \/ SendThrough
  <2>1. /\ cur' = None /\ task' = "idle" /\ UNCHANGED <<calls, queue>>
        /\ \/ answered' = answered \cup {cur.id} /\ waiting' = waiting
           \/ waiting' = waiting \cup {cur.id} /\ answered' = answered
    BY <1>3 DEF BuildFails, SendThrough, clientVars
  <2>2. InHand = {cur.id} /\ InHand' = {} /\ Queued' = Queued
    <3>1. cur # None
      BY <1>0, <1>3 DEF BuildFails, SendThrough, Working
    <3> QED BY <2>1, <3>1 DEF InHand, Queued
  <2> QED BY <2>1, <2>2 DEF SendsAccounted
<1>4. ASSUME NEW i \in 1..MaxCalls, Resolve(i) PROVE SendsAccounted'
  <2>1. /\ i \in waiting /\ answered' = answered \cup {i} /\ waiting' = waiting \ {i}
        /\ UNCHANGED <<calls, queue, cur, task, handles>>
    BY <1>4 DEF Resolve, clientVars
  <2>2. InHand' = InHand /\ Queued' = Queued
    BY <2>1 DEF InHand, Queued
  <2> QED BY <2>1, <2>2 DEF SendsAccounted
<1>5. CASE \/ DropClient \/ Finish \/ BuildSucceeds \/ RefreshStarts
           \/ RefreshSucceeds \/ RefreshFails
           \/ CloseProducer \/ Grow \/ IntervalElapses \/ UNCHANGED vars
  <2>1. UNCHANGED <<calls, queue, cur, waiting, answered>>
    BY <1>5 DEF DropClient, Finish, BuildSucceeds,
       RefreshStarts, RefreshSucceeds, RefreshFails,
                CloseProducer, Grow, IntervalElapses, vars, clientVars
  <2>2. InHand' = InHand /\ Queued' = Queued
    BY <2>1 DEF InHand, Queued
  <2>3. task' = "done" => ~handles' /\ Queued \cup InHand = {}
    <3>1. CASE Finish
      <4>1. queue = <<>> /\ ~handles' /\ cur = None
        BY <1>0, <3>1 DEF Finish, clientVars, Working
      <4> QED BY <4>1 DEF Queued, InHand
    <3>2. CASE ~Finish
      <4>1. /\ task' = "done" => task = "done"
            /\ handles' => handles
        BY <1>5, <3>2 DEF DropClient, BuildSucceeds,
           RefreshStarts, RefreshSucceeds, RefreshFails,
                CloseProducer, Grow, IntervalElapses, vars, clientVars
      <4> QED BY <4>1 DEF SendsAccounted
    <3> QED BY <3>1, <3>2
  <2> QED BY <2>1, <2>2, <2>3 DEF SendsAccounted
<1> QED BY <1>1, <1>2, <1>3, <1>4, <1>5 DEF Next, RunProducer

\* No send is lost or answered twice on its way through run_producer, and the
\* loop never ends before the sends of a dropped client are dealt with.
THEOREM SendsAlwaysAccounted == Spec => []SendsAccounted
BY ShapeAlways, InitAccounted, AccountedNext, PTL DEF Spec
=============================================================================
