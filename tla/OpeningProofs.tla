---------------------------- MODULE OpeningProofs ----------------------------
(* Proofs about Opening, for any topic, cluster, retry budget and timeout:  *)
(* where lookups are asked, how often a registration is sent, and that what *)
(* is handed out is served.                                                 *)
EXTENDS Opening, TLAPS

-----------------------------------------------------------------------------
(* The inductive invariant.  Everything but the sets the variables range    *)
(* over speaks of one partition: its lookup l, its operation o, the number  *)
(* n of registrations sent, its registration r and whether it has permits.  *)

Addresses == [broker : Broker, url : Broker, proxy : BOOLEAN]
Lookups ==
    [pc : LookupPc, conn : Addresses, address : Addresses,
     authoritative : BOOLEAN, proxiedQuery : BOOLEAN, again : BOOLEAN,
     retries : Nat, elapsed : 0..Timeout]
Answers == {None, "ok", "notYet", "retryable", "busy", "fatal"}
Operations == [pc : OpPc, at : Broker, answer : Answers, retries : Nat]
Registrations == {"none", "waiting", "ready", "fenced", "moved"}
Owners == Broker \cup {None, "moving"}

Shape ==
    /\ kind \in Kinds
    /\ budget \in Budgets
    /\ proxied \in BOOLEAN
    /\ phase \in {"number", "lookups", "creates", "done", "failed"}
    /\ lk \in [Topic -> Lookups]
    /\ op \in [Topic -> Operations]
    /\ sent \in [Topic -> Nat]
    /\ owner \in [Topic -> Owners]
    /\ reg \in [Topic -> Registrations]
    /\ flow \subseteq Topic

\* The barriers of build: lookups before operations, and afterwards only on
\* behalf of an operation.
InPhase(l, o) ==
    /\ phase \in {"number", "lookups"} => o.pc = "idle"
    /\ phase = "creates" => o.pc # "idle"
    /\ l.pc # "idle" => \/ phase = "lookups"
                        \/ phase = "creates" /\ o.pc = "lookup"

\* conn and broker_address meet whenever a query is about to be sent, and the
\* proxy is never lost on the way.
GoodLookup(l) ==
    /\ l.pc \in {"ask", "delay"} => l.conn = l.address
    /\ proxied /\ l.pc # "idle" => l.address.url = Base
    /\ proxied /\ l.pc \in {"ask", "delay"} =>
         l.proxiedQuery \/ l.address.broker = Base

\* Every registration but the first one is paid for by a retry.
WithinBudget(o, n) ==
    /\ o.pc = "idle" => o.retries = 0
    /\ n = IF o.pc = "idle" THEN 0 ELSE o.retries + 1
    /\ budget # None => o.retries <= budget
    /\ budget # None /\ o.pc \in {"delay", "lookup"} => o.retries < budget

\* What the client was told of its registration is still so, or it has moved.
Served(o, r, permits) ==
    /\ o.pc = "sent" /\ o.answer = "ok" => r \in {"ready", "moved"}
    /\ o.pc = "sent" /\ o.answer = "notYet" => kind = "producer"
    /\ o.pc = "exclusive" => kind = "producer"
    /\ o.pc = "flow" => r \in {"ready", "moved"}
    /\ o.pc = "open" => \/ r = "moved"
                        \/ r = "ready" /\ (kind # "producer" => permits)

Partition(l, o, n, r, permits) ==
    InPhase(l, o) /\ GoodLookup(l) /\ WithinBudget(o, n) /\ Served(o, r, permits)

Inv ==
    /\ Shape
    /\ \A t \in Topic : Partition(lk[t], op[t], sent[t], reg[t], t \in flow)

-----------------------------------------------------------------------------
(* One partition moves, the others keep what they have.                     *)

LEMMA OnePartition ==
  ASSUME Inv, NEW t \in Topic, NEW l \in Lookups, NEW o \in Operations,
         NEW n \in Nat, NEW r \in Registrations,
         UNCHANGED config, UNCHANGED phase,
         owner' \in [Topic -> Owners],
         lk' = [lk EXCEPT ![t] = l],
         op' = [op EXCEPT ![t] = o],
         sent' = [sent EXCEPT ![t] = n],
         reg' = [reg EXCEPT ![t] = r],
         flow' \subseteq Topic, \A u \in Topic \ {t} : u \in flow' <=> u \in flow,
         Partition(l, o, n, r, t \in flow')
  PROVE  Inv'
<1>1. Shape'
  BY DEF Inv, Shape, config
<1>2. ASSUME NEW u \in Topic
      PROVE  Partition(lk[u], op[u], sent[u], reg[u], u \in flow)'
  <2>1. CASE u = t
    <3>1. /\ lk'[u] = l /\ op'[u] = o /\ sent'[u] = n /\ reg'[u] = r
      BY <2>1 DEF Inv, Shape
    <3> QED
      BY <2>1, <3>1 DEF Partition, InPhase, GoodLookup, WithinBudget, Served, config
  <2>2. CASE u # t
    <3>1. /\ lk'[u] = lk[u] /\ op'[u] = op[u] /\ sent'[u] = sent[u]
          /\ reg'[u] = reg[u]
          /\ (u \in flow') <=> (u \in flow)
      BY <2>2 DEF Inv, Shape
    <3>2. Partition(lk[u], op[u], sent[u], reg[u], u \in flow)
      BY DEF Inv
    <3> QED
      BY <3>1, <3>2 DEF Partition, InPhase, GoodLookup, WithinBudget, Served,
                        config
  <2> QED
    BY <2>1, <2>2
<1> QED
  BY <1>1, <1>2 DEF Inv

\* Only the lookup of the partition moves.
LEMMA OneLookup ==
  ASSUME Inv, NEW t \in Topic, NEW l \in Lookups,
         UNCHANGED <<config, phase, op, sent, reg, flow>>,
         owner' \in [Topic -> Owners],
         lk' = [lk EXCEPT ![t] = l],
         InPhase(l, op[t]), GoodLookup(l)
  PROVE  Inv'
<1> DEFINE o == op[t]
           n == sent[t]
           r == reg[t]
<1>1. o \in Operations /\ n \in Nat /\ r \in Registrations
  BY DEF Inv, Shape
<1>2. /\ op' = [op EXCEPT ![t] = o] /\ sent' = [sent EXCEPT ![t] = n]
      /\ reg' = [reg EXCEPT ![t] = r]
  BY DEF Inv, Shape
<1>3. flow' \subseteq Topic /\ \A u \in Topic \ {t} : u \in flow' <=> u \in flow
  BY DEF Inv, Shape
<1>4. Partition(l, o, n, r, t \in flow')
  BY DEF Inv, Partition
<1> HIDE DEF o, n, r
<1> QED
  BY <1>1, <1>2, <1>3, <1>4, OnePartition

\* Only the operation of the partition moves, and its registration.
LEMMA OneOperation ==
  ASSUME Inv, NEW t \in Topic, NEW o \in Operations, NEW r \in Registrations,
         UNCHANGED <<config, phase, lk, sent, owner, flow>>,
         op' = [op EXCEPT ![t] = o],
         reg' = [reg EXCEPT ![t] = r],
         Partition(lk[t], o, sent[t], r, t \in flow)
  PROVE  Inv'
<1> DEFINE l == lk[t]
           n == sent[t]
<1>1. l \in Lookups /\ n \in Nat
  BY DEF Inv, Shape
<1>2. lk' = [lk EXCEPT ![t] = l] /\ sent' = [sent EXCEPT ![t] = n]
  BY DEF Inv, Shape
<1>3. /\ flow' \subseteq Topic /\ \A u \in Topic \ {t} : u \in flow' <=> u \in flow
      /\ owner' \in [Topic -> Owners]
  BY DEF Inv, Shape
<1>4. Partition(l, o, n, r, t \in flow')
  OBVIOUS
<1> HIDE DEF l, n
<1> QED
  BY <1>1, <1>2, <1>3, <1>4, OnePartition

-----------------------------------------------------------------------------
(* The lookups.                                                             *)

\* A lookup that begins, and one there is no need for.
LEMMA NewLookupIsGood ==
  NewLookup \in Lookups /\ NewLookup.pc = "ask" /\ GoodLookup(NewLookup)
BY BaseAssumption, TimeoutAssumption
   DEF NewLookup, BaseAddress, Lookups, LookupPc, Addresses, GoodLookup

LEMMA NoLookupIsGood ==
  NoLookup \in Lookups /\ NoLookup.pc = "idle" /\ GoodLookup(NoLookup)
<1>1. NoLookup \in Lookups /\ NoLookup.pc = "idle"
  BY NewLookupIsGood DEF NoLookup, Lookups, LookupPc
<1> QED
  BY <1>1 DEF GoodLookup

\* What an answer leaves behind is good when the question was.
LEMMA AnswerStep ==
  ASSUME Inv, NEW t \in Topic, NEW b \in Broker, NEW redirect \in BOOLEAN,
         Asking(t), Answer(t, b, redirect),
         UNCHANGED <<config, phase, op, sent, reg, flow>>,
         owner' \in [Topic -> Owners]
  PROVE  Inv'
<1> DEFINE proxy == proxied /\ lk[t].conn.broker = Base
           a == Address(b, lk[t].proxiedQuery \/ proxy)
           l == [lk[t] EXCEPT !.pc = IF redirect THEN "ask" ELSE "found",
                              !.conn = a, !.address = a, !.again = FALSE,
                              !.authoritative = redirect,
                              !.proxiedQuery =
                                 IF redirect THEN a.proxy ELSE lk[t].proxiedQuery]
<1>1. lk[t] \in Lookups /\ InPhase(lk[t], op[t]) /\ GoodLookup(lk[t])
  BY DEF Inv, Shape, Partition
<1>2. a \in Addresses
  BY <1>1, BaseAssumption DEF Lookups, Addresses, Address, Inv, Shape
<1>3. l \in Lookups
  BY <1>1, <1>2 DEF Lookups, Addresses, LookupPc
<1>4. lk' = [lk EXCEPT ![t] = l]
  BY DEF Answer
<1>5. InPhase(l, op[t])
  BY <1>1 DEF Asking, InPhase, Lookups
<1>6. GoodLookup(l)
  BY <1>1, <1>2 DEF Asking, GoodLookup, Address, Lookups, Addresses, Inv, Shape
<1> HIDE DEF l
<1> QED
  BY <1>3, <1>4, <1>5, <1>6, OneLookup

LEMMA LookupOwnedStep ==
  ASSUME Inv, NEW t \in Topic, LookupOwned(t)
  PROVE  Inv'
BY AnswerStep DEF LookupOwned, broker, Inv, Shape

LEMMA LookupAcquiresStep ==
  ASSUME Inv, NEW t \in Topic, LookupAcquires(t)
  PROVE  Inv'
<1>1. lk[t].conn.broker \in Broker
  BY DEF Inv, Shape, Lookups, Addresses
<1>2. owner' \in [Topic -> Owners]
  BY <1>1 DEF LookupAcquires, Inv, Shape, Owners
<1> QED
  BY <1>1, <1>2, AnswerStep DEF LookupAcquires

LEMMA LookupRedirectedStep ==
  ASSUME Inv, NEW t \in Topic, LookupRedirected(t)
  PROVE  Inv'
BY AnswerStep DEF LookupRedirected, broker, Inv, Shape

\* A lookup that is running stays one of its phase, whatever becomes of it.
LEMMA LookupGoesOn ==
  ASSUME Inv, NEW t \in Topic, NEW l \in Lookups,
         lk[t].pc # "idle", GoodLookup(l),
         lk' = [lk EXCEPT ![t] = l],
         UNCHANGED <<config, phase, op, sent, broker>>
  PROVE  Inv'
<1>1. InPhase(l, op[t])
  BY DEF Inv, Partition, InPhase
<1>2. owner' \in [Topic -> Owners]
  BY DEF Inv, Shape, broker
<1> QED
  BY <1>1, <1>2, OneLookup DEF broker

LEMMA LookupNotReadyStep ==
  ASSUME Inv, NEW t \in Topic, LookupNotReady(t)
  PROVE  Inv'
<1>1. lk[t] \in Lookups /\ GoodLookup(lk[t]) /\ lk[t].pc = "ask"
  BY DEF Inv, Shape, Partition, LookupNotReady, Asking
<1>2. CASE WithinLimits(lk[t])
  <2> DEFINE l == [lk[t] EXCEPT !.pc = "delay", !.retries = Counted(lk[t].retries),
                                !.again = FALSE]
  <2>0. Counted(lk[t].retries) \in Nat
    BY <1>1 DEF Lookups, Counted
  <2>1. l \in Lookups
    BY <1>1, <2>0 DEF Lookups, LookupPc
  <2>2. GoodLookup(l)
    BY <1>1 DEF GoodLookup, Lookups
  <2>3. lk' = [lk EXCEPT ![t] = l]
    BY <1>2 DEF LookupNotReady
  <2> HIDE DEF l
  <2> QED
    BY <1>1, <2>1, <2>2, <2>3, LookupGoesOn DEF LookupNotReady
<1>3. CASE ~WithinLimits(lk[t])
  <2> DEFINE l == [lk[t] EXCEPT !.pc = "failed"]
  <2>1. l \in Lookups
    BY <1>1 DEF Lookups, LookupPc
  <2>2. GoodLookup(l)
    BY <1>1 DEF GoodLookup, Lookups
  <2>3. lk' = [lk EXCEPT ![t] = l]
    BY <1>3 DEF LookupNotReady
  <2> HIDE DEF l
  <2> QED
    BY <1>1, <2>1, <2>2, <2>3, LookupGoesOn DEF LookupNotReady
<1> QED
  BY <1>2, <1>3

LEMMA LookupDelayEndsStep ==
  ASSUME Inv, NEW t \in Topic, LookupDelayEnds(t)
  PROVE  Inv'
<1> DEFINE l == [lk[t] EXCEPT !.pc = "ask", !.elapsed = Later(lk[t].elapsed)]
<1>1. lk[t] \in Lookups /\ GoodLookup(lk[t]) /\ lk[t].pc = "delay"
  BY DEF Inv, Shape, Partition, LookupDelayEnds
<1>2. Later(lk[t].elapsed) \in 0..Timeout
  BY <1>1, TimeoutAssumption DEF Lookups, Later
<1>3. l \in Lookups
  BY <1>1, <1>2 DEF Lookups, LookupPc
<1>4. GoodLookup(l)
  BY <1>1 DEF GoodLookup, Lookups
<1>5. lk' = [lk EXCEPT ![t] = l]
  BY DEF LookupDelayEnds
<1> HIDE DEF l
<1> QED
  BY <1>1, <1>3, <1>4, <1>5, LookupGoesOn DEF LookupDelayEnds

LEMMA LookupDisconnectedStep ==
  ASSUME Inv, NEW t \in Topic, LookupDisconnected(t)
  PROVE  Inv'
<1> DEFINE l == IF lk[t].again THEN [lk[t] EXCEPT !.pc = "failed"]
                               ELSE Reconnect(lk[t])
<1>1. lk[t] \in Lookups /\ GoodLookup(lk[t]) /\ lk[t].pc = "ask"
  BY DEF Inv, Shape, Partition, LookupDisconnected, Asking
<1>2. l \in Lookups
  BY <1>1 DEF Lookups, LookupPc, Reconnect
<1>3. GoodLookup(l)
  BY <1>1 DEF GoodLookup, Lookups, Reconnect
<1>4. lk' = [lk EXCEPT ![t] = l]
  BY DEF LookupDisconnected
<1> HIDE DEF l
<1> QED
  BY <1>1, <1>2, <1>3, <1>4, LookupGoesOn DEF LookupDisconnected

LEMMA LookupFailsStep ==
  ASSUME Inv, NEW t \in Topic, LookupFails(t)
  PROVE  Inv'
<1> DEFINE l == [lk[t] EXCEPT !.pc = "failed"]
<1>1. lk[t] \in Lookups /\ GoodLookup(lk[t]) /\ lk[t].pc = "ask"
  BY DEF Inv, Shape, Partition, LookupFails, Asking
<1>2. l \in Lookups
  BY <1>1 DEF Lookups, LookupPc
<1>3. GoodLookup(l)
  BY <1>1 DEF GoodLookup, Lookups
<1>4. lk' = [lk EXCEPT ![t] = l]
  BY DEF LookupFails
<1> HIDE DEF l
<1> QED
  BY <1>1, <1>2, <1>3, <1>4, LookupGoesOn DEF LookupFails

-----------------------------------------------------------------------------
(* The registrations.                                                       *)

\* An operation that is running stays one of its phase.
LEMMA OperationGoesOn ==
  ASSUME Inv, NEW t \in Topic, NEW o \in Operations, NEW r \in Registrations,
         UNCHANGED <<config, phase, lk, sent, owner, flow>>,
         op' = [op EXCEPT ![t] = o],
         reg' = [reg EXCEPT ![t] = r],
         op[t].pc \notin {"idle", "lookup"}, o.pc # "idle",
         o.retries = op[t].retries,
         budget # None /\ o.pc \in {"delay", "lookup"} => o.retries < budget,
         Served(o, r, t \in flow)
  PROVE  Inv'
<1>1. Partition(lk[t], op[t], sent[t], reg[t], t \in flow)
  BY DEF Inv
<1>2. InPhase(lk[t], o)
  BY <1>1 DEF Partition, InPhase
<1>3. WithinBudget(o, sent[t])
  BY <1>1 DEF Partition, WithinBudget
<1>4. Partition(lk[t], o, sent[t], r, t \in flow)
  BY <1>1, <1>2, <1>3 DEF Partition
<1> QED
  BY <1>4, OneOperation

\* The registration stays what it is.
LEMMA AnswerTaken ==
  ASSUME Inv, NEW t \in Topic, NEW o \in Operations,
         UNCHANGED <<config, phase, lk, sent, broker>>,
         op' = [op EXCEPT ![t] = o],
         op[t].pc \notin {"idle", "lookup"}, o.pc # "idle",
         o.retries = op[t].retries,
         budget # None /\ o.pc \in {"delay", "lookup"} => o.retries < budget,
         Served(o, reg[t], t \in flow)
  PROVE  Inv'
<1> DEFINE r == reg[t]
<1>1. r \in Registrations /\ reg' = [reg EXCEPT ![t] = r]
  BY DEF Inv, Shape, broker
<1>2. UNCHANGED <<config, phase, lk, sent, owner, flow>>
  BY DEF broker
<1>3. Served(o, r, t \in flow)
  OBVIOUS
<1> HIDE DEF r
<1> QED
  BY <1>1, <1>2, <1>3, OperationGoesOn

LEMMA BrokerRegistersStep ==
  ASSUME Inv, NEW t \in Topic, BrokerRegisters(t)
  PROVE  Inv'
<1>1. op[t] \in Operations /\ op[t].pc = "sent"
  BY DEF Inv, Shape, BrokerRegisters, InFlight
<1>2. PICK wait \in IF kind = "producer" THEN BOOLEAN ELSE {FALSE} :
        /\ reg' = [reg EXCEPT ![t] = IF wait THEN "waiting" ELSE "ready"]
        /\ op' = [op EXCEPT ![t].answer = IF wait THEN "notYet" ELSE "ok"]
  BY DEF BrokerRegisters
<1> DEFINE o == [op[t] EXCEPT !.answer = IF wait THEN "notYet" ELSE "ok"]
           r == IF wait THEN "waiting" ELSE "ready"
<1>3. o \in Operations /\ r \in Registrations
  BY <1>1 DEF Operations, Answers, Registrations
<1>4. op' = [op EXCEPT ![t] = o] /\ reg' = [reg EXCEPT ![t] = r]
  BY <1>2
<1>5. o.pc = "sent" /\ o.retries = op[t].retries /\ Served(o, r, t \in flow)
  BY <1>1, <1>2 DEF Operations, Served
<1> HIDE DEF o, r
<1> QED
  BY <1>1, <1>3, <1>4, <1>5, OperationGoesOn DEF BrokerRegisters

LEMMA BrokerRefusesStep ==
  ASSUME Inv, NEW t \in Topic, BrokerRefuses(t)
  PROVE  Inv'
<1> DEFINE o == [op[t] EXCEPT !.answer =
                    IF owner[t] = op[t].at THEN "busy" ELSE "retryable"]
<1>1. op[t] \in Operations /\ op[t].pc = "sent"
  BY DEF Inv, Shape, BrokerRefuses, InFlight
<1>2. o \in Operations
  BY <1>1 DEF Operations, Answers
<1>3. o.pc = "sent" /\ o.retries = op[t].retries /\ Served(o, reg[t], t \in flow)
  BY <1>1 DEF Operations, Served
<1>4. op' = [op EXCEPT ![t] = o]
  BY DEF BrokerRefuses
<1> HIDE DEF o
<1> QED
  BY <1>1, <1>2, <1>3, <1>4, AnswerTaken DEF BrokerRefuses

LEMMA RegistrationLostStep ==
  ASSUME Inv, NEW t \in Topic, RegistrationLost(t)
  PROVE  Inv'
<1>1. op[t] \in Operations /\ op[t].pc = "sent"
  BY DEF Inv, Shape, RegistrationLost
<1>2. PICK a \in {"retryable", "fatal"} : op' = [op EXCEPT ![t].answer = a]
  BY DEF RegistrationLost
<1> DEFINE o == [op[t] EXCEPT !.answer = a]
<1>3. o \in Operations
  BY <1>1 DEF Operations, Answers
<1>4. o.pc = "sent" /\ o.retries = op[t].retries /\ Served(o, reg[t], t \in flow)
  BY <1>1 DEF Operations, Served
<1>5. op' = [op EXCEPT ![t] = o]
  BY <1>2
<1> HIDE DEF o
<1> QED
  BY <1>1, <1>3, <1>4, <1>5, AnswerTaken DEF RegistrationLost

\* Only the stage of the operation moves.
LEMMA StageMoves ==
  ASSUME Inv, NEW t \in Topic, NEW pc \in OpPc, NEW o,
         UNCHANGED <<config, phase, lk, sent, broker>>,
         o \in {Taken(op[t], pc), [op[t] EXCEPT !.pc = pc]},
         op' = [op EXCEPT ![t] = o],
         op[t].pc \notin {"idle", "lookup"}, pc \notin {"idle", "sent", "lookup"},
         budget # None /\ pc = "delay" => op[t].retries < budget,
         pc = "exclusive" => kind = "producer",
         pc = "flow" => reg[t] \in {"ready", "moved"},
         pc = "open" => \/ reg[t] = "moved"
                        \/ reg[t] = "ready" /\ (kind # "producer" => t \in flow)
  PROVE  Inv'
<1>1. op[t] \in Operations
  BY DEF Inv, Shape
<1>2. o \in Operations /\ o.pc = pc /\ o.retries = op[t].retries
  BY <1>1 DEF Operations, Answers, Taken
<1>3. Served(o, reg[t], t \in flow)
  BY <1>2 DEF Served
<1> QED
  BY <1>2, <1>3, AnswerTaken

LEMMA RegisteredStep ==
  ASSUME Inv, NEW t \in Topic, Registered(t)
  PROVE  Inv'
<1>1. Served(op[t], reg[t], t \in flow)
  BY DEF Inv, Partition
<1>2. reg[t] \in {"ready", "moved"}
  BY <1>1 DEF Served, Registered, Answered
<1>4. CASE kind = "producer"
  <2>1. op' = [op EXCEPT ![t] = Taken(op[t], "open")]
    BY <1>4 DEF Registered
  <2> QED
    BY <1>2, <1>4, <2>1, StageMoves DEF Registered, Answered, OpPc
<1>5. CASE kind # "producer"
  <2>1. op' = [op EXCEPT ![t] = Taken(op[t], "flow")]
    BY <1>5 DEF Registered
  <2> QED
    BY <1>2, <1>5, <2>1, StageMoves DEF Registered, Answered, OpPc
<1> QED
  BY <1>4, <1>5

LEMMA MustWaitStep ==
  ASSUME Inv, NEW t \in Topic, MustWait(t)
  PROVE  Inv'
<1>1. Served(op[t], reg[t], t \in flow)
  BY DEF Inv, Partition
<1>2. kind = "producer"
  BY <1>1 DEF Served, MustWait, Answered
<1> QED
  BY <1>2, StageMoves DEF MustWait, Answered, OpPc

LEMMA RetryRefusedStep ==
  ASSUME Inv, NEW t \in Topic, RetryRefused(t)
  PROVE  Inv'
<1>1. CASE AllowRetry(op[t].retries)
  BY <1>1, StageMoves DEF RetryRefused, Answered, AllowRetry, OpPc
<1>2. CASE ~AllowRetry(op[t].retries)
  BY <1>2, StageMoves DEF RetryRefused, Answered, OpPc
<1> QED
  BY <1>1, <1>2

LEMMA FatalRefusedStep ==
  ASSUME Inv, NEW t \in Topic, FatalRefused(t)
  PROVE  Inv'
BY StageMoves DEF FatalRefused, Answered, OpPc

LEMMA SendFlowStep ==
  ASSUME Inv, NEW t \in Topic, SendFlow(t)
  PROVE  Inv'
<1>1. op[t] \in Operations /\ op[t].pc = "flow"
  BY DEF Inv, Shape, SendFlow
<1>2. CASE flow' = flow
  <2>1. PICK pc \in {"open", "failed"} :
          op' = [op EXCEPT ![t] = [op[t] EXCEPT !.pc = pc]]
    BY DEF SendFlow
  <2>2. pc = "open" => t \in flow
    <3>1. CASE Fault /\ op' = [op EXCEPT ![t].pc = "failed"]
      BY <1>1, <2>1, <3>1 DEF Inv, Shape, Operations
    <3>2. CASE flow' = flow \cup {t}
      BY <1>2, <3>2
    <3> QED
      BY <3>1, <3>2 DEF SendFlow
  <2>3. reg[t] \in {"ready", "moved"}
    BY <1>1 DEF Inv, Partition, Served
  <2> QED
    BY <1>1, <1>2, <2>1, <2>2, <2>3, StageMoves DEF SendFlow, OpPc, broker
<1>3. CASE flow' = flow \cup {t} /\ op' = [op EXCEPT ![t].pc = "open"]
  <2> DEFINE o == [op[t] EXCEPT !.pc = "open"]
             l == lk[t]
             n == sent[t]
             r == reg[t]
  <2>1. o \in Operations /\ o.pc = "open" /\ o.retries = op[t].retries
    BY <1>1 DEF Operations, OpPc
  <2>2. l \in Lookups /\ n \in Nat /\ r \in Registrations
    BY DEF Inv, Shape
  <2>3. Partition(l, op[t], n, r, t \in flow)
    BY DEF Inv
  <2>4. InPhase(l, o) /\ GoodLookup(l) /\ WithinBudget(o, n)
    BY <1>1, <2>1, <2>3 DEF Partition, InPhase, WithinBudget
  <2>5. Served(o, r, t \in flow')
    BY <1>1, <1>3, <2>1, <2>3 DEF Partition, Served
  <2>6. /\ lk' = [lk EXCEPT ![t] = l] /\ op' = [op EXCEPT ![t] = o]
        /\ sent' = [sent EXCEPT ![t] = n] /\ reg' = [reg EXCEPT ![t] = r]
        /\ owner' \in [Topic -> Owners]
    BY <1>3 DEF Inv, Shape, SendFlow
  <2>7. /\ flow' \subseteq Topic
        /\ \A u \in Topic \ {t} : u \in flow' <=> u \in flow
    BY <1>3 DEF Inv, Shape
  <2> HIDE DEF l, o, n, r
  <2> QED
    BY <2>1, <2>2, <2>4, <2>5, <2>6, <2>7, OnePartition DEF SendFlow, Partition
<1> QED
  BY <1>2, <1>3 DEF SendFlow

LEMMA ExclusiveGrantedStep ==
  ASSUME Inv, NEW t \in Topic, ExclusiveGranted(t)
  PROVE  Inv'
<1> DEFINE o == [op[t] EXCEPT !.pc = "open"]
<1>1. op[t] \in Operations /\ op[t].pc = "exclusive"
  BY DEF Inv, Shape, ExclusiveGranted
<1>2. o \in Operations /\ o.pc = "open" /\ o.retries = op[t].retries
  BY <1>1 DEF Operations, OpPc
<1>3. kind = "producer"
  BY <1>1 DEF Inv, Partition, Served
<1>4. Served(o, "ready", t \in flow)
  BY <1>2, <1>3 DEF Served
<1>5. op' = [op EXCEPT ![t] = o]
  BY DEF ExclusiveGranted
<1> HIDE DEF o
<1> QED
  BY <1>1, <1>2, <1>4, <1>5, OperationGoesOn DEF ExclusiveGranted, Registrations

LEMMA ExclusiveFailsStep ==
  ASSUME Inv, NEW t \in Topic, ExclusiveFails(t)
  PROVE  Inv'
<1> DEFINE o == [op[t] EXCEPT !.pc = "failed"]
<1>1. op[t] \in Operations /\ op[t].pc = "exclusive"
  BY DEF Inv, Shape, ExclusiveFails
<1>2. o \in Operations /\ o.pc = "failed" /\ o.retries = op[t].retries
  BY <1>1 DEF Operations, OpPc
<1>3. op' = [op EXCEPT ![t] = o]
  BY DEF ExclusiveFails, WaitFails
<1>4. PICK r \in Registrations : reg' = [reg EXCEPT ![t] = r]
  BY DEF ExclusiveFails, Registrations, Inv, Shape
<1>5. Served(o, r, t \in flow)
  BY <1>2 DEF Served
<1> HIDE DEF o
<1> QED
  BY <1>1, <1>2, <1>3, <1>4, <1>5, OperationGoesOn DEF ExclusiveFails

LEMMA DropClosesStep ==
  ASSUME Inv, NEW t \in Topic, DropCloses(t)
  PROVE  Inv'
<1> DEFINE o == [op[t] EXCEPT !.pc = "closed"]
<1>1. op[t] \in Operations /\ op[t].pc = "closing"
  BY DEF Inv, Shape, DropCloses
<1>2. o \in Operations /\ o.pc = "closed" /\ o.retries = op[t].retries
  BY <1>1 DEF Operations, OpPc
<1>3. op' = [op EXCEPT ![t] = o] /\ reg' = [reg EXCEPT ![t] = "none"]
  BY DEF DropCloses
<1>4. Served(o, "none", t \in flow)
  BY <1>2 DEF Served
<1> HIDE DEF o
<1> QED
  BY <1>1, <1>2, <1>3, <1>4, OperationGoesOn DEF DropCloses, Registrations

LEMMA KeptClosesStep ==
  ASSUME Inv, NEW t \in Topic, KeptCloses(t)
  PROVE  Inv'
<1> DEFINE o == [op[t] EXCEPT !.pc = "closed"]
<1>1. op[t] \in Operations /\ op[t].pc = "kept"
  BY DEF Inv, Shape, KeptCloses
<1>2. o \in Operations /\ o.pc = "closed" /\ o.retries = op[t].retries
  BY <1>1 DEF Operations, OpPc
<1>3. op' = [op EXCEPT ![t] = o] /\ reg' = [reg EXCEPT ![t] = "none"]
  BY DEF KeptCloses
<1>4. Served(o, "none", t \in flow)
  BY <1>2 DEF Served
<1> HIDE DEF o
<1> QED
  BY <1>1, <1>2, <1>3, <1>4, OperationGoesOn DEF KeptCloses, Registrations

LEMMA RetryDelayEndsStep ==
  ASSUME Inv, NEW t \in Topic, RetryDelayEnds(t)
  PROVE  Inv'
<1> DEFINE o == [op[t] EXCEPT !.pc = "lookup"]
           l == NewLookup
           n == sent[t]
           r == reg[t]
<1>1. op[t] \in Operations /\ op[t].pc = "delay"
  BY DEF Inv, Shape, RetryDelayEnds
<1>2. o \in Operations /\ o.pc = "lookup" /\ o.retries = op[t].retries
  BY <1>1 DEF Operations, OpPc
<1>3. l \in Lookups /\ GoodLookup(l) /\ n \in Nat /\ r \in Registrations
  BY NewLookupIsGood DEF Inv, Shape
<1>4. InPhase(l, o)
  BY <1>2 DEF InPhase, RetryDelayEnds
<1>5. Partition(lk[t], op[t], n, r, t \in flow)
  BY DEF Inv
<1>6. WithinBudget(o, n)
  BY <1>1, <1>2, <1>5 DEF Partition, WithinBudget
<1>7. Served(o, r, t \in flow')
  BY <1>2 DEF Served
<1>8. /\ lk' = [lk EXCEPT ![t] = l] /\ op' = [op EXCEPT ![t] = o]
      /\ sent' = [sent EXCEPT ![t] = n] /\ reg' = [reg EXCEPT ![t] = r]
      /\ owner' \in [Topic -> Owners]
      /\ flow' \subseteq Topic
      /\ \A u \in Topic \ {t} : u \in flow' <=> u \in flow
  BY DEF Inv, Shape, RetryDelayEnds, broker
<1> HIDE DEF l, o, n, r
<1> QED
  BY <1>2, <1>3, <1>4, <1>6, <1>7, <1>8, OnePartition DEF RetryDelayEnds, Partition

\* A retry is counted, and so is the registration it sends.
LEMMA RetryLookedUpStep ==
  ASSUME Inv, NEW t \in Topic, RetryLookedUp(t)
  PROVE  Inv'
<1> DEFINE l == NoLookup
           r == reg[t]
<1>1. op[t] \in Operations /\ op[t].pc = "lookup" /\ lk[t] \in Lookups
  BY DEF Inv, Shape, RetryLookedUp
<1>2. l \in Lookups /\ l.pc = "idle" /\ GoodLookup(l) /\ r \in Registrations
  BY NoLookupIsGood DEF Inv, Shape
<1>3. WithinBudget(op[t], sent[t]) /\ sent[t] \in Nat
  BY DEF Inv, Shape, Partition
<1>4. /\ lk' = [lk EXCEPT ![t] = l] /\ reg' = [reg EXCEPT ![t] = r]
      /\ owner' \in [Topic -> Owners]
      /\ flow' \subseteq Topic
      /\ \A u \in Topic \ {t} : u \in flow' <=> u \in flow
  BY DEF Inv, Shape, RetryLookedUp, broker
<1>5. CASE lk[t].pc = "found"
  <2> DEFINE o == Retried(t, lk[t].address.broker)
             n == Counted(sent[t])
  <2>1. Counted(op[t].retries) \in Nat /\ n \in Nat
    BY <1>1, <1>3 DEF Counted, Operations
  <2>2. /\ o.pc = "sent" /\ o.answer = None
        /\ o.retries = Counted(op[t].retries)
        /\ o \in Operations
    BY <1>1, <2>1 DEF Retried, Send, Operations, OpPc, Answers, Lookups, Addresses
  <2>3. op' = [op EXCEPT ![t] = o] /\ sent' = [sent EXCEPT ![t] = n]
    BY <1>5 DEF RetryLookedUp
  <2>4. InPhase(l, o)
    BY <1>2, <2>2 DEF InPhase, RetryLookedUp
  <2>5. budget # None => budget \in Nat
    BY BudgetsAssumption DEF Inv, Shape
  <2>6. Counted(sent[t]) = Counted(op[t].retries) + 1
    BY <1>1, <1>3 DEF WithinBudget, Counted, Operations
  <2>7. WithinBudget(o, n)
    BY <1>1, <1>3, <2>2, <2>5, <2>6 DEF WithinBudget, Counted, Operations
  <2>8. Served(o, r, t \in flow')
    BY <2>2, NoneAssumption DEF Served
  <2> HIDE DEF l, o, n, r
  <2> QED
    BY <1>2, <1>4, <2>1, <2>2, <2>3, <2>4, <2>7, <2>8, OnePartition
       DEF RetryLookedUp, Partition
<1>6. CASE lk[t].pc # "found"
  <2> DEFINE o == [op[t] EXCEPT !.pc = "failed"]
             n == sent[t]
  <2>1. o \in Operations /\ o.pc = "failed" /\ o.retries = op[t].retries
    BY <1>1 DEF Operations, OpPc
  <2>2. op' = [op EXCEPT ![t] = o] /\ sent' = [sent EXCEPT ![t] = n] /\ n \in Nat
    BY <1>3, <1>6 DEF RetryLookedUp, Inv, Shape
  <2>3. InPhase(l, o)
    BY <1>2, <2>1 DEF InPhase, RetryLookedUp
  <2>4. WithinBudget(o, n)
    BY <1>1, <1>3, <2>1 DEF WithinBudget
  <2>5. Served(o, r, t \in flow')
    BY <2>1 DEF Served
  <2> HIDE DEF l, o, n, r
  <2> QED
    BY <1>2, <1>4, <2>1, <2>2, <2>3, <2>4, <2>5, OnePartition
       DEF RetryLookedUp, Partition
<1> QED
  BY <1>5, <1>6

-----------------------------------------------------------------------------
(* The barriers, and the cluster.                                           *)

LEMMA InitInv == Init => Inv
<1> SUFFICES ASSUME Init
             PROVE  Inv
  OBVIOUS
<1>1. NoOperation \in Operations /\ NoOperation.pc = "idle" /\ NoOperation.retries = 0
  BY BaseAssumption DEF NoOperation, Operations, OpPc, Answers
<1>2. Shape
  BY <1>1, NoLookupIsGood, BaseAssumption DEF Init, Shape, Owners, Registrations
<1>3. ASSUME NEW t \in Topic
      PROVE  Partition(lk[t], op[t], sent[t], reg[t], t \in flow)
  <2>1. lk[t] = NoLookup /\ op[t] = NoOperation /\ sent[t] = 0
    BY DEF Init
  <2>2. budget # None => budget \in Nat
    BY BudgetsAssumption DEF Init
  <2> QED
    BY <1>1, <2>1, <2>2, NoLookupIsGood
       DEF Init, Partition, InPhase, WithinBudget, Served
<1> QED
  BY <1>2, <1>3 DEF Inv

LEMMA NumberKnownStep ==
  ASSUME Inv, NumberKnown
  PROVE  Inv'
<1>1. Shape'
  BY NewLookupIsGood DEF Inv, Shape, NumberKnown, config, broker
<1>2. ASSUME NEW t \in Topic
      PROVE  Partition(lk[t], op[t], sent[t], reg[t], t \in flow)'
  <2>1. lk'[t] = NewLookup /\ phase' = "lookups"
    BY DEF NumberKnown
  <2>2. Partition(lk[t], op[t], sent[t], reg[t], t \in flow)
    BY DEF Inv
  <2>3. GoodLookup(NewLookup)'
    BY NewLookupIsGood DEF GoodLookup, NumberKnown, config, NewLookup
  <2> QED
    BY <2>1, <2>2, <2>3
       DEF Partition, InPhase, WithinBudget, Served, GoodLookup, NumberKnown,
           config, broker
<1> QED
  BY <1>1, <1>2 DEF Inv

\* Build is over before anything is registered, or goes on asking.
LEMMA NumberOtherStep ==
  ASSUME Inv, NumberNotReady \/ NumberFails
  PROVE  Inv'
<1>1. /\ phase = "number" /\ phase' \in {"number", "failed"}
      /\ UNCHANGED <<kind, budget, proxied, lk, op, sent, owner, reg, flow>>
  BY DEF NumberNotReady, NumberFails, config, broker
<1>2. Shape'
  BY <1>1 DEF Inv, Shape
<1>3. ASSUME NEW t \in Topic
      PROVE  Partition(lk[t], op[t], sent[t], reg[t], t \in flow)'
  BY <1>1 DEF Inv, Partition, InPhase, GoodLookup, WithinBudget, Served
<1> QED
  BY <1>2, <1>3 DEF Inv

LEMMA LookupsJoinStep ==
  ASSUME Inv, LookupsJoin
  PROVE  Inv'
<1>1. ASSUME NEW t \in Topic
      PROVE  /\ lk'[t] = NoLookup /\ phase' = "creates" /\ sent'[t] = 1
             /\ op'[t].pc = "sent" /\ op'[t].answer = None /\ op'[t].retries = 0
             /\ op'[t] \in Operations
  <2>1. /\ op[t] \in Operations /\ lk[t] \in Lookups
        /\ op[t].pc = "idle" /\ op[t].retries = 0
    BY DEF Inv, Shape, Partition, InPhase, WithinBudget, LookupsJoin
  <2>2. op'[t] = Send(t, lk[t].address.broker, op[t])
    BY DEF LookupsJoin
  <2> QED
    BY <2>1, <2>2
       DEF LookupsJoin, Send, Operations, OpPc, Answers, Lookups, Addresses
<1>2. Shape'
  BY <1>1, NoLookupIsGood DEF Inv, Shape, LookupsJoin, config, broker
<1>3. ASSUME NEW t \in Topic
      PROVE  Partition(lk[t], op[t], sent[t], reg[t], t \in flow)'
  <2>1. budget # None => budget \in Nat
    BY BudgetsAssumption DEF Inv, Shape
  <2>2. GoodLookup(NoLookup)'
    BY NoLookupIsGood DEF GoodLookup, NoLookup
  <2> QED
    BY <1>1, <2>1, <2>2, NoLookupIsGood, NoneAssumption
       DEF Partition, InPhase, WithinBudget, Served, GoodLookup, LookupsJoin, config
<1> QED
  BY <1>2, <1>3 DEF Inv

LEMMA LookupsFailStep ==
  ASSUME Inv, LookupsFail
  PROVE  Inv'
<1>1. Shape'
  BY NoLookupIsGood DEF Inv, Shape, LookupsFail, config, broker
<1>2. ASSUME NEW t \in Topic
      PROVE  Partition(lk[t], op[t], sent[t], reg[t], t \in flow)'
  <2>1. lk'[t] = NoLookup /\ phase' = "failed"
    BY DEF LookupsFail
  <2> QED
    BY <2>1, NoLookupIsGood
       DEF Inv, Partition, InPhase, WithinBudget, Served, GoodLookup,
           LookupsFail, config, broker
<1> QED
  BY <1>1, <1>2 DEF Inv

LEMMA CreatesJoinStep ==
  ASSUME Inv, CreatesJoin
  PROVE  Inv'
<1>1. Shape'
  BY DEF Inv, Shape, CreatesJoin, config, broker
<1>2. ASSUME NEW t \in Topic
      PROVE  Partition(lk[t], op[t], sent[t], reg[t], t \in flow)'
  BY DEF Inv, Partition, InPhase, WithinBudget, Served, GoodLookup,
         CreatesJoin, config, broker
<1> QED
  BY <1>1, <1>2 DEF Inv

LEMMA CreatesFailStep ==
  ASSUME Inv, CreatesFail
  PROVE  Inv'
<1>1. ASSUME NEW t \in Topic
      PROVE  /\ op'[t] \in Operations
             /\ op'[t].retries = op[t].retries
             /\ op'[t].answer = op[t].answer
             /\ op'[t].pc \in {"closing", "kept", "sent", "gone"}
             /\ op'[t].pc = "sent" => op[t].pc = "sent"
  <2>1. op[t] \in Operations /\ op'[t] = DroppedOp(op[t])
    BY DEF Inv, Shape, CreatesFail
  <2>2. CASE op[t].pc = "open"
    BY <2>1, <2>2 DEF DroppedOp, Operations, OpPc
  <2>3. CASE op[t].pc = "sent"
    BY <2>1, <2>3 DEF DroppedOp, Operations, OpPc
  <2>4. CASE op[t].pc \notin {"open", "sent"}
    BY <2>1, <2>4 DEF DroppedOp, Operations, OpPc
  <2> QED
    BY <2>2, <2>3, <2>4
<1>2. Shape'
  BY <1>1, NoLookupIsGood DEF Inv, Shape, CreatesFail, config, broker
<1>3. ASSUME NEW t \in Topic
      PROVE  Partition(lk[t], op[t], sent[t], reg[t], t \in flow)'
  <2>1. /\ lk'[t] = NoLookup /\ phase' = "failed"
        /\ UNCHANGED <<kind, budget, proxied, sent, reg, flow>>
    BY DEF CreatesFail, config, broker
  <2>2. Partition(lk[t], op[t], sent[t], reg[t], t \in flow) /\ op[t].pc # "idle"
    BY DEF Inv, CreatesFail, Partition, InPhase
  <2> QED
    BY <1>1, <2>1, <2>2, NoLookupIsGood
       DEF Partition, InPhase, WithinBudget, Served, GoodLookup
<1> QED
  BY <1>2, <1>3 DEF Inv

LEMMA ReleaseStep ==
  ASSUME Inv, MetadataReady \/ \E t \in Topic : Release(t)
  PROVE  Inv'
<1>1. /\ UNCHANGED <<kind, budget, proxied, phase, lk, op, sent, reg, flow>>
      /\ owner' \in [Topic -> Owners]
  BY DEF MetadataReady, Release, config, client, Inv, Shape, Owners
<1>2. Shape'
  BY <1>1 DEF Inv, Shape
<1>3. ASSUME NEW t \in Topic
      PROVE  Partition(lk[t], op[t], sent[t], reg[t], t \in flow)'
  BY <1>1 DEF Inv, Partition, InPhase, GoodLookup, WithinBudget, Served
<1> QED
  BY <1>2, <1>3 DEF Inv

LEMMA UnloadStep ==
  ASSUME Inv, NEW t \in Topic, Unload(t)
  PROVE  Inv'
<1> DEFINE l == lk[t]
           o == op[t]
           n == sent[t]
           r == IF reg[t] \in {"ready", "waiting"} THEN "moved" ELSE reg[t]
<1>1. l \in Lookups /\ o \in Operations /\ n \in Nat /\ r \in Registrations
  BY DEF Inv, Shape, Registrations
<1>2. Partition(l, o, n, reg[t], t \in flow)
  BY DEF Inv
<1>3. Served(o, r, t \in flow')
  BY <1>2 DEF Partition, Served
<1>4. /\ UNCHANGED <<config, phase>>
      /\ lk' = [lk EXCEPT ![t] = l] /\ op' = [op EXCEPT ![t] = o]
      /\ sent' = [sent EXCEPT ![t] = n] /\ reg' = [reg EXCEPT ![t] = r]
      /\ owner' \in [Topic -> Owners]
      /\ flow' \subseteq Topic
      /\ \A u \in Topic \ {t} : u \in flow' <=> u \in flow
  BY DEF Inv, Shape, Unload, client, Owners
<1> HIDE DEF l, o, n, r
<1> QED
  BY <1>1, <1>2, <1>3, <1>4, OnePartition DEF Partition

-----------------------------------------------------------------------------
(* The theorems.                                                            *)

LEMMA StepInv == Inv /\ [Next]_vars => Inv'
<1> SUFFICES ASSUME Inv, [Next]_vars
             PROVE  Inv'
  OBVIOUS
<1>1. CASE Joins
  BY <1>1, NumberKnownStep, LookupsJoinStep, LookupsFailStep, CreatesJoinStep,
     CreatesFailStep DEF Joins
<1>2. CASE NumberNotReady \/ NumberFails \/ MetadataReady
  BY <1>2, NumberOtherStep, ReleaseStep
<1>3. ASSUME NEW t \in Topic, Lookup(t)
      PROVE  Inv'
  BY <1>3, LookupOwnedStep, LookupAcquiresStep, LookupRedirectedStep,
     LookupNotReadyStep, LookupDelayEndsStep DEF Lookup
<1>4. ASSUME NEW t \in Topic, Register(t)
      PROVE  Inv'
  BY <1>4, RegisteredStep, MustWaitStep, SendFlowStep, ExclusiveFailsStep,
     RetryRefusedStep, FatalRefusedStep, RetryDelayEndsStep, RetryLookedUpStep,
     DropClosesStep DEF Register
<1>5. ASSUME NEW t \in Topic, BrokerAnswers(t)
      PROVE  Inv'
  BY <1>5, BrokerRegistersStep, BrokerRefusesStep DEF BrokerAnswers
<1>6. ASSUME NEW t \in Topic,
             LookupDisconnected(t) \/ LookupFails(t) \/ RegistrationLost(t)
               \/ ExclusiveGranted(t) \/ KeptCloses(t) \/ Unload(t) \/ Release(t)
      PROVE  Inv'
  BY <1>6, LookupDisconnectedStep, LookupFailsStep, RegistrationLostStep,
     ExclusiveGrantedStep, KeptClosesStep, UnloadStep, ReleaseStep
<1>7. CASE UNCHANGED vars
  <2>1. UNCHANGED <<kind, budget, proxied, phase, lk, op, sent, owner, reg, flow>>
    BY <1>7 DEF vars, config, client, broker
  <2>2. Shape'
    BY <2>1 DEF Inv, Shape
  <2>3. ASSUME NEW t \in Topic
        PROVE  Partition(lk[t], op[t], sent[t], reg[t], t \in flow)'
    BY <2>1 DEF Inv, Partition, InPhase, GoodLookup, WithinBudget, Served
  <2> QED
    BY <2>2, <2>3 DEF Inv
<1> QED
  BY <1>1, <1>2, <1>3, <1>4, <1>5, <1>6, <1>7 DEF Next

LEMMA Invariance == Spec => []Inv
BY InitInv, StepInv, PTL DEF Spec

(* The state has its shape: a call that was dropped looks nothing up, and   *)
(* retry_create_producer and retry_subscribe_consumer send a registration   *)
(* once more than max_retries at most, whatever the lookups between two     *)
(* attempts cost, for every budget and every number of partitions.          *)
THEOREM TypeCorrect == Spec => []TypeOK
<1>1. Inv => TypeOK
  <2> SUFFICES ASSUME Inv
               PROVE  TypeOK
    OBVIOUS
  <2>1. ASSUME NEW t \in Topic
        PROVE  /\ lk[t].pc \in LookupPc /\ lk[t].elapsed \in 0..Timeout
               /\ op[t].pc \in OpPc /\ op[t].at \in Broker
               /\ owner[t] \in Broker \cup {None, "moving"}
               /\ reg[t] \in {"none", "waiting", "ready", "fenced", "moved"}
    BY DEF Inv, Shape, Lookups, Operations, Owners, Registrations
  <2>2. ASSUME NEW t \in Topic, budget # None
        PROVE  sent[t] <= budget + 1
    <3>1. budget \in Nat
      BY <2>2, BudgetsAssumption DEF Inv, Shape
    <3>2. op[t].retries \in Nat
      BY DEF Inv, Shape, Operations
    <3> QED
      BY <2>2, <3>1, <3>2 DEF Inv, Partition, WithinBudget
  <2>3. phase \in {"number", "done", "failed"} =>
          \A t \in Topic : lk[t].pc = "idle"
    BY DEF Inv, Partition, InPhase
  <2> QED
    BY <2>1, <2>2, <2>3 DEF TypeOK, Inv, Shape
<1> QED
  BY <1>1, Invariance, PTL

(* lookup_topic asks where the last answer sent it, also after the          *)
(* connection was lost, and behind a proxy connects to nothing else.        *)
THEOREM AskedRightly == Spec => []AskedRight
<1>1. Inv => AskedRight
  BY DEF Inv, Partition, GoodLookup, AskedRight, AskedWhereNamed, ThroughProxy
<1> QED
  BY <1>1, Invariance, PTL

(* What build hands out is registered with the broker, a consumer with its  *)
(* first permits, unless the partition has moved.                           *)
THEOREM HandedOutIsServed == Spec => []OpenIsServed
<1>1. Inv => OpenIsServed
  BY DEF Inv, Partition, Served, OpenIsServed
<1> QED
  BY <1>1, Invariance, PTL

-----------------------------------------------------------------------------
(* What a build that failed leaves behind.                                  *)

\* Nothing is registered for a call that was never sent or has been closed,
\* once build has failed no call goes on, and only a ticker keeps an engine.
Ended == {"idle", "sent", "gone", "closing", "kept", "closed"}
Tidy ==
    \A t \in Topic :
       /\ op[t].pc \in {"idle", "closed"} => reg[t] = "none"
       /\ phase = "failed" => op[t].pc \in Ended
       /\ op[t].pc = "kept" => kind = "redelivering"

\* One operation moves on, and its registration may.
LEMMA TidyMove ==
  ASSUME Tidy, NEW t \in Topic, UNCHANGED <<phase, kind>>,
         op'[t].pc \in {"idle", "closed"} => reg'[t] = "none",
         phase = "failed" => op'[t].pc \in Ended,
         op'[t].pc = "kept" => kind = "redelivering",
         \A u \in Topic \ {t} : op'[u] = op[u] /\ reg'[u] = reg[u]
  PROVE  Tidy'
BY DEF Tidy

LEMMA TidyRegister ==
  ASSUME Inv, Tidy, NEW t \in Topic, Register(t)
  PROVE  Tidy'
<1>a. op \in [Topic -> Operations] /\ reg \in [Topic -> Registrations]
  BY DEF Inv, Shape
<1>b. UNCHANGED <<phase, kind>> /\ \A u \in Topic \ {t} : op'[u] = op[u] /\ reg'[u] = reg[u]
  BY <1>a
     DEF Register, Registered, MustWait, SendFlow, ExclusiveFails, RetryRefused,
         FatalRefused, RetryDelayEnds, RetryLookedUp, DropCloses, config, broker
<1>1. CASE DropCloses(t)
  <2>1. op'[t].pc = "closed" /\ reg'[t] = "none"
    BY <1>1, <1>a DEF DropCloses, Operations
  <2> QED BY <1>b, <2>1, TidyMove DEF Ended
<1>2. CASE \/ Registered(t) \/ MustWait(t) \/ SendFlow(t) \/ ExclusiveFails(t)
           \/ RetryRefused(t) \/ FatalRefused(t) \/ RetryDelayEnds(t) \/ RetryLookedUp(t)
  <2>1. phase = "creates"
    <3>1. CASE RetryLookedUp(t)
      BY <3>1 DEF RetryLookedUp
    <3> QED
      BY <1>2, <3>1
         DEF Registered, MustWait, SendFlow, ExclusiveFails, RetryRefused,
             FatalRefused, RetryDelayEnds, Answered
  <2>2. op'[t].pc \notin {"idle", "closed", "kept"}
    <3>1. CASE Registered(t) \/ MustWait(t) \/ RetryRefused(t) \/ FatalRefused(t) \/ RetryDelayEnds(t)
      BY <3>1, <1>a DEF Registered, MustWait, RetryRefused, FatalRefused, RetryDelayEnds, Taken,
         Operations
    <3>2. CASE SendFlow(t)
      BY <3>2, <1>a DEF SendFlow, Operations
    <3>3. CASE ExclusiveFails(t)
      BY <3>3, <1>a DEF ExclusiveFails, WaitFails, Operations
    <3>4. CASE RetryLookedUp(t)
      BY <3>4, <1>a DEF RetryLookedUp, Retried, Send, Operations
    <3> QED BY <1>2, <3>1, <3>2, <3>3, <3>4
  <2> QED BY <1>b, <2>1, <2>2, TidyMove
<1> QED BY <1>1, <1>2 DEF Register

LEMMA TidyBroker ==
  ASSUME Inv, Tidy, NEW t \in Topic,
         \/ BrokerAnswers(t) \/ RegistrationLost(t) \/ ExclusiveGranted(t)
         \/ KeptCloses(t) \/ Unload(t)
  PROVE  Tidy'
<1>a. op \in [Topic -> Operations] /\ reg \in [Topic -> Registrations]
  BY DEF Inv, Shape
<1>b. UNCHANGED <<phase, kind>> /\ \A u \in Topic \ {t} : op'[u] = op[u] /\ reg'[u] = reg[u]
  BY <1>a
     DEF BrokerAnswers, BrokerRegisters, BrokerRefuses, ExclusiveGranted, RegistrationLost,
         KeptCloses, Unload, config, client, broker
<1>1. CASE BrokerRegisters(t) \/ BrokerRefuses(t) \/ RegistrationLost(t)
  <2>1. op'[t].pc = "sent"
    BY <1>1, <1>a DEF BrokerRegisters, BrokerRefuses, RegistrationLost, InFlight, Operations
  <2> QED BY <1>b, <2>1, TidyMove DEF Ended
<1>2. CASE ExclusiveGranted(t)
  <2>1. phase = "creates" /\ op'[t].pc = "open"
    BY <1>2, <1>a DEF ExclusiveGranted, Operations
  <2> QED BY <1>b, <2>1, TidyMove
<1>3. CASE Unload(t)
  <2>1. op' = op /\ (reg[t] = "none" => reg'[t] = "none")
    BY <1>3, <1>a DEF Unload, client
  <2> QED BY <1>b, <2>1, TidyMove DEF Tidy
<1>4. CASE KeptCloses(t)
  <2>1. op'[t].pc = "closed" /\ reg'[t] = "none"
    BY <1>4, <1>a DEF KeptCloses, Operations
  <2> QED BY <1>b, <2>1, TidyMove DEF Ended
<1> QED BY <1>1, <1>2, <1>3, <1>4 DEF BrokerAnswers

LEMMA TidyJoins ==
  ASSUME Inv, Tidy, LookupsJoin \/ CreatesFail
  PROVE  Tidy'
<1>a. op \in [Topic -> Operations] /\ UNCHANGED <<reg, kind>>
  BY DEF Inv, Shape, LookupsJoin, CreatesFail, broker, config
<1> SUFFICES ASSUME NEW t \in Topic
             PROVE  \/ op'[t].pc \in {"closing", "sent", "gone"}
                    \/ op'[t].pc = "kept" /\ kind = "redelivering"
    BY <1>a DEF Tidy, Ended
<1>1. CASE LookupsJoin
  <2>1. op'[t] = Send(t, lk[t].address.broker, op[t]) /\ op[t] \in Operations
    BY <1>1, <1>a DEF LookupsJoin
  <2> QED BY <2>1 DEF Send, Operations
<1>2. CASE CreatesFail
  <2>1. op'[t] = DroppedOp(op[t]) /\ op[t] \in Operations
    BY <1>2, <1>a DEF CreatesFail
  <2>2. CASE op[t].pc = "open"
    BY <2>1, <2>2 DEF DroppedOp, Operations
  <2>3. CASE op[t].pc # "open"
    BY <2>1, <2>3 DEF DroppedOp, Operations
  <2> QED BY <2>2, <2>3
<1> QED BY <1>1, <1>2

\* The other steps leave the operations and their registrations alone.
LEMMA TidyOther ==
  ASSUME Inv, Tidy, UNCHANGED <<op, reg, kind>>,
         phase' = "failed" => phase \in {"number", "lookups", "failed"}
  PROVE  Tidy'
<1>1. ASSUME NEW t \in Topic, phase \in {"number", "lookups"}
      PROVE  op[t].pc = "idle"
  BY <1>1 DEF Inv, Partition, InPhase
<1> QED BY <1>1 DEF Tidy, Ended

\* After a build that failed, a producer or consumer that is registered is of
\* a call that was dropped in flight, is closing, or is kept by its ticker.
LeftBehind ==
    phase = "failed" =>
       \A t \in Topic : reg[t] \in {"waiting", "ready"} =>
          \/ op[t].pc \in {"sent", "gone", "closing"}
          \/ kind = "redelivering" /\ op[t].pc = "kept"

(* When build fails it leaves no producer or consumer open, save those with *)
(* a redelivery delay, whose ticker keeps the engine: any other that it was *)
(* given closes in a task of its own, and what has closed is not registered *)
(* again by a late answer.  It is what FailureCloses rests on.              *)
THEOREM FailureLeavesOnlyKept == Spec => []LeftBehind
<1>1. Init => Tidy
  BY DEF Init, NoOperation, Tidy, Ended
<1>2. Inv /\ Tidy /\ [Next]_vars => Tidy'
  <2> SUFFICES ASSUME Inv, Tidy, [Next]_vars PROVE Tidy'
    OBVIOUS
  <2>1. CASE \/ NumberKnown \/ LookupsFail \/ CreatesJoin
             \/ NumberNotReady \/ NumberFails \/ MetadataReady \/ UNCHANGED vars
    <3>1. UNCHANGED <<op, reg, kind>> /\ (phase' = "failed" => phase \in {"number", "lookups", "failed"})
      BY <2>1
         DEF NumberKnown, LookupsFail, CreatesJoin, NumberNotReady, NumberFails,
             MetadataReady, vars, config, client, broker
    <3> QED BY <3>1, TidyOther
  <2>2. ASSUME NEW t \in Topic,
               Lookup(t) \/ LookupDisconnected(t) \/ LookupFails(t) \/ Release(t)
        PROVE  Tidy'
    <3>1. UNCHANGED <<op, reg, phase, kind>>
      BY <2>2
         DEF Lookup, LookupOwned, LookupAcquires, LookupRedirected, LookupNotReady,
             LookupDelayEnds, LookupDisconnected, LookupFails, Release, client, broker,
             config
    <3> QED BY <3>1, TidyOther DEF Inv, Shape
  <2> QED
    BY <2>1, <2>2, TidyJoins, TidyRegister, TidyBroker DEF Next, Joins
<1>3. Inv /\ Tidy => LeftBehind
  BY DEF Inv, Shape, Registrations, Tidy, Ended, LeftBehind
<1> QED BY <1>1, <1>2, <1>3, Invariance, PTL DEF Spec

=============================================================================
