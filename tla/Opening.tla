------------------------------ MODULE Opening ------------------------------
(***************************************************************************)
(* Opening producers or consumers on the partitions of a topic:            *)
(* ProducerBuilder::build and ConsumerBuilder::build (producer.rs,         *)
(* consumer/builder.rs) ask for the number of partitions, look every       *)
(* partition up (service_discovery.rs) and register on every broker found, *)
(* retrying as retry_op.rs says.  The two try_join_all barriers are two    *)
(* phases; the lookup and the registration of each partition are           *)
(* concurrent tasks.  The brokers are external: a partition is owned by    *)
(* one of them, unowned, or being moved.                                   *)
(***************************************************************************)
EXTENDS Integers, FiniteSets

CONSTANTS
    None,          \* Rust's Option::None, and "no broker"
    Broker,        \* the brokers of the cluster
    Base,          \* the one the client's service URL names
    Topic,         \* the partitions to open
    Budgets,       \* the values of OperationRetryOptions.max_retries explored
    Timeout,       \* OperationRetryOptions.operation_timeout, in retry delays
    MaxMoves,      \* bound: how often a partition leaves its broker
    MaxFaults      \* bound: connections lost, fatal answers, failed connects

ASSUME BaseAssumption == Base \in Broker /\ None \notin Broker
ASSUME NoneAssumption == None \notin {"ok", "notYet", "moving"}
ASSUME TimeoutAssumption == Timeout \in Nat \ {0}
ASSUME BudgetsAssumption == Budgets \subseteq Nat \cup {None}

VARIABLES
    kind,      \* what is opened, see Kinds
    budget,    \* max_retries
    proxied,   \* TRUE: the service URL is a proxy that hides the brokers
    phase,     \* of build: "number", "lookups", "creates", "done", "failed"
    numTries,  \* retries of lookup_partitioned_topic_number
    lk,        \* [Topic -> a lookup_topic call]
    op,        \* [Topic -> a retry_create_producer or retry_subscribe_consumer]
    sent,      \* history: registrations sent for the partition
    owner,     \* broker: [Topic -> its owner, None, or "moving"]
    metadata,  \* broker: TRUE once partition counts can be answered
    reg,       \* broker: [Topic -> the state of the client's registration]
    flow,      \* broker: partitions whose consumer was given permits
    moves,     \* ownership changes so far
    faults     \* faults so far

config == <<kind, budget, proxied>>
client == <<phase, numTries, lk, op, sent>>
broker == <<owner, metadata, reg, flow, moves>>
vars == <<config, client, broker, faults>>

-----------------------------------------------------------------------------
(* BrokerAddress: the broker meant and the URL connected to; going through  *)
(* a proxy means connecting to the service URL.                             *)
Address(b, p) == [broker |-> b, url |-> IF p THEN Base ELSE b, proxy |-> p]

BaseAddress == [broker |-> Base, url |-> Base, proxy |-> FALSE]

(* A consumer with an unacked_message_redelivery_delay has a ticker, which  *)
(* holds its engine.                                                        *)
Kinds == {"producer", "consumer", "redelivering"}

NewLookup ==
    [pc |-> "ask", conn |-> BaseAddress, address |-> BaseAddress,
     authoritative |-> FALSE, proxiedQuery |-> FALSE, again |-> FALSE,
     retries |-> 0, elapsed |-> 0]

NoLookup == [NewLookup EXCEPT !.pc = "idle"]
NoOperation == [pc |-> "idle", at |-> Base, answer |-> None, retries |-> 0]

Init ==
    /\ kind \in Kinds
    /\ budget \in Budgets
    /\ proxied \in BOOLEAN
    /\ phase = "number"
    /\ numTries = 0
    /\ lk = [t \in Topic |-> NoLookup]
    /\ op = [t \in Topic |-> NoOperation]
    /\ sent = [t \in Topic |-> 0]
    /\ owner \in [Topic -> {Base, None}]
    /\ metadata \in BOOLEAN
    /\ reg = [t \in Topic |-> "none"]
    /\ flow = {}
    /\ moves = 0
    /\ faults = 0

Fault == faults < MaxFaults /\ faults' = faults + 1

(* OperationRetryOptions::allow_retry; an unlimited budget needs no count.  *)
AllowRetryOffByOne(n) == budget = None \/ n <= budget
AllowRetry(n) == budget = None \/ n < budget
Counted(n) == IF budget = None THEN n ELSE n + 1

Later(n) == IF n < Timeout THEN n + 1 ELSE n

-----------------------------------------------------------------------------
(* lookup_partitioned_topic_number of a name that is not itself a           *)
(* partition's: a ServiceNotReady is retried within the budget, without a   *)
(* deadline.                                                                *)
NumberKnown ==
    /\ phase = "number"
    /\ metadata
    /\ phase' = "lookups"
    /\ lk' = [t \in Topic |-> NewLookup]
    /\ UNCHANGED <<config, numTries, op, sent, broker, faults>>

NumberNotReady ==
    /\ phase = "number"
    /\ ~metadata
    /\ IF AllowRetry(numTries)
       THEN numTries' = Counted(numTries) /\ phase' = phase
       ELSE phase' = "failed" /\ numTries' = numTries
    /\ UNCHANGED <<config, lk, op, sent, broker, faults>>

NumberFails ==
    /\ phase = "number"
    /\ Fault
    /\ phase' = "failed"
    /\ UNCHANGED <<config, numTries, lk, op, sent, broker>>

-----------------------------------------------------------------------------
(* lookup_topic, one iteration of its loop per action.                      *)
Asking(t) == phase \in {"lookups", "creates"} /\ lk[t].pc = "ask"

(* The answer names broker b.  A redirect is asked again, there, with the   *)
(* authoritative flag the answer carries; otherwise b is the address found. *)
AnswerForgetsProxy(t, b, redirect) ==
    LET p == proxied /\ lk[t].conn.broker = Base
        a == Address(b, p)
    IN  lk' = [lk EXCEPT ![t] =
              [@ EXCEPT !.pc = IF redirect THEN "ask" ELSE "found",
                        !.conn = a, !.address = a, !.again = FALSE,
                        !.authoritative = redirect, !.proxiedQuery = p]]

Answer(t, b, redirect) ==
    LET proxy == proxied /\ lk[t].conn.broker = Base
        a == Address(b, lk[t].proxiedQuery \/ proxy)
    IN  lk' = [lk EXCEPT ![t] =
              [@ EXCEPT !.pc = IF redirect THEN "ask" ELSE "found",
                        !.conn = a, !.address = a, !.again = FALSE,
                        !.authoritative = redirect,
                        !.proxiedQuery =
                           IF redirect THEN a.proxy ELSE lk[t].proxiedQuery]]

(* A broker answers for the owner it knows of.  An unowned partition is     *)
(* assigned: a broker asked with authority takes it, any other names a      *)
(* candidate.                                                               *)
LookupOwned(t) ==
    /\ Asking(t)
    /\ owner[t] \in Broker
    /\ Answer(t, owner[t], owner[t] # lk[t].conn.broker)
    /\ UNCHANGED <<config, phase, numTries, op, sent, broker, faults>>

LookupAcquires(t) ==
    /\ Asking(t)
    /\ owner[t] = None
    /\ lk[t].authoritative
    /\ owner' = [owner EXCEPT ![t] = lk[t].conn.broker]
    /\ Answer(t, lk[t].conn.broker, FALSE)
    /\ UNCHANGED <<config, phase, numTries, op, sent, metadata, reg, flow,
                   moves, faults>>

LookupRedirected(t) ==
    /\ Asking(t)
    /\ owner[t] = None
    /\ ~lk[t].authoritative
    /\ \E b \in Broker : Answer(t, b, TRUE)
    /\ UNCHANGED <<config, phase, numTries, op, sent, broker, faults>>

(* ServiceNotReady or MetadataError: asked again after retry_delay while    *)
(* both the budget and the deadline allow it.                               *)
WithinLimits(l) == AllowRetry(l.retries) /\ l.elapsed < Timeout

LookupNotReady(t) ==
    /\ Asking(t)
    /\ owner[t] = "moving"
    /\ lk' = [lk EXCEPT ![t] =
                 IF WithinLimits(@)
                 THEN [@ EXCEPT !.pc = "delay", !.again = FALSE,
                                !.retries = Counted(lk[t].retries)]
                 ELSE [@ EXCEPT !.pc = "failed"]]
    /\ UNCHANGED <<config, phase, numTries, op, sent, broker, faults>>

LookupDelayEnds(t) ==
    /\ lk[t].pc = "delay"
    /\ lk' = [lk EXCEPT ![t] = [@ EXCEPT !.pc = "ask",
                                          !.elapsed = Later(lk[t].elapsed)]]
    /\ UNCHANGED <<config, phase, numTries, op, sent, broker, faults>>

(* The connection is lost while the answer is awaited: reconnect to the     *)
(* address asked, ask once more; a second loss there is final.              *)
Reconnect(l) == [l EXCEPT !.conn = l.address, !.again = TRUE]

LookupDisconnected(t) ==
    /\ Asking(t)
    /\ Fault
    /\ lk' = [lk EXCEPT ![t] = IF @.again THEN [@ EXCEPT !.pc = "failed"]
                                          ELSE Reconnect(@)]
    /\ UNCHANGED <<config, phase, numTries, op, sent, broker>>

(* Any other error: of the query, of get_connection, an answer without a    *)
(* URL for the scheme in use, a refusal that is not retried.                *)
LookupFails(t) ==
    /\ Asking(t)
    /\ Fault
    /\ lk' = [lk EXCEPT ![t] = [@ EXCEPT !.pc = "failed"]]
    /\ UNCHANGED <<config, phase, numTries, op, sent, broker>>

-----------------------------------------------------------------------------
(* The first try_join_all: every address, or the first error.  What is      *)
(* still running is dropped.                                                *)
Send(t, b, o) == [o EXCEPT !.pc = "sent", !.at = b, !.answer = None]

LookupsJoin ==
    /\ phase = "lookups"
    /\ \A t \in Topic : lk[t].pc = "found"
    /\ phase' = "creates"
    /\ op' = [t \in Topic |-> Send(t, lk[t].address.broker, op[t])]
    /\ sent' = [t \in Topic |-> 1]
    /\ lk' = [t \in Topic |-> NoLookup]
    /\ UNCHANGED <<config, numTries, broker, faults>>

LookupsFail ==
    /\ phase = "lookups"
    /\ \E t \in Topic : lk[t].pc = "failed"
    /\ phase' = "failed"
    /\ lk' = [t \in Topic |-> NoLookup]
    /\ UNCHANGED <<config, numTries, op, sent, broker, faults>>

-----------------------------------------------------------------------------
(* The broker takes up a registration that was sent to it.  Only the owner  *)
(* registers; a producer that asked for exclusive access may have to wait.  *)
(* The answer is parked in op: the connection delivers it.                  *)
InFlight(t) == op[t].pc = "sent" /\ op[t].answer = None

BrokerRegisters(t) ==
    /\ InFlight(t)
    /\ owner[t] = op[t].at
    /\ \E wait \in IF kind = "producer" THEN BOOLEAN ELSE {FALSE} :
         /\ reg' = [reg EXCEPT ![t] = IF wait THEN "waiting" ELSE "ready"]
         /\ op' = [op EXCEPT ![t].answer = IF wait THEN "notYet" ELSE "ok"]
    /\ UNCHANGED <<config, phase, numTries, lk, sent, owner, metadata, flow,
                   moves, faults>>

(* ServiceNotReady of a broker that is not the owner, or ProducerBusy,      *)
(* ConsumerBusy or a quota of the owner, as often as it likes.              *)
BrokerRefuses(t) ==
    /\ InFlight(t)
    /\ op' = [op EXCEPT ![t].answer =
                 IF owner[t] = op[t].at THEN "busy" ELSE "retryable"]
    /\ UNCHANGED <<config, phase, numTries, lk, sent, broker, faults>>

(* An I/O error (retried), or Disconnected or a refusal (not retried); the  *)
(* broker may have registered before the answer was lost.                   *)
RegistrationLost(t) ==
    /\ op[t].pc = "sent"
    /\ Fault
    /\ \E a \in {"retryable", "fatal"} : op' = [op EXCEPT ![t].answer = a]
    /\ UNCHANGED <<config, phase, numTries, lk, sent, broker>>

-----------------------------------------------------------------------------
(* retry_create_producer and retry_subscribe_consumer.                      *)
Answered(t, a) ==
    phase = "creates" /\ op[t].pc = "sent" /\ op[t].answer = a

Taken(o, pc) == [o EXCEPT !.pc = pc, !.answer = None]

Registered(t) ==
    /\ Answered(t, "ok")
    /\ op' = [op EXCEPT ![t] = Taken(@, IF kind = "producer" THEN "open" ELSE "flow")]
    /\ UNCHANGED <<config, phase, numTries, lk, sent, broker, faults>>

(* producer_ready = false: wait_for_exclusive_access, without a timeout.    *)
MustWait(t) ==
    /\ Answered(t, "notYet")
    /\ op' = [op EXCEPT ![t] = Taken(@, "exclusive")]
    /\ UNCHANGED <<config, phase, numTries, lk, sent, broker, faults>>

(* The initial permits follow a subscription; their error is final.         *)
SendFlow(t) ==
    /\ phase = "creates"
    /\ op[t].pc = "flow"
    /\ \/ /\ op' = [op EXCEPT ![t].pc = "open"]
          /\ flow' = flow \cup {t}
          /\ UNCHANGED faults
       \/ /\ Fault
          /\ op' = [op EXCEPT ![t].pc = "failed"]
          /\ UNCHANGED flow
    /\ UNCHANGED <<config, phase, numTries, lk, sent, owner, metadata, reg, moves>>

(* The broker grants the access when nobody else has it any more, or fences *)
(* the producer that waits; a move of the partition ends the wait too.      *)
ExclusiveGranted(t) ==
    /\ phase = "creates"
    /\ op[t].pc = "exclusive"
    /\ reg[t] = "waiting"
    /\ reg' = [reg EXCEPT ![t] = "ready"]
    /\ op' = [op EXCEPT ![t].pc = "open"]
    /\ UNCHANGED <<config, phase, numTries, lk, sent, owner, metadata, flow,
                   moves, faults>>

WaitFailsOpen(o) == [o EXCEPT !.pc = "open"]
WaitFails(o) == [o EXCEPT !.pc = "failed"]

ExclusiveFails(t) ==
    /\ phase = "creates"
    /\ op[t].pc = "exclusive"
    /\ \/ Fault /\ reg[t] = "waiting" /\ reg' = [reg EXCEPT ![t] = "fenced"]
       \/ reg[t] = "moved" /\ UNCHANGED <<reg, faults>>
    /\ op' = [op EXCEPT ![t] = WaitFails(@)]
    /\ UNCHANGED <<config, phase, numTries, lk, sent, owner, metadata, flow, moves>>

(* handle_retry_error: budget, delay, a fresh lookup, a connection there.   *)
RetryRefused(t) ==
    /\ Answered(t, "retryable") \/ Answered(t, "busy")
    /\ op' = [op EXCEPT ![t] =
                 Taken(@, IF AllowRetry(op[t].retries) THEN "delay" ELSE "failed")]
    /\ UNCHANGED <<config, phase, numTries, lk, sent, broker, faults>>

FatalRefused(t) ==
    /\ Answered(t, "fatal")
    /\ op' = [op EXCEPT ![t] = Taken(@, "failed")]
    /\ UNCHANGED <<config, phase, numTries, lk, sent, broker, faults>>

Retried(t, b) == Send(t, b, [op[t] EXCEPT !.retries = Counted(@)])

RetryDelayEndsInPlace(t) ==
    /\ phase = "creates"
    /\ op[t].pc = "delay"
    /\ op' = [op EXCEPT ![t] = Retried(t, @.at)]
    /\ sent' = [sent EXCEPT ![t] = Counted(@)]
    /\ UNCHANGED <<config, phase, numTries, lk, broker, faults>>

RetryDelayEnds(t) ==
    /\ phase = "creates"
    /\ op[t].pc = "delay"
    /\ op' = [op EXCEPT ![t].pc = "lookup"]
    /\ lk' = [lk EXCEPT ![t] = NewLookup]
    /\ UNCHANGED <<config, phase, numTries, sent, broker, faults>>

RetryLookedUp(t) ==
    /\ phase = "creates"
    /\ op[t].pc = "lookup"
    /\ lk[t].pc \in {"found", "failed"}
    /\ IF lk[t].pc = "found"
       THEN /\ op' = [op EXCEPT ![t] = Retried(t, lk[t].address.broker)]
            /\ sent' = [sent EXCEPT ![t] = Counted(@)]
       ELSE /\ op' = [op EXCEPT ![t].pc = "failed"]
            /\ UNCHANGED sent
    /\ lk' = [lk EXCEPT ![t] = NoLookup]
    /\ UNCHANGED <<config, phase, numTries, broker, faults>>

-----------------------------------------------------------------------------
(* The second try_join_all.  Its first error drops the rest: what is open   *)
(* closes itself in a task of its own, a call still running just vanishes.  *)
CreatesJoin ==
    /\ phase = "creates"
    /\ \A t \in Topic : op[t].pc = "open"
    /\ phase' = "done"
    /\ UNCHANGED <<config, numTries, lk, op, sent, broker, faults>>

DroppedOp(o) ==
    CASE o.pc = "open" ->
            [o EXCEPT !.pc = IF kind = "redelivering" THEN "kept" ELSE "closing"]
      [] o.pc = "sent" -> o
      [] OTHER -> [o EXCEPT !.pc = "gone"]

CreatesFail ==
    /\ phase = "creates"
    /\ \E t \in Topic : op[t].pc = "failed"
    /\ phase' = "failed"
    /\ lk' = [t \in Topic |-> NoLookup]
    /\ op' = [t \in Topic |-> DroppedOp(op[t])]
    /\ UNCHANGED <<config, numTries, sent, broker, faults>>

(* The engine of a consumer that was dropped, and the Drop of a producer,   *)
(* close it over the connection it was just opened on.                      *)
DropForgets(t) ==
    /\ op[t].pc = "closing"
    /\ op' = [op EXCEPT ![t].pc = "closed"]
    /\ UNCHANGED <<config, phase, numTries, lk, sent, broker, faults>>

DropCloses(t) ==
    /\ op[t].pc = "closing"
    /\ op' = [op EXCEPT ![t].pc = "closed"]
    /\ reg' = [reg EXCEPT ![t] = "none"]
    /\ UNCHANGED <<config, phase, numTries, lk, sent, owner, metadata, flow,
                   moves, faults>>

(* An engine that the ticker keeps ends when a message comes: there is      *)
(* nobody to give it to.                                                    *)
KeptCloses(t) ==
    /\ op[t].pc = "kept"
    /\ reg[t] = "ready"
    /\ op' = [op EXCEPT ![t].pc = "closed"]
    /\ reg' = [reg EXCEPT ![t] = "none"]
    /\ UNCHANGED <<config, phase, numTries, lk, sent, owner, metadata, flow,
                   moves, faults>>

-----------------------------------------------------------------------------
(* The cluster: partition counts become available, a partition leaves its   *)
(* broker (which drops its producers and consumers) and becomes assignable. *)
MetadataReady ==
    /\ ~metadata
    /\ metadata' = TRUE
    /\ UNCHANGED <<config, client, owner, reg, flow, moves, faults>>

Unload(t) ==
    /\ moves < MaxMoves
    /\ owner[t] \in Broker
    /\ owner' = [owner EXCEPT ![t] = "moving"]
    /\ reg' = [reg EXCEPT ![t] = IF @ \in {"ready", "waiting"} THEN "moved" ELSE @]
    /\ flow' = flow \ {t}
    /\ moves' = moves + 1
    /\ UNCHANGED <<config, client, metadata, faults>>

Release(t) ==
    /\ owner[t] = "moving"
    /\ owner' = [owner EXCEPT ![t] = None]
    /\ UNCHANGED <<config, client, metadata, reg, flow, moves, faults>>

Lookup(t) ==
    \/ LookupOwned(t) \/ LookupAcquires(t) \/ LookupRedirected(t)
    \/ LookupNotReady(t) \/ LookupDelayEnds(t)

Register(t) ==
    \/ Registered(t) \/ MustWait(t) \/ SendFlow(t) \/ ExclusiveFails(t)
    \/ RetryRefused(t) \/ FatalRefused(t) \/ RetryDelayEnds(t)
    \/ RetryLookedUp(t) \/ DropCloses(t)

BrokerAnswers(t) == BrokerRegisters(t) \/ BrokerRefuses(t)

Joins ==
    NumberKnown \/ LookupsJoin \/ LookupsFail \/ CreatesJoin \/ CreatesFail

Next ==
    \/ Joins \/ NumberNotReady \/ NumberFails \/ MetadataReady
    \/ \E t \in Topic :
         \/ Lookup(t) \/ Register(t) \/ BrokerAnswers(t)
         \/ LookupDisconnected(t) \/ LookupFails(t) \/ RegistrationLost(t)
         \/ ExclusiveGranted(t) \/ KeptCloses(t) \/ Unload(t) \/ Release(t)

Spec == Init /\ [][Next]_vars

(* The tasks are polled, and a broker answers what reaches it, one way or   *)
(* the other.  Nothing says that partition counts become available, that an *)
(* exclusive access is given up, that a moved partition is ever released,   *)
(* or that a message comes.                                                 *)
FairSpec ==
    /\ Spec
    /\ WF_vars(Joins) /\ WF_vars(NumberNotReady)
    /\ \A t \in Topic :
         WF_vars(Lookup(t)) /\ WF_vars(Register(t)) /\ WF_vars(BrokerAnswers(t))

-----------------------------------------------------------------------------
LookupPc == {"idle", "ask", "delay", "found", "failed"}
OpPc == {"idle", "sent", "exclusive", "flow", "delay", "lookup", "open",
         "failed", "closing", "kept", "closed", "gone"}

(* The shape of the state; a call that was dropped looks nothing up, and    *)
(* max_retries bounds the registrations sent for a partition, whatever the  *)
(* lookups in between cost.                                                 *)
TypeOK ==
    /\ kind \in Kinds
    /\ budget \in Budgets
    /\ proxied \in BOOLEAN
    /\ phase \in {"number", "lookups", "creates", "done", "failed"}
    /\ phase \in {"number", "done", "failed"} =>
         \A t \in Topic : lk[t].pc = "idle"
    /\ \A t \in Topic :
         /\ lk[t].pc \in LookupPc
         /\ lk[t].elapsed \in 0..Timeout
         /\ op[t].pc \in OpPc
         /\ op[t].at \in Broker
         /\ owner[t] \in Broker \cup {None, "moving"}
         /\ reg[t] \in {"none", "waiting", "ready", "fenced", "moved"}
         /\ budget # None => sent[t] <= budget + 1

(* A query is always sent over a connection to the broker the last answer   *)
(* named, also after the connection was lost and opened again:              *)
(* lookup_topic keeps `conn` and `broker_address` apart.                    *)
AskedWhereNamed ==
    \A t \in Topic : lk[t].pc = "ask" => lk[t].conn = lk[t].address

(* Behind a proxy nothing but the service URL is ever connected to, however *)
(* many redirects a lookup follows and although the brokers behind it do    *)
(* not say again that they are proxied.                                     *)
ThroughProxy ==
    proxied => \A t \in Topic : lk[t].pc # "idle" => lk[t].address.url = Base

(* Every query goes to the right place: the broker named last, or the proxy. *)
AskedRight == AskedWhereNamed /\ ThroughProxy

(* A producer or consumer that was handed out is one the broker serves: the *)
(* registration is complete (a producer refused while it waited for         *)
(* exclusive access is not returned) and a consumer has its first permits,  *)
(* unless the partition has moved since.                                    *)
OpenIsServed ==
    \A t \in Topic : op[t].pc = "open" =>
        \/ reg[t] = "moved"
        \/ reg[t] = "ready" /\ (kind # "producer" => t \in flow)

(* Every lookup ends, even with unlimited retries and a partition that is   *)
(* never ready: redirects carry authority forward and the operation timeout *)
(* stops the retries.                                                       *)
LookupsEnd == \A t \in Topic : []<>(lk[t].pc \notin {"ask", "delay"})

(* Somebody else keeps the exclusive access a producer waits for.           *)
AccessKept == \E t \in Topic : <>[](op[t].pc = "exclusive")

(* With unlimited retries, the default: partition counts are never          *)
(* available, or the owner of a partition is busy again and again.          *)
RefusedForEver ==
    \/ <>[](budget = None /\ phase = "number")
    \/ \E t \in Topic : []<>(budget = None /\ op[t].answer = "busy")

(* build returns, unless an exclusive access is kept from it or unlimited   *)
(* retries are refused for ever: a broker that no longer owns the partition *)
(* is not asked for ever, because every retry looks the owner up again, and *)
(* a budget ends what the brokers do not.                                   *)
BuildEnds == []<>(phase \in {"done", "failed"}) \/ AccessKept \/ RefusedForEver

(* Both kinds of loop end.                                                  *)
LoopsEnd == LookupsEnd /\ BuildEnds

(* When build fails, what it had already opened is closed again.  What can  *)
(* stay behind is a registration whose call was dropped in flight, or whose *)
(* answer was lost, and a consumer with a redelivery delay, which its       *)
(* ticker keeps subscribed.                                                 *)
FailureCloses ==
    []<>(phase = "failed" =>
            \A t \in Topic : reg[t] \in {"waiting", "ready"} =>
                \/ op[t].pc \in {"sent", "gone"}
                \/ kind = "redelivering" /\ op[t].pc = "kept")

=============================================================================
