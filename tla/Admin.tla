-------------------------------- MODULE Admin --------------------------------
(***************************************************************************)
(* The admin client at work (src/src/admin/mod.rs) and the authentication  *)
(* it shares with the broker connections (src/src/authentication/oauth2.rs *)
(* and Connection::new in src/src/connection.rs).                          *)
(*                                                                         *)
(* Callers get, set or remove one policy of a namespace.  Every hop of a   *)
(* call first takes the shared authentication mutex and reads a token,     *)
(* which may have to be fetched while the mutex is held, then sends one    *)
(* HTTP request and interprets the answer: redirects are followed by hand, *)
(* up to MaxRedirects of them.  A connection handshake competes for the    *)
(* same mutex, one address after the other, each under a timeout that      *)
(* drops whatever the attempt was doing; and so does the auth_challenge    *)
(* task of an open connection, which has no timeout.                       *)
(*                                                                         *)
(* The broker is external: the policy it stores, the host that owns the    *)
(* namespace, the answers it gives.  A request whose caller timed out may  *)
(* still be executed.                                                      *)
(***************************************************************************)
EXTENDS AdminApi

CONSTANTS Calls,        \* the admin calls, one operation each
          Hosts,        \* the brokers
          Addresses,    \* number of addresses the broker's name resolves to
          MaxRedirects, \* redirects a call follows (MAX_REDIRECTS)
          MaxFaults,    \* bound: faults of the broker, the network, the issuer
          MaxAges,      \* bound: steps in which the cached token grows older
          Samples,      \* the rows of AdminApi the calls use
          Plans         \* which operation each of the calls is

ASSUME AdminAssumption ==
   /\ Addresses \in Nat \ {0} /\ MaxRedirects \in Nat
   /\ MaxFaults \in Nat /\ MaxAges \in Nat
   /\ Hosts # {} /\ Samples # {} /\ {"handshake", "challenge"} \cap Calls = {}
   /\ Plans \subseteq [Calls -> {"get", "set", "remove"}]

VARIABLES sample,  \* the row the calls use
          store,   \* the broker: the value of the policy
          owner,   \* the broker: the host that owns the namespace
          call,    \* per call: where it is and what it has seen
          late,    \* requests in flight whose call has given up
          auth,    \* per user of the mutex: its progress to a credential
          token,   \* the cached token
          shake,   \* the connection handshake
          faults, ages

vars == <<sample, store, owner, call, late, auth, token, shake, faults, ages>>

Users == Calls \cup {"handshake", "challenge"}

\* What the store holds: no namespace, no override, or the value of a call.
Stored == {"gone", "unset"} \cup Calls

Tokens == {"none", "fresh", "expiring", "expired"}

\* hand: the credential the user got.  "lapsed" is a token that expired while
\* its own refresh was under way, "missing" the unwrap of an absent token.
AuthState ==
   [phase : {"idle", "wait", "fetch", "held"},
    stale : BOOLEAN,
    hand : {"no", "valid", "lapsed", "expired", "missing"}]

NoAuth == [phase |-> "idle", stale |-> FALSE, hand |-> "no"]

CallState ==
   [pc : {"idle", "busy", "done"},
    op : {"get", "set", "remove"},
    hop : 0..MaxRedirects,
    host : Hosts,
    keep : BOOLEAN,           \* Hop::keep_body
    value : Stored,           \* body of the answer; what a write left
    result : {"none", "ok", "error"},
    applied : 0..2,           \* ghost: times the broker applied the write
    seen : SUBSET Stored]     \* ghost: what the store held during a get

Shake ==
   [left : 0..Addresses, errors : SUBSET {"retryable", "fatal"},
    result : {"none", "ok", "retryable", "fatal"}]

\* The host of admin_url, where every call starts.
BaseHost == CHOOSE h \in Hosts : TRUE

-----------------------------------------------------------------------------
Init ==
   /\ sample \in Samples
   /\ store = "unset"
   /\ owner \in Hosts
   /\ \E plan \in Plans :
         call = [c \in Calls |->
            [pc |-> "idle", op |-> plan[c], hop |-> 0, host |-> BaseHost,
             keep |-> TRUE, value |-> "unset", result |-> "none",
             applied |-> 0, seen |-> {}]]
   /\ late = {}
   /\ auth = [u \in Users |-> NoAuth]
   /\ token = "none"
   /\ shake = [left |-> Addresses, errors |-> {}, result |-> "none"]
   /\ faults = 0 /\ ages = 0

Fault == faults < MaxFaults /\ faults' = faults + 1

-----------------------------------------------------------------------------
\* The token cache, behind the mutex.

Locked == \E u \in Users : auth[u].phase = "fetch"

\* A credential read from the cache; the mutex is released with it.
Hand(u, tok, lapsed) ==
   auth' = [auth EXCEPT ![u] =
      [phase |-> "held", stale |-> FALSE,
       hand |-> IF tok = "none" THEN "missing"
                ELSE IF tok # "expired" THEN "valid"
                ELSE IF lapsed THEN "lapsed" ELSE "expired"]]

\* Whether the token is absent or expired, read before the refresh.
NoneOrExpired == token \in {"none", "expired"}

\* Mutant: a token in the cache is never refreshed.
TakeLockCached(u) ==
   /\ auth[u].phase = "wait" /\ ~Locked
   /\ IF token # "none"
      THEN Hand(u, token, FALSE)
      ELSE auth' = [auth EXCEPT ![u].phase = "fetch",
                                ![u].stale = NoneOrExpired]
   /\ UNCHANGED <<sample, store, owner, call, late, token, shake, faults, ages>>

\* The mutex is taken; a token that is missing, expired or close to expiry is
\* fetched with the mutex held.
TakeLock(u) ==
   /\ auth[u].phase = "wait" /\ ~Locked
   /\ IF token = "fresh"
      THEN Hand(u, token, FALSE)
      ELSE auth' = [auth EXCEPT ![u].phase = "fetch",
                                ![u].stale = NoneOrExpired]
   /\ UNCHANGED <<sample, store, owner, call, late, token, shake, faults, ages>>

FetchSucceeds(u) ==
   /\ auth[u].phase = "fetch"
   /\ token' = "fresh"
   /\ Hand(u, "fresh", FALSE)
   /\ UNCHANGED <<sample, store, owner, call, late, shake, faults, ages>>

\* A call is over.
Return(c, result, value) ==
   /\ call' = [call EXCEPT ![c].pc = "done", ![c].result = result,
                           ![c].value = value, ![c].seen = @ \cap {value},
                           ![c].host = BaseHost, ![c].hop = 0]
   /\ auth' = [auth EXCEPT ![c] = NoAuth]

\* An address failed: the next one is tried; after the last one the error is
\* a retryable one if there was any.
AddressFails(kind) ==
   LET errors == shake.errors \cup {kind}
   IN  /\ shake' =
            [left |-> shake.left - 1, errors |-> errors,
             result |-> IF shake.left > 1 THEN "none"
                        ELSE IF "retryable" \in errors THEN "retryable"
                        ELSE "fatal"]
       /\ auth' = [auth EXCEPT !["handshake"] = NoAuth]

\* A refresh that failed: an error if there was no valid token before it, the
\* token in the cache otherwise.  An auth_challenge task flags its connection
\* and ends.
FetchFails(u) ==
   /\ auth[u].phase = "fetch"
   /\ Fault
   /\ IF ~auth[u].stale
      THEN Hand(u, token, TRUE) /\ UNCHANGED <<token, call, shake>>
      ELSE /\ token' = "none"
           /\ \/ /\ u \in Calls
                 /\ Return(u, "error", "unset")
                 /\ UNCHANGED shake
              \/ /\ u = "handshake"
                 /\ \E kind \in {"retryable", "fatal"} : AddressFails(kind)
                 /\ UNCHANGED call
              \/ /\ u = "challenge"
                 /\ auth' = [auth EXCEPT ![u] = NoAuth]
                 /\ UNCHANGED <<call, shake>>
   /\ UNCHANGED <<sample, store, owner, late, ages>>

\* Time passes for the cached token.
Age ==
   /\ ages < MaxAges /\ token \in {"fresh", "expiring"}
   /\ token' = IF token = "fresh" THEN "expiring" ELSE "expired"
   /\ ages' = ages + 1
   /\ UNCHANGED <<sample, store, owner, call, late, auth, shake, faults>>

-----------------------------------------------------------------------------
\* The admin client.

\* The request of the current hop: the method of the operation, or a GET
\* without a body after a 301, 302 or 303.
Verb(c) == IF call[c].keep THEN Head(sample[call[c].op]) ELSE "GET"

\* A request is in flight from the moment apply_auth returns.
InFlight(c) == call[c].pc = "busy" /\ auth[c].phase = "held"

Start(c) ==
   /\ call[c].pc = "idle"
   /\ call' = [call EXCEPT ![c].pc = "busy",
                           ![c].seen = IF call[c].op = "get" THEN {store}
                                       ELSE {}]
   /\ auth' = [auth EXCEPT ![c].phase = "wait"]
   /\ UNCHANGED <<sample, store, owner, late, token, shake, faults, ages>>

\* The next hop, which authenticates anew: the request itself after a 307 or
\* a 308, a GET without its body after a 301, 302 or 303.
NextHop(c, host, keep) ==
   /\ call' = [call EXCEPT ![c].hop = @ + 1, ![c].host = host,
                           ![c].keep = keep]
   /\ auth' = [auth EXCEPT ![c] = [NoAuth EXCEPT !.phase = "wait"]]

\* A redirect is followed, unless the call has followed too many; without a
\* Location it is an answer, and any answer but a success is an error.
Redirected(c, host, keep) ==
   IF call[c].hop = MaxRedirects THEN Return(c, "error", "unset")
   ELSE NextHop(c, host, keep)

\* The per-request timeout of the HTTP client, or its user, ends the call: a
\* request in flight may still arrive, and the mutex is released.
GivesUp(c) ==
   /\ late' = IF InFlight(c) /\ Verb(c) # "GET" THEN late \cup {c} ELSE late
   /\ UNCHANGED <<sample, store, owner, token, shake, ages>>

\* Mutant: the request that timed out is sent again.
TimeOutResends(c) ==
   /\ InFlight(c) /\ c \notin late
   /\ call' = [call EXCEPT ![c].host = BaseHost]
   /\ auth' = [auth EXCEPT ![c] = [NoAuth EXCEPT !.phase = "wait"]]
   /\ GivesUp(c) /\ UNCHANGED faults

TimeOut(c) ==
   /\ InFlight(c) /\ Return(c, "error", "unset")
   /\ GivesUp(c) /\ UNCHANGED faults

Drop(c) ==
   /\ call[c].pc = "busy" /\ Return(c, "none", "unset")
   /\ GivesUp(c) /\ Fault

-----------------------------------------------------------------------------
\* The broker and whoever else administers it.

\* The path at which the policy a request is sent to is read.
ReadPath(path) ==
   CASE path = <<"removeOffloadPolicies">> -> <<"offloadPolicies">>
     [] path = <<"backlogQuota">> -> <<"backlogQuotaMap">>
     [] Head(path) = "resourcegroup" -> <<"resourcegroup">>
     [] OTHER -> path

\* What the policy is once the call's write was executed.  A null body and a
\* DELETE both clear it.
Written(c) ==
   LET op == call[c].op
       addressed == ReadPath(Tail(sample[op])) = Tail(sample.get)
   IN  IF ~addressed THEN store ELSE IF op = "set" THEN c ELSE "unset"

\* What every getter at work could have read.
Watch(calls, value) ==
   [c \in Calls |->
      IF calls[c].pc = "busy" /\ calls[c].op = "get"
      THEN [calls[c] EXCEPT !.seen = @ \cup {value}] ELSE calls[c]]

\* A host that does not own the namespace answers 307; something on the way
\* may answer 302 with some Location, or an error, or a redirect without one.
Redirect(c) ==
   /\ InFlight(c)
   /\ \/ /\ call[c].host # owner
         /\ Redirected(c, owner, TRUE)
         /\ UNCHANGED faults
      \/ Fault /\ \E h \in Hosts : Redirected(c, h, FALSE)
      \/ Fault /\ Return(c, "error", "unset")
   /\ UNCHANGED <<sample, store, owner, late, token, shake, ages>>

\* A credential that is not accepted is answered 401, by any host, and a
\* namespace that does not exist 404: both are errors.
Refuse(c) ==
   /\ InFlight(c)
   /\ auth[c].hand # "valid" \/ (call[c].host = owner /\ store = "gone")
   /\ Return(c, "error", "unset")
   /\ UNCHANGED <<sample, store, owner, late, token, shake, faults, ages>>

\* The owner answers a GET with the policy, or with an empty body.
Read(c) ==
   /\ InFlight(c) /\ call[c].host = owner
   /\ auth[c].hand = "valid" /\ store # "gone" /\ Verb(c) = "GET"
   /\ Return(c, "ok", store)
   /\ UNCHANGED <<sample, store, owner, late, token, shake, faults, ages>>

\* The write of call c is executed.
Execute(c, calls) ==
   /\ store' = Written(c)
   /\ call' = Watch([calls EXCEPT ![c].applied = @ + 1], Written(c))

Write(c) ==
   /\ InFlight(c) /\ call[c].host = owner
   /\ auth[c].hand = "valid" /\ store # "gone" /\ Verb(c) # "GET"
   /\ Execute(c, [call EXCEPT ![c].pc = "done", ![c].result = "ok",
                              ![c].value = Written(c), ![c].host = BaseHost,
                              ![c].hop = 0])
   /\ auth' = [auth EXCEPT ![c] = NoAuth]
   /\ UNCHANGED <<sample, owner, late, token, shake, faults, ages>>

\* A write whose call has given up arrives.
WriteLate(c) ==
   /\ c \in late /\ late' = late \ {c}
   /\ IF store = "gone" THEN UNCHANGED <<store, call>> ELSE Execute(c, call)
   /\ UNCHANGED <<sample, owner, auth, token, shake, faults, ages>>

\* The namespace is created, deleted, or moved to another host.
Administer ==
   /\ Fault
   /\ \/ /\ store' = IF store = "gone" THEN "unset" ELSE "gone"
         /\ call' = Watch(call, store')
         /\ UNCHANGED owner
      \/ /\ \E h \in Hosts \ {owner} : owner' = h
         /\ UNCHANGED <<store, call>>
   /\ UNCHANGED <<sample, late, auth, token, shake, ages>>

-----------------------------------------------------------------------------
\* The connection handshake.

\* An address is dialled, and prepare_auth_data asks for the mutex.
Dial ==
   /\ shake.result = "none" /\ auth["handshake"].phase = "idle"
   /\ \/ /\ auth' = [auth EXCEPT !["handshake"].phase = "wait"]
         /\ UNCHANGED <<shake, faults>>
      \/ Fault /\ AddressFails("retryable")
   /\ UNCHANGED <<sample, store, owner, call, late, token, ages>>

\* The broker answers CONNECT: it refuses a credential that has expired.
Connect ==
   /\ auth["handshake"].phase = "held"
   /\ IF auth["handshake"].hand = "valid"
      THEN /\ shake' = [shake EXCEPT !.result = "ok"]
           /\ auth' = [auth EXCEPT !["handshake"] = NoAuth]
      ELSE AddressFails("fatal")
   /\ UNCHANGED <<sample, store, owner, call, late, token, faults, ages>>

\* Mutant: the timeout leaves the mutex with the attempt.
ConnectTimeoutHolds ==
   /\ shake.result = "none"
   /\ IF auth["handshake"].phase = "fetch"
      THEN shake' = [shake EXCEPT !.result = "retryable"] /\ UNCHANGED auth
      ELSE AddressFails("retryable")
   /\ UNCHANGED <<sample, store, owner, call, late, token, faults, ages>>

\* connection_timeout: the attempt is dropped, with the mutex if it has it.
ConnectTimeout ==
   /\ shake.result = "none"
   /\ AddressFails("retryable")
   /\ UNCHANGED <<sample, store, owner, call, late, token, faults, ages>>

-----------------------------------------------------------------------------
\* The auth_challenge task of a connection that is open; "challenge" is the one
\* at work.  It has no deadline, and outlives its connection until it is done.

\* The broker asks for a new credential.
Challenged ==
   /\ auth["challenge"].phase = "idle"
   /\ auth' = [auth EXCEPT !["challenge"].phase = "wait"]
   /\ UNCHANGED <<sample, store, owner, call, late, token, shake, faults, ages>>

\* It is sent.
Respond ==
   /\ auth["challenge"].phase = "held"
   /\ auth' = [auth EXCEPT !["challenge"] = NoAuth]
   /\ UNCHANGED <<sample, store, owner, call, late, token, shake, faults, ages>>

-----------------------------------------------------------------------------
Authenticates(u) == TakeLock(u) \/ FetchSucceeds(u) \/ FetchFails(u)

Client(c) == Start(c) \/ TimeOut(c) \/ Drop(c)

Broker(c) ==
   Redirect(c) \/ Refuse(c) \/ Read(c) \/ Write(c) \/ WriteLate(c)

Handshake == Dial \/ Connect \/ ConnectTimeout

Challenge == Challenged \/ Respond

Next ==
   \/ \E u \in Users : Authenticates(u)
   \/ \E c \in Calls : Client(c) \/ Broker(c)
   \/ Handshake \/ Challenge \/ Administer \/ Age

\* The HTTP client's timeout and connection_timeout fire, and the executor
\* runs what can run.  Nothing is asked of the broker, nor of the token
\* endpoint, whose requests have no timeout of their own.
Fairness ==
   /\ \A c \in Calls : WF_vars(TakeLock(c)) /\ WF_vars(TimeOut(c))
   /\ WF_vars(ConnectTimeout)

Spec == Init /\ [][Next]_vars /\ Fairness

-----------------------------------------------------------------------------
\* Type correctness of the calls, the mutex, the token and the handshake.
TypeOK ==
   /\ sample \in Samples /\ store \in Stored /\ owner \in Hosts
   /\ call \in [Calls -> CallState] /\ late \subseteq Calls
   /\ auth \in [Users -> AuthState] /\ token \in Tokens
   /\ shake \in Shake
   /\ faults \in 0..MaxFaults /\ ages \in 0..MaxAges

\* No operation sends the request of another one, except the variants of one
\* operation (the tables of src/src/admin).
EndpointsDistinct == SentByMany = SharedRequests

\* No DELETE is sent where the broker would take it for the deletion of a
\* bundle (namespaces.rs: the policies without a remove).
RemovesRouted == Deleted \cap NoDeleteRoute = {}

\* The endpoint tables the calls use, written by hand, send every operation
\* where it belongs.
EndpointsRight == sample \in Samples /\ EndpointsDistinct /\ RemovesRouted

\* A getter that succeeds returns a value the broker held during the call:
\* None is an existing namespace without an override, never a missing one.
ReadsAreTrue ==
   \A c \in Calls :
      call[c].op = "get" /\ call[c].result = "ok" =>
         call[c].value \in call[c].seen \ {"gone"}

\* However many hops it takes, and although a request that timed out may
\* still be executed, a write is applied at most once.
AppliedOnce == \A c \in Calls : call[c].applied <= 1

\* A write that succeeds was applied and left the policy as it asked, unless
\* a 301, 302 or 303 turned its last hop into a GET.
OkMeansApplied ==
   \A c \in Calls :
      /\ call[c].op # "get" /\ call[c].result = "ok" /\ call[c].keep
      => /\ call[c].applied = 1
         /\ call[c].value = IF call[c].op = "set" THEN c ELSE "unset"

\* What a call reports is what happened, across redirects, timeouts and
\* namespaces that come, go and move.
AnswersAreTrue == TypeOK /\ ReadsAreTrue /\ AppliedOnce /\ OkMeansApplied

\* A credential that is handed out exists and has not expired, unless it
\* expired while its refresh was failing.
CredentialsLive ==
   \A u \in Users : auth[u].hand \notin {"expired", "missing"}

\* A request to the token endpoint that nothing ends: only the handshake's has
\* a deadline.
Hung == \E u \in Users \ {"handshake"} : <>[](auth[u].phase = "fetch")

\* Every call returns, whatever the broker does and although a handshake may
\* be waiting for a token with the mutex held, unless the token endpoint lets
\* another request hang, which then holds the mutex for ever; and a handshake
\* ends even then.
CallsReturn ==
   /\ \A c \in Calls : <>[](call[c].pc # "busy") \/ Hung
   /\ <>[](shake.result # "none")
=============================================================================
