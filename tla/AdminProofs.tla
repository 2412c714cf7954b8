----------------------------- MODULE AdminProofs -----------------------------
(* Proofs about Admin, for any calls, hosts, addresses, redirects and       *)
(* faults: what a call reports is what happened, and no user of the token   *)
(* cache is handed a credential that is missing or has expired.             *)
EXTENDS Admin, TLAPS

-----------------------------------------------------------------------------
(* The inductive invariant. *)

\* One user at a time fetches a token.
Exclusive ==
   \A u, v \in Users : auth[u].phase = "fetch" /\ auth[v].phase = "fetch" => u = v

\* The token that a failed refresh falls back on is still there.
TokenKept ==
   \A u \in Users : auth[u].phase = "fetch" /\ ~auth[u].stale => token # "none"

\* Only calls at work, and a handshake with addresses left, authenticate.
Asking == \A c \in Calls : auth[c].phase # "idle" => call[c].pc = "busy"

Shaking ==
   /\ shake.result = "none" => shake.left > 0
   /\ auth["handshake"].phase # "idle" => shake.result = "none"

\* A write that may still be executed has not been yet, and has not succeeded.
Unwritten ==
   \A c \in Calls :
      /\ call[c].pc # "done" => call[c].applied = 0 /\ call[c].result = "none"
      /\ c \in late => /\ call[c].pc = "done" /\ call[c].result # "ok"
                       /\ call[c].applied = 0

\* What the record k of call c says is true, also while a getter is at work:
\* it has seen what the store s holds.
Truthful(c, k, s) ==
   /\ k.pc = "busy" /\ k.op = "get" => s \in k.seen
   /\ k.op = "get" /\ k.result = "ok" => k.value \in k.seen \ {"gone"}
   /\ k.applied <= 1
   /\ k.op # "get" /\ k.result = "ok" /\ k.keep =>
         k.applied = 1 /\ k.value = IF k.op = "set" THEN c ELSE "unset"

Answers == \A c \in Calls : Truthful(c, call[c], store)

Shape == TypeOK /\ Exclusive /\ TokenKept /\ Asking /\ Shaking

(* What the rows of the tables must be for the answers to be true: a getter *)
(* sends a GET, the others do not, and all address one policy.              *)
RowRight(row) ==
   /\ Head(row.get) = "GET"
   /\ Head(row.set) # "GET" /\ ReadPath(Tail(row.set)) = Tail(row.get)
   /\ Head(row.remove) # "GET" /\ ReadPath(Tail(row.remove)) = Tail(row.get)

RowsRight == \A row \in Samples : RowRight(row)

-----------------------------------------------------------------------------
(* The building blocks of the actions. *)

LEMMA UsersAre ==
   /\ Calls \subseteq Users /\ {"handshake", "challenge"} \subseteq Users
   /\ \A c \in Calls : c # "handshake" /\ c # "challenge"
   /\ \A u \in Users : u \in Calls \/ u = "handshake" \/ u = "challenge"
   /\ BaseHost \in Hosts
BY AdminAssumption DEF Users, BaseHost

LEMMA NoAuthType == NoAuth \in AuthState
BY DEF NoAuth, AuthState

LEMMA HandType ==
   ASSUME auth \in [Users -> AuthState], NEW u \in Users, NEW tok, NEW lapsed \in BOOLEAN,
          Hand(u, tok, lapsed)
   PROVE  /\ auth' \in [Users -> AuthState]
          /\ auth'[u].phase = "held"
          /\ \A v \in Users \ {u} : auth'[v] = auth[v]
BY DEF Hand, AuthState

LEMMA ReturnType ==
   ASSUME TypeOK, NEW c \in Calls, NEW result \in {"none", "ok", "error"},
          NEW value \in Stored, Return(c, result, value)
   PROVE  /\ call' \in [Calls -> CallState] /\ auth' \in [Users -> AuthState]
          /\ auth'[c].phase = "idle"
          /\ \A v \in Users \ {c} : auth'[v] = auth[v]
<1>0. NoAuth \in AuthState /\ c \in Users /\ BaseHost \in Hosts /\ NoAuth.phase = "idle"
  BY UsersAre, NoAuthType DEF NoAuth
<1>1. 0 \in 0..MaxRedirects
  BY AdminAssumption
<1>2. call' \in [Calls -> CallState]
  <2> DEFINE r == [call[c] EXCEPT !.pc = "done", !.result = result, !.value = value,
                      !.seen = call[c].seen \cap {value}, !.host = BaseHost, !.hop = 0]
  <2>1. call[c] \in CallState /\ call \in [Calls -> CallState]
    BY DEF TypeOK
  <2>2. r \in CallState
    BY <1>0, <1>1, <2>1 DEF CallState
  <2>3. call' = [call EXCEPT ![c] = r]
    BY <2>1 DEF Return, CallState
  <2> QED BY <2>1, <2>2, <2>3
<1>3. auth \in [Users -> AuthState] /\ auth' = [auth EXCEPT ![c] = NoAuth]
  BY DEF Return, TypeOK
<1>4. auth' \in [Users -> AuthState] /\ auth'[c].phase = "idle"
  BY <1>0, <1>3
<1>5. \A v \in Users \ {c} : auth'[v] = auth[v]
  BY <1>3
<1> QED BY <1>2, <1>4, <1>5

LEMMA AddressFailsType ==
   ASSUME TypeOK, Shaking, shake.result = "none", NEW kind \in {"retryable", "fatal"},
          AddressFails(kind)
   PROVE  /\ shake' \in Shake /\ auth' \in [Users -> AuthState]
          /\ shake'.result = "none" => shake'.left > 0
          /\ auth'["handshake"].phase = "idle"
          /\ \A v \in Users \ {"handshake"} : auth'[v] = auth[v]
<1>0. NoAuth \in AuthState /\ NoAuth.phase = "idle"
  BY NoAuthType DEF NoAuth
<1>1. shake.left \in 1..Addresses /\ Addresses \in Nat
  BY AdminAssumption DEF TypeOK, Shake, Shaking
<1>2. shake' \in Shake /\ (shake'.result = "none" => shake'.left > 0)
  BY <1>1 DEF AddressFails, TypeOK, Shake
<1>3. auth' = [auth EXCEPT !["handshake"] = NoAuth]
  BY DEF AddressFails
<1> QED BY <1>0, <1>2, <1>3, UsersAre DEF TypeOK

LEMMA FaultType == ASSUME TypeOK, Fault PROVE faults' \in 0..MaxFaults
BY AdminAssumption DEF TypeOK, Fault

LEMMA WrittenType == ASSUME TypeOK, NEW c \in Calls PROVE Written(c) \in Stored
BY DEF Written, TypeOK, Stored

LEMMA WatchType ==
   ASSUME NEW calls \in [Calls -> CallState], NEW value \in Stored
   PROVE  /\ Watch(calls, value) \in [Calls -> CallState]
          /\ \A d \in Calls :
                /\ Watch(calls, value)[d].pc = calls[d].pc
                /\ Watch(calls, value)[d].op = calls[d].op
                /\ Watch(calls, value)[d].keep = calls[d].keep
                /\ Watch(calls, value)[d].value = calls[d].value
                /\ Watch(calls, value)[d].result = calls[d].result
                /\ Watch(calls, value)[d].applied = calls[d].applied
                /\ calls[d].pc = "busy" /\ calls[d].op = "get"
                      => value \in Watch(calls, value)[d].seen
                /\ calls[d].pc # "busy" => Watch(calls, value)[d] = calls[d]
BY DEF Watch, CallState

LEMMA ReturnEffect ==
   ASSUME TypeOK, NEW c \in Calls, NEW result, NEW value, Return(c, result, value)
   PROVE  /\ call'[c].pc = "done" /\ call'[c].op = call[c].op
          /\ call'[c].keep = call[c].keep /\ call'[c].value = value
          /\ call'[c].result = result /\ call'[c].applied = call[c].applied
          /\ call'[c].seen = call[c].seen \cap {value}
          /\ \A d \in Calls \ {c} : call'[d] = call[d]
BY DEF Return, TypeOK, CallState

LEMMA ExecuteEffect ==
   ASSUME TypeOK, NEW c \in Calls, NEW calls \in [Calls -> CallState],
          calls[c].applied = 0, calls[c].pc = "done", Execute(c, calls)
   PROVE  /\ call' \in [Calls -> CallState] /\ store' \in Stored
          /\ call'[c] = [calls[c] EXCEPT !.applied = 1]
          /\ \A d \in Calls :
                /\ call'[d].pc = calls[d].pc /\ call'[d].op = calls[d].op
                /\ call'[d].keep = calls[d].keep /\ call'[d].value = calls[d].value
                /\ call'[d].result = calls[d].result
                /\ d # c => call'[d].applied = calls[d].applied
                /\ calls[d].pc = "busy" /\ calls[d].op = "get" => store' \in call'[d].seen
                /\ d # c /\ calls[d].pc # "busy" => call'[d] = calls[d]
<1> DEFINE counted == [calls EXCEPT ![c].applied = @ + 1]
<1>1. /\ counted \in [Calls -> CallState] /\ counted[c] = [calls[c] EXCEPT !.applied = 1]
      /\ \A d \in Calls \ {c} : counted[d] = calls[d]
  BY DEF CallState
<1>2. Written(c) \in Stored /\ store' = Written(c) /\ call' = Watch(counted, store')
  BY WrittenType DEF Execute
<1>3. /\ counted[c].pc = "done" /\ counted[c].op = calls[c].op
      /\ counted[c].keep = calls[c].keep /\ counted[c].value = calls[c].value
      /\ counted[c].result = calls[c].result
  BY <1>1 DEF CallState
<1> HIDE DEF counted
<1>4. /\ Watch(counted, store') \in [Calls -> CallState]
      /\ \A d \in Calls :
            /\ call'[d].pc = counted[d].pc /\ call'[d].op = counted[d].op
            /\ call'[d].keep = counted[d].keep /\ call'[d].value = counted[d].value
            /\ call'[d].result = counted[d].result
            /\ call'[d].applied = counted[d].applied
            /\ counted[d].pc = "busy" /\ counted[d].op = "get"
                  => store' \in call'[d].seen
            /\ counted[d].pc # "busy" => call'[d] = counted[d]
  BY <1>1, <1>2, WatchType
<1>5. call'[c] = counted[c]
  BY <1>3, <1>4
<1>6. ASSUME NEW d \in Calls \ {c}
      PROVE  /\ call'[d].pc = calls[d].pc /\ call'[d].op = calls[d].op
             /\ call'[d].keep = calls[d].keep /\ call'[d].value = calls[d].value
             /\ call'[d].result = calls[d].result
             /\ call'[d].applied = calls[d].applied
             /\ calls[d].pc = "busy" /\ calls[d].op = "get" => store' \in call'[d].seen
             /\ calls[d].pc # "busy" => call'[d] = calls[d]
  <2>1. counted[d] = calls[d]
    BY <1>1
  <2> QED BY <2>1, <1>4
<1>7. call'[c] = [calls[c] EXCEPT !.applied = 1] /\ calls[c].pc # "busy"
  BY <1>5, <1>1
<1>8. /\ call'[c].pc = calls[c].pc /\ call'[c].op = calls[c].op
      /\ call'[c].keep = calls[c].keep /\ call'[c].value = calls[c].value
      /\ call'[c].result = calls[c].result
  BY <1>5, <1>3
<1>9. call' \in [Calls -> CallState] /\ store' \in Stored
  BY <1>2, <1>4
<1> QED BY <1>6, <1>7, <1>8, <1>9

-----------------------------------------------------------------------------
(* Type, mutex, token and handshake. *)

LEMMA InitShape == Init => Shape
<1> SUFFICES ASSUME Init PROVE Shape
  OBVIOUS
<1>1. call \in [Calls -> CallState]
  <2>1. PICK plan \in Plans : call = [c \in Calls |->
            [pc |-> "idle", op |-> plan[c], hop |-> 0, host |-> BaseHost,
             keep |-> TRUE, value |-> "unset", result |-> "none",
             applied |-> 0, seen |-> {}]]
    BY DEF Init
  <2>2. plan \in [Calls -> {"get", "set", "remove"}] /\ 0 \in 0..MaxRedirects
    BY AdminAssumption
  <2>3. "unset" \in Stored /\ {} \subseteq Stored /\ BaseHost \in Hosts
    BY UsersAre DEF Stored
  <2> QED BY <2>1, <2>2, <2>3 DEF CallState
<1>2. shake \in Shake /\ shake.left > 0
  BY AdminAssumption DEF Init, Shake
<1>3. auth \in [Users -> AuthState] /\ \A u \in Users : auth[u].phase = "idle"
  BY NoAuthType DEF Init, NoAuth
<1>4. TypeOK
  BY <1>1, <1>2, <1>3, AdminAssumption DEF Init, TypeOK, Stored, Tokens
<1> QED BY <1>2, <1>3, <1>4, UsersAre DEF Shape, Exclusive, TokenKept, Asking, Shaking, Init

\* A user that leaves the mutex, or stays outside, disturbs nobody in it.
LEMMA OutsideMutex ==
   ASSUME Exclusive, TokenKept, NEW u \in Users,
          token' = token \/ token' # "none" \/ auth[u].phase = "fetch",
          auth'[u].phase # "fetch", \A v \in Users \ {u} : auth'[v] = auth[v]
   PROVE  Exclusive' /\ TokenKept'
<1>1. \A v \in Users : auth'[v].phase = "fetch" => v # u /\ auth'[v] = auth[v]
  OBVIOUS
<1> QED BY <1>1 DEF Exclusive, TokenKept

\* The calls and the handshake stay apart.
LEMMA OthersAsking ==
   ASSUME Shape, NEW u \in Users, \A v \in Users \ {u} : auth'[v] = auth[v]
   PROVE  /\ UNCHANGED call /\ (u \in Calls /\ auth'[u].phase # "idle" => call[u].pc = "busy")
             => Asking'
          /\ UNCHANGED shake /\ u # "handshake" => Shaking'
<1>1. ASSUME UNCHANGED call, u \in Calls /\ auth'[u].phase # "idle" => call[u].pc = "busy"
      PROVE  Asking'
  BY <1>1, UsersAre DEF Shape, Asking
<1>2. ASSUME UNCHANGED shake, u # "handshake" PROVE Shaking'
  BY <1>2, UsersAre DEF Shape, Shaking
<1> QED BY <1>1, <1>2

LEMMA ReturnShape ==
   ASSUME Shape, NEW c \in Calls, NEW result \in {"none", "ok", "error"},
          NEW value \in Stored, Return(c, result, value),
          token' = token \/ token' # "none" \/ auth[c].phase = "fetch", UNCHANGED shake
   PROVE  Exclusive' /\ TokenKept' /\ Asking' /\ Shaking'
<1>1. c \in Users /\ c # "handshake"
  BY UsersAre
<1>2. /\ auth'[c].phase = "idle" /\ \A v \in Users \ {c} : auth'[v] = auth[v]
  BY ReturnType DEF Shape
<1>3. \A d \in Calls \ {c} : call'[d] = call[d]
  BY ReturnEffect DEF Shape
<1>4. Asking'
  BY <1>2, <1>3, UsersAre DEF Shape, Asking
<1> QED BY <1>1, <1>2, <1>4, OutsideMutex, OthersAsking DEF Shape

LEMMA AddressFailsShape ==
   ASSUME Shape, shake.result = "none", NEW kind \in {"retryable", "fatal"},
          AddressFails(kind), UNCHANGED call,
          token' = token \/ token' # "none" \/ auth["handshake"].phase = "fetch"
   PROVE  /\ shake' \in Shake /\ auth' \in [Users -> AuthState]
          /\ Exclusive' /\ TokenKept' /\ Asking' /\ Shaking'
<1>1. /\ shake' \in Shake /\ auth' \in [Users -> AuthState]
      /\ shake'.result = "none" => shake'.left > 0
      /\ auth'["handshake"].phase = "idle"
      /\ \A v \in Users \ {"handshake"} : auth'[v] = auth[v]
  BY AddressFailsType DEF Shape
<1>2. \A c \in Calls : auth'[c] = auth[c]
  BY <1>1, UsersAre
<1>3. Asking' /\ Shaking'
  BY <1>1, <1>2, UsersAre DEF Shape, Asking, Shaking
<1>4. Exclusive' /\ TokenKept'
  BY <1>1, OutsideMutex, UsersAre DEF Shape
<1> QED BY <1>1, <1>3, <1>4

LEMMA AuthenticatesShape ==
   ASSUME Shape, NEW u \in Users, Authenticates(u) PROVE Shape'
<1>0. TypeOK /\ Exclusive /\ TokenKept /\ Asking /\ Shaking
  BY DEF Shape
<1>1. CASE TakeLock(u) /\ token = "fresh"
  <2>1. Hand(u, token, FALSE) /\ auth[u].phase = "wait" /\ UNCHANGED <<call, shake, token>>
    BY <1>1 DEF TakeLock
  <2>2. /\ auth' \in [Users -> AuthState] /\ auth'[u].phase = "held"
        /\ \A v \in Users \ {u} : auth'[v] = auth[v]
    BY <2>1, <1>0, HandType DEF TypeOK
  <2>3. TypeOK'
    BY <1>0, <1>1, <2>2 DEF TakeLock, TypeOK
  <2>4. Exclusive' /\ TokenKept'
    BY <1>0, <2>1, <2>2, OutsideMutex
  <2>5. Asking' /\ Shaking'
    BY <1>0, <2>1, <2>2, UsersAre DEF Asking, Shaking
  <2> QED BY <2>3, <2>4, <2>5 DEF Shape
<1>2. CASE TakeLock(u) /\ token # "fresh"
  <2>1. /\ auth' = [auth EXCEPT ![u].phase = "fetch", ![u].stale = NoneOrExpired]
        /\ auth[u].phase = "wait" /\ ~Locked /\ UNCHANGED <<call, shake, token>>
    BY <1>2 DEF TakeLock
  <2>2. /\ auth' \in [Users -> AuthState]
        /\ auth'[u].phase = "fetch" /\ auth'[u].stale = NoneOrExpired
        /\ \A v \in Users \ {u} : auth'[v] = auth[v]
    <3> DEFINE r == [auth[u] EXCEPT !.phase = "fetch", !.stale = NoneOrExpired]
    <3>1. auth[u] \in AuthState /\ auth \in [Users -> AuthState]
      BY <1>0 DEF TypeOK
    <3>2. NoneOrExpired \in BOOLEAN
      BY DEF NoneOrExpired
    <3>3. r \in AuthState /\ r.phase = "fetch" /\ r.stale = NoneOrExpired
      BY <3>1, <3>2, Zenon DEF AuthState
    <3>4. auth' = [auth EXCEPT ![u] = r]
      BY <2>1, <3>1, Zenon DEF AuthState
    <3> HIDE DEF r
    <3> QED BY <3>1, <3>3, <3>4
  <2>3. TypeOK'
    BY <1>0, <1>2, <2>2 DEF TakeLock, TypeOK
  <2>4. \A v \in Users \ {u} : auth'[v].phase # "fetch"
    BY <2>1, <2>2 DEF Locked
  <2>5. Exclusive'
    BY <2>4 DEF Exclusive
  <2>6. TokenKept'
    <3>1. NoneOrExpired \/ token' # "none"
      BY <2>1 DEF NoneOrExpired
    <3> QED BY <3>1, <2>2, <2>4 DEF TokenKept
  <2>7. Asking' /\ Shaking'
    BY <1>0, <2>1, <2>2, UsersAre DEF Asking, Shaking
  <2> QED BY <2>3, <2>5, <2>6, <2>7 DEF Shape
<1>3. CASE FetchSucceeds(u)
  <2>1. /\ Hand(u, "fresh", FALSE) /\ auth[u].phase = "fetch"
        /\ token' = "fresh" /\ UNCHANGED <<call, shake>>
    BY <1>3 DEF FetchSucceeds
  <2>2. /\ auth' \in [Users -> AuthState] /\ auth'[u].phase = "held"
        /\ \A v \in Users \ {u} : auth'[v] = auth[v]
    BY <2>1, <1>0, HandType DEF TypeOK
  <2>3. TypeOK'
    BY <1>0, <1>3, <2>2 DEF FetchSucceeds, TypeOK, Tokens
  <2>4. Exclusive' /\ TokenKept'
    BY <1>0, <2>1, <2>2, OutsideMutex
  <2>5. Asking' /\ Shaking'
    BY <1>0, <2>1, <2>2, UsersAre DEF Asking, Shaking
  <2> QED BY <2>3, <2>4, <2>5 DEF Shape
<1>4. CASE FetchFails(u) /\ ~auth[u].stale
  <2>1. /\ Hand(u, token, TRUE) /\ auth[u].phase = "fetch" /\ Fault
        /\ UNCHANGED <<call, shake, token>>
    BY <1>4 DEF FetchFails
  <2>2. /\ auth' \in [Users -> AuthState] /\ auth'[u].phase = "held"
        /\ \A v \in Users \ {u} : auth'[v] = auth[v]
    BY <2>1, <1>0, HandType DEF TypeOK
  <2>3. TypeOK'
    BY <1>0, <1>4, <2>1, <2>2, FaultType DEF FetchFails, TypeOK
  <2>4. Exclusive' /\ TokenKept'
    BY <1>0, <2>1, <2>2, OutsideMutex
  <2>5. Asking' /\ Shaking'
    BY <1>0, <2>1, <2>2, UsersAre DEF Asking, Shaking
  <2> QED BY <2>3, <2>4, <2>5 DEF Shape
<1>5. CASE FetchFails(u) /\ auth[u].stale /\ u \in Calls
  <2>1. /\ Return(u, "error", "unset") /\ auth[u].phase = "fetch" /\ Fault
        /\ token' = "none" /\ UNCHANGED shake
    BY <1>5, UsersAre DEF FetchFails
  <2>2. /\ call' \in [Calls -> CallState] /\ auth' \in [Users -> AuthState]
    BY <2>1, <1>0, <1>5, ReturnType DEF Stored
  <2>3. TypeOK'
    BY <1>0, <1>5, <2>1, <2>2, FaultType DEF FetchFails, TypeOK, Tokens
  <2>4. "unset" \in Stored
    BY DEF Stored
  <2>5. Exclusive' /\ TokenKept' /\ Asking' /\ Shaking'
    BY <2>1, <2>4, <1>5, ReturnShape
  <2> QED BY <2>3, <2>5 DEF Shape
<1>6. CASE FetchFails(u) /\ auth[u].stale /\ u = "handshake"
  <2>1. /\ auth[u].phase = "fetch" /\ Fault
        /\ token' = "none" /\ UNCHANGED call
    BY <1>6, UsersAre DEF FetchFails
  <2>2. PICK kind \in {"retryable", "fatal"} : AddressFails(kind)
    BY <1>6, UsersAre DEF FetchFails
  <2>3. shake.result = "none"
    BY <1>0, <1>6, <2>1 DEF Shaking
  <2>4. /\ shake' \in Shake /\ auth' \in [Users -> AuthState]
        /\ Exclusive' /\ TokenKept' /\ Asking' /\ Shaking'
    BY <1>6, <2>1, <2>2, <2>3, AddressFailsShape
  <2>5. TypeOK'
    BY <1>0, <1>6, <2>1, <2>4, FaultType DEF FetchFails, TypeOK, Tokens
  <2> QED BY <2>4, <2>5 DEF Shape
<1>7. CASE FetchFails(u) /\ auth[u].stale /\ u = "challenge"
  <2>1. /\ auth' = [auth EXCEPT ![u] = NoAuth] /\ auth[u].phase = "fetch" /\ Fault
        /\ token' = "none" /\ UNCHANGED <<call, shake>>
    BY <1>7, UsersAre DEF FetchFails
  <2>2. /\ auth' \in [Users -> AuthState] /\ auth'[u].phase = "idle"
        /\ \A v \in Users \ {u} : auth'[v] = auth[v]
    BY <1>0, <2>1, NoAuthType DEF TypeOK, NoAuth
  <2>3. TypeOK'
    BY <1>0, <1>7, <2>1, <2>2, FaultType DEF FetchFails, TypeOK, Tokens
  <2>4. Exclusive' /\ TokenKept'
    BY <1>0, <2>1, <2>2, OutsideMutex
  <2>5. Asking' /\ Shaking'
    BY <1>0, <1>7, <2>1, <2>2, UsersAre DEF Asking, Shaking
  <2> QED BY <2>3, <2>4, <2>5 DEF Shape
<1> QED
  BY <1>1, <1>2, <1>3, <1>4, <1>5, <1>6, <1>7, UsersAre DEF Authenticates

LEMMA StartType ==
   ASSUME TypeOK, NEW c \in Calls, Start(c)
   PROVE  /\ call' \in [Calls -> CallState] /\ auth' \in [Users -> AuthState]
          /\ call'[c].pc = "busy" /\ call'[c].op = call[c].op
          /\ call'[c].applied = call[c].applied /\ call'[c].result = call[c].result
          /\ call[c].op = "get" => store \in call'[c].seen
          /\ \A d \in Calls \ {c} : call'[d] = call[d]
          /\ auth'[c].phase = "wait"
          /\ \A v \in Users \ {c} : auth'[v] = auth[v]
<1> DEFINE seen == IF call[c].op = "get" THEN {store} ELSE {}
           r == [call[c] EXCEPT !.pc = "busy", !.seen = seen]
           a == [auth[c] EXCEPT !.phase = "wait"]
<1>1. call[c] \in CallState /\ c \in Users /\ auth[c] \in AuthState /\ store \in Stored
  BY UsersAre DEF TypeOK
<1>2. seen \subseteq Stored /\ (call[c].op = "get" => store \in seen)
  BY <1>1
<1>3. call' = [call EXCEPT ![c] = r] /\ auth' = [auth EXCEPT ![c] = a]
  BY <1>1 DEF Start, CallState
<1> HIDE DEF seen
<1>4. /\ r \in CallState /\ r.pc = "busy" /\ r.op = call[c].op /\ r.seen = seen
      /\ r.applied = call[c].applied /\ r.result = call[c].result
  BY <1>1, <1>2, Zenon DEF CallState
<1>5. a \in AuthState /\ a.phase = "wait"
  BY <1>1 DEF AuthState
<1> HIDE DEF r, a
<1> QED BY <1>1, <1>2, <1>3, <1>4, <1>5 DEF TypeOK

LEMMA NextHopType ==
   ASSUME TypeOK, NEW c \in Calls, NEW host \in Hosts, NEW keep \in BOOLEAN,
          call[c].hop # MaxRedirects, NextHop(c, host, keep)
   PROVE  /\ call' \in [Calls -> CallState] /\ auth' \in [Users -> AuthState]
          /\ call'[c].pc = call[c].pc /\ call'[c].op = call[c].op
          /\ call'[c].applied = call[c].applied /\ call'[c].result = call[c].result
          /\ call'[c].seen = call[c].seen
          /\ \A d \in Calls \ {c} : call'[d] = call[d]
          /\ auth'[c].phase = "wait"
          /\ \A v \in Users \ {c} : auth'[v] = auth[v]
<1> DEFINE r == [call[c] EXCEPT !.hop = call[c].hop + 1, !.host = host, !.keep = keep]
           a == [NoAuth EXCEPT !.phase = "wait"]
<1>1. call[c] \in CallState /\ c \in Users
  BY UsersAre DEF TypeOK
<1>2. call[c].hop + 1 \in 0..MaxRedirects
  BY <1>1, AdminAssumption DEF CallState
<1>3. call' = [call EXCEPT ![c] = r] /\ auth' = [auth EXCEPT ![c] = a]
  BY <1>1 DEF NextHop, CallState
<1>4. /\ r \in CallState /\ r.pc = call[c].pc /\ r.op = call[c].op /\ r.seen = call[c].seen
      /\ r.applied = call[c].applied /\ r.result = call[c].result
  BY <1>1, <1>2, Zenon DEF CallState
<1>5. a \in AuthState /\ a.phase = "wait"
  BY NoAuthType DEF NoAuth, AuthState
<1> HIDE DEF r, a
<1> QED BY <1>1, <1>3, <1>4, <1>5 DEF TypeOK

\* A call that moves on to its next hop waits for the mutex again.
LEMMA WaitsShape ==
   ASSUME Shape, NEW c \in Calls, UNCHANGED <<shake, token>>,
          call'[c].pc = "busy", \A d \in Calls \ {c} : call'[d] = call[d],
          auth'[c].phase = "wait", \A v \in Users \ {c} : auth'[v] = auth[v]
   PROVE  Exclusive' /\ TokenKept' /\ Asking' /\ Shaking'
<1>1. c \in Users /\ c # "handshake"
  BY UsersAre
<1>2. Exclusive' /\ TokenKept'
  BY <1>1, OutsideMutex DEF Shape
<1>3. Asking' /\ Shaking'
  BY <1>1, UsersAre DEF Shape, Asking, Shaking
<1> QED BY <1>2, <1>3

LEMMA ClientShape ==
   ASSUME Shape, NEW c \in Calls, Client(c) PROVE Shape'
<1>0. TypeOK /\ c \in Users /\ "unset" \in Stored
  BY UsersAre DEF Shape, Stored
<1>1. CASE Start(c)
  <2>1. /\ call' \in [Calls -> CallState] /\ auth' \in [Users -> AuthState]
        /\ call'[c].pc = "busy" /\ \A d \in Calls \ {c} : call'[d] = call[d]
        /\ auth'[c].phase = "wait" /\ \A v \in Users \ {c} : auth'[v] = auth[v]
    BY <1>0, <1>1, StartType
  <2>2. UNCHANGED <<sample, store, owner, late, token, shake, faults, ages>>
    BY <1>1 DEF Start
  <2>3. TypeOK'
    BY <1>0, <2>1, <2>2 DEF TypeOK
  <2> QED BY <2>1, <2>2, <2>3, WaitsShape DEF Shape
<1>2. CASE TimeOut(c) \/ Drop(c)
  <2>1. PICK result \in {"none", "ok", "error"} : Return(c, result, "unset")
    BY <1>2 DEF TimeOut, Drop
  <2>2. GivesUp(c) /\ (UNCHANGED faults \/ Fault)
    BY <1>2 DEF TimeOut, Drop
  <2>3. late' \subseteq Calls /\ UNCHANGED <<sample, store, owner, token, shake, ages>>
    BY <1>0, <2>2 DEF GivesUp, TypeOK
  <2>4. call' \in [Calls -> CallState] /\ auth' \in [Users -> AuthState]
    BY <1>0, <2>1, ReturnType
  <2>5. faults' \in 0..MaxFaults
    BY <1>0, <2>2, FaultType DEF TypeOK
  <2>6. TypeOK'
    BY <1>0, <2>3, <2>4, <2>5 DEF TypeOK
  <2>7. Exclusive' /\ TokenKept' /\ Asking' /\ Shaking'
    BY <1>0, <2>1, <2>3, ReturnShape
  <2> QED BY <2>6, <2>7 DEF Shape
<1> QED BY <1>1, <1>2 DEF Client

\* What the execution of a write leaves, while its call waits or after.
LEMMA WriteEffect ==
   ASSUME Shape, Unwritten, NEW c \in Calls, Write(c)
   PROVE  /\ call' \in [Calls -> CallState] /\ store' \in Stored
          /\ call'[c].pc = "done" /\ call'[c].applied = 1 /\ call'[c].op = call[c].op
          /\ call'[c].value = Written(c) /\ call'[c].keep = call[c].keep
          /\ call[c].pc = "busy"
          /\ \A d \in Calls \ {c} :
                /\ call'[d].pc = call[d].pc /\ call'[d].op = call[d].op
                /\ call'[d].keep = call[d].keep /\ call'[d].value = call[d].value
                /\ call'[d].result = call[d].result
                /\ call'[d].applied = call[d].applied
                /\ call[d].pc = "busy" /\ call[d].op = "get" => store' \in call'[d].seen
                /\ call[d].pc # "busy" => call'[d] = call[d]
<1> DEFINE r == [call[c] EXCEPT !.pc = "done", !.result = "ok", !.value = Written(c),
                                !.host = BaseHost, !.hop = 0]
           calls == [call EXCEPT ![c] = r]
<1>0. call \in [Calls -> CallState] /\ call[c] \in CallState /\ TypeOK
  BY DEF Shape, TypeOK
<1>1. Written(c) \in Stored /\ 0 \in 0..MaxRedirects /\ BaseHost \in Hosts
  BY <1>0, WrittenType, UsersAre, AdminAssumption
<1>2. call[c].applied = 0 /\ call[c].pc = "busy"
  BY DEF Unwritten, Write, InFlight
<1>3. /\ r \in CallState /\ r.pc = "done" /\ r.op = call[c].op /\ r.value = Written(c)
      /\ r.keep = call[c].keep /\ r.applied = 0
  BY <1>0, <1>1, <1>2, Zenon DEF CallState
<1>4. Execute(c, calls)
  <2>1. calls = [call EXCEPT ![c].pc = "done", ![c].result = "ok",
                             ![c].value = Written(c), ![c].host = BaseHost, ![c].hop = 0]
    BY <1>0 DEF CallState
  <2> HIDE DEF calls
  <2> QED BY <2>1 DEF Write
<1>5. calls \in [Calls -> CallState] /\ calls[c] = r /\ \A d \in Calls \ {c} : calls[d] = call[d]
  BY <1>0, <1>3
<1> HIDE DEF calls
<1>6. calls[c].applied = 0 /\ calls[c].pc = "done"
  BY <1>3, <1>5
<1>7. /\ call' \in [Calls -> CallState] /\ store' \in Stored
      /\ call'[c] = [r EXCEPT !.applied = 1]
      /\ \A d \in Calls \ {c} :
            /\ call'[d].pc = call[d].pc /\ call'[d].op = call[d].op
            /\ call'[d].keep = call[d].keep /\ call'[d].value = call[d].value
            /\ call'[d].result = call[d].result
            /\ call'[d].applied = call[d].applied
            /\ call[d].pc = "busy" /\ call[d].op = "get" => store' \in call'[d].seen
            /\ call[d].pc # "busy" => call'[d] = call[d]
  <2> HIDE DEF r
  <2>1. /\ call' \in [Calls -> CallState] /\ store' \in Stored
        /\ call'[c] = [calls[c] EXCEPT !.applied = 1]
        /\ \A d \in Calls :
              /\ call'[d].pc = calls[d].pc /\ call'[d].op = calls[d].op
              /\ call'[d].keep = calls[d].keep /\ call'[d].value = calls[d].value
              /\ call'[d].result = calls[d].result
              /\ d # c => call'[d].applied = calls[d].applied
              /\ calls[d].pc = "busy" /\ calls[d].op = "get"
                    => store' \in call'[d].seen
              /\ d # c /\ calls[d].pc # "busy" => call'[d] = calls[d]
    BY <1>0, <1>4, <1>5, <1>6, ExecuteEffect
  <2>2. ASSUME NEW d \in Calls \ {c}
        PROVE  /\ call'[d].pc = call[d].pc /\ call'[d].op = call[d].op
               /\ call'[d].keep = call[d].keep /\ call'[d].value = call[d].value
               /\ call'[d].result = call[d].result
               /\ call'[d].applied = call[d].applied
               /\ call[d].pc = "busy" /\ call[d].op = "get" => store' \in call'[d].seen
               /\ call[d].pc # "busy" => call'[d] = call[d]
    <3>1. calls[d] = call[d]
      BY <1>5
    <3> QED BY <2>1, <3>1
  <2> QED BY <1>5, <2>1, <2>2
<1>8. /\ call'[c].pc = "done" /\ call'[c].applied = 1 /\ call'[c].op = call[c].op
      /\ call'[c].value = Written(c) /\ call'[c].keep = call[c].keep
  <2> HIDE DEF r
  <2> QED BY <1>3, <1>7 DEF CallState
<1> QED BY <1>2, <1>7, <1>8

LEMMA WriteLateEffect ==
   ASSUME Shape, Unwritten, NEW c \in Calls, WriteLate(c)
   PROVE  /\ call' \in [Calls -> CallState] /\ store' \in Stored
          /\ call'[c].pc = "done" /\ call'[c].applied \in 0..1
          /\ call'[c].op = call[c].op /\ call'[c].result = call[c].result
          /\ call[c].pc = "done" /\ call[c].result # "ok"
          /\ \/ UNCHANGED <<store, call>>
             \/ \A d \in Calls \ {c} :
                   /\ call'[d].pc = call[d].pc /\ call'[d].op = call[d].op
                   /\ call'[d].keep = call[d].keep /\ call'[d].value = call[d].value
                   /\ call'[d].result = call[d].result
                   /\ call'[d].applied = call[d].applied
                   /\ call[d].pc = "busy" /\ call[d].op = "get"
                         => store' \in call'[d].seen
                   /\ call[d].pc # "busy" => call'[d] = call[d]
<1>0. TypeOK /\ call \in [Calls -> CallState] /\ store \in Stored /\ c \in late
  BY DEF Shape, TypeOK, WriteLate
<1>1. call[c].pc = "done" /\ call[c].applied = 0 /\ call[c].result # "ok"
  BY <1>0 DEF Unwritten
<1>2. CASE store = "gone"
  <2>1. UNCHANGED <<store, call>>
    BY <1>2 DEF WriteLate
  <2> QED BY <1>0, <1>1, <2>1
<1>3. CASE store # "gone"
  <2>1. Execute(c, call)
    BY <1>3 DEF WriteLate
  <2>2. /\ call' \in [Calls -> CallState] /\ store' \in Stored
        /\ call'[c] = [call[c] EXCEPT !.applied = 1]
        /\ \A d \in Calls \ {c} :
              /\ call'[d].pc = call[d].pc /\ call'[d].op = call[d].op
              /\ call'[d].keep = call[d].keep /\ call'[d].value = call[d].value
              /\ call'[d].result = call[d].result
              /\ call'[d].applied = call[d].applied
              /\ call[d].pc = "busy" /\ call[d].op = "get" => store' \in call'[d].seen
              /\ call[d].pc # "busy" => call'[d] = call[d]
    BY <1>0, <1>1, <2>1, ExecuteEffect
  <2>3. call'[c].pc = "done" /\ call'[c].applied = 1 /\ call'[c].op = call[c].op
        /\ call'[c].result = call[c].result
    BY <1>0, <1>1, <2>2 DEF CallState
  <2> QED BY <1>1, <2>2, <2>3
<1> QED BY <1>2, <1>3

LEMMA RedirectedShape ==
   ASSUME Shape, NEW c \in Calls, call[c].pc = "busy", NEW host \in Hosts,
          NEW keep \in BOOLEAN, Redirected(c, host, keep), UNCHANGED <<shake, token>>
   PROVE  /\ call' \in [Calls -> CallState] /\ auth' \in [Users -> AuthState]
          /\ Exclusive' /\ TokenKept' /\ Asking' /\ Shaking'
<1>0. TypeOK /\ "unset" \in Stored
  BY DEF Shape, Stored
<1>1. CASE Return(c, "error", "unset")
  BY <1>0, <1>1, ReturnType, ReturnShape
<1>2. CASE call[c].hop # MaxRedirects /\ NextHop(c, host, keep)
  <2>1. /\ call' \in [Calls -> CallState] /\ auth' \in [Users -> AuthState]
        /\ call'[c].pc = "busy" /\ \A d \in Calls \ {c} : call'[d] = call[d]
        /\ auth'[c].phase = "wait" /\ \A v \in Users \ {c} : auth'[v] = auth[v]
    BY <1>0, <1>2, NextHopType
  <2> QED BY <2>1, WaitsShape
<1> QED BY <1>1, <1>2 DEF Redirected

LEMMA BrokerShape ==
   ASSUME Shape, Unwritten, NEW c \in Calls, Broker(c) PROVE Shape'
<1>0. TypeOK /\ c \in Users /\ "unset" \in Stored
  BY UsersAre DEF Shape, Stored
<1>1. ASSUME NEW host \in Hosts, NEW keep \in BOOLEAN, Redirected(c, host, keep),
             Redirect(c), faults' \in 0..MaxFaults
      PROVE  Shape'
  <2>1. call[c].pc = "busy" /\ UNCHANGED <<sample, store, owner, late, token, shake, ages>>
    BY <1>1 DEF Redirect, InFlight
  <2>2. /\ call' \in [Calls -> CallState] /\ auth' \in [Users -> AuthState]
        /\ Exclusive' /\ TokenKept' /\ Asking' /\ Shaking'
    BY <1>1, <2>1, RedirectedShape
  <2>3. TypeOK'
    BY <1>0, <1>1, <2>1, <2>2 DEF TypeOK
  <2> QED BY <2>2, <2>3 DEF Shape
<1>2. ASSUME NEW result \in {"ok", "error"}, NEW value \in Stored, Return(c, result, value),
             UNCHANGED <<sample, store, owner, late, token, shake, ages>>,
             faults' \in 0..MaxFaults
      PROVE  Shape'
  <2>1. /\ call' \in [Calls -> CallState] /\ auth' \in [Users -> AuthState]
        /\ Exclusive' /\ TokenKept' /\ Asking' /\ Shaking'
    BY <1>0, <1>2, ReturnType, ReturnShape
  <2>2. TypeOK'
    BY <1>0, <1>2, <2>1 DEF TypeOK
  <2> QED BY <2>1, <2>2 DEF Shape
<1>3. CASE Redirect(c)
  <2>1. faults' \in 0..MaxFaults
    BY <1>0, <1>3, FaultType DEF Redirect, TypeOK
  <2>2. \/ \E h \in Hosts : Redirected(c, h, TRUE)
        \/ \E h \in Hosts : Redirected(c, h, FALSE)
        \/ Return(c, "error", "unset")
    BY <1>0, <1>3 DEF Redirect, TypeOK
  <2>3. UNCHANGED <<sample, store, owner, late, token, shake, ages>>
    BY <1>3 DEF Redirect
  <2> QED BY <1>0, <1>1, <1>2, <1>3, <2>1, <2>2, <2>3
<1>4. CASE Refuse(c)
  BY <1>0, <1>2, <1>4 DEF Refuse, TypeOK
<1>5. CASE Read(c)
  BY <1>0, <1>2, <1>5 DEF Read, TypeOK
<1>6. CASE Write(c)
  <2>1. /\ call' \in [Calls -> CallState] /\ store' \in Stored
        /\ \A d \in Calls \ {c} : call'[d].pc = call[d].pc
    BY <1>6, WriteEffect
  <2>2. /\ auth' = [auth EXCEPT ![c] = NoAuth]
        /\ UNCHANGED <<sample, owner, late, token, shake, faults, ages>>
    BY <1>6 DEF Write
  <2>3. /\ auth' \in [Users -> AuthState] /\ auth'[c].phase = "idle"
        /\ \A v \in Users \ {c} : auth'[v] = auth[v]
    BY <1>0, <2>2, NoAuthType DEF NoAuth, TypeOK
  <2>4. TypeOK'
    BY <1>0, <2>1, <2>2, <2>3 DEF TypeOK
  <2>5. Exclusive' /\ TokenKept'
    BY <1>0, <2>2, <2>3, OutsideMutex DEF Shape
  <2>6. Asking' /\ Shaking'
    BY <2>1, <2>2, <2>3, UsersAre DEF Shape, Asking, Shaking
  <2> QED BY <2>4, <2>5, <2>6 DEF Shape
<1>7. CASE WriteLate(c)
  <2>1. /\ call' \in [Calls -> CallState] /\ store' \in Stored
        /\ \A d \in Calls : call'[d].pc = call[d].pc
    BY <1>7, WriteLateEffect
  <2>2. late' \subseteq Calls /\ UNCHANGED <<sample, owner, auth, token, shake, faults, ages>>
    BY <1>0, <1>7 DEF WriteLate, TypeOK
  <2>3. TypeOK'
    BY <1>0, <2>1, <2>2 DEF TypeOK
  <2>4. Exclusive' /\ TokenKept' /\ Asking' /\ Shaking'
    BY <2>1, <2>2 DEF Shape, Exclusive, TokenKept, Asking, Shaking
  <2> QED BY <2>3, <2>4 DEF Shape
<1> QED BY <1>3, <1>4, <1>5, <1>6, <1>7 DEF Broker

LEMMA HandshakeShape == ASSUME Shape, Handshake PROVE Shape'
<1>0. TypeOK /\ "handshake" \in Users
  BY UsersAre DEF Shape
<1>1. ASSUME shake.result = "none", NEW kind \in {"retryable", "fatal"}, AddressFails(kind),
             UNCHANGED <<sample, store, owner, call, late, token, ages>>,
             faults' \in 0..MaxFaults
      PROVE  Shape'
  <2>1. /\ shake' \in Shake /\ auth' \in [Users -> AuthState]
        /\ Exclusive' /\ TokenKept' /\ Asking' /\ Shaking'
    BY <1>1, AddressFailsShape
  <2>2. TypeOK'
    BY <1>0, <1>1, <2>1 DEF TypeOK
  <2> QED BY <2>1, <2>2 DEF Shape
<1>2. ASSUME NEW a \in AuthState, auth' = [auth EXCEPT !["handshake"] = a],
             a.phase # "fetch", shake' \in Shake,
             UNCHANGED <<sample, store, owner, call, late, token, faults, ages>>,
             shake'.result = "none" => shake'.left > 0,
             a.phase # "idle" => shake'.result = "none"
      PROVE  Shape'
  <2>1. /\ auth' \in [Users -> AuthState] /\ auth'["handshake"] = a
        /\ \A v \in Users \ {"handshake"} : auth'[v] = auth[v]
    BY <1>0, <1>2 DEF TypeOK
  <2>2. TypeOK'
    BY <1>0, <1>2, <2>1 DEF TypeOK
  <2>3. Exclusive' /\ TokenKept'
    BY <1>0, <1>2, <2>1, OutsideMutex DEF Shape
  <2>4. Asking' /\ Shaking'
    BY <1>2, <2>1, UsersAre DEF Shape, Asking, Shaking
  <2> QED BY <2>2, <2>3, <2>4 DEF Shape
<1>3. CASE Dial
  <2>1. CASE Fault /\ AddressFails("retryable")
    BY <1>0, <1>1, <1>3, <2>1, FaultType DEF Dial
  <2>2. CASE auth' = [auth EXCEPT !["handshake"].phase = "wait"] /\ UNCHANGED <<shake, faults>>
    <3> DEFINE a == [auth["handshake"] EXCEPT !.phase = "wait"]
    <3>1. auth["handshake"] \in AuthState /\ shake \in Shake
      BY <1>0 DEF TypeOK
    <3>2. a \in AuthState /\ a.phase = "wait" /\ auth' = [auth EXCEPT !["handshake"] = a]
      BY <2>2, <3>1 DEF AuthState
    <3> HIDE DEF a
    <3>3. shake.result = "none" /\ UNCHANGED <<sample, store, owner, call, late, token, ages>>
      BY <1>3 DEF Dial
    <3> QED BY <1>2, <2>2, <3>1, <3>2, <3>3 DEF Shape, Shaking
  <2> QED BY <1>3, <2>1, <2>2 DEF Dial
<1>4. CASE Connect
  <2>0. /\ UNCHANGED <<sample, store, owner, call, late, token, faults, ages>>
        /\ shake.result = "none"
    BY <1>4 DEF Connect, Shape, Shaking
  <2>1. CASE auth["handshake"].hand = "valid"
    <3>1. shake' = [shake EXCEPT !.result = "ok"] /\ auth' = [auth EXCEPT !["handshake"] = NoAuth]
      BY <1>4, <2>1 DEF Connect
    <3>2. shake' \in Shake /\ shake'.result = "ok"
      BY <1>0, <3>1 DEF TypeOK, Shake
    <3>3. NoAuth \in AuthState /\ NoAuth.phase = "idle"
      BY NoAuthType DEF NoAuth
    <3> QED BY <1>2, <2>0, <3>1, <3>2, <3>3
  <2>2. CASE auth["handshake"].hand # "valid"
    BY <1>0, <1>1, <1>4, <2>0, <2>2 DEF Connect, TypeOK
  <2> QED BY <2>1, <2>2
<1>5. CASE ConnectTimeout
  BY <1>0, <1>1, <1>5 DEF ConnectTimeout, TypeOK
<1> QED BY <1>3, <1>4, <1>5 DEF Handshake

LEMMA ChallengeShape == ASSUME Shape, Challenge PROVE Shape'
<1>0. TypeOK /\ "challenge" \in Users
  BY UsersAre DEF Shape
<1>1. PICK a \in AuthState :
        a.phase # "fetch" /\ auth' = [auth EXCEPT !["challenge"] = a]
  <2>1. CASE Challenged
    <3> DEFINE a == [auth["challenge"] EXCEPT !.phase = "wait"]
    <3>1. auth["challenge"] \in AuthState
      BY <1>0 DEF TypeOK
    <3>2. a \in AuthState /\ a.phase = "wait" /\ auth' = [auth EXCEPT !["challenge"] = a]
      BY <2>1, <3>1 DEF Challenged, AuthState
    <3> HIDE DEF a
    <3> QED BY <3>2
  <2>2. CASE Respond
    BY <2>2, NoAuthType DEF Respond, NoAuth
  <2> QED BY <2>1, <2>2 DEF Challenge
<1>2. /\ auth' \in [Users -> AuthState] /\ auth'["challenge"] = a
      /\ \A v \in Users \ {"challenge"} : auth'[v] = auth[v]
  BY <1>0, <1>1 DEF TypeOK
<1>3. UNCHANGED <<sample, store, owner, call, late, token, shake, faults, ages>>
  BY DEF Challenge, Challenged, Respond
<1>4. TypeOK'
  BY <1>0, <1>2, <1>3 DEF TypeOK
<1>5. Exclusive' /\ TokenKept'
  BY <1>0, <1>1, <1>2, <1>3, OutsideMutex DEF Shape
<1>6. Asking' /\ Shaking'
  BY <1>2, <1>3, UsersAre DEF Shape, Asking, Shaking
<1> QED BY <1>4, <1>5, <1>6 DEF Shape

LEMMA AdministerEffect ==
   ASSUME TypeOK, Administer
   PROVE  /\ call' \in [Calls -> CallState] /\ store' \in Stored
          /\ \A d \in Calls :
                /\ call'[d].pc = call[d].pc /\ call'[d].op = call[d].op
                /\ call'[d].keep = call[d].keep /\ call'[d].value = call[d].value
                /\ call'[d].result = call[d].result /\ call'[d].applied = call[d].applied
                /\ UNCHANGED store \/ (call[d].pc = "busy" /\ call[d].op = "get"
                                          => store' \in call'[d].seen)
                /\ call[d].seen \subseteq call'[d].seen
<1>0. call \in [Calls -> CallState] /\ store \in Stored
  BY DEF TypeOK
<1>1. CASE UNCHANGED <<store, call>>
  BY <1>0, <1>1
<1>2. CASE call' = Watch(call, store') /\ store' \in {"unset", "gone"}
  <2>1. store' \in Stored
    BY <1>2 DEF Stored
  <2>2. \A d \in Calls : call[d].seen \subseteq call'[d].seen
    BY <1>0, <1>2 DEF Watch, CallState
  <2> QED BY <1>0, <1>2, <2>1, <2>2, WatchType
<1> QED BY <1>1, <1>2 DEF Administer

LEMMA AdministerShape == ASSUME Shape, Administer PROVE Shape'
<1>0. TypeOK /\ Fault /\ UNCHANGED <<sample, late, auth, token, shake, ages>>
  BY DEF Shape, Administer
<1>1. /\ call' \in [Calls -> CallState] /\ store' \in Stored
      /\ \A d \in Calls : call'[d].pc = call[d].pc
  BY <1>0, AdministerEffect
<1>2. owner' \in Hosts
  BY <1>0 DEF Administer, TypeOK
<1>3. TypeOK'
  BY <1>0, <1>1, <1>2, FaultType DEF TypeOK
<1>4. Exclusive' /\ TokenKept' /\ Asking' /\ Shaking'
  BY <1>0, <1>1 DEF Shape, Exclusive, TokenKept, Asking, Shaking
<1> QED BY <1>3, <1>4 DEF Shape

LEMMA AgeShape == ASSUME Shape, Age PROVE Shape'
<1>1. TypeOK'
  BY AdminAssumption DEF Shape, Age, TypeOK, Tokens
<1>2. Exclusive' /\ TokenKept' /\ Asking' /\ Shaking'
  BY DEF Age, Shape, Exclusive, TokenKept, Asking, Shaking
<1> QED BY <1>1, <1>2 DEF Shape

-----------------------------------------------------------------------------
(* Writes and their late executions. *)

\* A call that returns without success, or with what it read, wrote nothing.
LEMMA ReturnUnwritten ==
   ASSUME Shape, Unwritten, NEW c \in Calls, call[c].pc # "done", NEW result, NEW value,
          Return(c, result, value),
          late' = late \/ (late' = late \cup {c} /\ result # "ok")
   PROVE  Unwritten'
<1>1. /\ call'[c].pc = "done" /\ call'[c].result = result
      /\ call'[c].applied = call[c].applied
      /\ \A d \in Calls \ {c} : call'[d] = call[d]
  BY ReturnEffect DEF Shape
<1>2. call[c].applied = 0 /\ c \notin late
  BY DEF Unwritten
<1> QED BY <1>1, <1>2 DEF Unwritten

LEMMA UnwrittenNext ==
   ASSUME Shape, Unwritten, [Next]_vars PROVE Unwritten'
<1>0. TypeOK /\ Asking /\ Shaking /\ "unset" \in Stored
  BY DEF Shape, Stored
<1>1. ASSUME UNCHANGED <<call, late>> PROVE Unwritten'
  BY <1>1 DEF Unwritten
<1>2. ASSUME NEW u \in Users, Authenticates(u) PROVE Unwritten'
  <2>1. CASE UNCHANGED <<call, late>>
    BY <1>1, <2>1
  <2>2. CASE FetchFails(u) /\ auth[u].stale /\ u \in Calls
    <3>1. /\ Return(u, "error", "unset") /\ auth[u].phase = "fetch" /\ UNCHANGED late
      BY <2>2, UsersAre DEF FetchFails
    <3>2. call[u].pc # "done"
      BY <1>0, <2>2, <3>1 DEF Asking
    <3> QED BY <2>2, <3>1, <3>2, ReturnUnwritten
  <2> QED BY <1>2, <2>1, <2>2 DEF Authenticates, TakeLock, FetchSucceeds, FetchFails
<1>3. ASSUME NEW c \in Calls, Client(c) PROVE Unwritten'
  <2>1. CASE Start(c)
    <3>1. /\ call'[c].pc = "busy" /\ call'[c].applied = call[c].applied
          /\ call'[c].result = call[c].result /\ \A d \in Calls \ {c} : call'[d] = call[d]
      BY <1>0, <2>1, StartType
    <3>2. late' = late /\ call[c].pc = "idle"
      BY <2>1 DEF Start
    <3> QED BY <3>1, <3>2 DEF Unwritten
  <2>2. CASE TimeOut(c) \/ Drop(c)
    <3>1. PICK result \in {"none", "error"} : Return(c, result, "unset")
      BY <2>2 DEF TimeOut, Drop
    <3>2. call[c].pc # "done" /\ (late' = late \/ late' = late \cup {c})
      BY <2>2 DEF TimeOut, Drop, GivesUp, InFlight
    <3> QED BY <3>1, <3>2, ReturnUnwritten
  <2> QED BY <1>3, <2>1, <2>2 DEF Client
<1>4. ASSUME NEW c \in Calls, Broker(c) PROVE Unwritten'
  <2>1. ASSUME NEW result, NEW value, Return(c, result, value), InFlight(c), late' = late
        PROVE  Unwritten'
    BY <2>1, ReturnUnwritten DEF InFlight
  <2>2. ASSUME NEW host \in Hosts, NEW keep \in BOOLEAN, Redirected(c, host, keep),
               InFlight(c), late' = late
        PROVE  Unwritten'
    <3>1. CASE Return(c, "error", "unset")
      BY <2>1, <2>2, <3>1
    <3>2. CASE call[c].hop # MaxRedirects /\ NextHop(c, host, keep)
      <4>1. /\ call'[c].pc = call[c].pc /\ call'[c].applied = call[c].applied
            /\ call'[c].result = call[c].result /\ \A d \in Calls \ {c} : call'[d] = call[d]
        BY <1>0, <3>2, NextHopType
      <4> QED BY <2>2, <4>1 DEF Unwritten
    <3> QED BY <2>2, <3>1, <3>2 DEF Redirected
  <2>3. CASE Redirect(c)
    <3>1. InFlight(c) /\ late' = late /\ owner \in Hosts
      BY <1>0, <2>3 DEF Redirect, TypeOK
    <3> QED BY <2>1, <2>2, <2>3, <3>1 DEF Redirect
  <2>4. CASE Refuse(c) \/ Read(c)
    BY <2>1, <2>4 DEF Refuse, Read
  <2>5. CASE Write(c)
    <3>1. /\ call'[c].pc = "done" /\ call[c].pc = "busy"
          /\ \A d \in Calls \ {c} :
                /\ call'[d].pc = call[d].pc /\ call'[d].result = call[d].result
                /\ call'[d].applied = call[d].applied
      BY <2>5, WriteEffect
    <3>2. late' = late /\ c \notin late
      BY <2>5, <3>1 DEF Write, Unwritten
    <3> QED BY <3>1, <3>2 DEF Unwritten
  <2>6. CASE WriteLate(c)
    <3>1. /\ call'[c].pc = "done"
          /\ \/ UNCHANGED <<store, call>>
             \/ \A d \in Calls \ {c} :
                   /\ call'[d].pc = call[d].pc /\ call'[d].result = call[d].result
                   /\ call'[d].applied = call[d].applied
      BY <2>6, WriteLateEffect
    <3>2. late' = late \ {c}
      BY <2>6 DEF WriteLate
    <3> QED BY <3>1, <3>2 DEF Unwritten
  <2> QED BY <1>4, <2>3, <2>4, <2>5, <2>6 DEF Broker
<1>5. ASSUME Handshake \/ Challenge \/ Age PROVE Unwritten'
  BY <1>1, <1>5 DEF Handshake, Age, Dial, Connect, ConnectTimeout, Challenge, Challenged,
     Respond
<1>6. ASSUME Administer PROVE Unwritten'
  <2>1. late' = late
    BY <1>6 DEF Administer
  <2>2. \A d \in Calls : /\ call'[d].pc = call[d].pc /\ call'[d].result = call[d].result
                         /\ call'[d].applied = call[d].applied
    BY <1>0, <1>6, AdministerEffect
  <2> QED BY <2>1, <2>2 DEF Unwritten
<1>7. ASSUME UNCHANGED vars PROVE Unwritten'
  BY <1>1, <1>7 DEF vars
<1> QED BY <1>2, <1>3, <1>4, <1>5, <1>6, <1>7 DEF Next

LEMMA ShapeNext ==
   ASSUME Shape, Unwritten, [Next]_vars PROVE Shape'
<1>1. CASE UNCHANGED vars
  BY <1>1 DEF Shape, TypeOK, Exclusive, TokenKept, Asking, Shaking, vars
<1> QED
  BY <1>1, AuthenticatesShape, ClientShape, BrokerShape, HandshakeShape,
     ChallengeShape, AdministerShape, AgeShape DEF Next

LEMMA InitUnwritten == Init => Unwritten
<1> SUFFICES ASSUME Init PROVE Unwritten
  OBVIOUS
<1>1. \A c \in Calls : call[c].pc = "idle" /\ call[c].applied = 0 /\ call[c].result = "none"
  BY DEF Init
<1>2. late = {}
  BY DEF Init
<1> QED BY <1>1, <1>2 DEF Unwritten

LEMMA SafeAlways == Spec => [](Shape /\ Unwritten)
<1>1. Init => Shape /\ Unwritten
  BY InitShape, InitUnwritten
<1>2. Shape /\ Unwritten /\ [Next]_vars => (Shape /\ Unwritten)'
  BY ShapeNext, UnwrittenNext
<1> QED BY <1>1, <1>2, PTL DEF Spec

\* The calls, the mutex, the token and the handshake keep their type: no call
\* follows more than MaxRedirects redirects, and no handshake dials more
\* addresses than there are.
THEOREM TypeCorrect == Spec => []TypeOK
<1>1. Shape => TypeOK
  BY DEF Shape
<1> QED BY SafeAlways, <1>1, PTL

-----------------------------------------------------------------------------
(* Credentials. *)

LEMMA NoAuthLive == NoAuth.hand = "no"
BY DEF NoAuth

\* What a user reads from the cache is live while the token is.
LEMMA HandLive ==
   ASSUME CredentialsLive, auth \in [Users -> AuthState], NEW u \in Users,
          NEW tok, NEW lapsed \in BOOLEAN,
          Hand(u, tok, lapsed), tok # "none", tok # "expired" \/ lapsed
   PROVE  CredentialsLive'
BY DEF Hand, CredentialsLive

\* A user whose authentication starts over has no credential.
LEMMA AgainLive ==
   ASSUME CredentialsLive, auth \in [Users -> AuthState],
          NEW u \in Users, auth' = [auth EXCEPT ![u] = NoAuth]
   PROVE  CredentialsLive'
BY NoAuthLive DEF CredentialsLive

LEMMA CredentialsNext ==
   ASSUME Shape, CredentialsLive, [Next]_vars PROVE CredentialsLive'
<1>0. TypeOK /\ TokenKept /\ auth \in [Users -> AuthState]
  BY DEF Shape, TypeOK
<1>1. ASSUME UNCHANGED auth PROVE CredentialsLive'
  BY <1>1 DEF CredentialsLive
<1>2. ASSUME NEW c \in Calls, NEW result, NEW value, Return(c, result, value)
      PROVE  CredentialsLive'
  BY <1>0, <1>2, AgainLive, UsersAre DEF Return
<1>3. ASSUME NEW kind, AddressFails(kind) PROVE CredentialsLive'
  <2>1. auth' = [auth EXCEPT !["handshake"] = NoAuth]
    BY <1>3 DEF AddressFails
  <2> QED BY <1>0, <2>1, AgainLive, UsersAre
<1>4. ASSUME NEW u \in Users, Authenticates(u) PROVE CredentialsLive'
  <2>1. CASE TakeLock(u) /\ token = "fresh"
    BY <1>0, <2>1, HandLive DEF TakeLock
  <2>2. CASE TakeLock(u) /\ token # "fresh"
    <3>1. auth' = [auth EXCEPT ![u].phase = "fetch", ![u].stale = NoneOrExpired]
      BY <2>2 DEF TakeLock
    <3>2. \A v \in Users : auth'[v].hand = auth[v].hand
      BY <1>0, <3>1 DEF AuthState
    <3> QED BY <3>2 DEF CredentialsLive
  <2>3. CASE FetchSucceeds(u)
    BY <1>0, <2>3, HandLive DEF FetchSucceeds
  <2>4. CASE FetchFails(u) /\ ~auth[u].stale
    <3>1. Hand(u, token, TRUE) /\ token # "none"
      BY <1>0, <2>4 DEF FetchFails, TokenKept
    <3> QED BY <1>0, <3>1, HandLive
  <2>5. CASE FetchFails(u) /\ auth[u].stale
    BY <1>0, <1>2, <1>3, <2>5, AgainLive DEF FetchFails
  <2> QED BY <1>4, <2>1, <2>2, <2>3, <2>4, <2>5 DEF Authenticates
<1>5. ASSUME NEW c \in Users, auth' = [auth EXCEPT ![c].phase = "wait"]
      PROVE  CredentialsLive'
  <2>1. \A v \in Users : auth'[v].hand = auth[v].hand
    BY <1>0, <1>5 DEF AuthState
  <2> QED BY <2>1 DEF CredentialsLive
<1>6. ASSUME NEW c \in Calls, NEW host, NEW keep, NextHop(c, host, keep)
      PROVE  CredentialsLive'
  <2>1. auth' = [auth EXCEPT ![c] = [NoAuth EXCEPT !.phase = "wait"]]
    BY <1>6 DEF NextHop
  <2>2. \A v \in Users : auth'[v].hand = auth[v].hand \/ auth'[v].hand = "no"
    BY <1>0, <2>1 DEF NoAuth
  <2> QED BY <2>2 DEF CredentialsLive
<1>7. ASSUME NEW c \in Calls, Client(c) \/ Broker(c) PROVE CredentialsLive'
  <2>1. CASE Start(c)
    BY <1>5, <2>1, UsersAre DEF Start
  <2>2. CASE TimeOut(c) \/ Drop(c) \/ Refuse(c) \/ Read(c)
    BY <1>2, <2>2 DEF TimeOut, Drop, Refuse, Read
  <2>3. CASE Redirect(c)
    BY <1>2, <1>6, <2>3 DEF Redirect, Redirected
  <2>4. CASE Write(c)
    BY <1>0, <2>4, AgainLive, UsersAre DEF Write
  <2>5. CASE WriteLate(c)
    BY <1>1, <2>5 DEF WriteLate
  <2> QED BY <1>7, <2>1, <2>2, <2>3, <2>4, <2>5 DEF Client, Broker
<1>8. ASSUME Handshake \/ Challenge PROVE CredentialsLive'
  <2>1. ASSUME NEW u \in Users,
               \/ auth' = [auth EXCEPT ![u].phase = "wait"]
               \/ auth' = [auth EXCEPT ![u] = NoAuth]
        PROVE  CredentialsLive'
    BY <1>0, <1>5, <2>1, AgainLive
  <2>2. CASE Handshake
    BY <1>3, <2>1, <2>2, UsersAre DEF Handshake, Dial, Connect, ConnectTimeout
  <2>3. CASE Challenge
    BY <2>1, <2>3, UsersAre DEF Challenge, Challenged, Respond
  <2> QED BY <1>8, <2>2, <2>3
<1>9. ASSUME Administer \/ Age \/ UNCHANGED vars PROVE CredentialsLive'
  BY <1>1, <1>9 DEF Administer, Age, vars
<1> QED BY <1>4, <1>7, <1>8, <1>9 DEF Next

\* Whoever asks for a credential, admin calls, a handshake and an auth_challenge
\* task at once, gets one that exists and has not expired, unless it expired while its refresh failed.
THEOREM CredentialsAlwaysLive == Spec => []CredentialsLive
<1>1. Init => CredentialsLive
  BY NoAuthLive DEF Init, CredentialsLive
<1>2. Shape /\ CredentialsLive /\ [Next]_vars => CredentialsLive'
  BY CredentialsNext
<1> QED BY SafeAlways, <1>1, <1>2, PTL DEF Spec

-----------------------------------------------------------------------------
(* Answers. *)

\* A getter sends no write, another operation that sends a GET was redirected
\* to it, and a write that is executed leaves what it asks for.
LEMMA Verbs ==
   ASSUME RowsRight, Shape, NEW c \in Calls
   PROVE  /\ call[c].op \in {"get", "set", "remove"}
          /\ call[c].op = "get" => Verb(c) = "GET"
          /\ call[c].op # "get" /\ Verb(c) = "GET" => ~call[c].keep
          /\ call[c].op # "get" =>
                Written(c) = IF call[c].op = "set" THEN c ELSE "unset"
<1>1. call[c] \in CallState /\ RowRight(sample)
  BY DEF Shape, TypeOK, RowsRight
<1>2. call[c].op \in {"get", "set", "remove"} /\ call[c].keep \in BOOLEAN
  BY <1>1 DEF CallState
<1>3. CASE call[c].op = "get"
  BY <1>1, <1>2, <1>3 DEF RowRight, Verb
<1>4. CASE call[c].op = "set"
  <2>1. sample[call[c].op] = sample.set
    BY <1>4
  <2> QED BY <1>1, <1>2, <1>4, <2>1 DEF RowRight, Verb, Written
<1>5. CASE call[c].op = "remove"
  <2>1. sample[call[c].op] = sample.remove
    BY <1>5
  <2> QED BY <1>1, <1>2, <1>5, <2>1 DEF RowRight, Verb, Written
<1> QED BY <1>2, <1>3, <1>4, <1>5

\* Nothing that is done to the others makes the answer of a call untrue.
LEMMA StaysTruthful ==
   ASSUME Shape, Unwritten, NEW d \in Calls, Truthful(d, call[d], store),
          \/ call'[d] = call[d] /\ (store' = store \/ call[d].pc # "busy")
          \/ /\ call'[d].pc = call[d].pc /\ call'[d].op = call[d].op
             /\ call'[d].keep = call[d].keep /\ call'[d].value = call[d].value
             /\ call'[d].result = call[d].result /\ call'[d].applied = call[d].applied
             /\ call[d].pc = "busy" /\ call[d].op = "get" => store' \in call'[d].seen
             /\ call[d].pc # "busy" => call'[d] = call[d]
   PROVE  Truthful(d, call'[d], store')
<1>1. call[d].pc = "busy" => call[d].result = "none"
  BY DEF Unwritten
<1> QED BY <1>1 DEF Truthful

\* A call that returns an error says nothing; one that returns what it read
\* was a getter, or a write that a redirect turned into a GET.
LEMMA ReturnTruthful ==
   ASSUME Shape, Unwritten, Answers, NEW c \in Calls, call[c].pc = "busy",
          NEW result, NEW value, Return(c, result, value), UNCHANGED store,
          result = "ok" => /\ value = store /\ store # "gone"
                           /\ call[c].op # "get" => ~call[c].keep
   PROVE  Answers'
<1>1. /\ call'[c].pc = "done" /\ call'[c].op = call[c].op
      /\ call'[c].keep = call[c].keep /\ call'[c].value = value
      /\ call'[c].result = result /\ call'[c].applied = call[c].applied
      /\ call'[c].seen = call[c].seen \cap {value}
      /\ \A d \in Calls \ {c} : call'[d] = call[d]
  BY ReturnEffect DEF Shape
<1>2. call[c].applied = 0
  BY DEF Unwritten
<1>3. call[c].op = "get" => store \in call[c].seen
  BY DEF Answers, Truthful
<1>4. Truthful(c, call'[c], store')
  BY <1>1, <1>2, <1>3 DEF Truthful
<1>5. \A d \in Calls \ {c} : Truthful(d, call'[d], store')
  BY <1>1, StaysTruthful DEF Answers
<1> QED BY <1>4, <1>5 DEF Answers

LEMMA AnswersNext ==
   ASSUME RowsRight, Shape, Unwritten, Answers, [Next]_vars PROVE Answers'
<1>0. TypeOK /\ Asking
  BY DEF Shape
<1>1. ASSUME UNCHANGED <<call, store>> PROVE Answers'
  BY <1>1, StaysTruthful DEF Answers
<1>2. ASSUME NEW u \in Users, Authenticates(u) PROVE Answers'
  <2>1. CASE UNCHANGED <<call, store>>
    BY <1>1, <2>1
  <2>2. CASE FetchFails(u) /\ auth[u].stale /\ u \in Calls
    <3>1. /\ Return(u, "error", "unset") /\ auth[u].phase = "fetch" /\ UNCHANGED store
      BY <2>2, UsersAre DEF FetchFails
    <3>2. call[u].pc = "busy"
      BY <1>0, <2>2, <3>1 DEF Asking
    <3> QED BY <2>2, <3>1, <3>2, ReturnTruthful
  <2> QED BY <1>2, <2>1, <2>2 DEF Authenticates, TakeLock, FetchSucceeds, FetchFails
<1>3. ASSUME NEW c \in Calls, Client(c) PROVE Answers'
  <2>1. CASE Start(c)
    <3>1. /\ call'[c].pc = "busy" /\ call'[c].op = call[c].op
          /\ call'[c].applied = call[c].applied /\ call'[c].result = call[c].result
          /\ call[c].op = "get" => store \in call'[c].seen
          /\ \A d \in Calls \ {c} : call'[d] = call[d]
      BY <1>0, <2>1, StartType
    <3>2. store' = store /\ call[c].applied = 0 /\ call[c].result = "none"
      BY <2>1 DEF Start, Unwritten
    <3>3. Truthful(c, call'[c], store')
      BY <3>1, <3>2 DEF Truthful
    <3>4. \A d \in Calls \ {c} : Truthful(d, call'[d], store')
      BY <3>1, <3>2, StaysTruthful DEF Answers
    <3> QED BY <3>3, <3>4 DEF Answers
  <2>2. CASE TimeOut(c) \/ Drop(c)
    <3>1. PICK result \in {"none", "error"} : Return(c, result, "unset")
      BY <2>2 DEF TimeOut, Drop
    <3>2. call[c].pc = "busy" /\ UNCHANGED store
      BY <2>2 DEF TimeOut, Drop, GivesUp, InFlight
    <3> QED BY <3>1, <3>2, ReturnTruthful
  <2> QED BY <1>3, <2>1, <2>2 DEF Client
<1>4. ASSUME NEW c \in Calls, Broker(c) PROVE Answers'
  <2>1. ASSUME NEW host \in Hosts, NEW keep \in BOOLEAN, Redirected(c, host, keep),
               InFlight(c), UNCHANGED store
        PROVE  Answers'
    <3>0. call[c].pc = "busy" /\ call[c].applied = 0 /\ call[c].result = "none"
      BY <2>1 DEF InFlight, Unwritten
    <3>1. CASE Return(c, "error", "unset")
      BY <2>1, <3>0, <3>1, ReturnTruthful
    <3>2. CASE call[c].hop # MaxRedirects /\ NextHop(c, host, keep)
      <4>1. /\ call'[c].pc = call[c].pc /\ call'[c].op = call[c].op
            /\ call'[c].applied = call[c].applied /\ call'[c].result = call[c].result
            /\ call'[c].seen = call[c].seen /\ \A d \in Calls \ {c} : call'[d] = call[d]
        BY <1>0, <3>2, NextHopType
      <4>2. Truthful(c, call'[c], store')
        BY <2>1, <3>0, <4>1 DEF Answers, Truthful
      <4>3. \A d \in Calls \ {c} : Truthful(d, call'[d], store')
        BY <2>1, <4>1, StaysTruthful DEF Answers
      <4> QED BY <4>2, <4>3 DEF Answers
    <3> QED BY <2>1, <3>1, <3>2 DEF Redirected
  <2>2. CASE Redirect(c)
    <3>1. InFlight(c) /\ call[c].pc = "busy" /\ UNCHANGED store /\ owner \in Hosts
      BY <1>0, <2>2 DEF Redirect, InFlight, TypeOK
    <3>2. CASE Return(c, "error", "unset")
      BY <3>1, <3>2, ReturnTruthful
    <3> QED BY <2>1, <2>2, <3>1, <3>2 DEF Redirect
  <2>3. CASE Refuse(c)
    BY <2>3, ReturnTruthful DEF Refuse, InFlight
  <2>4. CASE Read(c)
    <3>1. call[c].op # "get" => ~call[c].keep
      BY <2>4, Verbs DEF Read
    <3> QED BY <2>4, <3>1, ReturnTruthful DEF Read, InFlight
  <2>5. CASE Write(c)
    <3>1. /\ call'[c].pc = "done" /\ call'[c].applied = 1 /\ call'[c].op = call[c].op
          /\ call'[c].value = Written(c) /\ call[c].pc = "busy"
          /\ \A d \in Calls \ {c} :
                /\ call'[d].pc = call[d].pc /\ call'[d].op = call[d].op
                /\ call'[d].keep = call[d].keep /\ call'[d].value = call[d].value
                /\ call'[d].result = call[d].result
                /\ call'[d].applied = call[d].applied
                /\ call[d].pc = "busy" /\ call[d].op = "get" => store' \in call'[d].seen
                /\ call[d].pc # "busy" => call'[d] = call[d]
      BY <2>5, WriteEffect
    <3>2. call[c].op # "get" /\ Written(c) = IF call[c].op = "set" THEN c ELSE "unset"
      BY <2>5, Verbs DEF Write
    <3>3. Truthful(c, call'[c], store')
      BY <3>1, <3>2 DEF Truthful
    <3>4. \A d \in Calls \ {c} : Truthful(d, call'[d], store')
      BY <3>1, StaysTruthful DEF Answers
    <3> QED BY <3>3, <3>4 DEF Answers
  <2>6. CASE WriteLate(c)
    <3>1. /\ call'[c].pc = "done" /\ call'[c].applied \in 0..1
          /\ call'[c].op = call[c].op /\ call'[c].result = call[c].result
          /\ call[c].pc = "done" /\ call[c].result # "ok"
          /\ \/ UNCHANGED <<store, call>>
             \/ \A d \in Calls \ {c} :
                   /\ call'[d].pc = call[d].pc /\ call'[d].op = call[d].op
                   /\ call'[d].keep = call[d].keep /\ call'[d].value = call[d].value
                   /\ call'[d].result = call[d].result
                   /\ call'[d].applied = call[d].applied
                   /\ call[d].pc = "busy" /\ call[d].op = "get"
                         => store' \in call'[d].seen
                   /\ call[d].pc # "busy" => call'[d] = call[d]
      BY <2>6, WriteLateEffect
    <3>2. Truthful(c, call'[c], store')
      BY <3>1 DEF Truthful
    <3>3. \A d \in Calls \ {c} : Truthful(d, call'[d], store')
      BY <3>1, StaysTruthful DEF Answers
    <3> QED BY <3>2, <3>3 DEF Answers
  <2> QED BY <1>4, <2>2, <2>3, <2>4, <2>5, <2>6 DEF Broker
<1>5. ASSUME Handshake \/ Challenge \/ Age PROVE Answers'
  BY <1>1, <1>5 DEF Handshake, Age, Dial, Connect, ConnectTimeout, Challenge, Challenged,
     Respond
<1>6. ASSUME Administer PROVE Answers'
  <2>1. ASSUME NEW d \in Calls PROVE Truthful(d, call'[d], store')
    <3>1. /\ call'[d].pc = call[d].pc /\ call'[d].op = call[d].op
          /\ call'[d].keep = call[d].keep /\ call'[d].value = call[d].value
          /\ call'[d].result = call[d].result /\ call'[d].applied = call[d].applied
          /\ UNCHANGED store \/ (call[d].pc = "busy" /\ call[d].op = "get"
                                    => store' \in call'[d].seen)
          /\ call[d].seen \subseteq call'[d].seen
      BY <1>0, <1>6, AdministerEffect
    <3>2. Truthful(d, call[d], store)
      BY DEF Answers
    <3> QED BY <3>1, <3>2 DEF Truthful
  <2> QED BY <2>1 DEF Answers
<1>7. ASSUME UNCHANGED vars PROVE Answers'
  BY <1>1, <1>7 DEF vars
<1> QED BY <1>2, <1>3, <1>4, <1>5, <1>6, <1>7 DEF Next

\* What a call reports is what happened, if the rows of the tables are right:
\* a getter returns a value the broker held while it ran, a write is applied at
\* most once, and one that succeeds was applied; across redirects, timeouts,
\* late executions and namespaces that come, go and move.
THEOREM AnswersAlwaysTrue == RowsRight => (Spec => []AnswersAreTrue)
<1> SUFFICES ASSUME RowsRight PROVE Spec => []AnswersAreTrue
  OBVIOUS
<1>1. Init => Answers
  <2> SUFFICES ASSUME Init PROVE Answers
    OBVIOUS
  <2>1. \A c \in Calls : call[c].pc = "idle" /\ call[c].applied = 0 /\ call[c].result = "none"
    BY DEF Init
  <2> QED BY <2>1 DEF Answers, Truthful
<1>2. Shape /\ Unwritten /\ Answers /\ [Next]_vars => Answers'
  BY AnswersNext
<1>3. Shape /\ Answers => AnswersAreTrue
  BY DEF Shape, Answers, Truthful, AnswersAreTrue, ReadsAreTrue, AppliedOnce, OkMeansApplied
<1> QED BY SafeAlways, <1>1, <1>2, <1>3, PTL DEF Spec

-----------------------------------------------------------------------------
(* The tables' rows. *)

\* A policy that is read, set and removed at one path of its own is right.
LEMMA PolicyRight ==
   ASSUME NEW segment, segment \notin {"removeOffloadPolicies", "backlogQuota"}
   PROVE  RowRight(Policy(segment)) /\ RowRight(PutPolicy(segment))
<1>1. ReadPath(<<segment>>) = <<segment>>
  BY DEF ReadPath
<1> QED BY <1>1 DEF RowRight, Policy, PutPolicy

\* Rows that are not of this form, offload policies and backlog quotas, and
\* address one policy all the same.
LEMMA ReadPaths ==
   /\ ReadPath(<<"offloadPolicies">>) = <<"offloadPolicies">>
   /\ ReadPath(<<"removeOffloadPolicies">>) = <<"offloadPolicies">>
   /\ ReadPath(<<"backlogQuota">>) = <<"backlogQuotaMap">>
<1>1. /\ <<"offloadPolicies">> # <<"removeOffloadPolicies">>
      /\ <<"backlogQuota">> # <<"removeOffloadPolicies">>
      /\ <<"offloadPolicies">> # <<"backlogQuota">>
      /\ Head(<<"offloadPolicies">>) # "resourcegroup"
      /\ Head(<<"removeOffloadPolicies">>) # "resourcegroup"
      /\ Head(<<"backlogQuota">>) # "resourcegroup"
  OBVIOUS
<1> QED BY <1>1 DEF ReadPath

LEMMA OffloadRight == RowRight(NamespaceOffload.offload_policies)
<1> DEFINE row == [get |-> <<"GET", "offloadPolicies">>,
                   set |-> <<"POST", "offloadPolicies">>,
                   remove |-> <<"DELETE", "removeOffloadPolicies">>]
<1>1. NamespaceOffload.offload_policies = row
  BY DEF NamespaceOffload
<1>2. /\ Head(row.get) = "GET" /\ Head(row.set) = "POST" /\ Head(row.remove) = "DELETE"
      /\ Tail(row.get) = <<"offloadPolicies">> /\ Tail(row.set) = <<"offloadPolicies">>
      /\ Tail(row.remove) = <<"removeOffloadPolicies">>
  OBVIOUS
<1> HIDE DEF row
<1>3. RowRight(row)
  BY <1>2, ReadPaths DEF RowRight
<1> QED BY <1>1, <1>3

LEMMA BacklogRight ==
   RowRight([get |-> <<"GET", "backlogQuotaMap">>, set |-> <<"POST", "backlogQuota">>,
             remove |-> <<"DELETE", "backlogQuota">>])
<1> DEFINE row == [get |-> <<"GET", "backlogQuotaMap">>, set |-> <<"POST", "backlogQuota">>,
                   remove |-> <<"DELETE", "backlogQuota">>]
<1>1. /\ Head(row.get) = "GET" /\ Head(row.set) = "POST" /\ Head(row.remove) = "DELETE"
      /\ Tail(row.get) = <<"backlogQuotaMap">> /\ Tail(row.set) = <<"backlogQuota">>
      /\ Tail(row.remove) = <<"backlogQuota">>
  OBVIOUS
<1> HIDE DEF row
<1>2. RowRight(row)
  BY <1>1, ReadPaths DEF RowRight
<1> QED BY <1>2 DEF row
=============================================================================
