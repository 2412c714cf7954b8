------------------------ MODULE SingleProducerProofs -------------------------
(* Proofs about SingleProducer, for any number of messages, connections and *)
(* calls of close: its type, the order of the topic, and that it implements *)
(* the promise of ProducerLog.                                              *)
EXTENDS SingleProducer, TLAPS

-----------------------------------------------------------------------------
(* The inductive invariant. *)

Cmd == [type : {"send", "close"}, msg : Nat, seq : Nat]
Entry == [msg : Msgs, seq : Nat]

\* The sets the variables range over.
Shape ==
    /\ user \in {"ready", "sending", "reconnecting", "creating"}
    /\ sent \in 0..MaxMsgs
    /\ closes \in Nat
    /\ conn \in Conns
    /\ seq \in Nat
    /\ link \in [Conns -> {"unused", "up", "broken"}]
    /\ poisoned \subseteq 1..conn
    /\ pending \subseteq [msg : Msgs, conn : Conns, seq : Nat]
    /\ receipt \in [Msgs -> Outcome \cup {None}]
    /\ wire \in [Conns -> Seq(Cmd)]
    /\ acks \subseteq [conn : Conns, seq : Nat, entry : Nat]
    /\ home \in 1..conn \cup {None}
    /\ log \in Seq(Entry)

Sends(c) == {i \in DOMAIN wire[c] : wire[c][i].type = "send"}

\* A message that has not been handed to a connection yet.
Unsent(m) == m > sent \/ (m = sent /\ user # "ready")

\* A message not handed to a connection is nowhere, and not settled.
UnsentNowhere ==
    /\ user # "ready" => sent > 0
    /\ \A m \in Msgs : Unsent(m) => receipt[m] = None
    /\ \A p \in pending : ~Unsent(p.msg)
    /\ \A e \in DOMAIN log : ~Unsent(log[e].msg)
    /\ \A c \in Conns : \A i \in Sends(c) : wire[c][i].msg > 0 /\ ~Unsent(wire[c][i].msg)

\* A connection has seen nothing when the producer is registered on it.
FreshIsEmpty ==
    /\ \A c \in Conns : c > conn => wire[c] = <<>>
    /\ user = "creating" => wire[conn] = <<>>

\* One connection carries the messages in the order of the calls, and the one
\* the broker reads from only messages behind those of the topic.
WiresInOrder ==
    /\ \A c \in Conns : \A i, j \in Sends(c) : i < j => wire[c][i].msg < wire[c][j].msg
    /\ home # None => \A e \in DOMAIN log : \A i \in Sends(home) :
                         log[e].msg < wire[home][i].msg

\* A sequence id stands for one message wherever it is found.
SeqsName ==
    /\ \A p \in pending : p.seq < seq
    /\ \A c \in Conns : \A i \in Sends(c) : wire[c][i].seq < seq
    /\ \A e \in DOMAIN log : log[e].seq < seq
    /\ \A p \in pending : \A e \in DOMAIN log : p.seq = log[e].seq => p.msg = log[e].msg
    /\ \A p \in pending : \A c \in Conns : \A i \in Sends(c) :
          p.seq = wire[c][i].seq => p.msg = wire[c][i].msg

\* A receipt on its way names the entry written for its sequence id.
AcksPoint == \A a \in acks : a.entry \in DOMAIN log /\ log[a.entry].seq = a.seq

Routed == UnsentNowhere /\ FreshIsEmpty /\ WiresInOrder /\ SeqsName /\ AcksPoint

Inv == Shape /\ TypeOK /\ LogInOrder /\ Routed

-----------------------------------------------------------------------------
(* Facts about sequences of commands and entries. *)

LEMMA AppendProperties ==
    ASSUME NEW S, NEW s \in Seq(S), NEW x \in S
    PROVE  /\ Append(s, x) \in Seq(S)
           /\ Len(s) \in Nat /\ DOMAIN s = 1..Len(s)
           /\ DOMAIN Append(s, x) = 1..(Len(s) + 1)
           /\ \A i \in DOMAIN s : Append(s, x)[i] = s[i]
           /\ Append(s, x)[Len(s) + 1] = x
           /\ Append(s, x) \in [1..(Len(s) + 1) -> S]
<1>1. /\ Append(s, x) \in Seq(S)
      /\ Len(s) \in Nat /\ DOMAIN s = 1..Len(s)
      /\ DOMAIN Append(s, x) = 1..(Len(s) + 1) /\ Len(Append(s, x)) = Len(s) + 1
      /\ \A i \in DOMAIN s : Append(s, x)[i] = s[i]
      /\ Append(s, x)[Len(s) + 1] = x
  OBVIOUS
<1>2. \A q \in Seq(S) : q \in [1..Len(q) -> S]
  OBVIOUS
<1> QED BY <1>1, <1>2

LEMMA SameFunction ==
    ASSUME NEW D, NEW f, NEW g, f = [e \in D |-> f[e]], g = [e \in D |-> g[e]],
           \A e \in D : f[e] = g[e]
    PROVE  f = g
<1>1. [e \in D |-> f[e]] = [e \in D |-> g[e]]
  OBVIOUS
<1> QED BY <1>1

LEMMA TailProperties ==
    ASSUME NEW S, NEW s \in Seq(S), s # <<>>
    PROVE  /\ Tail(s) \in Seq(S) /\ Head(s) \in S /\ Head(s) = s[1]
           /\ Len(s) \in Nat \ {0} /\ DOMAIN s = 1..Len(s)
           /\ DOMAIN Tail(s) = 1..(Len(s) - 1)
           /\ \A i \in DOMAIN Tail(s) : i + 1 \in DOMAIN s /\ Tail(s)[i] = s[i + 1]
OBVIOUS

-----------------------------------------------------------------------------
(* What the steps do to the wires and the receipts. *)

LEMMA ReceiptValues ==
    /\ Failed("error") \in Outcome
    /\ \A e \in Nat : Placed(e) \in Outcome
BY DEF Failed, Placed, Outcome

\* A command is put on wire k.
LEMMA WireAppends ==
    ASSUME Shape, NEW k \in Conns, NEW x \in Cmd,
           wire' = [wire EXCEPT ![k] = Append(@, x)]
    PROVE  /\ wire' \in [Conns -> Seq(Cmd)]
           /\ \A c \in Conns : c # k => wire'[c] = wire[c]
           /\ Len(wire[k]) \in Nat
           /\ \A c \in Conns : \A i \in Sends(c) : i \in Nat
           /\ \A i \in Sends(k) : i < Len(wire[k]) + 1
           /\ \A c \in Conns : \A i \in Sends(c)' :
                 \/ i \in Sends(c) /\ wire'[c][i] = wire[c][i]
                 \/ /\ c = k /\ i = Len(wire[k]) + 1
                    /\ wire'[c][i] = x /\ x.type = "send"
<1>1. /\ wire[k] \in Seq(Cmd) /\ wire'[k] = Append(wire[k], x)
      /\ \A c \in Conns : c # k => wire'[c] = wire[c]
      /\ wire \in [Conns -> Seq(Cmd)]
  BY DEF Shape
<1>2. /\ Append(wire[k], x) \in Seq(Cmd)
      /\ Len(wire[k]) \in Nat /\ DOMAIN wire[k] = 1..Len(wire[k])
      /\ DOMAIN Append(wire[k], x) = 1..(Len(wire[k]) + 1)
      /\ \A i \in DOMAIN wire[k] : Append(wire[k], x)[i] = wire[k][i]
      /\ Append(wire[k], x)[Len(wire[k]) + 1] = x
  BY <1>1, AppendProperties
<1>3. wire' \in [Conns -> Seq(Cmd)]
  BY <1>1, <1>2
<1>4. \A c \in Conns : \A i \in Sends(c) : i \in Nat
  <2> SUFFICES ASSUME NEW c \in Conns, NEW i \in Sends(c) PROVE i \in Nat
    OBVIOUS
  <2>1. wire[c] \in Seq(Cmd)
    BY <1>1
  <2>2. DOMAIN wire[c] = 1..Len(wire[c])
    BY <2>1
  <2> QED BY <2>1, <2>2 DEF Sends
<1>5. \A i \in Sends(k) : i < Len(wire[k]) + 1
  BY <1>2 DEF Sends
<1>6. ASSUME NEW c \in Conns, NEW i \in Sends(c)'
      PROVE  \/ i \in Sends(c) /\ wire'[c][i] = wire[c][i]
             \/ c = k /\ i = Len(wire[k]) + 1 /\ wire'[c][i] = x /\ x.type = "send"
  <2>1. CASE c # k
    BY <1>1, <1>6, <2>1 DEF Sends
  <2>2. CASE c = k
    BY <1>1, <1>2, <1>6, <2>2 DEF Sends
  <2> QED BY <2>1, <2>2
<1> QED BY <1>1, <1>2, <1>3, <1>4, <1>5, <1>6

\* The head of wire k is read.
LEMMA WireReads ==
    ASSUME Shape, NEW k \in Conns, wire[k] # <<>>,
           wire' = [wire EXCEPT ![k] = Tail(@)]
    PROVE  /\ wire' \in [Conns -> Seq(Cmd)]
           /\ \A c \in Conns : c # k => wire'[c] = wire[c]
           /\ Head(wire[k]) \in Cmd /\ Head(wire[k]) = wire[k][1]
           /\ Head(wire[k]).type = "send" => 1 \in Sends(k)
           /\ \A c \in Conns : c # k => Sends(c)' = Sends(c)
           /\ \A i \in Sends(k)' : /\ i \in Nat \ {0} /\ i + 1 \in Sends(k)
                                   /\ wire'[k][i] = wire[k][i + 1]
<1>1. /\ wire[k] \in Seq(Cmd) /\ wire'[k] = Tail(wire[k])
      /\ \A c \in Conns : c # k => wire'[c] = wire[c]
      /\ wire \in [Conns -> Seq(Cmd)]
  BY DEF Shape
<1>2. /\ Tail(wire[k]) \in Seq(Cmd) /\ Head(wire[k]) \in Cmd
      /\ Head(wire[k]) = wire[k][1]
      /\ Len(wire[k]) \in Nat \ {0} /\ DOMAIN wire[k] = 1..Len(wire[k])
      /\ DOMAIN Tail(wire[k]) = 1..(Len(wire[k]) - 1)
      /\ \A i \in DOMAIN Tail(wire[k]) :
            i + 1 \in DOMAIN wire[k] /\ Tail(wire[k])[i] = wire[k][i + 1]
  BY <1>1, TailProperties
<1>3. wire' \in [Conns -> Seq(Cmd)]
  BY <1>1, <1>2
<1>4. Head(wire[k]).type = "send" => 1 \in Sends(k)
  BY <1>2 DEF Sends
<1>5. \A c \in Conns : c # k => Sends(c)' = Sends(c)
  BY <1>1 DEF Sends
<1>6. ASSUME NEW i \in Sends(k)'
      PROVE  i \in Nat \ {0} /\ i + 1 \in Sends(k) /\ wire'[k][i] = wire[k][i + 1]
  <2>1. i \in DOMAIN Tail(wire[k]) /\ wire'[k][i].type = "send"
    BY <1>1, <1>6 DEF Sends
  <2> QED BY <1>1, <1>2, <2>1 DEF Sends
<1> QED BY <1>1, <1>2, <1>3, <1>4, <1>5, <1>6

\* The commands and the entries have their fields.
LEMMA SendsTyped ==
    ASSUME Shape
    PROVE  \A c \in Conns : \A i \in Sends(c) :
              i \in Nat \ {0} /\ wire[c][i].msg \in Nat /\ wire[c][i].seq \in Nat
<1> SUFFICES ASSUME NEW c \in Conns, NEW i \in Sends(c)
             PROVE  i \in Nat \ {0} /\ wire[c][i].msg \in Nat /\ wire[c][i].seq \in Nat
  OBVIOUS
<1>1. wire[c] \in Seq(Cmd) /\ i \in DOMAIN wire[c]
  BY DEF Shape, Sends
<1>2. wire[c][i] \in Cmd /\ i \in Nat \ {0}
  BY <1>1
<1> QED BY <1>2 DEF Cmd

LEMMA LogTyped ==
    ASSUME Shape
    PROVE  /\ Len(log) \in Nat /\ DOMAIN log = 1..Len(log)
           /\ \A e \in DOMAIN log : /\ log[e] \in Entry
                                    /\ log[e].msg \in Msgs /\ log[e].msg \in Nat
                                    /\ log[e].seq \in Nat
<1>1. log \in Seq(Entry)
  BY DEF Shape
<1>2. /\ Len(log) \in Nat /\ DOMAIN log = 1..Len(log)
      /\ \A e \in DOMAIN log : log[e] \in Entry
  BY <1>1
<1>3. \A e \in DOMAIN log : log[e].msg \in Msgs /\ log[e].seq \in Nat
  BY <1>2 DEF Entry
<1>4. Msgs \subseteq Nat
  BY SingleAssumption DEF Msgs
<1> QED BY <1>2, <1>3, <1>4

LEMMA HomeIsConn == ASSUME Shape PROVE home # None => home \in Conns
BY SingleAssumption DEF Shape, Conns

\* What no step but a send changes about the wires follows from this: they
\* only lose commands or gain a request to close.
LEMMA CloseAppends ==
    ASSUME Shape, NEW k \in Conns,
           \/ wire' = [wire EXCEPT ![k] = Append(@, CloseCmd)]
           \/ wire' = wire
    PROVE  /\ wire' \in [Conns -> Seq(Cmd)]
           /\ \A c \in Conns : c # k => wire'[c] = wire[c]
           /\ \A c \in Conns : \A i \in Sends(c)' : i \in Sends(c) /\ wire'[c][i] = wire[c][i]
<1>1. CloseCmd \in Cmd /\ CloseCmd.type # "send"
  BY DEF CloseCmd, Cmd
<1>2. CASE wire' = wire
  BY <1>2 DEF Shape, Sends
<1>3. CASE wire' = [wire EXCEPT ![k] = Append(@, CloseCmd)]
  BY <1>1, <1>3, WireAppends
<1> QED BY <1>2, <1>3

-----------------------------------------------------------------------------
LEMMA InitInv == Init => Inv
<1> SUFFICES ASSUME Init PROVE Inv
  OBVIOUS
<1> USE SingleAssumption DEF Init, Msgs, Conns
<1>1. Shape
  BY DEF Shape, Cmd, Entry, Outcome, Sends, Unsent
<1>2. TypeOK
  BY DEF TypeOK, Cmd, Entry, Outcome, Sends, Unsent
<1>3. LogInOrder
  BY DEF LogInOrder, Cmd, Entry, Outcome, Sends, Unsent
<1>4. UnsentNowhere
  BY DEF UnsentNowhere, Cmd, Entry, Outcome, Sends, Unsent
<1>5. FreshIsEmpty
  BY DEF FreshIsEmpty, Cmd, Entry, Outcome, Sends, Unsent
<1>6. WiresInOrder
  BY DEF WiresInOrder, Cmd, Entry, Outcome, Sends, Unsent
<1>7. SeqsName
  BY DEF SeqsName, Cmd, Entry, Outcome, Sends, Unsent
<1>8. AcksPoint
  BY DEF AcksPoint, Cmd, Entry, Outcome, Sends, Unsent
<1> QED BY <1>1, <1>2, <1>3, <1>4, <1>5, <1>6, <1>7, <1>8 DEF Inv, Routed

-----------------------------------------------------------------------------
(* One lemma per action: it preserves the invariant.                        *)

LEMMA SendInv ==
    ASSUME Inv, Send
    PROVE  Inv'
<1> USE SingleAssumption DEF Inv, Routed, Msgs, Conns
<1>1. Shape'
  BY DEF Send, Shape
<1>2. TypeOK'
  BY DEF Send, TypeOK
<1>3. LogInOrder'
  BY DEF Send, LogInOrder
<1>4. UnsentNowhere'
  <2>1. sent \in Nat /\ sent' = sent + 1 /\ user = "ready" /\ user' = "sending"
    BY DEF Send, Shape
  <2>2. \A m \in Nat : Unsent(m)' => Unsent(m)
    BY <2>1 DEF Unsent
  <2>3. \A m \in Nat : Unsent(m)' => m > sent
    BY <2>1 DEF Unsent
  <2>4. \A c \in Conns : \A i \in Sends(c) : wire[c][i].msg \in Nat
    <3> SUFFICES ASSUME NEW c \in Conns, NEW i \in Sends(c) PROVE wire[c][i].msg \in Nat
      OBVIOUS
    <3>1. wire[c] \in Seq(Cmd) /\ i \in DOMAIN wire[c]
      BY DEF Shape, Sends
    <3>2. wire[c][i] \in Cmd
      BY <3>1
    <3> QED BY <3>2 DEF Cmd
  <2>5. \A e \in DOMAIN log : log[e].msg \in Nat
    BY LogTyped
  <2>6. \A p \in pending : p.msg \in Nat
    BY DEF Shape
  <2>7. \A c \in Conns : Sends(c)' = Sends(c) /\ wire' = wire
    BY DEF Send, Sends
  <2>8. /\ pending' = pending /\ log' = log /\ receipt' = receipt
    BY DEF Send
  <2> QED BY <2>1, <2>2, <2>4, <2>5, <2>6, <2>7, <2>8 DEF UnsentNowhere
<1>5. FreshIsEmpty'
  BY DEF Send, FreshIsEmpty
<1>6. WiresInOrder'
  BY DEF Send, WiresInOrder, Shape, Sends, Unsent, userVars
<1>7. SeqsName'
  BY DEF Send, SeqsName, Shape, Sends, Unsent, userVars
<1>8. AcksPoint'
  BY DEF Send, AcksPoint
<1> QED BY <1>1, <1>2, <1>3, <1>4, <1>5, <1>6, <1>7, <1>8

LEMMA EnqueuedInv ==
    ASSUME Inv, Enqueued
    PROVE  Inv'
<1> USE SingleAssumption DEF Inv, Routed, Msgs, Conns
<1>a. SendCmd(sent, seq) \in Cmd /\ SendCmd(sent, seq).type = "send"
      /\ SendCmd(sent, seq).msg = sent /\ SendCmd(sent, seq).seq = seq
  BY DEF Shape, SendCmd, Cmd
<1>b. /\ wire' \in [Conns -> Seq(Cmd)]
      /\ \A c \in Conns : c # conn => wire'[c] = wire[c]
      /\ Len(wire[conn]) \in Nat
      /\ \A c \in Conns : \A i \in Sends(c) : i \in Nat
      /\ \A i \in Sends(conn) : i < Len(wire[conn]) + 1
      /\ \A c \in Conns : \A i \in Sends(c)' :
            \/ i \in Sends(c) /\ wire'[c][i] = wire[c][i]
            \/ c = conn /\ i = Len(wire[conn]) + 1 /\ wire'[c][i] = SendCmd(sent, seq)
  <2>1. wire' = [wire EXCEPT ![conn] = Append(@, SendCmd(sent, seq))] /\ conn \in Conns
    BY DEF Enqueued, Shape
  <2> DEFINE x == SendCmd(sent, seq)
  <2>2. x \in Cmd /\ Shape
    BY <1>a
  <2> HIDE DEF x
  <2>3. /\ wire' \in [Conns -> Seq(Cmd)]
        /\ \A c \in Conns : c # conn => wire'[c] = wire[c]
        /\ Len(wire[conn]) \in Nat
        /\ \A c \in Conns : \A i \in Sends(c) : i \in Nat
        /\ \A i \in Sends(conn) : i < Len(wire[conn]) + 1
        /\ \A c \in Conns : \A i \in Sends(c)' :
              \/ i \in Sends(c) /\ wire'[c][i] = wire[c][i]
              \/ /\ c = conn /\ i = Len(wire[conn]) + 1
                 /\ wire'[c][i] = x /\ x.type = "send"
    <3>1. wire' = [wire EXCEPT ![conn] = Append(@, x)]
      BY <2>1 DEF x
    <3> QED BY <2>1, <2>2, <3>1, WireAppends
  <2> QED BY <2>3 DEF x
<1>c. /\ user = "sending" /\ user' = "ready" /\ sent' = sent /\ seq' = seq + 1
      /\ seq \in Nat /\ sent \in Nat /\ sent > 0 /\ sent \in Msgs /\ Unsent(sent)
      /\ conn \in Conns /\ conn' = conn /\ log' = log /\ receipt' = receipt
      /\ home' = home /\ acks' = acks /\ link' = link /\ poisoned' = poisoned
      /\ closes' = closes
      /\ pending' = pending \cup {[msg |-> sent, conn |-> conn, seq |-> seq]}
      /\ \A m : Unsent(m)' => Unsent(m)
  BY DEF Enqueued, Shape, UnsentNowhere, Unsent
<1>e. user = "sending" /\ sent \in Nat
  BY <1>c
<1>d. ~Unsent(sent)'
  BY <1>c DEF Unsent
<1>1. Shape'
  <2>1. [msg |-> sent, conn |-> conn, seq |-> seq] \in [msg : Msgs, conn : Conns, seq : Nat]
    BY <1>c
  <2>2. pending' \subseteq [msg : Msgs, conn : Conns, seq : Nat]
    BY <1>c, <2>1 DEF Shape
  <2> QED BY <1>b, <1>c, <2>2 DEF Shape
<1>2. TypeOK'
  BY DEF Enqueued, TypeOK, Shape, UnsentNowhere, Unsent
<1>3. LogInOrder'
  BY DEF Enqueued, LogInOrder
<1>4. UnsentNowhere'
  <2>1. \A p \in pending' : ~Unsent(p.msg)'
    BY <1>c, <1>d DEF UnsentNowhere
  <2>2. ASSUME NEW c \in Conns, NEW i \in Sends(c)'
        PROVE  (wire[c][i].msg > 0 /\ ~Unsent(wire[c][i].msg))'
    <3>1. CASE i \in Sends(c) /\ wire'[c][i] = wire[c][i]
      BY <1>c, <3>1 DEF UnsentNowhere
    <3>2. CASE wire'[c][i] = SendCmd(sent, seq)
      BY <1>a, <1>c, <1>d, <3>2
    <3> QED BY <1>b, <2>2, <3>1, <3>2
  <2>3. \A e \in DOMAIN log' : ~Unsent(log[e].msg)'
    BY <1>c DEF UnsentNowhere
  <2>4. \A m \in Msgs : Unsent(m)' => receipt'[m] = None
    BY <1>c DEF UnsentNowhere
  <2> QED BY <1>c, <2>1, <2>2, <2>3, <2>4 DEF UnsentNowhere
<1>5. FreshIsEmpty'
  BY DEF Enqueued, FreshIsEmpty
<1>6. WiresInOrder'
  <2>1. \A c \in Conns : \A i \in Sends(c) : wire[c][i].msg \in Nat => wire[c][i].msg < sent
    BY <1>c DEF UnsentNowhere, Unsent
  <2>2. \A c \in Conns : \A i \in Sends(c) : wire[c][i].msg \in Nat
    BY SendsTyped
  <2>3. ASSUME NEW c \in Conns, NEW i \in Sends(c)', NEW j \in Sends(c)', i < j
        PROVE  wire'[c][i].msg < wire'[c][j].msg
    <3>1. CASE j \in Sends(c) /\ wire'[c][j] = wire[c][j]
      <4>1. i \in Sends(c) /\ wire'[c][i] = wire[c][i]
        BY <1>b, <2>3, <3>1
      <4> QED BY <3>1, <4>1, <2>3 DEF WiresInOrder
    <3>2. CASE c = conn /\ j = Len(wire[conn]) + 1 /\ wire'[c][j] = SendCmd(sent, seq)
      <4>1. i \in Sends(c) /\ wire'[c][i] = wire[c][i]
        BY <1>b, <2>3, <3>2
      <4> QED BY <1>a, <2>1, <2>2, <3>2, <4>1
    <3> QED BY <1>b, <3>1, <3>2
  <2>4. ASSUME home # None, NEW e \in DOMAIN log, NEW i \in Sends(home)'
        PROVE  log[e].msg < wire'[home][i].msg
    <3>1. home \in Conns
      BY <2>4, HomeIsConn
    <3>2. log[e].msg \in Nat /\ ~Unsent(log[e].msg)
      BY <2>4, LogTyped DEF UnsentNowhere
    <3>3. log[e].msg < sent
      BY <1>e, <3>2 DEF Unsent
    <3>4. CASE i \in Sends(home) /\ wire'[home][i] = wire[home][i]
      BY <2>4, <3>4 DEF WiresInOrder
    <3>5. CASE wire'[home][i] = SendCmd(sent, seq)
      <4>1. wire'[home][i].msg = sent
        BY <1>a, <3>5
      <4> QED BY <3>3, <4>1
    <3>6. home' = home
      BY <1>c
    <3> QED BY <1>b, <2>4, <3>1, <3>4, <3>5, <3>6 DEF Sends
  <2> QED BY <1>c, <2>3, <2>4 DEF WiresInOrder
<1>7. SeqsName'
  <2> DEFINE q == [msg |-> sent, conn |-> conn, seq |-> seq]
  <2>1. \A p \in pending' : p \in pending \/ p = q
    BY <1>c
  <2>2. \A p \in pending : p.seq \in Nat /\ p.seq < seq
    BY DEF Shape, SeqsName
  <2>3. \A c \in Conns : \A i \in Sends(c) : wire[c][i].seq \in Nat /\ wire[c][i].seq < seq
    BY SendsTyped DEF SeqsName
  <2>4. \A e \in DOMAIN log : log[e].seq \in Nat /\ log[e].seq < seq
    BY LogTyped DEF SeqsName
  <2>5. \A p \in pending' : p.seq < seq'
    BY <1>c, <2>1, <2>2
  <2>6. \A c \in Conns : \A i \in Sends(c)' : wire'[c][i].seq < seq'
    BY <1>a, <1>b, <1>c, <2>3
  <2>7. \A e \in DOMAIN log' : log'[e].seq < seq'
    BY <1>c, <2>4
  <2>8. \A p \in pending' : \A e \in DOMAIN log' : p.seq = log'[e].seq => p.msg = log'[e].msg
    BY <1>c, <2>1, <2>4 DEF SeqsName
  <2>9. \A p \in pending' : \A c \in Conns : \A i \in Sends(c)' :
           p.seq = wire'[c][i].seq => p.msg = wire'[c][i].msg
    <3> SUFFICES ASSUME NEW p \in pending', NEW c \in Conns, NEW i \in Sends(c)',
                        p.seq = wire'[c][i].seq
                 PROVE  p.msg = wire'[c][i].msg
      OBVIOUS
    <3>1. CASE i \in Sends(c) /\ wire'[c][i] = wire[c][i]
      BY <2>1, <2>3, <3>1 DEF SeqsName
    <3>2. CASE wire'[c][i] = SendCmd(sent, seq)
      BY <1>a, <2>1, <2>2, <3>2
    <3> QED BY <1>b, <3>1, <3>2
  <2> QED BY <2>5, <2>6, <2>7, <2>8, <2>9 DEF SeqsName
<1>8. AcksPoint'
  BY DEF Enqueued, AcksPoint
<1> QED BY <1>1, <1>2, <1>3, <1>4, <1>5, <1>6, <1>7, <1>8

LEMMA RefusedInv ==
    ASSUME Inv, Refused
    PROVE  Inv'
<1> USE SingleAssumption DEF Inv, Routed, Msgs, Conns
<1>1. Shape'
  BY DEF Refused, Shape, UnsentNowhere, Failed, Outcome
<1>2. TypeOK'
  BY DEF Refused, TypeOK, Shape, UnsentNowhere, Unsent, Failed
<1>3. LogInOrder'
  BY DEF Refused, LogInOrder
<1>4. UnsentNowhere'
  BY DEF Refused, UnsentNowhere, Shape, Sends, Unsent, userVars
<1>5. FreshIsEmpty'
  BY DEF Refused, FreshIsEmpty
<1>6. WiresInOrder'
  BY DEF Refused, WiresInOrder, Shape, Sends, Unsent, userVars
<1>7. SeqsName'
  <2>1. /\ seq \in Nat /\ seq' = seq + 1 /\ pending' = pending /\ log' = log /\ wire' = wire
        /\ \A c \in Conns : Sends(c)' = Sends(c)
    BY DEF Refused, Shape, Sends
  <2>2. \A p \in pending : p.seq \in Nat /\ p.seq < seq'
    BY <2>1 DEF Shape, SeqsName
  <2>3. \A c \in Conns : \A i \in Sends(c) : wire[c][i].seq < seq'
    BY <2>1, SendsTyped DEF SeqsName
  <2>4. \A e \in DOMAIN log : log[e].seq < seq'
    BY <2>1, LogTyped DEF SeqsName
  <2> QED BY <2>1, <2>2, <2>3, <2>4 DEF SeqsName
<1>8. AcksPoint'
  BY DEF Refused, AcksPoint
<1> QED BY <1>1, <1>2, <1>3, <1>4, <1>5, <1>6, <1>7, <1>8

LEMMA CloseOldInv ==
    ASSUME Inv, CloseOld
    PROVE  Inv'
<1> USE SingleAssumption DEF Inv, Routed, Msgs, Conns
<1>a. /\ wire' \in [Conns -> Seq(Cmd)]
      /\ \A c \in Conns : c # conn => wire'[c] = wire[c]
      /\ \A c \in Conns : \A i \in Sends(c)' : i \in Sends(c) /\ wire'[c][i] = wire[c][i]
  BY CloseAppends DEF CloseOld, Shape
<1>b. /\ sent' = sent /\ conn' = conn /\ link' = link /\ poisoned' = poisoned
      /\ pending' = pending /\ receipt' = receipt /\ acks' = acks /\ home' = home
      /\ log' = log /\ conn \in Conns
      /\ seq \in Nat /\ seq' \in Nat /\ seq' >= seq /\ closes' \in Nat
  BY DEF CloseOld, Shape
<1>c. /\ user' \in {"ready", "reconnecting"}
      /\ user # "ready" <=> user' # "ready"
      /\ \A m : Unsent(m)' <=> Unsent(m)
  BY <1>b DEF CloseOld, Unsent
<1>1. Shape'
  BY <1>a, <1>b, <1>c DEF Shape
<1>2. TypeOK'
  BY DEF CloseOld, TypeOK
<1>3. LogInOrder'
  BY DEF CloseOld, LogInOrder
<1>4. UnsentNowhere'
  BY <1>a, <1>b, <1>c DEF UnsentNowhere
<1>5. FreshIsEmpty'
  BY DEF CloseOld, FreshIsEmpty, Shape, userVars
<1>6. WiresInOrder'
  <2>1. \A c \in Conns : \A i, j \in Sends(c)' : i < j => wire'[c][i].msg < wire'[c][j].msg
    BY <1>a DEF WiresInOrder
  <2>2. ASSUME home # None, NEW e \in DOMAIN log, NEW i \in Sends(home)'
        PROVE  log[e].msg < wire'[home][i].msg
    BY <1>a, <1>b, <2>2, HomeIsConn DEF WiresInOrder
  <2> QED BY <1>b, <2>1, <2>2 DEF WiresInOrder
<1>7. SeqsName'
  <2>1. \A p \in pending : p.seq < seq'
    BY <1>b DEF Shape, SeqsName
  <2>2. \A c \in Conns : \A i \in Sends(c) : wire[c][i].seq < seq'
    BY <1>b, SendsTyped DEF SeqsName
  <2>3. \A e \in DOMAIN log : log[e].seq < seq'
    <3>1. \A e \in DOMAIN log : log[e].seq \in Nat /\ log[e].seq < seq
      BY LogTyped DEF SeqsName
    <3> QED BY <1>b, <3>1
  <2>4. \A c \in Conns : \A i \in Sends(c)' : wire'[c][i].seq < seq'
    BY <1>a, <2>2
  <2>5. \A p \in pending : \A e \in DOMAIN log : p.seq = log[e].seq => p.msg = log[e].msg
    BY DEF SeqsName
  <2>6. \A p \in pending : \A c \in Conns : \A i \in Sends(c)' :
           p.seq = wire'[c][i].seq => p.msg = wire'[c][i].msg
    BY <1>a DEF SeqsName
  <2>7. pending' = pending /\ log' = log
    BY <1>b
  <2> QED BY <2>1, <2>3, <2>4, <2>5, <2>6, <2>7 DEF SeqsName
<1>8. AcksPoint'
  BY DEF CloseOld, AcksPoint
<1> QED BY <1>1, <1>2, <1>3, <1>4, <1>5, <1>6, <1>7, <1>8

LEMMA ConnectInv ==
    ASSUME Inv, Connect
    PROVE  Inv'
<1> USE SingleAssumption DEF Inv, Routed, Msgs, Conns
<1>1. Shape'
  <2>1. conn \in Nat /\ conn + 1 \in Conns /\ conn' = conn + 1
    BY DEF Connect, Shape
  <2>2. link' \in [Conns -> {"unused", "up", "broken"}]
    BY <2>1 DEF Connect, Shut, Shape
  <2>3. poisoned' \subseteq 1..conn'
    BY <2>1 DEF Connect, Shut, Shape
  <2>4. home' \in 1..conn' \cup {None}
    BY <2>1 DEF Connect, Shape
  <2> QED BY <2>1, <2>2, <2>3, <2>4 DEF Connect, Shape
<1>2. TypeOK'
  BY DEF Connect, TypeOK, Shape, userVars, Shut
<1>3. LogInOrder'
  BY DEF Connect, LogInOrder, Shut
<1>4. UnsentNowhere'
  BY DEF Connect, UnsentNowhere, Shape, Sends, Unsent, userVars, Shut
<1>5. FreshIsEmpty'
  BY DEF Connect, FreshIsEmpty, Shape, userVars, Shut
<1>6. WiresInOrder'
  BY DEF Connect, WiresInOrder, Shape, Sends, Unsent, userVars, Shut
<1>7. SeqsName'
  BY DEF Connect, SeqsName, Shape, Sends, Unsent, userVars, Shut
<1>8. AcksPoint'
  BY DEF Connect, AcksPoint, Shut
<1> QED BY <1>1, <1>2, <1>3, <1>4, <1>5, <1>6, <1>7, <1>8

LEMMA CreatedInv ==
    ASSUME Inv, Created
    PROVE  Inv'
<1> USE SingleAssumption DEF Inv, Routed, Msgs, Conns
<1>1. Shape'
  BY DEF Created, Shape
<1>2. TypeOK'
  BY DEF Created, TypeOK
<1>3. LogInOrder'
  BY DEF Created, LogInOrder
<1>4. UnsentNowhere'
  BY DEF Created, UnsentNowhere, Shape, Sends, Unsent, userVars
<1>5. FreshIsEmpty'
  BY DEF Created, FreshIsEmpty
<1>6. WiresInOrder'
  BY DEF Created, WiresInOrder, Shape, FreshIsEmpty, Sends
<1>7. SeqsName'
  BY DEF Created, SeqsName, Shape, Sends, Unsent, userVars
<1>8. AcksPoint'
  BY DEF Created, AcksPoint
<1> QED BY <1>1, <1>2, <1>3, <1>4, <1>5, <1>6, <1>7, <1>8

LEMMA ReconnectFailsInv ==
    ASSUME Inv, ReconnectFails
    PROVE  Inv'
<1> USE SingleAssumption DEF Inv, Routed, Msgs, Conns
<1>1. Shape'
  BY DEF ReconnectFails, Shape, UnsentNowhere, Failed, Outcome
<1>2. TypeOK'
  BY DEF ReconnectFails, TypeOK, Shape, UnsentNowhere, Unsent, Failed
<1>3. LogInOrder'
  BY DEF ReconnectFails, LogInOrder
<1>4. UnsentNowhere'
  BY DEF ReconnectFails, UnsentNowhere, Shape, Sends, Unsent, userVars
<1>5. FreshIsEmpty'
  BY DEF ReconnectFails, FreshIsEmpty
<1>6. WiresInOrder'
  BY DEF ReconnectFails, WiresInOrder, Shape, Sends, Unsent, userVars
<1>7. SeqsName'
  BY DEF ReconnectFails, SeqsName, Shape, Sends, Unsent, userVars
<1>8. AcksPoint'
  BY DEF ReconnectFails, AcksPoint
<1> QED BY <1>1, <1>2, <1>3, <1>4, <1>5, <1>6, <1>7, <1>8

LEMMA CloseInv ==
    ASSUME Inv, Close
    PROVE  Inv'
<1> USE SingleAssumption DEF Inv, Routed, Msgs, Conns
<1>a. /\ wire' \in [Conns -> Seq(Cmd)]
      /\ \A c \in Conns : c # conn => wire'[c] = wire[c]
      /\ \A c \in Conns : \A i \in Sends(c)' : i \in Sends(c) /\ wire'[c][i] = wire[c][i]
  BY CloseAppends DEF Close, Shape
<1>b. /\ sent' = sent /\ conn' = conn /\ link' = link /\ poisoned' = poisoned
      /\ pending' = pending /\ receipt' = receipt /\ acks' = acks /\ home' = home
      /\ log' = log /\ conn \in Conns
      /\ seq \in Nat /\ seq' \in Nat /\ seq' >= seq /\ closes' \in Nat
  BY DEF Close, Shape
<1>c. /\ user' \in {"ready", "reconnecting"}
      /\ user # "ready" <=> user' # "ready"
      /\ \A m : Unsent(m)' <=> Unsent(m)
  BY <1>b DEF Close, Unsent
<1>1. Shape'
  BY <1>a, <1>b, <1>c DEF Shape
<1>2. TypeOK'
  BY DEF Close, TypeOK
<1>3. LogInOrder'
  BY DEF Close, LogInOrder
<1>4. UnsentNowhere'
  BY <1>a, <1>b, <1>c DEF UnsentNowhere
<1>5. FreshIsEmpty'
  BY DEF Close, FreshIsEmpty, Shape, userVars
<1>6. WiresInOrder'
  <2>1. \A c \in Conns : \A i, j \in Sends(c)' : i < j => wire'[c][i].msg < wire'[c][j].msg
    BY <1>a DEF WiresInOrder
  <2>2. ASSUME home # None, NEW e \in DOMAIN log, NEW i \in Sends(home)'
        PROVE  log[e].msg < wire'[home][i].msg
    BY <1>a, <1>b, <2>2, HomeIsConn DEF WiresInOrder
  <2> QED BY <1>b, <2>1, <2>2 DEF WiresInOrder
<1>7. SeqsName'
  <2>1. \A p \in pending : p.seq < seq'
    BY <1>b DEF Shape, SeqsName
  <2>2. \A c \in Conns : \A i \in Sends(c) : wire[c][i].seq < seq'
    BY <1>b, SendsTyped DEF SeqsName
  <2>3. \A e \in DOMAIN log : log[e].seq < seq'
    <3>1. \A e \in DOMAIN log : log[e].seq \in Nat /\ log[e].seq < seq
      BY LogTyped DEF SeqsName
    <3> QED BY <1>b, <3>1
  <2>4. \A c \in Conns : \A i \in Sends(c)' : wire'[c][i].seq < seq'
    BY <1>a, <2>2
  <2>5. \A p \in pending : \A e \in DOMAIN log : p.seq = log[e].seq => p.msg = log[e].msg
    BY DEF SeqsName
  <2>6. \A p \in pending : \A c \in Conns : \A i \in Sends(c)' :
           p.seq = wire'[c][i].seq => p.msg = wire'[c][i].msg
    BY <1>a DEF SeqsName
  <2>7. pending' = pending /\ log' = log
    BY <1>b
  <2> QED BY <2>1, <2>3, <2>4, <2>5, <2>6, <2>7 DEF SeqsName
<1>8. AcksPoint'
  BY DEF Close, AcksPoint
<1> QED BY <1>1, <1>2, <1>3, <1>4, <1>5, <1>6, <1>7, <1>8

LEMMA ReceiptArrivesInv ==
    ASSUME Inv, ReceiptArrives
    PROVE  Inv'
<1> USE SingleAssumption DEF Inv, Routed, Msgs, Conns
<1>p. PICK a \in acks, p \in pending :
         /\ a.conn = p.conn /\ a.seq = p.seq
         /\ receipt' = [receipt EXCEPT ![p.msg] = Placed(a.entry)]
         /\ pending' = pending \ {p} /\ acks' = acks \ {a} /\ poisoned' = poisoned
  BY DEF ReceiptArrives
<1>q. /\ p.msg \in Msgs /\ p.conn \in Conns /\ p.conn <= conn /\ ~Unsent(p.msg)
  BY DEF Shape, TypeOK, UnsentNowhere
<1>t. poisoned \subseteq 1..conn /\ p.conn \in 1..conn
  BY <1>q DEF Shape
<1>r. Placed(a.entry) \in Outcome
  BY ReceiptValues DEF Shape
<1>s. /\ user' = user /\ sent' = sent /\ closes' = closes /\ conn' = conn /\ seq' = seq
      /\ link' = link /\ wire' = wire /\ home' = home /\ log' = log
      /\ \A m : Unsent(m)' = Unsent(m)
      /\ \A c \in Conns : Sends(c)' = Sends(c)
  BY DEF ReceiptArrives, userVars, Unsent, Sends
<1>1. Shape'
  <2>1. receipt' \in [Msgs -> Outcome \cup {None}]
    BY <1>p, <1>q, <1>r DEF Shape
  <2>2. poisoned' \subseteq 1..conn
    BY <1>p, <1>t
  <2> QED BY <1>p, <1>s, <2>1, <2>2 DEF Shape
<1>2. TypeOK'
  <2>1. \A q \in pending' : q.msg # p.msg /\ q \in pending
    BY <1>p DEF TypeOK
  <2>2. \A q \in pending' : receipt'[q.msg] = None /\ q.conn <= conn
    BY <1>p, <1>q, <2>1 DEF TypeOK, Shape
  <2>3. poisoned' \subseteq 1..conn
    BY <1>p, <1>t
  <2> QED BY <1>s, <2>1, <2>2, <2>3 DEF TypeOK
<1>3. LogInOrder'
  BY DEF ReceiptArrives, LogInOrder
<1>4. UnsentNowhere'
  <2>1. \A m \in Msgs : Unsent(m) => receipt'[m] = None
    BY <1>p, <1>q DEF UnsentNowhere, Shape
  <2> QED BY <1>p, <1>s, <2>1 DEF UnsentNowhere
<1>5. FreshIsEmpty'
  BY DEF ReceiptArrives, FreshIsEmpty, userVars
<1>6. WiresInOrder'
  BY DEF ReceiptArrives, WiresInOrder, Shape, Sends, Unsent, userVars
<1>7. SeqsName'
  BY <1>p, <1>s DEF SeqsName
<1>8. AcksPoint'
  BY DEF ReceiptArrives, AcksPoint
<1> QED BY <1>1, <1>2, <1>3, <1>4, <1>5, <1>6, <1>7, <1>8

LEMMA ReceiptTimesOutInv ==
    ASSUME Inv, ReceiptTimesOut
    PROVE  Inv'
<1> USE SingleAssumption DEF Inv, Routed, Msgs, Conns
<1>p. PICK p \in pending :
         /\ receipt' = [receipt EXCEPT ![p.msg] = Failed("error")]
         /\ pending' = pending \ {p} /\ poisoned' = poisoned \cup {p.conn} /\ acks' = acks
  BY DEF ReceiptTimesOut
<1>q. /\ p.msg \in Msgs /\ p.conn \in Conns /\ p.conn <= conn /\ ~Unsent(p.msg)
  BY DEF Shape, TypeOK, UnsentNowhere
<1>t. poisoned \subseteq 1..conn /\ p.conn \in 1..conn
  BY <1>q DEF Shape
<1>r. Failed("error") \in Outcome
  BY ReceiptValues DEF Shape
<1>s. /\ user' = user /\ sent' = sent /\ closes' = closes /\ conn' = conn /\ seq' = seq
      /\ link' = link /\ wire' = wire /\ home' = home /\ log' = log
      /\ \A m : Unsent(m)' = Unsent(m)
      /\ \A c \in Conns : Sends(c)' = Sends(c)
  BY DEF ReceiptTimesOut, userVars, Unsent, Sends
<1>1. Shape'
  <2>1. receipt' \in [Msgs -> Outcome \cup {None}]
    BY <1>p, <1>q, <1>r DEF Shape
  <2>2. poisoned' \subseteq 1..conn
    BY <1>p, <1>t
  <2> QED BY <1>p, <1>s, <2>1, <2>2 DEF Shape
<1>2. TypeOK'
  <2>1. \A q \in pending' : q.msg # p.msg /\ q \in pending
    BY <1>p DEF TypeOK
  <2>2. \A q \in pending' : receipt'[q.msg] = None /\ q.conn <= conn
    BY <1>p, <1>q, <2>1 DEF TypeOK, Shape
  <2>3. poisoned' \subseteq 1..conn
    BY <1>p, <1>t
  <2> QED BY <1>s, <2>1, <2>2, <2>3 DEF TypeOK
<1>3. LogInOrder'
  BY DEF ReceiptTimesOut, LogInOrder
<1>4. UnsentNowhere'
  <2>1. \A m \in Msgs : Unsent(m) => receipt'[m] = None
    BY <1>p, <1>q DEF UnsentNowhere, Shape
  <2> QED BY <1>p, <1>s, <2>1 DEF UnsentNowhere
<1>5. FreshIsEmpty'
  BY DEF ReceiptTimesOut, FreshIsEmpty, userVars
<1>6. WiresInOrder'
  BY DEF ReceiptTimesOut, WiresInOrder, Shape, Sends, Unsent, userVars
<1>7. SeqsName'
  BY <1>p, <1>s DEF SeqsName
<1>8. AcksPoint'
  BY DEF ReceiptTimesOut, AcksPoint
<1> QED BY <1>1, <1>2, <1>3, <1>4, <1>5, <1>6, <1>7, <1>8

LEMMA ReceiptCanceledInv ==
    ASSUME Inv, ReceiptCanceled
    PROVE  Inv'
<1> USE SingleAssumption DEF Inv, Routed, Msgs, Conns
<1>p. PICK p \in pending :
         /\ receipt' = [receipt EXCEPT ![p.msg] = Failed("error")]
         /\ pending' = pending \ {p} /\ poisoned' = poisoned /\ acks' = acks
  BY DEF ReceiptCanceled
<1>q. /\ p.msg \in Msgs /\ p.conn \in Conns /\ p.conn <= conn /\ ~Unsent(p.msg)
  BY DEF Shape, TypeOK, UnsentNowhere
<1>t. poisoned \subseteq 1..conn /\ p.conn \in 1..conn
  BY <1>q DEF Shape
<1>r. Failed("error") \in Outcome
  BY ReceiptValues DEF Shape
<1>s. /\ user' = user /\ sent' = sent /\ closes' = closes /\ conn' = conn /\ seq' = seq
      /\ link' = link /\ wire' = wire /\ home' = home /\ log' = log
      /\ \A m : Unsent(m)' = Unsent(m)
      /\ \A c \in Conns : Sends(c)' = Sends(c)
  BY DEF ReceiptCanceled, userVars, Unsent, Sends
<1>1. Shape'
  <2>1. receipt' \in [Msgs -> Outcome \cup {None}]
    BY <1>p, <1>q, <1>r DEF Shape
  <2>2. poisoned' \subseteq 1..conn
    BY <1>p, <1>t
  <2> QED BY <1>p, <1>s, <2>1, <2>2 DEF Shape
<1>2. TypeOK'
  <2>1. \A q \in pending' : q.msg # p.msg /\ q \in pending
    BY <1>p DEF TypeOK
  <2>2. \A q \in pending' : receipt'[q.msg] = None /\ q.conn <= conn
    BY <1>p, <1>q, <2>1 DEF TypeOK, Shape
  <2>3. poisoned' \subseteq 1..conn
    BY <1>p, <1>t
  <2> QED BY <1>s, <2>1, <2>2, <2>3 DEF TypeOK
<1>3. LogInOrder'
  BY DEF ReceiptCanceled, LogInOrder
<1>4. UnsentNowhere'
  <2>1. \A m \in Msgs : Unsent(m) => receipt'[m] = None
    BY <1>p, <1>q DEF UnsentNowhere, Shape
  <2> QED BY <1>p, <1>s, <2>1 DEF UnsentNowhere
<1>5. FreshIsEmpty'
  BY DEF ReceiptCanceled, FreshIsEmpty, userVars
<1>6. WiresInOrder'
  BY DEF ReceiptCanceled, WiresInOrder, Shape, Sends, Unsent, userVars
<1>7. SeqsName'
  BY <1>p, <1>s DEF SeqsName
<1>8. AcksPoint'
  BY DEF ReceiptCanceled, AcksPoint
<1> QED BY <1>1, <1>2, <1>3, <1>4, <1>5, <1>6, <1>7, <1>8

LEMMA BreakInv ==
    ASSUME Inv, Break
    PROVE  Inv'
<1> USE SingleAssumption DEF Inv, Routed, Msgs, Conns
<1>1. Shape'
  <2>1. link' \in [Conns -> {"unused", "up", "broken"}]
    BY DEF Break, Shape
  <2>2. poisoned' \subseteq 1..conn
    <3>1. PICK c \in Conns : link[c] = "up" /\ poisoned' \in {poisoned, poisoned \cup {c}}
      BY DEF Break
    <3>2. c \in 1..conn
      BY <3>1 DEF TypeOK, Shape
    <3> QED BY <3>1, <3>2 DEF Shape
  <2> QED BY <2>1, <2>2 DEF Break, Shape, userVars
<1>2. TypeOK'
  BY DEF Break, TypeOK, userVars
<1>3. LogInOrder'
  BY DEF Break, LogInOrder
<1>4. UnsentNowhere'
  BY DEF Break, UnsentNowhere, Shape, Sends, Unsent, userVars
<1>5. FreshIsEmpty'
  BY DEF Break, FreshIsEmpty, userVars
<1>6. WiresInOrder'
  BY DEF Break, WiresInOrder, Shape, Sends, Unsent, userVars
<1>7. SeqsName'
  BY DEF Break, SeqsName, Shape, Sends, Unsent, userVars
<1>8. AcksPoint'
  BY DEF Break, AcksPoint
<1> QED BY <1>1, <1>2, <1>3, <1>4, <1>5, <1>6, <1>7, <1>8

LEMMA BrokerReadsInv ==
    ASSUME Inv, NEW c \in Conns, BrokerReads(c)
    PROVE  Inv'
<1> USE SingleAssumption DEF Inv, Routed, Msgs, Conns
<1>a. /\ wire' \in [Conns -> Seq(Cmd)]
      /\ \A d \in Conns : d # c => wire'[d] = wire[d]
      /\ Head(wire[c]) \in Cmd /\ Head(wire[c]) = wire[c][1]
      /\ Head(wire[c]).type = "send" => 1 \in Sends(c)
      /\ \A d \in Conns : d # c => Sends(d)' = Sends(d)
      /\ \A i \in Sends(c)' : /\ i \in Nat \ {0} /\ i + 1 \in Sends(c)
                              /\ wire'[c][i] = wire[c][i + 1]
  BY WireReads DEF BrokerReads
<1>b. /\ user' = user /\ sent' = sent /\ closes' = closes /\ conn' = conn /\ seq' = seq
      /\ link' = link /\ poisoned' = poisoned /\ pending' = pending /\ receipt' = receipt
      /\ \A m : Unsent(m)' = Unsent(m)
  BY DEF BrokerReads, userVars, Unsent
<1> DEFINE cmd == Head(wire[c])
           entry == [msg |-> cmd.msg, seq |-> cmd.seq]
           Written == cmd.type = "send" /\ home = c
<1>c. CASE ~Written
  <2>1. log' = log /\ acks' = acks /\ home' \in {home, None}
    BY <1>c DEF BrokerReads
  <2>2. \A d \in Conns : \A i \in Sends(d)' : \E j \in Sends(d) : wire'[d][i] = wire[d][j]
    BY <1>a
  <2>3. Shape'
    BY <1>a, <1>b, <2>1 DEF Shape
  <2>4. TypeOK'
    BY <1>b, <2>1 DEF TypeOK
  <2>5. LogInOrder'
    BY <2>1 DEF LogInOrder
  <2>6. UnsentNowhere'
    BY <1>b, <2>1, <2>2 DEF UnsentNowhere
  <2>7. FreshIsEmpty'
    BY <1>a, <1>b DEF FreshIsEmpty, BrokerReads, Shape
  <2>8. WiresInOrder'
    <3>1. ASSUME NEW d \in Conns, NEW i \in Sends(d)', NEW j \in Sends(d)', i < j
          PROVE  wire'[d][i].msg < wire'[d][j].msg
      <4>1. CASE d # c
        BY <1>a, <3>1, <4>1 DEF WiresInOrder
      <4>2. CASE d = c
        BY <1>a, <3>1, <4>2 DEF WiresInOrder
      <4> QED BY <4>1, <4>2
    <3>2. ASSUME home' # None, NEW e \in DOMAIN log, NEW i \in Sends(home)'
          PROVE  log[e].msg < wire'[home'][i].msg
      <4>1. home' = home /\ home \in Conns
        BY <2>1, <3>2, HomeIsConn
      <4> QED BY <2>2, <3>2, <4>1 DEF WiresInOrder
    <3> QED BY <2>1, <3>1, <3>2 DEF WiresInOrder
  <2>9. SeqsName'
    BY <1>b, <2>1, <2>2 DEF SeqsName
  <2>10. AcksPoint'
    BY <2>1 DEF AcksPoint
  <2> QED BY <2>3, <2>4, <2>5, <2>6, <2>7, <2>8, <2>9, <2>10
<1>d. CASE Written
  <2>1. /\ log' = Append(log, entry) /\ home' = home /\ home = c
        /\ acks' = acks \cup {[conn |-> c, seq |-> cmd.seq, entry |-> Len(log) + 1]}
    BY <1>d DEF BrokerReads
  <2>2. /\ 1 \in Sends(c) /\ cmd = wire[c][1] /\ cmd.msg \in Msgs /\ ~Unsent(cmd.msg)
        /\ cmd.msg \in Nat /\ cmd.seq \in Nat /\ cmd.seq < seq
    <3>1. 1 \in Sends(c) /\ cmd = wire[c][1]
      BY <1>a, <1>d
    <3>2. /\ cmd.msg \in Nat /\ cmd.seq \in Nat /\ cmd.msg > 0
          /\ ~Unsent(cmd.msg) /\ cmd.seq < seq
      BY <3>1, SendsTyped DEF UnsentNowhere, SeqsName
    <3>3. cmd.msg \in Msgs
      BY <3>2 DEF Unsent, Shape
    <3> QED BY <3>1, <3>2, <3>3
  <2>3. entry \in Entry
    BY <2>2 DEF Entry
  <2>4. /\ log' \in Seq(Entry) /\ Len(log) \in Nat
        /\ DOMAIN log = 1..Len(log) /\ DOMAIN log' = 1..(Len(log) + 1)
        /\ \A e \in DOMAIN log : log'[e] = log[e]
        /\ log'[Len(log) + 1] = entry
    BY <2>1, <2>3, AppendProperties DEF Shape
  <2>5. \A e \in DOMAIN log' : e \in DOMAIN log \/ e = Len(log) + 1
    BY <2>4
  <2>6. \A e \in DOMAIN log : log[e].msg < cmd.msg
    BY <2>1, <2>2 DEF WiresInOrder, Shape
  <2>7. Shape'
    <3>1. acks' \subseteq [conn : Conns, seq : Nat, entry : Nat]
      <4>1. [conn |-> c, seq |-> cmd.seq, entry |-> Len(log) + 1]
               \in [conn : Conns, seq : Nat, entry : Nat]
        BY <2>2, <2>4
      <4> QED BY <2>1, <4>1 DEF Shape
    <3> QED BY <1>a, <1>b, <2>1, <2>4, <3>1 DEF Shape
  <2>8. TypeOK'
    BY <1>b, <2>1 DEF TypeOK
  <2>9. LogInOrder'
    <3> SUFFICES ASSUME NEW i \in DOMAIN log', NEW j \in DOMAIN log', i < j
                 PROVE  log'[i].msg < log'[j].msg
      BY DEF LogInOrder
    <3>1. i \in DOMAIN log
      BY <2>4, <2>5
    <3>2. CASE j \in DOMAIN log
      BY <2>4, <3>1, <3>2 DEF LogInOrder
    <3>3. CASE j = Len(log) + 1
      BY <2>4, <2>6, <3>1, <3>3
    <3> QED BY <2>5, <3>2, <3>3
  <2>10. UnsentNowhere'
    <3>1. \A d \in Conns : \A i \in Sends(d)' : \E j \in Sends(d) : wire'[d][i] = wire[d][j]
      BY <1>a
    <3>2. \A e \in DOMAIN log' : ~Unsent(log'[e].msg)
      BY <2>2, <2>4, <2>5 DEF UnsentNowhere
    <3> QED BY <1>b, <3>1, <3>2 DEF UnsentNowhere
  <2>11. FreshIsEmpty'
    BY <1>a, <1>b DEF FreshIsEmpty, BrokerReads, Shape
  <2>12. WiresInOrder'
    <3>1. ASSUME NEW d \in Conns, NEW i \in Sends(d)', NEW j \in Sends(d)', i < j
          PROVE  wire'[d][i].msg < wire'[d][j].msg
      <4>1. CASE d # c
        BY <1>a, <3>1, <4>1 DEF WiresInOrder
      <4>2. CASE d = c
        BY <1>a, <3>1, <4>2 DEF WiresInOrder
      <4> QED BY <4>1, <4>2
    <3>2. ASSUME NEW e \in DOMAIN log', NEW i \in Sends(c)'
          PROVE  log'[e].msg < wire'[c][i].msg
      <4>1. i + 1 \in Sends(c) /\ wire'[c][i] = wire[c][i + 1] /\ 1 < i + 1
        BY <1>a, <3>2
      <4>2. CASE e \in DOMAIN log
        BY <2>1, <2>4, <4>1, <4>2 DEF WiresInOrder
      <4>3. CASE e = Len(log) + 1
        BY <2>2, <2>4, <4>1, <4>3 DEF WiresInOrder
      <4> QED BY <2>5, <4>2, <4>3
    <3> QED BY <2>1, <3>1, <3>2 DEF WiresInOrder
  <2>13. SeqsName'
    <3>1. \A d \in Conns : \A i \in Sends(d)' : \E j \in Sends(d) : wire'[d][i] = wire[d][j]
      BY <1>a
    <3>2. \A e \in DOMAIN log' : log'[e].seq < seq
      BY <2>2, <2>4, <2>5 DEF SeqsName
    <3>3. \A p \in pending : \A e \in DOMAIN log' : p.seq = log'[e].seq => p.msg = log'[e].msg
      BY <2>2, <2>4, <2>5 DEF SeqsName
    <3> QED BY <1>b, <3>1, <3>2, <3>3 DEF SeqsName
  <2>14. AcksPoint'
    BY <2>1, <2>4 DEF AcksPoint
  <2> QED BY <2>7, <2>8, <2>9, <2>10, <2>11, <2>12, <2>13, <2>14
<1> QED BY <1>c, <1>d

LEMMA BrokerNoticesInv ==
    ASSUME Inv, NEW c \in Conns, BrokerNotices(c)
    PROVE  Inv'
<1> USE SingleAssumption DEF Inv, Routed, Msgs, Conns
<1>1. Shape'
  BY DEF BrokerNotices, Shape, userVars
<1>2. TypeOK'
  BY DEF BrokerNotices, TypeOK, userVars
<1>3. LogInOrder'
  BY DEF BrokerNotices, LogInOrder
<1>4. UnsentNowhere'
  BY DEF BrokerNotices, UnsentNowhere, Shape, Sends, Unsent, userVars
<1>5. FreshIsEmpty'
  BY DEF BrokerNotices, FreshIsEmpty, userVars
<1>6. WiresInOrder'
  BY DEF BrokerNotices, WiresInOrder, Shape, Sends, Unsent, userVars
<1>7. SeqsName'
  BY DEF BrokerNotices, SeqsName, Shape, Sends, Unsent, userVars
<1>8. AcksPoint'
  BY DEF BrokerNotices, AcksPoint
<1> QED BY <1>1, <1>2, <1>3, <1>4, <1>5, <1>6, <1>7, <1>8

-----------------------------------------------------------------------------
LEMMA NextInv == Inv /\ [Next]_vars => Inv'
<1> SUFFICES ASSUME Inv, [Next]_vars PROVE Inv'
  OBVIOUS
<1>1. CASE UNCHANGED vars
  BY <1>1 DEF vars, userVars, Inv, Routed, Shape, TypeOK, LogInOrder, UnsentNowhere,
     FreshIsEmpty, WiresInOrder, SeqsName, AcksPoint, Sends, Unsent
<1>2. CASE Next
  BY <1>2, SendInv, CloseInv, BreakInv, EnqueuedInv, RefusedInv, CloseOldInv, ConnectInv,
     CreatedInv, ReconnectFailsInv, ReceiptArrivesInv, ReceiptTimesOutInv,
     ReceiptCanceledInv, BrokerReadsInv, BrokerNoticesInv
     DEF Next, SendMessage, Receipt
<1> QED BY <1>1, <1>2

LEMMA InvAlways == Spec => []Inv
BY InitInv, NextInv, PTL DEF Spec

(* The state keeps its shape; at most one send waits for the receipt of a   *)
(* message, on a connection that was opened, and the message is unsettled.  *)
THEOREM TypeCorrect == Spec => []TypeOK
BY InvAlways, PTL DEF Inv

(* send_message never puts a message behind a later one, however many       *)
(* connections it takes and whatever each of them still carries.            *)
THEOREM LogAlwaysInOrder == Spec => []LogInOrder
BY InvAlways, PTL DEF Inv

-----------------------------------------------------------------------------
(* The promise of ProducerLog. *)

View == [e \in DOMAIN log |-> <<log[e].msg>>]

LEMMA ViewEntries ==
    ASSUME Shape
    PROVE  /\ View \in Seq(Seq(Nat)) /\ Len(View) = Len(log) /\ DOMAIN View = DOMAIN log
           /\ \A e \in DOMAIN log : /\ View[e] = <<log[e].msg>> /\ Len(View[e]) = 1
                                    /\ DOMAIN View[e] = {1} /\ View[e][1] = log[e].msg
<1>1. /\ Len(log) \in Nat /\ DOMAIN log = 1..Len(log)
      /\ \A e \in DOMAIN log : log[e].msg \in Nat
  BY LogTyped
<1>2. \A e \in DOMAIN log : /\ View[e] = <<log[e].msg>> /\ Len(View[e]) = 1
                            /\ DOMAIN View[e] = {1} /\ View[e][1] = log[e].msg
                            /\ View[e] \in Seq(Nat)
  BY <1>1 DEF View
<1>3. View \in [1..Len(log) -> Seq(Nat)]
  BY <1>1, <1>2 DEF View
<1> QED BY <1>1, <1>2, <1>3

\* One message fails.
LEMMA Rejects ==
    ASSUME Shape, NEW m \in Msgs, m <= sent, receipt[m] = None,
           receipt' = [receipt EXCEPT ![m] = Failed("error")],
           UNCHANGED <<sent, log>>
    PROVE  Promise!Reject
<1> USE SingleAssumption DEF Msgs
<1>1. m \in 1..sent' /\ m \in m..sent' /\ sent \in Nat
  BY DEF Shape
<1>2. m..m = {m}
  BY DEF Msgs
<1>3. receipt' = [k \in 1..MaxMsgs |->
                    IF k \in m..m
                    THEN [result |-> "error", entry |-> 0, index |-> 0, size |-> 0]
                    ELSE receipt[k]]
  BY <1>2 DEF Shape, Failed
<1>4. \A k \in m..m : receipt[k] = None
  BY <1>2
<1>5. UNCHANGED [e \in DOMAIN log |-> <<log[e].msg>>]
  OBVIOUS
<1>6. sent' \in {sent, sent + 1}
  OBVIOUS
<1>7. \E first \in 1..sent' : \E last \in first..sent' :
         /\ \A k \in first..last : receipt[k] = None
         /\ receipt' = [k \in 1..MaxMsgs |->
               IF k \in first..last
               THEN [result |-> "error", entry |-> 0, index |-> 0, size |-> 0]
               ELSE receipt[k]]
  BY <1>1, <1>3, <1>4
<1> QED BY <1>5, <1>6, <1>7 DEF Promise!Reject

\* One message learns its place.
LEMMA Acknowledges ==
    ASSUME Inv, ReceiptArrives
    PROVE  Promise!Acknowledge
<1> USE SingleAssumption DEF Msgs
<1>1. PICK a \in acks, p \in pending :
         /\ a.conn = p.conn /\ a.seq = p.seq
         /\ receipt' = [receipt EXCEPT ![p.msg] = Placed(a.entry)]
  BY DEF ReceiptArrives
<1>2. a.entry \in DOMAIN log /\ log[a.entry].msg = p.msg
  BY <1>1 DEF Inv, Routed, AcksPoint, SeqsName
<1>3. p.msg \in 1..MaxMsgs /\ receipt[p.msg] = None
  BY <1>1 DEF Inv, Shape, TypeOK
<1>4. /\ DOMAIN View = DOMAIN log /\ DOMAIN View[a.entry] = {1}
      /\ View[a.entry][1] = p.msg /\ Len(View[a.entry]) = 1
  BY <1>2, ViewEntries DEF Inv
<1>5. (CHOOSE i \in DOMAIN View[a.entry] : View[a.entry][i] = p.msg) = 1
  BY <1>4
<1>6. \A m : (\E i \in DOMAIN View[a.entry] : View[a.entry][i] = m) <=> m = p.msg
  BY <1>4
<1>7. receipt' = [m \in 1..MaxMsgs |->
                    IF \E i \in DOMAIN View[a.entry] : View[a.entry][i] = m
                    THEN [result |-> "ok", entry |-> a.entry, size |-> Len(View[a.entry]),
                          index |-> (CHOOSE i \in DOMAIN View[a.entry] :
                                        View[a.entry][i] = m) - 1]
                    ELSE receipt[m]]
  <2>1. receipt' \in [1..MaxMsgs -> Outcome \cup {None}] /\ receipt \in [1..MaxMsgs -> Outcome \cup {None}]
    BY ReceiptArrivesInv DEF Inv, Shape
  <2>2. Placed(a.entry) = [result |-> "ok", entry |-> a.entry, size |-> Len(View[a.entry]),
                           index |-> (CHOOSE i \in DOMAIN View[a.entry] :
                                        View[a.entry][i] = p.msg) - 1]
    BY <1>4, <1>5 DEF Placed
  <2>3. receipt' = [m \in 1..MaxMsgs |-> IF m = p.msg THEN Placed(a.entry) ELSE receipt[m]]
    BY <1>1, <1>3, <2>1
  <2> QED BY <1>6, <2>2, <2>3
<1>8. \A i \in DOMAIN View[a.entry] : receipt[View[a.entry][i]] = None
  BY <1>3, <1>4
<1>9. UNCHANGED <<sent, View>>
  BY DEF ReceiptArrives, userVars, View
<1> QED BY <1>2, <1>4, <1>7, <1>8, <1>9 DEF Promise!Acknowledge, View

\* The broker writes a message that is not in the topic yet.
LEMMA Writes ==
    ASSUME Inv, NEW c \in Conns, BrokerReads(c), home = c, Head(wire[c]).type = "send"
    PROVE  Promise!Write
<1> USE SingleAssumption DEF Msgs
<1> DEFINE m == Head(wire[c]).msg
           q == Head(wire[c]).seq
<1>1. /\ log' = Append(log, [msg |-> m, seq |-> q])
      /\ UNCHANGED <<sent, receipt>> /\ wire[c] # <<>>
  BY DEF BrokerReads, userVars
<1>2. Head(wire[c]) = wire[c][1] /\ 1 \in Sends(c)
  BY <1>1, WireReads DEF Inv, BrokerReads
<1>3. m \in Nat /\ q \in Nat /\ m > 0 /\ ~Unsent(m)
  BY <1>2, SendsTyped DEF Inv, Routed, UnsentNowhere
<1>4. m \in 1..sent /\ m \in m..sent /\ m \in Msgs
  <2>1. sent \in Nat /\ sent <= MaxMsgs /\ MaxMsgs \in Nat
    BY DEF Inv, Shape
  <2>2. m <= sent
    BY <1>3, <2>1 DEF Unsent
  <2> QED BY <1>3, <2>1, <2>2
<1>5. \A e \in DOMAIN log : log[e].msg \in Nat /\ log[e].msg < m
  <2>1. c # None
    BY DEF Conns
  <2> QED BY <1>2, <2>1, LogTyped DEF Inv, Routed, WiresInOrder
<1>6. m..m = {m} /\ m \notin Promise!Logged
  <2>1. \A e \in DOMAIN View : \A i \in DOMAIN View[e] : View[e][i] # m
    BY <1>3, <1>5, ViewEntries DEF Inv
  <2>2. m \notin Promise!Logged
    BY <2>1 DEF Promise!Logged, View
  <2> QED BY <1>3, <2>2
<1>7. [i \in 1..(m - m + 1) |-> m + i - 1] = <<m>>
  BY <1>3
<1>8. View' = Append(View, <<m>>)
  <2>1. /\ View \in Seq(Seq(Nat)) /\ <<m>> \in Seq(Nat) /\ Len(View) = Len(log)
        /\ Len(log) \in Nat /\ DOMAIN log = 1..Len(log)
    BY <1>3, ViewEntries, LogTyped DEF Inv
  <2>2. /\ Append(View, <<m>>) \in Seq(Seq(Nat))
        /\ DOMAIN Append(View, <<m>>) = 1..(Len(log) + 1)
        /\ \A e \in 1..Len(log) : Append(View, <<m>>)[e] = View[e]
        /\ Append(View, <<m>>)[Len(log) + 1] = <<m>>
    BY <2>1, AppendProperties
  <2>3. [msg |-> m, seq |-> q] \in Entry /\ log \in Seq(Entry)
    BY <1>3, <1>4 DEF Entry, Inv, Shape
  <2>4. /\ DOMAIN log' = 1..(Len(log) + 1)
        /\ \A e \in 1..Len(log) : log'[e] = log[e]
        /\ log'[Len(log) + 1] = [msg |-> m, seq |-> q]
    BY <1>1, <2>1, <2>3, AppendProperties
  <2>5. View' = [e \in 1..(Len(log) + 1) |-> <<log'[e].msg>>]
    BY <2>4 DEF View
  <2>6. \A e \in 1..(Len(log) + 1) : View'[e] = Append(View, <<m>>)[e]
    <3> SUFFICES ASSUME NEW e \in 1..(Len(log) + 1)
                 PROVE  View'[e] = Append(View, <<m>>)[e]
      OBVIOUS
    <3>1. CASE e = Len(log) + 1
      BY <2>2, <2>4, <2>5, <3>1
    <3>2. CASE e \in 1..Len(log)
      BY <2>1, <2>2, <2>4, <2>5, <3>2 DEF View
    <3>3. e = Len(log) + 1 \/ e \in 1..Len(log)
      BY <2>1
    <3> QED BY <3>1, <3>2, <3>3
  <2>7. Append(View, <<m>>) \in [1..(Len(log) + 1) -> Seq(Nat)]
    BY <2>1, AppendProperties
  <2> HIDE DEF m
  <2>8. /\ DOMAIN View' = 1..(Len(log) + 1)
        /\ View' = [e \in 1..(Len(log) + 1) |-> View'[e]]
    BY <2>5
  <2>9. Append(View, <<m>>) = [e \in 1..(Len(log) + 1) |-> Append(View, <<m>>)[e]]
    BY <2>7
  <2> QED BY <2>6, <2>8, <2>9, SameFunction
<1>9. m..m \cap Promise!Logged = {}
  BY <1>6
<1>10. [e \in DOMAIN log |-> <<log[e].msg>>]'
         = Append([e \in DOMAIN log |-> <<log[e].msg>>], [i \in 1..(m - m + 1) |-> m + i - 1])
  BY <1>7, <1>8 DEF View
<1>11. UNCHANGED <<sent, receipt>>
  BY <1>1
<1> HIDE DEF m
<1> QED BY <1>4, <1>9, <1>10, <1>11 DEF Promise!Write

LEMMA InitImplements == Init => Promise!Init
BY SingleAssumption DEF Init, Promise!Init, Msgs

LEMMA NextImplements == Inv /\ [Next]_vars => [Promise!Next]_(Promise!vars)
<1> SUFFICES ASSUME Inv, [Next]_vars PROVE [Promise!Next]_(Promise!vars)
  OBVIOUS
<1>1. CASE Send
  BY <1>1 DEF Send, Promise!Next, Promise!Accept
<1>2. CASE Enqueued \/ CloseOld \/ Connect \/ Created \/ Close \/ Break \/ UNCHANGED vars
  BY <1>2 DEF Enqueued, CloseOld, Connect, Created, Close, Break, vars, userVars, Promise!vars
<1>3. CASE Refused \/ ReconnectFails
  <2>1. sent \in Msgs /\ receipt[sent] = None /\ sent \in Nat
    BY <1>3, SingleAssumption
       DEF Refused, ReconnectFails, Inv, Routed, UnsentNowhere, Unsent, Shape, Msgs
  <2>2. receipt' = [receipt EXCEPT ![sent] = Failed("error")] /\ UNCHANGED <<sent, log>>
    BY <1>3 DEF Refused, ReconnectFails
  <2>3. Shape /\ sent <= sent
    BY <2>1 DEF Inv
  <2>4. Promise!Reject
    BY <2>1, <2>2, <2>3, Rejects
  <2> QED BY <2>4 DEF Promise!Next
<1>4. CASE ReceiptTimesOut \/ ReceiptCanceled
  <2>1. PICK p \in pending : receipt' = [receipt EXCEPT ![p.msg] = Failed("error")]
    BY <1>4 DEF ReceiptTimesOut, ReceiptCanceled
  <2>2. p.msg \in Msgs /\ receipt[p.msg] = None /\ ~Unsent(p.msg)
    BY <2>1 DEF Inv, Routed, Shape, TypeOK, UnsentNowhere
  <2>3. p.msg <= sent
    BY <2>2, SingleAssumption DEF Unsent, Inv, Shape, Msgs
  <2>4. UNCHANGED <<sent, log>>
    BY <1>4 DEF ReceiptTimesOut, ReceiptCanceled, userVars
  <2> QED BY <2>1, <2>2, <2>3, <2>4, Rejects DEF Inv, Promise!Next
<1>5. CASE ReceiptArrives
  BY <1>5, Acknowledges DEF Promise!Next
<1>6. ASSUME NEW c \in Conns, BrokerReads(c) PROVE [Promise!Next]_(Promise!vars)
  <2>1. CASE home = c /\ Head(wire[c]).type = "send"
    BY <1>6, <2>1, Writes DEF Promise!Next
  <2>2. CASE ~(home = c /\ Head(wire[c]).type = "send")
    BY <1>6, <2>2 DEF BrokerReads, userVars, Promise!vars
  <2> QED BY <2>1, <2>2
<1>7. ASSUME NEW c \in Conns, BrokerNotices(c) PROVE [Promise!Next]_(Promise!vars)
  BY <1>7 DEF BrokerNotices, userVars, Promise!vars
<1> QED BY <1>1, <1>2, <1>3, <1>4, <1>5, <1>6, <1>7 DEF Next, SendMessage, Receipt

(* send_raw and send_message keep the promise of ProducerLog: however often *)
(* the producer reconnects, a message is written at most once, is settled   *)
(* at most once, and its receipt names the entry that holds it.             *)
THEOREM PromiseKept == Spec => Implements
<1>1. Inv /\ [Next]_vars => [Promise!Next]_(Promise!vars)
  BY NextImplements
<1> QED BY <1>1, InitImplements, InvAlways, PTL DEF Spec, Implements, Promise!Spec

-----------------------------------------------------------------------------
(* What a send ends in: the safety behind EverySendSettles, and what a      *)
(* receipt is worth.                                                        *)

(* No message is lost sight of: it is settled, the user is still in its     *)
(* send, or the task that awaits its receipt is there.                      *)
NobodyForgotten ==
    \A m \in 1..sent : \/ receipt[m] # None
                       \/ m = sent /\ user # "ready"
                       \/ \E p \in pending : p.msg = m

(* A receipt names an entry that the topic has and that holds the message,  *)
(* and no other entry does.                                                 *)
ReceiptsTrue ==
    \A m \in Msgs : receipt[m] # None /\ receipt[m].result = "ok" =>
        /\ receipt[m].entry \in DOMAIN log
        /\ \A e \in DOMAIN log : log[e].msg = m <=> e = receipt[m].entry

(* What a SendFuture resolved to, and what was written, stays.              *)
Final ==
    /\ \A m \in Msgs : receipt[m] # None => receipt'[m] = receipt[m]
    /\ \A e \in DOMAIN log : e \in DOMAIN log' /\ log'[e] = log[e]

\* What the tasks of the sends, and send_message when it gives up, settle.
LEMMA SettleOne ==
    ASSUME Inv, Refused \/ ReconnectFails \/ Receipt
    PROVE  \E m \in 1..sent, r \in Outcome :
              /\ m \in Msgs /\ receipt[m] = None
              /\ receipt' = [receipt EXCEPT ![m] = r]
              /\ \/ pending' = pending /\ m = sent
                 \/ \E p \in pending : p.msg = m /\ pending' = pending \ {p}
              /\ r.result = "ok" => r.entry \in DOMAIN log /\ log[r.entry].msg = m
              /\ UNCHANGED <<sent, log>>
<1> USE SingleAssumption DEF Msgs
<1>1. CASE Refused \/ ReconnectFails
  <2>1. sent \in 1..sent /\ sent \in Msgs /\ receipt[sent] = None
    BY <1>1 DEF Refused, ReconnectFails, Inv, Routed, UnsentNowhere, Unsent, Shape
  <2>2. Failed("error") \in Outcome /\ Failed("error").result # "ok"
    BY ReceiptValues DEF Failed
  <2> QED BY <1>1, <2>1, <2>2 DEF Refused, ReconnectFails
<1>2. CASE Receipt
  <2>1. PICK p \in pending, r \in Outcome :
          /\ receipt' = [receipt EXCEPT ![p.msg] = r]
          /\ pending' = pending \ {p}
          /\ r.result = "ok" => r.entry \in DOMAIN log /\ log[r.entry].msg = p.msg
    <3>1. CASE ReceiptArrives
      <4>1. PICK a \in acks, p \in pending :
              /\ a.conn = p.conn /\ a.seq = p.seq
              /\ receipt' = [receipt EXCEPT ![p.msg] = Placed(a.entry)]
              /\ pending' = pending \ {p}
        BY <3>1 DEF ReceiptArrives
      <4>2. a.entry \in DOMAIN log /\ log[a.entry].msg = p.msg /\ a.entry \in Nat
        <5>1. a.entry \in DOMAIN log /\ log[a.entry].msg = p.msg
          BY <4>1 DEF Inv, Routed, AcksPoint, SeqsName
        <5>2. a.entry \in Nat
          BY DEF Inv, Shape
        <5> QED BY <5>1, <5>2
      <4>3. Placed(a.entry) \in Outcome /\ Placed(a.entry).entry = a.entry
        BY <4>2, ReceiptValues DEF Placed
      <4> QED BY <4>1, <4>2, <4>3
    <3>2. CASE ReceiptTimesOut \/ ReceiptCanceled
      <4>1. PICK p \in pending : /\ receipt' = [receipt EXCEPT ![p.msg] = Failed("error")]
                                 /\ pending' = pending \ {p}
        BY <3>2 DEF ReceiptTimesOut, ReceiptCanceled
      <4>2. Failed("error") \in Outcome /\ Failed("error").result # "ok"
        BY ReceiptValues DEF Failed
      <4> QED BY <4>1, <4>2
    <3> QED BY <1>2, <3>1, <3>2 DEF Receipt
  <2>2. p.msg \in Msgs /\ receipt[p.msg] = None /\ ~Unsent(p.msg) /\ sent \in Nat
    BY DEF Inv, Routed, Shape, TypeOK, UnsentNowhere
  <2>3. p.msg \in 1..sent
    BY <2>2 DEF Unsent
  <2>4. UNCHANGED <<sent, log>>
    BY <1>2 DEF Receipt, ReceiptArrives, ReceiptTimesOut, ReceiptCanceled, userVars
  <2> QED BY <2>1, <2>2, <2>3, <2>4
<1> QED BY <1>1, <1>2

LEMMA NobodyForgottenNext == Inv /\ NobodyForgotten /\ [Next]_vars => NobodyForgotten'
<1> SUFFICES ASSUME Inv, NobodyForgotten, [Next]_vars PROVE NobodyForgotten'
  OBVIOUS
<1>1. CASE Send
  BY <1>1 DEF Send, NobodyForgotten, Inv, Shape
<1>2. CASE Enqueued
  <2>1. [msg |-> sent, conn |-> conn, seq |-> seq] \in pending' /\ pending \subseteq pending'
    BY <1>2 DEF Enqueued
  <2> QED BY <1>2, <2>1 DEF Enqueued, NobodyForgotten
<1>3. CASE \/ CloseOld \/ Connect \/ Created \/ Close \/ Break \/ UNCHANGED vars
           \/ \E c \in Conns : BrokerReads(c) \/ BrokerNotices(c)
  BY <1>3 DEF CloseOld, Connect, Created, Close, Break, BrokerReads, BrokerNotices, vars,
              userVars, NobodyForgotten
<1>4. CASE Refused \/ ReconnectFails \/ Receipt
  <2>1. PICK m \in 1..sent, r \in Outcome :
              /\ m \in Msgs /\ receipt[m] = None
              /\ receipt' = [receipt EXCEPT ![m] = r]
              /\ \/ pending' = pending /\ m = sent
                 \/ \E p \in pending : p.msg = m /\ pending' = pending \ {p}
              /\ UNCHANGED <<sent, log>>
    BY <1>4, SettleOne
  <2>2. /\ receipt'[m] = r /\ r # None
        /\ \A k \in 1..sent : k # m => receipt'[k] = receipt[k]
    BY <2>1, OutcomeAssumption DEF Inv, Shape
  <2>3. CASE pending' = pending /\ m = sent
    BY <2>1, <2>2, <2>3 DEF NobodyForgotten
  <2>4. CASE \E p \in pending : p.msg = m /\ pending' = pending \ {p}
    <3>1. user' = user
      BY <1>4, <2>1, <2>4 DEF Refused, ReconnectFails, Receipt, ReceiptArrives, ReceiptTimesOut,
                  ReceiptCanceled, userVars
    <3> QED BY <2>1, <2>2, <2>4, <3>1 DEF NobodyForgotten
  <2> QED BY <2>1, <2>3, <2>4
<1> QED BY <1>1, <1>2, <1>3, <1>4 DEF Next, SendMessage

LEMMA InitForgotten == Init => NobodyForgotten
BY DEF Init, NobodyForgotten

(* However a send ends, somebody ends it: a message whose SendFuture is     *)
(* unresolved is in send_message or has a task that awaits its receipt.     *)
THEOREM NobodyIsForgotten == Spec => []NobodyForgotten
BY InitForgotten, NobodyForgottenNext, InvAlways, PTL DEF Spec

\* The steps that settle and write change nothing that is settled or written.
LEMMA FinalNext == Inv /\ [Next]_vars => Final
<1> SUFFICES ASSUME Inv, [Next]_vars PROVE Final
  OBVIOUS
<1>1. CASE Refused \/ ReconnectFails \/ Receipt
  <2>1. PICK m \in 1..sent, r \in Outcome :
              /\ m \in Msgs /\ receipt[m] = None
              /\ receipt' = [receipt EXCEPT ![m] = r] /\ log' = log
    BY <1>1, SettleOne
  <2> QED BY <2>1 DEF Final, Inv, Shape
<1>2. CASE \E c \in Conns : BrokerReads(c)
  <2>1. PICK c \in Conns : BrokerReads(c)
    BY <1>2
  <2>2. CASE home = c /\ Head(wire[c]).type = "send"
    <3>1. /\ log' = Append(log, [msg |-> Head(wire[c]).msg, seq |-> Head(wire[c]).seq])
          /\ receipt' = receipt
      BY <2>1, <2>2 DEF BrokerReads
    <3>2. log \in Seq(Entry)
      BY DEF Inv, Shape
    <3> QED BY <3>1, <3>2 DEF Final
  <2>3. CASE ~(home = c /\ Head(wire[c]).type = "send")
    BY <2>1, <2>3 DEF BrokerReads, Final
  <2> QED BY <2>2, <2>3
<1>3. CASE \/ Send \/ Enqueued \/ CloseOld \/ Connect \/ Created \/ Close \/ Break
           \/ UNCHANGED vars \/ \E c \in Conns : BrokerNotices(c)
  BY <1>3 DEF Send, Enqueued, CloseOld, Connect, Created, Close, Break, BrokerNotices, vars, Final
<1> QED BY <1>1, <1>2, <1>3 DEF Next, SendMessage

(* A SendFuture resolves once and for good, and the topic only grows: no    *)
(* reconnection, late receipt or timeout settles a message again.           *)
THEOREM SettledForGood == Spec => [][Final]_vars
<1>1. Inv /\ [Next]_vars => [Final]_vars
  BY FinalNext
<1> QED BY <1>1, InvAlways, PTL DEF Spec

LEMMA ReceiptsTrueNext == Inv /\ ReceiptsTrue /\ [Next]_vars => ReceiptsTrue'
<1> SUFFICES ASSUME Inv, ReceiptsTrue, [Next]_vars PROVE ReceiptsTrue'
  OBVIOUS
<1>0. Inv' /\ Final /\ LogInOrder'
  BY NextInv, FinalNext DEF Inv
<1>1. ASSUME NEW m \in Msgs, receipt'[m] # None, receipt'[m].result = "ok"
      PROVE  receipt'[m].entry \in DOMAIN log' /\ log'[receipt'[m].entry].msg = m
  <2>1. CASE receipt'[m] = receipt[m]
    BY <1>0, <1>1, <2>1 DEF ReceiptsTrue, Final
  <2>2. CASE receipt'[m] # receipt[m]
    <3>1. Refused \/ ReconnectFails \/ Receipt
      BY <2>2 DEF Next, SendMessage, Send, Enqueued, CloseOld, Connect, Created, Close, Break,
                  BrokerReads, BrokerNotices, vars
    <3>2. PICK k \in 1..sent, r \in Outcome :
              /\ k \in Msgs /\ receipt' = [receipt EXCEPT ![k] = r] /\ log' = log
              /\ r.result = "ok" => r.entry \in DOMAIN log /\ log[r.entry].msg = k
      BY <3>1, SettleOne
    <3>3. k = m /\ receipt'[m] = r
      BY <2>2, <3>2 DEF Inv, Shape
    <3> QED BY <1>1, <3>2, <3>3
  <2> QED BY <2>1, <2>2
<1>2. \A e, f \in DOMAIN log' : log'[e].msg = log'[f].msg => e = f
  <2>1. /\ DOMAIN log' = 1..Len(log') /\ Len(log') \in Nat
        /\ \A e \in DOMAIN log' : log'[e].msg \in Nat
    <3>1. log' \in Seq(Entry)
      BY <1>0 DEF Inv, Shape
    <3>2. \A e \in DOMAIN log' : log'[e] \in Entry
      BY <3>1
    <3>3. Msgs \subseteq Nat
      BY SingleAssumption DEF Msgs
    <3>4. \A e \in DOMAIN log' : log'[e].msg \in Nat
      BY <3>2, <3>3 DEF Entry
    <3>5. DOMAIN log' = 1..Len(log') /\ Len(log') \in Nat
      BY <3>1
    <3> QED BY <3>4, <3>5
  <2>2. \A e, f \in DOMAIN log' : e < f => log'[e].msg < log'[f].msg
    BY <1>0 DEF LogInOrder
  <2> QED BY <2>1, <2>2
<1> QED BY <1>1, <1>2 DEF ReceiptsTrue

LEMMA InitReceiptsTrue == Init => ReceiptsTrue
BY DEF Init, ReceiptsTrue

(* The receipt a SendFuture resolves to names the one entry of the topic    *)
(* that holds the message, then and in every later state.                   *)
THEOREM ReceiptsAlwaysTrue == Spec => []ReceiptsTrue
BY InitReceiptsTrue, ReceiptsTrueNext, InvAlways, PTL DEF Spec

===============================================================================
