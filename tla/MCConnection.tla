---------------------------- MODULE MCConnection ----------------------------
(* Instances of Connection for TLC: the calls of each run. *)
EXTENDS Connection, TLC

CONSTANTS create, send1, send2, subscribe, close, ping1, ping2, c1

KindOf ==
    [r \in Req |-> CASE r \in {send1, send2} -> "send"
                     [] r \in {ping1, ping2} -> "ping"
                     [] r = create -> "create"
                     [] r = subscribe -> "subscribe"
                     [] r = close -> "close"]

\* subscribe and close are about the consumer c1.
TargetOf == [r \in Req |-> IF r \in {subscribe, close} THEN c1 ELSE None]

CallSymmetry == Permutations({send1, send2}) \cup Permutations({ping1, ping2})
=============================================================================
