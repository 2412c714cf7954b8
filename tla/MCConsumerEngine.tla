-------------------------- MODULE MCConsumerEngine --------------------------
(* Instances of ConsumerEngine for TLC: the entries of the topic. *)
EXTENDS ConsumerEngine

OnePair       == <<2>>
PairAndSingle == <<2, 1>>

Setup(delay, shared, asks) == [delay |-> delay, shared |-> shared, asks |-> asks]

\* A redelivery delay, another consumer on the connection, a call that asks for
\* it: one of them in a behaviour.
WithDelay == {Setup(TRUE, FALSE, FALSE)}
OneAtATime == {Setup(TRUE, FALSE, FALSE), Setup(FALSE, TRUE, FALSE), Setup(FALSE, FALSE, TRUE)}
=============================================================================
