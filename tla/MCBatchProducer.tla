-------------------------- MODULE MCBatchProducer --------------------------
(* An instance of BatchProducer for TLC: two messages reach batch_byte_size *)
(* before batch_size, the others only batch_size.                           *)
EXTENDS BatchProducer

FirstTwoBytes == [m \in Msgs |-> IF m <= 2 THEN 1 ELSE 0]
=============================================================================
