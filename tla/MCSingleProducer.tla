-------------------------- MODULE MCSingleProducer --------------------------
(* Three messages over up to three connections.                             *)
EXTENDS SingleProducer
=============================================================================
