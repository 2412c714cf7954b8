--------------------------- MODULE MCMultiConsumer ---------------------------
(* A partition that is only named, one that the regex matches too, and a    *)
(* topic only the regex matches.                                            *)
EXTENDS MultiConsumer
=============================================================================
