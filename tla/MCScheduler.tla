---------------------------- MODULE MCScheduler ----------------------------
(* A strict stream and two bulk streams. *)
EXTENDS DrrScheduler

CONSTANTS c1, b1, b2

MCPriority == [u \in Streams |-> IF u = c1 THEN 64 ELSE 0]

MCMaxBacklog == [u \in Streams |-> IF is_strict(u) THEN 1 ELSE 2]

MCLargeBacklog == [u \in Streams |-> 8]
=============================================================================
