----------------------------- MODULE MCSession -----------------------------
(* Two requests of equal priority and one of a higher. *)
EXTENDS SessionManager

CONSTANTS u1, u2, u3, p1

MCPriority == [u \in Streams |-> IF u = u3 THEN 2 ELSE 1]
=============================================================================
