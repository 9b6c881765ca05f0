------------------------------- MODULE Queues -------------------------------
(***************************************************************************)
(* The queues of UUIDs that the session manager and the scheduler keep in  *)
(* a VecDeque or a Vec: insertion by priority, and removal of entries.     *)
(***************************************************************************)
EXTENDS Integers, Sequences, FiniteSets

\* Where u goes: before the first entry of strictly lower priority, else at
\* the end.
InsertPos(queue, priority, u) ==
    LET lower == {i \in 1 .. Len(queue) : priority[queue[i]] < priority[u]}
    IN  IF lower = {} THEN Len(queue) + 1
                      ELSE CHOOSE i \in lower : \A j \in lower : i <= j

InsertAt(queue, pos, u) ==
    SubSeq(queue, 1, pos - 1) \o <<u>> \o SubSeq(queue, pos, Len(queue))

InsertByPriority(queue, priority, u) ==
    InsertAt(queue, InsertPos(queue, priority, u), u)

Ascending(I) ==
    {f \in [1 .. Cardinality(I) -> I] : \A j, k \in DOMAIN f : j < k => f[j] < f[k]}

\* What is left (the set has one member) when all entries but those at the
\* places I are removed.
Retained(queue, I) ==
    {[k \in 1 .. Cardinality(I) |-> queue[f[k]]] : f \in Ascending(I)}
=============================================================================
