---------------------------- MODULE DrrScheduler ----------------------------
(***************************************************************************)
(* The deficit round robin scheduler that divides a tick's byte budget     *)
(* among the uplinks (quelay-domain/src/scheduler.rs).                     *)
(*                                                                         *)
(* register, deregister, set_backlog and set_quantum are one step each.    *)
(* schedule is one call in the code and a run of steps here, one per turn  *)
(* given to a stream: `phase` says which of its loops is running, and no   *)
(* other operation comes in between (the caller holds the lock).           *)
(***************************************************************************)
EXTENDS DrrContract, Queues

CONSTANTS
    Streams,          \* stream ids
    Priority,         \* priority of each
    STRICT_MIN,       \* from here on a stream is strict ("C2I"); 64 in the code
    STRICT_QUANTUM,   \* initial_quantum of a strict stream
    BULK_QUANTUM,     \* BULK_QUANTUM_BYTES
    DEFICIT_WRAP,     \* deficits and quanta are unsigned machine words: 2^32 in the code
    MaxBacklog,       \* bound: backlog reported for each stream
    MaxBudget,        \* bound: budget of one call
    MaxQueued,        \* bound: entries of the two queues together
    Quanta            \* quanta that set_quantum may install

ASSUME SchedulerAssumption ==
    /\ IsFiniteSet(Streams)
    /\ Priority \in [Streams -> Int] /\ STRICT_MIN \in Int
    /\ DEFICIT_WRAP \in Nat
    /\ STRICT_QUANTUM \in 1 .. DEFICIT_WRAP - 1 /\ BULK_QUANTUM \in 1 .. DEFICIT_WRAP - 1
    /\ MaxBacklog \in [Streams -> Nat] /\ MaxBudget \in Nat /\ MaxQueued \in Nat
    /\ Quanta \subseteq 0 .. DEFICIT_WRAP - 1

VARIABLES
    streams,       \* registered ids
    quantum, deficit, backlog,
    bulk_order,    \* round-robin order of the bulk streams
    c2i_queue,     \* strict streams, most urgent first
    phase,         \* "idle", or the loop of schedule that runs: "c2i", "bulk", "extra"
    total,         \* budget the call was given
    budget,        \* budget left
    turns,         \* turns taken in the loop (consecutive idle ones in "extra")
    allocs         \* bytes allocated to each stream by this call

entryVars == <<streams, quantum, deficit, backlog>>
orderVars == <<bulk_order, c2i_queue>>
callVars  == <<phase, total, budget, turns, allocs>>

vars == <<entryVars, orderVars, callVars>>

is_strict(u) == Priority[u] >= STRICT_MIN

TypeOK ==
    /\ streams \in SUBSET Streams
    /\ quantum \in [Streams -> 0 .. DEFICIT_WRAP - 1]
    /\ deficit \in [Streams -> 0 .. DEFICIT_WRAP - 1]
    /\ backlog \in [Streams -> Nat]
    /\ bulk_order \in Seq(Streams) /\ c2i_queue \in Seq(Streams)
    /\ phase \in {"idle", "c2i", "bulk", "extra"}
    /\ total \in Nat /\ budget \in Nat /\ turns \in Nat
    /\ allocs \in [Streams -> Nat]

-----------------------------------------------------------------------------
(* Registration *)

\* Every bulk stream in `order` gets the same quantum.
rebalance(q, order) ==
    [u \in Streams |-> IF u \in Range(order) THEN BULK_QUANTUM ELSE q[u]]

\* An id that is registered already gets a new entry and a second place in its
\* queue: a start that failed after it had registered is tried again.
register(u) ==
    /\ phase = "idle" /\ Len(bulk_order) + Len(c2i_queue) < MaxQueued
    /\ streams' = streams \union {u}
    /\ deficit' = [deficit EXCEPT ![u] = 0]
    /\ backlog' = [backlog EXCEPT ![u] = 0]
    /\ IF is_strict(u)
       THEN /\ c2i_queue' = InsertByPriority(c2i_queue, Priority, u)
            /\ quantum' = [quantum EXCEPT ![u] = STRICT_QUANTUM]
            /\ UNCHANGED bulk_order
       ELSE /\ bulk_order' = Append(bulk_order, u)
            /\ quantum' = rebalance(quantum, bulk_order')
            /\ UNCHANGED c2i_queue
    /\ UNCHANGED callVars

Without(queue, u) == Retained(queue, {i \in 1 .. Len(queue) : queue[i] # u})

\* Mutant: only the first entry of the id is removed.
UnqueueFirst(u) ==
    LET WithoutFirst(queue) ==
            Retained(queue, {i \in 1 .. Len(queue) : \/ queue[i] # u
                                                     \/ \E j \in 1 .. i - 1 : queue[j] = u})
    IN  IF is_strict(u)
        THEN c2i_queue' \in WithoutFirst(c2i_queue) /\ UNCHANGED bulk_order
        ELSE bulk_order' \in WithoutFirst(bulk_order) /\ UNCHANGED c2i_queue

\* retain: every entry of the id goes.
Unqueue(u) ==
    IF is_strict(u) THEN c2i_queue' \in Without(c2i_queue, u) /\ UNCHANGED bulk_order
                    ELSE bulk_order' \in Without(bulk_order, u) /\ UNCHANGED c2i_queue

deregister(u) ==
    /\ phase = "idle" /\ u \in streams
    /\ streams' = streams \ {u}
    /\ Unqueue(u)
    /\ quantum' = IF is_strict(u) THEN quantum ELSE rebalance(quantum, bulk_order')
    /\ UNCHANGED <<deficit, backlog, callVars>>

set_quantum(u, n) ==
    /\ phase = "idle" /\ u \in streams
    /\ quantum' = [quantum EXCEPT ![u] = n]
    /\ UNCHANGED <<streams, deficit, backlog, orderVars, callVars>>

set_backlog(u, n) ==
    /\ phase = "idle" /\ u \in streams
    /\ backlog' = [backlog EXCEPT ![u] = n]
    /\ UNCHANGED <<streams, quantum, deficit, orderVars, callVars>>

-----------------------------------------------------------------------------
(* schedule *)

Least(a, b) == IF a <= b THEN a ELSE b

schedule(b) ==
    /\ phase = "idle"
    /\ phase' = "c2i" /\ total' = b /\ budget' = b /\ turns' = 0
    /\ allocs' = [u \in Streams |-> 0]
    /\ UNCHANGED <<entryVars, orderVars>>

Allocate(u, send) ==
    /\ allocs' = [allocs EXCEPT ![u] = @ + send]
    /\ budget' = IF send <= budget THEN budget - send ELSE 0

\* One strict stream: up to its quantum, once per call.
C2iTurn ==
    /\ phase = "c2i" /\ turns < Len(c2i_queue) /\ budget > 0
    /\ LET u == c2i_queue[turns + 1]
       IN  Allocate(u, Least(Least(budget, backlog[u]), quantum[u]))
    /\ turns' = turns + 1
    /\ UNCHANGED <<entryVars, orderVars, phase, total>>

C2iEnd ==
    /\ phase = "c2i" /\ (turns = Len(c2i_queue) \/ budget = 0)
    /\ phase' = IF bulk_order = <<>> \/ budget = 0 THEN "idle" ELSE "bulk"
    /\ turns' = 0
    /\ UNCHANGED <<entryVars, orderVars, total, budget, allocs>>

\* Mutant: a stream whose turn used up the budget keeps its place.
RotateUnlessSpent ==
    bulk_order' = IF budget' = 0 THEN bulk_order ELSE Append(Tail(bulk_order), Head(bulk_order))

RotateLeft == bulk_order' = Append(Tail(bulk_order), Head(bulk_order))

\* The deficit of a stream when its turn begins.
Credit(u) == (deficit[u] + quantum[u]) % DEFICIT_WRAP

\* Mutant: the budget is not a limit.
TurnOverBudget(u) == Least(Credit(u), backlog[u])

\* What the bulk stream at the front may send in this turn. The backlog is that
\* of the start of the call: what earlier turns allocated is not deducted.
TurnBytes(u) ==
    Least(Least(budget, Credit(u)), backlog[u])

\* Mutant: the backlog is subtracted, not what is sent.
DeficitByBacklog(u, send) == Credit(u) - backlog[u]

DeficitAfter(u, send) ==
    IF send > 0 THEN Credit(u) - send ELSE 0

BulkServe ==
    LET u == Head(bulk_order)  send == TurnBytes(u) IN
    /\ deficit' = [deficit EXCEPT ![u] = DeficitAfter(u, send)]
    /\ Allocate(u, send)
    /\ RotateLeft
    /\ UNCHANGED <<streams, quantum, backlog, c2i_queue, phase, total>>

\* Phase 1: one turn for each bulk stream, while the budget lasts.
BulkTurn ==
    /\ phase = "bulk" /\ turns < Len(bulk_order) /\ budget > 0
    /\ BulkServe
    /\ turns' = turns + 1

BulkEnd ==
    /\ phase = "bulk" /\ (turns = Len(bulk_order) \/ budget = 0)
    /\ phase' = "extra" /\ turns' = 0
    /\ UNCHANGED <<entryVars, orderVars, total, budget, allocs>>

\* Mutant: one idle stream ends the loop.
ExtraOnce == budget > 0 /\ turns < 1

\* Phase 2 goes on until the budget is used up or all streams were idle in a row.
ExtraGoesOn == budget > 0 /\ turns < Len(bulk_order)

ExtraTurn ==
    /\ phase = "extra" /\ ExtraGoesOn
    /\ BulkServe
    /\ turns' = IF TurnBytes(Head(bulk_order)) > 0 THEN 0 ELSE turns + 1

ExtraEnd ==
    /\ phase = "extra" /\ ~ExtraGoesOn
    /\ phase' = "idle" /\ turns' = 0
    /\ UNCHANGED <<entryVars, orderVars, total, budget, allocs>>

-----------------------------------------------------------------------------
Init ==
    /\ streams = {}
    /\ quantum = [u \in Streams |-> 0] /\ deficit = [u \in Streams |-> 0]
    /\ backlog = [u \in Streams |-> 0]
    /\ bulk_order = <<>> /\ c2i_queue = <<>>
    /\ phase = "idle" /\ total = 0 /\ budget = 0 /\ turns = 0
    /\ allocs = [u \in Streams |-> 0]

ScheduleStep == C2iTurn \/ C2iEnd \/ BulkTurn \/ BulkEnd \/ ExtraTurn \/ ExtraEnd

Next ==
    \/ \E u \in Streams : register(u) \/ deregister(u)
    \/ \E u \in Streams : \E n \in 0 .. MaxBacklog[u] : set_backlog(u, n)
    \/ \E u \in Streams, n \in Quanta : set_quantum(u, n)
    \/ \E b \in 0 .. MaxBudget : schedule(b)
    \/ ScheduleStep

Spec == Init /\ [][Next]_vars

-----------------------------------------------------------------------------
(* Properties *)

\* schedule is about to return.
Returning ==
    \/ phase = "c2i" /\ (budget = 0 \/ (turns = Len(c2i_queue) /\ bulk_order = <<>>))
    \/ phase = "extra" /\ ~ExtraGoesOn

Bulk == Range(bulk_order)

\* The ids in the two queues are exactly the registered streams, in the queue of
\* their class, through every registration, also of an id a second time, and
\* every removal and rotation: schedule never meets StreamNotFound, no stream is
\* left out of the rotation, and the strict ones are in order.
QueuesMatch ==
    /\ Bulk = {u \in streams : ~is_strict(u)}
    /\ Range(c2i_queue) = {u \in streams : is_strict(u)}
    /\ \A i, j \in 1 .. Len(c2i_queue) :
          i < j => Priority[c2i_queue[i]] >= Priority[c2i_queue[j]]

\* The allocations of a call sum to at most its budget, and what is left is
\* accounted for.
BudgetRespected == MapThenSumSet(LAMBDA u : allocs[u], Streams) + budget = total

\* What the aggregate timer relies on (DrrContract): the call leaves budget
\* unused only when every bulk stream has been given its whole backlog, and gives
\* nothing to a stream without one. A quantum of 0 exempts a stream.
WorkConserving ==
    Returning => Divides(allocs, total, backlog, {u \in Bulk : quantum[u] # 0})

\* Fairness of one call: of two bulk streams that could both have used the
\* whole budget, none gets more than one turn's worth ahead of the other.
FairShare ==
    Returning => \A u, v \in Bulk :
        total <= backlog[u] /\ total <= backlog[v]
            => allocs[u] <= allocs[v] + 2 * BULK_QUANTUM

\* The timer goes on calling, with more than the entries of the strict queue may
\* take.
FairSpec ==
    /\ Spec /\ WF_vars(ScheduleStep)
    /\ SF_vars(\E b \in 0 .. MaxBudget :
                  b > STRICT_QUANTUM * Len(c2i_queue) /\ schedule(b))

\* A bulk stream that goes on having something to send, and a quantum, is
\* served, however little the strict queue leaves of the budgets, whatever the
\* others do and however often they are queued.
NoStarvation ==
    \A u \in {v \in Streams : ~is_strict(v)} :
        u \in Bulk /\ backlog[u] > 0 /\ quantum[u] > 0
            ~> allocs[u] > 0 \/ u \notin Bulk \/ backlog[u] = 0 \/ quantum[u] = 0

-----------------------------------------------------------------------------
(* Inductive invariant *)

\* Stream u has been given its backlog.
Served(u) == allocs[u] >= backlog[u]

\* The streams that had one of the last `turns` turns: they are at the back.
Recent == {bulk_order[i] : i \in Len(bulk_order) - turns + 1 .. Len(bulk_order)}

\* While budget is left, a turn has given the stream its backlog or used up its
\* deficit, so that its next turn begins with its whole quantum; an idle turn in
\* the last loop means that it has its backlog.
TurnsCount ==
    /\ phase = "c2i" => turns <= Len(c2i_queue) /\ \A u \in Bulk : allocs[u] = 0
    /\ phase \in {"bulk", "extra"} => turns <= Len(bulk_order)
    /\ phase = "bulk" /\ budget > 0 => \A u \in Recent : Served(u) \/ deficit[u] = 0
    /\ phase = "extra" /\ budget > 0 =>
          /\ \A u \in Bulk : Served(u) \/ deficit[u] = 0
          /\ \A u \in Recent : Served(u) \/ quantum[u] = 0
    /\ phase # "idle" => \A u \in Streams : backlog[u] = 0 => allocs[u] = 0

SchedulerInv == TypeOK /\ QueuesMatch /\ BudgetRespected /\ TurnsCount
=============================================================================
