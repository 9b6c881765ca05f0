--------------------------- MODULE SchedulerProofs ---------------------------
(***************************************************************************)
(* The deficit round robin scheduler, for every set of streams, every      *)
(* assignment of priorities, backlogs, quanta and budgets.                 *)
(***************************************************************************)
EXTENDS DrrScheduler, DataProofs

USE SMTT(30)

-----------------------------------------------------------------------------
(* The two queues *)

\* A bulk stream registers at the back.
LEMMA AppendKeeps ==
  ASSUME NEW S, NEW queue \in Seq(S), NEW u \in S
  PROVE  LET r == Append(queue, u) IN
         /\ r \in Seq(S)
         /\ Range(r) = Range(queue) \union {u}
<1> DEFINE r == Append(queue, u)  n == Len(queue)
<1>1. /\ r \in Seq(S) /\ n \in Nat /\ Len(r) = n + 1 /\ r[n + 1] = u
      /\ \A i \in 1 .. n : r[i] = queue[i]
  OBVIOUS
<1>2. Range(r) = {r[i] : i \in 1 .. Len(r)} /\ Range(queue) = {queue[i] : i \in 1 .. n}
  BY <1>1, RangeIs, Zenon
<1> HIDE DEF r, n
<1>3. 1 .. Len(r) = (1 .. n) \union {n + 1} BY <1>1
<1>4. Range(r) = Range(queue) \union {u}
  <2>1. ASSUME NEW x PROVE x \in Range(r) <=> x \in Range(queue) \/ x = u
    <3>1. x \in Range(r) <=> (\E i \in 1 .. n : x = r[i]) \/ x = r[n + 1] BY <1>2, <1>3, Zenon
    <3>2. x \in Range(queue) <=> \E i \in 1 .. n : x = queue[i] BY <1>2, Zenon
    <3> QED BY <1>1, <3>1, <3>2, Zenon
  <2> QED BY <2>1, Zenon
<1> QED BY <1>1, <1>4, Zenon DEF r

\* rotate_left(1): the head goes to the back.
LEMMA RotateKeeps ==
  ASSUME NEW S, NEW queue \in Seq(S), queue # <<>>
  PROVE  LET r == Append(Tail(queue), Head(queue)) IN
         /\ r \in Seq(S) /\ Len(r) = Len(queue)
         /\ \A i \in 1 .. Len(queue) - 1 : r[i] = queue[i + 1]
         /\ r[Len(queue)] = Head(queue)
         /\ Range(r) = Range(queue)
<1> DEFINE t == Tail(queue)  h == Head(queue)  r == Append(t, h)
<1>1. /\ t \in Seq(S) /\ h \in S /\ Len(t) = Len(queue) - 1
      /\ \A i \in 1 .. Len(queue) - 1 : t[i] = queue[i + 1]
  OBVIOUS
<1>2. Range(queue) = Range(t) \union {h} BY TailKeeps, Zenon
<1> HIDE DEF t, h
<1>3. r \in Seq(S) /\ Range(r) = Range(t) \union {h}
  <2>1. LET a == Append(t, h) IN a \in Seq(S) /\ Range(a) = Range(t) \union {h}
    <3>1. t \in Seq(S) /\ h \in S BY <1>1, Zenon
    <3> HIDE DEF r
    <3> QED BY <3>1, AppendKeeps
  <2> QED BY <2>1, Zenon
<1>4. /\ Len(r) = Len(queue) /\ r[Len(queue)] = h
      /\ \A i \in 1 .. Len(queue) - 1 : r[i] = t[i]
  BY <1>1
<1> HIDE DEF r
<1>5. \A i \in 1 .. Len(queue) - 1 : r[i] = queue[i + 1] BY <1>1, <1>4, Zenon
<1> QED BY <1>2, <1>3, <1>4, <1>5, Zenon DEF r, t, h

\* retain: the queue without one of its ids.
LEMMA WithoutIs ==
  ASSUME NEW S, NEW queue \in Seq(S), NEW u, NEW r \in Without(queue, u), NEW priority
  PROVE  /\ r \in Seq(S)
         /\ Range(r) = Range(queue) \ {u}
         /\ Sorted(queue, priority) => Sorted(r, priority)
<1> DEFINE I == {i \in 1 .. Len(queue) : queue[i] # u}
<1>1. I \in SUBSET (1 .. Len(queue)) /\ r \in Retained(queue, I) BY Zenon DEF Without
<1>2. Range(queue) = {queue[i] : i \in 1 .. Len(queue)} BY RangeIs, Zenon
<1>3. {queue[i] : i \in I} = Range(queue) \ {u} BY <1>2, Zenon
<1> HIDE DEF I
<1> QED BY <1>1, <1>3, RetainedKeeps, Zenon

\* QueuesMatch, with the order of the strict queue named.
QueueShape ==
    /\ Bulk = {u \in streams : ~is_strict(u)}
    /\ Range(c2i_queue) = {u \in streams : is_strict(u)}
    /\ Sorted(c2i_queue, Priority)

\* The two say the same of the scheduler's queues.
LEMMA ShapeIs == QueuesMatch <=> QueueShape
BY Zenon DEF QueueShape, QueuesMatch, Sorted

-----------------------------------------------------------------------------
(* One turn *)

\* What a turn gives to a stream comes out of the budget.
LEMMA AllocateIs ==
  ASSUME TypeOK, NEW u \in Streams, NEW send \in Nat, send <= budget, Allocate(u, send)
  PROVE  /\ allocs' \in [Streams -> Nat] /\ budget' \in Nat
         /\ budget' = budget - send /\ allocs'[u] = allocs[u] + send
         /\ \A v \in Streams : v # u => allocs'[v] = allocs[v]
         /\ SumOver(allocs', Streams) + budget' = SumOver(allocs, Streams) + budget
<1>1. allocs \in [Streams -> Nat] /\ budget \in Nat BY Zenon DEF TypeOK
<1>2. allocs' = [allocs EXCEPT ![u] = @ + send] /\ budget' = budget - send
  BY <1>1 DEF Allocate
<1>3. /\ SumOver(allocs, Streams) \in Nat
      /\ SumOver(allocs', Streams) = SumOver(allocs, Streams) + send
  <2>1. IsFiniteSet(Streams) BY SchedulerAssumption, Zenon
  <2>2. PICK e : e = allocs' BY Zenon
  <2>3. PICK f : f = allocs BY Zenon
  <2>4. f \in [Streams -> Nat] /\ e = [f EXCEPT ![u] = @ + send]
    BY <1>1, <1>2, <2>2, <2>3, Zenon
  <2>5. SumOver(f, Streams) \in Nat /\ SumOver(e, Streams) = SumOver(f, Streams) + send
    BY <2>1, <2>4, SumAdd, ZenonT(30)
  <2> QED BY <2>2, <2>3, <2>5, Zenon
<1>4. SumOver(allocs', Streams) + budget' = SumOver(allocs, Streams) + budget
  BY <1>1, <1>2, <1>3
<1>5. /\ allocs' \in [Streams -> Nat] /\ budget' \in Nat /\ allocs'[u] = allocs[u] + send
      /\ \A v \in Streams : v # u => allocs'[v] = allocs[v]
  BY <1>1, <1>2
<1> QED BY <1>2, <1>4, <1>5, Zenon

\* The turn of the bulk stream u at the front: what it sends is within the
\* budget, its credit and its backlog, and is one of the three.
LEMMA ServeIs ==
  ASSUME TypeOK, bulk_order # <<>>, BulkServe, NEW u, u = Head(bulk_order)
  PROVE  /\ u \in Streams /\ u \in Bulk /\ Credit(u) \in 0 .. DEFICIT_WRAP - 1
         /\ TurnBytes(u) \in Nat /\ TurnBytes(u) <= budget
         /\ TurnBytes(u) <= Credit(u) /\ TurnBytes(u) <= backlog[u]
         /\ TurnBytes(u) \in {budget, Credit(u), backlog[u]}
         /\ Allocate(u, TurnBytes(u))
         /\ deficit' = [deficit EXCEPT ![u] =
                          IF TurnBytes(u) > 0 THEN Credit(u) - TurnBytes(u) ELSE 0]
<1>1. bulk_order \in Seq(Streams) BY Zenon DEF TypeOK
<1>2. u \in Streams /\ u \in Bulk BY <1>1, TailKeeps, RangeIs, Zenon DEF Bulk
<1>3. Credit(u) \in 0 .. DEFICIT_WRAP - 1
  <2>1. deficit[u] \in Nat /\ quantum[u] \in Nat BY <1>2, SchedulerAssumption DEF TypeOK
  <2>2. DEFICIT_WRAP \in Nat \ {0} BY SchedulerAssumption
  <2>3. deficit[u] + quantum[u] \in Nat BY <2>1
  <2> QED BY <2>2, <2>3 DEF Credit
<1>4. budget \in Nat /\ backlog[u] \in Nat BY <1>2, Zenon DEF TypeOK
<1>5. /\ TurnBytes(u) \in Nat /\ TurnBytes(u) <= budget
      /\ TurnBytes(u) <= Credit(u) /\ TurnBytes(u) <= backlog[u]
      /\ TurnBytes(u) \in {budget, Credit(u), backlog[u]}
  BY <1>3, <1>4, SchedulerAssumption DEF TurnBytes, Least
<1>6. /\ Allocate(u, TurnBytes(u))
      /\ deficit' = [deficit EXCEPT ![u] = DeficitAfter(u, TurnBytes(u))]
  BY Zenon DEF BulkServe
<1> QED BY <1>2, <1>3, <1>5, <1>6, Zenon DEF DeficitAfter

\* The turn of a strict stream.
LEMMA C2iTurnIs ==
  ASSUME TypeOK, C2iTurn, NEW u, u = c2i_queue[turns + 1]
  PROVE  /\ u \in Range(c2i_queue) /\ u \in Streams
         /\ \E send \in Nat : send <= budget /\ send <= backlog[u] /\ Allocate(u, send)
<1>1. c2i_queue \in Seq(Streams) /\ turns \in Nat /\ turns < Len(c2i_queue)
  BY Zenon DEF TypeOK, C2iTurn
<1>2. turns + 1 \in 1 .. Len(c2i_queue) BY <1>1
<1>3. u \in Range(c2i_queue) /\ u \in Streams
  <2>1. /\ Range(c2i_queue) = {c2i_queue[i] : i \in 1 .. Len(c2i_queue)}
        /\ Range(c2i_queue) \subseteq Streams
    BY <1>1, RangeIs, Zenon
  <2> QED BY <1>2, <2>1, Zenon
<1> DEFINE send == Least(Least(budget, backlog[u]), quantum[u])
<1>4. budget \in Nat /\ backlog[u] \in Nat /\ quantum[u] \in Nat
  BY <1>3, SchedulerAssumption DEF TypeOK
<1>5. send \in Nat /\ send <= budget /\ send <= backlog[u] BY <1>4 DEF Least
<1>6. Allocate(u, send) BY Zenon DEF C2iTurn
<1> QED BY <1>3, <1>5, <1>6, Zenon

-----------------------------------------------------------------------------
(* Types and queues *)

\* A step of schedule leaves the queues and the types of the entries alone, but
\* for the order and the deficits of the bulk streams.
LEMMA TypeStep ==
  ASSUME TypeOK, [Next]_vars
  PROVE  TypeOK'
<1> USE DEF entryVars, orderVars, callVars
<1>1. ASSUME NEW u \in Streams, register(u) PROVE TypeOK'
  <2>1. streams' \in SUBSET Streams /\ UNCHANGED callVars BY <1>1, Zenon DEF register, TypeOK
  <2>2. /\ deficit' \in [Streams -> 0 .. DEFICIT_WRAP - 1] /\ backlog' \in [Streams -> Nat]
    BY <1>1, SchedulerAssumption DEF register, TypeOK
  <2>3. quantum' \in [Streams -> 0 .. DEFICIT_WRAP - 1]
    <3>1. BULK_QUANTUM \in 0 .. DEFICIT_WRAP - 1 /\ STRICT_QUANTUM \in 0 .. DEFICIT_WRAP - 1
      BY SchedulerAssumption
    <3>2. \/ quantum' = [quantum EXCEPT ![u] = STRICT_QUANTUM]
          \/ quantum' = rebalance(quantum, bulk_order')
      BY <1>1, Zenon DEF register
    <3> QED BY <3>1, <3>2, Zenon DEF rebalance, TypeOK
  <2>4. CASE is_strict(u)
    <3>1. c2i_queue' = InsertByPriority(c2i_queue, Priority, u) /\ UNCHANGED bulk_order
      BY <1>1, <2>4, Zenon DEF register
    <3>2. c2i_queue' \in Seq(Streams) BY <3>1, InsertKeeps, SchedulerAssumption, Zenon DEF TypeOK
    <3> QED BY <2>1, <2>2, <2>3, <3>1, <3>2, Zenon DEF TypeOK
  <2>5. CASE ~is_strict(u)
    <3>1. bulk_order' = Append(bulk_order, u) /\ UNCHANGED c2i_queue
      BY <1>1, <2>5, Zenon DEF register
    <3>2. bulk_order' \in Seq(Streams) BY <3>1, AppendKeeps, Zenon DEF TypeOK
    <3> QED BY <2>1, <2>2, <2>3, <3>1, <3>2, Zenon DEF TypeOK
  <2> QED BY <2>4, <2>5, Zenon
<1>2. ASSUME NEW u \in Streams, deregister(u) PROVE TypeOK'
  <2>1. streams' \in SUBSET Streams /\ UNCHANGED <<deficit, backlog, callVars>>
    BY <1>2, Zenon DEF deregister, TypeOK
  <2>2. quantum' \in [Streams -> 0 .. DEFICIT_WRAP - 1]
    <3>1. BULK_QUANTUM \in 0 .. DEFICIT_WRAP - 1 BY SchedulerAssumption
    <3>2. quantum' = quantum \/ quantum' = rebalance(quantum, bulk_order')
      BY <1>2, Zenon DEF deregister
    <3> QED BY <3>1, <3>2, Zenon DEF rebalance, TypeOK
  <2>3. bulk_order' \in Seq(Streams) /\ c2i_queue' \in Seq(Streams)
    BY <1>2, WithoutIs, Zenon DEF deregister, Unqueue, TypeOK
  <2> QED BY <2>1, <2>2, <2>3, Zenon DEF TypeOK
<1>3. ASSUME NEW u \in Streams, NEW n \in 0 .. MaxBacklog[u], set_backlog(u, n) PROVE TypeOK'
  <2>1. n \in Nat BY SchedulerAssumption
  <2>2. backlog' \in [Streams -> Nat] BY <1>3, <2>1 DEF set_backlog, TypeOK
  <2> QED BY <1>3, <2>2, Zenon DEF set_backlog, TypeOK
<1>4. ASSUME NEW u \in Streams, NEW n \in Quanta, set_quantum(u, n) PROVE TypeOK'
  <2>1. n \in 0 .. DEFICIT_WRAP - 1 BY SchedulerAssumption, Zenon
  <2>2. quantum' \in [Streams -> 0 .. DEFICIT_WRAP - 1] BY <1>4, <2>1, Zenon DEF set_quantum, TypeOK
  <2> QED BY <1>4, <2>2, Zenon DEF set_quantum, TypeOK
<1>5. ASSUME NEW b \in 0 .. MaxBudget, schedule(b) PROVE TypeOK'
  <2>1. b \in Nat /\ 0 \in Nat BY SchedulerAssumption
  <2> QED BY <1>5, <2>1, Zenon DEF schedule, TypeOK
<1>6. ASSUME C2iTurn PROVE TypeOK'
  <2>1. allocs' \in [Streams -> Nat] /\ budget' \in Nat BY <1>6, C2iTurnIs, AllocateIs, Zenon
  <2>2. turns' \in Nat BY <1>6 DEF C2iTurn, TypeOK
  <2> QED BY <1>6, <2>1, <2>2, Zenon DEF C2iTurn, TypeOK
<1>7. ASSUME C2iEnd \/ BulkEnd \/ ExtraEnd PROVE TypeOK'
  <2>1. phase' \in {"idle", "c2i", "bulk", "extra"} BY <1>7, Zenon DEF C2iEnd, BulkEnd, ExtraEnd
  <2>2. turns' \in Nat BY <1>7 DEF C2iEnd, BulkEnd, ExtraEnd
  <2> QED BY <1>7, <2>1, <2>2, Zenon DEF C2iEnd, BulkEnd, ExtraEnd, TypeOK
<1>8. ASSUME BulkServe, bulk_order # <<>>, turns' \in Nat PROVE TypeOK'
  <2> DEFINE u == Head(bulk_order)
  <2>1. allocs' \in [Streams -> Nat] /\ budget' \in Nat BY <1>8, ServeIs, AllocateIs, Zenon
  <2>2. deficit' \in [Streams -> 0 .. DEFICIT_WRAP - 1]
    <3>1. /\ u \in Streams /\ Credit(u) \in 0 .. DEFICIT_WRAP - 1
          /\ TurnBytes(u) \in Nat /\ TurnBytes(u) <= Credit(u)
          /\ deficit' = [deficit EXCEPT ![u] =
                           IF TurnBytes(u) > 0 THEN Credit(u) - TurnBytes(u) ELSE 0]
      BY <1>8, ServeIs, Zenon
    <3> HIDE DEF u
    <3>2. (IF TurnBytes(u) > 0 THEN Credit(u) - TurnBytes(u) ELSE 0) \in 0 .. DEFICIT_WRAP - 1
      BY <3>1, SchedulerAssumption
    <3> QED BY <3>1, <3>2, Zenon DEF TypeOK
  <2>3. bulk_order' \in Seq(Streams)
    <3>1. bulk_order' = Append(Tail(bulk_order), Head(bulk_order))
      BY <1>8, Zenon DEF BulkServe, RotateLeft
    <3> QED BY <1>8, <3>1, RotateKeeps, Zenon DEF TypeOK
  <2> QED BY <1>8, <2>1, <2>2, <2>3, Zenon DEF BulkServe, TypeOK
<1>9. ASSUME BulkTurn \/ ExtraTurn PROVE TypeOK'
  <2>1. turns \in Nat /\ turns < Len(bulk_order) /\ bulk_order \in Seq(Streams)
    BY <1>9, Zenon DEF BulkTurn, ExtraTurn, ExtraGoesOn, TypeOK
  <2>2. bulk_order # <<>> BY <2>1
  <2>3. turns' = turns + 1 \/ turns' = 0 BY <1>9, Zenon DEF BulkTurn, ExtraTurn
  <2>4. turns' \in Nat BY <2>1, <2>3
  <2> QED BY <1>8, <1>9, <2>2, <2>4, Zenon DEF BulkTurn, ExtraTurn
<1>10. ASSUME UNCHANGED vars PROVE TypeOK'
  BY <1>10, Zenon DEF vars, TypeOK
<1> QED BY <1>1, <1>2, <1>3, <1>4, <1>5, <1>6, <1>7, <1>9, <1>10, Zenon DEF Next, ScheduleStep

\* Registration and removal keep both queues exact; a turn only rotates.
LEMMA ShapeStep ==
  ASSUME TypeOK, QueueShape, [Next]_vars
  PROVE  QueueShape'
<1> USE DEF entryVars, orderVars, callVars
<1>0. bulk_order \in Seq(Streams) /\ c2i_queue \in Seq(Streams) BY Zenon DEF TypeOK
<1>1. ASSUME NEW u \in Streams, register(u) PROVE QueueShape'
  <2>1. streams' = streams \union {u} BY <1>1, Zenon DEF register
  <2>2. CASE is_strict(u)
    <3>1. c2i_queue' = InsertByPriority(c2i_queue, Priority, u) /\ UNCHANGED bulk_order
      BY <1>1, <2>2, Zenon DEF register
    <3>2. /\ Range(c2i_queue') = Range(c2i_queue) \union {u}
          /\ Sorted(c2i_queue, Priority) => Sorted(c2i_queue', Priority)
      <4>1. Priority \in [Streams -> Int] BY SchedulerAssumption, Zenon
      <4>2. LET r == InsertByPriority(c2i_queue, Priority, u) IN
            /\ Range(r) = Range(c2i_queue) \union {u}
            /\ Sorted(c2i_queue, Priority) => Sorted(r, Priority)
        BY <1>0, <4>1, InsertKeeps
      <4> QED BY <3>1, <4>2, Zenon
    <3> QED BY <2>1, <2>2, <3>1, <3>2, Zenon DEF QueueShape, Bulk, is_strict
  <2>3. CASE ~is_strict(u)
    <3>1. bulk_order' = Append(bulk_order, u) /\ UNCHANGED c2i_queue
      BY <1>1, <2>3, Zenon DEF register
    <3>2. Range(bulk_order') = Range(bulk_order) \union {u}
      <4>1. LET r == Append(bulk_order, u) IN Range(r) = Range(bulk_order) \union {u}
        BY <1>0, AppendKeeps
      <4> QED BY <3>1, <4>1, Zenon
    <3> QED BY <2>1, <2>3, <3>1, <3>2, Zenon DEF QueueShape, Bulk, is_strict
  <2> QED BY <2>2, <2>3, Zenon
<1>2. ASSUME NEW u \in Streams, deregister(u) PROVE QueueShape'
  <2>1. streams' = streams \ {u} /\ Unqueue(u) BY <1>2, Zenon DEF deregister
  <2>2. CASE is_strict(u)
    <3>1. c2i_queue' \in Without(c2i_queue, u) /\ UNCHANGED bulk_order
      BY <2>1, <2>2, Zenon DEF Unqueue
    <3>2. /\ Range(c2i_queue') = Range(c2i_queue) \ {u}
          /\ Sorted(c2i_queue, Priority) => Sorted(c2i_queue', Priority)
      BY <1>0, <3>1, WithoutIs, Zenon
    <3> QED BY <2>1, <2>2, <3>1, <3>2, Zenon DEF QueueShape, Bulk, is_strict
  <2>3. CASE ~is_strict(u)
    <3>1. bulk_order' \in Without(bulk_order, u) /\ UNCHANGED c2i_queue
      BY <2>1, <2>3, Zenon DEF Unqueue
    <3>2. Range(bulk_order') = Range(bulk_order) \ {u}
      BY <1>0, <3>1, WithoutIs, Zenon
    <3> QED BY <2>1, <2>3, <3>1, <3>2, Zenon DEF QueueShape, Bulk, is_strict
  <2> QED BY <2>2, <2>3, Zenon
<1>3. ASSUME BulkTurn \/ ExtraTurn PROVE QueueShape'
  <2>1. turns \in Nat /\ turns < Len(bulk_order)
    BY <1>3, Zenon DEF BulkTurn, ExtraTurn, ExtraGoesOn, TypeOK
  <2>2. bulk_order # <<>> BY <1>0, <2>1
  <2>3. /\ bulk_order' = Append(Tail(bulk_order), Head(bulk_order))
        /\ UNCHANGED <<streams, c2i_queue>>
    BY <1>3, Zenon DEF BulkTurn, ExtraTurn, BulkServe, RotateLeft
  <2>4. Range(bulk_order') = Range(bulk_order)
    BY <1>0, <2>2, <2>3, RotateKeeps, Zenon
  <2> QED BY <2>3, <2>4, Zenon DEF QueueShape, Bulk, is_strict
<1>4. ASSUME UNCHANGED <<streams, bulk_order, c2i_queue>> PROVE QueueShape'
  BY <1>4, Zenon DEF QueueShape, Bulk, is_strict, Sorted
<1>5. ASSUME \/ \E u \in Streams : \E n \in 0 .. MaxBacklog[u] : set_backlog(u, n)
             \/ \E u \in Streams, n \in Quanta : set_quantum(u, n)
             \/ \E b \in 0 .. MaxBudget : schedule(b)
             \/ C2iTurn \/ C2iEnd \/ BulkEnd \/ ExtraEnd \/ UNCHANGED vars
      PROVE  UNCHANGED <<streams, bulk_order, c2i_queue>>
  BY <1>5, Zenon
     DEF vars, set_backlog, set_quantum, schedule, C2iTurn, C2iEnd, BulkEnd, ExtraEnd
<1> QED BY <1>1, <1>2, <1>3, <1>4, <1>5, Zenon DEF Next, ScheduleStep

-----------------------------------------------------------------------------
(* What the turns of a call add up to *)

\* The allocations and what is left of the budget always add up to it.
LEMMA BudgetStep ==
  ASSUME TypeOK, BudgetRespected, [Next]_vars
  PROVE  BudgetRespected'
<1> USE DEF entryVars, orderVars, callVars
<1>0. BudgetRespected <=> SumOver(allocs, Streams) + budget = total
  BY Zenon DEF BudgetRespected, SumOver
<1>1. BudgetRespected' <=> SumOver(allocs', Streams) + budget' = total'
  BY Zenon DEF BudgetRespected, SumOver, MapThenSumSet, MapThenFoldSet
<1>2. ASSUME NEW b \in 0 .. MaxBudget, schedule(b) PROVE BudgetRespected'
  <2>1. IsFiniteSet(Streams) BY SchedulerAssumption, Zenon
  <2>2. SumOver([u \in Streams |-> 0], Streams) = 0 BY <2>1, SumZero, Zenon
  <2>3. allocs' = [u \in Streams |-> 0] /\ budget' = b /\ total' = b BY <1>2, Zenon DEF schedule
  <2>4. b \in Int BY SchedulerAssumption
  <2>5. SumOver(allocs', Streams) = 0 BY <2>2, <2>3, Zenon
  <2> QED BY <1>1, <2>3, <2>4, <2>5
<1>3. ASSUME C2iTurn PROVE BudgetRespected'
  <2>1. SumOver(allocs', Streams) + budget' = SumOver(allocs, Streams) + budget
    BY <1>3, C2iTurnIs, AllocateIs, Zenon
  <2>2. total' = total BY <1>3, Zenon DEF C2iTurn
  <2> QED BY <1>0, <1>1, <2>1, <2>2, Zenon
<1>4. ASSUME BulkTurn \/ ExtraTurn PROVE BudgetRespected'
  <2>1. turns \in Nat /\ turns < Len(bulk_order) /\ bulk_order \in Seq(Streams)
    BY <1>4, Zenon DEF BulkTurn, ExtraTurn, ExtraGoesOn, TypeOK
  <2>2. bulk_order # <<>> BY <2>1
  <2>3. BulkServe /\ total' = total BY <1>4, Zenon DEF BulkTurn, ExtraTurn, BulkServe
  <2>4. SumOver(allocs', Streams) + budget' = SumOver(allocs, Streams) + budget
    BY <2>2, <2>3, ServeIs, AllocateIs, Zenon
  <2> QED BY <1>0, <1>1, <2>3, <2>4, Zenon
<1>5. ASSUME \/ \E u \in Streams : register(u) \/ deregister(u)
             \/ \E u \in Streams : \E n \in 0 .. MaxBacklog[u] : set_backlog(u, n)
             \/ \E u \in Streams, n \in Quanta : set_quantum(u, n)
             \/ C2iEnd \/ BulkEnd \/ ExtraEnd \/ UNCHANGED vars
      PROVE  UNCHANGED <<allocs, budget, total>>
  BY <1>5, Zenon
     DEF vars, register, deregister, set_backlog, set_quantum, C2iEnd, BulkEnd, ExtraEnd
<1> QED BY <1>0, <1>1, <1>2, <1>3, <1>4, <1>5, Zenon DEF Next, ScheduleStep

\* Only the stream whose turn it is joins those that had one lately.
LEMMA RecentStep ==
  ASSUME TypeOK, bulk_order # <<>>, RotateLeft, turns < Len(bulk_order), turns' = turns + 1
  PROVE  Recent' \subseteq Recent \union {Head(bulk_order)}
<1>1. bulk_order \in Seq(Streams) /\ turns \in Nat /\ Len(bulk_order) \in Nat BY DEF TypeOK
<1>2. /\ Len(bulk_order') = Len(bulk_order)
      /\ \A i \in 1 .. Len(bulk_order) - 1 : bulk_order'[i] = bulk_order[i + 1]
      /\ bulk_order'[Len(bulk_order)] = Head(bulk_order)
  BY <1>1, RotateKeeps, Zenon DEF RotateLeft
<1> SUFFICES ASSUME NEW i \in Len(bulk_order') - turns' + 1 .. Len(bulk_order')
             PROVE  bulk_order'[i] \in Recent \union {Head(bulk_order)}
  BY Zenon DEF Recent
<1>3. CASE i = Len(bulk_order) BY <1>2, <1>3, Zenon
<1>4. CASE i # Len(bulk_order)
  <2>1. /\ i \in 1 .. Len(bulk_order) - 1
        /\ i + 1 \in Len(bulk_order) - turns + 1 .. Len(bulk_order)
    BY <1>1, <1>2, <1>4
  <2> QED BY <1>2, <2>1, Zenon DEF Recent
<1> QED BY <1>3, <1>4, Zenon

\* No stream had a turn when the count is 0, and all had one when it is as
\* large as the queue.
LEMMA RecentIs ==
  ASSUME NEW S, bulk_order \in Seq(S)
  PROVE  /\ turns = 0 => Recent = {}
         /\ turns = Len(bulk_order) => Recent = Bulk
<1>1. Len(bulk_order) \in Nat OBVIOUS
<1>2. ASSUME turns = 0 PROVE Recent = {}
  <2>1. \A i \in Len(bulk_order) - turns + 1 .. Len(bulk_order) : FALSE BY <1>1, <1>2
  <2> QED BY <2>1, Zenon DEF Recent
<1>3. ASSUME turns = Len(bulk_order) PROVE Recent = Bulk
  <2>1. Len(bulk_order) - turns + 1 = 1 BY <1>1, <1>3
  <2>2. Recent = {bulk_order[i] : i \in 1 .. Len(bulk_order)} BY <2>1, Zenon DEF Recent
  <2> QED BY <2>2, RangeIs, Zenon DEF Bulk
<1> QED BY <1>2, <1>3, Zenon

NoBacklogNoBytes == \A u \in Streams : backlog[u] = 0 => allocs[u] = 0

\* A bulk turn that leaves budget gave the stream its credit or its backlog; one
\* that gave it nothing found no backlog or no credit.
LEMMA TurnResult ==
  ASSUME TypeOK, bulk_order # <<>>, BulkServe, NEW u, u = Head(bulk_order)
  PROVE  /\ UNCHANGED <<quantum, backlog, phase>>
         /\ budget' > 0 => budget > 0
         /\ \A v \in Streams : Served(v) => Served(v)'
         /\ \A v \in Streams : v # u => deficit'[v] = deficit[v]
         /\ budget' > 0 => Served(u)' \/ deficit'[u] = 0
         /\ budget > 0 /\ TurnBytes(u) = 0 /\ (Served(u) \/ deficit[u] = 0)
                => Served(u)' \/ quantum[u] = 0
         /\ NoBacklogNoBytes => NoBacklogNoBytes'
<1> DEFINE send == TurnBytes(u)
<1>1. UNCHANGED <<quantum, backlog, phase>> BY Zenon DEF BulkServe
<1>2. /\ u \in Streams /\ Credit(u) \in 0 .. DEFICIT_WRAP - 1
      /\ send \in Nat /\ send <= budget /\ send <= Credit(u) /\ send <= backlog[u]
      /\ send \in {budget, Credit(u), backlog[u]}
      /\ Allocate(u, send)
      /\ deficit' = [deficit EXCEPT ![u] = IF send > 0 THEN Credit(u) - send ELSE 0]
  BY ServeIs, Zenon
<1> HIDE DEF send
<1>3. /\ budget' \in Nat /\ budget' = budget - send /\ allocs'[u] = allocs[u] + send
      /\ allocs' \in [Streams -> Nat]
      /\ \A v \in Streams : v # u => allocs'[v] = allocs[v]
  BY <1>2, AllocateIs, Zenon
<1>4. budget \in Nat /\ \A v \in Streams : backlog[v] \in Nat /\ allocs[v] \in Nat
  BY Zenon DEF TypeOK
<1>5. budget' > 0 => budget > 0 BY <1>2, <1>3, <1>4
<1>6. \A v \in Streams : Served(v) => Served(v)'
  <2> SUFFICES ASSUME NEW v \in Streams, allocs[v] >= backlog[v]
               PROVE  allocs'[v] >= backlog'[v]
    BY Zenon DEF Served
  <2>1. CASE v = u BY <1>1, <1>2, <1>3, <1>4, <2>1
  <2>2. CASE v # u BY <1>1, <1>3, <2>2, Zenon
  <2> QED BY <2>1, <2>2, Zenon
<1>7. \A v \in Streams : v # u => deficit'[v] = deficit[v] BY <1>2, Zenon DEF TypeOK
<1>8. deficit'[u] = IF send > 0 THEN Credit(u) - send ELSE 0 BY <1>2, Zenon DEF TypeOK
<1>9. send = backlog[u] => Served(u)'
  BY <1>1, <1>2, <1>3, <1>4 DEF Served
<1>10. ASSUME budget' > 0 PROVE Served(u)' \/ deficit'[u] = 0
  <2>1. send # budget BY <1>2, <1>3, <1>4, <1>10
  <2>2. ASSUME send = Credit(u) PROVE deficit'[u] = 0 BY <1>2, <1>8, <2>2
  <2> QED BY <1>2, <1>9, <2>1, <2>2, Zenon
<1>11. ASSUME budget > 0, send = 0, Served(u) \/ deficit[u] = 0
       PROVE  Served(u)' \/ quantum[u] = 0
  <2>1. CASE Served(u) BY <1>2, <1>6, <2>1, Zenon
  <2>2. CASE deficit[u] = 0
    <3>1. quantum[u] \in 0 .. DEFICIT_WRAP - 1 BY <1>2, Zenon DEF TypeOK
    <3>2. DEFICIT_WRAP \in Nat \ {0} BY SchedulerAssumption
    <3>3. (0 + quantum[u]) % DEFICIT_WRAP = quantum[u] BY <3>1, <3>2
    <3>4. Credit(u) = quantum[u] BY <2>2, <3>3, Zenon DEF Credit
    <3>5. send = Credit(u) \/ send = backlog[u] BY <1>2, <1>4, <1>11
    <3> QED BY <1>9, <1>11, <3>4, <3>5, Zenon
  <2> QED BY <1>11, <2>1, <2>2, Zenon
<1>12. ASSUME NoBacklogNoBytes, NEW v \in Streams, backlog'[v] = 0 PROVE allocs'[v] = 0
  <2>1. backlog[v] = 0 /\ allocs[v] = 0 BY <1>1, <1>12, Zenon DEF NoBacklogNoBytes
  <2>2. CASE v = u BY <1>2, <1>3, <2>1, <2>2
  <2>3. CASE v # u BY <1>3, <2>1, <2>3, Zenon
  <2> QED BY <2>2, <2>3, Zenon
<1> QED BY <1>1, <1>5, <1>6, <1>7, <1>10, <1>11, <1>12, Zenon DEF send, NoBacklogNoBytes

\* Each loop of schedule keeps the count that its end relies on.
LEMMA TurnsStep ==
  ASSUME TypeOK, QueueShape, TurnsCount, [Next]_vars
  PROVE  TurnsCount'
<1> USE DEF entryVars, orderVars, callVars
<1>0. /\ bulk_order \in Seq(Streams) /\ c2i_queue \in Seq(Streams)
      /\ Len(bulk_order) \in Nat /\ Len(c2i_queue) \in Nat
      /\ turns \in Nat /\ budget \in Nat /\ Bulk \subseteq Streams
  <2>1. /\ bulk_order \in Seq(Streams) /\ c2i_queue \in Seq(Streams)
        /\ turns \in Nat /\ budget \in Nat
    BY Zenon DEF TypeOK
  <2>2. Len(bulk_order) \in Nat /\ Len(c2i_queue) \in Nat BY <2>1
  <2>3. Bulk \subseteq Streams BY <2>1, RangeIs, Zenon DEF Bulk
  <2> QED BY <2>1, <2>2, <2>3, Zenon
<1>1. ASSUME \/ \E u \in Streams : register(u) \/ deregister(u)
             \/ \E u \in Streams : \E n \in 0 .. MaxBacklog[u] : set_backlog(u, n)
             \/ \E u \in Streams, n \in Quanta : set_quantum(u, n)
             \/ ExtraEnd
      PROVE  TurnsCount'
  <2>1. phase' = "idle"
    BY <1>1, Zenon DEF register, deregister, set_backlog, set_quantum, ExtraEnd
  <2> QED BY <2>1 DEF TurnsCount
<1>2. ASSUME NEW b \in 0 .. MaxBudget, schedule(b) PROVE TurnsCount'
  <2>1. /\ phase' = "c2i" /\ turns' = 0 /\ allocs' = [u \in Streams |-> 0]
        /\ UNCHANGED <<entryVars, orderVars>>
    BY <1>2, Zenon DEF schedule
  <2>2. Bulk' = Bulk BY <2>1, Zenon DEF Bulk
  <2>3. turns' <= Len(c2i_queue') BY <1>0, <2>1
  <2>4. \A u \in Streams : allocs'[u] = 0 BY <2>1, Zenon
  <2>5. phase' # "bulk" /\ phase' # "extra" BY <2>1
  <2> QED BY <1>0, <2>2, <2>3, <2>4, <2>5, Zenon DEF TurnsCount
<1>3. ASSUME C2iTurn PROVE TurnsCount'
  <2> DEFINE u == c2i_queue[turns + 1]
  <2>1. /\ phase = "c2i" /\ turns < Len(c2i_queue) /\ turns' = turns + 1
        /\ UNCHANGED <<entryVars, orderVars, phase>>
    BY <1>3, Zenon DEF C2iTurn
  <2>2. u \in Range(c2i_queue) /\ u \in Streams BY <1>3, C2iTurnIs, Zenon
  <2>3. PICK send \in Nat : send <= budget /\ send <= backlog[u] /\ Allocate(u, send)
    BY <1>3, C2iTurnIs, Zenon
  <2> HIDE DEF u
  <2>4. allocs'[u] = allocs[u] + send /\ \A v \in Streams : v # u => allocs'[v] = allocs[v]
    BY <2>2, <2>3, AllocateIs, Zenon
  <2>5. turns' <= Len(c2i_queue') BY <1>0, <2>1
  <2>6. \A v \in Bulk' : allocs'[v] = 0
    <3>1. Bulk' = Bulk /\ u \notin Bulk BY <2>1, <2>2, Zenon DEF Bulk, QueueShape
    <3> QED BY <1>0, <2>1, <2>4, <3>1, Zenon DEF TurnsCount
  <2>7. ASSUME NEW v \in Streams, backlog'[v] = 0 PROVE allocs'[v] = 0
    <3>1. phase # "idle" BY <2>1
    <3>2. backlog[v] = 0 /\ allocs[v] = 0 BY <2>1, <2>7, <3>1, Zenon DEF TurnsCount
    <3>3. CASE v = u BY <2>3, <2>4, <3>2, <3>3
    <3>4. CASE v # u BY <2>4, <3>2, <3>4, Zenon
    <3> QED BY <3>3, <3>4, Zenon
  <2>8. phase' = "c2i" /\ phase' # "bulk" /\ phase' # "extra" BY <2>1
  <2> QED BY <2>5, <2>6, <2>7, <2>8, Zenon DEF TurnsCount
<1>4. ASSUME C2iEnd PROVE TurnsCount'
  <2>1. /\ phase = "c2i" /\ phase' \in {"idle", "bulk"} /\ turns' = 0
        /\ UNCHANGED <<entryVars, orderVars, budget, allocs>>
    BY <1>4, Zenon DEF C2iEnd
  <2>2. turns' <= Len(bulk_order') BY <1>0, <2>1
  <2>3. Recent' = {}
    <3>1. \A i \in Len(bulk_order') - turns' + 1 .. Len(bulk_order') : FALSE BY <1>0, <2>1
    <3> QED BY <3>1, Zenon DEF Recent
  <2>4. phase # "idle" /\ phase' # "c2i" /\ phase' # "extra" BY <2>1
  <2>5. \A u \in Streams : backlog'[u] = 0 => allocs'[u] = 0 BY <2>1, <2>4, Zenon DEF TurnsCount
  <2> QED BY <2>2, <2>3, <2>4, <2>5, Zenon DEF TurnsCount
<1>5. ASSUME BulkTurn \/ ExtraTurn
      PROVE  /\ bulk_order # <<>> /\ BulkServe /\ turns < Len(bulk_order)
             /\ Bulk' = Bulk /\ Len(bulk_order') = Len(bulk_order)
  <2>1. BulkServe /\ turns < Len(bulk_order)
    BY <1>5, Zenon DEF BulkTurn, ExtraTurn, ExtraGoesOn
  <2>2. bulk_order # <<>> BY <1>0, <2>1
  <2>3. bulk_order' = Append(Tail(bulk_order), Head(bulk_order))
    BY <2>1, Zenon DEF BulkServe, RotateLeft
  <2>4. Range(bulk_order') = Range(bulk_order) /\ Len(bulk_order') = Len(bulk_order)
    BY <1>0, <2>2, <2>3, RotateKeeps, Zenon
  <2> QED BY <2>1, <2>2, <2>4, Zenon DEF Bulk
<1>head. PICK h : h = Head(bulk_order) BY Zenon
<1>6. ASSUME BulkTurn PROVE TurnsCount'
  <2>1. phase = "bulk" /\ turns' = turns + 1 BY <1>6, Zenon DEF BulkTurn
  <2>2. /\ bulk_order # <<>> /\ BulkServe /\ turns < Len(bulk_order)
        /\ Len(bulk_order') = Len(bulk_order)
    BY <1>5, <1>6, Zenon
  <2>3. /\ UNCHANGED <<quantum, backlog, phase>>
        /\ budget' > 0 => budget > 0
        /\ \A v \in Streams : Served(v) => Served(v)'
        /\ \A v \in Streams : v # h => deficit'[v] = deficit[v]
        /\ budget' > 0 => Served(h)' \/ deficit'[h] = 0
        /\ NoBacklogNoBytes => NoBacklogNoBytes'
    BY <1>head, <2>2, TurnResult, Zenon
  <2>4. turns' <= Len(bulk_order') BY <1>0, <2>1, <2>2
  <2>5. ASSUME budget' > 0, NEW v \in Recent' PROVE Served(v)' \/ deficit'[v] = 0
    <3>1. v \in Recent \union {h}
      BY <1>head, <2>1, <2>2, <2>5, RecentStep, Zenon DEF BulkServe
    <3>2. CASE v = h BY <2>3, <2>5, <3>2, Zenon
    <3>3. CASE v # h
      <4>1. v \in Recent BY <3>1, <3>3, Zenon
      <4>2. Served(v) \/ deficit[v] = 0 BY <2>1, <2>3, <2>5, <4>1, Zenon DEF TurnsCount
      <4>3. v \in Streams
        <5>1. PICK i \in Len(bulk_order) - turns + 1 .. Len(bulk_order) : v = bulk_order[i]
          BY <4>1, Zenon DEF Recent
        <5> QED BY <1>0, <2>2, <5>1
      <4> QED BY <2>3, <3>3, <4>2, <4>3, Zenon
    <3> QED BY <3>2, <3>3, Zenon
  <2>6. phase # "idle" /\ phase' # "c2i" /\ phase' # "extra" BY <2>1, <2>3
  <2>7. NoBacklogNoBytes' BY <2>3, <2>6, Zenon DEF NoBacklogNoBytes, TurnsCount
  <2> QED BY <2>4, <2>5, <2>6, <2>7, Zenon DEF TurnsCount, NoBacklogNoBytes
<1>7. ASSUME BulkEnd PROVE TurnsCount'
  <2>1. /\ phase = "bulk" /\ phase' = "extra" /\ turns' = 0
        /\ turns = Len(bulk_order) \/ budget = 0
        /\ UNCHANGED <<entryVars, orderVars, budget, allocs>>
    BY <1>7, Zenon DEF BulkEnd
  <2>2. turns' <= Len(bulk_order') BY <1>0, <2>1
  <2>3. Recent' = {}
    <3>1. \A i \in Len(bulk_order') - turns' + 1 .. Len(bulk_order') : FALSE BY <1>0, <2>1
    <3> QED BY <3>1, Zenon DEF Recent
  <2>4. phase # "idle" /\ phase' # "c2i" /\ phase' # "bulk" BY <2>1
  <2>5. NoBacklogNoBytes' BY <2>1, <2>4, Zenon DEF TurnsCount, NoBacklogNoBytes
  <2>6. ASSUME budget' > 0, NEW v \in Bulk' PROVE Served(v)' \/ deficit'[v] = 0
    <3>1. budget > 0 /\ turns = Len(bulk_order) BY <1>0, <2>1, <2>6
    <3>2. Recent = Bulk BY <1>0, <3>1, RecentIs, Zenon
    <3>3. v \in Bulk BY <2>1, <2>6, Zenon DEF Bulk
    <3>4. Served(v) \/ deficit[v] = 0 BY <2>1, <3>1, <3>2, <3>3, Zenon DEF TurnsCount
    <3> QED BY <2>1, <3>4, Zenon DEF Served
  <2> QED BY <2>2, <2>3, <2>4, <2>5, <2>6, Zenon DEF TurnsCount, NoBacklogNoBytes
<1>8. ASSUME ExtraTurn PROVE TurnsCount'
  <2>1. /\ phase = "extra" /\ budget > 0
        /\ turns' = IF TurnBytes(h) > 0 THEN 0 ELSE turns + 1
    BY <1>8, <1>head, Zenon DEF ExtraTurn, ExtraGoesOn
  <2>2. /\ bulk_order # <<>> /\ BulkServe /\ turns < Len(bulk_order)
        /\ Bulk' = Bulk /\ Len(bulk_order') = Len(bulk_order)
    BY <1>5, <1>8, Zenon
  <2>3. /\ UNCHANGED <<quantum, backlog, phase>>
        /\ \A v \in Streams : Served(v) => Served(v)'
        /\ \A v \in Streams : v # h => deficit'[v] = deficit[v]
        /\ budget' > 0 => Served(h)' \/ deficit'[h] = 0
        /\ budget > 0 /\ TurnBytes(h) = 0 /\ (Served(h) \/ deficit[h] = 0)
              => Served(h)' \/ quantum[h] = 0
        /\ NoBacklogNoBytes => NoBacklogNoBytes'
    BY <1>head, <2>2, TurnResult, Zenon
  <2>4. h \in Bulk /\ TurnBytes(h) \in Nat BY <1>head, <2>2, ServeIs, Zenon
  <2>5. turns' <= Len(bulk_order') BY <1>0, <2>1, <2>2
  <2>6. ASSUME budget' > 0, NEW v \in Bulk' PROVE Served(v)' \/ deficit'[v] = 0
    <3>1. CASE v = h BY <2>3, <2>6, <3>1, Zenon
    <3>2. CASE v # h
      <4>1. v \in Bulk /\ v \in Streams BY <1>0, <2>2, <2>6, Zenon
      <4>2. Served(v) \/ deficit[v] = 0 BY <2>1, <4>1, Zenon DEF TurnsCount
      <4> QED BY <2>3, <3>2, <4>1, <4>2, Zenon
    <3> QED BY <3>1, <3>2, Zenon
  <2>7. ASSUME NEW v \in Recent' PROVE Served(v)' \/ quantum'[v] = 0
    <3>1. CASE TurnBytes(h) > 0
      <4>1. turns' = 0 BY <2>1, <3>1, Zenon
      <4>2. \A i \in Len(bulk_order') - turns' + 1 .. Len(bulk_order') : FALSE
        BY <1>0, <2>2, <4>1
      <4> QED BY <2>7, <4>2, Zenon DEF Recent
    <3>2. CASE ~ (TurnBytes(h) > 0)
      <4>1. TurnBytes(h) = 0 /\ turns' = turns + 1 BY <2>1, <2>4, <3>2
      <4>2. v \in Recent \union {h}
        BY <1>head, <2>2, <2>7, <4>1, RecentStep, Zenon DEF BulkServe
      <4>3. CASE v = h
        <5>1. Served(h) \/ deficit[h] = 0 BY <2>1, <2>4, Zenon DEF TurnsCount
        <5> QED BY <2>1, <2>3, <4>1, <4>3, <5>1, Zenon
      <4>4. CASE v \in Recent
        <5>1. Served(v) \/ quantum[v] = 0 BY <2>1, <4>4, Zenon DEF TurnsCount
        <5>2. v \in Streams
          <6>1. PICK i \in Len(bulk_order) - turns + 1 .. Len(bulk_order) : v = bulk_order[i]
            BY <4>4, Zenon DEF Recent
          <6> QED BY <1>0, <2>2, <6>1
        <5> QED BY <2>3, <5>1, <5>2, Zenon
      <4> QED BY <4>2, <4>3, <4>4, Zenon
    <3> QED BY <3>1, <3>2, Zenon
  <2>8. phase # "idle" /\ phase' # "c2i" /\ phase' # "bulk" BY <2>1, <2>3
  <2>9. NoBacklogNoBytes' BY <2>3, <2>8, Zenon DEF NoBacklogNoBytes, TurnsCount
  <2> QED BY <2>5, <2>6, <2>7, <2>8, <2>9, Zenon DEF TurnsCount, NoBacklogNoBytes
<1>9. ASSUME UNCHANGED vars PROVE TurnsCount'
  <2>1. Recent' = Recent /\ Bulk' = Bulk /\ \A u : Served(u)' = Served(u)
    BY <1>9, Zenon DEF vars, Served, Recent, Bulk
  <2> QED BY <1>9, <2>1, Zenon DEF vars, TurnsCount
<1> QED BY <1>1, <1>2, <1>3, <1>4, <1>6, <1>7, <1>8, <1>9, Zenon DEF Next, ScheduleStep

-----------------------------------------------------------------------------
(* The theorems *)

\* The scheduler starts empty, with no call running.
LEMMA InitInv == Init => SchedulerInv
<1> SUFFICES ASSUME Init PROVE SchedulerInv OBVIOUS
<1>1. TypeOK
  <2>1. 0 \in 0 .. DEFICIT_WRAP - 1 /\ 0 \in Nat /\ <<>> \in Seq(Streams) BY SchedulerAssumption
  <2>2. "idle" \in {"idle", "c2i", "bulk", "extra"} BY Zenon
  <2> QED BY <2>1, <2>2, Zenon DEF Init, TypeOK
<1>2. QueueShape
  <2>1. Range(<<>>) = {} BY DEF Range
  <2>2. Sorted(<<>>, Priority) BY DEF Sorted
  <2> QED BY <2>1, <2>2, Zenon DEF Init, QueueShape, Bulk
<1>3. BudgetRespected
  <2>1. SumOver(allocs, Streams) = 0 BY SumZero, SchedulerAssumption, Zenon DEF Init
  <2>2. SumOver(allocs, Streams) + budget = total BY <2>1 DEF Init
  <2> QED BY <2>2, Zenon DEF BudgetRespected, SumOver
<1>4. TurnsCount BY DEF Init, TurnsCount
<1> QED BY <1>1, <1>2, <1>3, <1>4, ShapeIs, Zenon DEF SchedulerInv

\* Every step preserves the invariant.
LEMMA InvStep == SchedulerInv /\ [Next]_vars => SchedulerInv'
<1> SUFFICES ASSUME SchedulerInv, [Next]_vars PROVE SchedulerInv' OBVIOUS
<1>1. TypeOK /\ QueueShape /\ BudgetRespected /\ TurnsCount BY ShapeIs, Zenon DEF SchedulerInv
<1>2. TypeOK' BY <1>1, TypeStep, Zenon
<1>3. QueueShape' BY <1>1, ShapeStep, Zenon
<1>4. BudgetRespected' /\ TurnsCount' BY <1>1, BudgetStep, TurnsStep, Zenon
<1>5. QueuesMatch' BY <1>3, ShapeIs, PTL
<1> QED BY <1>2, <1>4, <1>5, Zenon DEF SchedulerInv

\* The inductive invariant of DrrScheduler: queues, budget and the count of the
\* turns that schedule's loops end on.
THEOREM SchedulerCorrect == Spec => []SchedulerInv
BY InitInv, InvStep, PTL DEF Spec

\* The round-robin order and the strict queue hold the registered streams and no
\* others, the strict ones by priority, whatever is registered (again, too),
\* removed and scheduled.
THEOREM QueuesAlwaysMatch == Spec => []QueuesMatch
BY SchedulerCorrect, PTL DEF SchedulerInv

\* schedule never allocates more than the budget it was given.
THEOREM BudgetAlwaysRespected == Spec => []BudgetRespected
BY SchedulerCorrect, PTL DEF SchedulerInv

\* schedule leaves budget unused only when every bulk stream with a quantum has
\* been given its backlog, and gives nothing to a stream without one.
THEOREM AlwaysWorkConserving == Spec => []WorkConserving
<1>1. SchedulerInv => WorkConserving
  <2> SUFFICES ASSUME SchedulerInv, Returning
               PROVE  Divides(allocs, total, backlog, {u \in Bulk : quantum[u] # 0})
    BY Zenon DEF WorkConserving
  <2> DEFINE sum == SumOver(allocs, Streams)
  <2>1. TypeOK /\ TurnsCount /\ BudgetRespected BY Zenon DEF SchedulerInv
  <2>2. DOMAIN allocs = Streams /\ budget \in Nat /\ allocs \in [Streams -> Nat]
        /\ total \in Nat /\ turns \in Nat /\ bulk_order \in Seq(Streams)
    BY <2>1, Zenon DEF TypeOK
  <2>3. sum + budget = total BY <2>1, Zenon DEF BudgetRespected, SumOver
  <2>4. sum \in Nat
    <3>1. CASE Streams = {}
      <4>1. allocs = [u \in Streams |-> 0] BY <2>2, <3>1
      <4>2. sum = 0 BY <4>1, SumZero, SchedulerAssumption, Zenon
      <4> QED BY <4>2
    <3>2. CASE Streams # {}
      <4>1. PICK u \in Streams : TRUE BY <3>2, Zenon
      <4> QED BY <2>2, SumAdd, SchedulerAssumption
    <3> QED BY <3>1, <3>2, Zenon
  <2> HIDE DEF sum
  <2>5. sum <= total /\ (sum < total => budget > 0) BY <2>2, <2>3, <2>4
  <2>6. phase # "idle" BY DEF Returning
  <2>7. \A u \in Streams : backlog[u] = 0 => allocs[u] = 0 BY <2>1, <2>6, Zenon DEF TurnsCount
  <2>8. ASSUME budget > 0, NEW u \in Bulk, quantum[u] # 0 PROVE allocs[u] >= backlog[u]
    <3>1. CASE bulk_order = <<>>
      <4>1. Bulk = {} BY <3>1 DEF Bulk, Range
      <4> QED BY <2>8, <4>1, Zenon
    <3>2. CASE bulk_order # <<>>
      <4>1. phase = "extra" /\ ~ (turns < Len(bulk_order))
        BY <2>2, <2>8, <3>2 DEF Returning, ExtraGoesOn
      <4>2. turns <= Len(bulk_order) BY <2>1, <4>1, Zenon DEF TurnsCount
      <4>3. turns = Len(bulk_order) BY <2>2, <4>1, <4>2
      <4>4. Recent = Bulk BY <2>2, <4>3, RecentIs, Zenon
      <4> QED BY <2>1, <2>8, <4>1, <4>4, Zenon DEF TurnsCount, Served
    <3> QED BY <3>1, <3>2, Zenon
  <2> QED BY <2>2, <2>5, <2>7, <2>8, Zenon DEF Divides, sum, SumOver
<1> QED BY <1>1, SchedulerCorrect, PTL
=============================================================================
