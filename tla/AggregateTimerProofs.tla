------------------------ MODULE AggregateTimerProofs ------------------------
(***************************************************************************)
(* Proofs about AggregateTimer, for any set of streams and any bounds: the *)
(* two tables agree with what the streams do, no byte on the wire is       *)
(* charged twice unless a deduction falls into set_session's window, and   *)
(* the budget that is carried over stays bounded; and about RateParams:    *)
(* the budget per tick is positive and matches the rate.                   *)
(***************************************************************************)
EXTENDS AggregateTimer, RateParams, DataProofs

USE SMTT(30)
USE DEF streamVars, tickVars, mgrVars, historyVars

-----------------------------------------------------------------------------
(* TablesAgree *)

Registered == {"live", "leaving", "gone"}

\* The tables of every stage, and what the timer remembers across its steps. The
\* entry that a failed open leaves behind has no backlog: the timer allocates it
\* nothing, and so never finds it closed and removes the stream that registers
\* over it. A stream it found closed has been live and never is again.
TablesInv ==
    /\ stage \in [Streams -> {"none", "registering"} \union Registered]
    /\ DOMAIN backlog = Streams
    /\ \A u \in Streams :
          /\ stage[u] \notin Registered =>
                u \notin alive /\ backlog[u] = 0 /\ seen[u] = 0 /\ allocs[u] = 0
          /\ stage[u] = "registering" => u \in sched
          /\ stage[u] = "live" /\ u \in alive => u \in sched /\ u \in table
          /\ stage[u] = "leaving" => u \notin sched
          /\ stage[u] = "gone" => u \notin sched /\ u \notin table
          /\ u \in closed_streams => stage[u] \in Registered /\ u \notin alive

\* register and deregister preserve it.
LEMMA RegistrationStep ==
    ASSUME TablesInv, NEW u \in Streams,
           register_scheduler(u) \/ register_table(u) \/ OpenFails(u) \/ Deregister(u)
    PROVE  TablesInv'
<1>1. CASE register_scheduler(u)
  BY <1>1, Zenon DEF TablesInv, Registered, register_scheduler
<1>2. CASE register_table(u)
  BY <1>2, Zenon DEF TablesInv, Registered, register_table
<1>3. CASE deregister_scheduler(u)
  BY <1>3, Zenon DEF TablesInv, Registered, deregister_scheduler
<1>4. CASE deregister_table(u)
  BY <1>4, Zenon DEF TablesInv, Registered, deregister_table
<1>5. CASE OpenFails(u)
  BY <1>5, Zenon DEF TablesInv, Registered, OpenFails
<1> QED
  BY <1>1, <1>2, <1>3, <1>4, <1>5, Zenon DEF Deregister

\* So does every step of the timer: the snapshot is taken from the table, and
\* the cleanup removes streams that are not alive.
LEMMA TimerStep ==
    ASSUME TablesInv, TimerTask
    PROVE  TablesInv'
<1>1. CASE Tick
  BY <1>1, Zenon DEF TablesInv, Tick
<1>2. CASE Schedule
  <2>1. /\ allocs' \in [Streams -> 0 .. max_carry]
        /\ Divides(allocs', available_budget, Reported, sched)
    BY <1>2, Zenon DEF Schedule
  <2>2. ASSUME NEW u \in Streams, seen[u] = 0 PROVE allocs'[u] = 0
    <3>1. Reported[u] = 0 BY <2>2, Zenon DEF Reported
    <3>2. u \in DOMAIN allocs' BY <2>1, Zenon
    <3> QED BY <2>1, <3>1, <3>2, Zenon DEF Divides
  <2> QED BY <1>2, <2>2, Zenon DEF TablesInv, Schedule
<1>3. CASE Deliver
  <2>1. ASSUME NEW u \in Streams, u \in closed_streams' PROVE stage[u] \in Registered /\ u \notin alive
    <3>1. allocs[u] > 0 /\ u \notin alive BY <1>3, <2>1, Zenon DEF Deliver, Closed
    <3>2. allocs[u] # 0 BY <3>1
    <3> QED BY <3>1, <3>2, Zenon DEF TablesInv
  <2>2. \A u \in Streams : seen'[u] = 0 /\ allocs'[u] = 0 BY <1>3, Zenon DEF Deliver, Zero
  <2>3. UNCHANGED <<stage, alive, backlog, sched, table>> BY <1>3, Zenon DEF Deliver
  <2> QED BY <2>1, <2>2, <2>3, Zenon DEF TablesInv
<1>4. CASE LoadBaseline
  BY <1>4, Zenon DEF TablesInv, LoadBaseline
<1>5. CASE SampleWire
  BY <1>5, Zenon DEF TablesInv, SampleWire
<1>6. CASE Deduct
  BY <1>6, Zenon DEF TablesInv, Deduct
<1>7. CASE CleanTable
  BY <1>7, Zenon DEF TablesInv, Registered, CleanTable
<1>8. CASE CleanScheduler
  BY <1>8, Zenon DEF TablesInv, Registered, CleanScheduler
<1> QED
  BY <1>1, <1>2, <1>3, <1>4, <1>5, <1>6, <1>7, <1>8, Zenon DEF TimerTask

\* The pumps only stop being alive, and set_session touches no table.
LEMMA OtherStep ==
    ASSUME TablesInv,
           \/ \E u \in Streams : \/ Push(u) \/ PumpExit(u)
                                 \/ \E n \in 0 .. MaxBacklog, extra \in 0 .. 1 : Drain(u, n, extra)
           \/ SampleNew \/ SwapSession \/ StoreNew
           \/ UNCHANGED vars
    PROVE  TablesInv'
<1>1. ASSUME NEW u \in Streams, Push(u)  PROVE TablesInv'
  BY <1>1, Zenon DEF TablesInv, Push, Registered
<1>2. ASSUME NEW u \in Streams, PumpExit(u)  PROVE TablesInv'
  BY <1>2, Zenon DEF TablesInv, PumpExit
<1>3. ASSUME NEW u \in Streams, NEW n \in 0 .. MaxBacklog, NEW extra \in 0 .. 1, Drain(u, n, extra)
      PROVE  TablesInv'
  BY <1>3, Zenon DEF TablesInv, Drain
<1>4. CASE SampleNew
  BY <1>4, Zenon DEF TablesInv, SampleNew
<1>5. CASE SwapSession
  BY <1>5, Zenon DEF TablesInv, SwapSession
<1>6. CASE StoreNew
  BY <1>6, Zenon DEF TablesInv, StoreNew
<1>7. CASE UNCHANGED vars
  BY <1>7, Zenon DEF TablesInv, vars
<1> QED
  BY <1>1, <1>2, <1>3, <1>4, <1>5, <1>6, <1>7, Zenon

\* TablesAgree of AggregateTimer: a transmitting stream stays in both tables of
\* the rate limiter, and a deregistered one in neither.
THEOREM SpecTablesAgree == Spec => []TablesAgree
<1>1. Init => TablesInv
  BY Zenon DEF Init, TablesInv, Zero
<1>2. TablesInv /\ [Next]_vars => TablesInv'
  BY RegistrationStep, TimerStep, OtherStep, Zenon DEF Next
<1>3. TablesInv => TablesAgree
  BY Zenon DEF TablesInv, TablesAgree
<1> QED
  BY <1>1, <1>2, <1>3, PTL DEF Spec

-----------------------------------------------------------------------------
(* ChargedOnce *)

\* Until a deduction falls into the window: whatever the timer is about to deduct,
\* from the values it holds already and from those it will read, is uncharged, and
\* inside the window so is all that the new session has sent.
ChargedInv ==
    /\ {wire, wire_baseline, base, loaded, wire_now} \subseteq Nat /\ uncharged \in Int
    /\ ~straddled =>
          /\ mgr = "swapped" => uncharged >= wire
          /\ uncharged >= saturating_sub(wire, wire_baseline)
          /\ pc = "sample" => uncharged >= saturating_sub(wire, loaded)
          /\ pc = "deduct" =>
                uncharged >= saturating_sub(wire_now, loaded) + saturating_sub(wire, wire_now)

\* Bytes that go on the wire are uncharged, and so are those of the handshake of
\* a new session.
LEMMA WireStep ==
    ASSUME ChargedInv,
           \/ \E u \in Streams, n \in 0 .. MaxBacklog, extra \in 0 .. 1 : Drain(u, n, extra)
           \/ SampleNew \/ SwapSession \/ StoreNew
    PROVE  ChargedInv'
<1>1. ASSUME NEW u \in Streams, NEW n \in 0 .. MaxBacklog, NEW extra \in 0 .. 1, Drain(u, n, extra)
      PROVE  ChargedInv'
  <2>1. n \in Nat /\ extra \in Nat
    BY TimerAssumption
  <2> QED
    BY <1>1, <2>1 DEF ChargedInv, Drain, saturating_sub
<1>2. CASE SampleNew
  BY <1>2 DEF ChargedInv, SampleNew
<1>3. CASE SwapSession
  BY <1>3 DEF ChargedInv, SwapSession, saturating_sub
<1>4. CASE StoreNew
  BY <1>4 DEF ChargedInv, StoreNew, saturating_sub
<1> QED
  BY <1>1, <1>2, <1>3, <1>4, Zenon

\* Loading, sampling and deducting hand the bound on from one step to the next.
LEMMA ChargeStep ==
    ASSUME ChargedInv, LoadBaseline \/ SampleWire \/ Deduct
    PROVE  ChargedInv'
<1>1. CASE LoadBaseline
  BY <1>1, Zenon DEF ChargedInv, LoadBaseline, saturating_sub
<1>2. CASE SampleWire
  BY <1>2 DEF ChargedInv, SampleWire, saturating_sub
<1>3. CASE Deduct
  <2>1. /\ wire \in Nat /\ wire_baseline \in Nat /\ base \in Nat /\ loaded \in Nat
        /\ wire_now \in Nat /\ uncharged \in Int
    BY Zenon DEF ChargedInv
  <2>2. /\ pc = "deduct" /\ wire_baseline' = wire_now /\ loaded' = 0 /\ wire_now' = 0
        /\ uncharged' = uncharged - saturating_sub(wire_now, loaded)
        /\ straddled' = (straddled \/ mgr = "swapped") /\ UNCHANGED <<wire, base, mgr>>
    BY <1>3, Zenon DEF Deduct, StoreBaseline, wire_delta
  <2>3. pc' # "sample" /\ pc' # "deduct"
    <3>1. pc' = "tick" \/ pc' = "untable" BY <1>3, Zenon DEF Deduct
    <3> QED BY <3>1
  <2>4. uncharged' \in Int BY <2>1, <2>2 DEF saturating_sub
  <2>5. ASSUME ~straddled PROVE uncharged' >= saturating_sub(wire, wire_now)
    <3>1. uncharged >= saturating_sub(wire_now, loaded) + saturating_sub(wire, wire_now)
      BY <2>2, <2>5, Zenon DEF ChargedInv
    <3> QED BY <2>1, <2>2, <3>1 DEF saturating_sub
  <2>6. 0 \in Nat OBVIOUS
  <2>7. {wire, wire_baseline, base, loaded, wire_now}' \subseteq Nat BY <2>1, <2>2, <2>6, Zenon
  <2>8. ASSUME ~straddled'
        PROVE  mgr' # "swapped" /\ (uncharged >= saturating_sub(wire, wire_baseline))'
    BY <2>2, <2>5, <2>8, Zenon DEF saturating_sub
  <2> QED BY <2>3, <2>4, <2>7, <2>8, Zenon DEF ChargedInv
<1> QED
  BY <1>1, <1>2, <1>3, Zenon

\* No other step touches the wire, the baseline or the session.
LEMMA UnchargedStep ==
    ASSUME ChargedInv,
           \/ \E u \in Streams : \/ register_scheduler(u) \/ register_table(u)
                                 \/ OpenFails(u) \/ Deregister(u) \/ Push(u) \/ PumpExit(u)
           \/ Tick \/ Schedule \/ Deliver \/ CleanTable \/ CleanScheduler
           \/ UNCHANGED vars
    PROVE  ChargedInv'
<1>1. /\ UNCHANGED <<wire, wire_baseline, base, loaded, wire_now, uncharged, straddled, mgr>>
      /\ pc' = pc \/ pc' \notin {"sample", "deduct"}
  <2>1. ASSUME NEW u \in Streams,
               \/ register_scheduler(u) \/ register_table(u) \/ OpenFails(u) \/ Deregister(u)
               \/ Push(u) \/ PumpExit(u)
        PROVE  <1>1!:
    BY <2>1, Zenon DEF register_scheduler, register_table, OpenFails, Deregister, deregister_scheduler,
                deregister_table, Push, PumpExit
  <2>2. CASE Tick \/ Schedule \/ Deliver
    BY <2>2, Zenon DEF Tick, Schedule, Deliver
  <2>3. CASE CleanTable \/ CleanScheduler \/ UNCHANGED vars
    BY <2>3, Zenon DEF CleanTable, CleanScheduler, vars
  <2> QED
    BY <2>1, <2>2, <2>3, Zenon
<1> QED
  BY <1>1, Zenon DEF ChargedInv

\* ChargedOnce of AggregateTimer: for every interleaving of the timer with the
\* pumps and with set_session in which no deduction falls between the swap of the
\* session and the store of its baseline, no byte is deducted twice.
THEOREM SpecChargedOnce == Spec => []ChargedOnce
<1>1. Init => ChargedInv
  BY DEF Init, ChargedInv, saturating_sub
<1>2. ChargedInv /\ [Next]_vars => ChargedInv'
  BY WireStep, ChargeStep, UnchargedStep, Zenon DEF Next, TimerTask
<1>3. ChargedInv => ChargedOnce
  BY DEF ChargedInv, ChargedOnce, saturating_sub
<1> QED
  BY <1>1, <1>2, <1>3, PTL DEF Spec

-----------------------------------------------------------------------------
(* TypeOK: bounds of the budget and of the tickets *)

\* What is going to be delivered is within the clamp, as the budget is from the
\* tick to the deduction. (And set_session is called no more often than the bound
\* allows.)
BudgetInv ==
    /\ TypeOK
    /\ pc = "deliver" => SumOver(allocs, Streams) <= max_carry
    /\ mgr = "sampled" => sessions < MaxSessions

\* max_carry is two intervals' worth, and never 0.
LEMMA CarryType == max_carry \in Nat /\ max_carry >= PER_TICK /\ PER_TICK \in Nat
BY TimerAssumption DEF max_carry

\* Streams come and go without a change to the budget.
LEMMA StreamTypes ==
    ASSUME BudgetInv,
           \/ \E u \in Streams : \/ register_scheduler(u) \/ register_table(u)
                                 \/ OpenFails(u) \/ Deregister(u) \/ Push(u) \/ PumpExit(u)
                                 \/ \E n \in 0 .. MaxBacklog, extra \in 0 .. 1 : Drain(u, n, extra)
    PROVE  BudgetInv'
<1>1. ASSUME NEW u \in Streams, register_scheduler(u) \/ register_table(u) PROVE BudgetInv'
  BY <1>1, Zenon DEF BudgetInv, TypeOK, register_scheduler, register_table
<1>2. ASSUME NEW u \in Streams, OpenFails(u) \/ Deregister(u) PROVE BudgetInv'
  BY <1>2, Zenon
     DEF BudgetInv, TypeOK, OpenFails, Deregister, deregister_scheduler, deregister_table
<1>3. ASSUME NEW u \in Streams, Push(u) PROVE BudgetInv'
  <2>1. backlog[u] + 1 \in 0 .. MaxBacklog BY <1>3, TimerAssumption DEF BudgetInv, TypeOK, Push
  <2>2. backlog' \in [Streams -> 0 .. MaxBacklog] BY <1>3, <2>1, Zenon DEF BudgetInv, TypeOK, Push
  <2> QED BY <1>3, <2>2, Zenon DEF BudgetInv, TypeOK, Push
<1>4. ASSUME NEW u \in Streams, PumpExit(u) PROVE BudgetInv'
  <2>1. 0 \in 0 .. max_carry BY CarryType
  <2>2. alloc' \in [Streams -> 0 .. max_carry] BY <1>4, <2>1, Zenon DEF BudgetInv, TypeOK, PumpExit
  <2> QED BY <1>4, <2>2, Zenon DEF BudgetInv, TypeOK, PumpExit
<1>5. ASSUME NEW u \in Streams, NEW n \in 0 .. MaxBacklog, NEW extra \in 0 .. 1, Drain(u, n, extra)
      PROVE  BudgetInv'
  <2>1. 0 \in 0 .. max_carry BY CarryType
  <2>2. alloc' \in [Streams -> 0 .. max_carry] BY <1>5, <2>1, Zenon DEF BudgetInv, TypeOK, Drain
  <2>3. backlog[u] - n \in 0 .. MaxBacklog
    BY <1>5, TimerAssumption DEF BudgetInv, TypeOK, Drain
  <2>4. backlog' \in [Streams -> 0 .. MaxBacklog] BY <1>5, <2>3, Zenon DEF BudgetInv, TypeOK, Drain
  <2>5. n \in Nat /\ extra \in Nat BY TimerAssumption
  <2>6. wire \in Nat /\ total \in Nat /\ uncharged \in Int BY Zenon DEF BudgetInv, TypeOK
  <2>7. wire' \in Nat /\ total' \in Nat /\ uncharged' \in Int BY <1>5, <2>5, <2>6 DEF Drain
  <2>8. {loaded, wire_now, wire_baseline, wire, base, total}' \subseteq Nat
    <3>1. loaded \in Nat /\ wire_now \in Nat /\ wire_baseline \in Nat /\ base \in Nat
      BY Zenon DEF BudgetInv, TypeOK
    <3>2. UNCHANGED <<loaded, wire_now, wire_baseline, base>> BY <1>5, Zenon DEF Drain
    <3> QED BY <2>7, <3>1, <3>2, Zenon
  <2>9. /\ UNCHANGED <<stage, alive, sched, table, pc, tickVars, mgrVars, straddled>>
    BY <1>5, Zenon DEF Drain
  <2> QED BY <2>2, <2>4, <2>7, <2>8, <2>9, Zenon DEF BudgetInv, TypeOK
<1> QED BY <1>1, <1>2, <1>3, <1>4, <1>5, Zenon

\* The timer clamps the carry at the tick; the allocations of schedule, and so
\* the tickets that pumps accept, sum to no more; what the deduction leaves is
\* within twice the clamp, since an undelivered budget is added once more.
LEMMA TimerTypes ==
    ASSUME BudgetInv, TimerTask
    PROVE  BudgetInv'
<1>0. available_budget \in Nat /\ delivered \in Nat /\ 0 \in 0 .. MaxBacklog
      /\ allocs \in [Streams -> Nat]
  <2>1. \A u \in Streams : allocs[u] \in Nat BY CarryType DEF BudgetInv, TypeOK
  <2>2. allocs \in [Streams -> Nat] BY <2>1, Zenon DEF BudgetInv, TypeOK
  <2> QED BY <2>2, CarryType, TimerAssumption DEF BudgetInv, TypeOK
<1>1. CASE Tick
  <2>1. available_budget' \in 0 .. 2 * max_carry /\ available_budget' <= max_carry
    BY <1>0, <1>1, CarryType DEF Tick, Accumulate, Least
  <2>2. seen' \in [Streams -> 0 .. MaxBacklog]
    BY <1>0, <1>1, Zenon DEF BudgetInv, TypeOK, Tick
  <2>3. pc' = "schedule" /\ pc' # "deliver" BY <1>1 DEF Tick
  <2> QED BY <1>1, <2>1, <2>2, <2>3, Zenon DEF BudgetInv, TypeOK, Tick
<1>2. CASE Schedule
  <2>1. /\ pc = "schedule" /\ allocs' \in [Streams -> 0 .. max_carry]
        /\ Divides(allocs', available_budget, Reported, sched)
        /\ available_budget' = available_budget
    BY <1>2, Zenon DEF Schedule
  <2>2. available_budget <= max_carry BY <2>1, Zenon DEF BudgetInv, TypeOK, InTick
  <2>3. DOMAIN allocs' = Streams BY <2>1, Zenon
  <2>4. SumOver(allocs', Streams) <= available_budget
    BY <2>1, <2>3, Zenon DEF Divides, SumOver
  <2>5. allocs' \in [Streams -> Nat]
    <3>1. \A u \in Streams : allocs'[u] \in Nat BY <2>1, CarryType
    <3> QED BY <2>1, <3>1, Zenon
  <2>6. SumOver(allocs', Streams) \in Nat
    <3>1. PICK f : f = allocs' BY Zenon
    <3>2. Streams \in SUBSET Streams /\ IsFiniteSet(Streams) BY TimerAssumption, Zenon
    <3>3. SumOver(f, Streams) \in Nat BY <2>5, <3>1, <3>2, SumSubset
    <3> QED BY <3>1, <3>3, Zenon
  <2>7. SumOver(allocs', Streams) <= max_carry BY <1>0, <2>2, <2>4, <2>6, CarryType
  <2>8. (SumOver(allocs, Streams) <= max_carry)'
    BY <2>7 DEF SumOver, MapThenSumSet, MapThenFoldSet, max_carry
  <2> QED BY <1>2, <2>1, <2>2, <2>8, Zenon DEF BudgetInv, TypeOK, Schedule
<1>3. CASE Deliver
  <2>1. pc = "deliver" /\ pc' = "load" /\ UNCHANGED available_budget BY <1>3, Zenon DEF Deliver
  <2>2. alloc' \in [Streams -> 0 .. max_carry]
    BY <1>3, Zenon DEF BudgetInv, TypeOK, Deliver
  <2>3. delivered' \in 0 .. max_carry
    <3>1. Accepting \in SUBSET Streams BY Zenon DEF Accepting, BudgetInv, TypeOK
    <3>2. PICK f : f = allocs BY Zenon
    <3>3. PICK R : R = Accepting BY Zenon
    <3>4. f \in [Streams -> Nat] /\ R \in SUBSET Streams BY <1>0, <3>1, <3>2, <3>3, Zenon
    <3>5. IsFiniteSet(Streams) BY TimerAssumption, Zenon
    <3>6. /\ SumOver(f, Streams) \in Nat /\ SumOver(f, R) \in Nat
          /\ SumOver(f, R) <= SumOver(f, Streams)
      BY <3>4, <3>5, SumSubset
    <3>7. SumOver(f, Streams) <= max_carry BY <2>1, <3>2, Zenon DEF BudgetInv
    <3>8. delivered' = SumOver(f, R) BY <1>3, <3>2, <3>3, Zenon
               DEF Deliver, Accepted, SumOver, MapThenSumSet, MapThenFoldSet
    <3> QED BY <3>6, <3>7, <3>8, CarryType
  <2>4. Zero \in [Streams -> 0 .. MaxBacklog] /\ Zero \in [Streams -> 0 .. max_carry]
    BY CarryType, TimerAssumption DEF Zero
  <2>5. closed_streams' \subseteq Streams BY <1>3, Zenon DEF Deliver, Closed, BudgetInv, TypeOK
  <2>6. available_budget <= max_carry /\ pc' # "deliver" BY <2>1 DEF BudgetInv, TypeOK, InTick
  <2> QED BY <1>3, <2>1, <2>2, <2>3, <2>4, <2>5, <2>6, Zenon DEF BudgetInv, TypeOK, Deliver
<1>4. CASE LoadBaseline
  <2>1. pc = "load" /\ pc' = "sample" /\ pc' # "deliver" BY <1>4 DEF LoadBaseline
  <2> QED BY <1>4, <2>1, Zenon DEF BudgetInv, TypeOK, InTick, LoadBaseline
<1>5. CASE SampleWire
  <2>1. pc = "sample" /\ pc' = "deduct" /\ pc' # "deliver" BY <1>5 DEF SampleWire
  <2> QED BY <1>5, <2>1, Zenon DEF BudgetInv, TypeOK, InTick, SampleWire
<1>6. CASE Deduct
  <2>1. available_budget <= max_carry BY <1>6, Zenon DEF Deduct, BudgetInv, TypeOK, InTick
  <2>2. wire_now \in Nat /\ loaded \in Nat /\ uncharged \in Int BY Zenon DEF BudgetInv, TypeOK
  <2>3. wire_delta \in Nat BY <2>2 DEF wire_delta, saturating_sub
  <2>4. available_budget' \in 0 .. 2 * max_carry
    BY <1>0, <1>6, <2>1, <2>3, CarryType DEF Deduct, saturating_sub
  <2>5. uncharged' \in Int /\ wire_baseline' \in Nat
    BY <1>6, <2>2, <2>3 DEF Deduct, StoreBaseline
  <2>9. straddled' \in BOOLEAN BY <1>6, Zenon DEF Deduct
  <2>6. delivered' \in 0 .. max_carry /\ loaded' \in Nat /\ wire_now' \in Nat
    BY <1>6, CarryType DEF Deduct
  <2>7. pc' = "tick" \/ pc' = "untable" BY <1>6, Zenon DEF Deduct
  <2>8. /\ pc' \in InTick \union {"tick", "untable", "unschedule"}
        /\ pc' \notin InTick /\ pc' # "deliver"
    BY <2>7 DEF InTick
  <2> QED BY <1>6, <2>4, <2>5, <2>6, <2>8, <2>9, Zenon DEF BudgetInv, TypeOK, InTick, Deduct
<1>7. CASE CleanTable \/ CleanScheduler
  <2>1. pc' = "unschedule" \/ pc' = "tick" BY <1>7, Zenon DEF CleanTable, CleanScheduler
  <2>2. /\ pc' \in InTick \union {"tick", "untable", "unschedule"}
        /\ pc' \notin InTick /\ pc' # "deliver"
    BY <2>1 DEF InTick
  <2> QED BY <1>7, <2>2, Zenon DEF BudgetInv, TypeOK, InTick, CleanTable, CleanScheduler
<1> QED BY <1>1, <1>2, <1>3, <1>4, <1>5, <1>6, <1>7, Zenon DEF TimerTask

\* set_session leaves the budget alone.
LEMMA SessionTypes ==
    ASSUME BudgetInv, SampleNew \/ SwapSession \/ StoreNew \/ UNCHANGED vars
    PROVE  BudgetInv'
<1>1. base \in Nat /\ wire \in Nat /\ total \in Nat /\ uncharged \in Int
      /\ sessions \in 1 .. MaxSessions
  BY Zenon DEF BudgetInv, TypeOK
<1>2. CASE SampleNew
  <2>1. base' \in Nat /\ sessions' < MaxSessions BY <1>2 DEF SampleNew
  <2> QED BY <1>2, <2>1, Zenon DEF BudgetInv, TypeOK, SampleNew
<1>3. CASE UNCHANGED vars BY <1>3, Zenon DEF BudgetInv, TypeOK, vars
<1>4. CASE StoreNew
  <2>1. base' \in Nat /\ uncharged' \in Int /\ mgr' # "sampled" BY <1>1, <1>4 DEF StoreNew
  <2> QED BY <1>1, <1>4, <2>1, Zenon DEF BudgetInv, TypeOK, StoreNew
<1>5. CASE SwapSession
  <2>1. total' \in Nat /\ uncharged' \in Int BY <1>1, <1>5 DEF SwapSession
  <2>2. sessions' \in 1 .. MaxSessions BY <1>1, <1>5, TimerAssumption DEF SwapSession, BudgetInv
  <2>3. mgr' # "sampled" BY <1>5 DEF SwapSession
  <2> QED BY <1>1, <1>5, <2>1, <2>2, <2>3, Zenon DEF BudgetInv, TypeOK, SwapSession
<1> QED BY <1>2, <1>3, <1>4, <1>5, Zenon

\* TypeOK of AggregateTimer: no ticket exceeds two intervals' worth (max_carry),
\* the budget is within the same from the tick to the deduction, and within twice
\* that between two ticks, when what was not delivered has been added back; for
\* any number of streams and any order of ticks and sessions.
THEOREM SpecTypeOK == Spec => []TypeOK
<1>1. Init => BudgetInv
  <2> SUFFICES ASSUME Init PROVE BudgetInv OBVIOUS
  <2>1. Zero \in [Streams -> 0 .. MaxBacklog] /\ Zero \in [Streams -> 0 .. max_carry]
    BY CarryType, TimerAssumption DEF Zero
  <2>2. 0 \in 0 .. 2 * max_carry /\ 0 \in 0 .. max_carry /\ 0 \in Nat /\ 0 \in Int
        /\ 1 \in 1 .. MaxSessions
    BY CarryType, TimerAssumption
  <2>3. pc \notin InTick /\ pc # "deliver" /\ mgr # "sampled" BY DEF Init, InTick
  <2> QED BY <2>1, <2>2, <2>3, Zenon DEF Init, BudgetInv, TypeOK
<1>2. BudgetInv /\ [Next]_vars => BudgetInv'
  BY StreamTypes, TimerTypes, SessionTypes, Zenon DEF Next
<1>3. BudgetInv => TypeOK BY Zenon DEF BudgetInv
<1> QED BY <1>1, <1>2, <1>3, PTL DEF Spec

-----------------------------------------------------------------------------
(* RateParams *)

\* What \div 1000 computes.
LEMMA Thousandth ==
    ASSUME NEW x \in Nat
    PROVE  /\ x \div 1000 \in Nat
           /\ (x \div 1000) * 1000 <= x /\ x < ((x \div 1000) + 1) * 1000
  OBVIOUS

\* From 80 bit/s on, from_rate_bps yields an interval within its limits and a
\* budget that is positive (the assumption on PER_TICK) and the largest whole
\* number of bytes that the rate allows in the interval.
THEOREM BudgetMatchesRate ==
    ASSUME NEW rate_bps \in Nat, rate_bps >= 80
    PROVE  LET rate     == rate_bytes_per_sec(rate_bps)
               interval == interval_ms(rate, 16384)
               budget   == budget_bytes(rate, 16384)
           IN  /\ interval \in MIN_INTERVAL_MS .. MAX_INTERVAL_MS
               /\ budget * 1000 <= rate * interval /\ rate * interval < (budget + 1) * 1000
               /\ budget >= 1
<1> DEFINE rate == rate_bytes_per_sec(rate_bps)
           ideal == (CHUNKS_PER_TICK * 16384 * 1000) \div rate
           interval == interval_ms(rate, 16384)
           budget == budget_bytes(rate, 16384)
<1>1. rate \in Nat /\ rate >= 10
  BY DEF rate_bytes_per_sec
<1>2. ideal \in Nat /\ (rate <= 1310720 => ideal >= 100)
  BY <1>1 DEF CHUNKS_PER_TICK
<1>3. /\ interval \in MIN_INTERVAL_MS .. MAX_INTERVAL_MS
      /\ rate <= 1310720 => interval = 100
  BY <1>2 DEF interval_ms, clamp, MIN_INTERVAL_MS, MAX_INTERVAL_MS
<1>4. rate * interval \in Nat /\ rate * interval >= 1000
  BY <1>1, <1>3 DEF MIN_INTERVAL_MS, MAX_INTERVAL_MS
<1>5. budget = (rate * interval) \div 1000
  BY DEF budget_bytes
<1>6. /\ budget \in Nat
      /\ budget * 1000 <= rate * interval /\ rate * interval < (budget + 1) * 1000
  BY <1>4, <1>5, Thousandth
<1> QED
  BY <1>3, <1>4, <1>6
=============================================================================
