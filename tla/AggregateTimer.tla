--------------------------- MODULE AggregateTimer ---------------------------
(***************************************************************************)
(* The aggregate rate limiter of a capped agent (rate_limiter.rs): the     *)
(* timer task that turns the rate into tickets, the two tables it shares   *)
(* with the tasks that register and deregister streams, and the baseline   *)
(* of wire bytes it shares with the session manager, which installs a new  *)
(* session after every reconnect.                                          *)
(*                                                                         *)
(* Each step of the timer ends where the code takes a lock or touches an   *)
(* atomic, so the other tasks come in between.  The scheduler is seen      *)
(* through its contract (DrrContract); the pump of a stream through the    *)
(* tickets it takes and the bytes it puts on the wire.                     *)
(***************************************************************************)
EXTENDS DrrContract

CONSTANTS
    Streams,       \* uuids of bulk uplinks
    PER_TICK,      \* budget_bytes
    MaxBacklog,    \* bound: bytes waiting in one spool
    MaxWire,       \* bound: bytes put on the wire by all sessions
    MaxSessions    \* bound: sessions installed

ASSUME TimerAssumption ==
    /\ IsFiniteSet(Streams)
    /\ PER_TICK \in Nat \ {0} /\ MaxBacklog \in Nat
    /\ MaxWire \in Nat /\ MaxSessions \in Nat \ {0}

VARIABLES
    stage,       \* of each stream: "none", "registering", "live", "leaving", "gone"
    sched,       \* uuids in the DrrScheduler
    table,       \* keys of the `streams` map
    alive,       \* streams whose alloc_rx still exists
    backlog,     \* head_offset - q_atomic
    alloc,       \* ticket in the channel of depth one; 0 = empty
    pc,          \* of the timer task: the step that comes next
    available_budget,
    snapshot, seen,              \* uuids of the snapshot and their backlogs
    allocs, delivered, closed_streams,
    loaded, wire_now,            \* baseline and wire bytes as the timer read them
    wire_baseline,
    wire,        \* wire_bytes_sent of the installed session
    mgr, base,   \* set_session: "run", "sampled", "swapped"; the sample
    sessions,    \* sessions installed so far
    \* history
    total,       \* bytes the sessions have put on the wire
    uncharged,   \* these, less the bytes deducted from the budget
    straddled    \* a tick has made its deduction while set_session was between
                 \* the swap of the session and the store of the baseline

streamVars == <<stage, alive, backlog>>
tickVars   == <<available_budget, snapshot, seen, allocs, delivered, closed_streams,
                loaded, wire_now>>
mgrVars    == <<mgr, base, sessions>>
historyVars == <<total, uncharged, straddled>>

vars == <<streamVars, sched, table, alloc, pc, tickVars, wire_baseline,
          wire, mgrVars, historyVars>>

max_carry == 2 * PER_TICK

Zero == [u \in Streams |-> 0]

Least(a, b) == IF a <= b THEN a ELSE b

saturating_sub(a, b) == IF a >= b THEN a - b ELSE 0

\* From the accumulation of a tick to its deduction.
InTick == {"schedule", "deliver", "load", "sample", "deduct"}

TypeOK ==
    /\ stage \in [Streams -> {"none", "registering", "live", "leaving", "gone"}]
    /\ sched \subseteq Streams /\ table \subseteq Streams /\ alive \subseteq Streams
    /\ backlog \in [Streams -> 0 .. MaxBacklog]
    /\ alloc \in [Streams -> 0 .. max_carry]
    /\ pc \in {"tick", "schedule", "deliver", "load", "sample", "deduct", "untable", "unschedule"}
    /\ available_budget \in 0 .. 2 * max_carry /\ delivered \in 0 .. max_carry
    /\ pc \in InTick => available_budget <= max_carry
    /\ snapshot \subseteq Streams /\ closed_streams \subseteq Streams
    /\ seen \in [Streams -> 0 .. MaxBacklog] /\ allocs \in [Streams -> 0 .. max_carry]
    /\ {loaded, wire_now, wire_baseline, wire, base, total} \subseteq Nat 
    /\ uncharged \in Int /\ straddled \in BOOLEAN
    /\ mgr \in {"run", "sampled", "swapped"} /\ sessions \in 1 .. MaxSessions

-----------------------------------------------------------------------------
(* register and deregister: the scheduler first, then the table *)

register_scheduler(u) ==
    /\ stage[u] = "none"
    /\ stage' = [stage EXCEPT ![u] = "registering"]
    /\ sched' = sched \union {u}
    /\ UNCHANGED <<alive, backlog, table, alloc, pc, tickVars,
                   wire_baseline, wire, mgrVars, historyVars>>

register_table(u) ==
    /\ stage[u] = "registering"
    /\ stage' = [stage EXCEPT ![u] = "live"]
    /\ table' = table \union {u} /\ alive' = alive \union {u}
    /\ UNCHANGED <<backlog, sched, alloc, pc, tickVars,
                   wire_baseline, wire, mgrVars, historyVars>>

\* spawn_uplink cannot bind its port: alloc_rx is dropped, both entries stay, and
\* the request, which is still pending, registers again when it is retried.
OpenFails(u) ==
    /\ stage[u] = "registering"
    /\ stage' = [stage EXCEPT ![u] = "none"]
    /\ table' = table \union {u}
    /\ UNCHANGED <<alive, backlog, sched, alloc, pc, tickVars,
                   wire_baseline, wire, mgrVars, historyVars>>

deregister_scheduler(u) ==
    /\ stage[u] = "live"
    /\ stage' = [stage EXCEPT ![u] = "leaving"]
    /\ sched' = sched \ {u}
    /\ UNCHANGED <<alive, backlog, table, alloc, pc, tickVars,
                   wire_baseline, wire, mgrVars, historyVars>>

deregister_table(u) ==
    /\ stage[u] = "leaving"
    /\ stage' = [stage EXCEPT ![u] = "gone"]
    /\ table' = table \ {u}
    /\ UNCHANGED <<alive, backlog, sched, alloc, pc, tickVars,
                   wire_baseline, wire, mgrVars, historyVars>>

-----------------------------------------------------------------------------
(* A stream's client and pump *)

Push(u) ==
    /\ u \in alive /\ stage[u] = "live" /\ backlog[u] < MaxBacklog
    /\ backlog' = [backlog EXCEPT ![u] = @ + 1]
    /\ UNCHANGED <<stage, alive, sched, table, alloc, pc, tickVars,
                   wire_baseline, wire, mgrVars, historyVars>>

\* The pump takes its ticket and writes n bytes: what the ticket and the spool
\* allow, less if a write fails, none while the link is down. The rest of the
\* ticket is discarded. Packet headers, acknowledgements and retransmissions put
\* `extra` bytes on the wire.
Drain(u, n, extra) ==
    /\ u \in alive /\ alloc[u] > 0
    /\ n <= backlog[u] /\ n <= alloc[u] /\ total + n + extra <= MaxWire
    /\ alloc' = [alloc EXCEPT ![u] = 0]
    /\ backlog' = [backlog EXCEPT ![u] = @ - n]
    /\ wire' = wire + n + extra /\ total' = total + n + extra
    /\ uncharged' = uncharged + n + extra
    /\ UNCHANGED <<stage, alive, sched, table, pc, tickVars, wire_baseline, mgrVars,
                   straddled>>

\* The pump returns: everything sent after Finish, or its channels are closed.
PumpExit(u) ==
    /\ u \in alive /\ (backlog[u] = 0 \/ stage[u] = "gone")
    /\ alive' = alive \ {u}
    /\ alloc' = [alloc EXCEPT ![u] = 0]
    /\ UNCHANGED <<stage, backlog, sched, table, pc, tickVars,
                   wire_baseline, wire, mgrVars, historyVars>>

-----------------------------------------------------------------------------
(* AggregateTimerTask::run *)

\* Mutant: the carry is not clamped.
AddUnclamped == available_budget' = available_budget + PER_TICK

Accumulate == available_budget' = Least(available_budget + PER_TICK, max_carry)

\* The tick, and the snapshot under the lock of the table.
Tick ==
    /\ pc = "tick"
    /\ Accumulate
    /\ snapshot' = table
    /\ seen' = [u \in Streams |-> IF u \in table THEN backlog[u] ELSE 0]
    /\ pc' = "schedule"
    /\ UNCHANGED <<streamVars, sched, table, alloc, allocs, delivered,
                   closed_streams, loaded, wire_now, wire_baseline, wire, mgrVars,
                   historyVars>>

\* Mutant: set_backlog is not called.
NotReported == Zero

\* set_backlog for the snapshot. A stream that registered after the snapshot
\* still has the backlog 0 of a new entry.
Reported == [u \in Streams |-> IF u \in sched \intersect snapshot THEN seen[u] ELSE 0]

\* set_backlog and schedule, under the lock of the scheduler.
Schedule ==
    /\ pc = "schedule"
    /\ allocs' \in {a \in [Streams -> 0 .. max_carry] :
                        Divides(a, available_budget, Reported, sched)}
    /\ pc' = "deliver"
    /\ UNCHANGED <<streamVars, sched, table, alloc, available_budget, snapshot, seen,
                   delivered, closed_streams, loaded, wire_now, wire_baseline, wire,
                   mgrVars, historyVars>>

\* Mutant: a full channel is taken for a closed one.
ClosedOrFull == {u \in snapshot : allocs[u] > 0 /\ (u \notin alive \/ alloc[u] > 0)}

Closed == {u \in snapshot : allocs[u] > 0 /\ u \notin alive}

Accepting == {u \in snapshot \intersect alive : allocs[u] > 0 /\ alloc[u] = 0}

Accepted == MapThenSumSet(LAMBDA u : allocs[u], Accepting)

\* try_send to each stream of the snapshot.
Deliver ==
    /\ pc = "deliver"
    /\ alloc' = [u \in Streams |-> IF u \in Accepting THEN allocs[u] ELSE alloc[u]]
    /\ delivered' = Accepted
    /\ closed_streams' = Closed
    /\ snapshot' = {} /\ seen' = Zero /\ allocs' = Zero
    /\ pc' = "load"
    /\ UNCHANGED <<streamVars, sched, table, available_budget, loaded,
                   wire_now, wire_baseline, wire, mgrVars, historyVars>>

LoadBaseline ==
    /\ pc = "load"
    /\ loaded' = wire_baseline
    /\ pc' = "sample"
    /\ UNCHANGED <<streamVars, sched, table, alloc, available_budget,
                   snapshot, seen, allocs, delivered, closed_streams, wire_now,
                   wire_baseline, wire, mgrVars, historyVars>>

SampleWire ==
    /\ pc = "sample"
    /\ wire_now' = wire
    /\ pc' = "deduct"
    /\ UNCHANGED <<streamVars, sched, table, alloc, available_budget,
                   snapshot, seen, allocs, delivered, closed_streams, loaded,
                   wire_baseline, wire, mgrVars, historyVars>>

wire_delta == saturating_sub(wire_now, loaded)

\* Mutant: the baseline stays what it was when the session was installed.
BaselineKept == UNCHANGED wire_baseline

StoreBaseline == wire_baseline' = wire_now

\* The wire bytes are deducted, what no pump accepted is added back.
Deduct ==
    /\ pc = "deduct"
    /\ StoreBaseline
    /\ uncharged' = uncharged - wire_delta
    /\ straddled' = (straddled \/ mgr = "swapped")
    /\ available_budget' = saturating_sub(available_budget, wire_delta)
                            + saturating_sub(available_budget, delivered)
    /\ delivered' = 0 /\ loaded' = 0 /\ wire_now' = 0
    /\ pc' = IF closed_streams = {} THEN "tick" ELSE "untable"
    /\ UNCHANGED <<streamVars, sched, table, alloc, snapshot, seen, allocs,
                   closed_streams, wire, mgrVars, total>>

CleanTable ==
    /\ pc = "untable"
    /\ table' = table \ closed_streams
    /\ pc' = "unschedule"
    /\ UNCHANGED <<streamVars, sched, alloc, tickVars, wire_baseline, wire,
                   mgrVars, historyVars>>

CleanScheduler ==
    /\ pc = "unschedule"
    /\ sched' = sched \ closed_streams
    /\ closed_streams' = {}
    /\ pc' = "tick"
    /\ UNCHANGED <<streamVars, table, alloc, available_budget, snapshot,
                   seen, allocs, delivered, loaded, wire_now, wire_baseline, wire,
                   mgrVars, historyVars>>

-----------------------------------------------------------------------------
(* set_session *)

\* wire_bytes_sent of the new session, which has done its handshake.
SampleNew ==
    /\ mgr = "run" /\ sessions < MaxSessions
    /\ base' \in 0 .. 1
    /\ mgr' = "sampled"
    /\ UNCHANGED <<streamVars, sched, table, alloc, pc, tickVars,
                   wire_baseline, wire, sessions, historyVars>>

\* Under the lock of the session.
SwapSession ==
    /\ mgr = "sampled" /\ total + base <= MaxWire
    /\ wire' = base /\ total' = total + base /\ uncharged' = uncharged + base
    /\ sessions' = sessions + 1
    /\ mgr' = "swapped"
    /\ UNCHANGED <<streamVars, sched, table, alloc, pc, tickVars,
                   wire_baseline, base, straddled>>

StoreNew ==
    /\ mgr = "swapped"
    /\ wire_baseline' = base
    /\ base' = 0 /\ mgr' = "run"
    /\ UNCHANGED <<streamVars, sched, table, alloc, pc, tickVars, wire,
                   sessions, historyVars>>

-----------------------------------------------------------------------------
Init ==
    /\ stage = [u \in Streams |-> "none"]
    /\ sched = {} /\ table = {} /\ alive = {}
    /\ backlog = Zero /\ alloc = Zero
    /\ pc = "tick" /\ available_budget = 0
    /\ snapshot = {} /\ seen = Zero /\ allocs = Zero
    /\ delivered = 0 /\ closed_streams = {} /\ loaded = 0 /\ wire_now = 0
    /\ wire_baseline = 0 /\ wire = 0
    /\ mgr = "run" /\ base = 0 /\ sessions = 1
    /\ total = 0 /\ uncharged = 0 /\ straddled = FALSE

TimerTask ==
    \/ Tick \/ Schedule \/ Deliver \/ LoadBaseline \/ SampleWire \/ Deduct
    \/ CleanTable \/ CleanScheduler

Deregister(u) == deregister_scheduler(u) \/ deregister_table(u)

Next ==
    \/ \E u \in Streams :
          \/ register_scheduler(u) \/ register_table(u) \/ OpenFails(u) \/ Deregister(u)
          \/ Push(u) \/ PumpExit(u)
          \/ \E n \in 0 .. MaxBacklog, extra \in 0 .. 1 : Drain(u, n, extra)
    \/ TimerTask
    \/ SampleNew \/ SwapSession \/ StoreNew

Spec == Init /\ [][Next]_vars

-----------------------------------------------------------------------------
(* Properties *)

\* A stream whose pump runs is in both tables from the end of register to the
\* start of deregister, also when an open that failed has left its entries behind,
\* and one that has deregistered is in neither: the timer's cleanup, which acts on
\* what try_send found some steps earlier, removes no stream that still transmits,
\* and nothing brings back one that has left.
TablesAgree ==
    \A u \in Streams :
        /\ stage[u] = "live" /\ u \in alive => u \in sched /\ u \in table
        /\ stage[u] = "gone" => u \notin sched /\ u \notin table

\* As long as no tick makes its deduction between the swap of the session and
\* the store of its baseline in set_session, no byte on the wire is deducted from
\* the budget twice: not when the session is replaced between the timer's load of
\* the baseline, its sample of the wire and its store, nor when set_session's store
\* comes between them. (A tick in that window deducts what the new session has
\* sent, and the next one deducts it again.)
ChargedOnce == ~straddled => uncharged >= 0

\* The ticks go on, and the scheduler lets no stream starve (NoStarvation of
\* DrrScheduler).
FairSpec ==
    /\ Spec
    /\ WF_vars(TimerTask)
    /\ \A u \in Streams : SF_vars(Schedule /\ allocs'[u] > 0)

\* A stream with bytes to send gets a ticket: the budget does not stay used up,
\* also when what is deducted exceeds it.
TicketArrives ==
    \A u \in Streams :
        stage[u] = "live" /\ u \in alive /\ backlog[u] > 0
            ~> alloc[u] > 0 \/ backlog[u] = 0 \/ stage[u] # "live" \/ u \notin alive
=============================================================================
