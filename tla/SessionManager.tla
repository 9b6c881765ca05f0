--------------------------- MODULE SessionManager ---------------------------
(***************************************************************************)
(* The session manager of one agent (session_manager.rs): the command loop *)
(* with its two sources (link state and commands), the reconnect path, the *)
(* accept loop, and the admission of uplink streams: active slots and the  *)
(* priority-ordered pending queue.                                         *)
(*                                                                         *)
(*   Client*         calls of the local clients (thrift_srv.rs)            *)
(*   Agent*          Agent::run, which forwards them (agent.rs)            *)
(*   Ack*            the uplinks' AckTasks                                 *)
(*   Run*            SessionManager::run and what it calls                 *)
(*   Accept*         SessionManager::accept_loop                           *)
(*   Link*           the QUIC connection (external)                        *)
(*                                                                         *)
(* run() is one task and does not return to its select before a command,   *)
(* or a reconnect, is completely handled: each is one step here. Sessions  *)
(* are numbered; `gen` is the one whose link state run() watches.          *)
(***************************************************************************)
EXTENDS Queues, Functions

CONSTANTS
    Streams,           \* requests of the local clients, named by their UUIDs
    Priority,          \* priority of each request
    Pollers,           \* clients that call get_conn_stats
    MAX_CONCURRENT,    \* active slots; 0 = unlimited
    MAX_PENDING,       \* depth of the pending queue
    AGENT_CAPACITY,    \* AgentCmd channel, and the one command Agent::run holds (65)
    CMD_CAPACITY,      \* SessionCommand channel (64 in the code)
    STREAM_CAPACITY,   \* UplinkHandle::stream_tx (4 in the code)
    MaxGen,            \* bound: sessions, i.e. link failures + 1
    MaxFaults,         \* bound: opens that fail although the link is up
    HookLimits,        \* limits that set_max_concurrent may install
    MaxHooks           \* bound: test-hook commands; 0 is a production build

ASSUME SessionAssumption ==
    /\ Priority \in [Streams -> Int]
    /\ MAX_CONCURRENT \in Nat /\ MAX_PENDING \in Nat
    /\ Pollers \intersect Streams = {}
    /\ AGENT_CAPACITY \in Nat \ {0}
    /\ CMD_CAPACITY \in Nat \ {0} /\ STREAM_CAPACITY \in Nat \ {0}
    /\ MaxGen \in Nat \ {0} /\ MaxFaults \in Nat
    /\ HookLimits \subseteq Nat /\ MaxHooks \in Nat

Gens == 1 .. MaxGen

VARIABLES
    link,              \* the connection of session `gen` is alive
    gen,               \* newest session
    session,           \* remote.session; 0 = None
    link_state,        \* what get_link_state reports
    state_changed,     \* state_rx has a change (to Failed) run() has not seen
    run,               \* "select" or "reconnect" (inside reconnect_loop)
    accept,            \* accept_loop: "top", "accept", "header" or "wait"
    accept_session,    \* the session it accepts on
    session_restored,  \* stored permit of the Notify
    agent_rx,          \* AgentCmd queue
    cmd_rx,            \* SessionCommand queue
    reply,             \* the answer each caller waits for, or has
    pending,           \* RemoteState::pending
    active_uplinks,    \* UUIDs with an UplinkHandle
    max_concurrent,    \* 0 = None
    running,           \* uplinks whose AckTask lives
    fresh,             \* fresh streams queued for each AckTask
    ended,             \* uplinks whose AckTask has returned
    status,            \* the last QueueStatus callback
    faults, hooks      \* bounds used up

linkVars   == <<link, gen>>
runVars    == <<session, link_state, state_changed, run>>
acceptVars == <<accept, accept_session, session_restored>>
queueVars  == <<pending, active_uplinks, max_concurrent, status>>
taskVars   == <<running, fresh, ended>>
boundVars  == <<faults, hooks>>

vars == <<linkVars, runVars, acceptVars, agent_rx, cmd_rx, reply, queueVars, taskVars, boundVars>>

StreamStart(u)      == [op |-> "StreamStart", arg |-> u]
StreamFinished(u)   == [op |-> "StreamFinished", arg |-> u]
LinkEnable          == [op |-> "LinkEnable", arg |-> 0]
GetConnStats(p)     == [op |-> "GetConnStats", arg |-> p]
SetMaxConcurrent(n) == [op |-> "SetMaxConcurrent", arg |-> n]

CmdType ==
    [op : {"StreamStart", "StreamFinished"}, arg : Streams]
        \union [op : {"GetConnStats"}, arg : Pollers]
        \union [op : {"LinkEnable"}, arg : {0}]
        \union [op : {"SetMaxConcurrent"}, arg : HookLimits]

TypeOK ==
    /\ link \in BOOLEAN /\ gen \in Gens
    /\ session \in {0, gen}
    /\ link_state \in {"Normal", "Failed"}
    /\ state_changed \in BOOLEAN
    /\ run \in {"select", "reconnect"}
    /\ accept \in {"top", "accept", "header", "wait"}
    /\ accept_session \in Gens /\ session_restored \in BOOLEAN
    /\ cmd_rx \in Seq(CmdType) /\ agent_rx \in Seq(CmdType)
    /\ reply \in [Streams \union Pollers ->
                    {"none", "waiting", "RUNNING", "PENDING", "QUEUE_FULL", "STATS"}]
    /\ pending \in Seq(Streams)
    /\ active_uplinks \in SUBSET Streams
    /\ max_concurrent \in Nat
    /\ running \in SUBSET Streams /\ ended \in SUBSET Streams
    /\ fresh \in [Streams -> 0 .. STREAM_CAPACITY]
    /\ status \in [active : Nat, pending : Seq(Streams)]
    /\ faults \in Nat /\ hooks \in Nat

-----------------------------------------------------------------------------
(* RemoteState *)

\* Mutant: one stream too many.
HasSlotOffByOne(active, max) == max = 0 \/ Cardinality(active) <= max

has_active_slot(active, max) == max = 0 \/ Cardinality(active) < max

pending_queue_full == Len(pending) >= MAX_PENDING

\* Mutants: a new request goes before those of equal priority; to the end.
EnqueueBeforeEqual(u) ==
    LET before == {i \in 1 .. Len(pending) : Priority[pending[i]] > Priority[u]}
    IN  InsertAt(pending, Cardinality(before) + 1, u)

EnqueueLast(u) == Append(pending, u)

\* enqueue: before the first entry of strictly lower priority, else at the end.
enqueue(u) == InsertByPriority(pending, Priority, u)

send_queue_status(active, queue) ==
    status' = [active |-> Cardinality(active), pending |-> queue]

-----------------------------------------------------------------------------
(* The connection (external) *)

LinkLost ==
    /\ link /\ gen < MaxGen
    /\ link' = FALSE
    /\ UNCHANGED <<gen, runVars, acceptVars, agent_rx, cmd_rx, reply, queueVars, taskVars, boundVars>>

-----------------------------------------------------------------------------
(* The local clients and Agent::run *)

HasRoom == Len(cmd_rx) < CMD_CAPACITY

\* The Thrift thread blocks until the AgentCmd channel takes the command.
send_cmd(cmd) ==
    /\ Len(agent_rx) < AGENT_CAPACITY
    /\ agent_rx' = Append(agent_rx, cmd)

\* handle_stream_start; the caller blocks for the reply.
ClientStreamStart(u) ==
    /\ reply[u] = "none"
    /\ send_cmd(StreamStart(u))
    /\ reply' = [reply EXCEPT ![u] = "waiting"]
    /\ UNCHANGED <<linkVars, runVars, acceptVars, cmd_rx, queueVars, taskVars, boundVars>>

\* handle_get_conn_stats; the caller blocks for the reply.
ClientGetConnStats(p) ==
    /\ reply[p] = "none"
    /\ send_cmd(GetConnStats(p))
    /\ reply' = [reply EXCEPT ![p] = "waiting"]
    /\ UNCHANGED <<linkVars, runVars, acceptVars, cmd_rx, queueVars, taskVars, boundVars>>

\* handle_link_enable(false) and handle_set_max_concurrent (test-hooks builds).
ClientHook ==
    /\ hooks < MaxHooks
    /\ hooks' = hooks + 1
    /\ send_cmd(LinkEnable) \/ \E n \in HookLimits : send_cmd(SetMaxConcurrent(n))
    /\ UNCHANGED <<linkVars, runVars, acceptVars, cmd_rx, reply, queueVars, taskVars, faults>>

\* Agent::run forwards one command at a time, in order, waiting for room.
AgentForward ==
    /\ agent_rx # <<>> /\ HasRoom
    /\ agent_rx' = Tail(agent_rx)
    /\ cmd_rx' = Append(cmd_rx, Head(agent_rx))
    /\ UNCHANGED <<linkVars, runVars, acceptVars, reply, queueVars, taskVars, boundVars>>

-----------------------------------------------------------------------------
(* The uplinks' AckTasks *)

\* AckTask takes a fresh stream in on_stream_error.
AckNewStream(u) ==
    /\ u \in running /\ fresh[u] > 0
    /\ fresh' = [fresh EXCEPT ![u] = @ - 1]
    /\ UNCHANGED <<linkVars, runVars, acceptVars, agent_rx, cmd_rx, reply, queueVars,
                   running, ended, boundVars>>

\* AckTask::run_inner returns, for whatever reason, and the task drops its
\* end of the stream channel when run() has sent StreamFinished.
AckEnd(u) ==
    /\ u \in running
    /\ HasRoom
    /\ cmd_rx' = Append(cmd_rx, StreamFinished(u))
    /\ running' = running \ {u} /\ ended' = ended \union {u}
    /\ fresh' = [fresh EXCEPT ![u] = 0]
    /\ UNCHANGED <<linkVars, runVars, acceptVars, agent_rx, reply, queueVars, boundVars>>

-----------------------------------------------------------------------------
(* SessionManager::run *)

Cmd(op) == run = "select" /\ cmd_rx # <<>> /\ Head(cmd_rx).op = op

\* open_stream_on_session on the live session: it fails when the connection is
\* gone, and, as one of MaxFaults, when no port can be bound.
Opens == link /\ UNCHANGED faults

OpenFails ==
    \/ ~link /\ UNCHANGED faults
    \/ link /\ faults < MaxFaults /\ faults' = faults + 1

StartUplinks(us) ==
    /\ running' = running \union us
    /\ UNCHANGED <<fresh, ended>>

\* on_stream_start, the stream is opened at once.
RunStartOpened ==
    /\ Cmd("StreamStart")
    /\ LET u == Head(cmd_rx).arg IN
       /\ has_active_slot(active_uplinks, max_concurrent) /\ Opens
       /\ send_queue_status(active_uplinks, pending)
       /\ active_uplinks' = active_uplinks \union {u}
       /\ StartUplinks({u})
       /\ reply' = [reply EXCEPT ![u] = "RUNNING"]
    /\ cmd_rx' = Tail(cmd_rx)
    /\ UNCHANGED <<linkVars, runVars, acceptVars, agent_rx, pending, max_concurrent, hooks>>

Reject(u) == reply' = [reply EXCEPT ![u] = "QUEUE_FULL"]

\* on_stream_start, no slot or the open failed: queued if there is room.
RunStartQueued ==
    /\ Cmd("StreamStart")
    /\ \/ ~has_active_slot(active_uplinks, max_concurrent) /\ UNCHANGED faults
       \/ has_active_slot(active_uplinks, max_concurrent) /\ OpenFails
    /\ LET u == Head(cmd_rx).arg IN
       IF pending_queue_full
       THEN Reject(u) /\ UNCHANGED pending
       ELSE /\ reply' = [reply EXCEPT ![u] = "PENDING"]
            /\ pending' = enqueue(u)
    /\ send_queue_status(active_uplinks, pending')
    /\ cmd_rx' = Tail(cmd_rx)
    /\ UNCHANGED <<linkVars, runVars, acceptVars, agent_rx, active_uplinks, max_concurrent,
                   taskVars, hooks>>

\* Mutant: a freed slot is left alone.
PromoteNothing(active, max) ==
    active_uplinks' = active /\ UNCHANGED <<pending, taskVars, faults>>

\* Mutant: the promoted request stays in the queue.
StaysQueued == UNCHANGED pending

Dequeue == pending' = Tail(pending)

\* promote_pending: the front of the queue, and only it, is opened.
promote_pending(active, max) ==
    \/ /\ pending # <<>> /\ has_active_slot(active, max) /\ Opens
       /\ active_uplinks' = active \union {Head(pending)}
       /\ Dequeue
       /\ StartUplinks({Head(pending)})
    \/ /\ \/ (pending = <<>> \/ ~has_active_slot(active, max)) /\ UNCHANGED faults
          \/ pending # <<>> /\ has_active_slot(active, max) /\ OpenFails
       /\ active_uplinks' = active
       /\ UNCHANGED <<pending, taskVars>>

RunStreamFinished ==
    /\ Cmd("StreamFinished")
    /\ promote_pending(active_uplinks \ {Head(cmd_rx).arg}, max_concurrent)
    /\ send_queue_status(active_uplinks', pending')
    /\ cmd_rx' = Tail(cmd_rx)
    /\ UNCHANGED <<linkVars, runVars, acceptVars, agent_rx, reply, max_concurrent, hooks>>

RunSetMaxConcurrent ==
    /\ Cmd("SetMaxConcurrent")
    /\ max_concurrent' = Head(cmd_rx).arg
    /\ promote_pending(active_uplinks, max_concurrent')
    /\ send_queue_status(active_uplinks', pending')
    /\ cmd_rx' = Tail(cmd_rx)
    /\ UNCHANGED <<linkVars, runVars, acceptVars, agent_rx, reply, hooks>>

\* Mutant: the caller of get_conn_stats gets no answer.
NoStats(p) == UNCHANGED reply

SendStats(p) == reply' = [reply EXCEPT ![p] = "STATS"]

\* Answered from the session installed; run() is never at its select without one.
RunGetConnStats ==
    /\ Cmd("GetConnStats")
    /\ SendStats(Head(cmd_rx).arg)
    /\ cmd_rx' = Tail(cmd_rx)
    /\ UNCHANGED <<linkVars, runVars, acceptVars, agent_rx, queueVars, taskVars, boundVars>>

\* link_enable(false): close() on the live session.
RunLinkEnable ==
    /\ Cmd("LinkEnable")
    /\ link' = FALSE /\ state_changed' = TRUE
    /\ cmd_rx' = Tail(cmd_rx)
    /\ UNCHANGED <<gen, session, link_state, run, acceptVars, agent_rx, reply, queueVars,
                   taskVars, boundVars>>

\* The dead session is dropped; active and pending streams stay.
on_link_failed == session' = 0 /\ UNCHANGED queueVars

\* The watch reports Failed: on_link_failed, then reconnect_loop.
RunLinkFailed ==
    /\ run = "select" /\ state_changed
    /\ state_changed' = FALSE
    /\ link_state' = "Failed"
    /\ on_link_failed
    /\ run' = "reconnect"
    /\ UNCHANGED <<linkVars, acceptVars, agent_rx, cmd_rx, reply, taskVars, boundVars>>

\* How a reconnect goes: `served` are the uplinks whose fresh stream could be
\* opened, `ok` the places of the queue that can be opened. The new connection
\* may fail at any point, one open may be a fault.
ReconnectGoes(served, ok) ==
    LET all == 1 .. Len(pending) IN
    \/ /\ link' = TRUE /\ served = active_uplinks
       /\ \/ ok = all /\ UNCHANGED faults
          \/ faults < MaxFaults /\ faults' = faults + 1 /\ \E i \in all : ok = all \ {i}
    \/ /\ link' = FALSE /\ gen + 1 < MaxGen /\ UNCHANGED faults
       /\ \/ served = active_uplinks /\ \E k \in 0 .. Len(pending) : ok = 1 .. k
          \/ ok = {}

\* Mutants: a full channel is ignored; a failed open prunes the handle.
KeptIfFull(served) == active_uplinks \intersect running

KeptIfServed(served) ==
    {u \in active_uplinks \intersect running \intersect served : fresh[u] < STREAM_CAPACITY}

\* restore_active: a handle is pruned if its AckTask has returned, or if its
\* channel has no room for the fresh stream.
Kept(served) ==
    {u \in active_uplinks \intersect running : u \in served => fresh[u] < STREAM_CAPACITY}

\* drain_pending: from the front, as long as there are slots.
Drained(served, ok) ==
    {pending[i] : i \in {i \in ok :
        max_concurrent = 0 \/
        Cardinality(Kept(served)) + Cardinality({j \in ok : j < i}) < max_concurrent}}

\* A new session is installed, the active uplinks are restored, the queue is
\* drained and the accept loop is woken, all under the lock on remote.
RunReconnect ==
    /\ run = "reconnect" /\ gen < MaxGen
    /\ gen' = gen + 1 /\ session' = gen + 1
    /\ link_state' = "Normal" /\ state_changed' = FALSE
    /\ \E served \in SUBSET active_uplinks, ok \in SUBSET (1 .. Len(pending)) :
          /\ ReconnectGoes(served, ok)
          /\ LET started == Drained(served, ok) IN
             /\ active_uplinks' = Kept(served) \union started
             /\ pending' \in Retained(pending, {i \in 1 .. Len(pending) : pending[i] \notin started})
             /\ running' = running \union started
          /\ fresh' = [u \in Streams |->
                IF u \in served \intersect Kept(served) THEN fresh[u] + 1 ELSE fresh[u]]
    /\ session_restored' = TRUE
    /\ run' = "select"
    /\ UNCHANGED <<accept, accept_session, agent_rx, cmd_rx, reply, max_concurrent, ended,
                   status, hooks>>

-----------------------------------------------------------------------------
(* accept_loop *)

\* Snapshot of remote.session; without one, wait for session_restored.
AcceptTop ==
    /\ accept = "top"
    /\ IF session = 0 THEN accept' = "wait" /\ UNCHANGED accept_session
                      ELSE accept' = "accept" /\ accept_session' = session
    /\ UNCHANGED <<session_restored, linkVars, runVars, agent_rx, cmd_rx, reply, queueVars,
                   taskVars, boundVars>>

AcceptAlive == link /\ accept_session = gen

\* A stream is accepted and its header awaited; read_stream_open succeeds or
\* fails, and the loop starts over.
AcceptStream ==
    /\ accept = "accept" /\ AcceptAlive
    /\ accept' = "header"
    /\ UNCHANGED <<accept_session, session_restored, linkVars, runVars, agent_rx, cmd_rx,
                   reply, queueVars, taskVars, boundVars>>

AcceptHeader ==
    /\ accept = "header"
    /\ accept' = "top"
    /\ UNCHANGED <<accept_session, session_restored, linkVars, runVars, agent_rx, cmd_rx,
                   reply, queueVars, taskVars, boundVars>>

\* Mutant: the session is not closed.
NoClose == UNCHANGED state_changed

\* close(): the session's watch turns Failed; run() watches session `gen`.
CloseSession == state_changed' = (state_changed \/ accept_session = gen)

AcceptError ==
    /\ accept = "accept" /\ ~AcceptAlive
    /\ CloseSession
    /\ accept' = "wait"
    /\ UNCHANGED <<accept_session, session_restored, linkVars, session, link_state,
                   run, agent_rx, cmd_rx, reply, queueVars, taskVars, boundVars>>

AcceptWake ==
    /\ accept = "wait" /\ session_restored
    /\ accept' = "top" /\ session_restored' = FALSE
    /\ UNCHANGED <<accept_session, linkVars, runVars, agent_rx, cmd_rx, reply, queueVars,
                   taskVars, boundVars>>

-----------------------------------------------------------------------------
\* RemoteState::new
InitRemote ==
    /\ session = 1
    /\ pending = <<>> /\ active_uplinks = {}
    /\ max_concurrent = MAX_CONCURRENT

Init ==
    /\ link = TRUE /\ gen = 1
    /\ link_state = "Normal" /\ state_changed = FALSE
    /\ run = "select"
    /\ accept = "top" /\ accept_session = 1 /\ session_restored = FALSE
    /\ cmd_rx = <<>> /\ agent_rx = <<>>
    /\ reply = [c \in Streams \union Pollers |-> "none"]
    /\ InitRemote
    /\ running = {} /\ ended = {} /\ fresh = [u \in Streams |-> 0]
    /\ status = [active |-> 0, pending |-> <<>>]
    /\ faults = 0 /\ hooks = 0

RunStep ==
    \/ RunStartOpened \/ RunStartQueued \/ RunStreamFinished \/ RunGetConnStats
    \/ RunSetMaxConcurrent \/ RunLinkEnable \/ RunLinkFailed

AcceptStep == AcceptTop \/ AcceptStream \/ AcceptHeader \/ AcceptError \/ AcceptWake

Next ==
    \/ LinkLost \/ ClientHook \/ AgentForward
    \/ \E p \in Pollers : ClientGetConnStats(p)
    \/ \E u \in Streams : ClientStreamStart(u) \/ AckNewStream(u) \/ AckEnd(u)
    \/ RunStep \/ RunReconnect \/ AcceptStep

Spec == Init /\ [][Next]_vars

-----------------------------------------------------------------------------
(* Safety *)

Waiting == Range(pending)

\* No request is lost or started twice between the command queue, the pending
\* queue and the active uplinks: an accepted request waits exactly once, or has
\* been started exactly once and not forgotten; a rejected one is nowhere.
Accounted ==
    /\ \A i, j \in 1 .. Len(pending) : pending[i] = pending[j] => i = j
    /\ Waiting \intersect (active_uplinks \union running \union ended) = {}
    /\ running \intersect ended = {}
    /\ {u \in Streams : reply[u] \in {"RUNNING", "PENDING"}}
          = Waiting \union running \union ended

\* The pending queue stays in priority order through enqueue, promotion and a
\* drain that may leave entries behind.
PendingSorted ==
    \A i, j \in 1 .. Len(pending) : i < j => Priority[pending[i]] >= Priority[pending[j]]

\* A slot is never idle while a request waits, as long as the session is
\* installed and its connection alive: promote_pending, drain_pending and the
\* pruning of finished uplinks leave no slot unused.
NoIdleSlot ==
    link /\ session = gen /\ pending # <<>>
        => ~has_active_slot(active_uplinks, max_concurrent)

\* Streams are started only into free slots, whichever of stream_start,
\* promotion and drain starts them.
SlotsRespected ==
    [][max_concurrent' # 0 /\ ~(running' \subseteq running)
         => Cardinality(active_uplinks') <= max_concurrent']_vars

Ahead(queue, v) ==
    {u \in Range(queue) : \E i, j \in 1 .. Len(queue) : i < j /\ queue[i] = u /\ queue[j] = v}

\* While a request waits, only requests of strictly higher priority get ahead of
\* it, in the queue or by being started (enqueue: "equal priorities preserve
\* submission order").
NoOvertaking ==
    [][\A v \in Waiting \intersect Waiting' :
          \A u \in (Ahead(pending, v)' \union active_uplinks')
                      \ (Ahead(pending, v) \union active_uplinks) :
              Priority[u] > Priority[v]]_vars

\* An uplink whose AckTask lives keeps its handle, through which it gets fresh
\* streams after an outage; the handle is given up only at a reconnect that
\* finds STREAM_CAPACITY streams queued and not taken.
HandleKept ==
    [][\A u \in running' : u \in active_uplinks /\ u \notin active_uplinks'
          => fresh[u] = STREAM_CAPACITY]_vars

\* The run loop and the accept loop never wait for each other: whenever the
\* accept loop waits for session_restored, its permit is stored, or run() has a
\* failure to see, or is reconnecting and will store one.
NoMutualWait ==
    accept = "wait" => session_restored \/ state_changed \/ run = "reconnect"

-----------------------------------------------------------------------------
(* Liveness *)

\* The tasks run, an uplink ends at some time, and an AckTask takes the
\* streams it is given.
TaskFairness ==
    /\ WF_vars(AgentForward) /\ WF_vars(RunStep) /\ WF_vars(RunLinkFailed) /\ WF_vars(AcceptStep)
    /\ WF_vars(AcceptHeader)
    /\ \A u \in Streams : WF_vars(AckEnd(u))

\* reconnect_loop retries until it succeeds.
FairSpec == Spec /\ TaskFairness /\ WF_vars(RunReconnect)

\* Every stream_start and get_conn_stats call is answered, although the command
\* passes two bounded queues that StreamFinished shares and run() stops serving
\* them while it reconnects.
CallsAnswered ==
    \A c \in Streams \union Pollers : reply[c] = "waiting" ~> reply[c] # "waiting"

\* A request that was queued is started ("wait for stream_started callback").
PendingServed == \A u \in Streams : reply[u] = "PENDING" ~> u \in running \union ended

\* After a link failure the run loop and the accept loop, which wait for each
\* other through the watch and session_restored, both end up on a new session
\* (unless the bound on sessions is reached).
Recovers ==
    (~link /\ gen < MaxGen) ~>
        \/ session = gen /\ accept_session = gen /\ accept # "wait"
        \/ ~link /\ gen = MaxGen
=============================================================================
