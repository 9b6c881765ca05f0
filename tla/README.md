# A TLA+ model of quelay

quelay relays byte streams between two agents over one QUIC connection that may
fail and come back. A client hands its agent a stream over TCP; the agent keeps a
bounded spool of what the peer has not acknowledged, sends it in chunks under an
aggregate rate cap, and replays the spool on a fresh QUIC stream after a
reconnect. This directory holds TLA+ specifications of that machinery, the TLC
configurations that check them on small instances, and TLAPS proofs.

## Parts of the system

| part | source | state | operations | model |
|---|---|---|---|---|
| uplink stream | `active_stream.rs`, `rate_limiter.rs` | spool A/Q/T, pump cursor and commands, ack task, fresh-stream channel | TCP read and back-pressure, ticket, chunk write, Finish/FIN, LinkDown/LinkUp, acks, end | `SpoolBuffer`, `StreamRelay`, `RelayModes` |
| downlink stream | `active_stream.rs` | bytes written, last ack, fresh-stream channel | read chunk, skip duplicate, write, ack, Done/Error, wait for a fresh stream | `StreamRelay` |
| stream contract | all of the above | bytes accepted and delivered, confirmation | | `ByteRelay` |
| uncapped mode | `rate_limiter.rs` | shared Notify | forwarder loop | `RelayModes` |
| session manager | `session_manager.rs` | session, command queue, pending queue, active uplinks | stream_start, StreamFinished, get_conn_stats, reconnect (restore + drain), promotion, accept loop, test hooks | `SessionManager`, `Queues` |
| Thrift C2I, agent loop | `thrift_srv.rs`, `agent.rs` | command channel | send_cmd, forward | `SessionManager` |
| DRR scheduler | `scheduler.rs`, `priority.rs` | stream table, deficits, rotation, strict queue | register, deregister, set_backlog, set_quantum, schedule | `DrrScheduler`, `DrrContract`, `Queues` |
| aggregate rate limiter | `rate_limiter.rs` | budget carry-over, wire baseline, stream tables | tick, register, deregister, set_session, from_rate_bps | `AggregateTimer`, `RateParams` |
| framing, QUIC stream | `framing.rs`, `stream.rs` | position in the byte stream | write and read headers, chunks, messages | `Framing` |
| callback agent | `callback.rs` | client socket, bounded channel | register, ping, fire | `CallbackAgent` |
| bandwidth test | `bin/bw_cap_test` | dispatch table, tuners, results | route, cut off, kill, verdict | `BwCapTest` |
| QUIC session | `quelay-quic` | link-state watch | open, accept, close | inside `SessionManager`, `StreamRelay` |
| set-up, TLS, mapping, demos | the rest | none | | not modelled |

How they interact: `SessionManager` decides when a stream is opened and hands it
fresh streams after a reconnect. `StreamRelay` follows one stream through both
agents; its messages are the frames of `Framing`, and its tickets are those that
`AggregateTimer` delivers. `AggregateTimer` divides its budget by what
`DrrContract` says of `schedule`, which `DrrScheduler` does turn by turn. The
callbacks a stream ends with pass through `CallbackAgent` to a client such as
`BwCapTest`, which composes both agents' callback threads with the test program.

What makes the system hard: four tasks per uplink and one per downlink share a
spool, notifies and bounded channels; the link can fail between any two of their
steps, taking an arbitrary suffix of both directions with it; each end notices in
its own time; acknowledgements, FIN, Done and headers may be lost; the session
manager and the accept loop wait for each other; and the limiter's timer works on
snapshots of tables that change under it.

## Modules

- **SpoolBuffer** – the spool as a record `bytes_acked` (A), `head` (T or the EOF
  sentinel), `len`, `first` (offset of the first retained byte) with one operator
  per method. Bytes are identified by their offset in the client's stream.
- **StreamRelay** – one rate-capped stream. Actions are named after tasks: `Tcp*`
  (run_tcp_reader), `TimerTicket` (the limiter's tick as one stream sees it),
  `Pump*` (StreamPump), `Ack*` (AckTask with its reader sub-task), `Mgr*` and
  `restore_active` (session manager), `Accept*` and `Down*` (receiving agent),
  `Link*` (the connection). A chunk is a record of its offset (`off`), the
  position its payload was really taken from (`src`) and its length, so that "the
  right bytes were delivered" is `intact`, not an assumption.
- **RelayModes** – `StreamRelay` with the choice of mode made by `RateLimiter::new`.
  Uncapped, the tickets come from a forwarder that waits on the same Notify as the
  ack task (`ForwardWake`, `ForwardSend`).
- **ByteRelay** – what a stream promises its two clients. Both modes implement it
  (`ImplementsByteRelay`): accepted is T, closed is EOF, delivered is
  bytes_written, confirmed is StreamDone at the sender.
- **StreamRelayProofs** – shapes of steps, order of streams, spool and wire, and
  delivery. **StreamRelayRefinement** extends it: completion, the receiver's Done
  under one outage, the refinement, and all of it again for both modes.
- **Queues** – what the pending queue, the strict queue and the round-robin order have
  in common: insertion by priority (`partition_point`, `insert`) and `retain`.
- **SessionManager**, **MCSession** – admission, reconnect and the accept loop of
  one agent, with the Thrift calls and `Agent::run` in front of it.
  **SessionProofs** proves that its two loops never wait for each other, that its
  queue loses nothing and stays in order, and what the limit amounts to.
- **DrrScheduler**, **MCScheduler** – the scheduler, one step per turn of
  `schedule`'s loops, so that what each turn reads and changes is visible.
  **DrrContract** is the result of a whole call, as the timer uses it.
  **SchedulerProofs** has the proofs.
- **AggregateTimer**, **MCLimiter** – the limiter: one step for each stretch of
  `AggregateTimerTask::run` between two awaits or atomic accesses, interleaved with
  register, deregister, opens that fail and are retried (`OpenFails`), the pumps and
  set_session. **RateParams** is `from_rate_bps`. **AggregateTimerProofs** has the proofs.
- **Framing**, **MCFraming** – one half of a QUIC stream as bytes, in the two uses it has:
  a forward half (open header, then chunks) and a reverse half (messages). The writer
  appends whole frames and shuts the half down or drops it, the network delivers any
  number of bytes, the reader asks for the number the code asks for. **FramingProofs** has
  the proofs.
- **DataProofs** – lemmas about the operators of `Queues` and about sums over finite
  sets, used by the proofs of the session manager, the scheduler and the limiter.
- **CallbackAgent** – the callback thread of one agent. **BwCapTest** – the test
  program: callback servers, CIC, one tuner per stream and role, and the verdict,
  composed with two `CallbackAgent`s and with what the two ends of an `ActiveStream`
  tell of it: the receiver writes its Done to the stream (`WormholeDone`) before it
  calls back, so either end's StreamDone may come first. **BwCapProofs** has the proofs.

### Modelling decisions

- *Connection loss* keeps an arbitrary prefix of what is in flight per direction.
  What an end already holds stays readable, so a task may go on reading an old
  stream after the loss. Writes made before the writer notices are covered by the
  suffix that is cut off.
- *Dropping a QUIC stream finishes it* (quinn's documented behaviour), which is how
  a fresh stream that is dropped unused looks like a clean end to the receiver
  (`DropStream` in `Framing`).
- `Notify` permits are stored booleans, as in tokio: one permit, a wake-up without
  a waiter is kept.
- The ack task and its reader sub-task are one actor. Reading a message and acting
  on it are one step.
- `restore_active` and a whole reconnect are single steps: they run under the lock
  on `remote`, in one task. `SessionManager` lets the new connection fail at any
  point of it (`ReconnectGoes`).
- A tick's snapshot of T and Q may be stale when its ticket is delivered, and
  `schedule` may grant more than the backlog, so in `StreamRelay` a ticket of any
  size may come at any time; only its arrival for a stream with backlog is fair,
  which `TicketArrives` justifies.
- `StreamRelay` starts when `open_stream_on_session` has succeeded on connection 1.
- `AGENT_CAPACITY` counts the command that `Agent::run` holds while it waits for
  room: 65 in the code, where the channel has 64 places.
- The hooks of test builds (link_enable, set_max_concurrent) are actions bounded by
  `MaxHooks`; 0 is a production build. link_enable's LinkDown to the pumps is the
  same command that the ack task sends on a stream error in `StreamRelay`.
- Clients choose unique UUIDs; nothing in the code enforces it. `DrrScheduler` lets an
  id be registered again all the same, because the retry of a failed open does that.
- Deficits are machine words: `DEFICIT_WRAP` stands for 2^32 of a release build.
- In `Framing` a byte has `BASE` values instead of 256 and numbers have one or two
  digits, so that every limit is reached; what serde makes of a message is the
  constant `to_vec`.
- `AggregateTimer` keeps two ghosts: `uncharged`, the bytes on the wire that no tick has
  deducted, and `straddled`, whether a tick has made its deduction between the swap and
  the store of set_session. Such a tick measures the new session against the old
  baseline, and the store then puts the baseline behind what it charged.

## Runs

| run | instance | checks |
|---|---|---|
| relay_two_outages | spool 2, chunks up to 2, 3 bytes, all channels of capacity 1, two outages | AckedIsWritten, CursorInSpool, NoGap, DeliveredIntact, SenderDoneMeansComplete, StreamsInOrder, RelayInv (inductive) |
| relay_one_outage | both modes, spool 3, chunks up to 2, one outage | TypeOK, DoneMeansComplete, ImplementsByteRelay; with a cap CappedTransferEnds and CappedBackPressureEnds (up to the outage), CappedPumpFinishes |
| session_service | 3 requests, 1 poller, 1 slot, queue of 2, command channels of 1, two outages | PendingSorted, NoIdleSlot, NoMutualWait, NoOvertaking, CallsAnswered, PendingServed, Recovers |
| session_faults | 3 requests, 1 poller, two outages, a failing open, a changing limit, link_enable | TypeOK, Accounted, SlotsRespected, HandleKept |
| drr | 1 strict, 2 bulk streams, 3 registrations at a time, quanta that change, budgets below and above a round | SchedulerInv (inductive), QueuesMatch, BudgetRespected, WorkConserving, NoStarvation |
| limiter | 2 streams whose opens may fail, one byte per tick, one change of session | TypeOK, TablesAgree, ChargedOnce, TicketArrives |
| framing | bytes of 4 values, up to 4 bytes of data, 3 messages | ReadIsPrefix, EofMeansFin, NoFalseError, ReaderEnds |
| bw_cap | both agents, one stream, channels of capacity 2, one ping each | PassIsReal, VerdictSound, AnswerEndsTuner |

What they show:

- *The stream.* No byte is freed before the receiver has written it, none is
  skipped, repeated or misplaced, and the sender's StreamDone is never a false
  report, whatever two outages cut off. With one outage the receiver's StreamDone
  is true as well, and seen from its clients the relay is `ByteRelay`. With a cap,
  transfers end, and the pump gets through every order of LinkDown, LinkUp, Finish
  and write error.
- *The session manager.* The queue keeps priority and submission order, slots are
  neither exceeded nor left idle, requests are not lost or started twice, every
  call is answered although it passes two bounded queues that nobody drains during
  a reconnect, and the run loop and the accept loop always find each other again.
- *The scheduler and the limiter.* Allocations stay within the budget and use it
  up; no bulk stream starves while the budget exceeds the strict streams' quanta; a
  running stream is never cleaned out of the tables and a removed one never comes
  back; the queues hold the registered ids and no others, also after a retried
  open; no wire byte is deducted twice, except as described under Divergences; a
  tick never has more than two intervals' budget to give.
- *Framing.* Whatever pieces the bytes come in, the reader gets a prefix of what
  was written, and only a FIN counts as the end. A FIN does not say that the client's
  data is complete: a dropped half has one too (claim_done_complete).
- *The test program.* A tuner passes only on a Done of its own agent about its stream,
  and the program, unless the failsafe fired, only if both agents have told Done of
  every stream. An answer that is on its way ends the tuner that waits for it
  without the failsafe, unless an event of that stream was dropped.

The other runs check one statement each and find it violated:

| run | statement | what TLC finds |
|---|---|---|
| claim_done_complete | DoneMeansComplete | after two outages the receiver can report StreamDone for a truncated stream |
| claim_resumes | WriterResumes | if all acks are lost with the link, a full spool is never released |
| claim_pending_served | PendingServed | a request whose open failed on a live link is never tried again |
| claim_drr_fair | FairShare | unused credit grows and lets one stream take a whole budget |

### Divergences

Places where the models, following the code, do not do what a comment or document
says. They have no run of their own.

- An outage between FIN and Done ends an uplink with neither StreamDone nor
  StreamFailed: link_up finds the pump gone (`active_stream.rs:1396`, against the
  promise in line 57).
- A read error on the client's socket is reported as StreamFailed and then handled
  like EOF, so StreamDone follows (`active_stream.rs:953`).
- StreamDone at the sender reports the last acknowledged offset, not the bytes
  transferred (`active_stream.rs:1263`, `quelay.thrift:316`).
- A sender whose receiver could not open its listener, or has ended, is not told
  (`session_manager.rs:733` and `772`).
- stream_start is not answered while run() is inside reconnect_loop
  (`session_manager.rs:508`, against lines 374-377).
- Raising the limit starts one waiting request, however many slots it frees
  (`session_manager.rs:615`).
- The queue snapshot of stream_start is sent before the new uplink is counted, and
  a drain sends none (`session_manager.rs:429` and `936`, `quelay.thrift:337`).
- A live uplink whose channel of fresh streams is full at a reconnect is taken for one
  whose "pump already exited": its handle is removed and it gets no further stream
  (`session_manager.rs:1137`). `HandleKept` says that this is the only such case.
- "Give **every** bulk stream exactly one turn" (`scheduler.rs:194`):
  open_stream_on_session registers the stream before spawn_uplink binds its port. If
  that fails the entries stay, the request stays pending, and its retry appends the
  same id to the rotation again (`session_manager.rs:1074` and `1090`). The stream then
  has two turns per round until it ends; deregister removes both places.
- "computes a delta relative to the new connection only" (`rate_limiter.rs:478`, and
  lines 422-424): set_session installs the session and stores the baseline in two
  steps (lines 482 and 483). A tick that makes its deduction between them charges what
  the new session has sent, and the store then sets the baseline back to the sample
  taken before, so the next tick charges it again. `ChargedOnce` without its premise
  `~straddled` is violated. A tick that has sampled the old session and stores after
  set_session (line 357) errs the other way: the next delta is taken against the old
  session's counter and saturates at zero, and what the new one has sent by then is
  never charged.
- A strict stream gets one quantum per call and is not drained before bulk streams
  are served (`scheduler.rs:177`, against line 45).
- Uncapped, the ack task can take the data_ready permit of the last push; the pump
  then gets no ticket until the client sends more, and a short file is never
  finished. `PumpFinishes` is violated with `Modes = {"uncapped"}`, against
  `active_stream.rs:1246`. This is why the progress properties of relay_one_outage
  are stated for the capped mode.
- The spool must hold a chunk beyond ACK_INTERVAL - 1 bytes: with both equal to the
  chunk size, a partial chunk fills the spool without an ack falling due and the
  writer waits for ever. The defaults satisfy this (`SPOOL_CAPACITY` is far larger);
  nothing checks it.
- `chunk_size_bytes` is validated in the configuration, but the pump and the limiter
  use the constant CHUNK_SIZE (`rate_limiter.rs:446`, `604`, `645`).
- "long-term throughput equals the configured rate" (`rate_limiter.rs:43`): budget
  that could not be delivered is added back although it was never taken
  (`rate_limiter.rs:360`), so two intervals' worth may be spent in one tick, and wire
  bytes beyond the available budget are forgotten.
- "ping timeout" (`callback.rs:17`): the socket has no timeout, so an unresponsive
  client holds the callback thread.
- After the failsafe of the bandwidth test "results already collected via channel"
  (`cic.rs:288`) does not hold: the killed tuners' results are not read, and the
  verdict may be a pass. `VerdictSound` therefore excludes that case.
- "Payload exhausted before shutdown [...] handle it gracefully" (`tuner.rs:331`): a Done
  that comes before Shutdown is taken for the end of the payload, and
  wait_for_agent_done then waits for a second one, which never comes: only the
  failsafe ends the tuner. `AnswerEndsTuner` therefore excludes a Done that meets a
  tuner still in wait_for_shutdown.

### Bounds

`MaxBytes`, `MaxTicket`, `MaxGen` bound the file, a ticket and the number of connections.
Two or three bytes with chunks of two give partial chunks, chunks whose boundaries differ
between the first sending and the replay, a spool that fills up, and acks between chunks.
Two outages are needed because several defects need a fresh stream queued behind another;
capacities of one make every full-channel path happen. In `SessionManager`, three
requests, two of them of equal priority, one or two slots and a queue of two exercise each
comparison on both sides, and command channels of one make `Agent::run` and the callers
wait. In `DrrScheduler`, budgets below and above a full round and a `DEFICIT_WRAP` of a
few bytes make both loops end for each reason and the deficits wrap; `MaxQueued` bounds
the places in the two queues, and with three of them a bulk stream can be in the rotation
twice beside another. `MaxWire` and `MaxSessions` bound the bytes on the wire and the
sessions of the limiter; one byte suffices to be charged twice, and the instance with two
bytes (1.9 million states) gives the same result. `MaxPings` bounds the pings of a
callback thread: one is enough to lose the client at every point. In `Framing`, four
values per byte and one length digit put lengths at and above their limit, and data of two
chunks leaves a full and a partial one.

Deadlock is checked in session_service and drr, whose systems never stop.
Elsewhere a transfer that has ended, or a system at its bounds, rightly stops.

### Fairness

Each spawned task runs when it can (weak fairness per task). The pump's commands
need strong fairness: `tokio::select!` polls its branches in random order, so a
ready command is not passed over for ever by tickets. The limiter ticks for ever
and grants a ticket to a stream with backlog; in `AggregateTimer` this is the fair
rotation that `NoStarvation` shows. reconnect_loop retries until it succeeds
(`LinkRestored`, `RunReconnect`). Uplinks end at some time in `SessionManager` (each
transfer is finite). Nothing is assumed of the sending client, nor of link
failures. In `DrrScheduler` the timer calls `schedule` again and again with more than
the strict streams' quanta (with less, bulk streams do starve: strict traffic goes
first); strong fairness, because the call is disabled while another runs. In
`Framing` written bytes arrive, unless the session is lost, and the reader reads. In
`BwCapTest` the callback threads, callback servers, CIC and tuners run, and a ping is
answered or fails; nothing is assumed of the agents' streams, and neither timer is
assumed to fire.

## Proofs

All theorems hold for every value of the constants that the named assumptions of the
modules allow (`RelayAssumption`, `SpoolAssumption` and their like): positive sizes
and capacities, finitely many streams where they are counted or summed over, and any
bounds on bytes, tickets, connections and requests.

| module | theorem | states |
|---|---|---|
| StreamRelayProofs | TypeCorrect | `Spec => []TypeOK` |
| StreamRelayProofs | DeliveryCorrect | `Spec => [](StreamsInOrder /\ DeliveryInv)` |
| StreamRelayProofs | DeliveryIntact | `Spec => []DeliveredIntact` |
| StreamRelayProofs | NothingFreedEarly | `Spec => []AckedIsWritten` |
| StreamRelayProofs | CursorStaysInSpool | `Spec => []CursorInSpool` |
| StreamRelayProofs | NeverGap | `Spec => []NoGap` |
| StreamRelayProofs | StreamsHandedInOrder | `Spec => []StreamsInOrder` |
| StreamRelayRefinement | RelayCorrect | `Spec => []RelayInv` |
| StreamRelayRefinement | SenderDoneIsTrue | `Spec => []SenderDoneMeansComplete` |
| StreamRelayRefinement | DoneIsCompleteOnce | `Spec => [](gen <= 2 => DoneMeansComplete)` |
| StreamRelayRefinement | RelayImplements | `Spec => ImplementsByteRelay` |
| StreamRelayRefinement | ModesCorrect | `ModesSpec => [](TypeOK /\ StreamsInOrder /\ RelayInv)` |
| StreamRelayRefinement | ModesDoneIsComplete | `ModesSpec => [](gen <= 2 => DoneMeansComplete)` |
| StreamRelayRefinement | ModesImplement | `ModesSpec => ImplementsByteRelay` |
| SessionProofs | SpecNoMutualWait | `Spec => []NoMutualWait` |
| SessionProofs | SpecTypeOK, SpecAccounted, SpecPendingSorted | `Spec => []TypeOK`, `[]Accounted`, `[]PendingSorted` |
| SessionProofs | SpecHandleKept, SpecSlotsRespected | `Spec => HandleKept`, `SlotsRespected` |
| SessionProofs | SpecNoIdleSlot, SpecNoOvertaking | if `MaxFaults = 0` and `HookLimits = {}`: `Spec => []NoIdleSlot`, `NoOvertaking` |
| SchedulerProofs | SchedulerCorrect | `Spec => []SchedulerInv` |
| SchedulerProofs | QueuesAlwaysMatch, BudgetAlwaysRespected, AlwaysWorkConserving | `Spec => []QueuesMatch`, `[]BudgetRespected`, `[]WorkConserving` |
| AggregateTimerProofs | SpecTypeOK | `Spec => []TypeOK` |
| AggregateTimerProofs | SpecTablesAgree | `Spec => []TablesAgree` |
| AggregateTimerProofs | SpecChargedOnce | `Spec => []ChargedOnce` |
| AggregateTimerProofs | BudgetMatchesRate | from_rate_bps is exact up to rounding, from 80 bit/s on |
| FramingProofs | RoundTrip | `n < Power[w] => from_be_bytes(to_be_bytes(n, w)) = n` |
| FramingProofs | FramingCorrect | `Spec => []FramingInv` |
| FramingProofs | FramingReadIsPrefix, FramingEofMeansFin, FramingNoFalseError | `Spec => []ReadIsPrefix`, `[]EofMeansFin`, `[]NoFalseError` |
| BwCapProofs | BwCapCorrect | `Spec => []BwCapInv` |
| BwCapProofs | ResultsAreReal | `Spec => []PassIsReal` |
| BwCapProofs | VerdictIsSound | `Spec => []VerdictSound` |

**Delivery.** `TypeOK` is inductive once it says that EOF implies that the reader
has returned: otherwise a push after EOF would leave the type of the spool.

`DeliveredIntact` is far from inductive. That the next chunk fits depends on the
chunk having been cut at its place (`ChunksTrue`), on the chunks of a stream having
no holes (`ChunksContiguous`), on the first of them starting no later than
`bytes_written` (`HeadsNotAhead`), and, when a stream is empty, on the pump's
cursor being no further than that (`CursorAtEnd`). After an outage the cursor
returns to A, so A must not be ahead of the receiver (`AckedIsWritten`), hence no
ack may be (`AcksTrue`), nor may an ack be ahead of the cursor, or `slice_from`
would be called outside the spool (`CursorCoversWire`, `CursorInSpool`). A fresh
stream carries nothing of the pump's before the pump gets it, because streams are
handed down in order (`StreamsInOrder`). `DeliveryInv` is the conjunction.

The induction has a lemma per conjunct. Lemmas that say how a step can change one
variable (`DataStep`, `FeedStep`, `InboundStep`, `PumpShape`, `BrokenStep`) go
through the actions; the conjuncts are then proved from these shapes, not action by
action. `USE SMTT(30)` at the head of a module gives the SMT solver more time; leaves
that it cannot do name Zenon.

**Completion and the contract.** The sender is told StreamDone when a Done reaches its ack
task, so the question is which Done can. A receiver also sends Done for a FIN that is none
of the pump's: the FIN of a fresh stream that was dropped unused, which is how
`DoneMeansComplete` fails after two outages (claim_done_complete). Such a stream is
dropped only by an ack task that has ended. `CompletionInv` therefore speaks of the
streams a living ack task reads or will still be handed: the only FIN on them is the
pump's last word behind everything the client wrote (`FinEndsStream`), and a Done on them
was sent when all of that had been written (`DoneIsTrue`). A stream that `restore_active`
has not opened yet carries nothing (`UnopenedEmpty`), so opening one keeps this true.
relay_two_outages checks `RelayInv`, the conjunction with `DeliveryInv` and
`OneOutageInv`, with TLC. For the refinement, every action is either invisible or one of
`ByteRelay`'s, and the only one that is not so by its definition is the confirmation,
which `SenderDoneIsTrue` covers.

**The receiver's Done under one outage.** `DoneMeansComplete` is false after two outages
and true before, for all sizes and capacities: `DoneIsCompleteOnce`. The bound is a
hypothesis on the state (`gen <= 2`: no third connection yet), not on a constant, so the
theorem also covers the start of longer runs. The reason is that a stream can be dropped
under a living receiver only when its ack task has gone before taking it, or its channel
is full. With one fresh stream the channel has room, and an ack task that has gone
without taking it was told so by the receiver, which sends Done or Error only as it returns
(`RepliesEnd`). So as long as the receiver lives, every FIN it can read is the pump's
(`OneOutage`).

**Both modes.** Uncapped, the pump's tickets come from a forwarder. Its steps change the
Notify and the pump's tickets only; every other step of `RelayModes` is one of
`StreamRelay`'s (`ModesShape`). The invariants say nothing of those two variables but their
types, so they carry over, and `RelayModes` implements `ByteRelay` in both modes. What the
uncapped mode does not keep is progress (see Divergences).

**The two loops.** That the accept loop does not wait in vain needs to know why it
waits. If the session it closed is the one run() watches, the close is run()'s
failure to see. If it is an older one, run() has reconnected since, and the permit of
session_restored that the reconnect stored is still there: only the accept loop takes
it. `WaitInv` says this: session is the current connection unless run() reconnects, and
an accept loop with an older session has a stored permit.

**Requests, queue and slots.** `Accounted` (each request is in exactly one place) needs
to know what is in the two command queues: no request twice, within or across them, its
caller waiting, and a StreamFinished only for an uplink that has ended (`CommandsOK`).
`SessionInv` adds the types, the order of the queue and that an active uplink is running
or has ended. The lemmas of `DataProofs` say that insertion behind the last entry of
equal or higher priority, removal of the head and `retain` keep a queue sorted and its
entries unique. For `SlotsRespected` and `NoIdleSlot` a drain is counted: it starts the
first entries of the queue, as many as there are free slots. `SpecNoIdleSlot` and
`SpecNoOvertaking` have hypotheses: opens fail only when their connection is gone, and
nobody changes the limit. Without them both are false of the code: a request whose open
failed on a live link stays pending beside a free slot (claim_pending_served), later ones
are started past it, and a raised limit starts only one request.

**The scheduler.** That budget is left over only if every bulk stream has its backlog is
decided by two loops that count turns. `TurnsCount` says what the count means: the
streams that had one of the last `turns` turns are the last of the rotation (`Recent`),
and, while budget is left, each of them has its backlog or no deficit. So the first loop
ends with that said of all bulk streams, and the second, which ends after a round of
turns that gave nothing, ends with all of them served or without a quantum. The step
that matters is that a turn with budget left gives the backlog or the whole deficit,
which must be positive although the sum of deficit and quantum is a machine word that may
wrap: it cannot wrap to 0 because a deficit is 0 whenever it is added to in the second
loop and a quantum is itself below the word size. None of this needs an id to be in the
rotation only once: `Recent` is a set, and a second turn of a stream leaves it with its
backlog or no deficit again. `QueuesMatch` likewise speaks of the sets of ids: `retain`
removes every occurrence, so deregister leaves no id behind that the table lacks.

**Sums.** `BudgetRespected` and the limiter's bounds speak of sums over all streams. The
library's fold has a CHOOSE inside that no prover unfolds usefully, and its induction
theorems take an operator as parameter. `DataProofs` does the induction with sets
instead: a family of subsets that holds the empty set and is closed under adding an
element holds every finite subset (`SubsetInduction`, from the least cardinality of a
counterexample), and the family is written out for each use (`SumExists`, `SumAdd`,
`SumSubset`).

**The limiter.** `TypeOK` bounds by `max_carry` what a tick has to give, from its
accumulation to its deduction, and what it delivers. Between ticks there may be twice as
much, since undelivered budget is added back. Its strengthening `BudgetInv` says that the
allocations of the call sum to no more; what is delivered is the sum over those
streams whose channel took the ticket, a subset.

**The tables.** The timer acts on a snapshot and on what try_send said earlier, while
register and deregister change the two tables one after the other. `TablesInv` gives
the tables for every stage of a stream and says that the timer only remembers streams
that had been registered, and as closed only those whose pump has gone; a pump that
has gone does not come back. The entries that a failed open leaves behind are never found
closed: they have no backlog, so no ticket is tried on them, and the stream that registers
over them is not removed in their stead.

**The deduction.** `ChargedOnce` is not inductive, since the timer holds values it
has read. `ChargedInv` says that what it is about to deduct, from the values it holds
and from those it may still read, is no more than what is uncharged, at each of its
steps and with set_session at any of its own; and, between the swap and the store, that
all the new session has sent is uncharged, since the store exposes it to the next tick.
A deduction in between breaks the latter, and `straddled` records exactly that: a tick
may load, sample or be delayed there and the theorem still covers it.

**The wire format.** `RoundTrip` is an induction over digits, for every base and width.
The provers do not know that a function defined by recursion exists, so this is proved
first: a computation of any length exists and longer ones agree with it
(`ComputationExists`, `ComputationsAgree`), by an induction in which the predicate is a
set (`UpInduction`). On it rest the powers of the base, the value of a sequence of bytes,
and `Ends`, the places where the frames end. `FramingInv` says that the bytes sent are the
frames one after the other (`LaidOut`), and that the reader is so many bytes behind the
frames it has read and holds what the header of the next one says (`ReaderAt`), wherever
the half was shut down or dropped. Each read then cuts exactly the header or the payload
out of the bytes (`NextHeader`, `NextPayload`), and at the FIN a frame that has been begun
is there as a whole (`WholeAtFin`), so the reader cannot run dry inside one. The proof
uses that to_vec is injective and that a header fits its length field, both in
`FramingAssumption`; the second is why the writer's check against `MAX_JSON_PAYLOAD`
matters.

**The test program.** A tuner reports what it read from its command channel, the last of
four queues that an event of the agent passes through, two of which may drop it.
`BwCapInv` says of all four at once that a Done about a stream and role in any of them was
sent by the agent of that role (`DoneIsReal`), so routing cannot mix up roles or streams.
The harder half is the agent that reports a read error and goes on to a Done: its tuner
must meet the Failed first. `InOrder` says, queue by queue, that a Done has the Failed
ahead of it, in the same queue or in one nearer to the tuner, and `FailedFirst` that this
lasts until the tuner has decided or an event was dropped. A tuner ignores a Failed only
while it waits for its port, and there is no read error before the sender has connected
(`LateIsSender`, `TunersInOrder`); the CIC drops one only when the tuner reads no more.
`ReportsTrue` and `VerdictLast` carry the tuner's decision to the results and the verdict.
The proof goes by `Flow`: every step moves the events about one tuner in one of seven
ways, and each keeps `InOrder`. `BwCapInv` holds on the instance of bw_cap (600 thousand
states; add it to the INVARIANTs there).

Every safety property of the passing runs is thereby a theorem. Only model-checked are the
liveness properties, which are out of the prover's reach (it does not handle ENABLED), and the
counterexamples of the claim runs, which need an instance.

## Not modelled

- *Duplicate UUIDs.* Nothing rejects one; what is intended is not documented.
- *The callback channel and the lock on `remote` together.* `send_queue_status`
  waits for room in the callback channel with the lock held; `SessionManager` takes
  the send as immediate, `CallbackAgent` has the channel alone.
- *Progress, link-status and queue-status callbacks* as events of `CallbackAgent`; they
  pass through `fire` like the others and nothing in the agents depends on them.
- *Throughput arithmetic* of the bandwidth test, timing and rates as such: TLC has no
  real time.
- *The end-to-end test program*, a sequence of scripts without protocol state.
- *TLS and endpoint set-up, command-line parsing and start-up, Thrift type mapping,
  domain traits, demos*: library calls, constant tables and declarations.
