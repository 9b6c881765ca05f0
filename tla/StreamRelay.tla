----------------------------- MODULE StreamRelay -----------------------------
(***************************************************************************)
(* One client stream relayed from a sending agent to a receiving agent     *)
(* over a link that may fail and come back (rate-capped mode).             *)
(*                                                                         *)
(* Tasks modelled, each by the actions that carry its name:                *)
(*   Tcp*    run_tcp_reader            (active_stream.rs)                  *)
(*   Timer*  the ARL tick, as seen by one stream (rate_limiter.rs)         *)
(*   Pump*   StreamPump                (rate_limiter.rs)                   *)
(*   Ack*    AckTask and its reader sub-task (active_stream.rs)            *)
(*   Mgr*    SessionManager::run, restore_active (session_manager.rs)      *)
(*   Accept* accept_loop on the receiving agent                            *)
(*   Down*   run_downlink              (active_stream.rs)                  *)
(*   Link*   the QUIC connection (external)                                *)
(*                                                                         *)
(* Every reconnect opens a new QUIC stream; streams are numbered by the    *)
(* connection they belong to (`gen`).  Losing the connection keeps an      *)
(* arbitrary prefix of what was in flight in each direction, so writes     *)
(* that the sender made before it noticed the loss are covered by the      *)
(* prefix that is cut off.                                                 *)
(***************************************************************************)
EXTENDS SpoolBuffer, Sequences, Functions

CONSTANTS
    CHUNK_SIZE,        \* largest payload of one chunk and of one TCP read
    ACK_INTERVAL,      \* bytes the receiver writes between two acks
    CMD_CAPACITY,      \* RateCmd channel of the pump (8 in the code)
    STREAM_CAPACITY,   \* UplinkHandle::stream_tx (4 in the code)
    DOWN_CAPACITY,     \* DownlinkHandle::stream_tx (2 in the code)
    MaxBytes,          \* bound: bytes the sending client writes
    MaxTicket,         \* bound: bytes of one AllocTicket
    MaxGen             \* bound: connections, i.e. link failures + 1

ASSUME RelayAssumption ==
    /\ CHUNK_SIZE \in Nat \ {0}
    /\ ACK_INTERVAL \in Nat \ {0}
    /\ CMD_CAPACITY \in Nat \ {0}
    /\ STREAM_CAPACITY \in Nat \ {0}
    /\ DOWN_CAPACITY \in Nat \ {0}
    /\ MaxBytes \in Nat
    /\ MaxTicket \in Nat \ {0}
    /\ MaxGen \in Nat \ {0}

Gens == 1 .. MaxGen

\* Front and Prefixes of SequencesExt, restated: with that module in scope the
\* provers need several times as long for every step.
Front(s) == SubSeq(s, 1, Len(s) - 1)

Prefixes(s) == {SubSeq(s, 1, n) : n \in 0 .. Len(s)}

VARIABLES
    \* sending agent
    spool,         \* SpoolBuffer
    reader,        \* TCP reader: "accept", "read", "full", "exited"
    data_ready,    \* stored permit of the data_ready Notify
    space_ready,   \* stored permit of the space_ready Notify
    ticket,        \* alloc channel of depth 1; 0 = empty
    pump,          \* StreamPump: "select", "drain", "wait", "exited"
    q,             \* Q, next byte to send (q_atomic has the same value)
    remaining,     \* budget left in drain_alloc
    tx_gen,        \* QUIC stream the pump writes to
    finishing,
    cmd_rx,        \* RateCmd queue of the pump
    acker,         \* AckTask: "run", "wait" (on_stream_error), "exited"
    finish_due,    \* AckTask is inside rate_limiter.finish().await
    finish_sent,
    rx_gen,        \* QUIC stream the ack reader reads from
    stream_rx,     \* fresh streams for the AckTask
    handle,        \* the UplinkHandle is in active_uplinks
    \* connection
    link,          \* the current connection is alive
    gen,           \* number of the current connection
    restored,      \* restore_active has run on the current connection
    inbound,       \* stream-open headers accept_loop has not read yet
    data,          \* chunks in flight, per QUIC stream
    feedback,      \* WormholeMsg in flight, per QUIC stream
    dropped,       \* QUIC streams the receiving agent has let go of
    \* receiving agent
    down,          \* run_downlink: "none", "recv", "accept", "read", "wait", "exited"
    down_gen,      \* QUIC stream run_downlink reads from
    down_rx,       \* fresh streams for run_downlink
    bytes_written,
    last_acked,
    intact,        \* every byte written to the client was the next one of the stream
    \* terminal callbacks sent to each client
    up_cb,
    down_cb

\* The TCP reader has published EOF.
AtEof == spool.head = EOF

spoolVars == <<spool, reader, data_ready, space_ready>>
pumpVars  == <<ticket, pump, q, remaining, tx_gen, finishing>>
ackVars   == <<acker, finish_due, finish_sent, rx_gen, stream_rx>>
linkVars  == <<handle, link, gen, restored, inbound>>
wireVars  == <<data, feedback, dropped>>
downVars  == <<down, down_gen, down_rx, bytes_written, last_acked, intact>>
cbVars    == <<up_cb, down_cb>>

vars == <<spoolVars, pumpVars, cmd_rx, ackVars, linkVars, wireVars, downVars, cbVars>>

-----------------------------------------------------------------------------
(* Messages *)

Chunk(off, src, len) == [op |-> "Chunk", off |-> off, src |-> src, len |-> len]
FIN == [op |-> "Fin", off |-> 0, src |-> 0, len |-> 0]

Ack(n) == [op |-> "Ack", bytes |-> n]
Done   == [op |-> "Done", bytes |-> 0]
Error  == [op |-> "Error", bytes |-> 0]

LinkDown  == [op |-> "LinkDown", gen |-> 0]
LinkUp(g) == [op |-> "LinkUp", gen |-> g]
Finish    == [op |-> "Finish", gen |-> 0]

NewStream       == [op |-> "New", gen |-> 1, replay_from |-> 0]
Reconnect(g, a) == [op |-> "Reconnect", gen |-> g, replay_from |-> a]

IsChunk(item) == item.op = "Chunk"

ItemType == [op : {"Chunk", "Fin"}, off : Nat, src : Int, len : Nat]
MsgType  == [op : {"Ack", "Done", "Error"}, bytes : Nat]
CmdType  == [op : {"LinkUp"}, gen : Gens] \union [op : {"LinkDown", "Finish"}, gen : {0}]
OpenType == [op : {"New", "Reconnect"}, gen : Gens, replay_from : Nat]

FlagsOK ==
    /\ data_ready \in BOOLEAN /\ space_ready \in BOOLEAN /\ finishing \in BOOLEAN
    /\ finish_due \in BOOLEAN /\ finish_sent \in BOOLEAN
    /\ handle \in BOOLEAN /\ link \in BOOLEAN /\ restored \in BOOLEAN
    /\ intact \in BOOLEAN

UplinkOK ==
    /\ spool \in SpoolType
    /\ reader \in {"accept", "read", "full", "exited"}
    /\ AtEof => reader = "exited"
    /\ ticket \in 0 .. MaxTicket
    /\ pump \in {"select", "drain", "wait", "exited"}
    /\ q \in Nat /\ remaining \in Nat /\ tx_gen \in Gens
    /\ cmd_rx \in Seq(CmdType)
    /\ acker \in {"run", "wait", "exited"}
    /\ rx_gen \in Gens /\ stream_rx \in Seq(Gens)
    /\ up_cb \in SUBSET {"Done", "Failed"}

WireOK ==
    /\ gen \in Gens
    /\ inbound \in Seq(OpenType)
    /\ data \in [Gens -> Seq(ItemType)]
    /\ feedback \in [Gens -> Seq(MsgType)]
    /\ dropped \in SUBSET Gens

DownlinkOK ==
    /\ down \in {"none", "recv", "accept", "read", "wait", "exited"}
    /\ down_gen \in Gens /\ down_rx \in Seq(Gens)
    /\ bytes_written \in Nat /\ last_acked \in Nat
    /\ down_cb \in SUBSET {"Done", "Failed"}

TypeOK == FlagsOK /\ UplinkOK /\ WireOK /\ DownlinkOK

-----------------------------------------------------------------------------
(* The QUIC connection (external) *)

Alive(g) == link /\ g = gen

\* Reads (once drained) and writes on stream g fail: its connection is gone,
\* or the receiving agent dropped its end.
Broken(g) == g \in dropped \/ ~Alive(g)

\* The connection is lost. What the receiving ends already hold stays
\* readable; the rest, and possibly an unread stream header, is gone.
LinkLost ==
    /\ link /\ gen < MaxGen
    /\ link' = FALSE
    /\ \/ /\ inbound # <<>> /\ inbound[Len(inbound)].gen = gen
          /\ inbound' = Front(inbound)
          /\ data' = [data EXCEPT ![gen] = <<>>]
          /\ feedback' = [feedback EXCEPT ![gen] = <<>>]
       \/ /\ \E d \in Prefixes(data[gen]), f \in Prefixes(feedback[gen]) :
                /\ data' = [data EXCEPT ![gen] = d]
                /\ feedback' = [feedback EXCEPT ![gen] = f]
          /\ UNCHANGED inbound
    /\ UNCHANGED <<spoolVars, pumpVars, cmd_rx, ackVars, handle, gen, restored,
                   dropped, downVars, cbVars>>

\* reconnect_loop of both agents: a new session is installed.
LinkRestored ==
    /\ ~link /\ restored /\ gen < MaxGen
    /\ link' = TRUE /\ gen' = gen + 1 /\ restored' = FALSE
    /\ UNCHANGED <<spoolVars, pumpVars, cmd_rx, ackVars, handle, inbound,
                   wireVars, downVars, cbVars>>

-----------------------------------------------------------------------------
(* run_tcp_reader *)

TcpAccept ==
    /\ reader = "accept"
    /\ reader' = "read"
    /\ UNCHANGED <<spool, data_ready, space_ready, pumpVars, cmd_rx, ackVars, linkVars,
                   wireVars, downVars, cbVars>>

\* listener.accept() fails: StreamFailed, and the task returns without
\* publishing EOF.
TcpAcceptFail ==
    /\ reader = "accept"
    /\ reader' = "exited"
    /\ up_cb' = up_cb \union {"Failed"}
    /\ UNCHANGED <<spool, data_ready, space_ready, pumpVars, cmd_rx, ackVars, linkVars,
                   wireVars, downVars, down_cb>>

\* The reader calls tcp.read only once the spool has room for a full chunk.
HasSpoolSpace == Available(spool) >= CHUNK_SIZE

\* wait_for_spool_space: after a failed check the reader waits for a permit,
\* then checks again.
TcpFull ==
    /\ reader = "read" /\ ~HasSpoolSpace
    /\ reader' = "full"
    /\ UNCHANGED <<spool, data_ready, space_ready, pumpVars, cmd_rx, ackVars,
                   linkVars, wireVars, downVars, cbVars>>

TcpWake ==
    /\ reader = "full" /\ space_ready
    /\ reader' = "read" /\ space_ready' = FALSE
    /\ UNCHANGED <<spool, data_ready, pumpVars, cmd_rx, ackVars, linkVars,
                   wireVars, downVars, cbVars>>

TcpRead(n) ==
    /\ reader = "read" /\ HasSpoolSpace
    /\ HeadOffset(spool) + n <= MaxBytes
    /\ spool' = Push(spool, n)
    /\ data_ready' = TRUE
    /\ UNCHANGED <<reader, space_ready, pumpVars, cmd_rx, ackVars, linkVars,
                   wireVars, downVars, cbVars>>

\* Mutant: EOF is published without waking the ack task.
EofSilent ==
    /\ spool' = SetEof(spool)
    /\ UNCHANGED <<data_ready, space_ready>>

handle_eof ==
    /\ spool' = SetEof(spool)
    /\ data_ready' = TRUE
    /\ UNCHANGED space_ready

\* Mutant: the reader does not return after EOF.
TcpEofNoReturn ==
    /\ reader = "read" /\ HasSpoolSpace
    /\ handle_eof
    /\ UNCHANGED <<reader, pumpVars, cmd_rx, ackVars, linkVars, wireVars, downVars, cbVars>>

TcpEof ==
    /\ reader = "read" /\ HasSpoolSpace
    /\ reader' = "exited"
    /\ handle_eof
    /\ UNCHANGED <<pumpVars, cmd_rx, ackVars, linkVars, wireVars, downVars, cbVars>>

TcpReadError ==
    /\ reader = "read" /\ HasSpoolSpace
    /\ reader' = "exited"
    /\ up_cb' = up_cb \union {"Failed"}
    /\ handle_eof
    /\ UNCHANGED <<pumpVars, cmd_rx, ackVars, linkVars, wireVars, downVars, down_cb>>

-----------------------------------------------------------------------------
(* The ARL tick for this stream: a ticket is delivered if the channel is     *)
(* empty. The tick reads T and Q some time before it delivers, and may grant *)
(* more than the backlog, so a ticket can also come when little or nothing   *)
(* is left to send; only a stream with backlog is sure of one (FairSpec).    *)
(* The stream is deregistered when the AckTask ends.                         *)

Backlog == IF HeadOffset(spool) > q THEN HeadOffset(spool) - q ELSE 0

TimerTicket(b) ==
    /\ acker # "exited" /\ pump # "exited"
    /\ ticket = 0
    /\ ticket' = b
    /\ UNCHANGED <<spoolVars, pump, q, remaining, tx_gen, finishing, cmd_rx,
                   ackVars, linkVars, wireVars, downVars, cbVars>>
-----------------------------------------------------------------------------
(* StreamPump *)

\* FIN (or a chunk) put on stream g arrives only if the stream still works.
Send(g, item) ==
    data' = IF Broken(g) THEN data ELSE [data EXCEPT ![g] = Append(@, item)]

Cmd(op) == cmd_rx # <<>> /\ Head(cmd_rx).op = op

PumpTicket ==
    /\ pump = "select" /\ ticket # 0
    /\ pump' = "drain" /\ remaining' = ticket /\ ticket' = 0
    /\ UNCHANGED <<spoolVars, q, tx_gen, finishing, cmd_rx, ackVars, linkVars,
                   wireVars, downVars, cbVars>>

\* Mutant: the budget is trusted, the spool's head is not looked at.
SendableBlind(n) == n <= remaining

Sendable(n) == n <= Backlog /\ n <= remaining

\* drain_alloc, one chunk. The ring may wrap anywhere, so slice_from may
\* return any non-empty part of what is unsent.
PumpWrite(n) ==
    /\ pump = "drain" /\ remaining > 0
    /\ Sendable(n)
    /\ ~Broken(tx_gen)
    /\ Send(tx_gen, Chunk(q, SliceStart(spool, q), n))
    /\ q' = q + n
    /\ remaining' = remaining - n
    /\ UNCHANGED <<spoolVars, ticket, pump, tx_gen, finishing, cmd_rx, ackVars,
                   linkVars, feedback, dropped, downVars, cbVars>>

\* write_all fails: wait_for_link_up, Q is not rewound here.
PumpWriteError ==
    /\ pump = "drain" /\ remaining > 0 /\ Backlog > 0
    /\ Broken(tx_gen)
    /\ pump' = "wait" /\ remaining' = 0
    /\ UNCHANGED <<spoolVars, ticket, q, tx_gen, finishing, cmd_rx, ackVars,
                   linkVars, wireVars, downVars, cbVars>>

\* Mutant: a pump that has caught up is taken to be finished.
CaughtUp == Backlog = 0

Drained == finishing /\ AtEof /\ Backlog = 0

\* The drain loop ends: budget used up or nothing left to send. FIN goes out
\* once everything is sent and Finish has been received.
PumpDrainEnd ==
    /\ pump = "drain"
    /\ remaining = 0 \/ Backlog = 0
    /\ remaining' = 0
    /\ IF Drained
       THEN pump' = "exited" /\ ticket' = 0 /\ Send(tx_gen, FIN)
       ELSE pump' = "select" /\ UNCHANGED <<ticket, data>>
    /\ UNCHANGED <<spoolVars, q, tx_gen, finishing, cmd_rx, ackVars, linkVars,
                   feedback, dropped, downVars, cbVars>>

\* Mutant: a pump that is caught up waits for a ticket.
PumpFinishNoDrain ==
    /\ pump = "select" /\ Cmd("Finish")
    /\ cmd_rx' = Tail(cmd_rx)
    /\ finishing' = TRUE
    /\ UNCHANGED <<spoolVars, ticket, pump, q, remaining, tx_gen, ackVars,
                   linkVars, wireVars, downVars, cbVars>>

\* Finish while running; a pump that is caught up gets no more tickets, so it
\* runs drain_alloc(1) itself.
PumpFinish ==
    /\ pump = "select" /\ Cmd("Finish")
    /\ cmd_rx' = Tail(cmd_rx)
    /\ finishing' = TRUE
    /\ IF Backlog = 0 THEN pump' = "drain" /\ remaining' = 1
                      ELSE UNCHANGED <<pump, remaining>>
    /\ UNCHANGED <<spoolVars, ticket, q, tx_gen, ackVars, linkVars, wireVars,
                   downVars, cbVars>>

\* Mutant: Q stays where it is.
NoRewind == UNCHANGED q

Rewind == q' = spool.bytes_acked

\* LinkDown, running or (a duplicate) while waiting: rewind Q to A.
PumpLinkDown ==
    /\ pump \in {"select", "wait"} /\ Cmd("LinkDown")
    /\ cmd_rx' = Tail(cmd_rx)
    /\ Rewind
    /\ pump' = "wait"
    /\ UNCHANGED <<spoolVars, ticket, remaining, tx_gen, finishing, ackVars,
                   linkVars, wireVars, downVars, cbVars>>

\* "unexpected LinkUp in running state - ignoring"
PumpLinkUpIgnored ==
    /\ pump = "select" /\ Cmd("LinkUp")
    /\ cmd_rx' = Tail(cmd_rx)
    /\ UNCHANGED <<spoolVars, pumpVars, ackVars, linkVars, wireVars, downVars, cbVars>>

PumpLinkUp ==
    /\ pump = "wait" /\ Cmd("LinkUp")
    /\ tx_gen' = Head(cmd_rx).gen
    /\ cmd_rx' = Tail(cmd_rx)
    /\ Rewind
    /\ pump' = "select"
    /\ UNCHANGED <<spoolVars, ticket, remaining, finishing, ackVars, linkVars,
                   wireVars, downVars, cbVars>>

PumpWaitFinish ==
    /\ pump = "wait" /\ Cmd("Finish")
    /\ cmd_rx' = Tail(cmd_rx)
    /\ finishing' = TRUE
    /\ UNCHANGED <<spoolVars, ticket, pump, q, remaining, tx_gen, ackVars,
                   linkVars, wireVars, downVars, cbVars>>

PumpDiscardTicket ==
    /\ pump = "wait" /\ ticket # 0
    /\ ticket' = 0
    /\ UNCHANGED <<spoolVars, pump, q, remaining, tx_gen, finishing, cmd_rx,
                   ackVars, linkVars, wireVars, downVars, cbVars>>

\* The AckTask is gone: its ARL entry and the command sender are dropped.
\* The pump's stream is then read by nobody, so its implicit FIN is not modelled.
PumpClosed ==
    /\ acker = "exited"
    /\ \/ pump = "select" /\ (ticket = 0 \/ cmd_rx = <<>>)
       \/ pump = "wait" /\ cmd_rx = <<>>
    /\ pump' = "exited" /\ ticket' = 0
    /\ UNCHANGED <<spoolVars, q, remaining, tx_gen, finishing, cmd_rx, ackVars,
                   linkVars, wireVars, downVars, cbVars>>

-----------------------------------------------------------------------------
(* AckTask. The reader sub-task forwards feedback in order, so the two are   *)
(* one process here.                                                         *)

AckIdle(st) == acker = st /\ ~finish_due

\* try_send_finish up to the point where it awaits the command channel.
try_send_finish(sent) ==
    /\ finish_sent' = (sent \/ AtEof)
    /\ finish_due' = (~sent /\ AtEof)

HasRoom == Len(cmd_rx) < CMD_CAPACITY

Msg(op) == feedback[rx_gen] # <<>> /\ Head(feedback[rx_gen]).op = op

\* Mutant: everything sent counts as acknowledged.
SentCount == q

AckedCount == Head(feedback[rx_gen]).bytes

PopFeedback == feedback' = [feedback EXCEPT ![rx_gen] = Tail(@)]

\* finish(): the send completes once there is room; it fails, and the
\* failure is only logged, if the pump is gone.
AckSendFinish ==
    /\ acker # "exited" /\ finish_due
    /\ \/ pump = "exited" /\ UNCHANGED cmd_rx
       \/ pump # "exited" /\ HasRoom /\ cmd_rx' = Append(cmd_rx, Finish)
    /\ finish_due' = FALSE
    /\ UNCHANGED <<spoolVars, pumpVars, acker, finish_sent, rx_gen, stream_rx,
                   linkVars, wireVars, downVars, cbVars>>

\* data_ready fired, in run_inner or while waiting for a reconnect.
AckDataReady ==
    /\ AckIdle("run") \/ AckIdle("wait")
    /\ data_ready
    /\ data_ready' = FALSE
    /\ try_send_finish(finish_sent)
    /\ UNCHANGED <<spool, reader, space_ready, pumpVars, cmd_rx, acker, rx_gen,
                   stream_rx, linkVars, wireVars, downVars, cbVars>>

\* Mutant: the reader is not woken.
NoSpaceSignal == UNCHANGED space_ready

SignalSpace == space_ready' = (space_ready \/ AckedCount > spool.bytes_acked)

on_ack ==
    /\ AckIdle("run") /\ Msg("Ack")
    /\ spool' = AckTo(spool, AckedCount)
    /\ SignalSpace
    /\ PopFeedback
    /\ try_send_finish(finish_sent)
    /\ UNCHANGED <<reader, data_ready, pumpVars, cmd_rx, acker, rx_gen,
                   stream_rx, linkVars, data, dropped, downVars, cbVars>>

AckExit(g) ==
    /\ acker' = "exited"
    /\ UNCHANGED <<finish_due, finish_sent>>
    /\ rx_gen' = g
    /\ stream_rx' = <<>>

\* Streams queued in stream_rx die with the task; dropping a QUIC stream
\* finishes it, so the receiver sees a FIN.
DropQueued(gs) ==
    data' = [g \in Gens |->
                IF g \in gs /\ ~Broken(g) THEN Append(data[g], FIN) ELSE data[g]]

AckDone ==
    /\ AckIdle("run") /\ Msg("Done")
    /\ up_cb' = up_cb \union {"Done"}
    /\ PopFeedback
    /\ DropQueued(Range(stream_rx))
    /\ AckExit(rx_gen)
    /\ UNCHANGED <<spoolVars, pumpVars, cmd_rx, linkVars, dropped, downVars, down_cb>>

AckError ==
    /\ AckIdle("run") /\ Msg("Error")
    /\ up_cb' = up_cb \union {"Failed"}
    /\ PopFeedback
    /\ DropQueued(Range(stream_rx))
    /\ AckExit(rx_gen)
    /\ UNCHANGED <<spoolVars, pumpVars, cmd_rx, linkVars, dropped, downVars, down_cb>>

\* A try_send: lost if the pump is gone or its channel is full.
link_down ==
    cmd_rx' = IF HasRoom /\ pump # "exited" THEN Append(cmd_rx, LinkDown) ELSE cmd_rx

\* on_stream_error up to its select.
AckStreamError ==
    /\ AckIdle("run") /\ feedback[rx_gen] = <<>> /\ Broken(rx_gen)
    /\ acker' = "wait"
    /\ link_down
    /\ try_send_finish(finish_sent)
    /\ UNCHANGED <<spoolVars, pumpVars, rx_gen, stream_rx, linkVars, wireVars,
                   downVars, cbVars>>

\* Mutant: the stream of the newest session, queued or not.
NewestStream == gen

FreshStream == Head(stream_rx)

\* on_stream_error with a fresh stream: both halves are handed over, then
\* Finish is sent again.
AckNewStream ==
    /\ AckIdle("wait") /\ stream_rx # <<>>
    /\ pump # "exited" /\ HasRoom
    /\ rx_gen' = FreshStream
    /\ stream_rx' = Tail(stream_rx)
    /\ cmd_rx' = Append(cmd_rx, LinkUp(FreshStream))
    /\ acker' = "run"
    /\ try_send_finish(FALSE)
    /\ UNCHANGED <<spoolVars, pumpVars, linkVars, wireVars, downVars, cbVars>>

\* link_up fails because the pump has exited: the task ends without a
\* callback. The reader sub-task keeps the fresh stream's read half.
AckLinkUpFailed ==
    /\ AckIdle("wait") /\ stream_rx # <<>>
    /\ pump = "exited"
    /\ DropQueued(Range(Tail(stream_rx)))
    /\ AckExit(FreshStream)
    /\ UNCHANGED <<spoolVars, pumpVars, cmd_rx, linkVars, feedback, dropped,
                   downVars, cbVars>>

\* The handle, and with it the sender of stream_rx, was dropped.
AckHandleGone ==
    /\ AckIdle("wait") /\ stream_rx = <<>> /\ ~handle
    /\ up_cb' = up_cb \union {"Failed"}
    /\ AckExit(rx_gen)
    /\ UNCHANGED <<spoolVars, pumpVars, cmd_rx, linkVars, wireVars, downVars, down_cb>>

-----------------------------------------------------------------------------
(* SessionManager of the sending agent *)

\* dispatch_cmd(StreamFinished); the command loop runs once restore_active is done.
MgrStreamFinished ==
    /\ acker = "exited" /\ handle /\ restored
    /\ handle' = FALSE
    /\ UNCHANGED <<spoolVars, pumpVars, cmd_rx, ackVars, link, gen, restored,
                   inbound, wireVars, downVars, cbVars>>

\* Mutant: the pump's cursor instead of A.
ReplayFromCursor == q

ReplayFrom == spool.bytes_acked

\* restore_active: the fresh stream carries replay_from = A. It is dropped
\* (and thereby finished), and the handle pruned, if the AckTask is gone or
\* its channel is full; a handle whose AckTask is gone is pruned in any case.
RestoreStream ==
    /\ inbound' = Append(inbound, Reconnect(gen, ReplayFrom))
    /\ IF acker # "exited" /\ Len(stream_rx) < STREAM_CAPACITY
       THEN stream_rx' = Append(stream_rx, gen) /\ UNCHANGED <<handle, data>>
       ELSE handle' = FALSE /\ DropQueued({gen}) /\ UNCHANGED stream_rx

restore_active ==
    /\ ~restored
    /\ restored' = TRUE
    /\ IF handle /\ link THEN RestoreStream
                         ELSE /\ handle' = (handle /\ acker # "exited")
                              /\ UNCHANGED <<inbound, stream_rx, data>>
    /\ UNCHANGED <<spoolVars, pumpVars, cmd_rx, acker, finish_due, finish_sent,
                   rx_gen, link, gen, feedback, dropped, downVars, cbVars>>

-----------------------------------------------------------------------------
(* accept_loop of the receiving agent *)

Inbound(op) == inbound # <<>> /\ Head(inbound).op = op

\* The stream of session g goes into the channel of a new task.
spawn_downlink_from(g) == down' = "recv" /\ down_rx' = <<g>>

AcceptNew ==
    /\ Inbound("New")
    /\ inbound' = Tail(inbound)
    /\ spawn_downlink_from(Head(inbound).gen)
    /\ UNCHANGED <<spoolVars, pumpVars, cmd_rx, ackVars, handle, link, gen,
                   restored, wireVars, down_gen, bytes_written, last_acked,
                   intact, cbVars>>

\* The ephemeral listener cannot be bound: the stream is dropped.
AcceptBindFail ==
    /\ Inbound("New")
    /\ inbound' = Tail(inbound)
    /\ dropped' = dropped \union {Head(inbound).gen}
    /\ UNCHANGED <<spoolVars, pumpVars, cmd_rx, ackVars, handle, link, gen,
                   restored, data, feedback, downVars, cbVars>>

\* deliver_reconnect_stream delivers to a known downlink without a gap and
\* with room in its channel; every other reconnect stream is dropped.
Deliverable(h) ==
    /\ down \notin {"none", "exited"}
    /\ h.replay_from <= bytes_written
    /\ Len(down_rx) < DOWN_CAPACITY

AcceptReconnect ==
    /\ Inbound("Reconnect")
    /\ inbound' = Tail(inbound)
    /\ IF Deliverable(Head(inbound))
       THEN down_rx' = Append(down_rx, Head(inbound).gen) /\ UNCHANGED dropped
       ELSE dropped' = dropped \union {Head(inbound).gen} /\ UNCHANGED down_rx
    /\ UNCHANGED <<spoolVars, pumpVars, cmd_rx, ackVars, handle, link, gen,
                   restored, data, feedback, down, down_gen, bytes_written,
                   last_acked, intact, cbVars>>

-----------------------------------------------------------------------------
(* run_downlink *)

Reply(m) ==
    feedback' = IF Alive(down_gen)
                THEN [feedback EXCEPT ![down_gen] = Append(@, m)] ELSE feedback

\* The task returns: the client hears the outcome, and the stream in use and
\* those still queued are dropped.
DownExit(outcome) ==
    /\ down' = "exited"
    /\ down_cb' = down_cb \union {outcome}
    /\ dropped' = dropped \union {down_gen} \union Range(down_rx)
    /\ down_rx' = <<>>

DownRecvFirst ==
    /\ down = "recv" /\ down_rx # <<>>
    /\ down' = "accept"
    /\ down_gen' = Head(down_rx) /\ down_rx' = Tail(down_rx)
    /\ UNCHANGED <<spoolVars, pumpVars, cmd_rx, ackVars, linkVars, wireVars,
                   bytes_written, last_acked, intact, cbVars>>

DownAccept ==
    /\ down = "accept"
    /\ down' = "read"
    /\ last_acked' = bytes_written
    /\ UNCHANGED <<spoolVars, pumpVars, cmd_rx, ackVars, linkVars, wireVars,
                   down_gen, down_rx, bytes_written, intact, cbVars>>

DownAcceptFail ==
    /\ down = "accept"
    /\ Reply(Error)
    /\ DownExit("Failed")
    /\ UNCHANGED <<spoolVars, pumpVars, cmd_rx, ackVars, linkVars, data,
                   down_gen, bytes_written, last_acked, intact, up_cb>>

NextItem == Head(data[down_gen])

PopData == data' = [data EXCEPT ![down_gen] = Tail(@)]

HasChunk == down = "read" /\ data[down_gen] # <<>> /\ IsChunk(NextItem)

Duplicate == NextItem.off + NextItem.len <= bytes_written

\* Replayed chunk, already delivered in full: skipped without an ack.
DownDuplicate ==
    /\ HasChunk /\ Duplicate
    /\ PopData
    /\ UNCHANGED <<spoolVars, pumpVars, cmd_rx, ackVars, linkVars, feedback,
                   dropped, downVars, cbVars>>

\* Mutant: a partly delivered chunk is written from its start.
WrittenTwice == bytes_written + NextItem.len

\* Mutant: a full chunk is counted, whatever its length.
WrittenFull == NextItem.off + CHUNK_SIZE

\* bytes_written once the chunk is written without the part already delivered.
WrittenAfter == NextItem.off + NextItem.len

\* The part of the chunk that is new is written to the client; an ack follows
\* when ACK_INTERVAL bytes have been written since the last one.
DownChunk ==
    /\ HasChunk /\ ~Duplicate /\ NextItem.off <= bytes_written
    /\ PopData
    /\ bytes_written' = WrittenAfter
    /\ intact' = (intact /\ NextItem.src = NextItem.off)
    /\ IF bytes_written' - last_acked >= ACK_INTERVAL
       THEN last_acked' = bytes_written' /\ Reply(Ack(bytes_written'))
       ELSE UNCHANGED <<last_acked, feedback>>
    /\ UNCHANGED <<spoolVars, pumpVars, cmd_rx, ackVars, linkVars, dropped,
                   down, down_gen, down_rx, cbVars>>

\* Writing to the client fails, or the chunk starts beyond bytes_written.
DownFail ==
    /\ HasChunk /\ ~Duplicate
    /\ PopData
    /\ Reply(Error)
    /\ DownExit("Failed")
    /\ UNCHANGED <<spoolVars, pumpVars, cmd_rx, ackVars, linkVars, down_gen,
                   bytes_written, last_acked, intact, up_cb>>

\* The sender's FIN: "transfer complete".
DownFin ==
    /\ down = "read" /\ data[down_gen] # <<>> /\ ~IsChunk(NextItem)
    /\ PopData
    /\ Reply(Done)
    /\ DownExit("Done")
    /\ UNCHANGED <<spoolVars, pumpVars, cmd_rx, ackVars, linkVars, down_gen,
                   bytes_written, last_acked, intact, up_cb>>

DownReadError ==
    /\ down = "read" /\ data[down_gen] = <<>> /\ ~Alive(down_gen)
    /\ down' = "wait"
    /\ UNCHANGED <<spoolVars, pumpVars, cmd_rx, ackVars, linkVars, wireVars,
                   down_gen, down_rx, bytes_written, last_acked, intact, cbVars>>

DownNewStream ==
    /\ down = "wait" /\ down_rx # <<>>
    /\ down' = "read"
    /\ down_gen' = Head(down_rx) /\ down_rx' = Tail(down_rx)
    /\ UNCHANGED <<spoolVars, pumpVars, cmd_rx, ackVars, linkVars, wireVars,
                   bytes_written, last_acked, intact, cbVars>>

-----------------------------------------------------------------------------
\* AckTask::new: it has the read half of the first stream.
NewAckTask ==
    /\ acker = "run" /\ finish_due = FALSE /\ finish_sent = FALSE
    /\ rx_gen = 1 /\ stream_rx = <<>>

Init ==
    /\ spool = NewSpool /\ reader = "accept" /\ data_ready = FALSE /\ space_ready = FALSE
    /\ ticket = 0 /\ pump = "select" /\ q = 0 /\ remaining = 0
    /\ tx_gen = 1 /\ finishing = FALSE
    /\ cmd_rx = <<>>
    /\ NewAckTask
    /\ handle = TRUE
    /\ link = TRUE /\ gen = 1 /\ restored = TRUE
    /\ inbound = <<NewStream>>
    /\ data = [g \in Gens |-> <<>>] /\ feedback = [g \in Gens |-> <<>>]
    /\ dropped = {}
    /\ down = "none" /\ down_gen = 1 /\ down_rx = <<>>
    /\ bytes_written = 0 /\ last_acked = 0 /\ intact = TRUE
    /\ up_cb = {} /\ down_cb = {}

TcpStep ==
    \/ TcpAccept \/ TcpAcceptFail \/ TcpFull \/ TcpWake \/ TcpEof \/ TcpReadError
    \/ \E n \in 1 .. CHUNK_SIZE : TcpRead(n)

PumpStep ==
    \/ PumpTicket \/ PumpWriteError \/ PumpDrainEnd \/ PumpFinish
    \/ PumpLinkDown \/ PumpLinkUpIgnored \/ PumpLinkUp \/ PumpWaitFinish
    \/ PumpDiscardTicket \/ PumpClosed
    \/ \E n \in 1 .. CHUNK_SIZE : PumpWrite(n)

TimerStep == \E b \in 1 .. MaxTicket : TimerTicket(b)

AckStep ==
    \/ AckSendFinish \/ AckDataReady \/ on_ack \/ AckDone \/ AckError
    \/ AckStreamError \/ AckNewStream \/ AckLinkUpFailed \/ AckHandleGone

MgrStep == MgrStreamFinished \/ restore_active

AcceptStep == AcceptNew \/ AcceptBindFail \/ AcceptReconnect

DownStep ==
    \/ DownRecvFirst \/ DownAccept \/ DownAcceptFail \/ DownDuplicate
    \/ DownChunk \/ DownFail \/ DownFin \/ DownReadError \/ DownNewStream

Next ==
    \/ TcpStep \/ TimerStep \/ PumpStep \/ AckStep
    \/ MgrStep \/ AcceptStep \/ DownStep
    \/ LinkLost \/ LinkRestored

Spec == Init /\ [][Next]_vars

-----------------------------------------------------------------------------
(* Safety *)

T == HeadOffset(spool)

Running == pump \in {"select", "drain"}

\* The spool pointers stay consistent: what is retained is exactly A..T
\* (SpoolBuffer's documented invariant, kept across the EOF sentinel by
\* head_offset()), it starts with byte A, and it fits the capacity.
SpoolConsistent ==
    /\ spool.first = spool.bytes_acked
    /\ AtEof \/ spool.head = spool.bytes_acked + spool.len
    /\ spool.len <= SPOOL_CAPACITY

\* The sender frees a byte (A moves past it) only after the receiver has
\* written it to its client, across any sequence of outages and replays.
AckedIsWritten == spool.bytes_acked <= bytes_written

\* The pump's cursor stays inside the retained bytes whenever it may call
\* slice_from (whose debug_asserts demand it).
CursorInSpool == Running => q \in spool.bytes_acked .. T

\* The two "unrecoverable" branches of the receiver are dead code: no chunk
\* starts beyond bytes_written ("chunk offset gap - logic error in pump"), and
\* no reconnect header announces a replay from beyond bytes_written.
NoGap ==
    /\ HasChunk => NextItem.off <= bytes_written
    /\ Inbound("Reconnect") => Head(inbound).replay_from <= bytes_written

\* Every byte handed to the receiving client is the next byte of the
\* sending client's stream: nothing skipped, repeated or misplaced.
DeliveredIntact == intact /\ bytes_written <= T

\* StreamDone at the receiver means that the sending client closed its
\* socket and that the receiver got every byte.
DoneMeansComplete == "Done" \in down_cb => AtEof /\ bytes_written = T

\* StreamDone at the sender is never a false report: the receiver has told its
\* own client the same, and holds every byte the sending client wrote.
SenderDoneMeansComplete ==
    "Done" \in up_cb => /\ down_cb = {"Done"}
                        /\ AtEof /\ bytes_written = T

-----------------------------------------------------------------------------
(* Liveness *)

PumpCommand ==
    PumpFinish \/ PumpLinkDown \/ PumpLinkUpIgnored \/ PumpLinkUp \/ PumpWaitFinish

\* Every task that can run is run, the ARL keeps granting tickets to a stream
\* with backlog, a receiving client connects or its accept fails, and
\* reconnect_loop succeeds. tokio::select! polls its branches in random order,
\* hence strong fairness for the pump's command branch. Nothing is assumed of
\* the sending client nor of link failures.
Fairness ==
    /\ WF_vars(TcpFull \/ TcpWake) /\ WF_vars(Backlog > 0 /\ TimerStep)
    /\ WF_vars(PumpStep) /\ SF_vars(PumpCommand)
    /\ WF_vars(AckStep) /\ WF_vars(MgrStep) /\ WF_vars(AcceptStep)
    /\ WF_vars(DownStep) /\ WF_vars(LinkRestored)

FairSpec == Spec /\ Fairness

Outage == ~link \/ gen > 1

\* Once the sending client has closed its socket and the receiver has taken
\* the stream, both clients hear of the end, unless the link fails.
TransferEnds ==
    (AtEof /\ down # "none") ~> ((up_cb # {} /\ down_cb # {}) \/ Outage)

\* Back-pressure is temporary: while a receiving task exists, a reader paused
\* on a full spool is woken to find room, or the stream ends, unless the link
\* fails; no wake-up through space_ready is lost.
BackPressureEnds ==
    (reader = "full" /\ down # "none")
        ~> ((reader # "full" /\ HasSpoolSpace) \/ acker = "exited" \/ Outage)

\* After EOF the pump sends everything and the FIN, also when an outage
\* intervenes, unless no receiving task is left.
PumpFinishes == AtEof ~> (pump = "exited" \/ down \in {"none", "exited"})

\* After a reconnect the replay lets a writer blocked on a full spool go on,
\* as long as both tasks live ("on reconnect it replays A..T on the fresh stream
\* and resumes"). A receiver that already has every spooled byte, but whose acks
\* were lost with the link, takes the whole replay for duplicates and
\* acknowledges none of it.
WriterResumes ==
    (reader = "full" /\ down # "none")
        ~> ((reader # "full" /\ HasSpoolSpace) \/ "exited" \in {acker, down})

-----------------------------------------------------------------------------
(* What the stream promises, and the refinement that shows it is kept *)

Relay == INSTANCE ByteRelay WITH
    accepted <- T, closed <- AtEof, delivered <- bytes_written,
    confirmed <- "Done" \in up_cb

\* The relay, with all its tasks, outages and replays, implements ByteRelay:
\* bytes are delivered in order and never ahead of the sender, and StreamDone
\* at the sender is a confirmation of complete delivery.
ImplementsByteRelay == Relay!Spec

-----------------------------------------------------------------------------
(* Inductive invariant *)

IsLinkUp(i) == cmd_rx[i].op = "LinkUp"

\* Streams are handed down in the order they were opened, each once: from the
\* connection to the AckTask's channel, to its reader, to the pump's command
\* queue, to the pump.
StreamsInOrder ==
    /\ tx_gen <= rx_gen /\ rx_gen <= gen
    /\ \A i \in 1 .. Len(cmd_rx) :
          IsLinkUp(i) => tx_gen < cmd_rx[i].gen /\ cmd_rx[i].gen <= rx_gen
    /\ \A i, j \in 1 .. Len(cmd_rx) :
          i < j /\ IsLinkUp(i) /\ IsLinkUp(j) => cmd_rx[i].gen < cmd_rx[j].gen
    /\ \A i \in 1 .. Len(stream_rx) : rx_gen < stream_rx[i] /\ stream_rx[i] <= gen
    /\ \A i, j \in 1 .. Len(stream_rx) : i < j => stream_rx[i] < stream_rx[j]
    /\ ~restored => /\ rx_gen < gen
                    /\ \A i \in 1 .. Len(stream_rx) : stream_rx[i] < gen

End(item) == item.off + item.len

\* A chunk carries the bytes its offset names, read from the client, on a
\* stream the pump has been given.
ChunksTrue ==
    \A g \in Gens : \A i \in 1 .. Len(data[g]) :
        IsChunk(data[g][i]) => /\ data[g][i].src = data[g][i].off
                               /\ End(data[g][i]) <= T
                               /\ g <= tx_gen

\* The chunks of a stream follow each other without a hole.
ChunksContiguous ==
    \A g \in Gens : \A i \in 1 .. Len(data[g]) - 1 :
        IsChunk(data[g][i]) /\ IsChunk(data[g][i + 1])
            => data[g][i + 1].off = End(data[g][i])

\* The next chunk of a stream starts no later than where the receiver is.
HeadsNotAhead ==
    down # "exited" => \A g \in Gens :
        data[g] # <<>> /\ IsChunk(data[g][1]) => data[g][1].off <= bytes_written

\* An ack names bytes the receiver has written, on a stream the pump has been given.
AcksTrue ==
    \A g \in Gens : \A i \in 1 .. Len(feedback[g]) :
        feedback[g][i].op = "Ack" => /\ feedback[g][i].bytes <= bytes_written
                                     /\ g <= tx_gen

\* The header of the new stream comes before all others, and before the
\* receiving task it creates.
NewStreamFirst ==
    \A i \in 1 .. Len(inbound) : inbound[i].op = "New" => i = 1 /\ down = "none"

\* No header on the way announces a replay from beyond what is written.
ReplaysNotAhead ==
    \A i \in 1 .. Len(inbound) : inbound[i].replay_from <= bytes_written

\* Neither chunks nor acks on the running pump's stream are beyond its cursor.
CursorCoversWire ==
    Running =>
        /\ \A i \in 1 .. Len(data[tx_gen]) :
              IsChunk(data[tx_gen][i]) => End(data[tx_gen][i]) <= q
        /\ \A i \in 1 .. Len(feedback[tx_gen]) :
              feedback[tx_gen][i].op = "Ack" => feedback[tx_gen][i].bytes <= q

\* The running pump continues where the last chunk on its stream ends.
CursorAtEnd ==
    Running /\ ~Broken(tx_gen) =>
        LET n == Len(data[tx_gen]) IN
        /\ n = 0 => q <= bytes_written
        /\ n > 0 /\ IsChunk(data[tx_gen][n]) => End(data[tx_gen][n]) = q

DeliveryInv ==
    /\ SpoolConsistent /\ AckedIsWritten /\ CursorInSpool /\ DeliveredIntact
    /\ ChunksTrue /\ ChunksContiguous /\ HeadsNotAhead
    /\ AcksTrue /\ NewStreamFirst /\ ReplaysNotAhead
    /\ CursorCoversWire /\ CursorAtEnd

\* restore_active (or, for the first, stream_start) has opened QUIC stream g.
Opened(g) == g < gen \/ (g = gen /\ restored)

\* Nothing is known of a stream before it is opened, and nothing is on it.
UnopenedEmpty ==
    /\ \A g \in Gens : ~Opened(g) => data[g] = <<>> /\ feedback[g] = <<>>
    /\ Opened(down_gen)
    /\ \A g \in Range(down_rx) : Opened(g)
    /\ \A i \in 1 .. Len(inbound) : Opened(inbound[i].gen)

\* The AckTask lives, and stream g is the one it reads or one it will get.
Acked(g) == acker # "exited" /\ (g = rx_gen \/ g \in Range(stream_rx))

\* The only FIN on stream g is the pump's last word, behind all that the client
\* wrote.
FinIsLast(g) ==
    \A i \in 1 .. Len(data[g]) :
        ~IsChunk(data[g][i]) =>
            /\ i = Len(data[g]) /\ g = tx_gen /\ pump = "exited" /\ AtEof
            /\ i = 1 => down = "exited" \/ bytes_written = T
            /\ i > 1 => End(data[g][i - 1]) = T

\* On the streams of the AckTask there is no other FIN. (The FINs of dropped
\* streams are on other streams.)
FinEndsStream == \A g \in Gens : Acked(g) => FinIsLast(g)

Complete == down_cb = {"Done"} /\ AtEof /\ bytes_written = T

\* A Done on its way to the AckTask was sent when everything was written.
DoneIsTrue ==
    \A g \in Gens : Acked(g) => \A i \in 1 .. Len(feedback[g]) :
        feedback[g][i].op = "Done" => down = "exited" /\ Complete

\* Each client hears of one outcome at the end of its task, the sending one of
\* Done only after the receiving one.
OutcomesInOrder ==
    /\ down # "exited" => down_cb = {}
    /\ "Done" \in up_cb => acker = "exited" /\ down = "exited" /\ Complete

\* What is reported is complete: the FIN the receiver acts on, its Done, the callbacks.
CompletionInv == UnopenedEmpty /\ FinEndsStream /\ DoneIsTrue /\ OutcomesInOrder

\* run_downlink sends Done and Error only as it returns.
RepliesEnd ==
    \A g \in Gens : \A i \in 1 .. Len(feedback[g]) :
        feedback[g][i].op \in {"Done", "Error"} => down = "exited"

\* As long as the link has failed at most once, no stream is dropped under a
\* living run_downlink: a FIN it can read is the pump's last word, and an AckTask
\* that returned before it took the second stream, with its handle still in the
\* session, did so on a reply that run_downlink sent as it returned.
OneOutage ==
    gen <= 2 =>
        /\ down # "exited" => \A g \in Gens : FinIsLast(g)
        /\ acker = "exited" /\ handle /\ rx_gen = 1 => down = "exited"
        /\ DoneMeansComplete

OneOutageInv == RepliesEnd /\ OneOutage

\* The inductive invariant of the relay: delivery is exact, and completion is
\* reported only when it is.
RelayInv == DeliveryInv /\ CompletionInv /\ OneOutageInv
=============================================================================
