----------------------------- MODULE BwCapTest -----------------------------
(***************************************************************************)
(* The bandwidth test program (bin/bw_cap_test) and the two agents it      *)
(* drives, composed through the agents' callbacks:                         *)
(*   agent task -> CallbackAgent -> CallbackActor -> CIC -> tuner          *)
(* Every arrow is a bounded queue, and the second and third may drop.      *)
(* A stream has a sender tuner, which writes to the sending agent until    *)
(* the CIC's duration timer tells it to stop, and a receiver tuner.  The   *)
(* CIC collects one result per tuner; its failsafe timer kills the rest.   *)
(***************************************************************************)
EXTENDS CallbackAgent

CONSTANTS
    Streams,        \* uuids, one pair of tuners each
    CIC_CAPACITY    \* messages in the CIC's channel (256 in the code)

Roles == {"Sender", "Receiver"}

ASSUME BwCapAssumption ==
    Agents = Roles /\ CIC_CAPACITY \in Nat \ {0}

Keys == Streams \X Roles

VARIABLES
    agent,           \* what the agent of each role has told of each stream
    writer,          \* the sender tuner's TCP connection: "none", "open", "closed"
    tuner,           \* "none", "port", "write", "agent_done", "recv_done",
                     \* "report", "exited"
    outcome,         \* what the tuner is going to report
    cmd_rx,          \* command channel of each tuner
    cic,             \* "setup", "run", "join", "returned"
    shutdown_sent,
    dispatch,        \* tuners the CIC can reach
    ported,
    results,         \* "none", "Pass", "Fail" of each tuner
    cic_rx,
    killed,          \* the failsafe has fired
    verdict          \* of the program: "none", "passed", "failed"

tunerVars == <<writer, tuner, outcome>>
cicVars   == <<cic, shutdown_sent, dispatch, ported, results, killed, verdict>>

vars == <<callbackVars, agent, tunerVars, cmd_rx, cicVars, cic_rx>>

Event(op, u) == [op |-> op, uuid |-> u]

-----------------------------------------------------------------------------
(* ActiveStream of the two agents: what they tell their client of a stream. *)
(* An outage shows here as an agent that says nothing for a while, or never. *)

\* cb_tx.send
Emit(k, st, op) ==
    /\ agent' = [agent EXCEPT ![k] = st]
    /\ send(k[2], Event(op, k[1]))
    /\ UNCHANGED <<client, socket, pings, dropped, tunerVars, cmd_rx, cicVars, cic_rx>>

\* spawn_uplink, spawn_downlink_from
AgentStarted(k) == tuner[k] # "none" /\ agent[k] = "none" /\ Emit(k, "started", "Started")

Running(k) == agent[k] \in {"started", "read_error"}

\* run_downlink reads the sender's FIN, which is sent after the EOF or the read
\* error of its client, and writes Done to the stream; its own callback is next.
WormholeDone(u) ==
    /\ agent[<<u, "Receiver">>] = "started" /\ tuner[<<u, "Receiver">>] = "recv_done"
    /\ writer[u] = "closed" \/ agent[<<u, "Sender">>] \in {"read_error", "failed"}
    /\ agent' = [agent EXCEPT ![<<u, "Receiver">>] = "closing"]
    /\ UNCHANGED <<callbackVars, tunerVars, cmd_rx, cicVars, cic_rx>>

\* The callback of run_downlink, and that of AckTask for the Done it has read:
\* either may come first.
AgentDone(k) ==
    /\ IF k[2] = "Sender"
       THEN Running(k) /\ agent[<<k[1], "Receiver">>] \in {"closing", "done"}
       ELSE agent[k] = "closing"
    /\ Emit(k, IF agent[k] = "read_error" THEN "late_done" ELSE "done", "Done")

\* A failed accept or write, an Error from the receiver, a dropped handle.
AgentFailed(k) == Running(k) /\ Emit(k, "failed", "Failed")

\* run_tcp_reader: a read error is reported, and the stream goes on to its end
\* with what was read so far.
AgentReadError(u) ==
    /\ agent[<<u, "Sender">>] = "started" /\ writer[u] # "none"
    /\ Emit(<<u, "Sender">>, "read_error", "Failed")

-----------------------------------------------------------------------------
(* CallbackActor: every call is forwarded with try_send *)

Forward(a) ==
    /\ socket[a] # <<>>
    /\ socket' = [socket EXCEPT ![a] = Tail(@)]
    /\ IF Len(cic_rx) < CIC_CAPACITY
       THEN /\ cic_rx' = Append(cic_rx, [role |-> a, event |-> Head(socket[a])])
            /\ UNCHANGED dropped
       ELSE /\ Drop(a, Head(socket[a]))
            /\ UNCHANGED cic_rx
    /\ UNCHANGED <<rx, client, pings, agent, tunerVars, cmd_rx, cicVars>>

-----------------------------------------------------------------------------
(* real_main up to cic.run *)

\* Both tuners are spawned and registered, then stream_start is called.
StreamStart(u) ==
    /\ cic = "setup" /\ tuner[<<u, "Sender">>] = "none"
    /\ tuner' = [k \in Keys |-> IF k[1] = u THEN "port" ELSE tuner[k]]
    /\ dispatch' = dispatch \union {k \in Keys : k[1] = u}
    /\ UNCHANGED <<callbackVars, agent, writer, outcome, cmd_rx, cic,
                   shutdown_sent, ported, results, killed, verdict, cic_rx>>

\* stream_start is not answered with RUNNING: the program gives up.
StreamRefused(u) ==
    /\ cic = "setup" /\ tuner[<<u, "Sender">>] = "none"
    /\ cic' = "returned" /\ verdict' = "failed"
    /\ UNCHANGED <<callbackVars, agent, tunerVars, cmd_rx, shutdown_sent, dispatch,
                   ported, results, killed, cic_rx>>

RunCic ==
    /\ cic = "setup" /\ dispatch = Keys
    /\ cic' = "run"
    /\ UNCHANGED <<callbackVars, agent, tunerVars, cmd_rx, shutdown_sent,
                   dispatch, ported, results, killed, verdict, cic_rx>>

-----------------------------------------------------------------------------
(* Cic::run *)

Listening(k) == k \in dispatch /\ tuner[k] \notin {"report", "exited"}

\* The command goes to every tuner of ks that still takes one. (A tuner's
\* channel holds 32 commands and is sent five at most.)
Deliver(ks, op) ==
    cmd_rx' = [k \in Keys |-> IF k \in ks /\ Listening(k) THEN Append(cmd_rx[k], op)
                                                          ELSE cmd_rx[k]]

\* Mutant: the role is not part of the key.
RouteByUuid(k, op) == Deliver({j \in Keys : j[1] = k[1]}, op)

route(k, op) == Deliver({k}, op)

Message(op) ==
    /\ cic = "run" /\ cic_rx # <<>> /\ Head(cic_rx).event.op = op
    /\ cic_rx' = Tail(cic_rx)

MsgKey == <<Head(cic_rx).event.uuid, Head(cic_rx).role>>

\* StreamStarted; a second one for the same tuner is ignored.
CicStarted ==
    /\ Message("Started")
    /\ Deliver({MsgKey} \ ported, "Port")
    /\ ported' = ported \union {MsgKey}
    /\ UNCHANGED <<callbackVars, agent, tunerVars, cic, shutdown_sent, dispatch,
                   results, killed, verdict>>

CicDone ==
    /\ Message("Done")
    /\ route(MsgKey, "Done")
    /\ UNCHANGED <<callbackVars, agent, tunerVars, cicVars>>

CicFailed ==
    /\ Message("Failed")
    /\ route(MsgKey, "Failed")
    /\ UNCHANGED <<callbackVars, agent, tunerVars, cicVars>>

\* Mutant: the last tuner is not waited for.
AllButOne(r) == \E k \in Keys : \A j \in Keys \ {k} : r[j] # "none"

AllFinished(r) == \A k \in Keys : r[k] # "none"

CicFinished ==
    /\ Message("Finished")
    /\ results' = [results EXCEPT ![MsgKey] = Head(cic_rx).event.outcome]
    /\ dispatch' = dispatch \ {MsgKey}
    /\ cic' = IF AllFinished(results') THEN "join" ELSE cic
    /\ UNCHANGED <<callbackVars, agent, tunerVars, cmd_rx, shutdown_sent, ported,
                   killed, verdict>>

shutdown_senders == Deliver({k \in Keys : k[2] = "Sender"}, "Shutdown")

DurationElapsed ==
    /\ cic = "run" /\ ~shutdown_sent
    /\ shutdown_senders
    /\ shutdown_sent' = TRUE
    /\ UNCHANGED <<callbackVars, agent, tunerVars, cic, dispatch, ported, results,
                   killed, verdict, cic_rx>>

\* The failsafe timer runs KILL_HEADROOM_SECS longer than the duration timer,
\* and nothing in the loop waits that long. Kill to everyone still registered,
\* and the loop ends: their reports are not collected any more.
Failsafe ==
    /\ cic = "run" /\ shutdown_sent
    /\ Deliver(Keys, "Kill")
    /\ cic' = "join" /\ killed' = TRUE
    /\ UNCHANGED <<callbackVars, agent, tunerVars, shutdown_sent, dispatch, ported,
                   results, verdict, cic_rx>>

\* The tasks are joined, for five seconds each at most, and the channels go
\* with the CIC. real_main fails if a result says so; with a cap the throughput
\* must also be right.
CicReturn ==
    /\ cic = "join"
    /\ cic' = "returned"
    /\ verdict' \in (IF \E k \in Keys : results[k] = "Fail" THEN {"failed"}
                                                          ELSE {"passed", "failed"})
    /\ cic_rx' = <<>> /\ cmd_rx' = [k \in Keys |-> <<>>]
    /\ UNCHANGED <<callbackVars, agent, tunerVars, shutdown_sent, dispatch, ported,
                   results, killed>>

-----------------------------------------------------------------------------
(* Tuners *)

Cmd(k, op) == cmd_rx[k] # <<>> /\ Head(cmd_rx[k]) = op

TakeCmd(k) == cmd_rx' = [cmd_rx EXCEPT ![k] = Tail(@)]

Goto(k, st) == tuner' = [tuner EXCEPT ![k] = st]

\* The tuner reads no further command.
Report(k, o) ==
    /\ Goto(k, "report")
    /\ outcome' = [outcome EXCEPT ![k] = o]
    /\ cmd_rx' = [cmd_rx EXCEPT ![k] = <<>>]

CloseWriter(k) ==
    writer' = IF k[2] = "Sender" /\ writer[k[1]] = "open"
              THEN [writer EXCEPT ![k[1]] = "closed"] ELSE writer

TunerRest == UNCHANGED <<callbackVars, agent, cicVars, cic_rx>>

\* wait_for_port: the sender connects and starts writing, the receiver reading.
TunerPort(k) ==
    /\ tuner[k] = "port" /\ Cmd(k, "Port") /\ TakeCmd(k)
    /\ IF k[2] = "Sender"
       THEN Goto(k, "write") /\ writer' = [writer EXCEPT ![k[1]] = "open"]
       ELSE Goto(k, "recv_done") /\ UNCHANGED writer
    /\ UNCHANGED outcome /\ TunerRest

\* wait_for_shutdown: Shutdown, or the agent's Done before it, closes the
\* socket; in both cases the tuner goes on to wait for a Done.
TunerShutdown(k) ==
    /\ tuner[k] = "write" /\ (Cmd(k, "Shutdown") \/ Cmd(k, "Done")) /\ TakeCmd(k)
    /\ CloseWriter(k) /\ Goto(k, "agent_done")
    /\ UNCHANGED outcome /\ TunerRest

\* wait_for_agent_done
TunerAgentDone(k) ==
    /\ tuner[k] = "agent_done" /\ Cmd(k, "Done")
    /\ Report(k, "Pass")
    /\ UNCHANGED writer /\ TunerRest

\* Failed, in wait_for_shutdown and in wait_for_agent_done
TunerAgentFailed(k) ==
    /\ tuner[k] \in {"write", "agent_done"} /\ Cmd(k, "Failed")
    /\ CloseWriter(k) /\ Report(k, "Fail")
    /\ TunerRest

\* Mutant: the receiver passes with what it has read, also after a Failed.
TunerReceiverEnds(k) ==
    /\ tuner[k] = "recv_done" /\ (Cmd(k, "Done") \/ Cmd(k, "Failed"))
    /\ Report(k, "Pass")
    /\ UNCHANGED writer /\ TunerRest

\* wait_for_receiver_done, and read_handle.await: the agent, which is through
\* with the stream, has closed the connection.
TunerReceiverDone(k) ==
    /\ tuner[k] = "recv_done" /\ (Cmd(k, "Done") \/ Cmd(k, "Failed"))
    /\ Report(k, IF Cmd(k, "Done") THEN "Pass" ELSE "Fail")
    /\ UNCHANGED writer /\ TunerRest

Waiting == {"port", "write", "agent_done", "recv_done"}

TunerKill(k) ==
    /\ tuner[k] \in Waiting /\ Cmd(k, "Kill")
    /\ CloseWriter(k) /\ Report(k, "Fail")
    /\ TunerRest

\* "unexpected cmd": logged and ignored.
Expected(k) ==
    CASE tuner[k] = "port"       -> {"Port", "Kill"}
      [] tuner[k] = "write"      -> {"Shutdown", "Kill", "Done", "Failed"}
      [] OTHER                   -> {"Done", "Failed", "Kill"}

TunerIgnores(k) ==
    /\ tuner[k] \in Waiting /\ cmd_rx[k] # <<>> /\ Head(cmd_rx[k]) \notin Expected(k)
    /\ TakeCmd(k)
    /\ UNCHANGED tunerVars /\ TunerRest

\* async_tcp_writer reaches the end of its payload.
WriterExhausts(u) ==
    /\ writer[u] = "open"
    /\ writer' = [writer EXCEPT ![u] = "closed"]
    /\ UNCHANGED <<tuner, outcome, cmd_rx>> /\ TunerRest

\* finish: waits for room in the channel.
finish(k) ==
    /\ tuner[k] = "report" /\ Len(cic_rx) < CIC_CAPACITY
    /\ cic_rx' = Append(cic_rx, [role |-> k[2],
            event |-> [op |-> "Finished", uuid |-> k[1], outcome |-> outcome[k]]])
    /\ Goto(k, "exited")
    /\ UNCHANGED <<callbackVars, agent, writer, outcome, cmd_rx, cicVars>>

-----------------------------------------------------------------------------
\* Cic::new
CicInit ==
    /\ cic = "setup" /\ shutdown_sent = FALSE /\ dispatch = {} /\ ported = {}
    /\ results = [k \in Keys |-> "none"] /\ cic_rx = <<>>
    /\ killed = FALSE /\ verdict = "none"

\* The callback servers are bound and both agents have had their set_callback.
Init ==
    /\ CallbackInit /\ CicInit
    /\ agent = [k \in Keys |-> "none"]
    /\ writer = [u \in Streams |-> "none"]
    /\ tuner = [k \in Keys |-> "none"] /\ outcome = [k \in Keys |-> "none"]
    /\ cmd_rx = [k \in Keys |-> <<>>]

CallbackStep(a) ==
    /\ run(a)
    /\ UNCHANGED <<agent, tunerVars, cmd_rx, cicVars, cic_rx>>

PingStep(a) == PingTimer(a) /\ UNCHANGED <<agent, tunerVars, cmd_rx, cicVars, cic_rx>>

AgentStep(k) == AgentStarted(k) \/ AgentDone(k) \/ AgentFailed(k)

CicMessage == CicStarted \/ CicDone \/ CicFailed \/ CicFinished

TunerStep(k) ==
    \/ TunerPort(k) \/ TunerShutdown(k) \/ TunerAgentDone(k) \/ TunerAgentFailed(k)
    \/ TunerReceiverDone(k) \/ TunerKill(k)
    \/ TunerIgnores(k) \/ finish(k)

\* The program exits when it has its verdict.
Alive == cic # "returned"

Next ==
    /\ Alive
    /\ \/ \E a \in Agents : CallbackStep(a) \/ PingStep(a) \/ Forward(a)
       \/ \E k \in Keys : AgentStep(k) \/ TunerStep(k)
       \/ \E u \in Streams : \/ StreamStart(u) \/ StreamRefused(u)
                             \/ AgentReadError(u) \/ WormholeDone(u) \/ WriterExhausts(u)
       \/ RunCic \/ CicMessage \/ DurationElapsed \/ Failsafe \/ CicReturn

Spec == Init /\ [][Next]_vars

-----------------------------------------------------------------------------
(* Properties *)

Lost(k) == k \in dropped

\* A Pass that the CIC has collected of a tuner is backed by a Done of this
\* stream and this role's own agent: through the four queues no other answer
\* is taken for it. If the agent had reported a read error before its Done,
\* the tuner passes only if the report was dropped on the way.
PassIsReal ==
    \A k \in Keys : results[k] = "Pass" =>
        agent[k] = "done" \/ (agent[k] = "late_done" /\ Lost(k))

\* Unless the failsafe ended the run, the program passes only if every stream
\* was finished on both sides. (After the failsafe the tuners that were killed
\* have no result at all, and real_main looks at those there are.)
VerdictSound ==
    verdict = "passed" /\ ~killed =>
        \A k \in Keys : agent[k] = "done" \/ (agent[k] = "late_done" /\ Lost(k))

Has(s, x) == \E i \in 1 .. Len(s) : s[i] = x

\* The event of stream and role k, and the message of the CallbackActor about it.
Told(k, op)      == Event(op, k[1])
Forwarded(k, op) == [role |-> k[2], event |-> Told(k, op)]

\* An event about k is in one of the four queues on the way to its tuner.
InFlight(k, op, r, s, c, d) ==
    Has(r, Told(k, op)) \/ Has(s, Told(k, op)) \/ Has(c, Forwarded(k, op)) \/ Has(d, op)

OnTheWay(k, op) == InFlight(k, op, rx[k[2]], socket[k[2]], cic_rx, cmd_rx[k])

\* The callback threads and servers, the tuners and the CIC run, and a ping is
\* answered or fails. No agent is assumed to start, finish or fail a stream,
\* and neither timer to fire.
FairSpec ==
    /\ Spec
    /\ \A a \in Agents : WF_vars(Alive /\ CallbackStep(a)) /\ WF_vars(Alive /\ Forward(a))
    /\ \A k \in Keys : WF_vars(Alive /\ TunerStep(k))
    /\ WF_vars(CicMessage) /\ WF_vars(CicReturn)

\* The answer of its agent is on the way to the tuner: a Failed, whatever the
\* tuner does, or a Done, unless the tuner still writes (see TunerShutdown).
Answered(k) ==
    OnTheWay(k, "Failed") \/ (OnTheWay(k, "Done") /\ tuner[k] # "write")

\* Once the CIC runs, an answer on its way ends the tuner by itself, without the
\* failsafe, through four bounded queues and a report that waits for room. The
\* exception is a stream of which an event was dropped.
AnswerEndsTuner ==
    \A k \in Keys :
        cic = "run" /\ Answered(k) ~> tuner[k] = "exited" \/ cic = "returned" \/ Lost(k)

-----------------------------------------------------------------------------
(* The inductive invariant *)

EventType   == [op : {"Started", "Done", "Failed"}, uuid : Streams]
ReportType  == [op : {"Finished"}, uuid : Streams, outcome : {"none", "Pass", "Fail"}]
CallbackCmd == {Register, Ping} \union EventType
CicMsg      == [role : Roles, event : EventType \union ReportType]
TunerCmd    == {"Port", "Done", "Failed", "Shutdown", "Kill"}

AgentStates == {"none", "started", "read_error", "closing", "done", "late_done", "failed"}

TypeOK ==
    /\ rx \in [Agents -> Seq(CallbackCmd)]
    /\ socket \in [Agents -> Seq(EventType)]
    /\ cic_rx \in Seq(CicMsg)
    /\ cmd_rx \in [Keys -> Seq(TunerCmd)]
    /\ agent \in [Keys -> AgentStates]
    /\ writer \in [Streams -> {"none", "open", "closed"}]
    /\ tuner \in [Keys -> Waiting \union {"none", "report", "exited"}]
    /\ outcome \in [Keys -> {"none", "Pass", "Fail"}]
    /\ results \in [Keys -> {"none", "Pass", "Fail"}]

\* A tuner is spawned with the other one of its stream, stays reachable until it
\* has reported, and keeps to the states of its role.
TunersInOrder ==
    /\ \A k \in Keys : k \notin dispatch => tuner[k] \in {"none", "exited"}
    /\ \A k \in Keys : tuner[k] \in {"write", "agent_done"} => k[2] = "Sender"
    /\ \A k \in Keys : tuner[k] = "recv_done" => k[2] = "Receiver"
    /\ \A u \in Streams :
          /\ tuner[<<u, "Sender">>] = "none" <=> tuner[<<u, "Receiver">>] = "none"
          /\ tuner[<<u, "Sender">>] \in {"none", "port"} => writer[u] = "none"

\* The agent has reported a read error; the tuner was past wait_for_port then.
Late(k) == agent[k] \in {"read_error", "late_done"}

LateIsSender == \A k \in Keys : Late(k) => k[2] = "Sender" /\ tuner[k] \notin {"none", "port"}

\* In s, every y is behind an x.
Behind(s, x, y) == \A i \in 1 .. Len(s) : s[i] = y => \E j \in 1 .. i - 1 : s[j] = x

\* A Done about k is real, in a queue and in what the tuner is to report.
DoneIsReal ==
    \A k \in Keys :
        OnTheWay(k, "Done") \/ outcome[k] = "Pass" => agent[k] \in {"done", "late_done"}

\* Failed is on its way to the tuner of k, and no Done overtakes it.
InOrder(k, r, s, c, d) ==
    LET F == Told(k, "Failed")  D == Told(k, "Done")
        CF == Forwarded(k, "Failed")  CD == Forwarded(k, "Done")
    IN  /\ InFlight(k, "Failed", r, s, c, d)
        /\ Behind(r, F, D) \/ Has(s, F) \/ Has(c, CF) \/ Has(d, "Failed")
        /\ Behind(s, F, D) \/ Has(c, CF) \/ Has(d, "Failed")
        /\ Behind(c, CF, CD) \/ Has(d, "Failed")
        /\ Behind(d, "Failed", "Done")

\* Unless an event was dropped, the tuner of a stream with a read error has
\* decided, or has the Failed still to come, before any Done.
FailedFirst ==
    Alive => \A k \in Keys :
        Late(k) /\ ~Lost(k) /\ tuner[k] \notin {"report", "exited"}
            => InOrder(k, rx[k[2]], socket[k[2]], cic_rx, cmd_rx[k])

LateNeverPasses == \A k \in Keys : Late(k) /\ ~Lost(k) => outcome[k] # "Pass"

\* A tuner's report, on its way or collected, is what the tuner has decided.
ReportsTrue ==
    /\ \A i \in 1 .. Len(cic_rx) : cic_rx[i].event.op = "Finished" =>
          LET k == <<cic_rx[i].event.uuid, cic_rx[i].role>>
          IN  tuner[k] = "exited" /\ outcome[k] = cic_rx[i].event.outcome
    /\ \A k \in Keys : results[k] # "none" => tuner[k] = "exited" /\ results[k] = outcome[k]

\* The program decides once, on the results of all tuners or after the failsafe.
VerdictLast ==
    /\ cic = "join" /\ ~killed => AllFinished(results)
    /\ verdict # "none" => cic = "returned"
    /\ verdict = "passed" /\ ~killed => \A k \in Keys : results[k] = "Pass"

BwCapInv ==
    /\ TypeOK /\ TunersInOrder /\ LateIsSender /\ DoneIsReal /\ FailedFirst
    /\ LateNeverPasses /\ ReportsTrue /\ VerdictLast
=============================================================================
