--------------------------- MODULE SessionProofs ---------------------------
(***************************************************************************)
(* Two invariants of a session manager, for every number of requests,      *)
(* sessions, faults and hooks and every channel capacity: its run loop and *)
(* its accept loop never wait for each other, and every request is in      *)
(* exactly one place, with the pending queue in priority order. Then what  *)
(* the concurrency limit and that order amount to: which steps may take a  *)
(* handle, how many uplinks may be active, when the queue must be empty,   *)
(* and who may start before whom.                                          *)
(***************************************************************************)
EXTENDS SessionManager, DataProofs

USE SMTT(30)

\* The strengthening of NoMutualWait. The accept loop waits after its accept
\* failed; if that was on an older session than the one run() watches, then a
\* reconnect has happened since it took its snapshot, and the permit that this
\* reconnect stored is still there, since only the accept loop takes it, on its
\* way to the next snapshot.
WaitInv ==
    /\ gen \in Nat \ {0}
    /\ session = IF run = "reconnect" THEN 0 ELSE gen
    /\ accept \in {"accept", "header"} /\ accept_session # gen => session_restored
    /\ NoMutualWait

\* The variables that WaitInv is about.
waitVars == <<gen, session, run, accept, accept_session, session_restored, state_changed>>

\* The steps of the clients, of Agent::run, of the AckTasks and of the link, and
\* the commands other than link_enable, touch none of these variables.
LEMMA QuietSteps ==
    ASSUME \/ LinkLost \/ ClientHook \/ AgentForward
           \/ \E p \in Pollers : ClientGetConnStats(p)
           \/ \E u \in Streams : ClientStreamStart(u) \/ AckNewStream(u) \/ AckEnd(u)
           \/ RunStartOpened \/ RunStartQueued \/ RunStreamFinished \/ RunGetConnStats
           \/ RunSetMaxConcurrent
    PROVE  UNCHANGED waitVars
<1> USE DEF waitVars, linkVars, runVars, acceptVars
<1>1. CASE LinkLost \/ ClientHook \/ AgentForward
  BY <1>1, Zenon DEF LinkLost, ClientHook, AgentForward
<1>2. CASE \E p \in Pollers : ClientGetConnStats(p)
  BY <1>2, Zenon DEF ClientGetConnStats
<1>3. CASE \E u \in Streams : ClientStreamStart(u) \/ AckNewStream(u) \/ AckEnd(u)
  BY <1>3, Zenon DEF ClientStreamStart, AckNewStream, AckEnd
<1>4. CASE RunStartOpened \/ RunStartQueued
  BY <1>4, Zenon DEF RunStartOpened, RunStartQueued
<1>5. CASE RunStreamFinished \/ RunGetConnStats \/ RunSetMaxConcurrent
  BY <1>5, Zenon DEF RunStreamFinished, RunGetConnStats, RunSetMaxConcurrent
<1>6. QED
  BY <1>1, <1>2, <1>3, <1>4, <1>5, Zenon

\* The first session is installed and nobody waits.
LEMMA InitWait == Init => WaitInv
BY DEF Init, InitRemote, WaitInv, NoMutualWait

\* Every step of the session manager keeps the strengthened invariant.
LEMMA NextWait == WaitInv /\ [Next]_vars => WaitInv'
<1> SUFFICES ASSUME WaitInv, [Next]_vars PROVE WaitInv'
  OBVIOUS
<1> USE DEF WaitInv, NoMutualWait, linkVars, runVars, acceptVars
<1>1. ASSUME UNCHANGED waitVars PROVE WaitInv'
  BY <1>1, Zenon DEF waitVars
<1>2. CASE UNCHANGED vars
  BY <1>2, Zenon DEF vars
<1>3. CASE RunLinkEnable
  BY <1>3, Zenon DEF RunLinkEnable, Cmd
<1>4. CASE RunLinkFailed
  BY <1>4, Zenon DEF RunLinkFailed, on_link_failed
<1>5. CASE RunReconnect
  <2>1. /\ gen' = gen + 1 /\ session' = gen + 1 /\ session_restored' = TRUE
        /\ run' = "select"
    BY <1>5, Zenon DEF RunReconnect
  <2>2. QED
    BY <2>1
<1>6. CASE AcceptTop
  BY <1>6, Zenon DEF AcceptTop
<1>7. CASE AcceptStream \/ AcceptHeader
  BY <1>7, Zenon DEF AcceptStream, AcceptHeader
<1>8. CASE AcceptError
  BY <1>8, Zenon DEF AcceptError, CloseSession
<1>9. CASE AcceptWake
  BY <1>9, Zenon DEF AcceptWake
<1>10. QED
  BY <1>1, <1>2, <1>3, <1>4, <1>5, <1>6, <1>7, <1>8, <1>9, QuietSteps, Zenon
     DEF Next, RunStep, AcceptStep

\* Whenever the accept loop waits for session_restored, the permit is stored, or
\* run() has a failed link to see or is in reconnect_loop: neither task can be
\* left waiting for the other after any sequence of failures, closes and
\* reconnects.
THEOREM SpecNoMutualWait == Spec => []NoMutualWait
<1>1. WaitInv => NoMutualWait
  BY Zenon DEF WaitInv
<1>2. QED
  BY <1>1, InitWait, NextWait, PTL DEF Spec

-----------------------------------------------------------------------------
(* The commands on their way, and the requests they are about *)

SameStart(c, d) == c.op = "StreamStart" /\ d.op = "StreamStart" /\ c.arg = d.arg

\* A stream_start that has not been handled has its caller waiting and is on its
\* way once, in one of the two queues; a StreamFinished is of an ended uplink.
CommandsOK ==
    /\ \A i \in 1 .. Len(agent_rx) :
          /\ agent_rx[i].op # "StreamFinished"
          /\ agent_rx[i].op = "StreamStart" => reply[agent_rx[i].arg] = "waiting"
    /\ \A i \in 1 .. Len(cmd_rx) :
          /\ cmd_rx[i].op = "StreamStart" => reply[cmd_rx[i].arg] = "waiting"
          /\ cmd_rx[i].op = "StreamFinished" => cmd_rx[i].arg \in ended
    /\ \A i, j \in 1 .. Len(agent_rx) : SameStart(agent_rx[i], agent_rx[j]) => i = j
    /\ \A i, j \in 1 .. Len(cmd_rx) : SameStart(cmd_rx[i], cmd_rx[j]) => i = j
    /\ \A i \in 1 .. Len(agent_rx), j \in 1 .. Len(cmd_rx) : ~SameStart(agent_rx[i], cmd_rx[j])

\* The inductive invariant of the admission of requests.
SessionInv ==
    /\ WaitInv /\ TypeOK
    /\ IsFiniteSet(active_uplinks) /\ active_uplinks \subseteq running \union ended
    /\ CommandsOK /\ Accounted /\ PendingSorted

\* The commands that the callers and the AckTasks send.
LEMMA Commands ==
  /\ \A u \in Streams : StreamStart(u) \in CmdType /\ StreamFinished(u) \in CmdType
  /\ \A p \in Pollers : GetConnStats(p) \in CmdType
  /\ LinkEnable \in CmdType
  /\ \A n \in HookLimits : SetMaxConcurrent(n) \in CmdType
BY Zenon DEF StreamStart, StreamFinished, GetConnStats, LinkEnable, SetMaxConcurrent, CmdType

\* The entries of a queue after a send.
LEMMA AppendIs ==
  ASSUME NEW S, NEW queue \in Seq(S), NEW c \in S
  PROVE  /\ Append(queue, c) \in Seq(S) /\ Len(Append(queue, c)) = Len(queue) + 1
         /\ \A i \in 1 .. Len(queue) : Append(queue, c)[i] = queue[i]
         /\ Append(queue, c)[Len(queue) + 1] = c
OBVIOUS

\* The command that run() takes.
LEMMA CmdTaken ==
  ASSUME TypeOK, NEW op, Cmd(op)
  PROVE  /\ cmd_rx \in Seq(CmdType) /\ cmd_rx # <<>> /\ Len(cmd_rx) > 0
         /\ Head(cmd_rx) = cmd_rx[1] /\ Head(cmd_rx) \in CmdType /\ Head(cmd_rx).op = op
         /\ Tail(cmd_rx) \in Seq(CmdType) /\ Len(Tail(cmd_rx)) = Len(cmd_rx) - 1
         /\ \A i \in 1 .. Len(cmd_rx) - 1 : Tail(cmd_rx)[i] = cmd_rx[i + 1]
         /\ op = "StreamStart" => Head(cmd_rx).arg \in Streams
         /\ op = "GetConnStats" => Head(cmd_rx).arg \in Pollers
         /\ op = "SetMaxConcurrent" => Head(cmd_rx).arg \in HookLimits
<1>1. /\ cmd_rx \in Seq(CmdType) /\ cmd_rx # <<>> /\ Len(cmd_rx) > 0
      /\ Head(cmd_rx) = cmd_rx[1] /\ Head(cmd_rx) \in CmdType /\ Head(cmd_rx).op = op
      /\ Tail(cmd_rx) \in Seq(CmdType) /\ Len(Tail(cmd_rx)) = Len(cmd_rx) - 1
      /\ \A i \in 1 .. Len(cmd_rx) - 1 : Tail(cmd_rx)[i] = cmd_rx[i + 1]
  BY DEF TypeOK, Cmd
<1>2. ASSUME NEW c \in CmdType
      PROVE  /\ c.op = "StreamStart" => c.arg \in Streams
             /\ c.op = "GetConnStats" => c.arg \in Pollers
             /\ c.op = "SetMaxConcurrent" => c.arg \in HookLimits
  BY Zenon DEF CmdType
<1> QED BY <1>1, <1>2, Zenon

\* Finite sets of handles have a size, which one more handle changes by one.
LEMMA ActiveSize ==
  ASSUME TypeOK, IsFiniteSet(active_uplinks), NEW u
  PROVE  /\ Cardinality(active_uplinks) \in Nat
         /\ IsFiniteSet(active_uplinks \union {u}) /\ IsFiniteSet(active_uplinks \ {u})
         /\ Cardinality(active_uplinks \union {u}) \in Nat
         /\ Cardinality(active_uplinks \ {u}) \in Nat
BY FS_AddElement, FS_RemoveElement, FS_CardinalityType, Zenon

\* The session manager starts with an empty queue and no uplink.
LEMMA InitSession == Init => SessionInv
<1> SUFFICES ASSUME Init PROVE SessionInv OBVIOUS
<1>1. WaitInv BY InitWait, Zenon
<1>2. TypeOK
  <2>1. <<>> \in Seq(Streams) /\ <<>> \in Seq(CmdType) OBVIOUS
  <2>2. fresh \in [Streams -> 0 .. STREAM_CAPACITY] BY SessionAssumption DEF Init
  <2>3. status \in [active : Nat, pending : Seq(Streams)] BY <2>1, Zenon DEF Init
  <2>4. gen \in Gens /\ accept_session \in Gens BY SessionAssumption DEF Init, Gens
  <2> QED BY <2>1, <2>2, <2>3, <2>4, SessionAssumption, Zenon DEF Init, InitRemote, TypeOK
<1>3. IsFiniteSet(active_uplinks) /\ active_uplinks \subseteq running \union ended
  BY FS_EmptySet, Zenon DEF Init, InitRemote
<1>4. CommandsOK BY DEF Init, CommandsOK
<1>5. Accounted /\ PendingSorted
  <2>1. pending = <<>> /\ Range(pending) = {} BY DEF Init, InitRemote, Range
  <2> QED BY <2>1 DEF Init, InitRemote, Accounted, PendingSorted, Waiting
<1> QED BY <1>1, <1>2, <1>3, <1>4, <1>5, Zenon DEF SessionInv

\* promote_pending starts the front of the queue, or nothing.
LEMMA Promotes ==
  ASSUME TypeOK, NEW active, NEW max, promote_pending(active, max)
  PROVE  /\ UNCHANGED <<fresh, ended>> /\ faults' \in Nat
         /\ \/ /\ pending # <<>> /\ has_active_slot(active, max) /\ link
               /\ pending' = Tail(pending)
               /\ active_uplinks' = active \union {Head(pending)}
               /\ running' = running \union {Head(pending)}
            \/ /\ active_uplinks' = active /\ UNCHANGED <<pending, running>>
               /\ pending = <<>> \/ ~has_active_slot(active, max) \/ ~link \/ faults < MaxFaults
BY DEF TypeOK, promote_pending, Opens, OpenFails, Dequeue, StartUplinks, taskVars

\* What restore_active keeps are live uplinks that had a handle, what
\* drain_pending starts were in the queue.
LEMMA ReconnectSets ==
  ASSUME TypeOK, NEW served, NEW ok \in SUBSET (1 .. Len(pending))
  PROVE  /\ Kept(served) \subseteq active_uplinks /\ Kept(served) \subseteq running
         /\ Drained(served, ok) \subseteq Range(pending)
         /\ Drained(served, ok) \subseteq Streams
<1>1. pending \in Seq(Streams) BY Zenon DEF TypeOK
<1>2. Range(pending) = {pending[i] : i \in 1 .. Len(pending)} /\ Range(pending) \subseteq Streams
  BY <1>1, RangeIs, Zenon
<1>3. Drained(served, ok) \subseteq Range(pending) BY <1>2, Zenon DEF Drained
<1> QED BY <1>2, <1>3, Zenon DEF Kept

\* The handles are finitely many after every step.
LEMMA ActiveFinite ==
  ASSUME SessionInv, [Next]_vars PROVE IsFiniteSet(active_uplinks')
<1> USE DEF SessionInv
<1>0. \A u : IsFiniteSet(active_uplinks \union {u}) /\ IsFiniteSet(active_uplinks \ {u})
  BY ActiveSize, Zenon
<1>1. CASE UNCHANGED active_uplinks BY <1>1, Zenon
<1>2. CASE RunStartOpened BY <1>0, <1>2, Zenon DEF RunStartOpened
<1>3. CASE RunStreamFinished
  <2> DEFINE a == active_uplinks \ {Head(cmd_rx).arg}
  <2>1. active_uplinks' \in {a, a \union {Head(pending)}}
    BY <1>3, Promotes, Zenon DEF RunStreamFinished
  <2>2. IsFiniteSet(a) BY <1>0, Zenon
  <2>3. IsFiniteSet(a \union {Head(pending)}) BY <2>2, FS_AddElement, Zenon
  <2> QED BY <2>1, <2>2, <2>3, Zenon
<1>4. CASE RunSetMaxConcurrent
  <2>1. active_uplinks' \in {active_uplinks, active_uplinks \union {Head(pending)}}
    BY <1>4, Promotes, Zenon DEF RunSetMaxConcurrent
  <2> QED BY <1>0, <2>1, Zenon
<1>5. CASE RunReconnect
  <2>1. PICK served \in SUBSET active_uplinks, ok \in SUBSET (1 .. Len(pending)) :
           active_uplinks' = Kept(served) \union Drained(served, ok)
    BY <1>5, Zenon DEF RunReconnect
  <2>2. IsFiniteSet(Kept(served)) BY ReconnectSets, FS_Subset, Zenon
  <2>3. IsFiniteSet(Range(pending))
    <3>1. IsFiniteSet(1 .. Len(pending)) /\ DOMAIN pending = 1 .. Len(pending)
      BY FS_Interval DEF TypeOK
    <3>2. pending \in Surjection(1 .. Len(pending), Range(pending))
      BY <3>1 DEF TypeOK, Surjection, Range
    <3> QED BY <3>1, <3>2, FS_Surjection, Zenon
  <2>4. IsFiniteSet(Drained(served, ok)) BY <2>3, ReconnectSets, FS_Subset, Zenon
  <2> QED BY <2>1, <2>2, <2>4, FS_Union, Zenon
<1>6. CASE UNCHANGED vars BY <1>6, Zenon DEF vars, queueVars
<1> QED
  BY <1>1, <1>2, <1>3, <1>4, <1>5, <1>6, Zenon
     DEF Next, RunStep, AcceptStep, LinkLost, ClientHook, AgentForward, ClientGetConnStats,
         ClientStreamStart, AckNewStream, AckEnd, RunStartQueued, RunGetConnStats, RunLinkEnable,
         RunLinkFailed, on_link_failed, AcceptTop, AcceptStream, AcceptHeader, AcceptError,
         AcceptWake, queueVars

\* The callback reports a number of handles and a queue of requests.
LEMMA StatusTyped ==
  ASSUME NEW active, IsFiniteSet(active), NEW queue \in Seq(Streams),
         send_queue_status(active, queue)
  PROVE  status' \in [active : Nat, pending : Seq(Streams)]
BY FS_CardinalityType, Zenon DEF send_queue_status

\* Every step keeps the state well typed.
LEMMA NextTyped ==
  ASSUME SessionInv, [Next]_vars PROVE TypeOK'
<1> USE SessionAssumption DEF linkVars, runVars, acceptVars, queueVars, taskVars, boundVars
<1>1. TypeOK /\ IsFiniteSet(active_uplinks) BY Zenon DEF SessionInv
<1>2. IsFiniteSet(active_uplinks') BY ActiveFinite, Zenon
<1>3. CASE LinkLost \/ UNCHANGED vars BY <1>1, <1>3, ZenonT(30) DEF TypeOK, LinkLost, vars
<1>4. CASE ClientHook
  <2>1. agent_rx' \in Seq(CmdType)
    <3>1. PICK c \in CmdType : agent_rx' = Append(agent_rx, c)
      BY <1>4, Commands, Zenon DEF ClientHook, send_cmd
    <3> QED BY <1>1, <3>1 DEF TypeOK
  <2> QED BY <1>1, <1>4, <2>1 DEF TypeOK, ClientHook
<1>5. CASE AgentForward
  <2>1. agent_rx' \in Seq(CmdType) /\ cmd_rx' \in Seq(CmdType)
    BY <1>1, <1>5 DEF AgentForward, TypeOK
  <2> QED BY <1>1, <1>5, <2>1, Zenon DEF TypeOK, AgentForward
<1>6. ASSUME NEW p \in Pollers, ClientGetConnStats(p) PROVE TypeOK'
  <2>1. agent_rx' \in Seq(CmdType)
    BY <1>1, <1>6, Commands, AppendIs, Zenon DEF ClientGetConnStats, send_cmd, TypeOK
  <2> QED BY <1>1, <1>6, <2>1, ZenonT(30) DEF TypeOK, ClientGetConnStats
<1>7. ASSUME NEW u \in Streams, ClientStreamStart(u) PROVE TypeOK'
  <2>1. agent_rx' \in Seq(CmdType)
    BY <1>1, <1>7, Commands, AppendIs, Zenon DEF ClientStreamStart, send_cmd, TypeOK
  <2> QED BY <1>1, <1>7, <2>1 DEF TypeOK, ClientStreamStart
<1>8. ASSUME NEW u \in Streams, AckNewStream(u) PROVE TypeOK'
  BY <1>1, <1>8 DEF TypeOK, AckNewStream
<1>9. ASSUME NEW u \in Streams, AckEnd(u) PROVE TypeOK'
  <2>1. cmd_rx' \in Seq(CmdType)
    BY <1>1, <1>9, Commands, AppendIs, Zenon DEF AckEnd, TypeOK
  <2> QED BY <1>1, <1>9, <2>1 DEF TypeOK, AckEnd
<1>10. CASE RunStartOpened
  <2>1. Head(cmd_rx).arg \in Streams /\ cmd_rx' \in Seq(CmdType)
    BY <1>1, <1>10, CmdTaken, Zenon DEF RunStartOpened
  <2>2. status' \in [active : Nat, pending : Seq(Streams)]
    BY <1>1, <1>10, StatusTyped, Zenon DEF RunStartOpened, TypeOK
  <2> QED BY <1>1, <1>10, <2>1, <2>2, Zenon DEF TypeOK, RunStartOpened, Opens, StartUplinks
<1>11. CASE RunStartQueued
  <2>1. Head(cmd_rx).arg \in Streams /\ cmd_rx' \in Seq(CmdType)
    BY <1>1, <1>11, CmdTaken, Zenon DEF RunStartQueued
  <2>2. pending' \in Seq(Streams)
    <3>1. \A u \in Streams : enqueue(u) \in Seq(Streams)
      BY <1>1, InsertKeeps, Zenon DEF enqueue, TypeOK
    <3> QED BY <1>1, <1>11, <2>1, <3>1 DEF RunStartQueued, TypeOK
  <2>3. status' \in [active : Nat, pending : Seq(Streams)]
    BY <1>1, <1>11, <2>2, StatusTyped, Zenon DEF RunStartQueued
  <2>4. faults' \in Nat BY <1>1, <1>11 DEF RunStartQueued, OpenFails, TypeOK
  <2>5. reply' \in [Streams \union Pollers ->
                    {"none", "waiting", "RUNNING", "PENDING", "QUEUE_FULL", "STATS"}]
    BY <1>1, <1>11, <2>1, Zenon DEF RunStartQueued, Reject, TypeOK
  <2> QED BY <1>1, <1>11, <2>1, <2>2, <2>3, <2>4, <2>5, ZenonT(30) DEF TypeOK, RunStartQueued
<1>12. CASE RunStreamFinished \/ RunSetMaxConcurrent
  <2>0. max_concurrent' \in Nat
    <3>1. RunSetMaxConcurrent => Head(cmd_rx).arg \in HookLimits
      BY <1>1, CmdTaken, Zenon DEF RunSetMaxConcurrent
    <3> QED BY <1>1, <1>12, <3>1, Zenon DEF RunStreamFinished, RunSetMaxConcurrent, TypeOK
  <2>1. PICK active \in {active_uplinks, active_uplinks \ {Head(cmd_rx).arg}}, max \in Nat :
           promote_pending(active, max)
    <3>1. CASE RunStreamFinished BY <1>1, <3>1, Zenon DEF RunStreamFinished, TypeOK
    <3>2. CASE RunSetMaxConcurrent BY <2>0, <3>2, Zenon DEF RunSetMaxConcurrent
    <3> QED BY <1>12, <3>1, <3>2, Zenon
  <2>5. pending \in Seq(Streams) /\ Range(pending) \subseteq Streams
    BY <1>1, RangeIs, Zenon DEF TypeOK
  <2>2. /\ pending' \in Seq(Streams) /\ running' \in SUBSET Streams
        /\ active_uplinks' \in SUBSET Streams
        /\ faults' \in Nat /\ UNCHANGED <<fresh, ended>>
    <3>1. pending # <<>> => Head(pending) \in Streams /\ Tail(pending) \in Seq(Streams)
      BY <2>5, TailKeeps, Zenon
    <3>2. active \subseteq Streams /\ running \subseteq Streams BY <1>1, <2>1, Zenon DEF TypeOK
    <3>3. /\ UNCHANGED <<fresh, ended>> /\ faults' \in Nat
          /\ \/ /\ pending # <<>> /\ pending' = Tail(pending)
                /\ active_uplinks' = active \union {Head(pending)}
                /\ running' = running \union {Head(pending)}
             \/ active_uplinks' = active /\ UNCHANGED <<pending, running>>
      BY <1>1, <2>1, Promotes, Zenon
    <3> QED BY <2>5, <3>1, <3>2, <3>3, Zenon
  <2>3. status' \in [active : Nat, pending : Seq(Streams)]
    BY <1>2, <1>12, <2>2, StatusTyped, Zenon DEF RunStreamFinished, RunSetMaxConcurrent
  <2>4. cmd_rx' \in Seq(CmdType)
    BY <1>1, <1>12, CmdTaken, Zenon DEF RunStreamFinished, RunSetMaxConcurrent
  <2> QED
    BY <1>1, <1>12, <2>0, <2>2, <2>3, <2>4, ZenonT(30)
       DEF TypeOK, RunStreamFinished, RunSetMaxConcurrent
<1>13. CASE RunGetConnStats \/ RunLinkEnable
  <2>1. cmd_rx' \in Seq(CmdType)
    BY <1>1, <1>13, CmdTaken, Zenon DEF RunGetConnStats, RunLinkEnable
  <2>2. RunGetConnStats => Head(cmd_rx).arg \in Pollers
    BY <1>1, CmdTaken, Zenon DEF RunGetConnStats
  <2> QED
    BY <1>1, <1>13, <2>1, <2>2, ZenonT(30) DEF TypeOK, RunGetConnStats, SendStats, RunLinkEnable
<1>14. CASE RunLinkFailed BY <1>1, <1>14, Zenon DEF TypeOK, RunLinkFailed, on_link_failed
<1>15. CASE RunReconnect
  <2>1. PICK served \in SUBSET active_uplinks, ok \in SUBSET (1 .. Len(pending)) :
           /\ ReconnectGoes(served, ok)
           /\ active_uplinks' = Kept(served) \union Drained(served, ok)
           /\ pending' \in Retained(pending,
                  {i \in 1 .. Len(pending) : pending[i] \notin Drained(served, ok)})
           /\ running' = running \union Drained(served, ok)
           /\ fresh' = [u \in Streams |->
                IF u \in served \intersect Kept(served) THEN fresh[u] + 1 ELSE fresh[u]]
    BY <1>15, Zenon DEF RunReconnect
  <2>2. active_uplinks' \in SUBSET Streams /\ running' \in SUBSET Streams
    <3>1. Kept(served) \subseteq active_uplinks /\ Drained(served, ok) \subseteq Streams
      BY <1>1, ReconnectSets, Zenon
    <3>2. active_uplinks \subseteq Streams /\ running \subseteq Streams BY <1>1, Zenon DEF TypeOK
    <3> QED BY <2>1, <3>1, <3>2, Zenon
  <2>3. pending' \in Seq(Streams) 
    <3> DEFINE I == {i \in 1 .. Len(pending) : pending[i] \notin Drained(served, ok)}
    <3>1. pending \in Seq(Streams) BY <1>1, Zenon DEF TypeOK
    <3>2. I \in SUBSET (1 .. Len(pending)) /\ pending' \in Retained(pending, I) BY <2>1, Zenon
    <3> HIDE DEF I
    <3> QED BY <3>1, <3>2, RetainedIs, Zenon
  <2>4. fresh' \in [Streams -> 0 .. STREAM_CAPACITY] 
    <3>1. ASSUME NEW u \in served \intersect Kept(served) PROVE fresh[u] < STREAM_CAPACITY
      BY <3>1, Zenon DEF Kept
    <3>2. fresh \in [Streams -> 0 .. STREAM_CAPACITY] BY <1>1, Zenon DEF TypeOK
    <3> QED BY <2>1, <3>1, <3>2
  <2>5. link' \in BOOLEAN /\ faults' \in Nat
    <3>1. link' = TRUE \/ link' = FALSE BY <2>1, Zenon DEF ReconnectGoes
    <3>2. faults' = faults \/ faults' = faults + 1 BY <2>1, Zenon DEF ReconnectGoes
    <3>3. link' \in BOOLEAN BY <3>1, Zenon
    <3>4. faults' \in Nat BY <1>1, <3>2 DEF TypeOK
    <3> QED BY <3>3, <3>4, Zenon
  <2>6. /\ gen' \in Gens /\ session' \in {0, gen'} /\ link_state' = "Normal"
        /\ state_changed' = FALSE /\ run' = "select" /\ session_restored' = TRUE
        /\ UNCHANGED <<accept, accept_session, agent_rx, cmd_rx, reply, max_concurrent, ended,
                       status, hooks>>
    BY <1>1, <1>15 DEF TypeOK, RunReconnect, Gens
  <2> QED BY <1>1, <2>2, <2>3, <2>4, <2>5, <2>6, ZenonT(30) DEF TypeOK
<1>16. CASE AcceptStep
  <2>1. session # 0 => session \in Gens BY <1>1, Zenon DEF TypeOK
  <2> QED BY <1>1, <1>16, <2>1, ZenonT(30)
        DEF TypeOK, AcceptStep, AcceptTop, AcceptStream, AcceptHeader, AcceptError, AcceptWake,
            CloseSession
<1> QED
  BY <1>3, <1>4, <1>5, <1>6, <1>7, <1>8, <1>9, <1>10, <1>11, <1>12, <1>13, <1>14, <1>15, <1>16
     DEF Next, RunStep

\* The argument of a queued stream_start is a request.
LEMMA StartArgs ==
  ASSUME NEW queue \in Seq(CmdType)
  PROVE  \A i \in 1 .. Len(queue) : queue[i].op = "StreamStart" => queue[i].arg \in Streams
<1>1. \A c \in CmdType : c.op = "StreamStart" => c.arg \in Streams BY Zenon DEF CmdType
<1> QED BY <1>1

\* run() takes a command and answers at most the caller of that command.
LEMMA TakeCommand ==
  ASSUME SessionInv, NEW op, Cmd(op), cmd_rx' = Tail(cmd_rx), UNCHANGED <<agent_rx, ended>>,
         \A u \in Streams :
            reply'[u] = reply[u] \/ (op = "StreamStart" /\ u = Head(cmd_rx).arg)
  PROVE  CommandsOK'
<1>1. TypeOK /\ CommandsOK BY Zenon DEF SessionInv
<1>2. /\ cmd_rx \in Seq(CmdType) /\ Len(cmd_rx) > 0 /\ Len(cmd_rx') = Len(cmd_rx) - 1
      /\ Head(cmd_rx) = cmd_rx[1] /\ Head(cmd_rx).op = op
      /\ \A i \in 1 .. Len(cmd_rx) - 1 : cmd_rx'[i] = cmd_rx[i + 1]
  BY <1>1, CmdTaken, Zenon
<1>3. /\ \A i \in 1 .. Len(agent_rx) : agent_rx[i].op = "StreamStart" => agent_rx[i].arg \in Streams
      /\ \A i \in 1 .. Len(cmd_rx) : cmd_rx[i].op = "StreamStart" => cmd_rx[i].arg \in Streams
  BY <1>1, StartArgs, Zenon DEF TypeOK
<1>4. ASSUME NEW i \in 1 .. Len(agent_rx), agent_rx[i].op = "StreamStart"
      PROVE  reply'[agent_rx[i].arg] = "waiting"
  <2>1. ~ (op = "StreamStart" /\ agent_rx[i].arg = Head(cmd_rx).arg)
    BY <1>1, <1>2, <1>4 DEF CommandsOK, SameStart
  <2> QED BY <1>1, <1>3, <1>4, <2>1, Zenon DEF CommandsOK
<1>5. ASSUME NEW i \in 1 .. Len(cmd_rx'), cmd_rx'[i].op = "StreamStart"
      PROVE  reply'[cmd_rx'[i].arg] = "waiting"
  <2>1. i + 1 \in 1 .. Len(cmd_rx) /\ cmd_rx'[i] = cmd_rx[i + 1] /\ 1 \in 1 .. Len(cmd_rx) /\ i + 1 # 1
    BY <1>2
  <2>2. ~ (op = "StreamStart" /\ cmd_rx[i + 1].arg = Head(cmd_rx).arg)
    <3>1. ~ SameStart(cmd_rx[i + 1], cmd_rx[1]) BY <1>1, <2>1, Zenon DEF CommandsOK
    <3> QED BY <1>2, <1>5, <2>1, <3>1, Zenon DEF SameStart
  <2> QED BY <1>1, <1>3, <1>5, <2>1, <2>2, Zenon DEF CommandsOK
<1>6. \A i \in 1 .. Len(cmd_rx') : cmd_rx'[i].op = "StreamFinished" => cmd_rx'[i].arg \in ended'
  BY <1>1, <1>2 DEF CommandsOK
<1>7. \A i, j \in 1 .. Len(cmd_rx') : SameStart(cmd_rx'[i], cmd_rx'[j]) => i = j
  BY <1>1, <1>2 DEF CommandsOK
<1>8. \A i \in 1 .. Len(agent_rx'), j \in 1 .. Len(cmd_rx') : ~SameStart(agent_rx'[i], cmd_rx'[j])
  BY <1>1, <1>2 DEF CommandsOK
<1> QED BY <1>1, <1>4, <1>5, <1>6, <1>7, <1>8 DEF CommandsOK, SameStart

\* A client sends a command to the agent.
LEMMA SendCommand ==
  ASSUME SessionInv, NEW c \in CmdType, agent_rx' = Append(agent_rx, c),
         UNCHANGED <<cmd_rx, ended>>, c.op # "StreamFinished",
         c.op = "StreamStart" => reply[c.arg] = "none" /\ reply'[c.arg] = "waiting",
         \A u \in Streams : reply'[u] = reply[u] \/ (c.op = "StreamStart" /\ u = c.arg)
  PROVE  CommandsOK'
<1>1. TypeOK /\ CommandsOK BY Zenon DEF SessionInv
<1>2. /\ agent_rx \in Seq(CmdType) /\ Len(agent_rx') = Len(agent_rx) + 1
      /\ \A i \in 1 .. Len(agent_rx) : agent_rx'[i] = agent_rx[i]
      /\ agent_rx'[Len(agent_rx) + 1] = c
  BY <1>1, AppendIs DEF TypeOK
<1>3. /\ \A i \in 1 .. Len(agent_rx) : agent_rx[i].op = "StreamStart" => agent_rx[i].arg \in Streams
      /\ \A i \in 1 .. Len(cmd_rx) : cmd_rx[i].op = "StreamStart" => cmd_rx[i].arg \in Streams
  BY <1>1, StartArgs, Zenon DEF TypeOK
<1>4. ASSUME NEW i \in 1 .. Len(agent_rx) PROVE ~SameStart(agent_rx[i], c)
  BY <1>1, <1>4, Zenon DEF CommandsOK, SameStart
<1>5. ASSUME NEW i \in 1 .. Len(cmd_rx) PROVE ~SameStart(cmd_rx[i], c)
  BY <1>1, <1>5, Zenon DEF CommandsOK, SameStart
<1>6. \A i \in 1 .. Len(agent_rx') :
          /\ agent_rx'[i].op # "StreamFinished"
          /\ agent_rx'[i].op = "StreamStart" => reply'[agent_rx'[i].arg] = "waiting"
  BY <1>1, <1>2, <1>3, <1>4 DEF CommandsOK, SameStart
<1>7. \A i \in 1 .. Len(cmd_rx) :
          cmd_rx[i].op = "StreamStart" => reply'[cmd_rx[i].arg] = "waiting"
  BY <1>1, <1>3, <1>5, Zenon DEF CommandsOK, SameStart
<1>8. \A i, j \in 1 .. Len(agent_rx') : SameStart(agent_rx'[i], agent_rx'[j]) => i = j
  BY <1>1, <1>2, <1>4 DEF CommandsOK, SameStart
<1>9. \A i \in 1 .. Len(agent_rx'), j \in 1 .. Len(cmd_rx') : ~SameStart(agent_rx'[i], cmd_rx'[j])
  BY <1>1, <1>2, <1>5 DEF CommandsOK, SameStart
<1> QED BY <1>1, <1>6, <1>7, <1>8, <1>9, Zenon DEF CommandsOK, SameStart

\* Every step keeps the queued commands as they should be.
LEMMA NextCommands ==
  ASSUME SessionInv, [Next]_vars PROVE CommandsOK'
<1> USE DEF linkVars, runVars, acceptVars, queueVars, taskVars, boundVars
<1>1. TypeOK /\ CommandsOK BY Zenon DEF SessionInv
<1>2. CASE UNCHANGED <<agent_rx, cmd_rx, reply, ended>> BY <1>1, <1>2, Zenon DEF CommandsOK
<1>3. CASE ClientHook
  <2>1. PICK c \in CmdType : agent_rx' = Append(agent_rx, c)
                            /\ c.op \in {"LinkEnable", "SetMaxConcurrent"}
    BY <1>3, Commands, Zenon DEF ClientHook, send_cmd, LinkEnable, SetMaxConcurrent
  <2>2. UNCHANGED <<cmd_rx, ended, reply>> BY <1>3, Zenon DEF ClientHook
  <2> QED BY <2>1, <2>2, SendCommand, Zenon
<1>4. ASSUME NEW p \in Pollers, ClientGetConnStats(p) PROVE CommandsOK'
  <2>1. agent_rx' = Append(agent_rx, GetConnStats(p)) /\ UNCHANGED <<cmd_rx, ended>>
    BY <1>4, Zenon DEF ClientGetConnStats, send_cmd
  <2>2. \A u \in Streams : reply'[u] = reply[u]
    BY <1>1, <1>4, SessionAssumption, Zenon DEF ClientGetConnStats, TypeOK
  <2>3. GetConnStats(p) \in CmdType /\ GetConnStats(p).op = "GetConnStats"
    BY Commands, Zenon DEF GetConnStats
  <2> QED BY <2>1, <2>2, <2>3, SendCommand, Zenon
<1>5. ASSUME NEW u \in Streams, ClientStreamStart(u) PROVE CommandsOK'
  <2>1. agent_rx' = Append(agent_rx, StreamStart(u)) /\ UNCHANGED <<cmd_rx, ended>>
    BY <1>5, Zenon DEF ClientStreamStart, send_cmd
  <2>2. /\ reply[u] = "none" /\ reply'[u] = "waiting"
        /\ \A v \in Streams : reply'[v] = reply[v] \/ v = u
    BY <1>1, <1>5, Zenon DEF ClientStreamStart, TypeOK
  <2>3. StreamStart(u) \in CmdType /\ StreamStart(u).op = "StreamStart" /\ StreamStart(u).arg = u
    BY Commands, Zenon DEF StreamStart
  <2> QED BY <2>1, <2>2, <2>3, SendCommand, Zenon
<1>6. CASE AgentForward
  <2>1. /\ agent_rx \in Seq(CmdType) /\ cmd_rx \in Seq(CmdType) /\ agent_rx # <<>>
        /\ agent_rx' = Tail(agent_rx) /\ cmd_rx' = Append(cmd_rx, agent_rx[1])
        /\ UNCHANGED <<reply, ended>>
    BY <1>1, <1>6 DEF AgentForward, TypeOK
  <2>2. /\ Len(agent_rx) > 0 /\ Len(agent_rx') = Len(agent_rx) - 1
        /\ \A i \in 1 .. Len(agent_rx') : i + 1 \in 1 .. Len(agent_rx) /\ agent_rx'[i] = agent_rx[i + 1]
        /\ Len(cmd_rx') = Len(cmd_rx) + 1 /\ cmd_rx'[Len(cmd_rx) + 1] = agent_rx[1]
        /\ \A i \in 1 .. Len(cmd_rx) : cmd_rx'[i] = cmd_rx[i]
    BY <2>1
  <2>3. \A i \in 1 .. Len(agent_rx') :
          /\ agent_rx'[i].op # "StreamFinished"
          /\ agent_rx'[i].op = "StreamStart" => reply'[agent_rx'[i].arg] = "waiting"
    BY <1>1, <2>1, <2>2 DEF CommandsOK
  <2>4. \A i \in 1 .. Len(cmd_rx') :
          /\ cmd_rx'[i].op = "StreamStart" => reply'[cmd_rx'[i].arg] = "waiting"
          /\ cmd_rx'[i].op = "StreamFinished" => cmd_rx'[i].arg \in ended'
    BY <1>1, <2>1, <2>2 DEF CommandsOK
  <2>5. \A i, j \in 1 .. Len(agent_rx') : SameStart(agent_rx'[i], agent_rx'[j]) => i = j
    BY <1>1, <2>1, <2>2 DEF CommandsOK
  <2>6. \A i, j \in 1 .. Len(cmd_rx') : SameStart(cmd_rx'[i], cmd_rx'[j]) => i = j
    BY <1>1, <2>1, <2>2 DEF CommandsOK, SameStart
  <2>7. \A i \in 1 .. Len(agent_rx'), j \in 1 .. Len(cmd_rx') : ~SameStart(agent_rx'[i], cmd_rx'[j])
    BY <1>1, <2>1, <2>2 DEF CommandsOK
  <2> QED BY <2>3, <2>4, <2>5, <2>6, <2>7, Zenon DEF CommandsOK, SameStart
<1>7. ASSUME NEW u \in Streams, AckEnd(u) PROVE CommandsOK'
  <2>1. /\ cmd_rx \in Seq(CmdType) /\ cmd_rx' = Append(cmd_rx, StreamFinished(u))
        /\ ended' = ended \union {u} /\ UNCHANGED <<reply, agent_rx>>
        /\ StreamFinished(u).op = "StreamFinished" /\ StreamFinished(u).arg = u
        /\ StreamFinished(u) \in CmdType
    BY <1>1, <1>7, Commands, Zenon DEF AckEnd, TypeOK, StreamFinished
  <2>2. /\ Len(cmd_rx') = Len(cmd_rx) + 1 /\ cmd_rx'[Len(cmd_rx) + 1] = StreamFinished(u)
        /\ \A i \in 1 .. Len(cmd_rx) : cmd_rx'[i] = cmd_rx[i]
    BY <2>1, AppendIs
  <2> QED BY <1>1, <2>1, <2>2 DEF CommandsOK, SameStart
<1>8. CASE RunStartOpened \/ RunStartQueued
  <2>1. /\ Cmd("StreamStart") /\ cmd_rx' = Tail(cmd_rx) /\ UNCHANGED agent_rx /\ UNCHANGED ended
        /\ \E r : reply' = [reply EXCEPT ![Head(cmd_rx).arg] = r]
    BY <1>8, Zenon DEF RunStartOpened, RunStartQueued, StartUplinks, Reject
  <2>2. \A u \in Streams : reply'[u] = reply[u] \/ u = Head(cmd_rx).arg
    BY <1>1, <2>1, Zenon DEF TypeOK
  <2> QED BY <2>1, <2>2, TakeCommand, Zenon
<1>9. CASE RunStreamFinished \/ RunSetMaxConcurrent
  <2>1. UNCHANGED <<ended, agent_rx, reply>> /\ cmd_rx' = Tail(cmd_rx)
    BY <1>1, <1>9, Promotes, Zenon DEF RunStreamFinished, RunSetMaxConcurrent
  <2> QED BY <1>9, <2>1, TakeCommand, Zenon DEF RunStreamFinished, RunSetMaxConcurrent
<1>10. CASE RunGetConnStats
  <2>1. \A u \in Streams : reply'[u] = reply[u]
    BY <1>1, <1>10, CmdTaken, SessionAssumption DEF RunGetConnStats, SendStats, TypeOK
  <2> QED BY <1>10, <2>1, TakeCommand, Zenon DEF RunGetConnStats
<1>11. CASE RunLinkEnable BY <1>11, TakeCommand, Zenon DEF RunLinkEnable
<1>12. CASE UNCHANGED vars BY <1>2, <1>12, Zenon DEF vars
<1> QED
  BY <1>2, <1>3, <1>4, <1>5, <1>6, <1>7, <1>8, <1>9, <1>10, <1>11, <1>12, ZenonT(30)
     DEF Next, RunStep, AcceptStep, LinkLost, AckNewStream, RunLinkFailed, RunReconnect, AcceptTop,
         AcceptStream, AcceptHeader, AcceptError, AcceptWake

\* The pending queue, restated with the predicates of DataProofs.
LEMMA PendingIs ==
  ASSUME SessionInv
  PROVE  /\ pending \in Seq(Streams) /\ Distinct(pending) /\ Sorted(pending, Priority)
         /\ Range(pending) = {pending[i] : i \in 1 .. Len(pending)} /\ Range(pending) \subseteq Streams
<1>1. pending \in Seq(Streams) BY Zenon DEF SessionInv, TypeOK
<1>2. Distinct(pending) BY Zenon DEF SessionInv, Accounted, Distinct
<1>3. Sorted(pending, Priority) BY Zenon DEF SessionInv, PendingSorted, Sorted
<1> QED BY <1>1, <1>2, <1>3, RangeIs, Zenon

\* The books are kept when the requests D leave the queue and are started.
LEMMA StartWaiting ==
  ASSUME SessionInv, NEW D, D \subseteq Range(pending), Distinct(pending'),
         Range(pending') = Range(pending) \ D, running' = running \union D,
         active_uplinks' \subseteq active_uplinks \union D, UNCHANGED <<reply, ended>>
  PROVE  Accounted' /\ active_uplinks' \subseteq running' \union ended'
<1>1. Accounted /\ active_uplinks \subseteq running \union ended BY Zenon DEF SessionInv
<1>2. \A i, j \in 1 .. Len(pending') : pending'[i] = pending'[j] => i = j BY Zenon DEF Distinct
<1>3. Range(pending') \intersect (active_uplinks' \union running' \union ended') = {}
  BY <1>1, Zenon DEF Accounted, Waiting
<1>4. running' \intersect ended' = {} BY <1>1, Zenon DEF Accounted, Waiting
<1>5. Range(pending') \union running' \union ended' = Range(pending) \union running \union ended
  OBVIOUS
<1> QED BY <1>1, <1>2, <1>3, <1>4, <1>5, Zenon DEF Accounted, Waiting

\* The caller whose stream_start is handled has no request anywhere yet.
LEMMA StartIsNew ==
  ASSUME SessionInv, Cmd("StreamStart")
  PROVE  LET u == Head(cmd_rx).arg IN
         /\ u \in Streams /\ reply[u] = "waiting"
         /\ u \notin Range(pending) \union running \union ended
<1>1. TypeOK /\ CommandsOK /\ Accounted BY Zenon DEF SessionInv
<1>2. /\ Len(cmd_rx) > 0 /\ Len(cmd_rx) \in Nat /\ Head(cmd_rx) = cmd_rx[1]
      /\ Head(cmd_rx).op = "StreamStart" /\ Head(cmd_rx).arg \in Streams
  BY <1>1, CmdTaken
<1>3. reply[Head(cmd_rx).arg] = "waiting" BY <1>1, <1>2 DEF CommandsOK
<1> QED BY <1>1, <1>2, <1>3, Zenon DEF Accounted, Waiting

\* promote_pending keeps the books, if what it is given are handles in use.
LEMMA PromoteAccounted ==
  ASSUME SessionInv, NEW active, active \subseteq active_uplinks, NEW max,
         promote_pending(active, max), UNCHANGED reply
  PROVE  Accounted' /\ PendingSorted' /\ active_uplinks' \subseteq running' \union ended'
<1>1. TypeOK BY Zenon DEF SessionInv
<1>2. /\ pending \in Seq(Streams) /\ Distinct(pending) /\ Sorted(pending, Priority)
  BY PendingIs, Zenon
<1>3. CASE UNCHANGED <<pending, running>> /\ active_uplinks' = active /\ UNCHANGED ended
  <2>2. Accounted' /\ active_uplinks' \subseteq running' \union ended'
    BY <1>3, Zenon DEF SessionInv, Accounted, Waiting
  <2>3. PendingSorted' BY <1>3, Zenon DEF SessionInv, PendingSorted
  <2> QED BY <2>2, <2>3, Zenon
<1>4. CASE /\ pending # <<>> /\ pending' = Tail(pending) /\ UNCHANGED ended
           /\ active_uplinks' = active \union {Head(pending)}
           /\ running' = running \union {Head(pending)}
  <2>1. /\ {Head(pending)} \subseteq Range(pending) /\ Distinct(pending')
        /\ Range(pending') = Range(pending) \ {Head(pending)}
        /\ Sorted(pending', Priority)
    BY <1>2, <1>4, TailKeeps
  <2>2. active_uplinks' \subseteq active_uplinks \union {Head(pending)} BY <1>4, Zenon
  <2> QED BY <1>4, <2>1, <2>2, StartWaiting, Zenon DEF PendingSorted, Sorted
<1> QED BY <1>1, <1>3, <1>4, Promotes, Zenon

\* The books are kept by every step, and the queue stays in priority order.
LEMMA NextAccounted ==
  ASSUME SessionInv, [Next]_vars
  PROVE  Accounted' /\ PendingSorted' /\ active_uplinks' \subseteq running' \union ended'
<1> USE DEF linkVars, runVars, acceptVars, queueVars, taskVars, boundVars
<1>1. TypeOK /\ Accounted /\ PendingSorted /\ active_uplinks \subseteq running \union ended
  BY Zenon DEF SessionInv
<1>2. CASE /\ UNCHANGED <<pending, active_uplinks, running, ended>>
           /\ \A u \in Streams : reply'[u] = reply[u] \/ {reply[u], reply'[u]} \subseteq {"none",
              "waiting"}
  BY <1>1, <1>2, Zenon DEF Accounted, Waiting, PendingSorted
<1>3. ASSUME NEW p \in Pollers, ClientGetConnStats(p)
      PROVE  Accounted' /\ PendingSorted' /\ active_uplinks' \subseteq running' \union ended'
  BY <1>1, <1>2, <1>3, SessionAssumption, Zenon DEF ClientGetConnStats, TypeOK
<1>4. ASSUME NEW u \in Streams, ClientStreamStart(u)
      PROVE  Accounted' /\ PendingSorted' /\ active_uplinks' \subseteq running' \union ended'
  BY <1>1, <1>2, <1>4, Zenon DEF ClientStreamStart, TypeOK
<1>5. CASE RunGetConnStats
  BY <1>1, <1>2, <1>5, CmdTaken, SessionAssumption DEF RunGetConnStats, SendStats, TypeOK
<1>6. ASSUME NEW u \in Streams, AckEnd(u)
      PROVE  Accounted' /\ PendingSorted' /\ active_uplinks' \subseteq running' \union ended'
  BY <1>1, <1>6 DEF AckEnd, Accounted, Waiting, PendingSorted
<1>7. CASE RunStartOpened
  <2> DEFINE u == Head(cmd_rx).arg
  <2>1. /\ u \in Streams /\ u \notin Range(pending) \union running \union ended
    BY <1>7, StartIsNew, Zenon DEF RunStartOpened
  <2>2. /\ running' = running \union {u} /\ active_uplinks' = active_uplinks \union {u}
        /\ UNCHANGED <<pending, ended>> /\ reply' = [reply EXCEPT ![u] = "RUNNING"]
    BY <1>7, Zenon DEF RunStartOpened, StartUplinks
  <2> HIDE DEF u
  <2>3. {v \in Streams : reply'[v] \in {"RUNNING", "PENDING"}} =
          {v \in Streams : reply[v] \in {"RUNNING", "PENDING"}} \union {u}
    BY <1>1, <2>1, <2>2, Zenon DEF TypeOK
  <2> QED BY <1>1, <2>1, <2>2, <2>3 DEF Accounted, Waiting, PendingSorted
<1>8. CASE RunStartQueued
  <2> DEFINE u == Head(cmd_rx).arg
  <2>1. u \in Streams /\ reply[u] = "waiting" /\ u \notin Range(pending) \union running \union ended
    BY <1>8, StartIsNew, Zenon DEF RunStartQueued
  <2>2. UNCHANGED <<active_uplinks, running, ended>> BY <1>8, Zenon DEF RunStartQueued
  <2>3. \/ UNCHANGED pending /\ reply' = [reply EXCEPT ![u] = "QUEUE_FULL"]
        \/ /\ pending' = InsertByPriority(pending, Priority, u)
           /\ reply' = [reply EXCEPT ![u] = "PENDING"]
    BY <1>8, Zenon DEF RunStartQueued, Reject, enqueue
  <2> HIDE DEF u
  <2>4. CASE UNCHANGED pending /\ reply' = [reply EXCEPT ![u] = "QUEUE_FULL"]
    <3>1. {v \in Streams : reply'[v] \in {"RUNNING", "PENDING"}} =
            {v \in Streams : reply[v] \in {"RUNNING", "PENDING"}}
      BY <1>1, <2>1, <2>4, Zenon DEF TypeOK
    <3> QED BY <1>1, <2>2, <2>4, <3>1, Zenon DEF Accounted, Waiting, PendingSorted
  <2>5. CASE /\ pending' = InsertByPriority(pending, Priority, u)
             /\ reply' = [reply EXCEPT ![u] = "PENDING"]
    <3>1. {v \in Streams : reply'[v] \in {"RUNNING", "PENDING"}} =
            {v \in Streams : reply[v] \in {"RUNNING", "PENDING"}} \union {u}
      BY <1>1, <2>1, <2>5, Zenon DEF TypeOK
    <3>2. /\ Range(pending') = Range(pending) \union {u} /\ Distinct(pending')
          /\ Sorted(pending', Priority)
      BY <2>1, <2>5, PendingIs, InsertKeeps, SessionAssumption
    <3> QED
      BY <1>1, <2>1, <2>2, <3>1, <3>2, Zenon DEF Accounted, Waiting, PendingSorted, Distinct, Sorted
  <2> QED BY <2>3, <2>4, <2>5, Zenon
<1>9. CASE RunStreamFinished
  <2>1. active_uplinks \ {Head(cmd_rx).arg} \subseteq active_uplinks OBVIOUS
  <2> QED BY <1>9, <2>1, PromoteAccounted, Zenon DEF RunStreamFinished
<1>10. CASE RunSetMaxConcurrent
  BY <1>10, PromoteAccounted, Zenon DEF RunSetMaxConcurrent
<1>11. CASE RunReconnect
  <2>1. PICK served \in SUBSET active_uplinks, ok \in SUBSET (1 .. Len(pending)) :
           /\ active_uplinks' = Kept(served) \union Drained(served, ok)
           /\ pending' \in Retained(pending,
                  {i \in 1 .. Len(pending) : pending[i] \notin Drained(served, ok)})
           /\ running' = running \union Drained(served, ok)
    BY <1>11, Zenon DEF RunReconnect
  <2> DEFINE D == Drained(served, ok)
             I == {i \in 1 .. Len(pending) : pending[i] \notin D}
  <2>2. D \subseteq Range(pending) /\ Kept(served) \subseteq active_uplinks
    BY <1>1, ReconnectSets, Zenon
  <2>3. I \in SUBSET (1 .. Len(pending)) /\ pending' \in Retained(pending, I) BY <2>1, Zenon
  <2>4. {pending[i] : i \in I} = Range(pending) \ D BY PendingIs, Zenon
  <2> HIDE DEF D, I
  <2>5. /\ Range(pending') = {pending[i] : i \in I} /\ Distinct(pending')
        /\ Sorted(pending', Priority)
    BY <2>3, PendingIs, RetainedKeeps, Zenon
  <2>6. UNCHANGED <<reply, ended>> BY <1>11, Zenon DEF RunReconnect
  <2>7. running' = running \union D /\ active_uplinks' \subseteq active_uplinks \union D
    BY <2>1, <2>2, Zenon DEF D
  <2>8. Accounted' /\ active_uplinks' \subseteq running' \union ended'
    BY <2>2, <2>4, <2>5, <2>6, <2>7, StartWaiting, Zenon
  <2> QED BY <2>5, <2>8, Zenon DEF PendingSorted, Sorted
<1>12. CASE UNCHANGED vars BY <1>2, <1>12, Zenon DEF vars
<1> QED
  BY <1>2, <1>3, <1>4, <1>5, <1>6, <1>7, <1>8, <1>9, <1>10, <1>11, <1>12, ZenonT(30)
     DEF Next, RunStep, AcceptStep, LinkLost, ClientHook, AgentForward, AckNewStream,
         RunLinkEnable, RunLinkFailed, on_link_failed, AcceptTop, AcceptStream, AcceptHeader,
         AcceptError, AcceptWake

\* The inductive step.
LEMMA NextSession == SessionInv /\ [Next]_vars => SessionInv'
<1> SUFFICES ASSUME SessionInv, [Next]_vars PROVE SessionInv'
  OBVIOUS
<1>1. WaitInv' BY NextWait, Zenon DEF SessionInv
<1> QED BY <1>1, NextTyped, ActiveFinite, NextCommands, NextAccounted, Zenon DEF SessionInv

\* The inductive invariant holds for every number of requests, whatever the
\* capacities, limits, faults and hooks.
THEOREM SpecSession == Spec => []SessionInv
BY InitSession, NextSession, PTL DEF Spec

\* The state of the session manager stays well typed: the queued streams of an
\* AckTask stay within STREAM_CAPACITY, and the session installed is the newest.
THEOREM SpecTypeOK == Spec => []TypeOK
<1>1. SessionInv => TypeOK BY Zenon DEF SessionInv
<1> QED BY <1>1, SpecSession, PTL

\* No request is lost or started twice between stream_start, the pending queue,
\* promote_pending, the drain after a reconnect and the end of its AckTask.
THEOREM SpecAccounted == Spec => []Accounted
<1>1. SessionInv => Accounted BY Zenon DEF SessionInv
<1> QED BY <1>1, SpecSession, PTL

\* The pending queue stays in priority order.
THEOREM SpecPendingSorted == Spec => []PendingSorted
<1>1. SessionInv => PendingSorted BY Zenon DEF SessionInv
<1> QED BY <1>1, SpecSession, PTL

-----------------------------------------------------------------------------
(* Handles *)

\* The uplink of a StreamFinished has ended.
LEMMA FinishedEnded ==
  ASSUME SessionInv, Cmd("StreamFinished") PROVE Head(cmd_rx).arg \in ended
<1>1. TypeOK /\ CommandsOK BY Zenon DEF SessionInv
<1>2. /\ Len(cmd_rx) > 0 /\ Len(cmd_rx) \in Nat /\ Head(cmd_rx) = cmd_rx[1]
      /\ Head(cmd_rx).op = "StreamFinished"
  BY <1>1, CmdTaken
<1> QED BY <1>1, <1>2 DEF CommandsOK

\* No step but a reconnect that finds its stream channel full takes the handle of
\* a living uplink.
LEMMA StepKeepsHandle ==
  ASSUME SessionInv, [Next]_vars, NEW u \in running', u \in active_uplinks,
         u \notin active_uplinks'
  PROVE  fresh[u] = STREAM_CAPACITY
<1> USE DEF linkVars, runVars, acceptVars, queueVars, taskVars, boundVars
<1>1. TypeOK /\ Accounted BY Zenon DEF SessionInv
<1>2. active_uplinks # active_uplinks' /\ u \notin Range(pending)
  BY <1>1, Zenon DEF Accounted, Waiting
<1>3. CASE RunStartOpened BY <1>3, Zenon DEF RunStartOpened
<1>4. CASE RunStreamFinished
  <2> DEFINE a == active_uplinks \ {Head(cmd_rx).arg}
  <2>1. Head(cmd_rx).arg \in ended BY <1>4, FinishedEnded, Zenon DEF RunStreamFinished
  <2>2. active_uplinks' = a \/ active_uplinks' = a \union {Head(pending)}
    BY <1>1, <1>4, Promotes, Zenon DEF RunStreamFinished
  <2>3. running' = running \/ (pending # <<>> /\ running' = running \union {Head(pending)})
    BY <1>1, <1>4, Promotes, Zenon DEF RunStreamFinished
  <2>4. pending # <<>> => Head(pending) \in Range(pending)
    BY PendingIs, TailKeeps, Zenon
  <2>5. u = Head(cmd_rx).arg BY <2>2, Zenon
  <2>6. u \in running BY <1>2, <2>3, <2>4, Zenon
  <2> QED BY <1>1, <2>1, <2>5, <2>6, Zenon DEF Accounted
<1>5. CASE RunSetMaxConcurrent
  BY <1>1, <1>5, Promotes, Zenon DEF RunSetMaxConcurrent
<1>6. CASE RunReconnect
  <2>1. PICK served \in SUBSET active_uplinks, ok \in SUBSET (1 .. Len(pending)) :
           /\ active_uplinks' = Kept(served) \union Drained(served, ok)
           /\ running' = running \union Drained(served, ok)
    BY <1>6, Zenon DEF RunReconnect
  <2>2. u \in running /\ u \notin Kept(served) BY <2>1, Zenon
  <2>3. ~ (fresh[u] < STREAM_CAPACITY) BY <2>2, Zenon DEF Kept
  <2>4. fresh[u] \in 0 .. STREAM_CAPACITY BY <1>1, Zenon DEF TypeOK
  <2> QED BY <2>3, <2>4, SessionAssumption
<1> QED
  BY <1>2, <1>3, <1>4, <1>5, <1>6, ZenonT(30)
     DEF Next, RunStep, AcceptStep, LinkLost, ClientHook, AgentForward, ClientGetConnStats,
         ClientStreamStart, AckNewStream, AckEnd, RunStartQueued, RunGetConnStats, RunLinkEnable,
         RunLinkFailed, on_link_failed, AcceptTop, AcceptStream, AcceptHeader, AcceptError,
         AcceptWake, vars

\* An uplink whose AckTask lives loses its handle only at a reconnect that finds
\* STREAM_CAPACITY fresh streams queued for it and not taken.
THEOREM SpecHandleKept == Spec => HandleKept
<1>1. SessionInv /\ [Next]_vars =>
        [\A u \in running' : u \in active_uplinks /\ u \notin active_uplinks'
            => fresh[u] = STREAM_CAPACITY]_vars
  BY StepKeepsHandle, Zenon
<1> QED BY <1>1, SpecSession, PTL DEF Spec, HandleKept

-----------------------------------------------------------------------------
(* Slots *)

\* One handle more than a set with a free slot fits.
LEMMA OneMoreFits ==
  ASSUME NEW active, IsFiniteSet(active), NEW max \in Nat, NEW u,
         has_active_slot(active, max), max # 0
  PROVE  Cardinality(active \union {u}) <= max
BY FS_AddElement, FS_CardinalityType DEF has_active_slot

\* A drain that starts anything leaves at most max_concurrent handles.
LEMMA DrainFits ==
  ASSUME SessionInv, max_concurrent # 0,
         NEW served, NEW ok \in SUBSET (1 .. Len(pending)), Drained(served, ok) # {}
  PROVE  Cardinality(Kept(served) \union Drained(served, ok)) <= max_concurrent
<1> DEFINE K == Cardinality(Kept(served))
           Before(i) == {j \in ok : j < i}
           D == {i \in ok : K + Cardinality(Before(i)) < max_concurrent}
           S == Drained(served, ok)
<1>1. /\ TypeOK /\ IsFiniteSet(active_uplinks) /\ max_concurrent \in Nat
      /\ Len(pending) \in Nat
  BY DEF SessionInv, TypeOK
<1>2. IsFiniteSet(Kept(served)) /\ K \in Nat
  BY <1>1, ReconnectSets, FS_Subset, FS_CardinalityType, Zenon
<1>3. S = {pending[i] : i \in D} BY Zenon DEF Drained
<1>4. D \subseteq ok /\ D # {} BY <1>3, Zenon
<1>5. IsFiniteSet(ok)
  <2>1. IsFiniteSet(1 .. Len(pending)) BY <1>1, FS_Interval
  <2> QED BY <2>1, FS_Subset, Zenon
<1>6. IsFiniteSet(D) /\ Cardinality(D) \in Nat BY <1>4, <1>5, FS_Subset, FS_CardinalityType, Zenon
<1>7. K + Cardinality(D) <= max_concurrent
  <2>1. PICK m \in D : \A i \in D : i <= m
    <3> HIDE DEF D
    <3>1. \A i \in 1 .. Len(pending) : i \in 0 .. Len(pending) BY <1>1
    <3>2. D \subseteq 0 .. Len(pending) BY <1>4, <3>1, Zenon
    <3> QED BY <1>1, <1>4, <3>2, GreatestNat, Zenon
  <2>2. K + Cardinality(Before(m)) < max_concurrent OBVIOUS
  <2>3. D \ {m} \subseteq Before(m)
    <3> SUFFICES ASSUME NEW i \in D \ {m} PROVE i \in Before(m) BY Zenon
    <3> HIDE DEF D
    <3>1. i \in ok /\ m \in ok /\ i <= m /\ i # m BY <1>4, <2>1, Zenon
    <3>2. i \in 1 .. Len(pending) /\ m \in 1 .. Len(pending) BY <3>1, Zenon
    <3> QED BY <1>1, <3>1, <3>2
  <2>4. IsFiniteSet(Before(m)) /\ Cardinality(Before(m)) \in Nat
    BY <1>5, FS_Subset, FS_CardinalityType, Zenon
  <2> HIDE DEF D, Before, K
  <2>5. Cardinality(D \ {m}) = Cardinality(D) - 1 BY <1>6, FS_RemoveElement, Zenon
  <2>6. Cardinality(D \ {m}) <= Cardinality(Before(m)) BY <2>3, <2>4, FS_Subset, Zenon
  <2> QED BY <1>1, <1>2, <1>6, <2>2, <2>4, <2>5, <2>6
<1>8. IsFiniteSet(S) /\ Cardinality(S) <= Cardinality(D) /\ Cardinality(S) \in Nat
  <2> DEFINE f == [i \in D |-> pending[i]]
  <2> HIDE DEF D
  <2>1. f \in Surjection(D, S) BY <1>3, Zenon DEF Surjection
  <2> QED BY <1>6, <2>1, FS_Surjection, FS_CardinalityType, Zenon
<1> HIDE DEF K, D, S
<1>9. /\ Cardinality(Kept(served) \union S) = K + Cardinality(S) - Cardinality(Kept(served) \intersect S)
      /\ Cardinality(Kept(served) \intersect S) \in Nat
  <2>1. IsFiniteSet(Kept(served) \intersect S) BY <1>2, FS_Subset, Zenon
  <2> QED BY <1>2, <1>8, <2>1, FS_Union, FS_CardinalityType, Zenon DEF K
<1> QED BY <1>1, <1>2, <1>6, <1>7, <1>8, <1>9 DEF S

\* No step starts an uplink beyond the limit.
LEMMA StepFitsSlots ==
  ASSUME SessionInv, [Next]_vars, max_concurrent' # 0, ~ (running' \subseteq running)
  PROVE  Cardinality(active_uplinks') <= max_concurrent'
<1> USE DEF linkVars, runVars, acceptVars, queueVars, taskVars, boundVars
<1>1. TypeOK /\ IsFiniteSet(active_uplinks) /\ max_concurrent \in Nat
  BY Zenon DEF SessionInv, TypeOK
<1>2. max_concurrent' \in Nat BY NextTyped, Zenon DEF TypeOK
<1>3. CASE RunStartOpened
  <2>1. /\ has_active_slot(active_uplinks, max_concurrent') /\ UNCHANGED max_concurrent
        /\ active_uplinks' = active_uplinks \union {Head(cmd_rx).arg}
    BY <1>3, Zenon DEF RunStartOpened
  <2> QED BY <1>1, <1>2, <2>1, OneMoreFits, Zenon
<1>4. CASE RunStreamFinished
  <2> DEFINE a == active_uplinks \ {Head(cmd_rx).arg}
  <2>1. IsFiniteSet(a) BY <1>1, ActiveSize, Zenon
  <2>2. UNCHANGED max_concurrent /\ promote_pending(a, max_concurrent)
    BY <1>4, Zenon DEF RunStreamFinished
  <2> HIDE DEF a
  <2>3. has_active_slot(a, max_concurrent) /\ active_uplinks' = a \union {Head(pending)}
    BY <1>1, <2>2, Promotes, Zenon
  <2> QED BY <1>1, <2>1, <2>2, <2>3, OneMoreFits, Zenon
<1>5. CASE RunSetMaxConcurrent
  <2>1. promote_pending(active_uplinks, max_concurrent') BY <1>5, Zenon DEF RunSetMaxConcurrent
  <2>2. /\ has_active_slot(active_uplinks, max_concurrent')
        /\ active_uplinks' = active_uplinks \union {Head(pending)}
    BY <1>1, <2>1, Promotes, Zenon
  <2> QED BY <1>1, <1>2, <2>2, OneMoreFits, Zenon
<1>6. CASE RunReconnect
  <2>1. PICK served \in SUBSET active_uplinks, ok \in SUBSET (1 .. Len(pending)) :
           /\ active_uplinks' = Kept(served) \union Drained(served, ok)
           /\ running' = running \union Drained(served, ok)
    BY <1>6, Zenon DEF RunReconnect
  <2>2. Drained(served, ok) # {} /\ UNCHANGED max_concurrent BY <1>6, <2>1, Zenon DEF RunReconnect
  <2> QED BY <2>1, <2>2, DrainFits, Zenon
<1> QED
  BY <1>3, <1>4, <1>5, <1>6, ZenonT(30)
     DEF Next, RunStep, AcceptStep, LinkLost, ClientHook, AgentForward, ClientGetConnStats,
         ClientStreamStart, AckNewStream, AckEnd, RunStartQueued, RunGetConnStats, RunLinkEnable,
         RunLinkFailed, on_link_failed, AcceptTop, AcceptStream, AcceptHeader, AcceptError,
         AcceptWake, vars

\* Streams are started only into free slots, whichever of stream_start,
\* promotion and drain starts them, also after the limit was lowered.
THEOREM SpecSlotsRespected == Spec => SlotsRespected
<1>1. SessionInv /\ [Next]_vars =>
        [max_concurrent' # 0 /\ ~(running' \subseteq running)
            => Cardinality(active_uplinks') <= max_concurrent']_vars
  BY StepFitsSlots, Zenon
<1> QED BY <1>1, SpecSession, PTL DEF Spec, SlotsRespected

-----------------------------------------------------------------------------
(* No idle slot, no overtaking: when opens fail only with their connection and
   no client raises the limit *)

\* The places before a place of the queue.
LEMMA PlacesBefore ==
  ASSUME NEW n \in Nat, NEW k \in 1 .. n
  PROVE  Cardinality({j \in 1 .. n : j < k}) = k - 1
<1>1. {j \in 1 .. n : j < k} = 1 .. k - 1 OBVIOUS
<1>2. Cardinality(1 .. k - 1) = k - 1 BY FS_Interval
<1> QED BY <1>1, <1>2, Zenon

\* A drain that can open every request and leaves one behind fills the slots.
LEMMA DrainFills ==
  ASSUME SessionInv, NEW served, NEW k \in 1 .. Len(pending),
         pending[k] \notin Drained(served, 1 .. Len(pending))
  PROVE  /\ max_concurrent # 0
         /\ Cardinality(Kept(served) \union Drained(served, 1 .. Len(pending))) >= max_concurrent
<1> DEFINE n == Len(pending)
           K == Cardinality(Kept(served))
           S == Drained(served, 1 .. n)
           A == Kept(served)
<1>1. /\ TypeOK /\ IsFiniteSet(active_uplinks) /\ max_concurrent \in Nat /\ n \in Nat
      /\ Accounted
  BY DEF SessionInv, TypeOK
<1>2. IsFiniteSet(A) /\ K \in Nat
  BY <1>1, ReconnectSets, FS_Subset, FS_CardinalityType, Zenon
<1>3. \A i \in 1 .. n : max_concurrent = 0 \/ K + (i - 1) < max_concurrent => pending[i] \in S
  <2> SUFFICES ASSUME NEW i \in 1 .. n, max_concurrent = 0 \/ K + (i - 1) < max_concurrent
               PROVE  pending[i] \in S
    OBVIOUS
  <2>1. Cardinality({j \in 1 .. n : j < i}) = i - 1 BY <1>1, PlacesBefore, Zenon
  <2> QED BY <2>1, Zenon DEF Drained
<1>4. S \subseteq Range(pending) /\ A \subseteq active_uplinks
  BY <1>1, ReconnectSets, Zenon
<1>5. IsFiniteSet(S) /\ Cardinality(S) \in Nat
  <2>1. IsFiniteSet(Range(pending))
    <3>1. IsFiniteSet(1 .. n) /\ DOMAIN pending = 1 .. n BY <1>1, FS_Interval DEF TypeOK
    <3>2. pending \in Surjection(1 .. n, Range(pending))
      BY <1>1, <3>1 DEF TypeOK, Surjection, Range
    <3> QED BY <3>1, <3>2, FS_Surjection, Zenon
  <2> QED BY <1>4, <2>1, FS_Subset, FS_CardinalityType, Zenon
<1>6. A \intersect S = {} BY <1>1, <1>4, Zenon DEF Accounted, Waiting
<1>7. max_concurrent # 0 /\ K + (k - 1) >= max_concurrent
  <2>1. ~ (max_concurrent = 0 \/ K + (k - 1) < max_concurrent) BY <1>3, Zenon
  <2> QED BY <1>1, <1>2, <2>1
<1> HIDE DEF S, K, A, n
<1>8. Cardinality(A \union S) = K + Cardinality(S)
  <2>1. Cardinality(A \union S) = Cardinality(A) + Cardinality(S) - Cardinality(A \intersect S)
    BY <1>2, <1>5, FS_Union, Zenon
  <2>2. Cardinality(A \intersect S) = 0 BY <1>6, FS_EmptySet, Zenon
  <2> QED BY <1>2, <1>5, <2>1, <2>2 DEF K, A
<1>9. CASE K >= max_concurrent
  BY <1>1, <1>2, <1>5, <1>7, <1>8, <1>9 DEF S, A, n
<1>10. CASE K < max_concurrent
  <2> DEFINE m == max_concurrent - K
             f == [i \in 1 .. m |-> pending[i]]
  <2>1. m \in Nat /\ m <= k - 1 BY <1>1, <1>2, <1>7, <1>10
  <2>2. \A i \in 1 .. m : i \in 1 .. n /\ K + (i - 1) < max_concurrent
    BY <1>1, <1>2, <2>1, <1>10 DEF n
  <2>3. \A i \in 1 .. m : i \in 1 .. n /\ pending[i] \in S BY <1>3, <2>2, Zenon
  <2>4. \A i, j \in 1 .. n : pending[i] = pending[j] => i = j BY <1>1, Zenon DEF Accounted, n
  <2> HIDE DEF m
  <2>5. f \in Injection(1 .. m, S) BY <2>3, <2>4, Zenon DEF Injection, IsInjective
  <2>6. Cardinality(1 .. m) <= Cardinality(S) BY <1>5, <2>5, FS_Injection, Zenon
  <2>7. Cardinality(1 .. m) = m BY <2>1, FS_Interval
  <2> QED BY <1>1, <1>2, <1>5, <1>7, <1>8, <2>1, <2>6, <2>7 DEF S, A, n, m
<1> QED BY <1>1, <1>2, <1>9, <1>10

\* No step leaves a slot idle while a request waits.
LEMMA StepNoIdleSlot ==
  ASSUME MaxFaults = 0, HookLimits = {}, SessionInv, NoIdleSlot, [Next]_vars
  PROVE  NoIdleSlot'
<1> USE DEF linkVars, runVars, acceptVars, queueVars, taskVars, boundVars
<1>1. /\ TypeOK /\ IsFiniteSet(active_uplinks) /\ max_concurrent \in Nat
      /\ Cardinality(active_uplinks) \in Nat /\ Accounted /\ ~ (faults < MaxFaults)
      /\ run = "select" => session = gen
  BY FS_CardinalityType DEF SessionInv, TypeOK, WaitInv
<1>2. CASE /\ UNCHANGED <<gen, pending, active_uplinks, max_concurrent>>
           /\ link' => link /\ session' = session
  BY <1>2, Zenon DEF NoIdleSlot
<1>3. CASE RunStartOpened
  <2>1. pending = <<>> BY <1>1, <1>3, Zenon DEF RunStartOpened, Cmd, Opens, NoIdleSlot
  <2> QED BY <1>3, <2>1, Zenon DEF RunStartOpened, NoIdleSlot
<1>4. CASE RunStartQueued
  <2>1. /\ UNCHANGED <<link, active_uplinks, max_concurrent>>
        /\ ~has_active_slot(active_uplinks, max_concurrent) \/ ~link
    BY <1>1, <1>4, Zenon DEF RunStartQueued, OpenFails
  <2> QED BY <2>1, Zenon DEF NoIdleSlot, has_active_slot
<1>5. CASE RunStreamFinished
  <2> DEFINE x == Head(cmd_rx).arg
             a == active_uplinks \ {x}
  <2>1. /\ promote_pending(a, max_concurrent) /\ session = gen
        /\ UNCHANGED <<link, gen, session, max_concurrent>>
    BY <1>1, <1>5, Zenon DEF RunStreamFinished, Cmd
  <2> HIDE DEF x
  <2>2. IsFiniteSet(a) /\ Cardinality(a) \in Nat
        /\ Cardinality(a) = IF x \in active_uplinks THEN Cardinality(active_uplinks) - 1
                            ELSE Cardinality(active_uplinks)
    BY <1>1, FS_RemoveElement, FS_CardinalityType, Zenon
  <2>3. CASE /\ pending # <<>> /\ has_active_slot(a, max_concurrent) /\ link
             /\ pending' = Tail(pending) /\ active_uplinks' = a \union {Head(pending)}
    <3>1. Head(pending) \notin a
      <4>1. Head(pending) \in Range(pending) BY <2>3, PendingIs, TailKeeps, Zenon
      <4> QED BY <1>1, <4>1, Zenon DEF Accounted, Waiting
    <3> HIDE DEF a
    <3>2. Cardinality(active_uplinks') = Cardinality(a) + 1
      BY <2>2, <2>3, <3>1, FS_AddElement, Zenon
    <3>3. max_concurrent # 0 /\ Cardinality(active_uplinks) >= max_concurrent
      BY <1>1, <2>1, <2>3 DEF NoIdleSlot, has_active_slot
    <3>4. Cardinality(active_uplinks') >= max_concurrent BY <1>1, <2>2, <3>2, <3>3
    <3> QED BY <1>1, <2>1, <2>2, <3>2, <3>3, <3>4 DEF NoIdleSlot, has_active_slot
  <2>4. CASE /\ active_uplinks' = a /\ UNCHANGED pending
             /\ pending = <<>> \/ ~has_active_slot(a, max_concurrent) \/ ~link
    BY <2>1, <2>4, Zenon DEF NoIdleSlot, has_active_slot
  <2> HIDE DEF a
  <2> QED BY <1>1, <2>1, <2>3, <2>4, Promotes, Zenon
<1>6. CASE RunSetMaxConcurrent BY <1>1, <1>6, CmdTaken, Zenon DEF RunSetMaxConcurrent
<1>7. CASE RunReconnect
  <2>1. PICK served \in SUBSET active_uplinks, ok \in SUBSET (1 .. Len(pending)) :
           /\ ReconnectGoes(served, ok)
           /\ active_uplinks' = Kept(served) \union Drained(served, ok)
           /\ pending' \in Retained(pending,
                  {i \in 1 .. Len(pending) : pending[i] \notin Drained(served, ok)})
    BY <1>7, Zenon DEF RunReconnect
  <2> DEFINE I == {i \in 1 .. Len(pending) : pending[i] \notin Drained(served, ok)}
  <2> SUFFICES ASSUME link', pending' # <<>>
               PROVE  ~has_active_slot(active_uplinks', max_concurrent')
    BY Zenon DEF NoIdleSlot, has_active_slot
  <2>2. ok = 1 .. Len(pending) BY <1>1, <2>1, Zenon DEF ReconnectGoes
  <2>3. \E k : k \in I
    <3>1. I \in SUBSET (1 .. Len(pending)) /\ pending' \in Retained(pending, I) BY <2>1, Zenon
    <3> HIDE DEF I
    <3>2. pending' \in Seq(Streams) /\ Range(pending') = {pending[i] : i \in I}
      BY <3>1, PendingIs, RetainedKeeps, Zenon
    <3>3. Head(pending') \in Range(pending')
      BY <3>2, TailKeeps, Zenon
    <3> QED BY <3>2, <3>3, Zenon
  <2>4. PICK k \in 1 .. Len(pending) : pending[k] \notin Drained(served, 1 .. Len(pending))
    BY <2>2, <2>3, Zenon
  <2>5. /\ max_concurrent # 0
        /\ Cardinality(active_uplinks') >= max_concurrent
    BY <2>1, <2>2, <2>4, DrainFills, Zenon
  <2>6. max_concurrent' = max_concurrent BY <1>7, Zenon DEF RunReconnect
  <2>7. Cardinality(active_uplinks') \in Nat BY ActiveFinite, FS_CardinalityType, Zenon
  <2> QED BY <1>1, <2>5, <2>6, <2>7 DEF has_active_slot
<1>8. CASE RunLinkFailed
  <2>1. session' = 0 /\ gen' = gen BY <1>8, Zenon DEF RunLinkFailed, on_link_failed
  <2>2. gen # 0 BY Zenon DEF SessionInv, WaitInv
  <2> QED BY <2>1, <2>2, Zenon DEF NoIdleSlot
<1>9. CASE UNCHANGED vars BY <1>2, <1>9, Zenon DEF vars
<1> QED
  BY <1>2, <1>3, <1>4, <1>5, <1>6, <1>7, <1>8, <1>9
     DEF Next, RunStep, AcceptStep, LinkLost, ClientHook, AgentForward, ClientGetConnStats,
         ClientStreamStart, AckNewStream, AckEnd, RunGetConnStats, RunLinkEnable,
         AcceptTop, AcceptStream, AcceptHeader, AcceptError, AcceptWake

\* No slot is idle while a request waits and the session installed is alive, if
\* opens fail only because their connection is gone and no client changes the
\* limit (promote_pending starts one request only, whatever the new limit).
THEOREM SpecNoIdleSlot ==
  ASSUME MaxFaults = 0, HookLimits = {}
  PROVE  Spec => []NoIdleSlot
<1>1. Init => NoIdleSlot BY Zenon DEF Init, InitRemote, NoIdleSlot
<1>2. SessionInv /\ NoIdleSlot /\ [Next]_vars => NoIdleSlot' BY StepNoIdleSlot, Zenon
<1> QED BY <1>1, <1>2, SpecSession, PTL DEF Spec

\* Nothing gets ahead of v when the head, which was ahead of it, leaves.
LEMMA AheadTail ==
  ASSUME NEW S, NEW queue \in Seq(S), queue # <<>>, NEW v \in Range(Tail(queue))
  PROVE  Ahead(Tail(queue), v) \subseteq Ahead(queue, v) /\ Head(queue) \in Ahead(queue, v)
<1> DEFINE r == Tail(queue)
<1>1. /\ r \in Seq(S) /\ Len(r) = Len(queue) - 1 /\ Len(queue) > 0 /\ Head(queue) = queue[1]
      /\ \A i \in 1 .. Len(r) : i + 1 \in 1 .. Len(queue) /\ r[i] = queue[i + 1]
  OBVIOUS
<1> HIDE DEF r
<1>2. /\ Range(r) = {r[i] : i \in 1 .. Len(r)} /\ Range(queue) = {queue[i] : i \in 1 .. Len(queue)}
  BY <1>1, RangeIs, Zenon
<1>3. ASSUME NEW u \in Ahead(r, v) PROVE u \in Ahead(queue, v)
  <2>1. PICK i \in 1 .. Len(r), j \in 1 .. Len(r) : i < j /\ r[i] = u /\ r[j] = v
    BY <1>3, Zenon DEF Ahead
  <2>2. /\ i + 1 \in 1 .. Len(queue) /\ j + 1 \in 1 .. Len(queue) /\ i + 1 < j + 1
        /\ queue[i + 1] = u /\ queue[j + 1] = v
    BY <1>1, <2>1
  <2> QED BY <1>2, <2>2, Zenon DEF Ahead
<1>4. Head(queue) \in Ahead(queue, v)
  <2>1. PICK j \in 1 .. Len(r) : r[j] = v BY <1>2, Zenon DEF r
  <2>2. /\ 1 \in 1 .. Len(queue) /\ j + 1 \in 1 .. Len(queue) /\ 1 < j + 1
        /\ queue[1] = Head(queue) /\ queue[j + 1] = v
    BY <1>1, <2>1
  <2> QED BY <1>2, <2>2, Zenon DEF Ahead
<1> QED BY <1>3, <1>4, Zenon DEF r

\* Nothing gets ahead of v when entries leave the queue.
LEMMA AheadRetained ==
  ASSUME NEW S, NEW queue \in Seq(S), NEW I \in SUBSET (1 .. Len(queue)),
         NEW r \in Retained(queue, I), NEW v
  PROVE  Ahead(r, v) \subseteq Ahead(queue, v)
<1> SUFFICES ASSUME NEW u \in Ahead(r, v) PROVE u \in Ahead(queue, v) OBVIOUS
<1>1. PICK f \in [1 .. Len(r) -> I] :
        /\ \A k \in 1 .. Len(r) : r[k] = queue[f[k]]
        /\ \A j, k \in 1 .. Len(r) : j < k => f[j] < f[k]
  BY RetainedIs
<1>2. PICK i \in 1 .. Len(r), j \in 1 .. Len(r) : i < j /\ r[i] = u /\ r[j] = v
  BY Zenon DEF Ahead
<1>3. /\ f[i] \in 1 .. Len(queue) /\ f[j] \in 1 .. Len(queue) /\ f[i] < f[j]
      /\ queue[f[i]] = u /\ queue[f[j]] = v
  BY <1>1, <1>2, Zenon
<1>4. u \in Range(queue) BY <1>3, RangeIs
<1> QED BY <1>3, <1>4, Zenon DEF Ahead

\* enqueue puts its request ahead of requests of strictly lower priority only.
LEMMA AheadInsert ==
  ASSUME NEW S, NEW queue \in Seq(S), NEW priority \in [S -> Int], NEW u \in S,
         Sorted(queue, priority), u \notin Range(queue), NEW v \in Range(queue),
         NEW x \in Ahead(InsertByPriority(queue, priority, u), v) \ Ahead(queue, v)
  PROVE  priority[x] > priority[v]
<1> DEFINE r == InsertByPriority(queue, priority, u)
<1>1. r \in Seq(S) /\ Len(r) = Len(queue) + 1 BY InsertIs
<1>2. PICK pos \in 1 .. Len(queue) + 1 :
         /\ \A i \in 1 .. Len(r) :
              r[i] = IF i < pos THEN queue[i] ELSE IF i = pos THEN u ELSE queue[i - 1]
         /\ \A i \in 1 .. pos - 1 : priority[queue[i]] >= priority[u]
         /\ pos <= Len(queue) => priority[queue[pos]] < priority[u]
  BY InsertIs, Zenon
<1>3. PICK i \in 1 .. Len(r), j \in 1 .. Len(r) : i < j /\ r[i] = x /\ r[j] = v
  BY Zenon DEF Ahead
<1> HIDE DEF r
<1>4. Range(queue) = {queue[k] : k \in 1 .. Len(queue)} BY RangeIs, Zenon
<1>5. \A k, l \in 1 .. Len(queue) : k < l /\ queue[k] = x => queue[l] # v
  BY <1>4, Zenon DEF Ahead, r
<1>6. j # pos BY <1>2, <1>3
<1>7. i = pos
  <2>1. CASE i < pos /\ j < pos
    <3>1. r[i] = queue[i] /\ r[j] = queue[j] BY <1>2, <2>1, Zenon
    <3>2. i \in 1 .. Len(queue) /\ j \in 1 .. Len(queue) BY <1>1, <2>1
    <3> QED BY <1>3, <1>5, <3>1, <3>2, Zenon
  <2>2. CASE i < pos /\ j > pos
    <3>1. r[i] = queue[i] /\ r[j] = queue[j - 1] BY <1>1, <1>2, <2>2
    <3>2. i \in 1 .. Len(queue) /\ j - 1 \in 1 .. Len(queue) /\ i < j - 1 BY <1>1, <2>2
    <3> QED BY <1>3, <1>5, <3>1, <3>2, Zenon
  <2>3. CASE i > pos /\ j > pos
    <3>1. r[i] = queue[i - 1] /\ r[j] = queue[j - 1] BY <1>1, <1>2, <2>3
    <3>2. i - 1 \in 1 .. Len(queue) /\ j - 1 \in 1 .. Len(queue) /\ i - 1 < j - 1
      <4>1. i < j BY <1>3, Zenon
      <4> QED BY <1>1, <2>3, <4>1
    <3> QED BY <1>3, <1>5, <3>1, <3>2, Zenon
  <2> QED BY <1>1, <1>3, <1>6, <2>1, <2>2, <2>3
<1>8. x = u /\ v = queue[j - 1] BY <1>1, <1>2, <1>3, <1>7
<1>9. pos \in 1 .. Len(queue) /\ j - 1 \in 1 .. Len(queue) /\ pos <= j - 1 BY <1>1, <1>3, <1>7
<1>10. \A k \in 1 .. Len(queue) : priority[queue[k]] \in Int OBVIOUS
<1>11. pos = j - 1 \/ priority[queue[pos]] >= priority[queue[j - 1]] BY <1>9 DEF Sorted
<1>12. priority[queue[pos]] < priority[u] /\ priority[u] \in Int BY <1>2, <1>9
<1> QED BY <1>8, <1>9, <1>10, <1>11, <1>12

\* A drain without faulty opens starts requests from the front: whatever it
\* starts was ahead of everything it leaves.
LEMMA DrainInOrder ==
  ASSUME SessionInv, NEW served, NEW k \in 0 .. Len(pending),
         NEW u \in Drained(served, 1 .. k), NEW v \in Range(pending) \ Drained(served, 1 .. k)
  PROVE  u \in Ahead(pending, v)
<1>1. /\ pending \in Seq(Streams) /\ Range(pending) = {pending[i] : i \in 1 .. Len(pending)}
      /\ max_concurrent \in Nat /\ TypeOK /\ IsFiniteSet(active_uplinks)
  BY PendingIs, Zenon DEF SessionInv, TypeOK
<1> DEFINE K == Cardinality(Kept(served))
           In(i) == max_concurrent = 0 \/ K + Cardinality({j \in 1 .. k : j < i}) < max_concurrent
<1>2. K \in Nat BY <1>1, ReconnectSets, FS_Subset, FS_CardinalityType, Zenon
<1>3. \A i \in 1 .. k : Cardinality({j \in 1 .. k : j < i}) = i - 1 BY PlacesBefore
<1>4. Drained(served, 1 .. k) = {pending[i] : i \in {i \in 1 .. k : In(i)}} BY Zenon DEF Drained
<1>5. PICK i \in 1 .. k : In(i) /\ pending[i] = u BY <1>4, Zenon
<1>6. PICK l \in 1 .. Len(pending) : pending[l] = v BY <1>1, Zenon
<1>7. ~ (l \in 1 .. k /\ In(l)) BY <1>4, <1>6, Zenon
<1>8. i < l
  <2>1. CASE l \in 1 .. k
    <3>1. max_concurrent = 0 \/ K + (i - 1) < max_concurrent BY <1>3, <1>5, Zenon
    <3>2. ~ (max_concurrent = 0 \/ K + (l - 1) < max_concurrent) BY <1>3, <1>7, <2>1, Zenon
    <3> HIDE DEF K
    <3> QED BY <1>1, <1>2, <2>1, <3>1, <3>2
  <2>2. CASE l \notin 1 .. k BY <1>1, <2>2
  <2> QED BY <2>1, <2>2, Zenon
<1>9. i \in 1 .. Len(pending) BY <1>1
<1> QED BY <1>1, <1>5, <1>6, <1>8, <1>9, Zenon DEF Ahead

\* What gets ahead of a waiting request in a step has a higher priority.
LEMMA StepNoOvertaking ==
  ASSUME MaxFaults = 0, HookLimits = {}, SessionInv, NoIdleSlot, [Next]_vars,
         NEW v \in Range(pending) \intersect Range(pending'),
         NEW u \in (Ahead(pending', v) \union active_uplinks')
                      \ (Ahead(pending, v) \union active_uplinks)
  PROVE  Priority[u] > Priority[v]
<1> USE DEF linkVars, runVars, acceptVars, queueVars, taskVars, boundVars
<1>1. TypeOK /\ ~ (faults < MaxFaults) /\ (run = "select" => session = gen) /\ pending \in Seq(Streams)
  BY DEF SessionInv, TypeOK, WaitInv
<1>2. pending # <<>> BY DEF Range
<1>3. ~ UNCHANGED <<pending, active_uplinks>> OBVIOUS
<1>4. CASE RunStartOpened
  BY <1>1, <1>2, <1>4, Zenon DEF RunStartOpened, Cmd, Opens, NoIdleSlot
<1>5. CASE RunStartQueued
  <2> DEFINE w == Head(cmd_rx).arg
  <2>1. w \in Streams /\ w \notin Range(pending) BY <1>5, StartIsNew, Zenon DEF RunStartQueued
  <2>2. UNCHANGED active_uplinks /\ pending' = InsertByPriority(pending, Priority, w)
    BY <1>3, <1>5, Zenon DEF RunStartQueued, enqueue
  <2> HIDE DEF w
  <2> QED BY <2>1, <2>2, PendingIs, AheadInsert, SessionAssumption, Zenon
<1>6. ASSUME NEW active, active \subseteq active_uplinks, NEW max, promote_pending(active, max)
      PROVE  FALSE
  <2>1. CASE pending' = Tail(pending) /\ active_uplinks' = active \union {Head(pending)}
    BY <1>1, <1>2, <1>6, <2>1, AheadTail
  <2>2. CASE active_uplinks' = active /\ UNCHANGED pending BY <1>6, <2>2, Zenon
  <2> QED BY <1>1, <1>6, <2>1, <2>2, Promotes, Zenon
<1>7. CASE RunStreamFinished
  <2>1. active_uplinks \ {Head(cmd_rx).arg} \subseteq active_uplinks OBVIOUS
  <2> QED BY <1>6, <1>7, <2>1, Zenon DEF RunStreamFinished
<1>8. CASE RunSetMaxConcurrent BY <1>1, <1>8, CmdTaken, Zenon DEF RunSetMaxConcurrent
<1>9. CASE RunReconnect
  <2>1. PICK served \in SUBSET active_uplinks, ok \in SUBSET (1 .. Len(pending)) :
           /\ ReconnectGoes(served, ok)
           /\ active_uplinks' = Kept(served) \union Drained(served, ok)
           /\ pending' \in Retained(pending,
                  {i \in 1 .. Len(pending) : pending[i] \notin Drained(served, ok)})
    BY <1>9, Zenon DEF RunReconnect
  <2> DEFINE I == {i \in 1 .. Len(pending) : pending[i] \notin Drained(served, ok)}
  <2>2. I \in SUBSET (1 .. Len(pending)) /\ pending' \in Retained(pending, I) BY <2>1, Zenon
  <2>3. {pending[i] : i \in I} \intersect Drained(served, ok) = {} OBVIOUS
  <2> HIDE DEF I
  <2>4. Range(pending') = {pending[i] : i \in I} BY <1>1, <2>2, RetainedKeeps, Zenon
  <2>5. v \in Range(pending) \ Drained(served, ok) BY <2>3, <2>4, Zenon
  <2>6. Ahead(pending', v) \subseteq Ahead(pending, v) BY <1>1, <2>2, AheadRetained, Zenon
  <2>7. PICK k \in 0 .. Len(pending) : ok = 1 .. k
    <3>1. ok = 1 .. Len(pending) \/ ok = {} \/ \E k \in 0 .. Len(pending) : ok = 1 .. k
      BY <1>1, <2>1, Zenon DEF ReconnectGoes
    <3>2. Len(pending) \in 0 .. Len(pending) /\ 0 \in 0 .. Len(pending) /\ {} = 1 .. 0 BY <1>1
    <3> QED BY <3>1, <3>2, Zenon
  <2>8. Kept(served) \subseteq active_uplinks BY <1>1, ReconnectSets, Zenon
  <2>9. u \in Drained(served, ok) BY <2>1, <2>6, <2>8, Zenon
  <2> QED BY <2>5, <2>7, <2>9, DrainInOrder, Zenon
<1> QED
  BY <1>3, <1>4, <1>5, <1>7, <1>8, <1>9, ZenonT(30)
     DEF Next, RunStep, AcceptStep, LinkLost, ClientHook, AgentForward, ClientGetConnStats,
         ClientStreamStart, AckNewStream, AckEnd, RunGetConnStats, RunLinkEnable, RunLinkFailed,
         on_link_failed, AcceptTop, AcceptStream, AcceptHeader, AcceptError, AcceptWake, vars

\* While a request waits, only requests of strictly higher priority get ahead of
\* it, in the queue or by being started, under the same two conditions.
THEOREM SpecNoOvertaking ==
  ASSUME MaxFaults = 0, HookLimits = {}
  PROVE  Spec => NoOvertaking
<1>1. SessionInv /\ NoIdleSlot /\ [Next]_vars =>
        [\A v \in Waiting \intersect Waiting' :
           \A u \in (Ahead(pending, v)' \union active_uplinks')
                       \ (Ahead(pending, v) \union active_uplinks) :
               Priority[u] > Priority[v]]_vars
  <2> SUFFICES ASSUME SessionInv, NoIdleSlot, [Next]_vars, NEW v \in Waiting \intersect Waiting',
                      NEW u \in (Ahead(pending, v)' \union active_uplinks')
                                   \ (Ahead(pending, v) \union active_uplinks)
               PROVE  Priority[u] > Priority[v]
    OBVIOUS
  <2>1. v \in Range(pending) \intersect Range(pending') BY Zenon DEF Waiting
  <2>2. Ahead(pending, v)' = Ahead(pending', v) BY Zenon DEF Ahead
  <2> QED BY <2>1, <2>2, StepNoOvertaking, Zenon
<1> QED BY <1>1, SpecSession, SpecNoIdleSlot, PTL DEF Spec, NoOvertaking
=============================================================================
