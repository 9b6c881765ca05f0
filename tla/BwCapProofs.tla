----------------------------- MODULE BwCapProofs ----------------------------
(***************************************************************************)
(* What BwCapTest reports is real, for every number of streams and every   *)
(* capacity: a result Pass (PassIsReal) and the program's verdict          *)
(* (VerdictSound). An event passes through four queues. Each step is shown *)
(* to move the events about one tuner in one of a few ways (Flow); none of *)
(* them makes up a Done or lets one overtake a Failed.                     *)
(***************************************************************************)
EXTENDS BwCapTest, TLAPS

USE SMTT(30)
USE DEF callbackVars, tunerVars, cicVars

(* Queues *)

\* What a queue holds when an item is added.
LEMMA HasAppend ==
  ASSUME NEW S, NEW s \in Seq(S), NEW e \in S, NEW x
  PROVE  Has(Append(s, e), x) <=> Has(s, x) \/ e = x
<1>1. /\ Len(s) \in Nat /\ Len(Append(s, e)) = Len(s) + 1
      /\ \A i \in 1 .. Len(s) : Append(s, e)[i] = s[i]
      /\ Append(s, e)[Len(s) + 1] = e
  OBVIOUS
<1> QED BY <1>1 DEF Has

\* What a queue holds when its first item is taken.
LEMMA HasTail ==
  ASSUME NEW S, NEW s \in Seq(S), s # <<>>, NEW x
  PROVE  Has(s, x) <=> Head(s) = x \/ Has(Tail(s), x)
<1> DEFINE t == Tail(s)
<1>1. /\ Len(s) \in Nat \ {0} /\ Len(t) = Len(s) - 1 /\ Head(s) = s[1]
      /\ \A i \in 1 .. Len(s) - 1 : t[i] = s[i + 1]
  OBVIOUS
<1> HIDE DEF t
<1>2. ASSUME Has(s, x) PROVE s[1] = x \/ Has(t, x)
  <2> PICK i \in 1 .. Len(s) : s[i] = x BY <1>2 DEF Has
  <2>1. CASE i = 1 BY <2>1
  <2>2. CASE i # 1
    <3>1. i - 1 \in 1 .. Len(t) /\ t[i - 1] = s[i] BY <1>1, <2>2
    <3> QED BY <3>1 DEF Has
  <2> QED BY <2>1, <2>2
<1>3. ASSUME s[1] = x PROVE Has(s, x)
  <2>1. 1 \in 1 .. Len(s) BY <1>1
  <2> QED BY <1>3, <2>1 DEF Has
<1>4. ASSUME Has(t, x) PROVE Has(s, x)
  <2> PICK i \in 1 .. Len(t) : t[i] = x BY <1>4 DEF Has
  <2>1. i + 1 \in 1 .. Len(s) /\ s[i + 1] = x BY <1>1
  <2> QED BY <2>1 DEF Has
<1> QED BY <1>1, <1>2, <1>3, <1>4, Zenon DEF t

\* The order in a queue when an item is added.
LEMMA BehindAppend ==
  ASSUME NEW S, NEW s \in Seq(S), NEW e \in S, NEW x, NEW y,
         Behind(s, x, y), e = y => Has(s, x)
  PROVE  Behind(Append(s, e), x, y)
<1>1. /\ Len(s) \in Nat /\ Len(Append(s, e)) = Len(s) + 1
      /\ \A i \in 1 .. Len(s) : Append(s, e)[i] = s[i]
      /\ Append(s, e)[Len(s) + 1] = e
  OBVIOUS
<1> PICK t : t = Append(s, e) BY Zenon
<1> SUFFICES ASSUME NEW i \in 1 .. Len(t), t[i] = y PROVE \E j \in 1 .. i - 1 : t[j] = x
  BY Zenon DEF Behind
<1>2. CASE i = Len(s) + 1
  <2>1. PICK j \in 1 .. Len(s) : s[j] = x BY <1>1, <1>2 DEF Has
  <2>2. j \in 1 .. i - 1 /\ t[j] = x BY <1>1, <1>2, <2>1
  <2> QED BY <2>2
<1>3. CASE i # Len(s) + 1
  <2>1. i \in 1 .. Len(s) /\ s[i] = y BY <1>1, <1>3
  <2>2. PICK j \in 1 .. i - 1 : s[j] = x BY <2>1, Zenon DEF Behind
  <2>3. j \in 1 .. i - 1 /\ t[j] = x BY <1>1, <2>1, <2>2
  <2> QED BY <2>3
<1> QED BY <1>2, <1>3

\* The order in a queue when its first item is taken, which is no y.
LEMMA BehindTail ==
  ASSUME NEW S, NEW s \in Seq(S), s # <<>>, NEW x, NEW y, Behind(s, x, y)
  PROVE  /\ Head(s) # y
         /\ Head(s) # x => Behind(Tail(s), x, y)
<1> DEFINE t == Tail(s)
<1>1. /\ Len(s) \in Nat \ {0} /\ Len(t) = Len(s) - 1 /\ Head(s) = s[1]
      /\ \A i \in 1 .. Len(s) - 1 : t[i] = s[i + 1]
  OBVIOUS
<1> HIDE DEF t
<1>2. s[1] # y
  <2> SUFFICES ASSUME s[1] = y PROVE FALSE OBVIOUS
  <2>1. 1 \in 1 .. Len(s) BY <1>1
  <2>2. \E j \in 1 .. 1 - 1 : s[j] = x BY <2>1, Zenon DEF Behind
  <2> QED BY <2>2
<1>3. ASSUME s[1] # x, NEW i \in 1 .. Len(t), t[i] = y PROVE \E j \in 1 .. i - 1 : t[j] = x
  <2>1. i + 1 \in 1 .. Len(s) /\ s[i + 1] = y BY <1>1, <1>3
  <2>2. PICK j \in 1 .. (i + 1) - 1 : s[j] = x BY <2>1, Zenon DEF Behind
  <2>3. j # 1 BY <1>3, <2>2
  <2>4. j - 1 \in 1 .. i - 1 /\ t[j - 1] = x BY <1>1, <2>1, <2>2, <2>3
  <2> QED BY <2>4
<1> QED BY <1>1, <1>2, <1>3, Zenon DEF t, Behind

\* Nothing is in an empty queue.
LEMMA EmptyQueue == \A x, y : ~Has(<<>>, x) /\ Behind(<<>>, x, y)
  BY DEF Has, Behind

-----------------------------------------------------------------------------
(* A Failed on its way, and no Done before it *)

\* The events about k are told apart.
LEMMA EventNames ==
  ASSUME NEW k \in Keys
  PROVE  /\ Told(k, "Failed") # Told(k, "Done")
         /\ Forwarded(k, "Failed") # Forwarded(k, "Done")
         /\ \A op \in {"Started", "Done", "Failed"} :
               Told(k, op) \in EventType /\ Forwarded(k, op) \in CicMsg
         /\ \A e, op : [role |-> k[2], event |-> e] = Forwarded(k, op) <=> e = Told(k, op)
<1>1. \A op : Told(k, op).op = op /\ Forwarded(k, op).event = Told(k, op)
  BY Zenon DEF Told, Forwarded, Event
<1>2. k[1] \in Streams /\ k[2] \in Roles BY DEF Keys
<1>3. \A op \in {"Started", "Done", "Failed"} :
        Told(k, op) \in EventType /\ Forwarded(k, op) \in CicMsg
  BY <1>2 DEF Told, Forwarded, Event, EventType, CicMsg
<1>4. \A e, op : [role |-> k[2], event |-> e] = Forwarded(k, op) <=> e = Told(k, op)
  BY DEF Forwarded
<1>5. "Failed" # "Done" OBVIOUS
<1>6. Told(k, "Failed") # Told(k, "Done") BY <1>1, <1>5
<1>7. Forwarded(k, "Failed") # Forwarded(k, "Done") BY <1>1, <1>6, Zenon
<1> QED BY <1>3, <1>4, <1>6, <1>7, Zenon

\* The agent sends one more event.
LEMMA OrderRxAdd ==
  ASSUME NEW k \in Keys, NEW r \in Seq(CallbackCmd), NEW s \in Seq(EventType),
         NEW c \in Seq(CicMsg), NEW d \in Seq(TunerCmd), InOrder(k, r, s, c, d),
         NEW e \in CallbackCmd
  PROVE  InOrder(k, Append(r, e), s, c, d)
<1>1. \A x : Has(Append(r, e), x) <=> Has(r, x) \/ e = x BY HasAppend, Zenon
<1>2. \A x, y : Behind(r, x, y) /\ (e = y => Has(r, x)) => Behind(Append(r, e), x, y)
  BY BehindAppend, Zenon
<1> QED BY <1>1, <1>2, Zenon DEF InOrder, InFlight

\* The CallbackAgent takes something else.
LEMMA OrderRxTake ==
  ASSUME NEW k \in Keys, NEW r \in Seq(CallbackCmd), NEW s \in Seq(EventType),
         NEW c \in Seq(CicMsg), NEW d \in Seq(TunerCmd), InOrder(k, r, s, c, d),
         r # <<>>, Head(r) # Told(k, "Failed")
  PROVE  InOrder(k, Tail(r), s, c, d)
<1>1. \A x : Has(r, x) <=> Head(r) = x \/ Has(Tail(r), x) BY HasTail, Zenon
<1>2. \A x, y : Behind(r, x, y) /\ Head(r) # x => Behind(Tail(r), x, y) BY BehindTail, Zenon
<1> QED BY <1>1, <1>2, Zenon DEF InOrder, InFlight

\* The CallbackAgent writes the event to the socket.
LEMMA OrderRxMove ==
  ASSUME NEW k \in Keys, NEW r \in Seq(CallbackCmd), NEW s \in Seq(EventType),
         NEW c \in Seq(CicMsg), NEW d \in Seq(TunerCmd), InOrder(k, r, s, c, d),
         r # <<>>, Head(r) \in EventType
  PROVE  InOrder(k, Tail(r), Append(s, Head(r)), c, d)
<1> PICK e : e = Head(r) BY Zenon
<1>1. \A x : Has(r, x) <=> e = x \/ Has(Tail(r), x) BY HasTail, Zenon
<1>2. \A x, y : Behind(r, x, y) => e # y /\ (e # x => Behind(Tail(r), x, y)) BY BehindTail, Zenon
<1>3. \A x : Has(Append(s, e), x) <=> Has(s, x) \/ e = x BY HasAppend, Zenon
<1>4. \A x, y : Behind(s, x, y) /\ (e = y => Has(s, x)) => Behind(Append(s, e), x, y)
  BY BehindAppend, Zenon
<1> QED BY <1>1, <1>2, <1>3, <1>4, EventNames, Zenon DEF InOrder, InFlight

\* An event about another tuner leaves the socket.
LEMMA OrderSocketTake ==
  ASSUME NEW k \in Keys, NEW r \in Seq(CallbackCmd), NEW s \in Seq(EventType),
         NEW c \in Seq(CicMsg), NEW d \in Seq(TunerCmd), InOrder(k, r, s, c, d),
         s # <<>>, Head(s) # Told(k, "Failed")
  PROVE  InOrder(k, r, Tail(s), c, d)
<1>1. \A x : Has(s, x) <=> Head(s) = x \/ Has(Tail(s), x) BY HasTail, Zenon
<1>2. \A x, y : Behind(s, x, y) /\ Head(s) # x => Behind(Tail(s), x, y) BY BehindTail, Zenon
<1> QED BY <1>1, <1>2, Zenon DEF InOrder, InFlight

\* The CallbackActor forwards the event to the CIC.
LEMMA OrderSocketMove ==
  ASSUME NEW k \in Keys, NEW r \in Seq(CallbackCmd), NEW s \in Seq(EventType),
         NEW c \in Seq(CicMsg), NEW d \in Seq(TunerCmd), InOrder(k, r, s, c, d),
         s # <<>>
  PROVE  InOrder(k, r, Tail(s), Append(c, [role |-> k[2], event |-> Head(s)]), d)
<1>1. ASSUME NEW m \in CicMsg, \A op : m = Forwarded(k, op) <=> Head(s) = Told(k, op)
      PROVE  InOrder(k, r, Tail(s), Append(c, m), d)
  <2>1. \A x : Has(s, x) <=> Head(s) = x \/ Has(Tail(s), x) BY HasTail, Zenon
  <2>2. \A x, y : Behind(s, x, y) => Head(s) # y /\ (Head(s) # x => Behind(Tail(s), x, y))
    BY BehindTail, Zenon
  <2>3. \A x : Has(Append(c, m), x) <=> Has(c, x) \/ m = x BY HasAppend, Zenon
  <2>4. \A x, y : Behind(c, x, y) /\ (m = y => Has(c, x)) => Behind(Append(c, m), x, y)
    BY BehindAppend, Zenon
  <2> QED BY <1>1, <2>1, <2>2, <2>3, <2>4, EventNames, Zenon DEF InOrder, InFlight
<1>2. Head(s) \in EventType /\ k[2] \in Roles BY DEF Keys
<1>3. [role |-> k[2], event |-> Head(s)] \in CicMsg BY <1>2 DEF CicMsg
<1>4. \A op : [role |-> k[2], event |-> Head(s)] = Forwarded(k, op) <=> Head(s) = Told(k, op)
  BY EventNames, Zenon
<1> QED BY <1>1, <1>3, <1>4, Zenon

\* The CIC gets another message.
LEMMA OrderCicAdd ==
  ASSUME NEW k \in Keys, NEW r \in Seq(CallbackCmd), NEW s \in Seq(EventType),
         NEW c \in Seq(CicMsg), NEW d \in Seq(TunerCmd), InOrder(k, r, s, c, d),
         NEW m \in CicMsg, m # Forwarded(k, "Done")
  PROVE  InOrder(k, r, s, Append(c, m), d)
<1>1. \A x : Has(Append(c, m), x) <=> Has(c, x) \/ m = x BY HasAppend, Zenon
<1>2. \A x, y : Behind(c, x, y) /\ (m = y => Has(c, x)) => Behind(Append(c, m), x, y)
  BY BehindAppend, Zenon
<1> QED BY <1>1, <1>2, Zenon DEF InOrder, InFlight

\* The CIC takes another message.
LEMMA OrderCicTake ==
  ASSUME NEW k \in Keys, NEW r \in Seq(CallbackCmd), NEW s \in Seq(EventType),
         NEW c \in Seq(CicMsg), NEW d \in Seq(TunerCmd), InOrder(k, r, s, c, d),
         c # <<>>, Head(c) # Forwarded(k, "Failed")
  PROVE  InOrder(k, r, s, Tail(c), d)
<1>1. \A x : Has(c, x) <=> Head(c) = x \/ Has(Tail(c), x) BY HasTail, Zenon
<1>2. \A x, y : Behind(c, x, y) /\ Head(c) # x => Behind(Tail(c), x, y) BY BehindTail, Zenon
<1> QED BY <1>1, <1>2, Zenon DEF InOrder, InFlight

\* The CIC routes the event to the tuner.
LEMMA OrderCicMove ==
  ASSUME NEW k \in Keys, NEW r \in Seq(CallbackCmd), NEW s \in Seq(EventType),
         NEW c \in Seq(CicMsg), NEW d \in Seq(TunerCmd), InOrder(k, r, s, c, d),
         c # <<>>, NEW op \in {"Done", "Failed"}, Head(c) = Forwarded(k, op)
  PROVE  InOrder(k, r, s, Tail(c), Append(d, op))
<1>1. \A x : Has(c, x) <=> Head(c) = x \/ Has(Tail(c), x) BY HasTail, Zenon
<1>2. \A x, y : Behind(c, x, y) => Head(c) # y /\ (Head(c) # x => Behind(Tail(c), x, y))
  BY BehindTail, Zenon
<1>3. op \in TunerCmd BY DEF TunerCmd
<1>4. \A x : Has(Append(d, op), x) <=> Has(d, x) \/ op = x BY <1>3, HasAppend, Zenon
<1>5. \A x, y : Behind(d, x, y) /\ (op = y => Has(d, x)) => Behind(Append(d, op), x, y)
  BY <1>3, BehindAppend, Zenon
<1>6. op = "Done" \/ op = "Failed" OBVIOUS
<1>7. "Failed" # "Done" OBVIOUS
<1> QED BY <1>1, <1>2, <1>4, <1>5, <1>6, <1>7, EventNames, Zenon DEF InOrder, InFlight

\* The tuner is sent another command.
LEMMA OrderCmdAdd ==
  ASSUME NEW k \in Keys, NEW r \in Seq(CallbackCmd), NEW s \in Seq(EventType),
         NEW c \in Seq(CicMsg), NEW d \in Seq(TunerCmd), InOrder(k, r, s, c, d),
         NEW op \in TunerCmd, op # "Done"
  PROVE  InOrder(k, r, s, c, Append(d, op))
<1>1. \A x : Has(Append(d, op), x) <=> Has(d, x) \/ op = x BY HasAppend, Zenon
<1>2. \A x, y : Behind(d, x, y) /\ (op = y => Has(d, x)) => Behind(Append(d, op), x, y)
  BY BehindAppend, Zenon
<1> QED BY <1>1, <1>2, Zenon DEF InOrder, InFlight

\* The next command is no Done, and if it is not the Failed, the Failed is behind it.
LEMMA OrderCmdTake ==
  ASSUME NEW k \in Keys, NEW r \in Seq(CallbackCmd), NEW s \in Seq(EventType),
         NEW c \in Seq(CicMsg), NEW d \in Seq(TunerCmd), InOrder(k, r, s, c, d),
         d # <<>>
  PROVE  /\ Head(d) # "Done"
         /\ Head(d) # "Failed" => InOrder(k, r, s, c, Tail(d))
<1>1. \A x : Has(d, x) <=> Head(d) = x \/ Has(Tail(d), x) BY HasTail, Zenon
<1>2. \A x, y : Behind(d, x, y) => Head(d) # y /\ (Head(d) # x => Behind(Tail(d), x, y))
  BY BehindTail, Zenon
<1> QED BY <1>1, <1>2, Zenon DEF InOrder, InFlight

\* The read error is reported while no Done is on its way.
LEMMA OrderBegins ==
  ASSUME NEW k \in Keys, NEW r \in Seq(CallbackCmd), NEW s, NEW c, NEW d,
         ~InFlight(k, "Done", r, s, c, d)
  PROVE  InOrder(k, Append(r, Told(k, "Failed")), s, c, d)
<1>1. \A q, x, y : ~Has(q, y) => Behind(q, x, y) BY Zenon DEF Has, Behind
<1>2. Told(k, "Failed") \in CallbackCmd BY EventNames DEF CallbackCmd
<1>3. \A e \in CallbackCmd : \A x : Has(Append(r, e), x) <=> Has(r, x) \/ e = x
  BY HasAppend, Zenon
<1> QED BY <1>1, <1>2, <1>3, EventNames, Zenon DEF InOrder, InFlight

-----------------------------------------------------------------------------
(* Types *)

\* A key is a stream and a role.
LEMMA KeyTypes ==
  ASSUME NEW k \in Keys
  PROVE  /\ k[1] \in Streams /\ k[2] \in Roles /\ k[2] \in Agents
         /\ k = <<k[1], k[2]>> /\ <<k[1], "Receiver">> \in Keys
<1>1. k[1] \in Streams /\ k[2] \in Roles /\ k = <<k[1], k[2]>> BY DEF Keys
<1>2. "Receiver" \in Roles BY DEF Roles
<1> QED BY <1>1, <1>2, BwCapAssumption DEF Keys

\* Taking and adding keep the type of a family of queues.
LEMMA QueueTypes ==
  ASSUME NEW S, NEW K, NEW f \in [K -> Seq(S)], NEW a \in K
  PROVE  /\ \A e \in S : [f EXCEPT ![a] = Append(@, e)] \in [K -> Seq(S)]
         /\ f[a] # <<>> => Head(f[a]) \in S /\ [f EXCEPT ![a] = Tail(@)] \in [K -> Seq(S)]
         /\ [f EXCEPT ![a] = <<>>] \in [K -> Seq(S)]
<1>1. f[a] \in Seq(S) OBVIOUS
<1>2. \A e \in S : Append(f[a], e) \in Seq(S) BY <1>1
<1>3. f[a] # <<>> => Head(f[a]) \in S /\ Tail(f[a]) \in Seq(S) BY <1>1
<1>4. <<>> \in Seq(S) OBVIOUS
<1> QED BY <1>2, <1>3, <1>4

\* The CIC's commands are commands.
LEMMA DeliverType ==
  ASSUME TypeOK, NEW ks, NEW op \in TunerCmd, Deliver(ks, op)
  PROVE  cmd_rx' \in [Keys -> Seq(TunerCmd)]
<1>1. \A k \in Keys : cmd_rx[k] \in Seq(TunerCmd) BY DEF TypeOK
<1>2. \A k \in Keys : Append(cmd_rx[k], op) \in Seq(TunerCmd) BY <1>1
<1> QED BY <1>1, <1>2 DEF Deliver

\* The key of the message at the head of the CIC's channel.
LEMMA MessageTypes ==
  ASSUME TypeOK, cic_rx # <<>>
  PROVE  /\ Head(cic_rx) \in CicMsg /\ Tail(cic_rx) \in Seq(CicMsg)
         /\ MsgKey \in Keys /\ MsgKey[1] = Head(cic_rx).event.uuid /\ MsgKey[2] = Head(cic_rx).role
         /\ Head(cic_rx).event.op = "Finished" => Head(cic_rx).event \in ReportType
         /\ Head(cic_rx).event.op # "Finished" => Head(cic_rx).event \in EventType
<1>1. Head(cic_rx) \in CicMsg /\ Tail(cic_rx) \in Seq(CicMsg) BY DEF TypeOK
<1>2. /\ Head(cic_rx).role \in Roles
      /\ Head(cic_rx).event \in EventType \/ Head(cic_rx).event \in ReportType
  BY <1>1 DEF CicMsg
<1>3. \A e \in EventType : e.op # "Finished" /\ e.uuid \in Streams BY DEF EventType
<1>4. \A e \in ReportType : e.op = "Finished" /\ e.uuid \in Streams BY DEF ReportType
<1>5. Head(cic_rx).event.uuid \in Streams BY <1>2, <1>3, <1>4
<1>6. MsgKey \in Keys /\ MsgKey[1] = Head(cic_rx).event.uuid /\ MsgKey[2] = Head(cic_rx).role
  BY <1>2, <1>5 DEF MsgKey, Keys
<1> QED BY <1>1, <1>2, <1>3, <1>4, <1>6, Zenon

\* What fire takes is an event.
LEMMA FiredType ==
  ASSUME TypeOK, NEW a \in Agents, rx[a] # <<>>, IsEvent(Head(rx[a]))
  PROVE  Head(rx[a]) \in EventType
<1>1. rx[a] \in Seq(CallbackCmd) BY DEF TypeOK
<1>2. Head(rx[a]) \in CallbackCmd BY <1>1
<1>3. Register.op = "Register" /\ Ping.op = "Ping" BY DEF Register, Ping
<1> QED BY <1>2, <1>3 DEF CallbackCmd, IsEvent

\* The callback threads and the CallbackActor keep the types.
LEMMA CallbackTypes ==
  ASSUME TypeOK, NEW a \in Agents, CallbackStep(a) \/ PingStep(a) \/ Forward(a)
  PROVE  TypeOK'
<1>1. rx \in [Agents -> Seq(CallbackCmd)] /\ socket \in [Agents -> Seq(EventType)]
      /\ cic_rx \in Seq(CicMsg)
  BY DEF TypeOK
<1>2. CASE CallbackStep(a)
  <2>1. /\ rx[a] # <<>> => [rx EXCEPT ![a] = Tail(@)] \in [Agents -> Seq(CallbackCmd)]
        /\ \A e \in EventType : [socket EXCEPT ![a] = Append(@, e)] \in [Agents -> Seq(EventType)]
    BY <1>1, QueueTypes, Zenon
  <2>2. rx[a] # <<>> /\ IsEvent(Head(rx[a])) => Head(rx[a]) \in EventType BY FiredType, Zenon
  <2>3. rx' = rx \/ (rx[a] # <<>> /\ rx' = [rx EXCEPT ![a] = Tail(@)])
    BY <1>2, Zenon DEF CallbackStep, run, RunRegister, RunPing, PingReturns, fire, Take, Received
  <2>4. \/ socket' = socket
        \/ /\ rx[a] # <<>> /\ IsEvent(Head(rx[a]))
           /\ socket' = [socket EXCEPT ![a] = Append(@, Head(rx[a]))]
    BY <1>2, Zenon DEF CallbackStep, run, RunRegister, RunPing, PingReturns, fire
  <2>5. rx' \in [Agents -> Seq(CallbackCmd)] BY <1>1, <2>1, <2>3, Zenon
  <2>6. socket' \in [Agents -> Seq(EventType)] BY <1>1, <2>1, <2>2, <2>4, Zenon
  <2>7. UNCHANGED <<agent, writer, tuner, outcome, cmd_rx, results, cic_rx>>
    BY <1>2, Zenon DEF CallbackStep
  <2> QED BY <2>5, <2>6, <2>7, Zenon DEF TypeOK
<1>3. CASE PingStep(a)
  <2>1. Ping \in CallbackCmd BY DEF CallbackCmd
  <2>2. rx' \in [Agents -> Seq(CallbackCmd)]
    BY <1>1, <1>3, <2>1, QueueTypes, Zenon DEF PingStep, PingTimer, send
  <2>3. UNCHANGED <<socket, agent, writer, tuner, outcome, cmd_rx, results, cic_rx>>
    BY <1>3, Zenon DEF PingStep, PingTimer
  <2> QED BY <2>2, <2>3, Zenon DEF TypeOK
<1>4. CASE Forward(a)
  <2>1. socket[a] # <<>> BY <1>4, Zenon DEF Forward
  <2>2. /\ Head(socket[a]) \in EventType
        /\ [socket EXCEPT ![a] = Tail(@)] \in [Agents -> Seq(EventType)]
    BY <1>1, <2>1, QueueTypes, Zenon
  <2>3. [role |-> a, event |-> Head(socket[a])] \in CicMsg BY <2>2, BwCapAssumption DEF CicMsg
  <2>4. Append(cic_rx, [role |-> a, event |-> Head(socket[a])]) \in Seq(CicMsg) BY <1>1, <2>3
  <2>5. cic_rx' = cic_rx \/ cic_rx' = Append(cic_rx, [role |-> a, event |-> Head(socket[a])])
    BY <1>4, Zenon DEF Forward
  <2>6. socket' = [socket EXCEPT ![a] = Tail(@)] BY <1>4, Zenon DEF Forward
  <2>7. UNCHANGED <<rx, agent, writer, tuner, outcome, cmd_rx, results>>
    BY <1>4, Zenon DEF Forward
  <2> QED BY <1>1, <2>2, <2>4, <2>5, <2>6, <2>7, Zenon DEF TypeOK
<1> QED BY <1>2, <1>3, <1>4, Zenon

\* The agents keep the types.
LEMMA EmitTypes ==
  ASSUME TypeOK, NEW k \in Keys, NEW op \in {"Started", "Done", "Failed"},
         NEW st \in {"started", "read_error", "done", "late_done", "failed"}, Emit(k, st, op)
  PROVE  TypeOK'
<1>1. Event(op, k[1]) \in CallbackCmd
  <2>1. k[1] \in Streams BY KeyTypes, Zenon
  <2>2. Event(op, k[1]) \in EventType BY <2>1 DEF Event, EventType
  <2> QED BY <2>2, Zenon DEF CallbackCmd
<1>2. rx \in [Agents -> Seq(CallbackCmd)] /\ k[2] \in Agents BY KeyTypes, Zenon DEF TypeOK
<1>3. rx' \in [Agents -> Seq(CallbackCmd)]
  <2>1. rx' = [rx EXCEPT ![k[2]] = Append(@, Event(op, k[1]))] BY Zenon DEF Emit, send
  <2>2. \A a \in Agents : \A e \in CallbackCmd :
          [rx EXCEPT ![a] = Append(@, e)] \in [Agents -> Seq(CallbackCmd)]
    BY <1>2, QueueTypes, Zenon
  <2> QED BY <1>1, <1>2, <2>1, <2>2, Zenon
<1>4. agent' \in [Keys -> AgentStates]
  <2>1. agent \in [Keys -> AgentStates] BY Zenon DEF TypeOK
  <2>2. agent' = [agent EXCEPT ![k] = st] BY Zenon DEF Emit
  <2>3. st \in AgentStates BY DEF AgentStates
  <2> QED BY <2>1, <2>2, <2>3
<1>5. UNCHANGED <<socket, writer, tuner, outcome, cmd_rx, results, cic_rx>> BY Zenon DEF Emit
<1> QED BY <1>3, <1>4, <1>5, Zenon DEF TypeOK

\* What an agent tells is one of these.
LEMMA AgentEmits ==
  ASSUME NEW k \in Keys, AgentStep(k) \/ (k[2] = "Sender" /\ AgentReadError(k[1]))
  PROVE  \/ AgentStarted(k) /\ Emit(k, "started", "Started")
         \/ AgentDone(k) /\ \E st \in {"done", "late_done"} : Emit(k, st, "Done")
         \/ AgentFailed(k) /\ Emit(k, "failed", "Failed")
         \/ k[2] = "Sender" /\ AgentReadError(k[1]) /\ Emit(k, "read_error", "Failed")
<1>1. k = <<k[1], k[2]>> BY KeyTypes, Zenon
<1> QED BY <1>1, Zenon DEF AgentStep, AgentStarted, AgentDone, AgentFailed, AgentReadError

\* Whatever an agent tells, the types are kept.
LEMMA AgentTypes ==
  ASSUME TypeOK, NEW k \in Keys, AgentStep(k) \/ (k[2] = "Sender" /\ AgentReadError(k[1]))
  PROVE  TypeOK'
<1>1. \E st \in {"started", "read_error", "done", "late_done", "failed"} :
        \E op \in {"Started", "Done", "Failed"} : Emit(k, st, op)
  BY AgentEmits
<1> QED BY <1>1, EmitTypes, Zenon

\* A tuner takes a command and goes on waiting. It ignores a Failed only while
\* it waits for its port.
GoesOn(k) ==
    /\ cmd_rx[k] # <<>> /\ TakeCmd(k) /\ UNCHANGED <<outcome, cic_rx>>
    /\ Head(cmd_rx[k]) = "Failed" => tuner[k] = "port"
    /\ \/ UNCHANGED <<tuner, writer>>
       \/ /\ tuner[k] = "port" /\ k[2] = "Sender"
          /\ Goto(k, "write") /\ writer' = [writer EXCEPT ![k[1]] = "open"]
       \/ tuner[k] = "port" /\ k[2] # "Sender" /\ Goto(k, "recv_done") /\ UNCHANGED writer
       \/ tuner[k] = "write" /\ Goto(k, "agent_done") /\ CloseWriter(k)

\* A tuner decides; it passes on a Done, past wait_for_port.
Decides(k, o) ==
    /\ tuner[k] \in Waiting /\ Report(k, o) /\ UNCHANGED cic_rx
    /\ UNCHANGED writer \/ (tuner[k] # "none" /\ CloseWriter(k))
    /\ o = "Pass" => Cmd(k, "Done")

\* What a tuner does is one of three.
LEMMA TunerSteps ==
  ASSUME NEW k \in Keys, TunerStep(k)
  PROVE  /\ UNCHANGED <<callbackVars, agent, cicVars>>
         /\ GoesOn(k) \/ (\E o \in {"Pass", "Fail"} : Decides(k, o)) \/ finish(k)
<1>1. UNCHANGED <<callbackVars, agent, cicVars>>
  BY Zenon DEF TunerStep, TunerPort, TunerShutdown, TunerAgentDone, TunerAgentFailed,
     TunerReceiverDone, TunerKill, TunerIgnores, finish, TunerRest
<1>2. CASE TunerPort(k)
  <2>1. Head(cmd_rx[k]) # "Failed" BY <1>2 DEF TunerPort, Cmd
  <2> QED BY <1>2, <2>1, Zenon DEF TunerPort, Cmd, TunerRest, GoesOn
<1>3. CASE TunerShutdown(k)
  <2>1. Head(cmd_rx[k]) # "Failed" BY <1>3 DEF TunerShutdown, Cmd
  <2> QED BY <1>3, <2>1, Zenon DEF TunerShutdown, Cmd, TunerRest, GoesOn
<1>4. CASE TunerIgnores(k)
  <2>1. Head(cmd_rx[k]) = "Failed" => tuner[k] = "port"
    BY <1>4 DEF TunerIgnores, Expected, Waiting
  <2> QED BY <1>4, <2>1, Zenon DEF TunerIgnores, TunerRest, GoesOn
<1>5. "Pass" # "Fail" OBVIOUS
<1>6. CASE TunerAgentDone(k)
  <2>1. tuner[k] \in Waiting BY <1>6 DEF TunerAgentDone, Waiting
  <2>2. Decides(k, "Pass") BY <1>6, <2>1, Zenon DEF TunerAgentDone, TunerRest, Decides
  <2> QED BY <1>1, <2>2, Zenon
<1>7. CASE TunerAgentFailed(k)
  <2>1. tuner[k] \in Waiting /\ tuner[k] # "none" BY <1>7 DEF TunerAgentFailed, Waiting
  <2>2. Decides(k, "Fail") BY <1>5, <1>7, <2>1, Zenon DEF TunerAgentFailed, TunerRest, Decides
  <2> QED BY <1>1, <2>2, Zenon
<1>8. CASE TunerReceiverDone(k)
  <2>1. tuner[k] \in Waiting BY <1>8 DEF TunerReceiverDone, Waiting
  <2>2. Decides(k, "Pass") \/ Decides(k, "Fail")
    BY <1>5, <1>8, <2>1, Zenon DEF TunerReceiverDone, TunerRest, Decides
  <2> QED BY <1>1, <2>2, Zenon
<1>9. CASE TunerKill(k)
  <2>1. tuner[k] \in Waiting /\ tuner[k] # "none" BY <1>9 DEF TunerKill, Waiting
  <2>2. Decides(k, "Fail") BY <1>5, <1>9, <2>1, Zenon DEF TunerKill, TunerRest, Decides
  <2> QED BY <1>1, <2>2, Zenon
<1> QED BY <1>1, <1>2, <1>3, <1>4, <1>6, <1>7, <1>8, <1>9, Zenon DEF TunerStep

\* The tuners keep the types.
LEMMA TunerTypes ==
  ASSUME TypeOK, NEW k \in Keys, TunerStep(k)
  PROVE  TypeOK'
<1>1. UNCHANGED <<rx, socket, agent, results>> BY TunerSteps, Zenon
<1>2. cmd_rx \in [Keys -> Seq(TunerCmd)] BY Zenon DEF TypeOK
<1>k. k[1] \in Streams /\ k[2] \in Roles BY KeyTypes, Zenon
<1>3. writer' = writer \/ CloseWriter(k) => writer' \in [Streams -> {"none", "open", "closed"}]
  <2>1. writer \in [Streams -> {"none", "open", "closed"}] BY Zenon DEF TypeOK
  <2>2. writer' = writer \/ CloseWriter(k)
          => writer' = writer \/ writer' = [writer EXCEPT ![k[1]] = "closed"]
    BY Zenon DEF CloseWriter
  <2> QED BY <1>k, <2>1, <2>2
<1>4. CASE GoesOn(k)
  <2>1. cmd_rx' \in [Keys -> Seq(TunerCmd)] BY <1>2, <1>4, QueueTypes, Zenon DEF GoesOn, TakeCmd
  <2>2. tuner' \in [Keys -> Waiting \union {"none", "report", "exited"}]
    <3>1. \A st \in {"write", "recv_done", "agent_done"} :
            [tuner EXCEPT ![k] = st] \in [Keys -> Waiting \union {"none", "report", "exited"}]
      BY DEF TypeOK, Waiting
    <3>2. tuner' = tuner \/ \E st \in {"write", "recv_done", "agent_done"} : Goto(k, st)
      BY <1>4 DEF GoesOn
    <3>3. tuner \in [Keys -> Waiting \union {"none", "report", "exited"}] BY Zenon DEF TypeOK
    <3> QED BY <3>1, <3>2, <3>3, Zenon DEF Goto
  <2>3. [writer EXCEPT ![k[1]] = "open"] \in [Streams -> {"none", "open", "closed"}]
    BY <1>k DEF TypeOK
  <2>4. writer' \in [Streams -> {"none", "open", "closed"}] BY <1>3, <1>4, <2>3, Zenon DEF GoesOn
  <2>5. UNCHANGED <<outcome, cic_rx>> BY <1>4, Zenon DEF GoesOn
  <2> QED BY <1>1, <2>1, <2>2, <2>4, <2>5, Zenon DEF TypeOK
<1>5. ASSUME NEW o \in {"Pass", "Fail"}, Decides(k, o) PROVE TypeOK'
  <2>1. cmd_rx' \in [Keys -> Seq(TunerCmd)] BY <1>2, <1>5, QueueTypes, Zenon DEF Decides, Report
  <2>2. tuner' \in [Keys -> Waiting \union {"none", "report", "exited"}]
    BY <1>5 DEF Decides, Report, Goto, TypeOK
  <2>3. outcome' \in [Keys -> {"none", "Pass", "Fail"}] BY <1>5 DEF Decides, Report, TypeOK
  <2>4. writer' \in [Streams -> {"none", "open", "closed"}] BY <1>3, <1>5, Zenon DEF Decides
  <2>5. UNCHANGED cic_rx BY <1>5, Zenon DEF Decides
  <2> QED BY <1>1, <2>1, <2>2, <2>3, <2>4, <2>5, Zenon DEF TypeOK
<1>6. CASE finish(k)
  <2>1. tuner' \in [Keys -> Waiting \union {"none", "report", "exited"}]
    BY <1>6 DEF finish, Goto, TypeOK
  <2>2. outcome[k] \in {"none", "Pass", "Fail"} /\ cic_rx \in Seq(CicMsg) BY DEF TypeOK
  <2>3. [op |-> "Finished", uuid |-> k[1], outcome |-> outcome[k]] \in ReportType
    BY <1>k, <2>2 DEF ReportType
  <2>4. \A e \in ReportType : [role |-> k[2], event |-> e] \in CicMsg BY <1>k DEF CicMsg
  <2>5. \A m \in CicMsg : Append(cic_rx, m) \in Seq(CicMsg) BY <2>2
  <2>6. cic_rx' \in Seq(CicMsg) BY <1>6, <2>3, <2>4, <2>5, Zenon DEF finish
  <2>7. UNCHANGED <<writer, outcome, cmd_rx>> BY <1>6, Zenon DEF finish
  <2> QED BY <1>1, <2>1, <2>6, <2>7, Zenon DEF TypeOK
<1> QED BY <1>4, <1>5, <1>6, TunerSteps, Zenon

\* The program around the CIC keeps the types.
LEMMA SetupTypes ==
  ASSUME TypeOK, NEW u \in Streams,
         StreamStart(u) \/ StreamRefused(u) \/ WriterExhausts(u)
  PROVE  TypeOK'
<1>1. UNCHANGED <<rx, socket, cic_rx, cmd_rx, agent, outcome, results>>
  BY Zenon DEF StreamStart, StreamRefused, WriterExhausts, TunerRest
<1>2. writer' = writer \/ writer' = [writer EXCEPT ![u] = "closed"]
  BY Zenon DEF StreamStart, StreamRefused, WriterExhausts
<1>3. writer' \in [Streams -> {"none", "open", "closed"}] BY <1>2 DEF TypeOK
<1>4. tuner' = tuner \/ tuner' = [k \in Keys |-> IF k[1] = u THEN "port" ELSE tuner[k]]
  BY Zenon DEF StreamStart, StreamRefused, WriterExhausts
<1>5. tuner' \in [Keys -> Waiting \union {"none", "report", "exited"}]
  BY <1>4 DEF TypeOK, Waiting
<1> QED BY <1>1, <1>3, <1>5, Zenon DEF TypeOK

\* So does the receiving agent that has written the whole stream out.
LEMMA WormholeTypes ==
  ASSUME TypeOK, NEW u \in Streams, WormholeDone(u)
  PROVE  TypeOK'
<1>1. UNCHANGED <<rx, socket, cic_rx, cmd_rx, writer, tuner, outcome, results>>
  BY Zenon DEF WormholeDone
<1>2. agent' = [agent EXCEPT ![<<u, "Receiver">>] = "closing"] BY Zenon DEF WormholeDone
<1>3. agent \in [Keys -> AgentStates] /\ "closing" \in AgentStates BY DEF TypeOK, AgentStates
<1>4. \A j \in Keys : [agent EXCEPT ![j] = "closing"] \in [Keys -> AgentStates] BY <1>3
<1>5. <<u, "Receiver">> \in Keys BY DEF Keys, Roles
<1>6. agent' \in [Keys -> AgentStates] BY <1>2, <1>4, <1>5, Zenon
<1> QED BY <1>1, <1>6, Zenon DEF TypeOK

\* The CIC keeps the types.
LEMMA CicTypes ==
  ASSUME TypeOK, CicMessage \/ DurationElapsed \/ Failsafe \/ CicReturn
  PROVE  TypeOK'
<1>1. UNCHANGED <<rx, socket, agent, writer, tuner, outcome>>
  BY Zenon DEF CicMessage, CicStarted, CicDone, CicFailed, CicFinished, DurationElapsed,
     Failsafe, CicReturn
<1>2. \/ cic_rx' = cic_rx \/ cic_rx' = <<>> \/ (cic_rx # <<>> /\ cic_rx' = Tail(cic_rx))
  BY Zenon DEF CicMessage, CicStarted, CicDone, CicFailed, CicFinished, DurationElapsed,
     Failsafe, CicReturn, Message
<1>3. cic_rx' \in Seq(CicMsg)
  <2>1. cic_rx \in Seq(CicMsg) /\ <<>> \in Seq(CicMsg) BY DEF TypeOK
  <2>2. cic_rx # <<>> => Tail(cic_rx) \in Seq(CicMsg) BY MessageTypes, Zenon
  <2> QED BY <1>2, <2>1, <2>2, Zenon
<1>4. cmd_rx' \in [Keys -> Seq(TunerCmd)]
  <2>1. CicStarted \/ CicDone \/ CicFailed => cic_rx # <<>>
    BY Zenon DEF CicStarted, CicDone, CicFailed, Message
  <2>2. cmd_rx' = cmd_rx \/ cmd_rx' = [k \in Keys |-> <<>>]
        \/ \E ks : \E op \in {"Port", "Done", "Failed", "Shutdown", "Kill"} : Deliver(ks, op)
    BY DEF CicMessage, CicStarted, CicDone, CicFailed, CicFinished,
       DurationElapsed, Failsafe, CicReturn, route, shutdown_senders
  <2>3. cmd_rx \in [Keys -> Seq(TunerCmd)] /\ [k \in Keys |-> <<>>] \in [Keys -> Seq(TunerCmd)]
    BY DEF TypeOK
  <2> QED BY <2>2, <2>3, DeliverType, Zenon DEF TunerCmd
<1>5. results' \in [Keys -> {"none", "Pass", "Fail"}]
  <2>1. CASE CicFinished
    <3>1. cic_rx # <<>> /\ Head(cic_rx).event.op = "Finished" BY <2>1, Zenon DEF CicFinished, Message
    <3>2. Head(cic_rx).event \in ReportType /\ MsgKey \in Keys BY <3>1, MessageTypes, Zenon
    <3>3. Head(cic_rx).event.outcome \in {"none", "Pass", "Fail"} BY <3>2 DEF ReportType
    <3>4. results' = [results EXCEPT ![MsgKey] = Head(cic_rx).event.outcome]
      BY <2>1, Zenon DEF CicFinished
    <3> QED BY <3>2, <3>3, <3>4 DEF TypeOK
  <2>2. CASE results' = results BY <2>2, Zenon DEF TypeOK
  <2> QED BY <2>1, <2>2, Zenon DEF CicMessage, CicStarted, CicDone, CicFailed,
             DurationElapsed, Failsafe, CicReturn
<1> QED BY <1>1, <1>3, <1>4, <1>5, Zenon DEF TypeOK

\* The steps of Next, a read error among those of the agents.
LEMMA Steps ==
  ASSUME Next
  PROVE  /\ Alive
         /\ \/ \E a \in Agents : CallbackStep(a) \/ PingStep(a) \/ Forward(a)
            \/ \E k \in Keys : AgentStep(k) \/ (k[2] = "Sender" /\ AgentReadError(k[1]))
            \/ \E k \in Keys : TunerStep(k)
            \/ \E u \in Streams : \/ StreamStart(u) \/ StreamRefused(u)
                                  \/ WormholeDone(u) \/ WriterExhausts(u)
            \/ RunCic \/ CicMessage \/ DurationElapsed \/ Failsafe \/ CicReturn
<1>1. ASSUME NEW u \in Streams, AgentReadError(u)
      PROVE  \E k \in Keys : k[2] = "Sender" /\ AgentReadError(k[1])
  <2>1. <<u, "Sender">> \in Keys BY DEF Keys, Roles
  <2>2. <<u, "Sender">>[1] = u /\ <<u, "Sender">>[2] = "Sender" OBVIOUS
  <2> QED BY <1>1, <2>1, <2>2, Zenon
<1> QED BY <1>1, Zenon DEF Next

\* Every step keeps the types.
LEMMA TypeStep ==
  ASSUME TypeOK, Next
  PROVE  TypeOK'
<1>1. CASE RunCic
  <2>1. UNCHANGED <<rx, socket, cic_rx, cmd_rx, agent, writer, tuner, outcome, results>>
    BY <1>1, Zenon DEF RunCic
  <2> QED BY <2>1, Zenon DEF TypeOK
<1> QED BY <1>1, Steps, CallbackTypes, AgentTypes, TunerTypes, SetupTypes, WormholeTypes,
           CicTypes, Zenon

-----------------------------------------------------------------------------
(* How the events about one tuner move *)

SameRx(k)     == rx'[k[2]] = rx[k[2]]
SameSocket(k) == socket'[k[2]] = socket[k[2]]
SameCic       == cic_rx' = cic_rx
SameCmd(k)    == cmd_rx'[k] = cmd_rx[k]

\* The agent is told something; a Done about k is AgentDone.
Tells(k) ==
    /\ SameSocket(k) /\ SameCic /\ SameCmd(k)
    /\ \E e \in CallbackCmd : /\ rx'[k[2]] = Append(rx[k[2]], e)
                              /\ e = Told(k, "Done") => AgentDone(k)

\* The CallbackAgent takes something: it writes it, or it is no Failed about k,
\* or it is lost.
Fires(k) ==
    /\ SameCic /\ SameCmd(k)
    /\ rx[k[2]] # <<>> /\ rx'[k[2]] = Tail(rx[k[2]])
    /\ \/ SameSocket(k) /\ (Head(rx[k[2]]) # Told(k, "Failed") \/ Lost(k)')
       \/ /\ Head(rx[k[2]]) \in EventType
          /\ socket'[k[2]] = Append(socket[k[2]], Head(rx[k[2]]))

\* The CallbackActor takes an event: it forwards it, or it is lost.
Forwards(k) ==
    /\ SameRx(k) /\ SameCmd(k)
    /\ socket[k[2]] # <<>> /\ socket'[k[2]] = Tail(socket[k[2]])
    /\ \/ cic_rx' = Append(cic_rx, [role |-> k[2], event |-> Head(socket[k[2]])])
       \/ SameCic /\ (Head(socket[k[2]]) # Told(k, "Failed") \/ Lost(k)')

\* The CIC gets a message that is no Done about k.
Reaches(k) ==
    /\ SameRx(k) /\ SameSocket(k) /\ SameCmd(k)
    /\ \E m \in CicMsg : m # Forwarded(k, "Done") /\ cic_rx' = Append(cic_rx, m)

\* The CIC takes a message: it is no Failed about k, or k gets it, or k reads no
\* more commands.
Routes(k) ==
    /\ SameRx(k) /\ SameSocket(k)
    /\ cic_rx # <<>> /\ cic_rx' = Tail(cic_rx)
    /\ \/ /\ Head(cic_rx) # Forwarded(k, "Failed")
          /\ SameCmd(k) \/ cmd_rx'[k] = Append(cmd_rx[k], "Port")
       \/ \E op \in {"Done", "Failed"} :
             Head(cic_rx) = Forwarded(k, op) /\ cmd_rx'[k] = Append(cmd_rx[k], op)
       \/ ~Listening(k) /\ SameCmd(k)

\* The tuner gets a command of a timer, takes a command, or decides.
Orders(k) ==
    /\ SameRx(k) /\ SameSocket(k) /\ SameCic
    /\ \/ SameCmd(k)
       \/ \E op \in {"Shutdown", "Kill"} : cmd_rx'[k] = Append(cmd_rx[k], op)
       \/ /\ cmd_rx[k] # <<>> /\ cmd_rx'[k] = Tail(cmd_rx[k])
          /\ Head(cmd_rx[k]) = "Failed" => tuner[k] = "port"
       \/ tuner'[k] = "report" /\ cmd_rx'[k] = <<>>

\* The program is over.
Ends(k) == ~Alive' /\ SameRx(k) /\ SameSocket(k) /\ cic_rx' = <<>> /\ cmd_rx'[k] = <<>>

Flow(k) ==
    \/ Tells(k) \/ Fires(k) \/ Forwards(k) \/ Reaches(k) \/ Routes(k) \/ Orders(k) \/ Ends(k)

\* An agent tells its client something.
LEMMA EmitFlow ==
  ASSUME TypeOK, NEW j \in Keys, NEW k \in Keys, NEW st, NEW op \in {"Started", "Done", "Failed"},
         Emit(j, st, op), j = k /\ op = "Done" => AgentDone(k)
  PROVE  Flow(k)
<1>1. SameSocket(k) /\ SameCic /\ SameCmd(k)
  BY Zenon DEF Emit, SameSocket, SameCic, SameCmd
<1>2. /\ j[1] \in Streams /\ j[2] \in Agents /\ j = <<j[1], j[2]>>
      /\ k[1] \in Streams /\ k[2] \in Agents /\ k = <<k[1], k[2]>>
  BY KeyTypes, Zenon
<1>3. rx' = [rx EXCEPT ![j[2]] = Append(@, Told(j, op))] BY Zenon DEF Emit, send, Told
<1>4. rx \in [Agents -> Seq(CallbackCmd)] BY Zenon DEF TypeOK
<1>5. CASE j[2] # k[2]
  <2>1. SameRx(k) BY <1>2, <1>3, <1>4, <1>5 DEF SameRx
  <2> QED BY <1>1, <2>1, Zenon DEF Flow, Orders
<1>6. CASE j[2] = k[2]
  <2>1. rx'[k[2]] = Append(rx[k[2]], Told(j, op)) BY <1>2, <1>3, <1>4, <1>6
  <2>2. Told(j, op) \in CallbackCmd BY EventNames, Zenon DEF CallbackCmd
  <2>3. Told(j, op) = Told(k, "Done") => j[1] = k[1] /\ op = "Done" BY DEF Told, Event
  <2>4. Told(j, op) = Told(k, "Done") => j = k /\ op = "Done" BY <1>2, <1>6, <2>3, Zenon
  <2> QED BY <1>1, <2>1, <2>2, <2>4, Zenon DEF Flow, Tells
<1> QED BY <1>5, <1>6, Zenon

\* An agent's step.
LEMMA AgentFlow ==
  ASSUME TypeOK, NEW j \in Keys, AgentStep(j) \/ (j[2] = "Sender" /\ AgentReadError(j[1])),
         NEW k \in Keys
  PROVE  Flow(k)
<1>1. "Started" # "Done" /\ "Failed" # "Done" OBVIOUS
<1>2. \E st : \E op \in {"Started", "Done", "Failed"} :
        Emit(j, st, op) /\ (op = "Done" => AgentDone(j))
  BY <1>1, AgentEmits, Zenon
<1> QED BY <1>2, EmitFlow, Zenon

\* A step of a CallbackAgent or of its ping timer.
LEMMA CallbackFlow ==
  ASSUME TypeOK, NEW a \in Agents, CallbackStep(a) \/ PingStep(a), NEW k \in Keys
  PROVE  Flow(k)
<1>1. SameCic /\ SameCmd(k) BY Zenon DEF CallbackStep, PingStep, SameCic, SameCmd
<1>2. k[1] \in Streams /\ k[2] \in Agents /\ k = <<k[1], k[2]>> BY KeyTypes, Zenon
<1>3. rx \in [Agents -> Seq(CallbackCmd)] /\ socket \in [Agents -> Seq(EventType)]
  BY Zenon DEF TypeOK
<1>4. CASE a # k[2]
  <2>1. rx' = rx \/ \E v : rx' = [rx EXCEPT ![a] = v]
    BY Zenon DEF CallbackStep, PingStep, run, RunRegister, RunPing, PingReturns, fire, Take,
       PingTimer, send
  <2>2. socket' = socket \/ \E v : socket' = [socket EXCEPT ![a] = v]
    BY Zenon DEF CallbackStep, PingStep, run, RunRegister, RunPing, PingReturns, fire,
       PingTimer
  <2>3. SameRx(k) BY <1>2, <1>3, <1>4, <2>1 DEF SameRx
  <2>4. SameSocket(k) BY <1>2, <1>3, <1>4, <2>2 DEF SameSocket
  <2> QED BY <1>1, <2>3, <2>4, Zenon DEF Flow, Orders
<1>5. ASSUME a = k[2] PROVE Flow(k)
  <2>1. CASE PingStep(a)
    <3>1. rx' = [rx EXCEPT ![a] = Append(@, Ping)] /\ socket' = socket
      BY <2>1, Zenon DEF PingStep, PingTimer, send
    <3>2. rx'[k[2]] = Append(rx[k[2]], Ping) /\ SameSocket(k)
      BY <1>2, <1>3, <1>5, <3>1 DEF SameSocket
    <3>3. Ping \in CallbackCmd /\ Ping # Told(k, "Done")
      <4>1. Ping.op = "Ping" /\ Told(k, "Done").op = "Done" BY Zenon DEF Ping, Told, Event
      <4> QED BY <4>1 DEF CallbackCmd
    <3> QED BY <1>1, <3>2, <3>3, Zenon DEF Flow, Tells
  <2>2. CASE PingReturns(a) /\ CallbackStep(a)
    <3>1. SameRx(k) /\ SameSocket(k) BY <2>2, Zenon DEF PingReturns, SameRx, SameSocket
    <3> QED BY <1>1, <3>1, Zenon DEF Flow, Orders
  <2>3. ASSUME rx[a] # <<>>, Take(a) PROVE rx[k[2]] # <<>> /\ rx'[k[2]] = Tail(rx[k[2]])
    BY <1>2, <1>3, <1>5, <2>3 DEF Take
  <2>4. CASE RunRegister(a) \/ RunPing(a)
    <3>1. rx[a] # <<>> /\ Take(a) BY <2>4, Zenon DEF RunRegister, RunPing, Received
    <3>2. Head(rx[a]).op \in {"Register", "Ping"} BY <2>4 DEF RunRegister, RunPing, Received
    <3>3. Told(k, "Failed").op = "Failed" BY Zenon DEF Told, Event
    <3>4. Head(rx[k[2]]) # Told(k, "Failed") BY <1>5, <3>2, <3>3
    <3>5. SameSocket(k) BY <2>4, Zenon DEF RunRegister, RunPing, SameSocket
    <3> QED BY <1>1, <2>3, <3>1, <3>4, <3>5, Zenon DEF Flow, Fires
  <2>5. CASE fire(a)
    <3>1. rx[a] # <<>> /\ Take(a) /\ IsEvent(Head(rx[a])) BY <2>5, Zenon DEF fire
    <3>2. Head(rx[k[2]]) \in EventType BY <1>5, <3>1, FiredType, Zenon
    <3>3. CASE socket' = [socket EXCEPT ![a] = Append(@, Head(rx[a]))]
      <4>1. socket'[k[2]] = Append(socket[k[2]], Head(rx[k[2]])) BY <1>2, <1>3, <1>5, <3>3
      <4> QED BY <1>1, <2>3, <3>1, <3>2, <4>1, Zenon DEF Flow, Fires
    <3>4. CASE socket' = socket /\ Drop(a, Head(rx[a]))
      <4>1. Told(k, "Failed").uuid = k[1] BY Zenon DEF Told, Event
      <4>2. Head(rx[k[2]]) = Told(k, "Failed") => Lost(k)'
        BY <1>2, <1>5, <3>4, <4>1 DEF Drop, Lost
      <4> QED BY <1>1, <2>3, <3>1, <3>4, <4>2, Zenon DEF Flow, Fires, SameSocket
    <3> QED BY <2>5, <3>3, <3>4, Zenon DEF fire
  <2> QED BY <2>1, <2>2, <2>4, <2>5, Zenon DEF CallbackStep, run
<1> QED BY <1>4, <1>5, Zenon

\* A step of the CallbackActor.
LEMMA ForwardFlow ==
  ASSUME TypeOK, NEW a \in Agents, Forward(a), NEW k \in Keys
  PROVE  Flow(k)
<1>1. SameRx(k) /\ SameCmd(k) BY Zenon DEF Forward, SameRx, SameCmd
<1>2. k[1] \in Streams /\ k[2] \in Agents /\ k = <<k[1], k[2]>> BY KeyTypes, Zenon
<1>3. socket \in [Agents -> Seq(EventType)] BY Zenon DEF TypeOK
<1>4. socket[a] # <<>> /\ socket' = [socket EXCEPT ![a] = Tail(@)] BY Zenon DEF Forward
<1>5. CASE a # k[2]
  <2>1. SameSocket(k) BY <1>2, <1>3, <1>4, <1>5 DEF SameSocket
  <2>2. CASE cic_rx' = cic_rx BY <1>1, <2>1, <2>2, Zenon DEF Flow, Orders, SameCic
  <2>3. CASE cic_rx' = Append(cic_rx, [role |-> a, event |-> Head(socket[a])])
    <3>1. Head(socket[a]) \in EventType BY <1>3, <1>4, QueueTypes, Zenon
    <3>2. [role |-> a, event |-> Head(socket[a])] \in CicMsg BY <3>1, BwCapAssumption DEF CicMsg
    <3>3. Forwarded(k, "Done").role = k[2] BY Zenon DEF Forwarded
    <3>4. [role |-> a, event |-> Head(socket[a])] # Forwarded(k, "Done") BY <1>5, <3>3
    <3> QED BY <1>1, <2>1, <2>3, <3>2, <3>4, Zenon DEF Flow, Reaches
  <2> QED BY <2>2, <2>3, Zenon DEF Forward
<1>6. CASE a = k[2]
  <2>1. socket[k[2]] # <<>> /\ socket'[k[2]] = Tail(socket[k[2]]) BY <1>2, <1>3, <1>4, <1>6
  <2>2. CASE cic_rx' = Append(cic_rx, [role |-> a, event |-> Head(socket[a])])
    BY <1>1, <1>6, <2>1, <2>2, Zenon DEF Flow, Forwards
  <2>3. CASE Drop(a, Head(socket[a])) /\ cic_rx' = cic_rx
    <3>1. Told(k, "Failed").uuid = k[1] BY Zenon DEF Told, Event
    <3>2. Head(socket[k[2]]) = Told(k, "Failed") => Lost(k)'
      BY <1>2, <1>6, <2>3, <3>1 DEF Drop, Lost
    <3> QED BY <1>1, <2>1, <2>3, <3>2, Zenon DEF Flow, Forwards, SameCic
  <2> QED BY <2>2, <2>3, Zenon DEF Forward
<1> QED BY <1>5, <1>6, Zenon

\* A tuner's step.
LEMMA TunerFlow ==
  ASSUME TypeOK, NEW j \in Keys, TunerStep(j), NEW k \in Keys
  PROVE  Flow(k)
<1>1. SameRx(k) /\ SameSocket(k) BY TunerSteps, Zenon DEF SameRx, SameSocket
<1>2. cmd_rx \in [Keys -> Seq(TunerCmd)] /\ DOMAIN tuner = Keys BY DEF TypeOK
<1>3. CASE GoesOn(j)
  <2>1. SameCic BY <1>3, Zenon DEF GoesOn, SameCic
  <2>2. cmd_rx' = [cmd_rx EXCEPT ![j] = Tail(@)] BY <1>3, Zenon DEF GoesOn, TakeCmd
  <2>3. CASE j # k
    <3>1. SameCmd(k) BY <1>2, <2>2, <2>3 DEF SameCmd
    <3> QED BY <1>1, <2>1, <3>1, Zenon DEF Flow, Orders
  <2>4. CASE j = k
    <3>1. cmd_rx'[k] = Tail(cmd_rx[k]) BY <1>2, <2>2, <2>4
    <3> QED BY <1>1, <1>3, <2>1, <2>4, <3>1, Zenon DEF Flow, Orders, GoesOn
  <2> QED BY <2>3, <2>4, Zenon
<1>4. ASSUME NEW o, Decides(j, o) PROVE Flow(k)
  <2>1. SameCic BY <1>4, Zenon DEF Decides, SameCic
  <2>2. cmd_rx' = [cmd_rx EXCEPT ![j] = <<>>] /\ tuner' = [tuner EXCEPT ![j] = "report"]
    BY <1>4, Zenon DEF Decides, Report, Goto
  <2>3. CASE j # k
    <3>1. SameCmd(k) BY <1>2, <2>2, <2>3 DEF SameCmd
    <3> QED BY <1>1, <2>1, <3>1, Zenon DEF Flow, Orders
  <2>4. CASE j = k
    <3>1. cmd_rx'[k] = <<>> /\ tuner'[k] = "report" BY <1>2, <2>2, <2>4
    <3> QED BY <1>1, <2>1, <3>1, Zenon DEF Flow, Orders
  <2> QED BY <2>3, <2>4, Zenon
<1>5. CASE finish(j)
  <2>1. SameCmd(k) BY <1>5, Zenon DEF finish, SameCmd
  <2>2. \A m : m.event.op = "Finished" => m # Forwarded(k, "Done")
    <3>1. Forwarded(k, "Done").event.op = "Done" BY Zenon DEF Forwarded, Told, Event
    <3>2. "Done" # "Finished" OBVIOUS
    <3> QED BY <3>1, <3>2, Zenon
  <2>3. cic_rx' \in Seq(CicMsg) BY TunerTypes, Zenon DEF TypeOK
  <2>4. j[1] \in Streams /\ j[2] \in Roles /\ outcome[j] \in {"none", "Pass", "Fail"}
    <3>1. j[1] \in Streams /\ j[2] \in Roles BY KeyTypes, Zenon
    <3> QED BY <3>1 DEF TypeOK
  <2>5. [op |-> "Finished", uuid |-> j[1], outcome |-> outcome[j]] \in ReportType
    BY <2>4 DEF ReportType
  <2>6. ASSUME NEW e \in ReportType, cic_rx' = Append(cic_rx, [role |-> j[2], event |-> e])
        PROVE  Reaches(k)
    <3>1. [role |-> j[2], event |-> e] \in CicMsg BY <2>4 DEF CicMsg
    <3>2. [role |-> j[2], event |-> e].event.op = "Finished" BY DEF ReportType
    <3> QED BY <1>1, <2>1, <2>2, <2>6, <3>1, <3>2, Zenon DEF Reaches
  <2> QED BY <1>5, <2>5, <2>6, Zenon DEF Flow, finish
<1> QED BY <1>3, <1>4, <1>5, TunerSteps, Zenon

\* A command of the CIC.
LEMMA DeliverFlow ==
  ASSUME NEW ks, NEW op, Deliver(ks, op), NEW k \in Keys
  PROVE  IF k \in ks /\ Listening(k) THEN cmd_rx'[k] = Append(cmd_rx[k], op) ELSE SameCmd(k)
  BY DEF Deliver, SameCmd

\* The CIC takes a message.
LEMMA MessageFlow ==
  ASSUME TypeOK, CicMessage, NEW k \in Keys
  PROVE  Flow(k)
<1>1. SameRx(k) /\ SameSocket(k)
  BY Zenon DEF CicMessage, CicStarted, CicDone, CicFailed, CicFinished, SameRx, SameSocket
<1>2. cic_rx # <<>> /\ cic_rx' = Tail(cic_rx)
  BY Zenon DEF CicMessage, CicStarted, CicDone, CicFailed, CicFinished, Message
<1>3. \A op : Forwarded(k, op).event.op = op BY Zenon DEF Forwarded, Told, Event
<1>4. "Failed" # "Started" /\ "Failed" # "Done" /\ "Failed" # "Finished" OBVIOUS
<1>5. CASE CicStarted
  <2>1. Head(cic_rx) # Forwarded(k, "Failed") BY <1>3, <1>4, <1>5, Zenon DEF CicStarted, Message
  <2>2. SameCmd(k) \/ cmd_rx'[k] = Append(cmd_rx[k], "Port")
    BY <1>5, DeliverFlow, Zenon DEF CicStarted
  <2> QED BY <1>1, <1>2, <2>1, <2>2, Zenon DEF Flow, Routes
<1>6. ASSUME NEW op \in {"Done", "Failed"}, Message(op), route(MsgKey, op) PROVE Flow(k)
  <2>1. CASE MsgKey = k
    <3>1. IF Listening(k) THEN cmd_rx'[k] = Append(cmd_rx[k], op) ELSE SameCmd(k)
      <4>1. k \in {MsgKey} BY <2>1, Zenon
      <4> QED BY <1>6, <4>1, DeliverFlow, Zenon DEF route
    <3>2. Head(cic_rx) = Forwarded(k, op)
      <4>1. /\ Head(cic_rx) \in CicMsg
            /\ k[1] = Head(cic_rx).event.uuid /\ k[2] = Head(cic_rx).role
            /\ Head(cic_rx).event.op # "Finished" => Head(cic_rx).event \in EventType
        BY <1>2, <2>1, MessageTypes, Zenon
      <4>2. Head(cic_rx).event.op = op BY <1>6, Zenon DEF Message
      <4>3. Head(cic_rx).event \in EventType BY <1>6, <4>1, <4>2
      <4>4. Head(cic_rx).event = Event(op, k[1]) BY <4>1, <4>2, <4>3 DEF EventType, Event
      <4>5. Head(cic_rx) = [role |-> k[2], event |-> Head(cic_rx).event] BY <4>1 DEF CicMsg
      <4> QED BY <4>4, <4>5, Zenon DEF Forwarded, Told
    <3> QED BY <1>1, <1>2, <3>1, <3>2, Zenon DEF Flow, Routes
  <2>2. CASE MsgKey # k
    <3>1. k \notin {MsgKey} BY <2>2, Zenon
    <3>3. SameCmd(k) BY <1>6, <3>1, DeliverFlow, Zenon DEF route
    <3>2. Head(cic_rx) # Forwarded(k, "Failed")
      <4>1. Forwarded(k, "Failed").event.uuid = k[1] /\ Forwarded(k, "Failed").role = k[2]
        BY Zenon DEF Forwarded, Told, Event
      <4>2. k = <<k[1], k[2]>> BY KeyTypes, Zenon
      <4> QED BY <2>2, <4>1, <4>2, Zenon DEF MsgKey
    <3> QED BY <1>1, <1>2, <3>2, <3>3, Zenon DEF Flow, Routes
  <2> QED BY <2>1, <2>2, Zenon
<1>7. CASE CicFinished
  <2>1. Head(cic_rx) # Forwarded(k, "Failed") BY <1>3, <1>4, <1>7, Zenon DEF CicFinished, Message
  <2>2. SameCmd(k) BY <1>7, Zenon DEF CicFinished, SameCmd
  <2> QED BY <1>1, <1>2, <2>1, <2>2, Zenon DEF Flow, Routes
<1> QED BY <1>5, <1>6, <1>7, Zenon DEF CicMessage, CicDone, CicFailed

\* Every step moves the events about a tuner in one of these ways.
LEMMA FlowStep ==
  ASSUME TypeOK, Next, NEW k \in Keys
  PROVE  Flow(k)
<1>1. ASSUME NEW u \in Streams,
             StreamStart(u) \/ StreamRefused(u) \/ WormholeDone(u) \/ WriterExhausts(u)
      PROVE  Flow(k)
  BY <1>1, Zenon DEF StreamStart, StreamRefused, WormholeDone, WriterExhausts, TunerRest,
     Flow, Orders, SameRx, SameSocket, SameCic, SameCmd
<1>2. CASE RunCic BY <1>2, Zenon DEF RunCic, Flow, Orders, SameRx, SameSocket, SameCic, SameCmd
<1>3. CASE DurationElapsed \/ Failsafe
  <2>1. SameRx(k) /\ SameSocket(k) /\ SameCic
    BY <1>3, Zenon DEF DurationElapsed, Failsafe, SameRx, SameSocket, SameCic
  <2>2. \E ks : \E op \in {"Shutdown", "Kill"} : Deliver(ks, op)
    BY <1>3, Zenon DEF DurationElapsed, Failsafe, shutdown_senders
  <2>3. SameCmd(k) \/ \E op \in {"Shutdown", "Kill"} : cmd_rx'[k] = Append(cmd_rx[k], op)
    BY <2>2, DeliverFlow, Zenon
  <2> QED BY <2>1, <2>3, Zenon DEF Flow, Orders
<1>4. CASE CicReturn
  <2>1. SameRx(k) /\ SameSocket(k) /\ cic_rx' = <<>> BY <1>4, Zenon DEF CicReturn, SameRx, SameSocket
  <2>2. cmd_rx'[k] = <<>> BY <1>4 DEF CicReturn
  <2>3. ~Alive' BY <1>4, Zenon DEF CicReturn, Alive
  <2> QED BY <2>1, <2>2, <2>3, Zenon DEF Flow, Ends
<1> QED BY <1>1, <1>2, <1>3, <1>4, Steps, CallbackFlow, ForwardFlow, AgentFlow, TunerFlow,
           MessageFlow, Zenon

\* The four queues of k, typed.
LEMMA FlowTypes ==
  ASSUME TypeOK, NEW k \in Keys
  PROVE  /\ rx[k[2]] \in Seq(CallbackCmd) /\ socket[k[2]] \in Seq(EventType)
         /\ cic_rx \in Seq(CicMsg) /\ cmd_rx[k] \in Seq(TunerCmd)
<1>1. k[2] \in Agents BY KeyTypes, Zenon
<1> QED BY <1>1 DEF TypeOK

\* A Done about k enters its way only by AgentDone.
LEMMA DoneFlow ==
  ASSUME TypeOK, NEW k \in Keys, Flow(k), OnTheWay(k, "Done")'
  PROVE  OnTheWay(k, "Done") \/ AgentDone(k)
<1>t. /\ rx[k[2]] \in Seq(CallbackCmd) /\ socket[k[2]] \in Seq(EventType)
      /\ cic_rx \in Seq(CicMsg) /\ cmd_rx[k] \in Seq(TunerCmd)
  BY FlowTypes, Zenon
<1>d. InFlight(k, "Done", rx'[k[2]], socket'[k[2]], cic_rx', cmd_rx'[k])
  BY Zenon DEF OnTheWay
<1>e. \A x : ~Has(<<>>, x) BY EmptyQueue, Zenon
<1>c. \A op \in TunerCmd : \A x : Has(Append(cmd_rx[k], op), x) <=> Has(cmd_rx[k], x) \/ op = x
  BY <1>t, HasAppend, Zenon
<1>n. {"Port", "Done", "Failed", "Shutdown", "Kill"} = TunerCmd BY DEF TunerCmd
<1>1. CASE Tells(k)
  <2>1. \A e \in CallbackCmd : \A x : Has(Append(rx[k[2]], e), x) <=> Has(rx[k[2]], x) \/ e = x
    BY <1>t, HasAppend, Zenon
  <2> QED BY <1>1, <1>d, <2>1, Zenon DEF Tells, SameSocket, SameCic, SameCmd, OnTheWay, InFlight
<1>2. CASE Fires(k)
  <2>1. \A x : Has(rx[k[2]], x) <=> Head(rx[k[2]]) = x \/ Has(Tail(rx[k[2]]), x)
    BY <1>2, <1>t, HasTail, Zenon DEF Fires
  <2>2. \A e \in EventType : \A x : Has(Append(socket[k[2]], e), x) <=> Has(socket[k[2]], x) \/ e = x
    BY <1>t, HasAppend, Zenon
  <2> QED BY <1>2, <1>d, <2>1, <2>2, Zenon DEF Fires, SameSocket, SameCic, SameCmd, OnTheWay, InFlight
<1>3. CASE Forwards(k)
  <2>1. \A x : Has(socket[k[2]], x) <=> Head(socket[k[2]]) = x \/ Has(Tail(socket[k[2]]), x)
    BY <1>3, <1>t, HasTail, Zenon DEF Forwards
  <2>2. Head(socket[k[2]]) \in EventType BY <1>3, <1>t DEF Forwards
  <2>3. k[2] \in Roles BY KeyTypes, Zenon
  <2>4. [role |-> k[2], event |-> Head(socket[k[2]])] \in CicMsg BY <2>2, <2>3 DEF CicMsg
  <2>5. \A m \in CicMsg : \A x : Has(Append(cic_rx, m), x) <=> Has(cic_rx, x) \/ m = x
    BY <1>t, HasAppend, Zenon
  <2>6. Has(cic_rx', Forwarded(k, "Done")) =>
           Has(cic_rx, Forwarded(k, "Done")) \/ Has(socket[k[2]], Told(k, "Done"))
    <3>1. Has(Append(cic_rx, [role |-> k[2], event |-> Head(socket[k[2]])]), Forwarded(k, "Done"))
             <=> \/ Has(cic_rx, Forwarded(k, "Done"))
                 \/ [role |-> k[2], event |-> Head(socket[k[2]])] = Forwarded(k, "Done")
      BY <2>4, <2>5, Zenon
    <3>2. [role |-> k[2], event |-> Head(socket[k[2]])] = Forwarded(k, "Done")
             <=> Head(socket[k[2]]) = Told(k, "Done")
      BY EventNames, Zenon
    <3>3. SameCic \/ cic_rx' = Append(cic_rx, [role |-> k[2], event |-> Head(socket[k[2]])])
      BY <1>3, Zenon DEF Forwards
    <3> QED BY <2>1, <3>1, <3>2, <3>3, Zenon DEF SameCic
  <2> QED BY <1>3, <1>d, <2>1, <2>6, Zenon DEF Forwards, SameRx, SameCmd, OnTheWay, InFlight
<1>4. CASE Reaches(k)
  <2>1. \A m \in CicMsg : \A x : Has(Append(cic_rx, m), x) <=> Has(cic_rx, x) \/ m = x
    BY <1>t, HasAppend, Zenon
  <2>2. Has(cic_rx', Forwarded(k, "Done")) => Has(cic_rx, Forwarded(k, "Done"))
    <3>1. ASSUME NEW m \in CicMsg, m # Forwarded(k, "Done"), cic_rx' = Append(cic_rx, m),
                 Has(cic_rx', Forwarded(k, "Done"))
          PROVE  Has(cic_rx, Forwarded(k, "Done"))
      <4>1. Has(Append(cic_rx, m), Forwarded(k, "Done"))
               <=> Has(cic_rx, Forwarded(k, "Done")) \/ m = Forwarded(k, "Done")
        BY <2>1, Zenon
      <4> QED BY <3>1, <4>1, Zenon
    <3> QED BY <1>4, <3>1, Zenon DEF Reaches
  <2> QED BY <1>4, <1>d, <2>2, Zenon DEF Reaches, SameRx, SameSocket, SameCmd, OnTheWay, InFlight
<1>5. CASE Routes(k)
  <2>1. \A x : Has(cic_rx, x) <=> Head(cic_rx) = x \/ Has(Tail(cic_rx), x)
    BY <1>5, <1>t, HasTail, Zenon DEF Routes
  <2>2. Has(cmd_rx'[k], "Done") => Has(cmd_rx[k], "Done") \/ Has(cic_rx, Forwarded(k, "Done"))
    <3>1. \/ SameCmd(k) \/ cmd_rx'[k] = Append(cmd_rx[k], "Port")
          \/ cmd_rx'[k] = Append(cmd_rx[k], "Failed")
          \/ Head(cic_rx) = Forwarded(k, "Done")
      BY <1>5, Zenon DEF Routes
    <3>2. "Port" \in TunerCmd /\ "Failed" \in TunerCmd /\ "Port" # "Done" /\ "Failed" # "Done"
      BY <1>n
    <3>3. \A op \in {"Port", "Failed"} : Has(Append(cmd_rx[k], op), "Done") => Has(cmd_rx[k], "Done")
      BY <1>c, <3>2, Zenon
    <3> QED BY <2>1, <3>1, <3>3, Zenon DEF SameCmd
  <2> QED BY <1>5, <1>d, <2>1, <2>2, Zenon DEF Routes, SameRx, SameSocket, OnTheWay, InFlight
<1>6. CASE Orders(k)
  <2>1. Has(cmd_rx'[k], "Done") => Has(cmd_rx[k], "Done")
    <3>1. "Shutdown" \in TunerCmd /\ "Kill" \in TunerCmd /\ "Shutdown" # "Done" /\ "Kill" # "Done"
      BY <1>n
    <3>2. cmd_rx[k] # <<>> => (Has(Tail(cmd_rx[k]), "Done") => Has(cmd_rx[k], "Done"))
      BY <1>t, HasTail, Zenon
    <3>3. \/ SameCmd(k) \/ cmd_rx'[k] = <<>>
          \/ cmd_rx'[k] = Append(cmd_rx[k], "Shutdown") \/ cmd_rx'[k] = Append(cmd_rx[k], "Kill")
          \/ cmd_rx[k] # <<>> /\ cmd_rx'[k] = Tail(cmd_rx[k])
      BY <1>6, Zenon DEF Orders
    <3>4. \A op \in {"Shutdown", "Kill"} : Has(Append(cmd_rx[k], op), "Done") => Has(cmd_rx[k], "Done")
      BY <1>c, <3>1, Zenon
    <3> QED BY <1>e, <3>2, <3>3, <3>4, Zenon DEF SameCmd
  <2> QED BY <1>6, <1>d, <2>1, Zenon DEF Orders, SameRx, SameSocket, SameCic, OnTheWay, InFlight
<1>7. CASE Ends(k)
  BY <1>7, <1>d, <1>e, Zenon DEF Ends, SameRx, SameSocket, OnTheWay, InFlight
<1> QED BY <1>1, <1>2, <1>3, <1>4, <1>5, <1>6, <1>7, Zenon DEF Flow

\* A Failed about k that is on its way stays ahead of every Done, unless it is
\* lost, the tuner has decided or the program is over.
LEMMA OrderFlow ==
  ASSUME TypeOK, NEW k \in Keys, Flow(k), tuner[k] # "port", Listening(k), Alive',
         ~Lost(k)', tuner'[k] # "report",
         InOrder(k, rx[k[2]], socket[k[2]], cic_rx, cmd_rx[k])
  PROVE  InOrder(k, rx'[k[2]], socket'[k[2]], cic_rx', cmd_rx'[k])
<1>t. /\ rx[k[2]] \in Seq(CallbackCmd) /\ socket[k[2]] \in Seq(EventType)
      /\ cic_rx \in Seq(CicMsg) /\ cmd_rx[k] \in Seq(TunerCmd)
  BY FlowTypes, Zenon
<1>n. {"Port", "Done", "Failed", "Shutdown", "Kill"} = TunerCmd BY DEF TunerCmd
<1>1. CASE Tells(k) BY <1>1, <1>t, OrderRxAdd, Zenon DEF Tells, SameSocket, SameCic, SameCmd
<1>2. CASE Fires(k)
  BY <1>2, <1>t, OrderRxTake, OrderRxMove, Zenon DEF Fires, SameSocket, SameCic, SameCmd
<1>3. CASE Forwards(k)
  BY <1>3, <1>t, OrderSocketTake, OrderSocketMove, Zenon DEF Forwards, SameRx, SameCic, SameCmd
<1>4. CASE Reaches(k) BY <1>4, <1>t, OrderCicAdd, Zenon DEF Reaches, SameRx, SameSocket, SameCmd
<1>5. CASE Routes(k)
  <2>1. "Port" \in TunerCmd /\ "Port" # "Done" BY <1>n
  <2>2. CASE Head(cic_rx) # Forwarded(k, "Failed")
             /\ (SameCmd(k) \/ cmd_rx'[k] = Append(cmd_rx[k], "Port"))
    <3>1. InOrder(k, rx[k[2]], socket[k[2]], Tail(cic_rx), cmd_rx[k])
      BY <1>5, <1>t, <2>2, OrderCicTake, Zenon DEF Routes
    <3>2. Tail(cic_rx) \in Seq(CicMsg) BY <1>5, <1>t DEF Routes
    <3>3. InOrder(k, rx[k[2]], socket[k[2]], Tail(cic_rx), Append(cmd_rx[k], "Port"))
      BY <1>t, <2>1, <3>1, <3>2, OrderCmdAdd, Zenon
    <3> QED BY <1>5, <2>2, <3>1, <3>3, Zenon DEF Routes, SameRx, SameSocket, SameCmd
  <2>3. ASSUME NEW op \in {"Done", "Failed"}, Head(cic_rx) = Forwarded(k, op),
               cmd_rx'[k] = Append(cmd_rx[k], op)
        PROVE  InOrder(k, rx'[k[2]], socket'[k[2]], cic_rx', cmd_rx'[k])
    BY <1>5, <1>t, <2>3, OrderCicMove, Zenon DEF Routes, SameRx, SameSocket
  <2> QED BY <1>5, <2>2, <2>3, Zenon DEF Routes
<1>6. CASE Orders(k)
  <2>1. "Shutdown" \in TunerCmd /\ "Kill" \in TunerCmd /\ "Shutdown" # "Done" /\ "Kill" # "Done"
    BY <1>n
  <2>2. InOrder(k, rx[k[2]], socket[k[2]], cic_rx, cmd_rx'[k])
    BY <1>6, <1>t, <2>1, OrderCmdAdd, OrderCmdTake, Zenon DEF Orders, SameCmd
  <2> QED BY <1>6, <2>2, Zenon DEF Orders, SameRx, SameSocket, SameCic
<1> QED BY <1>1, <1>2, <1>3, <1>4, <1>5, <1>6, Zenon DEF Flow, Ends

-----------------------------------------------------------------------------
(* What a step does to an agent's and to a tuner's state *)

\* Only the agents' own steps change what they have told.
LEMMA AgentMoves ==
  ASSUME TypeOK, Next, NEW k \in Keys
  PROVE  \/ agent'[k] = agent[k]
         \/ agent[k] = "none" /\ agent'[k] = "started"
         \/ Running(k) /\ agent'[k] = "failed"
         \/ agent[k] = "started" /\ agent'[k] = "closing"
         \/ AgentDone(k) /\ agent'[k] = IF agent[k] = "read_error" THEN "late_done" ELSE "done"
         \/ k[2] = "Sender" /\ AgentReadError(k[1]) /\ agent'[k] = "read_error"
<1>1. CASE agent' = agent BY <1>1, Zenon
<1>2. ASSUME NEW j \in Keys, AgentStep(j) \/ (j[2] = "Sender" /\ AgentReadError(j[1])), j # k
      PROVE  agent'[k] = agent[k]
  <2>1. \E st : agent' = [agent EXCEPT ![j] = st] BY <1>2, AgentEmits, Zenon DEF Emit
  <2> QED BY <1>2, <2>1 DEF TypeOK
<1>3. CASE AgentStep(k) \/ (k[2] = "Sender" /\ AgentReadError(k[1]))
  <2>1. \A st : agent' = [agent EXCEPT ![k] = st] => agent'[k] = st BY DEF TypeOK
  <2>2. k = <<k[1], k[2]>> BY KeyTypes, Zenon
  <2>3. CASE AgentStarted(k) BY <2>1, <2>3, Zenon DEF AgentStarted, Emit
  <2>4. CASE AgentDone(k)
    <3>1. agent' = [agent EXCEPT ![k] = IF agent[k] = "read_error" THEN "late_done" ELSE "done"]
      BY <2>4, Zenon DEF AgentDone, Emit
    <3> QED BY <2>1, <2>4, <3>1, Zenon
  <2>5. CASE AgentFailed(k) BY <2>1, <2>5, Zenon DEF AgentFailed, Emit
  <2>6. CASE k[2] = "Sender" /\ AgentReadError(k[1])
    BY <2>1, <2>2, <2>6, Zenon DEF AgentReadError, Emit
  <2> QED BY <1>3, <2>3, <2>4, <2>5, <2>6, Zenon DEF AgentStep
<1>4. ASSUME NEW a \in Agents, CallbackStep(a) \/ PingStep(a) \/ Forward(a) PROVE agent' = agent
  BY <1>4, Zenon DEF CallbackStep, PingStep, Forward
<1>5. ASSUME NEW j \in Keys, TunerStep(j) PROVE agent' = agent BY <1>5, TunerSteps, Zenon
<1>6. ASSUME NEW u \in Streams, StreamStart(u) \/ StreamRefused(u) \/ WriterExhausts(u)
      PROVE  agent' = agent
  BY <1>6, Zenon DEF StreamStart, StreamRefused, WriterExhausts, TunerRest
<1>8. ASSUME NEW u \in Streams, WormholeDone(u)
      PROVE  agent'[k] = agent[k] \/ (agent[k] = "started" /\ agent'[k] = "closing")
  <2>1. /\ agent[<<u, "Receiver">>] = "started"
        /\ agent' = [agent EXCEPT ![<<u, "Receiver">>] = "closing"]
    BY <1>8, Zenon DEF WormholeDone
  <2>2. CASE k = <<u, "Receiver">> BY <2>1, <2>2 DEF TypeOK
  <2>3. CASE k # <<u, "Receiver">> BY <2>1, <2>3 DEF TypeOK
  <2> QED BY <2>2, <2>3, Zenon
<1>7. CASE RunCic \/ CicMessage \/ DurationElapsed \/ Failsafe \/ CicReturn
  BY <1>1, <1>7, Zenon DEF RunCic, CicMessage, CicStarted, CicDone, CicFailed, CicFinished,
     DurationElapsed, Failsafe, CicReturn
<1> QED BY <1>1, <1>2, <1>3, <1>4, <1>5, <1>6, <1>7, <1>8, Steps, Zenon

\* How a tuner comes to be.
Spawns(k) == tuner[k] = "none" /\ StreamStart(k[1]) /\ tuner'[k] = "port"

\* How a tuner goes on.
Advances(k) ==
    \/ tuner[k] = "port" /\ k[2] = "Sender" /\ tuner'[k] = "write"
    \/ tuner[k] = "port" /\ k[2] # "Sender" /\ tuner'[k] = "recv_done"
    \/ tuner[k] = "write" /\ tuner'[k] = "agent_done"
    \/ tuner[k] = "report" /\ tuner'[k] = "exited"

\* How a tuner ends.
Concludes(k) ==
    /\ tuner[k] \in Waiting /\ tuner'[k] = "report"
    /\ outcome'[k] = "Fail" \/ (outcome'[k] = "Pass" /\ Cmd(k, "Done"))

\* The state of a tuner changes in these ways only.
LEMMA TunerMoves ==
  ASSUME TypeOK, TunersInOrder, Next, NEW k \in Keys
  PROVE  \/ tuner'[k] = tuner[k] /\ outcome'[k] = outcome[k]
         \/ (Spawns(k) \/ Advances(k)) /\ outcome'[k] = outcome[k]
         \/ Concludes(k)
<1>t. tuner \in [Keys -> Waiting \union {"none", "report", "exited"}]
      /\ outcome \in [Keys -> {"none", "Pass", "Fail"}]
  BY Zenon DEF TypeOK
<1>1. CASE tuner' = tuner /\ outcome' = outcome BY <1>1, Zenon
<1>2. ASSUME NEW u \in Streams, StreamStart(u)
      PROVE  outcome'[k] = outcome[k] /\ (tuner'[k] = tuner[k] \/ Spawns(k))
  <2>1. outcome' = outcome /\ tuner' = [j \in Keys |-> IF j[1] = u THEN "port" ELSE tuner[j]]
    BY <1>2, Zenon DEF StreamStart
  <2>2. CASE k[1] # u BY <2>1, <2>2
  <2>3. ASSUME k[1] = u PROVE Spawns(k)
    <3>1. tuner'[k] = "port" BY <2>1, <2>3
    <3>2. tuner[<<u, "Sender">>] = "none" /\ tuner[<<u, "Receiver">>] = "none"
      BY <1>2, Zenon DEF StreamStart, TunersInOrder
    <3>3. k = <<u, k[2]>> /\ k[2] \in Roles BY <2>3, KeyTypes, Zenon
    <3>4. k[2] = "Sender" \/ k[2] = "Receiver" BY <3>3 DEF Roles
    <3>5. tuner[k] = "none" BY <3>2, <3>3, <3>4, Zenon
    <3> QED BY <1>2, <2>3, <3>1, <3>5, Zenon DEF Spawns
  <2> QED BY <2>1, <2>2, <2>3, Zenon
<1>3. ASSUME NEW j \in Keys, GoesOn(j)
      PROVE  outcome'[k] = outcome[k] /\ (tuner'[k] = tuner[k] \/ Advances(k))
  <2>1. outcome' = outcome BY <1>3, Zenon DEF GoesOn
  <2>2. CASE j # k
    <3>1. tuner' = tuner \/ \E st : tuner' = [tuner EXCEPT ![j] = st]
      BY <1>3, Zenon DEF GoesOn, Goto
    <3> QED BY <1>t, <2>1, <2>2, <3>1
  <2>3. CASE j = k
    <3>1. \A st : Goto(k, st) => tuner'[k] = st BY <1>t DEF Goto
    <3> QED BY <1>3, <2>1, <2>3, <3>1, Zenon DEF GoesOn, Advances
  <2> QED BY <2>2, <2>3, Zenon
<1>4. ASSUME NEW j \in Keys, NEW o \in {"Pass", "Fail"}, Decides(j, o)
      PROVE  (tuner'[k] = tuner[k] /\ outcome'[k] = outcome[k]) \/ Concludes(k)
  <2>1. tuner' = [tuner EXCEPT ![j] = "report"] /\ outcome' = [outcome EXCEPT ![j] = o]
    BY <1>4, Zenon DEF Decides, Report, Goto
  <2>2. CASE j # k BY <1>t, <2>1, <2>2
  <2>3. CASE j = k
    <3>1. tuner'[k] = "report" /\ outcome'[k] = o BY <1>t, <2>1, <2>3
    <3> QED BY <1>4, <2>3, <3>1, Zenon DEF Decides, Concludes
  <2> QED BY <2>2, <2>3, Zenon
<1>5. ASSUME NEW j \in Keys, finish(j)
      PROVE  outcome'[k] = outcome[k] /\ (tuner'[k] = tuner[k] \/ Advances(k))
  <2>1. outcome' = outcome /\ tuner[j] = "report" /\ tuner' = [tuner EXCEPT ![j] = "exited"]
    BY <1>5, Zenon DEF finish, Goto
  <2>2. CASE j # k BY <1>t, <2>1, <2>2
  <2>3. CASE j = k
    <3>1. tuner'[k] = "exited" BY <1>t, <2>1, <2>3
    <3> QED BY <2>1, <2>3, <3>1, Zenon DEF Advances
  <2> QED BY <2>2, <2>3, Zenon
<1>6. ASSUME NEW a \in Agents, CallbackStep(a) \/ PingStep(a) \/ Forward(a)
      PROVE  tuner' = tuner /\ outcome' = outcome
  BY <1>6, Zenon DEF CallbackStep, PingStep, Forward
<1>7. ASSUME NEW j \in Keys, AgentStep(j) \/ (j[2] = "Sender" /\ AgentReadError(j[1]))
      PROVE  tuner' = tuner /\ outcome' = outcome
  BY <1>7, AgentEmits, Zenon DEF Emit
<1>8. ASSUME NEW u \in Streams, StreamRefused(u) \/ WormholeDone(u) \/ WriterExhausts(u)
      PROVE  tuner' = tuner /\ outcome' = outcome
  BY <1>8, Zenon DEF StreamRefused, WormholeDone, WriterExhausts
<1>9. CASE RunCic \/ CicMessage \/ DurationElapsed \/ Failsafe \/ CicReturn
  BY <1>1, <1>9, Zenon DEF RunCic, CicMessage, CicStarted, CicDone, CicFailed, CicFinished,
     DurationElapsed, Failsafe, CicReturn
<1> QED BY <1>1, <1>2, <1>3, <1>4, <1>5, <1>6, <1>7, <1>8, <1>9, Steps, TunerSteps, Zenon

\* What was dropped stays dropped.
LEMMA LostGrows ==
  ASSUME Next, NEW k, Lost(k)
  PROVE  Lost(k)'
<1>1. CASE dropped' = dropped BY <1>1, Zenon DEF Lost
<1>2. ASSUME NEW a, NEW e, Drop(a, e) PROVE Lost(k)' BY <1>2, Zenon DEF Drop, Lost
<1>3. ASSUME NEW a \in Agents, CallbackStep(a) \/ PingStep(a) \/ Forward(a) PROVE Lost(k)'
  BY <1>1, <1>2, <1>3, Zenon DEF CallbackStep, run, RunRegister, RunPing, PingReturns, fire,
     PingStep, PingTimer, Forward
<1>4. ASSUME NEW j \in Keys, AgentStep(j) \/ (j[2] = "Sender" /\ AgentReadError(j[1]))
      PROVE  dropped' = dropped
  BY <1>4, AgentEmits, Zenon DEF Emit
<1>5. ASSUME NEW j \in Keys, TunerStep(j) PROVE dropped' = dropped BY <1>5, TunerSteps, Zenon
<1>6. ASSUME NEW u \in Streams,
             StreamStart(u) \/ StreamRefused(u) \/ WormholeDone(u) \/ WriterExhausts(u)
      PROVE  dropped' = dropped
  BY <1>6, Zenon DEF StreamStart, StreamRefused, WormholeDone, WriterExhausts, TunerRest
<1>7. CASE RunCic \/ CicMessage \/ DurationElapsed \/ Failsafe \/ CicReturn
  BY <1>1, <1>7, Zenon DEF RunCic, CicMessage, CicStarted, CicDone, CicFailed, CicFinished,
     DurationElapsed, Failsafe, CicReturn
<1> QED BY <1>1, <1>3, <1>4, <1>5, <1>6, <1>7, Steps, Zenon

\* A sender tuner's connection is opened when it has its port, and closed once.
LEMMA WriterMoves ==
  ASSUME TypeOK, Next, NEW u \in Streams
  PROVE  writer'[u] = writer[u] \/ writer[u] = "open" \/ tuner'[<<u, "Sender">>] = "write"
<1>t. writer \in [Streams -> {"none", "open", "closed"}] /\ DOMAIN tuner = Keys BY DEF TypeOK
<1>1. CASE writer' = writer BY <1>1, Zenon
<1>2. ASSUME NEW v \in Streams, writer[v] = "open", writer' = [writer EXCEPT ![v] = "closed"]
      PROVE  writer'[u] = writer[u] \/ writer[u] = "open"
  BY <1>t, <1>2
<1>3. ASSUME NEW j \in Keys, CloseWriter(j) PROVE writer'[u] = writer[u] \/ writer[u] = "open"
  <2>1. j[1] \in Streams BY KeyTypes, Zenon
  <2> QED BY <1>1, <1>2, <1>3, <2>1, Zenon DEF CloseWriter
<1>4. ASSUME NEW j \in Keys, j[2] = "Sender", Goto(j, "write"),
             writer' = [writer EXCEPT ![j[1]] = "open"]
      PROVE  writer'[u] = writer[u] \/ tuner'[<<u, "Sender">>] = "write"
  <2>1. j[1] \in Streams /\ j = <<j[1], "Sender">> BY <1>4, KeyTypes, Zenon
  <2>2. CASE j[1] # u BY <1>t, <1>4, <2>1, <2>2
  <2>3. CASE j[1] = u
    <3>1. tuner'[j] = "write" BY <1>t, <1>4 DEF Goto
    <3> QED BY <2>1, <2>3, <3>1, Zenon
  <2> QED BY <2>2, <2>3, Zenon
<1>5. ASSUME NEW j \in Keys, TunerStep(j)
      PROVE  writer'[u] = writer[u] \/ writer[u] = "open" \/ tuner'[<<u, "Sender">>] = "write"
  <2>1. CASE GoesOn(j) BY <1>1, <1>3, <1>4, <2>1, Zenon DEF GoesOn
  <2>2. ASSUME NEW o, Decides(j, o) PROVE writer'[u] = writer[u] \/ writer[u] = "open"
    BY <1>1, <1>3, <2>2, Zenon DEF Decides
  <2>3. CASE finish(j) BY <1>1, <2>3, Zenon DEF finish
  <2> QED BY <1>5, <2>1, <2>2, <2>3, TunerSteps, Zenon
<1>6. ASSUME NEW a \in Agents, CallbackStep(a) \/ PingStep(a) \/ Forward(a) PROVE writer' = writer
  BY <1>6, Zenon DEF CallbackStep, PingStep, Forward
<1>7. ASSUME NEW j \in Keys, AgentStep(j) \/ (j[2] = "Sender" /\ AgentReadError(j[1]))
      PROVE  writer' = writer
  BY <1>7, AgentEmits, Zenon DEF Emit
<1>8. ASSUME NEW v \in Streams,
             StreamStart(v) \/ StreamRefused(v) \/ WormholeDone(v) \/ WriterExhausts(v)
      PROVE  writer'[u] = writer[u] \/ writer[u] = "open"
  BY <1>1, <1>2, <1>8, Zenon DEF StreamStart, StreamRefused, WormholeDone, WriterExhausts
<1>9. CASE RunCic \/ CicMessage \/ DurationElapsed \/ Failsafe \/ CicReturn
  BY <1>1, <1>9, Zenon DEF RunCic, CicMessage, CicStarted, CicDone, CicFailed, CicFinished,
     DurationElapsed, Failsafe, CicReturn
<1> QED BY <1>1, <1>5, <1>6, <1>7, <1>8, <1>9, Steps, Zenon

\* The message about a finished tuner that the CIC takes is true.
LEMMA HeadReport ==
  ASSUME TypeOK, ReportsTrue, CicFinished
  PROVE  /\ MsgKey \in Keys /\ tuner[MsgKey] = "exited"
         /\ outcome[MsgKey] = Head(cic_rx).event.outcome
<1>1. cic_rx # <<>> /\ Head(cic_rx).event.op = "Finished" BY Zenon DEF CicFinished, Message
<1>2. cic_rx \in Seq(CicMsg) BY Zenon DEF TypeOK
<1>3. 1 \in 1 .. Len(cic_rx) /\ Head(cic_rx) = cic_rx[1] BY <1>1, <1>2
<1>4. MsgKey \in Keys BY <1>1, MessageTypes, Zenon
<1> QED BY <1>1, <1>3, <1>4, Zenon DEF ReportsTrue, MsgKey

\* A tuner can be reached from its start until it has reported.
LEMMA DispatchMoves ==
  ASSUME TypeOK, ReportsTrue, Next, NEW k \in Keys
  PROVE  /\ k \in dispatch => k \in dispatch' \/ (tuner[k] = "exited" /\ tuner'[k] = tuner[k])
         /\ Spawns(k) => k \in dispatch'
<1>2. ASSUME NEW u \in Streams, StreamStart(u)
      PROVE  (k \in dispatch => k \in dispatch') /\ (Spawns(k) => k \in dispatch')
  <2>1. dispatch' = dispatch \union {j \in Keys : j[1] = u} BY <1>2, Zenon DEF StreamStart
  <2>2. Spawns(k) => StreamStart(k[1]) BY Zenon DEF Spawns
  <2>3. StreamStart(k[1]) => k \in dispatch' BY Zenon DEF StreamStart
  <2> QED BY <2>1, <2>2, <2>3, Zenon
<1>3. CASE CicFinished
  <2>1. dispatch' = dispatch \ {MsgKey} /\ tuner' = tuner BY <1>3, Zenon DEF CicFinished
  <2>2. tuner[MsgKey] = "exited" BY <1>3, HeadReport, Zenon
  <2>3. Spawns(k) => tuner[k] = "none" /\ tuner'[k] = "port" BY Zenon DEF Spawns
  <2>4. "none" # "port" OBVIOUS
  <2> QED BY <2>1, <2>2, <2>3, <2>4, Zenon
<1>4. CASE dispatch' = dispatch
  <2>1. Spawns(k) => k \in dispatch'
    BY Zenon DEF Spawns, StreamStart
  <2> QED BY <1>4, <2>1, Zenon
<1>5. ASSUME NEW a \in Agents, CallbackStep(a) \/ PingStep(a) \/ Forward(a)
      PROVE  dispatch' = dispatch
  BY <1>5, Zenon DEF CallbackStep, PingStep, Forward
<1>6. ASSUME NEW j \in Keys, AgentStep(j) \/ (j[2] = "Sender" /\ AgentReadError(j[1]))
      PROVE  dispatch' = dispatch
  BY <1>6, AgentEmits, Zenon DEF Emit
<1>7. ASSUME NEW j \in Keys, TunerStep(j) PROVE dispatch' = dispatch BY <1>7, TunerSteps, Zenon
<1>8. ASSUME NEW u \in Streams, StreamRefused(u) \/ WormholeDone(u) \/ WriterExhausts(u)
      PROVE  dispatch' = dispatch
  BY <1>8, Zenon DEF StreamRefused, WormholeDone, WriterExhausts, TunerRest
<1>9. ASSUME RunCic \/ CicMessage \/ DurationElapsed \/ Failsafe \/ CicReturn, ~CicFinished
      PROVE  dispatch' = dispatch
  BY <1>9, Zenon DEF RunCic, CicMessage, CicStarted, CicDone, CicFailed,
     DurationElapsed, Failsafe, CicReturn
<1> QED BY <1>2, <1>3, <1>4, <1>5, <1>6, <1>7, <1>8, <1>9, Steps, Zenon

-----------------------------------------------------------------------------
(* The invariant is inductive *)

\* Tuners keep to the order of their states.
LEMMA TunersInOrderStep ==
  ASSUME TypeOK, TunersInOrder, ReportsTrue, Next
  PROVE  TunersInOrder'
<1>1. ASSUME NEW k \in Keys, k \notin dispatch' PROVE tuner'[k] \in {"none", "exited"}
  <2>1. CASE k \in dispatch BY <1>1, <2>1, DispatchMoves, Zenon
  <2>2. CASE k \notin dispatch
    <3>1. tuner[k] \in {"none", "exited"} BY <2>2, Zenon DEF TunersInOrder
    <3>2. ~Spawns(k) BY <1>1, DispatchMoves, Zenon
    <3>3. ~Advances(k) /\ ~Concludes(k) BY <3>1 DEF Advances, Concludes, Waiting
    <3> QED BY <3>1, <3>2, <3>3, TunerMoves, Zenon
  <2> QED BY <2>1, <2>2, Zenon
<1>2. ASSUME NEW k \in Keys
      PROVE  /\ tuner'[k] \in {"write", "agent_done"} => k[2] = "Sender"
             /\ tuner'[k] = "recv_done" => k[2] = "Receiver"
  <2>1. /\ tuner[k] \in {"write", "agent_done"} => k[2] = "Sender"
        /\ tuner[k] = "recv_done" => k[2] = "Receiver"
    BY Zenon DEF TunersInOrder
  <2>2. tuner'[k] = tuner[k] \/ Spawns(k) \/ Advances(k) \/ Concludes(k) BY TunerMoves, Zenon
  <2>3. k[2] \in Roles BY KeyTypes, Zenon
  <2>4. \/ tuner'[k] = tuner[k] \/ tuner'[k] \in {"port", "report", "exited"}
        \/ k[2] = "Sender" /\ tuner'[k] = "write"
        \/ k[2] # "Sender" /\ tuner'[k] = "recv_done"
        \/ tuner[k] = "write" /\ tuner'[k] = "agent_done"
    BY <2>2 DEF Spawns, Advances, Concludes
  <2> QED BY <2>1, <2>3, <2>4 DEF Roles
<1>3. ASSUME NEW u \in Streams
      PROVE  /\ tuner'[<<u, "Sender">>] = "none" <=> tuner'[<<u, "Receiver">>] = "none"
             /\ tuner'[<<u, "Sender">>] \in {"none", "port"} => writer'[u] = "none"
  <2> DEFINE s == <<u, "Sender">>  r == <<u, "Receiver">>
  <2>1. s \in Keys /\ r \in Keys BY DEF Keys, Roles
  <2>2. s[1] = u /\ r[1] = u OBVIOUS
  <2>3. /\ tuner[s] = "none" <=> tuner[r] = "none"
        /\ tuner[s] \in {"none", "port"} => writer[u] = "none"
    BY Zenon DEF TunersInOrder
  <2>4. ASSUME NEW k \in Keys
        PROVE  /\ ~Spawns(k) => (tuner'[k] = "none" <=> tuner[k] = "none")
               /\ tuner'[k] \in {"none", "port"} => tuner[k] \in {"none", "port"}
    BY TunerMoves DEF Spawns, Advances, Concludes, Waiting
  <2>5. ASSUME Spawns(s) \/ Spawns(r) PROVE tuner'[s] = "port" /\ tuner'[r] = "port"
    <3>1. StreamStart(u) BY <2>2, <2>5, Zenon DEF Spawns
    <3> QED BY <2>1, <2>2, <3>1 DEF StreamStart
  <2>6. tuner'[s] = "none" <=> tuner'[r] = "none" BY <2>1, <2>3, <2>4, <2>5
  <2>7. ASSUME tuner'[s] \in {"none", "port"} PROVE writer'[u] = "none"
    <3>1. writer[u] = "none" BY <2>1, <2>3, <2>4, <2>7, Zenon
    <3>2. tuner'[s] # "write" BY <2>7
    <3>3. writer'[u] = writer[u] BY <3>1, <3>2, WriterMoves
    <3> QED BY <3>1, <3>3
  <2> QED BY <2>6, <2>7
<1> QED BY <1>1, <1>2, <1>3, Zenon DEF TunersInOrder

\* Nothing follows the Done of an agent.
LEMMA DoneStays ==
  ASSUME TypeOK, Next, NEW k \in Keys
  PROVE  agent[k] \in {"done", "late_done"} => agent'[k] = agent[k]
<1> SUFFICES ASSUME agent[k] \in {"done", "late_done"} PROVE agent'[k] = agent[k] OBVIOUS
<1>1. /\ ~Running(k)
      /\ agent[k] # "none" /\ agent[k] # "started" /\ agent[k] # "closing"
  BY DEF Running
<1>2. k = <<k[1], k[2]>> BY KeyTypes, Zenon
<1>3. ~(k[2] = "Sender" /\ AgentReadError(k[1])) BY <1>1, <1>2, Zenon DEF AgentReadError
<1>4. ~AgentDone(k) BY <1>1, Zenon DEF AgentDone
<1> QED BY <1>1, <1>3, <1>4, AgentMoves, Zenon

\* Only an agent whose stream runs reports a read error.
LEMMA LateMoves ==
  ASSUME TypeOK, Next, NEW k \in Keys, Late(k)'
  PROVE  \/ Late(k)
         \/ /\ k[2] = "Sender" /\ agent[k] = "started" /\ writer[k[1]] # "none"
            /\ Emit(k, "read_error", "Failed")
<1>1. k = <<k[1], k[2]>> BY KeyTypes, Zenon
<1>2. agent'[k] \in {"read_error", "late_done"} BY Zenon DEF Late
<1>3. CASE agent'[k] = agent[k] BY <1>2, <1>3, Zenon DEF Late
<1>4. CASE k[2] = "Sender" /\ AgentReadError(k[1]) BY <1>1, <1>4, Zenon DEF AgentReadError
<1>5. CASE AgentDone(k) /\ agent'[k] = IF agent[k] = "read_error" THEN "late_done" ELSE "done"
  BY <1>2, <1>5 DEF Late
<1>6. agent'[k] # "started" /\ agent'[k] # "failed" /\ agent'[k] # "closing" BY <1>2
<1> QED BY <1>3, <1>4, <1>5, <1>6, AgentMoves, Zenon

\* A read error is the sender's, past wait_for_port.
LEMMA LateIsSenderStep ==
  ASSUME TypeOK, TunersInOrder, LateIsSender, Next
  PROVE  LateIsSender'
<1> SUFFICES ASSUME NEW k \in Keys, Late(k)'
             PROVE  k[2] = "Sender" /\ tuner'[k] \notin {"none", "port"}
  BY Zenon DEF LateIsSender
<1>1. k[1] \in Streams /\ k = <<k[1], k[2]>> BY KeyTypes, Zenon
<1>2. k[2] = "Sender" /\ tuner[k] \notin {"none", "port"}
  <2>1. CASE Late(k) BY <2>1, Zenon DEF LateIsSender
  <2>2. CASE k[2] = "Sender" /\ writer[k[1]] # "none"
    <3>1. tuner[<<k[1], "Sender">>] \notin {"none", "port"} BY <1>1, <2>2, Zenon DEF TunersInOrder
    <3>2. <<k[1], "Sender">> = k BY <1>1, <2>2, Zenon
    <3> QED BY <2>2, <3>1, <3>2, Zenon
  <2> QED BY <2>1, <2>2, LateMoves, Zenon
<1>3. tuner'[k] \notin {"none", "port"} BY <1>2, TunerMoves DEF Spawns, Advances, Concludes
<1> QED BY <1>2, <1>3, Zenon

\* The next command of a tuner is on its way.
LEMMA CmdOnTheWay ==
  ASSUME TypeOK, NEW k \in Keys, Cmd(k, "Done")
  PROVE  OnTheWay(k, "Done")
<1>1. cmd_rx[k] \in Seq(TunerCmd) BY DEF TypeOK
<1>2. 1 \in 1 .. Len(cmd_rx[k]) /\ cmd_rx[k][1] = "Done" BY <1>1 DEF Cmd
<1> QED BY <1>2, Zenon DEF OnTheWay, InFlight, Has

\* No step makes up a Done.
LEMMA DoneIsRealStep ==
  ASSUME TypeOK, TunersInOrder, DoneIsReal, Next
  PROVE  DoneIsReal'
<1> SUFFICES ASSUME NEW k \in Keys, OnTheWay(k, "Done")' \/ outcome'[k] = "Pass"
             PROVE  agent'[k] \in {"done", "late_done"}
  BY Zenon DEF DoneIsReal
<1>2. CASE OnTheWay(k, "Done") \/ outcome[k] = "Pass"
  <2>1. agent[k] \in {"done", "late_done"} BY <1>2, Zenon DEF DoneIsReal
  <2> QED BY <2>1, DoneStays, Zenon
<1>3. CASE AgentDone(k)
  <2>1. agent' = [agent EXCEPT ![k] = IF agent[k] = "read_error" THEN "late_done" ELSE "done"]
    BY <1>3, Zenon DEF AgentDone, Emit
  <2> QED BY <2>1 DEF TypeOK
<1>4. ASSUME OnTheWay(k, "Done")' PROVE OnTheWay(k, "Done") \/ AgentDone(k)
  BY <1>4, FlowStep, DoneFlow, Zenon
<1>5. ASSUME outcome'[k] = "Pass" PROVE OnTheWay(k, "Done") \/ outcome[k] = "Pass"
  <2>1. "Pass" # "Fail" OBVIOUS
  <2>2. CASE Concludes(k) BY <1>5, <2>1, <2>2, CmdOnTheWay, Zenon DEF Concludes
  <2>3. CASE outcome'[k] = outcome[k] BY <1>5, <2>3, Zenon
  <2> QED BY <2>2, <2>3, TunerMoves, Zenon
<1> QED BY <1>2, <1>3, <1>4, <1>5, Zenon

\* A tuner that has not decided can be reached.
LEMMA Undecided ==
  ASSUME TypeOK, TunersInOrder, LateIsSender, NEW k \in Keys, Late(k),
         tuner[k] \notin {"report", "exited"}
  PROVE  Listening(k) /\ tuner[k] # "port"
<1>1. tuner[k] \notin {"none", "port"} BY Zenon DEF LateIsSender
<1>2. k \in dispatch BY <1>1, Zenon DEF TunersInOrder
<1> QED BY <1>1, <1>2, Zenon DEF Listening

\* No step lets a Done overtake the Failed of a read error.
LEMMA FailedFirstStep ==
  ASSUME TypeOK, TunersInOrder, LateIsSender, DoneIsReal, FailedFirst, Next
  PROVE  FailedFirst'
<1> SUFFICES ASSUME Alive', NEW k \in Keys, Late(k)', ~Lost(k)', tuner'[k] \notin {"report", "exited"}
             PROVE  InOrder(k, rx'[k[2]], socket'[k[2]], cic_rx', cmd_rx'[k])
  BY Zenon DEF FailedFirst
<1>1. CASE Late(k)
  <2>1. tuner[k] \notin {"report", "exited"}
    BY TunerMoves DEF Spawns, Advances, Concludes
  <2>2. Listening(k) /\ tuner[k] # "port" BY <1>1, <2>1, Undecided, Zenon
  <2>3. ~Lost(k) BY LostGrows, Zenon
  <2>4. InOrder(k, rx[k[2]], socket[k[2]], cic_rx, cmd_rx[k])
    BY <1>1, <2>1, <2>3, Steps, Zenon DEF FailedFirst
  <2>5. tuner'[k] # "report" BY Zenon
  <2> QED BY <2>2, <2>4, <2>5, FlowStep, OrderFlow, Zenon
<1>2. CASE agent[k] = "started" /\ Emit(k, "read_error", "Failed")
  <2>1. agent[k] \notin {"done", "late_done"} BY <1>2
  <2>2. ~OnTheWay(k, "Done") BY <2>1, Zenon DEF DoneIsReal
  <2>3. k[2] \in Agents BY KeyTypes, Zenon
  <2>4. rx[k[2]] \in Seq(CallbackCmd) BY <2>3 DEF TypeOK
  <2>5. InOrder(k, Append(rx[k[2]], Told(k, "Failed")), socket[k[2]], cic_rx, cmd_rx[k])
    BY <2>2, <2>4, OrderBegins, Zenon DEF OnTheWay
  <2>6. rx' = [rx EXCEPT ![k[2]] = Append(@, Told(k, "Failed"))] BY <1>2, Zenon DEF Emit, send, Told
  <2>7. rx'[k[2]] = Append(rx[k[2]], Told(k, "Failed")) BY <2>3, <2>6 DEF TypeOK
  <2>8. UNCHANGED <<socket, cic_rx, cmd_rx>> BY <1>2, Zenon DEF Emit
  <2> QED BY <2>5, <2>7, <2>8, Zenon
<1> QED BY <1>1, <1>2, LateMoves, Zenon

\* A tuner whose agent reported a read error does not pass.
LEMMA LateNeverPassesStep ==
  ASSUME TypeOK, TunersInOrder, LateIsSender, DoneIsReal, FailedFirst, LateNeverPasses, Next
  PROVE  LateNeverPasses'
<1> SUFFICES ASSUME NEW k \in Keys, Late(k)', ~Lost(k)', outcome'[k] = "Pass" PROVE FALSE
  BY Zenon DEF LateNeverPasses
<1>1. CASE Late(k)
  <2>1. ~Lost(k) BY LostGrows, Zenon
  <2>2. outcome[k] # "Pass" BY <1>1, <2>1, Zenon DEF LateNeverPasses
  <2>3. "Pass" # "Fail" OBVIOUS
  <2>4. tuner[k] \in Waiting /\ Cmd(k, "Done") BY <2>2, <2>3, TunerMoves, Zenon DEF Concludes
  <2>5. tuner[k] \notin {"report", "exited"} BY <2>4 DEF Waiting
  <2>6. InOrder(k, rx[k[2]], socket[k[2]], cic_rx, cmd_rx[k])
    BY <1>1, <2>1, <2>5, Steps, Zenon DEF FailedFirst
  <2>7. /\ rx[k[2]] \in Seq(CallbackCmd) /\ socket[k[2]] \in Seq(EventType)
        /\ cic_rx \in Seq(CicMsg) /\ cmd_rx[k] \in Seq(TunerCmd)
    BY FlowTypes, Zenon
  <2> QED BY <2>4, <2>6, <2>7, OrderCmdTake, Zenon DEF Cmd
<1>2. CASE agent[k] = "started" /\ Emit(k, "read_error", "Failed")
  <2>1. outcome' = outcome BY <1>2, Zenon DEF Emit
  <2>2. agent[k] \in {"done", "late_done"} BY <2>1, Zenon DEF DoneIsReal
  <2> QED BY <1>2, <2>2
<1> QED BY <1>1, <1>2, LateMoves, Zenon

\* What finish sends.
Finished(k) == [role |-> k[2],
                event |-> [op |-> "Finished", uuid |-> k[1], outcome |-> outcome[k]]]

\* Only finish sends a report to the CIC.
LEMMA ReportMoves ==
  ASSUME TypeOK, Next, NEW i \in 1 .. Len(cic_rx'), cic_rx'[i].event.op = "Finished"
  PROVE  \/ \E j \in 1 .. Len(cic_rx) : cic_rx'[i] = cic_rx[j]
         \/ \E k \in Keys : finish(k) /\ cic_rx'[i] = Finished(k)
<1>t. cic_rx \in Seq(CicMsg) BY Zenon DEF TypeOK
<1>1. ASSUME cic_rx' = cic_rx PROVE \E j \in 1 .. Len(cic_rx) : cic_rx'[i] = cic_rx[j]
  BY <1>1, Zenon
<1>2. ASSUME cic_rx # <<>>, cic_rx' = Tail(cic_rx)
      PROVE  \E j \in 1 .. Len(cic_rx) : cic_rx'[i] = cic_rx[j]
  <2>1. i + 1 \in 1 .. Len(cic_rx) /\ cic_rx'[i] = cic_rx[i + 1] BY <1>t, <1>2
  <2> QED BY <2>1
<1>3. ASSUME NEW m, cic_rx' = Append(cic_rx, m)
      PROVE  (\E j \in 1 .. Len(cic_rx) : cic_rx'[i] = cic_rx[j]) \/ cic_rx'[i] = m
  <2>1. i \in 1 .. Len(cic_rx) + 1 BY <1>t, <1>3
  <2>2. CASE i \in 1 .. Len(cic_rx)
    <3>1. cic_rx'[i] = cic_rx[i] BY <1>t, <1>3, <2>2
    <3> QED BY <2>2, <3>1
  <2>3. CASE i = Len(cic_rx) + 1 BY <1>t, <1>3, <2>3
  <2> QED BY <1>t, <2>1, <2>2, <2>3
<1>4. ASSUME NEW a \in Agents, CallbackStep(a) \/ PingStep(a) \/ Forward(a)
      PROVE  \E j \in 1 .. Len(cic_rx) : cic_rx'[i] = cic_rx[j]
  <2>1. CASE cic_rx' = cic_rx BY <1>1, <2>1, Zenon
  <2>2. CASE Forward(a) /\ cic_rx' = Append(cic_rx, [role |-> a, event |-> Head(socket[a])])
    <3>1. socket \in [Agents -> Seq(EventType)] /\ socket[a] # <<>> BY <2>2, Zenon DEF Forward, TypeOK
    <3>2. Head(socket[a]) \in EventType BY <3>1, QueueTypes, Zenon
    <3>3. Head(socket[a]).op # "Finished" BY <3>2 DEF EventType
    <3>4. [role |-> a, event |-> Head(socket[a])].event.op # "Finished" BY <3>3
    <3> QED BY <1>3, <2>2, <3>4, Zenon
  <2> QED BY <1>4, <2>1, <2>2, Zenon DEF CallbackStep, PingStep, Forward
<1>5. ASSUME NEW k \in Keys, AgentStep(k) \/ (k[2] = "Sender" /\ AgentReadError(k[1]))
      PROVE  cic_rx' = cic_rx
  BY <1>5, AgentEmits, Zenon DEF Emit
<1>6. ASSUME NEW k \in Keys, TunerStep(k)
      PROVE  cic_rx' = cic_rx \/ (finish(k) /\ cic_rx' = Append(cic_rx, Finished(k)))
  BY <1>6, TunerSteps, Zenon DEF GoesOn, Decides, finish, Finished
<1>7. ASSUME NEW u \in Streams,
             StreamStart(u) \/ StreamRefused(u) \/ WormholeDone(u) \/ WriterExhausts(u)
      PROVE  cic_rx' = cic_rx
  BY <1>7, Zenon DEF StreamStart, StreamRefused, WormholeDone, WriterExhausts, TunerRest
<1>8. ASSUME RunCic \/ CicMessage \/ DurationElapsed \/ Failsafe
      PROVE  cic_rx' = cic_rx \/ (cic_rx # <<>> /\ cic_rx' = Tail(cic_rx))
  BY <1>8, Zenon DEF RunCic, CicMessage, CicStarted, CicDone, CicFailed, CicFinished,
     DurationElapsed, Failsafe, Message
<1>9. ASSUME CicReturn PROVE FALSE
  <2>1. cic_rx' = <<>> BY <1>9, Zenon DEF CicReturn
  <2> QED BY <2>1
<1> QED BY <1>1, <1>2, <1>3, <1>4, <1>5, <1>6, <1>7, <1>8, <1>9, Steps, Zenon

\* A tuner that has exited has decided.
LEMMA ExitedStays ==
  ASSUME TypeOK, TunersInOrder, Next, NEW k \in Keys, tuner[k] = "exited"
  PROVE  tuner'[k] = "exited" /\ outcome'[k] = outcome[k]
<1>1. ~Spawns(k) /\ ~Advances(k) /\ ~Concludes(k) BY DEF Spawns, Advances, Concludes, Waiting
<1> QED BY <1>1, TunerMoves, Zenon

\* Only CicFinished collects a result.
LEMMA ResultsMove ==
  ASSUME Next
  PROVE  results' = results \/ CicFinished
<1>1. ASSUME NEW a \in Agents, CallbackStep(a) \/ PingStep(a) \/ Forward(a) PROVE results' = results
  BY <1>1, Zenon DEF CallbackStep, PingStep, Forward
<1>2. ASSUME NEW k \in Keys, AgentStep(k) \/ (k[2] = "Sender" /\ AgentReadError(k[1]))
      PROVE  results' = results
  BY <1>2, AgentEmits, Zenon DEF Emit
<1>3. ASSUME NEW k \in Keys, TunerStep(k) PROVE results' = results BY <1>3, TunerSteps, Zenon
<1>4. ASSUME NEW u \in Streams,
             StreamStart(u) \/ StreamRefused(u) \/ WormholeDone(u) \/ WriterExhausts(u)
      PROVE  results' = results
  BY <1>4, Zenon DEF StreamStart, StreamRefused, WormholeDone, WriterExhausts, TunerRest
<1>5. ASSUME RunCic \/ CicMessage \/ DurationElapsed \/ Failsafe \/ CicReturn, ~CicFinished
      PROVE  results' = results
  BY <1>5, Zenon DEF RunCic, CicMessage, CicStarted, CicDone, CicFailed,
     DurationElapsed, Failsafe, CicReturn
<1> QED BY <1>1, <1>2, <1>3, <1>4, <1>5, Steps, Zenon

\* Reports stay true.
LEMMA ReportsTrueStep ==
  ASSUME TypeOK, TunersInOrder, ReportsTrue, Next
  PROVE  ReportsTrue'
<1>1. ASSUME NEW i \in 1 .. Len(cic_rx'), cic_rx'[i].event.op = "Finished"
      PROVE  /\ tuner'[<<cic_rx'[i].event.uuid, cic_rx'[i].role>>] = "exited"
             /\ outcome'[<<cic_rx'[i].event.uuid, cic_rx'[i].role>>] = cic_rx'[i].event.outcome
  <2>1. ASSUME NEW j \in 1 .. Len(cic_rx), cic_rx[j].event.op = "Finished"
        PROVE  /\ tuner'[<<cic_rx[j].event.uuid, cic_rx[j].role>>] = "exited"
               /\ outcome'[<<cic_rx[j].event.uuid, cic_rx[j].role>>] = cic_rx[j].event.outcome
    <3>1. cic_rx[j] \in CicMsg BY DEF TypeOK
    <3>2. cic_rx[j].role \in Roles /\ cic_rx[j].event.uuid \in Streams
      BY <3>1 DEF CicMsg, EventType, ReportType
    <3>3. <<cic_rx[j].event.uuid, cic_rx[j].role>> \in Keys BY <3>2 DEF Keys
    <3>4. /\ tuner[<<cic_rx[j].event.uuid, cic_rx[j].role>>] = "exited"
          /\ outcome[<<cic_rx[j].event.uuid, cic_rx[j].role>>] = cic_rx[j].event.outcome
      BY <2>1, Zenon DEF ReportsTrue
    <3> QED BY <3>3, <3>4, ExitedStays, Zenon
  <2>2. ASSUME NEW k \in Keys, finish(k)
        PROVE  /\ tuner'[<<Finished(k).event.uuid, Finished(k).role>>] = "exited"
               /\ outcome'[<<Finished(k).event.uuid, Finished(k).role>>] = Finished(k).event.outcome
    <3>1. /\ Finished(k).event.uuid = k[1] /\ Finished(k).role = k[2]
          /\ Finished(k).event.outcome = outcome[k]
      BY Zenon DEF Finished
    <3>2. k = <<k[1], k[2]>> BY KeyTypes, Zenon
    <3>3. outcome' = outcome /\ tuner' = [tuner EXCEPT ![k] = "exited"]
      BY <2>2, Zenon DEF finish, Goto
    <3>4. tuner'[k] = "exited" BY <3>3 DEF TypeOK
    <3> QED BY <3>1, <3>2, <3>3, <3>4, Zenon
  <2> QED BY <1>1, <2>1, <2>2, ReportMoves, Zenon
<1>2. ASSUME NEW k \in Keys, results'[k] # "none"
      PROVE  tuner'[k] = "exited" /\ results'[k] = outcome'[k]
  <2>1. CASE results'[k] = results[k]
    <3>1. tuner[k] = "exited" /\ results[k] = outcome[k] BY <1>2, <2>1, Zenon DEF ReportsTrue
    <3> QED BY <2>1, <3>1, ExitedStays, Zenon
  <2>2. CASE CicFinished /\ MsgKey = k
    <3>1. tuner[k] = "exited" /\ outcome[k] = Head(cic_rx).event.outcome BY <2>2, HeadReport, Zenon
    <3>2. results' = [results EXCEPT ![k] = Head(cic_rx).event.outcome]
      BY <2>2, Zenon DEF CicFinished
    <3>3. results'[k] = outcome[k] BY <3>1, <3>2 DEF TypeOK
    <3> QED BY <3>1, <3>3, ExitedStays, Zenon
  <2>3. ASSUME CicFinished, MsgKey # k PROVE results'[k] = results[k]
    <3>1. results' = [results EXCEPT ![MsgKey] = Head(cic_rx).event.outcome]
      BY <2>3, Zenon DEF CicFinished
    <3> QED BY <2>3, <3>1 DEF TypeOK
  <2> QED BY <2>1, <2>2, <2>3, ResultsMove, Zenon
<1> QED BY <1>1, <1>2, Zenon DEF ReportsTrue

\* The program's state changes in these ways only.
LEMMA CicMoves ==
  ASSUME Next
  PROVE  \/ UNCHANGED <<cic, killed, verdict, results>>
         \/ cic' = "run" /\ UNCHANGED <<killed, verdict>>
         \/ cic' = "join" /\ AllFinished(results') /\ UNCHANGED <<killed, verdict>>
         \/ cic' = "join" /\ killed' /\ UNCHANGED verdict
         \/ CicReturn
         \/ cic' = "returned" /\ verdict' = "failed"
<1>1. ASSUME NEW a \in Agents, CallbackStep(a) \/ PingStep(a) \/ Forward(a)
      PROVE  UNCHANGED <<cic, killed, verdict, results>>
  BY <1>1, Zenon DEF CallbackStep, PingStep, Forward
<1>2. ASSUME NEW k \in Keys, AgentStep(k) \/ (k[2] = "Sender" /\ AgentReadError(k[1]))
      PROVE  UNCHANGED <<cic, killed, verdict, results>>
  BY <1>2, AgentEmits, Zenon DEF Emit
<1>3. ASSUME NEW k \in Keys, TunerStep(k) PROVE UNCHANGED <<cic, killed, verdict, results>>
  BY <1>3, TunerSteps, Zenon
<1>4. ASSUME NEW u \in Streams, StreamStart(u) \/ WormholeDone(u) \/ WriterExhausts(u)
      PROVE  UNCHANGED <<cic, killed, verdict, results>>
  BY <1>4, Zenon DEF StreamStart, WormholeDone, WriterExhausts, TunerRest
<1>5. ASSUME NEW u \in Streams, StreamRefused(u) PROVE cic' = "returned" /\ verdict' = "failed"
  BY <1>5, Zenon DEF StreamRefused
<1>6. ASSUME CicStarted \/ CicDone \/ CicFailed \/ DurationElapsed
      PROVE  UNCHANGED <<cic, killed, verdict, results>>
  BY <1>6, Zenon DEF CicStarted, CicDone, CicFailed, DurationElapsed
<1>7. ASSUME RunCic PROVE cic' = "run" /\ UNCHANGED <<killed, verdict>> BY <1>7, Zenon DEF RunCic
<1>8. ASSUME CicFinished
      PROVE  /\ UNCHANGED <<killed, verdict>>
             /\ cic' = "run" \/ (cic' = "join" /\ AllFinished(results'))
  BY <1>8, Zenon DEF CicFinished, Message
<1>9. ASSUME Failsafe PROVE cic' = "join" /\ killed' /\ UNCHANGED verdict
  BY <1>9, Zenon DEF Failsafe
<1> QED BY <1>1, <1>2, <1>3, <1>4, <1>5, <1>6, <1>7, <1>8, <1>9, Steps, Zenon DEF CicMessage

\* The program decides once.
LEMMA VerdictLastStep ==
  ASSUME TypeOK, VerdictLast, Next
  PROVE  VerdictLast'
<1>1. Alive BY Steps, Zenon
<1>2. verdict = "none" BY <1>1, Zenon DEF VerdictLast, Alive
<1>3. "none" # "passed" /\ "failed" # "passed" /\ "run" # "join" /\ "returned" # "join" OBVIOUS
<1>4. CASE UNCHANGED <<cic, killed, verdict, results>>
  BY <1>2, <1>3, <1>4, Zenon DEF VerdictLast, AllFinished
<1>5. CASE cic' = "run" /\ UNCHANGED <<killed, verdict>>
  BY <1>2, <1>3, <1>5, Zenon DEF VerdictLast
<1>6. CASE cic' = "join" /\ (AllFinished(results') \/ killed') /\ UNCHANGED verdict
  BY <1>2, <1>3, <1>6, Zenon DEF VerdictLast, AllFinished
<1>7. CASE CicReturn
  <2>1. cic = "join" /\ cic' = "returned" /\ results' = results /\ killed' = killed
    BY <1>7, Zenon DEF CicReturn
  <2>2. ASSUME verdict' = "passed", ~killed, NEW k \in Keys PROVE results[k] = "Pass"
    <3>1. AllFinished(results) BY <2>1, <2>2, Zenon DEF VerdictLast
    <3>2. results[k] # "none" BY <3>1, Zenon DEF AllFinished
    <3>3. results[k] # "Fail" BY <1>7, <2>2 DEF CicReturn
    <3> QED BY <3>2, <3>3 DEF TypeOK
  <2> QED BY <1>3, <2>1, <2>2, Zenon DEF VerdictLast
<1>8. CASE cic' = "returned" /\ verdict' = "failed" BY <1>3, <1>8, Zenon DEF VerdictLast
<1> QED BY <1>4, <1>5, <1>6, <1>7, <1>8, CicMoves, Zenon

\* At the start nothing is on its way.
LEMMA InitInv ==
  ASSUME Init
  PROVE  BwCapInv
<1> USE DEF Init, CallbackInit, CicInit
<1>1. /\ rx = [a \in Agents |-> <<Register>>] /\ socket = [a \in Agents |-> <<>>]
      /\ cic_rx = <<>> /\ cmd_rx = [k \in Keys |-> <<>>]
  BY Zenon DEF handle_set_callback
<1>2. TypeOK
  <2>1. <<Register>> \in Seq(CallbackCmd) BY DEF CallbackCmd
  <2>2. rx \in [Agents -> Seq(CallbackCmd)]
    <3>1. \A S : \A q \in S : [a \in Agents |-> q] \in [Agents -> S] OBVIOUS
    <3> QED BY <1>1, <2>1, <3>1, Zenon
  <2>3. agent \in [Keys -> AgentStates]
    <3>1. "none" \in AgentStates BY DEF AgentStates
    <3> QED BY <3>1
  <2> QED BY <1>1, <2>2, <2>3 DEF TypeOK
<1>3. \A k \in Keys : /\ agent[k] = "none" /\ tuner[k] = "none"
                      /\ outcome[k] = "none" /\ results[k] = "none"
  OBVIOUS
<1>4. TunersInOrder
  <2>1. \A u \in Streams : <<u, "Sender">> \in Keys /\ <<u, "Receiver">> \in Keys BY DEF Keys, Roles
  <2>2. \A u \in Streams : writer[u] = "none" OBVIOUS
  <2> QED BY <1>3, <2>1, <2>2 DEF TunersInOrder
<1>5. \A k \in Keys : ~Late(k) BY <1>3 DEF Late
<1>6. DoneIsReal
  <2> SUFFICES ASSUME NEW k \in Keys PROVE ~OnTheWay(k, "Done") /\ outcome[k] # "Pass"
    BY Zenon DEF DoneIsReal
  <2>1. k[2] \in Agents BY KeyTypes, Zenon
  <2>2. rx[k[2]] = <<Register>> /\ socket[k[2]] = <<>> /\ cmd_rx[k] = <<>> BY <1>1, <2>1
  <2>3. Register # Told(k, "Done")
    <3>1. Register.op = "Register" /\ Told(k, "Done").op = "Done" BY Zenon DEF Register, Told, Event
    <3> QED BY <3>1
  <2>4. ~Has(<<Register>>, Told(k, "Done")) BY <2>3 DEF Has
  <2>5. \A x : ~Has(<<>>, x) BY EmptyQueue, Zenon
  <2>6. ~OnTheWay(k, "Done") BY <1>1, <2>2, <2>4, <2>5, Zenon DEF OnTheWay, InFlight
  <2> QED BY <1>3, <2>6
<1>7. LateIsSender /\ FailedFirst /\ LateNeverPasses
  BY <1>5, Zenon DEF LateIsSender, FailedFirst, LateNeverPasses
<1>8. ReportsTrue BY <1>1, <1>3 DEF ReportsTrue
<1>9. VerdictLast
  <2>1. cic = "setup" /\ verdict = "none" BY Zenon
  <2> QED BY <2>1 DEF VerdictLast
<1> QED BY <1>2, <1>4, <1>6, <1>7, <1>8, <1>9, Zenon DEF BwCapInv

\* A step that changes nothing keeps the invariant.
LEMMA StutterInv ==
  ASSUME BwCapInv, UNCHANGED vars
  PROVE  BwCapInv'
<1>1. UNCHANGED <<rx, client, socket, pings, dropped, agent, writer, tuner, outcome, cmd_rx,
                  cic, shutdown_sent, dispatch, ported, results, killed, verdict, cic_rx>>
  BY Zenon DEF vars
<1>2. TypeOK' BY <1>1, Zenon DEF BwCapInv, TypeOK
<1>3. TunersInOrder' BY <1>1, Zenon DEF BwCapInv, TunersInOrder
<1>4. LateIsSender' /\ LateNeverPasses'
  BY <1>1, Zenon DEF BwCapInv, LateIsSender, LateNeverPasses, Late, Lost
<1>5. DoneIsReal' BY <1>1, Zenon DEF BwCapInv, DoneIsReal, OnTheWay
<1>6. FailedFirst' BY <1>1, Zenon DEF BwCapInv, FailedFirst, Alive, Late, Lost
<1>7. ReportsTrue' BY <1>1, Zenon DEF BwCapInv, ReportsTrue
<1>8. VerdictLast' BY <1>1, Zenon DEF BwCapInv, VerdictLast, AllFinished
<1> QED BY <1>2, <1>3, <1>4, <1>5, <1>6, <1>7, <1>8, Zenon DEF BwCapInv

\* The inductive invariant of the test program (Cic::run, the tuners): a Done that is on its
\* way to a tuner is real, the Failed of a read error stays ahead of it, and what
\* the tuners report and the program concludes is what they have seen.
THEOREM BwCapCorrect == Spec => []BwCapInv
<1>1. BwCapInv /\ Next => BwCapInv'
  BY TypeStep, TunersInOrderStep, LateIsSenderStep, DoneIsRealStep, FailedFirstStep,
     LateNeverPassesStep, ReportsTrueStep, VerdictLastStep, Zenon DEF BwCapInv
<1>2. BwCapInv /\ UNCHANGED vars => BwCapInv' BY StutterInv, Zenon
<1>3. Init => BwCapInv BY InitInv, Zenon
<1> QED BY <1>1, <1>2, <1>3, PTL DEF Spec

\* A result Pass that the CIC has collected is backed by a Done that the tuner's
\* own agent sent about this stream, and no read error was reported before it
\* unless a report was dropped (wait_for_agent_done, wait_for_receiver_done).
THEOREM ResultsAreReal == Spec => []PassIsReal
<1>1. BwCapInv => PassIsReal
  <2> SUFFICES ASSUME BwCapInv, NEW k \in Keys, results[k] = "Pass"
               PROVE  agent[k] = "done" \/ (agent[k] = "late_done" /\ Lost(k))
    BY Zenon DEF PassIsReal
  <2>1. results[k] # "none" BY Zenon
  <2>2. outcome[k] = "Pass" BY <2>1, Zenon DEF BwCapInv, ReportsTrue
  <2>3. agent[k] \in {"done", "late_done"} BY <2>2, Zenon DEF BwCapInv, DoneIsReal
  <2>4. agent[k] = "late_done" => Lost(k)
    BY <2>2, Zenon DEF BwCapInv, LateNeverPasses, Late
  <2> QED BY <2>3, <2>4, Zenon
<1> QED BY <1>1, BwCapCorrect, PTL

\* Unless the failsafe ended the run, a program that passes has seen every stream
\* finished on both sides (real_main).
THEOREM VerdictIsSound == Spec => []VerdictSound
<1>1. BwCapInv /\ PassIsReal => VerdictSound
  BY Zenon DEF BwCapInv, VerdictLast, PassIsReal, VerdictSound
<1> QED BY <1>1, BwCapCorrect, ResultsAreReal, PTL
=============================================================================
