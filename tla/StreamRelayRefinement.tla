------------------------ MODULE StreamRelayRefinement -----------------------
(***************************************************************************)
(* What StreamRelay reports. A Done that the sending client hears is true, *)
(* for every number of outages; one that the receiving client hears is     *)
(* true until the link fails for the second time; and StreamRelay          *)
(* implements ByteRelay, with a bandwidth cap and without one.             *)
(* CompletionInv says which FINs and which Dones can reach the tasks of    *)
(* this stream: those of streams that were dropped cannot reach a living   *)
(* AckTask, nor, before the second outage (OneOutageInv), a living         *)
(* run_downlink.                                                           *)
(***************************************************************************)
EXTENDS StreamRelayProofs, RelayModes

USE SMTT(30)
USE DEF spoolVars, pumpVars, ackVars, linkVars, wireVars, downVars, cbVars

(* Streams that have been opened *)

\* The members of a queue after an item is taken from it or added to it.
LEMMA QueueRanges ==
  ASSUME NEW S, NEW s \in Seq(S)
  PROVE  /\ s # <<>> => Head(s) \in Range(s)
         /\ \A e \in S : Range(Append(s, e)) = Range(s) \union {e}
         /\ \A e \in Range(s) : e \in S /\ \E i \in 1 .. Len(s) : e = s[i]
         /\ \A i \in 1 .. Len(s) : s[i] \in Range(s)
<1>1. DOMAIN s = 1 .. Len(s) /\ Len(s) \in Nat OBVIOUS
<1>2. \A i \in 1 .. Len(s) : s[i] \in Range(s) BY <1>1, Zenon DEF Range
<1>3. \A e \in Range(s) : e \in S /\ \E i \in 1 .. Len(s) : e = s[i] BY <1>1 DEF Range
<1>4. s # <<>> => Head(s) \in Range(s) BY <1>2, HeadAt, Zenon
<1>5. ASSUME NEW e \in S PROVE Range(Append(s, e)) = Range(s) \union {e}
  <2>1. /\ DOMAIN Append(s, e) = 1 .. Len(s) + 1
        /\ \A i \in 1 .. Len(s) : Append(s, e)[i] = s[i]
        /\ Append(s, e)[Len(s) + 1] = e
    BY AppendAt
  <2>2. Range(Append(s, e)) \subseteq Range(s) \union {e}
    <3> SUFFICES ASSUME NEW i \in 1 .. Len(s) + 1 PROVE Append(s, e)[i] \in Range(s) \union {e}
      BY <2>1, Zenon DEF Range
    <3>1. CASE i = Len(s) + 1 BY <2>1, <3>1, Zenon
    <3>2. CASE i \in 1 .. Len(s) BY <1>2, <2>1, <3>2, Zenon
    <3> QED BY <1>1, <3>1, <3>2
  <2>3. Range(s) \union {e} \subseteq Range(Append(s, e))
    <3>1. Len(s) + 1 \in 1 .. Len(s) + 1 /\ \A i \in 1 .. Len(s) : i \in 1 .. Len(s) + 1 BY <1>1
    <3>2. e \in Range(Append(s, e)) BY <2>1, <3>1, Zenon DEF Range
    <3>3. \A i \in 1 .. Len(s) : s[i] \in Range(Append(s, e)) BY <2>1, <3>1, Zenon DEF Range
    <3> QED BY <1>3, <3>2, <3>3, Zenon
  <2> QED BY <2>2, <2>3, Zenon
<1> QED BY <1>2, <1>3, <1>4, <1>5, Zenon

\* The tasks of the sending agent only have streams that are open.
LEMMA OpenedNow ==
  ASSUME TypeOK, StreamsInOrder
  PROVE  Opened(tx_gen) /\ Opened(rx_gen) /\ \A g \in Range(stream_rx) : Opened(g)
<1>1. stream_rx \in Seq(Gens) BY Zenon DEF TypeOK, UplinkOK
<1>2. /\ tx_gen \in Nat /\ rx_gen \in Nat /\ gen \in Nat
      /\ \A i \in 1 .. Len(stream_rx) : stream_rx[i] \in Nat
  BY GenTypes, Zenon
<1>3. Opened(tx_gen) /\ Opened(rx_gen) BY <1>2 DEF Opened, StreamsInOrder
<1>4. \A i \in 1 .. Len(stream_rx) : Opened(stream_rx[i])
  BY <1>2 DEF Opened, StreamsInOrder
<1> QED BY <1>1, <1>3, <1>4, QueueRanges

\* A stream that is open stays so.
LEMMA OpenedStep ==
  ASSUME TypeOK, [Next]_vars, NEW g \in Gens, Opened(g)
  PROVE  Opened(g)'
<1>1. g \in Nat /\ gen \in Nat BY RelayAssumption DEF TypeOK, WireOK, Gens
<1>2. CASE UNCHANGED <<gen, restored>> BY <1>2, Zenon DEF Opened
<1>3. CASE restore_active
  <2>1. gen' = gen /\ restored' BY <1>3, Zenon DEF restore_active
  <2> QED BY <2>1, Zenon DEF Opened
<1>4. CASE LinkRestored
  <2>1. gen' = gen + 1 BY <1>4, Zenon DEF LinkRestored
  <2> QED BY <1>1, <2>1 DEF Opened
<1>5. ASSUME \/ TcpStep \/ TimerStep \/ PumpStep \/ AckStep \/ MgrStreamFinished
             \/ AcceptStep \/ DownStep \/ LinkLost \/ UNCHANGED vars
      PROVE  UNCHANGED <<gen, restored>>
  BY <1>5, Zenon DEF vars, TcpStep, TimerStep, PumpStep, AckStep, AcceptStep, DownStep,
     TcpAccept, TcpAcceptFail, TcpFull, TcpWake, TcpRead, TcpEof, TcpReadError,
     TimerTicket, PumpTicket, PumpWrite, PumpWriteError, PumpDrainEnd, PumpFinish,
     PumpLinkDown, PumpLinkUpIgnored, PumpLinkUp, PumpWaitFinish, PumpDiscardTicket,
     PumpClosed, AckSendFinish, AckDataReady, on_ack, AckDone, AckError, AckStreamError,
     AckNewStream, AckLinkUpFailed, AckHandleGone, MgrStreamFinished, AcceptNew,
     AcceptBindFail, AcceptReconnect, DownRecvFirst, DownAccept, DownAcceptFail,
     DownDuplicate, DownChunk, DownFail, DownFin, DownReadError, DownNewStream, LinkLost
<1> QED BY <1>2, <1>3, <1>4, <1>5, Zenon DEF Next, MgrStep

\* The AckTask gets a stream once, when it is opened, and keeps it until it takes
\* the next.
LEMMA AckedShape ==
  ASSUME TypeOK, [Next]_vars, NEW g \in Gens, Acked(g)'
  PROVE  Acked(g) \/ ~Opened(g)
<1>1. acker' # "exited" /\ (g = rx_gen' \/ g \in Range(stream_rx)') BY Zenon DEF Acked
<1>2. stream_rx \in Seq(Gens) /\ gen \in Gens BY Zenon DEF TypeOK, UplinkOK, WireOK
<1>3. CASE UNCHANGED <<acker, rx_gen, stream_rx>> BY <1>1, <1>3, Zenon DEF Acked
<1>4. CASE AckStreamError
  <2>1. acker # "exited" /\ UNCHANGED <<rx_gen, stream_rx>>
    BY <1>4, Zenon DEF AckStreamError, AckIdle
  <2> QED BY <1>1, <2>1, Zenon DEF Acked
<1>5. CASE AckNewStream
  <2>1. /\ acker # "exited" /\ stream_rx # <<>>
        /\ rx_gen' = Head(stream_rx) /\ stream_rx' = Tail(stream_rx)
    BY <1>5, Zenon DEF AckNewStream, AckIdle, FreshStream
  <2>2. Head(stream_rx) \in Range(stream_rx) /\ Range(Tail(stream_rx)) \subseteq Range(stream_rx)
    BY <1>2, <2>1, QueueRanges, TailRange, Zenon
  <2> QED BY <1>1, <2>1, <2>2, Zenon DEF Acked
<1>6. CASE restore_active
  <2>1. /\ ~restored /\ UNCHANGED <<acker, rx_gen>>
        /\ stream_rx' = stream_rx \/ stream_rx' = Append(stream_rx, gen)
    BY <1>6, Zenon DEF restore_active, RestoreStream
  <2>2. Range(Append(stream_rx, gen)) = Range(stream_rx) \union {gen} BY <1>2, QueueRanges
  <2>3. ~Opened(gen) BY <1>2, <2>1, RelayAssumption DEF Opened, Gens
  <2>4. Range(stream_rx)' \subseteq Range(stream_rx) \union {gen} BY <2>1, <2>2, Zenon DEF Range
  <2>5. g = rx_gen \/ g \in Range(stream_rx) \/ g = gen BY <1>1, <2>1, <2>4, Zenon
  <2> QED BY <1>1, <2>1, <2>3, <2>5, Zenon DEF Acked
<1>7. ASSUME AckDone \/ AckError \/ AckLinkUpFailed \/ AckHandleGone PROVE acker' = "exited"
  BY <1>7, Zenon DEF AckDone, AckError, AckLinkUpFailed, AckHandleGone, AckExit
<1>8. ASSUME \/ TcpStep \/ TimerStep \/ PumpStep \/ AckSendFinish \/ AckDataReady \/ on_ack
             \/ MgrStreamFinished \/ AcceptStep \/ DownStep \/ LinkLost \/ LinkRestored
             \/ UNCHANGED vars
      PROVE  UNCHANGED <<acker, rx_gen, stream_rx>>
  BY <1>8, Zenon DEF vars, TcpStep, TimerStep, PumpStep, AcceptStep, DownStep,
     TcpAccept, TcpAcceptFail, TcpFull, TcpWake, TcpRead, TcpEof, TcpReadError,
     TimerTicket, PumpTicket, PumpWrite, PumpWriteError, PumpDrainEnd, PumpFinish,
     PumpLinkDown, PumpLinkUpIgnored, PumpLinkUp, PumpWaitFinish, PumpDiscardTicket,
     PumpClosed, AckSendFinish, AckDataReady, on_ack, MgrStreamFinished, AcceptNew,
     AcceptBindFail, AcceptReconnect, DownRecvFirst, DownAccept, DownAcceptFail,
     DownDuplicate, DownChunk, DownFail, DownFin, DownReadError, DownNewStream, LinkLost,
     LinkRestored
<1> QED BY <1>1, <1>3, <1>4, <1>5, <1>6, <1>7, <1>8, Zenon DEF Next, AckStep, MgrStep
-----------------------------------------------------------------------------
(* What the clients see *)

\* A message at the head of the AckTask's stream is one of that stream's messages.
LEMMA MsgNow ==
  ASSUME TypeOK, NEW op, Msg(op)
  PROVE  /\ rx_gen \in Gens /\ 1 \in 1 .. Len(feedback[rx_gen])
         /\ feedback[rx_gen][1].op = op
<1>1. rx_gen \in Gens /\ feedback[rx_gen] \in Seq(MsgType) BY Zenon DEF TypeOK, UplinkOK, WireOK
<1> QED BY <1>1, TailAt DEF Msg

\* Every step is a step of ByteRelay or unseen by both clients: the reader
\* accepts and closes, run_downlink delivers, the AckTask confirms.
LEMMA RelayStep ==
  ASSUME TypeOK, StreamsInOrder, DeliveryInv, CompletionInv, [Next]_vars
  PROVE  [Relay!Next]_(Relay!vars)
<1>1. SpoolConsistent /\ DeliveredIntact' BY IntactStep, Zenon DEF DeliveryInv
<1>2. CASE UNCHANGED <<spool, bytes_written, up_cb>> BY <1>2, Zenon DEF Relay!vars, T, AtEof
<1>3. CASE \E n \in 1 .. CHUNK_SIZE : TcpRead(n)
  <2> PICK n \in 1 .. CHUNK_SIZE : TcpRead(n) BY <1>3, Zenon
  <2>1. n \in Nat /\ n > 0 BY RelayAssumption
  <2>2. spool' = Push(spool, n) /\ UNCHANGED <<bytes_written, up_cb>> BY Zenon DEF TcpRead
  <2>3. spool.head # EOF BY Zenon DEF TcpRead, TypeOK, UplinkOK, AtEof
  <2>4. T' = T + n /\ spool'.head = spool.head + n
    BY <1>1, <2>1, <2>2, <2>3, SpoolNow, SpoolMoves, Zenon DEF T
  <2>5. spool'.head # EOF BY <1>1, <2>1, <2>3, <2>4, SpoolNow DEF EOF
  <2>6. T \in Nat /\ T' \in Nat /\ T' > T BY <1>1, <2>1, <2>4, SpoolNow
  <2> QED BY <2>2, <2>3, <2>5, <2>6, Zenon DEF Relay!Next, Relay!Accept, AtEof
<1>4. CASE TcpEof \/ TcpReadError
  <2>1. /\ reader # "exited" /\ spool' = SetEof(spool) /\ UNCHANGED bytes_written
        /\ ("Done" \in up_cb') = ("Done" \in up_cb)
    BY <1>4 DEF TcpEof, TcpReadError, handle_eof
  <2>2. ~AtEof BY <2>1, Zenon DEF TypeOK, UplinkOK
  <2>3. 0 \in Nat OBVIOUS
  <2>4. T' = T /\ AtEof' BY <1>1, <2>1, <2>3, SpoolNow, SpoolMoves, Zenon DEF T, AtEof
  <2> QED BY <2>1, <2>2, <2>4, Zenon DEF Relay!Next, Relay!Close
<1>5. CASE on_ack
  <2>1. AckedCount \in Nat /\ spool' = AckTo(spool, AckedCount) /\ UNCHANGED <<bytes_written,
     up_cb>>
    BY <1>5, AckNow, Zenon DEF on_ack
  <2>2. spool'.head = spool.head /\ T' = T BY <1>1, <2>1, SpoolNow, SpoolMoves, Zenon DEF T
  <2> QED BY <2>1, <2>2, Zenon DEF Relay!vars, AtEof
<1>6. CASE DownChunk
  <2>1. /\ HasChunk /\ ~Duplicate /\ bytes_written' = WrittenAfter /\ UNCHANGED <<spool, up_cb>>
    BY <1>6, Zenon DEF DownChunk
  <2>2. data[down_gen] # <<>> BY <2>1, Zenon DEF HasChunk
  <2>3. bytes_written' \in Nat /\ bytes_written' > bytes_written
    BY <1>1, <2>1, <2>2, ItemNow, SpoolNow DEF Duplicate, End
  <2>4. bytes_written' <= T' BY <1>1, Zenon DEF DeliveredIntact
  <2>5. T' = T /\ AtEof' = AtEof BY <2>1, Zenon DEF T, AtEof
  <2> QED BY <2>1, <2>3, <2>4, <2>5, Zenon DEF Relay!Next, Relay!Deliver
<1>7. CASE AckDone
  <2>1. Msg("Done") /\ acker # "exited" /\ up_cb' = up_cb \union {"Done"} /\ UNCHANGED <<spool,
     bytes_written>>
    BY <1>7, Zenon DEF AckDone, AckIdle
  <2>2. rx_gen \in Gens /\ Acked(rx_gen) BY <2>1, MsgNow, Zenon DEF Acked
  <2>3. Complete BY <2>1, <2>2, MsgNow DEF CompletionInv, DoneIsTrue
  <2> QED BY <2>1, <2>3, Zenon DEF Relay!Next, Relay!Confirm, Complete, T, AtEof
<1>8. CASE TcpAcceptFail \/ AckError \/ AckHandleGone
  <2>1. up_cb' = up_cb \union {"Failed"} /\ UNCHANGED <<spool, bytes_written>>
    BY <1>8, Zenon DEF TcpAcceptFail, AckError, AckHandleGone
  <2> QED BY <2>1 DEF Relay!vars, T, AtEof
<1>9. ASSUME \/ TcpAccept \/ TcpFull \/ TcpWake \/ TimerStep \/ PumpStep
             \/ AckSendFinish \/ AckDataReady \/ AckStreamError \/ AckNewStream
             \/ AckLinkUpFailed \/ MgrStep \/ AcceptStep \/ DownRecvFirst \/ DownAccept
             \/ DownAcceptFail \/ DownDuplicate \/ DownFail \/ DownFin \/ DownReadError
             \/ DownNewStream \/ LinkLost \/ LinkRestored \/ UNCHANGED vars
      PROVE  UNCHANGED <<spool, bytes_written, up_cb>>
  BY <1>9, Zenon DEF vars, TimerStep, PumpStep, MgrStep, AcceptStep, TcpAccept, TcpFull, TcpWake,
     TimerTicket, PumpTicket, PumpWrite, PumpWriteError, PumpDrainEnd, PumpFinish,
     PumpLinkDown, PumpLinkUpIgnored, PumpLinkUp, PumpWaitFinish, PumpDiscardTicket,
     PumpClosed, AckSendFinish, AckDataReady, AckStreamError, AckNewStream, AckLinkUpFailed,
     MgrStreamFinished, restore_active, AcceptNew, AcceptBindFail, AcceptReconnect,
     DownRecvFirst, DownAccept, DownAcceptFail, DownDuplicate, DownFail, DownFin,
     DownReadError, DownNewStream, LinkLost, LinkRestored
<1> QED
  BY <1>2, <1>3, <1>4, <1>5, <1>6, <1>7, <1>8, <1>9, Zenon DEF Next, TcpStep, AckStep, DownStep

\* Once the client's socket is closed, nothing more is accepted.
LEMMA ClosedStep ==
  ASSUME TypeOK, StreamsInOrder, DeliveryInv, CompletionInv, [Next]_vars, AtEof
  PROVE  AtEof' /\ T' = T
<1>1. Relay!Deliver \/ Relay!Confirm \/ UNCHANGED Relay!vars
  BY RelayStep, Zenon DEF Relay!Next, Relay!Accept, Relay!Close
<1>2. CASE Relay!Deliver BY <1>2, Zenon DEF Relay!Deliver
<1>3. CASE Relay!Confirm BY <1>3, Zenon DEF Relay!Confirm
<1>4. CASE UNCHANGED Relay!vars BY <1>4, Zenon DEF Relay!vars
<1> QED BY <1>1, <1>2, <1>3, <1>4, Zenon

\* When all is written, it stays so.
LEMMA CompleteStep ==
  ASSUME TypeOK, StreamsInOrder, DeliveryInv, CompletionInv, [Next]_vars,
         AtEof, bytes_written = T
  PROVE  bytes_written' = T'
<1>1. T \in Nat /\ bytes_written \in Nat /\ bytes_written' \in Nat
  BY SpoolNow, DownlinkStep, Zenon DEF DeliveryInv, DownlinkOK
<1>2. bytes_written <= bytes_written' BY WrittenStep, Zenon
<1>3. bytes_written' <= T' BY IntactStep, Zenon DEF DeliveredIntact
<1> QED BY <1>1, <1>2, <1>3, ClosedStep

-----------------------------------------------------------------------------
(* Nothing is on a stream before it is opened *)

\* The receiving task gets its streams from its channel, and the channel from
\* the headers accept_loop takes.
LEMMA HandedStep ==
  ASSUME TypeOK, UnopenedEmpty, [Next]_vars
  PROVE  Opened(down_gen') /\ \A g \in Range(down_rx') : Opened(g)
<1>1. /\ down_rx \in Seq(Gens) /\ inbound \in Seq(OpenType)
      /\ \A h \in OpenType : h.gen \in Gens
  BY Zenon DEF TypeOK, DownlinkOK, WireOK, OpenType
<1>2. /\ Opened(down_gen) /\ \A g \in Range(down_rx) : Opened(g)
      /\ \A i \in 1 .. Len(inbound) : Opened(inbound[i].gen)
  BY Zenon DEF UnopenedEmpty
<1>3. inbound # <<>> => Opened(Head(inbound).gen) /\ Head(inbound).gen \in Gens
  BY <1>1, <1>2, HeadAt, HeadTail, Zenon
<1>4. down_rx # <<>> => /\ Head(down_rx) \in Range(down_rx)
                        /\ Range(Tail(down_rx)) \subseteq Range(down_rx)
  BY <1>1, QueueRanges, TailRange, Zenon
<1>5. CASE UNCHANGED <<down_gen, down_rx>> BY <1>2, <1>5, Zenon
<1>6. CASE DownRecvFirst \/ DownNewStream
  <2>1. down_rx # <<>> /\ down_gen' = Head(down_rx) /\ down_rx' = Tail(down_rx)
    BY <1>6, Zenon DEF DownRecvFirst, DownNewStream
  <2> QED BY <1>2, <1>4, <2>1, Zenon
<1>7. CASE DownAcceptFail \/ DownFail \/ DownFin
  <2>1. down_gen' = down_gen /\ down_rx' = <<>>
    BY <1>7, Zenon DEF DownAcceptFail, DownFail, DownFin, DownExit
  <2>2. Range(<<>>) = {} BY DEF Range
  <2> QED BY <1>2, <2>1, <2>2, Zenon
<1>8. CASE AcceptNew
  <2>1. inbound # <<>> /\ down_gen' = down_gen /\ down_rx' = <<Head(inbound).gen>>
    BY <1>8, Zenon DEF AcceptNew, Inbound, spawn_downlink_from
  <2>2. \A g \in Range(<<Head(inbound).gen>>) : g = Head(inbound).gen BY DEF Range
  <2> QED BY <1>2, <1>3, <2>1, <2>2, Zenon
<1>9. CASE AcceptReconnect
  <2>1. /\ inbound # <<>> /\ down_gen' = down_gen
        /\ down_rx' = down_rx \/ down_rx' = Append(down_rx, Head(inbound).gen)
    BY <1>9, Zenon DEF AcceptReconnect, Inbound
  <2>2. Range(Append(down_rx, Head(inbound).gen)) = Range(down_rx) \union {Head(inbound).gen}
    BY <1>1, <1>3, <2>1, QueueRanges, Zenon
  <2>3. Range(down_rx') \subseteq Range(down_rx) \union {Head(inbound).gen}
    BY <2>1, <2>2, Zenon DEF Range
  <2> QED BY <1>2, <1>3, <2>1, <2>3, Zenon
<1>10. ASSUME \/ TcpStep \/ TimerStep \/ PumpStep \/ AckStep \/ MgrStep \/ AcceptBindFail
              \/ DownAccept \/ DownDuplicate \/ DownChunk \/ DownReadError \/ LinkLost
              \/ LinkRestored \/ UNCHANGED vars
      PROVE  UNCHANGED <<down_gen, down_rx>>
  BY <1>10, Zenon DEF vars, TcpStep, TimerStep, PumpStep, AckStep, MgrStep,
     TcpAccept, TcpAcceptFail, TcpFull, TcpWake, TcpRead, TcpEof, TcpReadError,
     TimerTicket, PumpTicket, PumpWrite, PumpWriteError, PumpDrainEnd, PumpFinish,
     PumpLinkDown, PumpLinkUpIgnored, PumpLinkUp, PumpWaitFinish, PumpDiscardTicket,
     PumpClosed, AckSendFinish, AckDataReady, on_ack, AckDone, AckError, AckStreamError,
     AckNewStream, AckLinkUpFailed, AckHandleGone, MgrStreamFinished, restore_active,
     AcceptBindFail, DownAccept, DownDuplicate, DownChunk, DownReadError, LinkLost, LinkRestored
<1> QED
  BY <1>5, <1>6, <1>7, <1>8, <1>9, <1>10, Zenon DEF Next, AcceptStep, DownStep

\* No data is put on a stream that is not open.
LEMMA UnopenedData ==
  ASSUME TypeOK, StreamsInOrder, DeliveryInv, UnopenedEmpty, [Next]_vars,
         NEW g \in Gens, ~Opened(g)'
  PROVE  data'[g] = <<>>
<1>1. ~Opened(g) BY OpenedStep, Zenon
<1>2. data[g] = <<>> BY <1>1, Zenon DEF UnopenedEmpty
<1>3. CASE \E n \in 1 .. CHUNK_SIZE : PumpWrite(n)
  <2> PICK n \in 1 .. CHUNK_SIZE : PumpWrite(n) BY <1>3, Zenon
  <2>1. \A h \in Gens : h # tx_gen => data'[h] = data[h] BY PumpNow, Zenon DEF DeliveryInv
  <2>2. g # tx_gen BY <1>1, OpenedNow, Zenon
  <2> QED BY <1>2, <2>1, <2>2, Zenon
<1>4. CASE Moved(g)
  <2>1. ~Ended(g)
    <3>1. g # tx_gen /\ g \notin Range(stream_rx) BY <1>1, OpenedNow, Zenon
    <3>2. ~(restore_active /\ g = gen)
      <4>1. restore_active => restored' /\ gen' = gen BY Zenon DEF restore_active
      <4> QED BY <4>1, Zenon DEF Opened
    <3> QED BY <3>1, <3>2, Zenon DEF Ended
  <2>2. \A p \in Prefixes(<<>>) : p = <<>> BY DEF Prefixes
  <2> QED BY <1>2, <1>4, <2>1, <2>2, Zenon DEF Moved, Taken
<1> QED BY <1>3, <1>4, DataStep, Zenon

\* Nor is an answer.
LEMMA UnopenedFeedback ==
  ASSUME TypeOK, UnopenedEmpty, [Next]_vars, NEW g \in Gens, ~Opened(g)'
  PROVE  feedback'[g] = <<>>
<1>1. ~Opened(g) BY OpenedStep, Zenon
<1>2. feedback[g] = <<>> /\ g # down_gen BY <1>1, Zenon DEF UnopenedEmpty
<1>3. feedback'[g] \in Seq(MsgType) BY WireStep, Zenon DEF WireOK
<1>4. \A i \in 1 .. Len(feedback'[g]) : ~WasThere(g, i) /\ ~Replied(g, i)
  BY <1>2 DEF WasThere, Replied
<1>5. \A i \in 1 .. Len(feedback'[g]) : FALSE BY <1>4, FeedStep, Zenon
<1> QED BY <1>3, <1>5

\* Every step keeps it so that what is not open is unknown and empty.
LEMMA UnopenedStep ==
  ASSUME TypeOK, StreamsInOrder, DeliveryInv, UnopenedEmpty, [Next]_vars
  PROVE  UnopenedEmpty'
<1>1. down_gen' \in Gens /\ down_rx' \in Seq(Gens) BY DownlinkStep, Zenon DEF DownlinkOK
<1>2. Opened(down_gen)' BY <1>1, HandedStep, OpenedStep, Zenon DEF Opened
<1>3. ASSUME NEW g \in Range(down_rx') PROVE Opened(g)'
  <2>1. g \in Gens BY <1>1, QueueRanges, Zenon
  <2>2. Opened(g) BY HandedStep, Zenon
  <2> QED BY <2>1, <2>2, OpenedStep, Zenon
<1>4. ASSUME NEW i \in 1 .. Len(inbound') PROVE Opened(inbound[i].gen)'
  <2>1. \A j \in 1 .. Len(inbound) : inbound[j].gen \in Gens /\ Opened(inbound[j].gen)
    <3>1. inbound \in Seq(OpenType) BY Zenon DEF TypeOK, WireOK
    <3>2. \A j \in 1 .. Len(inbound) : inbound[j] \in OpenType BY <3>1
    <3> QED BY <3>2, Zenon DEF OpenType, UnopenedEmpty
  <2>2. \/ \E j \in 1 .. Len(inbound) : inbound'[i] = inbound[j]
        \/ inbound'[i].gen = gen /\ gen' = gen /\ restored'
    BY InboundStep, Zenon
  <2>3. CASE \E j \in 1 .. Len(inbound) : inbound'[i] = inbound[j]
    BY <2>1, <2>3, OpenedStep, Zenon DEF Opened
  <2>4. CASE inbound'[i].gen = gen /\ gen' = gen /\ restored' BY <2>4, Zenon DEF Opened
  <2> QED BY <2>2, <2>3, <2>4, Zenon
<1> QED BY <1>2, <1>3, <1>4, UnopenedData, UnopenedFeedback, Zenon DEF UnopenedEmpty

-----------------------------------------------------------------------------
(* The pump's FIN is behind all that the client wrote *)

\* The pump's exit is final.
LEMMA PumpExitedStep ==
  ASSUME TypeOK, [Next]_vars, pump = "exited"
  PROVE  pump' = "exited" /\ tx_gen' = tx_gen
<1>1. ASSUME PumpTicket \/ PumpWriteError \/ PumpDrainEnd \/ PumpFinish \/ PumpLinkDown
             \/ PumpLinkUpIgnored \/ PumpLinkUp \/ PumpWaitFinish \/ PumpDiscardTicket
             \/ PumpClosed \/ \E n \in 1 .. CHUNK_SIZE : PumpWrite(n)
      PROVE  FALSE
  BY <1>1, Zenon DEF PumpTicket, PumpWriteError, PumpDrainEnd, PumpFinish, PumpLinkDown,
     PumpLinkUpIgnored, PumpLinkUp, PumpWaitFinish, PumpDiscardTicket, PumpClosed, PumpWrite
<1>2. ASSUME \/ TcpStep \/ TimerStep \/ AckStep \/ MgrStep \/ AcceptStep \/ DownStep
             \/ LinkLost \/ LinkRestored \/ UNCHANGED vars
      PROVE  UNCHANGED <<pump, tx_gen>>
  BY <1>2, Zenon DEF vars, TcpStep, TimerStep, AckStep, MgrStep, AcceptStep, DownStep,
     TcpAccept, TcpAcceptFail, TcpFull, TcpWake, TcpRead, TcpEof, TcpReadError,
     TimerTicket, AckSendFinish, AckDataReady, on_ack, AckDone, AckError, AckStreamError,
     AckNewStream, AckLinkUpFailed, AckHandleGone, MgrStreamFinished, restore_active,
     AcceptNew, AcceptBindFail, AcceptReconnect, DownRecvFirst, DownAccept, DownAcceptFail,
     DownDuplicate, DownChunk, DownFail, DownFin, DownReadError, DownNewStream, LinkLost,
     LinkRestored
<1> QED BY <1>1, <1>2, Zenon DEF Next, PumpStep

\* What FinIsLast says of item i of stream g, after the step, if the item
\* before it ends at e.
LastWord(g, e, first) ==
    /\ g = tx_gen' /\ pump' = "exited" /\ AtEof'
    /\ first => down' = "exited" \/ bytes_written' = T'
    /\ ~first => e = T'

\* A FIN that is on its way stays the last word.
LEMMA FinKept ==
  ASSUME TypeOK, StreamsInOrder, DeliveryInv, CompletionInv, [Next]_vars,
         NEW g \in Gens, FinIsLast(g), NEW i \in 1 .. Len(data[g]), ~IsChunk(data[g][i])
  PROVE  i = Len(data[g]) /\ LastWord(g, End(data[g][i - 1]), i = 1)
<1>1. /\ i = Len(data[g]) /\ g = tx_gen /\ pump = "exited" /\ AtEof
      /\ i = 1 => down = "exited" \/ bytes_written = T
      /\ i > 1 => End(data[g][i - 1]) = T
  BY Zenon DEF FinIsLast
<1>2. pump' = "exited" /\ tx_gen' = tx_gen BY <1>1, PumpExitedStep, Zenon
<1>3. AtEof' /\ T' = T BY <1>1, ClosedStep, Zenon
<1>4. down = "exited" => down' = "exited" BY ExitedStep, Zenon DEF DeliveryInv
<1>5. bytes_written = T => bytes_written' = T' BY <1>1, CompleteStep, Zenon
<1>6. i # 1 => i > 1 BY ItemTypes
<1> QED BY <1>1, <1>2, <1>3, <1>4, <1>5, <1>6, Zenon DEF LastWord

\* The FIN drain_alloc sends, once Finish is received and Q has reached T.
LEMMA FinSent ==
  ASSUME TypeOK, StreamsInOrder, DeliveryInv, CompletionInv, [Next]_vars,
         PumpDrainEnd, Drained, ~Broken(tx_gen), FinIsLast(tx_gen)
  PROVE  /\ \A i \in 1 .. Len(data[tx_gen]) : IsChunk(data[tx_gen][i])
         /\ LastWord(tx_gen, End(data[tx_gen][Len(data[tx_gen])]), Len(data[tx_gen]) = 0)
<1> DEFINE n == Len(data[tx_gen])
<1>1. tx_gen \in Gens BY Zenon DEF TypeOK, UplinkOK
<1>2. n \in Nat BY <1>1, ItemTypes, Zenon
<1>3. pump = "drain" /\ pump' = "exited" /\ UNCHANGED <<spool, tx_gen, bytes_written>>
  BY Zenon DEF PumpDrainEnd
<1>4. \A i \in 1 .. n : IsChunk(data[tx_gen][i])
  BY <1>3, Zenon DEF FinIsLast
<1>5. Running BY <1>3, Zenon DEF Running
<1>6. q \in Nat /\ T \in Nat /\ bytes_written \in Nat BY SpoolNow, Zenon DEF DeliveryInv
<1>7. q <= T BY <1>5, <1>6, SpoolNow DEF DeliveryInv, CursorInSpool
<1>8. AtEof /\ q = T BY <1>6, <1>7 DEF Drained, Backlog, T
<1>9. AtEof' /\ T' = T BY <1>3, <1>8, Zenon DEF AtEof, T
<1>10. /\ n = 0 => q <= bytes_written
       /\ n > 0 /\ IsChunk(data[tx_gen][n]) => End(data[tx_gen][n]) = q
  BY <1>5, Zenon DEF DeliveryInv, CursorAtEnd
<1>11. bytes_written <= T BY Zenon DEF DeliveryInv, DeliveredIntact
<1> HIDE DEF n
<1>12. n = 0 => bytes_written' = T' BY <1>3, <1>6, <1>8, <1>9, <1>10, <1>11
<1>13. n # 0 => End(data[tx_gen][n]) = T' BY <1>2, <1>4, <1>8, <1>9, <1>10
<1> QED BY <1>3, <1>4, <1>9, <1>12, <1>13, Zenon DEF LastWord, n

\* A step keeps the FIN on stream g the last word, unless it drops the stream.
LEMMA FinLastStep ==
  ASSUME TypeOK, StreamsInOrder, DeliveryInv, CompletionInv, [Next]_vars,
         NEW g \in Gens, FinIsLast(g),
         data'[g] = Append(data[g], FIN) /\ Ended(g)
            => PumpDrainEnd /\ Drained /\ g = tx_gen /\ ~Broken(g)
  PROVE  FinIsLast(g)'
<1> SUFFICES ASSUME NEW i \in 1 .. Len(data'[g]), ~IsChunk(data'[g][i])
             PROVE  i = Len(data'[g]) /\ LastWord(g, End(data'[g][i - 1]), i = 1)
  <2>1. WireOK' BY WireStep, Zenon
  <2>2. Len(data'[g]) \in Nat BY <2>1 DEF WireOK
  <2> QED BY <2>2 DEF FinIsLast, LastWord
<1>1. /\ data[g] \in Seq(ItemType) /\ Len(data[g]) \in Nat BY ItemTypes, Zenon
<1>3. CASE \E n \in 1 .. CHUNK_SIZE : PumpWrite(n)
  <2> PICK n \in 1 .. CHUNK_SIZE : PumpWrite(n) BY <1>3, Zenon
  <2>1. pump = "drain" BY Zenon DEF PumpWrite
  <2>2. \A j \in 1 .. Len(data[g]) : IsChunk(data[g][j])
    BY <2>1, Zenon DEF FinIsLast
  <2>3. \/ data'[g] = data[g]
        \/ data'[g] = Append(data[g], Chunk(q, q, n)) /\ Chunk(q, q, n) \in ItemType
    BY PumpNow, Zenon DEF DeliveryInv
  <2>4. IsChunk(Chunk(q, q, n)) BY Zenon DEF IsChunk, Chunk
  <2>5. CASE data'[g] = data[g] BY <2>2, <2>5, Zenon
  <2>6. CASE data'[g] = Append(data[g], Chunk(q, q, n)) /\ Chunk(q, q, n) \in ItemType
    <3>1. (i \in 1 .. Len(data[g]) /\ data'[g][i] = data[g][i]) \/ data'[g][i] = Chunk(q, q, n)
      BY <1>1, <2>6, AppendAt
    <3> QED BY <2>2, <2>4, <3>1, Zenon
  <2> QED BY <2>3, <2>5, <2>6, Zenon
<1>4. CASE data'[g] = data[g]
  BY <1>4, FinKept, Zenon
<1>5. CASE data'[g] = Append(data[g], FIN) /\ Ended(g)
  <2>3. PumpDrainEnd /\ Drained /\ g = tx_gen /\ ~Broken(g) BY <1>5, Zenon
  <2>6. /\ \A j \in 1 .. Len(data[g]) : IsChunk(data[g][j])
        /\ LastWord(g, End(data[g][Len(data[g])]), Len(data[g]) = 0)
    BY <2>3, FinSent, Zenon
  <2>7. /\ Len(data'[g]) = Len(data[g]) + 1
        /\ \A j \in 1 .. Len(data[g]) : data'[g][j] = data[g][j]
    BY <1>1, <1>5, AppendAt, MessageTypes
  <2>8. i = Len(data[g]) + 1 BY <1>1, <2>6, <2>7
  <2>9. i = 1 <=> Len(data[g]) = 0 BY <1>1, <2>8
  <2>10. Len(data[g]) # 0 => data'[g][i - 1] = data[g][Len(data[g])] BY <1>1, <2>7, <2>8
  <2> QED BY <2>6, <2>7, <2>8, <2>9, <2>10, Zenon DEF LastWord
<1>6. CASE data'[g] \in Prefixes(data[g])
  <2>1. Len(data'[g]) \in 0 .. Len(data[g]) /\ \A j \in 1 .. Len(data'[g]) : data'[g][j] = data[g][j]
    BY <1>1, <1>6, PrefixAt, Zenon
  <2>2. i \in 1 .. Len(data[g]) /\ ~IsChunk(data[g][i]) BY <1>1, <2>1
  <2>4. i = Len(data[g]) /\ LastWord(g, End(data[g][i - 1]), i = 1)
    BY <2>2, FinKept, Zenon
  <2>5. i # 1 => data'[g][i - 1] = data[g][i - 1] BY <1>1, <2>1
  <2>6. i = Len(data'[g]) BY <1>1, <2>1, <2>4
  <2> QED BY <2>4, <2>5, <2>6, Zenon DEF LastWord
<1>7. CASE Taken(g)
  <2>1. data[g] # <<>> /\ data'[g] = Tail(data[g]) BY <1>7, Zenon DEF Taken
  <2>2. /\ Len(data'[g]) = Len(data[g]) - 1
        /\ \A j \in 1 .. Len(data[g]) - 1 : data'[g][j] = data[g][j + 1]
    BY <1>1, <2>1, TailAt, Zenon
  <2>3. i + 1 \in 1 .. Len(data[g]) /\ ~IsChunk(data[g][i + 1]) BY <1>1, <2>2
  <2>4. i + 1 = Len(data[g]) /\ LastWord(g, End(data[g][i]), FALSE)
    <3>1. i + 1 = Len(data[g]) /\ LastWord(g, End(data[g][(i + 1) - 1]), i + 1 = 1)
      BY <2>3, FinKept, Zenon
    <3>2. (i + 1) - 1 = i /\ i + 1 # 1 BY <1>1
    <3> QED BY <3>1, <3>2, Zenon DEF LastWord
  <2>5. i = Len(data'[g]) BY <1>1, <2>2, <2>4
  <2>6. i # 1 => data'[g][i - 1] = data[g][i] BY <1>1, <2>2
  <2>7. i = 1 => down' = "exited" \/ bytes_written' = T'
    <3>1. bytes_written' <= T' /\ bytes_written' \in Nat /\ T' \in Nat
      BY IntactStep, DownlinkStep, HeadStep, Zenon DEF DeliveredIntact, DownlinkOK
    <3> QED BY <1>7, <2>4, <3>1 DEF Taken, LastWord
  <2> QED BY <2>4, <2>5, <2>6, <2>7, Zenon DEF LastWord
<1> QED BY <1>3, <1>4, <1>5, <1>6, <1>7, DataStep, ZenonT(30) DEF Moved

\* Nothing is on a stream that the AckTask gets in this step.
LEMMA FinBefore ==
  ASSUME TypeOK, StreamsInOrder, CompletionInv, [Next]_vars, NEW g \in Gens, Acked(g)'
  PROVE  FinIsLast(g)
<1>1. CASE data[g] = <<>>
  <2>1. Len(data[g]) = 0 BY <1>1
  <2> QED BY <2>1 DEF FinIsLast
<1>2. CASE data[g] # <<>>
  BY <1>2, AckedShape, Zenon DEF CompletionInv, UnopenedEmpty, FinEndsStream
<1> QED BY <1>1, <1>2, Zenon

\* Every step keeps FIN the last word of the streams of the AckTask.
LEMMA FinStep ==
  ASSUME TypeOK, StreamsInOrder, DeliveryInv, CompletionInv, [Next]_vars
  PROVE  FinEndsStream'
<1> SUFFICES ASSUME NEW g \in Gens, Acked(g)' PROVE FinIsLast(g)' BY Zenon DEF FinEndsStream
<1>1. ASSUME Ended(g) PROVE PumpDrainEnd /\ Drained /\ g = tx_gen /\ ~Broken(g)
  <2>1. ~(restore_active /\ g = gen /\ UNCHANGED stream_rx)
    <3> SUFFICES ASSUME restore_active, g = gen, UNCHANGED stream_rx PROVE FALSE OBVIOUS
    <3>1. ~restored /\ UNCHANGED <<acker, rx_gen>> BY Zenon DEF restore_active
    <3>2. g = rx_gen \/ g \in Range(stream_rx) BY <3>1, Zenon DEF Acked
    <3>3. rx_gen < gen /\ \A j \in 1 .. Len(stream_rx) : stream_rx[j] < gen
      BY <3>1, Zenon DEF StreamsInOrder
    <3>4. stream_rx \in Seq(Gens) BY Zenon DEF TypeOK, UplinkOK
    <3>5. g \notin Range(stream_rx)
      <4> SUFFICES ASSUME NEW j \in 1 .. Len(stream_rx), g = stream_rx[j] PROVE FALSE
        BY <3>4, QueueRanges
      <4> QED BY <3>3, GenTypes
    <3> QED BY <3>2, <3>3, <3>5, GenTypes
  <2>2. acker' # "exited" BY Zenon DEF Acked
  <2> QED BY <1>1, <2>1, <2>2, Zenon DEF Ended
<1> QED BY <1>1, FinBefore, FinLastStep, Zenon

-----------------------------------------------------------------------------
(* Done *)

\* Callbacks: run_downlink reports once, at its end; only the AckTask tells the
\* sending client Done, at its end.
LEMMA OutcomeShape ==
  ASSUME TypeOK, [Next]_vars
  PROVE  /\ down_cb' = down_cb \/ (down # "exited" /\ down' = "exited")
         /\ "Done" \in up_cb' => "Done" \in up_cb \/ AckDone
         /\ "Done" \in down_cb' => "Done" \in down_cb \/ DownFin
         /\ acker = "exited" => acker' = "exited"
<1>1. CASE UNCHANGED <<up_cb, down_cb, acker>> BY <1>1, Zenon
<1>2. CASE TcpAcceptFail \/ TcpReadError
  <2>1. up_cb' = up_cb \union {"Failed"} /\ UNCHANGED <<down_cb, acker>>
    BY <1>2, Zenon DEF TcpAcceptFail, TcpReadError
  <2> QED BY <2>1, Zenon
<1>3. CASE AckDone \/ AckError \/ AckHandleGone
  <2>1. UNCHANGED down_cb /\ acker' = "exited" /\ (AckDone \/ up_cb' = up_cb \union {"Failed"})
    BY <1>3, Zenon DEF AckDone, AckError, AckHandleGone, AckExit
  <2> QED BY <2>1, Zenon
<1>4. CASE AckStreamError \/ AckNewStream \/ AckLinkUpFailed
  <2>1. UNCHANGED <<up_cb, down_cb>> /\ (acker = "run" \/ acker = "wait")
    BY <1>4, Zenon DEF AckStreamError, AckNewStream, AckLinkUpFailed, AckIdle
  <2> QED BY <2>1, Zenon
<1>5. CASE DownAcceptFail \/ DownFail \/ DownFin
  <2>1. /\ UNCHANGED <<up_cb, acker>> /\ down # "exited" /\ down' = "exited"
        /\ DownFin \/ down_cb' = down_cb \union {"Failed"}
    BY <1>5, Zenon DEF DownAcceptFail, DownFail, DownFin, DownExit, HasChunk
  <2> QED BY <2>1, Zenon
<1>6. ASSUME \/ TcpAccept \/ TcpFull \/ TcpWake \/ (\E n \in 1 .. CHUNK_SIZE : TcpRead(n))
             \/ TcpEof \/ TimerStep \/ PumpStep \/ AckSendFinish \/ AckDataReady \/ on_ack
             \/ MgrStep \/ AcceptStep \/ DownRecvFirst \/ DownAccept \/ DownDuplicate
             \/ DownChunk \/ DownReadError \/ DownNewStream \/ LinkLost \/ LinkRestored
             \/ UNCHANGED vars
      PROVE  UNCHANGED <<up_cb, down_cb, acker>>
  BY <1>6, ZenonT(30) DEF vars, TimerStep, PumpStep, MgrStep, AcceptStep, TcpAccept, TcpFull,
     TcpWake,
     TcpRead, TcpEof, TimerTicket, PumpTicket, PumpWrite, PumpWriteError, PumpDrainEnd,
     PumpFinish, PumpLinkDown, PumpLinkUpIgnored, PumpLinkUp, PumpWaitFinish,
     PumpDiscardTicket, PumpClosed, AckSendFinish, AckDataReady, on_ack, MgrStreamFinished,
     restore_active, AcceptNew, AcceptBindFail, AcceptReconnect, DownRecvFirst, DownAccept,
     DownDuplicate, DownChunk, DownReadError, DownNewStream, LinkLost, LinkRestored
<1> QED
  BY <1>1, <1>2, <1>3, <1>4, <1>5, <1>6, ZenonT(30) DEF Next, TcpStep, AckStep, DownStep

\* A completed transfer stays so.
LEMMA CompletedStep ==
  ASSUME TypeOK, StreamsInOrder, DeliveryInv, CompletionInv, [Next]_vars,
         down = "exited", Complete
  PROVE  down' = "exited" /\ Complete'
<1>1. down' = "exited" BY ExitedStep, Zenon DEF DeliveryInv
<1>2. down_cb' = down_cb BY OutcomeShape, Zenon
<1>3. AtEof' /\ bytes_written' = T' BY ClosedStep, CompleteStep, Zenon DEF Complete
<1> QED BY <1>1, <1>2, <1>3, Zenon DEF Complete

\* A Done for the AckTask is only sent at the FIN of a stream it reads.
LEMMA DoneStep ==
  ASSUME TypeOK, StreamsInOrder, DeliveryInv, CompletionInv, [Next]_vars
  PROVE  DoneIsTrue'
<1> SUFFICES ASSUME NEW g \in Gens, Acked(g)',
                    NEW i \in 1 .. Len(feedback'[g]), feedback'[g][i].op = "Done"
             PROVE  down' = "exited" /\ Complete'
  BY Zenon DEF DoneIsTrue
<1>1. CASE WasThere(g, i)
  <2> PICK j \in 1 .. Len(feedback[g]) : feedback'[g][i] = feedback[g][j]
    BY <1>1, Zenon DEF WasThere
  <2>1. feedback[g] # <<>> OBVIOUS
  <2>2. Acked(g) BY <2>1, AckedShape, Zenon DEF CompletionInv, UnopenedEmpty
  <2>3. down = "exited" /\ Complete BY <2>2, Zenon DEF CompletionInv, DoneIsTrue
  <2> QED BY <2>3, CompletedStep, Zenon
<1>2. CASE Replied(g, i)
  <2>1. g = down_gen /\ DownFin BY <1>2, Zenon DEF Replied
  <2>2. /\ down = "read" /\ down' = "exited" /\ down_cb' = down_cb \union {"Done"}
        /\ data[g] # <<>> /\ ~IsChunk(NextItem)
        /\ UNCHANGED <<acker, rx_gen, stream_rx, spool, bytes_written>>
    BY <2>1, Zenon DEF DownFin, DownExit
  <2>3. Acked(g) BY <2>2, Zenon DEF Acked
  <2>4. 1 \in 1 .. Len(data[g]) /\ ~IsChunk(data[g][1]) BY <2>1, <2>2, ItemNow, Zenon
  <2>5. AtEof /\ bytes_written = T
    BY <2>2, <2>3, <2>4, Zenon DEF CompletionInv, FinEndsStream, FinIsLast
  <2>6. down_cb' = {"Done"} BY <2>2, Zenon DEF CompletionInv, OutcomesInOrder
  <2> QED BY <2>2, <2>5, <2>6, Zenon DEF Complete, AtEof, T
<1> QED BY <1>1, <1>2, FeedStep, Zenon

\* Every step keeps the outcomes in order.
LEMMA OutcomesStep ==
  ASSUME TypeOK, StreamsInOrder, DeliveryInv, CompletionInv, [Next]_vars
  PROVE  OutcomesInOrder'
<1>1. ASSUME down' # "exited" PROVE down_cb' = {}
  <2>1. down # "exited" BY <1>1, ExitedStep, Zenon DEF DeliveryInv
  <2> QED BY <1>1, <2>1, OutcomeShape, Zenon DEF CompletionInv, OutcomesInOrder
<1>2. ASSUME "Done" \in up_cb' PROVE acker' = "exited" /\ down' = "exited" /\ Complete'
  <2>1. CASE "Done" \in up_cb
    <3>1. acker = "exited" /\ down = "exited" /\ Complete
      BY <2>1, Zenon DEF CompletionInv, OutcomesInOrder
    <3> QED BY <3>1, OutcomeShape, CompletedStep, Zenon
  <2>2. CASE AckDone
    <3>1. Msg("Done") /\ acker # "exited" /\ acker' = "exited"
      BY <2>2, Zenon DEF AckDone, AckIdle, AckExit
    <3>2. rx_gen \in Gens /\ Acked(rx_gen) BY <3>1, MsgNow, Zenon DEF Acked
    <3>3. down = "exited" /\ Complete BY <3>1, <3>2, MsgNow DEF CompletionInv, DoneIsTrue
    <3> QED BY <3>1, <3>3, CompletedStep, Zenon
  <2> QED BY <1>2, <2>1, <2>2, OutcomeShape, Zenon
<1> QED BY <1>1, <1>2, Zenon DEF OutcomesInOrder

\* CompletionInv holds when the first stream is opened.
LEMMA InitCompletion == Init => CompletionInv
<1> SUFFICES ASSUME Init PROVE CompletionInv OBVIOUS
<1>1. /\ gen = 1 /\ restored /\ down_gen = 1 /\ down_rx = <<>> /\ inbound = <<NewStream>>
      /\ down = "none" /\ down_cb = {} /\ up_cb = {}
      /\ \A g \in Gens : data[g] = <<>> /\ feedback[g] = <<>>
  BY Zenon DEF Init
<1>2. Range(down_rx) = {} BY <1>1 DEF Range
<1>3. \A i \in 1 .. Len(inbound) : inbound[i].gen = 1 BY <1>1 DEF NewStream
<1>4. UnopenedEmpty BY <1>1, <1>2, <1>3, Zenon DEF UnopenedEmpty, Opened
<1>5. \A g \in Gens : Len(data[g]) = 0 /\ Len(feedback[g]) = 0 BY <1>1
<1>6. FinEndsStream /\ DoneIsTrue BY <1>5 DEF FinEndsStream, FinIsLast, DoneIsTrue
<1>7. OutcomesInOrder BY <1>1, Zenon DEF OutcomesInOrder
<1> QED BY <1>4, <1>6, <1>7, Zenon DEF CompletionInv

-----------------------------------------------------------------------------
(* One outage *)

\* How the AckTask ends, and that its handle does not come back.
LEMMA AckEnds ==
  ASSUME TypeOK, [Next]_vars
  PROVE  /\ acker' = "exited" => \/ acker = "exited" /\ rx_gen' = rx_gen
                                 \/ AckDone \/ AckError \/ AckLinkUpFailed \/ AckHandleGone
         /\ handle' => handle
<1>1. CASE UNCHANGED <<acker, rx_gen, handle>> BY <1>1, Zenon
<1>2. CASE AckDone \/ AckError \/ AckLinkUpFailed \/ AckHandleGone
  <2>1. UNCHANGED handle BY <1>2, Zenon DEF AckDone, AckError, AckLinkUpFailed, AckHandleGone
  <2> QED BY <1>2, <2>1, Zenon
<1>3. CASE AckStreamError \/ AckNewStream
  <2>1. acker' # "exited" /\ UNCHANGED handle BY <1>3, Zenon DEF AckStreamError, AckNewStream
  <2> QED BY <2>1, Zenon
<1>4. CASE MgrStreamFinished \/ restore_active
  <2>1. UNCHANGED <<acker, rx_gen>> BY <1>4, Zenon DEF MgrStreamFinished, restore_active
  <2>2. handle' => handle
    BY <1>4, Zenon DEF MgrStreamFinished, restore_active, RestoreStream
  <2> QED BY <2>1, <2>2, Zenon
<1>5. ASSUME \/ TcpStep \/ TimerStep \/ PumpStep \/ AckSendFinish \/ AckDataReady \/ on_ack
             \/ AcceptStep \/ DownStep \/ LinkLost \/ LinkRestored \/ UNCHANGED vars
      PROVE  UNCHANGED <<acker, rx_gen, handle>>
  BY <1>5, ZenonT(60) DEF vars, TcpStep, TimerStep, PumpStep, AcceptStep, DownStep, TcpAccept,
     TcpAcceptFail, TcpFull, TcpWake, TcpRead, TcpEof, TcpReadError, TimerTicket, PumpTicket,
     PumpWrite, PumpWriteError, PumpDrainEnd, PumpFinish, PumpLinkDown, PumpLinkUpIgnored,
     PumpLinkUp, PumpWaitFinish, PumpDiscardTicket, PumpClosed, AckSendFinish, AckDataReady,
     on_ack, AcceptNew, AcceptBindFail, AcceptReconnect, DownRecvFirst, DownAccept,
     DownAcceptFail, DownDuplicate, DownChunk, DownFail, DownFin, DownReadError,
     DownNewStream, LinkLost, LinkRestored
<1> QED BY <1>1, <1>2, <1>3, <1>4, <1>5, ZenonT(30) DEF Next, AckStep, MgrStep

\* Connections are only added.
LEMMA GenStep ==
  ASSUME TypeOK, [Next]_vars
  PROVE  gen <= gen'
<1>1. gen \in Nat BY GenTypes, Zenon
<1>2. CASE UNCHANGED gen BY <1>1, <1>2
<1>3. CASE LinkRestored
  <2>1. gen' = gen + 1 BY <1>3, Zenon DEF LinkRestored
  <2> QED BY <1>1, <2>1
<1>4. ASSUME \/ TcpStep \/ TimerStep \/ PumpStep \/ AckStep \/ MgrStep \/ AcceptStep
             \/ DownStep \/ LinkLost \/ UNCHANGED vars
      PROVE  UNCHANGED gen
  BY <1>4, ZenonT(60) DEF vars, TcpStep, TimerStep, PumpStep, AckStep, MgrStep, AcceptStep,
     DownStep, TcpAccept, TcpAcceptFail, TcpFull, TcpWake, TcpRead, TcpEof, TcpReadError,
     TimerTicket, PumpTicket, PumpWrite, PumpWriteError, PumpDrainEnd, PumpFinish,
     PumpLinkDown, PumpLinkUpIgnored, PumpLinkUp, PumpWaitFinish, PumpDiscardTicket,
     PumpClosed, AckSendFinish, AckDataReady, on_ack, AckDone, AckError, AckStreamError,
     AckNewStream, AckLinkUpFailed, AckHandleGone, MgrStreamFinished, restore_active,
     AcceptNew, AcceptBindFail, AcceptReconnect, DownRecvFirst, DownAccept, DownAcceptFail,
     DownDuplicate, DownChunk, DownFail, DownFin, DownReadError, DownNewStream, LinkLost
<1> QED BY <1>2, <1>3, <1>4, Zenon DEF Next

\* run_downlink has returned when its Done or Error reaches the AckTask.
LEMMA ReplyIsLast ==
  ASSUME TypeOK, RepliesEnd, AckDone \/ AckError
  PROVE  down = "exited"
<1>1. Msg("Done") \/ Msg("Error") BY Zenon DEF AckDone, AckError
<1>2. PICK op \in {"Done", "Error"} : Msg(op) BY <1>1
<1>3. rx_gen \in Gens /\ 1 \in 1 .. Len(feedback[rx_gen]) /\ feedback[rx_gen][1].op = op
  BY <1>2, MsgNow, Zenon
<1> QED BY <1>2, <1>3 DEF RepliesEnd

\* Nothing is sent behind a Done or an Error.
LEMMA RepliesStep ==
  ASSUME TypeOK, StreamsInOrder, DeliveryInv, RepliesEnd, [Next]_vars
  PROVE  RepliesEnd'
<1> SUFFICES ASSUME NEW g \in Gens, NEW i \in 1 .. Len(feedback'[g]),
                    feedback'[g][i].op \in {"Done", "Error"}
             PROVE  down' = "exited"
  BY Zenon DEF RepliesEnd
<1>1. CASE WasThere(g, i)
  <2>1. down = "exited" BY <1>1, Zenon DEF WasThere, RepliesEnd
  <2> QED BY <2>1, ExitedStep, Zenon DEF DeliveryInv
<1>2. CASE Replied(g, i) BY <1>2, Zenon DEF Replied
<1> QED BY <1>1, <1>2, FeedStep, Zenon

\* While two connections were made at most, only the second can wait for the
\* AckTask, and only if the AckTask still reads the first.
LEMMA OneQueued ==
  ASSUME TypeOK, StreamsInOrder, gen <= 2
  PROVE  /\ rx_gen >= 1
         /\ Len(stream_rx) <= 1
         /\ stream_rx # <<>> => Head(stream_rx) = 2
         /\ ~restored => rx_gen = 1 /\ Len(stream_rx) = 0
<1>1. rx_gen \in Gens /\ stream_rx \in Seq(Gens) BY Zenon DEF TypeOK, UplinkOK
<1>2. rx_gen >= 1 BY <1>1, RelayAssumption DEF Gens
<1>3. rx_gen \in Nat /\ gen \in Nat /\ Len(stream_rx) \in Nat
      /\ \A i \in 1 .. Len(stream_rx) : stream_rx[i] \in Nat
  BY GenTypes, Zenon
<1>4. \A i \in 1 .. Len(stream_rx) : stream_rx[i] = 2 /\ restored
  BY <1>2, <1>3 DEF StreamsInOrder
<1>5. \A i, j \in 1 .. Len(stream_rx) : i < j => stream_rx[i] < stream_rx[j]
  BY Zenon DEF StreamsInOrder
<1>6. Len(stream_rx) <= 1
  <2> SUFFICES ASSUME Len(stream_rx) > 1 PROVE FALSE BY <1>3
  <2>1. 1 \in 1 .. Len(stream_rx) /\ 2 \in 1 .. Len(stream_rx) BY <1>3
  <2>2. stream_rx[1] < stream_rx[2] BY <1>5, <2>1
  <2> QED BY <1>4, <2>1, <2>2
<1>7. stream_rx # <<>> => Head(stream_rx) = 2
  <2> SUFFICES ASSUME stream_rx # <<>> PROVE Head(stream_rx) = 2 OBVIOUS
  <2>1. Head(stream_rx) = stream_rx[1] /\ 1 \in 1 .. Len(stream_rx) BY <1>1
  <2> QED BY <1>4, <2>1
<1>8. ~restored => rx_gen = 1 /\ Len(stream_rx) = 0
  <2> SUFFICES ASSUME ~restored PROVE rx_gen = 1 /\ Len(stream_rx) = 0 OBVIOUS
  <2>1. rx_gen < gen BY Zenon DEF StreamsInOrder
  <2>2. Len(stream_rx) = 0
    <3> SUFFICES ASSUME Len(stream_rx) # 0 PROVE FALSE OBVIOUS
    <3>1. 1 \in 1 .. Len(stream_rx) BY <1>3
    <3> QED BY <1>4, <3>1
  <2> QED BY <1>2, <1>3, <2>1, <2>2
<1> QED BY <1>2, <1>6, <1>7, <1>8

\* Until a second outage, no step drops a stream while run_downlink is there.
LEMMA NothingDropped ==
  ASSUME TypeOK, StreamsInOrder, OneOutageInv, [Next]_vars, gen <= 2, down # "exited",
         NEW g \in Gens, data'[g] = Append(data[g], FIN), Ended(g)
  PROVE  PumpDrainEnd /\ Drained /\ g = tx_gen /\ ~Broken(g)
<1>1. CASE restore_active
  <2>1. data'[g] # data[g]
    <3>1. data[g] \in Seq(ItemType) /\ Len(data[g]) \in Nat BY ItemTypes, Zenon
    <3>2. Len(data'[g]) = Len(data[g]) + 1 BY <3>1
    <3> QED BY <3>1, <3>2
  <2>2. ~restored /\ RestoreStream /\ handle BY <1>1, <2>1, Zenon DEF restore_active
  <2>3. rx_gen = 1 /\ Len(stream_rx) = 0 BY <2>2, OneQueued, Zenon
  <2>4. Len(stream_rx) < STREAM_CAPACITY BY <2>3, RelayAssumption
  <2>5. acker = "exited" BY <2>1, <2>2, <2>4, Zenon DEF RestoreStream
  <2> QED BY <2>2, <2>3, <2>5, Zenon DEF OneOutageInv, OneOutage
<1>2. CASE AckDone \/ AckError BY <1>2, ReplyIsLast, Zenon DEF OneOutageInv
<1>3. CASE AckLinkUpFailed /\ g \in Range(Tail(stream_rx))
  <2>1. stream_rx # <<>> /\ stream_rx \in Seq(Gens)
    BY <1>3, Zenon DEF AckLinkUpFailed, TypeOK, UplinkOK
  <2>2. Len(stream_rx) <= 1 BY OneQueued, Zenon
  <2>3. /\ Tail(stream_rx) \in Seq(Gens) /\ Len(stream_rx) \in Nat
        /\ Len(Tail(stream_rx)) = Len(stream_rx) - 1
    BY <2>1, HeadTail, TailAt, Zenon
  <2> PICK rest : rest = Tail(stream_rx) BY Zenon
  <2>4. rest \in Seq(Gens) /\ g \in Range(rest) BY <1>3, <2>3, Zenon
  <2>5. DOMAIN rest = 1 .. Len(rest) BY <2>4
  <2>6. \E i \in 1 .. Len(rest) : g = rest[i] BY <2>4, <2>5, Zenon DEF Range
  <2> QED BY <2>2, <2>3, <2>6
<1> QED BY <1>1, <1>2, <1>3, Zenon DEF Ended

\* Every step keeps what holds before the second outage.
LEMMA OneOutageStep ==
  ASSUME TypeOK, StreamsInOrder, DeliveryInv, CompletionInv, OneOutageInv, [Next]_vars
  PROVE  OneOutageInv'
<1>1. RepliesEnd' BY RepliesStep, Zenon DEF OneOutageInv
<1> SUFFICES ASSUME gen' <= 2
             PROVE  /\ down' # "exited" => \A g \in Gens : FinIsLast(g)'
                    /\ acker' = "exited" /\ handle' /\ rx_gen' = 1 => down' = "exited"
                    /\ DoneMeansComplete'
  BY <1>1, Zenon DEF OneOutageInv, OneOutage
<1>2. gen <= 2
  <2>1. gen \in Nat /\ gen' \in Nat
    BY GenTypes, WireStep, RelayAssumption DEF WireOK, Gens
  <2> QED BY <2>1, GenStep
<1>3. /\ down # "exited" => \A g \in Gens : FinIsLast(g)
      /\ acker = "exited" /\ handle /\ rx_gen = 1 => down = "exited"
      /\ DoneMeansComplete
  BY <1>2, Zenon DEF OneOutageInv, OneOutage
<1>4. down = "exited" => down' = "exited" BY ExitedStep, Zenon DEF DeliveryInv
<1>5. ASSUME down' # "exited", NEW g \in Gens PROVE FinIsLast(g)'
  BY <1>2, <1>3, <1>4, <1>5, NothingDropped, FinLastStep, Zenon
<1>6. ASSUME acker' = "exited", handle', rx_gen' = 1 PROVE down = "exited"
  <2>1. handle BY <1>6, AckEnds, Zenon
  <2>2. CASE acker = "exited" /\ rx_gen' = rx_gen BY <1>3, <1>6, <2>1, <2>2, Zenon
  <2>3. CASE AckDone \/ AckError BY <2>3, ReplyIsLast, Zenon DEF OneOutageInv
  <2>4. CASE AckLinkUpFailed
    <3>1. stream_rx # <<>> /\ rx_gen' = Head(stream_rx)
      BY <2>4, Zenon DEF AckLinkUpFailed, AckExit, FreshStream
    <3> QED BY <1>2, <1>6, <3>1, OneQueued
  <2>5. CASE AckHandleGone BY <2>1, <2>5, Zenon DEF AckHandleGone
  <2> QED BY <1>6, <2>2, <2>3, <2>4, <2>5, AckEnds, Zenon
<1>7. ASSUME "Done" \in down_cb' PROVE AtEof' /\ bytes_written' = T'
  <2>1. CASE "Done" \in down_cb
    <3>1. AtEof /\ bytes_written = T BY <1>3, <2>1, Zenon DEF DoneMeansComplete
    <3> QED BY <3>1, ClosedStep, CompleteStep, Zenon
  <2>2. CASE DownFin
    <3>1. /\ down = "read" /\ data[down_gen] # <<>> /\ ~IsChunk(NextItem)
          /\ UNCHANGED <<spool, bytes_written>>
      BY <2>2, Zenon DEF DownFin
    <3>2. down_gen \in Gens BY Zenon DEF TypeOK, DownlinkOK
    <3>3. 1 \in 1 .. Len(data[down_gen]) /\ ~IsChunk(data[down_gen][1]) BY <3>1, ItemNow, Zenon
    <3>4. AtEof /\ bytes_written = T BY <1>3, <3>1, <3>2, <3>3, Zenon DEF FinIsLast
    <3> QED BY <3>1, <3>4, Zenon DEF AtEof, T
  <2> QED BY <1>7, <2>1, <2>2, OutcomeShape, Zenon
<1> QED BY <1>4, <1>5, <1>6, <1>7, Zenon DEF DoneMeansComplete

\* Before the first outage there is nothing on the wire.
LEMMA InitOneOutage == Init => OneOutageInv
<1> SUFFICES ASSUME Init PROVE OneOutageInv OBVIOUS
<1>1. down_cb = {} /\ acker = "run" /\ \A g \in Gens : data[g] = <<>> /\ feedback[g] = <<>>
  BY Zenon DEF Init, NewAckTask
<1>2. \A g \in Gens : Len(data[g]) = 0 /\ Len(feedback[g]) = 0 BY <1>1
<1>3. RepliesEnd /\ \A g \in Gens : FinIsLast(g) BY <1>2 DEF RepliesEnd, FinIsLast
<1> QED BY <1>1, <1>3, Zenon DEF OneOutageInv, OneOutage, DoneMeansComplete

-----------------------------------------------------------------------------
(* The inductive invariant *)

\* Every step keeps the whole inductive invariant.
LEMMA RelayInvStep ==
  ASSUME TypeOK, StreamsInOrder, RelayInv, [Next]_vars
  PROVE  TypeOK' /\ StreamsInOrder' /\ RelayInv'
<1>1. DeliveryInv /\ CompletionInv /\ OneOutageInv BY Zenon DEF RelayInv
<1>2. TypeOK' BY FlagsStep, UplinkStep, WireStep, DownlinkStep, Zenon DEF TypeOK
<1>3. StreamsInOrder' /\ DeliveryInv' BY <1>1, OrderStep, DeliveryStep, Zenon
<1>4. UnopenedEmpty' BY <1>1, UnopenedStep, Zenon DEF CompletionInv
<1> QED BY <1>1, <1>2, <1>3, <1>4, FinStep, DoneStep, OutcomesStep, OneOutageStep, Zenon
        DEF RelayInv, CompletionInv

\* The whole inductive invariant, for every capacity, chunk size and number of
\* outages: what is delivered, and which FIN and which Done count.
THEOREM RelayCorrect == Spec => []RelayInv
<1>1. Init => TypeOK /\ StreamsInOrder /\ RelayInv
  BY InitTypes, InitDelivery, InitCompletion, InitOneOutage, Zenon DEF RelayInv
<1> QED BY <1>1, RelayInvStep, PTL DEF Spec

\* StreamDone at the sender is never a false report, however often the link
\* fails (AckTask::run, run_downlink).
THEOREM SenderDoneIsTrue == Spec => []SenderDoneMeansComplete
<1>1. RelayInv => SenderDoneMeansComplete
  BY Zenon DEF RelayInv, CompletionInv, OutcomesInOrder, Complete, SenderDoneMeansComplete
<1> QED BY <1>1, RelayCorrect, PTL

\* StreamDone at the receiver means that it got every byte, as long as the link
\* has failed at most once. (After a second outage it may not: a stream dropped
\* for want of an AckTask or of room in its queue ends in the FIN that
\* run_downlink takes for the end of the data.)
THEOREM DoneIsCompleteOnce == Spec => [](gen <= 2 => DoneMeansComplete)
<1>1. RelayInv => (gen <= 2 => DoneMeansComplete)
  BY Zenon DEF RelayInv, OneOutageInv, OneOutage
<1> QED BY <1>1, RelayCorrect, PTL

\* The initial states are initial states of ByteRelay.
LEMMA InitRelay == Init => Relay!Init
<1> SUFFICES ASSUME Init PROVE Relay!Init OBVIOUS
<1>1. spool = NewSpool /\ bytes_written = 0 /\ up_cb = {} BY Zenon DEF Init
<1>2. T = 0 /\ ~AtEof BY <1>1 DEF T, AtEof, HeadOffset, NewSpool, EOF
<1> QED BY <1>1, <1>2 DEF Relay!Init

\* The relay with all its tasks implements ByteRelay.
THEOREM RelayImplements == Spec => ImplementsByteRelay
<1>1. TypeOK /\ StreamsInOrder /\ RelayInv /\ [Next]_vars => [Relay!Next]_(Relay!vars)
  BY RelayStep, Zenon DEF RelayInv
<1> QED BY <1>1, InitRelay, TypeCorrect, DeliveryCorrect, RelayCorrect, PTL
        DEF Spec, ImplementsByteRelay, Relay!Spec

-----------------------------------------------------------------------------
(* Both modes *)

\* A step in either mode is one of StreamRelay, or the forwarder's, which takes
\* a permit or hands the pump a ticket and touches nothing else.
LEMMA ModesShape ==
  ASSUME [ModesNext]_modeVars, TypeOK
  PROVE  \/ [Next]_vars
         \/ /\ UNCHANGED <<spool, reader, space_ready, pump, q, remaining, tx_gen, finishing,
                           cmd_rx, ackVars, linkVars, wireVars, downVars, cbVars>>
            /\ data_ready' \in BOOLEAN /\ ticket' \in 0 .. MaxTicket
<1>1. data_ready \in BOOLEAN /\ ticket \in 0 .. MaxTicket BY Zenon DEF TypeOK, FlagsOK, UplinkOK
<1>2. CASE ForwardWake
  <2>1. data_ready' = FALSE /\ ticket' = ticket BY <1>2, Zenon DEF ForwardWake
  <2>2. data_ready' \in BOOLEAN BY <2>1, Zenon
  <2> QED BY <1>1, <1>2, <2>1, <2>2, Zenon DEF ForwardWake
<1>3. CASE ForwardSend
  <2>1. data_ready' = data_ready /\ ticket' \in {ticket, MaxTicket}
    BY <1>3, Zenon DEF ForwardSend, Unlimited
  <2>2. ticket' \in 0 .. MaxTicket BY <1>1, <2>1, RelayAssumption
  <2> QED BY <1>1, <1>3, <2>1, <2>2, Zenon DEF ForwardSend
<1>4. CASE ~ForwardStep
  <2>1. [Next]_vars BY <1>4, Zenon DEF ModesNext, ModePumpStep, Next, modeVars
  <2> QED BY <2>1, Zenon
<1> QED BY <1>2, <1>3, <1>4, Zenon DEF ForwardStep

\* The invariant does not depend on who hands out the tickets.
LEMMA ModesStep ==
  ASSUME TypeOK, StreamsInOrder, RelayInv, [ModesNext]_modeVars
  PROVE  /\ TypeOK' /\ StreamsInOrder' /\ RelayInv'
         /\ [Relay!Next]_(Relay!vars)
<1>1. CASE [Next]_vars BY <1>1, RelayInvStep, RelayStep, Zenon DEF RelayInv
<1>2. CASE /\ UNCHANGED <<spool, reader, space_ready, pump, q, remaining, tx_gen, finishing,
                          cmd_rx, ackVars, linkVars, wireVars, downVars, cbVars>>
           /\ data_ready' \in BOOLEAN /\ ticket' \in 0 .. MaxTicket
  <2>1. TypeOK'
    <3>1. FlagsOK' BY <1>2, Zenon DEF TypeOK, FlagsOK
    <3>2. UplinkOK' BY <1>2, Zenon DEF TypeOK, UplinkOK, AtEof
    <3>3. WireOK' /\ DownlinkOK' BY <1>2, Zenon DEF TypeOK, WireOK, DownlinkOK
    <3> QED BY <3>1, <3>2, <3>3, Zenon DEF TypeOK
  <2>2. StreamsInOrder' BY <1>2, Zenon DEF StreamsInOrder, IsLinkUp
  <2>3. SpoolConsistent' /\ AckedIsWritten' /\ CursorInSpool' /\ DeliveredIntact'
    BY <1>2, Zenon DEF RelayInv, DeliveryInv, SpoolConsistent, AckedIsWritten, CursorInSpool,
       DeliveredIntact, T, AtEof, Running
  <2>4. /\ ChunksTrue' /\ ChunksContiguous' /\ HeadsNotAhead' /\ AcksTrue' /\ NewStreamFirst'
        /\ ReplaysNotAhead'
    BY <1>2, Zenon DEF RelayInv, DeliveryInv, ChunksTrue, ChunksContiguous, HeadsNotAhead,
       AcksTrue, NewStreamFirst, ReplaysNotAhead, T
  <2>5. CursorCoversWire' /\ CursorAtEnd'
    BY <1>2, Zenon DEF RelayInv, DeliveryInv, CursorCoversWire, CursorAtEnd, Running, Broken,
       Alive
  <2>6. UnopenedEmpty' BY <1>2, Zenon DEF RelayInv, CompletionInv, UnopenedEmpty, Opened
  <2>7. FinEndsStream' /\ DoneIsTrue' /\ OutcomesInOrder'
    BY <1>2, Zenon DEF RelayInv, CompletionInv, FinEndsStream, FinIsLast, DoneIsTrue,
       OutcomesInOrder, Acked, Complete, T, AtEof
  <2>8. OneOutageInv'
    BY <1>2, Zenon DEF RelayInv, OneOutageInv, RepliesEnd, OneOutage, FinIsLast,
       DoneMeansComplete, T, AtEof
  <2>9. UNCHANGED Relay!vars BY <1>2, Zenon DEF Relay!vars, T, AtEof
  <2> QED BY <2>1, <2>2, <2>3, <2>4, <2>5, <2>6, <2>7, <2>8, <2>9, Zenon
          DEF RelayInv, DeliveryInv, CompletionInv
<1> QED BY <1>1, <1>2, ModesShape, Zenon

\* Without a cap, as with one, every invariant above holds (RateLimiter::new).
THEOREM ModesCorrect == ModesSpec => [](TypeOK /\ StreamsInOrder /\ RelayInv)
<1>1. ModesInit => TypeOK /\ StreamsInOrder /\ RelayInv
  BY InitTypes, InitDelivery, InitCompletion, InitOneOutage, Zenon DEF RelayInv, ModesInit
<1> QED BY <1>1, ModesStep, PTL DEF ModesSpec

\* In both modes, StreamDone at the receiver means that it got every byte, until
\* the link fails for the second time.
THEOREM ModesDoneIsComplete == ModesSpec => [](gen <= 2 => DoneMeansComplete)
<1>1. RelayInv => (gen <= 2 => DoneMeansComplete)
  BY Zenon DEF RelayInv, OneOutageInv, OneOutage
<1> QED BY <1>1, ModesCorrect, PTL

\* The relay implements ByteRelay in both modes.
THEOREM ModesImplement == ModesSpec => ImplementsByteRelay
<1>1. ModesInit => Relay!Init BY InitRelay, Zenon DEF ModesInit
<1> QED BY <1>1, ModesCorrect, ModesStep, PTL DEF ModesSpec, ImplementsByteRelay, Relay!Spec
=============================================================================
