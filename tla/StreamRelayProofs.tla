------------------------- MODULE StreamRelayProofs --------------------------
(***************************************************************************)
(* What StreamRelay delivers, for every value of the constants. Every step *)
(* keeps the types (TypeOK), the order in which streams are handed down    *)
(* (StreamsInOrder), the positions A, Q, T and bytes_written in their      *)
(* places (SpoolConsistent, AckedIsWritten, CursorInSpool,                 *)
(* DeliveredIntact), and the chunks in flight true and without holes       *)
(* (ChunksTrue, ChunksContiguous). A step lemma has one case for each      *)
(* action that disturbs the variables it is about; all other actions leave *)
(* them alone.                                                             *)
(*                                                                         *)
(* Every step also keeps unread stream headers and the first chunk of each *)
(* stream within reach of the receiver (NewStreamFirst, ReplaysNotAhead,   *)
(* HeadsNotAhead), acks true (AcksTrue), and the pump's cursor at the end  *)
(* of its stream (CursorCoversWire, CursorAtEnd). Together they make       *)
(* DeliveryInv inductive.                                                  *)
(***************************************************************************)
EXTENDS StreamRelay, TLAPS

USE SMTT(30)
USE DEF spoolVars, pumpVars, ackVars, linkVars, wireVars, downVars, cbVars

\* Operations on the spool keep its type; the head is never moved past EOF.
LEMMA SpoolTypes ==
  ASSUME NEW s \in SpoolType
  PROVE  /\ s.bytes_acked \in Nat /\ s.len \in Nat /\ s.first \in Nat
         /\ s.head \in Nat \union {EOF}
         /\ HeadOffset(s) \in Nat
         /\ SetEof(s) \in SpoolType
         /\ \A n \in Nat : s.head # EOF => Push(s, n) \in SpoolType
         /\ \A n \in Nat : AckTo(s, n) \in SpoolType
<1>1. s.bytes_acked \in Nat /\ s.len \in Nat /\ s.first \in Nat /\ s.head \in Nat \union {EOF}
  BY Zenon DEF SpoolType
<1>2. HeadOffset(s) \in Nat BY <1>1 DEF HeadOffset
<1>3. SetEof(s) \in SpoolType BY Zenon DEF SetEof, SpoolType
<1>4. ASSUME NEW n \in Nat, s.head # EOF PROVE Push(s, n) \in SpoolType
  <2>1. s.len + n \in Nat /\ s.head + n \in Nat \union {EOF} BY <1>1, <1>4
  <2> QED BY <2>1, Zenon DEF Push, SpoolType
<1>5. ASSUME NEW n \in Nat PROVE AckTo(s, n) \in SpoolType
  <2> DEFINE due == n - s.bytes_acked
             m == IF due <= s.len THEN due ELSE s.len
  <2>1. CASE n <= s.bytes_acked BY <2>1, Zenon DEF AckTo
  <2>2. CASE ~(n <= s.bytes_acked)
    <3>1. s.bytes_acked + m \in Nat /\ s.first + m \in Nat /\ s.len - m \in Nat BY <1>1, <2>2
    <3> HIDE DEF m
    <3>2. [s EXCEPT !.bytes_acked = @ + m, !.first = @ + m, !.len = @ - m] \in SpoolType
       BY <3>1, Zenon DEF SpoolType
    <3> QED BY <2>2, <3>2, Zenon DEF AckTo, m
  <2> QED BY <2>1, <2>2, Zenon
<1> QED BY <1>1, <1>2, <1>3, <1>4, <1>5, Zenon

\* Head and Tail of a non-empty sequence.
LEMMA HeadTail ==
  ASSUME NEW S, NEW s \in Seq(S), s # <<>>
  PROVE Head(s) \in S /\ Tail(s) \in Seq(S)
OBVIOUS

\* Append.
LEMMA AppendType ==
  ASSUME NEW S, NEW s \in Seq(S), NEW e \in S
  PROVE Append(s, e) \in Seq(S)
OBVIOUS

\* What is left of a cut-off stream consists of the same items.
LEMMA PrefixType ==
  ASSUME NEW S, NEW s \in Seq(S), NEW p \in Prefixes(s)
  PROVE  p \in Seq(S)
<1>1. \A n \in 0 .. Len(s) : SubSeq(s, 1, n) \in Seq(S) OBVIOUS
<1> QED BY <1>1, Zenon DEF Prefixes

\* A push does not turn the head into the EOF sentinel.
LEMMA PushHead ==
  ASSUME NEW s \in SpoolType, NEW n \in Nat, s.head # EOF
  PROVE  Push(s, n).head # EOF
  BY DEF Push, SpoolType, EOF

\* An ack does not touch the head.
LEMMA AckHead ==
  ASSUME NEW s \in SpoolType, NEW n
  PROVE  AckTo(s, n).head = s.head
  BY Zenon DEF AckTo, SpoolType

\* The messages have their types.
LEMMA MessageTypes ==
  /\ FIN \in ItemType
  /\ Done \in MsgType /\ Error \in MsgType /\ \A n \in Nat : Ack(n) \in MsgType
  /\ LinkDown \in CmdType /\ Finish \in CmdType /\ \A g \in Gens : LinkUp(g) \in CmdType
  /\ \A g \in Gens, n \in Nat : Reconnect(g, n) \in OpenType
  BY DEF FIN, ItemType, Done, Error, Ack, MsgType, LinkDown, Finish, LinkUp, CmdType,
         Reconnect, OpenType

\* Sending on a QUIC stream keeps the type of what is in flight.
LEMMA SendType ==
  ASSUME TypeOK, NEW g \in Gens, NEW item \in ItemType, Send(g, item)
  PROVE  data' \in [Gens -> Seq(ItemType)]
<1>1. data \in [Gens -> Seq(ItemType)] /\ data[g] \in Seq(ItemType) BY Zenon DEF TypeOK, WireOK
<1>2. Append(data[g], item) \in Seq(ItemType) BY <1>1, AppendType, Zenon
<1> QED BY <1>1, <1>2, Zenon DEF Send

\* So does finishing dropped streams.
LEMMA DropQueuedType ==
  ASSUME TypeOK, NEW gs, DropQueued(gs)
  PROVE  data' \in [Gens -> Seq(ItemType)]
<1>1. data \in [Gens -> Seq(ItemType)] BY Zenon DEF TypeOK, WireOK
<1>2. \A g \in Gens : Append(data[g], FIN) \in Seq(ItemType)
  BY <1>1, AppendType, MessageTypes, Zenon
<1> QED BY <1>1, <1>2, Zenon DEF DropQueued

\* So does the receiver's feedback.
LEMMA ReplyType ==
  ASSUME TypeOK, NEW m \in MsgType, Reply(m)
  PROVE  feedback' \in [Gens -> Seq(MsgType)]
<1>1. feedback \in [Gens -> Seq(MsgType)] /\ down_gen \in Gens
  BY Zenon DEF TypeOK, WireOK, DownlinkOK
<1>2. Append(feedback[down_gen], m) \in Seq(MsgType) BY <1>1, AppendType, Zenon
<1> QED BY <1>1, <1>2, Zenon DEF Reply

\* The receiver takes an item off its stream.
LEMMA PopDataType ==
  ASSUME TypeOK, data[down_gen] # <<>>
  PROVE  /\ NextItem \in ItemType
         /\ PopData => data' \in [Gens -> Seq(ItemType)]
<1>1. data \in [Gens -> Seq(ItemType)] /\ down_gen \in Gens BY Zenon DEF TypeOK, WireOK, DownlinkOK
<1>2. data[down_gen] \in Seq(ItemType) BY <1>1, Zenon
<1>3. NextItem \in ItemType /\ Tail(data[down_gen]) \in Seq(ItemType)
  BY <1>2, HeadTail, Zenon DEF NextItem
<1> QED BY <1>1, <1>3, Zenon DEF PopData

\* The ack reader takes a message off its stream.
LEMMA PopFeedbackType ==
  ASSUME TypeOK, feedback[rx_gen] # <<>>
  PROVE  /\ Head(feedback[rx_gen]) \in MsgType
         /\ PopFeedback => feedback' \in [Gens -> Seq(MsgType)]
<1>1. feedback \in [Gens -> Seq(MsgType)] /\ rx_gen \in Gens BY Zenon DEF TypeOK, WireOK, UplinkOK
<1>2. feedback[rx_gen] \in Seq(MsgType) BY <1>1, Zenon
<1>3. Head(feedback[rx_gen]) \in MsgType /\ Tail(feedback[rx_gen]) \in Seq(MsgType)
  BY <1>2, HeadTail, Zenon
<1> QED BY <1>1, <1>3, Zenon DEF PopFeedback

\* Taking from the queues.
LEMMA QueueTypes ==
  ASSUME TypeOK
  PROVE  /\ cmd_rx # <<>> => Head(cmd_rx) \in CmdType /\ Tail(cmd_rx) \in Seq(CmdType)
         /\ stream_rx # <<>> => Head(stream_rx) \in Gens /\ Tail(stream_rx) \in Seq(Gens)
         /\ down_rx # <<>> => Head(down_rx) \in Gens /\ Tail(down_rx) \in Seq(Gens)
         /\ inbound # <<>> => Head(inbound) \in OpenType /\ Tail(inbound) \in Seq(OpenType)
  BY HeadTail, Zenon DEF TypeOK, UplinkOK, WireOK, DownlinkOK

\* Appending to the queues.
LEMMA QueueAppends ==
  ASSUME TypeOK
  PROVE  /\ \A c \in CmdType : Append(cmd_rx, c) \in Seq(CmdType)
         /\ \A g \in Gens : Append(stream_rx, g) \in Seq(Gens)
         /\ \A g \in Gens : Append(down_rx, g) \in Seq(Gens)
         /\ \A h \in OpenType : Append(inbound, h) \in Seq(OpenType)
  BY AppendType, Zenon DEF TypeOK, UplinkOK, WireOK, DownlinkOK

\* Dropping the last stream header.
LEMMA FrontType ==
  ASSUME NEW S, NEW s \in Seq(S), s # <<>>
  PROVE  Front(s) \in Seq(S)
<1>1. Len(s) \in Nat /\ Len(s) # 0 OBVIOUS
<1>2. SubSeq(s, 1, Len(s) - 1) \in Seq(S) BY <1>1
<1> QED BY <1>2, Zenon DEF Front

\* Every step keeps the flags Boolean.
LEMMA FlagsStep ==
  ASSUME TypeOK, [Next]_vars
  PROVE  FlagsOK'
<1>1. CASE UNCHANGED <<data_ready, finishing, finish_due, finish_sent, handle, link, restored,
   intact, space_ready>>
  BY <1>1, Zenon DEF FlagsOK, TypeOK
<1>2. CASE TcpWake
  BY <1>2, Zenon DEF
     FlagsOK, TypeOK, TcpWake
<1>3. CASE \E n \in 1 .. CHUNK_SIZE : TcpRead(n)
  BY <1>3, Zenon DEF
     FlagsOK, TypeOK, TcpRead
<1>4. CASE TcpEof
  BY <1>4, Zenon DEF
     FlagsOK, TypeOK, TcpEof, handle_eof
<1>5. CASE TcpReadError
  BY <1>5, Zenon DEF
     FlagsOK, TypeOK, TcpReadError, handle_eof
<1>6. CASE PumpFinish
  BY <1>6, Zenon DEF
     FlagsOK, TypeOK, PumpFinish, Cmd
<1>7. CASE PumpWaitFinish
  BY <1>7, Zenon DEF
     FlagsOK, TypeOK, PumpWaitFinish, Cmd
<1>8. CASE AckSendFinish
  BY <1>8, Zenon DEF
     FlagsOK, TypeOK, AckSendFinish
<1>9. CASE AckDataReady
  BY <1>9, Zenon DEF
     FlagsOK, TypeOK, AckDataReady, try_send_finish
<1>10. CASE on_ack
  BY <1>10, Zenon DEF
     FlagsOK, TypeOK, on_ack, try_send_finish, PopFeedback, Msg,
     AckedCount, SignalSpace
<1>11. CASE AckStreamError
  BY <1>11, Zenon DEF
     FlagsOK, TypeOK, AckStreamError, try_send_finish, link_down
<1>12. CASE AckNewStream
  BY <1>12, Zenon DEF
     FlagsOK, TypeOK, AckNewStream, try_send_finish, FreshStream
<1>13. CASE MgrStreamFinished
  BY <1>13, Zenon DEF
     FlagsOK, TypeOK, MgrStreamFinished
<1>14. CASE restore_active
  BY <1>14, Zenon DEF
     FlagsOK, TypeOK, restore_active, RestoreStream, DropQueued, ReplayFrom
<1>15. CASE DownChunk
  BY <1>15, Zenon DEF
     FlagsOK, TypeOK, DownChunk, HasChunk, Duplicate, NextItem, PopData,
     Reply, WrittenAfter
<1>16. CASE LinkLost
  BY <1>16, Zenon DEF
     FlagsOK, TypeOK, LinkLost
<1>17. CASE LinkRestored
  BY <1>17, Zenon DEF
     FlagsOK, TypeOK, LinkRestored
<1>18. ASSUME \/ TcpAccept \/ TcpAcceptFail \/ TcpFull
               \/ (\E b \in 1 .. MaxTicket : TimerTicket(b))
               \/ PumpTicket \/ (\E n \in 1 .. CHUNK_SIZE : PumpWrite(n))
               \/ PumpWriteError \/ PumpDrainEnd \/ PumpLinkDown
               \/ PumpLinkUpIgnored \/ PumpLinkUp \/ PumpDiscardTicket
               \/ PumpClosed \/ AckDone \/ AckError \/ AckLinkUpFailed
               \/ AckHandleGone \/ AcceptNew \/ AcceptBindFail
               \/ AcceptReconnect \/ DownRecvFirst \/ DownAccept
               \/ DownAcceptFail \/ DownDuplicate \/ DownFail \/ DownFin
               \/ DownReadError \/ DownNewStream
       PROVE UNCHANGED <<data_ready, finishing, finish_due, finish_sent, handle, link, restored,
          intact, space_ready>>
  BY <1>18, Zenon DEF
     TcpAccept, TcpAcceptFail, TcpFull, TimerTicket, PumpTicket, PumpWrite,
     PumpWriteError, PumpDrainEnd, PumpLinkDown, PumpLinkUpIgnored,
     PumpLinkUp, PumpDiscardTicket, PumpClosed, AckDone, AckError,
     AckLinkUpFailed, AckHandleGone, AcceptNew, spawn_downlink_from, AcceptBindFail,
     AcceptReconnect, DownRecvFirst, DownAccept, DownAcceptFail,
     DownDuplicate, DownFail, DownFin, DownReadError, DownNewStream,
     AckExit, Cmd, DownExit, Drained, DropQueued, Duplicate, FreshStream,
     HasChunk, Inbound, Msg, NextItem, PopData, PopFeedback, Reply, Rewind,
     Send, Sendable
<1>19. ASSUME UNCHANGED vars PROVE UNCHANGED <<data_ready, finishing, finish_due, finish_sent,
   handle, link, restored, intact, space_ready>>
  BY <1>19, Zenon DEF vars
<1> QED
  BY <1>1, <1>2, <1>3, <1>4, <1>5, <1>6, <1>7, <1>8, <1>9, <1>10, <1>11, <1>12,
     <1>13, <1>14, <1>15, <1>16, <1>17, <1>18, <1>19, Zenon DEF
     Next, TcpStep, TimerStep, PumpStep, AckStep, MgrStep, AcceptStep, DownStep

\* Every step keeps the types of the receiving agent's state.
LEMMA DownlinkStep ==
  ASSUME TypeOK, [Next]_vars
  PROVE  DownlinkOK'
<1>1. CASE UNCHANGED <<down, down_gen, down_rx, bytes_written, last_acked, down_cb>>
  BY <1>1, Zenon DEF DownlinkOK, TypeOK
<1>2. CASE AcceptNew
  <2>1. Head(inbound) \in OpenType BY <1>2, QueueTypes, Zenon DEF AcceptNew, Inbound
  <2>2. <<Head(inbound).gen>> \in Seq(Gens) BY <2>1 DEF OpenType
  <2> QED BY <1>2, <2>2, Zenon DEF TypeOK, DownlinkOK, AcceptNew, spawn_downlink_from
<1>3. CASE AcceptReconnect
  <2>1. Head(inbound) \in OpenType BY <1>3, QueueTypes, Zenon DEF AcceptReconnect, Inbound
  <2>2. Append(down_rx, Head(inbound).gen) \in Seq(Gens) BY <2>1, QueueAppends, Zenon DEF OpenType
  <2> QED BY <1>3, <2>2, Zenon DEF TypeOK, DownlinkOK, AcceptReconnect
<1>4. CASE DownRecvFirst
  BY <1>4, QueueTypes, Zenon DEF TypeOK, DownlinkOK, DownRecvFirst
<1>5. CASE DownAccept
  BY <1>5, Zenon DEF
     DownlinkOK, TypeOK, DownAccept
<1>6. CASE DownAcceptFail
  BY <1>6 DEF
     DownlinkOK, TypeOK, DownAcceptFail, Reply, DownExit
<1>7. CASE DownChunk
  <2>1. NextItem \in ItemType BY <1>7, PopDataType, Zenon DEF DownChunk, HasChunk
  <2>2. WrittenAfter \in Nat BY <2>1 DEF ItemType, WrittenAfter
  <2>3. bytes_written' \in Nat /\ last_acked' \in Nat
    BY <1>7, <2>2, Zenon DEF TypeOK, DownlinkOK, DownChunk
  <2> QED BY <1>7, <2>3, Zenon DEF TypeOK, DownlinkOK, DownChunk
<1>8. CASE DownFail
  BY <1>8 DEF
     DownlinkOK, TypeOK, DownFail, HasChunk, NextItem, PopData, Reply,
     DownExit
<1>9. CASE DownFin
  BY <1>9 DEF
     DownlinkOK, TypeOK, DownFin, NextItem, PopData, Reply, DownExit
<1>10. CASE DownReadError
  BY <1>10, Zenon DEF
     DownlinkOK, TypeOK, DownReadError
<1>11. CASE DownNewStream
  BY <1>11, QueueTypes, Zenon DEF TypeOK, DownlinkOK, DownNewStream
<1>12. ASSUME \/ TcpAccept \/ TcpAcceptFail \/ TcpFull \/ TcpWake
               \/ (\E n \in 1 .. CHUNK_SIZE : TcpRead(n)) \/ TcpEof
               \/ TcpReadError
               \/ (\E b \in 1 .. MaxTicket : TimerTicket(b))
               \/ PumpTicket \/ (\E n \in 1 .. CHUNK_SIZE : PumpWrite(n))
               \/ PumpWriteError \/ PumpDrainEnd \/ PumpFinish
               \/ PumpLinkDown \/ PumpLinkUpIgnored \/ PumpLinkUp
               \/ PumpWaitFinish \/ PumpDiscardTicket \/ PumpClosed
               \/ AckSendFinish \/ AckDataReady \/ on_ack \/ AckDone
               \/ AckError \/ AckStreamError \/ AckNewStream
               \/ AckLinkUpFailed \/ AckHandleGone \/ MgrStreamFinished
               \/ restore_active \/ AcceptBindFail \/ DownDuplicate
               \/ LinkLost \/ LinkRestored
       PROVE UNCHANGED <<down, down_gen, down_rx, bytes_written, last_acked, down_cb>>
  BY <1>12, Zenon DEF
     TcpAccept, TcpAcceptFail, TcpFull, TcpWake, TcpRead, TcpEof,
     TcpReadError, TimerTicket, PumpTicket, PumpWrite, PumpWriteError,
     PumpDrainEnd, PumpFinish, PumpLinkDown, PumpLinkUpIgnored, PumpLinkUp,
     PumpWaitFinish, PumpDiscardTicket, PumpClosed, AckSendFinish,
     AckDataReady, on_ack, AckDone, AckError, AckStreamError, AckNewStream,
     AckLinkUpFailed, AckHandleGone, MgrStreamFinished, restore_active,
     AcceptBindFail, DownDuplicate, LinkLost, LinkRestored, AckExit,
     AckedCount, Cmd, Drained, DropQueued, Duplicate, FreshStream,
     HasChunk, Inbound, Msg, NextItem, PopData, PopFeedback, ReplayFrom,
     RestoreStream, Rewind, Send, Sendable, SignalSpace, handle_eof,
     link_down, try_send_finish
<1>13. ASSUME UNCHANGED vars PROVE UNCHANGED <<down, down_gen, down_rx, bytes_written,
   last_acked, down_cb>>
  BY <1>13, Zenon DEF vars
<1> QED
  BY <1>1, <1>2, <1>3, <1>4, <1>5, <1>6, <1>7, <1>8, <1>9, <1>10, <1>11, <1>12,
     <1>13, Zenon DEF
     Next, TcpStep, TimerStep, PumpStep, AckStep, MgrStep, AcceptStep, DownStep

\* Every step keeps the types of the sending agent's state; EOF is only
\* published by a reader that then exits.
LEMMA UplinkStep ==
  ASSUME TypeOK, [Next]_vars
  PROVE  UplinkOK'
<1>1. CASE UNCHANGED <<spool, reader, ticket, pump, q, remaining, tx_gen, cmd_rx, acker, rx_gen,
   stream_rx, up_cb>>
  BY <1>1, Zenon DEF UplinkOK, TypeOK, AtEof
<1>2. CASE TcpAccept
  BY <1>2, Zenon DEF
     UplinkOK, TypeOK, AtEof, TcpAccept
<1>3. CASE TcpAcceptFail
  BY <1>3, Zenon DEF
     UplinkOK, TypeOK, AtEof, TcpAcceptFail
<1>4. CASE TcpFull
  BY <1>4, Zenon DEF
     UplinkOK, TypeOK, AtEof, TcpFull
<1>5. CASE TcpWake
  BY <1>5, Zenon DEF
     UplinkOK, TypeOK, AtEof, TcpWake
<1>6. CASE \E n \in 1 .. CHUNK_SIZE : TcpRead(n)
  <2> PICK n \in 1 .. CHUNK_SIZE : TcpRead(n) BY <1>6, Zenon
  <2>1. spool.head # EOF /\ n \in Nat BY DEF TypeOK, UplinkOK, AtEof, TcpRead
  <2>2. Push(spool, n) \in SpoolType /\ Push(spool, n).head # EOF
    BY <2>1, SpoolTypes, PushHead, Zenon DEF TypeOK, UplinkOK
  <2> QED BY <2>2, Zenon DEF TypeOK, UplinkOK, AtEof, TcpRead
<1>7. CASE TcpEof
  <2> QED BY <1>7, SpoolTypes, Zenon DEF TypeOK, UplinkOK, AtEof, TcpEof, handle_eof
<1>8. CASE TcpReadError
  <2> QED BY <1>8, SpoolTypes, Zenon DEF TypeOK, UplinkOK, AtEof, TcpReadError, handle_eof
<1>9. CASE \E b \in 1 .. MaxTicket : TimerTicket(b)
  BY <1>9, RelayAssumption DEF TypeOK, UplinkOK, AtEof, TimerTicket
<1>10. CASE PumpTicket
  <2>1. 0 \in 0 .. MaxTicket /\ 0 \in Nat BY RelayAssumption
  <2>2. ticket \in Nat BY RelayAssumption DEF TypeOK, UplinkOK
  <2> QED BY <1>10, <2>1, <2>2, Zenon DEF TypeOK, UplinkOK, AtEof, PumpTicket
<1>11. CASE \E n \in 1 .. CHUNK_SIZE : PumpWrite(n)
  <2> PICK n \in 1 .. CHUNK_SIZE : PumpWrite(n) BY <1>11, Zenon
  <2>1. n \in Nat /\ n <= remaining BY RelayAssumption DEF PumpWrite, Sendable
  <2>2. q + n \in Nat /\ remaining - n \in Nat BY <2>1 DEF TypeOK, UplinkOK
  <2> QED BY <2>2, Zenon DEF TypeOK, UplinkOK, AtEof, PumpWrite
<1>12. CASE PumpWriteError
  BY <1>12, Zenon DEF
     UplinkOK, TypeOK, AtEof, PumpWriteError
<1>13. CASE PumpDrainEnd
  <2>1. 0 \in 0 .. MaxTicket /\ 0 \in Nat BY RelayAssumption
  <2>2. ticket \in Nat BY RelayAssumption DEF TypeOK, UplinkOK
  <2> QED BY <1>13, <2>1, <2>2, Zenon DEF TypeOK, UplinkOK, AtEof, PumpDrainEnd
<1>14. CASE PumpFinish
  BY <1>14, QueueTypes DEF TypeOK, UplinkOK, AtEof, PumpFinish, Cmd
<1>15. CASE PumpLinkDown
  BY <1>15, QueueTypes, SpoolTypes, Zenon DEF TypeOK, UplinkOK, AtEof, PumpLinkDown, Cmd, Rewind
<1>16. CASE PumpLinkUpIgnored
  BY <1>16, QueueTypes, Zenon DEF TypeOK, UplinkOK, AtEof, PumpLinkUpIgnored, Cmd
<1>17. CASE PumpLinkUp
  <2>1. Head(cmd_rx) \in CmdType /\ Tail(cmd_rx) \in Seq(CmdType) /\ Head(cmd_rx).op = "LinkUp"
    BY <1>17, QueueTypes, Zenon DEF PumpLinkUp, Cmd
  <2>2. Head(cmd_rx).gen \in Gens BY <2>1, Zenon DEF CmdType
  <2>3. spool.bytes_acked \in Nat BY SpoolTypes, Zenon DEF TypeOK, UplinkOK
  <2> QED BY <1>17, <2>1, <2>2, <2>3, Zenon DEF TypeOK, UplinkOK, AtEof, PumpLinkUp, Rewind
<1>18. CASE PumpWaitFinish
  BY <1>18, QueueTypes, Zenon DEF TypeOK, UplinkOK, AtEof, PumpWaitFinish, Cmd
<1>19. CASE PumpDiscardTicket
  <2>1. 0 \in 0 .. MaxTicket /\ 0 \in Nat BY RelayAssumption
  <2>2. ticket \in Nat BY RelayAssumption DEF TypeOK, UplinkOK
  <2> QED BY <1>19, <2>1, <2>2, Zenon DEF TypeOK, UplinkOK, AtEof, PumpDiscardTicket
<1>20. CASE PumpClosed
  <2>1. 0 \in 0 .. MaxTicket /\ 0 \in Nat BY RelayAssumption
  <2>2. ticket \in Nat BY RelayAssumption DEF TypeOK, UplinkOK
  <2> QED BY <1>20, <2>1, <2>2, Zenon DEF TypeOK, UplinkOK, AtEof, PumpClosed
<1>21. CASE AckSendFinish
  BY <1>21, QueueAppends, MessageTypes, Zenon DEF TypeOK, UplinkOK, AtEof, AckSendFinish
<1>22. CASE on_ack
  <2>1. AckedCount \in Nat BY <1>22, PopFeedbackType, Zenon DEF on_ack, Msg, MsgType, AckedCount
  <2>2. AckTo(spool, AckedCount) \in SpoolType
    BY <2>1, SpoolTypes, Zenon DEF TypeOK, UplinkOK
  <2>3. AckTo(spool, AckedCount).head = spool.head
    BY AckHead, Zenon DEF TypeOK, UplinkOK
  <2> QED BY <1>22, <2>2, <2>3, Zenon DEF TypeOK, UplinkOK, AtEof, on_ack
<1>23. CASE AckDone
  BY <1>23 DEF
     UplinkOK, TypeOK, AtEof, AckDone, PopFeedback, Msg, DropQueued,
     AckExit
<1>24. CASE AckError
  BY <1>24 DEF
     UplinkOK, TypeOK, AtEof, AckError, PopFeedback, Msg, DropQueued,
     AckExit
<1>25. CASE AckStreamError
  <2>1. cmd_rx' \in Seq(CmdType)
    BY <1>25, QueueAppends, MessageTypes, Zenon DEF TypeOK, UplinkOK, AckStreamError, link_down
  <2> QED BY <1>25, <2>1, Zenon DEF TypeOK, UplinkOK, AtEof, AckStreamError
<1>26. CASE AckNewStream
  <2>1. FreshStream \in Gens /\ Tail(stream_rx) \in Seq(Gens)
    BY <1>26, QueueTypes, Zenon DEF AckNewStream, FreshStream
  <2>2. Append(cmd_rx, LinkUp(FreshStream)) \in Seq(CmdType)
    BY <2>1, QueueAppends, MessageTypes, Zenon
  <2> QED BY <1>26, <2>1, <2>2, Zenon DEF TypeOK, UplinkOK, AtEof, AckNewStream
<1>27. CASE AckLinkUpFailed
  <2>1. FreshStream \in Gens BY <1>27, QueueTypes, Zenon DEF AckLinkUpFailed, FreshStream
  <2> QED BY <1>27, <2>1 DEF TypeOK, UplinkOK, AtEof, AckLinkUpFailed, AckExit
<1>28. CASE AckHandleGone
  BY <1>28, Zenon DEF
     UplinkOK, TypeOK, AtEof, AckHandleGone, AckExit
<1>29. CASE restore_active
  <2>1. Append(stream_rx, gen) \in Seq(Gens) BY QueueAppends, Zenon DEF TypeOK, WireOK
  <2>2. stream_rx' \in Seq(Gens)
    BY <1>29, <2>1, Zenon DEF TypeOK, UplinkOK, restore_active, RestoreStream
  <2> QED BY <1>29, <2>2, Zenon DEF TypeOK, UplinkOK, AtEof, restore_active
<1>30. ASSUME \/ AckDataReady \/ MgrStreamFinished \/ AcceptNew
               \/ AcceptBindFail \/ AcceptReconnect \/ DownRecvFirst
               \/ DownAccept \/ DownAcceptFail \/ DownDuplicate
               \/ DownChunk \/ DownFail \/ DownFin \/ DownReadError
               \/ DownNewStream \/ LinkLost \/ LinkRestored
       PROVE UNCHANGED <<spool, reader, ticket, pump, q, remaining, tx_gen, cmd_rx, acker,
          rx_gen, stream_rx, up_cb>>
  BY <1>30, Zenon DEF
     AckDataReady, MgrStreamFinished, AcceptNew, spawn_downlink_from, AcceptBindFail,
     AcceptReconnect, DownRecvFirst, DownAccept, DownAcceptFail,
     DownDuplicate, DownChunk, DownFail, DownFin, DownReadError,
     DownNewStream, LinkLost, LinkRestored, DownExit, Duplicate, HasChunk,
     Inbound, NextItem, PopData, Reply, WrittenAfter, try_send_finish
<1>31. ASSUME UNCHANGED vars PROVE UNCHANGED <<spool, reader, ticket, pump, q, remaining, tx_gen,
   cmd_rx, acker, rx_gen, stream_rx, up_cb>>
  BY <1>31, Zenon DEF vars
<1> QED
  BY <1>1, <1>2, <1>3, <1>4, <1>5, <1>6, <1>7, <1>8, <1>9, <1>10, <1>11, <1>12,
     <1>13, <1>14, <1>15, <1>16, <1>17, <1>18, <1>19, <1>20, <1>21, <1>22,
     <1>23, <1>24, <1>25, <1>26, <1>27, <1>28, <1>29, <1>30, <1>31, ZenonT(30) DEF
     Next, TcpStep, TimerStep, PumpStep, AckStep, MgrStep, AcceptStep, DownStep

\* Every step keeps the types of what is in flight.
LEMMA WireStep ==
  ASSUME TypeOK, [Next]_vars
  PROVE  WireOK'
<1>1. CASE UNCHANGED <<gen, inbound, data, feedback, dropped>>
  BY <1>1, Zenon DEF WireOK, TypeOK
<1>2. CASE \E n \in 1 .. CHUNK_SIZE : PumpWrite(n)
  <2> PICK n \in 1 .. CHUNK_SIZE : PumpWrite(n) BY <1>2, Zenon
  <2>1. SliceStart(spool, q) \in Int /\ n \in Nat /\ q \in Nat /\ tx_gen \in Gens
    BY SpoolTypes, RelayAssumption DEF TypeOK, UplinkOK, SliceStart
  <2>2. Chunk(q, SliceStart(spool, q), n) \in ItemType BY <2>1, Zenon DEF Chunk, ItemType
  <2>3. data' \in [Gens -> Seq(ItemType)] BY <2>1, <2>2, SendType, Zenon DEF PumpWrite
  <2> QED BY <2>3, Zenon DEF TypeOK, WireOK, PumpWrite
<1>3. CASE PumpDrainEnd
  <2>1. data' \in [Gens -> Seq(ItemType)]
    BY <1>3, SendType, MessageTypes, Zenon DEF TypeOK, UplinkOK, WireOK, PumpDrainEnd
  <2> QED BY <1>3, <2>1, Zenon DEF TypeOK, WireOK, PumpDrainEnd
<1>4. CASE on_ack
  BY <1>4, PopFeedbackType, Zenon DEF TypeOK, WireOK, on_ack, Msg
<1>5. CASE AckDone
  <2>1. data' \in [Gens -> Seq(ItemType)] BY <1>5, DropQueuedType, Zenon DEF AckDone
  <2>2. feedback' \in [Gens -> Seq(MsgType)] BY <1>5, PopFeedbackType, Zenon DEF AckDone, Msg
  <2> QED BY <1>5, <2>1, <2>2, Zenon DEF TypeOK, WireOK, AckDone
<1>6. CASE AckError
  <2>1. data' \in [Gens -> Seq(ItemType)] BY <1>6, DropQueuedType, Zenon DEF AckError
  <2>2. feedback' \in [Gens -> Seq(MsgType)] BY <1>6, PopFeedbackType, Zenon DEF AckError, Msg
  <2> QED BY <1>6, <2>1, <2>2, Zenon DEF TypeOK, WireOK, AckError
<1>7. CASE AckLinkUpFailed
  <2>1. data' \in [Gens -> Seq(ItemType)] BY <1>7, DropQueuedType, Zenon DEF AckLinkUpFailed
  <2> QED BY <1>7, <2>1, Zenon DEF TypeOK, WireOK, AckLinkUpFailed
<1>8. CASE restore_active
  <2>1. Reconnect(gen, ReplayFrom) \in OpenType
    BY MessageTypes, SpoolTypes, Zenon DEF TypeOK, UplinkOK, WireOK, ReplayFrom
  <2>2. inbound' \in Seq(OpenType)
    BY <1>8, <2>1, QueueAppends, Zenon DEF TypeOK, WireOK, restore_active, RestoreStream
  <2>3. data' \in [Gens -> Seq(ItemType)]
    BY <1>8, DropQueuedType, Zenon DEF TypeOK, WireOK, restore_active, RestoreStream
  <2> QED BY <1>8, <2>2, <2>3, Zenon DEF TypeOK, WireOK, restore_active
<1>9. CASE AcceptNew
  BY <1>9, QueueTypes, Zenon DEF TypeOK, WireOK, AcceptNew, Inbound
<1>10. CASE AcceptBindFail
  <2>1. Head(inbound) \in OpenType /\ Tail(inbound) \in Seq(OpenType)
    BY <1>10, QueueTypes, Zenon DEF AcceptBindFail, Inbound
  <2>2. Head(inbound).gen \in Gens BY <2>1, Zenon DEF OpenType
  <2> QED BY <1>10, <2>1, <2>2, Zenon DEF TypeOK, WireOK, AcceptBindFail
<1>11. CASE AcceptReconnect
  <2>1. Head(inbound) \in OpenType /\ Tail(inbound) \in Seq(OpenType)
    BY <1>11, QueueTypes, Zenon DEF AcceptReconnect, Inbound
  <2>2. Head(inbound).gen \in Gens BY <2>1, Zenon DEF OpenType
  <2> QED BY <1>11, <2>1, <2>2, Zenon DEF TypeOK, WireOK, AcceptReconnect
<1>12. CASE DownAcceptFail
  <2>1. feedback' \in [Gens -> Seq(MsgType)]
    BY <1>12, ReplyType, MessageTypes, Zenon DEF DownAcceptFail
  <2>2. dropped' \in SUBSET Gens
    <3>1. Range(down_rx) \subseteq Gens BY DEF TypeOK, DownlinkOK, Range
    <3> QED BY <1>12, <3>1, Zenon DEF TypeOK, WireOK, DownlinkOK, DownAcceptFail, DownExit
  <2> QED BY <1>12, <2>1, <2>2, Zenon DEF TypeOK, WireOK, DownAcceptFail
<1>13. CASE DownDuplicate
  BY <1>13, PopDataType, Zenon DEF TypeOK, WireOK, DownDuplicate, HasChunk
<1>14. CASE DownChunk
  <2>1. data' \in [Gens -> Seq(ItemType)] /\ NextItem \in ItemType
    BY <1>14, PopDataType, Zenon DEF DownChunk, HasChunk
  <2>2. Ack(bytes_written') \in MsgType
    <3>1. WrittenAfter \in Nat BY <2>1 DEF ItemType, WrittenAfter
    <3> QED BY <1>14, <3>1, MessageTypes, Zenon DEF DownChunk
  <2>3. feedback' \in [Gens -> Seq(MsgType)]
    BY <1>14, <2>2, ReplyType, Zenon DEF TypeOK, WireOK, DownChunk
  <2> QED BY <1>14, <2>1, <2>3, Zenon DEF TypeOK, WireOK, DownChunk
<1>15. CASE DownFail
  <2>1. data' \in [Gens -> Seq(ItemType)] BY <1>15, PopDataType, Zenon DEF DownFail, HasChunk
  <2>2. feedback' \in [Gens -> Seq(MsgType)] BY <1>15, ReplyType, MessageTypes, Zenon DEF DownFail
  <2>3. dropped' \in SUBSET Gens
    <3>1. Range(down_rx) \subseteq Gens BY DEF TypeOK, DownlinkOK, Range
    <3> QED BY <1>15, <3>1, Zenon DEF TypeOK, WireOK, DownlinkOK, DownFail, DownExit
  <2> QED BY <1>15, <2>1, <2>2, <2>3, Zenon DEF TypeOK, WireOK, DownFail
<1>16. CASE DownFin
  <2>1. data' \in [Gens -> Seq(ItemType)] BY <1>16, PopDataType, Zenon DEF DownFin
  <2>2. feedback' \in [Gens -> Seq(MsgType)] BY <1>16, ReplyType, MessageTypes, Zenon DEF DownFin
  <2>3. dropped' \in SUBSET Gens
    <3>1. Range(down_rx) \subseteq Gens BY DEF TypeOK, DownlinkOK, Range
    <3> QED BY <1>16, <3>1, Zenon DEF TypeOK, WireOK, DownlinkOK, DownFin, DownExit
  <2> QED BY <1>16, <2>1, <2>2, <2>3, Zenon DEF TypeOK, WireOK, DownFin
<1>17. CASE LinkLost
  <2>1. data \in [Gens -> Seq(ItemType)] /\ feedback \in [Gens -> Seq(MsgType)] /\ gen \in Gens
    BY Zenon DEF TypeOK, WireOK
  <2>2. <<>> \in Seq(ItemType) /\ <<>> \in Seq(MsgType) OBVIOUS
  <2>3. /\ \A d \in Prefixes(data[gen]) : d \in Seq(ItemType)
        /\ \A f \in Prefixes(feedback[gen]) : f \in Seq(MsgType)
    BY <2>1, PrefixType, Zenon
  <2>4. data' \in [Gens -> Seq(ItemType)] BY <1>17, <2>1, <2>2, <2>3, Zenon DEF LinkLost
  <2>5. feedback' \in [Gens -> Seq(MsgType)] BY <1>17, <2>1, <2>2, <2>3, Zenon DEF LinkLost
  <2>6. inbound' \in Seq(OpenType) BY <1>17, FrontType DEF TypeOK, WireOK, LinkLost
  <2> QED BY <1>17, <2>4, <2>5, <2>6, Zenon DEF TypeOK, WireOK, LinkLost
<1>18. CASE LinkRestored
  BY <1>18, RelayAssumption DEF TypeOK, WireOK, LinkRestored, Gens
<1>19. ASSUME \/ TcpAccept \/ TcpAcceptFail \/ TcpFull \/ TcpWake
               \/ (\E n \in 1 .. CHUNK_SIZE : TcpRead(n)) \/ TcpEof
               \/ TcpReadError
               \/ (\E b \in 1 .. MaxTicket : TimerTicket(b))
               \/ PumpTicket \/ PumpWriteError \/ PumpFinish
               \/ PumpLinkDown \/ PumpLinkUpIgnored \/ PumpLinkUp
               \/ PumpWaitFinish \/ PumpDiscardTicket \/ PumpClosed
               \/ AckSendFinish \/ AckDataReady \/ AckStreamError
               \/ AckNewStream \/ AckHandleGone \/ MgrStreamFinished
               \/ DownRecvFirst \/ DownAccept \/ DownReadError
               \/ DownNewStream
       PROVE UNCHANGED <<gen, inbound, data, feedback, dropped>>
  BY <1>19, Zenon DEF
     TcpAccept, TcpAcceptFail, TcpFull, TcpWake, TcpRead, TcpEof,
     TcpReadError, TimerTicket, PumpTicket, PumpWriteError, PumpFinish,
     PumpLinkDown, PumpLinkUpIgnored, PumpLinkUp, PumpWaitFinish,
     PumpDiscardTicket, PumpClosed, AckSendFinish, AckDataReady,
     AckStreamError, AckNewStream, AckHandleGone, MgrStreamFinished,
     DownRecvFirst, DownAccept, DownReadError, DownNewStream, AckExit, Cmd,
     FreshStream, Rewind, handle_eof, link_down, try_send_finish
<1>20. ASSUME UNCHANGED vars PROVE UNCHANGED <<gen, inbound, data, feedback, dropped>>
  BY <1>20, Zenon DEF vars
<1> QED
  BY <1>1, <1>2, <1>3, <1>4, <1>5, <1>6, <1>7, <1>8, <1>9, <1>10, <1>11, <1>12,
     <1>13, <1>14, <1>15, <1>16, <1>17, <1>18, <1>19, <1>20, Zenon DEF
     Next, TcpStep, TimerStep, PumpStep, AckStep, MgrStep, AcceptStep, DownStep

\* Every initial state is well typed.
LEMMA InitTypes == Init => TypeOK
<1> SUFFICES ASSUME Init PROVE TypeOK OBVIOUS
<1>1. 1 \in Gens /\ 0 \in 0 .. MaxTicket BY RelayAssumption DEF Gens
<1>2. NewSpool \in SpoolType /\ NewSpool.head # EOF BY DEF NewSpool, SpoolType, EOF
<1>3. inbound \in Seq(OpenType) BY <1>1 DEF Init, NewStream, OpenType
<1>4. FlagsOK BY Zenon DEF Init, NewAckTask, FlagsOK
<1>5. UplinkOK BY <1>1, <1>2 DEF Init, NewAckTask, UplinkOK, AtEof
<1>6. WireOK
  <2>1. data \in [Gens -> Seq(ItemType)] /\ feedback \in [Gens -> Seq(MsgType)] BY DEF Init
  <2> QED BY <1>1, <1>3, <2>1, Zenon DEF Init, WireOK
<1>7. DownlinkOK BY <1>1 DEF Init, DownlinkOK
<1> QED BY <1>4, <1>5, <1>6, <1>7, Zenon DEF TypeOK

\* The state of both agents and of the connection stays well typed, for every
\* size of the buffers and channels and any number of link failures: no queue
\* is read when empty, no counter goes below zero, and the spool's head is
\* never moved after run_tcp_reader has published EOF.
THEOREM TypeCorrect == Spec => []TypeOK
<1>1. TypeOK /\ [Next]_vars => TypeOK'
  BY FlagsStep, UplinkStep, WireStep, DownlinkStep, Zenon DEF TypeOK
<1> QED BY <1>1, InitTypes, PTL DEF Spec

-----------------------------------------------------------------------------
(* Queues, item by item *)

\* Append keeps the items and adds one at the end.
LEMMA AppendAt ==
  ASSUME NEW S, NEW s \in Seq(S), NEW e \in S
  PROVE  /\ Len(s) \in Nat /\ Len(Append(s, e)) = Len(s) + 1
         /\ \A i \in 1 .. Len(s) : Append(s, e)[i] = s[i]
         /\ Append(s, e)[Len(s) + 1] = e
OBVIOUS

\* Tail moves the items up by one place.
LEMMA TailAt ==
  ASSUME NEW S, NEW s \in Seq(S), s # <<>>
  PROVE  /\ Len(s) \in Nat /\ Len(s) > 0 /\ Head(s) = s[1]
         /\ Len(Tail(s)) = Len(s) - 1
         /\ \A i \in 1 .. Len(s) - 1 : Tail(s)[i] = s[i + 1]
OBVIOUS

\* The head is the item in the first place.
LEMMA HeadAt ==
  ASSUME NEW S, NEW s \in Seq(S), s # <<>>
  PROVE  Head(s) = s[1] /\ 1 \in 1 .. Len(s)
OBVIOUS

\* A prefix has the same items in the same places.
LEMMA PrefixAt ==
  ASSUME NEW S, NEW s \in Seq(S), NEW p \in Prefixes(s)
  PROVE  /\ Len(s) \in Nat /\ Len(p) \in 0 .. Len(s)
         /\ \A i \in 1 .. Len(p) : p[i] = s[i]
<1>1. PICK n \in 0 .. Len(s) : p = SubSeq(s, 1, n) BY Zenon DEF Prefixes
<1>2. Len(p) = n /\ \A i \in 1 .. n : p[i] = s[i] BY <1>1
<1> QED BY <1>2

\* The sequence without its last item is such a prefix.
LEMMA FrontPrefix ==
  ASSUME NEW S, NEW s \in Seq(S), s # <<>>
  PROVE  Front(s) \in Prefixes(s)
<1>1. Len(s) - 1 \in 0 .. Len(s) OBVIOUS
<1> QED BY <1>1, Zenon DEF Front, Prefixes

-----------------------------------------------------------------------------
\* What is known of the streams' numbers.
LEMMA GenTypes ==
  ASSUME TypeOK
  PROVE  /\ tx_gen \in Nat /\ rx_gen \in Nat /\ gen \in Nat
         /\ \A g \in Gens : g \in Nat
         /\ Len(cmd_rx) \in Nat /\ Len(stream_rx) \in Nat
         /\ \A i \in 1 .. Len(stream_rx) : stream_rx[i] \in Nat
         /\ \A i \in 1 .. Len(cmd_rx) : cmd_rx[i].gen \in Nat
<1>1. \A g \in Gens : g \in Nat BY RelayAssumption DEF Gens
<1>2. \A i \in 1 .. Len(cmd_rx) : cmd_rx[i] \in CmdType BY DEF TypeOK, UplinkOK
<1>3. \A c \in CmdType : c.gen \in Nat BY <1>1 DEF CmdType
<1> QED BY <1>1, <1>2, <1>3 DEF TypeOK, UplinkOK, WireOK

\* Taking a command keeps the order.
LEMMA TakeInOrder ==
  ASSUME TypeOK, StreamsInOrder, cmd_rx # <<>>, cmd_rx' = Tail(cmd_rx),
         UNCHANGED <<tx_gen, rx_gen, gen, stream_rx, restored>>
  PROVE  StreamsInOrder'
<1>1. cmd_rx \in Seq(CmdType) BY Zenon DEF TypeOK, UplinkOK
<1>2. /\ Len(cmd_rx) \in Nat /\ Len(cmd_rx') = Len(cmd_rx) - 1
      /\ \A i \in 1 .. Len(cmd_rx) - 1 : cmd_rx'[i] = cmd_rx[i + 1]
  BY <1>1, TailAt, Zenon
<1> QED BY <1>2 DEF StreamsInOrder, IsLinkUp

\* So does adding one that hands over no stream.
LEMMA AddInOrder ==
  ASSUME TypeOK, StreamsInOrder, NEW c \in CmdType, c.op # "LinkUp",
         cmd_rx' = Append(cmd_rx, c),
         UNCHANGED <<tx_gen, rx_gen, gen, stream_rx, restored>>
  PROVE  StreamsInOrder'
<1>1. cmd_rx \in Seq(CmdType) BY Zenon DEF TypeOK, UplinkOK
<1>2. /\ Len(cmd_rx) \in Nat /\ Len(cmd_rx') = Len(cmd_rx) + 1
      /\ \A i \in 1 .. Len(cmd_rx) : cmd_rx'[i] = cmd_rx[i]
      /\ cmd_rx'[Len(cmd_rx) + 1] = c
  BY <1>1, AppendAt
<1>3. \A i \in 1 .. Len(cmd_rx') :
         IsLinkUp(i)' => i \in 1 .. Len(cmd_rx) /\ cmd_rx'[i] = cmd_rx[i] /\ IsLinkUp(i)
  BY <1>2 DEF IsLinkUp
<1> QED BY <1>2, <1>3, Zenon DEF StreamsInOrder, IsLinkUp

\* When the AckTask ends nothing is queued any more.
LEMMA EndInOrder ==
  ASSUME TypeOK, StreamsInOrder, stream_rx' = <<>>, rx_gen' \in Nat,
         rx_gen <= rx_gen', rx_gen' <= gen, ~restored => rx_gen' < gen,
         UNCHANGED <<tx_gen, cmd_rx, gen, restored>>
  PROVE  StreamsInOrder'
  BY GenTypes DEF StreamsInOrder, IsLinkUp

\* Every step hands streams on in order.
LEMMA OrderStep ==
  ASSUME TypeOK, StreamsInOrder, [Next]_vars
  PROVE  StreamsInOrder'
<1>1. CASE UNCHANGED <<tx_gen, rx_gen, gen, cmd_rx, stream_rx, restored>>
  BY <1>1, Zenon DEF StreamsInOrder, IsLinkUp
<1>2. CASE PumpFinish
  BY <1>2, TakeInOrder, Zenon DEF PumpFinish, Cmd
<1>3. CASE PumpLinkDown
  BY <1>3, TakeInOrder, Zenon DEF PumpLinkDown, Cmd
<1>4. CASE PumpLinkUpIgnored
  BY <1>4, TakeInOrder, Zenon DEF PumpLinkUpIgnored, Cmd
<1>5. CASE PumpLinkUp
  <2>1. cmd_rx \in Seq(CmdType) /\ cmd_rx # <<>> /\ cmd_rx' = Tail(cmd_rx)
    BY <1>5, Zenon DEF TypeOK, UplinkOK, PumpLinkUp, Cmd
  <2>2. /\ Len(cmd_rx) \in Nat /\ Len(cmd_rx) > 0 /\ Len(cmd_rx') = Len(cmd_rx) - 1
        /\ \A i \in 1 .. Len(cmd_rx) - 1 : cmd_rx'[i] = cmd_rx[i + 1]
        /\ Head(cmd_rx) = cmd_rx[1]
    BY <2>1, TailAt, Zenon
  <2>3. IsLinkUp(1) /\ tx_gen' = cmd_rx[1].gen
        /\ UNCHANGED <<rx_gen, gen, stream_rx, restored>>
    BY <1>5, <2>2, Zenon DEF PumpLinkUp, Cmd, IsLinkUp
  <2>4. 1 \in 1 .. Len(cmd_rx) /\ \A i \in 1 .. Len(cmd_rx') :
           1 < i + 1 /\ i + 1 \in 1 .. Len(cmd_rx) /\ cmd_rx'[i] = cmd_rx[i + 1]
    BY <2>2
  <2>5. tx_gen' <= rx_gen BY <2>3, <2>4, Zenon DEF StreamsInOrder
  <2>6. \A i \in 1 .. Len(cmd_rx') : IsLinkUp(i)' =>
           tx_gen' < cmd_rx'[i].gen /\ cmd_rx'[i].gen <= rx_gen
    BY <2>3, <2>4, Zenon DEF StreamsInOrder, IsLinkUp
  <2>7. \A i, j \in 1 .. Len(cmd_rx') :
           i < j /\ IsLinkUp(i)' /\ IsLinkUp(j)' => cmd_rx'[i].gen < cmd_rx'[j].gen
    <3>1. \A i, j \in 1 .. Len(cmd_rx') : i < j => i + 1 < j + 1 BY <2>2
    <3> QED BY <2>4, <3>1, ZenonT(30) DEF StreamsInOrder, IsLinkUp
  <2> QED BY <2>3, <2>5, <2>6, <2>7, Zenon DEF StreamsInOrder
<1>6. CASE PumpWaitFinish
  BY <1>6, TakeInOrder, Zenon DEF PumpWaitFinish, Cmd
<1>7. CASE AckSendFinish
  <2>1. Finish \in CmdType /\ Finish.op # "LinkUp" BY MessageTypes, Zenon DEF Finish
  <2>2. CASE UNCHANGED cmd_rx BY <2>2, <1>7, Zenon DEF AckSendFinish, StreamsInOrder, IsLinkUp
  <2>3. CASE cmd_rx' = Append(cmd_rx, Finish)
    BY <2>1, <2>3, <1>7, AddInOrder, Zenon DEF AckSendFinish
  <2> QED BY <2>2, <2>3, <1>7, Zenon DEF AckSendFinish
<1>8. CASE AckDone
  <2>1. stream_rx' = <<>> /\ rx_gen' = rx_gen /\ UNCHANGED <<tx_gen, cmd_rx, gen, restored>>
    BY <1>8, Zenon DEF AckDone, AckExit
  <2>2. rx_gen \in Nat /\ rx_gen <= rx_gen /\ rx_gen <= gen /\ (~restored => rx_gen < gen)
    BY GenTypes DEF StreamsInOrder
  <2> QED BY <2>1, <2>2, EndInOrder, Zenon
<1>9. CASE AckError
  <2>1. stream_rx' = <<>> /\ rx_gen' = rx_gen /\ UNCHANGED <<tx_gen, cmd_rx, gen, restored>>
    BY <1>9, Zenon DEF AckError, AckExit
  <2>2. rx_gen \in Nat /\ rx_gen <= rx_gen /\ rx_gen <= gen /\ (~restored => rx_gen < gen)
    BY GenTypes DEF StreamsInOrder
  <2> QED BY <2>1, <2>2, EndInOrder, Zenon
<1>10. CASE AckStreamError
  <2>1. LinkDown \in CmdType /\ LinkDown.op # "LinkUp" BY MessageTypes, Zenon DEF LinkDown
  <2>2. link_down /\ UNCHANGED <<tx_gen, rx_gen, gen, stream_rx, restored>>
    BY <1>10, Zenon DEF AckStreamError
  <2>3. CASE UNCHANGED cmd_rx BY <2>2, <2>3, Zenon DEF StreamsInOrder, IsLinkUp
  <2>4. CASE cmd_rx' = Append(cmd_rx, LinkDown) BY <2>1, <2>2, <2>4, AddInOrder, Zenon
  <2> QED BY <2>2, <2>3, <2>4, Zenon DEF link_down
<1>11. CASE AckNewStream
  <2> DEFINE g == Head(stream_rx)
  <2>1. /\ Len(stream_rx) \in Nat /\ Len(stream_rx) > 0 /\ g = stream_rx[1]
        /\ Len(stream_rx') = Len(stream_rx) - 1
        /\ \A i \in 1 .. Len(stream_rx) - 1 : stream_rx'[i] = stream_rx[i + 1]
    BY <1>11, TailAt, Zenon DEF AckNewStream, TypeOK, UplinkOK
  <2>2. g \in Gens /\ LinkUp(g) \in CmdType
    BY <1>11, QueueTypes, MessageTypes, Zenon DEF AckNewStream
  <2>3. /\ Len(cmd_rx) \in Nat /\ Len(cmd_rx') = Len(cmd_rx) + 1
        /\ \A i \in 1 .. Len(cmd_rx) : cmd_rx'[i] = cmd_rx[i]
        /\ cmd_rx'[Len(cmd_rx) + 1].gen = g
    BY <1>11, <2>2, AppendAt DEF AckNewStream, TypeOK, UplinkOK, FreshStream, LinkUp
  <2>4. rx_gen' = g /\ UNCHANGED <<tx_gen, gen, restored>>
    BY <1>11, Zenon DEF AckNewStream, FreshStream
  <2>5. rx_gen < g /\ g <= gen /\ (~restored => g < gen) BY <2>1 DEF StreamsInOrder
  <2>6. /\ \A i \in 1 .. Len(stream_rx') : g < stream_rx'[i] /\ stream_rx'[i] <= gen
        /\ \A i, j \in 1 .. Len(stream_rx') : i < j => stream_rx'[i] < stream_rx'[j]
        /\ ~restored => \A i \in 1 .. Len(stream_rx') : stream_rx'[i] < gen
    <3>1. 1 \in 1 .. Len(stream_rx) /\ \A i \in 1 .. Len(stream_rx') :
             1 < i + 1 /\ i + 1 \in 1 .. Len(stream_rx) /\ stream_rx'[i] = stream_rx[i + 1]
      BY <2>1
    <3>2. \A i, j \in 1 .. Len(stream_rx') : i < j => i + 1 < j + 1 BY <2>1
    <3> QED BY <2>1, <3>1, <3>2, Zenon DEF StreamsInOrder
  <2>7. tx_gen <= rx_gen /\ tx_gen \in Nat /\ rx_gen \in Nat /\ gen \in Nat /\ g \in Nat
    BY <2>2, GenTypes, Zenon DEF StreamsInOrder
  <2>8. ASSUME NEW i \in 1 .. Len(cmd_rx), IsLinkUp(i)'
        PROVE  IsLinkUp(i) /\ tx_gen < cmd_rx'[i].gen /\ cmd_rx'[i].gen < g
    <3>1. cmd_rx'[i] = cmd_rx[i] /\ IsLinkUp(i) BY <2>3, <2>8, Zenon DEF IsLinkUp
    <3>2. tx_gen < cmd_rx[i].gen /\ cmd_rx[i].gen <= rx_gen /\ cmd_rx[i].gen \in Nat
      BY <3>1, GenTypes, Zenon DEF StreamsInOrder
    <3> QED BY <3>1, <3>2, <2>5, <2>7
  <2>9. \A i \in 1 .. Len(cmd_rx') : i \in 1 .. Len(cmd_rx) \/ i = Len(cmd_rx) + 1
    BY <2>3
  <2>10. \A i \in 1 .. Len(cmd_rx') :
           IsLinkUp(i)' => tx_gen < cmd_rx'[i].gen /\ cmd_rx'[i].gen <= g
    <3> HIDE DEF g
    <3>1. tx_gen < g /\ g <= g BY <2>5, <2>7
    <3>2. \A i \in 1 .. Len(cmd_rx) : cmd_rx'[i].gen \in Nat BY <2>3, GenTypes, Zenon
    <3>3. \A i \in 1 .. Len(cmd_rx) : IsLinkUp(i)' =>
             tx_gen < cmd_rx'[i].gen /\ cmd_rx'[i].gen <= g BY <2>7, <2>8, <3>2
    <3> QED BY <2>3, <2>9, <3>1, <3>3, Zenon
  <2>11. \A i, j \in 1 .. Len(cmd_rx') :
           i < j /\ IsLinkUp(i)' /\ IsLinkUp(j)' => cmd_rx'[i].gen < cmd_rx'[j].gen
    <3> HIDE DEF g
    <3> SUFFICES ASSUME NEW i \in 1 .. Len(cmd_rx'), NEW j \in 1 .. Len(cmd_rx'),
                        i < j, IsLinkUp(i)', IsLinkUp(j)'
                 PROVE  cmd_rx'[i].gen < cmd_rx'[j].gen
      OBVIOUS
    <3>1. i \in 1 .. Len(cmd_rx) BY <2>3
    <3>2. CASE j \in 1 .. Len(cmd_rx)
      BY <2>3, <2>8, <3>1, <3>2, Zenon DEF StreamsInOrder
    <3>3. CASE j = Len(cmd_rx) + 1
      BY <2>3, <2>8, <3>1, <3>3, Zenon
    <3> QED BY <2>9, <3>2, <3>3, Zenon
  <2> HIDE DEF g
  <2>12. tx_gen <= g BY <2>5, <2>7
  <2> QED BY <2>4, <2>5, <2>6, <2>10, <2>11, <2>12, Zenon DEF StreamsInOrder
<1>12. CASE AckLinkUpFailed
  <2>1. Head(stream_rx) = stream_rx[1] /\ 1 \in 1 .. Len(stream_rx)
    BY <1>12, TailAt DEF AckLinkUpFailed, TypeOK, UplinkOK
  <2>2. rx_gen < Head(stream_rx) /\ Head(stream_rx) <= gen /\ (~restored => Head(stream_rx) < gen)
    BY <2>1, Zenon DEF StreamsInOrder
  <2>3. Head(stream_rx) \in Nat BY <2>1, GenTypes, Zenon
  <2> QED BY <1>12, <2>2, <2>3, EndInOrder, GenTypes DEF AckLinkUpFailed, AckExit, FreshStream
<1>13. CASE AckHandleGone
  <2>1. rx_gen <= gen /\ (~restored => rx_gen < gen) BY Zenon DEF StreamsInOrder
  <2>2. rx_gen' = rx_gen /\ stream_rx' = <<>> /\ UNCHANGED <<tx_gen, cmd_rx, gen, restored>>
    BY <1>13, Zenon DEF AckHandleGone, AckExit
  <2> QED BY <2>1, <2>2, EndInOrder, GenTypes
<1>14. CASE restore_active
  <2>1. restored' = TRUE /\ ~restored /\ UNCHANGED <<tx_gen, cmd_rx, rx_gen, gen>>
    BY <1>14, Zenon DEF restore_active
  <2>2. CASE UNCHANGED stream_rx BY <2>1, <2>2, Zenon DEF StreamsInOrder, IsLinkUp
  <2>3. CASE stream_rx' = Append(stream_rx, gen)
    <3>1. /\ Len(stream_rx) \in Nat /\ Len(stream_rx') = Len(stream_rx) + 1
          /\ \A i \in 1 .. Len(stream_rx) : stream_rx'[i] = stream_rx[i]
          /\ stream_rx'[Len(stream_rx) + 1] = gen
      BY <2>3, AppendAt DEF TypeOK, UplinkOK, WireOK
    <3>2. rx_gen < gen /\ \A i \in 1 .. Len(stream_rx) : stream_rx[i] < gen
      BY <2>1, Zenon DEF StreamsInOrder
    <3>3. \A i \in 1 .. Len(stream_rx') : rx_gen < stream_rx'[i] /\ stream_rx'[i] <= gen
      BY <3>1, <3>2, GenTypes DEF StreamsInOrder
    <3>4. \A i, j \in 1 .. Len(stream_rx') : i < j => stream_rx'[i] < stream_rx'[j]
      <4> SUFFICES ASSUME NEW i \in 1 .. Len(stream_rx'), NEW j \in 1 .. Len(stream_rx'), i < j
                   PROVE  stream_rx'[i] < stream_rx'[j]
        OBVIOUS
      <4>1. i \in 1 .. Len(stream_rx) BY <3>1
      <4>2. CASE j \in 1 .. Len(stream_rx) BY <3>1, <4>1, <4>2, Zenon DEF StreamsInOrder
      <4>3. CASE j = Len(stream_rx) + 1 BY <3>1, <3>2, <4>1, <4>3, Zenon
      <4> QED BY <3>1, <4>2, <4>3
    <3> QED BY <2>1, <3>3, <3>4, Zenon DEF StreamsInOrder, IsLinkUp
  <2> QED BY <2>2, <2>3, <1>14, Zenon DEF restore_active, RestoreStream
<1>15. CASE LinkRestored
  BY <1>15, GenTypes DEF LinkRestored, StreamsInOrder, IsLinkUp
<1>16. ASSUME \/ TcpAccept \/ TcpAcceptFail \/ TcpFull \/ TcpWake
               \/ (\E n \in 1 .. CHUNK_SIZE : TcpRead(n)) \/ TcpEof
               \/ TcpReadError
               \/ (\E b \in 1 .. MaxTicket : TimerTicket(b))
               \/ PumpTicket \/ (\E n \in 1 .. CHUNK_SIZE : PumpWrite(n))
               \/ PumpWriteError \/ PumpDrainEnd \/ PumpDiscardTicket
               \/ PumpClosed \/ AckDataReady \/ on_ack
               \/ MgrStreamFinished \/ AcceptNew \/ AcceptBindFail
               \/ AcceptReconnect \/ DownRecvFirst \/ DownAccept
               \/ DownAcceptFail \/ DownDuplicate \/ DownChunk
               \/ DownFail \/ DownFin \/ DownReadError \/ DownNewStream
               \/ LinkLost
       PROVE UNCHANGED <<tx_gen, rx_gen, gen, cmd_rx, stream_rx, restored>>
  BY <1>16, Zenon DEF
     TcpAccept, TcpAcceptFail, TcpFull, TcpWake, TcpRead, TcpEof,
     TcpReadError, TimerTicket, PumpTicket, PumpWrite, PumpWriteError,
     PumpDrainEnd, PumpDiscardTicket, PumpClosed, AckDataReady, on_ack,
     MgrStreamFinished, AcceptNew, spawn_downlink_from, AcceptBindFail, AcceptReconnect,
     DownRecvFirst, DownAccept, DownAcceptFail, DownDuplicate, DownChunk,
     DownFail, DownFin, DownReadError, DownNewStream, LinkLost, AckedCount,
     DownExit, Drained, Duplicate, HasChunk, Inbound, Msg, NextItem,
     PopData, PopFeedback, Reply, Send, Sendable, SignalSpace,
     WrittenAfter, handle_eof, try_send_finish
<1>17. ASSUME UNCHANGED vars PROVE UNCHANGED <<tx_gen, rx_gen, gen, cmd_rx, stream_rx, restored>>
  BY <1>17, Zenon DEF vars
<1> QED
  BY <1>1, <1>2, <1>3, <1>4, <1>5, <1>6, <1>7, <1>8, <1>9, <1>10, <1>11, <1>12,
     <1>13, <1>14, <1>15, <1>16, <1>17, Zenon DEF
     Next, TcpStep, TimerStep, PumpStep, AckStep, MgrStep, AcceptStep, DownStep
-----------------------------------------------------------------------------
(* The spool *)

\* What push, ack and set_eof do to the pointers of a consistent spool.
LEMMA SpoolMoves ==
  ASSUME NEW s \in SpoolType, s.first = s.bytes_acked,
         s.head = EOF \/ s.head = s.bytes_acked + s.len, NEW n \in Nat
  PROVE  /\ HeadOffset(s) = s.bytes_acked + s.len
         /\ s.head # EOF =>
               /\ Push(s, n).first = s.first /\ Push(s, n).bytes_acked = s.bytes_acked
               /\ Push(s, n).len = s.len + n /\ Push(s, n).head = s.head + n
               /\ HeadOffset(Push(s, n)) = HeadOffset(s) + n
         /\ SetEof(s).first = s.first /\ SetEof(s).bytes_acked = s.bytes_acked
         /\ SetEof(s).len = s.len /\ SetEof(s).head = EOF
         /\ HeadOffset(SetEof(s)) = HeadOffset(s)
         /\ AckTo(s, n).first = AckTo(s, n).bytes_acked
         /\ AckTo(s, n).bytes_acked + AckTo(s, n).len = s.bytes_acked + s.len
         /\ AckTo(s, n).head = s.head /\ AckTo(s, n).len <= s.len
         /\ s.bytes_acked <= AckTo(s, n).bytes_acked
         /\ AckTo(s, n).bytes_acked <= n \/ AckTo(s, n).bytes_acked = s.bytes_acked
         /\ HeadOffset(AckTo(s, n)) = HeadOffset(s)
<1>1. s.bytes_acked \in Nat /\ s.len \in Nat /\ s.first \in Nat /\ s.head \in Nat \union {EOF}
      /\ s = [bytes_acked |-> s.bytes_acked, head |-> s.head, first |-> s.first, len |-> s.len]
  BY Zenon DEF SpoolType
<1>2. HeadOffset(s) = s.bytes_acked + s.len BY <1>1, Zenon DEF HeadOffset
<1>3. ASSUME s.head # EOF
      PROVE  /\ Push(s, n).first = s.first /\ Push(s, n).bytes_acked = s.bytes_acked
             /\ Push(s, n).len = s.len + n /\ Push(s, n).head = s.head + n
             /\ HeadOffset(Push(s, n)) = HeadOffset(s) + n
  <2>1. /\ Push(s, n).first = s.first /\ Push(s, n).bytes_acked = s.bytes_acked
        /\ Push(s, n).len = s.len + n /\ Push(s, n).head = s.head + n
    BY <1>1, Zenon DEF Push
  <2>2. s.head + n # EOF BY <1>1, <1>3 DEF EOF
  <2> QED BY <1>1, <1>3, <2>1, <2>2, Zenon DEF HeadOffset
<1>4. /\ SetEof(s).first = s.first /\ SetEof(s).bytes_acked = s.bytes_acked
      /\ SetEof(s).len = s.len /\ SetEof(s).head = EOF
  BY <1>1, Zenon DEF SetEof
<1>5. HeadOffset(SetEof(s)) = HeadOffset(s) BY <1>2, <1>4, Zenon DEF HeadOffset
<1>6. CASE n <= s.bytes_acked
  <2>1. AckTo(s, n) = s BY <1>6, Zenon DEF AckTo
  <2> QED BY <1>1, <1>2, <1>3, <1>4, <1>5, <2>1
<1>7. CASE ~(n <= s.bytes_acked)
  <2> DEFINE k == IF n - s.bytes_acked <= s.len THEN n - s.bytes_acked ELSE s.len
  <2>1. k \in Nat /\ k <= s.len /\ s.bytes_acked + k <= n BY <1>1, <1>7
  <2>2. AckTo(s, n) = [s EXCEPT !.bytes_acked = @ + k, !.first = @ + k, !.len = @ - k]
    BY <1>7, Zenon DEF AckTo
  <2> HIDE DEF k
  <2>3. /\ AckTo(s, n).first = s.first + k /\ AckTo(s, n).bytes_acked = s.bytes_acked + k
        /\ AckTo(s, n).len = s.len - k /\ AckTo(s, n).head = s.head
    BY <1>1, <2>2, Zenon
  <2>4. HeadOffset(AckTo(s, n)) = HeadOffset(s) BY <1>1, <1>2, <2>1, <2>3 DEF HeadOffset
  <2> QED BY <1>1, <1>2, <1>3, <1>4, <1>5, <2>1, <2>3, <2>4
<1> QED BY <1>6, <1>7, Zenon

\* The spool and its pointers are numbers.
LEMMA SpoolNow ==
  ASSUME TypeOK, SpoolConsistent
  PROVE  /\ spool \in SpoolType /\ spool.first = spool.bytes_acked
         /\ spool.head = EOF \/ spool.head = spool.bytes_acked + spool.len
         /\ spool.bytes_acked \in Nat /\ spool.len \in Nat /\ T \in Nat
         /\ T = spool.bytes_acked + spool.len
         /\ q \in Nat /\ bytes_written \in Nat
<1>1. spool \in SpoolType BY Zenon DEF TypeOK, UplinkOK
<1>2. T \in Nat /\ spool.bytes_acked \in Nat /\ spool.len \in Nat BY <1>1, SpoolTypes, Zenon DEF T
<1>3. /\ spool.first = spool.bytes_acked
      /\ spool.head = EOF \/ spool.head = spool.bytes_acked + spool.len
  BY Zenon DEF SpoolConsistent, AtEof
<1>4. HeadOffset(spool) = spool.bytes_acked + spool.len BY <1>1, <1>3, SpoolMoves, Zenon
<1> QED BY <1>1, <1>2, <1>3, <1>4, Zenon DEF T, TypeOK, UplinkOK, DownlinkOK

\* An ack at the head of the reader's stream.
LEMMA AckNow ==
  ASSUME TypeOK, Msg("Ack")
  PROVE  /\ AckedCount \in Nat
         /\ AcksTrue => AckedCount <= bytes_written /\ rx_gen <= tx_gen
         /\ AcksTrue /\ StreamsInOrder /\ CursorCoversWire /\ Running => AckedCount <= q
<1>1. rx_gen \in Gens /\ feedback[rx_gen] \in Seq(MsgType) BY Zenon DEF TypeOK, UplinkOK, WireOK
<1>2. Head(feedback[rx_gen]) \in MsgType BY PopFeedbackType, Zenon DEF Msg
<1>3. Head(feedback[rx_gen]) = feedback[rx_gen][1] /\ 1 \in 1 .. Len(feedback[rx_gen])
  BY <1>1, TailAt DEF Msg
<1>4. AckedCount \in Nat BY <1>2, Zenon DEF AckedCount, MsgType
<1>5. AcksTrue => AckedCount <= bytes_written /\ rx_gen <= tx_gen
  BY <1>1, <1>3, Zenon DEF AckedCount, Msg, AcksTrue
<1>6. StreamsInOrder => tx_gen <= rx_gen BY Zenon DEF StreamsInOrder
<1>7. AcksTrue /\ StreamsInOrder => rx_gen = tx_gen BY <1>5, <1>6, GenTypes
<1> QED BY <1>3, <1>4, <1>5, <1>7, Zenon DEF AckedCount, Msg, CursorCoversWire

\* Every step keeps the spool consistent, and T never goes back.
LEMMA SpoolStep ==
  ASSUME TypeOK, SpoolConsistent, [Next]_vars
  PROVE  SpoolConsistent' /\ T <= T'
<1>1. CASE UNCHANGED <<spool>>
  BY <1>1, SpoolNow DEF SpoolConsistent, T, AtEof
<1>2. CASE \E n \in 1 .. CHUNK_SIZE : TcpRead(n)
  <2> PICK n \in 1 .. CHUNK_SIZE : TcpRead(n) BY <1>2, Zenon
  <2>1. n \in Nat /\ n <= CHUNK_SIZE /\ CHUNK_SIZE \in Nat BY RelayAssumption
  <2>2. spool.head # EOF BY Zenon DEF TcpRead, TypeOK, UplinkOK, AtEof
  <2>3. spool' = Push(spool, n) BY Zenon DEF TcpRead
  <2>4. spool.len + n <= SPOOL_CAPACITY
    BY <2>1, SpoolNow, SpoolAssumption DEF TcpRead, HasSpoolSpace, Available
  <2> QED BY <2>1, <2>2, <2>3, <2>4, SpoolNow, SpoolMoves DEF SpoolConsistent, T, AtEof
<1>3. CASE TcpEof
  <2>1. 0 \in Nat /\ spool' = SetEof(spool) BY <1>3, Zenon DEF TcpEof, handle_eof
  <2> QED BY <2>1, SpoolNow, SpoolMoves DEF SpoolConsistent, T, AtEof
<1>4. CASE TcpReadError
  <2>1. 0 \in Nat /\ spool' = SetEof(spool) BY <1>4, Zenon DEF TcpReadError, handle_eof
  <2> QED BY <2>1, SpoolNow, SpoolMoves DEF SpoolConsistent, T, AtEof
<1>5. CASE on_ack
  <2>1. AckedCount \in Nat /\ spool' = AckTo(spool, AckedCount) BY <1>5, AckNow, Zenon DEF on_ack
  <2>2. /\ spool'.first = spool'.bytes_acked /\ spool'.head = spool.head
        /\ spool'.bytes_acked + spool'.len = spool.bytes_acked + spool.len
        /\ spool'.len <= spool.len /\ T' = T
    BY <2>1, SpoolNow, SpoolMoves, Zenon DEF T
  <2>3. spool' \in SpoolType BY UplinkStep, Zenon DEF UplinkOK
  <2>4. spool'.len \in Nat BY <2>3, SpoolTypes, Zenon
  <2> QED BY <2>2, <2>4, SpoolNow, SpoolAssumption DEF SpoolConsistent, AtEof
<1>6. ASSUME \/ TcpAccept \/ TcpAcceptFail \/ TcpFull \/ TcpWake
               \/ (\E b \in 1 .. MaxTicket : TimerTicket(b))
               \/ PumpTicket \/ (\E n \in 1 .. CHUNK_SIZE : PumpWrite(n))
               \/ PumpWriteError \/ PumpDrainEnd \/ PumpFinish
               \/ PumpLinkDown \/ PumpLinkUpIgnored \/ PumpLinkUp
               \/ PumpWaitFinish \/ PumpDiscardTicket \/ PumpClosed
               \/ AckSendFinish \/ AckDataReady \/ AckDone \/ AckError
               \/ AckStreamError \/ AckNewStream \/ AckLinkUpFailed
               \/ AckHandleGone \/ MgrStreamFinished \/ restore_active
               \/ AcceptNew \/ AcceptBindFail \/ AcceptReconnect
               \/ DownRecvFirst \/ DownAccept \/ DownAcceptFail
               \/ DownDuplicate \/ DownChunk \/ DownFail \/ DownFin
               \/ DownReadError \/ DownNewStream \/ LinkLost
               \/ LinkRestored
       PROVE UNCHANGED <<spool>>
  BY <1>6, Zenon DEF
     TcpAccept, TcpAcceptFail, TcpFull, TcpWake, TimerTicket, PumpTicket,
     PumpWrite, PumpWriteError, PumpDrainEnd, PumpFinish, PumpLinkDown,
     PumpLinkUpIgnored, PumpLinkUp, PumpWaitFinish, PumpDiscardTicket,
     PumpClosed, AckSendFinish, AckDataReady, AckDone, AckError,
     AckStreamError, AckNewStream, AckLinkUpFailed, AckHandleGone,
     MgrStreamFinished, restore_active, AcceptNew, spawn_downlink_from, AcceptBindFail,
     AcceptReconnect, DownRecvFirst, DownAccept, DownAcceptFail,
     DownDuplicate, DownChunk, DownFail, DownFin, DownReadError,
     DownNewStream, LinkLost, LinkRestored, AckExit, Cmd, DownExit,
     Drained, DropQueued, Duplicate, FreshStream, HasChunk, Inbound, Msg,
     NextItem, PopData, PopFeedback, ReplayFrom, Reply, RestoreStream,
     Rewind, Send, Sendable, WrittenAfter, link_down, try_send_finish
<1>7. ASSUME UNCHANGED vars PROVE UNCHANGED <<spool>>
  BY <1>7, Zenon DEF vars
<1> QED
  BY <1>1, <1>2, <1>3, <1>4, <1>5, <1>6, <1>7, Zenon DEF
     Next, TcpStep, TimerStep, PumpStep, AckStep, MgrStep, AcceptStep, DownStep

-----------------------------------------------------------------------------
\* T is a number after every step.
LEMMA HeadStep == ASSUME TypeOK, [Next]_vars PROVE T' \in Nat
<1>1. spool' \in SpoolType BY UplinkStep, Zenon DEF UplinkOK
<1> QED BY <1>1, SpoolTypes, Zenon DEF T

(* Steps of the pump and of the receiver *)

\* A chunk the pump writes: it continues at Q, carries the bytes Q names and
\* ends within the spool.
LEMMA PumpNow ==
  ASSUME TypeOK, SpoolConsistent, CursorInSpool, NEW n \in 1 .. CHUNK_SIZE, PumpWrite(n)
  PROVE  /\ n \in Nat /\ n > 0 /\ q + n <= T /\ q' = q + n
         /\ tx_gen \in Gens /\ ~Broken(tx_gen) /\ Running /\ Running'
         /\ Chunk(q, q, n) \in ItemType
         /\ data'[tx_gen] = Append(data[tx_gen], Chunk(q, q, n))
         /\ \A g \in Gens : g # tx_gen => data'[g] = data[g]
         /\ UNCHANGED <<spool, tx_gen, feedback, link, gen, dropped, down, bytes_written>>
<1>1. n \in Nat /\ n > 0 /\ pump = "drain" /\ pump' = pump BY RelayAssumption DEF PumpWrite
<1>2. Running /\ Running' BY <1>1, Zenon DEF Running
<1>3. spool.bytes_acked <= q /\ q <= T BY <1>2, SpoolNow DEF CursorInSpool
<1>4. SliceStart(spool, q) = q BY <1>3, SpoolNow DEF SliceStart
<1>5. q + n <= T BY <1>1, <1>3, SpoolNow DEF PumpWrite, Sendable, Backlog, T
<1>6. data \in [Gens -> Seq(ItemType)] /\ tx_gen \in Gens /\ q \in Nat
  BY Zenon DEF TypeOK, UplinkOK, WireOK
<1>7. Chunk(q, q, n) \in ItemType BY <1>1, <1>6 DEF Chunk, ItemType
<1>8. ~Broken(tx_gen) /\ data' = [data EXCEPT ![tx_gen] = Append(@, Chunk(q, q, n))]
  BY <1>4, Zenon DEF PumpWrite, Send
<1> QED BY <1>1, <1>2, <1>5, <1>6, <1>7, <1>8, Zenon DEF PumpWrite

\* The item the receiver reads next.
LEMMA ItemNow ==
  ASSUME TypeOK, data[down_gen] # <<>>
  PROVE  /\ down_gen \in Gens /\ data[down_gen] \in Seq(ItemType)
         /\ NextItem = data[down_gen][1] /\ 1 \in 1 .. Len(data[down_gen])
         /\ NextItem \in ItemType /\ End(NextItem) \in Nat /\ WrittenAfter = End(NextItem)
<1>1. down_gen \in Gens /\ data[down_gen] \in Seq(ItemType) BY Zenon DEF TypeOK, WireOK, DownlinkOK
<1>2. NextItem = data[down_gen][1] /\ 1 \in 1 .. Len(data[down_gen])
  BY <1>1, HeadAt, Zenon DEF NextItem
<1>3. NextItem \in ItemType BY PopDataType, Zenon
<1> QED BY <1>1, <1>2, <1>3 DEF End, WrittenAfter, ItemType

\* bytes_written never goes back.
LEMMA WrittenStep ==
  ASSUME TypeOK, [Next]_vars
  PROVE  bytes_written <= bytes_written'
<1>1. CASE UNCHANGED <<bytes_written>>
  BY <1>1 DEF TypeOK, DownlinkOK
<1>2. CASE DownChunk
  <2>1. data[down_gen] # <<>> /\ ~Duplicate /\ bytes_written' = WrittenAfter
    BY <1>2, Zenon DEF DownChunk, HasChunk
  <2>2. WrittenAfter \in Nat /\ bytes_written \in Nat BY <2>1, ItemNow, Zenon DEF TypeOK, DownlinkOK
  <2> QED BY <2>1, <2>2 DEF Duplicate, WrittenAfter
<1>3. ASSUME \/ TcpAccept \/ TcpAcceptFail \/ TcpFull \/ TcpWake
               \/ (\E n \in 1 .. CHUNK_SIZE : TcpRead(n)) \/ TcpEof
               \/ TcpReadError
               \/ (\E b \in 1 .. MaxTicket : TimerTicket(b))
               \/ PumpTicket \/ (\E n \in 1 .. CHUNK_SIZE : PumpWrite(n))
               \/ PumpWriteError \/ PumpDrainEnd \/ PumpFinish
               \/ PumpLinkDown \/ PumpLinkUpIgnored \/ PumpLinkUp
               \/ PumpWaitFinish \/ PumpDiscardTicket \/ PumpClosed
               \/ AckSendFinish \/ AckDataReady \/ on_ack \/ AckDone
               \/ AckError \/ AckStreamError \/ AckNewStream
               \/ AckLinkUpFailed \/ AckHandleGone \/ MgrStreamFinished
               \/ restore_active \/ AcceptNew \/ AcceptBindFail
               \/ AcceptReconnect \/ DownRecvFirst \/ DownAccept
               \/ DownAcceptFail \/ DownDuplicate \/ DownFail \/ DownFin
               \/ DownReadError \/ DownNewStream \/ LinkLost
               \/ LinkRestored
       PROVE UNCHANGED <<bytes_written>>
  BY <1>3, Zenon DEF
     TcpAccept, TcpAcceptFail, TcpFull, TcpWake, TcpRead, TcpEof,
     TcpReadError, TimerTicket, PumpTicket, PumpWrite, PumpWriteError,
     PumpDrainEnd, PumpFinish, PumpLinkDown, PumpLinkUpIgnored, PumpLinkUp,
     PumpWaitFinish, PumpDiscardTicket, PumpClosed, AckSendFinish,
     AckDataReady, on_ack, AckDone, AckError, AckStreamError, AckNewStream,
     AckLinkUpFailed, AckHandleGone, MgrStreamFinished, restore_active,
     AcceptNew, spawn_downlink_from, AcceptBindFail, AcceptReconnect, DownRecvFirst, DownAccept,
     DownAcceptFail, DownDuplicate, DownFail, DownFin, DownReadError,
     DownNewStream, LinkLost, LinkRestored, AckExit, AckedCount, Cmd,
     DownExit, Drained, DropQueued, Duplicate, FreshStream, HasChunk,
     Inbound, Msg, NextItem, PopData, PopFeedback, ReplayFrom, Reply,
     RestoreStream, Rewind, Send, Sendable, SignalSpace, handle_eof,
     link_down, try_send_finish
<1>4. ASSUME UNCHANGED vars PROVE UNCHANGED <<bytes_written>>
  BY <1>4, Zenon DEF vars
<1> QED
  BY <1>1, <1>2, <1>3, <1>4, Zenon DEF
     Next, TcpStep, TimerStep, PumpStep, AckStep, MgrStep, AcceptStep, DownStep

\* The pump never goes back to an older stream.
LEMMA PumpStreamStep ==
  ASSUME TypeOK, StreamsInOrder, [Next]_vars
  PROVE  tx_gen <= tx_gen'
<1>1. CASE UNCHANGED <<tx_gen>>
  <2>1. tx_gen \in Nat BY GenTypes, ZenonT(30)
  <2> QED BY <1>1, <2>1
<1>2. CASE PumpLinkUp
  <2>1. cmd_rx \in Seq(CmdType) /\ cmd_rx # <<>>
    BY <1>2, Zenon DEF TypeOK, UplinkOK, PumpLinkUp, Cmd
  <2>2. Head(cmd_rx) = cmd_rx[1] /\ 1 \in 1 .. Len(cmd_rx) BY <2>1, HeadAt, Zenon
  <2>3. tx_gen < cmd_rx[1].gen BY <1>2, <2>2, Zenon DEF StreamsInOrder, IsLinkUp, PumpLinkUp, Cmd
  <2>4. tx_gen' = cmd_rx[1].gen BY <1>2, <2>2, Zenon DEF PumpLinkUp
  <2>5. tx_gen \in Nat /\ cmd_rx[1].gen \in Nat BY <2>2, GenTypes, ZenonT(30)
  <2> QED BY <2>3, <2>4, <2>5
<1>3. ASSUME \/ TcpAccept \/ TcpAcceptFail \/ TcpFull \/ TcpWake
               \/ (\E n \in 1 .. CHUNK_SIZE : TcpRead(n)) \/ TcpEof
               \/ TcpReadError
               \/ (\E b \in 1 .. MaxTicket : TimerTicket(b))
               \/ PumpTicket \/ (\E n \in 1 .. CHUNK_SIZE : PumpWrite(n))
               \/ PumpWriteError \/ PumpDrainEnd \/ PumpFinish
               \/ PumpLinkDown \/ PumpLinkUpIgnored \/ PumpWaitFinish
               \/ PumpDiscardTicket \/ PumpClosed \/ AckSendFinish
               \/ AckDataReady \/ on_ack \/ AckDone \/ AckError
               \/ AckStreamError \/ AckNewStream \/ AckLinkUpFailed
               \/ AckHandleGone \/ MgrStreamFinished \/ restore_active
               \/ AcceptNew \/ AcceptBindFail \/ AcceptReconnect
               \/ DownRecvFirst \/ DownAccept \/ DownAcceptFail
               \/ DownDuplicate \/ DownChunk \/ DownFail \/ DownFin
               \/ DownReadError \/ DownNewStream \/ LinkLost
               \/ LinkRestored
       PROVE UNCHANGED <<tx_gen>>
  BY <1>3, Zenon DEF
     TcpAccept, TcpAcceptFail, TcpFull, TcpWake, TcpRead, TcpEof,
     TcpReadError, TimerTicket, PumpTicket, PumpWrite, PumpWriteError,
     PumpDrainEnd, PumpFinish, PumpLinkDown, PumpLinkUpIgnored,
     PumpWaitFinish, PumpDiscardTicket, PumpClosed, AckSendFinish,
     AckDataReady, on_ack, AckDone, AckError, AckStreamError, AckNewStream,
     AckLinkUpFailed, AckHandleGone, MgrStreamFinished, restore_active,
     AcceptNew, spawn_downlink_from, AcceptBindFail, AcceptReconnect, DownRecvFirst, DownAccept,
     DownAcceptFail, DownDuplicate, DownChunk, DownFail, DownFin,
     DownReadError, DownNewStream, LinkLost, LinkRestored, AckExit,
     AckedCount, Cmd, DownExit, Drained, DropQueued, Duplicate,
     FreshStream, HasChunk, Inbound, Msg, NextItem, PopData, PopFeedback,
     ReplayFrom, Reply, RestoreStream, Rewind, Send, Sendable, SignalSpace,
     WrittenAfter, handle_eof, link_down, try_send_finish
<1>4. ASSUME UNCHANGED vars PROVE UNCHANGED <<tx_gen>>
  BY <1>4, Zenon DEF vars
<1> QED
  BY <1>1, <1>2, <1>3, <1>4, Zenon DEF
     Next, TcpStep, TimerStep, PumpStep, AckStep, MgrStep, AcceptStep, DownStep

\* No step frees bytes that are not written.
LEMMA AckedStep ==
  ASSUME TypeOK, StreamsInOrder, DeliveryInv, [Next]_vars
  PROVE  AckedIsWritten'
<1> USE DEF DeliveryInv
<1>1. CASE UNCHANGED <<spool, bytes_written>>
  BY <1>1, Zenon DEF AckedIsWritten
<1>2. CASE \E n \in 1 .. CHUNK_SIZE : TcpRead(n)
  <2> PICK n \in 1 .. CHUNK_SIZE : TcpRead(n) BY <1>2, Zenon
  <2>1. n \in Nat /\ n <= CHUNK_SIZE /\ CHUNK_SIZE \in Nat BY RelayAssumption
  <2>2. spool.head # EOF BY Zenon DEF TcpRead, TypeOK, UplinkOK, AtEof
  <2>3. spool' = Push(spool, n) BY Zenon DEF TcpRead
  <2>4. spool'.bytes_acked = spool.bytes_acked BY <2>1, <2>2, <2>3, SpoolNow, SpoolMoves, Zenon
  <2> QED BY <2>4, Zenon DEF AckedIsWritten, TcpRead
<1>3. CASE TcpEof
  <2>1. 0 \in Nat /\ spool' = SetEof(spool) BY <1>3, Zenon DEF TcpEof, handle_eof
  <2>2. spool'.bytes_acked = spool.bytes_acked BY <2>1, SpoolNow, SpoolMoves, Zenon
  <2> QED BY <1>3, <2>2, Zenon DEF AckedIsWritten, TcpEof
<1>4. CASE TcpReadError
  <2>1. 0 \in Nat /\ spool' = SetEof(spool) BY <1>4, Zenon DEF TcpReadError, handle_eof
  <2>2. spool'.bytes_acked = spool.bytes_acked BY <2>1, SpoolNow, SpoolMoves, Zenon
  <2> QED BY <1>4, <2>2, Zenon DEF AckedIsWritten, TcpReadError
<1>5. CASE on_ack
  <2>1. AckedCount \in Nat /\ spool' = AckTo(spool, AckedCount) BY <1>5, AckNow, Zenon DEF on_ack
  <2>2. AckedCount <= bytes_written BY <1>5, AckNow, Zenon DEF on_ack
  <2>3. spool'.bytes_acked <= AckedCount \/ spool'.bytes_acked = spool.bytes_acked
    BY <2>1, SpoolNow, SpoolMoves, Zenon
  <2>4. spool' \in SpoolType BY UplinkStep, Zenon DEF UplinkOK
  <2>5. spool'.bytes_acked \in Nat BY <2>4, SpoolTypes, Zenon
  <2>6. bytes_written' = bytes_written BY <1>5, Zenon DEF on_ack
  <2> QED BY <2>1, <2>2, <2>3, <2>5, <2>6, SpoolNow DEF AckedIsWritten
<1>6. CASE DownChunk
  <2>1. bytes_written' \in Nat BY DownlinkStep, Zenon DEF DownlinkOK
  <2>2. spool' = spool BY <1>6, Zenon DEF DownChunk
  <2> QED BY <2>1, <2>2, WrittenStep, SpoolNow DEF AckedIsWritten
<1>7. ASSUME \/ TcpAccept \/ TcpAcceptFail \/ TcpFull \/ TcpWake
               \/ (\E b \in 1 .. MaxTicket : TimerTicket(b))
               \/ PumpTicket \/ (\E n \in 1 .. CHUNK_SIZE : PumpWrite(n))
               \/ PumpWriteError \/ PumpDrainEnd \/ PumpFinish
               \/ PumpLinkDown \/ PumpLinkUpIgnored \/ PumpLinkUp
               \/ PumpWaitFinish \/ PumpDiscardTicket \/ PumpClosed
               \/ AckSendFinish \/ AckDataReady \/ AckDone \/ AckError
               \/ AckStreamError \/ AckNewStream \/ AckLinkUpFailed
               \/ AckHandleGone \/ MgrStreamFinished \/ restore_active
               \/ AcceptNew \/ AcceptBindFail \/ AcceptReconnect
               \/ DownRecvFirst \/ DownAccept \/ DownAcceptFail
               \/ DownDuplicate \/ DownFail \/ DownFin \/ DownReadError
               \/ DownNewStream \/ LinkLost \/ LinkRestored
       PROVE UNCHANGED <<spool, bytes_written>>
  BY <1>7, Zenon DEF
     TcpAccept, TcpAcceptFail, TcpFull, TcpWake, TimerTicket, PumpTicket,
     PumpWrite, PumpWriteError, PumpDrainEnd, PumpFinish, PumpLinkDown,
     PumpLinkUpIgnored, PumpLinkUp, PumpWaitFinish, PumpDiscardTicket,
     PumpClosed, AckSendFinish, AckDataReady, AckDone, AckError,
     AckStreamError, AckNewStream, AckLinkUpFailed, AckHandleGone,
     MgrStreamFinished, restore_active, AcceptNew, spawn_downlink_from, AcceptBindFail,
     AcceptReconnect, DownRecvFirst, DownAccept, DownAcceptFail,
     DownDuplicate, DownFail, DownFin, DownReadError, DownNewStream,
     LinkLost, LinkRestored, AckExit, Cmd, DownExit, Drained, DropQueued,
     Duplicate, FreshStream, HasChunk, Inbound, Msg, NextItem, PopData,
     PopFeedback, ReplayFrom, Reply, RestoreStream, Rewind, Send, Sendable,
     link_down, try_send_finish
<1>8. ASSUME UNCHANGED vars PROVE UNCHANGED <<spool, bytes_written>>
  BY <1>8, Zenon DEF vars
<1> QED
  BY <1>1, <1>2, <1>3, <1>4, <1>5, <1>6, <1>7, <1>8, Zenon DEF
     Next, TcpStep, TimerStep, PumpStep, AckStep, MgrStep, AcceptStep, DownStep

\* No step takes a running pump's cursor out of the spool.
LEMMA CursorStep ==
  ASSUME TypeOK, StreamsInOrder, DeliveryInv, [Next]_vars
  PROVE  CursorInSpool'
<1> USE DEF DeliveryInv
<1>1. CASE UNCHANGED <<pump, q, spool>>
  BY <1>1, Zenon DEF CursorInSpool, Running, T
<1>2. CASE \E n \in 1 .. CHUNK_SIZE : TcpRead(n)
  <2> PICK n \in 1 .. CHUNK_SIZE : TcpRead(n) BY <1>2, Zenon
  <2>1. n \in Nat /\ n <= CHUNK_SIZE /\ CHUNK_SIZE \in Nat BY RelayAssumption
  <2>2. spool.head # EOF BY Zenon DEF TcpRead, TypeOK, UplinkOK, AtEof
  <2>3. spool' = Push(spool, n) BY Zenon DEF TcpRead
  <2>4. spool'.bytes_acked = spool.bytes_acked /\ T' = T + n
    BY <2>1, <2>2, <2>3, SpoolNow, SpoolMoves, Zenon DEF T
  <2> QED BY <2>1, <2>4, SpoolNow DEF CursorInSpool, Running, TcpRead
<1>3. CASE TcpEof
  <2>1. 0 \in Nat /\ spool' = SetEof(spool) BY <1>3, Zenon DEF TcpEof, handle_eof
  <2>2. spool'.bytes_acked = spool.bytes_acked /\ T' = T BY <2>1, SpoolNow, SpoolMoves, Zenon DEF T
  <2> QED BY <1>3, <2>2, Zenon DEF CursorInSpool, Running, TcpEof
<1>4. CASE TcpReadError
  <2>1. 0 \in Nat /\ spool' = SetEof(spool) BY <1>4, Zenon DEF TcpReadError, handle_eof
  <2>2. spool'.bytes_acked = spool.bytes_acked /\ T' = T BY <2>1, SpoolNow, SpoolMoves, Zenon DEF T
  <2> QED BY <1>4, <2>2, Zenon DEF CursorInSpool, Running, TcpReadError
<1>5. CASE PumpTicket
  BY <1>5, Zenon DEF CursorInSpool, Running, T, PumpTicket
<1>6. CASE \E n \in 1 .. CHUNK_SIZE : PumpWrite(n)
  <2> PICK n \in 1 .. CHUNK_SIZE : PumpWrite(n) BY <1>6, Zenon
  <2>1. Running /\ q' = q + n /\ n \in Nat /\ q + n <= T /\ spool' = spool BY PumpNow, Zenon
  <2>2. T' = T BY <2>1, Zenon DEF T
  <2>3. spool.bytes_acked \in Nat /\ T \in Nat /\ q \in Nat BY SpoolNow, Zenon
  <2>4. spool.bytes_acked <= q BY <2>1, <2>3 DEF CursorInSpool
  <2>5. q' \in spool'.bytes_acked .. T' BY <2>1, <2>2, <2>3, <2>4
  <2> QED BY <2>5, Zenon DEF CursorInSpool
<1>7. CASE PumpWriteError
  BY <1>7, Zenon DEF CursorInSpool, Running, T, PumpWriteError
<1>8. CASE PumpDrainEnd
  BY <1>8, Zenon DEF CursorInSpool, Running, T, PumpDrainEnd
<1>9. CASE PumpFinish
  BY <1>9, Zenon DEF CursorInSpool, Running, T, PumpFinish
<1>10. CASE PumpLinkDown
  BY <1>10, Zenon DEF CursorInSpool, Running, T, PumpLinkDown
<1>11. CASE PumpLinkUp
  <2>1. q' = spool.bytes_acked /\ spool' = spool BY <1>11, Zenon DEF PumpLinkUp, Rewind
  <2>2. T' = T BY <2>1, Zenon DEF T
  <2> QED BY <2>1, <2>2, SpoolNow DEF CursorInSpool
<1>12. CASE PumpClosed
  BY <1>12, Zenon DEF CursorInSpool, Running, T, PumpClosed
<1>13. CASE on_ack
  <2>1. AckedCount \in Nat /\ spool' = AckTo(spool, AckedCount) BY <1>13, AckNow, Zenon DEF on_ack
  <2>2. Running => AckedCount <= q BY <1>13, AckNow, Zenon DEF on_ack
  <2>3. /\ spool'.bytes_acked <= AckedCount \/ spool'.bytes_acked = spool.bytes_acked
        /\ T' = T
    BY <2>1, SpoolNow, SpoolMoves, Zenon DEF T
  <2>4. spool' \in SpoolType BY UplinkStep, Zenon DEF UplinkOK
  <2>5. spool'.bytes_acked \in Nat BY <2>4, SpoolTypes, Zenon
  <2>6. UNCHANGED <<q, pump>> BY <1>13, Zenon DEF on_ack
  <2>7. Running' => Running BY <2>6, Zenon DEF Running
  <2>8. Running => spool'.bytes_acked <= q /\ q <= T
    BY <2>1, <2>2, <2>3, <2>5, SpoolNow DEF CursorInSpool
  <2> QED BY <2>3, <2>5, <2>6, <2>7, <2>8, SpoolNow DEF CursorInSpool
<1>14. ASSUME \/ TcpAccept \/ TcpAcceptFail \/ TcpFull \/ TcpWake
               \/ (\E b \in 1 .. MaxTicket : TimerTicket(b))
               \/ PumpLinkUpIgnored \/ PumpWaitFinish
               \/ PumpDiscardTicket \/ AckSendFinish \/ AckDataReady
               \/ AckDone \/ AckError \/ AckStreamError \/ AckNewStream
               \/ AckLinkUpFailed \/ AckHandleGone \/ MgrStreamFinished
               \/ restore_active \/ AcceptNew \/ AcceptBindFail
               \/ AcceptReconnect \/ DownRecvFirst \/ DownAccept
               \/ DownAcceptFail \/ DownDuplicate \/ DownChunk
               \/ DownFail \/ DownFin \/ DownReadError \/ DownNewStream
               \/ LinkLost \/ LinkRestored
       PROVE UNCHANGED <<pump, q, spool>>
  BY <1>14, Zenon DEF
     TcpAccept, TcpAcceptFail, TcpFull, TcpWake, TimerTicket,
     PumpLinkUpIgnored, PumpWaitFinish, PumpDiscardTicket, AckSendFinish,
     AckDataReady, AckDone, AckError, AckStreamError, AckNewStream,
     AckLinkUpFailed, AckHandleGone, MgrStreamFinished, restore_active,
     AcceptNew, spawn_downlink_from, AcceptBindFail, AcceptReconnect, DownRecvFirst, DownAccept,
     DownAcceptFail, DownDuplicate, DownChunk, DownFail, DownFin,
     DownReadError, DownNewStream, LinkLost, LinkRestored, AckExit, Cmd,
     DownExit, DropQueued, Duplicate, FreshStream, HasChunk, Inbound, Msg,
     NextItem, PopData, PopFeedback, ReplayFrom, Reply, RestoreStream,
     WrittenAfter, link_down, try_send_finish
<1>15. ASSUME UNCHANGED vars PROVE UNCHANGED <<pump, q, spool>>
  BY <1>15, Zenon DEF vars
<1> QED
  BY <1>1, <1>2, <1>3, <1>4, <1>5, <1>6, <1>7, <1>8, <1>9, <1>10, <1>11, <1>12,
     <1>13, <1>14, <1>15, Zenon DEF
     Next, TcpStep, TimerStep, PumpStep, AckStep, MgrStep, AcceptStep, DownStep

\* No step writes a byte out of place.
LEMMA IntactStep ==
  ASSUME TypeOK, StreamsInOrder, DeliveryInv, [Next]_vars
  PROVE  DeliveredIntact'
<1> USE DEF DeliveryInv
<1>1. CASE UNCHANGED <<intact, bytes_written, spool>>
  BY <1>1, Zenon DEF DeliveredIntact, T
<1>2. CASE \E n \in 1 .. CHUNK_SIZE : TcpRead(n)
  <2> PICK n \in 1 .. CHUNK_SIZE : TcpRead(n) BY <1>2, Zenon
  <2>1. UNCHANGED <<intact, bytes_written>> BY Zenon DEF TcpRead
  <2> QED BY <2>1, HeadStep, SpoolStep, SpoolNow DEF DeliveredIntact
<1>3. CASE TcpEof
  <2>1. UNCHANGED <<intact, bytes_written>> BY <1>3, Zenon DEF TcpEof
  <2> QED BY <2>1, HeadStep, SpoolStep, SpoolNow DEF DeliveredIntact
<1>4. CASE TcpReadError
  <2>1. UNCHANGED <<intact, bytes_written>> BY <1>4, Zenon DEF TcpReadError
  <2> QED BY <2>1, HeadStep, SpoolStep, SpoolNow DEF DeliveredIntact
<1>5. CASE on_ack
  <2>1. UNCHANGED <<intact, bytes_written>> BY <1>5, Zenon DEF on_ack
  <2> QED BY <2>1, HeadStep, SpoolStep, SpoolNow DEF DeliveredIntact
<1>6. CASE DownChunk
  <2>1. data[down_gen] # <<>> /\ IsChunk(NextItem) /\ spool' = spool
        /\ bytes_written' = WrittenAfter /\ intact' = (intact /\ NextItem.src = NextItem.off)
    BY <1>6, Zenon DEF DownChunk, HasChunk
  <2>2. NextItem.src = NextItem.off /\ End(NextItem) <= T BY <2>1, ItemNow, Zenon DEF ChunksTrue
  <2>3. T' = T BY <2>1, Zenon DEF T
  <2> QED BY <2>1, <2>2, <2>3, ItemNow, Zenon DEF DeliveredIntact
<1>7. ASSUME \/ TcpAccept \/ TcpAcceptFail \/ TcpFull \/ TcpWake
               \/ (\E b \in 1 .. MaxTicket : TimerTicket(b))
               \/ PumpTicket \/ (\E n \in 1 .. CHUNK_SIZE : PumpWrite(n))
               \/ PumpWriteError \/ PumpDrainEnd \/ PumpFinish
               \/ PumpLinkDown \/ PumpLinkUpIgnored \/ PumpLinkUp
               \/ PumpWaitFinish \/ PumpDiscardTicket \/ PumpClosed
               \/ AckSendFinish \/ AckDataReady \/ AckDone \/ AckError
               \/ AckStreamError \/ AckNewStream \/ AckLinkUpFailed
               \/ AckHandleGone \/ MgrStreamFinished \/ restore_active
               \/ AcceptNew \/ AcceptBindFail \/ AcceptReconnect
               \/ DownRecvFirst \/ DownAccept \/ DownAcceptFail
               \/ DownDuplicate \/ DownFail \/ DownFin \/ DownReadError
               \/ DownNewStream \/ LinkLost \/ LinkRestored
       PROVE UNCHANGED <<intact, bytes_written, spool>>
  BY <1>7, Zenon DEF
     TcpAccept, TcpAcceptFail, TcpFull, TcpWake, TimerTicket, PumpTicket,
     PumpWrite, PumpWriteError, PumpDrainEnd, PumpFinish, PumpLinkDown,
     PumpLinkUpIgnored, PumpLinkUp, PumpWaitFinish, PumpDiscardTicket,
     PumpClosed, AckSendFinish, AckDataReady, AckDone, AckError,
     AckStreamError, AckNewStream, AckLinkUpFailed, AckHandleGone,
     MgrStreamFinished, restore_active, AcceptNew, spawn_downlink_from, AcceptBindFail,
     AcceptReconnect, DownRecvFirst, DownAccept, DownAcceptFail,
     DownDuplicate, DownFail, DownFin, DownReadError, DownNewStream,
     LinkLost, LinkRestored, AckExit, Cmd, DownExit, Drained, DropQueued,
     Duplicate, FreshStream, HasChunk, Inbound, Msg, NextItem, PopData,
     PopFeedback, ReplayFrom, Reply, RestoreStream, Rewind, Send, Sendable,
     link_down, try_send_finish
<1>8. ASSUME UNCHANGED vars PROVE UNCHANGED <<intact, bytes_written, spool>>
  BY <1>8, Zenon DEF vars
<1> QED
  BY <1>1, <1>2, <1>3, <1>4, <1>5, <1>6, <1>7, <1>8, Zenon DEF
     Next, TcpStep, TimerStep, PumpStep, AckStep, MgrStep, AcceptStep, DownStep

-----------------------------------------------------------------------------
(* What is in flight *)

\* All that happens to the data in flight on stream g, apart from the pump's
\* writes: a FIN is added, the stream is cut off, or the receiver takes an item
\* and either counts its bytes as written or ends.
Taken(g) ==
    /\ g = down_gen /\ data[g] # <<>> /\ data'[g] = Tail(data[g])
    /\ \/ IsChunk(data[g][1]) /\ End(data[g][1]) <= bytes_written'
       \/ down' = "exited" /\ g \in dropped'

\* The FIN put on stream g is the pump's last word, or g is dropped: it cannot be
\* handed to the AckTask, or was queued for an AckTask that ends.
Ended(g) ==
    \/ PumpDrainEnd /\ Drained /\ g = tx_gen /\ ~Broken(g)
    \/ restore_active /\ g = gen /\ UNCHANGED stream_rx
    \/ /\ AckDone \/ AckError \/ (AckLinkUpFailed /\ g \in Range(Tail(stream_rx)))
       /\ acker' = "exited" /\ g \in Range(stream_rx) /\ UNCHANGED <<gen, restored>>

Moved(g) ==
    \/ data'[g] = data[g]
    \/ data'[g] = Append(data[g], FIN) /\ Ended(g)
    \/ ~link' /\ data'[g] \in Prefixes(data[g])
    \/ Taken(g)

\* The empty sequence is a prefix.
LEMMA EmptyPrefix == ASSUME NEW S, NEW s \in Seq(S) PROVE <<>> \in Prefixes(s)
<1>1. 0 \in 0 .. Len(s) /\ SubSeq(s, 1, 0) = <<>> OBVIOUS
<1> QED BY <1>1, Zenon DEF Prefixes

\* Losing the link cuts off both directions of the current stream.
LEMMA LostNow ==
  ASSUME TypeOK, LinkLost
  PROVE  /\ link' = FALSE
         /\ \A g \in Gens : data'[g] = data[g] \/ data'[g] \in Prefixes(data[g])
         /\ \A g \in Gens : feedback'[g] = feedback[g] \/ feedback'[g] \in Prefixes(feedback[g])
         /\ inbound' = inbound \/ (inbound # <<>> /\ inbound' = Front(inbound))
<1>1. /\ data \in [Gens -> Seq(ItemType)] /\ feedback \in [Gens -> Seq(MsgType)]
      /\ gen \in Gens
  BY Zenon DEF TypeOK, WireOK
<1>2. <<>> \in Prefixes(data[gen]) /\ <<>> \in Prefixes(feedback[gen]) BY <1>1, EmptyPrefix, Zenon
<1>3. PICK d \in Prefixes(data[gen]), f \in Prefixes(feedback[gen]) :
         data' = [data EXCEPT ![gen] = d] /\ feedback' = [feedback EXCEPT ![gen] = f]
  BY <1>2, Zenon DEF LinkLost
<1>4. link' = FALSE BY Zenon DEF LinkLost
<1>5. \A g \in Gens : data'[g] = data[g] \/ data'[g] \in Prefixes(data[g]) BY <1>1, <1>3, Zenon
<1>6. \A g \in Gens : feedback'[g] = feedback[g] \/ feedback'[g] \in Prefixes(feedback[g])
  BY <1>1, <1>3, Zenon
<1>7. inbound' = inbound \/ (inbound # <<>> /\ inbound' = Front(inbound)) BY Zenon DEF LinkLost
<1> QED BY <1>4, <1>5, <1>6, <1>7, Zenon

\* Dropped streams are finished.
LEMMA DropNow ==
  ASSUME NEW gs, DropQueued(gs), NEW g \in Gens
  PROVE  data'[g] = data[g] \/ (g \in gs /\ data'[g] = Append(data[g], FIN))
  BY Zenon DEF DropQueued

\* What is left of a queue was in it.
LEMMA TailRange ==
  ASSUME NEW S, NEW s \in Seq(S), s # <<>>
  PROVE  Range(Tail(s)) \subseteq Range(s)
<1>1. /\ Tail(s) \in Seq(S) /\ Len(s) \in Nat /\ Len(Tail(s)) = Len(s) - 1
      /\ \A i \in 1 .. Len(s) - 1 : Tail(s)[i] = s[i + 1]
  BY TailAt, HeadTail, Zenon
<1>2. DOMAIN s = 1 .. Len(s) /\ DOMAIN Tail(s) = 1 .. Len(s) - 1 BY <1>1
<1>3. \A i \in 1 .. Len(s) - 1 : i + 1 \in 1 .. Len(s) BY <1>1
<1> QED BY <1>1, <1>2, <1>3, Zenon DEF Range

\* A step writes a chunk, or moves what is in flight.
LEMMA DataStep ==
  ASSUME TypeOK, [Next]_vars
  PROVE  (\E n \in 1 .. CHUNK_SIZE : PumpWrite(n)) \/ \A g \in Gens : Moved(g)
<1>1. CASE UNCHANGED <<data>>
  BY <1>1, Zenon DEF Moved
<1>2. CASE \E n \in 1 .. CHUNK_SIZE : PumpWrite(n)
  BY <1>2, Zenon
<1>3. CASE PumpDrainEnd
  <2>1. data' = data \/ (Drained /\ Send(tx_gen, FIN)) BY <1>3, Zenon DEF PumpDrainEnd
  <2>2. CASE data' # data
    <3>1. Drained /\ ~Broken(tx_gen) /\ data' = [data EXCEPT ![tx_gen] = Append(@, FIN)]
      BY <2>1, <2>2, Zenon DEF Send
    <3>2. Ended(tx_gen) BY <1>3, <3>1, Zenon DEF Ended
    <3>3. data \in [Gens -> Seq(ItemType)] BY Zenon DEF TypeOK, WireOK
    <3>4. \A g \in Gens : data'[g] = data[g] \/ (g = tx_gen /\ data'[g] = Append(data[g], FIN))
      BY <3>1, <3>3, Zenon
    <3> QED BY <3>2, <3>4, Zenon DEF Moved
  <2> QED BY <2>2, Zenon DEF Moved
<1>4. CASE AckDone
  <2>1. /\ DropQueued(Range(stream_rx)) /\ acker' = "exited" /\ UNCHANGED <<gen, restored>>
    BY <1>4, Zenon DEF AckDone, AckExit
  <2> QED BY <1>4, <2>1, DropNow, Zenon DEF Moved, Ended
<1>5. CASE AckError
  <2>1. /\ DropQueued(Range(stream_rx)) /\ acker' = "exited" /\ UNCHANGED <<gen, restored>>
    BY <1>5, Zenon DEF AckError, AckExit
  <2> QED BY <1>5, <2>1, DropNow, Zenon DEF Moved, Ended
<1>6. CASE AckLinkUpFailed
  <2>1. /\ DropQueued(Range(Tail(stream_rx))) /\ acker' = "exited" /\ UNCHANGED <<gen, restored>>
        /\ stream_rx # <<>>
    BY <1>6, Zenon DEF AckLinkUpFailed, AckExit
  <2>2. stream_rx \in Seq(Gens) BY Zenon DEF TypeOK, UplinkOK
  <2>3. Range(Tail(stream_rx)) \subseteq Range(stream_rx) BY <2>1, <2>2, TailRange, Zenon
  <2> QED BY <1>6, <2>1, <2>3, DropNow, Zenon DEF Moved, Ended
<1>7. CASE restore_active
  <2>1. data' = data \/ (DropQueued({gen}) /\ UNCHANGED stream_rx)
    BY <1>7, Zenon DEF restore_active, RestoreStream
  <2>2. CASE data' = data BY <2>2, Zenon DEF Moved
  <2>3. CASE DropQueued({gen}) /\ UNCHANGED stream_rx
    <3>1. \A g \in Gens : data'[g] = data[g] \/ (g = gen /\ data'[g] = Append(data[g], FIN))
      BY <2>3, DropNow
    <3>2. Ended(gen) BY <1>7, <2>3, Zenon DEF Ended
    <3> QED BY <3>1, <3>2, Zenon DEF Moved
  <2> QED BY <2>1, <2>2, <2>3, Zenon
<1>8. CASE DownDuplicate
  <2>1. PopData /\ data[down_gen] # <<>> /\ IsChunk(NextItem)
    BY <1>8, Zenon DEF DownDuplicate, HasChunk
  <2>2. End(NextItem) <= bytes_written'
    BY <1>8, <2>1, ItemNow, Zenon DEF DownDuplicate, Duplicate, End
  <2>3. data \in [Gens -> Seq(ItemType)] BY Zenon DEF TypeOK, WireOK
  <2>4. \A g \in Gens : g # down_gen => data'[g] = data[g] BY <2>1, <2>3, Zenon DEF PopData
  <2>5. data'[down_gen] = Tail(data[down_gen]) BY <2>1, <2>3, ItemNow, Zenon DEF PopData
  <2>6. Taken(down_gen) BY <2>1, <2>2, <2>5, ItemNow, Zenon DEF Taken
  <2> QED BY <2>4, <2>6, Zenon DEF Moved
<1>9. CASE DownChunk
  <2>1. PopData /\ data[down_gen] # <<>> /\ IsChunk(NextItem) BY <1>9, Zenon DEF DownChunk, HasChunk
  <2>2. End(NextItem) <= bytes_written' BY <1>9, <2>1, ItemNow DEF DownChunk, WrittenAfter, End
  <2>3. data \in [Gens -> Seq(ItemType)] BY Zenon DEF TypeOK, WireOK
  <2>4. \A g \in Gens : g # down_gen => data'[g] = data[g] BY <2>1, <2>3, Zenon DEF PopData
  <2>5. data'[down_gen] = Tail(data[down_gen]) BY <2>1, <2>3, ItemNow, Zenon DEF PopData
  <2>6. Taken(down_gen) BY <2>1, <2>2, <2>5, ItemNow, Zenon DEF Taken
  <2> QED BY <2>4, <2>6, Zenon DEF Moved
<1>10. CASE DownFail
  <2>1. PopData /\ data[down_gen] # <<>> /\ down' = "exited" /\ down_gen \in dropped'
    BY <1>10, Zenon DEF DownFail, DownExit, HasChunk
  <2>3. data \in [Gens -> Seq(ItemType)] BY Zenon DEF TypeOK, WireOK
  <2>4. \A g \in Gens : g # down_gen => data'[g] = data[g] BY <2>1, <2>3, Zenon DEF PopData
  <2>5. data'[down_gen] = Tail(data[down_gen]) BY <2>1, <2>3, ItemNow, Zenon DEF PopData
  <2>6. Taken(down_gen) BY <2>1, <2>5, Zenon DEF Taken
  <2> QED BY <2>4, <2>6, Zenon DEF Moved
<1>11. CASE DownFin
  <2>1. PopData /\ data[down_gen] # <<>> /\ down' = "exited" /\ down_gen \in dropped'
    BY <1>11, Zenon DEF DownFin, DownExit
  <2>3. data \in [Gens -> Seq(ItemType)] BY Zenon DEF TypeOK, WireOK
  <2>4. \A g \in Gens : g # down_gen => data'[g] = data[g] BY <2>1, <2>3, Zenon DEF PopData
  <2>5. data'[down_gen] = Tail(data[down_gen]) BY <2>1, <2>3, ItemNow, Zenon DEF PopData
  <2>6. Taken(down_gen) BY <2>1, <2>5, Zenon DEF Taken
  <2> QED BY <2>4, <2>6, Zenon DEF Moved
<1>12. CASE LinkLost
  BY <1>12, LostNow, Zenon DEF Moved
<1>13. ASSUME \/ TcpAccept \/ TcpAcceptFail \/ TcpFull \/ TcpWake
               \/ (\E n \in 1 .. CHUNK_SIZE : TcpRead(n)) \/ TcpEof
               \/ TcpReadError
               \/ (\E b \in 1 .. MaxTicket : TimerTicket(b))
               \/ PumpTicket \/ PumpWriteError \/ PumpFinish
               \/ PumpLinkDown \/ PumpLinkUpIgnored \/ PumpLinkUp
               \/ PumpWaitFinish \/ PumpDiscardTicket \/ PumpClosed
               \/ AckSendFinish \/ AckDataReady \/ on_ack
               \/ AckStreamError \/ AckNewStream \/ AckHandleGone
               \/ MgrStreamFinished \/ AcceptNew \/ AcceptBindFail
               \/ AcceptReconnect \/ DownRecvFirst \/ DownAccept
               \/ DownAcceptFail \/ DownReadError \/ DownNewStream
               \/ LinkRestored
       PROVE UNCHANGED <<data>>
  BY <1>13, Zenon DEF
     TcpAccept, TcpAcceptFail, TcpFull, TcpWake, TcpRead, TcpEof,
     TcpReadError, TimerTicket, PumpTicket, PumpWriteError, PumpFinish,
     PumpLinkDown, PumpLinkUpIgnored, PumpLinkUp, PumpWaitFinish,
     PumpDiscardTicket, PumpClosed, AckSendFinish, AckDataReady, on_ack,
     AckStreamError, AckNewStream, AckHandleGone, MgrStreamFinished,
     AcceptNew, spawn_downlink_from, AcceptBindFail, AcceptReconnect, DownRecvFirst, DownAccept,
     DownAcceptFail, DownReadError, DownNewStream, LinkRestored, AckExit,
     AckedCount, Cmd, DownExit, FreshStream, Inbound, Msg, PopFeedback,
     Reply, Rewind, SignalSpace, handle_eof, link_down, try_send_finish
<1>14. ASSUME UNCHANGED vars PROVE UNCHANGED <<data>>
  BY <1>14, Zenon DEF vars
<1> QED
  BY <1>1, <1>2, <1>3, <1>4, <1>5, <1>6, <1>7, <1>8, <1>9, <1>10, <1>11, <1>12,
     <1>13, <1>14 DEF
     Next, TcpStep, TimerStep, PumpStep, AckStep, MgrStep, AcceptStep, DownStep

\* A chunk that is in flight after such a step was so before, and so were two in
\* a row.
LEMMA MovedItems ==
  ASSUME TypeOK, NEW g \in Gens, Moved(g)
  PROVE  /\ \A i \in 1 .. Len(data'[g]) : IsChunk(data'[g][i]) =>
               \E j \in 1 .. Len(data[g]) : data'[g][i] = data[g][j]
         /\ \A i \in 1 .. Len(data'[g]) - 1 : IsChunk(data'[g][i]) /\ IsChunk(data'[g][i + 1]) =>
               \E j \in 1 .. Len(data[g]) - 1 :
                  data'[g][i] = data[g][j] /\ data'[g][i + 1] = data[g][j + 1]
<1>1. data[g] \in Seq(ItemType) /\ FIN \in ItemType /\ ~IsChunk(FIN)
  BY MessageTypes, Zenon DEF TypeOK, WireOK, FIN, IsChunk
<1>2. Len(data[g]) \in Nat BY <1>1
<1>3. CASE data'[g] = data[g] BY <1>2, <1>3, Zenon
<1>4. CASE data'[g] = Append(data[g], FIN)
  <2>1. /\ Len(data'[g]) = Len(data[g]) + 1
        /\ \A i \in 1 .. Len(data[g]) : data'[g][i] = data[g][i]
        /\ ~IsChunk(data'[g][Len(data[g]) + 1])
    BY <1>1, <1>4, AppendAt
  <2>2. ASSUME NEW i \in 1 .. Len(data'[g]), IsChunk(data'[g][i])
        PROVE  \E j \in 1 .. Len(data[g]) : data'[g][i] = data[g][j]
    <3>1. i \in 1 .. Len(data[g]) BY <1>2, <2>1, <2>2
    <3> QED BY <2>1, <3>1, Zenon
  <2>3. ASSUME NEW i \in 1 .. Len(data'[g]) - 1, IsChunk(data'[g][i + 1])
        PROVE  \E j \in 1 .. Len(data[g]) - 1 :
                  data'[g][i] = data[g][j] /\ data'[g][i + 1] = data[g][j + 1]
    <3>1. /\ i \in 1 .. Len(data[g]) - 1 /\ i \in 1 .. Len(data[g])
          /\ i + 1 \in 1 .. Len(data[g])
      BY <1>2, <2>1, <2>3
    <3> QED BY <2>1, <3>1, Zenon
  <2> QED BY <2>2, <2>3, Zenon
<1>5. CASE data'[g] \in Prefixes(data[g])
  <2>1. Len(data'[g]) \in 0 .. Len(data[g])
        /\ \A i \in 1 .. Len(data'[g]) : data'[g][i] = data[g][i]
    BY <1>1, <1>5, PrefixAt, Zenon
  <2> QED BY <1>2, <2>1
<1>6. CASE data[g] # <<>> /\ data'[g] = Tail(data[g])
  <2>1. Len(data'[g]) = Len(data[g]) - 1
        /\ \A i \in 1 .. Len(data[g]) - 1 : data'[g][i] = data[g][i + 1]
    BY <1>1, <1>6, TailAt, Zenon
  <2>2. \A i \in 1 .. Len(data'[g]) : i + 1 \in 1 .. Len(data[g]) BY <1>2, <2>1
  <2>3. \A i \in 1 .. Len(data'[g]) - 1 :
           /\ i + 1 \in 1 .. Len(data[g]) - 1
           /\ data'[g][i] = data[g][i + 1] /\ data'[g][i + 1] = data[g][(i + 1) + 1]
    BY <1>2, <2>1
  <2> QED BY <1>2, <2>1, <2>2, <2>3, Zenon
<1> QED BY <1>3, <1>4, <1>5, <1>6, Zenon DEF Moved, Taken

\* Items in flight have their types.
LEMMA ItemTypes ==
  ASSUME TypeOK, NEW g \in Gens
  PROVE  /\ data[g] \in Seq(ItemType) /\ Len(data[g]) \in Nat /\ g \in Nat
         /\ \A i \in 1 .. Len(data[g]) : data[g][i].off \in Nat /\ End(data[g][i]) \in Nat
<1>1. data[g] \in Seq(ItemType) BY Zenon DEF TypeOK, WireOK
<1>2. \A i \in 1 .. Len(data[g]) : data[g][i] \in ItemType BY <1>1
<1>3. g \in Nat BY RelayAssumption DEF Gens
<1>4. \A i \in 1 .. Len(data[g]) : data[g][i].off \in Nat /\ data[g][i].len \in Nat
  BY <1>2, Zenon DEF ItemType
<1> QED BY <1>1, <1>3, <1>4 DEF End

\* Every step keeps the chunks in flight true.
LEMMA ChunksTrueStep ==
  ASSUME TypeOK, StreamsInOrder, DeliveryInv, [Next]_vars
  PROVE  ChunksTrue'
<1> USE DEF DeliveryInv
<1>1. T <= T' /\ T \in Nat /\ T' \in Nat BY SpoolStep, SpoolNow, HeadStep, Zenon
<1>2. tx_gen <= tx_gen' /\ tx_gen \in Nat BY PumpStreamStep, GenTypes, Zenon
<1>3. tx_gen' \in Nat BY UplinkStep, RelayAssumption DEF UplinkOK, Gens
<1>4. CASE \A g \in Gens : Moved(g)
  <2> SUFFICES ASSUME NEW g \in Gens, NEW i \in 1 .. Len(data'[g]), IsChunk(data'[g][i])
               PROVE  /\ data'[g][i].src = data'[g][i].off
                      /\ End(data'[g][i]) <= T' /\ g <= tx_gen'
    BY Zenon DEF ChunksTrue
  <2>1. PICK j \in 1 .. Len(data[g]) : data'[g][i] = data[g][j] BY <1>4, MovedItems, Zenon
  <2>2. /\ data[g][j].src = data[g][j].off /\ End(data[g][j]) <= T /\ g <= tx_gen
    BY <2>1, Zenon DEF ChunksTrue
  <2>3. End(data[g][j]) \in Nat /\ g \in Nat BY ItemTypes, Zenon
  <2> QED BY <1>1, <1>2, <1>3, <2>1, <2>2, <2>3
<1>5. CASE \E n \in 1 .. CHUNK_SIZE : PumpWrite(n)
  <2> PICK n \in 1 .. CHUNK_SIZE : PumpWrite(n) BY <1>5, Zenon
  <2>1. T' = T /\ tx_gen' = tx_gen BY PumpNow, Zenon DEF T
  <2>2. \A g \in Gens : g # tx_gen => data'[g] = data[g] BY PumpNow, Zenon
  <2>3. /\ Len(data[tx_gen]) \in Nat /\ Len(data'[tx_gen]) = Len(data[tx_gen]) + 1
        /\ \A i \in 1 .. Len(data[tx_gen]) : data'[tx_gen][i] = data[tx_gen][i]
        /\ data'[tx_gen][Len(data[tx_gen]) + 1] = Chunk(q, q, n)
    BY PumpNow, AppendAt, ItemTypes
  <2>4. Chunk(q, q, n).src = Chunk(q, q, n).off /\ End(Chunk(q, q, n)) <= T
    BY PumpNow, Zenon DEF Chunk, End
  <2>5. \A i \in 1 .. Len(data'[tx_gen]) : i \in 1 .. Len(data[tx_gen]) \/ i = Len(data[tx_gen]) + 1
    BY <2>3
  <2>6. tx_gen \in Gens /\ tx_gen <= tx_gen BY <1>2, PumpNow, Zenon
  <2> SUFFICES ASSUME NEW g \in Gens, NEW i \in 1 .. Len(data'[g]), IsChunk(data'[g][i])
               PROVE  /\ data'[g][i].src = data'[g][i].off
                      /\ End(data'[g][i]) <= T /\ g <= tx_gen
    BY <2>1, Zenon DEF ChunksTrue
  <2>7. CASE g # tx_gen BY <2>2, <2>7, Zenon DEF ChunksTrue
  <2>8. CASE g = tx_gen
    <3>1. CASE i \in 1 .. Len(data[tx_gen]) BY <2>3, <2>8, <3>1, Zenon DEF ChunksTrue
    <3>2. CASE i = Len(data[tx_gen]) + 1 BY <2>3, <2>4, <2>6, <2>8, <3>2, Zenon
    <3> QED BY <2>5, <2>8, <3>1, <3>2, Zenon
  <2> QED BY <2>7, <2>8, Zenon
<1> QED BY <1>4, <1>5, DataStep, Zenon

\* Every step keeps them contiguous.
LEMMA ContiguousStep ==
  ASSUME TypeOK, StreamsInOrder, DeliveryInv, [Next]_vars
  PROVE  ChunksContiguous'
<1> USE DEF DeliveryInv
<1>1. CASE \A g \in Gens : Moved(g)
  <2> SUFFICES ASSUME NEW g \in Gens, NEW i \in 1 .. Len(data'[g]) - 1,
                      IsChunk(data'[g][i]), IsChunk(data'[g][i + 1])
               PROVE  data'[g][i + 1].off = End(data'[g][i])
    BY Zenon DEF ChunksContiguous
  <2>1. PICK j \in 1 .. Len(data[g]) - 1 :
           data'[g][i] = data[g][j] /\ data'[g][i + 1] = data[g][j + 1]
    BY <1>1, MovedItems, Zenon
  <2> QED BY <2>1, Zenon DEF ChunksContiguous
<1>2. CASE \E n \in 1 .. CHUNK_SIZE : PumpWrite(n)
  <2> PICK n \in 1 .. CHUNK_SIZE : PumpWrite(n) BY <1>2, Zenon
  <2> DEFINE k == Len(data[tx_gen])
  <2>1. \A g \in Gens : g # tx_gen => data'[g] = data[g] BY PumpNow, Zenon
  <2>2. /\ k \in Nat /\ Len(data'[tx_gen]) = k + 1
        /\ \A i \in 1 .. k : data'[tx_gen][i] = data[tx_gen][i]
        /\ data'[tx_gen][k + 1] = Chunk(q, q, n)
    BY PumpNow, AppendAt, ItemTypes
  <2>3. k > 0 /\ IsChunk(data[tx_gen][k]) => End(data[tx_gen][k]) = q
    BY PumpNow, Zenon DEF CursorAtEnd
  <2> SUFFICES ASSUME NEW g \in Gens, NEW i \in 1 .. Len(data'[g]) - 1,
                      IsChunk(data'[g][i]), IsChunk(data'[g][i + 1])
               PROVE  data'[g][i + 1].off = End(data'[g][i])
    BY Zenon DEF ChunksContiguous
  <2>4. CASE g # tx_gen BY <2>1, <2>4, Zenon DEF ChunksContiguous
  <2>5. CASE g = tx_gen
    <3> HIDE DEF k
    <3>1. CASE i = k BY <2>2, <2>3, <2>5, <3>1 DEF Chunk
    <3>2. CASE i # k
      <4>1. i \in 1 .. k - 1 /\ i \in 1 .. k /\ i + 1 \in 1 .. k BY <2>2, <2>5, <3>2
      <4>2. data'[g][i] = data[g][i] /\ data'[g][i + 1] = data[g][i + 1] BY <2>2, <2>5, <4>1, Zenon
      <4> QED BY <2>5, <4>1, <4>2, Zenon DEF ChunksContiguous, k
    <3> QED BY <3>1, <3>2, Zenon
  <2> QED BY <2>4, <2>5, Zenon
<1> QED BY <1>1, <1>2, DataStep, Zenon

-----------------------------------------------------------------------------
(* Stream headers and the heads of streams *)

\* A header that is unread after a step was so before, or announces a replay from A.
LEMMA InboundStep ==
  ASSUME TypeOK, [Next]_vars
  PROVE  \A i \in 1 .. Len(inbound') :
            \/ i \in 1 .. Len(inbound) /\ inbound'[i] = inbound[i]
            \/ i + 1 \in 1 .. Len(inbound) /\ inbound'[i] = inbound[i + 1]
            \/ /\ inbound'[i].op = "Reconnect" /\ inbound'[i].replay_from = spool.bytes_acked
               /\ inbound'[i].gen = gen /\ gen' = gen /\ restored'
<1>1. CASE UNCHANGED <<inbound>>
  BY <1>1, Zenon
<1>2. CASE restore_active
  <2>1. CASE inbound' = inbound BY <2>1, Zenon
  <2>2. CASE inbound' = Append(inbound, Reconnect(gen, spool.bytes_acked))
    <3>1. inbound \in Seq(OpenType) /\ gen \in Gens BY Zenon DEF TypeOK, WireOK
    <3>2. spool.bytes_acked \in Nat BY SpoolTypes, Zenon DEF TypeOK, UplinkOK
    <3>3. Reconnect(gen, spool.bytes_acked) \in OpenType BY <3>1, <3>2, MessageTypes, Zenon
    <3>4. /\ Reconnect(gen, spool.bytes_acked).op = "Reconnect"
          /\ Reconnect(gen, spool.bytes_acked).replay_from = spool.bytes_acked
          /\ Reconnect(gen, spool.bytes_acked).gen = gen
      BY Zenon DEF Reconnect
    <3>5. /\ Len(inbound) \in Nat /\ Len(inbound') = Len(inbound) + 1
          /\ \A i \in 1 .. Len(inbound) : inbound'[i] = inbound[i]
          /\ inbound'[Len(inbound) + 1] = Reconnect(gen, spool.bytes_acked)
      BY <2>2, <3>1, <3>3, AppendAt
    <3>6. gen' = gen /\ restored' BY <1>2, Zenon DEF restore_active
    <3> QED BY <3>4, <3>5, <3>6
  <2> QED BY <1>2, <2>1, <2>2, Zenon DEF restore_active, RestoreStream, ReplayFrom
<1>3. CASE AcceptNew
  <2>1. inbound # <<>> /\ inbound' = Tail(inbound) BY <1>3, Zenon DEF AcceptNew, Inbound
  <2>2. inbound \in Seq(OpenType) BY Zenon DEF TypeOK, WireOK
  <2> QED BY <2>1, <2>2, TailAt
<1>4. CASE AcceptBindFail
  <2>1. inbound # <<>> /\ inbound' = Tail(inbound) BY <1>4, Zenon DEF AcceptBindFail, Inbound
  <2>2. inbound \in Seq(OpenType) BY Zenon DEF TypeOK, WireOK
  <2> QED BY <2>1, <2>2, TailAt
<1>5. CASE AcceptReconnect
  <2>1. inbound # <<>> /\ inbound' = Tail(inbound) BY <1>5, Zenon DEF AcceptReconnect, Inbound
  <2>2. inbound \in Seq(OpenType) BY Zenon DEF TypeOK, WireOK
  <2> QED BY <2>1, <2>2, TailAt
<1>6. CASE LinkLost
  <2>1. inbound \in Seq(OpenType) BY Zenon DEF TypeOK, WireOK
  <2>2. CASE inbound # <<>> /\ inbound' = Front(inbound)
    <3>1. inbound' \in Prefixes(inbound) BY <2>1, <2>2, FrontPrefix, Zenon
    <3> QED BY <2>1, <3>1, PrefixAt
  <2> QED BY <1>6, <2>2, LostNow, Zenon
<1>7. ASSUME \/ TcpAccept \/ TcpAcceptFail \/ TcpFull \/ TcpWake
               \/ (\E n \in 1 .. CHUNK_SIZE : TcpRead(n)) \/ TcpEof
               \/ TcpReadError
               \/ (\E b \in 1 .. MaxTicket : TimerTicket(b))
               \/ PumpTicket \/ (\E n \in 1 .. CHUNK_SIZE : PumpWrite(n))
               \/ PumpWriteError \/ PumpDrainEnd \/ PumpFinish
               \/ PumpLinkDown \/ PumpLinkUpIgnored \/ PumpLinkUp
               \/ PumpWaitFinish \/ PumpDiscardTicket \/ PumpClosed
               \/ AckSendFinish \/ AckDataReady \/ on_ack \/ AckDone
               \/ AckError \/ AckStreamError \/ AckNewStream
               \/ AckLinkUpFailed \/ AckHandleGone \/ MgrStreamFinished
               \/ DownRecvFirst \/ DownAccept \/ DownAcceptFail
               \/ DownDuplicate \/ DownChunk \/ DownFail \/ DownFin
               \/ DownReadError \/ DownNewStream \/ LinkRestored
       PROVE UNCHANGED <<inbound>>
  BY <1>7, Zenon DEF
     TcpAccept, TcpAcceptFail, TcpFull, TcpWake, TcpRead, TcpEof,
     TcpReadError, TimerTicket, PumpTicket, PumpWrite, PumpWriteError,
     PumpDrainEnd, PumpFinish, PumpLinkDown, PumpLinkUpIgnored, PumpLinkUp,
     PumpWaitFinish, PumpDiscardTicket, PumpClosed, AckSendFinish,
     AckDataReady, on_ack, AckDone, AckError, AckStreamError, AckNewStream,
     AckLinkUpFailed, AckHandleGone, MgrStreamFinished, DownRecvFirst,
     DownAccept, DownAcceptFail, DownDuplicate, DownChunk, DownFail,
     DownFin, DownReadError, DownNewStream, LinkRestored, AckExit,
     AckedCount, Cmd, DownExit, Drained, DropQueued, Duplicate,
     FreshStream, HasChunk, Msg, NextItem, PopData, PopFeedback, Reply,
     Rewind, Send, Sendable, SignalSpace, WrittenAfter, handle_eof,
     link_down, try_send_finish
<1>8. ASSUME UNCHANGED vars PROVE UNCHANGED <<inbound>>
  BY <1>8, Zenon DEF vars
<1> QED
  BY <1>1, <1>2, <1>3, <1>4, <1>5, <1>6, <1>7, <1>8, Zenon DEF
     Next, TcpStep, TimerStep, PumpStep, AckStep, MgrStep, AcceptStep, DownStep

\* Only AcceptNew starts a receiving task, and one that has ended changes no more.
LEMMA DownStepShape ==
  ASSUME TypeOK, [Next]_vars
  PROVE  AcceptNew \/ down' = down \/ down \notin {"none", "exited"}
<1>1. CASE UNCHANGED <<down>>
  BY <1>1, Zenon
<1>2. CASE AcceptNew
  BY <1>2, Zenon
<1>3. CASE DownRecvFirst
  BY <1>3, Zenon DEF DownRecvFirst
<1>4. CASE DownAccept
  BY <1>4, Zenon DEF DownAccept
<1>5. CASE DownAcceptFail
  BY <1>5, Zenon DEF DownAcceptFail
<1>6. CASE DownFail
  BY <1>6, Zenon DEF DownFail, HasChunk
<1>7. CASE DownFin
  BY <1>7, Zenon DEF DownFin
<1>8. CASE DownReadError
  BY <1>8, Zenon DEF DownReadError
<1>9. CASE DownNewStream
  BY <1>9, Zenon DEF DownNewStream
<1>10. ASSUME \/ TcpAccept \/ TcpAcceptFail \/ TcpFull \/ TcpWake
               \/ (\E n \in 1 .. CHUNK_SIZE : TcpRead(n)) \/ TcpEof
               \/ TcpReadError
               \/ (\E b \in 1 .. MaxTicket : TimerTicket(b))
               \/ PumpTicket \/ (\E n \in 1 .. CHUNK_SIZE : PumpWrite(n))
               \/ PumpWriteError \/ PumpDrainEnd \/ PumpFinish
               \/ PumpLinkDown \/ PumpLinkUpIgnored \/ PumpLinkUp
               \/ PumpWaitFinish \/ PumpDiscardTicket \/ PumpClosed
               \/ AckSendFinish \/ AckDataReady \/ on_ack \/ AckDone
               \/ AckError \/ AckStreamError \/ AckNewStream
               \/ AckLinkUpFailed \/ AckHandleGone \/ MgrStreamFinished
               \/ restore_active \/ AcceptBindFail \/ AcceptReconnect
               \/ DownDuplicate \/ DownChunk \/ LinkLost \/ LinkRestored
       PROVE UNCHANGED <<down>>
  BY <1>10, Zenon DEF
     TcpAccept, TcpAcceptFail, TcpFull, TcpWake, TcpRead, TcpEof,
     TcpReadError, TimerTicket, PumpTicket, PumpWrite, PumpWriteError,
     PumpDrainEnd, PumpFinish, PumpLinkDown, PumpLinkUpIgnored, PumpLinkUp,
     PumpWaitFinish, PumpDiscardTicket, PumpClosed, AckSendFinish,
     AckDataReady, on_ack, AckDone, AckError, AckStreamError, AckNewStream,
     AckLinkUpFailed, AckHandleGone, MgrStreamFinished, restore_active,
     AcceptBindFail, AcceptReconnect, DownDuplicate, DownChunk, LinkLost,
     LinkRestored, AckExit, AckedCount, Cmd, Drained, DropQueued,
     Duplicate, FreshStream, HasChunk, Inbound, Msg, NextItem, PopData,
     PopFeedback, ReplayFrom, Reply, RestoreStream, Rewind, Send, Sendable,
     SignalSpace, WrittenAfter, handle_eof, link_down, try_send_finish
<1>11. ASSUME UNCHANGED vars PROVE UNCHANGED <<down>>
  BY <1>11, Zenon DEF vars
<1> QED
  BY <1>1, <1>2, <1>3, <1>4, <1>5, <1>6, <1>7, <1>8, <1>9, <1>10, <1>11, Zenon DEF
     Next, TcpStep, TimerStep, PumpStep, AckStep, MgrStep, AcceptStep, DownStep

\* Every step keeps the new stream's header first.
LEMMA NewFirstStep ==
  ASSUME TypeOK, StreamsInOrder, DeliveryInv, [Next]_vars
  PROVE  NewStreamFirst'
<1> USE DEF DeliveryInv
<1> SUFFICES ASSUME NEW i \in 1 .. Len(inbound'), inbound'[i].op = "New"
             PROVE  i = 1 /\ down' = "none"
  BY Zenon DEF NewStreamFirst
<1>1. inbound \in Seq(OpenType) BY Zenon DEF TypeOK, WireOK
<1>2. i \in Nat /\ i >= 1 OBVIOUS
<1>3. CASE i + 1 \in 1 .. Len(inbound) /\ inbound'[i] = inbound[i + 1]
  BY <1>2, <1>3 DEF NewStreamFirst
<1>4. CASE i \in 1 .. Len(inbound) /\ inbound'[i] = inbound[i]
  <2>1. i = 1 /\ down = "none" BY <1>4, Zenon DEF NewStreamFirst
  <2>2. CASE AcceptNew
    <3>1. inbound # <<>> /\ inbound' = Tail(inbound) BY <2>2, Zenon DEF AcceptNew, Inbound
    <3>2. 2 \in 1 .. Len(inbound) /\ inbound'[1] = inbound[2] BY <1>1, <2>1, <3>1, TailAt
    <3> QED BY <2>1, <3>2 DEF NewStreamFirst
  <2> QED BY <2>1, <2>2, DownStepShape, Zenon
<1>5. ~(inbound'[i].op = "Reconnect") OBVIOUS
<1> QED BY <1>3, <1>4, <1>5, InboundStep, Zenon

\* No step announces a replay from beyond what is written.
LEMMA ReplaysStep ==
  ASSUME TypeOK, StreamsInOrder, DeliveryInv, [Next]_vars
  PROVE  ReplaysNotAhead'
<1> USE DEF DeliveryInv
<1>1. bytes_written <= bytes_written' /\ bytes_written \in Nat
  BY WrittenStep, Zenon DEF TypeOK, DownlinkOK
<1>2. bytes_written' \in Nat BY DownlinkStep, Zenon DEF DownlinkOK
<1>3. spool.bytes_acked <= bytes_written /\ spool.bytes_acked \in Nat
  BY SpoolNow, Zenon DEF AckedIsWritten
<1>4. \A i \in 1 .. Len(inbound) :
         inbound[i].replay_from \in Nat /\ inbound[i].replay_from <= bytes_written
  <2>1. inbound \in Seq(OpenType) BY Zenon DEF TypeOK, WireOK
  <2>2. \A i \in 1 .. Len(inbound) : inbound[i] \in OpenType BY <2>1
  <2> QED BY <2>2, Zenon DEF OpenType, ReplaysNotAhead
<1> SUFFICES ASSUME NEW i \in 1 .. Len(inbound')
             PROVE  inbound'[i].replay_from <= bytes_written'
  BY Zenon DEF ReplaysNotAhead
<1>5. \E a \in Nat : a <= bytes_written /\ inbound'[i].replay_from = a
  BY <1>3, <1>4, InboundStep, Zenon
<1> QED BY <1>1, <1>2, <1>5

\* A receiving task that has ended stays so.
LEMMA ExitedStep ==
  ASSUME TypeOK, NewStreamFirst, [Next]_vars, down = "exited"
  PROVE  down' = "exited"
<1>1. ~AcceptNew
  <2> SUFFICES ASSUME AcceptNew PROVE FALSE OBVIOUS
  <2>1. inbound # <<>> /\ Head(inbound).op = "New" BY Zenon DEF AcceptNew, Inbound
  <2>2. inbound \in Seq(OpenType) BY Zenon DEF TypeOK, WireOK
  <2>3. 1 \in 1 .. Len(inbound) /\ inbound[1].op = "New" BY <2>1, <2>2, HeadAt, Zenon
  <2> QED BY <2>3, Zenon DEF NewStreamFirst
<1> QED BY <1>1, DownStepShape, Zenon

\* Every step keeps the next chunk of a stream within reach of the receiver.
LEMMA HeadsStep ==
  ASSUME TypeOK, StreamsInOrder, DeliveryInv, [Next]_vars
  PROVE  HeadsNotAhead'
<1> USE DEF DeliveryInv
<1>1. bytes_written <= bytes_written' /\ bytes_written \in Nat
  BY WrittenStep, Zenon DEF TypeOK, DownlinkOK
<1>2. bytes_written' \in Nat BY DownlinkStep, Zenon DEF DownlinkOK
<1> SUFFICES ASSUME down' # "exited", NEW g \in Gens, data'[g] # <<>>, IsChunk(data'[g][1])
             PROVE  data'[g][1].off <= bytes_written'
  BY Zenon DEF HeadsNotAhead
<1>3. down # "exited" BY ExitedStep, Zenon
<1>4. data[g] \in Seq(ItemType) /\ Len(data[g]) \in Nat BY ItemTypes, Zenon
<1>5. data[g] # <<>> => 1 \in 1 .. Len(data[g]) BY <1>4
<1>6. ASSUME data[g] # <<>>, data'[g][1] = data[g][1] PROVE data'[g][1].off <= bytes_written'
  <2>1. data[g][1].off <= bytes_written BY <1>3, <1>6, Zenon DEF HeadsNotAhead
  <2>2. data[g][1].off \in Nat BY <1>5, <1>6, ItemTypes, Zenon
  <2> QED BY <1>1, <1>2, <1>6, <2>1, <2>2
<1>7. CASE data'[g] = data[g] BY <1>6, <1>7, Zenon
<1>8. CASE data'[g] = Append(data[g], FIN)
  <2>1. FIN \in ItemType /\ ~IsChunk(FIN) BY MessageTypes, Zenon DEF FIN, IsChunk
  <2>2. data[g] = <<>> => data'[g][1] = FIN BY <1>4, <1>8, <2>1, AppendAt
  <2>3. data[g] # <<>> => data'[g][1] = data[g][1] BY <1>4, <1>5, <1>8, <2>1, AppendAt
  <2> QED BY <1>6, <2>1, <2>2, <2>3, Zenon
<1>9. CASE data'[g] \in Prefixes(data[g])
  <2>1. Len(data'[g]) \in 0 .. Len(data[g]) /\ data'[g] \in Seq(ItemType)
        /\ \A i \in 1 .. Len(data'[g]) : data'[g][i] = data[g][i]
    BY <1>4, <1>9, PrefixAt, PrefixType, Zenon
  <2>2. 1 \in 1 .. Len(data'[g]) BY <2>1
  <2>3. data[g] # <<>> /\ data'[g][1] = data[g][1] BY <1>4, <2>1, <2>2
  <2> QED BY <1>6, <2>3, Zenon
<1>10. CASE Taken(g)
  <2>1. /\ data[g] # <<>> /\ data'[g] = Tail(data[g])
        /\ IsChunk(data[g][1]) /\ End(data[g][1]) <= bytes_written'
    BY <1>10, Zenon DEF Taken
  <2>2. 1 \in 1 .. Len(data[g]) - 1 /\ data'[g][1] = data[g][1 + 1]
    <3>1. Len(Tail(data[g])) = Len(data[g]) - 1 /\ Tail(data[g]) \in Seq(ItemType)
          /\ \A i \in 1 .. Len(data[g]) - 1 : Tail(data[g])[i] = data[g][i + 1]
      BY <1>4, <2>1, TailAt, HeadTail, Zenon
    <3>2. 1 \in 1 .. Len(data[g]) - 1 BY <1>4, <2>1, <3>1
    <3> QED BY <2>1, <3>1, <3>2, Zenon
  <2>3. data'[g][1].off = End(data[g][1]) BY <2>1, <2>2, Zenon DEF ChunksContiguous
  <2> QED BY <2>1, <2>3, Zenon
<1>11. CASE \E n \in 1 .. CHUNK_SIZE : PumpWrite(n)
  <2> PICK n \in 1 .. CHUNK_SIZE : PumpWrite(n) BY <1>11, Zenon
  <2>1. CASE g # tx_gen BY <1>7, <2>1, PumpNow, Zenon
  <2>2. CASE g = tx_gen /\ data[g] # <<>>
    <3>1. data'[g][1] = data[g][1] BY <1>4, <1>5, <2>2, PumpNow, AppendAt
    <3> QED BY <1>6, <2>2, <3>1, Zenon
  <2>3. CASE g = tx_gen /\ data[g] = <<>>
    <3>1. data'[g][1] = Chunk(q, q, n) BY <1>4, <2>3, PumpNow, AppendAt
    <3>2. Len(data[tx_gen]) = 0 BY <2>3
    <3>3. q <= bytes_written BY <3>2, PumpNow, Zenon DEF CursorAtEnd
    <3>4. q \in Nat BY Zenon DEF TypeOK, UplinkOK
    <3>5. data'[g][1].off = q BY <3>1 DEF Chunk
    <3> QED BY <1>1, <1>2, <3>3, <3>4, <3>5
  <2> QED BY <2>1, <2>2, <2>3, Zenon
<1> QED BY <1>7, <1>8, <1>9, <1>10, <1>11, DataStep, Zenon DEF Moved

-----------------------------------------------------------------------------
(* Feedback, and the pump's place on its stream *)

\* The i-th message on stream g after a step was there before it.
WasThere(g, i) == \E j \in 1 .. Len(feedback[g]) : feedback'[g][i] = feedback[g][j]

\* It is the ack of the chunk the receiver took in this step.
AcksTaken(g, i) ==
    /\ data[g] # <<>> /\ IsChunk(data[g][1])
    /\ feedback'[g][i].bytes = End(data[g][1]) /\ bytes_written' = End(data[g][1])

\* Taking a message leaves the others.
LEMMA PopItems ==
  ASSUME TypeOK, feedback[rx_gen] # <<>>, PopFeedback, NEW g \in Gens,
         NEW i \in 1 .. Len(feedback'[g])
  PROVE  WasThere(g, i)
<1>1. feedback \in [Gens -> Seq(MsgType)] /\ rx_gen \in Gens BY Zenon DEF TypeOK, WireOK, UplinkOK
<1>2. feedback[g] \in Seq(MsgType) /\ Len(feedback[g]) \in Nat BY <1>1
<1>3. CASE g # rx_gen
  <2>1. feedback'[g] = feedback[g] BY <1>1, <1>3, Zenon DEF PopFeedback
  <2> QED BY <2>1, Zenon DEF WasThere
<1>4. CASE g = rx_gen
  <2>1. feedback'[g] = Tail(feedback[g]) BY <1>1, <1>4, Zenon DEF PopFeedback
  <2>2. i + 1 \in 1 .. Len(feedback[g]) /\ feedback'[g][i] = feedback[g][i + 1]
    BY <1>2, <1>4, <2>1, TailAt
  <2> QED BY <2>2, Zenon DEF WasThere
<1> QED BY <1>3, <1>4, Zenon

\* A reply adds one message to the receiver's stream.
LEMMA ReplyItems ==
  ASSUME TypeOK, NEW m \in MsgType, Reply(m), NEW g \in Gens, NEW i \in 1 .. Len(feedback'[g])
  PROVE  WasThere(g, i) \/ (g = down_gen /\ feedback'[g][i] = m)
<1>1. feedback \in [Gens -> Seq(MsgType)] BY Zenon DEF TypeOK, WireOK
<1>2. feedback[g] \in Seq(MsgType) /\ Len(feedback[g]) \in Nat BY <1>1
<1>3. CASE feedback'[g] = feedback[g] BY <1>3, Zenon DEF WasThere
<1>4. CASE g = down_gen /\ feedback'[g] = Append(feedback[g], m)
  <2>1. i \in 1 .. Len(feedback[g]) \/ i = Len(feedback[g]) + 1 BY <1>2, <1>4, AppendAt
  <2>2. CASE i \in 1 .. Len(feedback[g])
    <3>1. feedback'[g][i] = feedback[g][i] BY <1>2, <1>4, <2>2, AppendAt
    <3> QED BY <2>2, <3>1, Zenon DEF WasThere
  <2>3. CASE i = Len(feedback[g]) + 1 BY <1>2, <1>4, <2>3, AppendAt
  <2> QED BY <2>1, <2>2, <2>3, Zenon
<1> QED BY <1>1, <1>3, <1>4, Zenon DEF Reply

\* The i-th message on stream g is the receiver's reply in this step: an ack for
\* the chunk it took, the Done for a FIN, or an error.
Replied(g, i) ==
    /\ g = down_gen
    /\ feedback'[g][i].op = "Ack" => AcksTaken(g, i)
    /\ feedback'[g][i].op = "Done" => DownFin
    /\ feedback'[g][i].op \in {"Done", "Error"} => down' = "exited"

\* A message on the way after a step was so before it, or is the reply of the step.
LEMMA FeedStep ==
  ASSUME TypeOK, [Next]_vars
  PROVE  \A g \in Gens : \A i \in 1 .. Len(feedback'[g]) : WasThere(g, i) \/ Replied(g, i)
<1>1. CASE UNCHANGED <<feedback>>
  BY <1>1, Zenon DEF WasThere
<1>2. CASE on_ack
  <2>1. feedback[rx_gen] # <<>> /\ PopFeedback BY <1>2, Zenon DEF on_ack, Msg
  <2> QED BY <2>1, PopItems, Zenon
<1>3. CASE AckDone
  <2>1. feedback[rx_gen] # <<>> /\ PopFeedback BY <1>3, Zenon DEF AckDone, Msg
  <2> QED BY <2>1, PopItems, Zenon
<1>4. CASE AckError
  <2>1. feedback[rx_gen] # <<>> /\ PopFeedback BY <1>4, Zenon DEF AckError, Msg
  <2> QED BY <2>1, PopItems, Zenon
<1>5. CASE DownAcceptFail
  <2>1. Reply(Error) /\ Error \in MsgType BY <1>5, MessageTypes, Zenon DEF DownAcceptFail
  <2>2. Error.op = "Error" /\ down' = "exited" BY <1>5, Zenon DEF Error, DownAcceptFail, DownExit
  <2> QED BY <2>1, <2>2, ReplyItems, Zenon DEF Replied
<1>6. CASE DownChunk
  <2>1. CASE feedback' = feedback BY <2>1, Zenon DEF WasThere
  <2>2. CASE Reply(Ack(bytes_written'))
    <3>1. /\ data[down_gen] # <<>> /\ IsChunk(NextItem) /\ bytes_written' = WrittenAfter
      BY <1>6, Zenon DEF DownChunk, HasChunk
    <3>2. bytes_written' = End(data[down_gen][1]) /\ bytes_written' \in Nat
          /\ IsChunk(data[down_gen][1])
      BY <3>1, ItemNow, Zenon
    <3>3. Ack(bytes_written') \in MsgType BY <3>2, MessageTypes, Zenon
    <3>4. Ack(bytes_written').bytes = bytes_written' /\ Ack(bytes_written').op = "Ack"
      BY Zenon DEF Ack
    <3> QED BY <2>2, <3>1, <3>2, <3>3, <3>4, ReplyItems DEF AcksTaken, Replied
  <2> QED BY <1>6, <2>1, <2>2, Zenon DEF DownChunk
<1>7. CASE DownFail
  <2>1. Reply(Error) /\ Error \in MsgType BY <1>7, MessageTypes, Zenon DEF DownFail
  <2>2. Error.op = "Error" /\ down' = "exited" BY <1>7, Zenon DEF Error, DownFail, DownExit
  <2> QED BY <2>1, <2>2, ReplyItems, Zenon DEF Replied
<1>8. CASE DownFin
  <2>1. Reply(Done) /\ Done \in MsgType BY <1>8, MessageTypes, Zenon DEF DownFin
  <2>2. Done.op = "Done" /\ down' = "exited" BY <1>8, Zenon DEF Done, DownFin, DownExit
  <2> QED BY <1>8, <2>1, <2>2, ReplyItems, ZenonT(30) DEF Replied
<1>9. CASE LinkLost
  <2> SUFFICES ASSUME NEW g \in Gens, NEW i \in 1 .. Len(feedback'[g]) PROVE WasThere(g, i)
    OBVIOUS
  <2>1. feedback[g] \in Seq(MsgType) BY Zenon DEF TypeOK, WireOK
  <2>2. CASE feedback'[g] = feedback[g] BY <2>2, Zenon DEF WasThere
  <2>3. CASE feedback'[g] \in Prefixes(feedback[g])
    <3>1. i \in 1 .. Len(feedback[g]) /\ feedback'[g][i] = feedback[g][i]
      BY <2>1, <2>3, PrefixAt
    <3> QED BY <3>1, Zenon DEF WasThere
  <2> QED BY <1>9, <2>2, <2>3, LostNow, Zenon
<1>10. ASSUME \/ TcpAccept \/ TcpAcceptFail \/ TcpFull \/ TcpWake
               \/ (\E n \in 1 .. CHUNK_SIZE : TcpRead(n)) \/ TcpEof
               \/ TcpReadError
               \/ (\E b \in 1 .. MaxTicket : TimerTicket(b))
               \/ PumpTicket \/ (\E n \in 1 .. CHUNK_SIZE : PumpWrite(n))
               \/ PumpWriteError \/ PumpDrainEnd \/ PumpFinish
               \/ PumpLinkDown \/ PumpLinkUpIgnored \/ PumpLinkUp
               \/ PumpWaitFinish \/ PumpDiscardTicket \/ PumpClosed
               \/ AckSendFinish \/ AckDataReady \/ AckStreamError
               \/ AckNewStream \/ AckLinkUpFailed \/ AckHandleGone
               \/ MgrStreamFinished \/ restore_active \/ AcceptNew
               \/ AcceptBindFail \/ AcceptReconnect \/ DownRecvFirst
               \/ DownAccept \/ DownDuplicate \/ DownReadError
               \/ DownNewStream \/ LinkRestored
       PROVE UNCHANGED <<feedback>>
  BY <1>10, Zenon DEF
     TcpAccept, TcpAcceptFail, TcpFull, TcpWake, TcpRead, TcpEof,
     TcpReadError, TimerTicket, PumpTicket, PumpWrite, PumpWriteError,
     PumpDrainEnd, PumpFinish, PumpLinkDown, PumpLinkUpIgnored, PumpLinkUp,
     PumpWaitFinish, PumpDiscardTicket, PumpClosed, AckSendFinish,
     AckDataReady, AckStreamError, AckNewStream, AckLinkUpFailed,
     AckHandleGone, MgrStreamFinished, restore_active, AcceptNew, spawn_downlink_from,
     AcceptBindFail, AcceptReconnect, DownRecvFirst, DownAccept,
     DownDuplicate, DownReadError, DownNewStream, LinkRestored, AckExit,
     Cmd, Drained, DropQueued, Duplicate, FreshStream, HasChunk, Inbound,
     NextItem, PopData, ReplayFrom, RestoreStream, Rewind, Send, Sendable,
     handle_eof, link_down, try_send_finish
<1>11. ASSUME UNCHANGED vars PROVE UNCHANGED <<feedback>>
  BY <1>11, Zenon DEF vars
<1> QED
  BY <1>1, <1>2, <1>3, <1>4, <1>5, <1>6, <1>7, <1>8, <1>9, <1>10, <1>11, ZenonT(30) DEF
     Next, TcpStep, TimerStep, PumpStep, AckStep, MgrStep, AcceptStep, DownStep

\* A running pump writes, starts on a fresh stream, or keeps its place.
LEMMA PumpShape ==
  ASSUME TypeOK, [Next]_vars
  PROVE  \/ \E n \in 1 .. CHUNK_SIZE : PumpWrite(n)
         \/ PumpLinkUp
         \/ ~Running'
         \/ Running /\ UNCHANGED <<q, tx_gen>>
<1>1. CASE UNCHANGED <<pump, q, tx_gen>>
  BY <1>1, Zenon DEF Running
<1>2. CASE PumpTicket
  BY <1>2, Zenon DEF PumpTicket, Running
<1>3. CASE \E n \in 1 .. CHUNK_SIZE : PumpWrite(n)
  BY <1>3, Zenon
<1>4. CASE PumpWriteError
  BY <1>4, Zenon DEF PumpWriteError, Running
<1>5. CASE PumpDrainEnd
  BY <1>5, Zenon DEF PumpDrainEnd, Running
<1>6. CASE PumpFinish
  BY <1>6, Zenon DEF PumpFinish, Running
<1>7. CASE PumpLinkDown
  BY <1>7, Zenon DEF PumpLinkDown, Running
<1>8. CASE PumpLinkUp
  BY <1>8, Zenon
<1>9. CASE PumpClosed
  BY <1>9, Zenon DEF PumpClosed, Running
<1>10. ASSUME \/ TcpAccept \/ TcpAcceptFail \/ TcpFull \/ TcpWake
               \/ (\E n \in 1 .. CHUNK_SIZE : TcpRead(n)) \/ TcpEof
               \/ TcpReadError
               \/ (\E b \in 1 .. MaxTicket : TimerTicket(b))
               \/ PumpLinkUpIgnored \/ PumpWaitFinish
               \/ PumpDiscardTicket \/ AckSendFinish \/ AckDataReady
               \/ on_ack \/ AckDone \/ AckError \/ AckStreamError
               \/ AckNewStream \/ AckLinkUpFailed \/ AckHandleGone
               \/ MgrStreamFinished \/ restore_active \/ AcceptNew
               \/ AcceptBindFail \/ AcceptReconnect \/ DownRecvFirst
               \/ DownAccept \/ DownAcceptFail \/ DownDuplicate
               \/ DownChunk \/ DownFail \/ DownFin \/ DownReadError
               \/ DownNewStream \/ LinkLost \/ LinkRestored
       PROVE UNCHANGED <<pump, q, tx_gen>>
  BY <1>10, Zenon DEF
     TcpAccept, TcpAcceptFail, TcpFull, TcpWake, TcpRead, TcpEof,
     TcpReadError, TimerTicket, PumpLinkUpIgnored, PumpWaitFinish,
     PumpDiscardTicket, AckSendFinish, AckDataReady, on_ack, AckDone,
     AckError, AckStreamError, AckNewStream, AckLinkUpFailed,
     AckHandleGone, MgrStreamFinished, restore_active, AcceptNew, spawn_downlink_from,
     AcceptBindFail, AcceptReconnect, DownRecvFirst, DownAccept,
     DownAcceptFail, DownDuplicate, DownChunk, DownFail, DownFin,
     DownReadError, DownNewStream, LinkLost, LinkRestored, AckExit,
     AckedCount, Cmd, DownExit, DropQueued, Duplicate, FreshStream,
     HasChunk, Inbound, Msg, NextItem, PopData, PopFeedback, ReplayFrom,
     Reply, RestoreStream, SignalSpace, WrittenAfter, handle_eof,
     link_down, try_send_finish
<1>11. ASSUME UNCHANGED vars PROVE UNCHANGED <<pump, q, tx_gen>>
  BY <1>11, Zenon DEF vars
<1> QED
  BY <1>1, <1>2, <1>3, <1>4, <1>5, <1>6, <1>7, <1>8, <1>9, <1>10, <1>11, ZenonT(30) DEF
     Next, TcpStep, TimerStep, PumpStep, AckStep, MgrStep, AcceptStep, DownStep

\* A stream of the past that is broken stays so.
LEMMA BrokenStep ==
  ASSUME TypeOK, StreamsInOrder, Broken(tx_gen), tx_gen' = tx_gen, [Next]_vars
  PROVE  Broken(tx_gen)'
<1>1. CASE UNCHANGED <<link, gen, dropped>>
  BY <1>1, Zenon DEF Broken, Alive
<1>2. CASE AcceptBindFail
  BY <1>2, Zenon DEF AcceptBindFail, Broken, Alive
<1>3. CASE AcceptReconnect
  BY <1>3 DEF AcceptReconnect, Broken, Alive
<1>4. CASE DownAcceptFail
  BY <1>4, Zenon DEF DownAcceptFail, DownExit, Broken, Alive
<1>5. CASE DownFail
  BY <1>5, Zenon DEF DownFail, DownExit, Broken, Alive
<1>6. CASE DownFin
  BY <1>6, Zenon DEF DownFin, DownExit, Broken, Alive
<1>7. CASE LinkLost
  BY <1>7, Zenon DEF LinkLost, Broken, Alive
<1>8. CASE LinkRestored
  <2>1. tx_gen # gen' BY <1>8, GenTypes DEF LinkRestored, StreamsInOrder
  <2> QED BY <2>1, Zenon DEF Broken, Alive
<1>9. ASSUME \/ TcpAccept \/ TcpAcceptFail \/ TcpFull \/ TcpWake
               \/ (\E n \in 1 .. CHUNK_SIZE : TcpRead(n)) \/ TcpEof
               \/ TcpReadError
               \/ (\E b \in 1 .. MaxTicket : TimerTicket(b))
               \/ PumpTicket \/ (\E n \in 1 .. CHUNK_SIZE : PumpWrite(n))
               \/ PumpWriteError \/ PumpDrainEnd \/ PumpFinish
               \/ PumpLinkDown \/ PumpLinkUpIgnored \/ PumpLinkUp
               \/ PumpWaitFinish \/ PumpDiscardTicket \/ PumpClosed
               \/ AckSendFinish \/ AckDataReady \/ on_ack \/ AckDone
               \/ AckError \/ AckStreamError \/ AckNewStream
               \/ AckLinkUpFailed \/ AckHandleGone \/ MgrStreamFinished
               \/ restore_active \/ AcceptNew \/ DownRecvFirst
               \/ DownAccept \/ DownDuplicate \/ DownChunk
               \/ DownReadError \/ DownNewStream
       PROVE UNCHANGED <<link, gen, dropped>>
  BY <1>9, Zenon DEF
     TcpAccept, TcpAcceptFail, TcpFull, TcpWake, TcpRead, TcpEof,
     TcpReadError, TimerTicket, PumpTicket, PumpWrite, PumpWriteError,
     PumpDrainEnd, PumpFinish, PumpLinkDown, PumpLinkUpIgnored, PumpLinkUp,
     PumpWaitFinish, PumpDiscardTicket, PumpClosed, AckSendFinish,
     AckDataReady, on_ack, AckDone, AckError, AckStreamError, AckNewStream,
     AckLinkUpFailed, AckHandleGone, MgrStreamFinished, restore_active,
     AcceptNew, spawn_downlink_from, DownRecvFirst, DownAccept, DownDuplicate, DownChunk,
     DownReadError, DownNewStream, AckExit, AckedCount, Cmd, Drained,
     DropQueued, Duplicate, FreshStream, HasChunk, Inbound, Msg, NextItem,
     PopData, PopFeedback, ReplayFrom, Reply, RestoreStream, Rewind, Send,
     Sendable, SignalSpace, WrittenAfter, handle_eof, link_down,
     try_send_finish
<1>10. ASSUME UNCHANGED vars PROVE UNCHANGED <<link, gen, dropped>>
  BY <1>10, Zenon DEF vars
<1> QED
  BY <1>1, <1>2, <1>3, <1>4, <1>5, <1>6, <1>7, <1>8, <1>9, <1>10 DEF
     Next, TcpStep, TimerStep, PumpStep, AckStep, MgrStep, AcceptStep, DownStep

\* Every step keeps the acks in flight true.
LEMMA AcksStep ==
  ASSUME TypeOK, StreamsInOrder, DeliveryInv, [Next]_vars
  PROVE  AcksTrue'
<1> USE DEF DeliveryInv
<1>1. bytes_written <= bytes_written' /\ bytes_written \in Nat
  BY WrittenStep, Zenon DEF TypeOK, DownlinkOK
<1>2. bytes_written' \in Nat BY DownlinkStep, Zenon DEF DownlinkOK
<1>3. tx_gen <= tx_gen' /\ tx_gen \in Nat BY PumpStreamStep, GenTypes, Zenon
<1>4. tx_gen' \in Nat BY UplinkStep, RelayAssumption DEF UplinkOK, Gens
<1> SUFFICES ASSUME NEW g \in Gens, NEW i \in 1 .. Len(feedback'[g]), feedback'[g][i].op = "Ack"
             PROVE  feedback'[g][i].bytes <= bytes_written' /\ g <= tx_gen'
  BY Zenon DEF AcksTrue
<1>5. g \in Nat BY ItemTypes, Zenon
<1>6. CASE WasThere(g, i)
  <2>1. PICK j \in 1 .. Len(feedback[g]) : feedback'[g][i] = feedback[g][j]
    BY <1>6, Zenon DEF WasThere
  <2>2. feedback[g][j].bytes <= bytes_written /\ g <= tx_gen BY <2>1, Zenon DEF AcksTrue
  <2>3. feedback[g][j].bytes \in Nat
    <3>1. feedback[g] \in Seq(MsgType) BY Zenon DEF TypeOK, WireOK
    <3>2. feedback[g][j] \in MsgType BY <3>1
    <3> QED BY <3>2, Zenon DEF MsgType
  <2> QED BY <1>1, <1>2, <1>3, <1>4, <1>5, <2>1, <2>2, <2>3
<1>7. CASE AcksTaken(g, i)
  <2>1. 1 \in 1 .. Len(data[g]) BY <1>7, ItemTypes DEF AcksTaken
  <2>2. g <= tx_gen BY <1>7, <2>1, Zenon DEF AcksTaken, ChunksTrue
  <2>3. feedback'[g][i].bytes = bytes_written' BY <1>7, Zenon DEF AcksTaken
  <2> QED BY <1>2, <1>3, <1>4, <1>5, <2>2, <2>3
<1> QED BY <1>6, <1>7, FeedStep, Zenon DEF Replied

\* Starting on a fresh stream: nothing of the pump's is on it yet.
LEMMA FreshNow ==
  ASSUME TypeOK, StreamsInOrder, DeliveryInv, PumpLinkUp
  PROVE  /\ tx_gen' \in Gens /\ q' = spool.bytes_acked
         /\ UNCHANGED <<data, feedback, bytes_written>>
         /\ \A i \in 1 .. Len(data[tx_gen']) : ~IsChunk(data[tx_gen'][i])
         /\ \A i \in 1 .. Len(feedback[tx_gen']) : feedback[tx_gen'][i].op # "Ack"
<1> USE DEF DeliveryInv
<1>1. cmd_rx # <<>> /\ Head(cmd_rx).op = "LinkUp" /\ tx_gen' = Head(cmd_rx).gen
  BY Zenon DEF PumpLinkUp, Cmd
<1>2. cmd_rx \in Seq(CmdType) BY Zenon DEF TypeOK, UplinkOK
<1>3. 1 \in 1 .. Len(cmd_rx) /\ Head(cmd_rx) = cmd_rx[1] BY <1>1, <1>2, HeadAt, Zenon
<1>4. tx_gen < tx_gen' BY <1>1, <1>3, Zenon DEF StreamsInOrder, IsLinkUp
<1>5. Head(cmd_rx) \in CmdType BY <1>1, <1>2, HeadTail, Zenon
<1>6. tx_gen' \in Gens BY <1>1, <1>5, Zenon DEF CmdType
<1>7. tx_gen \in Nat /\ tx_gen' \in Nat BY <1>6, GenTypes, ItemTypes, Zenon
<1>8. ~(tx_gen' <= tx_gen) BY <1>4, <1>7
<1>9. q' = spool.bytes_acked /\ UNCHANGED <<data, feedback, bytes_written>>
  BY Zenon DEF PumpLinkUp, Rewind
<1>10. \A i \in 1 .. Len(data[tx_gen']) : ~IsChunk(data[tx_gen'][i])
  BY <1>6, <1>8, Zenon DEF ChunksTrue
<1>11. \A i \in 1 .. Len(feedback[tx_gen']) : feedback[tx_gen'][i].op # "Ack"
  BY <1>6, <1>8, Zenon DEF AcksTrue
<1> QED BY <1>6, <1>9, <1>10, <1>11, Zenon

\* Every step keeps what is on the pump's stream behind its cursor.
LEMMA CoversStep ==
  ASSUME TypeOK, StreamsInOrder, DeliveryInv, [Next]_vars
  PROVE  CursorCoversWire'
<1> USE DEF DeliveryInv
<1>1. tx_gen \in Gens /\ q \in Nat BY Zenon DEF TypeOK, UplinkOK
<1>2. CASE \E n \in 1 .. CHUNK_SIZE : PumpWrite(n)
  <2> PICK n \in 1 .. CHUNK_SIZE : PumpWrite(n) BY <1>2, Zenon
  <2>1. q' = q + n /\ n \in Nat /\ tx_gen' = tx_gen /\ feedback' = feedback /\ Running
    BY PumpNow, Zenon
  <2>2. /\ Len(data[tx_gen]) \in Nat /\ Len(data'[tx_gen]) = Len(data[tx_gen]) + 1
        /\ \A i \in 1 .. Len(data[tx_gen]) : data'[tx_gen][i] = data[tx_gen][i]
        /\ data'[tx_gen][Len(data[tx_gen]) + 1] = Chunk(q, q, n)
    BY PumpNow, AppendAt, ItemTypes
  <2>3. End(Chunk(q, q, n)) = q' BY <2>1, Zenon DEF Chunk, End
  <2>4. ASSUME NEW i \in 1 .. Len(data'[tx_gen]), IsChunk(data'[tx_gen][i])
        PROVE  End(data'[tx_gen][i]) <= q'
    <3>1. CASE i \in 1 .. Len(data[tx_gen])
      <4>1. data'[tx_gen][i] = data[tx_gen][i] BY <2>2, <3>1, Zenon
      <4>2. End(data[tx_gen][i]) <= q BY <2>1, <2>4, <3>1, <4>1, Zenon DEF CursorCoversWire
      <4>3. End(data[tx_gen][i]) \in Nat BY <1>1, <3>1, ItemTypes, Zenon
      <4> QED BY <1>1, <2>1, <4>1, <4>2, <4>3
    <3>2. CASE i = Len(data[tx_gen]) + 1 BY <1>1, <2>1, <2>2, <2>3, <3>2
    <3> QED BY <2>2, <3>1, <3>2
  <2>5. ASSUME NEW i \in 1 .. Len(feedback[tx_gen]), feedback[tx_gen][i].op = "Ack"
        PROVE  feedback[tx_gen][i].bytes <= q'
    <3>1. feedback[tx_gen] \in Seq(MsgType) BY <1>1, Zenon DEF TypeOK, WireOK
    <3>2. feedback[tx_gen][i] \in MsgType BY <3>1
    <3>3. feedback[tx_gen][i].bytes \in Nat BY <3>2, Zenon DEF MsgType
    <3>4. feedback[tx_gen][i].bytes <= q BY <2>1, <2>5, Zenon DEF CursorCoversWire
    <3> QED BY <1>1, <2>1, <3>3, <3>4
  <2> QED BY <2>1, <2>4, <2>5, Zenon DEF CursorCoversWire
<1>3. CASE PumpLinkUp BY <1>3, FreshNow, Zenon DEF CursorCoversWire
<1>4. CASE ~Running' BY <1>4, Zenon DEF CursorCoversWire
<1>5. CASE Running /\ UNCHANGED <<q, tx_gen>> /\ \A g \in Gens : Moved(g)
  <2>1. ASSUME NEW i \in 1 .. Len(data'[tx_gen]), IsChunk(data'[tx_gen][i])
        PROVE  End(data'[tx_gen][i]) <= q
    <3>1. PICK j \in 1 .. Len(data[tx_gen]) : data'[tx_gen][i] = data[tx_gen][j]
      BY <1>1, <1>5, <2>1, MovedItems, Zenon
    <3> QED BY <1>5, <2>1, <3>1, Zenon DEF CursorCoversWire
  <2>2. ASSUME NEW i \in 1 .. Len(feedback'[tx_gen]), feedback'[tx_gen][i].op = "Ack"
        PROVE  feedback'[tx_gen][i].bytes <= q
    <3>1. CASE WasThere(tx_gen, i) BY <1>5, <2>2, <3>1, Zenon DEF WasThere, CursorCoversWire
    <3>2. CASE AcksTaken(tx_gen, i)
      <4>1. 1 \in 1 .. Len(data[tx_gen]) BY <1>1, <3>2, ItemTypes DEF AcksTaken
      <4>2. End(data[tx_gen][1]) <= q BY <1>5, <3>2, <4>1, Zenon DEF AcksTaken, CursorCoversWire
      <4> QED BY <3>2, <4>2, Zenon DEF AcksTaken
    <3> QED BY <1>1, <2>2, <3>1, <3>2, FeedStep, Zenon DEF Replied
  <2> QED BY <1>5, <2>1, <2>2, Zenon DEF CursorCoversWire
<1> QED BY <1>2, <1>3, <1>4, <1>5, PumpShape, DataStep, Zenon

\* Every step keeps the pump where its stream ends.
LEMMA AtEndStep ==
  ASSUME TypeOK, StreamsInOrder, DeliveryInv, [Next]_vars
  PROVE  CursorAtEnd'
<1> USE DEF DeliveryInv
<1>1. tx_gen \in Gens /\ q \in Nat BY Zenon DEF TypeOK, UplinkOK
<1>2. bytes_written <= bytes_written' /\ bytes_written \in Nat
  BY WrittenStep, Zenon DEF TypeOK, DownlinkOK
<1>3. bytes_written' \in Nat BY DownlinkStep, Zenon DEF DownlinkOK
<1>4. data[tx_gen] \in Seq(ItemType) /\ Len(data[tx_gen]) \in Nat BY <1>1, ItemTypes, Zenon
<1>5. CASE \E n \in 1 .. CHUNK_SIZE : PumpWrite(n)
  <2> PICK n \in 1 .. CHUNK_SIZE : PumpWrite(n) BY <1>5, Zenon
  <2>1. q' = q + n /\ tx_gen' = tx_gen BY PumpNow, Zenon
  <2>2. /\ Len(data'[tx_gen]) = Len(data[tx_gen]) + 1
        /\ data'[tx_gen][Len(data[tx_gen]) + 1] = Chunk(q, q, n)
    BY <1>4, PumpNow, AppendAt
  <2>3. End(Chunk(q, q, n)) = q' BY <2>1, Zenon DEF Chunk, End
  <2>4. Len(data'[tx_gen]) # 0 BY <1>4, <2>2
  <2> QED BY <2>1, <2>2, <2>3, <2>4, Zenon DEF CursorAtEnd
<1>6. CASE PumpLinkUp
  <2>1. q' <= bytes_written' BY <1>6, FreshNow, Zenon DEF AckedIsWritten
  <2>2. Len(data[tx_gen']) \in Nat BY <1>6, FreshNow, ItemTypes, Zenon
  <2>3. Len(data[tx_gen']) > 0 => ~IsChunk(data[tx_gen'][Len(data[tx_gen'])])
    BY <1>6, <2>2, FreshNow
  <2> QED BY <1>6, <2>1, <2>3, FreshNow, Zenon DEF CursorAtEnd
<1>7. CASE ~Running' BY <1>7, Zenon DEF CursorAtEnd
<1>8. CASE Running /\ UNCHANGED <<q, tx_gen>> /\ \A g \in Gens : Moved(g)
  <2>0. UNCHANGED <<q, tx_gen>> BY <1>8, Zenon
  <2> DEFINE k == Len(data[tx_gen])
             m == Len(data'[tx_gen])
  <2> SUFFICES ASSUME ~Broken(tx_gen)'
               PROVE  /\ m = 0 => q <= bytes_written'
                      /\ m > 0 /\ IsChunk(data'[tx_gen][m]) => End(data'[tx_gen][m]) = q
    BY <2>0, Zenon DEF CursorAtEnd
  <2>1. ~Broken(tx_gen) BY <2>0, BrokenStep, Zenon
  <2>2. /\ k = 0 => q <= bytes_written
        /\ k > 0 /\ IsChunk(data[tx_gen][k]) => End(data[tx_gen][k]) = q
    BY <1>8, <2>1, Zenon DEF CursorAtEnd
  <2>3. link' /\ tx_gen \notin dropped' BY <1>8, Zenon DEF Broken, Alive
  <2>4. CASE data'[tx_gen] = data[tx_gen] BY <1>1, <1>2, <1>3, <2>2, <2>4
  <2>5. CASE data'[tx_gen] = Append(data[tx_gen], FIN)
    <3>1. FIN \in ItemType /\ ~IsChunk(FIN) BY MessageTypes, Zenon DEF FIN, IsChunk
    <3>2. m = k + 1 /\ data'[tx_gen][k + 1] = FIN BY <1>4, <2>5, <3>1, AppendAt
    <3>3. m # 0 /\ ~IsChunk(data'[tx_gen][m]) BY <1>4, <3>1, <3>2
    <3> QED BY <3>3, Zenon
  <2>6. CASE Taken(tx_gen)
    <3>1. /\ data[tx_gen] # <<>> /\ data'[tx_gen] = Tail(data[tx_gen])
          /\ IsChunk(data[tx_gen][1]) /\ End(data[tx_gen][1]) <= bytes_written'
      BY <2>3, <2>6, Zenon DEF Taken
    <3>2. /\ k \in Nat /\ k > 0 /\ m = k - 1
          /\ \A i \in 1 .. k - 1 : data'[tx_gen][i] = data[tx_gen][i + 1]
      BY <1>4, <3>1, TailAt, Zenon
    <3> HIDE DEF k, m
    <3>3. CASE m = 0
      <4>1. k = 1 BY <3>2, <3>3
      <4> QED BY <2>2, <3>1, <3>3, <4>1
    <3>4. CASE m > 0
      <4>1. m \in 1 .. k - 1 /\ m + 1 = k BY <3>2, <3>4
      <4>2. data'[tx_gen][m] = data[tx_gen][k] BY <3>2, <4>1, Zenon
      <4> QED BY <2>2, <3>2, <3>4, <4>2
    <3> QED BY <3>2, <3>3, <3>4, Zenon
  <2> QED BY <1>1, <1>8, <2>3, <2>4, <2>5, <2>6, Zenon DEF Moved
<1> QED BY <1>5, <1>6, <1>7, <1>8, PumpShape, DataStep, Zenon

-----------------------------------------------------------------------------
(* The inductive invariant and what follows from it *)

\* The invariant holds initially.
LEMMA InitDelivery == Init => StreamsInOrder /\ DeliveryInv
<1> SUFFICES ASSUME Init PROVE StreamsInOrder /\ DeliveryInv OBVIOUS
<1>1. /\ Len(cmd_rx) = 0 /\ Len(stream_rx) = 0
      /\ tx_gen = 1 /\ rx_gen = 1 /\ gen = 1 /\ restored
  BY Zenon DEF Init, NewAckTask
<1>2. StreamsInOrder BY <1>1 DEF StreamsInOrder
<1>3. 1 \in Gens /\ \A g \in Gens : /\ data[g] = <<>> /\ Len(data[g]) = 0
                                    /\ feedback[g] = <<>> /\ Len(feedback[g]) = 0
  BY RelayAssumption DEF Init, NewAckTask, Gens
<1>4. /\ spool.bytes_acked = 0 /\ spool.first = 0 /\ spool.len = 0 /\ spool.head = 0
      /\ q = 0 /\ bytes_written = 0 /\ intact /\ down = "none"
  BY Zenon DEF Init, NewAckTask, NewSpool
<1>5. 0 # EOF /\ SPOOL_CAPACITY \in Nat BY SpoolAssumption DEF EOF
<1>6. T = 0 BY <1>4, <1>5, Zenon DEF T, HeadOffset
<1>7. SpoolConsistent /\ AckedIsWritten /\ CursorInSpool /\ DeliveredIntact
  BY <1>4, <1>5, <1>6 DEF SpoolConsistent, AckedIsWritten, CursorInSpool, DeliveredIntact
<1>8. ChunksTrue /\ ChunksContiguous /\ HeadsNotAhead /\ AcksTrue
  BY <1>3 DEF ChunksTrue, ChunksContiguous, HeadsNotAhead, AcksTrue
<1>9. /\ Len(inbound) = 1 /\ inbound[1].op = "New" /\ inbound[1].replay_from = 0
  BY Zenon DEF Init, NewAckTask, NewStream
<1>10. NewStreamFirst /\ ReplaysNotAhead BY <1>4, <1>9 DEF NewStreamFirst, ReplaysNotAhead
<1>11. CursorCoversWire /\ CursorAtEnd
  BY <1>1, <1>3, <1>4 DEF CursorCoversWire, CursorAtEnd
<1> QED BY <1>2, <1>7, <1>8, <1>10, <1>11, Zenon DEF DeliveryInv

\* Every step keeps the invariant.
LEMMA DeliveryStep ==
  ASSUME TypeOK, StreamsInOrder, DeliveryInv, [Next]_vars
  PROVE  DeliveryInv'
<1>1. SpoolConsistent' BY SpoolStep, Zenon DEF DeliveryInv
<1>2. AckedIsWritten' /\ CursorInSpool' /\ DeliveredIntact'
  BY AckedStep, CursorStep, IntactStep, Zenon
<1>3. ChunksTrue' /\ ChunksContiguous' /\ HeadsNotAhead'
  BY ChunksTrueStep, ContiguousStep, HeadsStep, Zenon
<1>4. AcksTrue' /\ NewStreamFirst' /\ ReplaysNotAhead' BY AcksStep, NewFirstStep, ReplaysStep, Zenon
<1>5. CursorCoversWire' /\ CursorAtEnd' BY CoversStep, AtEndStep, Zenon
<1> QED BY <1>1, <1>2, <1>3, <1>4, <1>5, Zenon DEF DeliveryInv

\* StreamRelay's inductive invariant holds for every capacity, chunk size, ack
\* interval and number of link failures: what the sender keeps, what is in
\* flight on every QUIC stream and what the receiver has written fit together
\* through outages, lost acks and replays.
THEOREM DeliveryCorrect == Spec => [](StreamsInOrder /\ DeliveryInv)
<1>1. /\ TypeOK /\ StreamsInOrder /\ DeliveryInv /\ [Next]_vars
      => StreamsInOrder' /\ DeliveryInv'
  BY OrderStep, DeliveryStep, Zenon
<1> QED BY <1>1, InitDelivery, TypeCorrect, PTL DEF Spec

\* A reconnect never confuses QUIC streams: restore_active, the AckTask and the
\* pump see them in the order in which they were opened, each once.
THEOREM StreamsHandedInOrder == Spec => []StreamsInOrder
  BY DeliveryCorrect, PTL

\* Bytes reach the receiving client exactly once and in order, whatever is lost,
\* replayed or dropped as a duplicate (run_downlink, drain_alloc).
THEOREM DeliveryIntact == Spec => []DeliveredIntact
<1>1. DeliveryInv => DeliveredIntact BY Zenon DEF DeliveryInv
<1> QED BY <1>1, DeliveryCorrect, PTL

\* The sender frees nothing that the receiver has not written (on_ack).
THEOREM NothingFreedEarly == Spec => []AckedIsWritten
<1>1. DeliveryInv => AckedIsWritten BY Zenon DEF DeliveryInv
<1> QED BY <1>1, DeliveryCorrect, PTL

\* The pump never asks slice_from for bytes that are not in the spool.
THEOREM CursorStaysInSpool == Spec => []CursorInSpool
<1>1. DeliveryInv => CursorInSpool BY Zenon DEF DeliveryInv
<1> QED BY <1>1, DeliveryCorrect, PTL

\* The "unrecoverable" branches of run_downlink and deliver_reconnect_stream
\* are never taken.
THEOREM NeverGap == Spec => []NoGap
<1>1. TypeOK /\ DeliveryInv => NoGap
  <2> SUFFICES ASSUME TypeOK, DeliveryInv PROVE NoGap OBVIOUS
  <2>1. HasChunk => NextItem.off <= bytes_written
    BY ItemNow, Zenon DEF HasChunk, DeliveryInv, HeadsNotAhead
  <2>2. inbound \in Seq(OpenType) BY Zenon DEF TypeOK, WireOK
  <2>3. Inbound("Reconnect") => Head(inbound).replay_from <= bytes_written
    <3> SUFFICES ASSUME inbound # <<>> PROVE Head(inbound).replay_from <= bytes_written
      BY Zenon DEF Inbound
    <3>1. 1 \in 1 .. Len(inbound) /\ Head(inbound) = inbound[1] BY <2>2, HeadAt, Zenon
    <3> QED BY <3>1, Zenon DEF DeliveryInv, ReplaysNotAhead
  <2> QED BY <2>1, <2>3, Zenon DEF NoGap
<1> QED BY <1>1, TypeCorrect, DeliveryCorrect, PTL
=============================================================================
