------------------------------ MODULE Framing ------------------------------
(***************************************************************************)
(* The wire format (quelay-agent/src/framing.rs) on one half of a QUIC     *)
(* stream.  On the "forward" half the sender writes a stream-open header   *)
(* and then chunks; on the "reverse" half the receiver writes wormhole     *)
(* messages.  Whole frames are written; the transport hands their bytes    *)
(* over in pieces of any size, up to the FIN or to the point where the     *)
(* session is lost; the reader takes frames out of the bytes again.        *)
(*                                                                         *)
(* Bytes are digits of base BASE and the header fields are as many digits  *)
(* wide as the model needs, so that payloads look like headers and lengths *)
(* can exceed their fields.                                                *)
(***************************************************************************)
EXTENDS Integers, Sequences

CONSTANTS
    BASE,               \* values of a byte
    OFFSET_BYTES,       \* of a chunk header (8 in the code)
    LEN_BYTES,          \* of a chunk header (2 in the code)
    CHUNK_SIZE,         \* payload limit of a chunk
    MAX_JSON_PAYLOAD,   \* payload limit of the other frames
    MAGIC, VERSION, OP_NEW_STREAM, OP_RECONNECT,
    Data,               \* what the client sends: a set of byte sequences
    Messages,           \* headers and wormhole messages
    to_vec(_),          \* serde_json: the bytes of a header or a message
    MaxMsgs             \* bound: wormhole messages on a reverse half

Byte == 0 .. BASE - 1

\* BASE ^ n
Power[n \in Nat] == IF n = 0 THEN 1 ELSE BASE * Power[n - 1]

\* from_slice(to_vec(m)) = m
ASSUME FramingAssumption ==
    /\ BASE \in Nat /\ OFFSET_BYTES \in Nat \ {0} /\ LEN_BYTES \in Nat \ {0}
    /\ {MAGIC, VERSION, OP_NEW_STREAM, OP_RECONNECT} \subseteq Byte
    /\ OP_NEW_STREAM # OP_RECONNECT
    /\ CHUNK_SIZE \in 1 .. Power[LEN_BYTES] - 1
    /\ MAX_JSON_PAYLOAD \in 1 .. BASE - 1
    /\ \A d \in Data : d \in Seq(Byte) /\ Len(d) < Power[OFFSET_BYTES]
    /\ \A m, n \in Messages : to_vec(m) \in Seq(Byte) /\ (to_vec(m) = to_vec(n) => m = n)

VARIABLES
    kind,       \* "forward" or "reverse"
    data,       \* bytes the forward half has to carry
    q,          \* of which the first q are written
    out,        \* frames written
    sent,       \* their bytes
    arrived,    \* how many of them the reader's transport has
    fin,        \* the half is finished: shut down, or dropped by the writer
    broken,     \* the session is lost
    consumed,   \* bytes the reader has taken
    pc,         \* what the reader waits for, or how it has ended
    hdr,        \* the header read last
    in          \* frames read

writerVars == <<data, q, out, sent, fin>>
readerVars == <<consumed, pc, hdr, in>>
vars == <<kind, writerVars, arrived, broken, readerVars>>

-----------------------------------------------------------------------------
(* Encoding *)

\* Mutant: the least significant byte comes first.
to_le_bytes(n, w) == [i \in 1 .. w |-> (n \div Power[i - 1]) % BASE]

to_be_bytes(n, w) == [i \in 1 .. w |-> (n \div Power[w - i]) % BASE]

from_be_bytes(s) ==
    LET value[i \in 0 .. Len(s)] == IF i = 0 THEN 0 ELSE value[i - 1] * BASE + s[i]
    IN  value[Len(s)]

\* magic, version, opcode, pad and the payload length.
FixedHeader(opcode, payload_len) ==
    <<MAGIC, VERSION, opcode, 0>> \o to_be_bytes(payload_len, 1)

FIXED_HEADER_LEN == 5
CHUNK_HEADER_LEN == OFFSET_BYTES + LEN_BYTES

Opcode(m) == IF m = "Reconnect" THEN OP_RECONNECT ELSE OP_NEW_STREAM

\* "as u16": a length that does not fit loses its upper digits.
encode_chunk(stream_offset, payload) ==
    to_be_bytes(stream_offset, OFFSET_BYTES)
        \o to_be_bytes(Len(payload) % Power[LEN_BYTES], LEN_BYTES) \o payload

-----------------------------------------------------------------------------
(* Writer *)

\* QuicStream: bytes go to the transport in order; a shutdown ends them, once.
poll_write(bytes) == ~fin /\ sent' = sent \o bytes

poll_shutdown == ~fin /\ fin' = TRUE

Write(frame, bytes) ==
    /\ out' = Append(out, frame)
    /\ poll_write(bytes)
    /\ UNCHANGED <<kind, data, arrived, fin, broken, readerVars>>

fits(m) == Len(to_vec(m)) <= MAX_JSON_PAYLOAD

WriteMsg(m) ==
    /\ fits(m)
    /\ Write([type |-> "msg", msg |-> m], FixedHeader(Opcode(m), Len(to_vec(m))) \o to_vec(m))
    /\ UNCHANGED q

\* write_connect_header, write_reconnect_header
WriteOpen(m) == kind = "forward" /\ out = <<>> /\ m \in {"New", "Reconnect"} /\ WriteMsg(m)

\* write_wormhole_msg
WriteWormhole(m) ==
    /\ kind = "reverse" /\ Len(out) < MaxMsgs
    /\ m \notin {"New", "Reconnect"} /\ WriteMsg(m)

\* drain_alloc: as much as the ticket allows, at most CHUNK_SIZE
WriteChunk(n) ==
    /\ kind = "forward" /\ out # <<>>
    /\ n <= CHUNK_SIZE /\ n <= Len(data) - q
    /\ LET payload == SubSeq(data, q + 1, q + n)
       IN  Write([type |-> "chunk", stream_offset |-> q, payload |-> payload],
                 encode_chunk(q, payload))
    /\ q' = q + n

\* shutdown, when everything is written
Shutdown ==
    /\ kind = "forward" => out # <<>> /\ q = Len(data)
    /\ poll_shutdown
    /\ UNCHANGED <<kind, data, q, out, sent, arrived, broken, readerVars>>

\* A send half that is dropped is finished as it is: a fresh stream that its uplink
\* no longer takes, with the header and no data, or one whose header did not fit.
\* It is dropped between two writes.
DropStream ==
    /\ poll_shutdown
    /\ UNCHANGED <<kind, data, q, out, sent, arrived, broken, readerVars>>

-----------------------------------------------------------------------------
(* Transport (external): in order, in pieces, until the session is lost *)

Arrive(n) ==
    /\ ~broken /\ n <= Len(sent) - arrived
    /\ arrived' = arrived + n
    /\ UNCHANGED <<kind, writerVars, broken, readerVars>>

SessionLost ==
    /\ ~broken
    /\ broken' = TRUE
    /\ UNCHANGED <<kind, writerVars, arrived, readerVars>>

-----------------------------------------------------------------------------
(* Reader *)

\* The next n bytes.
Bytes(n) == SubSeq(sent, consumed + 1, consumed + n)

\* read_exact returns once n bytes have arrived
read_exact(n) == arrived - consumed >= n

\* Mutant: a lost session ends the bytes, too.
AtAnyEnd == broken \/ (fin /\ arrived = Len(sent))

AtFin == fin /\ ~broken /\ arrived = Len(sent)

\* Mutant: only a lost session makes it fail.
FailsOnLoss(n) == broken

\* ... and fails on a lost session, or when the FIN comes first.
ReadFails(n) == broken \/ (AtFin /\ ~read_exact(n))

Goto(st, n) ==
    /\ pc' = st /\ consumed' = consumed + n
    /\ UNCHANGED <<kind, writerVars, arrived, broken>>

Fail(n) == Goto("failed", n) /\ UNCHANGED <<hdr, in>>

\* Mutant: the largest payload is refused.
too_long_or_full(len, max) == len >= max

too_long(len, max) == len > max

\* FixedHeader::parse
parse(h) ==
    /\ h[1] = MAGIC /\ h[2] = VERSION
    /\ ~too_long(from_be_bytes(SubSeq(h, 5, 5)), MAX_JSON_PAYLOAD)

\* read_stream_open and read_wormhole_msg up to the payload
ReadFixed ==
    /\ pc = "fixed" /\ read_exact(FIXED_HEADER_LEN)
    /\ LET h == Bytes(FIXED_HEADER_LEN)
       IN  IF parse(h)
           THEN /\ Goto("json", FIXED_HEADER_LEN)
                /\ hdr' = [opcode |-> h[3], len |-> from_be_bytes(SubSeq(h, 5, 5))]
                /\ UNCHANGED in
           ELSE Fail(FIXED_HEADER_LEN)

\* What a payload is taken for. The opcode says which header it is; a wormhole
\* message has its type in the payload.
Decoded(payload) ==
    {m \in Messages : /\ to_vec(m) = payload
                      /\ kind = "forward" => m \in {"New", "Reconnect"} /\ Opcode(m) = hdr.opcode
                      /\ kind = "reverse" => m \notin {"New", "Reconnect"}}

ReadJson ==
    /\ pc = "json" /\ read_exact(hdr.len)
    /\ IF Decoded(Bytes(hdr.len)) = {}
       THEN Fail(hdr.len)
       ELSE \E m \in Decoded(Bytes(hdr.len)) :
                /\ in' = Append(in, [type |-> "msg", msg |-> m])
                /\ Goto(IF kind = "forward" THEN "first" ELSE "fixed", hdr.len)
                /\ UNCHANGED hdr

\* read_chunk: no first byte is a clean end of the stream.
ReadFirst ==
    /\ pc = "first" /\ read_exact(1)
    /\ Goto("rest", 1)
    /\ hdr' = [first |-> Bytes(1)]
    /\ UNCHANGED in

ReadEof ==
    /\ pc = "first" /\ AtFin /\ ~read_exact(1)
    /\ Goto("eof", 0)
    /\ UNCHANGED <<hdr, in>>

ReadRest ==
    /\ pc = "rest" /\ read_exact(CHUNK_HEADER_LEN - 1)
    /\ LET h   == hdr.first \o Bytes(CHUNK_HEADER_LEN - 1)
           len == from_be_bytes(SubSeq(h, OFFSET_BYTES + 1, CHUNK_HEADER_LEN))
       IN  IF too_long(len, CHUNK_SIZE)
           THEN Fail(CHUNK_HEADER_LEN - 1)
           ELSE /\ Goto("payload", CHUNK_HEADER_LEN - 1)
                /\ hdr' = [stream_offset |-> from_be_bytes(SubSeq(h, 1, OFFSET_BYTES)), len |-> len]
                /\ UNCHANGED in

ReadPayload ==
    /\ pc = "payload" /\ read_exact(hdr.len)
    /\ in' = Append(in, [type |-> "chunk", stream_offset |-> hdr.stream_offset,
                         payload |-> Bytes(hdr.len)])
    /\ Goto("first", hdr.len)
    /\ UNCHANGED hdr

Wanted ==
    CASE pc = "fixed" -> FIXED_HEADER_LEN
      [] pc = "first" -> 1
      [] pc = "rest"  -> CHUNK_HEADER_LEN - 1
      [] OTHER        -> hdr.len

ReadError ==
    /\ pc \in {"fixed", "json", "first", "rest", "payload"}
    /\ ReadFails(Wanted) /\ ~(pc = "first" /\ AtFin)
    /\ Fail(0)

-----------------------------------------------------------------------------
Init ==
    /\ kind \in {"forward", "reverse"}
    /\ data \in (IF kind = "forward" THEN Data ELSE {<<>>})
    /\ q = 0 /\ out = <<>> /\ sent = <<>> /\ arrived = 0
    /\ fin = FALSE /\ broken = FALSE
    /\ consumed = 0 /\ pc = "fixed" /\ hdr = <<>> /\ in = <<>>

Read == \/ ReadFixed \/ ReadJson \/ ReadFirst \/ ReadEof \/ ReadRest \/ ReadPayload
        \/ ReadError

Next ==
    \/ \E m \in Messages : WriteOpen(m) \/ WriteWormhole(m)
    \/ \E n \in 1 .. CHUNK_SIZE : WriteChunk(n)
    \/ Shutdown \/ DropStream \/ SessionLost
    \/ \E n \in 1 .. Len(sent) : Arrive(n)
    \/ Read

Spec == Init /\ [][Next]_vars

-----------------------------------------------------------------------------
(* Properties *)

\* However the bytes are cut into pieces and wherever the session is lost, the
\* frames read are the first of the frames written, unchanged: no partial frame
\* is delivered and no payload byte is ever taken for a header.
ReadIsPrefix == Len(in) <= Len(out) /\ in = SubSeq(out, 1, Len(in))

\* read_chunk returns None only at a FIN, with every frame read that was written
\* before it: the loss of the session, also between two frames, is never taken
\* for the end. (Whether all of the client's data was written by then is another
\* matter: a dropped stream ends in a FIN, too.)
EofMeansFin == pc = "eof" => fin /\ in = out

\* A reader fails only when the session is lost, or when the half ends where a
\* header or a message should begin, with everything read (on the forward half:
\* an empty one): no frame the writer lets out is refused.
NoFalseError ==
    pc = "failed" => broken \/ (fin /\ in = out /\ (kind = "forward" => out = <<>>))

FairSpec == Spec /\ WF_vars(Read) /\ WF_vars(\E n \in 1 .. Len(sent) : Arrive(n))

\* Once the half is finished its reader comes to an end.
ReaderEnds == fin ~> pc \in {"eof", "failed"}
=============================================================================
