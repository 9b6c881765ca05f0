----------------------------- MODULE SpoolBuffer -----------------------------
(***************************************************************************)
(* SpoolBuffer of quelay-agent/src/active_stream.rs: the in-memory ring    *)
(* shared by the TCP reader, the pump and the ack task of one uplink.      *)
(*                                                                         *)
(* A byte is identified by its position in the sending client's stream.    *)
(* `first` is the position of the byte at the front of `buf`, `len` is     *)
(* buf.len().  EOF stands for the sentinel u64::MAX in `head`.             *)
(***************************************************************************)
EXTENDS Integers

CONSTANT SPOOL_CAPACITY   \* bytes the ring can hold

ASSUME SpoolAssumption == SPOOL_CAPACITY \in Nat \ {0}

EOF == -1

SpoolType == [bytes_acked : Nat, head : Nat \union {EOF}, first : Nat, len : Nat]

NewSpool == [bytes_acked |-> 0, head |-> 0, first |-> 0, len |-> 0]

Available(s) == SPOOL_CAPACITY - s.len

\* T: with the sentinel set it is rebuilt from A and the buffer's length.
HeadOffset(s) == IF s.head = EOF THEN s.bytes_acked + s.len ELSE s.head

Push(s, n) == [s EXCEPT !.len = @ + n, !.head = @ + n]

\* Frees min(up_to - A, buf.len()) bytes; an old ack changes nothing.
AckTo(s, up_to) ==
    LET due == up_to - s.bytes_acked
        n   == IF due <= s.len THEN due ELSE s.len
    IN  IF up_to <= s.bytes_acked
        THEN s
        ELSE [s EXCEPT !.bytes_acked = @ + n, !.first = @ + n, !.len = @ - n]

\* Client-stream position of the byte slice_from(from) starts with.
SliceStart(s, from) == s.first + (from - s.bytes_acked)

SetEof(s) == [s EXCEPT !.head = EOF]
=============================================================================
