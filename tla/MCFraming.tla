----------------------------- MODULE MCFraming -----------------------------
(* An instance of Framing for TLC. Payload bytes are also header bytes. *)
EXTENDS Framing

MCData == UNION {[1 .. n -> {0, 1}] : n \in 0 .. 4}

MCMessages == {"New", "Reconnect", "Ack", "Done", "Error"}

\* Two messages that begin alike, one of the maximal length, and one above it.
MCto_vec(m) ==
    CASE m = "New"       -> <<1, 2>>
      [] m = "Reconnect" -> <<1>>
      [] m = "Ack"       -> <<1, 1>>
      [] m = "Done"      -> <<2>>
      [] m = "Error"     -> <<2, 2, 2>>
=============================================================================
