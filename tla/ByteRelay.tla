------------------------------ MODULE ByteRelay ------------------------------
(***************************************************************************)
(* What a relayed stream promises the two clients, whatever the link does: *)
(* the receiving client is given the bytes the sending client wrote, in    *)
(* order (so only their number matters), and the sending client is told    *)
(* StreamDone only when it has closed its socket and the receiving client  *)
(* has all of it.  Nothing is promised about when, or whether, this        *)
(* happens.                                                                *)
(***************************************************************************)
EXTENDS Naturals

VARIABLES
    accepted,    \* bytes taken from the sending client
    closed,      \* the sending client has closed its socket
    delivered,   \* bytes handed to the receiving client
    confirmed    \* the sending client has been told StreamDone

vars == <<accepted, closed, delivered, confirmed>>

Init == accepted = 0 /\ closed = FALSE /\ delivered = 0 /\ confirmed = FALSE

Accept ==
    /\ ~closed
    /\ accepted' \in Nat /\ accepted' > accepted
    /\ UNCHANGED <<closed, delivered, confirmed>>

Close ==
    /\ ~closed
    /\ closed' = TRUE
    /\ UNCHANGED <<accepted, delivered, confirmed>>

Deliver ==
    /\ delivered' \in Nat /\ delivered' > delivered /\ delivered' <= accepted
    /\ UNCHANGED <<accepted, closed, confirmed>>

Confirm ==
    /\ closed /\ delivered = accepted
    /\ confirmed' = TRUE
    /\ UNCHANGED <<accepted, closed, delivered>>

Next == Accept \/ Close \/ Deliver \/ Confirm

Spec == Init /\ [][Next]_vars
=============================================================================
