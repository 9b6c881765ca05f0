----------------------------- MODULE RelayModes -----------------------------
(***************************************************************************)
(* The relay in both of its modes.  With a bandwidth cap, tickets come     *)
(* from the aggregate timer (StreamRelay's TimerStep).  Without one,       *)
(* RateLimiter::new spawns a forwarder that waits for data_ready, the      *)
(* Notify it shares with the AckTask, and answers with unlimited tickets.  *)
(* notify_one wakes one waiter only, so a permit taken by the AckTask is   *)
(* one the forwarder does not see, and the reverse.                        *)
(***************************************************************************)
EXTENDS StreamRelay

CONSTANT Modes   \* modes the agent may be started in: "capped", "uncapped"

ASSUME ModesAssumption ==
    /\ Modes \subseteq {"capped", "uncapped"} /\ Modes # {}
    /\ MaxTicket >= MaxBytes   \* the largest ticket covers any backlog

VARIABLE forwarder   \* "none" (capped), "wait", "send", "exited"

modeVars == <<vars, forwarder>>

Capped == forwarder = "none"

\* A ticket of u64::MAX bytes.
Unlimited == MaxTicket

ModesInit ==
    /\ Init
    /\ forwarder \in {IF m = "capped" THEN "none" ELSE "wait" : m \in Modes}

-----------------------------------------------------------------------------
ForwardIfBacklog == forwarder' = IF Backlog > 0 THEN "send" ELSE "wait"

\* data_ready.notified(): the permit is consumed.
ForwardWake ==
    /\ forwarder = "wait" /\ data_ready
    /\ data_ready' = FALSE
    /\ ForwardIfBacklog
    /\ UNCHANGED <<spool, reader, space_ready, pumpVars, cmd_rx, ackVars, linkVars,
                   wireVars, downVars, cbVars>>

\* alloc_tx.send() waits for room in the channel of depth one, and fails once
\* the pump, its receiver, is gone.
ForwardSend ==
    /\ forwarder = "send"
    /\ \/ /\ pump # "exited" /\ ticket = 0
          /\ ticket' = Unlimited
          /\ forwarder' = "wait"
       \/ /\ pump = "exited"
          /\ forwarder' = "exited"
          /\ UNCHANGED ticket
    /\ UNCHANGED <<spoolVars, pump, q, remaining, tx_gen, finishing, cmd_rx,
                   ackVars, linkVars, wireVars, downVars, cbVars>>

ForwardStep == ForwardWake \/ ForwardSend

\* The forwarder keeps the sending end of the alloc channel, so without a cap
\* only the end of the command channel lets an idle pump return.
AllocChannelOpen ==
    ~Capped /\ pump = "select" /\ cmd_rx # <<>> => pump' # "exited"

\* The tasks that are the same in both modes.
ModePumpStep == PumpStep /\ AllocChannelOpen

ModesNext ==
    \/ /\ \/ TcpStep \/ ModePumpStep \/ AckStep \/ MgrStep \/ AcceptStep \/ DownStep
          \/ LinkLost \/ LinkRestored
          \/ Capped /\ TimerStep
       /\ UNCHANGED forwarder
    \/ ForwardStep

ModesSpec == ModesInit /\ [][ModesNext]_modeVars

-----------------------------------------------------------------------------
\* As in StreamRelay, and the forwarder runs.
ModesFairness ==
    /\ WF_modeVars((TcpFull \/ TcpWake) /\ UNCHANGED forwarder)
    /\ WF_modeVars(Capped /\ Backlog > 0 /\ TimerStep /\ UNCHANGED forwarder)
    /\ WF_modeVars(ForwardStep)
    /\ WF_modeVars(ModePumpStep /\ UNCHANGED forwarder)
    /\ SF_modeVars(PumpCommand /\ UNCHANGED forwarder)
    /\ WF_modeVars(AckStep /\ UNCHANGED forwarder)
    /\ WF_modeVars(MgrStep /\ UNCHANGED forwarder)
    /\ WF_modeVars(AcceptStep /\ UNCHANGED forwarder)
    /\ WF_modeVars(DownStep /\ UNCHANGED forwarder)
    /\ WF_modeVars(LinkRestored /\ UNCHANGED forwarder)

ModesFairSpec == ModesSpec /\ ModesFairness

\* With a cap, every transfer ends once the link stays up: both agents report
\* Done or Failed (StreamRelay's TransferEnds).
CappedTransferEnds == Capped => TransferEnds

\* With a cap, a TCP reader parked on a full spool is woken: an ack that frees
\* room, or the end of the transfer, always signals space_ready.
CappedBackPressureEnds == Capped => BackPressureEnds

\* With a cap, a pump told to finish drains its backlog and finishes.  Without
\* one it need not: see the README on the shared Notify.
CappedPumpFinishes == Capped => PumpFinishes
=============================================================================
