--------------------------- MODULE CallbackAgent ---------------------------
(***************************************************************************)
(* The CallbackAgent of each quelay agent (quelay-agent/src/callback.rs):  *)
(* a thread that takes commands from a bounded channel, one at a time, and *)
(* makes the Thrift calls to the client that registered.  All calls but    *)
(* ping are oneway: they end up in the socket, from which the client's     *)
(* callback server takes them in order.  An event for which there is no    *)
(* client, or whose write fails, is dropped.  Progress, link and queue      *)
(* status events, which the client of BwCapTest ignores, are left out.     *)
(***************************************************************************)
EXTENDS Integers, Sequences

CONSTANTS
    Agents,
    CALLBACK_CAPACITY,   \* commands in the channel (64 in the code)
    SOCKET_CAPACITY,     \* calls in the socket buffers: a write waits for room
    MaxPings             \* bound: pings sent by the timers

ASSUME CallbackAssumption ==
    /\ CALLBACK_CAPACITY \in Nat \ {0} /\ SOCKET_CAPACITY \in Nat \ {0}
    /\ MaxPings \in Nat

VARIABLES
    rx,        \* command channel of each agent
    client,    \* "none", "connected", or "ping": blocked in the call
    socket,    \* calls the client's server has not taken yet
    pings,     \* pings sent so far
    dropped    \* <<stream, agent>>: an event of the stream was dropped

callbackVars == <<rx, client, socket, pings, dropped>>

Register == [op |-> "Register"]
Ping     == [op |-> "Ping"]

\* What the call set_callback, the first of each client, leaves in the channel.
handle_set_callback == <<Register>>

CallbackInit ==
    /\ rx = [a \in Agents |-> handle_set_callback]
    /\ client = [a \in Agents |-> "none"]
    /\ socket = [a \in Agents |-> <<>>]
    /\ pings = 0
    /\ dropped = {}

\* CallbackTx::send: the caller waits until there is room.
send(a, cmd) ==
    /\ Len(rx[a]) < CALLBACK_CAPACITY
    /\ rx' = [rx EXCEPT ![a] = Append(@, cmd)]

\* spawn_ping_timer
PingTimer(a) ==
    /\ pings < MaxPings
    /\ send(a, Ping)
    /\ pings' = pings + 1
    /\ UNCHANGED <<client, socket, dropped>>

Received(a, op) == rx[a] # <<>> /\ Head(rx[a]).op = op /\ client[a] # "ping"

Take(a) == rx' = [rx EXCEPT ![a] = Tail(@)]

\* The old connection is dropped; connecting succeeds or fails.
connect(a) == \E c \in {"none", "connected"} : client' = [client EXCEPT ![a] = c]

RunRegister(a) ==
    /\ Received(a, "Register")
    /\ Take(a)
    /\ connect(a)
    /\ UNCHANGED <<socket, pings, dropped>>

\* The call blocks until the client has answered; without a client there is
\* nothing to probe.
RunPing(a) ==
    /\ Received(a, "Ping")
    /\ Take(a)
    /\ client' = [client EXCEPT ![a] = IF @ = "connected" THEN "ping" ELSE @]
    /\ UNCHANGED <<socket, pings, dropped>>

\* The server answers once it has taken the calls before; a broken socket
\* makes the call fail.
PingReturns(a) ==
    /\ client[a] = "ping"
    /\ \/ socket[a] = <<>> /\ client' = [client EXCEPT ![a] = "connected"]
       \/ client' = [client EXCEPT ![a] = "none"]
    /\ UNCHANGED <<rx, socket, pings, dropped>>

Drop(a, cmd) == dropped' = dropped \union {<<cmd.uuid, a>>}

IsEvent(cmd) == cmd.op \notin {"Register", "Ping"}

\* fire: the event is written, or dropped.
fire(a) ==
    /\ rx[a] # <<>> /\ IsEvent(Head(rx[a])) /\ client[a] # "ping"
    /\ Take(a)
    /\ \/ /\ client[a] = "connected" /\ Len(socket[a]) < SOCKET_CAPACITY
          /\ socket' = [socket EXCEPT ![a] = Append(@, Head(rx[a]))]
          /\ UNCHANGED <<client, dropped>>
       \/ /\ client' = [client EXCEPT ![a] = "none"]
          /\ Drop(a, Head(rx[a]))
          /\ UNCHANGED socket
    /\ UNCHANGED pings

run(a) == RunRegister(a) \/ RunPing(a) \/ PingReturns(a) \/ fire(a)
=============================================================================
