--------------------------- MODULE WebSocketEvents ---------------------------
(***************************************************************************)
(* What the author of a WebSocketServer subclass relies on: the order in   *)
(* which the event handlers of one server are called.                      *)
(*                                                                         *)
(*   - a client is established once, then its messages arrive one by one,  *)
(*     none missing, none twice, none out of order, then it is closed, and *)
(*     nothing is ever heard of it again;                                  *)
(*   - SERVER_STOPPED_LISTENING only follows SERVER_STARTED_LISTENING, and *)
(*     only when every established client has been reported as closed.     *)
(***************************************************************************)
EXTENDS Naturals

CONSTANT Clients

VARIABLES
    phase,      \* what the handlers know about each client
    received,   \* messages handled so far, per client
    status      \* what the server last reported of itself

vars == <<phase, received, status>>

Init ==
    /\ phase = [c \in Clients |-> "unknown"]
    /\ received = [c \in Clients |-> 0]
    /\ status = "stopped"

SERVER_STARTED_LISTENING ==
    /\ status' = "listening"
    /\ UNCHANGED <<phase, received>>

SERVER_STOPPED_LISTENING ==
    /\ status = "listening"
    /\ \A c \in Clients : phase[c] # "established"
    /\ status' = "stopped"
    /\ UNCHANGED <<phase, received>>

WEBSOCKET_CONNECTION_ESTABLISHED(c) ==
    /\ phase[c] = "unknown"
    /\ phase' = [phase EXCEPT ![c] = "established"]
    /\ UNCHANGED <<received, status>>

WEBSOCKET_MESSAGE_RECEIVED(c) ==
    /\ phase[c] = "established"
    /\ received' = [received EXCEPT ![c] = received[c] + 1]
    /\ UNCHANGED <<phase, status>>

WEBSOCKET_CONNECTION_CLOSED(c) ==
    /\ phase[c] = "established"
    /\ phase' = [phase EXCEPT ![c] = "closed"]
    /\ UNCHANGED <<received, status>>

Next ==
    \/ SERVER_STARTED_LISTENING
    \/ SERVER_STOPPED_LISTENING
    \/ \E c \in Clients :
          \/ WEBSOCKET_CONNECTION_ESTABLISHED(c)
          \/ WEBSOCKET_MESSAGE_RECEIVED(c)
          \/ WEBSOCKET_CONNECTION_CLOSED(c)

Spec == Init /\ [][Next]_vars
=============================================================================
