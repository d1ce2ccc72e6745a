----------------------------- MODULE HttpEvents -----------------------------
(***************************************************************************)
(* What the author of an HttpServer subclass relies on: the order in which *)
(* the event handlers are called for one request.                          *)
(*                                                                         *)
(*   - a request is started once; then the chunks of its body arrive one   *)
(*     by one, none missing, repeated or out of order; then it is finished;*)
(*   - it may be aborted once it has started, and nothing is heard of it   *)
(*     after that, not even that its connection became writable;           *)
(*   - SERVER_STOPPED_LISTENING only follows SERVER_STARTED_LISTENING.     *)
(***************************************************************************)
EXTENDS Naturals

CONSTANT Requests

VARIABLES
    phase,      \* what the handlers know about each request
    received,   \* chunks handled so far, per request
    writable,   \* writable notifications handled so far, per request
    status      \* what the server last reported of itself

vars == <<phase, received, writable, status>>

Init ==
    /\ phase = [r \in Requests |-> "unknown"]
    /\ received = [r \in Requests |-> 0]
    /\ writable = [r \in Requests |-> 0]
    /\ status = "stopped"

SERVER_STARTED_LISTENING ==
    /\ status' = "listening"
    /\ UNCHANGED <<phase, received, writable>>

SERVER_STOPPED_LISTENING ==
    /\ status = "listening"
    /\ status' = "stopped"
    /\ UNCHANGED <<phase, received, writable>>

HTTP_REQUEST_STARTED(r) ==
    /\ phase[r] = "unknown"
    /\ phase' = [phase EXCEPT ![r] = "started"]
    /\ UNCHANGED <<received, writable, status>>

HTTP_DATA_RECEIVED(r) ==
    /\ phase[r] = "started"
    /\ received' = [received EXCEPT ![r] = received[r] + 1]
    /\ UNCHANGED <<phase, writable, status>>

HTTP_REQUEST_FINISHED(r) ==
    /\ phase[r] = "started"
    /\ phase' = [phase EXCEPT ![r] = "finished"]
    /\ received' = [received EXCEPT ![r] = received[r] + 1]
    /\ UNCHANGED <<writable, status>>

HTTP_CONNECTION_ABORTED(r) ==
    /\ phase[r] \in {"started", "finished"}
    /\ phase' = [phase EXCEPT ![r] = "aborted"]
    /\ UNCHANGED <<received, writable, status>>

HTTP_CONNECTION_WRITABLE(r) ==
    /\ phase[r] \in {"started", "finished"}
    /\ writable' = [writable EXCEPT ![r] = writable[r] + 1]
    /\ UNCHANGED <<phase, received, status>>

Next ==
    \/ SERVER_STARTED_LISTENING
    \/ SERVER_STOPPED_LISTENING
    \/ \E r \in Requests :
          \/ HTTP_REQUEST_STARTED(r)
          \/ HTTP_DATA_RECEIVED(r)
          \/ HTTP_REQUEST_FINISHED(r)
          \/ HTTP_CONNECTION_ABORTED(r)
          \/ HTTP_CONNECTION_WRITABLE(r)

Spec == Init /\ [][Next]_vars
=============================================================================
