------------------------------ MODULE WebServer ------------------------------
(***************************************************************************)
(* The part of the native WebServer class that the WebSocket server and    *)
(* the HTTP server share, together with the Lua polling loop on top of it: *)
(*                                                                         *)
(*   - the listen socket (WebServer::StartListening / StopListening),      *)
(*   - the FIFO of deferred events, filled by uWebSockets callbacks and    *)
(*     emptied from Lua (WebServer::GetNextDeferredEvent),                 *)
(*   - the 16 ms polling timer and ProcessDeferredEvents, the Lua loop     *)
(*     that drains the FIFO and calls one user-overridable handler per     *)
(*     event.                                                              *)
(*                                                                         *)
(* Everything runs on one thread: a uWebSockets callback can only fire     *)
(* while no Lua code is on the stack (drains = 0).  A handler is arbitrary *)
(* Lua code and may call any method of the server, StopListening included, *)
(* which then drains the same FIFO from inside the handler: drains counts  *)
(* the ProcessDeferredEvents loops that are on the Lua stack.              *)
(*                                                                         *)
(* Modules WebSocketServer and HttpServer extend this one with the state   *)
(* of their connections.                                                   *)
(***************************************************************************)
EXTENDS Integers, Sequences

CONSTANTS
    MaxListens,         \* bound: successful calls of StartListening
    MaxNesting          \* bound: StopListening calls nested in event handlers

ASSUME BoundsAssumption == MaxListens \in Nat /\ MaxNesting \in Nat \ {0}

VARIABLES
    m_usListenSocket,       \* the socket StopListening will close, or nullptr
    listenSockets,          \* external: listen sockets the kernel has bound
    listens,                \* listen sockets created so far
    m_deferredEventsQueue,  \* FIFO of events not yet handed to Lua
    pollingUpdateTimer,     \* the Lua polling timer
    drains                  \* ProcessDeferredEvents loops on the Lua stack

serverVars == <<m_usListenSocket, listenSockets, listens>>
loopVars   == <<pollingUpdateTimer, drains>>

nullptr == 0

(* The sender of LISTEN and SHUTDOWN events. *)
SERVER == "SERVER"

(***************************************************************************)
(* A DeferredEvent.  The payload is reduced to what the properties tell    *)
(* apart: its position n among the payloads of its sender, and its size.   *)
(***************************************************************************)
DeferredEvent(type, clientID, n, size) ==
    [type |-> type, clientID |-> clientID, n |-> n, size |-> size]

ServerEvent(type) == DeferredEvent(type, SERVER, 0, 0)

emplace(event) == m_deferredEventsQueue' = Append(m_deferredEventsQueue, event)

HasDeferredEvents == m_deferredEventsQueue # <<>>

ServerInit ==
    /\ m_usListenSocket = nullptr
    /\ listenSockets = {}
    /\ listens = 0
    /\ m_deferredEventsQueue = <<>>
    /\ pollingUpdateTimer = "stopped"
    /\ drains = 0

ServerTypeOK ==
    /\ listens \in 0..MaxListens
    /\ listenSockets \subseteq 1..listens
    /\ m_usListenSocket \in 0..listens
    /\ pollingUpdateTimer \in {"stopped", "active"}
    /\ drains \in 0..MaxNesting

-----------------------------------------------------------------------------
(* Single-threadedness: uWebSockets and libuv only call back into the      *)
(* server when no Lua handler is running.                                  *)
InEventLoop == drains = 0

(***************************************************************************)
(* StartListening binds a socket and starts the polling timer.  Binding    *)
(* can fail (the port is taken); the native code then only prints an       *)
(* error, and Lua starts the timer regardless.  A second StartListening    *)
(* overwrites m_usListenSocket without closing the first socket.           *)
(***************************************************************************)
ListenFails == UNCHANGED <<serverVars, m_deferredEventsQueue>>

ListenSucceeds ==
    /\ listens < MaxListens
    /\ listens' = listens + 1
    /\ listenSockets' = listenSockets \cup {listens + 1}
    /\ m_usListenSocket' = listens + 1
    /\ emplace(ServerEvent("LISTEN"))

StartListening ==
    /\ ListenFails \/ ListenSucceeds
    /\ pollingUpdateTimer' = "active"
    /\ UNCHANGED drains

(* The end of the native StopListening: the listen socket is closed.       *)
(* Connections that were accepted earlier are not affected by that.        *)
us_listen_socket_close ==
    /\ listenSockets' = listenSockets \ {m_usListenSocket}
    /\ m_usListenSocket' = nullptr
    /\ UNCHANGED listens

(* Mutant of StopPolling: the remaining events are not drained. *)
StopPolling_undrained ==
    /\ drains < MaxNesting
    /\ pollingUpdateTimer' = "stopped"
    /\ UNCHANGED drains

(* The Lua half of StopListening: stop polling, then drain what is left.   *)
StopPolling ==
    /\ drains < MaxNesting
    /\ pollingUpdateTimer' = "stopped"
    /\ drains' = drains + 1

(* The polling timer fires and enters ProcessDeferredEvents. *)
PollingUpdate ==
    /\ InEventLoop
    /\ pollingUpdateTimer = "active"
    /\ drains' = 1
    /\ UNCHANGED <<serverVars, m_deferredEventsQueue, pollingUpdateTimer>>

(* Mutant of GetNextDeferredEvent: the newest event is popped. *)
GetNextDeferredEvent_lifo(event) ==
    /\ drains > 0
    /\ HasDeferredEvents
    /\ event = m_deferredEventsQueue[Len(m_deferredEventsQueue)]
    /\ m_deferredEventsQueue' =
          SubSeq(m_deferredEventsQueue, 1, Len(m_deferredEventsQueue) - 1)
    /\ UNCHANGED <<serverVars, loopVars>>

(* One turn of the ProcessDeferredEvents loop: the oldest event is popped  *)
(* and its handler is called.                                              *)
GetNextDeferredEvent(event) ==
    /\ drains > 0
    /\ HasDeferredEvents
    /\ event = Head(m_deferredEventsQueue)
    /\ m_deferredEventsQueue' = Tail(m_deferredEventsQueue)
    /\ UNCHANGED <<serverVars, loopVars>>

(* The innermost ProcessDeferredEvents loop finds no more events. *)
ProcessDeferredEventsDone ==
    /\ drains > 0
    /\ ~HasDeferredEvents
    /\ drains' = drains - 1
    /\ UNCHANGED <<serverVars, m_deferredEventsQueue, pollingUpdateTimer>>

(***************************************************************************)
(* GetNextDeferredEvent copies at most m_maxPayloadSize - 1 bytes of the   *)
(* payload, although the Lua side allocates m_maxPayloadSize + 1 bytes.    *)
(***************************************************************************)
PayloadLength(m_maxPayloadSize, size) ==
    IF m_maxPayloadSize - 1 < size THEN m_maxPayloadSize - 1 ELSE size
=============================================================================
