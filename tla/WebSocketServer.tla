--------------------------- MODULE WebSocketServer ---------------------------
(***************************************************************************)
(* The WebSocket server: the WebSocket callbacks and messaging methods of  *)
(* the native WebServer class (WebServer.cpp), and the Lua class that      *)
(* polls it (WebSocketServer.lua).                                         *)
(*                                                                         *)
(* uWebSockets owns the sockets.  It calls OnWebSocketOpen once a          *)
(* connection is upgraded, OnWebSocketMessage per message, and             *)
(* OnWebSocketClose exactly once, synchronously from within                *)
(* WebSocket::close() when it is the server that closes, after which the   *)
(* WebSocket object is freed.  The server only keeps raw pointers to these *)
(* objects.  Closing the listen socket leaves accepted connections alone,  *)
(* so a connection may still be upgraded after StopListening.              *)
(***************************************************************************)
EXTENDS WebServer, FiniteSets

CONSTANTS
    Clients,            \* the clients, each named by the UUID OnUpgrade draws
    MaxMessages,        \* bound: messages per client
    PayloadSizes,       \* message sizes that clients use
    m_maxPayloadSize    \* uWebSockets refuses messages larger than this

ASSUME ClientsAssumption == IsFiniteSet(Clients) /\ SERVER \notin Clients

ASSUME PayloadAssumption ==
    /\ MaxMessages \in Nat
    /\ m_maxPayloadSize \in Nat \ {0}
    /\ PayloadSizes \subseteq 0..m_maxPayloadSize

VARIABLES
    socket,                 \* external: the connection, as uWebSockets sees it
    m_websocketClientsMap,  \* the server's pointer to each client's WebSocket
    m_isEchoServer,
    sent,                   \* messages uWebSockets has received, per client
    transmitted,            \* sockets that the last step wrote a frame to
    phase,                  \* history: what the Lua handlers know of a client
    received,               \* history: number of the last message handled
    status,                 \* history: the last SERVER_*_LISTENING event
    shortened               \* history: sizes of messages handed over cut short

socketVars  == <<socket, m_websocketClientsMap, sent>>
historyVars == <<phase, received, status, shortened>>
vars == <<serverVars, loopVars, m_deferredEventsQueue, socketVars,
          m_isEchoServer, transmitted, historyVars>>

Init ==
    /\ ServerInit
    /\ socket = [c \in Clients |-> "none"]
    /\ m_websocketClientsMap = [c \in Clients |-> "absent"]
    /\ m_isEchoServer = FALSE
    /\ sent = [c \in Clients |-> 0]
    /\ transmitted = {}
    /\ phase = [c \in Clients |-> "unknown"]
    /\ received = [c \in Clients |-> 0]
    /\ status = "stopped"
    /\ shortened = {}

Event ==
    [type : {"LISTEN", "SHUTDOWN"}, clientID : {SERVER}, n : {0}, size : {0}]
    \cup [type : {"OPEN", "CLOSE"}, clientID : Clients, n : {0}, size : {0}]
    \cup [type : {"MESSAGE"}, clientID : Clients, n : Nat, size : PayloadSizes]

TypeOK ==
    /\ ServerTypeOK
    /\ m_deferredEventsQueue \in Seq(Event)
    /\ socket \in [Clients -> {"none", "connected", "open", "closed"}]
    /\ m_websocketClientsMap \in [Clients -> {"absent", "nullptr", "websocket"}]
    /\ m_isEchoServer \in BOOLEAN
    /\ sent \in [Clients -> 0..MaxMessages]
    /\ transmitted \subseteq Clients
    /\ phase \in [Clients -> {"unknown", "established", "closed"}]
    /\ received \in [Clients -> Nat]
    /\ status \in {"stopped", "listening"}
    /\ shortened \subseteq PayloadSizes

(* The clients whose entry points to a WebSocket, i.e. is not faded. *)
LiveClients == {c \in Clients : m_websocketClientsMap[c] = "websocket"}

-----------------------------------------------------------------------------
(* uWebSockets calls back.                                                 *)

(* External: a TCP connection is accepted; its upgrade request comes later. *)
Accept(c) ==
    /\ InEventLoop
    /\ listenSockets # {}
    /\ socket[c] = "none"
    /\ socket' = [socket EXCEPT ![c] = "connected"]
    /\ transmitted' = {}
    /\ UNCHANGED <<serverVars, loopVars, m_deferredEventsQueue, sent,
                   m_websocketClientsMap, m_isEchoServer, historyVars>>

(* OnUpgrade names the client, and uWebSockets calls OnWebSocketOpen. *)
OnWebSocketOpen(c) ==
    /\ InEventLoop
    /\ socket[c] = "connected"
    /\ socket' = [socket EXCEPT ![c] = "open"]
    /\ emplace(DeferredEvent("OPEN", c, 0, 0))
    /\ m_websocketClientsMap' = [m_websocketClientsMap EXCEPT ![c] = "websocket"]
    /\ transmitted' = {}
    /\ UNCHANGED <<serverVars, loopVars, sent, m_isEchoServer, historyVars>>

(* A message is queued, and in echo mode also sent back. *)
OnWebSocketMessage(c, size) ==
    /\ InEventLoop
    /\ socket[c] = "open"
    /\ sent[c] < MaxMessages
    /\ sent' = [sent EXCEPT ![c] = sent[c] + 1]
    /\ emplace(DeferredEvent("MESSAGE", c, sent[c] + 1, size))
    /\ transmitted' = IF m_isEchoServer THEN {c} ELSE {}
    /\ UNCHANGED <<serverVars, loopVars, socket, m_websocketClientsMap,
                   m_isEchoServer, historyVars>>

(* Mutant of OnWebSocketClose: the pointer is kept. *)
OnWebSocketClose_dangling(c) ==
    /\ emplace(DeferredEvent("CLOSE", c, 0, 0))
    /\ UNCHANGED m_websocketClientsMap

(* The entry fades: its pointer is cleared, the entry itself stays. *)
OnWebSocketClose(c) ==
    /\ emplace(DeferredEvent("CLOSE", c, 0, 0))
    /\ m_websocketClientsMap' = [m_websocketClientsMap EXCEPT ![c] = "nullptr"]

(* The client, a timeout or a network error closes the WebSocket. *)
Disconnect(c) ==
    /\ InEventLoop
    /\ socket[c] = "open"
    /\ socket' = [socket EXCEPT ![c] = "closed"]
    /\ OnWebSocketClose(c)
    /\ transmitted' = {}
    /\ UNCHANGED <<serverVars, loopVars, sent, m_isEchoServer, historyVars>>

-----------------------------------------------------------------------------
(* Lua calls the server, from an event handler or from elsewhere.          *)

Start ==
    /\ StartListening
    /\ transmitted' = {}
    /\ UNCHANGED <<socketVars, m_isEchoServer, historyVars>>

(* The iteration orders an unordered_map may have over the entries S. *)
Orders(S) ==
    {order \in [1..Cardinality(S) -> S] :
        /\ \A i, j \in 1..Cardinality(S) : order[i] = order[j] => i = j
        /\ \A c \in S : \E i \in 1..Cardinality(S) : order[i] = c}

CloseEvents(order) ==
    [i \in DOMAIN order |-> DeferredEvent("CLOSE", order[i], 0, 0)]

(* Mutant of DisconnectAllClients: SHUTDOWN is queued before the closes. *)
DisconnectAllClients_shutdownFirst(order) ==
    /\ socket' = [c \in Clients |->
                    IF c \in LiveClients THEN "closed" ELSE socket[c]]
    /\ m_websocketClientsMap' = [c \in Clients |-> "absent"]
    /\ m_deferredEventsQueue' = Append(m_deferredEventsQueue, ServerEvent("SHUTDOWN"))
                                   \o CloseEvents(order)

(* Every live WebSocket is closed, whose OnWebSocketClose runs inside the  *)
(* loop over the map; the map is cleared at the end, and SHUTDOWN queued.  *)
DisconnectAllClients(order) ==
    /\ socket' = [c \in Clients |->
                    IF c \in LiveClients THEN "closed" ELSE socket[c]]
    /\ m_websocketClientsMap' = [c \in Clients |-> "absent"]
    /\ m_deferredEventsQueue' = m_deferredEventsQueue \o CloseEvents(order)
                                   \o <<ServerEvent("SHUTDOWN")>>

(* Mutant of PurgeFadedClients: nothing is erased. *)
PurgeFadedClients_forgotten == UNCHANGED m_websocketClientsMap

PurgeFadedClients ==
    m_websocketClientsMap' =
        [c \in Clients |-> IF m_websocketClientsMap[c] = "nullptr"
                           THEN "absent" ELSE m_websocketClientsMap[c]]

(* Without a listen socket the native part does nothing, but Lua still     *)
(* stops polling, purges and drains.  (After a native stop the map is      *)
(* empty, so purging changes nothing.)                                     *)
StopListening ==
    /\ StopPolling
    /\ IF m_usListenSocket = nullptr
       THEN /\ PurgeFadedClients
            /\ UNCHANGED <<serverVars, m_deferredEventsQueue, socket>>
       ELSE /\ \E order \in Orders(LiveClients) : DisconnectAllClients(order)
            /\ us_listen_socket_close
    /\ transmitted' = {}
    /\ UNCHANGED <<sent, m_isEchoServer, historyVars>>

SetEchoMode(enabledFlag) ==
    /\ m_isEchoServer' = enabledFlag
    /\ transmitted' = {}
    /\ UNCHANGED <<serverVars, loopVars, m_deferredEventsQueue, socketVars,
                   historyVars>>

(* Does FindClientByID return a pointer that can be used? *)
FindClientByID(c) == m_websocketClientsMap[c] = "websocket"

(* Broadcast{Text,Binary,CompressedText}Message: faded clients are skipped *)
Broadcast ==
    /\ transmitted' = {c \in Clients : FindClientByID(c)}
    /\ UNCHANGED <<serverVars, loopVars, m_deferredEventsQueue, socketVars,
                   m_isEchoServer, historyVars>>

(* Send{Text,Binary,CompressedText}MessageToClient; DROPPED if unknown. *)
SendToClient(c) ==
    /\ transmitted' = IF FindClientByID(c) THEN {c} ELSE {}
    /\ UNCHANGED <<serverVars, loopVars, m_deferredEventsQueue, socketVars,
                   m_isEchoServer, historyVars>>

-----------------------------------------------------------------------------
(* The polling loop.                                                       *)

(* The polling timer purges faded clients before it drains the queue. *)
Poll ==
    /\ PollingUpdate
    /\ PurgeFadedClients
    /\ transmitted' = {}
    /\ UNCHANGED <<socket, sent, m_isEchoServer, historyVars>>

(* ProcessDeferredEvents hands one event to its handler; the history       *)
(* variables record what the handlers have been told.                      *)
OnEvent ==
    \E event \in {m_deferredEventsQueue[i] : i \in DOMAIN m_deferredEventsQueue} :
        /\ GetNextDeferredEvent(event)
        /\ phase' = CASE event.type = "OPEN" ->
                            [phase EXCEPT ![event.clientID] = "established"]
                      [] event.type = "CLOSE" ->
                            [phase EXCEPT ![event.clientID] = "closed"]
                      [] OTHER -> phase
        /\ received' = IF event.type = "MESSAGE"
                       THEN [received EXCEPT ![event.clientID] = event.n]
                       ELSE received
        /\ status' = CASE event.type = "LISTEN" -> "listening"
                       [] event.type = "SHUTDOWN" -> "stopped"
                       [] OTHER -> status
        /\ shortened' =
              IF PayloadLength(m_maxPayloadSize, event.size) < event.size
              THEN shortened \cup {event.size} ELSE shortened
        /\ transmitted' = {}
        /\ UNCHANGED <<socketVars, m_isEchoServer>>

Drained ==
    /\ ProcessDeferredEventsDone
    /\ transmitted' = {}
    /\ UNCHANGED <<socketVars, m_isEchoServer, historyVars>>

-----------------------------------------------------------------------------
Next ==
    \/ \E c \in Clients :
          \/ Accept(c)
          \/ OnWebSocketOpen(c)
          \/ \E size \in PayloadSizes : OnWebSocketMessage(c, size)
          \/ Disconnect(c)
          \/ SendToClient(c)
    \/ Start
    \/ StopListening
    \/ \E enabledFlag \in BOOLEAN : SetEchoMode(enabledFlag)
    \/ Broadcast
    \/ Poll
    \/ OnEvent
    \/ Drained

(* The event loop keeps running its timers, and handlers return: the       *)
(* polling timer fires and ProcessDeferredEvents makes progress.  Clients  *)
(* and user code owe nothing.                                              *)
Fairness == WF_vars(Poll) /\ WF_vars(OnEvent) /\ WF_vars(Drained)

Spec == Init /\ [][Next]_vars
FairSpec == Spec /\ Fairness

-----------------------------------------------------------------------------
(* Properties.                                                             *)

(* The server holds a pointer to exactly the WebSockets that are open: a   *)
(* pointer to a closed one would be used after uWebSockets freed it (by a  *)
(* broadcast, a send or DisconnectAllClients), and an open one without an  *)
(* entry would make OnWebSocketClose insert into the map while             *)
(* DisconnectAllClients iterates over it, and never be closed by it.       *)
NoDanglingPointers ==
    \A c \in Clients : m_websocketClientsMap[c] = "websocket" <=> socket[c] = "open"

(* Sending and broadcasting only ever write to WebSockets that are open,   *)
(* however the sends interleave with clients that disconnect.              *)
FramesOnlyToOpenSockets ==
    [][\A c \in transmitted' : socket[c] = "open"]_vars

(* The Lua handlers see the events in the order WebSocketEvents promises,  *)
(* even when a handler calls StopListening and drains the queue itself.    *)
Handlers ==
    INSTANCE WebSocketEvents WITH Clients <- Clients, phase <- phase,
                                  received <- received, status <- status
EventContract == Handlers!Spec

(* A connection that closed while the server polls, or while a drain is in *)
(* progress, is eventually reported, even if StopListening comes first.    *)
ClosedConnectionsAreReported ==
    \A c \in Clients :
        (socket[c] = "closed" /\ (pollingUpdateTimer = "active" \/ drains > 0))
            ~> phase[c] = "closed"

(* While the server polls, faded entries do not accumulate in the map.     *)
FadedClientsArePurged ==
    \A c \in Clients :
        (m_websocketClientsMap[c] = "nullptr" /\ pollingUpdateTimer = "active")
            ~> m_websocketClientsMap[c] = "absent"

(* "If the preallocated buffer is too small, there's only so much we can   *)
(* do here" (WebServer.cpp:532): the preallocated buffer is large enough   *)
(* for every message uWebSockets accepts, so no message is cut short.      *)
PayloadsArriveComplete == shortened = {}

-----------------------------------------------------------------------------
(* How the queue relates the sockets to what the handlers have been told:  *)
(* replaying the queue on top of the handlers' knowledge yields the state  *)
(* of the sockets.  Stated by the positions of the events in the queue.    *)

Queued(i, type, c) ==
    /\ i \in DOMAIN m_deferredEventsQueue
    /\ m_deferredEventsQueue[i].type = type
    /\ m_deferredEventsQueue[i].clientID = c

(* OPEN precedes and CLOSE follows every other event of the same client.   *)
OpenFirstCloseLast ==
    \A c \in Clients : \A i, j \in DOMAIN m_deferredEventsQueue :
        /\ i < j
        /\ m_deferredEventsQueue[i].clientID = c
        /\ m_deferredEventsQueue[j].clientID = c
        => m_deferredEventsQueue[i].type # "CLOSE" /\ m_deferredEventsQueue[j].type # "OPEN"

(* The lifecycle events that are still queued are those that lead from     *)
(* what the handlers know of the client to the state of its socket.        *)
LifecycleQueued ==
    \A c \in Clients :
        /\ (\E i \in DOMAIN m_deferredEventsQueue : Queued(i, "OPEN", c))
              <=> phase[c] = "unknown" /\ socket[c] \in {"open", "closed"}
        /\ (\E i \in DOMAIN m_deferredEventsQueue : Queued(i, "CLOSE", c))
              <=> phase[c] # "closed" /\ socket[c] = "closed"
        /\ (\E i \in DOMAIN m_deferredEventsQueue : Queued(i, "MESSAGE", c))
              => phase[c] # "closed" /\ socket[c] \in {"open", "closed"}
        /\ phase[c] = "established" => socket[c] \in {"open", "closed"}
        /\ phase[c] = "closed" => socket[c] = "closed"

(* The messages that are still queued are those after the last one that    *)
(* was handled, each once and in the order they were sent.                 *)
MessagesQueued ==
    \A c \in Clients :
        /\ received[c] <= sent[c]
        /\ socket[c] \in {"none", "connected"} => sent[c] = 0
        /\ \A i \in DOMAIN m_deferredEventsQueue : Queued(i, "MESSAGE", c) =>
              m_deferredEventsQueue[i].n \in (received[c] + 1)..sent[c]
        /\ \A i, j \in DOMAIN m_deferredEventsQueue :
              i < j /\ Queued(i, "MESSAGE", c) /\ Queued(j, "MESSAGE", c) =>
                 m_deferredEventsQueue[i].n < m_deferredEventsQueue[j].n
        /\ \A n \in (received[c] + 1)..sent[c] :
              \E i \in DOMAIN m_deferredEventsQueue :
                 Queued(i, "MESSAGE", c) /\ m_deferredEventsQueue[i].n = n

(* Every client that was open before a SHUTDOWN was closed before it.      *)
ShutdownAfterCloses ==
    \A s \in DOMAIN m_deferredEventsQueue : Queued(s, "SHUTDOWN", SERVER) =>
        \A c \in Clients :
            phase[c] = "established" \/ (\E i \in 1..(s - 1) : Queued(i, "OPEN", c))
                => \E j \in 1..(s - 1) : Queued(j, "CLOSE", c)

(* Every SHUTDOWN was preceded by a LISTEN of its own, and so will be the  *)
(* next one if there is a listen socket.                                   *)
ListenBeforeShutdown ==
    /\ \A s \in DOMAIN m_deferredEventsQueue : Queued(s, "SHUTDOWN", SERVER) =>
          \/ \E k \in 1..(s - 1) :
                /\ Queued(k, "LISTEN", SERVER)
                /\ \A m \in k..(s - 1) : ~Queued(m, "SHUTDOWN", SERVER)
          \/ status = "listening" /\ \A m \in 1..(s - 1) : ~Queued(m, "SHUTDOWN", SERVER)
    /\ m_usListenSocket # nullptr =>
          \/ \E k \in DOMAIN m_deferredEventsQueue :
                /\ Queued(k, "LISTEN", SERVER)
                /\ \A m \in DOMAIN m_deferredEventsQueue :
                      m > k => ~Queued(m, "SHUTDOWN", SERVER)
          \/ status = "listening" /\ \A m \in DOMAIN m_deferredEventsQueue :
                            ~Queued(m, "SHUTDOWN", SERVER)

(* Replaying the queue on top of what the handlers have been told yields   *)
(* the state of the sockets: no lifecycle event and no message is lost,    *)
(* repeated or reordered between a uWebSockets callback and its handler.   *)
QueueBridgesSocketsAndHandlers ==
    /\ OpenFirstCloseLast
    /\ LifecycleQueued
    /\ MessagesQueued
    /\ ShutdownAfterCloses
    /\ ListenBeforeShutdown
=============================================================================
