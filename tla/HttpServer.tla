----------------------------- MODULE HttpServer -----------------------------
(***************************************************************************)
(* The HTTP server: the request callbacks and response methods of the      *)
(* native WebServer class (WebServer.cpp), and the Lua class that polls it *)
(* (HttpServer.lua).                                                       *)
(*                                                                         *)
(* uWebSockets owns the responses.  A response is pending from the request *)
(* handler until it is ended; while it is pending, its connection may      *)
(* abort it (the peer goes away, or sends another request too early).      *)
(* Ending a response drops its abort and writable handlers but not its     *)
(* data handler: the rest of the body is still delivered.  A connection is *)
(* kept alive for the next request, also after the listen socket is gone.  *)
(* The server keeps a raw pointer to each pending response.                *)
(***************************************************************************)
EXTENDS WebServer

CONSTANTS
    Connections,    \* the TCP connections
    Requests,       \* the requests, each named by the UUID that is drawn
    NoRequest,
    Routes,         \* pairs of a supported method and a URL pattern
    MaxChunks,      \* bound: body chunks per request, not counting the last
    MaxWritables    \* bound: writable callbacks per request

ASSUME RequestsAssumption == SERVER \notin Requests /\ NoRequest \notin Requests
ASSUME HttpBoundsAssumption == MaxChunks \in Nat /\ MaxWritables \in Nat

VARIABLES
    connection,         \* external: state of each TCP connection
    current,            \* external: the latest request on each connection
    response,           \* external: the response, as uWebSockets sees it
    body,               \* external: chunks received, and whether the last was
    blocked,            \* external: responses waiting for their socket to drain
    writables,          \* writable callbacks so far, per request
    m_httpClientsMap,   \* requests the server keeps details and a pointer of
    registeredRoutes,   \* the Lua registry
    routeHandlers,      \* external: handlers in the uWebSockets router
    touched,            \* responses that the last step called a method of
    phase,              \* history: what the Lua handlers know of a request
    received,           \* history: number of the last chunk handled
    writable,           \* history: number of the last writable event handled
    status              \* history: the last SERVER_*_LISTENING event

httpVars    == <<connection, current, response, body, blocked, writables>>
routeVars   == <<registeredRoutes, routeHandlers>>
historyVars == <<phase, received, writable, status>>
vars == <<serverVars, loopVars, m_deferredEventsQueue, httpVars, routeVars,
          m_httpClientsMap, touched, historyVars>>

Init ==
    /\ ServerInit
    /\ connection = [k \in Connections |-> "none"]
    /\ current = [k \in Connections |-> NoRequest]
    /\ response = [r \in Requests |-> "none"]
    /\ body = [r \in Requests |-> [chunks |-> 0, complete |-> FALSE]]
    /\ blocked = {}
    /\ writables = [r \in Requests |-> 0]
    /\ m_httpClientsMap = {}
    /\ registeredRoutes = {}
    /\ routeHandlers = [route \in Routes |-> 0]
    /\ touched = {}
    /\ phase = [r \in Requests |-> "unknown"]
    /\ received = [r \in Requests |-> 0]
    /\ writable = [r \in Requests |-> 0]
    /\ status = "stopped"

Event ==
    [type : {"LISTEN", "SHUTDOWN"}, clientID : {SERVER}, n : {0}, size : {0}]
    \cup [type : {"HTTP_START", "HTTP_ABORT"}, clientID : Requests, n : {0}, size : {0}]
    \cup [type : {"HTTP_WRITABLE"}, clientID : Requests, n : 1..MaxWritables, size : {0}]
    \cup [type : {"HTTP_DATA", "HTTP_END"},
          clientID : Requests, n : 1..(MaxChunks + 1), size : {0}]

TypeOK ==
    /\ ServerTypeOK
    /\ m_deferredEventsQueue \in Seq(Event)
    /\ connection \in [Connections -> {"none", "open", "closed"}]
    /\ current \in [Connections -> Requests \cup {NoRequest}]
    /\ response \in [Requests -> {"none", "pending", "ended", "aborted"}]
    /\ body \in [Requests -> [chunks : 0..(MaxChunks + 1), complete : BOOLEAN]]
    /\ blocked \subseteq Requests
    /\ writables \in [Requests -> 0..MaxWritables]
    /\ m_httpClientsMap \subseteq Requests
    /\ registeredRoutes \subseteq Routes
    /\ routeHandlers \in [Routes -> Nat]
    /\ touched \subseteq Requests
    /\ phase \in [Requests -> {"unknown", "started", "finished", "aborted"}]
    /\ received \in [Requests -> Nat]
    /\ writable \in [Requests -> Nat]
    /\ status \in {"stopped", "listening"}

-----------------------------------------------------------------------------
(* uWebSockets calls back.                                                 *)

(* External: a TCP connection is accepted. *)
Accept(k) ==
    /\ InEventLoop
    /\ listenSockets # {}
    /\ connection[k] = "none"
    /\ connection' = [connection EXCEPT ![k] = "open"]
    /\ touched' = {}
    /\ UNCHANGED <<serverVars, loopVars, m_deferredEventsQueue, current,
                   response, body, blocked, writables, routeVars,
                   m_httpClientsMap, historyVars>>

(* External: the previous request is done with in both directions. *)
Idle(k) ==
    current[k] # NoRequest =>
        response[current[k]] = "ended" /\ body[current[k]].complete

StoreRequestDetails(r) == m_httpClientsMap' = m_httpClientsMap \cup {r}

(* Mutant of erase: the entry is kept. *)
erase_kept(r) == UNCHANGED m_httpClientsMap

erase(r) == m_httpClientsMap' = m_httpClientsMap \ {r}

(* The headers of a request for a registered route are complete. *)
OnRequest(k, r) ==
    /\ InEventLoop
    /\ connection[k] = "open"
    /\ Idle(k)
    /\ \E route \in Routes : routeHandlers[route] > 0
    /\ response[r] = "none"
    /\ response' = [response EXCEPT ![r] = "pending"]
    /\ current' = [current EXCEPT ![k] = r]
    /\ emplace(DeferredEvent("HTTP_START", r, 0, 0))
    /\ StoreRequestDetails(r)
    /\ touched' = {}
    /\ UNCHANGED <<serverVars, loopVars, connection, body, blocked, writables,
                   routeVars, historyVars>>

(* OnChunkReceived, OnLastChunkReceived: part of the body, for a response  *)
(* that is pending or has been ended before the body was complete.         *)
OnData(k, isLast) ==
    LET r == current[k] IN
    /\ InEventLoop
    /\ connection[k] = "open"
    /\ r # NoRequest
    /\ ~body[r].complete
    /\ isLast \/ body[r].chunks < MaxChunks
    /\ body' = [body EXCEPT ![r] = [chunks |-> body[r].chunks + 1,
                                    complete |-> isLast]]
    /\ emplace(DeferredEvent(IF isLast THEN "HTTP_END" ELSE "HTTP_DATA",
                             r, body[r].chunks + 1, 0))
    /\ touched' = {}
    /\ UNCHANGED <<serverVars, loopVars, connection, current, response, blocked,
                   writables, routeVars, m_httpClientsMap, historyVars>>

(* The socket of a response that could not be written in full has drained. *)
OnConnectionWritable(r) ==
    /\ InEventLoop
    /\ r \in blocked
    /\ writables[r] < MaxWritables
    /\ blocked' = blocked \ {r}
    /\ writables' = [writables EXCEPT ![r] = writables[r] + 1]
    /\ emplace(DeferredEvent("HTTP_WRITABLE", r, writables[r] + 1, 0))
    /\ touched' = {}
    /\ UNCHANGED <<serverVars, loopVars, connection, current, response, body,
                   routeVars, m_httpClientsMap, historyVars>>

OnConnectionAborted(r) ==
    /\ emplace(DeferredEvent("HTTP_ABORT", r, 0, 0))
    /\ erase(r)

(* External: the connection closes (the peer goes away, a timeout, or a    *)
(* request that arrives while a response is pending); a pending response   *)
(* is aborted.                                                             *)
Disconnect(k) ==
    LET r == current[k] IN
    /\ InEventLoop
    /\ connection[k] = "open"
    /\ connection' = [connection EXCEPT ![k] = "closed"]
    /\ \/ /\ r \in Requests /\ response[r] = "pending"
          /\ response' = [response EXCEPT ![r] = "aborted"]
          /\ blocked' = blocked \ {r}
          /\ OnConnectionAborted(r)
       \/ /\ r \in Requests => response[r] # "pending"
          /\ UNCHANGED <<response, blocked, m_deferredEventsQueue, m_httpClientsMap>>
    /\ touched' = {}
    /\ UNCHANGED <<serverVars, loopVars, current, body, writables, routeVars, historyVars>>

-----------------------------------------------------------------------------
(* Lua calls the server, from an event handler or from elsewhere.  It only *)
(* knows requests that have been reported to it.                           *)

isRegistered(route) == route \in registeredRoutes

(* A route that is already registered, like an unknown method, is an error. *)
AddRoute(route) ==
    /\ ~isRegistered(route)
    /\ routeHandlers' = [routeHandlers EXCEPT ![route] = routeHandlers[route] + 1]
    /\ registeredRoutes' = registeredRoutes \cup {route}
    /\ touched' = {}
    /\ UNCHANGED <<serverVars, loopVars, m_deferredEventsQueue, httpVars,
                   m_httpClientsMap, historyVars>>

Start ==
    /\ StartListening
    /\ touched' = {}
    /\ UNCHANGED <<httpVars, routeVars, m_httpClientsMap, historyVars>>

(* Mutant of AbortAllConnections: the map is cleared, nobody is answered. *)
AbortAllConnections_unanswered ==
    /\ touched' = {}
    /\ m_httpClientsMap' = {}
    /\ UNCHANGED <<response, blocked>>

(* Every pending response is ended with status 503. *)
AbortAllConnections ==
    /\ response' = [r \in Requests |->
                      IF r \in m_httpClientsMap THEN "ended" ELSE response[r]]
    /\ blocked' = blocked \ m_httpClientsMap
    /\ touched' = m_httpClientsMap
    /\ m_httpClientsMap' = {}

(* Without a listen socket the native part does nothing, but Lua still     *)
(* stops polling and drains the queue.                                     *)
StopListening ==
    /\ StopPolling
    /\ IF m_usListenSocket = nullptr
       THEN /\ touched' = {}
            /\ UNCHANGED <<serverVars, m_deferredEventsQueue, response, blocked,
                           m_httpClientsMap>>
       ELSE /\ AbortAllConnections
            /\ us_listen_socket_close
            /\ emplace(ServerEvent("SHUTDOWN"))
    /\ UNCHANGED <<connection, current, body, writables, routeVars,
                   historyVars>>

HasRequest(r) == r \in m_httpClientsMap

(* WriteResponse: a chunk of a response that remains pending, and waits    *)
(* for its socket to drain if there is backpressure.                       *)
WriteResponse(r) ==
    /\ phase[r] # "unknown"
    /\ HasRequest(r)
    /\ blocked' \in {blocked, blocked \cup {r}}
    /\ touched' = {r}
    /\ UNCHANGED <<serverVars, loopVars, m_deferredEventsQueue, connection,
                   current, response, body, writables, routeVars,
                   m_httpClientsMap, historyVars>>

(* WriteResponseStatus, WriteResponseHeader.  Like every send, they do     *)
(* nothing for a request that the server no longer knows.                  *)
WriteResponseHead(r) ==
    /\ phase[r] # "unknown"
    /\ touched' = IF HasRequest(r) THEN {r} ELSE {}
    /\ UNCHANGED <<serverVars, loopVars, m_deferredEventsQueue, httpVars,
                   routeVars, m_httpClientsMap, historyVars>>

(* EndResponse *)
EndResponse(r) ==
    /\ phase[r] # "unknown"
    /\ HasRequest(r)
    /\ response' = [response EXCEPT ![r] = "ended"]
    /\ blocked' = blocked \ {r}
    /\ erase(r)
    /\ touched' = {r}
    /\ UNCHANGED <<serverVars, loopVars, m_deferredEventsQueue, connection,
                   current, body, writables, routeVars, historyVars>>

(* TryEndResponse: the whole response may not fit into the socket, in      *)
(* which case it remains pending until Lua tries again.                    *)
TryEndResponse(r) ==
    /\ phase[r] # "unknown"
    /\ HasRequest(r)
    /\ \/ /\ response' = [response EXCEPT ![r] = "ended"]
          /\ blocked' = blocked \ {r}
          /\ erase(r)
       \/ /\ blocked' \in {blocked, blocked \cup {r}}
          /\ UNCHANGED <<response, m_httpClientsMap>>
    /\ touched' = {r}
    /\ UNCHANGED <<serverVars, loopVars, m_deferredEventsQueue, connection,
                   current, body, writables, routeVars, historyVars>>

-----------------------------------------------------------------------------
(* The polling loop.                                                       *)

Poll ==
    /\ PollingUpdate
    /\ touched' = {}
    /\ UNCHANGED <<httpVars, routeVars, m_httpClientsMap, historyVars>>

(* ProcessDeferredEvents hands one event to its handler; the history       *)
(* variables record what the handlers have been told.                      *)
OnEvent ==
    \E event \in {m_deferredEventsQueue[i] : i \in DOMAIN m_deferredEventsQueue} :
        /\ GetNextDeferredEvent(event)
        /\ phase' = CASE event.type = "HTTP_START" ->
                            [phase EXCEPT ![event.clientID] = "started"]
                      [] event.type = "HTTP_END" ->
                            [phase EXCEPT ![event.clientID] = "finished"]
                      [] event.type = "HTTP_ABORT" ->
                            [phase EXCEPT ![event.clientID] = "aborted"]
                      [] OTHER -> phase
        /\ received' = IF event.type \in {"HTTP_DATA", "HTTP_END"}
                       THEN [received EXCEPT ![event.clientID] = event.n]
                       ELSE received
        /\ writable' = IF event.type = "HTTP_WRITABLE"
                       THEN [writable EXCEPT ![event.clientID] = event.n]
                       ELSE writable
        /\ status' = CASE event.type = "LISTEN" -> "listening"
                       [] event.type = "SHUTDOWN" -> "stopped"
                       [] OTHER -> status
        /\ touched' = {}
        /\ UNCHANGED <<httpVars, routeVars, m_httpClientsMap>>

Drained ==
    /\ ProcessDeferredEventsDone
    /\ touched' = {}
    /\ UNCHANGED <<httpVars, routeVars, m_httpClientsMap, historyVars>>

-----------------------------------------------------------------------------
Next ==
    \/ \E k \in Connections :
          \/ Accept(k)
          \/ \E r \in Requests : OnRequest(k, r)
          \/ \E isLast \in BOOLEAN : OnData(k, isLast)
          \/ Disconnect(k)
    \/ \E r \in Requests :
          \/ OnConnectionWritable(r)
          \/ WriteResponse(r)
          \/ WriteResponseHead(r)
          \/ EndResponse(r)
          \/ TryEndResponse(r)
    \/ \E route \in Routes : AddRoute(route)
    \/ Start
    \/ StopListening
    \/ Poll
    \/ OnEvent
    \/ Drained

(* As for the WebSocket server: the event loop runs its timers and the     *)
(* handlers return; peers and user code owe nothing.                       *)
Fairness == WF_vars(Poll) /\ WF_vars(OnEvent) /\ WF_vars(Drained)

Spec == Init /\ [][Next]_vars
FairSpec == Spec /\ Fairness

-----------------------------------------------------------------------------
(* Properties.                                                             *)

(* The server holds a pointer to exactly the responses that are pending: a *)
(* pointer to another one would be used after uWebSockets recycled it, and *)
(* a pending response without an entry could never be answered.            *)
PointersToPendingResponses ==
    m_httpClientsMap = {r \in Requests : response[r] = "pending"}

(* No method is ever called on a response that was ended or aborted, in    *)
(* particular StopListening never answers a request a second time.         *)
OnlyPendingResponsesTouched ==
    [][\A r \in touched' : response[r] = "pending"]_vars

(* The Lua handlers see the events in the order HttpEvents promises.       *)
Handlers ==
    INSTANCE HttpEvents WITH Requests <- Requests, phase <- phase, received <- received,
                             writable <- writable, status <- status
EventContract == Handlers!Spec

(* When SERVER_STOPPED_LISTENING is handled, every request the server ever *)
(* accepted has been answered or aborted, wherever StopListening was       *)
(* called from.                                                            *)
NothingPendingWhenStopped ==
    [][status = "listening" /\ status' = "stopped" => \A r \in Requests : response[r] # "pending"]_vars

(* What happens to a request while the server polls, or while a drain is   *)
(* in progress, is eventually reported, even if StopListening comes first. *)
RequestsAreReported ==
    \A r \in Requests :
        /\ (response[r] # "none" /\ (pollingUpdateTimer = "active" \/ drains > 0))
              ~> phase[r] # "unknown"
        /\ (response[r] = "aborted" /\ (pollingUpdateTimer = "active" \/ drains > 0))
              ~> phase[r] = "aborted"

(* "Make sure to flush all remaining events and process any leftovers to   *)
(* shut down cleanly" (HttpServer.lua:83): once StopListening is through,  *)
(* no event is left that nobody will process, and no request unanswered.   *)
ShutdownIsClean ==
    (m_usListenSocket = nullptr /\ pollingUpdateTimer = "stopped" /\ drains = 0)
        => ~HasDeferredEvents /\ m_httpClientsMap = {}
=============================================================================
