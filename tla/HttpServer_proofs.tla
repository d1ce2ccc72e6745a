-------------------------- MODULE HttpServer_proofs --------------------------
(***************************************************************************)
(* Proofs about the HTTP server, for any connections, requests and routes  *)
(* and any number of chunks, listen sockets and nested drains.             *)
(***************************************************************************)
EXTENDS HttpServer, WebServer_proofs, TLAPS

(* The entry of every kind that a step may append. *)
LEMMA Events ==
    /\ ServerEvent("LISTEN") \in Event
    /\ ServerEvent("SHUTDOWN") \in Event
    /\ \A r \in Requests : DeferredEvent("HTTP_START", r, 0, 0) \in Event
    /\ \A r \in Requests : DeferredEvent("HTTP_ABORT", r, 0, 0) \in Event
    /\ \A r \in Requests, n \in 1..MaxWritables : DeferredEvent("HTTP_WRITABLE", r, n, 0) \in Event
    /\ \A r \in Requests, n \in 1..(MaxChunks + 1) :
          /\ DeferredEvent("HTTP_DATA", r, n, 0) \in Event
          /\ DeferredEvent("HTTP_END", r, n, 0) \in Event
BY DEF ServerEvent, DeferredEvent, Event

(* A chunk that is not the last leaves room for the last one. *)
RoomForLastChunk ==
    \A r \in Requests : ~body[r].complete => body[r].chunks <= MaxChunks

QueueType == m_deferredEventsQueue \in Seq(Event)
BodyType ==
    /\ body \in [Requests -> [chunks : 0..(MaxChunks + 1), complete : BOOLEAN]]
    /\ RoomForLastChunk

LEMMA EmplaceType ==
    ASSUME QueueType, NEW event \in Event, emplace(event)
    PROVE  QueueType'
BY DEF QueueType, emplace

LEMMA ServerStep ==
    ASSUME ServerTypeOK, QueueType, [Next]_vars
    PROVE  ServerTypeOK'
<1> USE BoundsAssumption DEF ServerTypeOK, nullptr
<1>1. CASE UNCHANGED <<serverVars, loopVars>>
  BY <1>1 DEF serverVars, loopVars
<1>2. CASE Start
  <2>1. CASE ListenFails
    BY <1>2, <2>1 DEF Start, StartListening, ListenFails, serverVars
  <2>2. CASE ListenSucceeds
    <3>1. listens < MaxListens /\ listens' = listens + 1 /\ listens \in 0..MaxListens
      BY <2>2 DEF ListenSucceeds
    <3>2. listenSockets' = listenSockets \cup {listens + 1} /\ m_usListenSocket' = listens + 1
      BY <2>2 DEF ListenSucceeds
    <3>3. pollingUpdateTimer' = "active" /\ drains' = drains
      BY <1>2 DEF Start, StartListening
    <3>4. 1..listens \subseteq 1..(listens + 1) /\ listens + 1 \in 0..MaxListens
      BY <3>1
    <3> QED BY <3>1, <3>2, <3>3, <3>4
  <2> QED BY <1>2, <2>1, <2>2 DEF Start, StartListening
<1>3. CASE StopListening
  <2>1. pollingUpdateTimer' = "stopped" /\ drains' = drains + 1 /\ drains < MaxNesting
    BY <1>3 DEF StopListening, StopPolling
  <2>2. CASE m_usListenSocket = nullptr
    <3>1. UNCHANGED <<m_usListenSocket, listenSockets, listens>>
      BY <1>3, <2>2 DEF StopListening, serverVars
    <3> QED BY <2>1, <3>1
  <2>3. CASE m_usListenSocket # nullptr
    <3>1. listens' = listens /\ m_usListenSocket' = 0 /\ listenSockets' \subseteq listenSockets
      BY <1>3, <2>3 DEF StopListening, us_listen_socket_close
    <3> QED BY <2>1, <3>1
  <2> QED BY <2>2, <2>3
<1>4. CASE Poll
  BY <1>4 DEF Poll, PollingUpdate, serverVars, InEventLoop
<1>5. CASE Drained
  BY <1>5 DEF Drained, ProcessDeferredEventsDone, serverVars
<1> QED
  BY <1>1, <1>2, <1>3, <1>4, <1>5
  DEF Next, vars, Accept, OnRequest, OnData, OnConnectionWritable, Disconnect, WriteResponse,
      WriteResponseHead, EndResponse, TryEndResponse, AddRoute, OnEvent, GetNextDeferredEvent

LEMMA BodyStep ==
    ASSUME BodyType, [Next]_vars, current \in [Connections -> Requests \cup {NoRequest}]
    PROVE  BodyType'
<1>1. CASE UNCHANGED body
  BY <1>1 DEF BodyType, RoomForLastChunk
<1>2. ASSUME NEW k \in Connections, NEW isLast \in BOOLEAN, OnData(k, isLast)
      PROVE BodyType'
  <2> DEFINE r == current[k]
  <2>1. /\ r \in Requests
        /\ ~body[r].complete
        /\ isLast \/ body[r].chunks < MaxChunks
        /\ body' = [body EXCEPT ![r] = [chunks |-> body[r].chunks + 1, complete |-> isLast]]
    BY <1>2 DEF OnData
  <2> HIDE DEF r
  <2>2. body[r].chunks \in 0..(MaxChunks + 1) /\ body[r].chunks <= MaxChunks
    BY <2>1 DEF BodyType, RoomForLastChunk
  <2>3. [chunks |-> body[r].chunks + 1, complete |-> isLast]
           \in [chunks : 0..(MaxChunks + 1), complete : BOOLEAN]
    BY <2>2, HttpBoundsAssumption
  <2>4. body' \in [Requests -> [chunks : 0..(MaxChunks + 1), complete : BOOLEAN]]
    BY <2>1, <2>3 DEF BodyType
  <2>5. ASSUME NEW s \in Requests, ~body'[s].complete PROVE body'[s].chunks <= MaxChunks
    <3>1. CASE s = r
      <4>1. body'[s] = [chunks |-> body[r].chunks + 1, complete |-> isLast]
        BY <2>1, <3>1 DEF BodyType
      <4>2. ~isLast
        BY <2>5, <4>1
      <4> QED BY <2>1, <2>2, <4>1, <4>2, HttpBoundsAssumption
    <3>2. CASE s # r
      BY <2>1, <2>5, <3>2 DEF BodyType, RoomForLastChunk
    <3> QED BY <3>1, <3>2
  <2> QED BY <2>4, <2>5 DEF BodyType, RoomForLastChunk
<1> QED
  BY <1>1, <1>2
  DEF Next, vars, httpVars, Accept, OnRequest, OnConnectionWritable, Disconnect, WriteResponse,
      WriteResponseHead, EndResponse, TryEndResponse, AddRoute, Start, StopListening, Poll,
      OnEvent, Drained

LEMMA QueueStep ==
    ASSUME QueueType, BodyType, [Next]_vars,
           current \in [Connections -> Requests \cup {NoRequest}],
           writables \in [Requests -> 0..MaxWritables]
    PROVE  QueueType'
<1>1. CASE UNCHANGED m_deferredEventsQueue
  BY <1>1 DEF QueueType
<1>2. CASE \E event \in Event : emplace(event)
  BY <1>2, EmplaceType
<1>3. ASSUME NEW event, GetNextDeferredEvent(event) PROVE QueueType'
  BY <1>3 DEF GetNextDeferredEvent, HasDeferredEvents, QueueType
<1>4. ASSUME NEW k \in Connections, NEW isLast \in BOOLEAN, OnData(k, isLast)
      PROVE  \E event \in Event : emplace(event)
  <2> DEFINE r == current[k]
  <2>1. /\ r \in Requests
        /\ ~body[r].complete
        /\ emplace(DeferredEvent(IF isLast THEN "HTTP_END" ELSE "HTTP_DATA",
                                 r, body[r].chunks + 1, 0))
    BY <1>4 DEF OnData
  <2> HIDE DEF r
  <2>2. body[r].chunks \in 0..(MaxChunks + 1) /\ body[r].chunks <= MaxChunks
    BY <2>1 DEF BodyType, RoomForLastChunk
  <2>3. body[r].chunks + 1 \in 1..(MaxChunks + 1)
    BY <2>2, HttpBoundsAssumption
  <2>4. DeferredEvent(IF isLast THEN "HTTP_END" ELSE "HTTP_DATA", r, body[r].chunks + 1, 0) \in Event
    BY <2>1, <2>3, Events
  <2> QED BY <2>1, <2>4
<1>5. ASSUME NEW r \in Requests, OnConnectionWritable(r)
      PROVE  \E event \in Event : emplace(event)
  <2>1. writables[r] + 1 \in 1..MaxWritables
    BY <1>5, HttpBoundsAssumption DEF OnConnectionWritable
  <2> QED BY <1>5, <2>1, Events DEF OnConnectionWritable
<1>6. ASSUME NEW k \in Connections, NEW r \in Requests, OnRequest(k, r)
      PROVE  \E event \in Event : emplace(event)
  BY <1>6, Events DEF OnRequest
<1>7. ASSUME NEW k \in Connections, Disconnect(k)
      PROVE  UNCHANGED m_deferredEventsQueue \/ \E event \in Event : emplace(event)
  BY <1>7, Events DEF Disconnect, OnConnectionAborted
<1>8. CASE Start
  BY <1>1, <1>2, <1>8, Events DEF Start, StartListening, ListenFails, ListenSucceeds
<1>9. CASE StopListening
  BY <1>1, <1>2, <1>9, Events DEF StopListening
<1>10. CASE OnEvent
  BY <1>3, <1>10 DEF OnEvent
<1> QED
  BY <1>1, <1>2, <1>4, <1>5, <1>6, <1>7, <1>8, <1>9, <1>10
  DEF Next, vars, Accept, WriteResponse, WriteResponseHead, EndResponse, TryEndResponse,
      AddRoute, Poll, PollingUpdate, Drained, ProcessDeferredEventsDone

(* The remaining variables of the type invariant. *)
RestType ==
    /\ connection \in [Connections -> {"none", "open", "closed"}]
    /\ current \in [Connections -> Requests \cup {NoRequest}]
    /\ response \in [Requests -> {"none", "pending", "ended", "aborted"}]
    /\ blocked \subseteq Requests
    /\ writables \in [Requests -> 0..MaxWritables]
    /\ m_httpClientsMap \subseteq Requests
    /\ registeredRoutes \subseteq Routes
    /\ routeHandlers \in [Routes -> Nat]
    /\ touched \subseteq Requests

HistoryType ==
    /\ phase \in [Requests -> {"unknown", "started", "finished", "aborted"}]
    /\ received \in [Requests -> Nat]
    /\ writable \in [Requests -> Nat]
    /\ status \in {"stopped", "listening"}

LEMMA RestStep ==
    ASSUME RestType, [Next]_vars
    PROVE  RestType'
<1> USE DEF RestType
<1>1. ASSUME NEW k \in Connections, Accept(k) PROVE RestType'
  BY <1>1 DEF Accept, routeVars
<1>2. ASSUME NEW k \in Connections, NEW r \in Requests, OnRequest(k, r) PROVE RestType'
  BY <1>2 DEF OnRequest, StoreRequestDetails, routeVars
<1>3. ASSUME NEW k \in Connections, NEW isLast \in BOOLEAN, OnData(k, isLast) PROVE RestType'
  BY <1>3 DEF OnData, routeVars
<1>4. ASSUME NEW r \in Requests, OnConnectionWritable(r) PROVE RestType'
  BY <1>4, HttpBoundsAssumption DEF OnConnectionWritable, routeVars
<1>5. ASSUME NEW k \in Connections, Disconnect(k) PROVE RestType'
  BY <1>5 DEF Disconnect, OnConnectionAborted, erase, routeVars
<1>6. ASSUME NEW r \in Requests, WriteResponse(r) \/ WriteResponseHead(r) PROVE RestType'
  BY <1>6 DEF WriteResponse, WriteResponseHead, httpVars, routeVars
<1>7. ASSUME NEW r \in Requests, EndResponse(r) \/ TryEndResponse(r) PROVE RestType'
  BY <1>7 DEF EndResponse, TryEndResponse, erase, routeVars
<1>8. ASSUME NEW route \in Routes, AddRoute(route) PROVE RestType'
  BY <1>8 DEF AddRoute, httpVars
<1>9. CASE StopListening
  BY <1>9 DEF StopListening, AbortAllConnections, routeVars
<1>10. CASE Start \/ Poll \/ OnEvent \/ Drained
  BY <1>10 DEF Start, Poll, OnEvent, Drained, httpVars, routeVars
<1>11. CASE UNCHANGED vars
  BY <1>11 DEF vars, httpVars, routeVars
<1> QED
  BY <1>1, <1>2, <1>3, <1>4, <1>5, <1>6, <1>7, <1>8, <1>9, <1>10, <1>11 DEF Next

LEMMA HistoryStep ==
    ASSUME HistoryType, QueueType, [Next]_vars
    PROVE  HistoryType'
<1>1. CASE UNCHANGED historyVars
  BY <1>1 DEF historyVars, HistoryType
<1>2. CASE OnEvent
  <2>1. PICK event \in {m_deferredEventsQueue[i] : i \in DOMAIN m_deferredEventsQueue} : OnEvent!(event)
    BY <1>2 DEF OnEvent
  <2>2. event \in Event
    BY DEF QueueType
  <2>3. /\ event.n \in Nat
        /\ event.type \in {"HTTP_START", "HTTP_END", "HTTP_ABORT", "HTTP_DATA", "HTTP_WRITABLE"}
              => event.clientID \in Requests
    BY <2>2, HttpBoundsAssumption DEF Event
  <2>4. phase' \in [Requests -> {"unknown", "started", "finished", "aborted"}]
    BY <2>1, <2>3 DEF HistoryType
  <2>5. received' \in [Requests -> Nat] /\ writable' \in [Requests -> Nat]
    BY <2>1, <2>3 DEF HistoryType
  <2>6. status' \in {"stopped", "listening"}
    BY <2>1 DEF HistoryType
  <2> QED BY <2>4, <2>5, <2>6 DEF HistoryType
<1> QED
  BY <1>1, <1>2
  DEF Next, vars, Accept, OnRequest, OnData, OnConnectionWritable, Disconnect, WriteResponse,
      WriteResponseHead, EndResponse, TryEndResponse, AddRoute, Start, StopListening, Poll,
      Drained

(* The type invariant, with the one fact it needs to be inductive.         *)
TypeInv == ServerTypeOK /\ QueueType /\ BodyType /\ RestType /\ HistoryType

LEMMA TypeInit == Init => TypeInv
<1>1. Init => ServerTypeOK
  BY BoundsAssumption DEF Init, ServerInit, ServerTypeOK, nullptr
<1>2. Init => QueueType
  BY DEF Init, ServerInit, QueueType
<1>3. Init => BodyType
  BY HttpBoundsAssumption DEF Init, BodyType, RoomForLastChunk
<1>4. Init => RestType /\ HistoryType
  BY HttpBoundsAssumption DEF Init, RestType, HistoryType
<1> QED BY <1>1, <1>2, <1>3, <1>4 DEF TypeInv

LEMMA TypeStep == TypeInv /\ [Next]_vars => TypeInv'
<1>1. RestType => /\ current \in [Connections -> Requests \cup {NoRequest}]
                  /\ writables \in [Requests -> 0..MaxWritables]
  BY DEF RestType
<1> QED BY <1>1, ServerStep, QueueStep, BodyStep, RestStep, HistoryStep DEF TypeInv

(* Requests, responses, connections and queued events keep their types;    *)
(* in particular no body has more chunks than its events can number.       *)
THEOREM TypeCorrect == Spec => []TypeOK
<1>1. TypeInv => TypeOK
  BY DEF TypeInv, TypeOK, QueueType, BodyType, RestType, HistoryType
<1> QED
  BY <1>1, TypeInit, TypeStep, PTL DEF Spec

-----------------------------------------------------------------------------
(* The functions that the invariant looks into have the domains they are   *)
(* expected to have; no more of the type invariant is needed.              *)
ResponseType ==
    /\ DOMAIN response = Requests
    /\ response = [r \in Requests |-> response[r]]
    /\ m_httpClientsMap \subseteq Requests

PointersInv == ResponseType /\ PointersToPendingResponses

(* What keeps the pointers valid: the entry of a request is added when its *)
(* response becomes pending and erased when it no longer is, in one step,  *)
(* whoever ends it: Lua, the peer, or a shutdown.                          *)
LEMMA PointersStep ==
    ASSUME PointersInv, [Next]_vars
    PROVE  PointersInv'
<1> USE DEF PointersInv, ResponseType, PointersToPendingResponses
<1>1. ASSUME NEW k \in Connections, NEW r \in Requests, OnRequest(k, r)
      PROVE  PointersInv'
  BY <1>1 DEF OnRequest, StoreRequestDetails
<1>2. ASSUME NEW k \in Connections, Disconnect(k) PROVE PointersInv'
  BY <1>2 DEF Disconnect, OnConnectionAborted, erase
<1>3. ASSUME NEW r \in Requests, EndResponse(r) PROVE PointersInv'
  BY <1>3 DEF EndResponse, erase
<1>4. ASSUME NEW r \in Requests, TryEndResponse(r) PROVE PointersInv'
  BY <1>4 DEF TryEndResponse, erase
<1>5. CASE StopListening
  <2>1. CASE m_usListenSocket = nullptr
    BY <1>5, <2>1 DEF StopListening
  <2>2. CASE m_usListenSocket # nullptr
    BY <1>5, <2>2 DEF StopListening, AbortAllConnections
  <2> QED BY <2>1, <2>2
<1>6. CASE UNCHANGED <<response, m_httpClientsMap>>
  BY <1>6
<1>7. [Next]_vars =>
        \/ UNCHANGED <<response, m_httpClientsMap>>
        \/ \E k \in Connections, r \in Requests : OnRequest(k, r)
        \/ \E k \in Connections : Disconnect(k)
        \/ \E r \in Requests : EndResponse(r) \/ TryEndResponse(r)
        \/ StopListening
  BY DEF Next, vars, httpVars, Accept, OnData, OnConnectionWritable, WriteResponse,
         WriteResponseHead, AddRoute, Start, Poll, OnEvent, Drained
<1> QED
  BY <1>1, <1>2, <1>3, <1>4, <1>5, <1>6, <1>7

(* m_httpClientsMap points to exactly the responses that are pending,      *)
(* through aborts, partial writes and shutdowns from inside handlers.      *)
THEOREM PointersToPending == Spec => []PointersToPendingResponses
<1>1. Init => PointersInv
  BY DEF Init, PointersInv, ResponseType, PointersToPendingResponses
<1>2. PointersInv => PointersToPendingResponses
  BY DEF PointersInv
<1> QED
  BY <1>1, <1>2, PointersStep, PTL DEF Spec

(* No method of a response is called once it was ended or aborted: neither *)
(* by Lua, which may hold on to a request ID, nor by AbortAllConnections.  *)
THEOREM OnlyPendingAreTouched == Spec => OnlyPendingResponsesTouched
<1>1. ASSUME PointersInv, [Next]_vars
      PROVE  [\A r \in touched' : response[r] = "pending"]_vars
  <2> USE DEF PointersInv, PointersToPendingResponses
  <2>1. ASSUME NEW r \in Requests,
               WriteResponse(r) \/ WriteResponseHead(r) \/ EndResponse(r) \/ TryEndResponse(r)
        PROVE  \A s \in touched' : response[s] = "pending"
    BY <1>1, <2>1 DEF WriteResponse, WriteResponseHead, EndResponse, TryEndResponse, HasRequest
  <2>2. CASE StopListening
    BY <1>1, <2>2 DEF StopListening, AbortAllConnections
  <2>3. CASE touched' = {}
    BY <2>3
  <2> QED
    BY <1>1, <2>1, <2>2, <2>3
    DEF Next, Accept, OnRequest, OnData, OnConnectionWritable, Disconnect, AddRoute,
        Start, Poll, OnEvent, Drained
<1>2. Init => PointersInv
  BY DEF Init, PointersInv, ResponseType, PointersToPendingResponses
<1> QED
  BY <1>1, <1>2, PointersStep, PTL DEF Spec, OnlyPendingResponsesTouched

-----------------------------------------------------------------------------
(* While SHUTDOWN is queued, the drain that StopListening started is still *)
(* in progress, so no request can arrive, and none is pending.             *)
ShutdownQueued ==
    \E i \in DOMAIN m_deferredEventsQueue : m_deferredEventsQueue[i].type = "SHUTDOWN"

ShutdownInv == ShutdownQueued => drains > 0 /\ m_httpClientsMap = {}

(* Other events than SHUTDOWN leave it at that. *)
LEMMA EmplaceOther ==
    ASSUME QueueType, ~ShutdownQueued, NEW type, type # "SHUTDOWN", NEW id, NEW n,
           emplace(DeferredEvent(type, id, n, 0))
    PROVE  ~ShutdownQueued'
<1> DEFINE event == DeferredEvent(type, id, n, 0)
<1>1. event.type # "SHUTDOWN" /\ m_deferredEventsQueue' = Append(m_deferredEventsQueue, event)
  BY DEF DeferredEvent, emplace
<1> HIDE DEF event
<1>2. ASSUME NEW i \in DOMAIN m_deferredEventsQueue'
      PROVE  m_deferredEventsQueue'[i].type # "SHUTDOWN"
  <2>1. \/ m_deferredEventsQueue'[i] = event
        \/ i \in DOMAIN m_deferredEventsQueue /\ m_deferredEventsQueue'[i] = m_deferredEventsQueue[i]
    BY <1>1, <1>2 DEF QueueType
  <2> QED BY <1>1, <2>1 DEF ShutdownQueued
<1> QED BY <1>2 DEF ShutdownQueued

LEMMA ShutdownStep ==
    ASSUME ServerTypeOK, QueueType, ShutdownInv, [Next]_vars
    PROVE  ShutdownInv'
<1>0. drains \in Nat
  BY BoundsAssumption DEF ServerTypeOK
<1>1. InEventLoop => ~ShutdownQueued
  BY DEF InEventLoop, ShutdownInv
<1>2. ASSUME NEW k \in Connections, Accept(k) PROVE ShutdownInv'
  BY <1>2 DEF Accept, ShutdownInv, ShutdownQueued, loopVars
<1>3. ASSUME NEW k \in Connections, NEW r \in Requests, OnRequest(k, r) PROVE ShutdownInv'
  BY <1>1, <1>3, EmplaceOther DEF OnRequest, ShutdownInv
<1>4. ASSUME NEW k \in Connections, NEW isLast \in BOOLEAN, OnData(k, isLast)
      PROVE ShutdownInv'
  <2>1. \E type \in {"HTTP_END", "HTTP_DATA"} :
           emplace(DeferredEvent(type, current[k], body[current[k]].chunks + 1, 0))
    BY <1>4 DEF OnData
  <2> QED BY <1>1, <1>4, <2>1, EmplaceOther DEF OnData, ShutdownInv
<1>5. ASSUME NEW r \in Requests, OnConnectionWritable(r) PROVE ShutdownInv'
  BY <1>1, <1>5, EmplaceOther DEF OnConnectionWritable, ShutdownInv
<1>6. ASSUME NEW k \in Connections, Disconnect(k) PROVE ShutdownInv'
  <2>1. \/ UNCHANGED m_deferredEventsQueue
        \/ emplace(DeferredEvent("HTTP_ABORT", current[k], 0, 0))
    BY <1>6 DEF Disconnect, OnConnectionAborted
  <2>2. ~ShutdownQueued
    BY <1>1, <1>6 DEF Disconnect
  <2>3. ~ShutdownQueued'
    BY <2>1, <2>2, EmplaceOther DEF ShutdownQueued
  <2> QED BY <2>3 DEF ShutdownInv
<1>7. ASSUME NEW r \in Requests,
             WriteResponse(r) \/ WriteResponseHead(r) \/ EndResponse(r) \/ TryEndResponse(r)
      PROVE  ShutdownInv'
  <2>1. /\ UNCHANGED <<m_deferredEventsQueue, drains>>
        /\ m_httpClientsMap' \subseteq m_httpClientsMap
    BY <1>7 DEF WriteResponse, WriteResponseHead, EndResponse, TryEndResponse, erase, loopVars
  <2> QED BY <2>1 DEF ShutdownInv, ShutdownQueued
<1>8. CASE Start
  <2>1. UNCHANGED <<drains, m_httpClientsMap>>
    BY <1>8 DEF Start, StartListening
  <2>2. UNCHANGED m_deferredEventsQueue \/ emplace(DeferredEvent("LISTEN", SERVER, 0, 0))
    BY <1>8 DEF Start, StartListening, ListenFails, ListenSucceeds, ServerEvent
  <2>3. ~ShutdownQueued => ~ShutdownQueued'
    BY <2>2, EmplaceOther DEF ShutdownQueued
  <2> QED BY <2>1, <2>3 DEF ShutdownInv
<1>9. CASE StopListening
  <2>1. drains' > 0 /\ drains' = drains + 1
    BY <1>0, <1>9 DEF StopListening, StopPolling
  <2>2. \/ UNCHANGED <<m_deferredEventsQueue, m_httpClientsMap>>
        \/ m_httpClientsMap' = {}
    BY <1>9 DEF StopListening, AbortAllConnections
  <2> QED BY <2>1, <2>2 DEF ShutdownInv, ShutdownQueued
<1>10. ASSUME NEW route \in Routes, AddRoute(route) PROVE ShutdownInv'
  BY <1>10 DEF AddRoute, ShutdownInv, ShutdownQueued, loopVars
<1>11. CASE Poll
  BY <1>1, <1>11 DEF Poll, PollingUpdate, ShutdownInv, ShutdownQueued
<1>12. CASE OnEvent
  <2>1. /\ m_deferredEventsQueue # <<>>
        /\ m_deferredEventsQueue' = Tail(m_deferredEventsQueue)
        /\ UNCHANGED <<drains, m_httpClientsMap>>
    BY <1>12 DEF OnEvent, GetNextDeferredEvent, HasDeferredEvents, loopVars
  <2>2. ASSUME NEW i \in DOMAIN m_deferredEventsQueue'
        PROVE  /\ i + 1 \in DOMAIN m_deferredEventsQueue
               /\ m_deferredEventsQueue'[i] = m_deferredEventsQueue[i + 1]
    BY <2>1, <2>2 DEF QueueType
  <2>3. ShutdownQueued' => ShutdownQueued
    BY <2>2 DEF ShutdownQueued
  <2> QED BY <2>1, <2>3 DEF ShutdownInv
<1>13. CASE Drained
  BY <1>13 DEF Drained, ProcessDeferredEventsDone, HasDeferredEvents, ShutdownInv, ShutdownQueued
<1>14. CASE UNCHANGED vars
  BY <1>14 DEF vars, loopVars, ShutdownInv, ShutdownQueued
<1> QED
  BY <1>2, <1>3, <1>4, <1>5, <1>6, <1>7, <1>8, <1>9, <1>10, <1>11, <1>12, <1>13, <1>14 DEF Next

(* Handling SHUTDOWN is what makes the status "stopped". *)
LEMMA StoppedByShutdown ==
    ASSUME QueueType, HistoryType, [Next]_vars, status = "listening", status' = "stopped"
    PROVE  ShutdownQueued
<1>1. CASE OnEvent
  <2>1. PICK event \in {m_deferredEventsQueue[i] : i \in DOMAIN m_deferredEventsQueue} : OnEvent!(event)
    BY <1>1 DEF OnEvent
  <2>2. event.type = "SHUTDOWN"
    BY <2>1
  <2> QED BY <2>2 DEF ShutdownQueued
<1>2. CASE UNCHANGED historyVars
  BY <1>2 DEF historyVars
<1> QED
  BY <1>1, <1>2
  DEF Next, vars, Accept, OnRequest, OnData, OnConnectionWritable, Disconnect, WriteResponse,
      WriteResponseHead, EndResponse, TryEndResponse, AddRoute, Start, StopListening, Poll,
      Drained

(* When SERVER_STOPPED_LISTENING is handled, no request is pending: the    *)
(* shutdown answered them all, and none could arrive in between, because   *)
(* StopListening drains the queue before it returns to the event loop.     *)
THEOREM StoppedMeansAnswered == Spec => NothingPendingWhenStopped
<1> DEFINE Inv == TypeInv /\ PointersInv /\ ShutdownInv
<1>1. Init => Inv
  <2>1. Init => ShutdownInv
    BY DEF Init, ServerInit, ShutdownInv, ShutdownQueued
  <2>2. Init => PointersInv
    BY DEF Init, PointersInv, ResponseType, PointersToPendingResponses
  <2> QED BY <2>1, <2>2, TypeInit
<1>2. Inv /\ [Next]_vars => Inv'
  BY TypeStep, PointersStep, ShutdownStep DEF TypeInv
<1>3. Inv /\ [Next]_vars =>
        [status = "listening" /\ status' = "stopped"
            => \A r \in Requests : response[r] # "pending"]_vars
  BY StoppedByShutdown
  DEF TypeInv, ShutdownInv, PointersInv, PointersToPendingResponses
<1> QED
  BY <1>1, <1>2, <1>3, PTL DEF Spec, NothingPendingWhenStopped

-----------------------------------------------------------------------------
(* The queue between the responses and the handlers.                       *)

Chunk == {"HTTP_DATA", "HTTP_END"}
Writable == {"HTTP_WRITABLE"}

LEMMA EventFields ==
    ASSUME NEW e \in Event
    PROVE  /\ e.type \in {"LISTEN", "SHUTDOWN", "HTTP_START", "HTTP_ABORT", "HTTP_WRITABLE",
                          "HTTP_DATA", "HTTP_END"}
           /\ e.type \in {"LISTEN", "SHUTDOWN"} <=> e.clientID \notin Requests
           /\ e.type \in {"LISTEN", "SHUTDOWN"} => e.clientID = SERVER
           /\ e.n \in Nat
BY RequestsAssumption, HttpBoundsAssumption DEF Event

(* HTTP_START precedes and HTTP_ABORT follows the other events of a request. *)
StartFirst(q) == Bracketed(q, Requests, "HTTP_START", "HTTP_ABORT")

(* The lifecycle events of request r that are queued lead from what the    *)
(* handlers know, phase ph, to the state rs of its response.               *)
Life(q, rs, ph, r) ==
    /\ Has(q, "HTTP_START", r) <=> ph = "unknown" /\ rs # "none"
    /\ Has(q, "HTTP_ABORT", r) <=> ph # "aborted" /\ rs = "aborted"
    /\ Mentions(q, r) => ph # "aborted" /\ rs # "none"
    /\ ph \in {"started", "finished"} => rs # "none"
    /\ ph = "aborted" => rs = "aborted"

(* The last chunk is the one that completes the body, bd; rc chunks have   *)
(* been handled.                                                           *)
Ends(q, bd, ph, rc, r) ==
    /\ \A i \in 1..Len(q) : At(q, i, "HTTP_END", r) => bd.complete /\ q[i].n = bd.chunks
    /\ ph = "finished" => bd.complete /\ rc = bd.chunks

(* All of it: the chunks and the writable notifications that are queued    *)
(* are those after the last ones handled, rc and wd, up to the last ones   *)
(* that occurred.                                                          *)
Request(q, rs, bd, ws, ph, rc, wd, r) ==
    /\ Life(q, rs, ph, r)
    /\ Ends(q, bd, ph, rc, r)
    /\ Numbered(q, Chunk, rc, bd.chunks, r)
    /\ Numbered(q, Writable, wd, ws, r)

(* Events of other requests, or of the server, change nothing. *)
LEMMA GrowsRequest ==
    ASSUME NEW q, NEW p, Grows(q, p), NEW r, NEW rs, NEW bd, NEW ws \in Nat, NEW ph,
           NEW rc \in Nat, NEW wd \in Nat, bd.chunks \in Nat,
           Request(q, rs, bd, ws, ph, rc, wd, r),
           \A j \in Added(q, p) : p[j].clientID # r
    PROVE  Request(p, rs, bd, ws, ph, rc, wd, r)
<1>1. \A j \in Added(q, p) : /\ ~At(p, j, "HTTP_START", r) /\ ~At(p, j, "HTTP_ABORT", r)
                             /\ ~At(p, j, "HTTP_END", r)
                             /\ ~Of(p, j, Chunk, r) /\ ~Of(p, j, Writable, r)
  BY DEF At, Of
<1>2. \A i \in 1..Len(p) : i \in 1..Len(q) \/ i \in Added(q, p)
  BY DEF Grows, Added
<1>3. (Has(p, "HTTP_START", r) <=> Has(q, "HTTP_START", r)) /\ (Has(p, "HTTP_ABORT", r) <=> Has(q, "HTTP_ABORT", r))
  BY <1>1, GrowsHas
<1>4. Mentions(p, r) => Mentions(q, r)
  BY <1>2 DEF Mentions, Grows
<1>5. Life(p, rs, ph, r)
  BY <1>3, <1>4 DEF Request, Life
<1>6. Ends(p, bd, ph, rc, r)
  BY <1>1, <1>2 DEF Request, Ends, Grows, At
<1>7. Numbered(p, Chunk, rc, bd.chunks, r)
  BY <1>1, GrowsNumbered DEF Request
<1>8. Numbered(p, Writable, wd, ws, r)
  BY <1>1, GrowsNumbered DEF Request
<1> QED BY <1>5, <1>6, <1>7, <1>8 DEF Request

Phases == {"unknown", "started", "finished", "aborted"}

(* What a uWebSockets callback may queue about a request. *)
Occurs(e, rs, bd, ws, newRs, newBd, newWs) ==
    \/ e.type = "HTTP_START" /\ rs = "none" /\ newRs = "pending" /\ newBd = bd /\ newWs = ws
    \/ /\ e.type \in Chunk /\ rs \notin {"none", "aborted"} /\ newRs = rs /\ newWs = ws
       /\ e.n = bd.chunks + 1 /\ ~bd.complete
       /\ newBd.chunks = bd.chunks + 1 /\ (e.type = "HTTP_END" => newBd.complete)
    \/ /\ e.type = "HTTP_WRITABLE" /\ rs \notin {"none", "aborted"} /\ newRs = rs /\ newBd = bd
       /\ e.n = ws + 1 /\ newWs = ws + 1
    \/ e.type = "HTTP_ABORT" /\ rs = "pending" /\ newRs = "aborted" /\ newBd = bd /\ newWs = ws

LEMMA AppendRequest ==
    ASSUME NEW q \in Seq(Event), NEW e \in Event, NEW r \in Requests, e.clientID = r,
           StartFirst(q), NEW rs, NEW bd, NEW ws \in Nat, NEW ph \in Phases,
           NEW rc \in Nat, NEW wd \in Nat, bd.chunks \in Nat,
           Request(q, rs, bd, ws, ph, rc, wd, r),
           NEW newRs, NEW newBd, NEW newWs, Occurs(e, rs, bd, ws, newRs, newBd, newWs)
    PROVE  /\ StartFirst(Append(q, e))
           /\ Request(Append(q, e), newRs, newBd, newWs, ph, rc, wd, r)
<1> DEFINE p == Append(q, e)
           n == Len(q)
<1>1. n \in Nat /\ Grows(q, p) /\ Len(p) = n + 1 /\ p[n + 1] = e /\ Added(q, p) = {n + 1}
  BY Appended
<1> HIDE DEF p, n
<1>2. /\ Life(q, rs, ph, r) /\ Ends(q, bd, ph, rc, r)
      /\ Numbered(q, Chunk, rc, bd.chunks, r) /\ Numbered(q, Writable, wd, ws, r)
  BY DEF Request
<1>3. e.type \in {"HTTP_START", "HTTP_ABORT", "HTTP_WRITABLE", "HTTP_DATA", "HTTP_END"}
  BY EventFields
<1>4. rs # "aborted" /\ (e.type = "HTTP_START" <=> rs = "none")
  BY DEF Occurs, Chunk
<1>5. ~Has(q, "HTTP_ABORT", r) /\ (e.type = "HTTP_START" => ~Mentions(q, r))
  BY <1>2, <1>4 DEF Life
<1>6. \A i \in 1..((n + 1) - 1) : i \in 1..n /\ p[i] = q[i]
  BY <1>1 DEF Grows, n
<1>7. StartFirst(p)
  <2>1. ASSUME NEW i \in 1..n, q[i].clientID = r PROVE q[i].type # "HTTP_ABORT" /\ e.type # "HTTP_START"
    BY <1>5, <2>1 DEF Has, At, Mentions, n
  <2> QED BY <1>1, <1>6, <2>1, GrowsBracketed DEF StartFirst
<1>8. \A type \in {"HTTP_START", "HTTP_ABORT"} : Has(p, type, r) <=> Has(q, type, r) \/ e.type = type
  BY <1>1, GrowsHas DEF At
<1>9. Life(p, newRs, ph, r)
  <2>1. (Has(p, "HTTP_START", r) <=> Has(q, "HTTP_START", r) \/ e.type = "HTTP_START")
        /\ (Has(p, "HTTP_ABORT", r) <=> Has(q, "HTTP_ABORT", r) \/ e.type = "HTTP_ABORT")
    BY <1>8
  <2>2. newRs # "none" /\ (newRs = "aborted" <=> e.type = "HTTP_ABORT")
    BY DEF Occurs, Chunk
  <2>3. ph # "aborted" /\ (rs = "none" => ph = "unknown")
    BY <1>2, <1>4 DEF Life, Phases
  <2> QED BY <1>2, <1>4, <1>5, <2>1, <2>2, <2>3 DEF Life
<1>10. \A i \in 1..Len(p) : (i \in 1..n /\ p[i] = q[i]) \/ i = n + 1
  BY <1>1 DEF Grows, n
<1>11. Ends(p, newBd, ph, rc, r)
  <2>1. CASE e.type \in Chunk
    <3>1. /\ ~bd.complete /\ newBd.chunks = bd.chunks + 1 /\ e.n = bd.chunks + 1
          /\ e.type = "HTTP_END" => newBd.complete
      BY <2>1 DEF Occurs, Chunk
    <3>2. \A i \in 1..n : ~At(q, i, "HTTP_END", r)
      BY <1>2, <3>1 DEF Ends, n
    <3>3. ph # "finished"
      BY <1>2, <3>1 DEF Ends
    <3>4. ASSUME NEW i \in 1..Len(p), At(p, i, "HTTP_END", r)
          PROVE  newBd.complete /\ p[i].n = newBd.chunks
      BY <1>1, <1>10, <3>1, <3>2, <3>4 DEF At
    <3> QED BY <3>3, <3>4 DEF Ends
  <2>2. CASE e.type \notin Chunk
    <3>1. newBd = bd /\ e.type # "HTTP_END"
      BY <2>2 DEF Occurs, Chunk
    <3>2. ASSUME NEW i \in 1..Len(p), At(p, i, "HTTP_END", r)
          PROVE  bd.complete /\ p[i].n = bd.chunks
      BY <1>1, <1>2, <1>10, <3>1, <3>2 DEF At, Ends, n
    <3> QED BY <1>2, <3>1, <3>2 DEF Ends
  <2> QED BY <2>1, <2>2
<1>12. Numbered(p, Chunk, rc, newBd.chunks, r)
  <2>1. CASE e.type \in Chunk
    <3>1. newBd.chunks = bd.chunks + 1 /\ e.n = bd.chunks + 1
      BY <2>1 DEF Occurs, Chunk
    <3>2. Of(p, Len(p), Chunk, r) /\ p[Len(p)].n = bd.chunks + 1
      BY <1>1, <2>1, <3>1 DEF Of
    <3>3. Numbered(p, Chunk, rc, bd.chunks + 1, r)
      BY <1>1, <1>2, <3>2, GrowsByOne DEF n
    <3> QED BY <3>1, <3>3
  <2>2. CASE e.type \notin Chunk
    <3>1. newBd.chunks = bd.chunks
      BY <2>2 DEF Occurs, Chunk
    <3>2. \A j \in Added(q, p) : ~Of(p, j, Chunk, r)
      BY <1>1, <2>2 DEF Of
    <3>3. Numbered(p, Chunk, rc, bd.chunks, r)
      BY <1>1, <1>2, <3>2, GrowsNumbered
    <3> QED BY <3>1, <3>3
  <2> QED BY <2>1, <2>2
<1>13. Numbered(p, Writable, wd, newWs, r)
  <2>1. CASE e.type = "HTTP_WRITABLE"
    <3>1. newWs = ws + 1 /\ e.n = ws + 1
      BY <2>1 DEF Occurs, Chunk
    <3>2. Of(p, Len(p), Writable, r) /\ p[Len(p)].n = ws + 1
      BY <1>1, <2>1, <3>1 DEF Of, Writable
    <3>3. Numbered(p, Writable, wd, ws + 1, r)
      BY <1>1, <1>2, <3>2, GrowsByOne DEF n
    <3> QED BY <3>1, <3>3
  <2>2. CASE e.type # "HTTP_WRITABLE"
    <3>1. newWs = ws
      BY <2>2 DEF Occurs, Chunk
    <3>2. \A j \in Added(q, p) : ~Of(p, j, Writable, r)
      BY <1>1, <2>2 DEF Of, Writable
    <3>3. Numbered(p, Writable, wd, ws, r)
      BY <1>1, <1>2, <3>2, GrowsNumbered
    <3> QED BY <3>1, <3>3
  <2> QED BY <2>1, <2>2
<1>14. Request(p, newRs, newBd, newWs, ph, rc, wd, r)
  BY <1>9, <1>11, <1>12, <1>13 DEF Request
<1> QED BY <1>7, <1>14 DEF p

(* The event handed over concerns another request, or the server. *)
LEMMA ShiftsOther ==
    ASSUME NEW q, NEW p, Shifts(q, p), NEW r, q[1].clientID # r, NEW rs, NEW bd, NEW ws \in Nat,
           NEW ph, NEW rc \in Nat, NEW wd \in Nat, bd.chunks \in Nat,
           Request(q, rs, bd, ws, ph, rc, wd, r)
    PROVE  Request(p, rs, bd, ws, ph, rc, wd, r)
<1>1. (Has(p, "HTTP_START", r) <=> Has(q, "HTTP_START", r)) /\ (Has(p, "HTTP_ABORT", r) <=> Has(q, "HTTP_ABORT", r))
  BY ShiftsHas DEF At
<1>2. \A i \in 1..Len(p) : i + 1 \in 1..Len(q) /\ p[i] = q[i + 1]
  BY DEF Shifts
<1>3. Mentions(p, r) => Mentions(q, r)
  BY <1>2 DEF Mentions
<1>4. Life(p, rs, ph, r)
  BY <1>1, <1>3 DEF Request, Life
<1>5. Ends(p, bd, ph, rc, r)
  BY <1>2 DEF Request, Ends, At
<1>6. Numbered(p, Chunk, rc, bd.chunks, r)
  BY ShiftsNumbered DEF Request, Of
<1>7. Numbered(p, Writable, wd, ws, r)
  BY ShiftsNumbered DEF Request, Of
<1> QED BY <1>4, <1>5, <1>6, <1>7 DEF Request

(* Event e of request r comes when HttpEvents allows it, and what is left  *)
(* in queue p is what comes after it.                                      *)
Allowed(e, p, rs, bd, ws, ph, rc, wd, r) ==
    /\ e.type = "HTTP_START" =>
          ph = "unknown" /\ Request(p, rs, bd, ws, "started", rc, wd, r)
    /\ e.type = "HTTP_DATA" =>
          ph = "started" /\ e.n = rc + 1 /\ Request(p, rs, bd, ws, ph, rc + 1, wd, r)
    /\ e.type = "HTTP_END" =>
          ph = "started" /\ e.n = rc + 1 /\ Request(p, rs, bd, ws, "finished", rc + 1, wd, r)
    /\ e.type = "HTTP_ABORT" =>
          ph \in {"started", "finished"} /\ Request(p, rs, bd, ws, "aborted", rc, wd, r)
    /\ e.type = "HTTP_WRITABLE" =>
          /\ ph \in {"started", "finished"} /\ e.n = wd + 1
          /\ Request(p, rs, bd, ws, ph, rc, wd + 1, r)

(* The first event of the queue is allowed to come next. *)
LEMMA ShiftsRequest ==
    ASSUME NEW q, NEW p, Shifts(q, p), StartFirst(q), NEW r \in Requests,
           q[1] \in Event, q[1].clientID = r, NEW rs, NEW bd, NEW ws \in Nat, NEW ph \in Phases,
           NEW rc \in Nat, NEW wd \in Nat, bd.chunks \in Nat,
           Request(q, rs, bd, ws, ph, rc, wd, r)
    PROVE  Allowed(q[1], p, rs, bd, ws, ph, rc, wd, r)
<1> DEFINE e == q[1]
<1>1. 1 \in 1..Len(q) /\ \A i \in 1..Len(p) : i + 1 \in 1..Len(q) /\ p[i] = q[i + 1]
  BY DEF Shifts
<1>2. Mentions(q, r)
  BY <1>1 DEF Mentions
<1>3. ~Has(p, "HTTP_START", r) /\ (e.type = "HTTP_ABORT" => ~Mentions(p, r))
  BY ShiftsBracketed DEF StartFirst
<1>4. /\ Has(q, "HTTP_START", r) <=> e.type = "HTTP_START"
      /\ Has(q, "HTTP_ABORT", r) <=> e.type = "HTTP_ABORT" \/ Has(p, "HTTP_ABORT", r)
  BY <1>3, ShiftsHas DEF At
<1>5. e.n \in Nat
  BY EventFields
<1>6. /\ Life(q, rs, ph, r) /\ Ends(q, bd, ph, rc, r)
      /\ Numbered(q, Chunk, rc, bd.chunks, r) /\ Numbered(q, Writable, wd, ws, r)
  BY DEF Request
<1>7. \A i \in 1..Len(p) : At(p, i, "HTTP_END", r) => bd.complete /\ p[i].n = bd.chunks
  BY <1>1, <1>6 DEF Ends, At
<1> HIDE DEF e
<1>8. rs # "none" /\ ph # "aborted" /\ (e.type = "HTTP_START" <=> ph = "unknown")
  BY <1>2, <1>4, <1>6 DEF Life
<1>10. ASSUME e.type \in Chunk
       PROVE  /\ e.n = rc + 1 /\ Numbered(p, Chunk, rc + 1, bd.chunks, r)
              /\ e.n \in (rc + 1)..bd.chunks
  <2>1. Of(q, 1, Chunk, r)
    BY <1>10 DEF Of, e
  <2>2. e.n = rc + 1 /\ Numbered(p, Chunk, rc + 1, bd.chunks, r)
    BY <1>5, <1>6, <2>1, ShiftsByOne DEF e
  <2>3. e.n \in (rc + 1)..bd.chunks
    BY <1>1, <1>6, <2>1 DEF Numbered, e
  <2> QED BY <2>2, <2>3
<1>11. ASSUME e.type \notin Chunk PROVE Numbered(p, Chunk, rc, bd.chunks, r)
  <2>1. ~Of(q, 1, Chunk, r)
    BY <1>11 DEF Of, e
  <2> QED BY <1>6, <2>1, ShiftsNumbered
<1>12. ASSUME e.type # "HTTP_WRITABLE" PROVE Numbered(p, Writable, wd, ws, r)
  <2>1. ~Of(q, 1, Writable, r)
    BY <1>12 DEF Of, Writable, e
  <2> QED BY <1>6, <2>1, ShiftsNumbered
<1>13. CASE e.type = "HTTP_START"
  <2>1. Life(p, rs, "started", r)
    BY <1>3, <1>4, <1>6, <1>8, <1>13 DEF Life
  <2>2. Ends(p, bd, "started", rc, r)
    BY <1>7 DEF Ends
  <2> QED BY <1>8, <1>11, <1>12, <1>13, <2>1, <2>2 DEF Allowed, Request, Chunk, e
<1>14. CASE e.type \in Chunk
  <2>1. ph = "started"
    <3>1. ph # "finished"
      BY <1>6, <1>10, <1>14 DEF Ends
    <3> QED BY <1>8, <1>14, <3>1 DEF Phases, Chunk
  <2>2. Life(p, rs, "started", r) /\ Life(p, rs, "finished", r)
    BY <1>3, <1>4, <1>6, <1>8, <1>14, <2>1 DEF Life, Chunk
  <2>3. Ends(p, bd, "started", rc + 1, r)
    BY <1>7 DEF Ends
  <2>4. e.type = "HTTP_END" => Ends(p, bd, "finished", rc + 1, r)
    <3>1. e.type = "HTTP_END" => bd.complete /\ e.n = bd.chunks
      BY <1>1, <1>6 DEF Ends, At, e
    <3> QED BY <1>7, <1>10, <1>14, <3>1 DEF Ends
  <2> QED BY <1>10, <1>12, <1>14, <2>1, <2>2, <2>3, <2>4 DEF Allowed, Request, Chunk, e
<1>15. CASE e.type = "HTTP_ABORT"
  <2>1. rs = "aborted" /\ ph \in {"started", "finished"}
    BY <1>4, <1>6, <1>8, <1>15 DEF Life, Phases
  <2>2. ~Has(p, "HTTP_ABORT", r)
    BY <1>3, <1>15 DEF Has, At, Mentions
  <2>3. Life(p, rs, "aborted", r)
    BY <1>3, <1>15, <2>1, <2>2 DEF Life
  <2>4. Ends(p, bd, "aborted", rc, r)
    BY <1>7 DEF Ends
  <2> QED BY <1>11, <1>12, <1>15, <2>1, <2>3, <2>4 DEF Allowed, Request, Chunk, e
<1>16. CASE e.type = "HTTP_WRITABLE"
  <2>1. ph \in {"started", "finished"}
    BY <1>8, <1>16 DEF Phases
  <2>2. Life(p, rs, ph, r)
    BY <1>3, <1>4, <1>6, <1>8, <1>16 DEF Life
  <2>3. Ends(p, bd, ph, rc, r)
    BY <1>6, <1>7 DEF Ends
  <2>4. Of(q, 1, Writable, r)
    BY <1>16 DEF Of, Writable, e
  <2>5. e.n = wd + 1 /\ Numbered(p, Writable, wd + 1, ws, r)
    BY <1>5, <1>6, <2>4, ShiftsByOne DEF e
  <2> QED BY <1>11, <1>16, <2>1, <2>2, <2>3, <2>5 DEF Allowed, Request, Chunk, e
<1>17. e.type \in {"HTTP_START", "HTTP_DATA", "HTTP_END", "HTTP_ABORT", "HTTP_WRITABLE"}
  BY EventFields DEF e
<1> QED BY <1>13, <1>14, <1>15, <1>16, <1>17 DEF Chunk

-----------------------------------------------------------------------------
(* uWebSockets' view of connections: a request belongs to one connection,  *)
(* which is gone when the request was aborted, and only a pending response *)
(* waits for its socket.                                                   *)
ConnectionInv ==
    /\ \A k \in Connections : current[k] \in Requests =>
          /\ response[current[k]] # "none"
          /\ response[current[k]] = "aborted" => connection[k] = "closed"
    /\ \A k, l \in Connections : current[k] \in Requests /\ current[k] = current[l] => k = l
    /\ blocked \subseteq m_httpClientsMap

LEMMA ConnectionStep ==
    ASSUME RestType, PointersInv, ConnectionInv, [Next]_vars
    PROVE  ConnectionInv'
<1> USE DEF RestType, ConnectionInv
<1>1. ASSUME NEW k \in Connections, Accept(k) PROVE ConnectionInv'
  BY <1>1 DEF Accept
<1>2. ASSUME NEW k \in Connections, NEW r \in Requests, OnRequest(k, r) PROVE ConnectionInv'
  <2>1. /\ response[r] = "none" /\ response' = [response EXCEPT ![r] = "pending"]
        /\ current' = [current EXCEPT ![k] = r]
        /\ m_httpClientsMap' = m_httpClientsMap \cup {r} /\ UNCHANGED <<connection, blocked>>
    BY <1>2 DEF OnRequest, StoreRequestDetails
  <2>2. \A l \in Connections : current[l] # r
    BY <2>1
  <2> QED BY <2>1, <2>2
<1>3. ASSUME NEW k \in Connections, Disconnect(k) PROVE ConnectionInv'
  <2>1. connection' = [connection EXCEPT ![k] = "closed"] /\ UNCHANGED current
    BY <1>3 DEF Disconnect
  <2>2. CASE UNCHANGED <<response, blocked, m_httpClientsMap>>
    BY <2>1, <2>2
  <2>3. CASE ~UNCHANGED <<response, blocked, m_httpClientsMap>>
    <3> DEFINE r == current[k]
    <3>1. /\ r \in Requests /\ response' = [response EXCEPT ![r] = "aborted"]
          /\ blocked' = blocked \ {r} /\ m_httpClientsMap' = m_httpClientsMap \ {r}
      BY <1>3, <2>3 DEF Disconnect, OnConnectionAborted, erase
    <3>2. \A l \in Connections : current[l] = r => l = k
      BY <3>1
    <3> HIDE DEF r
    <3>3. \A l \in Connections : current[l] \in Requests =>
             /\ response'[current[l]] # "none"
             /\ response'[current[l]] = "aborted" => connection'[l] = "closed"
      BY <2>1, <3>1, <3>2
    <3> QED BY <2>1, <3>1, <3>3
  <2> QED BY <2>2, <2>3
<1>4. ASSUME NEW r \in Requests, WriteResponse(r) PROVE ConnectionInv'
  BY <1>4 DEF WriteResponse, HasRequest
<1>5. ASSUME NEW r \in Requests, EndResponse(r) PROVE ConnectionInv'
  BY <1>5 DEF EndResponse, erase
<1>6. ASSUME NEW r \in Requests, TryEndResponse(r) PROVE ConnectionInv'
  <2>1. UNCHANGED <<current, connection>> /\ r \in m_httpClientsMap
    BY <1>6 DEF TryEndResponse, HasRequest
  <2>2. \/ /\ response' = [response EXCEPT ![r] = "ended"]
           /\ blocked' = blocked \ {r} /\ m_httpClientsMap' = m_httpClientsMap \ {r}
        \/ blocked' \in {blocked, blocked \cup {r}} /\ UNCHANGED <<response, m_httpClientsMap>>
    BY <1>6 DEF TryEndResponse, erase
  <2> QED BY <2>1, <2>2
<1>7. ASSUME NEW r \in Requests, OnConnectionWritable(r) PROVE ConnectionInv'
  BY <1>7 DEF OnConnectionWritable
<1>8. CASE StopListening
  <2>1. CASE m_usListenSocket = nullptr
    BY <1>8, <2>1 DEF StopListening
  <2>2. CASE m_usListenSocket # nullptr
    BY <1>8, <2>2 DEF StopListening, AbortAllConnections
  <2> QED BY <2>1, <2>2
<1>9. CASE UNCHANGED <<connection, current, response, blocked, m_httpClientsMap>>
  BY <1>9
<1> QED
  BY <1>1, <1>2, <1>3, <1>4, <1>5, <1>6, <1>7, <1>8, <1>9
  DEF Next, vars, httpVars, OnData, WriteResponseHead, AddRoute, Start, Poll, OnEvent, Drained

(* The inductive invariant, about the values of the variables. *)
Bridges(q, rs, bd, ws, ph, rc, wd, stat, ls) ==
    /\ StartFirst(q)
    /\ \A r \in Requests : Request(q, rs[r], bd[r], ws[r], ph[r], rc[r], wd[r], r)
    /\ ListensFirst(q, stat)
    /\ ls # nullptr => ListeningAt(q, stat, Len(q) + 1)

BridgeInv ==
    Bridges(m_deferredEventsQueue, response, body, writables, phase, received, writable, status,
            m_usListenSocket)

(* What the type invariant says of one request. *)
LEMMA RequestTypes ==
    ASSUME TypeInv
    PROVE  /\ m_deferredEventsQueue \in Seq(Event)
           /\ \A r \in Requests : /\ body[r].chunks \in Nat /\ writables[r] \in Nat
                                  /\ received[r] \in Nat /\ writable[r] \in Nat
                                  /\ phase[r] \in Phases
<1>1. m_deferredEventsQueue \in Seq(Event)
  BY DEF TypeInv, QueueType
<1>2. \A r \in Requests : body[r].chunks \in Nat
  BY HttpBoundsAssumption DEF TypeInv, BodyType
<1>3. \A r \in Requests : writables[r] \in Nat
  BY HttpBoundsAssumption DEF TypeInv, RestType
<1> QED BY <1>1, <1>2, <1>3 DEF TypeInv, HistoryType, Phases

(* A uWebSockets callback queues an event of its request. *)
LEMMA RequestStep ==
    ASSUME TypeInv, BridgeInv, NEW r \in Requests, NEW e \in Event, e.clientID = r,
           NEW rs, NEW bd, NEW ws,
           Occurs(e, response[r], body[r], writables[r], rs[r], bd[r], ws[r]),
           \A s \in Requests : s # r => rs[s] = response[s] /\ bd[s] = body[s] /\ ws[s] = writables[s]
    PROVE  Bridges(Append(m_deferredEventsQueue, e), rs, bd, ws, phase, received, writable, status,
                   m_usListenSocket)
<1> DEFINE q == m_deferredEventsQueue
           p == Append(q, e)
<1>1. q \in Seq(Event) /\ Grows(q, p) /\ Added(q, p) = {Len(q) + 1} /\ p[Len(q) + 1] = e
  BY RequestTypes, Appended
<1>2. /\ StartFirst(q) /\ ListensFirst(q, status)
      /\ m_usListenSocket # nullptr => ListeningAt(q, status, Len(q) + 1)
      /\ \A s \in Requests : Request(q, response[s], body[s], writables[s], phase[s], received[s], writable[s], s)
  BY DEF BridgeInv, Bridges
<1>3. \A s \in Requests : /\ body[s].chunks \in Nat /\ writables[s] \in Nat
                          /\ received[s] \in Nat /\ writable[s] \in Nat /\ phase[s] \in Phases
  BY RequestTypes
<1>4. e.type \notin {"LISTEN", "SHUTDOWN"}
  BY EventFields
<1> HIDE DEF q
<1>5. StartFirst(p) /\ Request(p, rs[r], bd[r], ws[r], phase[r], received[r], writable[r], r)
  BY <1>1, <1>2, <1>3, AppendRequest
<1>6. /\ ListensFirst(p, status)
      /\ m_usListenSocket # nullptr => ListeningAt(p, status, Len(p) + 1)
  BY <1>1, <1>2, <1>4, AppendServer
<1> HIDE DEF p
<1>7. \A s \in Requests : s # r =>
         Request(p, response[s], body[s], writables[s], phase[s], received[s], writable[s], s)
  BY <1>1, <1>2, <1>3, GrowsRequest
<1>8. Bridges(p, rs, bd, ws, phase, received, writable, status, m_usListenSocket)
  BY <1>5, <1>6, <1>7 DEF Bridges
<1> QED BY <1>8 DEF p, q

(* LISTEN and SHUTDOWN concern no request. *)
LEMMA AppendServerEvent ==
    ASSUME TypeInv, BridgeInv, NEW e \in Event, e.clientID = SERVER,
           NEW p, p = Append(m_deferredEventsQueue, e)
    PROVE  /\ StartFirst(p)
           /\ \A r \in Requests :
                 Request(p, response[r], body[r], writables[r], phase[r], received[r], writable[r], r)
           /\ Grows(m_deferredEventsQueue, p) /\ Added(m_deferredEventsQueue, p) = {Len(p)}
           /\ Len(p) = Len(m_deferredEventsQueue) + 1 /\ Len(p) \in Nat
<1> DEFINE q == m_deferredEventsQueue
<1>1. /\ q \in Seq(Event) /\ Grows(q, p) /\ Added(q, p) = {Len(q) + 1} /\ p[Len(q) + 1] = e
      /\ Len(p) = Len(q) + 1 /\ Len(p) \in Nat
  BY RequestTypes, Appended DEF Grows
<1>2. /\ StartFirst(q)
      /\ \A s \in Requests : Request(q, response[s], body[s], writables[s], phase[s], received[s], writable[s], s)
  BY DEF BridgeInv, Bridges
<1>3. \A s \in Requests : /\ body[s].chunks \in Nat /\ writables[s] \in Nat
                          /\ received[s] \in Nat /\ writable[s] \in Nat
  BY RequestTypes
<1> HIDE DEF q
<1>4. \A j \in Added(q, p) : p[j].clientID \notin Requests
  BY <1>1, RequestsAssumption
<1>5. StartFirst(p)
  BY <1>1, <1>2, <1>4, GrowsBracketed DEF StartFirst
<1>6. \A s \in Requests : Request(p, response[s], body[s], writables[s], phase[s], received[s], writable[s], s)
  BY <1>1, <1>2, <1>3, <1>4, GrowsRequest
<1> QED BY <1>1, <1>5, <1>6 DEF q

(* A response that is ended leaves its queued events as they are. *)
LEMMA EndedRequest ==
    ASSUME NEW q, NEW bd, NEW ws, NEW ph, NEW rc, NEW wd, NEW r,
           Request(q, "pending", bd, ws, ph, rc, wd, r)
    PROVE  Request(q, "ended", bd, ws, ph, rc, wd, r)
BY DEF Request, Life

(* What handing over event e tells the handlers, about the values. *)
Told(e, ph, rc, wd, newPh, newRc, newWd) ==
    \A r \in Requests :
        /\ newPh[r] = IF e.clientID # r THEN ph[r]
                      ELSE IF e.type = "HTTP_START" THEN "started"
                      ELSE IF e.type = "HTTP_END" THEN "finished"
                      ELSE IF e.type = "HTTP_ABORT" THEN "aborted" ELSE ph[r]
        /\ newRc[r] = IF e.clientID = r /\ e.type \in Chunk THEN e.n ELSE rc[r]
        /\ newWd[r] = IF e.clientID = r /\ e.type = "HTTP_WRITABLE" THEN e.n ELSE wd[r]

LEMMA EventTells ==
    ASSUME TypeInv, OnEvent
    PROVE  /\ Shifts(m_deferredEventsQueue, m_deferredEventsQueue')
           /\ m_deferredEventsQueue[1] \in Event
           /\ OnEvent!(m_deferredEventsQueue[1])
           /\ Told(m_deferredEventsQueue[1], phase, received, writable, phase', received', writable')
           /\ status' = Reported(status, m_deferredEventsQueue[1].type)
           /\ UNCHANGED <<response, body, writables, m_usListenSocket>>
<1>1. PICK event \in {m_deferredEventsQueue[i] : i \in DOMAIN m_deferredEventsQueue} : OnEvent!(event)
  BY DEF OnEvent
<1>2. /\ m_deferredEventsQueue \in Seq(Event) /\ m_deferredEventsQueue # <<>>
      /\ event = Head(m_deferredEventsQueue) /\ m_deferredEventsQueue' = Tail(m_deferredEventsQueue)
      /\ UNCHANGED <<response, body, writables, m_usListenSocket>>
  BY <1>1 DEF TypeInv, QueueType, GetNextDeferredEvent, HasDeferredEvents, serverVars, httpVars
<1>3. /\ Shifts(m_deferredEventsQueue, m_deferredEventsQueue')
      /\ m_deferredEventsQueue[1] = event /\ event \in Event
  BY <1>2, Tailed
<1>4. status' = Reported(status, event.type)
  BY <1>1 DEF Reported
<1>5. /\ phase \in [Requests -> {"unknown", "started", "finished", "aborted"}]
      /\ received \in [Requests -> Nat] /\ writable \in [Requests -> Nat]
  BY DEF TypeInv, HistoryType
<1>6. /\ event.type \in {"HTTP_START", "HTTP_END", "HTTP_ABORT"} => event.clientID \in Requests
      /\ event.type \in Chunk => event.clientID \in Requests
      /\ event.type = "HTTP_WRITABLE" => event.clientID \in Requests
  BY <1>3, EventFields DEF Chunk
<1>7. ASSUME NEW r \in Requests
      PROVE  phase'[r] = IF event.clientID # r THEN phase[r]
                         ELSE IF event.type = "HTTP_START" THEN "started"
                         ELSE IF event.type = "HTTP_END" THEN "finished"
                         ELSE IF event.type = "HTTP_ABORT" THEN "aborted" ELSE phase[r]
  BY <1>1, <1>5, <1>6
<1>8. ASSUME NEW r \in Requests
      PROVE  received'[r] = IF event.clientID = r /\ event.type \in Chunk THEN event.n ELSE received[r]
  BY <1>1, <1>5, <1>6 DEF Chunk
<1>9. ASSUME NEW r \in Requests
      PROVE  writable'[r] = IF event.clientID = r /\ event.type = "HTTP_WRITABLE" THEN event.n ELSE writable[r]
  BY <1>1, <1>5, <1>6
<1> QED BY <1>1, <1>2, <1>3, <1>4, <1>7, <1>8, <1>9 DEF Told

LEMMA EventStep ==
    ASSUME TypeInv, BridgeInv, OnEvent
    PROVE  BridgeInv'
<1> DEFINE q == m_deferredEventsQueue
           p == m_deferredEventsQueue'
           e == q[1]
<1>1. /\ Shifts(q, p) /\ e \in Event
      /\ Told(e, phase, received, writable, phase', received', writable')
      /\ status' = Reported(status, e.type)
      /\ UNCHANGED <<response, body, writables, m_usListenSocket>>
  BY EventTells
<1>2. /\ StartFirst(q) /\ ListensFirst(q, status)
      /\ m_usListenSocket # nullptr => ListeningAt(q, status, Len(q) + 1)
      /\ \A s \in Requests : Request(q, response[s], body[s], writables[s], phase[s], received[s], writable[s], s)
  BY DEF BridgeInv, Bridges
<1>3. \A s \in Requests : /\ body[s].chunks \in Nat /\ writables[s] \in Nat
                          /\ received[s] \in Nat /\ writable[s] \in Nat /\ phase[s] \in Phases
  BY RequestTypes
<1>4. BridgeInv' <=> Bridges(p, response, body, writables, phase', received', writable', status',
                             m_usListenSocket)
  BY <1>1 DEF BridgeInv
<1>5. /\ e.type \in {"LISTEN", "SHUTDOWN", "HTTP_START", "HTTP_ABORT", "HTTP_WRITABLE",
                     "HTTP_DATA", "HTTP_END"}
      /\ e.type \in {"LISTEN", "SHUTDOWN"} <=> e.clientID \notin Requests
      /\ e.type \in {"LISTEN", "SHUTDOWN"} => e.clientID = SERVER
  BY <1>1, EventFields
<1> HIDE DEF p, q
<1>6. StartFirst(p)
  BY <1>1, <1>2, ShiftsBracketed DEF StartFirst
<1>7. ASSUME NEW r \in Requests
      PROVE  Request(p, response[r], body[r], writables[r], phase'[r], received'[r], writable'[r], r)
  <2>1. /\ Request(q, response[r], body[r], writables[r], phase[r], received[r], writable[r], r)
        /\ body[r].chunks \in Nat /\ writables[r] \in Nat
        /\ received[r] \in Nat /\ writable[r] \in Nat /\ phase[r] \in Phases
    BY <1>2, <1>3
  <2>2. CASE e.clientID # r
    <3>1. phase'[r] = phase[r] /\ received'[r] = received[r] /\ writable'[r] = writable[r]
      BY <1>1, <2>2 DEF Told
    <3>2. Request(p, response[r], body[r], writables[r], phase[r], received[r], writable[r], r)
      BY <1>1, <2>1, <2>2, ShiftsOther
    <3> QED BY <3>1, <3>2
  <2>3. CASE e.clientID = r
    <3>1. Allowed(e, p, response[r], body[r], writables[r], phase[r], received[r], writable[r], r)
      <4>1. Shifts(q, p) /\ StartFirst(q) /\ q[1] \in Event /\ q[1].clientID = r
        BY <1>1, <1>2, <2>3
      <4> QED BY <2>1, <4>1, ShiftsRequest, Zenon
    <3>2. /\ phase'[r] = IF e.type = "HTTP_START" THEN "started"
                         ELSE IF e.type = "HTTP_END" THEN "finished"
                         ELSE IF e.type = "HTTP_ABORT" THEN "aborted" ELSE phase[r]
          /\ received'[r] = IF e.type \in Chunk THEN e.n ELSE received[r]
          /\ writable'[r] = IF e.type = "HTTP_WRITABLE" THEN e.n ELSE writable[r]
      BY <1>1, <2>3 DEF Told
    <3>3. e.type \in {"HTTP_START", "HTTP_ABORT", "HTTP_WRITABLE", "HTTP_DATA", "HTTP_END"}
      BY <1>5, <2>3
    <3> QED BY <3>1, <3>2, <3>3 DEF Chunk, Allowed
  <2> QED BY <2>2, <2>3
<1>8. ListensFirst(p, status')
  BY <1>1, <1>2, <1>5, ShiftsListensFirst
<1>9. m_usListenSocket # nullptr => ListeningAt(p, status', Len(p) + 1)
  <2>1. Len(q) \in 1..Len(q) /\ Len(p) + 1 = Len(q)
    BY <1>1 DEF Shifts
  <2> QED BY <1>1, <1>2, <1>5, <2>1, ShiftsListening
<1> QED BY <1>4, <1>6, <1>7, <1>8, <1>9 DEF Bridges

LEMMA BridgeUnchanged ==
    ASSUME BridgeInv, UNCHANGED <<m_deferredEventsQueue, response, body, writables, m_usListenSocket>>,
           UNCHANGED historyVars
    PROVE  BridgeInv'
BY DEF BridgeInv, historyVars

(* Responses that were pending are ended, and nothing else happens. *)
LEMMA EndStep ==
    ASSUME TypeInv, BridgeInv, NEW ended \in SUBSET Requests,
           \A r \in ended : response[r] = "pending",
           \A r \in Requests : response'[r] = IF r \in ended THEN "ended" ELSE response[r],
           UNCHANGED <<m_deferredEventsQueue, body, writables, m_usListenSocket>>,
           UNCHANGED historyVars
    PROVE  BridgeInv'
<1> DEFINE q == m_deferredEventsQueue
<1>1. \A r \in Requests : Request(q, response[r], body[r], writables[r], phase[r], received[r], writable[r], r)
  BY DEF BridgeInv, Bridges
<1>2. \A r \in Requests : Request(q, response'[r], body[r], writables[r], phase[r], received[r], writable[r], r)
  BY <1>1, EndedRequest
<1>3. Bridges(q, response', body, writables, phase, received, writable, status, m_usListenSocket)
  BY <1>2 DEF BridgeInv, Bridges
<1> QED BY <1>3 DEF BridgeInv, historyVars

LEMMA StopStep ==
    ASSUME TypeInv, PointersInv, BridgeInv, StopListening
    PROVE  BridgeInv'
<1>1. CASE m_usListenSocket = nullptr
  BY <1>1, BridgeUnchanged DEF StopListening, serverVars
<1>2. CASE m_usListenSocket # nullptr
  <2> DEFINE q == m_deferredEventsQueue
             e == ServerEvent("SHUTDOWN")
             p == Append(q, e)
  <2>1. /\ m_deferredEventsQueue' = p /\ m_usListenSocket' = nullptr
        /\ response' = [r \in Requests |-> IF r \in m_httpClientsMap THEN "ended" ELSE response[r]]
        /\ UNCHANGED <<body, writables, phase, received, writable, status>>
    BY <1>2 DEF StopListening, AbortAllConnections, us_listen_socket_close, emplace, historyVars
  <2>2. \A r \in Requests : r \in m_httpClientsMap => response[r] = "pending"
    BY DEF PointersInv, PointersToPendingResponses
  <2>3. e \in Event /\ e.clientID = SERVER
    BY Events DEF ServerEvent, DeferredEvent
  <2>4. ListensFirst(q, status) /\ ListeningAt(q, status, Len(q) + 1)
    BY <1>2 DEF BridgeInv, Bridges
  <2> HIDE DEF e
  <2>5. /\ StartFirst(p)
        /\ \A r \in Requests :
              Request(p, response[r], body[r], writables[r], phase[r], received[r], writable[r], r)
        /\ Grows(q, p) /\ Added(q, p) = {Len(p)} /\ Len(p) = Len(q) + 1
    BY <2>3, AppendServerEvent
  <2> HIDE DEF p, q
  <2>6. \A r \in Requests : Request(p, response'[r], body[r], writables[r], phase[r], received[r], writable[r], r)
    BY <2>1, <2>2, <2>5, EndedRequest
  <2>7. ListeningAt(p, status, Len(p))
    <3>1. Len(p) \in 1..(Len(q) + 1)
      BY <2>5 DEF Grows
    <3> QED BY <2>4, <2>5, <3>1, GrowsListening
  <2>8. ListensFirst(p, status)
    BY <2>4, <2>5, <2>7, GrowsListensFirst
  <2>9. Bridges(p, response', body, writables, phase, received, writable, status, nullptr)
    BY <2>5, <2>6, <2>8 DEF Bridges
  <2> QED BY <2>1, <2>9 DEF BridgeInv
<1> QED BY <1>1, <1>2

(* No step breaks the bridge between the responses and the handlers. *)
LEMMA BridgeStep ==
    ASSUME TypeInv, PointersInv, ConnectionInv, BridgeInv, [Next]_vars
    PROVE  BridgeInv'
<1>0. /\ response \in [Requests -> {"none", "pending", "ended", "aborted"}]
      /\ body \in [Requests -> [chunks : 0..(MaxChunks + 1), complete : BOOLEAN]]
      /\ writables \in [Requests -> 0..MaxWritables]
      /\ current \in [Connections -> Requests \cup {NoRequest}]
  BY DEF TypeInv, RestType, BodyType
<1>1. ASSUME NEW k \in Connections, NEW r \in Requests, OnRequest(k, r) PROVE BridgeInv'
  <2> DEFINE e == DeferredEvent("HTTP_START", r, 0, 0)
  <2>1. e \in Event /\ e.type = "HTTP_START" /\ e.clientID = r
    BY Events DEF DeferredEvent
  <2> HIDE DEF e
  <2>2. /\ m_deferredEventsQueue' = Append(m_deferredEventsQueue, e)
        /\ response[r] = "none" /\ response' = [response EXCEPT ![r] = "pending"]
        /\ UNCHANGED <<body, writables, m_usListenSocket, phase, received, writable, status>>
    BY <1>1 DEF OnRequest, emplace, serverVars, historyVars, e
  <2>3. Occurs(e, response[r], body[r], writables[r], response'[r], body[r], writables[r])
    BY <1>0, <2>1, <2>2 DEF Occurs
  <2>4. \A s \in Requests : s # r => response'[s] = response[s]
    BY <1>0, <2>2
  <2>5. Bridges(Append(m_deferredEventsQueue, e), response', body, writables, phase, received,
                writable, status, m_usListenSocket)
    BY <2>1, <2>3, <2>4, RequestStep
  <2> QED BY <2>2, <2>5 DEF BridgeInv
<1>2. ASSUME NEW k \in Connections, NEW isLast \in BOOLEAN, OnData(k, isLast) PROVE BridgeInv'
  <2> DEFINE r == current[k]
             e == DeferredEvent(IF isLast THEN "HTTP_END" ELSE "HTTP_DATA", r, body[r].chunks + 1, 0)
  <2>1. /\ r \in Requests /\ connection[k] = "open" /\ ~body[r].complete
        /\ body' = [body EXCEPT ![r] = [chunks |-> body[r].chunks + 1, complete |-> isLast]]
        /\ m_deferredEventsQueue' = Append(m_deferredEventsQueue, e)
        /\ UNCHANGED <<response, writables, m_usListenSocket, phase, received, writable, status>>
    BY <1>0, <1>2 DEF OnData, emplace, serverVars, historyVars
  <2>2. response[r] \notin {"none", "aborted"}
    BY <2>1 DEF ConnectionInv
  <2> HIDE DEF r
  <2>3. body[r].chunks + 1 \in 1..(MaxChunks + 1)
    <3>1. body[r].chunks \in 0..(MaxChunks + 1) /\ body[r].chunks <= MaxChunks
      BY <1>0, <2>1 DEF TypeInv, BodyType, RoomForLastChunk
    <3> QED BY <3>1, HttpBoundsAssumption
  <2>4. e \in Event
    BY <2>1, <2>3, Events
  <2>5. /\ e.clientID = r /\ e.n = body[r].chunks + 1 /\ e.type \in Chunk
        /\ e.type = "HTTP_END" => isLast
    BY DEF DeferredEvent, Chunk
  <2> HIDE DEF e
  <2>6. body'[r] = [chunks |-> body[r].chunks + 1, complete |-> isLast]
    BY <1>0, <2>1
  <2>7. body'[r].chunks = body[r].chunks + 1 /\ (e.type = "HTTP_END" => body'[r].complete)
    BY <2>5, <2>6
  <2>8. Occurs(e, response[r], body[r], writables[r], response[r], body'[r], writables[r])
    BY <2>1, <2>2, <2>5, <2>7 DEF Occurs
  <2>9. \A s \in Requests : s # r => body'[s] = body[s]
    BY <1>0, <2>1
  <2>10. Bridges(Append(m_deferredEventsQueue, e), response, body', writables, phase, received,
                 writable, status, m_usListenSocket)
    BY <2>1, <2>4, <2>5, <2>8, <2>9, RequestStep
  <2> QED BY <2>1, <2>10 DEF BridgeInv
<1>3. ASSUME NEW r \in Requests, OnConnectionWritable(r) PROVE BridgeInv'
  <2> DEFINE e == DeferredEvent("HTTP_WRITABLE", r, writables[r] + 1, 0)
  <2>1. writables[r] + 1 \in 1..MaxWritables
    BY <1>0, <1>3, HttpBoundsAssumption DEF OnConnectionWritable
  <2>2. e \in Event /\ e.type = "HTTP_WRITABLE" /\ e.clientID = r /\ e.n = writables[r] + 1
    BY <2>1, Events DEF DeferredEvent
  <2> HIDE DEF e
  <2>3. /\ m_deferredEventsQueue' = Append(m_deferredEventsQueue, e)
        /\ r \in blocked /\ writables' = [writables EXCEPT ![r] = writables[r] + 1]
        /\ UNCHANGED <<body, response, m_usListenSocket, phase, received, writable, status>>
    BY <1>3 DEF OnConnectionWritable, emplace, serverVars, historyVars, e
  <2>4. response[r] = "pending"
    BY <2>3 DEF ConnectionInv, PointersInv, PointersToPendingResponses
  <2>5. Occurs(e, response[r], body[r], writables[r], response[r], body[r], writables'[r])
    BY <1>0, <2>2, <2>3, <2>4 DEF Occurs
  <2>6. \A s \in Requests : s # r => writables'[s] = writables[s]
    BY <1>0, <2>3
  <2>7. Bridges(Append(m_deferredEventsQueue, e), response, body, writables', phase, received,
                writable, status, m_usListenSocket)
    BY <2>2, <2>5, <2>6, RequestStep
  <2> QED BY <2>3, <2>7 DEF BridgeInv
<1>4. ASSUME NEW k \in Connections, Disconnect(k) PROVE BridgeInv'
  <2> DEFINE r == current[k]
             e == DeferredEvent("HTTP_ABORT", r, 0, 0)
  <2>1. UNCHANGED <<body, writables, m_usListenSocket, phase, received, writable, status>>
    BY <1>4 DEF Disconnect, serverVars, historyVars
  <2>2. CASE UNCHANGED <<response, m_deferredEventsQueue>>
    BY <2>1, <2>2, BridgeUnchanged DEF historyVars
  <2>3. CASE /\ r \in Requests /\ response[r] = "pending"
             /\ response' = [response EXCEPT ![r] = "aborted"]
             /\ m_deferredEventsQueue' = Append(m_deferredEventsQueue, e)
    <3>1. e \in Event /\ e.type = "HTTP_ABORT" /\ e.clientID = r
      BY <2>3, Events DEF DeferredEvent
    <3> HIDE DEF e, r
    <3>2. Occurs(e, response[r], body[r], writables[r], response'[r], body[r], writables[r])
      BY <1>0, <2>3, <3>1 DEF Occurs
    <3>3. \A s \in Requests : s # r => response'[s] = response[s]
      BY <1>0, <2>3
    <3>4. Bridges(Append(m_deferredEventsQueue, e), response', body, writables, phase, received,
                  writable, status, m_usListenSocket)
      BY <2>3, <3>1, <3>2, <3>3, RequestStep
    <3> QED BY <2>1, <2>3, <3>4 DEF BridgeInv
  <2> QED BY <1>4, <2>2, <2>3 DEF Disconnect, OnConnectionAborted, emplace
<1>5. ASSUME NEW r \in Requests, EndResponse(r) \/ TryEndResponse(r) PROVE BridgeInv'
  <2>1. /\ UNCHANGED <<m_deferredEventsQueue, body, writables, m_usListenSocket>>
        /\ UNCHANGED historyVars /\ r \in m_httpClientsMap
        /\ response' = response \/ response' = [response EXCEPT ![r] = "ended"]
    BY <1>5 DEF EndResponse, TryEndResponse, HasRequest, serverVars
  <2>2. CASE response' = response
    BY <2>1, <2>2, BridgeUnchanged
  <2>3. CASE response' = [response EXCEPT ![r] = "ended"]
    <3>1. {r} \in SUBSET Requests /\ \A s \in {r} : response[s] = "pending"
      BY <2>1 DEF PointersInv, PointersToPendingResponses
    <3>2. \A s \in Requests : response'[s] = IF s \in {r} THEN "ended" ELSE response[s]
      BY <1>0, <2>3
    <3> QED BY <2>1, <3>1, <3>2, EndStep
  <2> QED BY <2>1, <2>2, <2>3
<1>6. CASE Start
  <2>1. UNCHANGED <<response, body, writables>> /\ UNCHANGED historyVars
    BY <1>6 DEF Start, httpVars
  <2>2. CASE ListenFails
    BY <2>1, <2>2, BridgeUnchanged DEF ListenFails, serverVars
  <2>3. CASE ListenSucceeds
    <3> DEFINE e == ServerEvent("LISTEN")
               q == m_deferredEventsQueue
               p == Append(q, e)
    <3>1. q \in Seq(Event) /\ e \in Event /\ e.type = "LISTEN" /\ e.clientID = SERVER
      BY Events, RequestTypes DEF ServerEvent, DeferredEvent
    <3>2. m_deferredEventsQueue' = p
      BY <2>3 DEF ListenSucceeds, emplace
    <3> HIDE DEF e
    <3>3. /\ StartFirst(p)
          /\ \A r \in Requests :
                Request(p, response[r], body[r], writables[r], phase[r], received[r], writable[r], r)
      BY <3>1, AppendServerEvent
    <3>4. ListensFirst(q, status)
      BY DEF BridgeInv, Bridges
    <3> HIDE DEF q
    <3>5. ListensFirst(p, status) /\ ListeningAt(p, status, Len(p) + 1)
      BY <3>1, <3>4, AppendServer
    <3>6. Bridges(p, response, body, writables, phase, received, writable, status, m_usListenSocket')
      BY <3>3, <3>5 DEF Bridges
    <3> QED BY <2>1, <3>2, <3>6 DEF BridgeInv, historyVars
  <2> QED BY <1>6, <2>2, <2>3 DEF Start, StartListening
<1>7. CASE StopListening
  BY <1>7, StopStep
<1>8. CASE OnEvent
  BY <1>8, EventStep
<1>9. CASE /\ UNCHANGED <<m_deferredEventsQueue, response, body, writables, m_usListenSocket>>
           /\ UNCHANGED historyVars
  BY <1>9, BridgeUnchanged
<1> QED
  BY <1>1, <1>2, <1>3, <1>4, <1>5, <1>6, <1>7, <1>8, <1>9
  DEF Next, Accept, WriteResponse, WriteResponseHead, AddRoute, Poll, PollingUpdate, Drained,
      ProcessDeferredEventsDone, vars, serverVars, httpVars

LEMMA HttpInvariant == Spec => [](TypeInv /\ PointersInv /\ ConnectionInv /\ BridgeInv)
<1>1. Init => PointersInv /\ ConnectionInv
  BY RequestsAssumption
  DEF Init, PointersInv, ResponseType, PointersToPendingResponses, ConnectionInv
<1>2. Init => BridgeInv
  <2> SUFFICES ASSUME Init PROVE BridgeInv
    OBVIOUS
  <2>1. m_deferredEventsQueue = <<>> /\ m_usListenSocket = nullptr
    BY DEF Init, ServerInit
  <2>2. Len(m_deferredEventsQueue) = 0 /\ 1..0 = {}
    BY <2>1
  <2>3. StartFirst(m_deferredEventsQueue) /\ ListensFirst(m_deferredEventsQueue, status)
    BY <2>2 DEF StartFirst, Bracketed, ListensFirst
  <2>4. ASSUME NEW r \in Requests
        PROVE  Request(m_deferredEventsQueue, response[r], body[r], writables[r], phase[r],
                       received[r], writable[r], r)
    <3>1. /\ response[r] = "none" /\ phase[r] = "unknown" /\ body[r].chunks = 0
          /\ writables[r] = 0 /\ received[r] = 0 /\ writable[r] = 0
      BY DEF Init
    <3>2. Life(m_deferredEventsQueue, "none", "unknown", r)
      BY <2>2 DEF Life, Has, Mentions
    <3>3. Ends(m_deferredEventsQueue, body[r], "unknown", 0, r)
      BY <2>2 DEF Ends
    <3>4. Numbered(m_deferredEventsQueue, Chunk, 0, 0, r) /\ Numbered(m_deferredEventsQueue, Writable, 0, 0, r)
      BY <2>2 DEF Numbered
    <3> QED BY <3>1, <3>2, <3>3, <3>4 DEF Request
  <2> QED BY <2>1, <2>3, <2>4 DEF BridgeInv, Bridges
<1>3. /\ TypeInv /\ PointersInv /\ ConnectionInv /\ BridgeInv
      /\ [Next]_vars
      => (TypeInv /\ PointersInv /\ ConnectionInv /\ BridgeInv)'
  BY TypeStep, PointersStep, ConnectionStep, BridgeStep DEF TypeInv
<1> QED BY <1>1, <1>2, <1>3, TypeInit, PTL DEF Spec

-----------------------------------------------------------------------------
(* The refinement: every step is a step of HttpEvents or a stutter.        *)
LEMMA EventRefines ==
    ASSUME TypeInv, BridgeInv, OnEvent
    PROVE  Handlers!Next
<1> DEFINE q == m_deferredEventsQueue
           p == m_deferredEventsQueue'
           e == q[1]
<1>1. Shifts(q, p) /\ e \in Event /\ OnEvent!(e) /\ status' = Reported(status, e.type)
  BY EventTells
<1>2. /\ StartFirst(q) /\ ListensFirst(q, status)
      /\ \A s \in Requests : Request(q, response[s], body[s], writables[s], phase[s], received[s], writable[s], s)
  BY DEF BridgeInv, Bridges
<1>3. \A s \in Requests : /\ body[s].chunks \in Nat /\ writables[s] \in Nat
                          /\ received[s] \in Nat /\ writable[s] \in Nat /\ phase[s] \in Phases
  BY RequestTypes
<1>4. /\ phase' = CASE e.type = "HTTP_START" -> [phase EXCEPT ![e.clientID] = "started"]
                    [] e.type = "HTTP_END" -> [phase EXCEPT ![e.clientID] = "finished"]
                    [] e.type = "HTTP_ABORT" -> [phase EXCEPT ![e.clientID] = "aborted"]
                    [] OTHER -> phase
      /\ received' = IF e.type \in {"HTTP_DATA", "HTTP_END"}
                     THEN [received EXCEPT ![e.clientID] = e.n] ELSE received
      /\ writable' = IF e.type = "HTTP_WRITABLE"
                     THEN [writable EXCEPT ![e.clientID] = e.n] ELSE writable
  BY <1>1
<1>5. /\ e.type \in {"LISTEN", "SHUTDOWN", "HTTP_START", "HTTP_ABORT", "HTTP_WRITABLE",
                     "HTTP_DATA", "HTTP_END"}
      /\ e.type \in {"LISTEN", "SHUTDOWN"} <=> e.clientID \notin Requests
      /\ e.type \in {"LISTEN", "SHUTDOWN"} => e.clientID = SERVER
  BY <1>1, EventFields
<1>6. 1 \in 1..Len(q) /\ 1..(1 - 1) = {}
  BY <1>1 DEF Shifts
<1> DEFINE r == e.clientID
<1> HIDE DEF p, q, r
<1>7. ASSUME e.type \notin {"LISTEN", "SHUTDOWN"}
      PROVE  r \in Requests /\ Allowed(e, p, response[r], body[r], writables[r], phase[r], received[r], writable[r], r)
  <2>1. r \in Requests /\ q[1].clientID = r /\ Shifts(q, p) /\ StartFirst(q) /\ q[1] \in Event
    BY <1>1, <1>2, <1>5, <1>7 DEF r
  <2>2. /\ Request(q, response[r], body[r], writables[r], phase[r], received[r], writable[r], r)
        /\ body[r].chunks \in Nat /\ writables[r] \in Nat
        /\ received[r] \in Nat /\ writable[r] \in Nat /\ phase[r] \in Phases
    BY <1>2, <1>3, <2>1
  <2> QED BY <2>1, <2>2, ShiftsRequest, Zenon
<1>8. ASSUME e.type = "SHUTDOWN" PROVE status = "listening"
  <2>1. At(q, 1, "SHUTDOWN", SERVER)
    BY <1>5, <1>8 DEF At
  <2>2. ListeningAt(q, status, 1)
    BY <1>2, <1>6, <2>1 DEF ListensFirst
  <2> QED BY <1>6, <2>2 DEF ListeningAt
<1> HIDE DEF e
<1>9. CASE e.type = "HTTP_START"
  <2>1. Handlers!HTTP_REQUEST_STARTED(r) /\ r \in Requests
    BY <1>1, <1>4, <1>7, <1>9 DEF Handlers!HTTP_REQUEST_STARTED, Reported, Allowed, r
  <2> QED BY <2>1 DEF Handlers!Next
<1>10. CASE e.type = "HTTP_DATA"
  <2>1. Handlers!HTTP_DATA_RECEIVED(r) /\ r \in Requests
    BY <1>1, <1>4, <1>7, <1>10 DEF Handlers!HTTP_DATA_RECEIVED, Reported, Allowed, r
  <2> QED BY <2>1 DEF Handlers!Next
<1>11. CASE e.type = "HTTP_END"
  <2>1. Handlers!HTTP_REQUEST_FINISHED(r) /\ r \in Requests
    BY <1>1, <1>4, <1>7, <1>11 DEF Handlers!HTTP_REQUEST_FINISHED, Reported, Allowed, r
  <2> QED BY <2>1 DEF Handlers!Next
<1>12. CASE e.type = "HTTP_ABORT"
  <2>1. Handlers!HTTP_CONNECTION_ABORTED(r) /\ r \in Requests
    BY <1>1, <1>4, <1>7, <1>12 DEF Handlers!HTTP_CONNECTION_ABORTED, Reported, Allowed, r
  <2> QED BY <2>1 DEF Handlers!Next
<1>13. CASE e.type = "HTTP_WRITABLE"
  <2>1. Handlers!HTTP_CONNECTION_WRITABLE(r) /\ r \in Requests
    BY <1>1, <1>4, <1>7, <1>13 DEF Handlers!HTTP_CONNECTION_WRITABLE, Reported, Allowed, r
  <2> QED BY <2>1 DEF Handlers!Next
<1>14. CASE e.type = "LISTEN"
  <2>1. Handlers!SERVER_STARTED_LISTENING
    BY <1>1, <1>4, <1>14 DEF Handlers!SERVER_STARTED_LISTENING, Reported
  <2> QED BY <2>1 DEF Handlers!Next
<1>15. CASE e.type = "SHUTDOWN"
  <2>1. Handlers!SERVER_STOPPED_LISTENING
    BY <1>1, <1>4, <1>8, <1>15 DEF Handlers!SERVER_STOPPED_LISTENING, Reported
  <2> QED BY <2>1 DEF Handlers!Next
<1> QED BY <1>5, <1>9, <1>10, <1>11, <1>12, <1>13, <1>14, <1>15

(* The Lua handlers are called in the order HttpEvents promises: the       *)
(* events of a request in sequence, none lost, repeated or reordered, and  *)
(* nothing after an abort, whatever the handlers themselves do.            *)
THEOREM HandlersSeeEventsInOrder == Spec => EventContract
<1>1. Init => Handlers!Init
  BY DEF Init, Handlers!Init
<1>2. ASSUME TypeInv, BridgeInv, [Next]_vars PROVE [Handlers!Next]_(Handlers!vars)
  <2>1. CASE OnEvent
    BY <1>2, <2>1, EventRefines
  <2>2. CASE UNCHANGED historyVars
    BY <2>2 DEF historyVars, Handlers!vars
  <2> QED
    BY <1>2, <2>1, <2>2
    DEF Next, Accept, OnRequest, OnData, OnConnectionWritable, Disconnect, WriteResponse,
        WriteResponseHead, EndResponse, TryEndResponse, AddRoute, Start, StopListening, Poll,
        Drained, vars
<1> QED
  BY <1>1, <1>2, HttpInvariant, PTL DEF Spec, EventContract, Handlers!Spec
=============================================================================
