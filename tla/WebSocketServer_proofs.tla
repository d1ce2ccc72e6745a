------------------------ MODULE WebSocketServer_proofs ------------------------
(* Proofs about the WebSocket server, for any number of clients, messages,  *)
(* listen sockets and nested drains.                                        *)
EXTENDS WebSocketServer, WebServer_proofs, FiniteSetTheorems, SequenceTheorems, TLAPS

(* The entries of the map form a finite set, so an iteration has an end. *)
LEMMA LiveClientsFinite ==
    Cardinality(LiveClients) \in Nat
<1>1. LiveClients \subseteq Clients
    BY DEF LiveClients
<1>2. IsFiniteSet(LiveClients)
    BY <1>1, ClientsAssumption, FS_Subset
<1> QED
    BY <1>2, FS_CardinalityType

(* The events that DisconnectAllClients queues are CLOSE events. *)
LEMMA CloseEventsType ==
    ASSUME NEW order \in Orders(LiveClients)
    PROVE  /\ CloseEvents(order) \in Seq(Event)
           /\ Len(CloseEvents(order)) = Cardinality(LiveClients)
           /\ \A i \in 1..Cardinality(LiveClients) :
                CloseEvents(order)[i] = DeferredEvent("CLOSE", order[i], 0, 0)
<1> DEFINE n == Cardinality(LiveClients)
<1>1. n \in Nat
    BY LiveClientsFinite
<1>2. order \in [1..n -> LiveClients]
    BY DEF Orders
<1>3. CloseEvents(order) = [i \in 1..n |-> DeferredEvent("CLOSE", order[i], 0, 0)]
    BY <1>2 DEF CloseEvents
<1>4. \A i \in 1..n : DeferredEvent("CLOSE", order[i], 0, 0) \in Event
    BY <1>2 DEF DeferredEvent, Event, LiveClients
<1> HIDE DEF n
<1>5. CloseEvents(order) \in [1..n -> Event]
    BY <1>3, <1>4
<1> QED
    BY <1>1, <1>3, <1>5 DEF n

(* The type invariant holds in every state. *)
THEOREM TypeCorrect == Spec => []TypeOK
<1>1. Init => TypeOK
  <2>1. Init => ServerTypeOK
      BY BoundsAssumption DEF Init, ServerInit, ServerTypeOK, nullptr
  <2>2. Init => m_deferredEventsQueue \in Seq(Event)
      BY DEF Init, ServerInit
  <2>3. Init => m_isEchoServer \in BOOLEAN
      BY DEF Init
  <2>4. Init => TypeOK!3 /\ TypeOK!4 /\ TypeOK!6 /\ TypeOK!7 /\ TypeOK!8 /\ TypeOK!9
                /\ TypeOK!10 /\ TypeOK!11
      BY PayloadAssumption DEF Init
  <2> QED
      BY <2>1, <2>2, <2>3, <2>4 DEF TypeOK
<1>2. TypeOK /\ [Next]_vars => TypeOK'
  <2> SUFFICES ASSUME TypeOK, [Next]_vars PROVE TypeOK'
      OBVIOUS
  <2> USE BoundsAssumption, PayloadAssumption, ClientsAssumption
  <2>a. ServerTypeOK /\ m_deferredEventsQueue \in Seq(Event)
      BY DEF TypeOK
  <2>1. ASSUME NEW c \in Clients, Accept(c) PROVE TypeOK'
      BY <2>1 DEF TypeOK, ServerTypeOK, Accept, serverVars, loopVars, historyVars
  <2>2. ASSUME NEW c \in Clients, OnWebSocketOpen(c) PROVE TypeOK'
    <3>1. DeferredEvent("OPEN", c, 0, 0) \in Event
        BY DEF DeferredEvent, Event
    <3>2. m_deferredEventsQueue' \in Seq(Event)
        BY <2>2, <3>1 DEF TypeOK, OnWebSocketOpen, emplace
    <3> QED
        BY <2>2, <3>2 DEF TypeOK, ServerTypeOK, OnWebSocketOpen, serverVars, loopVars, historyVars
  <2>3. ASSUME NEW c \in Clients, NEW size \in PayloadSizes, OnWebSocketMessage(c, size)
        PROVE TypeOK'
    <3>1. DeferredEvent("MESSAGE", c, sent[c] + 1, size) \in Event
        BY DEF DeferredEvent, Event, TypeOK
    <3>2. m_deferredEventsQueue' \in Seq(Event)
        BY <2>3, <3>1 DEF TypeOK, OnWebSocketMessage, emplace
    <3> QED
        BY <2>3, <3>2 DEF TypeOK, ServerTypeOK, OnWebSocketMessage, serverVars, loopVars, historyVars
  <2>4. ASSUME NEW c \in Clients, Disconnect(c) PROVE TypeOK'
    <3>1. DeferredEvent("CLOSE", c, 0, 0) \in Event
        BY DEF DeferredEvent, Event
    <3>2. m_deferredEventsQueue' \in Seq(Event)
        BY <2>4, <3>1 DEF TypeOK, Disconnect, OnWebSocketClose, emplace
    <3> QED
        BY <2>4, <3>2 DEF TypeOK, ServerTypeOK, Disconnect, OnWebSocketClose, serverVars, loopVars, historyVars
  <2>5. ASSUME NEW c \in Clients, SendToClient(c) PROVE TypeOK'
      BY <2>5 DEF TypeOK, ServerTypeOK, SendToClient, serverVars, loopVars, socketVars, historyVars
  <2>6. CASE Start
    <3>1. ServerEvent("LISTEN") \in Event
        BY DEF ServerEvent, DeferredEvent, Event
    <3>2. pollingUpdateTimer' = "active" /\ UNCHANGED drains
        BY <2>6 DEF Start, StartListening
    <3>3. CASE ListenFails
        BY <2>6, <2>a, <3>2, <3>3 DEF ListenFails, TypeOK, ServerTypeOK, Start, serverVars,
                                      socketVars, historyVars
    <3>4. CASE ListenSucceeds
      <4>1. ServerTypeOK'
          BY <2>a, <3>2, <3>4 DEF ServerTypeOK, ListenSucceeds
      <4>2. m_deferredEventsQueue' \in Seq(Event)
          BY <2>a, <3>1, <3>4 DEF ListenSucceeds, emplace
      <4> QED
          BY <2>6, <4>1, <4>2 DEF TypeOK, Start, socketVars, historyVars
    <3> QED
        BY <2>6, <3>3, <3>4 DEF Start, StartListening
  <2>7. CASE StopListening
    <3>1. m_deferredEventsQueue' \in Seq(Event)
      <4>1. CASE m_usListenSocket = nullptr
          BY <2>7, <4>1 DEF TypeOK, StopListening
      <4>2. CASE m_usListenSocket # nullptr
        <5>1. PICK order \in Orders(LiveClients) : DisconnectAllClients(order)
            BY <2>7, <4>2 DEF StopListening
        <5>2. <<ServerEvent("SHUTDOWN")>> \in Seq(Event)
            BY DEF ServerEvent, DeferredEvent, Event
        <5>3. m_deferredEventsQueue \o CloseEvents(order) \in Seq(Event)
            BY CloseEventsType, ConcatProperties DEF TypeOK
        <5> QED
            BY <5>1, <5>2, <5>3, ConcatProperties DEF DisconnectAllClients
      <4> QED
          BY <4>1, <4>2
    <3>2. ServerTypeOK'
      <4>1. StopPolling
          BY <2>7 DEF StopListening
      <4>2. CASE UNCHANGED serverVars
          BY <2>a, <4>1, <4>2 DEF ServerTypeOK, StopPolling, serverVars
      <4>3. CASE us_listen_socket_close
          BY <2>a, <4>1, <4>3 DEF ServerTypeOK, StopPolling, us_listen_socket_close, nullptr
      <4> QED
          BY <2>7, <4>2, <4>3 DEF StopListening
    <3>3. socket' \in [Clients -> {"none", "connected", "open", "closed"}]
        BY <2>7 DEF TypeOK, StopListening, DisconnectAllClients
    <3>4. m_websocketClientsMap' \in [Clients -> {"absent", "nullptr", "websocket"}]
        BY <2>7 DEF TypeOK, StopListening, DisconnectAllClients, PurgeFadedClients
    <3> QED
        BY <2>7, <3>1, <3>2, <3>3, <3>4 DEF TypeOK, StopListening, historyVars
  <2>8. ASSUME NEW enabledFlag \in BOOLEAN, SetEchoMode(enabledFlag) PROVE TypeOK'
      BY <2>8 DEF TypeOK, ServerTypeOK, SetEchoMode, serverVars, loopVars, socketVars, historyVars
  <2>9. CASE Broadcast
      BY <2>9 DEF TypeOK, ServerTypeOK, Broadcast, serverVars, loopVars, socketVars, historyVars
  <2>10. CASE Poll
      BY <2>10 DEF TypeOK, ServerTypeOK, Poll, PollingUpdate, PurgeFadedClients, serverVars, historyVars
  <2>11. CASE OnEvent
    <3>1. PICK event \in {m_deferredEventsQueue[i] : i \in DOMAIN m_deferredEventsQueue} :
             OnEvent!(event)
        BY <2>11 DEF OnEvent
    <3>2. event \in Event
        BY <3>1, ElementOfSeq DEF TypeOK
    <3>3. m_deferredEventsQueue' \in Seq(Event)
        BY <3>1 DEF TypeOK, GetNextDeferredEvent, HasDeferredEvents
    <3>4. phase' \in [Clients -> {"unknown", "established", "closed"}]
        BY <3>1, <3>2 DEF TypeOK, Event
    <3>5. received' \in [Clients -> Nat]
        BY <3>1, <3>2 DEF TypeOK, Event
    <3>6. shortened' \subseteq PayloadSizes
      <4>1. CASE event.size \in PayloadSizes
          BY <3>1, <4>1 DEF TypeOK
      <4>2. CASE event.size = 0
          BY <3>1, <4>2 DEF TypeOK, PayloadLength
      <4> QED
          BY <4>1, <4>2, <3>2 DEF Event
    <3>7. status' \in {"stopped", "listening"}
        BY <3>1 DEF TypeOK
    <3> QED
        BY <3>1, <3>3, <3>4, <3>5, <3>6, <3>7
        DEF TypeOK, ServerTypeOK, GetNextDeferredEvent, serverVars, loopVars, socketVars
  <2>12. CASE Drained
      BY <2>12 DEF TypeOK, ServerTypeOK, Drained, ProcessDeferredEventsDone, serverVars,
                   socketVars, historyVars
  <2>13. CASE UNCHANGED vars
      BY <2>13 DEF TypeOK, ServerTypeOK, vars, serverVars, loopVars, socketVars, historyVars
  <2> QED
      BY <2>1, <2>2, <2>3, <2>4, <2>5, <2>6, <2>7, <2>8, <2>9, <2>10, <2>11, <2>12, <2>13
      DEF Next
<1> QED
    BY <1>1, <1>2, PTL DEF Spec

-----------------------------------------------------------------------------
(* Pointers.                                                               *)

(* A step keeps the pointers in line with the open sockets. *)
LEMMA NoDanglingStep ==
    ASSUME TypeOK, NoDanglingPointers, [Next]_vars
    PROVE  NoDanglingPointers'
<1> USE DEF TypeOK, NoDanglingPointers
<1>1. ASSUME NEW c \in Clients, Accept(c) PROVE NoDanglingPointers'
    BY <1>1 DEF Accept
<1>2. ASSUME NEW c \in Clients, OnWebSocketOpen(c) PROVE NoDanglingPointers'
    BY <1>2 DEF OnWebSocketOpen
<1>3. ASSUME NEW c \in Clients, NEW size \in PayloadSizes, OnWebSocketMessage(c, size)
      PROVE NoDanglingPointers'
    BY <1>3 DEF OnWebSocketMessage
<1>4. ASSUME NEW c \in Clients, Disconnect(c) PROVE NoDanglingPointers'
    BY <1>4 DEF Disconnect, OnWebSocketClose
<1>5. CASE StopListening
  <2>1. CASE m_usListenSocket = nullptr
      BY <1>5, <2>1 DEF StopListening, PurgeFadedClients
  <2>2. CASE m_usListenSocket # nullptr
    <3>1. socket' = [c \in Clients |-> IF c \in LiveClients THEN "closed" ELSE socket[c]]
        BY <1>5, <2>2 DEF StopListening, DisconnectAllClients
    <3>2. m_websocketClientsMap' = [c \in Clients |-> "absent"]
        BY <1>5, <2>2 DEF StopListening, DisconnectAllClients
    <3> QED
        BY <3>1, <3>2 DEF LiveClients
  <2> QED
      BY <2>1, <2>2
<1>6. CASE Poll
    BY <1>6 DEF Poll, PurgeFadedClients
<1>7. CASE UNCHANGED socketVars
    BY <1>7 DEF socketVars
<1> QED
    BY <1>1, <1>2, <1>3, <1>4, <1>5, <1>6, <1>7
    DEF Next, SendToClient, Start, SetEchoMode, Broadcast, OnEvent, Drained, vars

(* The server points to exactly the WebSockets that are open. *)
THEOREM PointersAreValid == Spec => []NoDanglingPointers
<1>1. Init => NoDanglingPointers
    BY DEF Init, NoDanglingPointers
<1> QED
    BY <1>1, NoDanglingStep, TypeCorrect, PTL DEF Spec

(* Frames are only ever written to WebSockets that are open. *)
THEOREM FramesReachOpenSockets == Spec => FramesOnlyToOpenSockets
<1>1. ASSUME TypeOK, NoDanglingPointers, [Next]_vars
      PROVE  [\A c \in transmitted' : socket[c] = "open"]_vars
  <2> USE DEF NoDanglingPointers
  <2>1. ASSUME NEW c \in Clients, NEW size \in PayloadSizes, OnWebSocketMessage(c, size)
        PROVE  \A d \in transmitted' : socket[d] = "open"
    <3>1. transmitted' \subseteq {c} /\ socket[c] = "open"
        BY <2>1 DEF OnWebSocketMessage
    <3> QED
        BY <3>1
  <2>2. ASSUME NEW c \in Clients, SendToClient(c)
        PROVE  \A d \in transmitted' : socket[d] = "open"
    <3>1. transmitted' = {} \/ (transmitted' = {c} /\ m_websocketClientsMap[c] = "websocket")
        BY <2>2 DEF SendToClient, FindClientByID
    <3> QED
        BY <1>1, <3>1
  <2>3. CASE Broadcast
      BY <1>1, <2>3 DEF Broadcast, FindClientByID
  <2>4. CASE transmitted' = {}
      BY <2>4
  <2> QED
      BY <1>1, <2>1, <2>2, <2>3, <2>4
      DEF Next, Accept, OnWebSocketOpen, Disconnect, Start, StopListening, SetEchoMode,
          Poll, OnEvent, Drained
<1> QED
    BY <1>1, TypeCorrect, PointersAreValid, PTL DEF Spec, FramesOnlyToOpenSockets

-----------------------------------------------------------------------------
(* The queue between the sockets and the handlers.  The parts of           *)
(* QueueBridgesSocketsAndHandlers are restated here about the values of    *)
(* the variables, so that the lemmas about queues mention no state.        *)

OpenFirst(q) == Bracketed(q, Clients, "OPEN", "CLOSE")

Life(q, sk, ph, c) ==
    /\ Has(q, "OPEN", c) <=> ph = "unknown" /\ sk \in {"open", "closed"}
    /\ Has(q, "CLOSE", c) <=> ph # "closed" /\ sk = "closed"
    /\ Has(q, "MESSAGE", c) => ph # "closed" /\ sk \in {"open", "closed"}
    /\ ph = "established" => sk \in {"open", "closed"}
    /\ ph = "closed" => sk = "closed"

ClosedBefore(q, ph, s) ==
    \A c \in Clients :
        ph[c] = "established" \/ (\E i \in 1..(s - 1) : At(q, i, "OPEN", c))
            => \E j \in 1..(s - 1) : At(q, j, "CLOSE", c)

Shutdowns(q, ph) ==
    \A s \in 1..Len(q) : At(q, s, "SHUTDOWN", SERVER) => ClosedBefore(q, ph, s)

LEMMA MessageAt ==
    ASSUME NEW q, NEW i, NEW c
    PROVE  Of(q, i, {"MESSAGE"}, c) <=> At(q, i, "MESSAGE", c)
BY DEF Of, At

(* The restatements say what the invariant says. *)
LEMMA Restated ==
    ASSUME TypeOK
    PROVE  QueueBridgesSocketsAndHandlers <=>
              /\ OpenFirst(m_deferredEventsQueue)
              /\ \A c \in Clients : Life(m_deferredEventsQueue, socket[c], phase[c], c)
              /\ \A c \in Clients : socket[c] \in {"none", "connected"} => sent[c] = 0
              /\ \A c \in Clients : Numbered(m_deferredEventsQueue, {"MESSAGE"}, received[c], sent[c], c)
              /\ Shutdowns(m_deferredEventsQueue, phase)
              /\ ListensFirst(m_deferredEventsQueue, status)
              /\ m_usListenSocket # nullptr =>
                    ListeningAt(m_deferredEventsQueue, status, Len(m_deferredEventsQueue) + 1)
<1> DEFINE q == m_deferredEventsQueue
           n == Len(q)
<1>1. n \in Nat /\ DOMAIN q = 1..n
  BY DEF TypeOK
<1> HIDE DEF n
<1>2. \A i \in 1..n : \A type, c : Queued(i, type, c) <=> At(q, i, type, c)
  BY <1>1 DEF Queued, At
<1>3. OpenFirstCloseLast <=> OpenFirst(q)
  BY <1>1 DEF OpenFirstCloseLast, OpenFirst, Bracketed, n
<1>4. LifecycleQueued <=> \A c \in Clients : Life(q, socket[c], phase[c], c)
  BY <1>1, <1>2 DEF LifecycleQueued, Life, Has, n
<1>5. MessagesQueued <=> /\ \A c \in Clients : socket[c] \in {"none", "connected"} => sent[c] = 0
                         /\ \A c \in Clients : Numbered(q, {"MESSAGE"}, received[c], sent[c], c)
  <2>1. \A i \in 1..n : \A c : Queued(i, "MESSAGE", c) <=> Of(q, i, {"MESSAGE"}, c)
    BY <1>2, MessageAt
  <2> QED BY <1>1, <2>1, Zenon DEF MessagesQueued, Numbered, n
<1>6. ShutdownAfterCloses <=> Shutdowns(q, phase)
  <2>1. \A s \in 1..n : \A i \in 1..(s - 1) : i \in 1..n
    BY <1>1
  <2> QED BY <1>1, <1>2, <2>1, Zenon DEF ShutdownAfterCloses, Shutdowns, ClosedBefore, n
<1>7. ListenBeforeShutdown!1 <=> ListensFirst(q, status)
  <2>1. \A s \in 1..n : \A i \in 1..(s - 1) : i \in 1..n
    BY <1>1
  <2>2. \A s \in 1..n : \A k \in 1..(s - 1) : \A m \in k..(s - 1) : m \in 1..n
    BY <1>1
  <2> QED BY <1>1, <1>2, <2>1, <2>2, Zenon DEF ListensFirst, ListeningAt, n
<1>8. ListenBeforeShutdown!2 <=> (m_usListenSocket # nullptr => ListeningAt(q, status, n + 1))
  <2>1. (n + 1) - 1 = n
    BY <1>1
  <2>2. \A k \in 1..n : \A m : m \in k..n <=> m = k \/ (m \in 1..n /\ m > k)
    BY <1>1
  <2>3. \A k \in 1..n : At(q, k, "LISTEN", SERVER) => ~At(q, k, "SHUTDOWN", SERVER)
    BY DEF At
  <2> QED BY <1>1, <1>2, <2>1, <2>2, <2>3, Zenon DEF ListeningAt
<1> QED BY <1>3, <1>4, <1>5, <1>6, <1>7, <1>8 DEF QueueBridgesSocketsAndHandlers, ListenBeforeShutdown, n

(* What an event is about. *)
LEMMA EventFields ==
    ASSUME NEW e \in Event
    PROVE  /\ e.type \in {"OPEN", "CLOSE", "MESSAGE", "LISTEN", "SHUTDOWN"}
           /\ e.type \in {"OPEN", "CLOSE", "MESSAGE"} <=> e.clientID \in Clients
           /\ e.type \in {"LISTEN", "SHUTDOWN"} <=> e.clientID = SERVER
           /\ e.n \in Nat
BY ClientsAssumption DEF Event

-----------------------------------------------------------------------------
(* Events are appended, or the first one is handed over.                   *)

(* A SHUTDOWN keeps what precedes it, whatever is appended. *)
LEMMA GrowsShutdowns ==
    ASSUME NEW q, NEW p, Grows(q, p), NEW ph, Shutdowns(q, ph),
           \A j \in Added(q, p) : At(p, j, "SHUTDOWN", SERVER) => ClosedBefore(p, ph, j)
    PROVE  Shutdowns(p, ph)
<1> SUFFICES ASSUME NEW s \in 1..Len(p), At(p, s, "SHUTDOWN", SERVER)
             PROVE  ClosedBefore(p, ph, s)
  BY DEF Shutdowns
<1>1. CASE s \in 1..Len(q)
  <2>1. p[s] = q[s] /\ \A i \in 1..(s - 1) : p[i] = q[i]
    BY <1>1 DEF Grows
  <2>2. ClosedBefore(q, ph, s)
    BY <1>1, <2>1 DEF Shutdowns, At
  <2> QED BY <2>1, <2>2 DEF ClosedBefore, At
<1>2. CASE s \in Added(q, p)
  BY <1>2
<1> QED BY <1>1, <1>2 DEF Grows, Added

(* What the handler of the first event learns keeps what precedes a SHUTDOWN. *)
LEMMA ShiftsShutdowns ==
    ASSUME NEW q, NEW p, Shifts(q, p), NEW old, NEW new, Shutdowns(q, old),
           \A c \in Clients : At(q, 1, "CLOSE", c) =>
              new[c] # "established" /\ ~Has(p, "OPEN", c),
           \A c \in Clients : new[c] = "established" =>
              old[c] = "established" \/ At(q, 1, "OPEN", c)
    PROVE  Shutdowns(p, new)
<1> SUFFICES ASSUME NEW s \in 1..Len(p), At(p, s, "SHUTDOWN", SERVER), NEW c \in Clients,
                    new[c] = "established" \/ (\E i \in 1..(s - 1) : At(p, i, "OPEN", c))
             PROVE  \E j \in 1..(s - 1) : At(p, j, "CLOSE", c)
  BY DEF Shutdowns, ClosedBefore
<1>1. s + 1 \in 1..Len(q) /\ q[s + 1] = p[s] /\ (s + 1) - 1 = s /\ s \in Nat \ {0} /\ 1 \in 1..s
  BY DEF Shifts
<1>2. \A i \in 1..(s - 1) : i + 1 \in 1..s /\ q[i + 1] = p[i] /\ i \in 1..Len(p)
  BY DEF Shifts
<1>3. ClosedBefore(q, old, s + 1)
  BY <1>1 DEF Shutdowns, At
<1>4. old[c] = "established" \/ \E i \in 1..s : At(q, i, "OPEN", c)
  <2>1. CASE new[c] = "established"
    BY <1>1, <2>1
  <2>2. CASE \E i \in 1..(s - 1) : At(p, i, "OPEN", c)
    BY <1>2, <2>2 DEF At
  <2> QED BY <2>1, <2>2
<1>5. PICK j \in 1..s : At(q, j, "CLOSE", c)
  BY <1>1, <1>3, <1>4 DEF ClosedBefore
<1>6. j # 1
  BY <1>2, <1>5 DEF Has
<1>7. j - 1 \in 1..(s - 1) /\ (j - 1) + 1 = j
  BY <1>1, <1>6
<1>8. p[j - 1] = q[j]
  BY <1>2, <1>7
<1> QED BY <1>5, <1>7, <1>8 DEF At

-----------------------------------------------------------------------------
(* The steps.                                                              *)

(* An event of one client leaves the other clients alone. *)
LEMMA GrowsClient ==
    ASSUME NEW q, NEW p, Grows(q, p), NEW c, NEW sk, NEW ph, NEW rc \in Nat, NEW st \in Nat,
           Life(q, sk, ph, c), Numbered(q, {"MESSAGE"}, rc, st, c),
           \A j \in Added(q, p) : p[j].clientID # c
    PROVE  Life(p, sk, ph, c) /\ Numbered(p, {"MESSAGE"}, rc, st, c)
<1>1. \A j \in Added(q, p) : ~At(p, j, "OPEN", c) /\ ~At(p, j, "CLOSE", c) /\ ~At(p, j, "MESSAGE", c)
  BY DEF At
<1>2. Has(p, "OPEN", c) <=> Has(q, "OPEN", c)
  BY <1>1, GrowsHas
<1>3. Has(p, "CLOSE", c) <=> Has(q, "CLOSE", c)
  BY <1>1, GrowsHas
<1>4. Has(p, "MESSAGE", c) <=> Has(q, "MESSAGE", c)
  BY <1>1, GrowsHas
<1> QED BY <1>1, <1>2, <1>3, <1>4, GrowsNumbered, MessageAt DEF Life

(* An event of client c is appended to queue q, whose socket was sk and is *)
(* new, and whose handlers are in phase ph.                                *)
LEMMA AppendLife ==
    ASSUME NEW q \in Seq(Event), NEW e \in Event, NEW c \in Clients, e.clientID = c,
           OpenFirst(q), NEW sk, NEW new, NEW ph \in {"unknown", "established", "closed"},
           Life(q, sk, ph, c),
           \/ e.type = "OPEN" /\ sk = "connected" /\ new = "open"
           \/ e.type = "MESSAGE" /\ sk = "open" /\ new = "open"
           \/ e.type = "CLOSE" /\ sk = "open" /\ new = "closed"
    PROVE  OpenFirst(Append(q, e)) /\ Life(Append(q, e), new, ph, c)
<1> DEFINE p == Append(q, e)
           n == Len(q)
<1>1. n \in Nat /\ Grows(q, p) /\ Len(p) = n + 1 /\ p[n + 1] = e /\ Added(q, p) = {n + 1}
  BY Appended
<1> HIDE DEF p
<1>2. ~Has(q, "CLOSE", c) /\ (e.type = "OPEN" => ~Has(q, "OPEN", c) /\ ~Has(q, "MESSAGE", c))
  BY DEF Life
<1>3. ASSUME NEW i \in 1..n, q[i].clientID = c PROVE q[i].type # "CLOSE" /\ e.type # "OPEN"
  <2>1. q[i] \in Event
    OBVIOUS
  <2>2. q[i].type \in {"OPEN", "CLOSE", "MESSAGE"}
    BY <1>3, <2>1, EventFields
  <2> QED BY <1>2, <1>3, <2>2 DEF Has, At
<1> HIDE DEF n
<1>4. \A i \in 1..((n + 1) - 1) : i \in 1..n /\ p[i] = q[i]
  BY <1>1 DEF Grows, n
<1>5. OpenFirst(p)
  BY <1>1, <1>3, <1>4, GrowsBracketed DEF OpenFirst
<1>6. \A type \in {"OPEN", "CLOSE", "MESSAGE"} :
         Has(p, type, c) <=> Has(q, type, c) \/ e.type = type
  BY <1>1, GrowsHas DEF At
<1>7. Life(p, new, ph, c)
  BY <1>6 DEF Life
<1> QED BY <1>5, <1>7 DEF p

(* The first event of the queue is the next thing to happen to its client. *)
LEMMA ShiftsLife ==
    ASSUME NEW q, NEW p, Shifts(q, p), OpenFirst(q), NEW c \in Clients,
           q[1] \in Event, q[1].clientID = c,
           NEW sk, NEW ph \in {"unknown", "established", "closed"}, Life(q, sk, ph, c)
    PROVE  /\ q[1].type = "OPEN" => ph = "unknown" /\ Life(p, sk, "established", c)
           /\ q[1].type = "CLOSE" => ph = "established" /\ Life(p, sk, "closed", c)
           /\ q[1].type = "MESSAGE" => ph = "established" /\ Life(p, sk, ph, c)
<1>1. /\ Has(q, "OPEN", c) <=> q[1].type = "OPEN" \/ Has(p, "OPEN", c)
      /\ Has(q, "CLOSE", c) <=> q[1].type = "CLOSE" \/ Has(p, "CLOSE", c)
      /\ Has(q, "MESSAGE", c) <=> q[1].type = "MESSAGE" \/ Has(p, "MESSAGE", c)
  BY ShiftsHas DEF At
<1>2. /\ ~Has(p, "OPEN", c)
      /\ q[1].type = "CLOSE" => ~Has(p, "CLOSE", c) /\ ~Has(p, "MESSAGE", c)
  <2>1. ~Has(p, "OPEN", c) /\ (q[1].type = "CLOSE" => ~Mentions(p, c))
    BY ShiftsBracketed DEF OpenFirst
  <2> QED BY <2>1 DEF Mentions, Has, At
<1> QED BY <1>1, <1>2 DEF Life

(* ... and nothing to the other clients. *)
LEMMA ShiftsClient ==
    ASSUME NEW q, NEW p, Shifts(q, p), NEW c, q[1].clientID # c, NEW sk, NEW ph,
           NEW rc \in Nat, NEW st \in Nat, Life(q, sk, ph, c), Numbered(q, {"MESSAGE"}, rc, st, c)
    PROVE  Life(p, sk, ph, c) /\ Numbered(p, {"MESSAGE"}, rc, st, c)
<1>1. /\ Has(q, "OPEN", c) <=> Has(p, "OPEN", c)
      /\ Has(q, "CLOSE", c) <=> Has(p, "CLOSE", c)
      /\ Has(q, "MESSAGE", c) <=> Has(p, "MESSAGE", c)
  BY ShiftsHas DEF At
<1>2. Numbered(p, {"MESSAGE"}, rc, st, c)
  BY ShiftsNumbered, MessageAt DEF At
<1> QED BY <1>1, <1>2 DEF Life

(* Queue p is queue q with a CLOSE for every live client, then a SHUTDOWN. *)
Disconnects(q, p, order, k) ==
    /\ Grows(q, p) /\ k \in Nat /\ Len(p) = (Len(q) + k) + 1
    /\ \A i \in 1..k : p[Len(q) + i] = DeferredEvent("CLOSE", order[i], 0, 0)
    /\ p[(Len(q) + k) + 1] = ServerEvent("SHUTDOWN")

LEMMA DisconnectsQueue ==
    ASSUME NEW q \in Seq(Event), NEW order \in Orders(LiveClients)
    PROVE  Disconnects(q, q \o CloseEvents(order) \o <<ServerEvent("SHUTDOWN")>>,
                       order, Cardinality(LiveClients))
<1> DEFINE k == Cardinality(LiveClients)
           ce == CloseEvents(order)
           r == q \o ce
           p == r \o <<ServerEvent("SHUTDOWN")>>
<1>1. k \in Nat /\ ce \in Seq(Event) /\ Len(ce) = k
      /\ \A i \in 1..k : ce[i] = DeferredEvent("CLOSE", order[i], 0, 0)
  BY CloseEventsType, LiveClientsFinite
<1> HIDE DEF k, ce
<1>2. /\ r \in Seq(Event) /\ Len(r) = Len(q) + k
      /\ \A i \in 1..Len(q) : r[i] = q[i]
      /\ \A i \in 1..k : r[Len(q) + i] = ce[i]
  BY <1>1
<1> HIDE DEF r
<1>3. ServerEvent("SHUTDOWN") \in Event
  BY DEF ServerEvent, DeferredEvent, Event
<1> DEFINE e == ServerEvent("SHUTDOWN")
<1> HIDE DEF e
<1>4. p = Append(r, e)
  BY <1>2, <1>3 DEF e
<1>5. Len(q) \in Nat /\ Len(p) = Len(r) + 1 /\ (\A i \in 1..Len(r) : p[i] = r[i]) /\ p[Len(r) + 1] = e
  BY <1>2, <1>3, <1>4 DEF e
<1> HIDE DEF p
<1>6. Grows(q, p)
  BY <1>1, <1>2, <1>5 DEF Grows
<1>7. \A i \in 1..k : Len(q) + i \in 1..Len(r)
  BY <1>1, <1>2, <1>5
<1>8. \A i \in 1..k : p[Len(q) + i] = DeferredEvent("CLOSE", order[i], 0, 0)
  BY <1>1, <1>2, <1>5, <1>7
<1>9. Disconnects(q, p, order, k)
  BY <1>1, <1>2, <1>5, <1>6, <1>8 DEF Disconnects, e
<1> QED BY <1>9 DEF p, r, ce, k

(* The live clients, the sockets that are open, in the order of the map. *)
Enumerates(order, k, live, sk) ==
    /\ k \in Nat /\ order \in [1..k -> live]
    /\ \A i, j \in 1..k : order[i] = order[j] => i = j
    /\ \A c \in live : \E i \in 1..k : order[i] = c
    /\ live \subseteq Clients
    /\ \A c \in Clients : c \in live <=> sk[c] = "open"

Lives(q, sk, ph) == \A c \in Clients : Life(q, sk[c], ph[c], c)

Closes(live, sk, new) == \A c \in Clients : new[c] = IF c \in live THEN "closed" ELSE sk[c]

LEMMA DisconnectsBridge ==
    ASSUME NEW q, q \in Seq(Event), NEW p, NEW live, NEW k, NEW order, NEW sk, NEW new, NEW ph, NEW st,
           Disconnects(q, p, order, k), Enumerates(order, k, live, sk), Closes(live, sk, new),
           ph \in [Clients -> {"unknown", "established", "closed"}],
           OpenFirst(q), Lives(q, sk, ph),
           Shutdowns(q, ph), ListensFirst(q, st), ListeningAt(q, st, Len(q) + 1)
    PROVE  /\ OpenFirst(p)
           /\ Lives(p, new, ph)
           /\ \A j \in Added(q, p) : p[j].type # "MESSAGE"
           /\ Shutdowns(p, ph)
           /\ ListensFirst(p, st)
<1>0. /\ k \in Nat /\ order \in [1..k -> live]
      /\ \A i, j \in 1..k : order[i] = order[j] => i = j
      /\ \A c \in live : \E i \in 1..k : order[i] = c
      /\ live \subseteq Clients
      /\ \A c \in Clients : c \in live <=> sk[c] = "open"
      /\ \A c \in Clients : Life(q, sk[c], ph[c], c)
  BY DEF Enumerates, Lives
<1> USE <1>0
<1> DEFINE n == Len(q)
           last == (n + k) + 1
<1>1. n \in Nat /\ Len(p) = last /\ Grows(q, p) /\ last \in Nat /\ n + 1 <= last
  BY DEF Disconnects
<1>2. At(p, last, "SHUTDOWN", SERVER)
  BY DEF Disconnects, ServerEvent, DeferredEvent, At
<1>3. ASSUME NEW i \in 1..k PROVE At(p, n + i, "CLOSE", order[i])
  <2>1. p[n + i] = DeferredEvent("CLOSE", order[i], 0, 0)
    BY DEF Disconnects
  <2> QED BY <2>1 DEF DeferredEvent, At
<1> HIDE DEF n
<1>4. \A j \in Added(q, p) : j = last \/ (j - n \in 1..k /\ n + (j - n) = j)
  BY <1>1 DEF Added, n
<1>5. \A i \in 1..k : n + i \in Added(q, p) /\ n + i \in 1..(last - 1) /\ order[i] \in live /\ order[i] \in Clients
  BY <1>1 DEF Added, n
<1>6. last \in Added(q, p)
  BY <1>1 DEF Added, n
<1>7. \A i \in 1..n : p[i] = q[i] /\ i \in 1..(last - 1)
  BY <1>1 DEF Grows, n
<1>8. \A c \in live : ~Has(q, "CLOSE", c) /\ ph[c] # "closed"
  BY DEF Life
<1> HIDE DEF last
<1>9. SERVER \notin Clients
  BY ClientsAssumption
<1>10. \A j \in Added(q, p) : p[j].clientID \in Clients =>
          /\ j - n \in 1..k /\ n + (j - n) = j
          /\ p[j].type = "CLOSE" /\ p[j].clientID = order[j - n] /\ p[j].clientID \in live
  BY <1>2, <1>3, <1>4, <1>5, <1>9 DEF At
<1>11. OpenFirst(p)
  <2>1. ASSUME NEW j \in Added(q, p), NEW i \in 1..(j - 1),
               p[j].clientID \in Clients, p[i].clientID = p[j].clientID
        PROVE  p[i].type # "CLOSE" /\ p[j].type # "OPEN"
    <3>1. /\ j - n \in 1..k /\ p[j].type = "CLOSE" /\ p[j].clientID = order[j - n]
          /\ p[j].clientID \in live
      BY <1>10, <2>1
    <3>2. CASE i \in 1..n
      <4>1. ~Has(q, "CLOSE", p[j].clientID)
        BY <1>8, <3>1
      <4> QED BY <1>7, <2>1, <3>1, <3>2, <4>1 DEF Has, At, n
    <3>3. CASE i \in Added(q, p)
      <4>1. i - n \in 1..k /\ p[i].clientID = order[i - n]
        BY <1>10, <2>1, <3>3
      <4>2. i - n = j - n
        BY <2>1, <3>1, <4>1
      <4>3. i \in Int /\ j \in Int /\ i < j
        BY <1>1, <2>1 DEF Added, n
      <4> QED BY <1>1, <4>2, <4>3
    <3>4. i \in 1..n \/ i \in Added(q, p)
      BY <1>1 DEF Added, n
    <3> QED BY <3>2, <3>3, <3>4
  <2> QED BY <1>1, <2>1, GrowsBracketed DEF OpenFirst
<1>12. ASSUME NEW c \in Clients
       PROVE  Life(p, new[c], ph[c], c)
  <2>1. \A j \in Added(q, p) : ~At(p, j, "OPEN", c) /\ ~At(p, j, "MESSAGE", c)
    BY <1>10 DEF At
  <2>2. (\E j \in Added(q, p) : At(p, j, "CLOSE", c)) <=> c \in live
    BY <1>3, <1>5, <1>10 DEF At
  <2>3. /\ Has(p, "OPEN", c) <=> Has(q, "OPEN", c)
        /\ Has(p, "MESSAGE", c) <=> Has(q, "MESSAGE", c)
        /\ Has(p, "CLOSE", c) <=> Has(q, "CLOSE", c) \/ c \in live
    BY <1>1, <2>1, <2>2, GrowsHas
  <2>4. /\ Life(q, sk[c], ph[c], c) /\ (c \in live <=> sk[c] = "open")
        /\ new[c] = IF c \in live THEN "closed" ELSE sk[c]
    BY DEF Closes
  <2> QED BY <1>8, <2>3, <2>4 DEF Life
<1>13. \A j \in Added(q, p) : p[j].type # "MESSAGE"
  BY <1>2, <1>3, <1>4 DEF At
<1>14. \A j \in Added(q, p) : At(p, j, "SHUTDOWN", SERVER) => j = last
  BY <1>3, <1>4 DEF At
<1>15. ClosedBefore(p, ph, last)
  <2> SUFFICES ASSUME NEW c \in Clients,
                      ph[c] = "established" \/ (\E i \in 1..(last - 1) : At(p, i, "OPEN", c))
               PROVE  \E j \in 1..(last - 1) : At(p, j, "CLOSE", c)
    BY DEF ClosedBefore
  <2>1. CASE c \in live
    BY <1>3, <1>5, <2>1
  <2>2. CASE c \notin live
    <3>1. ph[c] = "established" \/ Has(q, "OPEN", c)
      <4>1. ASSUME NEW i \in 1..(last - 1), At(p, i, "OPEN", c) PROVE Has(q, "OPEN", c)
        <5>1. i \in 1..n \/ i \in Added(q, p)
          BY <1>1 DEF Added, n
        <5>2. i \notin Added(q, p)
          BY <1>10, <4>1 DEF At
        <5> QED BY <1>7, <4>1, <5>1, <5>2 DEF Has, At, n
      <4> QED BY <4>1
    <3>2. Has(q, "CLOSE", c)
      BY <2>2, <3>1 DEF Life
    <3> QED BY <1>7, <3>2 DEF Has, At, n
  <2> QED BY <2>1, <2>2
<1>16. Shutdowns(p, ph)
  BY <1>1, <1>14, <1>15, GrowsShutdowns
<1>17. ListeningAt(p, st, last)
  <2>1. n + 1 \in 1..(Len(q) + 1) /\ n + 1 \in Nat \ {0} /\ last \in Nat \ {0}
    BY <1>1 DEF n
  <2>2. ListeningAt(p, st, n + 1)
    BY <1>1, <2>1, GrowsListening DEF n
  <2>3. \A m \in (n + 1)..(last - 1) : m \in Added(q, p) /\ m # last
    BY <1>1 DEF Added, n
  <2>4. \A m \in (n + 1)..(last - 1) : ~At(p, m, "SHUTDOWN", SERVER)
    BY <1>14, <2>3
  <2> QED BY <1>1, <2>1, <2>2, <2>4, ListeningOver
<1>18. ListensFirst(p, st)
  BY <1>1, <1>14, <1>17, GrowsListensFirst
<1> QED BY <1>11, <1>12, <1>13, <1>16, <1>18 DEF Lives

-----------------------------------------------------------------------------
(* The inductive invariant, about the values of the variables: queue q,    *)
(* sockets sk, handlers' phases ph, messages handled rc and sent st,       *)
(* status, and listen socket ls.                                           *)
Bridges(q, sk, ph, rc, st, stat, ls) ==
    /\ OpenFirst(q)
    /\ \A c \in Clients : Life(q, sk[c], ph[c], c)
    /\ \A c \in Clients : sk[c] \in {"none", "connected"} => st[c] = 0
    /\ \A c \in Clients : Numbered(q, {"MESSAGE"}, rc[c], st[c], c)
    /\ Shutdowns(q, ph)
    /\ ListensFirst(q, stat)
    /\ ls # nullptr => ListeningAt(q, stat, Len(q) + 1)

BridgeInv ==
    Bridges(m_deferredEventsQueue, socket, phase, received, sent, status, m_usListenSocket)

(* A uWebSockets callback queues an event of its client. *)
LEMMA ClientStep ==
    ASSUME TypeOK, BridgeInv, NEW c \in Clients, NEW e \in Event, e.clientID = c,
           NEW new, NEW add \in {0, 1},
           \/ e.type = "OPEN" /\ socket[c] = "connected" /\ new = "open" /\ add = 0
           \/ e.type = "MESSAGE" /\ socket[c] = "open" /\ new = "open" /\ add = 1 /\ e.n = sent[c] + 1
           \/ e.type = "CLOSE" /\ socket[c] = "open" /\ new = "closed" /\ add = 0
    PROVE  Bridges(Append(m_deferredEventsQueue, e), [socket EXCEPT ![c] = new], phase, received,
                   [sent EXCEPT ![c] = sent[c] + add], status, m_usListenSocket)
<1> DEFINE q == m_deferredEventsQueue
           p == Append(q, e)
<1>1. q \in Seq(Event) /\ Grows(q, p) /\ Len(p) = Len(q) + 1 /\ p[Len(q) + 1] = e
      /\ Added(q, p) = {Len(q) + 1}
  BY Appended DEF TypeOK
<1>2. \A d \in Clients : /\ received[d] \in Nat /\ sent[d] \in Nat
                         /\ phase[d] \in {"unknown", "established", "closed"}
  BY PayloadAssumption DEF TypeOK
<1>3. /\ OpenFirst(q) /\ Shutdowns(q, phase) /\ ListensFirst(q, status)
      /\ m_usListenSocket # nullptr => ListeningAt(q, status, Len(q) + 1)
      /\ \A d \in Clients : /\ Life(q, socket[d], phase[d], d)
                            /\ socket[d] \in {"none", "connected"} => sent[d] = 0
                            /\ Numbered(q, {"MESSAGE"}, received[d], sent[d], d)
  BY DEF BridgeInv, Bridges
<1>4. /\ [socket EXCEPT ![c] = new][c] = new
      /\ [sent EXCEPT ![c] = sent[c] + add][c] = sent[c] + add
      /\ \A d \in Clients : d # c =>
            /\ [socket EXCEPT ![c] = new][d] = socket[d]
            /\ [sent EXCEPT ![c] = sent[c] + add][d] = sent[d]
  BY DEF TypeOK
<1>5. OpenFirst(p) /\ Life(p, new, phase[c], c)
  <2>1. \/ e.type = "OPEN" /\ socket[c] = "connected" /\ new = "open"
        \/ e.type = "MESSAGE" /\ socket[c] = "open" /\ new = "open"
        \/ e.type = "CLOSE" /\ socket[c] = "open" /\ new = "closed"
    OBVIOUS
  <2>2. /\ OpenFirst(q) /\ Life(q, socket[c], phase[c], c)
        /\ phase[c] \in {"unknown", "established", "closed"}
    BY <1>2, <1>3
  <2> HIDE DEF q
  <2> QED BY <1>1, <2>1, <2>2, AppendLife, Zenon
<1>6. /\ Shutdowns(p, phase) /\ ListensFirst(p, status)
      /\ m_usListenSocket # nullptr => ListeningAt(p, status, Len(p) + 1)
  <2> HIDE DEF q
  <2>1. e.type # "SHUTDOWN" /\ (e.type = "LISTEN" => e.clientID = SERVER)
    BY EventFields
  <2>2. ~At(p, Len(q) + 1, "SHUTDOWN", SERVER)
    BY <1>1, <2>1 DEF At
  <2>3. Shutdowns(p, phase)
    BY <1>1, <1>3, <2>2, GrowsShutdowns
  <2> QED BY <1>1, <1>3, <2>1, <2>3, AppendServer
<1> HIDE DEF p, q
<1>7. \A d \in Clients : d # c => Life(p, socket[d], phase[d], d) /\ Numbered(p, {"MESSAGE"}, received[d], sent[d], d)
  BY <1>1, <1>2, <1>3, GrowsClient
<1>8. Numbered(p, {"MESSAGE"}, received[c], sent[c] + add, c)
  <2>1. CASE e.type = "MESSAGE"
    <3>1. At(p, Len(p), "MESSAGE", c) /\ p[Len(p)].n = sent[c] + 1 /\ add = 1
      BY <1>1, <2>1 DEF At
    <3>2. Numbered(p, {"MESSAGE"}, received[c], sent[c] + 1, c)
      BY <1>1, <1>2, <1>3, <3>1, MessageAt, GrowsByOne
    <3> QED BY <3>1, <3>2
  <2>2. CASE e.type # "MESSAGE"
    <3>1. add = 0 /\ \A j \in Added(q, p) : ~At(p, j, "MESSAGE", c)
      BY <1>1, <2>2 DEF At
    <3>2. Numbered(p, {"MESSAGE"}, received[c], sent[c], c)
      BY <1>1, <1>2, <1>3, <3>1, MessageAt, GrowsNumbered
    <3>3. sent[c] + add = sent[c]
      BY <1>2, <3>1
    <3> QED BY <3>2, <3>3
  <2> QED BY <2>1, <2>2
<1>9. new \notin {"none", "connected"}
  OBVIOUS
<1>10. Bridges(p, [socket EXCEPT ![c] = new], phase, received,
               [sent EXCEPT ![c] = sent[c] + add], status, m_usListenSocket)
  BY <1>3, <1>4, <1>5, <1>6, <1>7, <1>8, <1>9, Zenon DEF Bridges
<1> QED BY <1>10 DEF p, q

LEMMA BridgeUnchanged ==
    ASSUME BridgeInv, UNCHANGED <<m_deferredEventsQueue, socket, sent, m_usListenSocket>>,
           UNCHANGED historyVars
    PROVE  BridgeInv'
BY DEF BridgeInv, historyVars

(* StopListening closes every live client before it queues SHUTDOWN. *)
LEMMA StopStep ==
    ASSUME TypeOK, NoDanglingPointers, BridgeInv, StopListening
    PROVE  BridgeInv'
<1>1. CASE m_usListenSocket = nullptr
  BY <1>1, BridgeUnchanged DEF StopListening, serverVars
<1>2. CASE m_usListenSocket # nullptr
  <2> DEFINE q == m_deferredEventsQueue
             k == Cardinality(LiveClients)
  <2>1. PICK order \in Orders(LiveClients) : DisconnectAllClients(order)
    BY <1>2 DEF StopListening
  <2> DEFINE p == q \o CloseEvents(order) \o <<ServerEvent("SHUTDOWN")>>
  <2>2. /\ m_deferredEventsQueue' = p
        /\ socket' = [c \in Clients |-> IF c \in LiveClients THEN "closed" ELSE socket[c]]
    BY <2>1 DEF DisconnectAllClients
  <2>3. /\ m_usListenSocket' = nullptr
        /\ UNCHANGED <<sent, phase, received, status>>
    BY <1>2 DEF StopListening, us_listen_socket_close, historyVars
  <2>4. q \in Seq(Event) /\ Disconnects(q, p, order, k)
    BY DisconnectsQueue DEF TypeOK
  <2>5. Enumerates(order, k, LiveClients, socket)
    <3>1. LiveClients \subseteq Clients /\ \A c \in Clients : c \in LiveClients <=> socket[c] = "open"
      BY DEF LiveClients, NoDanglingPointers
    <3> QED BY <3>1, LiveClientsFinite DEF Orders, Enumerates
  <2>6. Closes(LiveClients, socket, socket')
    BY <2>2 DEF Closes
  <2>7. /\ OpenFirst(q) /\ Shutdowns(q, phase) /\ ListensFirst(q, status)
        /\ ListeningAt(q, status, Len(q) + 1)
        /\ \A d \in Clients : /\ Life(q, socket[d], phase[d], d)
                              /\ socket[d] \in {"none", "connected"} => sent[d] = 0
                              /\ Numbered(q, {"MESSAGE"}, received[d], sent[d], d)
    BY <1>2 DEF BridgeInv, Bridges
  <2>8. /\ phase \in [Clients -> {"unknown", "established", "closed"}]
        /\ \A d \in Clients : received[d] \in Nat /\ sent[d] \in Nat
    BY PayloadAssumption DEF TypeOK
  <2> HIDE DEF q, p, k
  <2>9. /\ OpenFirst(p)
        /\ Lives(p, socket', phase)
        /\ \A j \in Added(q, p) : p[j].type # "MESSAGE"
        /\ Shutdowns(p, phase)
        /\ ListensFirst(p, status)
    <3>1. /\ OpenFirst(q) /\ Lives(q, socket, phase)
          /\ Shutdowns(q, phase) /\ ListensFirst(q, status) /\ ListeningAt(q, status, Len(q) + 1)
          /\ phase \in [Clients -> {"unknown", "established", "closed"}]
      BY <2>7, <2>8 DEF Lives
    <3> QED BY <2>4, <2>5, <2>6, <3>1, DisconnectsBridge, Zenon
  <2>10. \A c \in Clients : Numbered(p, {"MESSAGE"}, received[c], sent[c], c)
    <3>1. Grows(q, p) /\ \A c \in Clients : \A j \in Added(q, p) : ~At(p, j, "MESSAGE", c)
      BY <2>4, <2>9 DEF Disconnects, At
    <3> QED BY <2>7, <2>8, <3>1, MessageAt, GrowsNumbered
  <2>11. \A c \in Clients : socket'[c] = IF c \in LiveClients THEN "closed" ELSE socket[c]
    BY <2>2
  <2>12. \A c \in Clients : Life(p, socket'[c], phase[c], c)
    BY <2>9 DEF Lives
  <2>13. \A c \in Clients : socket'[c] \in {"none", "connected"} => sent[c] = 0
    BY <2>7, <2>11
  <2>14. Bridges(p, socket', phase, received, sent, status, nullptr)
    BY <2>9, <2>10, <2>12, <2>13, Zenon DEF Bridges
  <2> QED BY <2>2, <2>3, <2>14 DEF BridgeInv
<1> QED BY <1>1, <1>2

(* What handing over the first event tells the handlers, about the values. *)
Told(e, ph, rc, newPh, newRc) ==
    /\ \A c \in Clients :
          /\ newPh[c] = IF e.clientID = c /\ e.type = "OPEN" THEN "established"
                        ELSE IF e.clientID = c /\ e.type = "CLOSE" THEN "closed" ELSE ph[c]
          /\ newRc[c] = IF e.clientID = c /\ e.type = "MESSAGE" THEN e.n ELSE rc[c]

LEMMA EventTells ==
    ASSUME TypeOK, OnEvent
    PROVE  /\ m_deferredEventsQueue \in Seq(Event) /\ m_deferredEventsQueue # <<>>
           /\ Shifts(m_deferredEventsQueue, m_deferredEventsQueue')
           /\ m_deferredEventsQueue[1] \in Event
           /\ Told(m_deferredEventsQueue[1], phase, received, phase', received')
           /\ status' = Reported(status, m_deferredEventsQueue[1].type)
           /\ UNCHANGED <<socket, sent, m_usListenSocket>>
<1>1. PICK event \in {m_deferredEventsQueue[i] : i \in DOMAIN m_deferredEventsQueue} : OnEvent!(event)
  BY DEF OnEvent
<1>2. /\ m_deferredEventsQueue \in Seq(Event) /\ m_deferredEventsQueue # <<>>
      /\ event = Head(m_deferredEventsQueue) /\ m_deferredEventsQueue' = Tail(m_deferredEventsQueue)
      /\ UNCHANGED <<socket, sent, m_usListenSocket>>
  BY <1>1 DEF TypeOK, GetNextDeferredEvent, HasDeferredEvents, serverVars, socketVars
<1>3. /\ Shifts(m_deferredEventsQueue, m_deferredEventsQueue')
      /\ m_deferredEventsQueue[1] = event /\ event \in Event
  BY <1>2, Tailed
<1>4. status' = Reported(status, event.type)
  BY <1>1 DEF Reported
<1>5. phase \in [Clients -> {"unknown", "established", "closed"}] /\ received \in [Clients -> Nat]
  BY DEF TypeOK
<1>6. \A c \in Clients :
         phase'[c] = IF event.clientID = c /\ event.type = "OPEN" THEN "established"
                     ELSE IF event.clientID = c /\ event.type = "CLOSE" THEN "closed" ELSE phase[c]
  BY <1>1, <1>3, <1>5, EventFields
<1>7. \A c \in Clients :
         received'[c] = IF event.clientID = c /\ event.type = "MESSAGE" THEN event.n ELSE received[c]
  BY <1>1, <1>3, <1>5, EventFields
<1> QED BY <1>2, <1>3, <1>4, <1>6, <1>7 DEF Told

(* ProcessDeferredEvents hands the first event to its handler. *)
LEMMA EventStep ==
    ASSUME TypeOK, BridgeInv, OnEvent
    PROVE  BridgeInv'
<1> DEFINE q == m_deferredEventsQueue
           p == m_deferredEventsQueue'
<1>1. /\ q \in Seq(Event) /\ Shifts(q, p) /\ q[1] \in Event
      /\ Told(q[1], phase, received, phase', received')
      /\ status' = Reported(status, q[1].type)
      /\ UNCHANGED <<socket, sent, m_usListenSocket>>
  BY EventTells
<1>2. /\ OpenFirst(q) /\ Shutdowns(q, phase) /\ ListensFirst(q, status)
      /\ m_usListenSocket # nullptr => ListeningAt(q, status, Len(q) + 1)
      /\ \A d \in Clients : /\ Life(q, socket[d], phase[d], d)
                            /\ socket[d] \in {"none", "connected"} => sent[d] = 0
                            /\ Numbered(q, {"MESSAGE"}, received[d], sent[d], d)
  BY DEF BridgeInv, Bridges
<1>3. \A d \in Clients : /\ received[d] \in Nat /\ sent[d] \in Nat
                         /\ phase[d] \in {"unknown", "established", "closed"}
  BY PayloadAssumption DEF TypeOK
<1>4. BridgeInv' <=> Bridges(p, socket, phase', received', sent, status', m_usListenSocket)
  BY <1>1 DEF BridgeInv
<1> DEFINE e == q[1]
<1>5. /\ e.type \in {"OPEN", "CLOSE", "MESSAGE", "LISTEN", "SHUTDOWN"}
      /\ e.type \in {"OPEN", "CLOSE", "MESSAGE"} <=> e.clientID \in Clients
      /\ e.type \in {"LISTEN", "SHUTDOWN"} => e.clientID = SERVER
      /\ e.n \in Nat
  BY <1>1, EventFields
<1> HIDE DEF p, q
<1>6. OpenFirst(p)
  BY <1>1, <1>2, ShiftsBracketed DEF OpenFirst
<1>7. ASSUME NEW c \in Clients
      PROVE  Life(p, socket[c], phase'[c], c) /\ Numbered(p, {"MESSAGE"}, received'[c], sent[c], c)
  <2>0. /\ Life(q, socket[c], phase[c], c) /\ Numbered(q, {"MESSAGE"}, received[c], sent[c], c)
        /\ received[c] \in Nat /\ sent[c] \in Nat
        /\ phase[c] \in {"unknown", "established", "closed"}
    BY <1>2, <1>3
  <2>1. CASE e.clientID = c
    <3>1. /\ e.type = "OPEN" => Life(p, socket[c], "established", c)
          /\ e.type = "CLOSE" => Life(p, socket[c], "closed", c)
          /\ e.type = "MESSAGE" => Life(p, socket[c], phase[c], c)
      BY <1>1, <1>2, <2>0, <2>1, ShiftsLife
    <3>2. Life(p, socket[c], phase'[c], c)
      BY <1>1, <1>5, <2>1, <3>1 DEF Told
    <3>3. CASE e.type = "MESSAGE"
      <4>1. At(q, 1, "MESSAGE", c)
        BY <2>1, <3>3 DEF At
      <4>2. e.n = received[c] + 1 /\ Numbered(p, {"MESSAGE"}, received[c] + 1, sent[c], c)
        BY <1>1, <1>5, <2>0, <4>1, MessageAt, ShiftsByOne
      <4>3. received'[c] = e.n
        BY <1>1, <2>1, <3>3 DEF Told
      <4> QED BY <3>2, <4>2, <4>3
    <3>4. CASE e.type # "MESSAGE"
      <4>1. ~At(q, 1, "MESSAGE", c)
        BY <3>4 DEF At
      <4>2. Numbered(p, {"MESSAGE"}, received[c], sent[c], c)
        BY <1>1, <2>0, <4>1, MessageAt, ShiftsNumbered
      <4>3. received'[c] = received[c]
        BY <1>1, <3>4 DEF Told
      <4> QED BY <3>2, <4>2, <4>3
    <3> QED BY <3>3, <3>4
  <2>2. CASE e.clientID # c
    <3>1. phase'[c] = phase[c] /\ received'[c] = received[c]
      BY <1>1, <2>2 DEF Told
    <3>2. Life(p, socket[c], phase[c], c) /\ Numbered(p, {"MESSAGE"}, received[c], sent[c], c)
      BY <1>1, <2>0, <2>2, ShiftsClient
    <3> QED BY <3>1, <3>2
  <2> QED BY <2>1, <2>2
<1>8. Shutdowns(p, phase')
  <2>1. \A c \in Clients : At(q, 1, "CLOSE", c) => phase'[c] # "established" /\ ~Has(p, "OPEN", c)
    BY <1>1, <1>2, ShiftsBracketed DEF Told, At, OpenFirst
  <2>2. \A c \in Clients : phase'[c] = "established" =>
           phase[c] = "established" \/ At(q, 1, "OPEN", c)
    BY <1>1 DEF Told, At
  <2>3. Shifts(q, p) /\ Shutdowns(q, phase)
    BY <1>1, <1>2
  <2> QED BY <2>1, <2>2, <2>3, ShiftsShutdowns, Zenon
<1>9. ListensFirst(p, status')
  BY <1>1, <1>2, <1>5, ShiftsListensFirst
<1>10. m_usListenSocket # nullptr => ListeningAt(p, status', Len(p) + 1)
  <2>1. Len(q) \in 1..Len(q) /\ Len(p) + 1 = Len(q)
    BY <1>1 DEF Shifts
  <2> QED BY <1>1, <1>2, <1>5, <2>1, ShiftsListening
<1>11. Bridges(p, socket, phase', received', sent, status', m_usListenSocket)
  BY <1>2, <1>6, <1>7, <1>8, <1>9, <1>10, Zenon DEF Bridges
<1> QED BY <1>4, <1>11

(* No step breaks the bridge between the sockets and the handlers. *)
LEMMA BridgeStep ==
    ASSUME TypeOK, NoDanglingPointers, BridgeInv, [Next]_vars
    PROVE  BridgeInv'
<1>1. ASSUME NEW c \in Clients, Accept(c) PROVE BridgeInv'
  <2>1. /\ UNCHANGED <<m_deferredEventsQueue, sent, m_usListenSocket, phase, received, status>>
        /\ socket[c] = "none" /\ socket'[c] = "connected"
        /\ \A d \in Clients : d # c => socket'[d] = socket[d]
    BY <1>1 DEF Accept, serverVars, historyVars, TypeOK
  <2>2. Life(m_deferredEventsQueue, "none", phase[c], c)
    BY <2>1 DEF BridgeInv, Bridges
  <2>3. Life(m_deferredEventsQueue, "connected", phase[c], c)
    BY <2>2 DEF Life
  <2>4. \A d \in Clients : Life(m_deferredEventsQueue, socket'[d], phase[d], d)
    BY <2>1, <2>3 DEF BridgeInv, Bridges
  <2>5. \A d \in Clients : socket'[d] \in {"none", "connected"} => sent[d] = 0
    BY <2>1 DEF BridgeInv, Bridges
  <2>6. Bridges(m_deferredEventsQueue, socket', phase, received, sent, status, m_usListenSocket)
    BY <2>4, <2>5 DEF BridgeInv, Bridges
  <2> QED BY <2>1, <2>6 DEF BridgeInv
<1>2. ASSUME NEW c \in Clients, OnWebSocketOpen(c) PROVE BridgeInv'
  <2> DEFINE e == DeferredEvent("OPEN", c, 0, 0)
  <2>1. e \in Event /\ e.type = "OPEN" /\ e.clientID = c
    BY DEF DeferredEvent, Event
  <2> HIDE DEF e
  <2>2. /\ m_deferredEventsQueue' = Append(m_deferredEventsQueue, e)
        /\ socket[c] = "connected" /\ socket' = [socket EXCEPT ![c] = "open"]
        /\ UNCHANGED <<sent, m_usListenSocket, phase, received, status>>
    BY <1>2 DEF OnWebSocketOpen, emplace, serverVars, historyVars, e
  <2>3. sent = [sent EXCEPT ![c] = sent[c] + 0]
    BY PayloadAssumption DEF TypeOK
  <2>4. Bridges(Append(m_deferredEventsQueue, e), [socket EXCEPT ![c] = "open"], phase, received,
                [sent EXCEPT ![c] = sent[c] + 0], status, m_usListenSocket)
    BY <2>1, <2>2, ClientStep
  <2> QED BY <2>2, <2>3, <2>4 DEF BridgeInv
<1>3. ASSUME NEW c \in Clients, NEW size \in PayloadSizes, OnWebSocketMessage(c, size)
      PROVE  BridgeInv'
  <2> DEFINE e == DeferredEvent("MESSAGE", c, sent[c] + 1, size)
  <2>1. e \in Event /\ e.type = "MESSAGE" /\ e.clientID = c /\ e.n = sent[c] + 1
    BY PayloadAssumption DEF DeferredEvent, Event, TypeOK
  <2> HIDE DEF e
  <2>2. /\ m_deferredEventsQueue' = Append(m_deferredEventsQueue, e)
        /\ socket[c] = "open" /\ sent' = [sent EXCEPT ![c] = sent[c] + 1]
        /\ UNCHANGED <<socket, m_usListenSocket, phase, received, status>>
    BY <1>3 DEF OnWebSocketMessage, emplace, serverVars, historyVars, e
  <2>3. socket = [socket EXCEPT ![c] = "open"]
    BY <2>2 DEF TypeOK
  <2>4. Bridges(Append(m_deferredEventsQueue, e), [socket EXCEPT ![c] = "open"], phase, received,
                [sent EXCEPT ![c] = sent[c] + 1], status, m_usListenSocket)
    BY <2>1, <2>2, ClientStep
  <2> QED BY <2>2, <2>3, <2>4 DEF BridgeInv
<1>4. ASSUME NEW c \in Clients, Disconnect(c) PROVE BridgeInv'
  <2> DEFINE e == DeferredEvent("CLOSE", c, 0, 0)
  <2>1. e \in Event /\ e.type = "CLOSE" /\ e.clientID = c
    BY DEF DeferredEvent, Event
  <2> HIDE DEF e
  <2>2. /\ m_deferredEventsQueue' = Append(m_deferredEventsQueue, e)
        /\ socket[c] = "open" /\ socket' = [socket EXCEPT ![c] = "closed"]
        /\ UNCHANGED <<sent, m_usListenSocket, phase, received, status>>
    BY <1>4 DEF Disconnect, OnWebSocketClose, emplace, serverVars, historyVars, e
  <2>3. sent = [sent EXCEPT ![c] = sent[c] + 0]
    BY PayloadAssumption DEF TypeOK
  <2>4. Bridges(Append(m_deferredEventsQueue, e), [socket EXCEPT ![c] = "closed"], phase, received,
                [sent EXCEPT ![c] = sent[c] + 0], status, m_usListenSocket)
    BY <2>1, <2>2, ClientStep
  <2> QED BY <2>2, <2>3, <2>4 DEF BridgeInv
<1>5. CASE Start
  <2>1. UNCHANGED <<socket, sent>> /\ UNCHANGED historyVars
    BY <1>5 DEF Start, socketVars
  <2>2. CASE ListenFails
    BY <2>1, <2>2, BridgeUnchanged DEF ListenFails, serverVars
  <2>3. CASE ListenSucceeds
    <3> DEFINE e == ServerEvent("LISTEN")
               q == m_deferredEventsQueue
               p == Append(q, e)
    <3>1. q \in Seq(Event) /\ e \in Event /\ e.type = "LISTEN" /\ e.clientID = SERVER
      BY DEF ServerEvent, DeferredEvent, Event, TypeOK
    <3>2. m_deferredEventsQueue' = p
      BY <2>3 DEF ListenSucceeds, emplace
    <3> HIDE DEF e, q
    <3>3. Grows(q, p) /\ Added(q, p) = {Len(q) + 1} /\ p[Len(q) + 1] = e
      BY <3>1, Appended
    <3>4. /\ OpenFirst(q) /\ Shutdowns(q, phase) /\ ListensFirst(q, status)
          /\ \A d \in Clients : /\ Life(q, socket[d], phase[d], d)
                                /\ socket[d] \in {"none", "connected"} => sent[d] = 0
                                /\ Numbered(q, {"MESSAGE"}, received[d], sent[d], d)
      BY DEF BridgeInv, Bridges, q
    <3>5. /\ Shutdowns(p, phase) /\ ListensFirst(p, status)
          /\ ListeningAt(p, status, Len(p) + 1)
      <4>1. ~At(p, Len(q) + 1, "SHUTDOWN", SERVER)
        BY <3>1, <3>3 DEF At
      <4>2. Shutdowns(p, phase)
        BY <3>3, <3>4, <4>1, GrowsShutdowns
      <4> QED BY <3>1, <3>4, <4>2, AppendServer
    <3> HIDE DEF p
    <3>6. \A j \in Added(q, p) : p[j].clientID \notin Clients
      BY <3>1, <3>3, ClientsAssumption
    <3>7. OpenFirst(p)
      BY <3>3, <3>4, <3>6, GrowsBracketed DEF OpenFirst
    <3>8. \A d \in Clients : received[d] \in Nat /\ sent[d] \in Nat
      BY PayloadAssumption DEF TypeOK
    <3>9. ASSUME NEW d \in Clients
          PROVE  Life(p, socket[d], phase[d], d) /\ Numbered(p, {"MESSAGE"}, received[d], sent[d], d)
      BY <3>3, <3>4, <3>6, <3>8, GrowsClient
    <3>10. Bridges(p, socket, phase, received, sent, status, m_usListenSocket')
      BY <3>4, <3>5, <3>7, <3>9, Zenon DEF Bridges
    <3> QED BY <2>1, <3>2, <3>10 DEF BridgeInv, historyVars
  <2> QED BY <1>5, <2>2, <2>3 DEF Start, StartListening
<1>6. CASE StopListening
  BY <1>6, StopStep
<1>7. CASE OnEvent
  BY <1>7, EventStep
<1>8. CASE UNCHANGED <<m_deferredEventsQueue, socket, sent, m_usListenSocket>> /\ UNCHANGED historyVars
  BY <1>8, BridgeUnchanged
<1> QED
  BY <1>1, <1>2, <1>3, <1>4, <1>5, <1>6, <1>7, <1>8
  DEF Next, SendToClient, SetEchoMode, Broadcast, Poll, PollingUpdate, Drained,
      ProcessDeferredEventsDone, vars, serverVars, socketVars

LEMMA BridgeInvariant == Spec => []BridgeInv
<1>1. Init => BridgeInv
  <2> SUFFICES ASSUME Init PROVE BridgeInv
    OBVIOUS
  <2>1. m_deferredEventsQueue = <<>> /\ m_usListenSocket = nullptr
    BY DEF Init, ServerInit
  <2>2. Len(m_deferredEventsQueue) = 0 /\ 1..0 = {}
    BY <2>1
  <2>3. OpenFirst(m_deferredEventsQueue) /\ Shutdowns(m_deferredEventsQueue, phase)
        /\ ListensFirst(m_deferredEventsQueue, status)
    BY <2>2 DEF OpenFirst, Bracketed, Shutdowns, ListensFirst
  <2>4. ASSUME NEW c \in Clients
        PROVE  /\ Life(m_deferredEventsQueue, socket[c], phase[c], c) /\ sent[c] = 0
               /\ Numbered(m_deferredEventsQueue, {"MESSAGE"}, received[c], sent[c], c)
    <3>1. socket[c] = "none" /\ phase[c] = "unknown" /\ sent[c] = 0 /\ received[c] = 0
      BY DEF Init
    <3>2. Life(m_deferredEventsQueue, socket[c], phase[c], c)
      BY <2>2, <3>1 DEF Life, Has
    <3>3. Numbered(m_deferredEventsQueue, {"MESSAGE"}, received[c], sent[c], c)
      BY <2>2, <3>1 DEF Numbered
    <3> QED BY <3>1, <3>2, <3>3
  <2> QED BY <2>1, <2>3, <2>4 DEF BridgeInv, Bridges
<1> QED BY <1>1, BridgeStep, TypeCorrect, PointersAreValid, PTL DEF Spec

(* Replaying the queue on what the handlers know yields the state of the   *)
(* sockets: no event is lost, repeated or reordered on its way to Lua.     *)
THEOREM QueueIsABridge == Spec => []QueueBridgesSocketsAndHandlers
<1>1. TypeOK /\ BridgeInv => QueueBridgesSocketsAndHandlers
  BY Restated DEF BridgeInv, Bridges
<1> QED BY <1>1, BridgeInvariant, TypeCorrect, PTL

-----------------------------------------------------------------------------
(* The refinement: every step is a step of WebSocketEvents or a stutter.   *)
LEMMA EventRefines ==
    ASSUME TypeOK, BridgeInv, OnEvent
    PROVE  Handlers!Next
<1> DEFINE q == m_deferredEventsQueue
           p == m_deferredEventsQueue'
           e == q[1]
<1>1. /\ Shifts(q, p) /\ e \in Event
      /\ Told(e, phase, received, phase', received')
      /\ status' = Reported(status, e.type)
  BY EventTells
<1>2. /\ OpenFirst(q) /\ Shutdowns(q, phase) /\ ListensFirst(q, status)
      /\ \A d \in Clients : Life(q, socket[d], phase[d], d) /\ Numbered(q, {"MESSAGE"}, received[d], sent[d], d)
  BY DEF BridgeInv, Bridges
<1>3. /\ phase \in [Clients -> {"unknown", "established", "closed"}]
      /\ received \in [Clients -> Nat] /\ \A d \in Clients : sent[d] \in Nat
  BY PayloadAssumption DEF TypeOK
<1>4. PICK event \in {q[i] : i \in DOMAIN q} : OnEvent!(event)
  BY DEF OnEvent
<1>5. event = e
  BY <1>4, EventTells, Tailed DEF GetNextDeferredEvent
<1>6. /\ phase' = CASE e.type = "OPEN" -> [phase EXCEPT ![e.clientID] = "established"]
                    [] e.type = "CLOSE" -> [phase EXCEPT ![e.clientID] = "closed"]
                    [] OTHER -> phase
      /\ received' = IF e.type = "MESSAGE" THEN [received EXCEPT ![e.clientID] = e.n] ELSE received
  BY <1>4, <1>5
<1>7. /\ e.type \in {"OPEN", "CLOSE", "MESSAGE", "LISTEN", "SHUTDOWN"}
      /\ e.type \in {"OPEN", "CLOSE", "MESSAGE"} <=> e.clientID \in Clients
      /\ e.type \in {"LISTEN", "SHUTDOWN"} => e.clientID = SERVER
      /\ e.n \in Nat
  BY <1>1, EventFields
<1>8. 1 \in 1..Len(q) /\ 1..(1 - 1) = {}
  BY <1>1 DEF Shifts
<1> HIDE DEF p, q
<1>9. ASSUME e.type \in {"OPEN", "CLOSE", "MESSAGE"}
      PROVE  /\ e.clientID \in Clients
             /\ e.type = "OPEN" => phase[e.clientID] = "unknown"
             /\ e.type \in {"CLOSE", "MESSAGE"} => phase[e.clientID] = "established"
             /\ e.type = "MESSAGE" => e.n = received[e.clientID] + 1
  <2> DEFINE c == e.clientID
  <2>1. c \in Clients
    BY <1>7, <1>9
  <2> HIDE DEF c
  <2>2. /\ Life(q, socket[c], phase[c], c) /\ Numbered(q, {"MESSAGE"}, received[c], sent[c], c)
        /\ received[c] \in Nat /\ sent[c] \in Nat
        /\ phase[c] \in {"unknown", "established", "closed"}
    BY <1>2, <1>3, <2>1
  <2>3. /\ e.type = "OPEN" => phase[c] = "unknown"
        /\ e.type \in {"CLOSE", "MESSAGE"} => phase[c] = "established"
    BY <1>1, <1>2, <2>1, <2>2, ShiftsLife DEF c
  <2>4. e.type = "MESSAGE" => e.n = received[c] + 1
    <3>1. e.type = "MESSAGE" => At(q, 1, "MESSAGE", c)
      BY DEF At, c
    <3> QED BY <1>1, <1>7, <2>2, <3>1, MessageAt, ShiftsByOne
  <2> QED BY <2>1, <2>3, <2>4 DEF c
<1>10. ASSUME e.type = "SHUTDOWN"
       PROVE  status = "listening" /\ \A c \in Clients : phase[c] # "established"
  <2>1. At(q, 1, "SHUTDOWN", SERVER)
    BY <1>7, <1>10 DEF At
  <2>2. ClosedBefore(q, phase, 1) /\ ListeningAt(q, status, 1)
    BY <1>2, <1>8, <2>1 DEF Shutdowns, ListensFirst
  <2> QED BY <1>8, <2>2 DEF ClosedBefore, ListeningAt
<1> HIDE DEF e
<1>11. CASE e.type = "OPEN"
  <2>1. Handlers!WEBSOCKET_CONNECTION_ESTABLISHED(e.clientID) /\ e.clientID \in Clients
    BY <1>1, <1>6, <1>9, <1>11 DEF Handlers!WEBSOCKET_CONNECTION_ESTABLISHED, Reported
  <2> QED BY <2>1 DEF Handlers!Next
<1>12. CASE e.type = "CLOSE"
  <2>1. Handlers!WEBSOCKET_CONNECTION_CLOSED(e.clientID) /\ e.clientID \in Clients
    BY <1>1, <1>6, <1>9, <1>12 DEF Handlers!WEBSOCKET_CONNECTION_CLOSED, Reported
  <2> QED BY <2>1 DEF Handlers!Next
<1>13. CASE e.type = "MESSAGE"
  <2>1. Handlers!WEBSOCKET_MESSAGE_RECEIVED(e.clientID) /\ e.clientID \in Clients
    BY <1>1, <1>6, <1>9, <1>13 DEF Handlers!WEBSOCKET_MESSAGE_RECEIVED, Reported
  <2> QED BY <2>1 DEF Handlers!Next
<1>14. CASE e.type = "LISTEN"
  <2>1. Handlers!SERVER_STARTED_LISTENING
    BY <1>1, <1>6, <1>14 DEF Handlers!SERVER_STARTED_LISTENING, Reported
  <2> QED BY <2>1 DEF Handlers!Next
<1>15. CASE e.type = "SHUTDOWN"
  <2>1. Handlers!SERVER_STOPPED_LISTENING
    BY <1>1, <1>6, <1>10, <1>15 DEF Handlers!SERVER_STOPPED_LISTENING, Reported
  <2> QED BY <2>1 DEF Handlers!Next
<1> QED BY <1>7, <1>11, <1>12, <1>13, <1>14, <1>15

(* The Lua handlers are called in the order WebSocketEvents promises,      *)
(* whatever the handlers do and however many drains they nest.             *)
THEOREM HandlersSeeEventsInOrder == Spec => EventContract
<1>1. Init => Handlers!Init
  BY DEF Init, Handlers!Init
<1>2. ASSUME TypeOK, BridgeInv, [Next]_vars PROVE [Handlers!Next]_(Handlers!vars)
  <2>1. CASE OnEvent
    BY <1>2, <2>1, EventRefines
  <2>2. CASE UNCHANGED historyVars
    BY <2>2 DEF historyVars, Handlers!vars
  <2> QED
    BY <1>2, <2>1, <2>2
    DEF Next, Accept, OnWebSocketOpen, OnWebSocketMessage, Disconnect, SendToClient, Start,
        StopListening, SetEchoMode, Broadcast, Poll, Drained, vars
<1> QED
  BY <1>1, <1>2, TypeCorrect, BridgeInvariant, PTL DEF Spec, EventContract, Handlers!Spec
=============================================================================
