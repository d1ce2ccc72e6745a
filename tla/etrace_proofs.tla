--------------------------- MODULE etrace_proofs ---------------------------
(***************************************************************************)
(* The properties of the event bus, proved for any sets of events and      *)
(* listeners and any depth of nesting.                                     *)
(***************************************************************************)
EXTENDS etrace, SequenceTheorems, TLAPS

(* What holds of one traversal, given the subscribers of its event.        *)
Sound(traversal, current) ==
    /\ ~traversal.disturbed =>
          /\ traversal.stayed \subseteq traversal.visited \cup traversal.remaining
          /\ traversal.visited \cap traversal.remaining = {}
    /\ traversal.attached => traversal.remaining \subseteq current

(* EveryoneOnce and OnlySubscribersAreCalled, one traversal at a time.     *)
AllSound ==
    \A i \in DOMAIN traversals : Sound(traversals[i], subscribers[traversals[i].event])

LEMMA SoundTraversals == AllSound => EveryoneOnce /\ OnlySubscribersAreCalled
BY DEF AllSound, EveryoneOnce, OnlySubscribersAreCalled, Sound

(* What user code and the loop do to a traversal leaves it one.            *)
LEMMA TraversalUpdates ==
    ASSUME NEW t \in Traversal, NEW listener \in Listeners
    PROVE  /\ [t EXCEPT !.remaining = @ \cup {listener}] \in Traversal
           /\ without(t, listener) \in Traversal
           /\ visit(t, listener) \in Traversal
BY DEF Traversal, without, visit

LEMMA DisturbedTraversal ==
    ASSUME NEW t \in Traversal, NEW S \in SUBSET Listeners
    PROVE  [t EXCEPT !.remaining = S, !.disturbed = TRUE] \in Traversal
BY DEF Traversal

(* The stack of traversals remains one if each of them does.               *)
LEMMA TraversalsType ==
    ASSUME NEW s \in Seq(Traversal), NEW f,
           f = [i \in DOMAIN s |-> f[i]], \A i \in DOMAIN s : f[i] \in Traversal
    PROVE  f \in Seq(Traversal)
OBVIOUS

LEMMA InnermostType ==
    ASSUME NEW s \in Seq(Traversal), s # <<>>
    PROVE  /\ Len(s) \in DOMAIN s
           /\ s[Len(s)] \in Traversal
           /\ \A t \in Traversal : [s EXCEPT ![Len(s)] = t] \in Seq(Traversal)
           /\ SubSeq(s, 1, Len(s) - 1) \in Seq(Traversal)
<1>1. Len(s) \in DOMAIN s /\ s[Len(s)] \in Traversal
  OBVIOUS
<1>2. ASSUME NEW t \in Traversal PROVE [s EXCEPT ![Len(s)] = t] \in Seq(Traversal)
  OBVIOUS
<1>3. SubSeq(s, 1, Len(s) - 1) \in Seq(Traversal)
  OBVIOUS
<1> QED BY <1>1, <1>2, <1>3

(* The registry, the log, the tables and the traversals keep their types,  *)
(* whatever handlers do while they are called.                             *)
THEOREM TypeCorrect == Spec => []TypeOK
<1>1. Init => TypeOK
  BY DEF Init, TypeOK
<1>2. TypeOK /\ [Next]_vars => TypeOK'
  <2> SUFFICES ASSUME TypeOK, [Next]_vars PROVE TypeOK'
    OBVIOUS
  <2>0. traversals \in Seq(Traversal) /\ \A i \in DOMAIN traversals : traversals[i] \in Traversal
    BY DEF TypeOK
  <2>1. ASSUME NEW e \in Events, register(e) PROVE TypeOK'
    BY <2>1 DEF register, TypeOK
  <2>2. ASSUME NEW e \in Events, unregister(e) PROVE TypeOK'
    BY <2>2 DEF unregister, TypeOK
  <2>3. ASSUME NEW e \in Events, NEW status \in {"enabled", "disabled"}, setStatus(e, status)
        PROVE TypeOK'
    BY <2>3 DEF setStatus, TypeOK
  <2>4. ASSUME NEW e \in Events, NEW listener \in Listeners, subscribe(e, listener)
        PROVE TypeOK'
    <3>1. CASE reuseSlot(e, listener)
      <4>1. traversals' \in Seq(Traversal)
        <5>1. /\ traversals' = [i \in DOMAIN traversals |-> traversals'[i]]
              /\ \A i \in DOMAIN traversals :
                    \/ traversals'[i] = traversals[i]
                    \/ traversals'[i] = [traversals[i] EXCEPT
                                            !.remaining = @ \cup {listener}]
          BY <3>1 DEF reuseSlot
        <5>2. ASSUME NEW i \in DOMAIN traversals PROVE traversals'[i] \in Traversal
          <6>1. /\ traversals[i] \in Traversal
                /\ [traversals[i] EXCEPT !.remaining = @ \cup {listener}] \in Traversal
            BY <2>0, TraversalUpdates
          <6> QED BY <5>1, <6>1
        <5> QED BY <2>0, <5>1, <5>2, TraversalsType
      <4> QED BY <2>4, <3>1, <4>1 DEF subscribe, reuseSlot, TypeOK
    <3>2. CASE addSlot(e, listener)
      <4>1. PICK undefined \in [DOMAIN traversals -> SUBSET (subscribers[e] \cup {listener})] :
              traversals' = [i \in DOMAIN traversals |->
                 IF Traverses(i, e)
                 THEN [traversals[i] EXCEPT !.remaining = undefined[i], !.disturbed = TRUE]
                 ELSE traversals[i]]
        BY <3>2 DEF addSlot
      <4>2. /\ traversals' = [i \in DOMAIN traversals |-> traversals'[i]]
            /\ \A i \in DOMAIN traversals :
                  \/ traversals'[i] = traversals[i]
                  \/ traversals'[i] = [traversals[i] EXCEPT
                                          !.remaining = undefined[i], !.disturbed = TRUE]
        BY <4>1
      <4>3. subscribers[e] \cup {listener} \in SUBSET Listeners
        BY <2>4 DEF TypeOK
      <4>4. \A i \in DOMAIN traversals : undefined[i] \in SUBSET Listeners
        BY <4>3
      <4>5. ASSUME NEW i \in DOMAIN traversals PROVE traversals'[i] \in Traversal
        <5>1. /\ traversals[i] \in Traversal
              /\ [traversals[i] EXCEPT !.remaining = undefined[i], !.disturbed = TRUE]
                    \in Traversal
          BY <2>0, <4>4, DisturbedTraversal
        <5> QED BY <4>2, <5>1
      <4>6. traversals' \in Seq(Traversal)
        BY <2>0, <4>2, <4>5, TraversalsType
      <4>7. keys' \in [Events -> SUBSET Listeners]
        <5>1. PICK old \in {keys[e], subscribers[e]} :
                keys' = [keys EXCEPT ![e] = old \cup {listener}]
          BY <3>2 DEF addSlot
        <5>2. old \cup {listener} \in SUBSET Listeners
          BY <2>4 DEF TypeOK
        <5> QED BY <5>1, <5>2 DEF TypeOK
      <4>8. subscribers' \in [Events -> SUBSET Listeners]
        BY <2>4 DEF subscribe, TypeOK
      <4> QED BY <2>4, <4>6, <4>7, <4>8 DEF subscribe, TypeOK
    <3> QED BY <2>4, <3>1, <3>2 DEF subscribe
  <2>5. ASSUME NEW e \in Events, NEW listener \in Listeners, unsubscribe(e, listener)
        PROVE TypeOK'
    <3>1. /\ traversals' = [i \in DOMAIN traversals |-> traversals'[i]]
          /\ \A i \in DOMAIN traversals :
                traversals'[i] = traversals[i] \/ traversals'[i] = without(traversals[i], listener)
      BY <2>5 DEF unsubscribe
    <3>2. \A i \in DOMAIN traversals : traversals'[i] \in Traversal
      BY <2>0, <3>1, TraversalUpdates
    <3>3. traversals' \in Seq(Traversal)
      BY <2>0, <3>1, <3>2, TraversalsType
    <3> QED BY <2>5, <3>3 DEF unsubscribe, TypeOK
  <2>6. ASSUME NEW e \in Events, traverse(e) PROVE traversals' \in Seq(Traversal)
    BY <2>6 DEF traverse, Traversal, TypeOK
  <2>7. ASSUME NEW e \in Events, notify(e) PROVE TypeOK'
    BY <2>6, <2>7 DEF notify, TypeOK
  <2>8. ASSUME NEW e \in Events, publish(e) PROVE TypeOK'
    BY <2>6, <2>8 DEF publish, addEntry, TypeOK
  <2>16. ASSUME NEW e \in Events, record(e) PROVE TypeOK'
    BY <2>16 DEF record, addEntry, TypeOK
  <2>9. ASSUME NEW status \in {"enabled", "disabled"}, setStatusOfAll(status) PROVE TypeOK'
    BY <2>9 DEF setStatusOfAll, TypeOK
  <2>10. CASE unregisterAll
    BY <2>10 DEF unregisterAll, TypeOK
  <2>11. CASE clear
    BY <2>11 DEF clear, TypeOK
  <2>12. CASE reset
    <3>1. /\ traversals' = [i \in DOMAIN traversals |-> traversals'[i]]
          /\ \A i \in DOMAIN traversals :
                traversals'[i] = [traversals[i] EXCEPT !.attached = FALSE]
      BY <2>12 DEF reset
    <3>2. traversals' \in Seq(Traversal)
      <4>1. \A t \in Traversal : [t EXCEPT !.attached = FALSE] \in Traversal
        BY DEF Traversal
      <4>2. \A i \in DOMAIN traversals : traversals'[i] \in Traversal
        BY <2>0, <3>1, <4>1
      <4> QED BY <2>0, <3>1, <4>2, TraversalsType
    <3> QED BY <2>12, <3>2 DEF reset, TypeOK
  <2>13. ASSUME NEW listener \in Listeners, CallHandler(listener) PROVE TypeOK'
    <3>1. traversals # <<>>
      BY <2>13 DEF CallHandler
    <3>2. traversals' = [traversals EXCEPT
                           ![Len(traversals)] = visit(traversals[Len(traversals)], listener)]
      BY <2>13 DEF CallHandler, Innermost
    <3>3. traversals' \in Seq(Traversal)
      BY <2>0, <3>1, <3>2, InnermostType, TraversalUpdates
    <3> QED BY <2>13, <3>3 DEF CallHandler, TypeOK
  <2>14. CASE NotifyReturns
    BY <2>0, <2>14, InnermostType DEF NotifyReturns, TypeOK
  <2>15. CASE UNCHANGED vars
    BY <2>15 DEF vars, TypeOK
  <2> QED
    BY <2>1, <2>2, <2>3, <2>4, <2>5, <2>7, <2>8, <2>9, <2>10, <2>11, <2>12,
       <2>13, <2>14, <2>15, <2>16 DEF Next
<1> QED
  BY <1>1, <1>2, PTL DEF Spec

-----------------------------------------------------------------------------
(* What each update of a traversal, or of the table it is in, does to the  *)
(* soundness of the traversal.                                             *)
LEMMA SoundUpdates ==
    ASSUME NEW t \in Traversal, NEW C, NEW listener \in Listeners, Sound(t, C)
    PROVE  /\ Sound(t, C \cup {listener})
           /\ Sound(without(t, listener), C \ {listener})
           /\ listener \notin t.visited =>
                 Sound([t EXCEPT !.remaining = @ \cup {listener}], C \cup {listener})
           /\ listener \in t.remaining => Sound(visit(t, listener), C)
BY DEF Sound, without, visit, Traversal

LEMMA SoundWhenDetached ==
    ASSUME NEW t \in Traversal, NEW C, NEW D, Sound(t, C), ~t.attached
    PROVE  Sound(t, D)
BY DEF Sound

LEMMA SoundWhenDisturbed ==
    ASSUME NEW t \in Traversal, NEW C, NEW S \in SUBSET C
    PROVE  Sound([t EXCEPT !.remaining = S, !.disturbed = TRUE], C)
BY DEF Sound, Traversal

LEMMA SoundStart ==
    ASSUME NEW C, NEW e
    PROVE  Sound([event |-> e, remaining |-> C, attached |-> TRUE, handling |-> FALSE,
                  visited |-> {}, stayed |-> C, disturbed |-> FALSE], C)
BY DEF Sound

(* The updates leave the event of a traversal alone. *)
LEMMA SameEvent ==
    ASSUME NEW t \in Traversal, NEW listener \in Listeners
    PROVE  /\ without(t, listener).event = t.event
           /\ [t EXCEPT !.remaining = @ \cup {listener}].event = t.event
           /\ visit(t, listener).event = t.event
BY DEF without, visit, Traversal

LEMMA DisturbedEvent ==
    ASSUME NEW t \in Traversal, NEW S
    PROVE  [t EXCEPT !.remaining = S, !.disturbed = TRUE].event = t.event
BY DEF Traversal

(* Every step keeps every traversal sound. *)
LEMMA SoundStep ==
    ASSUME TypeOK, AllSound, [Next]_vars
    PROVE  AllSound'
<1>0. /\ traversals \in Seq(Traversal)
      /\ \A i \in DOMAIN traversals :
            /\ traversals[i] \in Traversal
            /\ traversals[i].event \in Events
            /\ Sound(traversals[i], subscribers[traversals[i].event])
      /\ DOMAIN subscribers = Events
  <2>1. traversals \in Seq(Traversal) /\ DOMAIN subscribers = Events
    BY DEF TypeOK
  <2>2. \A i \in DOMAIN traversals : traversals[i] \in Traversal
    BY <2>1
  <2>3. \A t \in Traversal : t.event \in Events
    BY DEF Traversal
  <2> QED BY <2>1, <2>2, <2>3 DEF AllSound
<1>1. CASE UNCHANGED <<traversals, subscribers>>
  BY <1>1 DEF AllSound
<1>2. ASSUME NEW e \in Events, NEW listener \in Listeners, subscribe(e, listener)
      PROVE  AllSound'
  <2>1. subscribers' = [subscribers EXCEPT ![e] = subscribers[e] \cup {listener}]
    BY <1>2 DEF subscribe
  <2>2. CASE reuseSlot(e, listener)
    <3>1. PICK ahead \in SUBSET DOMAIN traversals :
            traversals' = [i \in DOMAIN traversals |->
               IF Traverses(i, e) /\ i \in ahead /\ listener \notin traversals[i].visited
               THEN [traversals[i] EXCEPT !.remaining = @ \cup {listener}]
               ELSE traversals[i]]
      BY <2>2 DEF reuseSlot
    <3>2. ASSUME NEW i \in DOMAIN traversals
          PROVE  Sound(traversals'[i], subscribers'[traversals'[i].event])
      <4>1. CASE Traverses(i, e) /\ i \in ahead /\ listener \notin traversals[i].visited
        <5>1. traversals'[i] = [traversals[i] EXCEPT !.remaining = @ \cup {listener}]
          BY <3>1, <4>1
        <5>2. subscribers'[traversals'[i].event] = subscribers[traversals[i].event] \cup {listener}
          <6>1. traversals'[i].event = traversals[i].event
            BY <1>0, <5>1, SameEvent
          <6> QED BY <1>0, <2>1, <4>1, <6>1 DEF Traverses
        <5>3. Sound([traversals[i] EXCEPT !.remaining = @ \cup {listener}],
                    subscribers[traversals[i].event] \cup {listener})
          BY <1>0, <4>1, SoundUpdates
        <5> QED BY <5>1, <5>2, <5>3
      <4>2. CASE ~(Traverses(i, e) /\ i \in ahead /\ listener \notin traversals[i].visited)
        <5>1. traversals'[i] = traversals[i]
          BY <3>1, <4>2
        <5>2. \/ subscribers'[traversals[i].event] = subscribers[traversals[i].event]
              \/ subscribers'[traversals[i].event] = subscribers[traversals[i].event] \cup {listener}
          BY <1>0, <2>1
        <5>3. /\ Sound(traversals[i], subscribers[traversals[i].event])
              /\ Sound(traversals[i], subscribers[traversals[i].event] \cup {listener})
          BY <1>0, SoundUpdates
        <5> QED BY <5>1, <5>2, <5>3
      <4> QED BY <4>1, <4>2
    <3> QED BY <3>1, <3>2 DEF AllSound
  <2>3. CASE addSlot(e, listener)
    <3>1. PICK undefined \in [DOMAIN traversals -> SUBSET (subscribers[e] \cup {listener})] :
            traversals' = [i \in DOMAIN traversals |->
               IF Traverses(i, e)
               THEN [traversals[i] EXCEPT !.remaining = undefined[i], !.disturbed = TRUE]
               ELSE traversals[i]]
      BY <2>3 DEF addSlot
    <3>2. ASSUME NEW i \in DOMAIN traversals
          PROVE  Sound(traversals'[i], subscribers'[traversals'[i].event])
      <4>1. CASE Traverses(i, e)
        <5>1. traversals'[i] =
                [traversals[i] EXCEPT !.remaining = undefined[i], !.disturbed = TRUE]
          BY <3>1, <4>1
        <5>2. subscribers'[traversals'[i].event] = subscribers[e] \cup {listener}
          <6>1. traversals'[i].event = traversals[i].event
            BY <1>0, <5>1, DisturbedEvent
          <6> QED BY <1>0, <2>1, <4>1, <6>1 DEF Traverses
        <5>3. Sound([traversals[i] EXCEPT !.remaining = undefined[i], !.disturbed = TRUE],
                    subscribers[e] \cup {listener})
          BY <1>0, SoundWhenDisturbed
        <5> QED BY <5>1, <5>2, <5>3
      <4>2. CASE ~Traverses(i, e)
        <5>1. traversals'[i] = traversals[i]
          BY <3>1, <4>2
        <5>2. \/ subscribers'[traversals[i].event] = subscribers[traversals[i].event]
              \/ subscribers'[traversals[i].event] = subscribers[traversals[i].event] \cup {listener}
          BY <1>0, <2>1
        <5>3. /\ Sound(traversals[i], subscribers[traversals[i].event])
              /\ Sound(traversals[i], subscribers[traversals[i].event] \cup {listener})
          BY <1>0, SoundUpdates
        <5> QED BY <5>1, <5>2, <5>3
      <4> QED BY <4>1, <4>2
    <3> QED BY <3>1, <3>2 DEF AllSound
  <2> QED BY <1>2, <2>2, <2>3 DEF subscribe
<1>3. ASSUME NEW e \in Events, NEW listener \in Listeners, unsubscribe(e, listener)
      PROVE  AllSound'
  <2>1. subscribers' = [subscribers EXCEPT ![e] = subscribers[e] \ {listener}]
    BY <1>3 DEF unsubscribe
  <2>2. traversals' = [i \in DOMAIN traversals |->
                         IF Traverses(i, e) THEN without(traversals[i], listener)
                         ELSE traversals[i]]
    BY <1>3 DEF unsubscribe
  <2>3. ASSUME NEW i \in DOMAIN traversals
        PROVE  Sound(traversals'[i], subscribers'[traversals'[i].event])
    <3>1. CASE Traverses(i, e)
      <4>1. traversals'[i] = without(traversals[i], listener)
        BY <2>2, <3>1
      <4>2. subscribers'[traversals'[i].event] = subscribers[traversals[i].event] \ {listener}
        <5>1. traversals'[i].event = traversals[i].event
          BY <1>0, <4>1, SameEvent
        <5> QED BY <1>0, <2>1, <3>1, <5>1 DEF Traverses
      <4>3. Sound(without(traversals[i], listener),
                  subscribers[traversals[i].event] \ {listener})
        BY <1>0, SoundUpdates
      <4> QED BY <4>1, <4>2, <4>3
    <3>2. CASE ~Traverses(i, e)
      <4>1. traversals'[i] = traversals[i]
        BY <2>2, <3>2
      <4>2. traversals[i].event # e => subscribers'[traversals[i].event] = subscribers[traversals[i].event]
        BY <1>0, <2>1
      <4>3. traversals[i].event # e \/ ~traversals[i].attached
        BY <3>2 DEF Traverses
      <4> QED BY <1>0, <4>1, <4>2, <4>3, SoundWhenDetached
    <3> QED BY <3>1, <3>2
  <2> QED BY <2>2, <2>3 DEF AllSound
<1>4. CASE reset
  <2>1. traversals' = [i \in DOMAIN traversals |-> [traversals[i] EXCEPT !.attached = FALSE]]
    BY <1>4 DEF reset
  <2>2. ASSUME NEW i \in DOMAIN traversals
        PROVE  Sound(traversals'[i], subscribers'[traversals'[i].event])
    BY <1>0, <2>1 DEF Sound, Traversal
  <2> QED BY <2>1, <2>2 DEF AllSound
<1>5. ASSUME NEW e \in Events, traverse(e), UNCHANGED subscribers PROVE AllSound'
  <2> DEFINE t == [event |-> e, remaining |-> subscribers[e], attached |-> TRUE,
                   handling |-> FALSE, visited |-> {}, stayed |-> subscribers[e],
                   disturbed |-> FALSE]
  <2>1. traversals' = Append(traversals, t)
    BY <1>5 DEF traverse
  <2>2. Sound(t, subscribers[e]) /\ t.event = e
    BY SoundStart
  <2> HIDE DEF t
  <2>3. ASSUME NEW i \in DOMAIN traversals'
        PROVE  Sound(traversals'[i], subscribers[traversals'[i].event])
    <3>1. traversals'[i] = t \/ (i \in DOMAIN traversals /\ traversals'[i] = traversals[i])
      BY <1>0, <2>1, <2>3
    <3> QED BY <1>0, <2>2, <3>1
  <2> QED BY <1>5, <2>3 DEF AllSound
<1>6. ASSUME NEW listener \in Listeners, CallHandler(listener) PROVE AllSound'
  <2>1. /\ Len(traversals) \in DOMAIN traversals
        /\ traversals' = [traversals EXCEPT
                            ![Len(traversals)] = visit(traversals[Len(traversals)], listener)]
        /\ listener \in traversals[Len(traversals)].remaining
        /\ subscribers' = subscribers
    BY <1>0, <1>6, InnermostType DEF CallHandler, Innermost
  <2>2. ASSUME NEW i \in DOMAIN traversals
        PROVE  Sound(traversals'[i], subscribers[traversals'[i].event])
    <3>1. CASE i = Len(traversals)
      <4>1. traversals'[i] = visit(traversals[i], listener)
        BY <1>0, <2>1, <3>1
      <4>2. traversals'[i].event = traversals[i].event
        BY <1>0, <4>1, SameEvent
      <4>3. Sound(visit(traversals[i], listener), subscribers[traversals[i].event])
        BY <1>0, <2>1, <3>1, SoundUpdates
      <4> QED BY <4>1, <4>2, <4>3
    <3>2. CASE i # Len(traversals)
      BY <1>0, <2>1, <3>2
    <3> QED BY <3>1, <3>2
  <2>3. DOMAIN traversals' = DOMAIN traversals
    BY <2>1
  <2> QED BY <2>1, <2>2, <2>3 DEF AllSound
<1>7. CASE NotifyReturns
  <2>1. /\ traversals' = SubSeq(traversals, 1, Len(traversals) - 1)
        /\ traversals # <<>>
        /\ subscribers' = subscribers
    BY <1>7 DEF NotifyReturns
  <2>2. ASSUME NEW i \in DOMAIN traversals'
        PROVE  i \in DOMAIN traversals /\ traversals'[i] = traversals[i]
    BY <1>0, <2>1
  <2> QED BY <1>0, <2>1, <2>2 DEF AllSound
<1>8. ASSUME NEW e \in Events, notify(e) \/ publish(e) PROVE AllSound'
  BY <1>5, <1>8 DEF notify, publish
<1>9. [Next]_vars => UNCHANGED <<traversals, subscribers>>
        \/ (\E e \in Events, listener \in Listeners : subscribe(e, listener) \/ unsubscribe(e, listener))
        \/ reset \/ NotifyReturns
        \/ (\E e \in Events : notify(e) \/ publish(e))
        \/ (\E listener \in Listeners : CallHandler(listener))
  BY DEF Next, vars, register, unregister, unregisterAll, setStatus, setStatusOfAll,
         record, clear
<1> QED
  BY <1>1, <1>2, <1>3, <1>4, <1>6, <1>7, <1>8, <1>9

(* Whatever the handlers do, a listener that stays subscribed is called    *)
(* once by every publication (etrace.notify), unless a handler adds a new  *)
(* listener to the same event meanwhile.                                   *)
THEOREM ListenersAreCalledOnce == Spec => []EveryoneOnce
<1>1. Init => AllSound
  BY DEF Init, AllSound
<1>2. TypeOK /\ AllSound /\ [Next]_vars => AllSound'
  BY SoundStep
<1> QED
  BY <1>1, <1>2, TypeCorrect, SoundTraversals, PTL DEF Spec

(* And a listener that has unsubscribed is not called any more.            *)
THEOREM UnsubscribedAreNotCalled == Spec => []OnlySubscribersAreCalled
<1>1. Init => AllSound
  BY DEF Init, AllSound
<1>2. TypeOK /\ AllSound /\ [Next]_vars => AllSound'
  BY SoundStep
<1> QED
  BY <1>1, <1>2, TypeCorrect, SoundTraversals, PTL DEF Spec
=============================================================================
