------------------------------- MODULE etrace -------------------------------
(***************************************************************************)
(* The event bus (etrace.lua): events are registered, enabled for logging, *)
(* subscribed to and published.                                            *)
(*                                                                         *)
(* notify traverses the subscribers of an event with pairs and calls their *)
(* handlers, which are arbitrary Lua code: they may call any function of   *)
(* etrace, also for the event that is being published.  So notifications   *)
(* nest, and the table that a traversal is in the middle of can change     *)
(* under it.  Clearing an entry is fine: the traversal skips it, and the   *)
(* slot of its key remains and is used again if the listener comes back.   *)
(* Adding a new key is not: LuaJIT may rehash the table, and what the      *)
(* traversal visits after that is undefined.  etrace.reset drops the       *)
(* tables, but a traversal that is in progress goes on with its own.       *)
(*                                                                         *)
(* A call that raises an error changes nothing and is left out; a call for *)
(* a list of events amounts to calls for the events of the list.           *)
(***************************************************************************)
EXTENDS Naturals, Sequences

CONSTANTS
    Events,
    Listeners,
    isForceEnabled,     \* are events logged even if they are not enabled?
    MaxDepth,           \* bound: notifications in progress
    MaxLog              \* bound: length of the event log

ASSUME BusAssumption ==
    /\ isForceEnabled \in BOOLEAN
    /\ MaxDepth \in Nat
    /\ MaxLog \in Nat

VARIABLES
    registeredEvents,   \* "unknown", or whether the event is logged
    eventLog,
    subscribers,        \* the listeners of each event
    keys,               \* external: the keys with a slot in its table
    traversals          \* the calls of notify in progress, the innermost last

vars == <<registeredEvents, eventLog, subscribers, keys, traversals>>

(***************************************************************************)
(* A traversal: the listeners it has yet to visit, whether its table is    *)
(* still the one in subscribers, and whether a handler of it is running.   *)
(* As history: the listeners it has visited, those that have been in the   *)
(* table all the time, and whether an entry was added meanwhile.           *)
(***************************************************************************)
Traversal ==
    [event : Events, remaining : SUBSET Listeners, attached : BOOLEAN,
     handling : BOOLEAN, visited : SUBSET Listeners, stayed : SUBSET Listeners,
     disturbed : BOOLEAN]

Init ==
    /\ registeredEvents = [e \in Events |-> "unknown"]
    /\ eventLog = <<>>
    /\ subscribers = [e \in Events |-> {}]
    /\ keys = [e \in Events |-> {}]
    /\ traversals = <<>>

TypeOK ==
    /\ registeredEvents \in [Events -> {"unknown", "disabled", "enabled"}]
    /\ eventLog \in Seq(Events)
    /\ subscribers \in [Events -> SUBSET Listeners]
    /\ keys \in [Events -> SUBSET Listeners]
    /\ traversals \in Seq(Traversal)

Innermost == traversals[Len(traversals)]

(* User code runs in handlers, and while nothing is being published. *)
UserCodeRuns == traversals # <<>> => Innermost.handling

isKnown(e) == registeredEvents[e] # "unknown"

-----------------------------------------------------------------------------
(* The registry and the log.                                               *)

register(e) ==
    /\ UserCodeRuns
    /\ ~isKnown(e)
    /\ registeredEvents' = [registeredEvents EXCEPT ![e] = "disabled"]
    /\ UNCHANGED <<eventLog, subscribers, keys, traversals>>

(* Unregistering an event does not remove its subscribers. *)
unregister(e) ==
    /\ UserCodeRuns
    /\ isKnown(e)
    /\ registeredEvents' = [registeredEvents EXCEPT ![e] = "unknown"]
    /\ UNCHANGED <<eventLog, subscribers, keys, traversals>>

unregisterAll ==
    /\ UserCodeRuns
    /\ registeredEvents' = [e \in Events |-> "unknown"]
    /\ UNCHANGED <<eventLog, subscribers, keys, traversals>>

(* enable and disable, for one event. *)
setStatus(e, status) ==
    /\ UserCodeRuns
    /\ isKnown(e)
    /\ registeredEvents' = [registeredEvents EXCEPT ![e] = status]
    /\ UNCHANGED <<eventLog, subscribers, keys, traversals>>

(* enable and disable, for all known events. *)
setStatusOfAll(status) ==
    /\ UserCodeRuns
    /\ registeredEvents' = [e \in Events |-> IF isKnown(e) THEN status ELSE "unknown"]
    /\ UNCHANGED <<eventLog, subscribers, keys, traversals>>

clear ==
    /\ UserCodeRuns
    /\ eventLog' = <<>>
    /\ UNCHANGED <<registeredEvents, subscribers, keys, traversals>>

reset ==
    /\ UserCodeRuns
    /\ registeredEvents' = [e \in Events |-> "unknown"]
    /\ eventLog' = <<>>
    /\ subscribers' = [e \in Events |-> {}]
    /\ keys' = [e \in Events |-> {}]
    /\ traversals' = [i \in DOMAIN traversals |->
                        [traversals[i] EXCEPT !.attached = FALSE]]

-----------------------------------------------------------------------------
(* Subscriptions.                                                          *)

(* Is traversal i in the middle of the current table of event e? *)
Traverses(i, e) == traversals[i].event = e /\ traversals[i].attached

(* The slot of the key is used again: a traversal visits it unless it has *)
(* passed it already.                                                     *)
reuseSlot(e, listener) ==
    /\ listener \in keys[e]
    /\ \E ahead \in SUBSET DOMAIN traversals :
          traversals' = [i \in DOMAIN traversals |->
             IF Traverses(i, e) /\ i \in ahead /\ listener \notin traversals[i].visited
             THEN [traversals[i] EXCEPT !.remaining = @ \cup {listener}]
             ELSE traversals[i]]
    /\ UNCHANGED keys

(* A slot is added to the table, which may be rehashed for it. *)
addSlot(e, listener) ==
    /\ listener \notin keys[e]
    /\ \E old \in {keys[e], subscribers[e]} :
          keys' = [keys EXCEPT ![e] = old \cup {listener}]
    /\ \E undefined \in [DOMAIN traversals -> SUBSET (subscribers[e] \cup {listener})] :
          traversals' = [i \in DOMAIN traversals |->
             IF Traverses(i, e)
             THEN [traversals[i] EXCEPT !.remaining = undefined[i], !.disturbed = TRUE]
             ELSE traversals[i]]

subscribe(e, listener) ==
    /\ UserCodeRuns
    /\ isKnown(e)
    /\ listener \notin subscribers[e]
    /\ subscribers' = [subscribers EXCEPT ![e] = subscribers[e] \cup {listener}]
    /\ reuseSlot(e, listener) \/ addSlot(e, listener)
    /\ UNCHANGED <<registeredEvents, eventLog>>

(* Mutant of without: traversals go on with a copy of the table. *)
without_copied(traversal, listener) ==
    [traversal EXCEPT !.stayed = @ \ {listener}]

(* The rest of a traversal once an entry of its table has been cleared. *)
without(traversal, listener) ==
    [traversal EXCEPT !.remaining = @ \ {listener}, !.stayed = @ \ {listener}]

unsubscribe(e, listener) ==
    /\ UserCodeRuns
    /\ isKnown(e)
    /\ listener \in subscribers[e]
    /\ subscribers' = [subscribers EXCEPT ![e] = subscribers[e] \ {listener}]
    /\ traversals' = [i \in DOMAIN traversals |->
                        IF Traverses(i, e) THEN without(traversals[i], listener)
                        ELSE traversals[i]]
    /\ UNCHANGED <<registeredEvents, eventLog, keys>>

-----------------------------------------------------------------------------
(* Notifications.                                                          *)

traverse(e) ==
    /\ Len(traversals) < MaxDepth
    /\ traversals' = Append(traversals,
          [event |-> e, remaining |-> subscribers[e], attached |-> TRUE,
           handling |-> FALSE, visited |-> {}, stayed |-> subscribers[e],
           disturbed |-> FALSE])

(* notify does not ask whether the event is registered. *)
notify(e) ==
    /\ UserCodeRuns
    /\ traverse(e)
    /\ UNCHANGED <<registeredEvents, eventLog, subscribers, keys>>

addEntry(e) ==
    /\ isKnown(e)
    /\ Len(eventLog) < MaxLog
    /\ eventLog' = IF registeredEvents[e] = "enabled" \/ isForceEnabled
                   THEN Append(eventLog, e) ELSE eventLog

record(e) ==
    /\ UserCodeRuns
    /\ addEntry(e)
    /\ UNCHANGED <<registeredEvents, subscribers, keys, traversals>>

publish(e) ==
    /\ UserCodeRuns
    /\ addEntry(e)
    /\ traverse(e)
    /\ UNCHANGED <<registeredEvents, subscribers, keys>>

(* Mutant of visit: the traversal ends after the first listener. *)
visit_first(traversal, listener) ==
    [traversal EXCEPT !.remaining = {}, !.visited = @ \cup {listener},
                      !.handling = TRUE]

visit(traversal, listener) ==
    [traversal EXCEPT !.remaining = @ \ {listener},
                      !.visited = @ \cup {listener}, !.handling = TRUE]

(* The innermost traversal goes on to its next listener and calls it. *)
CallHandler(listener) ==
    /\ traversals # <<>>
    /\ listener \in Innermost.remaining
    /\ traversals' = [traversals EXCEPT ![Len(traversals)] = visit(@, listener)]
    /\ UNCHANGED <<registeredEvents, eventLog, subscribers, keys>>

NotifyReturns ==
    /\ traversals # <<>>
    /\ Innermost.remaining = {}
    /\ traversals' = SubSeq(traversals, 1, Len(traversals) - 1)
    /\ UNCHANGED <<registeredEvents, eventLog, subscribers, keys>>

-----------------------------------------------------------------------------
Next ==
    \/ \E e \in Events :
          \/ register(e) \/ unregister(e)
          \/ \E status \in {"enabled", "disabled"} : setStatus(e, status)
          \/ \E listener \in Listeners : subscribe(e, listener) \/ unsubscribe(e, listener)
          \/ record(e) \/ notify(e) \/ publish(e)
    \/ \E status \in {"enabled", "disabled"} : setStatusOfAll(status)
    \/ unregisterAll \/ clear \/ reset
    \/ \E listener \in Listeners : CallHandler(listener)
    \/ NotifyReturns

Spec == Init /\ [][Next]_vars

-----------------------------------------------------------------------------
(* Properties.                                                             *)

(* As long as no handler subscribes a new listener to the event that is    *)
(* being published, every listener that stays subscribed throughout has    *)
(* been called or will be, and nobody is called twice, however             *)
(* publications nest and whoever is unsubscribed meanwhile.                *)
EveryoneOnce ==
    \A i \in DOMAIN traversals : ~traversals[i].disturbed =>
        /\ traversals[i].stayed \subseteq traversals[i].visited \cup traversals[i].remaining
        /\ traversals[i].visited \cap traversals[i].remaining = {}

(* A listener that has unsubscribed is not called any more, not even by a  *)
(* publication that was already in progress.  (A reset is different: it    *)
(* leaves publications in progress alone.)                                 *)
OnlySubscribersAreCalled ==
    \A i \in DOMAIN traversals : traversals[i].attached =>
        traversals[i].remaining \subseteq subscribers[traversals[i].event]

(* "should call all subscribed listeners with the event name and payload"  *)
(* (etrace-library.spec.lua:658): nobody who stays subscribed is left out, *)
(* whatever the handlers do.                                               *)
AllSubscribersAreCalled ==
    \A i \in DOMAIN traversals :
        traversals[i].stayed \subseteq traversals[i].visited \cup traversals[i].remaining
=============================================================================
