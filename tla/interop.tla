------------------------------- MODULE interop -------------------------------
(***************************************************************************)
(* Queues of deferred events (src/Runtime/Bindings/FFI/interop).  Native    *)
(* callbacks push event records, Lua pops them later.  A queue is a C++     *)
(* object that Lua creates and destroys and that native code reaches        *)
(* through raw pointers; "fault" records that a deleted queue was touched.  *)
(*                                                                         *)
(* An event is the type tag of the union and the part of its payload that   *)
(* the properties tell apart: the object it is about (a size, a geometry, a *)
(* texture) and, for render commands, the texture they draw with.           *)
(***************************************************************************)
EXTENDS Naturals, Sequences, FiniteSetsExt

CONSTANTS
    Queues,      \* handles that queue_create may return
    NULL,        \* a null pointer, or no payload
    MaxPending,  \* bound: callbacks come only while fewer events are queued,
    MaxPlain     \* those whose payload no property reads, while fewer still are

ASSUME NullIsNoQueue == NULL \notin Queues

VARIABLES
    lifetime, \* per queue: "none", "live" or "deleted"
    events,   \* per queue: its contents
    fault     \* a deleted queue was used

interopVars == <<lifetime, events, fault>>

WindowEventTypes ==
    {"WINDOW_MOVE_EVENT", "WINDOW_RESIZE_EVENT", "WINDOW_CLOSE_EVENT",
     "FRAMEBUFFER_RESIZE_EVENT", "CONTENT_SCALE_EVENT", "WINDOW_REFRESH_EVENT",
     "WINDOW_FOCUS_EVENT", "WINDOW_ICONIFY_EVENT", "WINDOW_MAXIMIZE_EVENT"}

InputEventTypes ==
    {"MOUSE_BUTTON_EVENT", "CURSOR_MOVE_EVENT", "CURSOR_ENTER_EVENT",
     "SCROLL_EVENT", "KEYBOARD_EVENT", "CHARACTER_INPUT_EVENT"}

RenderCommandTypes ==
    {"GEOMETRY_COMPILATION_EVENT", "GEOMETRY_RENDER_EVENT",
     "GEOMETRY_RELEASE_EVENT", "SCISSORTEST_STATUS_EVENT",
     "SCISSORTEST_REGION_EVENT", "TEXTURE_LOAD_EVENT",
     "TEXTURE_GENERATION_EVENT", "TEXTURE_RELEASE_EVENT",
     "TRANSFORMATION_UPDATE_EVENT"}

EventType ==
    {"ERROR_EVENT"} \cup WindowEventTypes \cup InputEventTypes \cup RenderCommandTypes

(* The structs that GLFW's callbacks fill in ... *)
WindowEvent(type, details) ==
    [type |-> type, details |-> details, texture |-> NULL]

(* ... and those of the render interface. *)
RenderCommand(type, details, texture) ==
    [type |-> type, details |-> details, texture |-> texture]

ErrorEvent ==
    [type |-> "ERROR_EVENT", details |-> "ERROR_POPPING_EMPTY_QUEUE", texture |-> NULL]

-----------------------------------------------------------------------------
(* Mutant of Push: new events overtake the ones that wait. *)
Push_front(q, new) ==
    IF lifetime[q] = "live"
      THEN events' = [events EXCEPT ![q] = new \o @] /\ UNCHANGED <<lifetime, fault>>
      ELSE fault' = TRUE /\ UNCHANGED <<lifetime, events>>

(* queue->push, in this order, through a pointer that may dangle. *)
Push(q, new) ==
    IF lifetime[q] = "live"
      THEN events' = [events EXCEPT ![q] = @ \o new] /\ UNCHANGED <<lifetime, fault>>
      ELSE fault' = TRUE /\ UNCHANGED <<lifetime, events>>

queue_create(q) ==
    /\ lifetime[q] = "none"
    /\ lifetime' = [lifetime EXCEPT ![q] = "live"]
    /\ UNCHANGED <<events, fault>>

queue_size(q) == IF q = NULL THEN 0 ELSE Len(events[q])

(* Events that wait in any queue. *)
Pending == MapThenSumSet(queue_size, Queues)

queue_push_event(q, event) ==
    IF q = NULL THEN UNCHANGED interopVars ELSE Push(q, <<event>>)

PoppedEvent(q) == IF events[q] = <<>> THEN ErrorEvent ELSE Head(events[q])

queue_pop_event(q) ==
    IF lifetime[q] = "live"
      THEN /\ events' = IF events[q] = <<>> THEN events
                        ELSE [events EXCEPT ![q] = Tail(@)]
           /\ UNCHANGED <<lifetime, fault>>
      ELSE fault' = TRUE /\ UNCHANGED <<lifetime, events>>

queue_destroy(q) ==
    IF lifetime[q] = "live"
      THEN /\ lifetime' = [lifetime EXCEPT ![q] = "deleted"]
           /\ events' = [events EXCEPT ![q] = <<>>]
           /\ UNCHANGED fault
      ELSE fault' = TRUE /\ UNCHANGED <<lifetime, events>>

InteropInit ==
    /\ lifetime = [q \in Queues |-> "none"]
    /\ events = [q \in Queues |-> <<>>]
    /\ fault = FALSE
=============================================================================
