--------------------------------- MODULE glfw ---------------------------------
(***************************************************************************)
(* A GLFW window that reports to a queue (src/Runtime/Bindings/FFI/glfw).   *)
(* glfw_register_events stores the queue as the window's user pointer and   *)
(* installs fifteen callbacks; each of them looks the pointer up again when *)
(* it runs and pushes one event.  There is no way to unregister.            *)
(***************************************************************************)
EXTENDS interop

CONSTANTS
    Observed,  \* the event types that happen in this instance
    Values     \* sizes of the framebuffer, and content scales

ASSUME ObservedAreWindowEvents ==
    Observed \subseteq WindowEventTypes \cup InputEventTypes

VARIABLES
    window,      \* "none", "open" or "destroyed"
    userPointer, \* the window's user pointer
    view         \* what the window measures: framebuffer size and content scale

glfwVars == <<window, userPointer, view>>

(* The events that carry what the user interface has to follow. *)
ViewTypes == {"FRAMEBUFFER_RESIZE_EVENT", "CONTENT_SCALE_EVENT"}

glfw_create_window ==
    /\ window = "none"
    /\ window' = "open"
    /\ UNCHANGED <<userPointer, view>>
    /\ UNCHANGED interopVars

(* Mutant of glfw_register_events: the first queue stays registered. *)
glfw_register_events_once(q) ==
    /\ window = "open" /\ q # NULL
    /\ userPointer' = IF userPointer = NULL THEN q ELSE userPointer
    /\ UNCHANGED <<window, view>>
    /\ UNCHANGED interopVars

glfw_register_events(q) ==
    /\ window = "open" /\ q # NULL
    /\ userPointer' = q
    /\ UNCHANGED <<window, view>>
    /\ UNCHANGED interopVars

(* A window is moved, resized, ...: glfwPollEvents runs its callback, once it has
   one.  Before that nobody is told. *)
OnWindowEvent(type, value) ==
    /\ window = "open"
    /\ type \in ViewTypes => view[type] # value
    /\ view' = IF type \in ViewTypes THEN [view EXCEPT ![type] = value] ELSE view
    /\ \/ /\ userPointer # NULL /\ Pending < MaxPending
          /\ Push(userPointer, <<WindowEvent(type, IF type \in ViewTypes THEN value ELSE NULL)>>)
       \/ userPointer = NULL /\ UNCHANGED interopVars
    /\ UNCHANGED <<window, userPointer>>

(* ... or of one that has the input focus. *)
OnInputEvent(type) ==
    /\ window = "open" /\ userPointer # NULL
    /\ Pending < MaxPlain
    /\ Push(userPointer, <<WindowEvent(type, NULL)>>)
    /\ UNCHANGED glfwVars

(* What the window measures in a new instance, and when it is gone. *)
Unmeasured == [type \in ViewTypes |-> CHOOSE v \in Values : TRUE]

(* GLFW forgets a window's callbacks before it destroys the window. *)
glfw_destroy_window ==
    /\ window = "open"
    /\ window' = "destroyed"
    /\ userPointer' = NULL /\ view' = Unmeasured
    /\ UNCHANGED interopVars

GlfwInit ==
    /\ window = "none"
    /\ userPointer = NULL
    /\ view = Unmeasured
=============================================================================
