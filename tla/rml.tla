--------------------------------- MODULE rml ---------------------------------
(***************************************************************************)
(* The user interface: RML (src/Runtime/Bindings/FFI/rml) renders through    *)
(* RenderInterface_WebGPU (RmlUi_Renderer_WebGPU.cpp), which puts every      *)
(* command into a queue; a window puts its events into a queue; the Lua      *)
(* script drains both, draws, and forwards window events to the context.     *)
(*                                                                         *)
(* The script is any script that keeps the order of the integration tests    *)
(* (Tests/Integration/glfw-window-events.lua, rml-glfw-wgpu-setup.lua): it   *)
(* destroys an interface after RML has let go of it, a queue (drained or not) *)
(* after the window and the interface that push into it, and moves a window  *)
(* to another queue only once the old one is drained.                        *)
(***************************************************************************)
EXTENDS glfw, SequencesExt

CONSTANTS
    Geometries, Textures,
    Counts,  \* vertices, indices or pixels of a resource
    DefaultScale \* the density of a context that was told of none

ASSUME NullIsNoResource == NULL \notin Geometries \cup Textures
ASSUME ResourcesAreFinite == IsFiniteSet(Geometries \cup Textures)
ASSUME ScaleIsAValue == DefaultScale \in Values
(* CompileGeometry asserts it; an image that was decoded has a pixel, and RML
   generates no texture without one. *)
ASSUME CountsArePositive == Counts \subseteq Nat \ {0}

VARIABLES
    ui,           \* RML's own state, see RmlState
    contextView,  \* dimensions and density the context lays out for
    untold,       \* history: measures of the window that the context was not told
    resource,     \* per geometry and texture: "none", "live" or "released"
    gpu,          \* bytes of device memory behind each geometry and texture
    attached,     \* the queue the script registered its window with
    held          \* geometries and textures the script keeps GPU objects of

rmlVars == <<ui, contextView, untold, resource, gpu>>
scriptVars == <<attached, held>>
vars == <<interopVars, glfwVars, rmlVars, scriptVars>>

(* What a context would show that was told nothing. *)
NoView == [type \in ViewTypes |-> DefaultScale]

RmlState ==
    [initialised : BOOLEAN,                     \* after Initialise, before Shutdown
     print       : {"builtin", "rml"},          \* the global Lua function
     system      : {"none", "live", "deleted"}, \* the interface objects
     render      : {"none", "live", "deleted"},
     queue       : Queues \cup {NULL},          \* m_deferredEventsQueue
     installed   : SUBSET {"system", "render"}, \* the interfaces RML points to
     fontLoaded  : BOOLEAN,
     context     : {"none", "live"},            \* the script drops its pointer
     document    : {"none", "loaded", "shown"}] \* when it removes a context

Resources == Geometries \cup Textures
Live(kind) == {r \in kind : resource[r] = "live"}

TypeOK ==
    /\ lifetime \in [Queues -> {"none", "live", "deleted"}]
    /\ \A q \in Queues : \A i \in DOMAIN events[q] : events[q][i].type \in EventType
    /\ fault \in BOOLEAN
    /\ window \in {"none", "open", "destroyed"}
    /\ userPointer \in Queues \cup {NULL}
    /\ view \in [ViewTypes -> Values]
    /\ ui \in RmlState
    /\ contextView \in [ViewTypes -> Values]
    /\ untold \subseteq ViewTypes
    /\ resource \in [Resources -> {"none", "live", "released"}]
    /\ gpu \in [Resources -> Nat]
    /\ attached \in Queues \cup {NULL}
    /\ held \subseteq Resources

-----------------------------------------------------------------------------
(* RenderInterface_WebGPU *)

(* WebGPU wants buffer sizes in multiples of four. *)
GetAlignedBufferSize(unalignedSize) ==
    unalignedSize + ((4 - (unalignedSize % 4)) % 4)

(* Twenty bytes per Rml::Vertex ... *)
CreateVertexBuffer(num_vertices) == GetAlignedBufferSize(20 * num_vertices)

(* ... and four per index. *)
CreateIndexBuffer(num_indices) == GetAlignedBufferSize(4 * num_indices)

(* RGBA, one mip level. *)
CreateTexture(width, height) == width * height * 4

(* A command of the render interface, pushed from inside RML. *)
Emit(commands) ==
    IF ui.render = "live" THEN Push(ui.queue, commands)
    ELSE fault' = TRUE /\ UNCHANGED <<lifetime, events>>

(* RML calls the render interface while it updates or renders a context. *)
InContextCall ==
    /\ ui.context = "live" /\ ui.document = "shown"
    /\ Pending < MaxPending

(* A resource whose device memory is there before the script learns of it. *)
Acquire(r, bytes, type) ==
    /\ Emit(<<RenderCommand(type, r, NULL)>>)
    /\ resource' = [resource EXCEPT ![r] = "live"]
    /\ gpu' = [gpu EXCEPT ![r] = bytes]
    /\ UNCHANGED <<ui, contextView, untold, glfwVars, scriptVars>>

(* One whose device memory the script has to free when it learns of it. *)
Release(r, type) ==
    /\ Emit(<<RenderCommand(type, r, NULL)>>)
    /\ resource' = [resource EXCEPT ![r] = "released"]
    /\ UNCHANGED <<ui, contextView, untold, gpu, glfwVars, scriptVars>>

(* The struct that describes the geometry is allocated here; the script gets a
   copy of it, never its address. *)
CompileGeometry(g, num_vertices, num_indices) ==
    /\ InContextCall /\ resource[g] = "none"
    /\ num_vertices > 0 /\ num_indices > 0
    /\ Acquire(g, CreateVertexBuffer(num_vertices) + CreateIndexBuffer(num_indices),
               "GEOMETRY_COMPILATION_EVENT")

RenderGeometry(g, texture) ==
    /\ InContextCall /\ resource[g] = "live"
    /\ Emit(<<RenderCommand("GEOMETRY_RENDER_EVENT", g, texture)>>)
    /\ UNCHANGED <<rmlVars, glfwVars, scriptVars>>

ReleaseGeometry(g) ==
    /\ InContextCall /\ resource[g] = "live"
    /\ Release(g, "GEOMETRY_RELEASE_EVENT")

EnableScissorRegion ==
    /\ InContextCall /\ Pending < MaxPlain
    /\ Emit(<<RenderCommand("SCISSORTEST_STATUS_EVENT", NULL, NULL)>>)
    /\ UNCHANGED <<rmlVars, glfwVars, scriptVars>>

SetScissorRegion ==
    /\ InContextCall /\ Pending < MaxPlain
    /\ Emit(<<RenderCommand("SCISSORTEST_REGION_EVENT", NULL, NULL)>>)
    /\ UNCHANGED <<rmlVars, glfwVars, scriptVars>>

(* An image that cannot be loaded yields no texture and no event. *)
LoadTexture(t, width, height) ==
    /\ InContextCall /\ resource[t] = "none"
    /\ Acquire(t, CreateTexture(width, height), "TEXTURE_LOAD_EVENT")

(* RML generates textures for the glyphs of a font. *)
GenerateTexture(t, width, height) ==
    /\ InContextCall /\ resource[t] = "none" /\ ui.fontLoaded
    /\ Acquire(t, CreateTexture(width, height), "TEXTURE_GENERATION_EVENT")

(* Mutant of ReleaseTexture: no event is pushed. *)
ReleaseTexture_silent(t) ==
    /\ InContextCall /\ resource[t] = "live"
    /\ resource' = [resource EXCEPT ![t] = "released"]
    /\ UNCHANGED <<ui, contextView, untold, gpu, glfwVars, scriptVars, interopVars>>

ReleaseTexture(t) ==
    /\ InContextCall /\ resource[t] = "live"
    /\ Release(t, "TEXTURE_RELEASE_EVENT")

(* The payload of a transformation as indices into the matrix: the fourth
   element is skipped, so the last one read lies behind the matrix. *)
TransformPayload == [i \in 1..16 |-> IF i <= 3 THEN i - 1 ELSE i]

SetTransform ==
    /\ InContextCall /\ Pending < MaxPlain
    /\ Emit(<<RenderCommand("TRANSFORMATION_UPDATE_EVENT", TransformPayload, NULL)>>)
    /\ UNCHANGED <<rmlVars, glfwVars, scriptVars>>

-----------------------------------------------------------------------------
(* rml_ffi.cpp *)

(* The binding changes RML's own state only. *)
Becomes(state) ==
    ui' = state /\ UNCHANGED <<contextView, untold, resource, gpu, glfwVars, scriptVars>>

(* RML replaces print, and the binding puts the saved one back.  RML asks its
   system interface for the time. *)
rml_initialise ==
    LET original_print == ui.print
        overwritten == [ui EXCEPT !.initialised = TRUE, !.print = "rml"]
    IN /\ ~ui.initialised
       /\ Becomes([overwritten EXCEPT !.print = original_print])
       /\ fault' = (fault \/ ("system" \in ui.installed /\ ui.system # "live"))
       /\ UNCHANGED <<lifetime, events>>

(* Releases of everything in a set, in some order. *)
ReleaseAll(set) ==
    LET order == SetToSeq(set)
        TypeOf(r) == IF r \in Geometries THEN "GEOMETRY_RELEASE_EVENT"
                                         ELSE "TEXTURE_RELEASE_EVENT"
    IN /\ IF set = {} THEN UNCHANGED interopVars
          ELSE Emit([i \in DOMAIN order |-> RenderCommand(TypeOf(order[i]), order[i], NULL)])
       /\ resource' = [r \in Resources |-> IF r \in set THEN "released" ELSE resource[r]]

(* Nothing is known of a context that is gone. *)
ForgetContext == contextView' = NoView /\ untold' = {}

(* Shutting down destroys the contexts and releases what is left, through the
   render interface; RML forgets its interfaces and fonts. *)
rml_shutdown ==
    /\ ui.initialised
    /\ ReleaseAll(Live(Resources))
    /\ ui' = [ui EXCEPT !.initialised = FALSE, !.installed = {}, !.fontLoaded = FALSE,
                        !.context = "none", !.document = "none"]
    /\ ForgetContext
    /\ UNCHANGED <<gpu, glfwVars, scriptVars>>

rml_create_glfw_system_interface ==
    /\ ui.system = "none"
    /\ Becomes([ui EXCEPT !.system = "live"]) /\ UNCHANGED interopVars

rml_create_wgpu_render_interface(queue) ==
    /\ ui.render = "none" /\ queue # NULL
    /\ Becomes([ui EXCEPT !.render = "live", !.queue = queue]) /\ UNCHANGED interopVars

(* delete; the script does it when RML no longer points to the interface. *)
rml_destroy_glfw_system_interface ==
    /\ ui.system = "live" /\ "system" \notin ui.installed
    /\ Becomes([ui EXCEPT !.system = "deleted"]) /\ UNCHANGED interopVars

rml_destroy_wgpu_render_interface ==
    /\ ui.render = "live" /\ "render" \notin ui.installed
    /\ Becomes([ui EXCEPT !.render = "deleted"]) /\ UNCHANGED interopVars

rml_set_system_interface ==
    /\ ui.system = "live"
    /\ Becomes([ui EXCEPT !.installed = @ \cup {"system"}]) /\ UNCHANGED interopVars

rml_set_render_interface ==
    /\ ui.render = "live"
    /\ Becomes([ui EXCEPT !.installed = @ \cup {"render"}]) /\ UNCHANGED interopVars

(* Without a font engine, before rml_initialise, nothing is loaded. *)
rml_load_font_face ==
    /\ ui.initialised
    /\ Becomes([ui EXCEPT !.fontLoaded = TRUE]) /\ UNCHANGED interopVars

(* The script passes a size, and no scale; RML returns no context unless it is
   initialised and has a render interface.  What differs from the window now,
   the context learns only from an event that is still queued. *)
rml_context_create(size) ==
    LET initial == [type \in ViewTypes |->
                      IF type = "FRAMEBUFFER_RESIZE_EVENT" THEN size ELSE DefaultScale]
        announced == IF attached = NULL THEN {}
                     ELSE {events[attached][i].type : i \in DOMAIN events[attached]}
    IN /\ ui.initialised /\ "render" \in ui.installed /\ ui.context = "none"
       /\ ui' = [ui EXCEPT !.context = "live"]
       /\ contextView' = initial
       /\ untold' = {type \in ViewTypes : initial[type] # view[type]} \ announced
       /\ UNCHANGED <<resource, gpu, interopVars, glfwVars, scriptVars>>

rml_context_load_document ==
    /\ ui.context = "live" /\ ui.document = "none"
    /\ Becomes([ui EXCEPT !.document = "loaded"]) /\ UNCHANGED interopVars

rml_document_show ==
    /\ ui.document = "loaded"
    /\ Becomes([ui EXCEPT !.document = "shown"]) /\ UNCHANGED interopVars

(* The documents of the context go with it, and so does their geometry. *)
rml_context_remove ==
    /\ ui.context = "live"
    /\ ReleaseAll(Live(Geometries))
    /\ ui' = [ui EXCEPT !.context = "none", !.document = "none"]
    /\ ForgetContext
    /\ UNCHANGED <<gpu, glfwVars, scriptVars>>

(* Mutant of rml_process_callback: the context is not told. *)
rml_process_callback_ignored(event) == contextView' = contextView

(* The rml_process_*_callback functions: a null context ignores the event. *)
rml_process_callback(event) ==
    contextView' = IF ui.context = "live" /\ event.type \in ViewTypes
                     THEN [contextView EXCEPT ![event.type] = event.details]
                     ELSE contextView

-----------------------------------------------------------------------------
(* The Lua script *)

RegisterWindow(q) ==
    /\ lifetime[q] = "live"
    /\ attached # NULL => queue_size(attached) = 0
    /\ glfw_register_events(q)
    /\ attached' = q
    /\ UNCHANGED <<rmlVars, held>>

(* One turn of the loop that drains a queue. *)
DrainNext(q) ==
    LET event == PoppedEvent(q) IN
    /\ lifetime[q] = "live"
    /\ queue_pop_event(q)
    /\ rml_process_callback(event)
    /\ held' = CASE event.type \in {"GEOMETRY_COMPILATION_EVENT", "TEXTURE_LOAD_EVENT",
                                    "TEXTURE_GENERATION_EVENT"}
                      -> held \cup {event.details}
                 [] event.type \in {"GEOMETRY_RELEASE_EVENT", "TEXTURE_RELEASE_EVENT"}
                      -> held \ {event.details}
                 [] OTHER -> held
    /\ gpu' = [r \in Resources |-> IF r \in held \ held' THEN 0 ELSE gpu[r]]
    /\ UNCHANGED <<ui, untold, resource, glfwVars, attached>>

(* Events of the script's own. *)
PushOwnEvent(q) ==
    /\ q # NULL => lifetime[q] = "live" /\ Pending < MaxPlain
    /\ queue_push_event(q, WindowEvent("WINDOW_CLOSE_EVENT", NULL))
    /\ UNCHANGED <<glfwVars, rmlVars, scriptVars>>

DestroyQueue(q) ==
    /\ lifetime[q] = "live"
    /\ window = "open" => attached # q
    /\ ui.render = "live" => ui.queue # q
    /\ queue_destroy(q)
    /\ UNCHANGED <<glfwVars, rmlVars, scriptVars>>

-----------------------------------------------------------------------------
Init ==
    /\ InteropInit /\ GlfwInit
    /\ ui = [initialised |-> FALSE, print |-> "builtin", system |-> "none",
             render |-> "none", queue |-> NULL, installed |-> {}, fontLoaded |-> FALSE,
             context |-> "none", document |-> "none"]
    /\ contextView = NoView /\ untold = {}
    /\ resource = [r \in Resources |-> "none"]
    /\ gpu = [r \in Resources |-> 0]
    /\ attached = NULL /\ held = {}

InteropNext ==
    \E q \in Queues :
        \/ queue_create(q) /\ UNCHANGED <<glfwVars, rmlVars, scriptVars>>
        \/ RegisterWindow(q) \/ DrainNext(q) \/ PushOwnEvent(q) \/ DestroyQueue(q)

(* Without a callback the context is not told; with one, the event that is now
   queued tells it. *)
WindowChanges(type, value) ==
    /\ OnWindowEvent(type, value)
    /\ untold' = IF userPointer = NULL /\ ui.context = "live"
                    THEN untold \cup ({type} \cap ViewTypes)
                    ELSE untold \ {type}
    /\ UNCHANGED <<ui, contextView, resource, gpu, scriptVars>>

GlfwNext ==
    \/ \E type \in Observed \cap WindowEventTypes, v \in Values : WindowChanges(type, v)
    \/ /\ \/ glfw_create_window \/ glfw_destroy_window
          \/ \E type \in Observed \cap InputEventTypes : OnInputEvent(type)
       /\ UNCHANGED <<rmlVars, scriptVars>>

RendererNext ==
    \/ \E g \in Geometries :
         \/ \E n, m \in Counts : CompileGeometry(g, n, m)
         \/ \E t \in Live(Textures) \cup {NULL} : RenderGeometry(g, t)
         \/ ReleaseGeometry(g)
    \/ \E t \in Textures :
         \/ \E w, h \in Counts : LoadTexture(t, w, h) \/ GenerateTexture(t, w, h)
         \/ ReleaseTexture(t)
    \/ EnableScissorRegion \/ SetScissorRegion \/ SetTransform

RmlNext ==
    \/ rml_initialise \/ rml_shutdown
    \/ rml_create_glfw_system_interface \/ rml_destroy_glfw_system_interface
    \/ rml_set_system_interface \/ rml_set_render_interface
    \/ rml_destroy_wgpu_render_interface
    \/ \E q \in Queues : lifetime[q] = "live" /\ rml_create_wgpu_render_interface(q)
    \/ rml_load_font_face
    \/ \E size \in Values : rml_context_create(size)
    \/ rml_context_load_document \/ rml_document_show \/ rml_context_remove

Next == InteropNext \/ GlfwNext \/ RendererNext \/ RmlNext

Spec == Init /\ [][Next]_vars

-----------------------------------------------------------------------------
(* No callback of the window or of RML's render interface, and no pop, ever
   touches a queue or an interface that was deleted: the window's user pointer
   and m_deferredEventsQueue are what the script thinks they are. *)
NoUseAfterFree == ~fault

(* Once the script has drained the queue of the render interface it holds the
   device memory of exactly the geometries and textures RML still uses:
   nothing leaks and nothing is freed early. *)
DrainedRendererMatchesRml ==
    (ui.queue # NULL /\ lifetime[ui.queue] = "live" /\ events[ui.queue] = <<>>)
        => /\ held = Live(Resources)
           /\ held = {r \in Resources : gpu[r] > 0}

(* Once the script has drained the window's queue, the context is laid out for
   the framebuffer size and the scale the window has, with two exceptions: a
   change from before the window was registered, and a scale or a size that the
   window had, and had reported, before the context was created. *)
DrainedContextFollowsWindow ==
    (/\ window = "open" /\ ui.context = "live"
     /\ attached # NULL => events[attached] = <<>>)
        => \A type \in ViewTypes \ untold : contextView[type] = view[type]

(* A render command that the script pops draws a geometry, with a texture, that
   the script has been told of and has not been told to release. *)
DrawsOnlyWhatItHolds ==
    [][\A q \in Queues :
         (/\ events[q] # <<>> /\ events'[q] = Tail(events[q])
          /\ Head(events[q]).type = "GEOMETRY_RENDER_EVENT")
           => {Head(events[q]).details, Head(events[q]).texture} \subseteq held \cup {NULL}]_vars

=============================================================================
