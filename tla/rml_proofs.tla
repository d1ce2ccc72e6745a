----------------------------- MODULE rml_proofs -----------------------------
(* Proofs about rml, for any number of queues, geometries and textures: nobody
   pushes into a queue that was deleted, or calls an interface that was; and
   drained queues leave the script, RML and the window in agreement. *)
EXTENDS rml, FiniteSetTheorems, TLAPS

Lifetimes ==
    /\ lifetime \in [Queues -> {"none", "live", "deleted"}]
    /\ resource \in [Resources -> {"none", "live", "released"}]
    /\ ui \in RmlState
    /\ attached \in Queues \cup {NULL}

(* An open window pushes into the queue the script registered last, which the
   script has not destroyed. *)
WindowHasItsQueue ==
    /\ window \in {"none", "open", "destroyed"}
    /\ window = "none" => userPointer = NULL /\ attached = NULL
    /\ window = "open" => /\ userPointer = attached
                          /\ attached # NULL => lifetime[attached] = "live"

(* RML points to interfaces that exist, and the render interface to a queue that
   does, and that no new one takes the place of. *)
InterfacesAreLive ==
    /\ ui.render = "live" => ui.queue \in Queues /\ lifetime[ui.queue] = "live"
    /\ ui.queue # NULL => lifetime[ui.queue] # "none"
    /\ "render" \in ui.installed => ui.render = "live"
    /\ "system" \in ui.installed => ui.system = "live"

(* What RML will release through the render interface, it can. *)
ResourcesHaveARenderer ==
    /\ ui.context = "live" => "render" \in ui.installed
    /\ Live(Resources) # {} => "render" \in ui.installed

LifetimeInv ==
    /\ Lifetimes /\ fault = FALSE
    /\ WindowHasItsQueue /\ InterfacesAreLive /\ ResourcesHaveARenderer

-----------------------------------------------------------------------------
(* A render interface in use finds its queue. *)
LEMMA EmitIsSafe ==
    ASSUME LifetimeInv, "render" \in ui.installed, NEW commands, Emit(commands)
    PROVE  UNCHANGED <<lifetime, fault>>
BY DEF LifetimeInv, InterfacesAreLive, Emit, Push

(* Steps that leave lifetimes, the window and RML alone. *)
LEMMA SameLifetimes ==
    ASSUME LifetimeInv, UNCHANGED <<lifetime, fault, resource, ui, window, userPointer, attached>>
    PROVE  LifetimeInv'
BY DEF LifetimeInv, Lifetimes, WindowHasItsQueue, InterfacesAreLive, ResourcesHaveARenderer,
       Live

(* Steps that change RML's state and no lifetime. *)
LEMMA UiStep ==
    ASSUME LifetimeInv,
           UNCHANGED <<lifetime, fault, window, userPointer, attached>>,
           ui' \in RmlState, resource' \in [Resources -> {"none", "live", "released"}],
           InterfacesAreLive', ResourcesHaveARenderer'
    PROVE  LifetimeInv'
BY DEF LifetimeInv, Lifetimes, WindowHasItsQueue

LEMMA InitHolds == Init => LifetimeInv
<1> SUFFICES ASSUME Init PROVE LifetimeInv
    OBVIOUS
<1>1. /\ ui \in RmlState /\ ui.render = "none" /\ ui.installed = {} /\ ui.context = "none"
      /\ ui.queue = NULL
    BY DEF Init, RmlState
<1>2. Lifetimes
    BY <1>1 DEF Init, InteropInit, Lifetimes
<1>3. WindowHasItsQueue
    BY DEF Init, GlfwInit, WindowHasItsQueue
<1>4. InterfacesAreLive
    BY <1>1 DEF InterfacesAreLive
<1>5. ResourcesHaveARenderer
    BY <1>1 DEF Init, ResourcesHaveARenderer, Live
<1> QED
    BY <1>2, <1>3, <1>4, <1>5 DEF LifetimeInv, Init, InteropInit

-----------------------------------------------------------------------------
(* Queues *)

LEMMA QueueCreateStep ==
    ASSUME LifetimeInv, NEW q \in Queues,
           queue_create(q) /\ UNCHANGED <<glfwVars, rmlVars, scriptVars>>
    PROVE  LifetimeInv'
<1>1. /\ lifetime' \in [Queues -> {"none", "live", "deleted"}] /\ fault' = fault
      /\ \A p \in Queues : lifetime[p] # "none" => lifetime'[p] = lifetime[p]
      /\ UNCHANGED <<resource, ui, window, userPointer, attached>>
    BY DEF LifetimeInv, Lifetimes, queue_create, glfwVars, rmlVars, scriptVars
<1>2. ui.queue \in Queues \cup {NULL}
    BY DEF LifetimeInv, Lifetimes, RmlState
<1>3. InterfacesAreLive'
    BY <1>1, <1>2 DEF LifetimeInv, InterfacesAreLive
<1> QED
    BY <1>1, <1>3 DEF LifetimeInv, Lifetimes, WindowHasItsQueue, ResourcesHaveARenderer, Live

LEMMA RegisterStep ==
    ASSUME LifetimeInv, NEW q \in Queues, RegisterWindow(q)
    PROVE  LifetimeInv'
<1>1. /\ UNCHANGED <<lifetime, fault, resource, ui, window>>
      /\ userPointer' = q /\ attached' = q /\ window = "open" /\ lifetime[q] = "live"
    BY DEF RegisterWindow, glfw_register_events, interopVars, rmlVars
<1> QED
    BY <1>1 DEF LifetimeInv, Lifetimes, WindowHasItsQueue, InterfacesAreLive,
       ResourcesHaveARenderer, Live

LEMMA DrainStep ==
    ASSUME LifetimeInv, NEW q \in Queues, DrainNext(q)
    PROVE  LifetimeInv'
<1>1. UNCHANGED <<lifetime, fault>>
    BY DEF DrainNext, queue_pop_event
<1>2. UNCHANGED <<resource, ui, window, userPointer, attached>>
    BY DEF DrainNext, glfwVars
<1> QED
    BY <1>1, <1>2, SameLifetimes

LEMMA PushOwnStep ==
    ASSUME LifetimeInv, NEW q \in Queues, PushOwnEvent(q)
    PROVE  LifetimeInv'
<1>1. UNCHANGED <<lifetime, fault>>
    BY NullIsNoQueue DEF PushOwnEvent, queue_push_event, Push
<1>2. UNCHANGED <<resource, ui, window, userPointer, attached>>
    BY DEF PushOwnEvent, glfwVars, rmlVars, scriptVars
<1> QED
    BY <1>1, <1>2, SameLifetimes

(* The queue that goes is neither the window's nor the render interface's. *)
LEMMA DestroyStep ==
    ASSUME LifetimeInv, NEW q \in Queues, DestroyQueue(q)
    PROVE  LifetimeInv'
<1>1. /\ lifetime' = [lifetime EXCEPT ![q] = "deleted"] /\ fault' = fault
      /\ UNCHANGED <<resource, ui, window, userPointer, attached>>
      /\ window = "open" => attached # q
      /\ ui.render = "live" => ui.queue # q
    BY DEF DestroyQueue, queue_destroy, glfwVars, rmlVars, scriptVars
<1>2. Lifetimes'
    BY <1>1 DEF LifetimeInv, Lifetimes
<1>3. \A p \in Queues \ {q} : lifetime'[p] = lifetime[p]
    BY <1>1 DEF LifetimeInv, Lifetimes
<1>4. WindowHasItsQueue'
    BY <1>1, <1>3 DEF LifetimeInv, Lifetimes, WindowHasItsQueue
<1>5. InterfacesAreLive'
    <2>1. \A p \in Queues : lifetime[p] # "none" => lifetime'[p] # "none"
        BY <1>1 DEF LifetimeInv, Lifetimes
    <2>2. ui.queue \in Queues \cup {NULL}
        BY DEF LifetimeInv, Lifetimes, RmlState
    <2> QED
        BY <1>1, <1>3, <2>1, <2>2 DEF LifetimeInv, InterfacesAreLive
<1>6. ResourcesHaveARenderer'
    BY <1>1 DEF LifetimeInv, ResourcesHaveARenderer, Live
<1> QED
    BY <1>1, <1>2, <1>4, <1>5, <1>6 DEF LifetimeInv

LEMMA InteropStep == ASSUME LifetimeInv, InteropNext PROVE LifetimeInv'
BY QueueCreateStep, RegisterStep, DrainStep, PushOwnStep, DestroyStep DEF InteropNext

-----------------------------------------------------------------------------
(* The window *)

(* What a step of GLFW does: one of these five. *)
LEMMA GlfwCases ==
    ASSUME GlfwNext
    PROVE  /\ UNCHANGED <<ui, contextView, resource, gpu, attached, held>>
           /\ \/ /\ glfw_create_window \/ glfw_destroy_window
                 /\ UNCHANGED untold
              \/ \E type \in Observed \cap WindowEventTypes, v \in Values : WindowChanges(type, v)
              \/ /\ \E type \in Observed \cap InputEventTypes : OnInputEvent(type)
                 /\ UNCHANGED untold
BY DEF GlfwNext, WindowChanges, rmlVars, scriptVars

LEMMA GlfwStep == ASSUME LifetimeInv, GlfwNext PROVE LifetimeInv'
<1>1. UNCHANGED <<resource, ui, attached>>
    BY GlfwCases
<1>2. ASSUME window = "open", userPointer # NULL, NEW new, Push(userPointer, new)
      PROVE  UNCHANGED <<lifetime, fault>>
    BY <1>2 DEF LifetimeInv, WindowHasItsQueue, Push
<1>3. CASE glfw_create_window \/ glfw_destroy_window
    BY <1>1, <1>3 DEF glfw_create_window, glfw_destroy_window, interopVars, LifetimeInv,
       Lifetimes, WindowHasItsQueue, InterfacesAreLive, ResourcesHaveARenderer, Live
<1>4. ASSUME NEW type \in Observed \cap WindowEventTypes, NEW v \in Values,
             WindowChanges(type, v)
      PROVE  LifetimeInv'
    <2>1. UNCHANGED <<lifetime, fault, window, userPointer>>
        BY <1>2, <1>4 DEF WindowChanges, OnWindowEvent, interopVars
    <2> QED
        BY <1>1, <2>1, SameLifetimes
<1>5. CASE \E type \in Observed \cap InputEventTypes : OnInputEvent(type)
    <2>1. UNCHANGED <<lifetime, fault, window, userPointer>>
        BY <1>2, <1>5 DEF OnInputEvent, glfwVars
    <2> QED
        BY <1>1, <2>1, SameLifetimes
<1> QED
    BY <1>3, <1>4, <1>5, GlfwCases

-----------------------------------------------------------------------------
(* The render interface *)

(* A command that RML gives while it updates or renders a context. *)
LEMMA CommandStep ==
    ASSUME LifetimeInv, InContextCall, NEW commands, Emit(commands),
           UNCHANGED <<ui, glfwVars, scriptVars>>,
           resource' \in [Resources -> {"none", "live", "released"}]
    PROVE  LifetimeInv'
<1>1. "render" \in ui.installed
    BY DEF LifetimeInv, ResourcesHaveARenderer, InContextCall
<1>2. UNCHANGED <<lifetime, fault>>
    BY <1>1, EmitIsSafe
<1>3. UNCHANGED <<window, userPointer, attached>>
    BY DEF glfwVars, scriptVars
<1>4. InterfacesAreLive' /\ ResourcesHaveARenderer'
    BY <1>1, <1>2 DEF LifetimeInv, InterfacesAreLive, ResourcesHaveARenderer
<1> QED
    BY <1>2, <1>3, <1>4, UiStep DEF LifetimeInv, Lifetimes

LEMMA AcquireStep ==
    ASSUME LifetimeInv, InContextCall, NEW r \in Resources, NEW bytes, NEW type,
           Acquire(r, bytes, type)
    PROVE  LifetimeInv'
<1>1. resource' \in [Resources -> {"none", "live", "released"}]
    BY DEF Acquire, LifetimeInv, Lifetimes
<1> QED
    BY <1>1, CommandStep DEF Acquire

LEMMA ReleaseStep ==
    ASSUME LifetimeInv, InContextCall, NEW r \in Resources, NEW type, Release(r, type)
    PROVE  LifetimeInv'
<1>1. resource' \in [Resources -> {"none", "live", "released"}]
    BY DEF Release, LifetimeInv, Lifetimes
<1> QED
    BY <1>1, CommandStep DEF Release

LEMMA RendererStep == ASSUME LifetimeInv, RendererNext PROVE LifetimeInv'
<1>1. ASSUME NEW g \in Geometries, NEW n \in Counts, NEW m \in Counts, CompileGeometry(g, n, m)
      PROVE  LifetimeInv'
    BY <1>1, AcquireStep DEF CompileGeometry, Resources
<1>2. ASSUME InContextCall, NEW commands, Emit(commands),
             UNCHANGED <<rmlVars, glfwVars, scriptVars>>
      PROVE  LifetimeInv'
    BY <1>2, CommandStep DEF rmlVars, LifetimeInv, Lifetimes
<1>3. ASSUME NEW g \in Geometries, NEW t, RenderGeometry(g, t)
      PROVE  LifetimeInv'
    BY <1>2, <1>3 DEF RenderGeometry
<1>4. ASSUME NEW g \in Geometries, ReleaseGeometry(g)
      PROVE  LifetimeInv'
    BY <1>4, ReleaseStep DEF ReleaseGeometry, Resources
<1>5. ASSUME NEW t \in Textures, NEW w \in Counts, NEW h \in Counts,
             LoadTexture(t, w, h) \/ GenerateTexture(t, w, h)
      PROVE  LifetimeInv'
    BY <1>5, AcquireStep DEF LoadTexture, GenerateTexture, Resources
<1>6. ASSUME NEW t \in Textures, ReleaseTexture(t)
      PROVE  LifetimeInv'
    BY <1>6, ReleaseStep DEF ReleaseTexture, Resources
<1>7. CASE EnableScissorRegion \/ SetScissorRegion \/ SetTransform
    BY <1>2, <1>7 DEF EnableScissorRegion, SetScissorRegion, SetTransform
<1> QED
    BY <1>1, <1>3, <1>4, <1>5, <1>6, <1>7 DEF RendererNext

-----------------------------------------------------------------------------
(* RML *)

(* Releasing needs the render interface only if there is something to release. *)
LEMMA ReleaseAllIsSafe ==
    ASSUME LifetimeInv, NEW set \in SUBSET Live(Resources), ReleaseAll(set)
    PROVE  /\ UNCHANGED <<lifetime, fault>>
           /\ resource' \in [Resources -> {"none", "live", "released"}]
           /\ Live(Resources)' = Live(Resources) \ set
<1>1. UNCHANGED <<lifetime, fault>>
    <2>1. CASE set = {}
        BY <2>1 DEF ReleaseAll, interopVars
    <2>2. CASE set # {}
        <3>1. "render" \in ui.installed
            BY <2>2 DEF LifetimeInv, ResourcesHaveARenderer
        <3> QED
            BY <2>2, <3>1, EmitIsSafe DEF ReleaseAll
    <2> QED
        BY <2>1, <2>2
<1>2. resource' = [r \in Resources |-> IF r \in set THEN "released" ELSE resource[r]]
    BY DEF ReleaseAll
<1> QED
    BY <1>1, <1>2 DEF LifetimeInv, Lifetimes, Live

LEMMA ShutdownStep == ASSUME LifetimeInv, rml_shutdown PROVE LifetimeInv'
<1>1. /\ UNCHANGED <<lifetime, fault>>
      /\ resource' \in [Resources -> {"none", "live", "released"}]
      /\ Live(Resources)' = {}
    BY ReleaseAllIsSafe DEF rml_shutdown
<1>2. /\ ui' \in RmlState /\ ui'.installed = {} /\ ui'.context = "none"
      /\ ui'.render = ui.render /\ ui'.queue = ui.queue
    BY DEF rml_shutdown, LifetimeInv, Lifetimes, RmlState
<1>3. UNCHANGED <<window, userPointer, attached>>
    BY DEF rml_shutdown, glfwVars, scriptVars
<1>4. InterfacesAreLive' /\ ResourcesHaveARenderer'
    BY <1>1, <1>2 DEF LifetimeInv, InterfacesAreLive, ResourcesHaveARenderer
<1> QED
    BY <1>1, <1>2, <1>3, <1>4, UiStep

LEMMA ContextRemoveStep == ASSUME LifetimeInv, rml_context_remove PROVE LifetimeInv'
<1>1. Live(Geometries) \in SUBSET Live(Resources)
    BY DEF Live, Resources
<1>2. /\ UNCHANGED <<lifetime, fault>>
      /\ resource' \in [Resources -> {"none", "live", "released"}]
      /\ Live(Resources)' \subseteq Live(Resources)
    BY <1>1, ReleaseAllIsSafe DEF rml_context_remove
<1>3. /\ ui' \in RmlState /\ ui'.context = "none" /\ ui'.installed = ui.installed
      /\ ui'.render = ui.render /\ ui'.queue = ui.queue /\ ui'.system = ui.system
    BY DEF rml_context_remove, LifetimeInv, Lifetimes, RmlState
<1>4. UNCHANGED <<window, userPointer, attached>>
    BY DEF rml_context_remove, glfwVars, scriptVars
<1>5. InterfacesAreLive' /\ ResourcesHaveARenderer'
    BY <1>2, <1>3 DEF LifetimeInv, InterfacesAreLive, ResourcesHaveARenderer
<1> QED
    BY <1>2, <1>3, <1>4, <1>5, UiStep

(* The remaining calls change RML's state and nothing it has released or queued. *)
LEMMA BecomesStep ==
    ASSUME LifetimeInv, NEW state \in RmlState, Becomes(state), UNCHANGED <<lifetime, fault>>,
           state.render = "live" => state.queue \in Queues /\ lifetime[state.queue] = "live",
           state.queue # NULL => lifetime[state.queue] # "none",
           "render" \in state.installed => state.render = "live",
           "system" \in state.installed => state.system = "live",
           ui.installed \subseteq state.installed,
           state.context = ui.context
    PROVE  LifetimeInv'
<1>1. ui' = state /\ UNCHANGED <<resource, window, userPointer, attached>>
    BY DEF Becomes, glfwVars, scriptVars
<1>2. InterfacesAreLive' /\ ResourcesHaveARenderer'
    BY <1>1 DEF LifetimeInv, InterfacesAreLive, ResourcesHaveARenderer, Live
<1> QED
    BY <1>1, <1>2, UiStep DEF LifetimeInv, Lifetimes

LEMMA InitialiseStep == ASSUME LifetimeInv, rml_initialise PROVE LifetimeInv'
<1> DEFINE state == [[ui EXCEPT !.initialised = TRUE, !.print = "rml"] EXCEPT !.print = ui.print]
<1>1. Becomes(state) /\ lifetime' = lifetime
    BY DEF rml_initialise
<1>2. fault' = fault
    BY DEF rml_initialise, LifetimeInv, InterfacesAreLive
<1>3. /\ state \in RmlState /\ state.render = ui.render /\ state.queue = ui.queue
      /\ state.installed = ui.installed /\ state.system = ui.system /\ state.context = ui.context
    BY DEF LifetimeInv, Lifetimes, RmlState
<1> HIDE DEF state
<1> QED
    BY <1>1, <1>2, <1>3, BecomesStep DEF LifetimeInv, InterfacesAreLive

LEMMA CreateSystemStep ==
    ASSUME LifetimeInv, rml_create_glfw_system_interface PROVE LifetimeInv'
<1> DEFINE state == [ui EXCEPT !.system = "live"]
<1>1. Becomes(state) /\ UNCHANGED <<lifetime, fault>>
    BY DEF rml_create_glfw_system_interface, interopVars
<1>2. /\ state \in RmlState /\ state.render = ui.render /\ state.queue = ui.queue
      /\ state.installed = ui.installed /\ state.system = "live" /\ state.context = ui.context
    BY DEF LifetimeInv, Lifetimes, RmlState
<1> HIDE DEF state
<1> QED
    BY <1>1, <1>2, BecomesStep DEF LifetimeInv, InterfacesAreLive

LEMMA DestroySystemStep ==
    ASSUME LifetimeInv, rml_destroy_glfw_system_interface PROVE LifetimeInv'
<1> DEFINE state == [ui EXCEPT !.system = "deleted"]
<1>1. Becomes(state) /\ UNCHANGED <<lifetime, fault>> /\ "system" \notin ui.installed
    BY DEF rml_destroy_glfw_system_interface, interopVars
<1>2. /\ state \in RmlState /\ state.render = ui.render /\ state.queue = ui.queue
      /\ state.installed = ui.installed /\ state.context = ui.context
    BY DEF LifetimeInv, Lifetimes, RmlState
<1> HIDE DEF state
<1> QED
    BY <1>1, <1>2, BecomesStep DEF LifetimeInv, InterfacesAreLive

LEMMA CreateRenderStep ==
    ASSUME LifetimeInv, NEW q \in Queues, lifetime[q] = "live",
           rml_create_wgpu_render_interface(q)
    PROVE  LifetimeInv'
<1> DEFINE state == [ui EXCEPT !.render = "live", !.queue = q]
<1>1. Becomes(state) /\ UNCHANGED <<lifetime, fault>>
    BY DEF rml_create_wgpu_render_interface, interopVars
<1>2. /\ state \in RmlState /\ state.render = "live" /\ state.queue = q
      /\ state.installed = ui.installed /\ state.system = ui.system /\ state.context = ui.context
    BY DEF LifetimeInv, Lifetimes, RmlState
<1> HIDE DEF state
<1> QED
    BY <1>1, <1>2, BecomesStep DEF LifetimeInv, InterfacesAreLive

LEMMA DestroyRenderStep ==
    ASSUME LifetimeInv, rml_destroy_wgpu_render_interface PROVE LifetimeInv'
<1> DEFINE state == [ui EXCEPT !.render = "deleted"]
<1>1. Becomes(state) /\ UNCHANGED <<lifetime, fault>> /\ "render" \notin ui.installed
    BY DEF rml_destroy_wgpu_render_interface, interopVars
<1>2. /\ state \in RmlState /\ state.render = "deleted" /\ state.system = ui.system
      /\ state.queue = ui.queue /\ state.installed = ui.installed /\ state.context = ui.context
    BY DEF LifetimeInv, Lifetimes, RmlState
<1> HIDE DEF state
<1> QED
    BY <1>1, <1>2, BecomesStep DEF LifetimeInv, InterfacesAreLive

LEMMA SetInterfaceStep ==
    ASSUME LifetimeInv, NEW kind \in {"system", "render"},
           kind = "system" => ui.system = "live", kind = "render" => ui.render = "live",
           Becomes([ui EXCEPT !.installed = @ \cup {kind}]), UNCHANGED interopVars
    PROVE  LifetimeInv'
<1> DEFINE state == [ui EXCEPT !.installed = @ \cup {kind}]
<1>1. Becomes(state) /\ UNCHANGED <<lifetime, fault>>
    BY DEF interopVars
<1>2. /\ state \in RmlState /\ state.render = ui.render /\ state.queue = ui.queue
      /\ state.installed = ui.installed \cup {kind}
      /\ state.system = ui.system /\ state.context = ui.context
    BY DEF LifetimeInv, Lifetimes, RmlState
<1> HIDE DEF state
<1> QED
    BY <1>1, <1>2, BecomesStep DEF LifetimeInv, InterfacesAreLive

LEMMA LoadStep ==
    ASSUME LifetimeInv,
           rml_load_font_face \/ rml_context_load_document \/ rml_document_show
    PROVE  LifetimeInv'
<1>1. PICK state : /\ Becomes(state) /\ UNCHANGED interopVars
                   /\ state \in {[ui EXCEPT !.fontLoaded = TRUE],
                                 [ui EXCEPT !.document = "loaded"],
                                 [ui EXCEPT !.document = "shown"]}
    BY DEF rml_load_font_face, rml_context_load_document, rml_document_show
<1>2. /\ state \in RmlState /\ state.render = ui.render /\ state.queue = ui.queue
      /\ state.installed = ui.installed /\ state.system = ui.system /\ state.context = ui.context
    <2>1. CASE state = [ui EXCEPT !.fontLoaded = TRUE]
        BY <2>1 DEF LifetimeInv, Lifetimes, RmlState
    <2>2. CASE state = [ui EXCEPT !.document = "loaded"]
        BY <2>2 DEF LifetimeInv, Lifetimes, RmlState
    <2>3. CASE state = [ui EXCEPT !.document = "shown"]
        BY <2>3 DEF LifetimeInv, Lifetimes, RmlState
    <2> QED
        BY <1>1, <2>1, <2>2, <2>3
<1> QED
    BY <1>1, <1>2, BecomesStep DEF LifetimeInv, InterfacesAreLive, interopVars

LEMMA ContextCreateStep ==
    ASSUME LifetimeInv, NEW size, rml_context_create(size) PROVE LifetimeInv'
<1>1. /\ UNCHANGED <<lifetime, fault, window, userPointer, attached, resource>>
      /\ "render" \in ui.installed
    BY DEF rml_context_create, interopVars, glfwVars, scriptVars
<1>2. /\ ui' \in RmlState /\ ui'.render = ui.render /\ ui'.queue = ui.queue
      /\ ui'.installed = ui.installed /\ ui'.system = ui.system
    BY DEF rml_context_create, LifetimeInv, Lifetimes, RmlState
<1>3. InterfacesAreLive' /\ ResourcesHaveARenderer'
    BY <1>1, <1>2 DEF LifetimeInv, InterfacesAreLive, ResourcesHaveARenderer, Live
<1> QED
    BY <1>1, <1>2, <1>3, UiStep DEF LifetimeInv, Lifetimes

LEMMA RmlStep == ASSUME LifetimeInv, RmlNext PROVE LifetimeInv'
<1>1. CASE rml_set_system_interface
    BY <1>1, SetInterfaceStep DEF rml_set_system_interface
<1>2. CASE rml_set_render_interface
    BY <1>2, SetInterfaceStep DEF rml_set_render_interface
<1> QED
    BY <1>1, <1>2, InitialiseStep, ShutdownStep, CreateSystemStep, DestroySystemStep,
       CreateRenderStep, DestroyRenderStep, LoadStep, ContextCreateStep, ContextRemoveStep
       DEF RmlNext

-----------------------------------------------------------------------------
(* As long as the script keeps the order of destruction that the integration
   tests follow, neither a window callback nor a command of the render interface
   nor a pop ever touches a queue or an interface that was deleted. *)
THEOREM NothingDeletedIsUsed == Spec => []NoUseAfterFree
<1>1. LifetimeInv /\ [Next]_vars => LifetimeInv'
    <2> SUFFICES ASSUME LifetimeInv, [Next]_vars PROVE LifetimeInv'
        OBVIOUS
    <2>1. CASE UNCHANGED vars
        BY <2>1, SameLifetimes DEF vars, interopVars, glfwVars, rmlVars, scriptVars
    <2> QED
        BY <2>1, InteropStep, GlfwStep, RendererStep, RmlStep DEF Next
<1>2. LifetimeInv => NoUseAfterFree
    BY DEF LifetimeInv, NoUseAfterFree
<1> QED
    BY <1>1, <1>2, InitHolds, PTL DEF Spec

-----------------------------------------------------------------------------
(* What the queues hold *)

AcquireTypes == {"GEOMETRY_COMPILATION_EVENT", "TEXTURE_LOAD_EVENT", "TEXTURE_GENERATION_EVENT"}
ReleaseTypes == {"GEOMETRY_RELEASE_EVENT", "TEXTURE_RELEASE_EVENT"}

EventRecords ==
    {e \in [type : EventType, details : Resources \cup Values \cup {NULL, TransformPayload},
            texture : Resources \cup {NULL}] :
        e.type \in AcquireTypes \cup {"GEOMETRY_RENDER_EVENT"} => e.details \in Resources}

Acquires(e, r) == e.type \in AcquireTypes /\ e.details = r
Releases(e, r) == e.type \in ReleaseTypes /\ e.details = r
Draws(e, r) == e.type = "GEOMETRY_RENDER_EVENT" /\ r \in {e.details, e.texture}
About(e, r) == Acquires(e, r) \/ Releases(e, r) \/ Draws(e, r)

(* The script holds a resource, or is about to learn of it. *)
Reaches(s, r, h) == r \in h \/ \E k \in 1..Len(s) : Acquires(s[k], r)

(* The commands s that wait for a script that holds h tell the story of r: it is
   acquired at most once and before anything else, and nothing follows its
   release; at the end it is what RML takes it for. *)
Ordered(s, r, h) ==
    /\ \A k \in 1..Len(s) : Releases(s[k], r) =>
          \A j \in 1..Len(s) : j > k => ~About(s[j], r)
    /\ \A k \in 1..Len(s) : Acquires(s[k], r) =>
          r \notin h /\ \A j \in 1..Len(s) : j < k => ~About(s[j], r)
    /\ \A k \in 1..Len(s) : About(s[k], r) =>
          r \in h \/ \E j \in 1..Len(s) : j <= k /\ Acquires(s[j], r)

Settles(s, r, h, state) ==
    /\ state = "none" => r \notin h /\ \A k \in 1..Len(s) : ~About(s[k], r)
    /\ state = "live" => Reaches(s, r, h) /\ \A k \in 1..Len(s) : ~Releases(s[k], r)
    /\ state = "released" /\ Reaches(s, r, h) => \E k \in 1..Len(s) : Releases(s[k], r)

Agrees(s, r, h, state, bytes) ==
    /\ Ordered(s, r, h) /\ Settles(s, r, h, state)
    /\ bytes > 0 <=> Reaches(s, r, h)

(* What waits in the queue of the render interface, and in the window's. *)
Commands == IF ui.queue = NULL THEN <<>> ELSE events[ui.queue]
WindowEvents == IF attached = NULL THEN <<>> ELSE events[attached]

EventsAreRecords ==
    /\ events \in [Queues -> Seq(EventRecords)]
    /\ gpu \in [Resources -> Nat] /\ held \subseteq Resources

(* Commands about geometries and textures are in the render interface's queue,
   which does not change. *)
OneCommandQueue ==
    /\ ui.render = "none" => ui.queue = NULL
    /\ \A q \in Queues : q # ui.queue =>
          \A i \in 1..Len(events[q]), r \in Resources : ~About(events[q][i], r)

QueueIsThere == ui.queue # NULL => lifetime[ui.queue] = "live"

(* A queue that was destroyed before it was drained takes its commands along: then
   the script may be left with memory that nobody will tell it to free. *)
RendererAgrees ==
    IF QueueIsThere THEN \A r \in Resources : Agrees(Commands, r, held, resource[r], gpu[r])
                    ELSE Commands = <<>>

RendererInv == EventsAreRecords /\ OneCommandQueue /\ RendererAgrees

(* Nothing in s says what type measures; or the last event that does says value. *)
Quiet(s, type) == \A i \in 1..Len(s) : s[i].type # type

Latest(s, type, value) ==
    \A i \in 1..Len(s) :
        (s[i].type = type /\ \A j \in 1..Len(s) : j > i => s[j].type # type)
            => s[i].details = value

(* While there is a window, its queue is the only one with sizes and scales, and
   the last of them, or else a context that was told, has what the window measures. *)
Measures(type) ==
    /\ \A q \in Queues : q # attached => Quiet(events[q], type)
    /\ Latest(WindowEvents, type, view[type])
    /\ ui.context = "live" /\ type \notin untold /\ Quiet(WindowEvents, type)
         => contextView[type] = view[type]

ViewInv ==
    /\ view = [type \in ViewTypes |-> view[type]]
    /\ contextView = [type \in ViewTypes |-> contextView[type]]
    /\ window # "destroyed" => \A type \in ViewTypes : Measures(type)

(* The context is left as it is, or goes; and the window. *)
ContextKept ==
    \/ /\ contextView' = contextView /\ untold \cap ViewTypes \subseteq untold'
       /\ ui'.context = "live" => ui.context = "live"
    \/ ui'.context # "live" /\ contextView' = NoView

WindowKept ==
    \/ view' = view /\ (window' # "destroyed" => window # "destroyed")
    \/ view' = Unmeasured /\ window' = "destroyed"

-----------------------------------------------------------------------------
(* Queues as sequences *)

LEMMA KindsExclude ==
    ASSUME NEW e, NEW r
    PROVE  /\ Acquires(e, r) => ~Releases(e, r)
           /\ About(e, r) <=> (Acquires(e, r) \/ Releases(e, r) \/ Draws(e, r))
           /\ Draws(e, r) => ~Acquires(e, r) /\ ~Releases(e, r)
BY DEF Acquires, Releases, Draws, About, AcquireTypes, ReleaseTypes

LEMMA TailItems ==
    ASSUME NEW S, NEW s \in Seq(S), s # <<>>
    PROVE  /\ Tail(s) \in Seq(S) /\ Len(s) \in Nat /\ Len(s) >= 1
           /\ Len(Tail(s)) = Len(s) - 1 /\ Head(s) = s[1]
           /\ \A i \in 1..Len(Tail(s)) : i + 1 \in 1..Len(s) /\ Tail(s)[i] = s[i + 1]
           /\ \A j \in 1..Len(s) : j # 1 => j - 1 \in 1..Len(Tail(s)) /\ s[j] = Tail(s)[j - 1]
OBVIOUS

LEMMA JoinedItems ==
    ASSUME NEW S, NEW s \in Seq(S), NEW new \in Seq(S)
    PROVE  /\ s \o new \in Seq(S) /\ Len(s \o new) = Len(s) + Len(new)
           /\ Len(s) \in Nat /\ Len(new) \in Nat
           /\ \A i \in 1..Len(s) : i \in 1..Len(s \o new) /\ (s \o new)[i] = s[i]
           /\ \A i \in 1..Len(new) :
                Len(s) + i \in 1..Len(s \o new) /\ (s \o new)[Len(s) + i] = new[i]
           /\ \A i \in 1..Len(s \o new) : i \notin 1..Len(s) =>
                i - Len(s) \in 1..Len(new) /\ (s \o new)[i] = new[i - Len(s)]
OBVIOUS

(* The script takes the acquisition of r from the queue. *)
LEMMA TakeAcquisition ==
    ASSUME NEW s \in Seq(EventRecords), s # <<>>, NEW r, NEW h, NEW g, NEW state, NEW bytes,
           Agrees(s, r, h, state, bytes), Acquires(Head(s), r), r \in g
    PROVE  Agrees(Tail(s), r, g, state, bytes)
<1> DEFINE t == Tail(s)
<1>1. /\ Len(s) \in Nat /\ Len(s) >= 1 /\ Len(t) = Len(s) - 1 /\ Head(s) = s[1]
      /\ \A i \in 1..Len(t) : i + 1 \in 1..Len(s) /\ t[i] = s[i + 1]
      /\ \A j \in 1..Len(s) : j # 1 => j - 1 \in 1..Len(t) /\ s[j] = t[j - 1]
    BY TailItems
<1> HIDE DEF t
<1>2. Ordered(s, r, h) /\ Settles(s, r, h, state) /\ (bytes > 0 <=> Reaches(s, r, h))
    BY DEF Agrees
<1>3. 1 \in 1..Len(s) /\ Acquires(s[1], r) /\ About(s[1], r) /\ ~Releases(s[1], r)
    BY <1>1, KindsExclude
<1>4. Reaches(s, r, h) /\ Reaches(t, r, g)
    BY <1>3 DEF Reaches
<1>5. \A i \in 1..Len(t) : ~Acquires(t[i], r)
    <2> SUFFICES ASSUME NEW i \in 1..Len(t), Acquires(t[i], r) PROVE FALSE
        OBVIOUS
    <2>1. i + 1 \in 1..Len(s) /\ Acquires(s[i + 1], r) /\ 1 < i + 1
        BY <1>1
    <2> QED BY <1>2, <1>3, <2>1 DEF Ordered
<1>6. Ordered(t, r, g)
    <2>1. ASSUME NEW k \in 1..Len(t), Releases(t[k], r), NEW j \in 1..Len(t), j > k
          PROVE  ~About(t[j], r)
        <3>1. k + 1 \in 1..Len(s) /\ j + 1 \in 1..Len(s) /\ j + 1 > k + 1
            BY <1>1, <2>1
        <3>2. Releases(s[k + 1], r) /\ t[j] = s[j + 1]
            BY <1>1, <2>1
        <3> QED BY <1>2, <3>1, <3>2 DEF Ordered
    <2> QED BY <1>5, <2>1 DEF Ordered
<1>7. Settles(t, r, g, state)
    <2>1. state # "none"
        BY <1>2, <1>3 DEF Settles
    <2>2. state = "live" => \A k \in 1..Len(t) : ~Releases(t[k], r)
        BY <1>1, <1>2 DEF Settles
    <2>3. ASSUME state = "released" PROVE \E k \in 1..Len(t) : Releases(t[k], r)
        <3>1. PICK k \in 1..Len(s) : Releases(s[k], r)
            BY <1>2, <1>4, <2>3 DEF Settles
        <3>2. k # 1
            BY <1>3, <3>1
        <3> QED BY <1>1, <3>1, <3>2
    <2> QED BY <1>4, <2>1, <2>2, <2>3 DEF Settles
<1> QED BY <1>2, <1>4, <1>6, <1>7 DEF Agrees, t

(* The script takes its release: nothing more is said of r. *)
LEMMA TakeRelease ==
    ASSUME NEW s \in Seq(EventRecords), s # <<>>, NEW r, NEW h, NEW g,
           NEW state \in {"none", "live", "released"}, NEW bytes,
           Agrees(s, r, h, state, bytes), Releases(Head(s), r), r \notin g
    PROVE  r \in h /\ Agrees(Tail(s), r, g, state, 0)
<1> DEFINE t == Tail(s)
<1>1. /\ Len(s) \in Nat /\ Len(s) >= 1 /\ Len(t) = Len(s) - 1 /\ Head(s) = s[1]
      /\ \A i \in 1..Len(t) : i + 1 \in 1..Len(s) /\ t[i] = s[i + 1]
    BY TailItems
<1> HIDE DEF t
<1>2. Ordered(s, r, h) /\ Settles(s, r, h, state)
    BY DEF Agrees
<1>3. 1 \in 1..Len(s) /\ Releases(s[1], r) /\ About(s[1], r) /\ ~Acquires(s[1], r)
    BY <1>1, KindsExclude
<1>4. r \in h
    <2>1. ASSUME NEW j \in 1..Len(s), j <= 1, Acquires(s[j], r) PROVE FALSE
        <3>1. j = 1
            BY <1>1, <2>1
        <3> QED BY <1>3, <2>1, <3>1
    <2> QED BY <1>2, <1>3, <2>1 DEF Ordered
<1>5. \A i \in 1..Len(t) : ~About(t[i], r)
    <2> SUFFICES ASSUME NEW i \in 1..Len(t) PROVE ~About(t[i], r)
        OBVIOUS
    <2>1. i + 1 \in 1..Len(s) /\ t[i] = s[i + 1] /\ i + 1 > 1
        BY <1>1
    <2> QED BY <1>2, <1>3, <2>1 DEF Ordered
<1>6. \A i \in 1..Len(t) : ~Acquires(t[i], r) /\ ~Releases(t[i], r)
    BY <1>5, KindsExclude
<1>7. ~Reaches(t, r, g)
    BY <1>6 DEF Reaches
<1>8. state # "live"
    BY <1>2, <1>3 DEF Settles
<1>9. Ordered(t, r, g) /\ Settles(t, r, g, state)
    BY <1>5, <1>6, <1>7, <1>8 DEF Ordered, Settles
<1> QED BY <1>4, <1>7, <1>9 DEF Agrees, t

(* It takes something else. *)
LEMMA TakeOther ==
    ASSUME NEW s \in Seq(EventRecords), s # <<>>, NEW r, NEW h, NEW g,
           NEW state \in {"none", "live", "released"}, NEW bytes,
           Agrees(s, r, h, state, bytes), ~Acquires(Head(s), r), ~Releases(Head(s), r),
           r \in g <=> r \in h
    PROVE  Agrees(Tail(s), r, g, state, bytes)
<1> DEFINE t == Tail(s)
<1>1. /\ Len(s) \in Nat /\ Len(s) >= 1 /\ Len(t) = Len(s) - 1 /\ Head(s) = s[1]
      /\ \A i \in 1..Len(t) : i + 1 \in 1..Len(s) /\ t[i] = s[i + 1]
      /\ \A j \in 1..Len(s) : j # 1 => j - 1 \in 1..Len(t) /\ s[j] = t[j - 1]
    BY TailItems
<1> HIDE DEF t
<1>2. Ordered(s, r, h) /\ Settles(s, r, h, state) /\ (bytes > 0 <=> Reaches(s, r, h))
    BY DEF Agrees
<1>3. Reaches(t, r, g) <=> Reaches(s, r, h)
    <2>1. ASSUME NEW k \in 1..Len(t), Acquires(t[k], r)
          PROVE  \E j \in 1..Len(s) : Acquires(s[j], r)
        BY <1>1, <2>1
    <2>2. ASSUME NEW k \in 1..Len(s), Acquires(s[k], r)
          PROVE  \E j \in 1..Len(t) : Acquires(t[j], r)
        BY <1>1, <2>2
    <2> QED BY <2>1, <2>2 DEF Reaches
<1>4. Ordered(t, r, g)
    <2>1. ASSUME NEW k \in 1..Len(t), Releases(t[k], r), NEW j \in 1..Len(t), j > k
          PROVE  ~About(t[j], r)
        <3>1. k + 1 \in 1..Len(s) /\ j + 1 \in 1..Len(s) /\ j + 1 > k + 1
            BY <1>1, <2>1
        <3>2. Releases(s[k + 1], r) /\ t[j] = s[j + 1]
            BY <1>1, <2>1
        <3> QED BY <1>2, <3>1, <3>2 DEF Ordered
    <2>2. ASSUME NEW k \in 1..Len(t), Acquires(t[k], r)
          PROVE  r \notin g /\ \A j \in 1..Len(t) : j < k => ~About(t[j], r)
        <3>1. k + 1 \in 1..Len(s) /\ Acquires(s[k + 1], r)
            BY <1>1, <2>2
        <3>2. ASSUME NEW j \in 1..Len(t), j < k PROVE ~About(t[j], r)
            <4>1. j + 1 \in 1..Len(s) /\ t[j] = s[j + 1] /\ j + 1 < k + 1
                BY <1>1, <3>2
            <4> QED BY <1>2, <3>1, <4>1 DEF Ordered
        <3> QED BY <1>2, <3>1, <3>2 DEF Ordered
    <2>3. ASSUME NEW k \in 1..Len(t), About(t[k], r), r \notin g
          PROVE  \E j \in 1..Len(t) : j <= k /\ Acquires(t[j], r)
        <3>1. k + 1 \in 1..Len(s) /\ About(s[k + 1], r)
            BY <1>1, <2>3
        <3>2. PICK j \in 1..Len(s) : j <= k + 1 /\ Acquires(s[j], r)
            BY <1>2, <2>3, <3>1 DEF Ordered
        <3>3. j # 1
            BY <1>1, <3>2
        <3>4. j - 1 \in 1..Len(t) /\ Acquires(t[j - 1], r) /\ j - 1 <= k
            BY <1>1, <3>2, <3>3
        <3> QED BY <3>4
    <2> QED BY <2>1, <2>2, <2>3 DEF Ordered
<1>5. Settles(t, r, g, state)
    <2>1. state = "none" => r \notin g /\ \A k \in 1..Len(t) : ~About(t[k], r)
        BY <1>1, <1>2 DEF Settles
    <2>2. state = "live" => \A k \in 1..Len(t) : ~Releases(t[k], r)
        BY <1>1, <1>2 DEF Settles
    <2>3. state = "live" => Reaches(t, r, g)
        BY <1>2, <1>3 DEF Settles
    <2>4. ASSUME state = "released", Reaches(t, r, g)
          PROVE  \E k \in 1..Len(t) : Releases(t[k], r)
        <3>1. PICK k \in 1..Len(s) : Releases(s[k], r)
            BY <1>2, <1>3, <2>4 DEF Settles
        <3> QED BY <1>1, <3>1
    <2> QED BY <2>1, <2>2, <2>3, <2>4 DEF Settles
<1> QED BY <1>2, <1>3, <1>4, <1>5 DEF Agrees, t

(* RML pushes commands that do not concern r. *)
LEMMA PushOther ==
    ASSUME NEW s \in Seq(EventRecords), NEW new \in Seq(EventRecords), NEW r, NEW h,
           NEW state \in {"none", "live", "released"}, NEW bytes,
           Agrees(s, r, h, state, bytes), \A i \in 1..Len(new) : ~About(new[i], r)
    PROVE  Agrees(s \o new, r, h, state, bytes)
<1> DEFINE t == s \o new
<1>1. /\ Len(s) \in Nat
      /\ \A i \in 1..Len(s) : i \in 1..Len(t) /\ t[i] = s[i]
      /\ \A i \in 1..Len(t) : i \notin 1..Len(s) =>
           i - Len(s) \in 1..Len(new) /\ t[i] = new[i - Len(s)]
    BY JoinedItems
<1> HIDE DEF t
<1>2. Ordered(s, r, h) /\ Settles(s, r, h, state) /\ (bytes > 0 <=> Reaches(s, r, h))
    BY DEF Agrees
<1>3. \A i \in 1..Len(t) : About(t[i], r) => i \in 1..Len(s) /\ t[i] = s[i]
    BY <1>1
<1>4. \A i \in 1..Len(t) : Acquires(t[i], r) \/ Releases(t[i], r) => i \in 1..Len(s) /\ t[i] = s[i]
    BY <1>3, KindsExclude
<1>5. Reaches(t, r, h) <=> Reaches(s, r, h)
    BY <1>1, <1>4 DEF Reaches
<1>6. Ordered(t, r, h)
    <2>1. ASSUME NEW k \in 1..Len(t), Releases(t[k], r), NEW j \in 1..Len(t), j > k
          PROVE  ~About(t[j], r)
        BY <1>2, <1>3, <1>4, <2>1 DEF Ordered
    <2>2. ASSUME NEW k \in 1..Len(t), Acquires(t[k], r)
          PROVE  r \notin h /\ \A j \in 1..Len(t) : j < k => ~About(t[j], r)
        BY <1>2, <1>3, <1>4, <2>2 DEF Ordered
    <2>3. ASSUME NEW k \in 1..Len(t), About(t[k], r), r \notin h
          PROVE  \E j \in 1..Len(t) : j <= k /\ Acquires(t[j], r)
        <3>1. PICK j \in 1..Len(s) : j <= k /\ Acquires(s[j], r)
            BY <1>2, <1>3, <2>3 DEF Ordered
        <3> QED BY <1>1, <3>1
    <2> QED BY <2>1, <2>2, <2>3 DEF Ordered
<1>7. Settles(t, r, h, state)
    <2>1. state = "none" => r \notin h /\ \A k \in 1..Len(t) : ~About(t[k], r)
        BY <1>2, <1>3 DEF Settles
    <2>2. state = "live" => Reaches(t, r, h) /\ \A k \in 1..Len(t) : ~Releases(t[k], r)
        BY <1>2, <1>4, <1>5 DEF Settles
    <2>3. ASSUME state = "released", Reaches(t, r, h)
          PROVE  \E k \in 1..Len(t) : Releases(t[k], r)
        <3>1. PICK k \in 1..Len(s) : Releases(s[k], r)
            BY <1>2, <1>5, <2>3 DEF Settles
        <3> QED BY <1>1, <3>1
    <2> QED BY <2>1, <2>2, <2>3 DEF Settles
<1> QED BY <1>2, <1>5, <1>6, <1>7 DEF Agrees, t

(* It creates r. *)
LEMMA PushAcquisition ==
    ASSUME NEW s \in Seq(EventRecords), NEW e \in EventRecords, NEW r, NEW h,
           NEW bytes, NEW size \in Nat \ {0},
           Agrees(s, r, h, "none", bytes), Acquires(e, r)
    PROVE  Agrees(s \o <<e>>, r, h, "live", size)
<1> DEFINE t == s \o <<e>>
           n == Len(s) + 1
<1>1. /\ Len(s) \in Nat /\ Len(t) = n /\ n \in 1..Len(t) /\ t[n] = e
      /\ \A i \in 1..Len(t) : i # n => i \in 1..Len(s) /\ t[i] = s[i] /\ i < n
    OBVIOUS
<1> HIDE DEF t, n
<1>2. r \notin h /\ \A i \in 1..Len(s) : ~About(s[i], r)
    BY DEF Agrees, Settles
<1>3. \A i \in 1..Len(t) : About(t[i], r) => i = n
    BY <1>1, <1>2
<1>4. Acquires(t[n], r) /\ ~Releases(t[n], r)
    BY <1>1, KindsExclude
<1>5. \A i \in 1..Len(t) : Acquires(t[i], r) \/ Releases(t[i], r) => i = n
    BY <1>3, KindsExclude
<1>6. Reaches(t, r, h)
    BY <1>1, <1>4 DEF Reaches
<1>7. n \in Int
    BY <1>1
<1>8. Ordered(t, r, h)
    <2>1. \A k \in 1..Len(t) : ~Releases(t[k], r)
        BY <1>4, <1>5
    <2>2. ASSUME NEW k \in 1..Len(t), Acquires(t[k], r), NEW j \in 1..Len(t), j < k
          PROVE  ~About(t[j], r)
        BY <1>3, <1>5, <1>7, <2>2
    <2>3. ASSUME NEW k \in 1..Len(t), About(t[k], r)
          PROVE  \E j \in 1..Len(t) : j <= k /\ Acquires(t[j], r)
        BY <1>1, <1>3, <1>4, <1>7, <2>3
    <2> QED BY <1>2, <2>1, <2>2, <2>3 DEF Ordered
<1>9. Settles(t, r, h, "live")
    BY <1>4, <1>5, <1>6 DEF Settles
<1> QED BY <1>6, <1>8, <1>9 DEF Agrees, t

(* It draws r, or releases it. *)
LEMMA PushUse ==
    ASSUME NEW s \in Seq(EventRecords), NEW new \in Seq(EventRecords), NEW r, NEW h, NEW bytes,
           Agrees(s, r, h, "live", bytes), NEW k \in 1..Len(new),
           Releases(new[k], r) \/ Draws(new[k], r),
           \A i \in 1..Len(new) : i # k => ~About(new[i], r)
    PROVE  Agrees(s \o new, r, h, IF Releases(new[k], r) THEN "released" ELSE "live", bytes)
<1> DEFINE t == s \o new
           n == Len(s) + k
           state == IF Releases(new[k], r) THEN "released" ELSE "live"
<1>1. /\ Len(s) \in Nat /\ Len(new) \in Nat /\ Len(t) = Len(s) + Len(new)
      /\ \A i \in 1..Len(s) : i \in 1..Len(t) /\ t[i] = s[i]
      /\ n \in 1..Len(t) /\ t[n] = new[k]
      /\ \A i \in 1..Len(t) : i \notin 1..Len(s) =>
           i - Len(s) \in 1..Len(new) /\ t[i] = new[i - Len(s)]
    BY JoinedItems
<1>2. n \in Int /\ \A i \in 1..Len(s) : i < n
    BY <1>1
<1>3. \A i \in 1..Len(t) : i \notin 1..Len(s) /\ i # n => ~About(t[i], r)
    <2> SUFFICES ASSUME NEW i \in 1..Len(t), i \notin 1..Len(s), i # n PROVE ~About(t[i], r)
        OBVIOUS
    <2>1. i - Len(s) \in 1..Len(new) /\ t[i] = new[i - Len(s)] /\ i - Len(s) # k
        BY <1>1
    <2> QED BY <2>1
<1> HIDE DEF t, n
<1>4. Ordered(s, r, h) /\ Reaches(s, r, h) /\ bytes > 0 /\ \A i \in 1..Len(s) : ~Releases(s[i], r)
    BY DEF Agrees, Settles
<1>5. ~Acquires(t[n], r) /\ About(t[n], r)
    BY <1>1, KindsExclude
<1>6. \A i \in 1..Len(t) : About(t[i], r) => i = n \/ (i \in 1..Len(s) /\ t[i] = s[i])
    BY <1>1, <1>3
<1>7. \A i \in 1..Len(t) : Acquires(t[i], r) => i \in 1..Len(s) /\ t[i] = s[i]
    BY <1>5, <1>6, KindsExclude
<1>8. \A i \in 1..Len(t) : Releases(t[i], r) => i = n
    BY <1>4, <1>6, KindsExclude
<1>9. Reaches(t, r, h)
    BY <1>1, <1>4 DEF Reaches
<1>10. Ordered(t, r, h)
    <2>1. ASSUME NEW i \in 1..Len(t), Releases(t[i], r), NEW j \in 1..Len(t), j > i
          PROVE  ~About(t[j], r)
        <3>1. i = n
            BY <1>8, <2>1
        <3>2. j # n /\ j \notin 1..Len(s)
            BY <1>2, <2>1, <3>1
        <3> QED BY <1>3, <3>2
    <2>2. ASSUME NEW i \in 1..Len(t), Acquires(t[i], r)
          PROVE  r \notin h /\ \A j \in 1..Len(t) : j < i => ~About(t[j], r)
        <3>1. i \in 1..Len(s) /\ Acquires(s[i], r)
            BY <1>7, <2>2
        <3>2. ASSUME NEW j \in 1..Len(t), j < i PROVE ~About(t[j], r)
            <4>1. j \in 1..Len(s) /\ t[j] = s[j]
                BY <1>1, <3>1, <3>2
            <4> QED BY <1>4, <3>1, <3>2, <4>1 DEF Ordered
        <3> QED BY <1>4, <3>1, <3>2 DEF Ordered
    <2>3. ASSUME NEW i \in 1..Len(t), About(t[i], r), r \notin h
          PROVE  \E j \in 1..Len(t) : j <= i /\ Acquires(t[j], r)
        <3>1. CASE i = n
            <4>1. PICK j \in 1..Len(s) : Acquires(s[j], r)
                BY <1>4, <2>3 DEF Reaches
            <4>2. j \in 1..Len(t) /\ Acquires(t[j], r) /\ j <= i
                BY <1>1, <1>2, <3>1, <4>1
            <4> QED BY <4>2
        <3>2. CASE i # n
            <4>1. i \in 1..Len(s) /\ About(s[i], r)
                BY <1>6, <2>3, <3>2
            <4>2. PICK j \in 1..Len(s) : j <= i /\ Acquires(s[j], r)
                BY <1>4, <2>3, <4>1 DEF Ordered
            <4> QED BY <1>1, <4>2
        <3> QED BY <3>1, <3>2
    <2> QED BY <2>1, <2>2, <2>3 DEF Ordered
<1>11. Settles(t, r, h, state)
    <2>1. CASE Releases(new[k], r)
        BY <1>1, <2>1 DEF Settles
    <2>2. CASE ~Releases(new[k], r)
        <3>1. \A i \in 1..Len(t) : ~Releases(t[i], r)
            BY <1>1, <1>8, <2>2
        <3> QED BY <1>9, <2>2, <3>1 DEF Settles
    <2> QED BY <2>1, <2>2
<1> QED BY <1>4, <1>9, <1>10, <1>11 DEF Agrees, t

-----------------------------------------------------------------------------
(* The render interface's queue *)

(* Commands that RML pushes while the render interface is installed. *)
LEMMA EmitAppends ==
    ASSUME LifetimeInv, RendererInv, "render" \in ui.installed,
           NEW new \in Seq(EventRecords), Emit(new),
           ui'.queue = ui.queue, ui'.render = ui.render
    PROVE  /\ Commands \in Seq(EventRecords) /\ Commands' = Commands \o new
           /\ events' \in [Queues -> Seq(EventRecords)]
           /\ OneCommandQueue' /\ QueueIsThere /\ QueueIsThere'
<1>1. ui.render = "live" /\ ui.queue \in Queues /\ lifetime[ui.queue] = "live"
    BY DEF LifetimeInv, InterfacesAreLive
<1>2. events' = [events EXCEPT ![ui.queue] = @ \o new]
    BY <1>1 DEF Emit, Push
<1>3. events \in [Queues -> Seq(EventRecords)]
    BY DEF RendererInv, EventsAreRecords
<1>4. Commands = events[ui.queue] /\ Commands' = events'[ui.queue]
    BY <1>1, NullIsNoQueue DEF Commands
<1>5. Commands \in Seq(EventRecords) /\ Commands' = Commands \o new
    BY <1>1, <1>2, <1>3, <1>4
<1>6. events[ui.queue] \o new \in Seq(EventRecords)
    BY <1>4, <1>5
<1>7. events' \in [Queues -> Seq(EventRecords)]
    BY <1>1, <1>2, <1>3, <1>6
<1>8. \A q \in Queues : q # ui.queue => events'[q] = events[q]
    BY <1>1, <1>2, <1>3
<1>9. OneCommandQueue'
    BY <1>1, <1>8 DEF RendererInv, OneCommandQueue
<1>10. QueueIsThere /\ QueueIsThere'
    BY <1>1, EmitIsSafe DEF QueueIsThere
<1> QED BY <1>5, <1>7, <1>9, <1>10

(* Commands about no resource. *)
LEMMA EmitOther ==
    ASSUME LifetimeInv, RendererInv, "render" \in ui.installed,
           NEW e \in EventRecords, \A r \in Resources : ~About(e, r), Emit(<<e>>),
           ui'.queue = ui.queue, ui'.render = ui.render, UNCHANGED <<resource, gpu, held>>
    PROVE  RendererInv'
<1>1. <<e>> \in Seq(EventRecords) /\ Len(<<e>>) = 1 /\ <<e>>[1] = e
    OBVIOUS
<1>2. /\ Commands \in Seq(EventRecords) /\ Commands' = Commands \o <<e>>
      /\ events' \in [Queues -> Seq(EventRecords)] /\ OneCommandQueue'
      /\ QueueIsThere /\ QueueIsThere'
    BY <1>1, EmitAppends
<1>3. EventsAreRecords'
    BY <1>2 DEF RendererInv, EventsAreRecords
<1>4. ASSUME NEW r \in Resources
      PROVE  Agrees(Commands \o <<e>>, r, held, resource[r], gpu[r])
    <2>1. Agrees(Commands, r, held, resource[r], gpu[r])
        BY <1>2 DEF RendererInv, RendererAgrees
    <2>2. resource[r] \in {"none", "live", "released"}
        BY DEF LifetimeInv, Lifetimes
    <2>3. \A i \in 1..Len(<<e>>) : ~About(<<e>>[i], r)
        BY <1>1
    <2> QED BY <1>1, <1>2, <2>1, <2>2, <2>3, PushOther
<1>5. RendererAgrees'
    BY <1>2, <1>4 DEF RendererAgrees
<1> QED BY <1>2, <1>3, <1>5 DEF RendererInv

(* A draw of a geometry, with a texture or without. *)
LEMMA EmitDraw ==
    ASSUME LifetimeInv, RendererInv, "render" \in ui.installed,
           NEW e \in EventRecords, e.type = "GEOMETRY_RENDER_EVENT",
           \A r \in Resources : r \in {e.details, e.texture} => resource[r] = "live",
           Emit(<<e>>),
           ui'.queue = ui.queue, ui'.render = ui.render, UNCHANGED <<resource, gpu, held>>
    PROVE  RendererInv'
<1>1. <<e>> \in Seq(EventRecords) /\ Len(<<e>>) = 1 /\ <<e>>[1] = e
    OBVIOUS
<1>2. /\ Commands \in Seq(EventRecords) /\ Commands' = Commands \o <<e>>
      /\ events' \in [Queues -> Seq(EventRecords)] /\ OneCommandQueue'
      /\ QueueIsThere /\ QueueIsThere'
    BY <1>1, EmitAppends
<1>3. EventsAreRecords'
    BY <1>2 DEF RendererInv, EventsAreRecords
<1>4. ASSUME NEW r \in Resources
      PROVE  Agrees(Commands \o <<e>>, r, held, resource[r], gpu[r])
    <2>1. Agrees(Commands, r, held, resource[r], gpu[r])
        BY <1>2 DEF RendererInv, RendererAgrees
    <2>2. resource[r] \in {"none", "live", "released"}
        BY DEF LifetimeInv, Lifetimes
    <2>3. ~Releases(e, r) /\ ~Acquires(e, r)
        BY DEF Releases, Acquires, ReleaseTypes, AcquireTypes
    <2>4. CASE r \in {e.details, e.texture}
        <3>1. Draws(<<e>>[1], r) /\ ~Releases(<<e>>[1], r) /\ resource[r] = "live"
            BY <1>1, <2>3, <2>4 DEF Draws
        <3>2. 1 \in 1..Len(<<e>>) /\ \A i \in 1..Len(<<e>>) : i = 1
            BY <1>1
        <3> HIDE DEF Agrees
        <3>3. Agrees(Commands \o <<e>>, r, held,
                     IF Releases(<<e>>[1], r) THEN "released" ELSE "live", gpu[r])
            BY <1>1, <1>2, <2>1, <3>1, <3>2, PushUse
        <3> QED BY <3>1, <3>3
    <2>5. CASE r \notin {e.details, e.texture}
        <3>1. \A i \in 1..Len(<<e>>) : ~About(<<e>>[i], r)
            BY <1>1, <2>3, <2>5 DEF About, Draws
        <3> QED BY <1>1, <1>2, <2>1, <2>2, <3>1, PushOther
    <2> QED BY <2>4, <2>5
<1>5. RendererAgrees'
    BY <1>2, <1>4 DEF RendererAgrees
<1> QED BY <1>2, <1>3, <1>5 DEF RendererInv

(* A geometry or a texture comes into being. *)
LEMMA EmitAcquisition ==
    ASSUME LifetimeInv, RendererInv, "render" \in ui.installed,
           NEW a \in Resources, resource[a] = "none", NEW bytes \in Nat \ {0},
           NEW type \in AcquireTypes, Acquire(a, bytes, type)
    PROVE  RendererInv'
<1> DEFINE e == RenderCommand(type, a, NULL)
<1>1. /\ e \in EventRecords /\ e.type = type /\ e.details = a
      /\ <<e>> \in Seq(EventRecords) /\ Len(<<e>>) = 1 /\ <<e>>[1] = e
    BY DEF RenderCommand, EventRecords, EventType, RenderCommandTypes, AcquireTypes
<1>2. /\ Emit(<<e>>) /\ ui' = ui /\ held' = held
      /\ resource' = [resource EXCEPT ![a] = "live"] /\ gpu' = [gpu EXCEPT ![a] = bytes]
    BY DEF Acquire, scriptVars
<1> HIDE DEF e
<1>3. /\ Commands \in Seq(EventRecords) /\ Commands' = Commands \o <<e>>
      /\ events' \in [Queues -> Seq(EventRecords)] /\ OneCommandQueue'
      /\ QueueIsThere /\ QueueIsThere'
    BY <1>1, <1>2, EmitAppends
<1>4. EventsAreRecords'
    BY <1>2, <1>3 DEF RendererInv, EventsAreRecords
<1>5. ASSUME NEW r \in Resources
      PROVE  Agrees(Commands \o <<e>>, r, held, resource'[r], gpu'[r])
    <2>1. Agrees(Commands, r, held, resource[r], gpu[r])
        BY <1>3 DEF RendererInv, RendererAgrees
    <2>2. resource[r] \in {"none", "live", "released"}
        BY DEF LifetimeInv, Lifetimes
    <2>3. CASE r = a
        <3>1. resource'[r] = "live" /\ gpu'[r] = bytes
            BY <1>2, <2>3 DEF LifetimeInv, Lifetimes, RendererInv, EventsAreRecords
        <3>2. Acquires(e, r)
            BY <1>1, <2>3 DEF Acquires
        <3>3. Agrees(Commands, r, held, "none", gpu[r])
            BY <2>1, <2>3
        <3>4. Agrees(Commands \o <<e>>, r, held, "live", bytes)
            BY <1>1, <1>3, <3>2, <3>3, PushAcquisition
        <3> QED BY <3>1, <3>4
    <2>4. CASE r # a
        <3>1. resource'[r] = resource[r] /\ gpu'[r] = gpu[r]
            BY <1>2, <2>4 DEF LifetimeInv, Lifetimes, RendererInv, EventsAreRecords
        <3>2. ~About(e, r)
            BY <1>1, <2>4 DEF About, Acquires, Releases, Draws, AcquireTypes
        <3>3. \A i \in 1..Len(<<e>>) : ~About(<<e>>[i], r)
            BY <1>1, <3>2
        <3>4. Agrees(Commands \o <<e>>, r, held, resource[r], gpu[r])
            BY <1>1, <1>3, <2>1, <2>2, <3>3, PushOther
        <3> QED BY <3>1, <3>4
    <2> QED BY <2>3, <2>4
<1>6. RendererAgrees'
    BY <1>2, <1>3, <1>5 DEF RendererAgrees
<1> QED BY <1>3, <1>4, <1>6 DEF RendererInv

(* What is not about a resource does not change what is known of it. *)
LEMMA OthersAgree ==
    ASSUME LifetimeInv, RendererInv, QueueIsThere, Commands \in Seq(EventRecords),
           NEW new \in Seq(EventRecords), NEW r \in Resources,
           \A i \in 1..Len(new) : ~About(new[i], r)
    PROVE  Agrees(Commands \o new, r, held, resource[r], gpu[r])
<1>1. Agrees(Commands, r, held, resource[r], gpu[r])
    BY DEF RendererInv, RendererAgrees
<1>2. resource[r] \in {"none", "live", "released"}
    BY DEF LifetimeInv, Lifetimes
<1> QED BY <1>1, <1>2, PushOther

(* Everything in a set is released, one command each. *)
LEMMA EmitReleases ==
    ASSUME LifetimeInv, RendererInv, "render" \in ui.installed,
           NEW set \in SUBSET Live(Resources), NEW new \in Seq(EventRecords), Emit(new),
           \A i \in 1..Len(new) : new[i].type \in ReleaseTypes /\ new[i].details \in set,
           \A i, j \in 1..Len(new) : new[i].details = new[j].details => i = j,
           \A r \in set : \E i \in 1..Len(new) : new[i].details = r,
           ui'.queue = ui.queue, ui'.render = ui.render, UNCHANGED <<gpu, held>>,
           resource' = [r \in Resources |-> IF r \in set THEN "released" ELSE resource[r]]
    PROVE  RendererInv'
<1>1. /\ Commands \in Seq(EventRecords) /\ Commands' = Commands \o new
      /\ events' \in [Queues -> Seq(EventRecords)] /\ OneCommandQueue'
      /\ QueueIsThere /\ QueueIsThere'
    BY EmitAppends
<1>2. EventsAreRecords'
    BY <1>1 DEF RendererInv, EventsAreRecords
<1>3. ASSUME NEW r, NEW i \in 1..Len(new)
      PROVE  /\ About(new[i], r) <=> new[i].details = r
             /\ Releases(new[i], r) <=> new[i].details = r
    <2>1. new[i].type \in ReleaseTypes
        OBVIOUS
    <2> QED BY <2>1 DEF About, Acquires, Releases, Draws, ReleaseTypes, AcquireTypes
<1>4. ASSUME NEW r \in Resources
      PROVE  Agrees(Commands \o new, r, held, resource'[r], gpu[r])
    <2>1. Agrees(Commands, r, held, resource[r], gpu[r])
        BY <1>1 DEF RendererInv, RendererAgrees
    <2>2. resource[r] \in {"none", "live", "released"}
        BY DEF LifetimeInv, Lifetimes
    <2>3. CASE r \in set
        <3>1. PICK k \in 1..Len(new) : new[k].details = r
            BY <2>3
        <3>2. Releases(new[k], r) /\ \A i \in 1..Len(new) : i # k => ~About(new[i], r)
            BY <1>3, <3>1
        <3>3. Agrees(Commands, r, held, "live", gpu[r])
            BY <2>1, <2>3 DEF Live
        <3>4. Agrees(Commands \o new, r, held,
                     IF Releases(new[k], r) THEN "released" ELSE "live", gpu[r])
            BY <1>1, <3>2, <3>3, PushUse
        <3>5. resource'[r] = "released"
            BY <2>3
        <3> QED BY <3>2, <3>4, <3>5
    <2>4. CASE r \notin set
        <3>1. ASSUME NEW i \in 1..Len(new) PROVE ~About(new[i], r)
            <4>1. new[i].details \in set
                OBVIOUS
            <4>2. new[i].details # r
                BY <2>4, <4>1
            <4> QED BY <1>3, <4>2, Zenon
        <3>2. \A i \in 1..Len(new) : ~About(new[i], r)
            BY <3>1, Zenon
        <3>3. Agrees(Commands \o new, r, held, resource[r], gpu[r])
            BY <1>1, <3>2, OthersAgree, Zenon
        <3>4. resource'[r] = resource[r]
            BY <2>4
        <3> QED BY <3>3, <3>4
    <2> QED BY <2>3, <2>4
<1>5. RendererAgrees'
    BY <1>1, <1>4 DEF RendererAgrees
<1> QED BY <1>1, <1>2, <1>5 DEF RendererInv

LEMMA EmitRelease ==
    ASSUME LifetimeInv, RendererInv, "render" \in ui.installed,
           NEW a \in Resources, resource[a] = "live", NEW type \in ReleaseTypes, Release(a, type)
    PROVE  RendererInv'
<1> DEFINE e == RenderCommand(type, a, NULL)
<1>1. /\ e \in EventRecords /\ e.type = type /\ e.details = a
      /\ <<e>> \in Seq(EventRecords) /\ Len(<<e>>) = 1 /\ <<e>>[1] = e
    BY DEF RenderCommand, EventRecords, EventType, RenderCommandTypes, ReleaseTypes
<1>2. /\ Emit(<<e>>) /\ ui' = ui /\ held' = held /\ gpu' = gpu
      /\ resource' = [resource EXCEPT ![a] = "released"]
    BY DEF Release, scriptVars
<1> HIDE DEF e
<1>3. resource' = [r \in Resources |-> IF r \in {a} THEN "released" ELSE resource[r]]
    BY <1>2 DEF LifetimeInv, Lifetimes
<1>4. {a} \in SUBSET Live(Resources)
    BY DEF Live
<1> DEFINE new == <<e>>
<1>5. \A i \in 1..Len(new) : i = 1 /\ new[i].type \in ReleaseTypes /\ new[i].details = a
    BY <1>1
<1>6. 1 \in 1..Len(new)
    BY <1>1
<1>7. new \in Seq(EventRecords) /\ Emit(new)
    BY <1>1, <1>2
<1> HIDE DEF new
<1>8. /\ \A i \in 1..Len(new) : new[i].type \in ReleaseTypes /\ new[i].details \in {a}
      /\ \A i, j \in 1..Len(new) : new[i].details = new[j].details => i = j
    BY <1>5
<1>9. \A r \in {a} : \E i \in 1..Len(new) : new[i].details = r
    BY <1>5, <1>6
<1>10. ui'.queue = ui.queue /\ ui'.render = ui.render /\ UNCHANGED <<gpu, held>>
    BY <1>2
<1> QED BY <1>3, <1>4, <1>7, <1>8, <1>9, <1>10, EmitReleases

(* SetToSeq lists a finite set without repetition. *)
LEMMA ListedOnce ==
    ASSUME NEW S, IsFiniteSet(S)
    PROVE  LET f == SetToSeq(S) IN
           /\ f \in Seq(S) /\ DOMAIN f = 1..Len(f)
           /\ \A i, j \in 1..Len(f) : f[i] = f[j] => i = j
           /\ \A x \in S : \E i \in 1..Len(f) : f[i] = x
<1> DEFINE n == Cardinality(S)
           f == SetToSeq(S)
<1>1. n \in Nat /\ ExistsBijection(1..n, S)
    BY FS_CardinalityType
<1>2. PICK g : g \in Bijection(1..n, S)
    BY <1>1 DEF ExistsBijection
<1>3. g \in [1..n -> S] /\ IsInjective(g)
    BY <1>2 DEF Bijection, Injection
<1>4. f \in [1..n -> S] /\ IsInjective(f)
    BY <1>3 DEF SetToSeq
<1> HIDE DEF f
<1>5. f \in Injection(1..n, S)
    BY <1>4 DEF Injection
<1>6. IsFiniteSet(1..n) /\ Cardinality(1..n) = n
    BY <1>1, FS_Interval
<1>7. f \in Surjection(1..n, S)
    BY <1>5, <1>6, FS_Injection
<1>8. \A x \in S : \E i \in 1..n : f[i] = x
    BY <1>7 DEF Surjection
<1>9. f \in Seq(S) /\ Len(f) = n /\ DOMAIN f = 1..n
    BY <1>1, <1>4
<1>10. \A i, j \in 1..n : f[i] = f[j] => i = j
    BY <1>4, <1>9 DEF IsInjective
<1> QED BY <1>8, <1>9, <1>10 DEF f

(* The commands that release a set. *)
LEMMA ReleaseCommands ==
    ASSUME NEW set \in SUBSET Live(Resources), set # {}, ReleaseAll(set)
    PROVE  \E new \in Seq(EventRecords) :
             /\ Emit(new)
             /\ \A i \in 1..Len(new) : new[i].type \in ReleaseTypes /\ new[i].details \in set
             /\ \A i, j \in 1..Len(new) : new[i].details = new[j].details => i = j
             /\ \A r \in set : \E i \in 1..Len(new) : new[i].details = r
<1> DEFINE order == SetToSeq(set)
           TypeOf(r) == IF r \in Geometries THEN "GEOMETRY_RELEASE_EVENT"
                                            ELSE "TEXTURE_RELEASE_EVENT"
           new == [i \in DOMAIN order |-> RenderCommand(TypeOf(order[i]), order[i], NULL)]
<1>1. IsFiniteSet(set) /\ set \subseteq Resources
    BY ResourcesAreFinite, FS_Subset DEF Live, Resources
<1>2. /\ order \in Seq(set) /\ DOMAIN order = 1..Len(order)
      /\ \A i, j \in 1..Len(order) : order[i] = order[j] => i = j
      /\ \A r \in set : \E i \in 1..Len(order) : order[i] = r
    BY <1>1, ListedOnce
<1>3. Emit(new)
    BY DEF ReleaseAll
<1> HIDE DEF order
<1>4. ASSUME NEW i \in 1..Len(order)
      PROVE  /\ new[i].type \in ReleaseTypes /\ new[i].details = order[i]
             /\ order[i] \in set /\ new[i] \in EventRecords
    <2>1. order[i] \in set /\ TypeOf(order[i]) \in ReleaseTypes
        BY <1>2 DEF ReleaseTypes
    <2>2. new[i] = RenderCommand(TypeOf(order[i]), order[i], NULL)
        BY <1>2
    <2> HIDE DEF TypeOf, new
    <2> QED BY <1>1, <2>1, <2>2 DEF RenderCommand, EventRecords, EventType,
            RenderCommandTypes, ReleaseTypes
<1>5. Len(order) \in Nat
    BY <1>2
<1>6. DOMAIN new = 1..Len(order)
    BY <1>2
<1> HIDE DEF TypeOf
<1>7. new \in Seq(EventRecords) /\ Len(new) = Len(order)
    <2>1. \A i \in 1..Len(order) : new[i] \in EventRecords
        BY <1>4
    <2>2. new \in [1..Len(order) -> EventRecords]
        BY <1>2, <2>1
    <2> HIDE DEF new
    <2> QED BY <1>5, <2>2
<1> HIDE DEF new
<1>8. \A i \in 1..Len(new) : new[i].type \in ReleaseTypes /\ new[i].details \in set
    BY <1>4, <1>7
<1>9. \A i, j \in 1..Len(new) : new[i].details = new[j].details => i = j
    BY <1>2, <1>4, <1>7
<1>10. \A r \in set : \E i \in 1..Len(new) : new[i].details = r
    BY <1>2, <1>4, <1>7
<1> QED BY <1>3, <1>7, <1>8, <1>9, <1>10

(* The releases of a shutdown, or of a context that is removed. *)
LEMMA ReleaseAllStep ==
    ASSUME LifetimeInv, RendererInv, NEW set \in SUBSET Live(Resources), ReleaseAll(set),
           ui'.queue = ui.queue, ui'.render = ui.render, UNCHANGED <<gpu, held>>
    PROVE  RendererInv'
<1>1. resource' = [r \in Resources |-> IF r \in set THEN "released" ELSE resource[r]]
    BY DEF ReleaseAll
<1>2. CASE set = {}
    <2>1. events' = events /\ lifetime' = lifetime
        BY <1>2 DEF ReleaseAll, interopVars
    <2>2. resource' = resource
        BY <1>1, <1>2 DEF LifetimeInv, Lifetimes
    <2>3. Commands' = Commands
        BY <2>1 DEF Commands
    <2>4. QueueIsThere' <=> QueueIsThere
        BY <2>1 DEF QueueIsThere
    <2> QED BY <2>1, <2>2, <2>3, <2>4
            DEF RendererInv, EventsAreRecords, OneCommandQueue, RendererAgrees
<1>3. CASE set # {}
    <2>1. PICK new \in Seq(EventRecords) :
             /\ Emit(new)
             /\ \A i \in 1..Len(new) : new[i].type \in ReleaseTypes /\ new[i].details \in set
             /\ \A i, j \in 1..Len(new) : new[i].details = new[j].details => i = j
             /\ \A r \in set : \E i \in 1..Len(new) : new[i].details = r
        BY <1>3, ReleaseCommands
    <2>2. "render" \in ui.installed
        BY <1>3 DEF LifetimeInv, ResourcesHaveARenderer
    <2> QED BY <1>1, <2>1, <2>2, EmitReleases
<1> QED BY <1>2, <1>3

-----------------------------------------------------------------------------
(* Steps of the others *)

(* Steps after which the same queues exist ... *)
LEMMA SameQueueIsThere ==
    ASSUME ui'.queue = ui.queue, lifetime' = lifetime
    PROVE  QueueIsThere' <=> QueueIsThere
BY DEF QueueIsThere

(* ... and that change no queue and nothing that the queues are about. *)
LEMMA SameCommands ==
    ASSUME RendererInv, ui'.queue = ui.queue, ui'.render = "none" => ui.render = "none",
           QueueIsThere' <=> QueueIsThere, UNCHANGED <<events, resource, gpu, held>>
    PROVE  RendererInv'
<1>1. Commands' = Commands
    BY DEF Commands
<1> QED BY <1>1 DEF RendererInv, EventsAreRecords, OneCommandQueue, RendererAgrees

(* Events of a window or of the script's own, in any queue. *)
LEMMA OtherPush ==
    ASSUME LifetimeInv, RendererInv, NEW q \in Queues, lifetime[q] = "live",
           NEW e \in EventRecords, \A r \in Resources : ~About(e, r), Push(q, <<e>>),
           UNCHANGED <<ui, resource, gpu, held>>
    PROVE  RendererInv'
<1>1. events' = [events EXCEPT ![q] = @ \o <<e>>] /\ lifetime' = lifetime
    BY DEF Push
<1>0. QueueIsThere' <=> QueueIsThere
    BY <1>1, SameQueueIsThere
<1>2. events \in [Queues -> Seq(EventRecords)] /\ <<e>> \in Seq(EventRecords)
    BY DEF RendererInv, EventsAreRecords
<1>3. \A p \in Queues : p # q => events'[p] = events[p]
    BY <1>1, <1>2
<1>4. events'[q] = events[q] \o <<e>> /\ events'[q] \in Seq(EventRecords)
    BY <1>1, <1>2
<1>5. events' \in [Queues -> Seq(EventRecords)]
    BY <1>1, <1>2, <1>4
<1>6. EventsAreRecords'
    BY <1>5 DEF RendererInv, EventsAreRecords
<1>7. OneCommandQueue'
    <2>1. ASSUME NEW p \in Queues, p # ui.queue, NEW i \in 1..Len(events'[p]), NEW r \in Resources
          PROVE  ~About(events'[p][i], r)
        <3>1. \A k \in 1..Len(events[p]) : ~About(events[p][k], r)
            BY <2>1 DEF RendererInv, OneCommandQueue
        <3>2. CASE p = q
            <4>1. events[q] \in Seq(EventRecords)
                BY <1>2
            <4>2. (i \in 1..Len(events[q]) /\ events'[p][i] = events[q][i]) \/ events'[p][i] = e
                BY <1>4, <2>1, <3>2, <4>1
            <4> QED BY <2>1, <3>1, <3>2, <4>2
        <3> QED BY <1>3, <2>1, <3>1, <3>2
    <2> QED BY <2>1 DEF RendererInv, OneCommandQueue
<1>8. CASE ui.queue = q
    <2>1. Commands = events[q] /\ Commands' = Commands \o <<e>> /\ Commands \in Seq(EventRecords)
        BY <1>2, <1>4, <1>8, NullIsNoQueue DEF Commands
    <2>2. ASSUME NEW r \in Resources PROVE Agrees(Commands \o <<e>>, r, held, resource[r], gpu[r])
        <3>1. \A i \in 1..Len(<<e>>) : ~About(<<e>>[i], r)
            OBVIOUS
        <3>2. QueueIsThere
            BY <1>8 DEF QueueIsThere
        <3> QED BY <1>2, <2>1, <3>1, <3>2, OthersAgree
    <2>3. RendererAgrees'
        <3>1. QueueIsThere'
            BY <1>0, <1>8 DEF QueueIsThere
        <3> QED BY <2>1, <2>2, <3>1 DEF RendererAgrees
    <2> QED BY <1>6, <1>7, <2>3 DEF RendererInv
<1>9. CASE ui.queue # q
    <2>1. Commands' = Commands
        BY <1>3, <1>9 DEF Commands, LifetimeInv, Lifetimes, RmlState
    <2>2. RendererAgrees'
        BY <1>0, <2>1 DEF RendererInv, RendererAgrees
    <2> QED BY <1>6, <1>7, <2>2 DEF RendererInv
<1> QED BY <1>8, <1>9

(* The script takes an event from a queue; only those of the render interface's
   queue change what it holds. *)
LEMMA DrainAgrees ==
    ASSUME LifetimeInv, RendererInv, NEW q \in Queues, DrainNext(q)
    PROVE  RendererInv'
<1> DEFINE event == PoppedEvent(q)
<1>1. /\ lifetime[q] = "live" /\ UNCHANGED <<ui, resource, lifetime>>
      /\ events' = IF events[q] = <<>> THEN events ELSE [events EXCEPT ![q] = Tail(@)]
      /\ gpu' = [r \in Resources |-> IF r \in held \ held' THEN 0 ELSE gpu[r]]
    BY DEF DrainNext, queue_pop_event
<1>2. held' = CASE event.type \in AcquireTypes -> held \cup {event.details}
                [] event.type \in ReleaseTypes -> held \ {event.details}
                [] OTHER -> held
    BY DEF DrainNext, AcquireTypes, ReleaseTypes
<1>3. /\ events \in [Queues -> Seq(EventRecords)]
      /\ gpu \in [Resources -> Nat] /\ held \subseteq Resources
    BY DEF RendererInv, EventsAreRecords
<1>4. CASE events[q] = <<>>
    <2>1. event.type = "ERROR_EVENT"
        BY <1>4 DEF PoppedEvent, ErrorEvent
    <2>2. held' = held
        BY <1>2, <2>1 DEF AcquireTypes, ReleaseTypes
    <2>3. gpu' = gpu
        BY <1>1, <1>3, <2>2
    <2> QED BY <1>1, <1>4, <2>2, <2>3, SameCommands, SameQueueIsThere
<1>5. CASE events[q] # <<>>
    <2> DEFINE s == events[q]
    <2>1. /\ s \in Seq(EventRecords) /\ event = Head(s) /\ Head(s) = s[1] /\ 1 \in 1..Len(s)
          /\ event \in EventRecords /\ Tail(s) \in Seq(EventRecords)
        BY <1>3, <1>5 DEF PoppedEvent
    <2>2. events'[q] = Tail(s) /\ \A p \in Queues : p # q => events'[p] = events[p]
        BY <1>1, <1>3, <1>5
    <2>3. events' \in [Queues -> Seq(EventRecords)]
        BY <1>1, <1>3, <1>5, <2>1
    <2>4. /\ \A r : Acquires(event, r) => r \in held'
          /\ \A r : Releases(event, r) => r \notin held'
          /\ \A r : ~Acquires(event, r) /\ ~Releases(event, r) => (r \in held' <=> r \in held)
        <3>1. CASE event.type \in AcquireTypes
            BY <1>2, <3>1 DEF Acquires, Releases, AcquireTypes, ReleaseTypes
        <3>2. CASE event.type \in ReleaseTypes
            <4>1. event.type \notin AcquireTypes
                BY <3>2 DEF AcquireTypes, ReleaseTypes
            <4> QED BY <1>2, <3>2, <4>1 DEF Acquires, Releases
        <3>3. CASE event.type \notin AcquireTypes \cup ReleaseTypes
            BY <1>2, <3>3 DEF Acquires, Releases
        <3> QED BY <3>1, <3>2, <3>3
    <2> HIDE DEF event
    <2>5. ASSUME q # ui.queue PROVE \A r \in Resources : ~About(event, r)
        BY <2>1, <2>5 DEF RendererInv, OneCommandQueue
    <2>6. held' \subseteq Resources
        <3>1. event.type \in AcquireTypes => event.details \in Resources
            BY <2>1 DEF EventRecords
        <3>2. held' \subseteq held \/ (event.type \in AcquireTypes /\ held' = held \cup {event.details})
            BY <1>2
        <3> QED BY <1>3, <3>1, <3>2
    <2>7. gpu' \in [Resources -> Nat]
        BY <1>1, <1>3
    <2>8. EventsAreRecords'
        BY <2>3, <2>6, <2>7 DEF EventsAreRecords
    <2>9. OneCommandQueue'
        <3>1. ASSUME NEW p \in Queues, p # ui.queue, NEW i \in 1..Len(events'[p]),
                     NEW r \in Resources
              PROVE  ~About(events'[p][i], r)
            <4>1. \A k \in 1..Len(events[p]) : ~About(events[p][k], r)
                BY <3>1 DEF RendererInv, OneCommandQueue
            <4>2. CASE p = q
                <5>1. \A k \in 1..Len(Tail(s)) : k + 1 \in 1..Len(s) /\ Tail(s)[k] = s[k + 1]
                    BY <1>5, <2>1, TailItems
                <5>2. events'[p] = Tail(s) /\ events[p] = s
                    BY <2>2, <4>2
                <5> HIDE DEF s
                <5>3. i + 1 \in 1..Len(s) /\ events'[p][i] = s[i + 1]
                    BY <3>1, <5>1, <5>2
                <5> QED BY <4>1, <5>2, <5>3
            <4> QED BY <2>2, <3>1, <4>1, <4>2
        <3> QED BY <1>1, <3>1 DEF RendererInv, OneCommandQueue
    <2>10. ASSUME QueueIsThere, NEW r \in Resources
           PROVE  Agrees(Commands', r, held', resource[r], gpu'[r])
        <3>1. Agrees(Commands, r, held, resource[r], gpu[r])
            BY <2>10 DEF RendererInv, RendererAgrees
        <3>2. resource[r] \in {"none", "live", "released"}
            BY DEF LifetimeInv, Lifetimes
        <3>3. r \in held' \/ r \notin held => gpu'[r] = gpu[r]
            BY <1>1
        <3>4. CASE q # ui.queue
            <4>1. Commands' = Commands
                BY <1>1, <2>2, <3>4 DEF Commands, LifetimeInv, Lifetimes, RmlState
            <4>2. ~Acquires(event, r) /\ ~Releases(event, r)
                BY <2>5, <3>4 DEF About
            <4>3. (r \in held' <=> r \in held) /\ gpu'[r] = gpu[r]
                BY <2>4, <3>3, <4>2
            <4> QED BY <3>1, <4>1, <4>3 DEF Agrees, Ordered, Settles, Reaches
        <3>5. CASE q = ui.queue
            <4>1. Commands = s /\ Commands' = Tail(s) /\ s # <<>> /\ s \in Seq(EventRecords)
                BY <1>1, <1>5, <2>1, <2>2, <3>5, NullIsNoQueue DEF Commands
            <4> HIDE DEF s
            <4>2. CASE Acquires(event, r)
                <5>1. r \in held' /\ gpu'[r] = gpu[r]
                    BY <2>4, <3>3, <4>2
                <5> QED BY <2>1, <3>1, <4>1, <4>2, <5>1, TakeAcquisition
            <4>3. CASE Releases(event, r)
                <5>1. r \notin held'
                    BY <2>4, <4>3
                <5>2. r \in held /\ Agrees(Tail(s), r, held', resource[r], 0)
                    BY <2>1, <3>1, <3>2, <4>1, <4>3, <5>1, TakeRelease
                <5>3. gpu'[r] = 0
                    BY <1>1, <5>1, <5>2
                <5> QED BY <4>1, <5>2, <5>3
            <4>4. CASE ~Acquires(event, r) /\ ~Releases(event, r)
                <5>1. (r \in held' <=> r \in held) /\ gpu'[r] = gpu[r]
                    BY <2>4, <3>3, <4>4
                <5> QED BY <2>1, <3>1, <3>2, <4>1, <4>4, <5>1, TakeOther
            <4> QED BY <4>2, <4>3, <4>4
        <3> QED BY <3>4, <3>5
    <2>11. QueueIsThere' <=> QueueIsThere
        BY <1>1, SameQueueIsThere
    <2>12. ASSUME ~QueueIsThere PROVE Commands' = <<>>
        <3>1. q # ui.queue /\ Commands = <<>>
            BY <1>1, <2>12 DEF QueueIsThere, RendererInv, RendererAgrees
        <3>2. Commands' = Commands
            BY <1>1, <2>2, <3>1 DEF Commands, LifetimeInv, Lifetimes, RmlState
        <3> QED BY <3>1, <3>2
    <2>13. RendererAgrees'
        BY <1>1, <2>10, <2>11, <2>12 DEF RendererAgrees
    <2> QED BY <2>8, <2>9, <2>13 DEF RendererInv
<1> QED BY <1>4, <1>5

LEMMA InteropAgrees == ASSUME LifetimeInv, RendererInv, InteropNext PROVE RendererInv'
<1>1. ASSUME NEW q \in Queues, queue_create(q) /\ UNCHANGED <<glfwVars, rmlVars, scriptVars>>
      PROVE  RendererInv'
    <2>1. /\ lifetime[q] = "none" /\ lifetime' = [lifetime EXCEPT ![q] = "live"]
          /\ UNCHANGED <<events, ui, resource, gpu, held>>
        BY <1>1 DEF queue_create, rmlVars, scriptVars
    <2>2. /\ ui.queue \in Queues \cup {NULL} /\ ui.queue # NULL => lifetime[ui.queue] # "none"
          /\ lifetime \in [Queues -> {"none", "live", "deleted"}]
        BY DEF LifetimeInv, Lifetimes, InterfacesAreLive, RmlState
    <2>3. QueueIsThere' <=> QueueIsThere
        BY <2>1, <2>2 DEF QueueIsThere
    <2> QED BY <2>1, <2>3, SameCommands
<1>2. ASSUME NEW q \in Queues, RegisterWindow(q) PROVE RendererInv'
    BY <1>2, SameCommands, SameQueueIsThere
       DEF RegisterWindow, glfw_register_events, interopVars, rmlVars
<1>3. ASSUME NEW q \in Queues, PushOwnEvent(q) PROVE RendererInv'
    <2> DEFINE e == WindowEvent("WINDOW_CLOSE_EVENT", NULL)
    <2>1. lifetime[q] = "live" /\ Push(q, <<e>>) /\ UNCHANGED <<ui, resource, gpu, held>>
        BY <1>3, NullIsNoQueue DEF PushOwnEvent, queue_push_event, rmlVars, scriptVars
    <2>2. e \in EventRecords /\ e.type = "WINDOW_CLOSE_EVENT"
        BY DEF WindowEvent, EventRecords, EventType, WindowEventTypes, AcquireTypes
    <2> HIDE DEF e
    <2>3. \A r \in Resources : ~About(e, r)
        BY <2>2 DEF About, Acquires, Releases, Draws, AcquireTypes, ReleaseTypes
    <2> QED BY <2>1, <2>2, <2>3, OtherPush
<1>4. ASSUME NEW q \in Queues, DestroyQueue(q) PROVE RendererInv'
    <2>1. /\ lifetime' = [lifetime EXCEPT ![q] = "deleted"]
          /\ events' = [events EXCEPT ![q] = <<>>]
          /\ UNCHANGED <<ui, resource, gpu, held>>
        BY <1>4 DEF DestroyQueue, queue_destroy, rmlVars, scriptVars
    <2>2. /\ ui.queue \in Queues \cup {NULL}
          /\ lifetime \in [Queues -> {"none", "live", "deleted"}]
        BY DEF LifetimeInv, Lifetimes, RmlState
    <2>3. /\ events \in [Queues -> Seq(EventRecords)]
          /\ gpu \in [Resources -> Nat] /\ held \subseteq Resources
        BY DEF RendererInv, EventsAreRecords
    <2>4. /\ events' \in [Queues -> Seq(EventRecords)]
          /\ \A p \in Queues : events'[p] = IF p = q THEN <<>> ELSE events[p]
        BY <2>1, <2>3
    <2>5. EventsAreRecords'
        BY <2>1, <2>3, <2>4 DEF EventsAreRecords
    <2>6. ASSUME NEW p \in Queues, p # ui.queue, NEW r \in Resources, NEW i \in 1..Len(events'[p])
          PROVE  ~About(events'[p][i], r)
        BY <2>4, <2>6 DEF RendererInv, OneCommandQueue
    <2>7. OneCommandQueue'
        BY <2>1, <2>6 DEF RendererInv, OneCommandQueue
    <2>8. CASE q = ui.queue
        <3>1. ~QueueIsThere' /\ Commands' = <<>>
            BY <2>1, <2>2, <2>4, <2>8, NullIsNoQueue DEF QueueIsThere, Commands
        <3> QED BY <2>5, <2>7, <3>1 DEF RendererInv, RendererAgrees
    <2>9. CASE q # ui.queue
        <3>1. (QueueIsThere' <=> QueueIsThere) /\ Commands' = Commands
            BY <2>1, <2>2, <2>4, <2>9 DEF QueueIsThere, Commands
        <3> QED BY <2>1, <2>5, <2>7, <3>1 DEF RendererInv, RendererAgrees
    <2> QED BY <2>8, <2>9
<1> QED BY <1>1, <1>2, <1>3, <1>4, DrainAgrees DEF InteropNext

(* The events of a window. *)
LEMMA WindowRecords ==
    ASSUME NEW type \in WindowEventTypes \cup InputEventTypes, NEW value \in Values \cup {NULL}
    PROVE  /\ WindowEvent(type, value) \in EventRecords
           /\ WindowEvent(type, value).type = type /\ WindowEvent(type, value).details = value
           /\ \A r : ~About(WindowEvent(type, value), r)
<1> DEFINE e == WindowEvent(type, value)
<1>1. /\ e = [type |-> type, details |-> value, texture |-> NULL]
      /\ e.type = type /\ e.details = value /\ e.texture = NULL
    BY DEF WindowEvent
<1> HIDE DEF e
<1>2. /\ type \in EventType /\ type \notin AcquireTypes \cup ReleaseTypes
      /\ type # "GEOMETRY_RENDER_EVENT"
    BY DEF EventType, WindowEventTypes, InputEventTypes, AcquireTypes, ReleaseTypes
<1>3. e \in EventRecords
    BY <1>1, <1>2 DEF EventRecords
<1>4. \A r : ~About(e, r)
    BY <1>1, <1>2 DEF About, Acquires, Releases, Draws
<1> QED BY <1>1, <1>3, <1>4 DEF e

LEMMA GlfwAgrees == ASSUME LifetimeInv, RendererInv, GlfwNext PROVE RendererInv'
<1>1. UNCHANGED <<ui, resource, gpu, held>>
    BY GlfwCases
<1>2. ASSUME UNCHANGED interopVars PROVE RendererInv'
    BY <1>1, <1>2, SameCommands, SameQueueIsThere DEF interopVars
<1>3. ASSUME window = "open", userPointer # NULL
      PROVE  userPointer \in Queues /\ lifetime[userPointer] = "live"
    BY <1>3 DEF LifetimeInv, Lifetimes, WindowHasItsQueue
<1>4. CASE glfw_create_window \/ glfw_destroy_window
    BY <1>2, <1>4 DEF glfw_create_window, glfw_destroy_window
<1>5. ASSUME NEW type \in Observed \cap WindowEventTypes, NEW v \in Values, WindowChanges(type, v)
      PROVE  RendererInv'
    <2>1. CASE userPointer = NULL
        BY <1>2, <1>5, <2>1 DEF WindowChanges, OnWindowEvent
    <2>2. CASE userPointer # NULL
        <3>1. PICK value \in Values \cup {NULL} :
                Push(userPointer, <<WindowEvent(type, value)>>)
            BY <1>5, <2>2 DEF WindowChanges, OnWindowEvent
        <3>2. userPointer \in Queues /\ lifetime[userPointer] = "live"
            BY <1>3, <1>5, <2>2 DEF WindowChanges, OnWindowEvent
        <3> QED BY <1>1, <3>1, <3>2, WindowRecords, OtherPush
    <2> QED BY <2>1, <2>2
<1>6. ASSUME NEW type \in Observed \cap InputEventTypes, OnInputEvent(type)
      PROVE  RendererInv'
    <2>1. Push(userPointer, <<WindowEvent(type, NULL)>>)
        BY <1>6 DEF OnInputEvent
    <2>2. userPointer \in Queues /\ lifetime[userPointer] = "live"
        BY <1>3, <1>6 DEF OnInputEvent
    <2> QED BY <1>1, <2>1, <2>2, WindowRecords, OtherPush
<1> QED BY <1>4, <1>5, <1>6, GlfwCases

(* Buffers and textures are never empty. *)
LEMMA AlignedSize ==
    ASSUME NEW n \in Nat
    PROVE  GetAlignedBufferSize(n) \in Nat /\ GetAlignedBufferSize(n) >= n
BY DEF GetAlignedBufferSize

LEMMA MemoryIsPositive ==
    ASSUME NEW n \in Counts, NEW m \in Counts
    PROVE  /\ CreateVertexBuffer(n) + CreateIndexBuffer(m) \in Nat \ {0}
           /\ CreateTexture(n, m) \in Nat \ {0}
<1>1. n \in Nat /\ m \in Nat /\ n >= 1 /\ m >= 1
    BY CountsArePositive
<1>2. 20 * n \in Nat /\ 4 * m \in Nat /\ 20 * n >= 1
    BY <1>1
<1>3. /\ CreateVertexBuffer(n) \in Nat /\ CreateVertexBuffer(n) >= 1
      /\ CreateIndexBuffer(m) \in Nat
    <2>1. GetAlignedBufferSize(20 * n) \in Nat /\ GetAlignedBufferSize(20 * n) >= 20 * n
        BY <1>2, AlignedSize
    <2>2. GetAlignedBufferSize(4 * m) \in Nat
        BY <1>2, AlignedSize
    <2> QED BY <1>2, <2>1, <2>2 DEF CreateVertexBuffer, CreateIndexBuffer
<1>4. n * m \in Nat /\ n * m >= 1
    BY <1>1
<1> HIDE DEF GetAlignedBufferSize
<1> QED BY <1>3, <1>4 DEF CreateTexture

LEMMA RendererCallAgrees == ASSUME LifetimeInv, RendererInv, RendererNext PROVE RendererInv'
<1>1. ASSUME InContextCall PROVE "render" \in ui.installed
    BY <1>1 DEF InContextCall, LifetimeInv, ResourcesHaveARenderer
<1>2. ASSUME NEW g \in Geometries, NEW n \in Counts, NEW m \in Counts, CompileGeometry(g, n, m)
      PROVE  RendererInv'
    <2>1. "render" \in ui.installed /\ g \in Resources /\ resource[g] = "none"
        BY <1>1, <1>2 DEF CompileGeometry, Resources
    <2>2. "GEOMETRY_COMPILATION_EVENT" \in AcquireTypes
        BY DEF AcquireTypes
    <2>3. Acquire(g, CreateVertexBuffer(n) + CreateIndexBuffer(m), "GEOMETRY_COMPILATION_EVENT")
        BY <1>2 DEF CompileGeometry
    <2> QED BY <2>1, <2>2, <2>3, MemoryIsPositive, EmitAcquisition
<1>3. ASSUME NEW g \in Geometries, NEW t \in Live(Textures) \cup {NULL}, RenderGeometry(g, t)
      PROVE  RendererInv'
    <2> DEFINE e == RenderCommand("GEOMETRY_RENDER_EVENT", g, t)
    <2>1. /\ "render" \in ui.installed /\ resource[g] = "live" /\ Emit(<<e>>)
          /\ UNCHANGED <<ui, resource, gpu, held>>
        BY <1>1, <1>3 DEF RenderGeometry, rmlVars, scriptVars
    <2>2. g \in Resources /\ t \in Resources \cup {NULL}
        BY DEF Live, Resources
    <2>3. /\ e \in EventRecords /\ e.type = "GEOMETRY_RENDER_EVENT"
          /\ e.details = g /\ e.texture = t
        BY <2>2 DEF RenderCommand, EventRecords, EventType, RenderCommandTypes
    <2> HIDE DEF e
    <2>4. \A r \in Resources : r \in {e.details, e.texture} => resource[r] = "live"
        BY <2>1, <2>3, NullIsNoResource DEF Live, Resources
    <2> QED BY <2>1, <2>3, <2>4, EmitDraw
<1>4. ASSUME NEW g \in Geometries, ReleaseGeometry(g) PROVE RendererInv'
    <2>1. "render" \in ui.installed /\ g \in Resources /\ resource[g] = "live"
        BY <1>1, <1>4 DEF ReleaseGeometry, Resources
    <2> QED BY <1>4, <2>1, EmitRelease DEF ReleaseGeometry, ReleaseTypes
<1>5. ASSUME NEW t \in Textures, NEW w \in Counts, NEW h \in Counts,
             LoadTexture(t, w, h) \/ GenerateTexture(t, w, h)
      PROVE  RendererInv'
    <2>1. "render" \in ui.installed /\ t \in Resources /\ resource[t] = "none"
        BY <1>1, <1>5 DEF LoadTexture, GenerateTexture, Resources
    <2>2. PICK type \in AcquireTypes : Acquire(t, CreateTexture(w, h), type)
        BY <1>5 DEF LoadTexture, GenerateTexture, AcquireTypes
    <2> QED BY <2>1, <2>2, MemoryIsPositive, EmitAcquisition
<1>6. ASSUME NEW t \in Textures, ReleaseTexture(t) PROVE RendererInv'
    <2>1. "render" \in ui.installed /\ t \in Resources /\ resource[t] = "live"
        BY <1>1, <1>6 DEF ReleaseTexture, Resources
    <2> QED BY <1>6, <2>1, EmitRelease DEF ReleaseTexture, ReleaseTypes
<1>7. CASE EnableScissorRegion \/ SetScissorRegion \/ SetTransform
    <2>1. PICK type \in {"SCISSORTEST_STATUS_EVENT", "SCISSORTEST_REGION_EVENT",
                         "TRANSFORMATION_UPDATE_EVENT"}, payload \in {NULL, TransformPayload} :
             Emit(<<RenderCommand(type, payload, NULL)>>)
        BY <1>7 DEF EnableScissorRegion, SetScissorRegion, SetTransform
    <2> DEFINE e == RenderCommand(type, payload, NULL)
    <2>2. e \in EventRecords /\ e.type = type
        BY DEF RenderCommand, EventRecords, EventType, RenderCommandTypes, AcquireTypes
    <2>3. Emit(<<e>>)
        BY <2>1
    <2>4. "render" \in ui.installed /\ UNCHANGED <<ui, resource, gpu, held>>
        BY <1>1, <1>7 DEF EnableScissorRegion, SetScissorRegion, SetTransform, rmlVars, scriptVars
    <2> HIDE DEF e
    <2>5. \A r \in Resources : ~About(e, r)
        BY <2>2 DEF About, Acquires, Releases, Draws, AcquireTypes, ReleaseTypes
    <2> QED BY <2>2, <2>3, <2>4, <2>5, EmitOther
<1> QED BY <1>2, <1>3, <1>4, <1>5, <1>6, <1>7 DEF RendererNext

(* A render interface gets its queue: whatever is in it already is about no
   geometry and no texture. *)
LEMMA CreateRenderAgrees ==
    ASSUME LifetimeInv, RendererInv, NEW q \in Queues, lifetime[q] = "live",
           rml_create_wgpu_render_interface(q)
    PROVE  RendererInv'
<1>1. ui.render = "none" /\ ui.queue = NULL
    BY DEF rml_create_wgpu_render_interface, RendererInv, OneCommandQueue
<1>2. UNCHANGED <<lifetime, events, resource, gpu, held>>
    BY DEF rml_create_wgpu_render_interface, Becomes, interopVars, scriptVars
<1>3. ui'.queue = q /\ ui'.render = "live"
    BY DEF rml_create_wgpu_render_interface, Becomes, LifetimeInv, Lifetimes, RmlState
<1>4. /\ events[q] \in Seq(EventRecords) /\ Commands = <<>> /\ Commands' = events[q]
      /\ Commands \in Seq(EventRecords)
    BY <1>1, <1>2, <1>3, NullIsNoQueue DEF Commands, RendererInv, EventsAreRecords
<1>5. OneCommandQueue /\ QueueIsThere /\ QueueIsThere' /\ \A p \in Queues : p # ui.queue
    BY <1>1, <1>2, <1>3, NullIsNoQueue DEF RendererInv, QueueIsThere
<1>6. ASSUME NEW r \in Resources PROVE Agrees(Commands', r, held, resource[r], gpu[r])
    <2>1. \A i \in 1..Len(events[q]) : ~About(events[q][i], r)
        BY <1>5 DEF OneCommandQueue
    <2>2. Agrees(Commands \o events[q], r, held, resource[r], gpu[r])
        BY <1>4, <1>5, <2>1, OthersAgree
    <2>3. Commands \o events[q] = Commands'
        BY <1>4
    <2> QED BY <2>2, <2>3
<1>7. RendererAgrees'
    BY <1>2, <1>5, <1>6 DEF RendererAgrees
<1>8. OneCommandQueue'
    BY <1>2, <1>3, <1>5 DEF OneCommandQueue
<1> QED BY <1>2, <1>7, <1>8 DEF RendererInv, EventsAreRecords

(* The state that a call of the binding leaves RML in. *)
LEMMA BecomesAgrees ==
    ASSUME RendererInv, NEW state, Becomes(state), UNCHANGED <<lifetime, events>>,
           state.queue = ui.queue, state.render = "none" => ui.render = "none"
    PROVE  RendererInv'
BY SameCommands, SameQueueIsThere DEF Becomes, scriptVars

LEMMA RmlAgrees == ASSUME LifetimeInv, RendererInv, RmlNext PROVE RendererInv'
<1> USE DEF LifetimeInv, Lifetimes, RmlState
<1>1. CASE rml_initialise
    <2> DEFINE state == [[ui EXCEPT !.initialised = TRUE, !.print = "rml"] EXCEPT !.print = ui.print]
    <2>1. Becomes(state) /\ UNCHANGED <<lifetime, events>>
        BY <1>1 DEF rml_initialise
    <2>2. state.queue = ui.queue /\ state.render = ui.render
        OBVIOUS
    <2> HIDE DEF state
    <2> QED BY <2>1, <2>2, BecomesAgrees
<1>2. CASE rml_shutdown
    <2>1. ReleaseAll(Live(Resources)) /\ UNCHANGED <<gpu, held>>
        BY <1>2 DEF rml_shutdown, scriptVars
    <2>2. ui'.queue = ui.queue /\ ui'.render = ui.render
        BY <1>2 DEF rml_shutdown
    <2> QED BY <2>1, <2>2, ReleaseAllStep
<1>3. CASE rml_context_remove
    <2>1. ReleaseAll(Live(Geometries)) /\ UNCHANGED <<gpu, held>>
        BY <1>3 DEF rml_context_remove, scriptVars
    <2>2. ui'.queue = ui.queue /\ ui'.render = ui.render
        BY <1>3 DEF rml_context_remove
    <2>3. Live(Geometries) \in SUBSET Live(Resources)
        BY DEF Live, Resources
    <2> QED BY <2>1, <2>2, <2>3, ReleaseAllStep
<1>4. ASSUME NEW size \in Values, rml_context_create(size) PROVE RendererInv'
    <2>1. ui'.queue = ui.queue /\ ui'.render = ui.render
        BY <1>4 DEF rml_context_create
    <2> QED BY <1>4, <2>1, SameCommands, SameQueueIsThere
            DEF rml_context_create, interopVars, scriptVars
<1>5. CASE \/ rml_create_glfw_system_interface \/ rml_destroy_glfw_system_interface
           \/ rml_set_system_interface \/ rml_set_render_interface
           \/ rml_destroy_wgpu_render_interface \/ rml_load_font_face
           \/ rml_context_load_document \/ rml_document_show
    <2>1. PICK state : /\ Becomes(state) /\ UNCHANGED interopVars
                       /\ \/ state = [ui EXCEPT !.system = "live"]
                          \/ state = [ui EXCEPT !.system = "deleted"]
                          \/ state = [ui EXCEPT !.render = "deleted"]
                          \/ state = [ui EXCEPT !.installed = @ \cup {"system"}]
                          \/ state = [ui EXCEPT !.installed = @ \cup {"render"}]
                          \/ state = [ui EXCEPT !.fontLoaded = TRUE]
                          \/ state = [ui EXCEPT !.document = "loaded"]
                          \/ state = [ui EXCEPT !.document = "shown"]
        BY <1>5 DEF rml_create_glfw_system_interface, rml_destroy_glfw_system_interface,
           rml_set_system_interface, rml_set_render_interface, rml_load_font_face,
           rml_destroy_wgpu_render_interface, rml_context_load_document, rml_document_show
    <2>2. state.queue = ui.queue /\ state.render \in {ui.render, "deleted"}
        BY <2>1
    <2> QED BY <2>1, <2>2, BecomesAgrees DEF interopVars
<1> QED BY <1>1, <1>2, <1>3, <1>4, <1>5, CreateRenderAgrees DEF RmlNext

LEMMA InitAgrees == Init => RendererInv
<1> SUFFICES ASSUME Init PROVE RendererInv
    OBVIOUS
<1>1. ui.queue = NULL /\ ui.render = "none"
    BY DEF Init
<1>2. /\ events = [q \in Queues |-> <<>>] /\ resource = [r \in Resources |-> "none"]
      /\ gpu = [r \in Resources |-> 0] /\ held = {}
    BY DEF Init, InteropInit
<1>3. EventsAreRecords
    BY <1>2 DEF EventsAreRecords
<1>4. OneCommandQueue
    BY <1>1, <1>2 DEF OneCommandQueue
<1>5. Commands = <<>> /\ Len(Commands) = 0
    BY <1>1 DEF Commands
<1>6. ASSUME NEW r \in Resources PROVE Agrees(Commands, r, {}, "none", 0)
    <2>1. \A i : i \notin 1..Len(Commands)
        BY <1>5
    <2> HIDE DEF Commands
    <2> QED BY <2>1 DEF Agrees, Ordered, Settles, Reaches
<1>7. RendererAgrees
    BY <1>1, <1>2, <1>6 DEF RendererAgrees, QueueIsThere
<1> QED BY <1>3, <1>4, <1>7 DEF RendererInv

-----------------------------------------------------------------------------
(* Lifetimes and commands together. *)
LEMMA AgreementInvariant == Spec => [](LifetimeInv /\ RendererInv)
<1>1. ASSUME LifetimeInv, RendererInv, [Next]_vars PROVE LifetimeInv' /\ RendererInv'
    <2>1. CASE UNCHANGED vars
        BY <1>1, <2>1, SameLifetimes, SameCommands, SameQueueIsThere
           DEF vars, interopVars, glfwVars, rmlVars, scriptVars
    <2>2. CASE Next
        BY <1>1, <2>2, InteropStep, GlfwStep, RendererStep, RmlStep,
           InteropAgrees, GlfwAgrees, RendererCallAgrees, RmlAgrees DEF Next
    <2> QED BY <1>1, <2>1, <2>2
<1> QED
    BY <1>1, InitHolds, InitAgrees, PTL DEF Spec

(* Whatever the order in which RML acquires, draws and releases, in which a
   shutdown releases the rest, and in which the script drains: once the render
   interface's queue is empty, the script holds exactly what RML uses, and the
   device memory is exactly that of what it holds. *)
THEOREM NothingLeaksOrIsFreedEarly == Spec => []DrainedRendererMatchesRml
<1>1. ASSUME LifetimeInv, RendererInv PROVE DrainedRendererMatchesRml
    <2> SUFFICES ASSUME ui.queue # NULL, lifetime[ui.queue] = "live", events[ui.queue] = <<>>
                 PROVE  held = Live(Resources) /\ held = {r \in Resources : gpu[r] > 0}
        BY DEF DrainedRendererMatchesRml
    <2>1. Commands = <<>> /\ Len(Commands) = 0
        BY DEF Commands
    <2>2. \A i : i \notin 1..Len(Commands)
        BY <2>1
    <2>3. ASSUME NEW r \in Resources
          PROVE  (r \in held <=> resource[r] = "live") /\ (r \in held <=> gpu[r] > 0)
        <3>1. Settles(Commands, r, held, resource[r]) /\ (gpu[r] > 0 <=> Reaches(Commands, r, held))
            BY <1>1 DEF RendererInv, RendererAgrees, QueueIsThere, Agrees
        <3>2. Reaches(Commands, r, held) <=> r \in held
            BY <2>2 DEF Reaches
        <3>3. resource[r] \in {"none", "live", "released"}
            BY <1>1 DEF LifetimeInv, Lifetimes
        <3> QED BY <2>2, <3>1, <3>2, <3>3 DEF Settles
    <2>4. held \subseteq Resources
        BY <1>1 DEF RendererInv, EventsAreRecords
    <2> QED BY <2>3, <2>4 DEF Live
<1> QED
    BY <1>1, AgreementInvariant, PTL

(* The script never draws a geometry, or with a texture, that it has not been told
   of, or has been told to release, however late it drains. *)
THEOREM NothingElseIsDrawn == Spec => DrawsOnlyWhatItHolds
<1> DEFINE Drawn(q) == {Head(events[q]).details, Head(events[q]).texture}
           Draw(q) == (/\ events[q] # <<>> /\ events'[q] = Tail(events[q])
                       /\ Head(events[q]).type = "GEOMETRY_RENDER_EVENT")
                         => Drawn(q) \subseteq held \cup {NULL}
<1>1. ASSUME LifetimeInv, RendererInv PROVE \A q \in Queues : Draw(q)
    <2> SUFFICES ASSUME NEW q \in Queues, events[q] # <<>>,
                        Head(events[q]).type = "GEOMETRY_RENDER_EVENT"
                 PROVE  Drawn(q) \subseteq held \cup {NULL}
        OBVIOUS
    <2> DEFINE e == Head(events[q])
    <2>1. e = events[q][1] /\ e \in EventRecords /\ 1 \in 1..Len(events[q])
        BY <1>1 DEF RendererInv, EventsAreRecords
    <2>2. e.type = "GEOMETRY_RENDER_EVENT"
        OBVIOUS
    <2> HIDE DEF e
    <2>3. e.details \in Resources /\ e.texture \in Resources \cup {NULL}
        BY <2>1, <2>2 DEF EventRecords
    <2>4. Draws(e, e.details) /\ Draws(e, e.texture)
        BY <2>2 DEF Draws
    <2>5. q = ui.queue
        BY <1>1, <2>1, <2>3, <2>4 DEF RendererInv, OneCommandQueue, About
    <2>6. Commands = events[q]
        BY <2>5, NullIsNoQueue DEF Commands
    <2>7. ASSUME NEW r \in Resources, Draws(e, r) PROVE r \in held
        <3>1. Ordered(Commands, r, held)
            BY <1>1, <2>6 DEF RendererInv, RendererAgrees, Agrees
        <3>2. About(Commands[1], r) /\ ~Acquires(Commands[1], r) /\ 1 \in 1..Len(Commands)
            BY <2>1, <2>6, <2>7, KindsExclude
        <3>3. \A j \in 1..Len(Commands) : j <= 1 => j = 1
            OBVIOUS
        <3> QED BY <3>1, <3>2, <3>3 DEF Ordered
    <2> QED BY <2>3, <2>4, <2>7 DEF e
<1>2. ASSUME LifetimeInv /\ RendererInv
      PROVE  [\A q \in Queues : Draw(q)]_vars
    BY <1>1, <1>2
<1> QED
    BY <1>2, AgreementInvariant, PTL DEF DrawsOnlyWhatItHolds

-----------------------------------------------------------------------------
(* The window's queue *)

LEMMA TakeMeasure ==
    ASSUME NEW s \in Seq(EventRecords), s # <<>>, NEW type, NEW value
    PROVE  /\ Latest(s, type, value) => Latest(Tail(s), type, value)
           /\ Quiet(s, type) => Quiet(Tail(s), type)
           /\ Head(s).type # type /\ Quiet(Tail(s), type) => Quiet(s, type)
           /\ Head(s).type = type /\ Latest(s, type, value) /\ Quiet(Tail(s), type)
                => Head(s).details = value
<1> DEFINE t == Tail(s)
<1>1. /\ Len(s) \in Nat /\ Len(s) >= 1 /\ Len(t) = Len(s) - 1 /\ Head(s) = s[1]
      /\ \A i \in 1..Len(t) : i + 1 \in 1..Len(s) /\ t[i] = s[i + 1]
      /\ \A j \in 1..Len(s) : j # 1 => j - 1 \in 1..Len(t) /\ s[j] = t[j - 1]
    BY TailItems
<1> HIDE DEF t
<1>2. 1 \in 1..Len(s)
    BY <1>1
<1>3. ASSUME Latest(s, type, value) PROVE Latest(t, type, value)
    <2> SUFFICES ASSUME NEW i \in 1..Len(t), t[i].type = type,
                        \A j \in 1..Len(t) : j > i => t[j].type # type
                 PROVE  t[i].details = value
        BY DEF Latest
    <2>1. i + 1 \in 1..Len(s) /\ s[i + 1] = t[i]
        BY <1>1
    <2>2. ASSUME NEW j \in 1..Len(s), j > i + 1 PROVE s[j].type # type
        <3>1. j - 1 \in 1..Len(t) /\ s[j] = t[j - 1] /\ j - 1 > i
            BY <1>1, <2>2
        <3> QED BY <3>1
    <2> QED BY <1>3, <2>1, <2>2 DEF Latest
<1>4. Quiet(s, type) => Quiet(t, type)
    BY <1>1 DEF Quiet
<1>5. Head(s).type # type /\ Quiet(t, type) => Quiet(s, type)
    BY <1>1 DEF Quiet
<1>6. ASSUME Head(s).type = type, Latest(s, type, value), Quiet(t, type)
      PROVE  Head(s).details = value
    <2>1. \A j \in 1..Len(s) : j > 1 => s[j].type # type
        BY <1>1, <1>6 DEF Quiet
    <2> QED BY <1>1, <1>2, <1>6, <2>1 DEF Latest
<1> QED BY <1>3, <1>4, <1>5, <1>6 DEF t

LEMMA PushQuiet ==
    ASSUME NEW s \in Seq(EventRecords), NEW new \in Seq(EventRecords), NEW type, NEW value,
           Quiet(new, type)
    PROVE  /\ Latest(s, type, value) => Latest(s \o new, type, value)
           /\ Quiet(s \o new, type) <=> Quiet(s, type)
<1> DEFINE t == s \o new
<1>1. /\ \A i \in 1..Len(s) : i \in 1..Len(t) /\ t[i] = s[i]
      /\ \A i \in 1..Len(t) : i \notin 1..Len(s) =>
           i - Len(s) \in 1..Len(new) /\ t[i] = new[i - Len(s)]
    BY JoinedItems
<1> HIDE DEF t
<1>2. \A i \in 1..Len(t) : t[i].type = type => i \in 1..Len(s) /\ t[i] = s[i]
    BY <1>1 DEF Quiet
<1>3. Quiet(t, type) <=> Quiet(s, type)
    BY <1>1, <1>2 DEF Quiet
<1>4. ASSUME Latest(s, type, value) PROVE Latest(t, type, value)
    BY <1>1, <1>2, <1>4 DEF Latest
<1> QED BY <1>3, <1>4 DEF t

LEMMA PushMeasure ==
    ASSUME NEW s \in Seq(EventRecords), NEW e \in EventRecords, NEW type, NEW value,
           e.type = type, e.details = value
    PROVE  Latest(s \o <<e>>, type, value) /\ ~Quiet(s \o <<e>>, type)
<1> DEFINE t == s \o <<e>>
           n == Len(s) + 1
<1>1. /\ n \in 1..Len(t) /\ t[n] = e
      /\ \A i \in 1..Len(t) : i # n => n > i
    OBVIOUS
<1> HIDE DEF t, n
<1>2. ASSUME NEW i \in 1..Len(t), t[i].type = type,
             \A j \in 1..Len(t) : j > i => t[j].type # type
      PROVE  t[i].details = value
    <2>1. i = n
        BY <1>1, <1>2
    <2> QED BY <1>1, <2>1
<1> QED BY <1>1, <1>2 DEF Latest, Quiet, t

(* A function that is kept, or replaced by another with the same domain. *)
LEMMA ViewsStayFunctions ==
    ASSUME ViewInv
    PROVE  /\ ContextKept => contextView' = [type \in ViewTypes |-> contextView'[type]]
           /\ WindowKept => view' = [type \in ViewTypes |-> view'[type]]
<1>1. /\ view = [type \in ViewTypes |-> view[type]]
      /\ contextView = [type \in ViewTypes |-> contextView[type]]
    BY DEF ViewInv
<1>2. /\ NoView = [type \in ViewTypes |-> NoView[type]]
      /\ Unmeasured = [type \in ViewTypes |-> Unmeasured[type]]
    BY DEF NoView, Unmeasured
<1>3. ASSUME contextView' = contextView PROVE contextView' = [type \in ViewTypes |-> contextView'[type]]
    BY <1>1, <1>3
<1>4. ASSUME view' = view PROVE view' = [type \in ViewTypes |-> view'[type]]
    BY <1>1, <1>4
<1>5. ASSUME contextView' = NoView PROVE contextView' = [type \in ViewTypes |-> contextView'[type]]
    BY <1>2, <1>5
<1>6. ASSUME view' = Unmeasured PROVE view' = [type \in ViewTypes |-> view'[type]]
    BY <1>2, <1>6
<1>7. ContextKept => contextView' = [type \in ViewTypes |-> contextView'[type]]
    BY <1>3, <1>5, Zenon DEF ContextKept
<1>8. WindowKept => view' = [type \in ViewTypes |-> view'[type]]
    BY <1>4, <1>6, Zenon DEF WindowKept
<1> QED BY <1>7, <1>8

(* What is then still known of the context. *)
LEMMA ContextStillShows ==
    ASSUME ContextKept, NEW type \in ViewTypes, NEW value,
           ui.context = "live" /\ type \notin untold => contextView[type] = value
    PROVE  ui'.context = "live" /\ type \notin untold' => contextView'[type] = value
BY DEF ContextKept

(* Steps that leave queues, window and context alone, or end the latter two. *)
LEMMA SameView ==
    ASSUME ViewInv, UNCHANGED <<events, attached>>, ContextKept, WindowKept
    PROVE  ViewInv'
<1>1. WindowEvents' = WindowEvents
    BY DEF WindowEvents
<1>2. ASSUME window' # "destroyed", NEW type \in ViewTypes PROVE Measures(type)'
    <2>1. Measures(type) /\ view' = view
        BY <1>2 DEF ViewInv, WindowKept
    <2>2. CASE Quiet(WindowEvents, type)
        <3>1. ui'.context = "live" /\ type \notin untold' => contextView'[type] = view[type]
            BY <2>1, <2>2, ContextStillShows DEF Measures
        <3> QED BY <1>1, <2>1, <3>1 DEF Measures
    <2>3. CASE ~Quiet(WindowEvents, type)
        BY <1>1, <2>1, <2>3 DEF Measures
    <2> QED BY <2>2, <2>3
<1> QED BY <1>2, ViewsStayFunctions DEF ViewInv

(* Pushes that say nothing of sizes and scales. *)
LEMMA QuietPush ==
    ASSUME LifetimeInv, RendererInv, ViewInv, NEW q \in Queues, NEW new \in Seq(EventRecords),
           \A type \in ViewTypes : Quiet(new, type),
           events' = [events EXCEPT ![q] = @ \o new],
           UNCHANGED <<window, view, attached>>, ContextKept
    PROVE  ViewInv'
<1>1. events \in [Queues -> Seq(EventRecords)]
    BY DEF RendererInv, EventsAreRecords
<1>2. \A p \in Queues : /\ events[p] \in Seq(EventRecords)
                        /\ events'[p] = events[p] \/ events'[p] = events[p] \o new
    BY <1>1
<1>3. attached \in Queues \cup {NULL}
    BY DEF LifetimeInv, Lifetimes
<1>4. ASSUME NEW type \in ViewTypes, Measures(type) PROVE Measures(type)'
    <2>1. Quiet(new, type)
        OBVIOUS
    <2>2. \A p \in Queues : p # attached => Quiet(events'[p], type)
        <3> SUFFICES ASSUME NEW p \in Queues, p # attached PROVE Quiet(events'[p], type)
            OBVIOUS
        <3>1. Quiet(events[p], type)
            BY <1>4 DEF Measures
        <3>2. CASE events'[p] = events[p]
            BY <3>1, <3>2
        <3>3. CASE events'[p] = events[p] \o new
            <4>1. Quiet(events[p] \o new, type)
                BY <1>2, <2>1, <3>1, PushQuiet
            <4> QED BY <3>3, <4>1
        <3> QED BY <1>2, <3>2, <3>3
    <2>3. \/ WindowEvents' = WindowEvents
          \/ WindowEvents \in Seq(EventRecords) /\ WindowEvents' = WindowEvents \o new
        BY <1>2, <1>3 DEF WindowEvents
    <2>4. Latest(WindowEvents, type, view[type])
        BY <1>4 DEF Measures
    <2>5. /\ Latest(WindowEvents', type, view[type])
          /\ Quiet(WindowEvents', type) <=> Quiet(WindowEvents, type)
        <3>1. CASE WindowEvents' = WindowEvents
            BY <2>4, <3>1
        <3>2. CASE WindowEvents \in Seq(EventRecords) /\ WindowEvents' = WindowEvents \o new
            <4>1. /\ Latest(WindowEvents \o new, type, view[type])
                  /\ Quiet(WindowEvents \o new, type) <=> Quiet(WindowEvents, type)
                BY <2>1, <2>4, <3>2, PushQuiet
            <4> QED BY <3>2, <4>1
        <3> QED BY <2>3, <3>1, <3>2
    <2>6. CASE Quiet(WindowEvents, type)
        <3>1. ui'.context = "live" /\ type \notin untold' => contextView'[type] = view[type]
            BY <1>4, <2>6, ContextStillShows DEF Measures
        <3> QED BY <2>2, <2>5, <3>1 DEF Measures
    <2>7. CASE ~Quiet(WindowEvents, type)
        BY <2>2, <2>5, <2>7 DEF Measures
    <2> QED BY <2>6, <2>7
<1>5. WindowKept
    BY DEF WindowKept
<1> QED BY <1>4, <1>5, ViewsStayFunctions DEF ViewInv

(* Commands of the render interface. *)
LEMMA EmitKeepsView ==
    ASSUME LifetimeInv, RendererInv, ViewInv, "render" \in ui.installed,
           NEW new \in Seq(EventRecords), Emit(new),
           \A i \in 1..Len(new) : new[i].type \in RenderCommandTypes,
           UNCHANGED <<window, view, attached>>, ContextKept
    PROVE  ViewInv'
<1>1. ui.render = "live" /\ ui.queue \in Queues /\ lifetime[ui.queue] = "live"
    BY DEF LifetimeInv, InterfacesAreLive
<1>2. events' = [events EXCEPT ![ui.queue] = @ \o new]
    BY <1>1 DEF Emit, Push
<1>3. \A type \in ViewTypes : Quiet(new, type)
    BY DEF Quiet, ViewTypes, RenderCommandTypes
<1> QED BY <1>1, <1>2, <1>3, QuietPush

LEMMA ReleaseAllKeepsView ==
    ASSUME LifetimeInv, RendererInv, ViewInv, NEW set \in SUBSET Live(Resources), ReleaseAll(set),
           UNCHANGED <<window, view, attached>>, ContextKept
    PROVE  ViewInv'
<1>1. CASE set = {}
    BY <1>1, SameView DEF ReleaseAll, interopVars, WindowKept
<1>2. CASE set # {}
    <2>1. PICK new \in Seq(EventRecords) :
             /\ Emit(new)
             /\ \A i \in 1..Len(new) : new[i].type \in ReleaseTypes /\ new[i].details \in set
        BY <1>2, ReleaseCommands
    <2>2. \A i \in 1..Len(new) : new[i].type \in RenderCommandTypes
        BY <2>1 DEF ReleaseTypes, RenderCommandTypes
    <2>3. "render" \in ui.installed
        BY <1>2 DEF LifetimeInv, ResourcesHaveARenderer
    <2> QED BY <2>1, <2>2, <2>3, EmitKeepsView
<1> QED BY <1>1, <1>2

LEMMA RendererKeepsView ==
    ASSUME LifetimeInv, RendererInv, ViewInv, RendererNext
    PROVE  ViewInv'
<1>1. ASSUME InContextCall, NEW type \in RenderCommandTypes,
             NEW payload \in Resources \cup {NULL, TransformPayload},
             type \in AcquireTypes \cup {"GEOMETRY_RENDER_EVENT"} => payload \in Resources,
             NEW texture \in Resources \cup {NULL}, Emit(<<RenderCommand(type, payload, texture)>>),
             UNCHANGED <<ui, contextView, untold, glfwVars, scriptVars>>
      PROVE  ViewInv'
    <2> DEFINE e == RenderCommand(type, payload, texture)
               new == <<e>>
    <2>1. e \in EventRecords /\ e.type = type
        BY <1>1 DEF RenderCommand, EventRecords, EventType
    <2>2. new \in Seq(EventRecords) /\ Len(new) = 1 /\ new[1] = e
        BY <2>1
    <2>3. Emit(new)
        BY <1>1
    <2> HIDE DEF e, new
    <2>4. \A i \in 1..Len(new) : new[i].type \in RenderCommandTypes
        BY <1>1, <2>1, <2>2
    <2>5. "render" \in ui.installed
        BY <1>1 DEF InContextCall, LifetimeInv, ResourcesHaveARenderer
    <2>6. UNCHANGED <<window, view, attached>> /\ ContextKept
        BY <1>1 DEF glfwVars, scriptVars, ContextKept
    <2> QED BY <2>2, <2>3, <2>4, <2>5, <2>6, EmitKeepsView
<1>2. ASSUME InContextCall, NEW r \in Resources, NEW bytes, NEW type \in AcquireTypes,
             Acquire(r, bytes, type)
      PROVE  ViewInv'
    BY <1>1, <1>2 DEF Acquire, AcquireTypes, RenderCommandTypes
<1>3. ASSUME InContextCall, NEW r \in Resources, NEW type \in ReleaseTypes, Release(r, type)
      PROVE  ViewInv'
    BY <1>1, <1>3 DEF Release, ReleaseTypes, AcquireTypes, RenderCommandTypes
<1>4. ASSUME NEW g \in Geometries, NEW n \in Counts, NEW m \in Counts, CompileGeometry(g, n, m)
      PROVE  ViewInv'
    BY <1>2, <1>4 DEF CompileGeometry, Resources, AcquireTypes
<1>5. ASSUME NEW g \in Geometries, NEW t \in Live(Textures) \cup {NULL}, RenderGeometry(g, t)
      PROVE  ViewInv'
    <2>1. g \in Resources /\ t \in Resources \cup {NULL}
        BY DEF Live, Resources
    <2>2. "GEOMETRY_RENDER_EVENT" \in RenderCommandTypes
        BY DEF RenderCommandTypes
    <2> QED BY <1>1, <1>5, <2>1, <2>2 DEF RenderGeometry, rmlVars
<1>6. ASSUME NEW g \in Geometries, ReleaseGeometry(g) PROVE ViewInv'
    BY <1>3, <1>6 DEF ReleaseGeometry, Resources, ReleaseTypes
<1>7. ASSUME NEW t \in Textures, NEW w \in Counts, NEW h \in Counts,
             LoadTexture(t, w, h) \/ GenerateTexture(t, w, h)
      PROVE  ViewInv'
    BY <1>2, <1>7 DEF LoadTexture, GenerateTexture, Resources, AcquireTypes
<1>8. ASSUME NEW t \in Textures, ReleaseTexture(t) PROVE ViewInv'
    BY <1>3, <1>8 DEF ReleaseTexture, Resources, ReleaseTypes
<1>9. CASE EnableScissorRegion \/ SetScissorRegion \/ SetTransform
    <2>1. PICK type \in {"SCISSORTEST_STATUS_EVENT", "SCISSORTEST_REGION_EVENT",
                         "TRANSFORMATION_UPDATE_EVENT"}, payload \in {NULL, TransformPayload} :
             Emit(<<RenderCommand(type, payload, NULL)>>)
        BY <1>9 DEF EnableScissorRegion, SetScissorRegion, SetTransform
    <2>2. type \in RenderCommandTypes /\ type \notin AcquireTypes \cup {"GEOMETRY_RENDER_EVENT"}
        BY DEF RenderCommandTypes, AcquireTypes
    <2>3. InContextCall /\ UNCHANGED <<ui, contextView, untold, glfwVars, scriptVars>>
        BY <1>9 DEF EnableScissorRegion, SetScissorRegion, SetTransform, rmlVars
    <2> QED BY <1>1, <2>1, <2>2, <2>3
<1> QED BY <1>4, <1>5, <1>6, <1>7, <1>8, <1>9 DEF RendererNext

(* A context is created: what it shows is what the window measures, or an event that
   says what the window measures still waits, or the context was not told. *)
LEMMA ContextCreateKeepsView ==
    ASSUME LifetimeInv, RendererInv, ViewInv, NEW size \in Values, rml_context_create(size)
    PROVE  ViewInv'
<1> DEFINE initial == [type \in ViewTypes |->
                         IF type = "FRAMEBUFFER_RESIZE_EVENT" THEN size ELSE DefaultScale]
           announced == IF attached = NULL THEN {}
                        ELSE {events[attached][i].type : i \in DOMAIN events[attached]}
<1>1. /\ contextView' = initial
      /\ untold' = {type \in ViewTypes : initial[type] # view[type]} \ announced
      /\ UNCHANGED <<events, window, view, attached>>
    BY DEF rml_context_create, interopVars, glfwVars, scriptVars
<1>2. WindowEvents' = WindowEvents
    BY <1>1 DEF WindowEvents
<1>3. ASSUME NEW type \in announced PROVE ~Quiet(WindowEvents, type)
    <2>1. attached # NULL /\ attached \in Queues
        BY <1>3 DEF LifetimeInv, Lifetimes
    <2>2. events[attached] \in Seq(EventRecords)
        BY <2>1 DEF RendererInv, EventsAreRecords
    <2>3. PICK i \in 1..Len(events[attached]) : events[attached][i].type = type
        BY <1>3, <2>1, <2>2
    <2> QED BY <2>1, <2>3 DEF WindowEvents, Quiet
<1>4. initial = [type \in ViewTypes |-> initial[type]]
    OBVIOUS
<1> HIDE DEF initial, announced
<1>5. ASSUME window # "destroyed", NEW type \in ViewTypes PROVE Measures(type)'
    <2>1. Measures(type)
        BY <1>5 DEF ViewInv
    <2>2. ASSUME type \notin untold', Quiet(WindowEvents, type)
          PROVE  contextView'[type] = view[type]
        BY <1>1, <1>3, <2>2
    <2> QED BY <1>1, <1>2, <2>1, <2>2 DEF Measures
<1>6. contextView' = [type \in ViewTypes |-> contextView'[type]]
    BY <1>1, <1>4
<1> QED BY <1>1, <1>5, <1>6 DEF ViewInv

LEMMA RmlKeepsView ==
    ASSUME LifetimeInv, RendererInv, ViewInv, RmlNext
    PROVE  ViewInv'
<1> USE DEF LifetimeInv, Lifetimes, RmlState
<1>1. ASSUME NEW state, Becomes(state), events' = events, state.context = ui.context
      PROVE  ViewInv'
    BY <1>1, SameView DEF Becomes, glfwVars, scriptVars, ContextKept, WindowKept
<1>2. CASE rml_shutdown \/ rml_context_remove
    <2>1. UNCHANGED <<window, view, attached>> /\ ContextKept
        <3>1. ui'.context = "none"
            BY <1>2 DEF rml_shutdown, rml_context_remove
        <3> QED BY <1>2, <3>1 DEF rml_shutdown, rml_context_remove, ForgetContext, ContextKept,
                glfwVars, scriptVars
    <2>2. \E set \in SUBSET Live(Resources) : ReleaseAll(set)
        BY <1>2 DEF rml_shutdown, rml_context_remove, Live, Resources
    <2> QED BY <2>1, <2>2, ReleaseAllKeepsView
<1>3. ASSUME NEW size \in Values, rml_context_create(size) PROVE ViewInv'
    BY <1>3, ContextCreateKeepsView
<1>4. CASE rml_initialise
    <2> DEFINE state == [[ui EXCEPT !.initialised = TRUE, !.print = "rml"] EXCEPT !.print = ui.print]
    <2>1. Becomes(state) /\ events' = events
        BY <1>4 DEF rml_initialise
    <2>2. state.context = ui.context
        OBVIOUS
    <2> HIDE DEF state
    <2> QED BY <1>1, <2>1, <2>2
<1>5. CASE \/ rml_create_glfw_system_interface \/ rml_destroy_glfw_system_interface
           \/ rml_set_system_interface \/ rml_set_render_interface
           \/ rml_destroy_wgpu_render_interface \/ rml_load_font_face
           \/ rml_context_load_document \/ rml_document_show
           \/ \E q \in Queues : lifetime[q] = "live" /\ rml_create_wgpu_render_interface(q)
    <2>1. PICK state : /\ Becomes(state) /\ UNCHANGED interopVars
                       /\ \/ state = [ui EXCEPT !.system = "live"]
                          \/ state = [ui EXCEPT !.system = "deleted"]
                          \/ state = [ui EXCEPT !.render = "deleted"]
                          \/ state = [ui EXCEPT !.installed = @ \cup {"system"}]
                          \/ state = [ui EXCEPT !.installed = @ \cup {"render"}]
                          \/ state = [ui EXCEPT !.fontLoaded = TRUE]
                          \/ state = [ui EXCEPT !.document = "loaded"]
                          \/ state = [ui EXCEPT !.document = "shown"]
                          \/ \E q \in Queues : state = [ui EXCEPT !.render = "live", !.queue = q]
        BY <1>5 DEF rml_create_glfw_system_interface, rml_destroy_glfw_system_interface,
           rml_set_system_interface, rml_set_render_interface, rml_load_font_face,
           rml_destroy_wgpu_render_interface, rml_context_load_document, rml_document_show,
           rml_create_wgpu_render_interface
    <2>2. state.context = ui.context
        BY <2>1
    <2> QED BY <1>1, <2>1, <2>2 DEF interopVars
<1> QED BY <1>2, <1>3, <1>4, <1>5 DEF RmlNext

(* The window is resized, or moves to a screen with another scale. *)
LEMMA MeasureStep ==
    ASSUME LifetimeInv, RendererInv, ViewInv, NEW type \in ViewTypes, NEW v \in Values,
           WindowChanges(type, v), userPointer # NULL
    PROVE  ViewInv'
<1> DEFINE e == WindowEvent(type, v)
<1>1. /\ window = "open" /\ attached \in Queues /\ lifetime[attached] = "live"
      /\ userPointer = attached /\ attached # NULL
    BY DEF WindowChanges, OnWindowEvent, LifetimeInv, Lifetimes, WindowHasItsQueue
<1>2. Push(attached, <<e>>) /\ view' = [view EXCEPT ![type] = v]
    BY <1>1 DEF WindowChanges, OnWindowEvent
<1>3. UNCHANGED <<window, attached, contextView, ui>> /\ untold' = untold \ {type}
    BY DEF WindowChanges, OnWindowEvent, scriptVars
<1>4. events' = [events EXCEPT ![attached] = @ \o <<e>>]
    BY <1>1, <1>2 DEF Push
<1>5. type \in WindowEventTypes
    BY DEF ViewTypes, WindowEventTypes
<1>6. e \in EventRecords /\ e.type = type /\ e.details = v
    BY <1>5, WindowRecords
<1> HIDE DEF e
<1>7. events \in [Queues -> Seq(EventRecords)]
    BY DEF RendererInv, EventsAreRecords
<1> DEFINE s == events[attached]
<1>8. /\ s \in Seq(EventRecords) /\ WindowEvents = s /\ WindowEvents' = s \o <<e>>
      /\ \A q \in Queues : q # attached => events'[q] = events[q]
    BY <1>1, <1>3, <1>4, <1>7 DEF WindowEvents
<1> HIDE DEF s
<1>9. view = [t \in ViewTypes |-> view[t]]
    BY DEF ViewInv
<1>10. view'[type] = v /\ \A t \in ViewTypes : t # type => view'[t] = view[t]
    BY <1>2, <1>9
<1>11. view' = [t \in ViewTypes |-> view'[t]]
    BY <1>2, <1>9
<1>12. ASSUME NEW t \in ViewTypes PROVE Measures(t)'
    <2>1. Measures(t)
        BY <1>1 DEF ViewInv
    <2>2. \A q \in Queues : q # attached' => Quiet(events'[q], t)
        BY <1>3, <1>8, <2>1 DEF Measures
    <2>3. CASE t = type
        <3>1. Latest(s \o <<e>>, t, v) /\ ~Quiet(s \o <<e>>, t)
            BY <1>6, <1>8, <2>3, PushMeasure
        <3>2. Latest(WindowEvents', t, view'[t]) /\ ~Quiet(WindowEvents', t)
            BY <1>8, <1>10, <2>3, <3>1
        <3> QED BY <2>2, <3>2 DEF Measures
    <2>4. CASE t # type
        <3> DEFINE new == <<e>>
        <3>1. new \in Seq(EventRecords) /\ Quiet(new, t)
            BY <1>6, <2>4 DEF Quiet
        <3>2. WindowEvents' = s \o new
            BY <1>8
        <3> HIDE DEF new
        <3>3. /\ Latest(s, t, view[t]) => Latest(s \o new, t, view[t])
              /\ Quiet(s \o new, t) <=> Quiet(s, t)
            BY <1>8, <3>1, PushQuiet
        <3>4. /\ Latest(s, t, view[t])
              /\ ui.context = "live" /\ t \notin untold /\ Quiet(s, t) => contextView[t] = view[t]
              /\ t \in untold' <=> t \in untold
            BY <1>3, <1>8, <2>1, <2>4 DEF Measures
        <3> QED BY <1>3, <1>10, <2>2, <2>4, <3>2, <3>3, <3>4 DEF Measures
    <2> QED BY <2>3, <2>4
<1> QED BY <1>3, <1>11, <1>12 DEF ViewInv

(* Nobody is told, because nothing was registered: then no event waits either. *)
LEMMA UntoldStep ==
    ASSUME LifetimeInv, RendererInv, ViewInv, NEW type \in ViewTypes, NEW v \in Values,
           WindowChanges(type, v), userPointer = NULL
    PROVE  ViewInv'
<1>1. /\ window = "open" /\ attached = NULL
      /\ view' = [view EXCEPT ![type] = v]
      /\ UNCHANGED <<events, window, attached, contextView, ui>>
    BY DEF WindowChanges, OnWindowEvent, LifetimeInv, WindowHasItsQueue, interopVars, scriptVars
<1>2. untold' = IF ui.context = "live" THEN untold \cup ({type} \cap ViewTypes)
                                       ELSE untold \ {type}
    BY DEF WindowChanges
<1>3. view = [t \in ViewTypes |-> view[t]]
    BY DEF ViewInv
<1>4. \A t \in ViewTypes : t # type => view'[t] = view[t]
    BY <1>1, <1>3
<1>5. view' = [t \in ViewTypes |-> view'[t]]
    BY <1>1, <1>3
<1>6. WindowEvents = <<>> /\ WindowEvents' = <<>>
    BY <1>1 DEF WindowEvents
<1>7. ASSUME NEW t \in ViewTypes PROVE Measures(t)'
    <2>1. Measures(t)
        BY <1>1 DEF ViewInv
    <2>2. Quiet(WindowEvents, t) /\ Latest(WindowEvents', t, view'[t])
        BY <1>6 DEF Quiet, Latest
    <2>3. ASSUME ui.context = "live", t \notin untold' PROVE contextView[t] = view'[t]
        <3>1. t # type /\ t \notin untold
            BY <1>2, <2>3
        <3> QED BY <1>4, <2>1, <2>2, <2>3, <3>1 DEF Measures
    <2> QED BY <1>1, <2>1, <2>2, <2>3 DEF Measures
<1> QED BY <1>1, <1>5, <1>7 DEF ViewInv

LEMMA GlfwKeepsView ==
    ASSUME LifetimeInv, RendererInv, ViewInv, GlfwNext
    PROVE  ViewInv'
<1>1. UNCHANGED <<ui, contextView, attached>>
    BY GlfwCases
<1>2. CASE (glfw_create_window \/ glfw_destroy_window) /\ UNCHANGED untold
    <2>1. ContextKept /\ WindowKept /\ events' = events
        BY <1>1, <1>2 DEF glfw_create_window, glfw_destroy_window, interopVars,
           ContextKept, WindowKept
    <2> QED BY <1>1, <2>1, SameView
<1>3. ASSUME window = "open", userPointer # NULL
      PROVE  userPointer \in Queues /\ lifetime[userPointer] = "live"
    BY <1>3 DEF LifetimeInv, Lifetimes, WindowHasItsQueue
<1>4. ASSUME NEW type \in WindowEventTypes \cup InputEventTypes, type \notin ViewTypes,
             userPointer \in Queues, lifetime[userPointer] = "live",
             Push(userPointer, <<WindowEvent(type, NULL)>>),
             UNCHANGED <<window, view>>, ContextKept
      PROVE  ViewInv'
    <2> DEFINE e == WindowEvent(type, NULL)
               new == <<e>>
    <2>1. e \in EventRecords /\ e.type = type
        BY <1>4, WindowRecords
    <2>2. events' = [events EXCEPT ![userPointer] = @ \o new]
        BY <1>4 DEF Push
    <2> HIDE DEF e
    <2>3. new \in Seq(EventRecords) /\ \A t \in ViewTypes : Quiet(new, t)
        BY <1>4, <2>1 DEF Quiet
    <2> HIDE DEF new
    <2> QED BY <1>1, <1>4, <2>2, <2>3, QuietPush
<1>5. ASSUME NEW type \in Observed \cap WindowEventTypes, NEW v \in Values,
             WindowChanges(type, v)
      PROVE  ViewInv'
    <2>1. CASE type \in ViewTypes
        BY <1>5, <2>1, MeasureStep, UntoldStep
    <2>2. CASE type \notin ViewTypes
        <3>1. UNCHANGED <<window, view>> /\ window = "open"
            BY <1>5, <2>2 DEF WindowChanges, OnWindowEvent
        <3>2. ContextKept
            BY <1>1, <1>5, <2>2 DEF WindowChanges, ContextKept
        <3>3. CASE userPointer = NULL
            <4>1. events' = events /\ WindowKept
                BY <1>5, <3>1, <3>3 DEF WindowChanges, OnWindowEvent, interopVars, WindowKept
            <4> QED BY <1>1, <3>2, <4>1, SameView
        <3>4. CASE userPointer # NULL
            <4>1. Push(userPointer, <<WindowEvent(type, NULL)>>)
                BY <1>5, <2>2, <3>4 DEF WindowChanges, OnWindowEvent
            <4> QED BY <1>3, <1>4, <2>2, <3>1, <3>2, <3>4, <4>1
        <3> QED BY <3>3, <3>4
    <2> QED BY <2>1, <2>2
<1>6. ASSUME NEW type \in Observed \cap InputEventTypes, OnInputEvent(type), UNCHANGED untold
      PROVE  ViewInv'
    <2>1. type \notin ViewTypes
        BY DEF InputEventTypes, ViewTypes
    <2>2. ContextKept
        BY <1>1, <1>6 DEF ContextKept
    <2> QED BY <1>3, <1>4, <1>6, <2>1, <2>2 DEF OnInputEvent, glfwVars
<1> QED BY <1>2, <1>5, <1>6, GlfwCases

(* The window moves to another queue once its own is drained. *)
LEMMA RegisterKeepsView ==
    ASSUME LifetimeInv, RendererInv, ViewInv, NEW q \in Queues, RegisterWindow(q)
    PROVE  ViewInv'
<1>1. /\ window = "open" /\ attached' = q
      /\ UNCHANGED <<events, window, view, contextView, untold, ui>>
      /\ attached # NULL => queue_size(attached) = 0
    BY DEF RegisterWindow, glfw_register_events, interopVars, rmlVars
<1>2. events \in [Queues -> Seq(EventRecords)] /\ attached \in Queues \cup {NULL}
    BY DEF RendererInv, EventsAreRecords, LifetimeInv, Lifetimes
<1>3. WindowEvents = <<>> /\ WindowEvents' = events[q] /\ q # NULL
    <2>1. attached # NULL => Len(events[attached]) = 0
        BY <1>1 DEF queue_size
    <2>2. attached # NULL => events[attached] = <<>>
        BY <1>2, <2>1
    <2>3. q # NULL
        BY NullIsNoQueue
    <2> QED BY <1>1, <2>2, <2>3 DEF WindowEvents
<1>4. Len(WindowEvents) = 0
    BY <1>3
<1>5. ASSUME NEW type \in ViewTypes PROVE Measures(type)'
    <2>1. Measures(type)
        BY <1>1 DEF ViewInv
    <2>2. Quiet(WindowEvents, type)
        BY <1>4 DEF Quiet
    <2>3. \A p \in Queues : Quiet(events[p], type)
        <3>1. attached # NULL => WindowEvents = events[attached]
            BY DEF WindowEvents
        <3> QED BY <1>2, <2>1, <2>2, <3>1, NullIsNoQueue DEF Measures
    <2>4. Latest(events[q], type, view[type])
        BY <2>3 DEF Latest, Quiet
    <2>5. ui.context = "live" /\ type \notin untold => contextView[type] = view[type]
        BY <2>1, <2>2 DEF Measures
    <2> QED BY <1>1, <1>3, <2>3, <2>4, <2>5 DEF Measures
<1> QED BY <1>1, <1>5 DEF ViewInv

(* The script takes an event and, if it measures the window, tells the context. *)
LEMMA DrainKeepsView ==
    ASSUME LifetimeInv, RendererInv, ViewInv, NEW q \in Queues, DrainNext(q)
    PROVE  ViewInv'
<1> DEFINE event == PoppedEvent(q)
<1>1. /\ lifetime[q] = "live" /\ UNCHANGED <<ui, untold, window, view, attached>>
      /\ events' = IF events[q] = <<>> THEN events ELSE [events EXCEPT ![q] = Tail(@)]
      /\ contextView' = IF ui.context = "live" /\ event.type \in ViewTypes
                          THEN [contextView EXCEPT ![event.type] = event.details]
                          ELSE contextView
    BY DEF DrainNext, queue_pop_event, rml_process_callback, glfwVars
<1>2. events \in [Queues -> Seq(EventRecords)] /\ attached \in Queues \cup {NULL}
    BY DEF RendererInv, EventsAreRecords, LifetimeInv, Lifetimes
<1>3. contextView = [t \in ViewTypes |-> contextView[t]]
    BY DEF ViewInv
<1>4. CASE events[q] = <<>>
    <2>1. event.type \notin ViewTypes
        BY <1>4 DEF PoppedEvent, ErrorEvent, ViewTypes
    <2>2. events' = events /\ ContextKept /\ WindowKept
        BY <1>1, <1>4, <2>1 DEF ContextKept, WindowKept
    <2> QED BY <1>1, <2>2, SameView
<1>5. CASE events[q] # <<>>
    <2> DEFINE s == events[q]
    <2>1. s \in Seq(EventRecords) /\ s # <<>> /\ event = Head(s)
        BY <1>2, <1>5 DEF PoppedEvent
    <2>2. events'[q] = Tail(s) /\ \A p \in Queues : p # q => events'[p] = events[p]
        BY <1>1, <1>2, <1>5
    <2> HIDE DEF event
    <2>3. contextView' = [t \in ViewTypes |-> contextView'[t]]
        BY <1>1, <1>3
    <2>4. ASSUME NEW t \in ViewTypes
          PROVE  /\ ui.context = "live" /\ event.type = t => contextView'[t] = event.details
                 /\ event.type # t => contextView'[t] = contextView[t]
        BY <1>1, <1>3
    <2>5. ASSUME NEW t \in ViewTypes, Measures(t) PROVE Measures(t)'
        <3>1. /\ \A p \in Queues : p # attached => Quiet(events[p], t)
              /\ Latest(WindowEvents, t, view[t])
              /\ ui.context = "live" /\ t \notin untold /\ Quiet(WindowEvents, t)
                   => contextView[t] = view[t]
            BY <2>5 DEF Measures
        <3>2. /\ Latest(s, t, view[t]) => Latest(Tail(s), t, view[t])
              /\ Quiet(s, t) => Quiet(Tail(s), t)
              /\ Head(s).type # t /\ Quiet(Tail(s), t) => Quiet(s, t)
              /\ Head(s).type = t /\ Latest(s, t, view[t]) /\ Quiet(Tail(s), t)
                   => Head(s).details = view[t]
            BY <2>1, TakeMeasure
        <3>3. \A p \in Queues : p # attached => Quiet(events'[p], t)
            BY <2>2, <3>1, <3>2
        <3>4. CASE q = attached
            <4>1. WindowEvents = s /\ WindowEvents' = Tail(s)
                BY <1>1, <2>2, <3>4, NullIsNoQueue DEF WindowEvents
            <4>2. Latest(WindowEvents', t, view[t])
                BY <3>1, <3>2, <4>1
            <4>3. ASSUME ui.context = "live", t \notin untold, Quiet(WindowEvents', t)
                  PROVE  contextView'[t] = view[t]
                <5>1. CASE event.type = t
                    BY <2>1, <2>4, <3>1, <3>2, <4>1, <4>3, <5>1
                <5>2. CASE event.type # t
                    BY <2>1, <2>4, <3>1, <3>2, <4>1, <4>3, <5>2
                <5> QED BY <5>1, <5>2
            <4> QED BY <1>1, <3>3, <4>2, <4>3 DEF Measures
        <3>5. CASE q # attached
            <4>1. WindowEvents' = WindowEvents
                BY <1>1, <1>2, <2>2, <3>5 DEF WindowEvents
            <4>2. event.type # t
                BY <2>1, <3>1, <3>5 DEF Quiet
            <4>3. contextView'[t] = contextView[t]
                BY <2>4, <4>2
            <4> QED BY <1>1, <3>1, <3>3, <4>1, <4>3 DEF Measures
        <3> QED BY <3>4, <3>5
    <2> QED BY <1>1, <2>3, <2>5 DEF ViewInv
<1> QED BY <1>4, <1>5

LEMMA InteropKeepsView ==
    ASSUME LifetimeInv, RendererInv, ViewInv, InteropNext
    PROVE  ViewInv'
<1>1. ASSUME NEW q \in Queues, queue_create(q) /\ UNCHANGED <<glfwVars, rmlVars, scriptVars>>
      PROVE  ViewInv'
    <2>1. UNCHANGED <<events, attached>> /\ ContextKept /\ WindowKept
        BY <1>1 DEF queue_create, glfwVars, rmlVars, scriptVars, ContextKept, WindowKept
    <2> QED BY <2>1, SameView
<1>2. ASSUME NEW q \in Queues, PushOwnEvent(q) PROVE ViewInv'
    <2> DEFINE e == WindowEvent("WINDOW_CLOSE_EVENT", NULL)
               new == <<e>>
    <2>1. /\ lifetime[q] = "live" /\ Push(q, new)
          /\ UNCHANGED <<window, view, attached>> /\ ContextKept
        BY <1>2, NullIsNoQueue DEF PushOwnEvent, queue_push_event, glfwVars, rmlVars, scriptVars,
           ContextKept
    <2>2. events' = [events EXCEPT ![q] = @ \o new]
        BY <2>1 DEF Push
    <2>3. "WINDOW_CLOSE_EVENT" \in WindowEventTypes /\ "WINDOW_CLOSE_EVENT" \notin ViewTypes
        BY DEF WindowEventTypes, ViewTypes
    <2>4. e \in EventRecords /\ e.type = "WINDOW_CLOSE_EVENT"
        BY <2>3, WindowRecords
    <2> HIDE DEF e
    <2>5. new \in Seq(EventRecords) /\ \A t \in ViewTypes : Quiet(new, t)
        BY <2>3, <2>4 DEF Quiet
    <2> HIDE DEF new
    <2> QED BY <2>1, <2>2, <2>5, QuietPush
<1>3. ASSUME NEW q \in Queues, DestroyQueue(q) PROVE ViewInv'
    <2>1. /\ window = "open" => attached # q
          /\ events' = [events EXCEPT ![q] = <<>>]
          /\ UNCHANGED <<window, view, attached, ui, contextView, untold>>
        BY <1>3 DEF DestroyQueue, queue_destroy, glfwVars, rmlVars, scriptVars
    <2>2. /\ events \in [Queues -> Seq(EventRecords)]
          /\ attached \in Queues \cup {NULL} /\ window = "none" => attached = NULL
        BY DEF RendererInv, EventsAreRecords, LifetimeInv, Lifetimes, WindowHasItsQueue
    <2>3. \A p \in Queues : events'[p] = IF p = q THEN <<>> ELSE events[p]
        BY <2>1, <2>2
    <2>4. ASSUME window # "destroyed", NEW type \in ViewTypes PROVE Measures(type)'
        <3>1. Measures(type)
            BY <2>4 DEF ViewInv
        <3>2. attached # q
            BY <2>1, <2>2, <2>4, NullIsNoQueue DEF LifetimeInv, WindowHasItsQueue
        <3>3. WindowEvents' = WindowEvents
            BY <2>1, <2>2, <2>3, <3>2 DEF WindowEvents
        <3>4. \A p \in Queues : p # attached => Quiet(events'[p], type)
            BY <2>3, <3>1 DEF Measures, Quiet
        <3> QED BY <2>1, <3>1, <3>3, <3>4 DEF Measures
    <2> QED BY <2>1, <2>4 DEF ViewInv
<1> QED BY <1>1, <1>2, <1>3, RegisterKeepsView, DrainKeepsView DEF InteropNext

LEMMA InitViews == Init => ViewInv
<1> SUFFICES ASSUME Init PROVE ViewInv
    OBVIOUS
<1>1. /\ events = [q \in Queues |-> <<>>] /\ attached = NULL /\ ui.context = "none"
      /\ view = Unmeasured /\ contextView = NoView
    BY DEF Init, InteropInit, GlfwInit
<1>4. /\ view = [t \in ViewTypes |-> view[t]]
      /\ contextView = [t \in ViewTypes |-> contextView[t]]
    BY <1>1 DEF Unmeasured, NoView
<1>2. \A q \in Queues : Len(events[q]) = 0
    BY <1>1
<1>3. Len(WindowEvents) = 0
    BY <1>1 DEF WindowEvents
<1> QED BY <1>1, <1>2, <1>3, <1>4 DEF ViewInv, Measures, Quiet, Latest

(* However the window's events interleave with RML's commands, with contexts that
   come and go and with a move to another queue: once the window's queue is
   drained, the context has the size and the scale of the window, as far as there
   was ever an event that could have told it. *)
THEOREM ContextFollowsWindow == Spec => []DrainedContextFollowsWindow
<1>1. ASSUME LifetimeInv, RendererInv, ViewInv, [Next]_vars PROVE ViewInv'
    <2>1. CASE UNCHANGED vars
        BY <1>1, <2>1, SameView DEF vars, interopVars, glfwVars, rmlVars, scriptVars,
           ContextKept, WindowKept
    <2>2. CASE Next
        BY <1>1, <2>2, InteropKeepsView, GlfwKeepsView, RendererKeepsView, RmlKeepsView DEF Next
    <2> QED BY <1>1, <2>1, <2>2
<1>2. ASSUME ViewInv PROVE DrainedContextFollowsWindow
    <2> SUFFICES ASSUME window = "open", ui.context = "live",
                        attached # NULL => events[attached] = <<>>,
                        NEW type \in ViewTypes \ untold
                 PROVE  contextView[type] = view[type]
        BY DEF DrainedContextFollowsWindow
    <2>1. WindowEvents = <<>> /\ Len(WindowEvents) = 0
        BY DEF WindowEvents
    <2>2. Quiet(WindowEvents, type)
        BY <2>1 DEF Quiet
    <2> QED BY <1>2, <2>2 DEF ViewInv, Measures
<1> QED
    BY <1>1, <1>2, InitViews, AgreementInvariant, PTL DEF Spec
=============================================================================
