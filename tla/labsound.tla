------------------------------ MODULE labsound ------------------------------
(***************************************************************************)
(* Audio (src/Runtime/Bindings/FFI/labsound/labsound_ffi.cpp).               *)
(*                                                                         *)
(* Lua owns every node through a raw pointer.  LabSound only gets shared     *)
(* pointers that never delete, so what keeps the audio thread away from a    *)
(* deleted node is that nothing in the graph, and no change of the graph     *)
(* that is still queued, refers to it.  Connections are changed by           *)
(* LabSound some time after connect and disconnect have returned.            *)
(*                                                                         *)
(* Nothing keeps a script from destroying a node that is connected, or the   *)
(* destination or the context while the device lives, and the integration    *)
(* tests do (labsound-playback-ffi.lua:142-146).  A history remembers which  *)
(* nodes went like that; what an audio thread does once it follows a dead    *)
(* pointer is not defined, and the model goes on as if it had not.           *)
(***************************************************************************)
EXTENDS Integers, Sequences, FiniteSetsExt, SequencesExt

CONSTANTS
    Sampled,      \* sampled audio nodes (sources)
    Gains,        \* gain nodes
    Panners,      \* panner nodes
    Destination,  \* the destination node
    Edges,        \* connections the script makes, as <<destination, source>>
    MaxQueued,    \* bound: changes of the graph that wait
    Rates         \* sample rates of devices

ASSUME RatesAreNatural == Rates \subseteq Nat \ {0}

Nodes == Sampled \cup Gains \cup Panners \cup {Destination}

ASSUME EdgesJoinNodes == Edges \subseteq Nodes \X Nodes
ASSUME DestinationIsDistinct == Destination \notin Sampled \cup Gains \cup Panners
ASSUME QueueIsBounded == MaxQueued \in Nat

VARIABLES
    config,     \* the default configuration the script asked for, or NoConfig
    device,     \* "none", "live" or "destroyed"
    context,    \* likewise
    node,       \* likewise, per node
    playing,    \* sampled nodes that were started
    parameter,  \* the last value set, per gain and panner node
    listener,   \* position and velocity of the listener
    wired,      \* connections, as the script sees them: <<destination, source>>
    queued,     \* LabSound's queue of changes: <<connect or disconnect, edge>>
    graph,      \* LabSound's graph, which the audio thread pulls
    synchronised, \* history: no change was asked for since the last synchronisation
    careless      \* history: nodes destroyed while wired, or not synchronised

audioObjects == <<config, device, context, node, careless>>
audioGraph == <<wired, queued, graph, synchronised>>
audioSettings == <<playing, parameter, listener>>
audioVars == <<audioObjects, audioGraph, audioSettings>>

AudioTypeOK ==
    /\ config \in [out : Rates \cup {0}, in : Rates \cup {0}, with_input : BOOLEAN,
                   success : BOOLEAN, output : Rates \cup {0}, input : Rates \cup {0}]
    /\ {device, context} \subseteq {"none", "live", "destroyed"}
    /\ node \in [Nodes -> {"none", "live", "destroyed"}]
    /\ playing \subseteq Sampled
    /\ parameter \in [Gains \cup Panners -> {0, 1}]
    /\ listener \in [position : {0, 1}, velocity : {0, 1}]
    /\ wired \subseteq Edges /\ graph \subseteq Edges
    /\ queued \in Seq({"connect", "disconnect"} \X Edges)
    /\ Len(queued) <= MaxQueued
    /\ synchronised \in BOOLEAN /\ careless \subseteq Nodes

-----------------------------------------------------------------------------
(* Devices *)

NoConfig == [out |-> 0, in |-> 0, with_input |-> FALSE, success |-> FALSE,
             output |-> 0, input |-> 0]

(* Both streams get the smaller rate if the devices differ, also if only the
   output is used. *)
DesiredRates(out, in, with_input) ==
    IF out # in THEN [output |-> Min({out, in}), input |-> Min({out, in})]
    ELSE [output |-> out, input |-> IF with_input THEN in ELSE 0]

(* out and in are the rates of the default devices, 0 if there is none.  The two
   configurations are left alone if there is no input device to be used. *)
labsound_get_default_device_config(out, in, with_input) ==
    /\ config = NoConfig /\ device = "none" /\ context = "none"
    /\ LET success == with_input => in # 0
           rates == IF success THEN DesiredRates(out, in, with_input)
                    ELSE [output |-> 0, input |-> 0]
       IN config' = [out |-> out, in |-> in, with_input |-> with_input, success |-> success,
                     output |-> rates.output, input |-> rates.input]
    /\ UNCHANGED <<device, context, node, careless, audioGraph, audioSettings>>

(* Bound: the model forgets the configuration when it has been used. *)
labsound_device_create ==
    /\ device = "none"
    /\ device' = "live" /\ config' = NoConfig
    /\ UNCHANGED <<context, node, careless, audioGraph, audioSettings>>

(* Stops the audio thread. *)
labsound_device_destroy ==
    /\ device = "live"
    /\ device' = "destroyed"
    /\ UNCHANGED <<config, context, node, careless, audioGraph, audioSettings>>

labsound_context_create ==
    /\ context = "none"
    /\ context' = "live" /\ config' = NoConfig
    /\ UNCHANGED <<device, node, careless, audioGraph, audioSettings>>

(* Nodes stay connected, and pending changes go with the context. *)
labsound_context_destroy ==
    /\ context = "live"
    /\ context' = "destroyed" /\ queued' = <<>>
    /\ UNCHANGED <<config, device, node, careless, wired, graph, synchronised, audioSettings>>

-----------------------------------------------------------------------------
(* Nodes *)

(* A node of a context; sampled nodes are not created without a bus. *)
CreateNode(n) ==
    /\ context = "live" /\ node[n] = "none"
    /\ node' = [node EXCEPT ![n] = "live"]
    /\ UNCHANGED <<config, device, context, careless, audioGraph, audioSettings>>

(* Nothing is disconnected, and no device or context is told. *)
DestroyNode(n) ==
    /\ node[n] = "live"
    /\ node' = [node EXCEPT ![n] = "destroyed"]
    /\ careless' = IF synchronised /\ \A e \in wired : n \notin Range(e)
                     THEN careless ELSE careless \cup {n}
    /\ UNCHANGED <<config, device, context, audioGraph, audioSettings>>

(* The device and the context keep a pointer to their destination node. *)
labsound_destination_node_create ==
    /\ device = "live"
    /\ CreateNode(Destination)

labsound_destination_node_destroy == DestroyNode(Destination)

labsound_gain_node_create(n) == CreateNode(n)
labsound_gain_node_destroy(n) == DestroyNode(n)
labsound_panner_node_create(n) == CreateNode(n)
labsound_panner_node_destroy(n) == DestroyNode(n)

(* From a file or from memory; no node if no audio bus can be made of it. *)
labsound_sampled_audio_node_from_file(n) == CreateNode(n)
labsound_sampled_audio_node_from_memory(n) == CreateNode(n)
labsound_sampled_audio_node_destroy(n) == DestroyNode(n)

labsound_sampled_audio_node_start(n) ==
    /\ node[n] = "live"
    /\ playing' = playing \cup {n}
    /\ UNCHANGED <<audioObjects, audioGraph, parameter, listener>>

labsound_sampled_audio_node_stop(n) ==
    /\ node[n] = "live"
    /\ playing' = playing \ {n}
    /\ UNCHANGED <<audioObjects, audioGraph, parameter, listener>>

labsound_gain_node_set_value(n, value) ==
    /\ node[n] = "live"
    /\ parameter' = [parameter EXCEPT ![n] = value]
    /\ UNCHANGED <<audioObjects, audioGraph, playing, listener>>

(* The setters of a panner forward one value each; one stands for all. *)
labsound_panner_node_set(n, value) ==
    /\ node[n] = "live"
    /\ parameter' = [parameter EXCEPT ![n] = value]
    /\ UNCHANGED <<audioObjects, audioGraph, playing, listener>>

labsound_context_listener_set_position(value) ==
    /\ context = "live"
    /\ listener' = [listener EXCEPT !.position = value]
    /\ UNCHANGED <<audioObjects, audioGraph, playing, parameter>>

(* Calls setPosition. *)
labsound_context_listener_set_velocity(value) ==
    /\ context = "live"
    /\ listener' = [listener EXCEPT !.position = value]
    /\ UNCHANGED <<audioObjects, audioGraph, playing, parameter>>

-----------------------------------------------------------------------------
(* Connections.  The build defines NDEBUG, so the assertions on the slots are
   not there. *)

labsound_context_connect(destination, source) ==
    /\ context = "live" /\ node[destination] = "live" /\ node[source] = "live"
    /\ Len(queued) < MaxQueued
    /\ wired' = wired \cup {<<destination, source>>}
    /\ queued' = Append(queued, <<"connect", <<destination, source>>>>)
    /\ synchronised' = FALSE
    /\ UNCHANGED <<graph, audioObjects, audioSettings>>

labsound_context_disconnect(destination, source) ==
    /\ context = "live" /\ node[destination] = "live" /\ node[source] = "live"
    /\ Len(queued) < MaxQueued
    /\ wired' = wired \ {<<destination, source>>}
    /\ queued' = Append(queued, <<"disconnect", <<destination, source>>>>)
    /\ synchronised' = FALSE
    /\ UNCHANGED <<graph, audioObjects, audioSettings>>

(* LabSound applies changes in the order they were queued. *)
ApplyChange(edges, change) ==
    IF change[1] = "connect" THEN edges \cup {change[2]} ELSE edges \ {change[2]}

(* What is left of a graph when all changes are applied: the last change of an
   edge decides. *)
Settled(edges, changes) ==
    {e \in Edges :
        \/ \E i \in DOMAIN changes :
             /\ changes[i] = <<"connect", e>>
             /\ \A j \in DOMAIN changes : changes[j] = <<"disconnect", e>> => j < i
        \/ e \in edges /\ \A i \in DOMAIN changes : changes[i] # <<"disconnect", e>>}

(* Mutant of labsound_context_synchronize_connections: the changes are dropped. *)
labsound_context_synchronize_connections_drops ==
    /\ context = "live"
    /\ queued' = <<>> /\ synchronised' = TRUE
    /\ UNCHANGED <<graph, wired, audioObjects, audioSettings>>

labsound_context_synchronize_connections ==
    /\ context = "live"
    /\ graph' = Settled(graph, queued)
    /\ queued' = <<>> /\ synchronised' = TRUE
    /\ UNCHANGED <<wired, audioObjects, audioSettings>>

(* The audio thread applies the oldest change before it renders. *)
Render ==
    /\ device = "live" /\ queued # <<>>
    /\ graph' = ApplyChange(graph, Head(queued))
    /\ queued' = Tail(queued)
    /\ UNCHANGED <<wired, synchronised, audioObjects, audioSettings>>

-----------------------------------------------------------------------------
AudioInit ==
    /\ config = NoConfig /\ device = "none" /\ context = "none"
    /\ node = [n \in Nodes |-> "none"]
    /\ playing = {} /\ wired = {} /\ queued = <<>> /\ graph = {}
    /\ synchronised = TRUE /\ careless = {}
    /\ parameter = [n \in Gains \cup Panners |-> 0]
    /\ listener = [position |-> 0, velocity |-> 0]

AudioNext ==
    \/ \E out, in \in Rates \cup {0}, with_input \in BOOLEAN :
         labsound_get_default_device_config(out, in, with_input)
    \/ labsound_device_create \/ labsound_device_destroy
    \/ labsound_context_create \/ labsound_context_destroy
    \/ labsound_destination_node_create \/ labsound_destination_node_destroy
    \/ \E n \in Gains :
         \/ labsound_gain_node_create(n) \/ labsound_gain_node_destroy(n)
         \/ \E value \in {0, 1} : labsound_gain_node_set_value(n, value)
    \/ \E n \in Panners :
         \/ labsound_panner_node_create(n) \/ labsound_panner_node_destroy(n)
         \/ \E value \in {0, 1} : labsound_panner_node_set(n, value)
    \/ \E n \in Sampled :
         \/ labsound_sampled_audio_node_from_file(n)
         \/ labsound_sampled_audio_node_from_memory(n)
         \/ labsound_sampled_audio_node_destroy(n)
         \/ labsound_sampled_audio_node_start(n) \/ labsound_sampled_audio_node_stop(n)
    \/ \E value \in {0, 1} : \/ labsound_context_listener_set_position(value)
                             \/ labsound_context_listener_set_velocity(value)
    \/ \E e \in Edges : \/ labsound_context_connect(e[1], e[2])
                        \/ labsound_context_disconnect(e[1], e[2])
    \/ labsound_context_synchronize_connections \/ Render

AudioSpec == AudioInit /\ [][AudioNext]_audioVars

-----------------------------------------------------------------------------
(* A node that the script destroys after it has disconnected it and synchronised is
   one that the audio thread never meets again: neither the graph nor a change that
   is still queued refers to it, whoever applied the changes and whatever else was
   destroyed with connections left. *)
AudioThreadSeesLiveNodes ==
    \A e \in graph \cup {queued[i][2] : i \in DOMAIN queued} :
        \A n \in Range(e) : node[n] = "live" \/ n \in careless

(* When the context has applied every queued change, its graph is the one the script
   asked for, in whatever order the same nodes were connected and disconnected. *)
GraphSettles == context = "live" /\ queued = <<>> => graph = wired

(* The default configuration never asks for two different rates with an input,
   which RtAudio does not support, nor for a rate above that of the output device;
   it asks for none at all, and reports success, exactly if a default device is
   missing, be it a microphone that nobody wanted to use. *)
DefaultConfigIsUsable ==
    config.success =>
        /\ config.with_input => config.input = config.output
        /\ config.output <= config.out
        /\ config.output = 0 <=> 0 \in {config.out, config.in}

(* The three together: what the script builds is what the audio thread renders,
   in a configuration it can be rendered in, and never through a dead node that
   the script took care to take out. *)
AudioIsSound == AudioThreadSeesLiveNodes /\ GraphSettles /\ DefaultConfigIsUsable
=============================================================================
