# TLA+ models of the Evo runtime

Evo (`src/Runtime`) embeds LuaJIT in a C++ host, links libuv, uWebSockets and a
number of other native libraries into it, and puts Lua APIs on top. Lua and
nearly all native code run on **one thread**, on one libuv loop (LabSound renders on a
thread of its own). What makes it hard to get right is therefore
not parallelism but *reentrancy and deferral*: native callbacks put events in
queues that Lua drains later, the handlers are arbitrary user code that may call
back into the component that is calling them, objects that belong to a native
library are kept by raw pointer, and the order in which peers, timers, the thread
pool and user code take their turns is open.

The project models the components in which that happens, checks them with TLC on
small instances, and proves the central invariants with TLAPS for every instance.

## Inventory

| Component | State | Operations | Interacts with | What is hard, and what must hold |
|---|---|---|---|---|
| Native web server (`Bindings/FFI/WebServer.cpp`) | listen socket, `m_websocketClientsMap`, `m_httpClientsMap`, `m_deferredEventsQueue`, echo flag | uWebSockets callbacks; `StartListening`, `StopListening`, send, broadcast, write, end, `GetNextDeferredEvent`, purge | called by uWebSockets from the loop, by Lua through the FFI table of `uws_ffi.cpp` | raw pointers to objects uWebSockets frees; callbacks that run inside `close()`; a queue between two worlds. No pointer may outlive its object; no event may be lost, repeated or reordered |
| `WebSocketServer.lua` | polling timer, payload buffer | `StartListening`, `StopListening`, `ProcessDeferredEvents`, one handler per event | the native server, a libuv timer, user handlers | handlers that stop the server and drain the same queue; payloads at the size limit |
| `HttpServer.lua` | `registeredRoutes`, polling timer, buffers | routes, responses, `StopListening`, handlers | as above | responses that are aborted, partly written or ended while events of their request are still queued; connections that outlive the listen socket |
| `C_Timer.lua` | timer tables, list of deferred callbacks, check handle | `After`, `NewTicker`, `Stop`, `Pause`, `Resume`, `Defer`, `ResumeAfter` | libuv timers and check phase, coroutines | callbacks that stop their own timer or defer more work; two ways to resume one coroutine; every deferral must run, once and in order |
| `AsyncFileReader.lua` | a payload table per chunk, event subscriptions | `LoadFileContents` and the handlers of its own events | libuv's thread pool, `etrace` | failure at any step; shared payload tables; sizes around multiples of the chunk; descriptors the kernel reuses |
| `etrace.lua` | registry, event log, subscribers | register, enable, subscribe, publish, reset, ... | user handlers, `AsyncFileReader` | handlers that change the table being traversed; nested publications |
| Event queues (`FFI/interop`) | queues of event records, created and destroyed by Lua | create, push, pop, size, destroy | GLFW, RmlUi's render interface, Lua | raw pointers to queues; order. Nobody may use a deleted queue |
| Window events (`FFI/glfw`) | a window's user pointer | register, fifteen callbacks | `interop`, GLFW | nothing unregisters; registering again must redirect every callback |
| User interface (`FFI/rml`, `RmlUi_Renderer_WebGPU.cpp`) | interfaces, context, document; GPU memory of geometry and textures | RmlUi's render interface, the binding's functions, the script that drains | RmlUi, WebGPU, `interop` | commands reach the script later than RmlUi gave them; releases during shutdown. Drained queues must leave both sides in agreement |
| Zip and deflate (`lminiz.cpp`) | readers, writers and streams as userdata; descriptors | open, read, add, finalise, deflate, inflate, finalisers | miniz, libuv, the collector | finalisers at any time, uninitialised fields, unsigned indices, output larger than a buffer |
| Audio (`FFI/labsound`) | device, context, nodes, connections | create, destroy, connect, disconnect, synchronise, play | LabSound's audio thread | nodes are not owned by the graph, and may be destroyed while connected; connections change later, on another thread |
| Lua state and `main` (`LuaVirtualMachine.cpp`, `SharedEventLoop.hpp`, `main.cpp`) | Lua stack, registered packages, event loop | load, bind, run, tear down | all bindings | stack balance, order of start-up, what a stopped loop leaves |
| Images (`FFI/stbi`, `C_ImageProcessing.lua`) | image, buffer | load, free, encode, convert | stb_image | chunks that do not fit; sizes counted for another quality; byte order |
| Cryptography (`FFI/crypto`) | conversion buffer, OpenSSL objects | Base64, hashing | OpenSSL | the last partial block, the terminator, a buffer that keeps its capacity |
| Character sets (`FFI/iconv`) | request, descriptor | convert, close | libiconv | a failed conversion keeps its descriptor, a closed one its handle; retries |
| JSON encoder (`rapidjson.hpp`) | native calls, one per table | encode | lua-rapidjson | cycles, the depth limit, order of keys |
| `C_WebView.lua` | native window, polling timer | create, poll, destroy | webview library | polling a destroyed window |
| `bdd.lua`, `C_Runtime.lua` | section stack, hooks, report | describe, it, before, after, ... | user tests | nesting and errors in hooks |
| `vfs.lua`, `evo.lua`, `C_CommandLine.lua` | command table, searchers, archive | build, load, dispatch | file system, zip | trailer of a self-contained executable |
| `oop.lua`, `path.lua` | classes; none | class, extend, mixin; string functions | - | lookup order; normalisation |

The other bindings (WebGPU, curl, UUIDs, regex, LPEG, ...) are declarations or tables of
pointers to functions of external libraries, without a protocol of their own.
`PROJECT.json` lists every part, with its status, and the hazards, each at its line.

## Modules

```
WebServer ----- WebSocketServer --- MCWebSocketServer     WebSocketServer_proofs
     \          (implements WebSocketEvents)             /  WebServer_proofs
      \-------- HttpServer -------- MCHttpServer         \ HttpServer_proofs
                (implements HttpEvents)
C_Timer ------- MCC_Timer                                 C_Timer_proofs
AsyncFileReader MCAsyncFileReader                         AsyncFileReader_proofs
etrace -------- MCetrace                                  etrace_proofs
interop -- glfw -- rml -- MCrml                           rml_proofs
lminiz -- lminiz_streams --\
labsound, LuaVirtualMachine --- bindings -- MCBindings    bindings_proofs
iconv ---------------------/
stbi, crypto, rapidjson --/
```

**WebServer** is what the two servers share: the listen socket, the FIFO
`m_deferredEventsQueue`, the polling timer, and `drains`, the number of
`ProcessDeferredEvents` loops on the Lua stack. uWebSockets and libuv call back only
if `drains = 0`; user code may run at any time, so `StopListening` called by a handler
starts a nested drain. An event is a record of its type, its client or request, and
for payloads a sequence number and a size; the bytes are left out.

**WebSocketServer** adds the sockets as uWebSockets sees them, the map of raw
pointers (`"websocket"`, `"nullptr"` for a faded entry, `"absent"`), echo mode, sends
and broadcasts. `DisconnectAllClients` closes the clients in *some* order, as an
`unordered_map` does, with `OnWebSocketClose` running inside the loop. The variables
`phase`, `received` and `status` record what the handlers have been told, and
**WebSocketEvents** is the abstract specification of that: what the author of a
subclass may rely on. `EventContract` says the server implements it
(`Handlers == INSTANCE WebSocketEvents WITH ...`: the mapping takes the history
variables and hides sockets, map and queue).

**HttpServer** adds connections that are kept alive, requests with bodies in chunks,
responses that are pending until they are ended or aborted, backpressure, and the
route registry. uWebSockets' own rules are part of the model and marked external: an
ended response loses its abort and writable handlers but not its data handler, and a
connection takes the next request only when the previous one is done with.
**HttpEvents** is its contract with the handlers.

**C_Timer** models libuv's handles (`handle`, `repeats`, `closure`), the Lua tables,
the deferral list, the callback on the stack and the coroutines. Time is left out:
any active timer may fire next. An error raised in a callback ends the process
(`fatal`), as it does in the runtime, where nothing catches it.

**AsyncFileReader** publishes events to itself, and publishing is synchronous, so a
libuv callback runs until the next libuv request is started. An action is such a run,
composed of one operator per Lua function from request state to request state.
Payload tables are modelled as references into a heap, because the log keeps
references to tables that are written to later. Contents are byte ranges.

**etrace** models calls of `notify` in progress as a stack of traversals. `keys` is
what LuaJIT's table keeps: the slot of a removed key stays and is reused if the key
comes back, whereas a new key may rehash the table, after which what a traversal
visits is any subset of the entries.

**interop**, **glfw** and **rml** are one composed system. `interop` has the queues with
their lifetimes, `glfw` a window whose callbacks push through its user pointer, `rml`
RmlUi with its render interface, the functions of the binding, and a script that drains.
Using a deleted queue or interface sets `fault`. `resource` is RmlUi's view of geometry
and textures, `gpu` the device memory behind them, `held` the script's view, which lags
behind by what is queued. The script is any script that destroys things in the order of
the integration tests: an interface after RmlUi has let go of it, a queue, drained or not,
after whoever pushes into it. The window changes whether it is registered or not, a change
before the registration is told to nobody, and `rml_context_create` passes a size and no
scale; the history `untold` has the measures that no event will tell the context.

The remaining bindings share no state. **bindings** puts them side by side so that one run
checks them: a behaviour follows one of them (`focus`).

- **lminiz**: readers, writers, the collector, and other code that opens and closes files.
  The fields that `lmz_reader_init_mem` leaves uninitialised are any value. `stray`
  records that a finaliser has closed a descriptor its reader never opened.
  **lminiz_streams**: the loop of a stream call over `luaL_Buffer`s and the loop of
  `uncompress`, turn by turn, with a buffer that doubles.
- **labsound**: what the script asked for (`wired`), LabSound's queue of changes, and the
  graph that the audio thread pulls at any time. As in the code, nothing keeps a script from
  destroying a node, the destination or the context at any time, connected or not
  (`labsound-playback-ffi.lua:142-146` does). The history `synchronised` tells whether LabSound
  has caught up, and `careless` has the nodes that were destroyed without waiting for that.
- **LuaVirtualMachine**: `main` call by call (`pc`, and `next` for the position in the lists
  of libraries and packages), with the Lua stack and its peak, the
  packages and bindings that exist, the event loop and the ways a process ends.
- **stbi**: encoders as sequences of chunks into buffers of every size, a JPG also of a
  quality out of range; for the pixel operations, the four bytes of one pixel, and in `gone`
  every colour that has been replaced and was not brought back by another replacement.
- **crypto**: the Base64 codec bit by bit, with the width of the accumulator, and the
  buffer of `crypto.lua`; the objects of OpenSSL while hashing.
- **iconv**: the request with its cursors, every error, retries, and closes of whatever handle
  the request still holds, next to descriptors that the script opens itself and that may get
  a handle again. The histories are `unfinished` (a conversion has failed and was not closed),
  `misused` (`iconv_try_close` was called when that was not so) and `abandoned` (descriptors
  lost by retrying).
- **rapidjson**: graphs of tables, the native calls that walk them, and the text.

Definitions carry the names of the code; `PROJECT.json` maps each one to its lines.
The mutants (`X_something`, next to `X`) are plausible mistakes in the code, and each
breaks the property it is listed with.

## Runs

| Run | Bounds | Shows |
|---|---|---|
| `websocket_server` | 2 clients, 2 messages each, 2 listens, 2 nested drains, at most 3 listens and messages together | pointers valid; replaying the queue on top of what the handlers know yields the state of the sockets; `EventContract`; closed connections are reported, faded entries purged |
| `websocket_payload` (violation) | as above | a message of exactly the maximum size loses its last byte |
| `http_server` | 2 kept-alive connections, 2 requests, 1 chunk and the last, 1 writable event, 2 listens | the map holds exactly the pending responses; no call on any other; `EventContract`; requests and aborts are reported; nothing is pending when the stop is reported |
| `http_shutdown` (violation) | 1 connection, 2 requests | a kept-alive connection starts a request after `StopListening`, which nobody processes |
| `timers` | 2 timers, 2 coroutines, 2 deferrals | tables match handles; deferrals in order; the check handle is started exactly when needed; only two causes of fatal errors; deferrals run, sleepers wake |
| `timers_defer` (violation) | as above | `Defer()` does not yield |
| `file_reader` | 2 loads, 2 descriptors, chunks of 2 bytes, sizes 0 to 5 | descriptors closed once by their owner; events in order; logged payloads stable; all bytes asked for; every load ends |
| `event_bus` | 1 event, 2 listeners, 2 nested notifications | listeners that stay are called once, those that left are not called |
| `event_bus_notify` (violation) | 2 events, 3 listeners | a handler that subscribes a new listener can make the traversal skip another |
| `user_interface` | 1 window of 2 sizes and 2 scales, 2 queues, 1 geometry, 1 texture, 2 pending events, those whose payload no property reads only while none waits (`MaxPlain`) | no use after free; drained queues leave script and RmlUi in agreement, and the context with the window as far as it could be told; nothing is drawn that the script does not hold |
| `native_bindings` | 2 zips and 1 descriptor; output of 6 units in buffers of 2; 4 audio nodes and 2 queued changes; all packages, 2 handles; 3 chunks of up to 2 bytes, JPG qualities from -1 to 3, 4 colours; Base64 inputs of up to 4 bytes; 2 descriptors and texts of up to 2 bytes; 2 tables, depth 2 | one invariant per binding, see `PROJECT.json` |
| `base64_space` (violation) | as above | a buffer of the size that is asked for is refused |

The bounds are small but not vacuous. Two clients, connections, requests or loads
suffice for one to be in the middle of something while the other changes shared
state; two messages and two chunks tell order from loss; two listens let one listen
socket be overwritten; two levels of nesting let a handler drain the queue from inside
a drain, and a third level would repeat the second. Two queues let a window move from one
to the other; two pending events let a command overtake another. Two tables suffice for a
table at the depth limit and for a cycle beyond it. The servers' runs are bounded further
by `BoundedSpec`, which limits what peers and user code do, never what fairness is about.
The proofs below remove the bounds for the properties they cover. Symmetry is used in
safety runs only. `CHECK_DEADLOCK FALSE` is set where the system may stop: a fatal error
ends the process (`C_Timer`), all loads may be finished (`AsyncFileReader`), a script may
have used up its queues (`rml`), `main` returns (`MCBindings`).

Constants of the code that matter only by where they are crossed are scaled down: bytes
have 4 bits and Base64 characters 3 (`BYTE_BITS`, `CHAR_BITS`; three bytes still make four
characters), `UINT_RANGE` is 16, `INT_MAX` 7, a `luaL_Buffer` holds 2 units, the quality of
a JPG goes up to 2. The Lua stack has its 20 slots and `main` its real lists of packages.

### Fairness

- `WF(Poll)`, `WF(OnEvent)`, `WF(Drained)` for the servers: libuv fires a started
  timer again and again, and a drain is a Lua loop that runs on once a handler
  returns. Handlers are assumed to return. Peers and user code owe nothing.
- `SF(WakeUp)`, `SF(OnCheck)` for timers: the loop only ever takes its turn between
  callbacks, so these actions are enabled intermittently, but each iteration of
  `uv_run` visits the due timers and the check phase. Callbacks and coroutines are
  assumed to end or yield. User timers owe nothing: a timer may be far in the future.
- `WF(OnCallback(r))` for file requests: the thread pool answers every request.

The user interface and the bindings are checked for safety only: when a script drains,
drops or closes something is up to the script.

## Proofs

TLAPS checks these for every value of the constants (any set of clients, any bound). Each
is an invariant found by strengthening the property until every step preserves it; TLC
checked the strengthened invariants before they were proved.

**`WebServer_proofs`** has the lemmas that both servers need about their shared queue: what
it means that the messages of a queue are numbered in sequence, that the events of a
client are bracketed by its connection and its disconnection, and that all of that is kept
when an event is pushed, popped, or a shutdown appends events for a whole set.

**`WebSocketServer_proofs`**
- `TypeCorrect` is inductive as it stands, given two lemmas on the events that a shutdown
  queues for an arbitrary iteration order of the map.
- `PointersAreValid` is `NoDanglingPointers`, stated as an equivalence (an entry points to a
  WebSocket *iff* that one is open) because the implication alone is not inductive:
  `DisconnectAllClients` closes what the map points to and then clears the map, which would
  strand open sockets that have no entry. From it follows `FramesReachOpenSockets`.
- `QueueIsABridge` is `QueueBridgesSocketsAndHandlers`: replaying the queue on what the
  handlers know gives the state of the sockets. Its invariant `BridgeInv` says it per
  client by positions in the queue.
- `HandlersSeeEventsInOrder` is the refinement: the server implements `WebSocketEvents`.
  Initial states map to initial states, and a step maps to a step of the abstract
  specification only when a handler is called; `BridgeInv` says that the event at the
  head of the queue is one that specification allows next.

**`HttpServer_proofs`**
- `TypeCorrect` needs that a request whose last chunk is still to come has room for it.
- `PointersToPending` is the analogous equivalence for responses, and
  `OnlyPendingAreTouched` the action property that no method is called on a response that
  was ended or aborted, including the 503 of a shutdown.
- `StoppedMeansAnswered` rests on `ShutdownInv`: while the event of a shutdown is queued, the
  drain that `StopListening` started is still on the stack, so uWebSockets cannot run and
  nothing becomes pending again.
- `HandlersSeeEventsInOrder`, the refinement of `HttpEvents`, needs `ConnectionInv` (what a
  connection is doing and the state of its requests agree) and its own `BridgeInv`.

**`C_Timer_proofs`**
- `TypeCorrect` and `RegistryIsAccurate` are proved together: a timer is never armed with
  `nil` because `timerCallbacks` holds what `Resume` looks up.
- `CheckerIsStarted` is inductive given the types.
- `DeferralsRunInOrder` (nothing deferred is lost, repeated or reordered, whatever is
  deferred while `onCheck` runs) needs that `processed` is empty unless `onCheck` is on the
  stack, and counts each of the two lists on its own.
- `OneshotsAreClosed`, `SleepersHaveAnAlarm` and `OtherCallsAreNotFatal` share `TimerInv`:
  the timers of `ResumeAfter` are private to it (`AlarmInv`); the check handle resumes only
  coroutines that called `Defer()` (`ResumesInv`); and of the others exactly those that
  sleep have an alarm, one each (`SleepInv`). So only a callback that stops its own timer,
  or a coroutine that used `Defer()`, can bring the process down.

**`AsyncFileReader_proofs`**: `TypeCorrect`, `DescriptorsHaveOneOwner`,
`EventsArePublishedInOrder`, `LoggedChunksStayTrue` and `CompletedRequestsAreRead`, from one
invariant, `ReaderInv`. It says of each request how the length of the log, the number of
payload tables, the chunk index and the cursor determine each other while libuv has a
request in progress; that entry *i* of the log refers to table *i - 2*, which no later
handler writes to; and that a descriptor is held by the kernel exactly while one request
has it. One lemma per Lua function says what it does to a request that satisfies it, and a
libuv callback composes them.

**`etrace_proofs`**: `TypeCorrect`, and the invariant `AllSound`, which is the conjunction of
`EveryoneOnce` and `OnlySubscribersAreCalled` said of one traversal at a time; lemmas say
what each update of a traversal or its table does to one traversal, and the step theorem
lifts them to the stack. It yields `ListenersAreCalledOnce` and `UnsubscribedAreNotCalled`.

**`rml_proofs`**
- `NothingDeletedIsUsed` is `NoUseAfterFree`. `LifetimeInv` says why each pointer is good: an
  open window's user pointer is the queue the script registered last
  (`WindowHasItsQueue`); what RmlUi has installed exists, and so does the render
  interface's queue (`InterfacesAreLive`); and as long as a geometry or texture is alive
  the render interface is installed, so that a shutdown can release it
  (`ResourcesHaveARenderer`).
- `NothingLeaksOrIsFreedEarly` (`DrainedRendererMatchesRml`) and `NothingElseIsDrawn`
  (`DrawsOnlyWhatItHolds`) follow from `RendererInv`. It says what the script will come to
  when it drains: per geometry or texture, the waiting commands acquire it at most once
  and before anything else, nothing follows its release (`Ordered`), at the end it is what
  RmlUi takes it for (`Settles`), and it has device memory iff the script holds it or will
  learn of it (`Reaches`). Lemmas say what pushing and popping a command does to one
  resource; releasing everything at a shutdown is one of them, for whatever order the
  releases come in. Commands are only in the render interface's queue (`OneCommandQueue`).
  All of it is said as long as that queue exists: with a queue that is destroyed undrained
  the commands in it are lost.
- `ContextFollowsWindow` (`DrainedContextFollowsWindow`) follows from `ViewInv`: the last
  event of each measure in the window's queue, or the context if there is none and the
  measure is not `untold`, has what the window measures, and no other queue has such an event.

**`bindings_proofs`**
- `ZipTypeCorrect`, and `ReadersOwnDescriptors`, which needs that file readers have their
  `loop` set, or their finaliser would close nothing. `IndicesAlwaysAgree`: an index that
  Lua passes names the entry it counted, also after the conversion to unsigned, because
  no archive has as many entries as an `unsigned int` has values.
- `NothingIsLostSilently` is `DecompressionIsComplete`: a stream call accounts for every unit
  of output in a buffer or in what it returned (`OutputIsAccounted`), and `uncompress`
  fails only if the output needs more than half of `INT_MAX`.
- `AudioIsAlwaysSound`: until the context goes, what the script asked for is what the graph will
  be when LabSound has applied its queue, and while the script is `synchronised` it is what
  the graph is (`QueueCatchesUp`). A node that is disconnected and destroyed then is in
  neither, and as nothing can be connected to a dead node it never comes back, whatever else
  was destroyed with connections left.
- `StackIsLargeEnough` and `RunsAreAlwaysComplete`: the Lua stack as a function of what has been
  loaded (`StackHolds`), which is a function of the position in `main`
  (`LibrariesInOrder`), and what the script and the exit code are at each position
  (`ScriptFollows`).
- `DescriptorsAreClosed` (`iconv`): `Accounted`, the account of open descriptors, becomes
  inductive with the facts that none of the script's own is an abandoned one, because
  `iconv_open` does not return a descriptor that is open, and that a conversion that failed
  has left a handle. It holds until `iconv_try_close` is called without a failure
  (`misused`), and not after: the handle of a closed descriptor may be somebody else's.
- `ImagesAreAlwaysSound` (`stbi`): `WholeUpTo` says what `append_to_buffer` has done after *k*
  chunks: everything fits so far, or a chunk is missing and then the bytes used and the size
  of the buffer are both below the sum of the chunks. `count_bytes` is that sum. The sum that
  was counted and the one that is encoded agree for every quality but a negative one.
- `EncodingIsAlwaysExact` (`rapidjson`): `JsonInv` has one half per claim. For the depth, the
  call *i* encodes a table that is *i - 1* levels below the root (`CallsNested`), so a
  refusal means that something is nested too deeply; and `PendingFits`, with `Fits` for the
  values that fit below the limit, says that the root fits if what the calls have still to
  visit does. For the text, `TextIsDue`: with `sort_keys`, what has been written, followed
  by the text of what the calls have still to write, innermost first, is the text of the
  root.
- `ConversionsAreAlwaysSound` (`crypto`): with `CodeWidths`, that is bytes of 8 and characters
  of 6 bits as in the code (the run uses 4 and 3). The three loops of the codec keep `acc_len` and
  the bits not yet written at the end of `acc`, a word of 32 bits that overflows; each
  character or byte that is written is a function of at most two neighbours on the other
  side (`EncodingIsRight`, `DecodingIsRight`), and these functions are inverse to each other
  (`DecodingInvertsEncoding`, `EncodingInvertsDecoding`, the latter because the last partial
  character must have zeros where it has no byte). `ReserveType` is that doubling a capacity
  reaches any size.
- `BindingsTypeCorrect` and `BindingsAreSound` carry all of this over to the specification that
  the run checks: a step of `Next` is a step or a stutter of each component
  (`ComponentsBehave`).

The last three components compute with folds and recursive functions. The induction theorems
of the library have an operator as parameter, which the provers cannot instantiate, so
`bindings_proofs` derives its own from the well-foundedness of `<` on `Nat`: `LeastNumber`
gives `Induction` for the *set* of the numbers with a property. From it, `FoldExists` and
`RecursionExists` say that the equations of a fold over the indices of a sequence, and of a
function defined by recursion on them, have a solution, so that what `CHOOSE` picks
satisfies them: the partial results of a fold can then be reasoned about like the states of
a loop.

Assumptions are those named in the modules. Bounds are naturals, buffers are not empty, the
names of special values are no clients, requests, timers, threads, queues, descriptors,
names, tables or resources, and the sets of clients, geometries and textures are finite. An
archive has fewer entries than `unsigned int` has values; LabSound's destination is none of the
other nodes; a Lua stack has at least 14 slots (`LUA_MINSTACK` is 20); geometries
and textures are not empty (`CompileGeometry` asserts it, and a decoded image has a pixel);
the keys in `StringKeys` are distinct, also for `strcmp`, and the depth limit is not 0; every
output of the JPG encoder is among the chunk lists of the model; the colours are closed under
reversal of their bytes; the scale a context starts with is one that a window may have. `ConversionsAreAlwaysSound`, and with it the two
theorems about all bindings, also assume `CodeWidths`. Type invariants that are proved on
their own are not checked by a run again.

Every safety property of the passing runs is proved. Only model-checked is liveness under the
fairness above, because the provers know no fairness (`ENABLED`):
`ClosedConnectionsAreReported`, `FadedClientsArePurged`, `RequestsAreReported`,
`DeferredEventuallyRun`, `SleepersEventuallyWake` and `RequestsEnd`. For other widths than 8
and 6 bits, the properties of the codec are what the run shows of 4 and 3.

## Findings

- A WebSocket message of exactly `m_maxPayloadSize` bytes is accepted but handed to Lua
  without its last byte (`websocket_payload`).
- `HttpServer:StopListening` drains the queue once; connections that are kept alive can
  still queue requests that nobody processes (`http_shutdown`).
- `C_Timer.Defer()` never yields, so the scheduled resumption hits the coroutine in
  whatever it does next (`timers_defer`).
- Subscribing to an event from one of its handlers makes the publication in progress
  undefined (`event_bus_notify`).
- `crypto.toCompactBase64` reserves the length of the text, but `argon2_to_base64` also
  writes a terminator: if the buffer has exactly that capacity, the conversion fails and
  the error value is committed as a length (`base64_space`).

Observations made while modelling that need no model to be seen: `WriteResponse` reports
`SentAndEnded` for a response that stays pending; a second `StartListening` overwrites the
listen socket; `GetRequestHeader` passes its arguments in another order than the exports
table declares; a deferred callback waits for some other event to wake the loop;
`SetTransform` skips the fourth element of the matrix and reads one behind the last; the
pixels that `LoadTexture` decodes and the struct of `CompileGeometry` are never freed
(`rml_release_compiled_geometry` would free the latter, but events carry copies, not its
address); `labsound_context_listener_set_velocity` sets the position; `queue_pop_event` does
not check for a null queue; a zip reader of a string does not anchor it and leaves `loop`
and `fd` uninitialised; the error path of a stream returns its values in an order that
depends on how much was written; a hash that succeeds frees nothing; `stbi_encode_jpg` replaces a
quality out of range by 100 and `stbi_get_required_jpg_size` does not, so a negative quality
is counted as the lowest and encoded as the highest, and the file may not fit; the pixel
operations of `stbi` take every image to have four bytes per pixel; `iconv_try_close` leaves
its handle in the request, where it can be closed again when another descriptor has it; nodes
of an audio graph can be destroyed while they are connected, as the integration tests do; a
context of the user interface is never told the scale the window had when it was created, nor
what changed before the window was registered.

## Not modelled

Within the modelled components: getters, formatting, reports and logging; request IDs that
collide; JSON keys that contain a NUL, which `strcmp` may find equal; the values
that send methods return; errors raised by handlers inside a drain (they unwind it);
garbage collection other than of zip userdata; the durations of timers and the phases of
`uv_run` beyond timers and check; a `reset` of `etrace` that takes `AsyncFileReader`'s own
subscriptions away; a file that is truncated while it is read; `__tostring` functions that
change the tables being encoded; checksums and the one-shot functions of `lminiz`; the
HRTF database and the list of devices of `labsound`; the REPL and `DoFile`. External
libraries are modelled as far as the code uses them and marked so in `PROJECT.json`.

Whole components: the WebGPU header and table are declarations; curl, UUID, regex, LPEG
and zlib bindings keep no state; `C_WebView`, `bdd`, `vfs`, `oop`, `path` and
`C_FileSystem` are Lua libraries that a later step may add.

## Plan

1. **Done**: servers, timers, file reader, event bus; window events and user interface;
   the native bindings with state of their own.
2. **Done**: proofs of the safety properties of all of them, with both refinements.
3. `AsyncFileReader` composed with `etrace`, instead of with its subscriptions fixed.
4. `C_WebView`: a window that is polled after it was destroyed. `bdd` and `C_Runtime`:
   sections, hooks and errors in them. `oop` and `path`: pure algorithms against reference
   definitions. `vfs` and `C_CommandLine`: archive trailer and dispatch.
