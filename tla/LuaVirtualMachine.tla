------------------------- MODULE LuaVirtualMachine -------------------------
(***************************************************************************)
(* The Lua state of the runtime, its event loop, and main: how the process   *)
(* starts, runs a script and ends (src/Runtime/LuaVirtualMachine.cpp,        *)
(* SharedEventLoop.hpp and main.cpp).                                        *)
(*                                                                         *)
(* The methods of the class work on the values of the Lua stack; no method   *)
(* asks for room on it (lua_checkstack), and m_relativeStackOffset counts    *)
(* only some of them.  main calls the methods one after the other, pc is the *)
(* call it makes next.                                                       *)
(***************************************************************************)
EXTENDS Integers, Sequences, FiniteSets, SequencesExt

CONSTANTS
    MaxHandles,   \* bound on the handles a script leaves active
    LUA_MINSTACK  \* slots that a C function may use without asking, 20 in Lua

ASSUME HandlesAreCounted == MaxHandles \in Nat
ASSUME EnoughSlots == LUA_MINSTACK \in Nat /\ LUA_MINSTACK >= 14

(* What main passes to LoadPackage ... *)
Packages ==
    <<"uv", "lpeg", "miniz", "openssl", "regex", "json", "utf8", "zlib", "bindings">>

(* ... and then to BindStaticLibraryExports. *)
Exports ==
    <<"cpp", "crypto", "curl", "glfw", "iconv", "interop", "labsound", "webview", "uws",
      "rml", "runtime", "stbi", "stduuid", "wgpu">>

VARIABLES
    vm,       \* the LuaVirtualMachine
    loop,     \* the SharedEventLoop
    script,   \* external: what the script is doing, and its active handles
    pc, next, \* main: the call it makes next, and where it is in a list of calls
    exit      \* how the process ends

vmVars == <<vm, loop, script, pc, next, exit>>

VmTypeOK ==
    /\ vm \in [stack : Seq({"onLuaError", "package", "loaded", "chunk", "result", "error"}),
               peak : Nat, m_relativeStackOffset : Int,
               loaded : SUBSET Range(Packages), bindings : SUBSET Range(Exports),
               open : BOOLEAN]
    /\ loop \in [uv : BOOLEAN, luv : BOOLEAN, uws : BOOLEAN, curl : BOOLEAN]
    /\ script \in [state : {"unborn", "failed", "returned"},
                   handles : 0..MaxHandles, stop : BOOLEAN]
    /\ next \in 1..Len(Exports)
    /\ exit \in {"running", "returning", "success", "failure", "terminated", "byScript"}

-----------------------------------------------------------------------------
(* The class.  With(m, n) is a machine whose stack had n more values on it. *)

With(m, n) == [m EXCEPT !.peak = IF Len(m.stack) + n > @ THEN Len(m.stack) + n ELSE @]

Pushed(m, value) == With([m EXCEPT !.stack = Append(@, value)], 0)

Popped(m) == [m EXCEPT !.stack = Front(@)]

(* The error handler stays at the bottom of the stack. *)
NewVirtualMachine ==
    Pushed([stack |-> <<>>, peak |-> 0, m_relativeStackOffset |-> 0,
            loaded |-> {}, bindings |-> {}, open |-> TRUE], "onLuaError")

CheckStack(m) == m.m_relativeStackOffset = 0

(* Mutant of LoadPackage: package.loaded stays on the stack, too. *)
LoadPackage_twoValues(m, packageName) ==
    Pushed(Pushed([m EXCEPT !.loaded = @ \cup {packageName}], "package"), "loaded")

(* The table package.loaded is removed again, the table package is not. *)
LoadPackage(m, packageName) ==
    Pushed([With(m, 3) EXCEPT !.loaded = @ \cup {packageName}], "package")

SetGlobalArgs(m) == With(m, 2)

(* Nothing is bound, and nobody told, unless there is a package to bind to. *)
BindStaticLibraryExports(m, fieldName) ==
    IF "bindings" \in m.loaded
      THEN [With(m, 4) EXCEPT !.bindings = @ \cup {fieldName}] ELSE With(m, 3)

CreateGlobalNamespace(m) == With(m, 1)

CompileChunk(m, valid) ==
    IF valid THEN [Pushed(m, "chunk") EXCEPT !.m_relativeStackOffset = @ + 1]
    ELSE Pushed(m, "error")

(* Calling what CompileChunk left: a chunk, or an error message, which is no
   function.  One value takes its place; only a success is counted. *)
RunCompiledChunk(m, runs) ==
    IF Last(m.stack) = "chunk" /\ runs
      THEN [Pushed(Popped(m), "result") EXCEPT !.m_relativeStackOffset = @ - 1]
      ELSE Pushed(Popped(m), "error")

DoString(m, valid, runs) == RunCompiledChunk(CompileChunk(m, valid), runs)

DoStringSucceeds(m, valid, runs) ==
    LET after == DoString(m, valid, runs) IN Last(after.stack) = "result" /\ CheckStack(after)

-----------------------------------------------------------------------------
(* main *)

Goto(label) == pc' = label /\ next' = 1

(* The next call of a list of calls, and what follows the last one. *)
GotoNext(calls, label) ==
    IF next = Len(calls) THEN Goto(label) ELSE next' = next + 1 /\ UNCHANGED pc

Construct ==
    /\ pc = "construct"
    /\ vm' = NewVirtualMachine
    /\ Goto("args") /\ UNCHANGED <<loop, script, exit>>

SetArgs ==
    /\ pc = "args"
    /\ vm' = SetGlobalArgs(vm)
    /\ Goto("loop") /\ UNCHANGED <<loop, script, exit>>

(* The constructor throws if libuv or libcurl fail; main catches nothing. *)
NewSharedEventLoop ==
    /\ pc = "loop"
    /\ \E uv_loop_init, curl_global_init \in BOOLEAN :
         /\ curl_global_init => uv_loop_init
         /\ loop' = [uv |-> uv_loop_init, luv |-> uv_loop_init, uws |-> uv_loop_init,
                     curl |-> curl_global_init]
         /\ IF curl_global_init THEN Goto("packages") /\ UNCHANGED exit
            ELSE Goto("exited") /\ exit' = "terminated"
    /\ UNCHANGED <<vm, script>>

(* Mutant of LoadNextPackage: the last package is forgotten. *)
LoadNextPackage_tooFew ==
    /\ pc = "packages"
    /\ vm' = LoadPackage(vm, Packages[next])
    /\ GotoNext(Front(Packages), "exports") /\ UNCHANGED <<loop, script, exit>>

LoadNextPackage ==
    /\ pc = "packages"
    /\ vm' = LoadPackage(vm, Packages[next])
    /\ GotoNext(Packages, "exports") /\ UNCHANGED <<loop, script, exit>>

BindNextLibrary ==
    /\ pc = "exports"
    /\ vm' = BindStaticLibraryExports(vm, Exports[next])
    /\ GotoNext(Exports, "namespace") /\ UNCHANGED <<loop, script, exit>>

CreateNamespaces ==
    /\ pc = "namespace"
    /\ vm' = CreateGlobalNamespace(vm)
    /\ Goto("script") /\ UNCHANGED <<loop, script, exit>>

(* The entry point is a literal that compiles; it runs the script. *)
RunScript ==
    /\ pc = "script"
    /\ \E runs \in BOOLEAN, handles \in 0..MaxHandles :
         /\ vm' = DoString(vm, TRUE, runs)
         /\ script' = [state |-> IF runs THEN "returned" ELSE "failed",
                       handles |-> handles, stop |-> FALSE]
         /\ IF DoStringSucceeds(vm, TRUE, runs) THEN Goto("run") /\ UNCHANGED exit
            ELSE Goto("unwind") /\ exit' = "failure"
    /\ UNCHANGED loop

(* External: evo.run, or the script, calls os.exit and never returns. *)
ScriptExits ==
    /\ pc = "script"
    /\ exit' = "byScript"
    /\ Goto("exited") /\ UNCHANGED <<vm, loop, script>>

(* External: while the loop runs, handles are closed, or a callback stops it. *)
LoopTurn ==
    /\ pc = "run" /\ script.handles > 0 /\ ~script.stop
    /\ \/ script' = [script EXCEPT !.handles = @ - 1]
       \/ script' = [script EXCEPT !.stop = TRUE]
    /\ UNCHANGED <<vm, loop, pc, next, exit>>

(* uv_run returns; a loop that was stopped early has references left. *)
RunMainLoopUntilDone ==
    /\ pc = "run" /\ (script.handles = 0 \/ script.stop)
    /\ IF script.handles # 0 THEN Goto("exited") /\ exit' = "terminated"
       ELSE Goto("unwind") /\ exit' = "returning"
    /\ UNCHANGED <<vm, loop, script>>

(* Returning from main destroys the loop ... *)
DestroySharedEventLoop ==
    /\ pc = "unwind"
    /\ loop' = [loop EXCEPT !.luv = FALSE, !.uws = FALSE, !.curl = FALSE]
    /\ Goto("close") /\ UNCHANGED <<vm, script, exit>>

(* ... and then the Lua state, which runs the finalisers of what is left. *)
DestroyVirtualMachine ==
    /\ pc = "close"
    /\ vm' = [vm EXCEPT !.open = FALSE]
    /\ exit' = IF exit = "returning" THEN "success" ELSE exit
    /\ Goto("exited") /\ UNCHANGED <<loop, script>>

-----------------------------------------------------------------------------
VmInit ==
    /\ vm = [NewVirtualMachine EXCEPT !.stack = <<>>, !.peak = 0, !.open = FALSE]
    /\ loop = [uv |-> FALSE, luv |-> FALSE, uws |-> FALSE, curl |-> FALSE]
    /\ script = [state |-> "unborn", handles |-> 0, stop |-> FALSE]
    /\ pc = "construct" /\ next = 1 /\ exit = "running"

VmNext ==
    \/ Construct \/ SetArgs \/ NewSharedEventLoop \/ LoadNextPackage \/ BindNextLibrary
    \/ CreateNamespaces \/ RunScript \/ ScriptExits \/ LoopTurn \/ RunMainLoopUntilDone
    \/ DestroySharedEventLoop \/ DestroyVirtualMachine

VmSpec == VmInit /\ [][VmNext]_vmVars

-----------------------------------------------------------------------------
(* A script runs only with every package and every binding in place: no library
   was skipped because main had not created the package for the bindings. *)
ScriptSeesAllLibraries ==
    script.state # "unborn" => /\ vm.loaded = Range(Packages)
                               /\ vm.bindings = Range(Exports)

(* The values that LoadPackage leaves behind are not what CheckStack looks at:
   the stack never needs more than the slots every C function has, and between
   calls it holds the handler, one value per package, and the script's result. *)
StackNeverOverflows ==
    /\ vm.peak <= LUA_MINSTACK
    /\ vm.open => Len(vm.stack) = 1 + Cardinality(vm.loaded)
                                    + (IF script.state = "unborn" THEN 0 ELSE 1)
    /\ script.state # "failed" => CheckStack(vm)

(* The process reports success only if the script returned, the event loop has
   run until nothing was left to wait for, and everything was torn down. *)
SuccessMeansDone ==
    exit = "success" => /\ script = [state |-> "returned", handles |-> 0, stop |-> FALSE]
                        /\ ~vm.open /\ ~loop.luv

(* A run is complete at both ends: nothing is missing when the script starts and
   nothing is left when the process reports success. *)
RunsAreComplete == ScriptSeesAllLibraries /\ SuccessMeansDone
=============================================================================
