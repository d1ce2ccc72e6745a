--------------------------- MODULE AsyncFileReader ---------------------------
(***************************************************************************)
(* AsyncFileReader (AsyncFileReader.lua) loads files in chunks through the *)
(* asynchronous file system functions of libuv, and publishes an event per *)
(* step.  It listens to its own events: the handlers of                    *)
(* FILE_DESCRIPTOR_OPENED, FILE_STATUS_AVAILABLE, FILE_CONTENTS_AVAILABLE  *)
(* and FILE_REQUEST_FAILED start the next step.  Publishing is             *)
(* synchronous, so a libuv callback runs until it has started the next     *)
(* libuv request.  It is one action here, composed of one function per     *)
(* Lua function, each from the state of a request to its next state.       *)
(*                                                                         *)
(* The event log holds references to payload tables, and callbacks write   *)
(* to a table after it has been logged.  So payloads are modelled as       *)
(* references: heap holds the tables created for a request, payload is the *)
(* index of the one that the pending callback refers to.                   *)
(*                                                                         *)
(* libuv executes its requests on a thread pool: those of different files  *)
(* complete in any order, and the kernel may hand out a descriptor again   *)
(* once it is closed, which is before libuv calls back.                    *)
(***************************************************************************)
EXTENDS Integers, Sequences

CONSTANTS
    Requests,               \* calls of LoadFileContents
    Descriptors,            \* file descriptors the kernel may hand out
    NoDescriptor,
    Sizes,                  \* sizes that files may have
    CHUNK_SIZE_IN_BYTES

ASSUME DescriptorsAssumption == NoDescriptor \notin Descriptors
ASSUME SizesAssumption == Sizes \subseteq Nat /\ CHUNK_SIZE_IN_BYTES \in Nat \ {0}

VARIABLES
    request,    \* what the Lua code keeps for each request
    held        \* external: the descriptors the kernel has open for each

vars == <<request, held>>

(* A payload table: the position of the cursor, and the range of bytes in  *)
(* its chunk.  Fields that never change once set (the path, fileDescriptor *)
(* and stat) are kept with the request instead.                            *)
Table == [chunkIndex : Nat, cursorPosition : Nat, offset : Nat, length : Nat]
NewTable == [chunkIndex |-> 0, cursorPosition |-> 0, offset |-> 0, length |-> 0]

Init ==
    /\ request = [r \in Requests |->
                    [pending |-> {}, heap |-> <<NewTable>>, payload |-> 1,
                     fileDescriptor |-> NoDescriptor, size |-> 0,
                     startOffset |-> 0, numLeftoverBytes |-> 0, eventLog |-> <<>>]]
    /\ held = [r \in Requests |-> {}]

EventNames ==
    {"FILE_REQUEST_STARTED", "FILE_REQUEST_FAILED", "FILE_REQUEST_COMPLETED",
     "FILE_DESCRIPTOR_OPENED", "FILE_STATUS_AVAILABLE", "FILE_CHUNK_AVAILABLE",
     "FILE_CONTENTS_AVAILABLE", "FILE_DESCRIPTOR_CLOSED"}

Request ==
    [pending : SUBSET {"open", "fstat", "read", "close", "closed"},
     heap : Seq(Table), payload : Nat,
     fileDescriptor : Descriptors \cup {NoDescriptor}, size : Sizes \cup {0},
     startOffset : Nat, numLeftoverBytes : 0..CHUNK_SIZE_IN_BYTES,
     eventLog : Seq([name : EventNames, payload : Nat])]

TypeOK ==
    /\ request \in [Requests -> Request]
    /\ held \in [Requests -> SUBSET Descriptors]

-----------------------------------------------------------------------------
(* The Lua functions, from a request q to what it is afterwards.           *)

EVENT(q, name) ==
    [q EXCEPT !.eventLog = Append(@, [name |-> name, payload |-> q.payload])]

(* A libuv function is called; its callback will refer to q.payload. *)
uv_fs(q, function) == [q EXCEPT !.pending = @ \cup {function}]

(* Mutant of FILE_REQUEST_FAILED: the descriptor is not closed. *)
FILE_REQUEST_FAILED_leak(q) == EVENT(q, "FILE_REQUEST_FAILED")

FILE_REQUEST_FAILED(q) ==
    IF q.fileDescriptor = NoDescriptor
    THEN EVENT(q, "FILE_REQUEST_FAILED")
    ELSE uv_fs(EVENT(q, "FILE_REQUEST_FAILED"), "close")

FILE_CONTENTS_AVAILABLE(q) ==
    EVENT(uv_fs(EVENT(q, "FILE_CONTENTS_AVAILABLE"), "close"),
          "FILE_REQUEST_COMPLETED")

(* Mutant of scopy: the table is shared. *)
scopy_shared(q) == q

(* The payload is replaced by a copy. *)
scopy(q) ==
    [q EXCEPT !.heap = Append(@, q.heap[q.payload]), !.payload = Len(q.heap) + 1]

Smaller(m, n) == IF m < n THEN m ELSE n

ReadNextFileChunk(q) ==
    LET copy == scopy(q)
        startOffset == copy.heap[copy.payload].cursorPosition
        numLeftoverBytes == Smaller(CHUNK_SIZE_IN_BYTES, q.size - startOffset)
    IN  IF numLeftoverBytes <= 0
        THEN FILE_CONTENTS_AVAILABLE(copy)
        ELSE [uv_fs(copy, "read") EXCEPT
                !.startOffset = startOffset,
                !.numLeftoverBytes = numLeftoverBytes,
                !.heap[copy.payload].chunkIndex = @ + 1]

(* Mutant of FILE_STATUS_AVAILABLE: no return after the failure. *)
FILE_STATUS_AVAILABLE_noReturn(q, isDirectory) ==
    LET p == [EVENT(q, "FILE_STATUS_AVAILABLE") EXCEPT
                !.heap[q.payload] = [@ EXCEPT !.chunkIndex = 0, !.cursorPosition = 0]]
    IN  ReadNextFileChunk(IF isDirectory THEN FILE_REQUEST_FAILED(p) ELSE p)

FILE_STATUS_AVAILABLE(q, isDirectory) ==
    LET p == [EVENT(q, "FILE_STATUS_AVAILABLE") EXCEPT
                !.heap[q.payload] = [@ EXCEPT !.chunkIndex = 0, !.cursorPosition = 0]]
    IN  IF isDirectory THEN FILE_REQUEST_FAILED(p) ELSE ReadNextFileChunk(p)

(* Mutant of newOffset: the byte after a chunk is skipped. *)
newOffset_skip(q) == q.startOffset + q.numLeftoverBytes + 1

newOffset(q) == q.startOffset + q.numLeftoverBytes

(* A chunk of n bytes has been read; fewer bytes than were asked for do    *)
(* not matter to the code.                                                 *)
FILE_CHUNK_AVAILABLE(q, n) ==
    LET p == [EVENT(q, "FILE_CHUNK_AVAILABLE") EXCEPT
                !.heap[q.payload] = [@ EXCEPT !.offset = q.startOffset, !.length = n,
                                              !.cursorPosition = newOffset(q)]]
    IN  IF newOffset(q) < q.size THEN ReadNextFileChunk(p)
        ELSE FILE_CONTENTS_AVAILABLE(p)

-----------------------------------------------------------------------------
(* The steps of a request.                                                 *)

LoadFileContents(r) ==
    /\ request[r].eventLog = <<>>
    /\ request' = [request EXCEPT
                     ![r] = EVENT(uv_fs(request[r], "open"), "FILE_REQUEST_STARTED")]
    /\ UNCHANGED held

(* The request r once the callback of the given function has been called. *)
Completed(r, function) == [request[r] EXCEPT !.pending = @ \ {function}]

(* libuv reports an error. *)
OnError(r, function) ==
    /\ function \in request[r].pending
    /\ request' = [request EXCEPT ![r] = FILE_REQUEST_FAILED(Completed(r, function))]
    /\ UNCHANGED held

OnOpen(r, fd) ==
    /\ "open" \in request[r].pending
    /\ \A other \in Requests : fd \notin held[other]
    /\ held' = [held EXCEPT ![r] = held[r] \cup {fd}]
    /\ request' =
          [request EXCEPT ![r] =
             uv_fs(EVENT([Completed(r, "open") EXCEPT !.fileDescriptor = fd],
                         "FILE_DESCRIPTOR_OPENED"),
                   "fstat")]

OnStat(r, size, isDirectory) ==
    /\ "fstat" \in request[r].pending
    /\ request' =
          [request EXCEPT ![r] =
             FILE_STATUS_AVAILABLE([Completed(r, "fstat") EXCEPT !.size = size],
                                   isDirectory)]
    /\ UNCHANGED held

(* A read may come up short, for instance if the file has been truncated. *)
OnRead(r, n) ==
    /\ "read" \in request[r].pending
    /\ n \in 0..request[r].numLeftoverBytes
    /\ request' = [request EXCEPT ![r] = FILE_CHUNK_AVAILABLE(Completed(r, "read"), n)]
    /\ UNCHANGED held

(* External: the kernel closes the descriptor, whoever holds it. *)
Close(r) ==
    /\ "close" \in request[r].pending
    /\ held' = [other \in Requests |-> held[other] \ {request[r].fileDescriptor}]
    /\ request' = [request EXCEPT ![r] = uv_fs(Completed(r, "close"), "closed")]

OnClose(r) ==
    /\ "closed" \in request[r].pending
    /\ request' = [request EXCEPT
                     ![r] = EVENT(Completed(r, "closed"), "FILE_DESCRIPTOR_CLOSED")]
    /\ UNCHANGED held

OnCallback(r) ==
    \/ \E function \in {"open", "fstat", "read"} : OnError(r, function)
    \/ \E fd \in Descriptors : OnOpen(r, fd)
    \/ \E size \in Sizes, isDirectory \in BOOLEAN : OnStat(r, size, isDirectory)
    \/ \E n \in 0..CHUNK_SIZE_IN_BYTES : OnRead(r, n)
    \/ Close(r)
    \/ OnClose(r)

Next == \E r \in Requests : LoadFileContents(r) \/ OnCallback(r)

(* The thread pool executes every request, and the loop calls back. *)
Fairness == \A r \in Requests : WF_vars(OnCallback(r))

Spec == Init /\ [][Next]_vars
FairSpec == Spec /\ Fairness

-----------------------------------------------------------------------------
(* Properties.                                                             *)

(* A descriptor is only used by the request that holds it, however the     *)
(* kernel reuses descriptors: it is closed once, by its own request, and   *)
(* not before or while it is read.  A request that awaits nothing more     *)
(* holds none.                                                             *)
DescriptorsAreOwned ==
    \A r \in Requests :
        /\ \A f, g \in request[r].pending : f = g
        /\ held[r] = IF request[r].pending \cap {"fstat", "read", "close"} # {}
                     THEN {request[r].fileDescriptor} ELSE {}

(* The events that may follow each event of the same request. *)
Successors ==
    [name \in EventNames |->
        CASE name = "FILE_REQUEST_STARTED" ->
                {"FILE_DESCRIPTOR_OPENED", "FILE_REQUEST_FAILED"}
          [] name = "FILE_DESCRIPTOR_OPENED" ->
                {"FILE_STATUS_AVAILABLE", "FILE_REQUEST_FAILED"}
          [] name \in {"FILE_STATUS_AVAILABLE", "FILE_CHUNK_AVAILABLE"} ->
                {"FILE_CHUNK_AVAILABLE", "FILE_CONTENTS_AVAILABLE", "FILE_REQUEST_FAILED"}
          [] name = "FILE_CONTENTS_AVAILABLE" -> {"FILE_REQUEST_COMPLETED"}
          [] name \in {"FILE_REQUEST_COMPLETED", "FILE_REQUEST_FAILED"} ->
                {"FILE_DESCRIPTOR_CLOSED"}
          [] OTHER -> {}]

(* Whatever fails and whenever, the events of a request are published in   *)
(* a sensible order: one outcome, then the descriptor is closed.           *)
EventsInOrder ==
    \A r \in Requests :
        LET log == request[r].eventLog IN
        /\ log # <<>> => log[1].name = "FILE_REQUEST_STARTED"
        /\ \A i \in 1..(Len(log) - 1) : log[i + 1].name \in Successors[log[i].name]

(* The k-th chunk that was logged is and remains the k-th of the file, at  *)
(* its offset and with the cursor behind it, although later chunks write   *)
(* to their payload too.  (Three other events are logged before them.)     *)
LoggedChunksAreStable ==
    \A r \in Requests : \A i \in DOMAIN request[r].eventLog :
        LET entry == request[r].eventLog[i]
            chunk == request[r].heap[entry.payload]
            k == i - 3
        IN  entry.name = "FILE_CHUNK_AVAILABLE" =>
                /\ chunk.chunkIndex = k
                /\ chunk.offset = (k - 1) * CHUNK_SIZE_IN_BYTES
                /\ chunk.cursorPosition = Smaller(k * CHUNK_SIZE_IN_BYTES, request[r].size)

(* A completed request has asked for every byte: its chunks number what    *)
(* lastChunkIndex announced, ceil(size / CHUNK_SIZE_IN_BYTES), no matter   *)
(* where the size lies between two multiples of the chunk size.            *)
CompletedMeansRead ==
    \A r \in Requests : \A i \in DOMAIN request[r].eventLog :
        request[r].eventLog[i].name = "FILE_REQUEST_COMPLETED" =>
            LET chunks == i - 5 IN      \* all but the other four before it
            /\ chunks * CHUNK_SIZE_IN_BYTES >= request[r].size
            /\ chunks > 0 => (chunks - 1) * CHUNK_SIZE_IN_BYTES < request[r].size

(* Every request ends, and every descriptor is eventually closed. *)
RequestsEnd ==
    \A r \in Requests :
        request[r].eventLog # <<>> ~>
            /\ request[r].pending = {} /\ held[r] = {}
            /\ \E i \in DOMAIN request[r].eventLog :
                  request[r].eventLog[i].name
                    \in {"FILE_REQUEST_COMPLETED", "FILE_REQUEST_FAILED"}
=============================================================================
