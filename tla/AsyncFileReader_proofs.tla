----------------------- MODULE AsyncFileReader_proofs -----------------------
(***************************************************************************)
(* Proofs about AsyncFileReader, for any requests, descriptors, file sizes *)
(* and chunk size.                                                         *)
(***************************************************************************)
EXTENDS AsyncFileReader, SequenceTheorems, TLAPS

(* Boundaries of chunks. *)
LEMMA ChunkArithmetic ==
    ASSUME NEW k \in Int
    PROVE  /\ (k + 1) * CHUNK_SIZE_IN_BYTES = k * CHUNK_SIZE_IN_BYTES + CHUNK_SIZE_IN_BYTES
           /\ (k - 1) * CHUNK_SIZE_IN_BYTES = k * CHUNK_SIZE_IN_BYTES - CHUNK_SIZE_IN_BYTES
           /\ k * CHUNK_SIZE_IN_BYTES \in Int
           /\ k >= 0 => k * CHUNK_SIZE_IN_BYTES \in Nat
BY SizesAssumption

(* What may follow the events that are not the last of a request. *)
LEMMA SuccessorsOf ==
    /\ "FILE_DESCRIPTOR_OPENED" \in Successors["FILE_REQUEST_STARTED"]
    /\ "FILE_STATUS_AVAILABLE" \in Successors["FILE_DESCRIPTOR_OPENED"]
    /\ \A name \in {"FILE_STATUS_AVAILABLE", "FILE_CHUNK_AVAILABLE"} :
          {"FILE_CHUNK_AVAILABLE", "FILE_CONTENTS_AVAILABLE"} \subseteq Successors[name]
    /\ "FILE_REQUEST_COMPLETED" \in Successors["FILE_CONTENTS_AVAILABLE"]
    /\ \A name \in {"FILE_REQUEST_STARTED", "FILE_DESCRIPTOR_OPENED",
                    "FILE_STATUS_AVAILABLE", "FILE_CHUNK_AVAILABLE"} :
          "FILE_REQUEST_FAILED" \in Successors[name]
    /\ \A name \in {"FILE_REQUEST_COMPLETED", "FILE_REQUEST_FAILED"} :
          "FILE_DESCRIPTOR_CLOSED" \in Successors[name]
BY DEF Successors, EventNames

LEMMA SizeIsNatural ==
    ASSUME NEW q \in Request
    PROVE  q.size \in Nat
<1>1. q.size \in Sizes \cup {0}
  BY DEF Request
<1>2. Sizes \cup {0} \subseteq Nat
  BY SizesAssumption
<1> QED BY <1>1, <1>2

(* Writing to one of the tables. *)
LEMMA TableWritten ==
    ASSUME NEW heap \in Seq(Table), NEW j \in 1..Len(heap), NEW t \in Table
    PROVE  /\ [heap EXCEPT ![j] = t] \in Seq(Table)
           /\ Len([heap EXCEPT ![j] = t]) = Len(heap)
           /\ [heap EXCEPT ![j] = t][j] = t
           /\ \A i \in 1..Len(heap) : i # j => [heap EXCEPT ![j] = t][i] = heap[i]
OBVIOUS

-----------------------------------------------------------------------------
(* The invariant of one request q.                                         *)

InOrder(log) ==
    /\ log # <<>> => log[1].name = "FILE_REQUEST_STARTED"
    /\ \A i \in 1..(Len(log) - 1) : log[i + 1].name \in Successors[log[i].name]

(* What is logged of a chunk stays true: the table that the entry refers   *)
(* to is older than the one that callbacks write to.                       *)
ChunkLogged(q, i) ==
    /\ i >= 4
    /\ q.eventLog[i].payload = i - 2
    /\ i - 2 <= Len(q.heap)
    /\ q.heap[i - 2].chunkIndex = i - 3
    /\ q.heap[i - 2].offset = (i - 4) * CHUNK_SIZE_IN_BYTES
    /\ q.heap[i - 2].cursorPosition = Smaller((i - 3) * CHUNK_SIZE_IN_BYTES, q.size)

CompletionLogged(q, i) ==
    /\ i >= 5
    /\ (i - 5) * CHUNK_SIZE_IN_BYTES >= q.size
    /\ i > 5 => (i - 6) * CHUNK_SIZE_IN_BYTES < q.size

Entry(q, i) ==
    /\ q.eventLog[i].name = "FILE_CHUNK_AVAILABLE" => ChunkLogged(q, i)
    /\ q.eventLog[i].name = "FILE_REQUEST_COMPLETED" => CompletionLogged(q, i)

Entries(q) == \A i \in 1..Len(q.eventLog) : Entry(q, i)

(* What holds of a request at any point, also inside of a callback. *)
Base(q) ==
    /\ q \in Request
    /\ q.payload = Len(q.heap) /\ q.heap # <<>>
    /\ InOrder(q.eventLog)
    /\ Entries(q)

Last(q) == q.eventLog[Len(q.eventLog)].name

(* A read is pending: k chunks have been logged. *)
Reading(q) ==
    LET k == Len(q.eventLog) - 3 IN
    /\ k >= 0
    /\ Len(q.heap) = k + 2
    /\ q.heap[q.payload].chunkIndex = k + 1
    /\ q.startOffset = k * CHUNK_SIZE_IN_BYTES
    /\ k * CHUNK_SIZE_IN_BYTES < q.size
    /\ q.numLeftoverBytes = Smaller(CHUNK_SIZE_IN_BYTES, q.size - k * CHUNK_SIZE_IN_BYTES)

(* What the next callback relies on. *)
Phase(q) ==
    \/ /\ q.pending = {} /\ q.eventLog = <<>> /\ Len(q.heap) = 1
       /\ q.fileDescriptor = NoDescriptor
    \/ /\ q.pending = {"open"} /\ Len(q.eventLog) = 1 /\ Last(q) = "FILE_REQUEST_STARTED"
       /\ Len(q.heap) = 1 /\ q.fileDescriptor = NoDescriptor
    \/ /\ q.pending = {"fstat"} /\ Len(q.eventLog) = 2 /\ Last(q) = "FILE_DESCRIPTOR_OPENED"
       /\ Len(q.heap) = 1 /\ q.fileDescriptor \in Descriptors
    \/ /\ q.pending = {"read"} /\ Reading(q)
       /\ Last(q) \in {"FILE_STATUS_AVAILABLE", "FILE_CHUNK_AVAILABLE"}
       /\ q.fileDescriptor \in Descriptors
    \/ /\ q.pending \in {{"close"}, {"closed"}} /\ q.eventLog # <<>>
       /\ Last(q) \in {"FILE_REQUEST_COMPLETED", "FILE_REQUEST_FAILED"}
       /\ q.fileDescriptor \in Descriptors
    \/ /\ q.pending = {} /\ q.eventLog # <<>>
       /\ Last(q) \in {"FILE_REQUEST_FAILED", "FILE_DESCRIPTOR_CLOSED"}

-----------------------------------------------------------------------------
(* The functions of the model, on requests that satisfy the invariant.     *)

LEMMA EventFields ==
    ASSUME NEW q \in Request, NEW name \in EventNames
    PROVE  /\ EVENT(q, name) \in Request
           /\ EVENT(q, name).eventLog = Append(q.eventLog, [name |-> name, payload |-> q.payload])
           /\ Len(EVENT(q, name).eventLog) = Len(q.eventLog) + 1
           /\ \A i \in 1..Len(q.eventLog) : EVENT(q, name).eventLog[i] = q.eventLog[i]
           /\ EVENT(q, name).eventLog[Len(q.eventLog) + 1] = [name |-> name, payload |-> q.payload]
           /\ EVENT(q, name).pending = q.pending
           /\ EVENT(q, name).heap = q.heap
           /\ EVENT(q, name).payload = q.payload
           /\ EVENT(q, name).fileDescriptor = q.fileDescriptor
           /\ EVENT(q, name).size = q.size
           /\ EVENT(q, name).startOffset = q.startOffset
           /\ EVENT(q, name).numLeftoverBytes = q.numLeftoverBytes
<1> DEFINE e == [name |-> name, payload |-> q.payload]
<1>1. e \in [name : EventNames, payload : Nat] /\ q.eventLog \in Seq([name : EventNames, payload : Nat])
  BY DEF Request
<1>2. Append(q.eventLog, e) \in Seq([name : EventNames, payload : Nat])
  BY <1>1
<1>3. EVENT(q, name) = [q EXCEPT !.eventLog = Append(q.eventLog, e)]
  BY DEF EVENT
<1>4. EVENT(q, name).eventLog = Append(q.eventLog, e)
  BY <1>3 DEF Request
<1> HIDE DEF e
<1>5. EVENT(q, name) \in Request
  BY <1>2, <1>3 DEF Request
<1>6. /\ EVENT(q, name).pending = q.pending
      /\ EVENT(q, name).heap = q.heap
      /\ EVENT(q, name).payload = q.payload
      /\ EVENT(q, name).fileDescriptor = q.fileDescriptor
      /\ EVENT(q, name).size = q.size
      /\ EVENT(q, name).startOffset = q.startOffset
      /\ EVENT(q, name).numLeftoverBytes = q.numLeftoverBytes
  BY <1>3 DEF Request
<1>7. /\ Len(EVENT(q, name).eventLog) = Len(q.eventLog) + 1
      /\ \A i \in 1..Len(q.eventLog) : EVENT(q, name).eventLog[i] = q.eventLog[i]
      /\ EVENT(q, name).eventLog[Len(q.eventLog) + 1] = e
  BY <1>1, <1>4
<1> QED BY <1>4, <1>5, <1>6, <1>7 DEF e

LEMMA AppendInOrder ==
    ASSUME NEW S, NEW log \in Seq(S), InOrder(log), NEW e \in S,
           IF log = <<>> THEN e.name = "FILE_REQUEST_STARTED"
           ELSE e.name \in Successors[log[Len(log)].name]
    PROVE  InOrder(Append(log, e))
<1> DEFINE n == Len(log)
           new == Append(log, e)
<1>1. /\ n \in Nat /\ Len(new) = n + 1 /\ new[n + 1] = e
      /\ \A i \in 1..n : new[i] = log[i]
      /\ n = 0 <=> log = <<>>
  OBVIOUS
<1> HIDE DEF n, new
<1>2. new[1].name = "FILE_REQUEST_STARTED"
  BY <1>1 DEF InOrder
<1>3. ASSUME NEW i \in 1..(Len(new) - 1) PROVE new[i + 1].name \in Successors[new[i].name]
  <2>1. CASE i = n
    BY <1>1, <2>1 DEF n
  <2>2. CASE i # n
    <3>1. i \in 1..(n - 1) /\ i + 1 \in 1..n
      BY <1>1, <2>2
    <3> QED BY <1>1, <3>1 DEF InOrder, n
  <2> QED BY <2>1, <2>2
<1> QED BY <1>2, <1>3 DEF InOrder, new

(* An entry stays true while the table it refers to does. *)
LEMMA EntryKept ==
    ASSUME NEW q, NEW p, NEW i \in Int, Entry(q, i),
           p.eventLog[i] = q.eventLog[i], p.size = q.size,
           q.eventLog[i].name = "FILE_CHUNK_AVAILABLE" =>
              i - 2 <= Len(p.heap) /\ p.heap[i - 2] = q.heap[i - 2]
    PROVE  Entry(p, i)
BY Zenon DEF Entry, ChunkLogged, CompletionLogged

(* An event in order, of which nothing but the order is to be shown. *)
LEMMA EventKeepsBase ==
    ASSUME NEW q, Base(q), NEW name \in EventNames \ {"FILE_CHUNK_AVAILABLE"},
           IF q.eventLog = <<>> THEN name = "FILE_REQUEST_STARTED"
           ELSE name \in Successors[Last(q)],
           name = "FILE_REQUEST_COMPLETED" => CompletionLogged(q, Len(q.eventLog) + 1)
    PROVE  Base(EVENT(q, name)) /\ Last(EVENT(q, name)) = name
<1> DEFINE p == EVENT(q, name)
           n == Len(q.eventLog)
           e == [name |-> name, payload |-> q.payload]
<1>1. q \in Request /\ n \in Nat
  BY DEF Base, Request
<1>2. /\ p \in Request /\ p.eventLog = Append(q.eventLog, e) /\ Len(p.eventLog) = n + 1
      /\ \A i \in 1..n : p.eventLog[i] = q.eventLog[i]
      /\ p.eventLog[n + 1] = e
      /\ p.heap = q.heap /\ p.payload = q.payload /\ p.size = q.size
  BY <1>1, EventFields
<1>3. e.name = name /\ e \in [name : EventNames, payload : Nat]
  BY <1>1 DEF Request
<1>4. q.eventLog \in Seq([name : EventNames, payload : Nat])
  BY <1>1 DEF Request
<1> HIDE DEF p, e
<1>5. InOrder(p.eventLog)
  <2>1. InOrder(q.eventLog)
    BY DEF Base
  <2>2. IF q.eventLog = <<>> THEN e.name = "FILE_REQUEST_STARTED"
        ELSE e.name \in Successors[q.eventLog[Len(q.eventLog)].name]
    BY <1>3 DEF Last
  <2>3. InOrder(Append(q.eventLog, e))
    BY <1>3, <1>4, <2>1, <2>2, AppendInOrder
  <2> QED BY <1>2, <2>3
<1>6. ASSUME NEW i \in 1..Len(p.eventLog) PROVE Entry(p, i)
  <2>1. CASE i = n + 1
    <3>1. p.eventLog[i].name = name
      BY <1>2, <1>3, <2>1
    <3>2. name = "FILE_REQUEST_COMPLETED" => CompletionLogged(p, i)
      BY <1>2, <2>1 DEF CompletionLogged
    <3> QED BY <3>1, <3>2 DEF Entry
  <2>2. CASE i # n + 1
    <3>1. i \in 1..n
      BY <1>1, <1>2, <2>2
    <3>2. Entry(q, i)
      BY <3>1 DEF Base, Entries
    <3>3. q.eventLog[i].name = "FILE_CHUNK_AVAILABLE" => i - 2 <= Len(q.heap)
      BY <3>2 DEF Entry, ChunkLogged
    <3> QED BY <1>2, <3>1, <3>2, <3>3, EntryKept
  <2> QED BY <2>1, <2>2
<1> QED BY <1>2, <1>3, <1>5, <1>6 DEF Base, Entries, Last, p

(* A step of libuv is started or has ended. *)
LEMMA PendingFields ==
    ASSUME NEW q, Base(q), NEW S \in SUBSET {"open", "fstat", "read", "close", "closed"}
    PROVE  /\ Base([q EXCEPT !.pending = S])
           /\ [q EXCEPT !.pending = S].pending = S
           /\ [q EXCEPT !.pending = S].eventLog = q.eventLog
           /\ [q EXCEPT !.pending = S].heap = q.heap
           /\ [q EXCEPT !.pending = S].payload = q.payload
           /\ [q EXCEPT !.pending = S].fileDescriptor = q.fileDescriptor
           /\ [q EXCEPT !.pending = S].size = q.size
           /\ [q EXCEPT !.pending = S].startOffset = q.startOffset
           /\ [q EXCEPT !.pending = S].numLeftoverBytes = q.numLeftoverBytes
<1> DEFINE p == [q EXCEPT !.pending = S]
<1>1. q \in Request
  BY DEF Base
<1>2. /\ p \in Request /\ p.pending = S /\ p.eventLog = q.eventLog /\ p.heap = q.heap
      /\ p.payload = q.payload /\ p.fileDescriptor = q.fileDescriptor /\ p.size = q.size
      /\ p.startOffset = q.startOffset /\ p.numLeftoverBytes = q.numLeftoverBytes
  BY <1>1 DEF Request
<1> HIDE DEF p
<1>3. \A i \in 1..Len(p.eventLog) : Entry(p, i)
  BY <1>2 DEF Base, Entries, Entry, ChunkLogged, CompletionLogged
<1>4. Base(p)
  BY <1>2, <1>3 DEF Base, Entries
<1> QED BY <1>2, <1>4 DEF p

LEMMA UvFields ==
    ASSUME NEW q, Base(q), q.pending = {},
           NEW f \in {"open", "fstat", "read", "close", "closed"}
    PROVE  /\ Base(uv_fs(q, f))
           /\ uv_fs(q, f).pending = {f}
           /\ uv_fs(q, f).eventLog = q.eventLog
           /\ uv_fs(q, f).heap = q.heap
           /\ uv_fs(q, f).payload = q.payload
           /\ uv_fs(q, f).fileDescriptor = q.fileDescriptor
           /\ uv_fs(q, f).size = q.size
           /\ uv_fs(q, f).startOffset = q.startOffset
           /\ uv_fs(q, f).numLeftoverBytes = q.numLeftoverBytes
<1>1. uv_fs(q, f) = [q EXCEPT !.pending = {f}]
  BY DEF uv_fs
<1>2. {f} \in SUBSET {"open", "fstat", "read", "close", "closed"}
  OBVIOUS
<1> QED BY <1>1, <1>2, PendingFields

(* The handler of FILE_REQUEST_FAILED closes the descriptor, if any. *)
LEMMA FailedKeeps ==
    ASSUME NEW q, Base(q), q.pending = {}, q.eventLog # <<>>,
           "FILE_REQUEST_FAILED" \in Successors[Last(q)]
    PROVE  /\ Base(FILE_REQUEST_FAILED(q)) /\ Phase(FILE_REQUEST_FAILED(q))
           /\ FILE_REQUEST_FAILED(q).fileDescriptor = q.fileDescriptor
           /\ FILE_REQUEST_FAILED(q).pending =
                 IF q.fileDescriptor = NoDescriptor THEN {} ELSE {"close"}
<1> DEFINE e == EVENT(q, "FILE_REQUEST_FAILED")
           p == uv_fs(e, "close")
<1>1. "FILE_REQUEST_FAILED" \in EventNames \ {"FILE_CHUNK_AVAILABLE"}
  BY DEF EventNames
<1>2. Base(e) /\ Last(e) = "FILE_REQUEST_FAILED"
  BY <1>1, EventKeepsBase
<1>3. e.pending = {} /\ e.fileDescriptor = q.fileDescriptor /\ Len(e.eventLog) = Len(q.eventLog) + 1
  BY <1>1, EventFields DEF Base
<1>4. e.eventLog # <<>> /\ q.fileDescriptor \in Descriptors \cup {NoDescriptor}
  BY <1>3 DEF Base, Request
<1> HIDE DEF e
<1>6. /\ Base(p) /\ p.pending = {"close"} /\ p.fileDescriptor = q.fileDescriptor
      /\ p.eventLog = e.eventLog
  BY <1>2, <1>3, UvFields
<1> HIDE DEF p
<1>7. CASE q.fileDescriptor = NoDescriptor
  <2>1. FILE_REQUEST_FAILED(q) = e
    BY <1>7 DEF FILE_REQUEST_FAILED, e
  <2> QED BY <1>2, <1>3, <1>4, <1>7, <2>1 DEF Phase
<1>8. CASE q.fileDescriptor # NoDescriptor
  <2>1. FILE_REQUEST_FAILED(q) = p
    BY <1>8 DEF FILE_REQUEST_FAILED, p, e
  <2>2. Last(p) = "FILE_REQUEST_FAILED" /\ p.eventLog # <<>>
    BY <1>2, <1>4, <1>6 DEF Last
  <2> QED BY <1>4, <1>6, <1>8, <2>1, <2>2 DEF Phase
<1> QED BY <1>7, <1>8

(* The handler of FILE_CONTENTS_AVAILABLE, after k chunks. *)
LEMMA ContentsKeeps ==
    ASSUME NEW q, Base(q), q.pending = {}, q.fileDescriptor \in Descriptors,
           NEW k \in Nat, Len(q.eventLog) = k + 3,
           Last(q) \in {"FILE_STATUS_AVAILABLE", "FILE_CHUNK_AVAILABLE"},
           k * CHUNK_SIZE_IN_BYTES >= q.size,
           k > 0 => (k - 1) * CHUNK_SIZE_IN_BYTES < q.size
    PROVE  /\ Base(FILE_CONTENTS_AVAILABLE(q)) /\ Phase(FILE_CONTENTS_AVAILABLE(q))
           /\ FILE_CONTENTS_AVAILABLE(q).fileDescriptor = q.fileDescriptor
           /\ FILE_CONTENTS_AVAILABLE(q).pending = {"close"}
<1> DEFINE e == EVENT(q, "FILE_CONTENTS_AVAILABLE")
           p == uv_fs(e, "close")
           c == EVENT(p, "FILE_REQUEST_COMPLETED")
<1>1. {"FILE_CONTENTS_AVAILABLE", "FILE_REQUEST_COMPLETED"}
         \subseteq EventNames \ {"FILE_CHUNK_AVAILABLE"}
  BY DEF EventNames
<1>2. q.eventLog # <<>> /\ q \in Request
  BY DEF Base, Request
<1>3. Base(e) /\ Last(e) = "FILE_CONTENTS_AVAILABLE"
  BY <1>1, <1>2, EventKeepsBase, SuccessorsOf
<1>4. /\ e.pending = {} /\ e.fileDescriptor = q.fileDescriptor
      /\ Len(e.eventLog) = k + 4 /\ e.size = q.size
  <2>1. "FILE_CONTENTS_AVAILABLE" \in EventNames
    BY <1>1
  <2>2. Len(e.eventLog) = Len(q.eventLog) + 1
    BY <1>2, <2>1, EventFields
  <2>3. e.pending = {} /\ e.fileDescriptor = q.fileDescriptor /\ e.size = q.size
    BY <1>2, <2>1, EventFields
  <2> HIDE DEF e
  <2> QED BY <2>2, <2>3
<1> HIDE DEF e
<1>6. /\ Base(p) /\ p.pending = {"close"} /\ p.fileDescriptor = q.fileDescriptor
      /\ p.eventLog = e.eventLog /\ p.size = q.size
  BY <1>3, <1>4, UvFields
<1> HIDE DEF p
<1>7. Last(p) = "FILE_CONTENTS_AVAILABLE" /\ p.eventLog # <<>>
  BY <1>3, <1>4, <1>6 DEF Last
<1>8. CompletionLogged(p, Len(p.eventLog) + 1)
  <2>1. Len(p.eventLog) + 1 = k + 5
    BY <1>4, <1>6
  <2>2. (k + 5) - 5 = k /\ (k + 5) - 6 = k - 1 /\ (k + 5 > 5 => k > 0)
    OBVIOUS
  <2> QED BY <1>6, <2>1, <2>2 DEF CompletionLogged
<1>9. Base(c) /\ Last(c) = "FILE_REQUEST_COMPLETED"
  BY <1>1, <1>6, <1>7, <1>8, EventKeepsBase, SuccessorsOf
<1>10. c.pending = {"close"} /\ c.fileDescriptor = q.fileDescriptor /\ Len(c.eventLog) = Len(p.eventLog) + 1
  BY <1>1, <1>6, EventFields DEF Base
<1>11. c.eventLog # <<>>
  BY <1>4, <1>6, <1>10
<1>12. FILE_CONTENTS_AVAILABLE(q) = c
  BY DEF FILE_CONTENTS_AVAILABLE, c, p, e
<1> HIDE DEF c
<1> QED BY <1>9, <1>10, <1>11, <1>12 DEF Phase

(* The copy of the payload is the table that later callbacks write to. *)
LEMMA CopyFields ==
    ASSUME NEW q, Base(q)
    PROVE  /\ Base(scopy(q))
           /\ scopy(q).heap \in Seq(Table)
           /\ Len(scopy(q).heap) = Len(q.heap) + 1
           /\ scopy(q).heap[Len(q.heap) + 1] = q.heap[q.payload]
           /\ scopy(q).payload = Len(q.heap) + 1
           /\ scopy(q).pending = q.pending
           /\ scopy(q).eventLog = q.eventLog
           /\ scopy(q).fileDescriptor = q.fileDescriptor
           /\ scopy(q).size = q.size
<1> DEFINE p == scopy(q)
           n == Len(q.heap)
<1>1. q \in Request /\ q.heap \in Seq(Table) /\ n \in Nat \ {0} /\ q.payload = n
  BY DEF Base, Request
<1>2. q.heap[q.payload] \in Table
  BY <1>1
<1>3. p = [q EXCEPT !.heap = Append(q.heap, q.heap[q.payload]), !.payload = n + 1]
  BY DEF scopy
<1>4. p.heap = Append(q.heap, q.heap[q.payload]) /\ p.payload = n + 1
  BY <1>1, <1>3 DEF Request
<1>5. /\ p.pending = q.pending /\ p.eventLog = q.eventLog /\ p.size = q.size
      /\ p.fileDescriptor = q.fileDescriptor
  BY <1>1, <1>3 DEF Request
<1>6. /\ p.heap \in Seq(Table) /\ Len(p.heap) = n + 1 /\ p.heap[n + 1] = q.heap[q.payload]
      /\ \A i \in 1..n : p.heap[i] = q.heap[i]
  BY <1>1, <1>2, <1>4
<1>7. p \in Request
  <2>1. Append(q.heap, q.heap[q.payload]) \in Seq(Table) /\ n + 1 \in Nat
    BY <1>1, <1>2
  <2> QED BY <1>1, <1>3, <2>1 DEF Request
<1> HIDE DEF p
<1>8. ASSUME NEW i \in 1..Len(p.eventLog) PROVE Entry(p, i)
  <2>1. Entry(q, i)
    BY <1>5 DEF Base, Entries
  <2>2. q.eventLog[i].name = "FILE_CHUNK_AVAILABLE" => i - 2 \in 1..n
    BY <1>1, <2>1 DEF Entry, ChunkLogged
  <2>3. q.eventLog[i].name = "FILE_CHUNK_AVAILABLE" =>
           i - 2 <= Len(p.heap) /\ p.heap[i - 2] = q.heap[i - 2]
    BY <1>1, <1>6, <2>2
  <2> QED BY <1>5, <2>1, <2>3, EntryKept
<1>9. p.heap # <<>>
  BY <1>1, <1>6
<1>10. Base(p)
  BY <1>4, <1>5, <1>6, <1>7, <1>8, <1>9 DEF Base, Entries
<1> QED BY <1>4, <1>5, <1>6, <1>10 DEF p

(* A table other than the ones that entries refer to may be written. *)
LEMMA WriteKeepsBase ==
    ASSUME NEW q, Base(q), NEW p \in Request,
           NEW t \in Table, p.heap = [q.heap EXCEPT ![q.payload] = t],
           p.payload = q.payload, p.eventLog = q.eventLog, p.size = q.size,
           \A i \in 1..Len(q.eventLog) :
              q.eventLog[i].name = "FILE_CHUNK_AVAILABLE" => i - 2 < q.payload
    PROVE  Base(p) /\ Len(p.heap) = Len(q.heap) /\ p.heap[p.payload] = t
<1> DEFINE n == Len(q.heap)
<1>1. q.heap \in Seq(Table) /\ n \in Nat \ {0} /\ q.payload = n
  BY DEF Base, Request
<1>2. /\ Len(p.heap) = n /\ p.heap[n] = t
      /\ \A i \in 1..n : i # n => p.heap[i] = q.heap[i]
  BY <1>1
<1>3. ASSUME NEW i \in 1..Len(p.eventLog) PROVE Entry(p, i)
  <2>1. Entry(q, i)
    BY DEF Base, Entries
  <2>2. q.eventLog[i].name = "FILE_CHUNK_AVAILABLE" => i - 2 \in 1..n /\ i - 2 # n
    BY <1>1, <2>1 DEF Entry, ChunkLogged
  <2>3. q.eventLog[i].name = "FILE_CHUNK_AVAILABLE" =>
           i - 2 <= Len(p.heap) /\ p.heap[i - 2] = q.heap[i - 2]
    BY <1>1, <1>2, <2>2
  <2>4. p.eventLog[i] = q.eventLog[i] /\ i \in Int
    OBVIOUS
  <2> QED BY <2>1, <2>3, <2>4, EntryKept
<1>4. p.heap # <<>>
  BY <1>1, <1>2
<1> QED BY <1>1, <1>2, <1>3, <1>4 DEF Base, Entries

(* ReadNextFileChunk, after k chunks. *)
LEMMA ReadNextKeeps ==
    ASSUME NEW q, Base(q), q.pending = {}, q.fileDescriptor \in Descriptors,
           NEW k \in Nat, Len(q.eventLog) = k + 3, Len(q.heap) = k + 1,
           Last(q) \in {"FILE_STATUS_AVAILABLE", "FILE_CHUNK_AVAILABLE"},
           q.heap[q.payload].chunkIndex = k,
           q.heap[q.payload].cursorPosition = Smaller(k * CHUNK_SIZE_IN_BYTES, q.size),
           k > 0 => (k - 1) * CHUNK_SIZE_IN_BYTES < q.size
    PROVE  /\ Base(ReadNextFileChunk(q)) /\ Phase(ReadNextFileChunk(q))
           /\ ReadNextFileChunk(q).fileDescriptor = q.fileDescriptor
           /\ ReadNextFileChunk(q).pending \in {{"read"}, {"close"}}
<1> DEFINE copy == scopy(q)
           startOffset == copy.heap[copy.payload].cursorPosition
           numLeftoverBytes == Smaller(CHUNK_SIZE_IN_BYTES, q.size - startOffset)
           base == k * CHUNK_SIZE_IN_BYTES
<1>1. /\ Base(copy) /\ copy.heap \in Seq(Table) /\ Len(copy.heap) = k + 2
      /\ copy.payload = k + 2 /\ copy.heap[k + 2] = q.heap[q.payload]
      /\ copy.pending = {} /\ copy.eventLog = q.eventLog
      /\ copy.fileDescriptor = q.fileDescriptor /\ copy.size = q.size
  <2>1. Len(q.heap) + 1 = k + 2
    OBVIOUS
  <2>2. /\ Len(scopy(q).heap) = k + 2
        /\ scopy(q).heap[k + 2] = q.heap[q.payload]
        /\ scopy(q).payload = k + 2
    BY <2>1, CopyFields
  <2> QED BY <2>2, CopyFields
<1>2. q.size \in Nat /\ base \in Nat /\ CHUNK_SIZE_IN_BYTES \in Nat \ {0}
  <2>1. q.size \in Nat
    BY SizeIsNatural DEF Base
  <2>2. base \in Nat
    BY ChunkArithmetic
  <2> QED BY SizesAssumption, <2>1, <2>2
<1>3. startOffset = Smaller(base, q.size)
  BY <1>1
<1> HIDE DEF copy, base
<1>4. CASE numLeftoverBytes <= 0
  <2>1. ReadNextFileChunk(q) = FILE_CONTENTS_AVAILABLE(copy)
    BY <1>4 DEF ReadNextFileChunk, copy
  <2>2. base >= copy.size
    BY <1>1, <1>2, <1>3, <1>4 DEF Smaller
  <2>3. Last(copy) \in {"FILE_STATUS_AVAILABLE", "FILE_CHUNK_AVAILABLE"}
    BY <1>1 DEF Last
  <2>4. k * CHUNK_SIZE_IN_BYTES >= copy.size
    BY <2>2 DEF base
  <2> QED BY <1>1, <2>1, <2>3, <2>4, ContentsKeeps
<1>5. CASE ~(numLeftoverBytes <= 0)
  <2> DEFINE u == uv_fs(copy, "read")
             t == [q.heap[q.payload] EXCEPT !.chunkIndex = k + 1]
             p == [u EXCEPT !.startOffset = startOffset, !.numLeftoverBytes = numLeftoverBytes,
                            !.heap[copy.payload].chunkIndex = @ + 1]
  <2>1. ReadNextFileChunk(q) = p
    BY <1>5 DEF ReadNextFileChunk, copy
  <2>2. startOffset = base /\ base < q.size
    BY <1>2, <1>3, <1>5 DEF Smaller
  <2>3. numLeftoverBytes \in 0..CHUNK_SIZE_IN_BYTES
    BY <1>2, <1>5, <2>2 DEF Smaller
  <2>4. /\ Base(u) /\ u.pending = {"read"} /\ u.eventLog = q.eventLog
        /\ u.heap = copy.heap /\ u.payload = k + 2
        /\ u.fileDescriptor = q.fileDescriptor /\ u.size = q.size
    BY <1>1, UvFields
  <2>5. u \in Request /\ q.heap[q.payload] \in Table
    BY <1>1, <2>4 DEF Base
  <2>6. t \in Table /\ t.chunkIndex = k + 1
    BY <2>5 DEF Table
  <2> HIDE DEF u, numLeftoverBytes, startOffset
  <2>7. p = [u EXCEPT !.startOffset = base, !.numLeftoverBytes = numLeftoverBytes,
                      !.heap = [u.heap EXCEPT ![k + 2] = t]]
    BY <1>1, <2>2, <2>4, <2>5 DEF Request
  <2> HIDE DEF p, t
  <2>8. [u.heap EXCEPT ![k + 2] = t] \in Seq(Table)
    BY <1>1, <2>4, <2>6
  <2>9. p \in Request
    BY <1>2, <2>3, <2>5, <2>7, <2>8 DEF Request
  <2>10. /\ p.heap = [u.heap EXCEPT ![u.payload] = t]
         /\ p.startOffset = base /\ p.numLeftoverBytes = numLeftoverBytes
    BY <2>4, <2>5, <2>7 DEF Request
  <2>11. /\ p.payload = u.payload /\ p.eventLog = u.eventLog /\ p.size = u.size
         /\ p.pending = {"read"} /\ p.fileDescriptor = q.fileDescriptor
    BY <2>4, <2>5, <2>7 DEF Request
  <2>12. \A i \in 1..Len(u.eventLog) : i - 2 < u.payload
    BY <2>4
  <2>13. Base(p) /\ Len(p.heap) = k + 2 /\ p.heap[p.payload] = t
    BY <1>1, <2>4, <2>6, <2>9, <2>10, <2>11, <2>12, WriteKeepsBase
  <2>14. numLeftoverBytes = Smaller(CHUNK_SIZE_IN_BYTES, q.size - base)
    BY <2>2 DEF numLeftoverBytes
  <2>15. Len(p.eventLog) - 3 = k
    BY <2>4, <2>11
  <2>16. Reading(p)
    BY <2>2, <2>4, <2>6, <2>10, <2>11, <2>13, <2>14, <2>15 DEF Reading, base
  <2>17. Last(p) = Last(q)
    BY <2>4, <2>11 DEF Last
  <2> QED BY <2>1, <2>11, <2>13, <2>16, <2>17 DEF Phase
<1> QED BY <1>4, <1>5

(* The handler of FILE_STATUS_AVAILABLE; the size is known by now. *)
LEMMA StatusKeeps ==
    ASSUME NEW q, Base(q), q.pending = {}, q.fileDescriptor \in Descriptors,
           Len(q.eventLog) = 2, Last(q) = "FILE_DESCRIPTOR_OPENED", Len(q.heap) = 1,
           NEW isDirectory \in BOOLEAN
    PROVE  /\ Base(FILE_STATUS_AVAILABLE(q, isDirectory))
           /\ Phase(FILE_STATUS_AVAILABLE(q, isDirectory))
           /\ FILE_STATUS_AVAILABLE(q, isDirectory).fileDescriptor = q.fileDescriptor
           /\ FILE_STATUS_AVAILABLE(q, isDirectory).pending \in {{"read"}, {"close"}}
<1> DEFINE e == EVENT(q, "FILE_STATUS_AVAILABLE")
           t == [q.heap[1] EXCEPT !.chunkIndex = 0, !.cursorPosition = 0]
           p == [e EXCEPT !.heap[q.payload] =
                             [@ EXCEPT !.chunkIndex = 0, !.cursorPosition = 0]]
<1>1. "FILE_STATUS_AVAILABLE" \in EventNames \ {"FILE_CHUNK_AVAILABLE", "FILE_REQUEST_COMPLETED"}
  BY DEF EventNames
<1>2. q \in Request /\ q.payload = 1 /\ q.eventLog # <<>> /\ q.heap \in Seq(Table)
  BY DEF Base, Request
<1>3. Base(e) /\ Last(e) = "FILE_STATUS_AVAILABLE"
  BY <1>1, <1>2, EventKeepsBase, SuccessorsOf
<1>4. /\ e \in Request /\ e.pending = {} /\ e.fileDescriptor = q.fileDescriptor
      /\ e.heap = q.heap /\ e.payload = 1 /\ e.size = q.size
  BY <1>1, <1>2, EventFields
<1>5. Len(e.eventLog) = 3
  <2>1. Len(e.eventLog) = Len(q.eventLog) + 1
    BY <1>1, <1>2, EventFields
  <2> QED BY <2>1
<1>6. q.heap[1] \in Table
  BY <1>2
<1>7. t \in Table /\ t.chunkIndex = 0 /\ t.cursorPosition = 0
  BY <1>6 DEF Table
<1> HIDE DEF e
<1>8. p = [e EXCEPT !.heap = [e.heap EXCEPT ![1] = t]]
  BY <1>2, <1>4 DEF Request
<1> HIDE DEF p, t
<1>9. [e.heap EXCEPT ![1] = t] \in Seq(Table)
  <2>1. e.heap \in Seq(Table) /\ Len(e.heap) = 1
    BY <1>2, <1>4
  <2>2. 1 \in 1..Len(e.heap)
    BY <2>1
  <2> QED BY <1>7, <2>1, <2>2, TableWritten
<1>10. p \in Request
  BY <1>4, <1>8, <1>9 DEF Request
<1>11. /\ p.heap = [e.heap EXCEPT ![e.payload] = t] /\ p.payload = e.payload
       /\ p.eventLog = e.eventLog /\ p.size = e.size
       /\ p.pending = {} /\ p.fileDescriptor = q.fileDescriptor
  BY <1>4, <1>8 DEF Request
<1>12. ASSUME NEW i \in 1..Len(e.eventLog), e.eventLog[i].name = "FILE_CHUNK_AVAILABLE"
       PROVE  i - 2 < e.payload
  <2>1. Entry(e, i)
    BY <1>3 DEF Base, Entries
  <2>2. i >= 4
    BY <1>12, <2>1 DEF Entry, ChunkLogged
  <2> QED BY <1>5, <2>2
<1>13. Base(p) /\ Len(p.heap) = 1 /\ p.heap[p.payload] = t
  BY <1>3, <1>4, <1>7, <1>10, <1>11, <1>12, WriteKeepsBase
<1>14. Last(p) = "FILE_STATUS_AVAILABLE" /\ Len(p.eventLog) = 3 /\ p.eventLog # <<>>
  BY <1>3, <1>5, <1>11 DEF Last
<1>15. CASE isDirectory
  <2>1. FILE_STATUS_AVAILABLE(q, isDirectory) = FILE_REQUEST_FAILED(p)
    BY <1>15 DEF FILE_STATUS_AVAILABLE, p, e
  <2>2. p.fileDescriptor # NoDescriptor
    BY <1>11, DescriptorsAssumption
  <2> QED BY <1>11, <1>13, <1>14, <2>1, <2>2, FailedKeeps, SuccessorsOf
<1>16. CASE ~isDirectory
  <2>1. FILE_STATUS_AVAILABLE(q, isDirectory) = ReadNextFileChunk(p)
    BY <1>16 DEF FILE_STATUS_AVAILABLE, p, e
  <2>2. p.heap[p.payload].cursorPosition = Smaller(0 * CHUNK_SIZE_IN_BYTES, p.size)
    <3>1. 0 * CHUNK_SIZE_IN_BYTES = 0
      BY SizesAssumption
    <3>2. p.size \in Nat
      BY <1>10, SizeIsNatural
    <3> QED BY <1>7, <1>13, <3>1, <3>2 DEF Smaller
  <2> DEFINE k == 0
  <2>3. /\ k \in Nat /\ Len(p.eventLog) = k + 3 /\ Len(p.heap) = k + 1
        /\ p.heap[p.payload].chunkIndex = k /\ ~(k > 0)
    BY <1>7, <1>13, <1>14
  <2>4. p.heap[p.payload].cursorPosition = Smaller(k * CHUNK_SIZE_IN_BYTES, p.size)
    BY <2>2
  <2>5. p.fileDescriptor \in Descriptors /\ p.pending = {}
    BY <1>11
  <2> HIDE DEF k
  <2>6. /\ Base(p)
        /\ k > 0 => (k - 1) * CHUNK_SIZE_IN_BYTES < p.size
        /\ Last(p) \in {"FILE_STATUS_AVAILABLE", "FILE_CHUNK_AVAILABLE"}
    BY <1>13, <1>14, <2>3
  <2>7. /\ Base(ReadNextFileChunk(p)) /\ Phase(ReadNextFileChunk(p))
        /\ ReadNextFileChunk(p).fileDescriptor = p.fileDescriptor
        /\ ReadNextFileChunk(p).pending \in {{"read"}, {"close"}}
    BY <2>3, <2>4, <2>5, <2>6, ReadNextKeeps, Zenon
  <2> QED BY <1>11, <2>1, <2>7
<1> QED BY <1>15, <1>16

(* The handler of FILE_CHUNK_AVAILABLE, for the chunk after the first k. *)
LEMMA ChunkKeeps ==
    ASSUME NEW q, Base(q), q.pending = {}, q.fileDescriptor \in Descriptors,
           Reading(q), Last(q) \in {"FILE_STATUS_AVAILABLE", "FILE_CHUNK_AVAILABLE"},
           NEW n \in Nat
    PROVE  /\ Base(FILE_CHUNK_AVAILABLE(q, n)) /\ Phase(FILE_CHUNK_AVAILABLE(q, n))
           /\ FILE_CHUNK_AVAILABLE(q, n).fileDescriptor = q.fileDescriptor
           /\ FILE_CHUNK_AVAILABLE(q, n).pending \in {{"read"}, {"close"}}
<1> DEFINE k == Len(q.eventLog) - 3
           base == k * CHUNK_SIZE_IN_BYTES
           next == (k + 1) * CHUNK_SIZE_IN_BYTES
           e == EVENT(q, "FILE_CHUNK_AVAILABLE")
           t == [q.heap[k + 2] EXCEPT !.offset = q.startOffset, !.length = n,
                                      !.cursorPosition = newOffset(q)]
           p == [e EXCEPT !.heap[q.payload] =
                             [@ EXCEPT !.offset = q.startOffset, !.length = n,
                                       !.cursorPosition = newOffset(q)]]
<1>1. "FILE_CHUNK_AVAILABLE" \in EventNames
  BY DEF EventNames
<1>2. /\ q \in Request /\ k \in Nat /\ Len(q.eventLog) = k + 3
      /\ Len(q.heap) = k + 2 /\ q.payload = k + 2 /\ q.heap \in Seq(Table)
      /\ q.eventLog \in Seq([name : EventNames, payload : Nat])
  BY DEF Base, Request, Reading
<1>3. /\ q.startOffset = base /\ base < q.size /\ q.heap[k + 2].chunkIndex = k + 1
      /\ q.numLeftoverBytes = Smaller(CHUNK_SIZE_IN_BYTES, q.size - base)
  BY <1>2 DEF Reading
<1>4. q.size \in Nat /\ base \in Nat /\ CHUNK_SIZE_IN_BYTES \in Nat \ {0}
  <2>1. q.size \in Nat
    BY <1>2, SizeIsNatural
  <2> HIDE DEF k
  <2>2. base \in Nat
    BY <1>2, ChunkArithmetic
  <2> QED BY SizesAssumption, <2>1, <2>2
<1>5. next = base + CHUNK_SIZE_IN_BYTES
  <2> HIDE DEF k
  <2> QED BY <1>2, ChunkArithmetic
<1> HIDE DEF k, base, next
<1>6. newOffset(q) = Smaller(next, q.size) /\ newOffset(q) \in Nat
  BY <1>3, <1>4, <1>5 DEF newOffset, Smaller
<1>7. /\ e \in Request /\ e.pending = {} /\ e.fileDescriptor = q.fileDescriptor
      /\ e.heap = q.heap /\ e.payload = k + 2 /\ e.size = q.size
  BY <1>1, <1>2, EventFields
<1>8. /\ Len(e.eventLog) = k + 4
      /\ \A i \in 1..(k + 3) : e.eventLog[i] = q.eventLog[i]
      /\ e.eventLog[k + 4] = [name |-> "FILE_CHUNK_AVAILABLE", payload |-> k + 2]
  <2>1. Len(q.eventLog) + 1 = k + 4
    BY <1>2
  <2>2. /\ Len(e.eventLog) = Len(q.eventLog) + 1
        /\ \A i \in 1..Len(q.eventLog) : e.eventLog[i] = q.eventLog[i]
        /\ e.eventLog[Len(q.eventLog) + 1]
              = [name |-> "FILE_CHUNK_AVAILABLE", payload |-> q.payload]
    BY <1>1, <1>2, EventFields
  <2> HIDE DEF e
  <2> QED BY <1>2, <2>1, <2>2
<1>9. InOrder(e.eventLog)
  <2> DEFINE entry == [name |-> "FILE_CHUNK_AVAILABLE", payload |-> q.payload]
  <2>1. e.eventLog = Append(q.eventLog, entry)
    BY <1>1, <1>2, EventFields
  <2>2. entry \in [name : EventNames, payload : Nat] /\ entry.name = "FILE_CHUNK_AVAILABLE"
    BY <1>1, <1>2
  <2>3. InOrder(q.eventLog) /\ q.eventLog # <<>>
    BY <1>2 DEF Base
  <2>4. entry.name \in Successors[q.eventLog[Len(q.eventLog)].name]
    BY <2>2, SuccessorsOf DEF Last
  <2>5. IF q.eventLog = <<>> THEN entry.name = "FILE_REQUEST_STARTED"
        ELSE entry.name \in Successors[q.eventLog[Len(q.eventLog)].name]
    BY <2>3, <2>4
  <2> HIDE DEF entry, e
  <2>6. InOrder(Append(q.eventLog, entry))
    BY <1>2, <2>2, <2>3, <2>5, AppendInOrder
  <2> QED BY <2>1, <2>6
<1>10. q.heap[k + 2] \in Table
  BY <1>2
<1>11. /\ t \in Table /\ t.chunkIndex = k + 1 /\ t.offset = base
       /\ t.cursorPosition = Smaller(next, q.size)
  BY <1>2, <1>3, <1>4, <1>6, <1>10 DEF Table
<1> HIDE DEF e
<1>12. p = [e EXCEPT !.heap = [e.heap EXCEPT ![k + 2] = t]]
  BY <1>2, <1>7 DEF Request
<1> HIDE DEF p, t
<1>13. [e.heap EXCEPT ![k + 2] = t] \in Seq(Table)
  BY <1>2, <1>7, <1>11, TableWritten
<1>14. p \in Request
  BY <1>7, <1>12, <1>13 DEF Request
<1>15. /\ p.heap = [q.heap EXCEPT ![k + 2] = t] /\ p.payload = k + 2
       /\ p.eventLog = e.eventLog /\ p.size = q.size
       /\ p.pending = {} /\ p.fileDescriptor = q.fileDescriptor
  BY <1>7, <1>12 DEF Request
<1>16. /\ Len(p.heap) = k + 2 /\ p.heap[k + 2] = t /\ p.heap # <<>>
       /\ \A i \in 1..(k + 1) : p.heap[i] = q.heap[i]
  BY <1>2, <1>15
<1>17. ASSUME NEW i \in 1..Len(p.eventLog) PROVE Entry(p, i)
  <2>1. CASE i = k + 4
    <3>1. i - 2 = k + 2 /\ i - 3 = k + 1 /\ i - 4 = k
      BY <1>2, <2>1
    <3>2. p.eventLog[i].name = "FILE_CHUNK_AVAILABLE" /\ p.eventLog[i].payload = k + 2
      BY <1>8, <1>15, <2>1
    <3>3. ChunkLogged(p, i)
      BY <1>2, <1>11, <1>15, <1>16, <2>1, <3>1, <3>2 DEF ChunkLogged, base, next
    <3> QED BY <3>2, <3>3 DEF Entry
  <2>2. CASE i # k + 4
    <3>1. i \in 1..(k + 3) /\ i - 2 <= k + 1 /\ i \in Int
      BY <1>2, <1>8, <1>15, <2>2
    <3>2. Entry(q, i)
      BY <1>2, <3>1 DEF Base, Entries
    <3>3. q.eventLog[i].name = "FILE_CHUNK_AVAILABLE" =>
             i - 2 <= Len(p.heap) /\ p.heap[i - 2] = q.heap[i - 2]
      <4>1. q.eventLog[i].name = "FILE_CHUNK_AVAILABLE" => i >= 4
        BY <3>2 DEF Entry, ChunkLogged
      <4>2. q.eventLog[i].name = "FILE_CHUNK_AVAILABLE" => i - 2 \in 1..(k + 1)
        BY <1>2, <3>1, <4>1
      <4>3. k \in Nat
        BY <1>2
      <4>4. ASSUME NEW m \in 1..(k + 1) PROVE m <= Len(p.heap) /\ p.heap[m] = q.heap[m]
        BY <1>16, <4>3
      <4> QED BY <4>2, <4>4, Zenon
    <3>4. p.eventLog[i] = q.eventLog[i]
      BY <1>8, <1>15, <3>1
    <3> QED BY <1>15, <3>1, <3>2, <3>3, <3>4, EntryKept
  <2> QED BY <2>1, <2>2
<1>18. Base(p)
  BY <1>9, <1>14, <1>15, <1>16, <1>17 DEF Base, Entries
<1>19. Last(p) = "FILE_CHUNK_AVAILABLE"
  BY <1>8, <1>15 DEF Last
<1> DEFINE j == k + 1
<1>20. /\ j \in Nat /\ Len(p.eventLog) = j + 3 /\ Len(p.heap) = j + 1
       /\ (j - 1) * CHUNK_SIZE_IN_BYTES < p.size /\ t.chunkIndex = j
       /\ next = j * CHUNK_SIZE_IN_BYTES
  <2>1. j - 1 = k /\ j + 3 = k + 4 /\ j + 1 = k + 2 /\ j \in Nat
    BY <1>2
  <2> QED BY <1>3, <1>8, <1>11, <1>15, <1>16, <2>1 DEF base, next
<1> HIDE DEF j
<1>21. CASE newOffset(q) < q.size
  <2>1. FILE_CHUNK_AVAILABLE(q, n) = ReadNextFileChunk(p)
    BY <1>21 DEF FILE_CHUNK_AVAILABLE, p, e
  <2>2. p.heap[p.payload].chunkIndex = j
        /\ p.heap[p.payload].cursorPosition = Smaller(j * CHUNK_SIZE_IN_BYTES, p.size)
    BY <1>11, <1>15, <1>16, <1>20
  <2>3. /\ p.fileDescriptor \in Descriptors /\ p.pending = {}
        /\ j > 0 => (j - 1) * CHUNK_SIZE_IN_BYTES < p.size
        /\ Last(p) \in {"FILE_STATUS_AVAILABLE", "FILE_CHUNK_AVAILABLE"}
    BY <1>15, <1>19, <1>20
  <2>4. /\ Base(ReadNextFileChunk(p)) /\ Phase(ReadNextFileChunk(p))
        /\ ReadNextFileChunk(p).fileDescriptor = p.fileDescriptor
        /\ ReadNextFileChunk(p).pending \in {{"read"}, {"close"}}
    BY <1>18, <1>20, <2>2, <2>3, ReadNextKeeps, Zenon
  <2> QED BY <1>15, <2>1, <2>4
<1>22. CASE ~(newOffset(q) < q.size)
  <2>1. FILE_CHUNK_AVAILABLE(q, n) = FILE_CONTENTS_AVAILABLE(p)
    BY <1>22 DEF FILE_CHUNK_AVAILABLE, p, e
  <2>2. next >= q.size
    BY <1>4, <1>5, <1>6, <1>22 DEF Smaller
  <2>3. j * CHUNK_SIZE_IN_BYTES >= p.size
    BY <1>15, <1>20, <2>2
  <2> QED BY <1>15, <1>18, <1>19, <1>20, <2>1, <2>3, ContentsKeeps
<1> QED BY <1>21, <1>22

-----------------------------------------------------------------------------
(* The invariant of all requests.                                          *)

(* The descriptors that a request has, judged by what it awaits. *)
Owned(q) ==
    IF q.pending \cap {"fstat", "read", "close"} # {} THEN {q.fileDescriptor} ELSE {}

(* No two requests hold the same descriptor: the kernel hands it out again *)
(* only after it has been closed, so a close never hits another request.   *)
ReaderInv ==
    /\ request \in [Requests -> Request]
    /\ \A r \in Requests : Base(request[r]) /\ Phase(request[r])
    /\ held \in [Requests -> SUBSET Descriptors]
    /\ \A r \in Requests : held[r] = Owned(request[r])
    /\ \A r, s \in Requests : r # s => held[r] \cap held[s] = {}

LEMMA ReaderInit == Init => ReaderInv
<1> SUFFICES ASSUME Init PROVE ReaderInv
  OBVIOUS
<1> DEFINE q == [pending |-> {}, heap |-> <<NewTable>>, payload |-> 1,
                 fileDescriptor |-> NoDescriptor, size |-> 0,
                 startOffset |-> 0, numLeftoverBytes |-> 0, eventLog |-> <<>>]
<1>1. NewTable \in Table
  BY DEF NewTable, Table
<1>2. q \in Request
  BY <1>1, SizesAssumption DEF Request
<1>3. /\ q.payload = Len(q.heap) /\ q.heap # <<>> /\ q.eventLog = <<>> /\ Len(q.heap) = 1
      /\ q.pending = {} /\ q.fileDescriptor = NoDescriptor
  OBVIOUS
<1>4. request = [r \in Requests |-> q] /\ held = [r \in Requests |-> {}]
  BY DEF Init
<1> HIDE DEF q
<1>5. Base(q)
  BY <1>2, <1>3 DEF Base, InOrder, Entries
<1>6. Phase(q)
  BY <1>3 DEF Phase
<1>7. Owned(q) = {}
  BY <1>3 DEF Owned
<1> QED BY <1>2, <1>4, <1>5, <1>6, <1>7 DEF ReaderInv

(* A request whose callback is called has nothing else pending. *)
LEMMA CallbackCalled ==
    ASSUME ReaderInv, NEW r \in Requests,
           NEW f \in {"open", "fstat", "read", "close", "closed"}, f \in request[r].pending
    PROVE  /\ request[r].pending = {f}
           /\ Base(Completed(r, f))
           /\ Completed(r, f).pending = {}
           /\ Completed(r, f).eventLog = request[r].eventLog
           /\ Completed(r, f).heap = request[r].heap
           /\ Completed(r, f).payload = request[r].payload
           /\ Completed(r, f).fileDescriptor = request[r].fileDescriptor
           /\ Completed(r, f).size = request[r].size
           /\ Completed(r, f).startOffset = request[r].startOffset
           /\ Completed(r, f).numLeftoverBytes = request[r].numLeftoverBytes
           /\ Last(Completed(r, f)) = Last(request[r])
<1>1. Base(request[r]) /\ Phase(request[r])
  BY DEF ReaderInv
<1>2. request[r].pending = {f}
  BY <1>1 DEF Phase
<1>3. Completed(r, f) = [request[r] EXCEPT !.pending = {}]
  BY <1>2 DEF Completed
<1>4. {} \in SUBSET {"open", "fstat", "read", "close", "closed"}
  OBVIOUS
<1> QED BY <1>1, <1>2, <1>3, <1>4, PendingFields DEF Last

(* A step that leaves the descriptors alone. *)
LEMMA RequestStep ==
    ASSUME ReaderInv, NEW r \in Requests, NEW p, Base(p), Phase(p),
           Owned(p) = Owned(request[r]),
           request' = [request EXCEPT ![r] = p], UNCHANGED held
    PROVE  ReaderInv'
<1>1. p \in Request
  BY DEF Base
<1>2. request' \in [Requests -> Request]
  BY <1>1 DEF ReaderInv
<1>3. \A s \in Requests : request'[s] = IF s = r THEN p ELSE request[s]
  BY DEF ReaderInv
<1>4. \A s \in Requests : Base(request'[s]) /\ Phase(request'[s])
  BY <1>3 DEF ReaderInv
<1>5. \A s \in Requests : held'[s] = Owned(request'[s])
  BY <1>3 DEF ReaderInv
<1> QED BY <1>2, <1>4, <1>5 DEF ReaderInv

LEMMA LoadKeeps ==
    ASSUME ReaderInv, NEW r \in Requests, LoadFileContents(r)
    PROVE  ReaderInv'
<1> DEFINE q == request[r]
           u == uv_fs(q, "open")
           p == EVENT(u, "FILE_REQUEST_STARTED")
<1>1. Base(q) /\ Phase(q) /\ q.eventLog = <<>>
  BY DEF ReaderInv, LoadFileContents
<1>2. q.pending = {} /\ Len(q.heap) = 1 /\ q.fileDescriptor = NoDescriptor
  <2>1. Len(q.eventLog) = 0
    BY <1>1
  <2> QED BY <1>1, <2>1 DEF Phase, Reading
<1>3. /\ Base(u) /\ u.pending = {"open"} /\ u.eventLog = <<>> /\ u.heap = q.heap
      /\ u.fileDescriptor = NoDescriptor
  BY <1>1, <1>2, UvFields
<1>4. "FILE_REQUEST_STARTED" \in EventNames \ {"FILE_CHUNK_AVAILABLE", "FILE_REQUEST_COMPLETED"}
  BY DEF EventNames
<1> HIDE DEF u
<1>5. Base(p) /\ Last(p) = "FILE_REQUEST_STARTED"
  BY <1>3, <1>4, EventKeepsBase
<1>6. /\ Len(p.eventLog) = Len(u.eventLog) + 1 /\ p.pending = u.pending /\ p.heap = u.heap
      /\ p.fileDescriptor = u.fileDescriptor
  BY <1>3, <1>4, EventFields DEF Base
<1>7. request' = [request EXCEPT ![r] = p] /\ UNCHANGED held
  BY DEF LoadFileContents, u
<1> HIDE DEF p
<1>8. Len(p.eventLog) = 1
  BY <1>3, <1>6
<1>9. Phase(p)
  BY <1>2, <1>3, <1>5, <1>6, <1>8 DEF Phase
<1>10. Owned(p) = Owned(request[r])
  BY <1>2, <1>3, <1>6 DEF Owned
<1> QED BY <1>5, <1>7, <1>9, <1>10, RequestStep

LEMMA ErrorKeeps ==
    ASSUME ReaderInv, NEW r \in Requests, NEW f \in {"open", "fstat", "read"}, OnError(r, f)
    PROVE  ReaderInv'
<1> DEFINE q == Completed(r, f)
           p == FILE_REQUEST_FAILED(q)
<1>1. Base(request[r]) /\ Phase(request[r]) /\ f \in request[r].pending
  BY DEF ReaderInv, OnError
<1>2. /\ request[r].pending = {f} /\ Base(q) /\ q.pending = {}
      /\ q.eventLog = request[r].eventLog /\ q.fileDescriptor = request[r].fileDescriptor
      /\ Last(q) = Last(request[r])
  BY <1>1, CallbackCalled
<1>3. request' = [request EXCEPT ![r] = p] /\ UNCHANGED held
  BY DEF OnError
<1> HIDE DEF q, p
<1>4. /\ Last(q) \in {"FILE_REQUEST_STARTED", "FILE_DESCRIPTOR_OPENED",
                      "FILE_STATUS_AVAILABLE", "FILE_CHUNK_AVAILABLE"}
      /\ f = "open" => q.fileDescriptor = NoDescriptor
      /\ f # "open" => q.fileDescriptor # NoDescriptor
  BY <1>1, <1>2, DescriptorsAssumption DEF Phase
<1>5. q.eventLog # <<>>
  <2>1. Len(request[r].eventLog) \in Nat
    BY <1>1 DEF Base, Request
  <2>2. CASE f = "read"
    <3>1. Len(request[r].eventLog) - 3 >= 0
      BY <1>1, <1>2, <2>2 DEF Phase, Reading
    <3> QED BY <1>2, <2>1, <3>1
  <2>3. CASE f # "read"
    <3>1. Len(request[r].eventLog) \in {1, 2}
      BY <1>1, <1>2, <2>3 DEF Phase
    <3> QED BY <1>2, <3>1
  <2> QED BY <2>2, <2>3
<1>6. /\ Base(p) /\ Phase(p) /\ p.fileDescriptor = q.fileDescriptor
      /\ p.pending = IF q.fileDescriptor = NoDescriptor THEN {} ELSE {"close"}
  BY <1>2, <1>4, <1>5, FailedKeeps, SuccessorsOf DEF p
<1>7. Owned(p) = Owned(request[r])
  BY <1>2, <1>4, <1>6 DEF Owned
<1> QED BY <1>3, <1>6, <1>7, RequestStep

LEMMA StatKeeps ==
    ASSUME ReaderInv, NEW r \in Requests, NEW size \in Sizes, NEW isDirectory \in BOOLEAN,
           OnStat(r, size, isDirectory)
    PROVE  ReaderInv'
<1> DEFINE c == Completed(r, "fstat")
           q == [c EXCEPT !.size = size]
           p == FILE_STATUS_AVAILABLE(q, isDirectory)
<1>1. Base(request[r]) /\ Phase(request[r]) /\ "fstat" \in request[r].pending
  BY DEF ReaderInv, OnStat
<1>2. /\ request[r].pending = {"fstat"} /\ Base(c) /\ c.pending = {}
      /\ c.eventLog = request[r].eventLog /\ c.heap = request[r].heap
      /\ c.fileDescriptor = request[r].fileDescriptor /\ Last(c) = Last(request[r])
  BY <1>1, CallbackCalled
<1>3. /\ Len(c.eventLog) = 2 /\ Last(c) = "FILE_DESCRIPTOR_OPENED" /\ Len(c.heap) = 1
      /\ c.fileDescriptor \in Descriptors
  BY <1>1, <1>2 DEF Phase
<1>4. request' = [request EXCEPT ![r] = p] /\ UNCHANGED held
  BY DEF OnStat
<1> HIDE DEF c
<1>5. c \in Request /\ c.payload = Len(c.heap) /\ c.heap # <<>> /\ InOrder(c.eventLog) /\ Entries(c)
  BY <1>2 DEF Base
<1>6. /\ q \in Request /\ q.pending = {} /\ q.eventLog = c.eventLog /\ q.heap = c.heap
      /\ q.payload = c.payload /\ q.fileDescriptor = c.fileDescriptor
  BY <1>2, <1>5 DEF Request
<1> HIDE DEF q
<1>7. ASSUME NEW i \in 1..Len(q.eventLog) PROVE Entry(q, i)
  <2>1. Entry(c, i)
    BY <1>5, <1>6 DEF Entries
  <2>2. i <= 2
    <3>1. Len(q.eventLog) = 2
      BY <1>3, <1>6
    <3> QED BY <3>1
  <2>3. ~ChunkLogged(c, i) /\ ~CompletionLogged(c, i)
    BY <2>2 DEF ChunkLogged, CompletionLogged
  <2> QED BY <1>6, <2>1, <2>3 DEF Entry
<1>8. Base(q)
  BY <1>5, <1>6, <1>7 DEF Base, Entries
<1>9. Last(q) = "FILE_DESCRIPTOR_OPENED" /\ Len(q.eventLog) = 2 /\ Len(q.heap) = 1
  BY <1>3, <1>6 DEF Last
<1>10. /\ Base(p) /\ Phase(p) /\ p.fileDescriptor = q.fileDescriptor
       /\ p.pending \in {{"read"}, {"close"}}
  BY <1>3, <1>6, <1>8, <1>9, StatusKeeps
<1> HIDE DEF p
<1>11. Owned(p) = Owned(request[r])
  BY <1>2, <1>6, <1>10 DEF Owned
<1> QED BY <1>4, <1>10, <1>11, RequestStep

LEMMA ReadKeeps ==
    ASSUME ReaderInv, NEW r \in Requests, NEW n \in 0..CHUNK_SIZE_IN_BYTES, OnRead(r, n)
    PROVE  ReaderInv'
<1> DEFINE q == Completed(r, "read")
           p == FILE_CHUNK_AVAILABLE(q, n)
<1>1. Base(request[r]) /\ Phase(request[r]) /\ "read" \in request[r].pending
  BY DEF ReaderInv, OnRead
<1>2. /\ request[r].pending = {"read"} /\ Base(q) /\ q.pending = {}
      /\ q.eventLog = request[r].eventLog /\ q.heap = request[r].heap
      /\ q.payload = request[r].payload
      /\ q.fileDescriptor = request[r].fileDescriptor /\ q.size = request[r].size
      /\ q.startOffset = request[r].startOffset
      /\ q.numLeftoverBytes = request[r].numLeftoverBytes
      /\ Last(q) = Last(request[r])
  BY <1>1, CallbackCalled
<1>3. request' = [request EXCEPT ![r] = p] /\ UNCHANGED held
  BY DEF OnRead
<1> HIDE DEF q
<1>4. /\ Reading(request[r]) /\ q.fileDescriptor \in Descriptors
      /\ Last(q) \in {"FILE_STATUS_AVAILABLE", "FILE_CHUNK_AVAILABLE"}
  BY <1>1, <1>2 DEF Phase
<1>5. Reading(q)
  BY <1>2, <1>4 DEF Reading
<1>6. n \in Nat
  BY SizesAssumption
<1>7. /\ Base(p) /\ Phase(p) /\ p.fileDescriptor = q.fileDescriptor
      /\ p.pending \in {{"read"}, {"close"}}
  BY <1>2, <1>4, <1>5, <1>6, ChunkKeeps
<1> HIDE DEF p
<1>8. Owned(p) = Owned(request[r])
  BY <1>2, <1>7 DEF Owned
<1> QED BY <1>3, <1>7, <1>8, RequestStep

LEMMA ClosedKeeps ==
    ASSUME ReaderInv, NEW r \in Requests, OnClose(r)
    PROVE  ReaderInv'
<1> DEFINE q == Completed(r, "closed")
           p == EVENT(q, "FILE_DESCRIPTOR_CLOSED")
<1>1. Base(request[r]) /\ Phase(request[r]) /\ "closed" \in request[r].pending
  BY DEF ReaderInv, OnClose
<1>2. /\ request[r].pending = {"closed"} /\ Base(q) /\ q.pending = {}
      /\ q.eventLog = request[r].eventLog /\ Last(q) = Last(request[r])
  BY <1>1, CallbackCalled
<1>3. request' = [request EXCEPT ![r] = p] /\ UNCHANGED held
  BY DEF OnClose
<1> HIDE DEF q
<1>4. q.eventLog # <<>> /\ Last(q) \in {"FILE_REQUEST_COMPLETED", "FILE_REQUEST_FAILED"}
  BY <1>1, <1>2 DEF Phase
<1>5. "FILE_DESCRIPTOR_CLOSED" \in EventNames \ {"FILE_CHUNK_AVAILABLE", "FILE_REQUEST_COMPLETED"}
  BY DEF EventNames
<1>6. Base(p) /\ Last(p) = "FILE_DESCRIPTOR_CLOSED"
  BY <1>2, <1>4, <1>5, EventKeepsBase, SuccessorsOf
<1>7. p.pending = {} /\ Len(p.eventLog) = Len(q.eventLog) + 1
  BY <1>2, <1>5, EventFields DEF Base
<1>8. Len(q.eventLog) \in Nat
  BY <1>2 DEF Base, Request
<1> HIDE DEF p
<1>9. p.eventLog # <<>>
  BY <1>7, <1>8
<1>10. Phase(p)
  BY <1>6, <1>7, <1>9 DEF Phase
<1>11. Owned(p) = Owned(request[r])
  BY <1>2, <1>7 DEF Owned
<1> QED BY <1>3, <1>6, <1>10, <1>11, RequestStep

(* The kernel hands out a descriptor that no request holds. *)
LEMMA OpenKeeps ==
    ASSUME ReaderInv, NEW r \in Requests, NEW fd \in Descriptors, OnOpen(r, fd)
    PROVE  ReaderInv'
<1> DEFINE c == Completed(r, "open")
           q == [c EXCEPT !.fileDescriptor = fd]
           e == EVENT(q, "FILE_DESCRIPTOR_OPENED")
           p == uv_fs(e, "fstat")
<1>1. Base(request[r]) /\ Phase(request[r]) /\ "open" \in request[r].pending
  BY DEF ReaderInv, OnOpen
<1>2. /\ request[r].pending = {"open"} /\ Base(c) /\ c.pending = {}
      /\ c.eventLog = request[r].eventLog /\ c.heap = request[r].heap
      /\ Last(c) = Last(request[r])
  BY <1>1, CallbackCalled
<1>3. /\ request' = [request EXCEPT ![r] = p]
      /\ held' = [held EXCEPT ![r] = held[r] \cup {fd}]
      /\ \A s \in Requests : fd \notin held[s]
  BY DEF OnOpen
<1>4. Len(c.eventLog) = 1 /\ Last(c) = "FILE_REQUEST_STARTED" /\ Len(c.heap) = 1
  BY <1>1, <1>2 DEF Phase
<1> HIDE DEF c
<1>5. c \in Request /\ c.payload = Len(c.heap) /\ c.heap # <<>> /\ InOrder(c.eventLog) /\ Entries(c)
  BY <1>2 DEF Base
<1>6. /\ q \in Request /\ q.pending = {} /\ q.eventLog = c.eventLog /\ q.heap = c.heap
      /\ q.payload = c.payload /\ q.fileDescriptor = fd /\ q.size = c.size
  BY <1>2, <1>5 DEF Request
<1> HIDE DEF q
<1>7. Entries(q)
  BY <1>5, <1>6 DEF Entries, Entry, ChunkLogged, CompletionLogged
<1>8. Base(q) /\ Last(q) = "FILE_REQUEST_STARTED"
  BY <1>4, <1>5, <1>6, <1>7 DEF Base, Last
<1>9. "FILE_DESCRIPTOR_OPENED" \in EventNames \ {"FILE_CHUNK_AVAILABLE", "FILE_REQUEST_COMPLETED"}
  BY DEF EventNames
<1>10. q.eventLog # <<>> /\ Len(q.eventLog) = 1
  <2>1. c.eventLog # <<>>
    BY <1>4, <1>5 DEF Request
  <2> QED BY <1>4, <1>6, <2>1, Zenon
<1>11. Base(e) /\ Last(e) = "FILE_DESCRIPTOR_OPENED"
  BY <1>8, <1>9, <1>10, EventKeepsBase, SuccessorsOf
<1>12. /\ e.pending = {} /\ e.heap = q.heap /\ e.fileDescriptor = fd
       /\ Len(e.eventLog) = Len(q.eventLog) + 1
  BY <1>6, <1>9, EventFields
<1> HIDE DEF e
<1>13. /\ Base(p) /\ p.pending = {"fstat"} /\ p.eventLog = e.eventLog /\ p.heap = e.heap
       /\ p.fileDescriptor = fd
  BY <1>11, <1>12, UvFields
<1> HIDE DEF p
<1>14. Len(p.eventLog) = 2 /\ Last(p) = "FILE_DESCRIPTOR_OPENED" /\ Len(p.heap) = 1
  <2>1. Len(e.eventLog) = 2
    BY <1>10, <1>12
  <2>2. Len(e.heap) = 1
    BY <1>4, <1>6, <1>12, Zenon
  <2>3. Last(p) = Last(e)
    BY <1>13 DEF Last
  <2> QED BY <1>11, <1>13, <2>1, <2>2, <2>3
<1>15. Phase(p)
  BY <1>13, <1>14 DEF Phase
<1>16. Owned(p) = {fd} /\ held[r] = {}
  BY <1>2, <1>13 DEF Owned, ReaderInv
<1>17. /\ \A s \in Requests : request'[s] = IF s = r THEN p ELSE request[s]
       /\ \A s \in Requests : held'[s] = IF s = r THEN {fd} ELSE held[s]
       /\ request' \in [Requests -> Request] /\ held' \in [Requests -> SUBSET Descriptors]
  BY <1>3, <1>13, <1>16 DEF ReaderInv, Base
<1>18. \A s \in Requests : Base(request'[s]) /\ Phase(request'[s])
  BY <1>13, <1>15, <1>17 DEF ReaderInv
<1>19. \A s \in Requests : held'[s] = Owned(request'[s])
  BY <1>16, <1>17 DEF ReaderInv
<1>20. \A s, t \in Requests : s # t => held'[s] \cap held'[t] = {}
  BY <1>3, <1>17 DEF ReaderInv
<1> QED BY <1>17, <1>18, <1>19, <1>20 DEF ReaderInv

(* The kernel closes the descriptor; it was held by this request only. *)
LEMMA CloseKeeps ==
    ASSUME ReaderInv, NEW r \in Requests, Close(r)
    PROVE  ReaderInv'
<1> DEFINE q == Completed(r, "close")
           p == uv_fs(q, "closed")
           fd == request[r].fileDescriptor
<1>1. Base(request[r]) /\ Phase(request[r]) /\ "close" \in request[r].pending
  BY DEF ReaderInv, Close
<1>2. /\ request[r].pending = {"close"} /\ Base(q) /\ q.pending = {}
      /\ q.eventLog = request[r].eventLog /\ q.fileDescriptor = fd
      /\ Last(q) = Last(request[r])
  BY <1>1, CallbackCalled
<1>3. /\ request' = [request EXCEPT ![r] = p]
      /\ held' = [s \in Requests |-> held[s] \ {fd}]
  BY DEF Close
<1> HIDE DEF q
<1>4. /\ q.eventLog # <<>> /\ Last(q) \in {"FILE_REQUEST_COMPLETED", "FILE_REQUEST_FAILED"}
      /\ fd \in Descriptors
  BY <1>1, <1>2 DEF Phase
<1>5. Base(p) /\ p.pending = {"closed"} /\ p.eventLog = q.eventLog /\ p.fileDescriptor = fd
  BY <1>2, UvFields
<1> HIDE DEF p
<1>6. Last(p) = Last(q)
  BY <1>5 DEF Last
<1>7. Phase(p)
  BY <1>4, <1>5, <1>6 DEF Phase
<1>8. held[r] = {fd} /\ Owned(p) = {}
  BY <1>2, <1>5 DEF ReaderInv, Owned
<1>9. \A s \in Requests : held'[s] = IF s = r THEN {} ELSE held[s]
  <2> SUFFICES ASSUME NEW s \in Requests PROVE held'[s] = IF s = r THEN {} ELSE held[s]
    OBVIOUS
  <2>1. s # r => fd \notin held[s]
    BY <1>8 DEF ReaderInv
  <2> QED BY <1>3, <1>8, <2>1
<1>10. /\ \A s \in Requests : request'[s] = IF s = r THEN p ELSE request[s]
       /\ request' \in [Requests -> Request] /\ held' \in [Requests -> SUBSET Descriptors]
  BY <1>3, <1>5 DEF ReaderInv, Base
<1>11. \A s \in Requests : Base(request'[s]) /\ Phase(request'[s])
  BY <1>5, <1>7, <1>10 DEF ReaderInv
<1>12. \A s \in Requests : held'[s] = Owned(request'[s])
  BY <1>8, <1>9, <1>10 DEF ReaderInv
<1>13. \A s, t \in Requests : s # t => held'[s] \cap held'[t] = {}
  BY <1>9 DEF ReaderInv
<1> QED BY <1>10, <1>11, <1>12, <1>13 DEF ReaderInv

LEMMA ReaderStep == ReaderInv /\ [Next]_vars => ReaderInv'
<1> SUFFICES ASSUME ReaderInv, [Next]_vars PROVE ReaderInv'
  OBVIOUS
<1>1. CASE UNCHANGED vars
  BY <1>1 DEF vars, ReaderInv
<1>2. ASSUME NEW r \in Requests, LoadFileContents(r) PROVE ReaderInv'
  BY <1>2, LoadKeeps
<1>3. ASSUME NEW r \in Requests, OnCallback(r) PROVE ReaderInv'
  BY <1>3, ErrorKeeps, OpenKeeps, StatKeeps, ReadKeeps, CloseKeeps, ClosedKeeps DEF OnCallback
<1> QED BY <1>1, <1>2, <1>3 DEF Next

LEMMA ReaderInvariant == Spec => []ReaderInv
BY ReaderInit, ReaderStep, PTL DEF Spec

(* The state of requests has its type: a payload is always one of the      *)
(* tables of its request, and no offset is negative.                       *)
THEOREM TypeCorrect == Spec => []TypeOK
<1>1. ReaderInv => TypeOK
  BY DEF ReaderInv, TypeOK
<1> QED BY <1>1, ReaderInvariant, PTL

(* However the kernel reuses descriptors, each is closed once, by the      *)
(* request that holds it, and not while it is read; nothing is leaked.     *)
THEOREM DescriptorsHaveOneOwner == Spec => []DescriptorsAreOwned
<1>1. ASSUME ReaderInv PROVE DescriptorsAreOwned
  <2> SUFFICES ASSUME NEW r \in Requests
               PROVE  /\ \A f, g \in request[r].pending : f = g
                      /\ held[r] = IF request[r].pending \cap {"fstat", "read", "close"} # {}
                                   THEN {request[r].fileDescriptor} ELSE {}
    BY DEF DescriptorsAreOwned
  <2>1. Phase(request[r]) /\ held[r] = Owned(request[r])
    BY <1>1 DEF ReaderInv
  <2>2. \A f, g \in request[r].pending : f = g
    BY <2>1 DEF Phase
  <2> QED BY <2>1, <2>2 DEF Owned
<1> QED BY <1>1, ReaderInvariant, PTL

(* Whatever fails and whenever, a request publishes its events in order:   *)
(* one outcome, then the descriptor is closed.                             *)
THEOREM EventsArePublishedInOrder == Spec => []EventsInOrder
<1>1. ReaderInv => EventsInOrder
  BY DEF ReaderInv, Base, InOrder, EventsInOrder
<1> QED BY <1>1, ReaderInvariant, PTL

(* The payload of a chunk that was logged is never overwritten by a later  *)
(* chunk, and the chunks tile the file from its start.                     *)
THEOREM LoggedChunksStayTrue == Spec => []LoggedChunksAreStable
<1>1. ASSUME ReaderInv PROVE LoggedChunksAreStable
  <2> SUFFICES ASSUME NEW r \in Requests, NEW i \in DOMAIN request[r].eventLog,
                      request[r].eventLog[i].name = "FILE_CHUNK_AVAILABLE"
               PROVE  LET chunk == request[r].heap[request[r].eventLog[i].payload]
                          k == i - 3
                      IN  /\ chunk.chunkIndex = k
                          /\ chunk.offset = (k - 1) * CHUNK_SIZE_IN_BYTES
                          /\ chunk.cursorPosition = Smaller(k * CHUNK_SIZE_IN_BYTES, request[r].size)
    BY DEF LoggedChunksAreStable
  <2>1. Base(request[r])
    BY <1>1 DEF ReaderInv
  <2>2. i \in 1..Len(request[r].eventLog)
    BY <2>1 DEF Base, Request
  <2>3. ChunkLogged(request[r], i)
    BY <2>1, <2>2 DEF Base, Entries, Entry
  <2>4. (i - 3) - 1 = i - 4
    BY <2>2
  <2> QED BY <2>3, <2>4 DEF ChunkLogged
<1> QED BY <1>1, ReaderInvariant, PTL

(* A request that completed has asked for every byte of the file, in as    *)
(* many chunks as lastChunkIndex announced, for every size.                *)
THEOREM CompletedRequestsAreRead == Spec => []CompletedMeansRead
<1>1. ASSUME ReaderInv PROVE CompletedMeansRead
  <2> SUFFICES ASSUME NEW r \in Requests, NEW i \in DOMAIN request[r].eventLog,
                      request[r].eventLog[i].name = "FILE_REQUEST_COMPLETED"
               PROVE  LET chunks == i - 5 IN
                      /\ chunks * CHUNK_SIZE_IN_BYTES >= request[r].size
                      /\ chunks > 0 => (chunks - 1) * CHUNK_SIZE_IN_BYTES < request[r].size
    BY DEF CompletedMeansRead
  <2>1. Base(request[r])
    BY <1>1 DEF ReaderInv
  <2>2. i \in 1..Len(request[r].eventLog)
    BY <2>1 DEF Base, Request
  <2>3. CompletionLogged(request[r], i)
    BY <2>1, <2>2 DEF Base, Entries, Entry
  <2>4. (i - 5) - 1 = i - 6 /\ (i - 5 > 0 => i > 5)
    BY <2>2
  <2> QED BY <2>3, <2>4 DEF CompletionLogged
<1> QED BY <1>1, ReaderInvariant, PTL
=============================================================================
