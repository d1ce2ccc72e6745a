------------------------------ MODULE rapidjson ------------------------------
(***************************************************************************)
(* The JSON encoder (src/Runtime/Bindings/rapidjson.hpp).  It walks a graph  *)
(* of Lua tables, which may be shared or contain themselves, with a native   *)
(* call per table and no record of where it has been; the depth limit is all *)
(* that ends it.  lua_next visits the keys of a table in any order.          *)
(*                                                                         *)
(* A table is a function from keys to values; strings, booleans, numbers and *)
(* null are one value, "primitive".  The pretty options change the writer,   *)
(* not what is written.  A __tostring function that changes the tables being *)
(* encoded is not modelled.                                                  *)
(***************************************************************************)
EXTENDS Integers, Sequences, FiniteSets, SequencesExt

CONSTANTS
    Tables,      \* Lua tables; the script encodes Root
    Root,
    StringKeys,  \* keys that are strings, in the order of strcmp
    MAX_DEPTH    \* the limit that the script asks for, 128 by default

VARIABLES
    heap,       \* the contents of the tables
    encoder,    \* the options of the call, see CustomizedEncoder
    frames,     \* the native calls that encode a table each, innermost last
    json,       \* what the encoder has written
    jsonStatus  \* "idle", "running", "done", or the error it raised

jsonVars == <<heap, encoder, frames, json, jsonStatus>>

CustomizedEncoder == [sort_keys : BOOLEAN, empty_table_as_array : BOOLEAN]

(* "object" has a __tostring metamethod; "unsupported" is a function, say, or a
   number that JSON cannot represent. *)
Scalars == {"primitive", "object", "unsupported"}

Keys == Range(StringKeys)

ASSUME TablesAssumption == Root \in Tables /\ Tables \cap Scalars = {}
ASSUME KeysAssumption == StringKeys \in Seq(Keys) /\ IsInjective(StringKeys)
ASSUME DepthAssumption == MAX_DEPTH \in Nat \ {0}

(* Arrays, and tables with string keys of which some also have a number. *)
Contents ==
    [1..2 -> {"primitive"} \cup Tables]
    \cup (UNION {[keys -> Scalars \cup Tables] : keys \in SUBSET Keys})
    \cup [{2} \cup Keys -> {"primitive", "object"}]

Frame == [table : Tables, isarray : BOOLEAN, rest : Seq({1, 2} \cup Keys)]

Tokens == {"{", "}", "[", "]", "primitive", "object"} \cup Keys

JsonTypeOK ==
    /\ heap \in [Tables -> Contents]
    /\ encoder \in CustomizedEncoder
    /\ frames \in Seq(Frame) /\ Len(frames) <= MAX_DEPTH
    /\ json \in Seq(Tokens)
    /\ jsonStatus \in {"idle", "running", "done", "unsupported", "nested too depth"}

-----------------------------------------------------------------------------
(* External: lua-rapidjson takes a table for an array if its keys are 1 .. n. *)
isarray(t, empty_table_as_array) ==
    IF DOMAIN heap[t] = {} THEN empty_table_as_array
    ELSE DOMAIN heap[t] = 1..Cardinality(DOMAIN heap[t])

(* The script fills in its tables. *)
SetTable(t, contents) ==
    /\ jsonStatus = "idle" /\ DOMAIN heap[t] = {}
    /\ heap' = [heap EXCEPT ![t] = contents]
    /\ UNCHANGED <<encoder, frames, json, jsonStatus>>

(* The error unwinds every call. *)
luaL_error(message) ==
    /\ jsonStatus' = message
    /\ frames' = <<>>
    /\ UNCHANGED <<heap, encoder, json>>

(* In the order of strcmp, which is total on keys without embedded NULs, and those
   are the ones that StringKeys has. *)
Sorted(keys) ==
    \A i, j \in DOMAIN keys : i < j =>
       \E p, q \in DOMAIN StringKeys : p < q /\ StringKeys[p] = keys[i] /\ StringKeys[q] = keys[j]

(* The orders in which an object may be written: keys that are no strings are
   left out, the others come in the order of lua_next unless they are sorted. *)
KeyOrders(t, sort_keys) ==
    {keys \in SetToSeqs(DOMAIN heap[t] \cap Keys) : sort_keys => Sorted(keys)}

(* Mutant of TooDeep: off by one. *)
TooDeep_offByOne(depth) == depth >= MAX_DEPTH

TooDeep(depth) == depth > MAX_DEPTH

(* Begins the table t inside the calls caller, after what has been written. *)
encodeTable(t, caller, written, options) ==
    LET array == isarray(t, options.empty_table_as_array)
        orders == IF array THEN {[i \in DOMAIN heap[t] |-> i]}
                  ELSE KeyOrders(t, options.sort_keys)
    IN /\ ~TooDeep(Len(caller) + 1)
       /\ \E rest \in orders :
            frames' = Append(caller, [table |-> t, isarray |-> array, rest |-> rest])
       /\ json' = Append(written, IF array THEN "[" ELSE "{")
       /\ encoder' = options
       /\ jsonStatus' = "running"
       /\ UNCHANGED heap

json_encode_custom(options) ==
    /\ jsonStatus = "idle"
    /\ encodeTable(Root, <<>>, <<>>, options)

(* Values that are written as they are, or as what __tostring returns. *)
Supported == {"primitive", "object"}

(* The value that the innermost call has reached, and what follows it. *)
Value == heap[Last(frames).table][Head(Last(frames).rest)]
Caller == Append(Front(frames), [Last(frames) EXCEPT !.rest = Tail(@)])
Written == IF Last(frames).isarray THEN json ELSE Append(json, Head(Last(frames).rest))

encodeValue ==
    /\ frames # <<>> /\ Last(frames).rest # <<>>
    /\ \/ Value \in Tables /\ encodeTable(Value, Caller, Written, encoder)
       \/ Value \in Tables /\ TooDeep(Len(Caller) + 1) /\ luaL_error("nested too depth")
       \/ Value = "unsupported" /\ luaL_error("unsupported")
       \/ /\ Value \in Supported
          /\ json' = Append(Written, Value)
          /\ frames' = Caller
          /\ UNCHANGED <<heap, encoder, jsonStatus>>

(* EndArray or EndObject; the outermost one ends the call. *)
EndTable ==
    /\ frames # <<>> /\ Last(frames).rest = <<>>
    /\ json' = Append(json, IF Last(frames).isarray THEN "]" ELSE "}")
    /\ frames' = Front(frames)
    /\ jsonStatus' = IF Len(frames) = 1 THEN "done" ELSE "running"
    /\ UNCHANGED <<heap, encoder>>

-----------------------------------------------------------------------------
JsonInit ==
    /\ heap = [t \in Tables |-> <<>>]
    /\ encoder = [sort_keys |-> FALSE, empty_table_as_array |-> FALSE]
    /\ frames = <<>> /\ json = <<>> /\ jsonStatus = "idle"

JsonNext ==
    \/ \E t \in Tables, contents \in Contents : SetTable(t, contents)
    \/ \E options \in CustomizedEncoder : json_encode_custom(options)
    \/ encodeValue \/ EndTable

JsonSpec == JsonInit /\ [][JsonNext]_jsonVars

-----------------------------------------------------------------------------
(* The keys of a table that are written. *)
WrittenKeys(t) == IF isarray(t, TRUE) THEN DOMAIN heap[t] ELSE DOMAIN heap[t] \cap Keys

(* The values that are n levels below Root. *)
Nested[n \in 0..MAX_DEPTH] ==
    IF n = 0 THEN {Root}
    ELSE UNION {{heap[t][k] : k \in WrittenKeys(t)} : t \in Nested[n - 1] \cap Tables}

(* A table that contains itself, or is nested deeper than the limit, is never
   encoded, and no other table is refused for its depth. *)
DepthLimitIsExact ==
    LET tooDeep == Nested[MAX_DEPTH] \cap Tables # {} IN
    /\ jsonStatus = "done" => ~tooDeep
    /\ jsonStatus = "nested too depth" => tooDeep

(* The JSON text of a value with sorted keys, given the texts of what is in it. *)
Text(v, inner) ==
    IF v \notin Tables THEN <<v>>
    ELSE IF isarray(v, encoder.empty_table_as_array)
    THEN <<"[">> \o FlattenSeq([i \in DOMAIN heap[v] |-> inner[heap[v][i]]]) \o <<"]">>
    ELSE <<"{">> \o FlattenSeq([i \in 1..Len(StringKeys) |->
                                  IF StringKeys[i] \in DOMAIN heap[v]
                                    THEN <<StringKeys[i]>> \o inner[heap[v][StringKeys[i]]]
                                    ELSE <<>>]) \o <<"}">>

(* The texts of all values, down to n levels of tables. *)
Texts[n \in 0..MAX_DEPTH] ==
    [v \in Scalars \cup Tables |-> IF n = 0 THEN <<v>> ELSE Text(v, Texts[n - 1])]

Canonical == Texts[MAX_DEPTH][Root]

(* With sort_keys the text depends on the contents of the tables only, not on
   the order in which lua_next visits them: tables with the same contents
   have the same text. *)
SortedTextIsCanonical == (jsonStatus = "done" /\ encoder.sort_keys) => json = Canonical

(* What is encoded, and as which text, is decided by the tables and the options
   alone. *)
EncodingIsExact == DepthLimitIsExact /\ SortedTextIsCanonical
=============================================================================
