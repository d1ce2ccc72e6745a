---------------------------- MODULE lminiz_streams ----------------------------
(***************************************************************************)
(* Deflators, inflators and uncompress of src/Runtime/Bindings/lminiz.cpp.   *)
(* A call collects the output of miniz in a luaL_Buffer: full buffers become *)
(* pieces on the Lua stack, which luaL_pushresult joins.                     *)
(***************************************************************************)
EXTENDS lminiz

CONSTANTS
    LUAL_BUFFERSIZE, \* units of output per buffer
    MaxOutput,       \* bound on the output of a stream
    INT_MAX          \* 2^31 - 1, scaled down

ASSUME StreamBounds == LUAL_BUFFERSIZE \in Nat \ {0} /\ MaxOutput \in Nat /\ INT_MAX \in Nat

VARIABLES
    stream,   \* a deflator or inflator, see lmz_stream_t
    returns,  \* the values its last call returned, or Nil
    buffer    \* the last uncompress: bytes needed, its buffer, and how it went

streamVars == <<stream, returns, buffer>>

(* The userdata, and the luaL_Buffer of the running call: pieces on the Lua
   stack (lvl) and units in the current buffer. *)
lmz_stream_t ==
          [kind : {"none", "live", "collected"}, running : BOOLEAN,
           lvl : Nat, size : Nat, total_out : Nat,
           dropped : BOOLEAN,  \* MZ_BUF_ERROR made the binding forget output
           returned : Nat]  \* output the script has, or was told that it is lost

StreamTypeOK ==
    /\ stream \in lmz_stream_t
    /\ returns \in [1..3 -> {"data", "message", "raised", Nil}] \cup {Nil}
    /\ buffer \in [need : Nat, size : Nat, status : {"none", "trying", "done", "failed"}]

(* lmz_deflator_init or lmz_inflator_init. *)
NewStream ==
    /\ stream.kind = "none"
    /\ stream' = [stream EXCEPT !.kind = "live"]
    /\ UNCHANGED <<returns, buffer>>

(* A call of deflate or inflate. *)
StreamCall ==
    /\ stream.kind = "live" /\ ~stream.running /\ stream.total_out < MaxOutput
    /\ stream' = [stream EXCEPT !.running = TRUE, !.lvl = 0, !.size = 0]
    /\ returns' = Nil
    /\ UNCHANGED buffer

(* What luaL_pushresult makes of the stack after nil and the message have been
   pushed on top of the pieces: it concatenates as many of the topmost values
   as it has pushed pieces. *)
ErrorResults(lvl) ==
    CASE lvl = 0 -> <<Nil, "message", "data">>
      [] lvl = 1 -> <<"data", Nil, "message">>
      [] OTHER   -> <<"raised", Nil, Nil>>

(* Mutant of luaL_addsize: the last buffer is left out. *)
luaL_addsize_full(status, added) == IF added = LUAL_BUFFERSIZE THEN added ELSE 0

(* Output in the current buffer is only counted if miniz is content. *)
luaL_addsize(status, added) == IF status = "MZ_BUF_ERROR" THEN 0 ELSE added

(* One turn of the loop: luaL_prepbuffer moves a full buffer to the stack, miniz
   produces some output, and a call that filled its buffer goes on.  A call that
   was given everything at once ends with MZ_BUF_ERROR if it cannot finish. *)
lmz_inflator_deflator_impl ==
    /\ stream.running
    /\ \E added \in 0..LUAL_BUFFERSIZE,
          status \in {"MZ_OK", "MZ_STREAM_END", "MZ_BUF_ERROR", "MZ_DATA_ERROR"} :
         LET lvl == stream.lvl + (IF stream.size > 0 THEN 1 ELSE 0)
             size == luaL_addsize(status, added)
             done == added < LUAL_BUFFERSIZE \/ status = "MZ_DATA_ERROR"
             dropped == stream.dropped \/ (status = "MZ_BUF_ERROR" /\ added > 0)
             total_out == stream.total_out + added
         IN /\ total_out <= MaxOutput
            /\ stream' = [stream EXCEPT !.running = ~done, !.total_out = total_out,
                             !.dropped = dropped,
                             !.lvl = IF done THEN 0 ELSE lvl, !.size = IF done THEN 0 ELSE size,
                             !.returned = CASE ~done -> @
                                            [] status = "MZ_DATA_ERROR" -> total_out
                                            [] OTHER -> @ + LUAL_BUFFERSIZE * lvl + size]
            /\ returns' = CASE ~done -> returns
                            [] status = "MZ_DATA_ERROR" -> ErrorResults(lvl)
                            [] OTHER -> <<"data", Nil, Nil>>
    /\ UNCHANGED buffer

(* lmz_deflator_gc or lmz_inflator_gc. *)
StreamGc ==
    /\ stream.kind = "live" /\ ~stream.running
    /\ stream' = [stream EXCEPT !.kind = "collected"]
    /\ UNCHANGED <<returns, buffer>>

(* Bound: called once, by a script that has no stream.  An initial size outside
   1 .. INT_MAX raises an error. *)
lmz_uncompress(need, out_len) ==
    /\ stream.kind = "none" /\ buffer.status = "none"
    /\ out_len >= 1 /\ out_len <= INT_MAX
    /\ buffer' = [need |-> need, size |-> out_len, status |-> "trying"]
    /\ UNCHANGED <<stream, returns>>

(* One turn of its loop: a buffer that is too small is doubled, and the turn is
   the last one if that makes it larger than an int. *)
UncompressTurn ==
    /\ buffer.status = "trying"
    /\ LET out_len == 2 * buffer.size IN
       buffer' = IF buffer.need <= buffer.size THEN [buffer EXCEPT !.status = "done"]
                 ELSE [buffer EXCEPT !.size = out_len,
                         !.status = IF out_len > 1 /\ out_len < INT_MAX THEN "trying" ELSE "failed"]
    /\ UNCHANGED <<stream, returns>>

-----------------------------------------------------------------------------
StreamInit ==
    /\ stream = [kind |-> "none", running |-> FALSE, lvl |-> 0, size |-> 0,
                 total_out |-> 0, dropped |-> FALSE, returned |-> 0]
    /\ returns = Nil
    /\ buffer = [need |-> 0, size |-> 0, status |-> "none"]

StreamNext ==
    \/ NewStream \/ StreamCall \/ lmz_inflator_deflator_impl \/ StreamGc
    \/ \E need, out_len \in 1..(INT_MAX + 1) : lmz_uncompress(need, out_len)
    \/ UncompressTurn

StreamSpec == StreamInit /\ [][StreamNext]_streamVars

(* Between calls of a deflator or inflator nothing it produced is left behind,
   however many buffers the output of a call fills: the script has it, was told
   of an error, or miniz had reported MZ_BUF_ERROR, which nobody is told. *)
StreamsReturnAllOutput ==
    stream.running \/ stream.dropped \/ stream.returned = stream.total_out

(* uncompress gives up only on what needs more than half of INT_MAX, whatever
   the size it starts with, and never returns less than was needed. *)
UncompressReachesHalf ==
    /\ buffer.status = "failed" => buffer.need > INT_MAX \div 2
    /\ buffer.status = "done" => buffer.size >= buffer.need

(* Neither way to decompress loses data silently, whatever size the buffers
   have. *)
DecompressionIsComplete == StreamsReturnAllOutput /\ UncompressReachesHalf
=============================================================================
