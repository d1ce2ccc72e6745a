-------------------------------- MODULE iconv --------------------------------
(***************************************************************************)
(* Charset conversion (src/Runtime/Bindings/FFI/iconv/iconv_ffi.cpp).        *)
(*                                                                         *)
(* A request holds two memory areas with a cursor each, and the descriptor   *)
(* of the conversion.  iconv_convert opens a descriptor, converts, and       *)
(* closes it only if everything was converted.  Script code keeps the        *)
(* request and "should close or retry": iconv.convert in iconv.lua does      *)
(* neither.  Scripts may also open and close descriptors of their own.       *)
(*                                                                         *)
(* A request keeps its handle when the descriptor is closed, and nothing     *)
(* keeps a script from closing it again, by then perhaps another's: a        *)
(* history tells whether that has happened.                                  *)
(***************************************************************************)
EXTENDS Integers, FiniteSets

CONSTANTS
    Handles,   \* conversion descriptors
    MaxLength, \* bound on the length of the input, in bytes
    NULL

ASSUME MaxLengthIsNatural == MaxLength \in Nat
ASSUME NoHandle == NULL \notin Handles \cup {"invalid"} /\ "invalid" \notin Handles

VARIABLES
    request,   \* the iconv_request_t of the script
    opened,    \* descriptors that are open
    result,    \* of the last call
    fault,     \* a descriptor was closed that is not open
    own,       \* descriptors that the script opened itself
    abandoned, \* history: descriptors of failed conversions that were retried
    unfinished, \* history: the last conversion failed, and was not closed
    misused    \* history: iconv_try_close was called when that was not so

iconvHistory == <<abandoned, unfinished, misused>>
iconvVars == <<request, opened, result, fault, own, iconvHistory>>

IconvResults ==
    {"OK", "INVALID_REQUEST", "INVALID_DESCRIPTOR", "INVALID_INPUT", "INVALID_OUTPUT",
     "CONVERSION_FAILED", "INCOMPLETE_INPUT", "WRITEBUFFER_FULL", "LAST"}

(* The cursor of an area has passed length - remaining bytes. *)
Memory == [isNull : BOOLEAN, length : 0..MaxLength, remaining : 0..MaxLength]

Area(length) == [isNull |-> FALSE, length |-> length, remaining |-> length]
NullArea == [isNull |-> TRUE, length |-> 0, remaining |-> 0]

IconvTypeOK ==
    /\ request \in [input : Memory, output : Memory, handle : Handles \cup {NULL, "invalid"}]
    /\ opened \subseteq Handles /\ own \subseteq Handles /\ abandoned \subseteq Handles
    /\ result \in IconvResults
    /\ {fault, unfinished, misused} \subseteq BOOLEAN

-----------------------------------------------------------------------------
(* External: bytes are converted one by one until the input is used up, the
   output is full, or the input cannot be converted. *)
iconv_outcome(input, output, errno) ==
    CASE input.remaining = 0 -> "OK"
      [] errno \in {"EILSEQ", "EINVAL"} -> errno
      [] output.remaining < input.remaining -> "E2BIG"
      [] OTHER -> "OK"

iconv_check_errno(errno) ==
    CASE errno = "EILSEQ" -> "CONVERSION_FAILED"
      [] errno = "EINVAL" -> "INCOMPLETE_INPUT"
      [] errno = "E2BIG" -> "WRITEBUFFER_FULL"
      [] OTHER -> "LAST"

(* The build defines NDEBUG: ASSUME is empty. *)
sanity_check_buffer(workload) == ~workload.isNull /\ workload.remaining <= workload.length

sanity_check_descriptor(handle) == handle # "invalid"

(* The script hands over new areas, in a request it may have used before. *)
NewRequest(input, output) ==
    /\ request' = [request EXCEPT !.input = input, !.output = output]
    /\ UNCHANGED <<opened, result, fault, own, iconvHistory>>

(* External: iconv_close of something that is not open is not defined, unless the
   same handle was given out again.  It may or may not report an error. *)
Close(handle) ==
    IF handle \in opened THEN opened' = opened \ {handle} /\ UNCHANGED fault
    ELSE fault' = TRUE /\ UNCHANGED opened

(* Closes whatever handle the request holds, whether or not its descriptor is still
   open, and leaves it there. *)
iconv_try_close ==
    /\ IF request.handle = NULL \/ ~sanity_check_descriptor(request.handle)
         THEN result' = "INVALID_DESCRIPTOR" /\ UNCHANGED <<opened, fault, misused>>
         ELSE /\ Close(request.handle)
              /\ result' \in IF request.handle \in opened THEN {"OK"} ELSE {"OK", "LAST"}
              /\ misused' = (misused \/ ~unfinished)
    /\ unfinished' = FALSE
    /\ UNCHANGED <<request, own, abandoned>>

(* The bindings of iconv.h.  A charset that iconv_open does not know changes
   nothing. *)
iconv_open(handle) ==
    /\ handle \notin opened
    /\ opened' = opened \cup {handle} /\ own' = own \cup {handle}
    /\ UNCHANGED <<request, result, fault, iconvHistory>>

iconv_close(handle) ==
    /\ handle \in own
    /\ own' = own \ {handle} /\ Close(handle)
    /\ UNCHANGED <<request, result, iconvHistory>>

Advance(memory, n) == [memory EXCEPT !.remaining = @ - n]

(* The script can no longer close the descriptor of a conversion that it retries. *)
LoseHandle ==
    /\ abandoned' = abandoned \cup (IF unfinished THEN {request.handle} \cap Handles ELSE {})
    /\ UNCHANGED <<fault, own, misused>>

(* Mutant of Convert: the descriptor is closed also if the conversion failed. *)
Convert_closes(handle, errno) ==
    LET outcome == iconv_outcome(request.input, request.output, errno)
    IN /\ request' = [request EXCEPT !.handle = handle]
       /\ LoseHandle
       /\ result' = IF outcome = "OK" THEN "OK" ELSE iconv_check_errno(outcome)
       /\ unfinished' = (outcome # "OK")
       /\ UNCHANGED opened

(* A conversion with a valid descriptor: n bytes are converted.  The descriptor
   is closed again unless that was not all. *)
Convert(handle, errno) ==
    LET outcome == iconv_outcome(request.input, request.output, errno)
    IN \E n \in 0..request.input.remaining :
         /\ n <= request.output.remaining
         /\ (outcome = "OK") = (n = request.input.remaining)
         /\ outcome = "E2BIG" => n = request.output.remaining
         /\ request' = [input |-> Advance(request.input, n), output |-> Advance(request.output, n),
                        handle |-> handle]
         /\ LoseHandle
         /\ unfinished' = (outcome # "OK")
         /\ IF outcome = "OK" THEN result' = "OK" /\ UNCHANGED opened
            ELSE result' = iconv_check_errno(outcome) /\ opened' = opened \cup {handle}

(* A request that failed before is converted again from its cursors. *)
iconv_convert ==
    \/ /\ ~sanity_check_buffer(request.input) \/ ~sanity_check_buffer(request.output)
       /\ result' = IF ~sanity_check_buffer(request.input) THEN "INVALID_INPUT" ELSE "INVALID_OUTPUT"
       /\ UNCHANGED <<request, opened, fault, own, iconvHistory>>
    \/ /\ sanity_check_buffer(request.input) /\ sanity_check_buffer(request.output)
       /\ \/ \* iconv_open does not know a charset
             /\ request' = [request EXCEPT !.handle = "invalid"]
             /\ LoseHandle
             /\ result' = iconv_check_errno("EINVAL")
             /\ unfinished' = TRUE
             /\ UNCHANGED opened
          \/ \E handle \in Handles \ opened, errno \in {"EILSEQ", "EINVAL", "none"} :
               Convert(handle, errno)

-----------------------------------------------------------------------------
IconvInit ==
    /\ request = [input |-> NullArea, output |-> NullArea, handle |-> NULL]
    /\ opened = {} /\ result = "INVALID_REQUEST" /\ fault = FALSE /\ own = {}
    /\ abandoned = {} /\ unfinished = FALSE /\ misused = FALSE

IconvNext ==
    \/ \E input, output \in {Area(n) : n \in 0..MaxLength} \cup {NullArea} :
         NewRequest(input, output)
    \/ iconv_try_close \/ iconv_convert
    \/ \E handle \in Handles : iconv_open(handle) \/ iconv_close(handle)

IconvSpec == IconvInit /\ [][IconvNext]_iconvVars

-----------------------------------------------------------------------------
(* Nothing is closed that is not open, be it a descriptor of the script's own that
   has got the handle of one that is closed. *)
ClosedOnce == ~fault /\ own \subseteq opened

(* A descriptor that is open is the script's own, or the one of a conversion that
   failed, or was lost when such a conversion was retried: success leaves none
   behind, and failure one that nobody else has. *)
OpenDescriptorsAreAccounted ==
    LET held == IF unfinished THEN {request.handle} \ {"invalid"} ELSE {}
    IN /\ opened = own \cup abandoned \cup held
       /\ held \cap (own \cup abandoned) = {}

(* As long as the script calls iconv_try_close for conversions that failed only, and
   once for each, no descriptor is closed twice, none of its own is closed behind
   its back, and none is forgotten by a conversion that succeeded. *)
DescriptorsAreClosedOnce == ~misused => ClosedOnce /\ OpenDescriptorsAreAccounted
=============================================================================
