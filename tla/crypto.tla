------------------------------- MODULE crypto -------------------------------
(***************************************************************************)
(* Base64 conversions and password hashing (src/Runtime/Bindings/FFI/crypto).*)
(*                                                                         *)
(* The Lua functions convert into one string buffer that is reset before     *)
(* every conversion and keeps the capacity it once grew to.  Bytes have      *)
(* BYTE_BITS bits and characters CHAR_BITS, eight and six in the code; three *)
(* bytes make four characters.  A character is the value of its digit.       *)
(***************************************************************************)
EXTENDS Integers, Sequences, SequencesExt

CONSTANTS
    BYTE_BITS, CHAR_BITS,
    Bytes,           \* the byte values in the inputs
    MaxInput,        \* bound on the length of inputs
    InitialCapacity, \* of the conversion buffer, 128 in the code
    MaxHashes,       \* bound on the calls of openssl_kdf_derive
    None

ASSUME ThreeBytesAreFourCharacters == 3 * BYTE_BITS = 4 * CHAR_BITS
ASSUME BytesAssumption == Bytes \subseteq 0..(2^BYTE_BITS - 1)
ASSUME SizesAssumption ==
    MaxInput \in Nat \ {0} /\ InitialCapacity \in Nat \ {0} /\ MaxHashes \in Nat

VARIABLES
    capacity,    \* of preallocatedConversionBuffer
    conversion,  \* the last conversion
    kdf          \* objects of OpenSSL and what the last hash returned

cryptoVars == <<capacity, conversion, kdf>>

SIZE_MAX == -1
INVALID == 2^CHAR_BITS  \* a character that is no digit

Inputs == UNION {[1..n -> Bytes] : n \in 0..MaxInput}

CryptoTypeOK ==
    /\ capacity \in Nat
    /\ conversion \in [input : Inputs \cup {None}, encoded : Seq(0..INVALID) \cup {None},
                       decoded : Seq(0..(2^BYTE_BITS - 1)) \cup {None}, written : Int]
    /\ kdf \in [objects : Nat, threads : 0..1, hashes : 0..MaxHashes, success : BOOLEAN,
                returned : 0..MaxHashes]

-----------------------------------------------------------------------------
(* crypto_argon2.cpp *)

(* The inner loops: as many characters as acc_len bits hold, highest first. *)
Characters(acc, acc_len) ==
    [k \in 1..(acc_len \div CHAR_BITS) |->
        (acc \div 2^(acc_len - k * CHAR_BITS)) % 2^CHAR_BITS]

(* acc is an unsigned int of four bytes. *)
Shift(acc, byte) == (acc * 2^BYTE_BITS + byte) % 2^(4 * BYTE_BITS)

(* The unrolled loop: three bytes at a time. *)
EncodeBlock(state, block) ==
    LET acc == Shift(Shift(Shift(state.acc, block[1]), block[2]), block[3])
    IN [acc |-> acc, acc_len |-> 0, out |-> state.out \o Characters(acc, 3 * BYTE_BITS)]

(* The bytes that remain, one at a time. *)
EncodeByte(state, byte) ==
    LET acc == Shift(state.acc, byte)
        acc_len == state.acc_len + BYTE_BITS
    IN [acc |-> acc, acc_len |-> acc_len % CHAR_BITS, out |-> state.out \o Characters(acc, acc_len)]

EncodedLength(src_len) ==
    4 * (src_len \div 3) + (CASE src_len % 3 = 0 -> 0 [] src_len % 3 = 1 -> 2 [] OTHER -> 3)

(* None stands for the error value. *)
argon2_to_base64(dst_len, src) ==
    LET blocks == Len(src) \div 3
        full == FoldLeft(EncodeBlock, [acc |-> 0, acc_len |-> 0, out |-> <<>>],
                         [i \in 1..blocks |-> SubSeq(src, 3 * i - 2, 3 * i)])
        rest == FoldLeft(EncodeByte, full, SubSeq(src, 3 * blocks + 1, Len(src)))
        last == IF rest.acc_len = 0 THEN <<>>
                ELSE <<(rest.acc * 2^(CHAR_BITS - rest.acc_len)) % 2^CHAR_BITS>>
    IN IF dst_len <= EncodedLength(Len(src)) THEN None ELSE rest.out \o last

(* One turn of the decoder's loop. *)
DecodeCharacter(dst_len, state, d) ==
    LET acc == (state.acc * 2^CHAR_BITS + d) % 2^(4 * BYTE_BITS)
        acc_len == state.acc_len + CHAR_BITS
        byte == (acc \div 2^(acc_len - BYTE_BITS)) % 2^BYTE_BITS
    IN IF state.status # "decoding" THEN state
       ELSE IF d >= INVALID THEN [state EXCEPT !.status = "stopped"]
       ELSE IF acc_len < BYTE_BITS THEN [state EXCEPT !.acc = acc, !.acc_len = acc_len]
       ELSE IF Len(state.out) >= dst_len THEN [state EXCEPT !.status = "overflow"]
       ELSE [state EXCEPT !.acc = acc, !.acc_len = acc_len - BYTE_BITS,
                          !.out = Append(@, byte)]

(* Mutant of argon2_from_base64: bits that are left over are ignored. *)
argon2_from_base64_lenient(dst_len, src) ==
    LET Step(state, d) == DecodeCharacter(dst_len, state, d)
        end == FoldLeft(Step, [acc |-> 0, acc_len |-> 0, out |-> <<>>, status |-> "decoding"], src)
    IN IF end.status = "overflow" THEN None ELSE end.out

argon2_from_base64(dst_len, src) ==
    LET Step(state, d) == DecodeCharacter(dst_len, state, d)
        end == FoldLeft(Step, [acc |-> 0, acc_len |-> 0, out |-> <<>>, status |-> "decoding"], src)
    IN IF \/ end.status = "overflow"
          \/ end.acc_len > BYTE_BITS \div 2
          \/ end.acc % 2^end.acc_len # 0
         THEN None ELSE end.out

-----------------------------------------------------------------------------
(* crypto.lua *)

(* External: a string buffer doubles its capacity until the space is there, and
   returns all of it. *)
Reserve(space) ==
    LET grown[n \in 1..(2 * (space + capacity))] ==
          IF n >= space THEN n ELSE grown[2 * n]
    IN grown[capacity]

NoConversion == [input |-> None, encoded |-> None, decoded |-> None, written |-> 0]

(* Bound: conversions come before hashes.  A hash is reserved in the same buffer,
   which may grow, but everybody resets it first and copies out what it was for. *)
Idle == conversion = NoConversion /\ kdf.hashes = 0

toCompactBase64(input) ==
    LET len == Reserve(EncodedLength(Len(input)))
        encoded == argon2_to_base64(len, input)
    IN /\ Idle
       /\ capacity' = len
       /\ conversion' = [input |-> input, encoded |-> encoded, decoded |-> None,
                         written |-> IF encoded = None THEN SIZE_MAX ELSE Len(encoded) + 1]
       /\ UNCHANGED kdf

(* Decodes what was encoded last, or characters from elsewhere. *)
fromCompactBase64(characters) ==
    LET len == Reserve((3 * Len(characters) + 3) \div 4)
        decoded == argon2_from_base64(len, characters)
    IN /\ capacity' = len
       /\ conversion' = [conversion EXCEPT !.encoded = characters, !.decoded = decoded,
                           !.written = IF decoded = None THEN SIZE_MAX ELSE Len(decoded)]
       /\ UNCHANGED kdf

DecodeOwn ==
    /\ conversion.encoded # None /\ conversion.input # None
    /\ fromCompactBase64(conversion.encoded)

DecodeForeign(characters) ==
    /\ Idle
    /\ fromCompactBase64(characters)

(* The script is done with the result; the buffer keeps its capacity. *)
DropResult ==
    /\ conversion' = NoConversion
    /\ UNCHANGED <<capacity, kdf>>

-----------------------------------------------------------------------------
(* crypto_ffi.cpp *)

(* The objects that were fetched are only freed if a later step fails, and only
   then is the number of threads reset. *)
openssl_kdf_derive ==
    /\ conversion = NoConversion /\ kdf.hashes < MaxHashes
    /\ \E fails \in {"threads", "fetch", "context", "derive", "none"} :
         kdf' = IF fails = "none"
                  THEN [kdf EXCEPT !.objects = @ + 2, !.threads = 1, !.hashes = @ + 1,
                                   !.success = TRUE, !.returned = @ + 1]
                  ELSE [kdf EXCEPT !.threads = 0, !.hashes = @ + 1, !.success = FALSE]
    /\ UNCHANGED <<capacity, conversion>>

CryptoInit ==
    /\ capacity = InitialCapacity
    /\ conversion = NoConversion
    /\ kdf = [objects |-> 0, threads |-> 0, hashes |-> 0, success |-> FALSE, returned |-> 0]

CryptoNext ==
    \/ \E input \in Inputs : toCompactBase64(input)
    \/ DecodeOwn \/ DropResult
    \/ \E n \in 0..MaxInput : \E characters \in [1..n -> 0..INVALID] : DecodeForeign(characters)
    \/ openssl_kdf_derive

CryptoSpec == CryptoInit /\ [][CryptoNext]_cryptoVars

-----------------------------------------------------------------------------
(* Decoding what was encoded gives the input back, whatever its length modulo
   three. *)
Base64RoundTrips ==
    (conversion.input # None /\ conversion.decoded # None) => conversion.decoded = conversion.input

(* Base64 that comes from elsewhere is accepted only in the form the encoder
   gives it: encoding the result again yields the digits that were decoded. *)
ForeignBase64IsCanonical ==
    (conversion.input = None /\ conversion.decoded # None) =>
        IsPrefix(argon2_to_base64(4 * MaxInput, conversion.decoded), conversion.encoded)

(* No conversion writes behind the buffer, its terminator included. *)
ConversionsFit == conversion.written <= capacity

(* Base64 conversions are inverse to each other, strict, and stay inside their
   buffer. *)
ConversionsAreSound == Base64RoundTrips /\ ForeignBase64IsCanonical /\ ConversionsFit

(* "should return the space required to store the Base64 representation": a
   conversion into a buffer with the space that getSizeOfCompactBase64 asks for
   succeeds. *)
RequiredSpaceSuffices == conversion.written # SIZE_MAX \/ conversion.input = None
=============================================================================
