-------------------------------- MODULE stbi --------------------------------
(***************************************************************************)
(* Images (src/Runtime/Bindings/FFI/stbi/stbi_ffi.cpp), and the Lua code     *)
(* that asks for the size of an encoded file, reserves it and encodes        *)
(* (src/Runtime/API/C_ImageProcessing.lua).                                  *)
(*                                                                         *)
(* An encoder hands its output over in chunks.  A chunk that does not fit    *)
(* into what is left of the buffer is skipped, and smaller ones behind it    *)
(* are still appended.  A pixel is the four bytes at its index, as in the     *)
(* code, which never looks at how many bytes the pixels of the image have.    *)
(***************************************************************************)
EXTENDS Integers, Sequences, FiniteSets, SequencesExt

CONSTANTS
    MaxChunks, MaxChunkSize, \* bounds on the output of an encoder
    MaxQuality,              \* 100, scaled down
    Colors                   \* values of a pixel: tuples of four channels

(* The output of the JPG encoder is one of the chunk lists. *)
ASSUME EncoderAssumption ==
    MaxChunks \in Nat /\ MaxChunkSize \in Nat \ {0} /\ MaxQuality \in 0..(MaxChunks - 1)
ASSUME ColorAssumption ==
    /\ Colors # {} /\ Colors \subseteq [1..4 -> Nat]
    /\ \A color \in Colors : <<color[4], color[3], color[2], color[1]>> \in Colors

VARIABLES
    image,    \* the stbi_image_t of the script
    pixel,    \* one of its pixels
    gone,     \* the colours that the script has replaced by others in it
    encoded   \* the last file the script encoded

imageVars == <<image, pixel, gone, encoded>>

(* channels is what the file has, also when the loaded data was converted. *)
stbi_image_t ==
    [data : {"null", "live", "freed"}, bytesPerPixel : 0..4, channels : 0..4]

(* An encoded file: the chunks in the buffer, of how many, how many bytes they
   have, how many all of them have, how many were asked for, the size of the
   buffer, and the quality the script wanted. *)
StbiTypeOK ==
    /\ image \in stbi_image_t
    /\ pixel \in Colors /\ gone \subseteq Colors
    /\ encoded \in [kept : Seq(1..MaxChunks), of : 0..MaxChunks, num_bytes_used : Nat,
                    size : Nat, required : Nat, capacity : Nat, quality : Int]

ChunkLists == UNION {[1..n -> 1..MaxChunkSize] : n \in 1..MaxChunks}

-----------------------------------------------------------------------------
(* Bound: a script encodes one file, of an image in which no colour has been
   replaced, and does nothing to the image after that. *)
Unencoded == encoded.of = 0

(* Loading with conversion to n channels, 0 for those of the file.  Data that
   was there before would not be freed. *)
Load(fileChannels, n) ==
    /\ image.data # "live" /\ Unencoded
    /\ image' = [data |-> "live", bytesPerPixel |-> IF n = 0 THEN fileChannels ELSE n,
                 channels |-> fileChannels]
    /\ pixel' \in Colors /\ gone' = {}
    /\ UNCHANGED encoded

stbi_load_image(fileChannels) == Load(fileChannels, 0)
stbi_load_rgb(fileChannels) == Load(fileChannels, 3)
stbi_load_rgba(fileChannels) == Load(fileChannels, 4)
stbi_load_monochrome(fileChannels) == Load(fileChannels, 1)
stbi_load_monochrome_with_alpha(fileChannels) == Load(fileChannels, 2)

(* A file that cannot be decoded leaves a null pointer. *)
LoadFails ==
    /\ image.data # "live"
    /\ image' = [image EXCEPT !.data = "null"]
    /\ UNCHANGED <<pixel, gone, encoded>>

(* Fills in the size and the channels only. *)
stbi_image_info(fileChannels) ==
    /\ image.data # "live"
    /\ image' = [image EXCEPT !.channels = fileChannels]
    /\ UNCHANGED <<pixel, gone, encoded>>

(* The pointer stays; the script frees once. *)
stbi_image_free ==
    /\ image.data = "live"
    /\ image' = [image EXCEPT !.data = "freed"]
    /\ UNCHANGED <<pixel, gone, encoded>>

-----------------------------------------------------------------------------
(* Encoding *)

(* Mutant of append_to_buffer: a chunk may end at the byte after the buffer. *)
append_to_buffer_offByOne(result, chunks, i) ==
    IF result.num_bytes_used + chunks[i] <= result.capacity + 1
      THEN [result EXCEPT !.num_bytes_used = @ + chunks[i], !.kept = Append(@, i)]
      ELSE result

append_to_buffer(result, chunks, i) ==
    IF result.num_bytes_used + chunks[i] <= result.capacity
      THEN [result EXCEPT !.num_bytes_used = @ + chunks[i], !.kept = Append(@, i)]
      ELSE result

count_bytes(byte_counter, size) == byte_counter + size

(* stbi_encode_* for an encoder that produces these chunks. *)
Encode(chunks, capacity) ==
    LET Step(result, i) == append_to_buffer(result, chunks, i)
    IN FoldLeft(Step, [capacity |-> capacity, num_bytes_used |-> 0, kept |-> <<>>],
                [i \in DOMAIN chunks |-> i])

(* stbi_get_required_*_size. *)
RequiredSize(chunks) == FoldLeft(count_bytes, 0, chunks)

(* The quality the encoder is given: clamped when encoding ... *)
stbi_encode_jpg(quality) == IF quality < 0 \/ quality > MaxQuality THEN MaxQuality ELSE quality

(* ... but not when counting. *)
stbi_get_required_jpg_size(quality) == quality

(* External: the output of the JPG encoder grows with the quality, and it takes
   one beyond its range for the nearest in it.  What 0 stands for is left out: it
   is the same when counting and when encoding. *)
JpgChunks(quality) ==
    LET nearest == IF quality < 0 THEN 0
                   ELSE IF quality > MaxQuality THEN MaxQuality ELSE quality
    IN <<MaxChunkSize>> \o [i \in 1..nearest |-> 1]

StoreEncoded(quality, counted, chunks, capacity) ==
    /\ image.data = "live" /\ Unencoded /\ gone = {}
    /\ LET result == Encode(chunks, capacity)
       IN encoded' = [kept |-> result.kept, of |-> Len(chunks),
                      num_bytes_used |-> result.num_bytes_used,
                      size |-> RequiredSize(chunks), required |-> RequiredSize(counted),
                      capacity |-> capacity, quality |-> quality]
    /\ UNCHANGED <<image, pixel, gone>>

(* C_ImageProcessing.Encode*: what was asked for, or a little more, is reserved. *)
EncodeReserved(chunks, slack) == StoreEncoded(0, chunks, chunks, RequiredSize(chunks) + slack)

(* The same for a script that chooses the quality, of which nothing checks the range. *)
EncodeReservedJpg(quality) ==
    LET counted == JpgChunks(stbi_get_required_jpg_size(quality))
    IN StoreEncoded(quality, counted, JpgChunks(stbi_encode_jpg(quality)), RequiredSize(counted))

(* A script with a buffer of its own. *)
EncodeInto(chunks, capacity) == StoreEncoded(0, chunks, chunks, capacity)

-----------------------------------------------------------------------------
(* Pixels, four bytes each *)

abgr_to_rgba(color) == <<color[4], color[3], color[2], color[1]>>

stbi_abgr_to_rgba ==
    /\ image.data = "live" /\ Unencoded
    /\ pixel' = abgr_to_rgba(pixel)
    /\ gone' = {abgr_to_rgba(color) : color \in gone}
    /\ UNCHANGED <<image, encoded>>

(* Only a replacement can bring a colour back that was replaced before. *)
stbi_replace_pixel_color_rgba(source_color, replacement_color) ==
    /\ image.data = "live" /\ Unencoded
    /\ pixel' = IF pixel = source_color THEN replacement_color ELSE pixel
    /\ gone' = IF source_color = replacement_color THEN gone
               ELSE (gone \cup {source_color}) \ {replacement_color}
    /\ UNCHANGED <<image, encoded>>

-----------------------------------------------------------------------------
StbiInit ==
    /\ image = [data |-> "null", bytesPerPixel |-> 0, channels |-> 0]
    /\ pixel = (CHOOSE color \in Colors : TRUE) /\ gone = {}
    /\ encoded = [kept |-> <<>>, of |-> 0, num_bytes_used |-> 0, size |-> 0, required |-> 0,
                  capacity |-> 0, quality |-> 0]

StbiNext ==
    \/ \E n \in 1..4 : \/ stbi_load_image(n) \/ stbi_load_rgb(n) \/ stbi_load_rgba(n)
                       \/ stbi_load_monochrome(n) \/ stbi_load_monochrome_with_alpha(n)
                       \/ stbi_image_info(n)
    \/ LoadFails \/ stbi_image_free
    \/ \E chunks \in ChunkLists :
         \/ \E slack \in {0, 1} : EncodeReserved(chunks, slack)
         \/ \E capacity \in 0..(MaxChunks * MaxChunkSize) : EncodeInto(chunks, capacity)
    \/ \E quality \in -1..(MaxQuality + 1) : EncodeReservedJpg(quality)
    \/ stbi_abgr_to_rgba
    \/ \E source, replacement \in Colors : stbi_replace_pixel_color_rgba(source, replacement)

StbiSpec == StbiInit /\ [][StbiNext]_imageVars

(* A file is whole exactly if it has as many bytes as its encoder produced,
   whatever was appended behind a gap, it is whole if they fit into the buffer,
   and no file overruns its buffer.  The size that is asked for is the one that
   is needed, but for a JPG of a negative quality, which is counted with the
   lowest and encoded with the highest. *)
EncodedFilesAreWhole ==
    LET whole == encoded.kept = [i \in 1..encoded.of |-> i] IN
    /\ encoded.num_bytes_used <= encoded.capacity
    /\ whole = (encoded.num_bytes_used = encoded.size)
    /\ encoded.capacity >= encoded.size => whole
    /\ encoded.quality >= 0 => encoded.required = encoded.size

(* A colour that was replaced by another stays away until it is itself what
   another is replaced by, in whatever order the script replaces colours and
   converts the pixel format. *)
ReplacedColorsAreGone == image.data = "live" => pixel \notin gone

(* Neither a file nor a pixel is left half done. *)
ImagesAreSound == EncodedFilesAreWhole /\ ReplacedColorsAreGone
=============================================================================
