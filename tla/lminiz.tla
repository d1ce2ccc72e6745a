------------------------------- MODULE lminiz -------------------------------
(***************************************************************************)
(* Zip archives (src/Runtime/Bindings/lminiz.cpp).                          *)
(*                                                                         *)
(* Readers and writers are Lua userdata that the collector finalises some   *)
(* time after the script has dropped them.  A reader of a file owns a file  *)
(* descriptor; a reader of a string owns none, but its fields loop and fd   *)
(* are never initialised and hold whatever the memory held.  An archive is  *)
(* the sequence of the names in it.                                         *)
(***************************************************************************)
EXTENDS Integers, Sequences, SequencesExt

CONSTANTS
    Zips,          \* addresses of userdata
    Descriptors,   \* file descriptors
    Names,         \* names of files in archives
    DiskArchive,   \* the archive in a file
    MaxEntries,    \* bound on the entries of a writer
    UINT_RANGE,    \* 2^32, scaled down
    Nil

ASSUME ArchiveAssumption == DiskArchive \in Seq(Names) /\ MaxEntries \in Nat
ASSUME RangeAssumption == UINT_RANGE \in Nat \ {0}
ASSUME EntriesAssumption == MaxEntries < UINT_RANGE /\ Len(DiskArchive) < UINT_RANGE
ASSUME NilAssumption == Nil \notin Descriptors /\ Nil \notin Names
ASSUME OwnerAssumption == {"other", "free"} \cap Zips = {}

VARIABLES
    zips,          \* the userdata, see lmz_file_t
    owner,         \* per descriptor: a reader, "other" code, or "free"
    archive,       \* the archive the script last made, as a string, or Nil
    error_message, \* the last error of the thread, or Nil
    stray          \* uv_fs_close was called by a reader that opened nothing

zipVars == <<zips, owner, archive, error_message, stray>>

(* The userdata; "loop" is whether the pointer is not null. *)
lmz_file_t ==
       [kind : {"none", "file", "memory", "writer"},
        held : BOOLEAN,           \* the script can reach it
        mode : {"invalid", "reading", "writing", "finalized"},
        loop : BOOLEAN,
        fd : Descriptors \cup {Nil},
        entries : Seq(Names)]

ZipTypeOK ==
    /\ zips \in [Zips -> lmz_file_t]
    /\ owner \in [Descriptors -> Zips \cup {"other", "free"}]
    /\ archive \in Seq(Names) \cup {Nil}
    /\ error_message \in {"failed", Nil}
    /\ stray \in BOOLEAN

Unallocated == [kind |-> "none", held |-> FALSE, mode |-> "invalid", loop |-> FALSE,
                fd |-> Nil, entries |-> <<>>]

Free(d) == owner[d] = "free"

-----------------------------------------------------------------------------
(* Readers *)

(* The descriptor is opened before the archive is read: a reader that fails to
   initialise, or whose file cannot be opened, is left to the collector. *)
lmz_reader_init(z) ==
    /\ zips[z].kind = "none"
    /\ \E fd \in {d \in Descriptors : Free(d)} \cup {Nil}, valid \in BOOLEAN :
         /\ fd = Nil => ~valid
         /\ zips' = [zips EXCEPT ![z] =
              [kind |-> "file", held |-> valid, mode |-> IF valid THEN "reading" ELSE "invalid",
               loop |-> TRUE, fd |-> fd, entries |-> IF valid THEN DiskArchive ELSE <<>>]]
         /\ owner' = IF fd = Nil THEN owner ELSE [owner EXCEPT ![fd] = z]
         /\ error_message' = IF valid THEN error_message ELSE "failed"
    /\ UNCHANGED <<archive, stray>>

(* source is Nil if the string is no archive.  The fields of the userdata that
   are not set come from the memory it was given. *)
lmz_reader_init_mem(z, source) ==
    /\ zips[z].kind = "none"
    /\ \E loop \in BOOLEAN, fd \in Descriptors \cup {Nil} :
         zips' = [zips EXCEPT ![z] =
           [kind |-> "memory", held |-> source # Nil,
            mode |-> IF source # Nil THEN "reading" ELSE "invalid",
            loop |-> loop, fd |-> fd, entries |-> IF source # Nil THEN source ELSE <<>>]]
    /\ error_message' = IF source # Nil THEN error_message ELSE "failed"
    /\ UNCHANGED <<owner, archive, stray>>

lmz_last_error ==
    /\ error_message' = Nil
    /\ UNCHANGED <<zips, owner, archive, stray>>

(* Mutant of FileIndex: Lua's index is used as it is. *)
FileIndex_zeroBased(i) == i % UINT_RANGE

(* (mz_uint)luaL_checkinteger(L, 2) - 1, for 32-bit unsigned integers. *)
FileIndex(i) == (i - 1) % UINT_RANGE

Entry(z, i) == IF FileIndex(i) < Len(zips[z].entries)
                 THEN zips[z].entries[FileIndex(i) + 1] ELSE Nil

lmz_reader_get_num_files(z) == Len(zips[z].entries)

lmz_reader_locate_file(z, path) ==
    IF path \in Range(zips[z].entries)
      THEN CHOOSE i \in 1..Len(zips[z].entries) : zips[z].entries[i] = path
      ELSE Nil

lmz_reader_get_filename(z, i) == Entry(z, i)

(* The index in the result counts from zero. *)
lmz_reader_stat(z, i) ==
    IF Entry(z, i) = Nil THEN Nil ELSE [index |-> FileIndex(i), filename |-> Entry(z, i)]

(* An entry that cannot be extracted gives the empty string. *)
lmz_reader_extract(z, i) == IF Entry(z, i) = Nil THEN "empty" ELSE Entry(z, i)

(* Mutant of lmz_reader_gc: nothing is closed. *)
lmz_reader_gc_leaks(z) ==
    /\ zips[z].kind \in {"file", "memory"} /\ ~zips[z].held
    /\ zips' = [zips EXCEPT ![z] = Unallocated]
    /\ UNCHANGED <<owner, archive, error_message, stray>>

(* Finalisation closes the descriptor in fd, if loop is not null. *)
lmz_reader_gc(z) ==
    /\ zips[z].kind \in {"file", "memory"} /\ ~zips[z].held
    /\ zips' = [zips EXCEPT ![z] = Unallocated]
    /\ owner' = IF zips[z].loop /\ zips[z].fd # Nil
                  THEN [owner EXCEPT ![zips[z].fd] = "free"] ELSE owner
    /\ stray' = (stray \/ (zips[z].kind = "memory" /\ zips[z].loop))
    /\ UNCHANGED <<archive, error_message>>

-----------------------------------------------------------------------------
(* Writers *)

lmz_writer_init(z) ==
    /\ zips[z].kind = "none"
    /\ zips' = [zips EXCEPT ![z] =
         [kind |-> "writer", held |-> TRUE, mode |-> "writing", loop |-> TRUE,
          fd |-> Nil, entries |-> <<>>]]
    /\ UNCHANGED <<owner, archive, error_message, stray>>

(* Adding to an archive that has been finalised raises an error. *)
AddEntry(z, name) ==
    /\ zips[z].held /\ zips[z].mode = "writing" /\ Len(zips[z].entries) < MaxEntries
    /\ zips' = [zips EXCEPT ![z].entries = Append(@, name)]
    /\ UNCHANGED <<owner, archive, error_message, stray>>

lmz_writer_add_mem(z, path) == AddEntry(z, path)

(* Mutant of lmz_writer_add_from_zip_reader: the failure is not noticed. *)
lmz_writer_add_from_zip_reader_unchecked(z, source, i) ==
    /\ zips[source].held /\ zips[source].mode = "reading"
    /\ AddEntry(z, Entry(source, i))

lmz_writer_add_from_zip_reader(z, source, i) ==
    /\ zips[source].held /\ zips[source].mode = "reading"
    /\ Entry(source, i) # Nil
    /\ AddEntry(z, Entry(source, i))

lmz_writer_finalize(z) ==
    /\ zips[z].held /\ zips[z].mode = "writing"
    /\ zips' = [zips EXCEPT ![z].mode = "finalized"]
    /\ archive' = zips[z].entries
    /\ UNCHANGED <<owner, error_message, stray>>

lmz_writer_gc(z) ==
    /\ zips[z].kind = "writer" /\ ~zips[z].held
    /\ zips' = [zips EXCEPT ![z] = Unallocated]
    /\ UNCHANGED <<owner, archive, error_message, stray>>

-----------------------------------------------------------------------------
(* The script drops its reference; other code opens and closes files. *)
DropZip(z) ==
    /\ zips[z].held
    /\ zips' = [zips EXCEPT ![z].held = FALSE]
    /\ UNCHANGED <<owner, archive, error_message, stray>>

OtherFile(d) ==
    /\ \/ Free(d) /\ owner' = [owner EXCEPT ![d] = "other"]
       \/ owner[d] = "other" /\ owner' = [owner EXCEPT ![d] = "free"]
    /\ UNCHANGED <<zips, archive, error_message, stray>>

ZipInit ==
    /\ zips = [z \in Zips |-> Unallocated]
    /\ owner = [d \in Descriptors |-> "free"]
    /\ archive = Nil /\ error_message = Nil /\ stray = FALSE

ZipNext ==
    \/ \E z \in Zips :
         \/ lmz_reader_init(z) \/ lmz_reader_gc(z)
         \/ \E source \in {archive, Nil} : lmz_reader_init_mem(z, source)
         \/ lmz_writer_init(z) \/ lmz_writer_finalize(z) \/ lmz_writer_gc(z)
         \/ \E name \in Names : lmz_writer_add_mem(z, name)
         \/ \E source \in Zips, i \in 0..MaxEntries : lmz_writer_add_from_zip_reader(z, source, i)
         \/ DropZip(z)
    \/ \E d \in Descriptors : OtherFile(d)
    \/ lmz_last_error

ZipSpec == ZipInit /\ [][ZipNext]_zipVars

-----------------------------------------------------------------------------
(* A descriptor that a reader opened is open only as long as that reader has
   not been finalised, also if new_reader failed after opening the file. *)
DescriptorsHaveReaders ==
    \A d \in Descriptors :
        owner[d] \in Zips => zips[owner[d]].kind = "file" /\ zips[owner[d]].fd = d

(* Unless the finaliser of a reader of a string has closed a descriptor it never
   opened, every reader of a file still has its file open. *)
ReadersKeepTheirFiles ==
    ~stray => \A z \in Zips : (zips[z].kind = "file" /\ zips[z].fd # Nil) => owner[zips[z].fd] = z

(* Descriptors and readers belong together: no descriptor outlives its reader,
   and no reader its descriptor, whenever the collector gets to them and
   whatever other code opens and closes meanwhile. *)
ReadersOwnTheirDescriptors == DescriptorsHaveReaders /\ ReadersKeepTheirFiles

(* The functions of a reader agree on what an index means: the one that
   locate_file returns names the file, stat's counts from zero, and no index
   outside 1 .. get_num_files, which includes 0 for an unsigned integer, names
   anything. *)
IndicesAgree ==
    \A z \in Zips : zips[z].held /\ zips[z].mode = "reading" =>
        /\ \A name \in Range(zips[z].entries) :
             lmz_reader_get_filename(z, lmz_reader_locate_file(z, name)) = name
        /\ \A i \in 1..lmz_reader_get_num_files(z) :
             lmz_reader_extract(z, lmz_reader_stat(z, i).index + 1) = lmz_reader_get_filename(z, i)
        /\ \A i \in {0, lmz_reader_get_num_files(z) + 1} :
             lmz_reader_stat(z, i) = Nil /\ lmz_reader_extract(z, i) = "empty"
=============================================================================
